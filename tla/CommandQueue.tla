---------------------------- MODULE CommandQueue ----------------------------
(***************************************************************************)
(* nc::gui::CommandQueue, the Commands it owns and the Activities they     *)
(* delegate to the thread pool (nc/gui/CommandQueue.cpp, Command.cpp,      *)
(* Activity.cpp; the build with NC_USE_THREADS).                           *)
(*                                                                         *)
(* Two kinds of threads move.  The GUI thread calls push() and clear() on  *)
(* behalf of the user and delivers posted events in FIFO order; one call   *)
(* or one delivery is one step, because nothing in it returns to the event *)
(* loop.  Worker threads run activities.  They meet in two places: the     *)
(* list of posted events, to which a worker adds activityFinished, and the *)
(* cancellation token a command shares with its activities.                *)
(*                                                                         *)
(* Qt is modelled from its use: a queued connection posts an event to the  *)
(* receiver; an event for a destroyed receiver is never delivered, one     *)
(* from a destroyed sender is.                                             *)
(***************************************************************************)
EXTENDS Integers, Sequences, FiniteSets

CONSTANTS Commands,     \* command objects; each is pushed at most once
          NoCommand,    \* the null front_
          Delegated,    \* Delegated[c]: how many activities c's work() delegates
          MaxThreads,   \* QThreadPool::maxThreadCount()
          MaxClears     \* bound: how many times the user clears the queue

ASSUME CommandsAssumption == NoCommand \notin Commands
ASSUME DelegatedAssumption == Delegated \in [Commands -> Nat]
ASSUME BoundsAssumption == MaxThreads \in Nat \ {0} /\ MaxClears \in Nat

VARIABLES
    queue_,             \* CommandQueue::queue_
    front_,             \* CommandQueue::front_
    activityCount_,     \* Command::activityCount_ of every command
    cancelled,          \* the flag of every command's cancellation token
    pool,               \* activities the pool has not started, oldest first
    running,            \* activities being run by a worker
    posted,             \* posted events of the GUI thread, oldest first
    statusBar,          \* what updateGuiState() last showed: the front_ it saw
    status,             \* "open"; "destroyed": ~CommandQueue ran; "aborted": an assert failed
    pushed, executed,   \* history: the order of push() and of execute()
    clears              \* how often clear() was called (see MaxClears)

queueVars   == <<queue_, front_, statusBar>>
commandVars == <<activityCount_, cancelled>>
workerVars  == <<pool, running>>
vars == <<queueVars, commandVars, workerVars, posted, status, pushed, executed, clears>>

Elements(s) == {s[i] : i \in DOMAIN s}

\* The activities of a command are numbered in the order of delegate().
Activities == Commands \X Nat
ActivitiesOf(c) == [i \in 1..Delegated[c] |-> <<c, i>>]

\* Queued connections: activity -> command and command -> queue.
ActivityFinished(a) == [slot |-> "activityFinished", command |-> a[1], number |-> a[2]]
CommandFinished(c) == [slot |-> "commandFinished", command |-> c, number |-> 0]
Events == [slot : {"activityFinished", "commandFinished"}, command : Commands, number : Nat]

\* Commands are owned by front_ and by queue_, and by nothing else between steps.
Owned == Elements(queue_) \cup ({front_} \ {NoCommand})
-----------------------------------------------------------------------------
TypeOK ==
    /\ queue_ \in Seq(Commands)
    /\ front_ \in Commands \cup {NoCommand}
    /\ activityCount_ \in [Commands -> Nat]
    /\ cancelled \in [Commands -> BOOLEAN]
    /\ pool \in Seq(Activities)
    /\ running \in SUBSET Activities
    /\ posted \in Seq(Events)
    /\ statusBar \in Commands \cup {NoCommand}
    /\ status \in {"open", "destroyed", "aborted"}
    /\ pushed \in Seq(Commands)
    /\ executed \in Seq(Commands)
    /\ clears \in Nat

Init ==
    /\ queue_ = <<>>
    /\ front_ = NoCommand
    /\ activityCount_ = [c \in Commands |-> 0]
    /\ cancelled = [c \in Commands |-> FALSE]
    /\ pool = <<>>
    /\ running = {}
    /\ posted = <<>>
    /\ statusBar = NoCommand
    /\ status = "open"
    /\ pushed = <<>>
    /\ executed = <<>>
    /\ clears = 0
-----------------------------------------------------------------------------
\* Command::~Command cancels the command's token.
DestroyedTokens(cs) == [c \in Commands |-> cancelled[c] \/ c \in cs]

\* Command::execute: work() delegates the activities; the count that execute()
\* itself holds is returned at once.  A command that delegated nothing is finished
\* here, before control returns to the caller.
ExecuteForgetsToAnnounce(c, tokens, events) ==
    /\ cancelled' = [tokens EXCEPT ![c] = FALSE]
    /\ activityCount_' = [activityCount_ EXCEPT ![c] = @ + Delegated[c]]
    /\ pool' = pool \o ActivitiesOf(c)
    /\ executed' = Append(executed, c)
    /\ posted' = events

ExecuteCountsOneActivity(c, tokens, events) ==
    /\ cancelled' = [tokens EXCEPT ![c] = FALSE]
    /\ activityCount_' = [activityCount_ EXCEPT ![c] = @ + (IF Delegated[c] = 0 THEN 0 ELSE 1)]
    /\ pool' = pool \o ActivitiesOf(c)
    /\ executed' = Append(executed, c)
    /\ posted' = IF activityCount_'[c] = 0 THEN Append(events, CommandFinished(c)) ELSE events

ExecuteFinishesAtOnce(c, tokens, events) ==
    /\ cancelled' = [tokens EXCEPT ![c] = FALSE]
    /\ activityCount_' = [activityCount_ EXCEPT ![c] = @ + Delegated[c]]
    /\ pool' = pool \o ActivitiesOf(c)
    /\ executed' = Append(executed, c)
    /\ posted' = Append(events, CommandFinished(c))

Execute(c, tokens, events) ==
    /\ cancelled' = [tokens EXCEPT ![c] = FALSE]
    /\ activityCount_' = [activityCount_ EXCEPT ![c] = @ + Delegated[c]]
    /\ pool' = pool \o ActivitiesOf(c)
    /\ executed' = Append(executed, c)
    /\ posted' = IF activityCount_'[c] = 0 THEN Append(events, CommandFinished(c)) ELSE events

\* CommandQueue::executeNext, entered with the given queue_ and front_.
ExecuteNextTakesLast(queue, front, tokens, events) ==
    \/ /\ front # NoCommand
       /\ queue_' = queue /\ front_' = front
       /\ cancelled' = tokens /\ posted' = events
       /\ UNCHANGED <<statusBar, activityCount_, pool, executed>>
    \/ /\ front = NoCommand /\ queue = <<>>
       /\ queue_' = <<>> /\ front_' = NoCommand /\ statusBar' = NoCommand
       /\ cancelled' = tokens /\ posted' = events
       /\ UNCHANGED <<activityCount_, pool, executed>>
    \/ /\ front = NoCommand /\ queue # <<>>
       /\ queue_' = SubSeq(queue, 1, Len(queue) - 1)
       /\ front_' = queue[Len(queue)] /\ statusBar' = queue[Len(queue)]
       /\ Execute(queue[Len(queue)], tokens, events)

ExecuteNext(queue, front, tokens, events) ==
    \/ /\ front # NoCommand
       /\ queue_' = queue /\ front_' = front
       /\ cancelled' = tokens /\ posted' = events
       /\ UNCHANGED <<statusBar, activityCount_, pool, executed>>
    \/ /\ front = NoCommand /\ queue = <<>>
       /\ queue_' = <<>> /\ front_' = NoCommand /\ statusBar' = NoCommand
       /\ cancelled' = tokens /\ posted' = events
       /\ UNCHANGED <<activityCount_, pool, executed>>
    \/ /\ front = NoCommand /\ queue # <<>>
       /\ queue_' = Tail(queue)
       /\ front_' = Head(queue) /\ statusBar' = Head(queue)
       /\ Execute(Head(queue), tokens, events)

\* CommandQueue::push, called with a command that was just created.
Push(c) ==
    /\ status = "open"
    /\ c \notin Elements(pushed)
    /\ pushed' = Append(pushed, c)
    /\ ExecuteNext(Append(queue_, c), front_, cancelled, posted)
    /\ UNCHANGED <<running, status, clears>>

\* CommandQueue::clear while a command is current; otherwise it does nothing.
ClearSilently ==
    /\ status = "open" /\ clears < MaxClears
    /\ clears' = clears + 1
    /\ front_ # NoCommand
    /\ cancelled' = DestroyedTokens(Owned)
    /\ front_' = NoCommand /\ queue_' = <<>>
    /\ UNCHANGED <<statusBar, activityCount_, workerVars, posted, status, pushed, executed>>

Clear ==
    /\ status = "open" /\ clears < MaxClears
    /\ clears' = clears + 1
    /\ front_ # NoCommand
    /\ cancelled' = DestroyedTokens(Owned)
    /\ front_' = NoCommand /\ queue_' = <<>> /\ statusBar' = NoCommand
    /\ UNCHANGED <<activityCount_, workerVars, posted, status, pushed, executed>>

\* ~CommandQueue: the project is replaced by another one (MainWindow::open).  The
\* events posted to the queue go with it, those to its commands too.
Destroy ==
    /\ status = "open"
    /\ status' = "destroyed"
    /\ cancelled' = DestroyedTokens(Owned)
    /\ front_' = NoCommand /\ queue_' = <<>> /\ statusBar' = NoCommand
    /\ posted' = <<>>
    /\ UNCHANGED <<activityCount_, workerVars, pushed, executed, clears>>
-----------------------------------------------------------------------------
\* A worker of the pool takes the oldest activity.
StartActivity ==
    /\ status # "aborted"
    /\ pool # <<>> /\ Cardinality(running) < MaxThreads
    /\ running' = running \cup {Head(pool)}
    /\ pool' = Tail(pool)
    /\ UNCHANGED <<queueVars, commandVars, posted, status, pushed, executed, clears>>

\* Activity::run returns from work() and emits finished().
FinishActivity(a) ==
    /\ status # "aborted"
    /\ running' = running \ {a}
    /\ posted' = Append(posted, ActivityFinished(a))
    /\ UNCHANGED <<queueVars, commandVars, pool, status, pushed, executed, clears>>
-----------------------------------------------------------------------------
\* Command::activityFinished, or nothing when the command was destroyed.
DeliverActivityFinished ==
    /\ status # "aborted"
    /\ posted # <<>> /\ Head(posted).slot = "activityFinished"
    /\ LET c == Head(posted).command
       IN  \/ /\ c \in Owned
              /\ activityCount_' = [activityCount_ EXCEPT ![c] = @ - 1]
              /\ posted' = IF activityCount_'[c] = 0
                           THEN Append(Tail(posted), CommandFinished(c))
                           ELSE Tail(posted)
           \/ /\ c \notin Owned
              /\ posted' = Tail(posted)
              /\ UNCHANGED activityCount_
    /\ UNCHANGED <<queueVars, cancelled, workerVars, status, pushed, executed, clears>>

\* CommandQueue::commandFinished.  The slot does not ask which command is finished:
\* the event of a command that clear() destroyed ends the current one, or finds none
\* and fails the assertion.
DeliverCommandFinishedKeepsToken ==
    /\ status # "aborted"
    /\ posted # <<>> /\ Head(posted).slot = "commandFinished"
    /\ \/ /\ front_ = NoCommand
          /\ status' = "aborted"
          /\ UNCHANGED <<queueVars, commandVars, pool, posted, executed>>
       \/ /\ front_ # NoCommand
          /\ ExecuteNext(queue_, NoCommand, cancelled, Tail(posted))
          /\ UNCHANGED status
    /\ UNCHANGED <<running, pushed, clears>>

DeliverCommandFinished ==
    /\ status # "aborted"
    /\ posted # <<>> /\ Head(posted).slot = "commandFinished"
    /\ \/ /\ front_ = NoCommand
          /\ status' = "aborted"
          /\ UNCHANGED <<queueVars, commandVars, pool, posted, executed>>
       \/ /\ front_ # NoCommand
          /\ ExecuteNext(queue_, NoCommand, DestroyedTokens({front_}), Tail(posted))
          /\ UNCHANGED status
    /\ UNCHANGED <<running, pushed, clears>>
-----------------------------------------------------------------------------
Workers == StartActivity \/ \E a \in running : FinishActivity(a)
EventLoop == DeliverActivityFinished \/ DeliverCommandFinished

\* Nobody clears the queue and the project stays open.
UndisturbedNext == (\E c \in Commands : Push(c)) \/ Workers \/ EventLoop
Next == UndisturbedNext \/ Clear \/ Destroy

\* The event loop delivers what is posted; a free worker takes a waiting activity;
\* every activity returns (its analyses are bounded and heed the token).
Fairness ==
    /\ WF_vars(EventLoop)
    /\ WF_vars(StartActivity)
    /\ \A c \in Commands : \A i \in 1..Delegated[c] :
          WF_vars(<<c, i>> \in running /\ FinishActivity(<<c, i>>))

Spec == Init /\ [][Next]_vars /\ Fairness
-----------------------------------------------------------------------------
Unfinished == Elements(pool) \cup running

\* Command::activityCount_ is the number of its activities the command has not heard
\* of: waiting in the pool, running, or finished with the event still posted.  The
\* asserts of Command.cpp:46 and :71 and the finished() signal rest on it.
ActivityCountMatches ==
    \A c \in Owned :
        activityCount_[c] = Cardinality({i \in 1..Delegated[c] :
            <<c, i>> \in Unfinished \/ ActivityFinished(<<c, i>>) \in Elements(posted)})

\* An activity the queue no longer waits for has been told to stop: clear(), the
\* destructor and even a stale commandFinished() leave no uncancelled activity behind,
\* so at most one command does useful work at any time.
AbandonedAreCancelled == \A a \in Unfinished : a[1] = front_ \/ cancelled[a[1]]

\* No lost wake-up: when the current command has nothing left to wait for, the event
\* that makes the queue go on is posted.
FinishIsAnnounced ==
    (front_ # NoCommand /\ activityCount_[front_] = 0)
        => CommandFinished(front_) \in Elements(posted)

\* Commands are executed in the order they were pushed (doc/developer/main.tex:767),
\* whatever clear() drops in between.
ExecutedInOrder ==
    \A i, j \in DOMAIN executed : i < j =>
        \E k, l \in DOMAIN pushed :
            k < l /\ pushed[k] = executed[i] /\ pushed[l] = executed[j]

\* The progress bar and the "Cancel All" action, which are updated on nextCommand()
\* and idle() only, always reflect whether a command is current, and which.
StatusBarShowsFront == status # "aborted" => statusBar = front_

\* Every command pushed is eventually executed to its end or dropped: neither a
\* cancelled activity nor a stale event leaves the queue stuck.
EveryCommandSettles ==
    \A c \in Commands :
        (c \in Elements(pushed)) ~> (c \notin Owned \/ status = "aborted")

\* CommandQueue.cpp:86, assert(front_ != NULL).
FrontAssertionHolds == status # "aborted"
-----------------------------------------------------------------------------
\* As long as nobody clears the queue or closes the project, the queue is a serial
\* executor of commands ...
Disturbed == clears > 0 \/ status # "open"

Serial == INSTANCE SerialExecutor WITH
    waiting <- queue_, current <- front_, completed <- Elements(executed) \ {front_},
    disturbed <- Disturbed

SerialSpec == Serial!Spec

\* ... and a command that is over has no activity left: the next command starts only
\* after all of its activities are done.
OnlyFrontWorks == Disturbed \/ \A a \in Unfinished : a[1] = front_
=============================================================================
