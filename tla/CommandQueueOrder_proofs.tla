---------------------- MODULE CommandQueueOrder_proofs ----------------------
(***************************************************************************)
(* The order in which CommandQueue executes its commands, for any          *)
(* commands, any number of activities and threads, and any use of clear(): *)
(* commands run in the order of push(); until somebody calls clear(), one  *)
(* runs at a time, no assertion fails, and the queue implements            *)
(* SerialExecutor.                                                         *)
(***************************************************************************)
EXTENDS CommandQueue_proofs

-----------------------------------------------------------------------------
(* First in, first out.  The commands executed so far followed by those waiting are
   in the order of push(): executeNext() moves the border between the two parts,
   push() appends to the end, and clear() cuts the second part off. *)

InOrderOf(pu, s) ==
    \A i, j \in DOMAIN s : i < j =>
        \E k, l \in DOMAIN pu : k < l /\ pu[k] = s[i] /\ pu[l] = s[j]
OrderInv == InOrderOf(pushed, executed \o queue_)

\* executeNext() does not change the line of executed and waiting commands.
LEMMA ExecuteNextKeepsLine ==
    ASSUME NEW q \in Seq(Commands), NEW f, NEW tokens, NEW ev,
           executed \in Seq(Commands), ExecuteNext(q, f, tokens, ev)
    PROVE  executed' \o queue_' = executed \o q
<1>1. CASE f # NoCommand \/ q = <<>>
  BY <1>1 DEF ExecuteNext
<1>2. CASE f = NoCommand /\ q # <<>>
  <2>1. queue_' = Tail(q) /\ executed' = Append(executed, Head(q))
    BY <1>2 DEF ExecuteNext, Execute
  <2> QED BY <1>2, <2>1
<1> QED BY <1>1, <1>2

\* A command that is appended to both comes after every command that was in the line.
LEMMA PushExtendsLine ==
    ASSUME NEW s \in Seq(Commands), NEW c \in Commands, NEW pu \in Seq(Commands),
           Elements(s) \subseteq Elements(pu), InOrderOf(pu, s)
    PROVE  InOrderOf(Append(pu, c), Append(s, c))
<1> DEFINE new == Append(pu, c)
           t == Append(s, c)
<1>1. /\ Len(pu) \in Nat /\ DOMAIN pu = 1..Len(pu)
      /\ DOMAIN new = 1..(Len(pu) + 1) /\ new[Len(pu) + 1] = c
      /\ \A k \in DOMAIN pu : new[k] = pu[k]
  OBVIOUS
<1>2. /\ Len(s) \in Nat /\ DOMAIN s = 1..Len(s) /\ DOMAIN t = 1..(Len(s) + 1)
      /\ t[Len(s) + 1] = c /\ \A i \in DOMAIN s : t[i] = s[i]
  OBVIOUS
<1> HIDE DEF new, t
<1> SUFFICES ASSUME NEW i \in DOMAIN t, NEW j \in DOMAIN t, i < j
             PROVE  \E k, l \in DOMAIN new : k < l /\ new[k] = t[i] /\ new[l] = t[j]
  BY DEF InOrderOf, new, t
<1>3. CASE j = Len(s) + 1
  <2>1. i \in DOMAIN s /\ t[i] = s[i] /\ s[i] \in Elements(pu)
    BY <1>2, <1>3 DEF Elements
  <2>2. PICK k \in DOMAIN pu : pu[k] = t[i]
    BY <2>1 DEF Elements
  <2>3. k \in DOMAIN new /\ Len(pu) + 1 \in DOMAIN new /\ k < Len(pu) + 1
        /\ new[k] = t[i] /\ new[Len(pu) + 1] = t[j]
    BY <1>1, <1>2, <1>3, <2>2
  <2> QED BY <2>3
<1>4. CASE j # Len(s) + 1
  <2>1. i \in DOMAIN s /\ j \in DOMAIN s /\ t[i] = s[i] /\ t[j] = s[j]
    BY <1>2, <1>4
  <2>2. PICK k \in DOMAIN pu, l \in DOMAIN pu : k < l /\ pu[k] = t[i] /\ pu[l] = t[j]
    BY <2>1 DEF InOrderOf
  <2>3. k \in DOMAIN new /\ l \in DOMAIN new /\ new[k] = t[i] /\ new[l] = t[j]
    BY <1>1, <2>2
  <2> QED BY <2>2, <2>3
<1> QED BY <1>3, <1>4

\* A beginning of an ordered line is ordered.
LEMMA ExecutedPart ==
    ASSUME NEW pu, NEW s \in Seq(Commands), NEW q \in Seq(Commands), InOrderOf(pu, s \o q)
    PROVE  InOrderOf(pu, s)
<1>1. /\ DOMAIN s \subseteq DOMAIN (s \o q)
      /\ \A i \in DOMAIN s : (s \o q)[i] = s[i]
  OBVIOUS
<1> QED BY <1>1 DEF InOrderOf

\* Every step keeps the order: what joins the executed was the first to wait.
LEMMA NextOrders == CountInv /\ OrderInv /\ [Next]_vars => OrderInv'
<1> SUFFICES ASSUME CountInv, OrderInv, [Next]_vars PROVE OrderInv'
  OBVIOUS
<1> USE DEF OrderInv
<1>1. /\ executed \in Seq(Commands) /\ queue_ \in Seq(Commands) /\ pushed \in Seq(Commands)
      /\ Elements(executed) \subseteq Elements(pushed) /\ Elements(queue_) \subseteq Elements(pushed)
  BY DEF CountInv, Scheduled, Rest
<1>2. ASSUME executed' \o queue_' = executed \o queue_, pushed' = pushed PROVE OrderInv'
  BY <1>2
<1>3. ASSUME NEW c \in Commands, Push(c) PROVE OrderInv'
  <2> PICK line, q, ev, tokens : /\ line = executed \o queue_ /\ q = Append(queue_, c)
                                 /\ ev = posted /\ tokens = cancelled
    OBVIOUS
  <2>1. pushed' = Append(pushed, c) /\ ExecuteNext(q, front_, tokens, ev)
    BY <1>3 DEF Push
  <2>2. q \in Seq(Commands) /\ line \in Seq(Commands) /\ Elements(line) \subseteq Elements(pushed)
    BY <1>1, ConcatElements
  <2>3. InOrderOf(pushed', Append(line, c))
    BY <1>1, <2>1, <2>2, PushExtendsLine
  <2>4. executed \o q = Append(line, c)
    BY <1>1
  <2>5. executed' \o queue_' = executed \o q
    BY <1>1, <2>1, <2>2, ExecuteNextKeepsLine
  <2> QED BY <2>3, <2>4, <2>5
<1>4. CASE StartActivity \/ (\E a \in running : FinishActivity(a)) \/ DeliverActivityFinished
  BY <1>2, <1>4 DEF StartActivity, FinishActivity, DeliverActivityFinished, queueVars
<1>5. CASE DeliverCommandFinished
  <2>1. CASE front_ = NoCommand
    BY <1>2, <1>5, <2>1 DEF DeliverCommandFinished, queueVars
  <2>2. CASE front_ # NoCommand
    <3> PICK tokens, ev : tokens = DestroyedTokens({front_}) /\ ev = Tail(posted)
      OBVIOUS
    <3>1. ExecuteNext(queue_, NoCommand, tokens, ev) /\ pushed' = pushed
      BY <1>5, <2>2 DEF DeliverCommandFinished
    <3> QED BY <1>1, <1>2, <3>1, ExecuteNextKeepsLine
  <2> QED BY <2>1, <2>2
<1>6. CASE Clear \/ Destroy
  <2>1. queue_' = <<>> /\ UNCHANGED <<executed, pushed>>
    BY <1>6 DEF Clear, Destroy
  <2>2. executed' \o queue_' = executed
    BY <1>1, <2>1
  <2> QED BY <1>1, <2>1, <2>2, ExecutedPart
<1>7. CASE UNCHANGED vars
  BY <1>2, <1>7 DEF vars, queueVars
<1> QED BY <1>3, <1>4, <1>5, <1>6, <1>7 DEF Next, UndisturbedNext, Workers, EventLoop

\* A beginning of what is in order is in order.
LEMMA OrderFollows == CountInv /\ OrderInv => ExecutedInOrder
<1> SUFFICES ASSUME CountInv, OrderInv PROVE InOrderOf(pushed, executed)
  BY DEF InOrderOf, ExecutedInOrder
<1>1. executed \in Seq(Commands) /\ queue_ \in Seq(Commands)
  BY DEF CountInv, Scheduled
<1> QED BY <1>1, ExecutedPart DEF OrderInv

\* Commands are executed in the order in which push() received them, whatever clear()
\* and stale commandFinished() events drop in between.
THEOREM FirstInFirstOut == Spec => []ExecutedInOrder
<1>1. Init => OrderInv
  BY DEF Init, OrderInv, InOrderOf
<1> QED BY <1>1, NextOrders, OrderFollows, Counting, PTL DEF Spec
-----------------------------------------------------------------------------
(* One command at a time.  Until somebody calls clear(), everything unfinished and
   every end posted belongs to the current command; commandFinished() is posted when
   nothing of the command is left (CountInv), so the next one starts alone. *)

\* The event ends an activity or a command.
IsEnd(e) == e.slot \in {"activityFinished", "commandFinished"}

Alone(f, ev) ==
    /\ \A a \in Unfinished : a[1] = f
    /\ \A e \in Elements(ev) : IsEnd(e) => e.command = f /\ (e.slot = "commandFinished" => e.number = 0)

\* After ~CommandQueue activities may still end, but no command announces its end.
AloneInv ==
    clears = 0 =>
        \/ status = "open" /\ Alone(front_, posted)
        \/ /\ status = "destroyed" /\ front_ = NoCommand /\ queue_ = <<>>
           /\ \A e \in Elements(posted) : e.slot # "commandFinished"

\* Posting an event adds it to those that are posted.
LEMMA EventElements ==
    \A ev \in Seq(Posts) :
        /\ Elements(ev) \subseteq Posts
        /\ \A e \in Posts : Elements(Append(ev, e)) = Elements(ev) \cup {e}
<1> SUFFICES ASSUME NEW ev \in Seq(Posts)
             PROVE  /\ Elements(ev) \subseteq Posts
                    /\ \A e \in Posts : Elements(Append(ev, e)) = Elements(ev) \cup {e}
  OBVIOUS
<1>1. \A i \in DOMAIN ev : ev[i] \in Posts
  OBVIOUS
<1>2. Elements(ev) \subseteq Posts
  BY <1>1 DEF Elements
<1> QED BY <1>2, AppendElements

\* executeNext() is entered with everything unfinished of the front, or with no front
\* and nothing unfinished; what it starts or announces is of the new front.
LEMMA ExecuteNextAlone ==
    ASSUME NEW q \in Seq(Commands), NEW f \in Commands \cup {NoCommand}, NEW tokens,
           NEW ev \in Seq(Posts), pool \in Seq(Activities), running \subseteq Activities,
           Alone(f, ev), ExecuteNext(q, f, tokens, ev), running' = running
    PROVE  Alone(front_, posted)'
<1>1. CASE f # NoCommand \/ q = <<>>
  <2>1. front_' = f /\ posted' = ev /\ pool' = pool
    BY <1>1 DEF ExecuteNext
  <2> QED BY <2>1 DEF Alone, Unfinished
<1>2. CASE f = NoCommand /\ q # <<>>
  <2> PICK c : c = Head(q)
    OBVIOUS
  <2>1. c \in Commands
    BY <1>2, TailElements
  <2>2. /\ front_' = c /\ pool' = pool \o ActivitiesOf(c)
        /\ posted' \in {ev, Append(ev, CommandFinished(c))}
    BY <1>2 DEF ExecuteNext, Execute
  <2>3. Elements(pool') = Elements(pool) \cup {<<c, i>> : i \in 1..Delegated[c]}
    BY <2>1, <2>2, ActivitiesOfElements, ConcatElements
  <2>4. Elements(posted') \subseteq Elements(ev) \cup {CommandFinished(c)}
    BY <2>1, <2>2, EventsDiffer, EventElements
  <2>5. Unfinished = {} /\ \A e \in Elements(ev) : ~IsEnd(e)
    <3>1. \A a \in Unfinished : a[1] \in Commands
      BY DEF Unfinished, Activities, Elements
    <3>2. \A e \in Elements(ev) : e.command \in Commands
      BY EventElements DEF Posts
    <3> QED BY <1>2, <3>1, <3>2, CommandsAssumption DEF Alone
  <2>6. \A a \in Unfinished' : a[1] = c
    BY <2>3, <2>5 DEF Unfinished
  <2>7. \A e \in Elements(posted') : IsEnd(e) => e.command = c /\ (e.slot = "commandFinished" => e.number = 0)
    BY <2>4, <2>5 DEF CommandFinished
  <2> QED BY <2>2, <2>6, <2>7 DEF Alone
<1> QED BY <1>1, <1>2

\* An event of the slot commandFinished is a command's.
LEMMA FinishedEvent ==
    ASSUME NEW e \in Posts, e.slot = "commandFinished", e.number = 0
    PROVE  e = CommandFinished(e.command)
BY DEF Posts, CommandFinished

\* When the finished event of the current command is delivered, nothing of it is left.
LEMMA FinishedMeansOver ==
    ASSUME CountInv, Alone(front_, posted),
           posted # <<>>, Head(posted).slot = "commandFinished"
    PROVE  /\ front_ # NoCommand
           /\ Unfinished = {} /\ \A e \in Elements(Tail(posted)) : ~IsEnd(e)
<1> PICK e, rest : e = Head(posted) /\ rest = Tail(posted)
  OBVIOUS
<1>1. /\ e \in Posts /\ e \in Elements(posted) /\ Elements(posted) = {e} \cup Elements(rest)
      /\ e \notin Elements(rest) /\ rest \in Seq(Posts)
  BY TailElements DEF CountInv, Placed
<1>2. front_ = e.command /\ front_ \in Commands /\ front_ # NoCommand
  BY <1>1, CommandsAssumption DEF Alone, Posts, IsEnd
<1>3. CommandFinished(front_) \in Elements(posted)
  BY <1>1, <1>2, FinishedEvent DEF Alone, IsEnd
<1>4. Delegated[front_] \in Nat /\ activityCount_[front_] = 0
      /\ activityCount_[front_] = Cardinality(Outstanding(front_, posted))
  BY <1>2, <1>3, DelegatedAssumption DEF CountInv, Placed, Counted
<1>5. Outstanding(front_, posted) = {}
  <2>1. IsFiniteSet(1..Delegated[front_])
    BY <1>4, FS_Interval
  <2>2. Outstanding(front_, posted) \subseteq 1..Delegated[front_]
    BY DEF Outstanding
  <2> QED BY <1>4, <2>1, <2>2, FS_Subset, FS_EmptySet
<1>6. Unfinished = {}
  <2> SUFFICES ASSUME NEW a \in Unfinished PROVE FALSE
    OBVIOUS
  <2>1. a \in Activities /\ a[1] = front_ /\ a[2] \in 1..Delegated[front_]
    BY DEF Alone, CountInv, Placed, Unfinished, Elements
  <2>2. a = <<front_, a[2]>>
    BY <2>1 DEF Activities
  <2> QED BY <1>5, <2>1, <2>2 DEF Outstanding
<1>7. \A d \in Elements(rest) : ~IsEnd(d)
  <2> SUFFICES ASSUME NEW d \in Elements(rest), IsEnd(d) PROVE FALSE
    OBVIOUS
  <2>1. d \in Posts /\ d \in Elements(posted) /\ d # e /\ d.command = front_
    BY <1>1 DEF Elements, Alone
  <2>2. CASE d.slot = "commandFinished"
    BY <1>1, <1>2, <2>1, <2>2, FinishedEvent DEF Alone, IsEnd
  <2>3. CASE d.slot = "activityFinished"
    <3> PICK a : a = <<d.command, d.number>>
      OBVIOUS
    <3>1. a \in Activities /\ d = ActivityFinished(a)
      BY <2>1, <2>3, EventsDiffer
    <3>2. a[2] \in 1..Delegated[front_] /\ a = <<front_, a[2]>>
      BY <2>1, <3>1 DEF CountInv, Placed
    <3> QED BY <1>5, <2>1, <3>1, <3>2 DEF Outstanding
  <2> QED BY <2>2, <2>3 DEF IsEnd
<1> QED BY <1>2, <1>6, <1>7

\* As long as nobody clears, every step leaves work and ends with the front.
LEMMA NextAlone == CountInv /\ AloneInv /\ [Next]_vars => AloneInv'
<1> SUFFICES ASSUME CountInv, AloneInv, [Next]_vars, clears' = 0 PROVE AloneInv'
  BY DEF AloneInv
<1>1. /\ pool \in Seq(Activities) /\ running \subseteq Activities /\ queue_ \in Seq(Commands)
      /\ posted \in Seq(Posts) /\ front_ \in Commands \cup {NoCommand} /\ clears \in Nat
  BY DEF CountInv, Scheduled, Placed, Rest, Elements
<1>2. ASSUME NEW c \in Commands, Push(c) PROVE AloneInv'
  <2> PICK q, f, tokens, ev : q = Append(queue_, c) /\ f = front_ /\ tokens = cancelled /\ ev = posted
    OBVIOUS
  <2>1. ExecuteNext(q, f, tokens, ev) /\ UNCHANGED <<running, status, clears>> /\ status = "open"
    BY <1>2 DEF Push
  <2>2. q \in Seq(Commands) /\ Alone(f, ev)
    BY <1>1, <2>1 DEF AloneInv
  <2>3. Alone(front_, posted)'
    BY <1>1, <2>1, <2>2, ExecuteNextAlone
  <2> QED BY <2>1, <2>3 DEF AloneInv
<1>3. CASE StartActivity
  <2>1. Unfinished' = Unfinished /\ UNCHANGED <<front_, queue_, posted, status, clears>>
    BY <1>1, <1>3, TailElements DEF StartActivity, Unfinished, queueVars
  <2> QED BY <2>1 DEF AloneInv, Alone
<1>4. ASSUME NEW a \in running, FinishActivity(a) PROVE AloneInv'
  <2>1. /\ Unfinished' \subseteq Unfinished /\ UNCHANGED <<front_, queue_, status, clears>>
        /\ Elements(posted') = Elements(posted) \cup {ActivityFinished(a)}
    BY <1>1, <1>4, EventsDiffer, AppendElements DEF FinishActivity, Unfinished, queueVars
  <2>2. ActivityFinished(a).slot = "activityFinished" /\ ActivityFinished(a).command = a[1]
    BY DEF ActivityFinished
  <2>3. a \in Unfinished
    BY DEF Unfinished
  <2> QED BY <2>1, <2>2, <2>3 DEF AloneInv, Alone
<1>5. CASE DeliverActivityFinished
  <2> PICK e, rest : e = Head(posted) /\ rest = Tail(posted)
    OBVIOUS
  <2>1. /\ posted # <<>> /\ e.slot = "activityFinished"
        /\ UNCHANGED <<front_, queue_, pool, running, status, clears>>
        /\ \/ e.command \in Owned /\ posted' \in {rest, Append(rest, CommandFinished(e.command))}
           \/ posted' = rest
    BY <1>5 DEF DeliverActivityFinished, queueVars, workerVars
  <2>2. /\ e \in Posts /\ e \in Elements(posted) /\ rest \in Seq(Posts)
        /\ Elements(rest) \subseteq Elements(posted)
    BY <1>1, <2>1, TailElements
  <2>3. Unfinished' = Unfinished
    BY <2>1 DEF Unfinished
  <2>4. CommandFinished(e.command) \in Posts
    BY <2>2, EventsDiffer DEF Posts
  <2>5. CASE status = "open" /\ Alone(front_, posted)
    <3>1. e.command = front_
      BY <2>1, <2>2, <2>5 DEF Alone, IsEnd
    <3>2. Elements(posted') \subseteq Elements(posted) \cup {CommandFinished(e.command)}
      BY <2>1, <2>2, <2>4, EventElements
    <3>3. \A d \in Elements(posted') : IsEnd(d) => d.command = front_ /\ (d.slot = "commandFinished" => d.number = 0)
      BY <2>5, <3>1, <3>2 DEF Alone, CommandFinished
    <3> QED BY <2>1, <2>3, <2>5, <3>3 DEF AloneInv, Alone
  <2>6. CASE /\ status = "destroyed" /\ front_ = NoCommand /\ queue_ = <<>>
             /\ \A d \in Elements(posted) : d.slot # "commandFinished"
    <3>1. Owned = {}
      BY <2>6 DEF Owned, Elements
    <3> QED BY <2>1, <2>2, <2>6, <3>1 DEF AloneInv
  <2> QED BY <2>1, <2>5, <2>6 DEF AloneInv
<1>6. CASE DeliverCommandFinished
  <2> PICK tokens, ev : tokens = DestroyedTokens({front_}) /\ ev = Tail(posted)
    OBVIOUS
  <2>1. posted # <<>> /\ Head(posted).slot = "commandFinished" /\ UNCHANGED <<running, clears>>
    BY <1>6 DEF DeliverCommandFinished
  <2>2. Head(posted) \in Elements(posted) /\ ev \in Seq(Posts)
    BY <1>1, <2>1, TailElements
  <2>3. status = "open" /\ Alone(front_, posted)
    BY <2>1, <2>2 DEF AloneInv
  <2>4. front_ # NoCommand /\ Unfinished = {} /\ \A e \in Elements(ev) : ~IsEnd(e)
    BY <2>1, <2>3, FinishedMeansOver
  <2>5. ExecuteNext(queue_, NoCommand, tokens, ev) /\ status' = status
    BY <1>6, <2>4 DEF DeliverCommandFinished
  <2>6. Alone(NoCommand, ev)
    BY <2>4 DEF Alone
  <2>7. Alone(front_, posted)'
    BY <1>1, <2>1, <2>2, <2>5, <2>6, ExecuteNextAlone
  <2> QED BY <2>3, <2>5, <2>7 DEF AloneInv
<1>7. CASE Clear
  BY <1>1, <1>7 DEF Clear
<1>8. CASE Destroy
  BY <1>8 DEF Destroy, AloneInv, Elements
<1>9. CASE UNCHANGED vars
  BY <1>9 DEF AloneInv, Alone, Unfinished, vars, queueVars, workerVars
<1> QED BY <1>2, <1>3, <1>4, <1>5, <1>6, <1>7, <1>8, <1>9
        DEF Next, UndisturbedNext, Workers, EventLoop

\* At first there is no work.
LEMMA InitAlone == Init => AloneInv
BY DEF Init, AloneInv, Alone, Unfinished, Elements

\* Activities in the pool or with a worker are unfinished.
LEMMA AloneFollows == CountInv /\ AloneInv => OnlyFrontWorks
BY DEF CountInv, Rest, AloneInv, Alone, OnlyFrontWorks, Disturbed

\* Until somebody clears the queue or closes the project, every activity in the pool and
\* with a worker is one of the current command: two commands never work at a time.
THEOREM OneCommandAtATime == Spec => []OnlyFrontWorks
BY InitAlone, NextAlone, AloneFollows, Counting, PTL DEF Spec

\* assert(front_ != NULL) (CommandQueue.cpp:86) can fail after a call of clear() only:
\* without one, every commandFinished() finds the command that sent it.
THEOREM OnlyClearBreaksFront == Spec => [](clears = 0 => FrontAssertionHolds)
<1>1. AloneInv => (clears = 0 => FrontAssertionHolds)
  BY DEF AloneInv, FrontAssertionHolds
<1> QED BY <1>1, InitAlone, NextAlone, Counting, PTL DEF Spec
-----------------------------------------------------------------------------
(* The queue implements the serial executor.  Submit is push(), Complete is the
   delivery of commandFinished(); the steps of the workers, and the delivery of
   activityFinished(), change nothing the executor knows of. *)

\* Commands wait only while one is current.
IdleIsEmpty == front_ = NoCommand => queue_ = <<>>

\* executeNext() leaves nothing waiting without a front, and nobody else takes one away.
LEMMA NextIdle == CountInv /\ IdleIsEmpty /\ [Next]_vars => IdleIsEmpty'
<1> SUFFICES ASSUME CountInv, IdleIsEmpty, [Next]_vars PROVE IdleIsEmpty'
  OBVIOUS
<1> USE DEF IdleIsEmpty
<1>1. ASSUME NEW q \in Seq(Commands), NEW f, NEW tokens, NEW ev, ExecuteNext(q, f, tokens, ev)
      PROVE  IdleIsEmpty'
  <2>1. CASE f # NoCommand \/ q = <<>>
    BY <1>1, <2>1 DEF ExecuteNext
  <2>2. CASE f = NoCommand /\ q # <<>>
    BY <1>1, <2>2, TailElements, CommandsAssumption DEF ExecuteNext
  <2> QED BY <2>1, <2>2
<1>2. queue_ \in Seq(Commands)
  BY DEF CountInv, Scheduled
<1>3. ASSUME NEW c \in Commands, Push(c) PROVE IdleIsEmpty'
  <2> PICK q, tokens, ev : q = Append(queue_, c) /\ tokens = cancelled /\ ev = posted
    OBVIOUS
  <2>1. q \in Seq(Commands) /\ ExecuteNext(q, front_, tokens, ev)
    BY <1>2, <1>3 DEF Push
  <2> QED BY <1>1, <2>1
<1>4. CASE StartActivity \/ (\E a \in running : FinishActivity(a)) \/ DeliverActivityFinished
  BY <1>4 DEF StartActivity, FinishActivity, DeliverActivityFinished, queueVars
<1>5. CASE DeliverCommandFinished
  BY <1>1, <1>2, <1>5 DEF DeliverCommandFinished, queueVars
<1>6. CASE Clear \/ Destroy
  BY <1>6 DEF Clear, Destroy
<1>7. CASE UNCHANGED vars
  BY <1>7 DEF vars, queueVars
<1> QED BY <1>3, <1>4, <1>5, <1>6, <1>7 DEF Next, UndisturbedNext, Workers, EventLoop

\* What executeNext() does when it is entered without a front.
LEMMA ExecuteNextStarts ==
    ASSUME NEW q \in Seq(Commands), NEW tokens, NEW ev, executed \in Seq(Commands),
           ExecuteNext(q, NoCommand, tokens, ev)
    PROVE  \/ /\ q = <<>>
              /\ queue_' = <<>> /\ front_' = NoCommand /\ Elements(executed') = Elements(executed)
           \/ /\ q # <<>> /\ Head(q) \in Commands
              /\ queue_' = Tail(q) /\ front_' = Head(q)
              /\ Elements(executed') = Elements(executed) \cup {Head(q)}
<1>1. CASE q = <<>>
  BY <1>1 DEF ExecuteNext
<1>2. CASE q # <<>>
  <2>1. queue_' = Tail(q) /\ front_' = Head(q) /\ executed' = Append(executed, Head(q))
    BY <1>2 DEF ExecuteNext, Execute
  <2>2. Head(q) \in Commands
    BY <1>2, TailElements
  <2> QED BY <1>2, <2>1, <2>2, AppendElements
<1> QED BY <1>1, <1>2

\* push() of a new command is Submit.
LEMMA PushSubmits ==
    ASSUME CountInv, IdleIsEmpty, ~Disturbed, NEW c \in Commands, Push(c)
    PROVE  Serial!Submit(c)
<1> PICK q, tokens, ev : q = Append(queue_, c) /\ tokens = cancelled /\ ev = posted
  OBVIOUS
<1>1. /\ executed \in Seq(Commands) /\ queue_ \in Seq(Commands) /\ q \in Seq(Commands) /\ q # <<>>
      /\ ExecuteNext(q, front_, tokens, ev)
  BY DEF CountInv, Scheduled, Push
<1>2. c \notin Elements(queue_) /\ c \notin Elements(executed) /\ c # NoCommand
  BY CommandsAssumption DEF CountInv, Scheduled, Push
<1>3. c # front_
  BY <1>2 DEF CountInv, Scheduled
<1>4. Serial!Fresh(c)
  BY <1>2, <1>3 DEF Serial!Fresh, Serial!Waiting, Elements
<1>5. CASE front_ = NoCommand
  <2>1. queue_ = <<>> /\ q = <<c>> /\ Head(q) = c /\ Tail(q) = <<>>
    BY <1>1, <1>5 DEF IdleIsEmpty
  <2>2. queue_' = <<>> /\ front_' = c /\ Elements(executed') = Elements(executed) \cup {c}
    BY <1>1, <1>5, <2>1, ExecuteNextStarts
  <2>3. Elements(executed') \ {front_'} = Elements(executed) \ {front_}
    <3>1. Elements(executed) \subseteq Commands
      BY <1>1 DEF Elements
    <3> QED BY <1>2, <1>5, <2>2, <3>1, CommandsAssumption
  <2> QED BY <1>4, <1>5, <2>1, <2>2, <2>3 DEF Serial!Submit
<1>6. CASE front_ # NoCommand
  <2>1. queue_' = q /\ front_' = front_ /\ executed' = executed
    BY <1>1, <1>6 DEF ExecuteNext
  <2> QED BY <1>4, <1>6, <2>1 DEF Serial!Submit
<1> QED BY <1>5, <1>6

\* commandFinished() is Complete.
LEMMA FinishedCompletes ==
    ASSUME CountInv, front_ # NoCommand, DeliverCommandFinished
    PROVE  Serial!Complete
<1> PICK q, tokens, ev : q = queue_ /\ tokens = DestroyedTokens({front_}) /\ ev = Tail(posted)
  OBVIOUS
<1>1. /\ executed \in Seq(Commands) /\ q \in Seq(Commands) /\ ExecuteNext(q, NoCommand, tokens, ev)
      /\ front_ \in Elements(executed) /\ Elements(q) \cap Elements(executed) = {}
  BY DEF CountInv, Scheduled, DeliverCommandFinished
<1>2. Elements(executed) \subseteq Commands
  BY <1>1 DEF Elements
<1>3. CASE q = <<>>
  <2>1. queue_' = <<>> /\ front_' = NoCommand /\ Elements(executed') = Elements(executed)
    BY <1>1, <1>3, ExecuteNextStarts
  <2>2. Elements(executed') \ {front_'} = (Elements(executed) \ {front_}) \cup {front_}
    BY <1>1, <1>2, <2>1, CommandsAssumption
  <2> QED BY <1>3, <2>1, <2>2 DEF Serial!Complete
<1>4. CASE q # <<>>
  <2>1. /\ queue_' = Tail(q) /\ front_' = Head(q)
        /\ Elements(executed') = Elements(executed) \cup {Head(q)}
    BY <1>1, <1>4, ExecuteNextStarts
  <2>2. Head(q) \in Elements(q)
    BY <1>1, <1>4, TailElements
  <2>3. Elements(executed') \ {front_'} = (Elements(executed) \ {front_}) \cup {front_}
    BY <1>1, <2>1, <2>2
  <2> QED BY <1>4, <2>1, <2>3 DEF Serial!Complete
<1> QED BY <1>3, <1>4

\* Nobody undoes a disturbance.
LEMMA DisturbedForever == CountInv /\ Disturbed /\ [Next]_vars => Disturbed'
<1> SUFFICES ASSUME CountInv, Disturbed, [Next]_vars PROVE Disturbed'
  OBVIOUS
<1> QED BY DEF CountInv, Rest, Disturbed, Next, UndisturbedNext, Workers, EventLoop, vars,
            Push, StartActivity, FinishActivity, DeliverActivityFinished,
            DeliverCommandFinished, Clear, Destroy

\* Every step of the queue is one of the serial executor, or none.
LEMMA NextSimulates ==
    CountInv /\ IdleIsEmpty /\ [Next]_vars => [Serial!Next]_Serial!vars
<1> SUFFICES ASSUME CountInv, IdleIsEmpty, [Next]_vars PROVE [Serial!Next]_Serial!vars
  OBVIOUS
<1>1. CASE Disturbed'
  BY <1>1 DEF Serial!Next, Serial!Disturb
<1>2. CASE ~Disturbed'
  <2>1. ~Disturbed
    BY <1>2, DisturbedForever
  <2>0. Disturbed' = Disturbed
    BY <1>2, <2>1 DEF Disturbed
  <2>2. ASSUME NEW c \in Commands, Push(c) PROVE Serial!Next
    BY <1>2, <2>1, <2>2, PushSubmits DEF Serial!Next
  <2>3. CASE StartActivity \/ (\E a \in running : FinishActivity(a)) \/ DeliverActivityFinished
    <3>1. UNCHANGED <<queue_, front_, executed>>
      BY <2>3 DEF StartActivity, FinishActivity, DeliverActivityFinished, queueVars
    <3> QED BY <2>0, <3>1 DEF Serial!vars, Serial!progress
  <2>4. CASE DeliverCommandFinished
    <3>1. front_ # NoCommand
      BY <1>2, <2>4 DEF DeliverCommandFinished, Disturbed
    <3> QED BY <1>2, <2>1, <2>4, <3>1, FinishedCompletes DEF Serial!Next
  <2>5. CASE Clear \/ Destroy
    BY <1>2, <2>1, <2>5 DEF Clear, Destroy, Disturbed, CountInv, Rest
  <2>6. CASE UNCHANGED vars
    <3>1. UNCHANGED <<queue_, front_, executed>>
      BY <2>6 DEF vars, queueVars
    <3> QED BY <2>0, <3>1 DEF Serial!vars, Serial!progress
  <2> QED BY <2>2, <2>3, <2>4, <2>5, <2>6 DEF Next, UndisturbedNext, Workers, EventLoop
<1> QED BY <1>1, <1>2

\* The safety part of the refinement: CommandQueue starts as a serial executor, and every
\* step of it is a step of a serial executor or invisible to it, until somebody clears the
\* queue, closes the project, or an assertion fails.
THEOREM ImplementsSerialExecutor == Spec => Serial!Init /\ [][Serial!Next]_Serial!vars
<1>1. Init => Serial!Init
  BY DEF Init, Serial!Init, Disturbed, Elements
<1>2. Init => IdleIsEmpty
  BY DEF Init, IdleIsEmpty
<1>3. CountInv /\ IdleIsEmpty /\ [Next]_vars => [Serial!Next]_Serial!vars
  BY NextSimulates
<1> QED BY <1>1, <1>2, <1>3, NextIdle, Counting, PTL DEF Spec
=============================================================================
