--------------------- MODULE ProjectUndisturbed_proofs ---------------------
(***************************************************************************)
(* What the project promises to a user who cancels nothing while it is     *)
(* open: a deletion is final, nothing else takes instructions away,        *)
(* "decompile everything" sees everything, and the views hold finished     *)
(* contexts.  All of it rests on the order of the posted events: a context *)
(* posts its signal before its activity is over, so the signal is          *)
(* delivered before the next command starts.                               *)
(***************************************************************************)
EXTENDS Project_proofs

-----------------------------------------------------------------------------
\* In a list of posted events the signals come before the ends.
SignalsFirst(ev) == \A i, j \in DOMAIN ev : IsEnd(ev[i]) /\ ~IsEnd(ev[j]) => j < i

AllEnds(ev) == \A e \in Elements(ev) : IsEnd(e)

\* Delivering an event leaves signals before ends.
LEMMA SignalsFirstTail ==
    ASSUME NEW ev \in Seq(Posts), ev # <<>>, SignalsFirst(ev)
    PROVE  /\ SignalsFirst(Tail(ev))
           /\ IsEnd(Head(ev)) => AllEnds(ev)
<1>1. /\ Len(ev) \in Nat \ {0} /\ DOMAIN ev = 1..Len(ev) /\ DOMAIN Tail(ev) = 1..(Len(ev) - 1)
      /\ \A i \in 1..(Len(ev) - 1) : Tail(ev)[i] = ev[i + 1] /\ i + 1 \in DOMAIN ev
      /\ Head(ev) = ev[1] /\ 1 \in DOMAIN ev
  BY EmptySeq
<1>2. ASSUME NEW i \in DOMAIN Tail(ev), NEW j \in DOMAIN Tail(ev),
             IsEnd(Tail(ev)[i]), ~IsEnd(Tail(ev)[j])
      PROVE  j < i
  <2>1. /\ i + 1 \in DOMAIN ev /\ j + 1 \in DOMAIN ev
        /\ IsEnd(ev[i + 1]) /\ ~IsEnd(ev[j + 1])
    BY <1>1, <1>2
  <2>2. j + 1 < i + 1
    BY <2>1 DEF SignalsFirst
  <2> QED BY <1>1, <2>2
<1>3. ASSUME IsEnd(Head(ev)) PROVE AllEnds(ev)
  <2> SUFFICES ASSUME NEW j \in DOMAIN ev, ~IsEnd(ev[j]) PROVE FALSE
    BY DEF AllEnds, Elements
  <2>1. j < 1
    BY <1>1, <1>3 DEF SignalsFirst
  <2> QED BY <1>1, <2>1
<1> QED BY <1>2, <1>3 DEF SignalsFirst

\* So does posting an end, or a signal while no end is posted.
LEMMA SignalsFirstAppend ==
    ASSUME NEW ev \in Seq(Posts), NEW e \in Posts, SignalsFirst(ev),
           IsEnd(e) \/ \A d \in Elements(ev) : ~IsEnd(d)
    PROVE  SignalsFirst(Append(ev, e))
<1> DEFINE new == Append(ev, e)
<1>1. /\ Len(ev) \in Nat /\ DOMAIN ev = 1..Len(ev) /\ DOMAIN new = 1..(Len(ev) + 1)
      /\ new[Len(ev) + 1] = e /\ \A i \in DOMAIN ev : new[i] = ev[i]
  OBVIOUS
<1> HIDE DEF new
<1>2. ASSUME NEW i \in DOMAIN new, NEW j \in DOMAIN new, IsEnd(new[i]), ~IsEnd(new[j])
      PROVE  j < i
  <2>1. \A k \in DOMAIN ev : new[k] \in Elements(ev)
    BY <1>1 DEF Elements
  <2>2. CASE i \in DOMAIN ev /\ j \in DOMAIN ev
    BY <1>1, <1>2, <2>2 DEF SignalsFirst
  <2>3. CASE i = Len(ev) + 1
    BY <1>1, <1>2, <2>3
  <2>4. CASE i \in DOMAIN ev /\ j = Len(ev) + 1
    BY <1>1, <1>2, <2>1, <2>4
  <2> QED BY <1>1, <2>2, <2>3, <2>4
<1> QED BY <1>2 DEF SignalsFirst, new
-----------------------------------------------------------------------------
(* The events of an undisturbed project: all are of the current command, the signal
   first, and the end of a disassembly comes after its result. *)

EventsInv ==
    ~Disturbed =>
        /\ \A e \in Elements(posted) : e.command = front_
        /\ SignalsFirst(posted)
        /\ \A e \in Elements(posted) : IsEnd(e) /\ e.command \in Disassembles => e.command \in delivered

\* What is known of an undisturbed queue.
LEMMA UndisturbedQueue ==
    ASSUME QueueInv, ~Disturbed
    PROVE  /\ status = "open" /\ clears = 0 /\ Alone(front_, posted)
           /\ posted \in Seq(Posts) /\ front_ \in Executed \cup {NoCommand}
           /\ Executed \subseteq Commands
BY DEF QueueInv, CountInv, Rest, Placed, Scheduled, AloneInv, Disturbed, Executed, Elements

\* What is disturbed stays so.
LEMMA ProjectDisturbedForever ==
    ASSUME ProjectInv, [ProjectNext]_allVars, ~Disturbed'
    PROVE  ~Disturbed
<1>1. CountInv /\ calls \in Seq(Calls)
  BY DEF ProjectInv, QueueInv, ViewsInv
<1>2. CASE [Next]_vars
  BY <1>1, <1>2, DisturbedForever
<1>3. CASE SignalStep
  BY <1>3 DEF SignalStep, Disturbed
<1> QED BY <1>1, <1>2, <1>3, ProjectStep

\* When the current command's end is delivered nothing else is posted, nothing of it is
\* left, and a disassembly has delivered.
LEMMA FinishedIsLast ==
    ASSUME QueueInv, EventsInv, ~Disturbed, posted # <<>>, Head(posted).slot = "commandFinished"
    PROVE  /\ front_ # NoCommand /\ Unfinished = {} /\ AllEnds(posted)
           /\ Tail(posted) = <<>>
           /\ front_ \in Disassembles => front_ \in delivered
<1> PICK rest : rest = Tail(posted)
  OBVIOUS
<1>1. posted \in Seq(Posts) /\ Alone(front_, posted)
  BY UndisturbedQueue
<1>2. front_ # NoCommand /\ Unfinished = {} /\ \A e \in Elements(rest) : ~IsEnd(e)
  BY <1>1, FinishedMeansOver DEF QueueInv
<1>3. /\ Head(posted) \in Elements(posted) /\ IsEnd(Head(posted))
      /\ rest \in Seq(Posts) /\ Elements(rest) \subseteq Elements(posted)
  BY <1>1, TailElements DEF IsEnd
<1>4. AllEnds(posted)
  BY <1>1, <1>3, SignalsFirstTail DEF EventsInv
<1>5. Elements(rest) = {}
  BY <1>2, <1>3, <1>4 DEF AllEnds
<1>6. rest = <<>>
  BY <1>3, <1>5, TailElements
<1>7. front_ \in Disassembles => front_ \in delivered
  BY <1>3 DEF EventsInv
<1> QED BY <1>2, <1>4, <1>6, <1>7

\* While an activity is unfinished its command has posted no end.
LEMMA WorkingHasNoEnd ==
    ASSUME QueueInv, EventsInv, ~Disturbed, NEW c \in Commands, <<c, 1>> \in Unfinished
    PROVE  /\ c = front_
           /\ \A e \in Elements(posted) : ~IsEnd(e)
<1>1. c = front_ /\ Alone(front_, posted) /\ posted \in Seq(Posts)
  BY UndisturbedQueue DEF Alone
<1>2. Delegated[c] = 1 /\ <<c, 1>> \in Activities
  <2>1. <<c, 1>> \in Activities /\ 1 \in 1..Delegated[c]
    BY DEF QueueInv, CountInv, Placed, Activities
  <2>2. Delegated[c] \in {0, 1}
    BY ClassesAssumption
  <2> QED BY <2>1, <2>2
<1>3. ActivityFinished(<<c, 1>>) \notin Elements(posted)
  BY DEF QueueInv, CountInv, Placed
<1>4. CommandFinished(c) \notin Elements(posted)
  <2>1. activityCount_[c] = Cardinality(Outstanding(c, posted))
    BY <1>1, CommandsAssumption DEF QueueInv, CountInv, Counted
  <2>2. 1 \in Outstanding(c, posted) /\ Outstanding(c, posted) \subseteq 1..Delegated[c]
    BY <1>2 DEF Outstanding
  <2>3. activityCount_[c] # 0
    <3>1. IsFiniteSet(1..Delegated[c])
      BY DelegatedAssumption, FS_Interval
    <3>2. IsFiniteSet(Outstanding(c, posted))
      BY <2>2, <3>1, FS_Subset
    <3> QED BY <2>1, <2>2, <3>2, FS_EmptySet
  <2> QED BY <2>3 DEF QueueInv, CountInv, Placed
<1>5. ASSUME NEW e \in Elements(posted), IsEnd(e) PROVE FALSE
  <2>1. e \in Posts /\ e.command = c
    BY <1>1, EventElements DEF EventsInv
  <2>2. CASE e.slot = "commandFinished"
    BY <1>1, <1>4, <1>5, <2>1, <2>2, FinishedEvent DEF Alone
  <2>3. CASE e.slot = "activityFinished"
    <3> PICK a : a = <<e.command, e.number>>
      OBVIOUS
    <3>1. a \in Activities /\ e = ActivityFinished(a) /\ a[1] = c
      BY <2>1, <2>3, EventsDiffer
    <3>2. a[2] \in 1..Delegated[c]
      BY <3>1 DEF QueueInv, CountInv, Placed
    <3>3. a = <<c, 1>>
      BY <1>2, <2>1, <3>1, <3>2
    <3> QED BY <1>3, <3>1, <3>3
  <2> QED BY <1>5, <2>2, <2>3 DEF IsEnd
<1> QED BY <1>1, <1>5

\* Steps without events keep what is known of them.
LEMMA EventsUnchanged ==
    ASSUME EventsInv, UNCHANGED <<posted, front_, delivered>>, Disturbed => Disturbed'
    PROVE  EventsInv'
BY DEF EventsInv

\* A command that is made current when nothing is posted.
LEMMA StartedEvents ==
    ASSUME NEW ev, ev = <<>>, Started(ev)
    PROVE  EventsInv'
<1> PICK c, e : c = front_' /\ e = CommandFinished(c)
  OBVIOUS
<1>1. c \in Commands /\ (posted' = <<>> \/ (posted' = <<e>> /\ Delegated[c] = 0))
  BY DEF Started
<1>2. IsEnd(e) /\ e.command = c
  BY DEF IsEnd, CommandFinished
<1>3. CASE posted' = <<>>
  BY <1>3 DEF EventsInv, SignalsFirst, Elements
<1>4. CASE posted' = <<e>> /\ Delegated[c] = 0
  <2>1. c \notin Disassembles
    BY <1>1, <1>4, ClassesAssumption
  <2>2. \A d \in Elements(posted') : d = e
    BY <1>4 DEF Elements
  <2>3. SignalsFirst(posted')
    BY <1>2, <1>4 DEF SignalsFirst
  <2> QED BY <1>2, <2>1, <2>2, <2>3 DEF EventsInv
<1> QED BY <1>1, <1>3, <1>4

\* Delivering an event that changes neither the front nor the results keeps it too.
LEMMA TakenEvents ==
    ASSUME EventsInv, ~Disturbed, posted \in Seq(Posts), posted # <<>>, posted' = Tail(posted),
           UNCHANGED <<front_, delivered>>
    PROVE  EventsInv'
<1>1. SignalsFirst(posted') /\ Elements(posted') \subseteq Elements(posted)
  BY SignalsFirstTail, TailElements DEF EventsInv
<1> QED BY <1>1 DEF EventsInv

\* An end of the current command is posted; of a disassembly, when it has delivered.
LEMMA EndedEvents ==
    ASSUME NEW ev \in Seq(Posts), NEW e \in Posts, IsEnd(e), e.command = front_,
           SignalsFirst(ev), \A d \in Elements(ev) : d.command = front_,
           front_ \in Disassembles => front_ \in delivered,
           posted' = Append(ev, e), UNCHANGED <<front_, delivered>>
    PROVE  EventsInv'
<1>1. SignalsFirst(posted') /\ Elements(posted') = Elements(ev) \cup {e}
  BY SignalsFirstAppend, EventElements
<1> QED BY <1>1 DEF EventsInv

\* A context of the front posts its signal while its activity has not ended.
LEMMA EmitEvents ==
    ASSUME QueueInv, EventsInv, ~Disturbed, NEW c \in Commands, <<c, 1>> \in running,
           NEW slot \in {"instructionsChanged", "treeChanged"}, Emit(c, slot)
    PROVE  EventsInv'
<1> PICK e : e = Signal(slot, c)
  OBVIOUS
<1>1. c = front_ /\ \A d \in Elements(posted) : ~IsEnd(d)
  BY WorkingHasNoEnd DEF Unfinished
<1>2. e \in Posts /\ ~IsEnd(e) /\ e.command = c
  BY DEF Signal, Posts, IsEnd
<1>3. posted' = Append(posted, e) /\ UNCHANGED front_ /\ posted \in Seq(Posts)
  BY UndisturbedQueue DEF Emit, queueVars
<1>4. Elements(posted') = Elements(posted) \cup {e}
  BY <1>2, <1>3, EventElements
<1>5. SignalsFirst(posted')
  BY <1>1, <1>2, <1>3, SignalsFirstAppend DEF EventsInv
<1>6. \A d \in Elements(posted') : ~IsEnd(d) /\ d.command = front_
  BY <1>1, <1>2, <1>4 DEF EventsInv
<1> QED BY <1>3, <1>5, <1>6 DEF EventsInv

\* Every step keeps signals before ends, and both with the front.
LEMMA ProjectStepEvents ==
    ASSUME ProjectInv, EventsInv, [ProjectNext]_allVars
    PROVE  EventsInv'
<1> SUFFICES ASSUME ~Disturbed' PROVE EventsInv'
  BY DEF EventsInv
<1>1. /\ ~Disturbed /\ QueueInv /\ CountInv /\ calls \in Seq(Calls)
      /\ posted \in Seq(Posts) /\ SignalsFirst(posted)
      /\ \A e \in Elements(posted) : e.command = front_
  BY ProjectDisturbedForever, UndisturbedQueue DEF ProjectInv, QueueInv, ViewsInv, EventsInv
<1>2. CASE UNCHANGED <<posted, front_, delivered>>
  BY <1>1, <1>2, EventsUnchanged
<1>3. CASE User \/ PoolStarts \/ UNCHANGED allVars
  BY <1>2, <1>3 DEF User, PoolStarts, StartActivity, allVars, projectVars, vars, queueVars
<1>4. CASE CloseProject \/ CallCancelAll
  <2>1. CASE Destroy \/ Clear
    <3>1. clears \in Nat
      BY <1>1 DEF CountInv, Rest
    <3> QED BY <2>1, <3>1 DEF Destroy, Clear, Disturbed
  <2>2. CASE UNCHANGED vars /\ UNCHANGED delivered
    BY <1>2, <2>2 DEF vars, queueVars
  <2> QED BY <1>4, <2>1, <2>2 DEF CloseProject, CallCancelAll
<1>5. CASE CallPush
  <2>1. /\ delivered' = delivered
        /\ \/ front_' = front_ /\ posted' = posted
           \/ front_ = NoCommand /\ Started(posted)
    BY <1>1, <1>5, CallPushWorks
  <2>2. ASSUME front_ = NoCommand PROVE posted = <<>>
    <3>1. \A e \in Elements(posted) : e.command \in Commands
      BY <1>1, EventElements DEF Posts
    <3>2. Elements(posted) = {}
      BY <1>1, <2>2, <3>1, CommandsAssumption
    <3> QED BY <1>1, <3>2, TailElements
  <2> QED BY <1>2, <2>1, <2>2, StartedEvents
<1>6. CASE UpdateInstructions \/ ShowTree
  <2>1. posted # <<>> /\ posted' = Tail(posted) /\ UNCHANGED <<front_, delivered>>
    BY <1>6 DEF UpdateInstructions, ShowTree, Deliver, queueVars
  <2> QED BY <1>1, <2>1, TakenEvents
<1>7. CASE CommandEvents /\ DeliverActivityFinished
  <2> PICK e, c, ev : e = Head(posted) /\ c = e.command /\ ev = Tail(posted)
    OBVIOUS
  <2>1. /\ posted # <<>> /\ e.slot = "activityFinished" /\ UNCHANGED <<front_, delivered>>
        /\ posted' = ev \/ posted' = Append(ev, CommandFinished(c))
    BY <1>7 DEF CommandEvents, DeliverActivityFinished, queueVars
  <2>2. CASE posted' = ev
    BY <1>1, <2>1, <2>2, TakenEvents
  <2>3. CASE posted' = Append(ev, CommandFinished(c))
    <3>1. e \in Posts /\ e \in Elements(posted) /\ ev \in Seq(Posts)
          /\ Elements(ev) \subseteq Elements(posted) /\ SignalsFirst(ev)
      BY <1>1, <2>1, TailElements, SignalsFirstTail
    <3>2. c = front_ /\ (front_ \in Disassembles => front_ \in delivered)
      BY <1>1, <2>1, <3>1 DEF EventsInv, IsEnd
    <3>3. CommandFinished(c) \in Posts /\ IsEnd(CommandFinished(c)) /\ CommandFinished(c).command = c
      BY <3>1, EventsDiffer DEF Posts, IsEnd, CommandFinished
    <3> QED BY <1>1, <2>1, <2>3, <3>1, <3>2, <3>3, EndedEvents
  <2> QED BY <2>1, <2>2, <2>3
<1>8. CASE CommandEvents /\ DeliverCommandFinished /\ WorkOfExecuted
  <2> PICK ev : ev = Tail(posted)
    OBVIOUS
  <2>1. /\ posted # <<>> /\ Head(posted).slot = "commandFinished" /\ delivered' = delivered
        /\ \/ status' = "aborted"
           \/ posted' = ev
           \/ Started(ev)
    BY <1>1, <1>8, CommandFinishedWorks DEF CommandEvents
  <2>2. ev = <<>>
    BY <1>1, <2>1, FinishedIsLast
  <2>3. CASE posted' = ev
    BY <2>2, <2>3 DEF EventsInv, SignalsFirst, Elements
  <2> QED BY <2>1, <2>2, <2>3, StartedEvents DEF Disturbed
<1>9. ASSUME NEW c \in Commands, DisassemblyResult(c) \/ DecompilationResult(c) PROVE EventsInv'
  BY <1>1, <1>9, EmitEvents DEF DisassemblyResult, DecompilationResult
<1>10. ASSUME NEW c \in Commands, ActivityOver(c) PROVE EventsInv'
  <2> PICK e : e = ActivityFinished(<<c, 1>>)
    OBVIOUS
  <2>1. /\ <<c, 1>> \in running /\ posted' = Append(posted, e)
        /\ c \in delivered \/ c \in Decompiles
        /\ UNCHANGED <<front_, delivered>>
    BY <1>10 DEF ActivityOver, FinishActivity, projectVars, queueVars
  <2>2. c = front_
    BY <1>1, <2>1, WorkingHasNoEnd DEF Unfinished
  <2>3. <<c, 1>> \in Activities
    BY DEF Activities
  <2>4. e \in Posts /\ IsEnd(e) /\ e.command = c
    BY <2>3, EventsDiffer DEF IsEnd, ActivityFinished
  <2>5. c \in Disassembles => c \in delivered
    BY <2>1, ClassesAssumption DEF Decompiles
  <2> QED BY <1>1, <2>1, <2>2, <2>4, <2>5, EndedEvents
<1> QED BY <1>3, <1>4, <1>5, <1>6, <1>7, <1>8, <1>9, <1>10
        DEF ProjectNext, Handler, PostedEvents, Worker, CommandEvents
-----------------------------------------------------------------------------
(* The instructions of an undisturbed project.  The project's instructions take part in
   every disassembly, which only adds to them, and what the last disassembly found is
   among them when the next command starts. *)

Deleted == UNION {argument[c] : c \in Deletes}
ExecutedDeletes == Deletes \cap Executed

\* The current disassembly works on a copy that loses nothing and regains nothing
\* deleted; once its signal has been delivered the project has the copy.
DisassemblyInv ==
    front_ \in Disassembles =>
        /\ instructions_ \subseteq contextInstructions[front_]
        /\ \A c \in ExecutedDeletes : argument[c] \cap contextInstructions[front_] = {}
        /\ front_ \in delivered /\ AllEnds(posted) => contextInstructions[front_] \subseteq instructions_

\* Everything earlier disassemblies found and no deletion asked for is in S.
Has(d, S) == contextInstructions[d] \ Deleted \subseteq S

DataInv ==
    ~Disturbed =>
        /\ front_ \in Disassembles \cup Decompiles => context_ = front_
        /\ \A c \in ExecutedDeletes : argument[c] \cap instructions_ = {}
        /\ DisassemblyInv
        /\ \A d \in (Disassembles \cap Executed) \ {front_} : Has(d, instructions_)
        /\ front_ \in DecompileAlls =>
              \A d \in Disassembles \cap Executed : Has(d, contextInstructions[front_])
        /\ viewContext \in delivered \cup {NoCommand}

\* The next command starts on instructions that have everything.
LEMMA StartedData ==
    ASSUME NEW ev, Started(ev), NEW pu,
           contextInstructions \in [Contexts -> SUBSET Instructions],
           \A c \in ExecutedDeletes : argument[c] \cap instructions_ = {},
           \A d \in Disassembles \cap Executed : Has(d, instructions_),
           argument' \in [Commands -> SUBSET Instructions],
           \A c \in Executed : argument'[c] = argument[c],
           Deleted \subseteq Deleted', Executed \subseteq Commands,
           viewContext' \in delivered' \cup {NoCommand}
    PROVE  DataInv'
<1> PICK h : h = front_'
  OBVIOUS
<1>1. h \in Commands /\ h \notin Executed /\ Executed' = Executed \cup {h} /\ Work(h)
  BY DEF Started
<1>2. Deletes \subseteq Commands /\ Disassembles \subseteq Commands
      /\ h \in Contexts /\ Disassembles \subseteq Contexts
  BY <1>1, ClassesAssumption DEF Contexts
<1>3. CASE h \in Deletes
  <2>1. h \notin Disassembles \cup Decompiles /\ h \notin DecompileAlls
    BY <1>3, ClassesAssumption DEF Decompiles
  <2>2. instructions_' = instructions_ \ argument'[h] /\ UNCHANGED contextInstructions
    BY <1>1, <1>3, <2>1 DEF Work
  <2>3. argument'[h] \subseteq Deleted'
    BY <1>3 DEF Deleted
  <2>4. \A c \in ExecutedDeletes' : argument'[c] \cap instructions_' = {}
    BY <1>1, <2>2 DEF ExecutedDeletes
  <2>5. \A d \in (Disassembles \cap Executed') \ {h} : Has(d, instructions_)'
    <3> SUFFICES ASSUME NEW d \in (Disassembles \cap Executed') \ {h}
                 PROVE  contextInstructions'[d] \ Deleted' \subseteq instructions_'
      BY DEF Has
    <3>1. contextInstructions[d] \ Deleted \subseteq instructions_
      BY <1>1 DEF Has
    <3> QED BY <2>2, <2>3, <3>1
  <2> QED BY <2>1, <2>4, <2>5 DEF DataInv, DisassemblyInv
<1>4. CASE h \notin Deletes
  <2> PICK S : S = IF h \in DecompileSubsets THEN argument'[h] ELSE instructions_
    OBVIOUS
  <2>1. /\ context_' = h /\ UNCHANGED instructions_
        /\ contextInstructions' = [contextInstructions EXCEPT ![h] = S]
    BY <1>1, <1>4 DEF Work
  <2>2. \A d \in Contexts : contextInstructions'[d] = IF d = h THEN S ELSE contextInstructions[d]
    BY <2>1
  <2>3. h \in Disassembles \cup DecompileAlls => S = instructions_
    BY ClassesAssumption
  <2>4. \A c \in ExecutedDeletes' : c \in ExecutedDeletes /\ argument'[c] = argument[c]
    BY <1>1, <1>4 DEF ExecutedDeletes
  <2>5. DisassemblyInv'
    BY <1>2, <2>1, <2>2, <2>3, <2>4 DEF DisassemblyInv
  <2>6. \A d \in (Disassembles \cap Executed') \ {h} : contextInstructions'[d] \ Deleted' \subseteq instructions_
    <3> SUFFICES ASSUME NEW d \in (Disassembles \cap Executed') \ {h}
                 PROVE  contextInstructions'[d] \ Deleted' \subseteq instructions_
      OBVIOUS
    <3>1. contextInstructions[d] \ Deleted \subseteq instructions_ /\ d \in Contexts /\ d # h
      BY <1>1, <1>2 DEF Has
    <3> QED BY <2>2, <3>1
  <2>7. h \in DecompileAlls =>
           h \notin Disassembles /\ contextInstructions'[h] = instructions_
    BY <1>2, <2>2, <2>3, ClassesAssumption
  <2>8. \A d \in (Disassembles \cap Executed') \ {h} : Has(d, instructions_)'
    BY <2>1, <2>6 DEF Has
  <2>9. h \in DecompileAlls =>
           \A d \in Disassembles \cap Executed' : Has(d, contextInstructions[front_])'
    BY <2>6, <2>7 DEF Has
  <2>10. \A c \in ExecutedDeletes' : argument'[c] \cap instructions_' = {}
    BY <2>1, <2>4
  <2> QED BY <2>1, <2>5, <2>8, <2>9, <2>10 DEF DataInv
<1> QED BY <1>3, <1>4

\* Steps that touch no instructions keep what is known of them.
LEMMA DataUnchanged ==
    ASSUME DataInv, Disturbed => Disturbed',
           UNCHANGED <<front_, dataVars, argument, executed, delivered, viewContext>>,
           AllEnds(posted') => AllEnds(posted)
    PROVE  DataInv'
<1>1. Executed' = Executed /\ ExecutedDeletes' = ExecutedDeletes /\ Deleted' = Deleted
  BY DEF Executed, ExecutedDeletes, Deleted
<1>2. \A d, S : Has(d, S)' <=> Has(d, S)
  BY <1>1 DEF Has, dataVars
<1> QED BY <1>1, <1>2 DEF DataInv, DisassemblyInv, Has, dataVars

\* A handler pushes a command, which may be started at once.
LEMMA CallPushData ==
    ASSUME ProjectInv, EventsInv, DataInv, CallPush, ~Disturbed
    PROVE  DataInv'
<1>1. /\ CountInv /\ InstructionsInv /\ calls \in Seq(Calls) /\ front_ \in Executed \cup {NoCommand}
      /\ Executed \subseteq Elements(pushed) /\ Executed \subseteq Commands
  <2>1. CountInv /\ QueueInv /\ InstructionsInv /\ calls \in Seq(Calls)
    BY DEF ProjectInv, QueueInv, ViewsInv
  <2>2. Executed \subseteq Elements(pushed)
    BY <2>1 DEF CountInv, Scheduled, Executed
  <2> QED BY <2>1, <2>2, UndisturbedQueue
<1>2. PICK c \in Commands \ Elements(pushed), S \in SUBSET Instructions :
        /\ argument' = [argument EXCEPT ![c] = S \cap instructions_]
        /\ status = "open"
        /\ \/ /\ executed' = executed /\ front_' = front_ /\ posted' = posted
              /\ UNCHANGED dataVars
           \/ front_ = NoCommand /\ Started(posted)
        /\ UNCHANGED <<delivered, viewVars>>
  BY <1>1, CallPushWorks
<1>3. /\ argument' \in [Commands -> SUBSET Instructions] /\ argument[c] = {}
      /\ \A d \in Commands \ {c} : argument'[d] = argument[d]
      /\ Deletes \subseteq Commands
  BY <1>1, <1>2, ClassesAssumption DEF InstructionsInv
<1>4. Deleted \subseteq Deleted'
  <2> SUFFICES ASSUME NEW d \in Deletes, NEW i \in argument[d] PROVE i \in argument'[d]
    BY DEF Deleted
  <2> QED BY <1>3
<1>5. \A d \in Executed : argument'[d] = argument[d]
  BY <1>1, <1>3
<1>6. CASE front_ = NoCommand /\ Started(posted)
  <2>1. \A d \in Disassembles \cap Executed : Has(d, instructions_)
    BY <1>1, <1>6, CommandsAssumption DEF DataInv
  <2> QED BY <1>1, <1>2, <1>3, <1>4, <1>5, <1>6, <2>1, StartedData
          DEF DataInv, InstructionsInv, viewVars
<1>7. CASE /\ executed' = executed /\ front_' = front_ /\ posted' = posted
           /\ UNCHANGED dataVars
  <2>1. Executed' = Executed /\ ExecutedDeletes' = ExecutedDeletes
    BY <1>7 DEF Executed, ExecutedDeletes
  <2>2. \A d, T : Has(d, T) => contextInstructions'[d] \ Deleted' \subseteq T
    BY <1>4, <1>7 DEF Has, dataVars
  <2>3. \A d \in ExecutedDeletes : argument'[d] = argument[d]
    BY <1>5 DEF ExecutedDeletes
  <2>4. DisassemblyInv'
    BY <1>2, <1>7, <2>1, <2>3 DEF DataInv, DisassemblyInv, dataVars
  <2>5. \A d \in (Disassembles \cap Executed') \ {front_'} : Has(d, instructions_)'
    BY <1>7, <2>1, <2>2 DEF DataInv, Has, dataVars
  <2>6. front_' \in DecompileAlls =>
           \A d \in Disassembles \cap Executed' : Has(d, contextInstructions[front_])'
    BY <1>7, <2>1, <2>2 DEF DataInv, Has, dataVars
  <2> QED BY <1>2, <1>7, <2>1, <2>3, <2>4, <2>5, <2>6 DEF DataInv, dataVars, viewVars
<1> QED BY <1>2, <1>6, <1>7

\* The front ends, and the next command starts with what the project has by then.
LEMMA CommandFinishedData ==
    ASSUME ProjectInv, EventsInv, DataInv, ~Disturbed, DeliverCommandFinished, WorkOfExecuted,
           UNCHANGED <<argument, delivered, viewVars>>
    PROVE  DataInv'
<1>1. /\ CountInv /\ InstructionsInv /\ QueueInv /\ Executed \subseteq Commands
  <2>1. CountInv /\ QueueInv /\ InstructionsInv
    BY DEF ProjectInv, QueueInv
  <2> QED BY <2>1, UndisturbedQueue
<1> PICK ev : ev = Tail(posted)
  OBVIOUS
<1>2. /\ posted # <<>> /\ Head(posted).slot = "commandFinished"
      /\ \/ status' = "aborted"
         \/ /\ executed' = executed /\ front_' = NoCommand /\ UNCHANGED dataVars
         \/ Started(ev)
  BY <1>1, CommandFinishedWorks
<1>3. AllEnds(posted) /\ (front_ \in Disassembles => front_ \in delivered)
  BY <1>1, <1>2, FinishedIsLast
<1>4. \A d \in Disassembles \cap Executed : Has(d, instructions_)
  BY <1>3 DEF DataInv, DisassemblyInv, Has
<1>5. Deleted' = Deleted
  BY DEF Deleted
<1>6. CASE executed' = executed /\ front_' = NoCommand /\ UNCHANGED dataVars
  <2>1. Executed' = Executed /\ ExecutedDeletes' = ExecutedDeletes
    BY <1>6 DEF Executed, ExecutedDeletes
  <2>2. NoCommand \notin Disassembles \cup Decompiles /\ NoCommand \notin DecompileAlls
    BY CommandsAssumption, ClassesAssumption DEF Decompiles
  <2>3. \A d \in Disassembles \cap Executed' : Has(d, instructions_)'
    BY <1>4, <1>5, <1>6, <2>1 DEF Has, dataVars
  <2> QED BY <1>6, <2>1, <2>2, <2>3 DEF DataInv, DisassemblyInv, dataVars, viewVars
<1>7. CASE Started(ev)
  BY <1>1, <1>4, <1>5, <1>7, StartedData DEF DataInv, InstructionsInv, viewVars
<1>8. CASE status' = "aborted"
  BY <1>8 DEF DataInv, Disturbed
<1> QED BY <1>2, <1>6, <1>7, <1>8

\* updateInstructions() takes the current disassembly's instructions: its own signal is
\* the only one that can arrive.
LEMMA UpdateData ==
    ASSUME ProjectInv, EventsInv, DataInv, ~Disturbed, UpdateInstructions
    PROVE  /\ DataInv'
           /\ instructions_ \subseteq instructions_'
<1>1. /\ posted \in Seq(Posts) /\ posted # <<>> /\ Head(posted).slot = "instructionsChanged"
      /\ status = "open" /\ posted' = Tail(posted)
      /\ instructions_' = contextInstructions[context_]
      /\ UNCHANGED <<front_, contextInstructions, context_, executed, argument, delivered, viewContext>>
  BY UndisturbedQueue DEF ProjectInv, UpdateInstructions, Deliver, viewVars, queueVars
<1>2. Head(posted) \in Elements(posted) /\ ~IsEnd(Head(posted))
  BY <1>1, TailElements DEF IsEnd
<1>3. front_ \in Disassembles
  BY <1>1, <1>2 DEF ProjectInv, ViewsInv, SignalsKnown, EventsInv
<1>4. /\ context_ = front_ /\ front_ \notin DecompileAlls /\ instructions_' = contextInstructions[front_]
  BY <1>1, <1>3, ClassesAssumption DEF DataInv
<1>5. instructions_ \subseteq instructions_'
  BY <1>3, <1>4 DEF DataInv, DisassemblyInv
<1>6. Executed' = Executed /\ ExecutedDeletes' = ExecutedDeletes /\ Deleted' = Deleted
  BY <1>1 DEF Executed, ExecutedDeletes, Deleted
<1>7. \A c \in ExecutedDeletes : argument[c] \cap contextInstructions[front_] = {}
  BY <1>3 DEF DataInv, DisassemblyInv
<1>8. DisassemblyInv'
  BY <1>1, <1>4, <1>6, <1>7 DEF DisassemblyInv
<1>9. \A d \in (Disassembles \cap Executed') \ {front_'} : Has(d, instructions_)'
  BY <1>1, <1>5, <1>6 DEF DataInv, Has
<1> QED BY <1>1, <1>4, <1>5, <1>6, <1>7, <1>8, <1>9 DEF DataInv

\* The main window shows a tree: its context is that of the front.
LEMMA ShowData ==
    ASSUME ProjectInv, EventsInv, DataInv, ~Disturbed, ShowTree
    PROVE  DataInv'
<1>1. /\ posted \in Seq(Posts) /\ posted # <<>> /\ Head(posted).slot = "treeChanged"
      /\ viewContext' \in {viewContext, context_}
      /\ UNCHANGED <<front_, dataVars, executed, argument, delivered>>
  BY UndisturbedQueue DEF ProjectInv, ShowTree, Deliver, viewVars, queueVars
<1>2. Head(posted) \in Elements(posted) /\ ~IsEnd(Head(posted))
  BY <1>1, TailElements DEF IsEnd
<1>3. front_ \in Decompiles /\ front_ \in delivered
  BY <1>1, <1>2 DEF ProjectInv, ViewsInv, SignalsKnown, EventsInv
<1>4. context_ = front_ /\ front_ \notin Disassembles
  BY <1>3, ClassesAssumption DEF DataInv, Decompiles
<1>5. Executed' = Executed /\ ExecutedDeletes' = ExecutedDeletes /\ Deleted' = Deleted
  BY <1>1 DEF Executed, ExecutedDeletes, Deleted
<1>6. \A d \in (Disassembles \cap Executed') \ {front_'} : Has(d, instructions_)'
  BY <1>1, <1>5 DEF DataInv, Has, dataVars
<1>7. front_' \in DecompileAlls =>
         \A d \in Disassembles \cap Executed' : Has(d, contextInstructions[front_])'
  BY <1>1, <1>5 DEF DataInv, Has, dataVars
<1> QED BY <1>1, <1>3, <1>4, <1>5, <1>6, <1>7 DEF DataInv, DisassemblyInv, dataVars

\* The result of the current disassembly: what it adds is new, so it is no instruction
\* that was ever deleted.
LEMMA DisassemblyData ==
    ASSUME ProjectInv, EventsInv, DataInv, ~Disturbed, NEW c \in Commands, DisassemblyResult(c)
    PROVE  DataInv'
<1>1. /\ QueueInv /\ CountInv /\ InstructionsInv
      /\ c \in Disassembles \ delivered /\ <<c, 1>> \in Unfinished
      /\ delivered' = delivered \cup {c} /\ posted' = Append(posted, Signal("instructionsChanged", c))
      /\ UNCHANGED <<front_, instructions_, context_, argument, executed, viewContext>>
  BY DEF ProjectInv, QueueInv, DisassemblyResult, Emit, Unfinished, queueVars, viewVars
<1>2. c = front_ /\ c \notin DecompileAlls
  BY <1>1, WorkingHasNoEnd, ClassesAssumption
<1>3. /\ contextInstructions[c] \subseteq contextInstructions'[c]
      /\ \A i \in contextInstructions'[c] \ contextInstructions[c] : i[2] = c
      /\ \A d \in Contexts \ {c} : contextInstructions'[d] = contextInstructions[d]
  BY <1>1, DisassemblyInstructions DEF DisassemblyResult
<1>4. \A d \in Commands : \A i \in argument[d] : i[2] # c
  BY <1>1 DEF InstructionsInv, Proper
<1>5. Executed' = Executed /\ ExecutedDeletes' = ExecutedDeletes /\ Deleted' = Deleted
  BY <1>1 DEF Executed, ExecutedDeletes, Deleted
<1>6. Deletes \subseteq Commands /\ Disassembles \subseteq Contexts
  BY ClassesAssumption DEF Contexts
<1>7. ~AllEnds(posted')
  <2> PICK e : e = Signal("instructionsChanged", c)
    OBVIOUS
  <2>1. e \in Posts /\ ~IsEnd(e) /\ posted \in Seq(Posts)
    BY <1>1, UndisturbedQueue DEF Signal, Posts, IsEnd
  <2>2. e \in Elements(posted')
    BY <1>1, <2>1, EventElements
  <2> QED BY <2>1, <2>2 DEF AllEnds
<1>8. \A d \in ExecutedDeletes : argument[d] \cap contextInstructions'[c] = {}
  <2> SUFFICES ASSUME NEW d \in ExecutedDeletes, NEW i \in argument[d], i \in contextInstructions'[c]
               PROVE  FALSE
    OBVIOUS
  <2>1. i \in contextInstructions[c]
    BY <1>3, <1>4, <1>6 DEF ExecutedDeletes
  <2> QED BY <1>1, <1>2, <2>1 DEF DataInv, DisassemblyInv
<1>9. DisassemblyInv'
  BY <1>1, <1>2, <1>3, <1>5, <1>7, <1>8 DEF DataInv, DisassemblyInv
<1>10. \A d \in (Disassembles \cap Executed') \ {front_'} : Has(d, instructions_)'
  BY <1>1, <1>2, <1>3, <1>5, <1>6 DEF DataInv, Has
<1> QED BY <1>1, <1>2, <1>5, <1>9, <1>10 DEF DataInv

\* A decompilation delivers, and no instructions change.
LEMMA DecompilationData ==
    ASSUME ProjectInv, EventsInv, DataInv, ~Disturbed, NEW c \in Commands, DecompilationResult(c)
    PROVE  DataInv'
<1>1. /\ QueueInv /\ c \in Decompiles /\ <<c, 1>> \in Unfinished /\ delivered' = delivered \cup {c}
      /\ UNCHANGED <<front_, dataVars, argument, executed, viewContext>>
  BY DEF ProjectInv, DecompilationResult, Emit, Unfinished, queueVars, viewVars, dataVars
<1>2. front_ \notin Disassembles
  BY <1>1, WorkingHasNoEnd, ClassesAssumption DEF Decompiles
<1>3. Executed' = Executed /\ ExecutedDeletes' = ExecutedDeletes /\ Deleted' = Deleted
  BY <1>1 DEF Executed, ExecutedDeletes, Deleted
<1>4. \A d \in (Disassembles \cap Executed') \ {front_'} : Has(d, instructions_)'
  BY <1>1, <1>3 DEF DataInv, Has, dataVars
<1>5. front_' \in DecompileAlls =>
         \A d \in Disassembles \cap Executed' : Has(d, contextInstructions[front_])'
  BY <1>1, <1>3 DEF DataInv, Has, dataVars
<1> QED BY <1>1, <1>2, <1>3, <1>4, <1>5 DEF DataInv, DisassemblyInv, dataVars

\* Every step keeps what disassemblies found and nobody deleted.
LEMMA ProjectStepData ==
    ASSUME ProjectInv, EventsInv, DataInv, [ProjectNext]_allVars
    PROVE  DataInv'
<1> SUFFICES ASSUME ~Disturbed' PROVE DataInv'
  BY DEF DataInv
<1>1. /\ ~Disturbed /\ QueueInv /\ CountInv /\ posted \in Seq(Posts)
  BY ProjectDisturbedForever, UndisturbedQueue DEF ProjectInv, QueueInv
<1>2. CASE /\ UNCHANGED <<front_, dataVars, argument, executed, delivered, viewContext>>
           /\ AllEnds(posted') => AllEnds(posted)
  BY <1>1, <1>2, DataUnchanged
<1>3. CASE User \/ PoolStarts \/ UNCHANGED allVars
  <2>1. posted' = posted
    BY <1>3 DEF User, PoolStarts, StartActivity, allVars, vars
  <2> QED BY <1>2, <1>3, <2>1
          DEF User, PoolStarts, StartActivity, allVars, projectVars, vars, queueVars, viewVars, AllEnds
<1>4. CASE CloseProject \/ CallCancelAll
  <2>1. CASE Destroy \/ Clear
    <3>1. clears \in Nat
      BY <1>1 DEF CountInv, Rest
    <3> QED BY <2>1, <3>1 DEF Destroy, Clear, Disturbed
  <2>2. CASE UNCHANGED vars /\ CallCancelAll
    <3>1. UNCHANGED <<front_, dataVars, argument, executed, delivered, viewContext, posted>>
      BY <2>2 DEF CallCancelAll, vars, queueVars, viewVars
    <3> QED BY <1>2, <3>1 DEF AllEnds
  <2> QED BY <1>4, <2>1, <2>2 DEF CloseProject, CallCancelAll
<1>5. CASE CallPush
  BY <1>1, <1>5, CallPushData
<1>6. CASE UpdateInstructions
  BY <1>1, <1>6, UpdateData
<1>7. CASE ShowTree
  BY <1>1, <1>7, ShowData
<1>8. CASE CommandEvents /\ DeliverActivityFinished /\ UNCHANGED dataVars
  <2>1. /\ posted # <<>> /\ Head(posted).slot = "activityFinished"
        /\ posted' \in {Tail(posted), Append(Tail(posted), CommandFinished(Head(posted).command))}
        /\ UNCHANGED <<front_, dataVars, argument, executed, delivered, viewContext>>
    BY <1>8 DEF CommandEvents, DeliverActivityFinished, queueVars, viewVars
  <2> PICK ev, e : ev = Tail(posted) /\ e = CommandFinished(Head(posted).command)
    OBVIOUS
  <2>2. /\ Head(posted) \in Posts /\ ev \in Seq(Posts)
        /\ Elements(posted) = {Head(posted)} \cup Elements(ev)
    BY <1>1, <2>1, TailElements
  <2>3. e \in Posts
    BY <2>2, EventsDiffer DEF Posts
  <2>4. Elements(ev) \subseteq Elements(posted')
    <3>1. Elements(Append(ev, e)) = Elements(ev) \cup {e}
      BY <2>2, <2>3, EventElements
    <3> QED BY <2>1, <3>1
  <2>5. AllEnds(posted') => AllEnds(posted)
    BY <2>1, <2>2, <2>4 DEF AllEnds, IsEnd
  <2> QED BY <1>2, <2>1, <2>5
<1>9. CASE CommandEvents /\ DeliverCommandFinished /\ WorkOfExecuted
  BY <1>1, <1>9, CommandFinishedData DEF CommandEvents
<1>10. ASSUME NEW c \in Commands, Worker(c) PROVE DataInv'
  <2>1. CASE ActivityOver(c)
    <3>1. UNCHANGED <<front_, dataVars, argument, executed, delivered, viewContext>>
      BY <2>1 DEF ActivityOver, FinishActivity, projectVars, queueVars, viewVars
    <3> PICK e : e = ActivityFinished(<<c, 1>>)
      OBVIOUS
    <3>2. posted' = Append(posted, e)
      BY <2>1 DEF ActivityOver, FinishActivity
    <3>3. e \in Posts
      BY EventsDiffer DEF Activities
    <3>4. Elements(posted') = Elements(posted) \cup {e}
      BY <1>1, <3>2, <3>3, EventElements
    <3> QED BY <1>2, <3>1, <3>4 DEF AllEnds
  <2> QED BY <1>1, <1>10, <2>1, DisassemblyData, DecompilationData DEF Worker
<1> QED BY <1>3, <1>4, <1>5, <1>6, <1>7, <1>8, <1>9, <1>10
        DEF ProjectNext, Handler, PostedEvents, CommandEvents

\* At first nothing is posted or found.
LEMMA ProjectInitData == ProjectInit => EventsInv /\ DataInv
<1> SUFFICES ASSUME ProjectInit PROVE EventsInv /\ DataInv
  OBVIOUS
<1>1. /\ Elements(posted) = {} /\ DOMAIN posted = {} /\ Executed = {}
      /\ front_ = NoCommand /\ instructions_ = {} /\ viewContext = NoCommand
  BY DEF ProjectInit, Init, Elements, Executed
<1>2. NoCommand \notin Commands
  BY CommandsAssumption
<1>3. NoCommand \notin Disassembles \cup Decompiles /\ NoCommand \notin DecompileAlls
  BY <1>2, ClassesAssumption DEF Decompiles
<1>4. EventsInv
  BY <1>1 DEF EventsInv, SignalsFirst
<1>5. DataInv
  BY <1>1, <1>3 DEF DataInv, DisassemblyInv, ExecutedDeletes
<1> QED BY <1>4, <1>5
-----------------------------------------------------------------------------
UndisturbedInv == ProjectInv /\ EventsInv /\ DataInv

\* The order of the posted events and where the instructions are, as long as nothing is
\* cancelled.
THEOREM UndisturbedKeepsItself == ProjectSpec => []UndisturbedInv
<1>1. ProjectInit => UndisturbedInv
  BY ProjectInitInv, ProjectInitData DEF UndisturbedInv
<1>2. UndisturbedInv /\ [ProjectNext]_allVars => UndisturbedInv'
  BY ProjectStepInv, ProjectStepEvents, ProjectStepData DEF UndisturbedInv
<1> QED BY <1>1, <1>2, PTL DEF ProjectSpec

\* A deletion is final: an instruction that an executed DeleteInstructions captured is
\* never brought back by a disassembly that was running or by an event that was posted.
THEOREM DeletionIsFinal == ProjectSpec => []DeletedStayDeleted
<1>1. UndisturbedInv => DeletedStayDeleted
  BY DEF UndisturbedInv, DataInv, DeletedStayDeleted, ExecutedDeletes, Executed
<1> QED BY <1>1, UndisturbedKeepsItself, PTL

\* "Decompile everything" works on everything that the disassemblies before it found and
\* no deletion took away: no result is still on its way when its context is made.
THEOREM EverythingIsDecompiled == ProjectSpec => []DecompileAllSeesAll
<1>1. UndisturbedInv => DecompileAllSeesAll
  BY DEF UndisturbedInv, DataInv, DecompileAllSeesAll, Has, Deleted, Executed
<1> QED BY <1>1, UndisturbedKeepsItself, PTL

\* The views never hold a context whose activity has yet to deliver its result.
THEOREM ViewsReadFinishedContexts == ProjectSpec => []UndisturbedViewsHoldFinishedContexts
<1>1. UndisturbedInv => UndisturbedViewsHoldFinishedContexts
  <2> SUFFICES ASSUME UndisturbedInv, ~Disturbed, NEW a \in Unfinished, a[1] = viewContext
               PROVE  viewContext \in delivered
    BY DEF UndisturbedViewsHoldFinishedContexts, ViewsHoldFinishedContexts
  <2>1. CountInv /\ viewContext \in delivered \cup {NoCommand}
    BY DEF UndisturbedInv, ProjectInv, QueueInv, DataInv
  <2>2. a[1] \in Commands
    BY <2>1 DEF CountInv, Placed, Unfinished, Activities, Elements
  <2> QED BY <2>1, <2>2, CommandsAssumption
<1> QED BY <1>1, UndisturbedKeepsItself, PTL

\* Of the commands that start only a deletion takes instructions away.
LEMMA StartedTakes ==
    ASSUME NEW ev, Started(ev) PROVE OnlyDeletionTakes
<1> PICK h : h = front_'
  OBVIOUS
<1>1. h \in Elements(executed') /\ Work(h)
  BY DEF Started, Executed
<1>2. CASE h \in Deletes /\ instructions_' = instructions_ \ argument'[h]
  <2>1. h \in Deletes \cap Elements(executed') /\ instructions_ \ instructions_' \subseteq argument'[h]
    BY <1>1, <1>2
  <2> QED BY <2>1 DEF OnlyDeletionTakes
<1>3. CASE instructions_' = instructions_
  BY <1>3 DEF OnlyDeletionTakes
<1> QED BY <1>1, <1>2, <1>3 DEF Work

\* Of the steps only those that start a command, or deliver a result that contains the
\* project's instructions, change them.
LEMMA UndisturbedStepTakes ==
    ASSUME UndisturbedInv, ~Disturbed, [ProjectNext]_allVars
    PROVE  OnlyDeletionTakes
<1>1. ProjectInv /\ EventsInv /\ DataInv /\ CountInv /\ calls \in Seq(Calls)
  BY DEF UndisturbedInv, ProjectInv, QueueInv, ViewsInv
<1>2. CASE instructions_ \subseteq instructions_'
  BY <1>2 DEF OnlyDeletionTakes
<1>3. CASE CallPush
  <2>1. UNCHANGED dataVars \/ Started(posted)
    BY <1>1, <1>3, CallPushWorks
  <2> QED BY <1>2, <2>1, StartedTakes DEF dataVars
<1>4. CASE UpdateInstructions
  BY <1>1, <1>2, <1>4, UpdateData
<1>5. CASE CommandEvents
  <2>1. CASE DeliverCommandFinished /\ WorkOfExecuted
    <3> PICK ev : ev = Tail(posted)
      OBVIOUS
    <3>1. UNCHANGED dataVars \/ Started(ev)
      BY <1>1, <2>1, CommandFinishedWorks
    <3> QED BY <1>2, <3>1, StartedTakes DEF dataVars
  <2> QED BY <1>2, <1>5, <2>1 DEF CommandEvents, dataVars
<1> QED BY <1>2, <1>3, <1>4, <1>5
        DEF ProjectNext, User, CloseProject, Handler, CallCancelAll, PostedEvents, ShowTree,
            PoolStarts, Worker, DisassemblyResult, DecompilationResult, Emit, ActivityOver,
            dataVars, projectVars, allVars

\* Instructions leave the project only through DeleteInstructions: updating them from a
\* context loses none, because the context is the running disassembly's and was copied
\* from them.
THEOREM OnlyDeletionTakesAway == ProjectSpec => UndisturbedOnlyDeletionRemoves
<1>1. UndisturbedInv /\ [ProjectNext]_allVars => [Disturbed \/ OnlyDeletionTakes]_allVars
  BY UndisturbedStepTakes
<1> QED BY <1>1, UndisturbedKeepsItself, PTL DEF ProjectSpec, UndisturbedOnlyDeletionRemoves
=============================================================================
