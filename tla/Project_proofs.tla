--------------------------- MODULE Project_proofs ---------------------------
(***************************************************************************)
(* Proofs about Project, for any addresses, any commands of the four       *)
(* classes, any ranges, any number of threads and any use of clear().      *)
(***************************************************************************)
EXTENDS Project, CommandQueueOrder_proofs

-----------------------------------------------------------------------------
(* The queue inside the project.  A step of the project is a step of the queue, or it
   posts or delivers a signal of a context, which the queue does not look at. *)

\* A signal is posted once, by a worker that had not delivered before.
SignalPosted ==
    \E c \in Commands \ delivered, slot \in {"instructionsChanged", "treeChanged"} :
        /\ posted' = Append(posted, Signal(slot, c))
        /\ delivered' = delivered \cup {c}

SignalTaken ==
    /\ posted # <<>> /\ ~IsEnd(Head(posted))
    /\ posted' = Tail(posted)

SignalStep ==
    /\ SignalPosted \/ SignalTaken
    /\ UNCHANGED <<queueVars, commandVars, workerVars, status, pushed, executed, clears>>

\* What a handler of MainWindow may still have to call.
Calls == {CancelAll} \cup {Schedule(c, S) : c \in Commands, S \in SUBSET Instructions}

\* Everything posted that is not the end of something is a signal of a worker that has
\* delivered.
SignalsKnown ==
    \A e \in Elements(posted) : ~IsEnd(e) =>
        /\ e \in Signals /\ e.command \in delivered
        /\ \/ e.slot = "instructionsChanged" /\ e.command \in Disassembles
           \/ e.slot = "treeChanged" /\ e.command \in Decompiles

\* Calls a handler has left to make are of commands, with instructions.
LEMMA CallsHaveCommands ==
    ASSUME calls \in Seq(Calls), calls # <<>>
    PROVE  /\ Tail(calls) \in Seq(Calls)
           /\ Head(calls).op = "push" =>
                 Head(calls).command \in Commands /\ Head(calls).argument \in SUBSET Instructions
<1>1. Head(calls) \in Calls /\ Tail(calls) \in Seq(Calls)
  BY TailElements
<1>2. CASE Head(calls) = CancelAll
  BY <1>1, <1>2 DEF CancelAll
<1>3. CASE Head(calls) \in {Schedule(c, S) : c \in Commands, S \in SUBSET Instructions}
  <2>1. PICK c \in Commands, S \in SUBSET Instructions : Head(calls) = Schedule(c, S)
    BY <1>3
  <2> QED BY <1>1, <2>1 DEF Schedule
<1> QED BY <1>1, <1>2, <1>3 DEF Calls

\* The project's steps are the queue's, or post or deliver a signal.
LEMMA ProjectStep ==
    ASSUME calls \in Seq(Calls), [ProjectNext]_allVars
    PROVE  [Next]_vars \/ SignalStep
<1>1. CASE User
  BY <1>1 DEF User
<1>2. CASE CloseProject
  BY <1>2 DEF CloseProject, Next
<1>3. CASE CallCancelAll
  BY <1>3 DEF CallCancelAll, Next
<1>4. CASE CallPush
  <2>1. Head(calls).command \in Commands /\ Push(Head(calls).command)
    BY <1>4, CallsHaveCommands DEF CallPush
  <2> QED BY <2>1 DEF Next, UndisturbedNext
<1>5. CASE UpdateInstructions \/ ShowTree
  <2>1. SignalTaken
    BY <1>5 DEF UpdateInstructions, ShowTree, Deliver, SignalTaken, IsEnd
  <2> QED BY <1>5, <2>1 DEF UpdateInstructions, ShowTree, SignalStep
<1>6. CASE CommandEvents
  BY <1>6 DEF CommandEvents, Next, UndisturbedNext, EventLoop
<1>7. CASE PoolStarts
  BY <1>7 DEF PoolStarts, Next, UndisturbedNext, Workers
<1>8. ASSUME NEW c \in Commands, DisassemblyResult(c) \/ DecompilationResult(c)
      PROVE  SignalStep
  <2>1. SignalPosted
    BY <1>8 DEF DisassemblyResult, DecompilationResult, Emit, SignalPosted
  <2> QED BY <1>8, <2>1 DEF DisassemblyResult, DecompilationResult, Emit, SignalStep
<1>9. ASSUME NEW c \in Commands, ActivityOver(c) PROVE Next
  BY <1>9 DEF ActivityOver, Next, UndisturbedNext, Workers
<1>10. CASE UNCHANGED allVars
  BY <1>10 DEF allVars
<1> QED BY <1>1, <1>2, <1>3, <1>4, <1>5, <1>6, <1>7, <1>8, <1>9, <1>10
        DEF ProjectNext, Handler, PostedEvents, Worker

QueueInv ==
    /\ CountInv /\ AloneInv /\ IdleIsEmpty /\ OrderInv
    /\ AbandonedAreCancelled /\ FinishIsAnnounced /\ StatusBarShowsFront

\* A signal adds or removes one event, and no end.
LEMMA SignalStepPosts ==
    ASSUME CountInv, SignalsKnown, SignalStep
    PROVE  /\ posted' \in Seq(Posts) /\ Injective(posted')
           /\ \A e : IsEnd(e) => (e \in Elements(posted') <=> e \in Elements(posted))
<1>1. posted \in Seq(Posts) /\ Injective(posted)
  BY DEF CountInv, Placed
<1>2. CASE SignalTaken
  <2>1. /\ posted' \in Seq(Posts) /\ Injective(posted')
        /\ Elements(posted) = {Head(posted)} \cup Elements(posted')
    BY <1>1, <1>2, TailElements DEF SignalTaken
  <2> QED BY <1>2, <2>1 DEF SignalTaken
<1>3. CASE SignalPosted
  <2>1. PICK c \in Commands \ delivered, slot \in {"instructionsChanged", "treeChanged"} :
           posted' = Append(posted, Signal(slot, c))
    BY <1>3 DEF SignalPosted
  <2> PICK e : e = Signal(slot, c)
    OBVIOUS
  <2>2. e \in Posts /\ ~IsEnd(e) /\ e.command = c
    BY DEF Posts, IsEnd, Signal
  <2>3. e \notin Elements(posted)
    BY <2>2 DEF SignalsKnown
  <2>4. /\ posted' \in Seq(Posts) /\ Injective(posted')
        /\ Elements(posted') = Elements(posted) \cup {e}
    BY <1>1, <2>1, <2>2, <2>3, AppendElements
  <2> QED BY <2>2, <2>4
<1> QED BY <1>2, <1>3 DEF SignalStep

\* A signal that is posted or delivered counts nothing.
LEMMA SignalStepCounts == ASSUME CountInv, SignalsKnown, SignalStep PROVE CountInv'
<1>1. UNCHANGED <<queueVars, commandVars, workerVars, status, pushed, executed, clears>>
  BY DEF SignalStep
<1>2. /\ posted' \in Seq(Posts) /\ Injective(posted')
      /\ \A e : IsEnd(e) => (e \in Elements(posted') <=> e \in Elements(posted))
  BY SignalStepPosts
<1>3. /\ \A a : ActivityFinished(a) \in Elements(posted') <=> ActivityFinished(a) \in Elements(posted)
      /\ \A c : CommandFinished(c) \in Elements(posted') <=> CommandFinished(c) \in Elements(posted)
  BY <1>2 DEF IsEnd, ActivityFinished, CommandFinished
<1>4. Unfinished' = Unfinished
  BY <1>1 DEF Unfinished, workerVars
<1>5. Scheduled(queue_, front_, Elements(pushed))'
  BY <1>1 DEF CountInv, Scheduled, queueVars
<1>6. Placed(posted)'
  BY <1>1, <1>2, <1>3, <1>4 DEF CountInv, Placed, workerVars, commandVars
<1>7. Counted(queue_, front_, posted)'
  <2>1. \A c : Outstanding(c, posted)' = Outstanding(c, posted)
    BY <1>3, <1>4 DEF Outstanding
  <2> QED BY <1>1, <2>1 DEF CountInv, Counted, queueVars, commandVars
<1>8. Rest'
  BY <1>1 DEF CountInv, Rest, queueVars, commandVars
<1> QED BY <1>5, <1>6, <1>7, <1>8 DEF CountInv

\* It concerns none of the queue's invariants.
LEMMA SignalStepQueue == ASSUME QueueInv, SignalsKnown, SignalStep PROVE QueueInv'
<1>1. UNCHANGED <<queueVars, commandVars, workerVars, status, pushed, executed, clears>>
  BY DEF SignalStep
<1>2. CountInv /\ \A e : IsEnd(e) => (e \in Elements(posted') <=> e \in Elements(posted))
  BY SignalStepPosts DEF QueueInv
<1>3. CountInv'
  BY SignalStepCounts DEF QueueInv
<1>4. Unfinished' = Unfinished
  BY <1>1 DEF Unfinished, workerVars
<1>5. AloneInv'
  <2>1. \A e \in Elements(posted') : e.slot = "commandFinished" => e \in Elements(posted)
    BY <1>2 DEF IsEnd
  <2> QED BY <1>1, <1>2, <1>4, <2>1 DEF QueueInv, AloneInv, Alone, queueVars
<1>6. IdleIsEmpty' /\ OrderInv' /\ AbandonedAreCancelled' /\ StatusBarShowsFront'
  BY <1>1, <1>4 DEF QueueInv, IdleIsEmpty, OrderInv, AbandonedAreCancelled, StatusBarShowsFront,
                    queueVars, commandVars
<1>7. FinishIsAnnounced'
  BY <1>1, <1>2 DEF QueueInv, FinishIsAnnounced, IsEnd, CommandFinished, queueVars, commandVars
<1> QED BY <1>3, <1>5, <1>6, <1>7 DEF QueueInv

\* The queue's invariants hold in the project.
LEMMA ProjectStepQueue ==
    ASSUME QueueInv, SignalsKnown, calls \in Seq(Calls), [ProjectNext]_allVars
    PROVE  QueueInv'
<1>1. CASE [Next]_vars
  BY <1>1, NextCounts, NextAlone, NextIdle, NextOrders, NextCancels, NextAnnounces, NextShows
     DEF QueueInv
<1> QED BY <1>1, ProjectStep, SignalStepQueue

\* They hold at first.
LEMMA InitQueue == Init => QueueInv
<1> SUFFICES ASSUME Init PROVE QueueInv
  OBVIOUS
<1>1. CountInv /\ AloneInv
  BY InitCounts, InitAlone
<1>2. IdleIsEmpty /\ OrderInv /\ AbandonedAreCancelled /\ FinishIsAnnounced /\ StatusBarShowsFront
  BY DEF Init, IdleIsEmpty, OrderInv, InOrderOf, AbandonedAreCancelled, FinishIsAnnounced,
         StatusBarShowsFront, Unfinished, Elements
<1> QED BY <1>1, <1>2 DEF QueueInv
-----------------------------------------------------------------------------
(* What a step of the queue does to the data: at most one command is executed, the one
   that becomes current, and its work() is done then. *)

Executed == Elements(executed)

\* The queue may have made a command current, which was not executed before.
Started(ev) ==
    /\ posted' = IF Delegated[front_'] = 0 THEN Append(ev, CommandFinished(front_')) ELSE ev
    /\ front_' \in Commands \ Executed
    /\ Executed' = Executed \cup {front_'}
    /\ Work(front_')

\* executeNext() starts nothing and touches no instructions, or starts the next command.
LEMMA ExecuteNextWorks ==
    ASSUME CountInv,
           NEW q \in Seq(Commands), NEW f, NEW tokens, NEW ev, NEW pu, Scheduled(q, f, pu),
           ExecuteNext(q, f, tokens, ev), WorkOfExecuted
    PROVE  \/ /\ executed' = executed /\ front_' = f /\ posted' = ev
              /\ UNCHANGED dataVars
           \/ f = NoCommand /\ Started(ev)
<1>1. CASE f # NoCommand \/ q = <<>>
  <2>1. executed' = executed /\ front_' = f /\ posted' = ev
    BY <1>1 DEF ExecuteNext
  <2> QED BY <2>1 DEF WorkOfExecuted
<1>2. CASE f = NoCommand /\ q # <<>>
  <2>1. executed \in Seq(Commands)
    BY DEF Scheduled
  <2>2. Head(q) \in Commands /\ Head(q) \notin Executed
    BY <1>2, TailElements DEF Scheduled, Executed
  <2>3. /\ front_' = Head(q) /\ executed' = Append(executed, Head(q))
        /\ activityCount_' = [activityCount_ EXCEPT ![Head(q)] = @ + Delegated[Head(q)]]
        /\ posted' = IF activityCount_'[front_'] = 0 THEN Append(ev, CommandFinished(front_')) ELSE ev
    BY <1>2 DEF ExecuteNext, Execute
  <2>4. /\ Executed' = Executed \cup {Head(q)}
    BY <2>1, <2>2, <2>3, AppendElements DEF Executed
  <2>5. executed' # executed /\ executed'[Len(executed')] = Head(q)
    BY <2>1, <2>2, <2>3
  <2>6. activityCount_'[front_'] = Delegated[front_']
    <3> PICK h : h = Head(q)
      OBVIOUS
    <3>1. h \in Commands /\ activityCount_[h] = 0 /\ activityCount_ \in [Commands -> Nat]
      BY <2>2 DEF CountInv, Counted, Executed
    <3>2. front_' = h /\ activityCount_' = [activityCount_ EXCEPT ![h] = @ + Delegated[h]]
      BY <2>3
    <3>3. Delegated[h] \in Nat
      BY <3>1, DelegatedAssumption
    <3> QED BY <3>1, <3>2, <3>3
  <2> QED BY <1>2, <2>2, <2>3, <2>4, <2>5, <2>6 DEF WorkOfExecuted, Started
<1> QED BY <1>1, <1>2

\* push(), called by a handler.
LEMMA CallPushWorks ==
    ASSUME CountInv, calls \in Seq(Calls), CallPush
    PROVE  \E c \in Commands \ Elements(pushed), S \in SUBSET Instructions :
              /\ argument' = [argument EXCEPT ![c] = S \cap instructions_]
              /\ Elements(pushed') = Elements(pushed) \cup {c}
              /\ calls' \in Seq(Calls) /\ status = "open"
              /\ \/ /\ executed' = executed /\ front_' = front_ /\ posted' = posted
                    /\ UNCHANGED dataVars
                 \/ front_ = NoCommand /\ Started(posted)
              /\ UNCHANGED <<tree, delivered, viewVars, running, status, clears>>
<1> PICK c, S : c = Head(calls).command /\ S = Head(calls).argument
  OBVIOUS
<1>1. c \in Commands /\ S \in SUBSET Instructions /\ calls' \in Seq(Calls)
  BY CallsHaveCommands DEF CallPush
<1>2. /\ Push(c) /\ WorkOfExecuted
      /\ argument' = [argument EXCEPT ![c] = S \cap instructions_]
      /\ UNCHANGED <<tree, delivered, viewVars>>
  BY DEF CallPush
<1> PICK q, f, tokens, ev : q = Append(queue_, c) /\ f = front_ /\ tokens = cancelled /\ ev = posted
  OBVIOUS
<1>3. /\ c \notin Elements(pushed) /\ pushed' = Append(pushed, c) /\ status = "open"
      /\ ExecuteNext(q, f, tokens, ev) /\ UNCHANGED <<running, status, clears>>
  BY <1>2 DEF Push
<1>4. pushed \in Seq(Commands) /\ queue_ \in Seq(Commands)
  BY DEF CountInv, Rest, Scheduled
<1>5. Elements(pushed') = Elements(pushed) \cup {c}
  BY <1>1, <1>3, <1>4, AppendElements
<1>6. q \in Seq(Commands) /\ Injective(q) /\ Elements(q) = Elements(queue_) \cup {c}
  BY <1>1, <1>3, <1>4, AppendElements DEF CountInv, Scheduled
<1>7. Scheduled(q, f, Elements(pushed'))
  BY <1>3, <1>5, <1>6 DEF CountInv, Scheduled
<1>8. \/ /\ executed' = executed /\ front_' = front_ /\ posted' = posted
         /\ UNCHANGED dataVars
      \/ front_ = NoCommand /\ Started(posted)
  BY <1>2, <1>3, <1>6, <1>7, ExecuteNextWorks
<1> QED BY <1>1, <1>2, <1>3, <1>5, <1>8

\* commandFinished(), which ends the current command.
LEMMA CommandFinishedWorks ==
    ASSUME CountInv, DeliverCommandFinished, WorkOfExecuted
    PROVE  /\ posted # <<>> /\ Head(posted).slot = "commandFinished"
           /\ UNCHANGED <<running, pushed, clears>>
           /\ \/ /\ front_ = NoCommand /\ status' = "aborted"
                 /\ UNCHANGED <<executed, front_, posted, dataVars>>
              \/ /\ front_ # NoCommand /\ status' = status
                 /\ executed' = executed /\ front_' = NoCommand /\ posted' = Tail(posted)
                 /\ UNCHANGED dataVars
              \/ front_ # NoCommand /\ status' = status /\ Started(Tail(posted))
<1>1. CASE front_ = NoCommand
  BY <1>1 DEF DeliverCommandFinished, WorkOfExecuted, queueVars
<1>2. CASE front_ # NoCommand
  <2> PICK q, tokens, ev : q = queue_ /\ tokens = DestroyedTokens({front_}) /\ ev = Tail(posted)
    OBVIOUS
  <2>1. ExecuteNext(q, NoCommand, tokens, ev)
    BY <1>2 DEF DeliverCommandFinished
  <2>2. q \in Seq(Commands) /\ Scheduled(q, NoCommand, Elements(pushed))
    BY DEF CountInv, Scheduled
  <2>3. \/ /\ executed' = executed /\ front_' = NoCommand /\ posted' = ev
           /\ UNCHANGED dataVars
        \/ Started(ev)
    BY <2>1, <2>2, ExecuteNextWorks
  <2> QED BY <1>2, <2>3 DEF DeliverCommandFinished
<1> QED BY <1>1, <1>2
-----------------------------------------------------------------------------
(* The instructions.  Wherever a set of them is kept, it consists of instructions of
   disassemblies that have delivered, no two at one address. *)

Proper(S, done) ==
    /\ S \subseteq Instructions
    /\ \A i \in S : i[2] \in done
    /\ \A i, j \in S : i[1] = j[1] => i = j

InstructionsInv ==
    /\ context_ \in Contexts
    /\ Proper(instructions_, delivered)
    /\ contextInstructions \in [Contexts -> SUBSET Instructions]
    /\ \A c \in Contexts : Proper(contextInstructions[c], delivered)
    /\ argument \in [Commands -> SUBSET Instructions]
    /\ \A c \in Commands : Proper(argument[c], delivered)
    /\ \A c \in Commands \ Elements(pushed) : argument[c] = {}
    /\ delivered \subseteq Executed

\* A part of a proper set is proper, and stays so when more is delivered.
LEMMA ProperParts ==
    ASSUME NEW S, NEW T, NEW done, NEW more, Proper(S, done), T \subseteq S, done \subseteq more
    PROVE  Proper(T, more)
BY DEF Proper

\* Instructions::add never puts two instructions at one address.
LEMMA AddAllProper ==
    ASSUME NEW c \in Commands, NEW old, NEW R \in SUBSET Addresses, NEW done, Proper(old, done)
    PROVE  /\ Proper(AddAll(c, old, R), done \cup {c})
           /\ old \subseteq AddAll(c, old, R)
           /\ \A i \in AddAll(c, old, R) \ old : i[2] = c
<1> DEFINE fresh == {<<x, c>> : x \in {y \in R : \A i \in old : i[1] # y}}
<1>1. AddAll(c, old, R) = old \cup fresh
  BY DEF AddAll
<1>2. \A i \in fresh : i \in Instructions /\ i[2] = c /\ \A j \in old : j[1] # i[1]
  BY DEF Instructions
<1>3. \A i, j \in fresh : i[1] = j[1] => i = j
  OBVIOUS
<1> HIDE DEF fresh
<1>4. Proper(old \cup fresh, done \cup {c})
  <2>1. old \cup fresh \subseteq Instructions
    BY <1>2 DEF Proper
  <2>2. \A i \in old \cup fresh : i[2] \in done \cup {c}
    BY <1>2 DEF Proper
  <2>3. ASSUME NEW i \in old \cup fresh, NEW j \in old \cup fresh, i[1] = j[1] PROVE i = j
    BY <1>2, <1>3, <2>3 DEF Proper
  <2> QED BY <2>1, <2>2, <2>3 DEF Proper
<1> QED BY <1>1, <1>2, <1>4

\* The work() of the commands copies proper sets, or takes some of a set away.
LEMMA WorkProper ==
    ASSUME NEW c \in Commands, Work(c),
           Proper(instructions_, delivered),
           contextInstructions \in [Contexts -> SUBSET Instructions],
           \A d \in Contexts : Proper(contextInstructions[d], delivered),
           argument' \in [Commands -> SUBSET Instructions],
           \A d \in Commands : Proper(argument'[d], delivered)
    PROVE  /\ context_' \in Contexts \/ context_' = context_
           /\ Proper(instructions_', delivered)
           /\ contextInstructions' \in [Contexts -> SUBSET Instructions]
           /\ \A d \in Contexts : Proper(contextInstructions'[d], delivered)
<1>1. CASE /\ instructions_' = instructions_ \ argument'[c]
           /\ UNCHANGED <<context_, contextInstructions>>
  BY <1>1, ProperParts
<1>2. CASE /\ context_' = c
           /\ contextInstructions' = [contextInstructions EXCEPT ![c] =
                 IF c \in DecompileSubsets THEN argument'[c] ELSE instructions_]
           /\ UNCHANGED instructions_
  <2> PICK S : S = IF c \in DecompileSubsets THEN argument'[c] ELSE instructions_
    OBVIOUS
  <2>1. Proper(S, delivered) /\ S \in SUBSET Instructions
    BY DEF Proper
  <2>2. contextInstructions' = [contextInstructions EXCEPT ![c] = S] /\ c \in Contexts
    BY <1>2 DEF Contexts
  <2>3. \A d \in Contexts : contextInstructions'[d] = IF d = c THEN S ELSE contextInstructions[d]
    BY <2>2
  <2>4. contextInstructions' \in [Contexts -> SUBSET Instructions]
    BY <2>1, <2>2
  <2>5. \A d \in Contexts : Proper(contextInstructions'[d], delivered)
    BY <2>1, <2>3
  <2> QED BY <1>2, <2>2, <2>4, <2>5
<1> QED BY <1>1, <1>2 DEF Work

\* A pushed command carries instructions that are in the project.
LEMMA CallPushInstructions ==
    ASSUME CountInv, InstructionsInv, calls \in Seq(Calls), CallPush
    PROVE  InstructionsInv'
<1> PICK c \in Commands \ Elements(pushed), S \in SUBSET Instructions :
      /\ argument' = [argument EXCEPT ![c] = S \cap instructions_]
      /\ Elements(pushed') = Elements(pushed) \cup {c}
      /\ \/ executed' = executed /\ UNCHANGED dataVars
         \/ Started(posted)
      /\ UNCHANGED delivered
  BY CallPushWorks
<1>1. \A d \in Commands : argument'[d] = IF d = c THEN S \cap instructions_ ELSE argument[d]
  BY DEF InstructionsInv
<1>2. argument' \in [Commands -> SUBSET Instructions]
  BY DEF InstructionsInv
<1>3. \A d \in Commands : Proper(argument'[d], delivered)
  <2>1. Proper(S \cap instructions_, delivered)
    BY ProperParts DEF InstructionsInv
  <2> QED BY <1>1, <2>1 DEF InstructionsInv
<1>4. \A d \in Commands \ Elements(pushed') : argument'[d] = {}
  BY <1>1 DEF InstructionsInv
<1>5. CASE executed' = executed /\ UNCHANGED dataVars
  BY <1>2, <1>3, <1>4, <1>5 DEF InstructionsInv, dataVars, Executed
<1>6. CASE Started(posted)
  <2>1. front_' \in Commands /\ Work(front_') /\ Executed \subseteq Executed'
    BY <1>6 DEF Started
  <2>2. /\ context_' \in Contexts \/ context_' = context_
        /\ Proper(instructions_', delivered)
        /\ contextInstructions' \in [Contexts -> SUBSET Instructions]
        /\ \A d \in Contexts : Proper(contextInstructions'[d], delivered)
    BY <1>2, <1>3, <2>1, WorkProper DEF InstructionsInv
  <2> QED BY <1>2, <1>3, <1>4, <2>1, <2>2 DEF InstructionsInv
<1> QED BY <1>5, <1>6

\* A command that starts takes instructions from the project, or deletes some.
LEMMA CommandFinishedInstructions ==
    ASSUME CountInv, InstructionsInv, DeliverCommandFinished, WorkOfExecuted,
           UNCHANGED <<argument, delivered>>
    PROVE  InstructionsInv'
<1>1. pushed' = pushed /\ ((executed' = executed /\ UNCHANGED dataVars) \/ Started(Tail(posted)))
  BY CommandFinishedWorks
<1>2. CASE executed' = executed /\ UNCHANGED dataVars
  BY <1>1, <1>2 DEF InstructionsInv, dataVars, Executed
<1>3. CASE Started(Tail(posted))
  <2>1. front_' \in Commands /\ Work(front_') /\ Executed \subseteq Executed'
    BY <1>3 DEF Started
  <2>2. /\ context_' \in Contexts \/ context_' = context_
        /\ Proper(instructions_', delivered)
        /\ contextInstructions' \in [Contexts -> SUBSET Instructions]
        /\ \A d \in Contexts : Proper(contextInstructions'[d], delivered)
    BY <2>1, WorkProper DEF InstructionsInv
  <2> QED BY <1>1, <2>1, <2>2 DEF InstructionsInv
<1> QED BY <1>1, <1>2, <1>3

\* Disassembly::work.
LEMMA DisassemblyInstructions ==
    ASSUME CountInv, InstructionsInv, NEW c \in Commands, DisassemblyResult(c)
    PROVE  /\ InstructionsInv'
           /\ contextInstructions[c] \subseteq contextInstructions'[c]
           /\ \A i \in contextInstructions'[c] \ contextInstructions[c] : i[2] = c
           /\ \A d \in Contexts \ {c} : contextInstructions'[d] = contextInstructions[d]
<1>1. /\ c \in Contexts /\ <<c, 1>> \in running /\ delivered' = delivered \cup {c}
      /\ UNCHANGED <<instructions_, context_, argument, pushed, executed>>
  BY DEF DisassemblyResult, Emit, Contexts
<1>2. c \in Executed
  BY <1>1 DEF CountInv, Placed, Unfinished, Executed
<1>3. PICK limit : contextInstructions' = [contextInstructions EXCEPT ![c] =
                AddAll(c, @, {x \in RangeOf[c] : x < limit})]
  BY DEF DisassemblyResult
<1> PICK R : R = {x \in RangeOf[c] : x < limit}
  OBVIOUS
<1>4. R \in SUBSET Addresses
  BY ClassesAssumption DEF DisassemblyResult
<1> PICK S : S = AddAll(c, contextInstructions[c], R)
  OBVIOUS
<1>5. /\ Proper(S, delivered \cup {c}) /\ contextInstructions[c] \subseteq S
      /\ \A i \in S \ contextInstructions[c] : i[2] = c
  BY <1>1, <1>4, AddAllProper DEF InstructionsInv
<1>6. S \in SUBSET Instructions
  BY <1>5 DEF Proper
<1>7. contextInstructions' = [contextInstructions EXCEPT ![c] = S]
  BY <1>3
<1>8. /\ contextInstructions' \in [Contexts -> SUBSET Instructions]
      /\ \A d \in Contexts : contextInstructions'[d] = IF d = c THEN S ELSE contextInstructions[d]
  BY <1>1, <1>6, <1>7 DEF InstructionsInv
<1>9. \A T : Proper(T, delivered) => Proper(T, delivered')
  BY <1>1, ProperParts
<1>10. InstructionsInv'
  BY <1>1, <1>2, <1>5, <1>8, <1>9 DEF InstructionsInv, Executed
<1> QED BY <1>1, <1>5, <1>8, <1>10

\* Every step takes instructions only from where they were delivered.
LEMMA ProjectStepInstructions ==
    ASSUME CountInv, InstructionsInv, calls \in Seq(Calls), [ProjectNext]_allVars
    PROVE  InstructionsInv'
<1>1. CASE UNCHANGED <<dataVars, argument, delivered, pushed, executed>>
  BY <1>1 DEF InstructionsInv, dataVars, Executed
<1>2. CASE User \/ CloseProject \/ CallCancelAll
  BY <1>1, <1>2 DEF User, CloseProject, CallCancelAll, Destroy, Clear, vars
<1>3. CASE CallPush
  BY <1>3, CallPushInstructions
<1>4. CASE UpdateInstructions
  <2>1. /\ instructions_' \in {instructions_, contextInstructions[context_]}
        /\ UNCHANGED <<context_, contextInstructions, argument, delivered, pushed, executed>>
    BY <1>4 DEF UpdateInstructions
  <2> QED BY <2>1 DEF InstructionsInv, Executed
<1>5. CASE ShowTree
  BY <1>1, <1>5 DEF ShowTree
<1>6. CASE CommandEvents
  <2>1. CASE DeliverActivityFinished /\ UNCHANGED dataVars
    BY <1>1, <1>6, <2>1 DEF CommandEvents, DeliverActivityFinished
  <2>2. CASE DeliverCommandFinished /\ WorkOfExecuted
    BY <1>6, <2>2, CommandFinishedInstructions DEF CommandEvents
  <2> QED BY <1>6, <2>1, <2>2 DEF CommandEvents
<1>7. CASE PoolStarts
  BY <1>1, <1>7 DEF PoolStarts, StartActivity, projectVars
<1>8. ASSUME NEW c \in Commands, DisassemblyResult(c) PROVE InstructionsInv'
  BY <1>8, DisassemblyInstructions
<1>9. ASSUME NEW c \in Commands, DecompilationResult(c) PROVE InstructionsInv'
  <2>1. /\ <<c, 1>> \in running /\ delivered' = delivered \cup {c}
        /\ UNCHANGED <<dataVars, argument, pushed, executed>>
    BY <1>9 DEF DecompilationResult, Emit, dataVars
  <2>2. c \in Executed
    BY <2>1 DEF CountInv, Placed, Unfinished, Executed
  <2>3. \A T : Proper(T, delivered) => Proper(T, delivered')
    BY <2>1, ProperParts
  <2> QED BY <2>1, <2>2, <2>3 DEF InstructionsInv, dataVars, Executed
<1>10. ASSUME NEW c \in Commands, ActivityOver(c) PROVE InstructionsInv'
  BY <1>1, <1>10 DEF ActivityOver, FinishActivity, projectVars
<1>11. CASE UNCHANGED allVars
  BY <1>1, <1>11 DEF allVars, vars, projectVars
<1> QED BY <1>2, <1>3, <1>4, <1>5, <1>6, <1>7, <1>8, <1>9, <1>10, <1>11
        DEF ProjectNext, Handler, PostedEvents, Worker
-----------------------------------------------------------------------------
(* The rest of what the project keeps: what handlers have to call, which signals are
   posted, what the views show, and counts that no command exceeds. *)

ViewsInv ==
    /\ calls \in Seq(Calls)
    /\ SignalsKnown
    /\ tree \subseteq Decompiles
    /\ shown \subseteq tree
    /\ viewContext \in Contexts
    /\ viewHasTree \in BOOLEAN
    /\ \A c \in Commands : activityCount_[c] <= Delegated[c]

\* A command counts at most what it delegated, even after it was dropped.
LEMMA NextCountsAtMost ==
    ASSUME CountInv, \A c \in Commands : activityCount_[c] <= Delegated[c], [Next]_vars
    PROVE  \A c \in Commands : activityCount_'[c] <= Delegated[c]
<1>1. /\ activityCount_ \in [Commands -> Nat] /\ Delegated \in [Commands -> Nat]
      /\ \A c \in Commands \ Elements(executed) : activityCount_[c] = 0
      /\ queue_ \in Seq(Commands)
  BY DelegatedAssumption DEF CountInv, Counted, Scheduled
<1>2. CASE UNCHANGED activityCount_
  BY <1>2
<1>3. ASSUME NEW q, NEW f, NEW tokens, NEW ev, NEW pu, Scheduled(q, f, pu),
             ExecuteNext(q, f, tokens, ev)
      PROVE  \A c \in Commands : activityCount_'[c] <= Delegated[c]
  <2>1. CASE f # NoCommand \/ q = <<>>
    BY <1>2, <1>3, <2>1 DEF ExecuteNext
  <2>2. CASE f = NoCommand /\ q # <<>>
    <3> PICK h : h = Head(q)
      OBVIOUS
    <3>1. h \in Commands /\ activityCount_[h] = 0
      BY <1>1, <1>3, <2>2, TailElements DEF Scheduled
    <3>2. activityCount_' = [activityCount_ EXCEPT ![h] = @ + Delegated[h]]
      BY <1>3, <2>2 DEF ExecuteNext, Execute
    <3> QED BY <1>1, <3>1, <3>2
  <2> QED BY <2>1, <2>2
<1>4. ASSUME NEW c \in Commands, Push(c)
      PROVE  \A d \in Commands : activityCount_'[d] <= Delegated[d]
  <2> PICK q, f, tokens, ev : q = Append(queue_, c) /\ f = front_ /\ tokens = cancelled /\ ev = posted
    OBVIOUS
  <2>1. ExecuteNext(q, f, tokens, ev) /\ c \notin Elements(pushed)
    BY <1>4 DEF Push
  <2>2. q \in Seq(Commands) /\ Injective(q) /\ Elements(q) = Elements(queue_) \cup {c}
    BY <1>1, <2>1, AppendElements DEF CountInv, Scheduled
  <2>3. Scheduled(q, f, Elements(pushed) \cup {c})
    BY <2>1, <2>2 DEF CountInv, Scheduled
  <2> QED BY <1>3, <2>1, <2>3
<1>5. CASE DeliverActivityFinished
  <2>1. CASE UNCHANGED activityCount_
    BY <1>2, <2>1
  <2>2. CASE activityCount_' = [activityCount_ EXCEPT ![Head(posted).command] = @ - 1]
    BY <1>1, <2>2
  <2> QED BY <1>5, <2>1, <2>2 DEF DeliverActivityFinished
<1>6. CASE DeliverCommandFinished
  <2>1. CASE UNCHANGED activityCount_
    BY <1>2, <2>1
  <2>2. CASE front_ # NoCommand
    <3> PICK q, tokens, ev : q = queue_ /\ tokens = DestroyedTokens({front_}) /\ ev = Tail(posted)
      OBVIOUS
    <3>1. ExecuteNext(q, NoCommand, tokens, ev)
      BY <1>6, <2>2 DEF DeliverCommandFinished
    <3>2. Scheduled(q, NoCommand, Elements(pushed))
      BY DEF CountInv, Scheduled
    <3> QED BY <1>3, <3>1, <3>2
  <2> QED BY <1>6, <2>1, <2>2 DEF DeliverCommandFinished, commandVars
<1>7. CASE StartActivity \/ (\E a \in running : FinishActivity(a)) \/ Clear \/ Destroy \/ UNCHANGED vars
  BY <1>2, <1>7 DEF StartActivity, FinishActivity, Clear, Destroy, vars, commandVars
<1> QED BY <1>4, <1>5, <1>6, <1>7 DEF Next, UndisturbedNext, Workers, EventLoop

\* No step of the queue posts a signal.
LEMMA NextPostsNoSignal ==
    ASSUME CountInv, [Next]_vars
    PROVE  \A e \in Elements(posted') : ~IsEnd(e) => e \in Elements(posted)
<1>1. queue_ \in Seq(Commands) /\ posted \in Seq(Posts)
  BY DEF CountInv, Scheduled, Placed
<1>2. ASSUME NEW ev \in Seq(Posts), NEW e \in Posts, IsEnd(e), posted' \in {ev, Append(ev, e)},
             Elements(ev) \subseteq Elements(posted)
      PROVE  \A d \in Elements(posted') : ~IsEnd(d) => d \in Elements(posted)
  <2>1. Elements(Append(ev, e)) = Elements(ev) \cup {e}
    BY EventElements
  <2> QED BY <1>2, <2>1
<1>3. CASE posted' \in {posted, <<>>}
  BY <1>3 DEF Elements
<1>4. ASSUME NEW q \in Seq(Commands), NEW f, NEW tokens, NEW ev \in Seq(Posts),
             Elements(ev) \subseteq Elements(posted), ExecuteNext(q, f, tokens, ev)
      PROVE  \A d \in Elements(posted') : ~IsEnd(d) => d \in Elements(posted)
  <2>1. CASE f # NoCommand \/ q = <<>>
    BY <1>4, <2>1 DEF ExecuteNext
  <2>2. CASE f = NoCommand /\ q # <<>>
    <3> PICK e : e = CommandFinished(Head(q))
      OBVIOUS
    <3>1. e \in Posts /\ IsEnd(e)
      BY <2>2, TailElements, EventsDiffer DEF IsEnd, CommandFinished
    <3>2. posted' \in {ev, Append(ev, e)}
      BY <1>4, <2>2 DEF ExecuteNext, Execute
    <3> QED BY <1>2, <1>4, <3>1, <3>2
  <2> QED BY <2>1, <2>2
<1>5. ASSUME NEW c \in Commands, Push(c)
      PROVE  \A d \in Elements(posted') : ~IsEnd(d) => d \in Elements(posted)
  <2> PICK q, tokens, ev : q = Append(queue_, c) /\ tokens = cancelled /\ ev = posted
    OBVIOUS
  <2>1. q \in Seq(Commands) /\ ExecuteNext(q, front_, tokens, ev)
    BY <1>1, <1>5 DEF Push
  <2> QED BY <1>1, <1>4, <2>1
<1>6. ASSUME NEW a \in running, FinishActivity(a)
      PROVE  \A d \in Elements(posted') : ~IsEnd(d) => d \in Elements(posted)
  <2> PICK e : e = ActivityFinished(a)
    OBVIOUS
  <2>1. e \in Posts /\ IsEnd(e)
    BY EventsDiffer DEF CountInv, Placed, IsEnd, ActivityFinished
  <2>2. posted' = Append(posted, e)
    BY <1>6 DEF FinishActivity
  <2> QED BY <1>1, <1>2, <2>1, <2>2
<1>7. CASE DeliverActivityFinished
  <2> PICK e, ev : e = CommandFinished(Head(posted).command) /\ ev = Tail(posted)
    OBVIOUS
  <2>1. /\ Head(posted) \in Posts /\ ev \in Seq(Posts) /\ Elements(ev) \subseteq Elements(posted)
        /\ posted' \in {ev, Append(ev, e)}
    BY <1>1, <1>7, TailElements DEF DeliverActivityFinished
  <2>2. e \in Posts /\ IsEnd(e)
    BY <2>1, EventsDiffer DEF Posts, IsEnd, CommandFinished
  <2> QED BY <1>2, <2>1, <2>2
<1>8. CASE DeliverCommandFinished
  <2>1. CASE front_ = NoCommand
    BY <1>3, <1>8, <2>1 DEF DeliverCommandFinished
  <2>2. CASE front_ # NoCommand
    <3> PICK tokens, ev : tokens = DestroyedTokens({front_}) /\ ev = Tail(posted)
      OBVIOUS
    <3>1. /\ ev \in Seq(Posts) /\ Elements(ev) \subseteq Elements(posted)
          /\ ExecuteNext(queue_, NoCommand, tokens, ev)
      BY <1>1, <1>8, <2>2, TailElements DEF DeliverCommandFinished
    <3> QED BY <1>1, <1>4, <3>1
  <2> QED BY <2>1, <2>2
<1>9. CASE StartActivity \/ Clear \/ Destroy \/ UNCHANGED vars
  BY <1>3, <1>9 DEF StartActivity, Clear, Destroy, vars
<1> QED BY <1>5, <1>6, <1>7, <1>8, <1>9 DEF Next, UndisturbedNext, Workers, EventLoop

\* A request creates a command that was not pushed.
LEMMA FreshCommands ==
    ASSUME NEW cs PROVE Fresh(cs) \subseteq cs \cap Unused
<1> DEFINE unused == cs \cap Unused
<1>1. CASE unused = {} \/ cs = Disassembles
  BY <1>1 DEF Fresh
<1>2. CASE ~(unused = {} \/ cs = Disassembles)
  <2>1. (CHOOSE c \in unused : TRUE) \in unused
    BY <1>2
  <2>2. Fresh(cs) = {CHOOSE c \in unused : TRUE}
    BY <1>2 DEF Fresh
  <2> QED BY <2>1, <2>2
<1> QED BY <1>1, <1>2

\* What the user does is a list of calls.
LEMMA UserCalls ==
    ASSUME User, instructions_ \subseteq Instructions
    PROVE  calls' \in Seq(Calls)
<1>1. \A cs \in {Disassembles, Deletes, DecompileSubsets, DecompileAlls} : Fresh(cs) \subseteq Commands
  BY FreshCommands DEF Unused
<1>2. /\ CancelAll \in Calls
      /\ \A c \in Commands, S \in SUBSET instructions_ : Schedule(c, S) \in Calls
  BY DEF Calls
<1>3. \A x, y, z \in Calls : <<x>> \in Seq(Calls) /\ <<x, y>> \in Seq(Calls) /\ <<x, y, z>> \in Seq(Calls)
  OBVIOUS
<1>4. ASSUME NEW change \in Calls, UserChange(change) PROVE calls' \in Seq(Calls)
  <2>1. CASE calls' = <<change>>
    BY <1>3, <2>1
  <2>2. CASE \E c \in Fresh(DecompileAlls) : calls' = <<CancelAll, change, Schedule(c, {})>>
    BY <1>1, <1>2, <1>3, <2>2
  <2> QED BY <1>4, <2>1, <2>2 DEF UserChange
<1>5. CASE UserDelete
  BY <1>1, <1>2, <1>4, <1>5 DEF UserDelete
<1>6. CASE UserDisassemble
  BY <1>1, <1>2, <1>4, <1>6 DEF UserDisassemble
<1>7. CASE UserDecompile
  BY <1>1, <1>2, <1>3, <1>7 DEF UserDecompile
<1>8. CASE UserCancelAll
  BY <1>2, <1>3, <1>8 DEF UserCancelAll
<1> QED BY <1>5, <1>6, <1>7, <1>8 DEF User

\* Signals are posted by contexts of commands.
LEMMA ProjectStepSignals ==
    ASSUME CountInv, SignalsKnown, calls \in Seq(Calls), [ProjectNext]_allVars
    PROVE  SignalsKnown'
<1>1. posted \in Seq(Posts)
  BY DEF CountInv, Placed
<1>2. ASSUME \A e \in Elements(posted') : ~IsEnd(e) => e \in Elements(posted),
             delivered' = delivered
      PROVE  SignalsKnown'
  BY <1>2 DEF SignalsKnown
<1>3. CASE [Next]_vars /\ delivered' = delivered
  BY <1>2, <1>3, NextPostsNoSignal
<1>4. CASE UNCHANGED <<vars, delivered>>
  BY <1>3, <1>4
<1>5. CASE User \/ CloseProject \/ CallCancelAll
  BY <1>3, <1>5 DEF User, CloseProject, CallCancelAll, Next
<1>6. CASE CallPush
  <2>1. Push(Head(calls).command) /\ Head(calls).command \in Commands /\ delivered' = delivered
    BY <1>6, CallsHaveCommands DEF CallPush
  <2> QED BY <1>3, <2>1 DEF Next, UndisturbedNext
<1>7. CASE UpdateInstructions \/ ShowTree
  <2>1. posted # <<>> /\ posted' = Tail(posted) /\ delivered' = delivered
    BY <1>7 DEF UpdateInstructions, ShowTree, Deliver
  <2> QED BY <1>1, <1>2, <2>1, TailElements
<1>8. CASE CommandEvents
  BY <1>3, <1>8 DEF CommandEvents, Next, UndisturbedNext, EventLoop
<1>9. CASE PoolStarts
  BY <1>3, <1>9 DEF PoolStarts, projectVars, Next, UndisturbedNext, Workers
<1>10. ASSUME NEW c \in Commands, NEW slot, Emit(c, slot),
              \/ slot = "instructionsChanged" /\ c \in Disassembles
              \/ slot = "treeChanged" /\ c \in Decompiles
       PROVE  SignalsKnown'
  <2> PICK e : e = Signal(slot, c)
    OBVIOUS
  <2>1. e \in Posts /\ e \in Signals /\ e.command = c /\ e.slot = slot
    BY <1>10 DEF Signal, Posts, Signals
  <2>2. Elements(posted') = Elements(posted) \cup {e} /\ delivered' = delivered \cup {c}
    BY <1>1, <1>10, <2>1, EventElements DEF Emit
  <2> QED BY <1>10, <2>1, <2>2 DEF SignalsKnown
<1>11. ASSUME NEW c \in Commands, Worker(c) PROVE SignalsKnown'
  <2>1. CASE DisassemblyResult(c)
    BY <1>10, <2>1 DEF DisassemblyResult
  <2>2. CASE DecompilationResult(c)
    BY <1>10, <2>2 DEF DecompilationResult
  <2>3. CASE ActivityOver(c)
    BY <1>3, <2>3 DEF ActivityOver, projectVars, Next, UndisturbedNext, Workers
  <2> QED BY <1>11, <2>1, <2>2, <2>3 DEF Worker
<1>12. CASE UNCHANGED allVars
  BY <1>4, <1>12 DEF allVars, projectVars
<1> QED BY <1>5, <1>6, <1>7, <1>8, <1>9, <1>11, <1>12 DEF ProjectNext, Handler, PostedEvents

\* Every step keeps what views hold and handlers have left to do.
LEMMA ProjectStepViews ==
    ASSUME CountInv, InstructionsInv, ViewsInv, [ProjectNext]_allVars
    PROVE  ViewsInv'
<1>1. SignalsKnown'
  BY ProjectStepSignals DEF ViewsInv
<1>2. \A c \in Commands : activityCount_'[c] <= Delegated[c]
  <2>1. CASE [Next]_vars
    BY <2>1, NextCountsAtMost DEF ViewsInv
  <2>2. CASE SignalStep
    BY <2>2 DEF SignalStep, ViewsInv, commandVars
  <2> QED BY <2>1, <2>2, ProjectStep DEF ViewsInv
<1>3. calls' \in Seq(Calls)
  <2>1. CASE User
    <3>1. instructions_ \subseteq Instructions
      BY DEF InstructionsInv, Proper
    <3> QED BY <2>1, <3>1, UserCalls
  <2>2. CASE Handler
    <3>1. calls # <<>> /\ calls' = Tail(calls)
      BY <2>2 DEF Handler, CallCancelAll, CallPush
    <3> QED BY <3>1, CallsHaveCommands DEF ViewsInv
  <2>3. CASE UNCHANGED calls
    BY <2>3 DEF ViewsInv
  <2> QED BY <2>1, <2>2, <2>3
          DEF ProjectNext, CloseProject, PostedEvents, UpdateInstructions, ShowTree, CommandEvents,
              PoolStarts, Worker, DisassemblyResult, DecompilationResult, Emit, ActivityOver,
              projectVars, allVars
<1>4. /\ tree' \subseteq Decompiles /\ shown' \subseteq tree'
      /\ viewContext' \in Contexts /\ viewHasTree' \in BOOLEAN
  <2>1. CASE UNCHANGED <<tree, viewVars>>
    BY <2>1 DEF ViewsInv, viewVars
  <2>2. CASE CloseProject
    BY <2>2 DEF CloseProject, ViewsInv, Contexts
  <2>3. CASE ShowTree
    <3>1. /\ tree' = tree /\ viewContext' \in {viewContext, context_}
          /\ shown' \subseteq shown \cup tree
      BY <2>3 DEF ShowTree, viewVars
    <3>2. viewHasTree' \in BOOLEAN
      <4>1. CASE viewHasTree' = (context_ \in tree)
        BY <4>1
      <4>2. CASE viewHasTree' = viewHasTree
        BY <4>2 DEF ViewsInv
      <4> QED BY <2>3, <4>1, <4>2 DEF ShowTree, viewVars
    <3> QED BY <3>1, <3>2 DEF ViewsInv, InstructionsInv
  <2>4. ASSUME NEW c \in Commands, DecompilationResult(c)
        PROVE  /\ tree' \subseteq Decompiles /\ shown' \subseteq tree'
               /\ viewContext' \in Contexts /\ viewHasTree' \in BOOLEAN
    BY <2>4 DEF DecompilationResult, Emit, ViewsInv, viewVars
  <2> QED BY <2>1, <2>2, <2>3, <2>4
          DEF ProjectNext, User, Handler, CallCancelAll, CallPush, PostedEvents,
              UpdateInstructions, CommandEvents, PoolStarts, Worker, DisassemblyResult, Emit,
              ActivityOver, projectVars, allVars
<1> QED BY <1>1, <1>2, <1>3, <1>4 DEF ViewsInv

ProjectInv == QueueInv /\ InstructionsInv /\ ViewsInv

\* Every step keeps all three.
LEMMA ProjectStepInv == ProjectInv /\ [ProjectNext]_allVars => ProjectInv'
<1> SUFFICES ASSUME ProjectInv, [ProjectNext]_allVars PROVE ProjectInv'
  OBVIOUS
<1>1. CountInv /\ QueueInv /\ InstructionsInv /\ ViewsInv /\ SignalsKnown /\ calls \in Seq(Calls)
  BY DEF ProjectInv, QueueInv, ViewsInv
<1> QED BY <1>1, ProjectStepQueue, ProjectStepInstructions, ProjectStepViews DEF ProjectInv

\* All three hold at first.
LEMMA ProjectInitInv == ProjectInit => ProjectInv
<1> SUFFICES ASSUME ProjectInit PROVE ProjectInv
  OBVIOUS
<1>1. QueueInv
  BY InitQueue DEF ProjectInit
<1>2. Proper({}, {})
  BY DEF Proper
<1>3. InstructionsInv
  BY <1>2 DEF ProjectInit, InstructionsInv, Contexts
<1>4. calls \in Seq(Calls)
  <2> PICK auto \in SUBSET DecompileAlls :
        calls = [i \in DOMAIN CodeSections |-> Schedule(CodeSections[i], {})]
                  \o (IF auto = {} THEN <<>> ELSE <<Schedule(CHOOSE c \in auto : TRUE, {})>>)
    BY DEF ProjectInit
  <2>1. \A c \in Commands : Schedule(c, {}) \in Calls
    BY DEF Calls
  <2>2. CodeSections \in Seq(Disassembles) /\ Disassembles \subseteq Commands
        /\ DecompileAlls \subseteq Commands
    BY ClassesAssumption
  <2>3. \A i \in DOMAIN CodeSections : CodeSections[i] \in Commands
    BY <2>2
  <2>4. DOMAIN CodeSections = 1..Len(CodeSections) /\ Len(CodeSections) \in Nat
    BY <2>2
  <2>5. [i \in DOMAIN CodeSections |-> Schedule(CodeSections[i], {})] \in Seq(Calls)
    BY <2>1, <2>3, <2>4
  <2>6. auto # {} => (CHOOSE c \in auto : TRUE) \in Commands
    BY <2>2
  <2>7. (IF auto = {} THEN <<>> ELSE <<Schedule(CHOOSE c \in auto : TRUE, {})>>) \in Seq(Calls)
    BY <2>1, <2>6
  <2> QED BY <2>5, <2>7, ConcatElements
<1>5. ViewsInv
  <2>1. \A c \in Commands : activityCount_[c] <= Delegated[c]
    BY DelegatedAssumption DEF ProjectInit, Init
  <2>2. SignalsKnown
    BY DEF ProjectInit, Init, SignalsKnown, Elements
  <2> QED BY <1>4, <2>1, <2>2 DEF ProjectInit, ViewsInv, Contexts
<1> QED BY <1>1, <1>3, <1>5 DEF ProjectInv

\* The inductive invariant of the project.
THEOREM ProjectKeepsItself == ProjectSpec => []ProjectInv
BY ProjectInitInv, ProjectStepInv, PTL DEF ProjectSpec

\* Every variable of the project has its type, and no set of instructions that the project
\* or a context keeps has two at one address: overlapping disassemblies, deletions between
\* them and late results included, whatever is cancelled.
THEOREM ProjectTypes == ProjectSpec => []ProjectTypeOK
<1>1. ProjectInv => ProjectTypeOK
  <2> SUFFICES ASSUME ProjectInv PROVE ProjectTypeOK
    OBVIOUS
  <2>1. InstructionsInv /\ ViewsInv /\ CountInv
    BY DEF ProjectInv, QueueInv
  <2>2. posted \in Seq(Events \cup Signals)
    <3>1. posted \in Seq(Posts)
      BY <2>1 DEF CountInv, Placed
    <3>2. \A i \in DOMAIN posted : posted[i] \in Posts /\ posted[i] \in Elements(posted)
      BY <3>1 DEF Elements
    <3>3. \A e \in Posts : IsEnd(e) => e \in Events
      BY DEF Posts, Events, IsEnd
    <3>4. \A i \in DOMAIN posted : posted[i] \in Events \cup Signals
      BY <2>1, <3>2, <3>3 DEF ViewsInv, SignalsKnown
    <3> QED BY <3>1, <3>4
  <2>3. activityCount_ \in [Commands -> {0, 1}]
    <3>1. \A c \in Commands : activityCount_[c] \in Nat /\ activityCount_[c] <= Delegated[c]
      BY <2>1 DEF CountInv, Counted, ViewsInv
    <3>2. \A c \in Commands : Delegated[c] \in {0, 1}
      BY ClassesAssumption
    <3>3. \A c \in Commands : activityCount_[c] \in {0, 1}
      BY <3>1, <3>2
    <3> QED BY <2>1, <3>3 DEF CountInv, Counted
  <2>4. delivered \subseteq Commands
    BY <2>1 DEF InstructionsInv, Executed, CountInv, Scheduled, Elements
  <2>5. UniqueAddresses
    BY <2>1 DEF UniqueAddresses, InstructionsInv, Proper
  <2> QED BY <2>1, <2>2, <2>3, <2>4, <2>5 DEF ProjectTypeOK, InstructionsInv, ViewsInv, Proper
<1> QED BY <1>1, ProjectKeepsItself, PTL


\* What the queue promises it keeps inside the project, where contexts post signals of
\* their own between its events: counts, cancellation, wake-ups, order, the progress bar,
\* and one command at a time.
THEOREM QueueInProject ==
    ProjectSpec => [](/\ ActivityCountMatches /\ AbandonedAreCancelled /\ FinishIsAnnounced
                      /\ ExecutedInOrder /\ StatusBarShowsFront /\ OnlyFrontWorks)
<1>1. ProjectInv => /\ ActivityCountMatches /\ AbandonedAreCancelled /\ FinishIsAnnounced
                    /\ ExecutedInOrder /\ StatusBarShowsFront /\ OnlyFrontWorks
  BY CountsMatch, OrderFollows, AloneFollows DEF ProjectInv, QueueInv
<1> QED BY <1>1, ProjectKeepsItself, PTL
=============================================================================
