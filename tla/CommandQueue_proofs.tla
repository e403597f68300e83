------------------------ MODULE CommandQueue_proofs ------------------------
(***************************************************************************)
(* Proofs about CommandQueue, for any commands, any number of activities   *)
(* each delegates, any number of threads and any use of clear().           *)
(***************************************************************************)
EXTENDS CommandQueue, FiniteSetTheorems, SequenceTheorems, TLAPS

\* No element occurs twice in a sequence.
Injective(s) == \A i, j \in DOMAIN s : s[i] = s[j] => i = j

-----------------------------------------------------------------------------
\* The elements of a sequence under the operations that the queue uses.

\* Appending (to queue_, pool or posted) adds one element.
LEMMA AppendElements ==
    ASSUME NEW S, NEW s \in Seq(S), NEW x \in S
    PROVE  /\ Append(s, x) \in Seq(S)
           /\ Elements(Append(s, x)) = Elements(s) \cup {x}
           /\ (Injective(s) /\ x \notin Elements(s)) => Injective(Append(s, x))
<1> DEFINE t == Append(s, x)
<1>1. t \in Seq(S) /\ Len(t) = Len(s) + 1 /\ t[Len(t)] = x
      /\ \A i \in 1..Len(s) : t[i] = s[i]
  OBVIOUS
<1>2. DOMAIN s = 1..Len(s) /\ DOMAIN t = 1..(Len(s) + 1) /\ Len(s) \in Nat
  OBVIOUS
<1>3. Elements(t) = Elements(s) \cup {x}
  BY <1>1, <1>2 DEF Elements
<1>4. ASSUME Injective(s), x \notin Elements(s) PROVE Injective(t)
  BY <1>1, <1>2, <1>4 DEF Elements, Injective
<1> QED BY <1>1, <1>3, <1>4

\* Taking the head away (executeNext, a worker, the event loop) removes one element.
LEMMA TailElements ==
    ASSUME NEW S, NEW s \in Seq(S), s # <<>>
    PROVE  /\ Head(s) \in S /\ Tail(s) \in Seq(S)
           /\ Head(s) \in Elements(s)
           /\ Elements(s) = {Head(s)} \cup Elements(Tail(s))
           /\ Injective(s) => (Injective(Tail(s)) /\ Head(s) \notin Elements(Tail(s)))
<1> DEFINE t == Tail(s)
<1>1. /\ Len(s) \in Nat \ {0} /\ DOMAIN s = 1..Len(s) /\ DOMAIN t = 1..(Len(s) - 1)
      /\ t \in Seq(S) /\ Head(s) = s[1] /\ s[1] \in S
      /\ \A i \in 1..(Len(s) - 1) : t[i] = s[i + 1]
  BY EmptySeq
<1>2. Elements(s) \subseteq {s[1]} \cup Elements(t)
  <2> SUFFICES ASSUME NEW i \in 1..Len(s), i # 1
               PROVE  s[i] \in Elements(t)
    BY <1>1 DEF Elements
  <2>1. i - 1 \in 1..(Len(s) - 1) /\ t[i - 1] = s[i]
    BY <1>1
  <2> QED BY <1>1, <2>1 DEF Elements
<1>3. Elements(t) \subseteq Elements(s) /\ s[1] \in Elements(s)
  BY <1>1 DEF Elements
<1>4. ASSUME Injective(s) PROVE Injective(t) /\ s[1] \notin Elements(t)
  <2>1. \A i \in 1..(Len(s) - 1) : i + 1 \in 1..Len(s) /\ i + 1 # 1
    BY <1>1
  <2> QED BY <1>1, <1>4, <2>1 DEF Elements, Injective
<1> QED BY <1>1, <1>2, <1>3, <1>4

\* delegate() appends the activities of one command to the pool.
LEMMA ConcatElements ==
    ASSUME NEW S, NEW s \in Seq(S), NEW t \in Seq(S)
    PROVE  /\ s \o t \in Seq(S)
           /\ Elements(s \o t) = Elements(s) \cup Elements(t)
           /\ (Injective(s) /\ Injective(t) /\ Elements(s) \cap Elements(t) = {})
                 => Injective(s \o t)
<1> DEFINE u == s \o t
<1>1. /\ u \in Seq(S) /\ Len(s) \in Nat /\ Len(t) \in Nat
      /\ DOMAIN s = 1..Len(s) /\ DOMAIN t = 1..Len(t) /\ DOMAIN u = 1..(Len(s) + Len(t))
      /\ \A i \in 1..(Len(s) + Len(t)) : u[i] = IF i <= Len(s) THEN s[i] ELSE t[i - Len(s)]
  OBVIOUS
<1>2. Elements(u) \subseteq Elements(s) \cup Elements(t)
  BY <1>1 DEF Elements
<1>3. Elements(s) \subseteq Elements(u)
  BY <1>1 DEF Elements
<1>4. Elements(t) \subseteq Elements(u)
  <2> SUFFICES ASSUME NEW i \in 1..Len(t) PROVE t[i] \in Elements(u)
    BY <1>1 DEF Elements
  <2>1. i + Len(s) \in DOMAIN u /\ u[i + Len(s)] = t[i]
    BY <1>1
  <2> QED BY <2>1 DEF Elements
<1>5. ASSUME Injective(s), Injective(t), Elements(s) \cap Elements(t) = {}
      PROVE  Injective(u)
  <2> SUFFICES ASSUME NEW i \in DOMAIN u, NEW j \in DOMAIN u, u[i] = u[j] PROVE i = j
    BY DEF Injective
  <2>1. CASE i <= Len(s) /\ j <= Len(s)
    BY <1>1, <1>5, <2>1 DEF Injective
  <2>2. CASE i > Len(s) /\ j > Len(s)
    <3>1. i - Len(s) \in DOMAIN t /\ j - Len(s) \in DOMAIN t /\ t[i - Len(s)] = t[j - Len(s)]
      BY <1>1, <2>2
    <3> QED BY <1>1, <1>5, <3>1 DEF Injective
  <2>3. CASE (i <= Len(s)) # (j <= Len(s))
    <3>1. \A k \in DOMAIN u : k <= Len(s) => u[k] \in Elements(s)
      BY <1>1 DEF Elements
    <3>2. \A k \in DOMAIN u : k > Len(s) => u[k] \in Elements(t)
      BY <1>1 DEF Elements
    <3> QED BY <1>1, <1>5, <2>3, <3>1, <3>2
  <2> QED BY <1>1, <2>1, <2>2, <2>3
<1> QED BY <1>1, <1>2, <1>3, <1>4, <1>5

\* The activities of a command: distinct, and exactly the pairs <<c, 1>> .. <<c, n>>.
LEMMA ActivitiesOfElements ==
    ASSUME NEW c \in Commands
    PROVE  /\ Delegated[c] \in Nat
           /\ ActivitiesOf(c) \in Seq(Activities)
           /\ Injective(ActivitiesOf(c))
           /\ Elements(ActivitiesOf(c)) = {<<c, i>> : i \in 1..Delegated[c]}
<1>1. Delegated[c] \in Nat
  BY DelegatedAssumption
<1>2. ActivitiesOf(c) \in Seq(Activities) /\ DOMAIN ActivitiesOf(c) = 1..Delegated[c]
  BY <1>1 DEF ActivitiesOf, Activities
<1>3. \A i \in 1..Delegated[c] : ActivitiesOf(c)[i] = <<c, i>>
  BY DEF ActivitiesOf
<1>4. Injective(ActivitiesOf(c))
  BY <1>2, <1>3 DEF Injective
<1>5. Elements(ActivitiesOf(c)) = {ActivitiesOf(c)[i] : i \in 1..Delegated[c]}
  BY <1>2 DEF Elements
<1>6. {ActivitiesOf(c)[i] : i \in 1..Delegated[c]} = {<<c, i>> : i \in 1..Delegated[c]}
  BY <1>3
<1> QED BY <1>1, <1>2, <1>4, <1>5, <1>6

\* What the event loop may find posted: the queue's events, and those of other objects
\* when the queue is a part of a larger program (Project).
Posts == [slot : {"activityFinished", "commandFinished", "instructionsChanged", "treeChanged"},
          command : Commands, number : Nat]

\* The events of an activity and of a command can be told apart, and an event says
\* which activity or command it comes from.
LEMMA EventsDiffer ==
    /\ \A a \in Activities : ActivityFinished(a) \in Events \cap Posts
    /\ \A c \in Commands : CommandFinished(c) \in Events \cap Posts
    /\ \A a, b \in Activities : ActivityFinished(a) = ActivityFinished(b) => a = b
    /\ \A c, d \in Commands : CommandFinished(c) = CommandFinished(d) => c = d
    /\ \A a \in Activities, c \in Commands : ActivityFinished(a) # CommandFinished(c)
    /\ \A e \in Posts : e.slot = "activityFinished" =>
          <<e.command, e.number>> \in Activities /\ e = ActivityFinished(<<e.command, e.number>>)
<1>1. \A e \in Posts : e.slot = "activityFinished" =>
          <<e.command, e.number>> \in Activities /\ e = ActivityFinished(<<e.command, e.number>>)
  BY DEF Activities, Posts, ActivityFinished
<1>2. \A a, b \in Activities : ActivityFinished(a) = ActivityFinished(b) => a = b
  <2> SUFFICES ASSUME NEW a \in Activities, NEW b \in Activities,
                      ActivityFinished(a) = ActivityFinished(b)
               PROVE  a = b
    OBVIOUS
  <2>1. ActivityFinished(a).command = a[1] /\ ActivityFinished(a).number = a[2]
    BY DEF ActivityFinished
  <2>2. ActivityFinished(b).command = b[1] /\ ActivityFinished(b).number = b[2]
    BY DEF ActivityFinished
  <2> QED BY <2>1, <2>2 DEF Activities
<1>3. \A c, d \in Commands : CommandFinished(c) = CommandFinished(d) => c = d
  BY DEF CommandFinished
<1>4. \A a \in Activities, c \in Commands : ActivityFinished(a) # CommandFinished(c)
  BY DEF ActivityFinished, CommandFinished
<1>5. \A a \in Activities : ActivityFinished(a) \in Events \cap Posts
  <2>1. \A a \in Activities : ActivityFinished(a) \in Events
    BY DEF Activities, ActivityFinished, Events
  <2>2. \A a \in Activities : ActivityFinished(a) \in Posts
    BY DEF Activities, ActivityFinished, Posts
  <2> QED BY <2>1, <2>2
<1>6. \A c \in Commands : CommandFinished(c) \in Events \cap Posts
  <2>1. \A c \in Commands : CommandFinished(c) \in Events
    BY DEF CommandFinished, Events
  <2>2. \A c \in Commands : CommandFinished(c) \in Posts
    BY DEF CommandFinished, Posts
  <2> QED BY <2>1, <2>2
<1> QED BY <1>1, <1>2, <1>3, <1>4, <1>5, <1>6
-----------------------------------------------------------------------------
(* The inductive invariant.  Its parts are stated for any queue, front, events and
   set of pushed commands, because push() and commandFinished() change these before
   they enter executeNext(). *)

\* A command is waiting or was executed, never both, and waits once.
Scheduled(q, f, pu) ==
    /\ q \in Seq(Commands) /\ Injective(q)
    /\ executed \in Seq(Commands)
    /\ f \in Elements(executed) \cup {NoCommand}
    /\ Elements(q) \subseteq pu /\ Elements(executed) \subseteq pu
    /\ Elements(q) \cap Elements(executed) = {}

\* An activity of an executed command is in the pool, with a worker, announced by one
\* posted event, or over.
Placed(ev) ==
    /\ pool \in Seq(Activities) /\ Injective(pool)
    /\ running \in SUBSET Activities /\ Elements(pool) \cap running = {}
    /\ ev \in Seq(Posts) /\ Injective(ev)
    /\ \A a \in Activities :
          (a \in Unfinished \/ ActivityFinished(a) \in Elements(ev))
              => a[1] \in Elements(executed) /\ a[2] \in 1..Delegated[a[1]]
    /\ \A a \in Unfinished : ActivityFinished(a) \notin Elements(ev)
    /\ \A c \in Commands : CommandFinished(c) \in Elements(ev)
          => c \in Elements(executed) /\ activityCount_[c] = 0

Outstanding(c, ev) == {i \in 1..Delegated[c] :
    <<c, i>> \in Unfinished \/ ActivityFinished(<<c, i>>) \in Elements(ev)}

\* A command that is owned counts its outstanding activities.
Counted(q, f, ev) ==
    /\ activityCount_ \in [Commands -> Nat]
    /\ \A c \in Commands \ Elements(executed) : activityCount_[c] = 0
    /\ \A c \in Elements(q) \cup ({f} \ {NoCommand}) :
          activityCount_[c] = Cardinality(Outstanding(c, ev))

\* What the other variables range over.
Rest ==
    /\ cancelled \in [Commands -> BOOLEAN]
    /\ statusBar \in Commands \cup {NoCommand}
    /\ status \in {"open", "destroyed", "aborted"}
    /\ pushed \in Seq(Commands)
    /\ clears \in Nat

CountInv ==
    /\ Scheduled(queue_, front_, Elements(pushed))
    /\ Placed(posted)
    /\ Counted(queue_, front_, posted)
    /\ Rest

\* Before it is executed a command has no activity and no event.
LEMMA FreshCommand ==
    ASSUME NEW ev, NEW c \in Commands, c \notin Elements(executed), Placed(ev)
    PROVE  /\ \A i : <<c, i>> \notin Unfinished
           /\ \A i \in Nat : ActivityFinished(<<c, i>>) \notin Elements(ev)
           /\ CommandFinished(c) \notin Elements(ev)
<1>1. Unfinished \subseteq Activities
  BY DEF Placed, Unfinished, Elements
<1>2. \A i \in Nat : <<c, i>> \in Activities
  BY DEF Activities
<1> QED BY <1>1, <1>2 DEF Placed

\* A leaf of the count: an interval has as many elements as its upper bound.
LEMMA IntervalSize == \A n \in Nat : Cardinality(1..n) = n
BY FS_Interval

\* Executing a command that was not executed before preserves the invariant.
LEMMA ExecuteCounts ==
    ASSUME NEW q, NEW ev, NEW tokens, NEW pu, NEW c \in Commands, NEW rest,
           Scheduled(q, NoCommand, pu), Placed(ev), Counted(q, NoCommand, ev),
           q # <<>>, c = Head(q), rest = Tail(q),
           Execute(c, tokens, ev), running' = running
    PROVE  /\ Scheduled(rest, c, pu)'
           /\ Placed(posted)'
           /\ Counted(rest, c, posted)'
<1>1. /\ rest \in Seq(Commands) /\ Injective(rest) /\ c \notin Elements(rest)
      /\ Elements(q) = {c} \cup Elements(rest)
  BY TailElements DEF Scheduled
<1>2. c \notin Elements(executed) /\ activityCount_[c] = 0
  BY <1>1 DEF Scheduled, Counted
<1>3. executed' \in Seq(Commands) /\ Elements(executed') = Elements(executed) \cup {c}
  BY AppendElements DEF Execute, Scheduled
<1>4. Scheduled(rest, c, pu)'
  BY <1>1, <1>2, <1>3 DEF Scheduled
<1>5. /\ Delegated[c] \in Nat
      /\ pool' \in Seq(Activities) /\ Injective(pool')
      /\ Elements(pool') = Elements(pool) \cup {<<c, i>> : i \in 1..Delegated[c]}
  <2> DEFINE acts == ActivitiesOf(c)
  <2>1. acts \in Seq(Activities) /\ Injective(acts) /\ Delegated[c] \in Nat
        /\ Elements(acts) = {<<c, i>> : i \in 1..Delegated[c]}
    BY ActivitiesOfElements
  <2>2. Elements(pool) \cap Elements(acts) = {}
    <3>1. \A i : <<c, i>> \notin Elements(pool)
      BY <1>2, FreshCommand DEF Unfinished
    <3> HIDE DEF acts
    <3> QED BY <2>1, <3>1
  <2>3. pool' = pool \o acts /\ pool \in Seq(Activities) /\ Injective(pool)
    BY DEF Execute, Placed
  <2> HIDE DEF acts
  <2>4. pool' \in Seq(Activities) /\ Injective(pool')
        /\ Elements(pool') = Elements(pool) \cup Elements(acts)
    BY <2>1, <2>2, <2>3, ConcatElements
  <2> QED BY <2>1, <2>4
<1>6. Unfinished' = Unfinished \cup {<<c, i>> : i \in 1..Delegated[c]}
  BY <1>5 DEF Unfinished
<1>7. /\ activityCount_' \in [Commands -> Nat] /\ activityCount_'[c] = Delegated[c]
      /\ \A d \in Commands : d # c => activityCount_'[d] = activityCount_[d]
  BY <1>2, <1>5 DEF Counted, Execute
<1>8. /\ posted' \in Seq(Posts) /\ Injective(posted')
      /\ Elements(posted') = Elements(ev) \cup (IF Delegated[c] = 0 THEN {CommandFinished(c)} ELSE {})
  <2>1. CommandFinished(c) \notin Elements(ev) /\ CommandFinished(c) \in Posts
    BY <1>2, FreshCommand, EventsDiffer
  <2>2. CASE Delegated[c] = 0
    BY <1>7, <2>1, <2>2, AppendElements DEF Execute, Placed
  <2>3. CASE Delegated[c] # 0
    BY <1>7, <2>3 DEF Execute, Placed
  <2> QED BY <2>2, <2>3
<1>9. \A a \in Activities : ActivityFinished(a) \in Elements(posted') <=> ActivityFinished(a) \in Elements(ev)
  BY <1>8, EventsDiffer
<1>10. \A d \in Commands, i \in Nat :
          <<d, i>> \in Unfinished' <=> <<d, i>> \in Unfinished \/ (d = c /\ i \in 1..Delegated[c])
  BY <1>6
<1>11. Placed(posted)'
  <2>1. Elements(pool') \cap running' = {}
    BY <1>2, <1>5, FreshCommand DEF Unfinished, Placed
  <2>2. ASSUME NEW a \in Activities, a \in Unfinished' \/ ActivityFinished(a) \in Elements(posted')
        PROVE  a[1] \in Elements(executed') /\ a[2] \in 1..Delegated[a[1]]
    BY <1>3, <1>6, <1>9, <2>2 DEF Placed
  <2>3. ASSUME NEW a \in Unfinished' PROVE ActivityFinished(a) \notin Elements(posted')
    <3>1. CASE a \in Unfinished
      <4>1. a \in Activities
        BY <3>1 DEF Unfinished, Placed, Elements
      <4> QED BY <1>9, <3>1, <4>1 DEF Placed
    <3>2. CASE a \in {<<c, i>> : i \in 1..Delegated[c]}
      <4>1. PICK i \in 1..Delegated[c] : a = <<c, i>>
        BY <3>2
      <4>2. i \in Nat /\ a \in Activities
        BY <1>5, <4>1 DEF Activities
      <4> QED BY <1>2, <1>9, <4>1, <4>2, FreshCommand
    <3> QED BY <1>6, <3>1, <3>2
  <2>4. ASSUME NEW d \in Commands, CommandFinished(d) \in Elements(posted')
        PROVE  d \in Elements(executed') /\ activityCount_'[d] = 0
    <3>1. CASE CommandFinished(d) \in Elements(ev)
      <4>1. d \in Elements(executed) /\ activityCount_[d] = 0
        BY <3>1 DEF Placed
      <4> QED BY <1>2, <1>3, <1>7, <4>1
    <3>2. CASE Delegated[c] = 0 /\ CommandFinished(d) = CommandFinished(c)
      BY <1>3, <1>7, <3>2, EventsDiffer
    <3> QED BY <1>8, <2>4, <3>1, <3>2
  <2> QED BY <1>5, <1>8, <2>1, <2>2, <2>3, <2>4 DEF Placed
<1>12. Counted(rest, c, posted)'
  <2>1. \A d \in Commands \ Elements(executed') : activityCount_'[d] = 0
    BY <1>3, <1>7 DEF Counted
  <2>2. Outstanding(c, posted)' = 1..Delegated[c]
    BY <1>10, <1>5 DEF Outstanding
  <2>3. ASSUME NEW d \in Elements(rest)
        PROVE  activityCount_'[d] = Cardinality(Outstanding(d, posted)')
    <3>1. d \in Commands /\ d # c /\ d \in Elements(q)
      BY <1>1 DEF Elements
    <3>2. \A i \in 1..Delegated[d] : i \in Nat /\ <<d, i>> \in Activities
      BY <3>1, DelegatedAssumption DEF Activities
    <3>3. Outstanding(d, posted)' = Outstanding(d, ev)
      BY <1>9, <1>10, <3>1, <3>2 DEF Outstanding
    <3> QED BY <1>7, <3>1, <3>3 DEF Counted
  <2> QED BY <1>5, <1>7, <2>1, <2>2, <2>3, IntervalSize DEF Counted
<1> QED BY <1>4, <1>11, <1>12

\* executeNext() preserves the invariant, whoever enters it.
LEMMA ExecuteNextCounts ==
    ASSUME NEW q, NEW f, NEW tokens, NEW ev, NEW pu,
           Scheduled(q, f, pu), Placed(ev), Counted(q, f, ev),
           ExecuteNext(q, f, tokens, ev), running' = running
    PROVE  /\ Scheduled(queue_, front_, pu)'
           /\ Placed(posted)'
           /\ Counted(queue_, front_, posted)'
<1>1. CASE f # NoCommand \/ q = <<>>
  <2>1. /\ queue_' = q /\ front_' = f /\ posted' = ev
        /\ UNCHANGED <<activityCount_, pool, executed, running>>
    BY <1>1 DEF ExecuteNext
  <2>2. Scheduled(queue_, front_, pu)'
    BY <2>1 DEF Scheduled
  <2>3. Unfinished' = Unfinished
    BY <2>1 DEF Unfinished
  <2>4. Placed(posted)'
    BY <2>1, <2>3 DEF Placed
  <2>5. \A c : Outstanding(c, posted)' = Outstanding(c, ev)
    BY <2>1, <2>3 DEF Outstanding
  <2>6. Counted(queue_, front_, posted)'
    BY <2>1, <2>5 DEF Counted
  <2> QED BY <2>2, <2>4, <2>6
<1>2. CASE f = NoCommand /\ q # <<>>
  <2>1. /\ queue_' = Tail(q) /\ front_' = Head(q) /\ Head(q) \in Commands
        /\ Execute(Head(q), tokens, ev)
    BY <1>2, TailElements DEF ExecuteNext, Scheduled
  <2>2. /\ Scheduled(Tail(q), Head(q), pu)'
        /\ Placed(posted)'
        /\ Counted(Tail(q), Head(q), posted)'
    BY <1>2, <2>1, ExecuteCounts
  <2> QED BY <2>1, <2>2 DEF Scheduled, Counted
<1> QED BY <1>1, <1>2

\* executeNext() leaves the tokens, the progress bar and the history well-typed.
LEMMA ExecuteNextTypes ==
    ASSUME NEW q \in Seq(Commands), NEW f, NEW tokens \in [Commands -> BOOLEAN], NEW ev,
           statusBar \in Commands \cup {NoCommand},
           ExecuteNext(q, f, tokens, ev)
    PROVE  /\ cancelled' \in [Commands -> BOOLEAN]
           /\ statusBar' \in Commands \cup {NoCommand}
<1>1. CASE f # NoCommand \/ q = <<>>
  BY <1>1 DEF ExecuteNext
<1>2. CASE f = NoCommand /\ q # <<>>
  <2>1. Head(q) \in Commands
    BY <1>2, TailElements
  <2>2. statusBar' = Head(q) /\ cancelled' = [tokens EXCEPT ![Head(q)] = FALSE]
    BY <1>2 DEF ExecuteNext, Execute
  <2> QED BY <2>1, <2>2
<1> QED BY <1>1, <1>2

\* What clear() and ~CommandQueue leave: nothing owned, the same activities.
LEMMA DropCounts ==
    ASSUME CountInv, queue_' = <<>>, front_' = NoCommand, posted' \in {posted, <<>>},
           UNCHANGED <<activityCount_, pool, running, executed, pushed>>
    PROVE  /\ Scheduled(queue_, front_, Elements(pushed))'
           /\ Placed(posted)'
           /\ Counted(queue_, front_, posted)'
<1>1. /\ <<>> \in Seq(Commands) /\ Injective(<<>>) /\ Elements(<<>>) = {}
      /\ <<>> \in Seq(Posts)
  BY DEF Injective, Elements
<1>2. Elements(posted') \subseteq Elements(posted) /\ posted' \in Seq(Posts) /\ Injective(posted')
  BY <1>1 DEF CountInv, Placed
<1>3. Scheduled(queue_, front_, Elements(pushed))'
  BY <1>1 DEF CountInv, Scheduled
<1>4. Placed(posted)'
  BY <1>2 DEF CountInv, Placed, Unfinished
<1>5. Counted(queue_, front_, posted)'
  BY <1>1 DEF CountInv, Counted
<1> QED BY <1>3, <1>4, <1>5

\* A worker moves an activity on without changing how many are outstanding.
LEMMA StartActivityCounts == CountInv /\ StartActivity => CountInv'
<1> SUFFICES ASSUME CountInv, StartActivity PROVE CountInv'
  OBVIOUS
<1> DEFINE a == Head(pool)
<1>1. /\ a \in Activities /\ pool' \in Seq(Activities) /\ Injective(pool')
      /\ a \notin Elements(pool') /\ Elements(pool) = {a} \cup Elements(pool')
      /\ running' = running \cup {a}
  BY TailElements DEF StartActivity, CountInv, Placed
<1>2. Unfinished' = Unfinished
  BY <1>1 DEF Unfinished
<1>3. UNCHANGED <<queueVars, commandVars, posted, status, pushed, executed, clears>>
  BY DEF StartActivity
<1>4. Scheduled(queue_, front_, Elements(pushed))'
  BY <1>3 DEF CountInv, Scheduled, queueVars
<1>5. Placed(posted)'
  <2>1. Elements(pool') \cap running' = {}
    BY <1>1 DEF CountInv, Placed
  <2> QED BY <1>1, <1>2, <1>3, <2>1 DEF CountInv, Placed, commandVars
<1>6. Counted(queue_, front_, posted)'
  BY <1>2, <1>3 DEF CountInv, Counted, Outstanding, queueVars, commandVars
<1>7. Rest'
  BY <1>3 DEF CountInv, Rest, queueVars, commandVars
<1> QED BY <1>4, <1>5, <1>6, <1>7 DEF CountInv

\* A worker is through with an activity: its end is posted, and not counted yet.
LEMMA FinishActivityCounts ==
    ASSUME CountInv, NEW a \in running, FinishActivity(a)
    PROVE  CountInv'
<1>1. /\ a \in Activities /\ a \in Unfinished /\ a \notin Elements(pool)
      /\ ActivityFinished(a) \notin Elements(posted)
  BY DEF CountInv, Placed, Unfinished
<1>2. /\ posted' \in Seq(Posts) /\ Injective(posted')
      /\ Elements(posted') = Elements(posted) \cup {ActivityFinished(a)}
  BY <1>1, EventsDiffer, AppendElements DEF FinishActivity, CountInv, Placed
<1>3. Unfinished' = Unfinished \ {a}
  BY <1>1 DEF FinishActivity, Unfinished
<1>4. \A b \in Activities : ActivityFinished(b) \in Elements(posted')
                             <=> b = a \/ ActivityFinished(b) \in Elements(posted)
  BY <1>1, <1>2, EventsDiffer
<1>5. UNCHANGED <<queueVars, commandVars, pool, status, pushed, executed, clears>>
  BY DEF FinishActivity
<1>6. Scheduled(queue_, front_, Elements(pushed))'
  BY <1>5 DEF CountInv, Scheduled, queueVars
<1>7. Placed(posted)'
  <2>1. running' \in SUBSET Activities /\ Elements(pool') \cap running' = {}
    BY <1>5 DEF FinishActivity, CountInv, Placed
  <2>2. \A b \in Activities :
            b \in Unfinished' \/ ActivityFinished(b) \in Elements(posted')
         => b \in Unfinished \/ ActivityFinished(b) \in Elements(posted)
    BY <1>1, <1>3, <1>4
  <2>3. \A b \in Unfinished' : ActivityFinished(b) \notin Elements(posted')
    <3>1. \A b \in Unfinished' : b \in Activities /\ b # a /\ b \in Unfinished
      BY <1>3 DEF Unfinished, CountInv, Placed, Elements
    <3> QED BY <1>4, <3>1 DEF CountInv, Placed
  <2>4. \A c \in Commands : CommandFinished(c) \in Elements(posted') => CommandFinished(c) \in Elements(posted)
    BY <1>1, <1>2, EventsDiffer
  <2> QED BY <1>2, <1>5, <2>1, <2>2, <2>3, <2>4 DEF CountInv, Placed, commandVars
<1>8. Counted(queue_, front_, posted)'
  <2>1. ASSUME NEW c \in Elements(queue_) \cup ({front_} \ {NoCommand})
        PROVE  Outstanding(c, posted)' = Outstanding(c, posted)
    <3>1. c \in Commands
      BY DEF CountInv, Scheduled, Elements
    <3>2. \A i \in 1..Delegated[c] : <<c, i>> \in Activities
      BY <3>1, DelegatedAssumption DEF Activities
    <3> QED BY <1>1, <1>3, <1>4, <3>2 DEF Outstanding
  <2> QED BY <1>5, <2>1 DEF CountInv, Counted, queueVars, commandVars
<1>9. Rest'
  BY <1>5 DEF CountInv, Rest, queueVars, commandVars
<1> QED BY <1>6, <1>7, <1>8, <1>9 DEF CountInv

\* A command that hears of an activity decrements its count, which is not zero; the
\* event of a command that is gone changes nothing.
LEMMA DeliverActivityFinishedCounts == CountInv /\ DeliverActivityFinished => CountInv'
<1> SUFFICES ASSUME CountInv, DeliverActivityFinished PROVE CountInv'
  OBVIOUS
<1> PICK e, c, a : e = Head(posted) /\ c = e.command /\ a = <<c, e.number>>
  OBVIOUS
<1>1. /\ e \in Posts /\ e.slot = "activityFinished" /\ e \in Elements(posted)
      /\ Tail(posted) \in Seq(Posts) /\ Injective(Tail(posted))
      /\ e \notin Elements(Tail(posted))
      /\ Elements(posted) = {e} \cup Elements(Tail(posted))
  BY TailElements DEF DeliverActivityFinished, CountInv, Placed
<1>2. a \in Activities /\ e = ActivityFinished(a) /\ c \in Commands /\ e.number \in Nat
  BY <1>1, EventsDiffer DEF Posts
<1>3. c \in Elements(executed) /\ a \notin Unfinished /\ e.number \in 1..Delegated[c]
      /\ a = <<c, e.number>>
  BY <1>1, <1>2 DEF CountInv, Placed
<1>4. /\ UNCHANGED <<queueVars, cancelled, workerVars, status, pushed, executed, clears>>
      /\ \/ /\ c \in Owned
            /\ activityCount_' = [activityCount_ EXCEPT ![c] = @ - 1]
            /\ posted' = IF activityCount_'[c] = 0 THEN Append(Tail(posted), CommandFinished(c))
                                                   ELSE Tail(posted)
         \/ /\ c \notin Owned
            /\ posted' = Tail(posted) /\ UNCHANGED activityCount_
  BY DEF DeliverActivityFinished
<1>5. Unfinished' = Unfinished
  BY <1>4 DEF Unfinished, workerVars
<1>6. Scheduled(queue_, front_, Elements(pushed))'
  BY <1>4 DEF CountInv, Scheduled, queueVars
<1>7. Rest'
  BY <1>4 DEF CountInv, Rest, queueVars
<1>8. \A b \in Activities : ActivityFinished(b) \in Elements(Tail(posted))
                            <=> b # a /\ ActivityFinished(b) \in Elements(posted)
  BY <1>1, <1>2, EventsDiffer
<1>9. CASE c \notin Owned
  <2>1. posted' = Tail(posted) /\ UNCHANGED activityCount_
    BY <1>4, <1>9
  <2>2. Placed(posted)'
    BY <1>1, <1>4, <1>5, <2>1 DEF CountInv, Placed, workerVars
  <2>3. ASSUME NEW d \in Elements(queue_) \cup ({front_} \ {NoCommand})
        PROVE  Outstanding(d, posted)' = Outstanding(d, posted)
    <3>1. d \in Commands /\ d # c
      BY <1>9 DEF Owned, CountInv, Scheduled, Elements
    <3>2. \A i \in 1..Delegated[d] : <<d, i>> \in Activities /\ <<d, i>> # a
      BY <1>3, <3>1, DelegatedAssumption DEF Activities
    <3> QED BY <1>5, <1>8, <2>1, <3>2 DEF Outstanding
  <2>4. Counted(queue_, front_, posted)'
    BY <1>4, <2>1, <2>3 DEF CountInv, Counted, queueVars
  <2> QED BY <1>6, <1>7, <2>2, <2>4 DEF CountInv
<1>10. CASE c \in Owned
  <2>1. /\ activityCount_' = [activityCount_ EXCEPT ![c] = @ - 1]
        /\ posted' = IF activityCount_'[c] = 0 THEN Append(Tail(posted), CommandFinished(c))
                                               ELSE Tail(posted)
    BY <1>4, <1>10
  <2>2. /\ activityCount_[c] = Cardinality(Outstanding(c, posted))
        /\ e.number \in Outstanding(c, posted)
        /\ IsFiniteSet(Outstanding(c, posted))
    <3>1. Delegated[c] \in Nat /\ IsFiniteSet(1..Delegated[c])
      BY <1>2, DelegatedAssumption, FS_Interval
    <3>2. Outstanding(c, posted) \subseteq 1..Delegated[c]
      BY DEF Outstanding
    <3>3. IsFiniteSet(Outstanding(c, posted))
      BY <3>1, <3>2, FS_Subset
    <3>4. e.number \in Outstanding(c, posted)
      BY <1>1, <1>2, <1>3 DEF Outstanding
    <3> QED BY <1>10, <3>3, <3>4 DEF CountInv, Counted, Owned
  <2>3. /\ activityCount_[c] \in Nat \ {0}
        /\ Cardinality(Outstanding(c, posted) \ {e.number}) = activityCount_[c] - 1
    <3>1. /\ Cardinality(Outstanding(c, posted) \ {e.number}) = Cardinality(Outstanding(c, posted)) - 1
          /\ Cardinality(Outstanding(c, posted) \ {e.number}) \in Nat
          /\ Cardinality(Outstanding(c, posted)) \in Nat
      BY <2>2, FS_RemoveElement, FS_CardinalityType
    <3> QED BY <2>2, <3>1
  <2>4. /\ activityCount_' \in [Commands -> Nat] /\ activityCount_'[c] = activityCount_[c] - 1
        /\ \A d \in Commands : d # c => activityCount_'[d] = activityCount_[d]
    BY <1>2, <2>1, <2>3 DEF CountInv, Counted
  <2>5. CommandFinished(c) \in Posts /\ CommandFinished(c) \notin Elements(posted)
    BY <1>2, <2>3, EventsDiffer DEF CountInv, Placed
  <2>6. /\ posted' \in Seq(Posts) /\ Injective(posted')
        /\ Elements(posted') = Elements(Tail(posted)) \cup
              (IF activityCount_'[c] = 0 THEN {CommandFinished(c)} ELSE {})
    <3>1. CASE activityCount_'[c] = 0
      <4> PICK t, done : t = Tail(posted) /\ done = CommandFinished(c)
        OBVIOUS
      <4>1. t \in Seq(Posts) /\ Injective(t) /\ done \in Posts /\ done \notin Elements(t)
        BY <1>1, <2>5
      <4>2. posted' = Append(t, done)
        BY <2>1, <3>1
      <4>3. Append(t, done) \in Seq(Posts) /\ Injective(Append(t, done))
            /\ Elements(Append(t, done)) = Elements(t) \cup {done}
        BY ONLY <4>1, AppendElements, ZenonT(30)
      <4> QED BY <3>1, <4>2, <4>3
    <3>2. CASE activityCount_'[c] # 0
      BY <1>1, <2>1, <3>2
    <3> QED BY <3>1, <3>2
  <2>7. \A b \in Activities : ActivityFinished(b) \in Elements(posted')
                              <=> b # a /\ ActivityFinished(b) \in Elements(posted)
    BY <1>2, <1>8, <2>6, EventsDiffer
  <2>8. Placed(posted)'
    <3>1. \A b \in Activities :
              b \in Unfinished' \/ ActivityFinished(b) \in Elements(posted')
           => b \in Unfinished \/ ActivityFinished(b) \in Elements(posted)
      BY <1>5, <2>7
    <3>2. \A b \in Unfinished' : ActivityFinished(b) \notin Elements(posted')
      <4>1. \A b \in Unfinished' : b \in Activities /\ b \in Unfinished
        BY <1>5 DEF Unfinished, CountInv, Placed, Elements
      <4> QED BY <2>7, <4>1 DEF CountInv, Placed
    <3>3. ASSUME NEW d \in Commands, CommandFinished(d) \in Elements(posted')
          PROVE  d \in Elements(executed') /\ activityCount_'[d] = 0
      <4>1. CASE CommandFinished(d) \in Elements(posted)
        <5>1. d \in Elements(executed) /\ activityCount_[d] = 0
          BY <4>1 DEF CountInv, Placed
        <5>2. d # c
          BY <5>1, <2>3
        <5> QED BY <1>4, <2>4, <5>1, <5>2
      <4>2. CASE activityCount_'[c] = 0 /\ CommandFinished(d) = CommandFinished(c)
        BY <1>2, <1>3, <1>4, <4>2, EventsDiffer
      <4> QED BY <1>1, <2>6, <3>3, <4>1, <4>2
    <3> QED BY <1>4, <2>6, <3>1, <3>2, <3>3 DEF CountInv, Placed, workerVars
  <2>9. ASSUME NEW d \in Elements(queue_) \cup ({front_} \ {NoCommand})
        PROVE  activityCount_'[d] = Cardinality(Outstanding(d, posted)')
    <3>1. d \in Commands
      BY DEF CountInv, Scheduled, Elements
    <3>2. \A i \in 1..Delegated[d] : i \in Nat /\ <<d, i>> \in Activities
                                     /\ (<<d, i>> = a <=> d = c /\ i = e.number)
      BY <1>3, <3>1, DelegatedAssumption DEF Activities
    <3>3. CASE d = c
      <4>1. \A i \in 1..Delegated[c] : <<c, i>> \in Activities /\ (<<c, i>> = a <=> i = e.number)
        BY <3>2, <3>3
      <4>2. \A i \in 1..Delegated[c] :
                (<<c, i>> \in Unfinished' \/ ActivityFinished(<<c, i>>) \in Elements(posted'))
            <=> /\ i # e.number
                /\ <<c, i>> \in Unfinished \/ ActivityFinished(<<c, i>>) \in Elements(posted)
        BY <1>3, <1>5, <2>7, <4>1
      <4>3. Outstanding(c, posted)' = Outstanding(c, posted) \ {e.number}
        BY <4>2 DEF Outstanding
      <4>4. activityCount_'[c] = Cardinality(Outstanding(c, posted)')
        BY <2>3, <2>4, <4>3
      <4> QED BY <3>3, <4>4
    <3>4. CASE d # c
      <4>1. Outstanding(d, posted)' = Outstanding(d, posted)
        BY <1>5, <2>7, <3>2, <3>4 DEF Outstanding
      <4> QED BY <2>4, <3>1, <3>4, <4>1 DEF CountInv, Counted
    <3> QED BY <3>3, <3>4
  <2>10. Counted(queue_, front_, posted)'
    <3>1. \A d \in Commands \ Elements(executed') : activityCount_'[d] = 0
      BY <1>3, <1>4, <2>4 DEF CountInv, Counted
    <3> QED BY <1>4, <2>4, <2>9, <3>1 DEF Counted, queueVars
  <2> QED BY <1>6, <1>7, <2>8, <2>10 DEF CountInv
<1> QED BY <1>9, <1>10

\* push() and commandFinished() change queue_, front_ or posted and enter executeNext().
LEMMA PushCounts == ASSUME CountInv, NEW c \in Commands, Push(c) PROVE CountInv'
<1> PICK q, pu : q = Append(queue_, c) /\ pu = Elements(pushed')
  OBVIOUS
<1> PICK f, ev, tokens : f = front_ /\ ev = posted /\ tokens = cancelled
  OBVIOUS
<1>1. pushed' \in Seq(Commands) /\ pu = Elements(pushed) \cup {c} /\ c \notin Elements(pushed)
  BY AppendElements DEF Push, CountInv, Rest
<1>2. c \notin Elements(queue_) /\ c \notin Elements(executed)
  BY <1>1 DEF CountInv, Scheduled
<1>3. q \in Seq(Commands) /\ Injective(q) /\ Elements(q) = Elements(queue_) \cup {c}
  BY <1>2, AppendElements DEF CountInv, Scheduled
<1>4. Scheduled(q, f, pu)
  BY <1>1, <1>2, <1>3 DEF CountInv, Scheduled
<1>5. Placed(ev)
  BY DEF CountInv
<1>6. Counted(q, f, ev)
  <2>1. activityCount_[c] = 0
    BY <1>2 DEF CountInv, Counted
  <2>2. Delegated[c] \in Nat
    BY DelegatedAssumption
  <2>3. Outstanding(c, ev) = {}
    <3>1. \A i \in 1..Delegated[c] :
              <<c, i>> \notin Unfinished /\ ActivityFinished(<<c, i>>) \notin Elements(ev)
      <4>1. \A i \in 1..Delegated[c] : i \in Nat
        BY <2>2
      <4>2. \A i : <<c, i>> \notin Unfinished
        BY <1>2, <1>5, FreshCommand
      <4>3. \A i \in Nat : ActivityFinished(<<c, i>>) \notin Elements(ev)
        BY <1>2, <1>5, FreshCommand
      <4> QED BY <4>1, <4>2, <4>3
    <3> QED BY <3>1 DEF Outstanding
  <2>4. activityCount_[c] = Cardinality(Outstanding(c, ev))
    BY <2>1, <2>3, FS_EmptySet
  <2> QED BY <1>3, <2>4 DEF CountInv, Counted
<1>7. ExecuteNext(q, f, tokens, ev) /\ running' = running
  BY DEF Push
<1>8. /\ Scheduled(queue_, front_, pu)'
      /\ Placed(posted)'
      /\ Counted(queue_, front_, posted)'
  BY <1>4, <1>5, <1>6, <1>7, ExecuteNextCounts
<1>9. Scheduled(queue_, front_, Elements(pushed))'
  BY <1>8 DEF Scheduled
<1>10. Rest'
  BY <1>1, <1>3, <1>7, ExecuteNextTypes DEF CountInv, Rest, Push
<1> QED BY <1>8, <1>9, <1>10 DEF CountInv

\* commandFinished() gives the front up and starts the next command.
LEMMA DeliverCommandFinishedCounts ==
    ASSUME CountInv, DeliverCommandFinished
    PROVE  CountInv'
<1>1. CASE front_ = NoCommand
  <2>1. /\ UNCHANGED <<queueVars, commandVars, pool, posted, executed, running, pushed, clears>>
        /\ status' = "aborted"
    BY <1>1 DEF DeliverCommandFinished
  <2> QED BY <2>1 DEF CountInv, Scheduled, Placed, Counted, Outstanding, Rest, Unfinished,
                      queueVars, commandVars
<1>2. CASE front_ # NoCommand
  <2> PICK q, pu, ev, tokens : /\ q = queue_ /\ pu = Elements(pushed) /\ ev = Tail(posted)
                               /\ tokens = DestroyedTokens({front_})
    OBVIOUS
  <2>1. /\ ExecuteNext(q, NoCommand, tokens, ev)
        /\ UNCHANGED <<running, pushed, clears, status>>
    BY <1>2 DEF DeliverCommandFinished
  <2>2. /\ ev \in Seq(Posts) /\ Injective(ev) /\ Elements(ev) \subseteq Elements(posted)
    BY TailElements DEF DeliverCommandFinished, CountInv, Placed
  <2>3. Scheduled(q, NoCommand, pu)
    BY DEF CountInv, Scheduled
  <2>4. Placed(ev)
    BY <2>2 DEF CountInv, Placed
  <2>5. Counted(q, NoCommand, ev)
    <3>1. \A a \in Activities : ActivityFinished(a) \in Elements(ev) <=> ActivityFinished(a) \in Elements(posted)
      <4>1. Head(posted).slot = "commandFinished" /\ Elements(posted) = {Head(posted)} \cup Elements(ev)
        BY TailElements DEF DeliverCommandFinished, CountInv, Placed
      <4>2. \A a \in Activities : ActivityFinished(a).slot = "activityFinished"
        BY DEF ActivityFinished
      <4> QED BY <4>1, <4>2
    <3>2. ASSUME NEW c \in Elements(q) PROVE Outstanding(c, ev) = Outstanding(c, posted)
      <4>1. \A i \in 1..Delegated[c] : <<c, i>> \in Activities
        BY DelegatedAssumption DEF Activities, CountInv, Scheduled, Elements
      <4> QED BY <3>1, <4>1 DEF Outstanding
    <3> QED BY <3>2 DEF CountInv, Counted
  <2>6. /\ Scheduled(queue_, front_, pu)'
        /\ Placed(posted)'
        /\ Counted(queue_, front_, posted)'
    BY <2>1, <2>3, <2>4, <2>5, ExecuteNextCounts
  <2>7. Scheduled(queue_, front_, Elements(pushed))'
    BY <2>1, <2>6 DEF Scheduled
  <2>8. tokens \in [Commands -> BOOLEAN]
    BY DEF DestroyedTokens, CountInv, Rest
  <2>9. Rest'
    BY <2>1, <2>3, <2>8, ExecuteNextTypes DEF CountInv, Scheduled, Rest
  <2> QED BY <2>6, <2>7, <2>9 DEF CountInv
<1> QED BY <1>1, <1>2

\* Clearing or destroying the queue gives commands up, whose counts matter no more.
LEMMA ClearCounts == ASSUME CountInv, Clear \/ Destroy PROVE CountInv'
<1>1. /\ queue_' = <<>> /\ front_' = NoCommand /\ posted' \in {posted, <<>>}
      /\ UNCHANGED <<activityCount_, pool, running, executed, pushed>>
      /\ cancelled' = DestroyedTokens(Owned) /\ statusBar' = NoCommand
      /\ status' \in {status, "destroyed"} /\ clears' \in {clears, clears + 1}
  BY DEF Clear, Destroy, workerVars
<1>2. Rest'
  BY <1>1 DEF CountInv, Rest, DestroyedTokens
<1> QED BY <1>1, <1>2, DropCounts DEF CountInv
-----------------------------------------------------------------------------
\* The invariant holds initially: nothing was pushed, posted or delegated.
LEMMA InitCounts == Init => CountInv
<1> SUFFICES ASSUME Init PROVE CountInv
  OBVIOUS
<1>1. /\ Elements(<<>>) = {} /\ Injective(<<>>)
      /\ <<>> \in Seq(Commands) /\ <<>> \in Seq(Activities) /\ <<>> \in Seq(Posts)
  BY DEF Elements, Injective
<1>2. Scheduled(queue_, front_, Elements(pushed))
  BY <1>1 DEF Init, Scheduled
<1>3. Placed(posted)
  BY <1>1 DEF Init, Placed, Unfinished
<1>4. Counted(queue_, front_, posted)
  BY <1>1 DEF Init, Counted
<1>5. Rest
  BY <1>1 DEF Init, Rest
<1> QED BY <1>2, <1>3, <1>4, <1>5 DEF CountInv

\* Every step preserves it.
LEMMA NextCounts == CountInv /\ [Next]_vars => CountInv'
<1> SUFFICES ASSUME CountInv, [Next]_vars PROVE CountInv'
  OBVIOUS
<1>1. ASSUME NEW c \in Commands, Push(c) PROVE CountInv'
  BY <1>1, PushCounts
<1>2. CASE StartActivity
  BY <1>2, StartActivityCounts
<1>3. ASSUME NEW a \in running, FinishActivity(a) PROVE CountInv'
  BY <1>3, FinishActivityCounts
<1>4. CASE DeliverActivityFinished
  BY <1>4, DeliverActivityFinishedCounts
<1>5. CASE DeliverCommandFinished
  BY <1>5, DeliverCommandFinishedCounts
<1>6. CASE Clear \/ Destroy
  BY <1>6, ClearCounts
<1>7. CASE UNCHANGED vars
  BY <1>7 DEF CountInv, Scheduled, Placed, Counted, Outstanding, Rest, Unfinished,
              vars, queueVars, commandVars, workerVars
<1> QED BY <1>1, <1>2, <1>3, <1>4, <1>5, <1>6, <1>7
        DEF Next, UndisturbedNext, Workers, EventLoop

\* The inductive invariant of the queue, of its commands and of their activities.
THEOREM Counting == Spec => []CountInv
<1>1. Init => CountInv
  BY InitCounts
<1>2. CountInv /\ [Next]_vars => CountInv'
  BY NextCounts
<1> QED BY <1>1, <1>2, PTL DEF Spec

(* Where the queue is the whole program, only its own events are posted. *)

OwnEvents == posted \in Seq(Events)

\* Only the queue's own events are posted as long as it is by itself.
LEMMA NextOwnEvents == CountInv /\ OwnEvents /\ [Next]_vars => OwnEvents'
<1> SUFFICES ASSUME CountInv, posted \in Seq(Events), [Next]_vars PROVE posted' \in Seq(Events)
  BY DEF OwnEvents
<1>1. ASSUME NEW q \in Seq(Commands), NEW f, NEW tokens, NEW ev \in Seq(Events),
             ExecuteNext(q, f, tokens, ev)
      PROVE  posted' \in Seq(Events)
  <2>1. CASE f # NoCommand \/ q = <<>>
    BY <1>1, <2>1 DEF ExecuteNext
  <2>2. CASE f = NoCommand /\ q # <<>>
    <3>1. CommandFinished(Head(q)) \in Events
      BY <2>2, TailElements, EventsDiffer
    <3>2. posted' \in {ev, Append(ev, CommandFinished(Head(q)))}
      BY <1>1, <2>2 DEF ExecuteNext, Execute
    <3> QED BY <3>1, <3>2, AppendElements
  <2> QED BY <2>1, <2>2
<1>2. queue_ \in Seq(Commands)
  BY DEF CountInv, Scheduled
<1>3. ASSUME NEW c \in Commands, Push(c) PROVE posted' \in Seq(Events)
  <2> PICK q, tokens, ev : q = Append(queue_, c) /\ tokens = cancelled /\ ev = posted
    OBVIOUS
  <2>1. q \in Seq(Commands) /\ ExecuteNext(q, front_, tokens, ev)
    BY <1>2, <1>3 DEF Push
  <2> QED BY <1>1, <2>1
<1>4. ASSUME NEW a \in running, FinishActivity(a) PROVE posted' \in Seq(Events)
  <2>1. a \in Activities
    BY DEF CountInv, Placed
  <2> QED BY <1>4, <2>1, EventsDiffer DEF FinishActivity
<1>5. CASE DeliverActivityFinished
  <2>1. Head(posted) \in Events /\ Tail(posted) \in Seq(Events)
    BY <1>5, TailElements DEF DeliverActivityFinished
  <2>2. CommandFinished(Head(posted).command) \in Events
    BY <2>1, EventsDiffer DEF Events
  <2>3. posted' \in {Tail(posted), Append(Tail(posted), CommandFinished(Head(posted).command))}
    BY <1>5 DEF DeliverActivityFinished
  <2> QED BY <2>1, <2>2, <2>3
<1>6. CASE DeliverCommandFinished
  <2> PICK tokens, ev : tokens = DestroyedTokens({front_}) /\ ev = Tail(posted)
    OBVIOUS
  <2>1. ev \in Seq(Events)
    BY <1>6, TailElements DEF DeliverCommandFinished
  <2> QED BY <1>1, <1>2, <1>6, <2>1 DEF DeliverCommandFinished
<1>7. CASE StartActivity \/ Clear \/ UNCHANGED vars
  BY <1>7 DEF StartActivity, Clear, vars
<1>8. CASE Destroy
  <2>1. posted' = <<>>
    BY <1>8 DEF Destroy
  <2> QED BY <2>1
<1> QED BY <1>3, <1>4, <1>5, <1>6, <1>7, <1>8 DEF Next, UndisturbedNext, Workers, EventLoop

\* Every variable of the queue keeps its type; in particular activityCount_, a
\* std::size_t that Command::activityFinished decrements, never goes below zero
\* (assert(activityCount_ > 0), Command.cpp:71).
THEOREM TypeCorrect == Spec => []TypeOK
<1>1. CountInv /\ OwnEvents => TypeOK
  <2> SUFFICES ASSUME CountInv, posted \in Seq(Events) PROVE TypeOK
    BY DEF OwnEvents
  <2>1. front_ \in Commands \cup {NoCommand}
    BY DEF CountInv, Scheduled, Elements
  <2> QED BY <2>1 DEF CountInv, Scheduled, Placed, Counted, Rest, TypeOK
<1>2. Init => OwnEvents
  BY DEF Init, OwnEvents
<1> QED BY <1>1, <1>2, NextOwnEvents, Counting, PTL DEF Spec

\* The invariant says of owned commands what is to be shown.
LEMMA CountsMatch == CountInv => ActivityCountMatches
BY DEF CountInv, Counted, Owned, Outstanding, ActivityCountMatches

\* Command::activityCount_ counts exactly the activities whose end the command has not
\* heard of, for every command the queue still owns.
THEOREM CountCorrect == Spec => []ActivityCountMatches
BY CountsMatch, Counting, PTL
-----------------------------------------------------------------------------
(* Dropped commands stop their activities.  The invariant is inductive together with
   the types: executeNext() makes a command current whose activities it delegates in
   the same step, and whatever takes the current command away cancels its token. *)

\* executeNext() is entered with all work but that of the front cancelled, and keeps it so.
LEMMA ExecuteNextCancels ==
    ASSUME NEW q \in Seq(Commands), NEW f, NEW tokens \in [Commands -> BOOLEAN], NEW ev,
           pool \in Seq(Activities), running \subseteq Activities,
           \A a \in Unfinished : a[1] = f \/ tokens[a[1]],
           ExecuteNext(q, f, tokens, ev), running' = running
    PROVE  AbandonedAreCancelled'
<1>1. CASE f # NoCommand \/ q = <<>>
  <2>1. front_' = f /\ cancelled' = tokens /\ pool' = pool
    BY <1>1 DEF ExecuteNext
  <2> QED BY <2>1 DEF AbandonedAreCancelled, Unfinished
<1>2. CASE f = NoCommand /\ q # <<>>
  <2> PICK c : c = Head(q)
    OBVIOUS
  <2>1. c \in Commands
    BY <1>2, TailElements
  <2>2. /\ front_' = c /\ pool' = pool \o ActivitiesOf(c)
        /\ cancelled' = [tokens EXCEPT ![c] = FALSE]
    BY <1>2 DEF ExecuteNext, Execute
  <2>3. Elements(pool') = Elements(pool) \cup {<<c, i>> : i \in 1..Delegated[c]}
    BY <2>1, <2>2, ActivitiesOfElements, ConcatElements
  <2>4. ASSUME NEW a \in Unfinished' PROVE a[1] = c \/ cancelled'[a[1]]
    <3>1. CASE a \in Unfinished
      <4>1. a[1] \in Commands
        BY <3>1 DEF Unfinished, Activities, Elements
      <4>2. tokens[a[1]]
        BY <1>2, <3>1, <4>1, CommandsAssumption
      <4>3. a[1] # c => cancelled'[a[1]] = tokens[a[1]]
        BY <2>1, <2>2, <4>1
      <4> QED BY <4>2, <4>3
    <3>2. CASE a \in {<<c, i>> : i \in 1..Delegated[c]}
      BY <3>2
    <3> QED BY <2>3, <3>1, <3>2 DEF Unfinished
  <2> QED BY <2>2, <2>4 DEF AbandonedAreCancelled
<1> QED BY <1>1, <1>2

\* A command is given up only by cancelling it.
LEMMA NextCancels == CountInv /\ AbandonedAreCancelled /\ [Next]_vars => AbandonedAreCancelled'
<1> SUFFICES ASSUME CountInv, AbandonedAreCancelled, [Next]_vars PROVE AbandonedAreCancelled'
  OBVIOUS
<1>1. /\ pool \in Seq(Activities) /\ running \subseteq Activities /\ queue_ \in Seq(Commands)
      /\ cancelled \in [Commands -> BOOLEAN]
  BY DEF CountInv, Scheduled, Placed, Rest
<1>2. \A a \in Unfinished : a[1] \in Commands /\ (a[1] = front_ \/ cancelled[a[1]])
  BY <1>1 DEF AbandonedAreCancelled, Unfinished, Activities, Elements
<1>3. ASSUME NEW c \in Commands, Push(c) PROVE AbandonedAreCancelled'
  <2> PICK q, f, tokens, ev : q = Append(queue_, c) /\ f = front_ /\ tokens = cancelled /\ ev = posted
    OBVIOUS
  <2>1. ExecuteNext(q, f, tokens, ev) /\ running' = running
    BY <1>3 DEF Push
  <2>2. q \in Seq(Commands) /\ tokens \in [Commands -> BOOLEAN]
    BY <1>1
  <2> QED BY <1>1, <1>2, <2>1, <2>2, ExecuteNextCancels
<1>4. CASE StartActivity
  <2>1. Unfinished' = Unfinished /\ UNCHANGED <<front_, cancelled>>
    BY <1>1, <1>4, TailElements DEF StartActivity, Unfinished, queueVars, commandVars
  <2> QED BY <2>1 DEF AbandonedAreCancelled
<1>5. ASSUME NEW a \in running, FinishActivity(a) PROVE AbandonedAreCancelled'
  <2>1. Unfinished' \subseteq Unfinished /\ UNCHANGED <<front_, cancelled>>
    BY <1>5 DEF FinishActivity, Unfinished, queueVars, commandVars
  <2> QED BY <2>1 DEF AbandonedAreCancelled
<1>6. CASE DeliverActivityFinished
  <2>1. UNCHANGED <<pool, running, front_, cancelled>>
    BY <1>6 DEF DeliverActivityFinished, queueVars, workerVars
  <2> QED BY <2>1 DEF AbandonedAreCancelled, Unfinished
<1>7. CASE DeliverCommandFinished
  <2>1. CASE front_ = NoCommand
    <3>1. UNCHANGED <<pool, running, front_, cancelled>>
      BY <1>7, <2>1 DEF DeliverCommandFinished, queueVars, commandVars
    <3> QED BY <3>1 DEF AbandonedAreCancelled, Unfinished
  <2>2. CASE front_ # NoCommand
    <3> PICK q, f, tokens, ev : /\ q = queue_ /\ f = NoCommand /\ ev = Tail(posted)
                                /\ tokens = DestroyedTokens({front_})
      OBVIOUS
    <3>1. ExecuteNext(q, f, tokens, ev) /\ running' = running
      BY <1>7, <2>2 DEF DeliverCommandFinished
    <3>2. /\ tokens \in [Commands -> BOOLEAN]
          /\ \A c \in Commands : tokens[c] = (cancelled[c] \/ c = front_)
      BY <1>1 DEF DestroyedTokens
    <3>3. \A a \in Unfinished : a[1] = f \/ tokens[a[1]]
      BY <1>2, <3>2
    <3> QED BY <1>1, <3>1, <3>2, <3>3, ExecuteNextCancels
  <2> QED BY <2>1, <2>2
<1>8. CASE Clear \/ Destroy
  <2>1. /\ cancelled' = DestroyedTokens(Owned) /\ UNCHANGED <<pool, running>>
    BY <1>8 DEF Clear, Destroy, workerVars
  <2>2. \A c \in Commands : cancelled'[c] = (cancelled[c] \/ c \in Owned)
    BY <2>1 DEF DestroyedTokens
  <2>3. \A a \in Unfinished : cancelled'[a[1]]
    BY <1>2, <2>2, CommandsAssumption DEF Owned
  <2> QED BY <2>1, <2>3 DEF AbandonedAreCancelled, Unfinished
<1>9. CASE UNCHANGED vars
  BY <1>9 DEF AbandonedAreCancelled, Unfinished, vars, queueVars, commandVars, workerVars
<1> QED BY <1>3, <1>4, <1>5, <1>6, <1>7, <1>8, <1>9
        DEF Next, UndisturbedNext, Workers, EventLoop

\* No uncancelled activity of a command that is not current: whatever the user clears
\* and whatever a stale event drops, at most one command does useful work.
THEOREM Cancellation == Spec => []AbandonedAreCancelled
<1>1. Init => AbandonedAreCancelled
  BY DEF Init, AbandonedAreCancelled, Unfinished, Elements
<1> QED BY <1>1, NextCancels, Counting, PTL DEF Spec
-----------------------------------------------------------------------------
(* The queue moves on.  executeNext() leaves behind either the front it was entered
   with or a new one, for which Command::execute posts the event if nothing was
   delegated; only the event loop takes that event away, together with the front. *)

\* Nothing is posted but at the end of the list.
Extends(ev, new) == \A e \in Elements(ev) : e \in Elements(new)

\* Posting keeps what is posted, and adds to it.
LEMMA PostingExtends ==
    \A ev \in Seq(Posts), e \in Posts :
        Extends(ev, Append(ev, e)) /\ e \in Elements(Append(ev, e))
<1> SUFFICES ASSUME NEW ev \in Seq(Posts), NEW e \in Posts
             PROVE  Extends(ev, Append(ev, e)) /\ e \in Elements(Append(ev, e))
  OBVIOUS
<1>1. Elements(Append(ev, e)) = Elements(ev) \cup {e}
  BY AppendElements
<1> QED BY <1>1 DEF Extends

\* A command that executeNext() starts with nothing to count announces its end at once.
LEMMA ExecuteNextAnnounces ==
    ASSUME NEW q \in Seq(Commands), NEW f, NEW tokens, NEW ev \in Seq(Posts),
           activityCount_ \in [Commands -> Nat],
           f # NoCommand /\ activityCount_[f] = 0 => CommandFinished(f) \in Elements(ev),
           ExecuteNext(q, f, tokens, ev)
    PROVE  FinishIsAnnounced'
<1>1. CASE f # NoCommand \/ q = <<>>
  <2>1. front_' = f /\ posted' = ev /\ activityCount_' = activityCount_
    BY <1>1 DEF ExecuteNext
  <2> QED BY <2>1 DEF FinishIsAnnounced, CommandFinished
<1>2. CASE f = NoCommand /\ q # <<>>
  <2> PICK c : c = Head(q)
    OBVIOUS
  <2>1. c \in Commands
    BY <1>2, TailElements
  <2>2. /\ front_' = c
        /\ posted' = IF activityCount_'[c] = 0 THEN Append(ev, CommandFinished(c)) ELSE ev
    BY <1>2 DEF ExecuteNext, Execute
  <2>3. CommandFinished(c) \in Elements(Append(ev, CommandFinished(c)))
    BY <2>1, PostingExtends, EventsDiffer
  <2> QED BY <2>2, <2>3 DEF FinishIsAnnounced, CommandFinished
<1> QED BY <1>1, <1>2

\* Whoever counts the last activity of the front down announces its end.
LEMMA NextAnnounces == CountInv /\ FinishIsAnnounced /\ [Next]_vars => FinishIsAnnounced'
<1> SUFFICES ASSUME CountInv, FinishIsAnnounced, [Next]_vars PROVE FinishIsAnnounced'
  OBVIOUS
<1>1. /\ posted \in Seq(Posts) /\ queue_ \in Seq(Commands)
      /\ activityCount_ \in [Commands -> Nat] /\ front_ \in Commands \cup {NoCommand}
  BY DEF CountInv, Scheduled, Placed, Counted, Elements
<1>2. ASSUME NEW c \in Commands, Push(c) PROVE FinishIsAnnounced'
  <2> PICK q, ev : q = Append(queue_, c) /\ ev = posted
    OBVIOUS
  <2>1. ExecuteNext(q, front_, cancelled, ev)
    BY <1>2 DEF Push
  <2>2. q \in Seq(Commands) /\ ev \in Seq(Posts)
    BY <1>1
  <2> QED BY <1>1, <2>1, <2>2, ExecuteNextAnnounces DEF FinishIsAnnounced
<1>3. CASE StartActivity
  BY <1>3 DEF StartActivity, FinishIsAnnounced, queueVars, commandVars, CommandFinished
<1>4. ASSUME NEW a \in running, FinishActivity(a) PROVE FinishIsAnnounced'
  <2>1. a \in Activities
    BY <1>4 DEF CountInv, Placed
  <2>2. UNCHANGED <<front_, activityCount_>> /\ posted' = Append(posted, ActivityFinished(a))
    BY <1>4 DEF FinishActivity, queueVars, commandVars
  <2>3. Extends(posted, posted')
    BY <1>1, <2>1, <2>2, PostingExtends, EventsDiffer
  <2> QED BY <2>2, <2>3 DEF FinishIsAnnounced, Extends, CommandFinished
<1>5. CASE DeliverActivityFinished
  <2> PICK e, c : e = Head(posted) /\ c = e.command
    OBVIOUS
  <2>1. posted # <<>> /\ e.slot = "activityFinished" /\ UNCHANGED front_
    BY <1>5 DEF DeliverActivityFinished, queueVars
  <2>2. /\ e \in Posts /\ Tail(posted) \in Seq(Posts)
        /\ Elements(posted) = {e} \cup Elements(Tail(posted))
    BY <1>1, <2>1, TailElements
  <2>3. c \in Commands /\ CommandFinished(c) \in Posts
    BY <2>2, EventsDiffer DEF Posts
  <2>4. front_ # NoCommand =>
          (CommandFinished(front_) \in Elements(posted)
              => CommandFinished(front_) \in Elements(Tail(posted)))
    BY <2>1, <2>2 DEF CommandFinished
  <2>5. /\ Extends(Tail(posted), Append(Tail(posted), CommandFinished(c)))
        /\ CommandFinished(c) \in Elements(Append(Tail(posted), CommandFinished(c)))
    BY <2>2, <2>3, PostingExtends
  <2>6. CASE c \in Owned
    <3>1. /\ activityCount_' = [activityCount_ EXCEPT ![c] = @ - 1]
          /\ posted' = IF activityCount_'[c] = 0 THEN Append(Tail(posted), CommandFinished(c))
                       ELSE Tail(posted)
      BY <1>5, <2>6 DEF DeliverActivityFinished
    <3>2. Extends(Tail(posted), posted')
      BY <2>5, <3>1 DEF Extends
    <3>3. CASE front_ = c
      BY <2>1, <2>5, <3>1, <3>3 DEF FinishIsAnnounced, CommandFinished
    <3>4. CASE front_ # c
      <4>1. front_ # NoCommand => activityCount_'[front_] = activityCount_[front_]
        BY <1>1, <3>1, <3>4
      <4> QED BY <2>1, <2>4, <3>2, <4>1 DEF FinishIsAnnounced, Extends, CommandFinished
    <3> QED BY <3>3, <3>4
  <2>7. CASE c \notin Owned
    <3>1. posted' = Tail(posted) /\ activityCount_' = activityCount_
      BY <1>5, <2>7 DEF DeliverActivityFinished
    <3> QED BY <2>1, <2>4, <3>1 DEF FinishIsAnnounced, CommandFinished
  <2> QED BY <2>6, <2>7
<1>6. CASE DeliverCommandFinished
  <2>1. CASE front_ = NoCommand
    BY <1>6, <2>1 DEF DeliverCommandFinished, FinishIsAnnounced, queueVars
  <2>2. CASE front_ # NoCommand
    <3> PICK tokens, ev : tokens = DestroyedTokens({front_}) /\ ev = Tail(posted)
      OBVIOUS
    <3>1. ExecuteNext(queue_, NoCommand, tokens, ev) /\ posted # <<>>
      BY <1>6, <2>2 DEF DeliverCommandFinished
    <3>2. ev \in Seq(Posts)
      BY <1>1, <3>1, TailElements
    <3> QED BY <1>1, <3>1, <3>2, ExecuteNextAnnounces
  <2> QED BY <2>1, <2>2
<1>7. CASE Clear \/ Destroy
  BY <1>7 DEF Clear, Destroy, FinishIsAnnounced
<1>8. CASE UNCHANGED vars
  BY <1>8 DEF FinishIsAnnounced, vars, queueVars, commandVars, CommandFinished
<1> QED BY <1>2, <1>3, <1>4, <1>5, <1>6, <1>7, <1>8
        DEF Next, UndisturbedNext, Workers, EventLoop

\* A current command whose activities are all over has its finished event on the way, so
\* commandFinished() will run for it: nothing else starts the next command.
THEOREM Announcement == Spec => []FinishIsAnnounced
<1>1. Init => FinishIsAnnounced
  BY DEF Init, FinishIsAnnounced
<1> QED BY <1>1, NextAnnounces, Counting, PTL DEF Spec
-----------------------------------------------------------------------------
\* Every place that changes front_ emits nextCommand() or idle(), for which updateGuiState()
\* looks at it; an assertion that fails leaves the rest of the handler undone.
LEMMA NextShows == StatusBarShowsFront /\ [Next]_vars => StatusBarShowsFront'
<1> SUFFICES ASSUME StatusBarShowsFront, [Next]_vars PROVE StatusBarShowsFront'
  OBVIOUS
<1>1. ASSUME NEW q, NEW f, NEW tokens, NEW ev,
             ExecuteNext(q, f, tokens, ev), f = front_ \/ f = NoCommand, statusBar = front_
      PROVE  statusBar' = front_'
  BY <1>1 DEF ExecuteNext
<1>2. ASSUME NEW c \in Commands, Push(c) PROVE StatusBarShowsFront'
  <2>1. ExecuteNext(Append(queue_, c), front_, cancelled, posted) /\ statusBar = front_
    BY <1>2 DEF Push, StatusBarShowsFront
  <2> QED BY <1>1, <2>1 DEF StatusBarShowsFront
<1>3. CASE StartActivity \/ (\E a \in running : FinishActivity(a)) \/ DeliverActivityFinished
  BY <1>3 DEF StartActivity, FinishActivity, DeliverActivityFinished, StatusBarShowsFront, queueVars
<1>4. CASE DeliverCommandFinished
  <2>1. status # "aborted" /\ statusBar = front_
    BY <1>4 DEF DeliverCommandFinished, StatusBarShowsFront
  <2>2. CASE front_ = NoCommand
    BY <1>4, <2>2 DEF DeliverCommandFinished, StatusBarShowsFront
  <2>3. CASE front_ # NoCommand
    <3>1. ExecuteNext(queue_, NoCommand, DestroyedTokens({front_}), Tail(posted))
      BY <1>4, <2>3 DEF DeliverCommandFinished
    <3> QED BY <1>1, <2>1, <3>1 DEF StatusBarShowsFront
  <2> QED BY <2>2, <2>3
<1>5. CASE Clear \/ Destroy
  BY <1>5 DEF Clear, Destroy, StatusBarShowsFront
<1>6. CASE UNCHANGED vars
  BY <1>6 DEF StatusBarShowsFront, vars, queueVars
<1> QED BY <1>2, <1>3, <1>4, <1>5, <1>6 DEF Next, UndisturbedNext, Workers, EventLoop

\* The progress bar, the dialog and the "Cancel All" action agree with the queue in every
\* reachable state.
THEOREM StatusShown == Spec => []StatusBarShowsFront
<1>1. Init => StatusBarShowsFront
  BY DEF Init, StatusBarShowsFront
<1> QED BY <1>1, NextShows, PTL DEF Spec
=============================================================================
