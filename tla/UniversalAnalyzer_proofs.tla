---------------------- MODULE UniversalAnalyzer_proofs ----------------------
(***************************************************************************)
(* What holds of the program in every moment of a decompilation, of any    *)
(* instructions, and however often it is cancelled: that it is well-formed *)
(* and loses nothing, that control goes where the instructions go, and     *)
(* that the functions isolated from it are those called, and complete.     *)
(***************************************************************************)
EXTENDS UniversalAnalyzer, IRGenerator_proofs

\* The generator's invariant holds throughout: only the generator changes the program.
THEOREM ProgramInvariant == Spec => []IRInv
<1>1. Init => IRInv
  BY IRInitially DEF Init
<1>2. IRInv /\ [Next]_analysisVars => IRInv'
  <2> SUFFICES ASSUME IRInv, [Next]_analysisVars PROVE IRInv'
    OBVIOUS
  <2>1. CASE CreateProgram
    BY <2>1, GenerateKeepsInv DEF CreateProgram
  <2>2. CASE CreateFunctions
    BY <2>2, LeavingKeepsInv DEF CreateFunctions
  <2>3. CASE Cancel
    BY <2>3, LeavingKeepsInv DEF Cancel, CancelGeneration
  <2>4. CASE Stay \/ UNCHANGED analysisVars
    BY <2>4, StandingKeepsInv DEF Stay, analysisVars
  <2> QED BY <2>1, <2>2, <2>3, <2>4 DEF Next, Analyse
<1> QED BY <1>1, <1>2, PTL DEF Spec

\* ir::Program stays well-formed: statements and jumps refer to what there is, and the
\* keys of range2basicBlock_ stay comparable, whatever instructions overlap.
THEOREM ProgramTyped == Spec => []ProgramTypeOK
BY ProgramInvariant, InvTypeOK, PTL

\* As long as no instructions overlap, range2basicBlock_ says exactly where the blocks
\* are, so no two of them overlap.
THEOREM RangesAreExact == Spec => []RangesMatchBlocks
BY ProgramInvariant, InvRangesMatchBlocks, PTL

\* BasicBlock::split loses and doubles nothing: each translated instruction has its
\* statement in exactly one block, once.
THEOREM StatementsStay == Spec => []StatementsAreKept
BY ProgramInvariant, InvStatementsAreKept, PTL

\* Once the targets of jumps are computed, jumps and returns are last in their blocks,
\* unless instructions overlap.
THEOREM JumpsAreLast == Spec => []JumpsEndBlocksWithoutOverlap
BY ProgramInvariant, InvJumpsEndBlocks, PTL

-----------------------------------------------------------------------------
(* Where the blocks are, and where the jumps lead. *)

\* No instruction has the address in its middle.
Cut(C, a) == \A j \in C : a <= j.address \/ EndOf(j) <= a

\* Instructions do not overlap, and nothing goes to the middle of one.
Straight(C) == Apart(C) /\ \A i \in C : \A n \in DOMAIN i.targets : Cut(C, i.targets[n])

\* An instruction that got a block, and a block, have the byte at the address.
Occupied(T, a) == \E j \in T : j.kind # "invalid" /\ j.address <= a /\ a < EndOf(j)
Covered(p, a) == \E b : Holds(p, b, a)

\* Blocks begin and end where instructions do, and are where the instructions T are.
Tiled(C, T, p) ==
    /\ \A b \in BlocksOf(p) : Bound(p, b) =>
          Cut(C, p.blocks[b].address) /\ Cut(C, p.blocks[b].successor)
    /\ \A a \in Nat : Covered(p, a) <=> Occupied(T, a)

\* Blocks that begin and end where they did are as good.
LEMMA TiledAlike ==
    ASSUME NEW C, NEW T, NEW p, NEW q, Tiled(C, T, p),
           \A b : (b \in BlocksOf(q) /\ Bound(q, b)) <=> (b \in BlocksOf(p) /\ Bound(p, b)),
           \A b \in BlocksOf(p) : Bound(p, b) =>
               /\ q.blocks[b].address = p.blocks[b].address
               /\ q.blocks[b].successor = p.blocks[b].successor
    PROVE  Tiled(C, T, q)
<1>1. \A b, a : Holds(q, b, a) <=> Holds(p, b, a)
  BY DEF Holds
<1>2. \A a : Covered(q, a) <=> Covered(p, a)
  BY <1>1 DEF Covered
<1> QED BY <1>2 DEF Tiled

\* createBasicBlock() between two instructions covers what was covered.
LEMMA CreateBasicBlockTiles ==
    ASSUME NEW S, NEW p \in Programs(S), Mapped(p), NEW a \in Nat,
           NEW C, NEW T, Cut(C, a), Tiled(C, T, p), NEW q, q = CreateBasicBlock(p, a)
    PROVE  Tiled(C, T, q)
<1>1. CASE StartingAt(p, a) # {}
  BY <1>1 DEF CreateBasicBlock
<1> PICK n : n = Len(p.blocks) + 1
  OBVIOUS
<1>2. CASE StartingAt(p, a) = {} /\ Covering(p, a) = {}
  <2>1. /\ BlocksOf(q) = BlocksOf(p) \cup {n} /\ n \notin BlocksOf(p)
        /\ \A c \in BlocksOf(p) : q.blocks[c] = p.blocks[c]
        /\ q.blocks[n] = NewBlock(a)
    BY <1>2, CreateBasicBlockAdds
  <2>2. q.blocks[n].address = a /\ q.blocks[n].successor = a
    BY <2>1 DEF NewBlock
  <2>3. \A b, x : x \in Nat => (Holds(q, b, x) <=> Holds(p, b, x))
    BY <2>1, <2>2 DEF Holds, Bound
  <2>4. \A x \in Nat : Covered(q, x) <=> Covered(p, x)
    BY <2>3 DEF Covered
  <2>5. \A b \in BlocksOf(q) : Bound(q, b) =>
            Cut(C, q.blocks[b].address) /\ Cut(C, q.blocks[b].successor)
    BY <2>1, <2>2 DEF Tiled, Bound
  <2> QED BY <2>4, <2>5 DEF Tiled
<1>3. CASE StartingAt(p, a) = {} /\ Covering(p, a) # {}
  <2>1. PICK b \in BlocksOf(p) :
           /\ Bound(p, b) /\ p.blocks[b].address < a /\ a < p.blocks[b].successor
           /\ Halves(p, q, b, a, n)
    BY <1>3, CreateBasicBlockCuts
  <2>2. /\ BlocksOf(q) = BlocksOf(p) \cup {n} /\ n \notin BlocksOf(p)
        /\ \A c \in BlocksOf(p) \ {b} : q.blocks[c] = p.blocks[c]
        /\ q.blocks[b].address = p.blocks[b].address /\ q.blocks[b].successor = a
        /\ q.blocks[n].address = a /\ q.blocks[n].successor = p.blocks[b].successor
    BY <2>1 DEF Halves
  <2>3. p.blocks[b].address \in Nat /\ p.blocks[b].successor \in Nat
    BY <2>1 DEF Mapped, Located
  <2>4. Bound(q, b) /\ Bound(q, n) /\ \A c \in BlocksOf(p) : Bound(q, c) <=> Bound(p, c)
    BY <2>1, <2>2 DEF Bound, None
  <2>5. ASSUME NEW x \in Nat PROVE Covered(q, x) <=> Covered(p, x)
    <3>1. \A c \in BlocksOf(p) \ {b} : Holds(q, c, x) <=> Holds(p, c, x)
      BY <2>2, <2>4 DEF Holds
    <3>2. Holds(p, b, x) <=> Holds(q, b, x) \/ Holds(q, n, x)
      BY <2>1, <2>2, <2>3, <2>4 DEF Holds
    <3>3. \A c : Holds(p, c, x) => c \in BlocksOf(p)
      BY DEF Holds
    <3>4. \A c : Holds(q, c, x) => c \in BlocksOf(p) \/ c = n
      BY <2>2 DEF Holds
    <3> QED BY <3>1, <3>2, <3>3, <3>4 DEF Covered
  <2>6. \A c \in BlocksOf(q) : Bound(q, c) =>
            Cut(C, q.blocks[c].address) /\ Cut(C, q.blocks[c].successor)
    BY <2>1, <2>2, <2>4 DEF Tiled
  <2> QED BY <2>5, <2>6 DEF Tiled
<1> QED BY <1>1, <1>2, <1>3

\* The block of an instruction behind all blocks ends where the one before it does.
LEMMA ExtendedBlock ==
    ASSUME NEW S, NEW p \in Programs(S), Mapped(p),
           NEW i, i.address \in Nat, i.size \in Nat \ {0}, Before(p.ranges, i.address),
           NEW b, b = BlockForInstruction(p, i), NEW q, q = ExtendForInstruction(p, i)
    PROVE  /\ BlocksOf(q) = BlocksOf(p) \cup {b} /\ Bound(q, b)
           /\ \A c \in BlocksOf(p) \ {b} : q.blocks[c] = p.blocks[c]
           /\ q.blocks[b].successor = EndOf(i)
           /\ b \in BlocksOf(p) =>
                 /\ Bound(p, b) /\ q.blocks[b].address = p.blocks[b].address
                 /\ \/ p.blocks[b].address = i.address
                    \/ p.blocks[b].address <= i.address /\ i.address <= p.blocks[b].successor
           /\ b \notin BlocksOf(p) => q.blocks[b].address = i.address
<1> PICK r : r = IF b \in BlocksOf(p) THEN p ELSE CreateBasicBlock(p, i.address)
  OBVIOUS
<1>1. r \in Programs(S) /\ Found(p, r, b, i.address)
  BY FindsBlock
<1>2. Extended(p, q, b, i)
  BY ExtendsBlock
<1>3. q = AddRange([RemoveRange(r, b) EXCEPT !.blocks[b].successor = i.address + i.size], b)
  BY DEF ExtendForInstruction
<1>4. q.blocks = [r.blocks EXCEPT ![b].successor = i.address + i.size]
  <2>1. RemoveRange(r, b) \in Programs(S) /\ RemoveRange(r, b).blocks = r.blocks
    BY <1>1 DEF RemoveRange, Programs
  <2> PICK u : u = RemoveRange(r, b)
    OBVIOUS
  <2> PICK v : v = [u EXCEPT !.blocks[b].successor = i.address + i.size]
    OBVIOUS
  <2>2. v.blocks = [u.blocks EXCEPT ![b].successor = i.address + i.size]
    BY <2>1 DEF Programs
  <2>3. v = [blocks |-> v.blocks, ranges |-> v.ranges, called |-> v.called]
    BY <2>1 DEF Programs
  <2>4. q = AddRange(v, b)
    BY <1>3
  <2>5. q.blocks = v.blocks
    BY <2>3, <2>4 DEF AddRange
  <2> QED BY <2>1, <2>2, <2>5
<1>5. b \in BlocksOf(r) /\ r.blocks[b] \in Blocks(S)
  BY <1>1, ProgramParts DEF Found
<1>6. q.blocks[b].address = r.blocks[b].address
  BY <1>4, <1>5 DEF BlocksOf, Blocks
<1>7. b \notin BlocksOf(p) => r.blocks[b].address = i.address
  BY <1>1 DEF Found, NewBlock
<1>8. b \in BlocksOf(p) => r = p
  OBVIOUS
<1> QED BY <1>1, <1>2, <1>6, <1>7, <1>8 DEF Found, Extended, EndOf

\* Where an instruction begins and ends no other one is in its middle.
LEMMA EdgesCut ==
    ASSUME NEW C \in Codes, Apart(C), NEW i \in C
    PROVE  Cut(C, i.address) /\ Cut(C, EndOf(i))
<1>1. i.address \in Nat /\ i.size \in Nat \ {0} /\ i.address < EndOf(i)
  BY CodeParts DEF EndOf
<1>2. SUFFICES ASSUME NEW j \in C
               PROVE  /\ i.address <= j.address \/ EndOf(j) <= i.address
                      /\ EndOf(i) <= j.address \/ EndOf(j) <= EndOf(i)
  BY DEF Cut
<1>3. j.address \in Nat /\ j.size \in Nat \ {0} /\ j.address < EndOf(j)
  BY CodeParts DEF EndOf
<1>4. CASE i = j
  BY <1>1, <1>4 DEF EndOf
<1>5. CASE i # j
  <2>1. EndOf(i) <= j.address \/ EndOf(j) <= i.address
    BY <1>5 DEF Apart
  <2> QED BY <1>1, <1>3, <2>1 DEF EndOf
<1> QED BY <1>4, <1>5

\* The block of the next instruction covers that one as well.
LEMMA ExtendedTiles ==
    ASSUME NEW C \in Codes, Apart(C), NEW T \in SUBSET C, NEW i \in C, i.kind # "invalid",
           NEW S, NEW p \in Programs(S), Mapped(p), Tiled(C, T, p),
           Before(p.ranges, i.address), EndsBy(p, i.address),
           NEW q, q = ExtendForInstruction(p, i)
    PROVE  Tiled(C, T \cup {i}, q)
<1> PICK b : b = BlockForInstruction(p, i)
  OBVIOUS
<1>1. i.address \in Nat /\ i.size \in Nat \ {0} /\ EndOf(i) \in Nat
  BY CodeParts DEF EndOf
<1>2. /\ BlocksOf(q) = BlocksOf(p) \cup {b} /\ Bound(q, b)
      /\ \A c \in BlocksOf(p) \ {b} : q.blocks[c] = p.blocks[c]
      /\ q.blocks[b].successor = EndOf(i)
      /\ b \in BlocksOf(p) =>
            /\ Bound(p, b) /\ q.blocks[b].address = p.blocks[b].address
            /\ \/ p.blocks[b].address = i.address
               \/ p.blocks[b].address <= i.address /\ i.address <= p.blocks[b].successor
      /\ b \notin BlocksOf(p) => q.blocks[b].address = i.address
  BY <1>1, ExtendedBlock
<1>3. Cut(C, i.address) /\ Cut(C, EndOf(i))
  BY EdgesCut
<1>4. b \in BlocksOf(p) => /\ p.blocks[b].address \in Nat /\ p.blocks[b].address <= i.address
                           /\ p.blocks[b].successor = i.address
  <2> SUFFICES ASSUME b \in BlocksOf(p)
               PROVE  /\ p.blocks[b].address \in Nat /\ p.blocks[b].address <= i.address
                      /\ p.blocks[b].successor = i.address
    OBVIOUS
  <2>1. /\ p.blocks[b].address \in Nat /\ p.blocks[b].successor \in Nat
        /\ p.blocks[b].address <= p.blocks[b].successor
    BY <1>2 DEF Mapped, Located
  <2>2. p.blocks[b].successor <= i.address
    BY <1>2 DEF EndsBy
  <2> QED BY <1>1, <1>2, <2>1, <2>2
<1>5. \A c \in BlocksOf(p) \ {b} : Bound(q, c) <=> Bound(p, c)
  BY <1>2 DEF Bound
<1>6. ASSUME NEW x \in Nat PROVE Covered(q, x) <=> Covered(p, x) \/ (i.address <= x /\ x < EndOf(i))
  <2>1. \A c \in BlocksOf(p) \ {b} : Holds(q, c, x) <=> Holds(p, c, x)
    BY <1>2, <1>5 DEF Holds
  <2>2. Holds(q, b, x) <=> Holds(p, b, x) \/ (i.address <= x /\ x < EndOf(i))
    <3>1. CASE b \in BlocksOf(p)
      BY <1>1, <1>2, <1>4, <3>1 DEF Holds, EndOf
    <3>2. CASE b \notin BlocksOf(p)
      BY <1>2, <3>2 DEF Holds
    <3> QED BY <3>1, <3>2
  <2>3. \A c : (Holds(q, c, x) => c \in BlocksOf(p) \ {b} \/ c = b)
               /\ (Holds(p, c, x) => c \in BlocksOf(p) \ {b} \/ c = b)
    BY <1>2 DEF Holds
  <2> QED BY <2>1, <2>2, <2>3 DEF Covered
<1>7. \A x \in Nat : Occupied(T \cup {i}, x) <=> Occupied(T, x) \/ (i.address <= x /\ x < EndOf(i))
  BY DEF Occupied
<1>8. \A c \in BlocksOf(q) : Bound(q, c) =>
          Cut(C, q.blocks[c].address) /\ Cut(C, q.blocks[c].successor)
  <2> SUFFICES ASSUME NEW c \in BlocksOf(q), Bound(q, c)
               PROVE  Cut(C, q.blocks[c].address) /\ Cut(C, q.blocks[c].successor)
    OBVIOUS
  <2>1. CASE c = b
    BY <1>2, <1>3, <2>1 DEF Tiled
  <2>2. CASE c # b
    BY <1>2, <1>5, <2>2 DEF Tiled
  <2> QED BY <2>1, <2>2
<1> QED BY <1>6, <1>7, <1>8 DEF Tiled
-----------------------------------------------------------------------------
\* What the statement of an instruction is, and the addresses it goes to: behind the
\* instruction, and to the targets once they have been computed.
KindOf(i) == IF i.kind \in {"jump", "switch", "branch", "skip"} THEN "jump" ELSE i.kind

Aims(i, s, a) ==
    \/ i.kind \in {"branch", "skip"} /\ a = EndOf(i)
    \/ s.connected /\ \E n \in DOMAIN i.targets : i.targets[n] = a

Reaches(p, s, a) == \E c \in s.blocks : p.blocks[c].address = a

Stated(p, s, i) ==
    /\ s.instruction = i.address /\ s.targets = i.targets /\ s.kind = KindOf(i)
    /\ s.kind = "jump" => \A a \in Nat : Reaches(p, s, a) <=> Aims(i, s, a)

\* So are all statements, apart from the jumps that are added at the end.
Led(C, p) ==
    \A s : Held(p, s) /\ s.instruction # None => \E i \in Sound(C) : Stated(p, s, i)

\* What is in a block without an address has no targets.
Aimless(p) ==
    \A b \in BlocksOf(p) : ~Bound(p, b) =>
        \A m \in DOMAIN p.blocks[b].statements : p.blocks[b].statements[m].targets = <<>>

Routed(C, T, p) == Tiled(C, T, p) /\ Led(C, p) /\ Aimless(p)

\* The same statements lead where they did while no block moves.
LEMMA LedAlike ==
    ASSUME NEW C, NEW A, NEW p, Known(p, A), Led(C, p), NEW q,
           BlocksOf(p) \subseteq BlocksOf(q),
           \A b \in BlocksOf(p) : q.blocks[b].address = p.blocks[b].address,
           \A s : Held(q, s) /\ s.instruction # None => Held(p, s)
    PROVE  Led(C, q)
<1> SUFFICES ASSUME NEW s, Held(q, s), s.instruction # None
             PROVE  \E i \in Sound(C) : Stated(q, s, i)
  BY DEF Led
<1>1. Held(p, s)
  OBVIOUS
<1>2. s.blocks \subseteq BlocksOf(p)
  BY <1>1 DEF Known, Held, Occurs
<1>3. PICK i \in Sound(C) : Stated(p, s, i)
  BY <1>1 DEF Led
<1>4. \A a : Reaches(q, s, a) <=> Reaches(p, s, a)
  BY <1>2 DEF Reaches
<1> QED BY <1>3, <1>4 DEF Stated

\* What is kept is led as before, and as aimless.
LEMMA KeepsRoutes ==
    ASSUME NEW C, NEW T, NEW A, NEW p, Known(p, A), Routed(C, T, p),
           NEW q, Keeps(p, q), Tiled(C, T, q)
    PROVE  Routed(C, T, q)
<1>1. /\ BlocksOf(p) \subseteq BlocksOf(q)
      /\ \A b \in BlocksOf(p) : /\ q.blocks[b].address = p.blocks[b].address
                                /\ ~Bound(p, b) => q.blocks[b] = p.blocks[b]
      /\ \A b \in BlocksOf(q) \ BlocksOf(p) : Bound(q, b)
      /\ \A s : Held(q, s) <=> Held(p, s)
  BY DEF Keeps
<1>2. Led(C, q)
  BY <1>1, LedAlike DEF Routed
<1>3. Aimless(q)
  <2>1. \A b \in BlocksOf(q) : ~Bound(q, b) => b \in BlocksOf(p) /\ ~Bound(p, b)
    BY <1>1 DEF Bound
  <2> QED BY <1>1, <2>1 DEF Aimless, Routed
<1> QED BY <1>2, <1>3 DEF Routed

\* createBasicBlock() between two instructions.
LEMMA CreateBasicBlockRoutes ==
    ASSUME NEW p, Formed(p), NEW A, Known(p, A), NEW a \in Nat,
           NEW C, NEW T, Cut(C, a), Routed(C, T, p), NEW q, q = CreateBasicBlock(p, a)
    PROVE  Routed(C, T, q) /\ Keeps(p, q)
<1>1. p \in Programs(StatementRecords) /\ Mapped(p)
  BY DEF Formed
<1>2. \A s \in StatementRecords : s.instruction \in Nat \cup {None}
  BY RecordParts
<1>3. Keeps(p, q)
  BY <1>1, <1>2, CreateBasicBlockKeeps
<1>4. Tiled(C, T, q)
  BY <1>1, CreateBasicBlockTiles DEF Routed
<1> QED BY <1>3, <1>4, KeepsRoutes

\* createBasicBlock() for each target of a jump or call.
LEMMA CreateBasicBlocksRoutes ==
    ASSUME NEW p, Formed(p), NEW A, Known(p, A), NEW targets \in Seq(Nat),
           NEW C, NEW T, \A n \in DOMAIN targets : Cut(C, targets[n]), Routed(C, T, p),
           NEW q, q = CreateBasicBlocks(p, targets)
    PROVE  Routed(C, T, q) /\ Keeps(p, q) /\ Started(q, targets)
<1> PICK k : k = Len(targets)
  OBVIOUS
<1>1. k \in Nat /\ DOMAIN targets = 1..k /\ \A n \in 1..k : targets[n] \in Nat
  OBVIOUS
<1> PICK created : created = CHOOSE g : Sequence(g, p, targets, k)
  OBVIOUS
<1>2. Sequence(created, p, targets, k)
  BY <1>1, SequenceExists
<1>3. q = created[k]
  BY DEF CreateBasicBlocks, Sequence
<1>4. created[0] = p /\ \A n \in 1..k : created[n] = CreateBasicBlock(created[n - 1], targets[n])
  <2>1. \A n \in 0..k : created[n] = IF n = 0 THEN p ELSE CreateBasicBlock(created[n - 1], targets[n])
    BY <1>2 DEF Sequence
  <2>2. 0 \in 0..k /\ \A n \in 1..k : n \in 0..k /\ n # 0
    BY <1>1
  <2> QED BY <2>1, <2>2
<1>5. /\ p \in Programs(StatementRecords) /\ Mapped(p)
      /\ \A s \in StatementRecords : s.instruction \in Nat \cup {None}
  BY RecordParts DEF Formed
<1> DEFINE Good(n) == Grown(StatementRecords, p, created[n]) /\ Tiled(C, T, created[n])
           Bad == {n \in 0..k : ~Good(n)}
<1>6. ASSUME NEW m \in Bad, \A n \in Bad : m <= n PROVE FALSE
  <2>1. m # 0
    <3>1. Grown(StatementRecords, p, p)
      BY <1>5, KeepsReflexive DEF Grown
    <3> QED BY <1>4, <1>6, <3>1 DEF Routed
  <2>2. m \in 1..k /\ m - 1 \in 0..k /\ m - 1 \notin Bad
    <3>1. m \in 0..k
      BY <1>6
    <3>2. m \in 1..k /\ m - 1 \in 0..k /\ ~(m <= m - 1)
      BY <1>1, <2>1, <3>1
    <3> HIDE DEF Bad
    <3> QED BY <1>6, <3>2
  <2> PICK r : r = created[m - 1]
    OBVIOUS
  <2> PICK t : t = created[m]
    OBVIOUS
  <2> PICK a : a = targets[m]
    OBVIOUS
  <2>3. Grown(StatementRecords, p, r) /\ Tiled(C, T, r)
    BY <2>2
  <2>4. /\ r \in Programs(StatementRecords) /\ Mapped(r)
        /\ t = CreateBasicBlock(r, a) /\ a \in Nat /\ Cut(C, a)
    BY <1>1, <1>4, <2>2, <2>3 DEF Grown
  <2>5. Grown(StatementRecords, r, t)
    BY <1>5, <2>4, CreateBasicBlockGrows
  <2>6. Grown(StatementRecords, p, t)
    BY <2>3, <2>5, GrownFurther
  <2>7. Tiled(C, T, t)
    BY <2>3, <2>4, CreateBasicBlockTiles
  <2> QED BY <1>6, <2>6, <2>7
<1>7. Bad = {}
  <2> SUFFICES ASSUME Bad # {} PROVE FALSE
    OBVIOUS
  <2>1. Bad \subseteq Nat
    BY <1>1
  <2> HIDE DEF Bad
  <2> QED BY <1>6, <2>1, Least
<1>8. Keeps(p, q) /\ Tiled(C, T, q)
  <2>1. k \in 0..k
    BY <1>1
  <2> QED BY <1>3, <1>7, <2>1 DEF Grown
<1>9. Started(q, targets)
  BY <1>5, CreateBasicBlocksKeeps DEF Started
<1> QED BY <1>8, <1>9, KeepsRoutes
-----------------------------------------------------------------------------
(* While instructions are translated. *)

\* A statement is added: that of an instruction, or one beside it that has no targets.
LEMMA AddedStatementRoutes ==
    ASSUME NEW r \in Programs(StatementRecords), NEW q \in Programs(StatementRecords),
           NEW b \in BlocksOf(r), NEW s \in StatementRecords, StatementAdded(r, q, b, s),
           NEW A, Known(r, A), NEW C, NEW T, Routed(C, T, r), s.blocks \subseteq BlocksOf(r),
           Bound(r, b) /\ s.instruction # None => \E i \in Sound(C) : Stated(r, s, i),
           ~Bound(r, b) => s.targets = <<>>
    PROVE  Routed(C, T, q)
<1>1. /\ BlocksOf(q) = BlocksOf(r)
      /\ \A c \in BlocksOf(r) \ {b} : q.blocks[c] = r.blocks[c]
      /\ \A c \in BlocksOf(r) : /\ q.blocks[c].address = r.blocks[c].address
                               /\ q.blocks[c].successor = r.blocks[c].successor
  BY DEF StatementAdded
<1>2. Tiled(C, T, q)
  <2>1. Tiled(C, T, r)
    BY DEF Routed
  <2>2. \A c : (c \in BlocksOf(q) /\ Bound(q, c)) <=> (c \in BlocksOf(r) /\ Bound(r, c))
    BY <1>1 DEF Bound
  <2>3. \A c \in BlocksOf(r) : Bound(r, c) =>
            /\ q.blocks[c].address = r.blocks[c].address
            /\ q.blocks[c].successor = r.blocks[c].successor
    BY <1>1
  <2> QED BY <2>1, <2>2, <2>3, TiledAlike
<1>3. \A t : Held(q, t) <=> Held(r, t) \/ (Bound(r, b) /\ t = s)
  BY AddedStatementHeld
<1>4. Led(C, q)
  <2> SUFFICES ASSUME NEW t, Held(q, t), t.instruction # None
               PROVE  \E i \in Sound(C) : Stated(q, t, i)
    BY DEF Led
  <2>1. t.blocks \subseteq BlocksOf(r) /\ \E i \in Sound(C) : Stated(r, t, i)
    <3>1. CASE Held(r, t)
      BY <3>1 DEF Known, Held, Occurs, Routed, Led
    <3>2. CASE Bound(r, b) /\ t = s
      BY <3>2
    <3> QED BY <1>3, <3>1, <3>2
  <2>2. \A c \in t.blocks : q.blocks[c].address = r.blocks[c].address
    <3>1. \A c \in BlocksOf(r) : q.blocks[c].address = r.blocks[c].address
      BY <1>1
    <3>2. t.blocks \subseteq BlocksOf(r)
      BY <2>1
    <3> QED BY <3>1, <3>2
  <2>3. \A a : Reaches(q, t, a) <=> Reaches(r, t, a)
    BY <2>2 DEF Reaches
  <2> QED BY <2>1, <2>3 DEF Stated
<1>5. Aimless(q)
  <2>1. LongerBy(r.blocks[b].statements, q.blocks[b].statements, s)
    BY LongerStatements
  <2>2. \A m \in DOMAIN q.blocks[b].statements :
            \/ q.blocks[b].statements[m] = s
            \/ /\ m \in DOMAIN r.blocks[b].statements
               /\ q.blocks[b].statements[m] = r.blocks[b].statements[m]
    BY <2>1 DEF LongerBy
  <2>3. \A c \in BlocksOf(r) : Bound(q, c) <=> Bound(r, c)
    BY <1>1 DEF Bound
  <2> QED BY <1>1, <2>2, <2>3 DEF Aimless, Routed
<1> QED BY <1>2, <1>4, <1>5 DEF Routed

\* A block without an address.
LEMMA SideBlockRoutes ==
    ASSUME NEW r, Formed(r), NEW A, Known(r, A), NEW C, NEW T, Routed(C, T, r),
           NEW q, q = AddBlock(r, None)
    PROVE  Routed(C, T, q)
<1> PICK n : n = Len(r.blocks) + 1
  OBVIOUS
<1> PICK x : x = None
  OBVIOUS
<1>1. r \in Programs(StatementRecords)
  BY DEF Formed
<1>2. /\ BlocksOf(q) = BlocksOf(r) \cup {n} /\ n \notin BlocksOf(r)
      /\ \A c \in BlocksOf(r) : q.blocks[c] = r.blocks[c]
      /\ q.blocks[n] = NewBlock(None)
  <2>1. x \in Nat \cup {None} /\ q = AddBlock(r, x) /\ n = Len(r.blocks) + 1
    OBVIOUS
  <2>2. /\ BlocksOf(q) = BlocksOf(r) \cup {n} /\ n \notin BlocksOf(r)
        /\ \A c \in BlocksOf(r) : q.blocks[c] = r.blocks[c]
        /\ q.blocks[n] = NewBlock(x)
    BY ONLY <1>1, <2>1, AddBlockParts
  <2> QED BY <2>2
<1>3. ~Bound(q, n) /\ q.blocks[n].statements = <<>>
  BY <1>2 DEF Bound, NewBlock
<1>4. \A c \in BlocksOf(r) : Bound(q, c) <=> Bound(r, c)
  BY <1>2 DEF Bound
<1>5. Tiled(C, T, q)
  BY <1>2, <1>3, <1>4, TiledAlike DEF Routed
<1>6. \A s : Held(q, s) => Held(r, s)
  BY <1>2, <1>3, <1>4 DEF Held
<1>7. Led(C, q)
  BY <1>2, <1>6, LedAlike DEF Routed
<1>8. Aimless(q)
  BY <1>2, <1>3, <1>4 DEF Aimless, Routed
<1> QED BY <1>5, <1>7, <1>8 DEF Routed

\* The block of the next instruction.
LEMMA ExtendedRoutes ==
    ASSUME NEW C \in Codes, Apart(C), NEW T \in SUBSET C, NEW i \in C, i.kind # "invalid",
           NEW p, Formed(p), NEW A, Known(p, A), Routed(C, T, p),
           Before(p.ranges, i.address), EndsBy(p, i.address),
           NEW q, q = ExtendForInstruction(p, i)
    PROVE  Routed(C, T \cup {i}, q)
<1> PICK b : b = BlockForInstruction(p, i)
  OBVIOUS
<1>1. p \in Programs(StatementRecords) /\ Mapped(p)
  BY DEF Formed
<1>2. i.address \in Nat /\ i.size \in Nat \ {0}
  BY CodeParts
<1>3. Extended(p, q, b, i)
  BY <1>1, <1>2, ExtendsBlock
<1>4. /\ BlocksOf(q) = BlocksOf(p) \cup {b} /\ Bound(q, b)
      /\ \A c \in BlocksOf(p) \ {b} : q.blocks[c] = p.blocks[c]
      /\ b \in BlocksOf(p) => /\ q.blocks[b].address = p.blocks[b].address
                              /\ q.blocks[b].statements = p.blocks[b].statements
      /\ b \notin BlocksOf(p) => q.blocks[b].statements = <<>>
  BY <1>3 DEF Extended
<1>5. \A c \in BlocksOf(p) : Bound(q, c) <=> Bound(p, c)
  BY <1>4 DEF Bound
<1>6. \A s : Held(q, s) => Held(p, s)
  BY <1>4, <1>5 DEF Held
<1>7. Led(C, q)
  BY <1>4, <1>6, LedAlike DEF Routed
<1>8. Tiled(C, T \cup {i}, q)
  BY <1>1, ExtendedTiles DEF Routed
<1>9. Aimless(q)
  BY <1>4, <1>5 DEF Aimless, Routed
<1> QED BY <1>7, <1>8, <1>9 DEF Routed

\* The statement of an instruction as it is made for it.
LEMMA StatedFirst ==
    ASSUME NEW i, NEW p, NEW kind, kind = KindOf(i), NEW targets, targets = i.targets, NEW blocks,
           kind = "jump" => \A a \in Nat :
               (\E c \in blocks : p.blocks[c].address = a) <=> i.kind \in {"branch", "skip"} /\ a = EndOf(i),
           NEW s, s = Statement(i, kind, targets, blocks)
    PROVE  Stated(p, s, i)
<1>1. /\ s.instruction = i.address /\ s.targets = i.targets /\ s.kind = KindOf(i)
      /\ s.connected = FALSE /\ s.blocks = blocks
  BY DEF Statement
<1> QED BY <1>1 DEF Stated, Reaches, Aims

\* The block behind an instruction.
LEMMA SuccessorRoutes ==
    ASSUME NEW C \in Codes, Apart(C), NEW i \in C, NEW r, Formed(r), NEW A, Known(r, A),
           NEW T, Routed(C, T, r), NEW q, q = WithSuccessor(r, i)
    PROVE  /\ Routed(C, T, q)
           /\ DirectSuccessor(q, i) \in BlocksOf(q)
           /\ q.blocks[DirectSuccessor(q, i)].address = EndOf(i)
<1>1. EndOf(i) \in Nat /\ Cut(C, EndOf(i))
  BY CodeParts, EdgesCut DEF EndOf
<1>2. q = CreateBasicBlock(r, EndOf(i))
  BY DEF WithSuccessor
<1>3. r \in Programs(StatementRecords) /\ Mapped(r)
      /\ \A s \in StatementRecords : s.instruction \in Nat \cup {None}
  BY RecordParts DEF Formed
<1>4. StartingAt(q, EndOf(i)) # {}
  BY <1>1, <1>2, <1>3, CreateBasicBlockKeeps
<1>5. DirectSuccessor(q, i) \in StartingAt(q, EndOf(i))
  BY <1>4 DEF DirectSuccessor, The
<1>6. Routed(C, T, q)
  BY <1>1, <1>2, CreateBasicBlockRoutes
<1> QED BY <1>5, <1>6 DEF StartingAt

\* The statement of the instruction in its block.
LEMMA MainStatementRoutes ==
    ASSUME NEW p, NEW i, i.address \in Nat, NEW A \in SUBSET Nat, \A a \in A : a < i.address,
           NEW r, Translating(p, r, i, A), NEW b, Holds(r, b, i.address),
           NEW C, NEW T, Routed(C, T, r), i \in Sound(C),
           NEW s \in StatementRecords, s.blocks \subseteq BlocksOf(r), Stated(r, s, i), Forked(s),
           NEW q, q = AddStatement(r, b, s)
    PROVE  Routed(C, T, q)
<1>1. s.instruction = i.address
  BY DEF Stated
<1>2. Translating(p, q, i, A \cup {i.address}) /\ StatementAdded(r, q, b, s)
  BY <1>1, InstructionGetsStatement
<1>3. /\ r \in Programs(StatementRecords) /\ q \in Programs(StatementRecords)
      /\ Known(r, A) /\ b \in BlocksOf(r) /\ Bound(r, b)
  BY <1>2 DEF Translating, Formed, Holds
<1> QED BY <1>2, <1>3, AddedStatementRoutes

\* The statements in a block without an address.
LEMMA SideStatementsRoute ==
    ASSUME NEW r \in Programs(StatementRecords), NEW A, Known(r, A),
           NEW C, NEW T, Routed(C, T, r), NEW b \in BlocksOf(r), ~Bound(r, b),
           NEW s \in StatementRecords, s.instruction \in A, s.targets = <<>>, s.blocks \subseteq BlocksOf(r),
           NEW t \in StatementRecords, t.targets = <<>>, t.blocks \subseteq BlocksOf(r),
           NEW q, q = AddStatement(AddStatement(r, b, s), b, t)
    PROVE  Routed(C, T, q)
<1> PICK u : u = AddStatement(r, b, s)
  OBVIOUS
<1>1. u \in Programs(StatementRecords) /\ StatementAdded(r, u, b, s)
  BY AddStatementParts
<1>2. Routed(C, T, u)
  BY <1>1, AddedStatementRoutes
<1>3. BlocksOf(u) = BlocksOf(r) /\ u.blocks[b].address = r.blocks[b].address
  BY <1>1 DEF StatementAdded
<1>4. Known(u, A)
  <2>1. \A x : Occurs(u, x) <=> Occurs(r, x) \/ x = s
    BY <1>1, AddedStatementMaps
  <2> QED BY <1>3, <2>1 DEF Known
<1>5. b \in BlocksOf(u) /\ ~Bound(u, b) /\ t.blocks \subseteq BlocksOf(u)
  BY <1>3 DEF Bound
<1>6. q = AddStatement(u, b, t)
  OBVIOUS
<1>7. q \in Programs(StatementRecords) /\ StatementAdded(u, q, b, t)
  BY <1>1, <1>5, <1>6, AddStatementParts
<1> QED BY <1>1, <1>2, <1>4, <1>5, <1>7, AddedStatementRoutes

\* A conditional effect: the jump in the block of the instruction goes behind it and beside it.
LEMMA EffectRoutes ==
    ASSUME NEW C \in Codes, Apart(C), NEW i \in Sound(C), i.kind = "skip", i.targets = <<>>,
           NEW p, NEW A \in SUBSET Nat, \A a \in A : a < i.address,
           NEW r, Translating(p, r, i, A), NEW b, Holds(r, b, i.address),
           NEW T, Routed(C, T, r), NEW q, q = WithEffect(i, r, b)
    PROVE  Routed(C, T, q)
<1>1. PICK side : side = LastBlock(r) + 1
  OBVIOUS
<1>2. PICK u : u = AddBlock(r, None)
  OBVIOUS
<1>3. PICK t : t = WithSuccessor(u, i)
  OBVIOUS
<1>4. PICK next : next = DirectSuccessor(t, i)
  OBVIOUS
<1>5. PICK both : both = {side, next}
  OBVIOUS
<1>6. PICK one : one = {next}
  OBVIOUS
<1>7. PICK nothing : nothing = <<>>
  OBVIOUS
<1>8. PICK none : none = {}
  OBVIOUS
<1>9. PICK jump : jump = Statement(i, "jump", nothing, both)
  OBVIOUS
<1>10. PICK v : v = AddStatement(t, b, jump)
  OBVIOUS
<1>11. PICK effect : effect = Statement(i, "plain", nothing, none)
  OBVIOUS
<1>12. PICK back : back = Statement(i, "jump", nothing, one)
  OBVIOUS
<1>13. q = AddStatement(AddStatement(v, side, effect), side, back)
  BY <1>1, <1>2, <1>3, <1>4, <1>5, <1>6, <1>7, <1>8, <1>9, <1>10, <1>11, <1>12, Zenon DEF WithEffect
<1>14. i \in C /\ i.address \in Nat /\ i.size \in Nat \ {0} /\ EndOf(i) \in Nat
  BY CodeParts DEF Sound, EndOf
<1>15. /\ Translating(p, u, i, A) /\ Holds(u, b, i.address)
       /\ Fresh(u, side) /\ side \in Nat
  BY <1>1, <1>2, InstructionGetsSideBlock
<1>16. /\ Translating(p, t, i, A) /\ Holds(t, b, i.address) /\ BlocksAdded(u, t)
       /\ next \in BlocksOf(t) /\ Bound(t, next)
  BY <1>3, <1>4, <1>14, <1>15, InstructionGetsSuccessor
<1>17. Fresh(t, side)
  BY <1>15, <1>16 DEF BlocksAdded, Bound, Fresh
<1>18. Routed(C, T, u)
  BY <1>2, SideBlockRoutes DEF Translating
<1>19. Routed(C, T, t) /\ t.blocks[next].address = EndOf(i)
  BY <1>3, <1>4, <1>14, <1>15, <1>18, SuccessorRoutes DEF Translating
<1>20. both \in SUBSET Nat /\ one \in SUBSET Nat /\ none \in SUBSET Nat /\ nothing \in Seq(Nat)
  <2>1. t \in Programs(StatementRecords)
    BY <1>16 DEF Translating, Formed
  <2>2. next \in Nat
    BY <1>16, <2>1, ProgramParts
  <2> QED BY <1>5, <1>6, <1>7, <1>8, <1>15, <2>2
<1>21. "jump" \in StatementKinds /\ "plain" \in StatementKinds
  BY DEF StatementKinds
<1>22. /\ jump \in StatementRecords /\ jump.instruction = i.address /\ jump.blocks = both
       /\ jump.kind = "jump"
  BY <1>9, <1>14, <1>20, <1>21, StatementParts
<1>23. /\ effect \in StatementRecords /\ effect.instruction = i.address /\ effect.kind = "plain"
       /\ effect.blocks = none /\ effect.targets = nothing
  BY <1>11, <1>14, <1>20, <1>21, StatementParts
<1>24. /\ back \in StatementRecords /\ back.instruction = i.address /\ back.blocks = one
       /\ back.targets = nothing
  BY <1>12, <1>14, <1>20, <1>21, StatementParts
<1>25. jump.blocks \subseteq BlocksOf(t)
  BY <1>5, <1>16, <1>17, <1>22 DEF Fresh
<1>26. Forked(jump)
  <2>1. side # next
    BY <1>16, <1>17 DEF Fresh
  <2>2. Cardinality(both) # 1
    BY <1>5, <2>1, NotOne
  <2> QED BY <1>22, <2>2 DEF Forked
<1>27. Stated(t, jump, i)
  <2>1. "jump" = KindOf(i)
    BY DEF KindOf
  <2>2. \A a \in Nat : (\E c \in both : t.blocks[c].address = a)
                        <=> i.kind \in {"branch", "skip"} /\ a = EndOf(i)
    <3>1. t.blocks[side].address = None
      BY <1>17 DEF Fresh, Bound
    <3>2. \A a \in Nat : a # None
      BY DEF None
    <3> QED BY <1>5, <1>19, <3>1, <3>2
  <2>3. nothing = i.targets
    BY <1>7
  <2> QED BY <1>9, <2>1, <2>2, <2>3, StatedFirst
<1>28. Translating(p, v, i, A \cup {i.address}) /\ StatementAdded(t, v, b, jump)
  BY <1>10, <1>14, <1>16, <1>22, <1>25, <1>26, InstructionGetsStatement
<1>29. Routed(C, T, v)
  BY <1>10, <1>14, <1>16, <1>19, <1>22, <1>25, <1>26, <1>27, MainStatementRoutes
<1>30. BlocksOf(v) = BlocksOf(t) /\ side # b /\ v.blocks[side] = t.blocks[side]
  BY <1>16, <1>17, <1>28 DEF StatementAdded, Holds, Fresh
<1>31. side \in BlocksOf(v) /\ ~Bound(v, side)
  BY <1>17, <1>30 DEF Bound, Fresh
<1>32. effect.blocks \subseteq BlocksOf(v) /\ back.blocks \subseteq BlocksOf(v)
  BY <1>6, <1>8, <1>16, <1>23, <1>24, <1>30
<1>33. v \in Programs(StatementRecords) /\ Known(v, A \cup {i.address})
  BY <1>28 DEF Translating, Formed
<1>34. effect.instruction \in A \cup {i.address} /\ effect.targets = <<>> /\ back.targets = <<>>
  BY <1>7, <1>23, <1>24
<1> QED BY <1>13, <1>23, <1>24, <1>29, <1>31, <1>32, <1>33, <1>34, SideStatementsRoute

\* What is assumed of the targets of instructions.
LEMMA TargetsAssumed ==
    ASSUME NEW C \in Codes
    PROVE  \A i \in C :
               /\ i.kind \in {"jump", "branch"} => Len(i.targets) = 1
               /\ i.kind \in {"plain", "skip", "return", "invalid", "failing"} => i.targets = <<>>
BY CodesAssumption DEF IsCode

\* Whatever its kind, the instruction is led where it goes.
LEMMA StatementsRoute ==
    ASSUME NEW C \in Codes, Apart(C), NEW T \in SUBSET C, NEW i \in C, i.kind # "invalid",
           NEW p, Formed(p), NEW A \in SUBSET Nat, \A a \in A : a < i.address,
           Known(p, A), Kept(p, A), Before(p.ranges, i.address), EndsBy(p, i.address),
           Routed(C, T, p),
           NEW q, q = Statements(i, ExtendForInstruction(p, i), BlockForInstruction(p, i))
    PROVE  Routed(C, T \cup {i}, q)
<1> PICK b : b = BlockForInstruction(p, i)
  OBVIOUS
<1> PICK r : r = ExtendForInstruction(p, i)
  OBVIOUS
<1> PICK U : U = T \cup {i}
  OBVIOUS
<1>1. /\ i.address \in Nat /\ i.size \in Nat \ {0} /\ EndOf(i) \in Nat /\ i.kind \in Kinds
      /\ i.targets \in Seq(Nat) /\ (i.kind = "branch" => i.targets # <<>>)
  BY CodeParts DEF EndOf
<1>2. Translating(p, r, i, A) /\ Holds(r, b, i.address)
  BY <1>1, InstructionGetsBlock
<1>3. Routed(C, U, r)
  BY ExtendedRoutes
<1>4. q = Statements(i, r, b)
  OBVIOUS
<1>5. {} \in SUBSET Nat
  OBVIOUS
<1>6. CASE i.kind = "failing"
  BY <1>3, <1>4, <1>6 DEF Statements
<1>7. CASE i.kind \in {"plain", "call", "return"}
  <2> PICK s : s = Statement(i, i.kind, i.targets, {})
    OBVIOUS
  <2>1. q = AddStatement(r, b, s)
    BY <1>4, <1>7 DEF Statements
  <2>2. i.kind \in StatementKinds /\ i.kind = KindOf(i) /\ i.kind # "jump" /\ i \in Sound(C)
    BY <1>7 DEF StatementKinds, KindOf, Sound
  <2>3. s \in StatementRecords /\ s.blocks = {} /\ s.kind = i.kind
    BY <1>1, <1>5, <2>2, StatementParts
  <2>4. s.blocks \subseteq BlocksOf(r) /\ Forked(s)
    BY <2>2, <2>3 DEF Forked
  <2>5. Stated(r, s, i)
    BY <2>2, StatedFirst
  <2> QED BY <1>1, <1>2, <1>3, <2>1, <2>2, <2>3, <2>4, <2>5, MainStatementRoutes
<1>8. CASE i.kind \in {"jump", "switch"}
  <2> PICK s : s = Statement(i, "jump", i.targets, {})
    OBVIOUS
  <2>1. q = AddStatement(r, b, s)
    BY <1>4, <1>8 DEF Statements
  <2>2. "jump" \in StatementKinds /\ "jump" = KindOf(i) /\ i \in Sound(C)
    BY <1>8 DEF StatementKinds, KindOf, Sound
  <2>3. s \in StatementRecords /\ s.blocks = {}
    BY <1>1, <1>5, <2>2, StatementParts
  <2>4. Cardinality(s.blocks) # 1
    BY <2>3, NotOne
  <2>5. s.blocks \subseteq BlocksOf(r) /\ Forked(s)
    BY <2>3, <2>4 DEF Forked
  <2>6. Stated(r, s, i)
    <3>1. i.kind \notin {"branch", "skip"}
      BY <1>8
    <3> QED BY <2>2, <3>1, StatedFirst
  <2> QED BY <1>1, <1>2, <1>3, <2>1, <2>2, <2>3, <2>5, <2>6, MainStatementRoutes
<1>9. CASE i.kind = "branch"
  <2> PICK t : t = WithSuccessor(r, i)
    OBVIOUS
  <2> PICK next : next = DirectSuccessor(t, i)
    OBVIOUS
  <2> PICK one : one = {next}
    OBVIOUS
  <2> PICK s : s = Statement(i, "jump", i.targets, one)
    OBVIOUS
  <2>1. q = AddStatement(t, b, s)
    BY <1>4, <1>9 DEF Statements
  <2>2. Translating(p, t, i, A) /\ Holds(t, b, i.address)
    BY <1>1, <1>2, InstructionGetsSuccessor
  <2>3. Routed(C, U, t) /\ next \in BlocksOf(t) /\ t.blocks[next].address = EndOf(i)
    BY <1>2, <1>3, SuccessorRoutes DEF Translating
  <2>4. one \in SUBSET Nat
    <3>1. t \in Programs(StatementRecords)
      BY <2>2 DEF Translating, Formed
    <3> QED BY <2>3, <3>1, ProgramParts
  <2>5. "jump" \in StatementKinds /\ "jump" = KindOf(i) /\ i \in Sound(C)
    BY <1>9 DEF StatementKinds, KindOf, Sound
  <2>6. s \in StatementRecords /\ s.blocks = one /\ s.targets = i.targets
    BY <1>1, <2>4, <2>5, StatementParts
  <2>7. s.blocks \subseteq BlocksOf(t) /\ Forked(s)
    BY <1>1, <1>9, <2>3, <2>6 DEF Forked
  <2>8. Stated(t, s, i)
    <3>1. \A a \in Nat : (\E c \in one : t.blocks[c].address = a)
                          <=> i.kind \in {"branch", "skip"} /\ a = EndOf(i)
      BY <1>9, <2>3
    <3>2. "jump" = KindOf(i) /\ i.targets = i.targets
      BY <2>5
    <3>3. s = Statement(i, "jump", i.targets, one)
      OBVIOUS
    <3> QED BY ONLY <3>1, <3>2, <3>3, StatedFirst
  <2> QED BY <1>1, <2>1, <2>2, <2>3, <2>5, <2>6, <2>7, <2>8, MainStatementRoutes
<1>10. CASE i.kind = "skip"
  <2>1. q = WithEffect(i, r, b)
    BY <1>4, <1>10 DEF Statements, WithEffect
  <2>2. i \in Sound(C) /\ i.targets = <<>>
    BY <1>10, TargetsAssumed DEF Sound
  <2> QED BY <1>2, <1>3, <1>10, <2>1, <2>2, EffectRoutes
<1> QED BY <1>1, <1>6, <1>7, <1>8, <1>9, <1>10 DEF Kinds

\* createStatements(): one instruction more, the next one by address.
LEMMA RoutesNext ==
    ASSUME NEW C \in Codes, Apart(C), NEW T \in SUBSET C, NEW p, Generated(C, p, T), Routed(C, T, p),
           NEW i \in C \ T, \A k \in C \ T : i.address <= k.address,
           NEW q, q = IF i.kind = "invalid" THEN p
                      ELSE Statements(i, ExtendForInstruction(p, i), BlockForInstruction(p, i))
    PROVE  Routed(C, T \cup {i}, q)
<1> PICK A : A = Addresses(Sound(T))
  OBVIOUS
<1>1. i.address \in Nat /\ i.size \in Nat \ {0}
  BY CodeParts
<1>2. \A j \in T : j.address \in Nat /\ j.address < i.address
  BY CodeParts DEF Generated, InOrder
<1>3. A \in SUBSET Nat /\ \A x \in A : x < i.address
  BY <1>2 DEF Addresses, Sound
<1>4. Formed(p) /\ Known(p, A) /\ Kept(p, A)
  BY DEF Generated
<1>5. Before(p.ranges, i.address)
  <2> SUFFICES ASSUME NEW e \in p.ranges, e.range[1] < e.range[2] PROVE e.range[1] < i.address
    BY DEF Before
  <2>1. e.range[1] \in Nat
    BY <1>4, ProgramParts DEF Entries, Formed
  <2>2. PICK j \in T : e.range[1] <= j.address
    BY DEF Generated, Reached
  <2> QED BY <1>1, <1>2, <2>1, <2>2
<1>6. EndsBy(p, i.address)
  <2> SUFFICES ASSUME NEW c \in BlocksOf(p), Bound(p, c) PROVE p.blocks[c].successor <= i.address
    BY DEF EndsBy
  <2>1. PICK j \in T : p.blocks[c].successor <= EndOf(j)
    BY DEF Generated, Ended
  <2>2. p.blocks[c].successor \in Nat
    BY <1>4 DEF Formed, Mapped, Located
  <2>3. EndOf(j) <= i.address \/ EndOf(i) <= j.address
    BY DEF Apart
  <2>4. j.size \in Nat /\ j.address \in Nat /\ j.address < i.address
    BY <1>2, CodeParts
  <2> QED BY <1>1, <2>1, <2>2, <2>3, <2>4 DEF EndOf
<1>7. CASE i.kind = "invalid"
  <2>1. \A a : Occupied(T \cup {i}, a) <=> Occupied(T, a)
    BY <1>7 DEF Occupied
  <2> QED BY <1>7, <2>1 DEF Routed, Tiled
<1>8. CASE i.kind # "invalid"
  BY <1>3, <1>4, <1>5, <1>6, <1>8, StatementsRoute
<1> QED BY <1>7, <1>8
-----------------------------------------------------------------------------
(* While jump targets are computed. *)

\* The statement t is s, or what has become of it.
Onward(s, t) ==
    /\ t.kind = s.kind /\ t.instruction = s.instruction /\ t.targets = s.targets
    /\ s.connected => t.connected

\* From p to q statements have stayed, moved to new blocks or been connected.
Advanced(p, q) ==
    /\ BlocksOf(p) \subseteq BlocksOf(q)
    /\ \A c \in BlocksOf(p) :
          /\ q.blocks[c].address = p.blocks[c].address
          /\ \A m \in DOMAIN q.blocks[c].statements :
                /\ m \in DOMAIN p.blocks[c].statements
                /\ Onward(p.blocks[c].statements[m], q.blocks[c].statements[m])

\* What is kept has stayed or moved.
LEMMA KeepsAdvances ==
    ASSUME NEW p, NEW q, Keeps(p, q)
    PROVE  Advanced(p, q)
BY DEF Keeps, Advanced, Onward

\* Two such changes are one.
LEMMA AdvancedFurther ==
    ASSUME NEW p, NEW q, NEW r, Advanced(p, q), Advanced(q, r)
    PROVE  Advanced(p, r)
<1> SUFFICES ASSUME NEW c \in BlocksOf(p)
             PROVE  /\ c \in BlocksOf(r) /\ r.blocks[c].address = p.blocks[c].address
                    /\ \A m \in DOMAIN r.blocks[c].statements :
                          /\ m \in DOMAIN p.blocks[c].statements
                          /\ Onward(p.blocks[c].statements[m], r.blocks[c].statements[m])
  BY DEF Advanced
<1>1. c \in BlocksOf(q) /\ c \in BlocksOf(r) /\ r.blocks[c].address = p.blocks[c].address
  BY DEF Advanced
<1>2. ASSUME NEW m \in DOMAIN r.blocks[c].statements
      PROVE  /\ m \in DOMAIN p.blocks[c].statements
             /\ Onward(p.blocks[c].statements[m], r.blocks[c].statements[m])
  <2>1. /\ m \in DOMAIN q.blocks[c].statements
        /\ Onward(q.blocks[c].statements[m], r.blocks[c].statements[m])
    BY <1>1, <1>2 DEF Advanced
  <2>2. /\ m \in DOMAIN p.blocks[c].statements
        /\ Onward(p.blocks[c].statements[m], q.blocks[c].statements[m])
    BY <2>1 DEF Advanced
  <2> QED BY <2>1, <2>2 DEF Onward
<1> QED BY <1>1, <1>2

\* Another statement in the place of one.
LEMMA WithStatementParts ==
    ASSUME NEW p \in Programs(StatementRecords),
           NEW b \in BlocksOf(p), NEW m \in DOMAIN p.blocks[b].statements,
           NEW t \in StatementRecords, NEW q, q = WithStatement(p, b, m, t)
    PROVE  /\ BlocksOf(q) = BlocksOf(p)
           /\ \A c \in BlocksOf(p) : /\ q.blocks[c].address = p.blocks[c].address
                                     /\ q.blocks[c].successor = p.blocks[c].successor
                                     /\ DOMAIN q.blocks[c].statements = DOMAIN p.blocks[c].statements
           /\ q.blocks[b].statements[m] = t
           /\ \A c \in BlocksOf(p) : \A l \in DOMAIN p.blocks[c].statements :
                 (c # b \/ l # m) => q.blocks[c].statements[l] = p.blocks[c].statements[l]
<1> PICK ss : ss = p.blocks[b].statements
  OBVIOUS
<1> PICK tt : tt = [ss EXCEPT ![m] = t]
  OBVIOUS
<1> PICK old : old = p.blocks[b]
  OBVIOUS
<1> PICK new : new = [old EXCEPT !.statements = tt]
  OBVIOUS
<1>1. /\ old \in Blocks(StatementRecords) /\ ss \in Seq(StatementRecords)
      /\ p.blocks \in Seq(Blocks(StatementRecords)) /\ BlocksOf(p) = DOMAIN p.blocks
  BY ProgramParts DEF BlocksOf
<1>2. /\ tt \in Seq(StatementRecords) /\ DOMAIN tt = DOMAIN ss
      /\ tt[m] = t /\ \A l \in DOMAIN ss \ {m} : tt[l] = ss[l]
  BY <1>1
<1>3. /\ new \in Blocks(StatementRecords) /\ new.address = old.address
      /\ new.successor = old.successor /\ new.statements = tt
  BY <1>1, <1>2 DEF Blocks
<1>4. q = [p EXCEPT !.blocks = [p.blocks EXCEPT ![b] = new]]
  BY <1>1 DEF WithStatement
<1> PICK blocks : blocks = [p.blocks EXCEPT ![b] = new]
  OBVIOUS
<1>5. /\ blocks \in Seq(Blocks(StatementRecords)) /\ DOMAIN blocks = DOMAIN p.blocks
      /\ blocks[b] = new /\ \A c \in BlocksOf(p) \ {b} : blocks[c] = p.blocks[c]
  BY <1>1, <1>3
<1>6. q.blocks = blocks
  BY <1>4 DEF Programs
<1>7. q.blocks[b] = new /\ \A c \in BlocksOf(p) \ {b} : q.blocks[c] = p.blocks[c]
  BY <1>5, <1>6
<1>8. BlocksOf(q) = BlocksOf(p)
  BY <1>5, <1>6 DEF BlocksOf
<1>9. ASSUME NEW c \in BlocksOf(p)
      PROVE  /\ q.blocks[c].address = p.blocks[c].address
             /\ q.blocks[c].successor = p.blocks[c].successor
             /\ DOMAIN q.blocks[c].statements = DOMAIN p.blocks[c].statements
             /\ \A l \in DOMAIN p.blocks[c].statements :
                   (c # b \/ l # m) => q.blocks[c].statements[l] = p.blocks[c].statements[l]
  <2>1. CASE c = b
    BY <1>2, <1>3, <1>7, <2>1
  <2>2. CASE c # b
    BY <1>7, <2>2
  <2> QED BY <2>1, <2>2
<1>10. q.blocks[b].statements[m] = t
  BY <1>2, <1>3, <1>7
<1> QED BY <1>8, <1>9, <1>10

\* What connecting a jump makes of it.
LEMMA ConnectedParts ==
    ASSUME NEW s \in StatementRecords, NEW found \in SUBSET Nat, NEW t, t = ConnectedTo(s, found)
    PROVE  /\ t \in StatementRecords /\ t.kind = s.kind /\ t.instruction = s.instruction
           /\ t.targets = s.targets /\ t.connected /\ t.blocks = s.blocks \cup found
BY DEF ConnectedTo, StatementRecords

\* The blocks at some addresses.
BlocksAt(p, targets) == {b \in BlocksOf(p) : \E n \in DOMAIN targets : b \in StartingAt(p, targets[n])}

\* A jump that is connected goes to its targets besides.
LEMMA ConnectedStated ==
    ASSUME NEW p, NEW i, NEW s \in StatementRecords, Stated(p, s, i), s.kind = "jump", ~s.connected,
           s.targets \in Seq(Nat), Started(p, s.targets),
           NEW found \in SUBSET Nat, found = BlocksAt(p, s.targets),
           NEW t, t = ConnectedTo(s, found)
    PROVE  Stated(p, t, i)
<1>1. /\ t.kind = s.kind /\ t.instruction = s.instruction
      /\ t.targets = s.targets /\ t.connected /\ t.blocks = s.blocks \cup found
  <2>1. s \in StatementRecords /\ found \in SUBSET Nat /\ t = ConnectedTo(s, found)
    OBVIOUS
  <2> QED BY ONLY <2>1, ConnectedParts
<1>2. i.targets = s.targets /\ \A a \in Nat : Reaches(p, s, a) <=> Aims(i, s, a)
  BY DEF Stated
<1>3. ASSUME NEW a \in Nat PROVE Reaches(p, t, a) <=> Aims(i, t, a)
  <2>1. (\E c \in found : p.blocks[c].address = a) <=> \E n \in DOMAIN s.targets : s.targets[n] = a
    <3>1. ASSUME NEW c \in found, p.blocks[c].address = a
          PROVE  \E n \in DOMAIN s.targets : s.targets[n] = a
      BY <3>1 DEF BlocksAt, StartingAt
    <3>2. ASSUME NEW n \in DOMAIN s.targets, s.targets[n] = a
          PROVE  \E c \in found : p.blocks[c].address = a
      <4>1. PICK c : c \in StartingAt(p, s.targets[n])
        BY DEF Started
      <4> QED BY <3>2, <4>1 DEF BlocksAt, StartingAt
    <3> QED BY <3>1, <3>2
  <2>2. Reaches(p, t, a) <=> Reaches(p, s, a) \/ \E c \in found : p.blocks[c].address = a
    BY <1>1 DEF Reaches
  <2>3. Aims(i, s, a) <=> i.kind \in {"branch", "skip"} /\ a = EndOf(i)
    BY DEF Aims
  <2>4. Aims(i, t, a) <=> \/ i.kind \in {"branch", "skip"} /\ a = EndOf(i)
                         \/ \E n \in DOMAIN s.targets : s.targets[n] = a
    BY <1>1, <1>2 DEF Aims
  <2> QED BY <1>2, <2>1, <2>2, <2>3, <2>4
<1> QED BY <1>1, <1>3 DEF Stated

\* ... wherever it is.
Connectable(r, c, l, s) ==
    /\ c \in BlocksOf(r) /\ Bound(r, c) /\ l \in DOMAIN r.blocks[c].statements
    /\ s = r.blocks[c].statements[l] /\ s.kind = "jump" /\ s.instruction # None /\ ~s.connected
    /\ Started(r, s.targets)

Connects(r, c, l, s, t, q) ==
    t = ConnectedTo(s, BlocksAt(r, s.targets)) /\ q = WithStatement(r, c, l, t)

\* A connected jump goes on where it aims at, and nothing else changes.
LEMMA ConnectionRoutes ==
    ASSUME NEW r \in Programs(StatementRecords), NEW A, Known(r, A),
           NEW C, NEW T, Routed(C, T, r),
           NEW c, NEW l, NEW s, Connectable(r, c, l, s),
           NEW t, NEW q, Connects(r, c, l, s, t, q)
    PROVE  /\ Routed(C, T, q) /\ Advanced(r, q)
           /\ BlocksOf(q) = BlocksOf(r) /\ q.blocks[c].statements[l] = t
<1> USE DEF Connectable, Connects
<1> PICK found : found = BlocksAt(r, s.targets)
  OBVIOUS
<1>1. Held(r, s) /\ Occurs(r, s)
  BY DEF Held, Occurs
<1>2. s \in StatementRecords /\ s.targets \in Seq(Nat) /\ BlocksOf(r) \in SUBSET Nat
  BY <1>1, OccursTyped, RecordParts, ProgramParts
<1>3. found \in SUBSET BlocksOf(r) /\ found \in SUBSET Nat
  BY <1>2 DEF BlocksAt
<1>4. /\ t \in StatementRecords /\ t.kind = s.kind /\ t.instruction = s.instruction
      /\ t.targets = s.targets /\ t.connected /\ t.blocks = s.blocks \cup found
  <2>1. s \in StatementRecords /\ found \in SUBSET Nat /\ t = ConnectedTo(s, found)
    BY <1>2, <1>3
  <2> QED BY ONLY <2>1, ConnectedParts
<1>5. /\ BlocksOf(q) = BlocksOf(r)
      /\ \A b \in BlocksOf(r) : /\ q.blocks[b].address = r.blocks[b].address
                                /\ q.blocks[b].successor = r.blocks[b].successor
                                /\ DOMAIN q.blocks[b].statements = DOMAIN r.blocks[b].statements
      /\ q.blocks[c].statements[l] = t
      /\ \A b \in BlocksOf(r) : \A m \in DOMAIN r.blocks[b].statements :
            (b # c \/ m # l) => q.blocks[b].statements[m] = r.blocks[b].statements[m]
  <2>1. /\ r \in Programs(StatementRecords) /\ c \in BlocksOf(r)
        /\ l \in DOMAIN r.blocks[c].statements /\ t \in StatementRecords
        /\ q = WithStatement(r, c, l, t)
    BY <1>4
  <2> QED BY ONLY <2>1, WithStatementParts
<1>6. \A b \in BlocksOf(r) : Bound(q, b) <=> Bound(r, b)
  BY <1>5 DEF Bound
<1>7. Tiled(C, T, q)
  <2>1. \A b : (b \in BlocksOf(q) /\ Bound(q, b)) <=> (b \in BlocksOf(r) /\ Bound(r, b))
    BY <1>5, <1>6
  <2> QED BY <1>5, <2>1, TiledAlike DEF Routed
<1>8. \A u : Held(q, u) => Held(r, u) \/ u = t
  <2> SUFFICES ASSUME NEW u, Held(q, u) PROVE Held(r, u) \/ u = t
    OBVIOUS
  <2> PICK b \in BlocksOf(q) : Bound(q, b) /\ \E m \in DOMAIN q.blocks[b].statements : q.blocks[b].statements[m] = u
    BY DEF Held
  <2> PICK m \in DOMAIN q.blocks[b].statements : q.blocks[b].statements[m] = u
    OBVIOUS
  <2>1. b \in BlocksOf(r) /\ Bound(r, b) /\ m \in DOMAIN r.blocks[b].statements
    BY <1>5 DEF Bound
  <2>2. CASE b = c /\ m = l
    BY <1>5, <2>2
  <2>3. CASE b # c \/ m # l
    BY <1>5, <2>1, <2>3 DEF Held
  <2> QED BY <2>2, <2>3
<1>9. Led(C, q)
  <2> SUFFICES ASSUME NEW u, Held(q, u), u.instruction # None
               PROVE  \E i \in Sound(C) : Stated(q, u, i)
    BY DEF Led
  <2>1. u.blocks \subseteq BlocksOf(r)
    <3>1. CASE Held(r, u)
      BY <3>1 DEF Known, Held, Occurs
    <3>2. CASE u = t
      BY <1>1, <1>3, <1>4, <3>2 DEF Known
    <3> QED BY <1>8, <3>1, <3>2
  <2>2. PICK i \in Sound(C) : Stated(r, u, i)
    <3>1. CASE Held(r, u)
      BY <3>1 DEF Routed, Led
    <3>2. CASE u = t
      <4>1. PICK i \in Sound(C) : Stated(r, s, i)
        BY <1>1 DEF Routed, Led
      <4>2. Stated(r, t, i)
        BY <1>2, <1>3, <4>1, ConnectedStated
      <4> QED BY <3>2, <4>2
    <3> QED BY <1>8, <3>1, <3>2
  <2>3. \A b \in u.blocks : q.blocks[b].address = r.blocks[b].address
    BY <1>5, <2>1
  <2>4. \A a : Reaches(q, u, a) <=> Reaches(r, u, a)
    BY <2>3 DEF Reaches
  <2> QED BY <2>2, <2>4 DEF Stated
<1>10. Aimless(q)
  <2>1. \A b \in BlocksOf(r) : ~Bound(r, b) => b # c
    OBVIOUS
  <2> SUFFICES ASSUME NEW b \in BlocksOf(q), ~Bound(q, b), NEW m \in DOMAIN q.blocks[b].statements
               PROVE  q.blocks[b].statements[m].targets = <<>>
    BY DEF Aimless
  <2>2. b \in BlocksOf(r) /\ ~Bound(r, b) /\ m \in DOMAIN r.blocks[b].statements /\ b # c
    BY <1>5, <2>1 DEF Bound
  <2>3. q.blocks[b].statements[m] = r.blocks[b].statements[m]
    BY <1>5, <2>2
  <2>4. r.blocks[b].statements[m].targets = <<>>
    BY <2>2 DEF Aimless, Routed
  <2> QED BY <2>3, <2>4
<1>11. Advanced(r, q)
  <2> SUFFICES ASSUME NEW b \in BlocksOf(r), NEW m \in DOMAIN q.blocks[b].statements
               PROVE  /\ m \in DOMAIN r.blocks[b].statements
                      /\ Onward(r.blocks[b].statements[m], q.blocks[b].statements[m])
    BY <1>5 DEF Advanced
  <2>1. m \in DOMAIN r.blocks[b].statements
    BY <1>5
  <2>2. CASE b = c /\ m = l
    BY <1>4, <1>5, <2>1, <2>2 DEF Onward
  <2>3. CASE b # c \/ m # l
    BY <1>5, <2>1, <2>3 DEF Onward
  <2> QED BY <2>1, <2>2, <2>3
<1> QED BY <1>5, <1>7, <1>9, <1>10, <1>11 DEF Routed

\* computeJumpTarget(): the jump that is found is the one there is, and is connected
\* wherever it is by then.
LEMMA ConnectRoutes ==
    ASSUME NEW A, NEW p, Formed(p), Known(p, A), NEW C, NEW T, Routed(C, T, p),
           NEW b \in BlocksOf(p), Bound(p, b), NEW m \in DOMAIN p.blocks[b].statements,
           NEW s, s = p.blocks[b].statements[m], s.kind = "jump", s.instruction # None,
           s.targets # <<>>, ~s.connected, OnlyOne(p, s.instruction),
           \A n \in DOMAIN s.targets : Cut(C, s.targets[n]),
           NEW q, q = Connect(p, s.instruction, s.targets)
    PROVE  /\ Routed(C, T, q) /\ Advanced(p, q)
           /\ m \in DOMAIN q.blocks[b].statements => q.blocks[b].statements[m].connected
<1> PICK a : a = s.instruction
  OBVIOUS
<1> PICK targets : targets = s.targets
  OBVIOUS
<1> DEFINE r == CreateBasicBlocks(p, targets)
           found == {c \in BlocksOf(r) : \E n \in DOMAIN targets : c \in StartingAt(r, targets[n])}
           places == UNION {{c} \X DOMAIN r.blocks[c].statements : c \in BlocksOf(r)}
           Wanted(x) == /\ r.blocks[x[1]].statements[x[2]].kind = "jump"
                        /\ r.blocks[x[1]].statements[x[2]].instruction = a
                        /\ r.blocks[x[1]].statements[x[2]].targets = targets
           place == CHOOSE x \in places : Wanted(x)
           jump == r.blocks[place[1]].statements[place[2]]
<1>1. Occurs(p, s) /\ Held(p, s) /\ p \in Programs(StatementRecords)
  BY DEF Occurs, Held, Formed
<1>2. targets \in Seq(Nat)
  BY <1>1, OccursTyped, RecordParts
<1>3. Routed(C, T, r) /\ Keeps(p, r) /\ Started(r, targets)
  BY <1>2, CreateBasicBlocksRoutes
<1>4. r \in Programs(StatementRecords) /\ Known(r, A)
  BY <1>2, CreateBasicBlocksDevelops DEF Developed, Formed
<1>5. Held(r, s) /\ OnlyOne(r, a)
  BY <1>1, <1>3 DEF Keeps
<1>6. PICK c \in BlocksOf(r) : Bound(r, c) /\ \E l \in DOMAIN r.blocks[c].statements : r.blocks[c].statements[l] = s
  BY <1>5 DEF Held
<1>7. PICK l \in DOMAIN r.blocks[c].statements : r.blocks[c].statements[l] = s
  BY <1>6
<1>8. <<c, l>> \in places /\ Wanted(<<c, l>>)
  <2>1. s.kind = "jump" /\ s.instruction = a /\ s.targets = targets
    OBVIOUS
  <2>2. c \in BlocksOf(r) /\ l \in DOMAIN r.blocks[c].statements /\ r.blocks[c].statements[l] = s
    BY <1>7
  <2> HIDE DEF r
  <2> QED BY ONLY <2>1, <2>2
<1>9. place \in places /\ Wanted(place)
  BY <1>8
<1>10. q = [r EXCEPT !.blocks[place[1]].statements[place[2]] =
              [jump EXCEPT !.connected = TRUE, !.blocks = jump.blocks \cup found]]
  <2>1. q = Connect(p, a, targets)
    OBVIOUS
  <2> QED BY ONLY <2>1, Zenon DEF Connect
<1>11. place[1] \in BlocksOf(r) /\ place[2] \in DOMAIN r.blocks[place[1]].statements
  <2>1. PICK d \in BlocksOf(r) : place \in {d} \X DOMAIN r.blocks[d].statements
    BY <1>9
  <2> HIDE DEF place
  <2>2. place[1] = d /\ place[2] \in DOMAIN r.blocks[d].statements
    BY <2>1
  <2> QED BY <2>2
<1>12. /\ r.blocks[place[1]].statements[place[2]].instruction = a
       /\ r.blocks[place[1]].statements[place[2]].targets = targets
  BY <1>9
<1>13. found = BlocksAt(r, targets)
  BY DEF BlocksAt
<1> HIDE DEF r, found, places, Wanted, place
<1> PICK g : g = r
  OBVIOUS
<1> PICK d : d = place[1]
  OBVIOUS
<1> PICK k : k = place[2]
  OBVIOUS
<1>14. /\ d \in BlocksOf(g) /\ k \in DOMAIN g.blocks[d].statements
       /\ g.blocks[d].statements[k].instruction = a /\ g.blocks[d].statements[k].targets = targets
  BY <1>11, <1>12
<1>15. Bound(g, d)
  BY <1>3, <1>14 DEF Routed, Aimless
<1>16. IsOf(g, d, k, a) /\ IsOf(g, c, l, a)
  BY <1>6, <1>7, <1>14, <1>15 DEF IsOf
<1>17. d = c /\ k = l
  BY <1>5, <1>16 DEF OnlyOne
<1>18. g.blocks[d].statements[k] = s
  BY <1>7, <1>17
<1> PICK t : t = ConnectedTo(s, BlocksAt(g, s.targets))
  OBVIOUS
<1>19. q = WithStatement(g, d, k, t)
  BY <1>10, <1>13, <1>18 DEF ConnectedTo, WithStatement
<1>20. /\ Routed(C, T, q) /\ Advanced(g, q)
       /\ BlocksOf(q) = BlocksOf(g) /\ q.blocks[d].statements[k] = t
  <2>1. g \in Programs(StatementRecords) /\ Known(g, A) /\ Routed(C, T, g)
    BY <1>3, <1>4
  <2>2. Started(g, s.targets)
    BY <1>3
  <2>3. Connectable(g, d, k, s)
    BY <1>14, <1>15, <1>18, <2>2 DEF Connectable
  <2>4. Connects(g, d, k, s, t, q)
    BY <1>19 DEF Connects
  <2> QED BY ONLY <2>1, <2>3, <2>4, ConnectionRoutes
<1>21. Advanced(p, g) /\ Advanced(p, q)
  BY <1>3, <1>20, KeepsAdvances, AdvancedFurther
<1>22. ASSUME m \in DOMAIN q.blocks[b].statements PROVE q.blocks[b].statements[m].connected
  <2>1. b \in BlocksOf(g) /\ m \in DOMAIN g.blocks[b].statements
    BY <1>20, <1>21, <1>22 DEF Advanced
  <2>2. g.blocks[b].address = p.blocks[b].address /\ g.blocks[b].statements[m] = s
    BY <1>3, <2>1 DEF Keeps
  <2>3. IsOf(g, b, m, a)
    BY <2>1, <2>2 DEF IsOf, Bound
  <2>4. b = d /\ m = k
    BY <1>5, <1>16, <2>3 DEF OnlyOne
  <2>5. t.connected
    BY <1>1, OccursTyped DEF ConnectedTo, StatementRecords
  <2> QED BY <1>20, <2>4, <2>5
<1> QED BY <1>20, <1>21, <1>22

\* A jump with targets has been connected, unless it is a switch that was not understood.
Settled(C, s) ==
    (s.kind = "jump" /\ s.targets # <<>>)
        => s.connected \/ \E i \in C : i.address = s.instruction /\ i.kind = "switch"

\* The jumps that the loops have passed, up to the n-th statement of the block b.
SettledUpTo(C, p, b, n) ==
    \A c \in BlocksOf(p) : \A m \in DOMAIN p.blocks[c].statements :
        Bound(p, c) /\ (c < b \/ (c = b /\ m < n)) => Settled(C, p.blocks[c].statements[m])

\* A jump that was connected stays so.
LEMMA SettledStays ==
    ASSUME NEW C, NEW s, NEW t, Onward(s, t), Settled(C, s)
    PROVE  Settled(C, t)
BY DEF Onward, Settled

\* The block behind a jump or return.
LEMMA CloseBlockRoutes ==
    ASSUME NEW C \in Codes, Apart(C), NEW i \in C, NEW p, Formed(p), NEW A, Known(p, A),
           NEW T, Routed(C, T, p), NEW b, NEW q, q = CloseBlock(p, b, i)
    PROVE  Routed(C, T, q) /\ Advanced(p, q)
<1>1. EndOf(i) \in Nat /\ Cut(C, EndOf(i))
  BY CodeParts, EdgesCut DEF EndOf
<1>2. CASE Bound(p, b)
  <2>1. q = CreateBasicBlock(p, EndOf(i))
    BY <1>2 DEF CloseBlock
  <2>2. Routed(C, T, q) /\ Keeps(p, q)
    BY <1>1, <2>1, CreateBasicBlockRoutes
  <2> QED BY <2>2, KeepsAdvances
<1>3. CASE ~Bound(p, b)
  <2>1. q = p /\ Keeps(p, p)
    BY <1>3, KeepsReflexive DEF CloseBlock
  <2> QED BY <2>1, KeepsAdvances
<1> QED BY <1>2, <1>3

\* The next statement has been visited.
LEMMA SettlesNext ==
    ASSUME NEW C, NEW p, Formed(p), NEW q, Formed(q), Advanced(p, q),
           NEW b \in BlocksOf(p), NEW n \in DOMAIN p.blocks[b].statements, SettledUpTo(C, p, b, n),
           (Bound(p, b) /\ n \in DOMAIN q.blocks[b].statements) => Settled(C, q.blocks[b].statements[n])
    PROVE  SettledUpTo(C, q, b, n + 1)
<1>1. p \in Programs(StatementRecords) /\ q \in Programs(StatementRecords)
  BY DEF Formed
<1>2. /\ BlocksOf(p) = 1..Len(p.blocks) /\ Len(p.blocks) \in Nat
      /\ BlocksOf(q) = 1..Len(q.blocks) /\ Len(q.blocks) \in Nat
  BY <1>1, ProgramParts
<1>3. n \in Nat
  <2>1. p.blocks[b].statements \in Seq(StatementRecords)
    BY <1>1, ProgramParts
  <2> QED BY <2>1
<1>4. SUFFICES ASSUME NEW c \in BlocksOf(q), NEW m \in DOMAIN q.blocks[c].statements,
                      Bound(q, c), c < b \/ (c = b /\ m < n + 1)
               PROVE  Settled(C, q.blocks[c].statements[m])
  BY Zenon DEF SettledUpTo
<1>5. c \in BlocksOf(p)
  BY <1>2, <1>4
<1>6. /\ Bound(p, c) /\ m \in DOMAIN p.blocks[c].statements
      /\ Onward(p.blocks[c].statements[m], q.blocks[c].statements[m])
  BY <1>4, <1>5 DEF Advanced, Bound
<1>7. m \in Nat
  <2>1. p.blocks[c].statements \in Seq(StatementRecords)
    BY <1>1, <1>5, ProgramParts
  <2> QED BY <1>6, <2>1
<1>8. CASE c < b \/ (c = b /\ m < n)
  <2>1. Settled(C, p.blocks[c].statements[m])
    BY <1>5, <1>6, <1>8 DEF SettledUpTo
  <2> QED BY <1>6, <2>1, SettledStays
<1>9. CASE c = b /\ m = n
  BY <1>6, <1>9
<1> QED BY <1>3, <1>4, <1>7, <1>8, <1>9

\* The end of a block has been reached, and the next one is begun.
LEMMA SettlesBlock ==
    ASSUME NEW C, NEW p, Formed(p), NEW b \in BlocksOf(p), NEW n \in Nat,
           n > Len(p.blocks[b].statements), SettledUpTo(C, p, b, n)
    PROVE  SettledUpTo(C, p, b + 1, 1)
<1>1. p \in Programs(StatementRecords)
  BY DEF Formed
<1>2. BlocksOf(p) \subseteq Nat
  BY <1>1, ProgramParts
<1>3. ASSUME NEW c \in BlocksOf(p), NEW m \in DOMAIN p.blocks[c].statements,
             c < b + 1 \/ (c = b + 1 /\ m < 1)
      PROVE  c < b \/ (c = b /\ m < n)
  <2>1. p.blocks[c].statements \in Seq(StatementRecords)
    BY <1>1, ProgramParts
  <2>2. m \in Nat /\ m >= 1 /\ m <= Len(p.blocks[c].statements) /\ Len(p.blocks[c].statements) \in Nat
    BY <2>1
  <2>3. c \in Nat /\ b \in Nat
    BY <1>2
  <2>4. CASE c = b
    BY <2>2, <2>4
  <2>5. CASE c # b
    BY <1>3, <2>2, <2>3, <2>5
  <2> QED BY <2>4, <2>5
<1> QED BY <1>3, Zenon DEF SettledUpTo

\* One statement is visited: calls and jumps get blocks, jumps are connected to theirs.
LEMMA VisitRoutes ==
    ASSUME NEW C \in Codes, Straight(C), NEW p, Formed(p), Known(p, Addresses(Sound(C))),
           Kept(p, Addresses(Sound(C))), NEW T, Routed(C, T, p),
           NEW b \in BlocksOf(p), NEW n \in DOMAIN p.blocks[b].statements,
           NEW s, s = p.blocks[b].statements[n],
           NEW i \in C, i.address = s.instruction, NEW q,
           \/ s.kind = "plain" /\ q = p
           \/ s.kind = "call" /\ q = CreateBasicBlocks(Calling(p, s.targets), s.targets)
           \/ s.kind = "return" /\ q = CloseBlock(p, b, i)
           \/ /\ s.kind = "jump" /\ s.targets # <<>> /\ ~s.connected
              /\ q = CloseBlock(Connect(p, s.instruction, s.targets), b, i)
           \/ /\ s.kind = "jump" /\ (s.targets = <<>> \/ s.connected \/ i.kind = "switch")
              /\ q = CloseBlock(p, b, i)
    PROVE  /\ Routed(C, T, q) /\ Advanced(p, q)
           /\ (Bound(p, b) /\ n \in DOMAIN q.blocks[b].statements)
                  => Settled(C, q.blocks[b].statements[n])
<1> PICK A : A = Addresses(Sound(C))
  OBVIOUS
<1>1. Occurs(p, s) /\ s \in StatementRecords /\ s.targets \in Seq(Nat) /\ s.blocks \subseteq BlocksOf(p)
  <2>1. Occurs(p, s)
    BY DEF Occurs
  <2>2. s \in StatementRecords
    BY <2>1, OccursTyped DEF Formed
  <2> QED BY <2>1, <2>2, RecordParts DEF Known
<1>2. s.instruction \in A /\ s.instruction # None
  BY <1>1, CodeParts DEF Known, None
<1>3. Apart(C)
  BY DEF Straight
<1>4. Keeps(p, p) /\ Advanced(p, p)
  BY KeepsReflexive, KeepsAdvances
<1>5. Bound(p, b) => \A m \in DOMAIN s.targets : Cut(C, s.targets[m])
  <2>1. Bound(p, b) => Held(p, s)
    BY DEF Held
  <2>2. Bound(p, b) => \E j \in Sound(C) : Stated(p, s, j)
    BY <1>2, <2>1 DEF Routed, Led
  <2>3. Bound(p, b) => \E j \in C : j.targets = s.targets
    BY <2>2 DEF Stated, Sound
  <2> QED BY <2>3 DEF Straight
<1>6. \A m \in DOMAIN s.targets : Cut(C, s.targets[m])
  <2>1. ~Bound(p, b) => s.targets = <<>>
    BY DEF Routed, Aimless
  <2> QED BY <1>5, <2>1
<1>7. CASE s.kind = "plain" /\ q = p
  BY <1>4, <1>7 DEF Settled
<1>8. CASE s.kind = "call" /\ q = CreateBasicBlocks(Calling(p, s.targets), s.targets)
  <2> PICK u : u = Calling(p, s.targets)
    OBVIOUS
  <2>1. u.blocks = p.blocks /\ u.ranges = p.ranges
    BY DEF Calling, Formed, Programs
  <2>2. Formed(u) /\ Known(u, A)
    <3>1. {s.targets[m] : m \in DOMAIN s.targets} \in SUBSET Nat
      BY <1>1
    <3> PICK called : called = {s.targets[m] : m \in DOMAIN s.targets}
      OBVIOUS
    <3>2. u = [p EXCEPT !.called = p.called \cup called]
      BY DEF Calling
    <3>3. Developed(p, u, A)
      BY <3>1, <3>2, CallsDevelop
    <3> QED BY <3>3 DEF Developed
  <2>3. Keeps(p, u)
    <3>1. /\ BlocksOf(u) = BlocksOf(p) /\ \A c : Bound(u, c) <=> Bound(p, c)
      BY <2>1 DEF BlocksOf, Bound
    <3>2. \A s0 : (Occurs(u, s0) <=> Occurs(p, s0)) /\ (Held(u, s0) <=> Held(p, s0))
      BY <2>1, <3>1 DEF Occurs, Held
    <3>3. \A c, l, a : IsOf(u, c, l, a) <=> IsOf(p, c, l, a)
      BY ONLY <2>1, <3>1 DEF IsOf
    <3>4. \A a : OnlyOne(u, a) <=> OnlyOne(p, a)
      BY ONLY <3>3 DEF OnlyOne
    <3> QED BY ONLY <1>4, <2>1, <3>1, <3>2, <3>4 DEF Keeps
  <2>4. Tiled(C, T, u)
    <3>1. /\ BlocksOf(u) = BlocksOf(p) /\ \A c : Bound(u, c) <=> Bound(p, c)
      BY <2>1 DEF BlocksOf, Bound
    <3>2. Tiled(C, T, p)
      BY DEF Routed
    <3> QED BY ONLY <2>1, <3>1, <3>2, TiledAlike
  <2>5. Routed(C, T, u)
    BY <2>3, <2>4, KeepsRoutes
  <2>6. Routed(C, T, q) /\ Keeps(u, q)
    BY <1>1, <1>6, <1>8, <2>2, <2>5, CreateBasicBlocksRoutes
  <2>7. Advanced(p, q)
    BY <2>3, <2>6, KeepsTransitive, KeepsAdvances
  <2>8. n \in DOMAIN q.blocks[b].statements => q.blocks[b].statements[n].kind = "call"
    BY <1>8, <2>7 DEF Advanced, Onward
  <2> QED BY <2>6, <2>7, <2>8 DEF Settled
<1> DEFINE Visited(r) ==
        Bound(p, b) =>
            \/ s.kind # "jump" \/ s.targets = <<>> \/ s.connected \/ i.kind = "switch"
            \/ n \in DOMAIN r.blocks[b].statements => r.blocks[b].statements[n].connected
<1>9. ASSUME NEW r, Formed(r), Known(r, A), Routed(C, T, r), Advanced(p, r), q = CloseBlock(r, b, i),
             Visited(r)
      PROVE  /\ Routed(C, T, q) /\ Advanced(p, q)
             /\ (Bound(p, b) /\ n \in DOMAIN q.blocks[b].statements)
                    => Settled(C, q.blocks[b].statements[n])
  <2>1. Routed(C, T, q) /\ Advanced(r, q)
    BY <1>3, <1>9, CloseBlockRoutes
  <2>2. Advanced(p, q)
    BY <1>9, <2>1, AdvancedFurther
  <2>3. ASSUME Bound(p, b), n \in DOMAIN q.blocks[b].statements
        PROVE  Settled(C, q.blocks[b].statements[n])
    <3> PICK t : t = q.blocks[b].statements[n]
      OBVIOUS
    <3>1. t.kind = s.kind /\ t.instruction = s.instruction /\ t.targets = s.targets
          /\ (s.connected => t.connected)
      BY <2>2, <2>3 DEF Advanced, Onward
    <3>2. b \in BlocksOf(r) /\ n \in DOMAIN r.blocks[b].statements /\ (r.blocks[b].statements[n].connected => t.connected)
      BY <1>9, <2>1, <2>3 DEF Advanced, Onward
    <3>3. t.kind # "jump" \/ t.targets = <<>> \/ t.connected \/ i.kind = "switch"
      BY <1>9, <2>3, <3>1, <3>2
    <3> QED BY <3>1, <3>3 DEF Settled
  <2> QED BY <2>1, <2>2, <2>3
<1> HIDE DEF Visited
<1>10. CASE /\ s.kind = "jump" /\ s.targets # <<>> /\ ~s.connected
            /\ q = CloseBlock(Connect(p, s.instruction, s.targets), b, i)
  <2> PICK r : r = Connect(p, s.instruction, s.targets)
    OBVIOUS
  <2>1. Bound(p, b)
    BY <1>10 DEF Routed, Aimless
  <2>2. Formed(r) /\ Known(r, A)
    BY <1>1, <1>10, ConnectDevelops DEF Developed
  <2>3. OnlyOne(p, s.instruction)
    BY <1>2 DEF Kept
  <2>4. /\ Routed(C, T, r) /\ Advanced(p, r)
        /\ n \in DOMAIN r.blocks[b].statements => r.blocks[b].statements[n].connected
    BY <1>2, <1>6, <1>10, <2>1, <2>3, ConnectRoutes
  <2>5. Visited(r)
    BY ONLY <2>4 DEF Visited
  <2>6. q = CloseBlock(r, b, i)
    BY <1>10
  <2> QED BY ONLY <1>9, <2>2, <2>4, <2>5, <2>6
<1>11. CASE /\ q = CloseBlock(p, b, i)
            /\ s.kind # "jump" \/ s.targets = <<>> \/ s.connected \/ i.kind = "switch"
  <2>1. Known(p, A) /\ Formed(p) /\ Routed(C, T, p)
    OBVIOUS
  <2>2. Visited(p)
    BY ONLY <1>11 DEF Visited
  <2> QED BY ONLY <1>4, <1>9, <1>11, <2>1, <2>2
<1> QED BY <1>7, <1>8, <1>10, <1>11
-----------------------------------------------------------------------------
\* Jumps that are added lead to where their block ends, and are added to all blocks that
\* end where another one starts.
SettledAll(C, p) == \A s : Held(p, s) => Settled(C, s)

Added(p) ==
    \A c \in BlocksOf(p) : \A m \in DOMAIN p.blocks[c].statements :
        p.blocks[c].statements[m].instruction = None =>
            /\ Bound(p, c) /\ p.blocks[c].statements[m].kind = "jump"
            /\ p.blocks[c].statements[m].blocks = StartingAt(p, p.blocks[c].successor)
            /\ StartingAt(p, p.blocks[c].successor) # {}
            /\ p.blocks[c].successor # p.blocks[c].address

Complete(p, b) ==
    Bound(p, b) =>
        \/ HasTerminator(p.blocks[b])
        \/ p.blocks[b].successor = p.blocks[b].address
        \/ StartingAt(p, p.blocks[b].successor) = {}

CompleteUpTo(p, n) == \A b \in BlocksOf(p) : b < n => Complete(p, b)

AddedJump(p, b) ==
    [kind |-> "jump", instruction |-> None, targets |-> <<>>, connected |-> FALSE,
     blocks |-> StartingAt(p, p.blocks[b].successor)]

\* What the jump that is added to a block is.
LEMMA AddedJumpParts ==
    ASSUME NEW p, Formed(p), NEW b \in BlocksOf(p), NEW s, s = AddedJump(p, b)
    PROVE  /\ s \in StatementRecords /\ s.instruction = None /\ s.kind = "jump" /\ s.targets = <<>>
           /\ s.blocks = StartingAt(p, p.blocks[b].successor)
           /\ s.blocks \subseteq BlocksOf(p)
<1>1. StartingAt(p, p.blocks[b].successor) \subseteq BlocksOf(p)
  BY DEF StartingAt
<1>2. BlocksOf(p) \subseteq Nat
  BY ProgramParts DEF Formed
<1>3. StartingAt(p, p.blocks[b].successor) \in SUBSET Nat
  BY <1>1, <1>2
<1>4. s \in StatementRecords
  BY <1>3 DEF AddedJump, StatementRecords, StatementKinds
<1> QED BY <1>1, <1>4 DEF AddedJump

\* A statement more moves no block.
LEMMA AddedStatementStarts ==
    ASSUME NEW p, NEW q, NEW b, NEW s, StatementAdded(p, q, b, s)
    PROVE  /\ BlocksOf(q) = BlocksOf(p)
           /\ \A c \in BlocksOf(p) : /\ q.blocks[c].address = p.blocks[c].address
                                     /\ q.blocks[c].successor = p.blocks[c].successor
                                     /\ Bound(q, c) <=> Bound(p, c)
           /\ \A a : StartingAt(q, a) = StartingAt(p, a)
<1>1. BlocksOf(q) = BlocksOf(p)
  BY DEF StatementAdded
<1>2. \A c \in BlocksOf(p) : /\ q.blocks[c].address = p.blocks[c].address
                             /\ q.blocks[c].successor = p.blocks[c].successor
  BY DEF StatementAdded
<1>3. \A c \in BlocksOf(p) : Bound(q, c) <=> Bound(p, c)
  BY <1>2 DEF Bound
<1>4. \A a : StartingAt(q, a) = StartingAt(p, a)
  BY <1>1, <1>2 DEF StartingAt
<1> QED BY <1>1, <1>2, <1>3, <1>4

\* addJumpToDirectSuccessor() for a block: it is finished, and the others are as before.
LEMMA JumpAddedRoutes ==
    ASSUME NEW p, Formed(p), NEW A \in SUBSET Nat, Known(p, A \cup {None}),
           NEW C, NEW T, Routed(C, T, p), SettledAll(C, p), Added(p),
           NEW b \in BlocksOf(p), CompleteUpTo(p, b),
           p.blocks[b].successor \notin {None, p.blocks[b].address},
           StartingAt(p, p.blocks[b].successor) # {},
           NEW q, q = AddStatement(p, b, AddedJump(p, b))
    PROVE  Routed(C, T, q) /\ SettledAll(C, q) /\ Added(q) /\ CompleteUpTo(q, b + 1)
<1> PICK s : s = AddedJump(p, b)
  OBVIOUS
<1> PICK S : S = StatementRecords
  OBVIOUS
<1>1. /\ s \in S /\ s.instruction = None /\ s.kind = "jump" /\ s.targets = <<>>
      /\ s.blocks = StartingAt(p, p.blocks[b].successor)
      /\ s.blocks \subseteq BlocksOf(p)
  BY AddedJumpParts
<1>2. p \in Programs(S)
  BY DEF Formed
<1>3. q \in Programs(S) /\ StatementAdded(p, q, b, s)
  BY <1>1, <1>2, AddStatementParts
<1>4. Bound(p, b)
  BY DEF Formed, Tails
<1>5. Routed(C, T, q)
  BY <1>1, <1>2, <1>3, <1>4, AddedStatementRoutes
<1>6. SettledAll(C, q)
  <2>1. \A t : Held(q, t) => Held(p, t) \/ t = s
    BY <1>1, <1>2, <1>3, AddedStatementHeld
  <2>2. Settled(C, s)
    BY <1>1 DEF Settled
  <2> QED BY <2>1, <2>2 DEF SettledAll
<1>7. /\ BlocksOf(q) = BlocksOf(p)
      /\ \A c \in BlocksOf(p) : /\ q.blocks[c].address = p.blocks[c].address
                                /\ q.blocks[c].successor = p.blocks[c].successor
                                /\ Bound(q, c) <=> Bound(p, c)
      /\ \A a : StartingAt(q, a) = StartingAt(p, a)
  BY <1>3, AddedStatementStarts
<1>8. LongerBy(p.blocks[b].statements, q.blocks[b].statements, s)
  BY <1>1, <1>2, <1>3, LongerStatements
<1>9. \A c \in BlocksOf(p) \ {b} : q.blocks[c] = p.blocks[c]
  BY <1>3 DEF StatementAdded
<1>10. Added(q)
  <2> SUFFICES ASSUME NEW c \in BlocksOf(q), NEW m \in DOMAIN q.blocks[c].statements,
                      q.blocks[c].statements[m].instruction = None
               PROVE  /\ Bound(q, c) /\ q.blocks[c].statements[m].kind = "jump"
                      /\ q.blocks[c].statements[m].blocks = StartingAt(q, q.blocks[c].successor)
                      /\ StartingAt(q, q.blocks[c].successor) # {}
                      /\ q.blocks[c].successor # q.blocks[c].address
    BY Zenon DEF Added
  <2>1. \/ m \in DOMAIN p.blocks[c].statements /\ q.blocks[c].statements[m] = p.blocks[c].statements[m]
        \/ c = b /\ q.blocks[c].statements[m] = s
    BY <1>7, <1>8, <1>9 DEF LongerBy
  <2>2. CASE m \in DOMAIN p.blocks[c].statements /\ q.blocks[c].statements[m] = p.blocks[c].statements[m]
    <3>1. /\ Bound(p, c) /\ p.blocks[c].statements[m].kind = "jump"
          /\ p.blocks[c].statements[m].blocks = StartingAt(p, p.blocks[c].successor)
          /\ StartingAt(p, p.blocks[c].successor) # {}
          /\ p.blocks[c].successor # p.blocks[c].address
      BY <1>7, <2>2 DEF Added
    <3> QED BY <1>7, <2>2, <3>1
  <2>3. CASE c = b /\ q.blocks[c].statements[m] = s
    BY <1>1, <1>4, <1>7, <2>3
  <2> QED BY <2>1, <2>2, <2>3
<1>11. CompleteUpTo(q, b + 1)
  <2>1. HasTerminator(q.blocks[b])
    <3>1. q.blocks[b].statements # <<>> /\ q.blocks[b].statements[Len(q.blocks[b].statements)] = s
      BY <1>8 DEF LongerBy
    <3> QED BY <1>1, <3>1 DEF HasTerminator, Terminators
  <2>2. Complete(q, b)
    BY <2>1 DEF Complete
  <2>3. ASSUME NEW c \in BlocksOf(q), c < b PROVE Complete(q, c)
    <3>1. Complete(p, c)
      BY <1>7, <2>3 DEF CompleteUpTo
    <3>2. c \in BlocksOf(p) \ {b}
      <4>1. BlocksOf(p) \subseteq Nat
        BY <1>2, ProgramParts
      <4> QED BY <1>7, <2>3, <4>1
    <3> QED BY <1>7, <1>9, <3>1, <3>2 DEF Complete
  <2>4. \A c \in BlocksOf(q) : c < b + 1 => c < b \/ c = b
    <3>1. BlocksOf(p) \subseteq Nat
      BY <1>2, ProgramParts
    <3> QED BY <1>7, <3>1
  <2> QED BY <2>2, <2>3, <2>4 DEF CompleteUpTo
<1> QED BY <1>5, <1>6, <1>10, <1>11

\* ... or needs no jump.
LEMMA NoJumpAddedRoutes ==
    ASSUME NEW p, Formed(p), NEW b \in BlocksOf(p), CompleteUpTo(p, b),
           \/ HasTerminator(p.blocks[b]) \/ p.blocks[b].successor \in {None, p.blocks[b].address}
           \/ StartingAt(p, p.blocks[b].successor) = {}
    PROVE  CompleteUpTo(p, b + 1)
<1>1. p \in Programs(StatementRecords)
  BY DEF Formed
<1>2. BlocksOf(p) \subseteq Nat
  BY <1>1, ProgramParts
<1>3. Bound(p, b) => p.blocks[b].successor # None
  BY DEF Formed, Mapped, Located, None
<1>4. Complete(p, b)
  BY <1>3 DEF Complete
<1>5. \A c \in BlocksOf(p) : c < b + 1 => c < b \/ c = b
  BY <1>2
<1> QED BY <1>4, <1>5 DEF CompleteUpTo
-----------------------------------------------------------------------------
\* What holds of the program in every phase, where instructions do not overlap and nothing
\* goes to the middle of one.
RouteInv ==
    Straight(code) =>
        /\ Routed(code, translated, program)
        /\ phase \in {"targets", "successors", "done"} => translated = code
        /\ phase = "targets" => SettledUpTo(code, program, block, index)
        /\ phase \in {"successors", "done"} => SettledAll(code, program) /\ Added(program)
        /\ phase = "successors" => CompleteUpTo(program, block)
        /\ phase = "done" => \A b \in BlocksOf(program) : Complete(program, b)

\* Nothing leads anywhere in an empty program.
LEMMA RoutesInitially == IRInit => RouteInv
<1> SUFFICES ASSUME IRInit PROVE RouteInv
  OBVIOUS
<1>1. program.blocks = <<>> /\ BlocksOf(program) = {} /\ translated = {} /\ phase = "statements"
  BY DEF IRInit, EmptyProgram, BlocksOf
<1>2. Tiled(code, translated, program)
  BY <1>1 DEF Tiled, Covered, Holds, Occupied
<1>3. Led(code, program) /\ Aimless(program)
  BY <1>1 DEF Led, Aimless, Held
<1> QED BY <1>1, <1>2, <1>3 DEF RouteInv, Routed

\* One instruction is translated.
LEMMA CreateStatementsKeepsRoutes ==
    ASSUME IRInv, RouteInv, CreateStatements
    PROVE  RouteInv'
<1> DEFINE i == CHOOSE j \in code \ translated : \A k \in code \ translated : j.address <= k.address
<1>1. /\ phase = "statements" /\ code \ translated # {} /\ code \in Codes /\ translated \in SUBSET code
      /\ Generated(code, program, translated)
  BY DEF CreateStatements, IRInv, GoodProgram
<1>2. i \in code \ translated /\ \A k \in code \ translated : i.address <= k.address
  <2>1. \E j \in code \ translated : \A k \in code \ translated : j.address <= k.address
    BY <1>1, NextInstruction
  <2> QED BY <2>1
<1>3. /\ translated' = translated \cup {i}
      /\ program' = IF i.kind = "invalid" THEN program
                    ELSE Statements(i, ExtendForInstruction(program, i), BlockForInstruction(program, i))
      /\ code' = code /\ phase' = phase
  BY DEF CreateStatements
<1> HIDE DEF i
<1>4. Straight(code) => Routed(code, translated \cup {i}, program')
  <2> SUFFICES ASSUME Straight(code) PROVE Routed(code, translated \cup {i}, program')
    OBVIOUS
  <2>1. Apart(code) /\ Routed(code, translated, program)
    BY DEF Straight, RouteInv
  <2> QED BY <1>1, <1>2, <1>3, <2>1, RoutesNext
<1> QED BY <1>1, <1>3, <1>4 DEF RouteInv

\* All instructions have been translated.
LEMMA StatementsCreatedKeepsRoutes ==
    ASSUME IRInv, RouteInv, StatementsCreated
    PROVE  RouteInv'
<1>1. /\ phase = "statements" /\ translated = code /\ block = 1 /\ index = 1 /\ Formed(program)
  BY DEF StatementsCreated, IRInv, GoodProgram
<1>2. /\ phase' = "targets" /\ translated' = translated /\ program' = program
      /\ code' = code /\ block' = block /\ index' = index
  BY DEF StatementsCreated
<1>3. SettledUpTo(code, program, 1, 1)
  <2> SUFFICES ASSUME NEW c \in BlocksOf(program), NEW m \in DOMAIN program.blocks[c].statements,
                      c < 1 \/ (c = 1 /\ m < 1)
               PROVE  FALSE
    BY Zenon DEF SettledUpTo
  <2>1. program \in Programs(StatementRecords)
    BY <1>1 DEF Formed
  <2>2. BlocksOf(program) = 1..Len(program.blocks) /\ program.blocks[c].statements \in Seq(StatementRecords)
    BY <2>1, ProgramParts
  <2> QED BY <2>2
<1>4. Straight(code) => Routed(code, translated, program)
  BY DEF RouteInv
<1> QED BY <1>1, <1>2, <1>3, <1>4 DEF RouteInv

\* Targets are computed for one statement.
LEMMA VisitStatementKeepsRoutes ==
    ASSUME IRInv, IRInv', RouteInv, VisitStatement
    PROVE  RouteInv'
<1> PICK p : p = program
  OBVIOUS
<1> PICK q : q = program'
  OBVIOUS
<1> PICK s : s = p.blocks[block].statements[index]
  OBVIOUS
<1> PICK i : i = InstructionAt(s.instruction)
  OBVIOUS
<1>1. /\ phase = "targets" /\ block \in BlocksOf(p) /\ index \in DOMAIN p.blocks[block].statements
      /\ code' = code /\ phase' = phase /\ translated' = translated /\ block' = block
      /\ index' = index + 1
  BY DEF VisitStatement, Current
<1>2. /\ Formed(p) /\ Known(p, Addresses(Sound(code))) /\ Kept(p, Addresses(Sound(translated)))
      /\ code \in Codes /\ Formed(q)
  BY <1>1 DEF IRInv, GoodProgram
<1>3. Occurs(p, s) /\ s \in StatementRecords
  <2>1. Occurs(p, s)
    BY <1>1 DEF Occurs
  <2> QED BY <1>2, <2>1, OccursTyped DEF Formed
<1>4. i \in code /\ i.address = s.instruction
  <2>1. \E j \in code : j.address = s.instruction
    BY <1>2, <1>3 DEF Known, Addresses, Sound
  <2> QED BY <2>1 DEF InstructionAt
<1>5. \/ s.kind = "plain" /\ q = p
      \/ s.kind = "call" /\ q = CreateBasicBlocks(Calling(p, s.targets), s.targets)
      \/ s.kind = "return" /\ q = CloseBlock(p, block, i)
      \/ /\ s.kind = "jump" /\ s.targets # <<>> /\ ~s.connected
         /\ q = CloseBlock(Connect(p, s.instruction, s.targets), block, i)
      \/ /\ s.kind = "jump" /\ (s.targets = <<>> \/ s.connected \/ i.kind = "switch")
         /\ q = CloseBlock(p, block, i)
  BY DEF VisitStatement, CurrentStatement, Current, Calling
<1>6. ASSUME Straight(code)
      PROVE  translated = code /\ Routed(code, translated, q) /\ SettledUpTo(code, q, block, index + 1)
  <2>1. translated = code /\ Routed(code, translated, p) /\ SettledUpTo(code, p, block, index)
    BY <1>1, <1>6 DEF RouteInv
  <2>2. Kept(p, Addresses(Sound(code)))
    BY <1>2, <2>1
  <2>3. /\ Routed(code, translated, q) /\ Advanced(p, q)
        /\ (Bound(p, block) /\ index \in DOMAIN q.blocks[block].statements)
               => Settled(code, q.blocks[block].statements[index])
    BY <1>1, <1>2, <1>4, <1>5, <1>6, <2>1, <2>2, VisitRoutes
  <2>4. SettledUpTo(code, q, block, index + 1)
    BY <1>1, <1>2, <2>1, <2>3, SettlesNext
  <2> QED BY <2>1, <2>3, <2>4
<1> QED BY <1>1, <1>6 DEF RouteInv

\* The next block is begun.
LEMMA NextBlockKeepsRoutes ==
    ASSUME IRInv, RouteInv, NextBlock
    PROVE  RouteInv'
<1>1. /\ phase = "targets" /\ block \in BlocksOf(program)
      /\ index > Len(program.blocks[block].statements)
      /\ code' = code /\ program' = program /\ phase' = phase /\ translated' = translated
      /\ block' = block + 1 /\ index' = 1
  BY DEF NextBlock, Current
<1>2. Formed(program) /\ index \in Nat
  BY DEF IRInv, GoodProgram, Positions
<1>3. SettledUpTo(code, program, block, index) => SettledUpTo(code, program, block + 1, 1)
  BY <1>1, <1>2, SettlesBlock
<1> QED BY <1>1, <1>3 DEF RouteInv

\* All blocks have been visited: every jump that could be connected is.
LEMMA TargetsComputedKeepsRoutes ==
    ASSUME IRInv, RouteInv, TargetsComputed
    PROVE  RouteInv'
<1>1. /\ phase = "targets" /\ block > Len(program.blocks)
      /\ code' = code /\ program' = program /\ phase' = "successors" /\ translated' = translated
      /\ block' = 1 /\ index' = index
  BY DEF TargetsComputed
<1>2. /\ Formed(program) /\ Positions /\ Known(program, Addresses(Sound(code))) /\ code \in Codes
  BY <1>1 DEF IRInv, GoodProgram
<1>3. BlocksOf(program) = 1..Len(program.blocks) /\ Len(program.blocks) \in Nat
  BY <1>2, ProgramSize
<1>4. SettledUpTo(code, program, block, index) => SettledAll(code, program)
  <2>1. \A c \in BlocksOf(program) : c < block
    BY <1>1, <1>2, <1>3 DEF Positions
  <2> QED BY <2>1, Zenon DEF SettledUpTo, SettledAll, Held
<1>5. Added(program)
  <2>1. \A s : Occurs(program, s) => s.instruction # None
    <3>1. Addresses(Sound(code)) \in SUBSET Nat
      BY <1>2, SoundAddresses
    <3> QED BY <1>2, <3>1 DEF Known, None
  <2> QED BY <2>1 DEF Added, Occurs
<1>6. CompleteUpTo(program, 1)
  BY <1>3 DEF CompleteUpTo
<1> QED BY <1>1, <1>4, <1>5, <1>6 DEF RouteInv

\* One block gets a jump to its successor, or needs none.
LEMMA AddJumpKeepsRoutes ==
    ASSUME IRInv, RouteInv, AddJumpToDirectSuccessor
    PROVE  RouteInv'
<1> PICK p : p = program
  OBVIOUS
<1> PICK q : q = program'
  OBVIOUS
<1> PICK A : A = Addresses(Sound(code))
  OBVIOUS
<1> DEFINE Adds == /\ ~HasTerminator(p.blocks[block])
                   /\ p.blocks[block].successor \notin {None, p.blocks[block].address}
                   /\ StartingAt(p, p.blocks[block].successor) # {}
<1>1. /\ phase = "successors" /\ block \in BlocksOf(p)
      /\ code' = code /\ phase' = phase /\ translated' = translated /\ block' = block + 1
      /\ q = IF Adds THEN AddStatement(p, block, AddedJump(p, block)) ELSE p
  BY Zenon DEF AddJumpToDirectSuccessor, Current, AddedJump
<1>2. /\ Formed(p) /\ Known(p, A \cup {None}) /\ code \in Codes /\ translated \in SUBSET code
  BY <1>1 DEF IRInv, GoodProgram
<1>3. A \in SUBSET Nat
  BY <1>2, SoundAddresses
<1>4. ASSUME Straight(code)
      PROVE  /\ Routed(code, translated, q) /\ SettledAll(code, q) /\ Added(q)
             /\ CompleteUpTo(q, block + 1) /\ translated = code
  <2>1. /\ Routed(code, translated, p) /\ SettledAll(code, p) /\ Added(p)
        /\ CompleteUpTo(p, block) /\ translated = code
    BY <1>1, <1>4 DEF RouteInv
  <2>2. CASE Adds
    <3>1. q = AddStatement(p, block, AddedJump(p, block))
      BY <1>1, <2>2
    <3>2. /\ p.blocks[block].successor \notin {None, p.blocks[block].address}
          /\ StartingAt(p, p.blocks[block].successor) # {}
      BY <2>2
    <3>3. /\ Routed(code, translated, q) /\ SettledAll(code, q) /\ Added(q)
          /\ CompleteUpTo(q, block + 1)
      BY <1>1, <1>2, <1>3, <2>1, <3>1, <3>2, JumpAddedRoutes
    <3> QED BY <2>1, <3>3
  <2>3. CASE ~Adds
    <3>1. q = p
      BY <1>1, <2>3
    <3>2. \/ HasTerminator(p.blocks[block])
          \/ p.blocks[block].successor \in {None, p.blocks[block].address}
          \/ StartingAt(p, p.blocks[block].successor) = {}
      BY <2>3
    <3>3. CompleteUpTo(p, block + 1)
      BY <1>1, <1>2, <2>1, <3>2, NoJumpAddedRoutes
    <3> QED BY <2>1, <3>1, <3>3
  <2> QED BY <2>2, <2>3
<1> HIDE DEF Adds
<1> QED BY <1>1, <1>4 DEF RouteInv

\* The generator is done.
LEMMA SuccessorsAddedKeepsRoutes ==
    ASSUME IRInv, RouteInv, SuccessorsAdded
    PROVE  RouteInv'
<1>1. /\ phase = "successors" /\ phase' = "done" /\ block > Len(program.blocks)
      /\ code' = code /\ program' = program /\ translated' = translated
  BY DEF SuccessorsAdded
<1>2. Formed(program) /\ Positions
  BY DEF IRInv, GoodProgram
<1>3. \A b \in BlocksOf(program) : b < block
  <2>1. BlocksOf(program) = 1..Len(program.blocks) /\ Len(program.blocks) \in Nat
    BY <1>2, ProgramSize
  <2> QED BY <1>1, <1>2, <2>1 DEF Positions
<1>4. CompleteUpTo(program, block) => \A b \in BlocksOf(program) : Complete(program, b)
  BY <1>3 DEF CompleteUpTo
<1> QED BY <1>1, <1>4 DEF RouteInv

\* Whatever the generator does keeps the invariant.
LEMMA GenerateKeepsRoutes ==
    ASSUME IRInv, IRInv', RouteInv, Generate
    PROVE  RouteInv'
BY CreateStatementsKeepsRoutes, StatementsCreatedKeepsRoutes, VisitStatementKeepsRoutes,
   NextBlockKeepsRoutes, TargetsComputedKeepsRoutes, AddJumpKeepsRoutes, SuccessorsAddedKeepsRoutes
   DEF Generate

\* All statements lead where the instructions go, in every state of an analysis.
THEOREM RouteInvariance == Spec => []RouteInv
<1>1. Init => RouteInv
  BY RoutesInitially DEF Init
<1>2. IRInv /\ IRInv' /\ RouteInv /\ [Next]_analysisVars => RouteInv'
  <2> SUFFICES ASSUME IRInv, IRInv', RouteInv, [Next]_analysisVars PROVE RouteInv'
    OBVIOUS
  <2>1. CASE CreateProgram
    BY <2>1, GenerateKeepsRoutes DEF CreateProgram
  <2>2. CASE CreateFunctions
    BY <2>2 DEF CreateFunctions, RouteInv
  <2>3. CASE Cancel
    BY <2>3 DEF Cancel, CancelGeneration, RouteInv
  <2>4. CASE Stay \/ UNCHANGED analysisVars
    BY <2>4 DEF Stay, analysisVars, irVars, RouteInv
  <2> QED BY <2>1, <2>2, <2>3, <2>4 DEF Next, Analyse
<1> QED BY <1>1, <1>2, ProgramInvariant, PTL DEF Spec
-----------------------------------------------------------------------------
(* Where control that arrives at an address goes on. *)

\* A failing instruction, which has no statement, has the byte at the address.
Passed(C, x) == \E j \in C : j.kind = "failing" /\ j.address <= x /\ x < EndOf(j)

\* The instruction with a statement that is reached from the address through failing ones.
Land(C, a) == {v \in Addresses(Sound(C)) : a <= v /\ \A x \in a..(v - 1) : Passed(C, x)}

\* What instructions are: those with a statement do not overlap those that fail.
LEMMA SoundNotPassed ==
    ASSUME NEW C \in Codes, Apart(C), NEW v \in Addresses(Sound(C))
    PROVE  v \in Nat /\ ~Passed(C, v)
<1>1. PICK i \in C : i.address = v /\ i.kind \notin {"invalid", "failing"}
  BY DEF Addresses, Sound
<1>2. v \in Nat /\ i.size \in Nat \ {0} /\ v < EndOf(i) /\ EndOf(i) \in Nat
  BY <1>1, CodeParts DEF EndOf
<1>3. ASSUME NEW j \in C, j.kind = "failing", j.address <= v, v < EndOf(j) PROVE FALSE
  <2>1. j.address \in Nat /\ EndOf(j) \in Nat
    BY CodeParts DEF EndOf
  <2>2. EndOf(i) <= j.address \/ EndOf(j) <= i.address
    BY <1>1, <1>3 DEF Apart
  <2> QED BY <1>1, <1>2, <1>3, <2>1, <2>2
<1> QED BY <1>2, <1>3 DEF Passed

\* Control goes on at one place at most.
LEMMA LandHere ==
    ASSUME NEW C \in Codes, Apart(C), NEW a \in Nat, NEW v \in Land(C, a)
    PROVE  Land(C, a) = {v}
<1>1. v \in Addresses(Sound(C)) /\ a <= v /\ \A x \in a..(v - 1) : Passed(C, x)
  BY DEF Land
<1>2. SUFFICES ASSUME NEW u \in Land(C, a) PROVE u = v
  OBVIOUS
<1>3. u \in Addresses(Sound(C)) /\ a <= u /\ \A x \in a..(u - 1) : Passed(C, x)
  BY DEF Land
<1>4. u \in Nat /\ v \in Nat /\ ~Passed(C, u) /\ ~Passed(C, v)
  BY <1>1, <1>3, SoundNotPassed
<1>5. ~(u < v)
  <2>1. u < v => u \in a..(v - 1)
    BY <1>3, <1>4
  <2> QED BY <1>1, <1>4, <2>1
<1>6. ~(v < u)
  <2>1. v < u => v \in a..(u - 1)
    BY <1>1, <1>4
  <2> QED BY <1>3, <1>4, <2>1
<1> QED BY <1>4, <1>5, <1>6

\* An instruction that has a statement is where control goes on itself.
LEMMA LandSound ==
    ASSUME NEW C \in Codes, Apart(C), NEW a \in Addresses(Sound(C))
    PROVE  Land(C, a) = {a}
<1>1. a \in Nat
  BY SoundNotPassed
<1>2. a..(a - 1) = {}
  BY <1>1
<1>3. a \in Land(C, a)
  BY <1>1, <1>2 DEF Land
<1> QED BY <1>1, <1>3, LandHere

\* Where only failing instructions are passed control goes on as behind them.
LEMMA LandFurther ==
    ASSUME NEW C \in Codes, Apart(C), NEW a \in Nat, NEW e \in Nat, a <= e,
           \A x \in a..(e - 1) : Passed(C, x)
    PROVE  Land(C, a) = Land(C, e)
<1>1. ASSUME NEW v \in Land(C, a) PROVE v \in Land(C, e)
  <2>1. v \in Addresses(Sound(C)) /\ a <= v /\ \A x \in a..(v - 1) : Passed(C, x)
    BY DEF Land
  <2>2. v \in Nat /\ ~Passed(C, v)
    BY <2>1, SoundNotPassed
  <2>3. ~(v < e)
    <3>1. v < e => v \in a..(e - 1)
      BY <2>1, <2>2
    <3> QED BY <2>2, <3>1
  <2>4. e <= v /\ \A x \in e..(v - 1) : x \in a..(v - 1)
    BY <2>2, <2>3
  <2> QED BY <2>1, <2>4 DEF Land
<1>2. ASSUME NEW v \in Land(C, e) PROVE v \in Land(C, a)
  <2>1. v \in Addresses(Sound(C)) /\ e <= v /\ \A x \in e..(v - 1) : Passed(C, x)
    BY DEF Land
  <2>2. v \in Nat
    BY <2>1, SoundNotPassed
  <2>3. a <= v /\ \A x \in a..(v - 1) : x \in a..(e - 1) \/ x \in e..(v - 1)
    BY <2>1, <2>2
  <2> QED BY <2>1, <2>3 DEF Land
<1> QED BY <1>1, <1>2

\* Behind a failing instruction it goes on as at its beginning.
LEMMA LandFailing ==
    ASSUME NEW C \in Codes, Apart(C), NEW i \in C, i.kind = "failing"
    PROVE  Land(C, i.address) = Land(C, EndOf(i))
<1>1. i.address \in Nat /\ EndOf(i) \in Nat /\ i.address <= EndOf(i)
  BY CodeParts DEF EndOf
<1>2. \A x \in i.address..(EndOf(i) - 1) : Passed(C, x)
  <2> SUFFICES ASSUME NEW x \in i.address..(EndOf(i) - 1) PROVE Passed(C, x)
    OBVIOUS
  <2>1. i.address <= x /\ x < EndOf(i)
    BY <1>1
  <2> QED BY <2>1 DEF Passed
<1> QED BY <1>1, <1>2, LandFurther

\* Where no instruction is it goes on nowhere.
LEMMA LandNowhere ==
    ASSUME NEW C \in Codes, NEW a \in Nat, Cut(C, a), a \notin Addresses(Sound(C)),
           \A i \in C : i.kind = "failing" => i.address # a
    PROVE  Land(C, a) = {}
<1> SUFFICES ASSUME NEW v \in Land(C, a) PROVE FALSE
  OBVIOUS
<1>1. v \in Addresses(Sound(C)) /\ a <= v /\ \A x \in a..(v - 1) : Passed(C, x)
  BY DEF Land
<1>2. v \in Nat
  BY <1>1, CodeParts DEF Addresses, Sound
<1>3. a \in a..(v - 1)
  BY <1>1, <1>2
<1>4. PICK j \in C : j.kind = "failing" /\ j.address <= a /\ a < EndOf(j)
  BY <1>1, <1>3 DEF Passed
<1>5. j.address \in Nat /\ EndOf(j) \in Nat
  BY CodeParts DEF EndOf
<1>6. a <= j.address
  BY <1>4, <1>5 DEF Cut
<1> QED BY <1>4, <1>5, <1>6

\* Among finitely many with a height one is highest.
LEMMA Topmost ==
    ASSUME NEW T, IsFiniteSet(T), T # {}, NEW h \in [T -> Nat]
    PROVE  \E m \in T : \A n \in T : h[n] <= h[m]
<1> DEFINE Above(m) == {n \in T : h[m] < h[n]}
           Counts == {Cardinality(Above(m)) : m \in T}
<1>1. \A m \in T : IsFiniteSet(Above(m)) /\ Cardinality(Above(m)) \in Nat
  <2> SUFFICES ASSUME NEW m \in T PROVE IsFiniteSet(Above(m)) /\ Cardinality(Above(m)) \in Nat
    OBVIOUS
  <2>1. Above(m) \in SUBSET T
    OBVIOUS
  <2>2. IsFiniteSet(Above(m))
    BY <2>1, FS_Subset
  <2> QED BY <2>2, FS_CardinalityType
<1>2. Counts \in SUBSET Nat /\ Counts # {}
  BY <1>1
<1>3. PICK k \in Counts : \A l \in Counts : k <= l
  <2> HIDE DEF Counts
  <2> QED BY <1>2, Least
<1>4. PICK m \in T : Cardinality(Above(m)) = k
  BY <1>3
<1>5. ASSUME NEW n \in T, h[m] < h[n] PROVE FALSE
  <2>1. Above(n) \in SUBSET Above(m)
    BY <1>5
  <2>2. n \in Above(m) /\ n \notin Above(n)
    BY <1>5
  <2>3. Cardinality(Above(m)) <= Cardinality(Above(n))
    BY <1>3, <1>4
  <2>4. /\ Cardinality(Above(n)) <= Cardinality(Above(m))
        /\ Cardinality(Above(m)) = Cardinality(Above(n)) => Above(m) = Above(n)
    <3> HIDE DEF Above
    <3> QED BY <1>1, <2>1, FS_Subset
  <2>5. Cardinality(Above(n)) = Cardinality(Above(m))
    <3> HIDE DEF Above
    <3> QED BY <1>1, <2>3, <2>4
  <2> QED BY <2>2, <2>4, <2>5
<1> QED BY <1>5

\* The function Landing is what is defined by its equation.
Edges(C) == {i.address : i \in C} \cup {EndOf(i) : i \in C}
Failing(C, a) == {j \in C : j.address = a /\ j.kind = "failing"}
Lands(g, C) ==
    g = [a \in Edges(C) |->
            IF a \in Addresses(Sound(C)) THEN {a} ELSE UNION {g[EndOf(i)] : i \in Failing(C, a)}]

\* Where instructions begin and end.
LEMMA EdgesAre ==
    ASSUME NEW C \in Codes, Apart(C), NEW a \in Edges(C)
    PROVE  a \in Nat /\ Cut(C, a)
<1>1. PICK i \in C : a = i.address \/ a = EndOf(i)
  BY DEF Edges
<1>2. i.address \in Nat /\ EndOf(i) \in Nat
  BY CodeParts DEF EndOf
<1> QED BY <1>1, <1>2, EdgesCut

\* What the addresses lead to satisfies the equation.
LEMMA LandSatisfies ==
    ASSUME NEW C \in Codes, Apart(C), NEW a \in Edges(C)
    PROVE  Land(C, a) = IF a \in Addresses(Sound(C)) THEN {a}
                        ELSE UNION {Land(C, EndOf(i)) : i \in Failing(C, a)}
<1>1. a \in Nat /\ Cut(C, a)
  BY EdgesAre
<1>2. CASE a \in Addresses(Sound(C))
  BY <1>2, LandSound
<1>3. CASE a \notin Addresses(Sound(C)) /\ Failing(C, a) = {}
  <2>1. Land(C, a) = {}
    BY <1>1, <1>3, LandNowhere DEF Failing
  <2> QED BY <1>3, <2>1
<1>4. CASE a \notin Addresses(Sound(C)) /\ Failing(C, a) # {}
  <2>1. \A i \in Failing(C, a) : Land(C, EndOf(i)) = Land(C, a)
    BY LandFailing DEF Failing
  <2> QED BY <1>4, <2>1
<1> QED BY <1>2, <1>3, <1>4

\* ... and nothing else does: where two differ they differ behind that as well.
LEMMA LandsOnly ==
    ASSUME NEW C \in Codes, Apart(C), NEW g, Lands(g, C), NEW a \in Edges(C)
    PROVE  g[a] = Land(C, a)
<1> DEFINE Bad == {i \in C : i.kind = "failing" /\ g[i.address] # Land(C, i.address)}
<1>1. \A b \in Edges(C) : g[b] = IF b \in Addresses(Sound(C)) THEN {b}
                                 ELSE UNION {g[EndOf(i)] : i \in Failing(C, b)}
  BY DEF Lands
<1>2. ASSUME NEW b \in Edges(C), \A i \in Failing(C, b) : g[EndOf(i)] = Land(C, EndOf(i))
      PROVE  g[b] = Land(C, b)
  <2>1. Land(C, b) = IF b \in Addresses(Sound(C)) THEN {b}
                     ELSE UNION {Land(C, EndOf(i)) : i \in Failing(C, b)}
    BY LandSatisfies
  <2>2. {g[EndOf(i)] : i \in Failing(C, b)} = {Land(C, EndOf(i)) : i \in Failing(C, b)}
    BY <1>2
  <2> QED BY <1>1, <2>1, <2>2
<1>3. \A b \in Edges(C) : g[b] # Land(C, b) => \E i \in Failing(C, b) : g[EndOf(i)] # Land(C, EndOf(i))
  BY <1>2
<1>4. ASSUME NEW b \in Edges(C), g[b] # Land(C, b) PROVE \E i \in Bad : i.address = b
  BY <1>3, <1>4 DEF Failing
<1>5. Bad = {}
  <2> SUFFICES ASSUME Bad # {} PROVE FALSE
    OBVIOUS
  <2> PICK h : h = [i \in Bad |-> i.address]
    OBVIOUS
  <2>1. IsFiniteSet(Bad)
    <3>1. IsFiniteSet(C)
      BY CodeParts
    <3>2. Bad \in SUBSET C
      OBVIOUS
    <3> HIDE DEF Bad
    <3> QED BY <3>1, <3>2, FS_Subset
  <2>2. h \in [Bad -> Nat]
    <3>1. \A i \in Bad : i.address \in Nat
      BY CodeParts
    <3> QED BY <3>1
  <2>3. PICK m \in Bad : \A n \in Bad : h[n] <= h[m]
    <3> HIDE DEF Bad
    <3> QED BY <2>1, <2>2, Topmost
  <2>4. m \in C /\ m.address \in Edges(C) /\ g[m.address] # Land(C, m.address)
    BY DEF Edges
  <2>5. PICK i \in Failing(C, m.address) : g[EndOf(i)] # Land(C, EndOf(i))
    BY <1>3, <2>4
  <2>6. i = m /\ EndOf(m) \in Edges(C)
    BY <2>4, <2>5, CodeParts DEF Failing, Edges
  <2>7. PICK n \in Bad : n.address = EndOf(m)
    BY <1>4, <2>5, <2>6
  <2>8. EndOf(m) <= m.address
    BY <2>3, <2>7
  <2>9. m.address \in Nat /\ m.size \in Nat \ {0}
    BY <2>4, CodeParts
  <2> QED BY <2>8, <2>9 DEF EndOf
<1> QED BY <1>4, <1>5

\* Landing is where control that arrives at the edge of an instruction goes on.
LEMMA LandingIsLand ==
    ASSUME code \in Codes, Apart(code)
    PROVE  DOMAIN Landing = Edges(code) /\ \A a \in Edges(code) : Landing[a] = Land(code, a)
<1> PICK g : g = [a \in Edges(code) |-> Land(code, a)]
  OBVIOUS
<1>1. \A i \in code : EndOf(i) \in Edges(code)
  BY DEF Edges
<1>2. ASSUME NEW a \in Edges(code)
      PROVE  g[a] = IF a \in Addresses(Sound(code)) THEN {a}
                    ELSE UNION {g[EndOf(i)] : i \in Failing(code, a)}
  <2>1. {g[EndOf(i)] : i \in Failing(code, a)} = {Land(code, EndOf(i)) : i \in Failing(code, a)}
    BY <1>1 DEF Failing
  <2> QED BY <2>1, LandSatisfies
<1>3. Lands(g, code)
  <2>1. g = [a \in Edges(code) |->
                IF a \in Addresses(Sound(code)) THEN {a}
                ELSE UNION {g[EndOf(i)] : i \in Failing(code, a)}]
    BY <1>2
  <2> QED BY <2>1 DEF Lands
<1> PICK f : f = CHOOSE h : Lands(h, code)
  OBVIOUS
<1>4. Lands(f, code)
  BY <1>3
<1>5. Landing = f
  BY DEF Landing, Lands, Edges, Failing, Addresses, Sound, Valid
<1>6. DOMAIN f = Edges(code)
  BY <1>4 DEF Lands
<1> QED BY <1>4, <1>5, <1>6, LandsOnly
-----------------------------------------------------------------------------
(* Where control that arrives in a block goes on. *)

\* The generated program as a whole.
Whole(C, p) ==
    /\ C \in Codes /\ Straight(C)
    /\ Formed(p) /\ Exact(p) /\ JumpsLast(p)
    /\ Known(p, Addresses(Sound(C)) \cup {None}) /\ Kept(p, Addresses(Sound(C)))
    /\ AddedLast(p, Len(p.blocks) + 1)
    /\ Routed(C, C, p) /\ SettledAll(C, p) /\ Added(p)
    /\ \A b \in BlocksOf(p) : Complete(p, b)

\* The generator leaves such a program.
LEMMA DoneIsWhole ==
    ASSUME IRInv, RouteInv, phase = "done", Straight(code)
    PROVE  Whole(code, program)
<1>1. Apart(code) /\ translated = code
  BY DEF Straight, RouteInv
<1>2. GoodProgram(code, code, program) /\ JumpsLast(program)
  BY <1>1 DEF IRInv
<1>3. /\ Routed(code, code, program) /\ SettledAll(code, program) /\ Added(program)
      /\ \A b \in BlocksOf(program) : Complete(program, b)
  BY <1>1 DEF RouteInv
<1> QED BY <1>1, <1>2, <1>3 DEF Whole, GoodProgram

\* Blocks are at numbers, and no two of them have a byte in common.
LEMMA BlocksApart ==
    ASSUME NEW p, Formed(p), Exact(p),
           NEW b \in BlocksOf(p), Bound(p, b), NEW c \in BlocksOf(p), Bound(p, c)
    PROVE  /\ p.blocks[b].address \in Nat /\ p.blocks[b].successor \in Nat
           /\ p.blocks[b].address <= p.blocks[b].successor
           /\ p.blocks[b].address = p.blocks[c].address => b = c
           /\ b = c \/ p.blocks[b].successor <= p.blocks[c].address
                    \/ p.blocks[c].successor <= p.blocks[b].address
<1>1. /\ p.blocks[b].address \in Nat /\ p.blocks[b].successor \in Nat
      /\ p.blocks[b].address <= p.blocks[b].successor
      /\ p.blocks[b].address = p.blocks[c].address => b = c
  BY DEF Formed, Mapped, Located
<1>2. EntryOf(p, b) \in p.ranges /\ EntryOf(p, c) \in p.ranges
  BY DEF Exact
<1>3. /\ EntryOf(p, b).range[1] = p.blocks[b].address
      /\ EntryOf(p, b).range[2] = p.blocks[b].successor
      /\ EntryOf(p, c).range[1] = p.blocks[c].address
      /\ EntryOf(p, c).range[2] = p.blocks[c].successor
      /\ EntryOf(p, b).block = b /\ EntryOf(p, c).block = c
  BY DEF EntryOf, RangeOfBlock
<1>4. b # c => EntryOf(p, b) # EntryOf(p, c)
  BY <1>3
<1>5. b # c => \/ p.blocks[b].successor <= p.blocks[c].address
               \/ p.blocks[c].successor <= p.blocks[b].address
  BY <1>2, <1>3, <1>4 DEF Formed, Mapped, Ordered, Left
<1> QED BY <1>1, <1>5

\* A byte of a block is one of a failing instruction, or of one with a statement in it.
LEMMA ByteOfBlock ==
    ASSUME NEW C, NEW p, Whole(C, p), NEW b \in BlocksOf(p), Bound(p, b),
           NEW x \in Nat, Cut(C, x), p.blocks[b].address <= x,
           NEW y \in Nat, x <= y, y < p.blocks[b].successor
    PROVE  \/ Passed(C, y)
           \/ \E m \in DOMAIN p.blocks[b].statements :
                 LET v == p.blocks[b].statements[m].instruction
                 IN  v \in Nat /\ x <= v /\ v <= y
<1>1. Holds(p, b, y)
  BY BlocksApart DEF Holds, Whole
<1>2. PICK j \in C : j.kind # "invalid" /\ j.address <= y /\ y < EndOf(j)
  BY <1>1 DEF Whole, Routed, Tiled, Covered, Occupied
<1>3. CASE j.kind = "failing"
  BY <1>2, <1>3 DEF Passed
<1>4. CASE j.kind # "failing"
  <2>1. j.address \in Addresses(Sound(C))
    BY <1>2, <1>4 DEF Addresses, Sound
  <2>2. PICK c, m : IsOf(p, c, m, j.address)
    BY <2>1 DEF Whole, Kept, OnlyOne
  <2>3. /\ c \in BlocksOf(p) /\ Bound(p, c) /\ m \in DOMAIN p.blocks[c].statements
        /\ p.blocks[c].statements[m].instruction = j.address
    BY <2>2 DEF IsOf
  <2>4. j.address \in Nat /\ EndOf(j) \in Nat
    BY CodeParts DEF EndOf, Whole
  <2>5. p.blocks[c].address <= j.address /\ j.address < p.blocks[c].successor
    BY <2>3, <2>4 DEF Whole, Formed, Inside, None
  <2>6. x <= j.address
    BY <1>2, <2>4 DEF Cut
  <2>7. c = b
    <3>1. /\ p.blocks[b].address \in Nat /\ p.blocks[b].successor \in Nat
          /\ p.blocks[c].address \in Nat /\ p.blocks[c].successor \in Nat
          /\ b = c \/ p.blocks[b].successor <= p.blocks[c].address
                   \/ p.blocks[c].successor <= p.blocks[b].address
      BY <2>3, BlocksApart DEF Whole
    <3> QED BY <1>2, <2>4, <2>5, <2>6, <3>1
  <2> QED BY <1>2, <2>3, <2>4, <2>6, <2>7
<1> QED BY <1>3, <1>4

\* What comes at the m-th place of a block: a statement, or what is behind the block.
At(C, p, b, m) ==
    IF m \notin DOMAIN p.blocks[b].statements THEN {}
    ELSE IF p.blocks[b].statements[m].instruction # None
    THEN {p.blocks[b].statements[m].instruction}
    ELSE Land(C, p.blocks[b].successor)

\* Nothing follows a block that is not ended by a jump and gets none.
LEMMA NothingBehind ==
    ASSUME NEW C, NEW p, Whole(C, p), NEW b \in BlocksOf(p), Bound(p, b), ~HasTerminator(p.blocks[b])
    PROVE  Land(C, p.blocks[b].successor) = {}
<1> PICK a : a = p.blocks[b].successor
  OBVIOUS
<1>1. p.blocks[b].address \in Nat /\ a \in Nat /\ p.blocks[b].address <= a /\ C \in Codes
  BY BlocksApart DEF Whole
<1>2. p.blocks[b].address = a \/ StartingAt(p, a) = {}
  BY DEF Whole, Complete
<1>3. Cut(C, a)
  BY DEF Whole, Routed, Tiled
<1>4. ASSUME NEW j \in C, j.kind # "invalid", j.address = a PROVE FALSE
  <2>1. a < EndOf(j)
    BY <1>1, <1>4, CodeParts DEF EndOf
  <2>2. Covered(p, a)
    BY <1>1, <1>4, <2>1 DEF Whole, Routed, Tiled, Occupied
  <2>3. PICK c : Holds(p, c, a)
    BY <2>2 DEF Covered
  <2>4. c \in BlocksOf(p) /\ Bound(p, c) /\ p.blocks[c].address <= a /\ a < p.blocks[c].successor
    BY <2>3 DEF Holds
  <2>5. /\ p.blocks[c].address \in Nat /\ p.blocks[c].successor \in Nat
        /\ p.blocks[b].address = p.blocks[c].address => b = c
        /\ b = c \/ p.blocks[b].successor <= p.blocks[c].address
                 \/ p.blocks[c].successor <= p.blocks[b].address
    BY <2>4, BlocksApart DEF Whole
  <2>6. b # c
    BY <1>1, <2>4
  <2>7. p.blocks[c].address = a
    BY <1>1, <2>4, <2>5, <2>6
  <2>8. c \in StartingAt(p, a)
    BY <1>1, <2>4, <2>7 DEF StartingAt, None
  <2> QED BY <1>2, <2>5, <2>6, <2>7, <2>8
<1>5. a \notin Addresses(Sound(C)) /\ \A i \in C : i.kind = "failing" => i.address # a
  BY <1>4 DEF Addresses, Sound
<1> QED BY <1>1, <1>3, <1>5, LandNowhere

\* Control that arrives between two instructions in a block goes on at the next place.
LEMMA LandInBlock ==
    ASSUME NEW C, NEW p, Whole(C, p), NEW b \in BlocksOf(p), Bound(p, b),
           NEW x \in Nat, Cut(C, x), p.blocks[b].address <= x, x <= p.blocks[b].successor,
           NEW m \in Nat \ {0}, m <= Len(p.blocks[b].statements) + 1,
           \A l \in DOMAIN p.blocks[b].statements :
               p.blocks[b].statements[l].instruction # None =>
                   (p.blocks[b].statements[l].instruction >= x <=> l >= m),
           m \notin DOMAIN p.blocks[b].statements => ~HasTerminator(p.blocks[b])
    PROVE  Land(C, x) = At(C, p, b, m)
<1> PICK ss : ss = p.blocks[b].statements
  OBVIOUS
<1> PICK a : a = p.blocks[b].successor
  OBVIOUS
<1>1. p \in Programs(StatementRecords) /\ ss \in Seq(StatementRecords) /\ DOMAIN ss = 1..Len(ss) /\ Len(ss) \in Nat
  BY ProgramParts DEF Whole, Formed
<1>2. a \in Nat /\ C \in Codes /\ Apart(C)
  BY BlocksApart DEF Whole, Straight
<1>3. \A l \in DOMAIN ss : ss[l].instruction # None =>
          ss[l].instruction \in Addresses(Sound(C)) /\ ss[l].instruction \in Nat
  <2>1. \A l \in DOMAIN ss : Occurs(p, ss[l])
    BY DEF Occurs
  <2>2. Addresses(Sound(C)) \in SUBSET Nat
    BY <1>2, SoundAddresses
  <2> QED BY <2>1, <2>2 DEF Whole, Known
<1>4. CASE m \in DOMAIN ss /\ ss[m].instruction # None
  <2> PICK v : v = ss[m].instruction
    OBVIOUS
  <2>1. v \in Addresses(Sound(C)) /\ v \in Nat /\ x <= v /\ v < a
    <3>1. v < a
      BY <1>4 DEF Whole, Formed, Inside
    <3>2. m >= m
      OBVIOUS
    <3>3. v >= x
      BY <1>4, <3>2
    <3> QED BY <1>3, <1>4, <3>1, <3>3
  <2>2. ASSUME NEW y \in x..(v - 1) PROVE Passed(C, y)
    <3>1. y \in Nat /\ x <= y /\ y < v /\ y < a
      BY <1>2, <2>1
    <3>2. ASSUME NEW l \in DOMAIN ss, ss[l].instruction \in Nat, x <= ss[l].instruction, ss[l].instruction <= y
          PROVE  FALSE
      <4>1. ss[l].instruction # None
        BY <3>2 DEF None
      <4>2. l >= m
        BY <3>2, <4>1
      <4>3. l # m
        BY <2>1, <3>1, <3>2
      <4>4. m < l
        BY <1>1, <4>2, <4>3
      <4>5. v < ss[l].instruction
        BY <1>4, <4>1, <4>4 DEF Whole, Formed, Inside
      <4> QED BY <2>1, <3>1, <3>2, <4>5
    <3> QED BY <3>1, <3>2, ByteOfBlock
  <2>3. v \in Land(C, x)
    BY <2>1, <2>2 DEF Land
  <2>4. Land(C, x) = {v}
    BY <1>2, <2>3, LandHere
  <2>5. At(C, p, b, m) = {v}
    BY <1>4 DEF At
  <2> QED BY <2>4, <2>5
<1>5. CASE m \notin DOMAIN ss \/ ss[m].instruction = None
  <2>1. ASSUME NEW l \in DOMAIN ss, ss[l].instruction \in Nat, x <= ss[l].instruction
        PROVE  FALSE
    <3>1. ss[l].instruction # None
      BY <2>1 DEF None
    <3>2. l >= m
      BY <2>1, <3>1
    <3>3. l <= Len(ss) /\ l \in Nat
      BY <1>1
    <3>4. m \in DOMAIN ss
      BY <1>1, <3>2, <3>3
    <3>5. m = Len(ss)
      BY <1>5, <3>4 DEF Whole, AddedLast
    <3>6. l = m
      BY <1>1, <3>2, <3>3, <3>5
    <3> QED BY <1>5, <3>1, <3>4, <3>6
  <2>2. \A y \in x..(a - 1) : Passed(C, y)
    <3> SUFFICES ASSUME NEW y \in x..(a - 1) PROVE Passed(C, y)
      OBVIOUS
    <3>1. y \in Nat /\ x <= y /\ y < a
      BY <1>2
    <3> QED BY <2>1, <3>1, ByteOfBlock
  <2>3. Land(C, x) = Land(C, a)
    BY <1>2, <2>2, LandFurther
  <2>4. CASE m \in DOMAIN ss
    BY <1>5, <2>3, <2>4 DEF At
  <2>5. CASE m \notin DOMAIN ss
    <3>1. Land(C, a) = {}
      BY <2>5, NothingBehind
    <3> QED BY <2>3, <2>5, <3>1 DEF At
  <2> QED BY <2>4, <2>5
<1> QED BY <1>4, <1>5

\* Control that arrives in a block goes on as it does at the address of the block.
LEMMA FirstIsLand ==
    ASSUME NEW C, NEW p, Whole(C, p), NEW b \in BlocksOf(p), Bound(p, b)
    PROVE  At(C, p, b, 1) = Land(C, p.blocks[b].address)
<1> PICK ss : ss = p.blocks[b].statements
  OBVIOUS
<1> PICK x : x = p.blocks[b].address
  OBVIOUS
<1>1. p \in Programs(StatementRecords) /\ DOMAIN ss = 1..Len(ss) /\ Len(ss) \in Nat /\ ss \in Seq(StatementRecords)
  BY ProgramParts DEF Whole, Formed
<1>2. x \in Nat /\ x <= p.blocks[b].successor
  BY BlocksApart DEF Whole
<1>3. Cut(C, x)
  BY DEF Whole, Routed, Tiled
<1>4. \A l \in DOMAIN ss : ss[l].instruction # None => (ss[l].instruction >= x <=> l >= 1)
  <2> SUFFICES ASSUME NEW l \in DOMAIN ss, ss[l].instruction # None
               PROVE  ss[l].instruction >= x <=> l >= 1
    OBVIOUS
  <2>1. x <= ss[l].instruction
    BY DEF Whole, Formed, Inside
  <2>2. ss[l].instruction \in Nat /\ l \in Nat /\ l >= 1
    <3>1. ss[l] \in StatementRecords
      BY <1>1
    <3> QED BY <1>1, <3>1, RecordParts
  <2> QED BY <1>2, <2>1, <2>2
<1>5. 1 \notin DOMAIN ss => ~HasTerminator(p.blocks[b])
  <2>1. 1 \notin DOMAIN ss => ss = <<>>
    BY <1>1
  <2> QED BY <2>1 DEF HasTerminator
<1>6. 1 \in Nat \ {0} /\ 1 <= Len(ss) + 1
  BY <1>1
<1> QED BY <1>2, <1>3, <1>4, <1>5, <1>6, LandInBlock

\* The function Entered is what is defined by its equation.
Enters(g, p) ==
    g = [b \in BlocksOf(p) |->
            LET ss == p.blocks[b].statements
            IN  IF ss = <<>> THEN {}
                ELSE IF ss[1].instruction # None THEN {ss[1].instruction}
                ELSE UNION {g[c] : c \in ss[1].blocks}]

\* A block that begins with an added jump leads to the block behind it.
LEMMA JumpOnly ==
    ASSUME NEW C, NEW p, Whole(C, p), NEW b \in BlocksOf(p),
           NEW m \in DOMAIN p.blocks[b].statements, p.blocks[b].statements[m].instruction = None
    PROVE  /\ Bound(p, b) /\ At(C, p, b, m) = Land(C, p.blocks[b].successor)
           /\ p.blocks[b].statements[m].blocks # {}
           /\ \A c \in p.blocks[b].statements[m].blocks :
                 /\ c \in BlocksOf(p) /\ Bound(p, c)
                 /\ p.blocks[c].address = p.blocks[b].successor
                 /\ p.blocks[b].address < p.blocks[c].address
                 /\ At(C, p, c, 1) = At(C, p, b, m)
<1> PICK s : s = p.blocks[b].statements[m]
  OBVIOUS
<1>1. /\ Bound(p, b) /\ s.blocks = StartingAt(p, p.blocks[b].successor) /\ s.blocks # {}
      /\ p.blocks[b].successor # p.blocks[b].address
  BY DEF Whole, Added
<1>2. At(C, p, b, m) = Land(C, p.blocks[b].successor)
  BY DEF At
<1>3. ASSUME NEW c \in s.blocks
      PROVE  /\ c \in BlocksOf(p) /\ Bound(p, c)
             /\ p.blocks[c].address = p.blocks[b].successor
             /\ p.blocks[b].address < p.blocks[c].address
             /\ At(C, p, c, 1) = At(C, p, b, m)
  <2>1. c \in BlocksOf(p) /\ p.blocks[c].address = p.blocks[b].successor /\ p.blocks[c].address # None
    BY <1>1 DEF StartingAt
  <2>2. Bound(p, c)
    BY <2>1 DEF Bound
  <2>3. At(C, p, c, 1) = Land(C, p.blocks[c].address)
    BY <2>1, <2>2, FirstIsLand
  <2>4. /\ p.blocks[b].address \in Nat /\ p.blocks[b].successor \in Nat
        /\ p.blocks[b].address <= p.blocks[b].successor
    BY <1>1, BlocksApart DEF Whole
  <2> QED BY <1>1, <1>2, <2>1, <2>2, <2>3, <2>4
<1> QED BY <1>1, <1>2, <1>3

\* What the places say satisfies the equation.
LEMMA FirstSatisfies ==
    ASSUME NEW C, NEW p, Whole(C, p), NEW b \in BlocksOf(p), NEW ss, ss = p.blocks[b].statements
    PROVE  /\ At(C, p, b, 1) = IF ss = <<>> THEN {}
                               ELSE IF ss[1].instruction # None THEN {ss[1].instruction}
                               ELSE UNION {At(C, p, c, 1) : c \in ss[1].blocks}
           /\ ss # <<>> => 1 \in DOMAIN ss
<1>1. p \in Programs(StatementRecords) /\ DOMAIN ss = 1..Len(ss) /\ Len(ss) \in Nat /\ ss \in Seq(StatementRecords)
  BY ProgramParts DEF Whole, Formed
<1>2. ss # <<>> <=> 1 \in DOMAIN ss
  BY <1>1
<1>3. CASE ss = <<>>
  BY <1>2, <1>3 DEF At
<1>4. CASE ss # <<>> /\ ss[1].instruction # None
  BY <1>2, <1>4 DEF At
<1>5. CASE ss # <<>> /\ ss[1].instruction = None
  <2>1. ss[1].blocks # {} /\ \A c \in ss[1].blocks : At(C, p, c, 1) = At(C, p, b, 1)
    BY <1>2, <1>5, JumpOnly
  <2> QED BY <1>2, <1>5, <2>1
<1> QED BY <1>2, <1>3, <1>4, <1>5

\* ... and nothing else does: where two differ they differ in the block behind as well.
LEMMA EntersOnly ==
    ASSUME NEW C, NEW p, Whole(C, p), NEW g, Enters(g, p), NEW a \in BlocksOf(p)
    PROVE  g[a] = At(C, p, a, 1)
<1> DEFINE Bad == {b \in BlocksOf(p) : g[b] # At(C, p, b, 1)}
<1>1. ASSUME NEW b \in Bad
      PROVE  /\ p.blocks[b].address \in Nat
             /\ \E c \in Bad : p.blocks[b].address < p.blocks[c].address
  <2> PICK ss : ss = p.blocks[b].statements
    OBVIOUS
  <2>1. g[b] = IF ss = <<>> THEN {}
               ELSE IF ss[1].instruction # None THEN {ss[1].instruction}
               ELSE UNION {g[c] : c \in ss[1].blocks}
    BY DEF Enters
  <2>2. /\ At(C, p, b, 1) = IF ss = <<>> THEN {}
                            ELSE IF ss[1].instruction # None THEN {ss[1].instruction}
                            ELSE UNION {At(C, p, c, 1) : c \in ss[1].blocks}
        /\ ss # <<>> => 1 \in DOMAIN ss
    BY FirstSatisfies
  <2>3. ss # <<>> /\ ss[1].instruction = None
    BY <2>1, <2>2
  <2>4. UNION {g[c] : c \in ss[1].blocks} # UNION {At(C, p, c, 1) : c \in ss[1].blocks}
    BY <2>1, <2>2, <2>3
  <2>5. \E c \in ss[1].blocks : g[c] # At(C, p, c, 1)
    BY <2>4
  <2>6. /\ Bound(p, b)
        /\ \A c \in ss[1].blocks : c \in BlocksOf(p) /\ p.blocks[b].address < p.blocks[c].address
    BY <2>2, <2>3, JumpOnly
  <2>7. p.blocks[b].address \in Nat
    BY <2>6, BlocksApart DEF Whole
  <2> QED BY <2>5, <2>6, <2>7
<1>2. Bad = {}
  <2> SUFFICES ASSUME Bad # {} PROVE FALSE
    OBVIOUS
  <2> PICK h : h = [b \in Bad |-> p.blocks[b].address]
    OBVIOUS
  <2>1. IsFiniteSet(Bad)
    <3> HIDE DEF Bad
    <3>4. Formed(p)
      BY DEF Whole
    <3>1. BlocksOf(p) = 1..Len(p.blocks) /\ Len(p.blocks) \in Nat
      BY ONLY <3>4, ProgramSize
    <3> USE DEF Bad
    <3> PICK n : n = Len(p.blocks)
      OBVIOUS
    <3>5. 1 \in Int /\ n \in Int
      BY <3>1
    <3>6. IsFiniteSet(1..n)
      BY ONLY <3>5, FS_Interval
    <3>2. IsFiniteSet(BlocksOf(p))
      BY <3>1, <3>6
    <3>3. Bad \in SUBSET BlocksOf(p)
      OBVIOUS
    <3> HIDE DEF Bad
    <3> QED BY <3>2, <3>3, FS_Subset
  <2> HIDE DEF Bad
  <2>2. h \in [Bad -> Nat]
    BY <1>1
  <2>3. PICK m \in Bad : \A n \in Bad : h[n] <= h[m]
    BY <2>1, <2>2, Topmost
  <2>4. PICK c \in Bad : p.blocks[m].address < p.blocks[c].address
    BY <1>1
  <2>5. h[c] <= h[m] /\ h[c] \in Nat /\ h[m] \in Nat /\ h[m] < h[c]
    BY <2>2, <2>3, <2>4
  <2> QED BY <2>5
<1> QED BY <1>2

\* Entered is what the first place of each block says.
LEMMA EnteredIsFirst ==
    ASSUME Whole(code, program)
    PROVE  \A b \in BlocksOf(program) : Entered[b] = At(code, program, b, 1)
<1> PICK p : p = program
  OBVIOUS
<1> PICK g : g = [b \in BlocksOf(p) |-> At(code, p, b, 1)]
  OBVIOUS
<1>1. ASSUME NEW b \in BlocksOf(p)
      PROVE  g[b] = LET ss == p.blocks[b].statements
                    IN  IF ss = <<>> THEN {}
                        ELSE IF ss[1].instruction # None THEN {ss[1].instruction}
                        ELSE UNION {g[c] : c \in ss[1].blocks}
  <2> PICK ss : ss = p.blocks[b].statements
    OBVIOUS
  <2>1. /\ At(code, p, b, 1) = IF ss = <<>> THEN {}
                               ELSE IF ss[1].instruction # None THEN {ss[1].instruction}
                               ELSE UNION {At(code, p, c, 1) : c \in ss[1].blocks}
        /\ ss # <<>> => 1 \in DOMAIN ss
    BY FirstSatisfies
  <2>2. ss # <<>> /\ ss[1].instruction = None =>
            {g[c] : c \in ss[1].blocks} = {At(code, p, c, 1) : c \in ss[1].blocks}
    BY <2>1, JumpOnly
  <2>3. g[b] = At(code, p, b, 1)
    OBVIOUS
  <2> QED BY <2>1, <2>2, <2>3
<1>2. Enters(g, p)
  <2>1. g = [b \in BlocksOf(p) |->
                LET ss == p.blocks[b].statements
                IN  IF ss = <<>> THEN {}
                    ELSE IF ss[1].instruction # None THEN {ss[1].instruction}
                    ELSE UNION {g[c] : c \in ss[1].blocks}]
    BY <1>1
  <2> QED BY <2>1 DEF Enters
<1> PICK f : f = CHOOSE h : Enters(h, p)
  OBVIOUS
<1>3. Enters(f, p)
  BY <1>2
<1>4. Entered = f
  BY DEF Entered, Enters
<1> QED BY <1>3, <1>4, EntersOnly
-----------------------------------------------------------------------------
(* What follows an instruction. *)

\* The one place of an instruction, and its statement there.
LEMMA PlaceOfInstruction ==
    ASSUME Whole(code, program), NEW i \in Valid
    PROVE  \E b, n : /\ IsOf(program, b, n, i.address)
                     /\ \A c, l : IsOf(program, c, l, i.address) => c = b /\ l = n
                     /\ Stated(program, program.blocks[b].statements[n], i)
                     /\ Settled(code, program.blocks[b].statements[n])
<1>1. i \in code /\ i.address \in Addresses(Sound(code)) /\ i.address \in Nat
  BY CodeParts DEF Valid, Sound, Addresses, Whole
<1>2. PICK b, n : /\ IsOf(program, b, n, i.address)
                  /\ \A c, l : IsOf(program, c, l, i.address) => c = b /\ l = n
  BY <1>1 DEF Whole, Kept, OnlyOne
<1> PICK s : s = program.blocks[b].statements[n]
  OBVIOUS
<1>3. Held(program, s) /\ s.instruction = i.address /\ s.instruction # None
  BY <1>1, <1>2 DEF IsOf, Held, None
<1>4. PICK j \in Sound(code) : Stated(program, s, j)
  BY <1>3 DEF Whole, Routed, Led
<1>5. j = i
  BY <1>1, <1>3, <1>4, CodeParts DEF Stated, Sound, Whole
<1>6. Settled(code, s)
  BY <1>3 DEF Whole, SettledAll
<1> QED BY <1>2, <1>4, <1>5, <1>6

\* What follows the statement at a place.
Goes(p, b, n) ==
    LET ss == p.blocks[b].statements
    IN  IF ss[n].kind = "jump"
        THEN UNION {Entered[c] : c \in ss[n].blocks \cap {d \in BlocksOf(p) : Bound(p, d)}}
        ELSE IF ss[n].kind = "return" \/ n = Len(ss) THEN {}
        ELSE IF ss[n + 1].instruction = None
        THEN UNION {Entered[c] : c \in ss[n + 1].blocks}
        ELSE {ss[n + 1].instruction}

\* Nothing else follows the instruction.
LEMMA FollowsPlace ==
    ASSUME NEW i, NEW b, NEW n, IsOf(program, b, n, i.address),
           \A c, l : IsOf(program, c, l, i.address) => c = b /\ l = n
    PROVE  Follows(i) = Goes(program, b, n)
<1> DEFINE Here(c) == {m \in DOMAIN program.blocks[c].statements :
                          program.blocks[c].statements[m].instruction = i.address}
           All == UNION {UNION {Goes(program, c, m) : m \in Here(c)} : c \in BoundBlocks}
<1>1. Follows(i) = All
  BY DEF Follows, Goes, BoundBlocks
<1>2. b \in BoundBlocks /\ Here(b) = {n}
  BY DEF IsOf, BoundBlocks
<1>3. \A c \in BoundBlocks : c # b => Here(c) = {}
  BY DEF IsOf, BoundBlocks
<1> HIDE DEF Here
<1>4. \A c \in BoundBlocks : UNION {Goes(program, c, m) : m \in Here(c)} \subseteq Goes(program, b, n)
  BY <1>2, <1>3
<1>5. UNION {Goes(program, b, m) : m \in Here(b)} = Goes(program, b, n)
  BY <1>2
<1>6. All = Goes(program, b, n)
  BY <1>2, <1>4, <1>5
<1> QED BY <1>1, <1>6

\* Behind an instruction that falls through control goes on as at its end.
LEMMA GoesOn ==
    ASSUME Whole(code, program), NEW i \in Valid, NEW b, NEW n, IsOf(program, b, n, i.address),
           program.blocks[b].statements[n].kind \notin Terminators
    PROVE  Goes(program, b, n) = Land(code, EndOf(i))
<1> PICK p : p = program
  OBVIOUS
<1> PICK ss : ss = p.blocks[b].statements
  OBVIOUS
<1> PICK x : x = EndOf(i)
  OBVIOUS
<1>1. /\ p \in Programs(StatementRecords) /\ b \in BlocksOf(p) /\ Bound(p, b) /\ n \in DOMAIN ss
      /\ ss[n].instruction = i.address
  BY DEF IsOf, Whole, Formed
<1>2. ss \in Seq(StatementRecords) /\ DOMAIN ss = 1..Len(ss) /\ Len(ss) \in Nat
  BY <1>1, ProgramParts
<1>3. i \in code /\ code \in Codes /\ Apart(code) /\ i.address \in Nat /\ x \in Nat /\ i.address < x
  BY CodeParts DEF Valid, Whole, Straight, EndOf
<1>4. /\ p.blocks[b].address \in Nat /\ p.blocks[b].successor \in Nat
  BY <1>1, BlocksApart DEF Whole
<1>5. p.blocks[b].address <= i.address /\ i.address < p.blocks[b].successor
  BY <1>1, <1>3 DEF Whole, Formed, Inside, None
<1>6. Cut(code, x) /\ p.blocks[b].address <= x /\ x <= p.blocks[b].successor
  <2>1. Cut(code, x)
    BY <1>3, EdgesCut
  <2>2. Cut(code, p.blocks[b].successor)
    BY <1>1 DEF Whole, Routed, Tiled
  <2>3. p.blocks[b].successor <= i.address \/ x <= p.blocks[b].successor
    BY <1>3, <2>2 DEF Cut
  <2> QED BY <1>3, <1>4, <1>5, <2>1, <2>3
<1>7. ASSUME NEW l \in DOMAIN ss, ss[l].instruction # None
      PROVE  ss[l].instruction >= x <=> l >= n + 1
  <2>1. ss[l].instruction \in Nat /\ \E j \in code : j.address = ss[l].instruction
    <3>1. Occurs(p, ss[l])
      BY <1>1 DEF Occurs
    <3>2. ss[l].instruction \in Addresses(Sound(code))
      BY <1>7, <3>1 DEF Whole, Known
    <3> QED BY <1>3, <3>2, CodeParts DEF Addresses, Sound
  <2>2. PICK j \in code : j.address = ss[l].instruction
    BY <2>1
  <2>3. j.address \in Nat /\ EndOf(j) \in Nat /\ j.address < EndOf(j)
    BY <1>3, CodeParts DEF EndOf
  <2>4. l < n => ss[l].instruction < i.address
    BY <1>1, <1>3, <1>7 DEF Whole, Formed, Inside, None
  <2>5. n < l => i.address < ss[l].instruction
    BY <1>1, <1>3, <1>7 DEF Whole, Formed, Inside, None
  <2>6. n < l => x <= ss[l].instruction
    <3> SUFFICES ASSUME n < l PROVE x <= ss[l].instruction
      OBVIOUS
    <3>1. i # j
      BY <1>3, <2>2, <2>3, <2>5
    <3>2. EndOf(i) <= j.address \/ EndOf(j) <= i.address
      BY <1>3, <3>1 DEF Apart
    <3> QED BY <1>3, <2>2, <2>3, <2>5, <3>2
  <2>7. l \in Nat /\ n \in Nat
    BY <1>1, <1>2
  <2>8. CASE l < n
    BY <1>3, <2>1, <2>4, <2>7, <2>8
  <2>9. CASE l = n
    BY <1>1, <1>3, <2>7, <2>9
  <2>10. CASE n < l
    BY <1>3, <2>1, <2>6, <2>7, <2>10
  <2> QED BY <2>7, <2>8, <2>9, <2>10
<1>8. n + 1 \in Nat \ {0} /\ n + 1 <= Len(ss) + 1 /\ (n + 1 \in DOMAIN ss <=> n # Len(ss))
  BY <1>1, <1>2
<1>9. n + 1 \notin DOMAIN ss => ~HasTerminator(p.blocks[b])
  <2>1. n + 1 \notin DOMAIN ss => n = Len(ss)
    BY <1>8
  <2> QED BY <2>1 DEF HasTerminator
<1>10. Land(code, x) = At(code, p, b, n + 1)
  BY <1>1, <1>3, <1>6, <1>7, <1>8, <1>9, LandInBlock
<1>11. ss[n].kind # "jump" /\ ss[n].kind # "return"
  BY DEF Terminators
<1>12. CASE n = Len(ss)
  <2>1. Goes(p, b, n) = {}
    BY <1>11, <1>12 DEF Goes
  <2> QED BY <1>8, <1>10, <1>12, <2>1 DEF At
<1>13. CASE n # Len(ss) /\ ss[n + 1].instruction # None
  <2>1. Goes(p, b, n) = {ss[n + 1].instruction}
    BY <1>11, <1>13 DEF Goes
  <2> QED BY <1>8, <1>10, <1>13, <2>1 DEF At
<1>14. CASE n # Len(ss) /\ ss[n + 1].instruction = None
  <2>1. Goes(p, b, n) = UNION {Entered[c] : c \in ss[n + 1].blocks}
    BY <1>11, <1>14 DEF Goes
  <2>2. /\ ss[n + 1].blocks # {}
        /\ \A c \in ss[n + 1].blocks : c \in BlocksOf(p) /\ At(code, p, c, 1) = At(code, p, b, n + 1)
    BY <1>1, <1>8, <1>14, JumpOnly
  <2>3. \A c \in ss[n + 1].blocks : Entered[c] = At(code, p, b, n + 1)
    BY <2>2, EnteredIsFirst
  <2> QED BY <1>10, <2>1, <2>2, <2>3
<1> QED BY <1>12, <1>13, <1>14

\* Behind a jump control goes on where the jump aims.
LEMMA GoesWhereAimed ==
    ASSUME Whole(code, program), NEW i \in Valid, NEW b, NEW n, IsOf(program, b, n, i.address),
           NEW s, s = program.blocks[b].statements[n], s.kind = "jump", Stated(program, s, i)
    PROVE  Goes(program, b, n) = UNION {Land(code, a) : a \in {x \in Nat : Aims(i, s, x)}}
<1> PICK p : p = program
  OBVIOUS
<1> DEFINE Heads == s.blocks \cap {d \in BlocksOf(p) : Bound(p, d)}
           Aimed == {x \in Nat : Aims(i, s, x)}
<1>1. Goes(p, b, n) = UNION {Entered[c] : c \in Heads}
  BY DEF Goes
<1>2. ASSUME NEW c \in Heads
      PROVE  Entered[c] = Land(code, p.blocks[c].address) /\ p.blocks[c].address \in Nat
  <2>1. c \in BlocksOf(p) /\ Bound(p, c)
    OBVIOUS
  <2> QED BY <2>1, EnteredIsFirst, FirstIsLand, BlocksApart DEF Whole
<1>3. \A x \in Nat : Reaches(p, s, x) <=> Aims(i, s, x)
  BY DEF Stated
<1>4. \A c \in Heads : p.blocks[c].address \in Aimed
  BY <1>2, <1>3 DEF Reaches
<1>5. ASSUME NEW x \in Aimed PROVE \E c \in Heads : p.blocks[c].address = x
  <2>1. PICK c \in s.blocks : p.blocks[c].address = x
    BY <1>3 DEF Reaches
  <2>2. Bound(p, c)
    BY <2>1 DEF Bound, None
  <2>3. c \in BlocksOf(p)
    <3>1. Occurs(p, s)
      BY DEF IsOf, Occurs
    <3> QED BY <3>1 DEF Whole, Known
  <2> QED BY <2>1, <2>2, <2>3
<1> HIDE DEF Heads, Aimed
<1>6. UNION {Entered[c] : c \in Heads} = UNION {Land(code, a) : a \in Aimed}
  <2>1. \A c \in Heads : Entered[c] = Land(code, p.blocks[c].address)
    BY <1>2
  <2> QED BY <1>4, <1>5, <2>1
<1> QED BY <1>1, <1>6 DEF Aimed

\* A jump aims at the destinations of its instruction.
LEMMA AimsAreDestinations ==
    ASSUME Whole(code, program), NEW i \in Valid, NEW b, NEW n, IsOf(program, b, n, i.address),
           \A c, l : IsOf(program, c, l, i.address) => c = b /\ l = n,
           NEW s, s = program.blocks[b].statements[n], s.kind = "jump",
           Stated(program, s, i), Settled(code, s)
    PROVE  Destinations(i) = {x \in Nat : Aims(i, s, x)}
<1> PICK targets : targets = {i.targets[m] : m \in DOMAIN i.targets}
  OBVIOUS
<1>1. /\ i \in code /\ code \in Codes /\ EndOf(i) \in Nat /\ i.targets \in Seq(Nat)
      /\ \A j \in code : j.address = i.address => j = i
  BY CodeParts DEF Valid, Whole, EndOf
<1>2. targets \subseteq Nat
  BY <1>1
<1>3. i.kind \in {"jump", "switch", "branch", "skip"} /\ s.targets = i.targets /\ s.instruction = i.address
  <2>1. s.kind = KindOf(i) /\ s.targets = i.targets /\ s.instruction = i.address
    BY DEF Stated
  <2> QED BY <2>1 DEF KindOf
<1>4. Unresolved(i) <=> i.kind = "switch" /\ ~s.connected
  <2>1. b \in BoundBlocks /\ n \in DOMAIN program.blocks[b].statements /\ s.instruction = i.address
    BY DEF IsOf, BoundBlocks
  <2>2. ASSUME NEW c \in BoundBlocks, NEW l \in DOMAIN program.blocks[c].statements,
               program.blocks[c].statements[l].instruction = i.address
        PROVE  program.blocks[c].statements[l] = s
    <3>1. IsOf(program, c, l, i.address)
      BY <2>2 DEF IsOf, BoundBlocks
    <3> QED BY <3>1
  <2>3. ASSUME Unresolved(i) PROVE i.kind = "switch" /\ ~s.connected
    <3>1. PICK c \in BoundBlocks :
             \E l \in DOMAIN program.blocks[c].statements :
                 /\ program.blocks[c].statements[l].instruction = i.address
                 /\ ~program.blocks[c].statements[l].connected
                 /\ i.kind = "switch"
      BY <2>3 DEF Unresolved
    <3>2. PICK l \in DOMAIN program.blocks[c].statements :
             /\ program.blocks[c].statements[l].instruction = i.address
             /\ ~program.blocks[c].statements[l].connected
             /\ i.kind = "switch"
      BY <3>1
    <3>3. program.blocks[c].statements[l] = s
      BY <2>2, <3>2
    <3> QED BY ONLY <3>2, <3>3
  <2>4. ASSUME i.kind = "switch", ~s.connected PROVE Unresolved(i)
    <3>1. s = program.blocks[b].statements[n]
      OBVIOUS
    <3>2. ~program.blocks[b].statements[n].connected
      BY ONLY <2>4, <3>1
    <3>3. /\ b \in BoundBlocks /\ n \in DOMAIN program.blocks[b].statements
          /\ program.blocks[b].statements[n].instruction = i.address
      BY ONLY <2>1, <3>1
    <3>4. \E m \in DOMAIN program.blocks[b].statements :
             /\ program.blocks[b].statements[m].instruction = i.address
             /\ ~program.blocks[b].statements[m].connected
             /\ i.kind = "switch"
      BY ONLY <2>4, <3>2, <3>3, Zenon
    <3> QED BY ONLY <3>3, <3>4, Zenon DEF Unresolved
  <2> QED BY <2>3, <2>4
<1>5. i.kind \in {"jump", "branch"} => s.connected
  <2> SUFFICES ASSUME i.kind \in {"jump", "branch"} PROVE s.connected
    OBVIOUS
  <2>1. Len(i.targets) = 1
    BY <1>1, TargetsAssumed
  <2>2. s.targets # <<>>
    <3> PICK ts : ts = i.targets
      OBVIOUS
    <3>1. Len(ts) = 1 /\ s.targets = ts
      BY <1>3, <2>1
    <3>2. ts = <<>> => Len(ts) = 0
      OBVIOUS
    <3> QED BY ONLY <3>1, <3>2
  <2>3. s.connected \/ \E j \in code : j.address = s.instruction /\ j.kind = "switch"
    BY <2>2 DEF Settled
  <2>4. ~\E j \in code : j.address = s.instruction /\ j.kind = "switch"
    BY <1>1, <1>3
  <2> QED BY ONLY <2>3, <2>4
<1>6. i.kind = "skip" => targets = {}
  <2>1. i.kind = "skip" => i.targets = <<>>
    BY <1>1, TargetsAssumed
  <2> QED BY <2>1
<1>7. \A x \in Nat : Aims(i, s, x) <=>
          (i.kind \in {"branch", "skip"} /\ x = EndOf(i)) \/ (s.connected /\ x \in targets)
  BY DEF Aims
<1>8. Destinations(i) = (IF i.kind \in {"branch", "skip"} THEN {EndOf(i)} ELSE {}) \cup
                        (IF i.kind \in {"jump", "branch", "switch"} /\ ~Unresolved(i) THEN targets ELSE {})
  BY <1>3 DEF Destinations, FallsThrough
<1>9. \A x : x \in Destinations(i) <=>
          (i.kind \in {"branch", "skip"} /\ x = EndOf(i)) \/ (s.connected /\ x \in targets)
  <2>1. \A x : x \in Destinations(i) <=>
            \/ i.kind \in {"branch", "skip"} /\ x = EndOf(i)
            \/ i.kind \in {"jump", "branch", "switch"} /\ ~Unresolved(i) /\ x \in targets
    BY <1>8
  <2>2. CASE i.kind \in {"jump", "branch"}
    <3>1. s.connected /\ ~Unresolved(i)
      BY <1>4, <1>5, <2>2
    <3> QED BY ONLY <2>1, <2>2, <3>1
  <2>3. CASE i.kind = "switch"
    BY ONLY <1>4, <2>1, <2>3
  <2>4. CASE i.kind = "skip"
    BY ONLY <1>6, <2>1, <2>4
  <2> QED BY <1>3, <2>2, <2>3, <2>4
<1>10. \A x : x \in Destinations(i) => x \in Nat
  BY ONLY <1>1, <1>2, <1>9
<1> QED BY ONLY <1>7, <1>9, <1>10

\* The instructions that follow one are those reached where it goes.
LEMMA FollowsIsLand ==
    ASSUME Whole(code, program), NEW i \in Valid
    PROVE  Follows(i) = UNION {Land(code, a) : a \in Destinations(i)}
<1>1. PICK b, n : /\ IsOf(program, b, n, i.address)
                  /\ \A c, l : IsOf(program, c, l, i.address) => c = b /\ l = n
                  /\ Stated(program, program.blocks[b].statements[n], i)
                  /\ Settled(code, program.blocks[b].statements[n])
  BY PlaceOfInstruction
<1> PICK s : s = program.blocks[b].statements[n]
  OBVIOUS
<1>2. Follows(i) = Goes(program, b, n)
  BY <1>1, FollowsPlace
<1>3. s.kind = KindOf(i) /\ i.kind \in Kinds /\ i.kind \notin {"invalid", "failing"}
  BY <1>1, CodeParts DEF Stated, Valid, Whole
<1>4. CASE s.kind = "jump"
  <2>1. Goes(program, b, n) = UNION {Land(code, a) : a \in {x \in Nat : Aims(i, s, x)}}
    BY <1>1, <1>4, GoesWhereAimed
  <2>2. Destinations(i) = {x \in Nat : Aims(i, s, x)}
    BY <1>1, <1>4, AimsAreDestinations
  <2> QED BY <1>2, <2>1, <2>2
<1>5. CASE s.kind = "return"
  <2>1. Goes(program, b, n) = {}
    BY <1>5 DEF Goes
  <2>2. i.kind = "return"
    BY <1>3, <1>5 DEF KindOf
  <2>3. Destinations(i) = {}
    BY <2>2 DEF Destinations, FallsThrough
  <2> QED BY <1>2, <2>1, <2>3
<1>6. CASE s.kind \notin {"jump", "return"}
  <2>1. Goes(program, b, n) = Land(code, EndOf(i))
    BY <1>1, <1>6, GoesOn DEF Terminators
  <2>2. i.kind \in {"plain", "call"}
    BY <1>3, <1>6 DEF KindOf, Kinds
  <2>3. Destinations(i) = {EndOf(i)}
    BY <2>2 DEF Destinations, FallsThrough
  <2> QED BY <1>2, <2>1, <2>3
<1> QED BY <1>4, <1>5, <1>6

\* Where no instruction begins or ends control goes on nowhere.
LEMMA LandingOnly ==
    ASSUME code \in Codes, Straight(code), NEW i \in Valid
    PROVE  UNION {Landing[a] : a \in Destinations(i) \cap DOMAIN Landing}
               = UNION {Land(code, a) : a \in Destinations(i)}
<1>1. DOMAIN Landing = Edges(code) /\ \A a \in Edges(code) : Landing[a] = Land(code, a)
  BY LandingIsLand DEF Straight
<1>2. ASSUME NEW a \in Destinations(i), a \notin Edges(code) PROVE Land(code, a) = {}
  <2>1. i \in code /\ i.targets \in Seq(Nat)
    BY CodeParts DEF Valid
  <2>2. a # EndOf(i)
    BY <1>2, <2>1 DEF Edges
  <2>3. \E m \in DOMAIN i.targets : a = i.targets[m]
    BY <2>2 DEF Destinations
  <2>4. a \in Nat /\ Cut(code, a)
    BY <2>1, <2>3 DEF Straight
  <2>5. a \notin Addresses(Sound(code)) /\ \A j \in code : j.kind = "failing" => j.address # a
    BY <1>2 DEF Edges, Addresses, Sound
  <2> QED BY <2>4, <2>5, LandNowhere
<1>3. \A a \in Destinations(i) : IF a \in DOMAIN Landing THEN Landing[a] = Land(code, a)
                                 ELSE Land(code, a) = {}
  BY <1>1, <1>2
<1> QED BY <1>3

\* That the generated program does what the machine code does follows.
LEMMA InvControlFlow == IRInv /\ RouteInv => ControlFlowIsPreserved
<1> SUFFICES ASSUME IRInv, RouteInv, phase = "done", NoOverlap, NoTargetInside, NEW i \in Valid
             PROVE  Follows(i) = UNION {Landing[a] : a \in Destinations(i) \cap DOMAIN Landing}
  BY DEF ControlFlowIsPreserved
<1>1. code \in Codes
  BY DEF IRInv, GoodProgram
<1>2. Apart(code)
  BY DEF NoOverlap, Apart
<1>3. ASSUME NEW j \in code, NEW n \in DOMAIN j.targets PROVE Cut(code, j.targets[n])
  <2> SUFFICES ASSUME NEW k \in code PROVE j.targets[n] <= k.address \/ EndOf(k) <= j.targets[n]
    BY DEF Cut
  <2>1. j.targets[n] <= k.address \/ j.targets[n] >= EndOf(k)
    BY DEF NoTargetInside
  <2>2. j.targets[n] \in Nat /\ EndOf(k) \in Nat
    BY <1>1, CodeParts DEF EndOf
  <2> QED BY <2>1, <2>2
<1>4. Straight(code)
  BY <1>2, <1>3 DEF Straight
<1>5. Whole(code, program)
  BY <1>4, DoneIsWhole
<1> QED BY <1>1, <1>4, <1>5, FollowsIsLand, LandingOnly

\* IRGenerator leaves the flow of control as it is in the machine code: from the statement
\* of each instruction the program goes on to the instructions that come next there,
\* whichever blocks createBasicBlock() has split and whichever jumps computeJumpTarget()
\* and addJumpToDirectSuccessor() have connected and added meanwhile.
THEOREM ControlFlowStays == Spec => []ControlFlowIsPreserved
BY ProgramInvariant, RouteInvariance, InvControlFlow, PTL

-----------------------------------------------------------------------------
(* What dfs() finds. *)

\* Blocks are numbered, and jumps lead to blocks there are.
Linked(p) ==
    /\ Len(p.blocks) \in Nat /\ BlocksOf(p) = 1..Len(p.blocks)
    /\ \A b \in BlocksOf(p) : Successors(p, b) \subseteq BlocksOf(p)

Beyond(p, T) == UNION {Successors(p, c) : c \in T}
Wave(p, visited, T) == T \cup (Beyond(p, T) \ visited)
Waves(g, p, b, visited, k) ==
    g = [n \in 0..k |-> IF n = 0 THEN {b} ELSE Wave(p, visited, g[n - 1])]

\* The waves of a search are there, however many there are to be.
LEMMA WavesExist ==
    ASSUME NEW p, NEW b, NEW visited, NEW k \in Nat
    PROVE  \E g : Waves(g, p, b, visited, k)
<1> DEFINE Bad == {m \in Nat : ~\E g : Waves(g, p, b, visited, m)}
<1>1. ASSUME NEW m \in Bad, \A n \in Bad : m <= n PROVE FALSE
  <2>1. CASE m = 0
    <3> PICK g : g = [n \in 0..m |-> {b}]
      OBVIOUS
    <3>1. g = [n \in 0..m |-> IF n = 0 THEN {b} ELSE Wave(p, visited, g[n - 1])]
      BY <2>1
    <3> QED BY <3>1 DEF Waves
  <2>2. CASE m # 0
    <3>1. m - 1 \in Nat \ Bad
      BY <1>1, <2>2
    <3>2. PICK h : h = [n \in 0..(m - 1) |-> IF n = 0 THEN {b} ELSE Wave(p, visited, h[n - 1])]
      BY <3>1 DEF Waves
    <3> PICK g : g = [n \in 0..m |-> IF n = m THEN Wave(p, visited, h[n - 1]) ELSE h[n]]
      OBVIOUS
    <3>3. \A n \in 0..(m - 1) : /\ g[n] = h[n]
                                /\ h[n] = IF n = 0 THEN {b} ELSE Wave(p, visited, h[n - 1])
      <4>1. \A n \in 0..(m - 1) : h[n] = IF n = 0 THEN {b} ELSE Wave(p, visited, h[n - 1])
        BY <3>2, Zenon
      <4>2. \A n \in 0..(m - 1) : n \in 0..m /\ n # m
        OBVIOUS
      <4> QED BY <4>1, <4>2
    <3>4. \A n \in 0..m : g[n] = IF n = 0 THEN {b} ELSE Wave(p, visited, g[n - 1])
      <4> SUFFICES ASSUME NEW n \in 0..m
                   PROVE  g[n] = IF n = 0 THEN {b} ELSE Wave(p, visited, g[n - 1])
        OBVIOUS
      <4>1. CASE n = m
        BY <2>2, <3>3, <4>1
      <4>2. CASE n # m
        <5>1. n \in 0..(m - 1) /\ (n # 0 => n - 1 \in 0..(m - 1))
          BY <4>2
        <5>2. g[n] = h[n] /\ (n # 0 => g[n - 1] = h[n - 1])
          BY <3>3, <5>1
        <5>3. h[n] = IF n = 0 THEN {b} ELSE Wave(p, visited, h[n - 1])
          BY <3>3, <5>1
        <5> QED BY <5>2, <5>3
      <4> QED BY <4>1, <4>2
    <3>5. g = [n \in 0..m |-> IF n = 0 THEN {b} ELSE Wave(p, visited, g[n - 1])]
      BY <3>4
    <3> QED BY <1>1, <3>5 DEF Waves
  <2> QED BY <2>1, <2>2
<1>2. Bad = {}
  <2> SUFFICES ASSUME Bad # {} PROVE FALSE
    OBVIOUS
  <2>1. Bad \subseteq Nat
    OBVIOUS
  <2> HIDE DEF Bad
  <2> QED BY <1>1, <2>1, Least
<1> QED BY <1>2

Search(g, p, b, visited) ==
    /\ g[0] = {b} /\ Trace(p, b, visited) = g[Len(p.blocks)]
    /\ \A n \in 1..Len(p.blocks) : g[n] = Wave(p, visited, g[n - 1])

\* What the search has found after as many waves as there are blocks.
LEMMA TraceIsLastWave ==
    ASSUME NEW p, Linked(p), NEW b, NEW visited
    PROVE  \E g : Search(g, p, b, visited)
<1> PICK k : k = Len(p.blocks)
  OBVIOUS
<1>1. k \in Nat
  BY DEF Linked
<1> PICK g : g = CHOOSE h : Waves(h, p, b, visited, k)
  OBVIOUS
<1>2. Waves(g, p, b, visited, k)
  BY <1>1, WavesExist
<1>3. Trace(p, b, visited) = g[k]
  BY DEF Trace, Waves, Wave, Beyond
<1>4. \A n \in 0..k : g[n] = IF n = 0 THEN {b} ELSE Wave(p, visited, g[n - 1])
  BY <1>2 DEF Waves
<1>5. 0 \in 0..k /\ \A n \in 1..k : n \in 0..k /\ n # 0
  BY <1>1
<1>6. g[0] = {b} /\ \A n \in 1..k : g[n] = Wave(p, visited, g[n - 1])
  BY <1>4, <1>5
<1> QED BY <1>3, <1>6 DEF Search

\* Nothing is left to be found from the blocks of T.
Finished(p, visited, T) == \A c \in T : Successors(p, c) \subseteq T \cup visited

\* There are no more blocks in a set than there are.
LEMMA BlocksCounted ==
    ASSUME NEW p, Linked(p), NEW T \in SUBSET BlocksOf(p)
    PROVE  IsFiniteSet(T) /\ Cardinality(T) \in Nat /\ Cardinality(T) <= Len(p.blocks)
<1>1. Len(p.blocks) \in Nat /\ BlocksOf(p) = 1..Len(p.blocks)
  BY DEF Linked
<1>2. /\ IsFiniteSet(1..Len(p.blocks))
      /\ Cardinality(1..Len(p.blocks)) = IF 1 > Len(p.blocks) THEN 0 ELSE Len(p.blocks) - 1 + 1
  BY <1>1, FS_Interval
<1>3. IsFiniteSet(BlocksOf(p)) /\ Cardinality(BlocksOf(p)) = Len(p.blocks)
  BY <1>1, <1>2
<1>4. IsFiniteSet(T) /\ Cardinality(T) <= Len(p.blocks)
  BY <1>3, FS_Subset
<1> QED BY <1>4, FS_CardinalityType

\* A wave that finds nothing is the last: otherwise there is a block more.
LEMMA WaveFinishes ==
    ASSUME NEW p, Linked(p), NEW visited, NEW T \in SUBSET BlocksOf(p)
    PROVE  /\ T \subseteq Wave(p, visited, T) /\ Wave(p, visited, T) \in SUBSET BlocksOf(p)
           /\ Wave(p, visited, T) \cap visited \subseteq T
           /\ Finished(p, visited, T) <=> Wave(p, visited, T) = T
           /\ Wave(p, visited, T) # T => Cardinality(T) < Cardinality(Wave(p, visited, T))
<1> PICK U : U = Wave(p, visited, T)
  OBVIOUS
<1>1. U = T \cup (Beyond(p, T) \ visited)
  BY DEF Wave
<1>2. \A c \in T : Successors(p, c) \subseteq BlocksOf(p)
  BY DEF Linked
<1>3. \A c : c \in U <=> c \in T \/ (c \notin visited /\ \E d \in T : c \in Successors(p, d))
  <2>1. \A c : c \in Beyond(p, T) <=> \E d \in T : c \in Successors(p, d)
    BY DEF Beyond
  <2> QED BY <1>1, <2>1
<1>4. T \subseteq U /\ U \in SUBSET BlocksOf(p) /\ U \cap visited \subseteq T
  BY <1>2, <1>3
<1>5. Finished(p, visited, T) <=> U = T
  <2>1. ASSUME Finished(p, visited, T), NEW c \in U PROVE c \in T
    BY <1>3, <2>1 DEF Finished
  <2>2. ASSUME U = T, NEW c \in T, NEW d \in Successors(p, c) PROVE d \in T \cup visited
    BY <1>3, <2>2
  <2>3. Finished(p, visited, T) => U = T
    BY <1>4, <2>1
  <2>4. U = T => Finished(p, visited, T)
    BY <2>2 DEF Finished
  <2> QED BY <2>3, <2>4
<1>6. /\ IsFiniteSet(U) /\ Cardinality(T) \in Nat /\ Cardinality(U) \in Nat
  BY <1>4, BlocksCounted
<1>7. Cardinality(T) <= Cardinality(U) /\ (Cardinality(U) = Cardinality(T) => U = T)
  BY <1>4, <1>6, FS_Subset
<1> QED BY <1>4, <1>5, <1>6, <1>7

\* dfs() finds the block it starts with and everything it leads to past what has been
\* visited, and enters nothing else that has been.
LEMMA TraceFinds ==
    ASSUME NEW p, Linked(p), NEW b \in BlocksOf(p), NEW visited
    PROVE  /\ b \in Trace(p, b, visited) /\ Trace(p, b, visited) \in SUBSET BlocksOf(p)
           /\ Trace(p, b, visited) \cap visited \subseteq {b}
           /\ Finished(p, visited, Trace(p, b, visited))
<1> PICK k : k = Len(p.blocks)
  OBVIOUS
<1>1. k \in Nat
  BY DEF Linked
<1> PICK g : Search(g, p, b, visited)
  BY TraceIsLastWave
<1>2. /\ g[0] = {b} /\ Trace(p, b, visited) = g[k]
      /\ \A n \in 1..k : g[n] = Wave(p, visited, g[n - 1])
  BY DEF Search
<1> DEFINE Good(n) == /\ g[n] \in SUBSET BlocksOf(p) /\ b \in g[n]
                      /\ g[n] \cap visited \subseteq {b}
                      /\ Finished(p, visited, g[n]) \/ n < Cardinality(g[n])
           Bad == {n \in 0..k : ~Good(n)}
<1>3. ASSUME NEW m \in Bad, \A n \in Bad : m <= n PROVE FALSE
  <2>1. m # 0
    <3>1. Cardinality({b}) = 1
      BY FS_Singleton
    <3>2. Good(0)
      BY <1>2, <3>1
    <3> QED BY <1>3, <3>2
  <2>2. m \in 1..k /\ m - 1 \in 0..k /\ Good(m - 1)
    <3>1. m \in 0..k
      BY <1>3
    <3>2. m \in 1..k /\ m - 1 \in 0..k /\ ~(m <= m - 1)
      BY <1>1, <2>1, <3>1
    <3>3. m - 1 \notin Bad
      <4> HIDE DEF Bad
      <4> QED BY <1>3, <3>2
    <3> QED BY <3>2, <3>3
  <2> PICK T : T = g[m - 1]
    OBVIOUS
  <2> PICK U : U = Wave(p, visited, T)
    OBVIOUS
  <2>3. g[m] = U
    BY <1>2, <2>2
  <2>4. /\ T \in SUBSET BlocksOf(p) /\ b \in T /\ T \cap visited \subseteq {b}
        /\ Finished(p, visited, T) \/ m - 1 < Cardinality(T)
    BY <2>2
  <2>5. /\ T \subseteq U /\ U \in SUBSET BlocksOf(p) /\ U \cap visited \subseteq T
        /\ Finished(p, visited, T) <=> U = T
        /\ U # T => Cardinality(T) < Cardinality(U)
    BY <2>4, WaveFinishes
  <2>6. Cardinality(T) \in Nat /\ Cardinality(U) \in Nat
    BY <2>4, <2>5, BlocksCounted
  <2>7. Finished(p, visited, U) \/ m < Cardinality(U)
    <3>1. CASE U = T
      BY <2>5, <3>1
    <3>2. CASE U # T
      BY <1>1, <2>2, <2>4, <2>5, <2>6, <3>2
    <3> QED BY <3>1, <3>2
  <2> QED BY <1>3, <2>3, <2>4, <2>5, <2>7
<1>4. Bad = {}
  <2> SUFFICES ASSUME Bad # {} PROVE FALSE
    OBVIOUS
  <2>1. Bad \subseteq Nat
    BY <1>1
  <2> HIDE DEF Bad
  <2> QED BY <1>3, <2>1, Least
<1>5. Good(k)
  BY <1>1, <1>4
<1>6. Cardinality(g[k]) \in Nat /\ Cardinality(g[k]) <= k
  BY <1>5, BlocksCounted
<1> QED BY <1>1, <1>2, <1>5, <1>6

-----------------------------------------------------------------------------
(* The functions. *)

\* A block of which statements are left in whatever function it is.
Lasting(p, b) == \A cloned : ClonedStatements(p, b, cloned) # <<>>

\* In the middle of makeFunctions: functions that share blocks are called, and what has
\* been processed lacks nothing but blocks without statements.
Isolating(p, s) ==
    /\ CalledFunctions(p) \subseteq s.functions
    /\ \A f \in s.functions : f.entry \in f.blocks /\ f.blocks \subseteq s.processed
    /\ \A f, g \in s.functions : (f # g /\ f.blocks \cap g.blocks # {}) =>
          f \in CalledFunctions(p) /\ g \in CalledFunctions(p)
    /\ s.processed \subseteq BlocksOf(p)
    /\ \A c \in s.processed : Successors(p, c) \subseteq s.processed
    /\ \A c \in s.processed : Lasting(p, c) => \E f \in s.functions : c \in f.blocks

FunctionOf(p, n, visited) == [entry |-> n, blocks |-> Trace(p, n, visited)]
WithFunction(p, n, s) ==
    [functions |-> s.functions \cup
        (IF IsEmptyFunction(p, FunctionOf(p, n, s.processed)) THEN {}
         ELSE {FunctionOf(p, n, s.processed)}),
     processed |-> s.processed \cup FunctionOf(p, n, s.processed).blocks]
Step(p, heads, n, s) ==
    IF Bound(p, n) /\ n \in heads \ s.processed THEN WithFunction(p, n, s) ELSE s
Steps(g, p, sofar, heads, k) ==
    g = [n \in 0..k |-> IF n = 0 THEN sofar ELSE Step(p, heads, n, g[n - 1])]

\* The functions that are called have all that they lead to.
LEMMA CalledLackNothing ==
    ASSUME NEW p, Linked(p), NEW f \in CalledFunctions(p)
    PROVE  /\ f.entry \in BlocksOf(p) /\ IsCalled(p, f.entry) /\ f.blocks = Trace(p, f.entry, {})
           /\ f = FunctionOf(p, f.entry, {})
           /\ f.entry \in f.blocks /\ f.blocks \in SUBSET BlocksOf(p)
           /\ \A c \in f.blocks : Successors(p, c) \subseteq f.blocks
<1>1. PICK b \in {c \in BlocksOf(p) : IsCalled(p, c)} : f = [entry |-> b, blocks |-> Trace(p, b, {})]
  BY DEF CalledFunctions
<1>2. /\ b \in BlocksOf(p) /\ IsCalled(p, b) /\ f.entry = b /\ f.blocks = Trace(p, b, {})
      /\ f = FunctionOf(p, b, {})
  BY <1>1 DEF FunctionOf
<1>3. /\ b \in Trace(p, b, {}) /\ Trace(p, b, {}) \in SUBSET BlocksOf(p)
      /\ Finished(p, {}, Trace(p, b, {}))
  BY <1>2, TraceFinds
<1>4. \A c \in f.blocks : Successors(p, c) \subseteq f.blocks
  BY <1>2, <1>3 DEF Finished
<1> QED BY <1>2, <1>3, <1>4

\* So it is at the start, with them alone.
LEMMA CalledIsolated ==
    ASSUME NEW p, Linked(p), NEW s,
           s = [functions |-> CalledFunctions(p),
                processed |-> UNION {f.blocks : f \in CalledFunctions(p)}]
    PROVE  Isolating(p, s)
<1>1. s.functions = CalledFunctions(p) /\ s.processed = UNION {f.blocks : f \in CalledFunctions(p)}
  OBVIOUS
<1>2. \A c : c \in s.processed <=> \E f \in CalledFunctions(p) : c \in f.blocks
  BY <1>1
<1>3. \A f \in CalledFunctions(p) :
         /\ f.entry \in f.blocks /\ f.blocks \subseteq BlocksOf(p)
         /\ \A c \in f.blocks : Successors(p, c) \subseteq f.blocks
  BY CalledLackNothing
<1>4. \A f \in CalledFunctions(p) : f.blocks \subseteq s.processed
  BY <1>2
<1>5. s.processed \subseteq BlocksOf(p)
  BY <1>2, <1>3
<1>6. \A c \in s.processed : Successors(p, c) \subseteq s.processed
  <2> SUFFICES ASSUME NEW c \in s.processed PROVE Successors(p, c) \subseteq s.processed
    OBVIOUS
  <2>1. PICK f \in CalledFunctions(p) : c \in f.blocks
    BY <1>2
  <2> QED BY <1>3, <1>4, <2>1
<1> QED BY <1>1, <1>2, <1>3, <1>4, <1>5, <1>6 DEF Isolating

\* Another function shares nothing with those before.
LEMMA StepIsolates ==
    ASSUME NEW p, Linked(p), NEW s, Isolating(p, s), NEW heads, NEW n \in BlocksOf(p)
    PROVE  /\ Isolating(p, Step(p, heads, n, s))
           /\ s.processed \subseteq Step(p, heads, n, s).processed
           /\ Bound(p, n) /\ n \in heads => n \in Step(p, heads, n, s).processed
<1>1. CASE ~(Bound(p, n) /\ n \in heads \ s.processed)
  BY <1>1 DEF Step
<1>2. CASE Bound(p, n) /\ n \in heads \ s.processed
  <2> PICK f : f = FunctionOf(p, n, s.processed)
    OBVIOUS
  <2> PICK t : t = WithFunction(p, n, s)
    OBVIOUS
  <2>1. Step(p, heads, n, s) = t
    BY <1>2 DEF Step
  <2>2. /\ t.functions = s.functions \cup (IF IsEmptyFunction(p, f) THEN {} ELSE {f})
        /\ t.processed = s.processed \cup f.blocks
    BY DEF WithFunction
  <2>3. f.entry = n /\ f.blocks = Trace(p, n, s.processed)
    BY DEF FunctionOf
  <2>4. /\ n \in f.blocks /\ f.blocks \in SUBSET BlocksOf(p)
        /\ f.blocks \cap s.processed \subseteq {n}
        /\ Finished(p, s.processed, f.blocks)
    BY <2>3, TraceFinds
  <2>5. n \notin s.processed /\ f.blocks \cap s.processed = {}
    BY <1>2, <2>4
  <2>6. /\ CalledFunctions(p) \subseteq s.functions
        /\ \A g \in s.functions : g.entry \in g.blocks /\ g.blocks \subseteq s.processed
        /\ \A g, h \in s.functions : (g # h /\ g.blocks \cap h.blocks # {}) =>
              g \in CalledFunctions(p) /\ h \in CalledFunctions(p)
        /\ s.processed \subseteq BlocksOf(p)
        /\ \A c \in s.processed : Successors(p, c) \subseteq s.processed
        /\ \A c \in s.processed : Lasting(p, c) => \E g \in s.functions : c \in g.blocks
    BY DEF Isolating
  <2>7. \A g \in t.functions : g \in s.functions \/ g = f
    BY <2>2
  <2>8. \A g \in t.functions : g.entry \in g.blocks /\ g.blocks \subseteq t.processed
    BY <2>2, <2>3, <2>4, <2>6, <2>7
  <2>9. \A g, h \in t.functions : (g # h /\ g.blocks \cap h.blocks # {}) =>
            g \in CalledFunctions(p) /\ h \in CalledFunctions(p)
    <3> SUFFICES ASSUME NEW g \in t.functions, NEW h \in t.functions, g # h,
                        g.blocks \cap h.blocks # {}
                 PROVE  g \in CalledFunctions(p) /\ h \in CalledFunctions(p)
      OBVIOUS
    <3>1. CASE g = f
      <4>1. h \in s.functions
        BY <2>7, <3>1
      <4> QED BY <2>5, <2>6, <3>1, <4>1
    <3>2. CASE h = f
      <4>1. g \in s.functions
        BY <2>7, <3>2
      <4> QED BY <2>5, <2>6, <3>2, <4>1
    <3>3. CASE g # f /\ h # f
      BY <2>6, <2>7, <3>3
    <3> QED BY <3>1, <3>2, <3>3
  <2>10. \A c \in t.processed : Successors(p, c) \subseteq t.processed
    BY <2>2, <2>4, <2>6 DEF Finished
  <2>11. \A c \in t.processed : Lasting(p, c) => \E g \in t.functions : c \in g.blocks
    <3> SUFFICES ASSUME NEW c \in t.processed, Lasting(p, c)
                 PROVE  \E g \in t.functions : c \in g.blocks
      OBVIOUS
    <3>1. CASE c \in s.processed
      BY <2>2, <2>6, <3>1
    <3>2. CASE c \in f.blocks
      <4>1. ~IsEmptyFunction(p, f)
        BY <3>2 DEF IsEmptyFunction, Lasting
      <4> QED BY <2>2, <3>2, <4>1
    <3> QED BY <2>2, <3>1, <3>2
  <2>12. CalledFunctions(p) \subseteq t.functions /\ t.processed \subseteq BlocksOf(p)
    BY <2>2, <2>4, <2>6
  <2>13. Isolating(p, t)
    BY <2>8, <2>9, <2>10, <2>11, <2>12 DEF Isolating
  <2> QED BY <2>1, <2>2, <2>4, <2>13
<1> QED BY <1>1, <1>2

\* The steps of a pass are there, however many there are to be.
LEMMA StepsExist ==
    ASSUME NEW p, NEW sofar, NEW heads, NEW k \in Nat
    PROVE  \E g : Steps(g, p, sofar, heads, k)
<1> DEFINE Bad == {m \in Nat : ~\E g : Steps(g, p, sofar, heads, m)}
<1>1. ASSUME NEW m \in Bad, \A n \in Bad : m <= n PROVE FALSE
  <2>1. CASE m = 0
    <3> PICK g : g = [n \in 0..m |-> sofar]
      OBVIOUS
    <3>1. g = [n \in 0..m |-> IF n = 0 THEN sofar ELSE Step(p, heads, n, g[n - 1])]
      BY <2>1
    <3> QED BY <3>1 DEF Steps
  <2>2. CASE m # 0
    <3>1. m - 1 \in Nat \ Bad
      BY <1>1, <2>2
    <3>2. PICK h : h = [n \in 0..(m - 1) |-> IF n = 0 THEN sofar ELSE Step(p, heads, n, h[n - 1])]
      BY <3>1 DEF Steps
    <3> PICK g : g = [n \in 0..m |-> IF n = m THEN Step(p, heads, n, h[n - 1]) ELSE h[n]]
      OBVIOUS
    <3>3. \A n \in 0..(m - 1) : /\ g[n] = h[n]
                                /\ h[n] = IF n = 0 THEN sofar ELSE Step(p, heads, n, h[n - 1])
      <4>1. \A n \in 0..(m - 1) : h[n] = IF n = 0 THEN sofar ELSE Step(p, heads, n, h[n - 1])
        BY <3>2, Zenon
      <4>2. \A n \in 0..(m - 1) : n \in 0..m /\ n # m
        OBVIOUS
      <4> QED BY <4>1, <4>2
    <3>4. \A n \in 0..m : g[n] = IF n = 0 THEN sofar ELSE Step(p, heads, n, g[n - 1])
      <4> SUFFICES ASSUME NEW n \in 0..m
                   PROVE  g[n] = IF n = 0 THEN sofar ELSE Step(p, heads, n, g[n - 1])
        OBVIOUS
      <4>1. CASE n = m
        BY <2>2, <3>3, <4>1
      <4>2. CASE n # m
        <5>1. n \in 0..(m - 1) /\ (n # 0 => n - 1 \in 0..(m - 1))
          BY <4>2
        <5>2. g[n] = h[n] /\ (n # 0 => g[n - 1] = h[n - 1])
          BY <3>3, <5>1
        <5>3. h[n] = IF n = 0 THEN sofar ELSE Step(p, heads, n, h[n - 1])
          BY <3>3, <5>1
        <5> QED BY <5>2, <5>3
      <4> QED BY <4>1, <4>2
    <3>5. g = [n \in 0..m |-> IF n = 0 THEN sofar ELSE Step(p, heads, n, g[n - 1])]
      BY <3>4
    <3> QED BY <1>1, <3>5 DEF Steps
  <2> QED BY <2>1, <2>2
<1>2. Bad = {}
  <2> SUFFICES ASSUME Bad # {} PROVE FALSE
    OBVIOUS
  <2>1. Bad \subseteq Nat
    OBVIOUS
  <2> HIDE DEF Bad
  <2> QED BY <1>1, <2>1, Least
<1> QED BY <1>2

\* A pass keeps what is so at the start, and leaves none of its heads.
LEMMA PassIsolates ==
    ASSUME NEW p, Linked(p), NEW sofar, Isolating(p, sofar), NEW heads
    PROVE  /\ Isolating(p, Pass(p, sofar, heads))
           /\ \A b \in BlocksOf(p) \cap heads : Bound(p, b) => b \in Pass(p, sofar, heads).processed
<1> PICK k : k = Len(p.blocks)
  OBVIOUS
<1>1. k \in Nat /\ BlocksOf(p) = 1..k
  BY DEF Linked
<1> PICK g : g = CHOOSE h : Steps(h, p, sofar, heads, k)
  OBVIOUS
<1>2. Steps(g, p, sofar, heads, k)
  BY <1>1, StepsExist
<1>3. Pass(p, sofar, heads) = g[k]
  BY DEF Pass, Steps, Step, WithFunction, FunctionOf
<1>4. \A n \in 0..k : g[n] = IF n = 0 THEN sofar ELSE Step(p, heads, n, g[n - 1])
  BY <1>2 DEF Steps
<1>5. g[0] = sofar /\ \A n \in 1..k : g[n] = Step(p, heads, n, g[n - 1])
  <2>1. 0 \in 0..k /\ \A n \in 1..k : n \in 0..k /\ n # 0
    BY <1>1
  <2> QED BY <1>4, <2>1
<1> DEFINE Good(n) == /\ Isolating(p, g[n])
                      /\ \A b \in 1..n : Bound(p, b) /\ b \in heads => b \in g[n].processed
           Bad == {n \in 0..k : ~Good(n)}
<1>6. ASSUME NEW m \in Bad, \A n \in Bad : m <= n PROVE FALSE
  <2>1. m # 0
    <3>1. Good(0)
      BY <1>5
    <3> QED BY <1>6, <3>1
  <2>2. m \in 1..k /\ m - 1 \in 0..k /\ Good(m - 1)
    <3>1. m \in 0..k
      BY <1>6
    <3>2. m \in 1..k /\ m - 1 \in 0..k /\ ~(m <= m - 1)
      BY <1>1, <2>1, <3>1
    <3>3. m - 1 \notin Bad
      <4> HIDE DEF Bad
      <4> QED BY <1>6, <3>2
    <3> QED BY <3>2, <3>3
  <2> PICK s : s = g[m - 1]
    OBVIOUS
  <2> PICK t : t = g[m]
    OBVIOUS
  <2>3. t = Step(p, heads, m, s)
    BY <1>5, <2>2
  <2>4. Isolating(p, s) /\ \A b \in 1..(m - 1) : Bound(p, b) /\ b \in heads => b \in s.processed
    BY <2>2
  <2>5. /\ Isolating(p, t) /\ s.processed \subseteq t.processed
        /\ Bound(p, m) /\ m \in heads => m \in t.processed
    BY <1>1, <2>2, <2>3, <2>4, StepIsolates
  <2>6. \A b \in 1..m : b \in 1..(m - 1) \/ b = m
    BY <2>2
  <2>7. Good(m)
    BY <2>4, <2>5, <2>6
  <2> QED BY <1>6, <2>7
<1>7. Bad = {}
  <2> SUFFICES ASSUME Bad # {} PROVE FALSE
    OBVIOUS
  <2>1. Bad \subseteq Nat
    BY <1>1
  <2> HIDE DEF Bad
  <2> QED BY <1>6, <2>1, Least
<1>8. Good(k)
  <2>1. k \in 0..k /\ k \notin Bad
    BY <1>1, <1>7
  <2> HIDE DEF Good
  <2> QED BY <2>1
<1> QED BY <1>1, <1>3, <1>8

\* The functions are isolated, and no block that may stay is left out.
Isolation(p, fs) ==
    \E s : Isolating(p, s) /\ fs = s.functions /\ \A b \in BlocksOf(p) : Bound(p, b) => b \in s.processed

\* makeFunctions() isolates all blocks that have an address.
LEMMA FunctionsIsolated ==
    ASSUME NEW p, Linked(p)
    PROVE  Isolation(p, MakeFunctions(p))
<1> PICK start : start = [functions |-> CalledFunctions(p),
                          processed |-> UNION {f.blocks : f \in CalledFunctions(p)}]
  OBVIOUS
<1> PICK roots : roots = Pass(p, start, Roots(p))
  OBVIOUS
<1> PICK s : s = Pass(p, roots, BlocksOf(p))
  OBVIOUS
<1>1. Isolating(p, start)
  BY CalledIsolated
<1>2. Isolating(p, roots)
  BY <1>1, PassIsolates
<1>3. Isolating(p, s) /\ \A b \in BlocksOf(p) : Bound(p, b) => b \in s.processed
  BY <1>2, PassIsolates
<1>4. MakeFunctions(p) = s.functions
  BY DEF MakeFunctions
<1> QED BY <1>3, <1>4 DEF Isolation

\* What is called is the entry of one function, and shared code is that of called ones.
LEMMA IsolationMatchesCalls ==
    ASSUME NEW p, Linked(p), NEW fs, Isolation(p, fs)
    PROVE  /\ \A b \in BlocksOf(p) : IsCalled(p, b) =>
                /\ Cardinality({f \in fs : f.entry = b}) = 1
                /\ \A f \in fs : f.entry = b => \A c \in f.blocks : Successors(p, c) \subseteq f.blocks
           /\ \A f, g \in fs : (f # g /\ f.blocks \cap g.blocks # {}) =>
                IsCalled(p, f.entry) /\ IsCalled(p, g.entry)
<1>1. /\ CalledFunctions(p) \subseteq fs
      /\ \A f \in fs : f.entry \in f.blocks
      /\ \A f, g \in fs : (f # g /\ f.blocks \cap g.blocks # {}) =>
            f \in CalledFunctions(p) /\ g \in CalledFunctions(p)
  BY DEF Isolation, Isolating
<1>2. ASSUME NEW b \in BlocksOf(p), IsCalled(p, b)
      PROVE  /\ Cardinality({f \in fs : f.entry = b}) = 1
             /\ \A f \in fs : f.entry = b => \A c \in f.blocks : Successors(p, c) \subseteq f.blocks
  <2> PICK called : called = [entry |-> b, blocks |-> Trace(p, b, {})]
    OBVIOUS
  <2>1. called \in CalledFunctions(p) /\ called.entry = b
    BY <1>2 DEF CalledFunctions
  <2>2. \A f \in CalledFunctions(p) : f.entry = b => f = called
    BY CalledLackNothing DEF FunctionOf
  <2>3. \A f \in fs : f.entry = b => f = called
    <3> SUFFICES ASSUME NEW f \in fs, f.entry = b, f # called PROVE FALSE
      OBVIOUS
    <3>1. called \in fs /\ b \in f.blocks /\ b \in called.blocks
      BY <1>1, <2>1
    <3>2. f \in CalledFunctions(p)
      BY <1>1, <3>1
    <3> QED BY <2>2, <3>2
  <2>4. {f \in fs : f.entry = b} = {called}
    BY <1>1, <2>1, <2>3
  <2>5. Cardinality({called}) = 1
    BY FS_Singleton
  <2>6. \A c \in called.blocks : Successors(p, c) \subseteq called.blocks
    BY <2>1, CalledLackNothing
  <2> QED BY <2>3, <2>4, <2>5, <2>6
<1>3. ASSUME NEW f \in fs, NEW g \in fs, f # g, f.blocks \cap g.blocks # {}
      PROVE  IsCalled(p, f.entry) /\ IsCalled(p, g.entry)
  <2>1. f \in CalledFunctions(p) /\ g \in CalledFunctions(p)
    BY <1>1, <1>3
  <2> QED BY <2>1, CalledLackNothing
<1> QED BY <1>2, <1>3
-----------------------------------------------------------------------------
\* The generator's programs are such programs.
LEMMA GoodIsLinked ==
    ASSUME NEW C, NEW T, NEW p, GoodProgram(C, T, p)
    PROVE  Linked(p)
<1>1. p \in Programs(StatementRecords) /\ \A s : Occurs(p, s) => s.blocks \subseteq BlocksOf(p)
  BY DEF GoodProgram, Formed, Known
<1>2. /\ Len(p.blocks) \in Nat /\ BlocksOf(p) = 1..Len(p.blocks)
      /\ \A b \in BlocksOf(p) : p.blocks[b].statements \in Seq(StatementRecords)
  BY <1>1, ProgramParts
<1>3. ASSUME NEW b \in BlocksOf(p) PROVE Successors(p, b) \subseteq BlocksOf(p)
  <2> PICK ss : ss = p.blocks[b].statements
    OBVIOUS
  <2>1. CASE ss = <<>>
    BY <2>1 DEF Successors
  <2>2. CASE ss # <<>>
    <3>1. Len(ss) \in DOMAIN ss
      BY <1>2, <2>2
    <3>2. Occurs(p, ss[Len(ss)])
      BY <3>1 DEF Occurs
    <3> QED BY <1>1, <2>2, <3>2 DEF Successors
  <2> QED BY <2>1, <2>2
<1> QED BY <1>2, <1>3 DEF Linked

\* The block of a statement of an instruction keeps one, in whatever function it is.
LEMMA InstructionsLast ==
    ASSUME NEW C, NEW T, NEW p, GoodProgram(C, T, p), NEW b \in BlocksOf(p),
           NEW m \in DOMAIN p.blocks[b].statements, p.blocks[b].statements[m].instruction # None
    PROVE  Lasting(p, b)
<1> PICK ss : ss = p.blocks[b].statements
  OBVIOUS
<1> PICK k : k = Len(ss)
  OBVIOUS
<1>1. p \in Programs(StatementRecords) /\ Sided(p)
  BY DEF GoodProgram, Formed
<1>2. ss \in Seq(StatementRecords) /\ k \in Nat /\ DOMAIN ss = 1..k /\ m \in 1..k /\ ss # <<>>
  <2>1. ss \in Seq(StatementRecords)
    BY <1>1, ProgramParts
  <2> QED BY <2>1
<1>3. SUFFICES ASSUME NEW cloned PROVE ClonedStatements(p, b, cloned) # <<>>
  BY DEF Lasting
<1>4. CASE ~IsRemoved(ss[k], cloned)
  BY <1>2, <1>4 DEF ClonedStatements
<1>5. CASE IsRemoved(ss[k], cloned)
  <2>1. k # 1
    <3> SUFFICES ASSUME k = 1 PROVE FALSE
      OBVIOUS
    <3>1. ss[k].instruction # None
      BY <1>2
    <3>2. Bound(p, b)
      BY <1>1, <1>2 DEF Sided
    <3>3. Held(p, ss[k])
      BY <1>2, <3>2 DEF Held
    <3>4. Forked(ss[k])
      BY <1>1, <3>3 DEF Sided
    <3> QED BY <1>5, <3>1, <3>4 DEF Forked, IsRemoved
  <2>2. ClonedStatements(p, b, cloned) = SubSeq(ss, 1, k - 1)
    BY <1>2, <1>5 DEF ClonedStatements
  <2>3. Len(SubSeq(ss, 1, k - 1)) = k - 1 /\ k - 1 # 0
    BY <1>2, <2>1
  <2>4. SubSeq(ss, 1, k - 1) # <<>>
    <3>1. Len(<<>>) = 0
      OBVIOUS
    <3> QED BY <2>3, <3>1
  <2> QED BY <2>2, <2>4
<1> QED BY <1>4, <1>5

\* Where jumps are last, a block beside others is what one with an address leads to.
LEMMA SidesAreSuccessors ==
    ASSUME NEW p, JumpsLast(p), NEW b, LedTo(p, b)
    PROVE  \E c \in BlocksOf(p) : Bound(p, c) /\ b \in Successors(p, c)
<1>1. PICK s : Held(p, s) /\ s.kind = "jump" /\ b \in s.blocks
  BY DEF LedTo
<1>2. PICK c \in BlocksOf(p) :
         Bound(p, c) /\ \E m \in DOMAIN p.blocks[c].statements : p.blocks[c].statements[m] = s
  BY <1>1 DEF Held
<1>3. PICK m \in DOMAIN p.blocks[c].statements : p.blocks[c].statements[m] = s
  BY <1>2
<1>4. m = Len(p.blocks[c].statements)
  BY <1>1, <1>3 DEF JumpsLast, Terminators
<1>5. p.blocks[c].statements # <<>>
  BY <1>3
<1>6. Successors(p, c) = s.blocks
  BY <1>1, <1>3, <1>4, <1>5 DEF Successors
<1> QED BY <1>1, <1>2, <1>6

\* So it is in some function.
LEMMA InstructionsIsolated ==
    ASSUME NEW C, NEW T, NEW p, GoodProgram(C, T, p), JumpsLast(p), NEW fs, Isolation(p, fs),
           NEW b \in BlocksOf(p),
           NEW m \in DOMAIN p.blocks[b].statements, p.blocks[b].statements[m].instruction # None
    PROVE  \E f \in fs : b \in f.blocks
<1>1. PICK s : /\ Isolating(p, s) /\ fs = s.functions
               /\ \A c \in BlocksOf(p) : Bound(p, c) => c \in s.processed
  BY DEF Isolation
<1>2. b \in s.processed
  <2>1. CASE Bound(p, b)
    BY <1>1, <2>1
  <2>2. CASE ~Bound(p, b)
    <3>1. p.blocks[b].statements # <<>>
      OBVIOUS
    <3>2. LedTo(p, b)
      BY <2>2, <3>1 DEF GoodProgram, Sided
    <3>3. PICK c \in BlocksOf(p) : Bound(p, c) /\ b \in Successors(p, c)
      BY <3>2, SidesAreSuccessors
    <3> QED BY <1>1, <3>3 DEF Isolating
  <2> QED BY <2>1, <2>2
<1>3. Lasting(p, b)
  BY InstructionsLast
<1> QED BY <1>1, <1>2, <1>3 DEF Isolating

\* Once they are set, the functions are isolated from the program that is there, in which
\* jumps are last.
FunctionsInv ==
    /\ IRInv
    /\ Isolated => Isolation(program, functions) /\ (Apart(code) => JumpsLast(program))

\* Only makeFunctions() sets the functions, and the program does not change any more.
LEMMA FunctionsInvariant == Spec => []FunctionsInv
<1>1. Init => FunctionsInv
  BY IRInitially DEF Init, IRInit, FunctionsInv, Isolated
<1>2. FunctionsInv /\ IRInv' /\ [Next]_analysisVars => FunctionsInv'
  <2> SUFFICES ASSUME IRInv, [Next]_analysisVars,
                      Isolated => Isolation(program, functions) /\ (Apart(code) => JumpsLast(program))
               PROVE  Isolated' => (Isolation(program, functions) /\ (Apart(code) => JumpsLast(program)))'
    BY DEF FunctionsInv
  <2>1. CASE CreateProgram
    BY <2>1 DEF CreateProgram, Generate, CreateStatements, StatementsCreated, VisitStatement,
                NextBlock, TargetsComputed, AddJumpToDirectSuccessor, SuccessorsAdded, Isolated
  <2>2. CASE CreateFunctions
    <3>1. program' = program /\ functions' = MakeFunctions(program) /\ code' = code
      BY <2>2 DEF CreateFunctions
    <3>2. Linked(program)
      BY GoodIsLinked DEF IRInv
    <3>3. Isolation(program, MakeFunctions(program))
      BY <3>2, FunctionsIsolated
    <3>4. Apart(code) => JumpsLast(program)
      BY <2>2 DEF CreateFunctions, IRInv
    <3> QED BY <3>1, <3>3, <3>4
  <2>3. CASE Cancel
    BY <2>3 DEF Cancel, CancelGeneration, Isolated
  <2>4. CASE Stay \/ UNCHANGED analysisVars
    BY <2>4 DEF Stay, analysisVars, irVars, Isolated
  <2> QED BY <2>1, <2>2, <2>3, <2>4 DEF Next, Analyse
<1> QED BY <1>1, <1>2, ProgramInvariant, PTL DEF Spec

\* Each address that is called is the entry of one function that lacks nothing, and
\* code is shared by called functions alone.
THEOREM CallsAreFunctions == Spec => []FunctionsMatchCalls
<1>1. FunctionsInv => FunctionsMatchCalls
  <2> SUFFICES ASSUME FunctionsInv, Isolated PROVE FunctionsMatchCalls
    BY DEF FunctionsMatchCalls, CalledAddressesAreEntries, OnlyCalledFunctionsShareCode
  <2>1. GoodProgram(code, translated, program) /\ Isolation(program, functions)
    BY DEF FunctionsInv, IRInv
  <2>2. Linked(program)
    BY <2>1, GoodIsLinked
  <2>3. /\ \A b \in BlocksOf(program) : IsCalled(program, b) =>
              /\ Cardinality({f \in functions : f.entry = b}) = 1
              /\ \A f \in functions : f.entry = b =>
                    \A c \in f.blocks : Successors(program, c) \subseteq f.blocks
        /\ \A f, g \in functions : (f # g /\ f.blocks \cap g.blocks # {}) =>
              IsCalled(program, f.entry) /\ IsCalled(program, g.entry)
    BY <2>1, <2>2, IsolationMatchesCalls
  <2>4. CalledAddressesAreEntries
    <3> SUFFICES ASSUME NEW a \in program.called
                 PROVE  \E b \in StartingAt(program, a) :
                            /\ Cardinality({f \in functions : f.entry = b}) = 1
                            /\ \A f \in functions : f.entry = b =>
                                  \A c \in f.blocks : Successors(program, c) \subseteq f.blocks
      BY DEF CalledAddressesAreEntries
    <3>1. PICK b : b \in StartingAt(program, a)
      BY <2>1 DEF GoodProgram, CalledStart
    <3>2. b \in BlocksOf(program) /\ IsCalled(program, b)
      BY <3>1 DEF StartingAt, IsCalled, Bound
    <3> QED BY <2>3, <3>1, <3>2
  <2>5. OnlyCalledFunctionsShareCode
    BY <2>3 DEF OnlyCalledFunctionsShareCode
  <2> QED BY <2>4, <2>5 DEF FunctionsMatchCalls
<1> QED BY <1>1, FunctionsInvariant, PTL

\* Nothing the program does is left out: if no instructions overlap, every statement that
\* comes from one is in some function.
THEOREM NothingIsLeftOut == Spec => []EveryStatementIsInAFunction
<1>1. FunctionsInv => EveryStatementIsInAFunction
  <2> SUFFICES ASSUME FunctionsInv, Isolated, NoOverlap, NEW b \in BlocksOf(program),
                      NEW n \in DOMAIN program.blocks[b].statements,
                      program.blocks[b].statements[n].instruction # None
               PROVE  \E f \in functions : b \in f.blocks
    BY DEF EveryStatementIsInAFunction
  <2>1. Apart(code)
    BY DEF NoOverlap, Apart
  <2>2. /\ GoodProgram(code, translated, program) /\ JumpsLast(program)
        /\ Isolation(program, functions)
    BY <2>1 DEF FunctionsInv, IRInv
  <2> QED BY <2>2, InstructionsIsolated
<1> QED BY <1>1, FunctionsInvariant, PTL
=============================================================================
