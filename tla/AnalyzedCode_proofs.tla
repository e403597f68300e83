------------------------ MODULE AnalyzedCode_proofs ------------------------
(***************************************************************************)
(* Theorems about the analyses of AnalyzedCode: what the definitions of a  *)
(* register are, for any function.  Nothing is assumed of values, so they  *)
(* hold whatever the analysis knows or guesses of those.                   *)
(***************************************************************************)
EXTENDS AnalyzedCode, WellFoundedInduction, FiniteSetTheorems, SequenceTheorems, TLAPS

-----------------------------------------------------------------------------
(* Functions. *)

First(b) == code.blocks[b].first
LastOf(b) == code.blocks[b].last
Loc(t) == code.terms[t].loc

\* What is used of a function: its blocks share out the terms, and each has a statement.
LEMMA FunctionParts ==
  ASSUME code \in Codes
  PROVE  /\ Terms = 1 .. Len(code.terms) /\ Len(code.terms) \in Nat
         /\ Blocks = 1 .. Len(code.blocks) /\ Len(code.blocks) \in Nat /\ Entry \in Blocks
         /\ \A b \in Blocks : First(b) \in Nat \ {0} /\ LastOf(b) \in Terms
         /\ \A t \in Terms : code.terms[t] \in TermRecords
         /\ code.edges \subseteq Blocks \X Blocks
         /\ \A t \in Terms : BlockOf(t) \in Blocks /\ t \in First(BlockOf(t)) .. LastOf(BlockOf(t))
         /\ \A b \in Blocks : \A t \in First(b) .. LastOf(b) : t \in Terms /\ BlockOf(t) = b
         /\ \A b \in Blocks : StatementsOf(b) # {}
<1> USE DEF Terms, Blocks, Entry, First, LastOf
<1>1. IsFunction(code)
  BY CodesAssumption
<1>2. /\ code.terms \in Seq(TermRecords)
      /\ code.blocks \in Seq([first : Nat \ {0}, last : 1 .. Len(code.terms)]) /\ code.blocks # <<>>
      /\ code.edges \subseteq (DOMAIN code.blocks) \X (DOMAIN code.blocks)
      /\ \A t \in DOMAIN code.terms :
            \E b \in DOMAIN code.blocks : t \in code.blocks[b].first .. code.blocks[b].last
      /\ \A b1, b2 \in DOMAIN code.blocks :
            (\E t \in code.blocks[b1].first .. code.blocks[b1].last :
                 t \in code.blocks[b2].first .. code.blocks[b2].last) => b1 = b2
      /\ \A b \in DOMAIN code.blocks : \E t \in code.blocks[b].first .. code.blocks[b].last :
            /\ ~(code.terms[t].origin \in {"argument", "stackPointer"})
            /\ code.terms[t].access \in {"write", "kill"} \/ code.terms[t].origin = "condition"
  BY <1>1 DEF IsFunction
<1>3. /\ Terms = 1 .. Len(code.terms) /\ Len(code.terms) \in Nat
      /\ \A t \in Terms : code.terms[t] \in TermRecords
  <2>1. PICK ts \in Seq(TermRecords) : ts = code.terms
    BY <1>2
  <2>2. DOMAIN ts = 1 .. Len(ts) /\ Len(ts) \in Nat /\ \A t \in DOMAIN ts : ts[t] \in TermRecords
    OBVIOUS
  <2> QED BY <2>1, <2>2
<1>4. /\ Blocks = 1 .. Len(code.blocks) /\ Len(code.blocks) \in Nat /\ Entry \in Blocks
      /\ \A b \in Blocks : First(b) \in Nat \ {0} /\ LastOf(b) \in Terms
  <2>1. PICK bs \in Seq([first : Nat \ {0}, last : 1 .. Len(code.terms)]) : bs = code.blocks
    BY <1>2
  <2>2. DOMAIN bs = 1 .. Len(bs) /\ Len(bs) \in Nat
    BY <2>1, LenProperties
  <2>3. \A b \in DOMAIN bs : bs[b] \in [first : Nat \ {0}, last : 1 .. Len(code.terms)]
    BY <2>1, <2>2, ElementOfSeq
  <2>4. \A b \in DOMAIN bs : bs[b].first \in Nat \ {0} /\ bs[b].last \in 1 .. Len(code.terms)
    BY <2>3
  <2>5. Len(bs) # 0
    BY <1>2, <2>1, EmptySeq
  <2> QED BY <1>3, <2>1, <2>2, <2>4, <2>5
<1>5. \A t \in Terms : BlockOf(t) \in Blocks /\ t \in First(BlockOf(t)) .. LastOf(BlockOf(t))
  BY <1>2 DEF BlockOf
<1>6. \A b \in Blocks : \A t \in First(b) .. LastOf(b) : t \in Terms
  BY <1>3, <1>4
<1>7. \A b \in Blocks : \A t \in First(b) .. LastOf(b) : BlockOf(t) = b
  BY <1>2, <1>5, <1>6
<1>8. \A b \in Blocks : StatementsOf(b) # {}
  <2> TAKE b \in Blocks
  <2>1. PICK t \in First(b) .. LastOf(b) :
           /\ ~(code.terms[t].origin \in {"argument", "stackPointer"})
           /\ code.terms[t].access \in {"write", "kill"} \/ code.terms[t].origin = "condition"
    BY <1>2
  <2>2. t \in StatementsOf(b)
    BY <2>1 DEF StatementsOf, EndsStatement, IsEntryTerm, IsWrite, IsKill, IsCondition, IsArgument,
                IsStackPointer
  <2> QED BY <2>2
<1>9. code.edges \subseteq Blocks \X Blocks
  BY <1>2
<1> QED BY <1>3, <1>4, <1>5, <1>6, <1>7, <1>8, <1>9

Registers == {l \in Locations : l.domain = "REGISTER" /\ l.addr >= 0 /\ l.size > 0
                                  /\ l.addr + l.size <= RegisterBits}

\* A term of a register is within the register file.
LEMMA RegisterTerms ==
  ASSUME code \in Codes, NEW t \in Terms, IsRegister(t)
  PROVE  Loc(t) \in Registers
<1>1. IsFunction(code)
  BY CodesAssumption
<1>2. code.terms[t] \in TermRecords
  BY FunctionParts
<1> QED BY <1>1, <1>2 DEF IsFunction, Registers, Loc, IsRegister, Kind, Terms, TermRecords

\* What the calling convention writes comes first.
LEMMA ConventionFirst ==
  ASSUME code \in Codes, NEW t \in Terms, IsEntryTerm(t)
  PROVE  /\ Kind(t) = "access" /\ IsWrite(t) /\ BlockOf(t) = Entry
         /\ \A u \in 1 .. t : u \in Terms /\ IsEntryTerm(u) /\ u \in First(Entry) .. LastOf(Entry)
<1>1. IsFunction(code)
  BY CodesAssumption
<1>2. code.terms[t].origin \in {"argument", "stackPointer"}
  BY DEF IsEntryTerm, IsArgument, IsStackPointer
<1>3. /\ code.terms[t].kind = "access" /\ code.terms[t].access = "write"
      /\ \A u \in 1 .. t : /\ u \in code.blocks[Entry].first .. code.blocks[Entry].last
                           /\ code.terms[u].origin \in {"argument", "stackPointer"}
  BY <1>1, <1>2 DEF IsFunction, Terms
<1>4. \A u \in 1 .. t : u \in First(Entry) .. LastOf(Entry) /\ IsEntryTerm(u)
  BY <1>3 DEF First, LastOf, IsEntryTerm, IsArgument, IsStackPointer
<1>5. t \in 1 .. t
  BY FunctionParts
<1> QED BY <1>3, <1>4, <1>5, FunctionParts DEF Kind, IsWrite

\* Two parts of the register file overlap if they have a cell in common.
LEMMA RegisterCells ==
  ASSUME NEW l \in Registers
  PROVE  /\ Cells(l) # {}
         /\ \A m \in Registers : Overlap(l, m) <=> Cells(l) \cap Cells(m) # {}
         /\ \A m \in Registers : Cells(l) = Cells(m) => l = m
         /\ \A m : m.domain # "REGISTER" => Cells(l) \cap Cells(m) = {}
<1>1. ASSUME NEW m \in Registers
      PROVE  /\ Cells(m) = {<<"register", i>> : i \in m.addr .. m.addr + m.size - 1}
             /\ m.addr \in Nat /\ m.size \in Nat \ {0} /\ m.domain = "REGISTER"
             /\ \A i \in Int : <<"register", i>> \in Cells(m) <=> m.addr <= i /\ i < m.addr + m.size
  <2>1. Cells(m) = {<<"register", i>> : i \in m.addr .. m.addr + m.size - 1}
    BY DEF Cells, Registers
  <2>2. m.addr \in Nat /\ m.size \in Nat \ {0} /\ m.domain = "REGISTER"
    BY DEF Registers, Locations
  <2>3. \A i \in Int : i \in m.addr .. m.addr + m.size - 1 <=> m.addr <= i /\ i < m.addr + m.size
    BY <2>2
  <2> QED BY <2>1, <2>2, <2>3
<1>2. <<"register", l.addr>> \in Cells(l)
  BY <1>1
<1>3. ASSUME NEW m \in Registers
      PROVE  Overlap(l, m) <=> Cells(l) \cap Cells(m) # {}
  <2>1. ASSUME Overlap(l, m) PROVE Cells(l) \cap Cells(m) # {}
    <3>1. CASE l.addr <= m.addr
      <4>1. <<"register", m.addr>> \in Cells(l) /\ <<"register", m.addr>> \in Cells(m)
        BY <1>1, <2>1, <3>1 DEF Overlap
      <4> QED BY <4>1
    <3>2. CASE m.addr <= l.addr
      <4>1. <<"register", l.addr>> \in Cells(l) /\ <<"register", l.addr>> \in Cells(m)
        BY <1>1, <2>1, <3>2 DEF Overlap
      <4> QED BY <4>1
    <3> QED BY <1>1, <3>1, <3>2
  <2>2. ASSUME NEW c \in Cells(l), c \in Cells(m) PROVE Overlap(l, m)
    <3>1. PICK i \in l.addr .. l.addr + l.size - 1 : c = <<"register", i>>
      BY <1>1
    <3>2. i \in Int /\ l.addr <= i /\ i < l.addr + l.size /\ m.addr <= i /\ i < m.addr + m.size
      BY <1>1, <2>2, <3>1
    <3> QED BY <1>1, <3>2 DEF Overlap
  <2> QED BY <2>1, <2>2
<1>4. ASSUME NEW m \in Registers, Cells(l) = Cells(m)
      PROVE  l = m
  <2>1. l.addr = m.addr
    <3>1. <<"register", l.addr>> \in Cells(m) /\ <<"register", m.addr>> \in Cells(l)
      BY <1>1, <1>4
    <3> QED BY <1>1, <3>1
  <2>2. l.size = m.size
    <3>1. <<"register", l.addr + l.size - 1>> \in Cells(m)
      BY <1>1, <1>4
    <3>2. <<"register", m.addr + m.size - 1>> \in Cells(l)
      BY <1>1, <1>4
    <3>3. l.addr + l.size - 1 \in Int /\ m.addr + m.size - 1 \in Int
      BY <1>1
    <3>4. l.addr + l.size - 1 < m.addr + m.size /\ m.addr + m.size - 1 < l.addr + l.size
      BY <1>1, <3>1, <3>2, <3>3
    <3> QED BY <1>1, <2>1, <3>4
  <2> QED BY <1>1, <2>1, <2>2 DEF Registers, Locations
<1>5. ASSUME NEW m, m.domain # "REGISTER"
      PROVE  Cells(l) \cap Cells(m) = {}
  <2>1. Cells(m) = {<<"memory", ByteAt(m, i)>> : i \in 0 .. BytesIn(m) - 1}
    BY <1>5 DEF Cells
  <2>2. \A c \in Cells(l) : c[1] = "register"
    BY <1>1
  <2>3. \A c \in Cells(m) : c[1] = "memory"
    BY <2>1
  <2> QED BY <2>2, <2>3
<1> QED BY <1>2, <1>3, <1>4, <1>5
-----------------------------------------------------------------------------
(* What reaches where. *)

\* Does simulating a term write or kill a part of a location?
Touches(t, l) == ~IsRead(t) /\ IsRegister(t) /\ IsSimulated(t) /\ Overlap(Loc(t), l)
Spared(l, i, k) == \A u \in i .. k - 1 : ~Touches(u, l)

\* A definition made in a block before k, and left alone from there on.
Arises(d, b, k) ==
  /\ d \in First(b) .. k - 1
  /\ IsWrite(d) /\ IsRegister(d) /\ IsSimulated(d) /\ Spared(Loc(d), d + 1, k)

\* One that comes with a jump to the block, and is left alone up to k.
Passes(d, b, k) ==
  /\ IsRegister(d)
  /\ \E p \in PredecessorsOf(b) : d \in GetDefinitions(output[p], Loc(d))
  /\ Spared(Loc(d), First(b), k)

\* What a round has to account for.  What comes with jumps, only as long as nothing is new:
\* the ends of blocks are then what they were when the block was entered.
Reaches(d, b, k) == Arises(d, b, k) \/ (~changed /\ Passes(d, b, k))

\* A definition is a write of the register it is kept for.
Kept(d, l) == d \in Terms /\ IsWrite(d) /\ IsRegister(d) /\ Loc(d) = l /\ locations[d] = l
WellKept(defs) == \A l \in DOMAIN defs : l.domain = "REGISTER" => \A d \in defs[l] : Kept(d, l)

\* The terms of a block before k have what reaches them.
Settled(b, k) ==
  \A t \in First(b) .. k - 1 : IsRegister(t) /\ IsSimulated(t) =>
    /\ locations[t] = Loc(t)
    /\ IsRead(t) => \A d \in Terms : Reaches(d, b, t) /\ Loc(d) = Loc(t) => d \in definitions[t]

Reached(defs, b, k) == \A d \in Terms : Reaches(d, b, k) => d \in GetDefinitions(defs, Loc(d))

-----------------------------------------------------------------------------
(* The invariant of the analysis. *)

Rounds == {"enter", "simulate"}

Shape ==
  /\ code \in Codes /\ block \in Blocks
  /\ phase \in Rounds \cup {"done", "variables", "analyzed"}
  /\ phase = "simulate" => term \in First(block) .. LastOf(block) + 1
  /\ DOMAIN locations = Terms /\ DOMAIN definitions = Terms /\ DOMAIN output = Blocks

RegistersKept ==
  /\ \A t \in Terms : locations[t].domain = "REGISTER" => IsRegister(t) /\ locations[t] = Loc(t)
  /\ WellKept(context) /\ \A b \in Blocks : WellKept(output[b])
  /\ \A r \in Terms : IsRead(r) /\ IsRegister(r) =>
       \A d \in definitions[r] : Kept(d, Loc(r)) /\ locations[r] = Loc(r)

\* The blocks a round is through with; all of them once the rounds are over.
Processed == IF phase \in Rounds THEN {b \in Blocks : b < block} ELSE Blocks

Progress ==
  /\ \A b \in Processed : Settled(b, LastOf(b) + 1) /\ Reached(output[b], b, LastOf(b) + 1)
  /\ phase = "simulate" => Settled(block, term) /\ Reached(context, block, term)
  /\ phase \notin Rounds => \A d \in Terms : uses[d] = UsesOf(d)

Flow == Shape /\ RegistersKept /\ Progress

-----------------------------------------------------------------------------
(* The invariant of the machine. *)

\* The cells of the register file.
FileCells == {<<"register", i>> : i \in 0 .. RegisterBits - 1}

\* Whoever wrote a part of the register file last has a register that part of which it is.
WritersAreWrites ==
  /\ "writer" \in DOMAIN machine /\ FileCells \subseteq DOMAIN machine.writer
  /\ \A c \in FileCells : machine.writer[c] # 0 =>
       /\ machine.writer[c] \in Terms /\ IsRegister(machine.writer[c])
       /\ IsWrite(machine.writer[c]) /\ IsSimulated(machine.writer[c])

\* Who wrote the whole of a register last reaches the statement to run next.
WholeWritesReach ==
  ~changed /\ ~EntryIsReentered =>
    \A d \in Terms : IsRegister(d) /\ (\A c \in Cells(Loc(d)) : machine.writer[c] = d) =>
      Reaches(d, BlockOf(pc), pc)

Running ==
  /\ pc # 0 => phase = "analyzed"
  /\ pc = 0 \/ pc = -1 \/ (pc \in Terms /\ pc \in StatementsOf(BlockOf(pc)))
  /\ WritersAreWrites
  /\ pc \in Terms => WholeWritesReach

-----------------------------------------------------------------------------
(* Facts about what reaches where. *)

\* Where each term of a register is, and what other terms are not.
LEMMA WhereTermsAre ==
  ASSUME NEW t \in Terms, code \in Codes
  PROVE  /\ IsRegister(t) => LocationOf(t) = Loc(t) /\ Loc(t) \in Registers /\ Loc(t) # Nowhere
                               /\ ~IsGlobalMemory(Loc(t)) /\ Loc(t).domain = "REGISTER"
         /\ LocationOf(t).domain = "REGISTER" => IsRegister(t)
         /\ IsRead(t) => IsSimulated(t) /\ ~IsWrite(t) /\ ~IsKill(t)
         /\ ~IsRead(t) => IsWrite(t) \/ IsKill(t)
<1>1. IsRegister(t) => LocationOf(t) = Loc(t)
  BY DEF LocationOf, IsRegister, Loc
<1>2. IsRegister(t) => Loc(t) \in Registers /\ Loc(t) # Nowhere /\ ~IsGlobalMemory(Loc(t))
                         /\ Loc(t).domain = "REGISTER"
  BY RegisterTerms DEF Registers, Nowhere, IsGlobalMemory
<1>3. LocationOf(t).domain = "REGISTER" => IsRegister(t)
  BY DEF LocationOf, IsRegister, Loc, GlobalLocation, StackLocation, Nowhere
<1>4. IsRead(t) => IsSimulated(t)
  BY ConventionFirst DEF IsEntryTerm, IsSimulated, IsRead, IsWrite
<1>5. /\ IsRead(t) => ~IsWrite(t) /\ ~IsKill(t)
      /\ ~IsRead(t) => IsWrite(t) \/ IsKill(t)
  BY FunctionParts DEF TermRecords, IsRead, IsWrite, IsKill
<1> QED BY <1>1, <1>2, <1>3, <1>4, <1>5

\* Every block has a term, so its terms come before its end.
LEMMA BlocksAreLong ==
  ASSUME code \in Codes, NEW b \in Blocks
  PROVE  First(b) \in Nat \ {0} /\ LastOf(b) \in Nat /\ First(b) <= LastOf(b)
<1>1. First(b) \in Nat \ {0} /\ LastOf(b) \in Nat
  BY FunctionParts
<1>2. PICK t \in First(b) .. LastOf(b) : TRUE
  BY FunctionParts DEF StatementsOf, First, LastOf
<1> QED BY <1>1, <1>2

\* Which terms touch a location depends on the function and the arguments found so far.
LEMMA SameTouches ==
  ASSUME code' = code, arguments' = arguments
  PROVE  /\ \A d, b, k : Arises(d, b, k)' <=> Arises(d, b, k)
         /\ \A l, i, k : Spared(l, i, k)' <=> Spared(l, i, k)
BY DEF Arises, Spared, Touches, First, IsWrite, IsRegister, IsSimulated, IsArgument, Loc, Kind, IsRead

\* With the ends of blocks it does not depend on anything else.
LEMMA SameReaches ==
  ASSUME code' = code, arguments' = arguments, changed' = changed, output' = output
  PROVE  /\ \A d, b, k : Reaches(d, b, k)' <=> Reaches(d, b, k)
         /\ \A defs, b, k : Reached(defs, b, k)' <=> Reached(defs, b, k)
<1>1. \A d, b, k : Reaches(d, b, k)' <=> Reaches(d, b, k)
  BY SameTouches DEF Reaches, Passes, IsRegister, PredecessorsOf, First, Loc, Kind, Blocks
<1> QED BY <1>1 DEF Reached, Loc, Terms

\* What reaches the next term reaches this one, unless this one defines it.
LEMMA ReachesBefore ==
  ASSUME code \in Codes, NEW b \in Blocks, NEW t \in First(b) .. LastOf(b), NEW d \in Terms,
         Reaches(d, b, t + 1), ~(d = t /\ Arises(d, b, t + 1))
  PROVE  Reaches(d, b, t) /\ ~Touches(t, Loc(d)) /\ IsRegister(d)
<1>1. First(b) \in Nat /\ t \in Nat /\ First(b) <= t /\ d \in Nat
  BY FunctionParts, BlocksAreLong
<1>2. ASSUME Arises(d, b, t + 1)
      PROVE  Arises(d, b, t) /\ ~Touches(t, Loc(d))
  <2>1. d # t
    BY <1>2
  <2>2. d \in First(b) .. t - 1 /\ t \in d + 1 .. (t + 1) - 1 /\ d + 1 .. t - 1 \subseteq d + 1 .. (t + 1) - 1
    BY <1>1, <1>2, <2>1 DEF Arises
  <2> QED BY <1>2, <2>2 DEF Arises, Spared
<1>3. ASSUME Passes(d, b, t + 1)
      PROVE  Passes(d, b, t) /\ ~Touches(t, Loc(d))
  <2>1. t \in First(b) .. (t + 1) - 1 /\ First(b) .. t - 1 \subseteq First(b) .. (t + 1) - 1
    BY <1>1
  <2> QED BY <1>3, <2>1 DEF Passes, Spared
<1> QED BY <1>2, <1>3 DEF Reaches, Arises, Passes

\* Nothing reaches the start of a block but what comes with jumps.
LEMMA ReachesStart ==
  ASSUME code \in Codes, NEW b \in Blocks, NEW d, Reaches(d, b, First(b))
  PROVE  ~changed /\ Passes(d, b, First(b))
BY BlocksAreLong DEF Reaches, Arises

-----------------------------------------------------------------------------
(* The analysis keeps its invariant. *)

\* It holds before the first round.
LEMMA FlowInit == Init => Flow
<1> SUFFICES ASSUME Init PROVE Flow
  OBVIOUS
<1>1. /\ code \in Codes /\ locations = [t \in Terms |-> Nowhere] /\ definitions = [t \in Terms |-> {}]
      /\ output = [b \in Blocks |-> NoDefinitions] /\ context = NoDefinitions /\ block = Entry
      /\ phase = "enter"
  BY DEF Init, DataflowInit
<1>2. Shape
  BY <1>1, FunctionParts DEF Shape, Rounds
<1>3. WellKept(NoDefinitions)
  BY DEF WellKept, NoDefinitions
<1>4. RegistersKept
  BY <1>1, <1>3 DEF RegistersKept, Nowhere
<1>5. Progress
  <2>1. Processed = {}
    BY <1>1, FunctionParts DEF Processed, Rounds, Entry
  <2> QED BY <1>1, <2>1 DEF Progress, Rounds
<1> QED BY <1>2, <1>4, <1>5 DEF Flow

\* What the terms of a function are depends on the function alone.
LEMMA SameFunction ==
  ASSUME code' = code
  PROVE  /\ Terms' = Terms /\ Blocks' = Blocks
         /\ \A b : First(b)' = First(b) /\ LastOf(b)' = LastOf(b)
         /\ \A t : Loc(t)' = Loc(t) /\ (IsRead(t)' <=> IsRead(t)) /\ (IsWrite(t)' <=> IsWrite(t))
                     /\ (IsRegister(t)' <=> IsRegister(t))
         /\ \A b : BlockOf(b)' = BlockOf(b) /\ StatementsOf(b)' = StatementsOf(b)
         /\ EntryIsReentered' <=> EntryIsReentered
BY DEF Terms, Blocks, First, LastOf, Loc, IsRead, IsWrite, IsRegister, Kind, BlockOf, StatementsOf,
       EndsStatement, IsKill, IsCondition, IsEntryTerm, IsArgument, IsStackPointer, EntryIsReentered

\* Definitions stay those of a register as long as what registers denote stays.
LEMMA SameKept ==
  ASSUME code' = code, NEW defs, WellKept(defs),
         \A t \in Terms : IsRegister(t) /\ locations[t] = Loc(t) => locations'[t] = Loc(t)
  PROVE  WellKept(defs)' /\ \A d, l : Kept(d, l) => Kept(d, l)'
<1>1. ASSUME NEW d, NEW l, Kept(d, l) PROVE Kept(d, l)'
  BY <1>1, SameFunction DEF Kept
<1>2. WellKept(defs)'
  BY <1>1 DEF WellKept
<1> QED BY <1>1, <1>2

\* Entering a block joins what its predecessors left.
LEMMA FlowEnter ==
  ASSUME Flow, EnterBlock PROVE Flow'
<1>1. /\ phase = "enter" /\ phase' = "simulate" /\ context' = JoinedOutputs(PredecessorsOf(block))
      /\ term' = First(block)
      /\ arguments' = IF block = Entry /\ fixpointReached
                        THEN arguments \cup FoundArguments ELSE arguments
      /\ code' = code /\ locations' = locations /\ definitions' = definitions /\ uses' = uses
      /\ output' = output /\ block' = block /\ changed' = changed
  BY DEF EnterBlock, results, First
<1>2. code \in Codes /\ block \in Blocks /\ DOMAIN output = Blocks
  BY DEF Flow, Shape
<1>3. /\ Terms' = Terms /\ Blocks' = Blocks
      /\ \A b : First(b)' = First(b) /\ LastOf(b)' = LastOf(b)
      /\ \A t : Loc(t)' = Loc(t) /\ (IsRead(t)' <=> IsRead(t)) /\ (IsRegister(t)' <=> IsRegister(t))
  BY <1>1, SameFunction
<1>4. First(block) \in Nat /\ LastOf(block) \in Nat /\ First(block) <= LastOf(block)
  BY <1>2, BlocksAreLong
<1>5. Shape'
  BY <1>1, <1>3, <1>4 DEF Flow, Shape, Rounds
<1>6. \A defs : WellKept(defs) => WellKept(defs)'
  BY <1>1, SameKept
<1>7. \A d, l : Kept(d, l) => Kept(d, l)'
  BY <1>1, <1>3, SameFunction DEF Kept
<1>8. PredecessorsOf(block) \subseteq Blocks
  BY DEF PredecessorsOf
<1>9. \A l : GetDefinitions(context', l) = UNION {GetDefinitions(output[p], l) : p \in PredecessorsOf(block)}
  BY <1>1 DEF GetDefinitions, JoinedOutputs, JoinDefinitions
<1>10. WellKept(context)'
  <2>1. \A p \in Blocks : WellKept(output[p])
    BY DEF Flow, RegistersKept
  <2>2. ASSUME NEW l \in DOMAIN context', l.domain = "REGISTER", NEW d \in context'[l]
        PROVE  Kept(d, l)
    <3>1. PICK p \in PredecessorsOf(block) : d \in GetDefinitions(output[p], l)
      BY <1>9, <2>2 DEF GetDefinitions
    <3> QED BY <1>8, <2>1, <2>2, <3>1 DEF GetDefinitions, WellKept
  <2> QED BY <1>7, <2>2 DEF WellKept
<1>11. RegistersKept'
  BY <1>1, <1>3, <1>6, <1>7, <1>10 DEF Flow, RegistersKept
<1>12. Progress'
  <2>1. Processed' = Processed /\ Processed = {b \in Blocks : b < block}
    BY <1>1, <1>3 DEF Processed, Rounds
  <2>2. \A b \in Processed : Settled(b, LastOf(b) + 1)' /\ Reached(output[b], b, LastOf(b) + 1)'
    <3>1. CASE block = Entry
      <4> Processed = {}
        BY <2>1, <3>1, <1>2, FunctionParts DEF Entry
      <4> QED OBVIOUS
    <3>2. CASE block # Entry
      <4>1. arguments' = arguments
        BY <1>1, <3>2
      <4>2. \A b \in Processed : Settled(b, LastOf(b) + 1) /\ Reached(output[b], b, LastOf(b) + 1)
        BY DEF Flow, Progress
      <4>3. \A t : IsSimulated(t)' <=> IsSimulated(t)
        BY <1>1, <4>1 DEF IsSimulated, IsArgument
      <4> QED BY <1>1, <1>3, <4>1, <4>2, <4>3, SameReaches DEF Settled
    <3> QED BY <3>1, <3>2
  <2>3. Settled(block, First(block))'
    <3>1. First(block)' = First(block) /\ \A i \in Int : i .. i - 1 = {}
      BY <1>1, <1>3
    <3> QED BY <1>4, <3>1 DEF Settled
  <2>4. Reached(context, block, First(block))'
    <3> SUFFICES ASSUME NEW d \in Terms, Reaches(d, block, First(block))'
                 PROVE  d \in GetDefinitions(context', Loc(d))
      BY <1>1, <1>3 DEF Reached
    <3>1. ~Arises(d, block, First(block))'
      BY <1>1, <1>3, <1>4 DEF Arises
    <3>2. Passes(d, block, First(block))'
      BY <3>1 DEF Reaches
    <3>3. PICK p \in PredecessorsOf(block)' : d \in GetDefinitions(output'[p], Loc(d)')
      BY <3>2 DEF Passes, GetDefinitions
    <3>4. p \in PredecessorsOf(block) /\ d \in GetDefinitions(output[p], Loc(d))
      BY <1>1, <1>3, <3>3 DEF PredecessorsOf
    <3> QED BY <1>9, <3>4
  <2> QED BY <1>1, <1>3, <2>1, <2>2, <2>3, <2>4 DEF Progress, Rounds
<1> QED BY <1>5, <1>11, <1>12 DEF Flow

\* What a term leaves of the definitions of a location.
LEMMA ContextAfter ==
  ASSUME code \in Codes, NEW t \in Terms, NEW l
  PROVE  /\ l = Nowhere \/ IsGlobalMemory(l) \/ IsRead(t) => SimulatedContext(t, l) = context
         /\ l # Nowhere /\ ~IsGlobalMemory(l) /\ IsWrite(t) =>
              SimulatedContext(t, l) = AddDefinition(context, l, t)
         /\ l # Nowhere /\ ~IsGlobalMemory(l) /\ IsKill(t) =>
              SimulatedContext(t, l) = KillDefinitions(context, l)
<1> DEFINE nothing == l = Nowhere \/ IsGlobalMemory(l) \/ IsRead(t)
           add == l # Nowhere /\ ~IsGlobalMemory(l) /\ IsWrite(t)
           kill == l # Nowhere /\ ~IsGlobalMemory(l) /\ IsKill(t)
<1>1. /\ nothing => ~add /\ ~kill
      /\ add => ~nothing /\ ~kill
      /\ kill => ~nothing /\ ~add
  BY WhereTermsAre DEF IsWrite, IsKill, IsRead
<1>2. SimulatedContext(t, l) = CASE nothing -> context
                                 [] add -> AddDefinition(context, l, t)
                                 [] kill -> KillDefinitions(context, l)
  BY DEF SimulatedContext
<1>3. nothing \in BOOLEAN /\ add \in BOOLEAN /\ kill \in BOOLEAN
  BY DEF IsRead, IsGlobalMemory, IsWrite, IsKill
<1> HIDE DEF nothing, add, kill
<1>4. /\ nothing => SimulatedContext(t, l) = context
      /\ add => SimulatedContext(t, l) = AddDefinition(context, l, t)
      /\ kill => SimulatedContext(t, l) = KillDefinitions(context, l)
  BY <1>1, <1>2, <1>3
<1> QED BY <1>4 DEF nothing, add, kill

\* What simulating a term leaves of the definitions of a register: those of it, if the term
\* is one, and otherwise all, unless it touches the register.
LEMMA AfterSimulation ==
  ASSUME code \in Codes, NEW t \in Terms, NEW m \in Registers
  PROVE  LET after == GetDefinitions(SimulatedContext(t, LocationOf(t)), m)
         IN  /\ ~(~IsRead(t) /\ IsRegister(t) /\ Overlap(Loc(t), m)) => after = GetDefinitions(context, m)
             /\ IsWrite(t) /\ IsRegister(t) /\ Loc(t) = m => after = {t}
<1> DEFINE l == LocationOf(t)
<1>1. /\ IsRegister(t) => l = Loc(t) /\ Loc(t) \in Registers /\ Loc(t) # Nowhere
                            /\ ~IsGlobalMemory(Loc(t))
      /\ l.domain = "REGISTER" => IsRegister(t)
      /\ IsRead(t) => ~IsWrite(t) /\ ~IsKill(t)
      /\ ~IsRead(t) => IsWrite(t) \/ IsKill(t)
  BY WhereTermsAre
<1>2. m.domain = "REGISTER"
  BY DEF Registers
<1>3. ASSUME ~(IsRegister(t) /\ Overlap(Loc(t), m))
      PROVE  ~Overlap(l, m) /\ l # m
  <2>1. CASE IsRegister(t)
    <3>1. \E i \in Cells(m) : TRUE
      BY RegisterCells
    <3>2. Overlap(m, m)
      BY <3>1, RegisterCells
    <3> QED BY <1>1, <1>3, <2>1, <3>2
  <2>2. CASE ~IsRegister(t)
    BY <1>1, <1>2, <2>2 DEF Overlap
  <2> QED BY <2>1, <2>2
<1>4. ~Overlap(l, m) => GetDefinitions(KillDefinitions(context, l), m) = GetDefinitions(context, m)
  BY DEF GetDefinitions, KillDefinitions
<1>5. ~Overlap(l, m) /\ l # m => GetDefinitions(AddDefinition(context, l, t), m) = GetDefinitions(context, m)
  <2>1. \A k \in DOMAIN AddDefinition(context, l, t) :
          AddDefinition(context, l, t)[k] = IF k = l THEN {t} ELSE KillDefinitions(context, l)[k]
    BY DEF AddDefinition
  <2>2. DOMAIN AddDefinition(context, l, t) = DOMAIN KillDefinitions(context, l) \cup {l}
    BY DEF AddDefinition
  <2> QED BY <1>4, <2>1, <2>2 DEF GetDefinitions
<1>6. GetDefinitions(AddDefinition(context, l, t), l) = {t}
  BY DEF GetDefinitions, AddDefinition
<1> HIDE DEF l
<1>7. /\ l = Nowhere \/ IsGlobalMemory(l) \/ IsRead(t) => SimulatedContext(t, l) = context
      /\ l # Nowhere /\ ~IsGlobalMemory(l) /\ IsWrite(t) =>
           SimulatedContext(t, l) = AddDefinition(context, l, t)
      /\ l # Nowhere /\ ~IsGlobalMemory(l) /\ IsKill(t) =>
           SimulatedContext(t, l) = KillDefinitions(context, l)
  BY ContextAfter
<1>8. ASSUME ~(~IsRead(t) /\ IsRegister(t) /\ Overlap(Loc(t), m))
      PROVE  GetDefinitions(SimulatedContext(t, l), m) = GetDefinitions(context, m)
  BY <1>1, <1>3, <1>4, <1>5, <1>7, <1>8
<1>9. ASSUME IsWrite(t), IsRegister(t), Loc(t) = m
      PROVE  GetDefinitions(SimulatedContext(t, l), m) = {t}
  BY <1>1, <1>6, <1>7, <1>9
<1> QED BY <1>8, <1>9 DEF l

\* Simulating a term keeps what registers have right.
LEMMA SimulationKeeps ==
  ASSUME code \in Codes, NEW t \in Terms, WellKept(context), DOMAIN locations = Terms,
         locations' = [locations EXCEPT ![t] = LocationOf(t)], code' = code,
         context' = SimulatedContext(t, LocationOf(t))
  PROVE  WellKept(context)'
<1>0. PICK l : l = LocationOf(t)
  OBVIOUS
<1>1. /\ IsRegister(t) => l = Loc(t)
      /\ l.domain = "REGISTER" => IsRegister(t)
  BY <1>0, WhereTermsAre
<1>2. locations'[t] = l /\ \A u \in Terms : u # t => locations'[u] = locations[u]
  BY <1>0
<1>3. ASSUME NEW d, NEW k, Kept(d, k) PROVE Kept(d, k)'
  <2>1. d \in Terms /\ IsWrite(d) /\ IsRegister(d) /\ Loc(d) = k /\ locations[d] = k
    BY <1>3 DEF Kept
  <2>2. locations'[d] = k
    BY <1>1, <1>2, <2>1
  <2> QED BY <2>1, <2>2, SameFunction DEF Kept
<1>4. ASSUME l.domain = "REGISTER", IsWrite(t) PROVE Kept(t, l)'
  <2>1. IsRegister(t) /\ Loc(t) = l /\ locations'[t] = l
    BY <1>1, <1>2, <1>4
  <2> QED BY <1>4, <2>1, SameFunction DEF Kept
<1>5. \/ context' = context
      \/ context' = KillDefinitions(context, l)
      \/ IsWrite(t) /\ context' = AddDefinition(context, l, t)
  <2>1. context' = SimulatedContext(t, l)
    BY <1>0
  <2> QED BY <2>1, ContextAfter, WhereTermsAre
<1>6. \A k \in DOMAIN KillDefinitions(context, l) :
        k \in DOMAIN context /\ KillDefinitions(context, l)[k] = context[k]
  BY DEF KillDefinitions
<1>7. \A k \in DOMAIN AddDefinition(context, l, t) :
        \/ k = l /\ AddDefinition(context, l, t)[k] = {t}
        \/ k \in DOMAIN context /\ AddDefinition(context, l, t)[k] = context[k]
  BY <1>6 DEF AddDefinition
<1>8. ASSUME NEW k \in DOMAIN context', k.domain = "REGISTER", NEW d \in context'[k]
      PROVE  Kept(d, k)'
  <2>1. CASE k \in DOMAIN context /\ context'[k] = context[k]
    BY <1>3, <1>8, <2>1 DEF WellKept
  <2>2. CASE IsWrite(t) /\ k = l /\ context'[k] = {t}
    <3>1. d = t /\ l.domain = "REGISTER"
      BY <1>8, <2>2
    <3> QED BY <1>4, <2>2, <3>1
  <2> QED BY <1>5, <1>6, <1>7, <2>1, <2>2
<1> QED BY <1>8 DEF WellKept

\* Simulating a term keeps the account of the block up to the next one.
LEMMA FlowSimulate ==
  ASSUME Flow, Simulate PROVE Flow'
<1>1. /\ phase = "simulate" /\ phase' = "simulate" /\ term <= LastOf(block) /\ term' = term + 1
      /\ code' = code /\ uses' = uses /\ output' = output /\ arguments' = arguments
      /\ block' = block /\ changed' = changed
  BY DEF Simulate, LastOf
<1>2. /\ IsSimulated(term) =>
           /\ locations' = [locations EXCEPT ![term] = LocationOf(term)]
           /\ definitions' = [definitions EXCEPT ![term] =
                IF IsRead(term) THEN ReadDefinitions(term, LocationOf(term)) ELSE @]
           /\ context' = SimulatedContext(term, LocationOf(term))
      /\ ~IsSimulated(term) => locations' = locations /\ definitions' = definitions /\ context' = context
  BY DEF Simulate
<1>3. /\ code \in Codes /\ block \in Blocks /\ term \in First(block) .. LastOf(block) + 1
      /\ DOMAIN locations = Terms /\ DOMAIN definitions = Terms /\ DOMAIN output = Blocks
  BY <1>1 DEF Flow, Shape
<1>4. /\ First(block) \in Nat /\ LastOf(block) \in Nat /\ First(block) <= LastOf(block)
      /\ term \in First(block) .. LastOf(block) /\ term \in Nat /\ term \in Terms
  <2>1. /\ First(block) \in Nat /\ LastOf(block) \in Nat /\ First(block) <= LastOf(block)
    BY <1>3, BlocksAreLong
  <2>2. term \in First(block) .. LastOf(block) /\ term \in Nat
    BY <1>1, <1>3, <2>1
  <2> QED BY <1>3, <2>1, <2>2, FunctionParts
<1>5. /\ Terms' = Terms /\ Blocks' = Blocks
      /\ \A b : First(b)' = First(b) /\ LastOf(b)' = LastOf(b)
      /\ \A t : Loc(t)' = Loc(t) /\ (IsRead(t)' <=> IsRead(t)) /\ (IsRegister(t)' <=> IsRegister(t))
  BY <1>1, SameFunction
<1>6. PICK s \in First(block) .. LastOf(block) : s = term
  BY <1>4
<1>7. s \in Terms /\ s \in Nat /\ BlockOf(s) = block
  BY <1>3, <1>4, <1>6, FunctionParts
<1>8. /\ IsRegister(s) => LocationOf(s) = Loc(s) /\ Loc(s) \in Registers /\ Loc(s) # Nowhere
                            /\ ~IsGlobalMemory(Loc(s))
      /\ LocationOf(s).domain = "REGISTER" => IsRegister(s)
      /\ IsRead(s) => IsSimulated(s)
  BY <1>3, <1>7, WhereTermsAre
<1>9. /\ \A t \in Terms : t # s => locations'[t] = locations[t] /\ definitions'[t] = definitions[t]
      /\ IsSimulated(s) => locations'[s] = LocationOf(s)
      /\ ~IsSimulated(s) => locations'[s] = locations[s]
      /\ IsRead(s) => definitions'[s] = ReadDefinitions(s, LocationOf(s))
      /\ ~IsRead(s) => definitions'[s] = definitions[s]
      /\ DOMAIN locations' = Terms /\ DOMAIN definitions' = Terms
  <2>1. CASE IsSimulated(s)
    <3>1. /\ locations' = [locations EXCEPT ![s] = LocationOf(s)]
          /\ definitions' = [definitions EXCEPT ![s] =
                IF IsRead(s) THEN ReadDefinitions(s, LocationOf(s)) ELSE definitions[s]]
      BY <1>2, <1>6, <2>1
    <3> QED BY <1>3, <1>7, <2>1, <3>1
  <2>2. CASE ~IsSimulated(s)
    BY <1>2, <1>3, <1>6, <1>8, <2>2
  <2> QED BY <2>1, <2>2
<1>10. Shape'
  <2>1. term' \in First(block) .. LastOf(block) + 1
    BY <1>1, <1>4
  <2> QED BY <1>1, <1>3, <1>5, <1>9, <2>1 DEF Shape, Rounds
<1>11. \A t \in Terms : IsRegister(t) /\ locations[t] = Loc(t) => locations'[t] = Loc(t)
  BY <1>8, <1>9
<1>12. \A d, l : Kept(d, l) => Kept(d, l)'
  BY <1>1, <1>11, SameFunction DEF Kept
<1>13. /\ WellKept(context) /\ \A b \in Blocks : WellKept(output[b])
       /\ \A t \in Terms : locations[t].domain = "REGISTER" => IsRegister(t) /\ locations[t] = Loc(t)
       /\ \A r \in Terms : IsRead(r) /\ IsRegister(r) =>
            \A d \in definitions[r] : Kept(d, Loc(r)) /\ locations[r] = Loc(r)
  BY DEF Flow, RegistersKept
<1>14. IsRead(s) /\ IsRegister(s) => definitions'[s] = GetDefinitions(context, Loc(s))
  BY <1>8, <1>9 DEF ReadDefinitions
<1>15. RegistersKept'
  <2>1. WellKept(context)'
    <3>1. CASE IsSimulated(s)
      BY <1>1, <1>2, <1>3, <1>6, <1>7, <1>13, <3>1, SimulationKeeps
    <3>2. CASE ~IsSimulated(s)
      BY <1>1, <1>2, <1>6, <1>11, <1>13, <3>2, SameKept DEF WellKept
    <3> QED BY <3>1, <3>2
  <2>2. ASSUME NEW b \in Blocks PROVE WellKept(output[b])'
    BY <1>1, <1>12, <1>13 DEF WellKept
  <2>3. \A t \in Terms : locations'[t].domain = "REGISTER" => IsRegister(t) /\ locations'[t] = Loc(t)
    BY <1>8, <1>9, <1>13
  <2>4. ASSUME NEW r \in Terms, IsRead(r), IsRegister(r), NEW d \in definitions'[r]
        PROVE  Kept(d, Loc(r)) /\ locations'[r] = Loc(r)
    <3>1. CASE r # s
      BY <1>9, <1>13, <2>4, <3>1
    <3>2. CASE r = s
      <4>1. Loc(s).domain = "REGISTER"
        BY <2>4, <3>2 DEF IsRegister, Loc
      <4> QED BY <1>8, <1>9, <1>13, <1>14, <2>4, <3>2, <4>1 DEF WellKept, GetDefinitions
    <3> QED BY <3>1, <3>2
  <2>5. ASSUME NEW r \in Terms, IsRead(r), IsRegister(r), NEW d \in definitions'[r]
        PROVE  Kept(d, Loc(r))' /\ locations'[r] = Loc(r)'
    <3>1. PICK l : l = Loc(r)
      OBVIOUS
    <3>2. Kept(d, l) /\ locations'[r] = l /\ Loc(r)' = l
      BY <1>5, <2>4, <2>5, <3>1
    <3>3. Kept(d, l)'
      BY <1>12, <3>2
    <3> QED BY <3>1, <3>2, <3>3
  <2> QED BY <1>1, <1>5, <2>1, <2>2, <2>3, <2>5 DEF RegistersKept
<1>16. /\ \A d, b, k : Reaches(d, b, k)' <=> Reaches(d, b, k)
       /\ \A defs, b, k : Reached(defs, b, k)' <=> Reached(defs, b, k)
       /\ \A t : IsSimulated(t)' <=> IsSimulated(t)
  BY <1>1, SameReaches DEF IsSimulated, IsArgument
<1>17. ASSUME NEW b \in Blocks, NEW k \in Int, Settled(b, k), s \notin First(b) .. k - 1,
              k <= LastOf(b) + 1
       PROVE  Settled(b, k)'
  <2>1. \A t \in First(b) .. k - 1 :
          t \in Terms /\ locations'[t] = locations[t] /\ definitions'[t] = definitions[t]
    <3>1. First(b) \in Nat /\ LastOf(b) \in Nat
      BY <1>3, BlocksAreLong
    <3>2. First(b) .. k - 1 \subseteq First(b) .. LastOf(b)
      BY <1>17, <3>1
    <3> QED BY <1>3, <1>9, <1>17, <3>2, FunctionParts
  <2> QED BY <1>5, <1>16, <1>17, <2>1 DEF Settled
<1>18. Progress'
  <2>1. Processed' = Processed /\ Processed = {b \in Blocks : b < block}
    BY <1>1, <1>5 DEF Processed, Rounds
  <2>2. \A b \in Processed : Settled(b, LastOf(b) + 1) /\ Reached(output[b], b, LastOf(b) + 1)
    BY DEF Flow, Progress
  <2>3. \A b \in Processed : Settled(b, LastOf(b) + 1)'
    <3> TAKE b \in Processed
    <3>1. b \in Blocks /\ b # block /\ LastOf(b) + 1 \in Int /\ (LastOf(b) + 1) - 1 = LastOf(b)
      <4>1. b \in Blocks /\ b < block /\ b \in Nat
        BY <1>3, <2>1, FunctionParts
      <4>2. LastOf(b) \in Nat
        BY <1>3, <4>1, BlocksAreLong
      <4> QED BY <4>1, <4>2
    <3>2. s \notin First(b) .. LastOf(b)
      BY <1>3, <1>7, <3>1, FunctionParts
    <3>3. PICK k \in Int : k = LastOf(b) + 1
      BY <3>1
    <3>4. Settled(b, k) /\ s \notin First(b) .. k - 1 /\ k <= LastOf(b) + 1
      BY <2>2, <3>1, <3>2, <3>3
    <3>5. Settled(b, k)'
      BY <1>17, <3>1, <3>4
    <3> QED BY <1>5, <3>3, <3>5
  <2>4. \A b \in Processed : Reached(output[b], b, LastOf(b) + 1)'
    BY <1>1, <1>5, <1>16, <2>2
  <2>5. Settled(block, s) /\ Reached(context, block, s)
    BY <1>1, <1>6 DEF Flow, Progress
  <2>6. ASSUME IsRegister(s), IsSimulated(s)
        PROVE  /\ locations'[s] = Loc(s)
               /\ IsRead(s) => \A d \in Terms : Reaches(d, block, s) /\ Loc(d) = Loc(s) => d \in definitions'[s]
    BY <1>8, <1>9, <1>14, <2>5, <2>6 DEF Reached
  <2>7. Settled(block, s + 1)'
    <3>1. Settled(block, s)'
      BY <1>1, <1>3, <1>4, <1>6, <1>7, <1>17, <2>5
    <3>2. \A t \in First(block) .. (s + 1) - 1 : t = s \/ t \in First(block) .. s - 1
      BY <1>4, <1>7
    <3> QED BY <1>1, <1>5, <1>16, <2>6, <3>1, <3>2 DEF Settled
  <2>8. Reached(context', block, s + 1)
    <3> SUFFICES ASSUME NEW d \in Terms, Reaches(d, block, s + 1)
                 PROVE  d \in GetDefinitions(context', Loc(d))
      BY DEF Reached
    <3>1. CASE d = s /\ Arises(d, block, s + 1)
      <4>1. IsSimulated(s) /\ IsWrite(s) /\ IsRegister(s)
        BY <3>1 DEF Arises
      <4>2. GetDefinitions(SimulatedContext(s, LocationOf(s)), Loc(s)) = {s}
        BY <1>3, <1>7, <1>8, <4>1, AfterSimulation
      <4> QED BY <1>2, <1>6, <3>1, <4>1, <4>2
    <3>2. CASE ~(d = s /\ Arises(d, block, s + 1))
      <4>1. Reaches(d, block, s) /\ ~Touches(s, Loc(d)) /\ IsRegister(d)
        BY <1>3, <1>6, <3>2, ReachesBefore
      <4>2. d \in GetDefinitions(context, Loc(d)) /\ Loc(d) \in Registers
        BY <1>3, <2>5, <4>1, WhereTermsAre DEF Reached
      <4>3. CASE ~IsSimulated(s)
        BY <1>2, <1>6, <4>2, <4>3
      <4>4. CASE IsSimulated(s)
        <5>1. ~(~IsRead(s) /\ IsRegister(s) /\ Overlap(Loc(s), Loc(d)))
          BY <4>1, <4>4 DEF Touches
        <5>2. GetDefinitions(SimulatedContext(s, LocationOf(s)), Loc(d)) = GetDefinitions(context, Loc(d))
          BY <1>3, <1>7, <4>2, <5>1, AfterSimulation
        <5> QED BY <1>2, <1>6, <4>2, <4>4, <5>2
      <4> QED BY <4>3, <4>4
    <3> QED BY <3>1, <3>2
  <2>9. Reached(context, block, term)'
    BY <1>1, <1>5, <1>6, <1>16, <2>8
  <2> QED BY <1>1, <1>5, <1>6, <2>1, <2>3, <2>4, <2>7, <2>9 DEF Progress, Rounds
<1> QED BY <1>10, <1>15, <1>18 DEF Flow

\* The end of a block is put with the others: what the block was reached by has left it.  If
\* that was new, whatever comes with jumps does not count any more.
LEMMA BlockLeft ==
  ASSUME Flow, phase = "simulate", Closed(block), code' = code, locations' = locations,
         definitions' = definitions, arguments' = arguments,
         output' = [output EXCEPT ![block] = context],
         ~changed' => ~changed /\ output[block] = context
  PROVE  /\ DOMAIN output' = Blocks /\ \A b \in Blocks : WellKept(output[b])'
         /\ \A b \in Blocks : b < block \/ b = block =>
              Settled(b, LastOf(b) + 1)' /\ Reached(output[b], b, LastOf(b) + 1)'
<1>1. /\ code \in Codes /\ block \in Blocks /\ DOMAIN output = Blocks
      /\ term \in First(block) .. LastOf(block) + 1 /\ First(block) \in Nat /\ LastOf(block) \in Nat
  BY BlocksAreLong DEF Flow, Shape
<1>2. term = LastOf(block) + 1
  BY <1>1 DEF Closed, LastOf
<1>3. /\ Terms' = Terms /\ Blocks' = Blocks
      /\ \A b : First(b)' = First(b) /\ LastOf(b)' = LastOf(b)
      /\ \A t : Loc(t)' = Loc(t) /\ (IsRead(t)' <=> IsRead(t)) /\ (IsRegister(t)' <=> IsRegister(t))
  BY SameFunction
<1>4. /\ output'[block] = context
      /\ \A b \in Blocks : b # block => output'[b] = output[b]
      /\ DOMAIN output' = Blocks
  BY <1>1
<1>5. \A d, l : Kept(d, l) => Kept(d, l)'
  BY SameFunction DEF Kept
<1>6. ASSUME NEW b \in Blocks PROVE WellKept(output[b])'
  <2>1. WellKept(context) /\ WellKept(output[b])
    BY DEF Flow, RegistersKept
  <2> QED BY <1>4, <1>5, <2>1 DEF WellKept
<1>7. \A d, b, k : Reaches(d, b, k)' => Reaches(d, b, k)
  <2> SUFFICES ASSUME NEW d, NEW b, NEW k, Reaches(d, b, k)' PROVE Reaches(d, b, k)
    OBVIOUS
  <2>1. CASE Arises(d, b, k)'
    BY <2>1, SameTouches DEF Reaches
  <2>2. CASE ~changed' /\ Passes(d, b, k)'
    <3>1. ~changed /\ \A p \in Blocks : output'[p] = output[p]
      BY <1>4, <2>2
    <3>2. IsRegister(d) /\ Spared(Loc(d), First(b), k)
      BY <1>3, <2>2, SameTouches DEF Passes
    <3>3. PICK p \in PredecessorsOf(b)' : d \in GetDefinitions(output'[p], Loc(d)')
      BY <2>2 DEF Passes, GetDefinitions
    <3>4. p \in PredecessorsOf(b) /\ d \in GetDefinitions(output[p], Loc(d))
      BY <1>3, <3>1, <3>3 DEF PredecessorsOf
    <3> QED BY <3>1, <3>2, <3>4 DEF Reaches, Passes
  <2> QED BY <2>1, <2>2 DEF Reaches
<1>8. \A t : IsSimulated(t)' <=> IsSimulated(t)
  BY DEF IsSimulated, IsArgument
<1>9. ASSUME NEW b \in Blocks, b < block \/ b = block
      PROVE  Settled(b, LastOf(b) + 1)' /\ Reached(output[b], b, LastOf(b) + 1)'
  <2>1. Settled(b, LastOf(b) + 1) /\ Reached(output'[b], b, LastOf(b) + 1)
    <3>1. CASE b = block
      BY <1>2, <1>4, <3>1 DEF Flow, Progress
    <3>2. CASE b < block
      <4>1. b \in Processed /\ b # block
        BY <1>1, <3>2, FunctionParts DEF Processed, Rounds
      <4> QED BY <1>4, <4>1 DEF Flow, Progress
    <3> QED BY <1>9, <3>1, <3>2
  <2>2. PICK k : k = LastOf(b) + 1
    OBVIOUS
  <2>3. (LastOf(b) + 1)' = k
    BY <1>3, <2>2
  <2>4. Settled(b, k)'
    <3>1. Settled(b, k)
      BY <2>1, <2>2
    <3> QED BY <1>3, <1>7, <1>8, <3>1 DEF Settled
  <2>5. Reached(output[b], b, k)'
    <3>1. Reached(output'[b], b, k)
      BY <2>1, <2>2
    <3> QED BY <1>3, <1>7, <3>1 DEF Reached
  <2> QED BY <2>2, <2>3, <2>4, <2>5
<1> QED BY <1>4, <1>6, <1>9

\* The outputs of the other blocks stay good when a block's end is stored.
LEMMA KeptByLeaving ==
  ASSUME Flow, code' = code, locations' = locations, definitions' = definitions, context' = context,
         \A b \in Blocks : WellKept(output[b])'
  PROVE  RegistersKept'
<1>1. /\ Terms' = Terms /\ Blocks' = Blocks
      /\ \A t : Loc(t)' = Loc(t) /\ (IsRead(t)' <=> IsRead(t)) /\ (IsRegister(t)' <=> IsRegister(t))
  BY SameFunction
<1>2. \A d, l : Kept(d, l) => Kept(d, l)'
  BY SameFunction DEF Kept
<1>3. WellKept(context)'
  BY <1>2 DEF Flow, RegistersKept, WellKept
<1>4. ASSUME NEW r \in Terms, IsRead(r), IsRegister(r), NEW d \in definitions'[r]
      PROVE  Kept(d, Loc(r))' /\ locations'[r] = Loc(r)'
  <2>1. PICK l : l = Loc(r)
    OBVIOUS
  <2>2. Kept(d, l) /\ locations'[r] = l /\ Loc(r)' = l
    BY <1>1, <1>4, <2>1 DEF Flow, RegistersKept
  <2>3. Kept(d, l)'
    BY <1>2, <2>2
  <2> QED BY <2>1, <2>2, <2>3
<1>5. \A t \in Terms : locations'[t].domain = "REGISTER" => IsRegister(t) /\ locations'[t] = Loc(t)
  BY DEF Flow, RegistersKept
<1> QED BY <1>1, <1>3, <1>4, <1>5 DEF RegistersKept

\* Leaving a block stores what reaches its end.
LEMMA FlowLeave ==
  ASSUME Flow, LeaveBlock PROVE Flow'
<1>1. /\ phase = "simulate" /\ Closed(block) /\ block < Len(code.blocks)
      /\ output' = [output EXCEPT ![block] = context]
      /\ changed' = (changed \/ output[block] # context)
      /\ block' = block + 1 /\ phase' = "enter"
      /\ code' = code /\ locations' = locations /\ definitions' = definitions /\ uses' = uses
      /\ context' = context /\ arguments' = arguments
  BY DEF LeaveBlock, results
<1>2. /\ DOMAIN output' = Blocks /\ \A b \in Blocks : WellKept(output[b])'
      /\ \A b \in Blocks : b < block \/ b = block =>
           Settled(b, LastOf(b) + 1)' /\ Reached(output[b], b, LastOf(b) + 1)'
  BY <1>1, BlockLeft
<1>3. /\ code \in Codes /\ block \in Blocks /\ DOMAIN locations = Terms /\ DOMAIN definitions = Terms
      /\ Terms' = Terms /\ Blocks' = Blocks
  BY <1>1, SameFunction DEF Flow, Shape
<1>4. block + 1 \in Blocks /\ \A b \in Blocks : b < block + 1 => b < block \/ b = block
  <2>1. Blocks = 1 .. Len(code.blocks) /\ Len(code.blocks) \in Nat
    BY <1>3, FunctionParts
  <2> QED BY <1>1, <1>3, <2>1
<1>5. Shape'
  BY <1>1, <1>2, <1>3, <1>4 DEF Shape, Rounds
<1>6. RegistersKept'
  BY <1>1, <1>2, KeptByLeaving
<1>7. Progress'
  <2>1. Processed' = {b \in Blocks : b < block + 1}
    BY <1>1, <1>3 DEF Processed, Rounds
  <2> QED BY <1>1, <1>2, <1>4, <2>1 DEF Progress, Rounds
<1> QED BY <1>5, <1>6, <1>7 DEF Flow

\* A round that ends starts the next one, or was the last.
LEMMA FlowEnd ==
  ASSUME Flow, EndRound PROVE Flow'
<1>1. /\ phase = "simulate" /\ Closed(block) /\ block = Len(code.blocks)
      /\ output' = [output EXCEPT ![block] = context] /\ uses' = [d \in Terms |-> UsesOf(d)]
      /\ block' = Entry
      /\ code' = code /\ locations' = locations /\ definitions' = definitions
      /\ context' = context /\ arguments' = arguments
  BY DEF EndRound
<1>2. /\ phase' \in {"enter", "done"}
      /\ phase' = "done" => (~changed' => ~changed /\ output[block] = context)
  BY DEF EndRound
<1>3. /\ code \in Codes /\ block \in Blocks /\ DOMAIN locations = Terms /\ DOMAIN definitions = Terms
      /\ Terms' = Terms /\ Blocks' = Blocks /\ Entry \in Blocks /\ DOMAIN output' = Blocks
  BY <1>1, SameFunction, FunctionParts DEF Flow, Shape
<1>4. Shape'
  <2>1. Entry' = Entry
    BY DEF Entry
  <2> QED BY <1>1, <1>2, <1>3, <2>1 DEF Shape, Rounds
<1>5. \A b \in Blocks : WellKept(output[b])'
  <2> TAKE b \in Blocks
  <2>1. WellKept(context) /\ WellKept(output[b])
    BY DEF Flow, RegistersKept
  <2>2. output'[b] = context \/ output'[b] = output[b]
    BY <1>1, <1>3
  <2>3. \A d, l : Kept(d, l) => Kept(d, l)'
    BY <1>1, SameFunction DEF Kept
  <2> QED BY <2>1, <2>2, <2>3 DEF WellKept
<1>6. RegistersKept'
  BY <1>1, <1>5, KeptByLeaving
<1>7. Progress'
  <2>1. CASE phase' = "enter"
    <3>1. Processed' = {}
      BY <1>1, <1>3, <2>1, FunctionParts DEF Processed, Rounds, Entry
    <3> QED BY <2>1, <3>1 DEF Progress, Rounds
  <2>2. CASE phase' = "done"
    <3>1. \A b \in Blocks : b < block \/ b = block =>
            Settled(b, LastOf(b) + 1)' /\ Reached(output[b], b, LastOf(b) + 1)'
      BY <1>1, <1>2, <2>2, BlockLeft
    <3>2. \A b \in Blocks : b < block \/ b = block
      BY <1>1, <1>3, FunctionParts
    <3>3. Processed' = Blocks
      BY <1>3, <2>2 DEF Processed, Rounds
    <3>4. \A d \in Terms : uses'[d] = UsesOf(d) /\ UsesOf(d)' = UsesOf(d)
      BY <1>1, <1>3, SameFunction DEF UsesOf
    <3> QED BY <1>3, <2>2, <3>1, <3>2, <3>3, <3>4 DEF Progress, Rounds
  <2> QED BY <1>2, <2>1, <2>2
<1> QED BY <1>4, <1>6, <1>7 DEF Flow

\* Nothing of all this is touched by what goes on after the rounds.
LEMMA FlowAfterwards ==
  ASSUME Flow, UNCHANGED <<code, locations, definitions, uses, output, context, arguments, block,
                           term, changed>>,
         \/ phase' = phase
         \/ phase \notin Rounds /\ phase' \in {"done", "variables", "analyzed"}
  PROVE  Flow'
<1>1. /\ Terms' = Terms /\ Blocks' = Blocks
      /\ \A b : First(b)' = First(b) /\ LastOf(b)' = LastOf(b)
      /\ \A t : Loc(t)' = Loc(t) /\ (IsRead(t)' <=> IsRead(t)) /\ (IsRegister(t)' <=> IsRegister(t))
  BY SameFunction
<1>2. /\ \A d, b, k : Reaches(d, b, k)' <=> Reaches(d, b, k)
      /\ \A defs, b, k : Reached(defs, b, k)' <=> Reached(defs, b, k)
      /\ \A t : IsSimulated(t)' <=> IsSimulated(t)
  BY SameReaches DEF IsSimulated, IsArgument
<1>3. Shape'
  BY <1>1 DEF Flow, Shape, Rounds
<1>4. \A b \in Blocks : WellKept(output[b])'
  <2> TAKE b \in Blocks
  <2>1. \A d, l : Kept(d, l) => Kept(d, l)'
    BY SameFunction DEF Kept
  <2> QED BY <2>1 DEF Flow, RegistersKept, WellKept
<1>5. RegistersKept'
  BY <1>4, KeptByLeaving
<1>6. Progress'
  <2>1. Processed' = Processed /\ Processed \subseteq Blocks
    BY <1>1 DEF Processed, Rounds
  <2>2. ASSUME NEW b, NEW k PROVE Settled(b, k) => Settled(b, k)'
    BY <1>1, <1>2 DEF Settled
  <2>3. \A b \in Processed : Settled(b, LastOf(b) + 1)' /\ Reached(output[b], b, LastOf(b) + 1)'
    <3> TAKE b \in Processed
    <3>1. PICK k : k = LastOf(b) + 1
      OBVIOUS
    <3>2. Settled(b, k) /\ Reached(output[b], b, k) /\ (LastOf(b) + 1)' = k
      BY <1>1, <3>1 DEF Flow, Progress
    <3>3. Settled(b, k)' /\ Reached(output[b], b, k)'
      BY <1>2, <2>2, <3>2
    <3> QED BY <3>2, <3>3
  <2>4. ASSUME phase' = "simulate" PROVE Settled(block, term)' /\ Reached(context, block, term)'
    <3>1. Settled(block, term) /\ Reached(context, block, term)
      BY <2>4 DEF Flow, Progress, Rounds
    <3>2. PICK b, k : b = block /\ k = term
      OBVIOUS
    <3>3. Settled(b, k)' /\ Reached(context, b, k)'
      BY <1>2, <2>2, <3>1, <3>2
    <3> QED BY <3>2, <3>3
  <2>5. phase' \notin Rounds => \A d \in Terms : uses'[d] = UsesOf(d)'
    BY <1>1 DEF Flow, Progress, UsesOf, Rounds
  <2> QED BY <1>1, <2>1, <2>3, <2>4, <2>5 DEF Progress, Rounds
<1> QED BY <1>3, <1>5, <1>6 DEF Flow

\* No step of the analysis or of the machine breaks it.
LEMMA FlowNext == Flow /\ [Next]_vars => Flow'
<1> SUFFICES ASSUME Flow, [Next]_vars PROVE Flow'
  OBVIOUS
<1>1. CASE Analyze
  BY <1>1, FlowEnter, FlowSimulate, FlowLeave, FlowEnd DEF Analyze
<1>2. CASE ComputeUsage
  <2>1. /\ phase \notin Rounds /\ phase' \in {"done", "variables", "analyzed"}
        /\ UNCHANGED <<code, locations, definitions, uses, output, context, arguments, block, term,
                       changed>>
    BY <1>2 DEF ComputeUsage, results, Rounds
  <2> QED BY <2>1, FlowAfterwards
<1>3. CASE AnalyzeVariables
  <2>1. /\ phase \notin Rounds /\ phase' \in {"done", "variables", "analyzed"}
        /\ UNCHANGED <<code, locations, definitions, uses, output, context, arguments, block, term,
                       changed>>
    BY <1>3 DEF AnalyzeVariables, results, Rounds
  <2> QED BY <2>1, FlowAfterwards
<1>4. CASE Start \/ Run \/ Finished \/ UNCHANGED vars
  <2>1. UNCHANGED <<code, locations, definitions, uses, output, context, arguments, block, term,
                    changed, phase>>
    BY <1>4 DEF Start, Run, Finished, vars, varvars, usedvars, dvars, results, control
  <2> QED BY <2>1, FlowAfterwards
<1> QED BY <1>1, <1>2, <1>3, <1>4 DEF Next

\* What the analysis has found so far of registers is right at every step: the end of each
\* block it is through with has the definitions that reach it, as far as a round can know.
THEOREM FlowInvariance == Spec => []Flow
BY FlowInit, FlowNext, PTL DEF Spec

-----------------------------------------------------------------------------
(* The least and the greatest of the terms. *)

\* The order of the naturals, and what it gives.
LEMMA NatIsWellFounded == IsWellFoundedOn({x \in Nat \X Nat : x[1] < x[2]}, Nat)
BY NatLessThanWellFounded DEF OpToRel

\* A set of naturals that is not empty has a member below none.
LEMMA MinimalMember ==
  ASSUME NEW R, NEW S, IsWellFoundedOn(R, S)
  PROVE  \A T \in SUBSET S : T # {} => \E m \in T : \A n \in T : <<n, m>> \notin R
BY WFMin

\* It is the one the library's Min chooses.
LEMMA MinIsLeast ==
  ASSUME NEW T \in SUBSET Nat, T # {}
  PROVE  Min(T) \in T /\ \A n \in T : Min(T) <= n
<1> DEFINE R == {x \in Nat \X Nat : x[1] < x[2]}
<1>1. \A m, n \in Nat : n < m => <<n, m>> \in R
  OBVIOUS
<1>2. IsWellFoundedOn(R, Nat)
  BY NatIsWellFounded
<1> HIDE DEF R
<1>3. PICK m \in T : \A n \in T : <<n, m>> \notin R
  BY <1>2, MinimalMember
<1>4. \A n \in T : ~(n < m)
  BY <1>1, <1>3
<1>5. \A n \in T : m <= n
  BY <1>4
<1> QED BY <1>3, <1>5 DEF Min

\* Max chooses the greatest of a set with a bound.
LEMMA MaxIsGreatest ==
  ASSUME NEW k \in Nat, NEW T \in SUBSET (1 .. k), T # {}
  PROVE  Max(T) \in T /\ \A n \in T : n <= Max(T)
<1> DEFINE D == {k - n : n \in T}
<1>1. D \in SUBSET Nat /\ D # {}
  <2>1. \A n \in T : k - n \in Nat
    OBVIOUS
  <2>2. \E n \in T : k - n \in D
    OBVIOUS
  <2> QED BY <2>1, <2>2
<1>2. Min(D) \in D /\ \A i \in D : Min(D) <= i
  BY <1>1, MinIsLeast
<1>3. PICK m \in T : Min(D) = k - m
  BY <1>2
<1>4. \A n \in T : n <= m
  <2> TAKE n \in T
  <2>1. k - n \in D /\ m \in 1 .. k /\ n \in 1 .. k
    OBVIOUS
  <2>2. k - m <= k - n
    BY <1>2, <1>3, <2>1
  <2> QED BY <2>1, <2>2
<1> QED BY <1>3, <1>4 DEF Max

-----------------------------------------------------------------------------
(* Cells and who wrote them. *)

\* The cells of registers are cells of the register file.
LEMMA CellsOfRegisters ==
  ASSUME NEW l \in Registers
  PROVE  Cells(l) \subseteq FileCells
<1>1. Cells(l) = {<<"register", i>> : i \in l.addr .. l.addr + l.size - 1}
  BY DEF Cells, Registers
<1>2. l.addr \in Int /\ l.size \in Nat /\ l.addr >= 0 /\ l.addr + l.size <= RegisterBits
  BY DEF Registers, Locations
<1>3. l.addr .. l.addr + l.size - 1 \subseteq 0 .. RegisterBits - 1
  BY <1>2, MachineAssumption
<1> QED BY <1>1, <1>3 DEF FileCells

\* Those of memory are not.
LEMMA CellsOfOthers ==
  ASSUME NEW m, m.domain # "REGISTER"
  PROVE  Cells(m) \cap FileCells = {}
<1>1. Cells(m) = {<<"memory", ByteAt(m, i)>> : i \in 0 .. BytesIn(m) - 1}
  BY DEF Cells
<1>2. \A c \in Cells(m) : c[1] = "memory"
  BY <1>1
<1>3. \A c \in FileCells : c[1] = "register"
  BY DEF FileCells
<1> QED BY <1>2, <1>3

\* The machine starts with a register file that nobody wrote.
LEMMA FileIsThere ==
  ASSUME NEW registers
  PROVE  /\ "writer" \in DOMAIN EmptyMachine(registers)
         /\ FileCells \subseteq DOMAIN EmptyMachine(registers).writer
         /\ \A c \in DOMAIN EmptyMachine(registers).writer : EmptyMachine(registers).writer[c] = 0
<1> DEFINE file == [domain |-> "REGISTER", addr |-> 0, size |-> RegisterBits]
           cells == Cells(file) \cup {<<"memory", a>> : a \in Addresses}
<1>1. Cells(file) = FileCells
  <2>1. Cells(file) = {<<"register", i>> : i \in 0 .. 0 + RegisterBits - 1}
    BY DEF Cells
  <2>2. 0 .. 0 + RegisterBits - 1 = 0 .. RegisterBits - 1
    BY MachineAssumption
  <2> QED BY <2>1, <2>2 DEF FileCells
<1>2. EmptyMachine(registers) = [registers |-> registers, memory |-> [a \in Addresses |-> 0],
                                 writer |-> [c \in cells |-> 0]]
  BY DEF EmptyMachine
<1> HIDE DEF cells
<1>3. /\ "writer" \in DOMAIN EmptyMachine(registers)
      /\ EmptyMachine(registers).writer = [c \in cells |-> 0]
  BY <1>2
<1>4. FileCells \subseteq cells
  BY <1>1 DEF cells
<1> QED BY <1>3, <1>4

\* Writing changes the writers of the cells written.
LEMMA WritersAfter ==
  ASSUME NEW m, "writer" \in DOMAIN m, NEW l, NEW v, NEW t
  PROVE  "writer" \in DOMAIN Write(m, l, v, t) /\ Write(m, l, v, t).writer = WrittenBy(m, Cells(l), t)
<1>1. CASE l.domain = "REGISTER"
  BY <1>1 DEF Write
<1>2. CASE l.domain # "REGISTER"
  BY <1>2 DEF Write
<1> QED BY <1>1, <1>2

\* The entry terms that have a part of the register file, and the last of them.
LEMMA EntryWriters ==
  ASSUME Flow, phase = "analyzed", NEW c \in FileCells
  PROVE  /\ EntryWriter(c) # 0 =>
              /\ EntryWriter(c) \in Terms /\ IsRegister(EntryWriter(c)) /\ IsWrite(EntryWriter(c))
              /\ IsSimulated(EntryWriter(c)) /\ IsEntryTerm(EntryWriter(c))
              /\ c \in Cells(Loc(EntryWriter(c)))
         /\ \A t \in Terms : IsEntryTerm(t) /\ IsSimulated(t) /\ IsRegister(t) /\ c \in Cells(Loc(t)) =>
              t <= EntryWriter(c) /\ EntryWriter(c) # 0
<1> DEFINE writers == {t \in EntryTerms : c \in Cells(locations[t])}
<1>1. code \in Codes
  BY DEF Flow, Shape
<1>2. \A t \in writers : /\ t \in Terms /\ IsRegister(t) /\ IsWrite(t) /\ IsSimulated(t)
                         /\ IsEntryTerm(t) /\ c \in Cells(Loc(t))
  <2> TAKE t \in writers
  <2>1. t \in Terms /\ IsEntryTerm(t) /\ IsSimulated(t) /\ c \in Cells(locations[t])
    BY DEF EntryTerms
  <2>2. locations[t].domain = "REGISTER"
    BY <2>1, CellsOfOthers
  <2>3. IsRegister(t) /\ locations[t] = Loc(t)
    BY <2>1, <2>2 DEF Flow, RegistersKept
  <2> QED BY <1>1, <2>1, <2>3, ConventionFirst
<1>3. \A t \in Terms : IsEntryTerm(t) /\ IsSimulated(t) /\ IsRegister(t) /\ c \in Cells(Loc(t)) =>
        t \in writers
  <2> SUFFICES ASSUME NEW t \in Terms, IsEntryTerm(t), IsSimulated(t), IsRegister(t), c \in Cells(Loc(t))
               PROVE  locations[t] = Loc(t)
    BY DEF EntryTerms
  <2>1. BlockOf(t) \in Blocks /\ t \in First(BlockOf(t)) .. LastOf(BlockOf(t))
    BY <1>1, FunctionParts
  <2>2. BlockOf(t) \in Processed
    BY <2>1 DEF Processed, Rounds
  <2>3. Settled(BlockOf(t), LastOf(BlockOf(t)) + 1)
    BY <2>2 DEF Flow, Progress
  <2>4. t \in First(BlockOf(t)) .. (LastOf(BlockOf(t)) + 1) - 1
    BY <1>1, <2>1, BlocksAreLong
  <2> QED BY <2>3, <2>4 DEF Settled
<1>4. EntryWriter(c) = IF writers = {} THEN 0 ELSE Max(writers)
  BY DEF EntryWriter
<1> HIDE DEF writers
<1>5. PICK k \in Nat : Terms = 1 .. k
  BY <1>1, FunctionParts
<1>6. writers # {} => Max(writers) \in writers /\ \A n \in writers : n <= Max(writers)
  BY <1>2, <1>5, MaxIsGreatest
<1>7. writers # {} => EntryWriter(c) = Max(writers) /\ Max(writers) # 0
  BY <1>2, <1>4, <1>5, <1>6
<1> QED BY <1>2, <1>3, <1>4, <1>6, <1>7

-----------------------------------------------------------------------------
(* Statements. *)

\* Between the statements of a block there are only reads.
LEMMA BetweenStatements ==
  ASSUME code \in Codes, NEW b \in Blocks, NEW i \in Int, NEW k \in Int,
         First(b) <= i, k <= LastOf(b) + 1,
         \A u \in i .. k - 1 : u \notin StatementsOf(b) /\ ~IsEntryTerm(u)
  PROVE  /\ \A u \in i .. k - 1 : u \in Terms /\ IsRead(u)
         /\ \A l : Spared(l, i, k)
<1>1. \A u \in i .. k - 1 : u \in First(b) .. LastOf(b)
  BY BlocksAreLong
<1>2. ASSUME NEW u \in i .. k - 1 PROVE u \in Terms /\ IsRead(u)
  <2>1. u \in Terms /\ ~IsWrite(u) /\ ~IsKill(u)
    BY <1>1, FunctionParts DEF StatementsOf, EndsStatement, First, LastOf
  <2> QED BY <2>1, WhereTermsAre
<1> QED BY <1>2 DEF Spared, Touches

\* A statement ends at a term of its block that the calling convention did not add.
LEMMA StatementTerms ==
  ASSUME code \in Codes, NEW b \in Blocks, NEW t \in StatementsOf(b)
  PROVE  /\ t \in First(b) .. LastOf(b) /\ t \in Terms /\ t \in Nat \ {0} /\ BlockOf(t) = b
         /\ ~IsEntryTerm(t) /\ IsSimulated(t) /\ (IsWrite(t) \/ IsKill(t) \/ IsCondition(t))
         /\ \A u \in Terms : u > t => ~IsEntryTerm(u)
<1>1. /\ t \in First(b) .. LastOf(b) /\ ~IsEntryTerm(t)
      /\ IsWrite(t) \/ IsKill(t) \/ IsCondition(t)
  BY DEF StatementsOf, EndsStatement, First, LastOf
<1>2. t \in Terms /\ t \in Nat \ {0} /\ BlockOf(t) = b
  BY <1>1, FunctionParts
<1>3. IsSimulated(t)
  BY <1>1 DEF IsSimulated, IsEntryTerm
<1>4. ASSUME NEW u \in Terms, u > t, IsEntryTerm(u) PROVE FALSE
  <2>1. t \in 1 .. u
    BY <1>2, <1>4, FunctionParts
  <2> QED BY <1>1, <1>4, <2>1, ConventionFirst
<1> QED BY <1>1, <1>2, <1>3, <1>4

-----------------------------------------------------------------------------
(* The machine keeps its invariant. *)

\* Nothing runs at first.
LEMMA RunningInit == Init => Running
<1> SUFFICES ASSUME Init PROVE Running
  OBVIOUS
<1>1. machine = EmptyMachine([i \in 0 .. RegisterBits - 1 |-> 0]) /\ pc = 0 /\ 0 \notin Terms
  <2>1. code \in Codes
    BY DEF Init, DataflowInit
  <2> QED BY <2>1, FunctionParts DEF Init
<1>2. /\ "writer" \in DOMAIN machine /\ FileCells \subseteq DOMAIN machine.writer
      /\ \A c \in FileCells : machine.writer[c] = 0
  BY <1>1, FileIsThere
<1> QED BY <1>1, <1>2 DEF Running, WritersAreWrites

\* Writers stay writers; new ones have to be registers that are written.
LEMMA SameWriters ==
  ASSUME code' = code, arguments \subseteq arguments', WritersAreWrites,
         "writer" \in DOMAIN machine', FileCells \subseteq DOMAIN machine'.writer,
         \A c \in FileCells :
            \/ machine'.writer[c] = machine.writer[c]
            \/ machine'.writer[c] = 0
            \/ /\ machine'.writer[c] \in Terms /\ IsRegister(machine'.writer[c])
               /\ IsWrite(machine'.writer[c]) /\ IsSimulated(machine'.writer[c])
  PROVE  WritersAreWrites'
<1>1. /\ Terms' = Terms
      /\ \A t : (IsWrite(t)' <=> IsWrite(t)) /\ (IsRegister(t)' <=> IsRegister(t))
      /\ \A t : IsSimulated(t) => IsSimulated(t)'
  BY SameFunction DEF IsSimulated, IsArgument
<1>2. FileCells' = FileCells
  BY DEF FileCells
<1>3. ASSUME NEW c \in FileCells, machine'.writer[c] # 0, NEW w, w = machine'.writer[c]
      PROVE  w \in Terms /\ IsRegister(w)' /\ IsWrite(w)' /\ IsSimulated(w)'
  BY <1>1, <1>3 DEF WritersAreWrites
<1>4. ASSUME NEW c \in FileCells, machine'.writer[c] # 0
      PROVE  /\ machine'.writer[c] \in Terms' /\ IsRegister(machine.writer[c])'
             /\ IsWrite(machine.writer[c])' /\ IsSimulated(machine.writer[c])'
  <2>1. PICK w : w = machine'.writer[c]
    OBVIOUS
  <2>2. w \in Terms /\ IsRegister(w)' /\ IsWrite(w)' /\ IsSimulated(w)'
    BY <1>3, <1>4, <2>1
  <2> QED BY <1>1, <2>1, <2>2 DEF IsRegister, IsWrite, IsSimulated, IsArgument, Kind
<1> QED BY <1>2, <1>4 DEF WritersAreWrites

\* The first statement of the function has what the calling convention writes.
LEMMA RunningStart ==
  ASSUME Flow, Running, Start PROVE Running'
<1>1. /\ phase = "analyzed" /\ pc = 0 /\ pc' = Min(StatementsOf(Entry))
      /\ \E registers \in InitialRegisters : machine' = WithFrame(EmptyMachine(registers))
      /\ UNCHANGED varvars
  BY DEF Start
<1>2. UNCHANGED <<code, arguments, output, changed, phase>>
  BY <1>1 DEF varvars, usedvars, dvars, results, control
<1>3. code \in Codes /\ Entry \in Blocks
  BY FunctionParts DEF Flow, Shape
<1>4. /\ pc' \in StatementsOf(Entry) /\ \A u \in StatementsOf(Entry) : pc' <= u
  <2>1. StatementsOf(Entry) \in SUBSET Nat /\ StatementsOf(Entry) # {}
    BY <1>3, FunctionParts, StatementTerms
  <2> QED BY <1>1, <2>1, MinIsLeast
<1>5. PICK s \in StatementsOf(Entry) : s = pc'
  BY <1>4
<1>6. /\ s \in First(Entry) .. LastOf(Entry) /\ s \in Terms /\ s \in Nat \ {0} /\ BlockOf(s) = Entry
      /\ ~IsEntryTerm(s) /\ \A u \in Terms : u > s => ~IsEntryTerm(u)
  BY <1>3, StatementTerms
<1>7. /\ "writer" \in DOMAIN machine' /\ FileCells \subseteq DOMAIN machine'.writer
      /\ \A c \in FileCells : machine'.writer[c] = EntryWriter(c)
  <2>1. PICK registers \in InitialRegisters : machine' = WithFrame(EmptyMachine(registers))
    BY <1>1
  <2> DEFINE m == EmptyMachine(registers)
             pointer == CHOOSE t \in EntryTerms : IsStackPointer(t)
             w == Write(m, locations[pointer], FrameBase, pointer)
  <2>2. "writer" \in DOMAIN m /\ FileCells \subseteq DOMAIN m.writer
    BY FileIsThere
  <2>3. "writer" \in DOMAIN w
    BY <2>2, WritersAfter
  <2>4. machine' = [w EXCEPT !.writer = [cell \in DOMAIN m.writer |-> EntryWriter(cell)]]
    BY <2>1 DEF WithFrame
  <2> HIDE DEF m, w
  <2>5. "writer" \in DOMAIN machine' /\ machine'.writer = [cell \in DOMAIN m.writer |-> EntryWriter(cell)]
    BY <2>3, <2>4
  <2> QED BY <2>2, <2>5
<1>8. WritersAreWrites'
  <2>1. \A c \in FileCells : machine'.writer[c] # 0 =>
          /\ machine'.writer[c] \in Terms /\ IsRegister(machine'.writer[c])
          /\ IsWrite(machine'.writer[c]) /\ IsSimulated(machine'.writer[c])
    BY <1>1, <1>7, EntryWriters
  <2> QED BY <1>2, <1>7, <2>1, SameWriters DEF Running
<1>9. ASSUME NEW d \in Terms, IsRegister(d), \A c \in Cells(Loc(d)) : machine'.writer[c] = d
      PROVE  Arises(d, Entry, s)
  <2>1. Loc(d) \in Registers /\ Cells(Loc(d)) \subseteq FileCells /\ d # 0
    <3>1. Loc(d) \in Registers
      BY <1>3, <1>9, RegisterTerms
    <3>2. d # 0
      BY <1>3, FunctionParts
    <3> QED BY <3>1, <3>2, CellsOfRegisters
  <2>2. \A c \in Cells(Loc(d)) : EntryWriter(c) = d
    BY <1>7, <1>9, <2>1
  <2>3. PICK c \in Cells(Loc(d)) : TRUE
    BY <2>1, RegisterCells
  <2>4. IsWrite(d) /\ IsSimulated(d) /\ IsEntryTerm(d)
    BY <1>1, <2>1, <2>2, <2>3, EntryWriters
  <2>5. d \in First(Entry) .. s - 1
    <3>1. d \in First(Entry) .. LastOf(Entry)
      BY <1>3, <2>4, ConventionFirst, FunctionParts
    <3>2. ~(d > s) /\ d # s
      BY <1>6, <2>4
    <3> QED BY <1>3, <1>6, <3>1, <3>2, BlocksAreLong
  <2>6. ASSUME NEW u \in d + 1 .. s - 1, Touches(u, Loc(d)) PROVE FALSE
    <3>1. u \in First(Entry) .. LastOf(Entry) /\ u \in Nat /\ d \in Nat /\ u > d /\ u < s
      BY <1>3, <1>6, <2>5, BlocksAreLong
    <3>2. u \in Terms
      BY <1>3, <3>1, FunctionParts
    <3>3. ~IsRead(u) /\ IsRegister(u) /\ IsSimulated(u) /\ Overlap(Loc(u), Loc(d))
      BY <2>6 DEF Touches
    <3>4. CASE ~IsEntryTerm(u)
      <4>1. IsWrite(u) \/ IsKill(u)
        BY <1>3, <3>2, <3>3, WhereTermsAre
      <4>2. u \in StatementsOf(Entry)
        BY <3>1, <3>4, <4>1 DEF StatementsOf, EndsStatement, First, LastOf
      <4> QED BY <1>4, <1>5, <1>6, <3>1, <4>2
    <3>5. CASE IsEntryTerm(u)
      <4>1. Loc(u) \in Registers
        BY <1>3, <3>2, <3>3, RegisterTerms
      <4>2. PICK e \in Cells(Loc(u)) : e \in Cells(Loc(d))
        BY <2>1, <3>3, <4>1, RegisterCells
      <4>3. u <= EntryWriter(e) /\ EntryWriter(e) = d
        BY <1>1, <2>1, <2>2, <3>2, <3>3, <3>5, <4>2, EntryWriters
      <4> QED BY <3>1, <4>3
    <3> QED BY <3>4, <3>5
  <2> QED BY <1>9, <2>4, <2>5, <2>6 DEF Arises, Spared
<1>10. /\ Terms' = Terms /\ Blocks' = Blocks
       /\ \A b : Loc(b)' = Loc(b) /\ (IsRegister(b)' <=> IsRegister(b))
       /\ \A b : BlockOf(b)' = BlockOf(b) /\ StatementsOf(b)' = StatementsOf(b)
  BY <1>2, SameFunction
<1>11. WholeWritesReach'
  <2>1. ASSUME NEW d \in Terms, IsRegister(d), \A c \in Cells(Loc(d)) : machine'.writer[c] = d
        PROVE  Reaches(d, Entry, s)'
    <3>1. Arises(d, Entry, s)
      BY <1>9, <2>1
    <3> QED BY <1>2, <3>1, SameReaches DEF Reaches
  <2>2. BlockOf(pc)' = Entry /\ pc' = s
    <3>1. BlockOf(s)' = Entry
      BY <1>6, <1>10
    <3> QED BY <1>5, <3>1
  <2>3. ASSUME NEW d \in Terms', IsRegister(d)', \A c \in Cells(Loc(d)') : machine'.writer[c] = d
        PROVE  Reaches(d, BlockOf(pc), pc)'
    <3>1. Reaches(d, Entry, s)'
      BY <1>10, <2>1, <2>3
    <3>2. PICK b : b = Entry
      OBVIOUS
    <3>3. Reaches(d, b, s)' /\ BlockOf(pc)' = b
      BY <2>2, <3>1, <3>2
    <3> QED BY <2>2, <3>3
  <2> QED BY <2>3 DEF WholeWritesReach
<1>12. pc' \in Terms' /\ pc' \in StatementsOf(BlockOf(pc))'
  BY <1>4, <1>5, <1>6, <1>10
<1> QED BY <1>1, <1>2, <1>8, <1>11, <1>12 DEF Running

\* A statement changes who wrote the register it writes or kills, and nothing else in the file.
LEMMA StatementWrites ==
  ASSUME code \in Codes, WritersAreWrites, NEW b \in Blocks, NEW s \in StatementsOf(b)
  PROVE  LET after == MachineAfter(s)
         IN  /\ "writer" \in DOMAIN after /\ FileCells \subseteq DOMAIN after.writer
             /\ \A c \in FileCells :
                  after.writer[c] = IF ~IsRead(s) /\ IsRegister(s) /\ c \in Cells(Loc(s))
                                      THEN (IF IsWrite(s) THEN s ELSE 0) ELSE machine.writer[c]
<1> DEFINE l == ActualLocation(s)
           v == Actual[Assignee(s)]
<1>1. s \in Terms /\ (IsWrite(s) \/ IsKill(s) \/ IsCondition(s))
  BY StatementTerms
<1>2. /\ IsRead(s) => ~IsWrite(s) /\ ~IsKill(s)
      /\ ~IsRead(s) => IsWrite(s) \/ IsKill(s)
  BY <1>1, WhereTermsAre
<1>3. IsCondition(s) => IsRead(s)
  <2>1. IsFunction(code)
    BY CodesAssumption
  <2> QED BY <1>1, <2>1 DEF IsFunction, IsCondition, IsRead, Terms
<1>4. IsRegister(s) => l = Loc(s)
  BY DEF ActualLocation, IsRegister, Loc
<1>5. ~IsRegister(s) => Cells(l) \cap FileCells = {}
  <2>1. ~IsRegister(s) => l.domain # "REGISTER"
    BY DEF ActualLocation, IsRegister, Pointed, AtAddress
  <2> QED BY <2>1, CellsOfOthers
<1> HIDE DEF l, v
<1>6. "writer" \in DOMAIN machine /\ FileCells \subseteq DOMAIN machine.writer
  BY DEF WritersAreWrites
<1>7. CASE IsWrite(s)
  <2>1. MachineAfter(s) = Write(machine, l, v, s)
    BY <1>2, <1>3, <1>7 DEF MachineAfter, IsWrite, IsKill, IsCondition, IsRead, l, v
  <2>2. /\ "writer" \in DOMAIN MachineAfter(s)
        /\ MachineAfter(s).writer = WrittenBy(machine, Cells(l), s)
    BY <1>6, <2>1, WritersAfter
  <2> QED BY <1>2, <1>4, <1>5, <1>6, <1>7, <2>2 DEF WrittenBy
<1>8. CASE ~IsWrite(s) /\ IsKill(s)
  <2>1. MachineAfter(s) = [machine EXCEPT !.writer = WrittenBy(machine, Cells(l), 0)]
    BY <1>2, <1>3, <1>8 DEF MachineAfter, IsWrite, IsKill, IsCondition, IsRead, l
  <2>2. /\ "writer" \in DOMAIN MachineAfter(s)
        /\ MachineAfter(s).writer = WrittenBy(machine, Cells(l), 0)
    BY <1>6, <2>1
  <2> QED BY <1>2, <1>4, <1>5, <1>6, <1>8, <2>2 DEF WrittenBy
<1>9. CASE ~IsWrite(s) /\ ~IsKill(s)
  <2>1. MachineAfter(s) = machine
    BY <1>1, <1>9 DEF MachineAfter, IsWrite, IsKill, IsCondition
  <2> QED BY <1>2, <1>6, <1>9, <2>1
<1> QED BY <1>7, <1>8, <1>9

\* What a statement leaves of whole writes: those before it it did not touch, and its own.
LEMMA WholeWritesAfter ==
  ASSUME code \in Codes, NEW b \in Blocks, NEW s \in StatementsOf(b), WritersAreWrites,
         WholeWritesReach, pc = s, ~changed, ~EntryIsReentered,
         NEW k \in Int, s < k, k <= LastOf(b) + 1, \A u \in s + 1 .. k - 1 : u \notin StatementsOf(b),
         NEW d \in Terms, IsRegister(d), \A c \in Cells(Loc(d)) : MachineAfter(s).writer[c] = d
  PROVE  Reaches(d, b, k)
<1>1. /\ s \in First(b) .. LastOf(b) /\ s \in Terms /\ s \in Nat \ {0} /\ BlockOf(s) = b
      /\ IsSimulated(s) /\ \A u \in Terms : u > s => ~IsEntryTerm(u)
  BY StatementTerms
<1>2. First(b) \in Nat \ {0} /\ LastOf(b) \in Nat /\ First(b) <= LastOf(b)
  BY BlocksAreLong
<1>3. \A u \in s + 1 .. k - 1 : u \in Terms /\ u > s
  <2>1. \A u \in s + 1 .. k - 1 : u \in First(b) .. LastOf(b) /\ u > s
    BY <1>1, <1>2
  <2> QED BY <2>1, FunctionParts
<1>4. /\ \A u \in s + 1 .. k - 1 : u \in Terms /\ IsRead(u)
      /\ \A l : Spared(l, s + 1, k)
  <2>1. \A u \in s + 1 .. k - 1 : u \notin StatementsOf(b) /\ ~IsEntryTerm(u)
    BY <1>1, <1>3
  <2>2. s + 1 \in Int /\ First(b) <= s + 1
    BY <1>1, <1>2
  <2> QED BY <2>1, <2>2, BetweenStatements
<1>5. Loc(d) \in Registers
  BY RegisterTerms
<1>6. d \in Nat \ {0} /\ Cells(Loc(d)) \subseteq FileCells
  <2>1. PICK n \in Nat : Terms = 1 .. n
    BY FunctionParts
  <2>2. d \in Nat \ {0}
    BY <2>1
  <2> QED BY <1>5, <2>2, CellsOfRegisters
<1>7. PICK e \in Cells(Loc(d)) : TRUE
  BY <1>5, RegisterCells
<1>8. \A c \in Cells(Loc(d)) :
        d = IF ~IsRead(s) /\ IsRegister(s) /\ c \in Cells(Loc(s))
              THEN (IF IsWrite(s) THEN s ELSE 0) ELSE machine.writer[c]
  BY <1>6, StatementWrites
<1>9. CASE d = s /\ IsWrite(s)
  <2>1. Spared(Loc(d), d + 1, k)
    BY <1>4, <1>9
  <2>2. d \in First(b) .. k - 1
    BY <1>1, <1>2, <1>9
  <2> QED BY <1>1, <1>9, <2>1, <2>2 DEF Reaches, Arises
<1>10. CASE ~(d = s /\ IsWrite(s))
  <2>1. \A c \in Cells(Loc(d)) :
          ~(~IsRead(s) /\ IsRegister(s) /\ c \in Cells(Loc(s))) /\ machine.writer[c] = d
    BY <1>6, <1>8, <1>10
  <2>2. Reaches(d, b, s)
    BY <1>1, <2>1 DEF WholeWritesReach
  <2>3. ~Touches(s, Loc(d))
    <3> SUFFICES ASSUME ~IsRead(s), IsRegister(s), Overlap(Loc(s), Loc(d)) PROVE FALSE
      BY DEF Touches
    <3>1. Loc(s) \in Registers
      BY <1>1, RegisterTerms
    <3>2. PICK c \in Cells(Loc(s)) : c \in Cells(Loc(d))
      BY <1>5, <3>1, RegisterCells
    <3> QED BY <2>1, <3>2
  <2>4. ASSUME NEW i \in Int, Spared(Loc(d), i, s) PROVE Spared(Loc(d), i, k)
    <3>1. \A u \in i .. k - 1 : u \in i .. s - 1 \/ u = s \/ u \in s + 1 .. k - 1
      BY <1>1
    <3> QED BY <1>4, <2>3, <2>4, <3>1 DEF Spared
  <2>5. CASE Arises(d, b, s)
    <3>1. d \in First(b) .. k - 1 /\ d + 1 \in Int
      BY <1>1, <1>2, <1>6, <2>5 DEF Arises
    <3> QED BY <2>4, <2>5, <3>1 DEF Reaches, Arises
  <2>6. CASE Passes(d, b, s)
    BY <1>2, <2>4, <2>6 DEF Reaches, Passes
  <2> QED BY <2>2, <2>5, <2>6 DEF Reaches
<1> QED BY <1>9, <1>10

\* A statement that runs leaves what reaches the next one.
LEMMA RunningRun ==
  ASSUME Flow, Running, Run PROVE Running'
<1>1. /\ pc > 0 /\ machine' = MachineAfter(pc) /\ UNCHANGED varvars
      /\ IF Following(pc) # {}
           THEN pc' = Min(Following(pc))
           ELSE \/ \E b \in Blocks : <<BlockOf(pc), b>> \in code.edges /\ pc' = Min(StatementsOf(b))
                \/ pc' = -1
  BY DEF Run
<1>2. UNCHANGED <<code, arguments, output, changed, phase>>
  BY <1>1 DEF varvars, usedvars, dvars, results, control
<1>3. code \in Codes /\ phase = "analyzed" /\ WritersAreWrites
  BY <1>1 DEF Flow, Shape, Running
<1>4. PICK s \in Terms : s = pc
  BY <1>1 DEF Running
<1>5. PICK b \in Blocks : b = BlockOf(s) /\ s \in StatementsOf(b)
  <2>1. BlockOf(s) \in Blocks
    BY <1>3, FunctionParts
  <2>2. pc \in StatementsOf(BlockOf(pc))
    BY <1>1 DEF Running
  <2> QED BY <1>4, <2>1, <2>2
<1>6. WholeWritesReach
  BY <1>4 DEF Running
<1>7. /\ s \in First(b) .. LastOf(b) /\ s \in Nat \ {0} /\ First(b) \in Nat /\ LastOf(b) \in Nat
      /\ \A u \in Terms : u > s => ~IsEntryTerm(u)
      /\ IsSimulated(s)
  BY <1>3, <1>5, StatementTerms, BlocksAreLong
<1>8. /\ "writer" \in DOMAIN machine' /\ FileCells \subseteq DOMAIN machine'.writer
      /\ \A c \in FileCells :
           machine'.writer[c] = IF ~IsRead(s) /\ IsRegister(s) /\ c \in Cells(Loc(s))
                                  THEN (IF IsWrite(s) THEN s ELSE 0) ELSE machine.writer[c]
  BY <1>1, <1>3, <1>4, <1>5, StatementWrites
<1>9. WritersAreWrites'
  <2>1. \A c \in FileCells :
           \/ machine'.writer[c] = machine.writer[c]
           \/ machine'.writer[c] = 0
           \/ machine'.writer[c] = s /\ IsRegister(s) /\ IsWrite(s)
    BY <1>8
  <2>2. \A c \in FileCells :
           \/ machine'.writer[c] = machine.writer[c]
           \/ machine'.writer[c] = 0
           \/ /\ machine'.writer[c] \in Terms /\ IsRegister(machine'.writer[c])
              /\ IsWrite(machine'.writer[c]) /\ IsSimulated(machine'.writer[c])
    BY <1>7, <2>1
  <2> QED BY <1>2, <1>3, <1>8, <2>2, SameWriters
<1>10. /\ Terms' = Terms /\ Blocks' = Blocks /\ (EntryIsReentered' <=> EntryIsReentered)
       /\ \A t : Loc(t)' = Loc(t) /\ (IsRegister(t)' <=> IsRegister(t))
       /\ \A t : BlockOf(t)' = BlockOf(t) /\ StatementsOf(t)' = StatementsOf(t)
       /\ \A d, i, k : Reaches(d, i, k)' <=> Reaches(d, i, k)
  BY <1>2, SameFunction, SameReaches
<1>11. ASSUME NEW k \in Int, s < k, k <= LastOf(b) + 1, \A u \in s + 1 .. k - 1 : u \notin StatementsOf(b),
              NEW d \in Terms, IsRegister(d), \A c \in Cells(Loc(d)) : machine'.writer[c] = d,
              ~changed, ~EntryIsReentered
       PROVE  Reaches(d, b, k)
  BY <1>1, <1>3, <1>4, <1>5, <1>6, <1>11, WholeWritesAfter
\* It is enough that whole writes reach the next statement.
<1>12. ASSUME NEW g \in Blocks, NEW k \in StatementsOf(g), pc' = k,
              ASSUME NEW d \in Terms, IsRegister(d), \A c \in Cells(Loc(d)) : machine'.writer[c] = d,
                     ~changed, ~EntryIsReentered
              PROVE  Reaches(d, g, k)
       PROVE  Running'
  <2>1. k \in Terms /\ BlockOf(k) = g
    BY <1>3, <1>12, StatementTerms
  <2>2. BlockOf(pc)' = g /\ pc' \in Terms' /\ pc' \in StatementsOf(BlockOf(pc))'
    <3>1. BlockOf(k)' = g
      BY <1>10, <2>1
    <3> QED BY <1>10, <1>12, <2>1, <3>1
  <2>3. ASSUME NEW d \in Terms', IsRegister(d)', \A c \in Cells(Loc(d)') : machine'.writer[c] = d,
               ~changed', ~EntryIsReentered'
        PROVE  Reaches(d, BlockOf(pc), pc)'
    <3>1. Reaches(d, g, k)
      BY <1>2, <1>10, <1>12, <2>3
    <3>2. Reaches(d, g, k)'
      BY <1>10, <3>1
    <3> QED BY <1>12, <2>2, <3>2
  <2>4. WholeWritesReach'
    BY <2>3 DEF WholeWritesReach
  <2> QED BY <1>2, <1>3, <1>9, <2>2, <2>4 DEF Running
<1>13. CASE Following(pc) # {}
  <2>1. Following(pc) = {u \in StatementsOf(b) : u > s}
    BY <1>4, <1>5 DEF Following
  <2>2. Following(pc) \in SUBSET Nat
    BY <1>3, <1>5, <2>1, StatementTerms
  <2>3. pc' \in Following(pc) /\ \A u \in Following(pc) : pc' <= u
    BY <1>1, <1>13, <2>2, MinIsLeast
  <2>4. PICK k \in StatementsOf(b) : k = pc' /\ k > s
    BY <2>1, <2>3
  <2>5. k \in Nat /\ k <= LastOf(b) + 1
    BY <1>3, <1>5, <1>7, <2>4, StatementTerms
  <2>6. \A u \in s + 1 .. k - 1 : u \notin StatementsOf(b)
    <3> SUFFICES ASSUME NEW u \in s + 1 .. k - 1, u \in StatementsOf(b) PROVE FALSE
      OBVIOUS
    <3>1. u > s /\ u < k /\ u \in Int
      BY <1>7, <2>5
    <3> QED BY <2>1, <2>3, <2>4, <2>5, <3>1
  <2>7. ASSUME NEW d \in Terms, IsRegister(d), \A c \in Cells(Loc(d)) : machine'.writer[c] = d,
               ~changed, ~EntryIsReentered
        PROVE  Reaches(d, b, k)
    <3>1. k \in Int /\ s < k
      BY <1>7, <2>4, <2>5
    <3> QED BY <1>11, <2>5, <2>6, <2>7, <3>1
  <2> QED BY <1>12, <2>4, <2>7
<1>14. ASSUME Following(pc) = {}, NEW g \in Blocks, <<b, g>> \in code.edges, pc' = Min(StatementsOf(g))
       PROVE  Running'
  <2>1. StatementsOf(g) \in SUBSET Nat /\ StatementsOf(g) # {}
    BY <1>3, FunctionParts, StatementTerms
  <2>2. pc' \in StatementsOf(g) /\ \A u \in StatementsOf(g) : pc' <= u
    BY <1>14, <2>1, MinIsLeast
  <2>3. PICK k \in StatementsOf(g) : k = pc'
    BY <2>2
  <2>4. k \in First(g) .. LastOf(g) /\ k \in Nat /\ First(g) \in Nat /\ LastOf(g) \in Nat
    BY <1>3, StatementTerms, BlocksAreLong
  <2>5. ASSUME NEW d \in Terms, IsRegister(d), \A c \in Cells(Loc(d)) : machine'.writer[c] = d,
               ~changed, ~EntryIsReentered
        PROVE  Reaches(d, g, k)
    <3>1. \A u \in s + 1 .. (LastOf(b) + 1) - 1 : u \notin StatementsOf(b)
      <4>1. \A u \in s + 1 .. (LastOf(b) + 1) - 1 : u > s
        BY <1>7
      <4> QED BY <1>4, <1>5, <1>14, <4>1 DEF Following
    <3>2. Reaches(d, b, LastOf(b) + 1)
      <4>1. LastOf(b) + 1 \in Int /\ s < LastOf(b) + 1 /\ LastOf(b) + 1 <= LastOf(b) + 1
        BY <1>7
      <4> QED BY <1>11, <2>5, <3>1, <4>1
    <3>3. d \in GetDefinitions(output[b], Loc(d))
      <4>1. b \in Processed
        BY <1>3 DEF Processed, Rounds
      <4> QED BY <3>2, <4>1 DEF Flow, Progress, Reached
    <3>4. b \in PredecessorsOf(g)
      BY <1>14 DEF PredecessorsOf
    <3>5. g # Entry
      BY <1>14, <2>5 DEF EntryIsReentered
    <3>6. \A u \in First(g) .. k - 1 : u \notin StatementsOf(g) /\ ~IsEntryTerm(u)
      <4> TAKE u \in First(g) .. k - 1
      <4>1. u \in Nat /\ u < k /\ u \in First(g) .. LastOf(g)
        BY <2>4
      <4>2. u \in Terms /\ BlockOf(u) = g
        BY <1>3, <4>1, FunctionParts
      <4>3. ~IsEntryTerm(u)
        BY <1>3, <3>5, <4>2, ConventionFirst
      <4>4. u \notin StatementsOf(g)
        BY <2>2, <2>3, <2>4, <4>1
      <4> QED BY <4>3, <4>4
    <3>7. Spared(Loc(d), First(g), k)
      <4>1. First(g) \in Int /\ First(g) <= First(g) /\ k \in Int /\ k <= LastOf(g) + 1
        BY <2>4
      <4> QED BY <1>3, <3>6, <4>1, BetweenStatements
    <3> QED BY <2>5, <3>3, <3>4, <3>7 DEF Reaches, Passes
  <2> QED BY <1>12, <2>3, <2>5
<1>15. ASSUME pc' = -1 PROVE Running'
  <2>1. pc' \notin Terms'
    <3>1. PICK n \in Nat : Terms = 1 .. n
      BY <1>3, FunctionParts
    <3> QED BY <1>10, <1>15, <3>1
  <2> QED BY <1>2, <1>3, <1>9, <1>15, <2>1 DEF Running
<1> QED BY <1>1, <1>4, <1>5, <1>13, <1>14, <1>15

\* No step breaks the invariant of the machine.
LEMMA RunningNext == Flow /\ Running /\ [Next]_vars => Running'
<1> SUFFICES ASSUME Flow, Running, [Next]_vars PROVE Running'
  OBVIOUS
<1>1. ASSUME UNCHANGED runvars, code' = code, arguments \subseteq arguments', pc # 0 => UNCHANGED varvars
      PROVE  Running'
  <2>1. machine' = machine /\ pc' = pc
    BY <1>1 DEF runvars
  <2>2. WritersAreWrites'
    <3>1. /\ "writer" \in DOMAIN machine /\ FileCells \subseteq DOMAIN machine.writer
          /\ WritersAreWrites
      BY DEF Running, WritersAreWrites
    <3>2. \A c \in FileCells : machine'.writer[c] = machine.writer[c]
      BY <2>1
    <3> QED BY <1>1, <2>1, <3>1, <3>2, SameWriters
  <2>3. CASE pc = 0
    <3>1. code \in Codes
      BY DEF Flow, Shape
    <3>2. PICK n \in Nat : Terms = 1 .. n
      BY <3>1, FunctionParts
    <3>3. Terms' = Terms
      BY <1>1, SameFunction
    <3>4. pc' \notin Terms'
      BY <2>1, <2>3, <3>2, <3>3
    <3> QED BY <2>1, <2>2, <2>3, <3>4 DEF Running
  <2>4. CASE pc # 0
    <3>1. UNCHANGED <<code, arguments, output, changed, phase>>
      BY <1>1, <2>4 DEF varvars, usedvars, dvars, results, control
    <3>2. /\ Terms' = Terms /\ (EntryIsReentered' <=> EntryIsReentered)
          /\ \A t : Loc(t)' = Loc(t) /\ (IsRegister(t)' <=> IsRegister(t))
          /\ \A t : BlockOf(t)' = BlockOf(t) /\ StatementsOf(t)' = StatementsOf(t)
          /\ \A d, i, k : Reaches(d, i, k)' <=> Reaches(d, i, k)
      BY <3>1, SameFunction, SameReaches
    <3>3. PICK b, s : b = BlockOf(pc) /\ s = pc
      OBVIOUS
    <3>4. BlockOf(pc)' = b /\ pc' = s
      <4>1. BlockOf(s)' = b
        BY <3>2, <3>3
      <4> QED BY <2>1, <3>3, <4>1
    <3>5. ASSUME WholeWritesReach PROVE WholeWritesReach'
      <4>1. ASSUME NEW d \in Terms', IsRegister(d)', \A c \in Cells(Loc(d)') : machine'.writer[c] = d,
                   ~changed', ~EntryIsReentered'
            PROVE  Reaches(d, BlockOf(pc), pc)'
        <5>1. Reaches(d, b, s)
          BY <2>1, <3>1, <3>2, <3>3, <3>5, <4>1 DEF WholeWritesReach
        <5>2. Reaches(d, b, s)'
          BY <3>2, <5>1
        <5> QED BY <3>4, <5>2
      <4> QED BY <4>1 DEF WholeWritesReach
    <3>6. StatementsOf(BlockOf(pc))' = StatementsOf(BlockOf(pc))
      BY <3>2, <3>3, <3>4
    <3> QED BY <2>1, <2>2, <2>4, <3>1, <3>2, <3>5, <3>6 DEF Running
  <2> QED BY <2>3, <2>4
<1>2. CASE Analyze /\ UNCHANGED <<used, variables, runvars>>
  <2>1. code' = code /\ arguments \subseteq arguments' /\ phase # "analyzed"
    BY <1>2 DEF Analyze, EnterBlock, Simulate, LeaveBlock, EndRound
  <2> QED BY <1>1, <1>2, <2>1 DEF Running
<1>3. CASE ComputeUsage /\ UNCHANGED <<variables, runvars>>
  <2>1. code' = code /\ arguments \subseteq arguments' /\ phase # "analyzed"
    BY <1>3 DEF ComputeUsage
  <2> QED BY <1>1, <1>3, <2>1 DEF Running
<1>4. CASE AnalyzeVariables /\ UNCHANGED runvars
  <2>1. code' = code /\ arguments \subseteq arguments' /\ phase # "analyzed"
    BY <1>4 DEF AnalyzeVariables
  <2> QED BY <1>1, <1>4, <2>1 DEF Running
<1>5. CASE Start
  BY <1>5, RunningStart
<1>6. CASE Run
  BY <1>6, RunningRun
<1>7. CASE Finished \/ UNCHANGED vars
  <2>1. UNCHANGED varvars /\ UNCHANGED runvars
    BY <1>7 DEF Finished, vars
  <2>2. code' = code /\ arguments' = arguments
    BY <2>1 DEF varvars, usedvars, dvars
  <2> QED BY <1>1, <2>1, <2>2
<1> QED BY <1>2, <1>3, <1>4, <1>5, <1>6, <1>7 DEF Next

\* The analysis and the machine together: the writers of the register file are writes of the
\* registers their cells are in, and if the rounds ended because nothing was new, whoever wrote
\* a register whole last is among what reaches the statement to run.
THEOREM RunningInvariance == Spec => [](Flow /\ Running)
<1>1. Init => Flow /\ Running
  BY FlowInit, RunningInit
<1>2. Flow /\ Running /\ [Next]_vars => (Flow /\ Running)'
  BY FlowNext, RunningNext
<1> QED BY <1>1, <1>2, PTL DEF Spec

-----------------------------------------------------------------------------
(* Reads. *)

\* A read comes after the statements before its own.
LEMMA ReadsOfStatements ==
  ASSUME code \in Codes, NEW b \in Blocks, NEW s \in StatementsOf(b), NEW r \in ReadsOf(s)
  PROVE  /\ r \in Terms /\ r \in First(b) .. s /\ IsRead(r) /\ r \in Nat /\ IsSimulated(r)
         /\ \A u \in r .. s - 1 : ~IsWrite(u)
<1>1. BlockOf(s) = b /\ s \in First(b) .. LastOf(b) /\ s \in Nat
  BY StatementTerms
<1>2. /\ r \in First(b) .. s /\ IsRead(r)
      /\ \A u \in r .. s - 1 : ~EndsStatement(u)
  BY <1>1 DEF ReadsOf, TermsOfStatement, First
<1>3. First(b) \in Nat /\ LastOf(b) \in Nat
  BY BlocksAreLong
<1>4. r \in Nat /\ r \in First(b) .. LastOf(b)
  BY <1>1, <1>2, <1>3
<1>5. r \in Terms
  BY <1>4, FunctionParts
<1> QED BY <1>2, <1>4, <1>5, WhereTermsAre DEF EndsStatement

\* The two invariants together give the property.
LEMMA ReachIsRight == Flow /\ Running => DefinitionsReach
<1> SUFFICES ASSUME Flow, Running PROVE DefinitionsReach
  OBVIOUS
<1>1. code \in Codes
  BY DEF Flow, Shape
<1>2. ASSUME NEW r \in Terms, IsRead(r), IsRegister(r), NEW d \in definitions[r]
      PROVE  IsWrite(d) /\ IsRegister(d) /\ locations[d] = locations[r]
  BY <1>2 DEF Flow, RegistersKept, Kept
<1>3. ASSUME pc > 0, ~changed, ~EntryIsReentered, NEW r \in ReadsOf(pc), IsRegister(r), IsClean(r)
      PROVE  HasItsDefinitions(r)
  <2>1. phase = "analyzed" /\ pc \in Terms /\ pc \in StatementsOf(BlockOf(pc))
    BY <1>3 DEF Running
  <2>2. PICK s \in Terms : s = pc
    BY <2>1
  <2>3. PICK b \in Blocks : b = BlockOf(s) /\ s \in StatementsOf(b)
    BY <1>1, <2>1, <2>2, FunctionParts
  <2>4. r \in Terms /\ r \in First(b) .. s /\ IsRead(r) /\ r \in Nat /\ \A u \in r .. s - 1 : ~IsWrite(u)
    BY <1>1, <1>3, <2>2, <2>3, ReadsOfStatements
  <2>5. /\ Loc(r) \in Registers /\ Loc(r).domain = "REGISTER" /\ Cells(Loc(r)) \subseteq FileCells
        /\ s \in First(b) .. LastOf(b) /\ s \in Nat /\ First(b) \in Nat /\ LastOf(b) \in Nat
    <3>1. Loc(r) \in Registers
      BY <1>1, <1>3, <2>4, RegisterTerms
    <3>2. s \in First(b) .. LastOf(b) /\ s \in Nat /\ First(b) \in Nat /\ LastOf(b) \in Nat
      BY <1>1, <2>3, StatementTerms, BlocksAreLong
    <3> QED BY <3>1, <3>2, CellsOfRegisters DEF Registers
  \* All terms have been simulated.
  <2>6. \A i \in Blocks : Settled(i, LastOf(i) + 1)
    BY <2>1 DEF Flow, Progress, Processed, Rounds
  <2>7. ASSUME NEW t \in Terms, IsRegister(t), IsSimulated(t) PROVE locations[t] = Loc(t)
    <3>1. BlockOf(t) \in Blocks /\ t \in First(BlockOf(t)) .. LastOf(BlockOf(t))
      BY <1>1, FunctionParts
    <3>2. t \in First(BlockOf(t)) .. (LastOf(BlockOf(t)) + 1) - 1
      BY <1>1, <3>1, BlocksAreLong
    <3> QED BY <2>6, <2>7, <3>1, <3>2 DEF Settled
  <2>8. ActualLocation(r) = Loc(r) /\ locations[r] = Loc(r) /\ IsLocal(r)
    <3>1. ActualLocation(r) = Loc(r)
      BY <1>3 DEF ActualLocation, IsRegister, Loc
    <3>2. locations[r] = Loc(r)
      BY <1>1, <1>3, <2>4, <2>7, WhereTermsAre
    <3> QED BY <2>5, <3>1, <3>2 DEF IsLocal, IsGlobalMemory, Nowhere
  \* It finds what one term wrote.
  <2>9. PICK d \in Terms : /\ Writers(machine, Loc(r)) = {d}
                           /\ Cells(Loc(r)) = Cells(locations[d])
    BY <1>3, <2>8 DEF IsClean
  <2>10. \A c \in Cells(Loc(r)) : machine.writer[c] = d
    BY <2>9 DEF Writers
  <2>11. PICK c \in Cells(Loc(r)) : TRUE
    BY <2>5, RegisterCells
  <2>12. d # 0
    <3>1. PICK n \in Nat : Terms = 1 .. n
      BY <1>1, FunctionParts
    <3> QED BY <3>1
  <2>13. IsRegister(d) /\ IsWrite(d) /\ IsSimulated(d)
    BY <2>5, <2>10, <2>11, <2>12 DEF Running, WritersAreWrites
  <2>14. Loc(d) = Loc(r)
    <3>1. locations[d] = Loc(d) /\ Loc(d) \in Registers
      BY <1>1, <2>7, <2>13, RegisterTerms
    <3> QED BY <2>5, <2>9, <3>1, RegisterCells
  <2>15. Reaches(d, b, s)
    BY <1>3, <2>1, <2>2, <2>3, <2>10, <2>13, <2>14 DEF Running, WholeWritesReach
  <2>16. Reaches(d, b, r)
    <3>1. ASSUME NEW i \in Int, Spared(Loc(d), i, s) PROVE Spared(Loc(d), i, r)
      <4>1. i .. r - 1 \subseteq i .. s - 1
        BY <2>4, <2>5
      <4> QED BY <3>1, <4>1 DEF Spared
    <3>2. CASE Arises(d, b, s)
      <4>1. d \in First(b) .. r - 1 /\ d + 1 \in Int
        <5>1. d \in First(b) .. s - 1 /\ d \notin r .. s - 1
          BY <2>4, <2>13, <3>2 DEF Arises
        <5> QED BY <2>4, <2>5, <5>1
      <4> QED BY <3>1, <3>2, <4>1 DEF Reaches, Arises
    <3>3. CASE Passes(d, b, s)
      BY <1>3, <2>5, <3>1, <3>3 DEF Reaches, Passes
    <3> QED BY <2>15, <3>2, <3>3 DEF Reaches
  <2>17. d \in definitions[r]
    <3>1. r \in First(b) .. (LastOf(b) + 1) - 1
      BY <2>4, <2>5
    <3>2. IsSimulated(r)
      BY <1>1, <2>4, WhereTermsAre
    <3> QED BY <1>3, <2>4, <2>6, <2>14, <2>16, <3>1, <3>2 DEF Settled
  <2>18. r \in uses[d]
    BY <2>1, <2>4, <2>17 DEF Flow, Progress, Rounds, UsesOf
  <2> QED BY <2>8, <2>9, <2>17, <2>18 DEF HasItsDefinitions
<1> QED BY <1>2, <1>3 DEF DefinitionsReach

\* Definitions reach: the definitions of a register are writes of that register, and if the
\* rounds ended because nothing was new, whichever write a read of it finds when the function
\* runs, on any path, is among its definitions, and the read among the uses of that write
\* (ReachingDefinitions, DataflowAnalyzer::execute).
THEOREM DefinitionsOfRegistersReach == Spec => []DefinitionsReach
BY RunningInvariance, ReachIsRight, PTL
=============================================================================
