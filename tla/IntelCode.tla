------------------------------- MODULE IntelCode -------------------------------
(***************************************************************************)
(* A processor executes a trace of instructions, and a machine the         *)
(* statements generated for them, block by block.  Between instructions    *)
(* the two are compared.  A trace does not say where its instructions are: *)
(* the one behind is always at NextAddress, and after a jump the next of   *)
(* the trace is what is found there.                                       *)
(* What the generated code leaves open, intrinsic and undefined values, is *)
(* what the processor computed.                                            *)
(***************************************************************************)
EXTENDS IntelProcessor

CONSTANTS
  Traces,        \* sequences of instructions
  Machines,      \* machines to execute them on
  NextAddress    \* the address of the instruction behind

VARIABLES
  todo,      \* the instructions left
  instr,     \* the one being executed
  cpu,       \* the processor, which has executed it
  machine,   \* the machine, which runs its statements
  at,        \* the block it comes to
  goes,      \* where the statements went
  clean,     \* no instruction went astray
  stale      \* one left relations of an earlier comparison

vars == <<todo, instr, cpu, machine, at, goes, clean, stale>>

NoInstruction ==
  [mnemonic |-> "NOP", operands |-> <<>>, condition |-> "", size |-> 0, prefixes |-> {}]

\* Where the statements of an instruction lead: to the next one.
Boundary == "next"

Init ==
  /\ todo \in Traces /\ cpu \in Machines
  /\ instr = NoInstruction /\ machine = cpu
  /\ at = Boundary /\ goes = Read(cpu, ip)
  /\ clean = TRUE /\ stale = FALSE

-----------------------------------------------------------------------------
\* Instructions whose statements do something else than the processor does.

\* JG, SETG and CMOVG take one of two conditions for both.
MistakesGreater(i, c, m) ==
  /\ i.condition = "G" /\ ~IsAlive(m, RelationLocations["greater"])
  /\ (FlagOf(c, "zf") = 1) = (FlagOf(c, "sf") = FlagOf(c, "of"))

Conditional == {"JCC", "SETCC", "CMOVCC"}
UsesRelation(i, m) ==
  /\ i.mnemonic \in Conditional
  /\ Conditions[i.condition].kind = "choice"
  /\ IsAlive(m, Conditions[i.condition].args[1].location)

\* The sign of a comparison is not the sign of the difference.
MistakesSign(i, after) == i.mnemonic = "CMP" /\ FlagOf(after, "of") = 1

\* SBB compares its result to the new borrow instead of zero.  The borrow is
\* a number of one bit, and as a signed one it is 0 or -1.
MistakesBorrow(i, after) ==
  LET u == i.operands[1]
  IN  /\ i.mnemonic = "SBB" /\ FlagOf(after, "cf") = 1
      /\ Signed(Fetched(u, after, u.size), u.size) \in -1 .. 1

\* The count 0 leaves the flags alone, the count 1 determines the overflow.
MistakesShiftFlags(i, c, after) ==
  /\ i.mnemonic \in {"SHL", "SHR", "SAR"}
  /\ LET count == IF Len(i.operands) = 1 THEN 1 ELSE Fetched(i.operands[2], c, CHAR_BIT)
         zero == Fetched(i.operands[1], c, i.operands[1].size) = 0
     IN  \/ count = 0 /\ Truth(zero) # FlagOf(c, "zf")
         \/ count = 1 /\ FlagOf(after, "of") # FlagOf(c, "of")

\* The number of the bit that BT tests is not cut to the width.
MistakesBit(i, c, after) ==
  LET width == i.operands[1].size
  IN  i.mnemonic = "BT" /\ Fetched(i.operands[2], c, width) >= width /\ FlagOf(after, "cf") = 1

\* MUL of bytes extends their signs.
MistakesProduct(i, c) ==
  /\ i.mnemonic = "MUL" /\ i.operands[1].size = CHAR_BIT
  /\ \/ Bit(Read(c, al), CHAR_BIT - 1) = 1
     \/ Bit(Fetched(i.operands[1], c, CHAR_BIT), CHAR_BIT - 1) = 1

\* A quotient is right if DX only extends AX, and is not the divisor.
MistakesQuotient(i, c) ==
  /\ i.mnemonic \in Quotients
  /\ \/ i.operands[1].size # Word
     \/ i.operands[1].location = dx
     \/ Read(c, dx) # IF i.mnemonic = "IDIV" /\ Bit(Read(c, ax), Word - 1) = 1 THEN 2^Word - 1 ELSE 0

\* The operand is evaluated when the stack pointer has moved, or not yet.
MistakesStack(i, c, after) ==
  LET u == i.operands[1]
  IN  \/ i.mnemonic \in {"PUSH", "POP", "CALL"} /\ sp \in {u.location, u.base}
      \/ i.mnemonic = "PUSH" /\ u.size # Word
      \/ /\ i.mnemonic = "CALL" /\ u.type = "MEM"
         /\ Cells(Place(u, c)) \cap Cells(AtAddress(Read(after, sp), Word)) # {}

\* Of the string instructions only MOVS is right, or one that is repeated no times.
MistakesString(i, c) ==
  i.mnemonic \in Strings \ {"MOVS"} /\ ~(i.prefixes # {} /\ Read(c, cx) = 0)

AlwaysAstray == {"POPFW", "CMPXCHG", "INLINE"}

\* What the statements of i make of machine m is not what the processor makes of c.
GoesAstray(i, c, after, m) ==
  \/ i.mnemonic \in AlwaysAstray
  \/ MistakesGreater(i, c, m) \/ (stale /\ UsesRelation(i, m))
  \/ MistakesSign(i, after) \/ MistakesBorrow(i, after)
  \/ MistakesShiftFlags(i, c, after) \/ MistakesBit(i, c, after)
  \/ MistakesProduct(i, c) \/ MistakesQuotient(i, c)
  \/ MistakesStack(i, c, after) \/ MistakesString(i, c)

\* Instructions that change flags and say nothing about the relations.
KeepsRelations == {"SHL", "SHR", "SAR", "MUL", "IMUL"}

\* b and the borrow together are one too many for the relations of SBB.
BorrowWraps(i, c) ==
  LET width == i.operands[1].size
  IN  Fetched(i.operands[2], c, width) + FlagOf(c, "cf") \in {2^(width - 1), 2^width}

LeavesStale(i, c) ==
  CASE i.mnemonic = "SBB"          -> FlagOf(c, "cf") = 1 /\ BorrowWraps(i, c)
    [] i.mnemonic \in KeepsRelations -> TRUE
    [] i.mnemonic \notin {"SBB"} \cup KeepsRelations ->
         stale /\ i.mnemonic \notin Sums \cup Differences \cup Logics \cup {"BT"}

-----------------------------------------------------------------------------
\* Steps.

\* The register ip holds the address behind, for the statements too.
Fetch ==
  /\ at = Boundary /\ todo # <<>> /\ clean
  /\ LET i == Head(todo)
         c == Set(cpu, ip, NextAddress)
     IN  /\ Executes(i, c)
         /\ instr' = Disassembled(i) /\ todo' = Tail(todo)
         /\ cpu' = Execute(i, c)
         /\ machine' = Set(machine, ip, NextAddress)
         /\ clean' = ~GoesAstray(i, c, cpu', machine)
         /\ stale' = LeavesStale(i, c)
  /\ at' = "start" /\ goes' = NextAddress

IsOpen(e) == e.kind \in {"intrinsic", "undefined"}

Assigned(m, s) ==
  LET l == LocationOf(s.left, m)
  IN  Write(m, l, IF IsOpen(s.right) THEN Read(cpu, l) ELSE Evaluate(s.right, m), 1)

Killed(m, l) == Write(m, l, Read(m, l), 0)

\* The machine after a statement.
After(m, s) == CASE s.kind = "assign" -> Assigned(m, s)
                 [] s.kind = "kill"   -> Killed(m, s.left.location)
                 [] s.kind \in {"jump", "call", "return"} -> m

Leave(address) == at' = Boundary /\ goes' = address

\* Each takes the machine at the end of the block, where the last statement is s.
Jump(m, s) ==
  /\ s.kind = "jump"
  /\ LET taken == s.left.kind = "null" \/ Evaluate(s.left, m) # 0
     IN  IF taken /\ s.then = "" THEN Leave(Evaluate(s.right, m))
                                 ELSE at' = (IF taken THEN s.then ELSE s.else) /\ goes' = goes

MakeCall(m, s) == s.kind = "call" /\ Leave(Evaluate(s.right, m))
MakeReturn(m, s) == s.kind = "return" /\ Leave(Read(m, ip))

\* A block that ends without going anywhere leads to the instruction behind.
FallThrough(s) == s.kind \notin {"jump", "call", "return"} /\ Leave(goes)

RunBlock ==
  /\ at # Boundary
  /\ \E block \in {CreateStatements(instr)[at]} :
       LET s == IF block = <<>> THEN NoStatement ELSE Last(block)
       IN  /\ machine' = FoldLeft(After, machine, block)
           /\ Jump(machine', s) \/ MakeCall(machine', s) \/ MakeReturn(machine', s) \/ FallThrough(s)
  /\ UNCHANGED <<todo, instr, cpu, clean, stale>>

\* The trace ends, or nothing more can be said about it.
Finished ==
  /\ at = Boundary
  /\ todo # <<>> /\ clean => ~Executes(Head(todo), Set(cpu, ip, NextAddress))
  /\ UNCHANGED vars

Next == Fetch \/ RunBlock \/ Finished

Spec == Init /\ [][Next]_vars

-----------------------------------------------------------------------------
\* Properties.

Instructions == UNION {ToSet(t) : t \in Traces}

Bits(l) == {l.addr + k : k \in 0 .. l.size - 1}
GeneralRegisters == {ax, cx, dx, bx, sp, bp, si, di}
HardwareBits ==
  UNION {Bits(l) : l \in GeneralRegisters \cup {FlagLocations[f] : f \in DOMAIN FlagLocations}}

\* The state has the right form; every statement generated, also for blocks
\* that are not run, is one that can be made into a term of a known size.
IntelTypeOK ==
  /\ todo \in Seq(Instructions) /\ instr \in {Disassembled(i) : i \in Instructions \cup {NoInstruction}}
  /\ at \in {Boundary, "start", "then", "condition", "body"}
  /\ goes \in Addresses /\ clean \in BOOLEAN /\ stale \in BOOLEAN
  /\ \A m \in {cpu, machine} : /\ m.registers \in [0 .. RegisterBits - 1 -> 0 .. 1]
                               /\ m.memory \in [Addresses -> 0 .. 2^CHAR_BIT - 1]
  /\ at = "start" =>
       LET blocks == CreateStatements(instr)
       IN  \A b \in DOMAIN blocks : \A k \in DOMAIN blocks[b] : IsStatement(blocks[b][k])

\* When the statements of an instruction have been run, registers, flags and
\* memory are what the processor made of them, and control has gone where the
\* processor went - but for the instructions listed above.
OnlyKnownInstructionsGoAstray ==
  at = Boundary /\ clean =>
    /\ \A k \in HardwareBits : machine.registers[k] = cpu.registers[k]
    /\ machine.memory = cpu.memory
    /\ goes = Read(cpu, ip)

\* The registers that say how the operands of the last comparison compare are
\* forgotten when the flags change: those alive say what the flags say.
PseudoFlagsAreFresh ==
  LET meaning == [less |-> "L", less_or_equal |-> "LE", greater |-> "G", greater_or_equal |-> "GE",
                  below |-> "B", below_or_equal |-> "BE", above |-> "A", above_or_equal |-> "AE"]
  IN  at = Boundary /\ clean /\ ~stale =>
        \A r \in ToSet(Relations) :
          IsAlive(machine, RelationLocations[r]) =>
            Read(machine, RelationLocations[r]) = Truth(Holds(meaning[r], cpu))
=============================================================================
