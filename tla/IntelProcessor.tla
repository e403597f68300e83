---------------------------- MODULE IntelProcessor ----------------------------
(***************************************************************************)
(* What Intel's instructions do, by the manual of the processor: the       *)
(* reference the generated statements are held against.  A flag the manual *)
(* leaves undefined keeps its value.  The register ip holds the address of *)
(* the instruction to come.                                                *)
(***************************************************************************)
EXTENDS IntelInstructionAnalyzer

-----------------------------------------------------------------------------
\* Operands.

EffectiveAddress(u, m) ==
  (Read(m, u.base) + u.scale * (IF u.scale = 0 THEN 0 ELSE Read(m, u.index))
     + Signed(u.value, u.offset)) % 2^AddressBits

Place(u, m) == IF u.type = "REG" THEN u.location ELSE AtAddress(EffectiveAddress(u, m), u.size)

\* The value of an operand, as a number of so many bits.
Fetched(u, m, size) ==
  CASE u.type = "IMM"  -> Truncated(Signed(u.value, u.size), size)
    [] u.type = "JIMM" -> u.value
    [] u.type \in {"REG", "MEM"} -> Read(m, Place(u, m))

Set(m, l, v) == Write(m, l, Truncated(v, l.size), 0)

-----------------------------------------------------------------------------
\* Flags.

FlagOf(m, f) == Read(m, FlagLocations[f])

\* The machine with the flags in "new" changed.
WithFlags(m, new) ==
  FoldSet(LAMBDA f, n : Set(n, FlagLocations[f], new[f]), m, DOMAIN new)

\* Whether the low byte has an even number of ones.
Parity(v) == Truth(Cardinality({k \in 0 .. CHAR_BIT - 1 : Bit(v, k) = 1}) % 2 = 0)

ResultFlags(v, size) == [zf |-> Truth(v = 0), sf |-> Bit(v, size - 1), pf |-> Parity(v)]

Fits(v, size) == v \in -(2^(size - 1)) .. 2^(size - 1) - 1

SumOf(a, b, c, size) ==
  LET v == Truncated(a + b + c, size)
  IN  [value |-> v,
       flags |-> ResultFlags(v, size) @@
                 [cf |-> Truth(a + b + c >= 2^size),
                  of |-> Truth(~Fits(Signed(a, size) + Signed(b, size) + c, size))]]

DifferenceOf(a, b, c, size) ==
  LET v == Truncated(a - b - c, size)
  IN  [value |-> v,
       flags |-> ResultFlags(v, size) @@
                 [cf |-> Truth(a < b + c),
                  of |-> Truth(~Fits(Signed(a, size) - Signed(b, size) - c, size))]]

LogicOf(v, size) == [value |-> v, flags |-> ResultFlags(v, size) @@ [cf |-> 0, of |-> 0]]

WithoutCarry(r) == [value |-> r.value, flags |-> [f \in DOMAIN r.flags \ {"cf"} |-> r.flags[f]]]

\* The overflow flag tells something only if the count is 1.
ShiftOf(m, a, count, size) ==
  LET left == m = "SHL"
      shifted == IF m = "SAR" THEN Signed(a, size) ELSE a
      v == Truncated(IF left THEN a * 2^count ELSE shifted \div 2^count, size)
      out == Bit(IF left THEN a * 2^count ELSE shifted \div 2^(count - 1), IF left THEN size ELSE 0)
      overflow == CASE left      -> (out + Bit(v, size - 1)) % 2
                    [] m = "SHR" -> Bit(a, size - 1)
                    [] m = "SAR" -> 0
  IN  CASE count = 0 -> [value |-> a, flags |-> <<>>]
        [] count = 1 -> [value |-> v, flags |-> ResultFlags(v, size) @@ [cf |-> out, of |-> overflow]]
        [] count > 1 -> [value |-> v, flags |-> ResultFlags(v, size) @@ [cf |-> out]]

-----------------------------------------------------------------------------
\* Conditions, as the table of instructions gives them (IntelInstructionTable.i).

Holds(condition, m) ==
  LET F(f) == FlagOf(m, f) = 1
      less == F("sf") # F("of")
  IN  CASE condition = "A"  -> ~F("cf") /\ ~F("zf")
        [] condition = "AE" -> ~F("cf")
        [] condition = "B"  -> F("cf")
        [] condition = "BE" -> F("cf") \/ F("zf")
        [] condition = "C"  -> F("cf")
        [] condition = "NC" -> ~F("cf")
        [] condition = "E"  -> F("zf")
        [] condition = "NE" -> ~F("zf")
        [] condition = "O"  -> F("of")
        [] condition = "NO" -> ~F("of")
        [] condition = "S"  -> F("sf")
        [] condition = "NS" -> ~F("sf")
        [] condition = "P"  -> F("pf")
        [] condition = "NP" -> ~F("pf")
        [] condition = "G"  -> ~F("zf") /\ ~less
        [] condition = "GE" -> ~less
        [] condition = "L"  -> less
        [] condition = "LE" -> F("zf") \/ less

-----------------------------------------------------------------------------
\* Instructions with a result and flags.

\* The value and the flags instruction m makes of a and b.
ResultOf(m, a, b, carry, size) ==
  CASE m = "ADD" -> SumOf(a, b, 0, size)
    [] m = "ADC" -> SumOf(a, b, carry, size)
    [] m = "INC" -> WithoutCarry(SumOf(a, 1, 0, size))
    [] m = "DEC" -> WithoutCarry(DifferenceOf(a, 1, 0, size))
    [] m \in {"SUB", "CMP"}  -> DifferenceOf(a, b, 0, size)
    [] m = "SBB" -> DifferenceOf(a, b, carry, size)
    [] m = "NEG" -> DifferenceOf(0, a, 0, size)
    [] m \in {"AND", "TEST"} -> LogicOf(BitwiseAnd[a, b], size)
    [] m = "OR"  -> LogicOf(a + b - BitwiseAnd[a, b], size)
    [] m = "XOR" -> LogicOf(a + b - 2 * BitwiseAnd[a, b], size)
    [] m = "NOT" -> [value |-> 2^size - 1 - a, flags |-> <<>>]
    [] m \in {"SHL", "SHR", "SAR"} -> ShiftOf(m, a, b, size)
    [] m = "BT"  -> [value |-> a, flags |-> [cf |-> Bit(a, b % size)]]

KeepsOperand == {"CMP", "TEST", "BT"}

Calculate(instr, m) ==
  LET u == instr.operands[1]
      b == IF Len(instr.operands) = 1 THEN 1 ELSE Fetched(instr.operands[2], m, u.size)
      result == ResultOf(instr.mnemonic, Fetched(u, m, u.size), b, FlagOf(m, "cf"), u.size)
  IN  WithFlags(IF instr.mnemonic \in KeepsOperand THEN m ELSE Set(m, Place(u, m), result.value),
                result.flags)

\* Both halves of a number of twice the size: AH and AL, or DX and AX.
High(size) == IF size = Word THEN dx ELSE ah
WithBoth(m, size, v) == Set(Set(m, Resized(ax, size), v), High(size), v \div 2^size)

Multiply(instr, m) ==
  LET size == instr.operands[1].size
      k == Len(instr.operands)
      factors == CASE k = 1 -> <<Read(m, Resized(ax, size)), Fetched(instr.operands[1], m, size)>>
                   [] k = 2 -> <<Fetched(instr.operands[1], m, size), Fetched(instr.operands[2], m, size)>>
                   [] k = 3 -> <<Fetched(instr.operands[2], m, size), Fetched(instr.operands[3], m, size)>>
      product == IF instr.mnemonic = "MUL" THEN factors[1] * factors[2]
                                           ELSE Signed(factors[1], size) * Signed(factors[2], size)
      large == IF instr.mnemonic = "MUL" THEN product >= 2^size ELSE ~Fits(product, size)
  IN  WithFlags(IF k = 1 THEN WithBoth(m, size, product) ELSE Set(m, Place(instr.operands[1], m), product),
                [cf |-> Truth(large), of |-> Truth(large)])

Divided(instr, m) ==
  LET size == instr.operands[1].size
      both == Read(m, Resized(ax, size)) + 2^size * Read(m, High(size))
      divisor == Fetched(instr.operands[1], m, size)
  IN  IF instr.mnemonic = "DIV" THEN <<both, divisor>>
                                ELSE <<Signed(both, 2 * size), Signed(divisor, size)>>

\* A quotient that does not fit is an exception, like a divisor that is zero.
Executes(instr, m) ==
  instr.mnemonic \in Quotients =>
    LET d == Divided(instr, m)
        size == instr.operands[1].size
    IN  /\ d[2] # 0
        /\ IF instr.mnemonic = "DIV" THEN Quotient(d[1], d[2]) < 2^size ELSE Fits(Quotient(d[1], d[2]), size)

Divide(instr, m) ==
  LET d == Divided(instr, m)
      size == instr.operands[1].size
      quotient == Quotient(d[1], d[2])
  IN  Set(Set(m, Resized(ax, size), quotient), High(size), d[1] - d[2] * quotient)

-----------------------------------------------------------------------------
\* The others.

Copy(instr, m) ==
  LET n == instr.mnemonic
      u == instr.operands[1]
      v == instr.operands[2]
      from == Fetched(v, m, u.size)
  IN  CASE n \in {"MOV", "MOVZX"} -> Set(m, Place(u, m), from)
        [] n = "MOVSX"  -> Set(m, Place(u, m), Signed(from, v.size))
        [] n = "LEA"    -> Set(m, Place(u, m), EffectiveAddress(v, m))
        [] n = "XCHG"   -> Set(Set(m, Place(v, m), Fetched(u, m, u.size)), Place(u, m), from)
        [] n = "CMOVCC" -> IF Holds(instr.condition, m) THEN Set(m, Place(u, m), from) ELSE m
        [] n = "CMPXCHG" ->
             LET accumulator == Resized(ax, u.size)
                 compared == DifferenceOf(Read(m, accumulator), Fetched(u, m, u.size), 0, u.size)
                 equal == compared.value = 0
             IN  WithFlags(IF equal THEN Set(m, Place(u, m), from)
                                    ELSE Set(m, accumulator, Fetched(u, m, u.size)), compared.flags)

\* A byte that is pushed is sign-extended to a word.
PushValue(m, v) ==
  LET top == (Read(m, sp) - 2) % 2^AddressBits
  IN  Set(Set(m, sp, top), AtAddress(top, Word), v)

Lifted(m) == Set(m, sp, Read(m, sp) + 2)
TopValue(m) == Read(m, AtAddress(Read(m, sp), Word))

StackOperation(instr, m) ==
  CASE instr.mnemonic = "PUSH"   -> PushValue(m, Fetched(instr.operands[1], m, Word))
    [] instr.mnemonic = "POP"    ->
         Set(Lifted(m), Place(instr.operands[1], Lifted(m)), TopValue(m))
    [] instr.mnemonic = "PUSHFW" -> PushValue(m, Read(m, flags))
    [] instr.mnemonic = "POPFW"  -> Lifted(Set(m, flags, TopValue(m)))
    [] instr.mnemonic = "LEAVE"  ->
         LET released == Set(m, sp, Read(m, bp)) IN Lifted(Set(released, bp, TopValue(released)))

Counted(m) == Set(m, cx, Read(m, cx) - 1)
Goes(m, condition, address) == IF condition THEN Set(m, ip, address) ELSE m

Branch(instr, m) ==
  LET n == instr.mnemonic
      u == instr.operands[1]
      target == Fetched(u, m, Word)
  IN  CASE n = "CALL"   -> Set(PushValue(m, Read(m, ip)), ip, target)
        [] n = "RET"    -> LET returned == Set(Lifted(m), ip, TopValue(m))
                           IN  IF instr.operands = <<>> THEN returned
                               ELSE Set(returned, sp, Read(returned, sp) + u.value)
        [] n = "JMP"    -> Goes(m, TRUE, target)
        [] n = "JCC"    -> Goes(m, Holds(instr.condition, m), target)
        [] n = "JCXZ"   -> Goes(m, Read(m, cx) = 0, target)
        [] n = "LOOP"   -> Goes(Counted(m), Read(Counted(m), cx) # 0, target)
        [] n = "LOOPE"  -> Goes(Counted(m), Read(Counted(m), cx) # 0 /\ FlagOf(m, "zf") = 1, target)
        [] n = "LOOPNE" -> Goes(Counted(m), Read(Counted(m), cx) # 0 /\ FlagOf(m, "zf") = 0, target)

\* One element of a string.
Element(instr, m) ==
  LET size == instr.size
      n == instr.mnemonic
      from == AtAddress(Read(m, si), size)
      to == AtAddress(Read(m, di), size)
      step == IF FlagOf(m, "df") = 1 THEN -BytesIn(from) ELSE BytesIn(from)
      Advanced(o, register) == Set(o, register, Read(o, register) + step)
      Compared(a, b) == WithFlags(m, DifferenceOf(Read(m, a), Read(m, b), 0, size).flags)
  IN  CASE n = "MOVS" -> Advanced(Advanced(Set(m, to, Read(m, from)), si), di)
        [] n = "STOS" -> Advanced(Set(m, to, Read(m, Resized(ax, size))), di)
        [] n = "CMPS" -> Advanced(Advanced(Compared(from, to), si), di)
        [] n = "SCAS" -> Advanced(Compared(Resized(ax, size), to), di)

\* A string: as many elements as cx says, or until the comparison fails.
RECURSIVE Repeat(_, _)
Repeat(instr, m) ==
  LET done == Element(instr, Counted(m))
      stops == /\ instr.mnemonic \in {"CMPS", "SCAS"}
               /\ FlagOf(done, "zf") = (IF "REPNZ" \in instr.prefixes THEN 1 ELSE 0)
  IN  CASE Read(m, cx) = 0              -> m
        [] Read(m, cx) # 0 /\ stops     -> done
        [] Read(m, cx) # 0 /\ ~stops    -> Repeat(instr, done)

Calculations == Sums \cup Differences \cup Logics \cup Shifts

\* The machine after the instruction.
Execute(instr, m) ==
  LET n == instr.mnemonic
  IN  CASE n \in Calculations   -> Calculate(instr, m)
        [] n \in {"MUL", "IMUL"} -> Multiply(instr, m)
        [] n \in Quotients       -> Divide(instr, m)
        [] n \in {"MOV", "MOVZX", "MOVSX", "LEA", "XCHG", "CMOVCC", "CMPXCHG"} -> Copy(instr, m)
        [] n = "SETCC"           -> Set(m, Place(instr.operands[1], m), Truth(Holds(instr.condition, m)))
        [] n \in Stacks          -> StackOperation(instr, m)
        [] n \in Transfers       -> Branch(instr, m)
        [] n \in Strings         -> IF instr.prefixes = {} THEN Element(instr, m) ELSE Repeat(instr, m)
        [] n = "CBW"             -> Set(m, ax, Signed(Read(m, al), CHAR_BIT))
        [] n = "CLD"             -> Set(m, FlagLocations["df"], 0)
        [] n = "STD"             -> Set(m, FlagLocations["df"], 1)
        [] n = "NOP"             -> m
        [] n = "INLINE"          -> Set(m, FlagLocations["cf"], 1 - FlagOf(m, "cf"))
=============================================================================
