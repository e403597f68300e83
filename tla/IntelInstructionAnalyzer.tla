----------------------- MODULE IntelInstructionAnalyzer -----------------------
(***************************************************************************)
(* What the decompiler takes Intel's instructions to do: for each of them  *)
(* the statements it generates.  A byte has CHAR_BIT bits and a word two   *)
(* bytes; the variants of an instruction for longer words are left out,    *)
(* and so is the flag AF, which nothing here reads.                        *)
(***************************************************************************)
EXTENDS Expressions, SequencesExt

Word == 2 * CHAR_BIT

ASSUME WordAssumption == Bitness = Word /\ AddressBits = Word

-----------------------------------------------------------------------------
\* Registers.  Each has a domain of its own; parts of one share it.

Part(domain, offset, size) ==
  [domain |-> "REGISTER", addr |-> domain * Word + offset, size |-> size]

ax == Part(0, 0, Word)
al == Part(0, 0, CHAR_BIT)
ah == Part(0, CHAR_BIT, CHAR_BIT)
cx == Part(1, 0, Word)
cl == Part(1, 0, CHAR_BIT)
dx == Part(2, 0, Word)
bx == Part(3, 0, Word)
sp == Part(4, 0, Word)
bp == Part(5, 0, Word)
si == Part(6, 0, Word)
di == Part(7, 0, Word)
ip == Part(8, 0, Word)
tmp == Part(9, 0, Word)

\* resizedRegister(): the low part of a register.
Resized(register, size) == [register EXCEPT !.size = size]

FlagNumbers == [cf |-> 0, zf |-> 1, sf |-> 2, of |-> 3, pf |-> 4, df |-> 5]
FlagLocations == [f \in DOMAIN FlagNumbers |-> Part(10, FlagNumbers[f], 1)]
Flag(f) == Access(FlagLocations[f])

\* As many of the flags as a word has room for.
flags == Part(10, 0, Word)

\* Registers no processor has: how the operands of the last comparison compare.
Relations ==
  <<"less", "less_or_equal", "greater", "greater_or_equal",
    "below", "below_or_equal", "above", "above_or_equal">>
RelationLocations ==
  [r \in ToSet(Relations) |-> Part(12, SelectInSeq(Relations, LAMBDA q : q = r) - 1, 1)]
Relation(r) == Access(RelationLocations[r])
pseudo_flags == Part(12, 0, Len(Relations))

-----------------------------------------------------------------------------
\* Operands, as libudis86 gives them, as the disassembler keeps them, and the terms for them.

ConstantOperand(v, size) == [kind |-> "CONSTANT", value |-> Truncated(v, size), size |-> size]
RegisterOperand(l) == [kind |-> "REGISTER", location |-> l, size |-> l.size]
SumOperand(op, left, right, size) ==
  [kind |-> op, left |-> left, right |-> right, size |-> size]

\* Mutant: the displacement is taken for a whole address.
GetDereferenceOfWord(u) ==
  [kind |-> "DEREFERENCE", size |-> u.size,
   operand |-> SumOperand("ADDITION", RegisterOperand(u.base), ConstantOperand(u.value, Word), Word)]

\* [base + index * scale + offset]; an offset of 0 is left out.
GetDereference(u) ==
  LET index == IF u.scale > 1
                 THEN SumOperand("MULTIPLICATION", RegisterOperand(u.index),
                                 ConstantOperand(u.scale, Word), Word)
                 ELSE RegisterOperand(u.index)
      indexed == IF u.scale # 0
                   THEN SumOperand("ADDITION", RegisterOperand(u.base), index, Word)
                   ELSE RegisterOperand(u.base)
      address == IF u.value # 0
                   THEN SumOperand("ADDITION", indexed, ConstantOperand(u.value, u.offset), Word)
                   ELSE indexed
  IN  [kind |-> "DEREFERENCE", operand |-> address, size |-> u.size]

\* An immediate value is sign-extended to the size of the operand before it.
GetOperand(u, lastOperandSize) ==
  CASE u.type = "MEM"  -> GetDereference(u)
    [] u.type = "IMM"  -> ConstantOperand(Signed(u.value, u.size), Max({u.size, lastOperandSize}))
    [] u.type = "JIMM" -> ConstantOperand(u.value, Bitness)
    [] u.type = "REG"  -> RegisterOperand(u.location)

\* The instruction with the operands the disassembler makes of libudis86's.
Disassembled(u) ==
  LET operand[k \in DOMAIN u.operands] ==
        GetOperand(u.operands[k], IF k = 1 THEN 0 ELSE operand[k - 1].size)
  IN  [u EXCEPT !.operands = operand]

RECURSIVE TermOf(_)

\* The shorter of the two is extended.
SumTerm(op, extension, left, right) ==
  LET size == Max({left.size, right.size})
      Extended(t) == IF t.size < size THEN SizedUnary(extension, t, size) ELSE t
  IN  SizedBinary(op, Extended(left), Extended(right), size)

\* createTerm()
TermOf(operand) ==
  CASE operand.kind = "REGISTER"       -> Access(operand.location)
    [] operand.kind = "CONSTANT"       -> SizedConstant(operand.value, operand.size)
    [] operand.kind = "DEREFERENCE"    -> SizedDereference(TermOf(operand.operand), operand.size)
    [] operand.kind = "ADDITION"       ->
         SumTerm("ADD", "SIGN_EXTEND", TermOf(operand.left), TermOf(operand.right))
    [] operand.kind = "MULTIPLICATION" ->
         SumTerm("MUL", "ZERO_EXTEND", TermOf(operand.left), TermOf(operand.right))

-----------------------------------------------------------------------------
\* Statements that occur in several instructions.

Add(l, r) == Binary("ADD", l, r)
Sub(l, r) == Binary("SUB", l, r)
And(l, r) == Test("LOGICAL_AND", l, r)
Or(l, r) == Test("LOGICAL_OR", l, r)
Equal(l, r) == Test("EQUAL", l, r)
IsLess(l, r) == Test("UNSIGNED_LESS", l, r)
Bytes(size) == Constant(size \div CHAR_BIT)

\* The flags "fs" get values nothing is said about, or no values at all.
Unknown(fs) == [k \in DOMAIN fs |-> Assign(Flag(fs[k]), Intrinsic)]
Undefine(fs) == [k \in DOMAIN fs |-> Assign(Flag(fs[k]), UndefinedExpression)]

ForgetRelations == Kill(Access(pseudo_flags))

\* What comparing l to r says in the registers that stand for no hardware:
\* of signed numbers in the first four, of unsigned ones in the others.
Comparisons ==
  <<"UNSIGNED_LESS", "UNSIGNED_LESS_OR_EQUAL", "UNSIGNED_GREATER", "UNSIGNED_GREATER_OR_EQUAL">>
Compare(l, r) ==
  [k \in DOMAIN Relations |->
     LET left == IF k <= 4 THEN SignedExpression(l) ELSE UnsignedExpression(l)
     IN  Assign(Relation(Relations[k]), Test(Comparisons[1 + ((k - 1) % 4)], left, r))]

ZeroFlag(e, zero) == <<Assign(Flag("zf"), Equal(e, zero))>>
SignFlag(e, zero) == <<Assign(Flag("sf"), IsLess(SignedExpression(e), zero))>>

\* Mutant: the relations of an earlier comparison stay.
SumFlagsWithRelations(e) ==
  Unknown(<<"pf">>) \o ZeroFlag(e, Constant(0)) \o SignFlag(e, Constant(0)) \o Unknown(<<"of">>)

\* Flags of a sum: of ADC and ADD, and but for the carry of DEC and INC.
SumFlags(e) ==
  Unknown(<<"pf">>) \o ZeroFlag(e, Constant(0)) \o SignFlag(e, Constant(0)) \o Unknown(<<"of">>)
    \o <<ForgetRelations>>

\* Flags of AND, OR, TEST and XOR; "e" is the result.
LogicFlags(e) ==
  <<Assign(Flag("cf"), Constant(0))>> \o Unknown(<<"pf">>) \o ZeroFlag(e, Constant(0))
    \o Unknown(<<"sf">>) \o <<Assign(Flag("of"), Constant(0)), ForgetRelations>>

\* Flags of CMP and of the instructions that compare strings.
ComparisonFlags(l, r) ==
  Unknown(<<"cf", "pf">>) \o ZeroFlag(l, r) \o SignFlag(l, r) \o Unknown(<<"of">>) \o Compare(l, r)

\* Flags of SUB and SBB, after the subtraction.
DifferenceFlags(e, zero) ==
  Unknown(<<"cf", "pf">>) \o ZeroFlag(e, zero) \o SignFlag(e, zero) \o Unknown(<<"of">>)

ShiftFlags(e) ==
  Unknown(<<"cf">>) \o Undefine(<<"sf">>) \o ZeroFlag(e, Constant(0)) \o Unknown(<<"pf">>)

-----------------------------------------------------------------------------
\* Conditions of Jcc, SETcc and CMOVcc.

SignIsOverflow == Equal(Flag("sf"), Flag("of"))

Conditions ==
  [A  |-> Choice(Relation("above"), And(Not(Flag("cf")), Not(Flag("zf")))),
   AE |-> Choice(Relation("above_or_equal"), Not(Flag("cf"))),
   B  |-> Choice(Relation("below"), Flag("cf")),
   BE |-> Choice(Relation("below_or_equal"), Or(Flag("cf"), Flag("zf"))),
   C  |-> Flag("cf"), NC |-> Not(Flag("cf")), E |-> Flag("zf"), NE |-> Not(Flag("zf")),
   O  |-> Flag("of"), NO |-> Not(Flag("of")), S |-> Flag("sf"), NS |-> Not(Flag("sf")),
   P  |-> Flag("pf"), NP |-> Not(Flag("pf")),
   G  |-> Choice(Relation("greater"), Or(Not(Flag("zf")), SignIsOverflow)),
   GE |-> Choice(Relation("greater_or_equal"), SignIsOverflow),
   L  |-> Choice(Relation("less"), Not(SignIsOverflow)),
   LE |-> Choice(Relation("less_or_equal"), Or(Flag("zf"), Not(SignIsOverflow)))]

-----------------------------------------------------------------------------
\* Instructions without blocks of their own.  "a" and "b" are the terms of
\* the first and the second operand, "same" says that both are one register.

Start(statements) == [start |-> statements]

Sums == {"ADC", "ADD", "INC", "DEC"}
Sum(m, a, b) ==
  CASE m = "ADC" -> <<Assign(a, Add(Add(a, b), Flag("cf")))>> \o Unknown(<<"cf">>) \o SumFlags(a)
    [] m = "ADD" -> <<Assign(a, Add(a, b))>> \o Unknown(<<"cf">>) \o SumFlags(a)
    [] m = "INC" -> <<Assign(a, Add(a, Constant(1)))>> \o SumFlags(a)
    [] m = "DEC" -> <<Assign(a, Sub(a, Constant(1)))>> \o SumFlags(a)

Differences == {"CMP", "SUB", "SBB", "NEG"}
Difference(m, a, b) ==
  CASE m = "CMP" -> ComparisonFlags(a, b)
    [] m = "SUB" -> Compare(a, b) \o <<Assign(a, Sub(a, b))>> \o DifferenceFlags(a, Constant(0))
    [] m = "SBB" ->
         LET borrowed == Add(b, Flag("cf"))
             carried == Add(Constant(0), Flag("cf"))
         IN  Compare(a, borrowed) \o <<Assign(a, Sub(a, borrowed))>>
               \o DifferenceFlags(a, carried)
    [] m = "NEG" -> <<Assign(Flag("cf"), Not(Equal(a, Constant(0)))), Assign(a, Unary("NEGATION", a))>>
                      \o Unknown(<<"pf">>) \o ZeroFlag(a, Constant(0)) \o Unknown(<<"sf", "of">>) \o <<ForgetRelations>>

Logics == {"AND", "OR", "XOR", "TEST", "NOT"}
Logic(m, a, b, same) ==
  CASE m = "AND"  -> <<Assign(a, IF same THEN a ELSE Binary("BITWISE_AND", a, b))>> \o LogicFlags(a)
    [] m = "OR"   -> <<Assign(a, IF same THEN a ELSE Binary("BITWISE_OR", a, b))>> \o LogicFlags(a)
    [] m = "XOR"  ->
         <<Assign(a, IF same THEN Constant(0) ELSE Binary("BITWISE_XOR", a, b))>> \o LogicFlags(a)
    [] m = "TEST" -> LogicFlags(IF same THEN a ELSE Binary("BITWISE_AND", a, b))
    [] m = "NOT"  -> <<Assign(a, Unary("BITWISE_NOT", a))>>

Shifts == {"SHL", "SHR", "SAR", "BT"}
Shift(m, a, b) ==
  CASE m = "SHL" -> <<Assign(a, Binary("SHL", a, b))>> \o ShiftFlags(a)
    [] m = "SHR" -> <<Assign(a, Binary("SHR", UnsignedExpression(a), b))>> \o ShiftFlags(a)
    [] m = "SAR" -> <<Assign(a, Binary("SHR", SignedExpression(a), b))>> \o ShiftFlags(a)
    [] m = "BT"  -> <<Assign(Flag("cf"), Unary("RESIZE", Binary("SHR", UnsignedExpression(a), b)))>>
                      \o Undefine(<<"of", "sf", "zf", "pf">>) \o <<ForgetRelations>>

\* MUL is taken for IMUL.
Product(terms) ==
  LET a == terms[1]
      low == Resized(ax, a.size)
      product ==
        CASE Len(terms) = 1 /\ a.size = CHAR_BIT ->
               <<Assign(Access(ax), Binary("MUL", Unary("SIGN_EXTEND", Access(low)), Unary("SIGN_EXTEND", a)))>>
          [] Len(terms) = 1 /\ a.size # CHAR_BIT ->
               <<Assign(Access(low), Binary("MUL", Access(low), a)),
                 Assign(Access(Resized(dx, a.size)), Intrinsic)>>
          [] Len(terms) = 2 -> <<Assign(a, Binary("MUL", a, terms[2]))>>
          [] Len(terms) = 3 -> <<Assign(a, Binary("MUL", terms[2], terms[3]))>>
  IN  product \o Unknown(<<"cf", "of">>) \o Undefine(<<"sf", "zf", "pf">>)

\* The dividend is AX alone, the remainder is always in DX.
Quotients == {"DIV", "IDIV"}
Division(m, a, divisor) ==
  LET size == Max({a.size, Word})
      dividend == IF m = "DIV" THEN UnsignedExpression(Access(Resized(ax, size)))
                               ELSE SignedExpression(Access(Resized(ax, size)))
  IN  <<Assign(Access(Resized(dx, size)), Binary("UNSIGNED_REM", dividend, divisor)),
        Assign(Access(Resized(ax, size)), Binary("UNSIGNED_DIV", dividend, divisor))>>
        \o Undefine(<<"cf", "of", "sf", "zf", "pf">>)

Moves == {"MOV", "MOVSX", "MOVZX", "LEA", "XCHG", "CBW", "CLD", "STD", "NOP"}
Move(m, a, b) ==
  CASE m = "MOV"   -> <<Assign(a, CASE a.size = b.size -> b
                                    [] a.size > b.size -> Unary("ZERO_EXTEND", b)
                                    [] a.size < b.size -> Unary("RESIZE", b))>>
    [] m = "MOVSX" -> <<Assign(a, Unary("SIGN_EXTEND", b))>>
    [] m = "MOVZX" -> <<Assign(a, Unary("ZERO_EXTEND", b))>>
    [] m = "LEA"   -> LET address == b.args[1]
                      IN  <<Assign(a, IF a.size = address.size THEN address ELSE Unary("RESIZE", address))>>
    [] m = "XCHG"  -> LET temporary == Access(Resized(tmp, a.size))
                      IN  <<Assign(temporary, a), Assign(a, b), Assign(b, temporary)>>
    [] m = "CBW"   -> <<Assign(Access(ax), Unary("SIGN_EXTEND", Access(al)))>>
    [] m = "CLD"   -> <<Assign(Flag("df"), Constant(0))>>
    [] m = "STD"   -> <<Assign(Flag("df"), Constant(1))>>
    [] m = "NOP"   -> <<>>

\* The stack.  POPFW writes what it should read.
Top == Dereference(Access(sp))
Pushed(size) == Assign(Access(sp), Sub(Access(sp), Bytes(size)))
Popped(size) == Assign(Access(sp), Add(Access(sp), Bytes(size)))

Stacks == {"PUSH", "POP", "PUSHFW", "POPFW", "LEAVE"}
Stack(m, a) ==
  CASE m = "PUSH"   -> <<Pushed(a.size), Assign(Top, a)>>
    [] m = "POP"    -> <<Assign(a, Top), Popped(a.size)>>
    [] m = "PUSHFW" -> <<Pushed(Word), Assign(Top, Access(flags))>>
    [] m = "POPFW"  -> <<Assign(Top, Access(flags)), Popped(Word)>>
    [] m = "LEAVE"  -> <<Assign(Access(sp), Access(bp)), Assign(Access(bp), Top), Popped(Word)>>

-----------------------------------------------------------------------------
\* Instructions that leave the sequence of instructions, "next" being the one behind.

CounterIsNotZero == Access(cx)

Transfers == {"CALL", "RET", "JMP", "JCC", "JCXZ", "LOOP", "LOOPE", "LOOPNE"}
Transfer(instr, terms) ==
  LET m == instr.mnemonic
      target == terms[1]
      counted == <<Assign(Access(cx), Sub(Access(cx), Constant(1)))>>
  IN  CASE m = "CALL"   -> <<Pushed(Word), Assign(Top, Access(ip)), Call(target)>>
        [] m = "RET"    -> <<Assign(Access(ip), Top), Popped(Word)>>
                             \o (IF terms = <<>> THEN <<>> ELSE <<Assign(Access(sp), Add(Access(sp), target))>>)
                             \o <<Return>>
        [] m = "JMP"    -> <<JumpTo(NullExpression, target, "")>>
        [] m = "JCC"    -> <<JumpTo(Conditions[instr.condition], target, "next")>>
        [] m = "JCXZ"   -> <<JumpTo(Not(Access(cx)), target, "next")>>
        [] m = "LOOP"   -> counted \o <<JumpTo(CounterIsNotZero, target, "next")>>
        [] m = "LOOPE"  -> counted \o <<JumpTo(And(CounterIsNotZero, Flag("zf")), target, "next")>>
        [] m = "LOOPNE" -> counted \o <<JumpTo(And(CounterIsNotZero, Not(Flag("zf"))), target, "next")>>

Conditionally(condition, then) ==
  [start |-> <<JumpToBlock(condition, "then", "next")>>,
   then |-> then \o <<JumpToBlock(NullExpression, "next", "")>>]

\* Equality with the second operand decides, not with the accumulator.
CompareExchange(a, b) ==
  LET temporary == Access(Resized(tmp, a.size))
  IN  [start |-> Unknown(<<"cf", "pf">>) \o ZeroFlag(a, b) \o Unknown(<<"sf", "of">>)
                   \o <<ForgetRelations, JumpToBlock(Flag("zf"), "then", "next")>>,
       then |-> <<Assign(temporary, a), Assign(a, b), Assign(b, temporary),
                  JumpToBlock(NullExpression, "next", "")>>]

Strings == {"CMPS", "MOVS", "SCAS", "STOS"}

StringStep(size) ==
  Assign(Access(tmp), Sub(Bytes(size),
    Binary("MUL", SizedConstant(2 * (size \div CHAR_BIT), Word), Flag("df"))))

\* What is done to one element; CMPS falls through into MOVS.
StringBody(m, size) ==
  LET source == SizedDereference(Access(si), size)
      destination == SizedDereference(Access(di), size)
      accumulator == Access(Resized(ax, size))
      moved == <<Assign(destination, Dereference(Access(si)))>>
  IN  CASE m = "CMPS" -> ComparisonFlags(source, destination) \o moved
        [] m = "MOVS" -> moved
        [] m = "SCAS" -> ComparisonFlags(destination, accumulator)
        [] m = "STOS" -> <<Assign(destination, accumulator)>>

\* Where the body leads.  libudis86 reports REPZ and REP together.
StringEnd(m, prefixes) ==
  CASE "REP" \in prefixes /\ m # "SCAS" -> JumpToBlock(NullExpression, "condition", "")
    [] ~("REP" \in prefixes /\ m # "SCAS") /\ "REPZ" \in prefixes ->
         JumpToBlock(Flag("zf"), "condition", "next")
    [] "REPNZ" \in prefixes /\ "REPZ" \notin prefixes ->
         JumpToBlock(Not(Flag("zf")), "condition", "next")
    [] prefixes = {} -> JumpToBlock(NullExpression, "next", "")

StringInstruction(m, size, prefixes) ==
  LET repeats == prefixes # {}
      counted == IF repeats THEN <<Assign(Access(cx), Sub(Access(cx), Constant(1)))>> ELSE <<>>
      Advance(register) == Assign(Access(register), Add(Access(register), Access(tmp)))
  IN  [start     |-> <<StringStep(size), JumpToBlock(NullExpression, "condition", "")>>,
       condition |-> <<IF repeats THEN JumpToBlock(CounterIsNotZero, "body", "next")
                                  ELSE JumpToBlock(NullExpression, "body", "")>>,
       body      |-> counted \o StringBody(m, size) \o <<Advance(di), Advance(si), StringEnd(m, prefixes)>>]

-----------------------------------------------------------------------------
\* Blocks of statements.  An instruction the analyzer does not know becomes
\* inline assembly, which changes nothing.

Semantics(instr, terms, same) ==
  LET m == instr.mnemonic
      a == terms[1]
      b == terms[2]
  IN  CASE m \in Sums             -> Start(Sum(m, a, b))
        [] m \in Differences      -> Start(Difference(m, a, b))
        [] m \in Logics           -> Start(Logic(m, a, b, same))
        [] m \in Shifts           -> Start(Shift(m, a, IF Len(terms) = 1 THEN Constant(1) ELSE b))
        [] m \in {"MUL", "IMUL"}  -> Start(Product(terms))
        [] m \in Quotients        -> Start(Division(m, a, Last(terms)))
        [] m \in Moves            -> Start(Move(m, a, b))
        [] m \in Stacks           -> Start(Stack(m, a))
        [] m \in Transfers        -> Start(Transfer(instr, terms))
        [] m = "SETCC"            -> Start(<<Assign(a, Unary("ZERO_EXTEND", Conditions[instr.condition]))>>)
        [] m = "CMOVCC"           -> Conditionally(Conditions[instr.condition], <<Assign(a, b)>>)
        [] m = "CMPXCHG"          -> CompareExchange(a, b)
        [] m \in Strings          -> StringInstruction(m, instr.size, instr.prefixes)
        [] m = "INLINE"           -> Start(<<>>)

AreSameRegister(operands) ==
  /\ Len(operands) > 1
  /\ operands[1] = operands[2] /\ operands[1].kind # "DEREFERENCE"

\* createStatements(): the factory finds the sizes when it makes the statements.
CreateStatements(instr) ==
  LET operands == instr.operands
      blocks == Semantics(instr, [k \in DOMAIN operands |-> TermOf(operands[k])],
                          AreSameRegister(operands))
  IN  [b \in DOMAIN blocks |-> [k \in DOMAIN blocks[b] |-> StatementSize(blocks[b][k])]]
=============================================================================
