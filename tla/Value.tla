------------------------------- MODULE Value -------------------------------
(***************************************************************************)
(* What the data flow analysis knows about the value of a term: whether it *)
(* is a constant, whether it is an offset to the frame on the stack, and   *)
(* whether it is the result of a multiplication.                           *)
(* The flags are sticky: once set, one is never taken back, and a value    *)
(* counts as constant while it is known to be one and not known not to be. *)
(* A number of n bits is one of 0..2^n-1; whether it is read as signed is  *)
(* a matter of the operator.                                               *)
(***************************************************************************)
EXTENDS Integers, FiniteSetsExt

CONSTANT MAX_SIZE   \* no value of a wider term is tracked

ASSUME MaxSizeAssumption == MAX_SIZE \in Nat \ {0}

-----------------------------------------------------------------------------
\* Numbers of limited width.

Truncated(v, size) == v % 2^size

Signed(v, size) == IF v < 2^(size - 1) THEN v ELSE v - 2^size

Bit(v, i) == (v \div 2^i) % 2

BitwiseAnd[a \in Nat, b \in Nat] ==
  IF a = 0 \/ b = 0 THEN 0 ELSE Bit(a, 0) * Bit(b, 0) + 2 * BitwiseAnd[a \div 2, b \div 2]

Truth(b) == IF b THEN 1 ELSE 0

\* The outcome of a division by zero, which is no number.
Undefined == -1

\* Division of signed numbers cuts off towards zero.
Quotient(a, b) ==
  LET Abs(n) == IF n < 0 THEN -n ELSE n
  IN  IF (a < 0) = (b < 0) THEN Abs(a) \div Abs(b) ELSE -(Abs(a) \div Abs(b))

Divisions == {"SIGNED_DIV", "SIGNED_REM", "UNSIGNED_DIV", "UNSIGNED_REM"}

\* What an operator makes of operands a and b of asize and bsize bits.
ApplyBinary(op, a, asize, b, bsize, size) ==
  LET sa == Signed(a, asize)
      sb == Signed(b, bsize)
  IN  IF op \in Divisions /\ b = 0 THEN Undefined
      ELSE
      CASE op = "ADD"           -> Truncated(a + b, size)
        [] op = "SUB"           -> Truncated(a - b, size)
        [] op = "MUL"           -> Truncated(a * b, size)
        [] op = "SIGNED_DIV"    -> Truncated(Quotient(sa, sb), size)
        [] op = "UNSIGNED_DIV"  -> Truncated(a \div b, size)
        [] op = "SIGNED_REM"    -> Truncated(sa - sb * Quotient(sa, sb), size)
        [] op = "UNSIGNED_REM"  -> Truncated(a % b, size)
        [] op = "BITWISE_AND"   -> BitwiseAnd[a, b]
        [] op = "BITWISE_OR"    -> a + b - BitwiseAnd[a, b]
        [] op = "BITWISE_XOR"   -> a + b - 2 * BitwiseAnd[a, b]
        [] op = "SHL"           -> Truncated(a * 2^b, size)
        [] op = "SHR"           -> Truncated(a \div 2^b, size)
        [] op = "SAR"           -> Truncated(sa \div 2^b, size)
        [] op = "EQUAL"         -> Truth(a = b)
        [] op = "SIGNED_LESS"   -> Truth(sa < sb)
        [] op = "UNSIGNED_LESS" -> Truth(a < b)
        [] op = "SIGNED_LESS_OR_EQUAL"   -> Truth(sa <= sb)
        [] op = "UNSIGNED_LESS_OR_EQUAL" -> Truth(a <= b)
        [] op = "SIGNED_GREATER" -> Truth(sa > sb)
        [] op = "UNSIGNED_GREATER" -> Truth(a > b)
        [] op = "SIGNED_GREATER_OR_EQUAL"   -> Truth(sa >= sb)
        [] op = "UNSIGNED_GREATER_OR_EQUAL" -> Truth(a >= b)
        [] op = "LOGICAL_AND" -> Truth(a # 0 /\ b # 0)
        [] op = "LOGICAL_OR"  -> Truth(a # 0 \/ b # 0)

ApplyUnary(op, a, asize, size) ==
  CASE op = "BITWISE_NOT" -> Truncated(-1 - a, size)
    [] op = "LOGICAL_NOT" -> Truth(a = 0)
    [] op = "NEGATION"    -> Truncated(-Signed(a, asize), size)
    [] op = "SIGN_EXTEND" -> Truncated(Signed(a, asize), size)
    [] op = "ZERO_EXTEND" -> Truncated(a, size)
    [] op = "RESIZE"      -> Truncated(a, size)

-----------------------------------------------------------------------------
\* What is known of a value.

Values ==
  [size : Nat \ {0}, constant : BOOLEAN, nonconstant : BOOLEAN, constantValue : Nat,
   offset : BOOLEAN, notOffset : BOOLEAN, stackOffset : Nat,
   product : BOOLEAN, notProduct : BOOLEAN]

NewValue(size) ==
  [size |-> size, constant |-> FALSE, nonconstant |-> size > MAX_SIZE, constantValue |-> 0,
   offset |-> FALSE, notOffset |-> size > MAX_SIZE, stackOffset |-> 0,
   product |-> FALSE, notProduct |-> size > MAX_SIZE]

IsConstant(v) == v.constant /\ ~v.nonconstant
IsNonconstant(v) == v.nonconstant
IsStackOffset(v) == v.offset /\ ~v.notOffset
IsNotStackOffset(v) == v.notOffset
IsMultiplication(v) == v.product /\ ~v.notProduct

MakeNonconstant(v) == [v EXCEPT !.nonconstant = TRUE]
MakeNotStackOffset(v) == [v EXCEPT !.notOffset = TRUE]
MakeMultiplication(v) == [v EXCEPT !.product = TRUE]
MakeNotMultiplication(v) == [v EXCEPT !.notProduct = TRUE]

MakeConstant(v, c) ==
  CASE c = Undefined -> MakeNonconstant(v)
    [] c # Undefined /\ ~v.constant ->
         [v EXCEPT !.constant = TRUE, !.constantValue = Truncated(c, v.size)]
    [] c # Undefined /\ v.constant ->
         [v EXCEPT !.nonconstant = @ \/ v.constantValue # Truncated(c, v.size)]

\* Mutant: offsets are not cut to the size of the value.
MakeStackOffsetWide(v, o) ==
  [v EXCEPT !.offset = TRUE, !.stackOffset = IF v.offset /\ @ >= o THEN @ ELSE o]

\* Of two offsets the greater one is kept, the one with less pushed.
MakeStackOffset(v, o) ==
  LET off == Truncated(o, v.size)
      grows == ~v.offset \/ Signed(v.stackOffset, v.size) < Signed(off, v.size)
  IN  [v EXCEPT !.offset = TRUE, !.stackOffset = IF grows THEN off ELSE @]

JoinConstant(v, that) ==
  CASE IsConstant(that)    -> MakeConstant(v, that.constantValue)
    [] IsNonconstant(that) -> MakeNonconstant(v)
    [] OTHER               -> v

JoinOffset(v, that) ==
  CASE IsStackOffset(that)    -> MakeStackOffset(v, that.stackOffset)
    [] IsNotStackOffset(that) -> MakeNotStackOffset(v)
    [] OTHER                  -> v

JoinMultiplication(v, that) ==
  CASE IsMultiplication(that) -> MakeMultiplication(v)
    [] that.notProduct        -> MakeNotMultiplication(v)
    [] OTHER                  -> v

\* v.join(that)
JoinValue(v, that) == JoinMultiplication(JoinOffset(JoinConstant(v, that), that), that)

-----------------------------------------------------------------------------
\* The value of an operator's term from what is known of its operands.

UnaryValue(v, op, a) ==
  MakeNotMultiplication(MakeNotStackOffset(
    CASE IsConstant(a)    -> MakeConstant(v, ApplyUnary(op, a.constantValue, a.size, v.size))
      [] IsNonconstant(a) -> MakeNonconstant(v)
      [] OTHER            -> v))

IsZero(v) == IsConstant(v) /\ v.constantValue = 0

BinaryConstant(v, op, a, b) ==
  LET zero == \/ op = "MUL" /\ (IsZero(a) \/ IsZero(b))
              \/ op \in Divisions /\ IsZero(a)
      known == IsConstant(a) /\ IsConstant(b)
      hopeless == op \in Divisions \/ IsNonconstant(a) \/ IsNonconstant(b)
  IN  CASE zero -> MakeConstant(v, 0)
        [] ~zero /\ known ->
             MakeConstant(v, ApplyBinary(op, a.constantValue, a.size,
                                         b.constantValue, b.size, v.size))
        [] ~zero /\ ~known /\ hopeless -> MakeNonconstant(v)
        [] OTHER -> v

\* One half of ADD: a constant on one side, the other side an offset.
AddOffset(v, const, other) ==
  CASE IsConstant(const) /\ IsStackOffset(other) ->
         MakeStackOffset(v, Signed(const.constantValue, const.size)
                              + Signed(other.stackOffset, other.size))
    [] IsConstant(const) /\ IsNotStackOffset(other) -> MakeNotStackOffset(v)
    [] IsNonconstant(const) -> MakeNotStackOffset(v)
    [] OTHER -> v

\* Mutant: what is subtracted is added.
SubOffsetAdds(v, a, b) == AddOffset(v, b, a)

SubOffset(v, a, b) ==
  CASE IsStackOffset(a) /\ IsConstant(b) ->
         MakeStackOffset(v, Signed(a.stackOffset, a.size) - Signed(b.constantValue, b.size))
    [] ~(IsStackOffset(a) /\ IsConstant(b)) /\ (IsNotStackOffset(a) \/ IsNonconstant(b)) ->
         MakeNotStackOffset(v)
    [] OTHER -> v

\* Sometimes used for getting aligned stack pointer values.
AndOffset(v, a, b) ==
  CASE IsStackOffset(a) /\ IsConstant(b) ->
         MakeStackOffset(v, BitwiseAnd[a.stackOffset, b.constantValue])
    [] IsStackOffset(b) /\ IsConstant(a) ->
         MakeStackOffset(v, BitwiseAnd[b.stackOffset, a.constantValue])
    [] OTHER ->
         IF \E x \in {a, b} : IsNonconstant(x) /\ IsNotStackOffset(x)
           THEN MakeNotStackOffset(v) ELSE v

BinaryOffset(v, op, a, b) ==
  CASE op = "ADD"         -> AddOffset(AddOffset(v, a, b), b, a)
    [] op = "SUB"         -> SubOffset(v, a, b)
    [] op = "BITWISE_AND" -> AndOffset(v, a, b)
    [] OTHER              -> MakeNotStackOffset(v)

BinaryValue(v, op, a, b) ==
  LET w == BinaryOffset(BinaryConstant(v, op, a, b), op, a, b)
  IN  IF op \in {"MUL", "SHL"} THEN MakeMultiplication(w) ELSE MakeNotMultiplication(w)
=============================================================================
