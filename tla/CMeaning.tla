------------------------------ MODULE CMeaning ------------------------------
(***************************************************************************)
(* What a C compiler makes of the expressions of the generated code, as    *)
(* they are printed.  A value is a number with its type: signed numbers    *)
(* may be negative, those of one bit are 0 and 1 whatever their sign.      *)
(* Signed arithmetic wraps, the members of structures are not aligned, and *)
(* the least byte of a number comes first in memory.                       *)
(*                                                                         *)
(* The environment env has the variables (store), the memory (machine) and *)
(* the members of the structures (structs).  A variable is named by what   *)
(* it is, and by its location if it is global, a number if it is local.    *)
(***************************************************************************)
EXTENDS LikeCExpression, IntermediateCode

CONSTANT PrintedLimit   \* the greatest number that is printed in decimal

-----------------------------------------------------------------------------
\* Conversions.

Conv(v, type) ==
  IF IsInteger(type) /\ ~type.unsigned /\ type.size > 1
    THEN Signed(Truncated(v, type.size), type.size) ELSE Truncated(v, type.size)

Converted(c, type) == [type |-> type, v |-> Conv(c.v, type)]

\* An int holds every number of a narrower type, be it signed or not.
Promoted(c) == IF IsInteger(c.type) /\ c.type.size < IntSize THEN Converted(c, IntType) ELSE c

CommonType(l, r) ==
  CASE l.size > r.size -> l
    [] l.size < r.size -> r
    [] l.size = r.size -> IntegerType(l.size, l.unsigned \/ r.unsigned)

\* The type of a literal, and its value: all but small numbers are printed
\* in hexadecimal, without a sign.
Literal(e) ==
  LET v == IF e.size > 1 THEN Signed(e.value, e.size) ELSE e.value
      isDecimal == v \in 0 .. PrintedLimit \/ (v \in -PrintedLimit .. -1 /\ ~e.type.unsigned)
      fits == e.value < 2^(IntSize - 1)
  IN  CASE isDecimal -> [type |-> IntType, v |-> v]
        [] ~isDecimal -> [type |-> IntegerType(IntSize, ~fits), v |-> e.value]

-----------------------------------------------------------------------------
\* Operators.

IsArithmetic(c) == IsInteger(c.type)

\* A type has a whole number of bytes, and a pointer to void counts bytes.
PointeeBytes(structs, type) ==
  IF IsVoidPointer(type) THEN 1 ELSE PointeeSize(structs, type) \div CHAR_BIT

Compared(op, l, r) ==
  CASE op = "EQ" -> l = r
    [] op = "NEQ" -> l # r
    [] op = "LT" -> l < r
    [] op = "LEQ" -> l <= r
    [] op = "GT" -> l > r
    [] op = "GEQ" -> l >= r

Comparison(op, l, r) ==
  LET type == IF IsArithmetic(l) /\ IsArithmetic(r)
                THEN CommonType(Promoted(l).type, Promoted(r).type)
                ELSE IntegerType(PointerSize, TRUE)
  IN  [type |-> IntType, v |-> Truth(Compared(op, Conv(l.v, type), Conv(r.v, type)))]

\* l and r have this type.
Computed(op, l, r, type) ==
  LET both == BitwiseAnd[Truncated(l, type.size), Truncated(r, type.size)]
  IN  CASE op = "ADD" -> l + r
        [] op = "SUB" -> l - r
        [] op = "MUL" -> l * r
        [] op = "DIV" -> Quotient(l, r)
        [] op = "REM" -> l - r * Quotient(l, r)
        [] op = "BITWISE_AND" -> both
        [] op = "BITWISE_OR" -> l + r - both
        [] op = "BITWISE_XOR" -> l + r - 2 * both

Arithmetic(op, l, r) ==
  LET type == CommonType(Promoted(l).type, Promoted(r).type)
  IN  [type |-> type, v |-> Conv(Computed(op, Conv(l.v, type), Conv(r.v, type), type), type)]

Shifted(op, l, r) ==
  LET type == Promoted(l).type
  IN  [type |-> type, v |-> Conv(IF op = "SHL" THEN l.v * 2^r.v ELSE l.v \div 2^r.v, type)]

Moved(structs, op, pointer, steps) ==
  LET bytes == steps.v * PointeeBytes(structs, pointer.type)
  IN  [pointer EXCEPT !.v = Conv(IF op = "ADD" THEN @ + bytes ELSE @ - bytes, pointer.type)]

BinaryMeaning(structs, op, l, r) ==
  CASE op \in Equalities \cup Orders -> Comparison(op, l, r)
    [] op \in {"SHL", "SHR"} -> Shifted(op, l, r)
    [] op \in Additive /\ ~IsArithmetic(l) -> Moved(structs, op, l, r)
    [] op = "ADD" /\ IsArithmetic(l) /\ ~IsArithmetic(r) -> Moved(structs, op, r, l)
    [] OTHER -> Arithmetic(op, l, r)

UnaryMeaning(op, c) ==
  LET p == Promoted(c)
  IN  CASE op = "BITWISE_NOT" -> [p EXCEPT !.v = Conv(-1 - @, p.type)]
        [] op = "LOGICAL_NOT" -> [type |-> IntType, v |-> Truth(c.v = 0)]
        [] op = "NEGATION" -> [p EXCEPT !.v = Conv(-@, p.type)]

-----------------------------------------------------------------------------
\* Expressions.

RECURSIVE Meaning(_, _), Place(_, _)

\* What an expression refers to: a local variable or a place in memory.
Place(env, e) ==
  CASE e.kind = "variable" /\ e.name[1] = "local" -> [kind |-> "local", name |-> e.name[2]]
    [] e.kind = "variable" /\ e.name[1] = "global" -> [kind |-> "memory", address |-> ByteOf(e.name[2])]
    [] e.kind = "member" -> [kind |-> "memory",
                             address |-> Truncated(Meaning(env, e.compound).v
                                                     + e.member.offset \div CHAR_BIT, AddressBits)]
    [] IsUnary(e, "DEREFERENCE") ->
         [kind |-> "memory", address |-> Truncated(Meaning(env, e.operand).v, AddressBits)]

\* The type of the object an expression refers to.
PlaceType(env, e) == IF IsUnary(e, "DEREFERENCE") THEN Meaning(env, e.operand).type.pointee ELSE TypeOf(e)

Loaded(env, place, type) ==
  LET bits == IF place.kind = "local" THEN env.store[place.name]
              ELSE Read(env.machine, AtAddress(place.address, type.size))
  IN  [type |-> type, v |-> Conv(bits, type)]

Meaning(env, e) ==
  CASE e.kind = "constant" -> Literal(e)
    [] e.kind = "typecast" -> Converted(Meaning(env, e.operand), e.type)
    [] e.kind = "binary" ->
         BinaryMeaning(env.structs, e.op, Meaning(env, e.left), Meaning(env, e.right))
    [] IsUnary(e, "REFERENCE") ->
         [type |-> PointerType(PointerSize, PlaceType(env, e.operand)), v |-> Place(env, e.operand).address]
    [] e.kind = "unary" /\ e.op \in {"BITWISE_NOT", "LOGICAL_NOT", "NEGATION"} ->
         UnaryMeaning(e.op, Meaning(env, e.operand))
    [] e.kind \in {"variable", "member"} \/ IsUnary(e, "DEREFERENCE") ->
         Loaded(env, Place(env, e), PlaceType(env, e))

\* What an expression statement puts where: the bits, and how many.
Stored(place, c) == [place |-> place, size |-> c.type.size, bits |-> Truncated(c.v, c.type.size)]

Effect(env, e) ==
  LET target == IF e.kind = "binary" THEN e.left ELSE e.operand
      type == PlaceType(env, target)
      one == [type |-> IntType, v |-> 1]
      step == IF e.kind = "unary" /\ e.op = "PREFIX_INCREMENT" THEN "ADD" ELSE "SUB"
      value == IF e.kind = "binary" THEN Meaning(env, e.right)
               ELSE BinaryMeaning(env.structs, step, Meaning(env, target), one)
  IN  Stored(Place(env, target), Converted(value, type))
=============================================================================
