---------------------------- MODULE MCTypedCode ----------------------------
(***************************************************************************)
(* Instances of TypedCode: functions that make their expressions of words  *)
(* and bytes, numbers and pointers.  A byte has CHAR_BIT bits, a word as   *)
(* many as an address, and int has as many.                                *)
(***************************************************************************)
EXTENDS TypedCode, MCAnalyzedCode

b == Reg(4 * AddressBits + 2, CHAR_BIT)
c == Reg(4 * AddressBits + 2 + CHAR_BIT, CHAR_BIT)

LoadByte(l, m, o) ==
  <<Get(m), Num(o, AddressBits), Bin("ADD", 2, 1, AddressBits), [Load(1) EXCEPT !.size = CHAR_BIT], Put(l, 1)>>

Straight(locs, statements) == Code(Entering(locs), <<statements>>, {})

-----------------------------------------------------------------------------
\* What tells the types of x and y, and what is done with them.

Hints ==
  {Both(flag, "SIGNED_LESS", x, y), Both(flag, "UNSIGNED_LESS", x, y), Both(flag, "EQUAL", x, y)}

Operations(l, m, n) ==
  {Both(l, op, m, n) : op \in {"ADD", "SUB", "MUL", "BITWISE_AND", "BITWISE_OR", "BITWISE_XOR"}}
    \cup {Binary(l, op, m, 3) : op \in {"SIGNED_DIV", "UNSIGNED_DIV", "SIGNED_REM", "UNSIGNED_REM"}}
    \cup {Binary(l, op, m, 1) : op \in {"SHL", "SHR", "SAR"}}
    \cup {Unary(l, op, m) : op \in {"BITWISE_NOT", "NEGATION"}}

\* What is done with the result of an operation.
Uses(l, m, n) ==
  {Both(l, op, m, n) : op \in {"ADD", "MUL", "BITWISE_AND"}}
    \cup {Binary(l, op, m, 3) : op \in {"SIGNED_DIV", "UNSIGNED_REM"}}
    \cup {Binary(l, op, m, 1) : op \in {"SHR", "SAR"}} \cup {Unary(l, "NEGATION", m)}

WordCodes ==
  {Straight(<<x, y>>, <<hint, s, t, Test(flag)>>) :
     hint \in Hints, s \in Operations(z, x, y), t \in Uses(out, z, x)}

ConstantCodes ==
  {Straight(<<x, y>>, <<Binary(flag, op, x, k) \o s, Move(out, x), Test(flag)>>) :
     op \in {"SIGNED_LESS", "UNSIGNED_LESS", "EQUAL", "SIGNED_LESS_OR_EQUAL", "UNSIGNED_LESS_OR_EQUAL"},
     k \in 0 .. 2^AddressBits - 1,
     s \in {<<>>, Both(less, "SIGNED_LESS", x, y), Unary(flag, "LOGICAL_NOT", flag)}}

ByteCodes ==
  {Straight(<<b, c, y>>, <<s, t, u, Both(flag, op, b, c), Move(out, x), Test(flag)>>) :
     s \in {Both(b, "ADD", b, c), Both(b, "SUB", b, c), LoadByte(b, y, 0)},
     t \in {Unary(x, "ZERO_EXTEND", b), Unary(x, "SIGN_EXTEND", b), Binary(x, "SHR", y, 1)},
     u \in {Unary(c, "RESIZE", x), Unary(c, "NEGATION", b), Unary(c, "BITWISE_NOT", c)},
     op \in {"EQUAL", "SIGNED_LESS", "UNSIGNED_LESS"}}

ByteInto(l, m, o) == LoadByte(b, m, o) \o Unary(l, "ZERO_EXTEND", b)

Accesses ==
  {LoadFrom(x, y, 0), LoadFrom(x, y, 2), ByteInto(x, y, 2), ByteInto(x, y, 1), StoreTo(y, 2, x),
   Binary(y, "ADD", y, 2), Binary(y, "SUB", y, 2), LoadFrom(y, y, 0), LoadFrom(y, y, 2), Set(y, 6),
   LoadFrom(z, x, 2), Binary(z, "ADD", y, 2) \o Move(out, z),
   Binary(z, "MUL", x, 2) \o Both(y, "ADD", y, z) \o LoadFrom(x, y, 0)}

PointerLoops ==
  {Code(Entering(<<x, y>>), <<<<Move(z, y)>>, <<t, u, v, Test(x)>>, <<Move(out, x)>>>>, Loop) :
     t \in Accesses, u \in Accesses, v \in {Binary(x, "ADD", x, 1), Both(flag, "UNSIGNED_LESS", y, x)}}

MCTypedCodes == WordCodes \cup ConstantCodes \cup ByteCodes \cup PointerLoops

MCNumbers == {0, 1, 2, 5, 8, 11, 15}
MCContents == {[a \in Addresses |-> (a * 3 + 1) % 2^CHAR_BIT]}
=============================================================================
