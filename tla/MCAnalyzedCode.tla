--------------------------- MODULE MCAnalyzedCode ---------------------------
(***************************************************************************)
(* Instances of AnalyzedCode: all functions of a few shapes, made of a few *)
(* kinds of statements.  Words, and bytes, have AddressBits bits.          *)
(***************************************************************************)
EXTENDS AnalyzedCode, SequencesExt

-----------------------------------------------------------------------------
\* Terms, and the statements made of them.

Plain == [kind |-> "", access |-> "read", size |-> AddressBits, loc |-> Nowhere,
          operands |-> <<>>, assignee |-> 0, origin |-> "statement", op |-> "", value |-> 0]

Reg(i, n) == [domain |-> "REGISTER", addr |-> i, size |-> n]
x == Reg(0, AddressBits)
low == Reg(0, 1)   \* a part of x
y == Reg(AddressBits, AddressBits)
z == Reg(2 * AddressBits, AddressBits)
sp == Reg(3 * AddressBits, AddressBits)
flag == Reg(4 * AddressBits, 1)
less == Reg(4 * AddressBits + 1, 1)
out == AtAddress(0, AddressBits)

Get(l) == [Plain EXCEPT !.kind = "access", !.loc = l, !.size = l.size]
Put(l, k) == [Get(l) EXCEPT !.access = "write", !.assignee = k]
Num(c, n) == [Plain EXCEPT !.kind = "const", !.value = c, !.size = n]
Bin(op, i, j, n) == [Plain EXCEPT !.kind = "binary", !.op = op, !.operands = <<i, j>>, !.size = n]
Un(op, i, n) == [Plain EXCEPT !.kind = "unary", !.op = op, !.operands = <<i>>, !.size = n]
Load(k) == [Plain EXCEPT !.kind = "dereference", !.operands = <<k>>]
Store(k, a) == [Load(k) EXCEPT !.access = "write", !.assignee = a]

Set(l, c) == <<Num(c, l.size), Put(l, 1)>>
Move(l, m) == <<Get(m), Put(l, 1)>>
Unary(l, op, m) == <<Get(m), Un(op, 1, l.size), Put(l, 1)>>
Binary(l, op, m, c) == <<Get(m), Num(c, m.size), Bin(op, 2, 1, l.size), Put(l, 1)>>
Both(l, op, m, n) == <<Get(m), Get(n), Bin(op, 2, 1, l.size), Put(l, 1)>>
LoadFrom(l, m, c) == <<Get(m), Num(c, AddressBits), Bin("ADD", 2, 1, AddressBits), Load(1), Put(l, 1)>>
StoreTo(m, c, l) ==
  <<Get(l), Get(m), Num(c, AddressBits), Bin("ADD", 2, 1, AddressBits), Store(1, 4)>>
Kill(l) == <<[Get(l) EXCEPT !.access = "kill"]>>
Test(l) == <<[Get(l) EXCEPT !.origin = "condition"]>>
TestChoice(l, m) ==
  <<Get(l), Get(m), [Plain EXCEPT !.kind = "choice", !.operands = <<2, 1>>, !.size = 1,
                                  !.origin = "condition"]>>

-----------------------------------------------------------------------------
\* Functions.

Entering(locs) ==
  <<[Put(sp, 0) EXCEPT !.origin = "stackPointer"]>> \o
  [i \in DOMAIN locs |-> [Put(locs[i], 0) EXCEPT !.origin = "argument"]]

\* A function of blocks that are sequences of statements.
Code(entry, blocks, edges) ==
  LET terms == [b \in DOMAIN blocks |->
                  IF b = 1 THEN entry \o FlattenSeq(blocks[b]) ELSE FlattenSeq(blocks[b])]
      upto == [b \in DOMAIN blocks |-> Len(FlattenSeq(SubSeq(terms, 1, b)))]
  IN  [terms |-> FlattenSeq(terms), edges |-> edges,
       blocks |-> [b \in DOMAIN blocks |->
                     [first |-> IF b = 1 THEN 1 ELSE upto[b - 1] + 1, last |-> upto[b]]]]

Loop == {<<1, 2>>, <<2, 2>>, <<2, 3>>}
Branch == {<<1, 2>>, <<1, 3>>, <<2, 4>>, <<3, 4>>}
TwoWays == {<<1, 2>>, <<1, 3>>, <<2, 3>>}

Registers == {Set(x, 1), Move(x, y), Move(y, x), Binary(x, "ADD", x, 1), Binary(x, "ADD", y, 1),
              Move(z, x), Move(y, z)}

LoopCodes ==
  {Code(Entering(<<x, y>>), <<<<s, Set(y, 1)>>, <<t, u, v, Test(y)>>, <<Move(out, x)>>>>, Loop) :
     s \in {Set(x, 1), Move(x, y), Move(z, x)}, t \in Registers, u \in Registers, v \in Registers}

Parts == {Set(x, 2), Set(low, 1), Move(y, x), Move(x, y), Binary(x, "BITWISE_AND", x, 2),
          Unary(x, "ZERO_EXTEND", low), Both(y, "MUL", x, y), Binary(y, "UNSIGNED_DIV", y, 2)}

BranchCodes ==
  {Code(Entering(<<x, y>>), <<<<s, Test(y)>>, <<t>>, <<u, v>>, <<Move(out, x), Move(out, y)>>>>, Branch) :
     s \in Parts, t \in Parts, u \in Parts, v \in {Unary(x, "ZERO_EXTEND", low), Both(y, "MUL", x, y)}}

\* A comparison sets a flag and remembers, in a register that stands for
\* no hardware, what the flag means; whatever else sets the flag forgets it.
Comparisons == {Both(flag, "SIGNED_LESS", x, y) \o Both(less, "SIGNED_LESS", x, y),
          Both(flag, "UNSIGNED_LESS", x, y) \o Both(less, "UNSIGNED_LESS", x, y),
          Set(flag, 1) \o Kill(less), Unary(flag, "LOGICAL_NOT", flag) \o Kill(less),
          Binary(x, "SUB", x, 1) \o Both(flag, "EQUAL", x, y) \o Kill(less), Move(x, y)}

FlagCodes ==
  {Code(Entering(<<x, y>>), <<<<s, t, Test(x)>>, <<u, v>>, <<TestChoice(less, flag)>>>>, TwoWays) :
     s \in Comparisons, t \in Comparisons, u \in Comparisons, v \in {Set(flag, 1) \o Kill(less), Move(x, y)}}

\* The stack pointer is aligned to n bytes.
Align(n) == Binary(sp, "BITWISE_AND", sp, 2^AddressBits - n)

Frame == {Binary(sp, "SUB", sp, 1), Binary(sp, "ADD", sp, 1), StoreTo(sp, 0, x), LoadFrom(y, sp, 0),
          LoadFrom(x, sp, 1), Move(z, sp), StoreTo(z, 0, y), Align(2), Align(4)}

FrameCodes ==
  {Code(Entering(<<x, [domain |-> "STACK", addr |-> AddressBits, size |-> AddressBits]>>),
        <<<<Binary(sp, "SUB", sp, 1), s>>, <<t, u, v, Test(y)>>, <<Move(out, x)>>>>, Loop) :
     s \in {StoreTo(sp, 0, x), Align(2)}, t \in Frame, u \in Frame, v \in Frame}

Pointers == {StoreTo(y, 0, x), LoadFrom(x, y, 0), Set(out, 1), Binary(y, "ADD", y, 1),
             Move(x, out), Move(z, x)}

PointerCodes ==
  {Code(Entering(<<x, y>>), <<<<s, Test(x)>>, <<t, u, v, Test(x)>>, <<Move(out, z)>>>>, Loop) :
     s \in {StoreTo(y, 0, x), Move(z, x)}, t \in Pointers, u \in Pointers, v \in Pointers}

\* The first block is a loop.
ReenteredCodes ==
  {Code(Entering(<<x, y>>), <<<<s, t, Test(y)>>, <<Move(out, x)>>>>, {<<1, 1>>, <<1, 2>>}) :
     s \in {Move(x, y), Move(z, sp), Binary(x, "ADD", x, 1)},
     t \in {Move(y, x), Binary(sp, "SUB", sp, 1), StoreTo(sp, 0, x), Move(y, z)}}

\* One way through a loop writes to the top of the frame, the other, which is simulated
\* after the block they meet in, through z, which is moved once.
RotatingCodes ==
  {Code(Entering(<<x, y>>),
        <<<<Move(z, sp)>>, <<Test(y)>>, <<t>>, <<Binary(z, "ADD", sp, c), Test(x)>>,
          <<u, Move(out, x)>>, <<StoreTo(z, 0, y)>>>>,
        {<<1, 2>>, <<2, 3>>, <<2, 6>>, <<3, 4>>, <<6, 4>>, <<4, 2>>, <<4, 5>>}) :
     c \in 0 .. 1, t \in {StoreTo(sp, 0, x), StoreTo(sp, 1, x), Move(y, x)},
     u \in {Move(x, y), LoadFrom(x, sp, 0), LoadFrom(x, z, 0)}}

MCCodes ==
  LoopCodes \cup BranchCodes \cup FlagCodes \cup FrameCodes \cup PointerCodes \cup
  ReenteredCodes \cup RotatingCodes

\* A loop that moves the stack pointer, writes there, and reads what is at a fixed place.
PoppingCodes ==
  {Code(Entering(<<x, y>>),
        <<<<Move(z, sp)>>, <<Binary(sp, "ADD", sp, 1), StoreTo(sp, 0, x), LoadFrom(x, z, c), Test(y)>>,
          <<Move(out, x)>>>>, Loop) : c \in 0 .. 3}

MCRegisters ==
  {[i \in 0 .. RegisterBits - 1 |-> IF i \in {0, AddressBits + 1, 2 * AddressBits, 2 * AddressBits + 1}
                                      THEN 1 ELSE 0]}
=============================================================================
