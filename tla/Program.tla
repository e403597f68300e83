------------------------------- MODULE Program -------------------------------
(***************************************************************************)
(* nc::core::ir::Program and ir::BasicBlock: the basic blocks of a program *)
(* and the map from ranges of addresses to the blocks that occupy them     *)
(* (nc/core/ir/Program.cpp, BasicBlock.cpp, nc/common/RangeClass.h).       *)
(*                                                                         *)
(* A program is a record; a block is named by its index in basicBlocks_.   *)
(* start2basicBlock_ is not kept: takeOwnership fills it with every block  *)
(* that has an address, a block's address never changes and no block is    *)
(* ever removed.  A statement is the kind of thing it is, the instruction  *)
(* it comes from, the addresses its jump or call goes to, whether they     *)
(* have been connected to blocks, and the blocks it is connected to.       *)
(***************************************************************************)
EXTENDS Integers, Sequences, FiniteSets

None == -1      \* boost::none, for an address and for a statement's instruction

NewBlock(address) == [address |-> address, successor |-> address, statements |-> <<>>]

EmptyProgram == [blocks |-> <<>>, ranges |-> {}, called |-> {}]

BlocksOf(p) == DOMAIN p.blocks
Bound(p, b) == p.blocks[b].address # None

-----------------------------------------------------------------------------
\* Range.h: a range is left of another one.  The order is partial; the map takes
\* ranges none of which is left of the other for the same key.
Left(r, s) == r[2] <= s[1] /\ r # s
SameKey(r, s) == ~Left(r, s) /\ ~Left(s, r)

Matching(ranges, r) == {e \in ranges : SameKey(e.range, r)}

\* What std::map::lower_bound stops at among them.
Leftmost(es) == CHOOSE e \in es : \A f \in es : e = f \/ Left(e.range, f.range)

RangeOfBlock(p, b) == <<p.blocks[b].address, p.blocks[b].successor>>

\* range2basicBlock_[range] = basicBlock: a matching key keeps its range.
AddRangeBlindly(p, b) ==
    [p EXCEPT !.ranges = @ \cup {[range |-> RangeOfBlock(p, b), block |-> b]}]

AddRange(p, b) ==
    LET r == RangeOfBlock(p, b)
        es == Matching(p.ranges, r)
    IN  [p EXCEPT !.ranges =
            IF es = {} THEN @ \cup {[range |-> r, block |-> b]}
            ELSE (@ \ {Leftmost(es)}) \cup {[Leftmost(es) EXCEPT !.block = b]}]

\* range2basicBlock_.erase(range)
RemoveRange(p, b) == [p EXCEPT !.ranges = @ \ Matching(@, RangeOfBlock(p, b))]

-----------------------------------------------------------------------------
StartingAt(p, a) == {b \in BlocksOf(p) : p.blocks[b].address = a /\ a # None}

Covering(p, a) ==
    LET es == Matching(p.ranges, <<a, a + 1>>)
    IN  IF es = {} THEN {} ELSE {Leftmost(es).block}

The(S) == CHOOSE x \in S : TRUE

AddBlock(p, address) == [p EXCEPT !.blocks = Append(@, NewBlock(address))]
LastBlock(p) == Len(p.blocks)

\* BasicBlock::split before the first statement of an instruction at "a" or after it.
SplitAfter(p, b, a) ==
    LET block == p.blocks[b]
        moved == {i \in DOMAIN block.statements :
                    \E j \in 1..i : block.statements[j].instruction > a}
        kept  == Len(block.statements) - Cardinality(moved)
    IN  [p EXCEPT !.blocks = Append(
            [@ EXCEPT ![b].successor = a, ![b].statements = SubSeq(block.statements, 1, kept)],
            [address |-> a, successor |-> block.successor,
             statements |-> SubSeq(block.statements, kept + 1, Len(block.statements))])]

SplitCopies(p, b, a) ==
    LET block == p.blocks[b]
        moved == {i \in DOMAIN block.statements :
                    \E j \in 1..i : block.statements[j].instruction >= a}
        kept  == Len(block.statements) - Cardinality(moved)
    IN  [p EXCEPT !.blocks = Append(
            [@ EXCEPT ![b].successor = a],
            [address |-> a, successor |-> block.successor,
             statements |-> SubSeq(block.statements, kept + 1, Len(block.statements))])]

Split(p, b, a) ==
    LET block == p.blocks[b]
        moved == {i \in DOMAIN block.statements :
                    \E j \in 1..i : block.statements[j].instruction >= a}
        kept  == Len(block.statements) - Cardinality(moved)
    IN  [p EXCEPT !.blocks = Append(
            [@ EXCEPT ![b].successor = a, ![b].statements = SubSeq(block.statements, 1, kept)],
            [address |-> a, successor |-> block.successor,
             statements |-> SubSeq(block.statements, kept + 1, Len(block.statements))])]

\* createBasicBlock(address): afterwards a block starts at "a".
CreateBasicBlockKeepsRange(p, a) ==
    IF StartingAt(p, a) # {} THEN p
    ELSE IF Covering(p, a) # {}
    THEN LET b == The(Covering(p, a))
             q == Split(p, b, a)
         IN  AddRange(AddRange(q, b), LastBlock(q))
    ELSE LET q == AddBlock(p, a) IN AddRange(q, LastBlock(q))

CreateBasicBlock(p, a) ==
    IF StartingAt(p, a) # {} THEN p
    ELSE IF Covering(p, a) # {}
    THEN LET b == The(Covering(p, a))
             q == Split(RemoveRange(p, b), b, a)
         IN  AddRange(AddRange(q, b), LastBlock(q))
    ELSE LET q == AddBlock(p, a) IN AddRange(q, LastBlock(q))

\* The block that getBasicBlockForInstruction finds or creates: one that starts at the
\* instruction, or else the one that covers the byte before it ...
BlockForInstruction(p, i) ==
    IF StartingAt(p, i.address) # {} THEN The(StartingAt(p, i.address))
    ELSE IF Covering(p, i.address - 1) # {} THEN The(Covering(p, i.address - 1))
    ELSE LastBlock(p) + 1

\* ... which then ends where the instruction ends.
ExtendForInstruction(p, i) ==
    LET b == BlockForInstruction(p, i)
        q == IF b \in BlocksOf(p) THEN p ELSE CreateBasicBlock(p, i.address)
    IN  AddRange([RemoveRange(q, b) EXCEPT !.blocks[b].successor = i.address + i.size], b)

AddStatement(p, b, s) == [p EXCEPT !.blocks[b].statements = Append(@, s)]
-----------------------------------------------------------------------------
\* BasicBlock::getTerminator: a jump or a return in the last place.
Terminators == {"jump", "return"}
HasTerminator(block) ==
    /\ block.statements # <<>>
    /\ block.statements[Len(block.statements)].kind \in Terminators

\* CFG: the blocks that the last statement of a block, if a jump, leads to.
Successors(p, b) ==
    LET ss == p.blocks[b].statements
    IN  IF ss # <<>> /\ ss[Len(ss)].kind = "jump" THEN ss[Len(ss)].blocks ELSE {}

Predecessors(p, b) == {c \in BlocksOf(p) : b \in Successors(p, c)}
=============================================================================
