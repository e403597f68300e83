--------------------------- MODULE Program_proofs ---------------------------
(***************************************************************************)
(* What the operations of ir::Program do to the map from ranges of         *)
(* addresses to blocks: its keys stay comparable, whatever overlaps, and   *)
(* as long as nothing overlaps it says where the blocks are.               *)
(***************************************************************************)
EXTENDS Program, WellFoundedInduction, FunctionTheorems, FiniteSetTheorems, SequenceTheorems, TLAPS

-----------------------------------------------------------------------------
(* Numbers. *)

\* The order of the natural numbers is well-founded, as a set of pairs.
LEMMA WellFoundedNat == IsWellFoundedOn({x \in Nat \X Nat : x[1] < x[2]}, Nat)
BY NatLessThanWellFounded DEF OpToRel

\* Every nonempty subset of a well-founded order has a minimal member.
LEMMA WellFoundedMin ==
    ASSUME NEW R, NEW S, IsWellFoundedOn(R, S)
    PROVE  \A T \in SUBSET S : T # {} => \E x \in T : \A y \in T : <<y, x>> \notin R
BY WFMin

\* A nonempty set of natural numbers has a least one: what induction is done with here.
LEMMA Least == ASSUME NEW T \in SUBSET Nat, T # {} PROVE \E m \in T : \A n \in T : m <= n
<1> DEFINE R == {x \in Nat \X Nat : x[1] < x[2]}
<1>1. \A x, y \in Nat : y < x => <<y, x>> \in R
  OBVIOUS
<1>2. IsWellFoundedOn(R, Nat)
  BY WellFoundedNat
<1> HIDE DEF R
<1>3. PICK m \in T : \A y \in T : <<y, m>> \notin R
  BY <1>2, WellFoundedMin
<1>4. \A y \in T : ~(y < m)
  BY <1>1, <1>3
<1> QED BY <1>3, <1>4
-----------------------------------------------------------------------------
(* Ranges. *)

Entries == [range : Nat \X Nat, block : Nat]
Forward(r) == r[1] <= r[2]
Ordered(es) == \A e, f \in es : e # f => Left(e.range, f.range) \/ Left(f.range, e.range)

\* Which ranges the map takes for the same key: equal ones, and those that overlap.
LEMMA SameKeys ==
    ASSUME NEW r \in Int \X Int, NEW s \in Int \X Int, Forward(r), Forward(s)
    PROVE  SameKey(r, s) <=> r = s \/ (s[1] < r[2] /\ r[1] < s[2])
<1>1. r = s \/ r # s
  OBVIOUS
<1>2. r # s /\ r[2] <= s[1] /\ s[2] <= r[1] => FALSE
  <2>1. r = <<r[1], r[2]>> /\ s = <<s[1], s[2]>> /\ r[1] \in Int /\ r[2] \in Int /\ s[1] \in Int /\ s[2] \in Int
    OBVIOUS
  <2> QED BY <2>1 DEF Forward
<1> QED BY <1>1, <1>2 DEF SameKey, Left

\* Among entries in order one is leftmost: std::map::lower_bound finds it.
LEMMA LeftmostIsOne ==
    ASSUME NEW es \in SUBSET Entries, es # {}, Ordered(es), \A e \in es : Forward(e.range)
    PROVE  Leftmost(es) \in es
<1> DEFINE starts == {e.range[1] : e \in es}
<1>1. starts \in SUBSET Nat /\ starts # {}
  BY DEF Entries
<1>2. PICK x \in starts : \A y \in starts : x <= y
  BY <1>1, Least
<1>3. \E e \in es : \A f \in es : e = f \/ Left(e.range, f.range)
  <2>1. CASE \E e \in es : e.range[1] = x /\ e.range[2] = x
    <3>1. PICK e \in es : e.range[1] = x /\ e.range[2] = x
      BY <2>1
    <3>2. ASSUME NEW f \in es, e # f PROVE Left(e.range, f.range)
      <4>1. Left(e.range, f.range) \/ Left(f.range, e.range)
        BY <3>2 DEF Ordered
      <4>2. x <= f.range[1] /\ f.range[1] <= f.range[2] /\ f.range \in Nat \X Nat /\ e.range \in Nat \X Nat
        BY <1>2 DEF Forward, Entries
      <4> QED BY <3>1, <4>1, <4>2 DEF Left
    <3> QED BY <3>1, <3>2
  <2>2. CASE ~\E e \in es : e.range[1] = x /\ e.range[2] = x
    <3>1. PICK e \in es : e.range[1] = x
      BY <1>2
    <3>2. ASSUME NEW f \in es, e # f PROVE Left(e.range, f.range)
      <4>1. Left(e.range, f.range) \/ Left(f.range, e.range)
        BY <3>2 DEF Ordered
      <4>2. x <= f.range[1] /\ f.range[1] <= f.range[2] /\ f.range \in Nat \X Nat /\ e.range \in Nat \X Nat
        BY <1>2 DEF Forward, Entries
      <4>3. ~(f.range[1] = x /\ f.range[2] = x)
        BY <2>2
      <4>4. x \in Nat
        BY <1>1
      <4> QED BY <3>1, <4>1, <4>2, <4>3, <4>4 DEF Left
    <3> QED BY <3>1, <3>2
  <2> QED BY <2>1, <2>2
<1> QED BY <1>3 DEF Leftmost
-----------------------------------------------------------------------------
(* Programs. *)

Blocks(S) == [address : Nat \cup {None}, successor : Nat \cup {None}, statements : Seq(S)]
Programs(S) == [blocks : Seq(Blocks(S)), ranges : SUBSET Entries, called : SUBSET Nat]

\* A key that leads to a block lies in the block's range, and the two are the same key:
\* removing the block removes its keys.
Fits(p, e) ==
    /\ e.block \in BlocksOf(p) /\ Bound(p, e.block)
    /\ p.blocks[e.block].address <= e.range[1] /\ Forward(e.range)
    /\ e.range[2] <= p.blocks[e.block].successor
    /\ SameKey(e.range, RangeOfBlock(p, e.block))

\* What holds of the blocks and the map of every program, overlapping or not.
Located(p) ==
    \A b \in BlocksOf(p) : Bound(p, b) =>
        /\ p.blocks[b].address \in Nat /\ p.blocks[b].successor \in Nat
        /\ p.blocks[b].address <= p.blocks[b].successor
        /\ \A c \in BlocksOf(p) : p.blocks[c].address = p.blocks[b].address => c = b

Mapped(p) == Located(p) /\ Ordered(p.ranges) /\ \A e \in p.ranges : Fits(p, e)

\* What holds besides when nothing overlaps.
EntryOf(p, b) == [range |-> RangeOfBlock(p, b), block |-> b]
Exact(p) == p.ranges = {EntryOf(p, b) : b \in {c \in BlocksOf(p) : Bound(p, c)}}

\* What the type of a program says of each of its blocks.
LEMMA ProgramParts ==
    ASSUME NEW S, NEW p \in Programs(S)
    PROVE  /\ p.blocks \in Seq(Blocks(S)) /\ p.ranges \in SUBSET Entries /\ p.called \in SUBSET Nat
           /\ BlocksOf(p) = 1..Len(p.blocks) /\ Len(p.blocks) \in Nat
           /\ \A b \in BlocksOf(p) :
                 /\ p.blocks[b] \in Blocks(S) /\ b \in Nat
                 /\ p.blocks[b].address \in Nat \cup {None}
                 /\ p.blocks[b].successor \in Nat \cup {None}
                 /\ p.blocks[b].statements \in Seq(S)
<1>1. p.blocks \in Seq(Blocks(S)) /\ p.ranges \in SUBSET Entries /\ p.called \in SUBSET Nat
  BY DEF Programs
<1>2. BlocksOf(p) = 1..Len(p.blocks) /\ Len(p.blocks) \in Nat
      /\ \A b \in BlocksOf(p) : p.blocks[b] \in Blocks(S)
  BY <1>1 DEF BlocksOf
<1>3. \A x \in Blocks(S) : /\ x.address \in Nat \cup {None} /\ x.successor \in Nat \cup {None}
                          /\ x.statements \in Seq(S)
  BY DEF Blocks
<1> QED BY <1>1, <1>2, <1>3

\* The key that covers an address.
LEMMA CoveringKey ==
    ASSUME NEW S, NEW p \in Programs(S), Mapped(p), NEW a \in Int
    PROVE  \/ /\ Covering(p, a) = {}
              /\ \A e \in p.ranges : ~(e.range[1] <= a /\ a < e.range[2])
           \/ \E e \in p.ranges : /\ Covering(p, a) = {e.block} /\ The(Covering(p, a)) = e.block
                                  /\ e.range[1] <= a /\ a < e.range[2]
<1> DEFINE es == Matching(p.ranges, <<a, a + 1>>)
<1>1. \A e \in p.ranges : /\ e \in Entries /\ e.range \in Nat \X Nat /\ e.range \in Int \X Int
                          /\ Forward(e.range)
  BY ProgramParts DEF Mapped, Fits, Entries
<1>2. <<a, a + 1>> \in Int \X Int /\ Forward(<<a, a + 1>>)
  BY DEF Forward
<1>3. \A e \in p.ranges : e \in es <=> (e.range[1] <= a /\ a < e.range[2])
  <2> SUFFICES ASSUME NEW e \in p.ranges
               PROVE  e \in es <=> (e.range[1] <= a /\ a < e.range[2])
    OBVIOUS
  <2>1. e \in es <=> (e.range = <<a, a + 1>> \/ (a < e.range[2] /\ e.range[1] < a + 1))
    BY <1>1, <1>2, SameKeys DEF Matching
  <2> QED BY <1>1, <2>1
<1>4. es \subseteq p.ranges
  BY DEF Matching
<1>5. CASE es = {}
  BY <1>3, <1>5 DEF Covering
<1>6. CASE es # {}
  <2>1. Leftmost(es) \in es
    <3>1. es \in SUBSET Entries /\ Ordered(es)
      BY <1>1, <1>4 DEF Mapped, Ordered
    <3> QED BY <1>1, <1>4, <1>6, <3>1, LeftmostIsOne
  <2>2. Covering(p, a) = {Leftmost(es).block}
    BY <1>6 DEF Covering
  <2> HIDE DEF es
  <2>3. The(Covering(p, a)) = Leftmost(es).block
    BY <2>2 DEF The
  <2> QED BY <1>3, <1>4, <2>1, <2>2, <2>3
<1> QED BY <1>5, <1>6

\* std::map::erase() of a block: it takes away the entries of one key, and nothing else.
LEMMA RemoveRangeParts ==
    ASSUME NEW S, NEW p \in Programs(S), NEW b, NEW q, q = RemoveRange(p, b)
    PROVE  /\ q \in Programs(S) /\ q.blocks = p.blocks /\ q.called = p.called
           /\ q.ranges \subseteq p.ranges
           /\ \A e \in p.ranges : e \in q.ranges <=> ~SameKey(e.range, RangeOfBlock(p, b))
BY DEF RemoveRange, Matching, Programs

\* What is said of blocks alone does not depend on the map.
LEMMA FitsElsewhere ==
    ASSUME NEW p, NEW q, q.blocks = p.blocks
    PROVE  /\ Located(q) <=> Located(p)
           /\ \A e : Fits(q, e) <=> Fits(p, e)
           /\ \A b : Bound(q, b) <=> Bound(p, b)
           /\ \A b : RangeOfBlock(q, b) = RangeOfBlock(p, b)
           /\ BlocksOf(q) = BlocksOf(p)
           /\ \A a : StartingAt(q, a) = StartingAt(p, a)
<1>1. BlocksOf(q) = BlocksOf(p) /\ \A b : RangeOfBlock(q, b) = RangeOfBlock(p, b)
  BY DEF BlocksOf, RangeOfBlock
<1>2. \A b : Bound(q, b) <=> Bound(p, b)
  BY DEF Bound
<1> QED BY <1>1, <1>2 DEF Located, Fits, StartingAt

\* From p to q a key for the block b has been written.
KeyAdded(p, q, b) ==
    /\ q.blocks = p.blocks /\ q.called = p.called
    /\ \A e \in q.ranges : e = EntryOf(p, b) \/ \E f \in p.ranges : e.range = f.range
    /\ (\A e \in p.ranges : ~SameKey(e.range, RangeOfBlock(p, b)))
           => q.ranges = p.ranges \cup {EntryOf(p, b)}

\* operator[] keeps the keys in order if what it takes for the same key lies inside.
LEMMA AddRangeMaps ==
    ASSUME NEW S, NEW p \in Programs(S), Mapped(p), NEW b \in BlocksOf(p), Bound(p, b),
           \A e \in p.ranges : SameKey(e.range, RangeOfBlock(p, b)) =>
               p.blocks[b].address <= e.range[1] /\ e.range[2] <= p.blocks[b].successor,
           NEW q, q = AddRange(p, b)
    PROVE  q \in Programs(S) /\ Mapped(q) /\ KeyAdded(p, q, b)
<1> PICK r : r = RangeOfBlock(p, b)
  OBVIOUS
<1> DEFINE es == Matching(p.ranges, r)
<1>1. /\ r = <<p.blocks[b].address, p.blocks[b].successor>> /\ r \in Nat \X Nat /\ Forward(r)
      /\ r[1] = p.blocks[b].address /\ r[2] = p.blocks[b].successor
      /\ b \in Nat
  BY ProgramParts DEF Mapped, Located, RangeOfBlock, Forward
<1>2. \A e \in p.ranges : /\ e \in Entries /\ e.range \in Nat \X Nat /\ Forward(e.range)
  BY ProgramParts DEF Mapped, Fits, Entries
<1>3. EntryOf(p, b) \in Entries /\ EntryOf(p, b).range = r /\ EntryOf(p, b).block = b
  BY <1>1 DEF EntryOf, Entries
<1>4. SameKey(r, r)
  BY DEF SameKey, Left
<1>5. CASE es = {}
  <2>1. q = [p EXCEPT !.ranges = @ \cup {EntryOf(p, b)}]
    BY <1>5 DEF AddRange, EntryOf
  <2>2. /\ q \in Programs(S) /\ q.blocks = p.blocks /\ q.called = p.called
        /\ q.ranges = p.ranges \cup {EntryOf(p, b)}
    BY <1>3, <2>1 DEF Programs
  <2>3. \A e \in p.ranges : ~SameKey(e.range, r)
    BY <1>5 DEF Matching
  <2>4. Ordered(q.ranges)
    BY <1>3, <2>2, <2>3 DEF Mapped, Ordered, SameKey
  <2>5. Fits(p, EntryOf(p, b))
    <3> PICK n : n = EntryOf(p, b)
      OBVIOUS
    <3>1. n.range = r /\ n.block = b
      BY <1>3
    <3>2. /\ r[1] \in Nat /\ r[2] \in Nat /\ r[1] <= r[1] /\ r[2] <= r[2]
      BY <1>1
    <3>4. SameKey(n.range, RangeOfBlock(p, n.block))
      BY <1>4, <3>1
    <3>5. Forward(n.range)
      BY <1>1, <3>1
    <3>3. Fits(p, n)
      BY <1>1, <3>1, <3>2, <3>4, <3>5 DEF Fits
    <3> QED BY <3>3
  <2>6. \A e \in q.ranges : Fits(q, e)
    BY <2>2, <2>5, FitsElsewhere DEF Mapped
  <2>7. Mapped(q)
    BY <2>2, <2>4, <2>6, FitsElsewhere DEF Mapped
  <2> QED BY <2>2, <2>7 DEF KeyAdded
<1>6. CASE es # {}
  <2> PICK l : l = Leftmost(es)
    OBVIOUS
  <2> PICK n : n = [l EXCEPT !.block = b]
    OBVIOUS
  <2>1. l \in es
    <3>1. es \in SUBSET Entries /\ Ordered(es) /\ \A e \in es : Forward(e.range)
      BY <1>2 DEF Mapped, Ordered, Matching
    <3> QED BY <1>6, <3>1, LeftmostIsOne
  <2>2. l \in p.ranges /\ SameKey(l.range, r) /\ l \in Entries
    BY <1>2, <2>1 DEF Matching
  <2>3. n \in Entries /\ n.range = l.range /\ n.block = b
    BY <1>1, <2>2 DEF Entries
  <2>4. q = [p EXCEPT !.ranges = (@ \ {l}) \cup {n}]
    BY <1>6 DEF AddRange
  <2>5. /\ q \in Programs(S) /\ q.blocks = p.blocks /\ q.called = p.called
        /\ q.ranges = (p.ranges \ {l}) \cup {n}
    BY <2>3, <2>4 DEF Programs
  <2>6. Ordered(q.ranges)
    <3> SUFFICES ASSUME NEW e \in q.ranges, NEW f \in q.ranges, e # f
                 PROVE  Left(e.range, f.range) \/ Left(f.range, e.range)
      BY DEF Ordered
    <3>1. CASE e = n
      BY <2>2, <2>3, <2>5, <3>1 DEF Mapped, Ordered
    <3>2. CASE f = n
      BY <2>2, <2>3, <2>5, <3>2 DEF Mapped, Ordered
    <3>3. CASE e # n /\ f # n
      BY <2>5, <3>3 DEF Mapped, Ordered
    <3> QED BY <3>1, <3>2, <3>3
  <2>7. Fits(p, n)
    BY <1>1, <1>2, <2>2, <2>3 DEF Fits
  <2>8. \A e \in q.ranges : Fits(q, e)
    BY <2>5, <2>7, FitsElsewhere DEF Mapped
  <2>9. Mapped(q)
    BY <2>5, <2>6, <2>8, FitsElsewhere DEF Mapped
  <2>10. \A e \in q.ranges : e = EntryOf(p, b) \/ \E f \in p.ranges : e.range = f.range
    BY <2>2, <2>3, <2>5
  <2>11. \E e \in p.ranges : SameKey(e.range, RangeOfBlock(p, b))
    BY <2>2
  <2> QED BY <2>5, <2>9, <2>10, <2>11 DEF KeyAdded
<1> QED BY <1>5, <1>6
-----------------------------------------------------------------------------
(* BasicBlock::split and Program::createBasicBlock. *)

\* A set of the last places of a sequence is known by its size.
LEMMA UpperPart ==
    ASSUME NEW n \in Nat, NEW M \in SUBSET (1..n), \A i \in M, j \in 1..n : i <= j => j \in M
    PROVE  n - Cardinality(M) \in 0..n /\ M = (n - Cardinality(M) + 1)..n
<1>1. CASE M = {}
  BY <1>1, FS_EmptySet
<1>2. CASE M # {}
  <2>1. PICK m \in M : \A j \in M : m <= j
    BY <1>2, Least
  <2>2. m \in 1..n /\ m \in Nat
    OBVIOUS
  <2>4. \A j \in 1..n : j \in M <=> m <= j
    BY <2>1
  <2>5. M = m..n
    <3>1. \A j \in M : j \in m..n
      BY <2>2, <2>4
    <3>2. \A j \in m..n : j \in M
      BY <2>2, <2>4
    <3> QED BY <3>1, <3>2
  <2>3. Cardinality(M) = n - m + 1
    BY <2>2, <2>5, FS_Interval
  <2> QED BY <2>2, <2>3, <2>5
<1> QED BY <1>1, <1>2

\* split() cuts the range at "a" and the statements in front of the first that comes
\* from "a" or behind it.
Cuts(ss, a, k) ==
    /\ k \in 0..Len(ss)
    /\ \A i \in DOMAIN ss : k < i <=> \E j \in 1..i : ss[j].instruction >= a

\* Split() cuts in front of the first statement at or behind the address.
LEMMA CutsAt ==
    ASSUME NEW S, NEW ss \in Seq(S), NEW a
    PROVE  Cuts(ss, a, Len(ss) - Cardinality({i \in DOMAIN ss : \E j \in 1..i : ss[j].instruction >= a}))
<1> DEFINE moved == {i \in DOMAIN ss : \E j \in 1..i : ss[j].instruction >= a}
<1>1. Len(ss) \in Nat /\ DOMAIN ss = 1..Len(ss)
  OBVIOUS
<1>2. moved \in SUBSET (1..Len(ss))
  BY <1>1
<1>3. \A i \in moved, j \in 1..Len(ss) : i <= j => j \in moved
  <2> SUFFICES ASSUME NEW i \in moved, NEW j \in 1..Len(ss), i <= j PROVE j \in moved
    OBVIOUS
  <2>1. PICK l \in 1..i : ss[l].instruction >= a
    OBVIOUS
  <2>2. l \in 1..j /\ j \in DOMAIN ss
    BY <1>1, <1>2
  <2> QED BY <2>1, <2>2
<1>4. \A i \in DOMAIN ss : i \in moved <=> \E j \in 1..i : ss[j].instruction >= a
  OBVIOUS
<1> HIDE DEF moved
<1>5. Len(ss) - Cardinality(moved) \in 0..Len(ss) /\ moved = (Len(ss) - Cardinality(moved) + 1)..Len(ss)
  BY <1>1, <1>2, <1>3, UpperPart
<1> PICK k : k = Len(ss) - Cardinality(moved)
  OBVIOUS
<1>6. k \in 0..Len(ss) /\ \A i \in DOMAIN ss : k < i <=> i \in moved
  <2>1. k \in 0..Len(ss) /\ moved = (k + 1)..Len(ss)
    BY <1>5
  <2>2. \A i \in DOMAIN ss : k < i <=> i \in (k + 1)..Len(ss)
    BY <1>1, <2>1
  <2> QED BY <2>1, <2>2
<1>7. Cuts(ss, a, k)
  BY <1>4, <1>6 DEF Cuts
<1> QED BY <1>7 DEF moved

\* In q the block b of p has been cut at "a" and "n" is its upper half.
Halves(p, q, b, a, n) ==
    /\ Len(q.blocks) = n /\ BlocksOf(q) = BlocksOf(p) \cup {n} /\ n \notin BlocksOf(p)
    /\ \A c \in BlocksOf(p) \ {b} : q.blocks[c] = p.blocks[c]
    /\ q.blocks[b].address = p.blocks[b].address /\ q.blocks[b].successor = a
    /\ q.blocks[n].address = a /\ q.blocks[n].successor = p.blocks[b].successor
    /\ \E k : LET ss == p.blocks[b].statements
              IN  /\ Cuts(ss, a, k)
                  /\ q.blocks[b].statements = SubSeq(ss, 1, k)
                  /\ q.blocks[n].statements = SubSeq(ss, k + 1, Len(ss))

\* Only the blocks matter to that.
LEMMA HalvesAlike ==
    ASSUME NEW p, NEW r, r.blocks = p.blocks, NEW q, NEW b, NEW a, NEW n, Halves(r, q, b, a, n)
    PROVE  Halves(p, q, b, a, n)
<1>1. BlocksOf(r) = BlocksOf(p)
  BY DEF BlocksOf
<1> QED BY <1>1, Zenon DEF Halves

\* BasicBlock::split(): one block becomes two, and the map stays as it is.
LEMMA SplitParts ==
    ASSUME NEW S, NEW p \in Programs(S), NEW b \in BlocksOf(p), NEW a \in Nat,
           NEW q, q = Split(p, b, a), NEW n, n = Len(p.blocks) + 1
    PROVE  /\ q \in Programs(S) /\ q.ranges = p.ranges /\ q.called = p.called
           /\ Halves(p, q, b, a, n)
<1> DEFINE ss == p.blocks[b].statements
           k == Len(ss) - Cardinality({i \in DOMAIN ss : \E j \in 1..i : ss[j].instruction >= a})
           first == SubSeq(ss, 1, k)
           second == SubSeq(ss, k + 1, Len(ss))
           high == [address |-> a, successor |-> p.blocks[b].successor, statements |-> second]
           bs == Append([p.blocks EXCEPT ![b].successor = a, ![b].statements = SubSeq(ss, 1, k)], high)
<1>1. q = [p EXCEPT !.blocks = bs]
  <2>1. Split(p, b, a) = [p EXCEPT !.blocks = bs]
    BY Zenon DEF Split
  <2> QED BY <2>1
<1>2. /\ p.blocks \in Seq(Blocks(S)) /\ BlocksOf(p) = 1..Len(p.blocks) /\ Len(p.blocks) \in Nat
      /\ p.blocks[b] \in Blocks(S) /\ ss \in Seq(S) /\ p.blocks[b].successor \in Nat \cup {None}
      /\ n \in Nat /\ n \notin BlocksOf(p)
  BY ProgramParts
<1>3. Cuts(ss, a, k)
  BY <1>2, CutsAt
<1> HIDE DEF k
<1>4. k \in 0..Len(ss) /\ first \in Seq(S) /\ second \in Seq(S)
  <2>1. Len(ss) \in Nat /\ k \in 0..Len(ss)
    BY <1>2, <1>3 DEF Cuts
  <2> HIDE DEF ss
  <2> QED BY <1>2, <2>1
<1> PICK low : low = [p.blocks[b] EXCEPT !.successor = a, !.statements = first]
  OBVIOUS
<1>5. /\ low \in Blocks(S) /\ low.address = p.blocks[b].address /\ low.successor = a
      /\ low.statements = first
  <2> HIDE DEF first
  <2> PICK old : old = p.blocks[b]
    OBVIOUS
  <2>1. old \in Blocks(S) /\ low = [old EXCEPT !.successor = a, !.statements = first]
    BY <1>2
  <2> QED BY <1>4, <2>1 DEF Blocks
<1> PICK cs : cs = [p.blocks EXCEPT ![b] = low]
  OBVIOUS
<1>6. cs = [p.blocks EXCEPT ![b].successor = a, ![b].statements = SubSeq(ss, 1, k)]
  <2>1. p.blocks = [c \in BlocksOf(p) |-> p.blocks[c]]
    BY <1>2
  <2> QED BY <2>1
<1>7. bs = Append(cs, high)
  BY <1>6
<1>8. high \in Blocks(S) /\ high.address = a /\ high.successor = p.blocks[b].successor
      /\ high.statements = second
  <2> HIDE DEF second
  <2> QED BY <1>2, <1>4 DEF Blocks
<1> HIDE DEF bs, high, first, second, ss
<1>9. /\ cs \in Seq(Blocks(S)) /\ Len(cs) = Len(p.blocks) /\ DOMAIN cs = BlocksOf(p)
      /\ cs[b] = low /\ \A c \in BlocksOf(p) \ {b} : cs[c] = p.blocks[c]
  BY <1>2, <1>5
<1>10. /\ bs \in Seq(Blocks(S)) /\ Len(bs) = n /\ DOMAIN bs = BlocksOf(p) \cup {n}
       /\ bs[n] = high /\ \A c \in BlocksOf(p) : bs[c] = cs[c]
  BY <1>2, <1>7, <1>8, <1>9
<1>11. q \in Programs(S) /\ q.blocks = bs /\ q.ranges = p.ranges /\ q.called = p.called
  BY <1>1, <1>10 DEF Programs
<1>12. bs[b] = low
  BY <1>9, <1>10
<1>13. q.blocks[b].statements = SubSeq(ss, 1, k) /\ q.blocks[n].statements = SubSeq(ss, k + 1, Len(ss))
  BY <1>5, <1>8, <1>10, <1>11, <1>12 DEF first, second
<1>14. ss = p.blocks[b].statements
  BY DEF ss
<1>15. \E i : LET tt == p.blocks[b].statements
              IN  /\ Cuts(tt, a, i)
                  /\ q.blocks[b].statements = SubSeq(tt, 1, i)
                  /\ q.blocks[n].statements = SubSeq(tt, i + 1, Len(tt))
  BY <1>3, <1>13, <1>14
<1>16. BlocksOf(q) = BlocksOf(p) \cup {n}
  BY <1>10, <1>11 DEF BlocksOf
<1> QED BY <1>2, <1>5, <1>8, <1>9, <1>10, <1>11, <1>12, <1>15, <1>16 DEF Halves

\* A block is added behind those that are there, and changes none of them.
LEMMA AddBlockParts ==
    ASSUME NEW S, NEW p \in Programs(S), NEW x \in Nat \cup {None},
           NEW q, q = AddBlock(p, x), NEW n, n = Len(p.blocks) + 1
    PROVE  /\ q \in Programs(S) /\ q.ranges = p.ranges /\ q.called = p.called
           /\ Len(q.blocks) = n /\ BlocksOf(q) = BlocksOf(p) \cup {n} /\ n \notin BlocksOf(p)
           /\ \A c \in BlocksOf(p) : q.blocks[c] = p.blocks[c]
           /\ q.blocks[n] = NewBlock(x)
<1>1. /\ p.blocks \in Seq(Blocks(S)) /\ BlocksOf(p) = 1..Len(p.blocks) /\ Len(p.blocks) \in Nat
      /\ n \in Nat /\ n \notin BlocksOf(p)
  BY ProgramParts
<1>2. NewBlock(x) \in Blocks(S)
  BY DEF NewBlock, Blocks
<1> PICK new : new = NewBlock(x)
  OBVIOUS
<1> PICK bs : bs = Append(p.blocks, new)
  OBVIOUS
<1>3. /\ bs \in Seq(Blocks(S)) /\ Len(bs) = n /\ DOMAIN bs = BlocksOf(p) \cup {n}
      /\ bs[n] = new /\ \A c \in BlocksOf(p) : bs[c] = p.blocks[c]
  BY <1>1, <1>2
<1>4. q = [p EXCEPT !.blocks = bs]
  BY DEF AddBlock
<1>5. q \in Programs(S) /\ q.blocks = bs /\ q.ranges = p.ranges /\ q.called = p.called
  BY <1>3, <1>4 DEF Programs
<1> QED BY <1>1, <1>3, <1>5 DEF BlocksOf

\* More blocks, and more statements, do not disturb the map.
LEMMA FitsAfter ==
    ASSUME NEW S, NEW p \in Programs(S), NEW q \in Programs(S), Mapped(p),
           q.ranges = p.ranges, BlocksOf(p) \subseteq BlocksOf(q),
           \A c \in BlocksOf(p) : /\ q.blocks[c].address = p.blocks[c].address
                                  /\ q.blocks[c].successor = p.blocks[c].successor,
           \A c \in BlocksOf(q) \ BlocksOf(p) : Bound(q, c) =>
               /\ q.blocks[c].successor = q.blocks[c].address
               /\ \A d \in BlocksOf(q) : q.blocks[d].address = q.blocks[c].address => d = c
    PROVE  Mapped(q)
<1>1. \A c \in BlocksOf(p) : Bound(q, c) <=> Bound(p, c)
  BY DEF Bound
<1>2. ASSUME NEW b \in BlocksOf(q), Bound(q, b)
      PROVE  /\ q.blocks[b].address \in Nat /\ q.blocks[b].successor \in Nat
             /\ q.blocks[b].address <= q.blocks[b].successor
             /\ \A c \in BlocksOf(q) : q.blocks[c].address = q.blocks[b].address => c = b
  <2>1. CASE b \in BlocksOf(p)
    <3>1. /\ p.blocks[b].address \in Nat /\ p.blocks[b].successor \in Nat
          /\ p.blocks[b].address <= p.blocks[b].successor
          /\ \A c \in BlocksOf(p) : p.blocks[c].address = p.blocks[b].address => c = b
      BY <1>1, <1>2, <2>1 DEF Mapped, Located
    <3>2. ASSUME NEW c \in BlocksOf(q), q.blocks[c].address = q.blocks[b].address PROVE c = b
      <4>1. CASE c \in BlocksOf(p)
        BY <2>1, <3>1, <3>2, <4>1
      <4>2. CASE c \notin BlocksOf(p)
        <5>1. Bound(q, c)
          BY <1>2, <3>2 DEF Bound
        <5> QED BY <3>2, <4>2, <5>1
      <4> QED BY <4>1, <4>2
    <3> QED BY <2>1, <3>1, <3>2
  <2>2. CASE b \notin BlocksOf(p)
    <3>1. q.blocks[b].address \in Nat
      BY <1>2, ProgramParts DEF Bound
    <3> QED BY <1>2, <2>2, <3>1
  <2> QED BY <2>1, <2>2
<1>3. Located(q)
  BY <1>2 DEF Located
<1>4. ASSUME NEW e \in q.ranges PROVE Fits(q, e)
  <2>1. Fits(p, e)
    BY DEF Mapped
  <2>2. RangeOfBlock(q, e.block) = RangeOfBlock(p, e.block)
    BY <2>1 DEF RangeOfBlock, Fits
  <2> QED BY <1>1, <2>1, <2>2 DEF Fits
<1> QED BY <1>3, <1>4 DEF Mapped

\* A new block, where nothing is: its range is empty and its key new, unless the same
\* empty key has led to another block.
LEMMA CreateBasicBlockAdds ==
    ASSUME NEW S, NEW p \in Programs(S), Mapped(p), NEW a \in Nat,
           StartingAt(p, a) = {}, Covering(p, a) = {},
           NEW q, q = CreateBasicBlock(p, a), NEW n, n = Len(p.blocks) + 1
    PROVE  /\ q \in Programs(S) /\ q.called = p.called
           /\ Len(q.blocks) = n /\ BlocksOf(q) = BlocksOf(p) \cup {n} /\ n \notin BlocksOf(p)
           /\ \A c \in BlocksOf(p) : q.blocks[c] = p.blocks[c]
           /\ q.blocks[n] = NewBlock(a)
           /\ Mapped(q)
           /\ \A e \in q.ranges : e.range = <<a, a>> \/ \E f \in p.ranges : e.range = f.range
           /\ Exact(p) => Exact(q)
<1> PICK r : r = AddBlock(p, a)
  OBVIOUS
<1>1. /\ r \in Programs(S) /\ r.ranges = p.ranges /\ r.called = p.called
      /\ Len(r.blocks) = n /\ BlocksOf(r) = BlocksOf(p) \cup {n} /\ n \notin BlocksOf(p)
      /\ \A c \in BlocksOf(p) : r.blocks[c] = p.blocks[c]
      /\ r.blocks[n] = NewBlock(a)
  BY AddBlockParts
<1>2. q = AddRange(r, n)
  BY <1>1 DEF CreateBasicBlock, LastBlock
<1>3. r.blocks[n].address = a /\ r.blocks[n].successor = a /\ a # None
  BY <1>1 DEF NewBlock, None
<1>4. \A d \in BlocksOf(p) : p.blocks[d].address # a
  BY <1>3 DEF StartingAt
<1>5. Mapped(r)
  <2>1. \A c \in BlocksOf(r) \ BlocksOf(p) : c = n
    BY <1>1
  <2>2. \A d \in BlocksOf(r) : r.blocks[d].address = a => d = n
    BY <1>1, <1>4
  <2>3. BlocksOf(p) \subseteq BlocksOf(r)
    BY <1>1
  <2>4. \A c \in BlocksOf(r) \ BlocksOf(p) : Bound(r, c) =>
               /\ r.blocks[c].successor = r.blocks[c].address
               /\ \A d \in BlocksOf(r) : r.blocks[d].address = r.blocks[c].address => d = c
    BY <1>3, <2>1, <2>2
  <2> QED BY <1>1, <2>3, <2>4, FitsAfter
<1>6. Bound(r, n) /\ RangeOfBlock(r, n) = <<a, a>> /\ n \in BlocksOf(r)
  BY <1>1, <1>3 DEF Bound, RangeOfBlock
<1>7. \A e \in p.ranges : e.range \in Nat \X Nat /\ Forward(e.range)
  BY ProgramParts DEF Mapped, Fits, Entries
<1>8. \A e \in p.ranges : SameKey(e.range, <<a, a>>) => e.range = <<a, a>>
  <2> SUFFICES ASSUME NEW e \in p.ranges, SameKey(e.range, <<a, a>>), e.range # <<a, a>> PROVE FALSE
    OBVIOUS
  <2>1. ~(e.range[1] <= a /\ a < e.range[2])
    <3>1. a \in Int /\ \A x : Covering(p, a) # {x}
      OBVIOUS
    <3> QED BY <3>1, CoveringKey
  <2>2. e.range \in Int \X Int /\ <<a, a>> \in Int \X Int /\ Forward(<<a, a>>)
    BY <1>7 DEF Forward
  <2>3. a < e.range[2] /\ e.range[1] < a
    BY <1>7, <2>2, SameKeys
  <2>4. e.range[1] \in Nat
    BY <1>7
  <2> QED BY <2>1, <2>3, <2>4
<1>9. \A e \in r.ranges : SameKey(e.range, RangeOfBlock(r, n)) =>
          r.blocks[n].address <= e.range[1] /\ e.range[2] <= r.blocks[n].successor
  BY <1>1, <1>3, <1>6, <1>8
<1>10. /\ q \in Programs(S) /\ q.blocks = r.blocks /\ q.called = r.called
       /\ Mapped(q)
       /\ \A e \in q.ranges : e = EntryOf(r, n) \/ \E f \in r.ranges : e.range = f.range
       /\ (\A e \in r.ranges : ~SameKey(e.range, RangeOfBlock(r, n)))
              => q.ranges = r.ranges \cup {EntryOf(r, n)}
  <2>1. q \in Programs(S) /\ Mapped(q) /\ KeyAdded(r, q, n)
    BY <1>1, <1>2, <1>5, <1>6, <1>9, AddRangeMaps
  <2> QED BY <2>1 DEF KeyAdded
<1>11. BlocksOf(q) = BlocksOf(r)
  BY <1>10 DEF BlocksOf
<1>12. \A e \in q.ranges : e.range = <<a, a>> \/ \E f \in p.ranges : e.range = f.range
  <2>1. EntryOf(r, n).range = <<a, a>>
    BY <1>6 DEF EntryOf
  <2> QED BY <1>1, <1>10, <2>1
<1>13. ASSUME Exact(p) PROVE Exact(q)
  <2>1. \A e \in r.ranges : ~SameKey(e.range, RangeOfBlock(r, n))
    <3> SUFFICES ASSUME NEW e \in p.ranges, e.range = <<a, a>> PROVE FALSE
      BY <1>1, <1>6, <1>8
    <3>1. PICK c \in BlocksOf(p) : e = EntryOf(p, c)
      BY <1>13 DEF Exact
    <3>2. p.blocks[c].address = a
      BY <3>1 DEF EntryOf, RangeOfBlock
    <3> QED BY <1>4, <3>2
  <2>2. q.ranges = p.ranges \cup {EntryOf(r, n)}
    BY <1>1, <1>10, <2>1
  <2>3. \A c \in BlocksOf(p) : EntryOf(q, c) = EntryOf(p, c) /\ (Bound(q, c) <=> Bound(p, c))
    BY <1>1, <1>10 DEF EntryOf, RangeOfBlock, Bound
  <2>4. EntryOf(q, n) = EntryOf(r, n) /\ Bound(q, n)
    BY <1>6, <1>10 DEF EntryOf, RangeOfBlock, Bound
  <2>5. BlocksOf(q) = BlocksOf(p) \cup {n}
    BY <1>1, <1>11
  <2>6. {EntryOf(q, b) : b \in {c \in BlocksOf(q) : Bound(q, c)}}
          = {EntryOf(p, b) : b \in {c \in BlocksOf(p) : Bound(p, c)}} \cup {EntryOf(q, n)}
    BY <2>3, <2>4, <2>5
  <2> QED BY <1>13, <2>2, <2>4, <2>6 DEF Exact
<1> QED BY <1>1, <1>10, <1>11, <1>12, <1>13

\* A key comparable to a part of a range is comparable to the whole of it.
LEMMA SameKeyInside ==
    ASSUME NEW f \in Nat \X Nat, NEW r \in Nat \X Nat, NEW s \in Nat \X Nat, Forward(f),
           r[1] < r[2], s[1] <= r[1], r[2] <= s[2], SameKey(f, r)
    PROVE  SameKey(f, s)
<1>1. f \in Int \X Int /\ r \in Int \X Int /\ s \in Int \X Int /\ Forward(r) /\ Forward(s)
  BY DEF Forward
<1>2. f = r \/ (r[1] < f[2] /\ f[1] < r[2])
  BY <1>1, SameKeys
<1>3. s[1] < f[2] /\ f[1] < s[2]
  BY <1>2
<1> QED BY <1>1, <1>3, SameKeys

\* A new block inside of another one: the other one, and its key, are cut in two.
LEMMA CreateBasicBlockCuts ==
    ASSUME NEW S, NEW p \in Programs(S), Mapped(p), NEW a \in Nat,
           StartingAt(p, a) = {}, Covering(p, a) # {},
           NEW q, q = CreateBasicBlock(p, a), NEW n, n = Len(p.blocks) + 1
    PROVE  \E b \in BlocksOf(p) :
           /\ Bound(p, b) /\ p.blocks[b].address < a /\ a < p.blocks[b].successor
           /\ q \in Programs(S) /\ q.called = p.called
           /\ Halves(p, q, b, a, n)
           /\ Mapped(q)
           /\ Exact(p) => Exact(q)
<1>1. PICK e \in p.ranges : /\ Covering(p, a) = {e.block} /\ The(Covering(p, a)) = e.block
                            /\ e.range[1] <= a /\ a < e.range[2]
  <2>1. a \in Int
    OBVIOUS
  <2> QED BY <2>1, CoveringKey
<1> PICK b : b = e.block
  OBVIOUS
<1>2. \A f \in p.ranges : f.range \in Nat \X Nat /\ Forward(f.range)
  BY ProgramParts DEF Mapped, Fits, Entries
<1>3. /\ b \in BlocksOf(p) /\ Bound(p, b)
      /\ p.blocks[b].address \in Nat /\ p.blocks[b].successor \in Nat
      /\ p.blocks[b].address <= e.range[1] /\ e.range[2] <= p.blocks[b].successor
  BY DEF Mapped, Fits, Located
<1>4. \A d \in BlocksOf(p) : p.blocks[d].address # a
  BY DEF StartingAt, None
<1>5. p.blocks[b].address < a /\ a < p.blocks[b].successor
  <2>1. e.range[1] \in Nat /\ e.range[2] \in Nat /\ p.blocks[b].address # a
    BY <1>2, <1>3, <1>4
  <2> QED BY <1>1, <1>3, <2>1
<1> PICK r : r = RemoveRange(p, b)
  OBVIOUS
<1> PICK s : s = Split(r, b, a)
  OBVIOUS
<1> PICK t : t = AddRange(s, b)
  OBVIOUS
<1>6. /\ r \in Programs(S) /\ r.blocks = p.blocks /\ r.called = p.called
      /\ r.ranges \subseteq p.ranges
      /\ \A f \in p.ranges : f \in r.ranges <=> ~SameKey(f.range, RangeOfBlock(p, b))
  BY RemoveRangeParts
<1>7. BlocksOf(r) = BlocksOf(p)
  BY <1>6 DEF BlocksOf
<1>8. s \in Programs(S) /\ s.ranges = r.ranges /\ s.called = p.called /\ Halves(p, s, b, a, n)
  <2>1. b \in BlocksOf(r) /\ n = Len(r.blocks) + 1
    BY <1>3, <1>6, <1>7
  <2>2. s \in Programs(S) /\ s.ranges = r.ranges /\ s.called = r.called /\ Halves(r, s, b, a, n)
    BY <1>6, <2>1, SplitParts
  <2>3. Halves(p, s, b, a, n)
    BY <1>6, <2>2, HalvesAlike, Zenon
  <2> QED BY <1>6, <2>2, <2>3
<1>24. /\ Len(s.blocks) = n /\ BlocksOf(s) = BlocksOf(p) \cup {n} /\ n \notin BlocksOf(p)
       /\ \A c \in BlocksOf(p) \ {b} : s.blocks[c] = p.blocks[c]
       /\ s.blocks[b].address = p.blocks[b].address /\ s.blocks[b].successor = a
       /\ s.blocks[n].address = a /\ s.blocks[n].successor = p.blocks[b].successor
  BY <1>8 DEF Halves
<1>9. q = AddRange(t, n)
  <2>1. q = AddRange(AddRange(s, b), LastBlock(s))
    BY <1>1 DEF CreateBasicBlock
  <2> QED BY <1>8, <1>24, <2>1 DEF LastBlock
<1>10. \A f \in r.ranges : f.block # b
  BY <1>6 DEF Mapped, Fits
<1>11. Mapped(s)
  <2>1. ASSUME NEW c \in BlocksOf(s), Bound(s, c)
        PROVE  /\ s.blocks[c].address \in Nat /\ s.blocks[c].successor \in Nat
               /\ s.blocks[c].address <= s.blocks[c].successor
               /\ \A d \in BlocksOf(s) : s.blocks[d].address = s.blocks[c].address => d = c
    <3>1. CASE c = n
      <4>1. \A d \in BlocksOf(s) : s.blocks[d].address = a => d = n
        BY <1>4, <1>8, <1>24
      <4> QED BY <1>3, <1>5, <1>8, <1>24, <3>1, <4>1
    <3>2. CASE c # n
      <4>1. c \in BlocksOf(p) /\ s.blocks[c].address = p.blocks[c].address
        BY <1>8, <1>24, <3>2
      <4>2. /\ p.blocks[c].address \in Nat /\ p.blocks[c].successor \in Nat
            /\ p.blocks[c].address <= p.blocks[c].successor
            /\ \A d \in BlocksOf(p) : p.blocks[d].address = p.blocks[c].address => d = c
        BY <2>1, <4>1 DEF Mapped, Located, Bound
      <4>3. \A d \in BlocksOf(s) : s.blocks[d].address = s.blocks[c].address => d = c
        <5>1. s.blocks[n].address # p.blocks[c].address
          BY <1>4, <1>8, <1>24, <4>1
        <5>2. \A d \in BlocksOf(p) : s.blocks[d].address = p.blocks[d].address
          BY <1>8, <1>24
        <5> QED BY <1>8, <1>24, <4>1, <4>2, <5>1, <5>2
      <4>4. s.blocks[c].successor \in Nat /\ s.blocks[c].address <= s.blocks[c].successor
        <5>1. CASE c = b
          BY <1>5, <1>8, <1>24, <5>1, <1>3
        <5>2. CASE c # b
          BY <1>8, <1>24, <4>1, <4>2, <5>2
        <5> QED BY <5>1, <5>2
      <4> QED BY <4>1, <4>2, <4>3, <4>4
    <3> QED BY <3>1, <3>2
  <2>2. Located(s)
    BY <2>1 DEF Located
  <2>3. Ordered(s.ranges)
    BY <1>6, <1>8, <1>24 DEF Mapped, Ordered
  <2>4. ASSUME NEW f \in s.ranges PROVE Fits(s, f)
    <3>1. Fits(p, f) /\ f.block # b
      BY <1>6, <1>8, <1>24, <1>10 DEF Mapped
    <3>2. f.block \in BlocksOf(p) /\ s.blocks[f.block] = p.blocks[f.block]
      BY <1>8, <1>24, <3>1 DEF Fits
    <3>3. RangeOfBlock(s, f.block) = RangeOfBlock(p, f.block) /\ (Bound(s, f.block) <=> Bound(p, f.block))
      BY <3>2 DEF RangeOfBlock, Bound
    <3> QED BY <1>8, <1>24, <3>1, <3>2, <3>3 DEF Fits
  <2> QED BY <2>2, <2>3, <2>4 DEF Mapped
<1>12. \A f \in r.ranges : /\ ~SameKey(f.range, <<p.blocks[b].address, a>>)
                           /\ ~SameKey(f.range, <<a, p.blocks[b].successor>>)
  <2> SUFFICES ASSUME NEW f \in r.ranges
               PROVE  /\ ~SameKey(f.range, <<p.blocks[b].address, a>>)
                      /\ ~SameKey(f.range, <<a, p.blocks[b].successor>>)
    OBVIOUS
  <2>1. f.range \in Nat \X Nat /\ Forward(f.range) /\ ~SameKey(f.range, <<p.blocks[b].address, p.blocks[b].successor>>)
    BY <1>2, <1>6 DEF RangeOfBlock
  <2> PICK x : x = p.blocks[b].address
    OBVIOUS
  <2> PICK y : y = p.blocks[b].successor
    OBVIOUS
  <2>2. x \in Nat /\ y \in Nat /\ x < a /\ a < y
    BY <1>3, <1>5
  <2>3. ~SameKey(f.range, <<x, a>>)
    BY <2>1, <2>2, SameKeyInside, SMTT(20)
  <2>4. ~SameKey(f.range, <<a, y>>)
    BY <2>1, <2>2, SameKeyInside, SMTT(20)
  <2> QED BY <2>3, <2>4
<1>13. Bound(s, b) /\ Bound(s, n) /\ b \in BlocksOf(s) /\ n \in BlocksOf(s)
  BY <1>3, <1>8, <1>24 DEF Bound, None
<1>14. RangeOfBlock(s, b) = <<p.blocks[b].address, a>> /\ RangeOfBlock(s, n) = <<a, p.blocks[b].successor>>
  BY <1>8, <1>24 DEF RangeOfBlock
<1>15. \A f \in s.ranges : ~SameKey(f.range, RangeOfBlock(s, b)) /\ ~SameKey(f.range, RangeOfBlock(s, n))
  BY <1>8, <1>24, <1>12, <1>14
<1>16. /\ t \in Programs(S) /\ t.blocks = s.blocks /\ t.called = s.called /\ Mapped(t)
       /\ t.ranges = s.ranges \cup {EntryOf(s, b)}
  BY <1>8, <1>24, <1>11, <1>13, <1>15, AddRangeMaps DEF KeyAdded
<1>17. /\ BlocksOf(t) = BlocksOf(s) /\ Bound(t, n) /\ RangeOfBlock(t, n) = RangeOfBlock(s, n)
       /\ EntryOf(t, n) = EntryOf(s, n)
  BY <1>13, <1>16 DEF BlocksOf, Bound, RangeOfBlock, EntryOf
<1>18. ~SameKey(EntryOf(s, b).range, RangeOfBlock(s, n))
  <2>1. EntryOf(s, b).range = <<p.blocks[b].address, a>>
    BY <1>14 DEF EntryOf
  <2>2. <<p.blocks[b].address, a>> # <<a, p.blocks[b].successor>>
    BY <1>5, <1>3
  <2> QED BY <1>14, <2>1, <2>2, <1>3 DEF SameKey, Left
<1>19. \A f \in t.ranges : ~SameKey(f.range, RangeOfBlock(t, n))
  BY <1>15, <1>16, <1>17, <1>18
<1>20. /\ q \in Programs(S) /\ q.blocks = t.blocks /\ q.called = t.called /\ Mapped(q)
       /\ q.ranges = t.ranges \cup {EntryOf(t, n)}
  BY <1>9, <1>13, <1>16, <1>17, <1>19, AddRangeMaps DEF KeyAdded
<1>21. q.blocks = s.blocks /\ BlocksOf(q) = BlocksOf(s)
  BY <1>16, <1>20 DEF BlocksOf
<1>22. ASSUME Exact(p) PROVE Exact(q)
  <2>1. \A f \in p.ranges : f \in r.ranges <=> f.block # b
    <3> SUFFICES ASSUME NEW f \in p.ranges, f.block # b PROVE f \in r.ranges
      BY <1>10
    <3>1. PICK c \in BlocksOf(p) : f = EntryOf(p, c)
      BY <1>22 DEF Exact
    <3>2. EntryOf(p, b) \in p.ranges /\ EntryOf(p, b).range = RangeOfBlock(p, b) /\ EntryOf(p, b).block = b
      BY <1>3, <1>22 DEF Exact, EntryOf
    <3>3. f # EntryOf(p, b)
      BY <3>2
    <3>4. Left(f.range, RangeOfBlock(p, b)) \/ Left(RangeOfBlock(p, b), f.range)
      BY <3>2, <3>3 DEF Mapped, Ordered
    <3> QED BY <1>6, <3>4 DEF SameKey
  <2>2. \A c \in BlocksOf(p) \ {b} : EntryOf(q, c) = EntryOf(p, c) /\ (Bound(q, c) <=> Bound(p, c))
    BY <1>8, <1>24, <1>21 DEF EntryOf, RangeOfBlock, Bound
  <2>3. \A c : EntryOf(p, c).block = c
    BY DEF EntryOf
  <2>4. EntryOf(q, n) = EntryOf(s, n) /\ EntryOf(q, b) = EntryOf(s, b) /\ Bound(q, n) /\ Bound(q, b)
    BY <1>13, <1>21 DEF EntryOf, RangeOfBlock, Bound
  <2>5. r.ranges = {EntryOf(p, c) : c \in {d \in BlocksOf(p) \ {b} : Bound(p, d)}}
    <3>1. \A f \in r.ranges : f \in {EntryOf(p, c) : c \in {d \in BlocksOf(p) \ {b} : Bound(p, d)}}
      BY <1>6, <1>22, <2>1, <2>3 DEF Exact
    <3>2. \A f \in {EntryOf(p, c) : c \in {d \in BlocksOf(p) \ {b} : Bound(p, d)}} : f \in r.ranges
      BY <1>22, <2>1, <2>3 DEF Exact
    <3> QED BY <3>1, <3>2
  <2>6. q.ranges = r.ranges \cup {EntryOf(q, b), EntryOf(q, n)}
    BY <1>8, <1>24, <1>16, <1>17, <1>20, <2>4
  <2>7. BlocksOf(q) = (BlocksOf(p) \ {b}) \cup {b, n}
    BY <1>3, <1>8, <1>24, <1>21
  <2>8. {EntryOf(q, c) : c \in {d \in BlocksOf(q) : Bound(q, d)}}
          = {EntryOf(p, c) : c \in {d \in BlocksOf(p) \ {b} : Bound(p, d)}} \cup {EntryOf(q, b), EntryOf(q, n)}
    BY <2>2, <2>4, <2>7
  <2> QED BY <2>5, <2>6, <2>8 DEF Exact
<1>23. q.called = p.called /\ Halves(p, q, b, a, n)
  <2>1. q.called = p.called
    BY <1>8, <1>16, <1>20
  <2>2. Halves(p, q, b, a, n)
    BY Zenon, <1>8, <1>21 DEF Halves
  <2> QED BY <2>1, <2>2
<1> QED BY <1>3, <1>5, <1>20, <1>22, <1>23
-----------------------------------------------------------------------------
(* What happens to the statements. *)

\* A statement is somewhere in the program, or in a block with an address; exactly one
\* statement in such a block is of the instruction at "a".
Occurs(p, s) ==
    \E b \in BlocksOf(p) : \E m \in DOMAIN p.blocks[b].statements : p.blocks[b].statements[m] = s

Held(p, s) ==
    \E b \in BlocksOf(p) :
        Bound(p, b) /\ \E m \in DOMAIN p.blocks[b].statements : p.blocks[b].statements[m] = s

IsOf(p, b, m, a) ==
    /\ b \in BlocksOf(p) /\ m \in DOMAIN p.blocks[b].statements /\ Bound(p, b)
    /\ p.blocks[b].statements[m].instruction = a

OnlyOne(p, a) == \E b, m : IsOf(p, b, m, a) /\ \A c, l : IsOf(p, c, l, a) => c = b /\ l = m

\* Statements of a block with an address are in the order of their instructions, which
\* start in the block.
Inside(p) ==
    \A b \in BlocksOf(p) : Bound(p, b) =>
        LET ss == p.blocks[b].statements
        IN  /\ \A m \in DOMAIN ss : ss[m].instruction # None =>
                  p.blocks[b].address <= ss[m].instruction /\ ss[m].instruction < p.blocks[b].successor
            /\ \A l, m \in DOMAIN ss :
                  (l < m /\ ss[l].instruction # None /\ ss[m].instruction # None)
                      => ss[l].instruction < ss[m].instruction

\* From p to q blocks with an address have been added and cut, and no statement has been
\* lost, doubled or changed.
Keeps(p, q) ==
    /\ BlocksOf(p) \subseteq BlocksOf(q)
    /\ \A b \in BlocksOf(p) :
          /\ q.blocks[b].address = p.blocks[b].address
          /\ ~Bound(p, b) => q.blocks[b] = p.blocks[b]
          /\ \A m \in DOMAIN q.blocks[b].statements :
                /\ m \in DOMAIN p.blocks[b].statements
                /\ q.blocks[b].statements[m] = p.blocks[b].statements[m]
    /\ \A b \in BlocksOf(q) \ BlocksOf(p) : Bound(q, b)
    /\ \A s : (Occurs(q, s) <=> Occurs(p, s)) /\ (Held(q, s) <=> Held(p, s))
    /\ \A a : OnlyOne(p, a) => OnlyOne(q, a)

\* Everything is kept when nothing happens.
LEMMA KeepsReflexive == \A p : Keeps(p, p)
BY DEF Keeps

\* What two steps keep they keep together.
LEMMA KeepsTransitive ==
    ASSUME NEW p, NEW q, NEW r, Keeps(p, q), Keeps(q, r)
    PROVE  Keeps(p, r)
<1>1. \A b \in BlocksOf(p) : Bound(q, b) <=> Bound(p, b)
  BY DEF Keeps, Bound
<1>2. \A b \in BlocksOf(q) : Bound(r, b) <=> Bound(q, b)
  BY DEF Keeps, Bound
<1>3. BlocksOf(p) \subseteq BlocksOf(q) /\ BlocksOf(q) \subseteq BlocksOf(r)
  BY DEF Keeps
<1>4. ASSUME NEW b \in BlocksOf(p)
      PROVE  /\ r.blocks[b].address = p.blocks[b].address
             /\ ~Bound(p, b) => r.blocks[b] = p.blocks[b]
             /\ \A m \in DOMAIN r.blocks[b].statements :
                   /\ m \in DOMAIN p.blocks[b].statements
                   /\ r.blocks[b].statements[m] = p.blocks[b].statements[m]
  BY <1>1, <1>3 DEF Keeps
<1>5. \A b \in BlocksOf(r) \ BlocksOf(p) : Bound(r, b)
  BY <1>1, <1>2, <1>3 DEF Keeps
<1>6. /\ \A s : (Occurs(r, s) <=> Occurs(p, s)) /\ (Held(r, s) <=> Held(p, s))
      /\ \A a : OnlyOne(p, a) => OnlyOne(r, a)
  BY DEF Keeps
<1> QED BY <1>3, <1>4, <1>5, <1>6 DEF Keeps

\* The list has been cut after its first k members.
CutInto(ss, low, high, k) ==
    /\ k \in 0..Len(ss)
    /\ DOMAIN low = 1..k
    /\ \A m \in 1..k : m \in DOMAIN ss /\ low[m] = ss[m]
    /\ DOMAIN high = 1..(Len(ss) - k)
    /\ \A m \in 1..(Len(ss) - k) : k + m \in DOMAIN ss /\ high[m] = ss[k + m]

\* A block that is split has a place where its statements are cut.
LEMMA HalvesPlaces ==
    ASSUME NEW S, NEW p \in Programs(S), NEW b \in BlocksOf(p), NEW a \in Nat,
           NEW q, NEW n, Halves(p, q, b, a, n)
    PROVE  \E k : /\ Cuts(p.blocks[b].statements, a, k)
                  /\ CutInto(p.blocks[b].statements, q.blocks[b].statements, q.blocks[n].statements, k)
<1> PICK ss : ss = p.blocks[b].statements
  OBVIOUS
<1>1. PICK k : /\ Cuts(ss, a, k)
               /\ q.blocks[b].statements = SubSeq(ss, 1, k)
               /\ q.blocks[n].statements = SubSeq(ss, k + 1, Len(ss))
  BY DEF Halves
<1>2. ss \in Seq(S) /\ Len(ss) \in Nat /\ DOMAIN ss = 1..Len(ss)
  BY ProgramParts
<1>3. k \in 0..Len(ss)
  BY <1>1 DEF Cuts
<1>4. /\ DOMAIN SubSeq(ss, 1, k) = 1..k
      /\ \A m \in 1..k : m \in DOMAIN ss /\ SubSeq(ss, 1, k)[m] = ss[m]
  BY <1>2, <1>3
<1>5. /\ DOMAIN SubSeq(ss, k + 1, Len(ss)) = 1..(Len(ss) - k)
      /\ \A m \in 1..(Len(ss) - k) : k + m \in DOMAIN ss /\ SubSeq(ss, k + 1, Len(ss))[m] = ss[k + m]
  <2>1. k + 1 \in Int /\ Len(ss) \in Int /\ k + 1 \in 1..(Len(ss) + 1)
    BY <1>2, <1>3
  <2>2. Len(SubSeq(ss, k + 1, Len(ss))) = Len(ss) - k
    BY <1>2, <1>3, <2>1
  <2>3. SubSeq(ss, k + 1, Len(ss)) \in Seq(S)
    BY <1>2, <1>3, <2>1
  <2>4. ASSUME NEW m \in 1..(Len(ss) - k)
        PROVE  k + m \in DOMAIN ss /\ SubSeq(ss, k + 1, Len(ss))[m] = ss[k + m]
    BY <1>2, <1>3
  <2> QED BY <2>2, <2>3, <2>4
<1>6. CutInto(ss, q.blocks[b].statements, q.blocks[n].statements, k)
  BY <1>1, <1>3, <1>4, <1>5 DEF CutInto
<1> QED BY <1>1, <1>6

\* Splitting a block loses no statement and doubles none.
LEMMA HalvesKeep ==
    ASSUME NEW S, NEW p \in Programs(S), NEW b \in BlocksOf(p), Bound(p, b), NEW a \in Nat,
           NEW q, NEW n, Halves(p, q, b, a, n)
    PROVE  Keeps(p, q)
<1> PICK ss : ss = p.blocks[b].statements
  OBVIOUS
<1> PICK low : low = q.blocks[b].statements
  OBVIOUS
<1> PICK high : high = q.blocks[n].statements
  OBVIOUS
<1>1. PICK k \in 0..Len(ss) :
              /\ DOMAIN low = 1..k
              /\ \A m \in 1..k : m \in DOMAIN ss /\ low[m] = ss[m]
              /\ DOMAIN high = 1..(Len(ss) - k)
              /\ \A m \in 1..(Len(ss) - k) : k + m \in DOMAIN ss /\ high[m] = ss[k + m]
  <2>1. \E k : CutInto(ss, low, high, k)
    BY HalvesPlaces
  <2> QED BY <2>1 DEF CutInto
<1>2. /\ BlocksOf(q) = BlocksOf(p) \cup {n} /\ n \notin BlocksOf(p) /\ n # b
      /\ \A c \in BlocksOf(p) \ {b} : q.blocks[c] = p.blocks[c]
      /\ q.blocks[b].address = p.blocks[b].address
      /\ q.blocks[n].address = a
  BY DEF Halves
<1>3. Len(ss) \in Nat /\ DOMAIN ss = 1..Len(ss)
  BY ProgramParts
<1>4. Bound(q, n) /\ \A c \in BlocksOf(p) : Bound(q, c) <=> Bound(p, c)
  BY <1>2 DEF Bound, None
<1>5. \A m \in DOMAIN ss : \/ m \in DOMAIN low /\ low[m] = ss[m]
                           \/ m - k \in DOMAIN high /\ high[m - k] = ss[m]
  <2> SUFFICES ASSUME NEW m \in DOMAIN ss
               PROVE  \/ m \in DOMAIN low /\ low[m] = ss[m]
                      \/ m - k \in DOMAIN high /\ high[m - k] = ss[m]
    OBVIOUS
  <2>1. CASE m <= k
    <3>1. m \in 1..k
      BY <1>3, <2>1
    <3> QED BY <1>1, <3>1
  <2>2. CASE m > k
    <3>1. m - k \in 1..(Len(ss) - k) /\ k + (m - k) = m
      BY <1>3, <2>2
    <3> QED BY <1>1, <3>1
  <2> QED BY <1>3, <2>1, <2>2
<1>6. \A s : Occurs(q, s) <=> Occurs(p, s)
  <2>1. ASSUME NEW s, Occurs(p, s) PROVE Occurs(q, s)
    <3>0. PICK c \in BlocksOf(p) : \E m \in DOMAIN p.blocks[c].statements : p.blocks[c].statements[m] = s
      BY <2>1 DEF Occurs
    <3>1. PICK m \in DOMAIN p.blocks[c].statements : p.blocks[c].statements[m] = s
      BY <3>0
    <3>2. CASE c = b
      BY <1>2, <1>5, <3>1, <3>2 DEF Occurs
    <3>3. CASE c # b
      BY <1>2, <3>1, <3>3 DEF Occurs
    <3> QED BY <3>2, <3>3
  <2>2. ASSUME NEW s, Occurs(q, s) PROVE Occurs(p, s)
    <3>0. PICK c \in BlocksOf(q) : \E m \in DOMAIN q.blocks[c].statements : q.blocks[c].statements[m] = s
      BY <2>2 DEF Occurs
    <3>1. PICK m \in DOMAIN q.blocks[c].statements : q.blocks[c].statements[m] = s
      BY <3>0
    <3>2. CASE c = b
      <4>1. m \in 1..k
        BY <1>1, <3>1, <3>2
      <4>2. m \in DOMAIN ss /\ ss[m] = s
        BY <1>1, <3>1, <3>2, <4>1
      <4> QED BY <4>2 DEF Occurs
    <3>3. CASE c = n
      <4>1. m \in 1..(Len(ss) - k)
        BY <1>1, <3>1, <3>3
      <4>2. k + m \in DOMAIN ss /\ ss[k + m] = s
        BY <1>1, <3>1, <3>3, <4>1
      <4> QED BY <4>2 DEF Occurs
    <3>4. CASE c # b /\ c # n
      BY <1>2, <3>1, <3>4 DEF Occurs
    <3> QED BY <3>2, <3>3, <3>4
  <2> QED BY <2>1, <2>2
<1>7. ASSUME NEW x, OnlyOne(p, x) PROVE OnlyOne(q, x)
  <2>1. PICK c, m : IsOf(p, c, m, x) /\ \A d, l : IsOf(p, d, l, x) => d = c /\ l = m
    BY <1>7 DEF OnlyOne
  <2>2. \A d, l : IsOf(q, d, l, x) => \/ d # b /\ d # n /\ IsOf(p, d, l, x)
                                      \/ d = b /\ l \in 1..k /\ IsOf(p, b, l, x)
                                      \/ d = n /\ l \in 1..(Len(ss) - k) /\ IsOf(p, b, k + l, x)
    <3> SUFFICES ASSUME NEW d, NEW l, IsOf(q, d, l, x)
                 PROVE  \/ d # b /\ d # n /\ IsOf(p, d, l, x)
                        \/ d = b /\ l \in 1..k /\ IsOf(p, b, l, x)
                        \/ d = n /\ l \in 1..(Len(ss) - k) /\ IsOf(p, b, k + l, x)
      OBVIOUS
    <3>1. CASE d = b
      <4>1. l \in 1..k /\ low[l].instruction = x
        BY <1>1, <3>1 DEF IsOf
      <4>2. l \in DOMAIN ss /\ ss[l].instruction = x
        BY <1>1, <4>1
      <4> QED BY <3>1, <4>1, <4>2 DEF IsOf
    <3>2. CASE d = n
      <4>1. l \in 1..(Len(ss) - k) /\ high[l].instruction = x
        BY <1>1, <3>2 DEF IsOf
      <4>2. k + l \in DOMAIN ss /\ ss[k + l].instruction = x
        BY <1>1, <4>1
      <4> QED BY <3>2, <4>1, <4>2 DEF IsOf
    <3>3. CASE d # b /\ d # n
      BY <1>2, <1>4, <3>3 DEF IsOf
    <3> QED BY <3>1, <3>2, <3>3
  <2>3. m \in DOMAIN p.blocks[c].statements /\ c \in BlocksOf(p) /\ Bound(p, c)
        /\ p.blocks[c].statements[m].instruction = x
    BY <2>1 DEF IsOf
  <2>4. CASE c # b
    <3>1. IsOf(q, c, m, x)
      BY <1>2, <1>4, <2>3, <2>4 DEF IsOf
    <3>2. \A d, l : IsOf(q, d, l, x) => d = c /\ l = m
      BY <2>1, <2>2, <2>4
    <3> QED BY <3>1, <3>2 DEF OnlyOne
  <2>5. CASE c = b /\ m <= k
    <3>1. m \in DOMAIN low /\ low[m] = ss[m]
      BY <1>1, <1>3, <2>3, <2>5
    <3>2. IsOf(q, b, m, x)
      BY <1>2, <1>4, <2>3, <2>5, <3>1 DEF IsOf
    <3>3. ASSUME NEW d, NEW l, IsOf(q, d, l, x) PROVE d = b /\ l = m
      <4>1. ~(d = n /\ l \in 1..(Len(ss) - k) /\ k + l = m)
        BY <1>3, <2>5
      <4> QED BY <2>1, <2>2, <2>5, <3>3, <4>1
    <3> QED BY <3>2, <3>3 DEF OnlyOne
  <2>6. CASE c = b /\ m > k
    <3>1. m - k \in DOMAIN high /\ high[m - k] = ss[m]
      <4>1. m - k \in 1..(Len(ss) - k) /\ k + (m - k) = m
        BY <1>3, <2>3, <2>6
      <4> QED BY <1>1, <4>1
    <3>2. IsOf(q, n, m - k, x)
      BY <1>2, <1>4, <2>3, <2>6, <3>1 DEF IsOf
    <3>3. ASSUME NEW d, NEW l, IsOf(q, d, l, x) PROVE d = n /\ l = m - k
      <4>1. \/ d # b /\ d # n /\ IsOf(p, d, l, x)
            \/ d = b /\ l \in 1..k /\ IsOf(p, b, l, x)
            \/ d = n /\ l \in 1..(Len(ss) - k) /\ IsOf(p, b, k + l, x)
        BY <2>2, <3>3
      <4>2. d = n /\ l \in 1..(Len(ss) - k) /\ k + l = m
        <5>1. ~(l \in 1..k /\ l = m)
          BY <2>6
        <5> QED BY <2>1, <2>6, <4>1, <5>1
      <4> QED BY <1>3, <4>2
    <3> QED BY <3>2, <3>3 DEF OnlyOne
  <2>7. m <= k \/ m > k
    BY <1>3, <2>3, ProgramParts
  <2> QED BY <2>4, <2>5, <2>6, <2>7
<1>8. ASSUME NEW c \in BlocksOf(p)
      PROVE  /\ q.blocks[c].address = p.blocks[c].address
             /\ ~Bound(p, c) => q.blocks[c] = p.blocks[c]
             /\ \A m \in DOMAIN q.blocks[c].statements :
                   /\ m \in DOMAIN p.blocks[c].statements
                   /\ q.blocks[c].statements[m] = p.blocks[c].statements[m]
  <2>1. CASE c = b
    BY <1>1, <1>2, <2>1
  <2>2. CASE c # b
    BY <1>2, <2>2
  <2> QED BY <2>1, <2>2
<1>9. \A s : Held(q, s) <=> Held(p, s)
  <2>1. ASSUME NEW s, Held(p, s) PROVE Held(q, s)
    <3>0. PICK c \in BlocksOf(p) :
             Bound(p, c) /\ \E m \in DOMAIN p.blocks[c].statements : p.blocks[c].statements[m] = s
      BY <2>1 DEF Held
    <3>1. PICK m \in DOMAIN p.blocks[c].statements : p.blocks[c].statements[m] = s
      BY <3>0
    <3>2. CASE c = b
      BY <1>2, <1>4, <1>5, <3>0, <3>1, <3>2 DEF Held
    <3>3. CASE c # b
      BY <1>2, <1>4, <3>0, <3>1, <3>3 DEF Held
    <3> QED BY <3>2, <3>3
  <2>2. ASSUME NEW s, Held(q, s) PROVE Held(p, s)
    <3>0. PICK c \in BlocksOf(q) :
             Bound(q, c) /\ \E m \in DOMAIN q.blocks[c].statements : q.blocks[c].statements[m] = s
      BY <2>2 DEF Held
    <3>1. PICK m \in DOMAIN q.blocks[c].statements : q.blocks[c].statements[m] = s
      BY <3>0
    <3>2. CASE c = b
      <4>1. m \in 1..k
        BY <1>1, <3>1, <3>2
      <4>2. m \in DOMAIN ss /\ ss[m] = s
        BY <1>1, <3>1, <3>2, <4>1
      <4> QED BY <4>2 DEF Held
    <3>3. CASE c = n
      <4>1. m \in 1..(Len(ss) - k)
        BY <1>1, <3>1, <3>3
      <4>2. k + m \in DOMAIN ss /\ ss[k + m] = s
        BY <1>1, <3>1, <3>3, <4>1
      <4> QED BY <4>2 DEF Held
    <3>4. CASE c # b /\ c # n
      BY <1>2, <1>4, <3>0, <3>1, <3>4 DEF Held
    <3> QED BY <3>2, <3>3, <3>4
  <2> QED BY <2>1, <2>2
<1> QED BY <1>2, <1>4, <1>6, <1>7, <1>8, <1>9 DEF Keeps

\* Statements stay within the range of their block when it is split between its ends.
LEMMA HalvesInside ==
    ASSUME NEW S, \A s \in S : s.instruction \in Nat \cup {None},
           NEW p \in Programs(S), NEW b \in BlocksOf(p), Bound(p, b), NEW a \in Nat,
           p.blocks[b].address < a, a < p.blocks[b].successor, p.blocks[b].successor \in Nat,
           NEW q, NEW n, Halves(p, q, b, a, n), Inside(p)
    PROVE  Inside(q)
<1> PICK ss : ss = p.blocks[b].statements
  OBVIOUS
<1> PICK low : low = q.blocks[b].statements
  OBVIOUS
<1> PICK high : high = q.blocks[n].statements
  OBVIOUS
<1>1. PICK k : Cuts(ss, a, k) /\ CutInto(ss, low, high, k)
  BY HalvesPlaces
<1>2. /\ k \in 0..Len(ss) /\ DOMAIN low = 1..k
      /\ \A m \in 1..k : m \in DOMAIN ss /\ low[m] = ss[m]
      /\ DOMAIN high = 1..(Len(ss) - k)
      /\ \A m \in 1..(Len(ss) - k) : k + m \in DOMAIN ss /\ high[m] = ss[k + m]
  BY <1>1 DEF CutInto
<1>3. /\ Len(ss) \in Nat /\ DOMAIN ss = 1..Len(ss)
      /\ \A m \in DOMAIN ss : ss[m].instruction \in Nat \cup {None}
  BY ProgramParts
<1>4. \A i \in DOMAIN ss : k < i <=> \E j \in 1..i : ss[j].instruction >= a
  BY <1>1 DEF Cuts
<1>5. /\ \A m \in DOMAIN ss : ss[m].instruction # None =>
            p.blocks[b].address <= ss[m].instruction /\ ss[m].instruction < p.blocks[b].successor
      /\ \A l, m \in DOMAIN ss :
            (l < m /\ ss[l].instruction # None /\ ss[m].instruction # None)
                => ss[l].instruction < ss[m].instruction
  BY DEF Inside
<1>6. /\ BlocksOf(q) = BlocksOf(p) \cup {n} /\ n \notin BlocksOf(p) /\ n # b
      /\ \A c \in BlocksOf(p) \ {b} : q.blocks[c] = p.blocks[c]
      /\ q.blocks[b].address = p.blocks[b].address /\ q.blocks[b].successor = a
      /\ q.blocks[n].address = a /\ q.blocks[n].successor = p.blocks[b].successor
  BY DEF Halves
<1>7. \A m \in 1..k : ss[m].instruction < a
  <2> SUFFICES ASSUME NEW m \in 1..k, ~(ss[m].instruction < a) PROVE FALSE
    OBVIOUS
  <2>1. m \in DOMAIN ss /\ ~(k < m) /\ m \in 1..m
    BY <1>2, <1>3
  <2>2. ss[m].instruction >= a
    BY <1>3, <2>1 DEF None
  <2> QED BY <1>4, <2>1, <2>2
<1>8. \A m \in DOMAIN ss : k < m /\ ss[m].instruction # None => a <= ss[m].instruction
  <2> SUFFICES ASSUME NEW m \in DOMAIN ss, k < m, ss[m].instruction # None
               PROVE  a <= ss[m].instruction
    OBVIOUS
  <2>1. PICK j \in 1..m : ss[j].instruction >= a
    BY <1>4
  <2>2. j \in DOMAIN ss /\ (j < m \/ j = m)
    BY <1>3
  <2>3. ss[j].instruction # None
    BY <2>1 DEF None
  <2>4. CASE j = m
    BY <1>3, <2>1, <2>4 DEF None
  <2>5. CASE j < m
    <3>1. ss[j].instruction < ss[m].instruction
      BY <1>5, <2>2, <2>3, <2>5
    <3> QED BY <1>3, <2>1, <2>2, <2>3, <3>1
  <2> QED BY <2>2, <2>4, <2>5
<1>9. ASSUME NEW c \in BlocksOf(q), Bound(q, c), NEW tt, tt = q.blocks[c].statements
      PROVE  /\ \A m \in DOMAIN tt : tt[m].instruction # None =>
                   q.blocks[c].address <= tt[m].instruction /\ tt[m].instruction < q.blocks[c].successor
             /\ \A l, m \in DOMAIN tt :
                   (l < m /\ tt[l].instruction # None /\ tt[m].instruction # None)
                       => tt[l].instruction < tt[m].instruction
  <2>1. CASE c = b
    <3>1. tt = low
      BY <1>9, <2>1
    <3>2. \A m \in DOMAIN tt : tt[m].instruction # None =>
              q.blocks[c].address <= tt[m].instruction /\ tt[m].instruction < q.blocks[c].successor
      <4>1. \A m \in DOMAIN tt : m \in DOMAIN ss /\ tt[m] = ss[m] /\ m \in 1..k
        BY <1>2, <3>1
      <4>2. q.blocks[c].address = p.blocks[b].address /\ q.blocks[c].successor = a
        BY <1>6, <2>1
      <4> QED BY <1>5, <1>7, <4>1, <4>2
    <3>3. \A l, m \in DOMAIN tt :
              (l < m /\ tt[l].instruction # None /\ tt[m].instruction # None)
                  => tt[l].instruction < tt[m].instruction
      <4>1. \A m \in DOMAIN tt : m \in DOMAIN ss /\ tt[m] = ss[m]
        BY <1>2, <3>1
      <4> QED BY <1>5, <4>1
    <3> QED BY <3>2, <3>3
  <2>2. CASE c = n
    <3>1. tt = high
      BY <1>9, <2>2
    <3>2. \A m \in DOMAIN tt : k + m \in DOMAIN ss /\ k < k + m /\ tt[m] = ss[k + m]
      <4> SUFFICES ASSUME NEW m \in DOMAIN tt
                   PROVE  k + m \in DOMAIN ss /\ k < k + m /\ tt[m] = ss[k + m]
        OBVIOUS
      <4>1. k \in Nat /\ m \in 1..(Len(ss) - k)
        BY <1>2, <1>3, <3>1
      <4>2. k < k + m
        BY <1>3, <4>1
      <4> QED BY <1>2, <3>1, <4>1, <4>2
    <3>3. \A m \in DOMAIN tt : tt[m].instruction # None =>
              q.blocks[c].address <= tt[m].instruction /\ tt[m].instruction < q.blocks[c].successor
      BY <1>5, <1>6, <1>8, <2>2, <3>2
    <3>4. \A l, m \in DOMAIN tt : l < m => k + l < k + m
      <4>1. DOMAIN tt = 1..(Len(ss) - k)
        BY <1>2, <3>1
      <4>2. DOMAIN tt \subseteq Int
        BY <4>1
      <4>3. k \in Nat
        <5>1. k \in 0..Len(ss) /\ Len(ss) \in Nat
          BY <1>2, <1>3
        <5> QED BY <5>1
      <4> QED BY <4>2, <4>3
    <3>5. \A l, m \in DOMAIN tt :
              (l < m /\ tt[l].instruction # None /\ tt[m].instruction # None)
                  => tt[l].instruction < tt[m].instruction
      BY <1>5, <3>2, <3>4
    <3> QED BY <3>3, <3>5
  <2>3. CASE c # b /\ c # n
    <3>1. c \in BlocksOf(p) /\ q.blocks[c] = p.blocks[c] /\ Bound(p, c)
      BY <1>6, <1>9, <2>3 DEF Bound
    <3> QED BY <1>9, <3>1 DEF Inside
  <2> QED BY <2>1, <2>2, <2>3
<1> QED BY <1>9 DEF Inside

\* An empty block with an address disturbs no statement.
LEMMA AddedKeeps ==
    ASSUME NEW p, NEW q, NEW a \in Nat, NEW n,
           BlocksOf(q) = BlocksOf(p) \cup {n}, n \notin BlocksOf(p),
           \A c \in BlocksOf(p) : q.blocks[c] = p.blocks[c], q.blocks[n] = NewBlock(a)
    PROVE  Keeps(p, q) /\ (Inside(p) => Inside(q))
<1>1. /\ q.blocks[n].address = a /\ q.blocks[n].successor = a /\ q.blocks[n].statements = <<>>
      /\ DOMAIN q.blocks[n].statements = {}
  BY DEF NewBlock
<1>2. Bound(q, n) /\ \A c \in BlocksOf(p) : Bound(q, c) <=> Bound(p, c)
  BY <1>1 DEF Bound, None
<1>3. \A s : Occurs(q, s) <=> Occurs(p, s)
  BY <1>1 DEF Occurs
<1>8. \A s : Held(q, s) <=> Held(p, s)
  BY <1>1, <1>2 DEF Held
<1>4. \A b, m, x : IsOf(q, b, m, x) <=> IsOf(p, b, m, x)
  BY <1>1, <1>2 DEF IsOf
<1>5. \A x : OnlyOne(p, x) => OnlyOne(q, x)
  BY <1>4 DEF OnlyOne
<1>6. Keeps(p, q)
  BY <1>2, <1>3, <1>5, <1>8 DEF Keeps
<1>7. Inside(p) => Inside(q)
  BY <1>1, <1>2 DEF Inside
<1> QED BY <1>6, <1>7

\* createBasicBlock() cuts what it must and keeps everything.
LEMMA CreateBasicBlockKeeps ==
    ASSUME NEW S, \A s \in S : s.instruction \in Nat \cup {None},
           NEW p \in Programs(S), Mapped(p), NEW a \in Nat, NEW q, q = CreateBasicBlock(p, a)
    PROVE  /\ q \in Programs(S) /\ q.called = p.called /\ Mapped(q) /\ Keeps(p, q)
           /\ StartingAt(q, a) # {}
           /\ Exact(p) => Exact(q)
           /\ Inside(p) => Inside(q)
<1> PICK n : n = Len(p.blocks) + 1
  OBVIOUS
<1>1. CASE StartingAt(p, a) # {}
  <2>1. q = p
    BY <1>1 DEF CreateBasicBlock
  <2> QED BY <1>1, <2>1, KeepsReflexive
<1>2. CASE StartingAt(p, a) = {} /\ Covering(p, a) = {}
  <2>1. /\ q \in Programs(S) /\ q.called = p.called
        /\ BlocksOf(q) = BlocksOf(p) \cup {n} /\ n \notin BlocksOf(p)
        /\ \A c \in BlocksOf(p) : q.blocks[c] = p.blocks[c]
        /\ q.blocks[n] = NewBlock(a)
        /\ Mapped(q)
        /\ Exact(p) => Exact(q)
    BY <1>2, CreateBasicBlockAdds
  <2>2. Keeps(p, q) /\ (Inside(p) => Inside(q))
    BY <2>1, AddedKeeps
  <2>3. n \in StartingAt(q, a)
    BY <2>1 DEF StartingAt, NewBlock, None
  <2> QED BY <2>1, <2>2, <2>3
<1>3. CASE StartingAt(p, a) = {} /\ Covering(p, a) # {}
  <2>1. PICK b \in BlocksOf(p) :
           /\ Bound(p, b) /\ p.blocks[b].address < a /\ a < p.blocks[b].successor
           /\ q \in Programs(S) /\ q.called = p.called
           /\ Halves(p, q, b, a, n)
           /\ Mapped(q)
           /\ Exact(p) => Exact(q)
    BY <1>3, CreateBasicBlockCuts
  <2>2. Keeps(p, q)
    BY <2>1, HalvesKeep
  <2>3. p.blocks[b].successor \in Nat
    BY <2>1 DEF Mapped, Located
  <2>4. Inside(p) => Inside(q)
    BY <2>1, <2>3, HalvesInside
  <2>5. n \in StartingAt(q, a)
    BY <2>1 DEF StartingAt, Halves, None
  <2> QED BY <2>1, <2>2, <2>4, <2>5
<1> QED BY <1>1, <1>2, <1>3
-----------------------------------------------------------------------------
(* getBasicBlockForInstruction(), when nothing has been translated behind it. *)

\* No key with anything in it starts at "a" or behind it.
Before(es, a) == \A e \in es : e.range[1] < e.range[2] => e.range[1] < a

\* In r the block b has been found for an instruction at "a", or has been made for it.
Found(p, r, b, a) ==
    /\ r.called = p.called
    /\ BlocksOf(r) = BlocksOf(p) \cup {b} /\ Bound(r, b)
    /\ \A c \in BlocksOf(p) : r.blocks[c] = p.blocks[c]
    /\ b \notin BlocksOf(p) => r.blocks[b] = NewBlock(a)
    /\ r.blocks[b].address <= a
    /\ \/ r.blocks[b].address = a
       \/ a <= r.blocks[b].successor /\ \A c \in BlocksOf(r) : r.blocks[c].address # a
    /\ Before(r.ranges, a)
    /\ \A e \in r.ranges : (e.range[1] < a /\ a < e.range[2])
           => SameKey(e.range, RangeOfBlock(r, b))
    /\ Exact(p) => Exact(r)

\* The block for an instruction: one that is there, or a new one that starts at it.
LEMMA FindsBlock ==
    ASSUME NEW S, NEW p \in Programs(S), Mapped(p),
           NEW i, i.address \in Nat, Before(p.ranges, i.address),
           NEW b, b = BlockForInstruction(p, i),
           NEW r, r = IF b \in BlocksOf(p) THEN p ELSE CreateBasicBlock(p, i.address)
    PROVE  r \in Programs(S) /\ Mapped(r) /\ Found(p, r, b, i.address)
<1> PICK a : a = i.address
  OBVIOUS
<1>1. a \in Nat /\ a \in Int /\ a - 1 \in Int /\ a # None
  BY DEF None
<1>2. \A e \in p.ranges : /\ e.range \in Nat \X Nat /\ Forward(e.range)
                          /\ e.range[1] \in Nat /\ e.range[2] \in Nat
  BY ProgramParts DEF Mapped, Fits, Entries
<1>3. CASE StartingAt(p, a) # {}
  <2>1. b \in BlocksOf(p) /\ p.blocks[b].address = a
    BY <1>3 DEF BlockForInstruction, StartingAt, The
  <2>2. r = p /\ Bound(p, b)
    BY <1>1, <2>1 DEF Bound
  <2>3. RangeOfBlock(r, b) = <<a, p.blocks[b].successor>> /\ p.blocks[b].successor \in Nat
        /\ a <= p.blocks[b].successor
    BY <2>1, <2>2 DEF RangeOfBlock, Mapped, Located
  <2>4. \A e \in r.ranges : (e.range[1] < a /\ a < e.range[2]) => SameKey(e.range, RangeOfBlock(r, b))
    <3> SUFFICES ASSUME NEW e \in r.ranges, e.range[1] < a, a < e.range[2]
                 PROVE  SameKey(e.range, RangeOfBlock(r, b))
      OBVIOUS
    <3> PICK y : y = p.blocks[b].successor
      OBVIOUS
    <3>1. e.range \in Int \X Int /\ <<a, y>> \in Int \X Int /\ Forward(e.range) /\ Forward(<<a, y>>)
      BY <1>1, <1>2, <2>2, <2>3 DEF Forward
    <3>2. a < e.range[2] /\ e.range[1] < y
      BY <1>1, <1>2, <2>2, <2>3
    <3>3. SameKey(e.range, <<a, y>>)
      BY <3>1, <3>2, SameKeys
    <3> QED BY <2>3, <3>3
  <2> QED BY <1>1, <2>1, <2>2, <2>4 DEF Found
<1>4. CASE StartingAt(p, a) = {} /\ Covering(p, a - 1) # {}
  <2>1. PICK e \in p.ranges : /\ The(Covering(p, a - 1)) = e.block
                              /\ e.range[1] <= a - 1 /\ a - 1 < e.range[2]
    BY <1>1, <1>4, CoveringKey
  <2>2. b = e.block
    BY <1>4, <2>1 DEF BlockForInstruction
  <2>3. /\ b \in BlocksOf(p) /\ Bound(p, b)
        /\ p.blocks[b].address \in Nat /\ p.blocks[b].successor \in Nat
        /\ p.blocks[b].address <= e.range[1] /\ e.range[2] <= p.blocks[b].successor
        /\ SameKey(e.range, RangeOfBlock(p, b))
    BY <2>2 DEF Mapped, Fits, Located
  <2>4. r = p
    BY <2>3
  <2>5. p.blocks[b].address <= a /\ a <= p.blocks[b].successor
    BY <1>1, <1>2, <2>1, <2>3
  <2>6. \A c \in BlocksOf(p) : p.blocks[c].address # a
    BY <1>1, <1>4 DEF StartingAt
  <2>7. \A f \in p.ranges : (f.range[1] < a /\ a < f.range[2]) => f = e
    <3> SUFFICES ASSUME NEW f \in p.ranges, f.range[1] < a, a < f.range[2], f # e PROVE FALSE
      OBVIOUS
    <3>1. Left(e.range, f.range) \/ Left(f.range, e.range)
      BY DEF Mapped, Ordered
    <3> QED BY <1>1, <1>2, <2>1, <3>1 DEF Left
  <2> QED BY <2>3, <2>4, <2>5, <2>6, <2>7 DEF Found
<1>5. CASE StartingAt(p, a) = {} /\ Covering(p, a - 1) = {}
  <2>1. b = Len(p.blocks) + 1 /\ b \notin BlocksOf(p)
    BY <1>5, ProgramParts DEF BlockForInstruction, LastBlock
  <2>2. r = CreateBasicBlock(p, a)
    BY <2>1
  <2>3. \A e \in p.ranges : ~(e.range[1] <= a - 1 /\ a - 1 < e.range[2])
    <3>1. \A x : Covering(p, a - 1) # {x}
      BY <1>5
    <3> PICK y : y = a - 1
      OBVIOUS
    <3>2. y \in Int
      BY <1>1
    <3>3. ~\E e \in p.ranges : Covering(p, y) = {e.block}
      BY <3>1
    <3>4. \A e \in p.ranges : ~(e.range[1] <= y /\ y < e.range[2])
      BY <3>2, <3>3, CoveringKey, Zenon
    <3> QED BY <3>4
  <2>4. \A e \in p.ranges : ~(e.range[1] <= a /\ a < e.range[2])
    <3> SUFFICES ASSUME NEW e \in p.ranges, e.range[1] <= a, a < e.range[2] PROVE FALSE
      OBVIOUS
    <3>1. e.range[1] < a
      BY <1>1, <1>2 DEF Before
    <3> QED BY <1>1, <1>2, <2>3, <3>1
  <2>5. Covering(p, a) = {}
    BY <1>1, <2>4, CoveringKey
  <2>6. /\ r \in Programs(S) /\ r.called = p.called
        /\ BlocksOf(r) = BlocksOf(p) \cup {b}
        /\ \A c \in BlocksOf(p) : r.blocks[c] = p.blocks[c]
        /\ r.blocks[b] = NewBlock(a)
        /\ Mapped(r)
        /\ \A e \in r.ranges : e.range = <<a, a>> \/ \E f \in p.ranges : e.range = f.range
        /\ Exact(p) => Exact(r)
    BY <1>1, <1>5, <2>1, <2>2, <2>5, CreateBasicBlockAdds
  <2>7. r.blocks[b].address = a /\ Bound(r, b)
    BY <1>1, <2>6 DEF NewBlock, Bound
  <2>8. \A e \in r.ranges : e.range[1] < e.range[2] => e.range[1] < a
    <3> SUFFICES ASSUME NEW e \in r.ranges, e.range[1] < e.range[2] PROVE e.range[1] < a
      OBVIOUS
    <3>1. CASE e.range = <<a, a>>
      BY <1>1, <3>1
    <3>2. CASE \E f \in p.ranges : e.range = f.range
      BY <3>2 DEF Before
    <3> QED BY <2>6, <3>1, <3>2
  <2>9. \A e \in r.ranges : ~(e.range[1] < a /\ a < e.range[2])
    <3> SUFFICES ASSUME NEW e \in r.ranges, e.range[1] < a, a < e.range[2] PROVE FALSE
      OBVIOUS
    <3>1. CASE e.range = <<a, a>>
      BY <1>1, <3>1
    <3>2. CASE \E f \in p.ranges : e.range = f.range
      BY <1>1, <1>2, <2>4, <3>2
    <3> QED BY <2>6, <3>1, <3>2
  <2> QED BY <1>1, <2>1, <2>6, <2>7, <2>8, <2>9 DEF Before, Found
<1> QED BY <1>3, <1>4, <1>5

\* What block an instruction got, and that the map still fits.
Extended(p, q, b, i) ==
    /\ q.called = p.called
    /\ BlocksOf(q) = BlocksOf(p) \cup {b} /\ Bound(q, b)
    /\ \A c \in BlocksOf(p) \ {b} : q.blocks[c] = p.blocks[c]
    /\ b \in BlocksOf(p) => /\ q.blocks[b].address = p.blocks[b].address
                            /\ q.blocks[b].statements = p.blocks[b].statements
    /\ b \notin BlocksOf(p) => q.blocks[b].statements = <<>>
    /\ q.blocks[b].address <= i.address /\ q.blocks[b].successor = i.address + i.size
    /\ \A e \in q.ranges : e.range[1] < e.range[2] =>
           e.range[1] <= i.address /\ e.range[2] <= i.address + i.size

\* The block for an instruction reaches the end of the instruction, and where the
\* instruction begins behind all other blocks the map stays exact.
LEMMA ExtendsBlock ==
    ASSUME NEW S, NEW p \in Programs(S), Mapped(p),
           NEW i, i.address \in Nat, i.size \in Nat \ {0}, Before(p.ranges, i.address),
           NEW b, b = BlockForInstruction(p, i), NEW q, q = ExtendForInstruction(p, i)
    PROVE  /\ q \in Programs(S) /\ Mapped(q) /\ Extended(p, q, b, i)
           /\ (/\ Exact(p)
               /\ \A c \in BlocksOf(p) : Bound(p, c) => p.blocks[c].successor <= i.address)
              => Exact(q)
<1> PICK a : a = i.address
  OBVIOUS
<1> PICK z : z = i.address + i.size
  OBVIOUS
<1>1. a \in Nat /\ z \in Nat /\ a < z
  OBVIOUS
<1> PICK r : r = IF b \in BlocksOf(p) THEN p ELSE CreateBasicBlock(p, i.address)
  OBVIOUS
<1>2. /\ r \in Programs(S) /\ r.called = p.called /\ Mapped(r)
      /\ BlocksOf(r) = BlocksOf(p) \cup {b} /\ Bound(r, b)
      /\ \A c \in BlocksOf(p) : r.blocks[c] = p.blocks[c]
      /\ b \notin BlocksOf(p) => r.blocks[b] = NewBlock(a)
      /\ r.blocks[b].address <= a
      /\ \/ r.blocks[b].address = a
         \/ a <= r.blocks[b].successor /\ \A c \in BlocksOf(r) : r.blocks[c].address # a
      /\ Before(r.ranges, a)
      /\ \A e \in r.ranges : (e.range[1] < a /\ a < e.range[2])
             => SameKey(e.range, RangeOfBlock(r, b))
      /\ Exact(p) => Exact(r)
  <2>1. r \in Programs(S) /\ Mapped(r) /\ Found(p, r, b, a)
    BY FindsBlock
  <2> QED BY <2>1 DEF Found
<1> PICK t : t = RemoveRange(r, b)
  OBVIOUS
<1> PICK u : u = [t EXCEPT !.blocks[b].successor = z]
  OBVIOUS
<1>3. q = AddRange(u, b)
  BY Zenon DEF ExtendForInstruction
<1> PICK x : x = r.blocks[b].address
  OBVIOUS
<1> PICK y : y = r.blocks[b].successor
  OBVIOUS
<1>4. /\ b \in BlocksOf(r) /\ x \in Nat /\ y \in Nat /\ x <= y /\ x <= a /\ RangeOfBlock(r, b) = <<x, y>>
      /\ \A c \in BlocksOf(r) : r.blocks[c].address = x => c = b
  BY <1>2 DEF Mapped, Located, RangeOfBlock
<1>5. /\ t \in Programs(S) /\ t.blocks = r.blocks /\ t.called = r.called
      /\ t.ranges \subseteq r.ranges
      /\ \A e \in r.ranges : e \in t.ranges <=> ~SameKey(e.range, <<x, y>>)
  BY <1>2, <1>4, RemoveRangeParts
<1>6. /\ u \in Programs(S) /\ u.ranges = t.ranges /\ u.called = r.called
      /\ BlocksOf(u) = BlocksOf(r)
      /\ \A c \in BlocksOf(r) \ {b} : u.blocks[c] = r.blocks[c]
      /\ u.blocks[b].address = x /\ u.blocks[b].successor = z
      /\ u.blocks[b].statements = r.blocks[b].statements
  <2>1. /\ t.blocks \in Seq(Blocks(S)) /\ b \in DOMAIN t.blocks /\ t.blocks[b] \in Blocks(S)
        /\ t.blocks[b] = r.blocks[b]
    BY <1>2, <1>4, <1>5, ProgramParts DEF BlocksOf
  <2> PICK old : old = t.blocks[b]
    OBVIOUS
  <2> PICK new : new = [old EXCEPT !.successor = z]
    OBVIOUS
  <2>2. /\ new \in Blocks(S) /\ new.address = old.address /\ new.successor = z
        /\ new.statements = old.statements
    BY <1>1, <2>1 DEF Blocks
  <2> PICK bs : bs = [t.blocks EXCEPT ![b] = new]
    OBVIOUS
  <2>3. /\ bs \in Seq(Blocks(S)) /\ DOMAIN bs = DOMAIN t.blocks /\ bs[b] = new
        /\ \A c \in DOMAIN t.blocks \ {b} : bs[c] = t.blocks[c]
    BY <2>1, <2>2
  <2>4. u = [t EXCEPT !.blocks = bs]
    <3>1. bs = [t.blocks EXCEPT ![b].successor = z]
      BY <2>1
    <3> QED BY <3>1
  <2>5. u \in Programs(S) /\ u.blocks = bs /\ u.ranges = t.ranges /\ u.called = t.called
    BY <1>5, <2>3, <2>4 DEF Programs
  <2> QED BY <1>5, <2>1, <2>2, <2>3, <2>5 DEF BlocksOf
<1>7. /\ \A c \in BlocksOf(r) : /\ u.blocks[c].address = r.blocks[c].address
                                /\ Bound(u, c) <=> Bound(r, c)
      /\ RangeOfBlock(u, b) = <<x, z>> /\ Bound(u, b) /\ b \in BlocksOf(u)
      /\ EntryOf(u, b) = [range |-> <<x, z>>, block |-> b]
  <2>1. u.blocks[b].address = x /\ u.blocks[b].successor = z /\ b \in BlocksOf(u) /\ Bound(r, b)
    BY <1>2, <1>4, <1>6
  <2>2. \A c \in BlocksOf(r) : u.blocks[c].address = r.blocks[c].address
    BY <1>4, <1>6
  <2>3. \A c \in BlocksOf(r) : Bound(u, c) <=> Bound(r, c)
    BY <2>2 DEF Bound
  <2>4. RangeOfBlock(u, b) = <<x, z>>
    BY <2>1 DEF RangeOfBlock
  <2>5. EntryOf(u, b) = [range |-> <<x, z>>, block |-> b]
    BY <2>4 DEF EntryOf
  <2> QED BY <1>4, <2>1, <2>2, <2>3, <2>4, <2>5
<1>8. \A e \in r.ranges : /\ e.range \in Nat \X Nat /\ Forward(e.range)
                          /\ e.range[1] \in Nat /\ e.range[2] \in Nat
  BY <1>2, ProgramParts DEF Mapped, Fits, Entries
<1>9. \A e \in t.ranges : /\ e \in r.ranges /\ e.block # b /\ Fits(r, e) /\ ~SameKey(e.range, <<x, y>>)
  BY <1>2, <1>4, <1>5 DEF Mapped, Fits
<1>10. Mapped(u)
  <2>1. ASSUME NEW c \in BlocksOf(u), Bound(u, c)
        PROVE  /\ u.blocks[c].address \in Nat /\ u.blocks[c].successor \in Nat
               /\ u.blocks[c].address <= u.blocks[c].successor
               /\ \A d \in BlocksOf(u) : u.blocks[d].address = u.blocks[c].address => d = c
    <3>1. /\ r.blocks[c].address \in Nat /\ r.blocks[c].successor \in Nat
          /\ r.blocks[c].address <= r.blocks[c].successor
          /\ \A d \in BlocksOf(r) : r.blocks[d].address = r.blocks[c].address => d = c
      BY <1>2, <1>6, <1>7, <2>1 DEF Mapped, Located
    <3>2. CASE c = b
      <4>1. x <= z /\ u.blocks[c].address = x /\ u.blocks[c].successor = z
        BY <1>1, <1>4, <1>6, <3>2
      <4>2. \A d \in BlocksOf(u) : u.blocks[d].address = x => d = b
        BY <1>4, <1>6, <1>7, Zenon
      <4> QED BY <1>1, <1>4, <3>2, <4>1, <4>2
    <3>3. CASE c # b
      BY <1>6, <1>7, <3>1, <3>3
    <3> QED BY <3>2, <3>3
  <2>2. Ordered(u.ranges)
    BY <1>2, <1>5, <1>6 DEF Mapped, Ordered
  <2>3. ASSUME NEW e \in u.ranges PROVE Fits(u, e)
    <3>1. Fits(r, e) /\ e.block # b
      BY <1>6, <1>9
    <3>2. e.block \in BlocksOf(r) /\ u.blocks[e.block] = r.blocks[e.block]
      BY <1>6, <3>1 DEF Fits
    <3>3. RangeOfBlock(u, e.block) = RangeOfBlock(r, e.block) /\ (Bound(u, e.block) <=> Bound(r, e.block))
      BY <3>2 DEF RangeOfBlock, Bound
    <3> QED BY <1>6, <3>1, <3>2, <3>3 DEF Fits
  <2> QED BY <2>1, <2>2, <2>3 DEF Mapped, Located
<1>11. ASSUME NEW e \in t.ranges PROVE e.range[1] < e.range[2] => e.range[1] < a /\ e.range[2] <= a
  <2> SUFFICES ASSUME e.range[1] < e.range[2] PROVE e.range[1] < a /\ e.range[2] <= a
    OBVIOUS
  <2>1. e.range[1] < a
    BY <1>2, <1>9 DEF Before
  <2>2. ~(a < e.range[2])
    BY <1>2, <1>4, <1>9, <2>1
  <2> QED BY <1>1, <1>8, <1>9, <2>1, <2>2
<1>12. ASSUME NEW e \in t.ranges, SameKey(e.range, <<x, z>>)
       PROVE  x <= e.range[1] /\ e.range[2] <= z
  <2>1. /\ e.range \in Int \X Int /\ Forward(e.range) /\ e.range[1] \in Nat /\ e.range[2] \in Nat
        /\ <<x, y>> \in Int \X Int /\ <<x, z>> \in Int \X Int /\ Forward(<<x, y>>) /\ Forward(<<x, z>>)
    BY <1>1, <1>4, <1>8, <1>9 DEF Forward
  <2>2. e.range = <<x, z>> \/ (x < e.range[2] /\ e.range[1] < z)
    BY <1>12, <2>1, SameKeys
  <2>3. ~(x < e.range[2] /\ e.range[1] < y)
    BY <1>9, <2>1, SameKeys
  <2>4. CASE e.range = <<x, z>>
    BY <1>1, <1>4, <2>4
  <2>5. CASE x < e.range[2] /\ e.range[1] < z
    <3>1. x <= e.range[1]
      BY <1>4, <2>1, <2>3, <2>5
    <3>2. CASE e.range[1] < e.range[2]
      BY <1>1, <1>11, <2>1, <3>1, <3>2
    <3>3. CASE ~(e.range[1] < e.range[2])
      BY <1>1, <2>1, <2>5, <3>1, <3>3
    <3> QED BY <3>2, <3>3
  <2> QED BY <2>2, <2>4, <2>5
<1>13. /\ q \in Programs(S) /\ q.blocks = u.blocks /\ q.called = u.called
       /\ Mapped(q)
       /\ \A e \in q.ranges : e = EntryOf(u, b) \/ \E f \in u.ranges : e.range = f.range
       /\ (\A e \in u.ranges : ~SameKey(e.range, RangeOfBlock(u, b)))
              => q.ranges = u.ranges \cup {EntryOf(u, b)}
  <2>1. \A e \in u.ranges : SameKey(e.range, RangeOfBlock(u, b)) =>
            u.blocks[b].address <= e.range[1] /\ e.range[2] <= u.blocks[b].successor
    BY <1>6, <1>7, <1>12, SMTT(20)
  <2>2. u \in Programs(S) /\ b \in BlocksOf(u) /\ Bound(u, b)
    BY <1>6, <1>7, SMTT(20)
  <2>3. q \in Programs(S) /\ Mapped(q) /\ KeyAdded(u, q, b)
    BY <1>3, <1>10, <2>1, <2>2, AddRangeMaps, ZenonT(60)
  <2> QED BY <2>3 DEF KeyAdded
<1>14. BlocksOf(q) = BlocksOf(u) /\ Bound(q, b)
  BY <1>7, <1>13 DEF BlocksOf, Bound
<1>15. \A e \in q.ranges : e.range[1] < e.range[2] => e.range[1] <= a /\ e.range[2] <= z
  <2> SUFFICES ASSUME NEW e \in q.ranges, e.range[1] < e.range[2]
               PROVE  e.range[1] <= a /\ e.range[2] <= z
    OBVIOUS
  <2>1. CASE e = EntryOf(u, b)
    <3>1. e.range = <<x, z>>
      BY <1>7, <2>1
    <3> QED BY <1>1, <1>4, <3>1
  <2>2. CASE \E f \in u.ranges : e.range = f.range
    <3>1. PICK f \in t.ranges : e.range = f.range
      BY <1>6, <2>2
    <3>2. f.range[1] < a /\ f.range[2] <= a /\ f.range[1] \in Nat /\ f.range[2] \in Nat
      BY <1>8, <1>9, <1>11, <3>1
    <3> QED BY <1>1, <3>1, <3>2
  <2> QED BY <1>13, <2>1, <2>2
<1>16. Extended(p, q, b, i)
  <2>1. q.called = p.called /\ BlocksOf(q) = BlocksOf(p) \cup {b} /\ Bound(q, b)
    BY <1>2, <1>6, <1>13, <1>14
  <2>2. \A c \in BlocksOf(p) \ {b} : q.blocks[c] = p.blocks[c]
    BY <1>2, <1>6, <1>13
  <2>3. b \in BlocksOf(p) => /\ q.blocks[b].address = p.blocks[b].address
                             /\ q.blocks[b].statements = p.blocks[b].statements
    BY <1>2, <1>6, <1>13
  <2>4. b \notin BlocksOf(p) => q.blocks[b].statements = <<>>
    BY <1>2, <1>6, <1>13 DEF NewBlock
  <2>5. q.blocks[b].address <= a /\ q.blocks[b].successor = z
    BY <1>4, <1>6, <1>13
  <2> QED BY <1>15, <2>1, <2>2, <2>3, <2>4, <2>5 DEF Extended
<1>17. ASSUME Exact(p), \A c \in BlocksOf(p) : Bound(p, c) => p.blocks[c].successor <= a
       PROVE  Exact(q)
  <2>1. r.ranges = {EntryOf(r, c) : c \in {d \in BlocksOf(r) : Bound(r, d)}}
    BY <1>2, <1>17 DEF Exact
  <2>2. \A c : EntryOf(r, c).block = c /\ EntryOf(r, c).range = RangeOfBlock(r, c)
    BY DEF EntryOf
  <2>3. \A e \in r.ranges : e \in t.ranges <=> e.block # b
    <3> SUFFICES ASSUME NEW e \in r.ranges, e.block # b PROVE e \in t.ranges
      BY <1>9
    <3>1. EntryOf(r, b) \in r.ranges /\ e # EntryOf(r, b)
      BY <1>2, <1>4, <2>1, <2>2
    <3>2. Left(e.range, <<x, y>>) \/ Left(<<x, y>>, e.range)
      BY <1>2, <1>4, <2>2, <3>1 DEF Mapped, Ordered
    <3> QED BY <1>5, <3>2 DEF SameKey
  <2>4. t.ranges = {EntryOf(r, c) : c \in {d \in BlocksOf(r) \ {b} : Bound(r, d)}}
    <3>1. \A f \in t.ranges : f \in {EntryOf(r, c) : c \in {d \in BlocksOf(r) \ {b} : Bound(r, d)}}
      BY <1>9, <2>1, <2>2
    <3>2. \A f \in {EntryOf(r, c) : c \in {d \in BlocksOf(r) \ {b} : Bound(r, d)}} : f \in t.ranges
      BY <2>1, <2>2, <2>3
    <3> QED BY <3>1, <3>2
  <2>5. \A e \in t.ranges : ~SameKey(e.range, <<x, z>>)
    <3> SUFFICES ASSUME NEW e \in t.ranges, SameKey(e.range, <<x, z>>) PROVE FALSE
      OBVIOUS
    <3>1. PICK c \in BlocksOf(r) \ {b} : Bound(r, c) /\ e = EntryOf(r, c)
      BY <2>4
    <3> PICK v : v = r.blocks[c].address
      OBVIOUS
    <3> PICK w : w = r.blocks[c].successor
      OBVIOUS
    <3>2. e.range = <<v, w>> /\ v \in Nat /\ w \in Nat /\ v <= w /\ v # x
      BY <1>2, <1>4, <3>1, SMTT(20) DEF EntryOf, RangeOfBlock, Mapped, Located
    <3>3. w <= a
      <4>1. c \in BlocksOf(p) /\ r.blocks[c] = p.blocks[c] /\ Bound(p, c)
        BY <1>2, <3>1 DEF Bound
      <4> QED BY <1>17, <4>1
    <3>4. /\ e.range \in Int \X Int /\ Forward(e.range)
          /\ <<x, y>> \in Int \X Int /\ <<x, z>> \in Int \X Int /\ Forward(<<x, y>>) /\ Forward(<<x, z>>)
      BY <1>1, <1>4, <1>8, <1>9 DEF Forward
    <3>5. <<v, w>> # <<x, z>> /\ SameKey(<<v, w>>, <<x, z>>)
      BY <3>2
    <3>6. x < w /\ v < z
      BY <3>2, <3>4, <3>5, SameKeys
    <3>7. ~SameKey(<<v, w>>, <<x, y>>)
      BY <1>9, <3>2
    <3>8. ~(x < w /\ v < y)
      BY <3>2, <3>4, <3>7, SameKeys
    <3>9. CASE x = a
      BY <1>1, <1>4, <3>2, <3>3, <3>6, <3>9
    <3>10. CASE a <= y /\ \A d \in BlocksOf(r) : r.blocks[d].address # a
      <4>1. v # a
        BY <3>1, <3>10
      <4> QED BY <1>1, <1>4, <3>2, <3>3, <3>6, <3>8, <3>10, <4>1
    <3> QED BY <1>2, <3>9, <3>10
  <2>6. q.ranges = t.ranges \cup {EntryOf(u, b)}
    <3>1. \A e \in u.ranges : ~SameKey(e.range, RangeOfBlock(u, b))
      BY <1>6, <1>7, <2>5, SMTT(20)
    <3> QED BY <1>6, <1>13, <3>1, SMTT(20)
  <2>7. \A c \in BlocksOf(r) \ {b} : EntryOf(q, c) = EntryOf(r, c) /\ (Bound(q, c) <=> Bound(r, c))
    BY <1>6, <1>13 DEF EntryOf, RangeOfBlock, Bound
  <2>8. EntryOf(q, b) = EntryOf(u, b)
    BY <1>13 DEF EntryOf, RangeOfBlock
  <2>9. BlocksOf(q) = (BlocksOf(r) \ {b}) \cup {b}
    BY <1>4, <1>6, <1>14
  <2>10. {EntryOf(q, c) : c \in {d \in BlocksOf(q) : Bound(q, d)}}
          = {EntryOf(r, c) : c \in {d \in BlocksOf(r) \ {b} : Bound(r, d)}} \cup {EntryOf(q, b)}
    BY <1>14, <2>7, <2>9
  <2> QED BY <2>4, <2>6, <2>8, <2>10 DEF Exact
<1> QED BY <1>13, <1>16, <1>17
-----------------------------------------------------------------------------
(* Statements that are added. *)

\* The list tt is ss and then s.
LongerBy(ss, tt, s) ==
    /\ DOMAIN ss = 1..Len(ss) /\ DOMAIN tt = 1..(Len(ss) + 1) /\ Len(ss) \in Nat
    /\ tt[Len(ss) + 1] = s /\ \A m \in DOMAIN ss : m \in DOMAIN tt /\ tt[m] = ss[m]
    /\ \A m : m \in DOMAIN tt <=> m \in DOMAIN ss \/ m = Len(ss) + 1
    /\ Len(ss) + 1 \notin DOMAIN ss

\* Append() makes a sequence one longer.
LEMMA AppendParts ==
    ASSUME NEW S, NEW ss \in Seq(S), NEW s \in S
    PROVE  LongerBy(ss, Append(ss, s), s)
<1> PICK tt : tt = Append(ss, s)
  OBVIOUS
<1> PICK n : n = Len(ss)
  OBVIOUS
<1>1. n \in Nat /\ DOMAIN ss = 1..n /\ DOMAIN tt = 1..(n + 1)
  OBVIOUS
<1>2. tt[n + 1] = s /\ \A m \in DOMAIN ss : tt[m] = ss[m]
  OBVIOUS
<1>3. \A m \in 1..(n + 1) : m \in 1..n \/ m = n + 1
  BY <1>1
<1>4. n + 1 \in 1..(n + 1) /\ n + 1 \notin 1..n /\ \A m \in 1..n : m \in 1..(n + 1)
  BY <1>1
<1>5. \A m : m \in DOMAIN tt <=> m \in DOMAIN ss \/ m = n + 1
  BY <1>1, <1>3, <1>4
<1>6. LongerBy(ss, tt, s)
  BY <1>1, <1>2, <1>4, <1>5 DEF LongerBy
<1> QED BY <1>6

\* In q the statement s has been added to the block b.
StatementAdded(p, q, b, s) ==
    /\ q.ranges = p.ranges /\ q.called = p.called /\ BlocksOf(q) = BlocksOf(p)
    /\ Len(q.blocks) = Len(p.blocks)
    /\ \A c \in BlocksOf(p) \ {b} : q.blocks[c] = p.blocks[c]
    /\ q.blocks[b].address = p.blocks[b].address
    /\ q.blocks[b].successor = p.blocks[b].successor
    /\ q.blocks[b].statements = Append(p.blocks[b].statements, s)

\* A statement is added at the end of one block.
LEMMA AddStatementParts ==
    ASSUME NEW S, NEW p \in Programs(S), NEW b \in BlocksOf(p), NEW s \in S,
           NEW q, q = AddStatement(p, b, s)
    PROVE  q \in Programs(S) /\ StatementAdded(p, q, b, s)
<1>1. /\ p.blocks \in Seq(Blocks(S)) /\ p.blocks[b] \in Blocks(S) /\ b \in DOMAIN p.blocks
      /\ p.blocks[b].statements \in Seq(S)
  BY ProgramParts DEF BlocksOf
<1> PICK old : old = p.blocks[b]
  OBVIOUS
<1> PICK ss : ss = Append(old.statements, s)
  OBVIOUS
<1> PICK new : new = [old EXCEPT !.statements = ss]
  OBVIOUS
<1>2. ss \in Seq(S) /\ old \in Blocks(S)
  BY <1>1
<1>3. /\ new \in Blocks(S) /\ new.address = old.address /\ new.successor = old.successor
      /\ new.statements = ss
  BY <1>2 DEF Blocks
<1> PICK bs : bs = [p.blocks EXCEPT ![b] = new]
  OBVIOUS
<1>4. /\ bs \in Seq(Blocks(S)) /\ DOMAIN bs = DOMAIN p.blocks /\ Len(bs) = Len(p.blocks) /\ bs[b] = new
      /\ \A c \in DOMAIN p.blocks \ {b} : bs[c] = p.blocks[c]
  BY <1>1, <1>3
<1>5. q = [p EXCEPT !.blocks = bs]
  <2>1. bs = [p.blocks EXCEPT ![b].statements = Append(@, s)]
    BY <1>1
  <2> QED BY <2>1 DEF AddStatement
<1>6. q \in Programs(S) /\ q.blocks = bs /\ q.ranges = p.ranges /\ q.called = p.called
  BY <1>4, <1>5 DEF Programs
<1> QED BY <1>1, <1>3, <1>4, <1>6 DEF StatementAdded, BlocksOf

\* The statements of that block are one more.
LEMMA LongerStatements ==
    ASSUME NEW S, NEW p \in Programs(S), NEW q, NEW b \in BlocksOf(p), NEW s \in S,
           StatementAdded(p, q, b, s)
    PROVE  LongerBy(p.blocks[b].statements, q.blocks[b].statements, s)
<1>1. p.blocks[b].statements \in Seq(S)
  BY ProgramParts
<1>2. q.blocks[b].statements = Append(p.blocks[b].statements, s)
  BY DEF StatementAdded
<1> QED BY <1>1, <1>2, AppendParts

\* The map does not depend on the statements, and one more occurs.
LEMMA AddedStatementMaps ==
    ASSUME NEW S, NEW p \in Programs(S), NEW q \in Programs(S), NEW b \in BlocksOf(p), NEW s \in S,
           StatementAdded(p, q, b, s)
    PROVE  /\ Mapped(p) => Mapped(q)
           /\ Exact(p) => Exact(q)
           /\ \A t : Occurs(q, t) <=> Occurs(p, t) \/ t = s
<1>1. \A c \in BlocksOf(p) : /\ q.blocks[c].address = p.blocks[c].address
                             /\ q.blocks[c].successor = p.blocks[c].successor
  BY DEF StatementAdded
<1>2. q.ranges = p.ranges /\ BlocksOf(q) = BlocksOf(p)
  BY DEF StatementAdded
<1>3. Mapped(p) => Mapped(q)
  BY <1>1, <1>2, FitsAfter
<1>4. \A c \in BlocksOf(p) : EntryOf(q, c) = EntryOf(p, c) /\ (Bound(q, c) <=> Bound(p, c))
  BY <1>1 DEF EntryOf, RangeOfBlock, Bound
<1>5. {EntryOf(q, c) : c \in {d \in BlocksOf(q) : Bound(q, d)}}
        = {EntryOf(p, c) : c \in {d \in BlocksOf(p) : Bound(p, d)}}
  BY <1>2, <1>4
<1>6. Exact(p) => Exact(q)
  BY <1>2, <1>5 DEF Exact
<1> PICK ss : ss = p.blocks[b].statements
  OBVIOUS
<1> PICK tt : tt = q.blocks[b].statements
  OBVIOUS
<1>7. /\ DOMAIN ss = 1..Len(ss) /\ DOMAIN tt = 1..(Len(ss) + 1) /\ Len(ss) \in Nat
      /\ tt[Len(ss) + 1] = s /\ \A m \in DOMAIN ss : m \in DOMAIN tt /\ tt[m] = ss[m]
      /\ \A m \in DOMAIN tt : m \in DOMAIN ss \/ m = Len(ss) + 1
  <2>1. LongerBy(ss, tt, s)
    BY LongerStatements
  <2> QED BY <2>1 DEF LongerBy
<1>8. ASSUME NEW t, Occurs(p, t) PROVE Occurs(q, t)
  <2>1. PICK c \in BlocksOf(p) : \E m \in DOMAIN p.blocks[c].statements : p.blocks[c].statements[m] = t
    BY <1>8 DEF Occurs
  <2>2. CASE c = b
    BY <1>2, <1>7, <2>1, <2>2 DEF Occurs
  <2>3. CASE c # b
    BY <1>2, <2>1, <2>3 DEF Occurs, StatementAdded
  <2> QED BY <2>2, <2>3
<1>9. Occurs(q, s)
  <2>1. Len(ss) + 1 \in DOMAIN tt
    BY <1>7
  <2> QED BY <1>2, <1>7, <2>1 DEF Occurs
<1>10. ASSUME NEW t, Occurs(q, t), t # s PROVE Occurs(p, t)
  <2>1. PICK c \in BlocksOf(p) : \E m \in DOMAIN q.blocks[c].statements : q.blocks[c].statements[m] = t
    BY <1>2, <1>10 DEF Occurs
  <2>2. CASE c = b
    <3>1. PICK m \in DOMAIN tt : tt[m] = t
      BY <2>1, <2>2
    <3>2. m \in DOMAIN ss /\ ss[m] = t
      BY <1>7, <1>10, <3>1
    <3> QED BY <3>2 DEF Occurs
  <2>3. CASE c # b
    BY <2>1, <2>3 DEF Occurs, StatementAdded
  <2> QED BY <2>2, <2>3
<1> QED BY <1>3, <1>6, <1>8, <1>9, <1>10

\* It is in a block with an address if it is added to one.
LEMMA AddedStatementHeld ==
    ASSUME NEW S, NEW p \in Programs(S), NEW q \in Programs(S), NEW b \in BlocksOf(p), NEW s \in S,
           StatementAdded(p, q, b, s)
    PROVE  \A t : Held(q, t) <=> Held(p, t) \/ (Bound(p, b) /\ t = s)
<1>1. /\ BlocksOf(q) = BlocksOf(p)
      /\ \A c \in BlocksOf(p) \ {b} : q.blocks[c] = p.blocks[c]
      /\ \A c \in BlocksOf(p) : Bound(q, c) <=> Bound(p, c)
  BY DEF StatementAdded, Bound
<1> PICK ss : ss = p.blocks[b].statements
  OBVIOUS
<1> PICK tt : tt = q.blocks[b].statements
  OBVIOUS
<1>2. /\ tt[Len(ss) + 1] = s /\ \A m \in DOMAIN ss : m \in DOMAIN tt /\ tt[m] = ss[m]
      /\ \A m : m \in DOMAIN tt <=> m \in DOMAIN ss \/ m = Len(ss) + 1
  <2>1. LongerBy(ss, tt, s)
    BY LongerStatements
  <2> QED BY <2>1 DEF LongerBy
<1>3. ASSUME NEW t, Held(p, t) PROVE Held(q, t)
  <2>1. PICK c \in BlocksOf(p) :
           Bound(p, c) /\ \E m \in DOMAIN p.blocks[c].statements : p.blocks[c].statements[m] = t
    BY <1>3 DEF Held
  <2>2. CASE c = b
    BY <1>1, <1>2, <2>1, <2>2 DEF Held
  <2>3. CASE c # b
    BY <1>1, <2>1, <2>3 DEF Held
  <2> QED BY <2>2, <2>3
<1>4. ASSUME Bound(p, b) PROVE Held(q, s)
  <2>1. Len(ss) + 1 \in DOMAIN tt
    BY <1>2
  <2> QED BY <1>1, <1>2, <1>4, <2>1 DEF Held
<1>5. ASSUME NEW t, Held(q, t), ~Held(p, t) PROVE Bound(p, b) /\ t = s
  <2>1. PICK c \in BlocksOf(p) :
           Bound(q, c) /\ \E m \in DOMAIN q.blocks[c].statements : q.blocks[c].statements[m] = t
    BY <1>1, <1>5 DEF Held
  <2>2. CASE c = b
    <3>1. PICK m \in DOMAIN tt : tt[m] = t
      BY <2>1, <2>2
    <3>2. Bound(p, b) /\ ~(m \in DOMAIN ss /\ ss[m] = t)
      BY <1>1, <1>5, <2>1, <2>2 DEF Held
    <3> QED BY <1>2, <3>1, <3>2
  <2>3. CASE c # b
    BY <1>1, <1>5, <2>1, <2>3 DEF Held
  <2> QED BY <2>2, <2>3
<1> QED BY <1>3, <1>4, <1>5

\* A statement of an instruction that comes behind all others of a block with an address.
LEMMA AddedStatementInside ==
    ASSUME NEW S, \A s \in S : s.instruction \in Nat \cup {None},
           NEW p \in Programs(S), NEW q \in Programs(S), NEW b \in BlocksOf(p), Bound(p, b), NEW s \in S,
           StatementAdded(p, q, b, s), Inside(p),
           s.instruction # None =>
               /\ p.blocks[b].address <= s.instruction /\ s.instruction < p.blocks[b].successor
               /\ \A m \in DOMAIN p.blocks[b].statements :
                     p.blocks[b].statements[m].instruction < s.instruction
    PROVE  Inside(q)
<1> PICK ss : ss = p.blocks[b].statements
  OBVIOUS
<1> PICK tt : tt = q.blocks[b].statements
  OBVIOUS
<1>1. /\ DOMAIN ss = 1..Len(ss) /\ DOMAIN tt = 1..(Len(ss) + 1) /\ Len(ss) \in Nat
      /\ tt[Len(ss) + 1] = s /\ \A m \in DOMAIN ss : m \in DOMAIN tt /\ tt[m] = ss[m]
      /\ \A m \in DOMAIN tt : m \in DOMAIN ss \/ m = Len(ss) + 1
  <2>1. LongerBy(ss, tt, s)
    BY LongerStatements
  <2> QED BY <2>1 DEF LongerBy
<1>2. /\ q.blocks[b].address = p.blocks[b].address /\ q.blocks[b].successor = p.blocks[b].successor
      /\ BlocksOf(q) = BlocksOf(p) /\ \A c \in BlocksOf(p) \ {b} : q.blocks[c] = p.blocks[c]
  BY DEF StatementAdded
<1>3. /\ \A m \in DOMAIN ss : ss[m].instruction # None =>
            p.blocks[b].address <= ss[m].instruction /\ ss[m].instruction < p.blocks[b].successor
      /\ \A l, m \in DOMAIN ss :
            (l < m /\ ss[l].instruction # None /\ ss[m].instruction # None)
                => ss[l].instruction < ss[m].instruction
  BY DEF Inside
<1>4. /\ \A m \in DOMAIN tt : tt[m].instruction # None =>
            q.blocks[b].address <= tt[m].instruction /\ tt[m].instruction < q.blocks[b].successor
      /\ \A l, m \in DOMAIN tt :
            (l < m /\ tt[l].instruction # None /\ tt[m].instruction # None)
                => tt[l].instruction < tt[m].instruction
  <2>1. ASSUME NEW m \in DOMAIN tt, tt[m].instruction # None
        PROVE  q.blocks[b].address <= tt[m].instruction /\ tt[m].instruction < q.blocks[b].successor
    <3>1. CASE m \in DOMAIN ss
      BY <1>1, <1>2, <1>3, <2>1, <3>1
    <3>2. CASE m = Len(ss) + 1
      BY <1>1, <1>2, <2>1, <3>2
    <3> QED BY <1>1, <3>1, <3>2
  <2>2. ASSUME NEW l \in DOMAIN tt, NEW m \in DOMAIN tt, l < m,
               tt[l].instruction # None, tt[m].instruction # None
        PROVE  tt[l].instruction < tt[m].instruction
    <3>1. l \in DOMAIN ss
      BY <1>1, <2>2
    <3>2. CASE m \in DOMAIN ss
      BY <1>1, <1>3, <2>2, <3>1, <3>2
    <3>3. CASE m = Len(ss) + 1
      BY <1>1, <2>2, <3>1, <3>3
    <3> QED BY <1>1, <3>2, <3>3
  <2> QED BY <2>1, <2>2
<1>5. \A c \in BlocksOf(p) : Bound(q, c) <=> Bound(p, c)
  BY <1>2 DEF Bound
<1>6. ASSUME NEW c \in BlocksOf(q), Bound(q, c), NEW uu, uu = q.blocks[c].statements
      PROVE  /\ \A m \in DOMAIN uu : uu[m].instruction # None =>
                   q.blocks[c].address <= uu[m].instruction /\ uu[m].instruction < q.blocks[c].successor
             /\ \A l, m \in DOMAIN uu :
                   (l < m /\ uu[l].instruction # None /\ uu[m].instruction # None)
                       => uu[l].instruction < uu[m].instruction
  <2>1. CASE c = b
    BY <1>4, <1>6, <2>1
  <2>2. CASE c # b
    BY <1>2, <1>5, <1>6, <2>2 DEF Inside
  <2> QED BY <2>1, <2>2
<1> QED BY <1>6 DEF Inside

\* The places of an instruction are those it had, and perhaps the new one.
LEMMA AddedStatementPlaces ==
    ASSUME NEW S, NEW p \in Programs(S), NEW q \in Programs(S), NEW b \in BlocksOf(p), NEW s \in S,
           StatementAdded(p, q, b, s)
    PROVE  \A c, m, x : IsOf(q, c, m, x) <=>
               \/ IsOf(p, c, m, x)
               \/ c = b /\ m = Len(p.blocks[b].statements) + 1 /\ Bound(p, b) /\ x = s.instruction
<1> PICK ss : ss = p.blocks[b].statements
  OBVIOUS
<1> PICK tt : tt = q.blocks[b].statements
  OBVIOUS
<1>1. /\ DOMAIN ss = 1..Len(ss) /\ Len(ss) \in Nat
      /\ tt[Len(ss) + 1] = s /\ \A m \in DOMAIN ss : tt[m] = ss[m]
      /\ \A m : m \in DOMAIN tt <=> m \in DOMAIN ss \/ m = Len(ss) + 1
  <2>1. LongerBy(ss, tt, s)
    BY LongerStatements
  <2> QED BY <2>1 DEF LongerBy
<1>2. /\ BlocksOf(q) = BlocksOf(p) /\ \A c \in BlocksOf(p) \ {b} : q.blocks[c] = p.blocks[c]
      /\ \A c \in BlocksOf(p) : Bound(q, c) <=> Bound(p, c)
  BY DEF StatementAdded, Bound
<1>3. ~(Len(ss) + 1 \in DOMAIN ss)
  BY <1>1
<1> SUFFICES ASSUME NEW c, NEW m, NEW x
             PROVE  IsOf(q, c, m, x) <=>
                       \/ IsOf(p, c, m, x)
                       \/ c = b /\ m = Len(ss) + 1 /\ Bound(p, b) /\ x = s.instruction
  OBVIOUS
<1>4. CASE c = b /\ m = Len(ss) + 1
  <2>1. m \in DOMAIN tt /\ ~IsOf(p, c, m, x)
    BY <1>1, <1>3, <1>4 DEF IsOf
  <2>2. IsOf(q, c, m, x) <=> Bound(p, b) /\ s.instruction = x
    BY <1>1, <1>2, <1>4, <2>1 DEF IsOf
  <2> QED BY <1>4, <2>1, <2>2
<1>5. CASE c = b /\ m # Len(ss) + 1
  BY <1>1, <1>2, <1>5 DEF IsOf
<1>6. CASE c # b
  BY <1>2, <1>6 DEF IsOf
<1> QED BY <1>4, <1>5, <1>6

\* A statement stays the only one of its instruction when one of another is added, and
\* the first one of an instruction is the only one.
LEMMA AddedStatementOnlyOne ==
    ASSUME NEW S, NEW p \in Programs(S), NEW q \in Programs(S), NEW b \in BlocksOf(p), NEW s \in S,
           StatementAdded(p, q, b, s), NEW x
    PROVE  /\ (x # s.instruction \/ ~Bound(p, b)) /\ OnlyOne(p, x) => OnlyOne(q, x)
           /\ Bound(p, b) /\ x = s.instruction /\ (\A c, m : ~IsOf(p, c, m, x)) => OnlyOne(q, x)
<1> PICK k : k = Len(p.blocks[b].statements) + 1
  OBVIOUS
<1>1. \A c, m : IsOf(q, c, m, x) <=>
          IsOf(p, c, m, x) \/ (c = b /\ m = k /\ Bound(p, b) /\ x = s.instruction)
  BY AddedStatementPlaces
<1>2. ASSUME x # s.instruction \/ ~Bound(p, b), OnlyOne(p, x) PROVE OnlyOne(q, x)
  <2>1. PICK c, m : IsOf(p, c, m, x) /\ \A d, l : IsOf(p, d, l, x) => d = c /\ l = m
    BY <1>2 DEF OnlyOne
  <2>2. IsOf(q, c, m, x) /\ \A d, l : IsOf(q, d, l, x) => d = c /\ l = m
    BY <1>1, <1>2, <2>1
  <2> QED BY <2>2 DEF OnlyOne
<1>3. ASSUME Bound(p, b), x = s.instruction, \A c, m : ~IsOf(p, c, m, x) PROVE OnlyOne(q, x)
  <2>1. IsOf(q, b, k, x) /\ \A d, l : IsOf(q, d, l, x) => d = b /\ l = k
    BY <1>1, <1>3
  <2> QED BY <2>1 DEF OnlyOne
<1> QED BY <1>2, <1>3
=============================================================================
