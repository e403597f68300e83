------------------------- MODULE IRGenerator_proofs -------------------------
(***************************************************************************)
(* Proofs about IRGenerator, for any instructions, overlapping ones too.   *)
(***************************************************************************)
EXTENDS IRGenerator, Program_proofs

-----------------------------------------------------------------------------
(* createBasicBlock() for some addresses in a row. *)

Sequence(g, p, targets, k) ==
    g = [n \in 0..k |-> IF n = 0 THEN p ELSE CreateBasicBlock(g[n - 1], targets[n])]

\* There is such a row for any number of addresses.
LEMMA SequenceExists ==
    ASSUME NEW p, NEW targets, NEW k \in Nat
    PROVE  \E g : Sequence(g, p, targets, k)
<1> DEFINE Bad == {m \in Nat : ~\E g : Sequence(g, p, targets, m)}
<1>1. ASSUME NEW m \in Bad, \A n \in Bad : m <= n PROVE FALSE
  <2>1. CASE m = 0
    <3> PICK g : g = [n \in 0..m |-> p]
      OBVIOUS
    <3>1. g = [n \in 0..m |-> IF n = 0 THEN p ELSE CreateBasicBlock(g[n - 1], targets[n])]
      BY <2>1
    <3> QED BY <3>1 DEF Sequence
  <2>2. CASE m # 0
    <3>1. m - 1 \in Nat \ Bad
      BY <1>1, <2>2
    <3>2. PICK h : h = [n \in 0..(m - 1) |-> IF n = 0 THEN p ELSE CreateBasicBlock(h[n - 1], targets[n])]
      BY <3>1 DEF Sequence
    <3> PICK g : g = [n \in 0..m |-> IF n = m THEN CreateBasicBlock(h[n - 1], targets[n]) ELSE h[n]]
      OBVIOUS
    <3>3. \A n \in 0..(m - 1) : /\ g[n] = h[n]
                                /\ h[n] = IF n = 0 THEN p ELSE CreateBasicBlock(h[n - 1], targets[n])
      BY <3>2
    <3>4. \A n \in 0..m : g[n] = IF n = 0 THEN p ELSE CreateBasicBlock(g[n - 1], targets[n])
      <4> SUFFICES ASSUME NEW n \in 0..m
                   PROVE  g[n] = IF n = 0 THEN p ELSE CreateBasicBlock(g[n - 1], targets[n])
        OBVIOUS
      <4>1. CASE n = m
        BY <2>2, <3>3, <4>1
      <4>2. CASE n # m
        BY <3>3, <4>2
      <4> QED BY <4>1, <4>2
    <3>5. g = [n \in 0..m |-> IF n = 0 THEN p ELSE CreateBasicBlock(g[n - 1], targets[n])]
      BY <3>4
    <3> QED BY <1>1, <3>5 DEF Sequence
  <2> QED BY <2>1, <2>2
<1>2. Bad = {}
  <2> SUFFICES ASSUME Bad # {} PROVE FALSE
    OBVIOUS
  <2>1. Bad \subseteq Nat
    OBVIOUS
  <2> HIDE DEF Bad
  <2> QED BY <1>1, <2>1, Least
<1> QED BY <1>2

\* What one call promises, and then what a row of them does.
Grown(S, p, q) ==
    /\ q \in Programs(S) /\ q.called = p.called /\ Mapped(q) /\ Keeps(p, q)
    /\ Exact(p) => Exact(q)
    /\ Inside(p) => Inside(q)

\* What holds of two calls holds of both together.
LEMMA GrownFurther ==
    ASSUME NEW S, NEW p, NEW q, NEW r, Grown(S, p, q), Grown(S, q, r)
    PROVE  Grown(S, p, r)
BY KeepsTransitive DEF Grown

\* createBasicBlock(): afterwards a block starts at the address.
LEMMA CreateBasicBlockGrows ==
    ASSUME NEW S, \A s \in S : s.instruction \in Nat \cup {None},
           NEW p \in Programs(S), Mapped(p), NEW a \in Nat, NEW q, q = CreateBasicBlock(p, a)
    PROVE  Grown(S, p, q) /\ StartingAt(q, a) # {}
<1>1. /\ q \in Programs(S) /\ q.called = p.called /\ Mapped(q) /\ Keeps(p, q)
      /\ StartingAt(q, a) # {}
      /\ Exact(p) => Exact(q)
      /\ Inside(p) => Inside(q)
  BY CreateBasicBlockKeeps
<1> QED BY <1>1 DEF Grown

\* A block for each target of a jump: nothing that was there is lost.
LEMMA CreateBasicBlocksKeeps ==
    ASSUME NEW S, \A s \in S : s.instruction \in Nat \cup {None},
           NEW p \in Programs(S), Mapped(p), NEW targets \in Seq(Nat),
           NEW q, q = CreateBasicBlocks(p, targets)
    PROVE  Grown(S, p, q) /\ \A n \in DOMAIN targets : StartingAt(q, targets[n]) # {}
<1> PICK k : k = Len(targets)
  OBVIOUS
<1>1. k \in Nat /\ \A n \in 1..k : targets[n] \in Nat
  OBVIOUS
<1> PICK created : created = CHOOSE g : Sequence(g, p, targets, k)
  OBVIOUS
<1>2. Sequence(created, p, targets, k)
  BY <1>1, SequenceExists
<1>3. q = created[k]
  BY DEF CreateBasicBlocks, Sequence
<1>4. created[0] = p /\ \A n \in 1..k : created[n] = CreateBasicBlock(created[n - 1], targets[n])
  <2>1. \A n \in 0..k : created[n] = IF n = 0 THEN p ELSE CreateBasicBlock(created[n - 1], targets[n])
    BY <1>2 DEF Sequence
  <2>2. 0 \in 0..k /\ \A n \in 1..k : n \in 0..k /\ n # 0
    BY <1>1
  <2> QED BY <2>1, <2>2
<1> DEFINE Good(n) == /\ Grown(S, p, created[n])
                      /\ \A l \in 1..n : StartingAt(created[n], targets[l]) # {}
           Bad == {n \in 0..k : ~Good(n)}
<1>5. ASSUME NEW m \in Bad, \A n \in Bad : m <= n PROVE FALSE
  <2>1. m # 0
    <3>1. Grown(S, p, p)
      BY KeepsReflexive DEF Grown
    <3> QED BY <1>4, <1>5, <3>1
  <2>2. m \in 1..k /\ m - 1 \in 0..k /\ m - 1 \notin Bad
    <3>1. m \in 0..k
      BY <1>5
    <3>2. m \in 1..k /\ m - 1 \in 0..k /\ ~(m <= m - 1)
      BY <1>1, <2>1, <3>1
    <3> HIDE DEF Bad
    <3> QED BY <1>5, <3>2
  <2> PICK r : r = created[m - 1]
    OBVIOUS
  <2> PICK t : t = created[m]
    OBVIOUS
  <2> PICK a : a = targets[m]
    OBVIOUS
  <2>3. Grown(S, p, r) /\ \A l \in 1..(m - 1) : StartingAt(r, targets[l]) # {}
    BY <2>2
  <2>4. r \in Programs(S) /\ Mapped(r) /\ t = CreateBasicBlock(r, a) /\ a \in Nat
    BY <1>1, <1>4, <2>2, <2>3 DEF Grown
  <2>5. Grown(S, r, t) /\ StartingAt(t, a) # {}
    BY <2>4, CreateBasicBlockGrows
  <2>6. Grown(S, p, t)
    BY <2>3, <2>5, GrownFurther
  <2>7. \A x : StartingAt(r, x) # {} => StartingAt(t, x) # {}
    <3> SUFFICES ASSUME NEW x, NEW c \in StartingAt(r, x) PROVE c \in StartingAt(t, x)
      OBVIOUS
    <3>1. c \in BlocksOf(r) /\ r.blocks[c].address = x /\ x # None
      BY DEF StartingAt
    <3>2. c \in BlocksOf(t) /\ t.blocks[c].address = x
      BY <2>5, <3>1 DEF Grown, Keeps
    <3> QED BY <3>1, <3>2 DEF StartingAt
  <2>8. \A l \in 1..m : StartingAt(t, targets[l]) # {}
    <3> SUFFICES ASSUME NEW l \in 1..m PROVE StartingAt(t, targets[l]) # {}
      OBVIOUS
    <3>1. CASE l = m
      BY <2>5, <3>1
    <3>2. CASE l # m
      <4>1. l \in 1..(m - 1)
        BY <2>2, <3>2
      <4> QED BY <2>3, <2>7, <4>1
    <3> QED BY <3>1, <3>2
  <2> QED BY <1>5, <2>6, <2>8
<1>6. Bad = {}
  <2> SUFFICES ASSUME Bad # {} PROVE FALSE
    OBVIOUS
  <2>1. Bad \subseteq Nat
    BY <1>1
  <2> HIDE DEF Bad
  <2> QED BY <1>5, <2>1, Least
<1>7. k \in 0..k /\ DOMAIN targets = 1..k
  BY <1>1
<1> QED BY <1>3, <1>6, <1>7
-----------------------------------------------------------------------------
(* What the generator's statements are, and what holds of its program in every phase. *)

StatementKinds == {"plain", "call", "jump", "return"}
StatementRecords ==
    [kind : StatementKinds, instruction : Nat \cup {None}, targets : Seq(Nat),
     connected : BOOLEAN, blocks : SUBSET Nat]

\* A block without an address has no end either, and jumps in its last place only.
Tails(p) ==
    \A b \in BlocksOf(p) : ~Bound(p, b) =>
        /\ p.blocks[b].successor = None
        /\ \A m \in DOMAIN p.blocks[b].statements :
              p.blocks[b].statements[m].kind \in Terminators => m = Len(p.blocks[b].statements)

Formed(p) == p \in Programs(StatementRecords) /\ Mapped(p) /\ Inside(p) /\ Tails(p)

\* Statements are of the instructions at the addresses A, and lead to what there is.
Known(p, A) == \A s : Occurs(p, s) => s.instruction \in A /\ s.blocks \subseteq BlocksOf(p)

\* Of each instruction at one of the addresses A there is one statement.
Kept(p, A) == \A a \in A : OnlyOne(p, a)

\* A jump of an instruction that goes to no address does not go to one block either: it
\* goes to the block behind the instruction and to one beside it.
Forked(s) ==
    (s.kind = "jump" /\ s.instruction # None /\ s.targets = <<>>) => Cardinality(s.blocks) # 1

\* A jump in a block with an address leads to the block b.
LedTo(p, b) == \E s : Held(p, s) /\ s.kind = "jump" /\ b \in s.blocks

\* A block without an address has more than a jump in it, and is beside one with an address.
Sided(p) ==
    /\ \A s : Held(p, s) => Forked(s)
    /\ \A b \in BlocksOf(p) : (~Bound(p, b) /\ p.blocks[b].statements # <<>>) =>
          Len(p.blocks[b].statements) # 1 /\ LedTo(p, b)

\* From p to q forks have been added to blocks with an address, and what leads beside them
\* still does.
Alongside(p, q) ==
    /\ \A s : Held(q, s) => Held(p, s) \/ Forked(s)
    /\ \A b \in BlocksOf(p) : LedTo(p, b) => LedTo(q, b)
    /\ \A b \in BlocksOf(q) : (~Bound(q, b) /\ q.blocks[b].statements # <<>>) =>
          /\ b \in BlocksOf(p) /\ ~Bound(p, b) /\ p.blocks[b].statements # <<>>
          /\ Len(q.blocks[b].statements) = Len(p.blocks[b].statements)

\* That leaves blocks beside where they were.
LEMMA AlongsideSided ==
    ASSUME NEW p, NEW q, Alongside(p, q)
    PROVE  Sided(p) => Sided(q)
BY DEF Alongside, Sided

\* The same statements with an address lead to the same blocks.
LEMMA SameHeld ==
    ASSUME NEW p, NEW q, \A s : Held(q, s) <=> Held(p, s)
    PROVE  \A b : LedTo(q, b) <=> LedTo(p, b)
BY DEF LedTo

\* What the type of a statement says.
LEMMA RecordParts ==
    \A s \in StatementRecords :
        /\ s.kind \in StatementKinds /\ s.instruction \in Nat \cup {None} /\ s.targets \in Seq(Nat)
        /\ s.blocks \in SUBSET Nat
BY DEF StatementRecords

\* What occurs in a program of statements is a statement.
LEMMA OccursTyped ==
    ASSUME NEW S, NEW p \in Programs(S), NEW s, Occurs(p, s)
    PROVE  s \in S
<1>1. PICK b \in BlocksOf(p) : \E m \in DOMAIN p.blocks[b].statements : p.blocks[b].statements[m] = s
  BY DEF Occurs
<1>2. p.blocks[b].statements \in Seq(S)
  BY ProgramParts
<1> QED BY <1>1, <1>2

\* A place of an instruction is the place of a statement of it.
LEMMA IsOfOccurs ==
    ASSUME NEW p, NEW b, NEW m, NEW a, IsOf(p, b, m, a)
    PROVE  \E s : Occurs(p, s) /\ s.instruction = a
BY DEF IsOf, Occurs

\* In q blocks without statements have been added.
BlocksAdded(p, q) ==
    /\ BlocksOf(p) \subseteq BlocksOf(q)
    /\ \A c \in BlocksOf(p) : q.blocks[c] = p.blocks[c]
    /\ \A c \in BlocksOf(q) \ BlocksOf(p) :
          q.blocks[c].statements = <<>> /\ q.blocks[c].successor = q.blocks[c].address

\* New blocks without statements disturb nothing said of statements.
LEMMA BlocksAddedKeep ==
    ASSUME NEW p, NEW q, BlocksAdded(p, q), NEW A
    PROVE  /\ Inside(p) => Inside(q)
           /\ Tails(p) => Tails(q)
           /\ Known(p, A) => Known(q, A)
           /\ Kept(p, A) => Kept(q, A)
           /\ Sided(p) => Sided(q)
<1>1. /\ BlocksOf(p) \subseteq BlocksOf(q)
      /\ \A c \in BlocksOf(p) : q.blocks[c] = p.blocks[c] /\ (Bound(q, c) <=> Bound(p, c))
      /\ \A c \in BlocksOf(q) \ BlocksOf(p) :
            /\ q.blocks[c].statements = <<>> /\ q.blocks[c].successor = q.blocks[c].address
            /\ DOMAIN q.blocks[c].statements = {}
  BY DEF BlocksAdded, Bound
<1>2. \A s : Occurs(q, s) <=> Occurs(p, s)
  BY <1>1 DEF Occurs
<1>3. \A b, m, x : IsOf(q, b, m, x) <=> IsOf(p, b, m, x)
  BY <1>1 DEF IsOf
<1>4. Kept(p, A) => Kept(q, A)
  BY <1>3 DEF Kept, OnlyOne
<1>5. Known(p, A) => Known(q, A)
  BY <1>1, <1>2 DEF Known
<1>6. Inside(p) => Inside(q)
  BY <1>1 DEF Inside
<1>7. Tails(p) => Tails(q)
  <2> SUFFICES ASSUME Tails(p), NEW b \in BlocksOf(q), ~Bound(q, b)
               PROVE  /\ q.blocks[b].successor = None
                      /\ \A m \in DOMAIN q.blocks[b].statements :
                            q.blocks[b].statements[m].kind \in Terminators
                                => m = Len(q.blocks[b].statements)
    BY DEF Tails
  <2>1. CASE b \in BlocksOf(p)
    BY <1>1, <2>1 DEF Tails
  <2>2. CASE b \notin BlocksOf(p)
    BY <1>1, <2>2 DEF Bound
  <2> QED BY <2>1, <2>2
<1>8. Sided(p) => Sided(q)
  <2>1. \A s : Held(q, s) <=> Held(p, s)
    BY <1>1 DEF Held
  <2>2. \A b \in BlocksOf(q) : (~Bound(q, b) /\ q.blocks[b].statements # <<>>) =>
            b \in BlocksOf(p) /\ q.blocks[b] = p.blocks[b] /\ ~Bound(p, b)
    BY <1>1
  <2>3. Alongside(p, q)
    BY <2>1, <2>2, SameHeld DEF Alongside
  <2> QED BY <2>3, AlongsideSided
<1> QED BY <1>4, <1>5, <1>6, <1>7, <1>8

\* The block of an instruction behind all others.
LEMMA ExtendedKeeps ==
    ASSUME NEW p, Formed(p), NEW i, i.address \in Nat, i.size \in Nat \ {0},
           NEW A \in SUBSET Nat, \A a \in A : a < i.address, Known(p, A), Kept(p, A),
           NEW b, NEW q \in Programs(StatementRecords), Mapped(q), Extended(p, q, b, i)
    PROVE  /\ Formed(q) /\ Known(q, A) /\ Kept(q, A)
           /\ Sided(p) => Sided(q)
<1> PICK a : a = i.address
  OBVIOUS
<1> PICK z : z = i.address + i.size
  OBVIOUS
<1>1. a \in Nat /\ z \in Nat /\ a < z
  OBVIOUS
<1>2. /\ BlocksOf(q) = BlocksOf(p) \cup {b} /\ Bound(q, b)
      /\ \A c \in BlocksOf(p) \ {b} : q.blocks[c] = p.blocks[c]
      /\ b \in BlocksOf(p) => /\ q.blocks[b].address = p.blocks[b].address
                              /\ q.blocks[b].statements = p.blocks[b].statements
      /\ b \notin BlocksOf(p) => q.blocks[b].statements = <<>> /\ DOMAIN q.blocks[b].statements = {}
      /\ q.blocks[b].successor = z
  BY DEF Extended
<1>3. \A c \in BlocksOf(p) : /\ Bound(q, c) <=> Bound(p, c)
                             /\ q.blocks[c].statements = p.blocks[c].statements
                             /\ q.blocks[c].address = p.blocks[c].address
  BY <1>2 DEF Bound
<1>4. \A s : Occurs(q, s) <=> Occurs(p, s)
  BY <1>2, <1>3 DEF Occurs
<1>5. \A c, m, x : IsOf(q, c, m, x) <=> IsOf(p, c, m, x)
  BY <1>2, <1>3 DEF IsOf
<1>6. Kept(q, A)
  BY <1>5 DEF Kept, OnlyOne
<1>7. Known(q, A)
  BY <1>2, <1>4 DEF Known
<1>8. Tails(q)
  <2> SUFFICES ASSUME NEW c \in BlocksOf(q), ~Bound(q, c)
               PROVE  /\ q.blocks[c].successor = None
                      /\ \A m \in DOMAIN q.blocks[c].statements :
                            q.blocks[c].statements[m].kind \in Terminators
                                => m = Len(q.blocks[c].statements)
    BY DEF Tails
  <2>1. c \in BlocksOf(p) /\ q.blocks[c] = p.blocks[c] /\ ~Bound(p, c)
    BY <1>2, <1>3
  <2> QED BY <2>1 DEF Formed, Tails
<1>9. Inside(q)
  <2>1. ASSUME NEW c \in BlocksOf(q), Bound(q, c), NEW ss, ss = q.blocks[c].statements
        PROVE  /\ \A m \in DOMAIN ss : ss[m].instruction # None =>
                     q.blocks[c].address <= ss[m].instruction /\ ss[m].instruction < q.blocks[c].successor
               /\ \A l, m \in DOMAIN ss :
                     (l < m /\ ss[l].instruction # None /\ ss[m].instruction # None)
                         => ss[l].instruction < ss[m].instruction
    <3>1. CASE c \notin BlocksOf(p)
      BY <1>2, <2>1, <3>1
    <3>2. CASE c \in BlocksOf(p)
      <4>1. /\ \A m \in DOMAIN ss : ss[m].instruction # None =>
                     p.blocks[c].address <= ss[m].instruction /\ ss[m].instruction < p.blocks[c].successor
            /\ \A l, m \in DOMAIN ss :
                     (l < m /\ ss[l].instruction # None /\ ss[m].instruction # None)
                         => ss[l].instruction < ss[m].instruction
        BY <1>3, <2>1, <3>2 DEF Formed, Inside
      <4>2. \A m \in DOMAIN ss : ss[m].instruction \in Nat /\ ss[m].instruction < a
        <5>1. \A m \in DOMAIN ss : Occurs(q, ss[m])
          BY <2>1 DEF Occurs
        <5> QED BY <1>7, <5>1 DEF Known
      <4>3. CASE c = b
        BY <1>1, <1>2, <1>3, <3>2, <4>1, <4>2, <4>3
      <4>4. CASE c # b
        BY <1>2, <3>2, <4>1, <4>4
      <4> QED BY <4>3, <4>4
    <3> QED BY <3>1, <3>2
  <2> QED BY <2>1 DEF Inside
<1>10. Sided(p) => Sided(q)
  <2>1. \A s : Held(q, s) => Held(p, s)
    BY <1>2, <1>3 DEF Held
  <2>2. \A s : Held(p, s) => Held(q, s)
    BY <1>2, <1>3 DEF Held
  <2>3. \A c \in BlocksOf(q) : ~Bound(q, c) =>
            c \in BlocksOf(p) /\ q.blocks[c] = p.blocks[c] /\ ~Bound(p, c)
    BY <1>2, <1>3
  <2>4. Alongside(p, q)
    BY <2>1, <2>2, <2>3, SameHeld DEF Alongside
  <2> QED BY <2>4, AlongsideSided
<1> QED BY <1>6, <1>7, <1>8, <1>9, <1>10 DEF Formed

\* A fork more in a block with an address.
LEMMA AddedForkSided ==
    ASSUME NEW p \in Programs(StatementRecords), NEW q \in Programs(StatementRecords),
           NEW b \in BlocksOf(p), Bound(p, b), NEW s \in StatementRecords, Forked(s),
           StatementAdded(p, q, b, s)
    PROVE  Sided(p) => Sided(q)
<1>1. \A t : Held(q, t) <=> Held(p, t) \/ (Bound(p, b) /\ t = s)
  BY AddedStatementHeld
<1>2. \A c \in BlocksOf(q) : ~Bound(q, c) =>
          c \in BlocksOf(p) /\ q.blocks[c] = p.blocks[c] /\ ~Bound(p, c)
  BY DEF StatementAdded, Bound
<1>3. \A c : LedTo(p, c) => LedTo(q, c)
  BY <1>1 DEF LedTo
<1>4. Alongside(p, q)
  BY <1>1, <1>2, <1>3 DEF Alongside
<1> QED BY <1>4, AlongsideSided

\* The statement of that instruction.
LEMMA MainStatementKeeps ==
    ASSUME NEW p, Formed(p), NEW a \in Nat, NEW A \in SUBSET Nat, \A x \in A : x < a,
           Known(p, A), Kept(p, A), NEW b \in BlocksOf(p), Bound(p, b),
           p.blocks[b].address <= a, a < p.blocks[b].successor,
           NEW s \in StatementRecords, s.instruction = a, s.blocks \subseteq BlocksOf(p), Forked(s),
           NEW q, q = AddStatement(p, b, s)
    PROVE  /\ Formed(q) /\ Known(q, A \cup {a}) /\ Kept(q, A \cup {a})
           /\ StatementAdded(p, q, b, s)
           /\ Exact(p) => Exact(q)
           /\ Sided(p) => Sided(q)
<1>1. p \in Programs(StatementRecords)
  BY DEF Formed
<1>2. q \in Programs(StatementRecords) /\ StatementAdded(p, q, b, s)
  BY <1>1, AddStatementParts
<1>3. /\ Mapped(q)
      /\ Exact(p) => Exact(q)
      /\ \A t : Occurs(q, t) <=> Occurs(p, t) \/ t = s
  BY <1>1, <1>2, AddedStatementMaps DEF Formed
<1>4. \A m \in DOMAIN p.blocks[b].statements : p.blocks[b].statements[m].instruction < a
  <2> SUFFICES ASSUME NEW m \in DOMAIN p.blocks[b].statements
               PROVE  p.blocks[b].statements[m].instruction < a
    OBVIOUS
  <2>1. Occurs(p, p.blocks[b].statements[m])
    BY DEF Occurs
  <2> QED BY <2>1 DEF Known
<1>5. Inside(q)
  <2>1. \A t \in StatementRecords : t.instruction \in Nat \cup {None}
    BY RecordParts
  <2>2. Inside(p)
    BY DEF Formed
  <2> QED BY <1>1, <1>2, <1>4, <2>1, <2>2, AddedStatementInside
<1>6. /\ BlocksOf(q) = BlocksOf(p)
      /\ \A c \in BlocksOf(p) \ {b} : q.blocks[c] = p.blocks[c]
      /\ q.blocks[b].address = p.blocks[b].address
  BY <1>2 DEF StatementAdded
<1>7. Tails(q)
  <2>1. \A c \in BlocksOf(q) : ~Bound(q, c) => c \in BlocksOf(p) /\ ~Bound(p, c) /\ q.blocks[c] = p.blocks[c]
    BY <1>6 DEF Bound
  <2> QED BY <2>1 DEF Tails, Formed
<1>8. Known(q, A \cup {a})
  BY <1>3, <1>6 DEF Known
<1>9. Kept(q, A \cup {a})
  <2>1. \A c, m : ~IsOf(p, c, m, a)
    <3> SUFFICES ASSUME NEW c, NEW m, IsOf(p, c, m, a) PROVE FALSE
      OBVIOUS
    <3>1. PICK t : Occurs(p, t) /\ t.instruction = a
      BY IsOfOccurs
    <3>2. a \in A /\ a < a
      BY <3>1 DEF Known
    <3> QED BY <3>2
  <2>2. OnlyOne(q, a)
    BY <1>1, <1>2, <2>1, AddedStatementOnlyOne
  <2>3. ASSUME NEW x \in A PROVE OnlyOne(q, x)
    <3>1. x # s.instruction /\ OnlyOne(p, x)
      BY DEF Kept
    <3> QED BY <1>1, <1>2, <3>1, AddedStatementOnlyOne
  <2> QED BY <2>2, <2>3 DEF Kept
<1>10. Sided(p) => Sided(q)
  BY <1>1, <1>2, AddedForkSided
<1> QED BY <1>2, <1>3, <1>5, <1>7, <1>8, <1>9, <1>10 DEF Formed

\* The length of a sequence is the end of its domain.
LEMMA LengthOfDomain ==
    ASSUME NEW S, NEW ss \in Seq(S), NEW n \in Nat, DOMAIN ss = 1..n
    PROVE  Len(ss) = n
<1> PICK k : k = Len(ss)
  OBVIOUS
<1>1. k \in Nat /\ DOMAIN ss = 1..k
  OBVIOUS
<1>2. \A m : m \in 1..k <=> m \in 1..n
  BY <1>1
<1>3. (k # 0 => k \in 1..n) /\ (n # 0 => n \in 1..k)
  BY <1>1, <1>2
<1> QED BY <1>1, <1>3

\* A block without an address that has just been made.
Fresh(p, b) == b \in BlocksOf(p) /\ ~Bound(p, b) /\ p.blocks[b].statements = <<>>

\* In q the blocks are where they were.
SamePlaces(p, q) ==
    /\ q.ranges = p.ranges /\ BlocksOf(q) = BlocksOf(p)
    /\ \A c \in BlocksOf(p) : /\ q.blocks[c].address = p.blocks[c].address
                              /\ q.blocks[c].successor = p.blocks[c].successor

\* The two statements of a conditional effect, in a block of its own without an address.
LEMMA SideStatementsKeep ==
    ASSUME NEW p, Formed(p), NEW A, Known(p, A), Kept(p, A),
           NEW b, Fresh(p, b), LedTo(p, b),
           NEW s \in StatementRecords, s.instruction \in A, s.kind = "plain", s.blocks \subseteq BlocksOf(p),
           NEW t \in StatementRecords, t.instruction \in A, t.blocks \subseteq BlocksOf(p),
           NEW q, q = AddStatement(AddStatement(p, b, s), b, t)
    PROVE  /\ Formed(q) /\ Known(q, A) /\ Kept(q, A)
           /\ SamePlaces(p, q) /\ q.called = p.called
           /\ Exact(p) => Exact(q)
           /\ Sided(p) => Sided(q)
<1> PICK r : r = AddStatement(p, b, s)
  OBVIOUS
<1>1. /\ p \in Programs(StatementRecords)
      /\ b \in BlocksOf(p) /\ ~Bound(p, b) /\ p.blocks[b].statements = <<>>
  BY DEF Formed, Fresh
<1>2. r \in Programs(StatementRecords) /\ StatementAdded(p, r, b, s)
  BY <1>1, AddStatementParts
<1>3. b \in BlocksOf(r) /\ q = AddStatement(r, b, t)
  BY <1>1, <1>2 DEF StatementAdded
<1>4. q \in Programs(StatementRecords) /\ StatementAdded(r, q, b, t)
  BY <1>2, <1>3, AddStatementParts
<1>5. /\ r.ranges = p.ranges /\ BlocksOf(r) = BlocksOf(p)
      /\ \A c \in BlocksOf(p) \ {b} : r.blocks[c] = p.blocks[c]
      /\ r.blocks[b].address = p.blocks[b].address
      /\ r.blocks[b].successor = p.blocks[b].successor
  BY <1>2 DEF StatementAdded
<1>6. /\ q.ranges = r.ranges /\ BlocksOf(q) = BlocksOf(r)
      /\ \A c \in BlocksOf(r) \ {b} : q.blocks[c] = r.blocks[c]
      /\ q.blocks[b].address = r.blocks[b].address
      /\ q.blocks[b].successor = r.blocks[b].successor
  BY <1>4 DEF StatementAdded
<1>7. /\ Mapped(r)
      /\ Exact(p) => Exact(r)
      /\ \A u : Occurs(r, u) <=> Occurs(p, u) \/ u = s
  BY <1>1, <1>2, AddedStatementMaps DEF Formed
<1>8. /\ Mapped(q)
      /\ Exact(r) => Exact(q)
      /\ \A u : Occurs(q, u) <=> Occurs(r, u) \/ u = t
  BY <1>2, <1>3, <1>4, <1>7, AddedStatementMaps
<1>9. ~Bound(r, b) /\ ~Bound(q, b) /\ \A c \in BlocksOf(p) \ {b} : q.blocks[c] = p.blocks[c]
  BY <1>1, <1>5, <1>6 DEF Bound
<1>10. Known(q, A)
  BY <1>5, <1>6, <1>7, <1>8 DEF Known
<1>11. Kept(q, A)
  <2> SUFFICES ASSUME NEW x \in A PROVE OnlyOne(q, x)
    BY DEF Kept
  <2>1. OnlyOne(p, x)
    BY DEF Kept
  <2>2. OnlyOne(r, x)
    BY <1>1, <1>2, <2>1, AddedStatementOnlyOne
  <2> QED BY <1>2, <1>3, <1>4, <1>9, <2>2, AddedStatementOnlyOne
<1>12. Inside(q)
  <2>1. \A c \in BlocksOf(q) : Bound(q, c) => c \in BlocksOf(p) /\ Bound(p, c) /\ q.blocks[c] = p.blocks[c]
    BY <1>5, <1>6, <1>9 DEF Bound
  <2> QED BY <2>1 DEF Inside, Formed
<1> PICK rr : rr = r.blocks[b].statements
  OBVIOUS
<1> PICK qq : qq = q.blocks[b].statements
  OBVIOUS
<1>16. LongerBy(<<>>, rr, s) /\ LongerBy(rr, qq, t)
  <2>1. LongerBy(p.blocks[b].statements, rr, s) /\ p.blocks[b].statements = <<>>
    BY <1>1, <1>2, LongerStatements
  <2>2. LongerBy(rr, qq, t)
    BY <1>2, <1>3, <1>4, LongerStatements
  <2> QED BY <2>1, <2>2
<1>17. DOMAIN rr = 1..1 /\ rr[1] = s
  <2>1. Len(<<>>) = 0
    OBVIOUS
  <2> QED BY <1>16, <2>1 DEF LongerBy
<1>18. Len(rr) = 1 /\ Len(qq) = 2
  <2>1. rr \in Seq(StatementRecords) /\ qq \in Seq(StatementRecords)
    BY <1>2, <1>3, <1>4, <1>5, <1>6, ProgramParts
  <2>2. Len(rr) = 1
    BY <1>17, <2>1, LengthOfDomain
  <2>3. DOMAIN qq = 1..2
    BY <1>16, <2>2 DEF LongerBy
  <2> QED BY <2>1, <2>2, <2>3, LengthOfDomain
<1>19. \A c \in BlocksOf(q) \ {b} : ~Bound(q, c) => c \in BlocksOf(p) /\ ~Bound(p, c) /\ q.blocks[c] = p.blocks[c]
  BY <1>5, <1>6, <1>9 DEF Bound
<1>13. Tails(q)
  <2>1. qq[1] = s /\ \A m \in DOMAIN qq : m = 1 \/ m = 2
    BY <1>16, <1>17, <1>18 DEF LongerBy
  <2>2. \A m \in DOMAIN q.blocks[b].statements :
            q.blocks[b].statements[m].kind \in Terminators => m = Len(q.blocks[b].statements)
    BY <1>18, <2>1 DEF Terminators
  <2>3. q.blocks[b].successor = None
    BY <1>1, <1>5, <1>6 DEF Formed, Tails
  <2> QED BY <1>19, <2>2, <2>3 DEF Tails, Formed
<1>20. Sided(p) => Sided(q)
  <2>1. \A u : Held(r, u) <=> Held(p, u)
    BY <1>1, <1>2, AddedStatementHeld
  <2>2. \A u : Held(q, u) <=> Held(r, u)
    BY <1>2, <1>3, <1>4, <1>9, AddedStatementHeld
  <2>3. \A u : Held(q, u) <=> Held(p, u)
    BY <2>1, <2>2
  <2>4. \A c : LedTo(q, c) <=> LedTo(p, c)
    BY <2>3, SameHeld
  <2>5. Len(q.blocks[b].statements) # 1 /\ LedTo(q, b)
    BY <1>18, <2>4
  <2> QED BY <1>19, <2>3, <2>4, <2>5 DEF Sided
<1>14. SamePlaces(p, q)
  BY <1>5, <1>6 DEF SamePlaces
<1>15. q.called = p.called
  BY <1>2, <1>4 DEF StatementAdded
<1> QED BY <1>4, <1>7, <1>8, <1>10, <1>11, <1>12, <1>13, <1>14, <1>15, <1>20 DEF Formed

\* No key goes on behind the instruction i.
UpTo(es, i) == \A e \in es : e.range[1] < e.range[2] => e.range[1] <= i.address /\ e.range[2] <= EndOf(i)

\* The block behind an instruction that is the last so far.
LEMMA SuccessorAdds ==
    ASSUME NEW S, NEW p \in Programs(S), Mapped(p),
           NEW i, i.address \in Nat, i.size \in Nat \ {0}, UpTo(p.ranges, i),
           NEW q, q = WithSuccessor(p, i)
    PROVE  /\ q \in Programs(S) /\ Mapped(q) /\ BlocksAdded(p, q) /\ UpTo(q.ranges, i)
           /\ DirectSuccessor(q, i) \in BlocksOf(q) /\ Bound(q, DirectSuccessor(q, i))
           /\ \A c \in BlocksOf(q) \ BlocksOf(p) : q.blocks[c].successor = EndOf(i)
           /\ q.called = p.called
           /\ Exact(p) => Exact(q)
<1> PICK a : a = EndOf(i)
  OBVIOUS
<1>1. a \in Nat /\ a \in Int
  BY DEF EndOf
<1> PICK n : n = Len(p.blocks) + 1
  OBVIOUS
<1>2. q = CreateBasicBlock(p, a)
  BY DEF WithSuccessor
<1>3. CASE StartingAt(p, a) # {}
  <2>1. q = p
    BY <1>2, <1>3 DEF CreateBasicBlock
  <2>2. DirectSuccessor(q, i) \in BlocksOf(q) /\ Bound(q, DirectSuccessor(q, i))
    BY <1>3, <2>1 DEF DirectSuccessor, The, StartingAt, Bound
  <2> QED BY <2>1, <2>2 DEF BlocksAdded
<1>4. CASE StartingAt(p, a) = {}
  <2>1. Covering(p, a) = {}
    <3>1. \A e \in p.ranges : e.range[1] \in Nat /\ e.range[2] \in Nat
      BY ProgramParts DEF Entries
    <3>2. \A e \in p.ranges : ~(e.range[1] <= a /\ a < e.range[2])
      BY <1>1, <3>1 DEF UpTo
    <3> QED BY <1>1, <3>2, CoveringKey
  <2>2. /\ q \in Programs(S) /\ BlocksOf(q) = BlocksOf(p) \cup {n} /\ n \notin BlocksOf(p)
        /\ \A c \in BlocksOf(p) : q.blocks[c] = p.blocks[c]
        /\ q.blocks[n] = NewBlock(a) /\ q.called = p.called
        /\ Mapped(q)
        /\ \A e \in q.ranges : e.range = <<a, a>> \/ \E f \in p.ranges : e.range = f.range
        /\ Exact(p) => Exact(q)
    BY <1>1, <1>2, <1>4, <2>1, CreateBasicBlockAdds
  <2>3. q.blocks[n].statements = <<>> /\ q.blocks[n].successor = a /\ q.blocks[n].address = a
    BY <2>2 DEF NewBlock
  <2>4. BlocksAdded(p, q)
    BY <2>2, <2>3 DEF BlocksAdded
  <2>5. UpTo(q.ranges, i)
    <3> SUFFICES ASSUME NEW e \in q.ranges, e.range[1] < e.range[2]
                 PROVE  e.range[1] <= i.address /\ e.range[2] <= EndOf(i)
      BY DEF UpTo
    <3>1. CASE e.range = <<a, a>>
      BY <1>1, <3>1
    <3>2. CASE \E f \in p.ranges : e.range = f.range
      BY <3>2 DEF UpTo
    <3> QED BY <2>2, <3>1, <3>2
  <2>6. DirectSuccessor(q, i) \in BlocksOf(q) /\ Bound(q, DirectSuccessor(q, i))
    <3>1. n \in StartingAt(q, a)
      BY <1>1, <2>2, <2>3 DEF StartingAt, None
    <3> QED BY <3>1 DEF DirectSuccessor, The, StartingAt, Bound
  <2>7. \A c \in BlocksOf(q) \ BlocksOf(p) : q.blocks[c].successor = EndOf(i)
    BY <2>2, <2>3
  <2> QED BY <2>2, <2>4, <2>5, <2>6, <2>7
<1> QED BY <1>3, <1>4
-----------------------------------------------------------------------------
(* One more instruction, behind those at the addresses A. *)

EndsBy(p, z) == \A c \in BlocksOf(p) : Bound(p, c) => p.blocks[c].successor <= z

\* On the way from p, where it was the next one, the instruction i has got as far as q;
\* it is one of A once its statement is there.
Translating(p, q, i, A) ==
    /\ Formed(q) /\ Known(q, A) /\ Kept(q, A) /\ UpTo(q.ranges, i) /\ q.called = p.called
    /\ Exact(p) /\ EndsBy(p, i.address) => Exact(q) /\ EndsBy(q, EndOf(i))
    /\ Sided(p) => Sided(q)

\* The block for the instruction.
Holds(q, b, a) ==
    /\ b \in BlocksOf(q) /\ Bound(q, b)
    /\ q.blocks[b].address <= a /\ a < q.blocks[b].successor

\* The first step of an instruction: a block that holds its address.
LEMMA InstructionGetsBlock ==
    ASSUME NEW p, Formed(p), NEW i, i.address \in Nat, i.size \in Nat \ {0},
           NEW A \in SUBSET Nat, \A a \in A : a < i.address, Known(p, A), Kept(p, A),
           Before(p.ranges, i.address),
           NEW b, b = BlockForInstruction(p, i), NEW q, q = ExtendForInstruction(p, i)
    PROVE  Translating(p, q, i, A) /\ Holds(q, b, i.address)
<1>1. p \in Programs(StatementRecords) /\ Mapped(p)
  BY DEF Formed
<1>2. /\ q \in Programs(StatementRecords) /\ Mapped(q) /\ Extended(p, q, b, i)
      /\ (/\ Exact(p)
          /\ \A c \in BlocksOf(p) : Bound(p, c) => p.blocks[c].successor <= i.address)
         => Exact(q)
  BY <1>1, ExtendsBlock
<1>3. Formed(q) /\ Known(q, A) /\ Kept(q, A) /\ (Sided(p) => Sided(q))
  BY <1>2, ExtendedKeeps
<1>4. Holds(q, b, i.address)
  BY <1>2 DEF Extended, Holds
<1>5. UpTo(q.ranges, i)
  BY <1>2 DEF Extended, UpTo, EndOf
<1>6. EndsBy(p, i.address) => EndsBy(q, EndOf(i))
  <2> SUFFICES ASSUME EndsBy(p, i.address), NEW c \in BlocksOf(q), Bound(q, c)
               PROVE  q.blocks[c].successor <= EndOf(i)
    BY DEF EndsBy
  <2>1. CASE c = b
    BY <1>2, <2>1 DEF Extended, EndOf
  <2>2. CASE c # b
    <3>1. c \in BlocksOf(p) /\ q.blocks[c] = p.blocks[c] /\ Bound(p, c)
      BY <1>2, <2>2 DEF Extended, Bound
    <3>2. p.blocks[c].successor \in Nat /\ p.blocks[c].successor <= i.address
      BY <1>1, <3>1 DEF EndsBy, Mapped, Located
    <3> QED BY <3>1, <3>2 DEF EndOf
  <2> QED BY <2>1, <2>2
<1>7. Exact(p) /\ EndsBy(p, i.address) => Exact(q) /\ EndsBy(q, EndOf(i))
  BY <1>2, <1>6 DEF EndsBy
<1>8. q.called = p.called
  BY <1>2 DEF Extended
<1> QED BY <1>3, <1>4, <1>5, <1>7, <1>8 DEF Translating

\* A statement of the instruction in its block, the only one of it.
LEMMA InstructionGetsStatement ==
    ASSUME NEW p, NEW i, i.address \in Nat,
           NEW A \in SUBSET Nat, \A a \in A : a < i.address,
           NEW r, Translating(p, r, i, A), NEW b, Holds(r, b, i.address),
           NEW s \in StatementRecords, s.instruction = i.address, s.blocks \subseteq BlocksOf(r), Forked(s),
           NEW q, q = AddStatement(r, b, s)
    PROVE  Translating(p, q, i, A \cup {i.address}) /\ StatementAdded(r, q, b, s)
<1> PICK a : a = i.address
  OBVIOUS
<1>1. Formed(r) /\ Known(r, A) /\ Kept(r, A)
  BY DEF Translating
<1>2. /\ b \in BlocksOf(r) /\ Bound(r, b)
      /\ r.blocks[b].address <= a /\ a < r.blocks[b].successor
  BY DEF Holds
<1>3. a \in Nat /\ \A x \in A : x < a
  OBVIOUS
<1>4. /\ Formed(q) /\ Known(q, A \cup {a}) /\ Kept(q, A \cup {a})
      /\ StatementAdded(r, q, b, s)
      /\ Exact(r) => Exact(q)
      /\ Sided(r) => Sided(q)
  BY <1>1, <1>2, <1>3, MainStatementKeeps
<1>5. EndsBy(r, EndOf(i)) => EndsBy(q, EndOf(i))
  BY <1>4 DEF StatementAdded, EndsBy, Bound
<1>6. UpTo(q.ranges, i)
  BY <1>4 DEF StatementAdded, Translating
<1>7. Exact(p) /\ EndsBy(p, i.address) => Exact(q) /\ EndsBy(q, EndOf(i))
  BY <1>4, <1>5 DEF Translating
<1>8. q.called = p.called
  BY <1>4 DEF StatementAdded, Translating
<1>9. Sided(p) => Sided(q)
  BY <1>4 DEF Translating
<1> QED BY <1>4, <1>6, <1>7, <1>8, <1>9 DEF Translating

\* Blocks behind and beside the instruction.
LEMMA InstructionGetsMoreBlocks ==
    ASSUME NEW p, NEW i, NEW A, NEW r, Translating(p, r, i, A),
           NEW b, Holds(r, b, i.address),
           NEW q \in Programs(StatementRecords), Mapped(q), BlocksAdded(r, q), UpTo(q.ranges, i),
           q.called = r.called, Exact(r) => Exact(q),
           \A c \in BlocksOf(q) \ BlocksOf(r) : Bound(q, c) => q.blocks[c].successor <= EndOf(i)
    PROVE  Translating(p, q, i, A) /\ Holds(q, b, i.address)
<1>1. Formed(r) /\ Known(r, A) /\ Kept(r, A)
  BY DEF Translating
<1>2. Formed(q) /\ Known(q, A) /\ Kept(q, A) /\ (Sided(r) => Sided(q))
  BY <1>1, BlocksAddedKeep DEF Formed
<1>3. EndsBy(r, EndOf(i)) => EndsBy(q, EndOf(i))
  BY DEF BlocksAdded, EndsBy, Bound
<1>4. Exact(p) /\ EndsBy(p, i.address) => Exact(q) /\ EndsBy(q, EndOf(i))
  BY <1>3 DEF Translating
<1>5. Holds(q, b, i.address)
  BY DEF BlocksAdded, Holds, Bound
<1> QED BY <1>2, <1>4, <1>5 DEF Translating

\* A block at its end.
LEMMA InstructionGetsSuccessor ==
    ASSUME NEW p, NEW i, i.address \in Nat, i.size \in Nat \ {0}, NEW A,
           NEW r, Translating(p, r, i, A), NEW b, Holds(r, b, i.address),
           NEW q, q = WithSuccessor(r, i)
    PROVE  /\ Translating(p, q, i, A) /\ Holds(q, b, i.address) /\ BlocksAdded(r, q)
           /\ DirectSuccessor(q, i) \in BlocksOf(q) /\ Bound(q, DirectSuccessor(q, i))
<1>1. r \in Programs(StatementRecords) /\ Mapped(r) /\ UpTo(r.ranges, i)
  BY DEF Translating, Formed
<1>2. /\ q \in Programs(StatementRecords) /\ Mapped(q) /\ BlocksAdded(r, q) /\ UpTo(q.ranges, i)
      /\ DirectSuccessor(q, i) \in BlocksOf(q) /\ Bound(q, DirectSuccessor(q, i))
      /\ \A c \in BlocksOf(q) \ BlocksOf(r) : q.blocks[c].successor = EndOf(i)
      /\ q.called = r.called
      /\ Exact(r) => Exact(q)
  BY <1>1, SuccessorAdds
<1>3. EndOf(i) <= EndOf(i)
  BY DEF EndOf
<1> QED BY <1>2, <1>3, InstructionGetsMoreBlocks

\* A block without an address.
LEMMA InstructionGetsSideBlock ==
    ASSUME NEW p, NEW i, NEW A,
           NEW r, Translating(p, r, i, A), NEW b, Holds(r, b, i.address),
           NEW q, q = AddBlock(r, None), NEW n, n = LastBlock(r) + 1
    PROVE  /\ Translating(p, q, i, A) /\ Holds(q, b, i.address)
           /\ Fresh(q, n) /\ n \in Nat
<1>1. r \in Programs(StatementRecords) /\ Mapped(r) /\ UpTo(r.ranges, i)
  BY DEF Translating, Formed
<1> PICK x : x = None
  OBVIOUS
<1>2. x \in Nat \cup {None} /\ q = AddBlock(r, x) /\ n = Len(r.blocks) + 1
  BY DEF LastBlock
<1>3. /\ q \in Programs(StatementRecords) /\ q.ranges = r.ranges /\ q.called = r.called
      /\ BlocksOf(q) = BlocksOf(r) \cup {n} /\ n \notin BlocksOf(r)
      /\ \A c \in BlocksOf(r) : q.blocks[c] = r.blocks[c]
      /\ q.blocks[n] = NewBlock(x)
  BY <1>1, <1>2, AddBlockParts
<1>4. /\ q.blocks[n].statements = <<>> /\ q.blocks[n].successor = None
      /\ q.blocks[n].address = None
  BY <1>3 DEF NewBlock
<1>5. /\ ~Bound(q, n)
      /\ \A c \in BlocksOf(r) : (Bound(q, c) <=> Bound(r, c)) /\ RangeOfBlock(q, c) = RangeOfBlock(r, c)
  BY <1>3, <1>4 DEF Bound, RangeOfBlock
<1>6. BlocksAdded(r, q)
  BY <1>3, <1>4 DEF BlocksAdded
<1>7. Mapped(q)
  <2>1. \A c \in BlocksOf(q) \ BlocksOf(r) : ~Bound(q, c)
    BY <1>3, <1>5
  <2> QED BY <1>1, <1>3, <2>1, FitsAfter
<1>8. Exact(r) => Exact(q)
  <2>1. \A c : (c \in BlocksOf(q) /\ Bound(q, c)) <=> (c \in BlocksOf(r) /\ Bound(r, c))
    BY <1>3, <1>5
  <2>2. \A c \in BlocksOf(r) : EntryOf(q, c) = EntryOf(r, c)
    BY <1>5 DEF EntryOf
  <2>3. {EntryOf(q, c) : c \in {d \in BlocksOf(q) : Bound(q, d)}}
            = {EntryOf(r, c) : c \in {d \in BlocksOf(r) : Bound(r, d)}}
    BY <2>1, <2>2
  <2> QED BY <1>3, <2>3 DEF Exact
<1>9. \A c \in BlocksOf(q) \ BlocksOf(r) : Bound(q, c) => q.blocks[c].successor <= EndOf(i)
  BY <1>3, <1>5
<1>10. Translating(p, q, i, A) /\ Holds(q, b, i.address)
  BY <1>1, <1>3, <1>6, <1>7, <1>8, <1>9, InstructionGetsMoreBlocks
<1>11. n \in Nat
  BY <1>3, ProgramParts
<1> QED BY <1>3, <1>4, <1>5, <1>10, <1>11 DEF Fresh

\* ... and the statements of its conditional effect.
LEMMA InstructionGetsSideStatements ==
    ASSUME NEW p, NEW i, NEW A \in SUBSET Nat, i.address \in A,
           NEW r, Translating(p, r, i, A),
           NEW b, Fresh(r, b), LedTo(r, b),
           NEW s \in StatementRecords, s.instruction = i.address, s.kind = "plain", s.blocks \subseteq BlocksOf(r),
           NEW t \in StatementRecords, t.instruction = i.address, t.blocks \subseteq BlocksOf(r),
           NEW q, q = AddStatement(AddStatement(r, b, s), b, t)
    PROVE  Translating(p, q, i, A)
<1>1. Formed(r) /\ Known(r, A) /\ Kept(r, A) /\ UpTo(r.ranges, i)
  BY DEF Translating
<1>2. s.instruction \in A /\ t.instruction \in A
  OBVIOUS
<1>3. /\ Formed(q) /\ Known(q, A) /\ Kept(q, A)
      /\ SamePlaces(r, q) /\ q.called = r.called
      /\ Exact(r) => Exact(q)
      /\ Sided(r) => Sided(q)
  BY <1>1, <1>2, SideStatementsKeep
<1>4. EndsBy(r, EndOf(i)) => EndsBy(q, EndOf(i))
  BY <1>3 DEF SamePlaces, EndsBy, Bound
<1>6. q.ranges = r.ranges
  BY <1>3 DEF SamePlaces
<1>5. Exact(p) /\ EndsBy(p, i.address) => Exact(q) /\ EndsBy(q, EndOf(i))
  BY <1>3, <1>4 DEF Translating
<1>7. Sided(p) => Sided(q)
  BY <1>3 DEF Translating
<1> QED BY <1>1, <1>3, <1>5, <1>6, <1>7 DEF Translating

\* What a statement made for an instruction is.
LEMMA StatementParts ==
    ASSUME NEW i, i.address \in Nat, NEW kind \in StatementKinds, NEW targets \in Seq(Nat),
           NEW blocks \in SUBSET Nat, NEW s, s = Statement(i, kind, targets, blocks)
    PROVE  /\ s \in StatementRecords /\ s.instruction = i.address /\ s.kind = kind
           /\ s.blocks = blocks /\ s.targets = targets
BY DEF Statement, StatementRecords

\* Neither no block nor two different ones are one.
LEMMA NotOne ==
    /\ Cardinality({}) # 1
    /\ \A x, y : x # y => Cardinality({x, y}) # 1
<1>1. Cardinality({}) = 0
  BY FS_EmptySet
<1>2. ASSUME NEW x, NEW y, x # y PROVE Cardinality({x, y}) # 1
  <2> PICK one : one = {x}
    OBVIOUS
  <2> PICK two : two = one \cup {y}
    OBVIOUS
  <2>1. IsFiniteSet(one) /\ Cardinality(one) = 1
    BY FS_Singleton
  <2>2. y \notin one
    BY <1>2
  <2>3. Cardinality(two) = Cardinality(one) + 1
    BY <2>1, <2>2, FS_AddElement
  <2>4. two = {x, y}
    OBVIOUS
  <2> QED BY <2>1, <2>3, <2>4
<1> QED BY <1>1, <1>2

\* A conditional effect, as Statements() has it.
WithEffect(i, p, b) ==
    LET side == LastBlock(p) + 1
        q == WithSuccessor(AddBlock(p, None), i)
        next == DirectSuccessor(q, i)
        r == AddStatement(q, b, Statement(i, "jump", <<>>, {side, next}))
    IN  AddStatement(AddStatement(r, side, Statement(i, "plain", <<>>, {})),
                     side, Statement(i, "jump", <<>>, {next}))

\* A conditional effect: three statements, of which one is in a block with an address.
LEMMA InstructionGetsEffect ==
    ASSUME NEW p, NEW i, i.address \in Nat, i.size \in Nat \ {0},
           NEW A \in SUBSET Nat, \A a \in A : a < i.address,
           NEW r, Translating(p, r, i, A), NEW b, Holds(r, b, i.address),
           NEW q, q = WithEffect(i, r, b)
    PROVE  Translating(p, q, i, A \cup {i.address})
<1>1. PICK side : side = LastBlock(r) + 1
  OBVIOUS
<1>2. PICK u : u = AddBlock(r, None)
  OBVIOUS
<1>3. PICK t : t = WithSuccessor(u, i)
  OBVIOUS
<1>4. PICK next : next = DirectSuccessor(t, i)
  OBVIOUS
<1>5. PICK both : both = {side, next}
  OBVIOUS
<1>6. PICK one : one = {next}
  OBVIOUS
<1>26. PICK nothing : nothing = <<>>
  OBVIOUS
<1>27. PICK none : none = {}
  OBVIOUS
<1>7. PICK jump : jump = Statement(i, "jump", nothing, both)
  OBVIOUS
<1>8. PICK v : v = AddStatement(t, b, jump)
  OBVIOUS
<1>9. PICK effect : effect = Statement(i, "plain", nothing, none)
  OBVIOUS
<1>10. PICK back : back = Statement(i, "jump", nothing, one)
  OBVIOUS
<1>11. q = AddStatement(AddStatement(v, side, effect), side, back)
  BY <1>1, <1>2, <1>3, <1>4, <1>5, <1>6, <1>7, <1>8, <1>9, <1>10, <1>26, <1>27, Zenon DEF WithEffect
<1>12. /\ Translating(p, u, i, A) /\ Holds(u, b, i.address)
       /\ Fresh(u, side) /\ side \in Nat
  BY <1>1, <1>2, InstructionGetsSideBlock
<1>13. /\ Translating(p, t, i, A) /\ Holds(t, b, i.address) /\ BlocksAdded(u, t)
       /\ next \in BlocksOf(t) /\ Bound(t, next)
  BY <1>3, <1>4, <1>12, InstructionGetsSuccessor
<1>14. Fresh(t, side)
  BY <1>12, <1>13 DEF BlocksAdded, Bound, Fresh
<1>15. both \in SUBSET Nat /\ one \in SUBSET Nat /\ none \in SUBSET Nat /\ nothing \in Seq(Nat)
  <2>1. t \in Programs(StatementRecords)
    BY <1>13 DEF Translating, Formed
  <2>2. next \in Nat
    BY <1>13, <2>1, ProgramParts
  <2> QED BY <1>5, <1>6, <1>12, <1>26, <1>27, <2>2
<1>16. "jump" \in StatementKinds /\ "plain" \in StatementKinds
  BY DEF StatementKinds
<1>17. jump \in StatementRecords /\ jump.instruction = i.address /\ jump.blocks = both /\ jump.kind = "jump"
  <2>1. both \in SUBSET Nat /\ nothing \in Seq(Nat) /\ "jump" \in StatementKinds
    BY <1>15, <1>16
  <2> QED BY <1>7, <2>1 DEF Statement, StatementRecords
<1>18. /\ effect \in StatementRecords /\ effect.instruction = i.address /\ effect.kind = "plain"
       /\ effect.blocks = none
  BY <1>9, <1>15, <1>16, StatementParts
<1>19. back \in StatementRecords /\ back.instruction = i.address /\ back.blocks = one
  BY <1>10, <1>15, <1>16, StatementParts
<1>20. jump.blocks \subseteq BlocksOf(t)
  BY <1>5, <1>13, <1>14, <1>17 DEF Fresh
<1>28. Forked(jump)
  <2>1. side # next
    BY <1>13, <1>14 DEF Fresh
  <2>2. Cardinality(both) # 1
    BY <1>5, <2>1, NotOne
  <2> QED BY <1>17, <2>2 DEF Forked
<1>21. Translating(p, v, i, A \cup {i.address}) /\ StatementAdded(t, v, b, jump)
  BY <1>8, <1>13, <1>17, <1>20, <1>28, InstructionGetsStatement
<1>29. LedTo(v, side)
  <2>1. /\ t \in Programs(StatementRecords) /\ v \in Programs(StatementRecords)
        /\ b \in BlocksOf(t) /\ Bound(t, b)
    BY <1>13, <1>21 DEF Translating, Formed, Holds
  <2>2. Held(v, jump)
    BY <1>17, <1>21, <2>1, AddedStatementHeld
  <2> QED BY <1>5, <1>17, <2>2 DEF LedTo
<1>22. BlocksOf(v) = BlocksOf(t) /\ side # b /\ v.blocks[side] = t.blocks[side]
  BY <1>13, <1>14, <1>21 DEF StatementAdded, Holds, Fresh
<1>23. Fresh(v, side)
  BY <1>14, <1>22 DEF Bound, Fresh
<1>24. effect.blocks \subseteq BlocksOf(v) /\ back.blocks \subseteq BlocksOf(v)
  BY <1>6, <1>13, <1>18, <1>19, <1>22, <1>27
<1>25. A \cup {i.address} \in SUBSET Nat /\ i.address \in A \cup {i.address}
  OBVIOUS
<1> QED BY <1>11, <1>18, <1>19, <1>21, <1>23, <1>24, <1>25, <1>29, InstructionGetsSideStatements

\* Whatever its kind, the instruction leaves one statement, or none if it fails.
LEMMA StatementsKeep ==
    ASSUME NEW p, Formed(p),
           NEW i, i.address \in Nat, i.size \in Nat \ {0}, i.kind \in Kinds \ {"invalid"},
           i.targets \in Seq(Nat), i.kind = "branch" => i.targets # <<>>,
           NEW A \in SUBSET Nat, \A a \in A : a < i.address, Known(p, A), Kept(p, A),
           Before(p.ranges, i.address),
           NEW q, q = Statements(i, ExtendForInstruction(p, i), BlockForInstruction(p, i))
    PROVE  Translating(p, q, i, IF i.kind = "failing" THEN A ELSE A \cup {i.address})
<1> PICK b : b = BlockForInstruction(p, i)
  OBVIOUS
<1> PICK r : r = ExtendForInstruction(p, i)
  OBVIOUS
<1>1. Translating(p, r, i, A) /\ Holds(r, b, i.address)
  BY InstructionGetsBlock
<1>2. q = Statements(i, r, b)
  OBVIOUS
<1>3. {} \in SUBSET Nat /\ <<>> \in Seq(Nat)
  OBVIOUS
<1>4. \A x : Translating(p, x, i, A) => BlocksOf(x) \subseteq Nat
  <2> SUFFICES ASSUME NEW x, Translating(p, x, i, A) PROVE BlocksOf(x) \subseteq Nat
    OBVIOUS
  <2> QED BY ProgramParts DEF Translating, Formed
<1>5. CASE i.kind = "failing"
  <2>1. q = r
    BY <1>2, <1>5 DEF Statements
  <2> QED BY <1>1, <1>5, <2>1
<1>6. CASE i.kind \in {"plain", "call", "return"}
  <2> PICK s : s = Statement(i, i.kind, i.targets, {})
    OBVIOUS
  <2>1. q = AddStatement(r, b, s)
    BY <1>2, <1>6 DEF Statements
  <2>2. i.kind \in StatementKinds
    BY <1>6 DEF StatementKinds
  <2>3. s \in StatementRecords /\ s.instruction = i.address /\ s.blocks = {} /\ s.kind = i.kind
    BY <1>3, <2>2, StatementParts
  <2>4. s.blocks \subseteq BlocksOf(r) /\ Forked(s)
    BY <1>6, <2>3 DEF Forked
  <2> QED BY <1>1, <1>6, <2>1, <2>3, <2>4, InstructionGetsStatement
<1>7. CASE i.kind \in {"jump", "switch"}
  <2> PICK s : s = Statement(i, "jump", i.targets, {})
    OBVIOUS
  <2>1. q = AddStatement(r, b, s)
    BY <1>2, <1>7 DEF Statements
  <2>2. "jump" \in StatementKinds
    BY DEF StatementKinds
  <2>3. s \in StatementRecords /\ s.instruction = i.address /\ s.blocks = {}
    BY <1>3, <2>2, StatementParts
  <2>5. Cardinality(s.blocks) # 1
    BY <2>3, NotOne
  <2>4. s.blocks \subseteq BlocksOf(r) /\ Forked(s)
    BY <2>3, <2>5 DEF Forked
  <2> QED BY <1>1, <1>7, <2>1, <2>3, <2>4, InstructionGetsStatement
<1>8. CASE i.kind = "branch"
  <2> PICK t : t = WithSuccessor(r, i)
    OBVIOUS
  <2> PICK s : s = Statement(i, "jump", i.targets, {DirectSuccessor(t, i)})
    OBVIOUS
  <2>1. q = AddStatement(t, b, s)
    BY <1>2, <1>8 DEF Statements
  <2>2. /\ Translating(p, t, i, A) /\ Holds(t, b, i.address)
        /\ DirectSuccessor(t, i) \in BlocksOf(t)
    BY <1>1, InstructionGetsSuccessor
  <2>3. {DirectSuccessor(t, i)} \in SUBSET Nat
    BY <1>4, <2>2
  <2>4. "jump" \in StatementKinds
    BY DEF StatementKinds
  <2>5. /\ s \in StatementRecords /\ s.instruction = i.address /\ s.blocks = {DirectSuccessor(t, i)}
        /\ s.targets = i.targets
    BY <2>3, <2>4, StatementParts
  <2>6. s.blocks \subseteq BlocksOf(t) /\ Forked(s)
    BY <1>8, <2>2, <2>5 DEF Forked
  <2> QED BY <1>8, <2>1, <2>2, <2>5, <2>6, InstructionGetsStatement, Zenon
<1>9. CASE i.kind = "skip"
  <2>1. q = WithEffect(i, r, b)
    BY <1>2, <1>9 DEF Statements, WithEffect
  <2> QED BY <1>1, <1>9, <2>1, InstructionGetsEffect
<1> QED BY <1>5, <1>6, <1>7, <1>8, <1>9 DEF Kinds
-----------------------------------------------------------------------------
(* The instructions that have been translated come before the others. *)

Addresses(T) == {i.address : i \in T}
Sound(T) == {i \in T : i.kind \notin {"invalid", "failing"}}

InOrder(C, T) == \A j \in T, k \in C \ T : j.address < k.address
Reached(p, T) ==
    \A e \in p.ranges : e.range[1] < e.range[2] => \E j \in T : e.range[1] <= j.address
Ended(p, T) == \A c \in BlocksOf(p) : Bound(p, c) => \E j \in T : p.blocks[c].successor <= EndOf(j)

Apart(C) == \A i, j \in C : i # j => EndOf(i) <= j.address \/ EndOf(j) <= i.address

\* What is assumed of the instructions.
LEMMA CodeParts ==
    ASSUME NEW C \in Codes
    PROVE  /\ IsFiniteSet(C)
           /\ \A i \in C : /\ i.address \in Nat /\ i.size \in Nat \ {0} /\ i.kind \in Kinds
                           /\ i.targets \in Seq(Nat) /\ (i.kind = "branch" => i.targets # <<>>)
           /\ \A i, j \in C : i.address = j.address => i = j
<1>1. IsCode(C)
  BY CodesAssumption
<1>2. \A i \in C : i.kind = "branch" => i.targets # <<>>
  <2>1. Len(<<>>) # 1
    OBVIOUS
  <2> QED BY <1>1, <2>1 DEF IsCode
<1> QED BY <1>1, <1>2 DEF IsCode

\* There is a next instruction unless there is none left.
LEMMA NextInstruction ==
    ASSUME NEW C \in Codes, NEW R \in SUBSET C, R # {}
    PROVE  \E i \in R : \A k \in R : i.address <= k.address
<1>1. Addresses(R) \in SUBSET Nat /\ Addresses(R) # {}
  BY CodeParts DEF Addresses
<1>2. PICK a \in Addresses(R) : \A b \in Addresses(R) : a <= b
  BY <1>1, Least
<1> QED BY <1>2 DEF Addresses

\* What has been generated from the instructions T.
Generated(C, p, T) ==
    /\ Formed(p)
    /\ Known(p, Addresses(Sound(T))) /\ Kept(p, Addresses(Sound(T)))
    /\ InOrder(C, T) /\ Reached(p, T) /\ p.called = {}
    /\ Apart(C) => Exact(p) /\ Ended(p, T)
    /\ Sided(p)

\* An instruction that is translated joins those that have statements, or does not.
LEMMA SoundGrows ==
    ASSUME NEW T, NEW i
    PROVE  Addresses(Sound(T \cup {i})) =
               IF i.kind \in {"invalid", "failing"} THEN Addresses(Sound(T))
               ELSE Addresses(Sound(T)) \cup {i.address}
<1>1. CASE i.kind \in {"invalid", "failing"}
  <2>1. Sound(T \cup {i}) = Sound(T)
    BY <1>1 DEF Sound
  <2> QED BY <1>1, <2>1
<1>2. CASE i.kind \notin {"invalid", "failing"}
  <2>1. Sound(T \cup {i}) = Sound(T) \cup {i}
    BY <1>2 DEF Sound
  <2> QED BY <1>2, <2>1 DEF Addresses
<1> QED BY <1>1, <1>2

\* createStatements(): one instruction more, the next one by address.
LEMMA GeneratesNext ==
    ASSUME NEW C \in Codes, NEW T \in SUBSET C, NEW p, Generated(C, p, T),
           NEW i \in C \ T, \A k \in C \ T : i.address <= k.address,
           NEW q, q = IF i.kind = "invalid" THEN p
                      ELSE Statements(i, ExtendForInstruction(p, i), BlockForInstruction(p, i))
    PROVE  Generated(C, q, T \cup {i})
<1> PICK a : a = i.address
  OBVIOUS
<1> PICK A : A = Addresses(Sound(T))
  OBVIOUS
<1> PICK U : U = T \cup {i}
  OBVIOUS
<1>1. /\ i.address \in Nat /\ i.size \in Nat \ {0} /\ i.kind \in Kinds /\ i.targets \in Seq(Nat)
      /\ a \in Nat /\ (i.kind = "branch" => i.targets # <<>>)
  BY CodeParts
<1>2. \A j \in T : j.address \in Nat /\ j.address < i.address
  BY CodeParts DEF Generated, InOrder
<1>3. A \in SUBSET Nat /\ \A x \in A : x < i.address
  BY <1>2 DEF Addresses, Sound
<1>4. Formed(p) /\ Known(p, A) /\ Kept(p, A)
  BY DEF Generated
<1>5. Before(p.ranges, i.address)
  <2> SUFFICES ASSUME NEW e \in p.ranges, e.range[1] < e.range[2] PROVE e.range[1] < i.address
    BY DEF Before
  <2>1. e.range[1] \in Nat
    BY <1>4, ProgramParts DEF Entries, Formed
  <2>2. PICK j \in T : e.range[1] <= j.address
    BY DEF Generated, Reached
  <2> QED BY <1>1, <1>2, <2>1, <2>2
<1>6. InOrder(C, U)
  <2> SUFFICES ASSUME NEW j \in U, NEW k \in C \ U PROVE j.address < k.address
    BY DEF InOrder
  <2>1. CASE j \in T
    BY <2>1 DEF Generated, InOrder
  <2>2. CASE j = i
    <3>1. i.address <= k.address /\ i.address # k.address /\ k.address \in Nat
      BY CodeParts
    <3> QED BY <1>1, <2>2, <3>1
  <2> QED BY <2>1, <2>2
<1>7. CASE i.kind = "invalid"
  <2>1. q = p /\ Addresses(Sound(U)) = A
    BY <1>7, SoundGrows
  <2>2. Reached(p, U)
    BY DEF Generated, Reached
  <2>3. Apart(C) => Exact(p) /\ Ended(p, U)
    BY DEF Generated, Ended
  <2> QED BY <1>4, <1>6, <2>1, <2>2, <2>3 DEF Generated
<1>8. CASE i.kind # "invalid"
  <2>1. q = Statements(i, ExtendForInstruction(p, i), BlockForInstruction(p, i))
    BY <1>8
  <2>2. i.kind \in Kinds \ {"invalid"}
    BY <1>1, <1>8
  <2>3. Translating(p, q, i, IF i.kind = "failing" THEN A ELSE A \cup {i.address})
    BY <1>1, <1>3, <1>4, <1>5, <2>1, <2>2, StatementsKeep
  <2>4. Addresses(Sound(U)) = IF i.kind = "failing" THEN A ELSE A \cup {i.address}
    BY <1>8, SoundGrows
  <2>5. Formed(q) /\ Known(q, Addresses(Sound(U))) /\ Kept(q, Addresses(Sound(U)))
    BY <2>3, <2>4 DEF Translating
  <2>6. Reached(q, U)
    BY <2>3 DEF Translating, UpTo, Reached
  <2>7. ASSUME Apart(C) PROVE Exact(q) /\ Ended(q, U)
    <3>1. EndsBy(p, i.address)
      <4> SUFFICES ASSUME NEW c \in BlocksOf(p), Bound(p, c) PROVE p.blocks[c].successor <= i.address
        BY DEF EndsBy
      <4>1. PICK j \in T : p.blocks[c].successor <= EndOf(j)
        BY <2>7 DEF Generated, Ended
      <4>2. p.blocks[c].successor \in Nat
        BY <1>4 DEF Formed, Mapped, Located
      <4>3. EndOf(j) <= i.address \/ EndOf(i) <= j.address
        BY <2>7 DEF Apart
      <4>4. j.size \in Nat /\ j.address \in Nat /\ j.address < i.address
        BY <1>2, CodeParts
      <4> QED BY <1>1, <4>1, <4>2, <4>3, <4>4 DEF EndOf
    <3>2. Exact(p)
      BY <2>7 DEF Generated
    <3>3. Exact(q) /\ EndsBy(q, EndOf(i))
      BY <2>3, <3>1, <3>2 DEF Translating
    <3> QED BY <3>3 DEF EndsBy, Ended
  <2>8. q.called = {} /\ Sided(q)
    BY <2>3 DEF Translating, Generated
  <2> QED BY <1>6, <2>5, <2>6, <2>7, <2>8 DEF Generated
<1> QED BY <1>7, <1>8
-----------------------------------------------------------------------------
(* While jump targets are computed. *)

\* From p to q blocks have been added and cut, and jumps have been connected.
Developed(p, q, A) ==
    /\ Formed(q) /\ Known(q, A)
    /\ \A a : OnlyOne(p, a) => OnlyOne(q, a)
    /\ Exact(p) => Exact(q)
    /\ Sided(p) => Sided(q)
    /\ BlocksOf(p) \subseteq BlocksOf(q)
    /\ \A b \in BlocksOf(p) :
          /\ q.blocks[b].address = p.blocks[b].address
          /\ \A m \in DOMAIN q.blocks[b].statements :
                /\ m \in DOMAIN p.blocks[b].statements
                /\ q.blocks[b].statements[m].kind = p.blocks[b].statements[m].kind
                /\ q.blocks[b].statements[m].instruction = p.blocks[b].statements[m].instruction

\* No change is such a change.
LEMMA DevelopedNot ==
    ASSUME NEW A, NEW p, Formed(p), Known(p, A)
    PROVE  Developed(p, p, A)
BY DEF Developed

\* Two such changes are one.
LEMMA DevelopedFurther ==
    ASSUME NEW A, NEW p, NEW q, NEW r, Developed(p, q, A), Developed(q, r, A)
    PROVE  Developed(p, r, A)
<1>1. BlocksOf(p) \subseteq BlocksOf(q) /\ BlocksOf(q) \subseteq BlocksOf(r)
  BY DEF Developed
<1>2. ASSUME NEW b \in BlocksOf(p)
      PROVE  /\ r.blocks[b].address = p.blocks[b].address
             /\ \A m \in DOMAIN r.blocks[b].statements :
                   /\ m \in DOMAIN p.blocks[b].statements
                   /\ r.blocks[b].statements[m].kind = p.blocks[b].statements[m].kind
                   /\ r.blocks[b].statements[m].instruction = p.blocks[b].statements[m].instruction
  BY <1>1 DEF Developed
<1>3. Formed(r) /\ Known(r, A) /\ (\A a : OnlyOne(p, a) => OnlyOne(r, a))
  BY DEF Developed
<1>4. (Exact(p) => Exact(r)) /\ (Sided(p) => Sided(r))
  BY DEF Developed
<1> QED BY <1>1, <1>2, <1>3, <1>4 DEF Developed

\* Creating blocks is such a change.
LEMMA GrownDevelops ==
    ASSUME NEW A, NEW p, Formed(p), Known(p, A), NEW q, Grown(StatementRecords, p, q)
    PROVE  Developed(p, q, A)
<1>1. /\ q \in Programs(StatementRecords) /\ Mapped(q) /\ Keeps(p, q)
      /\ Exact(p) => Exact(q)
      /\ Inside(q)
  BY DEF Grown, Formed
<1>2. /\ BlocksOf(p) \subseteq BlocksOf(q)
      /\ \A b \in BlocksOf(p) :
          /\ q.blocks[b].address = p.blocks[b].address
          /\ ~Bound(p, b) => q.blocks[b] = p.blocks[b]
          /\ \A m \in DOMAIN q.blocks[b].statements :
                /\ m \in DOMAIN p.blocks[b].statements
                /\ q.blocks[b].statements[m] = p.blocks[b].statements[m]
      /\ \A b \in BlocksOf(q) \ BlocksOf(p) : Bound(q, b)
      /\ \A s : (Occurs(q, s) <=> Occurs(p, s)) /\ (Held(q, s) <=> Held(p, s))
      /\ \A a : OnlyOne(p, a) => OnlyOne(q, a)
  BY <1>1 DEF Keeps
<1>3. Tails(q)
  <2>1. \A b \in BlocksOf(q) : ~Bound(q, b) => b \in BlocksOf(p) /\ ~Bound(p, b) /\ q.blocks[b] = p.blocks[b]
    BY <1>2 DEF Bound
  <2> QED BY <2>1 DEF Tails, Formed
<1>4. Known(q, A)
  BY <1>2 DEF Known
<1>5. Sided(p) => Sided(q)
  <2>1. \A b \in BlocksOf(q) : ~Bound(q, b) => b \in BlocksOf(p) /\ ~Bound(p, b) /\ q.blocks[b] = p.blocks[b]
    BY <1>2 DEF Bound
  <2>2. \A b : LedTo(q, b) <=> LedTo(p, b)
    BY <1>2, SameHeld
  <2>3. Alongside(p, q)
    BY <1>2, <2>1, <2>2 DEF Alongside
  <2> QED BY <2>3, AlongsideSided
<1> QED BY <1>1, <1>2, <1>3, <1>4, <1>5 DEF Developed, Formed

\* One new block, of which a block at its address is what is wanted.
LEMMA CreateBasicBlockDevelops ==
    ASSUME NEW A, NEW p, Formed(p), Known(p, A), NEW a \in Nat, NEW q, q = CreateBasicBlock(p, a)
    PROVE  Developed(p, q, A) /\ StartingAt(q, a) # {} /\ q.called = p.called
<1>1. p \in Programs(StatementRecords) /\ Mapped(p)
  BY DEF Formed
<1>2. \A s \in StatementRecords : s.instruction \in Nat \cup {None}
  BY RecordParts
<1>3. Grown(StatementRecords, p, q) /\ StartingAt(q, a) # {}
  BY <1>1, <1>2, CreateBasicBlockGrows
<1> QED BY <1>3, GrownDevelops DEF Grown

SameCalls(p, q) == q.called = p.called
Started(p, targets) == \A n \in DOMAIN targets : StartingAt(p, targets[n]) # {}

\* New blocks for all targets of a jump.
LEMMA CreateBasicBlocksDevelops ==
    ASSUME NEW A, NEW p, Formed(p), Known(p, A), NEW targets \in Seq(Nat),
           NEW q, q = CreateBasicBlocks(p, targets)
    PROVE  /\ Developed(p, q, A) /\ SameCalls(p, q) /\ Started(q, targets)
           /\ \A s : Occurs(q, s) <=> Occurs(p, s)
<1>1. p \in Programs(StatementRecords) /\ Mapped(p)
  BY DEF Formed
<1>2. \A s \in StatementRecords : s.instruction \in Nat \cup {None}
  BY RecordParts
<1>3. /\ Grown(StatementRecords, p, q)
      /\ \A n \in DOMAIN targets : StartingAt(q, targets[n]) # {}
  BY <1>1, <1>2, CreateBasicBlocksKeeps
<1>4. SameCalls(p, q) /\ Started(q, targets) /\ \A s : Occurs(q, s) <=> Occurs(p, s)
  BY <1>3 DEF Grown, Keeps, SameCalls, Started
<1> QED BY <1>3, <1>4, GrownDevelops

\* Remembering the addresses called changes no block.
LEMMA CallsDevelop ==
    ASSUME NEW A, NEW p, Formed(p), Known(p, A), NEW called \in SUBSET Nat,
           NEW q, q = [p EXCEPT !.called = p.called \cup called]
    PROVE  Developed(p, q, A) /\ q.called = p.called \cup called
<1>1. p \in Programs(StatementRecords) /\ p.called \in SUBSET Nat
  BY ProgramParts DEF Formed
<1>2. q \in Programs(StatementRecords)
  BY <1>1 DEF Programs
<1>3. q.blocks = p.blocks /\ q.ranges = p.ranges /\ q.called = p.called \cup called
  BY <1>1 DEF Programs
<1>4. /\ BlocksOf(q) = BlocksOf(p) /\ \A b : Bound(q, b) <=> Bound(p, b)
      /\ \A b : RangeOfBlock(q, b) = RangeOfBlock(p, b)
  BY <1>3 DEF BlocksOf, Bound, RangeOfBlock
<1>5. Mapped(q) /\ Inside(q) /\ Tails(q)
  <2>1. Located(q) /\ \A e : Fits(p, e) => Fits(q, e)
    BY <1>3, <1>4 DEF Formed, Mapped, Located, Fits
  <2>2. Mapped(q)
    BY <1>3, <2>1 DEF Formed, Mapped
  <2>3. Inside(q)
    BY <1>3, <1>4 DEF Formed, Inside
  <2>4. Tails(q)
    BY <1>3, <1>4 DEF Formed, Tails
  <2> QED BY <2>2, <2>3, <2>4
<1>6. Exact(p) => Exact(q)
  BY <1>3, <1>4 DEF Exact, EntryOf
<1>7. Known(q, A)
  BY <1>3, <1>4 DEF Known, Occurs
<1>8. \A a : OnlyOne(p, a) => OnlyOne(q, a)
  <2>1. \A b, m, x : IsOf(q, b, m, x) <=> IsOf(p, b, m, x)
    BY <1>3, <1>4 DEF IsOf
  <2> QED BY <2>1 DEF OnlyOne
<1>9. Sided(p) => Sided(q)
  <2>1. \A s : Held(q, s) <=> Held(p, s)
    BY <1>3, <1>4 DEF Held
  <2>2. Alongside(p, q)
    BY <1>3, <1>4, <2>1, SameHeld DEF Alongside
  <2> QED BY <2>2, AlongsideSided
<1> QED BY <1>2, <1>3, <1>4, <1>5, <1>6, <1>7, <1>8, <1>9 DEF Developed, Formed

Calling(p, targets) == [p EXCEPT !.called = @ \cup {targets[n] : n \in DOMAIN targets}]

\* After a call there are blocks at all addresses called.
LEMMA CallDevelops ==
    ASSUME NEW A, NEW p, Formed(p), Known(p, A), NEW targets \in Seq(Nat),
           NEW q, q = CreateBasicBlocks(Calling(p, targets), targets)
    PROVE  /\ Developed(p, q, A)
           /\ \A a \in q.called : a \in p.called \/ StartingAt(q, a) # {}
<1> PICK more : more = {targets[n] : n \in DOMAIN targets}
  OBVIOUS
<1> PICK r : r = Calling(p, targets)
  OBVIOUS
<1>1. more \in SUBSET Nat
  OBVIOUS
<1>2. r = [p EXCEPT !.called = p.called \cup more]
  BY DEF Calling
<1>3. Developed(p, r, A) /\ r.called = p.called \cup more
  <2>1. Developed(p, r, A)
    BY <1>1, <1>2, CallsDevelop
  <2>2. r.called = p.called \cup more
    BY <1>1, <1>2, CallsDevelop
  <2> QED BY <2>1, <2>2
<1>4. Formed(r) /\ Known(r, A)
  BY <1>3 DEF Developed
<1>5. Developed(r, q, A) /\ SameCalls(r, q) /\ Started(q, targets)
  BY <1>4, CreateBasicBlocksDevelops
<1>6. Developed(p, q, A)
  BY <1>3, <1>5, DevelopedFurther
<1>7. ASSUME NEW a \in q.called, a \notin p.called PROVE StartingAt(q, a) # {}
  <2>1. a \in more
    BY <1>3, <1>5, <1>7 DEF SameCalls
  <2>2. PICK n \in DOMAIN targets : a = targets[n]
    BY <2>1
  <2> QED BY <1>5, <2>2 DEF Started
<1> QED BY <1>6, <1>7

\* The map fits and is exact as before when the blocks are where they were.
LEMMA SamePlacesMap ==
    ASSUME NEW p, NEW q, SamePlaces(p, q)
    PROVE  (Mapped(p) => Mapped(q)) /\ (Exact(p) => Exact(q))
<1>1. /\ q.ranges = p.ranges /\ BlocksOf(q) = BlocksOf(p)
      /\ \A c \in BlocksOf(p) : /\ q.blocks[c].address = p.blocks[c].address
                                /\ q.blocks[c].successor = p.blocks[c].successor
                                /\ Bound(q, c) <=> Bound(p, c)
                                /\ RangeOfBlock(q, c) = RangeOfBlock(p, c)
  BY DEF SamePlaces, Bound, RangeOfBlock
<1>2. Mapped(p) => Mapped(q)
  <2>1. Located(p) => Located(q)
    BY <1>1 DEF Located
  <2>2. \A e : Fits(p, e) => Fits(q, e)
    BY <1>1 DEF Fits
  <2> QED BY <1>1, <2>1, <2>2 DEF Mapped
<1>3. Exact(p) => Exact(q)
  <2>1. \A c : (c \in BlocksOf(q) /\ Bound(q, c)) <=> (c \in BlocksOf(p) /\ Bound(p, c))
    BY <1>1
  <2>2. \A c \in BlocksOf(p) : EntryOf(q, c) = EntryOf(p, c)
    BY <1>1 DEF EntryOf
  <2>3. {EntryOf(q, c) : c \in {d \in BlocksOf(q) : Bound(q, d)}}
            = {EntryOf(p, c) : c \in {d \in BlocksOf(p) : Bound(p, d)}}
    BY <2>1, <2>2
  <2> QED BY <1>1, <2>3 DEF Exact
<1> QED BY <1>2, <1>3

ConnectedTo(s, found) == [s EXCEPT !.connected = TRUE, !.blocks = s.blocks \cup found]
WithStatement(p, b, m, s) == [p EXCEPT !.blocks[b].statements[m] = s]

\* A statement of q that p has as well, apart from what it is connected to.
Alike(s, t) == t.kind = s.kind /\ t.instruction = s.instruction

\* Connecting a jump changes neither its kind nor its instruction.
LEMMA JumpChanged ==
    ASSUME NEW A, NEW p, Formed(p), Known(p, A),
           NEW b \in BlocksOf(p), NEW m \in DOMAIN p.blocks[b].statements,
           NEW found \in SUBSET BlocksOf(p),
           NEW s, s = p.blocks[b].statements[m], s.targets # <<>>,
           NEW t, t = ConnectedTo(s, found), NEW q, q = WithStatement(p, b, m, t)
    PROVE  Developed(p, q, A)
<1> PICK ss : ss = p.blocks[b].statements
  OBVIOUS
<1> PICK tt : tt = [ss EXCEPT ![m] = t]
  OBVIOUS
<1> PICK old : old = p.blocks[b]
  OBVIOUS
<1> PICK new : new = [old EXCEPT !.statements = tt]
  OBVIOUS
<1>1. /\ p \in Programs(StatementRecords) /\ old \in Blocks(StatementRecords)
      /\ BlocksOf(p) \in SUBSET Nat
      /\ ss \in Seq(StatementRecords) /\ p.blocks \in Seq(Blocks(StatementRecords))
      /\ BlocksOf(p) = DOMAIN p.blocks
  BY ProgramParts DEF Formed, BlocksOf
<1>2. Occurs(p, s) /\ s \in StatementRecords
  <2>1. Occurs(p, s)
    BY DEF Occurs
  <2> QED BY <1>1, <2>1, OccursTyped
<1>3. /\ t \in StatementRecords /\ t.kind = s.kind /\ t.instruction = s.instruction
      /\ t.blocks = s.blocks \cup found /\ t.targets = s.targets
  <2>1. found \in SUBSET Nat
    BY <1>1
  <2> QED BY <1>2, <2>1 DEF StatementRecords, ConnectedTo
<1>4. /\ tt \in Seq(StatementRecords) /\ DOMAIN tt = DOMAIN ss /\ Len(tt) = Len(ss)
      /\ tt[m] = t /\ \A l \in DOMAIN ss \ {m} : tt[l] = ss[l]
  BY <1>1, <1>3
<1>5. /\ new \in Blocks(StatementRecords) /\ new.address = old.address
      /\ new.successor = old.successor /\ new.statements = tt
  BY <1>1, <1>4 DEF Blocks
<1>6. q = [p EXCEPT !.blocks = [p.blocks EXCEPT ![b] = new]]
  BY <1>1 DEF WithStatement
<1> PICK blocks : blocks = [p.blocks EXCEPT ![b] = new]
  OBVIOUS
<1>7. /\ blocks \in Seq(Blocks(StatementRecords)) /\ DOMAIN blocks = DOMAIN p.blocks
      /\ blocks[b] = new /\ \A c \in BlocksOf(p) \ {b} : blocks[c] = p.blocks[c]
  BY <1>1, <1>5
<1>8. /\ q \in Programs(StatementRecords) /\ q.blocks = blocks /\ q.ranges = p.ranges
      /\ q.called = p.called
  BY <1>1, <1>6, <1>7 DEF Programs
<1>9. /\ BlocksOf(q) = BlocksOf(p)
      /\ \A c \in BlocksOf(p) : /\ q.blocks[c].address = p.blocks[c].address
                                /\ q.blocks[c].successor = p.blocks[c].successor
                                /\ Bound(q, c) <=> Bound(p, c)
                                /\ RangeOfBlock(q, c) = RangeOfBlock(p, c)
                                /\ DOMAIN q.blocks[c].statements = DOMAIN p.blocks[c].statements
                                /\ Len(q.blocks[c].statements) = Len(p.blocks[c].statements)
  <2>1. BlocksOf(q) = BlocksOf(p)
    BY <1>7, <1>8 DEF BlocksOf
  <2>2. ASSUME NEW c \in BlocksOf(p)
        PROVE  /\ q.blocks[c].address = p.blocks[c].address
               /\ q.blocks[c].successor = p.blocks[c].successor
               /\ DOMAIN q.blocks[c].statements = DOMAIN p.blocks[c].statements
               /\ Len(q.blocks[c].statements) = Len(p.blocks[c].statements)
    <3>1. CASE c = b
      <4>1. q.blocks[c] = new
        BY <1>7, <1>8, <3>1
      <4> QED BY <1>4, <1>5, <3>1, <4>1
    <3>2. CASE c # b
      BY <1>7, <1>8, <3>2
    <3> QED BY <3>1, <3>2
  <2> QED BY <2>1, <2>2 DEF Bound, RangeOfBlock
<1>10. \A c \in BlocksOf(p) : \A l \in DOMAIN p.blocks[c].statements :
          \/ q.blocks[c].statements[l] = p.blocks[c].statements[l]
          \/ c = b /\ l = m /\ q.blocks[c].statements[l] = t
  <2> SUFFICES ASSUME NEW c \in BlocksOf(p), NEW l \in DOMAIN p.blocks[c].statements
               PROVE  \/ q.blocks[c].statements[l] = p.blocks[c].statements[l]
                      \/ c = b /\ l = m /\ q.blocks[c].statements[l] = t
    OBVIOUS
  <2>1. CASE c # b
    BY <1>7, <1>8, <2>1
  <2>2. CASE c = b
    <3>1. q.blocks[c].statements = tt
      BY <1>5, <1>7, <1>8, <2>2
    <3> QED BY <1>4, <2>2, <3>1
  <2> QED BY <2>1, <2>2
<1>11. \A c \in BlocksOf(p) : \A l \in DOMAIN p.blocks[c].statements :
          Alike(p.blocks[c].statements[l], q.blocks[c].statements[l])
  BY <1>3, <1>10 DEF Alike
<1>12. SamePlaces(p, q)
  BY <1>8, <1>9 DEF SamePlaces
<1>13. Mapped(q) /\ (Exact(p) => Exact(q))
  BY <1>12, SamePlacesMap DEF Formed
<1>14. \A c, l, x : IsOf(q, c, l, x) <=> IsOf(p, c, l, x)
  <2> TAKE c, l, x
  <2>1. CASE c \in BlocksOf(p) /\ l \in DOMAIN p.blocks[c].statements
    <3>1. q.blocks[c].statements[l].instruction = p.blocks[c].statements[l].instruction
      BY <1>11, <2>1 DEF Alike
    <3>2. Bound(q, c) <=> Bound(p, c)
      BY <1>9, <2>1
    <3>3. c \in BlocksOf(q) /\ l \in DOMAIN q.blocks[c].statements
      BY <1>9, <2>1
    <3> QED BY <2>1, <3>1, <3>2, <3>3, Zenon DEF IsOf
  <2>2. CASE ~(c \in BlocksOf(p) /\ l \in DOMAIN p.blocks[c].statements)
    <3>1. ~(c \in BlocksOf(q) /\ l \in DOMAIN q.blocks[c].statements)
      BY <1>9, <2>2
    <3> QED BY <2>2, <3>1, Zenon DEF IsOf
  <2> QED BY <2>1, <2>2
<1>15. \A a : OnlyOne(p, a) => OnlyOne(q, a)
  BY <1>14 DEF OnlyOne
<1>16. Inside(q)
  <2>1. ASSUME NEW c \in BlocksOf(q), Bound(q, c)
        PROVE  LET xs == q.blocks[c].statements
               IN  /\ \A l \in DOMAIN xs : xs[l].instruction # None =>
                         q.blocks[c].address <= xs[l].instruction /\ xs[l].instruction < q.blocks[c].successor
                   /\ \A k, l \in DOMAIN xs :
                         (k < l /\ xs[k].instruction # None /\ xs[l].instruction # None)
                             => xs[k].instruction < xs[l].instruction
    <3> DEFINE xs == q.blocks[c].statements
    <3> PICK ys : ys = p.blocks[c].statements
      OBVIOUS
    <3>1. c \in BlocksOf(p) /\ Bound(p, c)
      BY <1>9, <2>1
    <3>2. DOMAIN xs = DOMAIN ys /\ \A l \in DOMAIN ys : xs[l].instruction = ys[l].instruction
      BY <1>9, <1>11, <2>1, <3>1 DEF Alike
    <3>3. /\ \A l \in DOMAIN ys : ys[l].instruction # None =>
                  p.blocks[c].address <= ys[l].instruction /\ ys[l].instruction < p.blocks[c].successor
          /\ \A k, l \in DOMAIN ys :
                  (k < l /\ ys[k].instruction # None /\ ys[l].instruction # None)
                      => ys[k].instruction < ys[l].instruction
      BY <3>1 DEF Formed, Inside
    <3>4. q.blocks[c].address = p.blocks[c].address /\ q.blocks[c].successor = p.blocks[c].successor
      BY <1>9, <3>1
    <3>5. \A l \in DOMAIN xs : xs[l].instruction # None =>
              q.blocks[c].address <= xs[l].instruction /\ xs[l].instruction < q.blocks[c].successor
      <4> TAKE l \in DOMAIN xs
      <4>1. l \in DOMAIN ys /\ xs[l].instruction = ys[l].instruction
        BY <3>2, Zenon
      <4> QED BY <3>3, <3>4, <4>1, Zenon
    <3>6. \A k, l \in DOMAIN xs :
              (k < l /\ xs[k].instruction # None /\ xs[l].instruction # None)
                  => xs[k].instruction < xs[l].instruction
      <4> TAKE k, l \in DOMAIN xs
      <4>1. /\ k \in DOMAIN ys /\ xs[k].instruction = ys[k].instruction
            /\ l \in DOMAIN ys /\ xs[l].instruction = ys[l].instruction
        BY <3>2, Zenon
      <4> QED BY <3>3, <4>1, Zenon
    <3> QED BY <3>5, <3>6, Zenon
  <2> QED BY <2>1, Zenon DEF Inside
<1>17. Tails(q)
  <2> SUFFICES ASSUME NEW c \in BlocksOf(q), ~Bound(q, c)
               PROVE  /\ q.blocks[c].successor = None
                      /\ \A l \in DOMAIN q.blocks[c].statements :
                            q.blocks[c].statements[l].kind \in Terminators
                                => l = Len(q.blocks[c].statements)
    BY DEF Tails
  <2>1. c \in BlocksOf(p) /\ ~Bound(p, c)
    BY <1>9
  <2>2. /\ p.blocks[c].successor = None
        /\ \A l \in DOMAIN p.blocks[c].statements :
              p.blocks[c].statements[l].kind \in Terminators
                  => l = Len(p.blocks[c].statements)
    BY <2>1 DEF Formed, Tails
  <2>3. /\ q.blocks[c].successor = p.blocks[c].successor
        /\ DOMAIN q.blocks[c].statements = DOMAIN p.blocks[c].statements
        /\ Len(q.blocks[c].statements) = Len(p.blocks[c].statements)
        /\ \A l \in DOMAIN q.blocks[c].statements :
              q.blocks[c].statements[l].kind = p.blocks[c].statements[l].kind
    BY <1>9, <1>11, <2>1, Zenon DEF Alike
  <2> QED BY <2>2, <2>3, Zenon
<1>18. Known(q, A)
  <2> SUFFICES ASSUME NEW u, Occurs(q, u)
               PROVE  u.instruction \in A /\ u.blocks \subseteq BlocksOf(q)
    BY DEF Known
  <2>1. PICK c \in BlocksOf(q) : \E l \in DOMAIN q.blocks[c].statements : q.blocks[c].statements[l] = u
    BY DEF Occurs
  <2>3. PICK l \in DOMAIN q.blocks[c].statements : q.blocks[c].statements[l] = u
    BY <2>1
  <2>4. c \in BlocksOf(p) /\ l \in DOMAIN p.blocks[c].statements
    BY <1>9
  <2>5. u = t \/ p.blocks[c].statements[l] = u
    BY <1>10, <2>3, <2>4
  <2>2. u = t \/ Occurs(p, u)
    BY <2>4, <2>5 DEF Occurs
  <2> QED BY <1>2, <1>3, <1>9, <2>2 DEF Known
<1>19. \A c \in BlocksOf(p) :
          /\ q.blocks[c].address = p.blocks[c].address
          /\ \A l \in DOMAIN q.blocks[c].statements :
                /\ l \in DOMAIN p.blocks[c].statements
                /\ q.blocks[c].statements[l].kind = p.blocks[c].statements[l].kind
                /\ q.blocks[c].statements[l].instruction = p.blocks[c].statements[l].instruction
  <2> SUFFICES ASSUME NEW c \in BlocksOf(p)
               PROVE  /\ q.blocks[c].address = p.blocks[c].address
                      /\ \A l \in DOMAIN q.blocks[c].statements :
                            /\ l \in DOMAIN p.blocks[c].statements
                            /\ q.blocks[c].statements[l].kind = p.blocks[c].statements[l].kind
                            /\ q.blocks[c].statements[l].instruction = p.blocks[c].statements[l].instruction
    OBVIOUS
  <2>1. /\ q.blocks[c].address = p.blocks[c].address
        /\ DOMAIN q.blocks[c].statements = DOMAIN p.blocks[c].statements
    BY <1>9
  <2>2. \A l \in DOMAIN p.blocks[c].statements :
            Alike(p.blocks[c].statements[l], q.blocks[c].statements[l])
    BY <1>11
  <2> QED BY <2>1, <2>2, Zenon DEF Alike
<1>20. Formed(q)
  BY <1>8, <1>13, <1>16, <1>17 DEF Formed
<1>21. \A u : Held(q, u) => Held(p, u) \/ u = t
  <2> SUFFICES ASSUME NEW u, Held(q, u), u # t PROVE Held(p, u)
    OBVIOUS
  <2>1. PICK c \in BlocksOf(q) :
           Bound(q, c) /\ \E l \in DOMAIN q.blocks[c].statements : q.blocks[c].statements[l] = u
    BY DEF Held
  <2>2. PICK l \in DOMAIN q.blocks[c].statements : q.blocks[c].statements[l] = u
    BY <2>1
  <2>3. c \in BlocksOf(p) /\ Bound(p, c) /\ l \in DOMAIN p.blocks[c].statements
    BY <1>9, <2>1
  <2>4. p.blocks[c].statements[l] = u
    BY <1>10, <2>2, <2>3
  <2> QED BY <2>3, <2>4 DEF Held
<1>22. ASSUME NEW u, Held(p, u) PROVE \E v : Held(q, v) /\ v.kind = u.kind /\ u.blocks \subseteq v.blocks
  <2>1. PICK c \in BlocksOf(p) :
           Bound(p, c) /\ \E l \in DOMAIN p.blocks[c].statements : p.blocks[c].statements[l] = u
    BY <1>22 DEF Held
  <2>2. PICK l \in DOMAIN p.blocks[c].statements : p.blocks[c].statements[l] = u
    BY <2>1
  <2>3. c \in BlocksOf(q) /\ Bound(q, c) /\ l \in DOMAIN q.blocks[c].statements
    BY <1>9, <2>1
  <2>4. Held(q, q.blocks[c].statements[l])
    BY <2>3 DEF Held
  <2>5. CASE q.blocks[c].statements[l] = p.blocks[c].statements[l]
    BY <2>2, <2>4, <2>5
  <2>6. CASE c = b /\ l = m /\ q.blocks[c].statements[l] = t
    BY <1>3, <2>2, <2>4, <2>6
  <2> QED BY <1>10, <2>5, <2>6
<1>23. Sided(p) => Sided(q)
  <2>1. Forked(t)
    BY <1>3 DEF Forked
  <2>2. \A c : LedTo(p, c) => LedTo(q, c)
    BY <1>22 DEF LedTo
  <2>3. \A c \in BlocksOf(q) : q.blocks[c].statements # <<>> => p.blocks[c].statements # <<>>
    <3> SUFFICES ASSUME NEW c \in BlocksOf(p), p.blocks[c].statements = <<>>
                 PROVE  q.blocks[c].statements = <<>>
      BY <1>9
    <3>1. c # b
      OBVIOUS
    <3> QED BY <1>7, <1>8, <3>1
  <2>4. Alongside(p, q)
    BY <1>9, <1>21, <2>1, <2>2, <2>3 DEF Alongside
  <2> QED BY <2>4, AlongsideSided
<1> QED BY <1>8, <1>9, <1>13, <1>15, <1>18, <1>19, <1>20, <1>23 DEF Developed

\* The jump that is looked for and connected is such a jump.
LEMMA ConnectDevelops ==
    ASSUME NEW A, NEW p, Formed(p), Known(p, A), NEW targets \in Seq(Nat), NEW a,
           NEW s, Occurs(p, s), s.kind = "jump", s.instruction = a, s.targets = targets, targets # <<>>,
           NEW q, q = Connect(p, a, targets)
    PROVE  Developed(p, q, A) /\ q.called = p.called
<1> DEFINE r == CreateBasicBlocks(p, targets)
           found == {b \in BlocksOf(r) : \E n \in DOMAIN targets : b \in StartingAt(r, targets[n])}
           places == UNION {{b} \X DOMAIN r.blocks[b].statements : b \in BlocksOf(r)}
           Wanted(x) == /\ r.blocks[x[1]].statements[x[2]].kind = "jump"
                        /\ r.blocks[x[1]].statements[x[2]].instruction = a
                        /\ r.blocks[x[1]].statements[x[2]].targets = targets
           place == CHOOSE x \in places : Wanted(x)
           jump == r.blocks[place[1]].statements[place[2]]
<1>1. Developed(p, r, A) /\ Occurs(r, s) /\ r.called = p.called
  BY CreateBasicBlocksDevelops DEF SameCalls
<1>2. PICK b \in BlocksOf(r) : \E m \in DOMAIN r.blocks[b].statements : r.blocks[b].statements[m] = s
  BY <1>1 DEF Occurs
<1>3. PICK m \in DOMAIN r.blocks[b].statements : r.blocks[b].statements[m] = s
  BY <1>2
<1>4. <<b, m>> \in places /\ Wanted(<<b, m>>)
  BY <1>3
<1>5. place \in places /\ Wanted(place)
  BY <1>4
<1>6. q = [r EXCEPT !.blocks[place[1]].statements[place[2]] =
              [jump EXCEPT !.connected = TRUE, !.blocks = jump.blocks \cup found]]
  BY Zenon DEF Connect
<1>7. place[1] \in BlocksOf(r) /\ place[2] \in DOMAIN r.blocks[place[1]].statements
  <2>1. PICK c \in BlocksOf(r) : place \in {c} \X DOMAIN r.blocks[c].statements
    BY <1>5
  <2> HIDE DEF place
  <2>2. place[1] = c /\ place[2] \in DOMAIN r.blocks[c].statements
    BY <2>1
  <2> QED BY <2>2
<1>8. found \in SUBSET BlocksOf(r)
  OBVIOUS
<1>12. r.blocks[place[1]].statements[place[2]].targets # <<>>
  BY <1>5
<1>9. Formed(r) /\ Known(r, A)
  BY <1>1 DEF Developed
<1> HIDE DEF r, found, places, Wanted, place
<1> PICK c : c = place[1]
  OBVIOUS
<1> PICK l : l = place[2]
  OBVIOUS
<1> PICK u : u = r.blocks[c].statements[l]
  OBVIOUS
<1> PICK t : t = ConnectedTo(u, found)
  OBVIOUS
<1>10. q = WithStatement(r, c, l, t)
  BY <1>6 DEF ConnectedTo, WithStatement
<1>11. Developed(r, q, A) /\ q.called = r.called
  <2>1. c \in BlocksOf(r) /\ l \in DOMAIN r.blocks[c].statements
    BY <1>7
  <2>2. Developed(r, q, A)
    BY <1>8, <1>9, <1>10, <1>12, <2>1, JumpChanged
  <2>3. q.called = r.called
    BY <1>9, <1>10 DEF Formed, Programs, WithStatement
  <2> QED BY <2>2, <2>3
<1> QED BY <1>1, <1>11, DevelopedFurther
-----------------------------------------------------------------------------
(* Jumps and returns end their blocks. *)

\* The jumps and returns that the loops have passed, up to the n-th statement of the
\* block b: there is a block at the end of their instruction.
ClosedUpTo(C, p, b, n) ==
    \A c \in BlocksOf(p) : \A m \in DOMAIN p.blocks[c].statements :
        (/\ Bound(p, c) /\ (c < b \/ (c = b /\ m < n))
         /\ p.blocks[c].statements[m].kind \in Terminators)
        => \E i \in C : /\ i.address = p.blocks[c].statements[m].instruction
                        /\ StartingAt(p, EndOf(i)) # {}

\* Jumps and returns are last.
JumpsLast(p) ==
    \A c \in BlocksOf(p) : \A m \in DOMAIN p.blocks[c].statements :
        p.blocks[c].statements[m].kind \in Terminators => m = Len(p.blocks[c].statements)

\* A block that starts at an address still does.
LEMMA DevelopedStarts ==
    ASSUME NEW A, NEW p, NEW q, Developed(p, q, A), NEW a, StartingAt(p, a) # {}
    PROVE  StartingAt(q, a) # {}
BY DEF Developed, StartingAt

\* The block behind a jump or return, from which on nothing can follow it in its block.
LEMMA CloseBlockDevelops ==
    ASSUME NEW A, NEW p, Formed(p), Known(p, A), NEW b,
           NEW i, i.address \in Nat, i.size \in Nat \ {0}, NEW q, q = CloseBlock(p, b, i)
    PROVE  /\ Developed(p, q, A) /\ q.called = p.called
           /\ Bound(p, b) => StartingAt(q, EndOf(i)) # {}
<1>1. EndOf(i) \in Nat
  BY DEF EndOf
<1>2. CASE Bound(p, b)
  <2>1. q = CreateBasicBlock(p, EndOf(i))
    BY <1>2 DEF CloseBlock
  <2> QED BY <1>1, <2>1, CreateBasicBlockDevelops
<1>3. CASE ~Bound(p, b)
  <2>1. q = p
    BY <1>3 DEF CloseBlock
  <2> QED BY <1>3, <2>1, DevelopedNot
<1> QED BY <1>2, <1>3

\* The next statement has been visited.
LEMMA ClosesNext ==
    ASSUME NEW C, NEW A, NEW p, Formed(p), NEW q, Developed(p, q, A),
           NEW b \in BlocksOf(p), NEW n \in DOMAIN p.blocks[b].statements, ClosedUpTo(C, p, b, n),
           NEW s, s = p.blocks[b].statements[n],
           (Bound(p, b) /\ s.kind \in Terminators) =>
               \E i \in C : i.address = s.instruction /\ StartingAt(q, EndOf(i)) # {}
    PROVE  ClosedUpTo(C, q, b, n + 1)
<1>1. p \in Programs(StatementRecords) /\ q \in Programs(StatementRecords)
  BY DEF Formed, Developed
<1>2. /\ BlocksOf(p) = 1..Len(p.blocks) /\ Len(p.blocks) \in Nat
      /\ BlocksOf(q) = 1..Len(q.blocks) /\ Len(q.blocks) \in Nat
  BY <1>1, ProgramParts
<1>3. p.blocks[b].statements \in Seq(StatementRecords)
  BY <1>1, ProgramParts
<1>4. n \in Nat
  BY <1>3
<1>5. SUFFICES ASSUME NEW c \in BlocksOf(q), NEW m \in DOMAIN q.blocks[c].statements,
                      Bound(q, c), c < b \/ (c = b /\ m < n + 1),
                      q.blocks[c].statements[m].kind \in Terminators
               PROVE  \E i \in C : /\ i.address = q.blocks[c].statements[m].instruction
                                   /\ StartingAt(q, EndOf(i)) # {}
  BY Zenon DEF ClosedUpTo
<1>6. c \in BlocksOf(p)
  BY <1>2, <1>5
<1>7. /\ Bound(p, c) /\ m \in DOMAIN p.blocks[c].statements
      /\ q.blocks[c].statements[m].kind = p.blocks[c].statements[m].kind
      /\ q.blocks[c].statements[m].instruction = p.blocks[c].statements[m].instruction
  BY <1>5, <1>6 DEF Developed, Bound
<1>8. m \in Nat
  <2>1. p.blocks[c].statements \in Seq(StatementRecords)
    BY <1>1, <1>6, ProgramParts
  <2> QED BY <1>7, <2>1
<1>9. CASE c < b \/ (c = b /\ m < n)
  <2>1. PICK i \in C : i.address = p.blocks[c].statements[m].instruction /\ StartingAt(p, EndOf(i)) # {}
    BY <1>5, <1>6, <1>7, <1>9 DEF ClosedUpTo
  <2> QED BY <1>7, <2>1, DevelopedStarts
<1>10. CASE c = b /\ m = n
  BY <1>5, <1>7, <1>10
<1> QED BY <1>4, <1>5, <1>8, <1>9, <1>10

\* The end of a block has been reached, and the next one is begun.
LEMMA ClosesBlock ==
    ASSUME NEW C, NEW p, Formed(p), NEW b \in BlocksOf(p), NEW n \in Nat,
           n > Len(p.blocks[b].statements), ClosedUpTo(C, p, b, n)
    PROVE  ClosedUpTo(C, p, b + 1, 1)
<1>1. p \in Programs(StatementRecords)
  BY DEF Formed
<1>2. BlocksOf(p) \subseteq Nat
  BY <1>1, ProgramParts
<1>3. ASSUME NEW c \in BlocksOf(p), NEW m \in DOMAIN p.blocks[c].statements,
             c < b + 1 \/ (c = b + 1 /\ m < 1)
      PROVE  c < b \/ (c = b /\ m < n)
  <2>1. p.blocks[c].statements \in Seq(StatementRecords)
    BY <1>1, ProgramParts
  <2>2. m \in Nat /\ m >= 1 /\ m <= Len(p.blocks[c].statements) /\ Len(p.blocks[c].statements) \in Nat
    BY <2>1
  <2>3. c \in Nat /\ b \in Nat
    BY <1>2
  <2>4. CASE c = b
    BY <2>2, <2>4
  <2>5. CASE c # b
    BY <1>3, <2>2, <2>3, <2>5
  <2> QED BY <2>4, <2>5
<1> QED BY <1>3, Zenon DEF ClosedUpTo

\* If there is a block at the end of each jump or return, these end their blocks.
LEMMA ClosedJumpsLast ==
    ASSUME NEW C \in Codes, Apart(C), NEW p, Formed(p), Exact(p),
           Known(p, Addresses(Sound(C))),
           \A c \in BlocksOf(p) : \A m \in DOMAIN p.blocks[c].statements :
               (Bound(p, c) /\ p.blocks[c].statements[m].kind \in Terminators)
               => \E i \in C : /\ i.address = p.blocks[c].statements[m].instruction
                               /\ StartingAt(p, EndOf(i)) # {}
    PROVE  JumpsLast(p)
<1> SUFFICES ASSUME NEW c \in BlocksOf(p), NEW m \in DOMAIN p.blocks[c].statements,
                    p.blocks[c].statements[m].kind \in Terminators
             PROVE  m = Len(p.blocks[c].statements)
  BY DEF JumpsLast
<1> PICK ss : ss = p.blocks[c].statements
  OBVIOUS
<1>1. p \in Programs(StatementRecords) /\ ss \in Seq(StatementRecords)
  BY ProgramParts DEF Formed
<1>2. CASE ~Bound(p, c)
  BY <1>2 DEF Formed, Tails
<1>3. ASSUME Bound(p, c), m # Len(ss) PROVE FALSE
  <2>1. PICK i \in C : i.address = ss[m].instruction /\ StartingAt(p, EndOf(i)) # {}
    BY <1>3
  <2>2. PICK d \in BlocksOf(p) : p.blocks[d].address = EndOf(i)
    BY <2>1 DEF StartingAt
  <2>3. m + 1 \in DOMAIN ss /\ m < m + 1
    BY <1>1, <1>3
  <2>4. PICK j \in C : j.address = ss[m + 1].instruction
    <3>1. Occurs(p, ss[m + 1])
      BY <2>3 DEF Occurs
    <3> QED BY <3>1 DEF Known, Addresses, Sound
  <2>5. /\ i.address \in Nat /\ i.size \in Nat \ {0} /\ j.address \in Nat /\ j.size \in Nat \ {0}
    BY CodeParts
  <2>6. EndOf(i) \in Nat /\ i.address < EndOf(i)
    BY <2>5 DEF EndOf
  <2>7. /\ p.blocks[c].address <= i.address
        /\ j.address < p.blocks[c].successor /\ i.address < j.address
    <3>1. ss[m].instruction # None /\ ss[m + 1].instruction # None
      BY <2>1, <2>4, <2>5 DEF None
    <3>2. Inside(p)
      BY DEF Formed
    <3> QED BY <1>3, <2>1, <2>3, <2>4, <3>1, <3>2 DEF Inside
  <2>8. EndOf(i) <= j.address
    <3>1. i # j /\ j.address < EndOf(j)
      BY <2>5, <2>7 DEF EndOf
    <3>2. EndOf(i) <= j.address \/ EndOf(j) <= i.address
      BY <3>1 DEF Apart
    <3>3. EndOf(j) \in Nat
      BY <2>5 DEF EndOf
    <3> QED BY <2>5, <2>7, <3>1, <3>2, <3>3
  <2>9. Bound(p, d)
    BY <2>2, <2>6 DEF Bound, None
  <2>10. /\ p.blocks[c].address \in Nat /\ p.blocks[c].successor \in Nat
         /\ p.blocks[d].address \in Nat /\ p.blocks[d].successor \in Nat
         /\ p.blocks[d].address <= p.blocks[d].successor
    BY <1>3, <2>9 DEF Formed, Mapped, Located
  <2>11. EntryOf(p, c) \in p.ranges /\ EntryOf(p, d) \in p.ranges
    BY <1>3, <2>9 DEF Exact
  <2>12. p.blocks[c].address < EndOf(i) /\ EndOf(i) < p.blocks[c].successor
    BY <2>5, <2>6, <2>7, <2>8, <2>10
  <2>13. /\ EntryOf(p, c).range[1] = p.blocks[c].address
         /\ EntryOf(p, c).range[2] = p.blocks[c].successor
         /\ EntryOf(p, d).range[1] = EndOf(i)
         /\ EntryOf(p, d).range[2] = p.blocks[d].successor
    BY <2>2 DEF EntryOf, RangeOfBlock
  <2>14. EntryOf(p, c) # EntryOf(p, d)
    BY <2>6, <2>10, <2>12, <2>13
  <2>15. \/ p.blocks[c].successor <= EndOf(i)
         \/ p.blocks[d].successor <= p.blocks[c].address
    BY <2>11, <2>13, <2>14 DEF Formed, Mapped, Ordered, Left
  <2> QED BY <2>2, <2>6, <2>10, <2>12, <2>15
<1> QED BY <1>2, <1>3
-----------------------------------------------------------------------------
(* The jumps that are added at the end. *)

\* They are last in their blocks, which are in front of the block n.
AddedLast(p, n) ==
    \A c \in BlocksOf(p) : \A m \in DOMAIN p.blocks[c].statements :
        p.blocks[c].statements[m].instruction = None
            => m = Len(p.blocks[c].statements) /\ c < n

\* As long as every statement is of an instruction no jump has been added.
LEMMA NoneAdded ==
    ASSUME NEW A \in SUBSET Nat, NEW p, Known(p, A), NEW n
    PROVE  AddedLast(p, n)
<1> SUFFICES ASSUME NEW c \in BlocksOf(p), NEW m \in DOMAIN p.blocks[c].statements
             PROVE  p.blocks[c].statements[m].instruction # None
  BY DEF AddedLast
<1>1. Occurs(p, p.blocks[c].statements[m])
  BY DEF Occurs
<1>2. p.blocks[c].statements[m].instruction \in Nat
  BY <1>1 DEF Known
<1> QED BY <1>2 DEF None

\* A block starts at each address that is called.
CalledStart(p) == \A a \in p.called : StartingAt(p, a) # {}

\* From p to q the block b, which has no end in a jump or return, has got a jump.
JumpAdded(p, q, A, b) ==
    /\ Formed(q) /\ Known(q, A \cup {None}) /\ AddedLast(q, b + 1)
    /\ \A a \in A : OnlyOne(p, a) => OnlyOne(q, a)
    /\ Exact(p) => Exact(q)
    /\ JumpsLast(p) => JumpsLast(q)
    /\ CalledStart(p) => CalledStart(q)
    /\ Sided(p) => Sided(q)
    /\ Len(q.blocks) = Len(p.blocks)

\* addJumpToDirectSuccessor(): the jump is added last, where none ends the block.
LEMMA AddedJumpKeeps ==
    ASSUME NEW p, Formed(p), NEW A \in SUBSET Nat, Known(p, A \cup {None}),
           NEW b \in BlocksOf(p), AddedLast(p, b), ~HasTerminator(p.blocks[b]),
           p.blocks[b].successor # None,
           NEW s \in StatementRecords, s.instruction = None, s.blocks \subseteq BlocksOf(p),
           NEW q, q = AddStatement(p, b, s)
    PROVE  JumpAdded(p, q, A, b)
<1>1. p \in Programs(StatementRecords) /\ Inside(p) /\ Mapped(p) /\ Tails(p)
  BY DEF Formed
<1>2. Bound(p, b)
  BY <1>1 DEF Tails
<1>3. q \in Programs(StatementRecords) /\ StatementAdded(p, q, b, s)
  BY <1>1, AddStatementParts
<1>4. /\ Mapped(q)
      /\ Exact(p) => Exact(q)
      /\ \A t : Occurs(q, t) <=> Occurs(p, t) \/ t = s
  BY <1>1, <1>3, AddedStatementMaps
<1>5. Inside(q)
  <2>1. \A t \in StatementRecords : t.instruction \in Nat \cup {None}
    BY RecordParts
  <2> QED BY <1>1, <1>2, <1>3, <2>1, AddedStatementInside
<1>6. /\ BlocksOf(q) = BlocksOf(p) /\ Len(q.blocks) = Len(p.blocks)
      /\ \A c \in BlocksOf(p) \ {b} : q.blocks[c] = p.blocks[c]
      /\ q.blocks[b].address = p.blocks[b].address
  BY <1>3 DEF StatementAdded
<1>7. Tails(q)
  <2>1. \A c \in BlocksOf(q) : ~Bound(q, c) => c \in BlocksOf(p) /\ ~Bound(p, c) /\ q.blocks[c] = p.blocks[c]
    BY <1>2, <1>6 DEF Bound
  <2> QED BY <1>1, <2>1 DEF Tails
<1>8. Known(q, A \cup {None})
  BY <1>4, <1>6 DEF Known
<1>9. \A a \in A : OnlyOne(p, a) => OnlyOne(q, a)
  <2> SUFFICES ASSUME NEW a \in A, OnlyOne(p, a) PROVE OnlyOne(q, a)
    OBVIOUS
  <2>1. a # s.instruction
    BY DEF None
  <2> QED BY <1>1, <1>3, <2>1, AddedStatementOnlyOne
<1> PICK ss : ss = p.blocks[b].statements
  OBVIOUS
<1> PICK tt : tt = q.blocks[b].statements
  OBVIOUS
<1> PICK n : n = Len(ss)
  OBVIOUS
<1>10. /\ ss \in Seq(StatementRecords) /\ tt \in Seq(StatementRecords) /\ b \in Nat /\ n \in Nat
       /\ BlocksOf(p) \subseteq Nat
  BY <1>1, <1>3, <1>6, ProgramParts
<1>11. /\ DOMAIN tt = 1..(n + 1) /\ DOMAIN ss = 1..n
       /\ \A m \in DOMAIN ss : tt[m] = ss[m]
       /\ \A m \in DOMAIN tt : m \in DOMAIN ss \/ m = n + 1
  BY <1>1, <1>3, LongerStatements DEF LongerBy
<1>12. Len(tt) = n + 1
  BY <1>10, <1>11, LengthOfDomain
<1>13. AddedLast(q, b + 1)
  <2> SUFFICES ASSUME NEW c \in BlocksOf(q), NEW m \in DOMAIN q.blocks[c].statements,
                      q.blocks[c].statements[m].instruction = None
               PROVE  m = Len(q.blocks[c].statements) /\ c < b + 1
    BY DEF AddedLast
  <2>1. CASE c = b
    <3>1. \A l \in DOMAIN ss : ss[l].instruction # None
      <4> SUFFICES ASSUME NEW l \in DOMAIN ss, ss[l].instruction = None PROVE FALSE
        OBVIOUS
      <4>1. b < b
        BY DEF AddedLast
      <4> QED BY <1>10, <4>1
    <3>2. m = n + 1
      BY <1>11, <2>1, <3>1
    <3> QED BY <1>10, <1>12, <2>1, <3>2
  <2>2. CASE c # b
    <3>1. c \in BlocksOf(p) /\ q.blocks[c] = p.blocks[c] /\ c \in Nat
      BY <1>6, <1>10, <2>2
    <3>2. m = Len(q.blocks[c].statements) /\ c < b
      BY <3>1 DEF AddedLast
    <3> QED BY <1>10, <3>1, <3>2
  <2> QED BY <2>1, <2>2
<1>14. JumpsLast(p) => JumpsLast(q)
  <2> SUFFICES ASSUME JumpsLast(p),
                      NEW c \in BlocksOf(q), NEW m \in DOMAIN q.blocks[c].statements,
                      q.blocks[c].statements[m].kind \in Terminators
               PROVE  m = Len(q.blocks[c].statements)
    BY DEF JumpsLast
  <2>1. CASE c = b
    <3>1. \A l \in DOMAIN ss : ss[l].kind \notin Terminators
      <4> SUFFICES ASSUME NEW l \in DOMAIN ss, ss[l].kind \in Terminators PROVE FALSE
        OBVIOUS
      <4>1. l = n
        BY DEF JumpsLast
      <4>2. ss # <<>>
        BY <1>10, <1>11
      <4> QED BY <4>1, <4>2 DEF HasTerminator
    <3>2. m = n + 1
      BY <1>11, <2>1, <3>1
    <3> QED BY <1>12, <2>1, <3>2
  <2>2. CASE c # b
    BY <1>6, <2>2 DEF JumpsLast
  <2> QED BY <2>1, <2>2
<1>15. Formed(q)
  BY <1>3, <1>4, <1>5, <1>7 DEF Formed
<1>16. CalledStart(p) => CalledStart(q)
  <2>1. q.called = p.called
    BY <1>3 DEF StatementAdded
  <2>2. \A a : StartingAt(q, a) = StartingAt(p, a)
    BY <1>6 DEF StartingAt
  <2> QED BY <2>1, <2>2 DEF CalledStart
<1>17. Sided(p) => Sided(q)
  BY <1>1, <1>2, <1>3, AddedForkSided DEF Forked
<1> QED BY <1>4, <1>6, <1>8, <1>9, <1>13, <1>14, <1>15, <1>16, <1>17 DEF JumpAdded
-----------------------------------------------------------------------------
(* How many statements a block may have. *)

\* Statements of a block with an address come from different instructions, apart from
\* the last.
LEMMA PlacesAreFew ==
    ASSUME NEW C \in Codes, NEW p, Formed(p), Known(p, Addresses(Sound(C)) \cup {None}),
           NEW n, AddedLast(p, n),
           NEW b, NEW m, NEW a \in Nat, IsOf(p, b, m, a)
    PROVE  m \in 1..Cardinality(C)
<1> PICK ss : ss = p.blocks[b].statements
  OBVIOUS
<1>1. b \in BlocksOf(p) /\ m \in DOMAIN ss /\ Bound(p, b) /\ ss[m].instruction = a
  BY DEF IsOf
<1>2. ss \in Seq(StatementRecords)
  BY <1>1, ProgramParts DEF Formed
<1>3. m \in Nat /\ m >= 1 /\ DOMAIN ss = 1..Len(ss) /\ Len(ss) \in Nat /\ m <= Len(ss)
  BY <1>1, <1>2
<1>4. \A l \in 1..m : l \in DOMAIN ss /\ ss[l].instruction # None
  <2> SUFFICES ASSUME NEW l \in 1..m PROVE l \in DOMAIN ss /\ ss[l].instruction # None
    OBVIOUS
  <2>1. l \in DOMAIN ss /\ (l = Len(ss) => l = m)
    BY <1>3
  <2>2. ss[l].instruction = None => l = Len(ss)
    BY <1>1, <2>1 DEF AddedLast
  <2> QED BY <1>1, <2>1, <2>2 DEF None
<1>5. \A l \in 1..m : \E i \in C : i.address = ss[l].instruction
  <2> SUFFICES ASSUME NEW l \in 1..m PROVE \E i \in C : i.address = ss[l].instruction
    OBVIOUS
  <2>1. Occurs(p, ss[l])
    BY <1>1, <1>4 DEF Occurs
  <2> QED BY <1>4, <2>1 DEF Known, Addresses, Sound
<1> DEFINE f == [l \in 1..m |-> CHOOSE i \in C : i.address = ss[l].instruction]
<1>6. \A l \in 1..m : f[l] \in C /\ f[l].address = ss[l].instruction
  BY <1>5
<1>7. \A k, l \in 1..m : k < l => ss[k].instruction < ss[l].instruction
  BY <1>1, <1>4 DEF Formed, Inside
<1>8. \A l \in 1..m : ss[l].instruction \in Nat
  BY <1>6, CodeParts
<1>9. \A k, l \in 1..m : f[k] = f[l] => k = l
  <2> HIDE DEF f
  <2> SUFFICES ASSUME NEW k \in 1..m, NEW l \in 1..m, f[k] = f[l], k # l PROVE FALSE
    OBVIOUS
  <2>1. ss[k].instruction = ss[l].instruction
    BY <1>6
  <2>2. k < l \/ l < k
    BY <1>3
  <2> QED BY <1>7, <1>8, <2>1, <2>2
<1>10. f \in Injection(1..m, C)
  <2>1. f \in [1..m -> C]
    BY <1>6
  <2> HIDE DEF f
  <2> QED BY <1>9, <2>1, Fun_IsInj
<1>11. IsFiniteSet(C) /\ Cardinality(C) \in Nat
  BY CodeParts, FS_CardinalityType
<1>12. Cardinality(1..m) <= Cardinality(C)
  <2> HIDE DEF f
  <2> QED BY <1>10, <1>11, FS_Injection
<1>13. Cardinality(1..m) = m
  BY <1>3, FS_Interval
<1> QED BY <1>3, <1>11, <1>12, <1>13
-----------------------------------------------------------------------------
(* The generator as a whole: what holds in each of its phases. *)

\* In every phase, of the program p generated from the instructions T of the code C.
GoodProgram(C, T, p) ==
    /\ C \in Codes /\ T \in SUBSET C
    /\ Formed(p)
    /\ Known(p, Addresses(Sound(C)) \cup {None})
    /\ Kept(p, Addresses(Sound(T)))
    /\ AddedLast(p, Len(p.blocks) + 1)
    /\ CalledStart(p) /\ Sided(p)
    /\ Apart(C) => Exact(p)

Positions == block \in 1..(Len(program.blocks) + 1) /\ index \in Nat \ {0}

IRInv ==
    /\ GoodProgram(code, translated, program)
    /\ Positions
    /\ phase = "statements" => block = 1 /\ index = 1 /\ Generated(code, program, translated)
    /\ phase = "targets" => /\ Known(program, Addresses(Sound(code)))
                            /\ ClosedUpTo(code, program, block, index)
    /\ phase = "successors" => AddedLast(program, block)
    /\ phase \in {"successors", "done"} => (Apart(code) => JumpsLast(program))

\* The instructions translated so far are some of those there are.
LEMMA SoundAddresses ==
    ASSUME NEW C \in Codes, NEW T \in SUBSET C
    PROVE  /\ Addresses(Sound(C)) \in SUBSET Nat /\ Addresses(Sound(T)) \in SUBSET Nat
           /\ Addresses(Sound(T)) \subseteq Addresses(Sound(C))
<1>1. \A i \in C : i.address \in Nat
  BY CodeParts
<1> QED BY <1>1 DEF Addresses, Sound

\* What has been generated is good when translation ends.
LEMMA GeneratedIsGood ==
    ASSUME NEW C \in Codes, NEW T \in SUBSET C, NEW p, Generated(C, p, T)
    PROVE  GoodProgram(C, T, p)
<1>1. /\ Formed(p) /\ Known(p, Addresses(Sound(T))) /\ Kept(p, Addresses(Sound(T)))
      /\ Apart(C) => Exact(p)
  BY DEF Generated
<1>2. /\ Addresses(Sound(T)) \in SUBSET Nat
      /\ Addresses(Sound(T)) \subseteq Addresses(Sound(C)) \cup {None}
  BY SoundAddresses
<1>3. Known(p, Addresses(Sound(C)) \cup {None})
  BY <1>1, <1>2 DEF Known
<1>4. AddedLast(p, Len(p.blocks) + 1)
  BY <1>1, <1>2, NoneAdded
<1>5. CalledStart(p) /\ Sided(p)
  BY DEF Generated, CalledStart
<1> QED BY <1>1, <1>3, <1>4, <1>5 DEF GoodProgram

\* What is good stays so in the second phase.
LEMMA DevelopedIsGood ==
    ASSUME NEW C, NEW T, NEW p, GoodProgram(C, T, p),
           NEW q, Developed(p, q, Addresses(Sound(C))),
           \A a \in q.called : a \in p.called \/ StartingAt(q, a) # {}
    PROVE  GoodProgram(C, T, q)
<1>1. C \in Codes /\ T \in SUBSET C
  BY DEF GoodProgram
<1>2. Formed(q) /\ Known(q, Addresses(Sound(C)))
  BY DEF Developed
<1>3. Addresses(Sound(C)) \in SUBSET Nat
  BY <1>1, SoundAddresses
<1>4. AddedLast(q, Len(q.blocks) + 1)
  BY <1>2, <1>3, NoneAdded
<1>5. Known(q, Addresses(Sound(C)) \cup {None})
  BY <1>2 DEF Known
<1>6. Kept(q, Addresses(Sound(T))) /\ (Apart(C) => Exact(q)) /\ Sided(q)
  BY DEF Developed, GoodProgram, Kept
<1>7. CalledStart(q)
  BY DevelopedStarts DEF CalledStart, GoodProgram
<1> QED BY <1>1, <1>2, <1>4, <1>5, <1>6, <1>7 DEF GoodProgram

\* Blocks are numbered from one on.
LEMMA ProgramSize ==
    ASSUME NEW p, Formed(p)
    PROVE  BlocksOf(p) = 1..Len(p.blocks) /\ Len(p.blocks) \in Nat
BY ProgramParts DEF Formed

\* An empty program is good.
LEMMA IRInitially == IRInit => IRInv
<1> SUFFICES ASSUME IRInit PROVE IRInv
  OBVIOUS
<1> PICK p : p = EmptyProgram
  OBVIOUS
<1>1. p.blocks = <<>> /\ p.ranges = {} /\ p.called = {} /\ BlocksOf(p) = {} /\ Len(p.blocks) = 0
  BY DEF EmptyProgram, BlocksOf
<1>2. code \in Codes /\ program = p /\ phase = "statements" /\ translated = {} /\ block = 1 /\ index = 1
  BY DEF IRInit
<1>3. p \in Programs(StatementRecords)
  BY DEF EmptyProgram, Programs
<1>4. Formed(p)
  BY <1>1, <1>3 DEF Formed, Mapped, Located, Ordered, Inside, Tails
<1>5. Addresses(Sound({})) = {}
  BY DEF Addresses, Sound
<1>6. Known(p, {}) /\ Kept(p, {})
  BY <1>1 DEF Known, Kept, Occurs
<1>7. Exact(p) /\ Ended(p, {}) /\ Reached(p, {}) /\ InOrder(code, {}) /\ p.called = {}
  BY <1>1 DEF Exact, Ended, Reached, InOrder
<1>11. Sided(p)
  BY <1>1 DEF Sided, Held
<1>8. Generated(code, p, {})
  BY <1>4, <1>5, <1>6, <1>7, <1>11 DEF Generated
<1>9. GoodProgram(code, {}, p)
  <2>1. {} \in SUBSET code
    OBVIOUS
  <2> QED BY <1>2, <1>8, <2>1, GeneratedIsGood
<1>10. Positions
  BY <1>1, <1>2 DEF Positions
<1> QED BY <1>2, <1>8, <1>9, <1>10 DEF IRInv

\* One instruction is translated.
LEMMA CreateStatementsKeepsInv ==
    ASSUME IRInv, CreateStatements
    PROVE  IRInv'
<1> DEFINE i == CHOOSE j \in code \ translated : \A k \in code \ translated : j.address <= k.address
<1>1. /\ phase = "statements" /\ code \ translated # {} /\ code \in Codes /\ translated \in SUBSET code
      /\ block = 1 /\ index = 1 /\ Generated(code, program, translated)
  BY DEF CreateStatements, IRInv, GoodProgram
<1>2. i \in code \ translated /\ \A k \in code \ translated : i.address <= k.address
  <2>1. \E j \in code \ translated : \A k \in code \ translated : j.address <= k.address
    BY <1>1, NextInstruction
  <2> QED BY <2>1
<1>3. /\ translated' = translated \cup {i}
      /\ program' = IF i.kind = "invalid" THEN program
                    ELSE Statements(i, ExtendForInstruction(program, i), BlockForInstruction(program, i))
      /\ code' = code /\ phase' = phase /\ block' = block /\ index' = index
  BY DEF CreateStatements
<1> HIDE DEF i
<1>4. Generated(code, program', translated')
  BY <1>1, <1>2, <1>3, GeneratesNext
<1>5. translated' \in SUBSET code
  BY <1>1, <1>2, <1>3
<1>6. GoodProgram(code, translated', program')
  BY <1>1, <1>4, <1>5, GeneratedIsGood
<1>7. Positions'
  <2>1. Formed(program')
    BY <1>4 DEF Generated
  <2>2. Len(program'.blocks) \in Nat
    BY <2>1, ProgramSize
  <2>3. block' \in 1..(Len(program'.blocks) + 1)
    BY <1>1, <1>3, <2>2
  <2> QED BY <1>3, <2>3 DEF Positions, IRInv
<1> QED BY <1>1, <1>3, <1>4, <1>6, <1>7 DEF IRInv

\* All instructions have been translated.
LEMMA StatementsCreatedKeepsInv ==
    ASSUME IRInv, StatementsCreated
    PROVE  IRInv'
<1>1. /\ phase = "statements" /\ translated = code /\ code \in Codes
      /\ block = 1 /\ index = 1 /\ Generated(code, program, translated)
      /\ GoodProgram(code, translated, program) /\ Positions
  BY DEF StatementsCreated, IRInv, GoodProgram, Positions
<1>2. /\ phase' = "targets" /\ translated' = translated /\ program' = program
      /\ code' = code /\ block' = block /\ index' = index
  BY DEF StatementsCreated
<1>3. Known(program, Addresses(Sound(code)))
  BY <1>1 DEF Generated
<1>4. ClosedUpTo(code, program, 1, 1)
  <2> SUFFICES ASSUME NEW c \in BlocksOf(program), NEW m \in DOMAIN program.blocks[c].statements,
                      c < 1 \/ (c = 1 /\ m < 1)
               PROVE  FALSE
    BY Zenon DEF ClosedUpTo
  <2>1. program \in Programs(StatementRecords)
    BY <1>1 DEF Generated, Formed
  <2>2. BlocksOf(program) = 1..Len(program.blocks) /\ program.blocks[c].statements \in Seq(StatementRecords)
    BY <2>1, ProgramParts
  <2> QED BY <2>2
<1>5. GoodProgram(code, translated, program)'
  BY <1>1, <1>2
<1>6. Positions'
  BY <1>1, <1>2 DEF Positions
<1>7. ClosedUpTo(code, program, block, index)'
  BY <1>1, <1>2, <1>4
<1> QED BY <1>1, <1>2, <1>3, <1>5, <1>6, <1>7 DEF IRInv

\* Targets are computed for one statement.
LEMMA VisitStatementKeepsInv ==
    ASSUME IRInv, VisitStatement
    PROVE  IRInv'
<1> PICK p : p = program
  OBVIOUS
<1> PICK q : q = program'
  OBVIOUS
<1> PICK s : s = p.blocks[block].statements[index]
  OBVIOUS
<1> PICK A : A = Addresses(Sound(code))
  OBVIOUS
<1> PICK i : i = InstructionAt(s.instruction)
  OBVIOUS
<1>1. /\ phase = "targets" /\ block \in BlocksOf(p) /\ index \in DOMAIN p.blocks[block].statements
      /\ code' = code /\ phase' = phase /\ translated' = translated /\ block' = block
      /\ index' = index + 1
  BY DEF VisitStatement, Current
<1>2. /\ GoodProgram(code, translated, p) /\ Formed(p) /\ Known(p, A) /\ Positions
      /\ code \in Codes /\ ClosedUpTo(code, p, block, index)
  BY <1>1 DEF IRInv, GoodProgram
<1>3. Occurs(p, s) /\ s \in StatementRecords
  <2>1. Occurs(p, s)
    BY <1>1 DEF Occurs
  <2> QED BY <1>2, <2>1, OccursTyped DEF Formed
<1>4. s.targets \in Seq(Nat) /\ s.kind \in StatementKinds
  BY <1>3, RecordParts
<1>5. i \in code /\ i.address = s.instruction /\ i.address \in Nat /\ i.size \in Nat \ {0}
  <2>1. \E j \in code : j.address = s.instruction
    BY <1>2, <1>3 DEF Known, Addresses, Sound
  <2>2. i \in code /\ i.address = s.instruction
    BY <2>1 DEF InstructionAt
  <2> QED BY <1>2, <2>2, CodeParts
<1>6. /\ Developed(p, q, A)
      /\ \A a \in q.called : a \in p.called \/ StartingAt(q, a) # {}
      /\ s.kind \in Terminators /\ Bound(p, block) => StartingAt(q, EndOf(i)) # {}
  <2>1. CASE s.kind = "plain"
    <3>1. q = p
      BY <2>1 DEF VisitStatement, CurrentStatement, Current
    <3> QED BY <1>2, <2>1, <3>1, DevelopedNot DEF Terminators
  <2>2. CASE s.kind = "call"
    <3>1. q = CreateBasicBlocks(Calling(p, s.targets), s.targets)
      BY <2>2 DEF VisitStatement, CurrentStatement, Current, Calling
    <3> QED BY <1>2, <1>4, <2>2, <3>1, CallDevelops DEF Terminators
  <2>3. ASSUME NEW r, Developed(p, r, A), r.called = p.called, q = CloseBlock(r, block, i)
        PROVE  /\ Developed(p, q, A) /\ q.called = p.called
               /\ Bound(p, block) => StartingAt(q, EndOf(i)) # {}
    <3>1. Formed(r) /\ Known(r, A) /\ (Bound(r, block) <=> Bound(p, block))
      BY <1>1, <2>3 DEF Developed, Bound
    <3>2. /\ Developed(r, q, A) /\ q.called = r.called
          /\ Bound(r, block) => StartingAt(q, EndOf(i)) # {}
      BY <1>5, <2>3, <3>1, CloseBlockDevelops
    <3>3. Developed(p, q, A)
      BY <2>3, <3>2, DevelopedFurther
    <3> QED BY <2>3, <3>1, <3>2, <3>3
  <2>4. CASE s.kind = "return"
    <3>1. q = CloseBlock(p, block, i)
      BY <2>4 DEF VisitStatement, CurrentStatement, Current
    <3>2. Developed(p, p, A)
      BY <1>2, DevelopedNot
    <3> QED BY <2>3, <3>1, <3>2
  <2>5. CASE s.kind = "jump"
    <3>1. \/ s.targets # <<>> /\ q = CloseBlock(Connect(p, s.instruction, s.targets), block, i)
          \/ q = CloseBlock(p, block, i)
      BY <2>5 DEF VisitStatement, CurrentStatement, Current
    <3>2. Developed(p, p, A)
      BY <1>2, DevelopedNot
    <3>3. s.targets # <<>> => LET c == Connect(p, s.instruction, s.targets)
                              IN  Developed(p, c, A) /\ c.called = p.called
      <4> SUFFICES ASSUME s.targets # <<>>
                   PROVE  LET c == Connect(p, s.instruction, s.targets)
                          IN  Developed(p, c, A) /\ c.called = p.called
        OBVIOUS
      <4> PICK r : r = Connect(p, s.instruction, s.targets)
        OBVIOUS
      <4>1. Developed(p, r, A) /\ r.called = p.called
        BY <1>2, <1>3, <1>4, <2>5, ConnectDevelops
      <4> QED BY <4>1
    <3> QED BY <2>3, <3>1, <3>2, <3>3
  <2> QED BY <1>4, <2>1, <2>2, <2>4, <2>5 DEF StatementKinds
<1>7. GoodProgram(code, translated, q)
  BY <1>2, <1>6, DevelopedIsGood
<1>8. Known(q, A) /\ BlocksOf(p) \subseteq BlocksOf(q) /\ Formed(q)
  BY <1>6 DEF Developed
<1>9. ClosedUpTo(code, q, block, index + 1)
  <2>1. (Bound(p, block) /\ s.kind \in Terminators) =>
            \E j \in code : j.address = s.instruction /\ StartingAt(q, EndOf(j)) # {}
    BY <1>5, <1>6
  <2> QED BY <1>1, <1>2, <1>6, <2>1, ClosesNext
<1>10. Positions'
  <2>1. block \in 1..Len(q.blocks) /\ Len(q.blocks) \in Nat
    BY <1>1, <1>8, ProgramSize
  <2>2. index \in Nat \ {0}
    BY <1>2 DEF Positions
  <2> QED BY <1>1, <2>1, <2>2 DEF Positions
<1> QED BY <1>1, <1>7, <1>8, <1>9, <1>10 DEF IRInv

\* The next block is begun.
LEMMA NextBlockKeepsInv ==
    ASSUME IRInv, NextBlock
    PROVE  IRInv'
<1>1. /\ phase = "targets" /\ block \in BlocksOf(program)
      /\ index > Len(program.blocks[block].statements)
      /\ code' = code /\ program' = program /\ phase' = phase /\ translated' = translated
      /\ block' = block + 1 /\ index' = 1
  BY DEF NextBlock, Current
<1>2. /\ GoodProgram(code, translated, program) /\ Formed(program) /\ Positions
      /\ Known(program, Addresses(Sound(code))) /\ ClosedUpTo(code, program, block, index)
  BY <1>1 DEF IRInv, GoodProgram
<1>3. index \in Nat
  BY <1>2 DEF Positions
<1>4. ClosedUpTo(code, program, block + 1, 1)
  BY <1>1, <1>2, <1>3, ClosesBlock
<1>5. Positions'
  <2>1. BlocksOf(program) = 1..Len(program.blocks) /\ Len(program.blocks) \in Nat
    BY <1>2, ProgramSize
  <2>2. block + 1 \in 1..(Len(program.blocks) + 1)
    BY <1>1, <2>1
  <2> QED BY <1>1, <2>2 DEF Positions
<1> QED BY <1>1, <1>2, <1>4, <1>5 DEF IRInv

\* All blocks have been visited: now jumps and returns are last, unless code overlaps.
LEMMA TargetsComputedKeepsInv ==
    ASSUME IRInv, TargetsComputed
    PROVE  IRInv'
<1>1. /\ phase = "targets" /\ block > Len(program.blocks)
      /\ code' = code /\ program' = program /\ phase' = "successors" /\ translated' = translated
      /\ block' = 1 /\ index' = index
  BY DEF TargetsComputed
<1>2. /\ GoodProgram(code, translated, program) /\ Formed(program) /\ Positions
      /\ Known(program, Addresses(Sound(code))) /\ ClosedUpTo(code, program, block, index)
      /\ code \in Codes /\ (Apart(code) => Exact(program))
  BY <1>1 DEF IRInv, GoodProgram
<1>3. BlocksOf(program) = 1..Len(program.blocks) /\ Len(program.blocks) \in Nat
  BY <1>2, ProgramSize
<1>4. AddedLast(program, 1)
  BY <1>2, SoundAddresses, NoneAdded
<1>5. ASSUME Apart(code) PROVE JumpsLast(program)
  <2>1. \A c \in BlocksOf(program) : c < block
    BY <1>1, <1>2, <1>3 DEF Positions
  <2>2. \A c \in BlocksOf(program) : \A m \in DOMAIN program.blocks[c].statements :
            (Bound(program, c) /\ program.blocks[c].statements[m].kind \in Terminators)
            => \E i \in code : /\ i.address = program.blocks[c].statements[m].instruction
                               /\ StartingAt(program, EndOf(i)) # {}
    BY <1>2, <2>1 DEF ClosedUpTo
  <2> QED BY <1>2, <1>5, <2>2, ClosedJumpsLast
<1>6. Positions'
  BY <1>1, <1>2, <1>3 DEF Positions
<1> QED BY <1>1, <1>2, <1>4, <1>5, <1>6 DEF IRInv

\* One block gets a jump to its successor, or needs none.
LEMMA AddJumpKeepsInv ==
    ASSUME IRInv, AddJumpToDirectSuccessor
    PROVE  IRInv'
<1> PICK p : p = program
  OBVIOUS
<1> PICK q : q = program'
  OBVIOUS
<1> PICK A : A = Addresses(Sound(code))
  OBVIOUS
<1> DEFINE s == [kind |-> "jump", instruction |-> None, targets |-> <<>>, connected |-> FALSE,
                 blocks |-> StartingAt(p, p.blocks[block].successor)]
<1>1. /\ phase = "successors" /\ block \in BlocksOf(p)
      /\ code' = code /\ phase' = phase /\ translated' = translated /\ block' = block + 1
      /\ index' = index
      /\ \/ /\ ~HasTerminator(p.blocks[block]) /\ p.blocks[block].successor # None
            /\ q = AddStatement(p, block, s)
         \/ q = p
  BY Zenon DEF AddJumpToDirectSuccessor, Current
<1>2. /\ GoodProgram(code, translated, p) /\ Formed(p) /\ Positions /\ AddedLast(p, block)
      /\ Known(p, A \cup {None}) /\ Kept(p, Addresses(Sound(translated)))
      /\ code \in Codes /\ translated \in SUBSET code /\ (Apart(code) => Exact(p))
      /\ (Apart(code) => JumpsLast(p)) /\ CalledStart(p) /\ Sided(p)
  BY <1>1 DEF IRInv, GoodProgram
<1>3. BlocksOf(p) = 1..Len(p.blocks) /\ Len(p.blocks) \in Nat
  BY <1>2, ProgramSize
<1>4. A \in SUBSET Nat /\ Addresses(Sound(translated)) \subseteq A
  BY <1>2, SoundAddresses
<1>5. s \in StatementRecords /\ s.instruction = None /\ s.blocks \subseteq BlocksOf(p)
  <2>1. StartingAt(p, p.blocks[block].successor) \subseteq BlocksOf(p)
    BY DEF StartingAt
  <2>2. BlocksOf(p) \subseteq Nat
    BY <1>3
  <2> QED BY <2>1, <2>2 DEF StatementRecords, StatementKinds
<1> HIDE DEF s
<1>6. /\ Formed(q) /\ Known(q, A \cup {None}) /\ AddedLast(q, block + 1)
      /\ \A a \in A : OnlyOne(p, a) => OnlyOne(q, a)
      /\ Exact(p) => Exact(q)
      /\ JumpsLast(p) => JumpsLast(q)
      /\ CalledStart(q) /\ Sided(q)
      /\ Len(q.blocks) = Len(p.blocks)
  <2>1. CASE /\ ~HasTerminator(p.blocks[block]) /\ p.blocks[block].successor # None
             /\ q = AddStatement(p, block, s)
    <3> PICK t : t = s
      OBVIOUS
    <3>1. t \in StatementRecords /\ t.instruction = None /\ t.blocks \subseteq BlocksOf(p)
      BY <1>5
    <3>2. /\ Formed(p) /\ A \in SUBSET Nat /\ Known(p, A \cup {None})
          /\ block \in BlocksOf(p) /\ AddedLast(p, block)
      BY <1>1, <1>2, <1>4
    <3>3. /\ ~HasTerminator(p.blocks[block]) /\ p.blocks[block].successor # None
          /\ q = AddStatement(p, block, t)
      BY <2>1
    <3>4. JumpAdded(p, q, A, block)
      BY <3>1, <3>2, <3>3, AddedJumpKeeps
    <3> QED BY <1>2, <3>4 DEF JumpAdded
  <2>2. CASE q = p
    <3>1. AddedLast(p, block + 1)
      <4>1. \A c \in BlocksOf(p) : c < block => c < block + 1
        BY <1>1, <1>3
      <4> QED BY <1>2, <4>1 DEF AddedLast
    <3> QED BY <1>2, <2>2, <3>1
  <2> QED BY <1>1, <2>1, <2>2
<1>7. Kept(q, Addresses(Sound(translated)))
  BY <1>2, <1>4, <1>6 DEF Kept
<1>8. AddedLast(q, Len(q.blocks) + 1)
  <2>1. \A c \in BlocksOf(q) : c < Len(q.blocks) + 1
    BY <1>6, ProgramSize
  <2> QED BY <1>6, <2>1 DEF AddedLast
<1>9. GoodProgram(code, translated, q)
  BY <1>2, <1>6, <1>7, <1>8 DEF GoodProgram
<1>10. Positions'
  <2>1. block + 1 \in 1..(Len(q.blocks) + 1)
    BY <1>1, <1>3, <1>6
  <2> QED BY <1>1, <1>2, <2>1 DEF Positions
<1>11. Apart(code) => JumpsLast(q)
  BY <1>2, <1>6
<1> QED BY <1>1, <1>6, <1>9, <1>10, <1>11 DEF IRInv

\* The generator is done.
LEMMA SuccessorsAddedKeepsInv ==
    ASSUME IRInv, SuccessorsAdded
    PROVE  IRInv'
<1>1. /\ phase = "successors" /\ phase' = "done"
      /\ code' = code /\ program' = program /\ translated' = translated
      /\ block' = block /\ index' = index
  BY DEF SuccessorsAdded
<1> QED BY <1>1 DEF IRInv, Positions

\* What leaves the generator leaves its program alone.
LEMMA LeavingKeepsInv ==
    ASSUME IRInv, UNCHANGED <<code, program, translated, block, index>>,
           phase' \in {"canceled", "isolated"}
    PROVE  IRInv'
BY DEF IRInv, Positions

\* Whatever the generator does keeps the invariant.
LEMMA GenerateKeepsInv ==
    ASSUME IRInv, Generate
    PROVE  IRInv'
BY CreateStatementsKeepsInv, StatementsCreatedKeepsInv, VisitStatementKeepsInv, NextBlockKeepsInv,
   TargetsComputedKeepsInv, AddJumpKeepsInv, SuccessorsAddedKeepsInv DEF Generate

\* And so does what leaves it alone.
LEMMA StandingKeepsInv ==
    ASSUME IRInv, UNCHANGED irVars
    PROVE  IRInv'
BY DEF IRInv, Positions, irVars
-----------------------------------------------------------------------------
(* What follows for the program. *)

\* The type invariant of the program follows.
LEMMA InvTypeOK == IRInv => ProgramTypeOK
<1> SUFFICES ASSUME IRInv PROVE ProgramTypeOK
  OBVIOUS
<1>1. /\ Formed(program) /\ Positions
      /\ Known(program, Addresses(Sound(code)) \cup {None})
  BY DEF IRInv, GoodProgram
<1>2. program \in Programs(StatementRecords) /\ Mapped(program)
  BY <1>1 DEF Formed
<1>3. Addresses(Sound(code)) = {i.address : i \in Valid}
  BY DEF Addresses, Sound, Valid
<1>4. program.called \subseteq Nat
  BY <1>2, ProgramParts
<1>5. ASSUME NEW b \in BlocksOf(program)
      PROVE  /\ program.blocks[b].address \in Nat \cup {None}
             /\ Bound(program, b) => program.blocks[b].address <= program.blocks[b].successor
             /\ \A n \in DOMAIN program.blocks[b].statements :
                   LET s == program.blocks[b].statements[n]
                   IN  /\ s.kind \in {"plain", "call", "jump", "return"}
                       /\ s.instruction \in {None} \cup {i.address : i \in Valid}
                       /\ s.blocks \subseteq BlocksOf(program)
  <2>1. program.blocks[b].address \in Nat \cup {None}
    BY <1>2, ProgramParts
  <2>2. Bound(program, b) => program.blocks[b].address <= program.blocks[b].successor
    BY <1>2 DEF Mapped, Located
  <2>3. ASSUME NEW n \in DOMAIN program.blocks[b].statements,
               NEW s, s = program.blocks[b].statements[n]
        PROVE  /\ s.kind \in {"plain", "call", "jump", "return"}
               /\ s.instruction \in {None} \cup {i.address : i \in Valid}
               /\ s.blocks \subseteq BlocksOf(program)
    <3>1. Occurs(program, s)
      BY <2>3 DEF Occurs
    <3>2. s \in StatementRecords
      BY <1>2, <3>1, OccursTyped
    <3>3. s.kind \in {"plain", "call", "jump", "return"}
      BY <3>2, RecordParts DEF StatementKinds
    <3>4. s.instruction \in Addresses(Sound(code)) \cup {None} /\ s.blocks \subseteq BlocksOf(program)
      BY <1>1, <3>1 DEF Known
    <3> QED BY <1>3, <3>3, <3>4
  <2> QED BY <2>1, <2>2, <2>3
<1>6. KeysAreOrdered
  BY <1>2 DEF Mapped, Ordered, KeysAreOrdered
<1> QED BY <1>1, <1>4, <1>5, <1>6 DEF ProgramTypeOK, Positions

\* That the map says where the blocks are follows, unless code overlaps.
LEMMA InvRangesMatchBlocks == IRInv => RangesMatchBlocks
<1>1. BoundBlocks = {b \in BlocksOf(program) : Bound(program, b)}
  BY DEF BoundBlocks
<1>2. IRInv => (NoOverlap => Exact(program))
  BY DEF IRInv, GoodProgram, NoOverlap, Apart
<1> QED BY <1>1, <1>2, Zenon DEF RangesMatchBlocks, Exact, EntryOf

\* That each instruction keeps its one statement follows; there are finitely many
\* places, no more than instructions.
LEMMA InvStatementsAreKept == IRInv => StatementsAreKept
<1> SUFFICES ASSUME IRInv, NEW i \in translated \cap Valid
             PROVE  Cardinality({x \in BoundBlocks \X (1..Cardinality(code)) :
                        /\ x[2] \in DOMAIN program.blocks[x[1]].statements
                        /\ program.blocks[x[1]].statements[x[2]].instruction = i.address}) = 1
  BY Zenon DEF StatementsAreKept
<1> DEFINE places == {x \in BoundBlocks \X (1..Cardinality(code)) :
                        /\ x[2] \in DOMAIN program.blocks[x[1]].statements
                        /\ program.blocks[x[1]].statements[x[2]].instruction = i.address}
<1> PICK a : a = i.address
  OBVIOUS
<1>1. /\ code \in Codes /\ translated \in SUBSET code /\ Formed(program)
      /\ Known(program, Addresses(Sound(code)) \cup {None})
      /\ Kept(program, Addresses(Sound(translated)))
      /\ AddedLast(program, Len(program.blocks) + 1)
  BY DEF IRInv, GoodProgram
<1>2. i \in Sound(translated) /\ i \in code
  BY <1>1 DEF Sound, Valid
<1>3. a \in Nat
  BY <1>1, <1>2, CodeParts
<1>4. OnlyOne(program, a)
  <2>1. a \in Addresses(Sound(translated))
    BY <1>2 DEF Addresses
  <2> QED BY <1>1, <2>1 DEF Kept
<1>5. PICK b : \E m : IsOf(program, b, m, a) /\ \A c, l : IsOf(program, c, l, a) => c = b /\ l = m
  BY <1>4 DEF OnlyOne
<1>6. PICK m : IsOf(program, b, m, a) /\ \A c, l : IsOf(program, c, l, a) => c = b /\ l = m
  BY <1>5
<1>7. m \in 1..Cardinality(code)
  BY <1>1, <1>3, <1>6, PlacesAreFew
<1>8. <<b, m>> \in places
  BY <1>6, <1>7 DEF IsOf, BoundBlocks
<1>9. \A x \in places : x = <<b, m>>
  <2> SUFFICES ASSUME NEW x \in places PROVE x = <<b, m>>
    OBVIOUS
  <2>1. x = <<x[1], x[2]>> /\ IsOf(program, x[1], x[2], a)
    BY DEF IsOf, BoundBlocks
  <2> QED BY <1>6, <2>1
<1>10. places = {<<b, m>>}
  <2> HIDE DEF places
  <2> QED BY <1>8, <1>9
<1> QED BY <1>10, FS_Singleton

\* That jumps and returns end blocks follows, unless code overlaps.
LEMMA InvJumpsEndBlocks == IRInv => JumpsEndBlocksWithoutOverlap
<1>1. NoOverlap => Apart(code)
  BY DEF NoOverlap, Apart
<1> QED BY <1>1 DEF IRInv, JumpsEndBlocksWithoutOverlap, JumpsEndBlocks, JumpsLast
=============================================================================
