------------------------------- MODULE Types -------------------------------
(***************************************************************************)
(* What is known of the types of terms (types::Type, types::Types): sets   *)
(* of terms that have one type, in a union-find structure, each set with   *)
(* its size, what it is, what it points to, the step of its values, and    *)
(* the types of its offsets.                                               *)
(*                                                                         *)
(* A table a of types has an entry for each term: the Type object that     *)
(* getType creates for it.  0 stands for no type.  The objects of a set    *)
(* keep what they knew; the one that counts is the representative.         *)
(***************************************************************************)
EXTENDS Integers, FiniteSets

LOCAL INSTANCE FiniteSetsExt
LOCAL INSTANCE SequencesExt
LOCAL INSTANCE TLC

CONSTANT FactorLimit   \* the number of values of a factor

ASSUME FactorAssumption == FactorLimit \in Nat \ {0}

\* The traits of a type that are either known or not.
Flags == {"integer", "pointer", "signed", "unsigned"}

\* An offset of 0 to a value of a type is of that type.
NewType(t, size) ==
  [parent |-> t, rank |-> 0, size |-> size, flags |-> {}, pointee |-> 0, factor |-> 0,
   offsets |-> (0 :> t), changed |-> TRUE]

\* A set of integers, the least first.
Ascending(S) ==
  [i \in 1 .. Cardinality(S) |-> CHOOSE m \in S : Cardinality({n \in S : n < m}) = i - 1]

-----------------------------------------------------------------------------
\* Sets.

FindSet(a, t) ==
  LET Find[u \in DOMAIN a] == IF a[u].parent = u THEN u ELSE Find[a[u].parent]
  IN  Find[t]

Pointee(a, t) == IF a[t].pointee = 0 THEN 0 ELSE FindSet(a, a[t].pointee)

\* DisjointSet::unionSet
Link(a, t, u) ==
  LET x == FindSet(a, t)
      y == FindSet(a, u)
  IN  CASE x = y -> a
        [] x # y /\ a[x].rank < a[y].rank -> [a EXCEPT ![x].parent = y]
        [] x # y /\ a[x].rank = a[y].rank -> [a EXCEPT ![y].parent = x, ![x].rank = @ + 1]
        [] x # y /\ a[x].rank > a[y].rank -> [a EXCEPT ![y].parent = x]

-----------------------------------------------------------------------------
\* What is learned of a single type.

Is(a, t, flag) == flag \in a[t].flags

\* makeInteger, makePointer without a pointee, makeSigned, makeUnsigned
Make(a, t, flags) ==
  IF flags \subseteq a[t].flags THEN a
  ELSE [a EXCEPT ![t].flags = @ \cup flags, ![t].changed = TRUE]

\* Mutant: the greater size is kept.
UpdateSizeToGreater(a, t, size) ==
  IF size > a[t].size THEN [a EXCEPT ![t].size = size, ![t].changed = TRUE] ELSE a

UpdateSize(a, t, size) ==
  IF size < a[t].size THEN [a EXCEPT ![t].size = size, ![t].changed = TRUE] ELSE a

Gcd[m \in 0 .. FactorLimit - 1, n \in 0 .. FactorLimit - 1] == IF n = 0 THEN m ELSE Gcd[n, m % n]

\* Mutant: the step is the last one seen.
UpdateFactorForgets(a, t, increment) ==
  IF increment % FactorLimit = a[t].factor THEN a
  ELSE [a EXCEPT ![t].factor = increment % FactorLimit, ![t].changed = TRUE]

UpdateFactor(a, t, increment) ==
  LET factor == Gcd[increment % FactorLimit, a[t].factor]
  IN  IF factor = a[t].factor THEN a ELSE [a EXCEPT ![t].factor = factor, ![t].changed = TRUE]

-----------------------------------------------------------------------------
\* What makes sets one, and with them the sets their types refer to.

RECURSIVE UnionSet(_, _, _), Join(_, _, _), MakePointer(_, _, _), AddTypeOffset(_, _, _, _)

UnionSet(a, t, u) ==
  LET x == FindSet(a, t)
      y == FindSet(a, u)
      linked == Link(a, t, u)
  IN  IF FindSet(linked, t) = x THEN Join(linked, x, y) ELSE Join(linked, y, x)

MakePointer(a, t, pointee) ==
  LET pointer == Make(a, t, {"pointer"})
  IN  CASE pointee = 0 -> pointer
        [] pointee # 0 /\ a[t].pointee = 0 ->
             [pointer EXCEPT ![t].pointee = pointee, ![t].changed = TRUE]
        [] pointee # 0 /\ a[t].pointee # 0 -> UnionSet(pointer, a[t].pointee, pointee)

AddTypeOffset(a, t, offset, u) ==
  IF offset \in DOMAIN a[t].offsets THEN UnionSet(a, a[t].offsets[offset], u)
  ELSE [a EXCEPT ![t].offsets = @ @@ (offset :> u)]

\* t.join(u)
Join(a, t, u) ==
  LET sized == UpdateSize(a, t, a[u].size)
      integer == Make(sized, t, a[u].flags \cap {"integer"})
      pointer == IF Is(integer, u, "pointer") THEN MakePointer(integer, t, Pointee(integer, u))
                                              ELSE integer
      sign == Make(pointer, t, pointer[u].flags \cap {"signed", "unsigned"})
      Add(b, offset) == AddTypeOffset(b, t, offset, b[u].offsets[offset])
      offsets == FoldLeft(Add, sign, Ascending(DOMAIN a[u].offsets))
  IN  IF t = u THEN a ELSE UpdateFactor(offsets, t, offsets[u].factor)
=============================================================================
