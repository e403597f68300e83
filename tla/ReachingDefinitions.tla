------------------------ MODULE ReachingDefinitions ------------------------
(***************************************************************************)
(* The definitions that reach a point of a function: memory locations with *)
(* the terms that may have written them last.  A location is a domain, an  *)
(* address and a size, both in bits, so locations can overlap; definitions *)
(* are found by the exact location, and removed by overlap.                *)
(***************************************************************************)
EXTENDS Integers

CONSTANT CHAR_BIT   \* bits in a byte

ASSUME CharBitAssumption == CHAR_BIT \in Nat \ {0}

\* The empty location, that of terms which denote none.
Nowhere == [domain |-> "UNKNOWN", addr |-> 0, size |-> 0]

Overlap(l, m) ==
  /\ l.domain = m.domain
  /\ m.addr < l.addr + l.size
  /\ l.addr < m.addr + m.size

NoDefinitions == [l \in {} |-> {}]

GetDefinitions(defs, l) == IF l \in DOMAIN defs THEN defs[l] ELSE {}

KillDefinitions(defs, l) == [m \in {k \in DOMAIN defs : ~Overlap(l, k)} |-> defs[m]]

AddDefinition(defs, l, term) ==
  LET rest == KillDefinitions(defs, l)
  IN  [m \in DOMAIN rest \cup {l} |-> IF m = l THEN {term} ELSE rest[m]]

\* All that is joined, in any order.
JoinDefinitions(all) ==
  [l \in UNION {DOMAIN defs : defs \in all} |-> UNION {GetDefinitions(defs, l) : defs \in all}]
=============================================================================
