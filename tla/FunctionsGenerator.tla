------------------------- MODULE FunctionsGenerator -------------------------
(***************************************************************************)
(* nc::core::ir::FunctionsGenerator: which blocks of a program make up     *)
(* which functions (FunctionsGenerator.cpp, CFG.cpp, Function.cpp).        *)
(*                                                                         *)
(* makeFunctions() is one call that neither the token nor another thread   *)
(* interrupts, so it is an operator.  A function is its entry and the      *)
(* blocks cloned into it; the clones are connected as the blocks were, as  *)
(* far as both ends were cloned.                                           *)
(***************************************************************************)
EXTENDS Program

\* dfs(): what can be reached from "b" without entering a block visited before.
Trace(p, b, visited) ==
    LET reached[n \in 0..Len(p.blocks)] ==
            IF n = 0 THEN {b}
            ELSE LET before == reached[n - 1]
                 IN  before \cup ((UNION {Successors(p, c) : c \in before}) \ visited)
    IN  reached[Len(p.blocks)]

\* An unconditional jump to a block that is not cloned is removed, unless it has kept
\* its address.
IsRemoved(s, cloned) ==
    /\ s.kind = "jump" /\ s.targets = <<>>
    /\ Cardinality(s.blocks) = 1 /\ s.blocks \cap cloned = {}

ClonedStatements(p, b, cloned) ==
    LET ss == p.blocks[b].statements
    IN  IF ss # <<>> /\ IsRemoved(ss[Len(ss)], cloned) THEN SubSeq(ss, 1, Len(ss) - 1) ELSE ss

\* Function::isEmpty
IsEmptyFunction(p, f) == \A b \in f.blocks : ClonedStatements(p, b, f.blocks) = <<>>

-----------------------------------------------------------------------------
IsCalled(p, b) == Bound(p, b) /\ p.blocks[b].address \in p.called

\* The functions that are called, the empty ones too; each has its own copy of its body.
CalledFunctionsOfRoots(p) ==
    {[entry |-> b, blocks |-> Trace(p, b, {})] :
        b \in {c \in BlocksOf(p) : IsCalled(p, c) /\ Predecessors(p, c) = {}}}

CalledFunctions(p) ==
    {[entry |-> b, blocks |-> Trace(p, b, {})] : b \in {c \in BlocksOf(p) : IsCalled(p, c)}}

\* A pass over the blocks that isolates what starts at the heads that have not been
\* processed.
Pass(p, sofar, heads) ==
    LET pass[n \in 0..Len(p.blocks)] ==
            IF n = 0 THEN sofar
            ELSE LET before == pass[n - 1]
                     f == [entry |-> n, blocks |-> Trace(p, n, before.processed)]
                 IN  IF Bound(p, n) /\ n \in heads \ before.processed
                     THEN [functions |-> before.functions \cup
                                (IF IsEmptyFunction(p, f) THEN {} ELSE {f}),
                           processed |-> before.processed \cup f.blocks]
                     ELSE before
    IN  pass[Len(p.blocks)]

Roots(p) == {b \in BlocksOf(p) : Predecessors(p, b) = {}}

\* makeFunctions: what is called, what nothing jumps to, and the cycles that are left.
MakeFunctionsOfRoots(p) ==
    LET called == CalledFunctions(p)
        start == [functions |-> called, processed |-> UNION {f.blocks : f \in called}]
    IN  Pass(p, start, Roots(p)).functions

MakeFunctions(p) ==
    LET called == CalledFunctions(p)
        start == [functions |-> called, processed |-> UNION {f.blocks : f \in called}]
        roots == Pass(p, start, Roots(p))
    IN  Pass(p, roots, BlocksOf(p)).functions
=============================================================================
