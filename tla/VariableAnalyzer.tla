-------------------------- MODULE VariableAnalyzer --------------------------
(***************************************************************************)
(* The variables of the generated code: terms belong to one variable when  *)
(* a chain of reads and their definitions joins them.  The sets of the     *)
(* union-find structure are named by the term that stands for them.        *)
(***************************************************************************)
EXTENDS UsageAnalyzer

VARIABLE variables   \* the term standing for the variable of each term

varvars == <<usedvars, variables>>

\* The sets once those of a read and of its definitions are united.
Unite(sets, read) ==
  LET united == {s \in sets : s \cap ({read} \cup definitions[read]) # {}}
  IN  (sets \ united) \cup {UNION united}

DisjointSets ==
  FoldSet(LAMBDA read, sets : Unite(sets, read), {{t} : t \in Terms}, {t \in Terms : IsRead(t)})

AnalyzeVariables ==
  /\ phase = "variables"
  /\ LET sets == DisjointSets
     IN  variables' = [t \in Terms |-> Min(CHOOSE s \in sets : t \in s)]
  /\ phase' = "analyzed"
  /\ UNCHANGED <<code, results, output, context, arguments, block, term, niterations,
                 changed, fixpointReached, used>>
=============================================================================
