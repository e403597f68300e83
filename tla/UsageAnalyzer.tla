--------------------------- MODULE UsageAnalyzer ---------------------------
(***************************************************************************)
(* Which terms the generated code needs: those that can be observed, the   *)
(* conditions of jumps and what is written to memory outside the frame,    *)
(* and all that their values are made of.                                  *)
(***************************************************************************)
EXTENDS DataflowAnalyzer

VARIABLE used   \* the terms found to be used

usedvars == <<dvars, used>>

IsCondition(t) == code.terms[t].origin = "condition"

\* computeUsage: used whatever else is.
IsObserved(t) ==
  \/ IsCondition(t)
  \/ IsWrite(t) /\ Kind(t) = "access" /\ IsGlobalMemory(code.terms[t].loc)
  \/ IsWrite(t) /\ Kind(t) = "dereference"
       /\ (locations[t] = Nowhere \/ IsGlobalMemory(locations[t]))

Operands(t) == {Operand(t, i) : i \in DOMAIN code.terms[t].operands}

AssigneeOf(t) == IF HasAssignee(t) THEN {Assignee(t)} ELSE {}

\* Mutant: an address is not used.
UsedByLeft(t) ==
  CASE IsRead(t) /\ IsConstant(values[t]) -> {}
    [] ~(IsRead(t) /\ IsConstant(values[t])) ->
         definitions[t] \cup
         (CASE Kind(t) \in {"const", "undefined", "access"} -> {}
            [] Kind(t) = "choice" -> {ChosenOperand(t)}
            [] Kind(t) \in {"unary", "binary", "dereference"} -> Operands(t))

\* propagateUsage: what a used term makes used.  A constant needs nothing.
UsedBy(t) ==
  CASE IsRead(t) /\ IsConstant(values[t]) -> {}
    [] ~(IsRead(t) /\ IsConstant(values[t])) ->
         CASE Kind(t) \in {"const", "undefined"} -> {}
           [] Kind(t) = "choice" -> {ChosenOperand(t)}
           [] Kind(t) \in {"unary", "binary"} -> Operands(t)
           [] Kind(t) = "access" -> definitions[t] \cup AssigneeOf(t)
           [] Kind(t) = "dereference" ->
                LET address == values[Operand(t, 1)]
                IN  definitions[t] \cup AssigneeOf(t) \cup
                      (IF IsStackOffset(address) \/ IsConstant(address) THEN {}
                                                                        ELSE Operands(t))

MakeUsed(terms) == used' = used \cup terms

\* The terms that are observed, then wave after wave what those need.
ComputeUsage ==
  /\ phase = "done"
  /\ LET wave == {t \in Terms : IsObserved(t)} \cup UNION {UsedBy(t) : t \in used}
     IN  /\ MakeUsed(wave)
         /\ phase' = IF wave \subseteq used THEN "variables" ELSE "done"
  /\ UNCHANGED <<code, results, output, context, arguments, block, term, niterations,
                 changed, fixpointReached>>
=============================================================================
