--------------------------- MODULE StructuredCode ---------------------------
(***************************************************************************)
(* Structural analysis followed by the generation of statements: what the  *)
(* text that the user reads does is what the machine code did.             *)
(***************************************************************************)
EXTENDS StructureAnalyzer, DefinitionGenerator

Text == CreateDefinition(code, graph)

RegionsOf(kind) == {r \in 1..Len(graph.node) : Kind(graph, r) = kind}

\* How often a jump may be followed before the code is taken to turn for ever.
Fuel(flat) == Len(flat)

Inside(n, r) == LET RECURSIVE Within(_)
                    Within(m) == m = r \/ (Parent(graph, m) # 0 /\ Within(Parent(graph, m)))
                IN  Within(n)

(***************************************************************************)
(* Six ways in which the text goes astray.                                 *)
(*  - A break that leaves a do-while loop arrives at the goto behind it.   *)
(*  - A continue in a do-while loop arrives at the test of the loop's last *)
(*    block, behind the statements of that block.                          *)
(*  - Behind an if without else in a switch there is no goto.              *)
(*  - The end of a switch falls into the cases that no block has taken.    *)
(*  - A switch whose default branch is also the middle of a loop has no    *)
(*    default label, since the edge to it has been dropped.                *)
(*  - The right half of a compound condition has no label.                 *)
(***************************************************************************)
BreakGoesAstray(b, target, next) ==
    \E r \in RegionsOf("DO_WHILE") : Inside(b, r) /\ ~Inside(target, r) /\ next = graph.node[r].exit

ContinueGoesAstray(b, target, next) ==
    \E r \in RegionsOf("DO_WHILE") : Inside(b, r) /\ next = TestOf(target)
                                        /\ target = EntryBlock(graph, graph.node[r].condition)

IfGoesAstray(b, target, next) ==
    \E r \in RegionsOf("IF_THEN") : /\ Inside(b, Members(graph, r)[1]) /\ target = graph.node[r].exit
                                    /\ \E s \in RegionsOf("SWITCH") : Inside(r, s)

EndOfSwitchGoesAstray(b, target, next) ==
    \E r \in RegionsOf("SWITCH") : /\ Inside(b, r)
                                   /\ \E i \in 1..graph.node[r].size : code[graph.node[r].witch].to[i] = next

DefaultGoesAstray(b, target, next) ==
    \E r \in RegionsOf("SWITCH") : LET s == graph.node[r] IN
        s.witch = b /\ s.check # 0 /\ target = code[s.check].to[2] /\ target \notin {s.default, s.exit}

LabelIsMissing(b, target, next) ==
    \E r \in RegionsOf("COMPOUND_CONDITION") : ~Inside(b, r) /\ next = Nothing
                                               /\ target = EntryBlock(graph, Members(graph, r)[2])

(***************************************************************************)
(* Behind block b the text goes where its jump goes, or where it is known  *)
(* to go astray.                                                           *)
(***************************************************************************)
GoesAstray(b, target, next) ==
    \/ BreakGoesAstray(b, target, next)
    \/ ContinueGoesAstray(b, target, next)
    \/ IfGoesAstray(b, target, next)
    \/ EndOfSwitchGoesAstray(b, target, next)
    \/ DefaultGoesAstray(b, target, next)
    \/ LabelIsMissing(b, target, next)

Follows(flat, b) ==
    LET Behind(a, outcome, index) ==
            NextExecuted(flat, (CHOOSE i \in Executions(flat, a) : TRUE) + 1, a, outcome, index, Fuel(flat))
        Goes(outcome, index, target) ==
            LET next == Behind(b, outcome, index)
            IN  next = target \/ GoesAstray(b, target, next)
        t == code[b]
        witches == {r \in RegionsOf("SWITCH") : graph.node[r].witch = b}
        checked == {r \in RegionsOf("SWITCH") : graph.node[r].check = b}
        size == IF witches = {} THEN Len(t.to) ELSE graph.node[CHOOSE r \in witches : TRUE].size
    IN  CASE t.kind = "return" -> Goes(0, 0, End)
          [] t.kind = "jump" -> Goes(0, 0, t.to[1])
          [] t.kind = "cond" /\ checked = {} -> \A i \in 1..2 : Goes(i, 0, t.to[i])
          [] t.kind = "table" -> \A v \in 0..size - 1 : Goes(0, v, t.to[v + 1])
          [] OTHER ->
                \* The statements of the switch's block are executed in any case.
                LET w == graph.node[CHOOSE r \in checked : TRUE].witch
                    out == Behind(w, 0, t.limit)
                IN  /\ Behind(b, 1, 0) = w /\ Behind(b, 2, 0) = w
                    /\ out = t.to[2] \/ GoesAstray(w, t.to[2], out)

Preserved ==
    LET flat == Flat(Text)
    IN  /\ NextExecuted(flat, 1, 0, 0, 0, Fuel(flat)) = 1
        /\ \A b \in 1..Len(code) : Cardinality(Executions(flat, b)) = 1 /\ Follows(flat, b)

\* A loop around a switch is a WHILE if the bounds check comes first, and the check then
\* becomes part of the switch: makeExpression is called with no condition and fails its
\* assertion, "Can only generate expressions from condition nodes."
SwitchIsLoopCondition == \E r \in RegionsOf("WHILE") : Kind(graph, Entry(graph, r)) = "SWITCH"

\* The text of every function does what the function did (makeStatements): it starts with
\* the first block, contains the statements of every block once, and behind a block it
\* goes where the jump of the block goes, whichever way its condition or its index turns
\* out, but for the jumps that are known to go astray.
OnlyKnownJumpsGoAstray == phase = "finished" /\ ~SwitchIsLoopCondition => Preserved
=============================================================================
