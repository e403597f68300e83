-------------------------------- MODULE LikeC --------------------------------
(***************************************************************************)
(* What the statements of the generated program mean, as far as control    *)
(* goes.  This is the definition of C, not of any code in the repository:  *)
(* the reference against which DefinitionGenerator is checked.             *)
(*                                                                         *)
(* A statement list is a sequence of                                       *)
(*   [op |-> "label", block], [op |-> "case", value], [op |-> "default"],  *)
(*   [op |-> "exec", block]          the statements of a block but its jump*)
(*   [op |-> "goto", block], "break", "continue", "return",                *)
(*   [op |-> "goto*", targets]       a jump to a computed address          *)
(*   [op |-> "if", cond, yes, no], [op |-> "while", cond, body],           *)
(*   [op |-> "dowhile", cond, body], [op |-> "switch", block, body],       *)
(*   [op |-> "abort"]                the generator failed an assertion.    *)
(* A condition is a test of the jump of a block, perhaps after the block's *)
(* statements, a conjunction or a disjunction.                             *)
(***************************************************************************)
EXTENDS Naturals, Sequences, FiniteSets

LOCAL INSTANCE SequencesExt

(***************************************************************************)
(* Lower() turns a list into flat code with labels and tests.  A label is  *)
(* a sequence of numbers: <<1, b>> for a block, and the path of a compound *)
(* statement with a suffix for the places inside it.                       *)
(***************************************************************************)
LabelOf(b) == <<1, b>>
Place(path, k) == path \o <<k>>
LabelAt(l) == <<[op |-> "label", label |-> l]>>
Jump(l) == <<[op |-> "jump", label |-> l]>>
CaseLabel(path, v) == path \o <<100 + v>>

RECURSIVE LowerCondition(_, _, _, _)
LowerCondition(c, path, yes, no) ==
    CASE c.op = "test" ->
            (IF c.exec THEN <<[op |-> "exec", block |-> c.block]>> ELSE <<>>)
                \o <<[op |-> "test", block |-> c.block,
                      yes |-> IF c.negated THEN no ELSE yes, no |-> IF c.negated THEN yes ELSE no]>>
      [] c.op = "or" ->
            LowerCondition(c.left, Place(path, 11), yes, Place(path, 10))
                \o LabelAt(Place(path, 10)) \o LowerCondition(c.right, Place(path, 12), yes, no)
      [] c.op = "and" ->
            LowerCondition(c.left, Place(path, 11), Place(path, 10), no)
                \o LabelAt(Place(path, 10)) \o LowerCondition(c.right, Place(path, 12), yes, no)
      [] c.op = "true" -> Jump(yes)
      [] c.op = "abort" -> <<c>>

Default == 99

RECURSIVE Cases(_)
\* The values of the case labels in the body of a switch; Default stands for a default.
Cases(list) ==
    UNION {LET s == list[i] IN
           CASE s.op = "case" -> {s.value}
             [] s.op = "default" -> {Default}
             [] s.op = "if" -> Cases(s.yes) \cup Cases(s.no)
             [] s.op \in {"while", "dowhile"} -> Cases(s.body)
             [] OTHER -> {} : i \in 1..Len(list)}

RECURSIVE Lower(_, _, _, _, _)
\* Paths of the places that break, continue and the cases refer to; <<>> is none.
Lower(list, path, breakTo, continueTo, witch) ==
    LET One(s, at) ==
          CASE s.op = "label" -> LabelAt(LabelOf(s.block))
            [] s.op = "case" -> LabelAt(CaseLabel(witch, s.value))
            [] s.op = "default" -> LabelAt(CaseLabel(witch, Default))
            [] s.op = "goto" -> Jump(LabelOf(s.block))
            [] s.op = "break" -> Jump(breakTo)
            [] s.op = "continue" -> Jump(continueTo)
            [] s.op = "if" ->
                 LowerCondition(s.cond, Place(at, 1), Place(at, 2), Place(at, 3))
                   \o LabelAt(Place(at, 2)) \o Lower(s.yes, Place(at, 4), breakTo, continueTo, witch)
                   \o Jump(Place(at, 5))
                   \o LabelAt(Place(at, 3)) \o Lower(s.no, Place(at, 6), breakTo, continueTo, witch)
                   \o LabelAt(Place(at, 5))
            [] s.op = "while" ->
                 LabelAt(Place(at, 1))
                   \o LowerCondition(s.cond, Place(at, 2), Place(at, 3), Place(at, 4))
                   \o LabelAt(Place(at, 3)) \o Lower(s.body, Place(at, 5), Place(at, 4), Place(at, 1), witch)
                   \o Jump(Place(at, 1)) \o LabelAt(Place(at, 4))
            [] s.op = "dowhile" ->
                 LabelAt(Place(at, 3)) \o Lower(s.body, Place(at, 5), Place(at, 4), Place(at, 1), witch)
                   \o LabelAt(Place(at, 1))
                   \o LowerCondition(s.cond, Place(at, 2), Place(at, 3), Place(at, 4))
                   \o LabelAt(Place(at, 4))
            [] s.op = "switch" ->
                 <<[op |-> "switch", block |-> s.block, cases |-> Cases(s.body), path |-> at,
                    over |-> Place(at, 4)]>>
                   \o Lower(s.body, Place(at, 5), Place(at, 4), continueTo, at)
                   \o LabelAt(Place(at, 4))
            [] OTHER -> <<s>>
    IN  FlattenSeq([i \in 1..Len(list) |-> One(list[i], Place(path, i))])

Flat(list) == Lower(list, <<2>>, <<>>, <<>>, <<>>)

Positions(flat, l) == {i \in 1..Len(flat) : flat[i].op = "label" /\ flat[i].label = l}
Executions(flat, b) == {i \in 1..Len(flat) : flat[i].op = "exec" /\ flat[i].block = b}

(***************************************************************************)
(* What is executed next, from position i on, when the last jump taken is  *)
(* that of "block" to its target number "outcome", and "index" selects the *)
(* case of a switch: a block, End at a return or behind the last           *)
(* statement, TestOf(b) when the jump of b is reached without executing b, *)
(* or Nothing when the code is not well formed or turns round for ever.    *)
(***************************************************************************)
End == 0
Nothing == 1000
TestOf(b) == 2000 + b

RECURSIVE NextExecuted(_, _, _, _, _, _)
NextExecuted(flat, i, block, outcome, index, fuel) ==
    LET Go(l) == IF Cardinality(Positions(flat, l)) = 1
                 THEN NextExecuted(flat, CHOOSE p \in Positions(flat, l) : TRUE,
                                   block, outcome, index, fuel - 1)
                 ELSE Nothing
    IN  IF fuel = 0 THEN Nothing
        ELSE IF i > Len(flat) THEN End
        ELSE LET s == flat[i] IN
             CASE s.op = "exec" -> s.block
               [] s.op = "label" -> NextExecuted(flat, i + 1, block, outcome, index, fuel)
               [] s.op = "jump" -> Go(s.label)
               [] s.op = "test" /\ s.block # block -> TestOf(s.block)
               [] s.op = "goto*" -> Go(LabelOf(s.targets[index + 1]))
               [] s.op = "test" /\ s.block = block -> Go(IF outcome = 1 THEN s.yes ELSE s.no)
               [] s.op = "switch" ->
                    Go(IF index \in s.cases THEN CaseLabel(s.path, index)
                       ELSE IF Default \in s.cases THEN CaseLabel(s.path, Default)
                       ELSE s.over)
               [] s.op = "return" -> End
               [] OTHER -> Nothing
=============================================================================
