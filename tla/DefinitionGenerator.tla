------------------------- MODULE DefinitionGenerator -------------------------
(***************************************************************************)
(* nc::core::ir::cgen::DefinitionGenerator, as far as control goes: the    *)
(* statements made from the regions of a function (DefinitionGenerator.cpp *)
(* up to the generation of expressions from terms, SwitchContext.h).       *)
(*                                                                         *)
(* The statements of a block but its jump are one "exec"; which of them    *)
(* are worth printing is not modelled.  The result is a statement list of  *)
(* LikeC.  A failed assertion is the statement "abort".                    *)
(*                                                                         *)
(* Where the code passes nextBB, breakBB and continueBB, a context is      *)
(* passed; where it passes a SwitchContext, its cases and default block    *)
(* are.  0 is NULL.                                                        *)
(***************************************************************************)
EXTENDS RegionGraph, LikeC

LOCAL INSTANCE SequencesExt
LOCAL INSTANCE TLC

Context(next, break, continue) == [next |-> next, break |-> break, continue |-> continue]
Before(c, next) == [c EXCEPT !.next = next]

SwitchContext(cases, default) == [cases |-> cases, default |-> default]
NoSwitch == SwitchContext(<<>>, 0)

Abort == <<[op |-> "abort"]>>
Exec(b) == <<[op |-> "exec", block |-> b]>>
If(cond, yes, no) == <<[op |-> "if", cond |-> cond, yes |-> yes, no |-> no]>>
While(cond, body) == <<[op |-> "while", cond |-> cond, body |-> body]>>
DoWhile(body, cond) == <<[op |-> "dowhile", cond |-> cond, body |-> body]>>
Test(b, exec, negated) == [op |-> "test", block |-> b, exec |-> exec, negated |-> negated]
CaseLabels(values) == [i \in 1..Len(values) |-> [op |-> "case", value |-> values[i]]]

AddLabelsWithoutDefault(b, sw) ==
    <<[op |-> "label", block |-> b]>> \o (IF b \in DOMAIN sw.cases THEN CaseLabels(sw.cases[b]) ELSE <<>>)

\* The label of a block, with the case labels that lead to it.
AddLabels(b, sw) ==
    <<[op |-> "label", block |-> b]>>
        \o (IF b = sw.default THEN <<[op |-> "default"]>>
            ELSE IF b \in DOMAIN sw.cases THEN CaseLabels(sw.cases[b]) ELSE <<>>)

\* makeJump(): nothing if control goes there anyway.
MakeJump(target, c) ==
    IF target = c.next THEN <<>>
    ELSE IF target = c.break THEN <<[op |-> "break"]>>
    ELSE IF target = c.continue THEN <<[op |-> "continue"]>>
    ELSE <<[op |-> "goto", block |-> target]>>

\* What doMakeStatement() makes of the last statement of a block.
MakeTerminator(code, b, c) ==
    LET t == code[b] IN
    CASE t.kind = "return" -> <<[op |-> "return"]>>
      [] t.kind = "jump" -> MakeJump(t.to[1], c)
      [] t.kind \in {"table", "opaque"} -> <<[op |-> "goto*", targets |-> t.to]>>
      [] t.kind = "cond" ->
            LET yes == MakeJump(t.to[1], c)
                no == MakeJump(t.to[2], c)
            IN  IF yes # <<>> THEN If(Test(b, FALSE, FALSE), yes, no)
                ELSE IF no # <<>> THEN If(Test(b, FALSE, TRUE), no, <<>>)
                ELSE <<>>

(***************************************************************************)
(* makeExpression(node, block, thenBB, elseBB): the statements it adds to  *)
(* the block, if there is one, and the condition.                          *)
(***************************************************************************)
Condition(before, cond) == [before |-> before, cond |-> cond]
Failure == Condition(Abort, [op |-> "abort"])

RECURSIVE LastBlock(_, _)
LastBlock(g, n) == IF Kind(g, n) = "block" THEN n ELSE LastBlock(g, Members(g, n)[2])

RECURSIVE MakeCondition(_, _, _, _, _, _, _)
MakeCondition(code, g, n, inBlock, then, else, sw) ==
    IF ~IsCondition(code, g, n) THEN Failure
    ELSE IF Kind(g, n) = "block"
    THEN IF {code[n].to[1], code[n].to[2]} = {then, else}
         THEN Condition(IF inBlock THEN AddLabels(n, sw) \o Exec(n) ELSE <<>>,
                        Test(n, ~inBlock, code[n].to[1] # then))
         ELSE Failure
    ELSE LET a == Members(g, n)[1]
             b == Members(g, n)[2]
             middle == EntryBlock(g, b)
             ends == {code[LastBlock(g, a)].to[i] : i \in 1..2}
             Pair(op, left, right) ==
                Condition(left.before \o right.before, [op |-> op, left |-> left.cond, right |-> right.cond])
         IN  IF then \in ends
             THEN Pair("or", MakeCondition(code, g, a, inBlock, then, middle, sw),
                             MakeCondition(code, g, b, FALSE, then, else, sw))
             ELSE IF else \in ends
             THEN Pair("and", MakeCondition(code, g, a, inBlock, middle, else, sw),
                              MakeCondition(code, g, b, FALSE, then, else, sw))
             ELSE Failure

-----------------------------------------------------------------------------
\* The blocks whose label a list contains, inside the switch it belongs to.
RECURSIVE Labelled(_)
Labelled(list) ==
    UNION {LET s == list[i] IN
           CASE s.op = "label" -> {s.block}
             [] s.op = "if" -> Labelled(s.yes) \cup Labelled(s.no)
             [] s.op \in {"while", "dowhile"} -> Labelled(s.body)
             [] OTHER -> {} : i \in 1..Len(list)}

Without(nodes, removed) == SelectSeq(nodes, LAMBDA n : n \notin removed)

RECURSIVE MakeStatements(_, _, _, _, _), MakeSequence(_, _, _, _, _)

MakeSequence(code, g, nodes, c, sw) ==
    FlattenSeq([i \in 1..Len(nodes) |->
        MakeStatements(code, g, nodes[i],
            IF i = Len(nodes) THEN c ELSE Before(c, EntryBlock(g, nodes[i + 1])), sw)])

MakeIf(code, g, n, else, elseStatements, c, sw) ==
    LET nodes == Members(g, n)
        head == MakeCondition(code, g, nodes[1], TRUE, EntryBlock(g, nodes[2]), else, sw)
    IN  head.before \o If(head.cond, MakeStatements(code, g, nodes[2], c, sw), elseStatements)

MakeLoop(code, g, n, c, sw) ==
    LET entry == EntryBlock(g, n)
    IN  While([op |-> "true"],
              MakeSequence(code, g, Dfs(g, n).pre, Context(entry, c.next, entry), sw))

MakeWhile(code, g, n, c, sw) ==
    LET entry == Entry(g, n)
        exit == g.node[n].exit
        condition == EntryBlock(g, n)
        bodyEntry == UniqueSuccessor(g, entry)
        head == MakeCondition(code, g, entry, FALSE,
                    IF bodyEntry # 0 THEN EntryBlock(g, bodyEntry) ELSE condition, exit, sw)
        body == MakeSequence(code, g, Tail(Dfs(g, n).pre), Context(condition, exit, condition), sw)
    IN  AddLabels(condition, sw) \o head.before \o While(head.cond, body) \o MakeJump(exit, c)

MakeDoWhile(code, g, n, c, sw) ==
    LET last == g.node[n].condition
        exit == g.node[n].exit
        condition == EntryBlock(g, last)
        body == MakeSequence(code, g, Without(Dfs(g, n).pre, {last}),
                             Context(condition, c.next, condition), sw)
        end == MakeCondition(code, g, last, TRUE, EntryBlock(g, n), exit, sw)
    IN  DoWhile(body \o end.before, end.cond) \o MakeJump(exit, c)

MakeSwitch(code, g, n, c, sw) ==
    LET w == g.node[n]
        targets == code[w.witch].to
        ButLast(b) == AddLabels(b, sw) \o Exec(b)
        cases == [b \in {targets[i] : i \in 1..w.size} |->
                    SelectSeq([i \in 1..w.size |-> i - 1], LAMBDA v : targets[v + 1] = b)]
        exit == IF w.exit # 0 THEN w.exit ELSE c.next
        body == MakeSequence(code, g, Without(Dfs(g, n).pre, {w.check, w.witch}),
                             Context(exit, exit, c.continue), SwitchContext(cases, w.default))
        \* Case labels that no block has taken, each followed by a goto to an address.
        rest == SetToSeq(DOMAIN cases \ Labelled(body))
    IN  (IF w.check # 0 THEN ButLast(w.check) ELSE <<>>) \o ButLast(w.witch)
        \o <<[op |-> "switch", block |-> w.witch,
              body |-> body \o FlattenSeq([i \in 1..Len(rest) |->
                            CaseLabels(cases[rest[i]]) \o <<[op |-> "goto", block |-> rest[i]]>>])]>>
        \o MakeJump(exit, c)

MakeStatements(code, g, n, c, sw) ==
    LET kind == Kind(g, n)
        nodes == Members(g, n)
    IN  CASE kind = "block" -> AddLabels(n, sw) \o Exec(n) \o MakeTerminator(code, n, c)
          [] kind = "UNKNOWN" -> MakeSequence(code, g, Dfs(g, n).pre, c, sw)
          [] kind \in {"BLOCK", "COMPOUND_CONDITION"} -> MakeSequence(code, g, nodes, c, sw)
          [] kind = "IF_THEN_ELSE" ->
                MakeIf(code, g, n, EntryBlock(g, nodes[3]), MakeStatements(code, g, nodes[3], c, sw), c, sw)
          [] kind = "IF_THEN" -> MakeIf(code, g, n, g.node[n].exit, <<>>, c, sw)
          [] kind = "LOOP" -> MakeLoop(code, g, n, c, sw)
          [] kind = "WHILE" -> MakeWhile(code, g, n, c, sw)
          [] kind = "DO_WHILE" -> MakeDoWhile(code, g, n, c, sw)
          [] kind = "SWITCH" -> MakeSwitch(code, g, n, c, sw)

\* createDefinition()
CreateDefinition(code, g) == MakeStatements(code, g, Len(code) + 1, Context(0, 0, 0), NoSwitch)
=============================================================================
