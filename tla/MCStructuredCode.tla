-------------------------- MODULE MCStructuredCode --------------------------
EXTENDS StructuredCode

Return1 == Terminator("return", <<>>, 0)
JumpTo(t) == Terminator("jump", <<t>>, 0)
Cond(yes, no) == Terminator("cond", <<yes, no>>, 0)
Check(below, else, limit) == Terminator("cond", <<below, else>>, limit)
Table(to) == Terminator("table", to, 0)

Pairs(targets) == {t \in targets \X targets : t[1] # t[2]}
Plain(targets) ==
    {Return1} \cup {JumpTo(t) : t \in targets} \cup {Cond(t[1], t[2]) : t \in Pairs(targets)}
Tables(targets) ==
    {Check(t[1], t[2], IF t[1] < t[2] THEN 1 ELSE 2) : t \in Pairs(targets)}
        \cup {Table(t) : t \in targets \X targets}

\* Only one of the functions that differ in the numbers of their blocks: a block has a
\* smaller number than another if a jump to it comes first, and every block has one.
Named(c, t, i, j) ==
    \/ \E k \in 1..i - 1 : \E m \in 1..Len(c[k].to) : c[k].to[m] = t
    \/ \E m \in 1..j - 1 : c[i].to[m] = t
NextInOrder(c) ==
    LET i == Len(c)
    IN  /\ i = 1 \/ Named(c, i, i, 1)
        /\ \A j \in 1..Len(c[i].to) : \A t \in 2..c[i].to[j] - 1 : Named(c, t, i, j)

\* The functions of size blocks that end as the terminators say.
Functions(size, terminators) ==
    LET FirstBlocks[n \in 0..size] ==
            IF n = 0 THEN {<<>>}
            ELSE {c \in {Append(d, t) : d \in FirstBlocks[n - 1], t \in terminators} : NextInOrder(c)}
    IN  FirstBlocks[size]

ChecksHaveTables(c) == \A i \in 1..Len(c) : c[i].limit # 0 => c[c[i].to[1]].kind = "table"
Ending(c, kind) == Cardinality({i \in 1..Len(c) : c[i].kind = kind})

\* The functions of four blocks without jump tables, with one table, or with several
\* tables and one return, and those of five blocks without tables and with one return, or
\* with none and two jumps at the end.  Nothing jumps to their first block, as it does in
\* the last functions: four blocks without tables and with one return.
MCCodes ==
    {c \in Functions(4, Plain(2..4) \cup Tables(2..4)) :
        ChecksHaveTables(c) /\ (Ending(c, "table") > 1 => Ending(c, "return") = 1)}
    \cup {c \in Functions(5, Plain(2..5)) :
            \/ Ending(c, "return") = 1
            \/ Ending(c, "return") = 0 /\ c[4].kind = "jump" /\ c[5].kind = "jump"}
    \cup {c \in Functions(4, Plain(1..4)) : Ending(c, "return") = 1}

\* The smallest functions with jumps to their first block.
MCEntryCodes == Functions(3, Plain(1..3))
=============================================================================
