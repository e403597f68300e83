------------------------ MODULE MCUniversalAnalyzer ------------------------
(***************************************************************************)
(* All codes of up to Size instructions of one or two bytes within Size    *)
(* bytes, overlapping or not, with targets inside and just outside.        *)
(***************************************************************************)
EXTENDS UniversalAnalyzer

CONSTANT Size

Plain(kind) == [kind : {kind}, targets : {<<>>}]
To(kind) == [kind : {kind}, targets : {<<t>> : t \in 0..Size}]
Shapes == Plain("plain") \cup Plain("skip") \cup Plain("return") \cup Plain("invalid") \cup Plain("failing")
            \cup To("jump") \cup To("branch") \cup To("call")
            \cup {[kind |-> "switch", targets |-> <<0, Size - 1>>]}

At(a) == {[address |-> a, size |-> n, kind |-> x.kind, targets |-> x.targets] :
            n \in 1..2, x \in Shapes}

\* One instruction or none at every address.
RECURSIVE CodesBelow(_)
CodesBelow(n) ==
    IF n = 0 THEN {{}}
    ELSE {c \cup i : c \in CodesBelow(n - 1), i \in {{}} \cup {{x} : x \in At(n - 1)}}
MCCodes == CodesBelow(Size)
=============================================================================
