---------------------------- MODULE TypeAnalyzer ----------------------------
(***************************************************************************)
(* Type reconstruction (types::TypeAnalyzer): the types of a read and of   *)
(* its definitions are one; then every used term and every assignment adds *)
(* what it says about the types of its operands, in rounds, until a round  *)
(* changes no type.  The code does this before it looks for variables;     *)
(* neither analysis reads what the other finds.                            *)
(***************************************************************************)
EXTENDS VariableAnalyzer, Types

LOCAL INSTANCE SequencesExt

CONSTANT FirstAddress   \* no constant below this is an address

VARIABLES
  types,   \* what is known of the types of terms
  rounds   \* how many rounds there have been, which the code does not count

typevars == <<varvars, types, rounds>>

Type(a, t) == FindSet(a, t)
ValueOf(t) == values[t]
Number(t) == values[t].constantValue
SignedNumber(t) == Signed(values[t].constantValue, values[t].size)
Magnitude(t) == IF SignedNumber(t) < 0 THEN -SignedNumber(t) ELSE SignedNumber(t)

When(condition, flag) == IF condition THEN {flag} ELSE {}

-----------------------------------------------------------------------------
\* The rules.  t, l and r are the types of an operator and its operands as
\* they are when the rule begins; they are used on when they have been
\* united with others.

\* The signs of an addition, subtraction or multiplication.
ArithmeticSigns(a, t, l, r) ==
  LET b == Make(a, t, When(Is(a, l, "unsigned") \/ Is(a, r, "unsigned"), "unsigned")
                      \cup When(Is(a, l, "signed") /\ Is(a, r, "signed"), "signed"))
      signed == When(Is(b, t, "signed"), "signed")
      c == Make(Make(b, l, signed), r, signed)
  IN  Make(c, r, When(Is(c, t, "unsigned") /\ (Is(c, l, "signed") \/ Is(c, r, "signed")), "unsigned"))

\* A term that adds a constant to one of its operands: a step or an offset.
AddConstant(a, t, operand, o, constant, sign) ==
  CASE ~IsConstant(values[constant]) -> a
    [] IsConstant(values[constant]) /\ t = o -> UpdateFactor(a, t, Magnitude(constant))
    [] IsConstant(values[constant]) /\ t # o ->
         IF IsStackOffset(values[operand]) THEN a
         ELSE AddTypeOffset(a, o, sign * SignedNumber(constant), t)

PointTo(a, t, l, right) ==
  IF Is(a, l, "pointer") /\ IsMultiplication(values[right]) THEN MakePointer(a, t, Pointee(a, l))
                                                            ELSE a

\* Which operand of a pointer that is a sum is the pointer.
GuessPointer(a, left, l, right, r) ==
  LET Guess(b, o, constant) ==
        Make(b, o, {IF Number(constant) < FirstAddress THEN "integer" ELSE "pointer"})
  IN  CASE IsMultiplication(values[left]) -> Make(a, r, {"pointer"})
        [] ~IsMultiplication(values[left]) /\ IsMultiplication(values[right]) ->
             Make(a, l, {"pointer"})
        [] ~IsMultiplication(values[left]) /\ ~IsMultiplication(values[right]) ->
             IF IsConstant(values[left]) THEN Guess(a, l, left)
             ELSE IF IsConstant(values[right]) THEN Guess(a, r, right) ELSE a

AnalyzeAdd(a, t, left, l, right, r) ==
  LET Either(f, g) == (Is(a, l, f) /\ Is(a, r, g)) \/ (Is(a, l, g) /\ Is(a, r, f))
      sum == Make(a, t, When(Is(a, l, "integer") /\ Is(a, r, "integer"), "integer")
                        \cup When(Either("integer", "pointer"), "pointer"))
      integer == When(Is(sum, t, "integer"), "integer")
      b == Make(Make(sum, l, integer), r, integer)
      c == Make(b, r, When(Is(b, l, "integer"), "pointer"))
      d == Make(c, l, When(Is(c, r, "integer"), "pointer"))
      e == Make(d, r, When(Is(d, l, "pointer"), "integer"))
      f == Make(e, l, When(Is(e, r, "pointer"), "integer"))
      guessed == IF ~Is(f, l, "pointer") /\ ~Is(f, r, "pointer")
                   THEN GuessPointer(f, left, l, right, r) ELSE f
      signs == ArithmeticSigns(IF Is(b, t, "pointer") THEN guessed ELSE b, t, l, r)
      added == AddConstant(AddConstant(signs, t, left, l, right, 1), t, left, r, left, 1)
  IN  PointTo(PointTo(added, t, l, right), t, r, left)

AnalyzeSub(a, t, left, l, right, r) ==
  LET difference == Make(a, t, When(Is(a, l, "integer") /\ Is(a, r, "integer"), "integer")
                               \cup When(Is(a, l, "pointer") /\ Is(a, r, "integer"), "pointer"))
      b == Make(difference, l, When(Is(difference, t, "pointer"), "pointer"))
      c == Make(b, r, When(Is(b, t, "pointer"), "integer"))
      signs == ArithmeticSigns(c, t, l, r)
  IN  PointTo(AddConstant(signs, t, left, l, right, -1), t, l, right)

\* All three are integers and have these signs.
MakeIntegers(a, t, l, r, tsigns, lsigns, rsigns) ==
  Make(Make(Make(a, l, {"integer"} \cup lsigns), r, {"integer"} \cup rsigns),
       t, {"integer"} \cup tsigns)

AnalyzeMul(a, t, left, l, right, r) ==
  LET signs == ArithmeticSigns(MakeIntegers(a, t, l, r, {}, {}, {}), t, l, r)
      Scaled(b, o, constant) ==
        IF IsConstant(values[constant]) THEN UpdateFactor(b, t, b[o].factor * Number(constant)) ELSE b
  IN  Scaled(Scaled(signs, l, right), r, left)

AnalyzeUnsignedDiv(a, t, l, r) ==
  LET b == MakeIntegers(a, t, l, r, {}, {}, {})
      c == Make(b, r, When(Is(b, l, "signed"), "unsigned"))
      d == Make(c, l, When(Is(c, r, "unsigned"), "signed"))
  IN  Make(d, t, {"unsigned"})

AnalyzeSignedDiv(a, t, l, r) == MakeIntegers(a, t, l, r, {"signed"}, {"signed"}, {"signed"})

AnalyzeBitwise(a, t, l, r) == MakeIntegers(a, t, l, r, {"unsigned"}, {"unsigned"}, {"unsigned"})

AnalyzeShl(a, t, l, right, r) ==
  LET b == MakeIntegers(a, t, l, r, {}, {}, {"unsigned"})
      signs == {"signed", "unsigned"}
      c == Make(b, t, b[l].flags \cap signs)
      d == Make(c, l, c[t].flags \cap signs)
  IN  IF IsConstant(values[right]) THEN UpdateFactor(d, t, d[l].factor * 2^Number(right)) ELSE d

AnalyzeSignedLess(a, l, r) == UnionSet(Make(Make(a, l, {"signed"}), r, {"signed"}), l, r)

AnalyzeUnsignedLess(a, l, r) ==
  UnionSet(CASE Is(a, r, "signed") -> Make(a, l, {"unsigned"})
             [] ~Is(a, r, "signed") /\ Is(a, l, "signed") -> Make(a, r, {"unsigned"})
             [] ~Is(a, r, "signed") /\ ~Is(a, l, "signed") ->
                  Make(Make(a, l, {"unsigned"}), r, {"unsigned"}),
           l, r)

AnalyzeBinary(a, term_) ==
  LET left == Operand(term_, 1)
      right == Operand(term_, 2)
      t == Type(a, term_)
      l == Type(a, left)
      r == Type(a, right)
      op == code.terms[term_].op
  IN  CASE op = "ADD" -> AnalyzeAdd(a, t, left, l, right, r)
        [] op = "SUB" -> AnalyzeSub(a, t, left, l, right, r)
        [] op = "MUL" -> AnalyzeMul(a, t, left, l, right, r)
        [] op \in {"SIGNED_DIV", "SIGNED_REM"} -> AnalyzeSignedDiv(a, t, l, r)
        [] op \in {"UNSIGNED_DIV", "UNSIGNED_REM"} -> AnalyzeUnsignedDiv(a, t, l, r)
        [] op \in {"BITWISE_AND", "BITWISE_OR", "BITWISE_XOR"} -> AnalyzeBitwise(a, t, l, r)
        [] op = "SHL" -> AnalyzeShl(a, t, l, right, r)
        [] op = "SHR" -> MakeIntegers(a, t, l, r, {"unsigned"}, {"unsigned"}, {})
        [] op = "SAR" -> MakeIntegers(a, t, l, r, {"signed"}, {"signed"}, {})
        [] op = "EQUAL" -> UnionSet(a, l, r)
        [] op \in {"SIGNED_LESS", "SIGNED_LESS_OR_EQUAL"} -> AnalyzeSignedLess(a, l, r)
        [] op \in {"UNSIGNED_LESS", "UNSIGNED_LESS_OR_EQUAL"} -> AnalyzeUnsignedLess(a, l, r)

AnalyzeUnary(a, term_) ==
  LET t == Type(a, term_)
      o == Type(a, Operand(term_, 1))
      op == code.terms[term_].op
  IN  CASE op \in {"BITWISE_NOT", "LOGICAL_NOT"} -> Make(Make(a, o, {"integer"}), t, {"integer"})
        [] op = "NEGATION" ->
             Make(Make(a, o, {"integer", "signed"}), t, {"integer", "signed"})
        [] op = "SIGN_EXTEND" -> Make(a, o, {"signed"})
        [] op = "ZERO_EXTEND" -> Make(a, t, When(Is(a, o, "signed"), "unsigned"))
        [] op = "RESIZE" -> a

AnalyzeTerm(a, term_) ==
  CASE Kind(term_) = "dereference" ->
         MakePointer(a, Type(a, Operand(term_, 1)), Type(a, term_))
    [] Kind(term_) = "unary" -> AnalyzeUnary(a, term_)
    [] Kind(term_) = "binary" -> AnalyzeBinary(a, term_)
    [] OTHER -> a

AnalyzeAssignment(a, write) == UnionSet(a, write, Assignee(write))

-----------------------------------------------------------------------------
\* The order of the rules: statement after statement, the left side of an
\* assignment first, an operator before its operands (CensusVisitor).

Visited(t) ==
  LET Visit[u \in Terms] ==
        <<u>> \o FlattenSeq([i \in DOMAIN code.terms[u].operands |-> Visit[Operand(u, i)]])
  IN  Visit[t] \o (IF HasAssignee(t) THEN Visit[Assignee(t)] ELSE <<>>)

Ends == Ascending({t \in Terms : IsWrite(t) \/ IsKill(t) \/ IsCondition(t)})
CensusTerms == FlattenSeq([i \in DOMAIN Ends |-> Visited(Ends[i])])
IsUsed(t) == t \in used
HasAssignment(t) == HasAssignee(t)

UnionWithDefinitions(a, read) ==
  LET UnionWith(b, d) == UnionSet(b, read, d)
  IN  FoldLeft(UnionWith, a, Ascending(definitions[read]))

CreateTypes ==
  /\ phase = "analyzed" /\ types = <<>>
  /\ LET created == [t \in Terms |-> NewType(t, code.terms[t].size)]
     IN  types' = FoldLeft(UnionWithDefinitions, created, SelectSeq(CensusTerms, IsRead))
  /\ phase' = "types" /\ rounds' = 0
  /\ UNCHANGED <<code, results, output, context, arguments, block, term, niterations,
                 changed, fixpointReached, used, variables>>

\* A round, and whether it was the last.
AnalyzeTypes ==
  /\ phase = "types"
  /\ LET terms == SelectSeq(CensusTerms, IsUsed)
         assignments == SelectSeq(Ends, HasAssignment)
         b == FoldLeft(AnalyzeTerm, types, terms \o Reverse(terms))
         c == FoldLeft(AnalyzeAssignment, b, assignments \o Reverse(assignments))
     IN  /\ types' = [t \in Terms |-> [c[t] EXCEPT !.changed = FALSE]]
         /\ rounds' = rounds + 1
         /\ phase' = IF \E t \in Terms : c[t].changed THEN "types" ELSE "typed"
  /\ UNCHANGED <<code, results, output, context, arguments, block, term, niterations,
                 changed, fixpointReached, used, variables>>
=============================================================================
