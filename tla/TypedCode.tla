----------------------------- MODULE TypedCode -----------------------------
(***************************************************************************)
(* From analyzed terms to typed expressions: the types of the generated    *)
(* code (CodeGenerator::makeType), the expressions with their casts        *)
(* (DefinitionGenerator::makeExpression), and what rewriting makes of them *)
(* (Tree::rewriteRoot).  Each statement is then evaluated, as C, for some  *)
(* contents of the variables and of memory.                                *)
(*                                                                         *)
(* A structure is named by the representative of the pointers to it.       *)
(***************************************************************************)
EXTENDS AnalyzedCode, TypeAnalyzer, CMeaning

LOCAL INSTANCE SequencesExt

CONSTANTS
  Numbers,    \* values of variables
  Contents    \* contents of memory

VARIABLES
  structs,     \* the members of the structures
  declared,    \* the term whose type a global variable was declared with
  inverted,    \* are jumps taken when their conditions do not hold?
  generated,   \* the expressions of the statements, as generated
  rewritten    \* and as printed

codevars == <<structs, declared, inverted, generated, rewritten>>
allvars == <<vars, types, rounds, codevars>>

-----------------------------------------------------------------------------
\* Types.

\* The offsets of the fields of what t points to.
FieldOffsets(t) ==
  {o \in DOMAIN types[t].offsets :
     /\ o >= 0 /\ Pointee(types, Type(types, types[t].offsets[o])) # 0
     /\ \A p \in DOMAIN types[t].offsets : p \in 1 .. o => Type(types, types[t].offsets[p]) # t}

IsStructural(t) == \E o \in FieldOffsets(t) : o > 0

Extended(members, type) == Append(members, [offset |-> StructSize(members), type |-> type])

Padded(members, offset) ==
  LET gap == offset - StructSize(members) \div CHAR_BIT
  IN  IF gap > 0 THEN Extended(members, ArrayType(gap)) ELSE members

RECURSIVE MakeType(_, _, _), MakeStructuralType(_, _, _)

\* The type for the set t stands for, when these structures are there, and
\* the structures there are then.  The types on the stack are being made.
MakeType(made, t, stack) ==
  LET traits == types[t]
      PointerTo(type, known) == [type |-> PointerType(traits.size, type), made |-> known]
      below == MakeType(made, Pointee(types, t), stack \cup {t})
  IN  IF t = 0 THEN [type |-> VoidType, made |-> made]
      ELSE IF "pointer" \notin traits.flags
        THEN [type |-> IntegerType(traits.size, "unsigned" \in traits.flags), made |-> made]
      ELSE IF t \in stack THEN PointerTo(VoidType, made)
      ELSE IF IsStructural(t) THEN PointerTo(StructType(t), MakeStructuralType(made, t, stack))
      ELSE PointerTo(below.type, below.made)

MakeStructuralType(made, t, stack) ==
  LET AddField(known, o) ==
        LET padded == [known EXCEPT ![t] = Padded(@, o)]
            field == MakeType(padded, Pointee(types, Type(types, types[t].offsets[o])), stack)
        IN  [field.made EXCEPT ![t] = Extended(@, field.type)]
  IN  IF t \in DOMAIN made THEN made
      ELSE FoldLeft(AddField, made @@ (t :> <<>>), Ascending(FieldOffsets(t)))

\* The type of a term, once all structures are made.
TypeFor(t) == MakeType(structs, Type(types, t), {}).type

-----------------------------------------------------------------------------
\* Expressions.

SizeOfType(t) == types[Type(types, t)].size
IsUnsigned(t) == "unsigned" \in types[Type(types, t)].flags

MakeLiteral(t, value) ==
  Typecast(TypeFor(t), ConstantNode(value, code.terms[t].size,
                                    IntegerType(SizeOfType(t), IsUnsigned(t))))

NodeOperator ==
  [ADD |-> "ADD", SUB |-> "SUB", MUL |-> "MUL", SIGNED_DIV |-> "DIV", UNSIGNED_DIV |-> "DIV",
   SIGNED_REM |-> "REM", UNSIGNED_REM |-> "REM", BITWISE_AND |-> "BITWISE_AND",
   BITWISE_OR |-> "BITWISE_OR", BITWISE_XOR |-> "BITWISE_XOR", SHL |-> "SHL", SHR |-> "SHR",
   SAR |-> "SHR", EQUAL |-> "EQ", SIGNED_LESS |-> "LT", UNSIGNED_LESS |-> "LT",
   SIGNED_LESS_OR_EQUAL |-> "LEQ", UNSIGNED_LESS_OR_EQUAL |-> "LEQ"]

OfSigned == {"SIGNED_DIV", "SIGNED_REM", "SIGNED_LESS", "SIGNED_LESS_OR_EQUAL"}
OfUnsigned == {"UNSIGNED_DIV", "UNSIGNED_REM", "UNSIGNED_LESS", "UNSIGNED_LESS_OR_EQUAL"}

\* Is an operand, with the type of this term, made unsigned?
IsMadeUnsigned(op, t) == IF op \in OfSigned \cup OfUnsigned THEN op \in OfUnsigned ELSE IsUnsigned(t)

LocationVariable(t) ==
  IF IsLocal(t) THEN VariableNode(<<"local", variables[t]>>, TypeFor(t))
                ELSE VariableNode(<<"global", locations[t]>>, TypeFor(declared[locations[t]]))

MakeUnary(op, t, operand, e) ==
  LET size == code.terms[t].size
      from == code.terms[operand].size
  IN  CASE op \in {"BITWISE_NOT", "LOGICAL_NOT", "NEGATION"} ->
             UnaryNode(op, Typecast(IntegerType(SizeOfType(operand), IsUnsigned(operand)), e))
        [] op = "SIGN_EXTEND" -> Typecast(IntegerType(size, FALSE), Typecast(IntegerType(from, FALSE), e))
        [] op = "ZERO_EXTEND" -> Typecast(IntegerType(size, TRUE), Typecast(IntegerType(from, TRUE), e))
        [] op = "RESIZE" -> Typecast(TypeFor(t), e)

\* Mutant: the operands of a comparison are compared as they are declared.
MakeBinaryAsDeclared(op, left, l, right, r) ==
  LET Cast(t, e) == Typecast(IntegerType(SizeOfType(t), IsUnsigned(t)), e)
  IN  IF op = "EQUAL" THEN BinaryNode("EQ", l, r)
      ELSE BinaryNode(NodeOperator[op], Cast(left, l), Cast(right, r))

\* left and right are the operands, l and r their expressions.
MakeBinary(op, left, l, right, r) ==
  LET Cast(t, isUnsigned, e) == Typecast(IntegerType(SizeOfType(t), isUnsigned), e)
      unsigned == CASE op = "SAR" -> FALSE
                    [] op = "SHR" -> TRUE
                    [] OTHER -> IsMadeUnsigned(op, left)
  IN  IF op = "EQUAL" THEN BinaryNode("EQ", l, r)
      ELSE BinaryNode(NodeOperator[op], Cast(left, unsigned, l), Cast(right, IsMadeUnsigned(op, right), r))

MakeExpression[t \in Terms] ==
  IF IsRead(t) /\ IsConstant(values[t]) THEN MakeLiteral(t, values[t].constantValue)
  ELSE
  CASE Kind(t) = "const"  -> MakeLiteral(t, code.terms[t].value)
    [] Kind(t) = "unary"  ->
         MakeUnary(code.terms[t].op, t, Operand(t, 1), MakeExpression[Operand(t, 1)])
    [] Kind(t) = "binary" ->
         MakeBinary(code.terms[t].op, Operand(t, 1), MakeExpression[Operand(t, 1)],
                                      Operand(t, 2), MakeExpression[Operand(t, 2)])
    [] Kind(t) = "choice" -> MakeExpression[ChosenOperand(t)]
    [] Denotes(t) ->
         CASE locations[t] = Nowhere ->
                UnaryNode("DEREFERENCE",
                          Typecast(PointerType(SizeOfType(AddressOperand(t)), TypeFor(t)),
                                   MakeExpression[AddressOperand(t)]))
           [] locations[t] # Nowhere /\ IsLocal(t) /\ IsIntermediate(t) ->
                MakeExpression[Assignee(Definition(t))]
           [] locations[t] # Nowhere /\ ~(IsLocal(t) /\ IsIntermediate(t)) -> LocationVariable(t)

PrintedStatements ==
  {t \in Terms : IsCondition(t) \/ (IsWrite(t) /\ IsPrinted(t) /\ ~IsEntryTerm(t))}

\* The expression of an assignment, or of the condition of a jump.
MakeStatement(t, inverse) ==
  CASE IsWrite(t) ->
         BinaryNode("ASSIGN", MakeExpression[t], Typecast(TypeFor(t), MakeExpression[Assignee(t)]))
    [] IsCondition(t) /\ inverse -> UnaryNode("LOGICAL_NOT", MakeExpression[t])
    [] IsCondition(t) /\ ~inverse -> MakeExpression[t]

-----------------------------------------------------------------------------
\* Actions.

Analyses ==
  \/ Analyze /\ UNCHANGED <<used, variables, runvars, types, rounds, codevars>>
  \/ ComputeUsage /\ UNCHANGED <<variables, runvars, types, rounds, codevars>>
  \/ AnalyzeVariables /\ UNCHANGED <<runvars, types, rounds, codevars>>
  \/ CreateTypes /\ UNCHANGED <<variables, runvars, codevars>>
  \/ AnalyzeTypes /\ UNCHANGED <<variables, runvars, codevars>>

Globals == {locations[t] : t \in {u \in Terms : Denotes(u) /\ locations[u] # Nowhere /\ ~IsLocal(u)}}
PointerTraits == {t \in Terms : types[t].parent = t /\ "pointer" \in types[t].flags}

\* Which type is made first depends on the order of the statements, and on
\* the order in which the arguments of calls are evaluated: any may be.
\* The same goes for the term a global variable is declared for.
MakeTypes ==
  /\ phase = "typed"
  /\ \E order \in SetToSeqs(PointerTraits) :
       structs' = FoldLeft(LAMBDA made, t : MakeType(made, t, {}).made, <<>>, order)
  /\ declared' \in [Globals -> Terms]
  /\ \A l \in Globals : locations[declared'[l]] = l
  /\ phase' = "declared"
  /\ UNCHANGED <<code, results, output, context, arguments, block, term, niterations, changed,
                 fixpointReached, used, variables, types, rounds, runvars, inverted, generated, rewritten>>

\* Where the code after a jump is what it jumps to, the jump is taken when
\* the condition does not hold.
Generate ==
  /\ phase = "declared"
  /\ \E inverse \in BOOLEAN :
       /\ inverted' = inverse
       /\ generated' = [t \in PrintedStatements |-> MakeStatement(t, inverse)]
  /\ phase' = "generated"
  /\ UNCHANGED <<code, results, output, context, arguments, block, term, niterations, changed,
                 fixpointReached, used, variables, types, rounds, runvars, structs, declared, rewritten>>

RewriteRoot ==
  /\ phase = "generated"
  /\ rewritten' = [t \in PrintedStatements |-> Rewritten(structs, generated[t])]
  /\ phase' = "rewritten"
  /\ UNCHANGED <<code, results, output, context, arguments, block, term, niterations, changed,
                 fixpointReached, used, variables, types, rounds, runvars, structs, declared, inverted,
                 generated>>

LocalsIn(e) == {n.name[2] : n \in {m \in Nodes(e) : m.kind = "variable" /\ m.name[1] = "local"}}

\* Some statement is run, with some values of its variables.
Evaluate ==
  /\ phase = "rewritten" /\ pc = 0
  /\ \E t \in PrintedStatements, contents \in Contents :
       /\ pc' = t
       /\ machine' = [machine EXCEPT !.memory = contents]
       /\ \E s \in [LocalsIn(generated[t]) -> Numbers] :
            /\ \A v \in DOMAIN s : s[v] < 2^code.terms[v].size
            /\ store' = [v \in Terms |-> IF v \in DOMAIN s THEN s[v] ELSE 0]
  /\ UNCHANGED <<varvars, types, rounds, clean, codevars>>

Evaluated == pc > 0 /\ UNCHANGED allvars

TypedInit ==
  /\ Init /\ types = <<>> /\ rounds = 0
  /\ structs = <<>> /\ declared = <<>> /\ inverted = FALSE /\ generated = <<>> /\ rewritten = <<>>

TypedNext == Analyses \/ MakeTypes \/ Generate \/ RewriteRoot \/ Evaluate \/ Evaluated

TypedSpec == TypedInit /\ [][TypedNext]_allvars

-----------------------------------------------------------------------------
\* Properties.

Environment == [store |-> store, machine |-> machine, structs |-> structs]

\* What the intermediate representation says of the statement.
Intended(t) ==
  LET place == IF IsLocal(t) THEN [kind |-> "local", name |-> variables[t]]
               ELSE [kind |-> "memory",
                     address |-> IF locations[t] = Nowhere THEN Printed[AddressOperand(t)]
                                                           ELSE ByteOf(locations[t])]
  IN  IF IsCondition(t) THEN Truth((Printed[t] = 0) = inverted)
      ELSE [place |-> place, size |-> code.terms[t].size, bits |-> Printed[Assignee(t)]]

\* What C says of an expression that stands for the statement.
Said(t, e) == IF IsCondition(t) THEN Truth(Meaning(Environment, e).v # 0) ELSE Effect(Environment, e)

\* Every variable has its type: what is known of a type speaks of terms, a type
\* is no wider than its term, structures belong to terms, and what is printed is
\* what was generated.
TypedTypeOK ==
  /\ Results /\ Storage
  /\ types # <<>> => \A t \in Terms :
       /\ types[t].parent \in Terms /\ types[t].rank < Cardinality(Terms)
       /\ types[t].size \in 1 .. code.terms[t].size /\ types[t].flags \subseteq Flags
       /\ types[t].pointee \in Terms \cup {0} /\ types[t].factor \in 0 .. FactorLimit - 1
       /\ \A o \in DOMAIN types[t].offsets : types[t].offsets[o] \in Terms
  /\ DOMAIN structs \subseteq Terms
  /\ DOMAIN generated \in {{}, PrintedStatements} /\ DOMAIN rewritten \in {{}, DOMAIN generated}

\* Nothing is forgotten of the types: what was the type of two terms still
\* is, sizes and steps are not refuted, and no trait is taken back.
NothingForgotten ==
  \A t \in Terms :
    LET old == types[Type(types, t)]
        new == types'[Type(types', t)]
    IN  /\ new.size <= old.size /\ old.flags \subseteq new.flags
        /\ old.factor # 0 => new.factor # 0 /\ old.factor % new.factor = 0
        /\ old.pointee # 0 => Type(types', old.pointee) = Pointee(types', Type(types', t))
        /\ \A u \in Terms : Type(types, t) = Type(types, u) => Type(types', t) = Type(types', u)

\* No round but the last leaves everything as it was, and none forgets
\* anything, so that there is a last one (the loop of TypeAnalyzer::analyze
\* has no other bound).
EveryRoundLearns ==
  [][AnalyzeTypes => NothingForgotten /\ (phase' = "types" => types' # types)]_allvars

\* C takes the operands for signed where the tree takes them for unsigned,
\* or the other way round: in C, a number that is printed in decimal is
\* signed, one that is printed in hexadecimal may be unsigned, and operands
\* narrower than int become signed.
IsTakenOtherwise(e) ==
  /\ e.kind = "binary" /\ e.op \in {"DIV", "REM", "SHR"} \cup Equalities \cup Orders
  /\ LET l == Meaning(Environment, e.left)
         r == Meaning(Environment, e.right)
     IN  /\ IsArithmetic(l) /\ IsArithmetic(r)
         /\ CommonType(Promoted(l).type, Promoted(r).type)
              # UsualArithmeticConversion(TypeOf(e.left), TypeOf(e.right))

\* The tree takes the negation of a number for as narrow as the number.
IsTakenNarrow(e) == IsUnary(e, "NEGATION") /\ TypeOf(e).size < IntSize

\* The terms an expression is made of, those behind its intermediate variables included.
PartsOf[t \in Terms] ==
  {t} \cup UNION {PartsOf[Operand(t, i)] : i \in DOMAIN code.terms[t].operands}
      \cup (IF HasAssignee(t) THEN PartsOf[Assignee(t)] ELSE {})
      \cup (IF IsRead(t) /\ IsLocal(t) /\ IsIntermediate(t) THEN PartsOf[Assignee(Definition(t))] ELSE {})

\* The term has the type of a term of smaller size, like that of a byte which
\* is loaded from the same address as the word.
IsNarrowed(t) == SizeOfType(t) < code.terms[t].size

\* Is an expression computed in int from operands narrower than int?
IsWidened(e) ==
  /\ e.kind \in {"unary", "binary"} /\ ~IsUnary(e, "DEREFERENCE")
  /\ \A o \in (IF e.kind = "unary" THEN {e.operand} ELSE {e.left, e.right}) : Meaning(Environment, o).type.size < IntSize

\* Equalities are the only comparisons without casts, which would bring such
\* operands back to their size.
IsComparedWide(e) ==
  e.kind = "binary" /\ e.op \in Equalities /\ (IsWidened(e.left) \/ IsWidened(e.right))

\* The casts make C compute what the intermediate representation says.
CastsKeepValues ==
  pc > 0 =>
    \/ Said(pc, generated[pc]) = Intended(pc)
    \/ \E t \in PartsOf[pc] : IsNarrowed(t)
    \/ \E e \in Nodes(generated[pc]) : IsComparedWide(e)

\* Rewriting changes no value.
RewritingKeepsValues ==
  pc > 0 =>
    \/ Said(pc, rewritten[pc]) = Said(pc, generated[pc])
    \/ \E e \in Nodes(rewritten[pc]) : IsTakenOtherwise(e) \/ IsTakenNarrow(e)
=============================================================================
