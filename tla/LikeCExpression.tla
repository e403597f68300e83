-------------------------- MODULE LikeCExpression --------------------------
(***************************************************************************)
(* Expressions of the generated code (likec::Expression and what derives   *)
(* from it): nodes, their types, and how each kind of node rewrites itself *)
(* into a simpler one.                                                     *)
(*                                                                         *)
(* A type is a record; the code keeps one object for each type, so that    *)
(* types are the same when the records are.  A structure is named by its   *)
(* number; structs[i] is the sequence of its members, which are its fields *)
(* and the padding between them.                                           *)
(***************************************************************************)
EXTENDS Value, ReachingDefinitions, Sequences

CONSTANTS
  IntSize,       \* Tree::intSize()
  PointerSize    \* Tree::pointerSize()

-----------------------------------------------------------------------------
\* Types.

IntegerType(size, isUnsigned) == [kind |-> "integer", size |-> size, unsigned |-> isUnsigned]
PointerType(size, pointee) == [kind |-> "pointer", size |-> size, pointee |-> pointee]
ArrayType(length) ==
  [kind |-> "array", size |-> PointerSize, pointee |-> IntegerType(CHAR_BIT, FALSE), length |-> length]
StructType(i) == [kind |-> "struct", struct |-> i]
VoidType == [kind |-> "void", size |-> 0]
ErroneousType == [kind |-> "erroneous", size |-> -1]
IntType == IntegerType(IntSize, FALSE)

IsInteger(type) == type.kind = "integer"
IsPointer(type) == type.kind \in {"pointer", "array"}
IsScalar(type) == IsInteger(type) \/ IsPointer(type)
IsVoidPointer(type) == IsPointer(type) /\ type.pointee.kind = "void"
IsStructurePointer(type) == IsPointer(type) /\ type.pointee.kind = "struct"

\* sizeof in bits, of all but structures.
SizeOf(type) == IF type.kind = "array" THEN type.pointee.size * type.length ELSE type.size

\* Members are [offset, type].  Nothing follows the last.
StructSize(members) ==
  IF members = <<>> THEN 0
  ELSE LET last == members[Len(members)] IN last.offset + SizeOf(last.type)

\* Type::size() of what a pointer points to.
PointeeSize(structs, type) ==
  IF IsStructurePointer(type) THEN StructSize(structs[type.pointee.struct]) ELSE type.pointee.size

\* StructType::getMember, as a set: empty if there is none.
MembersAt(members, offset) == {m \in {members[i] : i \in DOMAIN members} : m.offset = offset}

IntegerPromotion(type) ==
  IF IsInteger(type) /\ type.size < IntSize THEN IntegerType(IntSize, type.unsigned) ELSE type

UsualArithmeticConversion(l, r) ==
  LET left == IntegerPromotion(l)
      right == IntegerPromotion(r)
  IN  CASE left.size < right.size -> right
        [] left.size > right.size -> left
        [] left.size = right.size -> IntegerType(left.size, left.unsigned \/ right.unsigned)

-----------------------------------------------------------------------------
\* Nodes.

VariableNode(name, type) == [kind |-> "variable", name |-> name, type |-> type]
ConstantNode(value, size, type) ==
  [kind |-> "constant", value |-> value, size |-> size, type |-> type]
Typecast(type, e) == [kind |-> "typecast", type |-> type, operand |-> e]
UnaryNode(op, e) == [kind |-> "unary", op |-> op, operand |-> e]
BinaryNode(op, l, r) == [kind |-> "binary", op |-> op, left |-> l, right |-> r]
Arrow(e, m) == [kind |-> "member", compound |-> e, member |-> m]

IsTypecast(e) == e.kind = "typecast"
IsUnary(e, op) == e.kind = "unary" /\ e.op = op
IsZeroConstant(e) == e.kind = "constant" /\ e.value = 0

Additive == {"ADD", "SUB"}
Multiplicative == {"MUL", "DIV", "REM"}
BitwiseOperators == {"BITWISE_AND", "BITWISE_OR", "BITWISE_XOR"}
Equalities == {"EQ", "NEQ"}
Orders == {"LT", "LEQ", "GT", "GEQ"}

\* BinaryOperator::getType(leftType, rightType)
BinaryType(e, l, r) ==
  LET integers == IsInteger(l) /\ IsInteger(r)
      Object(type) == IsPointer(type) /\ ~IsVoidPointer(type)
      comparable == \/ l = r \/ integers
                    \/ IsPointer(l) /\ (IsVoidPointer(r) \/ (e.op \in Equalities /\ IsZeroConstant(e.right)))
                    \/ IsPointer(r) /\ (IsVoidPointer(l) \/ (e.op \in Equalities /\ IsZeroConstant(e.left)))
  IN  CASE e.op \in Additive \cup Multiplicative \cup BitwiseOperators /\ integers ->
             UsualArithmeticConversion(l, r)
        [] e.op \in Additive /\ Object(l) /\ IsInteger(r) -> l
        [] e.op = "ADD" /\ IsInteger(l) /\ Object(r) -> r
        [] e.op = "SUB" /\ Object(l) /\ l = r -> IntegerType(PointerSize, FALSE)
        [] e.op \in {"SHL", "SHR"} /\ integers -> IntegerPromotion(l)
        [] e.op \in Equalities \cup Orders /\ comparable -> IntType
        [] OTHER -> ErroneousType

UnaryType(op, type) ==
  CASE op = "REFERENCE" -> PointerType(PointerSize, type)
    [] op = "DEREFERENCE" /\ IsPointer(type) -> type.pointee
    [] op = "BITWISE_NOT" /\ IsInteger(type) -> IntegerPromotion(type)
    [] op = "LOGICAL_NOT" /\ IsScalar(type) -> IntType
    [] op = "NEGATION" /\ IsInteger(type) -> type
    [] op \in {"PREFIX_INCREMENT", "PREFIX_DECREMENT"} /\ IsScalar(type) -> type
    [] OTHER -> ErroneousType

\* Expression::getType
RECURSIVE TypeOf(_)
TypeOf(e) ==
  CASE e.kind \in {"variable", "constant", "typecast"} -> e.type
    [] e.kind = "member" -> e.member.type
    [] e.kind = "unary" -> UnaryType(e.op, TypeOf(e.operand))
    [] e.kind = "binary" -> BinaryType(e, TypeOf(e.left), TypeOf(e.right))

\* visitChildNodes: an expression and all it is made of.
RECURSIVE Nodes(_)
Nodes(e) ==
  {e} \cup CASE e.kind \in {"variable", "constant"} -> {}
             [] e.kind = "member" -> Nodes(e.compound)
             [] e.kind \in {"typecast", "unary"} -> Nodes(e.operand)
             [] e.kind = "binary" -> Nodes(e.left) \cup Nodes(e.right)

-----------------------------------------------------------------------------
\* Rewriting.  A node rewrites its children, then returns itself or another
\* node; who owns it lets the other node rewrite itself in turn.

Itself(e) == [node |-> e, same |-> TRUE]
Another(e) == [node |-> e, same |-> FALSE]

\* A pointer to a structure is one to its first member.
ToFirstMember(structs, e) ==
  LET source == TypeOf(e.operand)
  IN  IF IsPointer(e.type) /\ ~IsStructurePointer(e.type) /\ IsStructurePointer(source)
           /\ MembersAt(structs[source.pointee.struct], 0) # {}
        THEN LET m == CHOOSE m \in MembersAt(structs[source.pointee.struct], 0) : TRUE
             IN  Typecast(e.type, UnaryNode("REFERENCE", Arrow(e.operand, m)))
        ELSE e

\* (int32_t*)(int64_t)expr is (int32_t*)expr.
WithoutInnerCast(e) ==
  IF IsScalar(e.type) /\ IsTypecast(e.operand)
       /\ IsScalar(e.operand.type) /\ IsScalar(TypeOf(e.operand.operand))
       /\ e.type.size = e.operand.type.size
       /\ e.operand.type.size = TypeOf(e.operand.operand).size
    THEN Typecast(e.type, e.operand.operand) ELSE e

RewriteTypecast(structs, e) ==
  LET cast == WithoutInnerCast(ToFirstMember(structs, e))
  IN  IF cast.type = TypeOf(cast.operand) THEN Another(cast.operand) ELSE Itself(cast)

Opposite == [EQ |-> "NEQ", NEQ |-> "EQ", LT |-> "GEQ", GEQ |-> "LT", GT |-> "LEQ", LEQ |-> "GT"]

RECURSIVE WithoutScalarCasts(_)
WithoutScalarCasts(e) ==
  IF IsTypecast(e) /\ IsScalar(e.type) /\ IsScalar(TypeOf(e.operand))
    THEN WithoutScalarCasts(e.operand) ELSE e

RewriteLogicalNot(e) ==
  LET operand == WithoutScalarCasts(e.operand)
  IN  CASE operand.kind = "binary" /\ operand.op \in DOMAIN Opposite ->
             Another([operand EXCEPT !.op = Opposite[@]])
        [] IsUnary(operand, "LOGICAL_NOT") /\ TypeOf(operand.operand).size = 1 ->
             Another(operand.operand)
        [] OTHER -> Itself(UnaryNode("LOGICAL_NOT", operand))

RewriteUnary(e) ==
  CASE e.op = "DEREFERENCE" /\ IsUnary(e.operand, "REFERENCE") -> Another(e.operand.operand)
    [] e.op = "LOGICAL_NOT" -> RewriteLogicalNot(e)
    [] OTHER -> Itself(e)

\* Mutant: a cast goes even when the type of the operation changes with it.
IsIdleCastAlways(e, cast, other) ==
  IsTypecast(cast) /\ SizeOf(cast.type) >= SizeOf(TypeOf(cast.operand))

\* Is a cast of an operand one that "won't change anything"?
IsIdleCast(e, cast, other) ==
  /\ IsTypecast(cast)
  /\ cast.type.size >= TypeOf(cast.operand).size
  /\ TypeOf(e) = BinaryType(e, TypeOf(cast.operand), TypeOf(other))

WithoutLeftCast(e) == IF IsIdleCast(e, e.left, e.right) THEN [e EXCEPT !.left = @.operand] ELSE e
WithoutRightCast(e) == IF IsIdleCast(e, e.right, e.left) THEN [e EXCEPT !.right = @.operand] ELSE e

WithoutIdleCasts(e) ==
  IF e.op \in Additive \cup Multiplicative THEN WithoutRightCast(WithoutLeftCast(e)) ELSE e

\* A pointer that is cast to an integer of its size, next to a constant.
IsPointerPlus(cast, other) ==
  /\ IsTypecast(cast) /\ IsInteger(cast.type) /\ other.kind = "constant"
  /\ IsPointer(TypeOf(cast.operand)) /\ cast.type.size = TypeOf(cast.operand).size

\* The members whose address an addition computes.
AddressedMembers(structs, cast, other) ==
  IF ~IsPointerPlus(cast, other) \/ ~IsStructurePointer(TypeOf(cast.operand)) THEN {}
  ELSE MembersAt(structs[TypeOf(cast.operand).pointee.struct], other.value * CHAR_BIT)

\* How many bits a constant adds.
Bits(constant) == Signed(constant.value, constant.size) * CHAR_BIT

IsWholeStep(structs, cast, other) ==
  /\ IsPointerPlus(cast, other)
  /\ PointeeSize(structs, TypeOf(cast.operand)) # 0
  /\ Bits(other) % PointeeSize(structs, TypeOf(cast.operand)) = 0

\* Mutant: the constant counts bytes, not elements.
PointerStepInBytes(structs, op, cast, other) ==
  Typecast(cast.type, BinaryNode(op, cast.operand, other))

\* The constant counted in what the pointer points to.
PointerStep(structs, op, cast, other) ==
  LET steps == Quotient(Bits(other), PointeeSize(structs, TypeOf(cast.operand)))
  IN  Typecast(cast.type,
               BinaryNode(op, cast.operand,
                      ConstantNode(Truncated(steps, other.size), other.size, other.type)))

\* x = x + 1 is ++x.
StepOperator(e) ==
  LET sum == e.right
      c == IF sum.right.kind = "constant" THEN sum.right ELSE sum.left
      variable == IF sum.right.kind = "constant" THEN sum.left ELSE sum.right
      up == IF sum.op = "ADD" THEN "PREFIX_INCREMENT" ELSE "PREFIX_DECREMENT"
      down == IF sum.op = "ADD" THEN "PREFIX_DECREMENT" ELSE "PREFIX_INCREMENT"
  IN  CASE e.left.kind # "variable" \/ sum.kind # "binary" -> "none"
        [] OTHER ->
             IF sum.op \notin Additive \/ c.kind # "constant" \/ variable # e.left THEN "none"
             ELSE IF c = sum.left /\ sum.op = "SUB" THEN "none"
             ELSE IF c.value = 1 THEN up
             ELSE IF Signed(c.value, c.size) = -1 THEN down ELSE "none"

\* An operand that is a pointer cast to an integer, and the constant next to it.
RewriteStep(structs, e) ==
  CASE IsWholeStep(structs, e.left, e.right) -> Another(PointerStep(structs, e.op, e.left, e.right))
    [] e.op = "ADD" /\ ~IsWholeStep(structs, e.left, e.right) /\ IsWholeStep(structs, e.right, e.left) ->
         Another(PointerStep(structs, e.op, e.right, e.left))
    [] OTHER -> Itself(e)

MemberAddress(cast, members) == UnaryNode("REFERENCE", Arrow(cast.operand, CHOOSE m \in members : TRUE))

\* left and right are the members that each of the operands points to.
RewriteAdd(structs, e, left, right) ==
  CASE left # {} -> Another(MemberAddress(e.left, left))
    [] left = {} /\ right # {} -> Another(MemberAddress(e.right, right))
    [] left = {} /\ right = {} -> RewriteStep(structs, e)

RewriteAssign(e, op) == IF op # "none" THEN Another(UnaryNode(op, e.left)) ELSE Itself(e)

RewriteBinary(structs, e) ==
  CASE e.op = "ADD" -> RewriteAdd(structs, e, AddressedMembers(structs, e.left, e.right),
                                              AddressedMembers(structs, e.right, e.left))
    [] e.op = "SUB" -> RewriteStep(structs, e)
    [] e.op = "ASSIGN" -> RewriteAssign(e, StepOperator(e))
    [] OTHER -> Itself(e)

\* rewriteChild, with the rewrite() of the child.
RECURSIVE Rewritten(_, _)

RewrittenChildren(structs, e) ==
  CASE e.kind \in {"typecast", "unary"} -> [e EXCEPT !.operand = Rewritten(structs, @)]
    [] e.kind = "binary" -> [e EXCEPT !.left = Rewritten(structs, @), !.right = Rewritten(structs, @)]
    [] OTHER -> e

Rewrite(structs, e) ==
  CASE e.kind = "typecast" -> RewriteTypecast(structs, e)
    [] e.kind = "unary" -> RewriteUnary(e)
    [] e.kind = "binary" -> RewriteBinary(structs, WithoutIdleCasts(e))
    [] OTHER -> Itself(e)

Settled(structs, result) == IF result.same THEN result.node ELSE Rewritten(structs, result.node)

Rewritten(structs, e) == Settled(structs, Rewrite(structs, RewrittenChildren(structs, e)))
=============================================================================
