----------------------------- MODULE Expressions -----------------------------
(***************************************************************************)
(* The language in which instruction analyzers write down what a machine   *)
(* instruction does: expressions, most of them without a size, from which  *)
(* terms and statements of the intermediate representation are made once   *)
(* the sizes have been found.  A size of 0 is one that is not known.       *)
(***************************************************************************)
EXTENDS IntermediateCode

CONSTANT Bitness   \* of the architecture: the size of an address to jump to

ASSUME BitnessAssumption == Bitness \in Nat \ {0}

-----------------------------------------------------------------------------
\* Expressions.

NullExpression ==
  [kind |-> "null", op |-> "", size |-> 0, args |-> <<>>, value |-> 0, location |-> Nowhere]

Intrinsic == [NullExpression EXCEPT !.kind = "intrinsic"]
UndefinedExpression == [NullExpression EXCEPT !.kind = "undefined"]

SizedConstant(c, size) == [NullExpression EXCEPT !.kind = "const", !.value = c, !.size = size]
Constant(c) == SizedConstant(c, 0)

\* A register, or a part of one: its size goes without saying.
Access(l) == [NullExpression EXCEPT !.kind = "access", !.location = l, !.size = l.size]

SizedUnary(op, e, size) ==
  [NullExpression EXCEPT !.kind = "unary", !.op = op, !.args = <<e>>, !.size = size]
Unary(op, e) == SizedUnary(op, e, 0)
Not(e) == SizedUnary("LOGICAL_NOT", e, 1)

SizedDereference(e, size) ==
  [NullExpression EXCEPT !.kind = "dereference", !.args = <<e>>, !.size = size]
Dereference(e) == SizedDereference(e, 0)

SignedExpression(e) == [NullExpression EXCEPT !.kind = "sign", !.op = "SIGNED", !.args = <<e>>]
UnsignedExpression(e) == [SignedExpression(e) EXCEPT !.op = "UNSIGNED"]

\* Some operators come in two kinds, of which the sign of the left operand chooses one.
SignedSubkinds ==
  [UNSIGNED_DIV |-> "SIGNED_DIV", UNSIGNED_REM |-> "SIGNED_REM", SHR |-> "SAR",
   UNSIGNED_LESS |-> "SIGNED_LESS", UNSIGNED_LESS_OR_EQUAL |-> "SIGNED_LESS_OR_EQUAL",
   UNSIGNED_GREATER |-> "SIGNED_GREATER",
   UNSIGNED_GREATER_OR_EQUAL |-> "SIGNED_GREATER_OR_EQUAL"]

Subkind(op, left) ==
  IF left.kind = "sign" /\ left.op = "SIGNED" /\ op \in DOMAIN SignedSubkinds
    THEN SignedSubkinds[op] ELSE op

SizedBinary(op, left, right, size) ==
  [NullExpression EXCEPT !.kind = "binary", !.op = Subkind(op, left),
                         !.args = <<left, right>>, !.size = size]
Binary(op, left, right) == SizedBinary(op, left, right, 0)

\* The result is a truth value, of one bit.
Test(op, left, right) == SizedBinary(op, left, right, 1)

Choice(preferred, default) ==
  [NullExpression EXCEPT !.kind = "choice", !.args = <<preferred, default>>]

-----------------------------------------------------------------------------
\* Sizes.

RECURSIVE ComputeSize(_, _)

SizeIsResult == {"SIGN_EXTEND", "ZERO_EXTEND", "RESIZE"}

UnarySize(e, suggested) ==
  LET hint == IF e.size # 0 THEN e.size ELSE suggested
      operand == ComputeSize(e.args[1], hint)
      resized == e.size # 0 \/ (e.kind = "unary" /\ e.op \in SizeIsResult)
  IN  [e EXCEPT !.args = <<operand>>, !.size = IF resized THEN hint ELSE operand.size]

\* An address is suggested the size of what it points to.
DereferenceSize(e, suggested) ==
  [e EXCEPT !.args = <<ComputeSize(e.args[1], suggested)>>,
            !.size = IF e.size = 0 THEN suggested ELSE e.size]

\* Mutant: the smaller operand sets the size.
BinarySizeOfSmaller(e, suggested) ==
  LET operands == [k \in 1 .. 2 |-> ComputeSize(e.args[k], suggested)]
  IN  [e EXCEPT !.args = operands,
                !.size = IF e.size # 0 THEN e.size ELSE Min({operands[1].size, operands[2].size})]

\* An operand that knows its size suggests it to the other one.
BinarySize(e, suggested) ==
  LET own == [k \in 1 .. 2 |-> ComputeSize(e.args[k], 0)]
      known == Max({own[1].size, own[2].size})
      hint == CASE known # 0                   -> known
                [] known = 0 /\ suggested # 0  -> suggested
                [] known = 0 /\ suggested = 0  -> e.size
      operands == [k \in 1 .. 2 |-> IF own[k].size = 0 THEN ComputeSize(own[k], hint) ELSE own[k]]
  IN  [e EXCEPT !.args = operands,
                !.size = IF @ # 0 THEN @ ELSE Max({operands[1].size, operands[2].size})]

\* computeSize(): the expression with the sizes that can be found.
ComputeSize(e, suggested) ==
  CASE e.kind \in {"null", "access"} -> e
    [] e.kind \in {"const", "intrinsic", "undefined"} ->
         [e EXCEPT !.size = IF @ = 0 THEN suggested ELSE @]
    [] e.kind \in {"unary", "sign"} -> UnarySize(e, suggested)
    [] e.kind = "dereference" -> DereferenceSize(e, suggested)
    [] e.kind \in {"binary", "choice"} -> BinarySize(e, suggested)

\* createTerm() neither throws nor fails an assertion.
RECURSIVE IsTermOf(_)
IsTermOf(e) ==
  \/ e.kind = "null"
  \/ /\ e.size # 0
     /\ \A k \in DOMAIN e.args : IsTermOf(e.args[k])
     /\ e.kind = "choice" => e.args[1].size = e.args[2].size

-----------------------------------------------------------------------------
\* Statements.  What a jump leads to is an address, or a block.

NoStatement ==
  [kind |-> "", left |-> NullExpression, right |-> NullExpression, then |-> "", else |-> ""]

\* "left" becomes "right".
Assign(left, right) == [NoStatement EXCEPT !.kind = "assign", !.left = left, !.right = right]

Kill(e) == [NoStatement EXCEPT !.kind = "kill", !.left = e]

\* A jump to an address under a condition, and to a block otherwise.
JumpTo(condition, address, else) ==
  [NoStatement EXCEPT !.kind = "jump", !.left = condition, !.right = address, !.else = else]

\* The same, to a block in both cases.
JumpToBlock(condition, then, else) ==
  [NoStatement EXCEPT !.kind = "jump", !.left = condition, !.then = then, !.else = else]

Call(target) == [NoStatement EXCEPT !.kind = "call", !.right = target]
Return == [NoStatement EXCEPT !.kind = "return"]

\* Each side of an assignment that does not know its size takes the other's.
AssignmentSize(s) ==
  LET l == ComputeSize(s.left, 0)
      r == ComputeSize(s.right, 0)
  IN  [s EXCEPT !.left = IF l.size = 0 THEN ComputeSize(l, r.size) ELSE l,
                !.right = IF r.size = 0 THEN ComputeSize(r, l.size) ELSE r]

StatementSize(s) ==
  IF s.kind = "assign" THEN AssignmentSize(s)
  ELSE [s EXCEPT !.left = ComputeSize(@, IF s.kind = "jump" THEN 1 ELSE 0),
                 !.right = ComputeSize(@, Bitness)]

\* createStatement() neither throws nor fails an assertion.
IsStatement(s) ==
  /\ IsTermOf(s.left) /\ IsTermOf(s.right)
  /\ s.kind = "assign" => s.left.size = s.right.size

-----------------------------------------------------------------------------
\* What terms are worth on a machine.  There, what was killed has writer 0.

IsAlive(m, l) == 0 \notin Writers(m, l)

RECURSIVE Evaluate(_, _)
Evaluate(e, m) ==
  CASE e.kind = "const"       -> Truncated(e.value, e.size)
    [] e.kind = "access"      -> Read(m, e.location)
    [] e.kind = "dereference" -> Read(m, AtAddress(Evaluate(e.args[1], m), e.size))
    [] e.kind = "sign"        -> Evaluate(e.args[1], m)
    [] e.kind = "unary"       -> ApplyUnary(e.op, Evaluate(e.args[1], m), e.args[1].size, e.size)
    [] e.kind = "binary"      -> ApplyBinary(e.op, Evaluate(e.args[1], m), e.args[1].size,
                                             Evaluate(e.args[2], m), e.args[2].size, e.size)
    [] e.kind = "choice"      ->
         Evaluate(IF IsAlive(m, e.args[1].location) THEN e.args[1] ELSE e.args[2], m)

\* The location an expression stands for on the left of an assignment.
LocationOf(e, m) ==
  IF e.kind = "access" THEN e.location ELSE AtAddress(Evaluate(e.args[1], m), e.size)
=============================================================================
