-------------------------- MODULE DataflowAnalyzer --------------------------
(***************************************************************************)
(* The data flow analysis of one function: rounds over its basic blocks,   *)
(* in each of which every statement is simulated on the definitions that   *)
(* reach it, until a round brings no new definitions twice in a row, or    *)
(* the limit of rounds is reached.                                         *)
(*                                                                         *)
(* A function is a record code.  code.terms is the sequence of its terms   *)
(* in the order they are simulated, operands before operators, the right   *)
(* side of an assignment before the left; code.blocks gives the terms of   *)
(* each block, the first block being the entry; code.edges the jumps.  A   *)
(* term names its operands and, when it is assigned to, its assignee by    *)
(* how many terms before it they stand.  The first terms of the entry are  *)
(* those the calling convention adds: the stack pointer, and a term for    *)
(* each location that may turn out to hold an argument.                    *)
(***************************************************************************)
EXTENDS Value, ReachingDefinitions, Sequences

CONSTANTS
  Codes,               \* the functions to analyze
  MaxIterations,       \* rounds after which the analysis gives up
  FirstArgumentOffset  \* where the arguments on the stack begin, in bits

ASSUME DataflowAssumption ==
  /\ MaxIterations \in Nat \ {0}
  /\ FirstArgumentOffset \in Nat

VARIABLES
  code,             \* the function being analyzed
  values,           \* what is known of the value of each term
  locations,        \* the memory location each term denotes
  definitions,      \* the definitions each term reads
  uses,             \* the terms that read each definition
  output,           \* the definitions reaching the end of each block
  context,          \* the definitions reaching the current term
  arguments,        \* the locations found to hold arguments
  block, term,      \* the current block, and the next term of it
  niterations, changed, fixpointReached,
  phase             \* "enter" a block, "simulate" it, or "done"

results == <<values, locations, definitions, uses>>
control == <<block, term, niterations, changed, fixpointReached, phase>>
dvars == <<code, results, output, context, arguments, control>>

-----------------------------------------------------------------------------
\* The function.

Terms == DOMAIN code.terms
Blocks == DOMAIN code.blocks
Entry == 1

Kind(t) == code.terms[t].kind
IsRead(t) == code.terms[t].access = "read"
IsWrite(t) == code.terms[t].access = "write"
IsKill(t) == code.terms[t].access = "kill"

Operand(t, i) == t - code.terms[t].operands[i]

\* Terms the calling convention writes have no assignee.
HasAssignee(t) == IsWrite(t) /\ code.terms[t].assignee # 0
Assignee(t) == t - code.terms[t].assignee

IsArgument(t) == code.terms[t].origin = "argument"
IsStackPointer(t) == code.terms[t].origin = "stackPointer"

\* Is the term simulated?  The term of an argument is there once the
\* argument has been found.
IsSimulated(t) == IsArgument(t) => code.terms[t].loc \in arguments

\* Mutant: only blocks in front of the block precede it.
PredecessorsOfForward(b) == {p \in Blocks : <<p, b>> \in code.edges /\ p < b}

\* CFG::getPredecessors
PredecessorsOf(b) == {p \in Blocks : <<p, b>> \in code.edges}

IsGlobalMemory(l) == l.domain = "MEMORY"

-----------------------------------------------------------------------------
\* Simulation of one term.

StackLocation(v, size) ==
  [domain |-> "STACK", addr |-> Signed(v.stackOffset, v.size) * CHAR_BIT, size |-> size]

GlobalLocation(v, size) ==
  [domain |-> "MEMORY", addr |-> v.constantValue * CHAR_BIT, size |-> size]

LocationOf(t) ==
  CASE Kind(t) = "access" -> code.terms[t].loc
    [] Kind(t) = "dereference" ->
         LET address == values[Operand(t, 1)]
         IN  CASE IsConstant(address) -> GlobalLocation(address, code.terms[t].size)
               [] ~IsConstant(address) /\ IsStackOffset(address) ->
                    StackLocation(address, code.terms[t].size)
               [] OTHER -> Nowhere
    [] OTHER -> Nowhere

\* The value of a term but for what it reads and what is assigned to it.
ChosenOperand(t) == IF definitions[Operand(t, 1)] # {} THEN Operand(t, 1) ELSE Operand(t, 2)

ComputedValue(t) ==
  LET v == values[t]
  IN  CASE Kind(t) = "const" ->
             MakeNotMultiplication(MakeNotStackOffset(MakeConstant(v, code.terms[t].value)))
        [] Kind(t) = "undefined" -> MakeNotMultiplication(MakeNotStackOffset(v))
        [] Kind(t) = "unary" -> UnaryValue(v, code.terms[t].op, values[Operand(t, 1)])
        [] Kind(t) = "binary" ->
             BinaryValue(v, code.terms[t].op, values[Operand(t, 1)], values[Operand(t, 2)])
        [] Kind(t) = "choice" -> values[ChosenOperand(t)]
        [] Kind(t) \in {"access", "dereference"} ->
             IF IsStackPointer(t) THEN MakeStackOffset(v, 0) ELSE v

ReadDefinitions(t, l) ==
  IF l = Nowhere \/ IsGlobalMemory(l) THEN {} ELSE GetDefinitions(context, l)

JoinedOver(v, defs) == FoldSet(LAMBDA d, w : JoinValue(w, values[d]), v, defs)

SimulatedValue(t, l) ==
  LET v == ComputedValue(t)
  IN  CASE IsRead(t)      -> JoinedOver(v, ReadDefinitions(t, l))
        [] HasAssignee(t) -> JoinValue(v, values[Assignee(t)])
        [] OTHER          -> v

SimulatedContext(t, l) ==
  CASE l = Nowhere \/ IsGlobalMemory(l) \/ IsRead(t) -> context
    [] l # Nowhere /\ ~IsGlobalMemory(l) /\ IsWrite(t) -> AddDefinition(context, l, t)
    [] l # Nowhere /\ ~IsGlobalMemory(l) /\ IsKill(t) -> KillDefinitions(context, l)

Simulate ==
  /\ phase = "simulate"
  /\ term <= code.blocks[block].last
  /\ LET l == LocationOf(term)
     IN  IF IsSimulated(term)
           THEN /\ locations' = [locations EXCEPT ![term] = l]
                /\ values' = [values EXCEPT ![term] = SimulatedValue(term, l)]
                /\ definitions' =
                     [definitions EXCEPT ![term] = IF IsRead(term) THEN ReadDefinitions(term, l)
                                                                   ELSE @]
                /\ context' = SimulatedContext(term, l)
           ELSE UNCHANGED <<locations, values, definitions, context>>
  /\ term' = term + 1
  /\ UNCHANGED <<code, uses, output, arguments, block, niterations, changed,
                 fixpointReached, phase>>

-----------------------------------------------------------------------------
\* Entering and leaving a block.

\* What is read without having been defined, or from above the return
\* address, is an argument.
FoundArguments ==
  {code.terms[a].loc : a \in {a \in Terms : IsArgument(a) /\
     \E t \in Terms :
       /\ IsRead(t) /\ locations[t] = code.terms[a].loc
       /\ \/ locations[t].domain # "STACK" /\ definitions[t] = {}
          \/ locations[t].domain = "STACK" /\ locations[t].addr >= FirstArgumentOffset}}

JoinedOutputs(preds) == JoinDefinitions({output[p] : p \in preds})

EnterBlock ==
  /\ phase = "enter"
  /\ context' = JoinedOutputs(PredecessorsOf(block))
  /\ arguments' = IF block = Entry /\ fixpointReached
                    THEN arguments \cup FoundArguments ELSE arguments
  /\ term' = code.blocks[block].first
  /\ phase' = "simulate"
  /\ UNCHANGED <<code, results, output, block, niterations, changed, fixpointReached>>

Closed(b) == term > code.blocks[b].last

LeaveBlock ==
  /\ phase = "simulate" /\ Closed(block)
  /\ block < Len(code.blocks)
  /\ output' = [output EXCEPT ![block] = context]
  /\ changed' = (changed \/ output[block] # context)
  /\ block' = block + 1
  /\ phase' = "enter"
  /\ UNCHANGED <<code, results, context, arguments, term, niterations, fixpointReached>>

-----------------------------------------------------------------------------
\* The end of a round: the last block is left, uses are computed, and the
\* analysis ends or goes on.

UsesOf(d) == {t \in Terms : IsRead(t) /\ d \in definitions[t]}


EndRound ==
  /\ phase = "simulate" /\ Closed(block)
  /\ block = Len(code.blocks)
  /\ output' = [output EXCEPT ![block] = context]
  /\ uses' = [d \in Terms |-> UsesOf(d)]
  /\ niterations' = niterations + 1
  /\ LET news == changed \/ output[block] # context
         again == news \/ ~fixpointReached
     IN  /\ fixpointReached' = ~news
         /\ phase' = IF again /\ niterations' < MaxIterations THEN "enter" ELSE "done"
         /\ changed' = (again /\ phase' = "done")
  /\ block' = Entry
  /\ UNCHANGED <<code, values, locations, definitions, context, arguments, term>>

-----------------------------------------------------------------------------

DataflowInit ==
  /\ code \in Codes
  /\ values = [t \in Terms |-> NewValue(code.terms[t].size)]
  /\ locations = [t \in Terms |-> Nowhere]
  /\ definitions = [t \in Terms |-> {}]
  /\ uses = [t \in Terms |-> {}]
  /\ output = [b \in Blocks |-> NoDefinitions]
  /\ context = NoDefinitions
  /\ arguments = {}
  /\ block = Entry /\ term = 1
  /\ niterations = 0 /\ changed = FALSE /\ fixpointReached = FALSE
  /\ phase = "enter"

Analyze == EnterBlock \/ Simulate \/ LeaveBlock \/ EndRound
=============================================================================
