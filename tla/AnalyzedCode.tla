---------------------------- MODULE AnalyzedCode ----------------------------
(***************************************************************************)
(* A function and the code generated for it, run side by side.             *)
(*                                                                         *)
(* Once the analyses are over, the function runs on the machine of the     *)
(* intermediate representation, and with it, assignment by assignment, the *)
(* generated code, which has variables in place of registers and frame.    *)
(* Whichever way a conditional jump goes, both take it; before that they   *)
(* have to agree on the condition, and on whatever they write to memory.   *)
(***************************************************************************)
EXTENDS VariableAnalyzer, IntermediateCode, FiniteSets

CONSTANT InitialRegisters   \* contents of the register file to start from

Locations == [domain : {"UNKNOWN", "REGISTER", "MEMORY", "STACK"}, addr : Int, size : Nat]

TermRecords ==
  [kind : {"const", "undefined", "access", "dereference", "unary", "binary", "choice"},
   access : {"read", "write", "kill"}, size : Nat \ {0}, loc : Locations,
   operands : Seq(Nat \ {0}), assignee : Nat, op : STRING, value : Nat,
   origin : {"statement", "condition", "argument", "stackPointer"}]

\* A function: its blocks share out its terms, each has a statement (where one that only
\* jumps is left out), registers are parts of the register file, conditions are
\* read, and what the calling convention writes comes first.
IsFunction(c) ==
  LET BlockTerms(b) == c.blocks[b].first .. c.blocks[b].last
      FromConvention(t) == c.terms[t].origin \in {"argument", "stackPointer"}
  IN  /\ c.terms \in Seq(TermRecords)
      /\ c.blocks \in Seq([first : Nat \ {0}, last : 1 .. Len(c.terms)]) /\ c.blocks # <<>>
      /\ c.edges \subseteq (DOMAIN c.blocks) \X (DOMAIN c.blocks)
      /\ \A t \in DOMAIN c.terms : \E b \in DOMAIN c.blocks : t \in BlockTerms(b)
      /\ \A b1, b2 \in DOMAIN c.blocks :
            (\E t \in BlockTerms(b1) : t \in BlockTerms(b2)) => b1 = b2
      /\ \A b \in DOMAIN c.blocks : \E t \in BlockTerms(b) :
            /\ ~FromConvention(t)
            /\ c.terms[t].access \in {"write", "kill"} \/ c.terms[t].origin = "condition"
      /\ \A t \in DOMAIN c.terms :
            /\ \A i \in DOMAIN c.terms[t].operands : c.terms[t].operands[i] < t
            /\ c.terms[t].assignee < t
            /\ c.terms[t].origin = "condition" => c.terms[t].access = "read"
            /\ c.terms[t].kind = "access" /\ c.terms[t].loc.domain = "REGISTER" =>
                 /\ c.terms[t].loc.addr >= 0 /\ c.terms[t].loc.size > 0
                 /\ c.terms[t].loc.addr + c.terms[t].loc.size <= RegisterBits
            /\ FromConvention(t) =>
                 /\ c.terms[t].kind = "access" /\ c.terms[t].access = "write"
                 /\ \A u \in 1 .. t : u \in BlockTerms(Entry) /\ FromConvention(u)

ASSUME CodesAssumption == \A c \in Codes : IsFunction(c)

VARIABLES
  machine,   \* the machine the function runs on
  store,     \* the variables of the generated code
  pc,        \* the term that ends the statement to run next; 0 before, -1 after
  clean      \* has all that was read so far been written whole, by one term?

runvars == <<machine, store, pc, clean>>
vars == <<varvars, runvars>>

-----------------------------------------------------------------------------
\* Statements.  Each ends with the term that is written, killed or tested.

EndsStatement(t) == IsWrite(t) \/ IsKill(t) \/ IsCondition(t)
IsEntryTerm(t) == IsArgument(t) \/ IsStackPointer(t)

BlockOf(t) == CHOOSE b \in Blocks : t \in code.blocks[b].first .. code.blocks[b].last

StatementsOf(b) ==
  {t \in code.blocks[b].first .. code.blocks[b].last : EndsStatement(t) /\ ~IsEntryTerm(t)}

\* The terms of the statement that t ends.
TermsOfStatement(t) ==
  {u \in code.blocks[BlockOf(t)].first .. t :
     ~IsEntryTerm(u) /\ \A e \in u .. t - 1 : ~EndsStatement(e)}

-----------------------------------------------------------------------------
\* The function, on the machine.

AddressOperand(t) == Operand(t, 1)

\* The location a term denotes if its address is this.
Pointed(t, address) == AtAddress(address, code.terms[t].size)

\* The values of terms in the current state of the machine.
Actual[t \in Terms] ==
  CASE Kind(t) = "const"       -> code.terms[t].value
    [] Kind(t) = "undefined"   -> 0
    [] Kind(t) = "access"      -> Read(machine, code.terms[t].loc)
    [] Kind(t) = "dereference" -> Read(machine, Pointed(t, Actual[AddressOperand(t)]))
    [] Kind(t) = "unary"       ->
         ApplyUnary(code.terms[t].op, Actual[Operand(t, 1)],
                    code.terms[Operand(t, 1)].size, code.terms[t].size)
    [] Kind(t) = "binary"      ->
         ApplyBinary(code.terms[t].op,
                     Actual[Operand(t, 1)], code.terms[Operand(t, 1)].size,
                     Actual[Operand(t, 2)], code.terms[Operand(t, 2)].size, code.terms[t].size)
    [] Kind(t) = "choice"      -> Actual[Operand(t, 2)]

\* Where a term reads or writes.
ActualLocation(t) ==
  IF Kind(t) = "access" THEN code.terms[t].loc ELSE Pointed(t, Actual[AddressOperand(t)])

Denotes(t) == Kind(t) \in {"access", "dereference"}

MachineAfter(t) ==
  CASE IsWrite(t) -> Write(machine, ActualLocation(t), Actual[Assignee(t)], t)
    [] IsKill(t)  -> [machine EXCEPT !.writer = WrittenBy(machine, Cells(ActualLocation(t)), 0)]
    [] IsCondition(t) -> machine

\* Reads of a statement.  The preferred term of a choice may be killed.
IsKilled(u) ==
  /\ \E c \in Terms : Kind(c) = "choice" /\ Operand(c, 1) = u
  /\ Writers(machine, ActualLocation(u)) = {0}

ReadsOf(t) == {u \in TermsOfStatement(t) : IsRead(u) /\ Denotes(u) /\ ~IsKilled(u)}

IsLocal(t) == locations[t] # Nowhere /\ ~IsGlobalMemory(locations[t])

\* A clean read of a variable is one of what a single term has written
\* there, and one of memory does not reach into the frame.
IsClean(r) ==
  LET writers == Writers(machine, ActualLocation(r))
  IN  IF IsLocal(r)
        THEN \E d \in Terms : /\ writers = {d} /\ IsLocal(d)
                              /\ locations[d].size = locations[r].size
                              /\ Cells(ActualLocation(r)) = Cells(locations[d])
        ELSE \A d \in writers : d = 0 \/ ~IsLocal(d)

-----------------------------------------------------------------------------
\* The generated code.

UsedReads(t) == {r \in uses[t] : r \in used}

\* Is the term a variable that is written and read once, and so replaced by
\* the expression it is assigned?
IsIntermediateWrite(t) ==
  /\ HasAssignee(t)
  /\ Cardinality(UsedReads(t)) = 1
  /\ \A r \in UsedReads(t) : BlockOf(r) = BlockOf(t)

IsIntermediate(t) ==
  \/ IsWrite(t) /\ IsIntermediateWrite(t)
  \/ IsRead(t) /\ Cardinality(definitions[t]) = 1
               /\ \A d \in definitions[t] : IsIntermediateWrite(d)

\* The assignment that is generated, if any, is one to a used term.
IsPrinted(t) == t \in used /\ ~IsIntermediate(t)

Definition(t) == CHOOSE d \in definitions[t] : TRUE

\* The values of the expressions generated for terms.
Printed[t \in Terms] ==
  IF IsRead(t) /\ IsConstant(values[t]) THEN values[t].constantValue
  ELSE
  CASE Kind(t) = "const"     -> code.terms[t].value
    [] Kind(t) = "undefined" -> 0
    [] Kind(t) = "unary"     ->
         ApplyUnary(code.terms[t].op, Printed[Operand(t, 1)],
                    code.terms[Operand(t, 1)].size, code.terms[t].size)
    [] Kind(t) = "binary"    ->
         ApplyBinary(code.terms[t].op,
                     Printed[Operand(t, 1)], code.terms[Operand(t, 1)].size,
                     Printed[Operand(t, 2)], code.terms[Operand(t, 2)].size, code.terms[t].size)
    [] Kind(t) = "choice"    -> Printed[ChosenOperand(t)]
    [] Denotes(t) ->
         CASE locations[t] = Nowhere -> Read(machine, Pointed(t, Printed[AddressOperand(t)]))
           [] locations[t] # Nowhere /\ ~IsLocal(t) -> Read(machine, locations[t])
           [] IsLocal(t) /\ IsIntermediate(t) -> Printed[Assignee(Definition(t))]
           [] IsLocal(t) /\ ~IsIntermediate(t) -> store[variables[t]]

StoreAfter(t) ==
  IF IsWrite(t) /\ IsPrinted(t) /\ IsLocal(t)
    THEN [store EXCEPT ![variables[t]] = Printed[Assignee(t)]]
    ELSE store

-----------------------------------------------------------------------------
\* Running both.

\* Entry terms have written what the machine holds on entry.
EntryTerms == {t \in Terms : IsEntryTerm(t) /\ IsSimulated(t)}

EntryWriter(cell) ==
  LET writers == {t \in EntryTerms : cell \in Cells(locations[t])}
  IN  IF writers = {} THEN 0 ELSE Max(writers)

\* The machine on entry: only the stack pointer is given a value.
WithFrame(m) ==
  LET pointer == CHOOSE t \in EntryTerms : IsStackPointer(t)
  IN  [Write(m, locations[pointer], FrameBase, pointer) EXCEPT
         !.writer = [cell \in DOMAIN m.writer |-> EntryWriter(cell)]]

Start ==
  /\ phase = "analyzed" /\ pc = 0
  /\ \E registers \in InitialRegisters :
       machine' = WithFrame(EmptyMachine(registers))
  /\ store' = [t \in Terms |->
                 IF \E e \in EntryTerms : variables[e] = t
                   THEN LET e == CHOOSE e \in EntryTerms : variables[e] = t
                        IN  Read(machine', locations[e])
                   ELSE 0]
  /\ pc' = Min(StatementsOf(Entry))
  /\ UNCHANGED <<varvars, clean>>

Following(t) == {u \in StatementsOf(BlockOf(t)) : u > t}

Run ==
  /\ pc > 0
  /\ machine' = MachineAfter(pc)
  /\ store' = StoreAfter(pc)
  /\ clean' = (clean /\ \A r \in ReadsOf(pc) : IsClean(r))
  /\ IF Following(pc) # {}
       THEN pc' = Min(Following(pc))
       ELSE \/ \E b \in Blocks : <<BlockOf(pc), b>> \in code.edges /\ pc' = Min(StatementsOf(b))
            \/ ~ (\E b \in Blocks : <<BlockOf(pc), b>> \in code.edges) /\ pc' = -1
  /\ UNCHANGED varvars

Finished == pc = -1 /\ UNCHANGED vars

Init ==
  /\ DataflowInit
  /\ used = {} /\ variables = [t \in Terms |-> t]
  /\ machine = EmptyMachine([i \in 0 .. RegisterBits - 1 |-> 0])
  /\ store = [t \in Terms |-> 0] /\ pc = 0 /\ clean = TRUE

Next ==
  \/ Analyze /\ UNCHANGED <<used, variables, runvars>>
  \/ ComputeUsage /\ UNCHANGED <<variables, runvars>>
  \/ AnalyzeVariables /\ UNCHANGED runvars
  \/ Start
  \/ Run
  \/ Finished

Spec == Init /\ [][Next]_vars

-----------------------------------------------------------------------------
\* Where the analyses are known to go wrong.

\* What is known of a definition has not reached its reads: the values are
\* not a part of what has to stay the same before the analysis ends.
IsStale(r) ==
  \E d \in definitions[r] : JoinConstant(values[r], values[d]) # values[r]

\* A value nothing is known of, like that of an argument or of a load, does
\* not keep the read from being taken for the constant another definition is.
IsHalfKnown(r) ==
  IsConstant(values[r]) /\ (\E d \in definitions[r] : ~IsConstant(values[d]))

\* Offsets to the frame that differ, of which the greater one is kept.
IsGuessedOffset(r) ==
  /\ IsStackOffset(values[r])
  /\ \E d \in definitions[r] : ~IsStackOffset(values[d]) \/ values[d].stackOffset # values[r].stackOffset

\* The frame is not aligned to the mask on entry: the offset is cut, not the address.
IsMisaligned(t) ==
  /\ Kind(t) = "binary" /\ code.terms[t].op = "BITWISE_AND" /\ IsStackOffset(values[t])
  /\ \E mask \in Operands(t) :
       IsConstant(values[mask]) /\ BitwiseAnd[FrameBase, values[mask].constantValue] # FrameBase

\* The location of the read has been lost, but not the value read there.
IsLeftOver(r) == IsConstant(values[r]) /\ definitions[r] = {} /\ Denotes(r)

\* What the calling convention writes is simulated whenever control enters the first
\* block, also when it comes back: what a loop around that block writes is lost.
EntryIsReentered == \E b \in Blocks : <<b, Entry>> \in code.edges

ValuesAreKnown ==
  \A t \in Terms :
    /\ ~IsMisaligned(t)
    /\ IsRead(t) /\ Denotes(t) =>
         ~IsStale(t) /\ ~IsHalfKnown(t) /\ ~IsGuessedOffset(t) /\ ~IsLeftOver(t)

\* The assignment is left out because the variable is read once, although
\* the variable is also assigned elsewhere.
IsLostUpdate(w) ==
  /\ IsWrite(w) /\ w \in used /\ IsIntermediate(w)
  /\ \E r \in UsedReads(w) : definitions[r] # {w}

\* The variables and the memory the expression generated for a term reads,
\* as the terms that read them.
Leaves[t \in Terms] ==
  CASE IsRead(t) /\ IsConstant(values[t]) -> {}
    [] ~(IsRead(t) /\ IsConstant(values[t])) ->
         CASE Kind(t) \in {"const", "undefined"} -> {}
           [] Kind(t) \in {"unary", "binary"} -> UNION {Leaves[u] : u \in Operands(t)}
           [] Kind(t) = "choice" -> Leaves[ChosenOperand(t)]
           [] Denotes(t) ->
                IF IsLocal(t) /\ IsIntermediate(t) THEN Leaves[Assignee(Definition(t))]
                ELSE {t} \cup (IF locations[t] = Nowhere THEN Leaves[AddressOperand(t)] ELSE {})

SameObject(t, u) ==
  \/ IsLocal(t) /\ IsLocal(u) /\ variables[t] = variables[u]
  \/ ~IsLocal(t) /\ ~IsLocal(u)

\* The expression is evaluated at s, past an assignment to what it reads.
IsMovedPastWrite(s) ==
  \E u \in UNION {Leaves[t] : t \in {r \in TermsOfStatement(s) : IsRead(r)}} :
    \/ u > s
    \/ \E w \in u + 1 .. s - 1 :
         IsWrite(w) /\ (IsPrinted(w) \/ ~IsLocal(w)) /\ SameObject(w, u)

\* The preferred term is defined on some of the paths only.
IsFalseChoice(t) ==
  /\ Kind(t) = "choice" /\ definitions[Operand(t, 1)] # {}
  /\ pc > 0 /\ t \in TermsOfStatement(pc)
  /\ Writers(machine, ActualLocation(Operand(t, 1))) \cap definitions[Operand(t, 1)] = {}

-----------------------------------------------------------------------------
\* Properties.

CleanSoFar == clean /\ \A r \in ReadsOf(pc) : IsClean(r)

Results ==
  /\ values \in [Terms -> Values]
  /\ \A t \in Terms : /\ values[t].size = code.terms[t].size
                      /\ values[t].constantValue < 2^values[t].size
                      /\ values[t].stackOffset < 2^values[t].size
  /\ \A t \in Terms : definitions[t] # {} =>
       IsRead(t) /\ \A d \in definitions[t] : IsWrite(d) /\ IsSimulated(d)
  /\ phase # "enter" /\ phase # "simulate" => \A d \in Terms : uses[d] = UsesOf(d)

Control ==
  /\ block \in Blocks /\ term \in 1 .. Len(code.terms) + 1
  /\ niterations \in 0 .. MaxIterations
  /\ changed \in BOOLEAN /\ fixpointReached \in BOOLEAN
  /\ phase \in {"enter", "simulate", "done", "variables", "analyzed"}

Storage ==
  /\ machine.registers \in [0 .. RegisterBits - 1 -> {0, 1}]
  /\ machine.memory \in [Addresses -> 0 .. 2^CHAR_BIT - 1]
  /\ \A c \in DOMAIN machine.writer : machine.writer[c] \in Terms \cup {0}
  /\ \A t \in Terms : store[t] \in 0 .. 2^MAX_SIZE - 1
  /\ pc \in Terms \cup {0, -1} /\ clean \in BOOLEAN

\* Every variable has its type: numbers fit the sizes of their terms, only
\* reads have definitions, only writes are definitions, and once a round is
\* over the uses are the definitions read backwards.
AnalysisTypeOK ==
  /\ Results /\ Control /\ Storage
  /\ used \subseteq Terms /\ variables \in [Terms -> Terms]

IsRightConstant(t) == IsConstant(values[t]) => Actual[t] = values[t].constantValue

IsRightOffset(t) ==
  IsStackOffset(values[t]) =>
    Actual[t] = Truncated(FrameBase + values[t].stackOffset, values[t].size)

\* Is the term among the uses of whoever has written what it reads?
HasItsDefinitions(r) ==
  \A d \in Writers(machine, ActualLocation(r)) : d \in definitions[r] /\ r \in uses[d]

\* What the analysis takes for a constant is that constant whenever the
\* function gets there, on any path (DataflowAnalyzer::simulate); what it takes
\* for a pointer to the frame points that far from where the stack pointer was
\* on entry; and with that, definitions on the frame reach what reads them.
ReadsAreRight ==
  pc > 0 /\ ~EntryIsReentered /\ ValuesAreKnown /\ CleanSoFar =>
    /\ \A t \in TermsOfStatement(pc) : IsRead(t) => IsRightConstant(t) /\ IsRightOffset(t)
    /\ \A r \in ReadsOf(pc) : IsLocal(r) => HasItsDefinitions(r)

\* "assert(dataflow().getMemoryLocation(term) == dataflow().getMemoryLocation(definition));"
\* (VariableAnalyzer.cpp:46): the definitions of a term write where it reads.  It fails
\* when the address of a definition changes while the analysis goes on: what it wrote to
\* before is still among what goes around a loop.
DefinitionsShareLocation ==
  phase = "variables" =>
    \A r \in Terms : IsRead(r) => \A d \in definitions[r] : locations[d] = locations[r]

\* A register the term names, or a part of one.
IsRegister(t) == Kind(t) = "access" /\ code.terms[t].loc.domain = "REGISTER"

\* Whatever is known or guessed of values, the definitions of a register are writes of
\* the same register, and if the rounds ended because nothing was new, whichever write a
\* read of it finds, on any path, is one of its definitions.
DefinitionsReach ==
  /\ \A r \in Terms : IsRead(r) /\ IsRegister(r) => \A d \in definitions[r] :
       IsWrite(d) /\ IsRegister(d) /\ locations[d] = locations[r]
  /\ pc > 0 /\ ~changed /\ ~EntryIsReentered =>
       \A r \in ReadsOf(pc) : IsRegister(r) /\ IsClean(r) => HasItsDefinitions(r)

\* The generated code tests what the function tests, and writes to memory
\* what and where the function writes.
AgreeOn(t) ==
  CASE IsCondition(t) -> Printed[t] = Actual[t]
    [] IsWrite(t) /\ ~IsLocal(t) ->
         /\ Printed[Assignee(t)] = Actual[Assignee(t)]
         /\ Kind(t) = "dereference" =>
              (IF locations[t] = Nowhere THEN Printed[AddressOperand(t)] = Actual[AddressOperand(t)]
                                         ELSE ByteOf(locations[t]) = Actual[AddressOperand(t)])
    [] OTHER -> TRUE

\* The generated code does what the function does, unless the code contains
\* one of the three rewritings known to go wrong: an assignment left out, an
\* expression moved past an assignment to what it reads, a preferred term
\* chosen though it is not defined (DefinitionGenerator::makeExpression).
OnlyKnownRewritesGoAstray ==
  pc > 0 /\ ~EntryIsReentered /\ ValuesAreKnown /\ CleanSoFar =>
    \/ AgreeOn(pc)
    \/ \E t \in Terms :
         \/ IsLostUpdate(t)
         \/ IsFalseChoice(t)
         \/ EndsStatement(t) /\ t \in used /\ IsMovedPastWrite(t)

\* The term wrote elsewhere when the end of some block got it as a definition.
IsOutdated(d) ==
  \E b \in Blocks : \E l \in DOMAIN output[b] : d \in output[b][l] /\ locations[d] # l

\* The rounds have ended at the limit, "Didn't reach a fixpoint" (DataflowAnalyzer::analyze).
GaveUp == phase \notin {"enter", "simulate"} /\ changed


=============================================================================
