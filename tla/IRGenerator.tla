----------------------------- MODULE IRGenerator -----------------------------
(***************************************************************************)
(* nc::core::arch::irgen::IRGenerator: from the instructions of a Context  *)
(* to basic blocks connected by jumps (IRGenerator.cpp), with the part of  *)
(* IntelInstructionAnalyzer that creates blocks and control statements.    *)
(*                                                                         *)
(* One instruction, one visited statement and one connected block are a    *)
(* step each: the token is looked at between them, and the vectors that    *)
(* the two loops index grow and shrink while they run.                     *)
(*                                                                         *)
(* Of an instruction only its control is kept.  Its kind is one of         *)
(*   "plain"    falls through                                              *)
(*   "call"     calls targets, falls through                               *)
(*   "jump"     jumps to the constant address targets[1]                   *)
(*   "switch"   jumps to an address computed before, one of targets; the   *)
(*              analysis of its block may or may not find them             *)
(*   "branch"   jumps to targets[1] or falls through                       *)
(*   "skip"     has a conditional effect, in a block without an address    *)
(*              (CMOVcc, CMPXCHG, and string instructions likewise)        *)
(*   "return"   returns                                                    *)
(*   "invalid"  fails the analyzer's sanity checks                         *)
(*   "failing"  throws when its first statement is created, which is after *)
(*              its block was found (one that throws later is "plain")     *)
(***************************************************************************)
EXTENDS Program

CONSTANT Codes      \* the sets of instructions to generate a program from

Kinds == {"plain", "call", "jump", "switch", "branch", "skip", "return", "invalid", "failing"}

IsCode(code) ==
    /\ IsFiniteSet(code)
    /\ \A i \in code :
          /\ i.address \in Nat /\ i.size \in Nat \ {0} /\ i.kind \in Kinds
          /\ i.targets \in Seq(Nat)
          /\ i.kind \in {"jump", "branch"} => Len(i.targets) = 1
          /\ i.kind \in {"plain", "skip", "return", "invalid", "failing"} => i.targets = <<>>
    /\ \A i, j \in code : i.address = j.address => i = j

ASSUME CodesAssumption == \A code \in Codes : IsCode(code)

VARIABLES
    code,           \* Context::instructions()
    program,        \* Context::program()
    phase,          \* "statements", "targets", "successors", "done" or "canceled"
    translated,     \* the instructions createStatements() was called for
    block, index    \* where the loops over blocks and statements are

irVars == <<code, program, phase, translated, block, index>>

EndOf(i) == i.address + i.size
InstructionAt(a) == CHOOSE i \in code : i.address = a

IRInit ==
    /\ code \in Codes
    /\ program = EmptyProgram
    /\ phase = "statements"
    /\ translated = {}
    /\ block = 1 /\ index = 1
-----------------------------------------------------------------------------
Statement(i, kind, targets, blocks) ==
    [kind |-> kind, instruction |-> i.address,
     targets |-> targets, connected |-> FALSE, blocks |-> blocks]

\* directSuccessor() of IntelInstructionAnalyzer: a block at the end of the instruction.
WithSuccessor(p, i) == CreateBasicBlock(p, EndOf(i))
DirectSuccessor(p, i) == The(StartingAt(p, EndOf(i)))

\* IntelInstructionAnalyzer::doCreateStatements; "p" is the program once "b", the block
\* for the instruction, is there.
Statements(i, p, b) ==
    CASE i.kind \in {"plain", "call", "return"} ->
            AddStatement(p, b, Statement(i, i.kind, i.targets, {}))
      [] i.kind \in {"jump", "switch"} ->
            AddStatement(p, b, Statement(i, "jump", i.targets, {}))
      [] i.kind = "branch" ->
            LET q == WithSuccessor(p, i)
            IN  AddStatement(q, b, Statement(i, "jump", i.targets, {DirectSuccessor(q, i)}))
      [] i.kind = "skip" ->
            LET then == LastBlock(p) + 1
                q == WithSuccessor(AddBlock(p, None), i)
                next == DirectSuccessor(q, i)
                r == AddStatement(q, b, Statement(i, "jump", <<>>, {then, next}))
            IN  AddStatement(AddStatement(r, then, Statement(i, "plain", <<>>, {})),
                             then, Statement(i, "jump", <<>>, {next}))

      [] i.kind = "failing" -> p

\* Instructions are translated by ascending address; an invalid one leaves no trace.
CreateStatements ==
    /\ phase = "statements" /\ translated # code
    /\ LET i == CHOOSE j \in code \ translated :
                    \A k \in code \ translated : j.address <= k.address
       IN  /\ translated' = translated \cup {i}
           /\ program' = IF i.kind = "invalid" THEN program
                         ELSE Statements(i, ExtendForInstruction(program, i),
                                            BlockForInstruction(program, i))
    /\ UNCHANGED <<code, phase, block, index>>

StatementsCreated ==
    /\ phase = "statements" /\ translated = code
    /\ phase' = "targets"
    /\ UNCHANGED <<code, program, translated, block, index>>
-----------------------------------------------------------------------------
\* createBasicBlock() for each of some addresses, in order.
CreateBasicBlocks(p, targets) ==
    LET created[n \in 0..Len(targets)] ==
            IF n = 0 THEN p ELSE CreateBasicBlock(created[n - 1], targets[n])
    IN  created[Len(targets)]

\* computeJumpTarget: the jump of instruction "a", wherever splits have moved it, gets
\* its blocks.
Connect(p, a, targets) ==
    LET q == CreateBasicBlocks(p, targets)
        found == {b \in BlocksOf(q) : \E n \in DOMAIN targets : b \in StartingAt(q, targets[n])}
        places == UNION {{b} \X DOMAIN q.blocks[b].statements : b \in BlocksOf(q)}
        place == CHOOSE x \in places :
                    LET s == q.blocks[x[1]].statements[x[2]]
                    IN  s.kind = "jump" /\ s.instruction = a /\ s.targets = targets
        jump == q.blocks[place[1]].statements[place[2]]
    IN  [q EXCEPT !.blocks[place[1]].statements[place[2]] =
            [jump EXCEPT !.connected = TRUE, !.blocks = jump.blocks \cup found]]

Current == program.blocks[block]
CurrentStatement == Current.statements[index]

\* The block of a jump or return, if it has an address, ends where the instruction ends.
CloseBlockNever(p, b, i) == p
CloseBlock(p, b, i) == IF Bound(p, b) THEN CreateBasicBlock(p, EndOf(i)) ELSE p

\* computeJumpTargets, one statement.
VisitStatement ==
    /\ phase = "targets" /\ block \in BlocksOf(program) /\ index \in DOMAIN Current.statements
    /\ LET s == CurrentStatement
           i == InstructionAt(s.instruction)
           closed(p) == CloseBlock(p, block, i)
       IN  \/ s.kind = "plain" /\ UNCHANGED program
           \/ /\ s.kind = "call"
              /\ program' = CreateBasicBlocks(
                    [program EXCEPT !.called = @ \cup {s.targets[n] : n \in DOMAIN s.targets}],
                    s.targets)
           \/ /\ s.kind = "jump"
              /\ \/ /\ s.targets # <<>> /\ ~s.connected
                    /\ program' = closed(Connect(program, s.instruction, s.targets))
                 \/ /\ s.targets = <<>> \/ s.connected \/ i.kind = "switch"
                    /\ program' = closed(program)
           \/ s.kind = "return" /\ program' = closed(program)
    /\ index' = index + 1
    /\ UNCHANGED <<code, phase, translated, block>>

\* The next block, which may be one that the loop has created.
NextBlockStartsOver ==
    /\ phase = "targets" /\ block \in BlocksOf(program) /\ index > Len(Current.statements)
    /\ block' = (IF Successors(program, block) # {} THEN 1 ELSE block + 1) /\ index' = 1
    /\ UNCHANGED <<code, program, phase, translated>>

NextBlock ==
    /\ phase = "targets" /\ block \in BlocksOf(program) /\ index > Len(Current.statements)
    /\ block' = block + 1 /\ index' = 1
    /\ UNCHANGED <<code, program, phase, translated>>

TargetsComputed ==
    /\ phase = "targets" /\ block > Len(program.blocks)
    /\ phase' = "successors"
    /\ block' = 1
    /\ UNCHANGED <<code, program, translated, index>>
-----------------------------------------------------------------------------
\* addJumpToDirectSuccessor: a block that does not end in a jump or return goes on in
\* the block that starts at its end, if there is one.
AddJumpToDirectSuccessor ==
    /\ phase = "successors" /\ block \in BlocksOf(program)
    /\ program' =
         IF ~HasTerminator(Current) /\ Current.successor \notin {None, Current.address}
            /\ StartingAt(program, Current.successor) # {}
         THEN AddStatement(program, block,
                 [kind |-> "jump", instruction |-> None, targets |-> <<>>, connected |-> FALSE,
                  blocks |-> StartingAt(program, Current.successor)])
         ELSE program
    /\ block' = block + 1
    /\ UNCHANGED <<code, phase, translated, index>>

SuccessorsAdded ==
    /\ phase = "successors" /\ block > Len(program.blocks)
    /\ phase' = "done"
    /\ UNCHANGED <<code, program, translated, block, index>>

\* The token is seen cancelled where a loop looks at it; generate() returns early.
CancelGeneration ==
    /\ \/ phase = "statements" /\ translated # code
       \/ phase = "targets" /\ block \in BlocksOf(program) /\ index = 1
       \/ phase = "successors" /\ block \in BlocksOf(program)
    /\ phase' = "canceled"
    /\ UNCHANGED <<code, program, translated, block, index>>

Generate ==
    \/ CreateStatements \/ StatementsCreated
    \/ VisitStatement \/ NextBlock \/ TargetsComputed
    \/ AddJumpToDirectSuccessor \/ SuccessorsAdded

-----------------------------------------------------------------------------
\* Which codes are what a program usually is.
NoOverlap == \A i, j \in code : i # j => EndOf(i) <= j.address \/ EndOf(j) <= i.address
NoTargetInside ==
    \A i, j \in code : \A n \in DOMAIN i.targets :
        i.targets[n] <= j.address \/ i.targets[n] >= EndOf(j)

Valid == {i \in code : i.kind \notin {"invalid", "failing"}}
BoundBlocks == {b \in BlocksOf(program) : Bound(program, b)}

\* Whatever the instructions are, the keys of range2basicBlock_ stay comparable: the
\* map is used with an order that is only partial (RangeClass.h:103), and behaves as
\* a map only as long as all of its keys are.
KeysAreOrdered ==
    \A e, f \in program.ranges : e # f => Left(e.range, f.range) \/ Left(f.range, e.range)

\* The program is well-formed at every moment: blocks, statements and jumps refer to
\* what there is, and the map from ranges to blocks is one.
ProgramTypeOK ==
    /\ program.called \subseteq Nat
    /\ \A b \in BlocksOf(program) :
          /\ program.blocks[b].address \in Nat \cup {None}
          /\ Bound(program, b) => program.blocks[b].address <= program.blocks[b].successor
          /\ \A n \in DOMAIN program.blocks[b].statements :
                LET s == program.blocks[b].statements[n]
                IN  /\ s.kind \in {"plain", "call", "jump", "return"}
                    /\ s.instruction \in {None} \cup {i.address : i \in Valid}
                    /\ s.blocks \subseteq BlocksOf(program)
    /\ block \in 1..(Len(program.blocks) + 1)
    /\ index \in Nat \ {0}
    /\ KeysAreOrdered

\* Without overlapping instructions the map from ranges to blocks says exactly where
\* the blocks with an address are, so no two of them overlap.
RangesMatchBlocks ==
    NoOverlap => program.ranges =
        {[range |-> RangeOfBlock(program, b), block |-> b] : b \in BoundBlocks}

\* However often blocks are split, no statement is lost or doubled: the main statement
\* of each translated instruction is in exactly one block, once.
StatementsAreKept ==
    \A i \in translated \cap Valid :
        Cardinality({x \in BoundBlocks \X (1..Cardinality(code)) :
            /\ x[2] \in DOMAIN program.blocks[x[1]].statements
            /\ program.blocks[x[1]].statements[x[2]].instruction = i.address}) = 1

\* doc/developer/main.tex:457, "Jump instruction can stay only at the end of a basic
\* block", and a return as well.
JumpsEndBlocks ==
    phase \in {"successors", "done"} =>
        \A b \in BlocksOf(program) : \A n \in DOMAIN program.blocks[b].statements :
            program.blocks[b].statements[n].kind \in Terminators
                => n = Len(program.blocks[b].statements)

JumpsEndBlocksWithoutOverlap == NoOverlap => JumpsEndBlocks
-----------------------------------------------------------------------------
\* The instructions that are executed first when control enters a block: its first
\* one, or else what the added jump leads to.
Entered ==
    LET entered[b \in BlocksOf(program)] ==
            LET ss == program.blocks[b].statements
            IN  IF ss = <<>> THEN {}
                ELSE IF ss[1].instruction # None THEN {ss[1].instruction}
                ELSE UNION {entered[c] : c \in ss[1].blocks}
    IN  entered

\* The instructions that follow one in the generated program ...
Follows(i) ==
    UNION {LET ss == program.blocks[b].statements
           IN  UNION {
                 IF ss[n].kind = "jump"
                 THEN UNION {Entered[c] : c \in ss[n].blocks \cap BoundBlocks}
                 ELSE IF ss[n].kind = "return" \/ n = Len(ss) THEN {}
                 ELSE IF ss[n + 1].instruction = None
                 THEN UNION {Entered[c] : c \in ss[n + 1].blocks}
                 ELSE {ss[n + 1].instruction}
               : n \in {m \in DOMAIN ss : ss[m].instruction = i.address}}
          : b \in BoundBlocks}

\* ... and in the machine code.  Of a switch only what was found can be asked for.
Unresolved(i) ==
    \E b \in BoundBlocks : \E n \in DOMAIN program.blocks[b].statements :
        /\ program.blocks[b].statements[n].instruction = i.address
        /\ ~program.blocks[b].statements[n].connected
        /\ i.kind = "switch"

FallsThrough == {"plain", "call", "branch", "skip"}
Destinations(i) ==
    (IF i.kind \in FallsThrough THEN {EndOf(i)} ELSE {}) \cup
    (IF i.kind \in {"jump", "branch", "switch"} /\ ~Unresolved(i)
     THEN {i.targets[n] : n \in DOMAIN i.targets} ELSE {})

\* Control that arrives at a failing instruction passes through its empty place.
Landing ==
    LET landing[a \in {i.address : i \in code} \cup {EndOf(i) : i \in code}] ==
            IF a \in {i.address : i \in Valid} THEN {a}
            ELSE UNION {landing[EndOf(i)] : i \in {j \in code : j.address = a /\ j.kind = "failing"}}
    IN  landing

\* The generated program does what the machine code does: after each instruction the
\* same instructions may be executed, whatever blocks were split on the way there.
ControlFlowIsPreserved ==
    (phase = "done" /\ NoOverlap /\ NoTargetInside) =>
        \A i \in Valid :
            Follows(i) = UNION {Landing[a] : a \in Destinations(i) \cap DOMAIN Landing}
=============================================================================
