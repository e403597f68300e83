------------------------------ MODULE Project ------------------------------
(***************************************************************************)
(* nc::gui::Project, its commands (Disassemble, DeleteInstructions,        *)
(* Decompile, DecompileAll), their activities (Disassembly, Decompilation) *)
(* and the handlers of MainWindow that drive them, on top of CommandQueue. *)
(*                                                                         *)
(* A handler of MainWindow makes several calls; the GUI thread does not    *)
(* return to its event loop between them, but workers run.  So a handler   *)
(* leaves the calls it makes in "calls" and each call is a step.           *)
(*                                                                         *)
(* Every command but DeleteInstructions creates one Context when it is     *)
(* executed; the context is named by its command, the one the project was  *)
(* opened with by NoCommand.  An instruction is an object: the pair of its *)
(* address and the command that disassembled it.                           *)
(***************************************************************************)
EXTENDS CommandQueue

CONSTANTS
    Addresses,          \* addresses of the program, integers
    Disassembles, Deletes, DecompileSubsets, DecompileAlls,   \* Commands, by class
    RangeOf,            \* RangeOf[c]: the addresses Disassemble c is asked for
    CodeSections        \* the Disassemble commands of Project::disassemble()

ASSUME ClassesAssumption ==
    /\ Commands = Disassembles \cup Deletes \cup DecompileSubsets \cup DecompileAlls
    /\ Addresses \subseteq Int
    /\ RangeOf \in [Disassembles -> SUBSET Addresses]
    /\ CodeSections \in Seq(Disassembles)
    /\ Disassembles \cap (Deletes \cup DecompileSubsets \cup DecompileAlls) = {}
    /\ Deletes \cap (DecompileSubsets \cup DecompileAlls) = {}
    /\ DecompileSubsets \cap DecompileAlls = {}
    /\ \A c \in Commands : Delegated[c] = IF c \in Deletes THEN 0 ELSE 1

Instructions == Addresses \X Commands
Contexts == Commands \cup {NoCommand}
Decompiles == DecompileSubsets \cup DecompileAlls

VARIABLES
    instructions_,      \* Project::instructions_
    context_,           \* Project::context_
    contextInstructions,\* Context::instructions_ of every context
    tree,               \* the contexts whose tree_ is set
    argument,           \* the instructions a Delete or Decompile command captured
    delivered,          \* contexts whose worker has emitted its result
    calls,              \* what the running handler of MainWindow still has to call
    viewContext,        \* CxxDocument::context_ and InspectorModel::context_
    viewHasTree,        \* the views printed a tree when they took viewContext
    shown               \* history: the contexts whose tree the views printed

dataVars == <<instructions_, context_, contextInstructions>>
viewVars == <<viewContext, viewHasTree, shown>>
projectVars == <<dataVars, tree, argument, delivered, calls, viewVars>>
allVars == <<vars, projectVars>>

Signal(slot, c) == [slot |-> slot, command |-> c, number |-> 0]
Signals == [slot : {"instructionsChanged", "treeChanged"}, command : Commands, number : {0}]
CancelAll == [op |-> "cancelAll", command |-> NoCommand, argument |-> {}]
Schedule(c, S) == [op |-> "push", command |-> c, argument |-> S]

\* No two instructions of the project, or of a context, start at the same address.
UniqueAddresses ==
    \A S \in {instructions_} \cup {contextInstructions[c] : c \in Contexts} :
        \A i, j \in S : i[1] = j[1] => i = j

\* Every variable has its type, and the disassemblies of overlapping ranges, the
\* deletions between them and late results never leave an address doubly defined,
\* whatever is cancelled (Instructions::add, Project::updateInstructions).
ProjectTypeOK ==
    /\ posted \in Seq(Events \cup Signals)
    /\ activityCount_ \in [Commands -> {0, 1}]
    /\ instructions_ \subseteq Instructions
    /\ context_ \in Contexts
    /\ contextInstructions \in [Contexts -> SUBSET Instructions]
    /\ tree \subseteq Decompiles
    /\ argument \in [Commands -> SUBSET Instructions]
    /\ delivered \subseteq Commands
    /\ viewContext \in Contexts
    /\ viewHasTree \in BOOLEAN
    /\ shown \subseteq tree
    /\ UniqueAddresses

\* MainWindow::open: the file has been parsed, its instructions are empty, so every
\* code section is scheduled for disassembly; decompilation too, if it is automatic.
ProjectInit ==
    /\ Init
    /\ instructions_ = {}
    /\ context_ = NoCommand
    /\ contextInstructions = [c \in Contexts |-> {}]
    /\ tree = {}
    /\ argument = [c \in Commands |-> {}]
    /\ delivered = {}
    /\ \E auto \in SUBSET DecompileAlls :
          /\ Cardinality(auto) <= 1
          /\ calls = [i \in DOMAIN CodeSections |-> Schedule(CodeSections[i], {})]
                        \o (IF auto = {} THEN <<>> ELSE <<Schedule(CHOOSE c \in auto : TRUE, {})>>)
    /\ viewContext = NoCommand
    /\ viewHasTree = FALSE
    /\ shown = {}
-----------------------------------------------------------------------------
\* Instructions::add keeps the instruction that is already there.
AddAllTwice(c, old, R) == old \cup {<<x, c>> : x \in R}

AddAll(c, old, R) ==
    old \cup {<<x, c>> : x \in {y \in R : \A i \in old : i[1] # y}}

\* The work() of the four commands.  setContext() makes the context current; a
\* DeleteInstructions changes the project's instructions and leaves the context alone.
WorkDisconnected(c) ==
    \/ /\ c \in Deletes
       /\ instructions_' = instructions_ \ argument'[c]
       /\ UNCHANGED <<context_, contextInstructions>>
    \/ /\ c \in Disassembles \cup Decompiles
       /\ context_' = c
       /\ contextInstructions' = [contextInstructions EXCEPT ![c] =
             IF c \in Disassembles THEN contextInstructions[context_]
             ELSE IF c \in DecompileAlls THEN instructions_ ELSE argument'[c]]
       /\ UNCHANGED instructions_

Work(c) ==
    \/ /\ c \in Deletes
       /\ instructions_' = instructions_ \ argument'[c]
       /\ UNCHANGED <<context_, contextInstructions>>
    \/ /\ c \in Disassembles \cup Decompiles
       /\ context_' = c
       /\ contextInstructions' = [contextInstructions EXCEPT ![c] =
             IF c \in DecompileSubsets THEN argument'[c] ELSE instructions_]
       /\ UNCHANGED instructions_

\* At most one command is executed by a step of the queue: see ExecuteNext.
WorkOfExecuted ==
    IF executed' = executed THEN UNCHANGED dataVars ELSE Work(executed'[Len(executed')])

CallCancelAll ==
    /\ calls # <<>> /\ Head(calls).op = "cancelAll"
    /\ calls' = Tail(calls)
    /\ \/ Clear
       \/ front_ = NoCommand /\ UNCHANGED vars
    /\ UNCHANGED <<dataVars, tree, argument, delivered, viewVars>>

\* The constructors of DeleteInstructions and Project::decompile keep those of the
\* selected instructions that are, as objects, still in the project.
CallPush ==
    /\ calls # <<>> /\ Head(calls).op = "push"
    /\ calls' = Tail(calls)
    /\ argument' = [argument EXCEPT ![Head(calls).command] = Head(calls).argument \cap instructions_]
    /\ Push(Head(calls).command)
    /\ WorkOfExecuted
    /\ UNCHANGED <<tree, delivered, viewVars>>
-----------------------------------------------------------------------------
\* updateGuiState shows a window-modal progress dialog for a foreground command; it
\* takes the input of the main window away.
DialogShown == statusBar \in Disassembles \cup Deletes
Unused == Commands \ Elements(pushed)

\* The commands a request may create: any unused one of its class, those of
\* the disassemblies differing in what they ask for.
Fresh(cs) ==
    LET unused == cs \cap Unused
    IN  IF unused = {} \/ cs = Disassembles THEN unused ELSE {CHOOSE c \in unused : TRUE}

\* The event loop hands user input to the main window.
UserMay(cancels) ==
    /\ status = "open" /\ calls = <<>> /\ ~DialogShown
    /\ cancels => clears < MaxClears

\* deleteSelectedInstructions, disassembleSelectedSectionRange: with automatic
\* decompilation the change is framed by cancelAll() and decompile().
UserChange(change) ==
    \/ /\ UserMay(FALSE)
       /\ calls' = <<change>>
    \/ /\ UserMay(TRUE)
       /\ \E c \in Fresh(DecompileAlls) : calls' = <<CancelAll, change, Schedule(c, {})>>

UserDelete == \E c \in Fresh(Deletes), S \in SUBSET instructions_ :
                 S # {} /\ UserChange(Schedule(c, S))
UserDisassemble == \E c \in Fresh(Disassembles) : UserChange(Schedule(c, {}))

\* decompile and decompileSelectedInstructions.
UserDecompile ==
    /\ UserMay(TRUE)
    /\ \/ \E c \in Fresh(DecompileAlls) : calls' = <<CancelAll, Schedule(c, {})>>
       \/ \E c \in Fresh(DecompileSubsets), S \in SUBSET instructions_ :
             S # {} /\ calls' = <<CancelAll, Schedule(c, S)>>

\* The "Cancel All" action, enabled while a command is current, and the button of the
\* progress dialog.
UserCancelAll ==
    /\ status = "open" /\ calls = <<>> /\ clears < MaxClears
    /\ statusBar # NoCommand
    /\ calls' = <<CancelAll>>

User ==
    /\ UserDelete \/ UserDisassemble \/ UserDecompile \/ UserCancelAll
    /\ UNCHANGED <<vars, dataVars, tree, argument, delivered, viewVars>>

\* MainWindow::open with another file: the views let go of the context first.
CloseProject ==
    /\ calls = <<>> /\ ~DialogShown
    /\ Destroy
    /\ viewContext' = NoCommand /\ viewHasTree' = FALSE
    /\ UNCHANGED <<dataVars, tree, argument, delivered, calls, shown>>
-----------------------------------------------------------------------------
Emit(c, slot) ==
    /\ delivered' = delivered \cup {c}
    /\ posted' = Append(posted, Signal(slot, c))
    /\ UNCHANGED <<queueVars, commandVars, workerVars, status, pushed, executed, clears>>
    /\ UNCHANGED <<instructions_, context_, argument, calls, viewVars>>

\* Disassembly::work: the instructions found before the token was seen cancelled, all
\* of them if it was not, become the context's.
DisassemblyResult(c) ==
    /\ status # "aborted"
    /\ c \in Disassembles \ delivered /\ <<c, 1>> \in running
    /\ \E limit \in {x \in Addresses : cancelled[c]} \cup {x + 1 : x \in Addresses} :
          /\ ~cancelled[c] => \A x \in Addresses : x < limit
          /\ contextInstructions' = [contextInstructions EXCEPT ![c] =
                AddAll(c, @, {x \in RangeOf[c] : x < limit})]
    /\ Emit(c, "instructionsChanged")
    /\ UNCHANGED tree

\* Decompilation::work reaches setTree(), which nothing checks the token after the last
\* analysis for: a decompilation cancelled late still delivers.
DecompilationResult(c) ==
    /\ status # "aborted"
    /\ c \in Decompiles \ delivered /\ <<c, 1>> \in running
    /\ tree' = tree \cup {c}
    /\ Emit(c, "treeChanged")
    /\ UNCHANGED contextInstructions

\* The activity is over once it has delivered; only a cancelled decompilation may end
\* without (CancellationException).
ActivityOver(c) ==
    /\ <<c, 1>> \in running
    /\ c \in delivered \/ (c \in Decompiles /\ cancelled[c])
    /\ FinishActivity(<<c, 1>>)
    /\ UNCHANGED projectVars
-----------------------------------------------------------------------------
Deliver(slot) ==
    /\ status # "aborted" /\ calls = <<>>
    /\ posted # <<>> /\ Head(posted).slot = slot

\* Project::updateInstructions takes the instructions of the current context, whichever
\* context emitted the signal.
UpdateInstructionsStale ==
    /\ Deliver("instructionsChanged")
    /\ posted' = Tail(posted)
    /\ instructions_' = IF status = "open"
                        THEN contextInstructions[context_] \cup UNION {argument[c] : c \in Deletes}
                        ELSE instructions_
    /\ UNCHANGED <<queueVars, commandVars, workerVars, status, pushed, executed, clears>>
    /\ UNCHANGED <<context_, contextInstructions, tree, argument, delivered, calls, viewVars>>

UpdateInstructions ==
    /\ Deliver("instructionsChanged")
    /\ posted' = Tail(posted)
    /\ instructions_' = IF status = "open" THEN contextInstructions[context_] ELSE instructions_
    /\ UNCHANGED <<queueVars, commandVars, workerVars, status, pushed, executed, clears>>
    /\ UNCHANGED <<context_, contextInstructions, tree, argument, delivered, calls, viewVars>>

\* treeChanged() of any context reaches MainWindow::treeChanged, which gives the current
\* context to the views; they do nothing if it is the one they have.
ShowTreeOfAny ==
    /\ Deliver("treeChanged")
    /\ posted' = Tail(posted)
    /\ viewHasTree' = viewHasTree
    /\ UNCHANGED <<viewContext, shown>>
    /\ UNCHANGED <<queueVars, commandVars, workerVars, status, pushed, executed, clears>>
    /\ UNCHANGED <<dataVars, tree, argument, delivered, calls>>

ShowTree ==
    /\ Deliver("treeChanged")
    /\ posted' = Tail(posted)
    /\ IF status = "open" /\ viewContext # context_
       THEN /\ viewContext' = context_
            /\ viewHasTree' = (context_ \in tree)
            /\ shown' = shown \cup ({context_} \cap tree)
       ELSE UNCHANGED viewVars
    /\ UNCHANGED <<queueVars, commandVars, workerVars, status, pushed, executed, clears>>
    /\ UNCHANGED <<dataVars, tree, argument, delivered, calls>>

CommandEvents ==
    /\ calls = <<>>
    /\ UNCHANGED <<tree, argument, delivered, calls, viewVars>>
    /\ \/ DeliverActivityFinished /\ UNCHANGED dataVars
       \/ DeliverCommandFinished /\ WorkOfExecuted
-----------------------------------------------------------------------------
Handler == CallCancelAll \/ CallPush
PostedEvents == UpdateInstructions \/ ShowTree \/ CommandEvents
Worker(c) == DisassemblyResult(c) \/ DecompilationResult(c) \/ ActivityOver(c)
PoolStarts == StartActivity /\ UNCHANGED projectVars

ProjectNext ==
    \/ User \/ CloseProject \/ Handler \/ PostedEvents \/ PoolStarts
    \/ \E c \in Commands : Worker(c)

ProjectSpec ==
    /\ ProjectInit /\ [][ProjectNext]_allVars
    /\ WF_allVars(Handler) /\ WF_allVars(PostedEvents) /\ WF_allVars(PoolStarts)
    /\ \A c \in Commands : WF_allVars(Worker(c))
-----------------------------------------------------------------------------
\* What follows is said of a user who has cancelled nothing so far and of a project that
\* is open (Disturbed), or holds whatever was cancelled.

\* A deletion is final: no later event brings a deleted instruction back.
DeletedStayDeleted ==
    Disturbed \/ \A c \in Deletes \cap Elements(executed) : argument[c] \cap instructions_ = {}

OnlyDeletionTakes ==
    instructions_ \ instructions_' \subseteq
        UNION {argument'[c] : c \in Deletes \cap Elements(executed')}

\* Project.h:67, "All instructions of the module": an instruction leaves the project
\* only because a DeleteInstructions command was executed for it.
OnlyDeletionRemoves == [][OnlyDeletionTakes]_allVars

\* The same as long as nothing has been cancelled.
UndisturbedOnlyDeletionRemoves == [][Disturbed \/ OnlyDeletionTakes]_allVars

\* What "decompile everything" works on is everything: while a DecompileAll is current,
\* its context has every instruction that a disassembly queued before it found and no
\* deletion took away.  The disassembly's result reaches the project through an event
\* of its own, which must overtake neither of the two that end its command.
DecompileAllSeesAll ==
    ~Disturbed /\ front_ \in DecompileAlls =>
        \A d \in Disassembles \cap Elements(executed) :
            contextInstructions[d] \ UNION {argument[c] : c \in Deletes}
                \subseteq contextInstructions[front_]

\* InspectorModel.h:118, "Associated immutable context instance": a context given to
\* the views is no longer being written by its decompilation.
ViewsHoldFinishedContexts ==
    \A a \in Unfinished : a[1] = viewContext => viewContext \in delivered

\* The same as long as nothing has been cancelled.
UndisturbedViewsHoldFinishedContexts == Disturbed \/ ViewsHoldFinishedContexts

\* Requested code gets on the screen: every decompilation that was scheduled is
\* eventually displayed, unless something is cancelled or the project closed.
DecompilationIsShown ==
    \A c \in Decompiles :
        (c \in Elements(pushed)) ~> (c \in shown \/ Disturbed)
=============================================================================
