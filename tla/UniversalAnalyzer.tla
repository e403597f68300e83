-------------------------- MODULE UniversalAnalyzer --------------------------
(***************************************************************************)
(* nc::core::UniversalAnalyzer::decompile, as far as the functions: the    *)
(* IR generator and the functions generator one after the other, with the  *)
(* cancellation checks between them, on the Context of a decompilation.    *)
(***************************************************************************)
EXTENDS IRGenerator, FunctionsGenerator

VARIABLE functions      \* Context::functions(), {} until they are set

analysisVars == <<irVars, functions>>

Init == IRInit /\ functions = {}

\* createProgram; an interrupted generate() leaves its program to the context.
CreateProgram == Generate /\ UNCHANGED functions

CreateFunctions ==
    /\ phase = "done"
    /\ functions' = MakeFunctions(program)
    /\ phase' = "isolated"
    /\ UNCHANGED <<code, program, translated, block, index>>

\* generate() saw the token, or checkForCancellation() did after it.
Cancel ==
    /\ \/ CancelGeneration
       \/ /\ phase = "done" /\ phase' = "canceled"
          /\ UNCHANGED <<code, program, translated, block, index>>
    /\ UNCHANGED functions

Returned == phase \in {"isolated", "canceled"}
Stay == Returned /\ UNCHANGED analysisVars

Analyse == CreateProgram \/ CreateFunctions
Next == Analyse \/ Cancel \/ Stay

\* The worker runs on: weak fairness of Analyse.  Analyse is enabled until decompile()
\* returns (there is no deadlock but Stay), so its ENABLED is spelt out as ~Returned.
Fairness == []<>Returned \/ []<><<Analyse>>_analysisVars

Spec == Init /\ [][Next]_analysisVars /\ Fairness
-----------------------------------------------------------------------------
\* The loops of the generator end although they append to what they traverse.
AnalysisEnds == <>Returned

Isolated == phase = "isolated"

\* Nothing the program does is left out: unless instructions overlap, every statement
\* that comes from one is in some function.
EveryStatementIsInAFunction ==
    (Isolated /\ NoOverlap) => \A b \in BlocksOf(program) :
        (\E n \in DOMAIN program.blocks[b].statements :
            program.blocks[b].statements[n].instruction # None)
        => \E f \in functions : b \in f.blocks

\* Every address that is called becomes the entry of exactly one function, even if
\* there is no code, and that function has everything its entry leads to.
CalledAddressesAreEntries ==
    Isolated => \A a \in program.called :
        \E b \in StartingAt(program, a) :
            /\ Cardinality({f \in functions : f.entry = b}) = 1
            /\ \A f \in functions : f.entry = b =>
                  \A c \in f.blocks : Successors(program, c) \subseteq f.blocks

\* doc/developer/main.tex:514: code is copied only between functions that are called;
\* what is shared belongs to called functions alone.
OnlyCalledFunctionsShareCode ==
    Isolated => \A f, g \in functions :
        (f # g /\ f.blocks \cap g.blocks # {}) =>
            IsCalled(program, f.entry) /\ IsCalled(program, g.entry)

\* What is called decides what the functions are: each called address is the entry of
\* one that lacks nothing, and apart from those no two functions have code in common.
FunctionsMatchCalls == CalledAddressesAreEntries /\ OnlyCalledFunctionsShareCode
=============================================================================
