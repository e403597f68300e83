-------------------------- MODULE StructureAnalyzer --------------------------
(***************************************************************************)
(* nc::core::ir::cflow::StructureAnalyzer: the reductions that turn the    *)
(* graph of a function into nested regions (StructureAnalyzer.cpp).        *)
(*                                                                         *)
(* analyze(region) searches the region depth-first, applies the first      *)
(* reduction that fits some node, and starts again; a loop is analyzed     *)
(* before its parent goes on.  The calls of analyze() that have not        *)
(* returned are the stack "active".  Each action is one round of the loop. *)
(*                                                                         *)
(* assert is compiled into every build (config.h.in), so a failed one ends *)
(* the analysis: phase "aborted".                                          *)
(***************************************************************************)
EXTENDS RegionGraph

LOCAL INSTANCE SequencesExt
LOCAL INSTANCE TLC

CONSTANT Codes      \* functions to analyze: sequences of terminators

VARIABLES
    code,           \* the function
    graph,
    active,         \* regions under analysis, each with its possible do-while conditions
    phase           \* "running", "finished" or "aborted"
vars == <<code, graph, active, phase>>

Frame(region, conditions) == [region |-> region, conditions |-> conditions]
Root == Len(code) + 1

Init ==
    /\ code \in Codes
    /\ graph = Build(code)
    /\ active = <<Frame(Len(code) + 1, <<>>)>>
    /\ phase = "running"

Region == Last(active).region

\* The node a loop over the postordering stops at: the first that fits, or 0.
First(order, fits) ==
    LET found == {i \in 1..Len(order) : order[i] \in fits}
    IN  IF found = {} THEN 0 ELSE order[CHOOSE i \in found : \A j \in found : i <= j]

\* What every kind of conditional starts with.
IsIfHead(g, n) == IsFork(g, n) /\ IsCondition(code, g, n)

-----------------------------------------------------------------------------
(* Which nodes a reduction takes, given its entry. *)

\* The other half of a compound condition, or 0.
CompoundWith(g, n) ==
    LET Fits(left, right) ==
            /\ Len(Ins(g, left)) = 1 /\ IsIfHead(g, left)
            /\ \/ Out(g, left, 1) = right /\ Out(g, left, 2) # n
               \/ Out(g, left, 2) = right /\ Out(g, left, 1) # n
    IN  IF ~IsIfHead(g, n) THEN 0
        ELSE IF Fits(Out(g, n, 1), Out(g, n, 2)) THEN Out(g, n, 1)
        ELSE IF Fits(Out(g, n, 2), Out(g, n, 1)) THEN Out(g, n, 2)
        ELSE 0

\* A chain of nodes behind a condition.
RECURSIVE Chain(_, _)
Chain(g, nodes) ==
    LET next == UniqueSuccessor(g, Last(nodes))
    IN  IF next # 0 /\ UniquePredecessor(g, next) # 0 THEN Chain(g, Append(nodes, next)) ELSE nodes

BlockFrom(g, n) ==
    LET before == UniquePredecessor(g, n)
    IN  IF before # 0 /\ IsIfHead(g, before) THEN Chain(g, <<n>>) ELSE <<>>

IsIfThenElse(g, n) ==
    /\ IsIfHead(g, n)
    /\ LET left == Out(g, n, 1)
           right == Out(g, n, 2)
       IN  /\ Len(Ins(g, left)) = 1 /\ Len(Ins(g, right)) = 1
           /\ Len(Outs(g, left)) <= 1 /\ Len(Outs(g, right)) <= 1
           /\ \/ Outs(g, left) = <<>> \/ Outs(g, right) = <<>>
              \/ Out(g, left, 1) = Out(g, right, 1)

\* The branch of an if without else, or 0.
ThenOf(g, n) ==
    LET Fits(left, right) ==
            /\ Len(Ins(g, left)) = 1
            /\ Outs(g, left) = <<>> \/ (Len(Outs(g, left)) = 1 /\ Out(g, left, 1) = right)
    IN  IF ~IsIfHead(g, n) THEN 0
        ELSE IF Fits(Out(g, n, 1), Out(g, n, 2)) THEN Out(g, n, 1)
        ELSE IF Fits(Out(g, n, 2), Out(g, n, 1)) THEN Out(g, n, 2)
        ELSE 0

IsAnySwitch(g, n) == Kind(g, n) = "block" /\ code[n].kind = "table"

IsSwitch(g, n) ==
    /\ Kind(g, n) = "block" /\ code[n].kind = "table"
    /\ ~(Kind(g, Parent(g, n)) = "SWITCH" /\ g.node[Parent(g, n)].witch = n)

-----------------------------------------------------------------------------
(* The regions that the reductions make. *)

\* The branches that the edges into a node come from; 0 is none.
BranchesInto(g, n, of) ==
    {IF t \in DOMAIN of THEN of[t] ELSE 0 : t \in {TailOf(g, Ins(g, n)[i]) : i \in 1..Len(Ins(g, n))}}

\* reduceSwitch: the block that checks the bounds of the index, or 0.
CheckOf(g, n) ==
    LET before == UniquePredecessor(g, n)
    IN  IF /\ before # 0 /\ Kind(g, before) = "block"
           /\ code[before].kind = "cond" /\ code[before].limit # 0 /\ code[before].to[1] = n
        THEN before ELSE 0

\* node2branch: the nodes that only one branch leads to, with that branch, breadth first.
\* "from" holds 0 for a predecessor that belongs to no branch.
RECURSIVE Branches(_, _, _)
Branches(g, queue, of) ==
    LET Step(s, e) ==
            LET h == HeadOf(g, e)
                from == BranchesInto(g, h, s.of)
            IN  IF h \notin DOMAIN s.of /\ Cardinality(from) = 1 /\ 0 \notin from
                THEN [queue |-> Append(s.queue, h), of |-> s.of @@ (h :> CHOOSE b \in from : TRUE)]
                ELSE s
        after == FoldLeft(Step, [queue |-> Tail(queue), of |-> of], Outs(g, Head(queue)))
    IN  IF queue = <<>> THEN of ELSE Branches(g, after.queue, after.of)

\* Everything reduceSwitch finds out before it creates the region.
SwitchAt(g, n) ==
    LET check == CheckOf(g, n)
        otherwise == IF check = 0 THEN 0 ELSE OtherSuccessor(g, check, n)
        heads == {Out(g, n, i) : i \in 1..Len(Outs(g, n))} \cup ({otherwise} \ {0})
        of == Branches(g, SetToSeq(heads), [b \in heads |-> b])
        degree == [b \in heads |-> Cardinality(BranchesInto(g, b, of))]
        joins == {b \in heads : degree[b] > 2 /\ \A c \in heads : degree[c] <= degree[b]}
        tableSize == Len(code[n].to)
    IN  [check |-> check, otherwise |-> otherwise, of |-> of,
         \* The first in the order of pointers, which is any.
         exits |-> IF joins = {} THEN {0} ELSE joins,
         size |-> IF check # 0 /\ code[check].limit < tableSize THEN code[check].limit ELSE tableSize]

-----------------------------------------------------------------------------
(* The rounds of analyze(). *)

\* The first kind of reduction that fits a node, with the first such node.
Round ==
    LET d == Dfs(graph, Region)
        nodes == Range(d.post)
        compound == First(d.post, {n \in nodes : CompoundWith(graph, n) # 0})
        cyclic == First(d.post, {n \in nodes : LoopNodes(graph, n, d) # <<>>})
        block == First(d.post, {n \in nodes : Len(BlockFrom(graph, n)) > 1})
        conditional == First(d.post, {n \in nodes : IsIfThenElse(graph, n) \/ ThenOf(graph, n) # 0})
        remaining == First(d.post, {n \in nodes : IsSwitch(graph, n) \/ IsIfHead(graph, n)})
        Reduce(kind, n) == [kind |-> kind, node |-> n, dfs |-> d]
    IN  IF compound # 0 THEN Reduce("compound", compound)
        ELSE IF cyclic # 0 THEN Reduce("cyclic", cyclic)
        ELSE IF block # 0 THEN Reduce("block", block)
        ELSE IF conditional # 0 THEN Reduce("conditional", conditional)
        ELSE IF remaining # 0 THEN
            Reduce(IF IsSwitch(graph, remaining) THEN "switch" ELSE "hopeless", remaining)
        ELSE Reduce("none", 0)

\* parent->addSubregion(region), with "region" the newest node of g.
Install(g, frames) ==
    LET r == Len(g.node)
    IN  /\ IF SubregionFits(g, Region, r)
           THEN graph' = AddSubregion(g, Region, r) /\ active' = frames /\ UNCHANGED phase
           ELSE phase' = "aborted" /\ UNCHANGED <<graph, active>>
        /\ UNCHANGED code

ReduceCompoundCondition(round) ==
    /\ round.kind = "compound"
    /\ LET n == round.node
       IN  Install(NewRegion(graph, "COMPOUND_CONDITION", <<n, CompoundWith(graph, n)>>, n), active)

\* A loop whose entry is a condition with an edge out of the loop is a WHILE; its back
\* edges are removed, and the loop is analyzed next.
ReduceCyclic(round) ==
    /\ round.kind = "cyclic"
    /\ LET n == round.node
           r == Len(graph.node) + 1
           loop == NewRegion(graph, "LOOP", LoopNodes(graph, n, round.dfs), n)
           Leaving(m) == SelectSeq(Outs(loop, m), LAMBDA e : Parent(loop, HeadOf(loop, e)) = Region)
           back == BackEdgesTo(loop, round.dfs, n)
           conditions == FlattenSeq([i \in 1..Len(back) |->
               LET m == TailOf(loop, back[i])
               IN  IF ~IsIfHead(loop, m) THEN <<>>
                   ELSE [j \in 1..Len(Leaving(m)) |->
                            <<m, EntryBlock(loop, HeadOf(loop, Leaving(m)[j]))>>]])
           region == IF IsIfHead(loop, n) /\ Leaving(n) # <<>>
                     THEN [loop EXCEPT !.node[r].kind = "WHILE",
                                       !.node[r].exit = EntryBlock(loop, HeadOf(loop, Leaving(n)[1]))]
                     ELSE loop
           installed == AddSubregion(region, Region, r)
       IN  IF SubregionFits(region, Region, r)
           THEN /\ graph' = DetachAll(installed, Ins(installed, n))
                /\ active' = Append(active, Frame(r, conditions))
                /\ UNCHANGED <<code, phase>>
           ELSE phase' = "aborted" /\ UNCHANGED <<code, graph, active>>

ReduceBlock(round) ==
    /\ round.kind = "block"
    /\ LET n == round.node
       IN  Install(NewRegion(graph, "BLOCK", BlockFrom(graph, n), n), active)

ReduceConditional(round) ==
    /\ round.kind = "conditional"
    /\ LET n == round.node
           then == ThenOf(graph, n)
           both == NewRegion(graph, "IF_THEN_ELSE", <<n, Out(graph, n, 1), Out(graph, n, 2)>>, n)
           one == [NewRegion(graph, "IF_THEN", <<n, then>>, n) EXCEPT
                        !.node[Len(graph.node) + 1].exit =
                            EntryBlock(graph, OtherSuccessor(graph, n, then))]
       IN  Install(IF IsIfThenElse(graph, n) THEN both ELSE one, active)

ReduceSwitch(round) ==
    /\ round.kind = "switch"
    /\ LET n == round.node
           s == SwitchAt(graph, n)
           r == Len(graph.node) + 1
       IN  \E exit \in s.exits :
             \* The order of an unordered map is any order.
             \E branches \in SetToSeqs({m \in DOMAIN s.of : s.of[m] # exit \/ exit = 0}) :
                LET first == IF s.check = 0 THEN <<n>> ELSE <<n, s.check>>
                    witch == NewRegion(graph, "SWITCH", first \o branches, Last(first))
                    Block(m) == IF m = 0 THEN 0 ELSE EntryBlock(graph, m)
                    default == IF s.otherwise = exit THEN 0 ELSE s.otherwise
                IN  Install([witch EXCEPT !.node[r].witch = n, !.node[r].size = s.size,
                                          !.node[r].check = s.check,
                                          !.node[r].exit = Block(exit),
                                          !.node[r].default = Block(default)],
                            active)

\* A condition whose branches have nothing in common still becomes an if.
ReduceHopelessConditional(round) ==
    /\ round.kind = "hopeless"
    /\ LET n == round.node
       IN  Install(NewRegion(graph, "IF_THEN_ELSE", <<n, Out(graph, n, 1), Out(graph, n, 2)>>, n),
                   active)

\* analyze() returns; behind a loop, reduceCyclic goes on to look for a DO_WHILE.
Return(round) ==
    /\ round.kind = "none"
    /\ LET kept == SelectSeq(Last(active).conditions, LAMBDA c : Parent(graph, c[1]) = Region)
       IN  graph' = IF kept = <<>> THEN graph
                    ELSE [graph EXCEPT !.node[Region].kind = "DO_WHILE",
                                       !.node[Region].condition = Last(kept)[1],
                                       !.node[Region].exit = Last(kept)[2]]
    /\ active' = Front(active)
    /\ phase' = IF Len(active) = 1 THEN "finished" ELSE "running"
    /\ UNCHANGED code

Stay == phase # "running" /\ UNCHANGED vars

Analyze ==
    /\ phase = "running"
    /\ LET round == Round
       IN  \/ ReduceCompoundCondition(round)
           \/ ReduceCyclic(round)
           \/ ReduceBlock(round)
           \/ ReduceConditional(round)
           \/ ReduceSwitch(round)
           \/ ReduceHopelessConditional(round)
           \/ Return(round)

Next == Analyze \/ Stay

Spec == Init /\ [][Next]_vars

-----------------------------------------------------------------------------
(* Properties *)

\* The regions around a node.
RECURSIVE Around(_, _)
Around(g, n) == IF Parent(g, n) = 0 THEN {} ELSE {Parent(g, n)} \cup Around(g, Parent(g, n))

Kinds == {"block", "UNKNOWN", "COMPOUND_CONDITION", "BLOCK", "IF_THEN_ELSE", "IF_THEN", "LOOP",
          "WHILE", "DO_WHILE", "SWITCH"}

\* The regions are nested: every node is in one region, once, every region starts with
\* one of its own nodes, and all is inside the root.  Code generation prints each node
\* where it finds it, so a node in two regions is printed twice, one in none is lost.
NestingIsATree ==
    \A n \in 1..Len(graph.node) :
        /\ n # Root => /\ Root \in Around(graph, n)
                       /\ Cardinality({i \in 1..Len(Members(graph, Parent(graph, n))) :
                                        Members(graph, Parent(graph, n))[i] = n}) = 1
        /\ \A i \in 1..Len(Members(graph, n)) : Parent(graph, Members(graph, n)[i]) = n
        /\ n >= Root => Contains(Members(graph, n), Entry(graph, n))

\* The analysis works on a graph of nodes and edges that name each other, in regions
\* that are nested.
StructureTypeOK ==
    /\ phase \in {"running", "finished", "aborted"}
    /\ \A i \in 1..Len(active) : active[i].region \in Root..Len(graph.node)
    /\ \A n \in 1..Len(graph.node) :
        /\ Kind(graph, n) \in Kinds
        /\ Kind(graph, n) = "block" <=> n < Root
        /\ \A i \in 1..Len(Ins(graph, n)) : HeadOf(graph, Ins(graph, n)[i]) = n
        /\ \A i \in 1..Len(Outs(graph, n)) : TailOf(graph, Outs(graph, n)[i]) = n
    /\ \A e \in EdgesOf(graph) : /\ Contains(Outs(graph, TailOf(graph, e)), e)
                                 /\ Contains(Ins(graph, HeadOf(graph, e)), e)
    /\ NestingIsATree

\* "assert(subregion->entry() == entry());" (Region.cpp:114): a region that takes the
\* entry of its parent starts there.  It fails when a jump to the first block of the
\* function is the only edge to it, so that reduceCompoundCondition takes the block for
\* the second half of a condition, and when the block is in a loop around one with two
\* entries (LoopExplorer goes backwards past the entry).
AssertionsHold == phase # "aborted"

\* No assertion of the analysis fails as long as nothing jumps to the first block; above
\* all, no edge crosses the border of a region (Region::addSubregion).
NoAssertionFails == phase = "aborted" => \E b \in 1..Len(code) : Contains(code[b].to, 1)

\* What is left of the graph speaks of the function: an edge joins two nodes of one
\* region, and stands for a jump from some block in its tail to the first block of its
\* head, although reductions redirect edges and drop parallel ones.
EdgesStandForJumps ==
    \A e \in EdgesOf(graph) :
        /\ Parent(graph, TailOf(graph, e)) = Parent(graph, HeadOf(graph, e))
        /\ \E b \in 1..Len(code) :
            /\ b = TailOf(graph, e) \/ TailOf(graph, e) \in Around(graph, b)
            /\ Contains(code[b].to, EntryBlock(graph, HeadOf(graph, e)))

\* The work that is left: reductions remove nodes or edges, a loop that is pushed on the
\* stack costs at least its back edge, and a switch is made once for each table.
Work ==
    LET Nodes(i) == Len(Members(graph, active[i].region))
        open == {n \in 1..Len(code) : IsSwitch(graph, n)}
    IN  2 * Cardinality(EdgesOf(graph)) + Cardinality(open)
            + FoldLeft(LAMBDA sum, i : sum + Nodes(i), 0, [i \in 1..Len(active) |-> i])

\* Every round takes work away, so the loop of analyze() and its recursion end, also when
\* a reduction takes a single node (a loop of one block, a switch without own branches).
\* With the check for deadlocks, this says that the analysis of every function ends.
EveryRoundTakesWorkAway == [][phase' = "aborted" \/ Work' < Work]_vars
=============================================================================
