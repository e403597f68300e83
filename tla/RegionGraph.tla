----------------------------- MODULE RegionGraph -----------------------------
(***************************************************************************)
(* The graph that structural analysis works on: nodes, edges, regions      *)
(* (cflow/Node.cpp, Edge.cpp, Region.cpp, Graph.cpp, GraphBuilder.cpp,     *)
(* Dfs.cpp, LoopExplorer.cpp).                                             *)
(*                                                                         *)
(* A graph is a record of a sequence of nodes and a sequence of edges.     *)
(* The first nodes are the basic blocks, in the order of the function; the *)
(* node after them is the root region.  An edge that has been removed has  *)
(* neither tail nor head (0).  The order of outEdges and inEdges is kept,  *)
(* since the depth-first search and the choice among parallel edges follow *)
(* it.                                                                     *)
(*                                                                         *)
(* A basic block is known by what ends it: kind "return", "jump", "cond"   *)
(* or "table", and the blocks it may continue with.  "limit" of a "cond"   *)
(* is not 0 when the jump is a bounds check (misc::recognizeBoundsCheck)   *)
(* of the index that the jump table in to[1] uses: to[1] is taken for the  *)
(* indices below the limit.                                                *)
(***************************************************************************)
EXTENDS Naturals, Sequences, FiniteSets

LOCAL INSTANCE SequencesExt

Terminator(kind, to, limit) == [kind |-> kind, to |-> to, limit |-> limit]

NewNode(kind) ==
    [kind |-> kind, parent |-> 0, members |-> <<>>, entry |-> 0, exit |-> 0,
     ins |-> <<>>, outs |-> <<>>,
     condition |-> 0,                                          \* Region::loopCondition_
     witch |-> 0, size |-> 0, check |-> 0, default |-> 0]      \* members of Switch

Parent(g, n) == g.node[n].parent
Kind(g, n) == g.node[n].kind
Members(g, n) == g.node[n].members
Entry(g, n) == g.node[n].entry
Ins(g, n) == g.node[n].ins
Outs(g, n) == g.node[n].outs
TailOf(g, e) == g.edge[e].tail
HeadOf(g, e) == g.edge[e].head
Out(g, n, i) == HeadOf(g, Outs(g, n)[i])
EdgesOf(g) == {e \in 1..Len(g.edge) : g.edge[e].tail # 0 /\ g.edge[e].head # 0}

-----------------------------------------------------------------------------
(* Edge *)

SetTail(g, e, n) ==
    LET old == TailOf(g, e)
        cut == IF old = 0 THEN g.node ELSE [g.node EXCEPT ![old].outs = Remove(@, e)]
    IN  [node |-> IF n = 0 THEN cut ELSE [cut EXCEPT ![n].outs = Append(@, e)],
         edge |-> [g.edge EXCEPT ![e].tail = n]]

SetHeadKeepsOld(g, e, n) ==
    [node |-> IF n = 0 THEN g.node ELSE [g.node EXCEPT ![n].ins = Append(@, e)],
     edge |-> [g.edge EXCEPT ![e].head = n]]

SetHead(g, e, n) ==
    LET old == HeadOf(g, e)
        cut == IF old = 0 THEN g.node ELSE [g.node EXCEPT ![old].ins = Remove(@, e)]
    IN  [node |-> IF n = 0 THEN cut ELSE [cut EXCEPT ![n].ins = Append(@, e)],
         edge |-> [g.edge EXCEPT ![e].head = n]]

Detach(g, e) == SetHead(SetTail(g, e, 0), e, 0)

DetachFirst(g, es) == IF es = <<>> THEN g ELSE Detach(g, es[1])

DetachAll(g, es) == FoldLeft(Detach, g, es)

(* Node *)

UniquePredecessor(g, n) == IF Len(Ins(g, n)) = 1 THEN TailOf(g, Ins(g, n)[1]) ELSE 0
UniqueSuccessor(g, n) == IF Len(Outs(g, n)) = 1 THEN Out(g, n, 1) ELSE 0
IsFork(g, n) == Len(Outs(g, n)) = 2 /\ Out(g, n, 1) # Out(g, n, 2)

OtherSuccessor(g, n, notThis) ==
    LET others == SelectSeq(Outs(g, n), LAMBDA e : HeadOf(g, e) # notThis)
    IN  IF others = <<>> THEN 0 ELSE HeadOf(g, others[1])

RECURSIVE EntryBlock(_, _)
EntryBlock(g, n) == IF Kind(g, n) = "block" THEN n ELSE EntryBlock(g, Entry(g, n))

\* BasicNode::isCondition and Region::isCondition
IsCondition(code, g, n) ==
    \/ Kind(g, n) = "block" /\ code[n].kind = "cond"
    \/ Kind(g, n) = "COMPOUND_CONDITION"

-----------------------------------------------------------------------------
(* Region *)

AddNode(g, r, n) == [g EXCEPT !.node[n].parent = r, !.node[r].members = Append(@, n)]

\* A new region that takes the nodes of the sequence from their parent.
NewRegion(g, kind, nodes, entry) ==
    LET r == Len(g.node) + 1
        grown == [g EXCEPT !.node = Append(@, [NewNode(kind) EXCEPT !.entry = entry])]
    IN  FoldLeft(LAMBDA h, n : AddNode(h, r, n), grown, nodes)

\* The edges into and out of a subregion, in the order in which addSubregion meets them.
EdgesInto(g, p, r) ==
    SelectSeq(FlattenSeq([i \in 1..Len(Members(g, r)) |-> Ins(g, Members(g, r)[i])]),
              LAMBDA e : Parent(g, TailOf(g, e)) = p)

EdgesOutOfEntry(g, p, r) ==
    SelectSeq(Outs(g, Entry(g, r)), LAMBDA e : Parent(g, HeadOf(g, e)) = p)

EdgesOutOf(g, p, r) ==
    SelectSeq(FlattenSeq([i \in 1..Len(Members(g, r)) |-> Outs(g, Members(g, r)[i])]),
              LAMBDA e : Parent(g, HeadOf(g, e)) = p)

\* The first edge of each tail (head) is kept.
FirstOfEachTail(g, es) ==
    SelectSeq(es, LAMBDA e : \A i \in 1..Len(es) :
        (TailOf(g, es[i]) = TailOf(g, e)) =>
            \E j \in 1..i : es[j] = e)
FirstOfEachHead(g, es) ==
    SelectSeq(es, LAMBDA e : \A i \in 1..Len(es) :
        (HeadOf(g, es[i]) = HeadOf(g, e)) =>
            \E j \in 1..i : es[j] = e)

\* The assertions of addSubregion: no edge reaches beyond the parent, and if the
\* subregion holds the parent's entry, it holds it as its own entry.
SubregionFits(g, p, r) ==
    /\ \A i \in 1..Len(Members(g, r)) : LET n == Members(g, r)[i] IN
        /\ \A j \in 1..Len(Ins(g, n)) : Parent(g, TailOf(g, Ins(g, n)[j])) \in {p, r}
        /\ \A j \in 1..Len(Outs(g, n)) : Parent(g, Out(g, n, j)) \in {p, r}
    /\ Parent(g, Entry(g, p)) = r => Entry(g, r) = Entry(g, p)

\* An edge to a node of the subregion that is not its entry is dropped, and so are
\* parallel edges: code generation reads the jumps, not the edges.
AddSubregion(g, p, r) ==
    LET kept == [g EXCEPT !.node[p].members =
                    SelectSeq(@, LAMBDA n : Parent(g, n) # r)]
        added == AddNode(kept, p, r)
        into == EdgesInto(added, p, r)
        outOf == EdgesOutOf(added, p, r)
        to == FirstOfEachTail(added, SelectSeq(into, LAMBDA e : HeadOf(added, e) = Entry(added, r)))
        from == FirstOfEachHead(added, outOf)
        duplicate == SelectSeq(into, LAMBDA e : ~Contains(to, e))
                        \o SelectSeq(outOf, LAMBDA e : ~Contains(from, e))
        redirected == FoldLeft(LAMBDA h, e : SetTail(h, e, r),
                               FoldLeft(LAMBDA h, e : SetHead(h, e, r), added, to),
                               from)
        cleaned == DetachAll(redirected, duplicate)
    IN  IF Parent(cleaned, Entry(cleaned, p)) = r
        THEN [cleaned EXCEPT !.node[p].entry = r]
        ELSE cleaned

\* GraphBuilder: a node for each block, an edge for each connection of the CFG.
Build(code) ==
    LET root == Len(code) + 1
        nodes == [i \in 1..Len(code) |-> [NewNode("block") EXCEPT !.parent = root]]
                    \o <<[NewNode("UNKNOWN") EXCEPT !.members = [i \in 1..Len(code) |-> i],
                                                   !.entry = 1]>>
        pairs == FlattenSeq([b \in 1..Len(code) |->
                    [i \in 1..Len(code[b].to) |-> <<b, code[b].to[i]>>]])
        none == [node |-> nodes, edge |-> [i \in 1..Len(pairs) |-> [tail |-> 0, head |-> 0]]]
        Connect(g, e) == SetHead(SetTail(g, e, pairs[e][1]), e, pairs[e][2])
    IN  FoldLeft(Connect, none, [i \in 1..Len(pairs) |-> i])

-----------------------------------------------------------------------------
(* Dfs and LoopExplorer *)

RECURSIVE Visit(_, _, _), VisitEdges(_, _, _, _)
Visit(g, n, d) ==
    LET entered == [d EXCEPT !.gray = @ \cup {n}, !.pre = Append(@, n)]
        done == VisitEdges(g, n, 1, entered)
    IN  [done EXCEPT !.gray = @ \ {n}, !.black = @ \cup {n}, !.post = Append(@, n)]
VisitEdges(g, n, i, d) ==
    IF i > Len(Outs(g, n)) THEN d
    ELSE LET h == Out(g, n, i)
         IN  VisitEdges(g, n, i + 1,
                IF h \in d.gray THEN [d EXCEPT !.back = @ \cup {Outs(g, n)[i]}]
                ELSE IF h \in d.black THEN d
                ELSE Visit(g, h, d))

\* From the entry first, then from the nodes that it does not reach.
Dfs(g, r) ==
    LET none == [gray |-> {}, black |-> {}, pre |-> <<>>, post |-> <<>>, back |-> {}]
    IN  FoldLeft(LAMBDA d, n : IF n \in d.black THEN d ELSE Visit(g, n, d),
                 Visit(g, Entry(g, r), none), Members(g, r))

BackEdgesTo(g, d, n) == SelectSeq(Ins(g, n), LAMBDA e : e \in d.back)

\* backwardVisit: what reaches a back edge without passing the entry.
RECURSIVE Backward(_, _, _)
Backward(g, entry, found) ==
    LET more == {TailOf(g, e) : e \in {f \in EdgesOf(g) : HeadOf(g, f) \in found \ {entry}}}
    IN  IF more \subseteq found THEN found ELSE Backward(g, entry, found \cup more)

\* forwardVisit: depth-first through the nodes found, from the entry.
RECURSIVE Forward(_, _, _, _)
Forward(g, n, gray, sofar) ==
    LET Step(s, e) == IF HeadOf(g, e) \in gray /\ ~Contains(s, HeadOf(g, e))
                      THEN Forward(g, HeadOf(g, e), gray, s) ELSE s
    IN  FoldLeft(Step, Append(sofar, n), Outs(g, n))

LoopNodes(g, entry, d) ==
    LET back == BackEdgesTo(g, d, entry)
        gray == Backward(g, entry, {TailOf(g, back[i]) : i \in 1..Len(back)})
    IN  IF entry \in gray THEN Forward(g, entry, gray, <<>>) ELSE <<>>
=============================================================================
