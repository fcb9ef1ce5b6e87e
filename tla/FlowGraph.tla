------------------------------ MODULE FlowGraph ------------------------------
(***************************************************************************)
(* The dependency graph of a flow, as core/engine.py computes it.          *)
(*                                                                         *)
(* A flow is a record [ids, deps]: ids is the sequence of step ids in YAML *)
(* order, deps maps every id to the set of ids in its depends_on list (a   *)
(* list whose duplicates and unknown ids validate() rejects, so that only  *)
(* its members matter).                                                    *)
(***************************************************************************)
EXTENDS Naturals, FiniteSets, SequencesExt

Ids(flow) == ToSet(flow.ids)

\* The steps of S as a loop over flow.steps collects them.
InOrder(flow, S) ==
    LET kept[n \in 0 .. Len(flow.ids)] ==
          IF n = 0 THEN <<>>
          ELSE IF flow.ids[n] \in S THEN Append(kept[n - 1], flow.ids[n]) ELSE kept[n - 1]
    IN  kept[Len(flow.ids)]

(***************************************************************************)
(* FlowEngine.layered_order: Kahn's algorithm one whole layer at a time.   *)
(* Children(flow, s) is adjacent[s]: a dependency outside the flow is      *)
(* ignored.  The loops are recursive functions of the number of their      *)
(* passes: Visit is the body of the innermost, VisitAll the loop over the  *)
(* children of a step, VisitLayer that over the steps of a layer, and Pass *)
(* one pass of the while loop.                                             *)
(***************************************************************************)
Children(flow, s) == InOrder(flow, {t \in Ids(flow) : s \in flow.deps[t]})

Indegree(flow) == [s \in Ids(flow) |-> Cardinality(flow.deps[s] \cap Ids(flow))]

\* mutant: a child joins the next layer with its first dependency
VisitEarly(acc, child) ==
    [indegree |-> [acc.indegree EXCEPT ![child] = 0],
     next     |-> IF acc.indegree[child] # 0 THEN Append(acc.next, child) ELSE acc.next]

\* One decrement: the child that reaches zero joins the next layer at that
\* moment, which fixes the order inside a layer.
Visit(acc, child) ==
    LET left == acc.indegree[child] - 1
    IN  [indegree |-> [acc.indegree EXCEPT ![child] = left],
         next     |-> IF left = 0 THEN Append(acc.next, child) ELSE acc.next]

VisitAll(children, acc) ==
    LET after[k \in 0 .. Len(children)] ==
          IF k = 0 THEN acc ELSE Visit(after[k - 1], children[k])
    IN  after[Len(children)]

VisitLayer(flow, current, indegree) ==
    LET after[i \in 0 .. Len(current)] ==
          IF i = 0 THEN [indegree |-> indegree, next |-> <<>>]
          ELSE VisitAll(Children(flow, current[i]), after[i - 1])
    IN  after[Len(current)]

Pass(flow, prev) ==
    LET acc == VisitLayer(flow, prev.current, prev.indegree)
    IN  [layers   |-> Append(prev.layers, prev.current),
         seen     |-> prev.seen + Len(prev.current),
         current  |-> acc.next,
         indegree |-> acc.indegree]

Sources(flow) == InOrder(flow, {s \in Ids(flow) : Indegree(flow)[s] = 0})

\* Every pass sees a step, so that the loop is over after Len(flow.ids).
Kahn(flow) ==
    LET loop[n \in 0 .. Len(flow.ids)] ==
          IF n = 0
          THEN [layers |-> <<>>, seen |-> 0, current |-> Sources(flow), indegree |-> Indegree(flow)]
          ELSE IF loop[n - 1].current = <<>> THEN loop[n - 1]
          ELSE Pass(flow, loop[n - 1])
    IN  loop[Len(flow.ids)]

LayeredOrder(flow) == Kahn(flow).layers

\* Some step was never reached, and layered_order raises.
HasCycle(flow) == Kahn(flow).seen # Len(flow.ids)

(***************************************************************************)
(* ancestors and descendants: a depth-first search with an explicit stack. *)
(* Search is that loop and Pop one pass of it: it takes the end of the     *)
(* list; a node seen before is dropped, the successors of a new one are    *)
(* pushed.  The start and each new node push no more than there are nodes. *)
(***************************************************************************)
Pop(found, succ) ==
    LET node == Last(found.stack)
        rest == Front(found.stack)
    IN  IF found.stack = <<>> THEN found
        ELSE IF node \in found.seen THEN [found EXCEPT !.stack = rest]
        ELSE [seen |-> found.seen \cup {node}, stack |-> rest \o succ[node]]

DirectOnly(start, succ) == ToSet(start)    \* mutant: nothing is pushed
Search(start, succ) ==
    LET nodes == Cardinality(DOMAIN succ)
        found[n \in 0 .. nodes * (nodes + 1)] ==
          IF n = 0 THEN [seen |-> {}, stack |-> start] ELSE Pop(found[n - 1], succ)
    IN  found[nodes * (nodes + 1)].seen

\* deps.get(dep, []): an unknown dependency is an ancestor without ancestors.
Ancestors(flow, s) ==
    LET unknown == (UNION {flow.deps[t] : t \in Ids(flow)}) \ Ids(flow)
        succ == [t \in Ids(flow) \cup unknown |->
                   IF t \in Ids(flow) THEN SetToSeq(flow.deps[t]) ELSE <<>>]
    IN  Search(succ[s], succ)

Descendants(flow, s) ==
    LET succ == [t \in Ids(flow) |-> Children(flow, t)]
    IN  Search(succ[s], succ)

(***************************************************************************)
(* The part of FlowEngine.validate that protects the graph: every          *)
(* dependency is known, no step depends on itself, there is no cycle.      *)
(***************************************************************************)
NotLookedUp(flow, s) == {}    \* mutant: unknown dependencies pass
UnknownDeps(flow, s) == flow.deps[s] \ Ids(flow)

ValidGraph(flow) ==
    /\ flow.ids # <<>>
    /\ \A s \in Ids(flow) : UnknownDeps(flow, s) = {} /\ s \notin flow.deps[s]
    /\ ~HasCycle(flow)
=============================================================================
