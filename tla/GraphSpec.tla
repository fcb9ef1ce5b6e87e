------------------------------ MODULE GraphSpec ------------------------------
(***************************************************************************)
(* What the algorithms of FlowGraph are for, stated without them: which    *)
(* steps are above and below a step, which flows have an order, which      *)
(* order is right, and what the runner relies on.                          *)
(***************************************************************************)
EXTENDS FlowGraph

\* The steps, and the unknown ids they depend on.
Named(flow) == Ids(flow) \cup UNION {flow.deps[t] : t \in Ids(flow)}

\* What an id leads to is the intersection of the sets that hold its direct
\* successors and are closed under succession.
Reach(flow) ==
    LET succ == [x \in Named(flow) |-> {t \in Ids(flow) : x \in flow.deps[t]}]
        closed == {C \in SUBSET Ids(flow) : \A x \in C : succ[x] \subseteq C}
    IN  [x \in Named(flow) |-> {t \in Ids(flow) : \A C \in closed : succ[x] \subseteq C => t \in C}]

Cyclic(flow) == LET reach == Reach(flow) IN \E s \in Ids(flow) : s \in reach[s]

SearchesReach(flow) ==
    LET reach == Reach(flow)
    IN  \A s \in Ids(flow) :
          /\ Ancestors(flow, s) = {d \in Named(flow) : s \in reach[d]}
          /\ Descendants(flow, s) = reach[s]

\* The dependencies of a step that are steps of the flow.
Known(flow, t) == flow.deps[t] \cap Ids(flow)

Placed(flow, layers) == {t \in Ids(flow) : \E i \in DOMAIN layers : t \in ToSet(layers[i])}

(***************************************************************************)
(* Layers that are right as far as they go: no step is there twice, none   *)
(* comes before one it depends on or with it, and each is placed as early  *)
(* as that allows: its layer follows the last of its dependencies.         *)
(***************************************************************************)
Layered(flow, layers) ==
    /\ layers \in Seq(Seq(Ids(flow)))
    /\ \A i \in DOMAIN layers : layers[i] # <<>> /\ IsInjective(layers[i])
    /\ \A i, j \in DOMAIN layers : ToSet(layers[i]) \cap ToSet(layers[j]) # {} => i = j
    /\ \A i \in DOMAIN layers : \A t \in ToSet(layers[i]) :
         /\ \A d \in Known(flow, t) : \E k \in 1 .. (i - 1) : d \in ToSet(layers[k])
         /\ i > 1 => \E d \in Known(flow, t) : d \in ToSet(layers[i - 1])

OrderIsRight(flow) ==
    /\ HasCycle(flow) <=> Cyclic(flow)
    /\ ~HasCycle(flow) => /\ Layered(flow, LayeredOrder(flow))
                          /\ Placed(flow, LayeredOrder(flow)) = Ids(flow)

(***************************************************************************)
(* GraphAssumption of StepRunner, of the steps of a flow, its deps, its    *)
(* layered_order() and its descendants().                                  *)
(***************************************************************************)
GraphIsRunnable(flow) ==
    LET layers == LayeredOrder(flow)
        below == [s \in Ids(flow) |-> Descendants(flow, s)]
    IN  /\ \A s \in Ids(flow) : flow.deps[s] \subseteq Ids(flow) /\ below[s] \subseteq Ids(flow)
        /\ layers \in Seq(Seq(Ids(flow)))
        /\ \A i, j \in DOMAIN layers : ToSet(layers[i]) \cap ToSet(layers[j]) # {} => i = j
        /\ \A s \in Ids(flow) : \E i \in DOMAIN layers : s \in ToSet(layers[i])
        /\ \A i \in DOMAIN layers : \A s \in ToSet(layers[i]) : \A d \in flow.deps[s] :
             \E k \in 1 .. (i - 1) : d \in ToSet(layers[k])
        /\ \A s, t \in Ids(flow) : t \in below[s] <=> \E d \in flow.deps[t] : d = s \/ d \in below[s]
=============================================================================
