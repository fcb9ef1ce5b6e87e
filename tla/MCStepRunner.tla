---------------------------- MODULE MCStepRunner ----------------------------
(***************************************************************************)
(* Small flows to run StepRunner on.  Layers and descendants are written   *)
(* out, because TLC would compute them anew in every state; the assumption *)
(* FlowsAsComputed says that they are what FlowGraph computes.             *)
(***************************************************************************)
EXTENDS StepRunner, TLC

Graph == INSTANCE FlowGraph

NextStep == [action |-> "next_step", target |-> "none"]
Terminate == [action |-> "terminate", target |-> "none"]
GoTo(s) == [action |-> "goto_step", target |-> s]

-----------------------------------------------------------------------------
(* A flow with a review loop: a, then b and c in parallel, then a gate     *)
(* that may send the run back to a, then d.                                *)
LoopStep == {"a", "b", "c", "g", "d"}
LoopYaml == <<"a", "b", "c", "g", "d">>
LoopDeps == [a |-> {}, b |-> {"a"}, c |-> {"a"}, g |-> {"b", "c"}, d |-> {"g"}]
LoopLayers == << <<"a">>, <<"b", "c">>, <<"g">>, <<"d">> >>
LoopDescendants == [a |-> {"b", "c", "g", "d"}, b |-> {"g", "d"}, c |-> {"g", "d"},
                    g |-> {"d"}, d |-> {}]
LoopOptions == [g |-> {NextStep, GoTo("a")}]
LoopVisits == [a |-> 2, b |-> 2, c |-> 2, g |-> 2, d |-> 1]
LoopRetry == [a |-> 0, b |-> 0, c |-> 0, g |-> 0, d |-> 0]

(* A review loop with two gates: both may send the run back to the step    *)
(* before, one may terminate it.                                           *)
ReviewStep == {"a", "g", "h"}
ReviewYaml == <<"a", "g", "h">>
ReviewDeps == [a |-> {}, g |-> {"a"}, h |-> {"a"}]
ReviewLayers == << <<"a">>, <<"g", "h">> >>
ReviewDescendants == [a |-> {"g", "h"}, g |-> {}, h |-> {}]
ReviewOptions == [g |-> {NextStep, Terminate, GoTo("a")}, h |-> {NextStep, GoTo("h")}]
ReviewVisits == [a |-> 2, g |-> 2, h |-> 2]
ReviewRetry == [a |-> 1, g |-> 0, h |-> 0]

-----------------------------------------------------------------------------
IsComputed(yaml, deps, layers, descendants) ==
    LET flow == [ids |-> yaml, deps |-> deps]
    IN  /\ Graph!ValidGraph(flow)
        /\ layers = Graph!LayeredOrder(flow)
        /\ \A s \in DOMAIN deps : descendants[s] = Graph!Descendants(flow, s)

ASSUME FlowsAsComputed ==
    /\ IsComputed(LoopYaml, LoopDeps, LoopLayers, LoopDescendants)
    /\ IsComputed(ReviewYaml, ReviewDeps, ReviewLayers, ReviewDescendants)
=============================================================================
