----------------------------- MODULE References -----------------------------
(***************************************************************************)
(* References of a prompt to the outputs of other steps, {steps:x} and     *)
(* {g.steps:x}: what core/engine.py accepts before a flow runs, and what   *)
(* core/resolvers/steps.py makes of it when the prompt is rendered.        *)
(*                                                                         *)
(* A reference is a record [group, target]: the group named before .steps, *)
(* or NoGroup, and the step.  group maps every step to its group.          *)
(***************************************************************************)
EXTENDS FlowGraph

NoGroup == "no group"

GroupOf(group, s) == IF s \in DOMAIN group THEN group[s] ELSE NoGroup

(***************************************************************************)
(* FlowEngine._validate_references for one reference in the prompt of s.   *)
(* {memory:get:x} of a step x is held to the first two rules.              *)
(***************************************************************************)
\* mutant: the global prefix reaches into groups
ReferenceErrorsOfPrefix(flow, group, s, ref) ==
    IF ref.target \notin Ids(flow) THEN {"unknown step"}
    ELSE {e \in {"not upstream", "not in group"} :
            \/ e = "not upstream" /\ ref.target \notin Ancestors(flow, s)
            \/ e = "not in group" /\ ref.group # NoGroup /\ group[ref.target] # ref.group}
ReferenceErrors(flow, group, s, ref) ==
    IF ref.target \notin Ids(flow) THEN {"unknown step"}
    ELSE {e \in {"not upstream", "requires prefix", "not in group"} :
            \/ e = "not upstream" /\ ref.target \notin Ancestors(flow, s)
            \/ /\ e = "requires prefix"
               /\ ref.group = NoGroup /\ group[ref.target] # NoGroup
            \/ /\ e = "not in group"
               /\ ref.group # NoGroup /\ group[ref.target] # ref.group}

(***************************************************************************)
(* StepsResolver(ref.group).resolve, without a path into the output, where *)
(* the steps of `completed` have outputs.                                  *)
(***************************************************************************)
Resolve(group, completed, ref) ==
    IF GroupOf(group, ref.target) # ref.group THEN "not visible"
    ELSE IF ref.target \notin completed THEN "no output"
    ELSE "output"
=============================================================================
