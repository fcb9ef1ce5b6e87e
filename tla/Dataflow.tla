------------------------------ MODULE Dataflow ------------------------------
(***************************************************************************)
(* What running a flow promises about its data: a step is done by a visit  *)
(* of its own, with the values its ancestors have, and work that is undone *)
(* takes everything made from it along.  There is no driver here, no       *)
(* layer, no task and no status: any step whose ancestors are done may be  *)
(* visited, beside any other.                                              *)
(***************************************************************************)
EXTENDS Naturals

CONSTANTS Step,
          Gate,          \* the steps that take no input
          DescendantsOf, \* DescendantsOf[s]: the steps that depend on s
          MaxVisits      \* MaxVisits[s]: how often s may be visited

VARIABLES done,    \* the steps that have a value
          open,    \* the steps that are being visited
          visits,  \* visits[s]: how often s was visited
          value,   \* value[s]: the visit the value of s is from, 0 for none
          from,    \* from[s][d]: the value of d that the value of s was made from
          torn     \* was an undoing ever cut short by a crash?

vars == <<done, open, visits, value, from, torn>>

Ancestors(s) == {d \in Step : s \in DescendantsOf[d]}
Nothing == [s \in Step |-> 0]

\* What a visit to s gets to work with.
Inputs(s) == [d \in Step |-> IF s \notin Gate /\ d \in Ancestors(s) THEN value[d] ELSE 0]

Init ==
    /\ done = {} /\ open = {} /\ visits = Nothing
    /\ value = Nothing /\ from = [s \in Step |-> Nothing]
    /\ torn = FALSE

Visit(s) ==
    /\ s \notin done \cup open /\ Ancestors(s) \subseteq done
    /\ visits[s] < MaxVisits[s]
    /\ open' = open \cup {s}
    /\ visits' = [visits EXCEPT ![s] = @ + 1]
    /\ UNCHANGED <<done, value, from, torn>>

Complete(s) ==
    /\ s \in open
    /\ open' = open \ {s} /\ done' = done \cup {s}
    /\ value' = [value EXCEPT ![s] = visits[s]]
    /\ from' = [from EXCEPT ![s] = Inputs(s)]
    /\ UNCHANGED <<visits, torn>>

\* Visits end without a value.
Abandon(S) ==
    /\ open' = open \ S
    /\ UNCHANGED <<done, visits, value, from, torn>>

\* The values of R are taken away, and with them all that was made from
\* them unless the undoing is torn; never those that a visit works with.
Undo(R) ==
    /\ \A s \in open : Ancestors(s) \cap R = {}
    /\ torn' \in {torn, TRUE}
    /\ ~torn' => \A t \in done : Ancestors(t) \cap R # {} => t \in R
    /\ done' = done \ R
    /\ value' = [s \in Step |-> IF s \in R THEN 0 ELSE value[s]]
    /\ from' = [s \in Step |-> IF s \in R THEN Nothing ELSE from[s]]
    /\ UNCHANGED <<open, visits>>

Next ==
    \/ \E s \in Step : Visit(s) \/ Complete(s)
    \/ \E S \in SUBSET open : Abandon(S)
    \/ \E R \in SUBSET done : Undo(R)

Spec == Init /\ [][Next]_vars

(* What a user of the flow may rely on: a value is what its visit made of  *)
(* the values that are there now.                                          *)
Consistent ==
    ~torn => \A s \in done : Ancestors(s) \subseteq done /\ from[s] = Inputs(s)
=============================================================================
