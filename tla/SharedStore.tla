----------------------------- MODULE SharedStore -----------------------------
(***************************************************************************)
(* What a state store promises the processes that share it: every change   *)
(* is applied to the current contents in one step, and every read returns  *)
(* the current contents; except through a process that has gone astray,    *)
(* which reads and writes as if the contents were something else.          *)
(***************************************************************************)
CONSTANTS Run,       \* the runs that may be stored
          Process

VARIABLES contents,  \* the runs that are stored
          answer,    \* answer[p]: what the last read of process p returned
          astray     \* the processes whose view may not be the contents

Init == contents = {} /\ answer = [p \in Process |-> {}] /\ astray = {}

\* The process that writes sees what it wrote; others may lose sight of it.
Written(p) == p \notin astray' /\ astray \ {p} \subseteq astray' /\ astray' \subseteq Process

\* A run is created or updated (it is in the contents then), or deleted.
Change(p, w) ==
    /\ p \notin astray
    /\ contents' \in {contents \cup {w}, contents \ {w}}
    /\ Written(p) /\ UNCHANGED answer

Overwrite(p) ==
    /\ p \in astray
    /\ contents' \in SUBSET Run
    /\ Written(p) /\ UNCHANGED answer

\* A read of a process that is not astray, or finds its way back by it.
Read(p) ==
    /\ astray' \in {astray, astray \ {p}}
    /\ \E runs \in SUBSET Run :
           /\ p \notin astray' => runs = contents
           /\ answer' = [answer EXCEPT ![p] = runs]
    /\ UNCHANGED contents

\* A refused change leads its process astray; a load or a restart brings it back.
Strays(p) == astray' \in {astray \cup {p}, astray \ {p}} /\ UNCHANGED <<contents, answer>>

Next ==
    \E p \in Process :
        (\E w \in Run : Change(p, w)) \/ Overwrite(p) \/ Read(p) \/ Strays(p)

Spec == Init /\ [][Next]_<<contents, answer, astray>>
=============================================================================
