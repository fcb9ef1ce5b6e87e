------------------------------ MODULE MCStores ------------------------------
(***************************************************************************)
(* A host keeps its runs in one store, chosen when it is set up            *)
(* (cli/main.py builds JsonFileStateStore; a host of the library may pass  *)
(* TaskFlowStateStore): the file of JsonStore, or the client of            *)
(* TaskFlowStore.                                                          *)
(***************************************************************************)
EXTENDS JsonStore, TaskFlowStore

VARIABLE kind    \* which of the two, fixed in a behaviour

HostInit == Init /\ TFInit /\ kind \in {"json", "taskflow"}

HostNext ==
    /\ \/ kind = "json" /\ Next /\ UNCHANGED tfVars
       \/ kind = "taskflow" /\ TFNext /\ UNCHANGED vars
    /\ UNCHANGED kind

HostSpec == HostInit /\ [][HostNext]_<<vars, tfVars, kind>>
=============================================================================
