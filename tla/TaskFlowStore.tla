---------------------------- MODULE TaskFlowStore ----------------------------
(***************************************************************************)
(* state_store/taskflow.py: the runs are kept in memory and every change   *)
(* of a run is saved whole through a client of the host, which may raise.  *)
(*                                                                         *)
(* An operation holds the lock of the store from its first line to its     *)
(* last, the call of the client included, so that it is one action here.   *)
(*                                                                         *)
(* run_to_dict copies a run but for its context: the payload that is saved *)
(* refers to the dict the store goes on changing, and run_from_dict takes  *)
(* over the dict of the payload.  A client that keeps payloads as they are *)
(* (the one of tests/test_state_store.py does) shares that dict.           *)
(***************************************************************************)
EXTENDS Naturals

CONSTANTS
    RunId,           \* the run ids
    KeepsReference,  \* does the client keep the payload itself, not a copy?
    RaisesWhen,      \* when a call of the client may raise: "before" it has
                     \* taken effect or "after"
    MaxCalls         \* bound: changes made to runs

ASSUME ClientAssumption ==
    /\ KeepsReference \in BOOLEAN
    /\ RaisesWhen \subseteq {"before", "after"}
    /\ MaxCalls \in Nat

VARIABLES
    runs,       \* runs[r]: the run in self._runs
    saved,      \* saved[r]: the payload the client has, as it reads now
    shared,     \* the runs whose context in memory is the client's object
    calls,      \* changes made so far, which number the values written
    confirmed,  \* confirmed[r]: the run as the operations that returned made it
    doubt       \* doubt[r]: how calls of the client for r have raised since the
                \* last one that returned

store == <<runs, saved, shared>>
tfVars == <<store, calls, confirmed, doubt>>

(* A run is its context and the rest of it; a number tells one value from  *)
(* another.                                                                *)
Record == [rest : Nat, context : Nat]
Missing == [rest |-> 0, context |-> 0]

TFTypeOK ==
    /\ runs \in [RunId -> Record] /\ saved \in [RunId -> Record] /\ confirmed \in [RunId -> Record]
    /\ shared \subseteq RunId
    /\ calls \in Nat
    /\ doubt \in [RunId -> SUBSET {"before", "after"}]

TFInit ==
    /\ runs = [r \in RunId |-> Missing]
    /\ saved = [r \in RunId |-> Missing]
    /\ shared = {}
    /\ calls = 0
    /\ confirmed = [r \in RunId |-> Missing]
    /\ doubt = [r \in RunId |-> {}]

-----------------------------------------------------------------------------
Stored(r) == runs[r] # Missing

\* The client returns: memory and client have the new record.
Confirms(r, record) ==
    /\ runs' = [runs EXCEPT ![r] = record]
    /\ saved' = [saved EXCEPT ![r] = record]
    /\ confirmed' = [confirmed EXCEPT ![r] = record]
    /\ shared' = IF KeepsReference /\ record # Missing THEN shared \cup {r} ELSE shared \ {r}
    /\ doubt' = [doubt EXCEPT ![r] = {}]

\* The client raises: what it has then, and what is put back in memory.
Refuses(r, when, left, kept) ==
    /\ when \in RaisesWhen
    /\ runs' = [runs EXCEPT ![r] = kept]
    /\ saved' = [saved EXCEPT ![r] = left]
    /\ shared' = shared \ {r}
    /\ doubt' = [doubt EXCEPT ![r] = @ \cup {when}]
    /\ UNCHANGED confirmed

Counted == calls < MaxCalls /\ calls' = calls + 1

CreateKeepsRun(r) ==    \* mutant: the run stays in memory when the save raises
    LET record == [rest |-> calls + 1, context |-> 0]
    IN  /\ runs[r] = Missing /\ saved[r] = Missing
        /\ Counted
        /\ \/ Confirms(r, record)
           \/ Refuses(r, "before", Missing, record)
           \/ Refuses(r, "after", record, record)
\* create_run, under an id that is in use nowhere.
CreateRun(r) ==
    LET record == [rest |-> calls + 1, context |-> 0]
    IN  /\ runs[r] = Missing /\ saved[r] = Missing
        /\ Counted
        /\ \/ Confirms(r, record)
           \/ Refuses(r, "before", Missing, Missing)
           \/ Refuses(r, "after", record, Missing)

\* What the client reads in its payload once the operation has changed the
\* context of the copy in memory, before anything is saved.
InPlace(r, record) ==
    IF r \in shared THEN [saved[r] EXCEPT !.context = record.context] ELSE saved[r]

KeepChange(r, record) ==    \* mutant: no roll back
    /\ Counted
    /\ \/ Confirms(r, record)
       \/ Refuses(r, "before", InPlace(r, record), record)
       \/ Refuses(r, "after", record, record)
\* _mutate_and_save: the operation, the save, and the deep copy taken before
\* them put back when the client raises.
MutateAndSave(r, record) ==
    /\ Counted
    /\ \/ Confirms(r, record)
       \/ Refuses(r, "before", InPlace(r, record), runs[r])
       \/ Refuses(r, "after", record, runs[r])

\* update_step, reset_step, update_flow_status and append_gate_decision.
ChangeRest(r) ==
    Stored(r) /\ MutateAndSave(r, [runs[r] EXCEPT !.rest = calls + 1])

SetContext(r) ==
    Stored(r) /\ MutateAndSave(r, [runs[r] EXCEPT !.context = calls + 1])

\* The operation itself raises, for there is no such run or no such step;
\* the deep copy takes the place of the run, if there is one.
OperationRaises(r) ==
    /\ shared' = shared \ {r}
    /\ UNCHANGED <<runs, saved, calls, confirmed, doubt>>

DeleteInMemory(r) ==    \* mutant: the client is not told
    /\ runs' = [runs EXCEPT ![r] = Missing]
    /\ confirmed' = [confirmed EXCEPT ![r] = Missing]
    /\ UNCHANGED <<saved, shared, calls, doubt>>
\* delete_run: the client first, memory only when it returned; whether the
\* run is there is not asked.
DeleteRun(r) ==
    /\ \/ Confirms(r, Missing)
       \/ /\ "before" \in RaisesWhen
          /\ doubt' = [doubt EXCEPT ![r] = @ \cup {"before"}]
          /\ UNCHANGED <<store, confirmed>>
       \/ Refuses(r, "after", Missing, runs[r])
    /\ UNCHANGED calls

\* A later store over the same client: __init__ and load_all.
Reopen ==
    /\ runs' = saved
    /\ confirmed' = saved
    /\ shared' = IF KeepsReference THEN {r \in RunId : saved[r] # Missing} ELSE {}
    /\ doubt' = [r \in RunId |-> {}]
    /\ UNCHANGED <<saved, calls>>

TFNext ==
    \/ \E r \in RunId : CreateRun(r) \/ ChangeRest(r) \/ SetContext(r)
                      \/ OperationRaises(r) \/ DeleteRun(r)
    \/ Reopen

TFSpec == TFInit /\ [][TFNext]_tfVars

-----------------------------------------------------------------------------
(* Properties.                                                             *)

(* Whoever reads the store finds exactly what the operations that returned *)
(* have made of a run: a change the client did not take is rolled back     *)
(* (docs/architecture.md:33), a run it did not take is gone, a run it did  *)
(* not delete is still there, whatever failed before.                      *)
ReadersSeeConfirmed == runs = confirmed

(* A later store finds the same, but for a run of which the client took a  *)
(* change and raised all the same, and but for the context of a run of     *)
(* which it refused a change, if it keeps what it is given by reference:   *)
(* there a set_context that raised is found done.  The next call that      *)
(* returns mends either.                                                   *)
RestartFindsConfirmed ==
    \A r \in RunId :
        \/ saved[r] = confirmed[r]
        \/ "after" \in doubt[r]
        \/ KeepsReference /\ "before" \in doubt[r] /\ saved[r].rest = confirmed[r].rest
=============================================================================
