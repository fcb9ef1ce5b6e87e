------------------------------ MODULE GateNotify ------------------------------
(***************************************************************************)
(* The notifications of pending gates: GatePendingFileHook, the gate       *)
(* drivers, and the way cli/main.py puts them together for one command.    *)
(*                                                                         *)
(* An invocation is one `flow run` or `flow resume` of the same run, or    *)
(* one call of a host that embeds the runner.  The gates are the parallel  *)
(* gates of one layer, which all go on with next_step; what a decision     *)
(* does to the run is the subject of StepRunner.                           *)
(***************************************************************************)
EXTENDS Naturals, FiniteSets

CONSTANTS
    Gate,         \* the gates of the layer
    MaxCrashes    \* bound: invocations that die

ASSUME NotifyAssumption == MaxCrashes \in Nat

VARIABLES
    hosted,    \* is the run driven by a host that always installs the hook, or
               \* by the command line?  Fixed for the run
    place,     \* place[g]: the status of gate g, and where its task is
    notice,    \* the gates with a notification file in logs_dir
    flags,     \* of the invocation: [choices, notify], the gates that
               \* --gate-option answers and whether --gate-notify is given
    running,   \* is the invocation alive?
    crashes

vars == <<hosted, place, notice, flags, running, crashes>>

(* spawned and asked are a gate that is not decided and has a task; a task *)
(* at pending or deciding has stored waiting_human or completed and its    *)
(* hook is due.                                                            *)
Resting == {"undecided", "waiting_human", "completed"}
Place == Resting \cup {"spawned", "asked", "pending", "deciding"}
Flags == [choices : SUBSET Gate, notify : BOOLEAN]

TypeOK ==
    /\ hosted \in BOOLEAN
    /\ place \in [Gate -> Place]
    /\ notice \subseteq Gate
    /\ flags \in Flags
    /\ running \in BOOLEAN
    /\ crashes \in Nat

Init ==
    /\ hosted \in BOOLEAN
    /\ place = [g \in Gate |-> "undecided"]
    /\ notice = {}
    /\ flags = [choices |-> {}, notify |-> FALSE]
    /\ running = FALSE
    /\ crashes = 0

-----------------------------------------------------------------------------
\* _runner: --gate-option selects the preset driver, and the hook comes only
\* with the pausing driver of --gate-notify.
HookInstalled == hosted \/ (flags.choices = {} /\ flags.notify)

\* A command starts: the layer runs the gates that are not completed.
Invoke(given) ==
    /\ ~running
    /\ \E g \in Gate : place[g] # "completed"
    /\ running' = TRUE
    /\ flags' = given
    /\ place' = [g \in Gate |-> IF place[g] = "completed" THEN "completed" ELSE "spawned"]
    /\ UNCHANGED <<notice, crashes>>

Moves(g, from, to) == running /\ place[g] = from /\ place' = [place EXCEPT ![g] = to]

\* The gate is stored as running and the driver is asked.
Start(g) ==
    /\ Moves(g, "spawned", "asked")
    /\ UNCHANGED <<notice, flags, running, crashes>>

\* The preset driver (or a person at the terminal) has an answer; decision and completed are stored.
Answer(g) ==
    /\ g \in flags.choices
    /\ Moves(g, "asked", "deciding")
    /\ UNCHANGED <<notice, flags, running, crashes>>

\* The driver returns None; waiting_human is stored.
Pend(g) ==
    /\ g \notin flags.choices
    /\ Moves(g, "asked", "pending")
    /\ UNCHANGED <<notice, flags, running, crashes>>

NotifyOnce(g) ==    \* mutant: only the first pending gate is written
    /\ Moves(g, "pending", "waiting_human")
    /\ notice' = IF HookInstalled /\ notice = {} THEN {g} ELSE notice
    /\ UNCHANGED <<flags, running, crashes>>
\* on_gate_pending: the notification is written in one rename.
OnGatePending(g) ==
    /\ Moves(g, "pending", "waiting_human")
    /\ notice' = IF HookInstalled THEN notice \cup {g} ELSE notice
    /\ UNCHANGED <<flags, running, crashes>>

KeepNotice(g) ==    \* mutant: the notification is not removed
    /\ Moves(g, "deciding", "completed")
    /\ UNCHANGED <<notice, flags, running, crashes>>
\* on_gate_decision: the notification is removed.
OnGateDecision(g) ==
    /\ Moves(g, "deciding", "completed")
    /\ notice' = IF HookInstalled THEN notice \ {g} ELSE notice
    /\ UNCHANGED <<flags, running, crashes>>

\* The layer is done, the command returns.
Return ==
    /\ running /\ \A g \in Gate : place[g] \in Resting
    /\ running' = FALSE
    /\ UNCHANGED <<place, notice, flags, crashes>>

\* The invocation dies: what was stored stays, hooks that were due do not run.
Dies ==
    /\ running /\ crashes < MaxCrashes
    /\ crashes' = crashes + 1
    /\ running' = FALSE
    /\ place' = [g \in Gate |->
         CASE place[g] \in {"spawned", "asked"} -> "undecided"
           [] place[g] = "pending" -> "waiting_human"
           [] place[g] = "deciding" -> "completed"
           [] OTHER -> place[g]]
    /\ UNCHANGED <<notice, flags>>

Next ==
    /\ \/ \E given \in Flags : Invoke(given)
       \/ \E g \in Gate : Start(g) \/ Answer(g) \/ Pend(g) \/ OnGatePending(g) \/ OnGateDecision(g)
       \/ Return \/ Dies
    /\ UNCHANGED hosted

Spec == Init /\ [][Next]_vars

-----------------------------------------------------------------------------
(* Properties.                                                             *)

Waiting == {g \in Gate : place[g] = "waiting_human"}

(* Under a host a notification is about a gate that is still to be         *)
(* decided: once a decision has landed and the invocation has returned its *)
(* file is gone.  (An invocation that dies between the two leaves it, and  *)
(* so does the command line when --gate-option decides a gate, because     *)
(* that command has no hook.)                                              *)
NoStaleNotice == hosted /\ ~running /\ crashes = 0 => \A g \in notice : place[g] # "completed"

(* An invocation of a host, or a command with --gate-notify alone, that    *)
(* returns leaves a notification of every gate that waits for a decision,  *)
(* also after earlier ones died.  (Beside --gate-option the command line   *)
(* drops --gate-notify.)                                                   *)
EveryWaitNotified ==
    [][running /\ ~running' /\ crashes' = crashes /\ flags.notify /\ (hosted \/ flags.choices = {})
         => Waiting \subseteq notice]_vars
=============================================================================
