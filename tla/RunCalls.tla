------------------------------ MODULE RunCalls ------------------------------
(***************************************************************************)
(* One run as the sequence of its store calls.  StepRunner has the         *)
(* interleavings of the steps of a run over a store that never fails; here *)
(* the flow is a chain of agents, so that nothing interleaves, and each    *)
(* call of the store is an action that may raise.  The process may die     *)
(* between any two of them, and other processes delete the run.            *)
(*                                                                         *)
(* An exception goes where the handlers of core/runner.py send it: to the  *)
(* caller of run(), to _mark_failed of the step, to the layer as an error  *)
(* of the task, or to the handlers of _execute_loop, which call the store  *)
(* again.                                                                  *)
(***************************************************************************)
EXTENDS Naturals

CONSTANTS
    Last,         \* the steps are 1 .. Last, each depends on the one before
    MaxVisits,    \* max_visits of every step
    Retry,        \* retry budget of every step
    AlwaysParsed, \* the steps whose accepted answers have a parsed value (those
                  \* with a JSON contract); the others' have one or not
    RaisesWhen,   \* a call that raises may have had no effect ("before") or
                  \* its effect ("after")
    MaxFaults     \* bound: how often calls raise or the process dies

ASSUME CallsAssumption ==
    /\ Last \in Nat \ {0} /\ MaxVisits \in Nat \ {0} /\ Retry \in Nat
    /\ AlwaysParsed \subseteq 1 .. Last
    /\ RaisesWhen \subseteq {"before", "after"}
    /\ MaxFaults \in Nat

Step == 1 .. Last
NoStep == 0

VARIABLES
    stored,    \* "none" before create_run, "stored", then perhaps "deleted"
    run,       \* the stored FlowRun, in which parsed[s] is the visit that the
               \* context value s.parsed is from
    pc,        \* the store call the process is at, "rendering" while resolvers
               \* work on a prompt, "exec" while an agent works, "idle" while no
               \* call of run(), retry_step() or edit_step() is under way
    at,        \* the step of the layer the driver has reached, or to be reset
    parsed,    \* does the answer of the agent have a parsed value?
    attempt,   \* the attempt of the visit the agent works on, 0 for none
    started,   \* started[s]: how often an agent was started for s
    late,      \* how many of them when the run was deleted already
    count,     \* how many calls raised and processes died
    marks      \* what the places at which they did are named for in Marking

faults == <<count, marks>>
agents == <<attempt, started, late>>
vars == <<stored, run, pc, at, parsed, agents, faults>>

(* What an exception of the call at a place leads to.                      *)
OnRaise == [
    workspace |-> "idle",  start |-> "idle",  mark |-> "idle",     \* in run()
    topology |-> "broken", done |-> "broken", return |-> "broken", \* except Exception
    visit |-> "failing",   begin |-> "failing", hook |-> "failing",\* the task raises
    render |-> "fail",     complete |-> "fail", parsed |-> "fail", \* _mark_failed
    fail |-> "failing",                                            \* and it raises
    memory |-> "topology",                                         \* swallowed
    failing |-> "idle",    failed |-> "idle", leave |-> "idle",    \* in a handler
    broken |-> "idle",     broke |-> "idle",
    edit |-> "idle",       reset |-> "idle",  restart |-> "idle"]  \* operator

Place == DOMAIN OnRaise

(* The faults the properties are about.  An exception or a death at one    *)
(* of the stranding calls may leave a run with no way on: failed at no     *)
(* failed step, or pending.  An unparsed step is completed without its     *)
(* parsed value, which _mark_failed repairs unless it is hit as well.      *)
Marking == [
    stranding |-> [raise |-> {"create", "workspace", "start", "topology", "visit", "begin",
                              "hook", "fail", "done", "return", "reset", "restart"},
                   death |-> {"workspace", "start", "reset", "restart"}],
    unparsed |-> [raise |-> {"complete", "parsed"}, death |-> {"parsed"}],
    unrepaired |-> [raise |-> {"fail"}, death |-> {"parsed", "fail"}]]
FlowStatus == {"pending", "running", "completed", "failed"}

StepStatus == {"pending", "running", "completed", "failed"}
Run == [flow : FlowStatus, current : Step \cup {NoStep}, status : [Step -> StepStatus],
        visits : [Step -> Nat], output : [Step -> Nat], parsed : [Step -> Nat]]

TypeOK ==
    /\ stored \in {"none", "stored", "deleted"}
    /\ run \in Run
    /\ pc \in Place \cup {"idle", "rendering", "exec"}
    /\ at \in 1 .. (Last + 1) /\ parsed \in BOOLEAN
    /\ pc \notin {"idle", "topology", "done", "return", "broken", "broke"} => at \in Step
    /\ pc = "idle" => at = 1
    /\ attempt \in 0 .. (Retry + 1) /\ started \in [Step -> Nat] /\ late \in Nat
    /\ count \in 0 .. MaxFaults /\ marks \subseteq DOMAIN Marking

None == [s \in Step |-> 0]
NoRun == [flow |-> "pending", current |-> NoStep, status |-> [s \in Step |-> "pending"],
          visits |-> None, output |-> None, parsed |-> None]

Init ==
    /\ stored = "none"
    /\ run = NoRun
    /\ pc = "idle" /\ at = 1 /\ parsed = FALSE
    /\ attempt = 0 /\ started = None /\ late = 0
    /\ count = 0 /\ marks = {}

-----------------------------------------------------------------------------
(* One store call.                                                         *)

Fault(kind, place) ==
    /\ count < MaxFaults
    /\ count' = count + 1
    /\ marks' = marks \cup {m \in DOMAIN Marking : place \in Marking[m][kind]}

Raises(place, after) ==
    /\ stored = "stored"
    /\ Fault("raise", place)
    /\ run' \in (IF "before" \in RaisesWhen THEN {run} ELSE {})
                \cup (IF "after" \in RaisesWhen THEN {after} ELSE {})
    /\ pc' = OnRaise[place]

CallsUnchecked(place, next, after) ==    \* mutant: the run need not be there
    /\ pc = place
    /\ \/ run' = after /\ pc' = next /\ UNCHANGED faults
       \/ Raises(place, after)
    /\ UNCHANGED stored
\* The call at this place makes the run what `after` says and the process
\* goes on at `next`, or it raises: because the store does, or because the
\* run is not there any more.
Calls(place, next, after) ==
    /\ pc = place
    /\ \/ /\ stored = "stored"
          /\ run' = after
          /\ pc' = next
          /\ UNCHANGED faults
       \/ Raises(place, after)
       \/ /\ stored = "deleted"
          /\ pc' = OnRaise[place]
          /\ UNCHANGED <<run, faults>>
    /\ UNCHANGED stored

Reads(place, next) == Calls(place, next, run)
SetFlow(flow, step) == [run EXCEPT !.flow = flow, !.current = step]

\* The local variables of a call end with it.
Kept == /\ at' = IF pc' = "idle" THEN 1 ELSE at
        /\ parsed' = (pc' # "idle" /\ parsed)
Local == Kept /\ UNCHANGED agents

-----------------------------------------------------------------------------
(* The head of run(), for a new run and for one that is resumed.           *)

\* create_run; the context and the status follow.
CreateRun ==
    /\ stored = "none" /\ pc = "idle"
    /\ stored' = "stored"
    /\ \/ pc' = "workspace" /\ UNCHANGED faults
       \/ "after" \in RaisesWhen /\ Fault("raise", "create") /\ UNCHANGED pc
    /\ UNCHANGED run /\ Local

SetWorkspace == Reads("workspace", "start") /\ Local

StartRun ==
    /\ Calls("start", "topology", SetFlow("running", NoStep))
    /\ Local

\* The status is checked; a resume_from would only change current_step.
Resume ==
    /\ stored = "stored" /\ pc = "idle" /\ run.flow = "running"
    /\ pc' = "mark"
    /\ UNCHANGED <<stored, run, faults>> /\ Local

MarkRunning ==
    /\ Calls("mark", "topology", SetFlow("running", run.current))
    /\ Local

-----------------------------------------------------------------------------
(* _execute_loop and _run_topology.                                        *)

Done(s) == run.status[s] = "completed"
Blocked(s) == run.status[s] = "failed" \/ (s > 1 /\ ~Done(s - 1))

\* The run is loaded for every layer.
EnterLayer ==
    /\ at <= Last
    /\ \/ Done(at) /\ Reads("topology", "topology") /\ at' = at + 1
       \/ ~Done(at) /\ Reads("topology", IF Blocked(at) THEN "failing" ELSE "visit")
          /\ UNCHANGED at
    /\ UNCHANGED <<parsed, agents>>

PassLast ==
    /\ pc = "topology" /\ at > Last
    /\ pc' = "done"
    /\ UNCHANGED <<stored, run, faults>> /\ Local

FinishRun == Calls("done", "return", SetFlow("completed", NoStep)) /\ Local

\* The run is loaded once more to return it, inside the try.
ReturnRun == Reads("return", "idle") /\ Local

\* except _StepFailed: the error, the status at the step, the load.
StoreFailure == Reads("failing", "failed") /\ Local
FailRunNowhere == Calls("failed", "leave", SetFlow("failed", NoStep)) /\ Local  \* mutant
FailRun == Calls("failed", "leave", SetFlow("failed", at)) /\ Local
LeaveFailed == Reads("leave", "idle") /\ Local

\* except Exception: the error and the status, then it is raised again.
StoreErrorAgain ==    \* mutant: the error is stored again until it is stored
    /\ pc = "broken" /\ pc' = IF stored = "stored" THEN "broke" ELSE "broken"
    /\ UNCHANGED <<stored, run, faults>> /\ Local
StoreError == Reads("broken", "broke") /\ Local
BreakRun == Calls("broke", "idle", SetFlow("failed", NoStep)) /\ Local

-----------------------------------------------------------------------------
(* _run_step.                                                              *)

VisitLimitReached == run.visits[at] + 1 > MaxVisits

CheckVisits ==
    /\ Reads("visit", IF VisitLimitReached THEN "fail" ELSE "begin")
    /\ Local

BeginUncounted ==    \* mutant: the visit is not counted before the work
    /\ Calls("begin", "hook", [run EXCEPT !.status[at] = "running", !.output[at] = 0])
    /\ Local
BeginStep ==
    /\ Calls("begin", "hook", [run EXCEPT !.status[at] = "running", !.output[at] = 0,
                                          !.visits[at] = @ + 1])
    /\ Local

\* The run is loaded for the before_step hook.
LoadForHook == Reads("hook", "render") /\ Local

\* _render_prompt loads the run once more and awaits the resolvers.
RenderPrompt == Reads("render", "rendering") /\ Local

\* An attempt starts an agent; no call of the store comes before it.
StartAgent(number) ==
    /\ attempt' = number
    /\ started' = [started EXCEPT ![at] = @ + 1]
    /\ late' = IF stored = "deleted" THEN late + 1 ELSE late

\* The prompt is there and the first attempt begins, or a resolver failed.
Rendered ==
    /\ pc = "rendering"
    /\ \/ pc' = "exec" /\ StartAgent(1)
       \/ pc' = "fail" /\ UNCHANGED agents
    /\ UNCHANGED <<stored, run, at, parsed, faults>>

\* An attempt is over: its answer is accepted, or the next one begins, or
\* the visit has failed with the last of its budget.
AttemptEnds ==
    /\ pc = "exec"
    /\ \/ /\ pc' = "complete"
          /\ parsed' \in IF at \in AlwaysParsed THEN {TRUE} ELSE BOOLEAN
          /\ attempt' = 0 /\ UNCHANGED <<started, late>>
       \/ attempt <= Retry /\ StartAgent(attempt + 1) /\ UNCHANGED <<pc, parsed>>
       \/ /\ attempt > Retry /\ pc' = "fail"
          /\ attempt' = 0 /\ UNCHANGED <<started, late, parsed>>
    /\ UNCHANGED <<stored, run, at, faults>>

CompleteStep ==
    /\ Calls("complete", IF parsed THEN "parsed" ELSE "memory",
             [run EXCEPT !.status[at] = "completed", !.output[at] = run.visits[at]])
    /\ Local

ParsedOnce ==    \* mutant: the value of the first visit is kept
    /\ Calls("parsed", "memory",
             [run EXCEPT !.parsed[at] = IF @ = 0 THEN run.visits[at] ELSE @])
    /\ Local
StoreParsed ==
    /\ Calls("parsed", "memory", [run EXCEPT !.parsed[at] = run.visits[at]])
    /\ Local

\* _write_memory: there is a memory id to store, or not.
WriteMemory ==
    /\ Reads("memory", "topology") \/ (pc = "memory" /\ pc' = "topology"
                                         /\ UNCHANGED <<stored, run, faults>>)
    /\ at' = at + 1 /\ parsed' = FALSE /\ UNCHANGED agents

\* _mark_failed and _fail_step; the task raises then.
MarkFailed ==
    /\ Calls("fail", "failing", [run EXCEPT !.status[at] = "failed", !.output[at] = 0])
    /\ Local

-----------------------------------------------------------------------------
(* retry_step and edit_step: the step and all after it are reset in turn.  *)

AskRetry(s) ==
    /\ stored = "stored" /\ pc = "idle" /\ run.status[s] = "failed"
    /\ pc' = "reset" /\ at' = s
    /\ UNCHANGED <<stored, run, parsed, agents, faults>>

AskEdit(s) ==
    /\ stored = "stored" /\ pc = "idle"
    /\ pc' = "edit" /\ at' = s
    /\ UNCHANGED <<stored, run, parsed, agents, faults>>

StoreEdit == Reads("edit", "reset") /\ Local

ResetStep ==
    /\ Calls("reset", IF at = Last THEN "restart" ELSE "reset",
             [run EXCEPT !.status[at] = "pending", !.output[at] = 0])
    /\ at' = IF pc' = "reset" THEN at + 1 ELSE 1
    /\ UNCHANGED <<parsed, agents>>

\* update_flow_status of the operation; current_step is data here.
Restart == Calls("restart", "idle", SetFlow("running", NoStep)) /\ Local

-----------------------------------------------------------------------------
(* The other processes, and the death of this one.                         *)

\* delete, or the cleanup at the end of another command if the run has ended.
Delete ==
    /\ stored = "stored"
    /\ stored' = "deleted"
    /\ run' = NoRun
    /\ UNCHANGED <<pc, at, parsed, agents, faults>>

Dies ==
    /\ pc # "idle"
    /\ Fault("death", pc)
    /\ pc' = "idle"
    /\ Kept /\ attempt' = 0
    /\ UNCHANGED <<stored, run, started, late>>

-----------------------------------------------------------------------------
ProcessStep ==
    \/ SetWorkspace \/ StartRun \/ MarkRunning
    \/ EnterLayer \/ PassLast \/ FinishRun \/ ReturnRun
    \/ StoreFailure \/ FailRun \/ LeaveFailed \/ StoreError \/ BreakRun
    \/ CheckVisits \/ BeginStep \/ LoadForHook \/ RenderPrompt \/ Rendered \/ AttemptEnds
    \/ CompleteStep \/ StoreParsed \/ WriteMemory \/ MarkFailed
    \/ StoreEdit \/ ResetStep \/ Restart

Next ==
    \/ CreateRun \/ Resume \/ \E s \in Step : AskRetry(s) \/ AskEdit(s)
    \/ ProcessStep \/ Delete \/ Dies

Spec == Init /\ [][Next]_vars

(* A store call returns or raises, and so does an adapter within its time. *)
FairSpec == Spec /\ WF_vars(ProcessStep)

-----------------------------------------------------------------------------
(* Properties.                                                             *)

AllDone == \A s \in Step : Done(s)

(* A run nobody is working on is completed with all of its steps, or may   *)
(* be resumed, or may be retried at the failed step it names: whatever the *)
(* store and the process do, but at the stranding calls.                   *)
CanGoOn ==
    stored = "stored" /\ pc = "idle" =>
        \/ run.flow = "completed" /\ AllDone
        \/ run.flow = "running"
        \/ run.flow = "failed" /\ run.current # NoStep /\ run.status[run.current] = "failed"
        \/ "stranding" \in marks

(* The completion of a step was stored and its parsed value was not.       *)
Torn == {"unparsed", "unrepaired"} \subseteq marks

(* The parsed value that prompts of later steps get of a completed step is *)
(* of the same visit as the output they get: unless the process died       *)
(* between the two calls that store them, or could not take back the first *)
(* when the second raised.                                                 *)
ParsedIsOfOutput ==
    stored = "stored" => \A s \in AlwaysParsed :
        Done(s) /\ ~(at = s /\ pc \in {"parsed", "fail"}) /\ ~Torn
            => run.parsed[s] = run.output[s]

(* However often the process dies or the store raises, and whatever is     *)
(* retried, edited and resumed after it, the agents started for a step are *)
(* at most the attempts of max_visits visits: a visit is counted before    *)
(* its first agent starts, and no attempt is made outside a counted visit. *)
StartsBounded == \A s \in Step : started[s] <= MaxVisits * (Retry + 1)

(* A run that another process has deleted gets no further visit: its       *)
(* driver starts at most the agents of the visit whose prompt was loaded   *)
(* before, which is how late the driver can learn of the deletion.         *)
LateStartsBounded == late <= Retry + 1

(* Every call of run(), retry_step() and edit_step() comes to its end, on  *)
(* a store that raises in the handlers too and on a run that is deleted.   *)
CallEnds == (pc # "idle") ~> (pc = "idle")
=============================================================================
