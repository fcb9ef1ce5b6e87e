----------------------------- MODULE StepRunner -----------------------------
(***************************************************************************)
(* One run of one flow, driven by core/runner.py.                          *)
(*                                                                         *)
(* The driver is the coroutine _execute_loop: it walks the layers of the   *)
(* flow, runs the steps of a layer as concurrent tasks, waits for all of   *)
(* them and acts on what they return.  Every task is a coroutine that      *)
(* other tasks interleave with at each of its awaits.  What the store      *)
(* holds survives a crash of the process; the coroutines do not.           *)
(*                                                                         *)
(* One action is one stretch of code between two awaits, with every store  *)
(* call it makes.  Where the process may die between two store calls of    *)
(* one stretch, a CrashIn... action performs the prefix.                   *)
(***************************************************************************)
EXTENDS Naturals, FiniteSets, SequencesExt

CONSTANTS
    Step,            \* the step ids of the flow
    NoStep,          \* Python's None where a step id is expected
    Gate,            \* the steps of type human_gate; the others are agents
    Deps,            \* Deps[s]: the depends_on of s
    DescendantsOf,   \* DescendantsOf[s]: FlowEngine.descendants(flow, s)
    Layers,          \* FlowEngine.layered_order(flow), a sequence of sequences
    YamlOrder,       \* the ids in the order of flow.steps
    Options,         \* Options[g]: the options of gate g
    MaxVisits,       \* MaxVisits[s]: step.max_visits or defaults.max_visits
    Retry,           \* Retry[s]: the retry budget of an agent step
    FailFast,        \* defaults.fail_fast
    Suspends,        \* the places at which injected code (hooks, gate driver,
                     \* memory client) suspends the task that calls it
    Operations,      \* which of "retry", "edit", "cancel", "host_cancel" happen
    OperatorOverlaps,\* may an operator act while a driver is running?
    CrashPoints,     \* which of "await", "create", "gate", "reset" happen
    MaxCrashes       \* bound: crashes per behaviour

Option == [action : {"next_step", "goto_step", "terminate"}, target : Step \cup {NoStep}]
NoOption == [action |-> "next_step", target |-> NoStep]

LayerSteps(i) == ToSet(Layers[i])

(* What FlowEngine.validate guarantees of a flow that runs (FlowGraph      *)
(* checks it of the algorithms): the layers partition the steps, a step    *)
(* comes after what it depends on, DescendantsOf is the closure of Deps.     *)
ASSUME GraphAssumption ==
    /\ NoStep \notin Step
    /\ Deps \in [Step -> SUBSET Step]
    /\ DescendantsOf \in [Step -> SUBSET Step]
    /\ Layers \in Seq(Seq(Step))
    /\ \A i, j \in DOMAIN Layers : LayerSteps(i) \cap LayerSteps(j) # {} => i = j
    /\ \A s \in Step : \E i \in DOMAIN Layers : s \in LayerSteps(i)
    /\ \A i \in DOMAIN Layers : \A s \in LayerSteps(i) : \A d \in Deps[s] :
         \E k \in 1 .. (i - 1) : d \in LayerSteps(k)
    /\ \A s, t \in Step :
         t \in DescendantsOf[s] <=> \E d \in Deps[t] : d = s \/ d \in DescendantsOf[s]

ASSUME FlowAssumption ==
    /\ Gate \subseteq Step
    /\ YamlOrder \in Seq(Step) /\ Step \subseteq ToSet(YamlOrder)
    /\ Options \in [Gate -> SUBSET Option]
    /\ \A g \in Gate : \A o \in Options[g] : o.action = "goto_step" <=> o.target # NoStep
    /\ MaxVisits \in [Step -> Nat \ {0}]
    /\ Retry \in [Step -> Nat]

CrashPoint == {"await", "create", "gate", "reset"}

ASSUME ScheduleAssumption ==
    /\ {FailFast, OperatorOverlaps} \subseteq BOOLEAN
    /\ Suspends \subseteq {"before", "after", "ask", "notify", "decided", "erring"}
    /\ Operations \subseteq {"retry", "edit", "cancel", "host_cancel"}
    /\ CrashPoints \subseteq CrashPoint
    /\ MaxCrashes \in Nat

VARIABLES
    (* The store: a FlowRun. *)
    flowStatus,   \* run.status, "none" before create_run
    currentStep,  \* run.current_step
    status,       \* run.steps[s].status
    visits,       \* run.steps[s].visit_count
    output,       \* run.steps[s].output: 0 for None, else the visit it is from
    used,         \* used[s][d]: the output of d that the prompt of s was last
                  \* offered, 0 for none
    decisions,    \* run.gate_decisions, each with the visit that took it
    (* The process: the driver and the tasks of its current layer. *)
    loop,         \* where the driver is: "none", "topology", "wait" or "gather"
                  \* in _run_layer, "cancelled" once the host cancelled it
                  \* there, "orphaned" when it left and its tasks did not
    layer,        \* the layer _run_topology has reached
    task,         \* task[s]: where the task of s is
    attempt,      \* task-local: attempts made in this visit
    choice,       \* task-local: the option the gate driver returned
    cancelReq,    \* the tasks with a cancellation to deliver
    crashes       \* how often the process died, and whether it did between the
                  \* store calls of a reset

steps == <<status, visits, output, used>>
run == <<flowStatus, currentStep, steps, decisions>>
process == <<loop, layer, task, attempt, choice, cancelReq>>
vars == <<run, process, crashes>>

FlowStatus == {"pending", "running", "paused", "completed", "failed", "cancelled"}
StepStatus == {"pending", "running", "waiting_human", "completed", "failed", "skipped"}

(* Where a task is.  An agent goes through before (before_step hook),      *)
(* render (the resolvers), exec (the adapter) and after (memory write and  *)
(* after_step hook); a gate through before, ask (the gate driver), notify  *)
(* (on_gate_pending hook) or decided (on_gate_decision and after_step).    *)
(* erring is the on_error hook.  Ends are the ways the coroutine returns.  *)
Active == {"before", "render", "exec", "after", "ask", "notify", "decided", "erring"}
Failures == {"failed", "cancelled"}                \* it raised
Controls == {"pause", "goto_step", "terminate"}    \* it returned a _Control
Ends == {"ok"} \cup Failures \cup Controls
TaskState == {"idle", "spawned"} \cup Active \cup Ends

TypeOK ==
    /\ flowStatus \in FlowStatus \cup {"none"}
    /\ currentStep \in Step \cup {NoStep}
    /\ status \in [Step -> StepStatus]
    /\ visits \in [Step -> Nat]
    /\ output \in [Step -> Nat]
    /\ decisions \subseteq [step : Gate, visit : Nat, option : Option]
    /\ loop \in {"none", "topology", "wait", "gather", "cancelled", "orphaned"}
    /\ layer \in Nat \ {0}
    /\ task \in [Step -> TaskState]
    /\ attempt \in [Step -> Nat]
    /\ used \in [Step -> [Step -> Nat]]
    /\ choice \in [Step -> Option]
    /\ cancelReq \subseteq Step
    /\ crashes \in [count : Nat, cutReset : BOOLEAN]

-----------------------------------------------------------------------------
(* Helpers.                                                                *)

IsDoneOrFailed(s) == status[s] \in {"completed", "skipped", "failed"}    \* mutant
IsDone(s) == status[s] \in {"completed", "skipped"}
Ancestors(s) == {d \in Step : s \in DescendantsOf[d]}
Nothing == [s \in Step |-> 0]

Live(s) == task[s] \in Active \cup {"spawned"}
AllEnded == \A s \in Step : ~Live(s)
Ended(kinds) == {s \in Step : task[s] \in kinds}

\* The first step of S in the order of the driver's layer.
First(S) == LET inLayer == Layers[layer]
                i == CHOOSE i \in DOMAIN inLayer :
                       inLayer[i] \in S /\ \A j \in 1 .. (i - 1) : inLayer[j] \notin S
            IN  inLayer[i]

\* _reset_from: the target and its descendants, reset in YAML order.  The
\* first `count` ids of the flow have been considered.
ResetTargetOnly(target, count) == {target}    \* mutant
ResetDependants(target, count) ==             \* mutant: only one level down
    ({target} \cup {t \in Step : target \in Deps[t]}) \cap {YamlOrder[i] : i \in 1 .. count}
ResetSet(target, count) ==
    ({target} \cup DescendantsOf[target]) \cap {YamlOrder[i] : i \in 1 .. count}

\* mutant: reset_step forgets the visits as well
ResetStepsAndVisits(R) ==
    /\ status' = [s \in Step |-> IF s \in R THEN "pending" ELSE status[s]]
    /\ output' = [s \in Step |-> IF s \in R THEN 0 ELSE output[s]]
    /\ used' = [s \in Step |-> IF s \in R THEN Nothing ELSE used[s]]
    /\ visits' = [s \in Step |-> IF s \in R THEN 0 ELSE visits[s]]

\* reset_step on every member of R; visit_count is kept.
ResetSteps(R) ==
    /\ status' = [s \in Step |-> IF s \in R THEN "pending" ELSE status[s]]
    /\ output' = [s \in Step |-> IF s \in R THEN 0 ELSE output[s]]
    /\ used' = [s \in Step |-> IF s \in R THEN Nothing ELSE used[s]]
    /\ UNCHANGED visits

\* update_step with a status and an output.
Put(s, newStatus, newOutput) ==
    /\ status' = [status EXCEPT ![s] = newStatus]
    /\ output' = [output EXCEPT ![s] = newOutput]

SetFlow(newStatus, step) == flowStatus' = newStatus /\ currentStep' = step

Goes(s, place) == task' = [task EXCEPT ![s] = place]

\* The coroutines of the process are gone.
NoTasks ==
    /\ task' = [s \in Step |-> "idle"]
    /\ attempt' = [s \in Step |-> 0]
    /\ choice' = [s \in Step |-> NoOption]
    /\ cancelReq' = {}

\* run() returns or raises.
DriverLeaves == loop' = "none" /\ layer' = 1 /\ NoTasks /\ UNCHANGED crashes

DiesAt(point) ==
    /\ point \in CrashPoints /\ crashes.count < MaxCrashes
    /\ crashes' = [count |-> crashes.count + 1, cutReset |-> crashes.cutReset \/ point = "reset"]

Init ==
    /\ flowStatus = "none"
    /\ currentStep = NoStep
    /\ status = [s \in Step |-> "pending"]
    /\ visits = [s \in Step |-> 0]
    /\ output = [s \in Step |-> 0]
    /\ decisions = {}
    /\ loop = "none"
    /\ layer = 1
    /\ task = [s \in Step |-> "idle"]
    /\ attempt = [s \in Step |-> 0]
    /\ used = [s \in Step |-> Nothing]
    /\ choice = [s \in Step |-> NoOption]
    /\ cancelReq = {}
    /\ crashes = [count |-> 0, cutReset |-> FALSE]

-----------------------------------------------------------------------------
(* The entry of run() and the layers of _run_topology.                     *)

\* The bounds of the walk over the layers.
PastLayers == layer > Len(Layers)

\* run(flow): the flow, its resolvers and its secrets are valid.
StartRun ==
    /\ loop = "none" /\ flowStatus = "none"
    /\ SetFlow("running", NoStep)
    /\ loop' = "topology" /\ layer' = 1
    /\ UNCHANGED <<steps, decisions, task, attempt, choice, cancelReq, crashes>>

\* _validate_resume_target, for resume_from = target.
CanResumeFrom(target) ==
    status[target] # "failed" /\ \A d \in Ancestors(target) : IsDone(d)

\* run(run_id, resume_from = target), target = NoStep for none.
Resume(target) ==
    /\ loop = "none"
    /\ flowStatus \in {"paused", "running"}
    /\ flowStatus = "paused" => currentStep # NoStep
    /\ target # NoStep => CanResumeFrom(target)
    /\ SetFlow("running", IF target # NoStep THEN target ELSE currentStep)
    /\ loop' = "topology" /\ layer' = 1
    /\ UNCHANGED <<steps, decisions, task, attempt, choice, cancelReq, crashes>>

\* A step _run_topology stops the run at: failed, or ahead of a dependency.
Blocked(s) == ~IsDone(s) /\ (status[s] = "failed" \/ \E d \in Deps[s] : ~IsDone(d))

Runnable(i) == {s \in LayerSteps(i) : ~IsDone(s)}

AtLayer == loop = "topology" /\ layer <= Len(Layers)

SkipLayer ==
    /\ AtLayer /\ Runnable(layer) = {}
    /\ layer' = layer + 1
    /\ UNCHANGED <<run, loop, task, attempt, choice, cancelReq, crashes>>

\* _StepFailed from _run_topology, caught by _execute_loop.
BlockedLayer ==
    /\ AtLayer
    /\ LET blocked == {s \in LayerSteps(layer) : Blocked(s)}
       IN  blocked # {} /\ SetFlow("failed", First(blocked))
    /\ DriverLeaves
    /\ UNCHANGED <<steps, decisions>>

\* _run_layer creates one task per runnable step; with fail_fast and more
\* than one it waits for the first exception before it gathers.
EnterLayer ==
    /\ AtLayer /\ Runnable(layer) # {}
    /\ \A s \in LayerSteps(layer) : ~Blocked(s)
    /\ task' = [s \in Step |-> IF s \in Runnable(layer) THEN "spawned" ELSE "idle"]
    /\ loop' = IF FailFast /\ Cardinality(Runnable(layer)) > 1 THEN "wait" ELSE "gather"
    /\ UNCHANGED <<run, layer, attempt, choice, cancelReq, crashes>>

\* _run_topology returns None: every layer is behind.
FinishRun ==
    /\ loop = "topology" /\ PastLayers
    /\ SetFlow("completed", NoStep)
    /\ DriverLeaves
    /\ UNCHANGED <<steps, decisions>>

-----------------------------------------------------------------------------
(* The task of a step: _run_step and _run_gate.                            *)

\* A task suspended here has a cancellation to receive instead.  The places
\* inside injected code suspend only if that code does.
Interrupted(s) == s \in cancelReq /\ task[s] \in {"spawned", "render", "exec"} \cup Suspends

At(s, place) == task[s] = place /\ ~Interrupted(s)

TaskFrame == UNCHANGED <<flowStatus, currentStep, loop, layer, cancelReq, crashes>>

MarkedAsError(s) == Put(s, "error", 0) /\ Goes(s, "erring")    \* mutant
\* _mark_failed: the failure is stored, then the on_error hook runs.
MarkFailed(s) == Put(s, "failed", 0) /\ Goes(s, "erring")

VisitLimitReached(s) == visits[s] + 1 > MaxVisits[s]

GateNotCounted(s) ==    \* mutant
    visits' = IF s \in Gate THEN visits ELSE [visits EXCEPT ![s] = @ + 1]
CountVisit(s) == visits' = [visits EXCEPT ![s] = @ + 1]

\* The common head of an agent and a gate: the visit limit, then running.
StartStep(s) ==
    /\ At(s, "spawned")
    /\ IF VisitLimitReached(s)
       THEN MarkFailed(s) /\ UNCHANGED visits
       ELSE /\ Put(s, "running", 0)
            /\ CountVisit(s)
            /\ Goes(s, "before")
    /\ UNCHANGED <<used, decisions, attempt, choice>> /\ TaskFrame

\* What _render_prompt offers a prompt: the output of every step that is
\* completed.  The prompts of a valid flow name upstream steps only; one that
\* edit_step stored may name any step.
Offered == [d \in Step |-> IF status[d] = "completed" THEN output[d] ELSE 0]

\* The before_step hook is over and _render_prompt loads the run at once.
BeforeDone(s) ==
    /\ At(s, "before")
    /\ IF s \in Gate
       THEN Goes(s, "ask") /\ UNCHANGED used
       ELSE Goes(s, "render") /\ used' = [used EXCEPT ![s] = Offered]
    /\ UNCHANGED <<status, visits, output, decisions, attempt, choice>> /\ TaskFrame

RenderDone(s) ==
    /\ At(s, "render")
    /\ Goes(s, "exec")
    /\ attempt' = [attempt EXCEPT ![s] = 1]
    /\ UNCHANGED <<steps, decisions, choice>> /\ TaskFrame

ErrorNotStored(s) ==    \* mutant: the failure is not stored
    /\ At(s, "render") \/ At(s, "exec")
    /\ Goes(s, "erring")
    /\ UNCHANGED <<steps, decisions, attempt, choice>> /\ TaskFrame
\* A missing secret, a resolver that raises, or an error around the adapter (a
\* result of the wrong type), which ends the step whatever attempts are left.
InternalError(s) ==
    /\ At(s, "render") \/ At(s, "exec")
    /\ MarkFailed(s)
    /\ UNCHANGED <<visits, used, decisions, attempt, choice>> /\ TaskFrame

\* The result is ok and keeps the output contract.
AttemptAccepted(s) ==
    /\ At(s, "exec")
    /\ Put(s, "completed", visits[s])
    /\ Goes(s, "after")
    /\ UNCHANGED <<visits, used, decisions, attempt, choice>> /\ TaskFrame

\* The adapter raised, the result is not ok, or it breaks the contract: the
\* next attempt, or _fail_step with the output the last one left, if any.
AttemptRejected(s) ==
    /\ At(s, "exec")
    /\ \/ /\ attempt[s] <= Retry[s]
          /\ attempt' = [attempt EXCEPT ![s] = @ + 1]
          /\ UNCHANGED <<status, output, task>>
       \/ /\ attempt[s] > Retry[s]
          /\ \E left \in {0, visits[s]} : Put(s, "failed", left)
          /\ Goes(s, "erring")
          /\ UNCHANGED attempt
    /\ UNCHANGED <<visits, used, decisions, choice>> /\ TaskFrame

AfterFails(s) ==    \* mutant: what the memory write raises fails the step
    /\ At(s, "after")
    /\ \/ Goes(s, "ok") /\ UNCHANGED <<status, output>>
       \/ MarkFailed(s)
    /\ UNCHANGED <<visits, used, decisions, attempt, choice>> /\ TaskFrame
\* The memory write and the after_step hook are over, whatever they raised.
AfterDone(s) ==
    /\ At(s, "after")
    /\ Goes(s, "ok")
    /\ UNCHANGED <<steps, decisions, attempt, choice>> /\ TaskFrame

ErrorDone(s) ==
    /\ At(s, "erring")
    /\ Goes(s, "failed")
    /\ UNCHANGED <<steps, decisions, attempt, choice>> /\ TaskFrame

\* The gate driver raises, or answers with an option the gate does not have.
AskFails(s) ==
    /\ At(s, "ask")
    /\ MarkFailed(s)
    /\ UNCHANGED <<visits, used, decisions, attempt, choice>> /\ TaskFrame

\* The gate driver answers None: the decision is left to a later resume.
AskPends(s) ==
    /\ At(s, "ask")
    /\ Put(s, "waiting_human", 0)
    /\ Goes(s, "notify")
    /\ UNCHANGED <<visits, used, decisions, attempt, choice>> /\ TaskFrame

NotifyDone(s) ==
    /\ At(s, "notify")
    /\ Goes(s, "pause")
    /\ UNCHANGED <<steps, decisions, attempt, choice>> /\ TaskFrame

Decision(s, option) == [step |-> s, visit |-> visits[s], option |-> option]

\* append_gate_decision, then the gate is completed.
AskAnswers(s, option) ==
    /\ At(s, "ask")
    /\ decisions' = decisions \cup {Decision(s, option)}
    /\ Put(s, "completed", visits[s])
    /\ choice' = [choice EXCEPT ![s] = option]
    /\ Goes(s, "decided")
    /\ UNCHANGED <<visits, used, attempt>> /\ TaskFrame

OnlyGoto(s) == IF choice[s].action = "goto_step" THEN "goto_step" ELSE "ok"    \* mutant
Control(s) == IF choice[s].action = "next_step" THEN "ok" ELSE choice[s].action

\* The on_gate_decision and after_step hooks are over.
DecidedDone(s) ==
    /\ At(s, "decided")
    /\ Goes(s, Control(s))
    /\ UNCHANGED <<steps, decisions, attempt, choice>> /\ TaskFrame

\* CancelledError reaches the task.  Only the body of an agent's try handles
\* it, by storing a failure: a task that has not started, a gate, and a
\* before_step hook leave the step as it is.
HandlesNothing(s) == FALSE    \* mutant
Handles(s) == s \notin Gate /\ task[s] \in {"render", "exec", "after", "erring"}

CancelDelivered(s) ==
    /\ Live(s) /\ s \in cancelReq /\ Interrupted(s)
    /\ IF Handles(s) THEN Put(s, "failed", 0) ELSE UNCHANGED <<status, output>>
    /\ Goes(s, "cancelled")
    /\ UNCHANGED <<visits, used, decisions, attempt, choice>> /\ TaskFrame

-----------------------------------------------------------------------------
(* The driver waits for the layer and acts on it: _run_layer and           *)
(* _execute_loop.                                                          *)

\* asyncio.wait returns at the first exception, or when all are done; by
\* then every task has run its first stretch.  A failure cancels the rest.
WaitEnds ==
    /\ loop = "wait"
    /\ AllEnded \/ (Ended({"failed"}) # {} /\ Ended({"spawned"}) = {})
    /\ cancelReq' = IF Ended({"failed"}) # {} THEN {s \in Step : Live(s)} ELSE {}
    /\ loop' = "gather"
    /\ UNCHANGED <<run, layer, task, attempt, choice, crashes>>

LayerEnds == loop = "gather" /\ AllEnded

\* The failures win over every control, and the first of them is raised.
LayerFails ==
    /\ LayerEnds /\ Ended(Failures) # {}
    /\ SetFlow("failed", First(Ended(Failures)))
    /\ DriverLeaves
    /\ UNCHANGED <<steps, decisions>>

NoFailure == Ended(Failures) = {}
Deciding == Ended({"goto_step", "terminate"})

\* The steps whose _Control takes part in the verdict on the layer.
PausesIgnored == Deciding    \* mutant: only the decisions are compared
Controlling == Ended(Controls)

\* A goto or terminate beside any other control.
LayerConflicts ==
    /\ LayerEnds /\ NoFailure
    /\ Deciding # {} /\ Cardinality(Controlling) > 1
    /\ Put(First(Deciding), "failed", 0)
    /\ SetFlow("failed", First(Deciding))
    /\ DriverLeaves
    /\ UNCHANGED <<visits, used, decisions>>

\* The only control of the layer is this one.
Sole(kind, s) == LayerEnds /\ NoFailure /\ s \in Deciding /\ Controlling = {s} /\ task[s] = kind

LayerTerminates(s) ==
    /\ Sole("terminate", s)
    /\ SetFlow("cancelled", NoStep)
    /\ DriverLeaves
    /\ UNCHANGED <<steps, decisions>>

LayerGoesTo(s) ==
    /\ Sole("goto_step", s)
    /\ ResetSteps(ResetSet(choice[s].target, Len(YamlOrder)))
    /\ SetFlow("running", choice[s].target)
    /\ loop' = "topology" /\ layer' = 1 /\ NoTasks
    /\ UNCHANGED <<decisions, crashes>>

LayerPauses ==
    /\ LayerEnds /\ NoFailure
    /\ Deciding = {} /\ Controlling # {}
    /\ SetFlow("paused", First(Ended({"pause"})))
    /\ DriverLeaves
    /\ UNCHANGED <<steps, decisions>>

LayerPasses ==
    /\ LayerEnds /\ NoFailure /\ Controlling = {}
    /\ loop' = "topology" /\ layer' = layer + 1 /\ NoTasks
    /\ UNCHANGED <<run, crashes>>

-----------------------------------------------------------------------------
(* The host cancels the task that awaits run().  gather passes the         *)
(* cancellation on and waits for its children; wait only returns.          *)

HostCancels ==
    /\ "host_cancel" \in Operations
    /\ \/ /\ loop = "gather"
          /\ loop' = "cancelled"
          /\ cancelReq' = {s \in Step : Live(s)}
          /\ UNCHANGED <<flowStatus, currentStep>>
       \/ /\ loop = "wait"
          /\ loop' = "orphaned"
          /\ SetFlow("cancelled", NoStep)
          /\ UNCHANGED cancelReq
    /\ UNCHANGED <<steps, decisions, layer, task, attempt, choice, crashes>>

\* gather raises CancelledError once every child is done.
CancelledEnds ==
    /\ loop = "cancelled" /\ AllEnded
    /\ SetFlow("cancelled", NoStep)
    /\ DriverLeaves
    /\ UNCHANGED <<steps, decisions>>

\* The last task nobody waits for is done.
OrphansEnd ==
    /\ loop = "orphaned" /\ AllEnded
    /\ DriverLeaves
    /\ UNCHANGED <<flowStatus, currentStep, steps, decisions>>

-----------------------------------------------------------------------------
(* The synchronous operations of an operator.                              *)

OperatorMay(operation) ==
    /\ operation \in Operations /\ flowStatus # "none"
    /\ loop = "none" \/ (OperatorOverlaps /\ loop # "topology")

\* What the reset of a step does when `count` ids of the flow are behind it:
\* all of them and the run is set to running, or fewer and the process died.
ResetAndRun(s, count) ==
    /\ ResetSteps(ResetSet(s, count))
    /\ \/ /\ count = Len(YamlOrder)
          /\ SetFlow("running", s)
          /\ UNCHANGED crashes
       \/ /\ count < Len(YamlOrder)
          /\ DiesAt("reset")
          /\ UNCHANGED <<flowStatus, currentStep>>
    /\ UNCHANGED <<decisions, process>>

RetryStep(s, count) ==
    /\ OperatorMay("retry")
    /\ status[s] = "failed"
    /\ ResetAndRun(s, count)

\* edit_step checks neither the run nor the step; the new prompt is data.
EditStep(s, count) ==
    /\ OperatorMay("edit")
    /\ ResetAndRun(s, count)

\* cancel() loads and checks the run before it writes.  Beside a driver, or
\* another operator, the run may have ended by then: the check was of a status
\* every run has had but one that never got past create_run.
CancelRun ==
    /\ OperatorMay("cancel")
    /\ flowStatus \in {"running", "paused"} \/ (OperatorOverlaps /\ flowStatus # "pending")
    /\ SetFlow("cancelled", NoStep)
    /\ UNCHANGED <<steps, decisions, process, crashes>>

-----------------------------------------------------------------------------
(* The process dies.                                                       *)

Crash(point) ==
    /\ DiesAt(point)
    /\ loop' = "none" /\ layer' = 1 /\ NoTasks

\* Between two stretches of code.
CrashAtAwait ==
    /\ loop # "none"
    /\ Crash("await")
    /\ UNCHANGED run

\* create_run is stored, the status running is not.
CrashInCreate ==
    /\ loop = "none" /\ flowStatus = "none"
    /\ Crash("create")
    /\ SetFlow("pending", NoStep)
    /\ UNCHANGED <<steps, decisions>>

\* The decision is appended, the gate is not completed.
CrashInGate(s, option) ==
    /\ At(s, "ask")
    /\ Crash("gate")
    /\ decisions' = decisions \cup {Decision(s, option)}
    /\ UNCHANGED <<flowStatus, currentStep, steps>>

\* _reset_from of a goto has considered `count` ids of the flow.
CrashInGoto(s, count) ==
    /\ Sole("goto_step", s)
    /\ Crash("reset")
    /\ ResetSteps(ResetSet(choice[s].target, count))
    /\ UNCHANGED <<flowStatus, currentStep, decisions>>

-----------------------------------------------------------------------------
DriverStep ==
    \/ SkipLayer \/ BlockedLayer \/ EnterLayer \/ FinishRun
    \/ WaitEnds \/ LayerFails \/ LayerConflicts \/ LayerPauses \/ LayerPasses
    \/ \E s \in Step : LayerTerminates(s) \/ LayerGoesTo(s)
    \/ CancelledEnds \/ OrphansEnd

TaskStep(s) ==
    \/ StartStep(s) \/ BeforeDone(s) \/ RenderDone(s) \/ InternalError(s)
    \/ AttemptAccepted(s) \/ AttemptRejected(s) \/ AfterDone(s) \/ ErrorDone(s)
    \/ AskFails(s) \/ AskPends(s) \/ NotifyDone(s) \/ DecidedDone(s)
    \/ \E option \in Option : s \in Gate /\ option \in Options[s] /\ AskAnswers(s, option)
    \/ CancelDelivered(s)

OperatorStep ==
    \/ \E s \in Step, count \in 0 .. Len(YamlOrder) : RetryStep(s, count) \/ EditStep(s, count)
    \/ CancelRun \/ HostCancels

CrashStep ==
    \/ CrashAtAwait \/ CrashInCreate
    \/ \E s \in Gate : \E option \in Options[s] : CrashInGate(s, option)
    \/ \E s \in Step, count \in 0 .. (Len(YamlOrder) - 1) : CrashInGoto(s, count)

Next ==
    \/ StartRun \/ \E target \in Step \cup {NoStep} : Resume(target)
    \/ DriverStep \/ \E s \in Step : TaskStep(s)
    \/ OperatorStep \/ CrashStep

Spec == Init /\ [][Next]_vars

(* asyncio runs every coroutine that is ready, and what a coroutine awaits *)
(* answers or times out: the adapter, the resolvers and the memory client  *)
(* within their timeouts, the host's gate driver and hooks by their own    *)
(* contract (the runner puts no timeout on them).                          *)
Fairness == WF_vars(DriverStep) /\ \A s \in Step : WF_vars(TaskStep(s))

FairSpec == Spec /\ Fairness

-----------------------------------------------------------------------------
(* Properties.                                                             *)

Working == Active \ {"erring"}

(* While the code of a step runs (its hooks, its prompt, its adapter, its  *)
(* gate), every step it depends on is and stays completed: nothing that    *)
(* resets steps (a goto, a retry, an edit, a resume after a crash) does so *)
(* under a running task.                                                   *)
ExecutesAfterDeps ==
    \A s \in Step : task[s] \in Working => \A d \in Deps[s] : status[d] \in {"completed", "skipped"}

(* A step is entered at most max_visits times over the whole life of the   *)
(* run, across gotos, retries, edits, resumes and crashes: reset_step      *)
(* keeps visit_count, and the count is stored before the work starts.      *)
VisitsBounded == \A s \in Step : visits[s] <= MaxVisits[s]

(* The output of a completed agent was produced from the outputs its       *)
(* upstream steps have now: whatever is redone upstream is redone below,   *)
(* unless a crash cut the reset that sees to it.  Of the other steps, which *)
(* only an edited prompt may name, nothing of the kind holds.              *)
FreshInputs ==
    ~crashes.cutReset => \A s \in Step \ Gate : status[s] = "completed" =>
        \A d \in Ancestors(s) : IsDone(d) /\ used[s][d] = output[d]

(* A completed run has no step left to do, unless a crash cut an edit of   *)
(* the run before its status was put back to running.                      *)
CompletedMeansAllDone ==
    flowStatus = "completed" /\ ~crashes.cutReset => \A s \in Step : status[s] \in {"completed", "skipped"}

(* docs/architecture.md: failed work never stays running, a fail-fast      *)
(* cancellation is awaited and persisted.  No step is stored as running    *)
(* once the run has ended and no coroutine works for it.  The code does    *)
(* not keep this of a step whose before_step hook, or gate driver, is      *)
(* cancelled: nothing there stores a failure.                              *)
NoStepLeftRunning ==
    flowStatus \in FlowStatus \ {"running"} /\ loop = "none" =>
        \A s \in Step : status[s] # "running"

\* No coroutine is at work on these, or it has not got to run yet.
LeftRunning == {s \in Step : status[s] = "running" /\ task[s] \notin Active}

(* What the code does keep: a task that ends leaves its step stored as     *)
(* something else than running, whatever it raised, was answered or was    *)
(* cancelled at, but in its before_step hook and its gate driver; apart    *)
(* from these only the death of the process leaves a step running.         *)
WorkEndsStored ==
    [][\A s \in LeftRunning' \ LeftRunning :
         \/ s \in cancelReq /\ task[s] \in {"before", "ask"}
         \/ crashes'.count > crashes.count]_vars

(* A paused run names the gate that waits for its decision; a resume needs *)
(* both the name and the status (a cut reset takes the status away).       *)
PausedAtWaitingGate ==
    flowStatus = "paused" /\ loop = "none" /\ ~crashes.cutReset =>
        currentStep \in Gate /\ status[currentStep] = "waiting_human"

(* A failed run names a failed step, so that retry-step has a target, but  *)
(* for a retry that was cut.                                               *)
FailedAtFailedStep ==
    flowStatus = "failed" /\ loop = "none" /\ ~crashes.cutReset =>
        currentStep \in Step /\ status[currentStep] = "failed"

(* The status of a run that nobody drives tells the truth about its steps, *)
(* so that what may be done next with it can be done: whatever was         *)
(* retried, edited, cancelled, sent back or crashed before.                *)
StatusTellsTheSteps == CompletedMeansAllDone /\ PausedAtWaitingGate /\ FailedAtFailedStep

(* docs/architecture.md: memory writes never invalidate completed agent    *)
(* work; only a reset undoes it.  The code does not keep this: whoever is  *)
(* cancelled in its memory write stores a failure.                         *)
CompletedWorkKept ==
    [][\A s \in Step \ Gate :
         status[s] = "completed" => status'[s] \in {"completed", "pending"}]_vars

(* What the code does keep: completed agent work is undone by resets, and  *)
(* otherwise only by a cancellation that reaches the task of the step      *)
(* before its memory write and after_step hook are over; then the step is  *)
(* failed, which retry-step accepts.  What a memory client or a hook       *)
(* raises, and what happens to any other step, never undoes it.            *)
WorkLostOnlyToCancel ==
    [][\A s \in Step \ Gate :
         status[s] = "completed" /\ status'[s] \notin {"completed", "pending"} =>
             s \in cancelReq /\ task[s] = "after" /\ status'[s] = "failed"]_vars

Terminating == \E g \in Gate : choice[g].action = "terminate"

(* Once a gate of the layer is answered with terminate, the driver works   *)
(* on no other layer: whatever the steps and gates beside it do, and       *)
(* whatever operators do to the run meanwhile, it leaves the run cancelled *)
(* or failed, unless the process dies or the host had cancelled it.        *)
TerminateEndsDrive ==
    [][Terminating =>
         /\ loop' # "topology"
         /\ loop' = "none" /\ loop # "orphaned" =>
              flowStatus' \in {"cancelled", "failed"} \/ crashes' # crashes]_vars

(* README.md: terminate records the decision of an operator and sets the   *)
(* status of the run to cancelled.  The code does not keep this: a step    *)
(* that fails beside the gate, or a gate that waits, makes the run failed. *)
TerminateCancels ==
    [][Terminating /\ loop = "gather" /\ loop' = "none" =>
         flowStatus' = "cancelled" \/ crashes' # crashes]_vars

TerminateTakesEffect == loop' = "none" /\ flowStatus' = "cancelled" /\ crashes' = crashes

(* A goto or a terminate never takes effect, and a layer is never passed,  *)
(* while the question of a parallel gate is open.                          *)
NoQuestionLeft ==
    [][loop = "gather" /\ (loop' = "topology" \/ TerminateTakesEffect)
         => \A g \in Gate : status[g] # "waiting_human"]_vars

\* A visit is open from the store call that counts it to the one that stores
\* its result.
Open == {s \in Step : task[s] \in {"before", "render", "exec", "ask"}}
Done == {s \in Step : IsDone(s)}
Value == [s \in Step |-> IF IsDone(s) THEN output[s] ELSE 0]
\* What the prompt of s was given of its upstream steps.
Given(s) == [d \in Step |-> IF d \in Ancestors(s) THEN used[s][d] ELSE 0]
MadeFrom == [s \in Step |-> IF IsDone(s) THEN Given(s) ELSE Nothing]
Torn == crashes.cutReset

Flow == INSTANCE Dataflow WITH done <- Done, open <- Open, value <- Value, from <- MadeFrom, torn <- Torn

(* The run of a flow is a run of Dataflow: every visit delivers at most     *)
(* once, and what it delivers is made of what the upstream steps have at   *)
(* that moment; no reset, failure, cancellation, crash or resume takes a   *)
(* result away without what was made from it, or from under a visit that   *)
(* works with it.                                                          *)
ImplementsDataflow == Flow!Spec

(* Every drive of a run ends, whatever its gates decide: the loops a goto  *)
(* makes run out of visits.                                                *)
DriveEnds == (loop # "none") ~> (loop = "none")

(* A run that is resumed whenever it is paused or interrupted comes to an  *)
(* end, even if nobody ever answers its gates and if it crashes meanwhile. *)
ResumedSpec == FairSpec /\ WF_vars(Resume(NoStep))

EveryRunEnds ==
    (flowStatus = "running") ~> (flowStatus \in {"completed", "failed", "cancelled"})
=============================================================================
