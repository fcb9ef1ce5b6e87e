# agent-lane in TLA+

agent-lane runs a *flow*: a YAML file of steps, each an agent call or a human
gate, with dependencies between them. A run of a flow is stored, and can be
paused, resumed, retried, edited and cancelled, from several processes. This
directory holds TLA+ modules of the parts of that program where order, failure
and concurrency decide whether it is right, the TLC configurations that check
them, and theorems that TLAPS proves about each part that is modelled.

Paths are relative to `src/agentlane/` unless they begin with `docs/` or are
`README.md` of the repository. `PROJECT.json` lists every run, finding, hazard
and theorem, and maps each definition to the lines it models.

## 1. The system

### Components, their state and their operations

| Component | Source | State | Operations |
|---|---|---|---|
| StepRunner | `core/runner.py` | no state of its own beyond coroutines: the driver (`_execute_loop`, `_run_topology`, `_run_layer`) and one task per step of the current layer | `run` (new, resume, resume_from), `retry_step`, `edit_step`, `cancel` |
| FlowEngine | `core/engine.py`, `engine.py`, `models.py` | none | parse, validate, `layered_order`, `ancestors`, `descendants`, dump |
| Store: memory | `core/state_store/memory.py`, `core/state.py` | `FlowRun` per id: status, `current_step`, step states, `gate_decisions` | create, load, update, reset, append decision, delete |
| Store: JSON file | `core/state_store/jsonfile.py` | the state file, its lock, a copy in memory with a `(mtime, size)` signature | the same and prune, each under a file lock |
| Store: TaskFlow | `core/state_store/taskflow.py` | a copy in memory of what a client saves | the same, with a roll back |
| Execution lease | `core/state_store/jsonfile.py` `run_lease`, `base.py` | `_active_runs` per process, a lock file per run | enter, leave |
| Worker pool | `core/async_utils.py` | a queue, a fixed set of threads, one future per call | submit, take, deliver, time out |
| Gate drivers and hooks | `core/human_gate.py`, `core/hooks/` | notification files in `logs_dir` | ask, pending, decided |
| Shell adapter | `core/adapters/shell.py` | an agent process and its process group | execute, terminate |
| ACP adapter | `core/adapters/acp.py` | none: a transport of the host | execute |
| Static adapter | `core/adapters/static.py` | how many answers it gave | execute |
| Resolvers, templates | `core/resolvers/` | none (memory: a client) | render a reference |
| Output contract | `core/contract.py`, `core/result.py` | none | check a result |
| Sinks | `core/observability/` | log files | receive events |
| Command line | `cli/main.py`, `config.py`, `agents.py`, `core/visualize.py` | none | builds the rest together |

### How they interact

The command line or a host builds a `StepRunner` from an engine, a store,
adapters, resolvers, a gate driver and hooks. `run` reads and writes the store
with synchronous calls and awaits the hooks, the resolvers, the adapter, the
memory client and the gate driver. These are the only places where another
coroutine of the run goes on, so that a stretch of code between two awaits is
atomic to the other coroutines, though not to the death of the process or to
another process. Synchronous resolvers and memory clients are called through
the worker pool. `retry_step`, `edit_step` and `cancel` are synchronous and
touch only the store: nothing tells a running driver of them.

### What is hard

- the tasks of a layer interleave at every await, and `fail_fast` cancels the
  pending ones at whichever await they are in;
- the verdict on a layer combines failures, pauses, gotos and terminations that
  were decided concurrently;
- a goto, a retry or an edit is a sequence of store calls that a crash may cut;
- several processes share the state file, each with a cached copy, and compete
  for the lease of a run;
- what was abandoned (a timed-out function, a cancelled task, a terminated
  agent) still does things;
- the store may raise at any call, in the handlers of exceptions too, and
  another process may delete the run; each call has its own handler;
- a client of the host may save and raise, or keep what it was given;
- what a resume runs is what a text or a dump of the flow is parsed to again;
- a notification is written by one invocation and has to be removed by another.

### What makes each part correct

- **Runner**: no step works above an unfinished or undone dependency; a visit
  limit is never passed; completed work is consistent with its inputs and kept;
  the status of a run agrees with that of its steps (failed, paused, completed,
  nothing left running); a decision is final; every drive ends; whatever call
  raises, a way on is left; a run that was deleted comes to its end.
- **Engine and resolvers**: layers are a topological partition, cycles are found
  exactly, ancestors and descendants are reachability; a reference is accepted
  exactly if it will find an output; a memory that was superseded is never used;
  a flow that validation accepts can be run, and is resumed as the flow it was.
- **Attempts and shell adapter**: no agent works beside a later attempt; the
  verdict on a visit is that of its last answer; every visit ends.
- **JSON store**: several processes see one store.
- **TaskFlow store**: readers see the changes that succeeded and no others, and
  so does a later store over the same client.
- **Lease**: one driver of a run at a time; nothing left behind that refuses the
  next one.
- **Worker pool**: every caller gets one final outcome, every call runs once.
- **Gate notifications**: every waiting gate has one, no decided gate does.

## 2. The modules

```
Dataflow <--- StepRunner <--- StepRunner_proofs
StepRunner <--- MCStepRunner ---> FlowGraph
Flows ---> GraphSpec, References, Memories, FlowText
GraphSpec, References ---> FlowGraph
MCFlowGraph ---> Flows <--- Flows_proofs
RunCalls <--- RunCalls_proofs
MCAgentAttempt ---> AgentAttempt <--- AgentAttempt_proofs
MCRunLease ---> RunLease <--- RunLease_proofs
SharedStore <--- JsonStore <--- Stores_proofs ---> TaskFlowStore
JsonStore <--- MCStores ---> TaskFlowStore
WorkerPool <--- WorkerPool_proofs
GateNotify <--- GateNotify_proofs
```

An arrow points to a module that another extends or instantiates: MC modules
give constants their values, `_proofs` modules hold the theorems.

StepRunner is the centre. What it takes as a single place of a task or a single
call is opened up in a module of its own: `exec` in AgentAttempt, a call through
the pool in WorkerPool, `StartRun` and `Resume` in RunLease, a store call in
JsonStore and TaskFlowStore, the gate driver and its hook in GateNotify. RunCalls
has the same runner at a finer grain, one store call a step, on a flow where
nothing interleaves; Dataflow has it at a coarser one, without a driver; what
StepRunner assumes of a flow is shown of FlowText and FlowGraph.

Definitions that begin or end with a comment `mutant` are not part of a
specification. Each is a plausible bug of the definition that follows it, kept
so that every property can be shown to fail when the code is wrong in that way.

### FlowGraph, References, Memories: `core/engine.py`, `core/resolvers/`

Kahn's algorithm layer by layer (`LayeredOrder`), the two searches
(`Ancestors`, `Descendants`) and the graph part of `validate`; the rule for
references (`ReferenceErrors`) and what the steps resolver does with one
(`Resolve`); the loop over superseded memories (`Follow`). A loop of the code is
a recursive function of the number of its passes. `GraphSpec` says what the
graph algorithms are for, without them: `SearchesReach`, `OrderIsRight` and
`GraphIsRunnable`. `Flows` builds every flow, or every memory, up to a size that
is a constant and compares the results with such reference definitions;
`MCFlowGraph` gives it four ids. The id that
`{memory:get:step}` looks up in the context of the run, the syntax of tokens and
paths into an output are left out.

### FlowText: `core/engine.py` parse, validate and dump, `cli/main.py`, `core/runner.py`

What `parse` accepts (`Parses`) and the flow it makes (`Parse`), what
`validate` asks of the fields (`ValidFields`), `dump_flow` (`Dump`), the
workspace a command line gives a flow (`ApplyFlowDefaults`), and what `run()`
stores and a resume parses again (`Resumed`, `AcceptsFlow`). A value is a record
with one field named for its kind, because the code tells kinds apart: `true`
is no limit although it is an integer in Python, and zero, the empty list and
null go different ways through tests of truth and of `None`. `Flows` takes a
valid document of an agent and a gate and gives any key of any mapping in it, an
unknown one too, any of thirteen values. YAML text itself is the
library's; the pattern of step ids is a set of bad ones.

### StepRunner: `core/runner.py` with the store operations it calls

The state is that of one `FlowRun` (`flowStatus`, `currentStep`, `status`,
`visits`, `output`, `used`, `decisions`), which survives crashes, and that of
the process (`loop`, `layer`, `task`, `attempt`, `choice`, `cancelReq`), which
does not. `crashes` counts the deaths and remembers whether one cut a reset.
One action is one stretch of code between two awaits with every store call in
it:

| Code | Actions |
|---|---|
| `run`, `_validate_resume_target` | `StartRun`, `Resume` |
| `_run_topology` | `SkipLayer`, `BlockedLayer`, `EnterLayer`, `FinishRun` |
| `_run_step` up to the adapter | `StartStep`, `BeforeDone`, `RenderDone`, `InternalError` |
| the attempts, `_fail_step`, `_mark_failed` | `AttemptAccepted`, `AttemptRejected`, `AfterDone`, `ErrorDone` |
| `_run_gate` | `AskFails`, `AskPends`, `NotifyDone`, `AskAnswers`, `DecidedDone` |
| `except CancelledError` | `CancelDelivered` |
| `_run_layer` | `WaitEnds`, `LayerFails`, `LayerConflicts`, `LayerPauses`, `LayerPasses` |
| `_execute_loop` | `LayerTerminates`, `LayerGoesTo`, and the status each ending stores |
| cancellation of `run()` by the host | `HostCancels`, `CancelledEnds`, `OrphansEnd` |
| `retry_step`, `edit_step`, `cancel` | `RetryStep`, `EditStep`, `CancelRun` |
| death of the process | `CrashAtAwait`, and `CrashInCreate`, `CrashInGate`, `CrashInGoto` and the short forms of `RetryStep` and `EditStep` between two store calls of one stretch |

Outputs are abstracted to the visit that produced them (0 for `None`), and
`used[s][d]` remembers which output of `d` the prompt of `s` was rendered from.
That is the datum which tells a fresh result from a stale one.

Notes on what is and is not in the actions:

- The tasks of a layer take their first step in any order. asyncio starts them
  in the order of creation, one of the orders checked. `asyncio.wait` cannot
  return before all of them have started, which `WaitEnds` keeps.
- `Suspends` has the places at which injected code (hooks, gate driver, memory
  client) really suspends. A task has no cancellation point at the others.
- A prompt is offered the outputs of all completed steps (`Offered`), as in the
  code. Of these `MadeFrom`, `FreshInputs` and Dataflow are about the upstream
  ones, which are all that a valid flow can name. A prompt that `edit_step`
  stored is validated by nobody and may name others; nothing is claimed of them.
- `CancelRun` may follow a check of a status that the run no longer has, when an
  operator may act beside a driver. The check of `retry_step` and the resets of
  an operator are one action, but for the death of the process between two
  resets; RunCalls has them call by call.
- The `_mark_failed` that a conflict of gates calls is one stretch: its
  `on_error` hook is taken not to suspend.
- A host that cancels `run()` while it is in `asyncio.wait` leaves the tasks
  behind (`loop = "orphaned"`); in `gather` they are cancelled and awaited.
- `skipped` is a status no line of the source writes; it is only read.
- Exceptions of the store and the `parsed` entries of the context are in
  RunCalls, the race inside CPython's `wait_for` between a cancellation and a
  result in AgentAttempt. Left out: exceptions of a sink that is not composed,
  and the `memory_id` entries of the context.

`MCStepRunner` has two flows: *Loop* (a review loop over a parallel layer) and
*Review* (a loop with two parallel gates).
Layers and descendants are literals, because TLC would recompute them in every
state; the assumption `FlowsAsComputed` has TLC check that they are what
`FlowGraph` computes.

### Dataflow: what `core/runner.py` promises about results

The abstract specification of StepRunner. It has the values of the steps, what
each was made from, the visits that are open and how many there were; no layer,
no task, no status, no driver. A step whose ancestors are done may be visited
(`Visit`), a visit delivers once, made from the values there are (`Complete`),
or ends without (`Abandon`), and what is undone takes along everything made from
it, unless a crash tears the undoing, and is nothing an open visit works with
(`Undo`). `Flow` in StepRunner is the refinement: a visit is open while its task
is before its result, a value is the output of a done step, what it was made
from is what its prompt was rendered from. That the prompt is rendered some time
before the result is stored is what makes it a refinement to be shown: nothing
upstream may change in between. `Consistent` is what a user of the flow gets.

### RunCalls: `core/runner.py` as a sequence of store calls

The flow is a chain of agents, so that a run has one coroutine at work, and
`pc` names the store call it is at. Every call (`Calls`) returns, raises with or
without its effect, or raises because another process has deleted the run
(`Delete`). `OnRaise` sends the exception where the handlers of the code send
it: out of `run()`, to `_mark_failed`, to the layer as the error of the task, to
the `except Exception` of `_execute_loop`, or nowhere (`_write_memory`). The
process may die at any place. A prompt is rendered between the last load of the
run (`RenderPrompt`) and the first attempt (`Rendered`); an attempt starts an
agent without a call of the store (`StartAgent`), so that a deletion in between
goes unnoticed, and `late` counts what is started after it. `run.parsed[s]` is the visit that the stored
parsed value of `s` comes from; `started` counts the agents that really were
started, apart from the visits that are stored. `marks` remembers whether an
exception or a death hit one of the places that `Marking` lists, for the
properties that hold but for those. Gates, groups, `fail_fast` and gotos are in
StepRunner; `current_step` after a retry or an edit is data here.

### AgentAttempt: the attempts of one visit, with `core/adapters/shell.py` and `acp.py`

The loop of `_run_step` (`attempts`, `violations`, `result`; `feedback` is what
the current prompt reports), `StepOutputContract.validate` as `Violations`, and
`execute` and `_terminate` of the shell adapter at each of their awaits. The
environment is the agent, which may hang, exit, or ignore SIGTERM, one helper in
its process group, which may hold the pipes, and asyncio's child watcher, which
sets `returncode` some time after the exit (`exited`, `reaped`, `noticed`).
Which of them ignore SIGTERM, the contract, and whether the system has process
groups are chosen in the initial state. A cancellation may strike at every
await, and, as Python up to 3.11 has it, get lost in a `wait_for` that is done.
A process that leaves the group is out of the adapter's reach and not modelled.

With the ACP adapter an attempt starts no process: it awaits a transport
(`calling`), which answers with text or with a Python value, fails or raises at
any time, within a time out. The contract of a text or markdown step rejects
what is not text, that of a JSON step takes a dict for an object, and judges a
parsed value that the transport sets apart from the output instead of it
(`Judged`). A transport is assumed to end when it is cancelled and never to block the event loop.

### RunLease: `run()` up to the loop, and `run_lease`

Several calls of `run()` for one run, in one process or several: the status
check, the status write, `_active_runs`, `open`, `flock`, the drive as one
state, unlock, close, `unlink`, discard, and the death of a process, which
closes its files. Files are inodes, since the path may come to name another
file than the one that is locked. `open` may fail, and since it stands before
the `try` whose `finally` clears `_active_runs`, the mark of the process stays
(`leaked` names these processes). Drivers call `run()` again and again, without
a bound. This is POSIX; without `fcntl` only `_active_runs` is left.

### SharedStore and JsonStore: `core/state_store/jsonfile.py`

`SharedStore` is what a store promises: contents that every process reads and
changes in place, but for the processes that are `astray`, which see and write
something else until a load or a write of theirs brings them back. `JsonStore`
is the code: the first load without the file lock (stat, then read),
`_load_file` with the signature, `_mutate`, `_persist` split at `os.replace` and
at the stat after it, exceptions before and after the former and the death of a
process at any place. Its file refines the contents of `SharedStore`
(`Shared == INSTANCE SharedStore WITH contents <- disk`). Two things alone lead
a process astray: a write of its own that raised before the file was in place
(`PersistFails`), since the copy in memory keeps the change, and a write of
another process that left mtime and size as they were (`Replace` with
`SameTick`), which a clock with coarse ticks and a state of the same size allow.

### TaskFlowStore: `core/state_store/taskflow.py`, `base.py`

Every operation is one action, because it holds the lock of the store
throughout. `runs` is the copy in memory, `saved` what the client would give
back. The client may raise before or after it has saved (`Refuses`); memory is
then put back. `run_to_dict` copies a run but not its context, so that a client
which keeps payloads by reference (the one of the repository's tests does)
shares the context with the store (`shared`) and sees a change of it before
anything is saved (`InPlace`). `confirmed` and `doubt` remember what the
operations that returned made of a run and how calls raised since. Of a run the
context and the rest are told apart. A host has one of the two stores: `MCStores`
chooses it in the initial state.

### WorkerPool: `core/async_utils.py`

Threads, queue, futures and the callbacks posted to one event loop, which may
be delivered after the caller gave up. `Hangs` and `Kills` name the calls that
never return and those that raise past `except Exception`. `timeout` also
stands for a wait that its task's cancellation abandoned. The closing of the
event loop is left out.

### GateNotify: gate drivers, `GatePendingFileHook`, `cli/main.py`

Several invocations over the parallel gates of one layer, each with its flags:
`--gate-option` selects the preset driver and `--gate-notify` the pausing
driver with the hook, in the order `_runner` looks at them. `hosted` tells
whether a host drives the run, which installs the hook itself. All gates decide
`next_step`; what other decisions do to a run is in StepRunner. A driver that
asks a person answers like the preset one.

## 3. What is checked

Passing runs (each takes from a second to about four minutes):

| Run | What it shows | Instance and bounds |
|---|---|---|
| MCFlowGraph | `SearchIsReachability`, `LayersAreTopological`; `ValidFlowIsRunnable`: a valid flow meets `GraphAssumption` of StepRunner, and its fields are ones the runner can work with; `ReferencesResolve`; `MemoryIsCurrent`; `ResumeRunsSameFlow` | every flow of up to four ids, unknown and cyclic dependencies included, at most two dependencies a step; every memory of up to four records with two hops; every document with up to two keys given |
| LoopOperated | `TypeOK`, `ExecutesAfterDeps`, `FreshInputs`, `StatusTellsTheSteps`, `WorkLostOnlyToCancel`, `ImplementsDataflow` under retry, edit, cancel and crashes | Loop with `fail_fast`, whose gate passes or goes back; memory writes and `after_step` and `on_error` hooks suspend; one crash, at any kind of place |
| ReviewLive | `WorkEndsStored`, `TerminateEndsDrive`, `NoQuestionLeft`, `DriveEnds`, `EveryRunEnds`, where operators also act while a driver works and a host cancels | Review with `fail_fast`, two gates in a layer of which one may terminate; injected code suspends wherever it is called; one crash |
| CallsRaise | `CanGoOn`, `ParsedIsOfOutput`, `StartsBounded`, `LateStartsBounded`, `CallEnds` with a store that raises, deaths, retries, edits and a deletion | a chain of two steps, two visits each with two attempts, three faults |
| AttemptsEnd | `NoAgentLeft`, `VerdictIsJust`, `FeedbackFollowsAnswers`, `VisitEnds` | three attempts, two cancellations, one contract of each format, an answer for each way to meet or break it, parsed values apart from the output |
| LeaseResumed | `ExclusiveInProcess`, `SameFileExcludes`, `FreeWhenQuiet`, `RunIsDriven` | three drivers in two processes, a new run and resumes without end, one crash, lock files that do not open |
| StoresKept | `CacheCurrent`, `ImplementsSharedStore` of a host with the JSON store; `ReadersSeeConfirmed`, `RestartFindsConfirmed` of one with the TaskFlow store | two processes, three writes that may keep the signature, one death, failures before and after the file is in place; two runs, four changes, a client that raises before or after it saved and keeps payloads by reference |
| PoolServes | `ServedOnce`, `OutcomeIsFinal`, `EveryCallRuns`, `EveryCallReturns` | four calls, of which one hangs and one kills its thread; two threads |
| NoticesKept | `NoStaleNotice`, `EveryWaitNotified` | three gates, any flags in each invocation, one crash |

`TypeOK` is checked in LoopOperated; the proofs have it for every state machine
(section 5).

**Why the bounds are enough.** Everything the runner does to a step depends on
its own state, its direct or transitive relation to another step, and on what
the rest of its layer returned. The flows have two steps in a layer, a step
above and one below, a goto over a parallel layer, and every pair of endings of
two parallel tasks. `max_visits` of 2 is the least that lets a goto happen and
the next be refused; with it the state space is finite without a further bound.
One crash reaches every store content a crash can leave, and the drives after
it are unbounded. The retry budget is 0 in Loop and 1 in Review: within
StepRunner an attempt after the first adds nothing but its count, and what it
does is the subject of AgentAttempt, where three attempts let an answer be
rejected, the next attempt time out, and the last one tell of the former.
`fail_fast` is on in both flows: in Loop it cancels agents, in their memory
write too, in Review gates, where a host cancels agents at every place. Without
it the tasks of a layer are only awaited together, which happens here with those
of a layer in which nothing fails or all had ended; the theorems are about both.
In RunLease an inode is reused as soon as nobody holds it, so that four are more
than two or three drivers can hold at once. In RunCalls a chain of two has a first step, a last one and a
dependency; two visits let one be retried and the next be refused; three faults
let the store raise at a call, in the handler of that exception, and again in
the retry or resume that follows; two attempts let one start after a deletion that
came while the one before it was at work. Two runs in TaskFlowStore let a failure of one
meet changes of the other, and four changes are a creation, a change that
fails, one after it and a reopening with a change in between. Two keys of a
document are enough for each rule that relates two fields (a target and an
action, a schema and a format, a budget and its default). Three writes in
JsonStore let a process miss one, see one and
make one, and one that was refused be followed by one that is not. With four
memories and two hops there are chains that end in time,
chains that do not, and cycles with and without a lead. The symmetric parts of
these models are small enough to need no symmetry sets.

**Conditions inside properties.** `FreshInputs` and `StatusTellsTheSteps` are
stated as long as no crash has cut a reset between its store calls
(`crashes.cutReset`): after such a crash they fail (an edit of a completed run
that dies half way leaves pending steps under `completed`; a goto that does
leaves results that are never redone). `Undo` of Dataflow has the same exception
(`torn`). `ExecutesAfterDeps` has none, and neither has the bound on visits.
`CanGoOn` names the calls at which an exception or a death strands a run, failed
at no failed step or pending for ever
(`Marking.stranding`), and `ParsedIsOfOutput` the faults between the call that
completes a step and the one that stores its parsed value, of steps whose
contract always yields one (`Torn`). `RestartFindsConfirmed` names the two ways
in which a later store may differ: the client saved and raised, or it keeps
contexts by reference and refused a change. `FreeWhenQuiet` and `RunIsDriven`
except the processes whose lock file once did not open (`leaked`).
`NoAgentLeft` names the one case in which an agent outlives its visit.
`WorkEndsStored` excepts a cancellation in a `before_step` hook or a gate driver
and the death of the process, `WorkLostOnlyToCancel` one in the memory write or
an `after_step` hook; section 4 has what happens there. `TerminateEndsDrive`
lets the run end as failed and excepts a death and a host that cancelled.
`CacheCurrent` and `ImplementsSharedStore` except the processes that are
`astray`. `ServedOnce` says nothing of where a call is whose function ended its
thread, nor of one that nobody waits for any more once a thread has taken it.
`NoStaleNotice` holds under a host until an invocation dies, `EveryWaitNotified`
where the code installs the hook.

**Fairness.** `FairSpec` of StepRunner is weak fairness of the driver and of
each task. asyncio runs what is ready; the adapter, resolvers and memory client
have timeouts; for hooks and the gate driver the runner has none, and their
returning is their own contract. `ResumedSpec` adds that somebody resumes a run
that can be. No fairness is assumed of operators. That of RunCalls says that a
store call returns or raises and that an agent answers or times out.
AgentAttempt assumes it of the task and of the child watcher, not of agents or
helpers: none has to exit. In RunLease, drivers do not block inside the lease
(`LOCK_NB`), every drive ends (`DriveEnds`), and somebody resumes a run that
can be. In WorkerPool threads are scheduled, callbacks run, timers fire; a
hanging or killing function is outside any fairness because its action is
disabled.

## 4. Where the code differs from what it says

Three are runs of their own, whose one property TLC finds violated:

| Run | What happens | What the repository says |
|---|---|---|
| LeaseThird (`OneDriver`) | a refused resume unlinks the holder's lock file, and the next one locks a new file | core/state_store/jsonfile.py:183 |
| MemoryCancelled (`CompletedWorkKept`) | `fail_fast` cancels a step in its memory write: it goes from completed to failed and loses its output | docs/architecture.md:51 |
| StoreRefused (`WritesFromFile`) | a change whose write raised before the file was replaced stays in memory; the signature has not changed, so the next write of the process loads nothing and stores the refused change as well | docs/architecture.md:32 |

MemoryCancelled needs no operator, no crash and no cancellation by a host, only
a parallel layer, `fail_fast` and a memory client.

The modules show more of them when a constant or a property is changed as the
last column says; they are the reason for the conditions above. What the code
does keep of the promises broken in MemoryCancelled, StoreRefused and the first
two rows is checked in the passing runs and proved: `WorkLostOnlyToCancel`,
`ImplementsSharedStore`, `WorkEndsStored`, `TerminateEndsDrive`.

| What happens | What the repository says | How to see it |
|---|---|---|
| `fail_fast` cancels a step in its `before_step` hook, or a gate in its driver: it stays `running` in a failed run | docs/architecture.md:49 | ReviewLive: `NoStepLeftRunning` |
| a terminate is recorded and its gate completed, but the gate beside it fails or was failed by `fail_fast`: the run is failed, and a retry goes on past the decision | README.md:234 | ReviewLive: `TerminateCancels` |
| a crash inside a goto leaves stale results that are never redone | docs/architecture.md:52 | LoopOperated: `FreshInputs` without `~crashes.cutReset` |
| a cancelled run is overwritten by its driver, or put back to running by an edit | docs/host-integration.md:65 | any flow with `cancel` and `OperatorOverlaps`, or with `edit`: `[][flowStatus = "cancelled" => flowStatus' = "cancelled"]_vars` |
| the driver of a new run holds no lease | core/state_store/base.py:82 | LeaseThird with `StartsFresh = TRUE`: `OneDriver` fails without a refused resume |
| `running` is written over the end of a run, from a check made before the lease | core/runner.py:155 | LeaseResumed: `[][flowStatus = "completed" => flowStatus' = "completed"]_vars` |
| a lock file that does not open leaves the process refusing the run as "already executing" | core/state_store/jsonfile.py:188 | LeaseResumed: `FreeWhenQuiet` with `active = {}` |
| a write that leaves mtime and size as they were is not seen by other processes | core/state_store/jsonfile.py:45 | StoreRefused with `SameTick = TRUE` and `FailsWhen = {}`: `WritesFromFile` |
| a `set_context` whose save was refused is found done by a later store, if the client keeps payloads by reference | core/state_store/taskflow.py:53, docs/architecture.md:33 | StoresKept: `RestartFindsConfirmed` without its last disjunct |
| the command line drops the hook when gate options are given | core/hooks/builtin.py:36, docs/host-integration.md:108 | NoticesKept: either property without its condition on `hosted` |
| a cancellation in the two seconds after SIGTERM skips SIGKILL, and the agent goes on | docs/architecture.md:62 | AttemptsEnd: `NoAgentLeft` with `FALSE` as its consequent |
| helpers of an agent that exited before the time out are not signalled; helpers that ignore SIGTERM survive an agent that does not | core/adapters/shell.py:111 | AttemptsEnd: no helper works in an ended visit that was timed out |
| the feedback of a rejected answer is repeated, as that of the previous attempt, after a later attempt has timed out | core/runner.py:608 | AttemptsEnd: `FeedbackFollowsAnswers` shows which violations a prompt reports |

No text is contradicted, but a reader may be surprised, by what an exception of
the store does outside a step: it ends the run as failed at no step, which
nothing can retry, even when only the load that returns a completed run raised
(core/runner.py:181). CallsRaise shows it: `CanGoOn` fails without its last
disjunct. Nor is it said that a deleted run gets no agent any more: the driver
learns of the deletion at its next call of the store, and the attempts of a visit
make none, so that all of one visit may start (`LateStartsBounded`).

## 5. What is proved

For every value of the constants that the named assumptions allow:

**StepRunner** (`GraphAssumption`, `FlowAssumption`, `ScheduleAssumption`: what
`validate` guarantees of a flow, which is proved, see FlowGraph and FlowText
below). The hypotheses of a theorem, where it has any, are about the schedule:
which operations the operator uses, whether they run beside a driver, and, for
`StatusIsTrue` alone, where a host suspends its callbacks. Each of them is
needed; the last line of an entry is what TLC finds without it. What TLC checks
is in each case an instance of the theorem: one of the runs LoopOperated and
ReviewLive satisfies its hypotheses.

- `TypeCorrect`: `TypeOK`. Alone it is not inductive: that `current_step` names
  a step needs `First` to be given a non-empty part of the layer (`FirstInSet`),
  and a goto needs a target. `Inv` is `TypeOK` with `TasksInLayer` (tasks exist
  only while the driver waits, for steps of its layer), `GotoHasTarget` and
  `VisitsBounded`.
- `VisitsAreBounded`: no step is entered more often than `max_visits` allows
  (`VisitsBounded`), from the same invariant. `StartStep` alone counts, after
  the limit, and no reset or crash takes a visit back. No run lists it, since
  `Visit` of Dataflow has the bound as its guard.
- `CompletedWorkIsKept`: `WorkLostOnlyToCancel`, without hypotheses. The
  invariant `BaseInv` adds which places a task may be at, and that its step is
  not completed before it has its result (`PlaceInv`), and who asked for a
  cancellation (`CancelInv`).
- `NothingLeftRunning`: `WorkEndsStored`, without hypotheses. By `PlaceInv` a
  task that has come to store something else than running is past the two places
  at which nothing is stored; a reset takes the status away, and `OtherSteps`
  has the rest.
- `WorkAboveDoneSteps`: `ExecutesAfterDeps`. The invariant `WalkInv` says that
  the layers behind the driver are done (`DoneBelow`), that what has no task in
  its own layer was done before (`DoneBeside`), and what a task has come to
  shows in the store (`StatusOf`). `OverlapResets` is why a retry beside the
  driver leaves the lower layers alone. Hypothesis: no edit beside a driver
  (`~EditOverlaps`); such an edit resets a layer the driver has passed.
- `InputsAreFresh`: `FreshInputs`. `FreshInv`: a done step was rendered from the
  outputs its ancestors have (`FedFromNow`), and its dependencies are done
  unless a crash has cut a reset (`DoneAboveDone`); nothing is done above a step
  with a task (`NothingDoneAbove`). A reset that is not cut undoes a step with
  all below it (`FullResetIsClosed`, `UncutReset`), and one that is cut leaves
  the mark the property excepts (`CutIsKept`). Hypothesis: `~EditOverlaps`, with
  the same counterexample.
- `StatusIsTrue`: `StatusTellsTheSteps`. `StatusInv` adds that a run that is
  driven is running or cancelled (`DriveShows`), and that a task `fail_fast`
  cancelled has stored its failure (`CancelShows`). Hypotheses: no edit or retry
  beside a driver, and every task that `fail_fast` may cancel stores its failure
  (`CancelsAreStored`). A retry takes away the failure that the driver is about
  to name; a task cancelled before its first write has none.
- `NoQuestionIsLeft`: `NoQuestionLeft`. `FrontInv`: no step is begun, asked or
  failed above one that is not done, nor above the driver's layer; from it
  `NobodyBusy`, when a layer has ended without failure or pause no step of the
  flow waits, is at work or has failed. Hypothesis: no edit at all. An edit of a
  step that is not above the gate sends the driver past it.
- `TerminateEndsTheRun`: `TerminateEndsDrive`, without hypotheses.
  `TerminateInv`: a gate whose option is terminate has a task that is about to
  say so, has said so or was cancelled. So the layer does not pass, no other
  control of it is the sole one, and no pause wins.

- `RunsAreDataflow`: `ImplementsDataflow`, the refinement. The invariants are
  those of `InputsAreFresh` and `HandInv`: a gate was given nothing, and what a
  task renders or hands to an agent is what its step reads now, so that storing
  the result is `Complete` at that moment. `StepShows` maps every step to one of
  Dataflow or to a stutter: a task's first store call to `Visit`, its result to
  `Complete`, its other endings, cancellations and the death of the process to
  `Abandon`; gotos, operators' resets and a conflict of gates to `Undo`, whose
  condition on open visits is `OverlapResets` for a retry beside the driver.
  Hypothesis: `~EditOverlaps`, as above. `DataflowIsConsistent` shows what
  follows: `Consistent` is an invariant of Dataflow, with the fact that the
  ancestors of an open visit are done.

All of these rest on four lemmas about the steps of the model. `TaskEffect` says
what a step of a task changes, whichever of the task actions it is. `Level`
numbers the layers: a dependency is below (`DepsBelow`), a descendant above
(`DescendantsAbove`). `StepCases` lists the kinds of steps of `Next`, and
`OtherSteps` says what those that are neither a task's nor an operator's leave
alone.

**FlowGraph**, for every flow whose step ids differ and whose dependencies are
finitely many. An algorithm is a recursive function of the
number of its passes: `LoopRuns` says that such a function exists, `LoopKeeps`
that what holds at the start and is kept by each pass holds at the end; both
come from the least-number principle for sets (`LeastNat`), no induction over
an operator is needed.

- `SearchesAreReachability`: `SearchesReach(flow)`. `SearchInv` of the search with a
  stack: what was seen or is on the stack holds the successors of what was seen, and lies in every set that is
  closed. `Left` counts the passes that can still come, one for each entry on
  the stack and for each that a step not yet seen may push, so that the search
  is over within the passes the model gives it. `SearchesAgree` adds that
  ancestors and descendants mirror each other, on cyclic flows as well.
- `OrdersAreRight`: `OrderIsRight(flow)`.
  `KahnInv` of the while loop: the layers are right so far (`Layered`), the next
  holds exactly the steps that wait for none but those placed, each of them for
  one of the last layer, `indegree` counts what a step still waits for, and no
  member of a set whose members wait for each other (`Stuck`) is placed.
  `VisitAllIs` and `VisitLayerIs` are the two inner loops. At the end the steps
  not placed are such a set, and one exists exactly if there is a cycle
  (`CyclesAreFound`, `StuckIsCyclic`).
- `ValidFlowsAreRunnable`: `ValidGraph(flow) => GraphIsRunnable(flow)`: what
  `GraphAssumption` says of the dependencies, the layers and the descendants.
- `SearchesAlwaysReach` and `LayersAlwaysTopological`: the invariants
  `SearchIsReachability` and `LayersAreTopological` of `Flows`, for any list of
  ids and any number of dependencies (`BuilderAssumption`). `FlowInv` says that
  what is built is such a flow.

**References**, with the same flows.

- `ReferenceRulesAgree`: `ReferenceErrors` is empty exactly if `Resolve` finds an
  output once the ancestors of the step have completed, in every assignment of
  steps to groups. Both come down to one condition, that the target is an
  ancestor and in the group the reference names.
- `ReferencesAlwaysResolve`: `ReferencesResolve`, from it.

**Memories**, for every memory, every hop limit and any cycles.

- `FollowIsCurrent`: the kind and the id that `Follow` returns, in terms of
  chains as they are defined without it (`Chain`). `HopInv` of the loop, kept by
  `HopKeeps`: what was visited is a chain from the start without repetition that
  ends where the loop is. `ChainsAgree`: two chains from an id agree as far as
  both go; `RoundsNeverEnd`: a chain that comes back to an id goes on for ever
  and meets nothing active.
- `MemoryAlwaysCurrent`: `MemoryIsCurrent`, by `MemoryInv` (what is built is a
  memory).

**FlowText**, for every document whose values are of the six kinds, to any
depth (`IsData`, `IsMapping`).

- `ParseTyped`: what `Parses` accepts, `Parse` makes a flow of with every field
  there is, each holding its default or a value of its kind, down to the options
  of a gate and the schema of an output (`IsParsed`).
- `DumpIsParsed`: `Parses(Dump(f))` and `Parse(Dump(f)) = f` for every such flow.
  `LeftOut` is the heart: a field that `dump_flow` leaves out had its default,
  which its kind decides, since a test of truth takes 0, the empty list, the
  empty text and false for the same.
- `ValidIsRunnable`: `FieldsAreRunnable` and `GraphIsRunnable` of every such flow
  that passes validation, and `ValidAlwaysRunnable`: `ValidFlowIsRunnable`.
- `ResumedIsSame`: for every document, every workspace of the command line, and
  the text or the dump as the snapshot, the flow that a resume makes is the one
  that was run; `ResumeAlwaysSame`: `ResumeRunsSameFlow`. The two differ in the
  workspace alone (`OtherWorkspace`), which validation does not let be empty, so
  that the one in the context counts as given (`WorkspaceIsGiven`).
- For the invariants of `Flows`, `DocInv` says that the parts are mappings to
  values, and `DocIsData` that the document they make up is one.

These hold for YAML values as `FlowText` has them: a value has one kind, text
is compared and not looked into, and the pattern of ids is a set of bad ones.

**AgentAttempt** (`AttemptAssumption`).

- `NoAgentIsLeft`: `NoAgentLeft`. The invariant `IInv` says where the task is
  while an agent works (`AgentsFollowTask`: only the current attempt has one,
  after SIGTERM it is one that ignores the signal, after SIGKILL there is none)
  and which cancellations a clean-up has seen (`CancelsCounted`).
- `FeedbackTellsOfTheLastAnswer`: `FeedbackFollowsAnswers`. `FeedbackInv`:
  between two attempts the violations at hand are those of the last answer, or
  else those the last prompt told of; only the head of the loop hands them to a
  prompt (`AttemptsBegin`).
- `VerdictsAreJust`: `VerdictIsJust`, from the lemma `ContractDecides`: an
  answer has no violations exactly if it meets the contract.

**RunCalls** (`CallsAssumption`), for a chain of any length, any limit and any
number of faults. `CallsInv` has four parts, each shown to be kept in a lemma of
its own; `CallOutcomes` says once what a call that returns, raises or finds no
run does, and `FaultMarks` and `MarkingIs` what is remembered of a fault.

- `StartsAreBounded`: `StartsBounded`. By `StartInv` the agents started for a
  step are at most the attempts of the visits that are stored (`Budget`), and
  fewer by those still to come between the call that counts a visit and its last
  attempt, also when the run has been deleted meanwhile.
- `RunsGoOn`: `CanGoOn`. `GoInv` says what each place finds in the store: the
  run is `running` while a driver works, the steps before `at` are done, the
  step of a failing layer is stored as failed, and an error of which that is
  not so came from a stranding call.
- `ParsedBelongs`: `ParsedIsOfOutput`. `ParsedInv` adds that a step at work is
  not done, that its output is of the visit whose parsed value is stored next,
  and that a done step is failed only after a fault between the two.
- `LateStartsAreBounded`: `LateStartsBounded`. `LateInv`: nothing was started
  late when a prompt is rendered, since the load before it found the run, and
  during a visit no more than its attempts; every way to another visit is a call
  that raises.

**RunLease** (`LeaseAssumption`).

- `GuardExcludes`: `ExclusiveInProcess`, and with it type correctness, from
  `LeaseInv`: whoever is past the guard has its process in `_active_runs`, and
  no two of a process are.
- `OneDriverInProcess`: `OneDriver` for a run that is resumed and whose drivers
  are all in one process. Without these two conditions it is false (section 4).
- `LockExcludes`: `SameFileExcludes`, and `QuietIsFree`: `FreeWhenQuiet`. The
  invariants say who answers for what is left: a mark is that of a driver past
  the guard or of a process that leaked it (`MarkInv`); a lock belongs to a
  driver at work, which has that file open, and a lock file has a driver that
  will remove it unless a process died (`HoldInv`).

**JsonStore** (`StoreAssumption`), with signatures that may repeat, failures at
both places and deaths.

- `CachesAreCurrent`: whoever would skip the load has the contents of the file
  or is astray. The invariant `StoreInv` adds that signatures count the writes,
  that a cached signature is never from the future, and that what a writer is
  about to put in place is one operation away from the file unless it is astray.
- `StoreIsShared`: `Spec => Shared!Spec`. `Replace` is the step that changes
  the contents, by one operation on what the file had, or by a process that is
  astray; a read answers with the file or leaves its process astray; a refused
  write, a load and a death change who is astray; every other step is a stutter.

**TaskFlowStore** (`ClientAssumption`).

- `RollBackIsExact`: `ReadersSeeConfirmed`, and `RestartIsBounded`:
  `RestartFindsConfirmed`. Together they are inductive, with the fact that only
  a client that keeps references shares anything (`StoreInv`); the lemmas
  `ConfirmsKeeps`, `RefusesKeeps` and `MutateKeeps` are about the calls of the
  client, whatever operation makes them.

**WorkerPool** (`PoolAssumption`).

- `CallsAreServedOnce`: `ServedOnce`. The invariant is without cardinalities:
  a call is in the queue at one place (`QueuedOnce`), with one thread
  (`ServedApart`), has one outcome posted (`PostedOnce`), is in the queue exactly
  from its submission until it is taken, never in two of these at once, and in
  one of them as long as somebody waits for it, unless its function ended the
  thread (`OnePlace`).
- `OutcomesAreFinal`: `OutcomeIsFinal`.

**GateNotify** (`NotifyAssumption`).

- `NoticesAreCurrent`: `NoStaleNotice`, and `WaitsAreNotified`:
  `EveryWaitNotified`, for any number of gates, invocations and crashes.
  `NoticeInv` says the same of an invocation that is still at work: no
  notification of a gate it has completed, one of each it left waiting so far.

**Only model-checked.** Liveness under fairness (`DriveEnds`, `EveryRunEnds`,
`CallEnds`, `VisitEnds`, `RunIsDriven`, `EveryCallRuns`, `EveryCallReturns`),
which the prover does not do. Every other property that a passing run checks,
invariant, action property or refinement, has a theorem.

## 6. What is not modelled

- Sinks, visualisation and the reading of configuration and agent files: no
  state whose order matters. A sink that is not composed may raise inside the
  runner; its exception goes where one of the store at the same place goes.
- The static adapter, and the search, env and secret resolvers: calls which
  StepRunner has as calls that end in any way they can.
- The `memory_id` entries of the context and the text of prompts.
- Dependencies that are listed twice: they are sets here.
- What an edited prompt gets of steps that are not upstream (core/runner.py:473).
- Hosts that edit a flow after it was parsed: the snapshot is the text it was
  parsed from (core/runner.py:140), so that a resume drives another flow.
- The terminal driver of a gate blocks the event loop while it asks; its
  docstring (cli/main.py:58) says that nothing of the layer runs beside it,
  which a gate and an agent in one layer contradict. StepRunner takes the
  question as one await or as none.
- The choice `prune` makes, and the reading operations of the stores, which
  change nothing.
- The closing of the event loop under a pending call of the worker pool.
- The lease without `fcntl`, where only the guard of the process is left.

## 7. Plan

Done: FlowGraph, References, Memories and FlowText; StepRunner with its two
passing runs and its refinement of Dataflow; RunCalls; RunLease; JsonStore and
TaskFlowStore; WorkerPool; GateNotify; AgentAttempt; proofs about all of these.
What could follow:

1. Memory ids of earlier visits, and memories that another run supersedes while
   a chain is followed.
2. The lease on Windows, where two processes do not exclude each other.
3. That RunCalls refines StepRunner on its chain.
