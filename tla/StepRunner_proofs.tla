-------------------------- MODULE StepRunner_proofs --------------------------
(***************************************************************************)
(* Theorems about StepRunner, for every flow, every bound and every choice *)
(* of the constants its assumptions allow.  That the algorithms of         *)
(* FlowGraph compute a graph as GraphAssumption has it is in Flows_proofs. *)
(***************************************************************************)
EXTENDS StepRunner, WellFoundedInduction, SequenceTheorems, TLAPS

(* A non-empty set of naturals has a least element.                        *)
LEMMA LeastNat ==
  ASSUME NEW T, T \subseteq Nat, T # {}
  PROVE  \E x \in T : \A y \in T : x <= y
<1>1. PICK x \in T : \A y \in T : <<y, x>> \notin OpToRel(<, Nat)
  BY NatLessThanWellFounded, WFMin, Zenon
<1>2. \A y \in T : ~(y < x)
  <2>1. SUFFICES ASSUME NEW y \in T, y < x PROVE FALSE
    OBVIOUS
  <2>2. <<y, x>> \in Nat \X Nat /\ <<y, x>>[1] < <<y, x>>[2]
    BY <2>1
  <2> QED BY <1>1, <2>2 DEF OpToRel
<1> QED BY <1>2

(* First picks a member of any non-empty part of the driver's layer.       *)
LEMMA FirstInSet ==
  ASSUME NEW S, S # {}, layer \in DOMAIN Layers, S \subseteq LayerSteps(layer)
  PROVE  First(S) \in S
<1> DEFINE inLayer == Layers[layer]
           T == {i \in DOMAIN inLayer : inLayer[i] \in S}
<1>1. inLayer \in Seq(Step)
  BY GraphAssumption
<1>2. T \subseteq Nat /\ T # {}
  BY <1>1 DEF LayerSteps, ToSet
<1> HIDE DEF T
<1>3. PICK i \in T : \A j \in T : i <= j
  BY <1>2, LeastNat
<1>4. i \in DOMAIN inLayer /\ inLayer[i] \in S
  BY <1>3 DEF T
<1>5. \A j \in 1 .. (i - 1) : inLayer[j] \notin S
  <2>1. SUFFICES ASSUME NEW j \in 1 .. (i - 1), inLayer[j] \in S PROVE FALSE
    OBVIOUS
  <2>2. j \in T
    BY <1>1, <1>4, <2>1 DEF T
  <2> QED BY <1>1, <1>2, <1>3, <2>1, <2>2
<1> QED BY <1>4, <1>5 DEF First

-----------------------------------------------------------------------------
(* The inductive invariant behind type correctness.                        *)

(* Tasks exist only while the driver waits for its layer, and only for the *)
(* steps of that layer.                                                    *)
TasksInLayer ==
    IF loop \in {"none", "topology"}
    THEN \A s \in Step : task[s] = "idle"
    ELSE /\ layer \in DOMAIN Layers
         /\ \A s \in Step : task[s] # "idle" => s \in LayerSteps(layer)

(* A task that returns a goto has the option that names its target.        *)
GotoHasTarget ==
    \A s \in Step :
        /\ choice[s].action = "goto_step" => choice[s].target \in Step
        /\ task[s] = "goto_step" => choice[s].action = "goto_step"

Inv == TypeOK /\ TasksInLayer /\ GotoHasTarget /\ VisitsBounded

(* The invariant holds before the run is created.                          *)
LEMMA InitInv == Init => Inv
BY GraphAssumption, FlowAssumption
   DEF Init, Inv, TypeOK, TasksInLayer, GotoHasTarget, VisitsBounded, NoOption, Option,
       FlowStatus, StepStatus, TaskState, Nothing

-----------------------------------------------------------------------------
(* What a step of a task does, as the proofs that follow need it.          *)

\* The task goes on without touching the status of its step.
Advances(s) ==
    /\ \/ task[s] = "before" /\ s \in Gate /\ task'[s] = "ask"
       \/ task[s] \in {"render", "exec"} /\ task'[s] = "exec"
       \/ task[s] = "after" /\ task'[s] = "ok"
       \/ task[s] = "erring" /\ task'[s] = "failed"
       \/ task[s] = "notify" /\ task'[s] = "pause"
       \/ task[s] = "decided" /\ task'[s] = Control(s)
    /\ status'[s] = status[s] /\ output'[s] = output[s]

\* What the prompt of a step gets of its upstream steps.
Read(s) == [d \in Step |-> IF d \in Ancestors(s) /\ status[d] = "completed" THEN output[d] ELSE 0]

Renders(s) ==
    /\ task[s] = "before" /\ s \notin Gate /\ task'[s] = "render"
    /\ used'[s] = Offered
    /\ \A d \in Ancestors(s) : status[d] = "completed" => used'[s][d] = output[d]
    /\ status'[s] = status[s]

Begins(s) ==
    /\ task[s] = "spawned" /\ task'[s] = "before" /\ status'[s] = "running"
    /\ ~VisitLimitReached(s) /\ CountVisit(s)

Errs(s) ==
    /\ task[s] \in {"spawned", "render", "exec", "ask"}
    /\ task'[s] = "erring" /\ status'[s] = "failed"

Accepts(s) ==
    /\ task[s] = "exec" /\ task'[s] = "after" /\ status'[s] = "completed"
    /\ output'[s] = visits[s]

Pends(s) ==
    /\ task[s] = "ask" /\ task'[s] = "notify" /\ status'[s] = "waiting_human"

Answers(s, option) ==
    /\ s \in Gate /\ option \in Options[s]
    /\ task[s] = "ask" /\ task'[s] = "decided" /\ status'[s] = "completed"
    /\ output'[s] = visits[s]
    /\ choice'[s] = option
    /\ decisions' = decisions \cup {Decision(s, option)}

Receives(s) ==
    /\ s \in cancelReq /\ task[s] \in Active \cup {"spawned"}
    /\ task[s] \in {"spawned", "render", "exec"} \cup Suspends
    /\ task'[s] = "cancelled"
    /\ IF Handles(s) THEN status'[s] = "failed" ELSE status'[s] = status[s] /\ output'[s] = output[s]

Effect(s) ==
    \/ Advances(s) \/ Renders(s) \/ Begins(s) \/ Errs(s) \/ Accepts(s) \/ Pends(s) \/ Receives(s)
    \/ \E option \in Option : Answers(s, option)

OwnStepOnly(s) ==
    /\ \A t \in Step \ {s} :
         /\ status'[t] = status[t] /\ output'[t] = output[t] /\ used'[t] = used[t]
         /\ task'[t] = task[t] /\ choice'[t] = choice[t]
    /\ task' = [task EXCEPT ![s] = task'[s]]
    /\ task'[s] # "before" => visits' = visits
    /\ task'[s] # "render" => used'[s] = used[s]
    /\ task'[s] # "decided" => choice'[s] = choice[s] /\ decisions' = decisions
    /\ UNCHANGED <<flowStatus, currentStep, loop, layer, cancelReq, crashes>>

(* Every action of a task has one of these effects, on its own step only.  *)
LEMMA TaskEffect ==
  ASSUME NEW s \in Step, TypeOK, TaskStep(s)
  PROVE  Effect(s) /\ OwnStepOnly(s)
<1> USE DEF At, Goes, TaskFrame, MarkFailed, Put, steps, OwnStepOnly
<1>0. /\ task \in [Step -> TaskState] /\ status \in [Step -> StepStatus]
      /\ output \in [Step -> Nat] /\ used \in [Step -> [Step -> Nat]]
      /\ choice \in [Step -> Option]
  BY DEF TypeOK
<1>1. CASE StartStep(s)
  BY <1>0, <1>1 DEF StartStep, VisitLimitReached, Begins, Errs, Effect
<1>2. CASE BeforeDone(s)
  <2>1. CASE s \in Gate
    BY <1>0, <1>2, <2>1 DEF BeforeDone, Advances, Effect
  <2>2. CASE s \notin Gate
    <3>1. \A d \in Ancestors(s) : status[d] = "completed" => Offered[d] = output[d]
      BY DEF Ancestors, Offered
    <3>2. used' = [used EXCEPT ![s] = Offered] /\ task' = [task EXCEPT ![s] = "render"]
      BY <1>2, <2>2 DEF BeforeDone
    <3>3. task[s] = "before" /\ UNCHANGED <<status, visits, output, choice, decisions>>
      BY <1>2, <2>2 DEF BeforeDone
    <3>4. Renders(s)
      BY <1>0, <2>2, <3>1, <3>2, <3>3 DEF Renders
    <3> QED BY <1>0, <1>2, <3>2, <3>3, <3>4 DEF BeforeDone, Effect
  <2> QED BY <2>1, <2>2
<1>3. CASE RenderDone(s)
  BY <1>0, <1>3 DEF RenderDone, Advances, Effect
<1>4. CASE InternalError(s)
  BY <1>0, <1>4 DEF InternalError, Errs, Effect
<1>5. CASE AttemptAccepted(s)
  BY <1>0, <1>5 DEF AttemptAccepted, Accepts, Effect
<1>6. CASE AttemptRejected(s)
  <2>1. CASE UNCHANGED <<status, output, task>>
    BY <1>0, <1>6, <2>1 DEF AttemptRejected, Advances, Effect
  <2>2. CASE (\E left \in {0, visits[s]} : Put(s, "failed", left)) /\ Goes(s, "erring")
    BY <1>0, <1>6, <2>2 DEF AttemptRejected, Errs, Effect
  <2> QED BY <1>6, <2>1, <2>2 DEF AttemptRejected
<1>7. CASE AfterDone(s)
  BY <1>0, <1>7 DEF AfterDone, Advances, Effect
<1>8. CASE ErrorDone(s)
  BY <1>0, <1>8 DEF ErrorDone, Advances, Effect
<1>9. CASE AskFails(s)
  BY <1>0, <1>9 DEF AskFails, Errs, Effect
<1>10. CASE AskPends(s)
  BY <1>0, <1>10 DEF AskPends, Pends, Effect
<1>11. CASE NotifyDone(s)
  BY <1>0, <1>11 DEF NotifyDone, Advances, Effect
<1>12. CASE \E option \in Option : s \in Gate /\ option \in Options[s] /\ AskAnswers(s, option)
  <2>1. PICK option \in Option : s \in Gate /\ option \in Options[s] /\ AskAnswers(s, option)
    BY <1>12
  <2>2. Answers(s, option)
    BY <1>0, <2>1 DEF AskAnswers, Answers
  <2> QED BY <1>0, <2>1, <2>2 DEF AskAnswers, Effect
<1>13. CASE DecidedDone(s)
  <2>1. Control(s) \notin {"render", "decided"}
    BY <1>0 DEF Control, Option
  <2>2. task[s] = "decided" /\ task' = [task EXCEPT ![s] = Control(s)]
        /\ UNCHANGED <<status, output, used, choice, decisions>>
    BY <1>13 DEF DecidedDone
  <2> QED BY <1>0, <1>13, <2>1, <2>2 DEF DecidedDone, Advances, Effect
<1>14. CASE CancelDelivered(s)
  <2>1. /\ s \in cancelReq /\ task[s] \in Active \cup {"spawned"}
        /\ task[s] \in {"spawned", "render", "exec"} \cup Suspends
    BY <1>14 DEF CancelDelivered, Live, Interrupted
  <2>2. task' = [task EXCEPT ![s] = "cancelled"] /\ UNCHANGED <<used, choice, decisions>>
    BY <1>14 DEF CancelDelivered
  <2>3. CASE Handles(s)
    BY <1>0, <1>14, <2>1, <2>2, <2>3 DEF CancelDelivered, Receives, Effect
  <2>4. CASE ~Handles(s)
    BY <1>0, <1>14, <2>1, <2>2, <2>4 DEF CancelDelivered, Receives, Effect
  <2> QED BY <2>3, <2>4
<1> QED
  BY <1>1, <1>2, <1>3, <1>4, <1>5, <1>6, <1>7, <1>8, <1>9, <1>10, <1>11, <1>12, <1>13, <1>14,
     Zenon DEF TaskStep

(* A step of a task moves that task, which it has, and leaves the driver   *)
(* alone.                                                                  *)
LEMMA TaskMoves ==
  ASSUME NEW s \in Step, TypeOK, TaskStep(s)
  PROVE  /\ \E place \in TaskState : task' = [task EXCEPT ![s] = place]
         /\ task[s] # "idle" /\ task'[s] # "idle"
         /\ UNCHANGED <<flowStatus, currentStep, loop, layer, cancelReq, crashes>>
<1>1. Effect(s) /\ OwnStepOnly(s)
  BY TaskEffect
<1>2. task[s] # "idle" /\ task'[s] \in TaskState \ {"idle"}
  BY <1>1 DEF Effect, Advances, Renders, Begins, Errs, Accepts, Pends, Answers, Receives, Control,
     TypeOK, Option, TaskState, Active, Ends, Failures, Controls
<1> QED BY <1>1, <1>2 DEF OwnStepOnly

(* A step of a task keeps the types.                                       *)
LEMMA TaskStepType ==
  ASSUME NEW s \in Step, TypeOK, TaskStep(s)
  PROVE  TypeOK'
<1>1. /\ flowStatus' \in FlowStatus \cup {"none"}
      /\ currentStep' \in Step \cup {NoStep}
      /\ loop' \in {"none", "topology", "wait", "gather", "cancelled", "orphaned"}
      /\ layer' \in Nat \ {0}
      /\ task' \in [Step -> TaskState]
      /\ cancelReq' \subseteq Step
      /\ crashes' \in [count : Nat, cutReset : BOOLEAN]
  <2>1. PICK place \in TaskState : task' = [task EXCEPT ![s] = place]
    BY TaskMoves
  <2> QED BY <2>1, TaskMoves DEF TypeOK
<1>2. /\ status' \in [Step -> StepStatus]
      /\ visits' \in [Step -> Nat]
      /\ output' \in [Step -> Nat]
      /\ used' \in [Step -> [Step -> Nat]]
      /\ attempt' \in [Step -> Nat]
      /\ choice' \in [Step -> Option]
      /\ decisions' \subseteq [step : Gate, visit : Nat, option : Option]
  <2> USE DEF TypeOK, Put, MarkFailed, StepStatus, steps
  <2>1. CASE StartStep(s)
    <3>1. UNCHANGED <<used, decisions, attempt, choice>>
      BY <2>1 DEF StartStep
    <3>2. CASE VisitLimitReached(s)
      BY <2>1, <3>1, <3>2 DEF StartStep, VisitLimitReached
    <3>3. CASE ~VisitLimitReached(s)
      <4>1. visits' \in [Step -> Nat]
        BY <2>1, <3>3 DEF StartStep, CountVisit, VisitLimitReached
      <4>2. Put(s, "running", 0)
        BY <2>1, <3>3 DEF StartStep, VisitLimitReached, CountVisit
      <4> QED BY <3>1, <4>1, <4>2
    <3> QED BY <3>2, <3>3
  <2>2. CASE BeforeDone(s)
    <3>1. CASE s \in Gate
      BY <2>2, <3>1 DEF BeforeDone
    <3>2. CASE s \notin Gate
      <4>1. Offered \in [Step -> Nat]
        BY DEF Offered
      <4>2. used' = [used EXCEPT ![s] = Offered]
        BY <2>2, <3>2 DEF BeforeDone
      <4>3. used' \in [Step -> [Step -> Nat]]
        BY <4>1, <4>2
      <4> QED BY <2>2, <4>3 DEF BeforeDone
    <3> QED BY <3>1, <3>2
  <2>3. CASE RenderDone(s)
    BY <2>3 DEF RenderDone
  <2>4. CASE InternalError(s)
    BY <2>4 DEF InternalError
  <2>5. CASE AttemptAccepted(s)
    BY <2>5 DEF AttemptAccepted
  <2>6. CASE AttemptRejected(s)
    <3>1. UNCHANGED <<visits, used, decisions, choice>>
      BY <2>6 DEF AttemptRejected
    <3>2. CASE attempt[s] <= Retry[s]
      <4>1. PICK n \in Nat : attempt' = [attempt EXCEPT ![s] = n]
        BY <2>6, <3>2, FlowAssumption DEF AttemptRejected
      <4>2. UNCHANGED <<status, output>>
        BY <2>6, <3>2, FlowAssumption DEF AttemptRejected
      <4> QED BY <3>1, <4>1, <4>2
    <3>3. CASE attempt[s] > Retry[s]
      <4>1. PICK left \in {0, visits[s]} : Put(s, "failed", left) /\ UNCHANGED attempt
        BY <2>6, <3>3, FlowAssumption DEF AttemptRejected
      <4>2. left \in Nat
        BY <4>1
      <4> QED BY <3>1, <4>1, <4>2
    <3>4. attempt[s] <= Retry[s] \/ attempt[s] > Retry[s]
      BY FlowAssumption
    <3> QED BY <3>2, <3>3, <3>4
  <2>7. CASE AfterDone(s)
    BY <2>7 DEF AfterDone
  <2>8. CASE ErrorDone(s)
    BY <2>8 DEF ErrorDone
  <2>9. CASE AskFails(s)
    BY <2>9 DEF AskFails
  <2>10. CASE AskPends(s)
    BY <2>10 DEF AskPends
  <2>11. CASE NotifyDone(s)
    BY <2>11 DEF NotifyDone
  <2>12. CASE \E option \in Option : s \in Gate /\ option \in Options[s] /\ AskAnswers(s, option)
    <3>1. PICK option \in Options[s] : s \in Gate /\ option \in Option /\ AskAnswers(s, option)
      BY <2>12
    <3>2. status' \in [Step -> StepStatus] /\ output' \in [Step -> Nat]
      BY <3>1 DEF AskAnswers
    <3>3. choice' \in [Step -> Option]
      BY <3>1 DEF AskAnswers
    <3>4. decisions' \subseteq [step : Gate, visit : Nat, option : Option]
      BY <3>1 DEF AskAnswers, Decision
    <3> QED BY <3>1, <3>2, <3>3, <3>4 DEF AskAnswers
  <2>13. CASE DecidedDone(s)
    BY <2>13 DEF DecidedDone
  <2>14. CASE CancelDelivered(s)
    BY <2>14 DEF CancelDelivered
  <2> QED
    BY <2>1, <2>2, <2>3, <2>4, <2>5, <2>6, <2>7, <2>8, <2>9, <2>10, <2>11, <2>12, <2>13, <2>14
       DEF TaskStep
<1> QED BY <1>1, <1>2 DEF TypeOK

(* A step of a task keeps the rest of the invariant.                       *)
LEMMA TaskStepInv ==
  ASSUME NEW s \in Step, Inv, TaskStep(s)
  PROVE  Inv'
<1> USE DEF Inv
<1>1. TypeOK'
  BY TaskStepType
<1>2. TasksInLayer'
  <2>1. PICK place \in TaskState : task' = [task EXCEPT ![s] = place]
    BY TaskMoves
  <2>2. loop \notin {"none", "topology"}
    BY TaskMoves DEF TasksInLayer
  <2> QED BY <2>1, <2>2, TaskMoves DEF TasksInLayer, LayerSteps, TypeOK
<1>3. GotoHasTarget'
  <2>1. Effect(s) /\ OwnStepOnly(s)
    BY TaskEffect
  <2>2. choice'[s].action = "goto_step" => choice'[s].target \in Step
    <3>1. choice'[s] = choice[s] \/ \E option \in Option : Answers(s, option)
      BY <2>1 DEF OwnStepOnly, Effect, Advances, Renders, Begins, Errs, Accepts, Pends, Receives,
         Control, TypeOK, Option
    <3>2. ASSUME NEW option \in Option, Answers(s, option)
          PROVE  choice'[s].action = "goto_step" => choice'[s].target \in Step
      BY <3>2, FlowAssumption DEF Answers, Option
    <3> QED BY <3>1, <3>2 DEF GotoHasTarget
  <2>3. task'[s] = "goto_step" => choice'[s].action = "goto_step"
    BY <2>1 DEF OwnStepOnly, Effect, Advances, Renders, Begins, Errs, Accepts, Pends, Answers,
       Receives, Control, TypeOK, Option
  <2> QED BY <2>1, <2>2, <2>3 DEF GotoHasTarget, OwnStepOnly
<1>4. VisitsBounded'
  <2>1. CASE UNCHANGED visits
    BY <2>1 DEF VisitsBounded
  <2>2. CASE StartStep(s)
    <3>1. CASE VisitLimitReached(s)
      BY <2>2, <3>1 DEF StartStep, VisitLimitReached, VisitsBounded
    <3>2. CASE ~VisitLimitReached(s)
      <4>1. visits' = [visits EXCEPT ![s] = @ + 1] /\ ~(visits[s] + 1 > MaxVisits[s])
        BY <2>2, <3>2 DEF StartStep, VisitLimitReached, CountVisit
      <4>2. visits[s] \in Nat /\ MaxVisits[s] \in Nat /\ visits \in [Step -> Nat]
        BY FlowAssumption DEF TypeOK
      <4>3. visits[s] + 1 <= MaxVisits[s]
        BY <4>1, <4>2
      <4> QED BY <4>1, <4>2, <4>3 DEF VisitsBounded
    <3> QED BY <3>1, <3>2
  <2>3. TaskStep(s) => StartStep(s) \/ UNCHANGED visits
    BY DEF TaskStep, BeforeDone, RenderDone, InternalError, AttemptAccepted, AttemptRejected,
           AfterDone, ErrorDone, AskFails, AskPends, NotifyDone, AskAnswers, DecidedDone,
           CancelDelivered, steps
  <2> QED BY <2>1, <2>2, <2>3
<1> QED BY <1>1, <1>2, <1>3, <1>4

-----------------------------------------------------------------------------
(* The steps of the driver, of the operator and of a crash.                *)

(* When the coroutines are gone the task-local variables are typed and the *)
(* parts of the invariant about tasks hold vacuously.                      *)
LEMMA NoTasksIdle ==
  ASSUME NoTasks, loop' \in {"none", "topology"}
  PROVE  /\ TasksInLayer' /\ GotoHasTarget'
         /\ task' \in [Step -> TaskState]
         /\ attempt' \in [Step -> Nat]
         /\ choice' \in [Step -> Option]
         /\ cancelReq' \subseteq Step
BY DEF NoTasks, TasksInLayer, GotoHasTarget, TaskState, NoOption, Option

(* reset_step on any set of steps keeps the types and the visits.          *)
LEMMA ResetTyped ==
  ASSUME NEW R, TypeOK, ResetSteps(R)
  PROVE  /\ status' \in [Step -> StepStatus]
         /\ output' \in [Step -> Nat]
         /\ used' \in [Step -> [Step -> Nat]]
         /\ visits' = visits
<1>1. Nothing \in [Step -> Nat]
  BY DEF Nothing
<1> QED BY <1>1 DEF ResetSteps, TypeOK, StepStatus

(* A layer is made of steps of the flow.                                   *)
LEMMA LayerStepsAreSteps == \A i \in DOMAIN Layers : LayerSteps(i) \subseteq Step
BY GraphAssumption DEF LayerSteps, ToSet

(* Whatever set of finished tasks the driver looks at, its first member is *)
(* a step.                                                                 *)
LEMMA FirstEnded ==
  ASSUME NEW K, Inv, loop \notin {"none", "topology"}, "idle" \notin K, Ended(K) # {}
  PROVE  First(Ended(K)) \in Step
<1>1. Ended(K) \subseteq LayerSteps(layer) /\ layer \in DOMAIN Layers
  BY DEF Inv, TasksInLayer, Ended
<1>2. First(Ended(K)) \in Ended(K)
  BY <1>1, FirstInSet
<1> QED BY <1>2 DEF Ended

(* The shape of a step after which no task is left.                        *)
LEMMA CleanStep ==
  ASSUME Inv, NoTasks, loop' \in {"none", "topology"}, layer' \in Nat \ {0}, crashes' \in [count : Nat, cutReset : BOOLEAN],
         flowStatus' \in FlowStatus \cup {"none"}, currentStep' \in Step \cup {NoStep},
         status' \in [Step -> StepStatus], output' \in [Step -> Nat],
         used' \in [Step -> [Step -> Nat]], visits' = visits,
         decisions' \subseteq [step : Gate, visit : Nat, option : Option]
  PROVE  Inv'
BY NoTasksIdle DEF Inv, TypeOK, VisitsBounded

(* A step of the driver keeps the invariant: one case per branch of        *)
(* _run_topology, _run_layer and _execute_loop.                            *)
LEMMA DriverStepInv ==
  ASSUME Inv, DriverStep
  PROVE  Inv'
<1> USE DEF SetFlow, FlowStatus, DriverLeaves, steps
<1>0. /\ TypeOK /\ TasksInLayer /\ GotoHasTarget /\ VisitsBounded
      /\ DOMAIN Layers \subseteq Nat \ {0}
  BY GraphAssumption DEF Inv
<1>1. CASE SkipLayer
  BY <1>0, <1>1 DEF SkipLayer, AtLayer, run, TypeOK, TasksInLayer, GotoHasTarget, VisitsBounded, Inv
<1>2. CASE BlockedLayer
  <2> DEFINE blocked == {s \in LayerSteps(layer) : Blocked(s)}
  <2>1. layer \in DOMAIN Layers
    BY <1>0, <1>2, GraphAssumption DEF BlockedLayer, AtLayer, TypeOK
  <2>2. First(blocked) \in Step
    BY <1>2, <2>1, FirstInSet, LayerStepsAreSteps DEF BlockedLayer
  <2> QED BY <1>0, <1>2, <2>2, CleanStep DEF BlockedLayer, TypeOK
<1>3. CASE EnterLayer
  <2>1. layer \in DOMAIN Layers
    BY <1>0, <1>3, GraphAssumption DEF EnterLayer, AtLayer, TypeOK
  <2>2. task' \in [Step -> TaskState]
    BY <1>3 DEF EnterLayer, TaskState
  <2>3. TypeOK'
    BY <1>0, <1>3, <2>2 DEF EnterLayer, TypeOK, run
  <2>4. TasksInLayer'
    BY <1>3, <2>1 DEF EnterLayer, TasksInLayer, Runnable, LayerSteps
  <2>5. GotoHasTarget'
    BY <1>0, <1>3 DEF EnterLayer, GotoHasTarget
  <2> QED BY <1>0, <1>3, <2>3, <2>4, <2>5 DEF EnterLayer, run, Inv, VisitsBounded
<1>4. CASE FinishRun
  BY <1>0, <1>4, CleanStep DEF FinishRun, TypeOK
<1>5. CASE WaitEnds
  BY <1>0, <1>5 DEF WaitEnds, run, TypeOK, TasksInLayer, LayerSteps, GotoHasTarget, VisitsBounded, Inv
<1>6. CASE LayerFails
  <2>1. First(Ended(Failures)) \in Step
    BY <1>6, FirstEnded DEF LayerFails, LayerEnds, Failures
  <2> QED BY <1>0, <1>6, <2>1, CleanStep DEF LayerFails, TypeOK
<1>7. CASE LayerConflicts
  <2>1. First(Deciding) \in Step
    BY <1>7, FirstEnded DEF LayerConflicts, LayerEnds, Deciding
  <2> QED BY <1>0, <1>7, <2>1, CleanStep DEF LayerConflicts, Put, TypeOK, StepStatus
<1>8. CASE LayerPauses
  <2>1. First(Ended({"pause"})) \in Step
    <3>1. Ended({"pause"}) # {}
      <4>1. PICK s \in Controlling : s \notin Deciding
        BY <1>8 DEF LayerPauses
      <4>2. s \in Step /\ task[s] \in Controls
        BY <4>1 DEF Controlling, Ended
      <4>3. task[s] = "pause"
        BY <4>1, <4>2 DEF Deciding, Ended, Controls
      <4> QED BY <4>2, <4>3 DEF Ended
    <3> QED BY <1>8, <3>1, FirstEnded DEF LayerPauses, LayerEnds
  <2> QED BY <1>0, <1>8, <2>1, CleanStep DEF LayerPauses, TypeOK
<1>9. CASE LayerPasses
  BY <1>0, <1>9, CleanStep DEF LayerPasses, TypeOK, run
<1>10. CASE \E s \in Step : LayerTerminates(s)
  BY <1>0, <1>10, CleanStep DEF LayerTerminates, TypeOK
<1>11. CASE \E s \in Step : LayerGoesTo(s)
  <2>1. PICK s \in Step : LayerGoesTo(s)
    BY <1>11
  <2>2. choice[s].target \in Step
    BY <1>0, <2>1 DEF LayerGoesTo, Sole, GotoHasTarget
  <2>3. /\ status' \in [Step -> StepStatus]
        /\ output' \in [Step -> Nat]
        /\ used' \in [Step -> [Step -> Nat]]
        /\ visits' = visits
    BY <1>0, <2>1, ResetTyped DEF LayerGoesTo
  <2> QED BY <1>0, <2>1, <2>2, <2>3, CleanStep DEF LayerGoesTo, TypeOK
<1>12. CASE CancelledEnds
  BY <1>0, <1>12, CleanStep DEF CancelledEnds, TypeOK
<1>13. CASE OrphansEnd
  BY <1>0, <1>13, CleanStep DEF OrphansEnd, TypeOK
<1> QED
  BY <1>1, <1>2, <1>3, <1>4, <1>5, <1>6, <1>7, <1>8, <1>9, <1>10, <1>11, <1>12, <1>13
     DEF DriverStep

(* Starting and resuming a run keep the invariant.                         *)
LEMMA EntryInv ==
  ASSUME Inv, StartRun \/ \E target \in Step \cup {NoStep} : Resume(target)
  PROVE  Inv'
<1>1. CASE StartRun
  BY <1>1 DEF StartRun, SetFlow, FlowStatus, steps, Inv, TypeOK, TasksInLayer, GotoHasTarget,
              VisitsBounded
<1>2. CASE \E target \in Step \cup {NoStep} : Resume(target)
  BY <1>2 DEF Resume, SetFlow, FlowStatus, steps, Inv, TypeOK, TasksInLayer, GotoHasTarget,
              VisitsBounded
<1> QED BY <1>1, <1>2

(* A death of the process is counted.                                      *)
LEMMA DeathTyped ==
  ASSUME TypeOK, NEW point, DiesAt(point)
  PROVE  crashes' \in [count : Nat, cutReset : BOOLEAN]
BY DEF TypeOK, DiesAt

(* A reset by an operator touches the store only.                          *)
LEMMA ResetAndRunInv ==
  ASSUME Inv, NEW s \in Step, NEW count, ResetAndRun(s, count)
  PROVE  Inv'
<1>1. UNCHANGED <<decisions, process>> /\ ResetSteps(ResetSet(s, count))
  BY DEF ResetAndRun
<1>2. /\ status' \in [Step -> StepStatus]
      /\ output' \in [Step -> Nat]
      /\ used' \in [Step -> [Step -> Nat]]
      /\ visits' = visits
  BY <1>1, ResetTyped DEF Inv
<1>3. /\ flowStatus' \in FlowStatus \cup {"none"}
      /\ currentStep' \in Step \cup {NoStep}
      /\ crashes' \in [count : Nat, cutReset : BOOLEAN]
  <2>1. CASE SetFlow("running", s) /\ UNCHANGED crashes
    BY <2>1 DEF SetFlow, FlowStatus, Inv, TypeOK
  <2>2. CASE DiesAt("reset") /\ UNCHANGED <<flowStatus, currentStep>>
    BY <2>2, DeathTyped DEF FlowStatus, Inv, TypeOK
  <2> QED BY <2>1, <2>2 DEF ResetAndRun
<1>4. TypeOK'
  BY <1>1, <1>2, <1>3 DEF Inv, TypeOK, process
<1>5. TasksInLayer' /\ GotoHasTarget'
  BY <1>1 DEF Inv, TasksInLayer, GotoHasTarget, process, LayerSteps
<1>6. VisitsBounded'
  BY <1>2 DEF Inv, VisitsBounded
<1> QED BY <1>4, <1>5, <1>6 DEF Inv

(* retry, edit, cancel and a cancellation by the host keep the invariant.  *)
LEMMA OperatorStepInv ==
  ASSUME Inv, OperatorStep
  PROVE  Inv'
<1>1. CASE \E s \in Step, count \in 0 .. Len(YamlOrder) : RetryStep(s, count) \/ EditStep(s, count)
  BY <1>1, ResetAndRunInv DEF RetryStep, EditStep
<1>2. CASE CancelRun
  BY <1>2 DEF CancelRun, SetFlow, FlowStatus, steps, process, Inv, TypeOK, TasksInLayer,
              LayerSteps, GotoHasTarget, VisitsBounded
<1>3. CASE HostCancels
  BY <1>3 DEF HostCancels, SetFlow, FlowStatus, steps, Inv, TypeOK, TasksInLayer,
              LayerSteps, GotoHasTarget, VisitsBounded
<1> QED BY <1>1, <1>2, <1>3 DEF OperatorStep

(* A crash at any of its points keeps the invariant.                       *)
LEMMA CrashStepInv ==
  ASSUME Inv, CrashStep
  PROVE  Inv'
<1> USE DEF Crash, SetFlow, FlowStatus, steps
<1>1. CASE CrashAtAwait
  BY <1>1, CleanStep, DeathTyped DEF CrashAtAwait, run, Inv, TypeOK
<1>2. CASE CrashInCreate
  BY <1>2, CleanStep, DeathTyped DEF CrashInCreate, Inv, TypeOK
<1>3. CASE \E s \in Gate : \E option \in Options[s] : CrashInGate(s, option)
  <2>1. PICK s \in Gate : \E option \in Options[s] : CrashInGate(s, option)
    BY <1>3
  <2>2. PICK option \in Options[s] : CrashInGate(s, option)
    BY <2>1
  <2>3. s \in Step /\ option \in Option
    BY FlowAssumption
  <2>4. decisions' \subseteq [step : Gate, visit : Nat, option : Option]
    BY <2>2, <2>3 DEF CrashInGate, Decision, Inv, TypeOK
  <2> QED BY <2>2, <2>4, CleanStep, DeathTyped DEF CrashInGate, Inv, TypeOK
<1>4. CASE \E s \in Step, count \in 0 .. (Len(YamlOrder) - 1) : CrashInGoto(s, count)
  <2>1. PICK s \in Step, count \in 0 .. (Len(YamlOrder) - 1) : CrashInGoto(s, count)
    BY <1>4
  <2>2. /\ status' \in [Step -> StepStatus]
        /\ output' \in [Step -> Nat]
        /\ used' \in [Step -> [Step -> Nat]]
        /\ visits' = visits
    BY <2>1, ResetTyped DEF CrashInGoto, Inv
  <2>3. /\ crashes' \in [count : Nat, cutReset : BOOLEAN]
        /\ NoTasks /\ loop' = "none" /\ layer' = 1
    BY <2>1, DeathTyped DEF CrashInGoto, Inv
  <2>4. /\ flowStatus' \in FlowStatus \cup {"none"}
        /\ currentStep' \in Step \cup {NoStep}
        /\ decisions' \subseteq [step : Gate, visit : Nat, option : Option]
    BY <2>1 DEF CrashInGoto, Inv, TypeOK
  <2> QED BY <2>2, <2>3, <2>4, CleanStep
<1> QED BY <1>1, <1>2, <1>3, <1>4 DEF CrashStep

(* The invariant is inductive.                                             *)
LEMMA NextInv == Inv /\ [Next]_vars => Inv'
<1> SUFFICES ASSUME Inv, [Next]_vars PROVE Inv'
  OBVIOUS
<1>1. CASE UNCHANGED vars
  BY <1>1 DEF vars, run, steps, process, Inv, TypeOK, TasksInLayer, LayerSteps, GotoHasTarget,
              VisitsBounded
<1>2. CASE Next
  BY <1>2, EntryInv, DriverStepInv, TaskStepInv, OperatorStepInv, CrashStepInv DEF Next
<1> QED BY <1>1, <1>2

(* The inductive invariant holds in every reachable state: types, tasks    *)
(* only for steps of the driver's layer, targets for gotos, visit limits.  *)
THEOREM InvAlways == Spec => []Inv
BY InitInv, NextInv, PTL DEF Spec

(* Every variable of the model keeps its type: in particular current_step  *)
(* names a step of the flow whenever it names anything, whichever failure, *)
(* pause or goto the driver took it from.                                  *)
THEOREM TypeCorrect == Spec => []TypeOK
<1>1. Inv => TypeOK
  BY DEF Inv
<1> QED BY <1>1, InvAlways, PTL

(* No step is ever entered more often than max_visits allows, on any flow, *)
(* whatever gotos, retries, edits, resumes and crashes the run goes        *)
(* through, also when an operator acts while a driver is running.          *)
THEOREM VisitsAreBounded == Spec => []VisitsBounded
<1>1. Inv => VisitsBounded
  BY DEF Inv
<1> QED BY <1>1, InvAlways, PTL

-----------------------------------------------------------------------------
(***************************************************************************)
(* The layers of a flow as numbers.                                        *)
(***************************************************************************)
Level(s) == CHOOSE i \in DOMAIN Layers : s \in LayerSteps(i)

(* Every step is in exactly one layer.                                     *)
LEMMA LevelOfStep ==
  ASSUME NEW s \in Step
  PROVE  /\ Level(s) \in DOMAIN Layers /\ Level(s) \in Nat \ {0} /\ Level(s) <= Len(Layers)
         /\ \A i \in DOMAIN Layers : s \in LayerSteps(i) <=> Level(s) = i
<1>1. \E i \in DOMAIN Layers : s \in LayerSteps(i)
  BY GraphAssumption
<1>2. Level(s) \in DOMAIN Layers /\ s \in LayerSteps(Level(s))
  BY <1>1 DEF Level
<1>3. DOMAIN Layers = 1 .. Len(Layers) /\ Len(Layers) \in Nat
  BY GraphAssumption
<1>4. ASSUME NEW i \in DOMAIN Layers, s \in LayerSteps(i) PROVE Level(s) = i
  <2>1. LayerSteps(i) \cap LayerSteps(Level(s)) # {}
    BY <1>2, <1>4
  <2> QED BY <1>2, <1>4, <2>1, GraphAssumption
<1> QED BY <1>2, <1>3, <1>4

(* What a step depends on is in an earlier layer.                          *)
LEMMA DepsBelow ==
  ASSUME NEW s \in Step, NEW d \in Deps[s]
  PROVE  d \in Step /\ Level(d) < Level(s)
<1>1. Level(s) \in DOMAIN Layers /\ s \in LayerSteps(Level(s))
  BY LevelOfStep
<1>2. d \in Step
  BY GraphAssumption
<1>3. PICK k \in 1 .. (Level(s) - 1) : d \in LayerSteps(k)
  BY <1>1, GraphAssumption
<1>4. k \in DOMAIN Layers /\ k < Level(s)
  BY <1>1, GraphAssumption
<1>5. Level(d) = k
  BY <1>2, <1>3, <1>4, LevelOfStep
<1> QED BY <1>2, <1>4, <1>5

(* So is everything it depends on indirectly.                              *)
LEMMA DescendantsAbove ==
  ASSUME NEW s \in Step, NEW t \in DescendantsOf[s]
  PROVE  t \in Step /\ Level(s) < Level(t)
<1> DEFINE Wrong(d, x) == x \in DescendantsOf[d] /\ ~(Level(d) < Level(x))
           T == {i \in Nat : \E d, x \in Step : Wrong(d, x) /\ Level(x) = i}
<1>1. SUFFICES ASSUME T # {} PROVE FALSE
  <2>1. t \in Step
    BY GraphAssumption
  <2>2. ~Wrong(s, t)
    BY <1>1, <2>1, LevelOfStep
  <2> QED BY <2>1, <2>2
<1>2. PICK i \in T : \A j \in T : i <= j
  <2> HIDE DEF T
  <2>1. T \subseteq Nat
    BY DEF T
  <2> QED BY <1>1, <2>1, LeastNat
<1>3. PICK d \in Step, x \in Step : Wrong(d, x) /\ Level(x) = i
  BY <1>2
<1>4. PICK e \in Deps[x] : e = d \/ e \in DescendantsOf[d]
  BY <1>3, GraphAssumption
<1>5. e \in Step /\ Level(e) < Level(x) /\ Level(e) \in Nat /\ Level(d) \in Nat /\ Level(x) \in Nat
  BY <1>3, <1>4, DepsBelow, LevelOfStep
<1>6. e \in DescendantsOf[d]
  BY <1>3, <1>4, <1>5
<1>7. Level(e) \notin T
  <2> HIDE DEF T
  <2> QED BY <1>2, <1>3, <1>5
<1>8. Level(d) < Level(e)
  BY <1>5, <1>6, <1>7
<1> QED BY <1>3, <1>5, <1>8

(* A descendant of a descendant is a descendant.                           *)
LEMMA DescendantsTransitive ==
  ASSUME NEW r \in Step, NEW s \in DescendantsOf[r], NEW t \in DescendantsOf[s]
  PROVE  t \in DescendantsOf[r]
<1> DEFINE Wrong(x) == x \in DescendantsOf[s] /\ x \notin DescendantsOf[r]
           T == {i \in Nat : \E x \in Step : Wrong(x) /\ Level(x) = i}
<1>0. s \in Step
  BY GraphAssumption
<1>1. SUFFICES ASSUME T # {} PROVE FALSE
  <2>1. t \in Step
    BY <1>0, GraphAssumption
  <2>2. ~Wrong(t)
    BY <1>1, <2>1, LevelOfStep
  <2> QED BY <2>1, <2>2
<1>2. PICK i \in T : \A j \in T : i <= j
  <2>1. T \subseteq Nat
    OBVIOUS
  <2> HIDE DEF T
  <2> QED BY <1>1, <2>1, LeastNat
<1>3. PICK x \in Step : Wrong(x) /\ Level(x) = i
  BY <1>2
<1>4. PICK e \in Deps[x] : e = s \/ e \in DescendantsOf[s]
  BY <1>0, <1>3, GraphAssumption
<1>5. e \in Step /\ Level(e) < Level(x) /\ Level(e) \in Nat /\ Level(x) \in Nat
  BY <1>3, <1>4, DepsBelow, LevelOfStep
<1>6. e \notin DescendantsOf[r]
  BY <1>3, <1>4, GraphAssumption
<1>7. Wrong(e)
  BY <1>4, <1>6
<1>8. Level(e) \in T
  BY <1>5, <1>7
<1> HIDE DEF T
<1> QED BY <1>2, <1>3, <1>5, <1>8

(* Considering every id of the flow resets the target and all below it.    *)
LEMMA FullReset ==
  ASSUME NEW s \in Step
  PROVE  /\ ResetSet(s, Len(YamlOrder)) = {s} \cup DescendantsOf[s]
         /\ \A count : ResetSet(s, count) \subseteq {s} \cup DescendantsOf[s]
<1>1. Step \subseteq {YamlOrder[i] : i \in 1 .. Len(YamlOrder)}
  <2>1. DOMAIN YamlOrder = 1 .. Len(YamlOrder)
    BY FlowAssumption
  <2>2. \A x \in Step : \E i \in DOMAIN YamlOrder : YamlOrder[i] = x
    BY FlowAssumption DEF ToSet
  <2> QED BY <2>1, <2>2
<1>2. {s} \cup DescendantsOf[s] \subseteq Step
  BY GraphAssumption
<1> QED BY <1>1, <1>2 DEF ResetSet

(* The steps with a task are those of the layer the driver has reached.    *)
LEMMA TaskAtLayer ==
  ASSUME Inv, NEW s \in Step, task[s] # "idle"
  PROVE  /\ Level(s) = layer /\ layer \in DOMAIN Layers /\ loop \notin {"none", "topology"}
         /\ LayerSteps(layer) \subseteq Step
BY LevelOfStep, LayerStepsAreSteps DEF Inv, TasksInLayer

ResetsByOperator ==
    \E s \in Step, count \in 0 .. Len(YamlOrder) : RetryStep(s, count) \/ EditStep(s, count)
GoesOrDies ==
    \E s \in Step, count \in Nat :
        /\ Sole("goto_step", s) /\ ResetSteps(ResetSet(choice[s].target, count))
        /\ LayerGoesTo(s) \/ CrashInGoto(s, count)
DiesWorking == CrashAtAwait \/ \E s \in Gate : \E option \in Options[s] : CrashInGate(s, option)

(* The actions one by one, as the case splits of the proofs name them.     *)
LEMMA StepCases ==
  ASSUME [Next]_vars
  PROVE  \/ UNCHANGED vars \/ StartRun \/ \E target \in Step \cup {NoStep} : Resume(target)
         \/ SkipLayer \/ BlockedLayer \/ EnterLayer \/ FinishRun \/ WaitEnds \/ LayerFails
         \/ LayerConflicts \/ LayerPauses \/ LayerPasses
         \/ (\E s \in Step : LayerTerminates(s)) \/ (\E s \in Step : LayerGoesTo(s))
         \/ CancelledEnds \/ OrphansEnd
         \/ (\E s \in Step : TaskStep(s))
         \/ ResetsByOperator \/ CancelRun \/ HostCancels \/ CrashStep
<1>1. DriverStep => \/ SkipLayer \/ BlockedLayer \/ EnterLayer \/ FinishRun \/ WaitEnds \/ LayerFails
                    \/ LayerConflicts \/ LayerPauses \/ LayerPasses
                    \/ (\E s \in Step : LayerTerminates(s)) \/ (\E s \in Step : LayerGoesTo(s))
                    \/ CancelledEnds \/ OrphansEnd
  BY DEF DriverStep
<1>2. OperatorStep => ResetsByOperator \/ CancelRun \/ HostCancels
  BY DEF OperatorStep, ResetsByOperator
<1> QED BY <1>1, <1>2, Zenon DEF Next

(* What the steps that are not a task's do to the tasks and to the stored  *)
(* steps.                                                                  *)
LEMMA OtherSteps ==
  ASSUME Inv, [Next]_vars
  PROVE  \/ \E s \in Step : TaskStep(s)
         \/ EnterLayer
         \/ UNCHANGED <<steps, task, choice>>
         \/ UNCHANGED steps /\ NoTasks /\ (AllEnded \/ DiesWorking)
         \/ LayerConflicts
         \/ GoesOrDies
         \/ ResetsByOperator
<1>1. CASE UNCHANGED vars
  BY <1>1 DEF vars, run, process
<1>2. CASE StartRun \/ \E target \in Step \cup {NoStep} : Resume(target)
  BY <1>2 DEF StartRun, Resume
<1>3. CASE SkipLayer \/ WaitEnds \/ CancelRun \/ HostCancels
  BY <1>3 DEF SkipLayer, WaitEnds, CancelRun, HostCancels, run, process
<1>4. CASE BlockedLayer \/ FinishRun \/ CrashInCreate
  <2>1. loop \in {"none", "topology"}
    BY <1>4 DEF BlockedLayer, AtLayer, FinishRun, CrashInCreate
  <2>2. AllEnded
    BY <2>1 DEF Inv, TasksInLayer, AllEnded, Live, Active
  <2> QED BY <1>4, <2>2 DEF BlockedLayer, FinishRun, CrashInCreate, DriverLeaves, Crash
<1>5. CASE LayerFails \/ LayerPauses \/ LayerPasses \/ CancelledEnds \/ OrphansEnd
  BY <1>5 DEF LayerFails, LayerPauses, LayerPasses, CancelledEnds, OrphansEnd, LayerEnds,
              DriverLeaves, run
<1>6. CASE \E s \in Step : LayerTerminates(s)
  BY <1>6 DEF LayerTerminates, Sole, LayerEnds, DriverLeaves
<1>7. CASE \E s \in Step : LayerGoesTo(s)
  <2>1. Len(YamlOrder) \in Nat
    BY FlowAssumption
  <2> QED BY <1>7, <2>1 DEF LayerGoesTo, GoesOrDies
<1>8. CASE CrashStep
  <2>1. DiesWorking => UNCHANGED steps /\ NoTasks
    BY DEF DiesWorking, CrashAtAwait, CrashInGate, Crash, run
  <2>2. (\E s \in Step, count \in 0 .. (Len(YamlOrder) - 1) : CrashInGoto(s, count)) => GoesOrDies
    BY DEF CrashInGoto, GoesOrDies
  <2> QED BY <1>4, <1>8, <2>1, <2>2 DEF CrashStep, DiesWorking
<1> QED BY <1>1, <1>2, <1>3, <1>4, <1>5, <1>6, <1>7, <1>8, StepCases, Zenon

-----------------------------------------------------------------------------
(* Where a task can be, and what its step may be stored as meanwhile.      *)

(* Gates ask and decide, agent steps render and execute; until a task has  *)
(* its result the step is not stored as completed, and then it is not      *)
(* stored as running.                                                      *)
PlaceInv ==
    \A s \in Step :
        /\ task[s] \in {"ask", "notify", "decided"} \cup Controls => s \in Gate
        /\ task[s] \in {"render", "exec", "after"} => s \notin Gate
        /\ task[s] \in {"spawned", "before", "render", "exec", "ask", "erring"} =>
             status[s] # "completed"
        /\ task[s] \in {"after", "notify", "decided", "erring"} => status[s] # "running"
        /\ status[s] # "skipped"

(* Every step keeps that; _gather_layer makes no task of a step that is    *)
(* done, and no reset touches a task.                                      *)
LEMMA PlaceKept ==
  ASSUME Inv, PlaceInv, [Next]_vars
  PROVE  PlaceInv'
<1>0. TypeOK
  BY DEF Inv
<1>1. CASE \E s \in Step : TaskStep(s)
  <2>1. PICK s \in Step : Effect(s) /\ OwnStepOnly(s)
    BY <1>0, <1>1, TaskEffect
  <2>2. PlaceInv!(s)'
    BY <2>1, <1>0 DEF PlaceInv, Effect, Advances, Renders, Begins, Errs, Accepts, Pends, Answers,
       Receives, Control, Controls, TypeOK, Option
  <2> QED BY <2>1, <2>2 DEF PlaceInv, OwnStepOnly
<1>2. CASE EnterLayer
  BY <1>2 DEF EnterLayer, PlaceInv, Runnable, IsDone, Controls, run, steps
<1>3. CASE UNCHANGED <<steps, task, choice>>
  BY <1>3 DEF PlaceInv, steps
<1>4. CASE UNCHANGED steps /\ NoTasks
  BY <1>4 DEF PlaceInv, steps, NoTasks, Controls
<1>5. CASE LayerConflicts
  BY <1>0, <1>5 DEF LayerConflicts, PlaceInv, Put, DriverLeaves, NoTasks, Controls, TypeOK
<1>6. CASE GoesOrDies
  <2>1. NoTasks
    BY <1>6 DEF GoesOrDies, LayerGoesTo, CrashInGoto, Crash
  <2>2. \A s \in Step : status'[s] \in {"pending", status[s]}
    BY <1>6 DEF GoesOrDies, ResetSteps
  <2> QED BY <2>1, <2>2 DEF PlaceInv, NoTasks, Controls
<1>7. CASE ResetsByOperator
  <2>1. UNCHANGED task /\ \A s \in Step : status'[s] \in {"pending", status[s]}
    BY <1>7 DEF ResetsByOperator, RetryStep, EditStep, ResetAndRun, ResetSteps, process
  <2> QED BY <2>1 DEF PlaceInv
<1> QED BY <1>1, <1>2, <1>3, <1>4, <1>5, <1>6, <1>7, OtherSteps, Zenon

-----------------------------------------------------------------------------
(* Cancellations: who asks for them, and when.                             *)

Cancels == FailFast \/ "host_cancel" \in Operations

(* A task is cancelled by fail_fast once a sibling has failed, or by the   *)
(* host together with the driver, and never without either.                *)
CancelInv ==
    /\ ~Cancels => cancelReq = {} /\ loop \in {"none", "topology", "gather"}
    /\ loop \in {"none", "topology", "wait", "orphaned"} => cancelReq = {}
    /\ loop = "wait" => FailFast
    /\ loop = "gather" /\ cancelReq # {} => FailFast /\ Ended({"failed"}) # {}
    /\ loop = "gather" => \A s \in cancelReq : task[s] # "spawned"

(* Every step keeps that.                                                  *)
LEMMA CancelKept ==
  ASSUME Inv, CancelInv, [Next]_vars
  PROVE  CancelInv'
<1>0. TypeOK
  BY DEF Inv
<1>1. CASE NoTasks /\ loop' \in {"none", "topology"}
  BY <1>1 DEF NoTasks, CancelInv
<1>2. CASE UNCHANGED <<loop, task, cancelReq>>
  BY <1>2 DEF CancelInv, Ended
<1>3. CASE StartRun \/ \E target \in Step \cup {NoStep} : Resume(target)
  BY <1>3 DEF StartRun, Resume, CancelInv
<1>4. CASE SkipLayer \/ ResetsByOperator \/ CancelRun \/ UNCHANGED vars
  BY <1>2, <1>4 DEF SkipLayer, ResetsByOperator, RetryStep, EditStep, ResetAndRun, CancelRun, process, vars
<1>5. CASE EnterLayer
  BY <1>5 DEF EnterLayer, AtLayer, CancelInv, Cancels
<1>6. CASE WaitEnds
  <2>1. \A s \in cancelReq' : task[s] # "spawned"
    BY <1>6 DEF WaitEnds, AllEnded, Ended
  <2>2. cancelReq' # {} => Ended({"failed"})' # {}
    BY <1>6 DEF WaitEnds, Ended
  <2> QED BY <1>6, <2>1, <2>2 DEF WaitEnds, CancelInv, Cancels
<1>7. CASE HostCancels
  BY <1>7 DEF HostCancels, CancelInv, Cancels
<1>8. CASE \E s \in Step : TaskStep(s)
  <2>1. PICK s \in Step : Effect(s) /\ OwnStepOnly(s)
    BY <1>0, <1>8, TaskEffect
  <2>2. task[s] # "failed" /\ task'[s] # "spawned"
    BY <2>1, <1>0 DEF Effect, Advances, Renders, Begins, Errs, Accepts, Pends, Answers,
       Receives, Control, TypeOK, Option, Active
  <2>3. Ended({"failed"}) \subseteq Ended({"failed"})'
    BY <2>1, <2>2 DEF Ended, OwnStepOnly
  <2>4. \A t \in Step : task[t] # "spawned" => task'[t] # "spawned"
    BY <2>1, <2>2 DEF OwnStepOnly
  <2> QED BY <1>0, <2>1, <2>3, <2>4 DEF CancelInv, OwnStepOnly, TypeOK
<1>9. CASE \/ BlockedLayer \/ FinishRun \/ LayerFails \/ LayerConflicts \/ LayerPauses \/ LayerPasses
           \/ CancelledEnds \/ OrphansEnd
  BY <1>1, <1>9 DEF BlockedLayer, FinishRun, LayerFails, LayerConflicts, LayerPauses, LayerPasses,
     CancelledEnds, OrphansEnd, DriverLeaves
<1>10. CASE (\E s \in Step : LayerTerminates(s)) \/ (\E s \in Step : LayerGoesTo(s))
  BY <1>1, <1>10 DEF LayerTerminates, LayerGoesTo, DriverLeaves
<1>11. CASE CrashStep
  BY <1>1, <1>11 DEF CrashStep, CrashAtAwait, CrashInCreate, CrashInGate, CrashInGoto, Crash
<1> QED
  BY <1>3, <1>4, <1>5, <1>6, <1>7, <1>8, <1>9, <1>10, <1>11, StepCases, Zenon

(* What the theorems below build on.                                       *)
BaseInv == Inv /\ PlaceInv /\ CancelInv

(* It holds in every reachable state, for all constants.                   *)
THEOREM BaseInvAlways == Spec => []BaseInv
<1>1. Init => PlaceInv /\ CancelInv
  BY DEF Init, PlaceInv, CancelInv, Controls
<1>2. Inv /\ PlaceInv /\ CancelInv /\ [Next]_vars => PlaceInv' /\ CancelInv'
  BY PlaceKept, CancelKept
<1> QED BY <1>1, <1>2, InvAlways, PTL DEF Spec, BaseInv

(* Completed agent work is undone by resets, and otherwise only by a       *)
(* cancellation that reaches the task during its memory write or its       *)
(* after_step hook: for every flow, schedule, host and crash.              *)
THEOREM CompletedWorkIsKept == Spec => WorkLostOnlyToCancel
<1> DEFINE Lost(s) == status[s] = "completed" /\ status'[s] \notin {"completed", "pending"}
           ByCancel(s) == s \in cancelReq /\ task[s] = "after" /\ status'[s] = "failed"
           Kept == \A s \in Step \ Gate : Lost(s) => ByCancel(s)
<1>1. ASSUME BaseInv, [Next]_vars PROVE Kept
  <2> USE DEF BaseInv
  <2>1. TypeOK
    BY <1>1 DEF Inv
  <2>2. CASE \E s \in Step : TaskStep(s)
    <3>1. PICK s \in Step : Effect(s) /\ OwnStepOnly(s)
      BY <2>1, <2>2, TaskEffect
    <3>2. ASSUME s \notin Gate, Lost(s) PROVE ByCancel(s)
      <4>1. task[s] \notin {"spawned", "before", "render", "exec", "ask", "erring"}
        BY <1>1, <3>2 DEF PlaceInv
      <4>2. Receives(s)
        BY <3>1, <3>2, <4>1 DEF Effect, Advances, Renders, Begins, Errs, Accepts, Pends, Answers
      <4>3. Handles(s)
        BY <3>2, <4>2 DEF Receives
      <4> QED BY <4>1, <4>2, <4>3 DEF Receives, Handles
    <3> QED BY <3>1, <3>2 DEF OwnStepOnly
  <2>3. CASE EnterLayer \/ UNCHANGED steps
    BY <2>3 DEF EnterLayer, run, steps
  <2>4. CASE LayerConflicts
    <3>1. /\ Deciding \subseteq LayerSteps(layer) /\ layer \in DOMAIN Layers /\ Deciding # {}
          /\ Deciding \subseteq Gate
      BY <1>1, <2>4 DEF LayerConflicts, LayerEnds, Inv, TasksInLayer, Deciding, Ended, PlaceInv, Controls
    <3>2. First(Deciding) \in Gate
      BY <3>1, FirstInSet
    <3> QED BY <2>1, <2>4, <3>2 DEF LayerConflicts, Put, TypeOK
  <2>5. CASE GoesOrDies \/ ResetsByOperator
    BY <2>5 DEF GoesOrDies, ResetsByOperator, RetryStep, EditStep, ResetAndRun, ResetSteps
  <2> QED
    <3>1. UNCHANGED <<steps, task, choice>> => UNCHANGED steps
      OBVIOUS
    <3> QED BY <1>1, <2>2, <2>3, <2>4, <2>5, <3>1, OtherSteps, Zenon
<1>2. BaseInv /\ [Next]_vars => [Kept]_vars
  BY <1>1
<1> QED BY <1>2, BaseInvAlways, PTL DEF Spec, WorkLostOnlyToCancel

-----------------------------------------------------------------------------
(* Steps stored as running.                                                *)

(* A task leaves its step stored as running only when it is cancelled in   *)
(* its before_step hook or its gate driver; otherwise it takes the death   *)
(* of the process: for every flow, schedule and host.                      *)
THEOREM NothingLeftRunning == Spec => WorkEndsStored
<1> DEFINE Cut(s) == s \in cancelReq /\ task[s] \in {"before", "ask"}
           Dead == crashes'.count > crashes.count
           Stored == \A s \in LeftRunning' \ LeftRunning :
                         \/ s \in cancelReq /\ task[s] \in {"before", "ask"}
                         \/ crashes'.count > crashes.count
<1>1. ASSUME BaseInv, [Next]_vars PROVE Stored
  <2>0. TypeOK /\ Inv /\ PlaceInv
    BY <1>1 DEF BaseInv, Inv
  <2> SUFFICES ASSUME NEW s \in Step, status'[s] = "running", task'[s] \notin Active,
                      status[s] # "running" \/ task[s] \in Active
               PROVE  Cut(s) \/ Dead
    BY DEF LeftRunning
  <2>1. CASE \E t \in Step : TaskStep(t)
    <3>1. PICK t \in Step : Effect(t) /\ OwnStepOnly(t)
      BY <2>0, <2>1, TaskEffect
    <3>2. t = s
      BY <3>1 DEF OwnStepOnly
    <3>3. CASE Receives(s)
      <4>1. ~Handles(s) /\ status[s] = "running" /\ task[s] \in Active /\ s \in cancelReq
        BY <3>3 DEF Receives
      <4>2. task[s] \in {"before", "ask"}
        BY <2>0, <4>1 DEF PlaceInv, Handles, Active
      <4> QED BY <4>1, <4>2
    <3>4. CASE Advances(s)
      BY <2>0, <3>4 DEF Advances, PlaceInv, Active
    <3>5. CASE Renders(s) \/ Begins(s) \/ Errs(s) \/ Accepts(s) \/ Pends(s)
      BY <3>5 DEF Renders, Begins, Errs, Accepts, Pends, Active
    <3>6. CASE \E option \in Option : Answers(s, option)
      BY <3>6 DEF Answers
    <3> QED BY <3>1, <3>2, <3>3, <3>4, <3>5, <3>6 DEF Effect
  <2>2. CASE EnterLayer
    BY <2>0, <2>2 DEF EnterLayer, AtLayer, Inv, TasksInLayer, Active, run, steps
  <2>3. CASE UNCHANGED <<steps, task, choice>>
    BY <2>3 DEF steps
  <2>4. CASE UNCHANGED steps /\ AllEnded
    BY <2>4 DEF steps, AllEnded, Live
  <2>5. CASE DiesWorking
    BY <2>0, <2>5 DEF DiesWorking, CrashAtAwait, CrashInGate, Crash, DiesAt, TypeOK
  <2>6. CASE LayerConflicts
    <3>1. \A t \in Step : status'[t] \in {"failed", status[t]}
      BY <2>0, <2>6 DEF LayerConflicts, Put, TypeOK
    <3> QED BY <2>6, <3>1 DEF LayerConflicts, LayerEnds, AllEnded, Live
  <2>7. CASE GoesOrDies
    <3>1. AllEnded /\ \A t \in Step : status'[t] \in {"pending", status[t]}
      BY <2>7 DEF GoesOrDies, Sole, LayerEnds, ResetSteps
    <3> QED BY <3>1 DEF AllEnded, Live
  <2>8. CASE ResetsByOperator
    <3>1. UNCHANGED task /\ \A t \in Step : status'[t] \in {"pending", status[t]}
      BY <2>8 DEF ResetsByOperator, RetryStep, EditStep, ResetAndRun, ResetSteps, process
    <3> QED BY <3>1
  <2> QED BY <1>1, <2>0, <2>1, <2>2, <2>3, <2>4, <2>5, <2>6, <2>7, <2>8, OtherSteps
<1>2. BaseInv /\ [Next]_vars => [Stored]_vars
  BY <1>1
<1> QED BY <1>2, BaseInvAlways, PTL DEF Spec, WorkEndsStored

-----------------------------------------------------------------------------
(* The walk over the layers.                                               *)

(* An operator may act beside a driver: by edit, or by retry.              *)
EditOverlaps == OperatorOverlaps /\ "edit" \in Operations
RetryOverlaps == OperatorOverlaps /\ "retry" \in Operations

Waits == loop \notin {"none", "topology"}

\* The layers behind the driver are done.
DoneBelow == loop # "none" => \A s \in Step : Level(s) < layer => IsDone(s)

\* Of its own layer, what has no task was done before.
DoneBeside == Waits => \A s \in Step : Level(s) = layer /\ task[s] = "idle" => IsDone(s)

\* What a task has come to shows in the store.
StatusOf(s) ==
    /\ task[s] = "spawned" => status[s] \in {"pending", "running", "waiting_human"}
    /\ task[s] \in {"before", "render", "exec", "ask"} => status[s] = "running"
    /\ task[s] \in {"after", "ok", "decided", "goto_step", "terminate"} => status[s] = "completed"
    /\ task[s] \in {"notify", "pause"} => status[s] = "waiting_human"
    /\ task[s] \in {"erring", "failed"} =>
         status[s] = "failed" \/ (RetryOverlaps /\ status[s] = "pending")

WalkInv == DoneBelow /\ DoneBeside /\ \A s \in Step : StatusOf(s)

(* An operator's reset under a driver at work is a retry of a step that    *)
(* failed in the driver's layer; it reaches no layer behind, and no task   *)
(* but those that failed or were cancelled.                                *)
LEMMA OverlapResets ==
  ASSUME ~EditOverlaps, Inv, WalkInv, loop # "none",
         NEW s \in Step, NEW count \in 0 .. Len(YamlOrder), RetryStep(s, count) \/ EditStep(s, count)
  PROVE  /\ UNCHANGED process /\ RetryOverlaps /\ Waits
         /\ status[s] = "failed" /\ layer <= Level(s)
         /\ Level(s) = layer => task[s] \in {"erring", "failed", "cancelled"}
         /\ \A t \in Step : Level(t) <= layer /\ t # s =>
              status'[t] = status[t] /\ output'[t] = output[t] /\ used'[t] = used[t]
         /\ \A t \in Step : status'[t] \in {status[t], "pending"}
<1>1. RetryOverlaps /\ RetryStep(s, count) /\ loop # "topology"
  BY DEF RetryStep, EditStep, OperatorMay, EditOverlaps, RetryOverlaps
<1>2. status[s] = "failed" /\ ~IsDone(s) /\ UNCHANGED process
  BY <1>1 DEF RetryStep, ResetAndRun, IsDone
<1>3. layer <= Level(s)
  BY <1>2, LevelOfStep DEF WalkInv, DoneBelow, Inv, TypeOK
<1>4. ASSUME Level(s) = layer PROVE task[s] \in {"erring", "failed", "cancelled"}
  <2>1. task[s] # "idle"
    BY <1>1, <1>2, <1>4 DEF WalkInv, DoneBeside, Waits
  <2>2. task[s] \in TaskState /\ StatusOf(s)
    BY DEF WalkInv, Inv, TypeOK
  <2> QED BY <1>2, <2>1, <2>2 DEF StatusOf, TaskState, Active, Ends, Failures, Controls
<1>5. ResetSteps(ResetSet(s, count)) /\ ResetSet(s, count) \subseteq {s} \cup DescendantsOf[s]
  BY <1>1, FullReset DEF RetryStep, ResetAndRun
<1>6. ASSUME NEW t \in Step, Level(t) <= layer, t # s PROVE t \notin ResetSet(s, count)
  <2>1. Level(s) \in Nat /\ Level(t) \in Nat /\ layer \in Nat
    BY LevelOfStep DEF Inv, TypeOK
  <2> QED BY <1>3, <1>5, <1>6, <2>1, DescendantsAbove
<1>7. ASSUME NEW t \in Step PROVE status'[t] \in {status[t], "pending"}
  BY <1>5, <1>7 DEF ResetSteps
<1>8. ASSUME NEW t \in Step, Level(t) <= layer, t # s
      PROVE  status'[t] = status[t] /\ output'[t] = output[t] /\ used'[t] = used[t]
  BY <1>5, <1>6, <1>8 DEF ResetSteps, Inv, TypeOK
<1> QED BY <1>1, <1>2, <1>3, <1>4, <1>7, <1>8 DEF Waits

(* Every step keeps what tasks show in the store.                          *)
LEMMA StatusOfKept ==
  ASSUME ~EditOverlaps, BaseInv, WalkInv, [Next]_vars, NEW t \in Step
  PROVE  StatusOf(t)'
<1>0. TypeOK /\ Inv /\ PlaceInv /\ StatusOf(t)
  BY DEF BaseInv, Inv, WalkInv
<1>1. CASE \E s \in Step : TaskStep(s)
  <2>1. PICK s \in Step : Effect(s) /\ OwnStepOnly(s)
    BY <1>0, <1>1, TaskEffect
  <2>2. CASE t = s
    BY <1>0, <2>1, <2>2 DEF StatusOf, Effect, Advances, Renders, Begins, Errs, Accepts, Pends,
       Answers, Receives, Control, TypeOK, Option
  <2> QED BY <1>0, <2>1, <2>2 DEF StatusOf, OwnStepOnly
<1>2. CASE EnterLayer
  <2>1. ASSUME t \in Runnable(layer) PROVE status[t] \in {"pending", "running", "waiting_human"}
    BY <1>0, <1>2, <2>1 DEF EnterLayer, Runnable, Blocked, IsDone, TypeOK, StepStatus
  <2> QED BY <1>2, <2>1 DEF EnterLayer, StatusOf, run, steps
<1>3. CASE UNCHANGED <<steps, task, choice>>
  BY <1>0, <1>3 DEF StatusOf, steps
<1>4. CASE task'[t] = "idle"
  BY <1>4 DEF StatusOf
<1>5. NoTasks \/ LayerConflicts \/ GoesOrDies => task'[t] = "idle"
  BY DEF NoTasks, LayerConflicts, DriverLeaves, GoesOrDies, LayerGoesTo, CrashInGoto, Crash
<1>6. CASE ResetsByOperator
  <2>1. PICK s \in Step, count \in 0 .. Len(YamlOrder) : RetryStep(s, count) \/ EditStep(s, count)
    BY <1>6 DEF ResetsByOperator
  <2>2. task'[t] = task[t]
    BY <2>1 DEF RetryStep, EditStep, ResetAndRun, process
  <2>3. CASE task[t] # "idle"
    <3>1. Level(t) = layer /\ layer \in Nat /\ loop # "none"
      BY <1>0, <2>3, TaskAtLayer DEF TypeOK
    <3>2. \/ status'[t] = status[t]
          \/ task[t] \in {"erring", "failed", "cancelled"} /\ status'[t] = "pending" /\ RetryOverlaps
      BY <1>0, <2>1, <3>1, OverlapResets
    <3> QED BY <1>0, <2>2, <3>2 DEF StatusOf
  <2> QED BY <1>4, <2>2, <2>3
<1> QED BY <1>0, <1>1, <1>2, <1>3, <1>4, <1>5, <1>6, OtherSteps, Zenon

(* The layers behind the driver stay done.                                 *)
LEMMA DoneBelowKept ==
  ASSUME ~EditOverlaps, BaseInv, WalkInv, [Next]_vars
  PROVE  DoneBelow'
<1>0. TypeOK /\ Inv /\ PlaceInv /\ DoneBelow /\ DoneBeside /\ layer \in Nat /\ (\A s \in Step : StatusOf(s))
  BY DEF BaseInv, Inv, WalkInv, TypeOK
<1>1. CASE loop' = "none"
  BY <1>1 DEF DoneBelow
<1>2. CASE layer' = 1
  <2>1. \A s \in Step : ~(Level(s) < 1)
    BY LevelOfStep
  <2> QED BY <1>2, <2>1 DEF DoneBelow
<1>3. CASE UNCHANGED <<layer, status>> /\ loop # "none"
  BY <1>0, <1>3 DEF DoneBelow, IsDone
<1>4. CASE UNCHANGED status /\ layer' = layer + 1 /\ loop # "none"
           /\ \A s \in Step : Level(s) = layer => IsDone(s)
  <2>1. \A s \in Step : Level(s) < layer + 1 => Level(s) < layer \/ Level(s) = layer
    BY <1>0, LevelOfStep
  <2> QED BY <1>0, <1>4, <2>1 DEF DoneBelow, IsDone
<1>5. CASE SkipLayer
  <2>1. ASSUME NEW s \in Step, Level(s) = layer PROVE IsDone(s)
    <3>1. s \in LayerSteps(layer)
      BY <1>5, <2>1, LevelOfStep DEF SkipLayer, AtLayer
    <3> QED BY <1>5, <2>1, <3>1 DEF SkipLayer, Runnable
  <2> QED BY <1>4, <1>5, <2>1 DEF SkipLayer, AtLayer, run, steps
<1>6. CASE LayerPasses
  <2>1. ASSUME NEW s \in Step, Level(s) = layer PROVE IsDone(s)
    <3>1. task[s] \in {"idle", "ok"}
      BY <1>0, <1>6 DEF LayerPasses, LayerEnds, AllEnded, Live, NoFailure, Controlling, Ended,
         TypeOK, TaskState, Ends
    <3> QED BY <1>0, <1>6, <2>1, <3>1 DEF LayerPasses, LayerEnds, StatusOf, DoneBeside, Waits, IsDone
  <2> QED BY <1>4, <1>6, <2>1 DEF LayerPasses, LayerEnds, run, steps
<1>7. CASE \E s \in Step : TaskStep(s)
  <2>1. PICK s \in Step : Effect(s) /\ OwnStepOnly(s) /\ task[s] # "idle"
    BY <1>0, <1>7, TaskEffect, TaskMoves
  <2>2. Level(s) = layer /\ loop # "none"
    BY <1>0, <2>1, TaskAtLayer
  <2> QED BY <1>0, <2>1, <2>2 DEF OwnStepOnly, DoneBelow, IsDone
<1>8. CASE ResetsByOperator
  <2>1. PICK s \in Step, count \in 0 .. Len(YamlOrder) : RetryStep(s, count) \/ EditStep(s, count)
    BY <1>8 DEF ResetsByOperator
  <2>2. UNCHANGED <<loop, layer>>
    BY <2>1 DEF RetryStep, EditStep, ResetAndRun, process
  <2>3. CASE loop # "none"
    <3>1. layer <= Level(s) /\ \A t \in Step : Level(t) <= layer /\ t # s => status'[t] = status[t]
      BY <1>0, <2>1, <2>3, OverlapResets
    <3>2. \A t \in Step : Level(t) < layer => t # s /\ Level(t) <= layer
      BY <1>0, <3>1, LevelOfStep
    <3> QED BY <1>0, <2>2, <2>3, <3>1, <3>2 DEF DoneBelow, IsDone
  <2> QED BY <1>1, <2>2, <2>3
<1>9. CASE EnterLayer \/ WaitEnds
  BY <1>3, <1>9 DEF EnterLayer, AtLayer, WaitEnds, run, steps
<1>10. CASE \/ BlockedLayer \/ FinishRun \/ LayerFails \/ LayerConflicts \/ LayerPauses
            \/ CancelledEnds \/ OrphansEnd \/ CrashStep
  BY <1>1, <1>10 DEF BlockedLayer, FinishRun, LayerFails, LayerConflicts, LayerPauses,
     CancelledEnds, OrphansEnd, DriverLeaves, CrashStep, CrashAtAwait, CrashInCreate, CrashInGate,
     CrashInGoto, Crash
<1>11. CASE (\E s \in Step : LayerTerminates(s)) \/ (\E s \in Step : LayerGoesTo(s))
  BY <1>2, <1>11 DEF LayerTerminates, LayerGoesTo, DriverLeaves
<1>12. CASE StartRun \/ \E target \in Step \cup {NoStep} : Resume(target)
  BY <1>2, <1>12 DEF StartRun, Resume
<1>13. CASE CancelRun \/ HostCancels \/ UNCHANGED vars
  BY <1>1, <1>3, <1>13 DEF CancelRun, HostCancels, vars, run, steps, process
<1> QED
  BY <1>5, <1>6, <1>7, <1>8, <1>9, <1>10, <1>11, <1>12, <1>13, StepCases, Zenon

(* In the layer of the driver, what has no task stays done.                *)
LEMMA DoneBesideKept ==
  ASSUME ~EditOverlaps, BaseInv, WalkInv, [Next]_vars
  PROVE  DoneBeside'
<1>0. TypeOK /\ Inv /\ DoneBeside /\ layer \in Nat
  BY DEF BaseInv, Inv, WalkInv, TypeOK
<1>1. CASE ~Waits'
  BY <1>1 DEF DoneBeside
<1>2. CASE UNCHANGED <<layer, status, task>> /\ Waits
  BY <1>0, <1>2 DEF DoneBeside, IsDone
<1>3. CASE EnterLayer
  <2>1. SUFFICES ASSUME NEW s \in Step, Level(s) = layer, task'[s] = "idle" PROVE IsDone(s)
    BY <1>3 DEF EnterLayer, DoneBeside, IsDone, run, steps
  <2>2. s \in LayerSteps(layer)
    BY <2>1, LevelOfStep
  <2> QED BY <1>3, <2>1, <2>2 DEF EnterLayer, Runnable
<1>4. CASE \E s \in Step : TaskStep(s)
  <2>1. PICK s \in Step : OwnStepOnly(s) /\ task[s] # "idle" /\ task'[s] # "idle"
    <3>1. PICK s \in Step : Effect(s) /\ OwnStepOnly(s) /\ task[s] # "idle"
      BY <1>0, <1>4, TaskEffect, TaskMoves
    <3>2. task'[s] # "idle"
      BY <1>0, <3>1 DEF Effect, Advances, Renders, Begins, Errs, Accepts, Pends,
         Answers, Receives, Control, TypeOK, Option
    <3> QED BY <3>1, <3>2
  <2> QED BY <1>0, <2>1 DEF OwnStepOnly, DoneBeside, IsDone, Waits
<1>5. CASE ResetsByOperator
  <2>1. PICK s \in Step, count \in 0 .. Len(YamlOrder) : RetryStep(s, count) \/ EditStep(s, count)
    BY <1>5 DEF ResetsByOperator
  <2>2. UNCHANGED <<loop, layer, task>>
    BY <2>1 DEF RetryStep, EditStep, ResetAndRun, process
  <2>3. CASE Waits
    <3>1. /\ \A t \in Step : Level(t) <= layer /\ t # s => status'[t] = status[t]
          /\ Level(s) = layer => task[s] # "idle"
      BY <1>0, <2>1, <2>3, OverlapResets DEF Waits
    <3> QED BY <1>0, <2>2, <2>3, <3>1 DEF DoneBeside, IsDone
  <2> QED BY <1>1, <2>2, <2>3 DEF Waits
<1>6. CASE WaitEnds \/ CancelRun \/ HostCancels \/ UNCHANGED vars
  BY <1>1, <1>2, <1>6 DEF WaitEnds, CancelRun, HostCancels, Waits, vars, run, steps, process
<1>7. CASE StartRun \/ (\E target \in Step \cup {NoStep} : Resume(target)) \/ CrashStep
  BY <1>1, <1>7 DEF StartRun, Resume, CrashStep, CrashAtAwait, CrashInCreate, CrashInGate,
     CrashInGoto, Crash, Waits
<1>8. CASE \/ SkipLayer \/ BlockedLayer \/ FinishRun \/ LayerFails \/ LayerConflicts \/ LayerPauses
           \/ LayerPasses \/ CancelledEnds \/ OrphansEnd
  BY <1>1, <1>8 DEF SkipLayer, AtLayer, BlockedLayer, FinishRun, LayerFails, LayerConflicts,
     LayerPauses, LayerPasses, CancelledEnds, OrphansEnd, DriverLeaves, Waits
<1>9. CASE (\E s \in Step : LayerTerminates(s)) \/ (\E s \in Step : LayerGoesTo(s))
  BY <1>1, <1>9 DEF LayerTerminates, LayerGoesTo, DriverLeaves, Waits
<1> QED BY <1>3, <1>4, <1>5, <1>6, <1>7, <1>8, <1>9, StepCases, Zenon

(* The walk is as said, whatever fails, crashes, is cancelled or retried.  *)
THEOREM WalkInvAlways == ASSUME ~EditOverlaps PROVE Spec => []WalkInv
<1>1. Init => WalkInv
  BY DEF Init, WalkInv, DoneBelow, DoneBeside, Waits, StatusOf
<1>2. BaseInv /\ WalkInv /\ [Next]_vars => WalkInv'
  BY StatusOfKept, DoneBelowKept, DoneBesideKept DEF WalkInv
<1> QED BY <1>1, <1>2, BaseInvAlways, PTL DEF Spec

(* A task executes only while all that its step depends on is completed or *)
(* skipped: across gotos, failures, cancellations, crashes in the middle   *)
(* of a reset, resumes from any step, and retries beside the driver. An    *)
(* edit beside the driver breaks it (TLC shows it): it resets a layer the  *)
(* driver has passed.                                                      *)
THEOREM WorkAboveDoneSteps ==
  ASSUME ~EditOverlaps
  PROVE  Spec => []ExecutesAfterDeps
<1>1. BaseInv /\ WalkInv => ExecutesAfterDeps
  <2>1. SUFFICES ASSUME BaseInv, WalkInv, NEW s \in Step, task[s] \in Working, NEW d \in Deps[s]
                 PROVE  IsDone(d)
    BY DEF ExecutesAfterDeps, IsDone
  <2>2. Level(s) = layer /\ loop # "none" /\ d \in Step /\ Level(d) < Level(s)
    BY <2>1, TaskAtLayer, DepsBelow DEF BaseInv, Working, Active
  <2> QED BY <2>1, <2>2 DEF WalkInv, DoneBelow
<1> QED BY <1>1, BaseInvAlways, WalkInvAlways, PTL

-----------------------------------------------------------------------------
(* The inputs of the steps.                                                *)

\* What a done step depends on is done.
DoneAboveDone == \A s \in Step : IsDone(s) => \A d \in Ancestors(s) : IsDone(d)

\* What the prompt of s was rendered from is what its ancestors have now.
FedFromNow(s) ==
    s \notin Gate /\ (status[s] = "completed" \/ task[s] \in {"render", "exec"})
      => \A d \in Ancestors(s) : used[s][d] = output[d]

\* Above a step with a task nothing is done.
NothingDoneAbove == \A s \in Step : task[s] # "idle" => \A t \in DescendantsOf[s] : ~IsDone(t)

(* All three hold as long as no reset was cut short by a crash.            *)
FreshInv ==
    ~crashes.cutReset => DoneAboveDone /\ NothingDoneAbove /\ \A s \in Step : FedFromNow(s)

(* A reset of a step with all below it leaves no step done above it, and   *)
(* no step that is still done read anything it took away.                  *)
LEMMA FullResetIsClosed ==
  ASSUME TypeOK, DoneAboveDone, NEW r \in Step, ResetSteps(ResetSet(r, Len(YamlOrder)))
  PROVE  /\ DoneAboveDone'
         /\ \A t \in Step : IsDone(t)' =>
              /\ IsDone(t) /\ status'[t] = status[t] /\ used'[t] = used[t]
              /\ \A d \in Ancestors(t) : output'[d] = output[d]
<1> DEFINE R == {r} \cup DescendantsOf[r]
<1>1. ResetSteps(R)
  BY FullReset
<1>2. ASSUME NEW t \in Step, IsDone(t)'
      PROVE  t \notin R /\ IsDone(t) /\ status'[t] = status[t] /\ used'[t] = used[t]
  BY <1>1, <1>2 DEF ResetSteps, IsDone
<1>3. ASSUME NEW t \in Step, IsDone(t)', NEW d \in Ancestors(t)
      PROVE  output'[d] = output[d] /\ status'[d] = status[d]
  <2>1. d \in Step /\ t \in DescendantsOf[d]
    BY DEF Ancestors
  <2>2. d \notin R
    BY <1>2, <1>3, <2>1, DescendantsTransitive
  <2> QED BY <1>1, <2>1, <2>2 DEF ResetSteps
<1>4. DoneAboveDone'
  BY <1>2, <1>3 DEF DoneAboveDone, IsDone, Ancestors
<1> QED BY <1>2, <1>3, <1>4

(* A reset that was not cut is one of a step with all below it.            *)
LEMMA UncutReset ==
  ASSUME TypeOK, ~crashes'.cutReset
  PROVE  /\ \A s \in Step, count \in 0 .. Len(YamlOrder) :
              RetryStep(s, count) \/ EditStep(s, count)
                => ResetSteps(ResetSet(s, Len(YamlOrder)))
         /\ GoesOrDies => \E s \in Step : LayerGoesTo(s)
<1>1. ~DiesAt("reset")
  <2>1. DiesAt("reset") => crashes'.cutReset = (crashes.cutReset \/ "reset" = "reset")
    BY DEF DiesAt
  <2> QED BY <2>1, Zenon
<1>2. ASSUME NEW s \in Step, NEW count \in 0 .. Len(YamlOrder), RetryStep(s, count) \/ EditStep(s, count)
      PROVE  ResetSteps(ResetSet(s, Len(YamlOrder)))
  <2>1. ResetAndRun(s, count)
    BY <1>2 DEF RetryStep, EditStep
  <2>2. count = Len(YamlOrder)
    BY <1>1, <2>1 DEF ResetAndRun
  <2> QED BY <2>1, <2>2 DEF ResetAndRun
<1>3. GoesOrDies => \E s \in Step : LayerGoesTo(s)
  BY <1>1 DEF GoesOrDies, CrashInGoto, Crash
<1> QED BY <1>2, <1>3

(* That a reset was cut is never forgotten.                                *)
LEMMA CutIsKept ==
  ASSUME TypeOK, [Next]_vars, crashes.cutReset
  PROVE  crashes'.cutReset
<1>1. \A point : DiesAt(point) => crashes'.cutReset
  BY DEF DiesAt, TypeOK
<1>2. CASE UNCHANGED crashes
  BY <1>2
<1>3. CASE \/ UNCHANGED vars \/ StartRun \/ (\E target \in Step \cup {NoStep} : Resume(target))
           \/ CancelRun \/ HostCancels
  BY <1>2, <1>3 DEF vars, StartRun, Resume, CancelRun, HostCancels
<1>4. CASE \/ SkipLayer \/ BlockedLayer \/ EnterLayer \/ FinishRun \/ WaitEnds \/ LayerFails
           \/ LayerConflicts \/ LayerPauses \/ LayerPasses \/ CancelledEnds \/ OrphansEnd
  BY <1>2, <1>4 DEF SkipLayer, BlockedLayer, EnterLayer, FinishRun, WaitEnds, LayerFails,
     LayerConflicts, LayerPauses, LayerPasses, CancelledEnds, OrphansEnd, DriverLeaves
<1>5. CASE (\E s \in Step : LayerTerminates(s)) \/ (\E s \in Step : LayerGoesTo(s))
  BY <1>2, <1>5 DEF LayerTerminates, LayerGoesTo, DriverLeaves
<1>6. CASE \E s \in Step : TaskStep(s)
  BY <1>2, <1>6, TaskMoves
<1>7. CASE ResetsByOperator
  BY <1>1, <1>2, <1>7 DEF ResetsByOperator, RetryStep, EditStep, ResetAndRun
<1>8. CASE CrashStep
  BY <1>1, <1>8 DEF CrashStep, CrashAtAwait, CrashInCreate, CrashInGate, CrashInGoto, Crash
<1> QED BY <1>3, <1>4, <1>5, <1>6, <1>7, <1>8, StepCases, Zenon

(* Every step keeps that: an output changes only under a task, above which *)
(* nothing is done or at work, or in a reset, which takes all above it.    *)
LEMMA FreshKept ==
  ASSUME ~EditOverlaps, BaseInv, WalkInv, FreshInv, [Next]_vars
  PROVE  FreshInv'
<1> SUFFICES ASSUME ~crashes'.cutReset
             PROVE  DoneAboveDone' /\ NothingDoneAbove' /\ \A t \in Step : FedFromNow(t)'
  BY DEF FreshInv
<1>0. TypeOK /\ Inv /\ PlaceInv
  BY DEF BaseInv, Inv
<1>7a. DoneAboveDone /\ NothingDoneAbove /\ \A t \in Step : FedFromNow(t)
  <2>1. ~crashes.cutReset
    BY <1>0, CutIsKept
  <2> QED BY <2>1 DEF FreshInv
<1>1. CASE \E s \in Step : TaskStep(s)
  <2>1. PICK s \in Step : Effect(s) /\ OwnStepOnly(s) /\ task[s] # "idle"
    BY <1>0, <1>1, TaskEffect, TaskMoves
  <2>2. \A t \in Step : task[t] # "idle" => Level(t) = layer /\ loop # "none"
    BY <1>0, TaskAtLayer
  <2>3. ASSUME NEW d \in Ancestors(s)
        PROVE  d \in Step \ {s} /\ IsDone(d) /\ status[d] = "completed"
    <3>1. d \in Step /\ Level(d) < Level(s)
      BY DescendantsAbove DEF Ancestors
    <3>2. IsDone(d)
      BY <2>1, <2>2, <3>1 DEF WalkInv, DoneBelow
    <3> QED BY <1>0, <3>1, <3>2, LevelOfStep DEF PlaceInv, IsDone
  <2>4. ASSUME NEW t \in Step, s \in Ancestors(t)
        PROVE  t # s /\ ~IsDone(t) /\ task[t] = "idle"
    <3>1. t \in DescendantsOf[s]
      BY <2>4 DEF Ancestors
    <3>2. Level(s) < Level(t) /\ Level(s) \in Nat /\ Level(t) \in Nat
      BY <3>1, DescendantsAbove, LevelOfStep
    <3> QED BY <1>7a, <2>1, <2>2, <3>1, <3>2 DEF NothingDoneAbove
  <2>5. DoneAboveDone'
    BY <1>7a, <2>1, <2>3, <2>4 DEF DoneAboveDone, OwnStepOnly, IsDone, Ancestors
  <2>6. NothingDoneAbove'
    <3>1. SUFFICES ASSUME NEW x \in Step, task'[x] # "idle", NEW t \in DescendantsOf[x]
                   PROVE  ~IsDone(t)'
      BY DEF NothingDoneAbove
    <3>2. task[x] # "idle" /\ t \in Step
      BY <2>1, <3>1, GraphAssumption DEF OwnStepOnly
    <3>3. Level(x) < Level(t) /\ Level(x) \in Nat /\ Level(t) \in Nat
      BY <3>1, DescendantsAbove, LevelOfStep, <3>2
    <3>4. t # s
      BY <2>1, <2>2, <3>2, <3>3
    <3> QED BY <1>7a, <2>1, <3>1, <3>2, <3>4 DEF NothingDoneAbove, OwnStepOnly, IsDone
  <2>7. ASSUME NEW t \in Step \ {s} PROVE FedFromNow(t)'
    <3>1. FedFromNow(t) /\ UNCHANGED <<status[t], task[t], used[t]>>
      BY <1>7a, <2>1, <2>7 DEF OwnStepOnly
    <3>2. \A d \in Ancestors(t) \ {s} : output'[d] = output[d]
      BY <2>1 DEF OwnStepOnly, Ancestors
    <3>3. s \in Ancestors(t) => status[t] # "completed" /\ task[t] = "idle"
      BY <2>4, <2>7 DEF IsDone
    <3> QED BY <3>1, <3>2, <3>3 DEF FedFromNow, Ancestors
  <2>8. FedFromNow(s)'
    <3>1. \A d \in Ancestors(s) : output'[d] = output[d] /\ status[d] = "completed"
      BY <2>1, <2>3 DEF OwnStepOnly
    <3>2. CASE Renders(s)
      BY <3>1, <3>2 DEF Renders, FedFromNow, Ancestors
    <3>3. CASE ~Renders(s)
      <4>1. task'[s] # "render" /\
            (s \notin Gate /\ (status'[s] = "completed" \/ task'[s] \in {"render", "exec"})
              => status[s] = "completed" \/ task[s] \in {"render", "exec"})
        BY <1>0, <2>1, <3>3 DEF Effect, Advances, Begins, Errs, Accepts, Pends, Answers, Receives,
           Control, TypeOK, Option
      <4> QED BY <1>7a, <2>1, <3>1, <4>1 DEF OwnStepOnly, FedFromNow, Ancestors
    <3> QED BY <3>2, <3>3
  <2> QED BY <2>5, <2>6, <2>7, <2>8
<1>2. CASE EnterLayer
  <2>1. NothingDoneAbove'
    <3>1. SUFFICES ASSUME NEW x \in Step, task'[x] # "idle", NEW t \in DescendantsOf[x]
                   PROVE  ~IsDone(t)
      BY <1>2 DEF NothingDoneAbove, EnterLayer, run, steps, IsDone
    <3>2. ~IsDone(x) /\ t \in Step /\ x \in Ancestors(t)
      BY <1>2, <3>1, GraphAssumption DEF EnterLayer, Runnable, Ancestors
    <3> QED BY <1>7a, <3>2 DEF DoneAboveDone
  <2> QED BY <1>7a, <1>2, <2>1 DEF EnterLayer, run, steps, DoneAboveDone, FedFromNow, IsDone, Ancestors
<1>3. CASE UNCHANGED <<steps, task, choice>>
  BY <1>7a, <1>3 DEF steps, DoneAboveDone, FedFromNow, NothingDoneAbove, IsDone, Ancestors
<1>4. CASE UNCHANGED steps /\ NoTasks
  BY <1>7a, <1>4 DEF steps, NoTasks, DoneAboveDone, FedFromNow, NothingDoneAbove, IsDone, Ancestors
<1>5. CASE LayerConflicts
  <2> DEFINE x == First(Deciding)
  <2>1. x \in Deciding
    <3>1. /\ Deciding \subseteq LayerSteps(layer) /\ layer \in DOMAIN Layers /\ Deciding # {}
      BY <1>0, <1>5 DEF LayerConflicts, LayerEnds, Inv, TasksInLayer, Deciding, Ended
    <3> QED BY <3>1, FirstInSet
  <2>2. x \in Step /\ task[x] # "idle"
    BY <2>1 DEF Deciding, Ended
  <2>3. NoTasks /\ used' = used /\ status' = [status EXCEPT ![x] = "failed"]
        /\ output' = [output EXCEPT ![x] = 0]
    BY <1>5 DEF LayerConflicts, DriverLeaves, Put
  <2> HIDE DEF x
  <2>4. ASSUME NEW t \in Step, IsDone(t)'
        PROVE  t # x /\ IsDone(t) /\ x \notin Ancestors(t)
    BY <1>0, <1>7a, <2>2, <2>3, <2>4 DEF TypeOK, IsDone, NothingDoneAbove, Ancestors
  <2> QED BY <1>0, <1>7a, <2>2, <2>3, <2>4 DEF TypeOK, NoTasks, DoneAboveDone, FedFromNow, NothingDoneAbove, IsDone, Ancestors
<1>6. CASE GoesOrDies
  <2>1. PICK s \in Step : LayerGoesTo(s)
    BY <1>0, <1>6, UncutReset
  <2>2. choice[s].target \in Step
    BY <1>0, <2>1 DEF LayerGoesTo, Sole, Inv, GotoHasTarget
  <2>3. NoTasks /\ ResetSteps(ResetSet(choice[s].target, Len(YamlOrder)))
    BY <2>1 DEF LayerGoesTo
  <2> QED
    BY <1>0, <1>7a, <2>2, <2>3, FullResetIsClosed
       DEF NoTasks, NothingDoneAbove, FedFromNow, IsDone, Ancestors
<1>7. CASE ResetsByOperator
  <2>1. PICK s \in Step, count \in 0 .. Len(YamlOrder) : RetryStep(s, count) \/ EditStep(s, count)
    BY <1>7 DEF ResetsByOperator
  <2>2. ResetSteps(ResetSet(s, Len(YamlOrder))) /\ task' = task
    BY <1>0, <2>1, UncutReset DEF RetryStep, EditStep, ResetAndRun, process
  <2>3. /\ DoneAboveDone'
        /\ \A t \in Step : IsDone(t)' =>
              /\ IsDone(t) /\ status'[t] = status[t] /\ used'[t] = used[t]
              /\ \A d \in Ancestors(t) : output'[d] = output[d]
    BY <1>0, <1>7a, <2>2, FullResetIsClosed
  <2>4. NothingDoneAbove'
    BY <1>7a, <2>2, <2>3, GraphAssumption DEF NothingDoneAbove
  <2>5. ASSUME NEW t \in Step PROVE FedFromNow(t)'
    <3>1. CASE status'[t] = "completed"
      BY <1>7a, <2>3, <3>1 DEF FedFromNow, IsDone, Ancestors
    <3>2. CASE task[t] \in {"render", "exec"}
      <4>1. Level(t) = layer /\ loop # "none" /\ layer \in Nat
        BY <1>0, <3>2, TaskAtLayer DEF TypeOK
      <4>2. /\ layer <= Level(s) /\ t # s
            /\ \A y \in Step : Level(y) <= layer /\ y # s => output'[y] = output[y] /\ used'[y] = used[y]
        BY <1>0, <2>1, <3>2, <4>1, OverlapResets
      <4>3. \A d \in Ancestors(t) : d \in Step /\ Level(d) < layer /\ Level(d) \in Nat
        BY <4>1, DescendantsAbove, LevelOfStep DEF Ancestors
      <4>4. used'[t] = used[t] /\ \A d \in Ancestors(t) : output'[d] = output[d]
        BY <4>1, <4>2, <4>3, LevelOfStep
      <4> QED BY <1>7a, <2>2, <3>2, <4>4 DEF FedFromNow, Ancestors
    <3> QED BY <2>2, <3>1, <3>2 DEF FedFromNow
  <2> QED BY <2>3, <2>4, <2>5
<1> QED BY <1>0, <1>1, <1>2, <1>3, <1>4, <1>5, <1>6, <1>7, OtherSteps, Zenon

(* It holds in every state of a run.                                       *)
LEMMA FreshInvAlways ==
  ASSUME ~EditOverlaps
  PROVE  Spec => []FreshInv
<1>1. Init => FreshInv
  BY DEF Init, FreshInv, DoneAboveDone, NothingDoneAbove, FedFromNow, IsDone
<1>2. BaseInv /\ WalkInv /\ FreshInv /\ [Next]_vars => FreshInv'
  BY FreshKept
<1> QED BY <1>1, <1>2, BaseInvAlways, WalkInvAlways, PTL DEF Spec

(* Every completed step was rendered from the outputs its ancestors have   *)
(* now, unless a crash has cut a reset short: no goto, retry, edit or      *)
(* resume leaves the result of an input that was redone. With edits beside *)
(* a driver it does not hold (TLC shows it).                               *)
THEOREM InputsAreFresh ==
  ASSUME ~EditOverlaps
  PROVE  Spec => []FreshInputs
<1>1. FreshInv => FreshInputs
  BY DEF FreshInv, DoneAboveDone, FedFromNow, FreshInputs, IsDone
<1> QED BY <1>1, FreshInvAlways, PTL

-----------------------------------------------------------------------------
(* A run is a run of Dataflow.                                             *)

\* A gate takes no inputs, and from its rendering on a prompt holds what the
\* upstream steps have.
HandedOver(s) ==
    /\ s \in Gate => used[s] = Nothing
    /\ task[s] \in {"render", "exec"} => Given(s) = Read(s)

HandInv == \A s \in Step : HandedOver(s)

(* What a prompt is rendered from only depends on the layers below.        *)
LEMMA ReadBelow ==
  ASSUME NEW t \in Step,
         \A d \in Step : Level(d) < Level(t) => status'[d] = status[d] /\ output'[d] = output[d]
  PROVE  Read(t)' = Read(t)
<1>1. \A d \in Ancestors(t) : d \in Step /\ Level(d) < Level(t)
  BY DescendantsAbove DEF Ancestors
<1>2. \A d \in Ancestors(t) : status'[d] = status[d] /\ output'[d] = output[d]
  BY <1>1
<1>3. Ancestors(t)' = Ancestors(t)
  BY DEF Ancestors
<1> QED BY <1>2, <1>3 DEF Read

(* Every step keeps that: while a task renders and executes, nothing below *)
(* its layer changes.                                                      *)
LEMMA HandKept ==
  ASSUME ~EditOverlaps, BaseInv, WalkInv, HandInv, [Next]_vars
  PROVE  HandInv'
<1>0. TypeOK /\ Inv /\ PlaceInv
  BY DEF BaseInv, Inv
<1>1. CASE \E s \in Step : TaskStep(s)
  <2>1. PICK s \in Step : Effect(s) /\ OwnStepOnly(s) /\ task[s] # "idle"
    BY <1>0, <1>1, TaskEffect, TaskMoves
  <2>2. ASSUME NEW t \in Step, task[t] # "idle" PROVE Read(t)' = Read(t)
    <3>1. Level(s) = layer /\ Level(t) = layer /\ layer \in Nat
      BY <1>0, <2>1, <2>2, TaskAtLayer DEF TypeOK
    <3>2. \A d \in Step : Level(d) < Level(t) => status'[d] = status[d] /\ output'[d] = output[d]
      BY <2>1, <3>1 DEF OwnStepOnly
    <3> QED BY <3>2, ReadBelow
  <2>3. ASSUME NEW t \in Step \ {s} PROVE HandedOver(t)'
    <3>1. used'[t] = used[t] /\ task'[t] = task[t]
      BY <2>1, <2>3 DEF OwnStepOnly
    <3>2. task[t] \in {"render", "exec"} => Read(t)' = Read(t)
      BY <2>2, <2>3
    <3> QED BY <3>1, <3>2 DEF HandInv, HandedOver, Nothing, Given, Ancestors
  <2>4. HandedOver(s)'
    <3>1. Read(s)' = Read(s)
      BY <2>1, <2>2
    <3>2. CASE Renders(s)
      <4>1. used'[s] = Offered /\ s \notin Gate
        BY <3>2 DEF Renders
      <4>2. Given(s)' = Read(s)
        BY <4>1 DEF Given, Offered, Read, Ancestors
      <4> QED BY <3>1, <4>1, <4>2 DEF HandedOver
    <3>3. CASE ~Renders(s)
      <4>1. task'[s] # "render" /\ (task'[s] = "exec" => task[s] \in {"render", "exec"})
        BY <1>0, <2>1, <3>3 DEF Effect, Advances, Begins, Errs, Accepts, Pends, Answers, Receives,
           Control, TypeOK, Option
      <4>2. used'[s] = used[s]
        BY <2>1, <4>1 DEF OwnStepOnly
      <4> QED BY <3>1, <4>1, <4>2 DEF HandInv, HandedOver, Nothing, Given, Ancestors
    <3> QED BY <3>2, <3>3
  <2> QED BY <2>3, <2>4 DEF HandInv
<1>2. CASE EnterLayer
  BY <1>2 DEF EnterLayer, HandInv, HandedOver, Given, Nothing, run, steps
<1>3. CASE UNCHANGED <<steps, task, choice>>
  BY <1>3 DEF HandInv, HandedOver, Given, Nothing, Read, Ancestors, steps
<1>4. CASE UNCHANGED steps /\ NoTasks
  BY <1>4 DEF HandInv, HandedOver, Nothing, NoTasks, steps
<1>5. CASE LayerConflicts
  BY <1>5 DEF LayerConflicts, DriverLeaves, HandInv, HandedOver, Nothing, NoTasks
<1>6. CASE GoesOrDies
  <2>1. NoTasks
    BY <1>6 DEF GoesOrDies, LayerGoesTo, CrashInGoto, Crash
  <2>2. \A t \in Step : used'[t] \in {used[t], Nothing}
    BY <1>6 DEF GoesOrDies, ResetSteps
  <2> QED BY <2>1, <2>2 DEF HandInv, HandedOver, Nothing, NoTasks
<1>7. CASE ResetsByOperator
  <2>1. PICK s \in Step, count \in 0 .. Len(YamlOrder) : RetryStep(s, count) \/ EditStep(s, count)
    BY <1>7 DEF ResetsByOperator
  <2>2. task' = task /\ \A t \in Step : used'[t] \in {used[t], Nothing}
    BY <2>1 DEF RetryStep, EditStep, ResetAndRun, ResetSteps, process
  <2>3. ASSUME NEW t \in Step, task[t] \in {"render", "exec"}
        PROVE  used'[t] = used[t] /\ Read(t)' = Read(t)
    <3>1. Level(t) = layer /\ loop # "none" /\ layer \in Nat
      BY <1>0, <2>3, TaskAtLayer DEF TypeOK
    <3>2. /\ layer <= Level(s) /\ t # s
          /\ \A y \in Step : Level(y) <= layer /\ y # s =>
               status'[y] = status[y] /\ output'[y] = output[y] /\ used'[y] = used[y]
      BY <1>0, <2>1, <2>3, <3>1, OverlapResets
    <3>3. \A d \in Step : Level(d) < Level(t) => Level(d) <= layer /\ d # s
      BY <3>1, <3>2, LevelOfStep
    <3>4. \A d \in Step : Level(d) < Level(t) => status'[d] = status[d] /\ output'[d] = output[d]
      BY <3>2, <3>3
    <3>5. Read(t)' = Read(t)
      BY <3>4, ReadBelow
    <3> QED BY <3>1, <3>2, <3>5
  <2> QED BY <2>2, <2>3 DEF HandInv, HandedOver, Given, Ancestors, Nothing
<1> QED BY <1>0, <1>1, <1>2, <1>3, <1>4, <1>5, <1>6, <1>7, OtherSteps, Zenon

(* It holds in every state of a run.                                       *)
LEMMA HandInvAlways ==
  ASSUME ~EditOverlaps
  PROVE  Spec => []HandInv
<1>1. Init => HandInv
  BY DEF Init, HandInv, HandedOver
<1>2. BaseInv /\ WalkInv /\ HandInv /\ [Next]_vars => HandInv'
  BY HandKept
<1> QED BY <1>1, <1>2, BaseInvAlways, WalkInvAlways, PTL DEF Spec

(* Only the reset of a goto or of an operator can be torn.                 *)
LEMMA TornBy ==
  ASSUME TypeOK, [Next]_vars, ~GoesOrDies, ~ResetsByOperator
  PROVE  Torn' = Torn
<1> USE DEF Torn
<1>1. \A point : point # "reset" /\ DiesAt(point) => crashes'.cutReset = crashes.cutReset
  BY DEF DiesAt, TypeOK
<1>2. CASE UNCHANGED crashes
  BY <1>2
<1>3. CASE \/ UNCHANGED vars \/ StartRun \/ (\E target \in Step \cup {NoStep} : Resume(target))
           \/ CancelRun \/ HostCancels
  BY <1>2, <1>3 DEF vars, StartRun, Resume, CancelRun, HostCancels
<1>4. CASE \/ SkipLayer \/ BlockedLayer \/ EnterLayer \/ FinishRun \/ WaitEnds \/ LayerFails
           \/ LayerConflicts \/ LayerPauses \/ LayerPasses \/ CancelledEnds \/ OrphansEnd
  BY <1>2, <1>4 DEF SkipLayer, BlockedLayer, EnterLayer, FinishRun, WaitEnds, LayerFails,
     LayerConflicts, LayerPauses, LayerPasses, CancelledEnds, OrphansEnd, DriverLeaves
<1>5. CASE (\E s \in Step : LayerTerminates(s)) \/ (\E s \in Step : LayerGoesTo(s))
  BY <1>2, <1>5 DEF LayerTerminates, LayerGoesTo, DriverLeaves
<1>6. CASE \E s \in Step : TaskStep(s)
  BY <1>2, <1>6, TaskMoves
<1>7. CASE CrashStep
  <2>1. (\E s \in Step, count \in 0 .. (Len(YamlOrder) - 1) : CrashInGoto(s, count)) => GoesOrDies
    BY DEF CrashInGoto, GoesOrDies
  <2>2. DiesAt("await") \/ DiesAt("create") \/ DiesAt("gate")
    BY <1>7, <2>1 DEF CrashStep, CrashAtAwait, CrashInCreate, CrashInGate, Crash
  <2> QED BY <1>1, <2>2
<1> QED BY <1>3, <1>4, <1>5, <1>6, <1>7, StepCases, Zenon

(* The four ways a step of the run shows in Dataflow: work that goes on or *)
(* ends without a result;                                                  *)
LEMMA ShowsAbandon ==
  ASSUME Open' \subseteq Open, UNCHANGED <<Done, visits, Torn>>,
         \A t \in Done : output'[t] = output[t] /\ used'[t] = used[t]
  PROVE  Flow!Next
<1>1. Value' = Value /\ MadeFrom' = MadeFrom
  BY DEF Value, MadeFrom, Given, Ancestors, Done, Nothing
<1>2. Open' = Open \ (Open \ Open') /\ (Open \ Open') \in SUBSET Open
  OBVIOUS
<1>3. Flow!Abandon(Open \ Open')
  BY <1>1, <1>2 DEF Flow!Abandon
<1> QED BY <1>2, <1>3 DEF Flow!Next

(* a visit that is counted;                                                *)
LEMMA ShowsVisit ==
  ASSUME NEW s \in Step, s \notin Done \cup Open, Ancestors(s) \subseteq Done,
         visits[s] < MaxVisits[s], CountVisit(s), Open' = Open \cup {s}, UNCHANGED <<Done, Torn>>,
         \A t \in Done : output'[t] = output[t] /\ used'[t] = used[t]
  PROVE  Flow!Next
<1>1. Value' = Value /\ MadeFrom' = MadeFrom
  BY DEF Value, MadeFrom, Given, Ancestors, Done, Nothing
<1>2. Flow!Visit(s)
  BY <1>1 DEF Flow!Visit, Flow!Ancestors, Ancestors, CountVisit
<1> QED BY <1>2 DEF Flow!Next

(* a result that is stored, made of what the upstream steps have;          *)
LEMMA ShowsComplete ==
  ASSUME NEW s \in Step, s \in Open, s \notin Done, Open' = Open \ {s}, Done' = Done \cup {s},
         UNCHANGED <<visits, Torn>>, output'[s] = visits[s],
         Given(s)' = IF s \in Gate THEN Nothing ELSE Read(s), Ancestors(s) \subseteq Done,
         \A t \in Step : status[t] # "skipped",
         \A t \in Done : output'[t] = output[t] /\ used'[t] = used[t]
  PROVE  Flow!Next
<1>1. \A t \in Step : IsDone(t)' <=> IsDone(t) \/ t = s
  BY DEF Done
<1>2. Value' = [Value EXCEPT ![s] = visits[s]]
  BY <1>1 DEF Value, Done
<1>3. Given(s)' = Flow!Inputs(s)
  <2>1. \A d \in Ancestors(s) : status[d] = "completed"
    BY DEF Done, IsDone, Ancestors
  <2>2. \A d \in Ancestors(s) : Value[d] = output[d]
    BY DEF Done, Value
  <2>3. \A d \in Step : Flow!Inputs(s)[d] = IF s \notin Gate /\ d \in Ancestors(s) THEN output[d] ELSE 0
    BY <2>2 DEF Flow!Inputs, Flow!Ancestors, Ancestors
  <2>4. CASE s \in Gate
    BY <2>4 DEF Nothing, Flow!Inputs
  <2>5. CASE s \notin Gate
    <3>1. Read(s) = [d \in Step |-> IF d \in Ancestors(s) THEN output[d] ELSE 0]
      BY <2>1 DEF Read
    <3>2. Flow!Inputs(s) = [d \in Step |-> IF d \in Ancestors(s) THEN output[d] ELSE 0]
      BY <2>2, <2>5 DEF Flow!Inputs, Flow!Ancestors, Ancestors
    <3> QED BY <2>5, <3>1, <3>2
  <2> QED BY <2>4, <2>5
<1>4. MadeFrom' = [MadeFrom EXCEPT ![s] = Flow!Inputs(s)]
  <2>1. \A t \in Done : t \in Step /\ IsDone(t) /\ Given(t)' = Given(t)
    BY DEF Done, Given, Ancestors
  <2> QED BY <1>1, <1>3, <2>1 DEF MadeFrom, Done
<1>5. Flow!Complete(s)
  BY <1>2, <1>4 DEF Flow!Complete
<1> QED BY <1>5 DEF Flow!Next

(* and results that are taken away.                                        *)
LEMMA ShowsUndo ==
  ASSUME NEW R \in SUBSET Done,
         \A s \in Open : Ancestors(s) \cap R = {},
         Torn' \in {Torn, TRUE}, ~Torn' => \A t \in Done : Ancestors(t) \cap R # {} => t \in R,
         Done' = Done \ R, Open' = Open, UNCHANGED visits,
         \A t \in Done \ R : output'[t] = output[t] /\ used'[t] = used[t]
  PROVE  Flow!Next
<1>1. \A t \in Step : IsDone(t)' <=> IsDone(t) /\ t \notin R
  BY DEF Done
<1>2. Value' = [t \in Step |-> IF t \in R THEN 0 ELSE Value[t]]
  BY <1>1 DEF Value, Done
<1>3. MadeFrom' = [t \in Step |-> IF t \in R THEN Nothing ELSE MadeFrom[t]]
  BY <1>1 DEF MadeFrom, Given, Ancestors, Done, Nothing
<1>4. Flow!Undo(R)
  BY <1>2, <1>3 DEF Flow!Undo, Flow!Ancestors, Ancestors, Flow!Nothing, Nothing
<1> QED BY <1>4 DEF Flow!Next

(* A reset of a step with all below it takes along whatever was made from  *)
(* what it takes.                                                          *)
LEMMA ResetIsClosed ==
  ASSUME NEW r \in Step, NEW t \in Step, Ancestors(t) \cap ({r} \cup DescendantsOf[r]) # {}
  PROVE  t \in {r} \cup DescendantsOf[r]
<1>1. PICK d \in {r} \cup DescendantsOf[r] : d \in Step /\ t \in DescendantsOf[d]
  BY DEF Ancestors
<1>2. CASE d = r
  BY <1>1, <1>2
<1>3. CASE d \in DescendantsOf[r]
  BY <1>1, <1>3, DescendantsTransitive
<1> QED BY <1>1, <1>2, <1>3

(* A reset is an undoing of the steps it names that were done.             *)
LEMMA ShowsReset ==
  ASSUME TypeOK, NEW r \in Step, NEW count, ResetSteps(ResetSet(r, count)), Open' = Open,
         \A s \in Open : Ancestors(s) \cap ({r} \cup DescendantsOf[r]) = {},
         (count = Len(YamlOrder) /\ Torn' = Torn) \/ Torn' = TRUE
  PROVE  Flow!Next
<1> DEFINE R == Done \cap ResetSet(r, count)
<1>1. ResetSet(r, count) \subseteq {r} \cup DescendantsOf[r]
      /\ (count = Len(YamlOrder) => ResetSet(r, count) = {r} \cup DescendantsOf[r])
  BY FullReset
<1>2. \A s \in Open : Ancestors(s) \cap R = {}
  BY <1>1
<1>3. ASSUME ~Torn', NEW t \in Done, Ancestors(t) \cap R # {}
      PROVE  t \in R
  <2>1. ResetSet(r, count) = {r} \cup DescendantsOf[r]
    BY <1>1, <1>3
  <2>2. t \in Step
    BY DEF Done
  <2> QED BY <1>3, <2>1, <2>2, ResetIsClosed
<1>4. Done' = Done \ R /\ UNCHANGED visits
  BY DEF ResetSteps, Done, IsDone
<1>5. \A t \in Done \ R : output'[t] = output[t] /\ used'[t] = used[t]
  BY DEF ResetSteps, Done
<1>6. R \in SUBSET Done /\ Torn' \in {Torn, TRUE}
  OBVIOUS
<1> HIDE DEF R
<1> QED BY <1>2, <1>3, <1>4, <1>5, <1>6, ShowsUndo

(* Where nothing waits for a layer no visit is open.                       *)
LEMMA NothingOpen ==
  ASSUME TypeOK, AllEnded
  PROVE  Open = {}
BY DEF AllEnded, Live, Active, Open

(* A visit is open in the layer of the driver, above steps that are done.  *)
LEMMA OpenAboveDone ==
  ASSUME Inv, WalkInv, NEW s \in Step, task[s] # "idle"
  PROVE  Ancestors(s) \subseteq Done
<1>1. Level(s) = layer /\ loop # "none"
  BY TaskAtLayer
<1>2. \A d \in Ancestors(s) : d \in Step /\ Level(d) < layer
  BY <1>1, DescendantsAbove DEF Ancestors
<1> QED BY <1>1, <1>2 DEF WalkInv, DoneBelow, Done

(* The step of a task shows in Dataflow.                                   *)
LEMMA TaskShows ==
  ASSUME BaseInv, WalkInv, FreshInv, HandInv, NEW s \in Step, TaskStep(s), Torn' = Torn
  PROVE  Flow!Next
<1>0. /\ TypeOK /\ Inv /\ PlaceInv /\ StatusOf(s) /\ HandedOver(s)
      /\ task \in [Step -> TaskState] /\ status \in [Step -> StepStatus]
  BY DEF BaseInv, Inv, WalkInv, HandInv, TypeOK
<1>1. Effect(s) /\ OwnStepOnly(s) /\ task[s] # "idle"
  BY <1>0, TaskEffect, TaskMoves
<1>2. \A t \in Step \ {s} : /\ IsDone(t)' = IsDone(t) /\ task'[t] = task[t]
                            /\ output'[t] = output[t] /\ used'[t] = used[t]
  BY <1>1 DEF OwnStepOnly, IsDone
<1>3. Ancestors(s) \subseteq Done
  BY <1>0, <1>1, OpenAboveDone
<1>4. CASE Begins(s)
  <2>1. ~IsDone(s) /\ ~IsDone(s)' /\ s \notin Open /\ s \in Open'
    BY <1>0, <1>4 DEF Begins, StatusOf, IsDone, Open
  <2>2. Open' = Open \cup {s} /\ Done' = Done
    BY <1>2, <2>1 DEF Open, Done
  <2>3. visits[s] \in Nat /\ MaxVisits[s] \in Nat
    BY <1>0, FlowAssumption DEF TypeOK
  <2>4. visits[s] < MaxVisits[s] /\ CountVisit(s)
    BY <1>4, <2>3 DEF Begins, VisitLimitReached
  <2> QED BY <1>2, <1>3, <2>1, <2>2, <2>4, ShowsVisit DEF Done
<1>5. CASE Accepts(s) \/ \E option \in Option : Answers(s, option)
  <2>1. task[s] \in {"exec", "ask"} /\ task'[s] \in {"after", "decided"} /\ status'[s] = "completed"
        /\ output'[s] = visits[s] /\ (task[s] = "ask" => s \in Gate)
    BY <1>5 DEF Accepts, Answers
  <2>2. ~IsDone(s) /\ IsDone(s)' /\ s \in Open /\ s \notin Open'
    BY <1>0, <2>1 DEF StatusOf, IsDone, Open
  <2>3. Open' = Open \ {s} /\ Done' = Done \cup {s}
    BY <1>2, <2>2 DEF Open, Done
  <2>4. UNCHANGED visits /\ used'[s] = used[s]
    BY <1>1, <2>1 DEF OwnStepOnly
  <2>5. Given(s)' = IF s \in Gate THEN Nothing ELSE Read(s)
    BY <1>0, <2>1, <2>4 DEF HandedOver, PlaceInv, Given, Ancestors, Nothing
  <2>6. s \notin Done /\ (\A t \in Step : status[t] # "skipped")
        /\ (\A t \in Done : output'[t] = output[t] /\ used'[t] = used[t])
    BY <1>0, <1>2, <2>2 DEF Done, PlaceInv
  <2> QED BY <1>3, <2>1, <2>2, <2>3, <2>4, <2>5, <2>6, ShowsComplete
<1>6. CASE Receives(s) /\ task[s] = "after" /\ Handles(s)
  <2>1. task'[s] = "cancelled" /\ status'[s] = "failed" /\ IsDone(s)
    BY <1>0, <1>6 DEF Receives, StatusOf, IsDone
  <2>2. Open' = Open /\ Done' = Done \ {s} /\ {s} \in SUBSET Done
    BY <1>2, <1>6, <2>1 DEF Open, Done, IsDone
  <2>3. ASSUME NEW t \in Open PROVE Ancestors(t) \cap {s} = {}
    <3>1. t \in Step /\ task[t] # "idle"
      BY DEF Open
    <3>2. Level(t) = layer /\ Level(s) = layer /\ layer \in Nat
      BY <1>0, <1>1, <3>1, TaskAtLayer DEF TypeOK
    <3> QED BY <3>2, DescendantsAbove DEF Ancestors
  <2>4. ~Torn' => \A t \in Done : Ancestors(t) \cap {s} = {}
    BY <1>1 DEF FreshInv, NothingDoneAbove, Torn, Done, Ancestors
  <2>5. UNCHANGED visits
    BY <1>1, <2>1 DEF OwnStepOnly
  <2>6. \A t \in Done \ {s} : output'[t] = output[t] /\ used'[t] = used[t]
    BY <1>2 DEF Done
  <2> QED BY <2>2, <2>3, <2>4, <2>5, <2>6, ShowsUndo
<1>7. CASE \/ Advances(s) \/ Renders(s) \/ Errs(s) \/ Pends(s)
           \/ Receives(s) /\ ~(task[s] = "after" /\ Handles(s))
  <2>1. /\ task'[s] # "before" /\ (s \in Open' => s \in Open)
        /\ IsDone(s)' = IsDone(s)
        /\ IsDone(s) => task'[s] # "render" /\ output'[s] = output[s]
    <3>1. CASE Advances(s)
      BY <1>0, <3>1 DEF Advances, IsDone, Open, Control, TypeOK, Option
    <3>2. CASE Renders(s) \/ Errs(s) \/ Pends(s)
      BY <1>0, <3>2 DEF Renders, Errs, Pends, StatusOf, IsDone, Open
    <3>3. CASE Receives(s) /\ ~(task[s] = "after" /\ Handles(s))
      BY <1>0, <3>3 DEF Receives, StatusOf, IsDone, Open, Handles, Active
    <3> QED BY <1>7, <3>1, <3>2, <3>3
  <2>2. UNCHANGED visits /\ (IsDone(s) => used'[s] = used[s])
    BY <1>1, <2>1 DEF OwnStepOnly
  <2>3. Open' \subseteq Open /\ Done' = Done
    BY <1>2, <2>1 DEF Open, Done
  <2>4. \A t \in Done : output'[t] = output[t] /\ used'[t] = used[t]
    BY <1>2, <2>1, <2>2 DEF Done
  <2> QED BY <2>2, <2>3, <2>4, ShowsAbandon
<1> QED BY <1>1, <1>4, <1>5, <1>6, <1>7 DEF Effect

(* Every step of a run shows in Dataflow, or is none of its business.      *)
LEMMA StepShows ==
  ASSUME ~EditOverlaps, BaseInv, WalkInv, FreshInv, HandInv, [Next]_vars
  PROVE  Flow!Next
<1>0. TypeOK /\ Inv /\ (\A s \in Step : StatusOf(s))
  BY DEF BaseInv, Inv, WalkInv
<1>1. CASE GoesOrDies
  <2>1. PICK s \in Step, count \in Nat :
          /\ Sole("goto_step", s) /\ ResetSteps(ResetSet(choice[s].target, count))
          /\ LayerGoesTo(s) \/ CrashInGoto(s, count)
    BY <1>1 DEF GoesOrDies
  <2>2. choice[s].target \in Step /\ AllEnded
    BY <1>0, <2>1 DEF Sole, LayerEnds, Inv, GotoHasTarget
  <2>3. Open = {} /\ Open' = {}
    BY <1>0, <2>1, <2>2, NothingOpen DEF LayerGoesTo, CrashInGoto, Crash, NoTasks, Open
  <2>4. CASE LayerGoesTo(s)
    <3>1. ResetSteps(ResetSet(choice[s].target, Len(YamlOrder))) /\ Torn' = Torn
      BY <2>4 DEF LayerGoesTo, Torn
    <3> QED BY <1>0, <2>2, <2>3, <3>1, ShowsReset
  <2>5. CASE CrashInGoto(s, count)
    <3>1. Torn' = TRUE
      BY <2>5 DEF CrashInGoto, Crash, DiesAt, Torn
    <3> QED BY <1>0, <2>1, <2>2, <2>3, <3>1, ShowsReset
  <2> QED BY <2>1, <2>4, <2>5
<1>2. CASE ResetsByOperator
  <2>1. PICK s \in Step, count \in 0 .. Len(YamlOrder) : RetryStep(s, count) \/ EditStep(s, count)
    BY <1>2 DEF ResetsByOperator
  <2>2. ResetAndRun(s, count)
    BY <2>1 DEF RetryStep, EditStep
  <2>3. ResetSteps(ResetSet(s, count)) /\ Open' = Open
    BY <2>2 DEF ResetAndRun, process, Open
  <2>4. (count = Len(YamlOrder) /\ Torn' = Torn) \/ Torn' = TRUE
    <3>1. DiesAt("reset") => Torn' = TRUE
      <4>1. DiesAt("reset") => crashes'.cutReset = (crashes.cutReset \/ "reset" = "reset")
        BY DEF DiesAt
      <4> QED BY <4>1, Zenon DEF Torn
    <3>2. UNCHANGED crashes => Torn' = Torn
      BY DEF Torn
    <3> QED BY <2>2, <3>1, <3>2 DEF ResetAndRun
  <2>5. ASSUME NEW t \in Open PROVE Ancestors(t) \cap ({s} \cup DescendantsOf[s]) = {}
    <3>1. t \in Step /\ task[t] # "idle"
      BY DEF Open
    <3>2. Level(t) = layer /\ loop # "none" /\ layer \in Nat
      BY <1>0, <3>1, TaskAtLayer DEF TypeOK
    <3>3. layer <= Level(s) /\ Level(s) \in Nat
      BY <1>0, <2>1, <3>2, OverlapResets, LevelOfStep
    <3>4. \A d \in Ancestors(t) : d \in Step /\ Level(d) < layer /\ Level(d) \in Nat
      BY <3>2, DescendantsAbove, LevelOfStep DEF Ancestors
    <3>5. \A d \in DescendantsOf[s] : Level(s) < Level(d) /\ Level(d) \in Nat
      BY DescendantsAbove, LevelOfStep
    <3> QED BY <3>2, <3>3, <3>4, <3>5
  <2> QED BY <1>0, <2>3, <2>4, <2>5, ShowsReset
<1>3. CASE ~GoesOrDies /\ ~ResetsByOperator
  <2>1. Torn' = Torn
    BY <1>0, <1>3, TornBy
  <2>2. CASE \E s \in Step : TaskStep(s)
    BY <2>1, <2>2, TaskShows
  <2>3. CASE LayerConflicts
    <3> DEFINE x == First(Deciding)
    <3>1. x \in Deciding
      <4>1. /\ Deciding \subseteq LayerSteps(layer) /\ layer \in DOMAIN Layers /\ Deciding # {}
        BY <1>0, <2>3 DEF LayerConflicts, LayerEnds, Inv, TasksInLayer, Deciding, Ended
      <4> QED BY <4>1, FirstInSet
    <3>2. x \in Step /\ task[x] \in {"goto_step", "terminate"}
      BY <3>1 DEF Deciding, Ended
    <3>3. NoTasks /\ used' = used /\ status' = [status EXCEPT ![x] = "failed"]
          /\ output' = [output EXCEPT ![x] = 0] /\ UNCHANGED visits /\ AllEnded
      BY <2>3 DEF LayerConflicts, LayerEnds, DriverLeaves, Put
    <3> HIDE DEF x
    <3>4. x \in Done
      BY <1>0, <3>2 DEF StatusOf, Done, IsDone
    <3>5. Open = {} /\ Open' = {}
      BY <1>0, <3>3, NothingOpen DEF NoTasks, Open
    <3>6. Done' = Done \ {x}
      BY <1>0, <3>2, <3>3 DEF Done, IsDone, TypeOK
    <3>7. \A t \in Done \ {x} : output'[t] = output[t] /\ used'[t] = used[t]
      BY <1>0, <3>3 DEF Done, TypeOK
    <3>8. ~Torn' => \A t \in Done : Ancestors(t) \cap {x} = {}
      BY <2>1, <3>2 DEF FreshInv, NothingDoneAbove, Torn, Done, Ancestors
    <3>9. {x} \in SUBSET Done /\ Torn' \in {Torn, TRUE}
      BY <2>1, <3>4
    <3> QED BY <3>3, <3>5, <3>6, <3>7, <3>8, <3>9, ShowsUndo
  <2>4. CASE EnterLayer \/ UNCHANGED <<steps, task, choice>> \/ (UNCHANGED steps /\ NoTasks)
    <3>1. Open' \subseteq Open
      BY <2>4 DEF EnterLayer, NoTasks, Open
    <3>2. UNCHANGED <<status, visits, output, used>>
      BY <2>4 DEF EnterLayer, run, steps
    <3>3. UNCHANGED Done
      BY <3>2 DEF Done, IsDone
    <3> QED BY <2>1, <3>1, <3>2, <3>3, ShowsAbandon
  <2> QED BY <1>0, <1>3, <2>2, <2>3, <2>4, OtherSteps, Zenon
<1> QED BY <1>1, <1>2, <1>3

(* For every flow, every bound on visits and every budget of retries: a    *)
(* run is a run of Dataflow, through failures, gotos, cancellations,       *)
(* crashes, resumes, and retries beside the driver. Only an edit beside    *)
(* the driver is excluded: it takes results away from tasks at work.       *)
THEOREM RunsAreDataflow ==
  ASSUME ~EditOverlaps
  PROVE  Spec => ImplementsDataflow
<1>1. Init => Flow!Init
  BY DEF Init, IsDone, Done, Open, Value, MadeFrom, Torn, Nothing, Flow!Init, Flow!Nothing
<1>2. BaseInv /\ WalkInv /\ FreshInv /\ HandInv /\ [Next]_vars => [Flow!Next]_Flow!vars
  BY StepShows
<1> QED
  BY <1>1, <1>2, BaseInvAlways, WalkInvAlways, FreshInvAlways, HandInvAlways, PTL
     DEF Spec, ImplementsDataflow, Flow!Spec

(* What a run of Dataflow guarantees whatever it is a picture of: until an *)
(* undoing is torn, every value is what its visit made of the values that  *)
(* are there now.                                                          *)
THEOREM DataflowIsConsistent == Flow!Spec => []Flow!Consistent
<1> DEFINE Kinds == /\ Open \subseteq Step /\ Done \subseteq Step /\ visits \in [Step -> Nat]
                    /\ Value \in [Step -> Nat] /\ MadeFrom \in [Step -> [Step -> Nat]]
           OpenAreNot == \A s \in Open : s \notin Done
           Fed == \A s \in Done : Ancestors(s) \subseteq Done /\ MadeFrom[s] = Flow!Inputs(s)
           J == Kinds /\ OpenAreNot /\ (\A s \in Open : Ancestors(s) \subseteq Done) /\ (~Torn => Fed)
<1>1. Flow!Init => J
  BY DEF Flow!Init, Flow!Nothing
<1>2. ASSUME J, [Flow!Next]_Flow!vars PROVE J'
  <2>1. CASE UNCHANGED Flow!vars
    BY <1>2, <2>1 DEF Flow!vars, Flow!Inputs
  <2>2. CASE \E s \in Step : Flow!Visit(s)
    <3>1. PICK s \in Step : Flow!Visit(s)
      BY <2>2
    <3> QED BY <1>2, <3>1 DEF Flow!Visit, Flow!Inputs, Flow!Ancestors, Ancestors
  <2>3. CASE \E s \in Step : Flow!Complete(s)
    <3>1. PICK s \in Step : Flow!Complete(s)
      BY <2>3
    <3>2. Flow!Inputs(s) \in [Step -> Nat]
      BY <1>2 DEF Flow!Inputs
    <3>3. Kinds' /\ OpenAreNot'
      BY <1>2, <3>1, <3>2 DEF Flow!Complete
    <3>4. ASSUME NEW t \in Open' PROVE Ancestors(t) \subseteq Done'
      BY <1>2, <3>1, <3>4 DEF Flow!Complete
    <3>5. ASSUME ~Torn', NEW t \in Done'
          PROVE  Ancestors(t) \subseteq Done' /\ MadeFrom'[t] = Flow!Inputs(t)'
      <4>1. ~Torn /\ s \notin Done /\ Ancestors(s) \subseteq Done
        BY <1>2, <3>1, <3>5 DEF Flow!Complete
      <4>2. Ancestors(t) \subseteq Done
        BY <1>2, <3>1, <3>5, <4>1 DEF Flow!Complete
      <4>3. Flow!Inputs(t)' = Flow!Inputs(t)
        BY <1>2, <3>1, <4>1, <4>2 DEF Flow!Complete, Flow!Inputs, Flow!Ancestors, Ancestors
      <4> QED BY <1>2, <3>1, <3>5, <4>1, <4>2, <4>3 DEF Flow!Complete
    <3> QED BY <3>3, <3>4, <3>5
  <2>4. CASE \E S \in SUBSET Open : Flow!Abandon(S)
    <3>1. Open' \subseteq Open /\ UNCHANGED <<Done, visits, Value, MadeFrom, Torn>>
      BY <2>4 DEF Flow!Abandon
    <3>2. \A t : Flow!Inputs(t)' = Flow!Inputs(t)
      BY <3>1 DEF Flow!Inputs
    <3> QED BY <1>2, <3>1, <3>2
  <2>5. CASE \E R \in SUBSET Done : Flow!Undo(R)
    <3>1. PICK R \in SUBSET Done : Flow!Undo(R)
      BY <2>5
    <3>2. Kinds' /\ OpenAreNot'
      BY <1>2, <3>1 DEF Flow!Undo, Flow!Nothing
    <3>3. ASSUME NEW t \in Open' PROVE Ancestors(t) \subseteq Done'
      BY <1>2, <3>1, <3>3 DEF Flow!Undo, Flow!Ancestors, Ancestors
    <3>4. ASSUME ~Torn', NEW t \in Done'
          PROVE  Ancestors(t) \subseteq Done' /\ MadeFrom'[t] = Flow!Inputs(t)'
      <4>1. ~Torn /\ t \in Done /\ t \notin R
        <5>1. Torn' \in {Torn, TRUE} /\ Done' = Done \ R
          BY <3>1 DEF Flow!Undo
        <5>2. ~Torn
          BY <3>4, <5>1, Zenon
        <5> QED BY <3>4, <5>1, <5>2
      <4>2. Ancestors(t) \subseteq Done /\ Ancestors(t) \cap R = {}
        BY <1>2, <3>1, <3>4, <4>1 DEF Flow!Undo, Flow!Ancestors, Ancestors
      <4>3. Flow!Inputs(t)' = Flow!Inputs(t)
        BY <3>1, <4>2 DEF Flow!Undo, Flow!Inputs, Flow!Ancestors, Ancestors
      <4> QED BY <1>2, <3>1, <4>1, <4>2, <4>3 DEF Flow!Undo
    <3> QED BY <3>2, <3>3, <3>4
  <2> QED BY <1>2, <2>1, <2>2, <2>3, <2>4, <2>5 DEF Flow!Next
<1>3. J => Flow!Consistent
  BY DEF Flow!Consistent, Flow!Ancestors, Ancestors
<1> HIDE DEF J
<1> QED BY <1>1, <1>2, <1>3, PTL DEF Flow!Spec

-----------------------------------------------------------------------------
(* The status of the run.                                                  *)

\* A run that is driven is running, unless it was cancelled meanwhile.
DriveShows == loop # "none" => flowStatus \in {"running", "cancelled"}

\* A task that fail_fast cancelled has stored its failure.
CancelShows ==
    loop \in {"wait", "gather"} => \A s \in Step : task[s] = "cancelled" => status[s] = "failed"

(* What a status promises of the steps is prepared while the driver works. *)
StatusInv == DriveShows /\ CancelShows /\ StatusTellsTheSteps

(* A task that fail_fast cancels is at an await where _run_step catches    *)
(* the cancellation and stores the failure: only the memory write, and     *)
(* after_step and on_error hooks, suspend a task otherwise.                *)
CancelsAreStored == FailFast => Suspends \subseteq {"after", "erring"}

(* Whatever sets the status of a driven run to an end leaves the loop.     *)
LEMMA DriveShowsKept ==
  ASSUME Inv, DriveShows, [Next]_vars
  PROVE  DriveShows'
<1> USE DEF DriveShows
<1>1. CASE UNCHANGED vars \/ StartRun \/ \E target \in Step \cup {NoStep} : Resume(target)
  BY <1>1 DEF vars, run, process, StartRun, Resume, SetFlow
<1>2. CASE SkipLayer \/ EnterLayer \/ WaitEnds \/ LayerPasses \/ HostCancels
  BY <1>2 DEF SkipLayer, EnterLayer, AtLayer, WaitEnds, LayerPasses, LayerEnds, HostCancels, SetFlow, run
<1>3. CASE \/ BlockedLayer \/ FinishRun \/ LayerFails \/ LayerConflicts \/ LayerPauses
           \/ CancelledEnds \/ OrphansEnd \/ CrashStep
  BY <1>3 DEF BlockedLayer, FinishRun, LayerFails, LayerConflicts, LayerPauses, CancelledEnds,
     OrphansEnd, DriverLeaves, CrashStep, CrashAtAwait, CrashInCreate, CrashInGate, CrashInGoto, Crash
<1>4. CASE (\E s \in Step : LayerTerminates(s)) \/ (\E s \in Step : LayerGoesTo(s))
  BY <1>4 DEF LayerTerminates, LayerGoesTo, DriverLeaves, SetFlow
<1>5. CASE \E s \in Step : TaskStep(s)
  BY <1>5, TaskMoves DEF Inv
<1>6. CASE ResetsByOperator \/ CancelRun
  BY <1>6 DEF ResetsByOperator, RetryStep, EditStep, CancelRun, ResetAndRun, SetFlow, process
<1> QED BY <1>1, <1>2, <1>3, <1>4, <1>5, <1>6, StepCases, Zenon

(* No step takes a failure from under a cancelled task.                    *)
LEMMA CancelShowsKept ==
  ASSUME ~EditOverlaps, ~RetryOverlaps, CancelsAreStored, BaseInv, WalkInv, CancelShows,
         [Next]_vars
  PROVE  CancelShows'
<1>0. TypeOK /\ Inv /\ PlaceInv /\ CancelInv
  BY DEF BaseInv, Inv
<1>1. CASE loop' \notin {"wait", "gather"}
  BY <1>1 DEF CancelShows
<1>2. CASE UNCHANGED <<task, status>> /\ loop \in {"wait", "gather"}
  BY <1>2 DEF CancelShows
<1>3. CASE EnterLayer
  BY <1>3 DEF EnterLayer, CancelShows
<1>4. CASE \E s \in Step : TaskStep(s)
  <2>1. SUFFICES ASSUME loop \in {"wait", "gather"} PROVE CancelShows'
    BY <1>0, <1>1, <1>4, TaskMoves
  <2>2. PICK s \in Step : Effect(s) /\ OwnStepOnly(s)
    BY <1>0, <1>4, TaskEffect
  <2>3. task'[s] = "cancelled" => status'[s] = "failed"
    <3>1. CASE Receives(s)
      <4>1. FailFast /\ task[s] # "spawned"
        BY <1>0, <2>1, <3>1 DEF CancelInv, Receives
      <4>2. \/ task[s] \in {"render", "exec", "after"} /\ s \notin Gate
            \/ task[s] = "erring"
        BY <1>0, <3>1, <4>1 DEF Receives, CancelsAreStored, PlaceInv
      <4>3. task[s] = "erring" => status[s] = "failed"
        BY DEF WalkInv, StatusOf
      <4> QED BY <3>1, <4>2, <4>3 DEF Receives, Handles
    <3> QED BY <1>0, <2>2, <3>1 DEF Effect, Advances, Renders, Begins, Errs, Accepts, Pends,
           Answers, Control, TypeOK, Option
  <2> QED BY <2>1, <2>2, <2>3 DEF CancelShows, OwnStepOnly
<1>5. CASE ResetsByOperator
  BY <1>1, <1>5 DEF ResetsByOperator, RetryStep, EditStep, OperatorMay, EditOverlaps, RetryOverlaps,
     ResetAndRun, process
<1>6. CASE UNCHANGED vars \/ WaitEnds \/ CancelRun \/ HostCancels
  BY <1>1, <1>2, <1>6 DEF vars, run, steps, process, WaitEnds, CancelRun, HostCancels
<1>7. CASE StartRun \/ \E target \in Step \cup {NoStep} : Resume(target)
  BY <1>1, <1>7 DEF StartRun, Resume
<1>8. CASE \/ SkipLayer \/ BlockedLayer \/ FinishRun \/ LayerFails \/ LayerConflicts \/ LayerPauses
           \/ LayerPasses \/ CancelledEnds \/ OrphansEnd \/ CrashStep
  BY <1>1, <1>8 DEF SkipLayer, AtLayer, BlockedLayer, FinishRun, LayerFails, LayerConflicts,
     LayerPauses, LayerPasses, CancelledEnds, OrphansEnd, DriverLeaves, CrashStep, CrashAtAwait,
     CrashInCreate, CrashInGate, CrashInGoto, Crash
<1>9. CASE (\E s \in Step : LayerTerminates(s)) \/ (\E s \in Step : LayerGoesTo(s))
  BY <1>1, <1>9 DEF LayerTerminates, LayerGoesTo, DriverLeaves
<1> QED BY <1>3, <1>4, <1>5, <1>6, <1>7, <1>8, <1>9, StepCases, Zenon

(* What the driver names when it leaves is what it says it is.             *)
LEMMA StatusTold ==
  ASSUME ~RetryOverlaps, BaseInv, WalkInv, DriveShows, CancelShows, StatusTellsTheSteps, [Next]_vars
  PROVE  StatusTellsTheSteps'
<1> USE DEF StatusTellsTheSteps, CompletedMeansAllDone, PausedAtWaitingGate, FailedAtFailedStep
<1>0. TypeOK /\ Inv /\ PlaceInv /\ \A s \in Step : StatusOf(s)
  BY DEF BaseInv, Inv, WalkInv
<1>1. CASE flowStatus' \notin {"completed", "paused", "failed"}
  BY <1>1
<1>2. CASE UNCHANGED flowStatus /\ loop # "none"
  <2>1. flowStatus' \in {"running", "cancelled"}
    BY <1>2 DEF DriveShows
  <2> QED BY <1>1, <2>1
<1>3. CASE StartRun \/ (\E target \in Step \cup {NoStep} : Resume(target)) \/ CancelRun
  BY <1>1, <1>3 DEF StartRun, Resume, CancelRun, SetFlow
<1>4. CASE \/ SkipLayer \/ EnterLayer \/ WaitEnds \/ LayerPasses \/ CancelledEnds \/ OrphansEnd
           \/ HostCancels
  BY <1>1, <1>2, <1>4 DEF SkipLayer, EnterLayer, AtLayer, WaitEnds, LayerPasses, LayerEnds,
     CancelledEnds, OrphansEnd, HostCancels, SetFlow, run
<1>5. CASE (\E s \in Step : LayerTerminates(s)) \/ (\E s \in Step : LayerGoesTo(s))
  BY <1>1, <1>5 DEF LayerTerminates, LayerGoesTo, SetFlow
<1>6. CASE \E s \in Step : TaskStep(s)
  <2>1. PICK s \in Step : task[s] # "idle" /\ UNCHANGED flowStatus
    BY <1>0, <1>6, TaskMoves
  <2> QED BY <1>0, <1>2, <2>1, TaskAtLayer
<1>7. CASE BlockedLayer
  <2> DEFINE blocked == {s \in LayerSteps(layer) : Blocked(s)}
             x == First(blocked)
  <2>1. layer \in DOMAIN Layers /\ blocked # {}
    BY <1>0, <1>7, GraphAssumption DEF BlockedLayer, AtLayer, TypeOK
  <2>2. x \in blocked
    BY <2>1, FirstInSet
  <2>3. x \in Step /\ x \in LayerSteps(layer) /\ Blocked(x)
    BY <2>1, <2>2, LayerStepsAreSteps
  <2>4. \A d \in Deps[x] : IsDone(d)
    BY <1>7, <2>1, <2>3, LevelOfStep, DepsBelow DEF BlockedLayer, AtLayer, WalkInv, DoneBelow
  <2>5. status[x] = "failed" /\ flowStatus' = "failed" /\ currentStep' = x /\ UNCHANGED status
    BY <1>7, <2>3, <2>4 DEF Blocked, BlockedLayer, SetFlow, steps
  <2> QED BY <2>3, <2>5
<1>8. CASE FinishRun
  <2>1. \A s \in Step : IsDone(s)
    BY <1>0, <1>8, LevelOfStep, GraphAssumption DEF FinishRun, PastLayers, WalkInv, DoneBelow, TypeOK
  <2> QED BY <1>8, <2>1 DEF FinishRun, SetFlow, steps, IsDone
<1>9. CASE LayerFails
  <2> DEFINE x == First(Ended(Failures))
  <2>1. Ended(Failures) \subseteq LayerSteps(layer) /\ layer \in DOMAIN Layers /\ Ended(Failures) # {}
    BY <1>0, <1>9 DEF LayerFails, LayerEnds, Inv, TasksInLayer, Ended, Failures
  <2>2. x \in Ended(Failures)
    BY <2>1, FirstInSet
  <2>3. x \in Step /\ task[x] \in Failures
    BY <2>2 DEF Ended
  <2>4. status[x] = "failed"
    BY <1>0, <1>9, <2>3 DEF LayerFails, LayerEnds, Failures, StatusOf, CancelShows
  <2> QED BY <1>9, <2>3, <2>4 DEF LayerFails, SetFlow, steps
<1>10. CASE LayerConflicts
  <2> DEFINE x == First(Deciding)
  <2>1. Deciding \subseteq LayerSteps(layer) /\ layer \in DOMAIN Layers /\ Deciding # {}
    BY <1>0, <1>10 DEF LayerConflicts, LayerEnds, Inv, TasksInLayer, Deciding, Ended
  <2>2. x \in Step
    BY <2>1, FirstInSet DEF Deciding, Ended
  <2>3. flowStatus' = "failed" /\ currentStep' = x /\ status' = [status EXCEPT ![x] = "failed"]
    BY <1>10 DEF LayerConflicts, SetFlow, Put
  <2> QED BY <1>0, <2>2, <2>3 DEF TypeOK
<1>11. CASE LayerPauses
  <2> DEFINE x == First(Ended({"pause"}))
  <2>1. Ended({"pause"}) # {}
    BY <1>0, <1>11 DEF LayerPauses, Controlling, Deciding, Ended, Controls
  <2>2. Ended({"pause"}) \subseteq LayerSteps(layer) /\ layer \in DOMAIN Layers
    BY <1>0, <1>11 DEF LayerPauses, LayerEnds, Inv, TasksInLayer, Ended
  <2>3. x \in Step /\ task[x] = "pause"
    BY <2>1, <2>2, FirstInSet DEF Ended
  <2>4. x \in Gate /\ status[x] = "waiting_human"
    BY <1>0, <2>3 DEF PlaceInv, Controls, StatusOf
  <2> QED BY <1>11, <2>4 DEF LayerPauses, SetFlow, steps
<1>12. CASE ResetsByOperator
  <2>1. PICK s \in Step, count \in 0 .. Len(YamlOrder) : ResetAndRun(s, count)
    BY <1>12 DEF ResetsByOperator, RetryStep, EditStep
  <2>2. flowStatus' = "running" \/ DiesAt("reset")
    BY <2>1 DEF ResetAndRun, SetFlow
  <2>3. DiesAt("reset") => crashes'.cutReset
    <3>1. DiesAt("reset") => crashes'.cutReset = (crashes.cutReset \/ "reset" = "reset")
      BY DEF DiesAt
    <3> QED BY <3>1, Zenon
  <2> QED BY <2>2, <2>3
<1>13. CASE CrashStep
  <2>1. CASE CrashAtAwait
    BY <1>2, <2>1 DEF CrashAtAwait, run
  <2>2. CASE CrashInCreate
    BY <1>1, <2>2 DEF CrashInCreate, SetFlow
  <2>3. CASE \E s \in Gate : \E option \in Options[s] : CrashInGate(s, option)
    <3>1. PICK s \in Gate : task[s] = "ask" /\ UNCHANGED flowStatus
      BY <2>3 DEF CrashInGate, At
    <3>2. s \in Step
      BY FlowAssumption
    <3> QED BY <1>0, <1>2, <3>1, <3>2, TaskAtLayer
  <2>4. CASE \E s \in Step, count \in 0 .. (Len(YamlOrder) - 1) : CrashInGoto(s, count)
    BY <1>2, <2>4 DEF CrashInGoto, Sole, LayerEnds
  <2> QED BY <1>13, <2>1, <2>2, <2>3, <2>4 DEF CrashStep
<1>14. CASE UNCHANGED vars
  BY <1>14 DEF vars, run, steps, process
<1> QED
  BY <1>3, <1>4, <1>5, <1>6, <1>7, <1>8, <1>9, <1>10, <1>11, <1>12, <1>13, <1>14, StepCases, Zenon

(* A completed run has no step left to do, a paused one names a gate that  *)
(* waits for its decision, and a failed one names a step that has failed.  *)
(* The hypotheses are needed (TLC shows it): a retry beside the driver     *)
(* takes the failure away that the driver is about to name, and with a     *)
(* host that suspends tasks fail_fast may cancel one that never stored     *)
(* anything.                                                               *)
THEOREM StatusIsTrue ==
  ASSUME ~EditOverlaps, ~RetryOverlaps, CancelsAreStored
  PROVE  Spec => []StatusTellsTheSteps
<1>1. Init => StatusInv
  BY DEF Init, StatusInv, DriveShows, CancelShows, StatusTellsTheSteps, CompletedMeansAllDone,
     PausedAtWaitingGate, FailedAtFailedStep
<1>2. BaseInv /\ WalkInv /\ StatusInv /\ [Next]_vars => StatusInv'
  BY DriveShowsKept, CancelShowsKept, StatusTold DEF StatusInv, BaseInv
<1>3. StatusInv => StatusTellsTheSteps
  BY DEF StatusInv
<1> QED BY <1>1, <1>2, <1>3, BaseInvAlways, WalkInvAlways, PTL DEF Spec

-----------------------------------------------------------------------------
(* The front of the run.                                                   *)

\* What keeps a run from going on, or from being at rest.
Busy == {"running", "waiting_human", "failed"}

(* No step is begun, asked or failed above one that is not done, nor above *)
(* the layer of the driver.                                                *)
FrontInv ==
    /\ \A s, t \in Step : status[s] \in Busy /\ Level(t) < Level(s) => IsDone(t)
    /\ Waits => \A s \in Step : layer < Level(s) => status[s] \notin Busy

(* When the layer has ended without a failure or a pause, no step of the   *)
(* flow is at work, waits for its decision or has failed.                  *)
LEMMA NobodyBusy ==
  ASSUME BaseInv, WalkInv, FrontInv, LayerEnds, NoFailure, Ended({"pause"}) = {}, NEW s \in Step
  PROVE  status[s] \notin Busy
<1>0. TypeOK /\ StatusOf(s) /\ Level(s) \in Nat /\ layer \in Nat /\ loop = "gather"
  BY LevelOfStep DEF BaseInv, Inv, WalkInv, TypeOK, LayerEnds
<1>1. CASE layer < Level(s)
  BY <1>0, <1>1 DEF FrontInv, Waits
<1>2. CASE Level(s) < layer
  BY <1>0, <1>2 DEF WalkInv, DoneBelow, IsDone, Busy
<1>3. CASE Level(s) = layer
  <2>1. CASE task[s] = "idle"
    BY <1>0, <1>3, <2>1 DEF WalkInv, DoneBeside, Waits, IsDone, Busy
  <2>2. CASE task[s] # "idle"
    <3>1. task[s] \in {"ok", "goto_step", "terminate"}
      BY <1>0, <2>2 DEF LayerEnds, AllEnded, Live, NoFailure, Ended, TypeOK, TaskState, Ends,
         Failures, Controls
    <3> QED BY <1>0, <3>1 DEF StatusOf, Busy
  <2> QED BY <2>1, <2>2
<1> QED BY <1>0, <1>1, <1>2, <1>3

(* Every step keeps that. An edit does not: it resets a step below, or     *)
(* beside and above, a gate that goes on waiting.                          *)
LEMMA FrontKept ==
  ASSUME "edit" \notin Operations, BaseInv, WalkInv, FrontInv, [Next]_vars
  PROVE  FrontInv'
<1>0. TypeOK /\ Inv /\ layer \in Nat /\ \A s \in Step : Level(s) \in Nat
  BY LevelOfStep DEF BaseInv, Inv, TypeOK
<1>1. CASE UNCHANGED status /\ ~Waits'
  BY <1>1 DEF FrontInv, IsDone
<1>2. CASE UNCHANGED <<status, layer>> /\ Waits
  BY <1>2 DEF FrontInv, IsDone
<1>3. CASE EnterLayer
  <2>1. PICK r \in LayerSteps(layer) : ~IsDone(r)
    BY <1>3 DEF EnterLayer, Runnable
  <2>2. r \in Step /\ Level(r) = layer
    <3>1. layer \in DOMAIN Layers
      BY <1>0, <1>3, GraphAssumption DEF EnterLayer, AtLayer, TypeOK
    <3> QED BY <2>1, <3>1, LevelOfStep, LayerStepsAreSteps
  <2>3. \A s \in Step : layer < Level(s) => status[s] \notin Busy
    BY <2>1, <2>2 DEF FrontInv
  <2> QED BY <1>3, <2>3 DEF EnterLayer, FrontInv, IsDone, run, steps
<1>4. CASE \E s \in Step : TaskStep(s)
  <2>1. PICK s \in Step : OwnStepOnly(s) /\ task[s] # "idle"
    BY <1>0, <1>4, TaskEffect, TaskMoves
  <2>2. Level(s) = layer /\ Waits
    BY <1>0, <2>1, TaskAtLayer DEF Waits
  <2>3. UNCHANGED <<loop, layer>> /\ \A t \in Step \ {s} : status'[t] = status[t]
    BY <2>1 DEF OwnStepOnly
  <2>4. ASSUME NEW x \in Step, NEW t \in Step, status'[x] \in Busy, Level(t) < Level(x)
        PROVE  IsDone(t)'
    <3>1. CASE x = s
      BY <1>0, <2>2, <2>3, <2>4, <3>1 DEF WalkInv, DoneBelow, Waits, IsDone
    <3>2. CASE x # s
      BY <1>0, <2>2, <2>3, <2>4, <3>2 DEF FrontInv, IsDone
    <3> QED BY <3>1, <3>2
  <2> QED BY <1>0, <2>2, <2>3, <2>4 DEF FrontInv, Waits
<1>5. CASE LayerConflicts
  <2> DEFINE x == First(Deciding)
  <2>1. Deciding \subseteq LayerSteps(layer) /\ layer \in DOMAIN Layers /\ Deciding # {} /\ Waits
    BY <1>0, <1>5 DEF LayerConflicts, LayerEnds, Inv, TasksInLayer, Deciding, Ended, Waits
  <2>2. x \in Step /\ Level(x) = layer
    BY <2>1, FirstInSet, LevelOfStep DEF Deciding, Ended
  <2>3. ~Waits' /\ status' = [status EXCEPT ![x] = "failed"]
    BY <1>5 DEF LayerConflicts, Put, DriverLeaves, Waits
  <2> HIDE DEF x
  <2>4. ASSUME NEW y \in Step, NEW t \in Step, status'[y] \in Busy, Level(t) < Level(y)
        PROVE  IsDone(t)'
    <3>1. CASE y = x
      BY <1>0, <2>1, <2>2, <2>3, <2>4, <3>1 DEF WalkInv, DoneBelow, Waits, IsDone, TypeOK
    <3>2. CASE y # x
      BY <1>0, <2>1, <2>2, <2>3, <2>4, <3>2 DEF FrontInv, IsDone, TypeOK
    <3> QED BY <3>1, <3>2
  <2> QED BY <2>3, <2>4 DEF FrontInv
<1>6. CASE GoesOrDies
  <2>1. PICK s \in Step : Sole("goto_step", s)
    BY <1>6 DEF GoesOrDies
  <2>2. LayerEnds /\ NoFailure /\ Ended({"pause"}) = {}
    BY <2>1 DEF Sole, Controlling, Ended, Controls
  <2>3. \A t \in Step : status'[t] \in {status[t], "pending"}
    BY <1>6 DEF GoesOrDies, ResetSteps
  <2>4. ~Waits'
    BY <1>6 DEF GoesOrDies, LayerGoesTo, CrashInGoto, Crash, Waits
  <2> QED BY <2>2, <2>3, <2>4, NobodyBusy DEF FrontInv, Busy
<1>7. CASE ResetsByOperator
  <2>1. PICK s \in Step, count \in 0 .. Len(YamlOrder) : RetryStep(s, count)
    BY <1>7 DEF ResetsByOperator, EditStep, OperatorMay
  <2>2. status[s] = "failed" /\ ResetSteps(ResetSet(s, count)) /\ UNCHANGED <<loop, layer>>
    BY <2>1 DEF RetryStep, ResetAndRun, process
  <2>3. \A t \in Step : status'[t] \in {status[t], "pending"}
    BY <2>2 DEF ResetSteps
  <2>4. \A t \in Step : Level(t) < Level(s) => status'[t] = status[t]
    BY <1>0, <2>2, FullReset, DescendantsAbove DEF ResetSteps
  <2>5. ASSUME NEW y \in Step, NEW t \in Step, status'[y] \in Busy, Level(t) < Level(y)
        PROVE  IsDone(t)'
    <3>1. status[y] \in Busy
      BY <2>3, <2>5 DEF Busy
    <3>2. ~(Level(s) < Level(y))
      BY <2>2, <3>1 DEF FrontInv, IsDone
    <3> QED BY <1>0, <2>4, <2>5, <3>1, <3>2 DEF FrontInv, IsDone
  <2>6. Waits' => \A y \in Step : layer' < Level(y) => status'[y] \notin Busy
    BY <2>2, <2>3 DEF FrontInv, Waits, Busy
  <2> QED BY <2>5, <2>6 DEF FrontInv
<1>8. CASE UNCHANGED vars \/ WaitEnds \/ CancelRun \/ HostCancels
  BY <1>1, <1>2, <1>8 DEF vars, run, steps, process, WaitEnds, CancelRun, HostCancels, Waits
<1>9. CASE StartRun \/ (\E target \in Step \cup {NoStep} : Resume(target))
  BY <1>1, <1>9 DEF StartRun, Resume, steps, Waits
<1>10. CASE \/ SkipLayer \/ BlockedLayer \/ FinishRun \/ LayerFails \/ LayerPauses \/ LayerPasses
            \/ CancelledEnds \/ OrphansEnd \/ \E s \in Step : LayerTerminates(s)
  BY <1>1, <1>10 DEF SkipLayer, AtLayer, BlockedLayer, FinishRun, LayerFails, LayerPauses,
     LayerPasses, CancelledEnds, OrphansEnd, LayerTerminates, DriverLeaves, Waits, run, steps
<1>11. CASE \E s \in Step : LayerGoesTo(s)
  BY <1>0, <1>6, <1>11, FlowAssumption DEF LayerGoesTo, GoesOrDies
<1>12. CASE CrashStep
  <2>1. CASE CrashAtAwait \/ CrashInCreate \/ \E s \in Gate : \E option \in Options[s] : CrashInGate(s, option)
    BY <1>1, <2>1 DEF CrashAtAwait, CrashInCreate, CrashInGate, Crash, Waits, run, steps
  <2>2. CASE \E s \in Step, count \in 0 .. (Len(YamlOrder) - 1) : CrashInGoto(s, count)
    BY <1>6, <2>2 DEF CrashInGoto, GoesOrDies
  <2> QED BY <1>12, <2>1, <2>2 DEF CrashStep
<1> QED
  BY <1>3, <1>4, <1>5, <1>7, <1>8, <1>9, <1>10, <1>11, <1>12, StepCases, Zenon

(* So the run has one front, whatever fails, is retried, resumed or cut.   *)
LEMMA FrontInvAlways ==
  ASSUME "edit" \notin Operations
  PROVE  Spec => [](BaseInv /\ WalkInv /\ FrontInv)
<1>0. ~EditOverlaps
  BY DEF EditOverlaps
<1>1. Init => FrontInv
  BY DEF Init, FrontInv, Busy, Waits
<1>2. BaseInv /\ WalkInv /\ FrontInv /\ [Next]_vars => FrontInv'
  BY FrontKept
<1> QED BY <1>0, <1>1, <1>2, BaseInvAlways, WalkInvAlways, PTL DEF Spec

(* When the driver passes a layer or ends the run on a terminate, no gate  *)
(* of the flow is left waiting for a decision. With edit there may be one  *)
(* (TLC shows it): the edit of a step that is not above the gate sends the *)
(* driver on while the gate waits.                                         *)
THEOREM NoQuestionIsLeft ==
  ASSUME "edit" \notin Operations
  PROVE  Spec => NoQuestionLeft
<1> DEFINE Answered == loop = "gather" /\ (loop' = "topology" \/ TerminateTakesEffect)
                         => \A g \in Gate : status[g] # "waiting_human"
<1>1. ASSUME BaseInv, WalkInv, FrontInv, [Next]_vars PROVE Answered
  <2>1. SUFFICES ASSUME loop = "gather", loop' = "topology" \/ TerminateTakesEffect
                 PROVE  LayerEnds /\ NoFailure /\ Ended({"pause"}) = {}
    BY <1>1, NobodyBusy, FlowAssumption DEF Busy
  <2> USE DEF TerminateTakesEffect
  <2>2. CASE LayerPasses
    BY <2>2 DEF LayerPasses, Controlling, Ended, Controls
  <2>3. CASE (\E s \in Step : LayerTerminates(s)) \/ (\E s \in Step : LayerGoesTo(s))
    BY <2>3 DEF LayerTerminates, LayerGoesTo, Sole, Controlling, Ended, Controls
  <2>4. CASE LayerFails \/ LayerConflicts \/ LayerPauses
    BY <2>1, <2>4 DEF LayerFails, LayerConflicts, LayerPauses, SetFlow, DriverLeaves
  <2>5. CASE \/ StartRun \/ (\E target \in Step \cup {NoStep} : Resume(target)) \/ SkipLayer
             \/ BlockedLayer \/ EnterLayer \/ FinishRun \/ WaitEnds \/ CancelledEnds \/ OrphansEnd
    BY <2>1, <2>5 DEF StartRun, Resume, SkipLayer, BlockedLayer, EnterLayer, AtLayer, FinishRun,
       WaitEnds, CancelledEnds, OrphansEnd
  <2>6. CASE \E s \in Step : TaskStep(s)
    BY <1>1, <2>1, <2>6, TaskMoves DEF BaseInv, Inv
  <2>7. CASE UNCHANGED vars \/ ResetsByOperator \/ CancelRun \/ HostCancels
    BY <2>1, <2>7 DEF vars, process, ResetsByOperator, RetryStep, EditStep, ResetAndRun, CancelRun, HostCancels
  <2>8. CASE CrashStep
    <3>1. PICK point : Crash(point)
      BY <2>8 DEF CrashStep, CrashAtAwait, CrashInCreate, CrashInGate, CrashInGoto
    <3>2. loop' = "none" /\ crashes'.count = crashes.count + 1 /\ crashes.count \in Nat
      BY <1>1, <3>1 DEF Crash, DiesAt, BaseInv, Inv, TypeOK
    <3> QED BY <2>1, <3>2
  <2> QED BY <1>1, <2>2, <2>3, <2>4, <2>5, <2>6, <2>7, <2>8, StepCases, Zenon
<1>2. BaseInv /\ WalkInv /\ FrontInv /\ [Next]_vars => [Answered]_vars
  BY <1>1
<1> QED BY <1>2, FrontInvAlways, PTL DEF Spec, NoQuestionLeft

-----------------------------------------------------------------------------
(* The end by terminate.                                                   *)

(* A gate that has decided to terminate is in the layer the driver waits   *)
(* for, and its task is about to say so, has said so or was cancelled.     *)
TerminateInv ==
    \A g \in Gate : choice[g].action = "terminate" => task[g] \in {"decided", "terminate", "cancelled"}

(* Every step keeps that: the choices end with the tasks.                  *)
LEMMA TerminateKept ==
  ASSUME Inv, TerminateInv, [Next]_vars
  PROVE  TerminateInv'
<1>0. TypeOK /\ Gate \subseteq Step
  BY FlowAssumption DEF Inv
<1>1. CASE \E s \in Step : TaskStep(s)
  <2>1. PICK s \in Step : Effect(s) /\ OwnStepOnly(s)
    BY <1>0, <1>1, TaskEffect
  <2>2. ASSUME s \in Gate, choice'[s].action = "terminate"
        PROVE  task'[s] \in {"decided", "terminate", "cancelled"}
    <3>1. CASE task'[s] = "decided"
      BY <3>1
    <3>2. CASE task'[s] # "decided"
      <4>1. choice[s].action = "terminate" /\ task[s] \in {"decided", "terminate", "cancelled"}
        BY <2>1, <2>2, <3>2 DEF OwnStepOnly, TerminateInv
      <4>2. Control(s) = "terminate"
        BY <4>1 DEF Control
      <4> QED BY <2>1, <4>1, <4>2 DEF Effect, Advances, Renders, Begins, Errs, Accepts, Pends,
             Answers, Receives
    <3> QED BY <3>1, <3>2
  <2> QED BY <1>0, <2>1, <2>2 DEF TerminateInv, OwnStepOnly
<1>2. CASE EnterLayer
  <2>1. \A g \in Gate : task[g] = "idle"
    BY <1>0, <1>2 DEF EnterLayer, AtLayer, Inv, TasksInLayer
  <2> QED BY <1>2, <2>1 DEF EnterLayer, TerminateInv
<1>3. CASE UNCHANGED <<steps, task, choice>>
  BY <1>3 DEF TerminateInv
<1>4. CASE NoTasks
  BY <1>0, <1>4 DEF NoTasks, NoOption, TerminateInv
<1>5. CASE LayerConflicts \/ GoesOrDies
  BY <1>4, <1>5 DEF LayerConflicts, DriverLeaves, GoesOrDies, LayerGoesTo, CrashInGoto, Crash
<1>6. CASE ResetsByOperator
  BY <1>6 DEF ResetsByOperator, RetryStep, EditStep, ResetAndRun, process, TerminateInv
<1> QED BY <1>1, <1>2, <1>3, <1>4, <1>5, <1>6, OtherSteps, Zenon

(* A layer that ends without a failure after a terminate ends on it.       *)
LEMMA TerminateControls ==
  ASSUME TerminateInv, LayerEnds, NoFailure, Terminating
  PROVE  \E g \in Gate : task[g] = "terminate" /\ g \in Deciding /\ g \in Controlling
<1>1. PICK g \in Gate : task[g] \in {"decided", "terminate", "cancelled"}
  BY DEF TerminateInv, Terminating
<1>2. g \in Step
  BY FlowAssumption
<1>3. task[g] = "terminate"
  BY <1>1, <1>2 DEF LayerEnds, AllEnded, Live, Active, NoFailure, Ended, Failures
<1> QED BY <1>2, <1>3 DEF Deciding, Controlling, Ended, Controls

(* For every flow, schedule, host, operator and crash: after the decision  *)
(* to terminate the driver works on no other layer, and leaves the run     *)
(* cancelled or failed.                                                    *)
THEOREM TerminateEndsTheRun == Spec => TerminateEndsDrive
<1> DEFINE Leaves == loop' = "none" /\ loop # "orphaned" =>
                         flowStatus' \in {"cancelled", "failed"} \/ crashes' # crashes
           Final == Terminating => loop' # "topology" /\ Leaves
<1>1. Init => TerminateInv
  BY FlowAssumption DEF Init, TerminateInv, NoOption
<1>2. BaseInv /\ TerminateInv /\ [Next]_vars => TerminateInv'
  BY TerminateKept DEF BaseInv
<1>3. ASSUME BaseInv, TerminateInv, [Next]_vars PROVE Final
  <2>1. SUFFICES ASSUME Terminating PROVE loop' # "topology" /\ Leaves
    OBVIOUS
  <2>2. TypeOK /\ Inv
    BY <1>3 DEF BaseInv, Inv
  <2>3. loop \notin {"none", "topology"}
    <3>1. PICK g \in Gate : task[g] # "idle"
      BY <1>3, <2>1 DEF TerminateInv, Terminating
    <3> QED BY <2>2, <3>1, FlowAssumption DEF Inv, TasksInLayer
  <2>4. CASE LayerFails \/ LayerConflicts \/ CancelledEnds \/ OrphansEnd
    BY <2>4 DEF LayerFails, LayerConflicts, CancelledEnds, OrphansEnd, SetFlow, DriverLeaves
  <2>5. CASE \E s \in Step : LayerTerminates(s)
    BY <2>5 DEF LayerTerminates, SetFlow, DriverLeaves
  <2>6. ~(LayerPauses \/ LayerPasses \/ \E s \in Step : LayerGoesTo(s))
    BY <1>3, <2>1, TerminateControls DEF LayerPauses, LayerPasses, LayerGoesTo, Sole
  <2>7. CASE \/ StartRun \/ (\E target \in Step \cup {NoStep} : Resume(target)) \/ SkipLayer
             \/ BlockedLayer \/ EnterLayer \/ FinishRun
    BY <2>3, <2>7 DEF StartRun, Resume, SkipLayer, BlockedLayer, EnterLayer, AtLayer, FinishRun
  <2>8. CASE UNCHANGED vars \/ WaitEnds \/ ResetsByOperator \/ CancelRun \/ HostCancels
    BY <2>3, <2>8 DEF vars, process, WaitEnds, ResetsByOperator, RetryStep, EditStep, ResetAndRun,
       CancelRun, HostCancels
  <2>9. CASE \E s \in Step : TaskStep(s)
    BY <2>2, <2>3, <2>9, TaskMoves
  <2>10. CASE CrashStep
    <3>1. PICK point : Crash(point)
      BY <2>10 DEF CrashStep, CrashAtAwait, CrashInCreate, CrashInGate, CrashInGoto
    <3>2. loop' = "none" /\ crashes'.count = crashes.count + 1 /\ crashes.count \in Nat
      BY <2>2, <3>1 DEF Crash, DiesAt, TypeOK
    <3> QED BY <3>2
  <2> QED BY <1>3, <2>4, <2>5, <2>6, <2>7, <2>8, <2>9, <2>10, StepCases, Zenon
<1>4. BaseInv /\ TerminateInv /\ [Next]_vars => [Final]_vars
  BY <1>3
<1> QED BY <1>1, <1>2, <1>4, BaseInvAlways, PTL DEF Spec, TerminateEndsDrive
=============================================================================
