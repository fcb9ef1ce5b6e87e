------------------------- MODULE AgentAttempt_proofs -------------------------
(***************************************************************************)
(* For every retry budget, contract, answer and number of cancellations,   *)
(* no agent is left working beside a later attempt or after its visit      *)
(* (NoAgentLeft), the verdict on a visit is the one its last answer        *)
(* deserves (VerdictIsJust), and every prompt tells of the last answer     *)
(* there was (FeedbackFollowsAnswers).                                     *)
(***************************************************************************)
EXTENDS AgentAttempt, TLAPS

(* The types the arguments need.                                           *)
Typed ==
    /\ contract \in Contracts
    /\ pc \in {"next"} \cup Suspended \cup Ends
    /\ attempts \in 0 .. (Retry + 1)
    /\ proc \in [Attempt -> [agent : AgentState, helper : HelperState]]
    /\ cause \in {"none", "timeout", "cancel"}
    /\ cancelReq \in BOOLEAN
    /\ cancels \in Nat
    /\ pc \in Suspended => attempts > 0

Working(a) == proc[a].agent = "running"

(* Only the current attempt has an agent at work, and of it only while the *)
(* task is suspended; after SIGTERM it works if it ignores the signal,     *)
(* after SIGKILL not at all.                                               *)
AgentsFollowTask ==
    \A a \in Attempt : Working(a) =>
        /\ a = attempts
        /\ pc \in {"spawning", "talking", "terminating", "cancelled"}
        /\ pc \in {"terminating", "cancelled"} => "agent" \in stubborn

(* Which cancellations a clean-up has seen: the one it is for, and a       *)
(* further one that is about to interrupt it.                              *)
CancelsCounted ==
    /\ cancelReq => cancels > 0
    /\ pc \in {"terminating", "killing"} =>
         /\ cause # "none"
         /\ cause = "cancel" => cancels > 0
         /\ cause = "cancel" /\ cancelReq => cancels > 1
    /\ pc = "cancelled" /\ (\E a \in Attempt : Working(a)) =>
         cause = "timeout" \/ cancels > 1

IInv == Typed /\ AgentsFollowTask /\ CancelsCounted

-----------------------------------------------------------------------------
(* A signal changes processes of the current attempt only, and what it     *)
(* reaches does not work any more.                                         *)
LEMMA HitEffect ==
    ASSUME Typed, attempts > 0, NEW whom, proc' = Hit(whom)
    PROVE  /\ proc' \in [Attempt -> [agent : AgentState, helper : HelperState]]
           /\ \A a \in Attempt : proc'[a].agent = "running" => Working(a)
           /\ "agent" \in whom => proc'[attempts].agent # "running"
  <1>1. attempts \in Attempt
    BY AttemptAssumption DEF Typed, Attempt
  <1>2. \A a \in Attempt : a # attempts => proc'[a] = proc[a]
    BY <1>1 DEF Hit, Typed
  <1>3. proc'[attempts] =
          [agent  |-> IF "agent" \in whom /\ proc[attempts].agent = "running"
                      THEN "exited" ELSE proc[attempts].agent,
           helper |-> IF "helper" \in whom /\ Helping(proc[attempts])
                      THEN "gone" ELSE proc[attempts].helper]
    BY <1>1 DEF Hit, Typed
  <1>4. proc'[attempts] \in [agent : AgentState, helper : HelperState]
    BY <1>1, <1>3 DEF Typed, AgentState, HelperState
  <1>5. proc' \in [Attempt -> [agent : AgentState, helper : HelperState]]
    BY <1>1, <1>2, <1>4 DEF Hit, Typed
  <1>6. proc'[attempts].agent = "running" => Working(attempts) /\ "agent" \notin whom
    BY <1>3 DEF Working
  <1> QED  BY <1>1, <1>2, <1>5, <1>6 DEF Working

(* What happens around the task never sets an agent to work.               *)
LEMMA AroundEffect ==
    ASSUME Typed,
           \E a \in Attempt : StartHelper(a) \/ AgentExits(a) \/ HelperExits(a)
                              \/ Reap(a) \/ Notice(a)
    PROVE  /\ proc' \in [Attempt -> [agent : AgentState, helper : HelperState]]
           /\ \A a \in Attempt : proc'[a].agent = "running" => Working(a)
           /\ UNCHANGED <<fixed, pc, loop, cleanup, cancelReq, cancels>>
  BY DEF Typed, Working, StartHelper, AgentExits, HelperExits, Reap, Notice, Becomes,
         AgentState, HelperState

LEMMA InitHolds == Init => IInv
  <1> SUFFICES ASSUME Init PROVE IInv
    OBVIOUS
  <1>1. Typed
    <2>1. Retry \in Nat /\ attempts \in 0 .. (Retry + 1)
      BY AttemptAssumption DEF Init
    <2>2. proc \in [Attempt -> [agent : AgentState, helper : HelperState]]
      BY DEF Init, AgentState, HelperState
    <2> QED  BY <2>1, <2>2 DEF Init, Typed, Suspended, Ends
  <1>2. AgentsFollowTask /\ CancelsCounted
    BY DEF Init, AgentsFollowTask, CancelsCounted, Working
  <1> QED  BY <1>1, <1>2 DEF IInv

(* The clean-up up to its first await, for both of its reasons.            *)
LEMMA TerminateEffect ==
    ASSUME IInv, pc = "talking", NEW why \in {"timeout", "cancel"}, Terminate(why),
           UNCHANGED <<fixed, attempts, cancels>>,
           cancelReq' = FALSE, why = "cancel" => cancels > 0
    PROVE  IInv'
  <1>1. attempts \in Attempt /\ attempts > 0
    BY AttemptAssumption DEF IInv, Typed, Attempt, Suspended
  <1>2. cause' = why /\ cause' # "none"
    BY DEF Terminate
  <1>3. CASE Current.agent = "noticed"
    <2>1. proc' = proc /\ pc' \in {"next", "cancelled"}
      BY <1>3 DEF Terminate, CleanedUp
    <2>2. \A a \in Attempt : ~Working(a)
      BY <1>3 DEF IInv, AgentsFollowTask, Working, Current
    <2> QED  BY <1>2, <2>1, <2>2 DEF IInv, Typed, AgentsFollowTask, CancelsCounted,
                                  Working, fixed, Suspended, Ends
  <1>4. CASE Current.agent # "noticed"
    <2>1. proc' = Hit(Reached(group') \ stubborn) /\ pc' = "terminating"
      BY <1>4 DEF Terminate
    <2>2. /\ proc' \in [Attempt -> [agent : AgentState, helper : HelperState]]
          /\ \A a \in Attempt : proc'[a].agent = "running" => Working(a)
          /\ "agent" \notin stubborn => proc'[attempts].agent # "running"
      <3>1. "agent" \notin stubborn => "agent" \in Reached(group') \ stubborn
        BY DEF Reached
      <3>2. IInv => Typed
        BY DEF IInv
      <3> QED  BY <1>1, <2>1, <3>1, <3>2, HitEffect
    <2> QED  BY <1>1, <1>2, <2>1, <2>2 DEF IInv, Typed, AgentsFollowTask, CancelsCounted,
                                        Working, fixed, Suspended, Ends
  <1> QED  BY <1>3, <1>4

LEMMA StepHolds == IInv /\ [Next]_vars => IInv'
  <1> SUFFICES ASSUME IInv, [Next]_vars PROVE IInv'
    OBVIOUS
  <1> USE AttemptAssumption
  <1>1. CASE StartAttempt
    <2>1. attempts + 1 \in Attempt /\ attempts' = attempts + 1
      BY <1>1 DEF IInv, Typed, StartAttempt, Attempt
    <2>2. \A a \in Attempt : ~Working(a)
      BY <1>1 DEF IInv, AgentsFollowTask, StartAttempt
    <2>3. \A a \in Attempt : proc'[a].agent = "running" => a = attempts' /\ pc' = "spawning"
      BY <1>1, <2>1, <2>2 DEF IInv, Typed, StartAttempt, Begin, Working
    <2>4. Typed'
      <3>1. proc' \in [Attempt -> [agent : AgentState, helper : HelperState]]
        BY <1>1, <2>1 DEF IInv, Typed, StartAttempt, Begin, AgentState, HelperState
      <3>2. attempts' \in 0 .. (Retry + 1) /\ attempts' > 0
        BY <2>1 DEF Attempt
      <3> QED  BY <1>1, <3>1, <3>2 DEF IInv, Typed, StartAttempt, Begin, Suspended, Ends, fixed
    <2>5. /\ pc' \in {"next", "spawning", "calling"}
          /\ UNCHANGED <<stubborn, cancelReq, cancels>>
      BY <1>1 DEF StartAttempt, Begin, fixed
    <2> QED  BY <2>3, <2>4, <2>5 DEF IInv, AgentsFollowTask, CancelsCounted, Working
  <1>2. CASE GiveUp \/ Connected
    BY <1>2 DEF IInv, Typed, AgentsFollowTask, CancelsCounted, Working, GiveUp, Connected,
                loop, cleanup, fixed, Suspended, Ends
  <1>3. CASE (\E answer \in Answers : Answered(answer)) \/ RespondedInError
    <2>1. /\ \/ pc = "talking" /\ Current.agent = "noticed"
             \/ pc = "calling"
          /\ pc' \in {"completed", "next"} /\ cancelReq' = FALSE
          /\ UNCHANGED <<contract, stubborn, attempts, proc, cause, cancels>>
      BY <1>3 DEF Answered, RespondedInError, Responded, fixed, cleanup
    <2>2. \A a \in Attempt : ~Working(a)
      BY <2>1 DEF IInv, AgentsFollowTask, Working, Current
    <2> QED  BY <2>1, <2>2 DEF IInv, Typed, AgentsFollowTask, CancelsCounted, Working,
                             Suspended, Ends
  <1>4. CASE Timeout
    <2>1. CASE pc = "talking"
      BY <1>4, <2>1, TerminateEffect DEF Timeout, IInv, Typed
    <2>2. CASE pc = "calling"
      <3>1. /\ pc' = "next" /\ ~cancelReq
            /\ UNCHANGED <<contract, stubborn, attempts, proc, cause, cancelReq, cancels>>
        BY <1>4, <2>2 DEF Timeout, CleanedUp, fixed, cleanup
      <3>2. \A a \in Attempt : ~Working(a)
        BY <2>2 DEF IInv, AgentsFollowTask
      <3> QED  BY <3>1, <3>2 DEF IInv, Typed, AgentsFollowTask, CancelsCounted, Working,
                               Suspended, Ends
    <2> QED  BY <1>4, <2>1, <2>2 DEF Timeout
  <1>5. CASE WaitOver
    <2>1. /\ pc \in {"terminating", "killing"} /\ Current.agent = "noticed"
          /\ pc' \in {"cancelled", "next"} /\ cancelReq' = FALSE
          /\ UNCHANGED <<contract, stubborn, attempts, proc, cause, cancels>>
      BY <1>5 DEF WaitOver, CleanedUp, fixed, cleanup
    <2>2. \A a \in Attempt : ~Working(a)
      BY <2>1 DEF IInv, AgentsFollowTask, Working, Current
    <2> QED  BY <2>1, <2>2 DEF IInv, Typed, AgentsFollowTask, CancelsCounted, Working,
                             Suspended, Ends
  <1>6. CASE GraceOver
    <2>1. /\ pc = "terminating" /\ pc' = "killing" /\ proc' = Hit(Reached(group))
          /\ UNCHANGED <<contract, stubborn, attempts, cause, cancelReq, cancels>>
          /\ ~cancelReq /\ attempts > 0
      BY <1>6 DEF GraceOver, fixed, loop, cleanup, IInv, Typed, Suspended
    <2>2. /\ proc' \in [Attempt -> [agent : AgentState, helper : HelperState]]
          /\ \A a \in Attempt : proc'[a].agent = "running" => Working(a)
          /\ proc'[attempts].agent # "running"
      BY <2>1, HitEffect DEF IInv, Reached
    <2>3. \A a \in Attempt : proc'[a].agent # "running"
      BY <2>2 DEF IInv, AgentsFollowTask
    <2> QED  BY <2>1, <2>2, <2>3 DEF IInv, Typed, AgentsFollowTask, CancelsCounted, Working,
                                  Suspended, Ends
  <1>7. CASE CancelDelivered
    <2>1. /\ cancelReq' = FALSE /\ cancelReq /\ cancels > 0
          /\ UNCHANGED <<contract, fixed, stubborn, attempts, cancels>>
      BY <1>7 DEF CancelDelivered, IInv, CancelsCounted, fixed
    <2>2. CASE pc = "spawning"
      <3>1. /\ proc' = Hit({"agent"}) /\ cause' = "cancel" /\ pc' = "killing" /\ attempts > 0
        BY <1>7, <2>2 DEF CancelDelivered, IInv, Typed, Suspended
      <3>2. /\ proc' \in [Attempt -> [agent : AgentState, helper : HelperState]]
            /\ \A a \in Attempt : proc'[a].agent = "running" => Working(a)
            /\ proc'[attempts].agent # "running"
        BY <3>1, HitEffect DEF IInv
      <3>3. \A a \in Attempt : proc'[a].agent # "running"
        BY <3>2 DEF IInv, AgentsFollowTask
      <3> QED  BY <2>1, <3>1, <3>2, <3>3 DEF IInv, Typed, AgentsFollowTask, CancelsCounted,
                                          Working, Suspended, Ends
    <2>3. CASE pc = "talking"
      <3>1. Terminate("cancel")
        BY <1>7, <2>3 DEF CancelDelivered
      <3> QED  BY <2>1, <2>3, <3>1, TerminateEffect
    <2>4. CASE pc \in {"terminating", "killing"}
      <3>1. pc' = "cancelled" /\ UNCHANGED <<proc, cause>>
        BY <1>7, <2>4 DEF CancelDelivered, cleanup
      <3>2. cause = "timeout" \/ cancels > 1
        BY <2>1, <2>4 DEF IInv, CancelsCounted, Typed
      <3> QED  BY <2>1, <2>4, <3>1, <3>2 DEF IInv, Typed, AgentsFollowTask, CancelsCounted,
                                          Working, Suspended, Ends
    <2>5. CASE pc = "calling"
      <3>1. pc' = "cancelled" /\ UNCHANGED <<proc, cause>>
        BY <1>7, <2>5 DEF CancelDelivered, cleanup
      <3>2. \A a \in Attempt : ~Working(a)
        BY <2>5 DEF IInv, AgentsFollowTask
      <3> QED  BY <2>1, <3>1, <3>2 DEF IInv, Typed, AgentsFollowTask, CancelsCounted,
                                    Working, Suspended, Ends
    <2> QED  BY <1>7, <2>2, <2>3, <2>4, <2>5 DEF CancelDelivered
  <1>8. CASE Cancel
    BY <1>8 DEF IInv, Typed, AgentsFollowTask, CancelsCounted, Working, Cancel,
                loop, cleanup, fixed, Suspended, Ends
  <1>9. CASE \E a \in Attempt : StartHelper(a) \/ AgentExits(a) \/ HelperExits(a)
                                \/ Reap(a) \/ Notice(a)
    <2>1. /\ proc' \in [Attempt -> [agent : AgentState, helper : HelperState]]
          /\ \A a \in Attempt : proc'[a].agent = "running" => Working(a)
          /\ UNCHANGED <<fixed, pc, loop, cleanup, cancelReq, cancels>>
      BY <1>9, AroundEffect DEF IInv
    <2> QED  BY <2>1 DEF IInv, Typed, AgentsFollowTask, CancelsCounted, Working, loop,
                        cleanup, fixed
  <1>10. CASE UNCHANGED vars
    BY <1>10 DEF IInv, Typed, AgentsFollowTask, CancelsCounted, Working, vars, loop,
                 cleanup, fixed
  <1> QED  BY <1>1, <1>2, <1>3, <1>4, <1>5, <1>6, <1>7, <1>8, <1>9, <1>10
           DEF Next, VisitStep

(* No attempt starts beside the agent of an earlier one, and none outlives *)
(* its visit but where a cancellation cut short the clean-up of an agent   *)
(* that ignores SIGTERM.                                                   *)
THEOREM NoAgentIsLeft == Spec => []NoAgentLeft
  <1>1. IInv => NoAgentLeft
    BY AttemptAssumption DEF IInv, Typed, AgentsFollowTask, CancelsCounted, Working,
                             NoAgentLeft, Ends
  <1> QED  BY InitHolds, StepHolds, <1>1, PTL DEF Spec

-----------------------------------------------------------------------------
(* validate() finds nothing to complain of exactly where the answer is     *)
(* what the contract asks for.                                             *)
LEMMA ContractDecides ==
    ASSUME NEW c \in Contracts, NEW answer \in Answers
    PROVE  Violations(c, answer) = {} <=> Meets(c, answer)
  <1>1. c.format \in {"text", "markdown", "json"}
    BY AttemptAssumption
  <1> DEFINE value == Judged(answer)
  <1>2. value.kind \in {"blank", "prose", "array", "object"} /\ answer.text \in BOOLEAN
    BY AttemptAssumption DEF Answer, Judged
  <1>3. CASE c.format # "json"
    <2>1. answer.kind \in {"blank", "prose", "array", "object"}
      BY AttemptAssumption DEF Answer
    <2> QED  BY <1>1, <1>2, <1>3, <2>1 DEF Violations, Meets
  <1>4. CASE c.format = "json" /\ value.kind # "object"
    BY <1>2, <1>4 DEF Violations, Meets
  <1>5. CASE c.format = "json" /\ value.kind = "object"
    <2> DEFINE has == DOMAIN value.fields
               wanted == DOMAIN c.schema
               missing == {<<"missing", f>> : f \in wanted \ has}
               wrong == {g \in wanted \cap has :
                           ~Satisfies(value.fields[g], c.schema[g])}
    <2>1. Violations(c, answer) = missing \cup {<<"type", f>> : f \in wrong}
      BY <1>5 DEF Violations
    <2>2. Violations(c, answer) = {} <=> wanted \ has = {} /\ wrong = {}
      BY <2>1
    <2>3. Meets(c, answer) <=>
            \A f \in wanted : f \in has /\ Satisfies(value.fields[f], c.schema[f])
      BY <1>5 DEF Meets
    <2> QED  BY <2>2, <2>3
  <1> QED  BY <1>3, <1>4, <1>5

(* Between two attempts the last result is not one that is accepted.       *)
Met == result.ok /\ Meets(contract, result.output)
VerdictInv ==
    /\ pc = "completed" => Met
    /\ pc = "next" => ~Met
    /\ pc = "failed" => ~Met /\ attempts = Retry + 1

LEMMA VerdictStep == IInv /\ VerdictInv /\ [Next]_vars => VerdictInv'
  <1> SUFFICES ASSUME IInv, VerdictInv, [Next]_vars PROVE VerdictInv'
    OBVIOUS
  <1>1. CASE StartAttempt
    BY <1>1 DEF VerdictInv, Met, StartAttempt, Begin, fixed, Failure
  <1>2. CASE GiveUp
    BY <1>2, AttemptAssumption DEF VerdictInv, Met, GiveUp, fixed, loop, IInv, Typed
  <1>3. ASSUME NEW answer \in Answers, Answered(answer) PROVE VerdictInv'
    <2>1. /\ result' = [ok |-> TRUE, output |-> answer] /\ contract' = contract
          /\ pc' = IF Violations(contract, answer) = {} THEN "completed" ELSE "next"
      BY <1>3 DEF Answered, fixed
    <2>2. Met' <=> Violations(contract, answer) = {}
      BY <2>1, ContractDecides DEF Met, IInv, Typed
    <2> QED  BY <2>1, <2>2 DEF VerdictInv
  <1>4. CASE RespondedInError
    BY <1>4 DEF VerdictInv, Met, RespondedInError, Failure
  <1>5. CASE Timeout \/ WaitOver \/ CancelDelivered
    <2>1. \/ pc' = "next" /\ result' = Failure
          \/ pc' \in {"terminating", "killing", "cancelled"}
      BY <1>5 DEF Timeout, WaitOver, CancelDelivered, Terminate, CleanedUp
    <2> QED  BY <2>1 DEF VerdictInv, Met, Failure
  <1>6. CASE Connected \/ GraceOver
    BY <1>6 DEF VerdictInv, Connected, GraceOver
  <1>7. CASE Cancel
    BY <1>7 DEF VerdictInv, Met, Cancel, fixed, loop, Suspended
  <1>8. CASE \E a \in Attempt : StartHelper(a) \/ AgentExits(a) \/ HelperExits(a)
                                \/ Reap(a) \/ Notice(a)
    BY <1>8 DEF VerdictInv, Met, StartHelper, AgentExits, HelperExits, Reap, Notice,
                Becomes, fixed, loop
  <1>9. CASE UNCHANGED vars
    BY <1>9 DEF VerdictInv, Met, vars, fixed, loop
  <1> QED  BY <1>1, <1>2, <1>3, <1>4, <1>5, <1>6, <1>7, <1>8, <1>9 DEF Next, VisitStep

(* A visit completes only with an answer that meets the contract, and      *)
(* fails only when the budget is used up without one.                      *)
THEOREM VerdictsAreJust == Spec => []VerdictIsJust
  <1>1. Init => VerdictInv
    BY DEF Init, VerdictInv, Met, Failure
  <1>2. VerdictInv => VerdictIsJust
    BY DEF VerdictInv, VerdictIsJust, Met
  <1> QED  BY InitHolds, StepHolds, <1>1, <1>2, VerdictStep, PTL DEF Spec
-----------------------------------------------------------------------------
(* What the violations at hand are: between two attempts those of the last *)
(* answer, if the last attempt gave one, and else, as long as the attempt  *)
(* lasts and after it, those its own prompt has told of.                   *)
FeedbackInv ==
    /\ pc = "next" /\ result.ok => violations # {} /\ violations = Violations(contract, result.output)
    /\ (pc = "next" /\ ~result.ok) \/ pc \in Suspended => violations = feedback

(* Every step keeps that: only an answer changes the violations, and only  *)
(* the head of the loop hands them to a prompt.                            *)
LEMMA FeedbackStep == IInv /\ FeedbackInv /\ [Next]_vars => FeedbackInv'
  <1> SUFFICES ASSUME IInv, FeedbackInv, [Next]_vars PROVE FeedbackInv'
    OBVIOUS
  <1>1. CASE StartAttempt
    <2>1. violations' = violations /\ feedback' = violations /\ contract' = contract
      BY <1>1 DEF StartAttempt, fixed
    <2>2. \/ pc' = "next" /\ result' = Failure
          \/ pc' \in Suspended
      BY <1>1 DEF StartAttempt, Begin, Suspended
    <2> QED  BY <2>1, <2>2 DEF FeedbackInv, Failure, Suspended
  <1>2. CASE GiveUp
    BY <1>2 DEF FeedbackInv, GiveUp, Suspended
  <1>3. ASSUME NEW answer \in Answers, Answered(answer) PROVE FeedbackInv'
    BY <1>3 DEF FeedbackInv, Answered, fixed, Suspended
  <1>4. CASE RespondedInError
    <2>1. pc \in Suspended
      BY <1>4 DEF RespondedInError, Responded, Suspended
    <2> QED  BY <1>4, <2>1 DEF FeedbackInv, RespondedInError, Failure, Suspended
  <1>5. CASE Timeout \/ WaitOver \/ CancelDelivered
    <2>1. pc \in Suspended /\ UNCHANGED <<violations, feedback>>
      BY <1>5 DEF Timeout, WaitOver, CancelDelivered, Suspended
    <2>2. \/ pc' = "next" /\ result' = Failure
          \/ pc' \in {"terminating", "killing", "cancelled"}
      BY <1>5 DEF Timeout, WaitOver, CancelDelivered, Terminate, CleanedUp
    <2> QED  BY <2>1, <2>2 DEF FeedbackInv, Failure, Suspended
  <1>6. CASE Connected \/ GraceOver \/ Cancel
    BY <1>6 DEF FeedbackInv, Connected, GraceOver, Cancel, fixed, loop, Suspended
  <1>7. CASE \E a \in Attempt : StartHelper(a) \/ AgentExits(a) \/ HelperExits(a)
                                \/ Reap(a) \/ Notice(a)
    BY <1>7 DEF FeedbackInv, StartHelper, AgentExits, HelperExits, Reap, Notice, Becomes,
                fixed, loop
  <1>8. CASE UNCHANGED vars
    BY <1>8 DEF FeedbackInv, vars, fixed, loop
  <1> QED  BY <1>1, <1>2, <1>3, <1>4, <1>5, <1>6, <1>7, <1>8 DEF Next, VisitStep

(* No step but the head of the loop begins an attempt.                     *)
LEMMA AttemptsBegin == [Next]_vars /\ attempts' # attempts => StartAttempt
  BY DEF Next, VisitStep, GiveUp, Connected, Answered, RespondedInError, Timeout, WaitOver,
         GraceOver, CancelDelivered, Cancel, StartHelper, AgentExits, HelperExits, Reap,
         Notice, Becomes, vars, loop

(* The prompt of an attempt tells of the last answer there was, and of     *)
(* nothing else: an attempt that timed out, crashed or was not started     *)
(* neither adds to the feedback nor takes it away.                         *)
THEOREM FeedbackTellsOfTheLastAnswer == Spec => FeedbackFollowsAnswers
  <1> DEFINE Follows == attempts' # attempts =>
                 /\ result.ok => feedback' # {} /\ feedback' = Violations(contract, result.output)
                 /\ ~result.ok => feedback' = feedback
  <1>1. Init => FeedbackInv
    BY DEF Init, FeedbackInv, Failure
  <1>2. FeedbackInv /\ [Next]_vars => [Follows]_vars
    BY AttemptsBegin DEF FeedbackInv, StartAttempt
  <1> QED  BY InitHolds, StepHolds, FeedbackStep, <1>1, <1>2, PTL DEF Spec, FeedbackFollowsAnswers
=============================================================================
