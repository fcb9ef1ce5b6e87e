----------------------------- MODULE AgentAttempt -----------------------------
(***************************************************************************)
(* One visit of an agent step, seen from inside: the attempt loop of       *)
(* StepRunner._run_step, the output contract, and the adapter: the shell   *)
(* adapter with the processes it starts, or the ACP adapter, which awaits  *)
(* a transport of the host.  StepRunner has this as the single place       *)
(* "exec" of a task; here it is everything that happens there.             *)
(*                                                                         *)
(* Every attempt of the shell adapter starts an agent, the leader of a     *)
(* process group of its own.  The agent may leave one helper in its group, *)
(* which may keep the pipes to the adapter open.                           *)
(***************************************************************************)
EXTENDS Naturals, FiniteSets

CONSTANTS
    Retry,       \* the retry budget of the step
    Contracts,   \* step.output: [format, schema], schema from fields to types
    Answers,     \* what an agent may answer, see Answer
    MaxCancels   \* bound: cancellations of the task (fail_fast, then the host)

Attempt == 1 .. (Retry + 1)

(* An answer is blank, prose, or JSON: an array, or an object with fields  *)
(* of the types given.  An agent of the shell prints text; a transport may *)
(* also return Python values, of which prose is one that is no JSON, an    *)
(* array a list and an object a dict, and it may set the parsed value of   *)
(* its result apart from the output.                                       *)
Unset == [kind |-> "unset", fields |-> <<>>]
Answer(a) == /\ a.kind \in {"blank", "prose", "array", "object"}
             /\ a.kind # "object" => a.fields = <<>>
             /\ a.text \in BOOLEAN /\ (a.kind = "blank" => a.text)
             /\ a.parsed = Unset \/ a.parsed.kind \in {"array", "object"}

ASSUME AttemptAssumption ==
    /\ Retry \in Nat /\ MaxCancels \in Nat
    /\ \A c \in Contracts : /\ c.format \in {"text", "markdown", "json"}
                            /\ c.format # "json" => c.schema = <<>>
    /\ \A a \in Answers : Answer(a)

VARIABLES
    adapter,     \* "shell" or "acp": fixed in a behaviour
    contract,    \* of the step: fixed
    stubborn,    \* which of "agent" and "helper" ignore SIGTERM: fixed
    hasGroups,   \* does the system have process groups (POSIX): fixed
    pc,          \* where the task is
    attempts,    \* attempts made, the current one included
    violations,  \* what the contract had to say of the last answer
    feedback,    \* the violations that the current prompt reports
    result,      \* the AgentResult of the last attempt
    proc,        \* proc[a]: the processes of attempt a
    group,       \* was SIGTERM sent to the group (else to the agent alone)?
    cause,       \* why the agent is terminated: "timeout", "cancel" or "none"
    cancelReq,   \* a cancellation waits for the task to resume
    cancels      \* the cancellations so far

fixed == <<adapter, contract, stubborn, hasGroups>>
loop == <<attempts, violations, feedback, result>>
cleanup == <<group, cause>>
vars == <<fixed, pc, loop, proc, cleanup, cancelReq, cancels>>

(* The task suspends in create_subprocess_exec (spawning), communicate     *)
(* (talking), the wait of two seconds (terminating), the last wait         *)
(* (killing), or the transport (calling); next is the head of the loop.    *)
Suspended == {"spawning", "talking", "terminating", "killing", "calling"}
Ends == {"completed", "failed", "cancelled"}

(* exited: a zombie; reaped: waited for by the thread of asyncio's child   *)
(* watcher (the pidfd watcher has no such state); noticed: returncode is   *)
(* set.                                                                    *)
AgentState == {"none", "running", "exited", "reaped", "noticed"}
HelperState == {"none", "holding", "silent", "gone"}
Helping(p) == p.helper \in {"holding", "silent"}

Field == UNION {DOMAIN c.schema : c \in Contracts}
Violation == {"not text", "empty", "not JSON", "not an object", "missing", "type"} \X (Field \cup {"-"})
NoAnswer == [kind |-> "blank", fields |-> <<>>, text |-> TRUE, parsed |-> Unset]
Failure == [ok |-> FALSE, output |-> NoAnswer]

TypeOK ==
    /\ adapter \in {"shell", "acp"}
    /\ contract \in Contracts
    /\ stubborn \subseteq {"agent", "helper"}
    /\ {hasGroups, group, cancelReq} \subseteq BOOLEAN
    /\ pc \in {"next"} \cup Suspended \cup Ends
    /\ attempts \in 0 .. (Retry + 1)
    /\ violations \subseteq Violation /\ feedback \subseteq Violation
    /\ result \in [ok : BOOLEAN, output : Answers \cup {NoAnswer}]
    /\ proc \in [Attempt -> [agent : AgentState, helper : HelperState]]
    /\ cause \in {"none", "timeout", "cancel"}
    /\ cancels \in 0 .. MaxCancels

Init ==
    /\ contract \in Contracts
    /\ \/ /\ adapter = "shell"
          /\ stubborn \in SUBSET {"agent", "helper"} /\ hasGroups \in BOOLEAN
       \/ adapter = "acp" /\ stubborn = {} /\ hasGroups = FALSE
    /\ pc = "next"
    /\ attempts = 0
    /\ violations = {} /\ feedback = {}
    /\ result = Failure
    /\ proc = [a \in Attempt |-> [agent |-> "none", helper |-> "none"]]
    /\ group = FALSE /\ cause = "none"
    /\ cancelReq = FALSE /\ cancels = 0

-----------------------------------------------------------------------------
(* StepOutputContract.validate, after _normalize_parsed.                   *)

Satisfies(type, wanted) ==
    type = wanted \/ (wanted = "number" /\ type = "integer")

\* What a JSON contract judges: the parsed value if there is one, else what
\* the output is.
Judged(answer) == IF answer.parsed = Unset THEN answer ELSE answer.parsed

\* mutant: a field that is missing is not reported
ViolationsOfPresent(c, answer) ==
    LET fields == Judged(answer).fields
    IN  IF c.format # "json" THEN {}
        ELSE {<<"type", f>> : f \in {g \in DOMAIN c.schema \cap DOMAIN fields :
                                       ~Satisfies(fields[g], c.schema[g])}}
Violations(c, answer) ==
    CASE c.format # "json" /\ ~answer.text -> {<<"not text", "-">>}
      [] c.format = "text" /\ answer.text -> {}
      [] c.format = "markdown" /\ answer.text ->
           IF answer.kind = "blank" THEN {<<"empty", "-">>} ELSE {}
      [] c.format = "json" ->
           LET value == Judged(answer)
               has   == DOMAIN value.fields
           IN  IF value.kind \in {"blank", "prose"} THEN {<<"not JSON", "-">>}
               ELSE IF value.kind = "array" THEN {<<"not an object", "-">>}
               ELSE {<<"missing", f>> : f \in DOMAIN c.schema \ has}
                    \cup {<<"type", f>> : f \in {g \in DOMAIN c.schema \cap has :
                                           ~Satisfies(value.fields[g], c.schema[g])}}

-----------------------------------------------------------------------------
(* The task.                                                               *)

Current == proc[attempts]

\* The adapter forks the agent, or raises (no command is configured, the
\* program does not start) and the attempt failed; or it calls the transport.
Begin ==
    \/ /\ adapter = "shell"
       /\ \/ /\ proc' = [proc EXCEPT ![attempts + 1].agent = "running"]
             /\ pc' = "spawning" /\ UNCHANGED result
          \/ result' = Failure /\ UNCHANGED <<pc, proc>>
    \/ adapter = "acp" /\ pc' = "calling" /\ UNCHANGED <<proc, result>>

\* The head of the loop: the prompt gets the violations, if there are any.
StartAttempt ==
    /\ pc = "next" /\ attempts <= Retry
    /\ attempts' = attempts + 1
    /\ feedback' = violations
    /\ Begin
    /\ cause' = "none" /\ group' = FALSE
    /\ UNCHANGED <<fixed, violations, cancelReq, cancels>>

\* The budget is used up; what decides is the last result.
GiveUp ==
    /\ pc = "next" /\ attempts > Retry
    /\ pc' = "failed"
    /\ UNCHANGED <<fixed, loop, proc, cleanup, cancelReq, cancels>>

\* The pipes of the agent are connected and communicate() is awaited.
Connected ==
    /\ pc = "spawning" /\ ~cancelReq
    /\ pc' = "talking"
    /\ UNCHANGED <<fixed, loop, proc, cleanup, cancelReq, cancels>>

\* communicate() is done when the agent has exited and nobody holds its
\* pipes; the transport is done at any time, and when it is cancelled.
Responded ==
    \/ pc = "talking" /\ Current.agent = "noticed" /\ Current.helper # "holding"
    \/ pc = "calling"

\* Up to Python 3.11 a wait_for that is done when it is cancelled returns,
\* and the cancellation is lost.
Answered(answer) ==
    /\ Responded /\ (pc = "talking" => answer.text /\ answer.parsed = Unset)
    /\ result' = [ok |-> TRUE, output |-> answer]
    /\ violations' = Violations(contract, answer)
    /\ pc' = IF violations' = {} THEN "completed" ELSE "next"
    /\ cancelReq' = FALSE
    /\ UNCHANGED <<fixed, attempts, feedback, proc, cleanup, cancels>>

RespondedBlankly ==    \* mutant: a failed attempt takes the violations away
    /\ Responded
    /\ result' = Failure /\ violations' = {}
    /\ pc' = "next"
    /\ cancelReq' = FALSE
    /\ UNCHANGED <<fixed, attempts, feedback, proc, cleanup, cancels>>
\* The agent exited with another code than zero; the transport returned a
\* failure or raised.
RespondedInError ==
    /\ Responded
    /\ result' = Failure
    /\ pc' = "next"
    /\ cancelReq' = FALSE
    /\ UNCHANGED <<fixed, attempts, violations, feedback, proc, cleanup, cancels>>

\* A signal to the processes `whom` of the current attempt.
Hit(whom) ==
    [proc EXCEPT ![attempts] =
       [agent  |-> IF "agent" \in whom /\ @.agent = "running" THEN "exited" ELSE @.agent,
        helper |-> IF "helper" \in whom /\ Helping(@) THEN "gone" ELSE @.helper]]
Reached(viaGroup) == IF viaGroup THEN {"agent", "helper"} ELSE {"agent"}

\* What follows the clean-up: the time out is a failed attempt, the
\* cancellation goes on.
CleanedUp(why) ==
    IF why = "timeout"
    THEN result' = Failure /\ pc' = "next"
    ELSE pc' = "cancelled" /\ UNCHANGED result

\* _terminate up to its first await: nothing if returncode is set; SIGTERM to
\* the group of the agent, or to the agent where it has none to be found.
Terminate(why) ==
    /\ cause' = why
    /\ IF Current.agent = "noticed"
       THEN CleanedUp(why) /\ UNCHANGED <<proc, group>>
       ELSE /\ group' = (hasGroups /\ Current.agent # "reaped")
            /\ proc' = Hit(Reached(group') \ stubborn)
            /\ pc' = "terminating"
            /\ UNCHANGED result

\* mutant: the time out does not end the agent
TimeoutOnly ==
    /\ pc = "talking" /\ ~cancelReq
    /\ result' = Failure /\ pc' = "next"
    /\ UNCHANGED <<fixed, attempts, violations, feedback, proc, cleanup, cancelReq, cancels>>
Timeout ==
    /\ ~cancelReq
    /\ \/ pc = "talking" /\ Terminate("timeout")
       \/ pc = "calling" /\ CleanedUp("timeout") /\ UNCHANGED <<proc, cleanup>>
    /\ UNCHANGED <<fixed, attempts, violations, feedback, cancelReq, cancels>>

\* The agent is gone within the two seconds, or after SIGKILL.
WaitOver ==
    /\ pc \in {"terminating", "killing"} /\ Current.agent = "noticed"
    /\ cancelReq => pc = "terminating"
    /\ CleanedUp(cause)
    /\ cancelReq' = FALSE
    /\ UNCHANGED <<fixed, attempts, violations, feedback, proc, cleanup, cancels>>

GraceOverTerm ==    \* mutant: SIGTERM once more
    /\ pc = "terminating" /\ Current.agent # "noticed" /\ ~cancelReq
    /\ proc' = Hit(Reached(group) \ stubborn)
    /\ pc' = "killing"
    /\ UNCHANGED <<fixed, loop, cleanup, cancelReq, cancels>>
\* The two seconds are over: SIGKILL.
GraceOver ==
    /\ pc = "terminating" /\ Current.agent # "noticed" /\ ~cancelReq
    /\ proc' = Hit(Reached(group))
    /\ pc' = "killing"
    /\ UNCHANGED <<fixed, loop, cleanup, cancelReq, cancels>>

\* CancelledError is raised where the task is suspended.  While the agent is
\* spawned asyncio kills it; from communicate() on it is terminated like on a
\* time out; inside that clean-up, and around the transport, nothing
\* catches it.
CancelDelivered ==
    /\ cancelReq /\ cancelReq' = FALSE
    /\ \/ /\ pc = "spawning"
          /\ proc' = Hit({"agent"})
          /\ cause' = "cancel" /\ pc' = "killing"
          /\ UNCHANGED <<group, result>>
       \/ pc = "talking" /\ Terminate("cancel")
       \/ /\ pc \in {"terminating", "killing", "calling"}
          /\ pc' = "cancelled"
          /\ UNCHANGED <<proc, cleanup, result>>
    /\ UNCHANGED <<fixed, attempts, violations, feedback, cancels>>

VisitStep ==
    \/ StartAttempt \/ GiveUp \/ Connected
    \/ (\E answer \in Answers : Answered(answer)) \/ RespondedInError
    \/ Timeout \/ WaitOver \/ GraceOver \/ CancelDelivered

-----------------------------------------------------------------------------
(* Around the task.                                                        *)

\* fail_fast cancels the task, or the host the driver that gathers it.
Cancel ==
    /\ pc \in Suspended /\ cancels < MaxCancels
    /\ cancelReq' = TRUE /\ cancels' = cancels + 1
    /\ UNCHANGED <<fixed, pc, loop, proc, cleanup>>

Becomes(p) == proc' = p /\ UNCHANGED <<fixed, pc, loop, cleanup, cancelReq, cancels>>

StartHelper(a) ==
    /\ proc[a].agent = "running" /\ proc[a].helper = "none"
    /\ \E h \in {"holding", "silent"} : Becomes([proc EXCEPT ![a].helper = h])
AgentExits(a) == proc[a].agent = "running" /\ Becomes([proc EXCEPT ![a].agent = "exited"])
HelperExits(a) == Helping(proc[a]) /\ Becomes([proc EXCEPT ![a].helper = "gone"])

\* asyncio's child watcher: its thread waits for the agent, and the event
\* loop runs the callback that sets returncode.
Reap(a) == proc[a].agent = "exited" /\ Becomes([proc EXCEPT ![a].agent = "reaped"])
Notice(a) ==
    /\ proc[a].agent \in {"exited", "reaped"}
    /\ Becomes([proc EXCEPT ![a].agent = "noticed"])

Next ==
    \/ VisitStep \/ Cancel
    \/ \E a \in Attempt : \/ StartHelper(a) \/ AgentExits(a) \/ HelperExits(a)
                          \/ Reap(a) \/ Notice(a)

Spec == Init /\ [][Next]_vars

(* The event loop runs the task, its timers and the callbacks of the child *)
(* watcher.  No agent has to exit by itself.                               *)
FairSpec ==
    /\ Spec
    /\ WF_vars(VisitStep)
    /\ \A a \in Attempt : WF_vars(Notice(a))

-----------------------------------------------------------------------------
(* Properties.                                                             *)

(* An agent works only as long as its attempt lasts: no attempt starts     *)
(* beside the agent of an earlier one, and no agent outlives the visit,    *)
(* however it ended, except where a cancellation struck the clean-up       *)
(* itself, before its SIGKILL, of an agent that ignores SIGTERM.           *)
NoAgentLeft ==
    \A a \in Attempt :
        proc[a].agent = "running" /\ (a < attempts \/ pc \in Ends) =>
            /\ a = attempts /\ pc = "cancelled" /\ "agent" \in stubborn
            /\ cause = "timeout" \/ cancels > 1

(* What an answer has to be, said of the answer.                           *)
Meets(c, answer) ==
    /\ c.format # "json" => answer.text
    /\ c.format = "markdown" => answer.kind # "blank"
    /\ c.format = "json" =>
         /\ Judged(answer).kind = "object"
         /\ \A f \in DOMAIN c.schema : f \in DOMAIN Judged(answer).fields
                                       /\ Satisfies(Judged(answer).fields[f], c.schema[f])

(* A visit completes only with an answer of its last attempt that meets    *)
(* the contract, and it fails only when every attempt of the budget was    *)
(* made and the last one gave no such answer, whatever time outs and lost  *)
(* cancellations came before.                                              *)
VerdictIsJust ==
    LET met == result.ok /\ Meets(contract, result.output)
    IN  /\ pc = "completed" => met
        /\ pc = "failed" => ~met /\ attempts = Retry + 1

(* The prompt of an attempt tells the agent about the last answer there    *)
(* was: it changes after an answer, to the violations of exactly that one, *)
(* and an attempt that gave none leaves it as it was.                      *)
FeedbackFollowsAnswers ==
    [][attempts' # attempts =>
         /\ result.ok => feedback' # {} /\ feedback' = Violations(contract, result.output)
         /\ ~result.ok => feedback' = feedback]_vars

(* Every visit ends: an agent that never exits, ignores SIGTERM, or leaves *)
(* a helper that holds the pipes does not keep the step running.           *)
VisitEnds == <>(pc \in Ends)
=============================================================================
