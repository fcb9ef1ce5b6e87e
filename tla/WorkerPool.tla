------------------------------ MODULE WorkerPool ------------------------------
(***************************************************************************)
(* core/async_utils.py: synchronous functions (resolvers, memory clients)  *)
(* run on a fixed set of worker threads for coroutines that wait for them  *)
(* with a timeout.                                                         *)
(***************************************************************************)
EXTENDS Naturals, FiniteSets, Sequences

CONSTANTS
    Call,     \* the calls of run_sync_with_timeout
    Worker,   \* the threads of the pool
    None,     \* no call
    Hangs,    \* the calls whose function never returns
    Kills     \* the calls whose function raises what `except Exception` does
              \* not catch (SystemExit, a BaseException of a library)

ASSUME PoolAssumption ==
    /\ None \notin Call
    /\ Hangs \cup Kills \subseteq Call

VARIABLES
    started,    \* _started: the threads exist
    queue,      \* the work queue
    serves,     \* serves[w]: the call the thread works on, or None
    dead,       \* the threads that an exception ended
    ran,        \* the calls whose function has been entered
    future,     \* future[c]: "none" before submit, "pending", or its outcome
    inbox       \* the callbacks scheduled on the event loop, with outcomes

pool == <<started, queue, serves, dead, ran>>
vars == <<pool, future, inbox>>

Outcome == {"result", "error"}
Settled == Outcome \cup {"timeout"}

TypeOK ==
    /\ started \in BOOLEAN
    /\ queue \in Seq(Call)
    /\ serves \in [Worker -> Call \cup {None}]
    /\ dead \subseteq Worker
    /\ ran \subseteq Call
    /\ future \in [Call -> {"none", "pending"} \cup Settled]
    /\ inbox \in Seq(Call \X Outcome)

Init ==
    /\ started = FALSE
    /\ queue = <<>>
    /\ serves = [w \in Worker |-> None]
    /\ dead = {}
    /\ ran = {}
    /\ future = [c \in Call |-> "none"]
    /\ inbox = <<>>

-----------------------------------------------------------------------------
\* submit: the threads are started once, the call is queued with its future.
Submit(c) ==
    /\ future[c] = "none"
    /\ started' = TRUE
    /\ queue' = Append(queue, c)
    /\ future' = [future EXCEPT ![c] = "pending"]
    /\ UNCHANGED <<serves, dead, ran, inbox>>

\* mutant: a call that nobody waits for any more is dropped
TakeAwaited(w) ==
    /\ started /\ w \notin dead /\ serves[w] = None /\ queue # <<>>
    /\ IF future[Head(queue)] = "pending"
       THEN serves' = [serves EXCEPT ![w] = Head(queue)] /\ ran' = ran \cup {Head(queue)}
       ELSE UNCHANGED <<serves, ran>>
    /\ queue' = Tail(queue)
    /\ UNCHANGED <<started, dead, future, inbox>>
\* A thread takes the next call, whether or not anyone still waits for it.
Take(w) ==
    /\ started /\ w \notin dead /\ serves[w] = None /\ queue # <<>>
    /\ serves' = [serves EXCEPT ![w] = Head(queue)]
    /\ ran' = ran \cup {Head(queue)}
    /\ queue' = Tail(queue)
    /\ UNCHANGED <<started, dead, future, inbox>>

\* The function returns or raises; _deliver posts that to the event loop.
Finish(w, outcome) ==
    /\ serves[w] \in Call \ (Hangs \cup Kills)
    /\ inbox' = Append(inbox, <<serves[w], outcome>>)
    /\ serves' = [serves EXCEPT ![w] = None]
    /\ UNCHANGED <<started, queue, dead, ran, future>>

\* The function ends its thread; nothing is delivered.
ThreadDies(w) ==
    /\ serves[w] \in Kills
    /\ serves' = [serves EXCEPT ![w] = None]
    /\ dead' = dead \cup {w}
    /\ UNCHANGED <<started, queue, ran, future, inbox>>

\* mutant: the callback does not look at future.done()
DeliverAlways ==
    /\ inbox # <<>>
    /\ inbox' = Tail(inbox)
    /\ future' = [future EXCEPT ![Head(inbox)[1]] = Head(inbox)[2]]
    /\ UNCHANGED pool
\* The event loop runs a callback: it settles the future unless it is done.
Deliver ==
    /\ inbox # <<>>
    /\ inbox' = Tail(inbox)
    /\ LET call == Head(inbox)[1]
           outcome == Head(inbox)[2]
       IN  future' = IF future[call] = "pending"
                     THEN [future EXCEPT ![call] = outcome]
                     ELSE future
    /\ UNCHANGED pool

\* mutant: the time out starts when a thread takes the call
TimeoutOnceTaken(c) ==
    /\ future[c] = "pending" /\ c \in ran
    /\ future' = [future EXCEPT ![c] = "timeout"]
    /\ UNCHANGED <<pool, inbox>>
\* wait_for gives up, because the time is over or because the waiting task
\* is cancelled: it cancels the future, the call stays where it is.
Timeout(c) ==
    /\ future[c] = "pending"
    /\ future' = [future EXCEPT ![c] = "timeout"]
    /\ UNCHANGED <<pool, inbox>>

WorkerStep(w) == Take(w) \/ (\E outcome \in Outcome : Finish(w, outcome)) \/ ThreadDies(w)

Next ==
    \/ \E c \in Call : Submit(c) \/ Timeout(c)
    \/ \E w \in Worker : WorkerStep(w)
    \/ Deliver

Spec == Init /\ [][Next]_vars

(* The threads are scheduled, the event loop runs its callbacks and its    *)
(* timers; nobody has to call.                                             *)
FairSpec ==
    /\ Spec
    /\ \A w \in Worker : WF_vars(WorkerStep(w))
    /\ WF_vars(Deliver)
    /\ \A c \in Call : WF_vars(Timeout(c))

-----------------------------------------------------------------------------
(* Properties.                                                             *)

(* The outcome a caller saw is final: an answer that comes after the time  *)
(* out, or a time out after the answer, changes nothing.                   *)
OutcomeIsFinal ==
    [][\A c \in Call : future[c] \in Settled => future'[c] = future[c]]_vars

(* No call is lost or served twice.  From submit until a thread takes it a *)
(* call is in the queue, once, whether or not anyone still waits for it;   *)
(* after that it is never in the queue again, and it is with its thread or *)
(* on its way to the event loop as long as somebody waits for it, unless   *)
(* its function ended the thread.                                          *)
ServedOnce ==
    \A c \in Call :
        LET inQueue  == Cardinality({i \in DOMAIN queue : queue[i] = c})
            inThread == Cardinality({w \in Worker : serves[w] = c})
            inInbox  == Cardinality({i \in DOMAIN inbox : inbox[i][1] = c})
        IN  /\ inQueue = IF future[c] # "none" /\ c \notin ran THEN 1 ELSE 0
            /\ inThread + inInbox <= IF c \in ran THEN 1 ELSE 0
            /\ future[c] = "pending" /\ c \in ran \ Kills => inThread + inInbox = 1

(* Every caller goes on, whatever the functions of the pool do and even    *)
(* when all its threads hang.                                              *)
EveryCallReturns == \A c \in Call : (future[c] = "pending") ~> (future[c] \in Settled)

AllLost == \A w \in Worker : w \in dead \/ serves[w] \in Hangs

(* Every submitted call runs in the end, abandoned ones too, unless every  *)
(* thread has been ended by its function or hangs in it.                   *)
EveryCallRuns == \A c \in Call : (future[c] # "none") ~> (c \in ran \/ AllLost)
=============================================================================
