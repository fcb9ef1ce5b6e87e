--------------------------- MODULE WorkerPool_proofs ---------------------------
(***************************************************************************)
(* What a call of the pool can rely on, for any calls, any threads, and    *)
(* any of them that hang or end their thread.                              *)
(***************************************************************************)
EXTENDS WorkerPool, FiniteSetTheorems, TLAPS

(* Where a call can be: each place has it once at most, it is in the queue *)
(* from submit until it is taken, and then with a thread or on its way to  *)
(* the event loop while its future is open.                                *)
InQueue(c) == \E i \in DOMAIN queue : queue[i] = c
InThread(c) == \E w \in Worker : serves[w] = c
InInbox(c) == \E i \in DOMAIN inbox : inbox[i][1] = c

QueuedOnce == \A i, j \in DOMAIN queue : queue[i] = queue[j] => i = j
ServedApart == \A v, w \in Worker : serves[v] = serves[w] /\ serves[v] # None => v = w
PostedOnce == \A i, j \in DOMAIN inbox : inbox[i][1] = inbox[j][1] => i = j
OnePlace ==
    \A c \in Call :
        /\ InQueue(c) <=> future[c] # "none" /\ c \notin ran
        /\ c \in ran => future[c] # "none"
        /\ ~(InThread(c) /\ InInbox(c))
        /\ InThread(c) \/ InInbox(c) => c \in ran
        /\ future[c] = "pending" /\ c \in ran \ Kills => InThread(c) \/ InInbox(c)

PoolInv == TypeOK /\ QueuedOnce /\ ServedApart /\ PostedOnce /\ OnePlace

(* The initial state satisfies the inductive invariant.                    *)
LEMMA InitPool == Init => PoolInv
  <1> SUFFICES ASSUME Init PROVE PoolInv
    OBVIOUS
  <1>1. TypeOK
    <2>1. <<>> \in Seq(Call) /\ <<>> \in Seq(Call \X Outcome)  OBVIOUS
    <2>2. [w \in Worker |-> None] \in [Worker -> Call \cup {None}]
          /\ [c \in Call |-> "none"] \in [Call -> {"none", "pending"} \cup Settled]
      OBVIOUS
    <2> QED  BY <2>1, <2>2 DEF Init, TypeOK
  <1>2. QueuedOnce /\ ServedApart /\ PostedOnce
    BY DEF Init, QueuedOnce, ServedApart, PostedOnce
  <1>3. OnePlace
    BY PoolAssumption DEF Init, OnePlace, InQueue, InThread, InInbox
  <1> QED  BY <1>1, <1>2, <1>3 DEF PoolInv

(* Every step preserves the types.                                         *)
LEMMA NextTyped == ASSUME TypeOK, [Next]_vars PROVE TypeOK'
  <1> USE PoolAssumption DEF TypeOK, Settled, Outcome
  <1>1. ASSUME NEW c \in Call, Submit(c) PROVE TypeOK'
    BY <1>1 DEF Submit
  <1>2. ASSUME NEW w \in Worker, Take(w) PROVE TypeOK'
    BY <1>2 DEF Take
  <1>3. ASSUME NEW w \in Worker, NEW outcome \in Outcome, Finish(w, outcome) PROVE TypeOK'
    BY <1>3 DEF Finish
  <1>4. ASSUME NEW w \in Worker, ThreadDies(w) PROVE TypeOK'
    BY <1>4 DEF ThreadDies
  <1>5. CASE Deliver
    <2>1. Head(inbox) \in Call \X Outcome /\ inbox' \in Seq(Call \X Outcome)
      BY <1>5 DEF Deliver
    <2> QED  BY <1>5, <2>1 DEF Deliver, pool
  <1>6. ASSUME NEW c \in Call, Timeout(c) PROVE TypeOK'
    BY <1>6 DEF Timeout, pool
  <1>7. CASE UNCHANGED vars  BY <1>7 DEF vars, pool
  <1> QED  BY <1>1, <1>2, <1>3, <1>4, <1>5, <1>6, <1>7 DEF Next, WorkerStep

(* A call moves from the queue to a thread to the inbox and out, and       *)
(* nothing else moves with it.                                             *)
LEMMA NextPlaced == ASSUME PoolInv, [Next]_vars PROVE PoolInv'
  <1>0. TypeOK'  BY NextTyped DEF PoolInv
  <1> USE PoolAssumption
      DEF PoolInv, TypeOK, QueuedOnce, ServedApart, PostedOnce, OnePlace, InQueue, InThread, InInbox
  <1>1. ASSUME NEW c \in Call, Submit(c) PROVE PoolInv'
    <2>1. /\ Len(queue') = Len(queue) + 1 /\ Len(queue) \in Nat
          /\ DOMAIN queue = 1 .. Len(queue) /\ DOMAIN queue' = 1 .. (Len(queue) + 1)
          /\ \A i \in DOMAIN queue' : queue'[i] = IF i \in DOMAIN queue THEN queue[i] ELSE c
      BY <1>1 DEF Submit
    <2>2. QueuedOnce'
      <3>1. \A i \in DOMAIN queue : queue[i] # c
        BY <1>1 DEF Submit
      <3> QED  BY <2>1, <3>1
    <2>3. ASSUME NEW d \in Call PROVE InQueue(d)' <=> InQueue(d) \/ d = c
      BY <2>1
    <2>4. (ServedApart /\ PostedOnce)'
      BY <1>1 DEF Submit
    <2>5. OnePlace'
      BY <1>1, <2>3 DEF Submit
    <2> QED  BY <1>0, <2>2, <2>4, <2>5
  <1>2. ASSUME NEW w \in Worker, Take(w) PROVE PoolInv'
    <2> DEFINE call == Head(queue)
    <2>1. /\ Len(queue) \in Nat \ {0} /\ DOMAIN queue = 1 .. Len(queue) /\ call = queue[1]
          /\ DOMAIN queue' = 1 .. (Len(queue) - 1)
          /\ \A i \in DOMAIN queue' : queue'[i] = queue[i + 1]
      BY <1>2 DEF Take
    <2>2. call \in Call /\ InQueue(call)
      BY <2>1
    <2>3. \A i \in DOMAIN queue' : i + 1 \in DOMAIN queue /\ i + 1 # 1
      BY <2>1
    <2>4. QueuedOnce'
      BY <2>1, <2>3
    <2>5. ASSUME NEW d \in Call PROVE InQueue(d)' <=> InQueue(d) /\ d # call
      <3>1. InQueue(d)' => InQueue(d) /\ d # call  BY <2>1, <2>3
      <3>2. ASSUME InQueue(d), d # call PROVE InQueue(d)'
        <4>1. PICK i \in DOMAIN queue : queue[i] = d  BY <3>2
        <4>2. i - 1 \in DOMAIN queue' /\ queue'[i - 1] = d  BY <2>1, <3>2, <4>1
        <4> QED  BY <4>2
      <3> QED  BY <3>1, <3>2
    <2>6. ServedApart'
      BY <1>2, <2>2 DEF Take
    <2>7. ASSUME NEW d \in Call PROVE InThread(d)' <=> InThread(d) \/ d = call
      BY <1>2, <2>2 DEF Take
    <2>8. ASSUME NEW d \in Call PROVE InInbox(d)' = InInbox(d) /\ future'[d] = future[d]
      BY <1>2 DEF Take
    <2>9. PostedOnce' /\ ran' = ran \cup {call}
      BY <1>2 DEF Take
    <2>10. OnePlace'
      BY <2>2, <2>5, <2>7, <2>8, <2>9
    <2> QED  BY <1>0, <2>4, <2>6, <2>9, <2>10
  <1>3. ASSUME NEW w \in Worker, NEW outcome \in Outcome, Finish(w, outcome) PROVE PoolInv'
    <2> DEFINE call == serves[w]
    <2>1. call \in Call /\ InThread(call) /\ call # None
      BY <1>3 DEF Finish
    <2>2. /\ Len(inbox') = Len(inbox) + 1 /\ Len(inbox) \in Nat
          /\ DOMAIN inbox = 1 .. Len(inbox) /\ DOMAIN inbox' = 1 .. (Len(inbox) + 1)
          /\ \A i \in DOMAIN inbox' :
               inbox'[i] = IF i \in DOMAIN inbox THEN inbox[i] ELSE <<call, outcome>>
      BY <1>3 DEF Finish
    <2>3. PostedOnce'
      <3>1. \A i \in DOMAIN inbox : inbox[i][1] # call
        BY <2>1
      <3> QED  BY <2>2, <3>1
    <2>4. ASSUME NEW d \in Call PROVE InInbox(d)' <=> InInbox(d) \/ d = call
      BY <2>2
    <2>5. ASSUME NEW d \in Call PROVE InThread(d)' <=> InThread(d) /\ d # call
      BY <1>3, <2>1 DEF Finish
    <2>6. (QueuedOnce /\ ServedApart)'
      BY <1>3 DEF Finish
    <2>7. ASSUME NEW d \in Call PROVE InQueue(d)' = InQueue(d) /\ future'[d] = future[d]
      BY <1>3 DEF Finish
    <2>8. ran' = ran  BY <1>3 DEF Finish
    <2>9. OnePlace'
      BY <2>1, <2>4, <2>5, <2>7, <2>8
    <2> QED  BY <1>0, <2>3, <2>6, <2>9
  <1>4. ASSUME NEW w \in Worker, ThreadDies(w) PROVE PoolInv'
    <2>1. serves[w] \in Kills /\ serves[w] # None  BY <1>4 DEF ThreadDies
    <2>2. ASSUME NEW d \in Call PROVE InThread(d)' <=> InThread(d) /\ d # serves[w]
      BY <1>4, <2>1 DEF ThreadDies
    <2>3. (QueuedOnce /\ ServedApart /\ PostedOnce)'  BY <1>4 DEF ThreadDies
    <2>4. ASSUME NEW d \in Call
          PROVE  InQueue(d)' = InQueue(d) /\ InInbox(d)' = InInbox(d) /\ future'[d] = future[d]
      BY <1>4 DEF ThreadDies
    <2>5. ran' = ran  BY <1>4 DEF ThreadDies
    <2>6. OnePlace'  BY <2>1, <2>2, <2>4, <2>5
    <2> QED  BY <1>0, <2>3, <2>6
  <1>5. CASE Deliver
    <2> DEFINE call == Head(inbox)[1]
    <2>1. /\ Len(inbox) \in Nat \ {0} /\ DOMAIN inbox = 1 .. Len(inbox) /\ call = inbox[1][1]
          /\ DOMAIN inbox' = 1 .. (Len(inbox) - 1)
          /\ \A i \in DOMAIN inbox' : inbox'[i] = inbox[i + 1]
      BY <1>5 DEF Deliver
    <2>2. call \in Call /\ InInbox(call)
      BY <2>1
    <2>3. \A i \in DOMAIN inbox' : i + 1 \in DOMAIN inbox /\ i + 1 # 1
      BY <2>1
    <2>4. PostedOnce'
      BY <2>1, <2>3
    <2>5. ASSUME NEW d \in Call PROVE InInbox(d)' <=> InInbox(d) /\ d # call
      <3>1. InInbox(d)' => InInbox(d) /\ d # call  BY <2>1, <2>3
      <3>2. ASSUME InInbox(d), d # call PROVE InInbox(d)'
        <4>1. PICK i \in DOMAIN inbox : inbox[i][1] = d  BY <3>2
        <4>2. i - 1 \in DOMAIN inbox' /\ inbox'[i - 1][1] = d  BY <2>1, <3>2, <4>1
        <4> QED  BY <4>2
      <3> QED  BY <3>1, <3>2
    <2>6. (QueuedOnce /\ ServedApart)' /\ ran' = ran  BY <1>5 DEF Deliver, pool
    <2>7. ASSUME NEW d \in Call
          PROVE  /\ InQueue(d)' = InQueue(d) /\ InThread(d)' = InThread(d)
                 /\ (future'[d] = "none") = (future[d] = "none")
                 /\ future'[d] = "pending" => future[d] = "pending" /\ d # call
      <3>1. Head(inbox)[2] \in Outcome  BY <2>1
      <3> QED  BY <1>5, <3>1 DEF Deliver, pool, Outcome
    <2>8. OnePlace'  BY <2>2, <2>5, <2>6, <2>7
    <2> QED  BY <1>0, <2>4, <2>6, <2>8
  <1>6. ASSUME NEW c \in Call, Timeout(c) PROVE PoolInv'
    BY <1>0, <1>6 DEF Timeout, pool
  <1>7. CASE UNCHANGED vars  BY <1>7 DEF vars, pool
  <1> QED  BY <1>1, <1>2, <1>3, <1>4, <1>5, <1>6, <1>7 DEF Next, WorkerStep

(* The inductive invariant holds in every reachable state.                 *)
THEOREM PoolAlways == Spec => []PoolInv
  BY InitPool, NextPlaced, PTL DEF Spec

(* No call is lost before a thread takes it, none is served twice, and one *)
(* that is waited for is lost only with the thread its function ended.     *)
THEOREM CallsAreServedOnce == Spec => []ServedOnce
  <1>1. ASSUME PoolInv, NEW c \in Call
        PROVE  LET inQueue  == Cardinality({i \in DOMAIN queue : queue[i] = c})
                   inThread == Cardinality({w \in Worker : serves[w] = c})
                   inInbox  == Cardinality({i \in DOMAIN inbox : inbox[i][1] = c})
               IN  /\ inQueue = IF future[c] # "none" /\ c \notin ran THEN 1 ELSE 0
                   /\ inThread + inInbox <= IF c \in ran THEN 1 ELSE 0
                   /\ future[c] = "pending" /\ c \in ran \ Kills => inThread + inInbox = 1
    <2>1. Cardinality({i \in DOMAIN queue : queue[i] = c}) = IF InQueue(c) THEN 1 ELSE 0
      <3>1. CASE InQueue(c)
        <4>1. PICK i \in DOMAIN queue : queue[i] = c  BY <3>1 DEF InQueue
        <4>2. {j \in DOMAIN queue : queue[j] = c} = {i}
          BY <1>1, <4>1 DEF PoolInv, QueuedOnce
        <4> QED  BY <3>1, <4>2, FS_Singleton
      <3>2. CASE ~InQueue(c)
        <4>1. {j \in DOMAIN queue : queue[j] = c} = {}  BY <3>2 DEF InQueue
        <4> QED  BY <3>2, <4>1, FS_EmptySet
      <3> QED  BY <3>1, <3>2
    <2>2. Cardinality({w \in Worker : serves[w] = c}) = IF InThread(c) THEN 1 ELSE 0
      <3>1. CASE InThread(c)
        <4>1. PICK w \in Worker : serves[w] = c  BY <3>1 DEF InThread
        <4>2. {v \in Worker : serves[v] = c} = {w}
          BY <1>1, <4>1, PoolAssumption DEF PoolInv, ServedApart
        <4> QED  BY <3>1, <4>2, FS_Singleton
      <3>2. CASE ~InThread(c)
        <4>1. {v \in Worker : serves[v] = c} = {}  BY <3>2 DEF InThread
        <4> QED  BY <3>2, <4>1, FS_EmptySet
      <3> QED  BY <3>1, <3>2
    <2>3. Cardinality({i \in DOMAIN inbox : inbox[i][1] = c}) = IF InInbox(c) THEN 1 ELSE 0
      <3>1. CASE InInbox(c)
        <4>1. PICK i \in DOMAIN inbox : inbox[i][1] = c  BY <3>1 DEF InInbox
        <4>2. {j \in DOMAIN inbox : inbox[j][1] = c} = {i}
          BY <1>1, <4>1 DEF PoolInv, PostedOnce
        <4> QED  BY <3>1, <4>2, FS_Singleton
      <3>2. CASE ~InInbox(c)
        <4>1. {j \in DOMAIN inbox : inbox[j][1] = c} = {}  BY <3>2 DEF InInbox
        <4> QED  BY <3>2, <4>1, FS_EmptySet
      <3> QED  BY <3>1, <3>2
    <2> QED  BY <1>1, <2>1, <2>2, <2>3 DEF PoolInv, OnePlace
  <1>2. PoolInv => ServedOnce  BY <1>1 DEF ServedOnce
  <1> QED  BY PoolAlways, <1>2, PTL

(* A settled future stays as it is.                                        *)
THEOREM OutcomesAreFinal == Spec => OutcomeIsFinal
  <1>1. ASSUME TypeOK, [Next]_vars, NEW c \in Call, future[c] \in Settled
        PROVE  future'[c] = future[c]
    BY <1>1
       DEF TypeOK, Settled, Outcome, Next, WorkerStep, Submit, Take, Finish, ThreadDies, Deliver,
           Timeout, vars, pool
  <1>2. PoolInv /\ [Next]_vars =>
          [\A c \in Call : future[c] \in Settled => future'[c] = future[c]]_vars
    BY <1>1 DEF PoolInv
  <1> QED  BY PoolAlways, <1>2, PTL DEF Spec, OutcomeIsFinal
=============================================================================
