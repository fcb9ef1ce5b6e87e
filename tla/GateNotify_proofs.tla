--------------------------- MODULE GateNotify_proofs ---------------------------
(***************************************************************************)
(* The notifications of pending gates, for any number of parallel gates,   *)
(* invocations and deaths.                                                 *)
(***************************************************************************)
EXTENDS GateNotify, TLAPS

(* A host that never died has no notification of a decided gate, not even  *)
(* while it works; one command that installs the hook has written down     *)
(* each gate it left waiting so far.                                       *)
Notifying == flags.notify /\ (hosted \/ flags.choices = {})

NoticeInv ==
    /\ TypeOK
    /\ hosted /\ crashes = 0 => \A g \in notice : place[g] # "completed"
    /\ running /\ Notifying => Waiting \subseteq notice

(* The initial state satisfies the inductive invariant.                    *)
LEMMA InitNotices == Init => NoticeInv
  <1> SUFFICES ASSUME Init PROVE NoticeInv
    OBVIOUS
  <1>1. [choices |-> {}, notify |-> FALSE] \in Flags  BY DEF Flags
  <1>2. [g \in Gate |-> "undecided"] \in [Gate -> Place]  BY DEF Place, Resting
  <1> QED  BY <1>1, <1>2 DEF Init, NoticeInv, TypeOK

(* Every step of a gate moves that gate alone, and the notification with   *)
(* it.                                                                     *)
LEMMA NextNotices == ASSUME NoticeInv, [Next]_vars PROVE NoticeInv'
  <1> USE DEF NoticeInv, TypeOK, Notifying, Waiting, Place, Resting, Flags
  <1>1. ASSUME NEW given \in Flags, Invoke(given), UNCHANGED hosted PROVE NoticeInv'
    <2>1. \A g \in Gate : place'[g] = IF place[g] = "completed" THEN "completed" ELSE "spawned"
      BY <1>1 DEF Invoke
    <2>2. place' \in [Gate -> Place] /\ Waiting' = {}
      BY <1>1, <2>1 DEF Invoke
    <2> QED  BY <1>1, <2>1, <2>2 DEF Invoke
  <1>2. ASSUME NEW g \in Gate, Start(g), UNCHANGED hosted PROVE NoticeInv'
    BY <1>2 DEF Start, Moves
  <1>3. ASSUME NEW g \in Gate, Answer(g), UNCHANGED hosted PROVE NoticeInv'
    BY <1>3 DEF Answer, Moves
  <1>4. ASSUME NEW g \in Gate, Pend(g), UNCHANGED hosted PROVE NoticeInv'
    BY <1>4 DEF Pend, Moves
  <1>5. ASSUME NEW g \in Gate, OnGatePending(g), UNCHANGED hosted PROVE NoticeInv'
    BY <1>5 DEF OnGatePending, HookInstalled, Moves
  <1>6. ASSUME NEW g \in Gate, OnGateDecision(g), UNCHANGED hosted PROVE NoticeInv'
    BY <1>6 DEF OnGateDecision, HookInstalled, Moves
  <1>7. CASE Return /\ UNCHANGED hosted
    BY <1>7 DEF Return
  <1>8. CASE Dies /\ UNCHANGED hosted
    <2>1. place' \in [Gate -> Place]
      BY <1>8 DEF Dies
    <2>2. crashes' \in Nat /\ crashes' # 0 /\ running' = FALSE
      BY <1>8 DEF Dies
    <2>3. notice' \subseteq Gate /\ flags' \in Flags /\ hosted' \in BOOLEAN
      BY <1>8 DEF Dies
    <2> QED  BY <2>1, <2>2, <2>3
  <1>9. CASE UNCHANGED vars
    BY <1>9 DEF vars
  <1> QED  BY <1>1, <1>2, <1>3, <1>4, <1>5, <1>6, <1>7, <1>8, <1>9 DEF Next

(* The inductive invariant holds in every reachable state.                 *)
THEOREM NoticesAlways == Spec => []NoticeInv
  BY InitNotices, NextNotices, PTL DEF Spec

(* A host that did not die has no notification of a decided gate.          *)
THEOREM NoticesAreCurrent == Spec => []NoStaleNotice
  <1>1. NoticeInv => NoStaleNotice  BY DEF NoticeInv, NoStaleNotice
  <1> QED  BY NoticesAlways, <1>1, PTL

(* Whoever installs the hook and returns leaves a notification of every    *)
(* gate that waits, whatever died before.                                  *)
THEOREM WaitsAreNotified == Spec => EveryWaitNotified
  <1>1. ASSUME NoticeInv, [Next]_vars, running, ~running', crashes' = crashes, Notifying
        PROVE  Waiting \subseteq notice
    BY <1>1 DEF NoticeInv
  <1>2. NoticeInv /\ [Next]_vars =>
          [running /\ ~running' /\ crashes' = crashes /\ flags.notify
             /\ (hosted \/ flags.choices = {}) => Waiting \subseteq notice]_vars
    BY <1>1 DEF Notifying
  <1> QED  BY NoticesAlways, <1>2, PTL DEF Spec, EveryWaitNotified
=============================================================================
