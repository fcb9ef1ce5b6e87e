---------------------------- MODULE Stores_proofs ----------------------------
(***************************************************************************)
(* The two stores that outlive a process.  The JSON store implements       *)
(* SharedStore, for any number of runs, processes, writes and deaths,      *)
(* whichever writes fail or keep the signature of the file.  The roll back *)
(* of the TaskFlow store is exact, for any number of runs and calls and    *)
(* whenever the client may raise.                                          *)
(***************************************************************************)
EXTENDS JsonStore, TaskFlowStore, TLAPS

(* The signature of the file is the number of one of its writes and no     *)
(* process has cached one from the future; only a writer is between two    *)
(* stages, and what it is about to put in place is one change away from    *)
(* the file unless it went astray.                                         *)
Signatures == sig <= writes /\ \A p \in Process : seen[p] <= sig

WriterStage ==
    /\ writer = None <=> stage = "free"
    /\ writer # None => up[writer] = "up"
    /\ stage = "applied" /\ writer \notin astray =>
           \E w \in Run : mem[writer] \in Changes(disk, w)
    /\ stage = "replaced" => mem[writer] = disk

StoreInv == TypeOK /\ Signatures /\ WriterStage /\ CacheCurrent

(* With the invariant, a load under the file lock yields the file, or      *)
(* leaves the process astray.                                              *)
LEMMA LoadedIsFile ==
    ASSUME CacheCurrent, writer = None, NEW p \in Process, up[p] = "up", Back(p), p \notin astray'
    PROVE  Loaded(p) = disk
  BY StoreAssumption DEF CacheCurrent, Loaded, Keeps, Back

(* The initial state satisfies the invariant.                              *)
LEMMA InitStore == Init => StoreInv
  BY StoreAssumption DEF Init, StoreInv, TypeOK, Signatures, WriterStage, CacheCurrent, Keeps

(* Putting the file in place: who still caches the old signature goes      *)
(* astray if the new file has it too.                                      *)
LEMMA ReplaceKeeps ==
    ASSUME StoreInv, NEW p \in Process, Replace(p)
    PROVE  StoreInv'
  <1> USE StoreAssumption DEF StoreInv, file
  <1>1. TypeOK'  BY DEF TypeOK, Replace
  <1>2. sig <= sig' /\ sig' <= writes' /\ sig' \in Nat
    BY DEF Replace, TypeOK, Signatures
  <1>3. Signatures'  BY <1>2 DEF Signatures, Replace, TypeOK
  <1>4. WriterStage'  BY DEF WriterStage, Replace, TypeOK
  <1>5. CacheCurrent'
    <2> SUFFICES ASSUME NEW q \in Process, q \notin astray', up[q] = "up", q # p,
                        sig' = seen[q]
                 PROVE  FALSE
      BY DEF CacheCurrent, Keeps, Replace
    <2>1. seen[q] <= sig /\ sig <= writes /\ seen[q] \in Nat /\ sig \in Nat /\ writes \in Nat
      BY DEF Signatures, TypeOK
    <2>2. sig' = sig  BY <2>1 DEF Replace
    <2> QED  BY <2>2 DEF Replace
  <1> QED  BY <1>1, <1>3, <1>4, <1>5

(* Every step preserves the invariant.                                     *)
LEMMA NextStore ==
    ASSUME StoreInv, [Next]_vars
    PROVE  StoreInv'
  <1> USE StoreAssumption
          DEF StoreInv, TypeOK, Signatures, WriterStage, CacheCurrent, Keeps, file
  <1>1. ASSUME NEW p \in Process, ProcessStep(p) PROVE StoreInv'
    <2>1. CASE StatFile(p)  BY <2>1 DEF StatFile
    <2>2. CASE ReadFile(p)  BY <2>2 DEF ReadFile
    <2>3. CASE Read(p)  BY <2>3 DEF Read, Loaded, Back
    <2>4. ASSUME NEW w \in Run, Mutate(p, w) PROVE StoreInv'
      <3>1. p \notin astray' => Loaded(p) = disk  BY <2>4, LoadedIsFile DEF Mutate
      <3>2. Loaded(p) \in SUBSET Run  BY DEF Loaded
      <3> QED  BY <2>4, <3>1, <3>2 DEF Mutate, Changes, Back
    <2>5. CASE MutateNothing(p)  BY <2>5 DEF MutateNothing, Loaded, Back
    <2>6. CASE Replace(p)  BY <2>6, ReplaceKeeps
    <2>7. CASE Signed(p)  BY <2>7 DEF Signed
    <2>8. CASE PersistFails(p)  BY <2>8 DEF PersistFails
    <2>9. CASE Dies(p)  BY <2>9 DEF Dies
    <2> QED  BY <1>1, <2>1, <2>2, <2>3, <2>4, <2>5, <2>6, <2>7, <2>8, <2>9 DEF ProcessStep
  <1>2. CASE UNCHANGED vars  BY <1>2 DEF vars
  <1> QED  BY <1>1, <1>2 DEF Next

(* A step of the store is a step of the shared contents or leaves them,    *)
(* every answer and the processes astray as they are.                      *)
LEMMA StepIsShared ==
    ASSUME StoreInv, [Next]_vars
    PROVE  [Shared!Next]_<<disk, answer, astray>>
  <1> USE StoreAssumption DEF StoreInv, TypeOK, file
  <1>1. ASSUME NEW p \in Process, ProcessStep(p) PROVE [Shared!Next]_<<disk, answer, astray>>
    <2>1. CASE Read(p)
      <3>1. p \notin astray' => Loaded(p) = disk  BY <2>1, LoadedIsFile DEF Read
      <3>2. Loaded(p) \in SUBSET Run  BY DEF Loaded
      <3>3. Shared!Read(p)  BY <2>1, <3>1, <3>2 DEF Read, Back, Shared!Read
      <3> QED  BY <3>3 DEF Shared!Next
    <2>2. CASE Replace(p)
      <3>1. Shared!Written(p) /\ UNCHANGED answer /\ disk' = mem[p]
        BY <2>2 DEF Replace, Shared!Written
      <3>2. CASE p \in astray
        <4>1. Shared!Overwrite(p)  BY <3>1, <3>2 DEF Shared!Overwrite
        <4> QED  BY <4>1 DEF Shared!Next
      <3>3. CASE p \notin astray
        <4>1. PICK w \in Run : mem[p] \in Changes(disk, w)
          BY <2>2, <3>3 DEF Replace, WriterStage
        <4>2. Shared!Change(p, w)  BY <3>1, <3>3, <4>1 DEF Changes, Shared!Change
        <4> QED  BY <4>2 DEF Shared!Next
      <3> QED  BY <3>2, <3>3
    <2>3. CASE Dies(p) \/ PersistFails(p) \/ MutateNothing(p) \/ \E w \in Run : Mutate(p, w)
      <3>1. Shared!Strays(p)
        BY <2>3 DEF Dies, PersistFails, MutateNothing, Mutate, Back, Shared!Strays
      <3> QED  BY <3>1 DEF Shared!Next
    <2>4. CASE StatFile(p) \/ ReadFile(p) \/ Signed(p)
      BY <2>4 DEF StatFile, ReadFile, Signed
    <2> QED  BY <1>1, <2>1, <2>2, <2>3, <2>4 DEF ProcessStep
  <1>2. CASE UNCHANGED vars  BY <1>2 DEF vars
  <1> QED  BY <1>1, <1>2 DEF Next

(* The inductive invariant holds in every reachable state.                 *)
THEOREM StoreAlways == Spec => []StoreInv
  BY InitStore, NextStore, PTL DEF Spec

(* The caches are current: a process that skips the load misses nothing,   *)
(* but for one that went astray.                                           *)
THEOREM CachesAreCurrent == Spec => []CacheCurrent
  BY StoreAlways, PTL DEF StoreInv

(* The JSON store implements the shared store: reads and writes of the     *)
(* processes that are not astray take effect one at a time on one contents *)
(* and only failed writes and reused signatures lead astray.               *)
THEOREM StoreIsShared == Spec => ImplementsSharedStore
  <1>1. Init => Shared!Init  BY DEF Init, Shared!Init
  <1> QED  BY <1>1, StoreAlways, StepIsShared, PTL DEF Spec, ImplementsSharedStore, Shared!Spec

-----------------------------------------------------------------------------
(* The TaskFlow store.                                                     *)

(* Only a client that keeps references shares a context with the store.    *)
TFInv ==
    /\ TFTypeOK
    /\ shared # {} => KeepsReference
    /\ ReadersSeeConfirmed
    /\ RestartFindsConfirmed

(* The empty store satisfies the invariant.                                *)
LEMMA InitTaskFlow == TFInit => TFInv
  BY ClientAssumption
     DEF TFInit, TFInv, TFTypeOK, Record, Missing, ReadersSeeConfirmed, RestartFindsConfirmed

(* A call that returns leaves memory, client and confirmation the same.    *)
LEMMA ConfirmsKeeps ==
    ASSUME TFInv, NEW r \in RunId, NEW record \in Record, Confirms(r, record), calls' \in Nat
    PROVE  TFInv'
  BY ClientAssumption
     DEF TFInv, TFTypeOK, Confirms, Record, Missing, ReadersSeeConfirmed, RestartFindsConfirmed

(* A call that raises puts back what was confirmed, and leaves the client  *)
(* with it, in doubt, or with another context of the same run.             *)
LEMMA RefusesKeeps ==
    ASSUME TFInv, NEW r \in RunId, NEW when, NEW left \in Record, calls' \in Nat,
           Refuses(r, when, left, runs[r]),
           \/ when = "after"
           \/ when = "before" /\ (left = saved[r] \/ (KeepsReference /\ left.rest = saved[r].rest))
    PROVE  TFInv'
  <1> USE ClientAssumption DEF TFInv, Refuses, ReadersSeeConfirmed
  <1>1. TFTypeOK' /\ ReadersSeeConfirmed' /\ (shared' # {} => KeepsReference)
    BY DEF TFTypeOK
  <1>2. RestartFindsConfirmed'
    <2> SUFFICES ASSUME NEW q \in RunId
                 PROVE  \/ saved'[q] = confirmed'[q]
                        \/ "after" \in doubt'[q]
                        \/ KeepsReference /\ "before" \in doubt'[q]
                             /\ saved'[q].rest = confirmed'[q].rest
      BY DEF RestartFindsConfirmed
    <2>1. CASE q # r  BY <2>1 DEF TFTypeOK, RestartFindsConfirmed
    <2>2. CASE q = r /\ when = "after"  BY <2>2 DEF TFTypeOK
    <2>3. CASE q = r /\ when = "before"  BY <2>3 DEF TFTypeOK, Record, RestartFindsConfirmed
    <2> QED  BY <2>1, <2>2, <2>3
  <1> QED  BY <1>1, <1>2

(* A change of a run, whether the client takes it, refuses it or both.     *)
LEMMA MutateKeeps ==
    ASSUME TFInv, NEW r \in RunId, NEW record \in Record, MutateAndSave(r, record)
    PROVE  TFInv'
  <1>1. calls' \in Nat  BY DEF MutateAndSave, Counted, TFInv, TFTypeOK
  <1>2. saved[r] \in Record /\ runs[r] \in Record  BY DEF TFInv, TFTypeOK
  <1>3. InPlace(r, record) \in Record /\ InPlace(r, record).rest = saved[r].rest
    BY <1>2 DEF InPlace, Record
  <1>4. r \notin shared => InPlace(r, record) = saved[r]  BY DEF InPlace
  <1>5. CASE Confirms(r, record)  BY <1>1, <1>5, ConfirmsKeeps
  <1>6. CASE Refuses(r, "before", InPlace(r, record), runs[r])
    BY <1>1, <1>3, <1>4, <1>6, RefusesKeeps DEF TFInv
  <1>7. CASE Refuses(r, "after", record, runs[r])  BY <1>1, <1>7, RefusesKeeps
  <1> QED  BY <1>5, <1>6, <1>7 DEF MutateAndSave

(* Every operation preserves the invariant.                                *)
LEMMA NextTaskFlow == ASSUME TFInv, [TFNext]_tfVars PROVE TFInv'
  <1> USE ClientAssumption
  <1>0. calls \in Nat /\ Missing \in Record /\ \A r \in RunId : runs[r] \in Record
    BY DEF TFInv, TFTypeOK, Record, Missing
  <1>1. ASSUME NEW r \in RunId, CreateRun(r) PROVE TFInv'
    <2> DEFINE record == [rest |-> calls + 1, context |-> 0]
    <2>1. record \in Record /\ calls' \in Nat  BY <1>0, <1>1 DEF Record, CreateRun, Counted
    <2>2. runs[r] = Missing /\ saved[r] = Missing  BY <1>1 DEF CreateRun
    <2>3. CASE Confirms(r, record)  BY <2>1, <2>3, ConfirmsKeeps
    <2>4. CASE Refuses(r, "before", Missing, Missing)  BY <1>0, <2>1, <2>2, <2>4, RefusesKeeps
    <2>5. CASE Refuses(r, "after", record, Missing)  BY <2>1, <2>2, <2>5, RefusesKeeps
    <2> QED  BY <1>1, <2>3, <2>4, <2>5 DEF CreateRun
  <1>2. ASSUME NEW r \in RunId, ChangeRest(r) PROVE TFInv'
    <2>1. [runs[r] EXCEPT !.rest = calls + 1] \in Record  BY <1>0 DEF Record
    <2> QED  BY <1>2, <2>1, MutateKeeps DEF ChangeRest
  <1>3. ASSUME NEW r \in RunId, SetContext(r) PROVE TFInv'
    <2>1. [runs[r] EXCEPT !.context = calls + 1] \in Record  BY <1>0 DEF Record
    <2> QED  BY <1>3, <2>1, MutateKeeps DEF SetContext
  <1>4. ASSUME NEW r \in RunId, OperationRaises(r) PROVE TFInv'
    BY <1>4 DEF OperationRaises, TFInv, TFTypeOK, ReadersSeeConfirmed, RestartFindsConfirmed
  <1>5. ASSUME NEW r \in RunId, DeleteRun(r) PROVE TFInv'
    <2>1. calls' \in Nat  BY <1>0, <1>5 DEF DeleteRun
    <2>2. CASE Confirms(r, Missing)  BY <1>0, <2>1, <2>2, ConfirmsKeeps
    <2>3. CASE /\ doubt' = [doubt EXCEPT ![r] = @ \cup {"before"}]
               /\ UNCHANGED <<store, confirmed>>
      BY <2>1, <2>3
         DEF store, TFInv, TFTypeOK, ReadersSeeConfirmed, RestartFindsConfirmed
    <2>4. CASE Refuses(r, "after", Missing, runs[r])  BY <1>0, <2>1, <2>4, RefusesKeeps
    <2> QED  BY <1>5, <2>2, <2>3, <2>4 DEF DeleteRun
  <1>6. ASSUME Reopen PROVE TFInv'
    BY <1>6 DEF Reopen, TFInv, TFTypeOK, ReadersSeeConfirmed, RestartFindsConfirmed
  <1>7. CASE UNCHANGED tfVars
    BY <1>7 DEF tfVars, store, TFInv, TFTypeOK, ReadersSeeConfirmed, RestartFindsConfirmed
  <1> QED  BY <1>1, <1>2, <1>3, <1>4, <1>5, <1>6, <1>7 DEF TFNext

(* The inductive invariant holds in every reachable state.                 *)
THEOREM TaskFlowAlways == TFSpec => []TFInv
  BY InitTaskFlow, NextTaskFlow, PTL DEF TFSpec

(* Readers see the confirmed operations and no others, whatever the client *)
(* does.                                                                   *)
THEOREM RollBackIsExact == TFSpec => []ReadersSeeConfirmed
  BY TaskFlowAlways, PTL DEF TFInv

(* A restart brings back the confirmed operations, but for what the client *)
(* took and refused, or keeps by reference.                                *)
THEOREM RestartIsBounded == TFSpec => []RestartFindsConfirmed
  BY TaskFlowAlways, PTL DEF TFInv
=============================================================================
