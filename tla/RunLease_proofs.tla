--------------------------- MODULE RunLease_proofs ---------------------------
(***************************************************************************)
(* What the guard _active_runs of a process and the lock on a file         *)
(* guarantee, for any number of drivers, processes and crashes.            *)
(***************************************************************************)
EXTENDS RunLease, TLAPS

(* A driver inside run_lease has marked the guard of its process, and no   *)
(* other driver of that process is inside.                                 *)
GuardMarked == \A r \in Driver : pc[r] \in Guarded => Proc[r] \in active

LeaseInv == TypeOK /\ GuardMarked /\ ExclusiveInProcess

(* The initial state satisfies the inductive invariant.                    *)
LEMMA InitLease == Init => LeaseInv
  BY LeaseAssumption
     DEF Init, LeaseInv, TypeOK, GuardMarked, ExclusiveInProcess, Place, Guarded, FlowEnd

(* Every step of a driver and every crash preserves the types.             *)
LEMMA NextTyped == ASSUME TypeOK, [Next]_vars PROVE TypeOK'
  <1> USE LeaseAssumption DEF TypeOK, Place, Guarded, FlowEnd, Moves, lock
  <1>1. ASSUME NEW r \in Driver, DriverStep(r) PROVE TypeOK'
    <2>1. CASE StartFresh(r)  BY <2>1 DEF StartFresh
    <2>2. CASE CheckStatus(r)  BY <2>2 DEF CheckStatus
    <2>3. CASE MarkRunning(r)  BY <2>3 DEF MarkRunning
    <2>4. CASE EnterGuard(r)  BY <2>4 DEF EnterGuard
    <2>5. CASE OpenLockFile(r)  BY <2>5 DEF OpenLockFile
    <2>6. CASE Lock(r)  BY <2>6 DEF Lock
    <2>6a. CASE OpenFails(r)  BY <2>6a DEF OpenFails
    <2>7. CASE EndDrive(r)  BY <2>7 DEF EndDrive
    <2>8. CASE Unlock(r)  BY <2>8 DEF Unlock
    <2>9. CASE Close(r)  BY <2>9 DEF Close
    <2>10. CASE Unlink(r)  BY <2>10 DEF Unlink
    <2>11. CASE Discard(r)  BY <2>11 DEF Discard
    <2> QED  BY <1>1, <2>1, <2>2, <2>3, <2>4, <2>5, <2>6, <2>6a, <2>7, <2>8, <2>9, <2>10, <2>11
             DEF DriverStep
  <1>2. ASSUME NEW p \in Process, ProcessDies(p) PROVE TypeOK'
    BY <1>2 DEF ProcessDies
  <1>3. CASE UNCHANGED vars  BY <1>3 DEF vars
  <1> QED  BY <1>1, <1>2, <1>3 DEF Next

(* Drivers enter the guard of a process one at a time, only its own driver *)
(* clears the mark, and a crash clears it together with every driver that  *)
(* was inside.                                                             *)
LEMMA NextLease == ASSUME LeaseInv, [Next]_vars PROVE LeaseInv'
  <1> USE LeaseAssumption DEF LeaseInv, GuardMarked, ExclusiveInProcess
  <1>0. TypeOK'  BY NextTyped
  <1> USE DEF TypeOK
  <1>1. ASSUME NEW r \in Driver, DriverStep(r) PROVE (GuardMarked /\ ExclusiveInProcess)'
    <2> USE DEF Moves, Guarded, lock
    <2>1. CASE StartFresh(r)  BY <2>1 DEF StartFresh
    <2>2. CASE CheckStatus(r)  BY <2>2 DEF CheckStatus
    <2>3. CASE MarkRunning(r)  BY <2>3 DEF MarkRunning
    <2>4. CASE EnterGuard(r)  BY <2>4 DEF EnterGuard
    <2>5. CASE OpenLockFile(r)  BY <2>5 DEF OpenLockFile
    <2>6. CASE Lock(r)  BY <2>6 DEF Lock
    <2>6a. CASE OpenFails(r)  BY <2>6a DEF OpenFails
    <2>7. CASE EndDrive(r)  BY <2>7 DEF EndDrive
    <2>8. CASE Unlock(r)  BY <2>8 DEF Unlock
    <2>9. CASE Close(r)  BY <2>9 DEF Close
    <2>10. CASE Unlink(r)  BY <2>10 DEF Unlink
    <2>11. CASE Discard(r)  BY <2>11 DEF Discard
    <2> QED  BY <1>1, <2>1, <2>2, <2>3, <2>4, <2>5, <2>6, <2>6a, <2>7, <2>8, <2>9, <2>10, <2>11
             DEF DriverStep
  <1>2. ASSUME NEW p \in Process, ProcessDies(p) PROVE (GuardMarked /\ ExclusiveInProcess)'
    BY <1>2 DEF ProcessDies, Guarded
  <1>3. CASE UNCHANGED vars  BY <1>3 DEF vars, lock
  <1> QED  BY <1>0, <1>1, <1>2, <1>3 DEF Next

(* A leaked process has the mark and nobody inside; any other mark is that *)
(* of a driver inside; a lock belongs to a driver at work, which has the   *)
(* file open; a file that is there has somebody to remove it.              *)
LeakedIsMarked == leaked \subseteq active
LeakedIsEmpty == \A r \in Driver : pc[r] \in Guarded => Proc[r] \notin leaked
MarkedIsUsed == \A p \in active : p \in leaked \/ \E r \in Driver : pc[r] \in Guarded /\ Proc[r] = p
HolderWorks ==
    \A i \in Inode : holder[i] # None =>
        pc[holder[i]] \in {"driving", "ended"} /\ fd[holder[i]] = i
WorkerHolds ==
    \A r \in Driver : pc[r] \in {"driving", "ended"} => fd[r] # None /\ holder[fd[r]] = r
FileHasRemover ==
    crashes = 0 /\ file # None =>
        \E r \in Driver : pc[r] \in {"opened", "driving", "ended", "closing", "unlinking"}
OpenedHasFile == \A r \in Driver : pc[r] = "opened" => fd[r] # None

MarkInv == LeakedIsMarked /\ LeakedIsEmpty /\ MarkedIsUsed
HoldInv == HolderWorks /\ WorkerHolds /\ OpenedHasFile /\ FileHasRemover

(* The initial state satisfies the inductive invariant.                    *)
LEMMA InitMarks == Init => MarkInv /\ HoldInv
  BY LeaseAssumption
     DEF Init, MarkInv, HoldInv, LeakedIsMarked, LeakedIsEmpty, MarkedIsUsed, HolderWorks,
         WorkerHolds, OpenedHasFile, FileHasRemover, Guarded

(* Marks are set, cleared and leaked by the only driver inside.            *)
LEMMA NextMarks == ASSUME LeaseInv, MarkInv, [Next]_vars PROVE MarkInv'
  <1> USE LeaseAssumption
      DEF LeaseInv, TypeOK, GuardMarked, ExclusiveInProcess, MarkInv, LeakedIsMarked, LeakedIsEmpty
  <1>1. ASSUME NEW r \in Driver, DriverStep(r) PROVE MarkInv'
    <2> USE DEF Moves, Guarded, lock
    <2>1. (LeakedIsMarked /\ LeakedIsEmpty)'
      BY <1>1 DEF DriverStep, StartFresh, CheckStatus, MarkRunning, EnterGuard, OpenLockFile,
                  OpenFails, Lock, EndDrive, Unlock, Close, Unlink, Discard
    <2>2. ASSUME NEW p \in active', p \notin leaked'
          PROVE  \E q \in Driver : pc'[q] \in Guarded /\ Proc[q] = p
      <3>1. CASE p \in active
        <4>1. PICK q \in Driver : pc[q] \in Guarded /\ Proc[q] = p
          BY <2>2, <3>1, <1>1
             DEF MarkedIsUsed, DriverStep, StartFresh, CheckStatus, MarkRunning, EnterGuard,
                 OpenLockFile, OpenFails, Lock, EndDrive, Unlock, Close, Unlink, Discard
        <4>2. pc'[q] \in Guarded
          BY <2>2, <4>1, <1>1
             DEF DriverStep, StartFresh, CheckStatus, MarkRunning, EnterGuard,
                 OpenLockFile, OpenFails, Lock, EndDrive, Unlock, Close, Unlink, Discard
        <4> QED  BY <4>1, <4>2
      <3>2. CASE p \notin active
        BY <2>2, <3>2, <1>1
           DEF DriverStep, StartFresh, CheckStatus, MarkRunning, EnterGuard, OpenLockFile,
               OpenFails, Lock, EndDrive, Unlock, Close, Unlink, Discard
      <3> QED  BY <3>1, <3>2
    <2> QED  BY <2>1, <2>2 DEF MarkedIsUsed
  <1>2. ASSUME NEW p \in Process, ProcessDies(p) PROVE MarkInv'
    BY <1>2 DEF ProcessDies, Guarded, MarkedIsUsed
  <1>3. CASE UNCHANGED vars  BY <1>3 DEF vars, lock, MarkedIsUsed
  <1> QED  BY <1>1, <1>2, <1>3 DEF Next

(* A lock changes hands only when nobody holds it, and a new file is one   *)
(* nobody has open.                                                        *)
LEMMA NextHolds == ASSUME TypeOK, HoldInv, [Next]_vars PROVE HoldInv'
  <1> USE LeaseAssumption DEF TypeOK, HoldInv, HolderWorks, WorkerHolds, OpenedHasFile, FileHasRemover
  <1>1. ASSUME NEW r \in Driver, DriverStep(r) PROVE HoldInv'
    <2> USE DEF Moves, lock
    <2>1. CASE StartFresh(r)  BY <2>1 DEF StartFresh
    <2>2. CASE CheckStatus(r)  BY <2>2 DEF CheckStatus
    <2>3. CASE MarkRunning(r)  BY <2>3 DEF MarkRunning
    <2>4. CASE EnterGuard(r)  BY <2>4 DEF EnterGuard
    <2>5. CASE OpenLockFile(r)  BY <2>5 DEF OpenLockFile
    <2>6. CASE Lock(r)  BY <2>6 DEF Lock
    <2>6a. CASE OpenFails(r)  BY <2>6a DEF OpenFails
    <2>7. CASE EndDrive(r)  BY <2>7 DEF EndDrive
    <2>8. CASE Unlock(r)  BY <2>8 DEF Unlock
    <2>9. CASE Close(r)  BY <2>9 DEF Close
    <2>10. CASE Unlink(r)  BY <2>10 DEF Unlink
    <2>11. CASE Discard(r)  BY <2>11 DEF Discard
    <2> QED  BY <1>1, <2>1, <2>2, <2>3, <2>4, <2>5, <2>6, <2>6a, <2>7, <2>8, <2>9, <2>10, <2>11
             DEF DriverStep
  <1>2. ASSUME NEW p \in Process, ProcessDies(p) PROVE HoldInv'
    BY <1>2 DEF ProcessDies
  <1>3. CASE UNCHANGED vars  BY <1>3 DEF vars, lock
  <1> QED  BY <1>1, <1>2, <1>3 DEF Next

(* The inductive invariant holds in every reachable state.                 *)
THEOREM LeaseAlways == Spec => []LeaseInv
  BY InitLease, NextLease, PTL DEF Spec

(* So do the facts about marks and locks.                                  *)
THEOREM MarksAlways == Spec => [](MarkInv /\ HoldInv)
  <1>1. LeaseInv => TypeOK  BY DEF LeaseInv
  <1> QED  BY <1>1, InitMarks, NextMarks, NextHolds, LeaseAlways, PTL DEF Spec

(* The variables of the lease keep their types.                            *)
THEOREM LeaseTyped == Spec => []TypeOK
  BY LeaseAlways, PTL DEF LeaseInv

(* In one process no two drivers are ever inside the lease of a run, with  *)
(* any number of drivers, attempts, other processes and crashes.           *)
THEOREM GuardExcludes == Spec => []ExclusiveInProcess
  BY LeaseAlways, PTL DEF LeaseInv

(* Two leases on the same lock file exclude each other: only the removal   *)
(* of the file can let two drivers in.                                     *)
THEOREM LockExcludes == Spec => []SameFileExcludes
  <1>1. TypeOK /\ HoldInv => SameFileExcludes
    BY DEF TypeOK, HoldInv, WorkerHolds, SameFileExcludes
  <1> QED  BY <1>1, LeaseTyped, MarksAlways, PTL

(* Nothing of a lease survives the drivers but the marks that processes    *)
(* keep which could not open the lock file.                                *)
THEOREM QuietIsFree == Spec => []FreeWhenQuiet
  <1>1. TypeOK /\ MarkInv /\ HoldInv => FreeWhenQuiet
    BY LeaseAssumption
       DEF TypeOK, MarkInv, HoldInv, LeakedIsMarked, MarkedIsUsed, HolderWorks,
           FileHasRemover, Guarded, FreeWhenQuiet
  <1> QED  BY <1>1, LeaseTyped, MarksAlways, PTL

(* A new run is driven without a lease, so one is only driven where a run  *)
(* may be created.                                                         *)
LEMMA FreshOnlyIfNew ==
    ASSUME ~StartsFresh
    PROVE  Spec => [](flowStatus # "none" /\ \A r \in Driver : pc[r] # "fresh")
  <1> DEFINE Resumed == flowStatus # "none" /\ \A r \in Driver : pc[r] # "fresh"
  <1>1. Init => Resumed  BY DEF Init
  <1>2. TypeOK /\ Resumed /\ [Next]_vars => Resumed'
    <2> SUFFICES ASSUME TypeOK, Resumed, [Next]_vars PROVE Resumed'  OBVIOUS
    <2> USE DEF TypeOK, Moves, FlowEnd, Guarded
    <2>1. ASSUME NEW r \in Driver, DriverStep(r) PROVE Resumed'
      BY <2>1 DEF DriverStep, StartFresh, CheckStatus, MarkRunning, EnterGuard, OpenLockFile,
                  OpenFails, Lock, EndDrive, Unlock, Close, Unlink, Discard
    <2>2. ASSUME NEW p \in Process, ProcessDies(p) PROVE Resumed'
      BY <2>2 DEF ProcessDies
    <2>3. CASE UNCHANGED vars  BY <2>3 DEF vars
    <2> QED  BY <2>1, <2>2, <2>3 DEF Next
  <1> QED  BY <1>1, <1>2, LeaseTyped, PTL DEF Spec

(* A run that exists already and is resumed from one process only has at   *)
(* most one driver at work, however its resumes interleave.                *)
THEOREM OneDriverInProcess ==
    ASSUME ~StartsFresh, NEW p, \A r \in Driver : Proc[r] = p
    PROVE  Spec => []OneDriver
  <1>1. ExclusiveInProcess /\ (\A r \in Driver : pc[r] # "fresh") => OneDriver
    BY DEF ExclusiveInProcess, OneDriver, Drives, Guarded
  <1> QED  BY <1>1, GuardExcludes, FreshOnlyIfNew, PTL
=============================================================================
