------------------------------ MODULE RunLease ------------------------------
(***************************************************************************)
(* The drivers of one run that compete for it: run() of core/runner.py up  *)
(* to the execution loop, and run_lease of the JSON state store.           *)
(*                                                                         *)
(* A driver is one call of run() in some process.  What the loop does to   *)
(* the steps is the subject of StepRunner; here it is one state in which   *)
(* the driver works, and the status it stores at the end.                  *)
(***************************************************************************)
EXTENDS Naturals, FiniteSets

CONSTANTS
    Driver,       \* the calls of run()
    Process,
    Proc,         \* Proc[r]: the process that driver r runs in
    Inode,        \* the files that may be at the path of the lock file
    None,         \* no driver, no file
    StartsFresh,  \* may a driver create the run (else it is paused at first)?
    OpenMayFail,  \* may the lock file fail to open?
    MaxCrashes    \* bound: process deaths per behaviour

ASSUME LeaseAssumption ==
    /\ Proc \in [Driver -> Process]
    /\ None \notin Driver \cup Inode
    /\ {StartsFresh, OpenMayFail} \subseteq BOOLEAN
    /\ MaxCrashes \in Nat

VARIABLES
    flowStatus,   \* run.status, "none" before create_run
    pc,           \* pc[r]: where driver r is in run()
    active,       \* the processes whose store has the run in _active_runs
    leaked,       \* those of them that have it since a lock file was not opened
    file,         \* the inode at the path of the lock file, or None
    fd,           \* fd[r]: the inode that r holds open, or None
    holder,       \* holder[i]: the driver with the flock of inode i, or None
    crashes

lock == <<active, leaked, file, fd, holder>>
vars == <<flowStatus, pc, lock, crashes>>

FlowEnd == {"paused", "completed", "failed", "cancelled"}

(* From checked on a driver is in run(): the status is read and valid,     *)
(* then written, then _active_runs is marked, the file opened and locked.  *)
(* fresh is the loop of a new run, driving that of a resumed one.          *)
Guarded == {"guarded", "opened", "driving", "ended", "closing", "unlinking", "discarding"}
Place == {"idle", "fresh", "checked", "marked"} \cup Guarded

TypeOK ==
    /\ flowStatus \in FlowEnd \cup {"none", "running"}
    /\ pc \in [Driver -> Place]
    /\ active \subseteq Process /\ leaked \subseteq Process
    /\ file \in Inode \cup {None}
    /\ fd \in [Driver -> Inode \cup {None}]
    /\ holder \in [Inode -> Driver \cup {None}]
    /\ crashes \in Nat

Init ==
    /\ flowStatus = IF StartsFresh THEN "none" ELSE "paused"
    /\ pc = [r \in Driver |-> "idle"]
    /\ active = {} /\ leaked = {}
    /\ file = None
    /\ fd = [r \in Driver |-> None]
    /\ holder = [i \in Inode |-> None]
    /\ crashes = 0

-----------------------------------------------------------------------------
Moves(r, from, to) == pc[r] = from /\ pc' = [pc EXCEPT ![r] = to]

\* create_run and the status running; a new run takes no lease.
StartFresh(r) ==
    /\ flowStatus = "none"
    /\ Moves(r, "idle", "fresh")
    /\ flowStatus' = "running"
    /\ UNCHANGED <<lock, crashes>>

\* _require_run and the check of the status of what it read.
CheckStatus(r) ==
    /\ flowStatus \in {"paused", "running"}
    /\ Moves(r, "idle", "checked")
    /\ UNCHANGED <<flowStatus, lock, crashes>>

\* The status running is stored before the lease is taken.
MarkRunning(r) ==
    /\ Moves(r, "checked", "marked")
    /\ flowStatus' = "running"
    /\ UNCHANGED <<lock, crashes>>

EnterUnchecked(r) ==    \* mutant: _active_runs is not consulted
    /\ Moves(r, "marked", "guarded")
    /\ active' = active \cup {Proc[r]}
    /\ UNCHANGED <<flowStatus, leaked, file, fd, holder, crashes>>
\* The guard of the process: run_id is added to _active_runs, or refused.
EnterGuard(r) ==
    /\ IF Proc[r] \in active
       THEN Moves(r, "marked", "idle") /\ UNCHANGED active
       ELSE Moves(r, "marked", "guarded") /\ active' = active \cup {Proc[r]}
    /\ UNCHANGED <<flowStatus, leaked, file, fd, holder, crashes>>

\* open("a+"): the file at the path, or a new one.
OpenLockFile(r) ==
    /\ Moves(r, "guarded", "opened")
    /\ file' \in IF file # None THEN {file} ELSE {i \in Inode : \A q \in Driver : fd[q] # i}
    /\ fd' = [fd EXCEPT ![r] = file']
    /\ UNCHANGED <<flowStatus, active, leaked, holder, crashes>>

\* open raises, before the try whose finally would clear _active_runs.
OpenFails(r) ==
    /\ OpenMayFail
    /\ Moves(r, "guarded", "idle")
    /\ leaked' = leaked \cup {Proc[r]}
    /\ UNCHANGED <<flowStatus, active, file, fd, holder, crashes>>

LockShared(r) ==    \* mutant: LOCK_SH, which others may hold as well
    /\ Moves(r, "opened", "driving")
    /\ holder' = [holder EXCEPT ![fd[r]] = r]
    /\ UNCHANGED <<flowStatus, active, leaked, file, fd, crashes>>
\* flock(LOCK_EX | LOCK_NB): the driver works, or is refused and cleans up.
Lock(r) ==
    /\ pc[r] = "opened"
    /\ IF holder[fd[r]] = None
       THEN Moves(r, "opened", "driving") /\ holder' = [holder EXCEPT ![fd[r]] = r]
       ELSE Moves(r, "opened", "closing") /\ UNCHANGED holder
    /\ UNCHANGED <<flowStatus, active, leaked, file, fd, crashes>>

\* The execution loop stores how it ended, and returns.
EndDrive(r) ==
    /\ Moves(r, "driving", "ended") \/ Moves(r, "fresh", "idle")
    /\ flowStatus' \in FlowEnd
    /\ UNCHANGED <<lock, crashes>>

Unlock(r) ==
    /\ Moves(r, "ended", "closing")
    /\ holder' = [holder EXCEPT ![fd[r]] = None]
    /\ UNCHANGED <<flowStatus, active, leaked, file, fd, crashes>>

Close(r) ==
    /\ Moves(r, "closing", "unlinking")
    /\ fd' = [fd EXCEPT ![r] = None]
    /\ UNCHANGED <<flowStatus, active, leaked, file, holder, crashes>>

KeepLockFile(r) ==    \* mutant: the lock file is left behind
    /\ Moves(r, "unlinking", "discarding")
    /\ UNCHANGED <<flowStatus, lock, crashes>>
\* Whatever is at the path is removed, also by a driver that was refused.
Unlink(r) ==
    /\ Moves(r, "unlinking", "discarding")
    /\ file' = None
    /\ UNCHANGED <<flowStatus, active, leaked, fd, holder, crashes>>

StayActive(r) ==    \* mutant: run_id stays in _active_runs
    /\ Moves(r, "discarding", "idle")
    /\ UNCHANGED <<flowStatus, lock, crashes>>
Discard(r) ==
    /\ Moves(r, "discarding", "idle")
    /\ active' = active \ {Proc[r]}
    /\ UNCHANGED <<flowStatus, leaked, file, fd, holder, crashes>>

\* The kernel closes the files of a dead process, which drops its locks; the
\* lock file stays where it is.
ProcessDies(p) ==
    /\ crashes < MaxCrashes
    /\ crashes' = crashes + 1
    /\ LET dead == {r \in Driver : Proc[r] = p}
       IN  /\ pc' = [r \in Driver |-> IF r \in dead THEN "idle" ELSE pc[r]]
           /\ fd' = [r \in Driver |-> IF r \in dead THEN None ELSE fd[r]]
           /\ holder' = [i \in Inode |-> IF holder[i] \in dead THEN None ELSE holder[i]]
    /\ active' = active \ {p} /\ leaked' = leaked \ {p}
    /\ UNCHANGED <<flowStatus, file>>

DriverStep(r) ==
    \/ StartFresh(r) \/ CheckStatus(r) \/ MarkRunning(r) \/ EnterGuard(r)
    \/ OpenLockFile(r) \/ OpenFails(r) \/ Lock(r) \/ EndDrive(r)
    \/ Unlock(r) \/ Close(r) \/ Unlink(r) \/ Discard(r)

Next == (\E r \in Driver : DriverStep(r)) \/ (\E p \in Process : ProcessDies(p))

Spec == Init /\ [][Next]_vars

(* No call in run_lease blocks, and every drive ends (DriveEnds of         *)
(* StepRunner).  That CheckStatus is fair says that somebody resumes a run *)
(* that is there to be resumed.                                            *)
FairSpec == Spec /\ \A r \in Driver : WF_vars(DriverStep(r))

-----------------------------------------------------------------------------
(* Properties.                                                             *)

Drives(r) == pc[r] \in {"fresh", "driving"}

(* Two drivers never work on the run at the same time: what the lease is   *)
(* for.                                                                    *)
OneDriver == \A q, r \in Driver : Drives(q) /\ Drives(r) => q = r

(* Inside one process the guard _active_runs alone keeps the drivers of a  *)
(* run apart, from before the lock file is opened until it is removed.     *)
ExclusiveInProcess ==
    \A q, r \in Driver :
        pc[q] \in Guarded /\ pc[r] \in Guarded /\ Proc[q] = Proc[r] => q = r

(* Two drivers with a lease never work on one and the same lock file: two  *)
(* at work are so only because a file was removed under the first.         *)
SameFileExcludes ==
    \A q, r \in Driver :
        pc[q] = "driving" /\ pc[r] = "driving" /\ fd[q] = fd[r] => q = r

(* When no driver is in run() nothing of a lease is left that could refuse *)
(* the next one, even after a process died inside the lease, but in those  *)
(* processes that could not open a lock file, which refuse the run until   *)
(* they end; and without deaths no lock file outlives the drivers.         *)
FreeWhenQuiet ==
    (\A r \in Driver : pc[r] = "idle") =>
        /\ active = leaked
        /\ \A i \in Inode : holder[i] = None
        /\ crashes = 0 => file = None

(* A run that was left running, by a crash or by a refused resume, is      *)
(* driven to an end by those who resume it, if some process is not one     *)
(* that could not open a lock file.                                        *)
RunIsDriven == (flowStatus = "running") ~> (flowStatus # "running" \/ leaked = Process)
=============================================================================
