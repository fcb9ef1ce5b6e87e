------------------------------ MODULE JsonStore ------------------------------
(***************************************************************************)
(* state_store/jsonfile.py: a state file shared by processes, each with a  *)
(* copy of it in memory that it keeps while the signature of the file does *)
(* not change.                                                             *)
(*                                                                         *)
(* A run is a member of Run that is stored or not: a store that confuses   *)
(* versions of a run also confuses its presence.  The threads of a process *)
(* take turns under one lock, so that a process is one actor here.         *)
(***************************************************************************)
EXTENDS Naturals, FiniteSets

CONSTANTS
    Run,         \* the runs that may be stored
    Process,
    None,        \* no process
    SameTick,    \* may a write leave the signature (mtime, size) as it was?
    FailsWhen,   \* the stages at which _persist may raise: "applied" before the
                 \* new file is in place, "replaced" after it
    MaxWrites,   \* bound: completed writes of the file
    MaxDeaths    \* bound: process deaths

ASSUME StoreAssumption ==
    /\ None \notin Process
    /\ SameTick \in BOOLEAN
    /\ FailsWhen \subseteq {"applied", "replaced"}
    /\ {MaxWrites, MaxDeaths} \subseteq Nat

VARIABLES
    disk,        \* the runs in the state file
    sig,         \* its signature, 0 while there is no file
    writes,      \* completed writes
    up,          \* up[p]: "down", "statted" inside the first load, "up"
    mem,         \* mem[p]: self._runs
    seen,        \* seen[p]: self._cached_sig, 0 for None
    writer,      \* the process with the exclusive file lock, or None
    stage,       \* where the writer is: "free", "applied" or "replaced"
    answer,      \* answer[p]: what the last read of p returned
    deaths,
    astray       \* history: the processes whose copy may not be the file though
                 \* they would not read it again, after a write that failed or
                 \* one of another process that kept the signature

file == <<disk, sig, writes>>
vars == <<file, up, mem, seen, writer, stage, answer, deaths, astray>>

TypeOK ==
    /\ disk \in SUBSET Run
    /\ sig \in Nat /\ writes \in Nat
    /\ up \in [Process -> {"down", "statted", "up"}]
    /\ mem \in [Process -> SUBSET Run]
    /\ seen \in [Process -> Nat]
    /\ writer \in Process \cup {None}
    /\ stage \in {"free", "applied", "replaced"}
    /\ answer \in [Process -> SUBSET Run]
    /\ deaths \in Nat
    /\ astray \in SUBSET Process

Init ==
    /\ disk = {} /\ sig = 0 /\ writes = 0
    /\ up = [p \in Process |-> "down"]
    /\ mem = [p \in Process |-> {}]
    /\ seen = [p \in Process |-> 0]
    /\ writer = None /\ stage = "free"
    /\ answer = [p \in Process |-> {}]
    /\ deaths = 0 /\ astray = {}

-----------------------------------------------------------------------------
(* The constructor loads the file without the file lock: it stats the file *)
(* first and reads it then, and a write may come between.                  *)

StatFile(p) ==
    /\ up[p] = "down"
    /\ seen' = [seen EXCEPT ![p] = sig]
    /\ up' = [up EXCEPT ![p] = IF sig = 0 THEN "up" ELSE "statted"]
    /\ UNCHANGED <<file, mem, writer, stage, answer, deaths, astray>>

StatLate(p) ==    \* mutant: the stat comes after the contents are read
    /\ up[p] = "statted"
    /\ seen' = [seen EXCEPT ![p] = sig]
    /\ up' = [up EXCEPT ![p] = "up"]
    /\ UNCHANGED <<file, mem, writer, stage, answer, deaths, astray>>
ReadFile(p) ==
    /\ up[p] = "statted"
    /\ mem' = [mem EXCEPT ![p] = disk]
    /\ up' = [up EXCEPT ![p] = "up"]
    /\ UNCHANGED <<file, seen, writer, stage, answer, deaths, astray>>

Unrefreshed(p) == IF seen[p] # 0 THEN mem[p] ELSE disk    \* mutant: loaded once
\* _load_file under the file lock: the copy in memory if the signature is the
\* cached one, else the file, or nothing if there is none.
Keeps(p) == sig # 0 /\ sig = seen[p]
Loaded(p) == IF Keeps(p) THEN mem[p] ELSE disk
Back(p) == astray' = IF Keeps(p) THEN astray ELSE astray \ {p}

\* load_run, get_context and list_runs, under the shared file lock.
Read(p) ==
    /\ up[p] = "up" /\ writer = None
    /\ mem' = [mem EXCEPT ![p] = Loaded(p)]
    /\ seen' = [seen EXCEPT ![p] = sig]
    /\ answer' = [answer EXCEPT ![p] = Loaded(p)]
    /\ Back(p) /\ UNCHANGED <<file, up, writer, stage, deaths>>

\* What the operations of the store make of the runs: w is created or
\* updated, or deleted.
Changes(runs, w) == {runs \cup {w}, runs \ {w}}

\* _mutate: the exclusive file lock, the load and the operation on the copy.
Mutate(p, w) ==
    /\ up[p] = "up" /\ writer = None
    /\ writes < MaxWrites
    /\ \E changed \in Changes(Loaded(p), w) : mem' = [mem EXCEPT ![p] = changed]
    /\ seen' = [seen EXCEPT ![p] = sig]
    /\ writer' = p /\ stage' = "applied"
    /\ Back(p) /\ UNCHANGED <<file, up, answer, deaths>>

\* The operation raises (there is no such run), or prune selects nothing.
MutateNothing(p) ==
    /\ up[p] = "up" /\ writer = None
    /\ mem' = [mem EXCEPT ![p] = Loaded(p)]
    /\ seen' = [seen EXCEPT ![p] = sig]
    /\ Back(p) /\ UNCHANGED <<file, up, writer, stage, answer, deaths>>

\* _persist: os.replace puts the finished temporary file in place.
Replace(p) ==
    /\ writer = p /\ stage = "applied"
    /\ disk' = mem[p]
    /\ writes' = writes + 1
    /\ sig' \in {writes + 1} \cup (IF SameTick /\ sig # 0 THEN {sig} ELSE {})
    /\ stage' = "replaced"
    /\ astray' = (astray \ {p}) \cup
                    {q \in Process \ {p} : sig' = sig /\ up[q] = "up" /\ seen[q] = sig}
    /\ UNCHANGED <<up, mem, seen, writer, answer, deaths>>

\* _persist: the signature of the new file, then the locks are released.
Signed(p) ==
    /\ writer = p /\ stage = "replaced"
    /\ seen' = [seen EXCEPT ![p] = sig]
    /\ writer' = None /\ stage' = "free"
    /\ UNCHANGED <<file, up, mem, answer, deaths, astray>>

\* _persist raises; the copy in memory keeps the change.
PersistFails(p) ==
    /\ writer = p /\ stage \in FailsWhen
    /\ writer' = None /\ stage' = "free"
    /\ astray' = IF stage = "applied" THEN astray \cup {p} ELSE astray
    /\ UNCHANGED <<file, up, mem, seen, answer, deaths>>

\* The copy and the lock go with the process; a later one opens the store.
Dies(p) ==
    /\ up[p] # "down" /\ deaths < MaxDeaths
    /\ deaths' = deaths + 1
    /\ up' = [up EXCEPT ![p] = "down"]
    /\ mem' = [mem EXCEPT ![p] = {}]
    /\ seen' = [seen EXCEPT ![p] = 0]
    /\ astray' = astray \ {p}
    /\ IF writer = p THEN writer' = None /\ stage' = "free" ELSE UNCHANGED <<writer, stage>>
    /\ UNCHANGED <<file, answer>>

ProcessStep(p) ==
    \/ StatFile(p) \/ ReadFile(p) \/ Read(p)
    \/ (\E w \in Run : Mutate(p, w)) \/ MutateNothing(p)
    \/ Replace(p) \/ Signed(p) \/ PersistFails(p) \/ Dies(p)

Next == \E p \in Process : ProcessStep(p)

Spec == Init /\ [][Next]_vars

-----------------------------------------------------------------------------
(* Properties.                                                             *)

(* A process that would not read the file again has what is in it, unless  *)
(* it went astray: a write of its own failed before the new file was in    *)
(* place, or one of another process left the signature as it was.          *)
CacheCurrent ==
    \A p \in Process \ astray :
        up[p] = "up" /\ writer # p /\ Keeps(p) => mem[p] = disk

(* The processes that are not astray share contents that each of them      *)
(* changes and reads in place: no update is lost, none is half applied, no *)
(* read is stale, and a refused change shows through nobody but the        *)
(* process that failed to write it, until that process reads the file      *)
(* again or writes its copy.                                               *)
Shared == INSTANCE SharedStore WITH contents <- disk
ImplementsSharedStore == Shared!Spec

(* docs/architecture.md:32: the store loads the file again before every    *)
(* write, so that what is about to be written is one operation away from   *)
(* what is in the file.                                                    *)
WritesFromFile ==
    stage = "applied" => \E w \in Run : mem[writer] \in Changes(disk, w)
=============================================================================
