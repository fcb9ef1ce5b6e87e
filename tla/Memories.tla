------------------------------ MODULE Memories ------------------------------
(***************************************************************************)
(* {memory:get:...} in core/resolvers/memory.py: the record with an id is  *)
(* read from the memory service, and as long as it is superseded the one   *)
(* that supersedes it.                                                     *)
(*                                                                         *)
(* memory maps the ids that exist to records [superseded, by]; by is       *)
(* NoMemory where a superseded record names no successor.                  *)
(***************************************************************************)
EXTENDS Naturals

NoMemory == 0

(***************************************************************************)
(* MemoryResolver._get from a known id: the loop makes at most hops + 1    *)
(* reads.  The result is [kind, id]: the content of id, or the error.      *)
(***************************************************************************)
Searching(id) == [kind |-> "searching", id |-> id]

\* One pass of the loop, with the ids seen before.
Hop(memory, at, seen) ==
    IF at.id \in seen THEN [at EXCEPT !.kind = "cycle"]
    ELSE IF at.id \notin DOMAIN memory THEN [at EXCEPT !.kind = "not_found"]
    ELSE IF ~memory[at.id].superseded THEN [at EXCEPT !.kind = "content"]
    ELSE IF memory[at.id].by = NoMemory THEN [at EXCEPT !.kind = "no_successor"]
    ELSE Searching(memory[at.id].by)

FollowFewer(memory, start, hops) ==    \* mutant: as many reads as hops
    LET loop[n \in 0 .. hops] ==
          IF n = 0 THEN [at |-> Searching(start), seen |-> {}]
          ELSE LET prev == loop[n - 1]
               IN  IF prev.at.kind # "searching" THEN prev
                   ELSE [at   |-> Hop(memory, prev.at, prev.seen),
                         seen |-> prev.seen \cup {prev.at.id}]
        last == loop[hops].at
    IN  IF last.kind = "searching" THEN [last EXCEPT !.kind = "hop_limit"] ELSE last
Follow(memory, start, hops) ==
    LET loop[n \in 0 .. (hops + 1)] ==
          IF n = 0 THEN [at |-> Searching(start), seen |-> {}]
          ELSE LET prev == loop[n - 1]
               IN  IF prev.at.kind # "searching" THEN prev
                   ELSE [at   |-> Hop(memory, prev.at, prev.seen),
                         seen |-> prev.seen \cup {prev.at.id}]
        last == loop[hops + 1].at
    IN  IF last.kind = "searching" THEN [last EXCEPT !.kind = "hop_limit"] ELSE last
=============================================================================
