----------------------------- MODULE MCRunLease -----------------------------
(* Two drivers of RunLease in processes of their own, or three of which    *)
(* two share a process.                                                    *)
EXTENDS RunLease

OwnProcess == [r \in Driver |-> r]
PairAndOne == [r \in Driver |-> IF r = "s" THEN "o" ELSE "p"]
=============================================================================
