----------------------------- MODULE MCFlowGraph -----------------------------
(***************************************************************************)
(* The builder of Flows with four ids for TLC.                             *)
(***************************************************************************)
EXTENDS Flows

FourNames == <<"a", "b", "c", "d">>
=============================================================================
