------------------------------ MODULE MCServer ------------------------------
(***************************************************************************)
(* Small instances of Server for TLC.  Clients that may leave, and         *)
(* clients that may not, are interchangeable in the safety runs.           *)
(***************************************************************************)
EXTENDS Server, TLC

Symmetry == Permutations(Leavers) \cup Permutations(Peers \ Leavers)
=============================================================================
