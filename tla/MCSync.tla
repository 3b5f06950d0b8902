------------------------------- MODULE MCSync -------------------------------
(***************************************************************************)
(* Instances of Sync for TLC.  Nodes, names and slots that are alike may   *)
(* be permuted in a run without liveness properties.                       *)
(***************************************************************************)
EXTENDS Sync, TLC

Alike == Permutations(Nodes) \cup Permutations(Names) \cup Permutations(Slots)
=============================================================================
