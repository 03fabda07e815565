------------------------------ MODULE MCStaging ------------------------------
(* Small instances of Staging for TLC. *)
EXTENDS Staging, TLC

Symmetry == Permutations(Key) \cup Permutations(Run \ {DagRun})
=============================================================================
