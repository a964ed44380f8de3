----------------------------- MODULE MCReconciler -----------------------------
(* The reconciler on two interchangeable releases. *)
EXTENDS Reconciler, TLC

Symmetry == Permutations(Hashes)
=============================================================================
