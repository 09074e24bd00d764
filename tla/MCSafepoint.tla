---------------------------- MODULE MCSafepoint -----------------------------
(* Instances of Safepoint for TLC. *)
EXTENDS Safepoint, TLC

Symmetry == Permutations(Mutators)
=============================================================================
