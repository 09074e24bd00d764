----------------------------- MODULE MCPageHeap -----------------------------
(* Instances of PageHeap for TLC. *)
EXTENDS PageHeap, TLC

Symmetry == Permutations(Objects) \cup Permutations(Roots)
=============================================================================
