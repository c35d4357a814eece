--------------------------- MODULE MCActionGraph ---------------------------
(* Instances of ActionGraph for TLC. *)
EXTENDS ActionGraphInv, TLC

Symmetry == Permutations(Call) \cup Permutations(Thread)
=============================================================================
