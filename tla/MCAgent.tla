------------------------------ MODULE MCAgent -------------------------------
(* Instances of Agent for TLC. *)
EXTENDS Agent, TLC

Symmetry == Permutations(Call)
=============================================================================
