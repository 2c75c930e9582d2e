------------------------------ MODULE MCNested ------------------------------
(* Nested for TLC: the VMCSs and the EPTs of L1 are interchangeable. *)
EXTENDS Nested, TLC

Symmetry == Permutations(Vmcs12) \cup Permutations(Ept12)
=============================================================================
