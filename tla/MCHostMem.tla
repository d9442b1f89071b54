----------------------------- MODULE MCHostMem -----------------------------
(* Instances of HostMem for TLC. *)
EXTENDS HostMem, TLC

Symmetry == Permutations(Mem)
=============================================================================
