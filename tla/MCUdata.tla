------------------------------ MODULE MCUdata ------------------------------
(* Instance of Udata for TLC: three userdata, so that one can be allocated    *)
(* while a stale one lingers next to a valid one; two handles, so that one is *)
(* reused; two callbacks, so that a swap shows; six slots, so that the list   *)
(* of released slots is cut and used in every way.                            *)
EXTENDS Udata, TLC

Symmetry ==
  Permutations(Userdata) \cup Permutations(Handle) \cup Permutations(Callback)
=============================================================================
