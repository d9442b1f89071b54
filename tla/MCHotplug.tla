----------------------------- MODULE MCHotplug ------------------------------
(* An instance of Hotplug for TLC. *)
EXTENDS Hotplug
=============================================================================
