----------------------------- MODULE MCEmulator -----------------------------
(* Instance of Emulator for TLC: two clients, so that one waits while the    *)
(* other is served and comes next on its connection.                         *)
EXTENDS Emulator
=============================================================================
