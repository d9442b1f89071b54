--------------------------- MODULE MCRedBlackTree ---------------------------
(* An instance of RedBlackTree for TLC. *)
EXTENDS RedBlackTree

CONSTANT N

\* Two structs have the same key.
MCNode == 1 .. N
MCKey == [n \in MCNode |-> IF n = N THEN N - 1 ELSE n]
MCWanted == {n \in MCNode : n % 4 = 2}
=============================================================================
