----------------------------- MODULE OrderedSet -----------------------------
(***************************************************************************)
(* What a search tree promises the database of userdata and the tables of  *)
(* enums: it holds the structs that have been inserted and not removed, no *)
(* two with the same key, and inserting one whose key is there changes     *)
(* nothing.                                                                *)
(***************************************************************************)
CONSTANTS Node, Key

VARIABLE members

Init == members = {}

Add(n) ==
  /\ \A m \in members : Key[m] # Key[n]
  /\ members' = members \cup {n}

Delete(n) ==
  /\ n \in members
  /\ members' = members \ {n}

Next == \E n \in Node : Add(n) \/ Delete(n)

Spec == Init /\ [][Next]_members
=============================================================================
