----------------------------- MODULE ByteArrays -----------------------------
(***************************************************************************)
(* Host memory as its documentation describes it (doc/hostmem.adoc): each  *)
(* object has an area of bytes of its own, that only the methods of that   *)
(* object change, and only inside the area.                                *)
(***************************************************************************)
EXTENDS Naturals, Sequences

CONSTANTS
  Mem,   \* hostmem objects
  Byte   \* the values of a byte

VARIABLE area  \* area[m]: the bytes of object m, none if it does not exist

Init == area = [m \in Mem |-> <<>>]

New(m, s) ==
  /\ area[m] = <<>> /\ s # <<>>
  /\ area' = [area EXCEPT ![m] = s]

\* New contents, as long as the old.
Store(m, s) ==
  /\ area[m] # <<>> /\ Len(s) = Len(area[m])
  /\ area' = [area EXCEPT ![m] = s]

\* The release of some objects, by one call.
Delete(S) ==
  area' = [m \in Mem |-> IF m \in S THEN <<>> ELSE area[m]]

Next ==
  \/ \E m \in Mem : New(m, area'[m]) \/ Store(m, area'[m])
  \/ Delete({m \in Mem : area'[m] = <<>>})

Spec == Init /\ [][Next]_area
=============================================================================
