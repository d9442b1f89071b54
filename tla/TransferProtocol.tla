-------------------------- MODULE TransferProtocol --------------------------
(***************************************************************************)
(* The life of an asynchronous transfer as doc/asynchapi.adoc promises it: *)
(* a submitted transfer is pending until its callback is called, once, and *)
(* the value the callback returns says whether the transfer is pending     *)
(* again or deleted.  Nothing else deletes a pending transfer.             *)
(***************************************************************************)
CONSTANTS Xfr, Nil

VARIABLES
  pending,    \* transfers submitted and not yet called back
  calling     \* the transfer whose callback is executing, or Nil

Init == pending = {} /\ calling = Nil

Submit(x) ==
  /\ x \notin pending \cup {calling}
  /\ pending' = pending \cup {x}
  /\ UNCHANGED calling

Callback(x) ==
  /\ x \in pending
  /\ calling = Nil
  /\ calling' = x
  /\ pending' = pending \ {x}

\* The callback returns true, or anything else.
Resubmit ==
  /\ calling # Nil
  /\ pending' = pending \cup {calling}
  /\ calling' = Nil

Delete ==
  /\ calling # Nil
  /\ calling' = Nil
  /\ UNCHANGED pending

Next == (\E x \in Xfr : Submit(x) \/ Callback(x)) \/ Resubmit \/ Delete

Spec == Init /\ [][Next]_<<pending, calling>>
=============================================================================
