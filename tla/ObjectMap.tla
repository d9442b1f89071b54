----------------------------- MODULE ObjectMap -----------------------------
(***************************************************************************)
(* What the userdata layer promises to the rest of MoonUSB, with nothing   *)
(* of how the Lua registry is used to keep the promise: a handle (the      *)
(* address of a libusb or MoonUSB struct) is bound to at most one Lua      *)
(* userdata, and every bound userdata, as well as the library itself, may  *)
(* own one callback, that stays as it is until its owner replaces it or is *)
(* unbound.                                                                *)
(***************************************************************************)
CONSTANTS
  Userdata,   \* Lua userdata (ud_t structs)
  Handle,     \* the addresses that identify objects
  Callback,   \* Lua functions
  Nil

VARIABLES
  bound,      \* bound[h]: the userdata that pushxxx(h) pushes, or Nil
  callback,   \* callback[u]: the function ud->ref1 stands for, or Nil
  logger      \* the global log callback, or Nil

vars == <<bound, callback, logger>>

Init ==
  /\ bound = [h \in Handle |-> Nil]
  /\ callback = [u \in Userdata |-> Nil]
  /\ logger = Nil

Unused(u) == \A h \in Handle : bound[h] # u

\* An object is created, possibly with its callback already in place.
Bind(u, h, f) ==
  /\ Unused(u)
  /\ bound[h] = Nil
  /\ bound' = [bound EXCEPT ![h] = u]
  /\ callback' = [callback EXCEPT ![u] = f]
  /\ UNCHANGED logger

SetCallback(u, f) ==
  /\ \E h \in Handle : bound[h] = u
  /\ callback' = [callback EXCEPT ![u] = f]
  /\ UNCHANGED <<bound, logger>>

SetLogger(f) ==
  /\ logger' = f
  /\ UNCHANGED <<bound, callback>>

\* An object is destroyed: its handle may be bound again, its callback is gone.
Unbind(u, h) ==
  /\ bound[h] = u
  /\ bound' = [bound EXCEPT ![h] = Nil]
  /\ callback' = [callback EXCEPT ![u] = Nil]
  /\ UNCHANGED logger

Next ==
  \/ \E u \in Userdata, h \in Handle :
       \/ \E f \in Callback \cup {Nil} : Bind(u, h, f)
       \/ Unbind(u, h)
  \/ \E f \in Callback : SetLogger(f) \/ \E u \in Userdata : SetCallback(u, f)

Spec == Init /\ [][Next]_vars
=============================================================================
