------------------------------ MODULE Hotplug -------------------------------
(***************************************************************************)
(* Hotplug callbacks and the event lock (src/hotplug.c, src/polling.c, and *)
(* the close of a device handle in src/devhandle.c), in one thread.        *)
(*                                                                         *)
(* libusb calls Callback for the registered hotplugs from inside           *)
(* handle_events and, if a hotplug is registered with the enumerate flag,  *)
(* from inside the registration, before it has told MoonUSB the handle it  *)
(* needs to deregister it.  Callback calls the script, which may register, *)
(* deregister and close from there, raise an error, or return true to have *)
(* its own hotplug deregistered.  An error leaves libusb's functions by a  *)
(* long jump: `wedged' is set if one of them was handling events.          *)
(*                                                                         *)
(* libusb is external, and modelled from how it is used: registrations are *)
(* numbered from 1 and never reused, one that is deregistered is called no *)
(* more, and events are not handled inside an event handler.  The event    *)
(* lock is not recursive.                                                  *)
(***************************************************************************)
EXTENDS Integers, Sequences

CONSTANTS
  Nil,
  Hpl,        \* addresses of hotplug_t structs, reused after a free
  Attached,   \* number of devices that are enumerated
  MaxReg,     \* bound on registrations
  MaxEvents   \* bound on hotplug events

ASSUME HotplugAssumption ==
  Attached \in Nat /\ MaxReg \in Nat /\ MaxEvents \in Nat /\ Nil \notin Hpl

VARIABLES
  object,     \* the registration each struct was allocated for, 0: it is free
  cb_handle,  \* in each struct, the handle to deregister it by
  reg,        \* libusb: for each registration, active or not, and its user_data
  last,       \* libusb: the last registration made
  stack,      \* calls under way: events, register, callback
  pending,    \* events that libusb has not handled yet
  posted,     \* events so far
  lock,       \* whether the event lock is held
  lock_on_close,
  stuck,      \* whether the thread waits for the lock it holds
  wedged,     \* whether an error has left an event handler
  lost        \* registrations of which MoonUSB does not know the handle

regs == <<object, cb_handle, reg, last, lost>>
bus == <<pending, posted>>
locks == <<lock, lock_on_close, stuck>>
vars == <<regs, stack, bus, locks, wedged>>

Reg == 1 .. MaxReg

Init ==
  /\ object = [h \in Hpl |-> 0] /\ cb_handle = [h \in Hpl |-> 0]
  /\ reg = [r \in Reg |-> [active |-> FALSE, user |-> Nil]]
  /\ last = 0 /\ stack = <<>> /\ lost = {}
  /\ pending = 0 /\ posted = 0
  /\ lock = FALSE /\ lock_on_close = FALSE /\ stuck = FALSE /\ wedged = FALSE

-----------------------------------------------------------------------------
Top == stack[Len(stack)]
Rest == SubSeq(stack, 1, Len(stack) - 1)
In(f) == ~ stuck /\ stack # <<>> /\ Top.at = f

\* The script runs when no C function does, or inside a callback.
Script == ~ stuck /\ (stack # <<>> => Top.at = "callback")

Handling == \E i \in 1 .. Len(stack) : stack[i].at = "events"
Active == {r \in Reg : reg[r].active}

\* An error raised in a C function called with s as stack: it is caught at the
\* nearest callback (or by the script's main program), and what it jumps over
\* never ends.  A registration jumped over has its object, but not its handle.
Unwind(s) ==
  \E k \in 0 .. Len(s) :
    /\ k > 0 => s[k].at = "callback"
    /\ \A j \in k + 1 .. Len(s) : s[j].at # "callback"
    /\ stack' = SubSeq(s, 1, k)
    /\ wedged' = (wedged \/ \E j \in k + 1 .. Len(s) : s[j].at = "events")
    /\ lost' = lost \cup {s[j].r : j \in {i \in k + 1 .. Len(s) : s[i].at = "register"}}

\* (Mutant: it does not look whether there is an object.)
CallbackUnchecked(s, r) ==
  /\ stack' = Append(s, [at |-> "callback", r |-> r, ud |-> object[reg[r].user]])
  /\ UNCHANGED <<wedged, lost>>

\* Callback, up to the call of the script: it finds the object by the address of
\* the struct that libusb has as user_data, and raises an error if there is none.
Callback(s, r) ==
  LET u == object[reg[r].user]
  IN  IF u = 0 THEN Unwind(s)
      ELSE /\ stack' = Append(s, [at |-> "callback", r |-> r, ud |-> u])
           /\ UNCHANGED <<wedged, lost>>

-----------------------------------------------------------------------------
(* The methods of hotplugs.                                                *)

\* (Mutant: libusb is not given the address of the handle.)
RegisterNoHandle(h, enumerate) ==
  LET r == last + 1
  IN  /\ Script
      /\ object[h] = 0 /\ r \in Reg
      /\ object' = [object EXCEPT ![h] = r]
      /\ reg' = [reg EXCEPT ![r] = [active |-> TRUE, user |-> h]]
      /\ last' = r
      /\ stack' = IF enumerate
                  THEN Append(stack, [at |-> "register", r |-> r, left |-> Attached])
                  ELSE stack
      /\ UNCHANGED <<cb_handle, bus, locks, wedged, lost>>

\* hotplug_register: the object is created first, since with the enumerate flag
\* libusb calls back before it returns.
Register(h, enumerate) ==
  LET r == last + 1
  IN  /\ Script
      /\ object[h] = 0 /\ r \in Reg
      /\ object' = [object EXCEPT ![h] = r]
      /\ cb_handle' = [cb_handle EXCEPT ![h] = IF enumerate THEN 0 ELSE r]
      /\ reg' = [reg EXCEPT ![r] = [active |-> TRUE, user |-> h]]
      /\ last' = r
      /\ stack' = IF enumerate
                  THEN Append(stack, [at |-> "register", r |-> r, left |-> Attached])
                  ELSE stack
      /\ UNCHANGED <<bus, locks, wedged, lost>>

\* libusb calls back for the next device it enumerates.
Enumerate ==
  /\ In("register") /\ Top.left > 0
  /\ Callback([stack EXCEPT ![Len(stack)].left = @ - 1], Top.r)
  /\ UNCHANGED <<object, cb_handle, reg, last, bus, locks>>

\* libusb stores the handle in the struct that the call pointed to, which may have
\* been freed since, or be that of another hotplug.
EndRegister ==
  LET h == reg[Top.r].user
  IN  /\ In("register") /\ Top.left = 0
      /\ cb_handle' = [cb_handle EXCEPT ![h] = Top.r]
      /\ lost' = lost \cup ({object[h]} \ {0, Top.r})
      /\ stack' = Rest
      /\ UNCHANGED <<object, reg, last, bus, locks, wedged>>

\* (Mutant: the callback is not deregistered.)
FreeHotplugKeeps(h) ==
  /\ object' = [object EXCEPT ![h] = 0]
  /\ cb_handle' = [cb_handle EXCEPT ![h] = 0]
  /\ lost' = IF cb_handle[h] = 0 THEN lost \cup {object[h]} ELSE lost
  /\ UNCHANGED <<reg, last>>

\* freehotplug: libusb deregisters by handle, and ignores handle 0.
FreeHotplug(h) ==
  /\ object' = [object EXCEPT ![h] = 0]
  /\ cb_handle' = [cb_handle EXCEPT ![h] = 0]
  /\ reg' = [r \in Reg |-> IF r = cb_handle[h] THEN [reg[r] EXCEPT !.active = FALSE]
                           ELSE reg[r]]
  /\ lost' = IF cb_handle[h] = 0 THEN lost \cup {object[h]} ELSE lost
  /\ UNCHANGED last

\* deregister, of an object that hotplug_register has returned.
Deregister(h) ==
  /\ Script
  /\ object[h] # 0 /\ cb_handle[h] # 0
  /\ FreeHotplug(h)
  /\ UNCHANGED <<stack, bus, locks, wedged>>

-----------------------------------------------------------------------------
(* The end of Callback, by what the script's function does.                *)

ReturnFalse ==
  /\ In("callback")
  /\ stack' = Rest
  /\ UNCHANGED <<regs, bus, locks, wedged>>

\* (Mutant: the object is destroyed whether the callback has done so or not.)
ReturnTrueAgain ==
  /\ In("callback")
  /\ stack' = Rest
  /\ FreeHotplug(reg[Top.r].user)
  /\ UNCHANGED <<bus, locks, wedged>>

\* The destructor does nothing if the function has destroyed the object itself.
ReturnTrue ==
  LET h == reg[Top.r].user
  IN  /\ In("callback")
      /\ stack' = Rest
      /\ IF object[h] = Top.ud THEN FreeHotplug(h) ELSE UNCHANGED regs
      /\ UNCHANGED <<bus, locks, wedged>>

\* Callback raises the error again, out of libusb.
Raise ==
  /\ In("callback")
  /\ Unwind(Rest)
  /\ UNCHANGED <<object, cb_handle, reg, last, bus, locks>>

-----------------------------------------------------------------------------
(* Event handling.                                                         *)

\* An event on the bus (external).
Post ==
  /\ posted < MaxEvents
  /\ posted' = posted + 1 /\ pending' = pending + 1
  /\ UNCHANGED <<regs, stack, locks, wedged>>

\* (Mutant: events are handled without the lock.)
HandleEventsUnlocked ==
  /\ Script /\ ~ Handling /\ ~ wedged /\ ~ lock
  /\ pending > 0
  /\ pending' = pending - 1
  /\ stack' = Append(stack, [at |-> "events", todo |-> Active])
  /\ UNCHANGED <<regs, posted, locks, wedged>>

\* handle_events, with an event to handle.
HandleEvents ==
  /\ Script /\ ~ Handling /\ ~ wedged /\ ~ lock
  /\ pending > 0
  /\ pending' = pending - 1
  /\ lock' = TRUE
  /\ stack' = Append(stack, [at |-> "events", todo |-> Active])
  /\ UNCHANGED <<regs, posted, lock_on_close, stuck, wedged>>

\* libusb calls back for the next registration, unless it is active no more.
Dispatch(r) ==
  LET s == [stack EXCEPT ![Len(stack)].todo = @ \ {r}]
  IN  /\ In("events") /\ r \in Top.todo
      /\ \A q \in Top.todo : r <= q
      /\ IF reg[r].active THEN Callback(s, r)
         ELSE stack' = s /\ UNCHANGED <<wedged, lost>>
      /\ UNCHANGED <<object, cb_handle, reg, last, bus, locks>>

EndEvents ==
  /\ In("events") /\ Top.todo = {}
  /\ stack' = Rest
  /\ lock' = FALSE
  /\ UNCHANGED <<regs, bus, lock_on_close, stuck, wedged>>

-----------------------------------------------------------------------------
(* Closing a device handle.                                                *)

LockOnClose ==
  /\ Script
  /\ lock_on_close' \in BOOLEAN
  /\ UNCHANGED <<regs, stack, bus, lock, stuck, wedged>>

\* (Mutant: the lock is not released after the close.)
CloseHandleLocked ==
  /\ Script /\ lock_on_close
  /\ IF lock THEN stuck' = TRUE /\ UNCHANGED lock ELSE lock' = TRUE /\ UNCHANGED stuck
  /\ UNCHANGED <<regs, stack, bus, lock_on_close, wedged>>

\* freedevhandle with lock_on_close: lock, close, unlock.  Where the thread holds
\* the lock already, it waits for ever.
CloseHandle ==
  /\ Script /\ lock_on_close
  /\ stuck' = lock
  /\ UNCHANGED <<regs, stack, bus, lock, lock_on_close, wedged>>

-----------------------------------------------------------------------------
Library == Enumerate \/ EndRegister \/ EndEvents \/ \E r \in Reg : Dispatch(r)

Return == ReturnFalse \/ ReturnTrue \/ Raise

Next ==
  \/ \E h \in Hpl : (\E e \in BOOLEAN : Register(h, e)) \/ Deregister(h)
  \/ Library \/ Return
  \/ Post \/ HandleEvents
  \/ LockOnClose \/ CloseHandle

\* libusb's functions run on, callbacks return, and the script has an event loop.
Spec == Init /\ [][Next]_vars /\ WF_vars(Library) /\ WF_vars(Return) /\ WF_vars(HandleEvents)

-----------------------------------------------------------------------------
(* Properties.                                                             *)

Frame ==
  [at : {"events"}, todo : SUBSET Reg]
  \cup [at : {"register"}, r : Reg, left : 0 .. Attached]
  \cup [at : {"callback"}, r : Reg, ud : Reg]

TypeOK ==
  /\ object \in [Hpl -> 0 .. MaxReg] /\ cb_handle \in [Hpl -> 0 .. MaxReg]
  /\ reg \in [Reg -> [active : BOOLEAN, user : Hpl \cup {Nil}]]
  /\ last \in 0 .. MaxReg
  /\ stack \in Seq(Frame)
  /\ pending \in 0 .. posted /\ posted \in 0 .. MaxEvents
  /\ lock \in BOOLEAN /\ lock_on_close \in BOOLEAN /\ stuck \in BOOLEAN /\ wedged \in BOOLEAN
  /\ lost \in SUBSET Reg

\* The registrations under way.
Registering == {stack[i].r : i \in {j \in 1 .. Len(stack) : stack[j].at = "register"}}

\* A hotplug object is registered until it is destroyed, and knows the handle to
\* deregister it by once hotplug_register has returned, unless it is lost: see
\* CallbacksOwned.
ObjectsRegistered ==
  \A h \in Hpl :
    LET r == object[h]
    IN  r # 0 => /\ reg[r] = [active |-> TRUE, user |-> h]
                 /\ r \notin lost => cb_handle[h] = IF r \in Registering THEN 0 ELSE r

\* What libusb would call back has its object still.  The exceptions are the
\* registrations that are lost: their callback has returned true, or raised an
\* error, in their enumeration, or libusb has overwritten their handle at the end
\* of the enumeration of such a one.  These stay registered.
CallbacksOwned ==
  \A r \in Active : object[reg[r].user] = r \/ r \in lost

\* Nothing is lost where nothing is enumerated.
LostEnumerating == [][lost' # lost => \E r \in Registering : r \in lost']_vars

\* In a callback, however nested, the object Callback has found is the one the
\* event is for.
CallsOwner ==
  \A i \in 1 .. Len(stack) :
    stack[i].at = "callback" => stack[i].ud = stack[i].r \/ stack[i].r \in lost

\* Objects, registrations and the calls under way agree.
RegistrationsOwned == TypeOK /\ ObjectsRegistered /\ CallbacksOwned /\ CallsOwner

\* "By returning true it causes the hotplug to be deregistered"
\* (src/doc/hotplug.adoc), once its registration has returned; and no hotplug but
\* its own.
TrueDeregisters ==
  [][ReturnTrue =>
       /\ Top.r \notin lost' => ~ reg'[Top.r].active
       /\ {Top.r, Top.ud} \cap lost = {} => \A r \in Reg \ {Top.r} : reg'[r] = reg[r]]_vars

\* The event lock is held by the event handlers on the stack, or by one that an
\* error has left; the close of a handle leaves it as it was.
LockHeld == lock <=> Handling \/ wedged

\* An event loop handles every event, unless an error has been raised out of a
\* callback of handle_events, or a handle closed there under lock_on_close.
EventsHandled == pending > 0 ~> pending = 0 \/ wedged \/ stuck
=============================================================================
