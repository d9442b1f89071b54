----------------------------- MODULE Lifecycle -----------------------------
(***************************************************************************)
(* The life of MoonUSB's objects: the constructors of context.c, device.c, *)
(* devhandle.c, interface.c, hotplug.c, hostmem.c and transfer.c, and      *)
(* their destructors, which free the children of an object type by type    *)
(* (udata_scan), invalidate its userdata (freeuserdata) and only then      *)
(* release the libusb resource behind it.                                  *)
(*                                                                         *)
(* Constructors are single steps.  Destructors are not: their calls nest,  *)
(* so that their frames are kept on a stack, and each libusb call they     *)
(* make may run the script's log callback.  A constructor whose libusb     *)
(* call fails undoes what it did and raises an error: no step.             *)
(***************************************************************************)
EXTENDS Naturals, Sequences, ObjectTypes

CONSTANTS
  Num,           \* interface numbers
  CtxOf,         \* the context whose list a libusb device is in
  HubOf,         \* the hub of a device, or None
  MaxRefs,       \* bound on the references MoonUSB takes on a device
  Reclaim,       \* may the script claim an interface number twice?
  LogMayDestroy  \* may the script's log callback destroy objects?

ASSUME LifecycleAssumption ==
  /\ MaxRefs \in Nat
  /\ CtxOf \in [Dev -> Ctx]
  /\ HubOf \in [Dev -> Dev \cup {None}]
  /\ \A d \in Dev : HubOf[d] # None => CtxOf[HubOf[d]] = CtxOf[d]
  /\ {Reclaim, LogMayDestroy} \subseteq BOOLEAN

VARIABLES
  live,      \* objects with a valid userdata
  parent,    \* parent[o]: the object of ud->parent_ud, Root, or None
  stack,     \* frames of the running destructors, the innermost last
  res,       \* objects whose libusb resource (or reference) is not released
  attached,  \* devices in libusb's list, which holds a reference
  owned,     \* owned[d]: references MoonUSB has taken on device d
  claimed,   \* <<h, n>>: libusb has interface n of handle h claimed
  number,    \* number[i]: the interface number of interface object i
  closing    \* lua_close has begun

vars == <<live, parent, stack, res, attached, owned, claimed, number, closing>>

Init ==
  /\ live = {} /\ res = {}
  /\ parent = [o \in Obj |-> None]
  /\ stack = <<>>
  /\ attached \in SUBSET Dev
  /\ owned = [d \in Dev |-> 0]
  /\ claimed = {}
  /\ number = [i \in Itf |-> None]
  /\ closing = FALSE

-----------------------------------------------------------------------------
(* Constructors.                                                           *)

\* MoonUSB is single threaded: the script, or a callback of an event, makes its
\* calls when no destructor runs.
ScriptActs == stack = <<>> /\ ~ closing

\* newuserdata for the objects in the domain of f, with the parents of f.
Create(f) ==
  /\ DOMAIN f \cap res = {}
  /\ live' = live \cup DOMAIN f
  /\ res' = res \cup DOMAIN f
  /\ parent' = [o \in Obj |-> IF o \in DOMAIN f THEN f[o] ELSE parent[o]]

\* References taken on devices; the script stops before it exceeds the bound.
TakeRefs(n) ==
  /\ \A d \in Dev : owned[d] + n[d] <= MaxRefs
  /\ owned' = [d \in Dev |-> owned[d] + n[d]]

\* (Mutant: newdevice takes no reference.)
NoNewRef(S) == [d \in Dev |-> 0]

\* The reference newdevice takes for the objects it creates (or tries to).
NewRef(S) == [d \in Dev |-> IF d \in S THEN 1 ELSE 0]

InitContext(c) ==
  /\ ScriptActs
  /\ Create([o \in {c} |-> Root])
  /\ UNCHANGED <<stack, attached, owned, claimed, number, closing>>

\* libusb_get_device_list takes a reference on each device it lists, that is
\* not returned (libusb_free_device_list(list, 0)), and newdevice takes another.
\* A listed device that has an object already is a "duplicated object": the
\* error leaves the devices before it with objects, and all with references.
GetDeviceList(c) ==
  LET list  == {d \in attached : CtxOf[d] = c}
      known == list \cap live
  IN  /\ ScriptActs
      /\ c \in live
      /\ \E new \in SUBSET (list \ known), dup \in SUBSET known :
           /\ IF known = {} THEN new = list ELSE \E d \in known : dup = {d}
           /\ Create([d \in new |-> c])
           /\ TakeRefs([d \in Dev |-> NewRef(list)[d] + NewRef(new \cup dup)[d]])
      /\ UNCHANGED <<stack, attached, claimed, number, closing>>

\* newdevice, for a device that has no object yet.
NewDevice(d) ==
  /\ ScriptActs
  /\ d \notin live
  /\ Create([o \in {d} |-> CtxOf[d]])
  /\ TakeRefs(NewRef({d}))
  /\ UNCHANGED <<stack, attached, claimed, number, closing>>

GetParent(e) == HubOf[e] # None /\ e \in live /\ NewDevice(HubOf[e])

\* The hotplug callback, before it calls the script.
HotplugEvent(k, d) ==
  /\ k \in live /\ d \in attached
  /\ parent[k] = CtxOf[d]
  /\ NewDevice(d)

Open(d, h) ==
  /\ ScriptActs
  /\ d \in live \cap attached
  /\ Create([o \in {h} |-> d])
  /\ UNCHANGED <<stack, attached, owned, claimed, number, closing>>

\* Open_device opens first, and creates the device object if there is none.
OpenDevice(d, h) ==
  /\ ScriptActs
  /\ d \in attached /\ CtxOf[d] \in live
  /\ LET new == {d} \ live
     IN  /\ Create([o \in new \cup {h} |-> IF o = h THEN d ELSE CtxOf[d]])
         /\ TakeRefs(NewRef(new))
  /\ UNCHANGED <<stack, attached, claimed, number, closing>>

\* (Mutant: newinterface keeps the object when the claim fails.)
ClaimInterfaceKept(h, i, n) ==
  /\ ScriptActs
  /\ h \in live
  /\ Reclaim \/ <<h, n>> \notin claimed
  /\ Create([o \in {i} |-> h])
  /\ claimed' \in {claimed, claimed \cup {<<h, n>>}}
  /\ number' = [number EXCEPT ![i] = n]
  /\ UNCHANGED <<stack, attached, owned, closing>>

\* libusb_claim_interface succeeds also for a number claimed before.
ClaimInterface(h, i, n) ==
  /\ ScriptActs
  /\ h \in live
  /\ Reclaim \/ <<h, n>> \notin claimed
  /\ Create([o \in {i} |-> h])
  /\ claimed' = claimed \cup {<<h, n>>}
  /\ number' = [number EXCEPT ![i] = n]
  /\ UNCHANGED <<stack, attached, owned, closing>>

\* A new object o under p, whose constructor takes no more than its resource.
Attach(o, p) ==
  /\ ScriptActs
  /\ p \in live \cup {Root}
  /\ Create([x \in {o} |-> p])
  /\ UNCHANGED <<stack, attached, owned, claimed, number, closing>>

NewTransfer(x, h) == Attach(x, h)
HotplugRegister(k, c) == Attach(k, c)

\* malloc with or without a device handle, aligned_alloc and hostmem.
NewHostmem(m, p) == Attach(m, p)

-----------------------------------------------------------------------------
(* Destructors.                                                            *)

Top == stack[Len(stack)]
Caller == SubSeq(stack, 1, Len(stack) - 1)
Goto(pc) == stack' = Append(Caller, [Top EXCEPT !.pc = pc])
Call(o) == stack' = Append(stack, [obj |-> o, pc |-> 1])

\* Where a frame is: it scans for children, frees its userdata, or releases its
\* resource, the last with a libusb call.
Running == stack # <<>>
Scanning == Running /\ Top.pc <= Len(Scans(Top.obj))
Freeing == Running /\ Top.pc = Len(Scans(Top.obj)) + 1
Releasing == Running /\ Top.pc = Len(Scans(Top.obj)) + 2

\* The free, close, release, deregister and exit methods, the end of a callback,
\* and the collector at exit, in any order.  A log callback that runs inside a
\* libusb call may do the same.
Destroy(o) ==
  /\ o \in live
  /\ stack = <<>> \/ (LogMayDestroy /\ Releasing)
  /\ Call(o)
  /\ UNCHANGED <<live, parent, res, attached, owned, claimed, number, closing>>

\* (Mutant: freeifchild does not compare the parent.)
FreeAny(o) ==
  /\ Scanning
  /\ o \in live \cap Scans(Top.obj)[Top.pc]
  /\ Call(o)
  /\ UNCHANGED <<live, parent, res, attached, owned, claimed, number, closing>>

\* udata_scan: the next child of the type, in the order of their addresses.
FreeChild(o) ==
  /\ Scanning
  /\ o \in live \cap Scans(Top.obj)[Top.pc]
  /\ parent[o] = Top.obj
  /\ Call(o)
  /\ UNCHANGED <<live, parent, res, attached, owned, claimed, number, closing>>

EndScan ==
  /\ Scanning
  /\ \A o \in live \cap Scans(Top.obj)[Top.pc] : parent[o] # Top.obj
  /\ Goto(Top.pc + 1)
  /\ UNCHANGED <<live, parent, res, attached, owned, claimed, number, closing>>

\* (Mutants: freeuserdata does not clear the Valid mark, or tests it after it has
\* cleared it.)
FreeUserdataValid ==
  /\ Freeing
  /\ IF Top.obj \in live THEN Goto(Top.pc + 1) ELSE stack' = Caller
  /\ UNCHANGED <<live, parent, res, attached, owned, claimed, number, closing>>

FreeUserdataLate ==
  /\ Freeing
  /\ stack' = Caller /\ live' = live \ {Top.obj}
  /\ UNCHANGED <<parent, res, attached, owned, claimed, number, closing>>

\* freeuserdata: the Valid mark tells whether another call, nested in this one,
\* has destroyed the object; then nothing is left to do.
FreeUserdata ==
  /\ Freeing
  /\ IF Top.obj \in live
     THEN Goto(Top.pc + 1) /\ live' = live \ {Top.obj}
     ELSE stack' = Caller /\ UNCHANGED live
  /\ UNCHANGED <<parent, res, attached, owned, claimed, number, closing>>

\* The libusb call: libusb_exit, unref_device, close, release_interface, cancel
\* and free_transfer, dev_mem_free, hotplug_deregister_callback.  With the
\* resource of the parent gone it is undefined: the model stops there.
Usable(o) == parent[o] \in res \cup {Root}

\* (Mutant: freeinterface reads the Claimed mark too late.)
NoUnclaim(o) == claimed

\* freeinterface releases the interface if the object has the Claimed mark.
Unclaim(o) == IF o \in Itf THEN claimed \ {<<parent[o], number[o]>>} ELSE claimed

ReleaseResource ==
  LET o == Top.obj
  IN  /\ Releasing
      /\ Usable(o)
      /\ stack' = Caller
      /\ res' = res \ {o}
      /\ owned' = IF o \in Dev THEN [owned EXCEPT ![o] = @ - 1] ELSE owned
      /\ claimed' = Unclaim(o)
      /\ number' = IF o \in Itf THEN [number EXCEPT ![o] = None] ELSE number
      /\ parent' = [parent EXCEPT ![o] = None]
      /\ UNCHANGED <<live, attached, closing>>

-----------------------------------------------------------------------------
(* The environment.                                                        *)

\* libusb drops its reference on a device that leaves, and lists a new device,
\* possibly at an address that no reference keeps in use.
Unplug(d) ==
  /\ d \in attached
  /\ attached' = attached \ {d}
  /\ UNCHANGED <<live, parent, stack, res, owned, claimed, number, closing>>

Plug(d) ==
  /\ d \notin attached /\ owned[d] = 0
  /\ \A h \in Hnd \cap res : parent[h] # d
  /\ attached' = attached \cup {d}
  /\ UNCHANGED <<live, parent, stack, res, owned, claimed, number, closing>>

\* The program ends: lua_close collects every userdata.
LuaClose ==
  /\ ScriptActs
  /\ closing' = TRUE
  /\ UNCHANGED <<live, parent, stack, res, attached, owned, claimed, number>>

-----------------------------------------------------------------------------
Script ==
  \/ \E c \in Ctx : InitContext(c) \/ GetDeviceList(c)
  \/ \E d \in Dev : GetParent(d) \/ \E k \in Hpl : HotplugEvent(k, d)
  \/ \E d \in Dev, h \in Hnd : Open(d, h) \/ OpenDevice(d, h)
  \/ \E h \in Hnd, i \in Itf, n \in Num : ClaimInterface(h, i, n)
  \/ \E h \in Hnd, x \in Xfr : NewTransfer(x, h)
  \/ \E c \in Ctx, k \in Hpl : HotplugRegister(k, c)
  \/ \E m \in Mem, p \in Hnd \cup {Root} : NewHostmem(m, p)
  \/ LuaClose

Destructor == (\E o \in Obj : FreeChild(o)) \/ EndScan \/ FreeUserdata \/ ReleaseResource

Collect == closing /\ \E o \in Obj : Destroy(o)

Next ==
  \/ Script
  \/ \E o \in Obj : Destroy(o)
  \/ Destructor
  \/ \E d \in Dev : Plug(d) \/ Unplug(d)

Spec == Init /\ [][Next]_vars

\* A destructor runs to its end once called, and lua_close goes on until it has
\* called every finalizer.
FairSpec == Spec /\ WF_vars(Destructor) /\ WF_vars(Collect)

-----------------------------------------------------------------------------
(* Properties.                                                             *)

\* The types of the variables.
TypeOK ==
  /\ live \in SUBSET Obj /\ res \in SUBSET Obj
  /\ parent \in [Obj -> Obj \cup {Root, None}]
  /\ stack \in Seq([obj : Obj, pc : 1 .. 5])
  /\ attached \in SUBSET Dev
  /\ owned \in [Dev -> 0 .. MaxRefs]
  /\ claimed \in SUBSET (Hnd \X Num)
  /\ number \in [Itf -> Num \cup {None}]
  /\ closing \in BOOLEAN

\* No resource outlives the one it depends on: interfaces are released, transfers
\* and DMA memory freed before libusb_close, handles closed before the device is
\* let go, everything before libusb_exit; and a valid object has its resource.
ResourcesNested ==
  /\ TypeOK
  /\ live \subseteq res
  /\ \A o \in res : Usable(o)

\* The destructors never release a resource twice, whatever the log callback
\* destroys in the middle of a destructor: at most one frame of an object is past
\* its freeuserdata, and then the resource is there to be released.
ReleasedOnce ==
  \A j \in DOMAIN stack :
    LET f == stack[j]
    IN  f.pc = Len(Scans(f.obj)) + 2 =>
          /\ f.obj \in res \ live
          /\ \A k \in DOMAIN stack : stack[k] = f => k = j

\* An interface object stands for a claimed interface, as doc/device.adoc says of
\* claim_interface; and libusb has an interface claimed only as long as an object
\* stands for it: no sequence of calls leaves one claimed that nothing can release.
ClaimsMatch ==
  LET Claims(S) == {<<parent[i], number[i]>> : i \in Itf \cap S}
  IN  Claims(live) \subseteq claimed /\ claimed \subseteq Claims(res)

\* The device behind a valid object, or behind an open handle's parent, is not
\* deleted by libusb: a reference of MoonUSB keeps it until the object goes.
DevicesPinned == \A d \in Dev \cap res : owned[d] > 0

\* What the comment in freedevice says of a device whose handles it has closed, and
\* which libusb lists no more: the reference to be given back is the last ("now the
\* ref count should be 1 and by decrementing it to 0 libusb should delete it").
LastReference == Releasing /\ Top.obj \in Dev \ attached => owned[Top.obj] = 1

\* An object leaves the documented tree when a destructor is called on it or on
\* an object above it.
Doomed(o) == \E j \in DOMAIN stack : stack[j].obj \in Above(parent, o)

Standing == [o \in Obj |-> IF o \in live /\ ~ Doomed(o) THEN parent[o] ELSE None]
Released == IF stack = <<>> THEN None ELSE stack[1].obj

Tree == INSTANCE ObjectTree WITH tree <- Standing, releasing <- Released

\* The micro-steps of the nested destructors amount to the documented release of
\* a whole subtree at once: they leave no descendant behind and take no other
\* object, whatever was created and destroyed before.
ImplementsTree == Tree!Spec

\* lua_close releases every libusb resource, whatever order the collector takes
\* the objects in ("graceful release whenever possible", introduction.adoc).
ShutdownReleases == closing ~> (live = {} /\ res = {} /\ claimed = {} /\ stack = <<>>)
=============================================================================
