------------------------------- MODULE Udata -------------------------------
(***************************************************************************)
(* The userdata layer of MoonUSB (src/udata.c, src/objects.c): the         *)
(* database that maps the handle of each object to the Lua userdata        *)
(* created for it, and the two uses MoonUSB makes of the Lua registry: one *)
(* slot anchors the userdata of every object, so that the collector cannot *)
(* take it, and one slot holds each callback a script passes.              *)
(*                                                                         *)
(* The registry is Lua's, not MoonUSB's: luaL_ref and luaL_unref are       *)
(* modelled from how they are used here.  Lua keeps the released slots in  *)
(* a list threaded through the registry and rooted at slot 0; here they    *)
(* are a set, which allows every order in which Lua could reuse them.      *)
(***************************************************************************)
EXTENDS Integers

CONSTANTS
  Userdata,   \* the addresses of the userdata (ud_t structs) Lua allocates
  Handle,     \* the addresses that identify objects; reused after a free
  Callback,   \* Lua functions
  Nil,
  MaxSlot     \* bound on the slots of the registry

ASSUME UdataAssumption ==
  /\ MaxSlot \in Nat
  /\ Nil \notin Userdata \cup Callback \cup Handle
  /\ Userdata \cap Callback = {}

NoRef == -2   \* LUA_NOREF
Slot == 1 .. MaxSlot
Value == Userdata \cup Callback \cup {Nil}

VARIABLES
  ud,         \* the memory of each userdata: Valid mark, handle and ref1
  db,         \* the tree of udata_t, by handle: ref and mem (Nil: no entry)
  registry,   \* the Lua registry: slot values, released slots, last slot used
  log_cb_ref, \* context.c: the reference of the global log callback
  held        \* userdata the script, or the Lua stack, has references to

vars == <<ud, db, registry, log_cb_ref, held>>

-----------------------------------------------------------------------------
(* The registry (external).                                                *)

\* The slots luaL_ref may hand out: a released one, else the next one.
RefSlots(g) == (IF g.free # {} THEN g.free ELSE {g.top + 1}) \cap Slot

LuaRef(g, r, v) ==
  [slot |-> [g.slot EXCEPT ![r] = v],
   free |-> g.free \ {r},
   top  |-> IF r > g.top THEN r ELSE g.top]

\* luaL_unref ignores negative references.  Reference 0 is never handed out: it
\* is the root of the list of released slots, and "releasing" it cuts the list.
LuaUnref(g, r) ==
  [slot |-> [s \in Slot |-> IF s = r THEN Nil ELSE g.slot[s]],
   free |-> IF r = 0 THEN {} ELSE g.free \cup ({r} \cap Slot),
   top  |-> g.top]

-----------------------------------------------------------------------------
Blank == [state |-> "none", handle |-> Nil, ref1 |-> 0]
NoEntry == [ref |-> NoRef, mem |-> Nil]

Valid(u) == ud[u].state = "valid"
Anchored(u) == \E s \in Slot : registry.slot[s] = u

Init ==
  /\ ud = [u \in Userdata |-> Blank]
  /\ db = [h \in Handle |-> NoEntry]
  /\ registry = [slot |-> [s \in Slot |-> Nil], free |-> {}, top |-> 0]
  /\ log_cb_ref = NoRef
  /\ held = {}

\* (Mutant: the references of a new ud_t are initialised to LUA_NOREF.)
FreshNoRef(h, ref) ==
  [state |-> "valid", handle |-> h, ref1 |-> IF ref = 0 THEN NoRef ELSE ref]

\* newuserdata zeroes the ud_t, so that its references start at 0, and not at
\* LUA_NOREF.
Fresh(h, ref) == [state |-> "valid", handle |-> h, ref1 |-> ref]

\* (Mutant: udata_new does not look for a duplicate.)
InsertDuplicate(g, u, h, ref) ==
  /\ ud[u].state = "none"
  /\ \E r \in RefSlots(g) :
       /\ registry' = LuaRef(g, r, u)
       /\ db' = [db EXCEPT ![h] = [ref |-> r, mem |-> u]]
  /\ ud' = [ud EXCEPT ![u] = Fresh(h, ref)]
  /\ held' = held \cup {u}
  /\ UNCHANGED log_cb_ref

\* newuserdata, with registry g and callback reference ref: udata_new refuses a
\* handle that is in the tree ("duplicated object"), anchors the new userdata
\* and inserts the entry.
Insert(g, u, h, ref) ==
  /\ ud[u].state = "none"
  /\ db[h].mem = Nil
  /\ \E r \in RefSlots(g) :
       /\ registry' = LuaRef(g, r, u)
       /\ db' = [db EXCEPT ![h] = [ref |-> r, mem |-> u]]
  /\ ud' = [ud EXCEPT ![u] = Fresh(h, ref)]
  /\ held' = held \cup {u}
  /\ UNCHANGED log_cb_ref

NewUserdata(u, h) == Insert(registry, u, h, 0)

\* Hotplug_register takes the reference of the callback first, in a local that
\* starts at LUA_NOREF, and stores it in the new userdata.
NewHotplug(u, h, f) ==
  \E r \in RefSlots(registry) : Insert(LuaRef(registry, r, f), u, h, r)

\* The Reference macro: release the old reference unless it is LUA_NOREF, and
\* take a new one.
Reference(old, new, f) ==
  LET g == IF old # NoRef THEN LuaUnref(registry, old) ELSE registry
  IN  /\ new \in RefSlots(g)
      /\ registry' = LuaRef(g, new, f)

\* (Mutant: the new reference is not stored in ref1.)
SetCallbackLost(u, f) ==
  /\ Valid(u)
  /\ u \in held
  /\ \E r \in Slot : Reference(ud[u].ref1, r, f)
  /\ UNCHANGED <<ud, db, log_cb_ref, held>>

\* Reference(L, arg, ud->ref1): Set_log_cb on a context, and the submit methods
\* on the transfer they have just created.
SetCallback(u, f) ==
  /\ Valid(u)
  /\ u \in held
  /\ \E r \in Slot :
       /\ Reference(ud[u].ref1, r, f)
       /\ ud' = [ud EXCEPT ![u].ref1 = r]
  /\ UNCHANGED <<db, log_cb_ref, held>>

\* Set_log_cb with a nil context.
SetLogger(f) ==
  /\ \E r \in Slot :
       /\ Reference(log_cb_ref, r, f)
       /\ log_cb_ref' = r
  /\ UNCHANGED <<ud, db, held>>

\* (Mutants: udata_free does not release the anchor; freeuserdata takes the global
\* log callback for the one of the object.)
FreeUserdataAnchored(u) ==
  /\ Valid(u)
  /\ registry' = LuaUnref(registry, ud[u].ref1)
  /\ db' = [db EXCEPT ![ud[u].handle] = NoEntry]
  /\ ud' = [ud EXCEPT ![u].state = "invalid"]
  /\ UNCHANGED <<log_cb_ref, held>>

FreeUserdataLogger(u) ==
  LET h == ud[u].handle
  IN  /\ Valid(u)
      /\ registry' = LuaUnref(LuaUnref(LuaUnref(registry, log_cb_ref), 0), db[h].ref)
      /\ db' = [db EXCEPT ![h] = NoEntry]
      /\ ud' = [ud EXCEPT ![u].state = "invalid"]
      /\ log_cb_ref' = NoRef
      /\ UNCHANGED held

\* freeuserdata: ref1, ref2 and ref3 are released (the last two always hold the
\* 0 of memset), then udata_free releases the anchor and removes the entry.
\* The destructors call it only on a userdata that is still valid.
FreeUserdata(u) ==
  LET h  == ud[u].handle
      g1 == IF ud[u].ref1 # NoRef THEN LuaUnref(registry, ud[u].ref1) ELSE registry
      g2 == LuaUnref(g1, 0)
      g3 == LuaUnref(g2, 0)
  IN  /\ Valid(u)
      /\ db[h].mem # Nil
      /\ registry' = IF db[h].ref # NoRef THEN LuaUnref(g3, db[h].ref) ELSE g3
      /\ db' = [db EXCEPT ![h] = NoEntry]
      /\ ud' = [ud EXCEPT ![u].state = "invalid"]
      /\ UNCHANGED <<log_cb_ref, held>>

\* pushxxx(handle): a callback, get_parent or open_device gives the script the
\* userdata of an object it may no longer have a reference to.
Push(h) ==
  /\ db[h].mem # Nil
  /\ db[h].ref # NoRef
  /\ registry.slot[db[h].ref] \in Userdata
  /\ held' = held \cup {registry.slot[db[h].ref]}
  /\ UNCHANGED <<ud, db, registry, log_cb_ref>>

\* The script forgets a reference (external).
Drop(u) ==
  /\ u \in held
  /\ held' = held \ {u}
  /\ UNCHANGED <<ud, db, registry, log_cb_ref>>

\* The collector reclaims a userdata nothing refers to (external).  It runs __gc
\* first, which destroys the object if it is valid: that is FreeUserdata.
Collect(u) ==
  /\ ud[u].state = "invalid"
  /\ u \notin held
  /\ ~ Anchored(u)
  /\ ud' = [ud EXCEPT ![u] = Blank]
  /\ UNCHANGED <<db, registry, log_cb_ref, held>>

Next ==
  \/ \E u \in Userdata, h \in Handle :
       \/ NewUserdata(u, h)
       \/ \E f \in Callback : NewHotplug(u, h, f)
  \/ \E u \in Userdata, f \in Callback : SetCallback(u, f)
  \/ \E f \in Callback : SetLogger(f)
  \/ \E u \in Userdata : FreeUserdata(u) \/ Drop(u) \/ Collect(u)
  \/ \E h \in Handle : Push(h)

Spec == Init /\ [][Next]_vars

-----------------------------------------------------------------------------
(* Properties.                                                             *)

\* The types of the variables.
TypeOK ==
  /\ ud \in [Userdata -> [state  : {"none", "valid", "invalid"},
                          handle : Handle \cup {Nil},
                          ref1   : Slot \cup {0}]]
  /\ db \in [Handle -> [ref : Slot \cup {NoRef}, mem : Userdata \cup {Nil}]]
  /\ registry \in [slot : [Slot -> Value], free : SUBSET Slot, top : Slot \cup {0}]
  /\ log_cb_ref \in Slot \cup {NoRef}
  /\ held \in SUBSET Userdata

\* The Valid marks and the database agree at all times: a userdata is valid
\* exactly when the entry of its handle is its own, and the slot of the entry
\* anchors it.  So pushxxx(handle) pushes the userdata of the object that has
\* the handle now, never one left over from an object that had it before, and
\* freeuserdata removes no entry but its own.
Bound ==
  /\ \A u \in Userdata : Valid(u) =>
       /\ ud[u].handle \in Handle
       /\ db[ud[u].handle].mem = u
  /\ \A h \in Handle : db[h].mem # Nil =>
       /\ Valid(db[h].mem)
       /\ ud[db[h].mem].handle = h
       /\ db[h].ref \in Slot
       /\ registry.slot[db[h].ref] = db[h].mem

\* The callback reference an owner has in use: a valid userdata its ref1, the
\* library itself (Nil) that of the global log callback.  Not positive: none.
Owner == Userdata \cup {Nil}
RefOf(o) ==
  IF o = Nil THEN log_cb_ref ELSE IF Valid(o) THEN ud[o].ref1 ELSE NoRef

\* No two owners share a slot of the registry, every slot in use holds a
\* callback, and the slots Lua has released, or never handed out, are empty: no
\* path releases a reference twice, or one that has been handed out again.
NoAliasing ==
  /\ \A o \in Owner : RefOf(o) > 0 =>
       /\ registry.slot[RefOf(o)] \in Callback
       /\ \A p \in Owner : RefOf(p) = RefOf(o) => p = o
  /\ \A s \in Slot :
       s \in registry.free \/ s > registry.top => registry.slot[s] = Nil

\* A userdata is anchored by the slot of its database entry and by no other, and
\* only while it is valid: destroying an object always leaves its userdata to
\* the collector, once the script forgets it too (introduction.adoc:44-45).
SoleAnchor ==
  \A u \in Userdata, s \in Slot :
    registry.slot[s] = u => Valid(u) /\ db[ud[u].handle].ref = s

\* The layer implements the abstract map of handles and callbacks.
CallbackOf(o) == IF RefOf(o) > 0 THEN registry.slot[RefOf(o)] ELSE Nil

Map == INSTANCE ObjectMap WITH
  bound    <- [h \in Handle |-> db[h].mem],
  callback <- [u \in Userdata |-> CallbackOf(u)],
  logger   <- CallbackOf(Nil)

\* Every step of the layer is a step of the map or changes nothing in it: what a
\* handle is bound to and which function a callback reference stands for change
\* only by an operation on that very handle, object or logger.
ImplementsMap == Map!Spec
=============================================================================
