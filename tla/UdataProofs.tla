---------------------------- MODULE UdataProofs ----------------------------
(***************************************************************************)
(* Proofs about the userdata layer, for every set of userdata, handles and *)
(* callbacks and every size of the registry.                               *)
(***************************************************************************)
EXTENDS Udata, TLAPS

\* A registry of the right type whose free slots are empty.
RegistryOK(g) ==
  /\ g \in [slot : [Slot -> Value], free : SUBSET Slot, top : Slot \cup {0}]
  /\ \A s \in Slot : s \in g.free \/ s > g.top => g.slot[s] = Nil

\* The inductive invariant.  Bound alone is not inductive: that destroying an
\* object leaves the anchors of the others alone follows from the shape of the
\* whole registry, that is from NoAliasing and SoleAnchor.
Inv == TypeOK /\ Bound /\ NoAliasing /\ SoleAnchor

-----------------------------------------------------------------------------
(* The registry.                                                           *)

LEMMA TopType ==
  ASSUME NEW g, RegistryOK(g)
  PROVE  g.top \in Nat /\ g.top <= MaxSlot
BY UdataAssumption DEF RegistryOK, Slot

\* luaL_ref hands out an empty slot, and writes no other.
LEMMA LuaRefOK ==
  ASSUME NEW g, RegistryOK(g), NEW v \in Value, NEW r \in RefSlots(g)
  PROVE  /\ r \in Slot
         /\ g.slot[r] = Nil
         /\ RegistryOK(LuaRef(g, r, v))
         /\ LuaRef(g, r, v).slot[r] = v
         /\ \A s \in Slot : s # r => LuaRef(g, r, v).slot[s] = g.slot[s]
<1>1. r \in Slot
  BY DEF RefSlots
<1>2. g.slot[r] = Nil
  BY <1>1, TopType, UdataAssumption DEF RefSlots, RegistryOK, Slot
<1>3. LuaRef(g, r, v).slot = [g.slot EXCEPT ![r] = v]
  BY DEF LuaRef
<1>4. LuaRef(g, r, v) \in [slot : [Slot -> Value], free : SUBSET Slot, top : Slot \cup {0}]
  BY <1>1 DEF RegistryOK, LuaRef
<1>5. ASSUME NEW s \in Slot, s \in LuaRef(g, r, v).free \/ s > LuaRef(g, r, v).top
      PROVE  LuaRef(g, r, v).slot[s] = Nil
  <2>1. s # r /\ (s \in g.free \/ s > g.top)
    BY <1>1, <1>5, TopType, UdataAssumption DEF LuaRef, Slot
  <2> QED BY <1>1, <2>1 DEF RegistryOK, LuaRef
<1> QED BY <1>1, <1>2, <1>3, <1>4, <1>5 DEF RegistryOK

\* luaL_unref empties the slot it releases, and writes no other.
LEMMA LuaUnrefOK ==
  ASSUME NEW g, RegistryOK(g), NEW r \in Slot \cup {0, NoRef}
  PROVE  /\ RegistryOK(LuaUnref(g, r))
         /\ \A s \in Slot : LuaUnref(g, r).slot[s] = IF s = r THEN Nil ELSE g.slot[s]
<1>1. r \in Int
  BY UdataAssumption DEF Slot, NoRef
<1>2. LuaUnref(g, r).slot \in [Slot -> Value]
  BY DEF LuaUnref, RegistryOK, Value
<1>3. LuaUnref(g, r).free \subseteq g.free \cup ({r} \cap Slot)
  BY DEF LuaUnref
<1>4. LuaUnref(g, r).free \in SUBSET Slot
  BY <1>1, <1>3, UdataAssumption DEF RegistryOK, Slot, NoRef
<1>5. LuaUnref(g, r) \in [slot : [Slot -> Value], free : SUBSET Slot, top : Slot \cup {0}]
  BY <1>2, <1>4 DEF LuaUnref, RegistryOK
<1>6. \A s \in Slot : LuaUnref(g, r).slot[s] = IF s = r THEN Nil ELSE g.slot[s]
  BY DEF LuaUnref
<1>7. \A s \in Slot : s \in LuaUnref(g, r).free \/ s > LuaUnref(g, r).top
                        => LuaUnref(g, r).slot[s] = Nil
  <2>1. LuaUnref(g, r).top = g.top
    BY DEF LuaUnref
  <2> QED BY <1>3, <1>6, <2>1 DEF RegistryOK
<1> QED BY <1>5, <1>6, <1>7 DEF RegistryOK

LEMMA InvRegistryOK == Inv => RegistryOK(registry)
BY DEF Inv, TypeOK, NoAliasing, RegistryOK

-----------------------------------------------------------------------------
(* Each operation preserves the invariant.                                 *)

LEMMA InitInv == Init => Inv
BY UdataAssumption
   DEF Init, Inv, TypeOK, Bound, NoAliasing, SoleAnchor, Owner, RefOf, Valid,
       Blank, NoEntry, NoRef, Slot, Value

\* newuserdata.  g is the registry it finds, in which at most the slot of the
\* callback reference it is given differs from the one of the state.
LEMMA InsertInv ==
  ASSUME Inv, NEW u \in Userdata, NEW h \in Handle,
         NEW g, RegistryOK(g), NEW ref \in Slot \cup {0},
         \A s \in Slot : s # ref => g.slot[s] = registry.slot[s],
         ref # 0 => registry.slot[ref] = Nil /\ g.slot[ref] \in Callback,
         Insert(g, u, h, ref)
  PROVE  Inv'
<1>1. PICK r \in RefSlots(g) :
        /\ registry' = LuaRef(g, r, u)
        /\ db' = [db EXCEPT ![h] = [ref |-> r, mem |-> u]]
  BY DEF Insert
<1>2. /\ r \in Slot /\ g.slot[r] = Nil /\ RegistryOK(registry)'
      /\ registry'.slot[r] = u
      /\ \A s \in Slot : s # r => registry'.slot[s] = g.slot[s]
  BY <1>1, LuaRefOK DEF Value, RegistryOK
<1>3. /\ r # ref
      /\ registry.slot[r] = Nil
      /\ \A s \in Slot : registry.slot[s] # Nil =>
             s # r /\ s # ref /\ registry'.slot[s] = registry.slot[s]
      /\ ref # 0 => registry'.slot[ref] \in Callback
  BY <1>2, UdataAssumption DEF Slot
<1>4. /\ ud' = [ud EXCEPT ![u] = Fresh(h, ref)]
      /\ ud[u].state = "none"
      /\ db[h].mem = Nil
      /\ held' = held \cup {u}
      /\ log_cb_ref' = log_cb_ref
  BY DEF Insert
<1>5. u # Nil /\ \A v \in Userdata : v # Nil
  BY UdataAssumption
<1>6. TypeOK'
  BY <1>1, <1>2, <1>4 DEF Inv, TypeOK, RegistryOK, Fresh
<1>7. /\ Valid(u)' /\ ud'[u].handle = h /\ ud'[u].ref1 = ref
      /\ ~ Valid(u)
      /\ \A v \in Userdata : v # u => ud'[v] = ud[v] /\ Valid(v)' = Valid(v)
  BY <1>4 DEF Inv, TypeOK, Valid, Fresh
<1>8. /\ db'[h].mem = u /\ db'[h].ref = r
      /\ \A k \in Handle : k # h => db'[k] = db[k]
  BY <1>1 DEF Inv, TypeOK
<1>9. Bound'
  <2>1. ASSUME NEW v \in Userdata, Valid(v)'
        PROVE  ud'[v].handle \in Handle /\ db'[ud'[v].handle].mem = v
    BY <2>1, <1>4, <1>5, <1>7, <1>8 DEF Inv, Bound
  <2>2. ASSUME NEW k \in Handle, db'[k].mem # Nil
        PROVE  /\ Valid(db[k].mem)' /\ ud'[db'[k].mem].handle = k
               /\ db'[k].ref \in Slot /\ registry'.slot[db'[k].ref] = db'[k].mem
    <3>1. CASE k = h
      BY <3>1, <1>2, <1>7, <1>8 DEF Valid
    <3>2. CASE k # h
      <4>1. /\ db'[k] = db[k] /\ Valid(db[k].mem) /\ ud[db[k].mem].handle = k
            /\ db[k].ref \in Slot /\ registry.slot[db[k].ref] = db[k].mem
        BY <2>2, <3>2, <1>8 DEF Inv, Bound
      <4>2. db[k].mem \in Userdata /\ db[k].mem # u
        BY <2>2, <4>1, <1>7 DEF Inv, TypeOK
      <4> QED BY <2>2, <4>1, <4>2, <1>3, <1>7 DEF Valid
    <3> QED BY <3>1, <3>2
  <2> QED BY <2>1, <2>2 DEF Bound, Valid
<1>10. NoAliasing'
  <2>1. \A o \in Owner : o # u => RefOf(o)' = RefOf(o)
    BY <1>4, <1>7 DEF RefOf, Owner, Valid
  <2>2. RefOf(u)' = ref
    BY <1>5, <1>7 DEF RefOf
  <2>3. \A o \in Owner : RefOf(o) > 0 =>
          /\ RefOf(o) \in Slot /\ registry.slot[RefOf(o)] \in Callback
          /\ RefOf(o) # ref /\ registry'.slot[RefOf(o)] \in Callback
    <3>1. \A o \in Owner : RefOf(o) > 0 => RefOf(o) \in Slot
      BY UdataAssumption DEF Inv, TypeOK, RefOf, Owner, Slot, NoRef
    <3> QED BY <3>1, <1>3, UdataAssumption DEF Inv, NoAliasing
  <2>4. ASSUME NEW o \in Owner, RefOf(o)' > 0
        PROVE  /\ registry'.slot[RefOf(o)'] \in Callback
               /\ \A p \in Owner : RefOf(p)' = RefOf(o)' => p = o
    BY <2>1, <2>2, <2>3, <2>4, <1>3 DEF Inv, NoAliasing
  <2> QED BY <2>4, <1>2 DEF NoAliasing, RegistryOK
<1>11. SoleAnchor'
  <2> SUFFICES ASSUME NEW v \in Userdata, NEW s \in Slot, registry'.slot[s] = v
               PROVE  Valid(v)' /\ db'[ud'[v].handle].ref = s
    BY DEF SoleAnchor, Valid
  <2>1. CASE s = r
    BY <2>1, <1>2, <1>7, <1>8
  <2>2. CASE s # r
    <3>1. registry.slot[s] = v
      BY <2>2, <1>2, UdataAssumption DEF Slot
    <3>2. Valid(v) /\ db[ud[v].handle].ref = s /\ v # u /\ ud[v].handle # h
      BY <3>1, <1>4, <1>5, <1>7 DEF Inv, SoleAnchor, Bound
    <3> QED BY <3>2, <1>7, <1>8 DEF Inv, Bound
  <2> QED BY <2>1, <2>2
<1> QED BY <1>6, <1>9, <1>10, <1>11 DEF Inv

LEMMA NewUserdataInv ==
  ASSUME Inv, NEW u \in Userdata, NEW h \in Handle, NewUserdata(u, h)
  PROVE  Inv'
BY InvRegistryOK, InsertInv DEF NewUserdata

LEMMA NewHotplugInv ==
  ASSUME Inv, NEW u \in Userdata, NEW h \in Handle, NEW f \in Callback,
         NewHotplug(u, h, f)
  PROVE  Inv'
<1>1. PICK r \in RefSlots(registry) : Insert(LuaRef(registry, r, f), u, h, r)
  BY DEF NewHotplug
<1> DEFINE g == LuaRef(registry, r, f)
<1>2. /\ r \in Slot /\ registry.slot[r] = Nil /\ RegistryOK(g) /\ g.slot[r] = f
      /\ \A s \in Slot : s # r => g.slot[s] = registry.slot[s]
  BY InvRegistryOK, LuaRefOK DEF Value
<1> HIDE DEF g
<1>3. Insert(g, u, h, r)
  BY <1>1 DEF g
<1> QED BY <1>2, <1>3, InsertInv

\* The Reference macro empties the slot of the old reference and fills one that
\* was empty, or the same.
LEMMA ReferenceOK ==
  ASSUME Inv, NEW old \in Slot \cup {0, NoRef}, NEW new \in Slot,
         NEW f \in Callback, Reference(old, new, f)
  PROVE  /\ RegistryOK(registry)'
         /\ registry'.slot[new] = f
         /\ new = old \/ registry.slot[new] = Nil
         /\ \A s \in Slot : s # new =>
              registry'.slot[s] = IF s = old THEN Nil ELSE registry.slot[s]
<1> DEFINE g == IF old # NoRef THEN LuaUnref(registry, old) ELSE registry
<1>1. /\ RegistryOK(g)
      /\ \A s \in Slot : g.slot[s] = IF s = old THEN Nil ELSE registry.slot[s]
  <2>1. RegistryOK(registry)
    BY InvRegistryOK
  <2>2. CASE old # NoRef
    BY <2>1, <2>2, LuaUnrefOK
  <2>3. CASE old = NoRef
    BY <2>1, <2>3 DEF Slot, NoRef
  <2> QED BY <2>2, <2>3
<1>2. new \in RefSlots(g) /\ registry' = LuaRef(g, new, f)
  BY DEF Reference
<1> HIDE DEF g
<1>3. f \in Value
  BY DEF Value
<1>4. /\ g.slot[new] = Nil /\ RegistryOK(LuaRef(g, new, f))
      /\ LuaRef(g, new, f).slot[new] = f
      /\ \A s \in Slot : s # new => LuaRef(g, new, f).slot[s] = g.slot[s]
  BY <1>1, <1>2, <1>3, LuaRefOK
<1> QED BY <1>1, <1>2, <1>4 DEF RegistryOK

\* An owner's reference is replaced; nothing else changes but the registry.
LEMMA ReplaceInv ==
  ASSUME Inv, NEW o \in Owner, NEW old \in Slot \cup {0, NoRef}, NEW new \in Slot,
         NEW f \in Callback, Reference(old, new, f),
         RefOf(o) = old, RefOf(o)' = new,
         \A p \in Owner : p # o => RefOf(p)' = RefOf(p),
         \A u \in Userdata : ud'[u].state = ud[u].state /\ ud'[u].handle = ud[u].handle,
         TypeOK', UNCHANGED db
  PROVE  Inv'
<1>1. /\ RegistryOK(registry)'
      /\ registry'.slot[new] = f
      /\ new = old \/ registry.slot[new] = Nil
      /\ \A s \in Slot : s # new =>
           registry'.slot[s] = IF s = old THEN Nil ELSE registry.slot[s]
  BY ReferenceOK
<1>2. \A p \in Owner : RefOf(p) > 0 => RefOf(p) \in Slot
  BY UdataAssumption DEF Inv, TypeOK, RefOf, Owner, Slot, NoRef
<1>3. old \in Slot => registry.slot[old] \in Callback
  BY UdataAssumption DEF Inv, NoAliasing, Slot
\* The slots of userdata are left alone, and no slot becomes a userdata's.
<1>4. \A s \in Slot, u \in Userdata : registry'.slot[s] = u <=> registry.slot[s] = u
  BY <1>1, <1>3, UdataAssumption
<1>5. \A u \in Userdata : Valid(u)' = Valid(u) /\ ud'[u].handle = ud[u].handle
  BY DEF Valid
<1>6. Bound'
  <2>1. ASSUME NEW u \in Userdata, Valid(u)'
        PROVE  ud'[u].handle \in Handle /\ db'[ud'[u].handle].mem = u
    BY <2>1, <1>5 DEF Inv, Bound
  <2>2. ASSUME NEW h \in Handle, db'[h].mem # Nil
        PROVE  /\ Valid(db[h].mem)' /\ ud'[db'[h].mem].handle = h
               /\ db'[h].ref \in Slot /\ registry'.slot[db'[h].ref] = db'[h].mem
    BY <2>2, <1>4, <1>5 DEF Inv, Bound, TypeOK
  <2> QED BY <2>1, <2>2 DEF Bound, Valid
<1>7. NoAliasing'
  <2>1. ASSUME NEW p \in Owner, p # o, RefOf(p) > 0
        PROVE  /\ RefOf(p) \in Slot \ {old, new}
               /\ registry'.slot[RefOf(p)] \in Callback
    <3>1. RefOf(p) \in Slot /\ registry.slot[RefOf(p)] \in Callback /\ RefOf(p) # old
      BY <2>1, <1>2 DEF Inv, NoAliasing
    <3>2. RefOf(p) # new
      BY <3>1, <1>1, UdataAssumption
    <3> QED BY <3>1, <3>2, <1>1
  <2>2. ASSUME NEW p \in Owner, RefOf(p)' > 0
        PROVE  /\ registry'.slot[RefOf(p)'] \in Callback
               /\ \A q \in Owner : RefOf(q)' = RefOf(p)' => q = p
    BY <2>1, <2>2, <1>1 DEF Inv, NoAliasing
  <2> QED BY <2>2, <1>1 DEF NoAliasing, RegistryOK
<1>8. SoleAnchor'
  BY <1>4, <1>5 DEF Inv, SoleAnchor, Valid
<1> QED BY <1>6, <1>7, <1>8 DEF Inv

LEMMA SetCallbackInv ==
  ASSUME Inv, NEW u \in Userdata, NEW f \in Callback, SetCallback(u, f)
  PROVE  Inv'
<1>1. PICK r \in Slot : Reference(ud[u].ref1, r, f) /\ ud' = [ud EXCEPT ![u].ref1 = r]
  BY DEF SetCallback
<1>2. Valid(u) /\ UNCHANGED <<db, log_cb_ref, held>>
  BY DEF SetCallback
<1>3. ud[u].ref1 \in Slot \cup {0, NoRef}
  BY DEF Inv, TypeOK
<1>4. /\ \A v \in Userdata : ud'[v].state = ud[v].state /\ ud'[v].handle = ud[v].handle
      /\ ud'[u].ref1 = r
      /\ \A v \in Userdata : v # u => ud'[v].ref1 = ud[v].ref1
  BY <1>1 DEF Inv, TypeOK
<1>5. RegistryOK(registry)'
  BY <1>1, <1>3, ReferenceOK
<1>6. TypeOK'
  BY <1>1, <1>2, <1>5 DEF Inv, TypeOK, RegistryOK
<1>7. /\ RefOf(u) = ud[u].ref1 /\ RefOf(u)' = r
      /\ \A p \in Owner : p # u => RefOf(p)' = RefOf(p)
  BY <1>2, <1>4, UdataAssumption DEF RefOf, Owner, Valid
<1> QED BY <1>1, <1>2, <1>3, <1>4, <1>6, <1>7, ReplaceInv DEF Owner

LEMMA SetLoggerInv ==
  ASSUME Inv, NEW f \in Callback, SetLogger(f)
  PROVE  Inv'
<1>1. PICK r \in Slot : Reference(log_cb_ref, r, f) /\ log_cb_ref' = r
  BY DEF SetLogger
<1>2. UNCHANGED <<ud, db, held>>
  BY DEF SetLogger
<1>3. log_cb_ref \in Slot \cup {0, NoRef}
  BY DEF Inv, TypeOK
<1>4. RegistryOK(registry)'
  BY <1>1, <1>3, ReferenceOK
<1>5. TypeOK'
  BY <1>1, <1>2, <1>4 DEF Inv, TypeOK, RegistryOK
<1>6. /\ RefOf(Nil) = log_cb_ref /\ RefOf(Nil)' = r
      /\ \A p \in Owner : p # Nil => RefOf(p)' = RefOf(p)
  BY <1>1, <1>2 DEF RefOf, Owner, Valid
<1> QED BY <1>1, <1>2, <1>3, <1>5, <1>6, ReplaceInv DEF Owner

\* freeuserdata empties exactly the slots of the callback and of the anchor.
LEMMA FreeUserdataRegistry ==
  ASSUME Inv, NEW u \in Userdata, FreeUserdata(u)
  PROVE  /\ ud[u].handle \in Handle /\ db[ud[u].handle].ref \in Slot
         /\ RegistryOK(registry)'
         /\ \A s \in Slot : registry'.slot[s] =
              IF s = ud[u].ref1 \/ s = db[ud[u].handle].ref
              THEN Nil ELSE registry.slot[s]
<1> DEFINE h  == ud[u].handle
           g1 == IF ud[u].ref1 # NoRef THEN LuaUnref(registry, ud[u].ref1) ELSE registry
           g2 == LuaUnref(g1, 0)
           g3 == LuaUnref(g2, 0)
<1>1. /\ Valid(u)
      /\ registry' = IF db[h].ref # NoRef THEN LuaUnref(g3, db[h].ref) ELSE g3
  BY DEF FreeUserdata
<1>2. h \in Handle /\ db[h].mem = u /\ u # Nil
  BY <1>1, UdataAssumption DEF Inv, Bound
<1>3. db[h].ref \in Slot
  BY <1>2 DEF Inv, Bound
<1>4. ud[u].ref1 \in Slot \cup {0} /\ 0 \notin Slot /\ NoRef \notin Slot \cup {0}
  BY DEF Inv, TypeOK, Slot, NoRef
<1>5. /\ RegistryOK(g1)
      /\ \A s \in Slot : g1.slot[s] = IF s = ud[u].ref1 THEN Nil ELSE registry.slot[s]
  <2>1. RegistryOK(registry) /\ g1 = LuaUnref(registry, ud[u].ref1)
    BY <1>4, InvRegistryOK
  <2>2. ud[u].ref1 \in Slot \cup {0, NoRef}
    BY <1>4
  <2>3. /\ RegistryOK(LuaUnref(registry, ud[u].ref1))
        /\ \A s \in Slot : LuaUnref(registry, ud[u].ref1).slot[s] =
             IF s = ud[u].ref1 THEN Nil ELSE registry.slot[s]
    BY <2>1, <2>2, LuaUnrefOK
  <2> QED BY <2>1, <2>3
<1> HIDE DEF g1
<1>6. RegistryOK(g2) /\ \A s \in Slot : g2.slot[s] = g1.slot[s]
  BY <1>4, <1>5, LuaUnrefOK
<1> HIDE DEF g2
<1>7. RegistryOK(g3) /\ \A s \in Slot : g3.slot[s] = g2.slot[s]
  BY <1>4, <1>6, LuaUnrefOK
<1> HIDE DEF g3
<1>8. registry' = LuaUnref(g3, db[h].ref)
  BY <1>1, <1>3, <1>4
<1>9. /\ RegistryOK(LuaUnref(g3, db[h].ref))
      /\ \A s \in Slot : LuaUnref(g3, db[h].ref).slot[s] =
           IF s = db[h].ref THEN Nil ELSE g3.slot[s]
  BY <1>3, <1>7, LuaUnrefOK
<1>10. \A s \in Slot : registry'.slot[s] =
         IF s = ud[u].ref1 \/ s = db[h].ref THEN Nil ELSE registry.slot[s]
  BY <1>5, <1>6, <1>7, <1>8, <1>9
<1>11. RegistryOK(registry)'
  BY <1>8, <1>9 DEF RegistryOK
<1> QED BY <1>2, <1>3, <1>10, <1>11

LEMMA FreeUserdataInv ==
  ASSUME Inv, NEW u \in Userdata, FreeUserdata(u)
  PROVE  Inv'
<1> DEFINE h == ud[u].handle
<1>1. /\ h \in Handle /\ db[h].ref \in Slot
      /\ RegistryOK(registry)'
      /\ \A s \in Slot : registry'.slot[s] =
           IF s = ud[u].ref1 \/ s = db[h].ref THEN Nil ELSE registry.slot[s]
  BY FreeUserdataRegistry
<1>2. /\ Valid(u) /\ db' = [db EXCEPT ![h] = NoEntry]
      /\ ud' = [ud EXCEPT ![u].state = "invalid"]
      /\ UNCHANGED <<log_cb_ref, held>>
  BY DEF FreeUserdata
<1>3. /\ u # Nil /\ db[h].mem = u /\ registry.slot[db[h].ref] = u
      /\ \A v \in Userdata : v # Nil
  BY <1>2, UdataAssumption DEF Inv, Bound
<1>4. /\ ~ Valid(u)'
      /\ \A v \in Userdata : v # u => ud'[v] = ud[v] /\ Valid(v)' = Valid(v)
  BY <1>2 DEF Inv, TypeOK, Valid
<1>5. /\ db'[h] = NoEntry
      /\ \A k \in Handle : k # h => db'[k] = db[k]
  BY <1>1, <1>2 DEF Inv, TypeOK
<1>6. TypeOK'
  BY <1>1, <1>2 DEF Inv, TypeOK, RegistryOK, NoEntry
\* The callback's slot holds a callback, so it anchors no userdata.
<1>7. \A s \in Slot, v \in Userdata :
        v # u /\ registry.slot[s] = v => registry'.slot[s] = v
  <2>1. RefOf(u) = ud[u].ref1
    BY <1>2, <1>3 DEF RefOf
  <2>2. ud[u].ref1 \in Slot => registry.slot[ud[u].ref1] \in Callback
    BY <2>1, UdataAssumption DEF Inv, NoAliasing, Owner, Slot
  <2> QED BY <2>2, <1>1, <1>3, UdataAssumption
<1>8. Bound'
  <2>1. ASSUME NEW v \in Userdata, Valid(v)'
        PROVE  ud'[v].handle \in Handle /\ db'[ud'[v].handle].mem = v
    BY <2>1, <1>3, <1>4, <1>5 DEF Inv, Bound
  <2>2. ASSUME NEW k \in Handle, db'[k].mem # Nil
        PROVE  /\ Valid(db[k].mem)' /\ ud'[db'[k].mem].handle = k
               /\ db'[k].ref \in Slot /\ registry'.slot[db'[k].ref] = db'[k].mem
    <3>1. k # h /\ db'[k] = db[k]
      BY <2>2, <1>5 DEF NoEntry
    <3>2. db[k].mem \in Userdata /\ db[k].mem # u
      BY <2>2, <3>1 DEF Inv, TypeOK, Bound
    <3> QED BY <2>2, <3>1, <3>2, <1>4, <1>7 DEF Inv, Bound, Valid
  <2> QED BY <2>1, <2>2, <1>4, <1>5 DEF Bound, Valid
<1>9. NoAliasing'
  <2>1. /\ RefOf(u)' = NoRef
        /\ \A o \in Owner : o # u => RefOf(o)' = RefOf(o)
    BY <1>2, <1>3, <1>4 DEF RefOf, Owner, Valid
  <2>2. ASSUME NEW o \in Owner, o # u, RefOf(o) > 0
        PROVE  registry'.slot[RefOf(o)] \in Callback
    <3>1. RefOf(o) \in Slot
      BY <2>2, UdataAssumption DEF Inv, TypeOK, RefOf, Owner, Slot, NoRef
    <3>2. registry.slot[RefOf(o)] \in Callback /\ RefOf(o) # db[h].ref
      BY <2>2, <1>3, UdataAssumption DEF Inv, NoAliasing
    <3>3. RefOf(o) # ud[u].ref1
      <4>1. RefOf(u) = ud[u].ref1 /\ u \in Owner
        BY <1>2, <1>3 DEF RefOf, Owner
      <4> QED BY <2>2, <4>1 DEF Inv, NoAliasing
    <3> QED BY <3>1, <3>2, <3>3, <1>1
  <2>3. ASSUME NEW o \in Owner, RefOf(o)' > 0
        PROVE  /\ registry'.slot[RefOf(o)'] \in Callback
               /\ \A p \in Owner : RefOf(p)' = RefOf(o)' => p = o
    BY <2>1, <2>2, <2>3 DEF NoRef, Inv, NoAliasing
  <2> QED BY <2>3, <1>1 DEF NoAliasing, RegistryOK
<1>10. SoleAnchor'
  <2> SUFFICES ASSUME NEW v \in Userdata, NEW s \in Slot, registry'.slot[s] = v
               PROVE  Valid(v)' /\ db'[ud'[v].handle].ref = s
    BY DEF SoleAnchor, Valid
  <2>1. registry.slot[s] = v /\ s # db[h].ref
    BY <1>1, <1>3
  <2>2. Valid(v) /\ db[ud[v].handle].ref = s
    BY <2>1 DEF Inv, SoleAnchor
  <2>3. v # u /\ ud[v].handle # h
    BY <2>1, <2>2, <1>3 DEF Inv, Bound
  <2> QED BY <2>2, <2>3, <1>4, <1>5 DEF Inv, Bound
<1> QED BY <1>6, <1>8, <1>9, <1>10 DEF Inv

LEMMA PushDropInv ==
  ASSUME Inv, (\E h \in Handle : Push(h)) \/ (\E u \in Userdata : Drop(u))
  PROVE  Inv'
<1>1. UNCHANGED <<ud, db, registry, log_cb_ref>> /\ held' \in SUBSET Userdata
  BY DEF Push, Drop, Inv, TypeOK
<1> QED BY <1>1
       DEF Inv, TypeOK, Bound, NoAliasing, SoleAnchor, RefOf, Valid

LEMMA CollectInv ==
  ASSUME Inv, NEW u \in Userdata, Collect(u)
  PROVE  Inv'
<1>1. /\ ud[u].state = "invalid" /\ ud' = [ud EXCEPT ![u] = Blank]
      /\ UNCHANGED <<db, registry, log_cb_ref, held>>
  BY DEF Collect
<1>2. /\ ~ Valid(u) /\ ~ Valid(u)'
      /\ \A v \in Userdata : v # u => ud'[v] = ud[v] /\ Valid(v)' = Valid(v)
  BY <1>1 DEF Inv, TypeOK, Valid, Blank
<1>3. TypeOK'
  BY <1>1 DEF Inv, TypeOK, Blank
<1>4. Bound'
  BY <1>1, <1>2 DEF Inv, Bound, TypeOK, Valid
<1>5. \A o \in Owner : RefOf(o)' = RefOf(o)
  BY <1>1, <1>2 DEF RefOf, Owner, Valid
<1>6. NoAliasing'
  BY <1>1, <1>5 DEF Inv, NoAliasing
<1>7. SoleAnchor'
  BY <1>1, <1>2 DEF Inv, SoleAnchor, Valid
<1> QED BY <1>3, <1>4, <1>6, <1>7 DEF Inv

LEMMA NextInv == Inv /\ [Next]_vars => Inv'
<1> SUFFICES ASSUME Inv, [Next]_vars
             PROVE  Inv'
  OBVIOUS
<1>1. CASE \E u \in Userdata, h \in Handle :
             NewUserdata(u, h) \/ \E f \in Callback : NewHotplug(u, h, f)
  BY <1>1, NewUserdataInv, NewHotplugInv
<1>2. CASE \E u \in Userdata, f \in Callback : SetCallback(u, f)
  BY <1>2, SetCallbackInv
<1>3. CASE \E f \in Callback : SetLogger(f)
  BY <1>3, SetLoggerInv
<1>4. CASE \E u \in Userdata : FreeUserdata(u)
  BY <1>4, FreeUserdataInv
<1>5. CASE (\E h \in Handle : Push(h)) \/ (\E u \in Userdata : Drop(u))
  BY <1>5, PushDropInv
<1>6. CASE \E u \in Userdata : Collect(u)
  BY <1>6, CollectInv
<1>7. CASE UNCHANGED vars
  BY <1>7 DEF vars, Inv, TypeOK, Bound, NoAliasing, SoleAnchor, RefOf, Valid
<1> QED BY <1>1, <1>2, <1>3, <1>4, <1>5, <1>6, <1>7 DEF Next

-----------------------------------------------------------------------------
(* The theorems.                                                           *)

THEOREM InvInvariant == Spec => []Inv
BY InitInv, NextInv, PTL DEF Spec

\* The variables of the userdata layer keep their types.
THEOREM TypeCorrect == Spec => []TypeOK
<1>1. Inv => TypeOK
  BY DEF Inv
<1> QED BY <1>1, InvInvariant, PTL

\* The Valid marks, the database and the anchors in the registry agree: a handle
\* always leads to the userdata of the object that has it now (udata_push,
\* udata_mem, freeuserdata).
THEOREM HandlesBound == Spec => []Bound
<1>1. Inv => Bound
  BY DEF Inv
<1> QED BY <1>1, InvInvariant, PTL

\* No slot of the Lua registry is ever shared by two callbacks, or released
\* while in use, whatever order Lua reuses the slots in (Reference,
\* freeuserdata).
THEOREM RegistryNotAliased == Spec => []NoAliasing
<1>1. Inv => NoAliasing
  BY DEF Inv
<1> QED BY <1>1, InvInvariant, PTL

\* Destroying an object always leaves its userdata without an anchor
\* (udata_free), so the collector can take it.
THEOREM AnchorsReleased == Spec => []SoleAnchor
<1>1. Inv => SoleAnchor
  BY DEF Inv
<1> QED BY <1>1, InvInvariant, PTL

-----------------------------------------------------------------------------
(* The layer implements the abstract map.                                  *)

\* The map's own definitions, with the substitution carried out.
LEMMA MapSteps ==
  ASSUME NEW u \in Userdata, NEW h \in Handle, NEW f,
         \A o \in Owner : o # u => CallbackOf(o)' = CallbackOf(o),
         \A k \in Handle : k # h => db'[k].mem = db[k].mem,
         CallbackOf(u)' = f
  PROVE  /\ (\A k \in Handle : db[k].mem # u) /\ db[h].mem = Nil /\ db'[h].mem = u
              => Map!Bind(u, h, f)
         /\ db[h].mem = u /\ db'[h].mem = Nil /\ f = Nil => Map!Unbind(u, h)
         /\ db[h].mem = u /\ db'[h].mem = u => Map!SetCallback(u, f)
<1>1. u # Nil
  BY UdataAssumption
<1>2. CallbackOf(Nil)' = CallbackOf(Nil)
  BY <1>1 DEF Owner
<1>3. [v \in Userdata |-> CallbackOf(v)]' =
        [[v \in Userdata |-> CallbackOf(v)] EXCEPT ![u] = f]
  <2>1. \A v \in Userdata : CallbackOf(v)' = IF v = u THEN f ELSE CallbackOf(v)
    BY DEF Owner
  <2> QED BY <2>1
<1>4. ASSUME db'[h].mem \in {u, Nil}
      PROVE  [k \in Handle |-> db[k].mem]' =
               [[k \in Handle |-> db[k].mem] EXCEPT ![h] = db'[h].mem]
  <2>1. \A k \in Handle : db'[k].mem = IF k = h THEN db'[h].mem ELSE db[k].mem
    OBVIOUS
  <2> QED BY <2>1
<1>5. ASSUME \A k \in Handle : db[k].mem # u, db[h].mem = Nil, db'[h].mem = u
      PROVE  Map!Bind(u, h, f)
  BY <1>2, <1>3, <1>4, <1>5 DEF Map!Bind, Map!Unused
<1>6. ASSUME db[h].mem = u, db'[h].mem = Nil, f = Nil
      PROVE  Map!Unbind(u, h)
  BY <1>2, <1>3, <1>4, <1>6 DEF Map!Unbind
<1>7. ASSUME db[h].mem = u, db'[h].mem = u
      PROVE  Map!SetCallback(u, f)
  <2>1. [k \in Handle |-> db[k].mem]' = [k \in Handle |-> db[k].mem]
    <3>1. \A k \in Handle : db'[k].mem = db[k].mem
      BY <1>7
    <3> QED BY <3>1
  <2> QED BY <1>2, <1>3, <1>7, <2>1 DEF Map!SetCallback
<1> QED BY <1>5, <1>6, <1>7

LEMMA InsertBinds ==
  ASSUME Inv, NEW u \in Userdata, NEW h \in Handle,
         NEW g, RegistryOK(g), NEW ref \in Slot \cup {0},
         NEW f, f = IF ref = 0 THEN Nil ELSE g.slot[ref],
         \A s \in Slot : s # ref => g.slot[s] = registry.slot[s],
         ref # 0 => registry.slot[ref] = Nil /\ g.slot[ref] \in Callback,
         Insert(g, u, h, ref)
  PROVE  Map!Bind(u, h, f)
<1>1. PICK r \in RefSlots(g) :
        /\ registry' = LuaRef(g, r, u)
        /\ db' = [db EXCEPT ![h] = [ref |-> r, mem |-> u]]
  BY DEF Insert
<1>2. /\ r \in Slot /\ g.slot[r] = Nil
      /\ \A s \in Slot : s # r => registry'.slot[s] = g.slot[s]
  BY <1>1, LuaRefOK DEF Value
<1>3. /\ r # ref
      /\ \A s \in Slot : registry.slot[s] # Nil => registry'.slot[s] = registry.slot[s]
  BY <1>2, UdataAssumption DEF Slot
<1>4. /\ ud' = [ud EXCEPT ![u] = Fresh(h, ref)] /\ log_cb_ref' = log_cb_ref
      /\ ~ Valid(u) /\ db[h].mem = Nil
  BY DEF Insert, Valid
<1>5. /\ Valid(u)' /\ ud'[u].ref1 = ref /\ u # Nil
      /\ \A v \in Userdata : v # u => ud'[v] = ud[v]
  BY <1>4, UdataAssumption DEF Inv, TypeOK, Valid, Fresh
<1>6. ASSUME NEW o \in Owner, o # u
      PROVE  CallbackOf(o)' = CallbackOf(o)
  <2>1. RefOf(o)' = RefOf(o)
    BY <1>4, <1>5, <1>6 DEF RefOf, Owner, Valid
  <2>2. RefOf(o) > 0 => RefOf(o) \in Slot /\ registry.slot[RefOf(o)] # Nil
    BY UdataAssumption DEF Inv, TypeOK, NoAliasing, RefOf, Owner, Slot, NoRef
  <2> QED BY <2>1, <2>2, <1>3 DEF CallbackOf
<1>7. CallbackOf(u)' = f
  <2>1. RefOf(u)' = ref
    BY <1>5 DEF RefOf
  <2> QED BY <2>1, <1>2, <1>3, UdataAssumption DEF CallbackOf, Slot
<1>8. \A k \in Handle : db[k].mem # u
  BY <1>4, <1>5 DEF Inv, Bound
<1>9. db'[h].mem = u /\ \A k \in Handle : k # h => db'[k].mem = db[k].mem
  BY <1>1 DEF Inv, TypeOK
<1> QED BY <1>4, <1>6, <1>7, <1>8, <1>9, MapSteps

LEMMA NewBinds ==
  ASSUME Inv, NEW u \in Userdata, NEW h \in Handle,
         NewUserdata(u, h) \/ \E f \in Callback : NewHotplug(u, h, f)
  PROVE  \E f \in Callback \cup {Nil} : Map!Bind(u, h, f)
<1>1. CASE NewUserdata(u, h)
  <2>1. Insert(registry, u, h, 0)
    BY <1>1 DEF NewUserdata
  <2>2. Map!Bind(u, h, Nil)
    BY <2>1, InvRegistryOK, InsertBinds
  <2> QED BY <2>2
<1>2. CASE \E f \in Callback : NewHotplug(u, h, f)
  <2>1. PICK f \in Callback, r \in RefSlots(registry) :
          Insert(LuaRef(registry, r, f), u, h, r)
    BY <1>2 DEF NewHotplug
  <2> DEFINE g == LuaRef(registry, r, f)
  <2>2. /\ r \in Slot /\ registry.slot[r] = Nil /\ RegistryOK(g) /\ g.slot[r] = f
        /\ \A s \in Slot : s # r => g.slot[s] = registry.slot[s]
    BY InvRegistryOK, LuaRefOK DEF Value
  <2> HIDE DEF g
  <2>3. Insert(g, u, h, r) /\ r # 0
    BY <2>1, <2>2 DEF g, Slot
  <2>4. Map!Bind(u, h, f)
    BY <2>2, <2>3, InsertBinds
  <2> QED BY <2>4
<1> QED BY <1>1, <1>2

\* Replacing the reference of one owner leaves the callbacks of the others.
LEMMA ReplaceKeeps ==
  ASSUME Inv, NEW o \in Owner, NEW old \in Slot \cup {0, NoRef}, NEW new \in Slot,
         NEW f \in Callback, Reference(old, new, f),
         RefOf(o) = old, RefOf(o)' = new,
         \A p \in Owner : p # o => RefOf(p)' = RefOf(p)
  PROVE  /\ CallbackOf(o)' = f
         /\ \A p \in Owner : p # o => CallbackOf(p)' = CallbackOf(p)
<1>1. /\ registry'.slot[new] = f
      /\ new = old \/ registry.slot[new] = Nil
      /\ \A s \in Slot : s # new =>
           registry'.slot[s] = IF s = old THEN Nil ELSE registry.slot[s]
  BY ReferenceOK
<1>2. new > 0
  BY DEF Slot
<1>3. ASSUME NEW p \in Owner, p # o
      PROVE  CallbackOf(p)' = CallbackOf(p)
  <2>1. CASE RefOf(p) > 0
    <3>1. RefOf(p) \in Slot /\ registry.slot[RefOf(p)] # Nil /\ RefOf(p) # old
      BY <2>1, <1>3, UdataAssumption
         DEF Inv, TypeOK, NoAliasing, RefOf, Owner, Slot, NoRef
    <3>2. registry'.slot[RefOf(p)] = registry.slot[RefOf(p)]
      BY <3>1, <1>1
    <3> QED BY <3>2, <1>3 DEF CallbackOf
  <2>2. CASE ~ (RefOf(p) > 0)
    BY <2>2, <1>3 DEF CallbackOf
  <2> QED BY <2>1, <2>2
<1> QED BY <1>1, <1>2, <1>3 DEF CallbackOf

LEMMA SetCallbackSets ==
  ASSUME Inv, NEW u \in Userdata, NEW f \in Callback, SetCallback(u, f)
  PROVE  Map!SetCallback(u, f)
<1>1. PICK r \in Slot : Reference(ud[u].ref1, r, f) /\ ud' = [ud EXCEPT ![u].ref1 = r]
  BY DEF SetCallback
<1>2. Valid(u) /\ UNCHANGED <<db, log_cb_ref, held>>
  BY DEF SetCallback
<1>3. ud[u].ref1 \in Slot \cup {0, NoRef}
  BY DEF Inv, TypeOK
<1>4. /\ RefOf(u) = ud[u].ref1 /\ RefOf(u)' = r
      /\ \A p \in Owner : p # u => RefOf(p)' = RefOf(p)
  BY <1>1, <1>2, UdataAssumption DEF RefOf, Owner, Valid, Inv, TypeOK
<1>5. /\ CallbackOf(u)' = f
      /\ \A p \in Owner : p # u => CallbackOf(p)' = CallbackOf(p)
  BY <1>1, <1>3, <1>4, ReplaceKeeps DEF Owner
<1>6. ud[u].handle \in Handle /\ db[ud[u].handle].mem = u
  BY <1>2 DEF Inv, Bound
<1> QED BY <1>2, <1>5, <1>6, MapSteps

LEMMA SetLoggerSets ==
  ASSUME Inv, NEW f \in Callback, SetLogger(f)
  PROVE  Map!SetLogger(f)
<1>1. PICK r \in Slot : Reference(log_cb_ref, r, f) /\ log_cb_ref' = r
  BY DEF SetLogger
<1>2. UNCHANGED <<ud, db, held>>
  BY DEF SetLogger
<1>3. log_cb_ref \in Slot \cup {0, NoRef}
  BY DEF Inv, TypeOK
<1>4. /\ RefOf(Nil) = log_cb_ref /\ RefOf(Nil)' = r
      /\ \A p \in Owner : p # Nil => RefOf(p)' = RefOf(p)
  BY <1>1, <1>2 DEF RefOf, Owner, Valid
<1>5. /\ CallbackOf(Nil)' = f
      /\ \A p \in Owner : p # Nil => CallbackOf(p)' = CallbackOf(p)
  BY <1>1, <1>3, <1>4, ReplaceKeeps DEF Owner
<1>6. [u \in Userdata |-> CallbackOf(u)]' = [u \in Userdata |-> CallbackOf(u)]
  <2>1. \A u \in Userdata : CallbackOf(u)' = CallbackOf(u)
    BY <1>5, UdataAssumption DEF Owner
  <2> QED BY <2>1
<1> QED BY <1>2, <1>5, <1>6 DEF Map!SetLogger

LEMMA FreeUserdataUnbinds ==
  ASSUME Inv, NEW u \in Userdata, NEW h \in Handle, h = ud[u].handle, FreeUserdata(u)
  PROVE  Map!Unbind(u, h)
<1>1. /\ db[h].ref \in Slot
      /\ \A s \in Slot : registry'.slot[s] =
           IF s = ud[u].ref1 \/ s = db[h].ref THEN Nil ELSE registry.slot[s]
  BY FreeUserdataRegistry
<1>2. /\ Valid(u) /\ db' = [db EXCEPT ![h] = NoEntry]
      /\ ud' = [ud EXCEPT ![u].state = "invalid"] /\ log_cb_ref' = log_cb_ref
  BY DEF FreeUserdata
<1>3. u # Nil /\ db[h].mem = u /\ registry.slot[db[h].ref] = u
  BY <1>2, UdataAssumption DEF Inv, Bound
<1>4. /\ RefOf(u) = ud[u].ref1 /\ RefOf(u)' = NoRef
      /\ \A o \in Owner : o # u => RefOf(o)' = RefOf(o)
  BY <1>2, <1>3 DEF RefOf, Owner, Valid, Inv, TypeOK
<1>5. ASSUME NEW o \in Owner, o # u
      PROVE  CallbackOf(o)' = CallbackOf(o)
  <2>1. CASE RefOf(o) > 0
    <3>1. /\ RefOf(o) \in Slot /\ registry.slot[RefOf(o)] \in Callback
          /\ RefOf(o) # ud[u].ref1
      BY <2>1, <1>4, <1>5, UdataAssumption
         DEF Inv, TypeOK, NoAliasing, RefOf, Owner, Slot, NoRef
    <3>2. RefOf(o) # db[h].ref
      BY <3>1, <1>3, UdataAssumption
    <3>3. registry'.slot[RefOf(o)] = registry.slot[RefOf(o)]
      BY <3>1, <3>2, <1>1
    <3> QED BY <3>3, <1>4, <1>5 DEF CallbackOf
  <2>2. CASE ~ (RefOf(o) > 0)
    BY <2>2, <1>4, <1>5 DEF CallbackOf
  <2> QED BY <2>1, <2>2
<1>6. CallbackOf(u)' = Nil
  BY <1>4 DEF CallbackOf, NoRef
<1>7. db'[h].mem = Nil /\ \A k \in Handle : k # h => db'[k].mem = db[k].mem
  BY <1>1, <1>2 DEF Inv, TypeOK, NoEntry
<1> QED BY <1>1, <1>3, <1>5, <1>6, <1>7, MapSteps

\* The script's own references and the collector do not show in the map.
LEMMA StutterMap ==
  ASSUME Inv, (\E h \in Handle : Push(h)) \/ (\E u \in Userdata : Drop(u) \/ Collect(u))
              \/ UNCHANGED vars
  PROVE  UNCHANGED Map!vars
<1>1. UNCHANGED <<db, registry, log_cb_ref>>
  BY DEF Push, Drop, Collect, vars
<1>2. \A o \in Owner : RefOf(o)' = RefOf(o)
  <2>1. CASE UNCHANGED ud
    BY <2>1, <1>1 DEF RefOf, Valid
  <2>2. CASE \E u \in Userdata : Collect(u)
    BY <2>2, <1>1 DEF Collect, Blank, RefOf, Valid, Owner, Inv, TypeOK
  <2> QED BY <2>1, <2>2 DEF Push, Drop, vars
<1>3. \A o \in Owner : CallbackOf(o)' = CallbackOf(o)
  BY <1>1, <1>2 DEF CallbackOf
<1>4. [u \in Userdata |-> CallbackOf(u)]' = [u \in Userdata |-> CallbackOf(u)]
  <2>1. \A u \in Userdata : CallbackOf(u)' = CallbackOf(u)
    BY <1>3 DEF Owner
  <2> QED BY <2>1
<1> QED BY <1>1, <1>3, <1>4 DEF Map!vars, Owner

\* Every behaviour of the userdata layer is one of the map: handles and
\* callbacks are exactly what their last operation made them, whatever the
\* registry, the tree and the collector do underneath.
THEOREM Refinement == Spec => ImplementsMap
<1>1. Init => Map!Init
  BY UdataAssumption
     DEF Init, Map!Init, CallbackOf, RefOf, Valid, Blank, NoEntry, NoRef
<1>2. Inv /\ [Next]_vars => [Map!Next]_(Map!vars)
  <2> SUFFICES ASSUME Inv, [Next]_vars
               PROVE  [Map!Next]_(Map!vars)
    OBVIOUS
  <2>1. CASE \E u \in Userdata, h \in Handle :
               NewUserdata(u, h) \/ \E f \in Callback : NewHotplug(u, h, f)
    BY <2>1, NewBinds DEF Map!Next
  <2>2. CASE \E u \in Userdata, f \in Callback : SetCallback(u, f)
    BY <2>2, SetCallbackSets DEF Map!Next
  <2>3. CASE \E f \in Callback : SetLogger(f)
    BY <2>3, SetLoggerSets DEF Map!Next
  <2>4. CASE \E u \in Userdata : FreeUserdata(u)
    <3>1. PICK u \in Userdata : FreeUserdata(u)
      BY <2>4
    <3>2. PICK h \in Handle : h = ud[u].handle
      BY <3>1 DEF FreeUserdata, Inv, Bound
    <3>3. Map!Unbind(u, h)
      BY <3>1, <3>2, FreeUserdataUnbinds
    <3> QED BY <3>3 DEF Map!Next
  <2>5. CASE (\E h \in Handle : Push(h))
             \/ (\E u \in Userdata : Drop(u) \/ Collect(u)) \/ UNCHANGED vars
    BY <2>5, StutterMap
  <2> QED BY <2>1, <2>2, <2>3, <2>4, <2>5 DEF Next
<1> QED BY <1>1, <1>2, InvInvariant, PTL DEF Spec, ImplementsMap, Map!Spec
=============================================================================
