--------------------------- MODULE HotplugProofs ----------------------------
(***************************************************************************)
(* Theorems about Hotplug, for any number of structs, registrations,       *)
(* devices and events, and callbacks nested to any depth.                  *)
(*                                                                         *)
(* The inductive invariant is Inv: it adds to the two properties what each *)
(* call under way has told libusb, or has not told it yet.                 *)
(***************************************************************************)
EXTENDS Hotplug, TLAPS

\* Registrations are handed out in order: nothing knows one that has not been made.
Fresh ==
  /\ \A r \in Reg : r <= last => reg[r].user \in Hpl
  /\ \A r \in Reg : r > last => ~ reg[r].active /\ r \notin lost
  /\ \A h \in Hpl : object[h] <= last /\ cb_handle[h] <= last
  /\ \A i \in 1 .. Len(stack) : stack[i].at # "events" => stack[i].r <= last

\* A struct holds no handle but of a registration that was given its address, and that
\* has returned: so no other hotplug is deregistered by it.
HandlesOwn ==
  \A h \in Hpl : cb_handle[h] # 0 =>
    /\ reg[cb_handle[h]].user = h
    /\ \A i \in 1 .. Len(stack) : stack[i].at = "register" => stack[i].r # cb_handle[h]

\* libusb enumerates for registrations that are active, and once for each.
EnumeratesActive ==
  /\ \A i \in 1 .. Len(stack) : stack[i].at = "register" => reg[stack[i].r].active
  /\ \A i, j \in 1 .. Len(stack) :
       stack[i].at = "register" /\ stack[j].at = "register" /\ stack[i].r = stack[j].r => i = j

\* At most one call handles events, and none after an error has left one.
HandlesOnce ==
  /\ \A i, j \in 1 .. Len(stack) : stack[i].at = "events" /\ stack[j].at = "events" => i = j
  /\ \A i \in 1 .. Len(stack) : stack[i].at = "events" => ~ wedged

Inv ==
  /\ RegistrationsOwned /\ LockHeld
  /\ Fresh /\ HandlesOwn /\ EnumeratesActive /\ HandlesOnce

-----------------------------------------------------------------------------
(* Calls under way.                                                        *)

LEMMA FrameFields ==
  ASSUME NEW f \in Frame
  PROVE  /\ f.at \in {"events", "register", "callback"}
         /\ f.at = "events" => f.todo \in SUBSET Reg
         /\ f.at = "register" => f.r \in Reg /\ f.left \in 0 .. Attached
         /\ f.at = "callback" => f.r \in Reg /\ f.ud \in Reg
BY DEF Frame

LEMMA RegisteringIs ==
  \A r : r \in Registering
    <=> \E i \in 1 .. Len(stack) : stack[i].at = "register" /\ r = stack[i].r
BY DEF Registering

\* The stack s is a part of the stack, but for what is left to do for libusb, and only
\* callbacks are missing from it.
Alike(s) ==
  /\ s \in Seq(Frame) /\ Len(s) <= Len(stack)
  /\ \A i \in 1 .. Len(s) :
       /\ s[i].at = stack[i].at
       /\ s[i].at # "events" => s[i].r = stack[i].r
       /\ s[i].at = "callback" => s[i].ud = stack[i].ud
  /\ \A i \in Len(s) + 1 .. Len(stack) : stack[i].at = "callback"

LEMMA InTop ==
  ASSUME TypeOK, NEW f, In(f)
  PROVE  Len(stack) \in Nat \ {0} /\ Top = stack[Len(stack)] /\ Top \in Frame /\ Top.at = f
BY DEF TypeOK, In, Top

LEMMA RestIs ==
  ASSUME TypeOK, stack # <<>>
  PROVE  /\ Rest \in Seq(Frame) /\ Len(stack) \in Nat \ {0} /\ Len(Rest) = Len(stack) - 1
         /\ \A i \in 1 .. Len(Rest) : Rest[i] = stack[i]
<1>1. stack \in Seq(Frame) /\ Len(stack) \in Nat \ {0}
  BY DEF TypeOK
<1>2. \A i \in 1 .. Len(stack) - 1 : stack[i] \in Frame
  BY <1>1
<1>3. Rest = [i \in 1 .. Len(stack) - 1 |-> stack[i]]
  BY <1>1 DEF Rest
<1> QED
  BY <1>1, <1>2, <1>3

LEMMA RestAlike ==
  ASSUME TypeOK, In("callback")
  PROVE  Alike(Rest)
BY InTop, RestIs DEF Alike, In

LEMMA EnumerateAlike ==
  ASSUME TypeOK, In("register"), Top.left > 0
  PROVE  Alike([stack EXCEPT ![Len(stack)].left = @ - 1])
<1> DEFINE n == Len(stack)
           g == [stack[n] EXCEPT !.left = @ - 1]
           s == [stack EXCEPT ![n] = g]
<1>1. n \in Nat \ {0} /\ stack[n] \in Frame /\ stack[n].at = "register" /\ stack[n].left > 0
  BY InTop
<1>2. stack[n] \in [at : {"register"}, r : Reg, left : 0 .. Attached]
  BY <1>1 DEF Frame
<1>3. g \in [at : {"register"}, r : Reg, left : 0 .. Attached] /\ g.at = "register" /\ g.r = stack[n].r
  BY <1>1, <1>2, HotplugAssumption
<1>4. g \in Frame
  BY <1>3 DEF Frame
<1> HIDE DEF g
<1>5. s \in Seq(Frame) /\ Len(s) = n /\ s[n] = g /\ \A i \in 1 .. n : i # n => s[i] = stack[i]
  BY <1>1, <1>4 DEF TypeOK
<1> HIDE DEF s
<1>6. Alike(s)
  BY <1>1, <1>3, <1>5 DEF Alike
<1> QED
  BY <1>6 DEF s, g

LEMMA DispatchAlike ==
  ASSUME TypeOK, In("events"), NEW r
  PROVE  Alike([stack EXCEPT ![Len(stack)].todo = @ \ {r}])
<1> DEFINE n == Len(stack)
           g == [stack[n] EXCEPT !.todo = @ \ {r}]
           s == [stack EXCEPT ![n] = g]
<1>1. n \in Nat \ {0} /\ stack[n] \in Frame /\ stack[n].at = "events"
  BY InTop
<1>2. stack[n] \in [at : {"events"}, todo : SUBSET Reg]
  BY <1>1 DEF Frame
<1>3. g \in [at : {"events"}, todo : SUBSET Reg] /\ g.at = "events"
  BY <1>2
<1>4. g \in Frame
  BY <1>3 DEF Frame
<1> HIDE DEF g
<1>5. s \in Seq(Frame) /\ Len(s) = n /\ s[n] = g /\ \A i \in 1 .. n : i # n => s[i] = stack[i]
  BY <1>1, <1>4 DEF TypeOK
<1> HIDE DEF s
<1>6. Alike(s)
  BY <1>1, <1>3, <1>5 DEF Alike
<1> QED
  BY <1>6 DEF s, g

-----------------------------------------------------------------------------
(* The invariant, call by call.                                            *)

\* What an invariant of the whole says of the frames of the stack alone.
LEMMA FrameFacts ==
  ASSUME Inv, NEW i \in 1 .. Len(stack)
  PROVE  /\ stack[i] \in Frame
         /\ stack[i].at = "callback" => stack[i].r \in Reg /\ stack[i].r <= last
         /\ stack[i].at = "register" => stack[i].r \in Reg /\ stack[i].r <= last
<1>1. stack[i] \in Frame
  BY DEF Inv, RegistrationsOwned, TypeOK
<1> QED
  BY <1>1, FrameFields DEF Inv, Fresh

\* An error that leaves the part s of the stack.
LEMMA UnwindInv ==
  ASSUME Inv, NEW s, Alike(s), Unwind(s),
         UNCHANGED <<object, cb_handle, reg, last, bus, locks>>
  PROVE  Inv'
<1> USE DEF bus, locks
<1>0. /\ TypeOK /\ ObjectsRegistered /\ CallbacksOwned /\ CallsOwner
      /\ LockHeld /\ Fresh /\ HandlesOwn /\ EnumeratesActive /\ HandlesOnce
  BY DEF Inv, RegistrationsOwned
<1>1. PICK k \in 0 .. Len(s) :
        /\ k > 0 => s[k].at = "callback"
        /\ \A j \in k + 1 .. Len(s) : s[j].at # "callback"
        /\ stack' = SubSeq(s, 1, k)
        /\ wedged' = (wedged \/ \E j \in k + 1 .. Len(s) : s[j].at = "events")
        /\ lost' = lost \cup {s[j].r : j \in {i \in k + 1 .. Len(s) : s[i].at = "register"}}
  BY DEF Unwind
<1>2. /\ s \in Seq(Frame) /\ Len(s) \in Nat /\ Len(stack) \in Nat /\ stack \in Seq(Frame)
      /\ stack' \in Seq(Frame) /\ Len(stack') = k
      /\ \A i \in 1 .. k : stack'[i] = s[i]
  <2>1. s \in Seq(Frame) /\ Len(s) \in Nat /\ Len(stack) \in Nat /\ stack \in Seq(Frame)
    BY <1>0 DEF Alike, TypeOK
  <2>2. stack' = [i \in 1 .. k |-> s[i]]
    BY <1>1, <2>1
  <2> QED
    BY <2>1, <2>2
<1>3. \A i \in 1 .. k :
        /\ i \in 1 .. Len(stack)
        /\ stack'[i].at = stack[i].at
        /\ stack[i].at # "events" => stack'[i].r = stack[i].r
        /\ stack[i].at = "callback" => stack'[i].ud = stack[i].ud
  <2> TAKE i \in 1 .. k
  <2>1. i \in 1 .. Len(s) /\ i \in 1 .. Len(stack) /\ stack'[i] = s[i]
    BY <1>2 DEF Alike
  <2> QED
    BY <2>1 DEF Alike
<1>4. \A r : r \in lost' <=> r \in lost \/ \E j \in k + 1 .. Len(s) : s[j].at = "register" /\ r = s[j].r
  BY <1>1
<1>5. \A r \in Registering : r \in Registering' \/ r \in lost'
  <2> SUFFICES ASSUME NEW i \in 1 .. Len(stack), stack[i].at = "register"
               PROVE  stack[i].r \in Registering' \/ stack[i].r \in lost'
    BY RegisteringIs
  <2>1. CASE i \in 1 .. k
    BY <1>2, <1>3, <2>1 DEF Registering
  <2>2. CASE i \notin 1 .. k
    <3>1. i \in k + 1 .. Len(s) /\ s[i].at = "register" /\ s[i].r = stack[i].r
      BY <1>2, <2>2 DEF Alike
    <3> QED
      BY <1>4, <3>1
  <2> QED
    BY <2>1, <2>2
<1>6. Registering' \subseteq Registering
  BY <1>2, <1>3 DEF Registering
<1>7. \A j \in k + 1 .. Len(s) : s[j].at = "register" => s[j].r \in Reg /\ s[j].r <= last
  BY <1>2, FrameFacts DEF Alike
<1>8. TypeOK'
  <2>1. lost' \in SUBSET Reg
    BY <1>0, <1>4, <1>7 DEF TypeOK
  <2>2. wedged' \in BOOLEAN
    BY <1>0, <1>1 DEF TypeOK
  <2> QED
    BY <1>0, <1>2, <2>1, <2>2 DEF TypeOK
<1>9. ObjectsRegistered'
  BY <1>0, <1>4, <1>5, <1>6 DEF ObjectsRegistered
<1>10. CallbacksOwned' /\ CallsOwner'
  <2>1. CallbacksOwned'
    BY <1>0, <1>4 DEF CallbacksOwned, Active
  <2>2. ASSUME NEW i \in 1 .. k, stack'[i].at = "callback"
        PROVE  stack'[i].ud = stack'[i].r \/ stack'[i].r \in lost'
    <3>1. i \in 1 .. Len(stack) /\ stack[i].at = "callback"
          /\ stack'[i].r = stack[i].r /\ stack'[i].ud = stack[i].ud
      BY <1>3, <2>2
    <3> QED
      BY <1>0, <1>4, <3>1 DEF CallsOwner
  <2> QED
    BY <1>2, <2>1, <2>2 DEF CallsOwner
<1>11. LockHeld' /\ HandlesOnce'
  <2>1. \A i \in 1 .. k : stack'[i].at = "events" => ~ wedged'
    <3> SUFFICES ASSUME NEW i \in 1 .. k, stack'[i].at = "events",
                        NEW j \in k + 1 .. Len(s), s[j].at = "events"
                 PROVE  FALSE
      BY <1>0, <1>1, <1>3 DEF HandlesOnce
    <3>1. j \in 1 .. Len(stack) /\ stack[j].at = "events" /\ i # j
      BY <1>2 DEF Alike
    <3> QED
      BY <1>0, <1>3, <3>1 DEF HandlesOnce
  <2>2. \A i, j \in 1 .. k : stack'[i].at = "events" /\ stack'[j].at = "events" => i = j
    BY <1>0, <1>3 DEF HandlesOnce
  <2>3. Handling' \/ wedged' <=> Handling \/ wedged
    <3>1. Handling' => Handling
      BY <1>2, <1>3 DEF Handling
    <3>2. ASSUME NEW j \in k + 1 .. Len(s), s[j].at = "events"
          PROVE  Handling
      <4>1. j \in 1 .. Len(stack) /\ stack[j].at = "events"
        BY <1>2, <3>2 DEF Alike
      <4> QED
        BY <4>1 DEF Handling
    <3>3. ASSUME NEW i \in 1 .. Len(stack), stack[i].at = "events"
          PROVE  Handling' \/ wedged'
      <4>1. i \in 1 .. Len(s) /\ s[i].at = "events"
        BY <1>2, <3>3 DEF Alike
      <4>2. CASE i \in 1 .. k
        BY <1>2, <1>3, <3>3, <4>2 DEF Handling
      <4>3. CASE i \in k + 1 .. Len(s)
        BY <1>1, <4>1, <4>3
      <4> QED
        BY <1>2, <4>1, <4>2, <4>3
    <3> QED
      BY <1>1, <3>1, <3>2, <3>3 DEF Handling
  <2> QED
    BY <1>0, <1>2, <2>1, <2>2, <2>3 DEF LockHeld, HandlesOnce
<1>12. Fresh'
  <2>1. last \in Nat /\ Reg \subseteq Nat
    BY <1>0, HotplugAssumption DEF TypeOK, Reg
  <2>2. \A r \in Reg : r > last => r \notin lost'
    BY <1>0, <1>4, <1>7, <2>1 DEF Fresh
  <2>3. \A i \in 1 .. Len(stack') : stack'[i].at # "events" => stack'[i].r <= last
    BY <1>0, <1>2, <1>3 DEF Fresh
  <2> QED
    BY <1>0, <2>2, <2>3 DEF Fresh
<1>13. HandlesOwn'
  BY <1>0, <1>2, <1>3 DEF HandlesOwn
<1>14. EnumeratesActive'
  BY <1>0, <1>2, <1>3 DEF EnumeratesActive
<1> QED
  BY <1>8, <1>9, <1>10, <1>11, <1>12, <1>13, <1>14 DEF Inv, RegistrationsOwned

\* Callback, of a registration that is active, called from the topmost frame.
LEMMA CallbackInv ==
  ASSUME Inv, NEW s, Alike(s), Len(s) = Len(stack),
         NEW r \in Active, Callback(s, r),
         UNCHANGED <<object, cb_handle, reg, last, bus, locks>>
  PROVE  Inv'
<1> DEFINE u == object[reg[r].user]
<1> USE DEF Inv, RegistrationsOwned
<1>1. r \in Reg /\ r <= last /\ reg[r].active /\ reg[r].user \in Hpl
  <2>1. r \in Reg /\ reg[r].active
    BY DEF Active
  <2>2. last \in Nat /\ r \in Nat
    BY <2>1, HotplugAssumption DEF TypeOK, Reg
  <2>3. r <= last
    BY <2>1, <2>2 DEF Fresh
  <2> QED
    BY <2>1, <2>3 DEF Fresh
<1>2. u \in 0 .. MaxReg /\ (u = r \/ r \in lost)
  BY <1>1 DEF TypeOK, CallbacksOwned
<1>3. CASE u = 0
  BY <1>3, UnwindInv DEF Callback
<1>4. CASE u # 0
  <2> DEFINE f == [at |-> "callback", r |-> r, ud |-> u]
             n == Len(stack)
  <2>1. stack' = Append(s, f) /\ UNCHANGED <<wedged, lost>>
    BY <1>4 DEF Callback
  <2>2. f \in Frame /\ f.at = "callback" /\ f.r = r /\ f.ud = u
    BY <1>1, <1>2, <1>4, HotplugAssumption DEF Frame, Reg
  <2> HIDE DEF f, u
  <2>3. /\ s \in Seq(Frame) /\ n \in Nat
        /\ stack' \in Seq(Frame) /\ Len(stack') = n + 1 /\ stack'[n + 1] = f
        /\ \A i \in 1 .. n : stack'[i] = s[i]
    BY <2>1, <2>2 DEF Alike, TypeOK
  <2>4. \A i \in 1 .. n :
          /\ stack'[i].at = stack[i].at
          /\ stack[i].at # "events" => stack'[i].r = stack[i].r
          /\ stack[i].at = "callback" => stack'[i].ud = stack[i].ud
    BY <2>3 DEF Alike
  <2>5. \A i \in 1 .. Len(stack') : i \in 1 .. n \/ (i = n + 1 /\ stack'[i] = f)
    BY <2>3
  <2>6. Registering' = Registering
    BY <2>2, <2>3, <2>4, <2>5 DEF Registering
  <2>7. Handling' <=> Handling
    BY <2>2, <2>3, <2>4, <2>5 DEF Handling
  <2>8. TypeOK' /\ ObjectsRegistered' /\ CallbacksOwned'
    BY <2>1, <2>3, <2>6 DEF TypeOK, ObjectsRegistered, CallbacksOwned, Active, bus, locks
  <2>9. CallsOwner'
    BY <1>2, <2>1, <2>2, <2>3, <2>4, <2>5 DEF CallsOwner
  <2>10. LockHeld' /\ HandlesOnce'
    BY <2>1, <2>2, <2>3, <2>4, <2>5, <2>7 DEF LockHeld, HandlesOnce, locks
  <2>11. Fresh'
    BY <1>1, <2>1, <2>2, <2>3, <2>4, <2>5 DEF Fresh
  <2>12. HandlesOwn' /\ EnumeratesActive'
    BY <2>2, <2>3, <2>4, <2>5 DEF HandlesOwn, EnumeratesActive
  <2> QED
    BY <2>8, <2>9, <2>10, <2>11, <2>12
<1> QED
  BY <1>3, <1>4

\* Where only callbacks have ended, the same calls of libusb are under way.
LEMMA AlikeSame ==
  ASSUME TypeOK, Alike(stack')
  PROVE  /\ stack' \in Seq(Frame)
         /\ Registering' = Registering
         /\ Handling' <=> Handling
         /\ \A i \in 1 .. Len(stack') :
              /\ i \in 1 .. Len(stack)
              /\ stack'[i].at = stack[i].at
              /\ stack[i].at # "events" => stack'[i].r = stack[i].r
              /\ stack[i].at = "callback" => stack'[i].ud = stack[i].ud
<1>1. stack' \in Seq(Frame) /\ Len(stack') \in Nat /\ Len(stack) \in Nat
  BY DEF TypeOK, Alike
<1>2. \A i \in 1 .. Len(stack') :
        /\ i \in 1 .. Len(stack)
        /\ stack'[i].at = stack[i].at
        /\ stack[i].at # "events" => stack'[i].r = stack[i].r
        /\ stack[i].at = "callback" => stack'[i].ud = stack[i].ud
  <2> TAKE i \in 1 .. Len(stack')
  <2>1. i \in 1 .. Len(stack)
    BY <1>1 DEF Alike
  <2> QED
    BY <2>1 DEF Alike
<1>3. \A i \in 1 .. Len(stack) : stack[i].at # "callback" => i \in 1 .. Len(stack')
  BY <1>1 DEF Alike
<1>4. Registering' = Registering
  BY <1>2, <1>3 DEF Registering
<1>5. Handling' <=> Handling
  BY <1>2, <1>3 DEF Handling
<1> QED
  BY <1>1, <1>2, <1>4, <1>5

\* A callback that returns, and does nothing to the hotplugs.
LEMMA ReturnInv ==
  ASSUME Inv, Alike(stack'), UNCHANGED <<regs, bus, locks, wedged>>
  PROVE  Inv'
<1>0. /\ TypeOK /\ ObjectsRegistered /\ CallbacksOwned /\ CallsOwner
      /\ LockHeld /\ Fresh /\ HandlesOwn /\ EnumeratesActive /\ HandlesOnce
  BY DEF Inv, RegistrationsOwned
<1>1. UNCHANGED <<object, cb_handle, reg, last, lost, pending, posted, lock, lock_on_close, stuck, wedged>>
  BY DEF regs, bus, locks
<1>2. TypeOK'
  BY <1>0, <1>1, AlikeSame DEF TypeOK
<1>3. ObjectsRegistered' /\ CallbacksOwned'
  BY <1>0, <1>1, AlikeSame DEF ObjectsRegistered, CallbacksOwned, Active
<1>4. CallsOwner'
  BY <1>0, <1>1, AlikeSame DEF CallsOwner
<1>5. LockHeld' /\ HandlesOnce'
  BY <1>0, <1>1, AlikeSame DEF LockHeld, HandlesOnce
<1>6. Fresh'
  BY <1>0, <1>1, AlikeSame DEF Fresh
<1>7. HandlesOwn' /\ EnumeratesActive'
  BY <1>0, <1>1, AlikeSame DEF HandlesOwn, EnumeratesActive
<1> QED
  BY <1>2, <1>3, <1>4, <1>5, <1>6, <1>7 DEF Inv, RegistrationsOwned

\* What freehotplug does to the registrations.
LEMMA FreeReg ==
  ASSUME Inv, NEW h \in Hpl, FreeHotplug(h)
  PROVE  /\ reg' \in [Reg -> [active : BOOLEAN, user : Hpl \cup {Nil}]]
         /\ \A r \in Reg : r # cb_handle[h] => reg'[r] = reg[r]
         /\ \A r \in Reg : reg'[r].user = reg[r].user
         /\ \A r \in Reg : reg'[r].active <=> reg[r].active /\ r # cb_handle[h]
<1>1. reg \in [Reg -> [active : BOOLEAN, user : Hpl \cup {Nil}]]
  BY DEF Inv, RegistrationsOwned, TypeOK
<1>2. \A r \in Reg :
        /\ r = cb_handle[h] => reg'[r] = [active |-> FALSE, user |-> reg[r].user]
        /\ r # cb_handle[h] => reg'[r] = reg[r]
  BY <1>1 DEF FreeHotplug
<1>3. reg' = [r \in Reg |-> reg'[r]]
  BY DEF FreeHotplug
<1>4. \A r \in Reg : reg[r] \in [active : BOOLEAN, user : Hpl \cup {Nil}]
  BY <1>1
<1>5. \A r \in Reg :
        /\ reg'[r].user = reg[r].user
        /\ reg'[r].active <=> reg[r].active /\ r # cb_handle[h]
        /\ reg'[r] \in [active : BOOLEAN, user : Hpl \cup {Nil}]
  <2> TAKE r \in Reg
  <2>1. CASE r = cb_handle[h]
    <3>1. reg'[r] = [active |-> FALSE, user |-> reg[r].user] /\ reg[r].user \in Hpl \cup {Nil}
      BY <1>2, <1>4, <2>1
    <3>2. reg'[r].user = reg[r].user /\ reg'[r].active = FALSE
      BY <3>1
    <3>3. reg'[r] \in [active : BOOLEAN, user : Hpl \cup {Nil}]
      BY <3>1
    <3> QED
      BY <2>1, <3>2, <3>3
  <2>2. CASE r # cb_handle[h]
    BY <1>2, <1>4, <2>2
  <2> QED
    BY <2>1, <2>2
<1> QED
  BY <1>2, <1>3, <1>5

\* freehotplug keeps the invariant, whether the script or the end of a callback calls it.
LEMMA FreeInv ==
  ASSUME Inv, NEW h \in Hpl, object[h] # 0, FreeHotplug(h),
         Alike(stack'), UNCHANGED <<bus, locks, wedged>>
  PROVE  Inv'
<1> DEFINE c == cb_handle[h]
<1>0. /\ TypeOK /\ ObjectsRegistered /\ CallbacksOwned /\ CallsOwner
      /\ LockHeld /\ Fresh /\ HandlesOwn /\ EnumeratesActive /\ HandlesOnce
  BY DEF Inv, RegistrationsOwned
<1>1. UNCHANGED <<last, pending, posted, lock, lock_on_close, stuck, wedged>>
  BY DEF FreeHotplug, bus, locks
<1>2. /\ object' = [object EXCEPT ![h] = 0] /\ cb_handle' = [cb_handle EXCEPT ![h] = 0]
      /\ lost' = IF c = 0 THEN lost \cup {object[h]} ELSE lost
  BY DEF FreeHotplug
<1>3. object[h] \in Reg /\ c \in 0 .. MaxReg /\ Reg \subseteq Nat \ {0} /\ last \in Nat
  BY <1>0, HotplugAssumption DEF TypeOK, Reg
<1>4. lost \subseteq lost' /\ \A r \in lost' : r \in lost \/ r = object[h]
  BY <1>2
<1> HIDE DEF c
<1>5. TypeOK'
  <2>1. object' \in [Hpl -> 0 .. MaxReg] /\ cb_handle' \in [Hpl -> 0 .. MaxReg]
    BY <1>0, <1>2, HotplugAssumption DEF TypeOK
  <2>2. lost' \in SUBSET Reg
    BY <1>0, <1>3, <1>4 DEF TypeOK
  <2> QED
    BY <1>0, <1>1, <2>1, <2>2, FreeReg, AlikeSame DEF TypeOK
<1>6. ObjectsRegistered'
  <2> SUFFICES ASSUME NEW g \in Hpl, object'[g] # 0
               PROVE  /\ reg'[object'[g]] = [active |-> TRUE, user |-> g]
                      /\ object'[g] \notin lost' =>
                           cb_handle'[g] = IF object'[g] \in Registering' THEN 0 ELSE object'[g]
    BY DEF ObjectsRegistered
  <2>1. g # h /\ object'[g] = object[g] /\ cb_handle'[g] = cb_handle[g] /\ object[g] \in Reg
    BY <1>0, <1>2 DEF TypeOK, Reg
  <2>2. reg[object[g]] = [active |-> TRUE, user |-> g]
    BY <1>0, <2>1 DEF ObjectsRegistered
  <2>3. object[g] # c
    BY <1>0, <1>3, <2>1, <2>2 DEF HandlesOwn, c
  <2>4. reg'[object[g]] = reg[object[g]]
    BY <2>1, <2>3, FreeReg DEF c
  <2> QED
    BY <1>0, <1>4, <2>1, <2>2, <2>4, AlikeSame DEF ObjectsRegistered
<1>7. CallbacksOwned'
  <2> SUFFICES ASSUME NEW r \in Reg, reg'[r].active
               PROVE  object'[reg'[r].user] = r \/ r \in lost'
    BY DEF CallbacksOwned, Active
  <2>1. reg[r].active /\ r # c /\ reg'[r].user = reg[r].user
    BY FreeReg DEF c
  <2>2. object[reg[r].user] = r \/ r \in lost
    BY <1>0, <2>1 DEF CallbacksOwned, Active
  <2>3. CASE reg[r].user = h /\ r \notin lost
    <3>1. object[h] = r /\ (c = 0 \/ c = r)
      BY <1>0, <1>3, <2>2, <2>3 DEF ObjectsRegistered, c
    <3> QED
      BY <1>2, <2>1, <3>1
  <2>4. CASE reg[r].user # h \/ r \in lost
    <3>1. reg[r].user \in Hpl
      <4>1. r <= last
        BY <1>0, <1>3, <2>1 DEF Fresh
      <4> QED
        BY <1>0, <4>1 DEF Fresh
    <3> QED
      BY <1>0, <1>2, <1>4, <2>1, <2>2, <2>4, <3>1 DEF TypeOK
  <2> QED
    BY <2>3, <2>4
<1>8. CallsOwner'
  BY <1>0, <1>4, AlikeSame DEF CallsOwner
<1>9. LockHeld' /\ HandlesOnce'
  BY <1>0, <1>1, AlikeSame DEF LockHeld, HandlesOnce
<1>10. Fresh'
  <2>1. \A r \in Reg : r > last => ~ reg'[r].active /\ r \notin lost'
    <3> SUFFICES ASSUME NEW r \in Reg, r > last
                 PROVE  ~ reg'[r].active /\ r \notin lost'
      OBVIOUS
    <3>1. object[h] <= last /\ ~ reg[r].active /\ r \notin lost
      BY <1>0 DEF Fresh
    <3>2. r # object[h]
      BY <1>3, <3>1
    <3> QED
      BY <1>4, <3>1, <3>2, FreeReg
  <2>2. \A g \in Hpl : object'[g] <= last /\ cb_handle'[g] <= last
    <3>1. DOMAIN object = Hpl /\ DOMAIN cb_handle = Hpl
      BY <1>0 DEF TypeOK
    <3> QED
      BY <1>0, <1>2, <1>3, <3>1 DEF Fresh
  <2>3. \A i \in 1 .. Len(stack') : stack'[i].at # "events" => stack'[i].r <= last
    BY <1>0, AlikeSame DEF Fresh
  <2> QED
    BY <1>0, <1>1, <2>1, <2>2, <2>3, FreeReg DEF Fresh
<1>11. HandlesOwn'
  <2> SUFFICES ASSUME NEW g \in Hpl, cb_handle'[g] # 0
               PROVE  /\ reg'[cb_handle'[g]].user = g
                      /\ \A i \in 1 .. Len(stack') :
                           stack'[i].at = "register" => stack'[i].r # cb_handle'[g]
    BY DEF HandlesOwn
  <2>1. g # h /\ cb_handle'[g] = cb_handle[g] /\ cb_handle[g] \in Reg
    BY <1>0, <1>2 DEF TypeOK, Reg
  <2> QED
    BY <1>0, <2>1, FreeReg, AlikeSame DEF HandlesOwn
<1>12. EnumeratesActive'
  <2>1. ASSUME NEW i \in 1 .. Len(stack'), stack'[i].at = "register"
        PROVE  reg'[stack'[i].r].active
    <3>1. i \in 1 .. Len(stack) /\ stack[i].at = "register" /\ stack'[i].r = stack[i].r
      BY <2>1, AlikeSame, <1>0
    <3>2. stack[i].r \in Reg /\ stack[i].r # c
      BY <1>0, <1>3, <3>1, FrameFacts DEF HandlesOwn, c
    <3> QED
      BY <1>0, <3>1, <3>2, FreeReg DEF EnumeratesActive, c
  <2> QED
    BY <1>0, <2>1, AlikeSame DEF EnumeratesActive
<1> QED
  BY <1>5, <1>6, <1>7, <1>8, <1>9, <1>10, <1>11, <1>12 DEF Inv, RegistrationsOwned

LEMMA RegisterInv ==
  ASSUME Inv, NEW h \in Hpl, NEW e \in BOOLEAN, Register(h, e)
  PROVE  Inv'
<1> DEFINE r == last + 1
           n == Len(stack)
           f == [at |-> "register", r |-> r, left |-> Attached]
<1>0. /\ TypeOK /\ ObjectsRegistered /\ CallbacksOwned /\ CallsOwner
      /\ LockHeld /\ Fresh /\ HandlesOwn /\ EnumeratesActive /\ HandlesOnce
  BY DEF Inv, RegistrationsOwned
<1>1. /\ object[h] = 0 /\ r \in Reg
      /\ object' = [object EXCEPT ![h] = r]
      /\ cb_handle' = [cb_handle EXCEPT ![h] = IF e THEN 0 ELSE r]
      /\ reg' = [reg EXCEPT ![r] = [active |-> TRUE, user |-> h]]
      /\ last' = r
      /\ stack' = IF e THEN Append(stack, f) ELSE stack
      /\ UNCHANGED <<pending, posted, lock, lock_on_close, stuck, wedged, lost>>
  BY DEF Register, bus, locks
<1>2. last \in Nat /\ Reg \subseteq Nat \ {0} /\ r \in Nat /\ r > last
  BY <1>0, HotplugAssumption DEF TypeOK, Reg
<1>3. f \in Frame /\ f.at = "register" /\ f.r = r
  BY <1>1, HotplugAssumption DEF Frame
<1> HIDE DEF r, f
<1>4. /\ stack' \in Seq(Frame)
      /\ \A i \in 1 .. n : i \in 1 .. Len(stack') /\ stack'[i] = stack[i]
      /\ \A i \in 1 .. Len(stack') :
           i \in 1 .. n \/ (e /\ i = n + 1 /\ stack'[i].at = "register" /\ stack'[i].r = r)
      /\ e => n + 1 \in 1 .. Len(stack') /\ stack'[n + 1].at = "register" /\ stack'[n + 1].r = r
  <2>1. CASE e
    <3>1. stack' = Append(stack, f) /\ stack \in Seq(Frame)
      BY <1>0, <1>1, <2>1 DEF TypeOK
    <3> QED
      BY <1>3, <2>1, <3>1
  <2>2. CASE ~ e
    <3>1. stack' = stack /\ stack \in Seq(Frame)
      BY <1>0, <1>1, <2>2 DEF TypeOK
    <3> QED
      BY <2>2, <3>1
  <2> QED
    BY <2>1, <2>2
<1>5. \A i \in 1 .. n : stack[i].at # "events" => stack[i].r <= last /\ stack[i].r # r
  <2> TAKE i \in 1 .. n
  <2>1. stack[i].at # "events" => stack[i].r \in Reg
    BY FrameFacts, FrameFields
  <2>2. stack[i].at # "events" => stack[i].r <= last
    BY <1>0 DEF Fresh
  <2> QED
    BY <1>2, <2>1, <2>2
<1>6. \A q : q \in Registering' <=> q \in Registering \/ (e /\ q = r)
  <2>1. \A q \in Registering' : q \in Registering \/ (e /\ q = r)
    BY <1>4 DEF Registering
  <2>2. Registering \subseteq Registering'
    BY <1>4 DEF Registering
  <2>3. e => r \in Registering'
    BY <1>4 DEF Registering
  <2> QED
    BY <2>1, <2>2, <2>3
<1>7. r \notin Registering
  BY <1>5 DEF Registering
<1>8. /\ reg' \in [Reg -> [active : BOOLEAN, user : Hpl \cup {Nil}]]
      /\ reg'[r] = [active |-> TRUE, user |-> h]
      /\ \A q \in Reg : q # r => reg'[q] = reg[q]
  BY <1>0, <1>1 DEF TypeOK
<1>9. /\ object' \in [Hpl -> 0 .. MaxReg] /\ cb_handle' \in [Hpl -> 0 .. MaxReg]
      /\ object'[h] = r /\ cb_handle'[h] = IF e THEN 0 ELSE r
      /\ \A g \in Hpl : g # h => object'[g] = object[g] /\ cb_handle'[g] = cb_handle[g]
  BY <1>0, <1>1, HotplugAssumption DEF TypeOK, Reg
<1>10. \A g \in Hpl : /\ object[g] # r /\ cb_handle[g] # r
                      /\ object[g] \in Nat /\ cb_handle[g] \in Nat
                      /\ object[g] # 0 => object[g] \in Reg
                      /\ cb_handle[g] # 0 => cb_handle[g] \in Reg
  BY <1>0, <1>2, HotplugAssumption DEF TypeOK, Fresh, Reg
<1>11. TypeOK'
  <2>1. last' \in 0 .. MaxReg
    BY <1>1, HotplugAssumption DEF Reg
  <2> QED
    BY <1>0, <1>1, <1>4, <1>8, <1>9, <2>1 DEF TypeOK
<1>12. ObjectsRegistered'
  <2> SUFFICES ASSUME NEW g \in Hpl, object'[g] # 0
               PROVE  /\ reg'[object'[g]] = [active |-> TRUE, user |-> g]
                      /\ object'[g] \notin lost' =>
                           cb_handle'[g] = IF object'[g] \in Registering' THEN 0 ELSE object'[g]
    BY DEF ObjectsRegistered
  <2>1. CASE g = h
    BY <1>6, <1>7, <1>8, <1>9, <2>1
  <2>2. CASE g # h
    BY <1>0, <1>1, <1>6, <1>8, <1>9, <1>10, <2>2 DEF ObjectsRegistered
  <2> QED
    BY <2>1, <2>2
<1>13. CallbacksOwned'
  <2> SUFFICES ASSUME NEW q \in Reg, reg'[q].active
               PROVE  object'[reg'[q].user] = q \/ q \in lost'
    BY DEF CallbacksOwned, Active
  <2>1. CASE q = r
    BY <1>8, <1>9, <2>1
  <2>2. CASE q # r
    <3>1. reg[q].active /\ reg'[q] = reg[q]
      BY <1>8, <2>2
    <3>2. object[reg[q].user] = q \/ q \in lost
      BY <1>0, <3>1 DEF CallbacksOwned, Active
    <3>3. reg[q].user \in Hpl
      <4>1. q <= last
        BY <1>0, <1>2, <3>1 DEF Fresh
      <4> QED
        BY <1>0, <4>1 DEF Fresh
    <3>4. reg[q].user = h => q \in lost
      BY <1>1, <1>2, <3>2
    <3> QED
      BY <1>1, <1>9, <3>1, <3>2, <3>3, <3>4
  <2> QED
    BY <2>1, <2>2
<1>14. CallsOwner'
  BY <1>0, <1>1, <1>4 DEF CallsOwner
<1>15. LockHeld' /\ HandlesOnce'
  <2>1. Handling' <=> Handling
    BY <1>4 DEF Handling
  <2> QED
    BY <1>0, <1>1, <1>4, <2>1 DEF LockHeld, HandlesOnce
<1>16. Fresh'
  <2>1. \A q \in Reg : q <= last' => reg'[q].user \in Hpl
    BY <1>0, <1>1, <1>2, <1>8 DEF Fresh, r
  <2>2. \A q \in Reg : q > last' => ~ reg'[q].active /\ q \notin lost'
    BY <1>0, <1>1, <1>2, <1>8 DEF Fresh, r
  <2>3. \A g \in Hpl : object'[g] <= last' /\ cb_handle'[g] <= last'
    BY <1>0, <1>1, <1>2, <1>9, <1>10 DEF Fresh, r
  <2>4. \A i \in 1 .. Len(stack') : stack'[i].at # "events" => stack'[i].r <= last'
    <3>1. \A i \in 1 .. n : stack[i].at # "events" => stack[i].r \in Nat
      BY <1>2, FrameFacts, FrameFields
    <3> QED
      BY <1>1, <1>2, <1>4, <1>5, <3>1 DEF r
  <2> QED
    BY <2>1, <2>2, <2>3, <2>4 DEF Fresh
<1>17. HandlesOwn'
  <2> SUFFICES ASSUME NEW g \in Hpl, cb_handle'[g] # 0
               PROVE  /\ reg'[cb_handle'[g]].user = g
                      /\ \A i \in 1 .. Len(stack') :
                           stack'[i].at = "register" => stack'[i].r # cb_handle'[g]
    BY DEF HandlesOwn
  <2>1. ASSUME NEW i \in 1 .. Len(stack'), stack'[i].at = "register"
        PROVE  IF i \in 1 .. n THEN stack'[i] = stack[i] /\ stack[i].r # r
               ELSE e /\ stack'[i].r = r
    BY <1>4, <1>5, <2>1
  <2>2. CASE g = h
    <3>1. ~ e /\ cb_handle'[g] = r
      BY <1>9, <2>2
    <3> QED
      BY <1>8, <2>1, <2>2, <3>1
  <2>3. CASE g # h
    <3>1. cb_handle'[g] = cb_handle[g] /\ cb_handle[g] \in Reg /\ cb_handle[g] # r
      BY <1>9, <1>10, <2>3
    <3>2. reg'[cb_handle[g]].user = g
      BY <1>0, <1>8, <3>1 DEF HandlesOwn
    <3>3. \A i \in 1 .. n : stack[i].at = "register" => stack[i].r # cb_handle[g]
      BY <1>0, <3>1 DEF HandlesOwn
    <3> QED
      BY <2>1, <3>1, <3>2, <3>3
  <2> QED
    BY <2>2, <2>3
<1>18. EnumeratesActive'
  <2>1. ASSUME NEW i \in 1 .. Len(stack'), stack'[i].at = "register"
        PROVE  reg'[stack'[i].r].active
    <3>1. CASE i \in 1 .. n
      <4>1. stack'[i] = stack[i] /\ stack[i].r \in Reg /\ stack[i].r # r
        BY <1>4, <1>5, <2>1, <3>1, FrameFacts
      <4> QED
        BY <1>0, <1>8, <2>1, <3>1, <4>1 DEF EnumeratesActive
    <3>2. CASE i \notin 1 .. n
      BY <1>4, <1>8, <3>2
    <3> QED
      BY <3>1, <3>2
  <2>2. \A i, j \in 1 .. Len(stack') :
          stack'[i].at = "register" /\ stack'[j].at = "register" /\ stack'[i].r = stack'[j].r => i = j
    BY <1>0, <1>4, <1>5 DEF EnumeratesActive
  <2> QED
    BY <2>1, <2>2 DEF EnumeratesActive
<1> QED
  BY <1>11, <1>12, <1>13, <1>14, <1>15, <1>16, <1>17, <1>18 DEF Inv, RegistrationsOwned

LEMMA EndRegisterInv ==
  ASSUME Inv, EndRegister
  PROVE  Inv'
<1> DEFINE t == Top.r
           h == reg[Top.r].user
           n == Len(stack)
<1>0. /\ TypeOK /\ ObjectsRegistered /\ CallbacksOwned /\ CallsOwner
      /\ LockHeld /\ Fresh /\ HandlesOwn /\ EnumeratesActive /\ HandlesOnce
  BY DEF Inv, RegistrationsOwned
<1>1. /\ In("register")
      /\ cb_handle' = [cb_handle EXCEPT ![h] = t]
      /\ lost' = lost \cup ({object[h]} \ {0, t})
      /\ stack' = Rest
      /\ UNCHANGED <<object, reg, last, pending, posted, lock, lock_on_close, stuck, wedged>>
  BY DEF EndRegister, bus, locks
<1>2. n \in Nat \ {0} /\ stack[n] \in Frame /\ stack[n].at = "register" /\ stack[n].r = t
  BY <1>0, <1>1, InTop
<1>3. t \in Reg /\ t <= last /\ h \in Hpl
  BY <1>0, <1>2, FrameFacts DEF Fresh
<1>4. Reg \subseteq Nat \ {0} /\ last \in Nat
  BY <1>0, HotplugAssumption DEF TypeOK, Reg
<1> HIDE DEF t, h
<1>5. /\ stack' \in Seq(Frame) /\ Len(stack') = n - 1
      /\ \A i \in 1 .. Len(stack') : i \in 1 .. n /\ i # n /\ stack'[i] = stack[i]
      /\ \A i \in 1 .. n : i # n => i \in 1 .. Len(stack')
  <2>1. stack # <<>>
    BY <1>1 DEF In
  <2> QED
    BY <1>0, <1>1, <1>2, <2>1, RestIs
<1>6. \A i \in 1 .. n : stack[i].at = "register" /\ stack[i].r = t => i = n
  BY <1>0, <1>2 DEF EnumeratesActive
<1>7. \A q : q \in Registering' <=> q \in Registering /\ q # t
  <2>1. \A q \in Registering' : q \in Registering /\ q # t
    BY <1>5, <1>6 DEF Registering
  <2>2. \A q \in Registering : q # t => q \in Registering'
    BY <1>2, <1>5 DEF Registering
  <2> QED
    BY <2>1, <2>2
<1>8. /\ cb_handle' \in [Hpl -> 0 .. MaxReg] /\ cb_handle'[h] = t
      /\ \A g \in Hpl : g # h => cb_handle'[g] = cb_handle[g]
  BY <1>0, <1>1, <1>3, HotplugAssumption DEF TypeOK, Reg
<1>9. /\ lost \subseteq lost'
      /\ \A q \in lost' : q \in lost \/ (q = object[h] /\ q # 0)
      /\ object[h] # 0 /\ object[h] # t => object[h] \in lost'
  BY <1>1
<1>10. \A g \in Hpl : object[g] \in 0 .. MaxReg /\ (object[g] # 0 => object[g] \in Reg)
  BY <1>0, HotplugAssumption DEF TypeOK, Reg
<1>11. TypeOK'
  <2>1. lost' \in SUBSET Reg
    BY <1>0, <1>3, <1>9, <1>10 DEF TypeOK
  <2> QED
    BY <1>0, <1>1, <1>5, <1>8, <2>1 DEF TypeOK
<1>12. ObjectsRegistered'
  <2> SUFFICES ASSUME NEW g \in Hpl, object[g] # 0
               PROVE  /\ reg[object[g]] = [active |-> TRUE, user |-> g]
                      /\ object[g] \notin lost' =>
                           cb_handle'[g] = IF object[g] \in Registering' THEN 0 ELSE object[g]
    BY <1>1 DEF ObjectsRegistered
  <2>1. reg[object[g]] = [active |-> TRUE, user |-> g]
    BY <1>0 DEF ObjectsRegistered
  <2>2. CASE g = h
    BY <1>7, <1>8, <1>9, <2>1, <2>2
  <2>3. CASE g # h
    <3>1. object[g] # t
      BY <2>1, <2>3 DEF h, t
    <3> QED
      BY <1>0, <1>7, <1>8, <1>9, <2>1, <2>3, <3>1 DEF ObjectsRegistered
  <2> QED
    BY <2>2, <2>3
<1>13. CallbacksOwned'
  BY <1>0, <1>1, <1>9 DEF CallbacksOwned, Active
<1>14. CallsOwner'
  BY <1>0, <1>5, <1>9 DEF CallsOwner
<1>15. LockHeld' /\ HandlesOnce'
  <2>1. Handling' <=> Handling
    BY <1>2, <1>5 DEF Handling
  <2> QED
    BY <1>0, <1>1, <1>5, <2>1 DEF LockHeld, HandlesOnce
<1>16. Fresh'
  <2>1. \A q \in Reg : q > last => q \notin lost'
    BY <1>0, <1>3, <1>4, <1>9, <1>10 DEF Fresh
  <2>2. \A g \in Hpl : cb_handle'[g] <= last
    BY <1>0, <1>3, <1>8 DEF Fresh
  <2>3. \A i \in 1 .. Len(stack') : stack'[i].at # "events" => stack'[i].r <= last
    BY <1>0, <1>5 DEF Fresh
  <2> QED
    BY <1>0, <1>1, <2>1, <2>2, <2>3 DEF Fresh
<1>17. HandlesOwn'
  <2> SUFFICES ASSUME NEW g \in Hpl, cb_handle'[g] # 0
               PROVE  /\ reg[cb_handle'[g]].user = g
                      /\ \A i \in 1 .. Len(stack') :
                           stack'[i].at = "register" => stack'[i].r # cb_handle'[g]
    BY <1>1 DEF HandlesOwn
  <2>1. CASE g = h
    BY <1>5, <1>6, <1>8, <2>1 DEF h, t
  <2>2. CASE g # h
    BY <1>0, <1>5, <1>8, <2>2 DEF HandlesOwn
  <2> QED
    BY <2>1, <2>2
<1>18. EnumeratesActive'
  <2>1. \A i \in 1 .. Len(stack') : stack'[i].at = "register" => reg[stack'[i].r].active
    BY <1>0, <1>5 DEF EnumeratesActive
  <2>2. \A i, j \in 1 .. Len(stack') :
          stack'[i].at = "register" /\ stack'[j].at = "register" /\ stack'[i].r = stack'[j].r => i = j
    BY <1>0, <1>5 DEF EnumeratesActive
  <2> QED
    BY <1>1, <2>1, <2>2 DEF EnumeratesActive
<1> QED
  BY <1>11, <1>12, <1>13, <1>14, <1>15, <1>16, <1>17, <1>18 DEF Inv, RegistrationsOwned

LEMMA HandleEventsInv ==
  ASSUME Inv, HandleEvents
  PROVE  Inv'
<1> DEFINE n == Len(stack)
           f == [at |-> "events", todo |-> Active]
<1>0. /\ TypeOK /\ ObjectsRegistered /\ CallbacksOwned /\ CallsOwner
      /\ LockHeld /\ Fresh /\ HandlesOwn /\ EnumeratesActive /\ HandlesOnce
  BY DEF Inv, RegistrationsOwned
<1>1. /\ ~ Handling /\ ~ wedged /\ pending > 0 /\ pending' = pending - 1 /\ lock' = TRUE
      /\ stack' = Append(stack, f)
      /\ UNCHANGED <<object, cb_handle, reg, last, lost, posted, lock_on_close, stuck, wedged>>
  BY DEF HandleEvents, regs
<1>2. f \in Frame /\ f.at = "events"
  BY DEF Frame, Active
<1> HIDE DEF f
<1>3. /\ n \in Nat /\ stack' \in Seq(Frame) /\ Len(stack') = n + 1 /\ stack'[n + 1].at = "events"
      /\ \A i \in 1 .. n : i \in 1 .. Len(stack') /\ stack'[i] = stack[i]
      /\ \A i \in 1 .. Len(stack') : i \in 1 .. n \/ i = n + 1
  <2>1. stack \in Seq(Frame)
    BY <1>0 DEF TypeOK
  <2> QED
    BY <1>1, <1>2, <2>1
<1>4. \A i \in 1 .. n : stack[i].at # "events"
  BY <1>1 DEF Handling
<1>5. Registering' = Registering
  BY <1>3 DEF Registering
<1>6. TypeOK'
  <2>1. pending' \in 0 .. posted
    BY <1>0, <1>1, HotplugAssumption DEF TypeOK
  <2> QED
    BY <1>0, <1>1, <1>3, <2>1 DEF TypeOK
<1>7. ObjectsRegistered' /\ CallbacksOwned'
  BY <1>0, <1>1, <1>5 DEF ObjectsRegistered, CallbacksOwned, Active
<1>8. CallsOwner'
  BY <1>0, <1>1, <1>3 DEF CallsOwner
<1>9. LockHeld' /\ HandlesOnce'
  <2>1. Handling'
    BY <1>3 DEF Handling
  <2> QED
    BY <1>1, <1>3, <1>4, <2>1 DEF LockHeld, HandlesOnce
<1>10. Fresh'
  BY <1>0, <1>1, <1>3 DEF Fresh
<1>11. HandlesOwn' /\ EnumeratesActive'
  BY <1>0, <1>1, <1>3 DEF HandlesOwn, EnumeratesActive
<1> QED
  BY <1>6, <1>7, <1>8, <1>9, <1>10, <1>11 DEF Inv, RegistrationsOwned

LEMMA EndEventsInv ==
  ASSUME Inv, EndEvents
  PROVE  Inv'
<1> DEFINE n == Len(stack)
<1>0. /\ TypeOK /\ ObjectsRegistered /\ CallbacksOwned /\ CallsOwner
      /\ LockHeld /\ Fresh /\ HandlesOwn /\ EnumeratesActive /\ HandlesOnce
  BY DEF Inv, RegistrationsOwned
<1>1. /\ In("events") /\ stack' = Rest /\ lock' = FALSE
      /\ UNCHANGED <<object, cb_handle, reg, last, lost, pending, posted, lock_on_close, stuck, wedged>>
  BY DEF EndEvents, regs, bus
<1>2. n \in Nat \ {0} /\ stack[n].at = "events"
  BY <1>0, <1>1, InTop
<1>3. /\ stack' \in Seq(Frame) /\ Len(stack') = n - 1
      /\ \A i \in 1 .. Len(stack') : i \in 1 .. n /\ i # n /\ stack'[i] = stack[i]
      /\ \A i \in 1 .. n : i # n => i \in 1 .. Len(stack')
  <2>1. stack # <<>>
    BY <1>1 DEF In
  <2> QED
    BY <1>0, <1>1, <1>2, <2>1, RestIs
<1>4. (\A i \in 1 .. n : i # n => stack[i].at # "events") /\ ~ wedged
  BY <1>0, <1>2 DEF HandlesOnce
<1>5. Registering' = Registering
  BY <1>2, <1>3 DEF Registering
<1>6. TypeOK'
  BY <1>0, <1>1, <1>3 DEF TypeOK
<1>7. ObjectsRegistered' /\ CallbacksOwned'
  BY <1>0, <1>1, <1>5 DEF ObjectsRegistered, CallbacksOwned, Active
<1>8. CallsOwner'
  BY <1>0, <1>1, <1>3 DEF CallsOwner
<1>9. LockHeld' /\ HandlesOnce'
  <2>1. ~ Handling'
    BY <1>3, <1>4 DEF Handling
  <2> QED
    BY <1>1, <1>3, <1>4, <2>1 DEF LockHeld, HandlesOnce
<1>10. Fresh'
  BY <1>0, <1>1, <1>3 DEF Fresh
<1>11. HandlesOwn' /\ EnumeratesActive'
  BY <1>0, <1>1, <1>3 DEF HandlesOwn, EnumeratesActive
<1> QED
  BY <1>6, <1>7, <1>8, <1>9, <1>10, <1>11 DEF Inv, RegistrationsOwned

\* What concerns neither hotplugs, nor calls under way, nor the lock.
LEMMA KeepInv ==
  ASSUME Inv, UNCHANGED <<regs, stack, lock, wedged>>,
         pending' \in 0 .. posted', posted' \in 0 .. MaxEvents,
         lock_on_close' \in BOOLEAN, stuck' \in BOOLEAN
  PROVE  Inv'
<1> USE DEF regs
<1>0. /\ TypeOK /\ ObjectsRegistered /\ CallbacksOwned /\ CallsOwner
      /\ LockHeld /\ Fresh /\ HandlesOwn /\ EnumeratesActive /\ HandlesOnce
  BY DEF Inv, RegistrationsOwned
<1>1. TypeOK'
  BY <1>0 DEF TypeOK
<1>2. ObjectsRegistered' /\ CallbacksOwned' /\ CallsOwner'
  BY <1>0 DEF ObjectsRegistered, CallbacksOwned, CallsOwner, Active, Registering
<1>3. LockHeld' /\ HandlesOnce'
  BY <1>0 DEF LockHeld, HandlesOnce, Handling
<1>4. Fresh' /\ HandlesOwn' /\ EnumeratesActive'
  BY <1>0 DEF Fresh, HandlesOwn, EnumeratesActive
<1> QED
  BY <1>1, <1>2, <1>3, <1>4 DEF Inv, RegistrationsOwned

LEMMA CallingUser ==
  ASSUME Inv, In("callback")
  PROVE  /\ Top.r \in Reg /\ Top.ud \in Reg /\ reg[Top.r].user \in Hpl
         /\ Top.ud = Top.r \/ Top.r \in lost
<1>1. TypeOK /\ CallsOwner /\ Fresh
  BY DEF Inv, RegistrationsOwned
<1>2. Len(stack) \in 1 .. Len(stack) /\ Top = stack[Len(stack)] /\ Top.at = "callback"
  BY <1>1, InTop
<1>3. Top.r \in Reg /\ Top.r <= last /\ Top.ud \in Reg
  BY <1>2, FrameFacts, FrameFields
<1> QED
  BY <1>1, <1>2, <1>3 DEF Fresh, CallsOwner

LEMMA StepInv ==
  ASSUME Inv, [Next]_vars
  PROVE  Inv'
<1>0. TypeOK /\ Fresh /\ EnumeratesActive
  BY DEF Inv, RegistrationsOwned
<1>1. CASE \E h \in Hpl, e \in BOOLEAN : Register(h, e)
  BY <1>1, RegisterInv
<1>2. CASE \E h \in Hpl : Deregister(h)
  <2>1. PICK h \in Hpl : Deregister(h)
    BY <1>2
  <2>2. Alike(stack')
    BY <1>0, <2>1 DEF Deregister, Alike, TypeOK
  <2> QED
    BY <2>1, <2>2, FreeInv DEF Deregister
<1>3. CASE Enumerate
  <2>1. In("register") /\ Top.left > 0
    BY <1>3 DEF Enumerate
  <2>2. Top.r \in Active
    <3>1. Len(stack) \in 1 .. Len(stack) /\ Top = stack[Len(stack)] /\ Top.at = "register"
      BY <1>0, <2>1, InTop
    <3> QED
      BY <1>0, <3>1, FrameFacts DEF EnumeratesActive, Active
  <2>3. Len([stack EXCEPT ![Len(stack)].left = @ - 1]) = Len(stack)
    BY <1>0 DEF TypeOK
  <2> QED
    BY <1>0, <1>3, <2>1, <2>2, <2>3, EnumerateAlike, CallbackInv DEF Enumerate
<1>4. CASE EndRegister
  BY <1>4, EndRegisterInv
<1>5. CASE EndEvents
  BY <1>5, EndEventsInv
<1>6. CASE \E r \in Reg : Dispatch(r)
  <2>1. PICK r \in Reg : Dispatch(r)
    BY <1>6
  <2> DEFINE s == [stack EXCEPT ![Len(stack)].todo = @ \ {r}]
  <2>2. In("events") /\ UNCHANGED <<object, cb_handle, reg, last, bus, locks>>
        /\ IF reg[r].active THEN Callback(s, r) ELSE stack' = s /\ UNCHANGED <<wedged, lost>>
    BY <2>1 DEF Dispatch
  <2>3. Alike(s) /\ Len(s) = Len(stack)
    <3>1. Alike(s)
      BY <1>0, <2>2, DispatchAlike
    <3>2. Len(s) = Len(stack)
      BY <1>0 DEF TypeOK
    <3> QED
      BY <3>1, <3>2
  <2> HIDE DEF s
  <2>4. CASE reg[r].active
    BY <2>2, <2>3, <2>4, CallbackInv DEF Active
  <2>5. CASE ~ reg[r].active
    BY <2>2, <2>3, <2>5, ReturnInv DEF regs
  <2> QED
    BY <2>4, <2>5
<1>7. CASE ReturnFalse
  <2>1. Alike(stack')
    BY <1>0, <1>7, RestAlike DEF ReturnFalse
  <2> QED
    BY <1>7, <2>1, ReturnInv DEF ReturnFalse
<1>8. CASE ReturnTrue
  <2>1. In("callback") /\ stack' = Rest
    BY <1>8 DEF ReturnTrue
  <2>2. Alike(stack')
    BY <1>0, <2>1, RestAlike
  <2>3. Top.ud # 0 /\ reg[Top.r].user \in Hpl
    BY <2>1, CallingUser, HotplugAssumption DEF Reg
  <2> QED
    BY <1>8, <2>2, <2>3, FreeInv, ReturnInv DEF ReturnTrue
<1>9. CASE Raise
  BY <1>0, <1>9, RestAlike, UnwindInv DEF Raise
<1>10. CASE HandleEvents
  BY <1>10, HandleEventsInv
<1>11. CASE Post \/ LockOnClose \/ CloseHandle \/ UNCHANGED vars
  <2>1. UNCHANGED <<regs, stack, lock, wedged>>
    BY <1>11 DEF Post, LockOnClose, CloseHandle, locks, vars
  <2>2. pending' \in 0 .. posted' /\ posted' \in 0 .. MaxEvents
    BY <1>0, <1>11, HotplugAssumption DEF TypeOK, Post, LockOnClose, CloseHandle, bus, vars
  <2>3. lock_on_close' \in BOOLEAN /\ stuck' \in BOOLEAN
    BY <1>0, <1>11 DEF TypeOK, Post, LockOnClose, CloseHandle, locks, vars
  <2> QED
    BY <2>1, <2>2, <2>3, KeepInv
<1> QED
  BY <1>1, <1>2, <1>3, <1>4, <1>5, <1>6, <1>7, <1>8, <1>9, <1>10, <1>11
     DEF Next, Library, Return

LEMMA InitInv == Init => Inv
<1> SUFFICES ASSUME Init PROVE Inv
  OBVIOUS
<1>1. /\ stack = <<>> /\ lost = {} /\ last = 0 /\ pending = 0 /\ posted = 0
      /\ lock = FALSE /\ lock_on_close = FALSE /\ stuck = FALSE /\ wedged = FALSE
      /\ object = [h \in Hpl |-> 0] /\ cb_handle = [h \in Hpl |-> 0]
      /\ reg = [r \in Reg |-> [active |-> FALSE, user |-> Nil]]
  BY DEF Init
<1>2. /\ Len(stack) = 0 /\ stack \in Seq(Frame)
      /\ \A h \in Hpl : object[h] = 0 /\ cb_handle[h] = 0
      /\ \A r \in Reg : reg[r].active = FALSE
      /\ Reg \subseteq Nat \ {0}
  BY <1>1, HotplugAssumption DEF Reg
<1>3. TypeOK
  <2>1. object \in [Hpl -> 0 .. MaxReg] /\ cb_handle \in [Hpl -> 0 .. MaxReg]
    BY <1>1, HotplugAssumption
  <2>2. reg \in [Reg -> [active : BOOLEAN, user : Hpl \cup {Nil}]]
    BY <1>1
  <2>3. last \in 0 .. MaxReg /\ pending \in 0 .. posted /\ posted \in 0 .. MaxEvents
    BY <1>1, HotplugAssumption
  <2> QED
    BY <1>1, <1>2, <2>1, <2>2, <2>3 DEF TypeOK
<1>4. ObjectsRegistered /\ CallbacksOwned /\ CallsOwner
  BY <1>2 DEF ObjectsRegistered, CallbacksOwned, CallsOwner, Active
<1>5. LockHeld /\ HandlesOnce
  BY <1>1, <1>2 DEF LockHeld, HandlesOnce, Handling
<1>6. Fresh /\ HandlesOwn /\ EnumeratesActive
  BY <1>1, <1>2 DEF Fresh, HandlesOwn, EnumeratesActive
<1> QED
  BY <1>3, <1>4, <1>5, <1>6 DEF Inv, RegistrationsOwned

LEMMA Invariance == Spec => []Inv
<1>1. Inv /\ [Next]_vars => Inv'
  BY StepInv
<1> QED
  BY InitInv, <1>1, PTL DEF Spec

-----------------------------------------------------------------------------
\* Whatever callbacks do, at any depth: each object is registered, each registration
\* that is not lost has its object, and an event reaches the callback it is for.
THEOREM HotplugsOwned == Spec => []RegistrationsOwned
BY Invariance, PTL DEF Inv

\* The event lock is held exactly while an event handler runs, or after an error has
\* left one.
THEOREM LockAlwaysHeld == Spec => []LockHeld
BY Invariance, PTL DEF Inv

\* A registration can only be lost while libusb enumerates devices for it.
THEOREM LostOnlyEnumerating == Spec => LostEnumerating
<1>1. ASSUME Inv, Next, lost' # lost
      PROVE  \E r \in Registering : r \in lost'
  <2>0. TypeOK /\ ObjectsRegistered /\ CallbacksOwned /\ Fresh /\ EnumeratesActive
    BY <1>1 DEF Inv, RegistrationsOwned
  <2>1. ASSUME NEW s, Alike(s), Unwind(s)
        PROVE  \E r \in Registering : r \in lost'
    <3>1. PICK k \in 0 .. Len(s) :
            lost' = lost \cup {s[j].r : j \in {i \in k + 1 .. Len(s) : s[i].at = "register"}}
      BY <2>1 DEF Unwind
    <3>2. PICK j \in k + 1 .. Len(s) : s[j].at = "register" /\ s[j].r \in lost'
      BY <1>1, <3>1
    <3>3. j \in 1 .. Len(stack) /\ j \in 1 .. Len(s)
      BY <2>0, <2>1, <3>2 DEF Alike, TypeOK
    <3>4. stack[j].at = "register" /\ stack[j].r = s[j].r
      BY <2>1, <3>2, <3>3 DEF Alike
    <3> QED
      BY <3>2, <3>3, <3>4, RegisteringIs
  <2>2. ASSUME NEW h \in Hpl, object[h] # 0, FreeHotplug(h)
        PROVE  \E r \in Registering : r \in lost'
    <3>1. cb_handle[h] = 0 /\ lost' = lost \cup {object[h]} /\ object[h] \notin lost
      BY <1>1, <2>2 DEF FreeHotplug
    <3>2. object[h] \in Registering
      BY <2>0, <2>2, <3>1 DEF ObjectsRegistered
    <3> QED
      BY <3>1, <3>2
  <2>3. CASE EndRegister
    <3>1. Len(stack) \in 1 .. Len(stack) /\ Top = stack[Len(stack)] /\ Top.at = "register"
      BY <2>0, <2>3, InTop DEF EndRegister
    <3>2. Top.r \in Registering /\ Top.r \in Reg /\ reg[Top.r].active
      BY <2>0, <1>1, <3>1, FrameFacts, RegisteringIs DEF EnumeratesActive
    <3>3. object[reg[Top.r].user] = Top.r \/ Top.r \in lost
      BY <2>0, <3>2 DEF CallbacksOwned, Active
    <3>4. lost' = lost \cup ({object[reg[Top.r].user]} \ {0, Top.r})
      BY <2>3 DEF EndRegister
    <3> QED
      BY <1>1, <3>2, <3>3, <3>4
  <2>4. CASE Enumerate
    BY <1>1, <2>0, <2>1, <2>4, EnumerateAlike DEF Enumerate, Callback
  <2>5. CASE \E r \in Reg : Dispatch(r)
    BY <1>1, <2>0, <2>1, <2>5, DispatchAlike DEF Dispatch, Callback
  <2>6. CASE Raise
    BY <2>0, <2>1, <2>6, RestAlike DEF Raise
  <2>7. CASE ReturnTrue
    <3>1. Top.ud # 0 /\ reg[Top.r].user \in Hpl
      BY <1>1, <2>7, CallingUser, HotplugAssumption DEF ReturnTrue, Reg
    <3> QED
      BY <1>1, <2>2, <2>7, <3>1 DEF ReturnTrue, regs
  <2>8. CASE \E h \in Hpl : Deregister(h)
    BY <2>2, <2>8 DEF Deregister
  <2>9. CASE \/ \E h \in Hpl, e \in BOOLEAN : Register(h, e)
             \/ EndEvents \/ ReturnFalse \/ Post \/ HandleEvents \/ LockOnClose \/ CloseHandle
    BY <1>1, <2>9
       DEF Register, EndEvents, ReturnFalse, Post, HandleEvents, LockOnClose, CloseHandle, regs
  <2> QED
    BY <1>1, <2>3, <2>4, <2>5, <2>6, <2>7, <2>8, <2>9 DEF Next, Library, Return
<1>2. Inv /\ [Next]_vars => [lost' # lost => \E r \in Registering : r \in lost']_vars
  BY <1>1
<1> QED
  BY <1>2, Invariance, PTL DEF Spec, LostEnumerating

\* A callback that returns true ends its own registration and no other, even if it has
\* deregistered its hotplug, and registered others, before.
THEOREM TrueAlwaysDeregisters == Spec => TrueDeregisters
<1> DEFINE Own == /\ Top.r \notin lost' => ~ reg'[Top.r].active
                  /\ {Top.r, Top.ud} \cap lost = {} => \A r \in Reg \ {Top.r} : reg'[r] = reg[r]
<1>1. ASSUME Inv, ReturnTrue
      PROVE  Own
  <2> DEFINE t == Top.r
             h == reg[Top.r].user
  <2>0. TypeOK /\ ObjectsRegistered /\ CallbacksOwned
    BY <1>1 DEF Inv, RegistrationsOwned
  <2>1. t \in Reg /\ Top.ud \in Reg /\ h \in Hpl /\ (Top.ud = t \/ t \in lost)
    BY <1>1, CallingUser DEF ReturnTrue
  <2>2. IF object[h] = Top.ud THEN FreeHotplug(h) ELSE UNCHANGED regs
    BY <1>1 DEF ReturnTrue
  <2>3. Top.ud # 0
    BY <2>1, HotplugAssumption DEF Reg
  <2> HIDE DEF t, h
  <2>4. CASE object[h] = Top.ud
    <3>1. FreeHotplug(h)
      BY <2>2, <2>4
    <3>2. lost' = IF cb_handle[h] = 0 THEN lost \cup {object[h]} ELSE lost
      BY <3>1 DEF FreeHotplug
    <3>3. Top.ud \notin lost => cb_handle[h] = Top.ud \/ cb_handle[h] = 0
      BY <2>0, <2>1, <2>3, <2>4 DEF ObjectsRegistered
    <3>4. t \notin lost' => cb_handle[h] = t
      BY <2>1, <2>4, <3>2, <3>3
    <3>5. t \notin lost' => ~ reg'[t].active
      BY <1>1, <2>1, <3>1, <3>4, FreeReg
    <3>6. ASSUME t \notin lost, Top.ud \notin lost, NEW r \in Reg \ {t}
          PROVE  reg'[r] = reg[r]
      <4>1. r # cb_handle[h]
        BY <2>1, <3>3, <3>6, HotplugAssumption DEF Reg
      <4> QED
        BY <1>1, <2>1, <3>1, <4>1, FreeReg
    <3> QED
      BY <3>5, <3>6 DEF t
  <2>5. CASE object[h] # Top.ud
    <3>1. reg' = reg /\ lost' = lost
      BY <2>2, <2>5 DEF regs
    <3>2. t \notin lost => ~ reg[t].active
      BY <2>0, <2>1, <2>5 DEF CallbacksOwned, Active, h, t
    <3> QED
      BY <3>1, <3>2 DEF t
  <2> QED
    BY <2>4, <2>5
<1>2. Inv /\ [Next]_vars => [ReturnTrue => Own]_vars
  BY <1>1
<1> QED
  BY <1>2, Invariance, PTL DEF Spec, TrueDeregisters
=============================================================================
