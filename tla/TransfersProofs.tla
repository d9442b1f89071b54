-------------------------- MODULE TransfersProofs ---------------------------
(***************************************************************************)
(* Theorems about Transfers, for every set of transfers.                   *)
(*                                                                         *)
(* They are about programs that do not close a device handle with          *)
(* transfers in flight.  The inductive invariant is Inv: Owned, that       *)
(* nothing is freed in flight, and what MarksOwned says; MarkedUntilGone   *)
(* and NoneStranded are inductive with it.                                 *)
(***************************************************************************)
EXTENDS Transfers, TLAPS

\* The program does not close a handle while transfers are in flight.
Orderly == "close_in_flight" \notin May

\* A mark is on an object; a closed handle has no transfers left; and a transfer that
\* is called back has its object, unless the callback has closed the handle.
MarksOwned ==
  /\ submitted \subseteq valid
  /\ open = TRUE \/ valid = {}
  /\ open = FALSE \/ cb \in valid \cup {Nil}

Inv == Owned /\ NotFreedInFlight /\ MarksOwned

-----------------------------------------------------------------------------
LEMMA InitInv == Init => Inv
<1>1. ASSUME Init
      PROVE  TypeOK
  <2>1. lib \in [Xfr -> {"none", "idle", "flight", "cancelling", "done"}]
    BY <1>1 DEF Init
  <2>2. queue \in Seq(Xfr)
    BY <1>1 DEF Init
  <2> QED
    BY <1>1, <2>1, <2>2 DEF Init, TypeOK
<1>2. ASSUME Init
      PROVE  FlightOwned
  <2>1. \A x \in Xfr : lib[x] = "none"
    BY <1>2 DEF Init
  <2>2. Len(queue) = 0
    BY <1>2 DEF Init
  <2> QED
    BY <2>1, <2>2 DEF FlightOwned, InFlight
<1>3. Init => NoLeak
  BY DEF Init, NoLeak
<1>4. Init => NotFreedInFlight /\ MarksOwned
  BY DEF Init, NotFreedInFlight, MarksOwned
<1> QED
  BY <1>1, <1>2, <1>3, <1>4 DEF Inv, Owned

\* Freeing transfers that libusb does not hold keeps the invariant, whatever handle
\* is open afterwards.
LEMMA FreeInv ==
  ASSUME Inv, NEW S \in SUBSET valid, \A x \in S : ~ InFlight(x),
         FreeTransfers(S),
         cb' = Nil \/ (cb' = cb /\ open' = FALSE),
         open' = open \/ (open' = FALSE /\ S = valid),
         gone' \in BOOLEAN, wedged' \in BOOLEAN
  PROVE  Inv'
<1> USE DEF Inv, Owned, NotFreedInFlight
<1>1. TypeOK'
  BY TransfersAssumption DEF TypeOK, FreeTransfers
<1>2. \A x \in Xfr : InFlight(x)' => InFlight(x) /\ x \notin S
  BY DEF TypeOK, InFlight, FreeTransfers
<1>3. FlightOwned'
  <2>1. ASSUME NEW x \in Xfr, InFlight(x)'
        PROVE  (x \in valid \cap submitted /\ open /\ cb # x)'
    BY <1>2, <2>1, TransfersAssumption DEF TypeOK, FlightOwned, FreeTransfers
  <2>2. ASSUME NEW x \in Xfr
        PROVE  lib'[x] = "done" <=> lib[x] = "done"
    BY DEF TypeOK, InFlight, FreeTransfers
  <2> QED
    BY <2>1, <2>2 DEF FlightOwned, FreeTransfers
<1>4. NoLeak'
  BY DEF TypeOK, NoLeak, FreeTransfers
<1>5. NotFreedInFlight' /\ MarksOwned'
  BY DEF FreeTransfers, MarksOwned
<1> QED
  BY <1>1, <1>3, <1>4, <1>5

LEMMA SubmitInv ==
  ASSUME Inv, NEW x \in Xfr, SubmitTransfer(x)
  PROVE  Inv'
<1> USE DEF Inv, Owned, NotFreedInFlight, MarksOwned, SubmitTransfer, LibSubmit
<1>1. TypeOK'
  BY DEF TypeOK
<1>2. FlightOwned'
  <2>1. ASSUME NEW y \in Xfr, InFlight(y)'
        PROVE  (y \in valid \cap submitted /\ open /\ cb # y)'
    <3>1. CASE y = x
      <4>1. x \notin valid /\ x # Nil
        BY TransfersAssumption DEF NoLeak
      <4> QED
        BY <3>1, <4>1 DEF TypeOK
    <3>2. CASE y # x
      <4>1. InFlight(y)
        BY <2>1, <3>2 DEF TypeOK, InFlight
      <4> QED
        BY <4>1 DEF FlightOwned
    <3> QED
      BY <3>1, <3>2
  <2>2. \A y \in Xfr : lib'[y] = "done" <=> lib[y] = "done"
    BY DEF TypeOK
  <2> QED
    BY <2>1, <2>2 DEF FlightOwned
<1>3. NoLeak'
  BY DEF TypeOK, NoLeak
<1> QED
  BY <1>1, <1>2, <1>3

LEMMA CancelInv ==
  ASSUME Inv, NEW x \in Xfr, Cancel(x)
  PROVE  Inv'
BY DEF Cancel, Inv, Owned, NotFreedInFlight, MarksOwned, TypeOK, FlightOwned, NoLeak, InFlight

LEMMA CompleteInv ==
  ASSUME Inv, NEW x \in Xfr, Complete(x)
  PROVE  Inv'
<1> USE DEF Inv, Owned, NotFreedInFlight, MarksOwned, Complete
<1>1. TypeOK'
  BY DEF TypeOK
<1>2. FlightOwned'
  <2>1. /\ Len(queue') = Len(queue) + 1 /\ Len(queue) \in Nat
        /\ \A i \in 1 .. Len(queue) : queue'[i] = queue[i]
        /\ queue'[Len(queue) + 1] = x
    BY DEF TypeOK
  <2>2. \A i \in 1 .. Len(queue) : queue[i] # x
    BY DEF FlightOwned
  <2>3. \A i, j \in 1 .. Len(queue') : queue'[i] = queue'[j] => i = j
    BY <2>1, <2>2 DEF FlightOwned
  <2>4. \A y \in Xfr : lib'[y] = "done" <=> \E i \in 1 .. Len(queue') : queue'[i] = y
    <3> TAKE y \in Xfr
    <3>1. lib'[y] = "done" <=> y = x \/ lib[y] = "done"
      BY DEF TypeOK
    <3>2. (\E i \in 1 .. Len(queue') : queue'[i] = y)
          <=> y = x \/ \E i \in 1 .. Len(queue) : queue[i] = y
      BY <2>1
    <3> QED
      BY <3>1, <3>2 DEF FlightOwned
  <2>5. \A y \in Xfr : InFlight(y)' <=> InFlight(y)
    BY DEF TypeOK, InFlight
  <2> QED
    BY <2>3, <2>4, <2>5 DEF FlightOwned
<1>3. NoLeak'
  BY DEF TypeOK, NoLeak
<1> QED
  BY <1>1, <1>2, <1>3

LEMMA HandleEventsInv ==
  ASSUME Inv, HandleEvents
  PROVE  Inv'
<1> DEFINE x == Head(queue)
<1> USE DEF Inv, Owned, NotFreedInFlight, MarksOwned
<1>1. /\ queue \in Seq(Xfr) /\ queue # <<>> /\ x \in valid
      /\ queue' = Tail(queue) /\ lib' = [lib EXCEPT ![x] = "idle"]
      /\ submitted' = submitted \ {x} /\ cb' = x
      /\ UNCHANGED <<valid, open, gone, wedged, asked, misuse>>
  BY DEF HandleEvents, TypeOK
<1>2. /\ Len(queue) \in Nat \ {0} /\ Len(queue') = Len(queue) - 1
      /\ x = queue[1] /\ x \in Xfr
      /\ \A i \in 1 .. Len(queue') : queue'[i] = queue[i + 1]
  BY <1>1
<1>3. lib[x] = "done"
  BY <1>2 DEF FlightOwned
<1> HIDE DEF x
<1>4. TypeOK'
  BY <1>1, <1>2 DEF TypeOK
<1>5. FlightOwned'
  <2>1. \A i, j \in 1 .. Len(queue') : queue'[i] = queue'[j] => i = j
    BY <1>2 DEF FlightOwned
  <2>2. \A y \in Xfr : lib'[y] = "done" <=> \E i \in 1 .. Len(queue') : queue'[i] = y
    <3> TAKE y \in Xfr
    <3>1. lib'[y] = "done" <=> y # x /\ lib[y] = "done"
      BY <1>1 DEF TypeOK
    <3>2. ASSUME y # x, NEW i \in 1 .. Len(queue), queue[i] = y
          PROVE  \E j \in 1 .. Len(queue') : queue'[j] = y
      <4>1. i - 1 \in 1 .. Len(queue') /\ queue'[i - 1] = queue[(i - 1) + 1]
        BY <1>2, <3>2
      <4> QED
        BY <1>2, <3>2, <4>1
    <3>3. ASSUME NEW j \in 1 .. Len(queue'), queue'[j] = y
          PROVE  y # x /\ \E i \in 1 .. Len(queue) : queue[i] = y
      <4>1. j + 1 \in 1 .. Len(queue) /\ queue[j + 1] = y /\ 1 \in 1 .. Len(queue) /\ j + 1 # 1
        BY <1>2, <3>3
      <4> QED
        BY <1>2, <4>1 DEF FlightOwned
    <3> QED
      BY <3>1, <3>2, <3>3 DEF FlightOwned
  <2>3. \A y \in Xfr : InFlight(y)' => InFlight(y) /\ y # x
    BY <1>1 DEF TypeOK, InFlight
  <2> QED
    BY <1>1, <2>1, <2>2, <2>3 DEF FlightOwned
<1>6. NoLeak'
  BY <1>1, <1>2, <1>3 DEF TypeOK, NoLeak
<1> QED
  BY <1>1, <1>4, <1>5, <1>6

\* A callback under way is of a transfer that libusb does not hold.
LEMMA CalledIdle ==
  ASSUME Inv, cb \in valid
  PROVE  cb \in Xfr /\ lib[cb] = "idle" /\ ~ InFlight(cb)
BY DEF Inv, Owned, TypeOK, FlightOwned, NoLeak, InFlight

LEMMA ReturnInv ==
  ASSUME Inv, Return
  PROVE  Inv'
<1>1. CASE ReturnFalse
  <2>1. \A x \in {cb} \cap valid : ~ InFlight(x)
    BY CalledIdle
  <2>2. /\ FreeTransfers({cb} \cap valid) /\ cb' = Nil
        /\ UNCHANGED <<open, gone, wedged>>
    BY <1>1 DEF ReturnFalse
  <2>3. gone' \in BOOLEAN /\ wedged' \in BOOLEAN
    BY <2>2 DEF Inv, Owned, TypeOK
  <2>4. {cb} \cap valid \in SUBSET valid
    OBVIOUS
  <2> QED
    BY <2>1, <2>2, <2>3, <2>4, FreeInv
<1>2. CASE ReturnTrue
  <2>1. CASE cb \in valid
    <3> USE CalledIdle, <1>2, <2>1
        DEF ReturnTrue, LibSubmit, Inv, Owned, NotFreedInFlight, MarksOwned
    <3>1. TypeOK'
      BY SMTT(30) DEF TypeOK
    <3>2. FlightOwned'
      <4>1. \A y \in Xfr : InFlight(y)' => (y \in valid \cap submitted /\ open /\ cb # y)'
        <5> SUFFICES ASSUME NEW y \in Xfr, InFlight(y)'
                     PROVE  (y \in valid \cap submitted /\ open /\ cb # y)'
          OBVIOUS
        <5>1. cb' # y
          BY TransfersAssumption
        <5>2. CASE y = cb
          BY <5>1, <5>2 DEF TypeOK
        <5>3. CASE y # cb
          <6>1. InFlight(y)
            BY <5>3 DEF TypeOK, InFlight
          <6> QED
            BY <5>1, <6>1 DEF FlightOwned
        <5> QED
          BY <5>2, <5>3
      <4>2. \A y \in Xfr : lib'[y] = "done" <=> lib[y] = "done"
        BY DEF TypeOK
      <4> QED
        BY <4>1, <4>2 DEF FlightOwned
    <3>3. NoLeak'
      BY DEF TypeOK, NoLeak
    <3> QED
      BY <3>1, <3>2, <3>3
  <2>2. CASE cb \notin valid
    BY <1>2, <2>2, TransfersAssumption
       DEF ReturnTrue, Inv, Owned, NotFreedInFlight, MarksOwned, TypeOK, FlightOwned, NoLeak,
           InFlight
  <2> QED
    BY <2>1, <2>2
<1>3. CASE ResubmitFails
  <2>1. {cb} \in SUBSET valid /\ \A x \in {cb} : ~ InFlight(x)
    BY <1>3, CalledIdle DEF ResubmitFails
  <2>2. FreeTransfers({cb}) /\ cb' = Nil /\ wedged' = TRUE /\ UNCHANGED <<open, gone>>
    BY <1>3 DEF ResubmitFails
  <2>3. gone' \in BOOLEAN /\ wedged' \in BOOLEAN
    BY <2>2 DEF Inv, Owned, TypeOK
  <2> QED
    BY <2>1, <2>2, <2>3, FreeInv
<1>4. CASE Raise
  BY <1>4, TransfersAssumption
     DEF Raise, Inv, Owned, NotFreedInFlight, MarksOwned, TypeOK, FlightOwned, NoLeak, InFlight
<1> QED
  BY <1>1, <1>2, <1>3, <1>4 DEF Return

LEMMA StepInv ==
  ASSUME Orderly, Inv, [Next]_vars
  PROVE  Inv'
<1>1. CASE \E x \in Xfr : SubmitTransfer(x) \/ Cancel(x) \/ Complete(x)
  BY <1>1, SubmitInv, CancelInv, CompleteInv
<1>2. CASE CloseHandle
  <2>1. \A x \in valid : ~ InFlight(x)
    BY <1>2 DEF CloseHandle, Orderly
  <2> QED
    BY <1>2, <2>1, FreeInv DEF CloseHandle, Inv, Owned, TypeOK
<1>3. CASE OpenHandle
  BY <1>3
     DEF OpenHandle, Inv, Owned, NotFreedInFlight, MarksOwned, TypeOK, FlightOwned, NoLeak,
         InFlight
<1>4. CASE Unplug
  BY <1>4
     DEF Unplug, Inv, Owned, NotFreedInFlight, MarksOwned, TypeOK, FlightOwned, NoLeak,
         InFlight
<1>5. CASE HandleEvents
  BY <1>5, HandleEventsInv
<1>6. CASE Return
  BY <1>6, ReturnInv
<1>7. CASE UNCHANGED vars
  BY <1>7
     DEF vars, Inv, Owned, NotFreedInFlight, MarksOwned, TypeOK, FlightOwned, NoLeak, InFlight
<1> QED
  BY <1>1, <1>2, <1>3, <1>4, <1>5, <1>6, <1>7 DEF Next

LEMMA Invariance == ASSUME Orderly PROVE Spec => []Inv
<1>1. Inv /\ [Next]_vars => Inv'
  BY StepInv
<1> QED
  BY InitInv, <1>1, PTL DEF Spec

\* A program that does not close a handle with transfers in flight: whatever libusb
\* has in flight has its object, mark and handle, no struct is leaked, and each
\* completed transfer is due to be called back once.
THEOREM TransfersOwned == ASSUME Orderly PROVE Spec => []Owned
BY Invariance, PTL DEF Inv

\* It frees no transfer that libusb has in flight: Callback, a refused resubmission
\* and a close in a callback free none.
THEOREM NoneFreedInFlight == ASSUME Orderly PROVE Spec => []NotFreedInFlight
BY Invariance, PTL DEF Inv

-----------------------------------------------------------------------------
(* Marks.                                                                  *)

\* What keeps a mark from outliving its transfer: every action that takes a transfer
\* from libusb takes the mark with it.
LEMMA MarkedStep ==
  ASSUME TypeOK, MarkedUntilGone, [Next]_vars
  PROVE  MarkedUntilGone'
<1> USE DEF TypeOK, MarkedUntilGone, InFlight
<1>1. CASE \E x \in Xfr : SubmitTransfer(x)
  BY <1>1 DEF SubmitTransfer, LibSubmit
<1>2. CASE \E x \in Xfr : Cancel(x)
  BY <1>2 DEF Cancel
<1>3. CASE \E x \in Xfr : Complete(x)
  BY <1>3 DEF Complete
<1>4. CASE CloseHandle \/ ReturnFalse \/ ResubmitFails
  BY <1>4 DEF CloseHandle, ReturnFalse, ResubmitFails, FreeTransfers
<1>5. CASE OpenHandle \/ Unplug \/ Raise \/ UNCHANGED vars
  BY <1>5 DEF OpenHandle, Unplug, Raise, vars
<1>6. CASE HandleEvents
  BY <1>6 DEF HandleEvents
<1>7. CASE ReturnTrue
  BY <1>7 DEF ReturnTrue, LibSubmit
<1> QED
  BY <1>1, <1>2, <1>3, <1>4, <1>5, <1>6, <1>7 DEF Next, Return

\* While the device is there, whatever has the Submitted mark is in flight.
THEOREM MarkedInFlight == ASSUME Orderly PROVE Spec => []MarkedUntilGone
<1>1. Init => MarkedUntilGone
  BY DEF Init, MarkedUntilGone
<1>2. Inv /\ MarkedUntilGone /\ [Next]_vars => MarkedUntilGone'
  BY MarkedStep DEF Inv, Owned
<1> QED
  BY <1>1, <1>2, Invariance, PTL DEF Spec

-----------------------------------------------------------------------------
(* The end of callbacks.                                                   *)

\* No callback is executing once an error has been raised through libusb.
NoCallbackWedged == wedged => cb = Nil

LEMMA NoCallbackStep ==
  ASSUME TypeOK, NoCallbackWedged, [Next]_vars
  PROVE  NoCallbackWedged'
BY DEF NoCallbackWedged, Next, vars, SubmitTransfer, Cancel, Complete, CloseHandle, OpenHandle,
       Unplug, HandleEvents, Return, ReturnFalse, ReturnTrue, ResubmitFails, Raise

\* The transfers that libusb holds, or has refused because the device has left.
Held(x) == InFlight(x) \/ (gone /\ x \in submitted)

\* Steps that leave no more transfers behind than there were: each valid transfer that
\* is not being called back was valid before, and is held if it was, or is held now.
LEMMA KeptStep ==
  ASSUME NoneStranded, wedged => wedged',
         \A x \in valid' : x # cb' => Held(x)' \/ (x \in valid \ {cb} /\ ~ Held(x))
  PROVE  NoneStranded'
<1>1. PICK r \in Xfr \cup {Nil} : (r # Nil => wedged) /\ \A x \in valid \ {cb, r} : Held(x)
  BY DEF NoneStranded, Held
<1>2. (r # Nil => wedged') /\ \A x \in valid' \ {cb', r} : Held(x)'
  BY <1>1
<1> QED
  BY <1>2 DEF NoneStranded, Held

LEMMA StrandedStep ==
  ASSUME Inv, NoCallbackWedged, NoneStranded, [Next]_vars
  PROVE  NoneStranded'
<1> USE DEF Inv, Owned, TypeOK, Held, InFlight
<1>1. CASE \E x \in Xfr : SubmitTransfer(x)
  <2>1. PICK x \in Xfr : SubmitTransfer(x)
    BY <1>1
  <2>2. \A y \in valid' : y # cb' => Held(y)' \/ (y \in valid \ {cb} /\ ~ Held(y))
    BY <2>1 DEF SubmitTransfer, LibSubmit
  <2> QED
    BY <2>1, <2>2, KeptStep DEF SubmitTransfer
<1>2. CASE \E x \in Xfr : Cancel(x) \/ Complete(x)
  <2>1. PICK x \in Xfr : Cancel(x) \/ Complete(x)
    BY <1>2
  <2>2. \A y \in valid' : y # cb' => Held(y)' \/ (y \in valid \ {cb} /\ ~ Held(y))
    BY <2>1 DEF Cancel, Complete
  <2> QED
    BY <2>1, <2>2, KeptStep DEF Cancel, Complete
<1>3. CASE CloseHandle
  <2>1. valid' = {} /\ UNCHANGED wedged
    BY <1>3 DEF CloseHandle, FreeTransfers
  <2> QED
    BY <2>1, KeptStep
<1>4. CASE OpenHandle \/ Unplug \/ UNCHANGED vars
  <2>1. UNCHANGED <<valid, submitted, lib, cb, wedged>> /\ (gone => gone')
    BY <1>4 DEF OpenHandle, Unplug, vars
  <2>2. \A y \in valid' : y # cb' => Held(y)' \/ (y \in valid \ {cb} /\ ~ Held(y))
    BY <2>1
  <2> QED
    BY <2>1, <2>2, KeptStep
<1>5. CASE HandleEvents
  <2>1. cb = Nil /\ cb' \in valid /\ UNCHANGED <<valid, gone, wedged>>
    BY <1>5 DEF HandleEvents
  <2>2. \A y \in valid : y # cb /\ (y # cb' => lib'[y] = lib[y] /\ (y \in submitted' <=> y \in submitted))
    BY <1>5, <2>1, TransfersAssumption DEF HandleEvents
  <2>3. \A y \in valid' : y # cb' => Held(y)' \/ (y \in valid \ {cb} /\ ~ Held(y))
    BY <2>1, <2>2
  <2> QED
    BY <2>1, <2>3, KeptStep
<1>6. CASE ReturnFalse \/ ResubmitFails
  <2>1. \A y \in valid' : y # cb' => Held(y)' \/ (y \in valid \ {cb} /\ ~ Held(y))
    BY <1>6 DEF ReturnFalse, ResubmitFails, FreeTransfers
  <2>2. wedged => wedged'
    BY <1>6 DEF ReturnFalse, ResubmitFails
  <2> QED
    BY <2>1, <2>2, KeptStep
<1>7. CASE ReturnTrue
  <2>1. \A y \in valid' : y # cb' => Held(y)' \/ (y \in valid \ {cb} /\ ~ Held(y))
    BY <1>7 DEF ReturnTrue, LibSubmit
  <2> QED
    BY <1>7, <2>1, KeptStep DEF ReturnTrue
<1>8. CASE Raise
  <2>1. /\ cb \in Xfr /\ cb' = Nil /\ wedged' = TRUE /\ wedged = FALSE
        /\ UNCHANGED <<valid, submitted, lib, gone>>
    BY <1>8 DEF Raise, NoCallbackWedged
  <2>2. \A x \in valid \ {cb} : Held(x)
    BY <2>1, TransfersAssumption DEF NoneStranded
  <2> QED
    BY <2>1, <2>2 DEF NoneStranded
<1> QED
  BY <1>1, <1>2, <1>3, <1>4, <1>5, <1>6, <1>7, <1>8 DEF Next, Return

\* However callbacks end, and whatever they and the device do in the meantime, they
\* leave no transfer object that libusb does not hold, save those it refused when the
\* device had left, and the one whose callback raised an error.
THEOREM NoneLeftBehind == ASSUME Orderly PROVE Spec => []NoneStranded
<1>1. Init => NoCallbackWedged /\ NoneStranded
  BY DEF Init, NoCallbackWedged, NoneStranded
<1>2. Inv /\ NoCallbackWedged /\ NoneStranded /\ [Next]_vars
      => NoCallbackWedged' /\ NoneStranded'
  BY NoCallbackStep, StrandedStep DEF Inv, Owned
<1> QED
  BY <1>1, <1>2, Invariance, PTL DEF Spec

-----------------------------------------------------------------------------
(* The documented protocol.                                                *)

\* A step that changes neither what is pending nor what is being called back.
Stutters == Pending' = Pending /\ Calling' = Calling

LEMMA SubmitStep ==
  ASSUME Inv, NEW x \in Xfr, SubmitTransfer(x)
  PROVE  Stutters \/ Protocol!Submit(x)
<1> USE DEF Inv, Owned, TypeOK, SubmitTransfer
<1>1. x \notin valid /\ ~ InFlight(x) /\ x # Nil /\ cb # x
  BY TransfersAssumption DEF NoLeak, MarksOwned, InFlight
<1>2. \A y \in Xfr : y # x => (InFlight(y)' <=> InFlight(y))
  BY DEF LibSubmit, InFlight
<1>3. InFlight(x)' <=> ~ gone
  BY DEF LibSubmit, InFlight
<1>4. Calling' = Calling /\ x # Calling
  BY <1>1 DEF Calling
<1>5. Pending' = IF gone THEN Pending ELSE Pending \cup {x}
  BY <1>1, <1>2, <1>3 DEF Pending
<1>6. x \notin Pending
  BY <1>1 DEF Pending
<1> QED
  BY <1>4, <1>5, <1>6 DEF Stutters, Protocol!Submit

LEMMA KeepStep ==
  ASSUME Inv, NEW x \in Xfr, Cancel(x) \/ Complete(x)
  PROVE  Stutters
<1> USE DEF Inv, Owned, TypeOK
<1>1. \A y \in Xfr : InFlight(y)' <=> InFlight(y)
  BY DEF Cancel, Complete, InFlight
<1>2. valid' = valid /\ cb' = cb
  BY DEF Cancel, Complete
<1> QED
  BY <1>1, <1>2 DEF Stutters, Pending, Calling

\* Freeing transfers of which none is in flight deletes the one being called back, or
\* none.
LEMMA FreeStep ==
  ASSUME Inv, NEW S \in SUBSET valid, \A x \in S : ~ InFlight(x),
         FreeTransfers(S),
         (cb' = Nil /\ S = {cb} \cap valid) \/ (cb' = cb /\ S = valid)
  PROVE  Stutters \/ Protocol!Delete
<1> USE DEF Inv, Owned, TypeOK
<1>1. valid' = valid \ S
  BY DEF FreeTransfers
<1>2. \A y \in Xfr : InFlight(y)' <=> InFlight(y)
  BY DEF FreeTransfers, InFlight
<1>3. Pending' = Pending
  BY <1>1, <1>2 DEF Pending
<1>4. Calling' = Nil
  BY <1>1 DEF Calling
<1> QED
  BY <1>3, <1>4 DEF Stutters, Protocol!Delete

LEMMA HandleEventsStep ==
  ASSUME Inv, HandleEvents
  PROVE  \E x \in Xfr : Protocol!Callback(x)
<1> DEFINE x == Head(queue)
<1> USE DEF Inv, Owned, TypeOK
<1>1. /\ x \in valid /\ cb = Nil /\ cb' = x /\ valid' = valid
      /\ lib' = [lib EXCEPT ![x] = "idle"]
  BY DEF HandleEvents
<1>2. lib[x] = "done"
  BY DEF HandleEvents, FlightOwned
<1> HIDE DEF x
<1>3. \A y \in Xfr : InFlight(y)' <=> InFlight(y) /\ y # x
  BY <1>1 DEF InFlight
<1>4. x \in Pending /\ Pending' = Pending \ {x}
  BY <1>1, <1>2, <1>3 DEF Pending, InFlight
<1>5. Calling = Nil /\ Calling' = x
  BY <1>1 DEF Calling
<1> QED
  BY <1>1, <1>4, <1>5 DEF Protocol!Callback

LEMMA ReturnTrueStep ==
  ASSUME Inv, ReturnTrue
  PROVE  Stutters \/ Protocol!Resubmit \/ Protocol!Delete
<1> USE DEF Inv, Owned, TypeOK, ReturnTrue
<1>1. valid' = valid /\ Calling' = Nil /\ \A y \in Xfr : y # cb => (InFlight(y)' <=> InFlight(y))
  BY DEF Calling, LibSubmit, InFlight
<1>2. CASE cb \in valid
  <2>1. Calling = cb /\ cb # Nil /\ ~ InFlight(cb)
    BY <1>2, CalledIdle DEF Calling
  <2>2. \A y \in Xfr : y = cb => (InFlight(y)' <=> ~ gone)
    BY <1>2 DEF LibSubmit, InFlight
  <2>3. Pending' = IF gone THEN Pending ELSE Pending \cup {cb}
    BY <1>1, <1>2, <2>1, <2>2 DEF Pending
  <2> QED
    BY <1>1, <2>1, <2>3 DEF Protocol!Resubmit, Protocol!Delete
<1>3. CASE cb \notin valid
  <2>1. Calling = Nil /\ Pending' = Pending
    BY <1>1, <1>3 DEF Calling, Pending, InFlight
  <2> QED
    BY <1>1, <2>1 DEF Stutters
<1> QED
  BY <1>2, <1>3

LEMMA ProtocolStep ==
  ASSUME Orderly, Inv, [Next]_vars
  PROVE  Stutters \/ Protocol!Next
<1>1. CASE \E x \in Xfr : SubmitTransfer(x)
  BY <1>1, SubmitStep DEF Protocol!Next
<1>2. CASE \E x \in Xfr : Cancel(x) \/ Complete(x)
  BY <1>2, KeepStep
<1>3. CASE CloseHandle
  <2>1. (\A x \in valid : ~ InFlight(x)) /\ FreeTransfers(valid) /\ cb' = cb
    BY <1>3 DEF CloseHandle, Orderly
  <2>2. Stutters \/ Protocol!Delete
    BY <2>1, FreeStep
  <2> QED
    BY <2>2 DEF Protocol!Next
<1>4. CASE ReturnFalse \/ ResubmitFails
  <2>1. FreeTransfers({cb} \cap valid) /\ cb' = Nil
    <3>1. CASE ResubmitFails
      <4>1. {cb} \cap valid = {cb}
        BY <3>1 DEF ResubmitFails
      <4> QED
        BY <3>1, <4>1 DEF ResubmitFails
    <3> QED
      BY <1>4, <3>1 DEF ReturnFalse
  <2>2. {cb} \cap valid \in SUBSET valid /\ \A x \in {cb} \cap valid : ~ InFlight(x)
    BY CalledIdle
  <2>3. Stutters \/ Protocol!Delete
    BY <2>1, <2>2, FreeStep
  <2> QED
    BY <2>3 DEF Protocol!Next
<1>5. CASE HandleEvents
  BY <1>5, HandleEventsStep DEF Protocol!Next
<1>6. CASE ReturnTrue
  BY <1>6, ReturnTrueStep DEF Protocol!Next
<1>7. CASE Raise
  <2>1. cb' = Nil /\ UNCHANGED <<valid, lib>>
    BY <1>7 DEF Raise
  <2>2. Pending' = Pending /\ Calling' = Nil
    BY <2>1 DEF Pending, Calling, InFlight
  <2> QED
    BY <2>2 DEF Stutters, Protocol!Next, Protocol!Delete
<1>8. CASE OpenHandle \/ Unplug \/ UNCHANGED vars
  BY <1>8 DEF OpenHandle, Unplug, vars, Stutters, Pending, Calling, InFlight
<1> QED
  BY <1>1, <1>2, <1>3, <1>4, <1>5, <1>6, <1>7, <1>8 DEF Next, Return

\* The whole of Transfers, with unplugging, refused resubmissions, errors and closes in
\* callbacks, follows the protocol the documentation describes, as long as no handle
\* is closed with transfers in flight.
THEOREM Refinement == ASSUME Orderly PROVE Spec => ImplementsProtocol
<1>1. Init => Protocol!Init
  BY TransfersAssumption DEF Init, Protocol!Init, Pending, Calling
<1>2. Inv /\ [Next]_vars => [Protocol!Next]_<<Pending, Calling>>
  BY ProtocolStep DEF Stutters
<1> QED
  BY <1>1, <1>2, Invariance, PTL DEF Spec, ImplementsProtocol, Protocol!Spec
=============================================================================
