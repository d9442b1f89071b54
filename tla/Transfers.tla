----------------------------- MODULE Transfers -----------------------------
(***************************************************************************)
(* Asynchronous transfers (src/transfer.c) on one device handle: the       *)
(* transfer objects and their Submitted marks, what libusb does with the   *)
(* transfers in the meantime, and the callbacks it makes from the event    *)
(* loop (src/polling.c), in which the script may do whatever it does       *)
(* elsewhere.                                                              *)
(*                                                                         *)
(* What libusb does is modelled from how this code uses it.  A call that   *)
(* libusb leaves undefined is recorded in misuse, and the model stops.     *)
(***************************************************************************)
EXTENDS Naturals, Sequences

CONSTANTS
  Xfr,        \* the addresses of libusb_transfer structs; reused after a free
  Nil,
  May         \* what may happen, of Events

\* "leave": the device is unplugged; "fail": libusb refuses a transfer; "raise":
\* a callback raises an error; "close": the script closes the handle while no
\* transfer is in flight, "close_in_flight" while some is, "close_in_callback"
\* in the callback of a transfer.
Events == {"leave", "fail", "raise", "close", "close_in_flight", "close_in_callback"}

ASSUME TransfersAssumption == Nil \notin Xfr /\ May \subseteq Events

VARIABLES
  valid,      \* transfers that have a valid userdata
  submitted,  \* transfers whose userdata has the Submitted mark
  lib,        \* lib[x]: what libusb does with the struct
  queue,      \* completed transfers, in the order their callbacks are due
  cb,         \* the transfer whose callback is executing, or Nil
  open,       \* the device handle is open
  gone,       \* the device has been unplugged
  wedged,     \* an error has been raised through libusb_handle_events
  asked,      \* transfers the script has called cancel on
  misuse      \* the first undefined use of a transfer struct, or "none"

vars == <<valid, submitted, lib, queue, cb, open, gone, wedged, asked, misuse>>

Init ==
  /\ valid = {} /\ submitted = {}
  /\ lib = [x \in Xfr |-> "none"]
  /\ queue = <<>>
  /\ cb = Nil
  /\ open = TRUE
  /\ gone = FALSE /\ wedged = FALSE
  /\ asked = {}
  /\ misuse = "none"

InFlight(x) == lib[x] \in {"flight", "cancelling", "done"}
Defined == misuse = "none"

-----------------------------------------------------------------------------
(* The script's calls, outside and inside callbacks.                       *)

\* libusb_submit_transfer: it takes the transfer, or finds the device gone.  The
\* other errors are left to the callers.
LibSubmit(x) == lib' = [lib EXCEPT ![x] = IF gone THEN "idle" ELSE "flight"]

\* (Mutant: freetransfer forgets libusb_free_transfer.)
FreeTransfersLeaks(S) ==
  /\ valid' = valid \ S
  /\ submitted' = submitted \ S
  /\ asked' = asked \ S
  /\ UNCHANGED <<lib, queue, misuse>>

\* freetransfer for the transfers of S that are valid: cancel the submitted ones,
\* and free the structs, wherever libusb is with them.
FreeTransfers(S) ==
  /\ valid' = valid \ S
  /\ submitted' = submitted \ S
  /\ asked' = asked \ S
  /\ lib' = [x \in Xfr |-> IF x \in S THEN "none" ELSE lib[x]]
  /\ misuse' = IF \E x \in S \cap valid : InFlight(x) THEN "freed_in_flight" ELSE misuse
  /\ UNCHANGED queue

\* The submit methods: newtransfer, and Submit, which keeps the object and marks
\* it also when libusb refuses the transfer because there is no device.  For any
\* other error it destroys the object again: no step.
SubmitTransfer(x) ==
  /\ Defined /\ open
  /\ lib[x] = "none"
  /\ valid' = valid \cup {x}
  /\ LibSubmit(x)
  /\ submitted' = submitted \cup {x}
  /\ UNCHANGED <<queue, cb, open, gone, wedged, asked, misuse>>

\* (Mutant: Cancel deletes the object itself, and does not wait for the callback.)
CancelFrees(x) ==
  /\ Defined
  /\ x \in valid
  /\ FreeTransfers({x})
  /\ UNCHANGED <<cb, open, gone, wedged>>

Cancel(x) ==
  /\ Defined
  /\ x \in valid
  /\ asked' = asked \cup {x}
  /\ lib' = [lib EXCEPT ![x] = IF @ = "flight" THEN "cancelling" ELSE @]
  /\ UNCHANGED <<valid, submitted, queue, cb, open, gone, wedged, misuse>>

\* freedevhandle: the transfers are freed before libusb_close, also those whose
\* cancellation is under way.
CloseHandle ==
  /\ Defined /\ open
  /\ \/ "close" \in May /\ cb = Nil /\ \A x \in valid : ~ InFlight(x)
     \/ "close_in_flight" \in May /\ cb = Nil
     \/ "close_in_callback" \in May /\ cb # Nil /\ \A x \in valid : ~ InFlight(x)
  /\ FreeTransfers(valid)
  /\ open' = FALSE
  /\ UNCHANGED <<cb, gone, wedged>>

\* The handle of a later open.  (A callback that closes the handle does not open
\* another before it returns.)
OpenHandle ==
  /\ Defined /\ ~ open
  /\ ~ gone
  /\ cb = Nil
  /\ open' = TRUE
  /\ UNCHANGED <<valid, submitted, lib, queue, cb, gone, wedged, asked, misuse>>

-----------------------------------------------------------------------------
(* libusb and the device.                                                  *)

\* A transfer completes, fails, times out, or its cancellation takes effect.
Complete(x) ==
  /\ Defined
  /\ lib[x] \in {"flight", "cancelling"}
  /\ lib' = [lib EXCEPT ![x] = "done"]
  /\ queue' = Append(queue, x)
  /\ UNCHANGED <<valid, submitted, cb, open, gone, wedged, asked, misuse>>

Unplug ==
  /\ Defined
  /\ "leave" \in May
  /\ gone' = TRUE
  /\ UNCHANGED <<valid, submitted, lib, queue, cb, open, wedged, asked, misuse>>

-----------------------------------------------------------------------------
(* The event loop and the callback.                                        *)

\* (Mutants: the transfer stays in the queue; Callback does not clear the mark;
\* Callback deletes a cancelled transfer without calling the script.)
HandleEventsKeeps ==
  /\ Defined
  /\ queue # <<>>
  /\ cb = Nil /\ ~ wedged
  /\ Head(queue) \in valid
  /\ cb' = Head(queue)
  /\ lib' = [lib EXCEPT ![Head(queue)] = "idle"]
  /\ submitted' = submitted \ {Head(queue)}
  /\ UNCHANGED <<valid, queue, open, gone, wedged, asked, misuse>>

HandleEventsMarked ==
  /\ Defined
  /\ queue # <<>>
  /\ cb = Nil /\ ~ wedged
  /\ Head(queue) \in valid
  /\ cb' = Head(queue)
  /\ queue' = Tail(queue)
  /\ lib' = [lib EXCEPT ![Head(queue)] = "idle"]
  /\ UNCHANGED <<valid, submitted, open, gone, wedged, asked, misuse>>

HandleEventsSkips ==
  /\ Defined
  /\ queue # <<>>
  /\ cb = Nil /\ ~ wedged
  /\ valid' = valid \ (asked \cap {Head(queue)})
  /\ asked' = asked \ {Head(queue)}
  /\ cb' = IF Head(queue) \in asked THEN Nil ELSE Head(queue)
  /\ queue' = Tail(queue)
  /\ lib' = [lib EXCEPT ![Head(queue)] = IF Head(queue) \in asked THEN "none" ELSE "idle"]
  /\ submitted' = submitted \ {Head(queue)}
  /\ UNCHANGED <<open, gone, wedged, misuse>>

\* libusb_handle_events takes the next completed transfer and calls Callback,
\* which looks the userdata up, clears the Submitted mark, and calls the script.
\* A call from inside a callback, or after an error has been raised through
\* libusb, handles nothing.
HandleEvents ==
  /\ Defined
  /\ queue # <<>>
  /\ cb = Nil /\ ~ wedged
  /\ Head(queue) \in valid
  /\ cb' = Head(queue)
  /\ queue' = Tail(queue)
  /\ lib' = [lib EXCEPT ![Head(queue)] = "idle"]
  /\ submitted' = submitted \ {Head(queue)}
  /\ UNCHANGED <<valid, open, gone, wedged, asked, misuse>>

\* (Mutant: Callback does not call the destructor.)
ReturnFalseKeeps ==
  /\ Defined /\ cb # Nil
  /\ cb' = Nil
  /\ UNCHANGED <<valid, submitted, lib, queue, open, gone, wedged, asked, misuse>>

\* The callback returns nil or false: the destructor runs, unless the object has
\* been destroyed meanwhile.
ReturnFalse ==
  /\ Defined /\ cb # Nil
  /\ FreeTransfers({cb} \cap valid)
  /\ cb' = Nil
  /\ UNCHANGED <<open, gone, wedged>>

\* (Mutant: the transfer submitted again does not get its mark back.)
ReturnTrueUnmarked ==
  /\ Defined /\ cb # Nil
  /\ IF cb \in valid
     THEN LibSubmit(cb) /\ UNCHANGED misuse
     ELSE misuse' = "stale_submit" /\ UNCHANGED lib
  /\ cb' = Nil
  /\ UNCHANGED <<valid, submitted, queue, open, gone, wedged, asked>>

\* It returns true: the transfer is submitted again, with the pointer Callback
\* has held since it was called.
ReturnTrue ==
  /\ Defined /\ cb # Nil
  /\ IF cb \in valid
     THEN /\ LibSubmit(cb)
          /\ submitted' = submitted \cup {cb}
          /\ UNCHANGED misuse
     ELSE /\ misuse' = "stale_submit"
          /\ UNCHANGED <<lib, submitted>>
  /\ cb' = Nil
  /\ UNCHANGED <<valid, queue, open, gone, wedged, asked>>

\* It returns true, libusb refuses the transfer, and Submit destroys the object
\* and raises an error, which leaves libusb_handle_events without a return.
ResubmitFails ==
  /\ Defined /\ "fail" \in May
  /\ cb \in valid
  /\ FreeTransfers({cb})
  /\ cb' = Nil
  /\ wedged' = TRUE
  /\ UNCHANGED <<open, gone>>

\* The callback raises an error, and Callback passes it on at once.
Raise ==
  /\ Defined /\ "raise" \in May
  /\ cb # Nil
  /\ cb' = Nil
  /\ wedged' = TRUE
  /\ UNCHANGED <<valid, submitted, lib, queue, open, gone, asked, misuse>>

Return == ReturnFalse \/ ReturnTrue \/ ResubmitFails \/ Raise

Next ==
  \/ \E x \in Xfr : SubmitTransfer(x) \/ Cancel(x) \/ Complete(x)
  \/ CloseHandle \/ OpenHandle \/ Unplug
  \/ HandleEvents \/ Return

Spec == Init /\ [][Next]_vars

\* The program runs an event loop, callbacks end, and libusb completes what it
\* has cancelled; a transfer that is not may stay in flight for ever (timeout 0).
Fairness ==
  /\ WF_vars(HandleEvents) /\ WF_vars(Return)
  /\ \A x \in Xfr : WF_vars(lib[x] = "cancelling" /\ Complete(x))

FairSpec == Spec /\ Fairness

-----------------------------------------------------------------------------
(* Properties.                                                             *)

\* The types of the variables.
TypeOK ==
  /\ valid \subseteq Xfr /\ submitted \subseteq Xfr /\ asked \subseteq Xfr
  /\ lib \in [Xfr -> {"none", "idle", "flight", "cancelling", "done"}]
  /\ queue \in Seq(Xfr)
  /\ cb \in Xfr \cup {Nil}
  /\ open \in BOOLEAN /\ gone \in BOOLEAN /\ wedged \in BOOLEAN
  /\ misuse \in {"none", "freed_in_flight", "stale_submit"}

\* Whatever libusb holds can be called back: a transfer in flight has its struct,
\* a valid userdata to be found by its address, the Submitted mark, and an open
\* handle; and its address is due in the queue exactly once, when it is done.  So
\* Callback never takes its "unexpected" branch, and no transfer is called twice.
FlightOwned ==
  /\ \A x \in Xfr : InFlight(x) => x \in valid \cap submitted /\ open /\ cb # x
  /\ \A x \in Xfr : lib[x] = "done" <=> \E i \in 1 .. Len(queue) : queue[i] = x
  /\ \A i, j \in 1 .. Len(queue) : queue[i] = queue[j] => i = j

\* Every libusb_transfer struct belongs to a transfer object: none is leaked by
\* the callback, a failed resubmit, or a close.
NoLeak == \A x \in Xfr : lib[x] # "none" <=> x \in valid

\* Objects, structs and what libusb does with them agree.
Owned == TypeOK /\ FlightOwned /\ NoLeak

\* A marked transfer is one whose callback is due ("this will be learned in the
\* callback", says the comment in Submit of the errors it ignores), as long as the
\* device has not left: neither a failed resubmission, nor an error, nor closing
\* the handle in a callback leaves a mark behind.
MarkedUntilGone == gone \/ \A x \in submitted : InFlight(x)

\* What doc/asynchapi.adoc says of the end of a callback ("the transfer object is
\* automatically deleted, otherwise it is automatically resubmitted"), of the state
\* it leaves: no transfer object is left that libusb does not hold.  Two exceptions
\* are the code's: those that libusb refused because the device has left, which
\* Submit takes for submitted, and the one whose callback raised an error; it is one
\* at most, since no callback is made afterwards.
NoneStranded ==
  \E r \in Xfr \cup {Nil} :
    /\ r # Nil => wedged
    /\ \A x \in valid \ {cb, r} : InFlight(x) \/ (gone /\ x \in submitted)

\* What doc/asynchapi.adoc says of the callback: it is executed when the transfer
\* completes, fails, or is cancelled.  No transfer is freed in flight.
NotFreedInFlight == misuse # "freed_in_flight"

\* A cancelled transfer is called back, provided the script handles events, and no
\* error has been raised through libusb, which handles no event from then on.
CancelledCalledBack == \A x \in Xfr : lib[x] = "cancelling" ~> (cb = x \/ wedged)

\* The transfers that the script may expect to be called back, and the one whose
\* callback is executing and has not been deleted.
Pending == {x \in valid : InFlight(x)}
Calling == IF cb \in valid THEN cb ELSE Nil

\* Submitting, calling back, resubmitting and deleting follow the documented
\* protocol, however the transfers, their cancellations and the calls the script
\* makes inside callbacks interleave.
Protocol == INSTANCE TransferProtocol WITH pending <- Pending, calling <- Calling

ImplementsProtocol == Protocol!Spec
=============================================================================
