------------------------------ MODULE Requests ------------------------------
(***************************************************************************)
(* The methods of devices and device handles that ask libusb for something *)
(* and convert what it returns (src/device.c, src/devhandle.c,             *)
(* src/synch.c, src/datastructs.c): the Lua stack of the C function, the   *)
(* memory it has allocated and the descriptors it has obtained, at every   *)
(* point where it may raise an error.  What libusb returns is chosen when  *)
(* it is read; a failure to allocate memory in Lua itself is left out.     *)
(***************************************************************************)
EXTENDS EnumNames, Functions, TLC

CONSTANTS
  MaxParts,     \* bound on the parts of a descriptor and on the length of a list
  ClassCodes,   \* class codes that devices have
  Attributes    \* attributes that endpoints have

ASSUME RequestsAssumption ==
  /\ MaxParts \in Nat
  /\ ClassCodes \subseteq 0 .. 255 /\ Attributes \subseteq 0 .. 255

VARIABLES
  frames,   \* what is being converted, the innermost last; empty: no call
  nargs,    \* the number of arguments of the call
  results,  \* the values it returns
  top,      \* height of the function's Lua stack
  held,     \* what it has to free: memory, config, bos, companion
  leaked,   \* what calls have left unfreed
  outcome,  \* of the last call: "none" while it executes, "returned" or "raised"
  error     \* the name of the error that libusb's result was turned into, or ""

reqVars == <<frames, nargs, results, top, held, leaked, outcome, error>>

Idle == frames = <<>>
Top == frames[Len(frames)]
Outer == SubSeq(frames, 1, Len(frames) - 1)
At(f) == ~ Idle /\ Top.at = f
Parts == 0 .. MaxParts

\* The slots that Lua guarantees a C function, besides its arguments.
MinStack == 20

ReqInit ==
  /\ frames = <<>> /\ nargs = 0 /\ results = 0 /\ top = 0
  /\ held = {} /\ leaked = {} /\ outcome = "returned" /\ error = ""

-----------------------------------------------------------------------------
(* Steps of a call.                                                        *)

Frame(f, n) == [at |-> f, left |-> n]

\* A call with n arguments goes on with the conversion of f, and k new values on
\* the stack.  All return a value but free_streams, which has 2 arguments.
Enter(n, f, k) ==
  /\ nargs' = n /\ top' = n + k
  /\ results' = IF f.at = "list" THEN n - 2 ELSE 1
  /\ frames' = <<f>>
  /\ outcome' = "none" /\ error' = ""
  /\ UNCHANGED leaked

\* A part is done with, or another is begun, and the stack has grown by k.
Advance(fs, k) ==
  /\ frames' = fs /\ top' = top + k
  /\ UNCHANGED <<nargs, results, leaked, outcome, error>>

\* The call returns: S has been freed, k values pushed.
Return(S, k) ==
  /\ frames' = <<>> /\ top' = top + k
  /\ held' = {} /\ leaked' = leaked \cup (held \ S)
  /\ outcome' = "returned"
  /\ UNCHANGED <<nargs, results, error>>

\* A call with n arguments raises an error, after having freed S.
RaiseIn(n, S, e) ==
  /\ frames' = <<>> /\ nargs' = n /\ top' = n
  /\ held' = {} /\ leaked' = leaked \cup (held \ S)
  /\ outcome' = "raised" /\ error' = e
  /\ UNCHANGED results

Raise(S, e) == RaiseIn(nargs, S, e)

\* CheckError, of an error of libusb.
LibusbError == (-12 .. -1) \cup {-99}
Fails(n, S) == \E ec \in LibusbError : RaiseIn(n, S, ErrorName(ec))

-----------------------------------------------------------------------------
(* Methods that convert nothing.                                           *)

\* The call returns at once, with k values.
Answers(n, k) ==
  /\ nargs' = n /\ top' = n + k /\ results' = k
  /\ outcome' = "returned" /\ error' = ""
  /\ UNCHANGED <<frames, held, leaked>>

\* get_bus_number, get_port_number, get_address, and get_speed, whose codes all have
\* names.
GetNumber == Idle /\ Answers(1, 1)

\* get_string_descriptor, of which index 0 is no string and not asked for,
\* get_configuration, set_configuration, clear_halt and reset_device.
DeviceRequest ==
  /\ Idle
  /\ \E n \in 1 .. 3 : Answers(n, 1) \/ Answers(n, 0) \/ Fails(n, {})

\* control_transfer, whose length must be that of the setup packet's data and of the
\* packet, bulk_transfer and interrupt_transfer.
SynchTransfer ==
  /\ Idle
  /\ \/ \E length, wLength \in {0, 8, 9} :
          length < wLength + 8 /\ RaiseIn(4, {}, "")
     \/ \E n \in 4 .. 5 : Answers(n, 1) \/ Fails(n, {})

\* get_next_timeout: nil, or a number.
GetNextTimeout == Idle /\ (Answers(1, 1) \/ Fails(1, {}))

\* has_capability, which some versions of libusb do not have, and setlocale.
Library == Idle /\ (Answers(1, 1) \/ RaiseIn(1, {}, "") \/ Answers(1, 0) \/ Fails(1, {}))

\* get_max_packet_size and get_max_iso_packet_size: a size is not 0, and CheckError
\* takes it for an error as well.
GetMaxPacketSize ==
  /\ Idle
  /\ Fails(2, {}) \/ \E size \in {8, 64} : RaiseIn(2, {}, ErrorName(size))

\* get_descriptor, without a buffer of the caller's.
GetDescriptor ==
  \/ /\ Idle
     /\ Enter(5, Frame("buffer", 0), 0) /\ held' = {"memory"}
  \/ /\ At("buffer")
     /\ Fails(nargs, {"memory"}) \/ Return({"memory"}, 1)

\* get_port_numbers.
GetPortNumbers ==
  \/ /\ Idle
     /\ \E n \in Parts :
          Enter(2, Frame("ports", n), 0) /\ held' = {"memory"}
  \/ /\ At("ports")
     /\ \/ top = nargs /\ Fails(nargs, {"memory"})
        \/ top = nargs /\ Advance(frames, 1) /\ UNCHANGED held
        \/ top > nargs /\ Top.left > 0
             /\ Advance(<<Frame("ports", Top.left - 1)>>, 0) /\ UNCHANGED held
        \/ top > nargs /\ Top.left = 0 /\ Return({"memory"}, 0)

-----------------------------------------------------------------------------
(* Lists of endpoints.                                                     *)

\* alloc_streams and free_streams: checkucharlist refuses what is not a table with
\* elements before it allocates the list.
Streams ==
  /\ Idle
  /\ \E n \in 2 .. 3 :
       \/ \E count \in Parts \ {0} :
            Enter(n, Frame("list", count), 0) /\ held' = {"memory"}
       \/ RaiseIn(n, {}, "")

\* An element that is no number is an error, and the list is freed.
CheckElement ==
  /\ At("list") /\ Top.left > 0
  /\ \/ Advance(<<Frame("list", Top.left - 1)>>, 0) /\ UNCHANGED held
     \/ Raise({"memory"}, "")

\* The list is freed before libusb's result is looked at; alloc_streams has
\* 3 arguments and returns the number of streams.
CallStreams ==
  /\ At("list") /\ Top.left = 0
  /\ Fails(nargs, {"memory"}) \/ Return({"memory"}, nargs - 2)

-----------------------------------------------------------------------------
(* Descriptors.                                                            *)

\* pushclass: a code without a name is unexpected.
HasName(domain, code) == code \in Range(Codes(domain))
NameOfCode(domain, code) ==
  CHOOSE s \in DOMAIN Codes(domain) : Codes(domain)[s] = code

\* (Mutant: the mask 0x07 in the place of 0x0f.)
EndpointNarrow(s) ==
  [number |-> s.bEndpointAddress % 8,
   direction |-> NameOfCode("direction", 128 * (s.bEndpointAddress \div 128)),
   transfer_type |-> NameOfCode("transfertype", s.bmAttributes % 4),
   iso |-> IF s.bmAttributes % 4 # 1 THEN {}
           ELSE {[sync_type |-> NameOfCode("isosynctype", (s.bmAttributes \div 4) % 4),
                  usage_type |-> NameOfCode("isousagetype", (s.bmAttributes \div 16) % 4)]}]

\* The fields of an endpoint's table that pushendpointdescriptor decodes: the
\* masks 0x0f and 0x80 of the address, and three fields of two bits, of which two
\* only isochronous endpoints have.
Endpoint(s) ==
  [number |-> s.bEndpointAddress % 16,
   direction |-> NameOfCode("direction", 128 * (s.bEndpointAddress \div 128)),
   transfer_type |-> NameOfCode("transfertype", s.bmAttributes % 4),
   iso |-> IF s.bmAttributes % 4 # 1 THEN {}
           ELSE {[sync_type |-> NameOfCode("isosynctype", (s.bmAttributes \div 4) % 4),
                  usage_type |-> NameOfCode("isousagetype", (s.bmAttributes \div 16) % 4)]}]

\* It raises an error for the reserved usage type.
EndpointNamed(attributes) ==
  attributes % 4 = 1 => HasName("isousagetype", (attributes \div 16) % 4)

EndpointDescriptor ==
  [bEndpointAddress : 0 .. 15 \cup 128 .. 143, bmAttributes : 0 .. 63]

\* The table of an endpoint tells all the fields of its descriptor; only that of
\* the reserved usage type has none.
EndpointRecovered(s) ==
  IF EndpointNamed(s.bmAttributes)
  THEN LET t == Endpoint(s)
       IN  /\ t.number + Codes("direction")[t.direction] = s.bEndpointAddress
           /\ Codes("transfertype")[t.transfer_type] = s.bmAttributes % 4
           /\ s.bmAttributes % 4 = 1 =>
                \E f \in t.iso :
                  s.bmAttributes = 1 + 4 * Codes("isosynctype")[f.sync_type]
                                     + 16 * Codes("isousagetype")[f.usage_type]
  ELSE s.bmAttributes % 4 = 1 /\ s.bmAttributes \div 16 = 3

\* get_device_descriptor, up to the configurations.
GetDeviceDescriptor ==
  /\ Idle
  /\ \/ Fails(1, {})
     \/ \E c \in ClassCodes : ~ HasName("class", c) /\ RaiseIn(1, {}, "")
     \/ \E c \in ClassCodes, n \in Parts :
          HasName("class", c) /\ Enter(1, Frame("device", n), 2) /\ UNCHANGED held

\* get_active_config_descriptor, get_config_descriptor[_by_value].
GetConfigDescriptor ==
  /\ Idle
  /\ \E n \in 1 .. 2 :
       \/ Fails(n, {})
       \/ \E m \in Parts : Enter(n, Frame("config", m), 2) /\ held' = {"config"}

\* The frames with one part less to do in the innermost, and the part on top.
Into(f, n) == Append(Append(Outer, [Top EXCEPT !.left = @ - 1]), Frame(f, n))
More(f) == At(f) /\ Top.left > 0
Done(f) == At(f) /\ Top.left = 0

\* pushdevicedescriptor: the next configuration.
NextConfig ==
  /\ More("device")
  /\ \/ Fails(nargs, {})
     \/ \E m \in Parts : Advance(Into("config", m), 2) /\ held' = held \cup {"config"}

NextInterface ==
  /\ More("config")
  /\ \E m \in Parts : Advance(Into("interface", m), 1) /\ UNCHANGED held

\* pushinterfacedescriptor, up to the endpoints.
NextAltsetting ==
  /\ More("interface")
  /\ \E c \in ClassCodes, m \in Parts :
       IF HasName("class", c) THEN Advance(Into("altsetting", m), 2) /\ UNCHANGED held
                              ELSE Raise({}, "")

\* pushendpointdescriptor, up to its companion.
NextEndpoint ==
  /\ More("altsetting")
  /\ \E a \in Attributes :
       IF EndpointNamed(a) THEN Advance(Into("endpoint", 0), 1) /\ UNCHANGED held
                           ELSE Raise({}, "")

\* libusb finds a companion descriptor, whose table is pushed.
Companion ==
  /\ At("endpoint")
  /\ Advance(Append(Outer, Frame("companion", 0)), 1) /\ held' = held \cup {"companion"}

EndEndpoint ==
  \/ At("endpoint") /\ Advance(Outer, -1) /\ UNCHANGED held
  \/ At("companion") /\ Advance(Outer, -2) /\ held' = held \ {"companion"}

\* (Mutant: the list of endpoints is left on the stack.)
EndAltsettingPiles == Done("altsetting") /\ Advance(Outer, -1) /\ UNCHANGED held

EndAltsetting == Done("altsetting") /\ Advance(Outer, -2) /\ UNCHANGED held

EndInterface == Done("interface") /\ Advance(Outer, -1) /\ UNCHANGED held

\* (Mutant: pushdevicedescriptor does not free the configuration.)
EndConfigKeeps ==
  /\ Done("config")
  /\ IF Len(frames) > 1 THEN Advance(Outer, -2) /\ UNCHANGED held
                         ELSE Return({"config"}, -1)

\* The configuration is freed by pushdevicedescriptor, or by the method.
EndConfig ==
  /\ Done("config")
  /\ IF Len(frames) > 1 THEN Advance(Outer, -2) /\ held' = held \ {"config"}
                         ELSE Return({"config"}, -1)

EndDevice == Done("device") /\ Return({}, -1)

\* get_bos_descriptor, with pushbosdescriptor.
GetBosDescriptor ==
  \/ /\ Idle
     /\ \/ Fails(1, {})
        \/ \E n \in Parts : Enter(1, Frame("bos", n), 2) /\ held' = {"bos"}
  \/ More("bos") /\ Advance(<<Frame("bos", Top.left - 1)>>, 0) /\ UNCHANGED held
  \/ Done("bos") /\ Return({"bos"}, -1)

-----------------------------------------------------------------------------
Descriptors ==
  \/ GetDeviceDescriptor \/ GetConfigDescriptor \/ GetBosDescriptor
  \/ NextConfig \/ NextInterface \/ NextAltsetting \/ NextEndpoint \/ Companion
  \/ EndEndpoint \/ EndAltsetting \/ EndInterface \/ EndConfig \/ EndDevice

ReqNext ==
  \/ GetNumber \/ DeviceRequest \/ SynchTransfer \/ GetNextTimeout \/ Library
  \/ GetMaxPacketSize \/ GetDescriptor \/ GetPortNumbers
  \/ Streams \/ CheckElement \/ CallStreams
  \/ Descriptors

-----------------------------------------------------------------------------
\* What libusb and Malloc have given a method is freed however the call ends, but
\* for the configuration in which a code without a name is found: the error leaves
\* the functions that hold it.
FreedByCalls ==
  [][/\ Idle' => held' = {}
     /\ leaked' # leaked =>
          /\ leaked' = leaked \cup {"config"} /\ outcome' = "raised"
          /\ At("interface") \/ At("altsetting")]_reqVars

\* A method that returns a value has that value alone on its stack, above the
\* arguments, and none needs more slots than Lua guarantees (two are for a field
\* and its name).
StackBalanced ==
  /\ outcome = "returned" => top = nargs + results
  /\ top + 2 <= nargs + MinStack

\* The names that an error of libusb can have, by src/doc/enums.adoc.
Errcode ==
  {"io error", "invalid param", "access", "no device", "not found", "busy", "timeout",
   "overflow", "pipe", "interrupted", "no mem", "not supported", "other"}

\* The error that a script catches has one of the documented names, or is no error
\* of libusb's, but for the methods that take a size for an error.
ErrorsNamed == error \in Errcode \cup {""} \/ (error = "unknown" /\ nargs = 2)

\* However a call ends, its stack or its error is right.
CallsEnd == StackBalanced /\ ErrorsNamed
=============================================================================
