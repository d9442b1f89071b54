----------------------------- MODULE Conversions -----------------------------
(***************************************************************************)
(* The conversions of MoonUSB.  The module is loaded first (Enums) and then*)
(* used: for a call that asks libusb for something (Requests), or for a    *)
(* conversion of DataHandling, Flatten, ControlSetup or of an endpoint.  Of*)
(* these a state is an input, and the steps build every input within the   *)
(* bounds, arguments and data one element at a time.                       *)
(***************************************************************************)
EXTENDS DataHandling, Flatten, ControlSetup, Enums, Requests

CONSTANTS
  MaxArgs, MaxData,           \* bounds on the number of arguments and of bytes
  Setups, Packets, Endpoints  \* setups, setup packets and endpoint descriptors

ASSUME ConversionsAssumption ==
  /\ Value \subseteq Int \cup {NotNumber}
  /\ Setups \subseteq Setup /\ Packets \subseteq Packet
  /\ Endpoints \subseteq EndpointDescriptor

VARIABLES
  args,    \* arguments of flatten and pack
  data,    \* the bytes given to unpack
  packet   \* a setup, a setup packet or an endpoint descriptor, or <<>>

inputs == <<args, data, packet>>
convVars == <<inputs, enumVars, reqVars>>

ConvInit ==
  /\ args = <<>> /\ data = <<>> /\ packet = <<>>
  /\ EnumsInit /\ ReqInit

\* No call has been made, and no conversion.
Unused == args = <<>> /\ data = <<>> /\ packet = <<>> /\ ReqInit

PushArg ==
  /\ data = <<>> /\ packet = <<>>
  /\ Len(args) < MaxArgs
  /\ \E e \in Element : args' = Append(args, e)
  /\ UNCHANGED <<data, packet>>

PushByte ==
  /\ args = <<>> /\ packet = <<>>
  /\ Len(data) < MaxData
  /\ \E b \in Byte : data' = Append(data, b)
  /\ UNCHANGED <<args, packet>>

ChoosePacket ==
  /\ args = <<>> /\ data = <<>> /\ packet = <<>>
  /\ packet' \in Setups \cup Packets \cup Endpoints
  /\ UNCHANGED <<args, data>>

Convert == ReqInit /\ (PushArg \/ PushByte \/ ChoosePacket)

Call == inputs = <<<<>>, <<>>, <<>>>> /\ ReqNext

ConvNext ==
  \/ Unused /\ EnumsNext /\ UNCHANGED <<inputs, reqVars>>
  \/ phase = "loaded" /\ Convert /\ UNCHANGED <<enumVars, reqVars>>
  \/ phase = "loaded" /\ Call /\ UNCHANGED <<inputs, enumVars>>

\* AtExit runs to its end.
ConvSpec ==
  /\ ConvInit /\ [][ConvNext]_convVars
  /\ WF_convVars(Unused /\ (EnumsFree \/ Exited) /\ UNCHANGED <<inputs, reqVars>>)

-----------------------------------------------------------------------------
\* flatten returns the values in the order they are found, however tables are
\* nested: Flatten1_ counts the values of a nested table where it resumes.
FlattenInOrder ==
  LET r == ToFlatTable(args)
  IN  r.flat = ValuesOf(args) /\ r.n = Len(ValuesOf(args))

\* pack and unpack are inverse, as far as the types allow: unpack of pack returns
\* each value reduced to its type, and pack of unpack the data.
PackInverse ==
  \A t \in Type :
    /\ ValuesOf(args) # <<>> /\ ~ IsFaulty(ValuesOf(args)) => PackUnpack(t, ValuesOf(args))
    /\ UnpackPack(t, data)

\* What examples/setup.lua asserts: the fields that are packed in bits are packed
\* and told apart without loss.
CodingExact ==
  /\ packet \in Setups => SetupRecovered(packet)
  /\ packet \in Packets => PacketRecovered(packet)
  /\ packet \in Endpoints => EndpointRecovered(packet)
=============================================================================
