---------------------------- MODULE ControlSetup ----------------------------
(***************************************************************************)
(* Setup packets of control transfers: encode_control_setup and            *)
(* decode_control_setup (src/transfer.c, src/datastructs.c) with the names *)
(* of EnumNames.  An encoder that finds a field without a code, and a      *)
(* decoder that finds a code without a name, raise an error.               *)
(***************************************************************************)
EXTENDS EnumNames, Functions

RequestType == Codes("requesttype")
Recipient == Codes("requestrecipient")
Direction == Codes("direction")
StandardRequest == Codes("standardrequest")

NameOf(f, code) == CHOOSE x \in DOMAIN f : f[x] = code

\* The fields of a byte and of a 16-bit word.
Byte8(v) == v % 256
Word16(v) == v % 65536

\* The request is a name for a standard request, and an integer for the others.
Encodable(s) ==
  /\ s.request_type \in DOMAIN RequestType
  /\ s.request_recipient \in DOMAIN Recipient
  /\ s.direction \in DOMAIN Direction
  /\ s.request_type = "standard" => s.request \in DOMAIN StandardRequest

\* checkcontrolsetup.
Encode(s) ==
  [bmRequestType |-> Recipient[s.request_recipient] + RequestType[s.request_type]
                       + Direction[s.direction],
   bRequest |-> IF s.request_type = "standard" THEN StandardRequest[s.request]
                                               ELSE Byte8(s.request),
   wValue |-> Word16(s.value), wIndex |-> Word16(s.index), wLength |-> Word16(s.length)]

\* (Mutant: the mask 0x20 in the place of 0x60.)
TypeBitsNarrow(b) == 32 * ((b \div 32) % 2)

\* The masks 0x60, 0x1f and 0x80.
TypeBits(b) == 32 * ((b \div 32) % 4)
RecipientBits(b) == b % 32
DirectionBits(b) == 128 * (b \div 128)

Decodable(p) ==
  /\ RecipientBits(p.bmRequestType) \in Range(Recipient)
  /\ TypeBits(p.bmRequestType) = 0 => p.bRequest \in Range(StandardRequest)

\* pushcontrolsetup.
Decode(p) ==
  [request_type |-> NameOf(RequestType, TypeBits(p.bmRequestType)),
   request_recipient |-> NameOf(Recipient, RecipientBits(p.bmRequestType)),
   direction |-> NameOf(Direction, DirectionBits(p.bmRequestType)),
   request |-> IF TypeBits(p.bmRequestType) = 0
               THEN NameOf(StandardRequest, p.bRequest) ELSE p.bRequest,
   value |-> p.wValue, index |-> p.wIndex, length |-> p.wLength]

-----------------------------------------------------------------------------
(* What the conversions promise.                                           *)

\* The setups a script can give, and the setup packets there can be.
Setup ==
  [request_type : DOMAIN RequestType \ {"standard"}, request_recipient : DOMAIN Recipient,
   direction : DOMAIN Direction, request : Int, value : Int, index : Int, length : Int]
  \cup
  [request_type : {"standard"}, request_recipient : DOMAIN Recipient,
   direction : DOMAIN Direction, request : DOMAIN StandardRequest,
   value : Int, index : Int, length : Int]

Octet == 0 .. 255
Word == 0 .. 65535
Packet ==
  [bmRequestType : Octet, bRequest : Octet, wValue : Word, wIndex : Word, wLength : Word]

\* Decoding an encoded setup returns the setup, with the fields reduced to their
\* width.
SetupRecovered(s) ==
  /\ Encodable(s) /\ Decodable(Encode(s))
  /\ Decode(Encode(s)) =
       [s EXCEPT !.value = @ % 65536, !.index = @ % 65536, !.length = @ % 65536,
          !.request = IF s.request_type = "standard" THEN @ ELSE @ % 256]

\* Encoding a decoded packet returns the packet.
PacketRecovered(p) == Decodable(p) => Encode(Decode(p)) = p
=============================================================================
