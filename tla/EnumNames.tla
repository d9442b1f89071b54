----------------------------- MODULE EnumNames ------------------------------
(***************************************************************************)
(* The codes of libusb and MoonUSB and their names, as moonusb_open_enums  *)
(* lists them (src/enums.c, src/enums.h), and the names of libusb's errors *)
(* (src/tracing.c).                                                        *)
(***************************************************************************)
EXTENDS Integers, Sequences

\* Codes and their names.
Coded(codes, names) == [i \in DOMAIN names |-> <<codes[i], names[i]>>]

\* Names of consecutive codes.
Numbered(first, names) == [i \in DOMAIN names |-> <<first + i - 1, names[i]>>]

TypeNames ==
  Numbered(1, <<"char", "uchar", "short", "ushort", "int", "uint", "long", "ulong",
                "float", "double">>)

ClassNames ==
  Numbered(0, <<"per interface", "audio", "cdc", "hid">>)
  \o Numbered(5, <<"physical", "image", "printer", "mass storage", "hub", "cdc data",
                   "smart card">>)
  \o Numbered(13, <<"content security", "video", "personal healthcare", "audio video",
                    "billboard", "type c bridge">>)
  \o Coded(<<220, 224, 239, 254, 255>>,
           <<"diagnostic", "wireless", "miscellaneous", "application specific",
             "vendor specific">>)

RequestNames ==
  Coded(<<0, 1, 3>>, <<"get status", "clear feature", "set feature">>)
  \o Numbered(5, <<"set address", "get descriptor", "set descriptor", "get configuration",
                   "set configuration", "get interface", "set interface", "synch frame">>)
  \o Numbered(48, <<"set sel", "set isoch delay">>)

StatusNames ==
  Numbered(0, <<"completed", "error", "timeout", "cancelled", "stall", "no device", "overflow">>)

BosNames ==
  Numbered(1, <<"wireless usb", "usb 2 0 extension", "superspeed usb", "container id",
                "platform", "power delivery", "battery info", "pd consumer port",
                "pd provider port", "superspeed plus", "precision time measurement",
                "wireless usb ext", "billboard", "authentication", "billboard ex",
                "configuration summary">>)

\* moonusb_open_enums, domain by domain.
Mappings == <<
  [domain |-> "type", names |-> TypeNames],
  [domain |-> "class", names |-> ClassNames],
  [domain |-> "speed",
   names |-> Numbered(0, <<"unknown", "low", "full", "high", "super", "super plus">>)],
  [domain |-> "option",
   names |-> Numbered(0, <<"log level", "use usbdk", "weak authority">>)],
  [domain |-> "loglevel",
   names |-> Numbered(0, <<"none", "error", "warning", "info", "debug">>)],
  [domain |-> "direction", names |-> Coded(<<0, 128>>, <<"out", "in">>)],
  [domain |-> "transfertype",
   names |-> Numbered(0, <<"control", "isochronous", "bulk", "interrupt">>)],
  [domain |-> "standardrequest", names |-> RequestNames],
  [domain |-> "requesttype",
   names |-> Coded(<<0, 32, 64, 96>>, <<"standard", "class", "vendor", "reserved">>)],
  [domain |-> "requestrecipient",
   names |-> Numbered(0, <<"device", "interface", "endpoint", "other">>)],
  [domain |-> "isosynctype", names |-> Numbered(0, <<"none", "async", "adaptive", "sync">>)],
  [domain |-> "isousagetype", names |-> Numbered(0, <<"data", "feedback", "implicit">>)],
  [domain |-> "capability",
   names |-> Coded(<<1, 256, 257>>, <<"hotplug", "hid access", "detach kernel driver">>)],
  [domain |-> "hotplugevent", names |-> Numbered(1, <<"attached", "detached">>)],
  [domain |-> "transferstatus", names |-> StatusNames],
  [domain |-> "bostype", names |-> BosNames] >>

\* The key of each domain in the trees; 4 is not used.
DomainNumber ==
  [type |-> 0, class |-> 1, speed |-> 2, option |-> 3, loglevel |-> 5, direction |-> 6,
   transfertype |-> 7, standardrequest |-> 8, requesttype |-> 9, requestrecipient |-> 10,
   isosynctype |-> 11, isousagetype |-> 12, capability |-> 13, hotplugevent |-> 14,
   transferstatus |-> 15, bostype |-> 16]

\* The names of a domain, and the codes by name.
NamesOf(domain) ==
  Mappings[CHOOSE i \in DOMAIN Mappings : Mappings[i].domain = domain].names
Codes(domain) ==
  LET names == NamesOf(domain)
  IN  [s \in {names[i][2] : i \in DOMAIN names} |->
         names[CHOOSE i \in DOMAIN names : names[i][2] = s][1]]

\* pusherrcode: the name of the error that CheckError raises for a result of libusb,
\* an error (negative) or the status of a transfer.
Errors ==
  << <<0, "success">> >>
  \o [i \in 1 .. 12 |->
       <<-i, <<"io error", "invalid param", "access", "no device", "not found", "busy",
              "timeout", "overflow", "pipe", "interrupted", "no mem", "not supported">>[i]>>]
  \o << <<-99, "other">> >>
  \o Numbered(1, <<"error", "timeout", "cancelled", "stall", "no device", "overflow">>)

\* (Mutant: the error -12 is forgotten.)
ErrorNameShort(ec) ==
  IF \E i \in DOMAIN Errors : Errors[i][1] = ec /\ ec # -12
  THEN Errors[CHOOSE i \in DOMAIN Errors : Errors[i][1] = ec][2]
  ELSE "unknown"

ErrorName(ec) ==
  IF \E i \in DOMAIN Errors : Errors[i][1] = ec
  THEN Errors[CHOOSE i \in DOMAIN Errors : Errors[i][1] = ec][2]
  ELSE "unknown"
=============================================================================
