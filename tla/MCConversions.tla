--------------------------- MODULE MCConversions ---------------------------
\* The inputs of Conversions, for TLC.
EXTENDS Conversions

\* Memory that runs out for one of the first two records, one inside a list, and the
\* last of all.
MCNoMemoryAt == {<<1, 1>>, <<1, 2>>, <<2, 10>>, <<16, 16>>}

\* Values at the edges of the types' ranges, for bytes of one bit.
MCValue == {-128, -9, -8, -3, -2, -1, 0, 1, 2, 3, 7, 8, 127, NotNumber}

Leaf(v) == [value |-> v]
Ref(t) == [table |-> t]

\* An empty table, and tables of one to three levels.
MCTables ==
  << <<>>, <<Leaf(1), Leaf(2)>>, <<Ref(2), Leaf(3)>>, <<Leaf(7)>>,
     <<Ref(4), Ref(1), Leaf(8)>>, <<Leaf(-1), Ref(5), Leaf(0)>> >>

MCSetups ==
  [request_type : {"class", "vendor", "reserved"}, request_recipient : DOMAIN Recipient,
   direction : DOMAIN Direction, request : {-1, 0, 255, 256},
   value : {-1, 0, 65535, 65536}, index : {-1}, length : {70000}]
  \cup
  [request_type : {"standard"}, request_recipient : DOMAIN Recipient,
   direction : DOMAIN Direction, request : DOMAIN StandardRequest,
   value : {0, 65535, 65536}, index : {0}, length : {0}]

MCPackets ==
  [bmRequestType : 0 .. 255, bRequest : {0, 2, 6, 49, 255},
   wValue : {65535}, wIndex : {0}, wLength : {256}]

MCEndpoints == EndpointDescriptor
=============================================================================
