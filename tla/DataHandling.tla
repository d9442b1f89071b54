---------------------------- MODULE DataHandling ----------------------------
(***************************************************************************)
(* Packing and unpacking of integers (src/datahandling.c), as operators.   *)
(*                                                                         *)
(* A byte is a digit of base Base: 256 in the code, less in a small        *)
(* instance.  The integers a script can hold have 8 bytes, as in Lua.  The *)
(* floating point types, whose conversion is the compiler's, are left out. *)
(***************************************************************************)
EXTENDS Integers, Sequences

CONSTANTS
  Base,      \* the number of values of a byte
  NotNumber  \* a Lua value that is not an integer

ASSUME DataHandlingAssumption ==
  /\ Base \in Nat \ {0, 1} /\ Base % 2 = 0
  /\ NotNumber \notin Int

Byte == 0 .. Base - 1
Type == {"char", "uchar", "short", "ushort", "int", "uint", "long", "ulong"}

\* sizeoftype.
SizeOf(t) ==
  IF t \in {"char", "uchar"} THEN 1
  ELSE IF t \in {"short", "ushort"} THEN 2
  ELSE IF t \in {"int", "uint"} THEN 4
  ELSE 8

Signed(t) == t \in {"char", "short", "int", "long"}

\* The number of values of n bytes.
Power[n \in Nat] == IF n = 0 THEN 1 ELSE Base * Power[n - 1]

\* The bytes of an integer in memory, the least significant first; of an integer
\* that is too large for w bytes, the lowest w.
Digit(v, i) == (v \div Power[i - 1]) % Base
Bytes(v, w) == [i \in 1 .. w |-> Digit(v, i)]

\* lua_tointegerx, which converts what is not a number to 0, before PACK tests it.
ToInteger(v) == IF v = NotNumber THEN 0 ELSE v

Concat(s, w) == [j \in 1 .. Len(s) * w |-> s[((j - 1) \div w) + 1][((j - 1) % w) + 1]]

IsFaulty(vals) == \E i \in 1 .. Len(vals) : vals[i] = NotNumber

\* How many elements PACK stores: all, or those up to the first faulty one, it too.
Stored(vals) ==
  IF IsFaulty(vals)
  THEN CHOOSE k \in 1 .. Len(vals) :
         vals[k] = NotNumber /\ \A i \in 1 .. k - 1 : vals[i] # NotNumber
  ELSE Len(vals)

\* The bytes PACK leaves in its destination.
Packed(t, vals) ==
  Concat([i \in 1 .. Stored(vals) |-> Bytes(ToInteger(vals[i]), SizeOf(t))], SizeOf(t))

\* (Mutant: the bytes of an unpacked integer in the opposite order.)
UnsignedSwapped(b) ==
  LET n[i \in 0 .. Len(b)] == IF i = 0 THEN 0 ELSE Base * n[i - 1] + b[i]
  IN  n[Len(b)]

\* The integer in the bytes b.
Unsigned(b) ==
  LET n[i \in 0 .. Len(b)] == IF i = 0 THEN 0 ELSE n[i - 1] + b[i] * Power[i - 1]
  IN  n[Len(b)]

\* The same, in two's complement.
TwosComplement(b) ==
  IF 2 * Unsigned(b) >= Power[Len(b)] THEN Unsigned(b) - Power[Len(b)] ELSE Unsigned(b)

\* (Mutant: an unsigned char pushed as a char.)
PushedSigned(t, b) == TwosComplement(b)

\* lua_pushinteger of a value of type t, which reinterprets unsigned 8-byte values.
Pushed(t, b) ==
  IF Signed(t) \/ t = "ulong" THEN TwosComplement(b) ELSE Unsigned(b)

\* UNPACK, where the length of data is right.
UnpackableLength(t, data) == Len(data) >= SizeOf(t) /\ Len(data) % SizeOf(t) = 0

Unpacked(t, data) ==
  [i \in 1 .. Len(data) \div SizeOf(t) |->
     Pushed(t, SubSeq(data, (i - 1) * SizeOf(t) + 1, i * SizeOf(t)))]

-----------------------------------------------------------------------------
(* What the conversions promise.                                           *)

\* The least of the integers unpack returns for a type.
Low(t) == IF Signed(t) \/ t = "ulong" THEN -(Power[SizeOf(t)] \div 2) ELSE 0

\* unpack of pack returns, for each value, the integer of the type's range that is
\* equal to it modulo the number of values of the type: C's conversions lose
\* nothing else.
PackUnpack(t, v) ==
  LET u == Unpacked(t, Packed(t, v))
      m == Power[SizeOf(t)]
  IN  /\ UnpackableLength(t, Packed(t, v))
      /\ Len(u) = Len(v)
      /\ \A i \in 1 .. Len(v) : u[i] \in Low(t) .. Low(t) + m - 1 /\ (u[i] - v[i]) % m = 0

\* pack of unpack returns the data, where the length is right.
UnpackPack(t, data) ==
  UnpackableLength(t, data) => Packed(t, Unpacked(t, data)) = data
=============================================================================
