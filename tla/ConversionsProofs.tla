-------------------------- MODULE ConversionsProofs --------------------------
(***************************************************************************)
(* Theorems about Conversions and the modules it is made of: for every     *)
(* number of values of a byte, all values and tables, all setups, packets  *)
(* and endpoints, and wherever memory runs out.  The theorems about the    *)
(* specification are at the end, after the lemmas of each conversion.      *)
(***************************************************************************)
EXTENDS Conversions, FiniteSetTheorems, WellFoundedInduction, SequenceTheorems, TLAPS

-----------------------------------------------------------------------------
(* What PACK stores.                                                       *)

\* Every set of natural numbers that is not empty has a least element, and so a
\* set that holds 0, and n + 1 with n, holds them all.
LEMMA Least ==
  ASSUME NEW T \in SUBSET Nat, T # {}
  PROVE  \E x \in T : \A y \in T : x <= y
<1> DEFINE R == OpToRel(<, Nat)
<1>1. IsWellFoundedOn(R, Nat)
  BY NatLessThanWellFounded
<1>2. \A x, y \in Nat : y < x => <<y, x>> \in R
  BY DEF OpToRel
<1> HIDE DEF R
<1>3. PICK x \in T : \A y \in T : ~ (<<y, x>> \in R)
  BY <1>1, WFMin
<1>4. \A y \in T : ~ (y < x)
  BY <1>2, <1>3
<1>5. \A y \in T : x <= y
  BY <1>4
<1> QED
  BY <1>5

LEMMA Induction ==
  ASSUME NEW S, 0 \in S, \A n \in Nat : n \in S => n + 1 \in S
  PROVE  \A n \in Nat : n \in S
<1> DEFINE T == Nat \ S
<1> SUFFICES ASSUME T # {} PROVE FALSE
  OBVIOUS
<1>1. PICK x \in T : \A y \in T : x <= y
  BY Least
<1>2. x - 1 \in Nat /\ x - 1 \notin T
  BY <1>1
<1> QED
  BY <1>1, <1>2

\* The powers of Base up to m, as a finite table.
Table(m, g) ==
  /\ g \in [0 .. m -> Nat \ {0}]
  /\ g[0] = 1
  /\ \A i \in 1 .. m : g[i] = Base * g[i - 1]

LEMMA PowerTable ==
  ASSUME NEW m \in Nat, Base \in Nat \ {0}
  PROVE  \E g : Table(m, g)
<1> DEFINE S == {k \in Nat : \E g : Table(k, g)}
<1>1. 0 \in S
  <2> DEFINE g == [i \in 0 .. 0 |-> 1]
  <2>1. Table(0, g)
    BY DEF Table
  <2> QED
    BY <2>1
<1>2. ASSUME NEW k \in Nat, k \in S PROVE k + 1 \in S
  <2>1. PICK g : Table(k, g)
    BY <1>2
  <2> DEFINE h == [i \in 0 .. k + 1 |-> IF i = k + 1 THEN Base * g[k] ELSE g[i]]
  <2>2. g[k] \in Nat \ {0}
    BY <2>1 DEF Table
  <2>3. Base * g[k] \in Nat \ {0}
    BY <2>2
  <2>4. h \in [0 .. k + 1 -> Nat \ {0}]
    BY <2>1, <2>3 DEF Table
  <2>5. h[0] = 1
    BY <2>1 DEF Table
  <2>6. \A i \in 1 .. k + 1 : h[i] = Base * h[i - 1]
    <3> TAKE i \in 1 .. k + 1
    <3>1. CASE i = k + 1
      BY <3>1
    <3>2. CASE i # k + 1
      <4>1. i \in 1 .. k /\ i \in 0 .. k + 1 /\ i - 1 \in 0 .. k + 1 /\ i - 1 # k + 1
        BY <3>2
      <4> QED
        BY <2>1, <4>1 DEF Table
    <3> QED
      BY <3>1, <3>2
  <2> HIDE DEF h
  <2>7. Table(k + 1, h)
    BY <2>4, <2>6, <2>5 DEF Table
  <2> QED
    BY <2>7
<1> HIDE DEF S
<1>3. m \in S
  BY <1>1, <1>2, Induction
<1> QED
  BY <1>3 DEF S

LEMMA TablesAgree ==
  ASSUME NEW m \in Nat, NEW n \in Nat, NEW g, NEW h, Table(m, g), Table(n, h), m <= n
  PROVE  \A i \in 0 .. m : g[i] = h[i]
<1> DEFINE S == {k \in Nat : k <= m => g[k] = h[k]}
<1>1. 0 \in S
  BY DEF Table
<1>2. ASSUME NEW k \in Nat, k \in S PROVE k + 1 \in S
  <2> SUFFICES ASSUME k + 1 <= m PROVE g[k + 1] = h[k + 1]
    OBVIOUS
  <2>1. k + 1 \in 1 .. m /\ k + 1 \in 1 .. n /\ g[k] = h[k] /\ k + 1 - 1 = k
    BY <1>2
  <2> QED
    BY <2>1 DEF Table
<1> HIDE DEF S
<1>3. \A k \in Nat : k \in S
  BY <1>1, <1>2, Induction
<1> QED
  BY <1>3 DEF S

LEMMA PowerIs ==
  ASSUME Base \in Nat \ {0}
  PROVE /\ Power \in [Nat -> Nat \ {0}]
        /\ Power[0] = 1
        /\ \A n \in Nat : Power[n + 1] = Base * Power[n]
<1> DEFINE T(m) == CHOOSE g : Table(m, g)
           f == [n \in Nat |-> T(n)[n]]
<1>1. \A m \in Nat : Table(m, T(m))
  BY PowerTable
<1> HIDE DEF T
<1>2. \A n \in Nat : f[n] \in Nat \ {0}
  BY <1>1 DEF Table
<1>3. f[0] = 1
  BY <1>1 DEF Table
<1>4. ASSUME NEW n \in Nat PROVE f[n + 1] = Base * f[n]
  <2>1. T(n)[n] = T(n + 1)[n]
    BY <1>1, TablesAgree
  <2>2. T(n + 1)[n + 1] = Base * T(n + 1)[n + 1 - 1]
    BY <1>1 DEF Table
  <2> QED
    BY <2>1, <2>2
<1> HIDE DEF f
<1>5. f = [n \in Nat |-> IF n = 0 THEN 1 ELSE Base * f[n - 1]]
  <2>1. f = [n \in Nat |-> f[n]]
    BY DEF f
  <2>2. \A n \in Nat : f[n] = IF n = 0 THEN 1 ELSE Base * f[n - 1]
    <3> TAKE n \in Nat
    <3>1. CASE n = 0
      BY <1>3, <3>1
    <3>2. CASE n # 0
      <4>1. n - 1 \in Nat /\ n - 1 + 1 = n
        BY <3>2
      <4> QED
        BY <1>4, <3>2, <4>1
    <3> QED
      BY <3>1, <3>2
  <2> QED
    BY <2>1, <2>2
<1>6. Power = [n \in Nat |-> IF n = 0 THEN 1 ELSE Base * Power[n - 1]]
  <2> DEFINE Is(g) == g = [n \in Nat |-> IF n = 0 THEN 1 ELSE Base * g[n - 1]]
  <2>1. \E g : Is(g)
    BY <1>5
  <2>2. Power = CHOOSE g : Is(g)
    BY DEF Power
  <2> HIDE DEF Is
  <2>3. Is(Power)
    BY <2>1, <2>2
  <2> QED
    BY <2>3 DEF Is
<1> HIDE DEF f
<1>7. Power[0] = 1 /\ \A n \in Nat : Power[n + 1] = Base * Power[n]
  <2>1. \A n \in Nat : Power[n] = IF n = 0 THEN 1 ELSE Base * Power[n - 1]
    BY <1>6
  <2> QED
    BY <2>1
<1> DEFINE S == {k \in Nat : Power[k] \in Nat \ {0}}
<1>8. \A k \in Nat : k \in S
  <2>1. 0 \in S
    BY <1>7
  <2>2. ASSUME NEW k \in Nat, k \in S PROVE k + 1 \in S
    BY <1>7, <2>2
  <2> HIDE DEF S
  <2> QED
    BY <2>1, <2>2, Induction
<1> QED
  BY <1>6, <1>7, <1>8

LEMMA BaseIs == Base \in Nat /\ Base > 1
BY DataHandlingAssumption

\* The number of bytes of a type.
LEMMA SizeOfNat == ASSUME NEW t PROVE SizeOf(t) \in 1 .. 8
BY DEF SizeOf

LEMMA ModByte == ASSUME NEW a \in Int PROVE a % Base \in Byte
BY BaseIs DEF Byte

LEMMA DigitByte ==
  ASSUME NEW v \in Int, NEW i \in Nat \ {0}
  PROVE  Digit(v, i) \in Byte
<1>1. Power[i - 1] \in Nat \ {0}
  BY PowerIs, BaseIs
<1>2. v \div Power[i - 1] \in Int
  BY <1>1
<1> QED
  BY <1>2, ModByte DEF Digit

\* The first faulty element, which is the last one stored.
LEMMA StoredIs ==
  ASSUME NEW vals, Len(vals) \in Nat
  PROVE  /\ Stored(vals) \in 0 .. Len(vals)
         /\ ~ IsFaulty(vals) => Stored(vals) = Len(vals)
<1>1. CASE IsFaulty(vals)
  <2> DEFINE T == {k \in 1 .. Len(vals) : vals[k] = NotNumber}
  <2>1. T \in SUBSET Nat /\ T # {}
    BY <1>1 DEF IsFaulty
  <2> HIDE DEF T
  <2>2. PICK k \in T : \A y \in T : k <= y
    BY <2>1, Least
  <2>3. /\ k \in 1 .. Len(vals) /\ vals[k] = NotNumber
        /\ \A i \in 1 .. k - 1 : vals[i] # NotNumber
    BY <2>2 DEF T
  <2>4. Stored(vals) \in 1 .. Len(vals)
    BY <1>1, <2>3 DEF Stored
  <2> QED
    BY <1>1, <2>4
<1>2. CASE ~ IsFaulty(vals)
  BY <1>2 DEF Stored
<1> QED
  BY <1>1, <1>2

\* Position j of a list whose elements have w bytes lies in element k, byte i.
LEMMA Position ==
  ASSUME NEW w \in Nat \ {0}, NEW n \in Nat, NEW j \in 1 .. n * w
  PROVE  /\ ((j - 1) \div w) + 1 \in 1 .. n
         /\ ((j - 1) % w) + 1 \in 1 .. w
<1> DEFINE q == (j - 1) \div w
           r == (j - 1) % w
<1>1. q \in Int /\ r \in 0 .. w - 1 /\ j - 1 = w * q + r
  BY SMT
<1>2. q >= 0
  BY <1>1
<1>3. q < n
  <2>1. SUFFICES ASSUME q >= n PROVE FALSE
    BY <1>1
  <2>2. w * q >= w * n
    BY <1>1, <2>1
  <2> QED
    BY <1>1, <2>2
<1> QED
  BY <1>1, <1>2, <1>3

\* PACK stores bytes, no more than the elements of the list have.
LEMMA PackedBytes ==
  ASSUME NEW t, NEW vals, Len(vals) \in Nat,
         \A i \in 1 .. Len(vals) : vals[i] \in Int \cup {NotNumber}
  PROVE  /\ Packed(t, vals) \in Seq(Byte)
         /\ Len(Packed(t, vals)) = Stored(vals) * SizeOf(t)
         /\ Len(Packed(t, vals)) <= Len(vals) * SizeOf(t)
<1> DEFINE w == SizeOf(t)
           n == Stored(vals)
           s == [i \in 1 .. n |-> Bytes(ToInteger(vals[i]), w)]
<1>1. w \in 1 .. 8 /\ n \in Nat /\ n <= Len(vals)
  BY SizeOfNat, StoredIs
<1>2. ASSUME NEW k \in 1 .. n, NEW i \in 1 .. w
      PROVE  s[k][i] \in Byte
  <2>1. ToInteger(vals[k]) \in Int
    BY <1>1 DEF ToInteger
  <2> QED
    BY <1>1, <2>1, DigitByte DEF Bytes
<1>3. Len(s) = n
  BY <1>1
<1> HIDE DEF s
<1>4. Packed(t, vals) = [j \in 1 .. n * w |-> s[((j - 1) \div w) + 1][((j - 1) % w) + 1]]
  BY <1>3 DEF Packed, Concat, s
<1> HIDE DEF w, n
<1>5. ASSUME NEW j \in 1 .. n * w
      PROVE  s[((j - 1) \div w) + 1][((j - 1) % w) + 1] \in Byte
  <2>1. ((j - 1) \div w) + 1 \in 1 .. n /\ ((j - 1) % w) + 1 \in 1 .. w
    BY <1>1, Position
  <2> QED
    BY <1>2, <2>1, Zenon
<1>6. n * w \in Nat /\ n * w <= Len(vals) * w
  BY <1>1
<1>7. Packed(t, vals) \in [1 .. n * w -> Byte]
  BY <1>4, <1>5
<1>8. Packed(t, vals) \in Seq(Byte) /\ Len(Packed(t, vals)) = n * w
  BY <1>6, <1>7
<1> QED
  BY <1>6, <1>8 DEF n, w

-----------------------------------------------------------------------------
(* pack and unpack.                                                        *)

\* Division with remainder, and the only quotient and remainder there are.
Divides(a, b, q, r) == q \in Int /\ r \in 0 .. b - 1 /\ a = b * q + r

LEMMA DivMod ==
  ASSUME NEW a \in Int, NEW b \in Nat \ {0}
  PROVE  Divides(a, b, a \div b, a % b)
<1> DEFINE q == a \div b
           r == a % b
<1>1. q \in Int /\ r \in 0 .. b - 1 /\ a = b * q + r
  BY SMT
<1>2. Divides(a, b, q, r)
  BY <1>1, Zenon DEF Divides
<1> QED
  BY <1>2

LEMMA DivModUnique ==
  ASSUME NEW a \in Int, NEW b \in Nat \ {0}, NEW q \in Int, NEW r \in 0 .. b - 1, a = b * q + r
  PROVE  a \div b = q /\ a % b = r
<1> DEFINE d == a \div b
           e == a % b
<1>1. d \in Int /\ e \in 0 .. b - 1 /\ a = b * d + e
  BY DivMod DEF Divides
<1> HIDE DEF d, e
<1>2. ~ (d > q)
  <2>1. SUFFICES ASSUME d > q PROVE FALSE
    OBVIOUS
  <2>2. d - q >= 1 /\ d - q \in Int
    BY <1>1, <2>1
  <2>3. b * (d - q) >= b
    BY <2>2
  <2>4. b * (d - q) = b * d - b * q
    BY <1>1
  <2> QED
    BY <1>1, <2>3, <2>4
<1>3. ~ (q > d)
  <2>1. SUFFICES ASSUME q > d PROVE FALSE
    OBVIOUS
  <2>2. q - d >= 1 /\ q - d \in Int
    BY <1>1, <2>1
  <2>3. b * (q - d) >= b
    BY <2>2
  <2>4. b * (q - d) = b * q - b * d
    BY <1>1
  <2> QED
    BY <1>1, <2>3, <2>4
<1>4. d = q
  BY <1>1, <1>2, <1>3
<1>5. e = r
  BY <1>1, <1>4
<1> QED
  BY <1>4, <1>5 DEF d, e

LEMMA PowerNat ==
  /\ Power[0] = 1
  /\ \A n \in Nat : Power[n] \in Nat \ {0} /\ Power[n + 1] = Base * Power[n]
BY PowerIs, BaseIs

LEMMA PowerInt == \A n \in Nat : Power[n] \in Int
BY PowerNat

\* The sums that Unsigned computes.
IsSum(b, g) ==
  g = [i \in 0 .. Len(b) |-> IF i = 0 THEN 0 ELSE g[i - 1] + b[i] * Power[i - 1]]

\* The sums up to m, of the bytes f.
Sums(m, f, g) ==
  /\ g \in [0 .. m -> Int]
  /\ g[0] = 0
  /\ \A i \in 1 .. m : g[i] = g[i - 1] + f[i] * Power[i - 1]

LEMMA SumsExist ==
  ASSUME NEW f, NEW n \in Nat, \A i \in 1 .. n : f[i] \in Int
  PROVE  \E g : Sums(n, f, g)
<1> DEFINE S == {k \in Nat : k <= n => \E g : Sums(k, f, g)}
<1>1. 0 \in S
  <2> DEFINE g == [i \in 0 .. 0 |-> 0]
  <2>1. Sums(0, f, g)
    BY DEF Sums
  <2> QED
    BY <2>1
<1>2. ASSUME NEW k \in Nat, k \in S PROVE k + 1 \in S
  <2> SUFFICES ASSUME k + 1 <= n PROVE \E g : Sums(k + 1, f, g)
    OBVIOUS
  <2>1. PICK g : Sums(k, f, g)
    BY <1>2
  <2> DEFINE x == g[k] + f[k + 1] * Power[k]
             h == [i \in 0 .. k + 1 |-> IF i = k + 1 THEN x ELSE g[i]]
  <2>2. g[k] \in Int /\ f[k + 1] \in Int /\ Power[k] \in Int
    BY <2>1, PowerNat DEF Sums
  <2>3. x \in Int
    BY <2>2
  <2> HIDE DEF x
  <2>4. h \in [0 .. k + 1 -> Int] /\ h[0] = 0
    BY <2>1, <2>3 DEF Sums
  <2>5. \A i \in 1 .. k + 1 : h[i] = h[i - 1] + f[i] * Power[i - 1]
    <3> TAKE i \in 1 .. k + 1
    <3>1. CASE i = k + 1
      BY <3>1 DEF x
    <3>2. CASE i # k + 1
      <4>1. i \in 1 .. k /\ i \in 0 .. k + 1 /\ i - 1 \in 0 .. k + 1 /\ i - 1 # k + 1
        BY <3>2
      <4> QED
        BY <2>1, <4>1 DEF Sums
    <3> QED
      BY <3>1, <3>2
  <2> HIDE DEF h
  <2>6. Sums(k + 1, f, h)
    BY <2>4, <2>5 DEF Sums
  <2> QED
    BY <2>6
<1> HIDE DEF S
<1>3. n \in S
  BY <1>1, <1>2, Induction
<1> QED
  BY <1>3 DEF S

LEMMA SumsTyped ==
  ASSUME NEW m \in Nat, NEW f, NEW g, \A i \in 1 .. m : f[i] \in Int,
         g[0] = 0, \A i \in 1 .. m : g[i] = g[i - 1] + f[i] * Power[i - 1]
  PROVE  \A i \in 0 .. m : g[i] \in Int
<1> DEFINE S == {k \in Nat : k <= m => g[k] \in Int}
<1>1. 0 \in S
  OBVIOUS
<1>2. ASSUME NEW k \in Nat, k \in S PROVE k + 1 \in S
  <2> SUFFICES ASSUME k + 1 <= m PROVE g[k + 1] \in Int
    OBVIOUS
  <2>1. k + 1 \in 1 .. m /\ k + 1 - 1 = k /\ g[k] \in Int
    BY <1>2
  <2>2. g[k + 1] = g[k + 1 - 1] + f[k + 1] * Power[k + 1 - 1]
    BY <2>1
  <2>3. f[k + 1] \in Int /\ Power[k] \in Int
    BY <2>1, PowerInt
  <2>4. g[k + 1] = g[k] + f[k + 1] * Power[k]
    BY <2>1, <2>2
  <2> QED
    BY <2>1, <2>3, <2>4
<1> HIDE DEF S
<1>3. \A k \in Nat : k \in S
  BY <1>1, <1>2, Induction
<1> QED
  BY <1>3 DEF S

\* Unsigned adds up the bytes.
LEMMA UnsignedIs ==
  ASSUME NEW b \in Seq(Byte)
  PROVE  \E g : Sums(Len(b), b, g) /\ Unsigned(b) = g[Len(b)]
<1>1. Len(b) \in Nat /\ \A i \in 1 .. Len(b) : b[i] \in Int
  BY BaseIs DEF Byte
<1>2. PICK h : Sums(Len(b), b, h)
  BY <1>1, SumsExist
<1>3. IsSum(b, h)
  <2>1. h = [i \in 0 .. Len(b) |-> h[i]]
    BY <1>2 DEF Sums
  <2>2. \A i \in 0 .. Len(b) : h[i] = IF i = 0 THEN 0 ELSE h[i - 1] + b[i] * Power[i - 1]
    BY <1>1, <1>2 DEF Sums
  <2> QED
    BY <2>1, <2>2 DEF IsSum
<1> DEFINE sum == CHOOSE g : g = [i \in 0 .. Len(b) |->
                                  IF i = 0 THEN 0 ELSE g[i - 1] + b[i] * Power[i - 1]]
<1>4. Unsigned(b) = sum[Len(b)]
  BY DEF Unsigned
<1>5. IsSum(b, sum)
  BY <1>3 DEF IsSum
<1> HIDE DEF sum
<1>6. /\ sum[0] = 0
      /\ \A i \in 1 .. Len(b) : sum[i] = sum[i - 1] + b[i] * Power[i - 1]
      /\ sum = [i \in 0 .. Len(b) |-> sum[i]]
  <2>1. \A i \in 0 .. Len(b) : sum[i] = IF i = 0 THEN 0 ELSE sum[i - 1] + b[i] * Power[i - 1]
    BY <1>5 DEF IsSum
  <2>2. sum = [i \in 0 .. Len(b) |-> sum[i]]
    BY <1>5 DEF IsSum
  <2>3. sum[0] = 0
    BY <1>1, <2>1
  <2>4. \A i \in 1 .. Len(b) : sum[i] = sum[i - 1] + b[i] * Power[i - 1]
    <3> TAKE i \in 1 .. Len(b)
    <3>1. i \in 0 .. Len(b) /\ i # 0
      BY <1>1
    <3> QED
      BY <2>1, <3>1
  <2> QED
    BY <2>2, <2>3, <2>4
<1>7. \A i \in 0 .. Len(b) : sum[i] \in Int
  BY <1>1, <1>6, SumsTyped
<1>8. Sums(Len(b), b, sum)
  BY <1>6, <1>7 DEF Sums
<1> QED
  BY <1>4, <1>8

\* The sum of i bytes is less than the number of their values.
LEMMA SumsBounded ==
  ASSUME NEW m \in Nat, NEW f, NEW g, Sums(m, f, g), \A i \in 1 .. m : f[i] \in Byte
  PROVE  \A i \in 0 .. m : g[i] \in 0 .. Power[i] - 1
<1> DEFINE S == {k \in Nat : k <= m => g[k] \in 0 .. Power[k] - 1}
<1>1. 0 \in S
  BY PowerNat DEF Sums
<1>2. ASSUME NEW k \in Nat, k \in S PROVE k + 1 \in S
  <2> SUFFICES ASSUME k + 1 <= m PROVE g[k + 1] \in 0 .. Power[k + 1] - 1
    OBVIOUS
  <2> DEFINE p == Power[k]
             x == g[k]
             d == f[k + 1]
  <2>1. k + 1 \in 1 .. m /\ k + 1 - 1 = k
    OBVIOUS
  <2>2. p \in Nat \ {0} /\ x \in 0 .. p - 1 /\ d \in 0 .. Base - 1
    BY <1>2, <2>1, PowerNat, BaseIs DEF Byte
  <2>3. g[k + 1] = x + d * p /\ Power[k + 1] = Base * p
    <3>1. g[k + 1] = g[k + 1 - 1] + f[k + 1] * Power[k + 1 - 1]
      BY <2>1 DEF Sums
    <3>2. Power[k + 1] = Base * p
      BY PowerNat
    <3> QED
      BY <2>1, <3>1, <3>2
  <2> HIDE DEF p, x, d
  <2>4. d * p >= 0 /\ d * p <= (Base - 1) * p /\ d * p \in Int
    BY <2>2, BaseIs
  <2>5. (Base - 1) * p = Base * p - p /\ Base * p \in Int
    BY <2>2, BaseIs
  <2> QED
    BY <2>2, <2>3, <2>4, <2>5
<1> HIDE DEF S
<1>3. \A k \in Nat : k \in S
  BY <1>1, <1>2, Induction
<1> QED
  BY <1>3 DEF S

\* The sum of the i lowest digits of v is v modulo the number of their values.
LEMMA SumOfDigits ==
  ASSUME NEW v \in Int, NEW m \in Nat, NEW f, NEW g, Sums(m, f, g),
         \A i \in 1 .. m : f[i] = Digit(v, i)
  PROVE  \A i \in 0 .. m : g[i] = v % Power[i]
<1> DEFINE S == {k \in Nat : k <= m => g[k] = v % Power[k]}
<1>1. 0 \in S
  BY PowerNat DEF Sums
<1>2. ASSUME NEW k \in Nat, k \in S PROVE k + 1 \in S
  <2> SUFFICES ASSUME k + 1 <= m PROVE g[k + 1] = v % Power[k + 1]
    OBVIOUS
  <2> DEFINE p == Power[k]
             q == v \div p
             r == v % p
             q2 == q \div Base
             d == q % Base
  <2>1. k + 1 \in 1 .. m /\ k + 1 - 1 = k
    OBVIOUS
  <2>2. p \in Nat \ {0} /\ Power[k + 1] = Base * p
    BY PowerNat
  <2>3. g[k + 1] = r + d * p
    BY <1>2, <2>1 DEF Sums, Digit
  <2> HIDE DEF p
  <2>4. q \in Int /\ r \in 0 .. p - 1 /\ v = p * q + r
    BY <2>2, DivMod DEF Divides
  <2> HIDE DEF q, r
  <2>5. q2 \in Int /\ d \in 0 .. Base - 1 /\ q = Base * q2 + d
    BY <2>4, BaseIs, DivMod DEF Divides
  <2> HIDE DEF q2, d
  <2>6. v = (Base * p) * q2 + (r + d * p)
    <3>1. p * q = (Base * p) * q2 + d * p
      BY <2>2, <2>4, <2>5, BaseIs
    <3> QED
      BY <2>2, <2>4, <2>5, <3>1, BaseIs
  <2>7. d * p >= 0 /\ d * p <= (Base - 1) * p /\ d * p \in Int
    BY <2>2, <2>5, BaseIs
  <2>8. (Base - 1) * p = Base * p - p /\ Base * p \in Nat \ {0}
    BY <2>2, BaseIs
  <2>9. r + d * p \in 0 .. Base * p - 1
    BY <2>2, <2>4, <2>7, <2>8
  <2>10. v % (Base * p) = r + d * p
    BY <2>5, <2>6, <2>8, <2>9, DivModUnique
  <2> QED
    BY <2>2, <2>3, <2>10
<1> HIDE DEF S
<1>3. \A k \in Nat : k \in S
  BY <1>1, <1>2, Induction
<1> QED
  BY <1>3 DEF S

LEMMA BytesAre ==
  ASSUME NEW v \in Int, NEW w \in Nat
  PROVE  Bytes(v, w) \in Seq(Byte) /\ Len(Bytes(v, w)) = w
<1>1. \A i \in 1 .. w : Digit(v, i) \in Byte
  BY DigitByte
<1>2. Bytes(v, w) \in [1 .. w -> Byte]
  BY <1>1 DEF Bytes
<1> QED
  BY <1>2

\* The integer in the bytes of v is v, modulo the number of values of its type.
LEMMA UnsignedOfBytes ==
  ASSUME NEW v \in Int, NEW w \in Nat
  PROVE  Unsigned(Bytes(v, w)) = v % Power[w]
<1> DEFINE b == Bytes(v, w)
<1>1. b \in Seq(Byte) /\ Len(b) = w /\ \A i \in 1 .. w : b[i] = Digit(v, i)
  BY BytesAre DEF Bytes
<1> HIDE DEF b
<1>2. PICK g : Sums(w, b, g) /\ Unsigned(b) = g[w]
  BY <1>1, UnsignedIs
<1>3. g[w] = v % Power[w]
  BY <1>1, <1>2, SumOfDigits
<1> QED
  BY <1>2, <1>3 DEF b

LEMMA UnsignedBounded ==
  ASSUME NEW b \in Seq(Byte)
  PROVE  Unsigned(b) \in 0 .. Power[Len(b)] - 1
<1>1. PICK g : Sums(Len(b), b, g) /\ Unsigned(b) = g[Len(b)]
  BY UnsignedIs
<1>2. Len(b) \in Nat /\ \A i \in 1 .. Len(b) : b[i] \in Byte
  OBVIOUS
<1> QED
  BY <1>1, <1>2, SumsBounded

\* The bytes of an integer that differs from the one in b by a multiple of the
\* number of values are b.
LEMMA BytesOfUnsigned ==
  ASSUME NEW b \in Seq(Byte), NEW c \in Int
  PROVE  Bytes(Unsigned(b) + c * Power[Len(b)], Len(b)) = b
<1> DEFINE w == Len(b)
           u == Unsigned(b) + c * Power[w]
<1>1. PICK g : Sums(w, b, g) /\ Unsigned(b) = g[w]
  BY UnsignedIs
<1>2. w \in Nat /\ \A i \in 1 .. w : b[i] \in Byte
  OBVIOUS
<1>3. \A i \in 0 .. w : g[i] \in 0 .. Power[i] - 1
  BY <1>1, <1>2, SumsBounded
<1> DEFINE Splits(i) == \E k \in Int : u = g[i] + k * Power[i]
           S == {j \in Nat : j <= w => Splits(w - j)}
<1>4. 0 \in S
  BY <1>1, <1>2
<1>5. u \in Int
  <2>1. Power[w] \in Int
    BY <1>2, PowerNat
  <2>2. Unsigned(b) \in Int
    BY <1>1, <1>2 DEF Sums
  <2> QED
    BY <2>1, <2>2
<1> HIDE DEF w, u
<1>6. ASSUME NEW j \in Nat, j \in S PROVE j + 1 \in S
  <2> SUFFICES ASSUME j + 1 <= w PROVE Splits(w - (j + 1))
    OBVIOUS
  <2> DEFINE i == w - j
  <2>1. i \in 1 .. w /\ i - 1 \in Nat /\ w - (j + 1) = i - 1 /\ i - 1 + 1 = i
    BY <1>2
  <2>2. PICK k \in Int : u = g[i] + k * Power[i]
    <3>1. j <= w
      BY <1>2
    <3>2. Splits(w - j)
      BY <1>6, <3>1
    <3> QED
      BY <3>2
  <2> DEFINE p == Power[i - 1]
             x == g[i - 1]
             d == b[i]
  <2>3. p \in Nat \ {0} /\ Power[i] = Base * p
    BY <2>1, PowerNat
  <2>4. g[i] = x + d * p /\ x \in Int /\ d \in Int
    BY <1>2, <2>1, <1>1, BaseIs DEF Sums, Byte
  <2> HIDE DEF i, p, x, d
  <2>5. u = x + (d + k * Base) * p
    <3>1. k * (Base * p) = (k * Base) * p
      BY <2>3, BaseIs
    <3>2. (d + k * Base) * p = d * p + (k * Base) * p
      BY <2>3, <2>4, BaseIs
    <3>3. d * p \in Int /\ (k * Base) * p \in Int
      BY <2>3, <2>4, BaseIs
    <3> QED
      BY <2>2, <2>3, <2>4, <3>1, <3>2, <3>3
  <2>6. d + k * Base \in Int
    BY <2>4, BaseIs
  <2> QED
    BY <2>1, <2>5, <2>6 DEF x, p
<1> HIDE DEF S
<1>7. \A j \in Nat : j \in S
  BY <1>4, <1>6, Induction
<1>8. ASSUME NEW i \in 1 .. w PROVE Digit(u, i) = b[i]
  <2> DEFINE p == Power[i - 1]
             x == g[i - 1]
             d == b[i]
  <2>1. /\ i \in Nat /\ i - 1 \in Nat /\ i - 1 + 1 = i /\ i - 1 \in 0 .. w
        /\ w - i \in Nat /\ w - i <= w /\ w - (w - i) = i
    BY <1>2
  <2>2. PICK k \in Int : u = g[i] + k * Power[i]
    <3>1. w - i \in S
      BY <1>7, <2>1
    <3>2. Splits(w - (w - i))
      BY <2>1, <3>1 DEF S
    <3> QED
      BY <2>1, <3>2
  <2>3. p \in Nat \ {0} /\ Power[i] = Base * p
    BY <2>1, PowerNat
  <2>4. g[i] = x + d * p /\ x \in 0 .. p - 1 /\ d \in 0 .. Base - 1
    BY <1>1, <1>2, <1>3, <2>1 DEF Sums, Byte
  <2>5. Digit(u, i) = (u \div p) % Base
    BY DEF Digit
  <2> HIDE DEF p, x, d
  <2>6. u = p * (Base * k + d) + x /\ Base * k + d \in Int
    <3>1. k * (Base * p) = p * (Base * k)
      BY <2>3, BaseIs
    <3>2. p * (Base * k + d) = p * (Base * k) + d * p
      BY <2>3, <2>4, BaseIs
    <3>3. d * p \in Int /\ p * (Base * k) \in Int
      BY <2>3, <2>4, BaseIs
    <3> QED
      BY <2>2, <2>3, <2>4, <3>1, <3>2, <3>3, BaseIs
  <2>7. u \div p = Base * k + d
    BY <1>5, <2>3, <2>4, <2>6, DivModUnique
  <2>8. (Base * k + d) % Base = d
    <3> DEFINE a == Base * k + d
    <3>1. a \in Int /\ a = Base * k + d /\ Base \in Nat \ {0}
      BY <2>6, BaseIs
    <3> HIDE DEF a
    <3>2. a % Base = d
      BY <2>4, <3>1, DivModUnique
    <3> QED
      BY <3>2 DEF a
  <2> QED
    BY <2>5, <2>7, <2>8 DEF d
<1>9. Bytes(u, w) = [i \in 1 .. w |-> b[i]]
  BY <1>8 DEF Bytes
<1>10. b = [i \in 1 .. w |-> b[i]]
  BY DEF w
<1> QED
  BY <1>9, <1>10 DEF u, w

\* Element i, byte k of a list whose elements have w bytes are at one position.
LEMMA PositionOf ==
  ASSUME NEW w \in Nat \ {0}, NEW n \in Nat, NEW i \in 1 .. n, NEW k \in 1 .. w
  PROVE  /\ (i - 1) * w + k \in 1 .. n * w
         /\ ((i - 1) * w + k - 1) \div w = i - 1
         /\ ((i - 1) * w + k - 1) % w = k - 1
<1> DEFINE j == (i - 1) * w + k
<1>1. i - 1 \in Nat /\ i - 1 \in 0 .. n - 1 /\ k - 1 \in 0 .. w - 1
  OBVIOUS
<1>2. (i - 1) * w \in Nat /\ (i - 1) * w = w * (i - 1)
  BY <1>1
<1>3. (i - 1) * w <= (n - 1) * w
  BY <1>1
<1>4. (n - 1) * w = n * w - w /\ n * w \in Nat
  OBVIOUS
<1>5. j \in Int /\ j >= 1 /\ j <= n * w
  BY <1>2, <1>3, <1>4
<1>6. j - 1 \in Int /\ j - 1 = w * (i - 1) + (k - 1)
  BY <1>2, <1>5
<1>7. j \in 1 .. n * w
  BY <1>4, <1>5
<1> DEFINE a == j - 1
           q == i - 1
           r == k - 1
<1>8. a \in Int /\ q \in Int /\ r \in 0 .. w - 1 /\ a = w * q + r
  BY <1>1, <1>6
<1> HIDE DEF a, q, r
<1>9. a \div w = q /\ a % w = r
  BY <1>8, DivModUnique
<1> QED
  BY <1>7, <1>9 DEF a, q, r, j

\* A part of a sequence of bytes.
LEMMA Part ==
  ASSUME NEW bytes \in Seq(Byte), NEW w \in Nat \ {0}, NEW n \in Nat, Len(bytes) = n * w,
         NEW i \in 1 .. n
  PROVE  /\ SubSeq(bytes, (i - 1) * w + 1, i * w) \in Seq(Byte)
         /\ Len(SubSeq(bytes, (i - 1) * w + 1, i * w)) = w
         /\ \A k \in 1 .. w : SubSeq(bytes, (i - 1) * w + 1, i * w)[k] = bytes[(i - 1) * w + k]
<1> DEFINE p == (i - 1) * w + 1
           e == i * w
           s == SubSeq(bytes, p, e)
<1>1. i - 1 \in Nat /\ (i - 1) * w \in Nat /\ i * w = (i - 1) * w + w
  OBVIOUS
<1>2. i * w <= n * w /\ n * w \in Nat /\ i * w \in Nat
  OBVIOUS
<1>3. p \in Int /\ e \in Int /\ p >= 1 /\ e = p - 1 + w /\ e <= Len(bytes)
  BY <1>1, <1>2
<1>4. \A j \in 1 .. Len(bytes) : bytes[j] \in Byte
  OBVIOUS
<1> HIDE DEF p, e
<1>5. \A j \in p .. e : bytes[j] \in Byte
  BY <1>3, <1>4
<1>6. /\ s \in Seq(Byte)
      /\ Len(s) = IF p <= e THEN e - p + 1 ELSE 0
      /\ \A k \in 1 .. e - p + 1 : s[k] = bytes[p + k - 1]
  BY <1>3, <1>5, SubSeqProperties
<1> HIDE DEF s
<1>7. Len(s) = w /\ e - p + 1 = w
  BY <1>3, <1>6
<1>8. \A k \in 1 .. w : s[k] = bytes[p + k - 1] /\ p + k - 1 = (i - 1) * w + k
  BY <1>1, <1>3, <1>6, <1>7 DEF p
<1> QED
  BY <1>6, <1>7, <1>8 DEF s, p, e

\* The integers unpack pushes: those of the type's range that the bytes stand for.
LEMMA PushedIs ==
  ASSUME NEW t, NEW b \in Seq(Byte), Len(b) = SizeOf(t)
  PROVE  /\ Pushed(t, b) \in Low(t) .. Low(t) + Power[SizeOf(t)] - 1
         /\ \E c \in Int : Pushed(t, b) = Unsigned(b) + c * Power[SizeOf(t)]
<1> DEFINE w == SizeOf(t)
           m == Power[w]
           u == Unsigned(b)
           h == m \div 2
<1>1. w \in Nat /\ w - 1 \in Nat /\ w - 1 + 1 = w
  BY SizeOfNat
<1>2. m \in Nat \ {0} /\ Power[w - 1] \in Int /\ m = Base * Power[w - 1]
  <2> HIDE DEF w
  <2>1. Power[w] \in Nat \ {0} /\ Power[w - 1] \in Nat \ {0}
    BY <1>1, PowerNat
  <2>2. Power[w - 1 + 1] = Base * Power[w - 1]
    BY <1>1, PowerNat
  <2> QED
    BY <1>1, <2>1, <2>2
<1>3. m = 2 * h /\ h \in Nat
  <2>1. PICK c \in Int : Base = 2 * c
    <3>1. Base \in Int /\ Base % 2 = 0
      BY DataHandlingAssumption
    <3>2. Base = 2 * (Base \div 2) /\ Base \div 2 \in Int
      BY <3>1
    <3> QED
      BY <3>2
  <2>2. m = 2 * (c * Power[w - 1]) /\ c * Power[w - 1] \in Int
    BY <1>2, <2>1
  <2> DEFINE d == c * Power[w - 1]
  <2>3. m = 2 * d /\ d \in Int /\ m \in Nat
    BY <1>2, <2>2
  <2> HIDE DEF m, d
  <2> QED
    BY <2>3
<1>4. u \in 0 .. m - 1
  BY UnsignedBounded
<1>5. TwosComplement(b) = IF 2 * u >= m THEN u - m ELSE u
  BY DEF TwosComplement
<1>6. Low(t) = IF Signed(t) \/ t = "ulong" THEN -h ELSE 0
  BY DEF Low
<1>7. Pushed(t, b) = IF Signed(t) \/ t = "ulong" THEN TwosComplement(b) ELSE u
  BY DEF Pushed
<1> HIDE DEF w, m, u, h
<1>8. \/ Pushed(t, b) = u + 0 * m
      \/ Pushed(t, b) = u + (-1) * m
  BY <1>2, <1>4, <1>5, <1>7
<1>9. Pushed(t, b) \in Low(t) .. Low(t) + m - 1
  BY <1>2, <1>3, <1>4, <1>5, <1>6, <1>7
<1>10. \E c \in Int : Pushed(t, b) = u + c * m
  BY <1>8
<1> QED
  BY <1>9, <1>10 DEF w, m, u

\* What PACK stores of integers: the bytes of each, one after the other.
LEMMA PackedIs ==
  ASSUME NEW t, NEW v \in Seq(Int)
  PROVE  /\ ~ IsFaulty(v)
         /\ Packed(t, v) \in Seq(Byte)
         /\ Len(Packed(t, v)) = Len(v) * SizeOf(t)
         /\ \A j \in 1 .. Len(v) * SizeOf(t) :
              Packed(t, v)[j] =
                Bytes(v[((j - 1) \div SizeOf(t)) + 1], SizeOf(t))[((j - 1) % SizeOf(t)) + 1]
<1> DEFINE w == SizeOf(t)
           n == Len(v)
           s == [i \in 1 .. n |-> Bytes(ToInteger(v[i]), w)]
<1>1. w \in Nat \ {0} /\ n \in Nat
  BY SizeOfNat
<1>2. \A i \in 1 .. n : v[i] \in Int
  OBVIOUS
<1>3. \A i \in 1 .. n : v[i] # NotNumber /\ ToInteger(v[i]) = v[i]
  BY <1>2, DataHandlingAssumption DEF ToInteger
<1>4. ~ IsFaulty(v)
  BY <1>3 DEF IsFaulty
<1>5. Stored(v) = n
  BY <1>1, <1>4, StoredIs
<1>6. /\ Packed(t, v) \in Seq(Byte)
      /\ Len(Packed(t, v)) = n * w
  BY <1>1, <1>2, <1>5, PackedBytes
<1>7. Len(s) = n
  BY <1>1
<1> HIDE DEF s
<1>8. Packed(t, v) = [j \in 1 .. n * w |-> s[((j - 1) \div w) + 1][((j - 1) % w) + 1]]
  BY <1>5, <1>7 DEF Packed, Concat, s
<1>9. \A i \in 1 .. n : s[i] = Bytes(v[i], w)
  BY <1>3 DEF s
<1> HIDE DEF w, n
<1>10. ASSUME NEW j \in 1 .. n * w
       PROVE  Packed(t, v)[j] = Bytes(v[((j - 1) \div w) + 1], w)[((j - 1) % w) + 1]
  <2>1. ((j - 1) \div w) + 1 \in 1 .. n
    BY <1>1, Position
  <2>2. s[((j - 1) \div w) + 1] = Bytes(v[((j - 1) \div w) + 1], w)
    BY <1>9, <2>1
  <2>3. Packed(t, v)[j] = s[((j - 1) \div w) + 1][((j - 1) % w) + 1]
    BY <1>8
  <2> QED
    BY <2>2, <2>3
<1> QED
  BY <1>4, <1>6, <1>10 DEF w, n

\* For every number of values of a byte, every type and all integers, unpack of
\* pack returns the integers of the type's range that are equal to them modulo the
\* number of values of the type.
THEOREM UnpackOfPack ==
  ASSUME NEW t \in Type, NEW v \in Seq(Int), v # <<>>
  PROVE  PackUnpack(t, v)
<1> DEFINE w == SizeOf(t)
           n == Len(v)
           bytes == Packed(t, v)
           u == Unpacked(t, bytes)
           m == Power[w]
<1>1. w \in Nat \ {0} /\ n \in Nat \ {0}
  <2>1. n # 0
    BY EmptySeq
  <2> QED
    BY <2>1, SizeOfNat
<1>2. /\ bytes \in Seq(Byte) /\ Len(bytes) = n * w
      /\ \A j \in 1 .. n * w : bytes[j] = Bytes(v[((j - 1) \div w) + 1], w)[((j - 1) % w) + 1]
  BY PackedIs
<1>3. \A i \in 1 .. n : v[i] \in Int
  OBVIOUS
<1>4. u = [i \in 1 .. Len(bytes) \div w |-> Pushed(t, SubSeq(bytes, (i - 1) * w + 1, i * w))]
  BY DEF Unpacked
<1>5. UnpackableLength(t, bytes) <=> Len(bytes) >= w /\ Len(bytes) % w = 0
  BY DEF UnpackableLength
<1>6. PackUnpack(t, v) <=>
        /\ UnpackableLength(t, bytes)
        /\ Len(u) = n
        /\ \A i \in 1 .. n : u[i] \in Low(t) .. Low(t) + m - 1 /\ (u[i] - v[i]) % m = 0
  BY DEF PackUnpack
<1>7. m \in Nat \ {0}
  BY <1>1, PowerNat
<1>8. \A b \in Seq(Byte) : Len(b) = w =>
        /\ Pushed(t, b) \in Low(t) .. Low(t) + m - 1
        /\ \E c \in Int : Pushed(t, b) = Unsigned(b) + c * m
  BY PushedIs
<1> HIDE DEF w, n, bytes, u, m
<1>9. Len(bytes) \div w = n /\ Len(bytes) % w = 0 /\ Len(bytes) >= w
  <2>1. n * w \in Int /\ n * w = w * n + 0 /\ n * w >= w
    BY <1>1
  <2>2. (n * w) \div w = n /\ (n * w) % w = 0
    BY <1>1, <2>1, DivModUnique
  <2> QED
    BY <1>2, <2>1, <2>2
<1>10. u = [i \in 1 .. n |-> Pushed(t, SubSeq(bytes, (i - 1) * w + 1, i * w))]
  BY <1>4, <1>9
<1>11. Len(u) = n
  BY <1>1, <1>10
<1>12. ASSUME NEW i \in 1 .. n
       PROVE  u[i] \in Low(t) .. Low(t) + m - 1 /\ (u[i] - v[i]) % m = 0
  <2> DEFINE b == SubSeq(bytes, (i - 1) * w + 1, i * w)
  <2>1. v[i] \in Int
    BY <1>3
  <2>2. /\ b \in Seq(Byte) /\ Len(b) = w
        /\ \A k \in 1 .. w : b[k] = bytes[(i - 1) * w + k]
    BY <1>1, <1>2, Part
  <2>3. u[i] = Pushed(t, b)
    BY <1>10
  <2> HIDE DEF b
  <2>4. ASSUME NEW k \in 1 .. w PROVE b[k] = Bytes(v[i], w)[k]
    <3> DEFINE j == (i - 1) * w + k
    <3>1. j \in 1 .. n * w /\ (j - 1) \div w = i - 1 /\ (j - 1) % w = k - 1
      BY <1>1, PositionOf
    <3>2. b[k] = bytes[j]
      BY <2>2
    <3> HIDE DEF j
    <3>3. bytes[j] = Bytes(v[i - 1 + 1], w)[k - 1 + 1]
      BY <1>2, <3>1
    <3>4. i - 1 + 1 = i /\ k - 1 + 1 = k
      BY <1>1
    <3> QED
      BY <3>2, <3>3, <3>4
  <2>5. b = Bytes(v[i], w)
    <3>1. b = [k \in 1 .. w |-> b[k]]
      BY <2>2
    <3>2. Bytes(v[i], w) = [k \in 1 .. w |-> Bytes(v[i], w)[k]]
      BY DEF Bytes
    <3> QED
      BY <2>4, <3>1, <3>2
  <2>6. Unsigned(b) = v[i] % m
    BY <1>1, <2>1, <2>5, UnsignedOfBytes DEF m
  <2>7. PICK c \in Int : u[i] = Unsigned(b) + c * m
    BY <1>8, <2>2, <2>3
  <2> DEFINE x == v[i]
             q == x \div m
             r == x % m
  <2>8. q \in Int /\ r \in 0 .. m - 1 /\ x = m * q + r
    BY <1>7, <2>1, DivMod DEF Divides
  <2>9. u[i] = r + c * m
    BY <2>6, <2>7
  <2> HIDE DEF x, q, r
  <2>10. u[i] - x = m * (c - q) + 0 /\ c - q \in Int /\ u[i] - x \in Int
    BY <1>7, <2>8, <2>9
  <2> DEFINE a == u[i] - x
             d == c - q
  <2>11. a \in Int /\ d \in Int /\ a = m * d + 0 /\ 0 \in 0 .. m - 1
    BY <1>7, <2>10
  <2> HIDE DEF a, d
  <2>12. a % m = 0
    BY <1>7, <2>11, DivModUnique
  <2>13. u[i] \in Low(t) .. Low(t) + m - 1
    BY <1>8, <2>2, <2>3
  <2> QED
    BY <2>12, <2>13 DEF a, x
<1> QED
  BY <1>5, <1>6, <1>9, <1>11, <1>12

\* For every number of values of a byte, every type and all data of a right length,
\* pack of unpack returns the data: no bit is lost, and none is invented.
THEOREM PackOfUnpack ==
  ASSUME NEW t \in Type, NEW bytes \in Seq(Byte)
  PROVE  UnpackPack(t, bytes)
<1> DEFINE w == SizeOf(t)
           n == Len(bytes) \div w
           u == Unpacked(t, bytes)
           m == Power[w]
<1>1. SUFFICES ASSUME Len(bytes) % w = 0 PROVE Packed(t, u) = bytes
  BY DEF UnpackPack, UnpackableLength
<1>2. w \in Nat \ {0} /\ Len(bytes) \in Nat
  BY SizeOfNat
<1>3. n \in Int /\ Len(bytes) = w * n + 0
  <2> DEFINE z == Len(bytes)
  <2>1. z \in Int /\ z % w = 0
    BY <1>1, <1>2
  <2> HIDE DEF w, z
  <2>2. Divides(z, w, z \div w, z % w)
    BY <1>2, <2>1, DivMod
  <2>3. z \div w \in Int /\ z = w * (z \div w) + 0
    BY <2>1, <2>2, Zenon DEF Divides
  <2> QED
    BY <2>3 DEF z
<1>4. u = [i \in 1 .. n |-> Pushed(t, SubSeq(bytes, (i - 1) * w + 1, i * w))]
  BY DEF Unpacked
<1>5. m \in Nat \ {0}
  BY <1>2, PowerNat
<1>6. \A b \in Seq(Byte) : Len(b) = w =>
        /\ Pushed(t, b) \in Low(t) .. Low(t) + m - 1
        /\ \E c \in Int : Pushed(t, b) = Unsigned(b) + c * m
  BY PushedIs
<1>7. \A v \in Seq(Int) :
        /\ Packed(t, v) \in Seq(Byte) /\ Len(Packed(t, v)) = Len(v) * w
        /\ \A j \in 1 .. Len(v) * w :
             Packed(t, v)[j] = Bytes(v[((j - 1) \div w) + 1], w)[((j - 1) % w) + 1]
  BY PackedIs
<1> HIDE DEF w, n, u
<1>8. n \in Nat /\ Len(bytes) = n * w
  <2>1. n >= 0
    <3>1. SUFFICES ASSUME n < 0 PROVE FALSE
      BY <1>3
    <3>2. w * n < 0
      BY <1>2, <1>3, <3>1
    <3> QED
      BY <1>2, <1>3, <3>2
  <2> QED
    BY <1>2, <1>3, <2>1
<1> DEFINE b(i) == SubSeq(bytes, (i - 1) * w + 1, i * w)
<1>9. ASSUME NEW i \in 1 .. n
      PROVE  /\ b(i) \in Seq(Byte) /\ Len(b(i)) = w
             /\ \A k \in 1 .. w : b(i)[k] = bytes[(i - 1) * w + k]
  BY <1>2, <1>8, Part
<1>10. \A i \in 1 .. n : u[i] = Pushed(t, b(i))
  BY <1>4
<1> HIDE DEF b
<1>11. ASSUME NEW i \in 1 .. n
       PROVE  u[i] \in Int /\ Bytes(u[i], w) = b(i)
  <2>1. b(i) \in Seq(Byte) /\ Len(b(i)) = w /\ u[i] = Pushed(t, b(i))
    BY <1>9, <1>10
  <2>2. PICK c \in Int : u[i] = Unsigned(b(i)) + c * m
    BY <1>6, <2>1
  <2>3. Unsigned(b(i)) \in 0 .. Power[Len(b(i))] - 1
    BY <2>1, UnsignedBounded
  <2>4. Unsigned(b(i)) \in Int
    BY <1>5, <2>1, <2>3
  <2>5. u[i] \in Int
    BY <1>5, <2>2, <2>4
  <2>6. Bytes(Unsigned(b(i)) + c * Power[Len(b(i))], Len(b(i))) = b(i)
    BY <2>1, BytesOfUnsigned
  <2> QED
    BY <2>1, <2>2, <2>5, <2>6
<1>12. u \in Seq(Int) /\ Len(u) = n
  <2>1. u \in [1 .. n -> Int]
    BY <1>4, <1>11
  <2> QED
    BY <1>8, <2>1
<1>13. /\ Packed(t, u) \in Seq(Byte) /\ Len(Packed(t, u)) = n * w
       /\ \A j \in 1 .. n * w :
            Packed(t, u)[j] = Bytes(u[((j - 1) \div w) + 1], w)[((j - 1) % w) + 1]
  BY <1>7, <1>12
<1>14. ASSUME NEW j \in 1 .. n * w PROVE Packed(t, u)[j] = bytes[j]
  <2> DEFINE a == j - 1
             q == a \div w
             r == a % w
             i == q + 1
             k == r + 1
  <2>1. i \in 1 .. n /\ k \in 1 .. w
    BY <1>2, <1>8, Position
  <2>2. a \in Int
    BY <1>2, <1>8
  <2>3. Packed(t, u)[j] = Bytes(u[i], w)[k]
    BY <1>13
  <2> HIDE DEF a
  <2>4. q \in Int /\ r \in 0 .. w - 1 /\ a = w * q + r
    BY <1>2, <2>2, DivMod DEF Divides
  <2> HIDE DEF q, r
  <2>5. (i - 1) * w + k = a + 1
    <3>1. i - 1 = q /\ q * w = w * q /\ w * q \in Int
      BY <1>2, <2>4
    <3> QED
      BY <2>4, <3>1
  <2> HIDE DEF i, k
  <2>6. Bytes(u[i], w) = b(i) /\ b(i)[k] = bytes[(i - 1) * w + k]
    BY <1>9, <1>11, <2>1
  <2>7. a + 1 = j
    BY <1>2, <1>8 DEF a
  <2> QED
    BY <2>3, <2>5, <2>6, <2>7
<1>15. /\ Packed(t, u) = [j \in 1 .. n * w |-> Packed(t, u)[j]]
       /\ bytes = [j \in 1 .. n * w |-> bytes[j]]
  BY <1>8, <1>13
<1> QED
  BY <1>14, <1>15

-----------------------------------------------------------------------------
(* Calls.                                                                  *)

\* The calls, in any order.
ReqSpec == ReqInit /\ [][ReqNext]_reqVars

-----------------------------------------------------------------------------
(* The frames of a call.                                                   *)

Converted ==
  {"buffer", "ports", "list", "bos", "device", "config", "interface", "altsetting",
   "endpoint", "companion"}

FrameType == [at : Converted, left : Int]

\* How deep a part of a descriptor lies in that of a device; the others are no parts.
Depth(f) ==
  IF f = "device" THEN 0
  ELSE IF f = "config" THEN 1
  ELSE IF f = "interface" THEN 2
  ELSE IF f = "altsetting" THEN 3
  ELSE IF f \in {"endpoint", "companion"} THEN 4
  ELSE -1

\* The values on the stack, above the arguments, while part f is converted within
\* that of a device.
Height(f) ==
  IF f = "device" THEN 2
  ELSE IF f = "config" THEN 4
  ELSE IF f = "interface" THEN 5
  ELSE IF f = "altsetting" THEN 7
  ELSE IF f = "endpoint" THEN 8
  ELSE 9

\* What the functions that convert f and what it lies in have to free.
HeldAt(f) ==
  (IF Depth(f) >= 1 THEN {"config"} ELSE {}) \cup (IF f = "companion" THEN {"companion"} ELSE {})

\* The innermost part, of those that are nested from depth d on.
NestedFrom(d) ==
  /\ \A i \in 1 .. Len(frames) : Depth(frames[i].at) = d + i - 1
  /\ held = HeldAt(Top.at)
  /\ top = nargs + Height(Top.at) - 2 * d
  /\ results = 1

\* Descriptors, which start with a device's or a configuration's.
Nested == NestedFrom(0) \/ NestedFrom(1)

\* The conversions that have no parts.
Alone ==
  /\ Len(frames) = 1
  /\ \/ Top.at = "buffer" /\ held = {"memory"} /\ top = nargs /\ results = 1
     \/ Top.at = "ports" /\ held = {"memory"} /\ top \in nargs .. nargs + 1 /\ results = 1
     \/ Top.at = "list" /\ held = {"memory"} /\ top = nargs /\ results = nargs - 2
          /\ nargs \in 2 .. 3
     \/ Top.at = "bos" /\ held = {"bos"} /\ top = nargs + 2 /\ results = 1

\* The inductive invariant: what is held and the height of the stack follow from the
\* part under conversion and from where the nesting starts.
CallInv ==
  /\ frames \in Seq(FrameType)
  /\ nargs \in Nat /\ results \in Int /\ top \in Int
  /\ Idle => /\ held = {}
             /\ top \in nargs .. nargs + 1
             /\ outcome = "returned" => top = nargs + results
  /\ ~ Idle => /\ outcome = "none"
               /\ Nested \/ Alone

\* The sequences that steps make of the frames.
LEMMA OuterIs ==
  ASSUME frames \in Seq(FrameType), ~ Idle
  PROVE  /\ Len(frames) \in Nat \ {0}
         /\ Top \in FrameType
         /\ Outer \in Seq(FrameType)
         /\ Len(Outer) = Len(frames) - 1
         /\ \A i \in 1 .. Len(Outer) : Outer[i] = frames[i]
<1>1. Len(frames) \in Nat \ {0}
  BY EmptySeq DEF Idle
<1>2. Top \in FrameType
  BY <1>1 DEF Top
<1> DEFINE n == Len(frames) - 1
<1>3. n \in Nat /\ n + 1 = Len(frames)
  BY <1>1
<1> HIDE DEF n
<1>4. \A i \in 1 .. n : frames[i] \in FrameType
  BY <1>3
<1>5. /\ SubSeq(frames, 1, n) \in Seq(FrameType)
      /\ Len(SubSeq(frames, 1, n)) = IF 1 <= n THEN n - 1 + 1 ELSE 0
      /\ \A i \in 1 .. n - 1 + 1 : SubSeq(frames, 1, n)[i] = frames[1 + i - 1]
  BY <1>3, <1>4, SubSeqProperties
<1>6. Outer = SubSeq(frames, 1, n)
  BY DEF Outer, n
<1>7. /\ Len(Outer) = n
      /\ \A i \in 1 .. n : Outer[i] = frames[i]
  BY <1>3, <1>5, <1>6
<1> QED
  BY <1>1, <1>2, <1>5, <1>6, <1>7 DEF n

LEMMA PartPushed ==
  ASSUME NEW s \in Seq(FrameType), NEW f \in FrameType
  PROVE  /\ Append(s, f) \in Seq(FrameType)
         /\ Len(Append(s, f)) = Len(s) + 1
         /\ \A i \in 1 .. Len(s) : Append(s, f)[i] = s[i]
         /\ Append(s, f)[Len(s) + 1] = f
OBVIOUS

LEMMA OneLess ==
  ASSUME NEW f \in FrameType
  PROVE  [f EXCEPT !.left = @ - 1] \in FrameType /\ [f EXCEPT !.left = @ - 1].at = f.at
BY DEF FrameType

LEMMA IntoIs ==
  ASSUME frames \in Seq(FrameType), ~ Idle, NEW f \in Converted, NEW n \in Int
  PROVE  /\ Into(f, n) \in Seq(FrameType)
         /\ Len(Into(f, n)) = Len(frames) + 1
         /\ \A i \in 1 .. Len(frames) : Into(f, n)[i].at = frames[i].at
         /\ Into(f, n)[Len(frames) + 1].at = f
<1> DEFINE t == [Top EXCEPT !.left = @ - 1]
           s == Append(Outer, t)
           g == Frame(f, n)
<1>1. /\ Len(frames) \in Nat \ {0}
      /\ Top \in FrameType
      /\ Outer \in Seq(FrameType)
      /\ Len(Outer) = Len(frames) - 1
      /\ \A i \in 1 .. Len(Outer) : Outer[i] = frames[i]
  BY OuterIs
<1>2. t \in FrameType /\ t.at = Top.at
  BY <1>1, OneLess
<1>3. g \in FrameType /\ g.at = f
  BY DEF Frame, FrameType
<1>4. Into(f, n) = Append(s, g)
  BY DEF Into
<1> HIDE DEF t, g
<1>5. /\ s \in Seq(FrameType) /\ Len(s) = Len(frames)
      /\ \A i \in 1 .. Len(Outer) : s[i] = frames[i]
      /\ s[Len(frames)] = t
  BY <1>1, <1>2, PartPushed
<1> HIDE DEF s
<1>6. /\ Append(s, g) \in Seq(FrameType) /\ Len(Append(s, g)) = Len(frames) + 1
      /\ \A i \in 1 .. Len(frames) : Append(s, g)[i] = s[i]
      /\ Append(s, g)[Len(frames) + 1] = g
  BY <1>3, <1>5, PartPushed
<1>7. \A i \in 1 .. Len(frames) : s[i].at = frames[i].at
  <2> TAKE i \in 1 .. Len(frames)
  <2>1. CASE i = Len(frames)
    BY <1>2, <1>5, <2>1 DEF Top
  <2>2. CASE i # Len(frames)
    <3>1. i \in 1 .. Len(Outer)
      BY <1>1, <2>2
    <3> QED
      BY <1>1, <1>5, <3>1
  <2> QED
    BY <2>1, <2>2
<1> QED
  BY <1>3, <1>4, <1>6, <1>7

-----------------------------------------------------------------------------
(* One step.                                                               *)

\* What a step promises: it keeps the invariant, and leaves nothing unfreed but a
\* configuration in which a code without a name is found.
CallFreed ==
  /\ Idle' => held' = {}
  /\ leaked' # leaked =>
       /\ leaked' = leaked \cup {"config"} /\ outcome' = "raised"
       /\ At("interface") \/ At("altsetting")

Good == CallInv' /\ CallFreed

\* A call that answers or raises an error at once.
LEMMA AnswersStep ==
  ASSUME CallInv, Idle, NEW n \in Nat, NEW k \in 0 .. 1, Answers(n, k)
  PROVE  Good
<1>1. /\ nargs' = n /\ top' = n + k /\ results' = k /\ outcome' = "returned"
      /\ frames' = frames /\ held' = held /\ leaked' = leaked
  BY DEF Answers
<1>2. held = {} /\ frames \in Seq(FrameType)
  BY DEF CallInv
<1>3. k \in Int /\ n + k \in n .. n + 1
  OBVIOUS
<1>4. CallInv'
  BY <1>1, <1>2, <1>3 DEF CallInv, Idle
<1> QED
  BY <1>1, <1>2, <1>4 DEF Good, CallFreed

\* An error, when all that is held is freed.
LEMMA RaiseStep ==
  ASSUME CallInv, NEW n \in Nat, NEW S, NEW e, held \subseteq S, RaiseIn(n, S, e)
  PROVE  Good
<1>1. /\ frames' = <<>> /\ nargs' = n /\ top' = n /\ held' = {}
      /\ leaked' = leaked \cup (held \ S) /\ outcome' = "raised" /\ results' = results
  BY DEF RaiseIn
<1>2. leaked' = leaked
  BY <1>1
<1>3. CallInv'
  BY <1>1 DEF CallInv, Idle
<1> QED
  BY <1>1, <1>2, <1>3 DEF Good, CallFreed

LEMMA FailsStep ==
  ASSUME CallInv, NEW n \in Nat, NEW S, held \subseteq S, Fails(n, S)
  PROVE  Good
BY RaiseStep DEF Fails

\* The configuration that is not freed.
LEMMA UnnamedStep ==
  ASSUME CallInv, held = {"config"}, At("interface") \/ At("altsetting"), NEW e, Raise({}, e)
  PROVE  Good
<1>1. /\ frames' = <<>> /\ nargs' = nargs /\ top' = nargs /\ held' = {}
      /\ leaked' = leaked \cup {"config"} /\ outcome' = "raised" /\ results' = results
  BY DEF Raise, RaiseIn
<1>2. CallInv'
  BY <1>1 DEF CallInv, Idle
<1> QED
  BY <1>1, <1>2 DEF Good, CallFreed

\* A call returns, and frees what it holds.
LEMMA ReturnStep ==
  ASSUME CallInv, ~ Idle, NEW S, NEW k \in Int, held \subseteq S, Return(S, k),
         top + k = nargs + results, results \in 0 .. 1
  PROVE  Good
<1>1. /\ frames' = <<>> /\ top' = top + k /\ held' = {}
      /\ leaked' = leaked \cup (held \ S) /\ outcome' = "returned"
      /\ nargs' = nargs /\ results' = results
  BY DEF Return
<1>2. leaked' = leaked
  BY <1>1
<1>3. CallInv'
  BY <1>1 DEF CallInv, Idle
<1> QED
  BY <1>1, <1>2, <1>3 DEF Good, CallFreed

\* The state of a single frame.
LEMMA SingleFrame ==
  ASSUME NEW f \in FrameType, frames' = <<f>>
  PROVE  /\ frames' \in Seq(FrameType) /\ Len(frames)' = 1 /\ ~ Idle' /\ Top' = f
         /\ \A i \in 1 .. Len(frames)' : i = 1 /\ frames'[i] = f
BY EmptySeq DEF Idle, Top

\* A call starts with the conversion of f.
LEMMA EnterStep ==
  ASSUME CallInv, Idle, NEW n \in Nat, NEW f \in Converted, NEW left \in Int, NEW k \in Int,
         Enter(n, Frame(f, left), k),
         \/ f = "buffer" /\ k = 0 /\ held' = {"memory"}
         \/ f = "ports" /\ k = 0 /\ held' = {"memory"}
         \/ f = "list" /\ k = 0 /\ held' = {"memory"} /\ n \in 2 .. 3
         \/ f = "bos" /\ k = 2 /\ held' = {"bos"}
         \/ f = "device" /\ k = 2 /\ held' = {}
         \/ f = "config" /\ k = 2 /\ held' = {"config"}
  PROVE  Good
<1> DEFINE g == Frame(f, left)
<1>1. g \in FrameType /\ g.at = f
  BY DEF Frame, FrameType
<1>2. /\ frames' = <<g>> /\ nargs' = n /\ top' = n + k
      /\ results' = IF f = "list" THEN n - 2 ELSE 1
      /\ outcome' = "none" /\ leaked' = leaked
  BY <1>1 DEF Enter
<1> HIDE DEF g
<1>3. /\ frames' \in Seq(FrameType) /\ Len(frames)' = 1 /\ ~ Idle' /\ Top' = g
      /\ \A i \in 1 .. Len(frames)' : i = 1 /\ frames'[i] = g
  BY <1>1, <1>2, SingleFrame
<1>4. CASE f = "device"
  <2>1. NestedFrom(0)'
    BY <1>1, <1>2, <1>3, <1>4 DEF NestedFrom, Depth, Height, HeldAt
  <2> QED
    BY <1>2, <1>3, <2>1 DEF Good, CallInv, CallFreed, Nested
<1>5. CASE f = "config"
  <2>1. NestedFrom(1)'
    BY <1>1, <1>2, <1>3, <1>5 DEF NestedFrom, Depth, Height, HeldAt
  <2>2. results' \in Int /\ top' \in Int
    BY <1>2, <1>5
  <2> QED
    BY <1>2, <1>3, <2>1, <2>2 DEF Good, CallInv, CallFreed, Nested
<1>6. CASE f \in {"buffer", "ports", "list", "bos"}
  <2>1. Alone'
    BY <1>1, <1>2, <1>3, <1>6 DEF Alone
  <2>2. results' \in Int /\ top' \in Int
    BY <1>2, <1>6
  <2> QED
    BY <1>2, <1>3, <2>1, <2>2 DEF Good, CallInv, CallFreed
<1> QED
  BY <1>4, <1>5, <1>6

\* The conversion goes on with the frames fs, in a descriptor.
LEMMA NestedStep ==
  ASSUME CallInv, NEW d \in {0, 1}, NestedFrom(d), NEW fs \in Seq(FrameType), NEW k \in Int,
         Advance(fs, k), Len(fs) # 0, outcome = "none",
         \A i \in 1 .. Len(fs) : Depth(fs[i].at) = d + i - 1,
         held' = HeldAt(fs[Len(fs)].at),
         k = Height(fs[Len(fs)].at) - Height(Top.at)
  PROVE  Good
<1>1. /\ frames' = fs /\ top' = top + k /\ outcome' = "none" /\ leaked' = leaked
      /\ nargs' = nargs /\ results' = results
  BY DEF Advance
<1>2. Len(fs) \in Nat \ {0}
  OBVIOUS
<1>3. ~ Idle' /\ Top' = fs[Len(fs)]
  BY <1>1, <1>2, EmptySeq DEF Idle, Top
<1>4. \A f : Height(f) \in Int
  BY DEF Height
<1>5. top = nargs + Height(Top.at) - 2 * d /\ nargs \in Int /\ top \in Int /\ results = 1
  BY DEF NestedFrom, CallInv
<1> DEFINE old == Height(Top.at)
           new == Height(fs[Len(fs)].at)
<1>6. old \in Int /\ new \in Int
  BY <1>4
<1>7. top = nargs + old - 2 * d /\ k = new - old
  BY <1>5
<1> HIDE DEF old, new
<1>8. top + k = nargs + new - 2 * d /\ top + k \in Int
  <2>1. d \in Int /\ nargs \in Int /\ top \in Int /\ k \in Int
    BY <1>5
  <2> QED
    BY <1>6, <1>7, <2>1
<1>9. NestedFrom(d)'
  BY <1>1, <1>3, <1>5, <1>8 DEF NestedFrom, new
<1> QED
  BY <1>1, <1>3, <1>5, <1>8, <1>9 DEF Good, CallInv, CallFreed, Nested

\* The conversion of a part of a descriptor.
LEMMA AtPart ==
  ASSUME CallInv, NEW f \in Converted, At(f), Depth(f) >= 0
  PROVE  /\ ~ Idle /\ Top.at = f /\ outcome = "none" /\ frames \in Seq(FrameType)
         /\ held = HeldAt(f) /\ results = 1
         /\ \E d \in {0, 1} : NestedFrom(d) /\ Len(frames) = Depth(f) - d + 1
                              /\ top = nargs + Height(f) - 2 * d
<1>1. ~ Idle /\ Top.at = f /\ frames \in Seq(FrameType) /\ outcome = "none" /\ (Nested \/ Alone)
  BY DEF At, CallInv
<1>2. ~ Alone
  BY <1>1 DEF Alone, Depth
<1>3. PICK d \in {0, 1} : NestedFrom(d)
  BY <1>1, <1>2 DEF Nested
<1>4. Len(frames) \in Nat \ {0}
  BY <1>1, OuterIs
<1>5. Depth(f) = d + Len(frames) - 1
  BY <1>1, <1>3, <1>4 DEF NestedFrom, Top
<1>6. Len(frames) = Depth(f) - d + 1
  BY <1>4, <1>5
<1> QED
  BY <1>1, <1>3, <1>6 DEF NestedFrom

\* Part f of part g is begun.
LEMMA IntoStep ==
  ASSUME CallInv, NEW g \in Converted, At(g), NEW f \in Converted, NEW n \in Int, NEW k \in Int,
         Depth(g) >= 0, Depth(f) = Depth(g) + 1, Advance(Into(f, n), k),
         held' = HeldAt(f), k = Height(f) - Height(g)
  PROVE  Good
<1>1. /\ ~ Idle /\ Top.at = g /\ outcome = "none" /\ frames \in Seq(FrameType)
  BY AtPart
<1>2. PICK d \in {0, 1} : NestedFrom(d) /\ Len(frames) = Depth(g) - d + 1
  BY AtPart
<1>3. /\ Into(f, n) \in Seq(FrameType)
      /\ Len(Into(f, n)) = Len(frames) + 1
      /\ \A i \in 1 .. Len(frames) : Into(f, n)[i].at = frames[i].at
      /\ Into(f, n)[Len(frames) + 1].at = f
  BY <1>1, IntoIs
<1> DEFINE fs == Into(f, n)
<1>4. Len(frames) \in Nat \ {0} /\ Depth(g) \in Int
  BY <1>1, OuterIs DEF Depth
<1>5. \A i \in 1 .. Len(frames) : Depth(frames[i].at) = d + i - 1
  BY <1>2 DEF NestedFrom
<1>6. Depth(f) = d + (Len(frames) + 1) - 1
  BY <1>2, <1>4
<1> HIDE DEF fs
<1>7. ASSUME NEW i \in 1 .. Len(fs) PROVE Depth(fs[i].at) = d + i - 1
  <2>1. CASE i = Len(frames) + 1
    <3>1. fs[i].at = f
      BY <1>3, <2>1 DEF fs
    <3> QED
      BY <1>6, <2>1, <3>1
  <2>2. CASE i # Len(frames) + 1
    <3>1. i \in 1 .. Len(frames)
      BY <1>3, <1>4, <2>2 DEF fs
    <3>2. fs[i].at = frames[i].at
      BY <1>3, <3>1 DEF fs
    <3> QED
      BY <1>5, <3>1, <3>2
  <2> QED
    BY <2>1, <2>2
<1>8. fs[Len(fs)].at = f /\ Len(fs) # 0 /\ fs \in Seq(FrameType) /\ Advance(fs, k)
  BY <1>3, <1>4 DEF fs
<1> QED
  BY <1>1, <1>2, <1>7, <1>8, NestedStep

\* The innermost part is done with, and the conversion goes on with the one it lies
\* in, g.
LEMMA OuterStep ==
  ASSUME CallInv, NEW f \in Converted, At(f), NEW g \in Converted, NEW k \in Int, Len(frames) > 1,
         Depth(g) \in 0 .. 3, Depth(f) = Depth(g) + 1, Advance(Outer, k),
         held' = HeldAt(g), k = Height(g) - Height(f)
  PROVE  Good
<1>1. /\ ~ Idle /\ Top.at = f /\ outcome = "none" /\ frames \in Seq(FrameType)
  BY AtPart
<1>2. PICK d \in {0, 1} : NestedFrom(d) /\ Len(frames) = Depth(f) - d + 1
  BY AtPart
<1>3. /\ Len(frames) \in Nat \ {0}
      /\ Outer \in Seq(FrameType)
      /\ Len(Outer) = Len(frames) - 1
      /\ \A i \in 1 .. Len(Outer) : Outer[i] = frames[i]
  BY <1>1, OuterIs
<1>4. \A i \in 1 .. Len(Outer) : Depth(Outer[i].at) = d + i - 1
  BY <1>2, <1>3 DEF NestedFrom
<1>5. Len(Outer) \in Nat \ {0}
  BY <1>3
<1> DEFINE x == Outer[Len(Outer)].at
<1>6. Depth(x) = Depth(g)
  <2>1. Depth(x) = d + Len(Outer) - 1
    BY <1>4, <1>5
  <2> QED
    BY <1>2, <1>3, <2>1
<1>7. x \in Converted
  <2>1. Outer[Len(Outer)] \in FrameType
    BY <1>3, <1>5
  <2> QED
    BY <2>1 DEF FrameType
<1> HIDE DEF x
<1>8. x = g
  BY <1>6, <1>7 DEF Depth, Converted
<1>9. held' = HeldAt(Outer[Len(Outer)].at) /\ k = Height(Outer[Len(Outer)].at) - Height(Top.at)
  BY <1>1, <1>8 DEF x
<1> QED
  BY <1>1, <1>2, <1>3, <1>4, <1>5, <1>9, NestedStep

-----------------------------------------------------------------------------
(* The steps of descriptors.                                               *)

\* Each part is deeper than those it lies in, and what is on the stack and what is
\* held grow with it.
LEMMA DepthIs ==
  /\ Depth("device") = 0 /\ Depth("config") = 1 /\ Depth("interface") = 2
  /\ Depth("altsetting") = 3 /\ Depth("endpoint") = 4 /\ Depth("companion") = 4
BY DEF Depth

LEMMA HeightIs ==
  /\ Height("device") = 2 /\ Height("config") = 4 /\ Height("interface") = 5
  /\ Height("altsetting") = 7 /\ Height("endpoint") = 8 /\ Height("companion") = 9
BY DEF Height

LEMMA HeldIs ==
  /\ HeldAt("device") = {} /\ HeldAt("config") = {"config"}
  /\ HeldAt("interface") = {"config"} /\ HeldAt("altsetting") = {"config"}
  /\ HeldAt("endpoint") = {"config"} /\ HeldAt("companion") = {"config", "companion"}
BY DEF HeldAt, Depth

LEMMA NextConfigStep == ASSUME RequestsAssumption, CallInv, NextConfig PROVE Good
<1>1. At("device") /\ "device" \in Converted /\ nargs \in Nat
  BY DEF NextConfig, More, CallInv, Converted
<1>2. held = {}
  BY <1>1, AtPart, DepthIs, HeldIs
<1>3. CASE Fails(nargs, {})
  BY <1>1, <1>2, <1>3, FailsStep
<1>4. ASSUME NEW m \in Parts, Advance(Into("config", m), 2), held' = held \cup {"config"}
      PROVE  Good
  <2>1. m \in Int /\ "config" \in Converted /\ held' = {"config"}
    BY <1>2, <1>4, RequestsAssumption DEF Parts, RequestsAssumption, Converted
  <2> QED
    BY <1>1, <1>4, <2>1, IntoStep, DepthIs, HeightIs, HeldIs
<1> QED
  BY <1>3, <1>4 DEF NextConfig

LEMMA NextInterfaceStep == ASSUME RequestsAssumption, CallInv, NextInterface PROVE Good
<1>1. At("config") /\ "config" \in Converted /\ "interface" \in Converted
  BY DEF NextInterface, More, Converted
<1>2. held = {"config"}
  BY <1>1, AtPart, DepthIs, HeldIs
<1>3. PICK m \in Parts : Advance(Into("interface", m), 1) /\ held' = held
  BY DEF NextInterface
<1>4. m \in Int
  BY RequestsAssumption DEF Parts, RequestsAssumption
<1> QED
  BY <1>1, <1>2, <1>3, <1>4, IntoStep, DepthIs, HeightIs, HeldIs

LEMMA NextAltsettingStep == ASSUME RequestsAssumption, CallInv, NextAltsetting PROVE Good
<1>1. At("interface") /\ "interface" \in Converted /\ "altsetting" \in Converted
  BY DEF NextAltsetting, More, Converted
<1>2. held = {"config"}
  BY <1>1, AtPart, DepthIs, HeldIs
<1>3. PICK m \in Parts :
        \/ Advance(Into("altsetting", m), 2) /\ held' = held
        \/ Raise({}, "")
  BY DEF NextAltsetting
<1>4. m \in Int
  BY RequestsAssumption DEF Parts, RequestsAssumption
<1>5. CASE Raise({}, "")
  BY <1>1, <1>2, <1>5, UnnamedStep
<1>6. CASE Advance(Into("altsetting", m), 2) /\ held' = held
  BY <1>1, <1>2, <1>4, <1>6, IntoStep, DepthIs, HeightIs, HeldIs
<1> QED
  BY <1>3, <1>5, <1>6

LEMMA NextEndpointStep == ASSUME CallInv, NextEndpoint PROVE Good
<1>1. At("altsetting") /\ "altsetting" \in Converted /\ "endpoint" \in Converted
  BY DEF NextEndpoint, More, Converted
<1>2. held = {"config"}
  BY <1>1, AtPart, DepthIs, HeldIs
<1>3. \/ Advance(Into("endpoint", 0), 1) /\ held' = held
      \/ Raise({}, "")
  BY DEF NextEndpoint
<1>4. CASE Raise({}, "")
  BY <1>1, <1>2, <1>4, UnnamedStep
<1>5. CASE Advance(Into("endpoint", 0), 1) /\ held' = held
  BY <1>1, <1>2, <1>5, IntoStep, DepthIs, HeightIs, HeldIs
<1> QED
  BY <1>3, <1>4, <1>5

\* The companion takes the place of its endpoint.
LEMMA CompanionStep == ASSUME CallInv, Companion PROVE Good
<1>1. At("endpoint") /\ "endpoint" \in Converted /\ "companion" \in Converted
  BY DEF Companion, Converted
<1>2. /\ ~ Idle /\ Top.at = "endpoint" /\ outcome = "none" /\ frames \in Seq(FrameType)
      /\ held = {"config"}
  BY <1>1, AtPart, DepthIs, HeldIs
<1>3. PICK d \in {0, 1} : NestedFrom(d) /\ Len(frames) = Depth("endpoint") - d + 1
  BY <1>1, AtPart, DepthIs
<1>4. /\ Len(frames) \in Nat \ {0}
      /\ Outer \in Seq(FrameType)
      /\ Len(Outer) = Len(frames) - 1
      /\ \A i \in 1 .. Len(Outer) : Outer[i] = frames[i]
  BY <1>2, OuterIs
<1> DEFINE g == Frame("companion", 0)
           fs == Append(Outer, g)
<1>5. g \in FrameType /\ g.at = "companion"
  BY <1>1 DEF Frame, FrameType
<1>6. Advance(fs, 1) /\ held' = {"config", "companion"}
  BY <1>2 DEF Companion
<1> HIDE DEF g
<1>7. /\ fs \in Seq(FrameType)
      /\ Len(fs) = Len(Outer) + 1
      /\ \A i \in 1 .. Len(Outer) : fs[i] = Outer[i]
      /\ fs[Len(Outer) + 1] = g
  BY <1>4, <1>5, PartPushed
<1> HIDE DEF fs
<1>8. Len(fs) = Len(frames) /\ Len(fs) # 0 /\ fs[Len(fs)].at = "companion"
  BY <1>4, <1>5, <1>7
<1>9. ASSUME NEW i \in 1 .. Len(fs) PROVE Depth(fs[i].at) = d + i - 1
  <2>1. CASE i = Len(frames)
    <3>1. fs[i].at = "companion"
      BY <1>8, <2>1
    <3> QED
      BY <1>3, <1>4, <2>1, <3>1, DepthIs
  <2>2. CASE i # Len(frames)
    <3>1. i \in 1 .. Len(Outer) /\ i \in 1 .. Len(frames)
      BY <1>4, <1>8, <2>2
    <3>2. fs[i] = frames[i]
      BY <1>4, <1>7, <3>1
    <3> QED
      BY <1>3, <3>1, <3>2 DEF NestedFrom
  <2> QED
    BY <2>1, <2>2
<1>10. 1 = Height(fs[Len(fs)].at) - Height(Top.at) /\ held' = HeldAt(fs[Len(fs)].at)
  BY <1>2, <1>6, <1>8, HeightIs, HeldIs
<1>11. /\ NestedFrom(d) /\ outcome = "none" /\ Advance(fs, 1) /\ 1 \in Int
       /\ fs \in Seq(FrameType) /\ Len(fs) # 0
  BY <1>2, <1>3, <1>6, <1>7, <1>8
<1>12. \A i \in 1 .. Len(fs) : Depth(fs[i].at) = d + i - 1
  BY <1>9
<1> QED
  BY <1>10, <1>11, <1>12, NestedStep

\* A part that is deeper than a configuration lies in another.
LEMMA LiesIn ==
  ASSUME CallInv, NEW f \in Converted, At(f), Depth(f) \in 2 .. 4
  PROVE  Len(frames) > 1 /\ held = HeldAt(f)
<1>1. held = HeldAt(f) /\ \E d \in {0, 1} : Len(frames) = Depth(f) - d + 1
  BY AtPart
<1> QED
  BY <1>1

LEMMA EndEndpointStep == ASSUME CallInv, EndEndpoint PROVE Good
<1>1. {"endpoint", "companion", "altsetting"} \subseteq Converted
  BY DEF Converted
<1>2. CASE At("endpoint") /\ Advance(Outer, -1) /\ held' = held
  <2>1. Len(frames) > 1 /\ held = {"config"}
    BY <1>1, <1>2, LiesIn, DepthIs, HeldIs
  <2> QED
    BY <1>1, <1>2, <2>1, OuterStep, DepthIs, HeightIs, HeldIs
<1>3. CASE At("companion") /\ Advance(Outer, -2) /\ held' = held \ {"companion"}
  <2>1. Len(frames) > 1 /\ held = {"config", "companion"}
    BY <1>1, <1>3, LiesIn, DepthIs, HeldIs
  <2>2. held' = {"config"}
    BY <1>3, <2>1
  <2> QED
    BY <1>1, <1>3, <2>1, <2>2, OuterStep, DepthIs, HeightIs, HeldIs
<1> QED
  BY <1>2, <1>3 DEF EndEndpoint

LEMMA EndAltsettingStep == ASSUME CallInv, EndAltsetting PROVE Good
<1>1. At("altsetting") /\ "altsetting" \in Converted /\ "interface" \in Converted
  BY DEF EndAltsetting, Done, Converted
<1>2. Len(frames) > 1 /\ held = {"config"}
  BY <1>1, LiesIn, DepthIs, HeldIs
<1>3. Advance(Outer, -2) /\ held' = held
  BY DEF EndAltsetting
<1> QED
  BY <1>1, <1>2, <1>3, OuterStep, DepthIs, HeightIs, HeldIs

LEMMA EndInterfaceStep == ASSUME CallInv, EndInterface PROVE Good
<1>1. At("interface") /\ "interface" \in Converted /\ "config" \in Converted
  BY DEF EndInterface, Done, Converted
<1>2. Len(frames) > 1 /\ held = {"config"}
  BY <1>1, LiesIn, DepthIs, HeldIs
<1>3. Advance(Outer, -1) /\ held' = held
  BY DEF EndInterface
<1> QED
  BY <1>1, <1>2, <1>3, OuterStep, DepthIs, HeightIs, HeldIs

\* A configuration is within a device's descriptor, or the first of the frames.
LEMMA EndConfigStep == ASSUME CallInv, EndConfig PROVE Good
<1>1. At("config") /\ {"config", "device"} \subseteq Converted
  BY DEF EndConfig, Done, Converted
<1>2. ~ Idle /\ held = {"config"} /\ results = 1 /\ nargs \in Nat
  BY <1>1, AtPart, DepthIs, HeldIs DEF CallInv
<1>3. PICK d \in {0, 1} : /\ Len(frames) = Depth("config") - d + 1
                         /\ top = nargs + Height("config") - 2 * d
  BY <1>1, AtPart, DepthIs
<1>4. CASE Len(frames) > 1
  <2>1. Advance(Outer, -2) /\ held' = {}
    BY <1>2, <1>4 DEF EndConfig
  <2> QED
    BY <1>1, <1>4, <2>1, OuterStep, DepthIs, HeightIs, HeldIs
<1>5. CASE ~ (Len(frames) > 1)
  <2>1. Return({"config"}, -1)
    BY <1>5 DEF EndConfig
  <2>2. d = 1
    BY <1>5, <1>3, DepthIs
  <2>3. top + -1 = nargs + results
    BY <1>2, <1>3, <2>2, HeightIs
  <2> QED
    BY <1>2, <2>1, <2>3, ReturnStep
<1> QED
  BY <1>4, <1>5

LEMMA EndDeviceStep == ASSUME CallInv, EndDevice PROVE Good
<1>1. At("device") /\ "device" \in Converted /\ Return({}, -1)
  BY DEF EndDevice, Done, Converted
<1>2. /\ ~ Idle /\ held = {} /\ results = 1 /\ nargs \in Nat /\ frames \in Seq(FrameType)
  BY <1>1, AtPart, DepthIs, HeldIs DEF CallInv
<1>3. PICK d \in {0, 1} : /\ Len(frames) = Depth("device") - d + 1
                         /\ top = nargs + Height("device") - 2 * d
  BY <1>1, AtPart, DepthIs
<1>4. Len(frames) \in Nat \ {0}
  BY <1>2, OuterIs
<1>5. d = 0
  BY <1>3, <1>4, DepthIs
<1>6. top + -1 = nargs + results
  BY <1>2, <1>3, <1>5, HeightIs
<1> QED
  BY <1>1, <1>2, <1>6, ReturnStep

-----------------------------------------------------------------------------
(* The steps of the other calls.                                           *)

\* What a call that converts no descriptor is at.
LEMMA AtAlone ==
  ASSUME CallInv, NEW f \in {"buffer", "ports", "list", "bos"}, At(f)
  PROVE  ~ Idle /\ Alone /\ Top.at = f /\ outcome = "none" /\ Top \in FrameType
<1>1. ~ Idle /\ Top.at = f /\ outcome = "none" /\ frames \in Seq(FrameType) /\ (Nested \/ Alone)
  BY DEF At, CallInv
<1>2. Top \in FrameType /\ Len(frames) \in Nat \ {0}
  BY <1>1, OuterIs
<1>3. Depth(f) = -1
  BY DEF Depth
<1>4. ~ Nested
  <2> SUFFICES ASSUME NEW d \in {0, 1}, NestedFrom(d) PROVE FALSE
    BY DEF Nested
  <2>1. Depth(f) = d + Len(frames) - 1
    BY <1>1, <1>2 DEF NestedFrom, Top
  <2> QED
    BY <1>2, <1>3, <2>1
<1> QED
  BY <1>1, <1>2, <1>4

\* A call goes on with its only frame.
LEMMA StaysStep ==
  ASSUME CallInv, NEW f \in {"ports", "list", "bos"}, At(f), NEW left \in Int, NEW k \in 0 .. 1,
         \/ Advance(<<Frame(f, left)>>, k)
         \/ Advance(frames, k),
         k = 1 => f = "ports" /\ top = nargs,
         held' = held
  PROVE  Good
<1>1. ~ Idle /\ Alone /\ Top.at = f /\ outcome = "none" /\ Top \in FrameType
  BY AtAlone
<1> DEFINE g == Frame(f, left)
<1>2. g \in FrameType /\ g.at = f
  BY DEF Frame, FrameType, Converted
<1>3. /\ top' = top + k /\ nargs' = nargs /\ results' = results /\ leaked' = leaked
      /\ outcome' = outcome /\ (frames' = <<g>> \/ frames' = frames)
  BY DEF Advance
<1> HIDE DEF g
<1>4. frames' \in Seq(FrameType) /\ Len(frames') = 1 /\ ~ Idle' /\ Top'.at = f
  <2>1. CASE frames' = <<g>>
    BY <1>2, <2>1, SingleFrame
  <2>2. CASE frames' = frames
    BY <1>1, <2>2 DEF CallInv, Alone, Idle, Top
  <2> QED
    BY <1>3, <2>1, <2>2
<1>5. nargs \in Nat /\ top \in Int /\ results \in Int
  BY DEF CallInv
<1>6. top + k \in Int /\ (k = 0 => top + k = top) /\ (k = 1 => top + k \in nargs .. nargs + 1)
  BY <1>5
<1>7. Alone'
  BY <1>1, <1>3, <1>4, <1>5, <1>6 DEF Alone
<1> QED
  BY <1>1, <1>3, <1>4, <1>5, <1>6, <1>7 DEF Good, CallInv, CallFreed

LEMMA GetDescriptorStep == ASSUME CallInv, GetDescriptor PROVE Good
<1>1. CASE Idle /\ Enter(5, Frame("buffer", 0), 0) /\ held' = {"memory"}
  BY <1>1, EnterStep DEF Converted
<1>2. CASE At("buffer") /\ (Fails(nargs, {"memory"}) \/ Return({"memory"}, 1))
  <2>1. ~ Idle /\ held = {"memory"} /\ top + 1 = nargs + results /\ results = 1 /\ nargs \in Nat
    BY <1>2, AtAlone DEF Alone, CallInv
  <2> QED
    BY <1>2, <2>1, FailsStep, ReturnStep
<1> QED
  BY <1>1, <1>2 DEF GetDescriptor

LEMMA GetPortNumbersStep == ASSUME RequestsAssumption, CallInv, GetPortNumbers PROVE Good
<1>1. ASSUME Idle, NEW n \in Parts, Enter(2, Frame("ports", n), 0), held' = {"memory"}
      PROVE  Good
  <2>1. n \in Int
    BY RequestsAssumption DEF Parts, RequestsAssumption
  <2> QED
    BY <1>1, <2>1, EnterStep DEF Converted
<1>2. ASSUME At("ports")
      PROVE  /\ ~ Idle /\ held = {"memory"} /\ top \in nargs .. nargs + 1 /\ results = 1
             /\ nargs \in Nat /\ Top.left \in Int
  BY <1>2, AtAlone DEF Alone, CallInv, FrameType
<1>3. CASE At("ports") /\ Fails(nargs, {"memory"})
  BY <1>2, <1>3, FailsStep
<1>4. CASE At("ports") /\ top = nargs /\ Advance(frames, 1) /\ held' = held
  <2>1. 0 \in Int /\ 1 \in 0 .. 1
    OBVIOUS
  <2>2. "ports" \in {"ports", "list", "bos"} /\ (1 = 1 => "ports" = "ports" /\ top = nargs)
    BY <1>4
  <2> QED
    BY <1>4, <2>1, <2>2, StaysStep
<1>5. CASE At("ports") /\ Advance(<<Frame("ports", Top.left - 1)>>, 0) /\ held' = held
  <2>1. Top.left - 1 \in Int
    BY <1>2, <1>5
  <2> QED
    BY <1>5, <2>1, StaysStep
<1>6. CASE At("ports") /\ top > nargs /\ Return({"memory"}, 0)
  <2>1. top + 0 = nargs + results
    BY <1>2, <1>6
  <2> QED
    BY <1>2, <1>6, <2>1, ReturnStep
<1> QED
  BY <1>1, <1>3, <1>4, <1>5, <1>6 DEF GetPortNumbers

LEMMA StreamsStep == ASSUME RequestsAssumption, CallInv, Streams PROVE Good
<1>1. Idle /\ held \subseteq {}
  BY DEF Streams, CallInv
<1>2. PICK n \in 2 .. 3 :
        \/ \E count \in Parts \ {0} : Enter(n, Frame("list", count), 0) /\ held' = {"memory"}
        \/ RaiseIn(n, {}, "")
  BY DEF Streams
<1>3. CASE RaiseIn(n, {}, "")
  <2>1. n \in Nat
    OBVIOUS
  <2> QED
    BY <1>1, <1>3, <2>1, RaiseStep
<1>4. ASSUME NEW count \in Parts, Enter(n, Frame("list", count), 0), held' = {"memory"}
      PROVE  Good
  <2>1. count \in Int
    BY RequestsAssumption DEF Parts, RequestsAssumption
  <2> QED
    BY <1>1, <1>4, <2>1, EnterStep DEF Converted
<1> QED
  BY <1>2, <1>3, <1>4

LEMMA CheckElementStep == ASSUME CallInv, CheckElement PROVE Good
<1>1. At("list") /\ nargs \in Nat
  BY DEF CheckElement, CallInv
<1>2. held = {"memory"} /\ Top \in FrameType
  BY <1>1, AtAlone DEF Alone
<1>3. Top.left - 1 \in Int
  BY <1>2 DEF FrameType
<1>4. CASE Advance(<<Frame("list", Top.left - 1)>>, 0) /\ held' = held
  BY <1>1, <1>3, <1>4, StaysStep
<1>5. CASE Raise({"memory"}, "")
  BY <1>1, <1>2, <1>5, RaiseStep DEF Raise
<1> QED
  BY <1>4, <1>5 DEF CheckElement

LEMMA CallStreamsStep == ASSUME CallInv, CallStreams PROVE Good
<1>1. /\ ~ Idle /\ held = {"memory"} /\ top = nargs /\ results = nargs - 2 /\ nargs \in 2 .. 3
  BY AtAlone DEF CallStreams, Alone
<1>2. CASE Fails(nargs, {"memory"})
  BY <1>1, <1>2, FailsStep
<1>3. CASE Return({"memory"}, nargs - 2)
  <2> DEFINE k == nargs - 2
  <2>1. k \in Int /\ top + k = nargs + results /\ results \in 0 .. 1
    BY <1>1
  <2>2. Return({"memory"}, k)
    BY <1>3
  <2> HIDE DEF k
  <2> QED
    BY <1>1, <2>1, <2>2, ReturnStep
<1> QED
  BY <1>2, <1>3 DEF CallStreams

LEMMA GetBosDescriptorStep == ASSUME RequestsAssumption, CallInv, GetBosDescriptor PROVE Good
<1>1. CASE Idle /\ Fails(1, {})
  <2>1. held \subseteq {}
    BY <1>1 DEF CallInv
  <2> QED
    BY <1>1, <2>1, FailsStep
<1>2. ASSUME Idle, NEW n \in Parts, Enter(1, Frame("bos", n), 2), held' = {"bos"}
      PROVE  Good
  <2>1. n \in Int
    BY RequestsAssumption DEF Parts, RequestsAssumption
  <2> QED
    BY <1>2, <2>1, EnterStep DEF Converted
<1>3. ASSUME At("bos")
      PROVE  /\ ~ Idle /\ held = {"bos"} /\ top = nargs + 2 /\ results = 1
             /\ nargs \in Nat /\ Top.left \in Int
  BY <1>3, AtAlone DEF Alone, CallInv, FrameType
<1>4. CASE At("bos") /\ Advance(<<Frame("bos", Top.left - 1)>>, 0) /\ held' = held
  <2>1. Top.left - 1 \in Int
    BY <1>3, <1>4
  <2> QED
    BY <1>4, <2>1, StaysStep
<1>5. CASE At("bos") /\ Return({"bos"}, -1)
  <2>1. top + -1 = nargs + results
    BY <1>3, <1>5
  <2> QED
    BY <1>3, <1>5, <2>1, ReturnStep
<1> QED
  BY <1>1, <1>2, <1>4, <1>5 DEF GetBosDescriptor, More, Done

LEMMA GetDeviceDescriptorStep ==
  ASSUME RequestsAssumption, CallInv, GetDeviceDescriptor
  PROVE  Good
<1>1. Idle /\ held = {}
  BY DEF GetDeviceDescriptor, CallInv
<1>2. CASE Fails(1, {})
  BY <1>1, <1>2, FailsStep
<1>3. CASE RaiseIn(1, {}, "")
  BY <1>1, <1>3, RaiseStep
<1>4. ASSUME NEW n \in Parts, Enter(1, Frame("device", n), 2), held' = held
      PROVE  Good
  <2>1. n \in Int
    BY RequestsAssumption DEF Parts, RequestsAssumption
  <2> QED
    BY <1>1, <1>4, <2>1, EnterStep DEF Converted
<1> QED
  BY <1>2, <1>3, <1>4 DEF GetDeviceDescriptor

LEMMA GetConfigDescriptorStep ==
  ASSUME RequestsAssumption, CallInv, GetConfigDescriptor
  PROVE  Good
<1>1. Idle /\ held = {}
  BY DEF GetConfigDescriptor, CallInv
<1>2. PICK n \in 1 .. 2 :
        \/ Fails(n, {})
        \/ \E m \in Parts : Enter(n, Frame("config", m), 2) /\ held' = {"config"}
  BY DEF GetConfigDescriptor
<1>3. CASE Fails(n, {})
  BY <1>1, <1>3, FailsStep
<1>4. ASSUME NEW m \in Parts, Enter(n, Frame("config", m), 2), held' = {"config"}
      PROVE  Good
  <2>1. m \in Int
    BY RequestsAssumption DEF Parts, RequestsAssumption
  <2> QED
    BY <1>1, <1>4, <2>1, EnterStep DEF Converted
<1> QED
  BY <1>2, <1>3, <1>4

\* The methods that convert nothing.
AtOnce ==
  \/ GetNumber \/ DeviceRequest \/ SynchTransfer \/ GetNextTimeout \/ Library
  \/ GetMaxPacketSize

LEMMA AtOnceStep == ASSUME CallInv, AtOnce PROVE Good
<1>1. Idle /\ held = {}
  BY DEF AtOnce, GetNumber, DeviceRequest, SynchTransfer, GetNextTimeout, Library,
         GetMaxPacketSize, CallInv
<1>2. ASSUME NEW n \in Nat, Answers(n, 0) \/ Answers(n, 1) PROVE Good
  <2>1. 0 \in 0 .. 1 /\ 1 \in 0 .. 1
    OBVIOUS
  <2> QED
    BY <1>1, <1>2, <2>1, AnswersStep
<1>3. ASSUME NEW n \in Nat, Fails(n, {}) PROVE Good
  BY <1>1, <1>3, FailsStep
<1>4. ASSUME NEW n \in Nat, NEW e, RaiseIn(n, {}, e) PROVE Good
  BY <1>1, <1>4, RaiseStep
<1>5. /\ 1 \in Nat /\ 2 \in Nat /\ 4 \in Nat
      /\ \A n \in 1 .. 3 : n \in Nat
      /\ \A n \in 4 .. 5 : n \in Nat
  OBVIOUS
<1>6. CASE GetNumber
  BY <1>2, <1>5, <1>6, Zenon DEF GetNumber
<1>7. CASE DeviceRequest
  BY <1>2, <1>3, <1>5, <1>7, Zenon DEF DeviceRequest
<1>8. CASE SynchTransfer
  <2>1. RaiseIn(4, {}, "") \/ \E n \in 4 .. 5 : Answers(n, 1) \/ Fails(n, {})
    BY <1>8, Zenon DEF SynchTransfer
  <2> QED
    BY <1>2, <1>3, <1>4, <1>5, <2>1, Zenon
<1>9. CASE GetNextTimeout
  BY <1>2, <1>3, <1>5, <1>9, Zenon DEF GetNextTimeout
<1>10. CASE Library
  BY <1>2, <1>3, <1>4, <1>5, <1>10, Zenon DEF Library
<1>11. CASE GetMaxPacketSize
  BY <1>3, <1>4, <1>5, <1>11, Zenon DEF GetMaxPacketSize
<1> QED
  BY <1>6, <1>7, <1>8, <1>9, <1>10, <1>11 DEF AtOnce

\* Every step.
LEMMA CallStep == ASSUME RequestsAssumption, CallInv, [ReqNext]_reqVars PROVE Good
<1>1. CASE UNCHANGED reqVars
  BY <1>1 DEF reqVars, Good, CallFreed, CallInv, Idle, Nested, NestedFrom, Alone, Top
<1>2. CASE AtOnce
  BY <1>2, AtOnceStep
<1>3. CASE GetDescriptor \/ GetPortNumbers \/ Streams \/ CheckElement \/ CallStreams
  BY <1>3, GetDescriptorStep, GetPortNumbersStep, StreamsStep, CheckElementStep, CallStreamsStep
<1>4. CASE GetDeviceDescriptor \/ GetConfigDescriptor \/ GetBosDescriptor
  BY <1>4, GetDeviceDescriptorStep, GetConfigDescriptorStep, GetBosDescriptorStep
<1>5. CASE NextConfig \/ NextInterface \/ NextAltsetting \/ NextEndpoint \/ Companion
  BY <1>5, NextConfigStep, NextInterfaceStep, NextAltsettingStep, NextEndpointStep, CompanionStep
<1>6. CASE EndEndpoint \/ EndAltsetting \/ EndInterface \/ EndConfig \/ EndDevice
  BY <1>6, EndEndpointStep, EndAltsettingStep, EndInterfaceStep, EndConfigStep, EndDeviceStep
<1> QED
  BY <1>1, <1>2, <1>3, <1>4, <1>5, <1>6 DEF ReqNext, Descriptors, AtOnce

-----------------------------------------------------------------------------
(* The names of errors.                                                    *)

\* What concatenation makes of two sequences, of m and n elements of S.
Joined(S, u, s, t, m, n) ==
  /\ u \in Seq(S) /\ Len(u) = m + n
  /\ \A i \in 1 .. m : u[i] = s[i]
  /\ \A i \in 1 .. n : u[m + i] = t[i]

LEMMA Concatenated ==
  ASSUME NEW S, NEW s \in Seq(S), NEW t \in Seq(S), NEW m \in Nat, NEW n \in Nat,
         Len(s) = m, Len(t) = n
  PROVE  Joined(S, s \o t, s, t, m, n)
<1>1. s \o t \in Seq(S) /\ Len(s \o t) = m + n
  BY ConcatProperties
<1>2. \A i \in 1 .. m + n : (s \o t)[i] = IF i <= m THEN s[i] ELSE t[i - m]
  BY ConcatProperties
<1>3. ASSUME NEW i \in 1 .. m PROVE (s \o t)[i] = s[i]
  BY <1>2
<1>4. ASSUME NEW i \in 1 .. n PROVE (s \o t)[m + i] = t[i]
  <2>1. m + i \in 1 .. m + n /\ ~ (m + i <= m) /\ (m + i) - m = i
    OBVIOUS
  <2> QED
    BY <1>2, <2>1
<1> QED
  BY <1>1, <1>3, <1>4 DEF Joined

LEMMA FunctionIsSequence ==
  ASSUME NEW S, NEW n \in Nat, NEW f \in [1 .. n -> S]
  PROVE  f \in Seq(S) /\ Len(f) = n
OBVIOUS

\* The names of libusb's errors -1 to -12.
NegativeNames ==
  <<"io error", "invalid param", "access", "no device", "not found", "busy",
    "timeout", "overflow", "pipe", "interrupted", "no mem", "not supported">>

StatusErrors == <<"error", "timeout", "cancelled", "stall", "no device", "overflow">>

LEMMA NegativeNamesIs ==
  DOMAIN NegativeNames = 1 .. 12 /\ \A i \in 1 .. 12 : NegativeNames[i] \in Errcode
<1>1. DOMAIN NegativeNames = 1 .. 12
  BY DEF NegativeNames
<1>2. /\ NegativeNames[1] = "io error" /\ NegativeNames[2] = "invalid param"
      /\ NegativeNames[3] = "access" /\ NegativeNames[4] = "no device"
      /\ NegativeNames[5] = "not found" /\ NegativeNames[6] = "busy"
      /\ NegativeNames[7] = "timeout" /\ NegativeNames[8] = "overflow"
      /\ NegativeNames[9] = "pipe" /\ NegativeNames[10] = "interrupted"
      /\ NegativeNames[11] = "no mem" /\ NegativeNames[12] = "not supported"
  BY DEF NegativeNames
<1>3. ASSUME NEW i \in 1 .. 12 PROVE NegativeNames[i] \in Errcode
  <2>1. i \in {1, 2, 3, 4, 5, 6, 7, 8, 9, 10, 11, 12}
    OBVIOUS
  <2> QED
    BY <1>2, <2>1 DEF Errcode
<1> QED
  BY <1>1, <1>3

\* The codes of Errors: 0, then -1 to -12, then -99, then 1 to 6.
LEMMA ErrorsIs ==
  /\ DOMAIN Errors = 1 .. 20
  /\ Errors[1][1] = 0
  /\ \A i \in 1 .. 12 : Errors[1 + i] = <<-i, NegativeNames[i]>>
  /\ Errors[14] = <<-99, "other">>
  /\ \A i \in 1 .. 6 : Errors[14 + i][1] = i
<1> DEFINE names == Errcode \cup {"success", "error", "cancelled", "stall"}
           Pairs == Int \X names
           p == << <<0, "success">> >>
           q == [i \in 1 .. 12 |-> <<-i, NegativeNames[i]>>]
           r == << <<-99, "other">> >>
           z == Numbered(1, StatusErrors)
<1>1. Errors = ((p \o q) \o r) \o z
  BY DEF Errors, NegativeNames, StatusErrors
<1>2. p \in Seq(Pairs) /\ Len(p) = 1 /\ p[1] = <<0, "success">>
  <2>1. 0 \in Int /\ "success" \in names
    OBVIOUS
  <2> HIDE DEF names
  <2>2. <<0, "success">> \in Pairs
    BY <2>1
  <2> HIDE DEF Pairs
  <2> QED
    BY <2>2
<1>3. q \in Seq(Pairs) /\ Len(q) = 12 /\ \A i \in 1 .. 12 : q[i] = <<-i, NegativeNames[i]>>
  <2>1. ASSUME NEW i \in 1 .. 12 PROVE <<-i, NegativeNames[i]>> \in Pairs
    <3>1. -i \in Int /\ NegativeNames[i] \in names
      BY NegativeNamesIs
    <3> HIDE DEF names
    <3> QED
      BY <3>1
  <2> HIDE DEF Pairs
  <2>2. q \in [1 .. 12 -> Pairs]
    BY <2>1
  <2> QED
    BY <2>2
<1>4. r \in Seq(Pairs) /\ Len(r) = 1 /\ r[1] = <<-99, "other">>
  <2>1. -99 \in Int /\ "other" \in names
    BY DEF Errcode
  <2> HIDE DEF names
  <2>2. <<-99, "other">> \in Pairs
    BY <2>1
  <2> HIDE DEF Pairs
  <2> QED
    BY <2>2
<1>5. z \in Seq(Pairs) /\ Len(z) = 6 /\ \A i \in 1 .. 6 : z[i][1] = i
  <2>1. DOMAIN StatusErrors = 1 .. 6
    BY DEF StatusErrors
  <2>2. ASSUME NEW i \in 1 .. 6 PROVE StatusErrors[i] \in names
    <3>1. i \in {1, 2, 3, 4, 5, 6}
      OBVIOUS
    <3>2. /\ StatusErrors[1] = "error" /\ StatusErrors[2] = "timeout"
          /\ StatusErrors[3] = "cancelled" /\ StatusErrors[4] = "stall"
          /\ StatusErrors[5] = "no device" /\ StatusErrors[6] = "overflow"
      BY DEF StatusErrors
    <3> QED
      BY <3>1, <3>2 DEF Errcode
  <2>3. z = [i \in 1 .. 6 |-> <<1 + i - 1, StatusErrors[i]>>]
    BY <2>1 DEF Numbered
  <2>4. ASSUME NEW i \in 1 .. 6 PROVE <<1 + i - 1, StatusErrors[i]>> \in Pairs
    <3> HIDE DEF names
    <3> QED
      BY <2>2
  <2>5. ASSUME NEW i \in 1 .. 6 PROVE z[i][1] = i
    <3>1. z[i] = <<1 + i - 1, StatusErrors[i]>>
      BY <2>3
    <3> QED
      BY <3>1
  <2> HIDE DEF Pairs
  <2>6. z \in [1 .. 6 -> Pairs]
    BY <2>3, <2>4
  <2> HIDE DEF z
  <2>7. z \in Seq(Pairs) /\ Len(z) = 6
    BY <2>6, 6 \in Nat, FunctionIsSequence, Zenon
  <2> QED
    BY <2>5, <2>7
<1> HIDE DEF names, Pairs, p, q, r, z
<1> DEFINE pq == p \o q
           pqr == pq \o r
           all == pqr \o z
<1>6. /\ pq \in Seq(Pairs) /\ Len(pq) = 13
      /\ \A i \in 1 .. 1 : pq[i] = p[i]
      /\ \A i \in 1 .. 12 : pq[1 + i] = q[i]
  <2>1. 1 \in Nat /\ 12 \in Nat
    OBVIOUS
  <2>2. p \in Seq(Pairs) /\ Len(p) = 1 /\ q \in Seq(Pairs) /\ Len(q) = 12
    BY <1>2, <1>3
  <2>3. Joined(Pairs, pq, p, q, 1, 12)
    BY <2>1, <2>2, Concatenated, Zenon
  <2> HIDE DEF pq
  <2> QED
    BY <2>3 DEF Joined
<1> HIDE DEF pq
<1>7. /\ pqr \in Seq(Pairs) /\ Len(pqr) = 14
      /\ \A i \in 1 .. 13 : pqr[i] = pq[i]
      /\ \A i \in 1 .. 1 : pqr[13 + i] = r[i]
  <2>1. 13 \in Nat /\ 1 \in Nat
    OBVIOUS
  <2>2. pq \in Seq(Pairs) /\ Len(pq) = 13 /\ r \in Seq(Pairs) /\ Len(r) = 1
    BY <1>4, <1>6
  <2>3. Joined(Pairs, pqr, pq, r, 13, 1)
    BY <2>1, <2>2, Concatenated, Zenon
  <2> HIDE DEF pqr
  <2> QED
    BY <2>3 DEF Joined
<1> HIDE DEF pqr
<1>8. /\ all \in Seq(Pairs) /\ Len(all) = 20
      /\ \A i \in 1 .. 14 : all[i] = pqr[i]
      /\ \A i \in 1 .. 6 : all[14 + i] = z[i]
  <2>1. 14 \in Nat /\ 6 \in Nat
    OBVIOUS
  <2>2. pqr \in Seq(Pairs) /\ Len(pqr) = 14 /\ z \in Seq(Pairs) /\ Len(z) = 6
    BY <1>5, <1>7
  <2>3. Joined(Pairs, all, pqr, z, 14, 6)
    BY <2>1, <2>2, Concatenated, Zenon
  <2> HIDE DEF all
  <2> QED
    BY <2>3 DEF Joined
<1>9. Errors = all
  BY <1>1 DEF pq, pqr
<1> HIDE DEF all
<1>10. all[1] = <<0, "success">>
  BY <1>2, <1>6, <1>7, <1>8
<1>11. \A i \in 1 .. 12 : all[1 + i] = <<-i, NegativeNames[i]>>
  <2> TAKE i \in 1 .. 12
  <2>1. 1 + i \in 1 .. 13 /\ 1 + i \in 1 .. 14
    OBVIOUS
  <2>2. all[1 + i] = pqr[1 + i] /\ pqr[1 + i] = pq[1 + i] /\ pq[1 + i] = q[i]
    BY <1>6, <1>7, <1>8, <2>1
  <2> QED
    BY <1>3, <2>2
<1>12. all[14] = <<-99, "other">>
  BY <1>4, <1>7, <1>8
<1>13. \A i \in 1 .. 6 : all[14 + i][1] = i
  BY <1>5, <1>8
<1>14. DOMAIN all = 1 .. 20 /\ all[1][1] = 0
  BY <1>8, <1>10
<1> QED
  BY <1>9, <1>11, <1>12, <1>13, <1>14

\* An error of libusb has one of the documented names.
LEMMA LibusbErrorNamed == ASSUME NEW ec \in LibusbError PROVE ErrorName(ec) \in Errcode
<1> DEFINE at == CHOOSE i \in DOMAIN Errors : Errors[i][1] = ec
<1>1. \E i \in DOMAIN Errors : Errors[i][1] = ec
  <2>1. CASE ec = -99
    BY <2>1, ErrorsIs
  <2>2. CASE ec # -99
    <3>1. -ec \in 1 .. 12 /\ 1 + -ec \in 1 .. 20 /\ - (-ec) = ec
      BY <2>2 DEF LibusbError
    <3>2. Errors[1 + -ec] = <<- (-ec), NegativeNames[-ec]>>
      BY <3>1, ErrorsIs
    <3> QED
      BY <3>1, <3>2, ErrorsIs
  <2> QED
    BY <2>1, <2>2
<1>2. at \in 1 .. 20 /\ Errors[at][1] = ec
  BY <1>1, ErrorsIs
<1>3. ErrorName(ec) = Errors[at][2]
  BY <1>1 DEF ErrorName
<1> HIDE DEF at
<1>4. ec \in Int /\ ec < 0
  BY DEF LibusbError
<1>5. CASE at = 1
  BY <1>2, <1>4, <1>5, ErrorsIs
<1>6. CASE at \in 2 .. 13
  <2>1. at - 1 \in 1 .. 12 /\ 1 + (at - 1) = at
    BY <1>6
  <2>2. Errors[at] = <<- (at - 1), NegativeNames[at - 1]>>
    BY <2>1, ErrorsIs
  <2> QED
    BY <1>3, <2>1, <2>2, NegativeNamesIs
<1>7. CASE at = 14
  BY <1>3, <1>7, ErrorsIs DEF Errcode
<1>8. CASE at \in 15 .. 20
  <2>1. at - 14 \in 1 .. 6 /\ 14 + (at - 14) = at
    BY <1>8
  <2>2. Errors[at][1] = at - 14
    BY <2>1, ErrorsIs
  <2> QED
    BY <1>2, <1>4, <2>1, <2>2
<1> QED
  BY <1>2, <1>5, <1>6, <1>7, <1>8

\* A size is the code of no error.
LEMMA SizeUnknown == ASSUME NEW size \in {8, 64} PROVE ErrorName(size) = "unknown"
<1>1. ASSUME NEW i \in DOMAIN Errors, Errors[i][1] = size PROVE FALSE
  <2>1. i \in 1 .. 20
    BY ErrorsIs
  <2>2. CASE i = 1
    BY <1>1, <2>2, ErrorsIs
  <2>3. CASE i \in 2 .. 13
    <3>1. i - 1 \in 1 .. 12 /\ 1 + (i - 1) = i
      BY <2>3
    <3>2. Errors[i] = <<- (i - 1), NegativeNames[i - 1]>>
      BY <3>1, ErrorsIs
    <3> QED
      BY <1>1, <3>1, <3>2
  <2>4. CASE i = 14
    BY <1>1, <2>4, ErrorsIs
  <2>5. CASE i \in 15 .. 20
    <3>1. i - 14 \in 1 .. 6 /\ 14 + (i - 14) = i
      BY <2>5
    <3>2. Errors[i][1] = i - 14
      BY <3>1, ErrorsIs
    <3> QED
      BY <1>1, <3>1, <3>2
  <2> QED
    BY <2>1, <2>2, <2>3, <2>4, <2>5
<1> QED
  BY <1>1 DEF ErrorName

LEMMA ErrorsNamedStep ==
  ASSUME ErrorsNamed, [ReqNext]_reqVars
  PROVE  ErrorsNamed'
<1>1. ASSUME error' \in Errcode \cup {""} PROVE ErrorsNamed'
  BY <1>1 DEF ErrorsNamed, Errcode
<1>2. ASSUME UNCHANGED <<nargs, error>> PROVE ErrorsNamed'
  BY <1>2 DEF ErrorsNamed, Errcode
<1>3. ASSUME NEW n, NEW S, Fails(n, S) PROVE ErrorsNamed'
  BY <1>1, <1>3, LibusbErrorNamed DEF Fails, RaiseIn
<1>4. ASSUME NEW n, NEW S, RaiseIn(n, S, "") \/ Raise(S, "") PROVE ErrorsNamed'
  BY <1>1, <1>4 DEF RaiseIn, Raise
<1>5. ASSUME NEW n, NEW k, Answers(n, k) PROVE ErrorsNamed'
  BY <1>1, <1>5 DEF Answers
<1>6. ASSUME NEW n, NEW f, NEW k, Enter(n, f, k) PROVE ErrorsNamed'
  BY <1>1, <1>6 DEF Enter
<1>7. ASSUME NEW fs, NEW k, Advance(fs, k) PROVE ErrorsNamed'
  BY <1>2, <1>7 DEF Advance
<1>8. ASSUME NEW S, NEW k, Return(S, k) PROVE ErrorsNamed'
  BY <1>2, <1>8 DEF Return
<1>9. ASSUME NEW size \in {8, 64}, RaiseIn(2, {}, ErrorName(size)) PROVE ErrorsNamed'
  BY <1>9, SizeUnknown DEF RaiseIn, ErrorsNamed
<1>10. CASE UNCHANGED reqVars
  BY <1>2, <1>10 DEF reqVars
<1>11. CASE GetNumber \/ DeviceRequest \/ SynchTransfer \/ GetNextTimeout \/ Library
  BY <1>3, <1>4, <1>5, <1>11 DEF GetNumber, DeviceRequest, SynchTransfer, GetNextTimeout, Library
<1>12. CASE GetMaxPacketSize
  BY <1>3, <1>9, <1>12 DEF GetMaxPacketSize
<1>13. CASE GetDescriptor \/ GetPortNumbers
  BY <1>3, <1>6, <1>7, <1>8, <1>13 DEF GetDescriptor, GetPortNumbers
<1>14. CASE Streams \/ CheckElement \/ CallStreams
  BY <1>3, <1>4, <1>6, <1>7, <1>8, <1>14 DEF Streams, CheckElement, CallStreams
<1>15. CASE GetDeviceDescriptor \/ GetConfigDescriptor \/ GetBosDescriptor
  BY <1>3, <1>4, <1>6, <1>7, <1>8, <1>15
     DEF GetDeviceDescriptor, GetConfigDescriptor, GetBosDescriptor
<1>16. CASE NextConfig \/ NextInterface \/ NextAltsetting \/ NextEndpoint \/ Companion
  BY <1>3, <1>4, <1>7, <1>16
     DEF NextConfig, NextInterface, NextAltsetting, NextEndpoint, Companion
<1>17. CASE EndEndpoint \/ EndAltsetting \/ EndInterface \/ EndConfig \/ EndDevice
  BY <1>7, <1>8, <1>17 DEF EndEndpoint, EndAltsetting, EndInterface, EndConfig, EndDevice
<1> QED
  BY <1>10, <1>11, <1>12, <1>13, <1>14, <1>15, <1>16, <1>17 DEF ReqNext, Descriptors

-----------------------------------------------------------------------------
(* The lists of codes and names.                                           *)

\* A list of n codes between lo and hi and their names, of S: the codes ascend, and
\* the names are different.
Listed(s, n, lo, hi, S) ==
  /\ s \in Seq(Nat \X S) /\ Len(s) = n
  /\ \A i \in 1 .. n : s[i][1] \in lo .. hi
  /\ \A i, j \in 1 .. n : i < j => s[i][1] < s[j][1]
  /\ \A i, j \in 1 .. n : s[i][2] = s[j][2] => i = j

\* Different names.
Different(names, n, S) ==
  /\ names \in Seq(S) /\ Len(names) = n
  /\ \A i, j \in 1 .. n : names[i] = names[j] => i = j

Ascending(codes, n, lo, hi) ==
  /\ \A i \in 1 .. n : codes[i] \in lo .. hi
  /\ \A i, j \in 1 .. n : i < j => codes[i] < codes[j]

LEMMA CodedListed ==
  ASSUME NEW S, NEW n \in Nat, NEW names, Different(names, n, S),
         NEW codes, NEW lo \in Nat, NEW hi \in Nat, Ascending(codes, n, lo, hi)
  PROVE  Listed(Coded(codes, names), n, lo, hi, S)
<1> DEFINE s == Coded(codes, names)
<1>1. s = [i \in 1 .. n |-> <<codes[i], names[i]>>]
  BY DEF Coded, Different
<1>2. ASSUME NEW i \in 1 .. n
      PROVE  s[i] \in Nat \X S /\ s[i][1] = codes[i] /\ s[i][2] = names[i]
  <2>1. codes[i] \in Nat /\ names[i] \in S
    BY DEF Different, Ascending
  <2> QED
    BY <1>1, <2>1
<1>3. s \in [1 .. n -> Nat \X S]
  BY <1>1, <1>2
<1> HIDE DEF s
<1>4. s \in Seq(Nat \X S) /\ Len(s) = n
  BY <1>3, FunctionIsSequence, Zenon
<1>5. \A i \in 1 .. n : s[i][1] \in lo .. hi
  BY <1>2 DEF Ascending
<1>6. \A i, j \in 1 .. n : i < j => s[i][1] < s[j][1]
  BY <1>2 DEF Ascending
<1>7. \A i, j \in 1 .. n : s[i][2] = s[j][2] => i = j
  BY <1>2 DEF Different
<1> QED
  BY <1>4, <1>5, <1>6, <1>7 DEF Listed, s

LEMMA NumberedListed ==
  ASSUME NEW S, NEW n \in Nat, NEW names, Different(names, n, S), NEW first \in Nat
  PROVE  Listed(Numbered(first, names), n, first, first + n, S)
<1> DEFINE codes == [i \in 1 .. n |-> first + i - 1]
<1>1. Ascending(codes, n, first, first + n)
  BY DEF Ascending
<1>2. Numbered(first, names) = Coded(codes, names)
  BY DEF Numbered, Coded, Different
<1> HIDE DEF codes
<1>3. first + n \in Nat
  OBVIOUS
<1> QED
  BY <1>1, <1>2, <1>3, CodedListed

\* One list, then another of greater codes and other names.
LEMMA ConcatListed ==
  ASSUME NEW S, NEW T, NEW m \in Nat, NEW n \in Nat, NEW s, NEW t,
         NEW a \in Nat, NEW b \in Nat, NEW c \in Nat, NEW d \in Nat,
         Listed(s, m, a, b, S), Listed(t, n, c, d, T), a <= c, b < c, b <= d,
         S \cap T = {}
  PROVE  Listed(s \o t, m + n, a, d, S \cup T)
<1> DEFINE P == Nat \X (S \cup T)
           u == s \o t
<1>1. s \in Seq(P) /\ t \in Seq(P) /\ Len(s) = m /\ Len(t) = n
  <2>1. \A i \in 1 .. m : s[i] \in P
    BY DEF Listed
  <2>2. \A i \in 1 .. n : t[i] \in P
    BY DEF Listed
  <2>3. s \in [1 .. m -> P] /\ t \in [1 .. n -> P]
    BY <2>1, <2>2 DEF Listed
  <2> QED
    BY <2>3, FunctionIsSequence, Zenon
<1>2. Joined(P, u, s, t, m, n)
  BY <1>1, Concatenated, Zenon
<1> HIDE DEF u
<1>3. ASSUME NEW i \in 1 .. m + n, i <= m
      PROVE  i \in 1 .. m /\ u[i][1] = s[i][1] /\ u[i][2] = s[i][2] /\ s[i][1] \in a .. b
               /\ s[i][2] \in S
  <2>1. i \in 1 .. m
    BY <1>3
  <2>2. s[i] \in Nat \X S
    BY <2>1 DEF Listed
  <2> QED
    BY <1>2, <2>1, <2>2 DEF Joined, Listed
<1>4. ASSUME NEW i \in 1 .. m + n, ~ (i <= m)
      PROVE  /\ i - m \in 1 .. n /\ u[i][1] = t[i - m][1] /\ u[i][2] = t[i - m][2]
             /\ t[i - m][1] \in c .. d /\ t[i - m][2] \in T
  <2>1. i - m \in 1 .. n /\ m + (i - m) = i
    BY <1>4
  <2>2. t[i - m] \in Nat \X T
    BY <2>1 DEF Listed
  <2> QED
    BY <1>2, <2>1, <2>2 DEF Joined, Listed
<1>5. u \in Seq(P) /\ Len(u) = m + n
  BY <1>2 DEF Joined
<1>6. \A i \in 1 .. m + n : u[i][1] \in a .. d
  <2> TAKE i \in 1 .. m + n
  <2> QED
    BY <1>3, <1>4
<1>7. ASSUME NEW i \in 1 .. m + n, NEW j \in 1 .. m + n, i < j PROVE u[i][1] < u[j][1]
  <2>1. CASE j <= m
    <3>1. i <= m
      BY <1>7, <2>1
    <3> QED
      BY <1>3, <1>7, <2>1, <3>1 DEF Listed
  <2>2. CASE ~ (j <= m) /\ i <= m
    BY <1>3, <1>4, <2>2
  <2>3. CASE ~ (i <= m)
    <3>1. ~ (j <= m) /\ i - m < j - m
      BY <1>7, <2>3
    <3> QED
      BY <1>4, <2>3, <3>1 DEF Listed
  <2> QED
    BY <2>1, <2>2, <2>3
<1>8. ASSUME NEW i \in 1 .. m + n, NEW j \in 1 .. m + n, u[i][2] = u[j][2] PROVE i = j
  <2>1. CASE i <= m /\ j <= m
    BY <1>3, <1>8, <2>1 DEF Listed
  <2>2. CASE ~ (i <= m) /\ ~ (j <= m)
    <3>1. i - m \in 1 .. n /\ j - m \in 1 .. n /\ t[i - m][2] = t[j - m][2]
      BY <1>4, <1>8, <2>2
    <3>2. i - m = j - m
      BY <3>1 DEF Listed
    <3> QED
      BY <3>2
  <2>3. CASE i <= m /\ ~ (j <= m)
    BY <1>3, <1>4, <1>8, <2>3
  <2>4. CASE ~ (i <= m) /\ j <= m
    BY <1>3, <1>4, <1>8, <2>4
  <2> QED
    BY <2>1, <2>2, <2>3, <2>4
<1> QED
  BY <1>5, <1>6, <1>7, <1>8 DEF Listed, u


\* A list of the module: some names, each with a code of its own, in ascending order.
Named(s) ==
  /\ Len(s) \in Nat \ {0} /\ DOMAIN s = 1 .. Len(s)
  /\ \A i \in 1 .. Len(s) : s[i][1] \in Nat
  /\ \A i, j \in 1 .. Len(s) : i < j => s[i][1] < s[j][1]
  /\ \A i, j \in 1 .. Len(s) : s[i][2] = s[j][2] => i = j

LEMMA ListedNamed ==
  ASSUME NEW s, NEW n \in Nat \ {0}, NEW lo \in Nat, NEW hi \in Nat, NEW S,
         Listed(s, n, lo, hi, S)
  PROVE  Named(s)
<1>1. Len(s) = n /\ DOMAIN s = 1 .. n
  BY DEF Listed
<1>2. \A i \in 1 .. n : s[i][1] \in Nat
  BY DEF Listed
<1> QED
  BY <1>1, <1>2 DEF Listed, Named

LEMMA NumberedNamed ==
  ASSUME NEW S, NEW n \in Nat \ {0}, NEW names, Different(names, n, S), NEW first \in Nat
  PROVE  Named(Numbered(first, names))
<1>1. Listed(Numbered(first, names), n, first, first + n, S)
  BY NumberedListed
<1>2. first + n \in Nat
  OBVIOUS
<1> QED
  BY <1>1, <1>2, ListedNamed

LEMMA ClassNamesNamed == Named(ClassNames)
<1> DEFINE p == <<"per interface", "audio", "cdc", "hid">>
           P == {"per interface", "audio", "cdc", "hid"}
           q == <<"physical", "image", "printer", "mass storage", "hub", "cdc data",
                  "smart card">>
           Q == {"physical", "image", "printer", "mass storage", "hub", "cdc data",
                  "smart card"}
           r == <<"content security", "video", "personal healthcare", "audio video",
                  "billboard", "type c bridge">>
           R == {"content security", "video", "personal healthcare", "audio video",
                  "billboard", "type c bridge"}
           c == <<220, 224, 239, 254, 255>>
           t == <<"diagnostic", "wireless", "miscellaneous", "application specific",
                  "vendor specific">>
           T == {"diagnostic", "wireless", "miscellaneous", "application specific",
                  "vendor specific"}
<1>1. ClassNames = ((Numbered(0, p) \o Numbered(5, q)) \o Numbered(13, r)) \o Coded(c, t)
  BY DEF ClassNames
<1>2. Different(p, 4, P)
  BY DEF Different
<1>3. Different(q, 7, Q)
  BY DEF Different
<1>4. Different(r, 6, R)
  BY DEF Different
<1>5. Different(t, 5, T) /\ Ascending(c, 5, 220, 255)
  BY DEF Different, Ascending
<1>6. P \cap Q = {} /\ (P \cup Q) \cap R = {} /\ ((P \cup Q) \cup R) \cap T = {}
  OBVIOUS
<1> HIDE DEF p, q, r, c, t, P, Q, R, T
<1>7. /\ Listed(Numbered(0, p), 4, 0, 4, P)
      /\ Listed(Numbered(5, q), 7, 5, 12, Q)
      /\ Listed(Numbered(13, r), 6, 13, 19, R)
      /\ Listed(Coded(c, t), 5, 220, 255, T)
  <2>1. /\ 4 \in Nat /\ 7 \in Nat /\ 6 \in Nat /\ 0 \in Nat /\ 5 \in Nat /\ 13 \in Nat
        /\ 220 \in Nat /\ 255 \in Nat
        /\ 0 + 4 = 4 /\ 5 + 7 = 12 /\ 13 + 6 = 19
    OBVIOUS
  <2>2. /\ Listed(Numbered(0, p), 4, 0, 0 + 4, P)
        /\ Listed(Numbered(5, q), 7, 5, 5 + 7, Q)
        /\ Listed(Numbered(13, r), 6, 13, 13 + 6, R)
    BY <1>2, <1>3, <1>4, <2>1, NumberedListed, Zenon
  <2>3. Listed(Coded(c, t), 5, 220, 255, T)
    BY <1>5, <2>1, CodedListed, Zenon
  <2> QED
    BY <2>1, <2>2, <2>3, Zenon
<1> DEFINE pq == Numbered(0, p) \o Numbered(5, q)
           pqr == pq \o Numbered(13, r)
<1>8. Listed(pq, 11, 0, 12, P \cup Q)
  BY <1>6, <1>7, ConcatListed
<1> HIDE DEF pq
<1>9. Listed(pqr, 17, 0, 19, (P \cup Q) \cup R)
  BY <1>6, <1>7, <1>8, ConcatListed
<1> HIDE DEF pqr
<1>10. Listed(pqr \o Coded(c, t), 22, 0, 255, ((P \cup Q) \cup R) \cup T)
  BY <1>6, <1>7, <1>9, ConcatListed
<1> DEFINE S == ((P \cup Q) \cup R) \cup T
<1> HIDE DEF S
<1>11. ClassNames = pqr \o Coded(c, t)
  BY <1>1 DEF pqr, pq
<1>12. Listed(ClassNames, 22, 0, 255, S)
  BY <1>10, <1>11 DEF S
<1> QED
  BY <1>12, ListedNamed

LEMMA RequestNamesNamed ==
  Named(RequestNames) /\ \A i \in DOMAIN RequestNames : RequestNames[i][1] \in 0 .. 255
<1> DEFINE c == <<0, 1, 3>>
           p == <<"get status", "clear feature", "set feature">>
           P == {"get status", "clear feature", "set feature"}
           q == <<"set address", "get descriptor", "set descriptor", "get configuration",
                   "set configuration", "get interface", "set interface", "synch frame">>
           Q == {"set address", "get descriptor", "set descriptor", "get configuration",
                   "set configuration", "get interface", "set interface", "synch frame"}
           r == <<"set sel", "set isoch delay">>
           R == {"set sel", "set isoch delay"}
<1>1. RequestNames = (Coded(c, p) \o Numbered(5, q)) \o Numbered(48, r)
  BY DEF RequestNames
<1>2. Different(p, 3, P) /\ Ascending(c, 3, 0, 3)
  BY DEF Different, Ascending
<1>3. Different(q, 8, Q)
  BY DEF Different
<1>4. Different(r, 2, R)
  BY DEF Different
<1>5. P \cap Q = {} /\ (P \cup Q) \cap R = {}
  OBVIOUS
<1> HIDE DEF p, q, r, c, P, Q, R
<1>6. /\ Listed(Coded(c, p), 3, 0, 3, P)
      /\ Listed(Numbered(5, q), 8, 5, 13, Q)
      /\ Listed(Numbered(48, r), 2, 48, 50, R)
  <2>1. /\ 3 \in Nat /\ 8 \in Nat /\ 2 \in Nat /\ 0 \in Nat /\ 5 \in Nat /\ 48 \in Nat
        /\ 5 + 8 = 13 /\ 48 + 2 = 50
    OBVIOUS
  <2>2. Listed(Numbered(5, q), 8, 5, 5 + 8, Q) /\ Listed(Numbered(48, r), 2, 48, 48 + 2, R)
    BY <1>3, <1>4, <2>1, NumberedListed, Zenon
  <2>3. Listed(Coded(c, p), 3, 0, 3, P)
    BY <1>2, <2>1, CodedListed, Zenon
  <2> QED
    BY <2>1, <2>2, <2>3, Zenon
<1> DEFINE cpq == Coded(c, p) \o Numbered(5, q)
<1>7. Listed(cpq, 11, 0, 13, P \cup Q)
  BY <1>5, <1>6, ConcatListed
<1> HIDE DEF cpq
<1>8. Listed(cpq \o Numbered(48, r), 13, 0, 50, (P \cup Q) \cup R)
  BY <1>5, <1>6, <1>7, ConcatListed
<1> DEFINE S == (P \cup Q) \cup R
<1> HIDE DEF S
<1>9. RequestNames = cpq \o Numbered(48, r)
  BY <1>1 DEF cpq
<1>10. Listed(RequestNames, 13, 0, 50, S)
  BY <1>8, <1>9 DEF S
<1>11. Named(RequestNames)
  BY <1>10, ListedNamed
<1>12. \A i \in DOMAIN RequestNames : RequestNames[i][1] \in 0 .. 255
  <2>1. Len(RequestNames) = 13 /\ DOMAIN RequestNames = 1 .. 13
    BY <1>10, <1>11 DEF Named, Listed
  <2>2. \A i \in 1 .. 13 : RequestNames[i][1] \in 0 .. 50
    BY <1>10 DEF Listed
  <2> QED
    BY <2>1, <2>2
<1> QED
  BY <1>11, <1>12


\* The lists, one by one.
LEMMA DomainsAre ==
  /\ DOMAIN Mappings = 1 .. 16 /\ Len(Mappings) = 16
  /\ Mappings[1].domain = "type" /\ DomainNumber["type"] = 0
  /\ Mappings[2].domain = "class" /\ DomainNumber["class"] = 1
  /\ Mappings[3].domain = "speed" /\ DomainNumber["speed"] = 2
  /\ Mappings[4].domain = "option" /\ DomainNumber["option"] = 3
  /\ Mappings[5].domain = "loglevel" /\ DomainNumber["loglevel"] = 5
  /\ Mappings[6].domain = "direction" /\ DomainNumber["direction"] = 6
  /\ Mappings[7].domain = "transfertype" /\ DomainNumber["transfertype"] = 7
  /\ Mappings[8].domain = "standardrequest" /\ DomainNumber["standardrequest"] = 8
  /\ Mappings[9].domain = "requesttype" /\ DomainNumber["requesttype"] = 9
  /\ Mappings[10].domain = "requestrecipient" /\ DomainNumber["requestrecipient"] = 10
  /\ Mappings[11].domain = "isosynctype" /\ DomainNumber["isosynctype"] = 11
  /\ Mappings[12].domain = "isousagetype" /\ DomainNumber["isousagetype"] = 12
  /\ Mappings[13].domain = "capability" /\ DomainNumber["capability"] = 13
  /\ Mappings[14].domain = "hotplugevent" /\ DomainNumber["hotplugevent"] = 14
  /\ Mappings[15].domain = "transferstatus" /\ DomainNumber["transferstatus"] = 15
  /\ Mappings[16].domain = "bostype" /\ DomainNumber["bostype"] = 16
<1>1. DOMAIN Mappings = 1 .. 16
  BY DEF Mappings
<1>2. Len(Mappings) = 16
  BY DEF Mappings
<1>3. Mappings[1].domain = "type"
  BY DEF Mappings
<1>4. Mappings[2].domain = "class"
  BY DEF Mappings
<1>5. Mappings[3].domain = "speed"
  BY DEF Mappings
<1>6. Mappings[4].domain = "option"
  BY DEF Mappings
<1>7. Mappings[5].domain = "loglevel"
  BY DEF Mappings
<1>8. Mappings[6].domain = "direction"
  BY DEF Mappings
<1>9. Mappings[7].domain = "transfertype"
  BY DEF Mappings
<1>10. Mappings[8].domain = "standardrequest"
  BY DEF Mappings
<1>11. Mappings[9].domain = "requesttype"
  BY DEF Mappings
<1>12. Mappings[10].domain = "requestrecipient"
  BY DEF Mappings
<1>13. Mappings[11].domain = "isosynctype"
  BY DEF Mappings
<1>14. Mappings[12].domain = "isousagetype"
  BY DEF Mappings
<1>15. Mappings[13].domain = "capability"
  BY DEF Mappings
<1>16. Mappings[14].domain = "hotplugevent"
  BY DEF Mappings
<1>17. Mappings[15].domain = "transferstatus"
  BY DEF Mappings
<1>18. Mappings[16].domain = "bostype"
  BY DEF Mappings
<1>19. /\ DomainNumber["type"] = 0 /\ DomainNumber["class"] = 1 /\ DomainNumber["speed"] = 2
       /\ DomainNumber["option"] = 3 /\ DomainNumber["loglevel"] = 5
       /\ DomainNumber["direction"] = 6 /\ DomainNumber["transfertype"] = 7
       /\ DomainNumber["standardrequest"] = 8 /\ DomainNumber["requesttype"] = 9
       /\ DomainNumber["requestrecipient"] = 10 /\ DomainNumber["isosynctype"] = 11
       /\ DomainNumber["isousagetype"] = 12 /\ DomainNumber["capability"] = 13
       /\ DomainNumber["hotplugevent"] = 14 /\ DomainNumber["transferstatus"] = 15
       /\ DomainNumber["bostype"] = 16
  BY DEF DomainNumber
<1> QED
  BY <1>1, <1>2, <1>3, <1>4, <1>5, <1>6, <1>7, <1>8, <1>9,
     <1>10, <1>11, <1>12, <1>13, <1>14, <1>15, <1>16, <1>17, <1>18, <1>19, Zenon

LEMMA NamesAre ==
  /\ Mappings[1].names = TypeNames
  /\ Mappings[2].names = ClassNames
  /\ Mappings[3].names = Numbered(0, <<"unknown", "low", "full", "high", "super",
                        "super plus">>)
  /\ Mappings[4].names = Numbered(0, <<"log level", "use usbdk", "weak authority">>)
  /\ Mappings[5].names = Numbered(0, <<"none", "error", "warning", "info", "debug">>)
  /\ Mappings[6].names = Coded(<<0, 128>>, <<"out", "in">>)
  /\ Mappings[7].names = Numbered(0, <<"control", "isochronous", "bulk", "interrupt">>)
  /\ Mappings[8].names = RequestNames
  /\ Mappings[9].names = Coded(<<0, 32, 64, 96>>, <<"standard", "class", "vendor",
                        "reserved">>)
  /\ Mappings[10].names = Numbered(0, <<"device", "interface", "endpoint", "other">>)
  /\ Mappings[11].names = Numbered(0, <<"none", "async", "adaptive", "sync">>)
  /\ Mappings[12].names = Numbered(0, <<"data", "feedback", "implicit">>)
  /\ Mappings[13].names = Coded(<<1, 256, 257>>, <<"hotplug", "hid access",
                        "detach kernel driver">>)
  /\ Mappings[14].names = Numbered(1, <<"attached", "detached">>)
  /\ Mappings[15].names = StatusNames
  /\ Mappings[16].names = BosNames
<1>1. Mappings[1].names = TypeNames
  BY DEF Mappings
<1>2. Mappings[2].names = ClassNames
  BY DEF Mappings
<1>3. Mappings[3].names = Numbered(0, <<"unknown", "low", "full", "high", "super",
                        "super plus">>)
  BY DEF Mappings
<1>4. Mappings[4].names = Numbered(0, <<"log level", "use usbdk", "weak authority">>)
  BY DEF Mappings
<1>5. Mappings[5].names = Numbered(0, <<"none", "error", "warning", "info", "debug">>)
  BY DEF Mappings
<1>6. Mappings[6].names = Coded(<<0, 128>>, <<"out", "in">>)
  BY DEF Mappings
<1>7. Mappings[7].names = Numbered(0, <<"control", "isochronous", "bulk", "interrupt">>)
  BY DEF Mappings
<1>8. Mappings[8].names = RequestNames
  BY DEF Mappings
<1>9. Mappings[9].names = Coded(<<0, 32, 64, 96>>, <<"standard", "class", "vendor",
                        "reserved">>)
  BY DEF Mappings
<1>10. Mappings[10].names = Numbered(0, <<"device", "interface", "endpoint", "other">>)
  BY DEF Mappings
<1>11. Mappings[11].names = Numbered(0, <<"none", "async", "adaptive", "sync">>)
  BY DEF Mappings
<1>12. Mappings[12].names = Numbered(0, <<"data", "feedback", "implicit">>)
  BY DEF Mappings
<1>13. Mappings[13].names = Coded(<<1, 256, 257>>, <<"hotplug", "hid access",
                        "detach kernel driver">>)
  BY DEF Mappings
<1>14. Mappings[14].names = Numbered(1, <<"attached", "detached">>)
  BY DEF Mappings
<1>15. Mappings[15].names = StatusNames
  BY DEF Mappings
<1>16. Mappings[16].names = BosNames
  BY DEF Mappings
<1> QED
  BY <1>1, <1>2, <1>3, <1>4, <1>5, <1>6, <1>7, <1>8, <1>9,
     <1>10, <1>11, <1>12, <1>13, <1>14, <1>15, <1>16, Zenon

LEMMA AllNamed == \A d \in 1 .. 16 : Named(Mappings[d].names)
<1>1. Named(Mappings[1].names)
  <2> DEFINE names == <<"char", "uchar", "short", "ushort", "int", "uint", "long", "ulong",
                        "float", "double">>
             S == {"char", "uchar", "short", "ushort", "int", "uint", "long", "ulong", "float",
                   "double"}
  <2>1. Different(names, 10, S)
    BY DEF Different
  <2>2. Mappings[1].names = Numbered(1, names)
    BY NamesAre DEF TypeNames
  <2> HIDE DEF names, S
  <2>3. 10 \in Nat \ {0} /\ 1 \in Nat
    OBVIOUS
  <2> QED
    BY <2>1, <2>2, <2>3, NumberedNamed, Zenon
<1>2. Named(Mappings[2].names)
  BY NamesAre, ClassNamesNamed
<1>3. Named(Mappings[3].names)
  <2> DEFINE names == <<"unknown", "low", "full", "high", "super", "super plus">>
             S == {"unknown", "low", "full", "high", "super", "super plus"}
  <2>1. Different(names, 6, S)
    BY DEF Different
  <2>2. Mappings[3].names = Numbered(0, names)
    BY NamesAre
  <2> HIDE DEF names, S
  <2>3. 6 \in Nat \ {0} /\ 0 \in Nat
    OBVIOUS
  <2> QED
    BY <2>1, <2>2, <2>3, NumberedNamed, Zenon
<1>4. Named(Mappings[4].names)
  <2> DEFINE names == <<"log level", "use usbdk", "weak authority">>
             S == {"log level", "use usbdk", "weak authority"}
  <2>1. Different(names, 3, S)
    BY DEF Different
  <2>2. Mappings[4].names = Numbered(0, names)
    BY NamesAre
  <2> HIDE DEF names, S
  <2>3. 3 \in Nat \ {0} /\ 0 \in Nat
    OBVIOUS
  <2> QED
    BY <2>1, <2>2, <2>3, NumberedNamed, Zenon
<1>5. Named(Mappings[5].names)
  <2> DEFINE names == <<"none", "error", "warning", "info", "debug">>
             S == {"none", "error", "warning", "info", "debug"}
  <2>1. Different(names, 5, S)
    BY DEF Different
  <2>2. Mappings[5].names = Numbered(0, names)
    BY NamesAre
  <2> HIDE DEF names, S
  <2>3. 5 \in Nat \ {0} /\ 0 \in Nat
    OBVIOUS
  <2> QED
    BY <2>1, <2>2, <2>3, NumberedNamed, Zenon
<1>6. Named(Mappings[6].names)
  <2> DEFINE names == <<"out", "in">>
             S == {"out", "in"}
             codes == <<0, 128>>
  <2>1. Different(names, 2, S) /\ Ascending(codes, 2, 0, 128)
    BY DEF Different, Ascending
  <2>2. Mappings[6].names = Coded(codes, names)
    BY NamesAre
  <2> HIDE DEF names, S, codes
  <2>3. 2 \in Nat \ {0} /\ 2 \in Nat /\ 0 \in Nat /\ 128 \in Nat
    OBVIOUS
  <2>4. Listed(Coded(codes, names), 2, 0, 128, S)
    BY <2>1, <2>3, CodedListed, Zenon
  <2> QED
    BY <2>2, <2>3, <2>4, ListedNamed, Zenon
<1>7. Named(Mappings[7].names)
  <2> DEFINE names == <<"control", "isochronous", "bulk", "interrupt">>
             S == {"control", "isochronous", "bulk", "interrupt"}
  <2>1. Different(names, 4, S)
    BY DEF Different
  <2>2. Mappings[7].names = Numbered(0, names)
    BY NamesAre
  <2> HIDE DEF names, S
  <2>3. 4 \in Nat \ {0} /\ 0 \in Nat
    OBVIOUS
  <2> QED
    BY <2>1, <2>2, <2>3, NumberedNamed, Zenon
<1>8. Named(Mappings[8].names)
  BY NamesAre, RequestNamesNamed
<1>9. Named(Mappings[9].names)
  <2> DEFINE names == <<"standard", "class", "vendor", "reserved">>
             S == {"standard", "class", "vendor", "reserved"}
             codes == <<0, 32, 64, 96>>
  <2>1. Different(names, 4, S) /\ Ascending(codes, 4, 0, 96)
    BY DEF Different, Ascending
  <2>2. Mappings[9].names = Coded(codes, names)
    BY NamesAre
  <2> HIDE DEF names, S, codes
  <2>3. 4 \in Nat \ {0} /\ 4 \in Nat /\ 0 \in Nat /\ 96 \in Nat
    OBVIOUS
  <2>4. Listed(Coded(codes, names), 4, 0, 96, S)
    BY <2>1, <2>3, CodedListed, Zenon
  <2> QED
    BY <2>2, <2>3, <2>4, ListedNamed, Zenon
<1>10. Named(Mappings[10].names)
  <2> DEFINE names == <<"device", "interface", "endpoint", "other">>
             S == {"device", "interface", "endpoint", "other"}
  <2>1. Different(names, 4, S)
    BY DEF Different
  <2>2. Mappings[10].names = Numbered(0, names)
    BY NamesAre
  <2> HIDE DEF names, S
  <2>3. 4 \in Nat \ {0} /\ 0 \in Nat
    OBVIOUS
  <2> QED
    BY <2>1, <2>2, <2>3, NumberedNamed, Zenon
<1>11. Named(Mappings[11].names)
  <2> DEFINE names == <<"none", "async", "adaptive", "sync">>
             S == {"none", "async", "adaptive", "sync"}
  <2>1. Different(names, 4, S)
    BY DEF Different
  <2>2. Mappings[11].names = Numbered(0, names)
    BY NamesAre
  <2> HIDE DEF names, S
  <2>3. 4 \in Nat \ {0} /\ 0 \in Nat
    OBVIOUS
  <2> QED
    BY <2>1, <2>2, <2>3, NumberedNamed, Zenon
<1>12. Named(Mappings[12].names)
  <2> DEFINE names == <<"data", "feedback", "implicit">>
             S == {"data", "feedback", "implicit"}
  <2>1. Different(names, 3, S)
    BY DEF Different
  <2>2. Mappings[12].names = Numbered(0, names)
    BY NamesAre
  <2> HIDE DEF names, S
  <2>3. 3 \in Nat \ {0} /\ 0 \in Nat
    OBVIOUS
  <2> QED
    BY <2>1, <2>2, <2>3, NumberedNamed, Zenon
<1>13. Named(Mappings[13].names)
  <2> DEFINE names == <<"hotplug", "hid access", "detach kernel driver">>
             S == {"hotplug", "hid access", "detach kernel driver"}
             codes == <<1, 256, 257>>
  <2>1. Different(names, 3, S) /\ Ascending(codes, 3, 1, 257)
    BY DEF Different, Ascending
  <2>2. Mappings[13].names = Coded(codes, names)
    BY NamesAre
  <2> HIDE DEF names, S, codes
  <2>3. 3 \in Nat \ {0} /\ 3 \in Nat /\ 1 \in Nat /\ 257 \in Nat
    OBVIOUS
  <2>4. Listed(Coded(codes, names), 3, 1, 257, S)
    BY <2>1, <2>3, CodedListed, Zenon
  <2> QED
    BY <2>2, <2>3, <2>4, ListedNamed, Zenon
<1>14. Named(Mappings[14].names)
  <2> DEFINE names == <<"attached", "detached">>
             S == {"attached", "detached"}
  <2>1. Different(names, 2, S)
    BY DEF Different
  <2>2. Mappings[14].names = Numbered(1, names)
    BY NamesAre
  <2> HIDE DEF names, S
  <2>3. 2 \in Nat \ {0} /\ 1 \in Nat
    OBVIOUS
  <2> QED
    BY <2>1, <2>2, <2>3, NumberedNamed, Zenon
<1>15. Named(Mappings[15].names)
  <2> DEFINE names == <<"completed", "error", "timeout", "cancelled", "stall", "no device",
                        "overflow">>
             S == {"completed", "error", "timeout", "cancelled", "stall", "no device",
                   "overflow"}
  <2>1. Different(names, 7, S)
    BY DEF Different
  <2>2. Mappings[15].names = Numbered(0, names)
    BY NamesAre DEF StatusNames
  <2> HIDE DEF names, S
  <2>3. 7 \in Nat \ {0} /\ 0 \in Nat
    OBVIOUS
  <2> QED
    BY <2>1, <2>2, <2>3, NumberedNamed, Zenon
<1>16. Named(Mappings[16].names)
  <2> DEFINE names == <<"wireless usb", "usb 2 0 extension", "superspeed usb", "container id",
                        "platform", "power delivery", "battery info", "pd consumer port",
                        "pd provider port", "superspeed plus", "precision time measurement",
                        "wireless usb ext", "billboard", "authentication", "billboard ex",
                        "configuration summary">>
             S == {"wireless usb", "usb 2 0 extension", "superspeed usb", "container id",
                   "platform", "power delivery", "battery info", "pd consumer port",
                   "pd provider port", "superspeed plus", "precision time measurement",
                   "wireless usb ext", "billboard", "authentication", "billboard ex",
                   "configuration summary"}
  <2>1. Different(names, 16, S)
    BY DEF Different
  <2>2. Mappings[16].names = Numbered(1, names)
    BY NamesAre DEF BosNames
  <2> HIDE DEF names, S
  <2>3. 16 \in Nat \ {0} /\ 1 \in Nat
    OBVIOUS
  <2> QED
    BY <2>1, <2>2, <2>3, NumberedNamed, Zenon
<1> QED
  <2> SUFFICES ASSUME NEW d \in 1 .. 16 PROVE Named(Mappings[d].names)
    OBVIOUS
  <2>1. d \in {1, 2, 3, 4, 5, 6, 7, 8, 9, 10, 11, 12, 13, 14, 15, 16}
    OBVIOUS
  <2> QED
    BY <2>1, <1>1, <1>2, <1>3, <1>4, <1>5, <1>6, <1>7, <1>8, <1>9,
     <1>10, <1>11, <1>12, <1>13,
       <1>14, <1>15, <1>16, Zenon

\* The number of a domain in the trees.
NumberOf(d) == DomainNumber[Mappings[d].domain]

LEMMA NumbersAscend ==
  /\ \A d \in 1 .. 16 : NumberOf(d) \in Nat
  /\ \A c, d \in 1 .. 16 : c < d => NumberOf(c) < NumberOf(d)
  /\ \A c, d \in 1 .. 16 : NumberOf(c) = NumberOf(d) => c = d
<1>1. ASSUME NEW d \in 1 .. 16 PROVE NumberOf(d) = IF d <= 4 THEN d - 1 ELSE d
  <2>1. d \in {1, 2, 3, 4, 5, 6, 7, 8, 9, 10, 11, 12, 13, 14, 15, 16}
    OBVIOUS
  <2> QED
    BY <2>1, DomainsAre DEF NumberOf
<1> QED
  BY <1>1

-----------------------------------------------------------------------------
(* Loading and freeing the enums.                                          *)

\* The order in which moonusb_open_enums adds the names.
Before(p, q) == p[1] < q[1] \/ (p[1] = q[1] /\ p[2] < q[2])

\* After the last name.
End == <<17, 1>>

LEMMA PositionIs ==
  /\ \A p \in Positions : /\ p = <<p[1], p[2]>> /\ p[1] \in 1 .. 16
                          /\ p[2] \in 1 .. Len(Mappings[p[1]].names)
  /\ \A d \in 1 .. 16 : \A j \in 1 .. Len(Mappings[d].names) : <<d, j>> \in Positions
<1>1. DOMAIN Mappings = 1 .. 16
  BY DomainsAre
<1>2. \A d \in 1 .. 16 : DOMAIN Mappings[d].names = 1 .. Len(Mappings[d].names)
  BY AllNamed DEF Named
<1>3. ASSUME NEW p \in Positions
      PROVE  /\ p = <<p[1], p[2]>> /\ p[1] \in 1 .. 16
             /\ p[2] \in 1 .. Len(Mappings[p[1]].names)
  <2>1. PICK d \in 1 .. 16 : p \in {d} \X (1 .. Len(Mappings[d].names))
    BY <1>1, <1>2 DEF Positions
  <2> QED
    BY <2>1
<1>4. ASSUME NEW d \in 1 .. 16, NEW j \in 1 .. Len(Mappings[d].names)
      PROVE  <<d, j>> \in Positions
  <2>1. <<d, j>> \in {d} \X DOMAIN Mappings[d].names
    BY <1>2
  <2> QED
    BY <1>1, <2>1 DEF Positions
<1> QED
  BY <1>3, <1>4

\* A name, its code and its domain, at position p.
LEMMA RecordIs ==
  ASSUME NEW p \in Positions
  PROVE  /\ Record(p).at = p /\ Record(p).domain = NumberOf(p[1])
         /\ Record(p).code = Mappings[p[1]].names[p[2]][1]
         /\ Record(p).str = Mappings[p[1]].names[p[2]][2]
         /\ Record(p).domain \in Nat /\ Record(p).code \in Nat
<1>1. /\ Record(p).at = p /\ Record(p).domain = NumberOf(p[1])
      /\ Record(p).code = Mappings[p[1]].names[p[2]][1]
      /\ Record(p).str = Mappings[p[1]].names[p[2]][2]
  BY DEF Record, NumberOf
<1>2. p[1] \in 1 .. 16 /\ p[2] \in 1 .. Len(Mappings[p[1]].names)
  BY PositionIs
<1>3. NumberOf(p[1]) \in Nat /\ Mappings[p[1]].names[p[2]][1] \in Nat
  BY <1>2, NumbersAscend, AllNamed DEF Named
<1> QED
  BY <1>1, <1>3

\* No two records have the same key, in either tree.
LEMMA KeysDiffer ==
  ASSUME NEW p \in Positions, NEW q \in Positions, Record(p).domain = Record(q).domain
  PROVE  /\ p[1] = q[1]
         /\ Record(p).code = Record(q).code => p = q
         /\ Record(p).str = Record(q).str => p = q
         /\ Record(p).code <= Record(q).code <=> p[2] <= q[2]
<1>1. /\ p = <<p[1], p[2]>> /\ p[1] \in 1 .. 16 /\ p[2] \in 1 .. Len(Mappings[p[1]].names)
      /\ q = <<q[1], q[2]>> /\ q[1] \in 1 .. 16 /\ q[2] \in 1 .. Len(Mappings[q[1]].names)
  BY PositionIs
<1>2. p[1] = q[1]
  <2>1. NumberOf(p[1]) = NumberOf(q[1])
    BY RecordIs
  <2>2. p[1] \in 1 .. 16 /\ q[1] \in 1 .. 16
    BY <1>1
  <2> QED
    BY <2>1, <2>2, NumbersAscend, Zenon
<1> DEFINE s == Mappings[p[1]].names
           i == p[2]
           j == q[2]
<1>3. /\ Record(p).code = s[i][1] /\ Record(q).code = s[j][1]
      /\ Record(p).str = s[i][2] /\ Record(q).str = s[j][2]
  BY <1>2, RecordIs
<1>4. i \in 1 .. Len(s) /\ j \in 1 .. Len(s) /\ Named(s)
  BY <1>1, <1>2, AllNamed
<1>5. i = j => p = q
  BY <1>1, <1>2
<1> HIDE DEF s, i, j
<1>6. /\ i < j => s[i][1] < s[j][1]
      /\ j < i => s[j][1] < s[i][1]
      /\ s[i][2] = s[j][2] => i = j
      /\ s[i][1] \in Nat /\ s[j][1] \in Nat /\ i \in Nat /\ j \in Nat
  BY <1>4 DEF Named
<1>7. s[i][1] <= s[j][1] <=> i <= j
  BY <1>6
<1>8. s[i][1] = s[j][1] => i = j
  BY <1>6
<1> QED
  BY <1>2, <1>3, <1>5, <1>6, <1>7, <1>8 DEF i, j

LEMMA AfterIs ==
  ASSUME NEW p \in Positions
  PROVE  /\ After(p) \in Positions \cup {End}
         /\ After(p)[1] > Len(Mappings) <=> After(p) = End
         /\ \A q \in Positions : Before(q, After(p)) <=> Before(q, p) \/ q = p
<1> DEFINE d == p[1]
           j == p[2]
           n == Len(Mappings[p[1]].names)
<1>1. p = <<d, j>> /\ d \in 1 .. 16 /\ j \in 1 .. n
  BY PositionIs
<1>2. Len(Mappings) = 16
  BY DomainsAre
<1>3. n \in Nat \ {0}
  BY <1>1, AllNamed DEF Named
<1>4. After(p) = IF j < n THEN <<d, j + 1>> ELSE <<d + 1, 1>>
  BY DEF After
<1>5. ASSUME NEW q \in Positions
      PROVE  /\ q = <<q[1], q[2]>> /\ q[1] \in 1 .. 16 /\ q[2] \in Nat \ {0}
             /\ q[1] = d => q[2] <= n
  <2>1. /\ q = <<q[1], q[2]>> /\ q[1] \in 1 .. 16 /\ q[2] \in 1 .. Len(Mappings[q[1]].names)
    BY PositionIs
  <2>2. Len(Mappings[q[1]].names) \in Nat
    BY <2>1, AllNamed DEF Named
  <2> QED
    BY <2>1, <2>2
<1>6. CASE j < n
  <2>1. After(p) = <<d, j + 1>>
    BY <1>4, <1>6
  <2>2. j + 1 \in 1 .. Len(Mappings[d].names)
    BY <1>1, <1>3, <1>6
  <2>3. After(p) \in Positions
    BY <1>1, <2>1, <2>2, PositionIs
  <2>4. After(p)[1] = d /\ After(p)[2] = j + 1
    BY <2>1
  <2>5. After(p) # End
    BY <1>1, <2>4 DEF End
  <2> HIDE DEF d, j, n
  <2>6. ASSUME NEW q \in Positions PROVE Before(q, After(p)) <=> Before(q, p) \/ q = p
    <3>1. Before(q, After(p)) <=> (q[1] < d \/ (q[1] = d /\ q[2] < j + 1))
      BY <2>4 DEF Before
    <3>2. Before(q, p) <=> (q[1] < d \/ (q[1] = d /\ q[2] < j))
      BY DEF Before, d, j
    <3>3. q = p <=> (q[1] = d /\ q[2] = j)
      BY <1>1, <1>5
    <3>4. q[2] \in Nat /\ j \in Nat
      BY <1>1, <1>5
    <3> QED
      BY <3>1, <3>2, <3>3, <3>4
  <2> QED
    BY <1>1, <1>2, <2>3, <2>4, <2>5, <2>6
<1>7. CASE ~ (j < n)
  <2>1. After(p) = <<d + 1, 1>> /\ j = n
    BY <1>1, <1>3, <1>4, <1>7
  <2>2. After(p)[1] = d + 1 /\ After(p)[2] = 1
    BY <2>1
  <2>3. After(p) \in Positions \cup {End}
    <3>1. CASE d = 16
      BY <2>1, <3>1 DEF End
    <3>2. CASE d # 16
      <4>1. d + 1 \in 1 .. 16
        BY <1>1, <3>2
      <4>2. 1 \in 1 .. Len(Mappings[d + 1].names)
        <5>1. Named(Mappings[d + 1].names)
          BY <4>1, AllNamed, Zenon
        <5>2. Len(Mappings[d + 1].names) \in Nat \ {0}
          BY <5>1 DEF Named
        <5> QED
          BY <5>2
      <4> QED
        BY <2>1, <4>1, <4>2, PositionIs
    <3> QED
      BY <3>1, <3>2
  <2>4. After(p)[1] > 16 <=> After(p) = End
    BY <1>1, <2>1, <2>2 DEF End
  <2> HIDE DEF d, j, n
  <2>5. ASSUME NEW q \in Positions PROVE Before(q, After(p)) <=> Before(q, p) \/ q = p
    <3>1. Before(q, After(p)) <=> (q[1] < d + 1 \/ (q[1] = d + 1 /\ q[2] < 1))
      BY <2>2 DEF Before
    <3>2. Before(q, p) <=> (q[1] < d \/ (q[1] = d /\ q[2] < j))
      BY DEF Before, d, j
    <3>3. q = p <=> (q[1] = d /\ q[2] = j)
      BY <1>1, <1>5
    <3>4. q[2] \in Nat \ {0} /\ q[1] \in Nat /\ d \in Nat /\ j \in Nat /\ (q[1] = d => q[2] <= j)
      BY <1>1, <1>5, <2>1
    <3> QED
      BY <3>1, <3>2, <3>3, <3>4
  <2> QED
    BY <1>2, <2>3, <2>4, <2>5
<1> QED
  BY <1>6, <1>7

Added == {p \in Positions : Before(p, next)}
Addresses == {r.at : r \in code_tree}

\* The trees hold the records of names that have been added, all of them until the
\* process exits, and the heap holds these, and the record that is lost.
EnumsInv ==
  /\ phase \in {"loading", "loaded", "failed", "exiting", "exited"}
  /\ next \in Positions \cup {End}
  /\ phase = "loading" => next \in Positions
  /\ phase = "loaded" => next = End
  /\ phase = "failed" => next \in NoMemoryAt
  /\ code_tree = string_tree
  /\ code_tree \subseteq {Record(p) : p \in Added}
  /\ phase \in {"loading", "loaded", "failed"} => code_tree = {Record(p) : p \in Added}
  /\ Addresses \subseteq heap /\ heap \ Addresses \subseteq {next} \cap NoMemoryAt
  /\ phase \in {"loading", "loaded"} => heap = Addresses
  /\ phase = "exited" => code_tree = {}

\* The records of a tree are told apart by either key.
LEMMA OneOfKey ==
  ASSUME EnumsInv, NEW r \in code_tree
  PROVE  /\ \E p \in Positions : r = Record(p) /\ Before(p, next)
         /\ CodeSearch(r.domain, r.code) = {r} /\ StrSearch(r.domain, r.str) = {r}
         /\ \A q \in code_tree : q.at = r.at => q = r
<1>1. \A q \in code_tree : \E p \in Positions : q = Record(p) /\ Before(p, next)
  BY DEF EnumsInv, Added
<1>2. PICK p \in Positions : r = Record(p)
  BY <1>1
<1>3. ASSUME NEW q \in code_tree, q.domain = r.domain, q.code = r.code \/ q.str = r.str
      PROVE  q = r
  <2>1. PICK x \in Positions : q = Record(x)
    BY <1>1
  <2>2. x = p
    BY <1>2, <1>3, <2>1, KeysDiffer
  <2> QED
    BY <1>2, <2>1, <2>2
<1>4. CodeSearch(r.domain, r.code) = {r}
  BY <1>3 DEF CodeSearch
<1>5. string_tree = code_tree
  BY DEF EnumsInv
<1>6. StrSearch(r.domain, r.str) = {r}
  BY <1>3, <1>5 DEF StrSearch
<1>7. ASSUME NEW q \in code_tree, q.at = r.at PROVE q = r
  <2>1. PICK x \in Positions : q = Record(x)
    BY <1>1
  <2>2. x = p
    BY <1>2, <1>7, <2>1, RecordIs
  <2> QED
    BY <1>2, <2>1, <2>2
<1> QED
  BY <1>1, <1>4, <1>6, <1>7

\* The search for the first record finds one, where there is one.
LEMMA FirstExists ==
  ASSUME EnumsInv, NEW d \in Nat, NEW c \in Nat, NEW r \in code_tree, Precedes(d, c, r)
  PROVE  \E f \in CodeFirst(d, c) : Precedes(f.domain, f.code, r)
<1> DEFINE F == {q \in code_tree : Precedes(d, c, q)}
           Domains == {q.domain : q \in F}
<1>1. \A q \in code_tree : q.domain \in Nat /\ q.code \in Nat
  BY OneOfKey, RecordIs
<1>2. Domains \in SUBSET Nat /\ Domains # {}
  BY <1>1
<1>3. PICK x \in Domains : \A y \in Domains : x <= y
  BY <1>2, Least
<1> DEFINE Codez == {q.code : q \in {q \in F : q.domain = x}}
<1>4. Codez \in SUBSET Nat /\ Codez # {}
  BY <1>1, <1>3
<1>5. PICK z \in Codez : \A y \in Codez : z <= y
  BY <1>4, Least
<1>6. PICK f \in F : f.domain = x /\ f.code = z
  BY <1>5
<1>7. ASSUME NEW q \in F PROVE Precedes(f.domain, f.code, q)
  <2>1. f.domain <= q.domain /\ f.domain \in Nat /\ q.domain \in Nat
    BY <1>1, <1>3, <1>6
  <2>2. q.domain = f.domain => f.code <= q.code
    BY <1>5, <1>6
  <2> QED
    BY <2>1, <2>2 DEF Precedes
<1>8. f \in CodeFirst(d, c)
  BY <1>7 DEF CodeFirst
<1> QED
  BY <1>7, <1>8

LEMMA EnumsInitially == EnumsInit => EnumsInv
<1> SUFFICES ASSUME EnumsInit PROVE EnumsInv
  OBVIOUS
<1>1. phase = "loading" /\ next = <<1, 1>> /\ code_tree = {} /\ string_tree = {} /\ heap = {}
  BY DEF EnumsInit
<1>2. <<1, 1>> \in Positions
  <2>1. Len(Mappings[1].names) \in Nat \ {0}
    BY AllNamed DEF Named
  <2> QED
    BY <2>1, PositionIs
<1>3. Added = {}
  <2>1. next[1] = 1 /\ next[2] = 1
    BY <1>1
  <2>2. ASSUME NEW p \in Positions, Before(p, next) PROVE FALSE
    <3>1. p[1] \in 1 .. 16 /\ p[2] \in 1 .. Len(Mappings[p[1]].names)
      BY PositionIs
    <3>2. Len(Mappings[p[1]].names) \in Nat
      BY <3>1, AllNamed DEF Named
    <3> QED
      BY <2>1, <2>2, <3>1, <3>2 DEF Before
  <2> QED
    BY <2>2 DEF Added
<1>4. Addresses = {} /\ {Record(p) : p \in Added} = {}
  BY <1>1, <1>3 DEF Addresses
<1> QED
  BY <1>1, <1>2, <1>4 DEF EnumsInv

LEMMA EnumsNewStep ==
  ASSUME EnumsInv, EnumsNew
  PROVE  EnumsInv'
<1> DEFINE r == Record(next)
<1>1. phase = "loading" /\ next \in Positions /\ heap = Addresses
  BY DEF EnumsNew, EnumsInv
<1>2. code_tree = {Record(p) : p \in Added} /\ string_tree = code_tree
  BY <1>1 DEF EnumsInv
<1>3. ASSUME NEW q \in code_tree, q.domain = r.domain, q.code = r.code \/ q.str = r.str
      PROVE  FALSE
  <2>1. PICK p \in Positions : q = Record(p) /\ Before(p, next)
    BY <1>2 DEF Added
  <2>2. p = next
    BY <1>1, <1>3, <2>1, KeysDiffer
  <2>3. p[1] \in 1 .. 16 /\ p[2] \in 1 .. Len(Mappings[p[1]].names)
    BY PositionIs
  <2>4. Len(Mappings[p[1]].names) \in Nat
    BY <2>3, AllNamed DEF Named
  <2> QED
    BY <2>1, <2>2, <2>3, <2>4 DEF Before
<1>4. CodeSearch(r.domain, r.code) = {} /\ StrSearch(r.domain, r.str) = {}
  BY <1>2, <1>3 DEF CodeSearch, StrSearch
<1>5. /\ code_tree' = code_tree \cup {r} /\ string_tree' = string_tree \cup {r}
      /\ heap' = heap \cup {r.at} /\ next' = After(next)
      /\ phase' = IF next'[1] > Len(Mappings) THEN "loaded" ELSE phase
  BY <1>4 DEF EnumsNew
<1>6. r.at = next
  BY <1>1, RecordIs
<1>7. /\ next' \in Positions \cup {End}
      /\ next'[1] > Len(Mappings) <=> next' = End
      /\ \A q \in Positions : Before(q, next') <=> Before(q, next) \/ q = next
  BY <1>1, <1>5, AfterIs
<1>8. Added' = Added \cup {next}
  BY <1>1, <1>7 DEF Added
<1>9. code_tree' = {Record(p) : p \in Added'}
  BY <1>2, <1>5, <1>8
<1>10. Addresses' = Addresses \cup {next}
  BY <1>5, <1>6 DEF Addresses
<1>11. heap' = Addresses'
  BY <1>1, <1>5, <1>6, <1>10
<1>12. phase' \in {"loading", "loaded"} /\ (phase' = "loading" => next' \in Positions)
         /\ (phase' = "loaded" => next' = End)
  BY <1>1, <1>5, <1>7
<1> HIDE DEF r
<1> QED
  BY <1>2, <1>5, <1>7, <1>9, <1>11, <1>12 DEF EnumsInv

LEMMA EnumsFreeStep ==
  ASSUME EnumsInv, EnumsFree
  PROVE  EnumsInv'
<1>1. PICK r \in CodeFirst(0, 0) :
        /\ phase = "exiting"
        /\ code_tree' = code_tree \ ({r} \cap CodeSearch(r.domain, r.code))
        /\ string_tree' = string_tree \ ({r} \cap StrSearch(r.domain, r.str))
        /\ heap' = heap \ {r.at}
        /\ UNCHANGED <<phase, next>>
  BY DEF EnumsFree
<1>2. r \in code_tree
  BY DEF CodeFirst
<1>3. code_tree' = code_tree \ {r} /\ string_tree' = string_tree \ {r}
  BY <1>1, <1>2, OneOfKey
<1>4. Addresses' = Addresses \ {r.at}
  BY <1>2, <1>3, OneOfKey DEF Addresses
<1>5. Added' = Added
  BY <1>1 DEF Added
<1>6. /\ code_tree' = string_tree'
      /\ code_tree' \subseteq {Record(p) : p \in Added'}
  BY <1>3, <1>5 DEF EnumsInv
<1>7. Addresses' \subseteq heap' /\ heap' \ Addresses' \subseteq {next'} \cap NoMemoryAt
  BY <1>1, <1>4 DEF EnumsInv
<1> QED
  BY <1>1, <1>6, <1>7 DEF EnumsInv

LEMMA EnumsStep ==
  ASSUME EnumsInv, [EnumsNext]_enumVars
  PROVE  EnumsInv'
<1>1. CASE EnumsNew
  BY <1>1, EnumsNewStep
<1>2. CASE OutOfMemory
  <2>1. /\ phase = "loading" /\ next \in NoMemoryAt /\ heap' \in {heap, heap \cup {next}}
        /\ phase' = "failed" /\ UNCHANGED <<next, code_tree, string_tree>>
    BY <1>2 DEF OutOfMemory
  <2>2. Added' = Added /\ Addresses' = Addresses
    BY <2>1 DEF Added, Addresses
  <2> QED
    BY <2>1, <2>2 DEF EnumsInv
<1>3. CASE EnumsFree
  BY <1>3, EnumsFreeStep
<1>4. CASE AtExit \/ Exited \/ UNCHANGED enumVars
  <2>1. /\ UNCHANGED <<next, code_tree, string_tree, heap>>
        /\ phase' \in {phase, "exiting", "exited"}
    BY <1>4 DEF AtExit, Exited, enumVars
  <2>2. Added' = Added /\ Addresses' = Addresses
    BY <2>1 DEF Added, Addresses
  <2>3. phase' = "exited" => code_tree = {}
    <3>1. CASE Exited
      <4>1. CodeFirst(0, 0) = {}
        BY <3>1 DEF Exited
      <4>2. ASSUME NEW r \in code_tree PROVE FALSE
        <5>1. r.domain \in Nat /\ r.code \in Nat
          BY OneOfKey, RecordIs
        <5>2. Precedes(0, 0, r) /\ 0 \in Nat
          BY <5>1 DEF Precedes
        <5> QED
          BY <4>1, <5>2, FirstExists
      <4> QED
        BY <4>2
    <3>2. CASE ~ Exited
      BY <1>4, <3>2 DEF AtExit, enumVars, EnumsInv
    <3> QED
      BY <3>1, <3>2
  <2> QED
    BY <2>1, <2>2, <2>3 DEF EnumsInv
<1> QED
  BY <1>1, <1>2, <1>3, <1>4 DEF EnumsNext

LEMMA TreesAlwaysAgree == ASSUME EnumsInv PROVE TreesAgree
<1>1. \A r \in code_tree : CodeSearch(r.domain, r.code) = {r} /\ StrSearch(r.domain, r.str) = {r}
  BY OneOfKey
<1> QED
  BY <1>1 DEF EnumsInv, TreesAgree, Addresses

LEMMA LoadedAlwaysWhole == ASSUME EnumsInv PROVE LoadedWhole
<1>1. ASSUME phase = "loaded", NEW p \in Positions
      PROVE  LET r == Record(p)
             IN  Push(r.domain, r.code) = {r.str} /\ Check(r.domain, r.str) = {r.code}
  <2> DEFINE r == Record(p)
  <2>1. next = End
    BY <1>1 DEF EnumsInv
  <2>2. Before(p, next)
    <3>1. p[1] \in 1 .. 16
      BY PositionIs
    <3> QED
      BY <2>1, <3>1 DEF Before, End
  <2>3. r \in code_tree
    BY <1>1, <2>2 DEF EnumsInv, Added
  <2>4. CodeSearch(r.domain, r.code) = {r} /\ StrSearch(r.domain, r.str) = {r}
    BY <2>3, OneOfKey
  <2> HIDE DEF r
  <2>5. Push(r.domain, r.code) = {r.str} /\ Check(r.domain, r.str) = {r.code}
    BY <2>4 DEF Push, Check
  <2> QED
    BY <2>5 DEF r
<1> QED
  BY <1>1 DEF EnumsInv, LoadedWhole

-----------------------------------------------------------------------------
(* The names of a domain.                                                  *)

\* How many elements of S are not greater than j.
Rank(S, j) == Cardinality({i \in S : i <= j})

LEMMA RankIs ==
  ASSUME NEW n \in Nat, NEW S \in SUBSET (1 .. n)
  PROVE  /\ IsFiniteSet(S) /\ Cardinality(S) \in Nat
         /\ \A j \in S : IsFiniteSet({i \in S : i <= j}) /\ Rank(S, j) \in 1 .. Cardinality(S)
         /\ \A j, k \in S : Rank(S, j) = Rank(S, k) => j = k
<1>1. IsFiniteSet(1 .. n)
  BY FS_Interval
<1>2. IsFiniteSet(S) /\ Cardinality(S) \in Nat
  BY <1>1, FS_Subset, FS_CardinalityType
<1>3. ASSUME NEW j \in S
      PROVE  IsFiniteSet({i \in S : i <= j}) /\ Rank(S, j) \in 1 .. Cardinality(S)
  <2> DEFINE T == {i \in S : i <= j}
  <2>1. T \in SUBSET S /\ j \in T
    OBVIOUS
  <2> HIDE DEF T
  <2>2. IsFiniteSet(T) /\ Cardinality(T) <= Cardinality(S)
    BY <1>2, <2>1, FS_Subset
  <2>3. Cardinality(T) \in Nat /\ Cardinality(T) # 0
    BY <2>1, <2>2, FS_CardinalityType, FS_EmptySet
  <2>4. Cardinality(T) \in 1 .. Cardinality(S)
    BY <1>2, <2>2, <2>3
  <2> QED
    BY <2>2, <2>4 DEF T, Rank
<1>4. ASSUME NEW j \in S, NEW k \in S, j < k PROVE Rank(S, j) # Rank(S, k)
  <2> DEFINE T == {i \in S : i <= j}
             U == {i \in S : i <= k}
  <2>1. \A i \in S : i \in Nat
    OBVIOUS
  <2>2. j \in Nat /\ k \in Nat
    BY <2>1
  <2>3. (\A i \in S : i <= j => i <= k) /\ k <= k /\ ~ (k <= j)
    BY <1>4, <2>1, <2>2
  <2>4. T \in SUBSET U /\ k \in U /\ k \notin T
    BY <2>3, Zenon
  <2>5. IsFiniteSet(U)
    BY <1>3
  <2> HIDE DEF T, U
  <2>6. Cardinality(U) # Cardinality(T)
    BY <2>4, <2>5, FS_Subset
  <2> QED
    BY <2>6 DEF T, U, Rank
<1>5. ASSUME NEW j \in S, NEW k \in S, Rank(S, j) = Rank(S, k) PROVE j = k
  <2>1. j \in Nat /\ k \in Nat
    OBVIOUS
  <2>2. ~ (j < k) /\ ~ (k < j)
    BY <1>4, <1>5
  <2> QED
    BY <2>1, <2>2
<1> QED
  BY <1>2, <1>3, <1>5

LEMMA ImageSize ==
  ASSUME NEW S, NEW T, NEW f \in [S -> T], IsFiniteSet(S),
         \A x, y \in S : f[x] = f[y] => x = y, \A z \in T : \E x \in S : f[x] = z
  PROVE  IsFiniteSet(T) /\ Cardinality(T) = Cardinality(S)
<1>1. f \in Injection(S, T) /\ f \in Surjection(S, T)
  BY DEF Injection, Surjection, IsInjective, Range
<1>2. ExistsBijection(S, T)
  BY <1>1 DEF ExistsBijection, Bijection
<1> QED
  BY <1>2, FS_Bijection

\* There is a first record at or after the key of any record, and it is in order.
LEMMA ValuesAlwaysComplete == ASSUME EnumsInv PROVE ValuesComplete
<1> SUFFICES ASSUME NEW d \in DOMAIN Mappings
             PROVE  LET names == Mappings[d].names
                        known == {j \in DOMAIN names : Record(<<d, j>>) \in code_tree}
                    IN  \E v \in Enum(Mappings[d].domain) :
                          /\ Len(v) = Cardinality(known)
                          /\ \A j \in known : v[Cardinality({i \in known : i <= j})] = names[j][2]
  BY DEF ValuesComplete
<1> DEFINE names == Mappings[d].names
           known == {j \in DOMAIN names : Record(<<d, j>>) \in code_tree}
           D == NumberOf(d)
           rec == [j \in known |-> Record(<<d, j>>)]
           listed == {r \in code_tree : r.domain = D}
           below(r) == {q \in listed : q.code <= r.code}
           nth(i) == CHOOSE r \in listed : Cardinality(below(r)) = i
           v == [i \in 1 .. Cardinality(listed) |-> nth(i).str]
<1>1. d \in 1 .. 16 /\ Len(names) \in Nat /\ DOMAIN names = 1 .. Len(names)
  BY DomainsAre, AllNamed DEF Named
<1>2. known \in SUBSET (1 .. Len(names))
  BY <1>1
<1>3. \A j \in known : <<d, j>> \in Positions
  BY <1>1, PositionIs
<1>4. ASSUME NEW j \in known
      PROVE  /\ rec[j] \in listed /\ rec[j].at = <<d, j>> /\ rec[j].str = names[j][2]
             /\ rec[j] = Record(<<d, j>>)
  <2>1. rec[j] = Record(<<d, j>>)
    OBVIOUS
  <2>2. <<d, j>>[1] = d /\ <<d, j>>[2] = j
    OBVIOUS
  <2>3. /\ Record(<<d, j>>).domain = D /\ Record(<<d, j>>).at = <<d, j>>
        /\ Record(<<d, j>>).str = names[j][2]
    BY <1>3, <2>2, RecordIs
  <2> QED
    BY <2>1, <2>3
<1>5. ASSUME NEW r \in listed PROVE \E j \in known : rec[j] = r
  <2>1. PICK p \in Positions : r = Record(p)
    BY OneOfKey
  <2>2. p = <<p[1], p[2]>> /\ p[1] \in 1 .. 16 /\ p[2] \in 1 .. Len(Mappings[p[1]].names)
    BY PositionIs
  <2>3. NumberOf(p[1]) = D
    BY <2>1, RecordIs
  <2>4. p[1] = d
    BY <1>1, <2>2, <2>3, NumbersAscend
  <2>5. p[2] \in known /\ rec[p[2]] = r
    BY <1>1, <2>1, <2>2, <2>4
  <2> QED
    BY <2>5
<1>6. \A j, k \in known : rec[j] = rec[k] => j = k
  BY <1>4
<1>7. ASSUME NEW j \in known, NEW k \in known PROVE rec[k].code <= rec[j].code <=> k <= j
  <2>1. <<d, j>> \in Positions /\ <<d, k>> \in Positions
    BY <1>3
  <2>2. Record(<<d, j>>).domain = Record(<<d, k>>).domain
    BY <1>4
  <2>3. Record(<<d, k>>).code <= Record(<<d, j>>).code <=> <<d, k>>[2] <= <<d, j>>[2]
    BY <2>1, <2>2, KeysDiffer
  <2> QED
    BY <1>4, <2>3
<1>8. rec \in [known -> listed]
  BY <1>4
<1>9. Enum(Mappings[d].domain) = {v}
  <2>1. Mappings[d].domain \in DOMAIN DomainNumber
    <3>1. d \in {1, 2, 3, 4, 5, 6, 7, 8, 9, 10, 11, 12, 13, 14, 15, 16}
      BY <1>1
    <3> QED
      BY <3>1, DomainsAre DEF DomainNumber
  <2>2. ASSUME NEW r \in code_tree, r.domain = D
        PROVE  \E f \in CodeFirst(D, 0) : Precedes(f.domain, f.code, r)
    <3>1. D \in Nat /\ 0 \in Nat
      BY <1>1, NumbersAscend
    <3>2. r.code \in Nat
      BY OneOfKey, RecordIs
    <3>3. Precedes(D, 0, r)
      BY <2>2, <3>2 DEF Precedes
    <3> HIDE DEF D
    <3> QED
      BY <3>1, <3>3, FirstExists
  <2>3. listed = {r \in code_tree :
                    r.domain = D /\ \E f \in CodeFirst(D, 0) : Precedes(f.domain, f.code, r)}
    BY <2>2
  <2> DEFINE all == {r \in code_tree :
                    r.domain = D /\ \E f \in CodeFirst(D, 0) : Precedes(f.domain, f.code, r)}
  <2>4. Values(D) = [i \in 1 .. Cardinality(all) |->
                       (CHOOSE r \in all : Cardinality({q \in all : q.code <= r.code}) = i).str]
    BY DEF Values
  <2>5. Values(D) = v
    <3>1. all = listed
      BY <2>3
    <3> HIDE DEF all, listed
    <3> QED
      BY <2>4, <3>1
  <2> HIDE DEF v
  <2> QED
    BY <2>1, <2>5 DEF Enum, NumberOf
<1>10. /\ IsFiniteSet(known) /\ Cardinality(known) \in Nat
       /\ \A j \in known : /\ IsFiniteSet({i \in known : i <= j})
                           /\ Rank(known, j) \in 1 .. Cardinality(known)
       /\ \A j, k \in known : Rank(known, j) = Rank(known, k) => j = k
  <2> HIDE DEF known, names
  <2> QED
    BY <1>1, <1>2, RankIs
<1> HIDE DEF rec, listed, known, names
<1>11. Cardinality(listed) = Cardinality(known)
  BY <1>5, <1>6, <1>8, <1>10, ImageSize
<1>12. ASSUME NEW j \in known PROVE Cardinality(below(rec[j])) = Rank(known, j)
  <2> DEFINE S == {i \in known : i <= j}
             T == below(rec[j])
             f == [i \in S |-> rec[i]]
  <2>1. f \in [S -> T]
    BY <1>4, <1>7
  <2>2. \A x, y \in S : f[x] = f[y] => x = y
    BY <1>6
  <2>3. \A z \in T : \E x \in S : f[x] = z
    BY <1>5, <1>7
  <2>4. IsFiniteSet(S)
    BY <1>10
  <2> HIDE DEF S, T, f
  <2>5. Cardinality(T) = Cardinality(S)
    BY <2>1, <2>2, <2>3, <2>4, ImageSize
  <2> QED
    BY <2>5 DEF S, T, Rank
<1>13. ASSUME NEW j \in known PROVE v[Rank(known, j)] = names[j][2]
  <2> DEFINE i == Rank(known, j)
  <2>1. i \in 1 .. Cardinality(listed)
    BY <1>10, <1>11
  <2>2. rec[j] \in listed /\ Cardinality(below(rec[j])) = i
    BY <1>4, <1>12
  <2> HIDE DEF i
  <2> DEFINE r == nth(i)
  <2>3. r \in listed /\ Cardinality(below(r)) = i
    BY <2>2
  <2>4. v[i] = r.str
    BY <2>1
  <2> HIDE DEF r, v
  <2>5. PICK k \in known : rec[k] = r
    BY <1>5, <2>3
  <2>6. Rank(known, k) = Rank(known, j)
    BY <1>12, <2>3, <2>5 DEF i
  <2>7. k = j
    BY <1>10, <2>6
  <2> QED
    BY <1>4, <2>4, <2>5, <2>7 DEF i
<1>14. Len(v) = Cardinality(known)
  BY <1>10, <1>11
<1> HIDE DEF v
<1>15. /\ v \in Enum(Mappings[d].domain) /\ Len(v) = Cardinality(known)
       /\ \A j \in known : v[Cardinality({i \in known : i <= j})] = names[j][2]
  BY <1>9, <1>13, <1>14 DEF Rank
<1> QED
  BY <1>15 DEF known, names

-----------------------------------------------------------------------------
(* Codes and names.                                                        *)

OneToOne(f) == \A x, y \in DOMAIN f : f[x] = f[y] => x = y

\* The codes of a domain are those of its list, and so are the names.
LEMMA CodesAre ==
  ASSUME NEW d \in 1 .. 16
  PROVE  LET f == Codes(Mappings[d].domain)
             s == Mappings[d].names
         IN  /\ OneToOne(f)
             /\ Range(f) = {s[j][1] : j \in DOMAIN s}
             /\ DOMAIN f = {s[j][2] : j \in DOMAIN s}
             /\ \A j \in DOMAIN s : f[s[j][2]] = s[j][1]
<1> DEFINE dom == Mappings[d].domain
           f == Codes(dom)
           s == Mappings[d].names
<1>1. NamesOf(dom) = s
  <2>1. DOMAIN Mappings = 1 .. 16
    BY DomainsAre
  <2>2. ASSUME NEW i \in 1 .. 16, Mappings[i].domain = dom PROVE i = d
    BY <2>2, NumbersAscend DEF NumberOf
  <2>3. (CHOOSE i \in DOMAIN Mappings : Mappings[i].domain = dom) = d
    BY <2>1, <2>2
  <2> QED
    BY <2>3 DEF NamesOf
<1>2. /\ DOMAIN s = 1 .. Len(s) /\ Len(s) \in Nat
      /\ \A i \in DOMAIN s : s[i][1] \in Nat
      /\ \A i, j \in DOMAIN s : i < j => s[i][1] < s[j][1]
      /\ \A i, j \in DOMAIN s : s[i][2] = s[j][2] => i = j
  BY AllNamed DEF Named
<1>3. \A i, j \in DOMAIN s : s[i][1] = s[j][1] => i = j
  <2> HIDE DEF s
  <2> QED
    BY <1>2
<1>4. f = [x \in {s[i][2] : i \in DOMAIN s} |->
             s[CHOOSE i \in DOMAIN s : s[i][2] = x][1]]
  BY <1>1 DEF Codes
<1> HIDE DEF f, s
<1>5. DOMAIN f = {s[j][2] : j \in DOMAIN s}
  BY <1>4
<1>6. ASSUME NEW j \in DOMAIN s PROVE f[s[j][2]] = s[j][1]
  <2>1. (CHOOSE i \in DOMAIN s : s[i][2] = s[j][2]) = j
    BY <1>2
  <2> QED
    BY <1>4, <2>1
<1>7. OneToOne(f)
  BY <1>3, <1>5, <1>6 DEF OneToOne
<1>8. Range(f) = {s[j][1] : j \in DOMAIN s}
  BY <1>5, <1>6 DEF Range
<1> QED
  BY <1>5, <1>6, <1>7, <1>8 DEF f, s

LEMMA NameOfIs ==
  ASSUME NEW f, OneToOne(f)
  PROVE  /\ \A x \in DOMAIN f : NameOf(f, f[x]) = x
         /\ \A c \in Range(f) : NameOf(f, c) \in DOMAIN f /\ f[NameOf(f, c)] = c
BY DEF OneToOne, NameOf, Range

\* What a list says of a function of codes.
CodesOf(f, s) ==
  /\ OneToOne(f)
  /\ Range(f) = {s[j][1] : j \in DOMAIN s}
  /\ DOMAIN f = {s[j][2] : j \in DOMAIN s}
  /\ \A j \in DOMAIN s : f[s[j][2]] = s[j][1]

LEMMA CodesOfDomain ==
  ASSUME NEW d \in 1 .. 16, NEW dom, NEW s,
         Mappings[d].domain = dom, Mappings[d].names = s
  PROVE  CodesOf(Codes(dom), s)
BY CodesAre DEF CodesOf

\* The codes from 0 on.
LEMMA NumberedCodes ==
  ASSUME NEW n \in Nat, NEW names, DOMAIN names = 1 .. n, NEW f,
         CodesOf(f, Numbered(0, names))
  PROVE  OneToOne(f) /\ Range(f) = 0 .. n - 1
<1> DEFINE s == Numbered(0, names)
<1>1. DOMAIN s = 1 .. n /\ \A j \in 1 .. n : s[j][1] = j - 1
  BY DEF Numbered
<1>2. OneToOne(f) /\ Range(f) = {s[j][1] : j \in DOMAIN s}
  BY DEF CodesOf
<1> HIDE DEF s
<1>3. ASSUME NEW c \in Range(f) PROVE c \in 0 .. n - 1
  <2>1. PICK j \in 1 .. n : c = s[j][1]
    BY <1>1, <1>2
  <2> QED
    BY <1>1, <2>1
<1>4. ASSUME NEW c \in 0 .. n - 1 PROVE c \in Range(f)
  <2>1. c + 1 \in 1 .. n /\ (c + 1) - 1 = c
    OBVIOUS
  <2>2. s[c + 1][1] = c
    BY <1>1, <2>1
  <2> QED
    BY <1>1, <1>2, <2>1, <2>2
<1> QED
  BY <1>2, <1>3, <1>4

LEMMA RequestTypeCodes ==
  /\ OneToOne(RequestType) /\ Range(RequestType) = {0, 32, 64, 96}
  /\ "standard" \in DOMAIN RequestType /\ RequestType["standard"] = 0
<1> DEFINE s == Coded(<<0, 32, 64, 96>>, <<"standard", "class", "vendor", "reserved">>)
<1>1. DOMAIN s = 1 .. 4 /\ s[1][1] = 0 /\ s[2][1] = 32 /\ s[3][1] = 64 /\ s[4][1] = 96
        /\ s[1][2] = "standard"
  BY DEF Coded
<1>2. Mappings[9].names = s
  BY NamesAre
<1> HIDE DEF s
<1>3. 9 \in 1 .. 16
  OBVIOUS
<1>4. CodesOf(Codes("requesttype"), s)
  BY <1>2, <1>3, DomainsAre, CodesOfDomain, Zenon
<1>5. CodesOf(RequestType, s)
  BY <1>4 DEF RequestType
<1>6. DOMAIN s = {1, 2, 3, 4}
  BY <1>1
<1>7. Range(RequestType) = {s[1][1], s[2][1], s[3][1], s[4][1]}
  BY <1>5, <1>6 DEF CodesOf
<1>8. s[1][2] \in DOMAIN RequestType /\ RequestType[s[1][2]] = s[1][1]
  BY <1>5, <1>6 DEF CodesOf
<1> QED
  BY <1>1, <1>5, <1>7, <1>8 DEF CodesOf

LEMMA DirectionCodes == OneToOne(Direction) /\ Range(Direction) = {0, 128}
<1> DEFINE s == Coded(<<0, 128>>, <<"out", "in">>)
<1>1. DOMAIN s = {1, 2} /\ s[1][1] = 0 /\ s[2][1] = 128
  BY DEF Coded
<1>2. Mappings[6].names = s
  BY NamesAre
<1> HIDE DEF s
<1>3. 6 \in 1 .. 16
  OBVIOUS
<1>4. CodesOf(Codes("direction"), s)
  BY <1>2, <1>3, DomainsAre, CodesOfDomain, Zenon
<1>5. OneToOne(Direction) /\ Range(Direction) = {s[j][1] : j \in DOMAIN s}
  BY <1>4 DEF Direction, CodesOf
<1> QED
  BY <1>1, <1>5

LEMMA StandardRequestCodes ==
  OneToOne(StandardRequest) /\ Range(StandardRequest) \subseteq 0 .. 255
<1>1. 8 \in 1 .. 16
  OBVIOUS
<1>2. CodesOf(Codes("standardrequest"), RequestNames)
  BY <1>1, NamesAre, DomainsAre, CodesOfDomain, Zenon
<1>3. /\ OneToOne(StandardRequest)
      /\ Range(StandardRequest) = {RequestNames[j][1] : j \in DOMAIN RequestNames}
  BY <1>2 DEF StandardRequest, CodesOf
<1> QED
  BY <1>3, RequestNamesNamed

LEMMA NumberedDomains ==
  /\ OneToOne(Recipient) /\ Range(Recipient) = 0 .. 3
  /\ OneToOne(Codes("transfertype")) /\ Range(Codes("transfertype")) = 0 .. 3
  /\ OneToOne(Codes("isosynctype")) /\ Range(Codes("isosynctype")) = 0 .. 3
  /\ OneToOne(Codes("isousagetype")) /\ Range(Codes("isousagetype")) = 0 .. 2
<1>1. 7 \in 1 .. 16 /\ 10 \in 1 .. 16 /\ 11 \in 1 .. 16 /\ 12 \in 1 .. 16
  OBVIOUS
<1>2. 3 \in Nat /\ 4 \in Nat /\ 3 - 1 = 2 /\ 4 - 1 = 3
  OBVIOUS
<1>3. OneToOne(Codes("requestrecipient")) /\ Range(Codes("requestrecipient")) = 0 .. 4 - 1
  <2> DEFINE l == <<"device", "interface", "endpoint", "other">>
  <2>1. DOMAIN l = 1 .. 4
    OBVIOUS
  <2>2. Mappings[10].names = Numbered(0, l)
    BY NamesAre
  <2> HIDE DEF l
  <2>3. CodesOf(Codes("requestrecipient"), Numbered(0, l))
    BY <1>1, <2>2, DomainsAre, CodesOfDomain, Zenon
  <2> QED
    BY <1>2, <2>1, <2>3, NumberedCodes, Zenon
<1>4. OneToOne(Codes("transfertype")) /\ Range(Codes("transfertype")) = 0 .. 4 - 1
  <2> DEFINE l == <<"control", "isochronous", "bulk", "interrupt">>
  <2>1. DOMAIN l = 1 .. 4
    OBVIOUS
  <2>2. Mappings[7].names = Numbered(0, l)
    BY NamesAre
  <2> HIDE DEF l
  <2>3. CodesOf(Codes("transfertype"), Numbered(0, l))
    BY <1>1, <2>2, DomainsAre, CodesOfDomain, Zenon
  <2> QED
    BY <1>2, <2>1, <2>3, NumberedCodes, Zenon
<1>5. OneToOne(Codes("isosynctype")) /\ Range(Codes("isosynctype")) = 0 .. 4 - 1
  <2> DEFINE l == <<"none", "async", "adaptive", "sync">>
  <2>1. DOMAIN l = 1 .. 4
    OBVIOUS
  <2>2. Mappings[11].names = Numbered(0, l)
    BY NamesAre
  <2> HIDE DEF l
  <2>3. CodesOf(Codes("isosynctype"), Numbered(0, l))
    BY <1>1, <2>2, DomainsAre, CodesOfDomain, Zenon
  <2> QED
    BY <1>2, <2>1, <2>3, NumberedCodes, Zenon
<1>6. OneToOne(Codes("isousagetype")) /\ Range(Codes("isousagetype")) = 0 .. 3 - 1
  <2> DEFINE l == <<"data", "feedback", "implicit">>
  <2>1. DOMAIN l = 1 .. 3
    OBVIOUS
  <2>2. Mappings[12].names = Numbered(0, l)
    BY NamesAre
  <2> HIDE DEF l
  <2>3. CodesOf(Codes("isousagetype"), Numbered(0, l))
    BY <1>1, <2>2, DomainsAre, CodesOfDomain, Zenon
  <2> QED
    BY <1>2, <2>1, <2>3, NumberedCodes, Zenon
<1> QED
  BY <1>2, <1>3, <1>4, <1>5, <1>6 DEF Recipient

-----------------------------------------------------------------------------
(* Bits.                                                                   *)

\* The fields of bmRequestType, put together and taken apart.
LEMMA FieldsOfByte ==
  ASSUME NEW r \in 0 .. 3, NEW t \in {0, 32, 64, 96}, NEW d \in {0, 128}
  PROVE  /\ RecipientBits(r + t + d) = r /\ TypeBits(r + t + d) = t
         /\ DirectionBits(r + t + d) = d
<1>1. r \in {0, 1, 2, 3}
  OBVIOUS
<1> QED
  BY <1>1 DEF RecipientBits, TypeBits, DirectionBits

LEMMA ByteOfFields ==
  ASSUME NEW b \in 0 .. 255
  PROVE  /\ RecipientBits(b) + TypeBits(b) + DirectionBits(b) = b
         /\ TypeBits(b) \in {0, 32, 64, 96} /\ DirectionBits(b) \in {0, 128}
<1> DEFINE q == b \div 32
           h == b \div 128
<1>1. b = (32 * q) + (b % 32) /\ q \in 0 .. 7 /\ b % 32 \in 0 .. 31
  OBVIOUS
<1>2. h \in 0 .. 1 /\ q % 4 \in 0 .. 3 /\ q = (4 * h) + (q % 4)
  OBVIOUS
<1>3. RecipientBits(b) = b % 32 /\ TypeBits(b) = 32 * (q % 4) /\ DirectionBits(b) = 128 * h
  BY DEF RecipientBits, TypeBits, DirectionBits
<1> HIDE DEF q, h
<1> QED
  BY <1>1, <1>2, <1>3

-----------------------------------------------------------------------------
(* What the conversions promise.                                           *)

\* The fields of a setup packet.
LEMMA PacketFields ==
  ASSUME NEW A, NEW B, NEW C,
         NEW p \in [bmRequestType : A, bRequest : B, wValue : C, wIndex : C, wLength : C]
  PROVE  /\ p.bmRequestType \in A /\ p.bRequest \in B /\ p.wValue \in C /\ p.wIndex \in C
         /\ p.wLength \in C
         /\ p = [bmRequestType |-> p.bmRequestType, bRequest |-> p.bRequest,
                 wValue |-> p.wValue, wIndex |-> p.wIndex, wLength |-> p.wLength]
OBVIOUS

LEMMA SetupAlwaysRecovered == ASSUME NEW s \in Setup PROVE SetupRecovered(s)
<1> DEFINE p == Encode(s)
           t == RequestType[s.request_type]
           r == Recipient[s.request_recipient]
           d == Direction[s.direction]
           q == IF s.request_type = "standard" THEN StandardRequest[s.request]
                                               ELSE Byte8(s.request)
<1>1. /\ s.request_type \in DOMAIN RequestType /\ s.request_recipient \in DOMAIN Recipient
      /\ s.direction \in DOMAIN Direction
      /\ s.request_type = "standard" => s.request \in DOMAIN StandardRequest
      /\ s.request_type # "standard" => s.request \in Int
      /\ s = [request_type |-> s.request_type, request_recipient |-> s.request_recipient,
              direction |-> s.direction, request |-> s.request, value |-> s.value,
              index |-> s.index, length |-> s.length]
  BY RequestTypeCodes DEF Setup
<1>2. Encodable(s)
  BY <1>1 DEF Encodable
<1>3. /\ p.bmRequestType = r + t + d /\ p.bRequest = q
      /\ p.wValue = s.value % 65536 /\ p.wIndex = s.index % 65536
      /\ p.wLength = s.length % 65536
  BY DEF Encode, Word16
<1>4. r \in 0 .. 3 /\ t \in {0, 32, 64, 96} /\ d \in {0, 128}
  BY <1>1, RequestTypeCodes, DirectionCodes, NumberedDomains DEF Range
<1>5. t = 0 <=> s.request_type = "standard"
  BY <1>1, RequestTypeCodes DEF OneToOne
<1>6. /\ NameOf(RequestType, t) = s.request_type
      /\ NameOf(Recipient, r) = s.request_recipient
      /\ NameOf(Direction, d) = s.direction
  BY <1>1, RequestTypeCodes, DirectionCodes, NumberedDomains, NameOfIs
<1>7. s.request_type = "standard" =>
        q \in Range(StandardRequest) /\ NameOf(StandardRequest, q) = s.request
  BY <1>1, StandardRequestCodes, NameOfIs DEF Range
<1>8. s.request_type # "standard" => q = s.request % 256
  BY DEF Byte8
<1> HIDE DEF p, r, t, d, q
<1>9. /\ RecipientBits(p.bmRequestType) = r /\ TypeBits(p.bmRequestType) = t
      /\ DirectionBits(p.bmRequestType) = d
  BY <1>3, <1>4, FieldsOfByte
<1>10. Decodable(p)
  BY <1>3, <1>4, <1>5, <1>7, <1>9, NumberedDomains DEF Decodable
<1>11. Decode(p) =
         [request_type |-> s.request_type, request_recipient |-> s.request_recipient,
          direction |-> s.direction,
          request |-> IF s.request_type = "standard" THEN s.request ELSE s.request % 256,
          value |-> s.value % 65536, index |-> s.index % 65536, length |-> s.length % 65536]
  BY <1>3, <1>5, <1>6, <1>7, <1>8, <1>9 DEF Decode
<1>12. [s EXCEPT !.value = @ % 65536, !.index = @ % 65536, !.length = @ % 65536,
          !.request = IF s.request_type = "standard" THEN @ ELSE @ % 256] =
         [request_type |-> s.request_type, request_recipient |-> s.request_recipient,
          direction |-> s.direction,
          request |-> IF s.request_type = "standard" THEN s.request ELSE s.request % 256,
          value |-> s.value % 65536, index |-> s.index % 65536, length |-> s.length % 65536]
  <2> DEFINE a == s.request_type
             b == s.request_recipient
             c == s.direction
             q1 == s.request
             v1 == s.value
             i1 == s.index
             l1 == s.length
             q2 == IF s.request_type = "standard" THEN s.request ELSE s.request % 256
             v2 == s.value % 65536
             i2 == s.index % 65536
             l2 == s.length % 65536
  <2>1. s = [request_type |-> a, request_recipient |-> b, direction |-> c, request |-> q1,
             value |-> v1, index |-> i1, length |-> l1]
    BY <1>1
  <2> HIDE DEF a, b, c, q1, v1, i1, l1, q2, v2, i2, l2
  <2> DEFINE s1 == [s EXCEPT !.value = v2]
             s2 == [s1 EXCEPT !.index = i2]
             s3 == [s2 EXCEPT !.length = l2]
             s4 == [s3 EXCEPT !.request = q2]
  <2>2. [s EXCEPT !.value = v2, !.index = i2, !.length = l2, !.request = q2] = s4
    OBVIOUS
  <2>3. s1 = [request_type |-> a, request_recipient |-> b, direction |-> c, request |-> q1,
              value |-> v2, index |-> i1, length |-> l1]
    BY <2>1
  <2> HIDE DEF s1
  <2>4. s2 = [request_type |-> a, request_recipient |-> b, direction |-> c, request |-> q1,
              value |-> v2, index |-> i2, length |-> l1]
    BY <2>3
  <2> HIDE DEF s2
  <2>5. s3 = [request_type |-> a, request_recipient |-> b, direction |-> c, request |-> q1,
              value |-> v2, index |-> i2, length |-> l2]
    BY <2>4
  <2> HIDE DEF s3
  <2>6. s4 = [request_type |-> a, request_recipient |-> b, direction |-> c, request |-> q2,
              value |-> v2, index |-> i2, length |-> l2]
    BY <2>5
  <2> HIDE DEF s4
  <2>7. [s EXCEPT !.value = v2, !.index = i2, !.length = l2, !.request = q2] =
          [request_type |-> a, request_recipient |-> b, direction |-> c, request |-> q2,
           value |-> v2, index |-> i2, length |-> l2]
    BY <2>2, <2>6
  <2> QED
    BY <2>7 DEF a, b, c, q2, v2, i2, l2
<1> QED
  BY <1>2, <1>10, <1>11, <1>12 DEF SetupRecovered, p

LEMMA PacketAlwaysRecovered == ASSUME NEW p \in Packet PROVE PacketRecovered(p)
<1> SUFFICES ASSUME Decodable(p) PROVE Encode(Decode(p)) = p
  BY DEF PacketRecovered
<1> DEFINE b == p.bmRequestType
           s == Decode(p)
<1>1. /\ b \in Octet /\ p.bRequest \in Octet
      /\ p.wValue \in Word /\ p.wIndex \in Word /\ p.wLength \in Word
      /\ p = [bmRequestType |-> b, bRequest |-> p.bRequest, wValue |-> p.wValue,
              wIndex |-> p.wIndex, wLength |-> p.wLength]
  BY PacketFields DEF Packet
<1>2. /\ s.request_type = NameOf(RequestType, TypeBits(b))
      /\ s.request_recipient = NameOf(Recipient, RecipientBits(b))
      /\ s.direction = NameOf(Direction, DirectionBits(b))
      /\ s.request = IF TypeBits(b) = 0 THEN NameOf(StandardRequest, p.bRequest)
                                        ELSE p.bRequest
      /\ s.value = p.wValue /\ s.index = p.wIndex /\ s.length = p.wLength
  BY DEF Decode
<1> HIDE DEF b, s
<1>3. /\ RecipientBits(b) + TypeBits(b) + DirectionBits(b) = b
      /\ TypeBits(b) \in Range(RequestType) /\ DirectionBits(b) \in Range(Direction)
  <2>1. b \in 0 .. 255
    BY <1>1 DEF Octet
  <2> QED
    BY <2>1, ByteOfFields, RequestTypeCodes, DirectionCodes
<1>4. /\ RecipientBits(b) \in Range(Recipient)
      /\ TypeBits(b) = 0 => p.bRequest \in Range(StandardRequest)
  BY DEF Decodable, b
<1>5. RequestType[s.request_type] = TypeBits(b) /\ s.request_type \in DOMAIN RequestType
  BY <1>2, <1>3, RequestTypeCodes, NameOfIs
<1>6. Recipient[s.request_recipient] = RecipientBits(b)
  BY <1>2, <1>4, NumberedDomains, NameOfIs
<1>7. Direction[s.direction] = DirectionBits(b)
  BY <1>2, <1>3, DirectionCodes, NameOfIs
<1>8. s.request_type = "standard" <=> TypeBits(b) = 0
  BY <1>5, RequestTypeCodes DEF OneToOne
<1>9. s.request_type = "standard" => StandardRequest[s.request] = p.bRequest
  BY <1>2, <1>4, <1>8, StandardRequestCodes, NameOfIs
<1>10. s.request_type # "standard" => s.request % 256 = p.bRequest
  <2>1. \A v \in Octet : v % 256 = v
    BY DEF Octet
  <2>2. p.bRequest % 256 = p.bRequest
    BY <1>1, <2>1
  <2> QED
    BY <1>2, <1>8, <2>2
<1>11. p.wValue % 65536 = p.wValue /\ p.wIndex % 65536 = p.wIndex
         /\ p.wLength % 65536 = p.wLength
  <2>1. \A v \in Word : v % 65536 = v
    <3> SUFFICES ASSUME NEW v \in Word PROVE v % 65536 = v
      OBVIOUS
    <3>1. v \in Int /\ 0 <= v /\ v < 65536
      BY DEF Word
    <3> QED
      BY <3>1
  <2> QED
    BY <1>1, <2>1
<1>12. Encode(s) = [bmRequestType |-> b, bRequest |-> p.bRequest, wValue |-> p.wValue,
                    wIndex |-> p.wIndex, wLength |-> p.wLength]
  BY <1>2, <1>3, <1>5, <1>6, <1>7, <1>9, <1>10, <1>11 DEF Encode, Byte8, Word16
<1> QED
  BY <1>1, <1>12 DEF s

\* The name of a code of a domain whose codes differ.
LEMMA NameOfCodeIs ==
  ASSUME NEW dom, OneToOne(Codes(dom)), NEW c \in Range(Codes(dom))
  PROVE  Codes(dom)[NameOfCode(dom, c)] = c
BY DEF OneToOne, NameOfCode, Range

LEMMA EndpointAlwaysRecovered ==
  ASSUME NEW s \in EndpointDescriptor PROVE EndpointRecovered(s)
<1> DEFINE a == s.bmAttributes
           e == s.bEndpointAddress
           y == (a \div 4) % 4
           u == (a \div 16) % 4
<1>1. a \in 0 .. 63 /\ e \in 0 .. 15 \cup 128 .. 143
  BY DEF EndpointDescriptor
<1>2. a = (a % 4) + 4 * y + 16 * u /\ a % 4 \in 0 .. 3 /\ y \in 0 .. 3 /\ u \in 0 .. 3
        /\ a \div 16 = u
  <2> DEFINE q == a \div 4
             h == a \div 16
  <2>1. a = (4 * q) + (a % 4) /\ q \in 0 .. 15 /\ a % 4 \in 0 .. 3
    BY <1>1
  <2>2. q = (4 * h) + (q % 4) /\ q % 4 \in 0 .. 3 /\ h \in 0 .. 3 /\ h % 4 = h
    BY <1>1
  <2> HIDE DEF q, h
  <2> QED
    BY <2>1, <2>2 DEF q, h
<1>3. e = (e % 16) + 128 * (e \div 128) /\ 128 * (e \div 128) \in {0, 128}
  BY <1>1
<1>4. HasName("isousagetype", u) <=> u \in 0 .. 2
  BY NumberedDomains DEF HasName, Range
<1>5. CASE ~ EndpointNamed(a)
  BY <1>2, <1>4, <1>5 DEF EndpointNamed, EndpointRecovered
<1>6. CASE EndpointNamed(a)
  <2> DEFINE t == Endpoint(s)
             f == [sync_type |-> NameOfCode("isosynctype", y),
                   usage_type |-> NameOfCode("isousagetype", u)]
  <2>1. t.number + Codes("direction")[t.direction] = e
    <3>1. t.number = e % 16 /\ t.direction = NameOfCode("direction", 128 * (e \div 128))
      BY DEF Endpoint
    <3>2. Codes("direction")[NameOfCode("direction", 128 * (e \div 128))] = 128 * (e \div 128)
      BY <1>3, DirectionCodes, NameOfCodeIs DEF Direction
    <3> HIDE DEF e, t
    <3> QED
      BY <1>3, <3>1, <3>2
  <2>2. Codes("transfertype")[t.transfer_type] = a % 4
    <3>1. t.transfer_type = NameOfCode("transfertype", a % 4)
      BY DEF Endpoint
    <3> QED
      BY <1>2, <3>1, NumberedDomains, NameOfCodeIs
  <2>3. ASSUME a % 4 = 1
        PROVE  f \in t.iso /\ a = 1 + 4 * Codes("isosynctype")[f.sync_type]
                                    + 16 * Codes("isousagetype")[f.usage_type]
    <3>1. f \in t.iso
      BY <2>3 DEF Endpoint
    <3>2. Codes("isosynctype")[NameOfCode("isosynctype", y)] = y
      BY <1>2, NumberedDomains, NameOfCodeIs
    <3>3. u \in 0 .. 2
      BY <1>4, <1>6, <2>3 DEF EndpointNamed
    <3>4. Codes("isousagetype")[NameOfCode("isousagetype", u)] = u
      BY <3>3, NumberedDomains, NameOfCodeIs
    <3> QED
      BY <1>2, <2>3, <3>1, <3>2, <3>4
  <2> HIDE DEF t, f
  <2> QED
    BY <1>6, <2>1, <2>2, <2>3 DEF EndpointRecovered, t
<1> QED
  BY <1>5, <1>6

-----------------------------------------------------------------------------
(* Recursion on numbers.                                                   *)

\* g is a, then F[1] of a, then F[2] of that, and so on up to n.
Iterates(R, n, a, F, g) ==
  /\ g \in [0 .. n -> R] /\ g[0] = a
  /\ \A i \in 1 .. n : g[i] = F[i][g[i - 1]]

LEMMA IteratesExist ==
  ASSUME NEW R, NEW a \in R, NEW n \in Nat, NEW F \in [1 .. n -> [R -> R]]
  PROVE  \E g : Iterates(R, n, a, F, g)
<1> DEFINE S == {m \in Nat : m <= n => \E g : Iterates(R, m, a, F, g)}
<1>1. 0 \in S
  <2>1. Iterates(R, 0, a, F, [i \in 0 .. 0 |-> a])
    BY DEF Iterates
  <2> QED
    BY <2>1
<1>2. ASSUME NEW m \in Nat, m \in S PROVE m + 1 \in S
  <2> SUFFICES ASSUME m + 1 <= n PROVE \E h : Iterates(R, m + 1, a, F, h)
    OBVIOUS
  <2>1. PICK g : Iterates(R, m, a, F, g)
    BY <1>2
  <2> DEFINE h == [i \in 0 .. m + 1 |-> IF i <= m THEN g[i] ELSE F[m + 1][g[m]]]
  <2>2. g[m] \in R /\ m + 1 \in 1 .. n
    BY <2>1 DEF Iterates
  <2>3. F[m + 1][g[m]] \in R
    BY <2>2
  <2>4. h \in [0 .. m + 1 -> R] /\ h[0] = a
    BY <2>1, <2>3 DEF Iterates
  <2>5. ASSUME NEW i \in 1 .. m + 1 PROVE h[i] = F[i][h[i - 1]]
    <3>1. CASE i <= m
      <4>1. h[i] = g[i] /\ h[i - 1] = g[i - 1]
        BY <3>1
      <4> QED
        BY <2>1, <3>1, <4>1 DEF Iterates
    <3>2. CASE i = m + 1
      BY <3>2
    <3> QED
      BY <3>1, <3>2
  <2> HIDE DEF h
  <2>6. Iterates(R, m + 1, a, F, h)
    BY <2>4, <2>5 DEF Iterates
  <2> QED
    BY <2>6
<1> HIDE DEF S
<1>3. n \in S
  BY <1>1, <1>2, Induction
<1> QED
  BY <1>3 DEF S

Follows(R, n, a, F, h) ==
  h[0] = a /\ \A i \in 1 .. n : h[i - 1] \in R => h[i] = F[i][h[i - 1]]

\* What satisfies the equation is that function.
LEMMA IteratesOnly ==
  ASSUME NEW R, NEW a, NEW n \in Nat, NEW F, NEW g, Iterates(R, n, a, F, g),
         NEW h, Follows(R, n, a, F, h)
  PROVE  \A i \in 0 .. n : h[i] = g[i]
<1> DEFINE S == {m \in Nat : m <= n => h[m] = g[m]}
<1>1. 0 \in S
  BY DEF Iterates, Follows
<1>2. ASSUME NEW m \in Nat, m \in S PROVE m + 1 \in S
  <2> SUFFICES ASSUME m + 1 <= n PROVE h[m + 1] = g[m + 1]
    OBVIOUS
  <2>1. h[m] = g[m] /\ m + 1 \in 1 .. n /\ (m + 1) - 1 = m
    BY <1>2
  <2>2. g[m] \in R /\ g[m + 1] = F[m + 1][g[m]]
    BY <2>1 DEF Iterates
  <2>3. h[m + 1] = F[m + 1][h[m]]
    BY <2>1, <2>2 DEF Follows
  <2> QED
    BY <2>1, <2>2, <2>3
<1> HIDE DEF S
<1>3. \A m \in Nat : m \in S
  BY <1>1, <1>2, Induction
<1> QED
  BY <1>3 DEF S

-----------------------------------------------------------------------------
(* The values of a table.                                                  *)

\* The values an element stands for.
Piece(e, nest) == IF IsTable(e) THEN nest[e.table] ELSE <<e.value>>

\* nest[t] is a sequence of values for the tables of the list.
LeavesTyped(items, nest) ==
  \A i \in 1 .. Len(items) : Piece(items[i], nest) \in Seq(Value)

AddPiece(items, nest) ==
  [i \in 1 .. Len(items) |-> [v \in Seq(Value) |-> v \o Piece(items[i], nest)]]

LEMMA LeavesOfIs ==
  ASSUME NEW items, Len(items) \in Nat, NEW nest, LeavesTyped(items, nest)
  PROVE  \E u : /\ Iterates(Seq(Value), Len(items), <<>>, AddPiece(items, nest), u)
                /\ LeavesOf(items, nest) = u[Len(items)]
<1> DEFINE R == Seq(Value)
           n == Len(items)
           F == AddPiece(items, nest)
           Body(f) == [i \in 0 .. n |-> IF i = 0 THEN <<>>
                         ELSE f[i - 1] \o IF IsTable(items[i]) THEN nest[items[i].table]
                                                               ELSE <<items[i].value>>]
           upto == CHOOSE f : f = Body(f)
<1>1. F \in [1 .. n -> [R -> R]]
  BY DEF AddPiece, LeavesTyped
<1>2. <<>> \in R
  OBVIOUS
<1>3. PICK u : Iterates(R, n, <<>>, F, u)
  <2> HIDE DEF R, n, F
  <2> QED
    BY <1>1, <1>2, IteratesExist DEF n
<1>4. \A i \in 1 .. n : \A v \in R : F[i][v] = v \o Piece(items[i], nest)
  BY DEF AddPiece
<1>5. u = Body(u)
  <2>1. u \in [0 .. n -> R] /\ u[0] = <<>> /\ \A i \in 1 .. n : u[i] = F[i][u[i - 1]]
    BY <1>3 DEF Iterates
  <2>2. ASSUME NEW i \in 0 .. n PROVE u[i] = Body(u)[i]
    <3>1. CASE i = 0
      BY <2>1, <3>1
    <3>2. CASE i # 0
      <4>1. i \in 1 .. n /\ u[i - 1] \in R
        BY <2>1, <3>2
      <4>2. u[i] = u[i - 1] \o Piece(items[i], nest)
        BY <1>4, <2>1, <4>1
      <4> QED
        BY <3>2, <4>2 DEF Piece
    <3> QED
      BY <3>1, <3>2
  <2> QED
    BY <2>1, <2>2
<1>6. upto = Body(upto)
  <2> HIDE DEF Body
  <2> QED
    BY <1>5
<1>7. LeavesOf(items, nest) = upto[n]
  BY DEF LeavesOf
<1> HIDE DEF upto
<1>8. upto[0] = <<>>
  BY <1>6
<1>9. ASSUME NEW i \in 1 .. n, upto[i - 1] \in R PROVE upto[i] = F[i][upto[i - 1]]
  <2>1. i \in 0 .. n /\ i # 0
    OBVIOUS
  <2>2. upto[i] = Body(upto)[i]
    <3> HIDE DEF Body
    <3> QED
      BY <1>6
  <2>3. upto[i] = upto[i - 1] \o Piece(items[i], nest)
    BY <2>1, <2>2 DEF Piece
  <2> QED
    BY <1>4, <1>9, <2>3
<1>10. upto[n] = u[n]
  <2>1. n \in Nat /\ n \in 0 .. n
    OBVIOUS
  <2>2. Follows(R, n, <<>>, F, upto)
    BY <1>8, <1>9 DEF Follows
  <2> HIDE DEF n, R, F, Body
  <2>3. \A i \in 0 .. n : upto[i] = u[i]
    BY <1>3, <2>1, <2>2, IteratesOnly
  <2> QED
    BY <2>1, <2>3
<1> QED
  BY <1>3, <1>7, <1>10

LEMMA LeavesOfTyped ==
  ASSUME NEW items, Len(items) \in Nat, NEW nest, LeavesTyped(items, nest)
  PROVE  LeavesOf(items, nest) \in Seq(Value)
<1>1. PICK u : /\ Iterates(Seq(Value), Len(items), <<>>, AddPiece(items, nest), u)
               /\ LeavesOf(items, nest) = u[Len(items)]
  BY LeavesOfIs
<1>2. Len(items) \in 0 .. Len(items)
  OBVIOUS
<1> QED
  BY <1>1, <1>2 DEF Iterates

LEMMA IteratesSame ==
  ASSUME NEW R, NEW a, NEW n \in Nat, NEW F, NEW g, Iterates(R, n, a, F, g),
         NEW h, Iterates(R, n, a, F, h)
  PROVE  h[n] = g[n]
<1>1. Follows(R, n, a, F, h)
  BY DEF Iterates, Follows
<1>2. n \in 0 .. n
  OBVIOUS
<1> QED
  BY <1>1, <1>2, IteratesOnly

\* Only the tables of the list matter.
LEMMA LeavesOfSame ==
  ASSUME NEW items, Len(items) \in Nat, NEW f, NEW g, LeavesTyped(items, f),
         \A i \in 1 .. Len(items) : IsTable(items[i]) => f[items[i].table] = g[items[i].table]
  PROVE  LeavesOf(items, f) = LeavesOf(items, g)
<1>1. \A i \in 1 .. Len(items) : Piece(items[i], f) = Piece(items[i], g)
  BY DEF Piece
<1>2. LeavesTyped(items, g) /\ AddPiece(items, f) = AddPiece(items, g)
  BY <1>1 DEF LeavesTyped, AddPiece
<1> DEFINE F == AddPiece(items, f)
           n == Len(items)
<1>3. PICK u : Iterates(Seq(Value), n, <<>>, F, u) /\ LeavesOf(items, f) = u[n]
  BY LeavesOfIs
<1>4. PICK v : Iterates(Seq(Value), n, <<>>, AddPiece(items, g), v) /\ LeavesOf(items, g) = v[n]
  BY <1>2, LeavesOfIs
<1>5. Iterates(Seq(Value), n, <<>>, F, v)
  BY <1>2, <1>4
<1> HIDE DEF F, n
<1>6. v[n] = u[n]
  BY <1>3, <1>5, IteratesSame DEF n
<1> QED
  BY <1>3, <1>4, <1>6

-----------------------------------------------------------------------------
(* Recursion on tables.                                                    *)

\* A function of the tables, each of which depends on those before it.
Determined(N, V, G) ==
  /\ G \in [1 .. N -> [[1 .. N -> V] -> V]]
  /\ \A t \in 1 .. N : \A g, h \in [1 .. N -> V] :
       (\A x \in 1 .. t - 1 : g[x] = h[x]) => G[t][g] = G[t][h]

Solves(N, V, G, g) ==
  g \in [1 .. N -> V] /\ \A t \in 1 .. N : g[t] = G[t][g]

LEMMA DeterminedExists ==
  ASSUME NEW N \in Nat, NEW V, V # {}, NEW G, Determined(N, V, G)
  PROVE  \E g : Solves(N, V, G, g)
<1> DEFINE P == [1 .. N -> V]
           S == {m \in Nat : m <= N => \E g \in P : \A t \in 1 .. m : g[t] = G[t][g]}
<1>1. 0 \in S
  <2>1. PICK v \in V : TRUE
    OBVIOUS
  <2> DEFINE g == [t \in 1 .. N |-> v]
  <2>2. g \in P
    OBVIOUS
  <2>3. \A t \in 1 .. 0 : FALSE
    OBVIOUS
  <2> HIDE DEF P, g
  <2>4. \A t \in 1 .. 0 : g[t] = G[t][g]
    BY <2>3
  <2> QED
    BY <2>2, <2>4
<1>2. ASSUME NEW m \in Nat, m \in S PROVE m + 1 \in S
  <2> SUFFICES ASSUME m + 1 <= N PROVE \E h \in P : \A t \in 1 .. m + 1 : h[t] = G[t][h]
    OBVIOUS
  <2>1. PICK g \in P : \A t \in 1 .. m : g[t] = G[t][g]
    BY <1>2
  <2> DEFINE h == [t \in 1 .. N |-> IF t = m + 1 THEN G[m + 1][g] ELSE g[t]]
  <2>2. m + 1 \in 1 .. N
    OBVIOUS
  <2>3. G[m + 1][g] \in V
    BY <2>2 DEF Determined
  <2>4. h \in P
    BY <2>3
  <2>5. h[m + 1] = G[m + 1][g] /\ \A t \in 1 .. N : t # m + 1 => h[t] = g[t]
    BY <2>2
  <2> HIDE DEF h
  <2>6. ASSUME NEW t \in 1 .. m + 1 PROVE h[t] = G[t][h]
    <3>1. t \in 1 .. N /\ \A x \in 1 .. t - 1 : x \in 1 .. N /\ x # m + 1
      OBVIOUS
    <3>2. \A x \in 1 .. t - 1 : g[x] = h[x]
      BY <2>5, <3>1
    <3>3. G[t][g] = G[t][h]
      BY <2>4, <3>1, <3>2 DEF Determined
    <3>4. CASE t = m + 1
      BY <2>5, <3>3, <3>4
    <3>5. CASE t # m + 1
      <4>1. t \in 1 .. m
        BY <3>5
      <4> QED
        BY <2>1, <2>5, <3>1, <3>3, <3>5, <4>1
    <3> QED
      BY <3>4, <3>5
  <2> QED
    BY <2>4, <2>6
<1> HIDE DEF S
<1>3. N \in S
  BY <1>1, <1>2, Induction
<1>4. N <= N
  OBVIOUS
<1> HIDE DEF P
<1>5. \E g \in P : \A t \in 1 .. N : g[t] = G[t][g]
  BY <1>3, <1>4 DEF S
<1> QED
  BY <1>5 DEF P, Solves

-----------------------------------------------------------------------------
(* The values of the tables.                                               *)

\* The elements of a list.
LEMMA ElementIs ==
  ASSUME NEW e \in Element
  PROVE  /\ IsTable(e) => e.table \in DOMAIN Tables
         /\ ~ IsTable(e) => e.value \in Value
BY DEF Element, IsTable

LEMMA TablesAre ==
  /\ Len(Tables) \in Nat /\ DOMAIN Tables = 1 .. Len(Tables)
  /\ \A t \in 1 .. Len(Tables) :
       /\ Tables[t] \in Seq(Element) /\ Len(Tables[t]) \in Nat
       /\ \A i \in 1 .. Len(Tables[t]) :
            /\ Tables[t][i] \in Element
            /\ IsTable(Tables[t][i]) => Tables[t][i].table \in 1 .. t - 1
<1>1. Tables \in Seq(Seq(Element))
  BY FlattenAssumption
<1>2. Len(Tables) \in Nat /\ DOMAIN Tables = 1 .. Len(Tables)
  BY <1>1
<1>3. ASSUME NEW t \in 1 .. Len(Tables)
      PROVE  /\ Tables[t] \in Seq(Element) /\ Len(Tables[t]) \in Nat
             /\ \A i \in 1 .. Len(Tables[t]) :
                  /\ Tables[t][i] \in Element
                  /\ IsTable(Tables[t][i]) => Tables[t][i].table \in 1 .. t - 1
  <2>1. Tables[t] \in Seq(Element)
    BY <1>1, <1>3
  <2>2. Len(Tables[t]) \in Nat /\ DOMAIN Tables[t] = 1 .. Len(Tables[t])
    BY <2>1
  <2>3. ASSUME NEW i \in 1 .. Len(Tables[t])
        PROVE  /\ Tables[t][i] \in Element
               /\ IsTable(Tables[t][i]) => Tables[t][i].table \in 1 .. t - 1
    <3>1. Tables[t][i] \in Element
      BY <2>1
    <3> DEFINE e == Tables[t][i]
    <3>2. IsTable(e) => e.table \in 1 .. Len(Tables)
      BY <1>2, <3>1, ElementIs
    <3>3. IsTable(e) => e.table < t
      BY <1>2, <2>2, FlattenAssumption
    <3> HIDE DEF e
    <3>4. IsTable(e) => e.table \in 1 .. t - 1
      BY <1>2, <3>2, <3>3
    <3> QED
      BY <3>1, <3>4 DEF e
  <2> QED
    BY <2>1, <2>2, <2>3
<1> QED
  BY <1>2, <1>3

\* For a list whose tables have values.
LEMMA PiecesTyped ==
  ASSUME NEW items \in Seq(Element), NEW f,
         \A i \in 1 .. Len(items) : IsTable(items[i]) => f[items[i].table] \in Seq(Value)
  PROVE  LeavesTyped(items, f)
<1> SUFFICES ASSUME NEW i \in 1 .. Len(items) PROVE Piece(items[i], f) \in Seq(Value)
  BY DEF LeavesTyped
<1>1. items[i] \in Element
  OBVIOUS
<1>2. ~ IsTable(items[i]) => items[i].value \in Value
  BY <1>1, ElementIs
<1>3. \A v \in Value : <<v>> \in Seq(Value)
  OBVIOUS
<1> QED
  BY <1>2, <1>3 DEF Piece

\* A function of the tables that satisfies the equation of Leaves.
LEMMA LeavesExist ==
  \E g \in [1 .. Len(Tables) -> Seq(Value)] :
    \A t \in 1 .. Len(Tables) : g[t] = LeavesOf(Tables[t], g)
<1> DEFINE N == Len(Tables)
           V == Seq(Value)
           G == [t \in 1 .. N |-> [g \in [1 .. N -> V] |-> LeavesOf(Tables[t], g)]]
<1>1. N \in Nat /\ <<>> \in V
  BY TablesAre
<1>2. ASSUME NEW t \in 1 .. N, NEW g \in [1 .. N -> V]
      PROVE  LeavesTyped(Tables[t], g)
  <2>1. \A i \in 1 .. Len(Tables[t]) : IsTable(Tables[t][i]) => g[Tables[t][i].table] \in V
    BY <1>1, TablesAre
  <2> QED
    BY <2>1, TablesAre, PiecesTyped
<1>3. \A t \in 1 .. N : \A g \in [1 .. N -> V] : LeavesOf(Tables[t], g) \in V
  BY <1>2, TablesAre, LeavesOfTyped
<1>4. G \in [1 .. N -> [[1 .. N -> V] -> V]]
  <2> HIDE DEF V, N
  <2> QED
    BY <1>3
<1>5. ASSUME NEW t \in 1 .. N, NEW g \in [1 .. N -> V], NEW h \in [1 .. N -> V],
             \A x \in 1 .. t - 1 : g[x] = h[x]
      PROVE  LeavesOf(Tables[t], g) = LeavesOf(Tables[t], h)
  <2>1. \A i \in 1 .. Len(Tables[t]) :
          IsTable(Tables[t][i]) => g[Tables[t][i].table] = h[Tables[t][i].table]
    BY <1>5, TablesAre
  <2>2. Len(Tables[t]) \in Nat
    BY TablesAre
  <2> QED
    BY <1>2, <2>1, <2>2, LeavesOfSame
<1>6. \A t \in 1 .. N : \A g \in [1 .. N -> V] : G[t][g] = LeavesOf(Tables[t], g)
  OBVIOUS
<1> HIDE DEF N, V, G
<1>7. Determined(N, V, G)
  <2> SUFFICES ASSUME NEW t \in 1 .. N, NEW g \in [1 .. N -> V], NEW h \in [1 .. N -> V],
                      \A x \in 1 .. t - 1 : g[x] = h[x]
               PROVE  G[t][g] = G[t][h]
    BY <1>4 DEF Determined
  <2>1. LeavesOf(Tables[t], g) = LeavesOf(Tables[t], h)
    BY <1>5
  <2> QED
    BY <1>6, <2>1
<1>8. PICK g : Solves(N, V, G, g)
  <2>1. V # {}
    BY <1>1
  <2> QED
    BY <1>1, <1>7, <2>1, DeterminedExists
<1>9. g \in [1 .. N -> V] /\ \A t \in 1 .. N : g[t] = LeavesOf(Tables[t], g)
  BY <1>6, <1>8 DEF Solves
<1> QED
  BY <1>9 DEF N, V

\* The values of each table are those of its elements.
LEMMA LeavesAre ==
  \A t \in 1 .. Len(Tables) :
    Leaves[t] \in Seq(Value) /\ Leaves[t] = LeavesOf(Tables[t], Leaves)
<1> DEFINE N == Len(Tables)
           Body(f) == [t \in DOMAIN Tables |-> LeavesOf(Tables[t], f)]
<1>1. DOMAIN Tables = 1 .. N /\ N \in Nat
  BY TablesAre
<1>2. PICK g \in [1 .. N -> Seq(Value)] : \A t \in 1 .. N : g[t] = LeavesOf(Tables[t], g)
  BY LeavesExist
<1>3. g = Body(g)
  BY <1>1, <1>2
<1>4. Leaves = CHOOSE f : f = Body(f)
  BY DEF Leaves
<1>5. Leaves = Body(Leaves)
  <2> HIDE DEF Body
  <2> QED
    BY <1>3, <1>4
<1>6. \A t \in 1 .. N : Leaves[t] = LeavesOf(Tables[t], Leaves)
  <2>1. \A t \in 1 .. N : Body(Leaves)[t] = LeavesOf(Tables[t], Leaves)
    BY <1>1
  <2> HIDE DEF Body
  <2> QED
    BY <1>5, <2>1
<1> DEFINE S == {m \in Nat : \A t \in 1 .. N : t <= m => Leaves[t] = g[t]}
<1>7. 0 \in S
  OBVIOUS
<1>8. ASSUME NEW m \in Nat, m \in S PROVE m + 1 \in S
  <2> SUFFICES ASSUME NEW t \in 1 .. N, t <= m + 1 PROVE Leaves[t] = g[t]
    OBVIOUS
  <2>1. \A x \in 1 .. t - 1 : Leaves[x] = g[x]
    <3> SUFFICES ASSUME NEW x \in 1 .. t - 1 PROVE Leaves[x] = g[x]
      OBVIOUS
    <3>1. x \in 1 .. N /\ x <= m
      BY <1>1
    <3> QED
      BY <1>8, <3>1
  <2> HIDE DEF S, Body
  <2>2. \A i \in 1 .. Len(Tables[t]) : IsTable(Tables[t][i]) =>
          /\ g[Tables[t][i].table] = Leaves[Tables[t][i].table]
          /\ g[Tables[t][i].table] \in Seq(Value)
    <3>1. \A x \in 1 .. t - 1 : x \in 1 .. N
      BY <1>1
    <3> QED
      BY <1>2, <2>1, <3>1, TablesAre
  <2>3. Tables[t] \in Seq(Element) /\ Len(Tables[t]) \in Nat
    BY TablesAre
  <2>4. LeavesTyped(Tables[t], g)
    BY <2>2, <2>3, PiecesTyped
  <2>5. LeavesOf(Tables[t], g) = LeavesOf(Tables[t], Leaves)
    BY <2>2, <2>3, <2>4, LeavesOfSame
  <2> QED
    BY <1>2, <1>6, <2>5
<1>9. N \in S
  <2> HIDE DEF S, N
  <2> QED
    BY <1>1, <1>7, <1>8, Induction
<1>10. \A t \in 1 .. N : Leaves[t] = g[t]
  BY <1>1, <1>9
<1> QED
  BY <1>2, <1>6, <1>10

-----------------------------------------------------------------------------
(* The loop of Flatten1_.                                                  *)

Outcome == [flat : Seq(Value), n : Nat]

\* What Flatten1_ does for a table, wherever it starts.
Flattened ==
  {h \in [Start -> Outcome] : \A s \in Start : s.cur + h[s].n <= Len(h[s].flat)}

\* Where the loop is when it has started at s.
Reached(s) == {p \in Progress : p.cur = s.cur + p.n}

LEMMA RawSetIs ==
  ASSUME NEW flat \in Seq(Value), NEW i \in Nat, i < Len(flat) + 1, NEW v \in Value
  PROVE  /\ RawSet(flat, i + 1, v) \in Seq(Value) /\ i + 1 <= Len(RawSet(flat, i + 1, v))
         /\ i = Len(flat) => RawSet(flat, i + 1, v) = flat \o <<v>>
<1> DEFINE r == RawSet(flat, i + 1, v)
           n == Len(flat)
<1>1. n \in Nat /\ DOMAIN flat = 1 .. n /\ \A k \in 1 .. n : flat[k] \in Value
  OBVIOUS
<1>2. CASE i < n
  <2>1. 1 .. n \cup {i + 1} = 1 .. n
    BY <1>1, <1>2
  <2>2. r \in [1 .. n -> Value]
    BY <1>1, <2>1 DEF RawSet
  <2>3. r \in Seq(Value) /\ Len(r) = n
    BY <1>1, <2>2, FunctionIsSequence, Zenon
  <2> HIDE DEF r, n
  <2>4. r \in Seq(Value) /\ i + 1 <= Len(r) /\ i # n
    BY <1>1, <1>2, <2>3
  <2> QED
    BY <2>4 DEF r, n
<1>3. CASE i = n
  <2>1. 1 .. n \cup {i + 1} = 1 .. n + 1
    BY <1>1, <1>3
  <2>2. r = [k \in 1 .. n + 1 |-> IF k = n + 1 THEN v ELSE flat[k]]
    BY <1>1, <1>3, <2>1 DEF RawSet
  <2>3. r \in [1 .. n + 1 -> Value] /\ n + 1 \in Nat
    BY <1>1, <2>2
  <2>4. r \in Seq(Value) /\ Len(r) = n + 1
    BY <2>3, FunctionIsSequence, Zenon
  <2>5. r = flat \o <<v>>
    BY <1>1, <2>2
  <2> HIDE DEF r
  <2>6. r \in Seq(Value) /\ i + 1 <= Len(r)
    BY <1>1, <1>3, <2>4
  <2> QED
    BY <2>5, <2>6 DEF r
<1>4. i < n \/ i = n
  <2>1. i < n + 1 /\ n \in Nat
    BY <1>1
  <2> HIDE DEF n
  <2> QED
    BY <2>1
<1> QED
  BY <1>2, <1>3, <1>4, Zenon

LEMMA OneElementIs ==
  ASSUME NEW e \in Element, NEW f, IsTable(e) => f[e.table] \in Flattened,
         NEW s \in Start, NEW p \in Reached(s)
  PROVE  OneElement(e, p, f) \in Reached(s)
<1>1. /\ p.flat \in Seq(Value) /\ p.cur \in Nat /\ p.n \in Nat /\ p.cur <= Len(p.flat)
      /\ p.cur = s.cur + p.n /\ s.cur \in Nat
  BY DEF Reached, Progress, Start
<1>2. CASE IsTable(e)
  <2> DEFINE r == f[e.table][StartOf(p)]
  <2>1. StartOf(p) \in Start /\ StartOf(p).cur = p.cur
    BY <1>1 DEF Start, StartOf
  <2>2. r.flat \in Seq(Value) /\ r.n \in Nat /\ p.cur + r.n <= Len(r.flat)
    BY <1>2, <2>1 DEF Flattened, Outcome
  <2>3. OneElement(e, p, f) = [flat |-> r.flat, cur |-> p.cur + r.n, n |-> p.n + r.n]
    BY <1>2 DEF OneElement
  <2> HIDE DEF r
  <2> QED
    BY <1>1, <2>2, <2>3 DEF Reached, Progress
<1>3. CASE ~ IsTable(e)
  <2> DEFINE r == RawSet(p.flat, p.cur + 1, e.value)
  <2>1. e.value \in Value /\ p.cur < Len(p.flat) + 1
    BY <1>1, <1>3, ElementIs
  <2>2. r \in Seq(Value) /\ p.cur + 1 <= Len(r)
    BY <1>1, <2>1, RawSetIs
  <2>3. OneElement(e, p, f) = [flat |-> r, cur |-> p.cur + 1, n |-> p.n + 1]
    BY <1>3 DEF OneElement
  <2> HIDE DEF r
  <2>4. p.cur + 1 = s.cur + (p.n + 1) /\ p.cur + 1 \in Nat /\ p.n + 1 \in Nat
    BY <1>1
  <2> QED
    BY <2>2, <2>3, <2>4 DEF Reached, Progress
<1> QED
  BY <1>2, <1>3

First(s) == [flat |-> s.flat, cur |-> s.cur, n |-> 0]

\* The loop's step, for each element.
Steps(items, s, f) ==
  [i \in 1 .. Len(items) |-> [p \in Reached(s) |-> OneElement(items[i], p, f)]]

\* Its tables are flattened.
TablesFlattened(items, f) ==
  \A i \in 1 .. Len(items) : IsTable(items[i]) => f[items[i].table] \in Flattened

LEMMA LoopIs ==
  ASSUME NEW items \in Seq(Element), NEW s \in Start, NEW f, TablesFlattened(items, f)
  PROVE  \E g : /\ Iterates(Reached(s), Len(items), First(s), Steps(items, s, f), g)
                /\ Loop(items, s, f) = g[Len(items)]
<1> DEFINE R == Reached(s)
           n == Len(items)
           a == First(s)
           F == Steps(items, s, f)
           Body(h) == [i \in 0 .. n |->
                         IF i = 0 THEN [flat |-> s.flat, cur |-> s.cur, n |-> 0]
                                  ELSE OneElement(items[i], h[i - 1], f)]
           after == CHOOSE h : h = Body(h)
<1>1. n \in Nat
  OBVIOUS
<1>2. a \in R
  BY DEF First, Reached, Progress, Start
<1>3. \A i \in 1 .. n : \A p \in R : OneElement(items[i], p, f) \in R
  BY OneElementIs DEF TablesFlattened
<1>4. F \in [1 .. n -> [R -> R]]
  BY <1>3 DEF Steps
<1>5. \A i \in 1 .. n : \A p \in R : F[i][p] = OneElement(items[i], p, f)
  BY DEF Steps
<1>6. PICK g : Iterates(R, n, a, F, g)
  <2> HIDE DEF R, n, a, F
  <2> QED
    BY <1>1, <1>2, <1>4, IteratesExist
<1>7. g = Body(g)
  <2>1. g \in [0 .. n -> R] /\ g[0] = a /\ \A i \in 1 .. n : g[i] = F[i][g[i - 1]]
    BY <1>6 DEF Iterates
  <2>2. ASSUME NEW i \in 0 .. n PROVE g[i] = Body(g)[i]
    <3>1. CASE i = 0
      BY <2>1, <3>1 DEF First
    <3>2. CASE i # 0
      <4>1. i \in 1 .. n /\ g[i - 1] \in R
        BY <2>1, <3>2
      <4>2. g[i] = OneElement(items[i], g[i - 1], f)
        BY <1>5, <2>1, <4>1
      <4> QED
        BY <3>2, <4>2
    <3> QED
      BY <3>1, <3>2
  <2> QED
    BY <2>1, <2>2
<1>8. after = Body(after)
  <2> HIDE DEF Body
  <2> QED
    BY <1>7
<1>9. Loop(items, s, f) = after[n]
  BY DEF Loop
<1> HIDE DEF after
<1>10. after[0] = a
  BY <1>8 DEF First
<1>11. ASSUME NEW i \in 1 .. n, after[i - 1] \in R PROVE after[i] = F[i][after[i - 1]]
  <2>1. i \in 0 .. n /\ i # 0
    OBVIOUS
  <2>2. after[i] = Body(after)[i]
    <3> HIDE DEF Body
    <3> QED
      BY <1>8
  <2>3. after[i] = OneElement(items[i], after[i - 1], f)
    BY <2>1, <2>2
  <2> QED
    BY <1>5, <1>11, <2>3
<1>12. after[n] = g[n]
  <2>1. n \in 0 .. n
    BY <1>1
  <2>2. Follows(R, n, a, F, after)
    BY <1>10, <1>11 DEF Follows
  <2> HIDE DEF n, R, a, F, Body
  <2>3. \A i \in 0 .. n : after[i] = g[i]
    BY <1>1, <1>6, <2>2, IteratesOnly
  <2> QED
    BY <2>1, <2>3
<1> QED
  BY <1>6, <1>9, <1>12

LEMMA LoopTyped ==
  ASSUME NEW items \in Seq(Element), NEW s \in Start, NEW f, TablesFlattened(items, f)
  PROVE  Loop(items, s, f) \in Reached(s)
<1>1. PICK g : /\ Iterates(Reached(s), Len(items), First(s), Steps(items, s, f), g)
               /\ Loop(items, s, f) = g[Len(items)]
  BY LoopIs
<1>2. Len(items) \in 0 .. Len(items)
  OBVIOUS
<1> QED
  BY <1>1, <1>2 DEF Iterates

LEMMA LoopSame ==
  ASSUME NEW items \in Seq(Element), NEW s \in Start, NEW f, TablesFlattened(items, f), NEW h,
         \A i \in 1 .. Len(items) : IsTable(items[i]) => f[items[i].table] = h[items[i].table]
  PROVE  Loop(items, s, f) = Loop(items, s, h)
<1> DEFINE n == Len(items)
           R == Reached(s)
           a == First(s)
           F == Steps(items, s, f)
<1>1. TablesFlattened(items, h)
  BY DEF TablesFlattened
<1>2. \A i \in 1 .. n : \A p : OneElement(items[i], p, f) = OneElement(items[i], p, h)
  BY DEF OneElement
<1>3. Steps(items, s, f) = Steps(items, s, h)
  BY <1>2 DEF Steps
<1>4. PICK u : Iterates(R, n, a, F, u) /\ Loop(items, s, f) = u[n]
  BY LoopIs
<1>5. PICK v : Iterates(R, n, a, Steps(items, s, h), v) /\ Loop(items, s, h) = v[n]
  BY <1>1, LoopIs
<1>6. Iterates(R, n, a, F, v) /\ n \in Nat
  BY <1>3, <1>5
<1> HIDE DEF n, R, a, F
<1>7. v[n] = u[n]
  BY <1>4, <1>6, IteratesSame
<1> QED
  BY <1>4, <1>5, <1>7

-----------------------------------------------------------------------------
(* Flatten1_.                                                              *)

\* Flatten1_ of a table, if f is Flatten1_ of the tables before it.
FlattenOf(t, f) ==
  [s \in Start |-> LET r == Loop(Tables[t], s, f) IN [flat |-> r.flat, n |-> r.n]]

LEMMA FlattenOfTyped ==
  ASSUME NEW t \in 1 .. Len(Tables), NEW f, TablesFlattened(Tables[t], f)
  PROVE  FlattenOf(t, f) \in Flattened
<1>1. Tables[t] \in Seq(Element)
  BY TablesAre
<1>2. ASSUME NEW s \in Start
      PROVE  /\ FlattenOf(t, f)[s] \in Outcome
             /\ s.cur + FlattenOf(t, f)[s].n <= Len(FlattenOf(t, f)[s].flat)
  <2> DEFINE r == Loop(Tables[t], s, f)
  <2>1. r \in Reached(s)
    BY <1>1, LoopTyped
  <2>2. FlattenOf(t, f)[s] = [flat |-> r.flat, n |-> r.n]
    BY DEF FlattenOf
  <2> HIDE DEF r
  <2> QED
    BY <2>1, <2>2 DEF Reached, Progress, Outcome
<1>3. FlattenOf(t, f) \in [Start -> Outcome]
  BY <1>2 DEF FlattenOf
<1> QED
  BY <1>2, <1>3 DEF Flattened

LEMMA FlattenOfSame ==
  ASSUME NEW t \in 1 .. Len(Tables), NEW f, TablesFlattened(Tables[t], f), NEW h,
         \A i \in 1 .. Len(Tables[t]) :
           IsTable(Tables[t][i]) => f[Tables[t][i].table] = h[Tables[t][i].table]
  PROVE  FlattenOf(t, f) = FlattenOf(t, h)
<1>1. Tables[t] \in Seq(Element)
  BY TablesAre
<1>2. \A s \in Start : Loop(Tables[t], s, f) = Loop(Tables[t], s, h)
  BY <1>1, LoopSame
<1> QED
  BY <1>2 DEF FlattenOf

\* A function of the tables that satisfies the equation of Flatten1.
LEMMA FlattenExists ==
  \E g \in [1 .. Len(Tables) -> Flattened] :
    \A t \in 1 .. Len(Tables) : g[t] = FlattenOf(t, g)
<1> DEFINE N == Len(Tables)
           V == Flattened
           G == [t \in 1 .. N |-> [g \in [1 .. N -> V] |-> FlattenOf(t, g)]]
<1>1. N \in Nat
  BY TablesAre
<1>2. V # {}
  <2> DEFINE h == [s \in Start |-> [flat |-> s.flat, n |-> 0]]
  <2>1. \A s \in Start : s.flat \in Seq(Value) /\ s.cur \in Nat /\ s.cur <= Len(s.flat)
    BY DEF Start
  <2>2. h \in [Start -> Outcome]
    BY <2>1 DEF Outcome
  <2>3. \A s \in Start : s.cur + h[s].n <= Len(h[s].flat)
    BY <2>1
  <2> HIDE DEF h
  <2>4. h \in Flattened
    BY <2>2, <2>3 DEF Flattened
  <2> QED
    BY <2>4
<1>3. ASSUME NEW t \in 1 .. N, NEW g \in [1 .. N -> V]
      PROVE  TablesFlattened(Tables[t], g)
  <2> HIDE DEF V
  <2>1. \A i \in 1 .. Len(Tables[t]) : IsTable(Tables[t][i]) => g[Tables[t][i].table] \in V
    BY <1>1, TablesAre
  <2> QED
    BY <2>1 DEF V, TablesFlattened
<1>4. \A t \in 1 .. N : \A g \in [1 .. N -> V] : FlattenOf(t, g) \in V
  BY <1>3, FlattenOfTyped
<1>5. G \in [1 .. N -> [[1 .. N -> V] -> V]]
  <2> HIDE DEF V, N
  <2> QED
    BY <1>4
<1>6. ASSUME NEW t \in 1 .. N, NEW g \in [1 .. N -> V], NEW h \in [1 .. N -> V],
             \A x \in 1 .. t - 1 : g[x] = h[x]
      PROVE  FlattenOf(t, g) = FlattenOf(t, h)
  <2>1. \A i \in 1 .. Len(Tables[t]) :
          IsTable(Tables[t][i]) => g[Tables[t][i].table] = h[Tables[t][i].table]
    BY <1>6, TablesAre
  <2> QED
    BY <1>3, <2>1, FlattenOfSame
<1>7. \A t \in 1 .. N : \A g \in [1 .. N -> V] : G[t][g] = FlattenOf(t, g)
  OBVIOUS
<1> HIDE DEF N, V, G
<1>8. Determined(N, V, G)
  <2> SUFFICES ASSUME NEW t \in 1 .. N, NEW g \in [1 .. N -> V], NEW h \in [1 .. N -> V],
                      \A x \in 1 .. t - 1 : g[x] = h[x]
               PROVE  G[t][g] = G[t][h]
    BY <1>5 DEF Determined
  <2>1. FlattenOf(t, g) = FlattenOf(t, h)
    BY <1>6
  <2> QED
    BY <1>7, <2>1
<1>9. PICK g : Solves(N, V, G, g)
  BY <1>1, <1>2, <1>8, DeterminedExists
<1>10. g \in [1 .. N -> V] /\ \A t \in 1 .. N : g[t] = FlattenOf(t, g)
  BY <1>7, <1>9 DEF Solves
<1> QED
  BY <1>10 DEF N, V

LEMMA Flatten1Is ==
  \A t \in 1 .. Len(Tables) : Flatten1[t] \in Flattened /\ Flatten1[t] = FlattenOf(t, Flatten1)
<1> DEFINE N == Len(Tables)
           Body(f) == [t \in DOMAIN Tables |->
                         [s \in Start |-> LET r == Loop(Tables[t], s, f)
                                          IN  [flat |-> r.flat, n |-> r.n]]]
<1>1. DOMAIN Tables = 1 .. N /\ N \in Nat
  BY TablesAre
<1>2. PICK g \in [1 .. N -> Flattened] : \A t \in 1 .. N : g[t] = FlattenOf(t, g)
  BY FlattenExists
<1>3. \A f : Body(f) = [t \in 1 .. N |-> FlattenOf(t, f)]
  BY <1>1 DEF FlattenOf
<1>4. Flatten1 = CHOOSE f : f = Body(f)
  BY DEF Flatten1
<1> HIDE DEF Body
<1>5. g = Body(g)
  BY <1>2, <1>3
<1>6. Flatten1 = Body(Flatten1)
  BY <1>4, <1>5
<1>7. \A t \in 1 .. N : Flatten1[t] = FlattenOf(t, Flatten1)
  <2>1. Flatten1 = [t \in 1 .. N |-> FlattenOf(t, Flatten1)]
    BY <1>3, <1>6
  <2> QED
    BY <2>1
<1> DEFINE S == {m \in Nat : \A t \in 1 .. N : t <= m => Flatten1[t] = g[t]}
<1>8. 0 \in S
  OBVIOUS
<1>9. ASSUME NEW m \in Nat, m \in S PROVE m + 1 \in S
  <2> SUFFICES ASSUME NEW t \in 1 .. N, t <= m + 1 PROVE Flatten1[t] = g[t]
    OBVIOUS
  <2>1. \A x \in 1 .. t - 1 : Flatten1[x] = g[x]
    <3> SUFFICES ASSUME NEW x \in 1 .. t - 1 PROVE Flatten1[x] = g[x]
      OBVIOUS
    <3>1. x \in 1 .. N /\ x <= m
      BY <1>1
    <3> QED
      BY <1>9, <3>1
  <2> HIDE DEF S
  <2>2. \A i \in 1 .. Len(Tables[t]) : IsTable(Tables[t][i]) =>
          /\ g[Tables[t][i].table] = Flatten1[Tables[t][i].table]
          /\ g[Tables[t][i].table] \in Flattened
    <3>1. \A x \in 1 .. t - 1 : x \in 1 .. N
      BY <1>1
    <3> QED
      BY <1>2, <2>1, <3>1, TablesAre
  <2>3. TablesFlattened(Tables[t], g)
    BY <2>2 DEF TablesFlattened
  <2>4. FlattenOf(t, g) = FlattenOf(t, Flatten1)
    BY <2>2, <2>3, FlattenOfSame
  <2> QED
    BY <1>2, <1>7, <2>4
<1>10. N \in S
  <2> HIDE DEF S, N
  <2> QED
    BY <1>1, <1>8, <1>9, Induction
<1>11. \A t \in 1 .. N : Flatten1[t] = g[t]
  BY <1>1, <1>10
<1> QED
  BY <1>2, <1>7, <1>11

-----------------------------------------------------------------------------
(* What flattening stores.                                                 *)

\* The loop has found the values v.
Holds(s, v) == [flat |-> s.flat \o v, cur |-> s.cur + Len(v), n |-> Len(v)]

AtEnd(s) == s \in Start /\ s.cur = Len(s.flat)

\* Flatten1_ appends the values of table t.
Appends(t) ==
  \A s : AtEnd(s) => Flatten1[t][s] = [flat |-> s.flat \o Leaves[t], n |-> Len(Leaves[t])]

Known(e) == IsTable(e) => e.table \in 1 .. Len(Tables) /\ Appends(e.table)

LEMMA OneElementHolds ==
  ASSUME NEW e \in Element, Known(e), NEW s, AtEnd(s), NEW v \in Seq(Value)
  PROVE  OneElement(e, Holds(s, v), Flatten1) = Holds(s, v \o Piece(e, Leaves))
<1> DEFINE w == Piece(e, Leaves)
           p == Holds(s, v)
<1>1. s.flat \in Seq(Value) /\ s.cur = Len(s.flat) /\ s.cur \in Nat
  BY DEF AtEnd, Start
<1>2. w \in Seq(Value)
  <2>1. CASE IsTable(e)
    BY <2>1, LeavesAre DEF Known, Piece
  <2>2. CASE ~ IsTable(e)
    <3>1. e.value \in Value
      BY <2>2, ElementIs
    <3> QED
      BY <2>2, <3>1 DEF Piece
  <2> QED
    BY <2>1, <2>2
<1>3. p.flat = s.flat \o v /\ p.cur = s.cur + Len(v) /\ p.n = Len(v)
  BY DEF Holds
<1>4. p.flat \in Seq(Value) /\ p.cur = Len(p.flat) /\ p.cur \in Nat /\ p.n \in Nat
  <2>1. s.flat \o v \in Seq(Value) /\ Len(s.flat \o v) = Len(s.flat) + Len(v)
    BY <1>1, ConcatProperties
  <2>2. Len(v) \in Nat
    OBVIOUS
  <2> HIDE DEF p
  <2> QED
    BY <1>1, <1>3, <2>1, <2>2
<1>5. (s.flat \o v) \o w = s.flat \o (v \o w)
  <2> DEFINE f == s.flat
  <2>1. f \in Seq(Value) /\ v \in Seq(Value) /\ w \in Seq(Value)
    BY <1>1, <1>2
  <2> HIDE DEF f, w, p
  <2>2. (f \o v) \o w = f \o (v \o w)
    BY <2>1, ConcatAssociative
  <2> QED
    BY <2>2 DEF f
<1>6. Len(v \o w) = Len(v) + Len(w) /\ Len(v) \in Nat /\ Len(w) \in Nat
  <2> HIDE DEF w
  <2> QED
    BY <1>2, ConcatProperties
<1>7. Holds(s, v \o w) = [flat |-> p.flat \o w, cur |-> p.cur + Len(w), n |-> p.n + Len(w)]
  <2> HIDE DEF w, p
  <2>1. s.cur + Len(v \o w) = p.cur + Len(w) /\ Len(v \o w) = p.n + Len(w)
    <3>1. \A a, b, c \in Nat : a + (b + c) = (a + b) + c
      OBVIOUS
    <3>2. p.cur = s.cur + Len(v) /\ p.n = Len(v) /\ s.cur \in Nat
      BY <1>1, <1>3
    <3>3. s.cur + (Len(v) + Len(w)) = (s.cur + Len(v)) + Len(w)
      BY <1>6, <3>1, <3>2, Zenon
    <3> QED
      BY <1>6, <3>2, <3>3, Zenon
  <2> QED
    BY <1>3, <1>5, <2>1 DEF Holds
<1> HIDE DEF p
<1>8. CASE IsTable(e)
  <2>1. AtEnd(StartOf(p)) /\ StartOf(p).flat = p.flat
    BY <1>4 DEF AtEnd, StartOf, Start
  <2>2. Flatten1[e.table][StartOf(p)] = [flat |-> p.flat \o w, n |-> Len(w)]
    BY <1>8, <2>1 DEF Known, Appends, Piece
  <2> HIDE DEF w
  <2>3. OneElement(e, p, Flatten1) =
          [flat |-> p.flat \o w, cur |-> p.cur + Len(w), n |-> p.n + Len(w)]
    BY <1>8, <2>2 DEF OneElement
  <2> QED
    BY <1>7, <2>3 DEF p, w
<1>9. CASE ~ IsTable(e)
  <2>1. e.value \in Value /\ w = <<e.value>> /\ Len(w) = 1
    BY <1>9, ElementIs DEF Piece
  <2> HIDE DEF w
  <2>2. RawSet(p.flat, p.cur + 1, e.value) = p.flat \o w
    <3>1. p.cur < Len(p.flat) + 1
      BY <1>4
    <3> QED
      BY <1>4, <2>1, <3>1, RawSetIs, Zenon
  <2>3. OneElement(e, p, Flatten1) =
          [flat |-> p.flat \o w, cur |-> p.cur + Len(w), n |-> p.n + Len(w)]
    BY <1>9, <2>1, <2>2 DEF OneElement
  <2> QED
    BY <1>7, <2>3 DEF p, w
<1> QED
  BY <1>8, <1>9

AllKnown(items) == \A i \in 1 .. Len(items) : Known(items[i])

LEMMA LoopHolds ==
  ASSUME NEW items \in Seq(Element), AllKnown(items), NEW s, AtEnd(s)
  PROVE  /\ LeavesOf(items, Leaves) \in Seq(Value)
         /\ Loop(items, s, Flatten1) = Holds(s, LeavesOf(items, Leaves))
<1> DEFINE n == Len(items)
<1>1. n \in Nat /\ n \in 0 .. n
  OBVIOUS
<1>2. s \in Start /\ s.flat \in Seq(Value) /\ s.cur = Len(s.flat)
  BY DEF AtEnd, Start
<1>3. TablesFlattened(items, Flatten1)
  BY Flatten1Is DEF AllKnown, Known, TablesFlattened
<1>4. LeavesTyped(items, Leaves)
  BY PiecesTyped, LeavesAre DEF AllKnown, Known
<1>5. PICK g : /\ Iterates(Reached(s), n, First(s), Steps(items, s, Flatten1), g)
               /\ Loop(items, s, Flatten1) = g[n]
  BY <1>2, <1>3, LoopIs
<1>6. PICK u : /\ Iterates(Seq(Value), n, <<>>, AddPiece(items, Leaves), u)
               /\ LeavesOf(items, Leaves) = u[n]
  BY <1>1, <1>4, LeavesOfIs
<1>7. /\ g[0] = First(s)
      /\ \A i \in 1 .. n : g[i] = OneElement(items[i], g[i - 1], Flatten1)
  <2>1. g \in [0 .. n -> Reached(s)] /\ g[0] = First(s)
    BY <1>5 DEF Iterates
  <2>2. \A i \in 1 .. n : g[i] = Steps(items, s, Flatten1)[i][g[i - 1]]
    BY <1>5 DEF Iterates
  <2>3. \A i \in 1 .. n : \A p \in Reached(s) :
          Steps(items, s, Flatten1)[i][p] = OneElement(items[i], p, Flatten1)
    BY DEF Steps
  <2>4. \A i \in 1 .. n : g[i - 1] \in Reached(s)
    BY <2>1
  <2> QED
    BY <2>1, <2>2, <2>3, <2>4
<1>8. /\ u[0] = <<>> /\ \A i \in 0 .. n : u[i] \in Seq(Value)
      /\ \A i \in 1 .. n : u[i] = u[i - 1] \o Piece(items[i], Leaves)
  <2>1. u \in [0 .. n -> Seq(Value)] /\ u[0] = <<>>
    BY <1>6 DEF Iterates
  <2>2. \A i \in 1 .. n : u[i] = AddPiece(items, Leaves)[i][u[i - 1]]
    BY <1>6 DEF Iterates
  <2>3. \A i \in 1 .. n : \A v \in Seq(Value) :
          AddPiece(items, Leaves)[i][v] = v \o Piece(items[i], Leaves)
    BY DEF AddPiece
  <2>4. \A i \in 1 .. n : u[i - 1] \in Seq(Value)
    BY <2>1
  <2> QED
    BY <2>1, <2>2, <2>3, <2>4
<1> DEFINE S == {m \in Nat : m <= n => g[m] = Holds(s, u[m])}
<1>9. 0 \in S
  <2>1. s.flat \o <<>> = s.flat /\ Len(<<>>) = 0 /\ s.cur + 0 = s.cur
    BY <1>2
  <2> QED
    BY <1>7, <1>8, <2>1 DEF First, Holds
<1>10. ASSUME NEW m \in Nat, m \in S PROVE m + 1 \in S
  <2> SUFFICES ASSUME m + 1 <= n PROVE g[m + 1] = Holds(s, u[m + 1])
    OBVIOUS
  <2>1. m + 1 \in 1 .. n /\ m \in 0 .. n /\ (m + 1) - 1 = m
    BY <1>1
  <2>2. g[m] = Holds(s, u[m])
    BY <1>10, <2>1
  <2>3. items[m + 1] \in Element /\ Known(items[m + 1]) /\ u[m] \in Seq(Value)
    BY <1>8, <2>1 DEF AllKnown
  <2>4. g[m + 1] = OneElement(items[m + 1], Holds(s, u[m]), Flatten1)
    BY <1>7, <2>1, <2>2
  <2>5. u[m + 1] = u[m] \o Piece(items[m + 1], Leaves)
    BY <1>8, <2>1
  <2> HIDE DEF S, n
  <2> QED
    BY <2>3, <2>4, <2>5, OneElementHolds
<1>11. n \in S
  <2> HIDE DEF S, n
  <2> QED
    BY <1>1, <1>9, <1>10, Induction
<1>12. g[n] = Holds(s, u[n])
  BY <1>1, <1>11
<1> QED
  BY <1>1, <1>5, <1>6, <1>8, <1>12

LEMMA AllAppend == \A t \in 1 .. Len(Tables) : Appends(t)
<1> DEFINE N == Len(Tables)
           S == {m \in Nat : \A t \in 1 .. N : t <= m => Appends(t)}
<1>1. N \in Nat
  BY TablesAre
<1>2. 0 \in S
  OBVIOUS
<1>3. ASSUME NEW m \in Nat, m \in S PROVE m + 1 \in S
  <2> SUFFICES ASSUME NEW t \in 1 .. N, t <= m + 1 PROVE Appends(t)
    OBVIOUS
  <2>1. \A x \in 1 .. t - 1 : x \in 1 .. N /\ Appends(x)
    <3> SUFFICES ASSUME NEW x \in 1 .. t - 1 PROVE x \in 1 .. N /\ Appends(x)
      OBVIOUS
    <3>1. x \in 1 .. N /\ x <= m
      BY <1>1
    <3> QED
      BY <1>3, <3>1
  <2> HIDE DEF S
  <2>2. Tables[t] \in Seq(Element) /\ AllKnown(Tables[t])
    BY <2>1, TablesAre DEF AllKnown, Known
  <2> SUFFICES ASSUME NEW s, AtEnd(s)
               PROVE  Flatten1[t][s] = [flat |-> s.flat \o Leaves[t], n |-> Len(Leaves[t])]
    BY DEF Appends
  <2>3. Loop(Tables[t], s, Flatten1) = Holds(s, Leaves[t])
    BY <2>2, LoopHolds, LeavesAre
  <2>4. Flatten1[t][s] = [flat |-> Loop(Tables[t], s, Flatten1).flat,
                          n |-> Loop(Tables[t], s, Flatten1).n]
    BY Flatten1Is DEF FlattenOf, AtEnd
  <2> QED
    BY <2>3, <2>4 DEF Holds
<1>4. N \in S
  <2> HIDE DEF S, N
  <2> QED
    BY <1>1, <1>2, <1>3, Induction
<1> QED
  BY <1>1, <1>4

LEMMA ValuesTyped ==
  ASSUME NEW items \in Seq(Element)
  PROVE  /\ ValuesOf(items) \in Seq(Value)
         /\ ToFlatTable(items).flat = ValuesOf(items)
         /\ ToFlatTable(items).n = Len(ValuesOf(items))
<1>1. AtEnd(Empty) /\ \A v \in Seq(Value) : Empty.flat \o v = v
  BY DEF AtEnd, Empty, Start
<1>2. CASE items # <<>> /\ IsTable(items[1])
  <2> DEFINE t == items[1].table
  <2>1. items[1] \in Element
    BY <1>2
  <2>2. t \in 1 .. Len(Tables)
    BY <1>2, <2>1, ElementIs, TablesAre
  <2>3. Leaves[t] \in Seq(Value)
    BY <2>2, LeavesAre
  <2>4. Flatten1[t][Empty] = [flat |-> Empty.flat \o Leaves[t], n |-> Len(Leaves[t])]
    BY <1>1, <2>2, AllAppend DEF Appends
  <2>5. ToFlatTable(items) = Flatten1[t][Empty] /\ ValuesOf(items) = Leaves[t]
    BY <1>2 DEF ToFlatTable, ValuesOf
  <2> HIDE DEF t
  <2>6. Empty.flat \o Leaves[t] = Leaves[t]
    BY <1>1, <2>3
  <2>7. ToFlatTable(items) = [flat |-> Leaves[t], n |-> Len(Leaves[t])]
    BY <2>4, <2>5, <2>6
  <2> QED
    BY <2>3, <2>5, <2>7
<1>3. CASE ~ (items # <<>> /\ IsTable(items[1]))
  <2>1. AllKnown(items)
    BY ElementIs, TablesAre, AllAppend DEF AllKnown, Known
  <2> DEFINE v == LeavesOf(items, Leaves)
  <2>2. v \in Seq(Value) /\ Loop(items, Empty, Flatten1) = Holds(Empty, v)
    BY <1>1, <2>1, LoopHolds
  <2>3. ToFlatTable(items) = Loop(items, Empty, Flatten1) /\ ValuesOf(items) = v
    BY <1>3 DEF ToFlatTable, ValuesOf
  <2> HIDE DEF v
  <2>4. Empty.flat \o v = v
    BY <1>1, <2>2
  <2>5. ToFlatTable(items).flat = v /\ ToFlatTable(items).n = Len(v)
    BY <2>2, <2>3, <2>4 DEF Holds
  <2> QED
    BY <2>2, <2>3, <2>5
<1> QED
  BY <1>2, <1>3

-----------------------------------------------------------------------------
(* The theorems.                                                           *)

\* A behaviour of the module is one of calls, for the variables of calls.
LEMMA CallsOfModule == ConvSpec => ReqSpec
<1>1. ConvInit => ReqInit
  BY DEF ConvInit
<1>2. [ConvNext]_convVars => [ReqNext]_reqVars
  BY DEF ConvNext, convVars, Call
<1> QED
  BY <1>1, <1>2, PTL DEF ConvSpec, ReqSpec

\* At every point of a call, what it holds and what it has on its stack are those of
\* the part under conversion (device.c, devhandle.c and datastructs.c push and pop
\* without a check).
THEOREM CallInvariance == ConvSpec => []CallInv
<1>1. ReqInit => CallInv
  <2>1. <<>> \in Seq(FrameType) /\ 0 \in Nat /\ 0 \in Int /\ 0 = 0 + 0 /\ 0 \in 0 .. 0 + 1
    OBVIOUS
  <2> QED
    BY <2>1 DEF ReqInit, CallInv, Idle
<1>2. CallInv /\ [ReqNext]_reqVars => CallInv'
  BY CallStep, RequestsAssumption DEF Good
<1> QED
  BY <1>1, <1>2, CallsOfModule, PTL DEF ReqSpec

\* Calls free what they have obtained, but for the configuration that pushclass and
\* pushendpointdescriptor leave behind when they raise an error.
THEOREM FreedByCallsHolds == ConvSpec => FreedByCalls
<1>1. CallInv /\ [ReqNext]_reqVars =>
        [/\ Idle' => held' = {}
         /\ leaked' # leaked =>
              /\ leaked' = leaked \cup {"config"} /\ outcome' = "raised"
              /\ At("interface") \/ At("altsetting")]_reqVars
  BY CallStep, RequestsAssumption DEF Good, CallFreed
<1> QED
  BY <1>1, CallsOfModule, CallInvariance, PTL DEF ReqSpec, FreedByCalls

\* The stack of a call, from its part under conversion.
LEMMA Balanced == ASSUME CallInv PROVE StackBalanced
<1>1. nargs \in Nat /\ top \in Int
  BY DEF CallInv
<1>2. CASE Idle
  BY <1>1, <1>2 DEF CallInv, StackBalanced, MinStack
<1>3. CASE ~ Idle /\ Alone
  <2>1. outcome = "none" /\ top \in nargs .. nargs + 2
    BY <1>1, <1>3 DEF CallInv, Alone
  <2> QED
    BY <1>1, <2>1 DEF StackBalanced, MinStack
<1>4. CASE ~ Idle /\ Nested
  <2>1. PICK d \in {0, 1} : NestedFrom(d)
    BY <1>4 DEF Nested
  <2>2. top = nargs + Height(Top.at) - 2 * d
    BY <2>1 DEF NestedFrom
  <2> DEFINE h == Height(Top.at)
  <2>3. h \in 2 .. 9
    BY DEF Height
  <2> HIDE DEF h
  <2>4. top = nargs + h - 2 * d
    BY <2>2 DEF h
  <2>5. top + 2 <= nargs + 20
    BY <1>1, <2>3, <2>4
  <2> QED
    BY <1>4, <2>5 DEF CallInv, StackBalanced, MinStack
<1> QED
  BY <1>2, <1>3, <1>4 DEF CallInv

\* A method that returns has its result alone on the stack, needs no more slots than
\* Lua guarantees, and an error that it raises has a documented name (tracing.c,
\* pusherrcode), but for the sizes that CheckError takes for errors.
THEOREM CallsEndHolds == ConvSpec => []CallsEnd
<1>1. ReqInit => ErrorsNamed
  BY DEF ReqInit, ErrorsNamed
<1>2. ErrorsNamed /\ [ReqNext]_reqVars => ErrorsNamed'
  BY ErrorsNamedStep
<1>3. CallInv /\ ErrorsNamed => CallsEnd
  BY Balanced DEF CallsEnd
<1> QED
  BY <1>1, <1>2, <1>3, CallsOfModule, CallInvariance, PTL DEF ReqSpec

\* The enums take part in the conversions without change.
LEMMA EnumsInvariance == ConvSpec => []EnumsInv
<1>1. ConvInit => EnumsInv
  BY EnumsInitially DEF ConvInit
<1>2. EnumsInv /\ [ConvNext]_convVars => EnumsInv'
  <2> SUFFICES ASSUME EnumsInv, [ConvNext]_convVars PROVE EnumsInv'
    OBVIOUS
  <2>1. [EnumsNext]_enumVars
    BY DEF ConvNext, convVars
  <2> QED
    BY <2>1, EnumsStep
<1> QED
  BY <1>1, <1>2, PTL DEF ConvSpec

\* moonusb_open_enums leaves the trees whole or says that it failed, the trees hold the
\* same names, and values returns the names of a domain, each once, by their codes.
THEOREM EnumsWholeHolds == ConvSpec => []EnumsWhole
<1>1. EnumsInv => EnumsWhole
  BY TreesAlwaysAgree, LoadedAlwaysWhole, ValuesAlwaysComplete DEF EnumsWhole
<1> QED
  BY <1>1, EnumsInvariance, PTL

\* When the process exits, AtExit has freed every record and emptied the trees; what is
\* left is the record for whose name there was no memory.
THEOREM ExitFreesAll ==
  ConvSpec => [](phase = "exited" => code_tree = {} /\ heap \subseteq {next} \cap NoMemoryAt)
<1>1. EnumsInv => (phase = "exited" => code_tree = {} /\ heap \subseteq {next} \cap NoMemoryAt)
  BY DEF EnumsInv, Addresses
<1> QED
  BY <1>1, EnumsInvariance, PTL

\* Setups, setup packets and endpoint descriptors are encoded and decoded without loss.
THEOREM CodingExactHolds == ConvSpec => []CodingExact
<1>1. CodingExact
  BY SetupAlwaysRecovered, PacketAlwaysRecovered, EndpointAlwaysRecovered,
     ConversionsAssumption DEF CodingExact
<1> QED
  BY <1>1, PTL

\* The arguments are values and tables, and the data bytes.
InputsTyped == args \in Seq(Element) /\ data \in Seq(Byte)

LEMMA InputsAlwaysTyped == ConvSpec => []InputsTyped
<1>1. ConvInit => InputsTyped
  BY DEF ConvInit, InputsTyped
<1>2. InputsTyped /\ [ConvNext]_convVars => InputsTyped'
  <2> SUFFICES ASSUME InputsTyped, [ConvNext]_convVars PROVE InputsTyped'
    OBVIOUS
  <2>1. CASE PushArg
    <3>1. PICK e \in Element : args' = Append(args, e)
      BY <2>1 DEF PushArg
    <3> QED
      BY <2>1, <3>1 DEF PushArg, InputsTyped
  <2>2. CASE PushByte
    <3>1. PICK b \in Byte : data' = Append(data, b)
      BY <2>2 DEF PushByte
    <3> QED
      BY <2>2, <3>1 DEF PushByte, InputsTyped
  <2>3. CASE ChoosePacket
    BY <2>3 DEF ChoosePacket, InputsTyped
  <2>4. CASE UNCHANGED inputs
    BY <2>4 DEF inputs, InputsTyped
  <2> QED
    BY <2>1, <2>2, <2>3, <2>4 DEF ConvNext, Convert, convVars
<1> QED
  BY <1>1, <1>2, PTL DEF ConvSpec

\* However tables are nested, flatten stores their values in the order in which they are
\* found, and counts them: cur_index is right where Flatten1_ resumes.
THEOREM FlattenInOrderHolds == ConvSpec => []FlattenInOrder
<1>1. InputsTyped => FlattenInOrder
  BY ValuesTyped DEF InputsTyped, FlattenInOrder
<1> QED
  BY <1>1, InputsAlwaysTyped, PTL

\* pack and unpack are inverse as far as the types allow, for all arguments and data.
THEOREM PackInverseHolds == ConvSpec => []PackInverse
<1>1. InputsTyped => PackInverse
  <2> SUFFICES ASSUME InputsTyped, NEW t \in Type
               PROVE  /\ ValuesOf(args) # <<>> /\ ~ IsFaulty(ValuesOf(args))
                           => PackUnpack(t, ValuesOf(args))
                      /\ UnpackPack(t, data)
    BY DEF PackInverse
  <2> DEFINE v == ValuesOf(args)
  <2>1. v \in Seq(Value)
    BY ValuesTyped DEF InputsTyped
  <2> HIDE DEF v
  <2>2. ASSUME v # <<>>, ~ IsFaulty(v) PROVE PackUnpack(t, v)
    <3>1. \A i \in 1 .. Len(v) : v[i] \in Int
      <4>1. Value \subseteq Int \cup {NotNumber}
        BY ConversionsAssumption
      <4>2. \A i \in 1 .. Len(v) : v[i] \in Value /\ v[i] # NotNumber
        BY <2>1, <2>2 DEF IsFaulty
      <4> QED
        BY <4>1, <4>2
    <3>2. v \in [1 .. Len(v) -> Int] /\ Len(v) \in Nat
      BY <2>1, <3>1
    <3>3. v \in Seq(Int)
      BY <3>2, FunctionIsSequence, Zenon
    <3> QED
      BY <2>2, <3>3, UnpackOfPack
  <2>3. UnpackPack(t, data)
    BY PackOfUnpack DEF InputsTyped
  <2> QED
    BY <2>2, <2>3 DEF v
<1> QED
  BY <1>1, InputsAlwaysTyped, PTL
=============================================================================
