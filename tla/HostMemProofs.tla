--------------------------- MODULE HostMemProofs ---------------------------
(***************************************************************************)
(* Theorems about HostMem, for every size of the address space, every set  *)
(* of objects and all failures of allocation.                              *)
(***************************************************************************)
EXTENDS HostMem, ConversionsProofs

\* The check the methods make, in size_t, is the one of unbounded arithmetic.
LEMMA FitsExact ==
  ASSUME NEW o \in Size, NEW n \in Size, NEW size \in Size
  PROVE  Fits(o, n, size) <=> o < size /\ o + n <= size
BY HostMemAssumption DEF Fits, Minus, Size

\* The data a script passes has a length.
LEMMA DataLength ==
  ASSUME NEW s \in Data
  PROVE  Len(s) \in Nat \ {0}
<1>1. PICK n \in 1 .. MaxLen : s \in [1 .. n -> Byte]
  BY DEF Data
<1>2. n \in Nat \ {0}
  BY <1>1, HostMemAssumption
<1>3. s \in Seq(Byte) /\ Len(s) = n
  BY <1>1, <1>2
<1> QED
  BY <1>2, <1>3

\* A copy from a pointer changes memory only.
LEMMA CopyPtrKeeps ==
  ASSUME NEW m \in Mem, NEW o \in Size, NEW n \in Size, NEW p \in Addr, CopyPtr(m, o, n, p)
  PROVE  UNCHANGED <<block, hostmem, open, misuse>>
BY DEF CopyPtr

Typed == hostmem \in [Mem -> Struct \cup {None}]

\* Every object that exists has an area that is not empty and whose size is a
\* size_t, whatever sequence of calls has led there.
THEOREM ObjectsTyped == Spec => []Typed
<1>1. Init => Typed
  BY DEF Init, Typed
<1>2. Typed /\ [Next]_vars => Typed'
  <2> SUFFICES ASSUME Typed, [Next]_vars PROVE Typed'
    OBVIOUS
  <2>1. ASSUME NEW m \in Mem, NEW s \in Data, NEW dev \in BOOLEAN, Malloc(m, dev, s)
        PROVE  Typed'
    <3>1. PICK p \in Addr :
            /\ FreeSpan(p, Len(s))
            /\ hostmem' = [hostmem EXCEPT ![m] =
                 [ptr |-> p, size |-> Len(s), allocated |-> TRUE, dma |-> dev, tied |-> dev]]
      BY <2>1 DEF Malloc
    <3>2. Len(s) \in Size \ {0}
      BY <3>1, DataLength, HostMemAssumption DEF FreeSpan, Addr, Size
    <3> QED
      BY <3>1, <3>2 DEF Typed, Struct
  <2>2. ASSUME NEW m \in Mem, NEW p \in Addr, NEW n \in Size, Hostmem(m, p, n)
        PROVE  Typed'
    BY <2>2 DEF Hostmem, Typed, Struct, Size, Addr
  <2>3. ASSUME NEW S, FreeHostmem(S)
        PROVE  Typed'
    BY <2>3 DEF FreeHostmem, Typed
  <2>4. CASE UNCHANGED hostmem
    BY <2>4 DEF Typed
  <2> QED
    BY <2>1, <2>2, <2>3, <2>4, CopyPtrKeeps DEF Next, vars, MallocFails, Free, CloseHandle,
       OpenHandle, WriteData, WritePack, CopyHostmem
<1> QED
  BY <1>1, <1>2, PTL DEF Spec

\* In every reachable state, the methods of every object accept exactly the offsets
\* and sizes that lie in its area.
THEOREM BoundsAlwaysExact == Spec => []BoundsExact
<1>1. Typed => BoundsExact
  <2> SUFFICES ASSUME Typed, NEW m \in Live, NEW o \in Size, NEW n \in Size
               PROVE  Fits(o, n, hostmem[m].size)
                        <=> o < hostmem[m].size /\ o + n <= hostmem[m].size
    BY DEF BoundsExact
  <2>1. hostmem[m] \in Struct
    BY DEF Typed, Live
  <2>2. hostmem[m].size \in Size
    BY <2>1 DEF Struct
  <2> QED
    BY <2>2, FitsExact
<1> QED
  BY <1>1, ObjectsTyped, PTL

-----------------------------------------------------------------------------
(* Blocks and objects.                                                     *)

\* Object m has been allocated as block b, with the marks its release needs.
Owns(m, b) ==
  /\ hostmem[m].allocated
  /\ hostmem[m].ptr = b.ptr /\ hostmem[m].size = b.size
  /\ b.by = "dma" => hostmem[m].dma /\ hostmem[m].tied

BlocksTyped == block \subseteq [ptr : Size, size : Size \ {0}, by : {"heap", "dma"}]
BlocksApart == \A b, c \in block : b.ptr = c.ptr => b = c
Owned == \A b \in block : \E m \in Live : Owns(m, b)
Backed == \A m \in Live : hostmem[m].allocated => \E b \in block : Owns(m, b)
InUser == \A m \in Live : ~ hostmem[m].allocated => SpanOf(hostmem[m]) \subseteq User
Apart == \A m, x \in Live : m # x => SpanOf(hostmem[m]) \cap SpanOf(hostmem[x]) = {}
HandleOpen == \A b \in block : b.by = "dma" => open

\* The inductive invariant.  BlocksOwned alone says nothing of the marks by which
\* the deallocator is chosen, nor of what FreeMem finds at an address.
Inv ==
  /\ Typed /\ BlocksTyped /\ BlocksApart /\ Owned /\ Backed /\ InUser /\ Apart
  /\ HandleOpen

\* An area that is not empty holds its first address.
LEMMA FirstInSpan ==
  ASSUME NEW p \in Size, NEW n \in Size \ {0}
  PROVE  p \in Span(p, n)
BY HostMemAssumption DEF Span, Plus, Size

LEMMA LiveTyped ==
  ASSUME Typed, NEW m \in Live
  PROVE  m \in Mem /\ hostmem[m] \in Struct
BY DEF Typed, Live

LEMMA NoneNotStruct == None \notin Struct
BY HostMemAssumption DEF Struct, Addr, Size

\* Two objects allocated at the same address are one.
LEMMA SameObject ==
  ASSUME Typed, Apart, NEW m \in Live, NEW x \in Live,
         hostmem[m].ptr = hostmem[x].ptr
  PROVE  m = x
<1>1. hostmem[m].ptr \in SpanOf(hostmem[m]) /\ hostmem[x].ptr \in SpanOf(hostmem[x])
  BY LiveTyped, FirstInSpan DEF Struct, SpanOf, Addr
<1> QED
  BY <1>1 DEF Apart

\* FreeMem is given the block of the object.
LEMMA BlockFound ==
  ASSUME Typed, BlocksApart, Backed, NEW m \in Live, hostmem[m].allocated
  PROVE  /\ BlockOf(m) \in block
         /\ Owns(m, BlockOf(m))
         /\ \A b \in block : b.ptr = hostmem[m].ptr => b = BlockOf(m)
<1>1. PICK b \in block : Owns(m, b)
  BY DEF Backed
<1>2. \A c \in block : c.ptr = hostmem[m].ptr <=> c = b
  BY <1>1 DEF Owns, BlocksApart
<1>3. BlockOf(m) = b
  BY <1>2 DEF BlockOf
<1> QED
  BY <1>1, <1>2, <1>3

\* The release of the objects of S releases their blocks and no other.
LEMMA FreeStep ==
  ASSUME Inv, NEW S, S \subseteq Live, FreeHostmem(S)
  PROVE  /\ Typed' /\ BlocksTyped' /\ BlocksApart' /\ Owned' /\ Backed' /\ InUser' /\ Apart'
         /\ block' \subseteq block
         /\ \A b \in block' : \E m \in Live \ S : Owns(m, b)
         /\ "dma" \notin misuse'
<1> USE DEF Inv
<1> DEFINE A == {m \in S : hostmem[m].allocated}
<1>1. /\ hostmem' = [m \in Mem |-> IF m \in S THEN None ELSE hostmem[m]]
      /\ block' = block \ {BlockOf(m) : m \in A}
      /\ misuse' = UNION {Mismatch(BlockOf(m).by, hostmem[m].dma /\ hostmem[m].tied) : m \in A}
  BY DEF FreeHostmem
<1>2. /\ Live' = Live \ S
      /\ \A m \in Live' : hostmem'[m] = hostmem[m]
  BY <1>1 DEF Live
<1>3. Typed'
  BY <1>1 DEF Typed
<1>4. block' \subseteq block
  BY <1>1
<1>5. BlocksTyped' /\ BlocksApart'
  BY <1>4 DEF BlocksTyped, BlocksApart
<1>6. ASSUME NEW b \in block' PROVE \E m \in Live \ S : Owns(m, b)
  <2>1. PICK m \in Live : Owns(m, b)
    BY <1>4, <1>6 DEF Owned
  <2>2. m \notin S
    <3>1. SUFFICES ASSUME m \in S PROVE FALSE
      OBVIOUS
    <3>2. hostmem[m].allocated /\ b.ptr = hostmem[m].ptr
      BY <2>1 DEF Owns
    <3>3. b = BlockOf(m)
      BY <1>4, <1>6, <3>2, BlockFound
    <3> QED
      BY <1>1, <1>6, <3>1, <3>2, <3>3
  <2> QED
    BY <2>1, <2>2
<1>7. Owned'
  BY <1>2, <1>6 DEF Owned, Owns
<1>8. Backed'
  <2> SUFFICES ASSUME NEW m \in Live', hostmem'[m].allocated
               PROVE  \E b \in block' : Owns(m, b)'
    BY DEF Backed
  <2>1. m \in Live /\ m \notin S /\ hostmem'[m] = hostmem[m] /\ hostmem[m].allocated
    BY <1>2
  <2>2. PICK b \in block : Owns(m, b)
    BY <2>1 DEF Backed
  <2>3. b \in block'
    <3>1. SUFFICES ASSUME NEW x \in A, b = BlockOf(x) PROVE FALSE
      BY <1>1, <2>2
    <3>2. x \in Live /\ hostmem[x].allocated
      OBVIOUS
    <3>3. hostmem[x].ptr = hostmem[m].ptr
      BY <2>2, <3>1, <3>2, BlockFound DEF Owns
    <3>4. x = m
      BY <2>1, <3>2, <3>3, SameObject
    <3> QED
      BY <2>1, <3>4
  <2> QED
    BY <2>1, <2>2, <2>3 DEF Owns
<1>9. InUser' /\ Apart'
  BY <1>2 DEF InUser, Apart, SpanOf
<1>10. "dma" \notin misuse'
  <2>1. ASSUME NEW m \in A
        PROVE  "dma" \notin Mismatch(BlockOf(m).by, hostmem[m].dma /\ hostmem[m].tied)
    <3>1. m \in Live /\ hostmem[m].allocated
      BY <2>1
    <3>2. Owns(m, BlockOf(m))
      BY <3>1, BlockFound
    <3> QED
      BY <3>2 DEF Owns, Mismatch
  <2> QED
    BY <1>1, <2>1
<1> QED
  BY <1>3, <1>4, <1>5, <1>6, <1>7, <1>8, <1>9, <1>10

\* A new object, away from the others, changes nothing about them.
LEMMA NewObject ==
  ASSUME Typed, NEW m \in Mem, m \notin Live, NEW h \in Struct,
         hostmem' = [hostmem EXCEPT ![m] = h]
  PROVE  /\ Typed'
         /\ Live' = Live \cup {m}
         /\ hostmem'[m] = h
         /\ \A x \in Live : hostmem'[x] = hostmem[x] /\ x # m
BY NoneNotStruct DEF Typed, Live

LEMMA MallocStep ==
  ASSUME Inv, NEW m \in Mem, NEW s \in Data, NEW dev \in BOOLEAN, Malloc(m, dev, s)
  PROVE  Inv'
<1> USE DEF Inv
<1>1. PICK p \in Addr, by \in Allocator(dev) :
        /\ FreeSpan(p, Len(s))
        /\ block' = block \cup {[ptr |-> p, size |-> Len(s), by |-> by]}
        /\ hostmem' = [hostmem EXCEPT ![m] =
             [ptr |-> p, size |-> Len(s), allocated |-> TRUE, dma |-> dev, tied |-> dev]]
  BY DEF Malloc
<1> DEFINE n == Len(s)
           c == [ptr |-> p, size |-> n, by |-> by]
           h == [ptr |-> p, size |-> n, allocated |-> TRUE, dma |-> dev, tied |-> dev]
<1>2. m \notin Live /\ (dev => open) /\ open' = open
  BY DEF Malloc
<1>3. p \in Size /\ n \in Size \ {0}
  BY <1>1, DataLength, HostMemAssumption DEF FreeSpan, Addr, Size
<1>4. by \in {"heap", "dma"} /\ (by = "dma" => dev)
  BY DEF Allocator
<1>5. h \in Struct
  BY <1>3 DEF Struct, Addr
<1>6. /\ Typed'
      /\ Live' = Live \cup {m}
      /\ hostmem'[m] = h
      /\ \A x \in Live : hostmem'[x] = hostmem[x] /\ x # m
  <2>1. hostmem' = [hostmem EXCEPT ![m] = h]
    BY <1>1
  <2> HIDE DEF h
  <2> QED
    BY <1>2, <1>5, <2>1, NewObject
<1>7. BlocksTyped'
  BY <1>1, <1>3, <1>4 DEF BlocksTyped
<1>8. \A b \in block : b.ptr # p
  <2> SUFFICES ASSUME NEW b \in block PROVE b.ptr # p
    OBVIOUS
  <2>1. b.ptr \in Size /\ b.size \in Size \ {0}
    BY DEF BlocksTyped
  <2>2. b.ptr \in SpanOf(b)
    BY <2>1, FirstInSpan DEF SpanOf
  <2>3. p \in Span(p, n)
    BY <1>3, FirstInSpan
  <2> QED
    BY <1>1, <2>2, <2>3 DEF FreeSpan
<1>9. BlocksApart'
  BY <1>1, <1>8 DEF BlocksApart
<1>10. Owned'
  <2> SUFFICES ASSUME NEW b \in block' PROVE \E x \in Live' : Owns(x, b)'
    BY DEF Owned
  <2>1. CASE b \in block
    BY <1>6, <2>1 DEF Owned, Owns
  <2>2. CASE b = c
    <3>1. Owns(m, b)'
      BY <1>4, <1>6, <2>2 DEF Owns
    <3> QED
      BY <1>6, <3>1
  <2> QED
    BY <1>1, <2>1, <2>2
<1>11. Backed'
  <2> SUFFICES ASSUME NEW x \in Live', hostmem'[x].allocated
               PROVE  \E b \in block' : Owns(x, b)'
    BY DEF Backed
  <2>1. CASE x = m
    <3>1. Owns(m, c)'
      BY <1>4, <1>6 DEF Owns
    <3> QED
      BY <1>1, <2>1, <3>1
  <2>2. CASE x \in Live
    BY <1>1, <1>6, <2>2 DEF Backed, Owns
  <2> QED
    BY <1>6, <2>1, <2>2
<1>12. InUser'
  BY <1>6 DEF InUser, SpanOf
<1>13. ASSUME NEW x \in Live
       PROVE  Span(p, n) \cap SpanOf(hostmem[x]) = {}
  <2>1. CASE hostmem[x].allocated
    <3>1. PICK b \in block : Owns(x, b)
      BY <2>1 DEF Backed
    <3>2. SpanOf(hostmem[x]) = SpanOf(b)
      BY <3>1 DEF Owns, SpanOf
    <3> QED
      BY <1>1, <3>2 DEF FreeSpan
  <2>2. CASE ~ hostmem[x].allocated
    BY <1>1, <2>2 DEF FreeSpan, InUser
  <2> QED
    BY <2>1, <2>2
<1>14. Apart'
  <2>1. SpanOf(hostmem'[m]) = Span(p, n)
    BY <1>6 DEF SpanOf
  <2>2. \A x \in Live : SpanOf(hostmem'[x]) = SpanOf(hostmem[x])
    BY <1>6
  <2> HIDE DEF h
  <2>3. \A x, y \in Live' : x # y => SpanOf(hostmem'[x]) \cap SpanOf(hostmem'[y]) = {}
    <3> SUFFICES ASSUME NEW x \in Live', NEW y \in Live', x # y
                 PROVE  SpanOf(hostmem'[x]) \cap SpanOf(hostmem'[y]) = {}
      OBVIOUS
    <3>1. (x \in Live \/ x = m) /\ (y \in Live \/ y = m)
      BY <1>6
    <3>2. CASE x \in Live /\ y \in Live
      BY <2>2, <3>2 DEF Apart
    <3>3. CASE x = m /\ y \in Live
      BY <1>13, <2>1, <2>2, <3>3
    <3>4. CASE x \in Live /\ y = m
      BY <1>13, <2>1, <2>2, <3>4
    <3> QED
      BY <3>1, <3>2, <3>3, <3>4
  <2> QED
    BY <2>3 DEF Apart, SpanOf, Span, Plus
<1>15. HandleOpen'
  BY <1>1, <1>2, <1>4 DEF HandleOpen
<1> QED
  BY <1>6, <1>7, <1>9, <1>10, <1>11, <1>12, <1>14, <1>15

LEMMA HostmemStep ==
  ASSUME Inv, NEW m \in Mem, NEW p \in Addr, NEW n \in Size, Hostmem(m, p, n)
  PROVE  Inv'
<1> USE DEF Inv
<1> DEFINE h == [ptr |-> p, size |-> n, allocated |-> FALSE, dma |-> FALSE, tied |-> FALSE]
<1>1. /\ m \notin Live /\ n > 0
      /\ Span(p, n) \subseteq User
      /\ \A x \in Live : Span(p, n) \cap SpanOf(hostmem[x]) = {}
      /\ hostmem' = [hostmem EXCEPT ![m] = h]
      /\ block' = block /\ open' = open
  BY DEF Hostmem
<1>2. h \in Struct
  BY <1>1 DEF Struct, Size
<1>3. /\ Typed'
      /\ Live' = Live \cup {m}
      /\ hostmem'[m] = h
      /\ \A x \in Live : hostmem'[x] = hostmem[x] /\ x # m
  <2> HIDE DEF h
  <2> QED
    BY <1>1, <1>2, NewObject
<1>4. BlocksTyped' /\ BlocksApart' /\ HandleOpen'
  BY <1>1 DEF BlocksTyped, BlocksApart, HandleOpen
<1>5. Owned'
  BY <1>1, <1>3 DEF Owned, Owns
<1>6. Backed'
  BY <1>1, <1>3 DEF Backed, Owns
<1>7. SpanOf(hostmem'[m]) = Span(p, n)
  BY <1>3 DEF SpanOf
<1>8. InUser'
  BY <1>1, <1>3, <1>7 DEF InUser
<1>9. Apart'
  BY <1>1, <1>3, <1>7 DEF Apart
<1> QED
  BY <1>3, <1>4, <1>5, <1>6, <1>8, <1>9

LEMMA CloseHandleStep ==
  ASSUME Inv, CloseHandle
  PROVE  Inv' /\ "dma" \notin misuse'
<1> DEFINE S == {m \in Live : hostmem[m].tied}
<1>1. S \subseteq Live /\ FreeHostmem(S) /\ open' = FALSE
  BY DEF CloseHandle
<1>2. /\ Typed' /\ BlocksTyped' /\ BlocksApart' /\ Owned' /\ Backed' /\ InUser' /\ Apart'
      /\ block' \subseteq block
      /\ \A b \in block' : \E m \in Live \ S : Owns(m, b)
      /\ "dma" \notin misuse'
  <2> HIDE DEF S
  <2> QED
    BY <1>1, FreeStep
<1>3. HandleOpen'
  BY <1>2 DEF HandleOpen, Owns
<1> QED
  BY <1>2, <1>3 DEF Inv

LEMMA OneFreed ==
  ASSUME Inv, NEW m \in Mem, Free(m)
  PROVE  Inv' /\ "dma" \notin misuse'
<1>1. {m} \subseteq Live /\ FreeHostmem({m}) /\ open' = open
  BY DEF Free
<1>2. /\ Typed' /\ BlocksTyped' /\ BlocksApart' /\ Owned' /\ Backed' /\ InUser' /\ Apart'
      /\ block' \subseteq block
      /\ "dma" \notin misuse'
  BY <1>1, FreeStep
<1>3. HandleOpen'
  BY <1>1, <1>2 DEF HandleOpen, Inv
<1> QED
  BY <1>2, <1>3 DEF Inv

LEMMA InvInductive ==
  /\ Init => Inv
  /\ Inv /\ [Next]_vars => Inv'
<1>1. Init => Inv
  BY DEF Init, Inv, Typed, BlocksTyped, BlocksApart, Owned, Backed, InUser, Apart,
     HandleOpen, Live
<1>2. ASSUME Inv, [Next]_vars PROVE Inv'
  <2>1. ASSUME NEW m \in Mem, NEW s \in Data, NEW dev \in BOOLEAN, Malloc(m, dev, s)
        PROVE  Inv'
    BY <1>2, <2>1, MallocStep
  <2>2. ASSUME NEW m \in Mem, NEW p \in Addr, NEW n \in Size, Hostmem(m, p, n)
        PROVE  Inv'
    BY <1>2, <2>2, HostmemStep
  <2>3. ASSUME NEW m \in Mem, Free(m)
        PROVE  Inv'
    BY <1>2, <2>3, OneFreed
  <2>4. CASE CloseHandle
    BY <1>2, <2>4, CloseHandleStep
  <2>5. CASE OpenHandle
    BY <1>2, <2>5 DEF OpenHandle, Inv, Typed, BlocksTyped, BlocksApart, Owned, Backed,
       InUser, Apart, HandleOpen, Live, Owns
  <2>6. CASE UNCHANGED <<block, hostmem, open>>
    BY <1>2, <2>6 DEF Inv, Typed, BlocksTyped, BlocksApart, Owned, Backed, InUser,
       Apart, HandleOpen, Live, Owns
  <2> QED
    BY <1>2, <2>1, <2>2, <2>3, <2>4, <2>5, <2>6, CopyPtrKeeps DEF Next, vars, MallocFails,
       WriteData, WritePack, CopyHostmem
<1> QED
  BY <1>1, <1>2

\* Blocks and objects correspond in every reachable state: no block is leaked or
\* freed under its object, objects share no memory, and what libusb allocated for a
\* handle is released before the handle is closed.
THEOREM BlocksAlwaysOwned == Spec => []BlocksOwned
<1>1. Inv => BlocksOwned
  BY DEF Inv, BlocksOwned, Owned, Backed, Apart, HandleOpen, Owns, SpanOf
<1> QED
  BY <1>1, InvInductive, PTL DEF Spec

\* No release of an object gives memory that libusb allocated to another
\* deallocator, whatever allocations failed before.
THEOREM DmaAlwaysReturned == Spec => DmaReturned
<1>1. Inv /\ [Next]_vars =>
        [CloseHandle \/ (\E m \in Mem : Free(m)) => "dma" \notin misuse']_vars
  BY CloseHandleStep, OneFreed
<1> QED
  BY <1>1, InvInductive, PTL DEF Spec, DmaReturned

-----------------------------------------------------------------------------
(* The contents of the areas.                                              *)

\* No area reaches the end of the address space, where addresses wrap around.
NoWrap == \A m \in Live : hostmem[m].ptr + hostmem[m].size < SizeMod

MemoryTyped == memory \in [Addr -> Byte]

\* Inv with what the methods rely on when they read and write.
DataInv == TypeOK /\ Inv /\ NoWrap

\* n bytes from p on, where no sum wraps around.
LEMMA SpanIs ==
  ASSUME NEW p \in Size, NEW n \in Nat, p + n <= SizeMod
  PROVE  Span(p, n) = p .. p + n - 1
<1>1. \A i \in 0 .. n - 1 : Plus(p, i) = p + i
  BY HostMemAssumption DEF Plus, Size
<1>2. Span(p, n) = {p + i : i \in 0 .. n - 1}
  BY <1>1 DEF Span
<1>3. ASSUME NEW a \in p .. p + n - 1 PROVE a \in {p + i : i \in 0 .. n - 1}
  <2>1. a - p \in 0 .. n - 1 /\ a = p + (a - p)
    BY <1>3 DEF Size
  <2> QED
    BY <2>1
<1> QED
  BY <1>2, <1>3 DEF Size

\* What Poke stores: the bytes of s from p on, and nothing else.
LEMMA PokeIs ==
  ASSUME MemoryTyped, NEW p \in Size, NEW s \in Seq(Byte), p + Len(s) <= SizeMod, Poke(p, s)
  PROVE  /\ MemoryTyped'
         /\ \A a \in Addr : a \notin p .. p + Len(s) - 1 => memory'[a] = memory[a]
<1> DEFINE n == Len(s)
<1>1. n \in Nat /\ \A i \in 1 .. n : s[i] \in Byte
  OBVIOUS
<1>2. \A a \in Addr : Minus(a, p) < n <=> a \in p .. p + n - 1
  BY <1>1, HostMemAssumption DEF Minus, Size, Addr
<1>3. \A a \in Addr : Minus(a, p) < n => Minus(a, p) + 1 \in 1 .. n
  BY <1>1, HostMemAssumption DEF Minus, Size, Addr
<1>4. memory' = [a \in Addr |-> IF Minus(a, p) < n THEN s[Minus(a, p) + 1] ELSE memory[a]]
  BY DEF Poke
<1> HIDE DEF n
<1>5. \A a \in Addr : (IF Minus(a, p) < n THEN s[Minus(a, p) + 1] ELSE memory[a]) \in Byte
  BY <1>1, <1>3 DEF MemoryTyped
<1>6. MemoryTyped'
  BY <1>4, <1>5 DEF MemoryTyped, Addr, Size, Byte
<1>7. \A a \in Addr : a \notin p .. p + n - 1 => memory'[a] = memory[a]
  BY <1>2, <1>4
<1> QED
  BY <1>6, <1>7 DEF n

\* An object that exists: its fields, and its area.
LEMMA AreaOf ==
  ASSUME Typed, NoWrap, NEW m \in Live
  PROVE  /\ m \in Mem
         /\ hostmem[m].ptr \in Size /\ hostmem[m].size \in Size \ {0}
         /\ hostmem[m].ptr + hostmem[m].size < SizeMod
         /\ SpanOf(hostmem[m]) = hostmem[m].ptr .. hostmem[m].ptr + hostmem[m].size - 1
<1>1. /\ m \in Mem
      /\ hostmem[m].ptr \in Size /\ hostmem[m].size \in Size \ {0}
      /\ hostmem[m].ptr + hostmem[m].size < SizeMod
  BY LiveTyped DEF Struct, Addr, NoWrap
<1>2. hostmem[m].ptr + hostmem[m].size <= SizeMod /\ hostmem[m].size \in Nat
  BY <1>1, HostMemAssumption DEF Size
<1>3. Span(hostmem[m].ptr, hostmem[m].size) =
        hostmem[m].ptr .. hostmem[m].ptr + hostmem[m].size - 1
  BY <1>1, <1>2, SpanIs
<1> QED
  BY <1>1, <1>3 DEF SpanOf

\* A part of the area of an object, from offset o on.
LEMMA PartOf ==
  ASSUME Typed, NoWrap, NEW m \in Live, NEW o \in Size, NEW n \in Nat, o < hostmem[m].size,
         n <= Minus(hostmem[m].size, o)
  PROVE  /\ AddressOf(m, o) = hostmem[m].ptr + o /\ AddressOf(m, o) \in Size
         /\ AddressOf(m, o) + n <= hostmem[m].ptr + hostmem[m].size
         /\ AddressOf(m, o) + n <= SizeMod
<1>1. /\ hostmem[m].ptr \in Size /\ hostmem[m].size \in Size \ {0}
      /\ hostmem[m].ptr + hostmem[m].size < SizeMod
  BY AreaOf
<1> DEFINE p == hostmem[m].ptr
           z == hostmem[m].size
<1>2. AddressOf(m, o) = Plus(p, o)
  BY DEF AddressOf
<1> HIDE DEF p, z
<1>3. /\ Plus(p, o) = p + o /\ p + o \in Size /\ p + o + n <= p + z /\ p + o + n <= SizeMod
  <2>1. p \in Size /\ z \in Size /\ p + z < SizeMod /\ o < z /\ n <= Minus(z, o)
    BY <1>1 DEF p, z
  <2> QED
    BY <2>1, HostMemAssumption DEF Plus, Minus, Size
<1> QED
  BY <1>2, <1>3 DEF p, z

\* A method that stores s at offset o of object m, where it fits.
LEMMA StoreStep ==
  ASSUME DataInv, NEW m \in Live, NEW o \in Size, NEW s \in Seq(Byte), o < hostmem[m].size,
         Len(s) <= Minus(hostmem[m].size, o), Poke(AddressOf(m, o), s)
  PROVE  /\ MemoryTyped'
         /\ \A a \in Addr : a \notin SpanOf(hostmem[m]) => memory'[a] = memory[a]
<1> USE DEF DataInv, Inv
<1>1. Len(s) \in Nat
  OBVIOUS
<1>2. /\ AddressOf(m, o) = hostmem[m].ptr + o /\ AddressOf(m, o) \in Size
      /\ AddressOf(m, o) + Len(s) <= hostmem[m].ptr + hostmem[m].size
      /\ AddressOf(m, o) + Len(s) <= SizeMod
  BY <1>1, PartOf
<1>3. MemoryTyped
  BY DEF TypeOK, MemoryTyped
<1>4. /\ MemoryTyped'
      /\ \A a \in Addr : a \notin AddressOf(m, o) .. AddressOf(m, o) + Len(s) - 1 => memory'[a] = memory[a]
  BY <1>2, <1>3, PokeIs
<1>5. /\ hostmem[m].ptr \in Size
      /\ hostmem[m].size \in Size
      /\ SpanOf(hostmem[m]) = hostmem[m].ptr .. hostmem[m].ptr + hostmem[m].size - 1
  BY AreaOf
<1>6. \A a \in Addr : a \notin SpanOf(hostmem[m]) => a \notin AddressOf(m, o) .. AddressOf(m, o) + Len(s) - 1
  <2> DEFINE p == hostmem[m].ptr
             z == hostmem[m].size
             q == AddressOf(m, o)
             k == Len(s)
  <2>1. p \in Int /\ z \in Int /\ q \in Int /\ k \in Nat /\ q >= p /\ q + k <= p + z
    BY <1>1, <1>2, <1>5, HostMemAssumption DEF Size
  <2> HIDE DEF p, z, q, k
  <2>2. \A a \in Int : a \notin p .. p + z - 1 => a \notin q .. q + k - 1
    BY <2>1
  <2> QED
    BY <1>5, <2>2 DEF p, z, q, k, Addr, Size
<1> QED
  BY <1>4, <1>6

\* What copy reads is a sequence of bytes, as long as asked for.
LEMMA PeekBytes ==
  ASSUME MemoryTyped, NEW p \in Size, NEW n \in Nat, p + n <= SizeMod
  PROVE  /\ Peek(p, n) \in Seq(Byte) /\ Len(Peek(p, n)) = n
         /\ \A i \in 1 .. n : Peek(p, n)[i] = memory[p + i - 1]
<1>1. \A i \in 1 .. n : Plus(p, i - 1) = p + i - 1 /\ p + i - 1 \in Addr
  BY HostMemAssumption DEF Plus, Size, Addr
<1>2. Peek(p, n) = [i \in 1 .. n |-> memory[p + i - 1]]
  BY <1>1 DEF Peek
<1>3. \A i \in 1 .. n : memory[p + i - 1] \in Byte
  BY <1>1 DEF MemoryTyped
<1>4. Peek(p, n) \in [1 .. n -> Byte]
  BY <1>2, <1>3
<1> QED
  BY <1>2, <1>4

\* The methods that write: what they store, and where.
Writes(m) ==
  \E o \in Size, s \in Seq(Byte) :
    /\ o < hostmem[m].size /\ Len(s) <= Minus(hostmem[m].size, o)
    /\ Poke(AddressOf(m, o), s)

LEMMA WritesAre ==
  ASSUME DataInv, NEW m \in Mem, NEW o \in Size,
         \/ \E s \in Data : WriteData(m, o, s)
         \/ \E t \in PackType, vals \in Arguments : WritePack(m, o, t, vals)
         \/ \E n, so \in Size, src \in Mem : CopyHostmem(m, o, n, src, so)
         \/ \E n \in Size, p \in Addr : CopyPtr(m, o, n, p)
  PROVE  m \in Live /\ Writes(m) /\ UNCHANGED <<block, hostmem, open, misuse>>
<1>1. ASSUME NEW s \in Data, WriteData(m, o, s)
      PROVE  m \in Live /\ Writes(m) /\ UNCHANGED <<block, hostmem, open, misuse>>
  <2>1. s \in Seq(Byte)
    <3>1. PICK n \in 1 .. MaxLen : s \in [1 .. n -> Byte]
      BY DEF Data
    <3> QED
      BY <3>1, HostMemAssumption
  <2>2. /\ m \in Live /\ Fits(o, Len(s), hostmem[m].size) /\ Poke(AddressOf(m, o), s)
        /\ UNCHANGED <<block, hostmem, open, misuse>>
    BY <1>1 DEF WriteData
  <2>3. hostmem[m].size \in Size /\ Len(s) \in Nat
    BY <2>1, <2>2, AreaOf DEF DataInv, Inv
  <2>4. o < hostmem[m].size /\ Len(s) <= Minus(hostmem[m].size, o)
    BY <2>2, <2>3, HostMemAssumption DEF Fits, Minus, Size
  <2> QED
    BY <2>1, <2>2, <2>4 DEF Writes
<1>2. ASSUME NEW t \in PackType, NEW vals \in Arguments, WritePack(m, o, t, vals)
      PROVE  m \in Live /\ Writes(m) /\ UNCHANGED <<block, hostmem, open, misuse>>
  <2>1. /\ m \in Live /\ o < hostmem[m].size
        /\ Len(vals) * SizeOf(t) <= Minus(hostmem[m].size, o)
        /\ Poke(AddressOf(m, o), Packed(t, vals))
        /\ UNCHANGED <<block, hostmem, open, misuse>>
    BY <1>2 DEF WritePack
  <2>2. PICK n \in 0 .. MaxLen : vals \in [1 .. n -> Argument]
    BY DEF Arguments
  <2>3. Len(vals) = n /\ n \in Nat /\ \A i \in 1 .. Len(vals) : vals[i] \in Int \cup {NotNumber}
    BY <2>2, HostMemAssumption DEF Argument
  <2>4. /\ Packed(t, vals) \in Seq(Byte)
        /\ Len(Packed(t, vals)) <= Len(vals) * SizeOf(t)
    BY <2>3, PackedBytes
  <2>5. hostmem[m].size \in Size /\ SizeOf(t) \in Nat
    BY <2>1, AreaOf, SizeOfNat DEF DataInv, Inv
  <2>6. Minus(hostmem[m].size, o) \in Int /\ Len(vals) * SizeOf(t) \in Int
    BY <2>3, <2>5, HostMemAssumption DEF Minus, Size
  <2>7. Len(Packed(t, vals)) <= Minus(hostmem[m].size, o)
    BY <2>1, <2>4, <2>6
  <2> QED
    BY <2>1, <2>4, <2>7 DEF Writes
<1>3. ASSUME NEW n \in Size, NEW so \in Size, NEW src \in Mem,
             CopyHostmem(m, o, n, src, so)
      PROVE  m \in Live /\ Writes(m) /\ UNCHANGED <<block, hostmem, open, misuse>>
  <2>1. /\ m \in Live /\ src \in Live
        /\ Fits(o, n, hostmem[m].size) /\ Fits(so, n, hostmem[src].size)
        /\ Poke(AddressOf(m, o), Peek(AddressOf(src, so), n))
        /\ UNCHANGED <<block, hostmem, open, misuse>>
    BY <1>3 DEF CopyHostmem
  <2>2. hostmem[m].size \in Size /\ hostmem[src].size \in Size /\ n \in Nat
    BY <2>1, AreaOf DEF DataInv, Inv, Size
  <2>3. /\ o < hostmem[m].size /\ n <= Minus(hostmem[m].size, o)
        /\ so < hostmem[src].size /\ n <= Minus(hostmem[src].size, so)
    BY <2>1, <2>2, HostMemAssumption DEF Fits, Minus, Size
  <2>4. AddressOf(src, so) \in Size /\ AddressOf(src, so) + n <= SizeMod
    BY <2>1, <2>2, <2>3, PartOf DEF DataInv, Inv
  <2>5. Peek(AddressOf(src, so), n) \in Seq(Byte) /\ Len(Peek(AddressOf(src, so), n)) = n
    BY <2>2, <2>4, PeekBytes DEF DataInv, TypeOK, MemoryTyped
  <2> QED
    BY <2>1, <2>3, <2>5 DEF Writes
<1>4. ASSUME NEW n \in Size, NEW p \in Addr, CopyPtr(m, o, n, p)
      PROVE  m \in Live /\ Writes(m) /\ UNCHANGED <<block, hostmem, open, misuse>>
  <2>1. PICK s \in [1 .. n -> Byte] :
          /\ m \in Live /\ Fits(o, n, hostmem[m].size) /\ Poke(AddressOf(m, o), s)
          /\ UNCHANGED <<block, hostmem, open, misuse>>
    BY <1>4 DEF CopyPtr
  <2>2. hostmem[m].size \in Size /\ n \in Nat
    BY <2>1, AreaOf DEF DataInv, Inv, Size
  <2>3. o < hostmem[m].size /\ n <= Minus(hostmem[m].size, o)
    BY <2>1, <2>2, HostMemAssumption DEF Fits, Minus, Size
  <2>4. s \in Seq(Byte) /\ Len(s) = n
    BY <2>1, <2>2
  <2> QED
    BY <2>1, <2>3, <2>4 DEF Writes
<1> QED
  BY <1>1, <1>2, <1>3, <1>4

LEMMA NewMemory ==
  ASSUME DataInv, NEW m \in Mem, NEW s \in Data, NEW dev \in BOOLEAN, Malloc(m, dev, s)
  PROVE  \E p \in Size :
           /\ p + Len(s) < SizeMod
           /\ MemoryTyped'
           /\ \A x \in Live : \A a \in SpanOf(hostmem[x]) : a \in Addr => memory'[a] = memory[a]
           /\ m \notin Live
           /\ hostmem' = [hostmem EXCEPT ![m] =
                [ptr |-> p, size |-> Len(s), allocated |-> TRUE, dma |-> dev, tied |-> dev]]
<1>1. PICK p \in Addr, by \in Allocator(dev) :
        /\ FreeSpan(p, Len(s))
        /\ Poke(p, s)
        /\ hostmem' = [hostmem EXCEPT ![m] =
             [ptr |-> p, size |-> Len(s), allocated |-> TRUE, dma |-> dev, tied |-> dev]]
  BY DEF Malloc
<1>2. s \in Seq(Byte) /\ Len(s) \in Nat
  <2>1. PICK n \in 1 .. MaxLen : s \in [1 .. n -> Byte]
    BY DEF Data
  <2> QED
    BY <2>1, HostMemAssumption
<1>3. p \in Size /\ p + Len(s) < SizeMod /\ p + Len(s) <= SizeMod
  BY <1>1, <1>2, HostMemAssumption DEF FreeSpan, Addr, Size
<1>4. MemoryTyped
  BY DEF DataInv, TypeOK, MemoryTyped
<1>5. /\ MemoryTyped'
      /\ \A a \in Addr : a \notin p .. p + Len(s) - 1 => memory'[a] = memory[a]
  BY <1>1, <1>2, <1>3, <1>4, PokeIs
<1>6. Span(p, Len(s)) = p .. p + Len(s) - 1
  BY <1>2, <1>3, SpanIs
<1>7. ASSUME NEW x \in Live
      PROVE  Span(p, Len(s)) \cap SpanOf(hostmem[x]) = {}
  <2>1. CASE hostmem[x].allocated
    <3>1. PICK b \in block : Owns(x, b)
      BY <2>1 DEF DataInv, Inv, Backed
    <3>2. SpanOf(hostmem[x]) = SpanOf(b)
      BY <3>1 DEF Owns, SpanOf
    <3> QED
      BY <1>1, <3>2 DEF FreeSpan
  <2>2. CASE ~ hostmem[x].allocated
    BY <1>1, <2>2 DEF FreeSpan, DataInv, Inv, InUser
  <2> QED
    BY <2>1, <2>2
<1>8. m \notin Live
  BY DEF Malloc
<1> QED
  BY <1>1, <1>3, <1>5, <1>6, <1>7, <1>8

\* The parts of TypeOK that Inv says nothing of.
LEMMA TypesOf ==
  /\ TypeOK <=> /\ MemoryTyped /\ Typed
                /\ block \subseteq [ptr : Addr, size : Size, by : {"heap", "dma"}]
                /\ open \in BOOLEAN /\ misuse \subseteq {"heap", "dma"}
  /\ BlocksTyped => block \subseteq [ptr : Addr, size : Size, by : {"heap", "dma"}]
BY DEF TypeOK, MemoryTyped, Typed, BlocksTyped, Addr

\* Only the blocks of which the allocator is known are released.
LEMMA MisuseTyped ==
  ASSUME Inv, NEW S, S \subseteq Live, FreeHostmem(S)
  PROVE  misuse' \subseteq {"heap", "dma"}
<1> DEFINE A == {m \in S : hostmem[m].allocated}
<1>1. misuse' = UNION {Mismatch(BlockOf(m).by, hostmem[m].dma /\ hostmem[m].tied) : m \in A}
  BY DEF FreeHostmem
<1>2. ASSUME NEW m \in A
      PROVE  Mismatch(BlockOf(m).by, hostmem[m].dma /\ hostmem[m].tied) \subseteq {"heap", "dma"}
  <2>1. BlockOf(m) \in block
    BY <1>2, BlockFound DEF Inv
  <2>2. BlockOf(m).by \in {"heap", "dma"}
    BY <2>1 DEF Inv, BlocksTyped
  <2> QED
    BY <2>2 DEF Mismatch
<1> QED
  BY <1>1, <1>2

\* The release of the objects of S leaves the others alone.
LEMMA FreeKeeps ==
  ASSUME NEW S, FreeHostmem(S), S \subseteq Live
  PROVE  /\ Live' = Live \ S
         /\ \A x \in Live' : hostmem'[x] = hostmem[x]
BY DEF FreeHostmem, Live

LEMMA DataInvInductive ==
  /\ Init => DataInv
  /\ DataInv /\ [Next]_vars => DataInv'
<1>1. Init => DataInv
  <2> SUFFICES ASSUME Init PROVE DataInv
    OBVIOUS
  <2>1. Inv
    BY InvInductive
  <2>2. NoWrap
    BY DEF Init, NoWrap, Live
  <2>3. MemoryTyped
    BY BaseIs DEF Init, MemoryTyped, Byte
  <2>4. Typed /\ BlocksTyped
    BY <2>1 DEF Inv
  <2>5. open \in BOOLEAN /\ misuse \subseteq {"heap", "dma"}
    BY DEF Init
  <2> QED
    BY <2>1, <2>2, <2>3, <2>4, <2>5, TypesOf DEF DataInv
<1>2. ASSUME DataInv, [Next]_vars PROVE DataInv'
  <2>1. Inv'
    BY <1>2, InvInductive DEF DataInv
  <2>2. Inv /\ Typed /\ NoWrap /\ MemoryTyped /\ open \in BOOLEAN /\ misuse \subseteq {"heap", "dma"}
    BY <1>2, TypesOf DEF DataInv, Inv
  <2>3. SUFFICES MemoryTyped' /\ NoWrap' /\ open' \in BOOLEAN /\ misuse' \subseteq {"heap", "dma"}
    <3>1. Typed' /\ BlocksTyped'
      BY <2>1 DEF Inv
    <3>2. (block \subseteq [ptr : Addr, size : Size, by : {"heap", "dma"}])'
      BY <3>1 DEF BlocksTyped, Addr
    <3> QED
      BY <2>1, <2>3, <3>1, <3>2 DEF DataInv, TypeOK, MemoryTyped, Typed
  <2>4. ASSUME NEW m \in Mem, NEW s \in Data, NEW dev \in BOOLEAN, Malloc(m, dev, s)
        PROVE  MemoryTyped' /\ NoWrap' /\ open' \in BOOLEAN /\ misuse' \subseteq {"heap", "dma"}
    <3>1. PICK p \in Size :
            /\ p + Len(s) < SizeMod
            /\ MemoryTyped'
            /\ hostmem' = [hostmem EXCEPT ![m] =
                 [ptr |-> p, size |-> Len(s), allocated |-> TRUE, dma |-> dev, tied |-> dev]]
      BY <1>2, <2>4, NewMemory
    <3>2. NoWrap'
      BY <2>2, <3>1 DEF NoWrap, Live, Typed
    <3>3. open' = open /\ misuse' = misuse
      BY <2>4 DEF Malloc
    <3> QED
      BY <2>2, <3>1, <3>2, <3>3
  <2>5. ASSUME NEW dev \in BOOLEAN, MallocFails(dev)
        PROVE  MemoryTyped' /\ NoWrap' /\ open' \in BOOLEAN /\ misuse' \subseteq {"heap", "dma"}
    BY <2>2, <2>5 DEF MallocFails, MemoryTyped, NoWrap, Live, Mismatch, Allocator
  <2>6. ASSUME NEW m \in Mem, NEW p \in Addr, NEW n \in Size, Hostmem(m, p, n)
        PROVE  MemoryTyped' /\ NoWrap' /\ open' \in BOOLEAN /\ misuse' \subseteq {"heap", "dma"}
    <3>1. /\ p + n < SizeMod /\ UNCHANGED <<memory, open, misuse>>
          /\ hostmem' = [hostmem EXCEPT ![m] =
               [ptr |-> p, size |-> n, allocated |-> FALSE, dma |-> FALSE, tied |-> FALSE]]
      BY <2>6 DEF Hostmem
    <3>2. NoWrap'
      BY <2>2, <3>1 DEF NoWrap, Live, Typed
    <3> QED
      BY <2>2, <3>1, <3>2 DEF MemoryTyped
  <2>7. ASSUME NEW S, S \subseteq Live, FreeHostmem(S), UNCHANGED memory, open' \in BOOLEAN
        PROVE  MemoryTyped' /\ NoWrap' /\ open' \in BOOLEAN /\ misuse' \subseteq {"heap", "dma"}
    BY <2>2, <2>7, FreeKeeps, MisuseTyped DEF MemoryTyped, NoWrap
  <2>8. CASE OpenHandle
    BY <2>2, <2>8 DEF OpenHandle, MemoryTyped, NoWrap, Live
  <2>9. ASSUME NEW m \in Mem, NEW o \in Size,
               \/ \E s \in Data : WriteData(m, o, s)
               \/ \E t \in PackType, vals \in Arguments : WritePack(m, o, t, vals)
               \/ \E n, so \in Size, src \in Mem : CopyHostmem(m, o, n, src, so)
               \/ \E n \in Size, p \in Addr : CopyPtr(m, o, n, p)
        PROVE  MemoryTyped' /\ NoWrap' /\ open' \in BOOLEAN /\ misuse' \subseteq {"heap", "dma"}
    <3>1. m \in Live /\ Writes(m) /\ UNCHANGED <<block, hostmem, open, misuse>>
      BY <1>2, <2>9, WritesAre
    <3>2. MemoryTyped'
      BY <1>2, <3>1, StoreStep DEF Writes
    <3> QED
      BY <2>2, <3>1, <3>2 DEF NoWrap, Live
  <2>10. CASE UNCHANGED vars
    BY <2>2, <2>10 DEF vars, MemoryTyped, NoWrap, Live
  <2>11. ASSUME NEW m \in Mem, Free(m)
         PROVE  MemoryTyped' /\ NoWrap' /\ open' \in BOOLEAN /\ misuse' \subseteq {"heap", "dma"}
    BY <2>2, <2>7, <2>11 DEF Free
  <2>12. CASE CloseHandle
    <3> DEFINE S == {m \in Live : hostmem[m].tied}
    <3>1. S \subseteq Live /\ FreeHostmem(S) /\ open' = FALSE /\ UNCHANGED memory
      BY <2>12 DEF CloseHandle
    <3> HIDE DEF S
    <3> QED
      BY <2>7, <3>1
  <2> QED
    BY <1>2, <2>4, <2>5, <2>6, <2>8, <2>9, <2>10, <2>11, <2>12 DEF Next
<1> QED
  BY <1>1, <1>2

-----------------------------------------------------------------------------
(* Reading.                                                                *)

LEMMA ContentsIs ==
  ASSUME DataInv, NEW m \in Live
  PROVE  /\ Contents(m) \in Seq(Byte) /\ Len(Contents(m)) = hostmem[m].size
         /\ \A i \in 1 .. hostmem[m].size : Contents(m)[i] = memory[hostmem[m].ptr + i - 1]
<1>1. /\ hostmem[m].ptr \in Size /\ hostmem[m].size \in Size \ {0}
      /\ hostmem[m].ptr + hostmem[m].size < SizeMod
  BY AreaOf DEF DataInv, Inv
<1>2. hostmem[m].size \in Nat /\ hostmem[m].ptr + hostmem[m].size <= SizeMod
  BY <1>1, HostMemAssumption DEF Size
<1> QED
  BY <1>1, <1>2, PeekBytes DEF Contents, DataInv, TypeOK, MemoryTyped

\* A read that passes the check returns the bytes of the area.
LEMMA ReadIs ==
  ASSUME DataInv, NEW m \in Live, NEW o \in Size, NEW n \in Size, Fits(o, n, hostmem[m].size)
  PROVE  Read(m, o, n) = SubSeq(Contents(m), o + 1, o + n)
<1> DEFINE z == hostmem[m].size
           p == hostmem[m].ptr
<1>1. z \in Size /\ p \in Size /\ p + z < SizeMod
  BY AreaOf DEF DataInv, Inv
<1>2. o \in Nat /\ n \in Nat /\ o < z /\ o + n <= z
  BY <1>1, FitsExact DEF Size
<1>3. n <= Minus(z, o)
  BY <1>1, <1>2 DEF Minus, Size
<1>4. AddressOf(m, o) = p + o /\ AddressOf(m, o) \in Size /\ AddressOf(m, o) + n <= SizeMod
  BY <1>2, <1>3, PartOf DEF DataInv, Inv
<1>5. /\ Read(m, o, n) \in Seq(Byte) /\ Len(Read(m, o, n)) = n
      /\ \A i \in 1 .. n : Read(m, o, n)[i] = memory[p + o + i - 1]
  BY <1>2, <1>4, PeekBytes DEF Read, DataInv, TypeOK, MemoryTyped
<1>6. /\ Contents(m) \in Seq(Byte) /\ Len(Contents(m)) = z
      /\ \A i \in 1 .. z : Contents(m)[i] = memory[p + i - 1]
  BY ContentsIs
<1> DEFINE c == Contents(m)
           s == SubSeq(c, o + 1, o + n)
           r == Read(m, o, n)
<1> HIDE DEF z, p, c, s, r
<1>7. \A i \in o + 1 .. o + n : c[i] \in Byte
  BY <1>2, <1>6 DEF c
<1>8. /\ s \in Seq(Byte)
      /\ Len(s) = IF o + 1 <= o + n THEN o + n - (o + 1) + 1 ELSE 0
      /\ \A i \in 1 .. o + n - (o + 1) + 1 : s[i] = c[o + 1 + i - 1]
  BY <1>2, <1>7, SubSeqProperties DEF s
<1>9. Len(s) = n /\ \A i \in 1 .. n : s[i] = c[o + i]
  BY <1>2, <1>8
<1>10. p \in Nat
  BY <1>1 DEF Size
<1>11. \A i \in 1 .. n : o + i \in 1 .. z /\ p + (o + i) - 1 = p + o + i - 1
  BY <1>1, <1>2, <1>10 DEF Size
<1>12. \A i \in 1 .. n : s[i] = r[i]
  BY <1>5, <1>6, <1>9, <1>11 DEF c, r
<1>13. r \in Seq(Byte) /\ Len(r) = n
  BY <1>5 DEF r
<1>14. r = s
  BY <1>8, <1>9, <1>12, <1>13
<1> QED
  BY <1>14 DEF r, s, c

LEMMA SizesAre ==
  ASSUME DataInv, NEW m \in Live
  PROVE  /\ \A o \in Size : SizeAt(m, o) = Len(SubSeq(Contents(m), o + 1, hostmem[m].size))
         /\ \A p \in Addr : SizeFrom(m, p) =
              IF p \in SpanOf(hostmem[m]) THEN SizeAt(m, Minus(p, hostmem[m].ptr)) ELSE 0
<1> DEFINE z == hostmem[m].size
           q == hostmem[m].ptr
<1>1. z \in Size /\ q \in Size /\ q + z < SizeMod /\ SpanOf(hostmem[m]) = q .. q + z - 1
  BY AreaOf DEF DataInv, Inv
<1>2. /\ Contents(m) \in Seq(Byte) /\ Len(Contents(m)) = z
  BY ContentsIs
<1>3. z \in Nat /\ q \in Nat /\ SizeMod \in Nat
  BY <1>1, HostMemAssumption DEF Size
<1>4. \A o \in Size : SizeAt(m, o) = IF o >= z THEN 0 ELSE Minus(z, o)
  BY DEF SizeAt
<1>5. \A p \in Addr : SizeFrom(m, p) =
        IF p < q \/ p > Plus(q, z) THEN 0 ELSE Minus(Plus(q, z), p)
  BY DEF SizeFrom
<1> DEFINE c == Contents(m)
<1> HIDE DEF z, q, c
<1>6. ASSUME NEW o \in Size PROVE SizeAt(m, o) = Len(SubSeq(c, o + 1, z))
  <2>1. o \in Nat
    BY DEF Size
  <2>2. \A i \in o + 1 .. z : c[i] \in Byte
    BY <1>2, <1>3, <2>1 DEF c
  <2>3. Len(SubSeq(c, o + 1, z)) = IF o + 1 <= z THEN z - (o + 1) + 1 ELSE 0
    BY <1>3, <2>1, <2>2, SubSeqProperties
  <2>4. SizeAt(m, o) = IF o >= z THEN 0 ELSE z - o
    BY <1>3, <1>4, <2>1 DEF Minus
  <2> QED
    BY <1>3, <2>1, <2>3, <2>4
<1>7. ASSUME NEW p \in Addr
      PROVE  SizeFrom(m, p) = IF p \in q .. q + z - 1 THEN SizeAt(m, Minus(p, q)) ELSE 0
  <2>1. p \in Nat /\ p < SizeMod
    BY <1>3 DEF Addr, Size
  <2>2. SizeFrom(m, p) = IF p < q \/ p > q + z THEN 0 ELSE q + z - p
    BY <1>1, <1>3, <1>5, <2>1 DEF Plus, Minus
  <2>3. CASE p \in q .. q + z - 1
    <3>1. Minus(p, q) = p - q /\ p - q \in Size
      BY <1>1, <1>3, <2>1, <2>3 DEF Minus, Size
    <3>2. SizeAt(m, p - q) = z - (p - q)
      BY <1>3, <1>4, <2>1, <2>3, <3>1 DEF Minus
    <3> QED
      BY <1>3, <2>1, <2>2, <2>3, <3>1, <3>2
  <2>4. CASE p \notin q .. q + z - 1
    BY <1>3, <2>1, <2>2, <2>4
  <2> QED
    BY <2>3, <2>4
<1> QED
  BY <1>1, <1>6, <1>7 DEF z, q, c

\* In every reachable state, read returns the bytes of the object's area that are
\* asked for, and size tells how many bytes follow an offset or a pointer.
THEOREM ReadsTheArea == Spec => []ReadsArea
<1>1. DataInv => ReadsArea
  BY ReadIs, SizesAre DEF ReadsArea, DataInv
<1> QED
  BY <1>1, DataInvInductive, PTL DEF Spec

-----------------------------------------------------------------------------
(* Each object is an array of bytes.                                       *)

\* An object that exists is an array that is not empty, and one that does not is
\* an empty one.
AreasAre ==
  /\ \A m \in Live : Areas[m] # <<>> /\ Len(Areas[m]) = hostmem[m].size
  /\ \A m \in Mem : m \notin Live => Areas[m] = <<>>
  /\ Areas = [m \in Mem |-> Areas[m]]

LEMMA AreaContents == \A m \in Live : Areas[m] = Contents(m)
BY DEF Areas, Live, Contents, Peek, Plus

LEMMA AreasHold == DataInv => AreasAre
<1> SUFFICES ASSUME DataInv PROVE AreasAre
  OBVIOUS
<1>1. Areas = [m \in Mem |-> Areas[m]] /\ \A m \in Mem : m \notin Live => Areas[m] = <<>>
  BY DEF Areas, Contents, Peek, Plus
<1>2. ASSUME NEW m \in Live
      PROVE  Areas[m] # <<>> /\ Len(Areas[m]) = hostmem[m].size
  <2>1. Areas[m] = Contents(m)
    BY AreaContents
  <2>2. Len(Contents(m)) = hostmem[m].size
    BY ContentsIs
  <2>3. hostmem[m].size \in Size \ {0}
    BY AreaOf DEF DataInv, Inv
  <2>4. Contents(m) # <<>>
    <3>1. Len(<<>>) = 0
      OBVIOUS
    <3> QED
      BY <2>2, <2>3, <3>1
  <2> QED
    BY <2>1, <2>2, <2>4
<1> QED
  BY <1>1, <1>2 DEF AreasAre

LEMMA SpanMember ==
  ASSUME NEW p \in Size, NEW n \in Size, NEW i \in 1 .. n
  PROVE  Plus(p, i - 1) \in Span(p, n) /\ Plus(p, i - 1) \in Addr
<1>1. i - 1 \in 0 .. n - 1
  BY DEF Size
<1>2. Plus(p, i - 1) \in Span(p, n)
  BY <1>1 DEF Span
<1>3. i - 1 \in Nat /\ i - 1 < SizeMod
  BY <1>1, HostMemAssumption DEF Size
<1>4. Plus(p, i - 1) \in Addr
  BY <1>3, HostMemAssumption DEF Plus, Addr, Size
<1> QED
  BY <1>2, <1>4

\* The contents of an object whose area no step has touched.
LEMMA AreaKept ==
  ASSUME DataInv, NEW m \in Live, hostmem'[m] = hostmem[m],
         \A a \in SpanOf(hostmem[m]) : a \in Addr => memory'[a] = memory[a]
  PROVE  m \in Live' /\ Areas'[m] = Areas[m]
<1> DEFINE p == hostmem[m].ptr
           n == hostmem[m].size
<1>1. p \in Size /\ n \in Size /\ SpanOf(hostmem[m]) = Span(p, n)
  BY AreaOf DEF DataInv, Inv, SpanOf
<1>2. Contents(m) = [i \in 1 .. n |-> memory[Plus(p, i - 1)]]
  BY DEF Contents, Peek
<1> HIDE DEF p, n
<1>3. ASSUME NEW i \in 1 .. n
      PROVE  Plus(p, i - 1) \in Span(p, n) /\ Plus(p, i - 1) \in Addr
  BY <1>1, SpanMember
<1>4. ASSUME NEW i \in 1 .. n
      PROVE  memory'[Plus(p, i - 1)] = memory[Plus(p, i - 1)]
  <2> DEFINE a == Plus(p, i - 1)
  <2>1. a \in SpanOf(hostmem[m]) /\ a \in Addr
    BY <1>1, <1>3
  <2> HIDE DEF a
  <2>2. memory'[a] = memory[a]
    BY <2>1
  <2> QED
    BY <2>2 DEF a
<1>5. Areas[m] = Contents(m)
  BY AreaContents
<1>6. m \in Live' /\ m \in Mem
  BY DEF Live
<1>7. Areas'[m] = [i \in 1 .. n |-> memory'[Plus(p, i - 1)]]
  BY <1>6 DEF Areas, Live, Contents, Peek, Plus, p, n
<1> QED
  BY <1>2, <1>4, <1>5, <1>6, <1>7

\* A new object is a new array.
LEMMA NewArray ==
  ASSUME DataInv, DataInv', NEW m \in Mem, m \notin Live, Live' = Live \cup {m},
         \A x \in Live : Areas'[x] = Areas[x]
  PROVE  Arrays!New(m, Areas'[m])
<1>1. AreasAre /\ AreasAre'
  BY AreasHold, PTL
<1>2. Areas[m] = <<>> /\ Areas'[m] # <<>>
  BY <1>1 DEF AreasAre
<1>3. \A x \in Mem : x # m => Areas'[x] = Areas[x]
  BY <1>1 DEF AreasAre
<1>4. Areas' = [x \in Mem |-> Areas'[x]] /\ Areas = [x \in Mem |-> Areas[x]]
  BY <1>1 DEF AreasAre
<1>5. Areas' = [Areas EXCEPT ![m] = Areas'[m]]
  BY <1>3, <1>4
<1> QED
  BY <1>2, <1>5 DEF Arrays!New

\* The release of objects deletes their arrays.
LEMMA DeletedArrays ==
  ASSUME DataInv, DataInv', NEW S, S \subseteq Live, FreeHostmem(S), UNCHANGED memory
  PROVE  Arrays!Delete({m \in Mem : Areas'[m] = <<>>})
<1>1. AreasAre /\ AreasAre'
  BY AreasHold, PTL
<1>2. Live' = Live \ S /\ \A x \in Live' : hostmem'[x] = hostmem[x]
  BY FreeKeeps
<1>3. \A x \in Live' : Areas'[x] = Areas[x]
  BY <1>2, AreaKept
<1>4. \A x \in Mem : Areas'[x] = <<>> \/ Areas'[x] = Areas[x]
  BY <1>1, <1>2, <1>3 DEF AreasAre
<1>5. Areas' = [x \in Mem |-> Areas'[x]]
  BY <1>1 DEF AreasAre
<1>6. Areas' = [x \in Mem |-> IF x \in {m \in Mem : Areas'[m] = <<>>} THEN <<>> ELSE Areas[x]]
  BY <1>4, <1>5
<1> QED
  BY <1>6 DEF Arrays!Delete

\* A method that writes stores new contents in the array of its object.
LEMMA StoredArray ==
  ASSUME DataInv, DataInv', NEW m \in Live, Writes(m), UNCHANGED hostmem
  PROVE  Arrays!Store(m, Areas'[m])
<1>1. AreasAre /\ AreasAre'
  BY AreasHold, PTL
<1>2. \A a \in Addr : a \notin SpanOf(hostmem[m]) => memory'[a] = memory[a]
  BY StoreStep DEF Writes
<1>3. Live' = Live /\ m \in Mem
  BY DEF Live
<1>4. ASSUME NEW x \in Live, x # m PROVE Areas'[x] = Areas[x]
  <2>1. SpanOf(hostmem[m]) \cap SpanOf(hostmem[x]) = {}
    BY <1>4 DEF DataInv, Inv, Apart
  <2>2. \A a \in SpanOf(hostmem[x]) : a \in Addr => memory'[a] = memory[a]
    BY <1>2, <2>1
  <2> QED
    BY <2>2, AreaKept
<1>5. \A x \in Mem : x # m => Areas'[x] = Areas[x]
  BY <1>1, <1>3, <1>4 DEF AreasAre
<1>6. Areas[m] # <<>> /\ Len(Areas'[m]) = Len(Areas[m])
  BY <1>1, <1>3 DEF AreasAre
<1>7. Areas' = [x \in Mem |-> Areas'[x]] /\ Areas = [x \in Mem |-> Areas[x]]
  BY <1>1 DEF AreasAre
<1>8. Areas' = [Areas EXCEPT ![m] = Areas'[m]]
  BY <1>5, <1>7
<1> QED
  BY <1>6, <1>8 DEF Arrays!Store

LEMMA ArraysStep ==
  ASSUME DataInv, DataInv', [Next]_vars
  PROVE  [Arrays!Next]_Areas
<1>1. ASSUME NEW m \in Mem, NEW s \in Data, NEW dev \in BOOLEAN, Malloc(m, dev, s)
      PROVE  Arrays!Next
  <2>1. PICK p \in Size :
          /\ \A x \in Live : \A a \in SpanOf(hostmem[x]) : a \in Addr => memory'[a] = memory[a]
          /\ m \notin Live
          /\ hostmem' = [hostmem EXCEPT ![m] =
               [ptr |-> p, size |-> Len(s), allocated |-> TRUE, dma |-> dev, tied |-> dev]]
    BY <1>1, NewMemory
  <2>2. Live' = Live \cup {m} /\ \A x \in Live : hostmem'[x] = hostmem[x]
    <3> DEFINE h == [ptr |-> p, size |-> Len(s), allocated |-> TRUE, dma |-> dev, tied |-> dev]
    <3>1. h # None
      <4>1. Typed' /\ Typed
        BY DEF DataInv, Inv
      <4>2. hostmem'[m] = h
        BY <2>1, <4>1 DEF Typed
      <4>3. Len(s) \in Nat /\ p \in Nat
        BY DataLength DEF Size
      <4>4. h \in [ptr : Nat, size : Nat, allocated : BOOLEAN, dma : BOOLEAN, tied : BOOLEAN]
        BY <4>3
      <4> QED
        BY <4>4, HostMemAssumption
    <3> HIDE DEF h
    <3>2. hostmem' = [hostmem EXCEPT ![m] = h]
      BY <2>1 DEF h
    <3> QED
      BY <2>1, <3>1, <3>2 DEF Live, DataInv, Inv, Typed
  <2>3. \A x \in Live : Areas'[x] = Areas[x]
    BY <2>1, <2>2, AreaKept
  <2>4. Arrays!New(m, Areas'[m])
    BY <2>1, <2>2, <2>3, NewArray
  <2> QED
    BY <2>4 DEF Arrays!Next
<1>2. ASSUME NEW m \in Mem, NEW p \in Addr, NEW n \in Size, Hostmem(m, p, n)
      PROVE  Arrays!Next
  <2> DEFINE h == [ptr |-> p, size |-> n, allocated |-> FALSE, dma |-> FALSE, tied |-> FALSE]
  <2>1. m \notin Live /\ UNCHANGED memory /\ hostmem' = [hostmem EXCEPT ![m] = h] /\ n > 0
    BY <1>2 DEF Hostmem
  <2>2. h \in Struct
    BY <2>1 DEF Struct, Size
  <2> HIDE DEF h
  <2>3. Live' = Live \cup {m} /\ \A x \in Live : hostmem'[x] = hostmem[x]
    BY <2>1, <2>2, NewObject DEF DataInv, Inv
  <2>4. \A x \in Live : Areas'[x] = Areas[x]
    BY <2>1, <2>3, AreaKept
  <2>5. Arrays!New(m, Areas'[m])
    BY <2>1, <2>3, <2>4, NewArray
  <2> QED
    BY <2>5 DEF Arrays!Next
<1>3. ASSUME NEW S, S \subseteq Live, FreeHostmem(S), UNCHANGED memory
      PROVE  Arrays!Next
  BY <1>3, DeletedArrays DEF Arrays!Next
<1>4. ASSUME NEW m \in Mem, Free(m)
      PROVE  Arrays!Next
  BY <1>3, <1>4 DEF Free
<1>5. ASSUME CloseHandle
      PROVE  Arrays!Next
  <2> DEFINE S == {m \in Live : hostmem[m].tied}
  <2>1. S \subseteq Live /\ FreeHostmem(S) /\ UNCHANGED memory
    BY <1>5 DEF CloseHandle
  <2> HIDE DEF S
  <2> QED
    BY <1>3, <2>1
<1>6. ASSUME NEW m \in Mem, NEW o \in Size,
             \/ \E s \in Data : WriteData(m, o, s)
             \/ \E t \in PackType, vals \in Arguments : WritePack(m, o, t, vals)
             \/ \E n, so \in Size, src \in Mem : CopyHostmem(m, o, n, src, so)
             \/ \E n \in Size, p \in Addr : CopyPtr(m, o, n, p)
      PROVE  Arrays!Next
  <2>1. m \in Live /\ Writes(m) /\ UNCHANGED hostmem
    BY <1>6, WritesAre
  <2>2. Arrays!Store(m, Areas'[m])
    BY <2>1, StoredArray
  <2> QED
    BY <2>2 DEF Arrays!Next
<1>7. CASE UNCHANGED <<memory, hostmem>>
  BY <1>7 DEF Areas, Live, Contents, Peek, Plus
<1> QED
  BY <1>1, <1>2, <1>4, <1>5, <1>6, <1>7 DEF Next, vars, MallocFails, OpenHandle

\* Each object is an array of bytes of its own: whatever the size of the address
\* space and the areas in it, every method's step is one of an array, or none.
THEOREM EachObjectIsAnArray == Spec => ImplementsArrays
<1>1. Init => Arrays!Init
  BY DEF Init, Arrays!Init, Areas, Live, Contents, Peek, Plus
<1>2. DataInv /\ DataInv' /\ [Next]_vars => [Arrays!Next]_Areas
  BY ArraysStep
<1> QED
  BY <1>1, <1>2, DataInvInductive, PTL DEF Spec, Arrays!Spec, ImplementsArrays
=============================================================================
