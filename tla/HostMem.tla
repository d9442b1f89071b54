------------------------------ MODULE HostMem ------------------------------
(***************************************************************************)
(* Host memory objects (src/hostmem.c): blocks of memory allocated on the  *)
(* heap or, for a device handle, by libusb, areas of memory the script     *)
(* provides, and the methods that read and write them, with their bounds   *)
(* checks in the arithmetic of size_t.                                     *)
(***************************************************************************)
EXTENDS DataHandling

CONSTANTS
  Mem,      \* the addresses of hostmem_t structs
  None,     \* marks a struct that is not allocated
  SizeMod,  \* size_t and addresses are the integers modulo SizeMod
  User,     \* addresses of memory that the script provides
  MaxLen,   \* bound on the length of the data the script passes
  May       \* which allocations may fail, of {"dma", "struct"}

ASSUME HostMemAssumption ==
  /\ SizeMod \in Nat \ {0}
  /\ User \subseteq 1 .. SizeMod - 1
  /\ None \notin [ptr : Nat, size : Nat, allocated : BOOLEAN, dma : BOOLEAN, tied : BOOLEAN]
  /\ MaxLen \in Nat
  /\ May \subseteq {"dma", "struct"}

Size == 0 .. SizeMod - 1
Addr == Size

VARIABLES
  memory,   \* memory[a]: the byte at address a
  block,    \* allocated blocks: [ptr, size, by], by "heap" or "dma"
  hostmem,  \* hostmem[m]: [ptr, size, allocated, dma, tied], or None
  open,     \* the device handle is open
  misuse    \* the allocators of the blocks released by the wrong deallocator

vars == <<memory, block, hostmem, open, misuse>>

\* The structs of objects; no area is empty.
Struct == [ptr : Addr, size : Size \ {0}, allocated : BOOLEAN, dma : BOOLEAN, tied : BOOLEAN]

Live == {m \in Mem : hostmem[m] # None}

\* size_t arithmetic, and that of pointers.
Plus(a, b) == IF a + b < SizeMod THEN a + b ELSE a + b - SizeMod
Minus(a, b) == IF a >= b THEN a - b ELSE a - b + SizeMod

\* The addresses of n bytes from p on, of a block and of an object.
Span(p, n) == {Plus(p, i) : i \in 0 .. n - 1}
SpanOf(b) == Span(b.ptr, b.size)

Init ==
  /\ memory = [a \in Addr |-> 0]
  /\ block = {}
  /\ hostmem = [m \in Mem |-> None]
  /\ open = TRUE
  /\ misuse = {}

Defined == misuse = {}

\* Data a script passes: byte strings, and the bytes PACK makes of its arguments.
Data == UNION {[1 .. n -> Byte] : n \in 1 .. MaxLen}
Argument == {0, 2, NotNumber}
Arguments == UNION {[1 .. n -> Argument] : n \in 0 .. MaxLen}
PackType == {"uchar", "ushort"}

-----------------------------------------------------------------------------
(* Reading and writing memory.                                             *)

Poke(p, s) ==
  memory' = [a \in Addr |-> IF Minus(a, p) < Len(s) THEN s[Minus(a, p) + 1] ELSE memory[a]]
Peek(p, n) == [i \in 1 .. n |-> memory[Plus(p, i - 1)]]

-----------------------------------------------------------------------------
(* Allocation.                                                             *)

\* Where a new block of n bytes can be: not at NULL, not across the end of the
\* address space, and away from the others.
FreeSpan(p, n) ==
  /\ p # 0 /\ p + n < SizeMod
  /\ Span(p, n) \cap (User \cup UNION {SpanOf(b) : b \in block}) = {}

\* AllocMem, for a device handle (dev) or not: who allocates the block.
Allocator(dev) == {IF dev THEN "dma" ELSE "heap"} \cup {x \in {"heap"} : "dma" \in May}

\* FreeMem releases a block through libusb if it is given a device handle.  A
\* block that comes from elsewhere is undefined: the model stops.
Mismatch(by, dma) == IF (by = "dma") <=> dma THEN {} ELSE {by}

\* (Mutant: CreateAllocated does not set the Dma mark.)
MallocUnmarked(m, dev, s) ==
  /\ Defined
  /\ dev => open
  /\ m \notin Live
  /\ \E p \in Addr, by \in Allocator(dev) :
       /\ FreeSpan(p, Len(s))
       /\ block' = block \cup {[ptr |-> p, size |-> Len(s), by |-> by]}
       /\ Poke(p, s)
       /\ hostmem' = [hostmem EXCEPT ![m] =
            [ptr |-> p, size |-> Len(s), allocated |-> TRUE, dma |-> FALSE, tied |-> dev]]
  /\ UNCHANGED <<open, misuse>>

\* malloc and aligned_alloc with data (zeros for a size): AllocMem sets dma for a
\* device handle, whichever allocator it ends up with.
Malloc(m, dev, s) ==
  /\ Defined
  /\ dev => open
  /\ m \notin Live
  /\ \E p \in Addr, by \in Allocator(dev) :
       /\ FreeSpan(p, Len(s))
       /\ block' = block \cup {[ptr |-> p, size |-> Len(s), by |-> by]}
       /\ Poke(p, s)
       /\ hostmem' = [hostmem EXCEPT ![m] =
            [ptr |-> p, size |-> Len(s), allocated |-> TRUE, dma |-> dev, tied |-> dev]]
  /\ UNCHANGED <<open, misuse>>

\* The errors after AllocMem: values that do not pack, after which the block is
\* released with FreeMem; no memory for the struct, when it is released with free.
MallocFails(dev) ==
  /\ Defined
  /\ dev => open
  /\ \E by \in Allocator(dev) :
       \/ misuse' = Mismatch(by, dev)
       \/ "struct" \in May /\ misuse' = Mismatch(by, FALSE)
  /\ UNCHANGED <<memory, block, hostmem, open>>

\* (Mutant: CreateHostmem does not test the size.)
HostmemEmpty(m, p, n) ==
  /\ Defined
  /\ m \notin Live
  /\ Span(p, n) \subseteq User /\ p + n < SizeMod
  /\ \A x \in Live : Span(p, n) \cap SpanOf(hostmem[x]) = {}
  /\ hostmem' = [hostmem EXCEPT ![m] =
       [ptr |-> p, size |-> n, allocated |-> FALSE, dma |-> FALSE, tied |-> FALSE]]
  /\ UNCHANGED <<memory, block, open, misuse>>

\* hostmem: memory the script provides, apart from what its other objects have.
Hostmem(m, p, n) ==
  /\ Defined
  /\ m \notin Live /\ n > 0
  /\ Span(p, n) \subseteq User /\ p + n < SizeMod
  /\ \A x \in Live : Span(p, n) \cap SpanOf(hostmem[x]) = {}
  /\ hostmem' = [hostmem EXCEPT ![m] =
       [ptr |-> p, size |-> n, allocated |-> FALSE, dma |-> FALSE, tied |-> FALSE]]
  /\ UNCHANGED <<memory, block, open, misuse>>

BlockOf(m) == CHOOSE b \in block : b.ptr = hostmem[m].ptr

\* freehostmem for the objects of S: the device handle passed to FreeMem is that of
\* the parent, if the object has the Dma mark.
FreeHostmem(S) ==
  LET allocated == {m \in S : hostmem[m].allocated}
  IN  /\ hostmem' = [m \in Mem |-> IF m \in S THEN None ELSE hostmem[m]]
      /\ block' = block \ {BlockOf(m) : m \in allocated}
      /\ misuse' = UNION {Mismatch(BlockOf(m).by, hostmem[m].dma /\ hostmem[m].tied) :
                            m \in allocated}

Free(m) ==
  /\ Defined
  /\ m \in Live
  /\ FreeHostmem({m})
  /\ UNCHANGED <<memory, open>>

\* (Mutant: freedevhandle does not free the hostmem objects of the handle.)
CloseHandleKeeps ==
  /\ Defined /\ open
  /\ open' = FALSE
  /\ UNCHANGED <<memory, block, hostmem, misuse>>

\* freedevhandle frees the objects tied to the handle before it closes it.
CloseHandle ==
  /\ Defined /\ open
  /\ FreeHostmem({m \in Live : hostmem[m].tied})
  /\ open' = FALSE
  /\ UNCHANGED memory

OpenHandle ==
  /\ Defined /\ ~ open
  /\ open' = TRUE
  /\ UNCHANGED <<memory, block, hostmem, misuse>>

-----------------------------------------------------------------------------
(* The methods.  One whose check fails raises an error: no step.           *)

\* (Mutant: the sum of offset and size, that may wrap around.)
FitsWrapping(o, n, size) == o < size /\ Plus(o, n) <= size

\* The check of all methods on an offset and a size, both of type size_t: a
\* negative argument is a large number.
Fits(o, n, size) == ~ (o >= size \/ n > Minus(size, o))

AddressOf(m, o) == Plus(hostmem[m].ptr, o)

\* (Mutant: the size is not compared with the rest of the area.)
WriteDataOver(m, o, s) ==
  /\ Defined
  /\ m \in Live
  /\ o < hostmem[m].size
  /\ Poke(AddressOf(m, o), s)
  /\ UNCHANGED <<block, hostmem, open, misuse>>

\* write with nil, and clear.
WriteData(m, o, s) ==
  /\ Defined
  /\ m \in Live
  /\ Fits(o, Len(s), hostmem[m].size)
  /\ Poke(AddressOf(m, o), s)
  /\ UNCHANGED <<block, hostmem, open, misuse>>

\* write with a type: what fits in the rest of the area is decided for all values,
\* but the values before a faulty one are stored.
WritePack(m, o, t, vals) ==
  /\ Defined
  /\ m \in Live
  /\ o < hostmem[m].size
  /\ Len(vals) * SizeOf(t) <= Minus(hostmem[m].size, o)
  /\ Poke(AddressOf(m, o), Packed(t, vals))
  /\ UNCHANGED <<block, hostmem, open, misuse>>

\* copy from another object.
CopyHostmem(m, o, n, src, so) ==
  /\ Defined
  /\ {m, src} \subseteq Live /\ m # src
  /\ n # 0
  /\ Fits(o, n, hostmem[m].size) /\ Fits(so, n, hostmem[src].size)
  /\ Poke(AddressOf(m, o), Peek(AddressOf(src, so), n))
  /\ UNCHANGED <<block, hostmem, open, misuse>>

\* The memory that can be read: that of the script and the allocated blocks.
Mapped == User \cup UNION {SpanOf(b) : b \in block}

\* copy from a pointer: nothing is checked of the source, which may run past the end of
\* an area, or be in the object itself.  If it overlaps the destination, memcpy may
\* leave any bytes there.  A source that is not mapped is not modelled.
CopyPtr(m, o, n, p) ==
  /\ Defined
  /\ m \in Live
  /\ n # 0
  /\ Fits(o, n, hostmem[m].size)
  /\ p + n < SizeMod /\ Span(p, n) \subseteq Mapped
  /\ \E s \in [1 .. n -> Byte] :
       /\ Span(p, n) \cap Span(AddressOf(m, o), n) = {} => s = Peek(p, n)
       /\ Poke(AddressOf(m, o), s)
  /\ UNCHANGED <<block, hostmem, open, misuse>>

\* The methods that change nothing, where their check succeeds: read, size of an
\* offset, and size of a pointer.
Read(m, o, n) == Peek(AddressOf(m, o), n)

SizeAt(m, o) == IF o >= hostmem[m].size THEN 0 ELSE Minus(hostmem[m].size, o)

\* (Mutant: the bytes before the pointer.)
SizeBefore(m, p) ==
  LET h == hostmem[m]
  IN  IF p < h.ptr \/ p > Plus(h.ptr, h.size) THEN 0 ELSE Minus(p, h.ptr)

SizeFrom(m, p) ==
  LET h == hostmem[m]
  IN  IF p < h.ptr \/ p > Plus(h.ptr, h.size) THEN 0 ELSE Minus(Plus(h.ptr, h.size), p)

Next ==
  \/ \E m \in Mem, s \in Data, dev \in BOOLEAN : Malloc(m, dev, s)
  \/ \E dev \in BOOLEAN : MallocFails(dev)
  \/ \E m \in Mem, p \in Addr, n \in Size : Hostmem(m, p, n)
  \/ \E m \in Mem : Free(m)
  \/ CloseHandle \/ OpenHandle
  \/ \E m \in Mem, o \in Size :
       \/ \E s \in Data : WriteData(m, o, s)
       \/ \E t \in PackType, vals \in Arguments : WritePack(m, o, t, vals)
       \/ \E n, so \in Size, src \in Mem : CopyHostmem(m, o, n, src, so)
       \/ \E n \in Size, p \in Addr : CopyPtr(m, o, n, p)

Spec == Init /\ [][Next]_vars

-----------------------------------------------------------------------------
(* Properties.                                                             *)

\* The types of the variables.
TypeOK ==
  /\ memory \in [Addr -> Byte]
  /\ block \subseteq [ptr : Addr, size : Size, by : {"heap", "dma"}]
  /\ hostmem \in [Mem -> Struct \cup {None}]
  /\ open \in BOOLEAN
  /\ misuse \subseteq {"heap", "dma"}

\* The check of offsets and sizes is exact: whatever integers the script passes, it
\* accepts the ranges inside the area and no other, so that no sum or difference
\* in size_t that wraps around lets a method out of the area.
BoundsExact ==
  \A m \in Live, o, n \in Size :
    Fits(o, n, hostmem[m].size) <=> o < hostmem[m].size /\ o + n <= hostmem[m].size

\* Blocks and objects correspond: no block is leaked or freed under its object, no
\* two objects share memory, and what libusb has allocated for a device handle is
\* released before the handle is closed.
BlocksOwned ==
  Defined =>
    /\ \A b \in block : \E m \in Live : hostmem[m].allocated /\ SpanOf(hostmem[m]) = SpanOf(b)
    /\ \A m \in Live : hostmem[m].allocated =>
         \E b \in block : SpanOf(hostmem[m]) = SpanOf(b)
    /\ \A m, x \in Live : m # x => SpanOf(hostmem[m]) \cap SpanOf(hostmem[x]) = {}
    /\ \A b \in block : b.by = "dma" => open

\* What libusb has allocated for an object is released by libusb, when the object
\* is freed and when its handle is closed, whatever failed before.
DmaReturned ==
  [][CloseHandle \/ (\E m \in Mem : Free(m)) => "dma" \notin misuse']_vars

\* The contents of an object's area.
Contents(m) == Peek(hostmem[m].ptr, hostmem[m].size)

\* read returns the bytes at the offset, and size, of an offset or of the pointer ptr
\* returns for it, how many bytes follow: none beyond the area.
ReadsArea ==
  TypeOK /\ \A m \in Live :
    /\ \A o, n \in Size : Fits(o, n, hostmem[m].size) =>
         Read(m, o, n) = SubSeq(Contents(m), o + 1, o + n)
    /\ \A o \in Size : SizeAt(m, o) = Len(SubSeq(Contents(m), o + 1, hostmem[m].size))
    /\ \A p \in Addr : SizeFrom(m, p) =
         IF p \in SpanOf(hostmem[m]) THEN SizeAt(m, Minus(p, hostmem[m].ptr)) ELSE 0

\* Each object is an array of bytes of its own: all methods stay inside the area of
\* their object, and none touches that of another, though all areas lie in one
\* address space and are addressed modulo its size.
Areas == [m \in Mem |-> IF m \in Live THEN Contents(m) ELSE <<>>]
Arrays == INSTANCE ByteArrays WITH area <- Areas

ImplementsArrays == Arrays!Spec
=============================================================================
