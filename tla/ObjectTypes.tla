---------------------------- MODULE ObjectTypes ----------------------------
(***************************************************************************)
(* The types of MoonUSB's objects and the tree they form: the parents the  *)
(* constructors give them, and the children their destructors scan for.    *)
(***************************************************************************)
CONSTANTS
  Ctx, Dev, Hnd, Itf, Xfr, Mem, Hpl,  \* the objects of each type
  Root,       \* the parent of objects that have none
  None        \* marks an object that does not exist

ASSUME TypesAssumption ==
  /\ Root # None
  /\ {Root, None} \cap (Ctx \cup Dev \cup Hnd \cup Itf \cup Xfr \cup Mem \cup Hpl) = {}
  /\ Ctx \cap (Dev \cup Hnd \cup Itf \cup Xfr \cup Mem \cup Hpl) = {}
  /\ Dev \cap (Hnd \cup Itf \cup Xfr \cup Mem \cup Hpl) = {}
  /\ Hnd \cap (Itf \cup Xfr \cup Mem \cup Hpl) = {}
  /\ Itf \cap (Xfr \cup Mem \cup Hpl) = {}
  /\ Xfr \cap (Mem \cup Hpl) = {} /\ Mem \cap Hpl = {}

Obj == Ctx \cup Dev \cup Hnd \cup Itf \cup Xfr \cup Mem \cup Hpl

\* The parents the types allow.  A hostmem object may also stand alone.
Parents(o) ==
  (IF o \in Dev \cup Hpl THEN Ctx ELSE {})
  \cup (IF o \in Hnd THEN Dev ELSE {})
  \cup (IF o \in Itf \cup Xfr \cup Mem THEN Hnd ELSE {})
  \cup (IF o \in Ctx \cup Mem THEN {Root} ELSE {})

\* With the parents p: o and the objects above it.  The tree has four levels.
Above(p, o) ==
  LET Up(x) == IF x \in Obj THEN p[x] ELSE x
  IN  {o, Up(o), Up(Up(o)), Up(Up(Up(o)))}

\* (Mutant: freedevhandle forgets the hostmem objects.)
ScansNoMem(o) ==
  IF o \in Ctx THEN <<Hpl, Dev>>
  ELSE IF o \in Dev THEN <<Hnd>>
  ELSE IF o \in Hnd THEN <<Xfr, Itf>>
  ELSE <<>>

\* The types each destructor passes to freechildren, in its order.
Scans(o) ==
  IF o \in Ctx THEN <<Hpl, Dev>>
  ELSE IF o \in Dev THEN <<Hnd>>
  ELSE IF o \in Hnd THEN <<Mem, Xfr, Itf>>
  ELSE <<>>
=============================================================================
