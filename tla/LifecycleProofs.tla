-------------------------- MODULE LifecycleProofs ---------------------------
(***************************************************************************)
(* Theorems about Lifecycle, for any number of objects of each type.       *)
(*                                                                         *)
(* The first part is about all programs, log callbacks that destroy        *)
(* objects included.  The second is about those whose log callbacks do     *)
(* not: there destructors nest along the tree of objects, and implement    *)
(* ObjectTree.                                                             *)
(***************************************************************************)
EXTENDS Lifecycle, SequenceTheorems, TLAPS

Frame == [obj : Obj, pc : 1 .. 5]

\* The number of scans of the destructor of a frame, and whether it is past its
\* freeuserdata.
Steps(f) == Len(Scans(f.obj))
Past(f) == f.pc = Steps(f) + 2

\* An object that is valid no more, but whose resource is there, is being released.
Framed ==
  /\ \A j \in 1 .. Len(stack) : stack[j].pc <= Steps(stack[j]) + 2
  /\ \A o \in res \ live : \E j \in 1 .. Len(stack) : stack[j].obj = o /\ Past(stack[j])

\* It is being released by one call.
OnceEach ==
  \A j, k \in 1 .. Len(stack) :
    Past(stack[j]) => stack[j].obj \in res \ live /\ (stack[k] = stack[j] => k = j)

Inv == TypeOK /\ live \subseteq res /\ Framed /\ OnceEach /\ DevicesPinned

-----------------------------------------------------------------------------
(* The stack.                                                              *)

LEMMA StepsFew == \A f : Steps(f) \in 0 .. 3
<1> SUFFICES ASSUME NEW f PROVE Len(Scans(f.obj)) \in 0 .. 3
  BY DEF Steps
<1>1. \A x, y, z : Len(<<x, y, z>>) = 3 /\ Len(<<x, y>>) = 2 /\ Len(<<x>>) = 1
  OBVIOUS
<1>2. Len(<<>>) = 0
  OBVIOUS
<1> QED
  BY <1>1, <1>2 DEF Scans

LEMMA SameFrame ==
  ASSUME NEW f \in Frame, NEW g \in Frame, f.obj = g.obj, f.pc = g.pc
  PROVE  f = g
BY DEF Frame

LEMMA TopIs ==
  ASSUME TypeOK, Running
  PROVE  /\ Len(stack) \in Nat \ {0} /\ Top = stack[Len(stack)]
         /\ Top \in Frame /\ Top.obj \in Obj /\ Top.pc \in 1 .. 5
         /\ Caller \in Seq(Frame) /\ Len(Caller) = Len(stack) - 1
         /\ \A j \in 1 .. Len(stack) - 1 : Caller[j] = stack[j]
<1>1. stack \in Seq(Frame) /\ stack # <<>>
  BY DEF TypeOK, Frame, Running
<1>2. Len(stack) \in Nat \ {0} /\ Top = stack[Len(stack)] /\ Top \in Frame
  BY <1>1 DEF Top
<1>3. /\ Caller \in Seq(Frame) /\ Len(Caller) = Len(stack) - 1
      /\ \A j \in 1 .. Len(stack) - 1 : Caller[j] = stack[j]
  <2>1. \A j \in 1 .. Len(stack) - 1 : stack[j] \in Frame
    BY <1>1
  <2> DEFINE n == Len(stack)
  <2>2. n - 1 \in Int /\ 1 \in Int /\ \A j \in 1 .. n - 1 : stack[j] \in Frame
    BY <1>2, <2>1
  <2>3. /\ SubSeq(stack, 1, n - 1) \in Seq(Frame)
        /\ Len(SubSeq(stack, 1, n - 1)) = IF 1 <= n - 1 THEN n - 1 - 1 + 1 ELSE 0
        /\ \A j \in 1 .. n - 1 - 1 + 1 : SubSeq(stack, 1, n - 1)[j] = stack[1 + j - 1]
    BY <2>2, SubSeqProperties
  <2>4. n - 1 - 1 + 1 = n - 1 /\ (IF 1 <= n - 1 THEN n - 1 - 1 + 1 ELSE 0) = n - 1
        /\ \A j \in 1 .. n - 1 : 1 + j - 1 = j
    BY <1>2
  <2>5. \A j \in 1 .. n - 1 : SubSeq(stack, 1, n - 1)[j] = stack[j]
    BY <2>3, <2>4
  <2> QED
    BY <2>3, <2>4, <2>5 DEF Caller
<1> QED
  BY <1>2, <1>3 DEF Frame

\* What a call, a step and a return do to the stack.
LEMMA CallStack ==
  ASSUME TypeOK, NEW o \in Obj, Call(o)
  PROVE  /\ stack' \in Seq(Frame) /\ Len(stack) \in Nat /\ Len(stack') = Len(stack) + 1
         /\ \A j \in 1 .. Len(stack) : stack'[j] = stack[j] /\ stack[j] \in Frame
         /\ stack'[Len(stack) + 1] \in Frame
         /\ stack'[Len(stack) + 1].obj = o /\ stack'[Len(stack) + 1].pc = 1
<1>1. stack \in Seq(Frame) /\ [obj |-> o, pc |-> 1] \in Frame
  BY DEF TypeOK, Frame
<1>2. stack' = Append(stack, [obj |-> o, pc |-> 1])
  BY DEF Call
<1> QED
  BY <1>1, <1>2

LEMMA GotoStack ==
  ASSUME TypeOK, Running, NEW pc \in 1 .. 5, Goto(pc)
  PROVE  /\ stack' \in Seq(Frame) /\ Len(stack) \in Nat \ {0} /\ Len(stack') = Len(stack)
         /\ \A j \in 1 .. Len(stack) : stack[j] \in Frame
         /\ \A j \in 1 .. Len(stack) - 1 : stack'[j] = stack[j]
         /\ stack'[Len(stack)] \in Frame
         /\ stack'[Len(stack)].obj = Top.obj /\ stack'[Len(stack)].pc = pc
<1> DEFINE f == [Top EXCEPT !.pc = pc]
<1>1. f \in Frame /\ f.obj = Top.obj /\ f.pc = pc
  BY TopIs DEF Frame
<1>2. stack' = Append(Caller, f)
  BY DEF Goto
<1> HIDE DEF f
<1>s. stack \in Seq(Frame)
  BY DEF TypeOK, Frame
<1>3. \A j \in 1 .. Len(stack) : stack[j] \in Frame
  BY <1>s
<1>4. Caller \in Seq(Frame) /\ Len(Caller) = Len(stack) - 1 /\ Len(stack) \in Nat \ {0}
  BY TopIs
<1>5. /\ stack' \in Seq(Frame) /\ Len(stack') = Len(stack)
      /\ stack'[Len(stack)] = f
      /\ \A j \in 1 .. Len(stack) - 1 : stack'[j] = Caller[j]
  BY <1>1, <1>2, <1>4
<1> QED
  BY <1>1, <1>3, <1>4, <1>5, TopIs

LEMMA ReturnStack ==
  ASSUME TypeOK, Running, stack' = Caller
  PROVE  /\ stack' \in Seq(Frame) /\ Len(stack) \in Nat \ {0} /\ Len(stack') = Len(stack) - 1
         /\ \A j \in 1 .. Len(stack) : stack[j] \in Frame
         /\ \A j \in 1 .. Len(stack) - 1 : stack'[j] = stack[j]
         /\ Top = stack[Len(stack)]
<1>1. stack \in Seq(Frame)
  BY DEF TypeOK, Frame
<1>2. \A j \in 1 .. Len(stack) : stack[j] \in Frame
  BY <1>1
<1> QED
  BY <1>2, TopIs

-----------------------------------------------------------------------------
(* All programs.                                                           *)

\* The objects in the domain of f are created, with the parents of f, and each new
\* device with a reference.
Made(f) ==
  /\ stack = <<>>
  /\ DOMAIN f \subseteq Obj /\ DOMAIN f \cap res = {}
  /\ \A o \in DOMAIN f : f[o] \in Parents(o) /\ (o \in Dev => f[o] = CtxOf[o])
  /\ live' = live \cup DOMAIN f /\ res' = res \cup DOMAIN f
  /\ parent' = [o \in Obj |-> IF o \in DOMAIN f THEN f[o] ELSE parent[o]]
  /\ owned' \in [Dev -> 0 .. MaxRefs]
  /\ \A d \in Dev : owned'[d] >= owned[d] /\ (d \in DOMAIN f => owned'[d] > 0)
  /\ UNCHANGED <<stack, attached>>

\* None of them is an interface.
Unclaimed(f) == DOMAIN f \cap Itf = {} /\ UNCHANGED <<claimed, number, closing>>

LEMMA ParentsTyped == \A o : Parents(o) \subseteq Obj \cup {Root}
BY DEF Parents, Obj

LEMMA MadeInv ==
  ASSUME Inv, NEW f, Made(f),
         claimed' \in SUBSET (Hnd \X Num), number' \in [Itf -> Num \cup {None}], UNCHANGED closing
  PROVE  Inv'
<1>0. TypeOK /\ live \subseteq res /\ Framed /\ OnceEach /\ DevicesPinned
  BY DEF Inv
<1>1. parent' \in [Obj -> Obj \cup {Root, None}]
  BY <1>0, ParentsTyped DEF Made, TypeOK
<1>2. TypeOK'
  BY <1>0, <1>1 DEF Made, TypeOK
<1>3. live' \subseteq res' /\ res' \ live' \subseteq res \ live
  BY <1>0 DEF Made
<1>4. Len(stack) = 0 /\ stack' = stack
  BY DEF Made
<1>5. Framed' /\ OnceEach'
  BY <1>0, <1>3, <1>4 DEF Framed, OnceEach
<1>6. DevicesPinned'
  <2> SUFFICES ASSUME NEW d \in Dev, d \in res'
               PROVE  owned'[d] > 0
    BY DEF DevicesPinned
  <2>1. owned[d] \in Nat /\ owned'[d] \in Nat
    BY <1>0, <1>2, LifecycleAssumption DEF TypeOK
  <2>2. CASE d \in res
    BY <1>0, <2>1, <2>2 DEF Made, DevicesPinned
  <2>3. CASE d \in DOMAIN f
    BY <2>3 DEF Made
  <2> QED
    BY <2>2, <2>3 DEF Made
<1> QED
  BY <1>2, <1>3, <1>5, <1>6 DEF Inv

LEMMA CallInv ==
  ASSUME Inv, NEW o \in live, Call(o),
         UNCHANGED <<live, parent, res, attached, owned, claimed, number, closing>>
  PROVE  Inv'
<1>0. TypeOK /\ live \subseteq res /\ Framed /\ OnceEach /\ DevicesPinned
  BY DEF Inv
<1>1. o \in Obj
  BY <1>0 DEF TypeOK
<1> DEFINE n == Len(stack)
<1>2. /\ stack' \in Seq(Frame) /\ n \in Nat /\ Len(stack') = n + 1
      /\ \A j \in 1 .. n : stack'[j] = stack[j]
      /\ stack'[n + 1].obj = o /\ stack'[n + 1].pc = 1
  BY <1>0, <1>1, CallStack
<1> HIDE DEF n
<1>3. TypeOK'
  BY <1>0, <1>2 DEF TypeOK, Frame
<1>4. ~ Past(stack'[n + 1]) /\ stack'[n + 1].pc <= Steps(stack'[n + 1]) + 2
  BY <1>2, StepsFew DEF Past
<1>5. Framed'
  <2>1. \A j \in 1 .. n + 1 : stack'[j].pc <= Steps(stack'[j]) + 2
    BY <1>0, <1>2, <1>4 DEF Framed, n
  <2>2. \A x \in res \ live : \E j \in 1 .. n + 1 : stack'[j].obj = x /\ Past(stack'[j])
    BY <1>0, <1>2 DEF Framed, n
  <2> QED
    BY <1>2, <2>1, <2>2 DEF Framed, Past, Steps
<1>6. OnceEach'
  <2> SUFFICES ASSUME NEW j \in 1 .. n + 1, NEW k \in 1 .. n + 1, Past(stack'[j])
               PROVE  stack'[j].obj \in res \ live /\ (stack'[k] = stack'[j] => k = j)
    BY <1>2 DEF OnceEach, Past, Steps
  <2>1. j \in 1 .. n /\ (stack'[k] = stack'[j] => k \in 1 .. n)
    BY <1>2, <1>4
  <2> QED
    BY <1>0, <1>2, <2>1 DEF OnceEach, n
<1>7. DevicesPinned'
  BY <1>0 DEF DevicesPinned
<1> QED
  BY <1>0, <1>3, <1>5, <1>6, <1>7 DEF Inv

LEMMA EndScanInv ==
  ASSUME Inv, EndScan
  PROVE  Inv'
<1>0. TypeOK /\ live \subseteq res /\ Framed /\ OnceEach /\ DevicesPinned
  BY DEF Inv
<1>1. /\ Running /\ Top.pc <= Steps(Top) /\ Goto(Top.pc + 1)
      /\ UNCHANGED <<live, parent, res, attached, owned, claimed, number, closing>>
  BY DEF EndScan, Scanning, Steps
<1>2. Top.pc \in 1 .. 3 /\ Top.pc + 1 \in 1 .. 5
  BY <1>0, <1>1, StepsFew, TopIs
<1> DEFINE n == Len(stack)
<1>3. /\ stack' \in Seq(Frame) /\ n \in Nat \ {0} /\ Len(stack') = n
      /\ \A j \in 1 .. n - 1 : stack'[j] = stack[j]
      /\ stack'[n].obj = Top.obj /\ stack'[n].pc = Top.pc + 1 /\ Top = stack[n]
  BY <1>0, <1>1, <1>2, GotoStack, TopIs
<1> HIDE DEF n
<1>4. Steps(stack'[n]) = Steps(Top)
  BY <1>3 DEF Steps
<1>5. ~ Past(Top) /\ ~ Past(stack'[n]) /\ stack'[n].pc <= Steps(stack'[n]) + 2
  BY <1>1, <1>2, <1>3, <1>4, StepsFew DEF Past
<1>6. TypeOK'
  BY <1>0, <1>1, <1>3 DEF TypeOK, Frame
<1>7. Framed'
  <2>1. \A j \in 1 .. n : stack'[j].pc <= Steps(stack'[j]) + 2
    BY <1>0, <1>3, <1>5 DEF Framed, n
  <2>2. \A x \in res \ live : \E j \in 1 .. n : stack'[j].obj = x /\ Past(stack'[j])
    <3> TAKE x \in res \ live
    <3>1. PICK j \in 1 .. n : stack[j].obj = x /\ Past(stack[j])
      BY <1>0 DEF Framed, n
    <3>2. j \in 1 .. n - 1
      BY <1>3, <1>5, <3>1
    <3> QED
      BY <1>3, <3>1, <3>2
  <2> QED
    BY <1>1, <1>3, <2>1, <2>2 DEF Framed, Past, Steps
<1>8. OnceEach'
  <2> SUFFICES ASSUME NEW j \in 1 .. n, NEW k \in 1 .. n, Past(stack'[j])
               PROVE  stack'[j].obj \in res \ live /\ (stack'[k] = stack'[j] => k = j)
    BY <1>1, <1>3 DEF OnceEach, Past, Steps
  <2>1. j \in 1 .. n - 1 /\ (stack'[k] = stack'[j] => k \in 1 .. n - 1)
    BY <1>3, <1>5
  <2> QED
    BY <1>0, <1>3, <2>1 DEF OnceEach, n
<1>9. DevicesPinned'
  BY <1>0, <1>1 DEF DevicesPinned
<1> QED
  BY <1>0, <1>1, <1>6, <1>7, <1>8, <1>9 DEF Inv

LEMMA FreeUserdataInv ==
  ASSUME Inv, FreeUserdata
  PROVE  Inv'
<1> DEFINE o == Top.obj
           n == Len(stack)
<1>0. TypeOK /\ live \subseteq res /\ Framed /\ OnceEach /\ DevicesPinned
  BY DEF Inv
<1>1. /\ Running /\ Top.pc = Steps(Top) + 1 /\ Top.pc + 1 \in 1 .. 5 /\ Steps(Top) \in 0 .. 3
      /\ Top = stack[n] /\ o \in Obj /\ n \in Nat \ {0}
      /\ UNCHANGED <<parent, res, attached, owned, claimed, number, closing>>
  <2>1. Running /\ Top.pc = Steps(Top) + 1
    BY DEF FreeUserdata, Freeing, Steps
  <2> QED
    BY <1>0, <2>1, StepsFew, TopIs DEF FreeUserdata
<1>2. ~ Past(Top)
  BY <1>1 DEF Past
<1>3. CASE o \in live /\ Goto(Top.pc + 1) /\ live' = live \ {o}
  <2>1. /\ stack' \in Seq(Frame) /\ Len(stack') = n
        /\ \A j \in 1 .. n - 1 : stack'[j] = stack[j]
        /\ stack'[n].obj = o /\ stack'[n].pc = Top.pc + 1
    BY <1>0, <1>1, <1>3, GotoStack
  <2> HIDE DEF n, o
  <2>2. TypeOK'
    BY <1>0, <1>1, <1>3, <2>1 DEF TypeOK, Frame
  <2>3. Past(stack'[n])
    BY <1>1, <2>1 DEF Past, Steps, o
  <2>4. Framed'
    <3>1. \A j \in 1 .. n : stack'[j].pc <= Steps(stack'[j]) + 2
      <4>1. stack'[n].pc <= Steps(stack'[n]) + 2
        BY <2>3, StepsFew DEF Past
      <4> QED
        BY <1>0, <1>1, <2>1, <4>1 DEF Framed, n
    <3>2. \A x \in res' \ live' : \E j \in 1 .. n : stack'[j].obj = x /\ Past(stack'[j])
      <4> TAKE x \in res' \ live'
      <4>1. CASE x = o
        BY <1>1, <2>1, <2>3, <4>1
      <4>2. CASE x \in res \ live
        <5>1. PICK j \in 1 .. n : stack[j].obj = x /\ Past(stack[j])
          BY <1>0, <4>2 DEF Framed, n
        <5>2. j \in 1 .. n - 1
          BY <1>1, <1>2, <5>1
        <5> QED
          BY <1>1, <2>1, <5>1, <5>2
      <4> QED
        BY <1>1, <1>3, <4>1, <4>2
    <3> QED
      BY <2>1, <3>1, <3>2 DEF Framed, Past, Steps
  <2>5. OnceEach'
    <3> SUFFICES ASSUME NEW j \in 1 .. n, NEW k \in 1 .. n, Past(stack'[j])
                 PROVE  stack'[j].obj \in res' \ live' /\ (stack'[k] = stack'[j] => k = j)
      BY <2>1 DEF OnceEach, Past, Steps
    <3>1. \A i \in 1 .. n - 1 : Past(stack'[i]) => stack'[i].obj \in res \ live /\ stack'[i].obj # o
      BY <1>0, <1>1, <1>3, <2>1 DEF OnceEach, n
    <3>2. stack'[n].obj = o /\ o \in res /\ o \notin live'
      BY <1>0, <1>3, <2>1
    <3>3. stack'[j].obj \in res' \ live'
      BY <1>1, <1>3, <3>1, <3>2
    <3>4. ASSUME stack'[k] = stack'[j] PROVE k = j
      <4>1. CASE j = n
        BY <1>1, <3>1, <3>2, <3>4, <4>1
      <4>2. CASE j # n
        <5>1. j \in 1 .. n - 1 /\ k \in 1 .. n - 1
          BY <1>1, <3>1, <3>2, <3>4, <4>2
        <5> QED
          BY <1>0, <2>1, <3>4, <5>1 DEF OnceEach, n
      <4> QED
        BY <4>1, <4>2
    <3> QED
      BY <3>3, <3>4
  <2>6. live' \subseteq res' /\ DevicesPinned'
    BY <1>0, <1>1, <1>3 DEF DevicesPinned
  <2> QED
    BY <2>2, <2>4, <2>5, <2>6 DEF Inv
<1>4. CASE stack' = Caller /\ UNCHANGED live
  <2>1. /\ stack' \in Seq(Frame) /\ Len(stack') = n - 1
        /\ \A j \in 1 .. n - 1 : stack'[j] = stack[j]
    BY <1>0, <1>1, <1>4, ReturnStack
  <2> HIDE DEF n, o
  <2>2. TypeOK'
    BY <1>0, <1>1, <1>4, <2>1 DEF TypeOK, Frame
  <2>3. Framed'
    <3>1. \A j \in 1 .. n - 1 : stack'[j].pc <= Steps(stack'[j]) + 2
      BY <1>0, <1>1, <2>1 DEF Framed, n
    <3>2. \A x \in res \ live : \E j \in 1 .. n - 1 : stack'[j].obj = x /\ Past(stack'[j])
      <4> TAKE x \in res \ live
      <4>1. PICK j \in 1 .. n : stack[j].obj = x /\ Past(stack[j])
        BY <1>0 DEF Framed, n
      <4>2. j \in 1 .. n - 1
        BY <1>1, <1>2, <4>1
      <4> QED
        BY <2>1, <4>1, <4>2
    <3>3. res' = res /\ live' = live /\ Len(stack') = n - 1
      BY <1>1, <1>4, <2>1
    <3> QED
      BY <3>1, <3>2, <3>3 DEF Framed, Past, Steps
  <2>4. OnceEach'
    <3> SUFFICES ASSUME NEW j \in 1 .. n - 1, NEW k \in 1 .. n - 1, Past(stack'[j])
                 PROVE  stack'[j].obj \in res \ live /\ (stack'[k] = stack'[j] => k = j)
      BY <1>1, <1>4, <2>1 DEF OnceEach, Past, Steps
    <3> QED
      BY <1>0, <1>1, <2>1 DEF OnceEach, n
  <2> QED
    BY <1>0, <1>1, <1>4, <2>2, <2>3, <2>4 DEF Inv, DevicesPinned
<1> QED
  BY <1>3, <1>4 DEF FreeUserdata

LEMMA ReleaseInv ==
  ASSUME Inv, ReleaseResource
  PROVE  Inv'
<1> DEFINE o == Top.obj
           n == Len(stack)
<1>0. TypeOK /\ live \subseteq res /\ Framed /\ OnceEach /\ DevicesPinned
  BY DEF Inv
<1>1. /\ Running /\ Past(Top) /\ stack' = Caller /\ res' = res \ {o}
      /\ owned' = IF o \in Dev THEN [owned EXCEPT ![o] = @ - 1] ELSE owned
      /\ claimed' \subseteq claimed
      /\ number' = IF o \in Itf THEN [number EXCEPT ![o] = None] ELSE number
      /\ parent' = [parent EXCEPT ![o] = None]
      /\ UNCHANGED <<live, attached, closing>>
  BY DEF ReleaseResource, Releasing, Past, Steps, Unclaim
<1>2. /\ n \in Nat \ {0} /\ stack' \in Seq(Frame) /\ Len(stack') = n - 1
      /\ \A j \in 1 .. n : stack[j] \in Frame
      /\ \A j \in 1 .. n - 1 : stack'[j] = stack[j]
      /\ Top = stack[n] /\ o \in Obj
  BY <1>0, <1>1, ReturnStack, TopIs
<1> HIDE DEF n, o
<1>3. o \in res \ live
  BY <1>0, <1>1, <1>2 DEF OnceEach, n, o
<1>4. \A j \in 1 .. n - 1 : Past(stack[j]) => stack[j].obj # o
  <2> SUFFICES ASSUME NEW j \in 1 .. n - 1, Past(stack[j]), stack[j].obj = o
               PROVE  FALSE
    OBVIOUS
  <2>1. j \in 1 .. n /\ n \in 1 .. n /\ j # n
    BY <1>2
  <2>2. stack[j].obj = stack[n].obj /\ stack[j].pc = stack[n].pc
    BY <1>1, <1>2 DEF Past, Steps, o
  <2>3. stack[j] = stack[n]
    BY <1>2, <2>1, <2>2, SameFrame
  <2> QED
    BY <1>0, <2>1, <2>3 DEF OnceEach, n
<1>5. owned' \in [Dev -> 0 .. MaxRefs] /\ \A d \in Dev : d # o => owned'[d] = owned[d]
  <2>1. CASE o \in Dev
    <3>1. owned[o] \in 0 .. MaxRefs /\ owned[o] > 0
      BY <1>0, <1>3, <2>1 DEF TypeOK, DevicesPinned
    <3>2. owned[o] - 1 \in 0 .. MaxRefs
      BY <3>1, LifecycleAssumption
    <3> QED
      BY <1>0, <1>1, <2>1, <3>2 DEF TypeOK
  <2>2. CASE o \notin Dev
    BY <1>0, <1>1, <2>2 DEF TypeOK
  <2> QED
    BY <2>1, <2>2
<1>6. TypeOK'
  <2>1. parent' \in [Obj -> Obj \cup {Root, None}] /\ number' \in [Itf -> Num \cup {None}]
    BY <1>0, <1>1, <1>2 DEF TypeOK
  <2> QED
    BY <1>0, <1>1, <1>2, <1>5, <2>1 DEF TypeOK, Frame
<1>7. Framed'
  <2>1. \A j \in 1 .. n - 1 : stack'[j].pc <= Steps(stack'[j]) + 2
    BY <1>0, <1>2 DEF Framed, n
  <2>2. \A x \in res' \ live : \E j \in 1 .. n - 1 : stack'[j].obj = x /\ Past(stack'[j])
    <3> TAKE x \in res' \ live
    <3>1. PICK j \in 1 .. n : stack[j].obj = x /\ Past(stack[j])
      BY <1>0, <1>1 DEF Framed, n
    <3>2. j \in 1 .. n - 1
      BY <1>1, <1>2, <3>1 DEF o
    <3> QED
      BY <1>2, <3>1, <3>2
  <2> QED
    BY <1>1, <1>2, <2>1, <2>2 DEF Framed, Past, Steps
<1>8. OnceEach'
  <2> SUFFICES ASSUME NEW j \in 1 .. n - 1, NEW k \in 1 .. n - 1, Past(stack'[j])
               PROVE  stack'[j].obj \in res' \ live /\ (stack'[k] = stack'[j] => k = j)
    BY <1>1, <1>2 DEF OnceEach, Past, Steps
  <2>1. stack[j].obj # o
    BY <1>2, <1>4
  <2> QED
    BY <1>0, <1>1, <1>2, <2>1 DEF OnceEach, n
<1>9. live' \subseteq res' /\ DevicesPinned'
  BY <1>0, <1>1, <1>3, <1>5 DEF DevicesPinned
<1> QED
  BY <1>6, <1>7, <1>8, <1>9 DEF Inv

-----------------------------------------------------------------------------
(* Constructors.                                                           *)

\* The tree of objects: the parents are of the right types, and valid.
Linked ==
  /\ \A o \in res : parent[o] \in Parents(o) /\ (o \in Dev => parent[o] = CtxOf[o])
  /\ \A o \in res : parent[o] \in live \cup {Root}

\* New objects are under valid ones, or each other.
Planted(f) == \A o \in DOMAIN f : f[o] \in live \cup {Root} \cup DOMAIN f

\* The object in the domain of f is an interface that has been claimed.
Claims(f) ==
  \E h \in Hnd, i \in Itf, n \in Num :
    /\ DOMAIN f = {i} /\ f[i] = h
    /\ Reclaim \/ <<h, n>> \notin claimed
    /\ claimed' = claimed \cup {<<h, n>>}
    /\ number' = [number EXCEPT ![i] = n]
    /\ UNCHANGED closing

Makes(f) == Made(f) /\ (Linked => Planted(f)) /\ (Unclaimed(f) \/ Claims(f))

LEMMA RefsTaken ==
  ASSUME TypeOK, NEW n \in [Dev -> Nat], TakeRefs(n)
  PROVE  /\ owned' \in [Dev -> 0 .. MaxRefs]
         /\ \A d \in Dev : owned'[d] >= owned[d] /\ (n[d] > 0 => owned'[d] > 0)
<1>1. \A d \in Dev : owned[d] \in 0 .. MaxRefs /\ n[d] \in Nat
  BY DEF TypeOK
<1>2. owned' = [d \in Dev |-> owned[d] + n[d]] /\ \A d \in Dev : owned[d] + n[d] <= MaxRefs
  BY DEF TakeRefs
<1>3. MaxRefs \in Nat
  BY LifecycleAssumption
<1> QED
  BY <1>1, <1>2, <1>3

LEMMA SameRefs ==
  ASSUME TypeOK, UNCHANGED owned
  PROVE  owned' \in [Dev -> 0 .. MaxRefs] /\ \A d \in Dev : owned'[d] >= owned[d]
BY LifecycleAssumption DEF TypeOK

LEMMA NewRefIs == \A S : NewRef(S) \in [Dev -> Nat] /\ \A d \in Dev \cap S : NewRef(S)[d] > 0
BY DEF NewRef

\* One new object, with no more than its resource.
LEMMA AttachMakes ==
  ASSUME TypeOK, NEW o \in Obj \ (Dev \cup Itf), NEW p \in Parents(o), Attach(o, p)
  PROVE  \E f : Makes(f)
<1> DEFINE f == [x \in {o} |-> p]
<1>1. DOMAIN f = {o} /\ f[o] = p
  OBVIOUS
<1>2. /\ stack = <<>> /\ Create(f) /\ p \in live \cup {Root}
      /\ UNCHANGED <<stack, attached, owned, claimed, number, closing>>
  BY DEF Attach, ScriptActs
<1> HIDE DEF f
<1>3. Made(f)
  BY <1>1, <1>2, SameRefs DEF Made, Create
<1>4. Unclaimed(f) /\ Planted(f)
  BY <1>1, <1>2 DEF Unclaimed, Planted
<1> QED
  BY <1>3, <1>4 DEF Makes

LEMMA InitContextMakes ==
  ASSUME TypeOK, NEW c \in Ctx, InitContext(c)
  PROVE  \E f : Makes(f)
<1>1. c \in Obj \ (Dev \cup Itf) /\ Root \in Parents(c)
  BY TypesAssumption DEF Obj, Parents
<1>2. Attach(c, Root)
  BY DEF InitContext, Attach
<1> QED
  BY <1>1, <1>2, AttachMakes

LEMMA NewDeviceMakes ==
  ASSUME TypeOK, NEW d \in Dev, NewDevice(d), Linked => CtxOf[d] \in live
  PROVE  \E f : Makes(f)
<1> DEFINE f == [o \in {d} |-> CtxOf[d]]
<1>1. DOMAIN f = {d} /\ f[d] = CtxOf[d]
  OBVIOUS
<1>2. /\ stack = <<>> /\ Create(f) /\ TakeRefs(NewRef({d}))
      /\ UNCHANGED <<stack, attached, claimed, number, closing>>
  BY DEF NewDevice, ScriptActs
<1> HIDE DEF f
<1>3. CtxOf[d] \in Parents(d) /\ d \in Obj /\ d \notin Itf
  BY LifecycleAssumption, TypesAssumption DEF Parents, Obj
<1>4. /\ owned' \in [Dev -> 0 .. MaxRefs]
      /\ \A e \in Dev : owned'[e] >= owned[e] /\ (e \in {d} => owned'[e] > 0)
  BY <1>2, RefsTaken, NewRefIs
<1>5. Made(f)
  BY <1>1, <1>2, <1>3, <1>4 DEF Made, Create
<1>6. Unclaimed(f) /\ (Linked => Planted(f))
  BY <1>1, <1>2, <1>3 DEF Unclaimed, Planted
<1> QED
  BY <1>5, <1>6 DEF Makes

\* The context of a device with an object has one.
LEMMA ContextLive ==
  ASSUME Linked, live \subseteq res, NEW e \in Dev \cap live
  PROVE  CtxOf[e] \in live
<1>1. CtxOf[e] \in Ctx /\ parent[e] = CtxOf[e] /\ parent[e] \in live \cup {Root}
  BY LifecycleAssumption DEF Linked
<1> QED
  BY <1>1, TypesAssumption

LEMMA GetParentMakes ==
  ASSUME TypeOK, live \subseteq res, NEW e \in Dev, GetParent(e)
  PROVE  \E f : Makes(f)
<1>1. HubOf[e] \in Dev /\ CtxOf[HubOf[e]] = CtxOf[e] /\ e \in live /\ NewDevice(HubOf[e])
  BY LifecycleAssumption DEF GetParent
<1>2. Linked => CtxOf[HubOf[e]] \in live
  BY <1>1, ContextLive
<1> QED
  BY <1>1, <1>2, NewDeviceMakes

LEMMA HotplugEventMakes ==
  ASSUME TypeOK, live \subseteq res, NEW d \in Dev, NEW k \in Hpl, HotplugEvent(k, d)
  PROVE  \E f : Makes(f)
<1>1. k \in live /\ parent[k] = CtxOf[d] /\ NewDevice(d)
  BY DEF HotplugEvent
<1>2. CtxOf[d] # Root
  BY LifecycleAssumption, TypesAssumption
<1>3. Linked => CtxOf[d] \in live
  BY <1>1, <1>2 DEF Linked
<1> QED
  BY <1>1, <1>3, NewDeviceMakes

LEMMA GetDeviceListMakes ==
  ASSUME TypeOK, NEW c \in Ctx, GetDeviceList(c)
  PROVE  \E f : Makes(f)
<1> DEFINE list == {d \in attached : CtxOf[d] = c}
           known == list \cap live
<1>1. PICK new \in SUBSET (list \ known), dup \in SUBSET known :
        /\ Create([d \in new |-> c])
        /\ TakeRefs([d \in Dev |-> NewRef(list)[d] + NewRef(new \cup dup)[d]])
  BY DEF GetDeviceList
<1>2. stack = <<>> /\ c \in live /\ UNCHANGED <<stack, attached, claimed, number, closing>>
  BY DEF GetDeviceList, ScriptActs
<1> DEFINE f == [d \in new |-> c]
           n == [d \in Dev |-> NewRef(list)[d] + NewRef(new \cup dup)[d]]
<1>3. DOMAIN f = new /\ \A d \in new : f[d] = c
  OBVIOUS
<1>4. new \subseteq Dev /\ \A d \in new : CtxOf[d] = c
  BY DEF TypeOK
<1>5. n \in [Dev -> Nat] /\ \A d \in new : n[d] > 0
  <2>1. /\ NewRef(list) \in [Dev -> Nat]
        /\ NewRef(new \cup dup) \in [Dev -> Nat]
        /\ \A d \in Dev \cap (new \cup dup) : NewRef(new \cup dup)[d] > 0
    BY NewRefIs
  <2> HIDE DEF list, known
  <2> QED
    BY <1>4, <2>1
<1> HIDE DEF f, n, list, known
<1>6. Create(f) /\ TakeRefs(n)
  BY <1>1 DEF f, n
<1>7. /\ owned' \in [Dev -> 0 .. MaxRefs]
      /\ \A d \in Dev : owned'[d] >= owned[d] /\ (d \in new => owned'[d] > 0)
  BY <1>5, <1>6, RefsTaken
<1>8. new \subseteq Obj /\ new \cap Itf = {} /\ \A d \in new : c \in Parents(d)
  BY <1>4, TypesAssumption DEF Obj, Parents
<1>9. Made(f)
  BY <1>2, <1>3, <1>4, <1>6, <1>7, <1>8 DEF Made, Create
<1>10. Unclaimed(f) /\ Planted(f)
  BY <1>2, <1>3, <1>8 DEF Unclaimed, Planted
<1> QED
  BY <1>9, <1>10 DEF Makes

LEMMA OpenMakes ==
  ASSUME TypeOK, NEW d \in Dev, NEW h \in Hnd, Open(d, h)
  PROVE  \E f : Makes(f)
<1>1. h \in Obj \ (Dev \cup Itf) /\ d \in Parents(h)
  BY TypesAssumption DEF Obj, Parents
<1>2. Attach(h, d)
  BY DEF Open, Attach
<1> QED
  BY <1>1, <1>2, AttachMakes

LEMMA OpenDeviceMakes ==
  ASSUME TypeOK, NEW d \in Dev, NEW h \in Hnd, OpenDevice(d, h)
  PROVE  \E f : Makes(f)
<1> DEFINE new == {d} \ live
           f == [o \in new \cup {h} |-> IF o = h THEN d ELSE CtxOf[d]]
<1>1. /\ stack = <<>> /\ CtxOf[d] \in live /\ Create(f) /\ TakeRefs(NewRef(new))
      /\ UNCHANGED <<stack, attached, claimed, number, closing>>
  BY DEF OpenDevice, ScriptActs
<1>2. /\ h \in Obj /\ h \notin Dev \cup Itf /\ d \in Parents(h)
      /\ d \in Obj /\ d \notin Itf /\ CtxOf[d] \in Parents(d) /\ d # h
  BY LifecycleAssumption, TypesAssumption DEF Obj, Parents
<1>3. /\ DOMAIN f = new \cup {h} /\ f[h] = d
      /\ \A o \in new : o = d /\ f[o] = CtxOf[d]
  BY <1>2
<1>4. d \in live \cup new /\ new \subseteq {d}
  OBVIOUS
<1> HIDE DEF f, new
<1>5. /\ owned' \in [Dev -> 0 .. MaxRefs]
      /\ \A e \in Dev : owned'[e] >= owned[e] /\ (e \in new => owned'[e] > 0)
  BY <1>1, RefsTaken, NewRefIs
<1>6. Made(f)
  BY <1>1, <1>2, <1>3, <1>5 DEF Made, Create
<1>7. Unclaimed(f) /\ Planted(f)
  BY <1>1, <1>2, <1>3, <1>4 DEF Unclaimed, Planted
<1> QED
  BY <1>6, <1>7 DEF Makes

LEMMA ClaimInterfaceMakes ==
  ASSUME TypeOK, NEW h \in Hnd, NEW i \in Itf, NEW n \in Num, ClaimInterface(h, i, n)
  PROVE  \E f : Makes(f)
<1> DEFINE f == [o \in {i} |-> h]
<1>1. DOMAIN f = {i} /\ f[i] = h
  OBVIOUS
<1>2. /\ stack = <<>> /\ Create(f) /\ h \in live
      /\ Reclaim \/ <<h, n>> \notin claimed
      /\ claimed' = claimed \cup {<<h, n>>}
      /\ number' = [number EXCEPT ![i] = n]
      /\ UNCHANGED <<stack, attached, owned, closing>>
  BY DEF ClaimInterface, ScriptActs
<1> HIDE DEF f
<1>3. i \in Obj /\ i \notin Dev /\ h \in Parents(i)
  BY TypesAssumption DEF Obj, Parents
<1>4. Made(f)
  BY <1>1, <1>2, <1>3, SameRefs DEF Made, Create
<1>5. Claims(f) /\ Planted(f)
  BY <1>1, <1>2 DEF Claims, Planted
<1> QED
  BY <1>4, <1>5 DEF Makes

LEMMA ScriptMakes ==
  ASSUME TypeOK, live \subseteq res, Script
  PROVE  LuaClose \/ \E f : Makes(f)
<1>1. CASE \E c \in Ctx : InitContext(c) \/ GetDeviceList(c)
  BY <1>1, InitContextMakes, GetDeviceListMakes
<1>2. CASE \E d \in Dev : GetParent(d) \/ \E k \in Hpl : HotplugEvent(k, d)
  BY <1>2, GetParentMakes, HotplugEventMakes
<1>3. CASE \E d \in Dev, h \in Hnd : Open(d, h) \/ OpenDevice(d, h)
  BY <1>3, OpenMakes, OpenDeviceMakes
<1>4. CASE \E h \in Hnd, i \in Itf, n \in Num : ClaimInterface(h, i, n)
  BY <1>4, ClaimInterfaceMakes
<1>5. CASE \E h \in Hnd, x \in Xfr : NewTransfer(x, h)
  <2>1. PICK h \in Hnd, x \in Xfr : NewTransfer(x, h)
    BY <1>5
  <2>2. x \in Obj \ (Dev \cup Itf) /\ h \in Parents(x)
    BY TypesAssumption DEF Obj, Parents
  <2> QED
    BY <2>1, <2>2, AttachMakes DEF NewTransfer
<1>6. CASE \E c \in Ctx, k \in Hpl : HotplugRegister(k, c)
  <2>1. PICK c \in Ctx, k \in Hpl : HotplugRegister(k, c)
    BY <1>6
  <2>2. k \in Obj \ (Dev \cup Itf) /\ c \in Parents(k)
    BY TypesAssumption DEF Obj, Parents
  <2> QED
    BY <2>1, <2>2, AttachMakes DEF HotplugRegister
<1>7. CASE \E m \in Mem, p \in Hnd \cup {Root} : NewHostmem(m, p)
  <2>1. PICK m \in Mem, p \in Hnd \cup {Root} : NewHostmem(m, p)
    BY <1>7
  <2>2. m \in Obj \ (Dev \cup Itf) /\ p \in Parents(m)
    BY TypesAssumption DEF Obj, Parents
  <2> QED
    BY <2>1, <2>2, AttachMakes DEF NewHostmem
<1> QED
  BY <1>1, <1>2, <1>3, <1>4, <1>5, <1>6, <1>7 DEF Script

\* The claims of libusb after a constructor.
LEMMA ClaimsTyped ==
  ASSUME TypeOK, NEW f, Unclaimed(f) \/ Claims(f)
  PROVE  /\ claimed' \in SUBSET (Hnd \X Num) /\ number' \in [Itf -> Num \cup {None}]
         /\ UNCHANGED closing
<1>1. CASE Unclaimed(f)
  BY <1>1 DEF TypeOK, Unclaimed
<1>2. CASE Claims(f)
  <2>1. PICK h \in Hnd, i \in Itf, n \in Num :
          /\ claimed' = claimed \cup {<<h, n>>} /\ number' = [number EXCEPT ![i] = n]
          /\ UNCHANGED closing
    BY <1>2 DEF Claims
  <2>2. claimed \in SUBSET (Hnd \X Num) /\ number \in [Itf -> Num \cup {None}]
    BY DEF TypeOK
  <2>3. number' \in [Itf -> Num \cup {None}]
    BY <2>1, <2>2
  <2>4. <<h, n>> \in Hnd \X Num
    OBVIOUS
  <2> QED
    BY <2>1, <2>2, <2>3, <2>4
<1> QED
  BY <1>1, <1>2

-----------------------------------------------------------------------------
(* The invariant of all programs.                                          *)

LEMMA InitInv == Init => Inv
<1> SUFFICES ASSUME Init PROVE Inv
  OBVIOUS
<1>1. TypeOK
  <2>1. owned \in [Dev -> 0 .. MaxRefs]
    BY LifecycleAssumption DEF Init
  <2>2. stack \in Seq([obj : Obj, pc : 1 .. 5])
    BY DEF Init
  <2>3. parent \in [Obj -> Obj \cup {Root, None}] /\ number \in [Itf -> Num \cup {None}]
    BY DEF Init
  <2> QED
    BY <2>1, <2>2, <2>3 DEF Init, TypeOK
<1>2. stack = <<>> /\ Len(stack) = 0 /\ live = {} /\ res = {}
  BY DEF Init
<1> QED
  BY <1>1, <1>2 DEF Inv, Framed, OnceEach, DevicesPinned

\* What the steps of the program's environment leave alone.
Resting == UNCHANGED <<live, parent, stack, res, owned, claimed, number>>

LEMMA RestingInv ==
  ASSUME Inv, Resting, attached' \in SUBSET Dev, closing' \in BOOLEAN
  PROVE  Inv'
BY DEF Resting, Inv, TypeOK, Framed, OnceEach, DevicesPinned, Past, Steps

LEMMA Rests ==
  ASSUME TypeOK, LuaClose \/ (\E d \in Dev : Plug(d) \/ Unplug(d)) \/ UNCHANGED vars
  PROVE  Resting /\ attached' \in SUBSET Dev /\ closing' \in BOOLEAN
BY DEF Resting, LuaClose, Plug, Unplug, vars, TypeOK

\* The actions, by what they do to the objects: create some, start a destructor,
\* go on with one, or nothing.
LEMMA StepCases ==
  ASSUME TypeOK, live \subseteq res, [Next]_vars
  PROVE  \/ \E f : Makes(f)
         \/ \E o \in Obj : Destroy(o) \/ FreeChild(o)
         \/ EndScan \/ FreeUserdata \/ ReleaseResource
         \/ Resting /\ attached' \in SUBSET Dev /\ closing' \in BOOLEAN
<1>1. CASE Script
  BY <1>1, ScriptMakes, Rests
<1>2. CASE (\E d \in Dev : Plug(d) \/ Unplug(d)) \/ UNCHANGED vars
  BY <1>2, Rests
<1>3. CASE (\E o \in Obj : Destroy(o)) \/ Destructor
  BY <1>3 DEF Destructor
<1> QED
  BY <1>1, <1>2, <1>3 DEF Next

LEMMA StepInv == Inv /\ [Next]_vars => Inv'
<1> SUFFICES ASSUME Inv, [Next]_vars PROVE Inv'
  OBVIOUS
<1>0. TypeOK /\ live \subseteq res
  BY DEF Inv
<1>1. CASE \E f : Makes(f)
  <2>1. PICK f : Makes(f)
    BY <1>1
  <2>2. Made(f) /\ (Unclaimed(f) \/ Claims(f))
    BY <2>1 DEF Makes
  <2> QED
    BY <1>0, <2>2, ClaimsTyped, MadeInv
<1>2. CASE \E o \in Obj : Destroy(o) \/ FreeChild(o)
  <2>1. PICK o \in Obj : Destroy(o) \/ FreeChild(o)
    BY <1>2
  <2>2. /\ o \in live /\ Call(o)
        /\ UNCHANGED <<live, parent, res, attached, owned, claimed, number, closing>>
    BY <2>1 DEF Destroy, FreeChild
  <2> QED
    BY <2>2, CallInv
<1>3. CASE EndScan
  BY <1>3, EndScanInv
<1>4. CASE FreeUserdata
  BY <1>4, FreeUserdataInv
<1>5. CASE ReleaseResource
  BY <1>5, ReleaseInv
<1>6. CASE Resting /\ attached' \in SUBSET Dev /\ closing' \in BOOLEAN
  BY <1>6, RestingInv
<1> QED
  BY <1>0, <1>1, <1>2, <1>3, <1>4, <1>5, <1>6, StepCases

\* Whatever the script and its log callbacks do, an object that is not valid any
\* more and has its resource is being released, by one call.
THEOREM Invariance == Spec => []Inv
<1>1. Init => Inv
  BY InitInv
<1>2. Inv /\ [Next]_vars => Inv'
  BY StepInv
<1> QED
  BY <1>1, <1>2, PTL DEF Spec

\* No sequence of constructors and nested destructors releases a libusb resource
\* twice (freeuserdata in udata.c and the destructors that call it).
THEOREM ReleasedOnceHolds == Spec => []ReleasedOnce
<1>1. Inv => ReleasedOnce
  <2> SUFFICES ASSUME Inv PROVE ReleasedOnce
    OBVIOUS
  <2>1. stack \in Seq(Frame) /\ OnceEach
    BY DEF Inv, TypeOK, Frame
  <2>2. DOMAIN stack = 1 .. Len(stack)
    BY <2>1
  <2> QED
    BY <2>1, <2>2 DEF ReleasedOnce, OnceEach, Past, Steps
<1> QED
  BY <1>1, Invariance, PTL

\* Every device that has an object, or whose object is being released, is held by
\* a reference that newdevice took (device.c).
THEOREM DevicesPinnedHolds == Spec => []DevicesPinned
<1>1. Inv => DevicesPinned
  BY DEF Inv
<1> QED
  BY <1>1, Invariance, PTL
-----------------------------------------------------------------------------
(* The claims of libusb.                                                   *)

Claim(i) == <<parent[i], number[i]>>

\* Every valid interface object stands for a claim, every claim is some object's,
\* and, while the script claims no number twice, of no other object.
ClaimsApart ==
  /\ \A i \in Itf \cap live : Claim(i) \in claimed
  /\ \A c \in claimed : \E i \in Itf \cap res : c = Claim(i)
  /\ \A i, j \in Itf \cap res : Claim(i) = Claim(j) => i = j

LEMMA IdleAll ==
  ASSUME Inv, stack = <<>>
  PROVE  res = live
<1>1. Framed /\ live \subseteq res /\ Len(stack) = 0
  BY DEF Inv
<1> QED
  BY <1>1 DEF Framed

\* Objects that are no interfaces leave the claims as they are.
LEMMA OtherClaims ==
  ASSUME ClaimsApart, UNCHANGED claimed,
         Itf \cap live' \subseteq Itf \cap live, Itf \cap res' = Itf \cap res,
         \A i \in Itf \cap res : parent'[i] = parent[i] /\ number'[i] = number[i]
  PROVE  live \subseteq res => ClaimsApart'
<1> SUFFICES ASSUME live \subseteq res PROVE ClaimsApart'
  OBVIOUS
<1>1. \A i \in Itf \cap res : <<parent'[i], number'[i]>> = Claim(i)
  BY DEF Claim
<1> QED
  BY <1>1 DEF ClaimsApart, Claim

LEMMA ClaimsMade ==
  ASSUME Inv, ClaimsApart, ~ Reclaim, NEW f, Made(f), Claims(f)
  PROVE  ClaimsApart'
<1>1. PICK h \in Hnd, i \in Itf, n \in Num :
        /\ DOMAIN f = {i} /\ f[i] = h /\ <<h, n>> \notin claimed
        /\ claimed' = claimed \cup {<<h, n>>} /\ number' = [number EXCEPT ![i] = n]
  BY DEF Claims
<1>2. /\ live' = live \cup {i} /\ res' = res \cup {i} /\ i \notin res /\ res = live
      /\ live \subseteq Obj
      /\ parent' = [o \in Obj |-> IF o \in {i} THEN h ELSE parent[o]]
      /\ number \in [Itf -> Num \cup {None}]
  BY <1>1, IdleAll DEF Made, Inv, TypeOK
<1>3. i \in Obj
  BY DEF Obj
<1>4. <<parent'[i], number'[i]>> = <<h, n>>
  BY <1>1, <1>2, <1>3
<1>5. \A j \in Itf \cap res : <<parent'[j], number'[j]>> = Claim(j)
  BY <1>1, <1>2 DEF Claim
<1>6. \A j \in Itf \cap res : Claim(j) # <<h, n>>
  BY <1>1, <1>2 DEF ClaimsApart
<1>7. \A j \in Itf \cap live' : <<parent'[j], number'[j]>> \in claimed'
  BY <1>1, <1>2, <1>4, <1>5 DEF ClaimsApart
<1>8. ASSUME NEW c \in claimed'
      PROVE  \E j \in Itf \cap res' : c = <<parent'[j], number'[j]>>
  <2>1. CASE c = <<h, n>>
    BY <1>2, <1>4, <2>1
  <2>2. CASE c \in claimed
    <3>1. PICK j \in Itf \cap res : c = Claim(j)
      BY <2>2 DEF ClaimsApart
    <3> QED
      BY <1>2, <1>5, <3>1
  <2> QED
    BY <1>1, <2>1, <2>2
<1>9. \A j, k \in Itf \cap res' :
        <<parent'[j], number'[j]>> = <<parent'[k], number'[k]>> => j = k
  BY <1>2, <1>4, <1>5, <1>6 DEF ClaimsApart
<1> QED
  BY <1>7, <1>8, <1>9 DEF ClaimsApart, Claim

LEMMA ClaimsReleased ==
  ASSUME Inv, ClaimsApart, ReleaseResource
  PROVE  ClaimsApart'
<1> DEFINE o == Top.obj
<1>0. /\ TypeOK /\ live \subseteq res /\ o \in Obj /\ o \in res \ live
      /\ res' = res \ {o} /\ live' = live
      /\ claimed' = IF o \in Itf THEN claimed \ {Claim(o)} ELSE claimed
      /\ number' = IF o \in Itf THEN [number EXCEPT ![o] = None] ELSE number
      /\ parent' = [parent EXCEPT ![o] = None]
  <2>1. TypeOK /\ live \subseteq res /\ OnceEach /\ Running /\ Past(Top)
    BY DEF Inv, ReleaseResource, Releasing, Past, Steps
  <2>2. Len(stack) \in 1 .. Len(stack) /\ Top = stack[Len(stack)] /\ o \in Obj
    BY <2>1, TopIs
  <2>3. o \in res \ live
    BY <2>1, <2>2 DEF OnceEach
  <2> QED
    BY <2>1, <2>2, <2>3 DEF ReleaseResource, Unclaim, Claim
<1> HIDE DEF o
<1>1. \A i \in Itf \cap res' : <<parent'[i], number'[i]>> = Claim(i)
  BY <1>0 DEF TypeOK, Claim
<1>2. CASE o \notin Itf
  BY <1>0, <1>1, <1>2 DEF ClaimsApart, Claim
<1>3. CASE o \in Itf
  <2>1. \A i \in Itf \cap live : Claim(i) \in claimed' /\ i \in res'
    BY <1>0, <1>3 DEF ClaimsApart
  <2>2. \A c \in claimed' : \E i \in Itf \cap res' : c = Claim(i)
    BY <1>0, <1>3 DEF ClaimsApart
  <2>3. \A i, j \in Itf \cap res' : Claim(i) = Claim(j) => i = j
    BY <1>0 DEF ClaimsApart
  <2>4. \A i \in Itf \cap live' : <<parent'[i], number'[i]>> \in claimed'
    BY <1>0, <1>1, <2>1
  <2>5. \A c \in claimed' : \E i \in Itf \cap res' : c = <<parent'[i], number'[i]>>
    BY <1>1, <2>2
  <2>6. \A i, j \in Itf \cap res' :
          <<parent'[i], number'[i]>> = <<parent'[j], number'[j]>> => i = j
    BY <1>1, <2>3
  <2> QED
    BY <2>4, <2>5, <2>6 DEF ClaimsApart, Claim
<1> QED
  BY <1>2, <1>3

LEMMA ClaimsStep ==
  ASSUME ~ Reclaim
  PROVE  Inv /\ ClaimsApart /\ [Next]_vars => ClaimsApart'
<1> SUFFICES ASSUME Inv, ClaimsApart, [Next]_vars PROVE ClaimsApart'
  OBVIOUS
<1>0. TypeOK /\ live \subseteq res
  BY DEF Inv
<1>1. CASE \E f : Makes(f)
  <2>1. PICK f : Makes(f)
    BY <1>1
  <2>2. CASE Claims(f)
    BY <2>1, <2>2, ClaimsMade DEF Makes
  <2>3. CASE Unclaimed(f)
    <3>1. /\ Itf \cap live' \subseteq Itf \cap live /\ Itf \cap res' = Itf \cap res
          /\ UNCHANGED <<claimed, number>>
      BY <2>1, <2>3 DEF Makes, Made, Unclaimed
    <3>2. \A i \in Itf \cap res : parent'[i] = parent[i]
      BY <1>0, <2>1, <2>3 DEF Makes, Made, Unclaimed, TypeOK
    <3> QED
      BY <1>0, <3>1, <3>2, OtherClaims
  <2> QED
    BY <2>1, <2>2, <2>3 DEF Makes
<1>2. CASE \E o \in Obj : Destroy(o) \/ FreeChild(o)
  <2>1. UNCHANGED <<live, parent, res, claimed, number>>
    BY <1>2 DEF Destroy, FreeChild
  <2> QED
    BY <1>0, <2>1, OtherClaims
<1>3. CASE EndScan
  BY <1>0, <1>3, OtherClaims DEF EndScan
<1>4. CASE FreeUserdata
  BY <1>0, <1>4, OtherClaims DEF FreeUserdata
<1>5. CASE ReleaseResource
  BY <1>5, ClaimsReleased
<1>6. CASE Resting
  BY <1>0, <1>6, OtherClaims DEF Resting
<1> QED
  BY <1>0, <1>1, <1>2, <1>3, <1>4, <1>5, <1>6, StepCases

\* As long as the script claims no interface number of a handle twice, libusb has an
\* interface claimed exactly as long as an object stands for it (claim_interface
\* and freeinterface in interface.c), whatever the log callbacks destroy.
THEOREM ClaimsMatchHolds ==
  ASSUME ~ Reclaim
  PROVE  Spec => []ClaimsMatch
<1>1. Init => ClaimsApart
  BY DEF Init, ClaimsApart
<1>2. Inv /\ ClaimsApart /\ [Next]_vars => ClaimsApart'
  BY ClaimsStep
<1>3. ClaimsApart => ClaimsMatch
  BY DEF ClaimsApart, ClaimsMatch, Claim
<1> QED
  BY <1>1, <1>2, <1>3, Invariance, PTL DEF Spec
-----------------------------------------------------------------------------
(* Programs whose log callbacks destroy nothing: destructors nest.         *)

\* How far an object is from the root.
Rank(o) == IF o \in Ctx THEN 0 ELSE IF o \in Dev \cup Hpl THEN 1 ELSE IF o \in Hnd THEN 2 ELSE 3

\* The frames go down the tree: an object is valid until its freeuserdata, and only
\* the innermost frame is past its scans.
Nested ==
  /\ \A j \in 1 .. Len(stack) : stack[j].pc <= Steps(stack[j]) + 1 => stack[j].obj \in live
  /\ \A j \in 1 .. Len(stack) - 1 : stack[j].pc <= Steps(stack[j])
  /\ \A j, k \in 1 .. Len(stack) : j < k => Rank(stack[j].obj) < Rank(stack[k].obj)

\* The scans that a frame has behind it have left no child.
Scanned ==
  \A j \in 1 .. Len(stack), x \in live :
    \A k \in 1 .. Steps(stack[j]) :
      k < stack[j].pc /\ x \in Scans(stack[j].obj)[k] => parent[x] # stack[j].obj

\* All frames are about the subtree of the first one.
Under ==
  \A x \in live, j \in 1 .. Len(stack) :
    stack[j].obj \in Above(parent, x) => stack[1].obj \in Above(parent, x)

QuietInv == Inv /\ Linked /\ Nested /\ Scanned /\ Under

\* In a tree p of the objects in S: what is above an object is in the tree, and
\* depends on the tree only.
LEMMA ParentIs ==
  ASSUME NEW S \in SUBSET Obj, NEW p,
         \A y \in S : p[y] \in Parents(y) /\ p[y] \in S \cup {Root},
         NEW x \in S
  PROVE  \/ p[x] = Root
         \/ p[x] \in S /\ Rank(p[x]) < Rank(x) /\ Rank(x) \in 0 .. 3
<1>1. x \in Obj /\ p[x] \in Parents(x) /\ p[x] \in S \cup {Root}
  OBVIOUS
<1>2. Rank(x) \in 0 .. 3
  BY DEF Rank
<1>3. ASSUME p[x] # Root PROVE Rank(p[x]) < Rank(x)
  <2>1. CASE x \in Dev \cup Hpl
    BY <1>1, <1>3, <2>1, TypesAssumption DEF Parents, Rank
  <2>2. CASE x \in Hnd
    BY <1>1, <1>3, <2>2, TypesAssumption DEF Parents, Rank
  <2>3. CASE x \in Itf \cup Xfr \cup Mem
    BY <1>1, <1>3, <2>3, TypesAssumption DEF Parents, Rank
  <2>4. CASE x \in Ctx
    BY <1>1, <1>3, <2>4, TypesAssumption DEF Parents
  <2> QED
    BY <1>1, <2>1, <2>2, <2>3, <2>4 DEF Obj
<1> QED
  BY <1>1, <1>2, <1>3

LEMMA AboveIs ==
  ASSUME NEW S \in SUBSET Obj, NEW p,
         \A y \in S : p[y] \in Parents(y) /\ p[y] \in S \cup {Root},
         NEW x \in S
  PROVE  /\ x \in Above(p, x) /\ Above(p, x) \subseteq S \cup {Root}
         /\ \A y \in Above(p, x) \cap S : p[y] \in Above(p, x) \cup {Root}
<1> DEFINE Up(y) == IF y \in Obj THEN p[y] ELSE y
           a == Up(x)
           b == Up(a)
           c == Up(b)
<1>1. Above(p, x) = {x, a, b, c}
  BY DEF Above
<1>2. Root \notin Obj
  BY TypesAssumption DEF Obj
<1>3. ASSUME NEW y \in S \cup {Root}
      PROVE  \/ Up(y) = Root
             \/ y \in S /\ Up(y) \in S /\ Rank(Up(y)) < Rank(y)
  BY <1>2, ParentIs
<1>4. \A y \in S : Rank(y) \in 0 .. 3 /\ Up(y) = p[y]
  BY DEF Rank
<1> HIDE DEF Up
<1>5. /\ a = Root \/ (a \in S /\ Rank(a) < Rank(x))
      /\ b = Root \/ (a \in S /\ b \in S /\ Rank(b) < Rank(a))
      /\ c = Root \/ (b \in S /\ c \in S /\ Rank(c) < Rank(b))
  BY <1>3
<1> HIDE DEF a, b, c
<1>6. c \in S => Rank(c) = 0
  BY <1>2, <1>4, <1>5
<1>7. c \in S => Up(c) = Root
  BY <1>3, <1>4, <1>6
<1>8. Up(x) = a /\ Up(a) = b /\ Up(b) = c
  BY DEF a, b, c
<1>9. \A y \in {x, a, b, c} \cap S : p[y] \in {x, a, b, c} \cup {Root}
  BY <1>4, <1>7, <1>8
<1> QED
  BY <1>1, <1>5, <1>9

LEMMA AboveSame ==
  ASSUME NEW S \in SUBSET Obj, NEW p, NEW q,
         \A y \in S : p[y] \in Parents(y) /\ p[y] \in S \cup {Root} /\ q[y] = p[y],
         NEW x \in S
  PROVE  Above(q, x) = Above(p, x)
<1> DEFINE Up(y) == IF y \in Obj THEN p[y] ELSE y
           Uq(y) == IF y \in Obj THEN q[y] ELSE y
<1>1. Root \notin Obj
  BY TypesAssumption DEF Obj
<1>2. \A y \in S \cup {Root} : Uq(y) = Up(y) /\ Up(y) \in S \cup {Root}
  BY <1>1
<1>3. Above(p, x) = {x, Up(x), Up(Up(x)), Up(Up(Up(x)))}
  BY DEF Above
<1>4. Above(q, x) = {x, Uq(x), Uq(Uq(x)), Uq(Uq(Uq(x)))}
  BY DEF Above
<1> HIDE DEF Up, Uq
<1> QED
  BY <1>2, <1>3, <1>4

\* The children of an object are of types it scans for.
LEMMA ChildScanned ==
  ASSUME NEW x \in Obj, NEW o \in Obj, o \in Parents(x)
  PROVE  \E k \in 1 .. Len(Scans(o)) : x \in Scans(o)[k]
<1>1. o # Root
  BY TypesAssumption DEF Obj
<1>2. CASE o \in Ctx
  <2>1. Scans(o) = <<Hpl, Dev>>
    BY <1>2 DEF Scans
  <2>2. x \in Dev \cup Hpl
    BY <1>1, <1>2, TypesAssumption DEF Parents
  <2> QED
    BY <2>1, <2>2
<1>3. CASE o \in Dev
  <2>1. Scans(o) = <<Hnd>>
    BY <1>3, TypesAssumption DEF Scans
  <2>2. x \in Hnd
    BY <1>1, <1>3, TypesAssumption DEF Parents
  <2> QED
    BY <2>1, <2>2
<1>4. CASE o \in Hnd
  <2>1. Scans(o) = <<Mem, Xfr, Itf>>
    BY <1>4, TypesAssumption DEF Scans
  <2>2. x \in Itf \cup Xfr \cup Mem
    BY <1>1, <1>4, TypesAssumption DEF Parents
  <2> QED
    BY <2>1, <2>2
<1> QED
  BY <1>1, <1>2, <1>3, <1>4 DEF Parents
\* The tree of the valid objects.
LEMMA LiveTree ==
  ASSUME TypeOK, live \subseteq res, Linked
  PROVE  /\ live \in SUBSET Obj
         /\ \A x \in live : parent[x] \in Parents(x) /\ parent[x] \in live \cup {Root}
BY DEF TypeOK, Linked

LEMMA EmptyStack ==
  ASSUME stack' = <<>>
  PROVE  Nested' /\ Scanned' /\ Under'
<1>1. Len(stack') = 0
  OBVIOUS
<1> QED
  BY <1>1 DEF Nested, Scanned, Under

LEMMA LinkedMade ==
  ASSUME Inv, Linked, NEW f, Made(f), Planted(f)
  PROVE  Linked'
<1>1. /\ live' = live \cup DOMAIN f /\ res' = res \cup DOMAIN f
      /\ DOMAIN f \subseteq Obj /\ DOMAIN f \cap res = {} /\ res \subseteq Obj
      /\ parent' = [o \in Obj |-> IF o \in DOMAIN f THEN f[o] ELSE parent[o]]
  BY DEF Made, Inv, TypeOK
<1>2. \A o \in DOMAIN f : parent'[o] = f[o]
  BY <1>1
<1>3. \A o \in res : parent'[o] = parent[o]
  BY <1>1
<1>4. \A o \in res' : parent'[o] \in Parents(o) /\ (o \in Dev => parent'[o] = CtxOf[o])
  BY <1>1, <1>2, <1>3 DEF Linked, Made
<1>5. \A o \in res' : parent'[o] \in live' \cup {Root}
  BY <1>1, <1>2, <1>3 DEF Linked, Planted
<1> QED
  BY <1>4, <1>5 DEF Linked

\* A call on an object whose parent is the one of the innermost frame.
LEMMA CallQuiet ==
  ASSUME QuietInv, NEW o \in live, Call(o),
         UNCHANGED <<live, parent, res>>,
         stack = <<>> \/ (Running /\ Top.pc <= Steps(Top) /\ parent[o] = Top.obj)
  PROVE  Linked' /\ Nested' /\ Scanned' /\ Under'
<1>0. TypeOK /\ live \subseteq res /\ Linked /\ Nested /\ Scanned /\ Under
  BY DEF QuietInv, Inv
<1>1. o \in Obj
  BY <1>0 DEF TypeOK
<1> DEFINE n == Len(stack)
<1>2. /\ stack' \in Seq(Frame) /\ n \in Nat /\ Len(stack') = n + 1
      /\ \A j \in 1 .. n : stack'[j] = stack[j] /\ stack[j] \in Frame
      /\ stack'[n + 1].obj = o /\ stack'[n + 1].pc = 1
  BY <1>0, <1>1, CallStack
<1>3. n # 0 => Running /\ Top = stack[n] /\ Top.obj \in Obj
               /\ Top.pc <= Steps(Top) /\ parent[o] = Top.obj
  BY <1>0, TopIs
<1> HIDE DEF n
<1>4. Rank(o) \in 0 .. 3 /\ \A x : Rank(x) \in 0 .. 3
  BY DEF Rank
<1>5. Linked'
  BY <1>0 DEF Linked
<1>6. Nested'
  <2>1. \A j \in 1 .. n + 1 : stack'[j].pc <= Steps(stack'[j]) + 1 => stack'[j].obj \in live
    BY <1>0, <1>2 DEF Nested, n
  <2>2. \A j \in 1 .. n : stack'[j].pc <= Steps(stack'[j])
    BY <1>0, <1>2, <1>3 DEF Nested, n
  <2>3. n # 0 => Rank(stack[n].obj) < Rank(o)
    <3> SUFFICES ASSUME n # 0 PROVE Rank(parent[o]) < Rank(o)
      BY <1>3
    <3>1. parent[o] # Root
      BY <1>3, TypesAssumption DEF Obj
    <3> QED
      BY <1>0, <3>1, LiveTree, ParentIs
  <2>4. \A j \in 1 .. n : Rank(stack[j].obj) < Rank(o)
    <3> TAKE j \in 1 .. n
    <3>1. j = n \/ Rank(stack[j].obj) < Rank(stack[n].obj)
      BY <1>0, <1>2 DEF Nested, n
    <3> QED
      BY <1>2, <1>4, <2>3, <3>1
  <2>5. \A j, k \in 1 .. n + 1 : j < k => Rank(stack'[j].obj) < Rank(stack'[k].obj)
    <3> SUFFICES ASSUME NEW j \in 1 .. n + 1, NEW k \in 1 .. n + 1, j < k
                 PROVE  Rank(stack'[j].obj) < Rank(stack'[k].obj)
      OBVIOUS
    <3>1. j \in 1 .. n /\ stack'[j] = stack[j]
      BY <1>2
    <3>2. CASE k = n + 1
      BY <1>2, <2>4, <3>1, <3>2
    <3>3. CASE k \in 1 .. n
      BY <1>0, <1>2, <3>1, <3>3 DEF Nested, n
    <3> QED
      BY <1>2, <3>2, <3>3
  <2>6. Len(stack') - 1 = n /\ live' = live
    BY <1>2
  <2> QED
    BY <1>2, <2>1, <2>2, <2>5, <2>6 DEF Nested, Steps
<1>7. Scanned'
  <2> SUFFICES ASSUME NEW j \in 1 .. n + 1, NEW x \in live, NEW k \in 1 .. Steps(stack'[j]),
                      k < stack'[j].pc, x \in Scans(stack'[j].obj)[k]
               PROVE  parent[x] # stack'[j].obj
    BY <1>2 DEF Scanned, Steps
  <2>1. j \in 1 .. n
    BY <1>2, StepsFew
  <2> QED
    BY <1>0, <1>2, <2>1 DEF Scanned, n
<1>8. Under'
  <2> SUFFICES ASSUME NEW x \in live, NEW j \in 1 .. n + 1, stack'[j].obj \in Above(parent, x)
               PROVE  stack'[1].obj \in Above(parent, x)
    BY <1>2 DEF Under
  <2>1. CASE n = 0
    BY <1>2, <2>1
  <2>2. CASE n # 0 /\ j \in 1 .. n
    BY <1>0, <1>2, <2>2 DEF Under, n
  <2>3. CASE n # 0 /\ j = n + 1
    <3>1. parent[o] \in Above(parent, x) \cup {Root}
      BY <1>0, <1>2, <2>3, LiveTree, AboveIs
    <3>2. parent[o] = stack[n].obj /\ parent[o] # Root
      BY <1>3, <2>3, TypesAssumption DEF Obj
    <3>3. n \in 1 .. n /\ 1 \in 1 .. n
      BY <1>2, <2>3
    <3> QED
      BY <1>0, <1>2, <3>1, <3>2, <3>3 DEF Under, n
  <2> QED
    BY <1>2, <2>1, <2>2, <2>3
<1> QED
  BY <1>5, <1>6, <1>7, <1>8

LEMMA EndScanQuiet ==
  ASSUME QuietInv, EndScan
  PROVE  Linked' /\ Nested' /\ Scanned' /\ Under'
<1>0. TypeOK /\ live \subseteq res /\ Linked /\ Nested /\ Scanned /\ Under
  BY DEF QuietInv, Inv
<1>1. /\ Running /\ Top.pc <= Steps(Top) /\ Goto(Top.pc + 1)
      /\ \A x \in live \cap Scans(Top.obj)[Top.pc] : parent[x] # Top.obj
      /\ UNCHANGED <<live, parent, res>>
  BY DEF EndScan, Scanning, Steps
<1>2. Top.pc \in 1 .. 3 /\ Top.pc + 1 \in 1 .. 5
  BY <1>0, <1>1, StepsFew, TopIs
<1> DEFINE n == Len(stack)
<1>3. /\ stack' \in Seq(Frame) /\ n \in Nat \ {0} /\ Len(stack') = n
      /\ \A j \in 1 .. n - 1 : stack'[j] = stack[j]
      /\ stack'[n].obj = Top.obj /\ stack'[n].pc = Top.pc + 1 /\ Top = stack[n]
  BY <1>0, <1>1, <1>2, GotoStack, TopIs
<1> HIDE DEF n
<1>4. Steps(stack'[n]) = Steps(Top) /\ Steps(Top) \in 0 .. 3
  BY <1>3, StepsFew DEF Steps
<1>5. \A j \in 1 .. n : stack'[j].obj = stack[j].obj
  BY <1>3
<1>6. Linked'
  BY <1>0, <1>1 DEF Linked
<1>7. Nested'
  <2>1. Top.obj \in live
    BY <1>0, <1>1, <1>2, <1>3, <1>4 DEF Nested, n
  <2>2. \A j \in 1 .. n : stack'[j].pc <= Steps(stack'[j]) + 1 => stack'[j].obj \in live
    BY <1>0, <1>3, <2>1 DEF Nested, n
  <2>3. \A j \in 1 .. n - 1 : stack'[j].pc <= Steps(stack'[j])
    BY <1>0, <1>3 DEF Nested, n
  <2>4. \A j, k \in 1 .. n : j < k => Rank(stack'[j].obj) < Rank(stack'[k].obj)
    BY <1>0, <1>5 DEF Nested, n
  <2> QED
    BY <1>1, <1>3, <2>2, <2>3, <2>4 DEF Nested, Steps
<1>8. Scanned'
  <2> SUFFICES ASSUME NEW j \in 1 .. n, NEW x \in live, NEW k \in 1 .. Steps(stack'[j]),
                      k < stack'[j].pc, x \in Scans(stack'[j].obj)[k]
               PROVE  parent[x] # stack'[j].obj
    BY <1>1, <1>3 DEF Scanned, Steps
  <2>1. CASE j \in 1 .. n - 1
    BY <1>0, <1>3, <2>1 DEF Scanned, n
  <2>2. CASE j = n /\ k < Top.pc
    BY <1>0, <1>3, <1>4, <2>2 DEF Scanned, n
  <2>3. CASE j = n /\ k = Top.pc
    BY <1>1, <1>3, <2>3
  <2> QED
    BY <1>2, <1>3, <1>4, <2>1, <2>2, <2>3
<1>9. Under'
  <2> SUFFICES ASSUME NEW x \in live, NEW j \in 1 .. n, stack'[j].obj \in Above(parent, x)
               PROVE  stack'[1].obj \in Above(parent, x)
    BY <1>1, <1>3 DEF Under
  <2>1. 1 \in 1 .. n
    BY <1>3
  <2> QED
    BY <1>0, <1>5, <2>1 DEF Under, n
<1> QED
  BY <1>6, <1>7, <1>8, <1>9
\* An object whose scans are done has no child left, so that it goes first and its
\* resource next.
LEMMA Childless ==
  ASSUME QuietInv, Freeing, NEW x \in res
  PROVE  Top.obj \in live /\ parent[x] # Top.obj
<1> DEFINE n == Len(stack)
<1>0. TypeOK /\ live \subseteq res /\ Framed /\ Linked /\ Nested /\ Scanned
  BY DEF QuietInv, Inv
<1>1. /\ n \in 1 .. n /\ n \in Nat /\ Top = stack[n] /\ Top.pc = Steps(Top) + 1
      /\ Steps(Top) \in 0 .. 3 /\ Top.obj \in Obj
  BY <1>0, StepsFew, TopIs DEF Freeing, Steps
<1>2. Top.obj \in live
  BY <1>0, <1>1 DEF Nested
<1>3. x \in live
  <2> SUFFICES ASSUME x \notin live PROVE FALSE
    OBVIOUS
  <2>1. PICK j \in 1 .. n : Past(stack[j])
    BY <1>0 DEF Framed
  <2>2. CASE j = n
    BY <1>1, <2>1, <2>2 DEF Past
  <2>3. CASE j \in 1 .. n - 1
    <3>1. stack[j].pc <= Steps(stack[j])
      BY <1>0, <2>3 DEF Nested
    <3> QED
      BY <2>1, <3>1, StepsFew DEF Past
  <2> QED
    BY <1>1, <2>2, <2>3
<1>4. ASSUME parent[x] = Top.obj PROVE FALSE
  <2>1. x \in Obj /\ Top.obj \in Parents(x)
    BY <1>0, <1>3, <1>4 DEF Linked, TypeOK
  <2>2. PICK k \in 1 .. Steps(Top) : x \in Scans(Top.obj)[k]
    BY <1>1, <2>1, ChildScanned DEF Steps
  <2>3. k < Top.pc
    BY <1>1
  <2> QED
    BY <1>0, <1>1, <1>3, <1>4, <2>2, <2>3 DEF Scanned
<1> QED
  BY <1>2, <1>4

LEMMA FreeUserdataQuiet ==
  ASSUME QuietInv, FreeUserdata
  PROVE  Linked' /\ Nested' /\ Scanned' /\ Under'
<1> DEFINE n == Len(stack)
           o == Top.obj
<1>0. TypeOK /\ live \subseteq res /\ Linked /\ Nested /\ Scanned /\ Under
  BY DEF QuietInv, Inv
<1>1. Freeing /\ Running /\ Top.pc = Steps(Top) + 1
  BY DEF FreeUserdata, Freeing, Steps
<1>2. Top.pc + 1 \in 1 .. 5 /\ n \in Nat \ {0} /\ Top = stack[n] /\ o \in Obj
  BY <1>0, <1>1, StepsFew, TopIs
<1>3. o \in res /\ o \in live
  <2>1. n \in 1 .. n /\ stack[n].pc <= Steps(stack[n]) + 1
    BY <1>1, <1>2, StepsFew
  <2> QED
    BY <1>0, <1>2, <2>1 DEF Nested
<1>4. /\ \A x \in res : parent[x] # o
      /\ Goto(Top.pc + 1) /\ live' = live \ {o} /\ UNCHANGED <<parent, res>>
  BY <1>1, <1>3, Childless DEF FreeUserdata
<1>5. /\ stack' \in Seq(Frame) /\ Len(stack') = n
      /\ \A j \in 1 .. n - 1 : stack'[j] = stack[j]
      /\ stack'[n].obj = o /\ stack'[n].pc = Top.pc + 1
  BY <1>0, <1>1, <1>2, <1>4, GotoStack
<1> HIDE DEF n, o
<1>6. \A j \in 1 .. n : stack'[j].obj = stack[j].obj /\ Steps(stack'[j]) = Steps(stack[j])
  BY <1>2, <1>5 DEF o, Steps
<1>7. Linked'
  BY <1>0, <1>4 DEF Linked
<1>8. Nested'
  <2>1. \A j \in 1 .. n - 1 : stack'[j].pc <= Steps(stack'[j])
    BY <1>0, <1>2, <1>5 DEF Nested, n
  <2>2. \A j \in 1 .. n - 1 : stack'[j].obj \in live'
    <3> TAKE j \in 1 .. n - 1
    <3>1. stack[j].obj \in live
      <4>1. stack[j].pc <= Steps(stack[j]) /\ Steps(stack[j]) \in 0 .. 3 /\ j \in 1 .. n
        BY <1>0, <1>2, StepsFew DEF Nested, n
      <4>2. stack \in Seq(Frame)
        BY <1>0 DEF TypeOK, Frame
      <4>3. stack[j] \in Frame
        BY <4>1, <4>2 DEF n
      <4> QED
        BY <1>0, <4>1, <4>3 DEF Nested, n, Frame
    <3>2. Rank(stack[j].obj) < Rank(stack[n].obj) /\ Rank(stack[n].obj) \in 0 .. 3
      BY <1>0, <1>2 DEF Nested, n, Rank
    <3>3. stack[j].obj # o
      BY <1>2, <3>2 DEF o
    <3> QED
      BY <1>2, <1>4, <1>5, <3>1, <3>3
  <2>3. ~ (stack'[n].pc <= Steps(stack'[n]) + 1)
    BY <1>1, <1>2, <1>5, <1>6, StepsFew
  <2>4. \A j \in 1 .. n : stack'[j].pc <= Steps(stack'[j]) + 1 => stack'[j].obj \in live'
    BY <1>2, <2>2, <2>3
  <2>5. \A j, k \in 1 .. n : j < k => Rank(stack'[j].obj) < Rank(stack'[k].obj)
    BY <1>0, <1>6 DEF Nested, n
  <2> QED
    BY <1>5, <2>1, <2>4, <2>5 DEF Nested, Steps
<1>9. Scanned'
  <2> SUFFICES ASSUME NEW j \in 1 .. n, NEW x \in live', NEW k \in 1 .. Steps(stack'[j]),
                      k < stack'[j].pc, x \in Scans(stack'[j].obj)[k]
               PROVE  parent[x] # stack'[j].obj
    BY <1>4, <1>5 DEF Scanned, Steps
  <2>1. CASE j = n
    BY <1>0, <1>4, <1>5, <2>1
  <2>2. CASE j \in 1 .. n - 1
    BY <1>0, <1>4, <1>5, <2>2 DEF Scanned, n
  <2> QED
    BY <1>2, <2>1, <2>2
<1>10. Under'
  <2> SUFFICES ASSUME NEW x \in live', NEW j \in 1 .. n, stack'[j].obj \in Above(parent, x)
               PROVE  stack'[1].obj \in Above(parent, x)
    BY <1>4, <1>5 DEF Under
  <2>1. 1 \in 1 .. n
    BY <1>2
  <2> QED
    BY <1>0, <1>4, <1>6, <2>1 DEF Under, n
<1> QED
  BY <1>7, <1>8, <1>9, <1>10

LEMMA ReleaseQuiet ==
  ASSUME QuietInv, ReleaseResource
  PROVE  Linked' /\ Nested' /\ Scanned' /\ Under'
<1> DEFINE n == Len(stack)
           o == Top.obj
<1>0. TypeOK /\ live \subseteq res /\ OnceEach /\ Linked /\ Nested /\ Scanned /\ Under
  BY DEF QuietInv, Inv
<1>1. /\ Running /\ Past(Top) /\ stack' = Caller /\ res' = res \ {o} /\ live' = live
      /\ parent' = [parent EXCEPT ![o] = None]
  BY DEF ReleaseResource, Releasing, Past, Steps
<1>2. /\ n \in Nat \ {0} /\ Len(stack') = n - 1 /\ Top = stack[n]
      /\ \A j \in 1 .. n - 1 : stack'[j] = stack[j]
  BY <1>0, <1>1, ReturnStack
<1>3. o \notin live
  BY <1>0, <1>1, <1>2 DEF OnceEach
<1> HIDE DEF n, o
<1>4. \A x \in res' : parent'[x] = parent[x]
  BY <1>0, <1>1 DEF TypeOK
<1>5. Linked'
  BY <1>0, <1>1, <1>4 DEF Linked
<1>6. \A x \in live : parent'[x] = parent[x]
  BY <1>0, <1>1, <1>3 DEF TypeOK
<1>7. \A x \in live : Above(parent', x) = Above(parent, x)
  BY <1>0, <1>6, LiveTree, AboveSame
<1>8. Nested'
  <2>1. \A j \in 1 .. n - 1 : stack'[j].pc <= Steps(stack'[j]) + 1 => stack'[j].obj \in live
    BY <1>0, <1>2 DEF Nested, n
  <2>2. \A j \in 1 .. n - 1 - 1 : stack'[j].pc <= Steps(stack'[j])
    BY <1>0, <1>2 DEF Nested, n
  <2>3. \A j, k \in 1 .. n - 1 : j < k => Rank(stack'[j].obj) < Rank(stack'[k].obj)
    BY <1>0, <1>2 DEF Nested, n
  <2> QED
    BY <1>1, <1>2, <2>1, <2>2, <2>3 DEF Nested, Steps
<1>9. Scanned'
  <2> SUFFICES ASSUME NEW j \in 1 .. n - 1, NEW x \in live, NEW k \in 1 .. Steps(stack'[j]),
                      k < stack'[j].pc, x \in Scans(stack'[j].obj)[k]
               PROVE  parent'[x] # stack'[j].obj
    BY <1>1, <1>2 DEF Scanned, Steps
  <2> QED
    BY <1>0, <1>2, <1>6 DEF Scanned, n
<1>10. Under'
  <2> SUFFICES ASSUME NEW x \in live, NEW j \in 1 .. n - 1, stack'[j].obj \in Above(parent', x)
               PROVE  stack'[1].obj \in Above(parent', x)
    BY <1>1, <1>2 DEF Under
  <2>1. 1 \in 1 .. n - 1 /\ j \in 1 .. n
    BY <1>2
  <2> QED
    BY <1>0, <1>2, <1>7, <2>1 DEF Under, n
<1> QED
  BY <1>5, <1>8, <1>9, <1>10

LEMMA QuietStep ==
  ASSUME ~ LogMayDestroy
  PROVE  QuietInv /\ [Next]_vars => QuietInv'
<1> SUFFICES ASSUME QuietInv, [Next]_vars PROVE Linked' /\ Nested' /\ Scanned' /\ Under'
  BY StepInv DEF QuietInv
<1>0. Inv /\ TypeOK /\ live \subseteq res /\ Linked /\ Nested /\ Scanned /\ Under
  BY DEF QuietInv, Inv
<1>1. CASE \E f : Makes(f)
  <2>1. PICK f : Makes(f)
    BY <1>1
  <2>2. Made(f) /\ Planted(f) /\ stack' = <<>>
    BY <1>0, <2>1 DEF Makes, Made
  <2> QED
    BY <1>0, <2>2, LinkedMade, EmptyStack
<1>2. CASE \E o \in Obj : Destroy(o) \/ FreeChild(o)
  <2>1. PICK o \in Obj : Destroy(o) \/ FreeChild(o)
    BY <1>2
  <2>2. /\ o \in live /\ Call(o) /\ UNCHANGED <<live, parent, res>>
        /\ stack = <<>> \/ (Running /\ Top.pc <= Steps(Top) /\ parent[o] = Top.obj)
    BY <2>1 DEF Destroy, FreeChild, Scanning, Steps
  <2> QED
    BY <2>2, CallQuiet
<1>3. CASE EndScan
  BY <1>3, EndScanQuiet
<1>4. CASE FreeUserdata
  BY <1>4, FreeUserdataQuiet
<1>5. CASE ReleaseResource
  BY <1>5, ReleaseQuiet
<1>6. CASE Resting
  BY <1>0, <1>6 DEF Resting, Linked, Nested, Scanned, Under, Steps
<1> QED
  BY <1>0, <1>1, <1>2, <1>3, <1>4, <1>5, <1>6, StepCases

THEOREM QuietInvariance ==
  ASSUME ~ LogMayDestroy
  PROVE  Spec => []QuietInv
<1>1. Init => QuietInv
  <2> SUFFICES ASSUME Init PROVE Linked /\ Nested /\ Scanned /\ Under
    BY InitInv DEF QuietInv
  <2>1. Len(stack) = 0 /\ live = {} /\ res = {}
    BY DEF Init
  <2> QED
    BY <2>1 DEF Linked, Nested, Scanned, Under
<1>2. QuietInv /\ [Next]_vars => QuietInv'
  BY QuietStep
<1> QED
  BY <1>1, <1>2, PTL DEF Spec

\* Unless a log callback destroys objects in the middle of a destructor, no resource
\* outlives the one it depends on (the freechildren of context.c, device.c and
\* devhandle.c), for any number of objects.
THEOREM ResourcesNestedHolds ==
  ASSUME ~ LogMayDestroy
  PROVE  Spec => []ResourcesNested
<1>1. QuietInv => ResourcesNested
  BY DEF QuietInv, Inv, Linked, ResourcesNested, Usable
<1> QED
  BY <1>1, QuietInvariance, PTL
-----------------------------------------------------------------------------
(* The refinement of ObjectTree.                                           *)

\* The valid objects outside the subtree that is being released.
Stands(o) == o \in live /\ (stack # <<>> => stack[1].obj \notin Above(parent, o))

StandingIs == Standing = [o \in Obj |-> IF Stands(o) THEN parent[o] ELSE None]

LEMMA StandingHolds == QuietInv => StandingIs
<1> SUFFICES ASSUME QuietInv, NEW o \in live
             PROVE  (\E j \in DOMAIN stack : stack[j].obj \in Above(parent, o))
                      <=> stack # <<>> /\ stack[1].obj \in Above(parent, o)
  BY DEF StandingIs, Standing, Stands, Doomed
<1>1. stack \in Seq(Frame) /\ Under
  BY DEF QuietInv, Inv, TypeOK, Frame
<1>2. DOMAIN stack = 1 .. Len(stack) /\ Len(stack) \in Nat /\ (stack # <<>> <=> 1 \in 1 .. Len(stack))
  BY <1>1
<1> QED
  BY <1>1, <1>2 DEF Under

\* ObjectTree is about the same types.
LEMMA SameTypes ==
  /\ Tree!Obj = Obj
  /\ \A o : Tree!Parents(o) = Parents(o)
  /\ \A p, x : Tree!Above(p, x) = Above(p, x)
<1>1. Tree!Obj = Obj
  BY DEF Obj, Tree!Obj
<1>2. \A o : Tree!Parents(o) = Parents(o)
  BY DEF Parents, Tree!Parents
<1>3. \A p, x : Tree!Above(p, x) = Above(p, x)
  BY <1>1 DEF Above, Tree!Above
<1> QED
  BY <1>1, <1>2, <1>3

\* With no destructor running, or one whose subtree stays the same, the tree
\* changes as its objects do.
LEMMA Unmoved ==
  ASSUME QuietInv, QuietInv', stack # <<>>, stack' # <<>>, stack'[1].obj = stack[1].obj,
         \A o \in Obj : Stands(o) <=> Stands(o)',
         \A o \in live : parent'[o] = parent[o]
  PROVE  UNCHANGED Tree!vars
<1>1. StandingIs /\ StandingIs'
  BY StandingHolds, PTL
<1>2. Standing' = Standing
  BY <1>1 DEF StandingIs, Stands
<1>3. Released' = Released
  BY DEF Released
<1> QED
  BY <1>2, <1>3 DEF Tree!vars

LEMMA MadeTree ==
  ASSUME QuietInv, QuietInv', NEW f, Made(f), Planted(f)
  PROVE  Tree!Next
<1>0. /\ stack = <<>> /\ stack' = <<>> /\ live \subseteq res /\ res \subseteq Obj
      /\ DOMAIN f \subseteq Obj /\ DOMAIN f \cap live = {}
      /\ live' = live \cup DOMAIN f
      /\ parent' = [o \in Obj |-> IF o \in DOMAIN f THEN f[o] ELSE parent[o]]
      /\ \A o \in DOMAIN f : f[o] \in Parents(o)
  BY DEF QuietInv, Inv, TypeOK, Made
<1>1. StandingIs /\ StandingIs'
  BY StandingHolds, PTL
<1>2. /\ Standing = [o \in Obj |-> IF o \in live THEN parent[o] ELSE None]
      /\ Standing' = [o \in Obj |-> IF o \in live' THEN parent'[o] ELSE None]
      /\ Released = None /\ Released' = None
  BY <1>0, <1>1 DEF StandingIs, Stands, Released
<1>3. \A o \in Obj : None \notin Parents(o)
  BY TypesAssumption DEF Parents, Obj
<1>4. \A o \in live : parent[o] # None
  BY <1>0, <1>3 DEF QuietInv, Linked
<1>5. /\ \A o \in DOMAIN f : Standing[o] = None /\ Standing'[o] = f[o] /\ f[o] # None
      /\ \A o \in Obj \ DOMAIN f : Standing'[o] = Standing[o]
  BY <1>0, <1>2, <1>3
<1>6. {x \in Obj : Standing[x] = None /\ Standing'[x] # None} = DOMAIN f
  BY <1>0, <1>5
<1> DEFINE g == [o \in DOMAIN f |-> Standing'[o]]
<1>7. DOMAIN g = DOMAIN f /\ \A o \in DOMAIN f : g[o] = f[o]
  BY <1>5
<1>8. \A o \in DOMAIN f : f[o] \in Obj => f[o] \in DOMAIN f \/ Standing[f[o]] # None
  <2> TAKE o \in DOMAIN f
  <2>1. f[o] \in live \cup {Root} \cup DOMAIN f
    BY DEF Planted
  <2>2. Root \notin Obj
    BY TypesAssumption DEF Obj
  <2> QED
    BY <1>2, <1>4, <2>1, <2>2
<1>9. Standing' = [o \in Obj |-> IF o \in DOMAIN f THEN g[o] ELSE Standing[o]]
  BY <1>0, <1>2, <1>5, <1>7
<1> HIDE DEF g
<1>10. Tree!Grow(g)
  BY SameTypes, <1>0, <1>2, <1>5, <1>7, <1>8, <1>9 DEF Tree!Grow
<1>11. Tree!Grow([o \in {x \in Obj : Standing[x] = None /\ Standing'[x] # None} |-> Standing'[o]])
  BY <1>6, <1>10 DEF g
<1> QED
  BY SameTypes, <1>11 DEF Tree!Next

LEMMA DestroyTree ==
  ASSUME QuietInv, QuietInv', ~ LogMayDestroy, NEW o \in Obj, Destroy(o)
  PROVE  Tree!Next
<1>0. /\ TypeOK /\ live \subseteq res /\ Linked /\ stack = <<>> /\ o \in live /\ Call(o)
      /\ UNCHANGED <<live, parent>>
  BY DEF QuietInv, Inv, Destroy
<1>1. Len(stack') = 1 /\ stack'[1].obj = o /\ stack' # <<>>
  <2>1. Len(stack) = 0
    BY <1>0
  <2>2. Len(stack') = 0 + 1 /\ stack'[0 + 1].obj = o
    BY <1>0, <2>1, CallStack
  <2> QED
    BY <2>2
<1>2. StandingIs /\ StandingIs'
  BY StandingHolds, PTL
<1>3. Standing = [x \in Obj |-> IF x \in live THEN parent[x] ELSE None]
  BY <1>0, <1>2 DEF StandingIs, Stands
<1>4. Standing' = [x \in Obj |-> IF x \in live /\ o \notin Above(parent, x)
                                 THEN parent[x] ELSE None]
  BY <1>0, <1>1, <1>2 DEF StandingIs, Stands
<1>5. \A x \in live : Standing[x] = parent[x]
  BY <1>0, <1>3 DEF TypeOK
<1>6. \A x \in live : Above(Standing, x) = Above(parent, x)
  BY <1>0, <1>5, LiveTree, AboveSame
<1>7. Standing[o] # None
  BY <1>0, <1>5, LiveTree, TypesAssumption DEF Obj
<1>8. Standing' = [x \in Obj |-> IF o \in Above(Standing, x) THEN None ELSE Standing[x]]
  BY <1>3, <1>4, <1>6
<1>9. Released = None /\ Released' = o
  BY <1>0, <1>1 DEF Released
<1>10. Tree!Release(o)
  BY SameTypes, <1>7, <1>8, <1>9 DEF Tree!Release
<1> QED
  BY SameTypes, <1>10 DEF Tree!Next

LEMMA FreeChildTree ==
  ASSUME QuietInv, QuietInv', NEW o \in Obj, FreeChild(o)
  PROVE  UNCHANGED Tree!vars
<1>1. /\ TypeOK /\ Running /\ Call(o) /\ UNCHANGED <<live, parent>>
  BY DEF QuietInv, Inv, FreeChild, Scanning
<1>2. /\ Len(stack) \in Nat \ {0} /\ Len(stack') = Len(stack) + 1
      /\ \A j \in 1 .. Len(stack) : stack'[j] = stack[j]
  BY <1>1, CallStack, TopIs
<1>3. stack # <<>> /\ stack' # <<>> /\ stack'[1] = stack[1]
  BY <1>1, <1>2 DEF Running
<1> QED
  BY <1>1, <1>3, Unmoved DEF Stands

LEMMA EndScanTree ==
  ASSUME QuietInv, QuietInv', EndScan
  PROVE  UNCHANGED Tree!vars
<1>1. /\ TypeOK /\ Running /\ Top.pc <= Steps(Top) /\ Goto(Top.pc + 1)
      /\ UNCHANGED <<live, parent>>
  BY DEF QuietInv, Inv, EndScan, Scanning, Steps
<1>2. Top.pc + 1 \in 1 .. 5
  BY <1>1, StepsFew, TopIs
<1>3. /\ Len(stack) \in Nat \ {0} /\ Len(stack') = Len(stack) /\ Top = stack[Len(stack)]
      /\ \A j \in 1 .. Len(stack) - 1 : stack'[j] = stack[j]
      /\ stack'[Len(stack)].obj = Top.obj
  BY <1>1, <1>2, GotoStack, TopIs
<1>4. stack # <<>> /\ stack' # <<>> /\ stack'[1].obj = stack[1].obj
  BY <1>1, <1>3 DEF Running
<1> QED
  BY <1>1, <1>4, Unmoved DEF Stands

LEMMA FreeUserdataTree ==
  ASSUME QuietInv, QuietInv', FreeUserdata
  PROVE  UNCHANGED Tree!vars
<1> DEFINE o == Top.obj
           n == Len(stack)
<1>1. /\ TypeOK /\ live \subseteq res /\ Linked /\ Under /\ Running /\ Freeing
      /\ Top.pc = Steps(Top) + 1 /\ Framed /\ Nested
  BY DEF QuietInv, Inv, FreeUserdata, Freeing, Steps
<1>2. Top.pc + 1 \in 1 .. 5 /\ n \in Nat \ {0} /\ Top = stack[n]
  BY <1>1, StepsFew, TopIs
<1>3. o \in live
  <2>1. n \in 1 .. n /\ stack[n].pc <= Steps(stack[n]) + 1
    BY <1>1, <1>2, StepsFew
  <2> QED
    BY <1>1, <1>2, <2>1 DEF Nested
<1>4. Goto(Top.pc + 1) /\ live' = live \ {o} /\ UNCHANGED parent
  BY <1>3 DEF FreeUserdata
<1>5. /\ Len(stack') = n /\ stack'[n].obj = o
      /\ \A j \in 1 .. n - 1 : stack'[j] = stack[j]
  BY <1>1, <1>2, <1>4, GotoStack
<1>6. stack # <<>> /\ stack' # <<>> /\ stack'[1].obj = stack[1].obj
  BY <1>1, <1>2, <1>5 DEF Running
<1> HIDE DEF o, n
<1>7. stack[1].obj \in Above(parent, o)
  <2>1. o \in Above(parent, o)
    BY <1>1, <1>3, LiveTree, AboveIs
  <2>2. n \in 1 .. n /\ stack[n].obj = o
    BY <1>2 DEF o
  <2> QED
    BY <1>1, <1>3, <2>1, <2>2 DEF Under, n
<1>8. \A x \in Obj : Stands(x) <=> Stands(x)'
  BY <1>4, <1>6, <1>7 DEF Stands
<1> QED
  BY <1>4, <1>6, <1>8, Unmoved

LEMMA ReleaseTree ==
  ASSUME QuietInv, QuietInv', ReleaseResource
  PROVE  Tree!Next \/ UNCHANGED Tree!vars
<1> DEFINE o == Top.obj
           n == Len(stack)
<1>0. TypeOK /\ live \subseteq res /\ Linked /\ OnceEach
  BY DEF QuietInv, Inv
<1>1. /\ Running /\ Past(Top) /\ stack' = Caller /\ live' = live
      /\ parent' = [parent EXCEPT ![o] = None]
  BY DEF ReleaseResource, Releasing, Past, Steps
<1>2. /\ n \in Nat \ {0} /\ Len(stack') = n - 1 /\ Top = stack[n]
      /\ stack' \in Seq(Frame)
      /\ \A j \in 1 .. n - 1 : stack'[j] = stack[j]
  BY <1>0, <1>1, ReturnStack
<1>3. o \notin live /\ o \in Obj
  BY <1>0, <1>1, <1>2, TopIs DEF OnceEach
<1> HIDE DEF o, n
<1>4. \A x \in live : parent'[x] = parent[x]
  BY <1>0, <1>1, <1>3 DEF TypeOK
<1>5. \A x \in live : Above(parent', x) = Above(parent, x)
  BY <1>0, <1>4, LiveTree, AboveSame
<1>6. CASE n = 1
  <2>1. stack # <<>> /\ stack' = <<>> /\ stack[1].obj = o
    BY <1>1, <1>2, <1>6 DEF Running, o
  <2>2. \A x \in live : o \notin Above(parent, x)
    <3>1. \A x \in live : Above(parent, x) \subseteq live \cup {Root}
      BY <1>0, <1>1, LiveTree, AboveIs
    <3>2. o # Root
      BY <1>3, TypesAssumption DEF Obj
    <3> QED
      BY <1>3, <3>1, <3>2
  <2>3. StandingIs /\ StandingIs'
    BY StandingHolds, PTL
  <2>4. Standing' = Standing
    BY <1>1, <1>4, <2>1, <2>2, <2>3 DEF StandingIs, Stands
  <2>5. Released = o /\ Released' = None /\ o # None
    BY <1>3, <2>1, TypesAssumption DEF Released, Obj
  <2>6. Tree!Return
    BY <2>4, <2>5 DEF Tree!Return
  <2> QED
    BY <2>6 DEF Tree!Next
<1>7. CASE n # 1
  <2>1. 1 \in 1 .. n - 1
    BY <1>2, <1>7
  <2>2. stack # <<>> /\ stack' # <<>> /\ stack'[1] = stack[1]
    BY <1>1, <1>2, <2>1 DEF Running
  <2>3. \A x \in Obj : Stands(x) <=> Stands(x)'
    BY <1>1, <1>5, <2>2 DEF Stands
  <2> QED
    BY <1>4, <2>2, <2>3, Unmoved
<1> QED
  BY <1>6, <1>7

LEMMA TreeStep ==
  ASSUME ~ LogMayDestroy, QuietInv, QuietInv', [Next]_vars
  PROVE  [Tree!Next]_(Tree!vars)
<1>0. TypeOK /\ live \subseteq res /\ Linked
  BY DEF QuietInv, Inv
<1>1. CASE \E f : Makes(f)
  <2>1. PICK f : Makes(f)
    BY <1>1
  <2>2. Made(f) /\ Planted(f)
    BY <1>0, <2>1 DEF Makes
  <2> QED
    BY <2>2, MadeTree
<1>2. CASE \E o \in Obj : Destroy(o) \/ FreeChild(o)
  BY <1>2, DestroyTree, FreeChildTree
<1>3. CASE EndScan
  BY <1>3, EndScanTree
<1>4. CASE FreeUserdata
  BY <1>4, FreeUserdataTree
<1>5. CASE ReleaseResource
  BY <1>5, ReleaseTree
<1>6. CASE Resting
  <2>1. Standing' = Standing /\ Released' = Released
    BY <1>6 DEF Resting, Standing, Released, Doomed
  <2> QED
    BY <2>1 DEF Tree!vars
<1> QED
  BY <1>0, <1>1, <1>2, <1>3, <1>4, <1>5, <1>6, StepCases

\* Unless a log callback destroys objects in the middle of a destructor, the nested
\* destructors implement the documented tree: a release takes the whole subtree and
\* nothing else, whatever was created and destroyed before.
THEOREM ImplementsTreeHolds ==
  ASSUME ~ LogMayDestroy
  PROVE  Spec => ImplementsTree
<1>1. Init => Tree!Init
  BY SameTypes DEF Init, Tree!Init, Standing, Released, Doomed
<1>2. QuietInv /\ QuietInv' /\ [Next]_vars => [Tree!Next]_(Tree!vars)
  BY TreeStep
<1> QED
  BY <1>1, <1>2, QuietInvariance, PTL DEF Spec, ImplementsTree, Tree!Spec
=============================================================================
