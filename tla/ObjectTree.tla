----------------------------- MODULE ObjectTree -----------------------------
(***************************************************************************)
(* The tree of MoonUSB's objects as its documentation promises it          *)
(* (doc/introduction.adoc): objects are created under a parent that is     *)
(* alive, and releasing an object takes all its descendants with it, at    *)
(* once and without touching any other object.                             *)
(***************************************************************************)
EXTENDS ObjectTypes

VARIABLES
  tree,      \* tree[o]: the parent of o, or None
  releasing  \* the object whose release has not returned yet, or None

vars == <<tree, releasing>>

Init == tree = [o \in Obj |-> None] /\ releasing = None

\* New objects, with the parents of f: usually one, but one call may create
\* several.
Grow(f) ==
  /\ releasing = None
  /\ \A o \in DOMAIN f :
       /\ tree[o] = None
       /\ f[o] \in Parents(o)
       /\ f[o] \in Obj => f[o] \in DOMAIN f \/ tree[f[o]] # None
  /\ tree' = [o \in Obj |-> IF o \in DOMAIN f THEN f[o] ELSE tree[o]]
  /\ UNCHANGED releasing

\* One object is released at a time, and until the call returns the tree does not
\* change any more.
Release(o) ==
  /\ releasing = None
  /\ tree[o] # None
  /\ tree' = [x \in Obj |-> IF o \in Above(tree, x) THEN None ELSE tree[x]]
  /\ releasing' = o

Return ==
  /\ releasing # None
  /\ releasing' = None
  /\ UNCHANGED tree

Next ==
  \/ Grow([o \in {x \in Obj : tree[x] = None /\ tree'[x] # None} |-> tree'[o]])
  \/ \E o \in Obj : Release(o)
  \/ Return

Spec == Init /\ [][Next]_vars
=============================================================================
