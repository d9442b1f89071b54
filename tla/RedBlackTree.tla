---------------------------- MODULE RedBlackTree ----------------------------
(***************************************************************************)
(* The red-black tree of src/tree.h, which holds the database of userdata  *)
(* (src/udata.c) and the tables of enums (src/enums.c).  The nodes are the *)
(* structs, linked by pointers.                                            *)
(*                                                                         *)
(* The macros are written out once for each side; here the side is a       *)
(* parameter.  Insertion and removal link or unlink a node in one step and *)
(* then rebalance, one step for each iteration of the loops, or for each   *)
(* of the rotations an iteration makes.  A step that would follow a null   *)
(* pointer is not taken: see NoNullNode.                                   *)
(*                                                                         *)
(* udata_scan, which destructors use to find the children of an object,    *)
(* runs on top of it: its callback may insert and remove nodes.            *)
(***************************************************************************)
EXTENDS Integers, FiniteSets

CONSTANTS
  Node,    \* the structs
  Key,     \* their keys (the id of a userdata)
  Wanted,  \* those of the type a scan is for
  Nil

ASSUME TreeAssumption ==
  /\ IsFiniteSet(Node) /\ Nil \notin Node
  /\ Key \in [Node -> Nat]
  /\ Wanted \subseteq Node

VARIABLES
  tree,   \* the root and the fields of the nodes: link, parent, red
  fix,    \* the rebalancing under way: of an insert or a removal, elm, parent
  scan    \* udata_scan: id, and the nodes due (there since it began, not visited)

vars == <<tree, fix, scan>>

Side == {"left", "right"}
Other(s) == IF s = "left" THEN "right" ELSE "left"

NoFix == [op |-> "none", elm |-> Nil, parent |-> Nil]
NoScan == [on |-> FALSE, id |-> 0, due |-> {}]

Init ==
  /\ tree = [root   |-> Nil,
             link   |-> [n \in Node |-> [s \in Side |-> Nil]],
             parent |-> [n \in Node |-> Nil],
             red    |-> [n \in Node |-> FALSE]]
  /\ fix = NoFix
  /\ scan = NoScan

-----------------------------------------------------------------------------
(* Searches.                                                               *)

\* cmp: the side of n on which key k is.
Toward(k, n) == IF k < Key[n] THEN "left" ELSE "right"

\* RB_FIND: the node with key k, or Nil.
Find(t, k) ==
  LET down[n \in Node \cup {Nil}] ==
        IF n = Nil THEN Nil
        ELSE IF Key[n] = k THEN n ELSE down[t.link[n][Toward(k, n)]]
  IN  down[t.root]

\* (Mutant: the candidate is not remembered on the way down.)
NFindForgets(t, k) == Find(t, k)

\* RB_NFIND: the node with the least key not below k, or Nil.
NFind(t, k) ==
  LET down[n \in Node \cup {Nil}] ==
        IF n = Nil THEN Nil
        ELSE IF Key[n] = k THEN n
        ELSE LET r == down[t.link[n][Toward(k, n)]]
             IN  IF r = Nil /\ k < Key[n] THEN n ELSE r
  IN  down[t.root]

\* The last node on the way down to key k: the one that has it, or the one below
\* which RB_INSERT hangs a node with this key.
Last(t, k) ==
  LET down[n \in Node] ==
        LET c == t.link[n][Toward(k, n)]
        IN  IF Key[n] = k \/ c = Nil THEN n ELSE down[c]
  IN  IF t.root = Nil THEN Nil ELSE down[t.root]

\* RB_MINMAX, and the descents of RB_NEXT, RB_PREV and RB_REMOVE: the node
\* furthest to side s below n.
Furthest(t, n, s) ==
  LET down[m \in Node] == IF t.link[m][s] = Nil THEN m ELSE down[t.link[m][s]]
  IN  IF n = Nil THEN Nil ELSE down[n]

\* RB_NEXT (s = "right") and RB_PREV.
Neighbour(t, n, s) ==
  LET up[m \in Node] ==
        LET p == t.parent[m] IN IF p # Nil /\ t.link[p][s] = m THEN up[p] ELSE p
  IN  IF t.link[n][s] # Nil THEN Furthest(t, t.link[n][s], Other(s)) ELSE up[n]

\* The nodes below n, and n.
Below(t, n) ==
  LET down[m \in Node \cup {Nil}] ==
        IF m = Nil THEN {} ELSE {m} \cup UNION {down[t.link[m][s]] : s \in Side}
  IN  down[n]

InTree == Below(tree, tree.root)

-----------------------------------------------------------------------------
(* Changes of links.                                                       *)

\* The side of p on which n hangs, as the code tells it.
SideOf(t, n, p) == IF t.link[p].left = n THEN "left" ELSE "right"

\* Put n in the place that old has below p, or at the root.
Replace(t, p, old, n) ==
  IF p = Nil THEN [t EXCEPT !.root = n]
  ELSE [t EXCEPT !.link[p][SideOf(t, old, p)] = n]

\* Hang n, if any, on side s of p.
Hang(t, p, s, n) ==
  [t EXCEPT !.link[p][s] = n,
            !.parent = IF n = Nil THEN @ ELSE [@ EXCEPT ![n] = p]]

\* (Mutant: the node that changes sides keeps its old parent.)
RotateOrphan(t, n, s) ==
  LET m  == t.link[n][Other(s)]
      p  == t.parent[n]
      t1 == [t EXCEPT !.link[n][Other(s)] = t.link[m][s]]
      t2 == [Replace(t1, p, n, m) EXCEPT !.parent[m] = p]
  IN  Hang(t2, m, s, n)

\* RB_ROTATE_LEFT (s = "left") and RB_ROTATE_RIGHT.
Rotate(t, n, s) ==
  LET m  == t.link[n][Other(s)]
      p  == t.parent[n]
      t1 == Hang(t, n, Other(s), t.link[m][s])
      t2 == [Replace(t1, p, n, m) EXCEPT !.parent[m] = p]
  IN  Hang(t2, m, s, n)

\* RB_SET_BLACKRED.
BlackRed(t, black, red) == [t EXCEPT !.red[black] = FALSE, !.red[red] = TRUE]

IsRed(t, n) == n # Nil /\ t.red[n]

-----------------------------------------------------------------------------
(* Insertion.                                                              *)

Stable == fix.op = "none"

\* (Mutant: RB_INSERT_COLOR is called with the parent of the new node.)
InsertColorParent(n, p) == fix' = [op |-> "insert", elm |-> p, parent |-> Nil]

\* The call of RB_INSERT_COLOR for the new node n, below p.
InsertColor(n, p) == fix' = [op |-> "insert", elm |-> n, parent |-> Nil]

\* RB_INSERT: the new node is hung, red and without children, below the last node
\* on the way to its key, unless that is the key of a node of the tree.
Insert(n) ==
  LET p == Last(tree, Key[n])
      t == [tree EXCEPT !.link[n] = [s \in Side |-> Nil], !.parent[n] = p, !.red[n] = TRUE]
  IN  /\ Stable /\ n \notin InTree
      /\ p # Nil => Key[p] # Key[n]
      /\ tree' = IF p = Nil THEN [t EXCEPT !.root = n]
                 ELSE [t EXCEPT !.link[p][Toward(Key[n], p)] = n]
      /\ InsertColor(n, p)
      /\ UNCHANGED scan

\* The loop of RB_INSERT_COLOR goes on while elm and its parent are red.  The
\* parent hangs on side s of the grandparent.
Parent == tree.parent[fix.elm]
Grandparent == tree.parent[Parent]
RedParent(s) ==
  /\ fix.op = "insert"
  /\ IsRed(tree, Parent) /\ Grandparent # Nil
  /\ s = SideOf(tree, Parent, Grandparent)

\* A red uncle: black parent and uncle, and go on from the red grandparent.
RedUncle(s) ==
  LET u == tree.link[Grandparent][Other(s)]
  IN  /\ RedParent(s)
      /\ IsRed(tree, u)
      /\ tree' = BlackRed([tree EXCEPT !.red[u] = FALSE], Parent, Grandparent)
      /\ fix' = [fix EXCEPT !.elm = Grandparent]
      /\ UNCHANGED scan

\* elm is an inner grandchild: rotate it above its parent, which takes its place.
InnerGrandchild(s) ==
  /\ RedParent(s)
  /\ ~ IsRed(tree, tree.link[Grandparent][Other(s)])
  /\ tree.link[Parent][Other(s)] = fix.elm
  /\ tree' = Rotate(tree, Parent, s)
  /\ fix' = [fix EXCEPT !.elm = Parent]
  /\ UNCHANGED scan

\* elm is an outer grandchild: its parent takes the place of the grandparent.
OuterGrandchild(s) ==
  /\ RedParent(s)
  /\ ~ IsRed(tree, tree.link[Grandparent][Other(s)])
  /\ tree.link[Parent][Other(s)] # fix.elm
  /\ tree' = Rotate(BlackRed(tree, Parent, Grandparent), Grandparent, Other(s))
  /\ UNCHANGED <<fix, scan>>

\* (Mutant: the root is not painted black.)
EndInsertRed ==
  /\ fix.op = "insert"
  /\ ~ IsRed(tree, Parent)
  /\ fix' = NoFix
  /\ UNCHANGED <<tree, scan>>

\* The end of RB_INSERT_COLOR.
EndInsert ==
  /\ fix.op = "insert"
  /\ ~ IsRed(tree, Parent)
  /\ tree' = [tree EXCEPT !.red[tree.root] = FALSE]
  /\ fix' = NoFix
  /\ UNCHANGED scan

-----------------------------------------------------------------------------
(* Removal.                                                                *)

\* (Mutant: the child of the node is not hung in its place.)
UnlinkDrops(t, n) == Replace(t, t.parent[n], n, Nil)

\* The child that takes the place of n, which has at most one.
Child(t, n) == t.link[n][IF t.link[n].left = Nil THEN "right" ELSE "left"]

\* Take n, which has at most one child, out of the tree.
Unlink(t, n) ==
  LET c == Child(t, n)
      p == t.parent[n]
  IN  Replace([t EXCEPT !.parent = IF c = Nil THEN @ ELSE [@ EXCEPT ![c] = p]], p, n, c)

\* Node m takes over the fields and the place of old.
TakePlace(t, old, m) ==
  LET children == {t.link[old][s] : s \in Side} \ {Nil}
  IN  [Replace(t, t.parent[old], old, m) EXCEPT
         !.link[m] = t.link[old],
         !.red[m] = t.red[old],
         !.parent = [n \in Node |-> IF n = m THEN t.parent[old]
                                    ELSE IF n \in children THEN m ELSE @[n]]]

\* The fields of a struct that is freed after its removal, and cleared when it is
\* allocated again.
Cleared(t, n) ==
  [t EXCEPT !.link[n] = [s \in Side |-> Nil], !.parent[n] = Nil, !.red[n] = FALSE]

\* RB_REMOVE: a node with two children is replaced by its successor, which is
\* unlinked first.  If the node unlinked was black, RB_REMOVE_COLOR is called.
Remove(n) ==
  LET two   == Nil \notin {tree.link[n][s] : s \in Side}
      m     == IF two THEN Furthest(tree, tree.link[n].right, "left") ELSE n
      p     == tree.parent[m]
      t     == Unlink(tree, m)
      child == Child(tree, m)
  IN  /\ Stable /\ n \in InTree
      /\ tree' = Cleared(IF two THEN TakePlace(t, n, m) ELSE t, n)
      /\ fix' = IF tree.red[m] THEN NoFix
                ELSE [op |-> "remove", elm |-> child, parent |-> IF p = n THEN m ELSE p]
      /\ scan' = [scan EXCEPT !.due = @ \ {n}]

\* The loop of RB_REMOVE_COLOR goes on while elm is black and not the root.  elm
\* hangs on side s of fix.parent.
Short == fix.op = "remove" /\ ~ IsRed(tree, fix.elm) /\ fix.elm # tree.root
Hanging(s) == Short /\ s = SideOf(tree, fix.elm, fix.parent)
Sibling(s) == tree.link[fix.parent][Other(s)]

\* The sibling's children, away from elm and next to it.
Outer(s) == tree.link[Sibling(s)][Other(s)]
Inner(s) == tree.link[Sibling(s)][s]

\* A red sibling: rotate it above the parent.
RedSibling(s) ==
  /\ Hanging(s)
  /\ IsRed(tree, Sibling(s))
  /\ tree' = Rotate(BlackRed(tree, Sibling(s), fix.parent), fix.parent, s)
  /\ UNCHANGED <<fix, scan>>

BlackSibling(s) == Hanging(s) /\ Sibling(s) # Nil /\ ~ IsRed(tree, Sibling(s))

\* (Mutant: elm does not move up.)
BlackNephewsStays(s) ==
  /\ BlackSibling(s)
  /\ ~ IsRed(tree, Outer(s)) /\ ~ IsRed(tree, Inner(s))
  /\ tree' = [tree EXCEPT !.red[Sibling(s)] = TRUE]
  /\ UNCHANGED <<fix, scan>>

\* No red child of the sibling: paint it red and go on from the parent.
BlackNephews(s) ==
  /\ BlackSibling(s)
  /\ ~ IsRed(tree, Outer(s)) /\ ~ IsRed(tree, Inner(s))
  /\ tree' = [tree EXCEPT !.red[Sibling(s)] = TRUE]
  /\ fix' = [fix EXCEPT !.elm = fix.parent, !.parent = tree.parent[fix.parent]]
  /\ UNCHANGED scan

\* Only the inner child is red: rotate it above the sibling.
InnerNephew(s) ==
  /\ BlackSibling(s)
  /\ ~ IsRed(tree, Outer(s)) /\ IsRed(tree, Inner(s))
  /\ tree' = Rotate(BlackRed(tree, Inner(s), Sibling(s)), Sibling(s), Other(s))
  /\ UNCHANGED <<fix, scan>>

\* (Mutant: the sibling does not take the colour of the parent.)
OuterNephewBlack(s) ==
  /\ BlackSibling(s)
  /\ IsRed(tree, Outer(s))
  /\ tree' = Rotate([tree EXCEPT !.red[fix.parent] = FALSE, !.red[Outer(s)] = FALSE],
                    fix.parent, s)
  /\ fix' = [fix EXCEPT !.elm = tree'.root]
  /\ UNCHANGED scan

\* The outer child is red: rotate the sibling above the parent, and the loop is
\* done.
OuterNephew(s) ==
  /\ BlackSibling(s)
  /\ IsRed(tree, Outer(s))
  /\ tree' = Rotate([tree EXCEPT !.red[Sibling(s)] = tree.red[fix.parent],
                                 !.red[fix.parent] = FALSE, !.red[Outer(s)] = FALSE],
                    fix.parent, s)
  /\ fix' = [fix EXCEPT !.elm = tree'.root]
  /\ UNCHANGED scan

\* The end of RB_REMOVE_COLOR.
EndRemove ==
  /\ fix.op = "remove" /\ ~ Short
  /\ tree' = IF fix.elm = Nil THEN tree ELSE [tree EXCEPT !.red[fix.elm] = FALSE]
  /\ fix' = NoFix
  /\ UNCHANGED scan

-----------------------------------------------------------------------------
(* udata_scan.                                                             *)

StartScan ==
  /\ Stable /\ ~ scan.on
  /\ scan' = [on |-> TRUE, id |-> 0, due |-> InTree \cap Wanted]
  /\ UNCHANGED <<tree, fix>>

Found == NFind(tree, scan.id)

\* The next entry: the callback is called if it is of the type wanted; it inserts
\* and removes before the next step.
Visit ==
  /\ Stable /\ scan.on /\ Found # Nil
  /\ scan' = [scan EXCEPT !.id = Key[Found] + 1, !.due = @ \ {Found}]
  /\ UNCHANGED <<tree, fix>>

\* (Mutant: the scan ends at an entry of another type.)
EndScanEarly ==
  /\ Stable /\ scan.on /\ Found \notin Wanted
  /\ scan' = NoScan
  /\ UNCHANGED <<tree, fix>>

EndScan ==
  /\ Stable /\ scan.on /\ Found = Nil
  /\ scan' = NoScan
  /\ UNCHANGED <<tree, fix>>

-----------------------------------------------------------------------------
Rebalance ==
  \/ \E s \in Side :
       \/ RedUncle(s) \/ InnerGrandchild(s) \/ OuterGrandchild(s)
       \/ RedSibling(s) \/ BlackNephews(s) \/ InnerNephew(s) \/ OuterNephew(s)
  \/ EndInsert \/ EndRemove

Next ==
  \/ \E n \in Node : Insert(n) \/ Remove(n)
  \/ Rebalance
  \/ StartScan \/ Visit \/ EndScan

\* Rebalancing is part of the call that inserts or removes.
Spec == Init /\ [][Next]_vars /\ WF_vars(Rebalance)

-----------------------------------------------------------------------------
(* Properties.                                                             *)

Ptr == Node \cup {Nil}

\* The types of the variables; rebalancing after an insertion is about a node.
TypeOK ==
  /\ tree \in [root : Ptr, link : [Node -> [Side -> Ptr]], parent : [Node -> Ptr],
               red : [Node -> BOOLEAN]]
  /\ \/ fix = NoFix
     \/ fix \in [op : {"insert"}, elm : Node, parent : {Nil}]
     \/ fix \in [op : {"remove"}, elm : Ptr, parent : Ptr]
  /\ scan \in [on : BOOLEAN, id : Nat, due : SUBSET Wanted]

\* In every state, in the middle of rotations too, the tree is a search tree with
\* distinct keys whose parent pointers are right.
Ordered ==
  /\ tree.root # Nil => tree.parent[tree.root] = Nil
  /\ \A n \in InTree, s \in Side :
       LET c == tree.link[n][s]
       IN  /\ c # Nil => tree.parent[c] = n
           /\ \A m \in Below(tree, c) : IF s = "left" THEN Key[m] < Key[n] ELSE Key[m] > Key[n]

\* During a removal the place of elm lacks one black node.
Lacking(n, s) ==
  IF /\ fix.op = "remove" /\ fix.elm # tree.root
     /\ n = fix.parent /\ s = SideOf(tree, fix.elm, n)
  THEN 1 ELSE 0

\* The numbers of black nodes on the paths below the root.
BlackHeights ==
  LET count[n \in Ptr] ==
        IF n = Nil THEN {0}
        ELSE {b + (IF tree.red[n] THEN 0 ELSE 1) : b \in
                UNION {{a + Lacking(n, s) : a \in count[tree.link[n][s]]} : s \in Side}}
  IN  count[tree.root]

\* Two to the height.
Full ==
  LET full[n \in Ptr] ==
        IF n = Nil THEN 1
        ELSE 2 * LET l == full[tree.link[n].left]
                     r == full[tree.link[n].right]
                 IN  IF l > r THEN l ELSE r
  IN  full[tree.root]

\* What the header says of a red-black tree (src/tree.h:48-54), and what is left
\* of it between the steps of the rebalancing: the paths have the same number of
\* black nodes, once the one that is lacking is counted, and only elm (which is about
\* to be painted black) may be red next to a red node, or at the root.  Once
\* stable, the height is at most 2 lg(n+1).
Balanced ==
  /\ Cardinality(BlackHeights) = 1
  /\ \A n \in InTree :
       tree.red[n] /\ (n = tree.root \/ tree.red[tree.parent[n]]) =>
         \/ n = fix.elm
         \/ fix.op = "remove" /\ tree.parent[n] = fix.elm
  /\ Stable =>
       LET size == Cardinality(InTree) IN Full <= (size + 1) * (size + 1)

\* The rebalancing never follows a null pointer: a red parent has a parent, and
\* where a black node is lacking there is a parent, and a sibling.
NoNullNode ==
  /\ fix.op = "insert" /\ IsRed(tree, Parent) => Grandparent # Nil
  /\ Short => fix.parent # Nil /\ \A s \in Side : Hanging(s) => Sibling(s) # Nil

\* The invariant of the tree.
RedBlack == TypeOK /\ Ordered /\ Balanced /\ NoNullNode

\* The members of S next to key k on either side, as a set.
Least(S) == {n \in S : \A m \in S : Key[n] <= Key[m]}
Greatest(S) == {n \in S : \A m \in S : Key[n] >= Key[m]}
Only(n) == IF n = Nil THEN {} ELSE {n}

\* Searches by key find what is in the tree, and the next, previous, first and
\* last nodes are those in the order of the keys; rebalancing or not.
SearchesExact ==
  /\ \A k \in 0 .. 1 + Cardinality(Node) :
       /\ Only(Find(tree, k)) = {n \in InTree : Key[n] = k}
       /\ Only(NFind(tree, k)) = Least({n \in InTree : Key[n] >= k})
  /\ \A n \in InTree :
       /\ Only(Neighbour(tree, n, "right")) = Least({m \in InTree : Key[m] > Key[n]})
       /\ Only(Neighbour(tree, n, "left")) = Greatest({m \in InTree : Key[m] < Key[n]})
  /\ Only(Furthest(tree, tree.root, "left")) = Least(InTree)
  /\ Only(Furthest(tree, tree.root, "right")) = Greatest(InTree)

\* A scan that ends has visited every entry of its type that was there when it
\* began and has not been removed since, whatever its callback inserted and
\* removed.
ScanComplete == [][scan.on /\ ~ scan'.on => scan.due = {}]_vars

\* Rebalancing ends.
RebalancingEnds == ~ Stable ~> Stable

Set == INSTANCE OrderedSet WITH members <- InTree

\* Insertion and removal, rotations included, amount to those on a set.
ImplementsSet == Set!Spec
=============================================================================
