------------------------- MODULE RedBlackTreeProofs -------------------------
(***************************************************************************)
(* Theorems about RedBlackTree, for any finite set of structs with any     *)
(* keys.                                                                   *)
(***************************************************************************)
EXTENDS RedBlackTree, FiniteSetTheorems, WellFoundedInduction, TLAPS

-----------------------------------------------------------------------------
(* Trees.                                                                  *)

Tree ==
  [root : Ptr, link : [Node -> [Side -> Ptr]], parent : [Node -> Ptr], red : [Node -> BOOLEAN]]

\* Key j is to side s of key k.
Beside(s, j, k) == IF s = "left" THEN j < k ELSE j > k

\* B gives the nodes below each node, and the node.
Subtrees(t, B) ==
  /\ B \in [Ptr -> SUBSET Node]
  /\ B[Nil] = {}
  /\ \A n \in Node : B[n] = {n} \cup B[t.link[n]["left"]] \cup B[t.link[n]["right"]]

Sorted(t, B) ==
  \A n \in Node, s \in Side : \A m \in B[t.link[n][s]] : Beside(s, Key[m], Key[n])

\* The pointers to parents are right, and what is not in the tree has no children.
Linked(t, B) ==
  /\ \A n \in Node, s \in Side : t.link[n][s] # Nil => t.parent[t.link[n][s]] = n
  /\ t.root # Nil => t.parent[t.root] = Nil
  /\ \A n \in Node : n \notin B[t.root] => \A s \in Side : t.link[n][s] = Nil

Shape(t, B) == t \in Tree /\ Subtrees(t, B) /\ Sorted(t, B) /\ Linked(t, B)

LEMMA KeyIs == ASSUME NEW n \in Node PROVE Key[n] \in Nat
BY TreeAssumption DEF TreeAssumption

LEMMA NilIs == Nil \notin Node /\ Nil \in Ptr /\ Node \subseteq Ptr
BY TreeAssumption DEF TreeAssumption, Ptr

LEMMA Sides ==
  /\ "left" \in Side /\ "right" \in Side /\ "left" # "right"
  /\ \A s \in Side : s = "left" \/ s = "right"
  /\ \A s \in Side : Other(s) \in Side /\ Other(s) # s /\ Other(Other(s)) = s
  /\ \A s, z \in Side : z = s \/ z = Other(s)
BY DEF Side, Other

LEMMA BesideIs ==
  ASSUME NEW j \in Nat, NEW k \in Nat, NEW l \in Nat, NEW s \in Side
  PROVE  /\ ~ Beside(s, j, j)
         /\ Beside(s, j, k) <=> Beside(Other(s), k, j)
         /\ ~ (Beside(s, j, k) /\ Beside(Other(s), j, k))
         /\ Beside(s, j, k) /\ Beside(s, k, l) => Beside(s, j, l)
         /\ j # k => Beside(s, j, k) \/ Beside(Other(s), j, k)
BY Sides DEF Beside, Other, Side

\* A child is a node or Nil.
LEMMA LinkIs ==
  ASSUME NEW t \in Tree, NEW n \in Node, NEW s \in Side
  PROVE  t.link[n][s] \in Ptr /\ t.parent[n] \in Ptr
BY DEF Tree

\* The subtree below a node is that of its children and the node.
LEMMA SubtreeIs ==
  ASSUME NEW t, NEW B, Shape(t, B), NEW n \in Node, NEW s \in Side
  PROVE  /\ t.link[n][s] \in Ptr
         /\ B[t.link[n][s]] \subseteq B[n]
         /\ B[n] = {n} \cup B[t.link[n][s]] \cup B[t.link[n][Other(s)]]
         /\ B[n] \subseteq Node
         /\ n \in B[n]
         /\ n \notin B[t.link[n][s]]
<1>1. t.link[n][s] \in Ptr
  BY LinkIs DEF Shape
<1>2. B[n] = {n} \cup B[t.link[n]["left"]] \cup B[t.link[n]["right"]] /\ B[n] \subseteq Node
  BY NilIs DEF Shape, Subtrees
<1>3. B[n] = {n} \cup B[t.link[n][s]] \cup B[t.link[n][Other(s)]]
  BY <1>2, Sides DEF Other
<1>4. n \notin B[t.link[n][s]]
  <2> SUFFICES ASSUME n \in B[t.link[n][s]] PROVE FALSE
    OBVIOUS
  <2>1. Beside(s, Key[n], Key[n])
    BY DEF Shape, Sorted
  <2> QED
    BY <2>1, KeyIs, BesideIs
<1> QED
  BY <1>1, <1>2, <1>3, <1>4

-----------------------------------------------------------------------------
(* Induction over trees.                                                   *)

LEMMA LeastNumber ==
  ASSUME NEW T \in SUBSET Nat, T # {}
  PROVE  \E x \in T : \A y \in T : x <= y
<1> DEFINE R == OpToRel(<, Nat)
<1>1. IsWellFoundedOn(R, Nat)
  BY NatLessThanWellFounded
<1>2. \A x, y \in Nat : y < x => <<y, x>> \in R
  BY DEF OpToRel
<1> HIDE DEF R
<1>3. PICK x \in T : \A y \in T : ~ (<<y, x>> \in R)
  BY <1>1, WFMin
<1>4. \A y \in T : ~ (y < x)
  BY <1>2, <1>3
<1>5. \A y \in T : x <= y
  BY <1>4
<1> QED
  BY <1>5

LEMMA Induction ==
  ASSUME NEW S, 0 \in S, \A n \in Nat : n \in S => n + 1 \in S
  PROVE  \A n \in Nat : n \in S
<1> DEFINE T == Nat \ S
<1> SUFFICES ASSUME T # {} PROVE FALSE
  OBVIOUS
<1>1. PICK x \in T : \A y \in T : x <= y
  BY LeastNumber
<1>2. x - 1 \in Nat /\ x - 1 \notin T
  BY <1>1
<1> QED
  BY <1>1, <1>2

\* The number of nodes below n.
Size(B, n) == Cardinality(B[n])

LEMMA SizeIs ==
  ASSUME NEW t, NEW B, Shape(t, B), NEW n \in Ptr
  PROVE  IsFiniteSet(B[n]) /\ Size(B, n) \in Nat /\ Size(B, n) <= Cardinality(Node)
<1>1. B[n] \in SUBSET Node
  BY DEF Shape, Subtrees
<1> QED
  BY <1>1, TreeAssumption, FS_Subset, FS_CardinalityType DEF TreeAssumption, Size

LEMMA Smaller ==
  ASSUME NEW t, NEW B, Shape(t, B), NEW n \in Node, NEW s \in Side
  PROVE  Size(B, t.link[n][s]) < Size(B, n)
<1> DEFINE S == B[n]
           T == B[t.link[n][s]]
<1>1. T \subseteq S /\ n \in S /\ n \notin T /\ t.link[n][s] \in Ptr /\ n \in Ptr
  BY SubtreeIs, NilIs
<1>2. IsFiniteSet(S) /\ Cardinality(S) \in Nat /\ Cardinality(T) \in Nat
  BY <1>1, SizeIs DEF Size
<1> HIDE DEF S, T
<1>3. Cardinality(T) <= Cardinality(S) /\ (Cardinality(S) = Cardinality(T) => S = T)
  BY <1>1, <1>2, FS_Subset
<1>4. Cardinality(T) < Cardinality(S)
  BY <1>1, <1>2, <1>3
<1> QED
  BY <1>4 DEF Size, S, T

\* What holds of a node when it holds of its children holds of all.
LEMMA Upward ==
  ASSUME NEW t, NEW B, Shape(t, B), NEW P, Nil \in P,
         \A n \in Node : (\A s \in Side : t.link[n][s] \in P) => n \in P
  PROVE  \A n \in Ptr : n \in P
<1> DEFINE Bad == {n \in Ptr : n \notin P}
           Sizes == {Size(B, n) : n \in Bad}
<1> SUFFICES ASSUME Bad # {} PROVE FALSE
  OBVIOUS
<1>1. Sizes \in SUBSET Nat /\ Sizes # {}
  BY SizeIs
<1>2. PICK x \in Sizes : \A y \in Sizes : x <= y
  BY <1>1, LeastNumber
<1>3. PICK n \in Bad : x = Size(B, n)
  BY <1>2
<1>4. n \in Node
  BY <1>3 DEF Ptr
<1>5. PICK s \in Side : t.link[n][s] \notin P
  BY <1>3, <1>4
<1> DEFINE c == t.link[n][s]
<1>6. c \in Bad
  BY <1>4, <1>5, SubtreeIs
<1>7. Size(B, c) < Size(B, n)
  BY <1>4, Smaller
<1>8. Size(B, n) <= Size(B, c) /\ Size(B, n) \in Nat /\ Size(B, c) \in Nat
  BY <1>2, <1>3, <1>6, SizeIs
<1> QED
  BY <1>7, <1>8

\* A recursion over the tree, F at the nodes and v at Nil, defines a function.
Solves(t, V, v, F, f) ==
  /\ f \in [Ptr -> V] /\ f[Nil] = v
  /\ \A n \in Node : f[n] = F[<<n, f[t.link[n]["left"]], f[t.link[n]["right"]]>>]

LEMMA Recursion ==
  ASSUME NEW t, NEW B, Shape(t, B), NEW V, NEW v \in V, NEW F \in [Node \X V \X V -> V]
  PROVE  \E f : Solves(t, V, v, F, f)
<1> DEFINE Is(f, n) == f[n] = F[<<n, f[t.link[n]["left"]], f[t.link[n]["right"]]>>]
           Good(k, f) == f[Nil] = v /\ \A n \in Node : Size(B, n) <= k => Is(f, n)
           K == {k \in Nat : \E f \in [Ptr -> V] : Good(k, f)}
<1>1. \A n \in Node : Size(B, n) \in Nat \ {0}
  <2> TAKE n \in Node
  <2>1. n \in B[n] /\ IsFiniteSet(B[n]) /\ Size(B, n) \in Nat
    BY SubtreeIs, SizeIs, NilIs, Sides
  <2> QED
    BY <2>1, FS_EmptySet DEF Size
<1>2. \A n \in Node, s \in Side : t.link[n][s] \in Ptr
  BY SubtreeIs
<1>3. 0 \in K
  <2> DEFINE f == [n \in Ptr |-> v]
  <2>1. f \in [Ptr -> V] /\ f[Nil] = v
    BY NilIs
  <2> HIDE DEF f
  <2>2. \A n \in Node : ~ (Size(B, n) <= 0)
    BY <1>1
  <2>3. Good(0, f)
    BY <2>1, <2>2
  <2> QED
    BY <2>1, <2>3
<1>4. ASSUME NEW k \in Nat, k \in K PROVE k + 1 \in K
  <2>1. PICK f \in [Ptr -> V] : Good(k, f)
    BY <1>4
  <2> DEFINE g == [n \in Ptr |->
                     IF n = Nil THEN v
                     ELSE F[<<n, f[t.link[n]["left"]], f[t.link[n]["right"]]>>]]
  <2>2. ASSUME NEW n \in Node
        PROVE  F[<<n, f[t.link[n]["left"]], f[t.link[n]["right"]]>>] \in V
    <3>1. f[t.link[n]["left"]] \in V /\ f[t.link[n]["right"]] \in V
      BY <1>2, <2>1, Sides
    <3> QED
      BY <3>1
  <2>3. g \in [Ptr -> V] /\ g[Nil] = v
    <3>1. \A n \in Ptr : n = Nil \/ n \in Node
      BY DEF Ptr
    <3> QED
      BY <2>2, <3>1, NilIs
  <2>4. \A n \in Node : g[n] = F[<<n, f[t.link[n]["left"]], f[t.link[n]["right"]]>>]
    BY NilIs
  <2> HIDE DEF g
  <2>5. \A c \in Ptr : Size(B, c) <= k => g[c] = f[c]
    BY <2>1, <2>3, <2>4 DEF Ptr
  <2>6. ASSUME NEW n \in Node, Size(B, n) <= k + 1 PROVE Is(g, n)
    <3>1. ASSUME NEW s \in Side PROVE g[t.link[n][s]] = f[t.link[n][s]]
      <4> DEFINE c == t.link[n][s]
      <4>1. c \in Ptr /\ Size(B, c) < Size(B, n)
        BY <1>2, Smaller
      <4>2. Size(B, c) \in Nat /\ Size(B, n) \in Nat
        BY <4>1, SizeIs, NilIs
      <4>3. Size(B, c) <= k
        BY <2>6, <4>1, <4>2
      <4> QED
        BY <2>5, <4>1, <4>3
    <3> QED
      BY <2>4, <3>1, Sides
  <2>7. Good(k + 1, g)
    BY <2>3, <2>6
  <2> QED
    BY <2>3, <2>7
<1>5. \A k \in Nat : k \in K
  <2> HIDE DEF K
  <2> QED
    BY <1>3, <1>4, Induction
<1> DEFINE all == Cardinality(Node)
<1>6. all \in Nat
  BY TreeAssumption, FS_CardinalityType DEF TreeAssumption
<1>7. PICK f \in [Ptr -> V] : Good(all, f)
  BY <1>5, <1>6
<1>8. \A n \in Node : Size(B, n) <= all
  BY SizeIs, NilIs
<1> QED
  BY <1>7, <1>8 DEF Solves

\* and only one.
SameStep(t, f, g) ==
  /\ f[Nil] = g[Nil]
  /\ \A n \in Node :
       (\A s \in Side : f[t.link[n][s]] = g[t.link[n][s]]) => f[n] = g[n]

LEMMA Unique ==
  ASSUME NEW t, NEW B, Shape(t, B), NEW f, NEW g, SameStep(t, f, g)
  PROVE  \A n \in Ptr : f[n] = g[n]
<1> DEFINE P == {n \in Ptr : f[n] = g[n]}
<1>1. Nil \in P
  BY NilIs DEF SameStep
<1>2. ASSUME NEW n \in Node, \A s \in Side : t.link[n][s] \in P PROVE n \in P
  BY <1>2, NilIs DEF SameStep
<1> HIDE DEF P
<1>3. \A n \in Ptr : n \in P
  BY <1>1, <1>2, Upward
<1> QED
  BY <1>3 DEF P

\* The nodes below a node, as a recursion computes them.
LEMMA BelowIs ==
  ASSUME NEW t, NEW B, Shape(t, B), NEW n \in Ptr
  PROVE  Below(t, n) = B[n]
<1> DEFINE Is(g) == g = [m \in Node \cup {Nil} |->
                           IF m = Nil THEN {} ELSE {m} \cup UNION {g[t.link[m][s]] : s \in Side}]
           down == CHOOSE g : Is(g)
<1>1. Below(t, n) = down[n]
  BY Zenon DEF Below
<1>2. Is(B)
  <2>1. B \in [Ptr -> SUBSET Node] /\ B[Nil] = {}
    BY DEF Shape, Subtrees
  <2>2. ASSUME NEW m \in Node PROVE B[m] = {m} \cup UNION {B[t.link[m][s]] : s \in Side}
    <3>1. B[m] = {m} \cup B[t.link[m]["left"]] \cup B[t.link[m]["right"]]
      BY DEF Shape, Subtrees
    <3> QED
      BY <3>1 DEF Side
  <2> QED
    BY <2>1, <2>2, NilIs DEF Ptr
<1>3. Is(down)
  <2> HIDE DEF Is
  <2> QED
    BY <1>2
<1> HIDE DEF down
<1>4. \A m \in Node : down[m] = {m} \cup UNION {down[t.link[m][s]] : s \in Side}
  BY <1>3, NilIs
<1>5. \A m \in Node : B[m] = {m} \cup UNION {B[t.link[m][s]] : s \in Side}
  BY <1>2, NilIs
<1>6. down[Nil] = {} /\ B[Nil] = {}
  BY <1>2, <1>3
<1>7. \A m \in Node : (\A s \in Side : down[t.link[m][s]] = B[t.link[m][s]]) => down[m] = B[m]
  <2> SUFFICES ASSUME NEW m \in Node, \A s \in Side : down[t.link[m][s]] = B[t.link[m][s]]
               PROVE  down[m] = B[m]
    OBVIOUS
  <2>1. {down[t.link[m][s]] : s \in Side} = {B[t.link[m][s]] : s \in Side}
    OBVIOUS
  <2> QED
    BY <1>4, <1>5, <2>1
<1> HIDE DEF Is
<1>8. SameStep(t, down, B)
  BY <1>6, <1>7 DEF SameStep
<1>9. \A m \in Ptr : down[m] = B[m]
  BY <1>8, Unique
<1> QED
  BY <1>1, <1>9

\* What is below a node has its own nodes below that node, and its parent too.
LEMMA Deeper ==
  ASSUME NEW t, NEW B, Shape(t, B), NEW x \in Ptr, NEW n \in B[x]
  PROVE  /\ x \in Node /\ n \in Node /\ B[n] \subseteq B[x]
         /\ n # x => /\ t.parent[n] \in Node /\ t.parent[n] \in B[x]
                     /\ \E s \in Side : t.link[t.parent[n]][s] = n
<1> DEFINE Hung(m, y) == /\ t.parent[m] \in Node /\ t.parent[m] \in B[y]
                         /\ \E s \in Side : t.link[t.parent[m]][s] = m
           P == {y \in Ptr : \A m \in B[y] : B[m] \subseteq B[y] /\ (m # y => Hung(m, y))}
<1>1. B[Nil] = {} /\ Nil \in P
  BY NilIs DEF Shape, Subtrees
<1>2. ASSUME NEW y \in Node, \A s \in Side : t.link[y][s] \in P PROVE y \in P
  <2> SUFFICES ASSUME NEW m \in B[y] PROVE B[m] \subseteq B[y] /\ (m # y => Hung(m, y))
    BY NilIs
  <2>1. CASE m = y
    BY <2>1
  <2>2. CASE m # y
    <3>1. PICK s \in Side : m \in B[t.link[y][s]]
      BY <2>2, SubtreeIs, Sides
    <3> DEFINE c == t.link[y][s]
    <3>2. c \in Node /\ B[c] \subseteq B[y] /\ y \in B[y]
      BY <1>1, <3>1, SubtreeIs DEF Ptr
    <3>3. t.parent[c] = y
      BY <3>2, NilIs DEF Shape, Linked
    <3>4. B[m] \subseteq B[c] /\ (m # c => Hung(m, c))
      BY <1>2, <3>1
    <3>5. CASE m = c
      BY <3>2, <3>3, <3>4, <3>5
    <3>6. CASE m # c
      BY <3>2, <3>4, <3>6
    <3> QED
      BY <3>5, <3>6
  <2> QED
    BY <2>1, <2>2
<1> HIDE DEF P
<1>3. x \in P
  BY <1>1, <1>2, Upward
<1>4. x \in Node /\ n \in Node
  <2>1. x # Nil
    BY <1>1
  <2> QED
    BY <2>1, SubtreeIs, Sides DEF Ptr
<1> QED
  BY <1>3, <1>4 DEF P

\* The keys of a subtree.
LEMMA SortedIs ==
  ASSUME NEW t, NEW B, Shape(t, B), NEW n \in Node, NEW s \in Side, NEW m \in B[t.link[n][s]]
  PROVE  m \in Node /\ Beside(s, Key[m], Key[n]) /\ m \notin B[t.link[n][Other(s)]]
<1>1. m \in Node /\ t.link[n][s] \in Ptr
  BY SubtreeIs, Deeper
<1>2. Beside(s, Key[m], Key[n])
  BY DEF Shape, Sorted
<1>3. m \in B[t.link[n][Other(s)]] => Beside(Other(s), Key[m], Key[n])
  BY Sides DEF Shape, Sorted
<1> QED
  BY <1>1, <1>2, <1>3, KeyIs, BesideIs

\* Changes of colours change nothing else.
LEMMA Recoloured ==
  ASSUME NEW t, NEW B, Shape(t, B), NEW u \in Tree,
         u.root = t.root, u.link = t.link, u.parent = t.parent
  PROVE  Shape(u, B)
BY DEF Shape, Subtrees, Sorted, Linked

-----------------------------------------------------------------------------
(* Changes of links.                                                       *)

\* u is t with the child c on side s of n.
LinkSet(t, u, n, s, c) ==
  /\ u \in Tree /\ u.root = t.root /\ u.parent = t.parent /\ u.red = t.red
  /\ \A x \in Node, z \in Side : u.link[x][z] = IF x = n /\ z = s THEN c ELSE t.link[x][z]

\* u is t with the parent p of n, if n is a node.
ParentSet(t, u, n, p) ==
  /\ u \in Tree /\ u.root = t.root /\ u.link = t.link /\ u.red = t.red
  /\ \A x \in Node : u.parent[x] = IF x = n THEN p ELSE t.parent[x]

\* u is t with n in the place of old below p.
Replaced(t, u, p, old, n) ==
  /\ u \in Tree /\ u.parent = t.parent /\ u.red = t.red
  /\ u.root = IF p = Nil THEN n ELSE t.root
  /\ \A x \in Node, z \in Side :
       u.link[x][z] = IF x = p /\ z = SideOf(t, old, p) THEN n ELSE t.link[x][z]

\* u is t with n on side s of p.
Hung(t, u, p, s, n) ==
  /\ u \in Tree /\ u.root = t.root /\ u.red = t.red
  /\ \A x \in Node, z \in Side : u.link[x][z] = IF x = p /\ z = s THEN n ELSE t.link[x][z]
  /\ \A x \in Node : u.parent[x] = IF x = n THEN p ELSE t.parent[x]

\* u is t with m, the child of n that goes up, above n, and c, the one that changes
\* sides, below n; p is the parent.
Rotated(t, u, n, s, m, c, p) ==
  /\ u \in Tree /\ u.red = t.red
  /\ u.root = IF p = Nil THEN m ELSE t.root
  /\ \A x \in Node, z \in Side :
       u.link[x][z] = IF x = n /\ z = Other(s) THEN c
                      ELSE IF x = m /\ z = s THEN n
                      ELSE IF x = p /\ z = SideOf(t, n, p) THEN m
                      ELSE t.link[x][z]
  /\ \A x \in Node :
       u.parent[x] = IF x = n THEN m ELSE IF x = m THEN p ELSE IF x = c THEN n
                     ELSE t.parent[x]

LEMMA SetLink ==
  ASSUME NEW t \in Tree, NEW n \in Node, NEW s \in Side, NEW c \in Ptr
  PROVE  LinkSet(t, [t EXCEPT !.link[n][s] = c], n, s, c)
BY DEF Tree, LinkSet

LEMMA SetParent ==
  ASSUME NEW t \in Tree, NEW n \in Ptr, NEW p \in Ptr
  PROVE  ParentSet(t, [t EXCEPT !.parent = IF n = Nil THEN @ ELSE [@ EXCEPT ![n] = p]], n, p)
BY NilIs DEF Tree, Ptr, ParentSet

LEMMA SideOfIs == ASSUME NEW t, NEW n, NEW p PROVE SideOf(t, n, p) \in Side
BY Sides DEF SideOf

LEMMA ReplaceIs ==
  ASSUME NEW t \in Tree, NEW p \in Ptr, NEW old, NEW n \in Ptr
  PROVE  Replaced(t, Replace(t, p, old, n), p, old, n)
<1> DEFINE u == Replace(t, p, old, n)
           z == SideOf(t, old, p)
<1>1. CASE p = Nil
  BY <1>1, NilIs DEF Replace, Tree, Replaced
<1>2. CASE p # Nil
  <2>1. p \in Node /\ z \in Side /\ u = [t EXCEPT !.link[p][z] = n]
    BY <1>2, SideOfIs DEF Replace, Ptr
  <2>2. LinkSet(t, u, p, z, n)
    BY <2>1, SetLink
  <2> QED
    BY <1>2, <2>2 DEF LinkSet, Replaced
<1> QED
  BY <1>1, <1>2

LEMMA HangIs ==
  ASSUME NEW t \in Tree, NEW p \in Node, NEW s \in Side, NEW n \in Ptr
  PROVE  Hung(t, Hang(t, p, s, n), p, s, n)
<1> DEFINE v == [t EXCEPT !.link[p][s] = n]
           u == [v EXCEPT !.parent = IF n = Nil THEN @ ELSE [@ EXCEPT ![n] = p]]
<1>1. LinkSet(t, v, p, s, n)
  BY SetLink
<1>2. Hang(t, p, s, n) = u
  BY DEF Hang, Tree
<1>3. v \in Tree /\ p \in Ptr
  BY <1>1, NilIs DEF LinkSet
<1> HIDE DEF v
<1>4. ParentSet(v, u, n, p)
  BY <1>3, SetParent
<1> QED
  BY <1>1, <1>2, <1>4 DEF LinkSet, ParentSet, Hung

LEMMA RotateIs ==
  ASSUME NEW t \in Tree, NEW n \in Node, NEW s \in Side,
         NEW m \in Node, m = t.link[n][Other(s)], NEW c \in Ptr, c = t.link[m][s],
         NEW p \in Ptr, p = t.parent[n], n # m, p # n, p # m, c # n, c # m
  PROVE  Rotated(t, Rotate(t, n, s), n, s, m, c, p)
<1> DEFINE o == Other(s)
           u == Rotate(t, n, s)
           t1 == Hang(t, n, o, c)
           t3 == Replace(t1, p, n, m)
           t2 == [t3 EXCEPT !.parent[m] = p]
<1>1. u = Hang(t2, m, s, n)
  BY DEF Rotate
<1>2. o \in Side /\ o # s /\ n \in Ptr /\ m \in Ptr
  BY Sides, NilIs
<1>3. Hung(t, t1, n, o, c)
  BY <1>2, HangIs
<1> HIDE DEF t1
<1>4. t1 \in Tree
  BY <1>3 DEF Hung
<1>5. Replaced(t1, t3, p, n, m)
  BY <1>2, <1>4, ReplaceIs
<1> HIDE DEF t3
<1>6. t3 \in Tree
  BY <1>5 DEF Replaced
<1>7. /\ t2 \in Tree /\ t2.root = t3.root /\ t2.link = t3.link /\ t2.red = t3.red
      /\ \A x \in Node : t2.parent[x] = IF x = m THEN p ELSE t3.parent[x]
  BY <1>6 DEF Tree
<1> HIDE DEF t2
<1>8. Hung(t2, u, m, s, n)
  BY <1>1, <1>2, <1>7, HangIs
<1> HIDE DEF u
<1>9. p \in Node => SideOf(t1, n, p) = SideOf(t, n, p)
  BY <1>3, Sides DEF SideOf, Hung
<1>10. ASSUME NEW x \in Node, NEW z \in Side
       PROVE  u.link[x][z] = IF x = n /\ z = o THEN c
                             ELSE IF x = m /\ z = s THEN n
                             ELSE IF x = p /\ z = SideOf(t, n, p) THEN m
                             ELSE t.link[x][z]
  BY <1>2, <1>3, <1>5, <1>7, <1>8, <1>9 DEF Hung, Replaced
<1>11. ASSUME NEW x \in Node
       PROVE  u.parent[x] = IF x = n THEN m ELSE IF x = m THEN p ELSE IF x = c THEN n
                            ELSE t.parent[x]
  BY <1>3, <1>5, <1>7, <1>8 DEF Hung, Replaced
<1>12. u \in Tree /\ u.red = t.red /\ u.root = IF p = Nil THEN m ELSE t.root
  BY <1>3, <1>5, <1>7, <1>8 DEF Hung, Replaced
<1> QED
  BY <1>10, <1>11, <1>12 DEF Rotated, u

\* The place of a node of the tree.
LEMMA PlaceIs ==
  ASSUME NEW t, NEW B, Shape(t, B), NEW n \in B[t.root], NEW p, p = t.parent[n]
  PROVE  /\ n \in Node /\ t.root \in Node
         /\ n = t.root => p = Nil
         /\ n # t.root => p \in Node /\ p \in B[t.root] /\ t.link[p][SideOf(t, n, p)] = n
         /\ \A x \in Node, z \in Side : t.link[x][z] = n => x = p /\ z = SideOf(t, n, p)
         /\ p # n
<1>1. t.root \in Ptr
  BY DEF Shape, Tree
<1>2. n \in Node /\ t.root \in Node
  BY <1>1, Deeper
<1>3. n = t.root => p = Nil
  BY <1>2, NilIs DEF Shape, Linked
<1>4. n # t.root => p \in Node /\ p \in B[t.root] /\ \E z \in Side : t.link[p][z] = n
  BY <1>1, Deeper
<1>5. p \in Node /\ (\E z \in Side : t.link[p][z] = n) => t.link[p][SideOf(t, n, p)] = n
  BY Sides DEF SideOf
<1>6. ASSUME NEW x \in Node, NEW z \in Side, t.link[x][z] = n
      PROVE  x = p /\ z = SideOf(t, n, p)
  <2>1. x = p
    BY <1>2, <1>6, NilIs DEF Shape, Linked
  <2>2. n \in B[n]
    BY <1>2, SubtreeIs, Sides
  <2>3. n \notin B[t.link[x][Other(z)]]
    BY <1>6, <2>2, SortedIs
  <2>4. t.link[x][Other(z)] # n
    BY <2>2, <2>3
  <2> QED
    BY <1>6, <2>1, <2>4, Sides DEF SideOf, Other
<1>7. p # n
  <2> SUFFICES ASSUME p = n PROVE FALSE
    OBVIOUS
  <2>1. PICK z \in Side : t.link[n][z] = n
    BY <1>2, <1>3, <1>4, NilIs
  <2> QED
    BY <1>2, <2>1, SubtreeIs
<1> QED
  BY <1>2, <1>3, <1>4, <1>5, <1>6, <1>7

\* A rotation keeps the shape, and the nodes.
Turned(B, n, m, a, c) == [B EXCEPT ![n] = {n} \cup B[a] \cup B[c], ![m] = B[n]]

LEMMA RotateShape ==
  ASSUME NEW t, NEW B, Shape(t, B), NEW n \in B[t.root], NEW s \in Side,
         NEW m, m = t.link[n][Other(s)], m # Nil
  PROVE  /\ Shape(Rotate(t, n, s), Turned(B, n, m, t.link[n][s], t.link[m][s]))
         /\ Turned(B, n, m, t.link[n][s], t.link[m][s])[Rotate(t, n, s).root] = B[t.root]
         /\ Rotated(t, Rotate(t, n, s), n, s, m, t.link[m][s], t.parent[n])
<1> DEFINE o == Other(s)
           p == t.parent[n]
           a == t.link[n][s]
           c == t.link[m][s]
           d == t.link[m][o]
           u == Rotate(t, n, s)
           C == Turned(B, n, m, a, c)
<1>0. t \in Tree /\ B \in [Ptr -> SUBSET Node] /\ B[Nil] = {} /\ t.root \in Ptr
  BY DEF Shape, Subtrees, Tree
<1>1. n \in Node /\ m \in Node /\ o \in Side /\ o # s /\ Other(o) = s
  BY <1>0, Deeper, SubtreeIs, Sides DEF Ptr
<1>2. a \in Ptr /\ c \in Ptr /\ d \in Ptr /\ p \in Ptr /\ n \in Ptr /\ m \in Ptr
  BY <1>0, <1>1, LinkIs, NilIs
<1>3. /\ B[n] = {n} \cup B[a] \cup B[m] /\ n \notin B[a] /\ n \notin B[m]
      /\ B[m] = {m} \cup B[c] \cup B[d] /\ m \notin B[c] /\ m \notin B[d]
  <2> HIDE DEF p, u, C, o
  <2>1. B[n] = {n} \cup B[a] \cup B[m] /\ n \notin B[a]
    BY <1>1, SubtreeIs
  <2>2. B[m] = {m} \cup B[c] \cup B[d] /\ m \notin B[c]
    BY <1>1, SubtreeIs
  <2>3. n \notin B[t.link[n][o]] /\ m \notin B[d]
    BY <1>1, SubtreeIs
  <2>4. t.link[n][o] = m
    BY DEF o
  <2> QED
    BY <2>1, <2>2, <2>3, <2>4
<1>4. /\ m \in B[m] /\ m \notin B[a]
      /\ \A y \in B[m] : y \notin B[a]
      /\ \A y \in B[c] : y \notin B[d]
  BY <1>1, <1>3, SortedIs
<1>5. \A y \in Ptr : y = Nil \/ y \in B[y]
  BY SubtreeIs, Sides DEF Ptr
<1>6. n # m /\ c # n /\ c # m /\ a # n /\ a # m /\ d # n /\ d # m
  BY <1>1, <1>2, <1>3, <1>4, <1>5, NilIs
<1>7. /\ n = t.root => p = Nil
      /\ n # t.root => p \in Node /\ p \in B[t.root] /\ t.link[p][SideOf(t, n, p)] = n
      /\ \A x \in Node, z \in Side : t.link[x][z] = n => x = p /\ z = SideOf(t, n, p)
      /\ p # n
  BY PlaceIs
<1>8. p # m
  <2> SUFFICES ASSUME p = m PROVE FALSE
    OBVIOUS
  <2>1. t.link[m][SideOf(t, n, m)] = n /\ SideOf(t, n, m) \in Side
    BY <1>1, <1>7, NilIs, SideOfIs
  <2>2. n \in B[m]
    BY <1>1, <1>2, <1>5, <2>1, SubtreeIs, NilIs
  <2> QED
    BY <1>3, <2>2
<1>9. Rotated(t, u, n, s, m, c, p)
  BY <1>0, <1>1, <1>2, <1>6, <1>7, <1>8, RotateIs
<1>10. /\ C \in [Ptr -> SUBSET Node]
       /\ C[n] = {n} \cup B[a] \cup B[c] /\ C[m] = B[n]
       /\ \A x \in Ptr : x # n /\ x # m => C[x] = B[x]
  BY <1>0, <1>1, <1>2, <1>6 DEF Turned
<1>11. t.parent[m] = n /\ (c # Nil => t.parent[c] = m)
       /\ \A x \in Node, z \in Side : t.link[x][z] # Nil => t.parent[t.link[x][z]] = x
  BY <1>1 DEF Shape, Linked
<1> HIDE DEF u, C, o, p, a, c, d
<1>12. /\ u \in Tree /\ u.root = IF p = Nil THEN m ELSE t.root
       /\ \A x \in Node, z \in Side :
            u.link[x][z] = IF x = n /\ z = o THEN c
                           ELSE IF x = m /\ z = s THEN n
                           ELSE IF x = p /\ z = SideOf(t, n, p) THEN m
                           ELSE t.link[x][z]
       /\ \A x \in Node :
            u.parent[x] = IF x = n THEN m ELSE IF x = m THEN p ELSE IF x = c THEN n
                          ELSE t.parent[x]
  BY <1>9 DEF Rotated, o
<1>13. /\ u.link[n][o] = c /\ u.link[n][s] = a
       /\ u.link[m][o] = d /\ u.link[m][s] = n
  BY <1>1, <1>6, <1>7, <1>8, <1>12 DEF a, d
<1>14. ASSUME NEW x \in Node, x # n, x # m, NEW z \in Side
       PROVE  C[u.link[x][z]] = B[t.link[x][z]]
  <2>1. CASE x = p /\ z = SideOf(t, n, p)
    <3>1. u.link[x][z] = m /\ t.link[x][z] = n
      BY <1>7, <1>12, <1>14, <2>1, NilIs
    <3> QED
      BY <1>10, <3>1
  <2>2. CASE ~ (x = p /\ z = SideOf(t, n, p))
    <3>1. u.link[x][z] = t.link[x][z] /\ t.link[x][z] # n
      BY <1>7, <1>12, <1>14, <2>2
    <3>2. t.link[x][z] # m
      BY <1>1, <1>11, <1>14, NilIs
    <3>3. t.link[x][z] \in Ptr
      BY <1>0, LinkIs
    <3> QED
      BY <1>10, <3>1, <3>2, <3>3
  <2> QED
    BY <2>1, <2>2
<1>15. C[a] = B[a] /\ C[c] = B[c] /\ C[d] = B[d]
  BY <1>2, <1>6, <1>10
<1>16. Subtrees(u, C)
  <2>1. C[Nil] = {}
    BY <1>0, <1>1, <1>10, NilIs
  <2>2. ASSUME NEW x \in Node
        PROVE  C[x] = {x} \cup C[u.link[x]["left"]] \cup C[u.link[x]["right"]]
    <3>1. CASE x = n
      <4>1. C[n] = {n} \cup C[u.link[n][s]] \cup C[u.link[n][o]]
        BY <1>10, <1>13, <1>15
      <4> QED
        BY <1>1, <3>1, <4>1, Sides DEF o, Other
    <3>2. CASE x = m
      <4>1. C[m] = {m} \cup C[u.link[m][s]] \cup C[u.link[m][o]]
        BY <1>3, <1>10, <1>13, <1>15
      <4> QED
        BY <1>1, <3>2, <4>1, Sides DEF o, Other
    <3>3. CASE x # n /\ x # m
      <4>1. C[x] = B[x] /\ B[x] = {x} \cup B[t.link[x]["left"]] \cup B[t.link[x]["right"]]
        BY <1>10, <3>3, NilIs DEF Shape, Subtrees
      <4> QED
        BY <1>14, <3>3, <4>1, Sides
    <3> QED
      BY <3>1, <3>2, <3>3
  <2> QED
    BY <1>10, <2>1, <2>2 DEF Subtrees
<1>17. Sorted(u, C)
  <2> SUFFICES ASSUME NEW x \in Node, NEW z \in Side, NEW y \in C[u.link[x][z]]
               PROVE  Beside(z, Key[y], Key[x])
    BY DEF Sorted
  <2>1. CASE x = n /\ z = s
    <3>1. y \in B[a]
      BY <1>13, <1>15, <2>1
    <3> QED
      BY <1>1, <2>1, <3>1, SortedIs DEF a
  <2>2. CASE x = n /\ z = o
    <3>1. y \in B[m]
      BY <1>3, <1>13, <1>15, <2>2
    <3> QED
      BY <1>1, <2>2, <3>1, SortedIs DEF o
  <2>3. CASE x = m /\ z = o
    <3>1. y \in B[d]
      BY <1>13, <1>15, <2>3
    <3> QED
      BY <1>1, <2>3, <3>1, SortedIs DEF d
  <2>4. CASE x = m /\ z = s
    <3>1. y \in {n} \cup B[a] \cup B[c]
      BY <1>10, <1>13, <2>4
    <3>2. Beside(s, Key[n], Key[m])
      <4>1. Beside(o, Key[m], Key[n])
        BY <1>1, <1>4, SortedIs DEF o
      <4> QED
        BY <1>1, <4>1, KeyIs, BesideIs
    <3>3. CASE y \in B[a]
      <4>1. y \in Node /\ Beside(s, Key[y], Key[n])
        BY <1>1, <3>3, SortedIs DEF a
      <4> QED
        BY <1>1, <2>4, <3>2, <4>1, KeyIs, BesideIs
    <3>4. CASE y \in B[c]
      BY <1>1, <2>4, <3>4, SortedIs DEF c
    <3> QED
      BY <2>4, <3>1, <3>2, <3>3, <3>4
  <2>5. CASE x # n /\ x # m
    BY <1>14, <2>5, SortedIs
  <2> QED
    BY <1>1, <2>1, <2>2, <2>3, <2>4, <2>5, Sides DEF o
<1>18. C[u.root] = B[t.root]
  <2>1. CASE p = Nil
    BY <1>7, <1>10, <1>12, <2>1, NilIs
  <2>2. CASE p # Nil
    <3>1. u.root = t.root /\ t.root # n
      BY <1>7, <1>12, <2>2
    <3>2. t.root # m
      BY <1>1, <1>11, NilIs DEF Shape, Linked
    <3> QED
      BY <1>0, <1>10, <3>1, <3>2
  <2> QED
    BY <2>1, <2>2
<1>19. Linked(u, C)
  <2>1. ASSUME NEW x \in Node, NEW z \in Side, u.link[x][z] # Nil
        PROVE  u.parent[u.link[x][z]] = x
    <3>1. CASE x = n /\ z = s
      <4>1. a \in Node /\ t.parent[a] = n /\ a # c
        BY <1>1, <1>2, <1>3, <1>4, <1>5, <1>11, <1>13, <2>1, <3>1 DEF a, Ptr
      <4> QED
        BY <1>6, <1>12, <1>13, <3>1, <4>1
    <3>2. CASE x = n /\ z = o
      <4>1. c \in Node
        BY <1>2, <1>13, <2>1, <3>2 DEF Ptr
      <4> QED
        BY <1>6, <1>12, <1>13, <3>2, <4>1
    <3>3. CASE x = m /\ z = s
      BY <1>1, <1>12, <1>13, <3>3
    <3>4. CASE x = m /\ z = o
      <4>1. d \in Node /\ t.parent[d] = m /\ d # c
        BY <1>1, <1>2, <1>4, <1>5, <1>11, <1>13, <2>1, <3>4 DEF d, Ptr
      <4> QED
        BY <1>6, <1>12, <1>13, <3>4, <4>1
    <3>5. CASE x # n /\ x # m /\ x = p /\ z = SideOf(t, n, p)
      BY <1>1, <1>6, <1>12, <3>5
    <3>6. CASE x # n /\ x # m /\ ~ (x = p /\ z = SideOf(t, n, p))
      <4> DEFINE y == t.link[x][z]
      <4>1. u.link[x][z] = y
        BY <1>12, <3>6
      <4>2. y \in Node /\ t.parent[y] = x /\ y # n
        BY <1>0, <1>7, <1>11, <2>1, <3>6, <4>1, LinkIs DEF Ptr
      <4>3. y # m /\ y # c
        BY <1>11, <3>6, <4>2, NilIs
      <4> QED
        BY <1>12, <4>1, <4>2, <4>3
    <3> QED
      BY <1>1, <3>1, <3>2, <3>3, <3>4, <3>5, <3>6, Sides DEF o
  <2>2. u.root # Nil => u.parent[u.root] = Nil
    <3>1. CASE p = Nil
      BY <1>1, <1>6, <1>12, <3>1
    <3>2. CASE p # Nil
      <4>1. u.root = t.root /\ t.root # n /\ t.root \in Node
        BY <1>7, <1>12, <3>2, PlaceIs
      <4>2. t.parent[t.root] = Nil
        BY <4>1, NilIs DEF Shape, Linked
      <4>3. t.root # m /\ t.root # c
        BY <1>1, <1>11, <4>1, <4>2, NilIs
      <4> QED
        BY <1>12, <4>1, <4>2, <4>3
    <3> QED
      BY <3>1, <3>2
  <2>3. ASSUME NEW x \in Node, x \notin C[u.root], NEW z \in Side PROVE u.link[x][z] = Nil
    <3>1. x \notin B[t.root]
      BY <1>18, <2>3
    <3>2. x # n /\ x # m /\ x # p
      <4>1. m \in B[n] /\ B[n] \subseteq B[t.root]
        BY <1>0, <1>3, <1>4, Deeper
      <4> QED
        BY <1>7, <2>3, <3>1, <4>1, NilIs
    <3>3. u.link[x][z] = t.link[x][z]
      BY <1>12, <3>2
    <3> QED
      BY <3>1, <3>3 DEF Shape, Linked
  <2> QED
    BY <2>1, <2>2, <2>3 DEF Linked
<1> QED
  BY <1>9, <1>12, <1>16, <1>17, <1>18, <1>19 DEF Shape, u, C, a, c, p

-----------------------------------------------------------------------------
(* The way down to a key.                                                  *)

LEMMA TowardIs ==
  ASSUME NEW k \in Nat, NEW n \in Node
  PROVE  /\ Toward(k, n) \in Side
         /\ Key[n] # k => Beside(Toward(k, n), k, Key[n])
BY KeyIs, Sides DEF Toward, Beside

\* No node is below another that is below it.
LEMMA Apart ==
  ASSUME NEW t, NEW B, Shape(t, B), NEW y \in Node, NEW x \in B[y], y \in B[x]
  PROVE  x = y
<1> SUFFICES ASSUME x # y PROVE FALSE
  OBVIOUS
<1>1. PICK s \in Side : x \in B[t.link[y][s]]
  BY SubtreeIs, Sides
<1>2. t.link[y][s] \in Ptr
  BY SubtreeIs
<1>3. B[x] \subseteq B[t.link[y][s]]
  BY <1>1, <1>2, Deeper
<1> QED
  BY <1>3, SubtreeIs

\* Where RB_INSERT looks for the place of key k below y and stops at p.
Stops(t, k, p) == Key[p] = k \/ t.link[p][Toward(k, p)] = Nil

Reached(t, B, k, y, p) ==
  /\ p \in B[y] /\ Stops(t, k, p)
  /\ \A x \in B[y], z \in Side : p \in B[t.link[x][z]] => Beside(z, k, Key[x])

LEMMA LastIs ==
  ASSUME NEW t, NEW B, Shape(t, B), NEW k \in Nat
  PROVE  /\ t.root = Nil => Last(t, k) = Nil
         /\ t.root # Nil => Reached(t, B, k, t.root, Last(t, k))
<1> DEFINE Is(g) == g = [n \in Node |->
                           IF Key[n] = k \/ t.link[n][Toward(k, n)] = Nil THEN n
                           ELSE g[t.link[n][Toward(k, n)]]]
           down == CHOOSE g : Is(g)
<1>1. Last(t, k) = IF t.root = Nil THEN Nil ELSE down[t.root]
  BY Zenon DEF Last
<1>2. \A n \in Node : Toward(k, n) \in Side
  BY TowardIs
<1>3. \E g : Is(g)
  <2> DEFINE F == [q \in Node \X Ptr \X Ptr |->
                     IF Stops(t, k, q[1]) THEN q[1]
                     ELSE IF Toward(k, q[1]) = "left" THEN q[2] ELSE q[3]]
  <2>1. F \in [Node \X Ptr \X Ptr -> Ptr]
    BY NilIs
  <2>2. \A n \in Node, b, c \in Ptr :
          F[<<n, b, c>>] = IF Stops(t, k, n) THEN n ELSE IF Toward(k, n) = "left" THEN b ELSE c
    OBVIOUS
  <2> HIDE DEF F
  <2>3. PICK f : Solves(t, Ptr, Nil, F, f)
    BY <2>1, NilIs, Recursion
  <2> DEFINE g == [n \in Node |-> f[n]]
  <2>4. ASSUME NEW n \in Node
        PROVE  f[n] = IF Stops(t, k, n) THEN n ELSE f[t.link[n][Toward(k, n)]]
    <3>1. f[t.link[n]["left"]] \in Ptr /\ f[t.link[n]["right"]] \in Ptr
      BY <2>3, SubtreeIs, Sides DEF Solves
    <3>2. f[n] = IF Stops(t, k, n) THEN n
                 ELSE IF Toward(k, n) = "left" THEN f[t.link[n]["left"]]
                 ELSE f[t.link[n]["right"]]
      BY <2>2, <2>3, <3>1 DEF Solves
    <3> QED
      BY <1>2, <3>2, Sides
  <2>5. \A n \in Node : ~ Stops(t, k, n) => t.link[n][Toward(k, n)] \in Node
    BY <1>2, SubtreeIs DEF Stops, Ptr
  <2>6. Is(g)
    BY <2>4, <2>5 DEF Stops
  <2> QED
    BY <2>6
<1>4. Is(down)
  <2> HIDE DEF Is
  <2> QED
    BY <1>3
<1>5. \A n \in Node : down[n] = IF Stops(t, k, n) THEN n ELSE down[t.link[n][Toward(k, n)]]
  BY <1>4 DEF Stops
<1> HIDE DEF down, Is
<1> DEFINE P == {y \in Ptr : y # Nil => Reached(t, B, k, y, down[y])}
<1>6. Nil \in P
  BY NilIs
<1>7. ASSUME NEW y \in Node, \A s \in Side : t.link[y][s] \in P PROVE y \in P
  <2> SUFFICES Reached(t, B, k, y, down[y])
    BY NilIs
  <2>1. CASE Stops(t, k, y)
    <3>1. down[y] = y /\ y \in B[y]
      BY <1>5, <2>1, SubtreeIs, Sides
    <3>2. ASSUME NEW x \in B[y], NEW z \in Side, y \in B[t.link[x][z]] PROVE FALSE
      <4>1. x \in Node
        BY NilIs, Deeper
      <4>2. y \in B[x]
        BY <3>2, <4>1, SubtreeIs
      <4>3. x = y
        BY <4>2, Apart
      <4> QED
        BY <3>2, <4>3, SubtreeIs
    <3> QED
      BY <2>1, <3>1, <3>2 DEF Reached
  <2>2. CASE ~ Stops(t, k, y)
    <3> DEFINE s == Toward(k, y)
               c == t.link[y][s]
               p == down[c]
    <3>1. s \in Side /\ c \in Node /\ Beside(s, k, Key[y]) /\ down[y] = p
      BY <1>2, <1>5, <2>2, SubtreeIs, TowardIs DEF Stops, Ptr
    <3> HIDE DEF s
    <3>2. Reached(t, B, k, c, p)
      BY <1>7, <3>1, NilIs
    <3> HIDE DEF p
    <3>3. p \in B[c] /\ Stops(t, k, p) /\ p \in B[y] /\ p \notin B[t.link[y][Other(s)]]
      BY <3>1, <3>2, SubtreeIs, SortedIs DEF Reached
    <3>4. ASSUME NEW x \in B[y], NEW z \in Side, p \in B[t.link[x][z]]
          PROVE  Beside(z, k, Key[x])
      <4>1. x \in Node /\ p \in B[x]
        BY <3>4, NilIs, Deeper, SubtreeIs
      <4>2. CASE x = y
        BY <3>1, <3>3, <3>4, <4>2, Sides
      <4>3. CASE x \in B[c]
        BY <3>2, <3>4, <4>3 DEF Reached
      <4>4. CASE x \in B[t.link[y][Other(s)]]
        <5>1. t.link[y][Other(s)] \in Ptr
          BY <3>1, Sides, SubtreeIs
        <5>2. B[x] \subseteq B[t.link[y][Other(s)]]
          BY <4>4, <5>1, Deeper
        <5> QED
          BY <3>3, <4>1, <5>2
      <4> QED
        BY <3>1, <4>2, <4>3, <4>4, SubtreeIs
    <3> QED
      BY <3>1, <3>3, <3>4 DEF Reached
  <2> QED
    BY <2>1, <2>2
<1> HIDE DEF P
<1>8. \A y \in Ptr : y \in P
  BY <1>6, <1>7, Upward
<1>9. t.root \in Ptr
  BY DEF Shape, Tree
<1> QED
  BY <1>1, <1>8, <1>9 DEF P

\* Two nodes, neither below the other, are on either side of a third.
Forks(t, B, y, n, m) ==
  \E a \in B[y], z \in Side : n \in B[t.link[a][z]] /\ m \in B[t.link[a][Other(z)]]

LEMMA Fork ==
  ASSUME NEW t, NEW B, Shape(t, B), NEW y \in Ptr, NEW n \in B[y], NEW m \in B[y],
         n \notin B[m], m \notin B[n]
  PROVE  Forks(t, B, y, n, m)
<1> DEFINE P == {x \in Ptr : \A i, j \in B[x] : i \notin B[j] /\ j \notin B[i] => Forks(t, B, x, i, j)}
<1>1. Nil \in P
  BY NilIs DEF Shape, Subtrees
<1>2. ASSUME NEW x \in Node, \A s \in Side : t.link[x][s] \in P PROVE x \in P
  <2> SUFFICES ASSUME NEW i \in B[x], NEW j \in B[x], i \notin B[j], j \notin B[i]
               PROVE  Forks(t, B, x, i, j)
    BY NilIs
  <2>1. i # x /\ j # x
    OBVIOUS
  <2>2. PICK s \in Side : i \in B[t.link[x][s]]
    BY <2>1, SubtreeIs, Sides
  <2>3. CASE j \in B[t.link[x][s]]
    <3>1. Forks(t, B, t.link[x][s], i, j)
      BY <1>2, <2>2, <2>3
    <3>2. B[t.link[x][s]] \subseteq B[x]
      BY SubtreeIs
    <3> QED
      BY <3>1, <3>2 DEF Forks
  <2>4. CASE j \notin B[t.link[x][s]]
    <3>1. j \in B[t.link[x][Other(s)]] /\ x \in B[x]
      BY <2>1, <2>4, SubtreeIs
    <3> QED
      BY <2>2, <3>1 DEF Forks
  <2> QED
    BY <2>3, <2>4
<1> HIDE DEF P
<1>3. y \in P
  BY <1>1, <1>2, Upward
<1> QED
  BY <1>3 DEF P

\* A node with the key is found on the way down.
LEMMA OnTheWay ==
  ASSUME NEW t, NEW B, Shape(t, B), NEW k \in Nat, NEW y \in Ptr, NEW p, Reached(t, B, k, y, p),
         NEW m \in B[y], Key[m] = k
  PROVE  p = m
<1>1. /\ p \in B[y] /\ Stops(t, k, p)
      /\ \A x \in B[y], z \in Side : p \in B[t.link[x][z]] => Beside(z, k, Key[x])
  BY DEF Reached
<1>2. p \in Node /\ m \in Node
  BY <1>1, Deeper
<1>3. \A z \in Side : ~ Beside(z, k, k) /\ ~ Beside(z, Key[m], Key[m])
  BY <1>2, KeyIs, BesideIs
<1>4. p \in B[m] => p = m
  <2> SUFFICES ASSUME p \in B[m], p # m PROVE FALSE
    OBVIOUS
  <2>1. PICK z \in Side : p \in B[t.link[m][z]]
    BY <1>2, SubtreeIs, Sides
  <2> QED
    BY <1>1, <1>3, <2>1
<1>5. m \in B[p] => p = m
  <2> SUFFICES ASSUME m \in B[p], p # m PROVE FALSE
    OBVIOUS
  <2>1. PICK z \in Side : m \in B[t.link[p][z]]
    BY <1>2, SubtreeIs, Sides
  <2>2. Beside(z, k, Key[p])
    BY <1>2, <2>1, SortedIs
  <2>3. Key[p] # k
    BY <1>3, <2>2
  <2>4. Toward(k, p) = z
    <3>1. Toward(k, p) \in Side /\ Beside(Toward(k, p), k, Key[p])
      BY <1>2, <2>3, TowardIs
    <3> QED
      BY <1>2, <2>2, <3>1, KeyIs, BesideIs, Sides
  <2>5. t.link[p][z] = Nil
    BY <1>1, <2>3, <2>4 DEF Stops
  <2> QED
    BY <2>1, <2>5 DEF Shape, Subtrees
<1>6. ASSUME p \notin B[m], m \notin B[p] PROVE FALSE
  <2>1. Forks(t, B, y, p, m)
    BY <1>1, <1>6, Fork
  <2>2. PICK a \in B[y], z \in Side : p \in B[t.link[a][z]] /\ m \in B[t.link[a][Other(z)]]
    BY <2>1 DEF Forks
  <2>3. a \in Node
    BY Deeper
  <2>4. Beside(z, k, Key[a]) /\ Beside(Other(z), k, Key[a])
    BY <1>1, <2>2, <2>3, Sides, SortedIs
  <2> QED
    BY <2>3, <2>4, KeyIs, BesideIs
<1> QED
  BY <1>4, <1>5, <1>6

-----------------------------------------------------------------------------
(* Insertion.                                                              *)

\* The tree with the new node n below p, before it is balanced.
Grafted(t, n, p) ==
  LET v == [t EXCEPT !.link[n] = [s \in Side |-> Nil], !.parent[n] = p, !.red[n] = TRUE]
  IN  IF p = Nil THEN [v EXCEPT !.root = n] ELSE [v EXCEPT !.link[p][Toward(Key[n], p)] = n]

WithNode(B, n, p) ==
  [x \in Ptr |-> IF x = n THEN {n} ELSE IF p \in B[x] THEN B[x] \cup {n} ELSE B[x]]

GraftedAs(t, u, n, p) ==
  /\ u \in Tree /\ u.root = IF p = Nil THEN n ELSE t.root
  /\ \A x \in Node, z \in Side :
       u.link[x][z] = IF x = n THEN Nil
                      ELSE IF x = p /\ z = Toward(Key[n], p) THEN n
                      ELSE t.link[x][z]
  /\ \A x \in Node : u.parent[x] = IF x = n THEN p ELSE t.parent[x]
  /\ \A x \in Node : u.red[x] = IF x = n THEN TRUE ELSE t.red[x]

LEMMA GraftedIs ==
  ASSUME NEW t \in Tree, NEW n \in Node, NEW p \in Ptr, p # n
  PROVE  GraftedAs(t, Grafted(t, n, p), n, p)
<1> DEFINE none == [s \in Side |-> Nil]
           v == [t EXCEPT !.link[n] = none, !.parent[n] = p, !.red[n] = TRUE]
           u == Grafted(t, n, p)
           w == Toward(Key[n], p)
<1>1. none \in [Side -> Ptr] /\ \A s \in Side : none[s] = Nil
  BY NilIs
<1>2. u = IF p = Nil THEN [v EXCEPT !.root = n] ELSE [v EXCEPT !.link[p][w] = n]
  BY DEF Grafted
<1> HIDE DEF none
<1>3. /\ v \in Tree /\ v.root = t.root
      /\ \A x \in Node, s \in Side : v.link[x][s] = IF x = n THEN Nil ELSE t.link[x][s]
      /\ \A x \in Node : v.parent[x] = IF x = n THEN p ELSE t.parent[x]
      /\ \A x \in Node : v.red[x] = IF x = n THEN TRUE ELSE t.red[x]
  BY <1>1 DEF Tree
<1> HIDE DEF v, u
<1>4. /\ u \in Tree /\ u.root = IF p = Nil THEN n ELSE t.root
      /\ u.parent = v.parent /\ u.red = v.red
  <2>1. CASE p = Nil
    BY <1>2, <1>3, <2>1, NilIs DEF Tree
  <2>2. CASE p # Nil
    <3>1. p \in Node /\ n \in Ptr /\ w \in Side
      BY <2>2, NilIs, KeyIs, TowardIs DEF Ptr
    <3>2. LinkSet(v, u, p, w, n)
      BY <1>2, <1>3, <2>2, <3>1, SetLink
    <3> QED
      BY <1>3, <2>2, <3>2 DEF LinkSet
  <2> QED
    BY <2>1, <2>2
<1>5. ASSUME NEW x \in Node, NEW s \in Side
      PROVE  u.link[x][s] = IF x = n THEN Nil
                            ELSE IF x = p /\ s = w THEN n ELSE t.link[x][s]
  <2>1. CASE p = Nil
    <3>1. u.link = v.link /\ x # p
      BY <1>2, <1>3, <2>1, NilIs DEF Tree
    <3> QED
      BY <1>3, <3>1
  <2>2. CASE p # Nil
    <3>1. p \in Node /\ n \in Ptr /\ w \in Side
      BY <2>2, NilIs, KeyIs, TowardIs DEF Ptr
    <3>2. LinkSet(v, u, p, w, n)
      BY <1>2, <1>3, <2>2, <3>1, SetLink
    <3>3. u.link[x][s] = IF x = p /\ s = w THEN n ELSE v.link[x][s]
      BY <3>2 DEF LinkSet
    <3> QED
      BY <1>3, <3>3
  <2> QED
    BY <2>1, <2>2
<1> QED
  BY <1>3, <1>4, <1>5 DEF GraftedAs, u, w

\* A node that is not in the tree is alone.
LEMMA Alone ==
  ASSUME NEW t, NEW B, Shape(t, B), NEW n \in Node, n \notin B[t.root]
  PROVE  /\ B[n] = {n} /\ \A s \in Side : t.link[n][s] = Nil
         /\ \A x \in Node, z \in Side : t.link[x][z] # n
         /\ \A x \in Ptr : n \in B[x] => x = n
<1>1. \A s \in Side : t.link[n][s] = Nil
  BY DEF Shape, Linked
<1>2. B[n] = {n} /\ t.root \in Ptr
  BY <1>1, Sides, NilIs DEF Shape, Subtrees, Tree
<1>3. ASSUME NEW x \in Ptr, n \in B[x] PROVE x = n
  <2> SUFFICES ASSUME x # n PROVE FALSE
    OBVIOUS
  <2>1. x \in Node /\ t.parent[n] \in Node /\ \E s \in Side : t.link[t.parent[n]][s] = n
    BY <1>3, Deeper
  <2>2. t.parent[n] \in B[t.root]
    BY <2>1, NilIs DEF Shape, Linked
  <2>3. B[t.parent[n]] \subseteq B[t.root]
    BY <1>2, <2>2, Deeper
  <2> QED
    BY <1>2, <2>1, <2>3, SubtreeIs
<1>4. ASSUME NEW x \in Node, NEW z \in Side, t.link[x][z] = n PROVE FALSE
  <2>1. n \in B[x] /\ x # n
    BY <1>2, <1>4, SubtreeIs
  <2> QED
    BY <1>3, <2>1, NilIs
<1> QED
  BY <1>1, <1>2, <1>3, <1>4

\* A node that has a child, or others below it, is in the tree.
LEMMA Within ==
  ASSUME NEW t, NEW B, Shape(t, B), NEW x \in Node, NEW z \in Side, t.link[x][z] # Nil
  PROVE  x \in B[t.root] /\ t.link[x][z] \in B[t.root] /\ t.link[x][z] \in Node
<1>1. x \in B[t.root] /\ t.root \in Ptr
  BY DEF Shape, Linked, Tree
<1>2. B[x] \subseteq B[t.root]
  BY <1>1, Deeper
<1>3. t.link[x][z] \in Node
  BY SubtreeIs DEF Ptr
<1>4. t.link[x][z] \in B[t.link[x][z]]
  BY <1>3, SubtreeIs, Sides
<1> QED
  BY <1>1, <1>2, <1>3, <1>4, SubtreeIs

LEMMA GraftShape ==
  ASSUME NEW t, NEW B, Shape(t, B), NEW n \in Node, n \notin B[t.root],
         NEW p, p = Last(t, Key[n]), p # Nil => Key[p] # Key[n]
  PROVE  /\ Shape(Grafted(t, n, p), WithNode(B, n, p))
         /\ WithNode(B, n, p)[Grafted(t, n, p).root] = B[t.root] \cup {n}
         /\ GraftedAs(t, Grafted(t, n, p), n, p)
<1> DEFINE u == Grafted(t, n, p)
           C == WithNode(B, n, p)
           w == Toward(Key[n], p)
<1>0. t \in Tree /\ B \in [Ptr -> SUBSET Node] /\ B[Nil] = {} /\ t.root \in Ptr /\ Key[n] \in Nat
  BY KeyIs DEF Shape, Subtrees, Tree
<1>1. /\ B[n] = {n} /\ \A s \in Side : t.link[n][s] = Nil
      /\ \A x \in Node, z \in Side : t.link[x][z] # n
      /\ \A x \in Ptr : n \in B[x] => x = n
  BY Alone
<1>2. /\ p = Nil <=> t.root = Nil
      /\ p # Nil => /\ p \in Node /\ p \in B[t.root] /\ w \in Side /\ t.link[p][w] = Nil
                    /\ Beside(w, Key[n], Key[p])
  <2>1. CASE t.root = Nil
    BY <1>0, <2>1, LastIs
  <2>2. CASE t.root # Nil
    <3>1. Reached(t, B, Key[n], t.root, p)
      BY <1>0, <2>2, LastIs
    <3>2. p \in B[t.root] /\ Stops(t, Key[n], p)
      BY <3>1 DEF Reached
    <3>3. p \in Node
      BY <1>0, <3>2, Deeper
    <3> QED
      BY <1>0, <2>2, <3>2, <3>3, NilIs, TowardIs DEF Stops
  <2> QED
    BY <2>1, <2>2
<1>3. p \in Ptr /\ p # n /\ n \in Ptr /\ n # Nil
  BY <1>2, NilIs
<1>4. GraftedAs(t, u, n, p)
  BY <1>0, <1>3, GraftedIs
<1>5. /\ C \in [Ptr -> SUBSET Node] /\ C[n] = {n} /\ C[Nil] = {}
      /\ \A x \in Ptr : x # n => C[x] = IF p \in B[x] THEN B[x] \cup {n} ELSE B[x]
  BY <1>0, <1>3, NilIs DEF WithNode
<1> HIDE DEF u, C, w
<1>6. /\ u \in Tree /\ u.root = IF p = Nil THEN n ELSE t.root
      /\ \A x \in Node, z \in Side :
           u.link[x][z] = IF x = n THEN Nil ELSE IF x = p /\ z = w THEN n ELSE t.link[x][z]
      /\ \A x \in Node : u.parent[x] = IF x = n THEN p ELSE t.parent[x]
  BY <1>4 DEF GraftedAs, w
<1>7. ASSUME NEW x \in Node, NEW z \in Side, x # n, ~ (x = p /\ z = w)
      PROVE  u.link[x][z] = t.link[x][z] /\ t.link[x][z] \in Ptr /\ t.link[x][z] # n
  BY <1>1, <1>6, <1>7, SubtreeIs
<1>12. ASSUME NEW x \in Node, NEW z \in Side, x # n, ~ (x = p /\ z = w)
       PROVE  C[u.link[x][z]] = IF p \in B[t.link[x][z]] THEN B[t.link[x][z]] \cup {n}
                                ELSE B[t.link[x][z]]
  <2>1. u.link[x][z] = t.link[x][z] /\ t.link[x][z] \in Ptr /\ t.link[x][z] # n
    BY <1>7, <1>12
  <2> QED
    BY <1>5, <2>1
<1>8. Subtrees(u, C)
  <2>1. ASSUME NEW x \in Node
        PROVE  C[x] = {x} \cup C[u.link[x]["left"]] \cup C[u.link[x]["right"]]
    <3>1. CASE x = n
      <4>1. u.link[n]["left"] = Nil /\ u.link[n]["right"] = Nil
        BY <1>6, Sides
      <4> QED
        BY <1>5, <3>1, <4>1
    <3>2. CASE x = p
      <4> DEFINE o == Other(w)
      <4>1. p \in Node /\ w \in Side /\ o \in Side /\ o # w /\ x # n /\ t.link[p][w] = Nil
        BY <1>2, <1>3, <3>2, NilIs, Sides
      <4>2. u.link[p][w] = n /\ C[u.link[p][w]] = {n}
        BY <1>5, <1>6, <4>1, <3>2
      <4>3. p \notin B[t.link[p][o]] /\ B[p] = {p} \cup B[t.link[p][o]] /\ p \in B[p]
        BY <1>0, <4>1, SubtreeIs
      <4>4. C[u.link[p][o]] = B[t.link[p][o]]
        <5>1. ~ (p = p /\ o = w) /\ p # n
          BY <1>3, <4>1
        <5> QED
          BY <1>12, <4>1, <4>3, <5>1
      <4>5. C[p] = B[p] \cup {n}
        BY <1>3, <1>5, <4>3
      <4>6. C[p] = {p} \cup C[u.link[p][w]] \cup C[u.link[p][o]]
        BY <4>2, <4>3, <4>4, <4>5
      <4> QED
        BY <3>2, <4>1, <4>6, Sides DEF Other
    <3>3. CASE x # n /\ x # p
      <4>1. B[x] = {x} \cup B[t.link[x]["left"]] \cup B[t.link[x]["right"]] /\ x \in Ptr
        BY NilIs DEF Shape, Subtrees
      <4>2. p \in B[x] <=> p \in B[t.link[x]["left"]] \/ p \in B[t.link[x]["right"]]
        BY <3>3, <4>1
      <4>3. C[x] = IF p \in B[x] THEN B[x] \cup {n} ELSE B[x]
        BY <1>5, <3>3, <4>1
      <4>4. /\ C[u.link[x]["left"]] = IF p \in B[t.link[x]["left"]]
                                      THEN B[t.link[x]["left"]] \cup {n}
                                      ELSE B[t.link[x]["left"]]
            /\ C[u.link[x]["right"]] = IF p \in B[t.link[x]["right"]]
                                       THEN B[t.link[x]["right"]] \cup {n}
                                       ELSE B[t.link[x]["right"]]
        BY <1>12, <3>3, Sides
      <4> QED
        BY <4>1, <4>2, <4>3, <4>4
    <3> QED
      BY <3>1, <3>2, <3>3
  <2> QED
    BY <1>5, <2>1 DEF Subtrees
<1>9. Sorted(u, C)
  <2> SUFFICES ASSUME NEW x \in Node, NEW z \in Side, NEW y \in C[u.link[x][z]]
               PROVE  Beside(z, Key[y], Key[x])
    BY DEF Sorted
  <2>1. CASE x = n
    BY <1>5, <1>6, <2>1
  <2>2. CASE x # n /\ x = p /\ z = w
    <3>1. y = n
      BY <1>5, <1>6, <2>2
    <3> QED
      BY <1>2, <2>2, <3>1, NilIs
  <2>3. CASE x # n /\ ~ (x = p /\ z = w)
    <3>1. CASE y \in B[t.link[x][z]]
      BY <3>1, SortedIs
    <3>2. CASE y \notin B[t.link[x][z]]
      <4>1. y = n /\ p \in B[t.link[x][z]]
        BY <1>12, <2>3, <3>2
      <4>2. t.link[x][z] # Nil /\ t.root # Nil
        BY <1>0, <1>2, <4>1, NilIs, SubtreeIs
      <4>3. x \in B[t.root]
        BY <4>2, Within
      <4>4. Reached(t, B, Key[n], t.root, p)
        BY <1>0, <4>2, LastIs
      <4> QED
        BY <4>1, <4>3, <4>4 DEF Reached
    <3> QED
      BY <3>1, <3>2
  <2> QED
    BY <2>1, <2>2, <2>3
<1>10. C[u.root] = B[t.root] \cup {n}
  <2>1. CASE p = Nil
    BY <1>0, <1>2, <1>5, <1>6, <2>1
  <2>2. CASE p # Nil
    <3>1. p \in B[t.root] /\ t.root # n /\ u.root = t.root
      BY <1>0, <1>1, <1>2, <1>6, <2>2
    <3> QED
      BY <1>0, <1>5, <3>1
  <2> QED
    BY <2>1, <2>2
<1>11. Linked(u, C)
  <2>1. ASSUME NEW x \in Node, NEW z \in Side, u.link[x][z] # Nil
        PROVE  u.parent[u.link[x][z]] = x
    <3>1. CASE x = p /\ z = w
      BY <1>3, <1>6, <2>1, <3>1
    <3>2. CASE ~ (x = p /\ z = w)
      <4>1. x # n
        BY <1>6, <2>1
      <4>2. u.link[x][z] = t.link[x][z] /\ t.link[x][z] \in Ptr /\ t.link[x][z] # n
        BY <1>7, <3>2, <4>1
      <4>3. t.link[x][z] \in Node
        BY <2>1, <4>2 DEF Ptr
      <4> QED
        BY <1>6, <2>1, <4>2, <4>3 DEF Shape, Linked
    <3> QED
      BY <3>1, <3>2
  <2>2. u.root # Nil => u.parent[u.root] = Nil
    <3>1. CASE p = Nil
      BY <1>6, <3>1
    <3>2. CASE p # Nil
      <4>1. t.root \in Node /\ t.root # n /\ u.root = t.root
        BY <1>0, <1>1, <1>2, <1>6, <3>2 DEF Ptr
      <4> QED
        BY <1>6, <4>1, NilIs DEF Shape, Linked
    <3> QED
      BY <3>1, <3>2
  <2>3. ASSUME NEW x \in Node, x \notin C[u.root], NEW z \in Side PROVE u.link[x][z] = Nil
    <3>1. x \notin B[t.root] /\ x # n
      BY <1>10, <2>3
    <3>2. x # p
      BY <1>2, <3>1, NilIs
    <3> QED
      BY <1>6, <3>1, <3>2 DEF Shape, Linked
  <2> QED
    BY <2>1, <2>2, <2>3 DEF Linked
<1> QED
  BY <1>4, <1>6, <1>8, <1>9, <1>10, <1>11 DEF Shape, u, C

-----------------------------------------------------------------------------
(* The furthest node.                                                      *)

\* Node m is the last one to side s of the nodes below n.
IsFurthest(t, B, n, s, m) ==
  /\ m \in B[n] /\ t.link[m][s] = Nil
  /\ \A x \in B[n] : x # m => Beside(Other(s), Key[x], Key[m])

LEMMA FurthestIs ==
  ASSUME NEW t, NEW B, Shape(t, B), NEW n \in Ptr, NEW s \in Side
  PROVE  /\ n = Nil => Furthest(t, n, s) = Nil
         /\ n # Nil => IsFurthest(t, B, n, s, Furthest(t, n, s))
<1> DEFINE o == Other(s)
           Is(g) == g = [m \in Node |-> IF t.link[m][s] = Nil THEN m ELSE g[t.link[m][s]]]
           down == CHOOSE g : Is(g)
<1>0. o \in Side /\ o # s /\ Other(o) = s
  BY Sides
<1>1. Furthest(t, n, s) = IF n = Nil THEN Nil ELSE down[n]
  BY Zenon DEF Furthest
<1>2. \E g : Is(g)
  <2> DEFINE F == [q \in Node \X Ptr \X Ptr |->
                     IF t.link[q[1]][s] = Nil THEN q[1] ELSE IF s = "left" THEN q[2] ELSE q[3]]
  <2>1. F \in [Node \X Ptr \X Ptr -> Ptr]
    BY NilIs
  <2>2. \A m \in Node, b, c \in Ptr :
          F[<<m, b, c>>] = IF t.link[m][s] = Nil THEN m ELSE IF s = "left" THEN b ELSE c
    OBVIOUS
  <2> HIDE DEF F
  <2>3. PICK f : Solves(t, Ptr, Nil, F, f)
    BY <2>1, NilIs, Recursion
  <2> DEFINE g == [m \in Node |-> f[m]]
  <2>4. ASSUME NEW m \in Node
        PROVE  f[m] = IF t.link[m][s] = Nil THEN m ELSE f[t.link[m][s]]
    <3>1. f[t.link[m]["left"]] \in Ptr /\ f[t.link[m]["right"]] \in Ptr
      BY <2>3, SubtreeIs, Sides DEF Solves
    <3>2. f[m] = IF t.link[m][s] = Nil THEN m
                 ELSE IF s = "left" THEN f[t.link[m]["left"]] ELSE f[t.link[m]["right"]]
      <4>1. f[m] = F[<<m, f[t.link[m]["left"]], f[t.link[m]["right"]]>>]
        BY <2>3 DEF Solves
      <4> QED
        BY ONLY <2>2, <3>1, <4>1, m \in Node
    <3> QED
      BY <3>2, Sides
  <2>5. \A m \in Node : t.link[m][s] # Nil => t.link[m][s] \in Node
    BY SubtreeIs DEF Ptr
  <2>6. Is(g)
    BY <2>4, <2>5
  <2> QED
    BY <2>6
<1>3. Is(down)
  <2> HIDE DEF Is
  <2> QED
    BY <1>2
<1>4. \A m \in Node : down[m] = IF t.link[m][s] = Nil THEN m ELSE down[t.link[m][s]]
  BY <1>3
<1> HIDE DEF down, Is, o
<1> DEFINE P == {y \in Ptr : y # Nil => IsFurthest(t, B, y, s, down[y])}
<1>5. Nil \in P
  BY NilIs
<1>6. ASSUME NEW y \in Node, \A z \in Side : t.link[y][z] \in P PROVE y \in P
  <2> SUFFICES IsFurthest(t, B, y, s, down[y])
    BY NilIs
  <2>0. /\ B[y] = {y} \cup B[t.link[y][s]] \cup B[t.link[y][o]]
        /\ y \in B[y] /\ y \notin B[t.link[y][s]] /\ B[Nil] = {}
    BY SubtreeIs DEF o, Shape, Subtrees
  <2>1. \A x \in B[t.link[y][o]] : Beside(o, Key[x], Key[y]) /\ x \in Node
    BY <1>0, SortedIs
  <2>2. CASE t.link[y][s] = Nil
    <3>1. down[y] = y
      BY <1>4, <2>2
    <3> QED
      BY <2>0, <2>1, <2>2, <3>1 DEF IsFurthest, o
  <2>3. CASE t.link[y][s] # Nil
    <3> DEFINE c == t.link[y][s]
               m == down[c]
    <3>1. c \in Node /\ down[y] = m /\ IsFurthest(t, B, c, s, m)
      BY <1>4, <1>6, <2>3, SubtreeIs DEF Ptr
    <3> HIDE DEF m
    <3>2. /\ m \in B[c] /\ t.link[m][s] = Nil
          /\ \A x \in B[c] : x # m => Beside(o, Key[x], Key[m])
      BY <3>1 DEF IsFurthest, o
    <3>3. m \in Node /\ Beside(s, Key[m], Key[y])
      BY <3>2, SortedIs
    <3>4. Beside(o, Key[y], Key[m])
      BY <1>0, <3>3, KeyIs, BesideIs DEF o
    <3>5. ASSUME NEW x \in B[t.link[y][o]] PROVE Beside(o, Key[x], Key[m])
      <4>1. x \in Node /\ Beside(o, Key[x], Key[y])
        BY <2>1
      <4> QED
        BY <1>0, <3>3, <3>4, <4>1, KeyIs, BesideIs
    <3> QED
      BY <2>0, <3>1, <3>2, <3>4, <3>5 DEF IsFurthest, o
  <2> QED
    BY <2>2, <2>3
<1> HIDE DEF P
<1>7. \A y \in Ptr : y \in P
  BY <1>5, <1>6, Upward
<1> QED
  BY <1>1, <1>7 DEF P

-----------------------------------------------------------------------------
(* Searches.                                                               *)

\* Two nodes of a tree have different keys.
LEMMA KeysDiffer ==
  ASSUME NEW t, NEW B, Shape(t, B), NEW n \in Ptr, NEW a \in B[n], NEW b \in B[n], Key[a] = Key[b]
  PROVE  a = b
<1> DEFINE P == {y \in Ptr : \A c, d \in B[y] : Key[c] = Key[d] => c = d}
<1>1. Nil \in P
  BY NilIs DEF Shape, Subtrees
<1>2. ASSUME NEW y \in Node, \A s \in Side : t.link[y][s] \in P PROVE y \in P
  <2> DEFINE L == B[t.link[y]["left"]]
             R == B[t.link[y]["right"]]
  <2>1. B[y] = {y} \cup L \cup R /\ L \subseteq Node /\ R \subseteq Node
    <3>1. B[y] = {y} \cup L \cup R
      BY DEF Shape, Subtrees
    <3> QED
      BY <3>1, SubtreeIs, Sides
  <2>2. \A c, d \in L : Key[c] = Key[d] => c = d
    BY <1>2, Sides
  <2>3. \A c, d \in R : Key[c] = Key[d] => c = d
    BY <1>2, Sides
  <2>4. \A c \in L : Key[c] < Key[y]
    BY SortedIs, Sides DEF Beside
  <2>5. \A c \in R : Key[c] > Key[y]
    BY SortedIs, Sides DEF Beside
  <2> HIDE DEF L, R
  <2>6. \A c \in B[y] : Key[c] \in Nat
    BY <2>1, KeyIs
  <2>7. ASSUME NEW c \in B[y], NEW d \in B[y], Key[c] = Key[d] PROVE c = d
    BY <2>1, <2>2, <2>3, <2>4, <2>5, <2>6, <2>7
  <2> QED
    BY <2>7, NilIs
<1> HIDE DEF P
<1>3. n \in P
  BY <1>1, <1>2, Upward
<1> QED
  BY <1>3 DEF P

\* r is the node with key k among those below y, if there is one.
IsFound(B, k, y, r) ==
  IF r = Nil THEN \A x \in B[y] : Key[x] # k ELSE r \in B[y] /\ Key[r] = k

LEMMA FindIs ==
  ASSUME NEW t, NEW B, Shape(t, B), NEW k \in Nat
  PROVE  IsFound(B, k, t.root, Find(t, k))
<1> DEFINE Is(g) == g = [n \in Node \cup {Nil} |->
                           IF n = Nil THEN Nil
                           ELSE IF Key[n] = k THEN n ELSE g[t.link[n][Toward(k, n)]]]
           down == CHOOSE g : Is(g)
<1>1. Find(t, k) = down[t.root]
  BY Zenon DEF Find
<1>2. \A n \in Node : Toward(k, n) \in Side
  BY TowardIs
<1>3. \E g : Is(g)
  <2> DEFINE F == [q \in Node \X Ptr \X Ptr |->
                     IF Key[q[1]] = k THEN q[1]
                     ELSE IF Toward(k, q[1]) = "left" THEN q[2] ELSE q[3]]
  <2>1. F \in [Node \X Ptr \X Ptr -> Ptr]
    BY NilIs
  <2>2. \A n \in Node, b, c \in Ptr :
          F[<<n, b, c>>] = IF Key[n] = k THEN n ELSE IF Toward(k, n) = "left" THEN b ELSE c
    OBVIOUS
  <2> HIDE DEF F
  <2>3. PICK f : Solves(t, Ptr, Nil, F, f)
    BY <2>1, NilIs, Recursion
  <2>4. ASSUME NEW n \in Node
        PROVE  f[n] = IF Key[n] = k THEN n ELSE f[t.link[n][Toward(k, n)]]
    <3>1. f[t.link[n]["left"]] \in Ptr /\ f[t.link[n]["right"]] \in Ptr
      BY <2>3, SubtreeIs, Sides DEF Solves
    <3>2. f[n] = IF Key[n] = k THEN n
                 ELSE IF Toward(k, n) = "left" THEN f[t.link[n]["left"]]
                 ELSE f[t.link[n]["right"]]
      <4>1. f[n] = F[<<n, f[t.link[n]["left"]], f[t.link[n]["right"]]>>]
        BY <2>3 DEF Solves
      <4> QED
        BY ONLY <2>2, <3>1, <4>1, n \in Node
    <3> QED
      BY <1>2, <3>2, Sides
  <2>5. f \in [Node \cup {Nil} -> Ptr] /\ f[Nil] = Nil
    BY <2>3 DEF Solves, Ptr
  <2>6. Is(f)
    BY <2>4, <2>5, NilIs
  <2> QED
    BY <2>6
<1>4. Is(down)
  <2> HIDE DEF Is
  <2> QED
    BY <1>3
<1>5. /\ down[Nil] = Nil
      /\ \A n \in Node : down[n] = IF Key[n] = k THEN n ELSE down[t.link[n][Toward(k, n)]]
  BY <1>4, NilIs
<1> HIDE DEF down, Is
<1> DEFINE P == {y \in Ptr : IsFound(B, k, y, down[y])}
<1>6. Nil \in P
  BY <1>5, NilIs DEF IsFound, Shape, Subtrees
<1>7. ASSUME NEW y \in Node, \A s \in Side : t.link[y][s] \in P PROVE y \in P
  <2> SUFFICES IsFound(B, k, y, down[y])
    BY NilIs
  <2>1. CASE Key[y] = k
    <3>1. down[y] = y /\ y # Nil /\ y \in B[y]
      BY <1>5, <2>1, NilIs, SubtreeIs, Sides
    <3> QED
      BY <2>1, <3>1 DEF IsFound
  <2>2. CASE Key[y] # k
    <3> DEFINE s == Toward(k, y)
               r == down[y]
    <3>1. s \in Side /\ Beside(s, k, Key[y]) /\ r = down[t.link[y][s]]
      BY <1>5, <2>2, TowardIs
    <3> HIDE DEF s
    <3>2. IsFound(B, k, t.link[y][s], r)
      BY <1>7, <3>1
    <3> HIDE DEF r
    <3>3. B[y] = {y} \cup B[t.link[y][s]] \cup B[t.link[y][Other(s)]]
      BY <3>1, SubtreeIs
    <3>4. ASSUME NEW x \in B[t.link[y][Other(s)]] PROVE Key[x] # k
      <4>1. x \in Node /\ Beside(Other(s), Key[x], Key[y])
        BY <3>1, Sides, SortedIs
      <4> QED
        BY <3>1, <4>1, KeyIs, BesideIs
    <3>5. IsFound(B, k, y, r)
      BY <2>2, <3>2, <3>3, <3>4 DEF IsFound
    <3> QED
      BY <3>5 DEF r
  <2> QED
    BY <2>1, <2>2
<1> HIDE DEF P
<1>8. \A y \in Ptr : y \in P
  BY <1>6, <1>7, Upward
<1>9. t.root \in Ptr
  BY DEF Shape, Tree
<1> QED
  BY <1>1, <1>8, <1>9 DEF P

\* r has the least key not below k among the nodes below y.
IsNext(B, k, y, r) ==
  IF r = Nil THEN \A x \in B[y] : Key[x] < k
  ELSE /\ r \in B[y] /\ Key[r] >= k
       /\ \A x \in B[y] : Key[x] >= k => Key[r] <= Key[x]

LEMMA NFindIs ==
  ASSUME NEW t, NEW B, Shape(t, B), NEW k \in Nat
  PROVE  IsNext(B, k, t.root, NFind(t, k))
<1> DEFINE Step(n, r) == IF r = Nil /\ k < Key[n] THEN n ELSE r
           Is(g) == g = [n \in Node \cup {Nil} |->
                           IF n = Nil THEN Nil
                           ELSE IF Key[n] = k THEN n
                           ELSE LET r == g[t.link[n][Toward(k, n)]]
                                IN  IF r = Nil /\ k < Key[n] THEN n ELSE r]
           down == CHOOSE g : Is(g)
<1>1. NFind(t, k) = down[t.root]
  BY Zenon DEF NFind
<1>2. \A n \in Node : Toward(k, n) \in Side
  BY TowardIs
<1>3. \E g : Is(g)
  <2> DEFINE F == [q \in Node \X Ptr \X Ptr |->
                     IF Key[q[1]] = k THEN q[1]
                     ELSE Step(q[1], IF Toward(k, q[1]) = "left" THEN q[2] ELSE q[3])]
  <2>1. F \in [Node \X Ptr \X Ptr -> Ptr]
    BY NilIs
  <2>2. \A n \in Node, b, c \in Ptr :
          F[<<n, b, c>>] = IF Key[n] = k THEN n
                           ELSE Step(n, IF Toward(k, n) = "left" THEN b ELSE c)
    OBVIOUS
  <2> HIDE DEF F
  <2>3. PICK f : Solves(t, Ptr, Nil, F, f)
    BY <2>1, NilIs, Recursion
  <2>4. ASSUME NEW n \in Node
        PROVE  f[n] = IF Key[n] = k THEN n ELSE Step(n, f[t.link[n][Toward(k, n)]])
    <3>1. f[t.link[n]["left"]] \in Ptr /\ f[t.link[n]["right"]] \in Ptr
      BY <2>3, SubtreeIs, Sides DEF Solves
    <3>2. f[n] = F[<<n, f[t.link[n]["left"]], f[t.link[n]["right"]]>>]
      BY <2>3 DEF Solves
    <3>3. f[n] = IF Key[n] = k THEN n
                 ELSE Step(n, IF Toward(k, n) = "left" THEN f[t.link[n]["left"]]
                              ELSE f[t.link[n]["right"]])
      BY <2>2, <3>1, <3>2
    <3>4. (IF Toward(k, n) = "left" THEN f[t.link[n]["left"]] ELSE f[t.link[n]["right"]])
            = f[t.link[n][Toward(k, n)]]
      BY <1>2, Sides
    <3> QED
      BY <3>3, <3>4
  <2>5. f \in [Node \cup {Nil} -> Ptr] /\ f[Nil] = Nil
    BY <2>3 DEF Solves, Ptr
  <2>6. Is(f)
    BY <2>4, <2>5, NilIs
  <2> QED
    BY <2>6
<1>4. Is(down)
  <2> HIDE DEF Is
  <2> QED
    BY <1>3
<1>5. /\ down[Nil] = Nil
      /\ \A n \in Node : down[n] = IF Key[n] = k THEN n
                                   ELSE Step(n, down[t.link[n][Toward(k, n)]])
  BY <1>4, NilIs
<1> HIDE DEF down, Is
<1> DEFINE P == {y \in Ptr : IsNext(B, k, y, down[y])}
<1>6. Nil \in P
  BY <1>5, NilIs DEF IsNext, Shape, Subtrees
<1>7. ASSUME NEW y \in Node, \A s \in Side : t.link[y][s] \in P PROVE y \in P
  <2> SUFFICES IsNext(B, k, y, down[y])
    BY NilIs
  <2>0. y # Nil /\ y \in B[y] /\ Key[y] \in Nat /\ \A x \in B[y] : Key[x] \in Nat
    BY NilIs, SubtreeIs, Sides, KeyIs
  <2>1. CASE Key[y] = k
    <3>1. down[y] = y
      BY <1>5, <2>1
    <3> QED
      BY <2>0, <2>1, <3>1 DEF IsNext
  <2>2. CASE Key[y] # k
    <3> DEFINE s == Toward(k, y)
               r == down[t.link[y][s]]
               c == t.link[y][s]
               o == t.link[y][Other(s)]
    <3>1. s \in Side /\ Beside(s, k, Key[y]) /\ down[y] = Step(y, r)
      BY <1>5, <2>2, TowardIs
    <3>2. IsNext(B, k, c, r)
      BY <1>7, <3>1
    <3>3. B[y] = {y} \cup B[c] \cup B[o]
      BY <3>1, SubtreeIs
    <3>4. \A x \in B[c] : Beside(s, Key[x], Key[y])
      BY <3>1, SortedIs
    <3>5. \A x \in B[o] : Beside(Other(s), Key[x], Key[y])
      BY <3>1, Sides, SortedIs
    <3>6. r # Nil => r \in B[c]
      BY <3>2 DEF IsNext
    <3> HIDE DEF r, c, o, s
    <3>7. CASE s = "left"
      <4>1. k < Key[y] /\ (\A x \in B[c] : Key[x] < Key[y]) /\ (\A x \in B[o] : Key[x] > Key[y])
        BY <3>1, <3>4, <3>5, <3>7 DEF Beside, Other
      <4>2. CASE r = Nil
        <5>1. down[y] = y
          BY <3>1, <4>1, <4>2
        <5>2. \A x \in B[c] : Key[x] < k
          BY <3>2, <4>2 DEF IsNext
        <5> QED
          BY <2>0, <3>3, <4>1, <5>1, <5>2 DEF IsNext
      <4>3. CASE r # Nil
        <5>1. down[y] = r
          BY <3>1, <4>3
        <5>2. r \in B[c] /\ Key[r] >= k /\ \A x \in B[c] : Key[x] >= k => Key[r] <= Key[x]
          BY <3>2, <4>3 DEF IsNext
        <5>3. r \in B[y] /\ Key[r] \in Nat /\ Key[r] < Key[y]
          BY <2>0, <3>3, <4>1, <5>2
        <5>4. ASSUME NEW x \in B[y], Key[x] >= k PROVE Key[r] <= Key[x]
          BY <2>0, <3>3, <4>1, <5>2, <5>3, <5>4
        <5> QED
          BY <4>3, <5>1, <5>2, <5>3, <5>4 DEF IsNext
      <4> QED
        BY <4>2, <4>3
    <3>8. CASE s = "right"
      <4>1. k > Key[y] /\ (\A x \in B[o] : Key[x] < Key[y])
        BY <3>1, <3>5, <3>8 DEF Beside, Other
      <4>2. down[y] = r
        BY <2>0, <3>1, <4>1
      <4>3. ASSUME NEW x \in B[y], x \notin B[c] PROVE Key[x] < k
        BY <2>0, <3>3, <4>1, <4>3
      <4>4. CASE r = Nil
        BY <3>2, <4>2, <4>3, <4>4 DEF IsNext
      <4>5. CASE r # Nil
        <5>1. r \in B[c] /\ Key[r] >= k /\ \A x \in B[c] : Key[x] >= k => Key[r] <= Key[x]
          BY <3>2, <4>5 DEF IsNext
        <5>2. ASSUME NEW x \in B[y], Key[x] >= k PROVE Key[r] <= Key[x]
          BY <2>0, <4>3, <5>1, <5>2
        <5> QED
          BY <3>3, <4>2, <4>5, <5>1, <5>2 DEF IsNext
      <4> QED
        BY <4>4, <4>5
    <3> QED
      BY <3>1, <3>7, <3>8, Sides
  <2> QED
    BY <2>1, <2>2
<1> HIDE DEF P
<1>8. \A y \in Ptr : y \in P
  BY <1>6, <1>7, Upward
<1>9. t.root \in Ptr
  BY DEF Shape, Tree
<1> QED
  BY <1>1, <1>8, <1>9 DEF P

\* The nodes below n are next to each other in the order of the keys.
LEMMA Interval ==
  ASSUME NEW t, NEW B, Shape(t, B), NEW y \in Ptr, NEW n \in B[y], NEW m \in B[y], m \notin B[n],
         NEW x \in B[n], NEW s \in Side, Beside(s, Key[m], Key[n])
  PROVE  Beside(s, Key[m], Key[x])
<1>1. n \in Node /\ m \in Node /\ n \in Ptr
  BY Deeper, NilIs
<1>2. x \in Node
  BY <1>1, Deeper
<1>3. Key[n] \in Nat /\ Key[m] \in Nat /\ Key[x] \in Nat
  BY <1>1, <1>2, KeyIs
<1>4. CASE n \in B[m]
  <2>1. PICK z \in Side : n \in B[t.link[m][z]]
    BY <1>1, <1>4, SubtreeIs, Sides
  <2>2. x \in B[t.link[m][z]]
    BY <1>1, <2>1, SubtreeIs, Deeper
  <2>3. Beside(z, Key[n], Key[m]) /\ Beside(z, Key[x], Key[m])
    BY <1>1, <2>1, <2>2, SortedIs
  <2> QED
    BY <1>3, <2>3, BesideIs, Sides
<1>5. CASE n \notin B[m]
  <2>1. Forks(t, B, y, n, m)
    BY <1>5, Fork
  <2>2. PICK a \in B[y], z \in Side : n \in B[t.link[a][z]] /\ m \in B[t.link[a][Other(z)]]
    BY <2>1 DEF Forks
  <2>3. a \in Node /\ Key[a] \in Nat /\ Other(z) \in Side /\ Other(Other(z)) = z
    BY Deeper, KeyIs, Sides
  <2>4. x \in B[t.link[a][z]]
    BY <2>2, <2>3, SubtreeIs, Deeper
  <2>5. Beside(z, Key[n], Key[a]) /\ Beside(z, Key[x], Key[a]) /\ Beside(Other(z), Key[m], Key[a])
    BY <2>2, <2>3, <2>4, SortedIs
  <2>6. Beside(Other(z), Key[a], Key[n]) /\ Beside(Other(z), Key[a], Key[x])
    BY <1>3, <2>3, <2>5, BesideIs
  <2>7. Beside(Other(z), Key[m], Key[n]) /\ Beside(Other(z), Key[m], Key[x])
    BY <1>3, <2>3, <2>5, <2>6, BesideIs
  <2>8. s = z \/ s = Other(z)
    BY Sides
  <2> QED
    BY <1>3, <2>3, <2>7, <2>8, BesideIs
<1> QED
  BY <1>4, <1>5

\* What holds of the root, and of the children of each node it holds of, holds of all.
LEMMA Downward ==
  ASSUME NEW t, NEW B, Shape(t, B), NEW P, t.root \in P,
         \A n \in B[t.root] : n \in P => \A s \in Side : t.link[n][s] # Nil => t.link[n][s] \in P
  PROVE  \A n \in B[t.root] : n \in P
<1> DEFINE Q == {y \in Ptr : y \in P /\ y \in B[t.root] => B[y] \subseteq P}
<1>0. B[Nil] = {} /\ t.root \in Ptr
  BY DEF Shape, Subtrees, Tree
<1>1. Nil \in Q
  BY <1>0, NilIs
<1>2. ASSUME NEW y \in Node, \A s \in Side : t.link[y][s] \in Q PROVE y \in Q
  <2> SUFFICES ASSUME y \in P, y \in B[t.root] PROVE B[y] \subseteq P
    BY NilIs
  <2>1. ASSUME NEW s \in Side PROVE B[t.link[y][s]] \subseteq P
    <3>1. CASE t.link[y][s] = Nil
      BY <1>0, <3>1
    <3>2. CASE t.link[y][s] # Nil
      <4>1. t.link[y][s] \in P
        BY <3>2
      <4>2. t.link[y][s] \in B[t.root]
        BY <3>2, Within
      <4> QED
        BY <1>2, <4>1, <4>2
    <3> QED
      BY <3>1, <3>2
  <2>2. B[y] = {y} \cup B[t.link[y]["left"]] \cup B[t.link[y]["right"]]
    BY DEF Shape, Subtrees
  <2> QED
    BY <2>1, <2>2, Sides
<1> HIDE DEF Q
<1>3. t.root \in Q
  BY <1>0, <1>1, <1>2, Upward
<1>4. CASE t.root = Nil
  BY <1>0, <1>4
<1>5. CASE t.root # Nil
  <2>1. t.root \in B[t.root]
    BY <1>0, <1>5, SubtreeIs, Sides DEF Ptr
  <2> QED
    BY <1>3, <2>1 DEF Q
<1> QED
  BY <1>4, <1>5

\* The climb of RB_NEXT and RB_PREV, as a recursion towards the root.
Climbs(t, s, g) ==
  \A m \in Node :
    g[m] = IF t.parent[m] # Nil /\ t.link[t.parent[m]][s] = m THEN g[t.parent[m]]
           ELSE t.parent[m]

LEMMA ClimbExists ==
  ASSUME NEW t, NEW B, Shape(t, B), NEW s \in Side
  PROVE  \E g \in [Node -> Ptr] : Climbs(t, s, g)
<1> DEFINE all == Cardinality(Node)
           Up(m) == t.parent[m] # Nil /\ t.link[t.parent[m]][s] = m
           Is(g, m) == g[m] = IF Up(m) THEN g[t.parent[m]] ELSE t.parent[m]
           Good(k, g) == \A m \in Node : all - Size(B, m) <= k => Is(g, m)
           K == {k \in Nat : \E g \in [Node -> Ptr] : Good(k, g)}
<1>1. \A m \in Node : Size(B, m) \in Nat /\ Size(B, m) <= all
  BY SizeIs, NilIs
<1>2. all \in Nat
  BY TreeAssumption, FS_CardinalityType DEF TreeAssumption
<1>3. \A m \in Node : t.parent[m] \in Ptr
  BY LinkIs, Sides DEF Shape
<1>4. \A m \in Node : Up(m) => t.parent[m] \in Node /\ Size(B, m) < Size(B, t.parent[m])
  <2> TAKE m \in Node
  <2>1. t.parent[m] # Nil => t.parent[m] \in Node
    BY <1>3 DEF Ptr
  <2> QED
    BY <2>1, Smaller
<1> HIDE DEF Up, all
\* One more level: whatever f is, g is right where f is right of the parent.
<1>5. ASSUME NEW f \in [Node -> Ptr]
      PROVE  \E g \in [Node -> Ptr] :
               \A m \in Node : g[m] = IF Up(m) THEN f[t.parent[m]] ELSE t.parent[m]
  <2> DEFINE g == [m \in Node |-> IF Up(m) THEN f[t.parent[m]] ELSE t.parent[m]]
  <2>1. g \in [Node -> Ptr]
    BY <1>3, <1>4
  <2> QED
    BY <2>1
<1>6. ASSUME NEW k \in Int, NEW f \in [Node -> Ptr], Good(k, f)
      PROVE  \E g \in [Node -> Ptr] : Good(k + 1, g)
  <2>1. PICK g \in [Node -> Ptr] :
          \A m \in Node : g[m] = IF Up(m) THEN f[t.parent[m]] ELSE t.parent[m]
    BY <1>5
  <2>2. ASSUME NEW m \in Node, all - Size(B, m) <= k PROVE g[m] = f[m]
    BY <1>6, <2>1, <2>2
  <2>3. ASSUME NEW m \in Node, all - Size(B, m) <= k + 1 PROVE Is(g, m)
    <3>1. CASE Up(m)
      <4> DEFINE p == t.parent[m]
      <4>1. p \in Node /\ Size(B, m) < Size(B, p)
        BY <1>4, <3>1
      <4>2. all - Size(B, p) <= k
        BY <1>1, <1>2, <2>3, <4>1
      <4>3. g[p] = f[p]
        BY <2>2, <4>1, <4>2
      <4> QED
        BY <2>1, <3>1, <4>3
    <3>2. CASE ~ Up(m)
      BY <2>1, <3>2
    <3> QED
      BY <3>1, <3>2
  <2> QED
    BY <2>3
<1>7. 0 \in K
  <2> DEFINE f == [m \in Node |-> Nil]
  <2>1. f \in [Node -> Ptr]
    BY NilIs
  <2>2. Good(-1, f)
    BY <1>1, <1>2
  <2> HIDE DEF f, Good
  <2>3. -1 \in Int /\ -1 + 1 = 0
    OBVIOUS
  <2>4. \E g \in [Node -> Ptr] : Good(-1 + 1, g)
    BY <1>6, <2>1, <2>2, <2>3
  <2> QED
    BY <2>3, <2>4
<1>8. \A k \in Nat : k \in K => k + 1 \in K
  BY <1>6
<1>9. all \in K
  <2> HIDE DEF K
  <2> QED
    BY <1>2, <1>7, <1>8, Induction
<1>10. PICK g \in [Node -> Ptr] : Good(all, g)
  BY <1>9
<1>11. ASSUME NEW m \in Node PROVE Is(g, m)
  <2>1. all - Size(B, m) <= all
    BY <1>1, <1>2
  <2> QED
    BY <1>10, <2>1
<1> QED
  BY <1>10, <1>11 DEF Climbs, Up

\* a is the next node to side s of those below n.
IsAbove(t, B, s, n, a) ==
  IF a = Nil THEN \A x \in B[t.root] : x \notin B[n] => Beside(Other(s), Key[x], Key[n])
  ELSE /\ a \in B[t.root] /\ a \notin B[n] /\ Beside(s, Key[a], Key[n])
       /\ \A x \in B[t.root] :
            x \notin B[n] /\ x # a /\ Beside(s, Key[x], Key[n]) => Beside(s, Key[x], Key[a])

LEMMA ClimbIs ==
  ASSUME NEW t, NEW B, Shape(t, B), NEW s \in Side, NEW g \in [Node -> Ptr], Climbs(t, s, g),
         NEW n \in B[t.root]
  PROVE  IsAbove(t, B, s, n, g[n])
<1> DEFINE P == {m \in Ptr : m # Nil => IsAbove(t, B, s, m, g[m])}
           o == Other(s)
<1>0. t.root \in Ptr /\ B[Nil] = {} /\ o \in Side /\ Other(o) = s /\ o # s
  BY Sides DEF Shape, Tree, Subtrees
<1>1. t.root \in P
  <2> SUFFICES ASSUME t.root # Nil PROVE IsAbove(t, B, s, t.root, g[t.root])
    BY <1>0
  <2>1. t.root \in Node /\ t.parent[t.root] = Nil
    BY <1>0 DEF Ptr, Shape, Linked
  <2>2. g[t.root] = Nil
    BY <2>1 DEF Climbs
  <2> QED
    BY <2>2 DEF IsAbove
<1>2. ASSUME NEW m \in B[t.root], m \in P, NEW z \in Side, t.link[m][z] # Nil
      PROVE  t.link[m][z] \in P
  <2> DEFINE c == t.link[m][z]
             a == g[m]
  <2>1. m \in Node /\ m # Nil /\ c \in Node /\ t.parent[c] = m /\ c \in B[m] /\ c \in Ptr
    <3>1. m \in Node /\ m # Nil
      BY <1>0, NilIs, Deeper
    <3>2. c \in Node /\ c \in Ptr
      BY <1>2, <3>1, Within, NilIs
    <3>3. t.parent[c] = m
      BY <1>2, <3>1 DEF Shape, Linked
    <3> QED
      BY <3>1, <3>2, <3>3, SubtreeIs, Sides
  <2>2. IsAbove(t, B, s, m, a) /\ m \notin B[c] /\ B[c] \subseteq B[m] /\ c \in B[c]
    BY <1>2, <2>1, SubtreeIs, Sides
  <2>3. Key[m] \in Nat /\ Key[c] \in Nat /\ Beside(z, Key[c], Key[m])
    BY <2>1, <2>2, KeyIs, SortedIs
  <2>4. \A x \in B[t.root] : x \in Node /\ Key[x] \in Nat
    BY <1>0, Deeper, KeyIs
  <2>5. CASE z = s
    <3>1. g[c] = a
      BY <2>1, <2>5 DEF Climbs
    <3> HIDE DEF a, c
    <3>2. ASSUME NEW x \in B[m], x \notin B[c] PROVE Beside(o, Key[x], Key[c])
      <4>1. Beside(o, Key[m], Key[c])
        BY <1>0, <2>3, <2>5, BesideIs
      <4>2. CASE x = m
        BY <4>1, <4>2
      <4>3. CASE x # m
        <5>1. x \in B[t.link[m][o]]
          BY <1>0, <2>1, <2>5, <3>2, <4>3, SubtreeIs DEF c
        <5>2. x \in Node /\ Beside(o, Key[x], Key[m])
          BY <1>0, <2>1, <5>1, SortedIs
        <5> QED
          BY <1>0, <2>3, <4>1, <5>2, KeyIs, BesideIs
      <4> QED
        BY <4>2, <4>3
    <3>3. CASE a = Nil
      <4>1. ASSUME NEW x \in B[t.root], x \notin B[c] PROVE Beside(o, Key[x], Key[c])
        <5>1. CASE x \in B[m]
          BY <3>2, <4>1, <5>1
        <5>2. CASE x \notin B[m]
          <6>1. Beside(o, Key[x], Key[m])
            BY <2>2, <3>3, <5>2 DEF IsAbove
          <6> QED
            BY <1>0, <2>1, <5>2, <6>1, Interval
        <5> QED
          BY <5>1, <5>2
      <4>2. IsAbove(t, B, s, c, a)
        BY <3>3, <4>1 DEF IsAbove
      <4> QED
        BY <2>1, <3>1, <4>2 DEF c
    <3>4. CASE a # Nil
      <4>1. /\ a \in B[t.root] /\ a \notin B[m] /\ Beside(s, Key[a], Key[m])
            /\ \A x \in B[t.root] :
                 x \notin B[m] /\ x # a /\ Beside(s, Key[x], Key[m]) => Beside(s, Key[x], Key[a])
        BY <2>2, <3>4 DEF IsAbove
      <4>2. Beside(s, Key[a], Key[c])
        BY <1>0, <2>1, <4>1, Interval
      <4>3. ASSUME NEW x \in B[t.root], x \notin B[c], x # a, Beside(s, Key[x], Key[c])
            PROVE  Beside(s, Key[x], Key[a])
        <5>1. Key[x] \in Nat
          BY <2>4
        <5>2. x \notin B[m]
          BY <1>0, <2>3, <3>2, <4>3, <5>1, BesideIs
        <5>3. Beside(s, Key[x], Key[m])
          BY <2>3, <2>5, <4>3, <5>1, BesideIs
        <5> QED
          BY <4>1, <4>3, <5>2, <5>3
      <4>4. IsAbove(t, B, s, c, a)
        BY <2>2, <3>4, <4>1, <4>2, <4>3 DEF IsAbove
      <4> QED
        BY <2>1, <3>1, <4>4 DEF c
    <3> QED
      BY <3>3, <3>4
  <2>6. CASE z = o
    <3>1. t.link[m][s] # c
      <4>1. c \notin B[t.link[m][s]]
        BY <1>0, <2>1, <2>2, <2>6, SortedIs
      <4> QED
        BY <2>2, <4>1
    <3>2. g[c] = m
      BY <2>1, <3>1 DEF Climbs
    <3> HIDE DEF c
    <3>3. Beside(s, Key[m], Key[c])
      BY <1>0, <2>3, <2>6, BesideIs
    <3>4. ASSUME NEW x \in B[t.root], x \notin B[c], x # m, Beside(s, Key[x], Key[c])
          PROVE  Beside(s, Key[x], Key[m])
      <4>1. CASE x \in B[m]
        <5>1. x \in B[t.link[m][s]]
          BY <1>0, <2>1, <2>6, <3>4, <4>1, SubtreeIs DEF c
        <5> QED
          BY <2>1, <5>1, SortedIs
      <4>2. CASE x \notin B[m]
        <5>1. x # m /\ Key[x] # Key[m] /\ Key[x] \in Nat
          BY <1>0, <2>4, <3>4, KeysDiffer
        <5>2. Beside(s, Key[x], Key[m]) \/ Beside(o, Key[x], Key[m])
          BY <2>3, <5>1, BesideIs
        <5>3. Beside(o, Key[x], Key[m]) => Beside(o, Key[x], Key[c])
          BY <1>0, <2>1, <4>2, Interval
        <5> QED
          BY <1>0, <2>3, <3>4, <5>1, <5>2, <5>3, BesideIs
      <4> QED
        BY <4>1, <4>2
    <3>5. IsAbove(t, B, s, c, m)
      BY <2>1, <2>2, <3>3, <3>4 DEF IsAbove
    <3> QED
      BY <2>1, <3>2, <3>5 DEF c
  <2> QED
    BY <1>0, <2>5, <2>6, Sides
<1> HIDE DEF P
<1>3. n \in P
  BY <1>1, <1>2, Downward
<1>4. n # Nil
  BY <1>0, NilIs, Deeper
<1> QED
  BY <1>3, <1>4 DEF P

\* r is the node next to n on side s.
IsNeighbour(t, B, n, s, r) ==
  IF r = Nil THEN \A x \in B[t.root] : ~ Beside(s, Key[x], Key[n])
  ELSE /\ r \in B[t.root] /\ Beside(s, Key[r], Key[n])
       /\ \A x \in B[t.root] : Beside(s, Key[x], Key[n]) /\ x # r => Beside(s, Key[x], Key[r])

LEMMA NeighbourIs ==
  ASSUME NEW t, NEW B, Shape(t, B), NEW n \in B[t.root], NEW s \in Side
  PROVE  IsNeighbour(t, B, n, s, Neighbour(t, n, s))
<1> DEFINE Is(g) == g = [m \in Node |->
                           LET p == t.parent[m]
                           IN  IF p # Nil /\ t.link[p][s] = m THEN g[p] ELSE p]
           up == CHOOSE g : Is(g)
           c == t.link[n][s]
           o == Other(s)
           r == Neighbour(t, n, s)
<1>0. t.root \in Ptr /\ B[Nil] = {} /\ o \in Side /\ Other(o) = s /\ n \in Node /\ n \in Ptr
  <2>1. t.root \in Ptr /\ B[Nil] = {}
    BY DEF Shape, Tree, Subtrees
  <2>2. n \in Node
    BY <2>1, Deeper
  <2> QED
    BY <2>1, <2>2, Sides, NilIs
<1>1. r = IF c # Nil THEN Furthest(t, c, o) ELSE up[n]
  BY Zenon DEF Neighbour
<1>2. up \in [Node -> Ptr] /\ Climbs(t, s, up)
  <2>1. PICK g \in [Node -> Ptr] : Climbs(t, s, g)
    BY ClimbExists
  <2>2. Is(g)
    BY <2>1 DEF Climbs
  <2>3. Is(up)
    <3> HIDE DEF Is
    <3> QED
      BY <2>2
  <2> HIDE DEF up
  <2>4. Climbs(t, s, up)
    BY <2>3 DEF Climbs
  <2>5. up = g
    <3> DEFINE P == {m \in Ptr : m # Nil => up[m] = g[m]}
    <3>1. t.root \in P
      <4> SUFFICES ASSUME t.root # Nil PROVE up[t.root] = g[t.root]
        BY <1>0
      <4>1. t.root \in Node /\ t.parent[t.root] = Nil
        BY <1>0 DEF Ptr, Shape, Linked
      <4> QED
        BY <2>1, <2>4, <4>1 DEF Climbs
    <3>2. ASSUME NEW m \in B[t.root], m \in P, NEW z \in Side, t.link[m][z] # Nil
          PROVE  t.link[m][z] \in P
      <4> DEFINE d == t.link[m][z]
      <4>1. m \in Node /\ m # Nil
        BY <1>0, NilIs, Deeper
      <4>2. d \in Node /\ t.parent[d] = m /\ d \in Ptr
        BY <3>2, <4>1, Within, NilIs DEF Shape, Linked
      <4> HIDE DEF d
      <4>3. up[d] = g[d]
        BY <2>1, <2>4, <3>2, <4>1, <4>2 DEF Climbs
      <4> QED
        BY <4>2, <4>3 DEF d
    <3> HIDE DEF P
    <3>3. \A m \in B[t.root] : m \in P
      BY <3>1, <3>2, Downward
    <3>4. ASSUME NEW m \in Node PROVE up[m] = g[m]
      <4>1. CASE m \in B[t.root]
        BY <3>3, <4>1, NilIs DEF P
      <4>2. CASE m \notin B[t.root]
        <5>1. \A x \in Node : t.link[x][s] # m
          BY <4>2, Alone
        <5>2. t.parent[m] \in Ptr
          BY LinkIs, Sides DEF Shape
        <5>3. ~ (t.parent[m] # Nil /\ t.link[t.parent[m]][s] = m)
          BY <5>1, <5>2 DEF Ptr
        <5> QED
          BY <2>1, <2>4, <5>3 DEF Climbs
      <4> QED
        BY <4>1, <4>2
    <3>5. DOMAIN up = Node /\ up = [m \in Node |-> up[m]]
      BY <2>3
    <3> QED
      BY <2>1, <3>4, <3>5
  <2> QED
    BY <2>1, <2>4, <2>5
<1> HIDE DEF up, Is, r, o
<1>3. \A x \in B[t.root] : x \in Node /\ Key[x] \in Nat
  BY <1>0, Deeper, KeyIs
<1>4. Key[n] \in Nat
  BY <1>0, KeyIs
<1>5. CASE c # Nil
  <2>1. r = Furthest(t, c, o) /\ c \in Ptr
    BY <1>0, <1>1, <1>5, SubtreeIs
  <2>2. IsFurthest(t, B, c, o, r)
    BY <1>0, <1>5, <2>1, FurthestIs
  <2>3. r \in B[c] /\ \A x \in B[c] : x # r => Beside(s, Key[x], Key[r])
    BY <1>0, <2>2 DEF IsFurthest
  <2> HIDE DEF c
  <2>4. r \in Node /\ Beside(s, Key[r], Key[n]) /\ r \in B[n] /\ r \in B[t.root] /\ r # Nil
    <3>1. r \in Node /\ Beside(s, Key[r], Key[n]) /\ r \in B[n]
      BY <1>0, <2>3, SortedIs, SubtreeIs DEF c
    <3> QED
      BY <1>0, <3>1, Deeper, NilIs
  <2>5. ASSUME NEW x \in B[t.root], Beside(s, Key[x], Key[n]), x # r
        PROVE  Beside(s, Key[x], Key[r])
    <3>1. CASE x \in B[c]
      BY <2>3, <2>5, <3>1
    <3>2. CASE x \in B[n] /\ x \notin B[c]
      <4>1. x = n \/ x \in B[t.link[n][o]]
        BY <1>0, <3>2, SubtreeIs DEF c, o
      <4>2. x \in B[t.link[n][o]] => Beside(o, Key[x], Key[n])
        BY <1>0, SortedIs
      <4> QED
        BY <1>3, <1>4, <2>5, <4>1, <4>2, BesideIs DEF o
    <3>3. CASE x \notin B[n]
      BY <1>0, <2>4, <2>5, <3>3, Interval
    <3> QED
      BY <3>1, <3>2, <3>3
  <2>6. IsNeighbour(t, B, n, s, r)
    BY <2>4, <2>5 DEF IsNeighbour
  <2> QED
    BY <2>6 DEF r
<1>6. CASE c = Nil
  <2>1. r = up[n]
    BY <1>1, <1>6
  <2>2. IsAbove(t, B, s, n, r)
    BY <1>2, <2>1, ClimbIs
  <2>3. ASSUME NEW x \in B[n] PROVE ~ Beside(s, Key[x], Key[n])
    <3>1. x = n \/ x \in B[t.link[n][o]]
      BY <1>0, <1>6, SubtreeIs DEF o
    <3>2. x \in B[t.link[n][o]] => x \in Node /\ Beside(o, Key[x], Key[n])
      BY <1>0, SortedIs
    <3> QED
      BY <1>4, <3>1, <3>2, KeyIs, BesideIs DEF o
  <2>4. CASE r = Nil
    <3>1. ASSUME NEW x \in B[t.root] PROVE ~ Beside(s, Key[x], Key[n])
      <4>1. CASE x \in B[n]
        BY <2>3, <4>1
      <4>2. CASE x \notin B[n]
        <5>1. Beside(o, Key[x], Key[n])
          BY <2>2, <2>4, <4>2 DEF IsAbove, o
        <5> QED
          BY <1>3, <1>4, <5>1, BesideIs DEF o
      <4> QED
        BY <4>1, <4>2
    <3>2. IsNeighbour(t, B, n, s, r)
      BY <2>4, <3>1 DEF IsNeighbour
    <3> QED
      BY <3>2 DEF r
  <2>5. CASE r # Nil
    <3>1. IsNeighbour(t, B, n, s, r)
      BY <2>2, <2>3, <2>5 DEF IsAbove, IsNeighbour
    <3> QED
      BY <3>1 DEF r
  <2> QED
    BY <2>4, <2>5
<1> QED
  BY <1>5, <1>6

-----------------------------------------------------------------------------
(* Removal.                                                                *)

\* u is t with c, the only child of m if it has one, in the place of m below p.
Unlinked(t, u, m, c, p) ==
  /\ u \in Tree /\ u.root = IF p = Nil THEN c ELSE t.root
  /\ \A x \in Node, z \in Side :
       u.link[x][z] = IF x = p /\ z = SideOf(t, m, p) THEN c ELSE t.link[x][z]
  /\ \A x \in Node : u.parent[x] = IF x = c THEN p ELSE t.parent[x]
  /\ u.red = t.red

\* u is t with the fields of n cleared.
Emptied(t, u, n) ==
  /\ u \in Tree /\ u.root = t.root
  /\ \A x \in Node, z \in Side : u.link[x][z] = IF x = n THEN Nil ELSE t.link[x][z]
  /\ \A x \in Node : u.parent[x] = IF x = n THEN Nil ELSE t.parent[x]
  /\ \A x \in Node : u.red[x] = IF x = n THEN FALSE ELSE t.red[x]

\* u is t with m in the place of old below p.
Placed(t, u, old, m, p) ==
  /\ u \in Tree /\ u.root = IF p = Nil THEN m ELSE t.root
  /\ \A x \in Node, z \in Side :
       u.link[x][z] = IF x = m THEN t.link[old][z]
                      ELSE IF x = p /\ z = SideOf(t, old, p) THEN m
                      ELSE t.link[x][z]
  /\ \A x \in Node :
       u.parent[x] = IF x = m THEN p
                     ELSE IF \E z \in Side : t.link[old][z] = x THEN m
                     ELSE t.parent[x]
  /\ \A x \in Node : u.red[x] = IF x = m THEN t.red[old] ELSE t.red[x]

LEMMA UnlinkIs ==
  ASSUME NEW t \in Tree, NEW m \in Node
  PROVE  Unlinked(t, Unlink(t, m), m, Child(t, m), t.parent[m])
<1> DEFINE c == Child(t, m)
           p == t.parent[m]
           v == [t EXCEPT !.parent = IF c = Nil THEN @ ELSE [@ EXCEPT ![c] = p]]
           u == Replace(v, p, m, c)
<1>1. Unlink(t, m) = u
  BY DEF Unlink
<1>2. c \in Ptr /\ p \in Ptr
  BY LinkIs, Sides DEF Child
<1> HIDE DEF c, p
<1>3. ParentSet(t, v, c, p)
  BY <1>2, SetParent
<1> HIDE DEF v
<1>4. v \in Tree /\ v.root = t.root /\ v.link = t.link /\ v.red = t.red
  BY <1>3 DEF ParentSet
<1>5. Replaced(v, u, p, m, c)
  BY <1>2, <1>4, ReplaceIs
<1>6. SideOf(v, m, p) = SideOf(t, m, p)
  BY <1>4 DEF SideOf
<1> HIDE DEF u
<1>7. Unlinked(t, u, m, c, p)
  BY <1>3, <1>4, <1>5, <1>6, NilIs DEF ParentSet, Replaced, Unlinked
<1> QED
  BY <1>1, <1>7 DEF c, p

LEMMA ClearedIs ==
  ASSUME NEW t \in Tree, NEW n \in Node
  PROVE  Emptied(t, Cleared(t, n), n)
<1> DEFINE none == [s \in Side |-> Nil]
           u == [t EXCEPT !.link[n] = none, !.parent[n] = Nil, !.red[n] = FALSE]
<1>1. none \in [Side -> Ptr] /\ \A s \in Side : none[s] = Nil
  BY NilIs
<1>2. Cleared(t, n) = u
  BY DEF Cleared
<1> HIDE DEF none
<1>3. Emptied(t, u, n)
  BY <1>1, NilIs DEF Tree, Emptied
<1> QED
  BY <1>2, <1>3

LEMMA TakePlaceIs ==
  ASSUME NEW t \in Tree, NEW old \in Node, NEW m \in Node, m # old
  PROVE  Placed(t, TakePlace(t, old, m), old, m, t.parent[old])
<1> DEFINE p == t.parent[old]
           children == {t.link[old][s] : s \in Side} \ {Nil}
           v == Replace(t, p, old, m)
           parents == [n \in Node |-> IF n = m THEN p ELSE IF n \in children THEN m ELSE v.parent[n]]
           u == [v EXCEPT !.link[m] = t.link[old], !.red[m] = t.red[old], !.parent = parents]
<1>1. TakePlace(t, old, m) = u
  BY DEF TakePlace
<1>2. p \in Ptr /\ m \in Ptr
  BY LinkIs, Sides, NilIs
<1>3. Replaced(t, v, p, old, m)
  BY <1>2, ReplaceIs
<1> HIDE DEF v
<1>4. v \in Tree /\ v.parent = t.parent
  BY <1>3 DEF Replaced
<1>5. \A x \in Node : x \in children <=> \E z \in Side : t.link[old][z] = x
  BY NilIs
<1> HIDE DEF children
<1>6. /\ parents \in [Node -> Ptr]
      /\ \A x \in Node :
           parents[x] = IF x = m THEN p
                        ELSE IF \E z \in Side : t.link[old][z] = x THEN m ELSE t.parent[x]
  <2>1. t.parent \in [Node -> Ptr]
    BY DEF Tree
  <2> QED
    BY <1>2, <1>4, <1>5, <2>1
<1> HIDE DEF parents
<1>7. t.link[old] \in [Side -> Ptr] /\ t.red[old] \in BOOLEAN
  BY DEF Tree
<1>8. /\ u \in Tree /\ u.root = v.root /\ u.parent = parents
      /\ \A x \in Node : u.link[x] = IF x = m THEN t.link[old] ELSE v.link[x]
      /\ \A x \in Node : u.red[x] = IF x = m THEN t.red[old] ELSE v.red[x]
  BY <1>4, <1>6, <1>7 DEF Tree
<1> HIDE DEF u
<1>9. ASSUME NEW x \in Node, NEW z \in Side
      PROVE  u.link[x][z] = IF x = m THEN t.link[old][z]
                            ELSE IF x = p /\ z = SideOf(t, old, p) THEN m
                            ELSE t.link[x][z]
  BY <1>3, <1>8 DEF Replaced
<1>10. \A x \in Node : u.red[x] = IF x = m THEN t.red[old] ELSE t.red[x]
  BY <1>3, <1>8 DEF Replaced
<1>11. u.root = IF p = Nil THEN m ELSE t.root
  BY <1>3, <1>8 DEF Replaced
<1>12. Placed(t, u, old, m, p)
  BY <1>6, <1>8, <1>9, <1>10, <1>11 DEF Placed
<1> QED
  BY <1>1, <1>12

\* u is t without m: c, its only child if it has one, is in its place.
Cut(t, u, m, c, p) ==
  /\ u \in Tree /\ u.root = IF p = Nil THEN c ELSE t.root
  /\ \A x \in Node, z \in Side :
       u.link[x][z] = IF x = m THEN Nil
                      ELSE IF x = p /\ z = SideOf(t, m, p) THEN c
                      ELSE t.link[x][z]
  /\ \A x \in Node : u.parent[x] = IF x = m THEN Nil ELSE IF x = c THEN p ELSE t.parent[x]
  /\ \A x \in Node : u.red[x] = IF x = m THEN FALSE ELSE t.red[x]

Without(B, m) == [x \in Ptr |-> IF x = m THEN {m} ELSE B[x] \ {m}]

\* One of m's links is Nil, c is the other one.
OnlyChild(t, m, c) ==
  \E s \in Side : t.link[m][s] = c /\ t.link[m][Other(s)] = Nil

LEMMA ChildIs ==
  ASSUME NEW t \in Tree, NEW m \in Node, NEW s \in Side, t.link[m][s] = Nil
  PROVE  OnlyChild(t, m, Child(t, m))
BY Sides DEF OnlyChild, Child, Other

LEMMA CutShape ==
  ASSUME NEW t, NEW B, Shape(t, B), NEW m \in B[t.root], NEW c, OnlyChild(t, m, c),
         NEW p, p = t.parent[m], NEW u, Cut(t, u, m, c, p)
  PROVE  /\ Shape(u, Without(B, m))
         /\ Without(B, m)[u.root] = B[t.root] \ {m}
         /\ \A x \in Node, z \in Side : Without(B, m)[u.link[x][z]] \subseteq B[t.link[x][z]] \ {m}
<1> DEFINE C == Without(B, m)
           w == SideOf(t, m, p)
<1>0. /\ t \in Tree /\ B \in [Ptr -> SUBSET Node] /\ B[Nil] = {} /\ t.root \in Ptr
      /\ m \in Node
  <2>1. t \in Tree /\ B \in [Ptr -> SUBSET Node] /\ B[Nil] = {} /\ t.root \in Ptr
    BY DEF Shape, Subtrees, Tree
  <2> QED
    BY <2>1, Deeper
<1>1. c \in Ptr /\ B[m] = {m} \cup B[c] /\ m \notin B[c] /\ (c # Nil => t.parent[c] = m)
  <2>1. PICK s \in Side : t.link[m][s] = c /\ t.link[m][Other(s)] = Nil
    BY DEF OnlyChild
  <2>2. c # Nil => t.parent[c] = m
    BY <1>0, <2>1 DEF Shape, Linked
  <2>3. B[m] = {m} \cup B[t.link[m][s]] \cup B[t.link[m][Other(s)]]
    BY <1>0, SubtreeIs
  <2>4. t.link[m][s] \in Ptr /\ m \notin B[t.link[m][s]]
    BY <1>0, SubtreeIs
  <2> QED
    BY <1>0, <2>1, <2>2, <2>3, <2>4
<1>2. /\ m = t.root => p = Nil
      /\ m # t.root => p \in Node /\ p \in B[t.root] /\ t.link[p][w] = m
      /\ \A x \in Node, z \in Side : t.link[x][z] = m => x = p /\ z = w
      /\ p # m /\ t.root \in Node
  BY PlaceIs
<1>3. c # m /\ m # Nil /\ m \in Ptr
  BY <1>0, <1>1, NilIs, SubtreeIs, Sides
<1>4. /\ C \in [Ptr -> SUBSET Node] /\ C[m] = {m} /\ C[Nil] = {} /\ C[c] = B[m] \ {m}
      /\ \A x \in Ptr : x # m => C[x] = B[x] \ {m}
  BY <1>0, <1>1, <1>3, NilIs DEF Without
<1> HIDE DEF C, w
<1>5. /\ u \in Tree /\ u.root = IF p = Nil THEN c ELSE t.root
      /\ \A x \in Node, z \in Side :
           u.link[x][z] = IF x = m THEN Nil ELSE IF x = p /\ z = w THEN c ELSE t.link[x][z]
      /\ \A x \in Node : u.parent[x] = IF x = m THEN Nil ELSE IF x = c THEN p ELSE t.parent[x]
  BY DEF Cut, w
<1>6. ASSUME NEW x \in Node, NEW z \in Side, x # m
      PROVE  C[u.link[x][z]] = B[t.link[x][z]] \ {m}
  <2>1. CASE x = p /\ z = w
    <3>1. m # t.root
      BY <1>2, <2>1, NilIs
    <3>2. t.link[x][z] = m /\ u.link[x][z] = c
      BY <1>2, <1>5, <1>6, <2>1, <3>1
    <3> QED
      BY <1>4, <3>2
  <2>2. CASE ~ (x = p /\ z = w)
    <3>1. u.link[x][z] = t.link[x][z] /\ t.link[x][z] # m /\ t.link[x][z] \in Ptr
      BY <1>0, <1>2, <1>5, <1>6, <2>2, LinkIs
    <3> QED
      BY <1>4, <3>1
  <2> QED
    BY <2>1, <2>2
<1>7. ASSUME NEW x \in Node, NEW z \in Side
      PROVE  C[u.link[x][z]] \subseteq B[t.link[x][z]] \ {m}
  <2>1. CASE x = m
    BY <1>4, <1>5, <2>1
  <2> QED
    BY <1>6, <2>1
<1>8. Subtrees(u, C)
  <2>1. ASSUME NEW x \in Node
        PROVE  C[x] = {x} \cup C[u.link[x]["left"]] \cup C[u.link[x]["right"]]
    <3>1. CASE x = m
      BY <1>4, <1>5, <3>1, Sides
    <3>2. CASE x # m
      <4>1. B[x] = {x} \cup B[t.link[x]["left"]] \cup B[t.link[x]["right"]] /\ x \in Ptr
        BY NilIs DEF Shape, Subtrees
      <4>2. C[x] = B[x] \ {m}
        BY <1>4, <3>2, <4>1
      <4>3. /\ C[u.link[x]["left"]] = B[t.link[x]["left"]] \ {m}
            /\ C[u.link[x]["right"]] = B[t.link[x]["right"]] \ {m}
        BY <1>6, <3>2, Sides
      <4> QED
        BY <3>2, <4>1, <4>2, <4>3
    <3> QED
      BY <3>1, <3>2
  <2> QED
    BY <1>4, <2>1 DEF Subtrees
<1>9. Sorted(u, C)
  <2> SUFFICES ASSUME NEW x \in Node, NEW z \in Side, NEW y \in C[u.link[x][z]]
               PROVE  Beside(z, Key[y], Key[x])
    BY DEF Sorted
  <2>1. y \in B[t.link[x][z]]
    BY <1>7
  <2> QED
    BY <2>1, SortedIs
<1>10. C[u.root] = B[t.root] \ {m}
  <2>1. CASE p = Nil
    BY <1>2, <1>4, <1>5, <2>1, NilIs
  <2>2. CASE p # Nil
    BY <1>0, <1>2, <1>4, <1>5, <2>2
  <2> QED
    BY <2>1, <2>2
<1>11. Linked(u, C)
  <2>1. ASSUME NEW x \in Node, NEW z \in Side, u.link[x][z] # Nil
        PROVE  u.parent[u.link[x][z]] = x
    <3>0. x # m
      BY <1>5, <2>1
    <3>1. CASE x = p /\ z = w
      <4>1. u.link[x][z] = c /\ c \in Node
        BY <1>1, <1>5, <2>1, <3>0, <3>1 DEF Ptr
      <4> QED
        BY <1>3, <1>5, <3>1, <4>1
    <3>2. CASE ~ (x = p /\ z = w)
      <4> DEFINE y == t.link[x][z]
      <4>1. u.link[x][z] = y
        BY <1>5, <3>0, <3>2
      <4>2. y \in Node /\ t.parent[y] = x /\ y # m
        <5>1. y \in Ptr /\ y # m
          BY <1>0, <1>2, <3>2, LinkIs
        <5> QED
          BY <2>1, <4>1, <5>1 DEF Ptr, Shape, Linked
      <4>3. y # c
        BY <1>1, <3>0, <4>2, NilIs
      <4> QED
        BY <1>5, <4>1, <4>2, <4>3
    <3> QED
      BY <3>1, <3>2
  <2>2. u.root # Nil => u.parent[u.root] = Nil
    <3>1. CASE p = Nil
      BY <1>1, <1>3, <1>5, <3>1 DEF Ptr
    <3>2. CASE p # Nil
      <4>1. u.root = t.root /\ t.root # m /\ t.root \in Node /\ t.parent[t.root] = Nil
        BY <1>2, <1>5, <3>2, NilIs DEF Shape, Linked
      <4>2. t.root # c
        BY <1>1, <1>3, <4>1, NilIs
      <4> QED
        BY <1>5, <4>1, <4>2
    <3> QED
      BY <3>1, <3>2
  <2>3. ASSUME NEW x \in Node, x \notin C[u.root], NEW z \in Side PROVE u.link[x][z] = Nil
    <3>1. CASE x = m
      BY <1>5, <3>1
    <3>2. CASE x # m
      <4>1. x \notin B[t.root]
        BY <1>10, <2>3, <3>2
      <4>2. x # p
        BY <1>2, <4>1, NilIs
      <4> QED
        BY <1>5, <3>2, <4>1, <4>2 DEF Shape, Linked
    <3> QED
      BY <3>1, <3>2
  <2> QED
    BY <2>1, <2>2, <2>3 DEF Linked
<1> QED
  BY <1>5, <1>7, <1>8, <1>9, <1>10, <1>11 DEF Shape, C

\* u is t with m in the place of n, which is taken out.
Taken(t, u, n, m, p) ==
  /\ u \in Tree /\ u.root = IF p = Nil THEN m ELSE t.root
  /\ \A x \in Node, z \in Side :
       u.link[x][z] = IF x = n THEN Nil
                      ELSE IF x = m THEN t.link[n][z]
                      ELSE IF x = p /\ z = SideOf(t, n, p) THEN m
                      ELSE t.link[x][z]
  /\ \A x \in Node :
       u.parent[x] = IF x = n THEN Nil
                     ELSE IF x = m THEN p
                     ELSE IF \E z \in Side : t.link[n][z] = x THEN m
                     ELSE t.parent[x]
  /\ \A x \in Node : u.red[x] = IF x = n THEN FALSE ELSE IF x = m THEN t.red[n] ELSE t.red[x]

Swapped(S, n, m) == IF n \in S THEN (S \ {n}) \cup {m} ELSE S

Instead(B, n, m) ==
  [x \in Ptr |-> IF x = n THEN {n} ELSE IF x = m THEN (B[n] \ {n}) \cup {m}
                 ELSE Swapped(B[x], n, m)]

\* The key of m may stand where n is.
Fits(t, B, n, m) ==
  /\ \A z \in Side : \A y \in B[t.link[n][z]] : Beside(z, Key[y], Key[m])
  /\ \A x \in Node, z \in Side : n \in B[t.link[x][z]] => Beside(z, Key[m], Key[x])

LEMMA TakenShape ==
  ASSUME NEW t, NEW B, Shape(t, B), NEW n \in B[t.root], NEW m \in Node, m \notin B[t.root],
         Fits(t, B, n, m), NEW p, p = t.parent[n], NEW u, Taken(t, u, n, m, p)
  PROVE  /\ Shape(u, Instead(B, n, m))
         /\ Instead(B, n, m)[u.root] = (B[t.root] \ {n}) \cup {m}
<1> DEFINE C == Instead(B, n, m)
           w == SideOf(t, n, p)
<1>0. /\ t \in Tree /\ B \in [Ptr -> SUBSET Node] /\ B[Nil] = {} /\ t.root \in Ptr
      /\ n \in Node /\ n # m
  <2>1. t \in Tree /\ B \in [Ptr -> SUBSET Node] /\ B[Nil] = {} /\ t.root \in Ptr
    BY DEF Shape, Subtrees, Tree
  <2> QED
    BY <2>1, Deeper
<1>1. /\ \A s \in Side : t.link[m][s] = Nil
      /\ \A x \in Node, z \in Side : t.link[x][z] # m
      /\ \A x \in Ptr : m \in B[x] => x = m
  BY Alone
<1>2. /\ n = t.root => p = Nil
      /\ n # t.root => p \in Node /\ p \in B[t.root] /\ t.link[p][w] = n
      /\ \A x \in Node, z \in Side : t.link[x][z] = n => x = p /\ z = w
      /\ p # n /\ t.root \in Node
  BY PlaceIs
<1>3. n # Nil /\ m # Nil /\ n \in Ptr /\ m \in Ptr /\ p # m /\ n \in B[n] /\ t.root # m
  <2>1. n # Nil /\ m # Nil /\ n \in Ptr /\ m \in Ptr /\ n \in B[n]
    BY <1>0, NilIs, SubtreeIs, Sides
  <2>2. t.root # m
    BY <1>2, SubtreeIs, Sides
  <2> QED
    BY <1>2, <2>1, <2>2
<1>4. /\ C \in [Ptr -> SUBSET Node] /\ C[n] = {n} /\ C[m] = (B[n] \ {n}) \cup {m} /\ C[Nil] = {}
      /\ \A x \in Ptr : x # n /\ x # m => C[x] = Swapped(B[x], n, m)
  BY <1>0, <1>3, NilIs DEF Instead, Swapped
<1> HIDE DEF C, w
<1>5. /\ u \in Tree /\ u.root = IF p = Nil THEN m ELSE t.root
      /\ \A x \in Node, z \in Side :
           u.link[x][z] = IF x = n THEN Nil
                          ELSE IF x = m THEN t.link[n][z]
                          ELSE IF x = p /\ z = w THEN m
                          ELSE t.link[x][z]
      /\ \A x \in Node :
           u.parent[x] = IF x = n THEN Nil
                         ELSE IF x = m THEN p
                         ELSE IF \E z \in Side : t.link[n][z] = x THEN m
                         ELSE t.parent[x]
  BY DEF Taken, w
<1>6. ASSUME NEW x \in Node, NEW z \in Side, x # n, x # m
      PROVE  C[u.link[x][z]] = Swapped(B[t.link[x][z]], n, m)
  <2>1. CASE x = p /\ z = w
    <3>1. n # t.root
      BY <1>2, <2>1, NilIs
    <3>2. t.link[x][z] = n /\ u.link[x][z] = m
      BY <1>2, <1>5, <1>6, <2>1, <3>1
    <3> QED
      BY <1>3, <1>4, <3>2 DEF Swapped
  <2>2. CASE ~ (x = p /\ z = w)
    <3>1. /\ u.link[x][z] = t.link[x][z] /\ t.link[x][z] # n /\ t.link[x][z] # m
          /\ t.link[x][z] \in Ptr
      BY <1>0, <1>1, <1>2, <1>5, <1>6, <2>2, LinkIs
    <3> QED
      BY <1>4, <3>1
  <2> QED
    BY <2>1, <2>2
<1>7. ASSUME NEW z \in Side
      PROVE  u.link[m][z] = t.link[n][z] /\ C[u.link[m][z]] = B[t.link[n][z]]
  <2>1. u.link[m][z] = t.link[n][z]
    BY <1>0, <1>5
  <2>2. t.link[n][z] \in Ptr /\ n \notin B[t.link[n][z]] /\ t.link[n][z] # n /\ t.link[n][z] # m
    BY <1>0, <1>1, <1>3, SubtreeIs
  <2> QED
    BY <1>4, <2>1, <2>2 DEF Swapped
<1>8. Subtrees(u, C)
  <2>1. ASSUME NEW x \in Node
        PROVE  C[x] = {x} \cup C[u.link[x]["left"]] \cup C[u.link[x]["right"]]
    <3>1. CASE x = n
      BY <1>4, <1>5, <3>1, Sides
    <3>2. CASE x = m
      <4>1. B[n] = {n} \cup B[t.link[n]["left"]] \cup B[t.link[n]["right"]]
        BY <1>0 DEF Shape, Subtrees
      <4>2. n \notin B[t.link[n]["left"]] /\ n \notin B[t.link[n]["right"]]
        BY <1>0, SubtreeIs, Sides
      <4>3. /\ C[u.link[m]["left"]] = B[t.link[n]["left"]]
            /\ C[u.link[m]["right"]] = B[t.link[n]["right"]]
        BY <1>7, Sides
      <4> QED
        BY <1>4, <3>2, <4>1, <4>2, <4>3
    <3>3. CASE x # n /\ x # m
      <4>1. B[x] = {x} \cup B[t.link[x]["left"]] \cup B[t.link[x]["right"]] /\ x \in Ptr
        BY NilIs DEF Shape, Subtrees
      <4>2. C[x] = Swapped(B[x], n, m)
        BY <1>4, <3>3, <4>1
      <4>3. /\ C[u.link[x]["left"]] = Swapped(B[t.link[x]["left"]], n, m)
            /\ C[u.link[x]["right"]] = Swapped(B[t.link[x]["right"]], n, m)
        BY <1>6, <3>3, Sides
      <4> QED
        BY <3>3, <4>1, <4>2, <4>3 DEF Swapped
    <3> QED
      BY <3>1, <3>2, <3>3
  <2> QED
    BY <1>4, <2>1 DEF Subtrees
<1>9. Sorted(u, C)
  <2> SUFFICES ASSUME NEW x \in Node, NEW z \in Side, NEW y \in C[u.link[x][z]]
               PROVE  Beside(z, Key[y], Key[x])
    BY DEF Sorted
  <2>1. CASE x = n
    BY <1>4, <1>5, <2>1
  <2>2. CASE x = m
    <3>1. y \in B[t.link[n][z]]
      BY <1>7, <2>2
    <3> QED
      BY <2>2, <3>1 DEF Fits
  <2>3. CASE x # n /\ x # m
    <3>1. y \in Swapped(B[t.link[x][z]], n, m)
      BY <1>6, <2>3
    <3>2. CASE y \in B[t.link[x][z]]
      BY <3>2, SortedIs
    <3>3. CASE y = m /\ n \in B[t.link[x][z]]
      BY <3>3 DEF Fits
    <3> QED
      BY <3>1, <3>2, <3>3 DEF Swapped
  <2> QED
    BY <2>1, <2>2, <2>3
<1>10. C[u.root] = (B[t.root] \ {n}) \cup {m}
  <2>1. CASE p = Nil
    BY <1>2, <1>4, <1>5, <2>1, NilIs
  <2>2. CASE p # Nil
    BY <1>0, <1>2, <1>3, <1>4, <1>5, <2>2 DEF Swapped
  <2> QED
    BY <2>1, <2>2
<1>11. Linked(u, C)
  <2>1. ASSUME NEW x \in Node, NEW z \in Side, u.link[x][z] # Nil
        PROVE  u.parent[u.link[x][z]] = x
    <3>0. x # n
      BY <1>5, <2>1
    <3>1. CASE x = m
      <4> DEFINE y == t.link[n][z]
      <4>1. u.link[x][z] = y /\ y \in Ptr /\ y # n /\ y # m
        BY <1>0, <1>1, <1>3, <1>7, <3>1, SubtreeIs
      <4>2. y \in Node
        BY <2>1, <4>1 DEF Ptr
      <4> QED
        BY <1>5, <3>1, <4>1, <4>2
    <3>2. CASE x # m /\ x = p /\ z = w
      BY <1>0, <1>5, <3>0, <3>2
    <3>3. CASE x # m /\ ~ (x = p /\ z = w)
      <4> DEFINE y == t.link[x][z]
      <4>1. u.link[x][z] = y
        BY <1>5, <3>0, <3>3
      <4>2. y \in Node /\ t.parent[y] = x /\ y # n /\ y # m
        <5>1. y \in Ptr /\ y # n /\ y # m
          BY <1>0, <1>1, <1>2, <3>3, LinkIs
        <5> QED
          BY <2>1, <4>1, <5>1 DEF Ptr, Shape, Linked
      <4>3. ASSUME NEW s \in Side PROVE t.link[n][s] # y
        BY <1>0, <3>0, <4>2, NilIs DEF Shape, Linked
      <4> HIDE DEF y
      <4> QED
        BY <1>5, <4>1, <4>2, <4>3
    <3> QED
      BY <3>1, <3>2, <3>3
  <2>2. u.root # Nil => u.parent[u.root] = Nil
    <3>1. CASE p = Nil
      BY <1>0, <1>5, <3>1
    <3>2. CASE p # Nil
      <4>1. u.root = t.root /\ t.root # n /\ t.root # m /\ t.root \in Node /\ t.parent[t.root] = Nil
        BY <1>2, <1>3, <1>5, <3>2, NilIs DEF Shape, Linked
      <4>2. ASSUME NEW s \in Side PROVE t.link[n][s] # t.root
        BY <1>0, <1>3, <4>1, NilIs DEF Shape, Linked
      <4> QED
        BY <1>5, <4>1, <4>2
    <3> QED
      BY <3>1, <3>2
  <2>3. ASSUME NEW x \in Node, x \notin C[u.root], NEW z \in Side PROVE u.link[x][z] = Nil
    <3>1. CASE x = n
      BY <1>5, <3>1
    <3>2. CASE x # n
      <4>1. x \notin B[t.root] /\ x # m
        BY <1>10, <2>3, <3>2
      <4>2. x # p
        BY <1>2, <4>1, NilIs
      <4> QED
        BY <1>5, <3>2, <4>1, <4>2 DEF Shape, Linked
    <3> QED
      BY <3>1, <3>2
  <2> QED
    BY <2>1, <2>2, <2>3 DEF Linked
<1> QED
  BY <1>5, <1>8, <1>9, <1>10, <1>11 DEF Shape, C

\* The tree without n.
Removed(t, n) ==
  LET two == Nil \notin {t.link[n][s] : s \in Side}
      m   == IF two THEN Furthest(t, t.link[n].right, "left") ELSE n
  IN  Cleared(IF two THEN TakePlace(Unlink(t, m), n, m) ELSE Unlink(t, m), n)

\* When n has a Nil child, the only step is to cut it out.
LEMMA CutIs ==
  ASSUME NEW t \in Tree, NEW m \in Node
  PROVE  Cut(t, Cleared(Unlink(t, m), m), m, Child(t, m), t.parent[m])
<1> DEFINE c == Child(t, m)
           p == t.parent[m]
           w == Unlink(t, m)
           u == Cleared(w, m)
<1>1. Unlinked(t, w, m, c, p)
  BY UnlinkIs
<1> HIDE DEF w, c, p
<1>2. w \in Tree
  BY <1>1 DEF Unlinked
<1>3. Emptied(w, u, m)
  BY <1>2, ClearedIs
<1> HIDE DEF u
<1>4. u \in Tree /\ u.root = IF p = Nil THEN c ELSE t.root
  BY <1>1, <1>3 DEF Unlinked, Emptied
<1>5. ASSUME NEW x \in Node
      PROVE  /\ u.parent[x] = IF x = m THEN Nil ELSE IF x = c THEN p ELSE t.parent[x]
             /\ u.red[x] = IF x = m THEN FALSE ELSE t.red[x]
  BY <1>1, <1>3, <1>5 DEF Unlinked, Emptied
<1>6. ASSUME NEW x \in Node, NEW z \in Side
      PROVE  u.link[x][z] = IF x = m THEN Nil
                            ELSE IF x = p /\ z = SideOf(t, m, p) THEN c
                            ELSE t.link[x][z]
  BY <1>1, <1>3, <1>6 DEF Unlinked, Emptied
<1>7. Cut(t, u, m, c, p)
  BY <1>4, <1>5, <1>6 DEF Cut
<1> QED
  BY <1>7 DEF u, w, c, p

\* Otherwise its successor is cut out first, and takes its place.
LEMMA TakenIs ==
  ASSUME NEW t \in Tree, NEW n \in Node, NEW m \in Node, n # m
  PROVE  Taken(Cleared(t, m), Cleared(TakePlace(t, n, m), n), n, m, Cleared(t, m).parent[n])
<1> DEFINE p == t.parent[n]
           v == Cleared(t, m)
           w == TakePlace(t, n, m)
           u == Cleared(w, n)
<1>1. Emptied(t, v, m)
  BY ClearedIs
<1>2. Placed(t, w, n, m, p)
  BY TakePlaceIs
<1> HIDE DEF v, w
<1>3. w \in Tree /\ v.parent[n] = p
  BY <1>1, <1>2 DEF Placed, Emptied
<1>4. Emptied(w, u, n)
  BY <1>3, ClearedIs
<1> HIDE DEF u
<1>5. p \in Node /\ p # m => SideOf(v, n, p) = SideOf(t, n, p)
  BY <1>1, Sides DEF SideOf, Emptied
<1>6. ASSUME NEW x \in Node, NEW z \in Side
      PROVE  u.link[x][z] = IF x = n THEN Nil
                            ELSE IF x = m THEN v.link[n][z]
                            ELSE IF x = p /\ z = SideOf(v, n, p) THEN m
                            ELSE v.link[x][z]
  BY <1>1, <1>2, <1>4, <1>5 DEF Placed, Emptied
<1>7. ASSUME NEW x \in Node
      PROVE  u.parent[x] = IF x = n THEN Nil
                           ELSE IF x = m THEN p
                           ELSE IF \E z \in Side : v.link[n][z] = x THEN m
                           ELSE v.parent[x]
  <2>1. \A z \in Side : v.link[n][z] = t.link[n][z]
    BY <1>1 DEF Emptied
  <2>2. (\E z \in Side : v.link[n][z] = x) <=> (\E z \in Side : t.link[n][z] = x)
    BY <2>1
  <2> QED
    BY <1>1, <1>2, <1>4, <2>2 DEF Placed, Emptied
<1>8. ASSUME NEW x \in Node
      PROVE  u.red[x] = IF x = n THEN FALSE ELSE IF x = m THEN v.red[n] ELSE v.red[x]
  <2>1. u.red[x] = IF x = n THEN FALSE ELSE w.red[x]
    BY <1>4 DEF Emptied
  <2>2. w.red[x] = IF x = m THEN t.red[n] ELSE t.red[x]
    BY <1>2 DEF Placed
  <2>3. x # m => v.red[x] = t.red[x]
    BY <1>1 DEF Emptied
  <2>4. v.red[n] = t.red[n]
    BY <1>1 DEF Emptied
  <2> QED
    BY <2>1, <2>2, <2>3, <2>4
<1>9. u \in Tree /\ u.root = IF p = Nil THEN m ELSE v.root
  BY <1>1, <1>2, <1>4 DEF Placed, Emptied
<1>10. Taken(v, u, n, m, p)
  BY <1>6, <1>7, <1>8, <1>9 DEF Taken
<1> QED
  BY <1>3, <1>10 DEF u, v, w

\* What the two steps start from: m is the successor of n, v the tree without m.
TwoSteps(t, B, u, n, m, v) ==
  /\ m \in Node /\ m # n /\ m \in B[n] /\ m \in B[t.root]
  /\ OnlyChild(t, m, Child(t, m))
  /\ Cut(t, v, m, Child(t, m), t.parent[m])
  /\ Shape(v, Without(B, m)) /\ Without(B, m)[v.root] = B[t.root] \ {m}
  /\ Fits(v, Without(B, m), n, m)
  /\ Taken(v, u, n, m, v.parent[n])

OneStep(t, u, n) ==
  /\ OnlyChild(t, n, Child(t, n))
  /\ Cut(t, u, n, Child(t, n), t.parent[n])

LEMMA RemovedOne ==
  ASSUME NEW t, NEW B, Shape(t, B), NEW n \in Node, \E s \in Side : t.link[n][s] = Nil
  PROVE  OneStep(t, Removed(t, n), n)
<1>1. t \in Tree
  BY DEF Shape
<1>2. Removed(t, n) = Cleared(Unlink(t, n), n)
  BY DEF Removed
<1>3. Cut(t, Removed(t, n), n, Child(t, n), t.parent[n])
  BY <1>1, <1>2, CutIs
<1>4. OnlyChild(t, n, Child(t, n))
  BY <1>1, ChildIs
<1> QED
  BY <1>3, <1>4 DEF OneStep

LEMMA RemovedTwo ==
  ASSUME NEW t, NEW B, Shape(t, B), NEW n \in B[t.root], \A s \in Side : t.link[n][s] # Nil,
         NEW m, m = Furthest(t, t.link[n]["right"], "left")
  PROVE  TwoSteps(t, B, Removed(t, n), n, m, Cleared(Unlink(t, m), m))
<1> DEFINE u == Removed(t, n)
           r == t.link[n]["right"]
           v == Cleared(Unlink(t, m), m)
           D == Without(B, m)
<1>0. t \in Tree /\ B \in [Ptr -> SUBSET Node] /\ B[Nil] = {} /\ t.root \in Ptr /\ n \in Node
  <2>1. t \in Tree /\ B \in [Ptr -> SUBSET Node] /\ B[Nil] = {} /\ t.root \in Ptr
    BY DEF Shape, Subtrees, Tree
  <2> QED
    BY <2>1, Deeper
<1>1. u = Cleared(TakePlace(Unlink(t, m), n, m), n)
  BY DEF Removed
<1>2. r \in Ptr /\ r # Nil
  BY <1>0, SubtreeIs, Sides
<1>3. /\ m \in B[r] /\ t.link[m]["left"] = Nil
      /\ \A x \in B[r] : x # m => Beside("right", Key[x], Key[m])
  BY <1>2, FurthestIs, Sides DEF IsFurthest, Other
<1>4. m \in Node /\ m # n /\ m \in B[n] /\ Beside("right", Key[m], Key[n])
  BY <1>0, <1>3, SortedIs, SubtreeIs, Sides
<1>5. m \in B[t.root]
  BY <1>0, <1>4, Deeper
<1>6. Cut(t, v, m, Child(t, m), t.parent[m])
  BY <1>0, <1>4, CutIs
<1>7. OnlyChild(t, m, Child(t, m))
  BY <1>0, <1>3, <1>4, ChildIs, Sides
<1> HIDE DEF v
<1>8. /\ Shape(v, D) /\ D[v.root] = B[t.root] \ {m}
      /\ \A x \in Node, z \in Side : D[v.link[x][z]] \subseteq B[t.link[x][z]] \ {m}
  <2> DEFINE p == t.parent[m]
             c == Child(t, m)
  <2>1. Cut(t, v, m, c, p) /\ OnlyChild(t, m, c) /\ p = t.parent[m] /\ m \in B[t.root]
    BY <1>5, <1>6, <1>7
  <2> HIDE DEF p, c
  <2> QED
    BY <2>1, CutShape
<1>9. Unlink(t, m) \in Tree
  BY <1>0, <1>4, UnlinkIs DEF Unlinked
<1>10. Taken(v, u, n, m, v.parent[n])
  BY <1>0, <1>1, <1>4, <1>9, TakenIs DEF v
<1> HIDE DEF D, u
<1>11. ASSUME NEW z \in Side, NEW y \in D[v.link[n][z]] PROVE Beside(z, Key[y], Key[m])
  <2>1. y \in B[t.link[n][z]] /\ y # m
    BY <1>0, <1>8
  <2>2. y \in Node /\ Beside(z, Key[y], Key[n])
    BY <1>0, <2>1, SortedIs
  <2>3. CASE z = "right"
    BY <1>3, <2>1, <2>3
  <2>4. CASE z = "left"
    <3>1. Beside("left", Key[n], Key[m])
      BY <1>0, <1>4, KeyIs, BesideIs, Sides DEF Other
    <3> QED
      BY <1>0, <1>4, <2>2, <2>4, <3>1, KeyIs, BesideIs
  <2> QED
    BY <2>3, <2>4, Sides
<1>12. ASSUME NEW x \in Node, NEW z \in Side, n \in D[v.link[x][z]]
       PROVE  Beside(z, Key[m], Key[x])
  <2>1. n \in B[t.link[x][z]] /\ t.link[x][z] \in Ptr
    BY <1>0, <1>8, <1>12, LinkIs
  <2>2. m \in B[t.link[x][z]]
    BY <1>4, <2>1, Deeper
  <2> QED
    BY <2>2, SortedIs
<1>13. Fits(v, D, n, m)
  BY <1>11, <1>12 DEF Fits
<1> QED
  BY <1>4, <1>5, <1>6, <1>7, <1>8, <1>10, <1>13 DEF TwoSteps, D, v, u

\* A parent is not below its child.
LEMMA Above ==
  ASSUME NEW t, NEW B, Shape(t, B), NEW n \in B[t.root]
  PROVE  t.parent[n] \notin B[n]
<1> SUFFICES ASSUME t.parent[n] \in B[n] PROVE FALSE
  OBVIOUS
<1> DEFINE p == t.parent[n]
<1>1. /\ n \in Node /\ p # n
      /\ n = t.root => p = Nil
      /\ n # t.root => p \in Node /\ t.link[p][SideOf(t, n, p)] = n
  BY PlaceIs
<1>2. p \in Node
  BY <1>1, NilIs, SubtreeIs, Sides
<1>3. n \in B[n] /\ t.link[p][SideOf(t, n, p)] = n
  BY <1>1, <1>2, NilIs, SubtreeIs, Sides
<1>4. n \in B[p]
  BY <1>2, <1>3, SideOfIs, SubtreeIs
<1> QED
  BY <1>1, <1>2, <1>4, Apart

\* The node taken out, and the place where a black node may be lacking then.
Spliced(t, n) ==
  IF Nil \notin {t.link[n][s] : s \in Side} THEN Furthest(t, t.link[n].right, "left") ELSE n

SplicedParent(t, n) ==
  IF t.parent[Spliced(t, n)] = n THEN Spliced(t, n) ELSE t.parent[Spliced(t, n)]

\* c is at the root of t, or hangs below p, a node of S.
HangsAt(t, S, c, p) == c # t.root => p \in S /\ \E s \in Side : t.link[p][s] = c

LEMMA RemovedShape ==
  ASSUME NEW t, NEW B, Shape(t, B), NEW n \in B[t.root]
  PROVE  \E C : /\ Shape(Removed(t, n), C) /\ C[Removed(t, n).root] = B[t.root] \ {n}
                /\ HangsAt(Removed(t, n), C[Removed(t, n).root],
                           Child(t, Spliced(t, n)), SplicedParent(t, n))
<1> DEFINE u == Removed(t, n)
<1>0. t \in Tree /\ B \in [Ptr -> SUBSET Node] /\ B[Nil] = {} /\ t.root \in Ptr /\ n \in Node
  <2>1. t \in Tree /\ B \in [Ptr -> SUBSET Node] /\ B[Nil] = {} /\ t.root \in Ptr
    BY DEF Shape, Subtrees, Tree
  <2> QED
    BY <2>1, Deeper
<1>1. CASE \E s \in Side : t.link[n][s] = Nil
  <2> DEFINE c == Child(t, n)
             p == t.parent[n]
             w == SideOf(t, n, p)
  <2>1. OneStep(t, u, n)
    BY <1>0, <1>1, RemovedOne
  <2>2. OnlyChild(t, n, c) /\ Cut(t, u, n, c, p)
    BY <2>1 DEF OneStep
  <2>3. Shape(u, Without(B, n)) /\ Without(B, n)[u.root] = B[t.root] \ {n}
    BY <2>2, CutShape
  <2>4. Spliced(t, n) = n
    BY <1>1 DEF Spliced
  <2>5. /\ n = t.root => p = Nil
        /\ n # t.root => p \in Node /\ p \in B[t.root]
        /\ p # n
    BY PlaceIs
  <2>6. SplicedParent(t, n) = p
    BY <2>4, <2>5 DEF SplicedParent
  <2>7. HangsAt(u, B[t.root] \ {n}, c, p)
    <3>1. w \in Side
      BY SideOfIs
    <3>2. u.root = IF p = Nil THEN c ELSE t.root
      BY <2>2 DEF Cut
    <3>3. p # Nil => u.link[p][w] = c
      BY <2>2, <2>5, <3>1 DEF Cut
    <3> QED
      BY <2>5, <3>1, <3>2, <3>3 DEF HangsAt
  <2> QED
    BY <2>3, <2>4, <2>6, <2>7
<1>2. CASE \A s \in Side : t.link[n][s] # Nil
  <2> DEFINE m == Furthest(t, t.link[n]["right"], "left")
             v == Cleared(Unlink(t, m), m)
             D == Without(B, m)
             C == Instead(D, n, m)
             c == Child(t, m)
             p == t.parent[m]
             w == SideOf(t, m, p)
             q == v.parent[n]
  <2>1. TwoSteps(t, B, u, n, m, v)
    BY <1>2, RemovedTwo
  <2>2. /\ Spliced(t, n) = m
        /\ SplicedParent(t, n) = IF p = n THEN m ELSE p
    BY <1>2 DEF Spliced, SplicedParent
  <2> HIDE DEF m, v
  <2>3. /\ m \in Node /\ m # n /\ m \in B[n] /\ m \in B[t.root]
        /\ OnlyChild(t, m, c) /\ Cut(t, v, m, c, p)
        /\ Shape(v, D) /\ D[v.root] = B[t.root] \ {m} /\ Fits(v, D, n, m)
        /\ Taken(v, u, n, m, q)
    BY <2>1 DEF TwoSteps
  <2> HIDE DEF D, u
  <2>4. n \in D[v.root] /\ m \notin D[v.root]
    BY <2>3
  <2>5. Shape(u, C) /\ C[u.root] = (D[v.root] \ {n}) \cup {m}
    BY <2>3, <2>4, TakenShape
  <2> HIDE DEF C
  <2>6. C[u.root] = B[t.root] \ {n}
    BY <2>3, <2>5
  <2>7. p \in Node /\ p \in B[n] /\ p \in B[t.root] /\ p # m /\ w \in Side
    <3>1. n \in Ptr
      BY <1>0, NilIs
    <3>2. p \in Node /\ p \in B[n] /\ B[n] \subseteq B[t.root]
      BY <1>0, <2>3, <3>1, Deeper
    <3>3. p # m
      BY <2>3, PlaceIs
    <3> QED
      BY <3>2, <3>3, SideOfIs
  <2>8. v.link[p][w] = c
    BY <2>3, <2>7 DEF Cut
  <2>9. q \notin B[n]
    <3>1. n # c
      <4>1. PICK s \in Side : t.link[m][s] = c
        BY <2>3 DEF OnlyChild
      <4>2. n = c => n \in B[m]
        BY <1>0, <2>3, <4>1, SubtreeIs, Sides
      <4> QED
        BY <1>0, <2>3, <4>2, Apart
    <3>2. q = t.parent[n]
      BY <1>0, <2>3, <3>1 DEF Cut
    <3> QED
      BY <3>2, Above
  <2>10. CASE p = n
    <3>1. u.link[m][w] = c
      BY <2>3, <2>7, <2>8, <2>10 DEF Taken
    <3>2. HangsAt(u, C[u.root], c, m)
      BY <2>3, <2>6, <2>7, <3>1 DEF HangsAt
    <3> QED
      BY <2>2, <2>5, <2>6, <2>10, <3>2 DEF u
  <2>11. CASE p # n
    <3>1. p # q
      BY <2>7, <2>9
    <3>2. u.link[p][w] = c
      BY <2>3, <2>7, <2>8, <2>11, <3>1 DEF Taken
    <3>3. HangsAt(u, C[u.root], c, p)
      BY <2>3, <2>6, <2>7, <2>11, <3>2 DEF HangsAt
    <3> QED
      BY <2>2, <2>5, <2>6, <2>11, <3>3 DEF u
  <2> QED
    BY <2>10, <2>11
<1> QED
  BY <1>1, <1>2

-----------------------------------------------------------------------------
(* The invariant: there are subtrees that give the tree its shape, and the *)
(* rebalancing under way is about a node, or a place, of the tree.         *)

FixAt(t, B, f) ==
  \/ f = NoFix
  \/ f \in [op : {"insert"}, elm : Node, parent : {Nil}] /\ f.elm \in B[t.root]
  \/ /\ f \in [op : {"remove"}, elm : Ptr, parent : Ptr]
     /\ HangsAt(t, B[t.root], f.elm, f.parent)

\* The scan is owed nodes of the tree it has not passed.
ScanAt(t, B, z) ==
  /\ z \in [on : BOOLEAN, id : Nat, due : SUBSET Wanted]
  /\ \A n \in z.due : n \in B[t.root] /\ Key[n] >= z.id

Held(B) == Shape(tree, B) /\ FixAt(tree, B, fix)

Reshaped(C, S) == Shape(tree', C) /\ C[tree'.root] = S /\ FixAt(tree', C, fix')

LEMMA InTreeIs == ASSUME NEW B, Shape(tree, B) PROVE InTree = B[tree.root]
<1>1. tree.root \in Ptr
  BY DEF Shape, Tree
<1> QED
  BY <1>1, BelowIs DEF InTree

LEMMA HeldFirst ==
  ASSUME Init
  PROVE  \E B : Held(B) /\ B[tree.root] = {}
<1> DEFINE B == [x \in Ptr |-> IF x = Nil THEN {} ELSE {x}]
<1>1. B \in [Ptr -> SUBSET Node] /\ B[Nil] = {} /\ \A n \in Node : B[n] = {n}
  BY NilIs DEF Ptr
<1> HIDE DEF B
<1>2. /\ tree \in Tree /\ tree.root = Nil /\ fix = NoFix
      /\ \A n \in Node, s \in Side : tree.link[n][s] = Nil
  BY NilIs DEF Init, Tree
<1>3. Subtrees(tree, B)
  BY <1>1, <1>2, Sides DEF Subtrees
<1>4. Sorted(tree, B) /\ Linked(tree, B)
  BY <1>1, <1>2 DEF Sorted, Linked
<1> QED
  BY <1>1, <1>2, <1>3, <1>4 DEF Held, Shape, FixAt

LEMMA InsertStep ==
  ASSUME NEW B, Held(B), NEW n \in Node, Insert(n)
  PROVE  n \notin B[tree.root] /\ \E C : Reshaped(C, B[tree.root] \cup {n})
<1> DEFINE p == Last(tree, Key[n])
           C == WithNode(B, n, p)
<1>1. Shape(tree, B) /\ n \notin B[tree.root] /\ (p # Nil => Key[p] # Key[n])
  BY InTreeIs DEF Held, Insert
<1>2. tree' = Grafted(tree, n, p)
  BY DEF Insert, Grafted
<1>3. fix' = [op |-> "insert", elm |-> n, parent |-> Nil]
  BY DEF Insert, InsertColor
<1> HIDE DEF p
<1>4. p = Last(tree, Key[n])
  BY DEF p
<1>5. Shape(tree', C) /\ C[tree'.root] = B[tree.root] \cup {n}
  BY <1>1, <1>2, <1>4, GraftShape
<1>6. FixAt(tree', C, fix')
  BY <1>3, <1>5 DEF FixAt
<1> QED
  BY <1>1, <1>5, <1>6 DEF Reshaped

LEMMA RemoveStep ==
  ASSUME NEW B, Held(B), NEW n \in Node, Remove(n)
  PROVE  n \in B[tree.root] /\ \E C : Reshaped(C, B[tree.root] \ {n})
<1> DEFINE m == Spliced(tree, n)
           c == Child(tree, m)
           p == tree.parent[m]
           q == SplicedParent(tree, n)
<1>1. Shape(tree, B) /\ n \in B[tree.root]
  BY InTreeIs DEF Held, Remove
<1>2. tree' = Removed(tree, n)
  BY DEF Remove, Removed
<1>3. fix' = IF tree.red[m] THEN NoFix ELSE [op |-> "remove", elm |-> c, parent |-> q]
  BY DEF Remove, Spliced, SplicedParent
<1>4. PICK C : /\ Shape(tree', C) /\ C[tree'.root] = B[tree.root] \ {n}
               /\ HangsAt(tree', C[tree'.root], c, q)
  BY <1>1, <1>2, RemovedShape
<1>5. m \in Node
  <2>1. CASE \A s \in Side : tree.link[n][s] # Nil
    <3>1. m = Furthest(tree, tree.link[n]["right"], "left")
      BY <2>1 DEF Spliced
    <3>2. TwoSteps(tree, B, Removed(tree, n), n, m, Cleared(Unlink(tree, m), m))
      BY <1>1, <2>1, <3>1, RemovedTwo
    <3> QED
      BY <3>2 DEF TwoSteps
  <2>2. CASE \E s \in Side : tree.link[n][s] = Nil
    BY <2>2 DEF Spliced
  <2> QED
    BY <2>1, <2>2
<1>6. c \in Ptr /\ q \in Ptr
  BY <1>1, <1>5, LinkIs, Sides, NilIs DEF Child, SplicedParent, Shape
<1> HIDE DEF c, q, m
<1>7. FixAt(tree', C, fix')
  BY <1>3, <1>4, <1>6 DEF FixAt
<1> QED
  BY <1>1, <1>4, <1>7 DEF Reshaped

-----------------------------------------------------------------------------
(* The steps of the rebalancing.                                           *)

\* The new node, its parent and its grandparent.
LEMMA RedParentIs ==
  ASSUME NEW B, Held(B), NEW s \in Side, RedParent(s)
  PROVE  /\ Shape(tree, B) /\ fix \in [op : {"insert"}, elm : Node, parent : {Nil}]
         /\ fix.elm \in B[tree.root] /\ fix.elm # tree.root
         /\ Parent \in Node /\ Parent \in B[tree.root] /\ Parent # tree.root
         /\ Grandparent \in Node /\ Grandparent \in B[tree.root]
         /\ tree.link[Grandparent][s] = Parent
         /\ \E z \in Side : tree.link[Parent][z] = fix.elm
<1>1. /\ Shape(tree, B) /\ fix \in [op : {"insert"}, elm : Node, parent : {Nil}]
      /\ fix.elm \in B[tree.root]
  BY DEF Held, FixAt, RedParent, NoFix
<1>2. Parent # Nil /\ Grandparent # Nil /\ s = SideOf(tree, Parent, Grandparent)
  BY DEF RedParent, IsRed
<1>3. /\ fix.elm # tree.root /\ Parent \in Node /\ Parent \in B[tree.root]
      /\ tree.link[Parent][SideOf(tree, fix.elm, Parent)] = fix.elm
  BY <1>1, <1>2, PlaceIs DEF Parent
<1>4. /\ Parent # tree.root /\ Grandparent \in Node /\ Grandparent \in B[tree.root]
      /\ tree.link[Grandparent][s] = Parent
  BY <1>1, <1>2, <1>3, PlaceIs DEF Grandparent
<1> QED
  BY <1>1, <1>3, <1>4, SideOfIs

\* The place where a black node is lacking.
LEMMA HangingIs ==
  ASSUME NEW B, Held(B), NEW s \in Side, Hanging(s)
  PROVE  /\ Shape(tree, B) /\ fix \in [op : {"remove"}, elm : Ptr, parent : Ptr]
         /\ fix.elm # tree.root
         /\ fix.parent \in Node /\ fix.parent \in B[tree.root]
         /\ tree.link[fix.parent][s] = fix.elm
         /\ Sibling(s) \in Ptr
<1>1. fix.op = "remove" /\ fix.elm # tree.root /\ s = SideOf(tree, fix.elm, fix.parent)
  BY DEF Hanging, Short
<1>2. /\ Shape(tree, B) /\ fix \in [op : {"remove"}, elm : Ptr, parent : Ptr]
      /\ HangsAt(tree, B[tree.root], fix.elm, fix.parent)
  BY <1>1 DEF Held, FixAt, NoFix
<1>3. fix.parent \in B[tree.root] /\ \E z \in Side : tree.link[fix.parent][z] = fix.elm
  BY <1>1, <1>2 DEF HangsAt
<1>4. tree.root \in Ptr
  BY <1>2 DEF Shape, Tree
<1>5. fix.parent \in Node
  BY <1>2, <1>3, <1>4, Deeper
<1>6. tree.link[fix.parent][s] = fix.elm
  BY <1>1, <1>3, Sides DEF SideOf
<1>7. Sibling(s) \in Ptr
  BY <1>2, <1>5, SubtreeIs, Sides DEF Sibling
<1> QED
  BY <1>1, <1>2, <1>3, <1>5, <1>6, <1>7

LEMMA RedUncleStep ==
  ASSUME NEW B, Held(B), NEW s \in Side, RedUncle(s)
  PROVE  Reshaped(B, B[tree.root])
<1>1. /\ Shape(tree, B) /\ fix \in [op : {"insert"}, elm : Node, parent : {Nil}]
      /\ Grandparent \in Node /\ Grandparent \in B[tree.root]
  BY RedParentIs DEF RedUncle
<1>2. /\ tree' \in Tree
      /\ tree'.root = tree.root /\ tree'.link = tree.link /\ tree'.parent = tree.parent
  BY <1>1 DEF RedUncle, BlackRed, Shape, Tree
<1>3. Shape(tree', B)
  BY <1>1, <1>2, Recoloured
<1>4. fix' \in [op : {"insert"}, elm : Node, parent : {Nil}] /\ fix'.elm = Grandparent
  BY <1>1 DEF RedUncle
<1> QED
  BY <1>1, <1>2, <1>3, <1>4 DEF Reshaped, FixAt

LEMMA InnerGrandchildStep ==
  ASSUME NEW B, Held(B), NEW s \in Side, InnerGrandchild(s)
  PROVE  \E C : Reshaped(C, B[tree.root])
<1> DEFINE p == Parent
           m == tree.link[p][Other(s)]
           C == Turned(B, p, m, tree.link[p][s], tree.link[m][s])
<1>1. /\ Shape(tree, B) /\ fix \in [op : {"insert"}, elm : Node, parent : {Nil}]
      /\ p \in Node /\ p \in B[tree.root] /\ m = fix.elm
  BY RedParentIs DEF InnerGrandchild
<1>2. tree' = Rotate(tree, p, s) /\ fix' = [fix EXCEPT !.elm = p]
  BY DEF InnerGrandchild
<1>3. m # Nil
  BY <1>1, NilIs
<1>4. Shape(tree', C) /\ C[tree'.root] = B[tree.root]
  BY <1>1, <1>2, <1>3, RotateShape
<1>5. fix' \in [op : {"insert"}, elm : Node, parent : {Nil}] /\ fix'.elm = p
  BY <1>1, <1>2
<1> HIDE DEF C, p
<1>6. FixAt(tree', C, fix')
  BY <1>1, <1>4, <1>5 DEF FixAt
<1> QED
  BY <1>4, <1>6 DEF Reshaped

LEMMA OuterGrandchildStep ==
  ASSUME NEW B, Held(B), NEW s \in Side, OuterGrandchild(s)
  PROVE  \E C : Reshaped(C, B[tree.root])
<1> DEFINE g == Grandparent
           o == Other(s)
           t == BlackRed(tree, Parent, g)
           m == t.link[g][Other(o)]
           C == Turned(B, g, m, t.link[g][o], t.link[m][o])
<1>1. /\ Shape(tree, B) /\ fix \in [op : {"insert"}, elm : Node, parent : {Nil}]
      /\ fix.elm \in B[tree.root]
      /\ g \in Node /\ g \in B[tree.root] /\ tree.link[g][s] = Parent /\ Parent \in Node
  BY RedParentIs DEF OuterGrandchild
<1>2. tree' = Rotate(t, g, o) /\ fix' = fix
  BY DEF OuterGrandchild
<1>3. t \in Tree /\ t.root = tree.root /\ t.link = tree.link /\ t.parent = tree.parent
  BY <1>1 DEF BlackRed, Shape, Tree
<1> HIDE DEF t, g, o
<1>4. Shape(t, B) /\ g \in B[t.root]
  BY <1>1, <1>3, Recoloured
<1>5. o \in Side /\ m # Nil
  BY <1>1, <1>3, Sides, NilIs DEF o
<1>6. Shape(tree', C) /\ C[tree'.root] = B[t.root]
  BY <1>2, <1>4, <1>5, RotateShape
<1> HIDE DEF C
<1>7. FixAt(tree', C, fix')
  BY <1>1, <1>2, <1>3, <1>6 DEF FixAt
<1> QED
  BY <1>3, <1>6, <1>7 DEF Reshaped

LEMMA EndInsertStep ==
  ASSUME NEW B, Held(B), EndInsert
  PROVE  Reshaped(B, B[tree.root])
<1>1. Shape(tree, B) /\ fix' = NoFix
  BY DEF Held, EndInsert
<1>2. /\ tree' \in Tree
      /\ tree'.root = tree.root /\ tree'.link = tree.link /\ tree'.parent = tree.parent
  BY <1>1 DEF EndInsert, Shape, Tree
<1>3. Shape(tree', B)
  BY <1>1, <1>2, Recoloured
<1> QED
  BY <1>1, <1>2, <1>3 DEF Reshaped, FixAt

\* A rotation below the parent of elm, or of that parent away from elm, leaves elm
\* where it is.
LEMMA RedSiblingStep ==
  ASSUME NEW B, Held(B), NEW s \in Side, RedSibling(s)
  PROVE  \E C : Reshaped(C, B[tree.root])
<1> DEFINE p == fix.parent
           t == BlackRed(tree, Sibling(s), p)
           m == t.link[p][Other(s)]
           c == t.link[m][s]
           C == Turned(B, p, m, t.link[p][s], c)
<1>1. /\ Shape(tree, B) /\ fix \in [op : {"remove"}, elm : Ptr, parent : Ptr]
      /\ p \in Node /\ p \in B[tree.root] /\ tree.link[p][s] = fix.elm
      /\ Sibling(s) \in Ptr
  BY HangingIs DEF RedSibling
<1>2. tree' = Rotate(t, p, s) /\ fix' = fix /\ Sibling(s) # Nil
  BY DEF RedSibling, IsRed
<1>3. t \in Tree /\ t.root = tree.root /\ t.link = tree.link /\ t.parent = tree.parent
  BY <1>1 DEF BlackRed, Shape, Tree
<1> HIDE DEF t, p
<1>4. Shape(t, B) /\ p \in B[t.root] /\ m # Nil
  BY <1>1, <1>2, <1>3, Recoloured DEF Sibling, p
<1>5. /\ Shape(tree', C) /\ C[tree'.root] = B[t.root]
      /\ Rotated(t, tree', p, s, m, c, t.parent[p])
  BY <1>2, <1>4, RotateShape
<1> HIDE DEF C, c
<1>6. m \in Node /\ m # p /\ t.parent[p] # p
  <2>1. m \in Ptr /\ m # p
    BY <1>1, <1>4, SubtreeIs, Sides
  <2> QED
    BY <1>4, <2>1, PlaceIs DEF Ptr
<1>7. tree'.link[p][s] = fix.elm
  BY <1>1, <1>3, <1>5, <1>6, Sides DEF Rotated
<1>8. FixAt(tree', C, fix')
  BY <1>1, <1>2, <1>3, <1>5, <1>7 DEF FixAt, HangsAt, p
<1> QED
  BY <1>3, <1>5, <1>8 DEF Reshaped

LEMMA BlackNephewsStep ==
  ASSUME NEW B, Held(B), NEW s \in Side, BlackNephews(s)
  PROVE  Reshaped(B, B[tree.root])
<1> DEFINE p == fix.parent
           q == tree.parent[p]
<1>1. /\ Shape(tree, B) /\ fix \in [op : {"remove"}, elm : Ptr, parent : Ptr]
      /\ p \in Node /\ p \in B[tree.root]
  BY HangingIs DEF BlackNephews, BlackSibling
<1>2. /\ tree' \in Tree
      /\ tree'.root = tree.root /\ tree'.link = tree.link /\ tree'.parent = tree.parent
  BY <1>1 DEF BlackNephews, Shape, Tree
<1>3. Shape(tree', B)
  BY <1>1, <1>2, Recoloured
<1>4. q \in Ptr /\ p \in Ptr
  BY <1>1, LinkIs, NilIs, Sides DEF Shape
<1>5. fix' = [fix EXCEPT !.elm = p, !.parent = q]
  BY DEF BlackNephews
<1>6. fix' \in [op : {"remove"}, elm : Ptr, parent : Ptr] /\ fix'.elm = p /\ fix'.parent = q
  BY <1>1, <1>4, <1>5
<1>7. p # tree.root => q \in B[tree.root] /\ tree.link[q][SideOf(tree, p, q)] = p
  BY <1>1, PlaceIs
<1> HIDE DEF p, q
<1>8. HangsAt(tree', B[tree'.root], p, q)
  BY <1>2, <1>7, SideOfIs DEF HangsAt
<1> QED
  BY <1>2, <1>3, <1>6, <1>8 DEF Reshaped, FixAt

LEMMA InnerNephewStep ==
  ASSUME NEW B, Held(B), NEW s \in Side, InnerNephew(s)
  PROVE  \E C : Reshaped(C, B[tree.root])
<1> DEFINE p == fix.parent
           n == Sibling(s)
           o == Other(s)
           t == BlackRed(tree, Inner(s), n)
           m == t.link[n][Other(o)]
           c == t.link[m][o]
           C == Turned(B, n, m, t.link[n][o], c)
<1>1. /\ Shape(tree, B) /\ fix \in [op : {"remove"}, elm : Ptr, parent : Ptr]
      /\ p \in Node /\ p \in B[tree.root] /\ tree.link[p][s] = fix.elm
      /\ n \in Ptr
  BY HangingIs DEF InnerNephew, BlackSibling
<1>2. tree' = Rotate(t, n, o) /\ fix' = fix /\ n # Nil /\ Inner(s) # Nil
  BY DEF InnerNephew, BlackSibling, IsRed
<1>3. o \in Side /\ o # s /\ Other(o) = s /\ n = tree.link[p][o] /\ Inner(s) = tree.link[n][s]
  BY Sides DEF Sibling, Inner
<1>4. t \in Tree /\ t.root = tree.root /\ t.link = tree.link /\ t.parent = tree.parent
  BY <1>1 DEF BlackRed, Shape, Tree
<1> HIDE DEF t, p, n, o
<1>5. Shape(t, B) /\ n \in Node /\ n \in B[t.root] /\ m # Nil
  <2>1. Shape(t, B)
    BY <1>1, <1>4, Recoloured
  <2>2. n \in Node /\ n \in B[tree.root]
    BY <1>1, <1>2, <1>3, Within
  <2> QED
    BY <1>2, <1>3, <1>4, <2>1, <2>2
<1>6. t.parent[n] = p
  BY <1>1, <1>2, <1>3, <1>4 DEF Shape, Linked
<1>7. /\ Shape(tree', C) /\ C[tree'.root] = B[t.root]
      /\ Rotated(t, tree', n, o, m, c, p)
  <2>1. /\ Shape(Rotate(t, n, o), C) /\ C[Rotate(t, n, o).root] = B[t.root]
        /\ Rotated(t, Rotate(t, n, o), n, o, m, c, t.parent[n])
    <3>1. o \in Side /\ n \in B[t.root] /\ Shape(t, B)
      BY <1>3, <1>5
    <3>2. m = t.link[n][Other(o)] /\ m # Nil
      BY <1>5
    <3> HIDE DEF m
    <3> QED
      BY <3>1, <3>2, RotateShape
  <2> QED
    BY <1>2, <1>6, <2>1
<1> HIDE DEF C, c
<1>8. p # n /\ p # m /\ SideOf(t, n, p) = o
  <2>1. p \notin B[n] /\ n \in B[n] /\ p # n
    BY <1>5, <1>6, Above, PlaceIs, SubtreeIs, Sides
  <2>2. m \in B[n]
    <3>1. m \in Node
      BY <1>3, <1>5, SubtreeIs DEF Ptr
    <3> QED
      BY <1>3, <1>5, <3>1, SubtreeIs, Sides
  <2>3. SideOf(t, n, p) = o
    BY <1>1, <1>3, <1>4, <1>5, <1>6, PlaceIs
  <2> QED
    BY <2>1, <2>2, <2>3
<1>9. tree'.link[p][s] = fix.elm
  BY <1>1, <1>3, <1>4, <1>7, <1>8 DEF Rotated
<1>10. FixAt(tree', C, fix')
  BY <1>1, <1>2, <1>3, <1>4, <1>7, <1>9 DEF FixAt, HangsAt, p
<1> QED
  BY <1>4, <1>7, <1>10 DEF Reshaped

LEMMA OuterNephewStep ==
  ASSUME NEW B, Held(B), NEW s \in Side, OuterNephew(s)
  PROVE  \E C : Reshaped(C, B[tree.root])
<1> DEFINE p == fix.parent
           t == [tree EXCEPT !.red[Sibling(s)] = tree.red[p], !.red[p] = FALSE,
                             !.red[Outer(s)] = FALSE]
           m == t.link[p][Other(s)]
           C == Turned(B, p, m, t.link[p][s], t.link[m][s])
<1>1. /\ Shape(tree, B) /\ fix \in [op : {"remove"}, elm : Ptr, parent : Ptr]
      /\ p \in Node /\ p \in B[tree.root]
  BY HangingIs DEF OuterNephew, BlackSibling
<1>2. /\ tree' = Rotate(t, p, s) /\ fix' = [fix EXCEPT !.elm = tree'.root]
      /\ Sibling(s) # Nil
  BY DEF OuterNephew, BlackSibling
<1>3. t \in Tree /\ t.root = tree.root /\ t.link = tree.link /\ t.parent = tree.parent
  BY <1>1 DEF Shape, Tree
<1> HIDE DEF t, p
<1>4. Shape(t, B) /\ p \in B[t.root] /\ m # Nil
  BY <1>1, <1>2, <1>3, Recoloured DEF Sibling, p
<1>5. Shape(tree', C) /\ C[tree'.root] = B[t.root]
  BY <1>2, <1>4, RotateShape
<1> HIDE DEF C
<1>6. tree'.root \in Ptr
  BY <1>5 DEF Shape, Tree
<1>7. fix' \in [op : {"remove"}, elm : Ptr, parent : Ptr] /\ fix'.elm = tree'.root
  BY <1>1, <1>2, <1>6
<1>8. FixAt(tree', C, fix')
  BY <1>7 DEF FixAt, HangsAt
<1> QED
  BY <1>3, <1>5, <1>8 DEF Reshaped

LEMMA EndRemoveStep ==
  ASSUME NEW B, Held(B), EndRemove
  PROVE  Reshaped(B, B[tree.root])
<1>1. Shape(tree, B) /\ fix' = NoFix
  BY DEF Held, EndRemove
<1>2. /\ tree' \in Tree
      /\ tree'.root = tree.root /\ tree'.link = tree.link /\ tree'.parent = tree.parent
  BY <1>1 DEF EndRemove, Shape, Tree
<1>3. Shape(tree', B)
  BY <1>1, <1>2, Recoloured
<1> QED
  BY <1>1, <1>2, <1>3 DEF Reshaped, FixAt

-----------------------------------------------------------------------------
(* Every step.                                                             *)

\* A step of the rebalancing keeps the nodes.
LEMMA RebalanceStep ==
  ASSUME NEW B, Held(B), Rebalance
  PROVE  /\ scan' = scan
         /\ \E C : Reshaped(C, B[tree.root])
<1>1. CASE EndInsert
  BY <1>1, EndInsertStep DEF EndInsert
<1>2. CASE EndRemove
  BY <1>2, EndRemoveStep DEF EndRemove
<1>3. CASE ~ EndInsert /\ ~ EndRemove
  <2>1. PICK s \in Side : \/ RedUncle(s) \/ InnerGrandchild(s) \/ OuterGrandchild(s)
                          \/ RedSibling(s) \/ BlackNephews(s) \/ InnerNephew(s)
                          \/ OuterNephew(s)
    BY <1>3 DEF Rebalance
  <2>2. CASE RedUncle(s)
    BY <2>2, RedUncleStep DEF RedUncle
  <2>3. CASE InnerGrandchild(s)
    BY <2>3, InnerGrandchildStep DEF InnerGrandchild
  <2>4. CASE OuterGrandchild(s)
    BY <2>4, OuterGrandchildStep DEF OuterGrandchild
  <2>5. CASE RedSibling(s)
    BY <2>5, RedSiblingStep DEF RedSibling
  <2>6. CASE BlackNephews(s)
    BY <2>6, BlackNephewsStep DEF BlackNephews
  <2>7. CASE InnerNephew(s)
    BY <2>7, InnerNephewStep DEF InnerNephew
  <2>8. CASE OuterNephew(s)
    BY <2>8, OuterNephewStep DEF OuterNephew
  <2> QED
    BY <2>1, <2>2, <2>3, <2>4, <2>5, <2>6, <2>7, <2>8
<1> QED
  BY <1>1, <1>2, <1>3

\* Where the scan stands, there is no node below it that it is owed.
LEMMA FoundIs ==
  ASSUME NEW B, Shape(tree, B), ScanAt(tree, B, scan)
  PROVE  /\ Found = Nil => scan.due = {}
         /\ Found # Nil => /\ Found \in B[tree.root] /\ Found \in Node
                           /\ \A n \in scan.due : n # Found => Key[n] >= Key[Found] + 1
<1>1. scan.id \in Nat /\ tree.root \in Ptr
  BY DEF ScanAt, Shape, Tree
<1>2. IsNext(B, scan.id, tree.root, Found)
  BY <1>1, NFindIs DEF Found
<1>3. \A n \in scan.due : n \in B[tree.root] /\ Key[n] >= scan.id /\ n \in Node
  BY <1>1, Deeper DEF ScanAt
<1>4. CASE Found = Nil
  <2>1. \A n \in B[tree.root] : Key[n] < scan.id
    BY <1>2, <1>4 DEF IsNext
  <2>2. ASSUME NEW n \in scan.due PROVE FALSE
    <3>1. Key[n] < scan.id /\ Key[n] >= scan.id /\ Key[n] \in Nat
      BY <1>3, <2>1, KeyIs
    <3> QED
      BY <1>1, <3>1
  <2> QED
    BY <1>4, <2>2
<1>5. CASE Found # Nil
  <2>1. /\ Found \in B[tree.root]
        /\ \A n \in B[tree.root] : Key[n] >= scan.id => Key[Found] <= Key[n]
    BY <1>2, <1>5 DEF IsNext
  <2>2. Found \in Node
    BY <1>1, <2>1, Deeper
  <2>3. ASSUME NEW n \in scan.due, n # Found PROVE Key[n] >= Key[Found] + 1
    <3>1. Key[Found] <= Key[n] /\ n \in Node /\ n \in B[tree.root]
      BY <1>3, <2>1
    <3>2. Key[n] # Key[Found]
      BY <1>1, <2>1, <2>3, <3>1, KeysDiffer
    <3>3. Key[n] \in Nat /\ Key[Found] \in Nat
      BY <2>2, <3>1, KeyIs
    <3> QED
      BY <3>1, <3>2, <3>3
  <2> QED
    BY <1>5, <2>1, <2>2, <2>3
<1> QED
  BY <1>4, <1>5

Inv == \E B : Held(B) /\ ScanAt(tree, B, scan)

LEMMA Initially == Init => Inv
<1> SUFFICES ASSUME Init PROVE Inv
  OBVIOUS
<1>1. PICK B : Held(B) /\ B[tree.root] = {}
  BY HeldFirst
<1>2. scan = NoScan
  BY DEF Init
<1>3. ScanAt(tree, B, scan)
  BY <1>2 DEF ScanAt, NoScan
<1> QED
  BY <1>1, <1>3 DEF Inv

\* What each step does to the nodes, and to the scan.
Kept(B, C, S) == /\ Reshaped(C, S) /\ ScanAt(tree', C, scan')

LEMMA NextKeeps ==
  ASSUME NEW B, Held(B), ScanAt(tree, B, scan), [Next]_vars
  PROVE  \E C, S :
           /\ Kept(B, C, S)
           /\ \/ S = B[tree.root]
              \/ \E n \in Node : n \notin B[tree.root] /\ S = B[tree.root] \cup {n} /\ Insert(n)
              \/ \E n \in Node : n \in B[tree.root] /\ S = B[tree.root] \ {n}
<1>0. /\ Shape(tree, B) /\ FixAt(tree, B, fix)
      /\ scan \in [on : BOOLEAN, id : Nat, due : SUBSET Wanted]
      /\ \A n \in scan.due : n \in B[tree.root] /\ Key[n] >= scan.id
  BY DEF Held, ScanAt
<1>1. ASSUME tree' = tree, fix' = fix, ScanAt(tree, B, scan') PROVE Kept(B, B, B[tree.root])
  BY <1>0, <1>1 DEF Kept, Reshaped
<1>2. ASSUME NEW n \in Node, Insert(n)
      PROVE  /\ n \notin B[tree.root]
             /\ \E C : Kept(B, C, B[tree.root] \cup {n})
  <2>1. PICK C : n \notin B[tree.root] /\ Reshaped(C, B[tree.root] \cup {n})
    BY <1>2, InsertStep
  <2>2. scan' = scan
    BY <1>2 DEF Insert
  <2>3. C[tree'.root] = B[tree.root] \cup {n}
    BY <2>1 DEF Reshaped
  <2>4. ScanAt(tree', C, scan')
    BY <1>0, <2>2, <2>3 DEF ScanAt
  <2> QED
    BY <2>1, <2>4 DEF Kept
<1>3. ASSUME NEW n \in Node, Remove(n)
      PROVE  /\ n \in B[tree.root]
             /\ \E C : Kept(B, C, B[tree.root] \ {n})
  <2>1. PICK C : n \in B[tree.root] /\ Reshaped(C, B[tree.root] \ {n})
    BY <1>3, RemoveStep
  <2>2. scan' = [scan EXCEPT !.due = @ \ {n}]
    BY <1>3 DEF Remove
  <2>3. C[tree'.root] = B[tree.root] \ {n}
    BY <2>1 DEF Reshaped
  <2>4. /\ scan' \in [on : BOOLEAN, id : Nat, due : SUBSET Wanted]
        /\ scan'.id = scan.id /\ scan'.due = scan.due \ {n}
    BY <1>0, <2>2
  <2>5. ScanAt(tree', C, scan')
    BY <1>0, <2>3, <2>4 DEF ScanAt
  <2> QED
    BY <2>1, <2>5 DEF Kept
<1>4. ASSUME Rebalance PROVE \E C : Kept(B, C, B[tree.root])
  <2>1. PICK C : scan' = scan /\ Reshaped(C, B[tree.root])
    BY <1>4, RebalanceStep
  <2>2. C[tree'.root] = B[tree.root]
    BY <2>1 DEF Reshaped
  <2>3. ScanAt(tree', C, scan')
    BY <1>0, <2>1, <2>2 DEF ScanAt
  <2> QED
    BY <2>1, <2>3 DEF Kept
<1>5. ASSUME StartScan PROVE Kept(B, B, B[tree.root])
  <2>1. /\ tree' = tree /\ fix' = fix
        /\ scan' = [on |-> TRUE, id |-> 0, due |-> InTree \cap Wanted]
    BY <1>5 DEF StartScan
  <2>2. InTree = B[tree.root] /\ tree.root \in Ptr
    BY <1>0, InTreeIs DEF Shape, Tree
  <2>3. \A n \in B[tree.root] : Key[n] >= 0
    <3> TAKE n \in B[tree.root]
    <3>1. n \in Node
      BY <1>0, <2>2, Deeper
    <3>2. Key[n] \in Nat
      BY <3>1, KeyIs
    <3> QED
      BY <3>2
  <2>4. ScanAt(tree, B, scan')
    BY <2>1, <2>2, <2>3 DEF ScanAt
  <2> QED
    BY <1>1, <2>1, <2>4
<1>6. ASSUME Visit PROVE Kept(B, B, B[tree.root])
  <2>1. /\ tree' = tree /\ fix' = fix /\ Found # Nil
        /\ scan' = [scan EXCEPT !.id = Key[Found] + 1, !.due = @ \ {Found}]
    BY <1>6 DEF Visit
  <2>2. /\ Found \in Node
        /\ \A n \in scan.due : n # Found => Key[n] >= Key[Found] + 1
    BY <1>0, <2>1, FoundIs
  <2>3. Key[Found] + 1 \in Nat
    BY <2>2, KeyIs
  <2>4. /\ scan' \in [on : BOOLEAN, id : Nat, due : SUBSET Wanted]
        /\ scan'.id = Key[Found] + 1 /\ scan'.due = scan.due \ {Found}
    BY <1>0, <2>1, <2>3
  <2>5. ScanAt(tree, B, scan')
    BY <1>0, <2>2, <2>4 DEF ScanAt
  <2> QED
    BY <1>1, <2>1, <2>5
<1>7. ASSUME EndScan PROVE Kept(B, B, B[tree.root])
  <2>1. tree' = tree /\ fix' = fix /\ scan' = NoScan
    BY <1>7 DEF EndScan
  <2>2. ScanAt(tree, B, scan')
    BY <2>1 DEF ScanAt, NoScan
  <2> QED
    BY <1>1, <2>1, <2>2
<1>8. ASSUME UNCHANGED vars PROVE Kept(B, B, B[tree.root])
  BY <1>1, <1>8 DEF vars
<1> QED
  BY <1>2, <1>3, <1>4, <1>5, <1>6, <1>7, <1>8 DEF Next

LEMMA Invariance == Spec => []Inv
<1>1. Inv /\ [Next]_vars => Inv'
  <2> SUFFICES ASSUME Inv, [Next]_vars PROVE Inv'
    OBVIOUS
  <2>1. PICK B : Held(B) /\ ScanAt(tree, B, scan)
    BY DEF Inv
  <2>2. PICK C, S : Kept(B, C, S)
    BY <2>1, NextKeeps
  <2> QED
    BY <2>2 DEF Inv, Held, Kept, Reshaped
<1> QED
  BY Initially, <1>1, PTL DEF Spec

-----------------------------------------------------------------------------
(* Theorems.                                                               *)

\* Insertion and removal, with the descents, the splicing and every rotation of
\* RB_INSERT, RB_INSERT_COLOR, RB_REMOVE and RB_REMOVE_COLOR, change the nodes that can
\* be reached from the root as adding one to a set and deleting one from it do: a
\* rotation loses no subtree, and no key is there twice.
THEOREM ImplementsSetHolds == Spec => ImplementsSet
<1>1. Init => Set!Init
  <2> SUFFICES ASSUME Init PROVE InTree = {}
    BY DEF Set!Init
  <2>1. PICK B : Held(B) /\ B[tree.root] = {}
    BY HeldFirst
  <2> QED
    BY <2>1, InTreeIs DEF Held
<1>2. Inv /\ [Next]_vars => [Set!Next]_InTree
  <2> SUFFICES ASSUME Inv, [Next]_vars PROVE [Set!Next]_InTree
    OBVIOUS
  <2>1. PICK B : Held(B) /\ ScanAt(tree, B, scan)
    BY DEF Inv
  <2>2. PICK C, S :
           /\ Kept(B, C, S)
           /\ \/ S = B[tree.root]
              \/ \E n \in Node : n \notin B[tree.root] /\ S = B[tree.root] \cup {n} /\ Insert(n)
              \/ \E n \in Node : n \in B[tree.root] /\ S = B[tree.root] \ {n}
    BY <2>1, NextKeeps
  <2>3. InTree = B[tree.root]
    BY <2>1, InTreeIs DEF Held
  <2>4. InTree' = S
    <3>1. Shape(tree', C) /\ C[tree'.root] = S
      BY <2>2 DEF Kept, Reshaped
    <3>2. tree'.root \in Ptr
      BY <3>1 DEF Shape, Tree
    <3>3. Below(tree', tree'.root) = C[tree'.root]
      BY <3>1, <3>2, BelowIs
    <3> QED
      BY <3>1, <3>3 DEF InTree
  <2>5. CASE S = B[tree.root]
    BY <2>3, <2>4, <2>5
  <2>6. ASSUME NEW n \in Node, n \notin B[tree.root], S = B[tree.root] \cup {n}, Insert(n)
        PROVE  Set!Add(n)
    <3>1. ASSUME NEW m \in InTree, Key[m] = Key[n] PROVE FALSE
      <4> DEFINE p == Last(tree, Key[n])
      <4>1. Shape(tree, B) /\ Key[n] \in Nat /\ tree.root \in Ptr
        BY <2>1, KeyIs DEF Held, Shape, Tree
      <4>2. tree.root # Nil
        BY <2>3, <3>1, <4>1 DEF Shape, Subtrees
      <4>3. Reached(tree, B, Key[n], tree.root, p)
        BY <4>1, <4>2, LastIs
      <4> HIDE DEF p
      <4>4. p = m
        BY <2>3, <3>1, <4>1, <4>3, OnTheWay
      <4>5. p # Nil
        BY <2>3, <4>1, <4>4, NilIs, Deeper
      <4>6. Key[p] # Key[n]
        BY <2>6, <4>5 DEF Insert, p
      <4> QED
        BY <3>1, <4>4, <4>6
    <3> QED
      BY <2>3, <2>4, <2>6, <3>1 DEF Set!Add
  <2>7. ASSUME NEW n \in Node, n \in B[tree.root], S = B[tree.root] \ {n}
        PROVE  Set!Delete(n)
    BY <2>3, <2>4, <2>7 DEF Set!Delete
  <2> QED
    BY <2>2, <2>5, <2>6, <2>7 DEF Set!Next
<1> QED
  BY <1>1, <1>2, Invariance, PTL DEF Spec, ImplementsSet, Set!Spec

\* A scan that ends has visited all the nodes of its type that have been there all the
\* time: udata_scan asks for the least key from the one after that of the last entry
\* on, and the callback, which may insert and remove any nodes, does not make it skip
\* one, however the tree is rebalanced under it.
THEOREM ScanCompleteHolds == Spec => ScanComplete
<1>1. Inv /\ [Next]_vars => [scan.on /\ ~ scan'.on => scan.due = {}]_vars
  <2> SUFFICES ASSUME Inv, Next, scan.on, ~ scan'.on PROVE scan.due = {}
    OBVIOUS
  <2>1. PICK B : Held(B) /\ ScanAt(tree, B, scan)
    BY DEF Inv
  <2>2. scan \in [on : BOOLEAN, id : Nat, due : SUBSET Wanted]
    BY <2>1 DEF ScanAt
  <2>3. CASE EndScan
    BY <2>1, <2>3, FoundIs DEF EndScan, Held
  <2>4. ASSUME NEW n \in Node, Insert(n) \/ Remove(n) PROVE scan'.on = scan.on
    BY <2>2, <2>4 DEF Insert, Remove
  <2>5. CASE Rebalance
    BY <2>1, <2>5, RebalanceStep
  <2>6. CASE StartScan \/ Visit
    BY <2>2, <2>6 DEF StartScan, Visit
  <2> QED
    BY <2>3, <2>4, <2>5, <2>6 DEF Next
<1> QED
  BY <1>1, Invariance, PTL DEF Spec, ScanComplete

\* RB_FIND finds the node with a key, RB_NFIND the one with the least key from a given
\* one on, RB_NEXT and RB_PREV the neighbours in the order of the keys, and RB_MINMAX
\* the first and the last, in the middle of a rebalancing too: each ends, on a tree of
\* any size, and returns null only when there is no such node.
THEOREM SearchesExactHolds == Spec => []SearchesExact
<1>1. ASSUME Inv PROVE SearchesExact
  <2>1. PICK B : Shape(tree, B)
    BY <1>1 DEF Inv, Held
  <2>2. /\ InTree = B[tree.root] /\ tree.root \in Ptr /\ B[Nil] = {}
        /\ \A n \in InTree : n \in Node /\ n # Nil /\ Key[n] \in Nat
    <3>1. InTree = B[tree.root] /\ tree.root \in Ptr /\ B[Nil] = {}
      BY <2>1, InTreeIs DEF Shape, Tree, Subtrees
    <3>2. \A n \in InTree : n \in Node
      BY <2>1, <3>1, Deeper
    <3> QED
      BY <3>1, <3>2, NilIs, KeyIs
  <2>3. \A m, n \in InTree : Key[m] = Key[n] => m = n
    BY <2>1, <2>2, KeysDiffer
  <2>4. \A k \in 0 .. 1 + Cardinality(Node) : k \in Nat
    OBVIOUS
  <2>5. ASSUME NEW k \in Nat PROVE Only(Find(tree, k)) = {n \in InTree : Key[n] = k}
    <3> DEFINE r == Find(tree, k)
    <3>1. IsFound(B, k, tree.root, r)
      BY <2>1, FindIs
    <3> HIDE DEF r
    <3>2. Only(r) = {n \in InTree : Key[n] = k}
      BY <2>2, <2>3, <3>1 DEF IsFound, Only
    <3> QED
      BY <3>2 DEF r
  <2>6. ASSUME NEW S \in SUBSET InTree, NEW r,
               IF r = Nil THEN S = {} ELSE r \in S /\ \A x \in S : Key[r] <= Key[x]
        PROVE  Only(r) = Least(S)
    <3>1. CASE r = Nil
      BY <2>6, <3>1 DEF Only, Least
    <3>2. CASE r # Nil
      <4>1. \A x \in Least(S) : x \in InTree /\ Key[x] = Key[r]
        BY <2>2, <2>6, <3>2 DEF Least
      <4>2. \A x \in Least(S) : x = r
        BY <2>3, <2>6, <3>2, <4>1
      <4>3. r \in Least(S)
        BY <2>6, <3>2 DEF Least
      <4> QED
        BY <3>2, <4>2, <4>3 DEF Only
    <3> QED
      BY <3>1, <3>2
  <2>7. ASSUME NEW S \in SUBSET InTree, NEW r,
               IF r = Nil THEN S = {} ELSE r \in S /\ \A x \in S : Key[r] >= Key[x]
        PROVE  Only(r) = Greatest(S)
    <3>1. CASE r = Nil
      BY <2>7, <3>1 DEF Only, Greatest
    <3>2. CASE r # Nil
      <4>1. \A x \in Greatest(S) : x \in InTree /\ Key[x] = Key[r]
        BY <2>2, <2>7, <3>2 DEF Greatest
      <4>2. \A x \in Greatest(S) : x = r
        BY <2>3, <2>7, <3>2, <4>1
      <4>3. r \in Greatest(S)
        BY <2>7, <3>2 DEF Greatest
      <4> QED
        BY <3>2, <4>2, <4>3 DEF Only
    <3> QED
      BY <3>1, <3>2
  <2>8. ASSUME NEW k \in Nat
        PROVE  Only(NFind(tree, k)) = Least({n \in InTree : Key[n] >= k})
    <3> DEFINE r == NFind(tree, k)
               S == {n \in InTree : Key[n] >= k}
    <3>1. IsNext(B, k, tree.root, r)
      BY <2>1, NFindIs
    <3> HIDE DEF r
    <3>2. CASE r = Nil
      <4>1. \A x \in InTree : ~ (Key[x] >= k)
        BY <2>2, <3>1, <3>2 DEF IsNext
      <4>2. S = {}
        BY <4>1
      <4> HIDE DEF S
      <4>3. S \in SUBSET InTree
        BY <4>2
      <4> QED
        BY <2>6, <3>2, <4>2, <4>3 DEF r, S
    <3>3. CASE r # Nil
      <4>1. r \in S /\ \A x \in S : Key[r] <= Key[x]
        BY <2>2, <3>1, <3>3 DEF IsNext
      <4>2. S \in SUBSET InTree
        OBVIOUS
      <4> HIDE DEF S
      <4> QED
        BY <2>6, <3>3, <4>1, <4>2 DEF r, S
    <3> QED
      BY <3>2, <3>3
  <2>9. ASSUME NEW n \in InTree
        PROVE  /\ Only(Neighbour(tree, n, "right")) = Least({m \in InTree : Key[m] > Key[n]})
               /\ Only(Neighbour(tree, n, "left")) = Greatest({m \in InTree : Key[m] < Key[n]})
    <3> DEFINE r == Neighbour(tree, n, "right")
               l == Neighbour(tree, n, "left")
               R == {m \in InTree : Key[m] > Key[n]}
               L == {m \in InTree : Key[m] < Key[n]}
    <3>1. IsNeighbour(tree, B, n, "right", r) /\ IsNeighbour(tree, B, n, "left", l)
      BY <2>1, <2>2, NeighbourIs, Sides
    <3> HIDE DEF r, l
    <3>2. Key[n] \in Nat
      BY <2>2
    <3>3. IF r = Nil THEN R = {} ELSE r \in R /\ \A x \in R : Key[r] <= Key[x]
      <4>1. CASE r = Nil
        BY <2>2, <3>1, <4>1 DEF IsNeighbour, Beside
      <4>2. CASE r # Nil
        <5>1. /\ r \in InTree /\ Key[r] > Key[n]
              /\ \A x \in InTree : Key[x] > Key[n] /\ x # r => Key[x] > Key[r]
          BY <2>2, <3>1, <4>2 DEF IsNeighbour, Beside
        <5>2. ASSUME NEW x \in R PROVE Key[r] <= Key[x]
          BY <2>2, <5>1
        <5> QED
          BY <4>2, <5>1, <5>2
      <4> QED
        BY <4>1, <4>2
    <3>4. IF l = Nil THEN L = {} ELSE l \in L /\ \A x \in L : Key[l] >= Key[x]
      <4>1. CASE l = Nil
        BY <2>2, <3>1, <4>1 DEF IsNeighbour, Beside
      <4>2. CASE l # Nil
        <5>1. /\ l \in InTree /\ Key[l] < Key[n]
              /\ \A x \in InTree : Key[x] < Key[n] /\ x # l => Key[x] < Key[l]
          BY <2>2, <3>1, <4>2 DEF IsNeighbour, Beside
        <5>2. ASSUME NEW x \in L PROVE Key[l] >= Key[x]
          BY <2>2, <5>1
        <5> QED
          BY <4>2, <5>1, <5>2
      <4> QED
        BY <4>1, <4>2
    <3>5. R \in SUBSET InTree /\ L \in SUBSET InTree
      OBVIOUS
    <3> HIDE DEF R, L
    <3>6. Only(r) = Least(R)
      BY <2>6, <3>3, <3>5
    <3>7. Only(l) = Greatest(L)
      BY <2>7, <3>4, <3>5
    <3> QED
      BY <3>6, <3>7 DEF r, l, R, L
  <2>10. /\ Only(Furthest(tree, tree.root, "left")) = Least(InTree)
         /\ Only(Furthest(tree, tree.root, "right")) = Greatest(InTree)
    <3> DEFINE l == Furthest(tree, tree.root, "left")
               r == Furthest(tree, tree.root, "right")
    <3>1. /\ tree.root = Nil => l = Nil /\ r = Nil
          /\ tree.root # Nil => /\ IsFurthest(tree, B, tree.root, "left", l)
                                /\ IsFurthest(tree, B, tree.root, "right", r)
      BY <2>1, <2>2, FurthestIs, Sides
    <3> HIDE DEF l, r
    <3>2. CASE tree.root = Nil
      <4>1. InTree = {} /\ l = Nil /\ r = Nil
        BY <2>2, <3>1, <3>2
      <4> QED
        BY <4>1 DEF Only, Least, Greatest, l, r
    <3>3. CASE tree.root # Nil
      <4>1. /\ l \in InTree /\ \A x \in InTree : x # l => Key[x] > Key[l]
            /\ r \in InTree /\ \A x \in InTree : x # r => Key[x] < Key[r]
        BY <2>2, <3>1, <3>3, Sides DEF IsFurthest, Beside, Other
      <4>2. l # Nil /\ r # Nil /\ Key[l] \in Nat /\ Key[r] \in Nat
        BY <2>2, <4>1
      <4>3. (\A x \in InTree : Key[l] <= Key[x]) /\ (\A x \in InTree : Key[r] >= Key[x])
        BY <2>2, <4>1, <4>2
      <4>4. Only(l) = Least(InTree)
        BY <2>6, <4>1, <4>2, <4>3
      <4>5. Only(r) = Greatest(InTree)
        BY <2>7, <4>1, <4>2, <4>3
      <4> QED
        BY <4>4, <4>5 DEF l, r
    <3> QED
      BY <3>2, <3>3
  <2> QED
    BY <2>4, <2>5, <2>8, <2>9, <2>10 DEF SearchesExact
<1> QED
  BY <1>1, Invariance, PTL

-----------------------------------------------------------------------------
(* The balance.                                                            *)

\* H gives each node its black height: the black nodes on the paths below it.
Black(t, n) == IF t.red[n] THEN 0 ELSE 1

\* One is lacking on side z of q.
Lack(q, z, x, y) == IF x = q /\ y = z THEN 1 ELSE 0

Level(t, H, q, z, x, y) == H[x] = H[t.link[x][y]] + Lack(q, z, x, y) + Black(t, x)
Levels(t, S, H, q, z) == \A x \in S, y \in Side : Level(t, H, q, z, x, y)

\* Red nodes have no red children, but for e; when d holds, e may have some.
Ease(t, e, d, x, c) == t.red[x] /\ IsRed(t, c) => c = e \/ (d /\ x = e)
Calm(t, S, e, d) ==
  /\ IsRed(t, t.root) => t.root = e
  /\ \A x \in S, y \in Side : Ease(t, e, d, x, t.link[x][y])

\* The node below which rebalancing f has a black node lacking.
ShortAt(t, f) == IF f.op = "remove" /\ f.elm # t.root THEN f.parent ELSE Nil

Heights(H) == H \in [Ptr -> Nat] /\ H[Nil] = 0

Poised(t, S, f, H) ==
  /\ Heights(H)
  /\ Levels(t, S, H, ShortAt(t, f), SideOf(t, f.elm, f.parent))
  /\ Calm(t, S, f.elm, f.op = "remove")
  /\ f.op = "insert" => t.red[f.elm]

\* What a rotation around n that raises m makes of the heights.
Risen(H, n, m, h) == [H EXCEPT ![n] = h, ![m] = H[n]]

\* The heights are right but for the two nodes, and h is that of n when it is below m.
TurnLevels(t, S, H, h, q, z, n, m, s) ==
  /\ Heights(H) /\ h \in Nat
  /\ \A x \in S : x # n /\ x # m => \A y \in Side : Level(t, H, q, z, x, y)
  /\ h = H[t.link[n][s]] + Lack(q, z, n, s) + Black(t, n)
  /\ h = H[t.link[m][s]] + Lack(q, z, n, Other(s)) + Black(t, n)
  /\ H[n] = h + Lack(q, z, m, s) + Black(t, m)
  /\ H[n] = H[t.link[m][Other(s)]] + Lack(q, z, m, Other(s)) + Black(t, m)

LEMMA RotateLevels ==
  ASSUME NEW t, NEW B, Shape(t, B), NEW n \in B[t.root], NEW s \in Side,
         NEW m, m = t.link[n][Other(s)], m # Nil,
         NEW H, NEW h, NEW q, NEW z, TurnLevels(t, B[t.root], H, h, q, z, n, m, s)
  PROVE  /\ Heights(Risen(H, n, m, h))
         /\ Levels(Rotate(t, n, s), B[t.root], Risen(H, n, m, h), q, z)
<1> DEFINE o == Other(s)
           p == t.parent[n]
           a == t.link[n][s]
           c == t.link[m][s]
           d == t.link[m][o]
           u == Rotate(t, n, s)
           G == Risen(H, n, m, h)
<1>1. Rotated(t, u, n, s, m, c, p)
  BY RotateShape
<1>2. /\ n \in Node /\ m \in Node /\ o \in Side /\ o # s /\ n \in Ptr /\ m \in Ptr
      /\ a \in Ptr /\ c \in Ptr /\ d \in Ptr /\ t.link[n][o] = m
      /\ \A x \in B[t.root] : x \in Node
  <2>1. t.root \in Ptr
    BY DEF Shape, Tree
  <2>2. n \in Node /\ o \in Side /\ o # s
    BY <2>1, Deeper, Sides
  <2>3. m \in Node
    BY <2>2, SubtreeIs DEF Ptr
  <2> QED
    BY <2>1, <2>2, <2>3, Deeper, SubtreeIs, NilIs
<1>3. n # m /\ a # n /\ a # m /\ c # n /\ c # m /\ d # n /\ d # m
  <2>1. \A y \in Ptr : y = Nil \/ y \in B[y]
    BY SubtreeIs, Sides DEF Ptr
  <2>2. /\ B[n] = {n} \cup B[a] \cup B[m] /\ n \notin B[a] /\ n \notin B[m]
        /\ m \notin B[c] /\ m \notin B[d] /\ B[m] = {m} \cup B[c] \cup B[d]
    BY <1>2, SubtreeIs
  <2>3. m \notin B[a]
    BY <1>2, <2>1, SortedIs, Sides, NilIs
  <2> QED
    BY <1>2, <2>1, <2>2, <2>3, NilIs
<1>4. /\ \A x \in Node, y \in Side : t.link[x][y] = n => x = p /\ y = SideOf(t, n, p)
      /\ \A x \in Node, y \in Side : t.link[x][y] = m => x = n
      /\ p # n
      /\ p \in Node => t.link[p][SideOf(t, n, p)] = n
  <2>1. \A x \in Node, y \in Side : t.link[x][y] = m => x = n
    BY <1>2, NilIs DEF Shape, Linked
  <2>2. n = t.root => p = Nil
    BY PlaceIs
  <2> QED
    BY <2>1, <2>2, PlaceIs, NilIs
<1>5. p # m
  <2>1. p \notin B[n] /\ m \in B[n]
    BY <1>2, Above, SubtreeIs, Sides
  <2> QED
    BY <2>1
<1>6. /\ G \in [Ptr -> Nat] /\ G[n] = h /\ G[m] = H[n] /\ G[Nil] = 0
      /\ \A x \in Ptr : x # n /\ x # m => G[x] = H[x]
  BY <1>2, <1>3, NilIs DEF Heights, Risen, TurnLevels
<1>T. /\ \A x \in B[t.root] : x # n /\ x # m => \A y \in Side : Level(t, H, q, z, x, y)
      /\ h = H[a] + Lack(q, z, n, s) + Black(t, n)
      /\ h = H[c] + Lack(q, z, n, o) + Black(t, n)
      /\ H[n] = h + Lack(q, z, m, s) + Black(t, m)
      /\ H[n] = H[d] + Lack(q, z, m, o) + Black(t, m)
  BY DEF TurnLevels
<1> HIDE DEF u, G, o, p, a, c, d
<1>7. ASSUME NEW x \in B[t.root], NEW y \in Side PROVE Level(u, G, q, z, x, y)
  <2>0. /\ x \in Node /\ Black(u, x) = Black(t, x)
        /\ u.link[x][y] = IF x = n /\ y = o THEN c
                          ELSE IF x = m /\ y = s THEN n
                          ELSE IF x = p /\ y = SideOf(t, n, p) THEN m
                          ELSE t.link[x][y]
    BY <1>1, <1>2 DEF Rotated, o, Black
  <2>1. CASE x = n
    <3>1. y = o \/ y = s
      BY Sides DEF o
    <3>2. y = o => u.link[x][y] = c /\ G[c] = H[c]
      BY <1>2, <1>3, <1>6, <2>0, <2>1
    <3>3. y = s => u.link[x][y] = a /\ G[a] = H[a]
      BY <1>2, <1>3, <1>4, <1>6, <2>0, <2>1 DEF a
    <3> QED
      BY <1>6, <1>T, <2>0, <2>1, <3>1, <3>2, <3>3 DEF Level
  <2>2. CASE x = m
    <3>1. y = o \/ y = s
      BY Sides DEF o
    <3>2. y = s => u.link[x][y] = n
      BY <1>2, <1>3, <2>0, <2>2
    <3>3. y = o => u.link[x][y] = d /\ G[d] = H[d]
      BY <1>2, <1>3, <1>5, <1>6, <2>0, <2>2 DEF d
    <3> QED
      BY <1>6, <1>T, <2>0, <2>2, <3>1, <3>2, <3>3 DEF Level
  <2>3. CASE x # n /\ x # m
    <3>1. G[u.link[x][y]] = H[t.link[x][y]]
      <4>1. CASE x = p /\ y = SideOf(t, n, p)
        BY <1>4, <1>6, <2>0, <2>3, <4>1
      <4>2. CASE ~ (x = p /\ y = SideOf(t, n, p))
        <5>1. u.link[x][y] = t.link[x][y] /\ t.link[x][y] # n /\ t.link[x][y] # m
          BY <1>4, <2>0, <2>3, <4>2
        <5>2. t.link[x][y] \in Ptr
          BY <2>0, SubtreeIs
        <5> QED
          BY <1>6, <5>1, <5>2
      <4> QED
        BY <4>1, <4>2
    <3>2. G[x] = H[x] /\ Level(t, H, q, z, x, y)
      BY <1>2, <1>6, <1>T, <2>0, <2>3, NilIs
    <3> QED
      BY <2>0, <3>1, <3>2 DEF Level
  <2> QED
    BY <2>1, <2>2, <2>3
<1> QED
  BY <1>6, <1>7 DEF Levels, Heights, u, G

\* and of the colours.
TurnCalm(t, S, e, d, n, m, s) ==
  /\ n = t.root => ~ t.red[m] \/ m = e
  /\ n # t.root => ~ IsRed(t, t.root) \/ t.root = e
  /\ n # t.root => Ease(t, e, d, t.parent[n], m)
  /\ \A x \in S : x # n /\ x # m =>
       \A y \in Side : t.link[x][y] # n => Ease(t, e, d, x, t.link[x][y])
  /\ Ease(t, e, d, n, t.link[n][s]) /\ Ease(t, e, d, n, t.link[m][s])
  /\ Ease(t, e, d, m, n) /\ Ease(t, e, d, m, t.link[m][Other(s)])

LEMMA RotateCalm ==
  ASSUME NEW t, NEW B, Shape(t, B), NEW n \in B[t.root], NEW s \in Side,
         NEW m, m = t.link[n][Other(s)], m # Nil, NEW e, NEW d,
         TurnCalm(t, B[t.root], e, d, n, m, s)
  PROVE  Calm(Rotate(t, n, s), B[t.root], e, d)
<1> DEFINE o == Other(s)
           p == t.parent[n]
           c == t.link[m][s]
           u == Rotate(t, n, s)
<1>1. Rotated(t, u, n, s, m, c, p)
  BY RotateShape
<1>2. /\ n \in Node /\ m \in Node /\ o \in Side /\ o # s
      /\ \A x \in B[t.root] : x \in Node
  <2>1. t.root \in Ptr
    BY DEF Shape, Tree
  <2>2. n \in Node /\ o \in Side /\ o # s
    BY <2>1, Deeper, Sides
  <2>3. m \in Node
    BY <2>2, SubtreeIs DEF Ptr
  <2> QED
    BY <2>1, <2>2, <2>3, Deeper
<1>3. n # m
  <2>1. n \in B[n] /\ n \notin B[m]
    BY <1>2, SubtreeIs, Sides
  <2> QED
    BY <2>1
<1>4. /\ \A x \in Node, y \in Side : t.link[x][y] = n => x = p /\ y = SideOf(t, n, p)
      /\ n = t.root <=> p = Nil
      /\ p # n
  BY PlaceIs, NilIs
<1>5. p # m
  <2>1. p \notin B[n] /\ m \in B[n]
    <3>1. m \in B[m]
      BY <1>2, SubtreeIs, Sides
    <3> QED
      BY <1>2, <3>1, Above, SubtreeIs, Sides
  <2> QED
    BY <2>1
<1>T. /\ n = t.root => ~ t.red[m] \/ m = e
      /\ n # t.root => ~ IsRed(t, t.root) \/ t.root = e
      /\ n # t.root => Ease(t, e, d, p, m)
      /\ \A x \in B[t.root] : x # n /\ x # m =>
           \A y \in Side : t.link[x][y] # n => Ease(t, e, d, x, t.link[x][y])
      /\ Ease(t, e, d, n, t.link[n][s]) /\ Ease(t, e, d, n, c)
      /\ Ease(t, e, d, m, n) /\ Ease(t, e, d, m, t.link[m][o])
  BY DEF TurnCalm
<1> HIDE DEF u, o, p, c
<1>6. u.red = t.red /\ u.root = IF n = t.root THEN m ELSE t.root
  BY <1>1, <1>4 DEF Rotated
<1>7. IsRed(u, u.root) => u.root = e
  BY <1>6, <1>T DEF IsRed
<1>8. \A x, y : Ease(u, e, d, x, y) <=> Ease(t, e, d, x, y)
  BY <1>6 DEF Ease, IsRed
<1>9. ASSUME NEW x \in B[t.root], NEW y \in Side PROVE Ease(t, e, d, x, u.link[x][y])
  <2>0. x \in Node /\ u.link[x][y] = IF x = n /\ y = o THEN c
                                     ELSE IF x = m /\ y = s THEN n
                                     ELSE IF x = p /\ y = SideOf(t, n, p) THEN m
                                     ELSE t.link[x][y]
    BY <1>1, <1>2 DEF Rotated, o
  <2>s. y = o \/ y = s
    BY Sides DEF o
  <2>1. CASE x = n
    BY <1>2, <1>3, <1>4, <1>T, <2>0, <2>1, <2>s
  <2>2. CASE x = m
    BY <1>2, <1>3, <1>5, <1>T, <2>0, <2>2, <2>s
  <2>3. CASE x # n /\ x # m
    <3>1. CASE x = p /\ y = SideOf(t, n, p)
      <4>1. n # t.root /\ u.link[x][y] = m
        BY <1>4, <2>0, <2>3, <3>1, NilIs
      <4> QED
        BY <1>T, <3>1, <4>1
    <3>2. CASE ~ (x = p /\ y = SideOf(t, n, p))
      <4>1. u.link[x][y] = t.link[x][y] /\ t.link[x][y] # n
        BY <1>4, <2>0, <2>3, <3>2
      <4> QED
        BY <1>T, <2>3, <4>1
    <3> QED
      BY <3>1, <3>2
  <2> QED
    BY <2>1, <2>2, <2>3
<1> QED
  BY <1>7, <1>8, <1>9 DEF Calm, u

\* When nothing is lacking.
Even(t, S, H) == \A x \in S, y \in Side : H[x] = H[t.link[x][y]] + Black(t, x)

LEMMA EvenIs ==
  ASSUME NEW t, NEW S \in SUBSET Node, NEW f, f.op # "remove" \/ f.elm = t.root, NEW H, Heights(H),
         t \in Tree
  PROVE  Levels(t, S, H, ShortAt(t, f), SideOf(t, f.elm, f.parent)) <=> Even(t, S, H)
<1>1. ShortAt(t, f) = Nil
  BY DEF ShortAt
<1> DEFINE z == SideOf(t, f.elm, f.parent)
<1> HIDE DEF z
<1>2. ASSUME NEW x \in S, NEW y \in Side
      PROVE  Level(t, H, Nil, z, x, y) <=> H[x] = H[t.link[x][y]] + Black(t, x)
  <2>1. Lack(Nil, z, x, y) = 0 /\ x \in Node /\ t.link[x][y] \in Ptr
    BY NilIs, LinkIs DEF Lack
  <2>2. H[t.link[x][y]] \in Nat
    BY <2>1 DEF Heights
  <2> QED
    BY <2>1, <2>2 DEF Level
<1> QED
  BY <1>1, <1>2 DEF Levels, Even, z

LEMMA NoneShort ==
  ASSUME NEW t, NEW S \in SUBSET Node, NEW H, NEW z, Levels(t, S, H, Nil, z), NEW w
  PROVE  Levels(t, S, H, Nil, w)
<1>1. ASSUME NEW x \in S, NEW y \in Side PROVE Level(t, H, Nil, z, x, y) <=> Level(t, H, Nil, w, x, y)
  BY NilIs DEF Level, Lack
<1> QED
  BY <1>1 DEF Levels

\* The children of a node, when there are two.
LEMMA Twins ==
  ASSUME NEW t, NEW B, Shape(t, B), NEW p \in B[t.root], NEW s \in Side,
         t.link[p][Other(s)] # Nil
  PROVE  t.link[p][s] # t.link[p][Other(s)] /\ SideOf(t, t.link[p][s], p) = s
<1> DEFINE c == t.link[p][s]
           w == t.link[p][Other(s)]
<1>1. p \in Node /\ Other(s) \in Side /\ c \in Ptr /\ w \in Ptr
  BY Deeper, SubtreeIs, Sides DEF Shape, Tree
<1>2. c # w
  <2>1. w \in B[w]
    BY <1>1, SubtreeIs, Sides DEF Ptr
  <2>2. w \notin B[t.link[p][s]]
    <3>1. p \in Node /\ w \in B[t.link[p][Other(s)]]
      BY <1>1, <2>1
    <3> HIDE DEF c, w
    <3> QED
      BY <3>1, SortedIs, Sides
  <2> QED
    BY <2>1, <2>2
<1>3. SideOf(t, c, p) = s
  BY <1>2, Sides DEF SideOf, Other
<1> QED
  BY <1>2, <1>3

\* In a tree of nodes S: where they are.
LEMMA Places ==
  ASSUME NEW t, NEW B, Shape(t, B)
  PROVE  /\ t \in Tree /\ t.root \in Ptr /\ B[t.root] \in SUBSET Node
         /\ \A x \in B[t.root] : x \in Node /\ x \in Ptr /\ x # Nil
         /\ \A x \in B[t.root], y \in Side : t.link[x][y] \in Ptr /\ t.link[x][y] # x
         /\ \A x \in B[t.root], y \in Side :
              t.link[x][y] # Nil => /\ t.link[x][y] \in B[t.root] /\ t.link[x][y] # t.root
                                    /\ t.parent[t.link[x][y]] = x
<1>1. t \in Tree /\ t.root \in Ptr
  BY DEF Shape, Tree
<1>2. ASSUME NEW x \in B[t.root] PROVE x \in Node /\ x \in Ptr /\ x # Nil
  BY <1>1, Deeper, NilIs
<1>3. ASSUME NEW x \in B[t.root], NEW y \in Side
      PROVE  /\ t.link[x][y] \in Ptr /\ t.link[x][y] # x
             /\ t.link[x][y] # Nil => /\ t.link[x][y] \in B[t.root] /\ t.link[x][y] # t.root
                                      /\ t.parent[t.link[x][y]] = x
  <2>1. x \in Node /\ x \in Ptr /\ x # Nil
    BY <1>2
  <2>2. t.link[x][y] \in Ptr
    BY <2>1, SubtreeIs
  <2>3. t.link[x][y] # x
    BY <2>1, SubtreeIs
  <2>4. CASE t.link[x][y] # Nil
    <3>1. t.link[x][y] \in B[t.root]
      BY <2>1, <2>4, Within
    <3>2. t.parent[t.link[x][y]] = x
      BY <2>1, <2>4 DEF Shape, Linked
    <3>3. t.link[x][y] = t.root => t.parent[t.link[x][y]] = Nil
      BY <2>4 DEF Shape, Linked
    <3> QED
      BY <2>1, <2>2, <2>3, <3>1, <3>2, <3>3
  <2> QED
    BY <2>2, <2>3, <2>4
<1>4. B[t.root] \in SUBSET Node
  BY <1>1 DEF Shape, Subtrees
<1> QED
  BY <1>1, <1>2, <1>3, <1>4

\* A node is not its grandchild.
LEMMA NoCycle ==
  ASSUME NEW t, NEW B, Shape(t, B), NEW x \in B[t.root], NEW y \in Side, t.link[x][y] # Nil,
         NEW z \in Side
  PROVE  t.link[t.link[x][y]][z] # x
<1> DEFINE c == t.link[x][y]
<1>1. x \in Node /\ c \in Node
  BY Places, Within
<1>2. x \notin B[c] /\ B[t.link[c][z]] \subseteq B[c] /\ x \in B[x]
  BY <1>1, SubtreeIs
<1> QED
  BY <1>2

\* What the loop of RB_INSERT_COLOR knows.
LEMMA RedParentPoised ==
  ASSUME NEW B, Held(B), NEW H, Poised(tree, B[tree.root], fix, H), NEW s \in Side, RedParent(s)
  PROVE  /\ Heights(H) /\ Even(tree, B[tree.root], H)
         /\ tree.red[fix.elm] /\ tree.red[Parent] /\ ~ tree.red[Grandparent]
         /\ ~ IsRed(tree, tree.root)
         /\ \A x \in B[tree.root], y \in Side : Ease(tree, fix.elm, FALSE, x, tree.link[x][y])
<1>1. /\ Shape(tree, B) /\ fix \in [op : {"insert"}, elm : Node, parent : {Nil}]
      /\ fix.elm \in B[tree.root] /\ fix.elm # tree.root
      /\ Parent \in Node /\ Parent # tree.root
      /\ Grandparent \in B[tree.root]
      /\ tree.link[Grandparent][s] = Parent
      /\ \E z \in Side : tree.link[Parent][z] = fix.elm
  BY RedParentIs
<1>2. fix.op = "insert"
  BY <1>1
<1>3. Heights(H) /\ Levels(tree, B[tree.root], H, ShortAt(tree, fix), SideOf(tree, fix.elm, fix.parent))
      /\ Calm(tree, B[tree.root], fix.elm, FALSE) /\ tree.red[fix.elm]
  BY <1>2 DEF Poised
<1>4. tree \in Tree /\ B[tree.root] \in SUBSET Node
  BY <1>1, Places
<1>5. Even(tree, B[tree.root], H)
  BY <1>2, <1>3, <1>4, EvenIs
<1>6. /\ ~ IsRed(tree, tree.root)
      /\ \A x \in B[tree.root], y \in Side : Ease(tree, fix.elm, FALSE, x, tree.link[x][y])
  BY <1>1, <1>3 DEF Calm
<1>7. tree.red[Parent] /\ IsRed(tree, Parent)
  BY DEF RedParent, IsRed
<1>8. Parent # fix.elm
  <2>1. Parent \in B[tree.root]
    BY <1>1, RedParentIs
  <2> QED
    BY <1>1, <2>1, Places
<1>9. ~ tree.red[Grandparent]
  BY <1>1, <1>6, <1>7, <1>8 DEF Ease
<1> QED
  BY <1>3, <1>5, <1>6, <1>7, <1>9

LEMMA RedUnclePoised ==
  ASSUME NEW B, Held(B), NEW H, Poised(tree, B[tree.root], fix, H), NEW s \in Side, RedUncle(s)
  PROVE  \E G : Poised(tree', B[tree.root], fix', G)
<1> DEFINE p == Parent
           g == Grandparent
           w == tree.link[g][Other(s)]
           S == B[tree.root]
           G == [H EXCEPT ![p] = H[p] + 1, ![w] = H[w] + 1]
<1>1. RedParent(s) /\ IsRed(tree, w)
  BY DEF RedUncle
<1>2. /\ Shape(tree, B) /\ fix \in [op : {"insert"}, elm : Node, parent : {Nil}]
      /\ p \in Node /\ p \in S /\ g \in Node /\ g \in S
      /\ tree.link[g][s] = p
  BY <1>1, RedParentIs
<1>3. /\ Heights(H) /\ Even(tree, S, H)
      /\ tree.red[p] /\ ~ tree.red[g] /\ ~ IsRed(tree, tree.root)
      /\ \A x \in S, y \in Side : Ease(tree, fix.elm, FALSE, x, tree.link[x][y])
  BY <1>1, RedParentPoised
<1>4. Other(s) \in Side /\ w # Nil /\ tree.red[w]
  BY <1>1, Sides DEF IsRed
<1>5. w \in S /\ w \in Node /\ w # p /\ w # g /\ p # g
  BY <1>2, <1>4, Places, Twins
<1>6. /\ \A x \in S, y \in Side : tree.link[x][y] \in Ptr /\ tree.link[x][y] # x
      /\ \A x \in S, y \in Side : tree.link[x][y] = p \/ tree.link[x][y] = w => x = g
      /\ S \in SUBSET Node /\ tree \in Tree
  BY <1>2, <1>4, Places, NilIs
<1>7. tree' = BlackRed([tree EXCEPT !.red[w] = FALSE], p, g) /\ fix' = [fix EXCEPT !.elm = g]
  BY DEF RedUncle
<1>8. fix'.op = "insert" /\ fix'.elm = g
  BY <1>2, <1>7
<1> HIDE DEF p, g, w, S
<1>9. /\ tree' \in Tree /\ tree'.root = tree.root /\ tree'.link = tree.link
      /\ \A x \in Node : tree'.red[x] = IF x = g THEN TRUE ELSE IF x = p \/ x = w THEN FALSE
                                        ELSE tree.red[x]
  BY <1>2, <1>5, <1>6, <1>7 DEF BlackRed, Tree
<1>10. /\ G \in [Ptr -> Nat] /\ G[p] = H[p] + 1 /\ G[w] = H[w] + 1 /\ G[Nil] = 0
       /\ \A x \in Ptr : x # p /\ x # w => G[x] = H[x]
  BY <1>2, <1>3, <1>5, NilIs DEF Heights
<1> HIDE DEF G
<1>11. ASSUME NEW x \in S, NEW y \in Side PROVE G[x] = G[tree.link[x][y]] + Black(tree', x)
  <2>1. /\ H[x] = H[tree.link[x][y]] + Black(tree, x) /\ x \in Node /\ x \in Ptr
        /\ tree.link[x][y] \in Ptr
    BY <1>3, <1>6, NilIs DEF Even
  <2>2. H[x] \in Nat /\ H[tree.link[x][y]] \in Nat
    BY <1>3, <2>1 DEF Heights
  <2>3. CASE x = p \/ x = w
    <3>1. tree.link[x][y] # p /\ tree.link[x][y] # w
      BY <1>5, <1>6, <2>3
    <3>2. Black(tree, x) = 0 /\ Black(tree', x) = 1
      BY <1>3, <1>4, <1>5, <1>9, <2>1, <2>3 DEF Black
    <3> QED
      BY <1>10, <2>1, <2>2, <2>3, <3>1, <3>2
  <2>4. CASE x = g
    <3>1. tree.link[x][y] = p \/ tree.link[x][y] = w
      BY <1>2, <2>4, Sides DEF w
    <3>2. Black(tree, x) = 1 /\ Black(tree', x) = 0
      BY <1>3, <1>9, <2>1, <2>4 DEF Black
    <3> QED
      BY <1>5, <1>10, <2>1, <2>2, <2>4, <3>1, <3>2
  <2>5. CASE x # p /\ x # w /\ x # g
    <3>1. tree.link[x][y] # p /\ tree.link[x][y] # w
      BY <1>6, <2>5
    <3>2. Black(tree', x) = Black(tree, x)
      BY <1>9, <2>1, <2>5 DEF Black
    <3> QED
      BY <1>10, <2>1, <2>5, <3>1, <3>2
  <2> QED
    BY <2>3, <2>4, <2>5
<1>12. Even(tree', S, G) /\ Heights(G)
  BY <1>9, <1>10, <1>11 DEF Even, Heights
<1>13. ASSUME NEW x \in S, NEW y \in Side PROVE Ease(tree', g, FALSE, x, tree'.link[x][y])
  <2>1. x \in Node /\ tree.link[x][y] \in Ptr /\ Ease(tree, fix.elm, FALSE, x, tree.link[x][y])
    BY <1>3, <1>6
  <2> DEFINE c == tree.link[x][y]
  <2>2. SUFFICES ASSUME tree'.red[x], IsRed(tree', c), c # g PROVE FALSE
    BY <1>9 DEF Ease
  <2>3. c \in Node /\ c # p /\ c # w /\ tree.red[c]
    BY <1>9, <2>1, <2>2 DEF IsRed, Ptr
  <2>4. x # g /\ x # p /\ x # w /\ tree.red[x]
    <3>1. x # g
      BY <1>2, <2>3, Sides DEF w
    <3> QED
      BY <1>9, <2>1, <2>2, <3>1
  <2>5. c = fix.elm
    BY <2>1, <2>3, <2>4, NilIs DEF Ease, IsRed
  <2>6. tree.parent[c] = x /\ x # p
    BY <1>2, <2>3, <2>4, Places, NilIs DEF S
  <2> QED
    BY <2>5, <2>6 DEF p, Parent
<1>14. Calm(tree', S, g, FALSE)
  <2>1. IsRed(tree', tree'.root) => tree'.root = g
    <3> SUFFICES ASSUME IsRed(tree', tree.root), tree.root # g PROVE FALSE
      BY <1>9
    <3>1. tree.root \in Node
      BY <1>6 DEF IsRed, Tree, Ptr
    <3> QED
      BY <1>3, <1>9, <3>1 DEF IsRed
  <2> QED
    BY <1>13, <2>1 DEF Calm
<1>15. tree'.red[g]
  BY <1>2, <1>9
<1>16. Levels(tree', S, G, ShortAt(tree', fix'), SideOf(tree', fix'.elm, fix'.parent))
  BY <1>6, <1>8, <1>9, <1>12, EvenIs
<1> QED
  BY <1>8, <1>12, <1>14, <1>15, <1>16 DEF Poised, S

\* elm is raised above its parent.
LEMMA InnerGrandchildPoised ==
  ASSUME NEW B, Held(B), NEW H, Poised(tree, B[tree.root], fix, H), NEW s \in Side,
         InnerGrandchild(s)
  PROVE  \E G : Poised(tree', B[tree.root], fix', G)
<1> DEFINE p == Parent
           g == Grandparent
           m == fix.elm
           o == Other(s)
           S == B[tree.root]
           h == H[p]
           G == Risen(H, p, m, h)
<1>1. RedParent(s) /\ tree.link[p][o] = m
  BY DEF InnerGrandchild
<1>2. /\ Shape(tree, B) /\ fix \in [op : {"insert"}, elm : Node, parent : {Nil}]
      /\ p \in Node /\ p \in S /\ m \in Node /\ p # tree.root /\ g = tree.parent[p]
  BY <1>1, RedParentIs DEF Grandparent
<1>3. /\ Heights(H) /\ Even(tree, S, H)
      /\ tree.red[m] /\ tree.red[p] /\ ~ tree.red[g] /\ ~ IsRed(tree, tree.root)
      /\ \A x \in S, y \in Side : Ease(tree, m, FALSE, x, tree.link[x][y])
  BY <1>1, RedParentPoised
<1>4. o \in Side /\ m # Nil /\ m # p
  BY <1>2, NilIs, Sides, Places, <1>1
<1>5. tree' = Rotate(tree, p, s) /\ fix' = [fix EXCEPT !.elm = p]
  BY DEF InnerGrandchild
<1>6. fix'.op = "insert" /\ fix'.elm = p
  BY <1>2, <1>5
<1>7. /\ \A x \in S, y \in Side : tree.link[x][y] \in Ptr
      /\ S \in SUBSET Node /\ tree \in Tree /\ m \in S
  BY <1>1, <1>2, <1>4, Places
<1>8. /\ S \in SUBSET Node /\ p \in Ptr /\ \A x \in S : x # Nil
  BY <1>2, <1>7, NilIs
<1> HIDE DEF p, g, m, o, S
<1>9. \A x \in S, y \in Side : Level(tree, H, Nil, s, x, y) /\ Lack(Nil, s, x, y) = 0
  <2> SUFFICES ASSUME NEW x \in S, NEW y \in Side
               PROVE  Level(tree, H, Nil, s, x, y) /\ Lack(Nil, s, x, y) = 0
    OBVIOUS
  <2>1. Lack(Nil, s, x, y) = 0
    BY <1>8 DEF Lack
  <2>2. H[tree.link[x][y]] \in Nat
    BY <1>3, <1>7 DEF Heights
  <2> QED
    BY <1>3, <2>1, <2>2 DEF Even, Level
<1>10. TurnLevels(tree, S, H, h, Nil, s, p, m, s)
  <2>1. /\ h \in Nat /\ H[m] \in Nat /\ Black(tree, p) = 0 /\ Black(tree, m) = 0
    BY <1>2, <1>3, <1>8, NilIs DEF Heights, Black
  <2>2. /\ H[p] = H[tree.link[p][s]] /\ H[p] = H[m]
        /\ H[m] = H[tree.link[m][s]] /\ H[m] = H[tree.link[m][o]]
    <3>1. ASSUME NEW x \in S, NEW y \in Side, Black(tree, x) = 0 PROVE H[x] = H[tree.link[x][y]]
      <4>1. H[tree.link[x][y]] \in Nat
        BY <1>3, <1>7 DEF Heights
      <4> QED
        BY <1>3, <3>1, <4>1 DEF Even
    <3> QED
      BY <1>1, <1>2, <1>4, <1>7, <2>1, <3>1
  <2>3. /\ Lack(Nil, s, p, s) = 0 /\ Lack(Nil, s, p, o) = 0
        /\ Lack(Nil, s, m, s) = 0 /\ Lack(Nil, s, m, o) = 0
    BY <1>2, <1>4, <1>7, <1>9
  <2>4. \A x \in S, y \in Side : Level(tree, H, Nil, s, x, y)
    BY <1>9
  <2> QED
    BY <1>3, <2>1, <2>2, <2>3, <2>4 DEF TurnLevels, o
<1>11. TurnCalm(tree, S, p, FALSE, p, m, s)
  <2>1. \A x \in S, y \in Side : tree.link[x][y] = m => x = p
    BY <1>1, <1>2, <1>4, Places DEF S
  <2>2. \A x \in S, y \in Side :
           x # p => Ease(tree, p, FALSE, x, tree.link[x][y])
    BY <1>3, <2>1 DEF Ease
  <2>3. Ease(tree, p, FALSE, p, tree.link[p][s])
    <3>1. tree.link[p][s] # m
      BY <1>1, <1>2, <1>4, Twins, Sides DEF o, S
    <3> QED
      BY <1>2, <1>3, <3>1 DEF Ease
  <2>4. \A y \in Side : ~ IsRed(tree, tree.link[m][y])
    <3> TAKE y \in Side
    <3>1. Ease(tree, m, FALSE, m, tree.link[m][y])
      BY <1>3, <1>7
    <3>2. tree.link[m][y] # m
      BY <1>2, <1>7, Places DEF S
    <3> QED
      BY <1>3, <3>1, <3>2 DEF Ease
  <2>5. ~ tree.red[tree.parent[p]]
    BY <1>2, <1>3
  <2>6. Ease(tree, p, FALSE, p, tree.link[m][s]) /\ Ease(tree, p, FALSE, m, tree.link[m][o])
    BY <1>4, <2>4 DEF Ease
  <2>7. Ease(tree, p, FALSE, m, p) /\ Ease(tree, p, FALSE, tree.parent[p], m)
    BY <2>5 DEF Ease
  <2> QED
    BY <1>2, <1>3, <2>2, <2>3, <2>6, <2>7 DEF TurnCalm, S, o
<1>12. Heights(G) /\ Levels(tree', S, G, Nil, s) /\ Calm(tree', S, p, FALSE)
  <2>1. p \in S /\ m = tree.link[p][Other(s)]
    BY <1>1, <1>2 DEF o
  <2> HIDE DEF h
  <2>2. Heights(G) /\ Levels(Rotate(tree, p, s), S, G, Nil, s)
    BY <1>2, <1>4, <1>10, <2>1, RotateLevels DEF S
  <2>3. Calm(Rotate(tree, p, s), S, p, FALSE)
    BY <1>2, <1>4, <1>11, <2>1, RotateCalm DEF S
  <2> QED
    BY <1>5, <2>2, <2>3

<1>13. tree'.red = tree.red
  <2>1. Rotated(tree, tree', p, s, m, tree.link[m][s], tree.parent[p])
    BY <1>1, <1>2, <1>4, <1>5, RotateShape DEF S, o
  <2> QED
    BY <2>1 DEF Rotated
<1>14. Levels(tree', S, G, ShortAt(tree', fix'), SideOf(tree', fix'.elm, fix'.parent))
  <2>1. ShortAt(tree', fix') = Nil
    BY <1>6 DEF ShortAt
  <2> QED
    BY <1>8, <1>12, <2>1, NoneShort
<1> HIDE DEF G
<1> QED
  BY <1>3, <1>6, <1>12, <1>13, <1>14 DEF Poised, S

LEMMA PaintedIs ==
  ASSUME NEW t \in Tree, NEW n \in Node, NEW m \in Node
  PROVE  /\ BlackRed(t, m, n) \in Tree
         /\ BlackRed(t, m, n).root = t.root /\ BlackRed(t, m, n).link = t.link
         /\ BlackRed(t, m, n).parent = t.parent
BY DEF BlackRed, Tree

\* A red child m that rises above its black parent n changes colours with it.
TiltAt(t, S, H, q, z, e, n, m, s) ==
  /\ Heights(H) /\ Levels(t, S, H, q, z) /\ q # m /\ (q = n => z # Other(s))
  /\ t.red[m] /\ ~ t.red[n] /\ ~ IsRed(t, t.root)
  /\ ~ IsRed(t, t.link[n][s]) /\ ~ IsRed(t, t.link[m][s])
  /\ \A x \in S, y \in Side : Ease(t, e, FALSE, x, t.link[x][y])

Tilted(t, n, m, s) == Rotate(BlackRed(t, m, n), n, s)

TiltedAs(t, S, q, z, e, n, m, s) ==
  /\ \E G : Heights(G) /\ Levels(Tilted(t, n, m, s), S, G, q, z)
  /\ Calm(Tilted(t, n, m, s), S, e, FALSE)
  /\ \A x \in Node : Tilted(t, n, m, s).red[x] =
                       IF x = n THEN TRUE ELSE IF x = m THEN FALSE ELSE t.red[x]

LEMMA Tilt ==
  ASSUME NEW t, NEW B, Shape(t, B), NEW n \in B[t.root], NEW s \in Side,
         NEW m, m = t.link[n][Other(s)], m # Nil,
         NEW H, NEW q, NEW z, NEW e, TiltAt(t, B[t.root], H, q, z, e, n, m, s)
  PROVE  TiltedAs(t, B[t.root], q, z, e, n, m, s)
<1> DEFINE o == Other(s)
           S == B[t.root]
           a == t.link[n][s]
           c == t.link[m][s]
           d == t.link[m][o]
           v == BlackRed(t, m, n)
           h == H[m]
           G == Risen(H, n, m, h)
<1>1. /\ Heights(H) /\ Levels(t, S, H, q, z) /\ q # m /\ (q = n => z # o)
      /\ t.red[m] /\ ~ t.red[n] /\ ~ IsRed(t, t.root)
      /\ ~ IsRed(t, a) /\ ~ IsRed(t, c)
      /\ \A x \in S, y \in Side : Ease(t, e, FALSE, x, t.link[x][y])
  BY DEF TiltAt
<1>2. o \in Side /\ Other(o) = s /\ o # s
  BY Sides
<1>3. /\ \A x \in S, y \in Side : t.link[x][y] \in Ptr /\ t.link[x][y] # x
      /\ \A x \in S, y \in Side : t.link[x][y] = m => x = n
      /\ S \in SUBSET Node /\ t \in Tree /\ \A x \in S : x # Nil /\ x \in Ptr /\ x \in Node
      /\ m \in S /\ m # t.root
  BY <1>2, Places
<1>4. n \in S /\ n \in Node /\ m \in Node /\ n # m
  BY <1>2, <1>3
<1>5. c # n /\ c # m /\ d # n /\ d # m /\ a # m /\ a # n
  <2>1. c # n /\ d # n
    BY <1>2, NoCycle
  <2>2. a # m
    BY <1>2, Twins
  <2> QED
    BY <1>2, <1>3, <1>4, <2>1, <2>2
<1>6. t.link[n][o] = m
  BY <1>2
<1> HIDE DEF o, S, a, c, d
<1>7. /\ v \in Tree /\ v.root = t.root /\ v.link = t.link /\ v.parent = t.parent
      /\ \A x \in Node : v.red[x] = IF x = n THEN TRUE ELSE IF x = m THEN FALSE ELSE t.red[x]
  BY <1>3, <1>4 DEF BlackRed, Tree
<1> HIDE DEF v
<1>8. /\ Shape(v, B) /\ S = B[v.root] /\ n \in B[v.root] /\ a = v.link[n][s]
      /\ m = v.link[n][Other(s)] /\ c = v.link[m][s] /\ d = v.link[m][Other(s)]
  BY <1>4, <1>6, <1>7, Recoloured DEF S, a, c, d, o
<1>9. \A x \in S, y \in Side :
        /\ H[x] = H[t.link[x][y]] + Lack(q, z, x, y) + Black(t, x)
        /\ H[t.link[x][y]] \in Nat /\ H[x] \in Nat /\ Lack(q, z, x, y) \in Nat
  BY <1>1, <1>3 DEF Heights, Lack, Levels, Level
<1>10. TurnLevels(v, S, H, h, q, z, n, m, s)
  <2>1. Black(v, n) = 0 /\ Black(v, m) = 1 /\ Black(t, n) = 1 /\ Black(t, m) = 0
    BY <1>1, <1>4, <1>7 DEF Black
  <2>2. /\ Lack(q, z, n, o) = 0 /\ Lack(q, z, m, s) = 0 /\ Lack(q, z, m, o) = 0
        /\ Lack(q, z, n, s) \in Nat
    BY <1>1 DEF Lack
  <2>3. H[n] = H[a] + Lack(q, z, n, s) + 1 /\ H[n] = H[m] + 0 + 1 /\ H[a] \in Nat /\ H[m] \in Nat
    BY <1>2, <1>4, <1>6, <1>9, <2>1, <2>2 DEF a
  <2>4. H[m] = H[c] + 0 + 0 /\ H[m] = H[d] + 0 + 0 /\ H[c] \in Nat /\ H[d] \in Nat
    BY <1>2, <1>3, <1>9, <2>1, <2>2 DEF c, d
  <2>5. ASSUME NEW x \in S, x # n, x # m, NEW y \in Side PROVE Level(v, H, q, z, x, y)
    <3>1. Black(v, x) = Black(t, x) /\ v.link = t.link
      BY <1>3, <1>7, <2>5 DEF Black
    <3> QED
      BY <1>9, <3>1 DEF Level
  <2>6. /\ h = H[a] + Lack(q, z, n, s) + Black(v, n)
        /\ h = H[c] + Lack(q, z, n, o) + Black(v, n)
        /\ H[n] = h + Lack(q, z, m, s) + Black(v, m)
        /\ H[n] = H[d] + Lack(q, z, m, o) + Black(v, m)
    BY <2>1, <2>2, <2>3, <2>4
  <2> QED
    BY <1>1, <1>8, <2>3, <2>5, <2>6 DEF TurnLevels, o
<1>11. TurnCalm(v, S, e, FALSE, n, m, s)
  <2>1. ~ v.red[m]
    BY <1>4, <1>7
  <2>2. n # v.root => ~ IsRed(v, v.root)
    <3>1. t.root \in Ptr
      BY <1>3 DEF Tree
    <3> QED
      BY <1>1, <1>3, <1>7, <3>1 DEF IsRed, Ptr
  <2>3. \A x : Ease(v, e, FALSE, m, x) /\ Ease(v, e, FALSE, x, m)
    BY <2>1 DEF Ease, IsRed
  <2>4. ASSUME NEW x \in S, x # n, x # m, NEW y \in Side, v.link[x][y] # n
        PROVE  Ease(v, e, FALSE, x, v.link[x][y])
    <3>1. /\ x \in Node /\ t.link[x][y] \in Ptr /\ t.link[x][y] # m
          /\ Ease(t, e, FALSE, x, t.link[x][y])
      BY <1>1, <1>3, <2>4
    <3>2. v.red[x] = t.red[x] /\ (IsRed(v, v.link[x][y]) <=> IsRed(t, t.link[x][y]))
      BY <1>7, <2>4, <3>1 DEF IsRed, Ptr
    <3> QED
      BY <1>7, <3>1, <3>2 DEF Ease
  <2>5. Ease(v, e, FALSE, n, a) /\ Ease(v, e, FALSE, n, c)
    <3>1. a \in Ptr /\ c \in Ptr
      BY <1>3, <1>4 DEF a, c
    <3>2. ~ IsRed(v, a) /\ ~ IsRed(v, c)
      BY <1>1, <1>5, <1>7, <3>1 DEF IsRed, Ptr
    <3> QED
      BY <3>2 DEF Ease
  <2> QED
    BY <1>8, <2>1, <2>2, <2>3, <2>4, <2>5 DEF TurnCalm
<1>12. Heights(G) /\ Levels(Rotate(v, n, s), S, G, q, z)
  <2> HIDE DEF h
  <2>1. TurnLevels(v, B[v.root], H, h, q, z, n, m, s) /\ m = v.link[n][Other(s)] /\ Shape(v, B)
    BY <1>8, <1>10
  <2>2. Heights(G) /\ Levels(Rotate(v, n, s), B[v.root], G, q, z)
    BY <1>8, <2>1, RotateLevels
  <2> QED
    BY <1>8, <2>2
<1>13. Calm(Rotate(v, n, s), S, e, FALSE)
  <2>1. TurnCalm(v, B[v.root], e, FALSE, n, m, s) /\ m = v.link[n][Other(s)] /\ Shape(v, B)
    BY <1>8, <1>11
  <2>2. Calm(Rotate(v, n, s), B[v.root], e, FALSE)
    BY <1>8, <2>1, RotateCalm
  <2> QED
    BY <1>8, <2>2
<1>14. Rotate(v, n, s).red = v.red
  <2>1. m = v.link[n][Other(s)] /\ Shape(v, B)
    BY <1>8
  <2>2. Rotated(v, Rotate(v, n, s), n, s, m, v.link[m][s], v.parent[n])
    BY <1>8, <2>1, RotateShape
  <2> QED
    BY <2>2 DEF Rotated
<1> HIDE DEF G
<1> QED
  BY <1>7, <1>12, <1>13, <1>14 DEF TiltedAs, Tilted, S, v

\* The parent is raised above the grandparent.
LEMMA OuterGrandchildPoised ==
  ASSUME NEW B, Held(B), NEW H, Poised(tree, B[tree.root], fix, H), NEW s \in Side,
         OuterGrandchild(s)
  PROVE  \E G : Poised(tree', B[tree.root], fix', G)
<1> DEFINE p == Parent
           g == Grandparent
           e == fix.elm
           o == Other(s)
           S == B[tree.root]
           c == tree.link[p][o]
<1>1. RedParent(s) /\ ~ IsRed(tree, tree.link[g][o]) /\ c # e
  BY DEF OuterGrandchild
<1>2. /\ Shape(tree, B) /\ fix \in [op : {"insert"}, elm : Node, parent : {Nil}]
      /\ p \in Node /\ p \in S /\ g \in Node /\ g \in S
      /\ tree.link[g][s] = p /\ e \in Node
      /\ \E z \in Side : tree.link[p][z] = e
  BY <1>1, RedParentIs
<1>3. /\ Heights(H) /\ Even(tree, S, H)
      /\ tree.red[e] /\ tree.red[p] /\ ~ tree.red[g] /\ ~ IsRed(tree, tree.root)
      /\ \A x \in S, y \in Side : Ease(tree, e, FALSE, x, tree.link[x][y])
  BY <1>1, RedParentPoised
<1>4. o \in Side /\ Other(o) = s /\ p # Nil
  BY <1>2, NilIs, Sides
<1>5. tree' = Tilted(tree, g, p, o) /\ fix' = fix
  BY DEF OuterGrandchild, Tilted
<1>6. fix'.op = "insert" /\ fix'.elm = e
  BY <1>2, <1>5
<1>7. S \in SUBSET Node /\ tree \in Tree /\ \A x \in S : x # Nil /\ x \in Ptr
  BY <1>2, Places
<1>8. e # g /\ e # p
  <2>1. \A z \in Side : tree.link[p][z] # g /\ tree.link[p][z] # p
    BY <1>2, <1>4, NoCycle, Places
  <2> QED
    BY <1>2, <2>1
<1> HIDE DEF p, g, e, o, S, c
<1>9. Levels(tree, S, H, Nil, s)
  <2>1. fix.op # "remove" /\ ShortAt(tree, fix) = Nil
    BY <1>5, <1>6 DEF ShortAt
  <2>2. Levels(tree, S, H, Nil, SideOf(tree, fix.elm, fix.parent))
    BY <1>3, <1>7, <2>1, EvenIs
  <2> QED
    BY <1>7, <2>2, NoneShort
<1>10. ~ IsRed(tree, c)
  <2>1. Ease(tree, e, FALSE, p, c)
    BY <1>2, <1>3, <1>4 DEF c
  <2> QED
    BY <1>1, <1>3, <2>1 DEF Ease
<1>11. TiltAt(tree, S, H, Nil, s, e, g, p, o)
  BY <1>1, <1>2, <1>3, <1>7, <1>9, <1>10, NilIs DEF TiltAt, c
<1>12. /\ \E G : Heights(G) /\ Levels(Tilted(tree, g, p, o), S, G, Nil, s)
       /\ Calm(Tilted(tree, g, p, o), S, e, FALSE)
       /\ \A x \in Node : Tilted(tree, g, p, o).red[x] =
                            IF x = g THEN TRUE ELSE IF x = p THEN FALSE ELSE tree.red[x]
  <2>1. /\ g \in B[tree.root] /\ p = tree.link[g][Other(o)] /\ Shape(tree, B)
        /\ TiltAt(tree, B[tree.root], H, Nil, s, e, g, p, o)
    BY <1>2, <1>4, <1>11 DEF S
  <2>2. TiltedAs(tree, B[tree.root], Nil, s, e, g, p, o)
    BY <1>4, <2>1, Tilt
  <2> QED
    BY <2>2 DEF TiltedAs, S
<1>13. PICK G : Heights(G) /\ Levels(tree', S, G, Nil, s)
  BY <1>5, <1>12
<1>14. tree'.red[e]
  BY <1>2, <1>3, <1>5, <1>8, <1>12
<1>15. Levels(tree', S, G, ShortAt(tree', fix'), SideOf(tree', fix'.elm, fix'.parent))
  <2>1. ShortAt(tree', fix') = Nil
    BY <1>6 DEF ShortAt
  <2> QED
    BY <1>7, <1>13, <2>1, NoneShort
<1> QED
  BY <1>5, <1>6, <1>12, <1>13, <1>14, <1>15 DEF Poised, S

\* The root is painted black.
LEMMA EndInsertPoised ==
  ASSUME NEW B, Held(B), NEW H, Poised(tree, B[tree.root], fix, H), EndInsert
  PROVE  \E G : Poised(tree', B[tree.root], fix', G)
<1> DEFINE r == tree.root
           S == B[r]
           G == [H EXCEPT ![r] = H[r] + Black(tree', r) - Black(tree, r)]
<1>1. fix.op = "insert" /\ ~ IsRed(tree, Parent) /\ fix' = NoFix
      /\ tree' = [tree EXCEPT !.red[r] = FALSE]
  BY DEF EndInsert
<1>2. Shape(tree, B) /\ fix.elm \in S
  BY <1>1 DEF Held, FixAt, NoFix
<1>3. /\ \A x \in S, y \in Side : tree.link[x][y] \in Ptr /\ tree.link[x][y] # x
      /\ \A x \in S, y \in Side : tree.link[x][y] # Nil =>
           tree.link[x][y] # r /\ tree.parent[tree.link[x][y]] = x
      /\ S \in SUBSET Node /\ tree \in Tree /\ \A x \in S : x # Nil /\ x \in Ptr /\ x \in Node
  BY <1>2, Places
<1>4. r \in Node /\ r \in S
  <2>1. r \in Ptr /\ r # Nil
    BY <1>2, <1>3 DEF Tree, Shape, Subtrees
  <2> QED
    BY <1>2, <2>1, SubtreeIs, Sides DEF Ptr
<1>5. /\ Heights(H) /\ Even(tree, S, H) /\ Calm(tree, S, fix.elm, FALSE)
  BY <1>1, <1>3, EvenIs DEF Poised
<1> HIDE DEF r, S
<1>6. /\ tree' \in Tree /\ tree'.root = r /\ tree'.link = tree.link
      /\ \A x \in Node : tree'.red[x] = IF x = r THEN FALSE ELSE tree.red[x]
  BY <1>1, <1>3, <1>4 DEF Tree, r
<1>7. /\ G \in [Ptr -> Nat] /\ G[r] = H[r] + Black(tree', r) - Black(tree, r) /\ G[Nil] = 0
      /\ \A x \in Ptr : x # r => G[x] = H[x]
  <2>1. H[r] \in Nat /\ Black(tree', r) = 1 /\ Black(tree, r) \in {0, 1}
    BY <1>3, <1>4, <1>5, <1>6 DEF Heights, Black
  <2> QED
    BY <1>3, <1>4, <1>5, <2>1, NilIs DEF Heights
<1> HIDE DEF G
<1>8. ASSUME NEW x \in S, NEW y \in Side PROVE G[x] = G[tree.link[x][y]] + Black(tree', x)
  <2>1. H[x] = H[tree.link[x][y]] + Black(tree, x) /\ H[tree.link[x][y]] \in Nat
    BY <1>3, <1>5 DEF Even, Heights
  <2>2. tree.link[x][y] \in Ptr /\ tree.link[x][y] # r /\ x \in Node /\ x \in Ptr
    BY <1>3, <1>4
  <2>3. G[tree.link[x][y]] = H[tree.link[x][y]]
    BY <1>7, <2>2
  <2>4. CASE x = r
    <3>1. Black(tree', x) \in {0, 1} /\ Black(tree, x) \in {0, 1}
      BY DEF Black
    <3> QED
      BY <1>7, <2>1, <2>3, <2>4, <3>1
  <2>5. CASE x # r
    <3>1. Black(tree', x) = Black(tree, x)
      BY <1>6, <2>2, <2>5 DEF Black
    <3> QED
      BY <1>7, <2>1, <2>2, <2>3, <2>5, <3>1
  <2> QED
    BY <2>4, <2>5
<1>9. Even(tree', S, G) /\ Heights(G)
  BY <1>6, <1>7, <1>8 DEF Even, Heights
<1>10. fix'.op = "none" /\ fix'.elm = Nil
  BY <1>1 DEF NoFix
<1>11. Levels(tree', S, G, ShortAt(tree', fix'), SideOf(tree', fix'.elm, fix'.parent))
  BY <1>3, <1>6, <1>9, <1>10, EvenIs
<1>12. Calm(tree', S, Nil, FALSE)
  <2>1. ~ IsRed(tree', tree'.root)
    BY <1>4, <1>6 DEF IsRed
  <2>2. ASSUME NEW x \in S, NEW y \in Side PROVE Ease(tree', Nil, FALSE, x, tree.link[x][y])
    <3> DEFINE c == tree.link[x][y]
    <3>1. SUFFICES ASSUME tree'.red[x], IsRed(tree', c) PROVE FALSE
      BY DEF Ease
    <3>2. c \in Ptr /\ x \in Node /\ Ease(tree, fix.elm, FALSE, x, c)
      BY <1>3, <1>5 DEF Calm
    <3>3. c # Nil /\ c \in Node /\ x # r /\ tree.red[x] /\ IsRed(tree, c)
      BY <1>6, <3>1, <3>2 DEF IsRed, Ptr
    <3>4. c = fix.elm /\ tree.parent[c] = x
      BY <1>3, <3>2, <3>3 DEF Ease
    <3>5. Parent = x /\ IsRed(tree, Parent)
      BY <1>3, <3>3, <3>4 DEF Parent, IsRed
    <3> QED
      BY <1>1, <3>5
  <2> QED
    BY <1>6, <2>1, <2>2 DEF Calm
<1> QED
  BY <1>9, <1>10, <1>11, <1>12 DEF Poised, S, r

\* Where no red node has a red child, any may be excepted.
LEMMA CalmAnyway ==
  ASSUME NEW t, NEW S, Calm(t, S, Nil, FALSE), NEW e, NEW d
  PROVE  Calm(t, S, e, d)
BY DEF Calm, Ease, IsRed

\* Where a black node is lacking there is a sibling, one higher.
LEMMA ShortIs ==
  ASSUME NEW t, NEW B, Shape(t, B), NEW H, Heights(H), NEW p \in B[t.root], NEW s \in Side,
         Levels(t, B[t.root], H, p, s)
  PROVE  /\ t.link[p][Other(s)] # Nil /\ H[t.link[p][Other(s)]] = H[t.link[p][s]] + 1
         /\ H[p] = H[t.link[p][s]] + 1 + Black(t, p)
         /\ H[t.link[p][s]] \in Nat
         /\ SideOf(t, t.link[p][s], p) = s /\ t.link[p][s] # t.root
<1> DEFINE e == t.link[p][s]
           w == t.link[p][Other(s)]
<1>1. e \in Ptr /\ w \in Ptr /\ Other(s) \in Side /\ Other(s) # s
  BY Places, Sides
<1>2. H[e] \in Nat /\ H[w] \in Nat /\ H[Nil] = 0
  BY <1>1 DEF Heights
<1>3. H[p] = H[e] + 1 + Black(t, p) /\ H[p] = H[w] + 0 + Black(t, p)
  <2>1. Level(t, H, p, s, p, s) /\ Level(t, H, p, s, p, Other(s))
    BY <1>1 DEF Levels
  <2>2. Lack(p, s, p, s) = 1 /\ Lack(p, s, p, Other(s)) = 0
    BY <1>1 DEF Lack
  <2> QED
    BY <2>1, <2>2 DEF Level
<1> HIDE DEF e, w
<1>4. Black(t, p) \in Nat
  BY DEF Black
<1>5. H[w] = H[e] + 1
  BY <1>2, <1>3, <1>4
<1>6. w # Nil
  BY <1>2, <1>5
<1>7. SideOf(t, e, p) = s
  BY <1>6, Twins DEF e, w
<1>8. e # t.root
  <2>1. t.root # Nil
    BY NilIs DEF Shape, Subtrees
  <2> QED
    BY <2>1, Places DEF e
<1> QED
  BY <1>2, <1>3, <1>5, <1>6, <1>7, <1>8 DEF e, w

LEMMA StaysShort ==
  ASSUME NEW t, NEW B, Shape(t, B), NEW H, Heights(H), NEW p \in B[t.root], NEW s \in Side,
         Levels(t, B[t.root], H, p, s),
         NEW f, f.op = "remove", f.parent = p, t.link[p][s] = f.elm, Calm(t, B[t.root], Nil, FALSE)
  PROVE  Poised(t, B[t.root], f, H)
<1>1. SideOf(t, f.elm, f.parent) = s /\ f.elm # t.root
  BY ShortIs
<1>2. ShortAt(t, f) = p
  BY <1>1 DEF ShortAt
<1>3. Calm(t, B[t.root], f.elm, f.op = "remove")
  BY CalmAnyway
<1> QED
  BY <1>1, <1>2, <1>3 DEF Poised

LEMMA HangingPoised ==
  ASSUME NEW B, Held(B), NEW H, Poised(tree, B[tree.root], fix, H), NEW s \in Side, Hanging(s)
  PROVE  /\ Shape(tree, B) /\ fix \in [op : {"remove"}, elm : Ptr, parent : Ptr]
         /\ fix.parent \in B[tree.root] /\ tree.link[fix.parent][s] = fix.elm
         /\ Heights(H) /\ Levels(tree, B[tree.root], H, fix.parent, s)
         /\ ~ IsRed(tree, tree.root) /\ ~ IsRed(tree, fix.elm)
         /\ \A x \in B[tree.root], y \in Side : Ease(tree, Nil, FALSE, x, tree.link[x][y])
<1>1. /\ Shape(tree, B) /\ fix \in [op : {"remove"}, elm : Ptr, parent : Ptr]
      /\ fix.elm # tree.root
      /\ fix.parent \in B[tree.root] /\ tree.link[fix.parent][s] = fix.elm
  BY HangingIs
<1>2. /\ fix.op = "remove" /\ ~ IsRed(tree, fix.elm)
      /\ s = SideOf(tree, fix.elm, fix.parent)
  BY DEF Hanging, Short
<1>3. ShortAt(tree, fix) = fix.parent
  BY <1>1, <1>2 DEF ShortAt
<1>4. /\ Heights(H) /\ Levels(tree, B[tree.root], H, fix.parent, s)
      /\ Calm(tree, B[tree.root], fix.elm, TRUE)
  BY <1>2, <1>3 DEF Poised
<1>5. ~ IsRed(tree, tree.root)
  BY <1>1, <1>4 DEF Calm
<1>6. ASSUME NEW x \in B[tree.root], NEW y \in Side
      PROVE  Ease(tree, Nil, FALSE, x, tree.link[x][y])
  <2>1. x # Nil
    BY <1>1, Places
  <2>2. Ease(tree, fix.elm, TRUE, x, tree.link[x][y])
    BY <1>4 DEF Calm
  <2> QED
    BY <1>2, <2>1, <2>2 DEF Ease, IsRed
<1> QED
  BY <1>1, <1>2, <1>4, <1>5, <1>6

\* A red sibling rises above the parent.
LEMMA RedSiblingPoised ==
  ASSUME NEW B, Held(B), NEW H, Poised(tree, B[tree.root], fix, H), NEW s \in Side,
         RedSibling(s)
  PROVE  \E G : Poised(tree', B[tree.root], fix', G)
<1> DEFINE p == fix.parent
           e == fix.elm
           o == Other(s)
           S == B[tree.root]
           w == tree.link[p][o]
           c == tree.link[w][s]
<1>1. Hanging(s) /\ IsRed(tree, w) /\ tree' = Tilted(tree, p, w, s) /\ fix' = fix
  BY DEF RedSibling, Sibling, Tilted
<1>2. /\ Shape(tree, B) /\ fix \in [op : {"remove"}, elm : Ptr, parent : Ptr]
      /\ p \in S /\ tree.link[p][s] = e
      /\ Heights(H) /\ Levels(tree, S, H, p, s)
      /\ ~ IsRed(tree, tree.root) /\ ~ IsRed(tree, e)
      /\ \A x \in S, y \in Side : Ease(tree, Nil, FALSE, x, tree.link[x][y])
  <2>1. Hanging(s)
    BY <1>1
  <2> QED
    BY <2>1, HangingPoised
<1>3. o \in Side /\ o # s /\ Other(o) = s /\ w # Nil /\ tree.red[w]
  BY <1>1, Sides DEF IsRed
<1>4. /\ w \in S /\ w # p /\ p # Nil /\ p \in Node /\ w \in Node
      /\ e # p /\ c \in Ptr /\ c # p
  BY <1>2, <1>3, Places, NoCycle
<1> HIDE DEF p, e, S, w, c
<1>5. ~ tree.red[p] /\ ~ IsRed(tree, c)
  <2>1. Ease(tree, Nil, FALSE, p, w) /\ Ease(tree, Nil, FALSE, w, c)
    BY <1>2, <1>3, <1>4 DEF w, c
  <2> QED
    BY <1>1, <1>3, <2>1 DEF Ease, IsRed
<1>6. TiltAt(tree, S, H, p, s, Nil, p, w, s)
  BY <1>2, <1>3, <1>4, <1>5 DEF TiltAt, c
<1>7. TiltedAs(tree, S, p, s, Nil, p, w, s)
  <2>1. /\ p \in B[tree.root] /\ w = tree.link[p][Other(s)]
        /\ TiltAt(tree, B[tree.root], H, p, s, Nil, p, w, s)
    BY <1>2, <1>6 DEF S, w
  <2>2. TiltedAs(tree, B[tree.root], p, s, Nil, p, w, s)
    BY <1>2, <1>3, <2>1, Tilt
  <2> QED
    BY <2>2 DEF S
<1>8. PICK G : Heights(G) /\ Levels(tree', S, G, p, s)
  BY <1>1, <1>7 DEF TiltedAs
<1>9. Calm(tree', S, Nil, FALSE)
  BY <1>1, <1>7 DEF TiltedAs
<1>10. PICK C : Reshaped(C, S)
  BY RedSiblingStep DEF S
<1>11. Shape(tree', C) /\ C[tree'.root] = S
  BY <1>10 DEF Reshaped
<1>12. tree'.link[p][s] = e
  <2> DEFINE t == BlackRed(tree, w, p)
  <2>1. t.root = tree.root /\ t.link = tree.link /\ t \in Tree /\ t.parent = tree.parent
    BY <1>2, <1>4, PaintedIs, Places
  <2> HIDE DEF t
  <2>2. Shape(t, B) /\ p \in B[t.root] /\ w = t.link[p][Other(s)]
    BY <1>2, <2>1, Recoloured DEF S, w
  <2>3. Rotated(t, Rotate(t, p, s), p, s, w, t.link[w][s], t.parent[p])
    BY <1>3, <2>2, RotateShape
  <2>4. t.parent[p] # p
    BY <2>2, PlaceIs
  <2>5. tree' = Rotate(t, p, s)
    BY <1>1 DEF Tilted, t
  <2>6. Rotate(t, p, s).link[p][s] = t.link[p][s]
    BY <1>3, <1>4, <2>3, <2>4 DEF Rotated
  <2> QED
    BY <1>2, <2>1, <2>5, <2>6
<1>13. Poised(tree', S, fix', G)
  <2>1. fix'.op = "remove" /\ fix'.parent = p /\ fix'.elm = e
    BY <1>1, <1>2 DEF p, e
  <2>2. Poised(tree', C[tree'.root], fix', G)
    BY <1>4, <1>2, <1>8, <1>9, <1>11, <1>12, <2>1, StaysShort
  <2> QED
    BY <1>11, <2>2
<1> QED
  BY <1>13 DEF S

\* The inner child of the sibling rises above it.
LEMMA InnerNephewPoised ==
  ASSUME NEW B, Held(B), NEW H, Poised(tree, B[tree.root], fix, H), NEW s \in Side,
         InnerNephew(s)
  PROVE  \E G : Poised(tree', B[tree.root], fix', G)
<1> DEFINE p == fix.parent
           e == fix.elm
           o == Other(s)
           S == B[tree.root]
           w == tree.link[p][o]
           m == tree.link[w][s]
           a == tree.link[w][o]
           c == tree.link[m][o]
<1>1. /\ Hanging(s) /\ w # Nil /\ ~ IsRed(tree, w) /\ ~ IsRed(tree, a) /\ IsRed(tree, m)
      /\ tree' = Tilted(tree, w, m, o) /\ fix' = fix
  BY DEF InnerNephew, BlackSibling, Sibling, Inner, Outer, Tilted
<1>2. /\ Shape(tree, B) /\ fix \in [op : {"remove"}, elm : Ptr, parent : Ptr]
      /\ p \in S /\ tree.link[p][s] = e
      /\ Heights(H) /\ Levels(tree, S, H, p, s)
      /\ ~ IsRed(tree, tree.root) /\ ~ IsRed(tree, e)
      /\ \A x \in S, y \in Side : Ease(tree, Nil, FALSE, x, tree.link[x][y])
  <2>1. Hanging(s)
    BY <1>1
  <2> QED
    BY <2>1, HangingPoised
<1>3. o \in Side /\ o # s /\ Other(o) = s /\ m # Nil /\ tree.red[m] /\ ~ tree.red[w]
  BY <1>1, Sides DEF IsRed
<1>4. /\ w \in S /\ w # p /\ p # Nil /\ p \in Node /\ w \in Node /\ w # tree.root
      /\ tree.parent[w] = p
  <2>0. p \in B[tree.root] /\ o \in Side /\ tree.link[p][o] # Nil /\ Shape(tree, B)
    BY <1>1, <1>2, <1>3
  <2> HIDE DEF p, o
  <2>1. w \in S /\ w # p /\ w # tree.root /\ tree.parent[w] = p
    BY <2>0, Places
  <2> HIDE DEF w
  <2>2. p \in Node /\ p # Nil /\ w \in Node
    BY <2>0, <2>1, Places
  <2> QED
    BY <2>1, <2>2
<1>5. m \in S /\ m # p /\ m # w /\ m \in Node /\ c \in Ptr
  <2>1. m # p
    BY <1>1, <1>2, <1>3, NoCycle
  <2> HIDE DEF w, p
  <2>2. m \in S /\ m # w
    BY <1>2, <1>3, <1>4, Places
  <2> HIDE DEF m
  <2>3. m \in Node /\ c \in Ptr
    BY <1>2, <1>3, <2>2, Places
  <2> QED
    BY <2>1, <2>2, <2>3
<1> HIDE DEF p, e, S, w, m, a, c
<1>6. ~ IsRed(tree, c)
  <2>1. Ease(tree, Nil, FALSE, m, c)
    BY <1>2, <1>3, <1>5 DEF c
  <2> QED
    BY <1>3, <2>1 DEF Ease, IsRed
<1>7. TiltAt(tree, S, H, p, s, Nil, w, m, o)
  BY <1>1, <1>2, <1>3, <1>4, <1>5, <1>6 DEF TiltAt, a, c
<1>8. TiltedAs(tree, S, p, s, Nil, w, m, o)
  <2>1. /\ w \in B[tree.root] /\ m = tree.link[w][Other(o)]
        /\ TiltAt(tree, B[tree.root], H, p, s, Nil, w, m, o)
    BY <1>3, <1>4, <1>7 DEF S, m
  <2> HIDE DEF o
  <2>2. TiltedAs(tree, B[tree.root], p, s, Nil, w, m, o)
    BY <1>2, <1>3, <2>1, Tilt
  <2> QED
    BY <2>2 DEF S
<1>9. PICK G : Heights(G) /\ Levels(tree', S, G, p, s)
  BY <1>1, <1>8 DEF TiltedAs
<1>10. Calm(tree', S, Nil, FALSE)
  BY <1>1, <1>8 DEF TiltedAs
<1>11. PICK C : Reshaped(C, S)
  BY InnerNephewStep DEF S
<1>12. Shape(tree', C) /\ C[tree'.root] = S
  BY <1>11 DEF Reshaped
<1>13. tree'.link[p][s] = e
  <2> DEFINE t == BlackRed(tree, m, w)
  <2>1. t.root = tree.root /\ t.link = tree.link /\ t \in Tree /\ t.parent = tree.parent
    BY <1>2, <1>4, <1>5, PaintedIs, Places
  <2> HIDE DEF t
  <2>2. Shape(t, B) /\ w \in B[t.root] /\ m = t.link[w][Other(o)] /\ t.parent[w] = p
    BY <1>2, <1>3, <1>4, <2>1, Recoloured DEF S, m
  <2>3. Rotated(t, Rotate(t, w, o), w, o, m, t.link[m][o], p)
    <3> HIDE DEF o
    <3>1. Rotated(t, Rotate(t, w, o), w, o, m, t.link[m][o], t.parent[w])
      BY <1>3, <2>2, RotateShape
    <3> QED
      BY <2>2, <3>1
  <2>4. SideOf(t, w, p) = o
    BY <1>3, <1>4, <2>1, <2>2, PlaceIs DEF w
  <2>5. tree' = Rotate(t, w, o)
    BY <1>1 DEF Tilted, t
  <2>6. Rotate(t, w, o).link[p][s] = t.link[p][s]
    BY <1>3, <1>4, <1>5, <2>3, <2>4 DEF Rotated
  <2> QED
    BY <1>2, <2>1, <2>5, <2>6
<1>14. Poised(tree', S, fix', G)
  <2>1. fix'.op = "remove" /\ fix'.parent = p /\ fix'.elm = e
    BY <1>1, <1>2 DEF p, e
  <2>2. Poised(tree', C[tree'.root], fix', G)
    BY <1>4, <1>2, <1>9, <1>10, <1>12, <1>13, <2>1, StaysShort
  <2> QED
    BY <1>12, <2>2
<1> QED
  BY <1>14 DEF S

\* The sibling is painted red, and the parent now lacks a black node.
LEMMA BlackNephewsPoised ==
  ASSUME NEW B, Held(B), NEW H, Poised(tree, B[tree.root], fix, H), NEW s \in Side,
         BlackNephews(s)
  PROVE  \E G : Poised(tree', B[tree.root], fix', G)
<1> DEFINE p == fix.parent
           e == fix.elm
           o == Other(s)
           S == B[tree.root]
           w == tree.link[p][o]
           G == [H EXCEPT ![w] = H[e], ![p] = H[e] + Black(tree, p)]
           q == ShortAt(tree', fix')
           z == SideOf(tree', fix'.elm, fix'.parent)
<1>1. /\ Hanging(s) /\ w # Nil /\ ~ IsRed(tree, w)
      /\ \A y \in Side : ~ IsRed(tree, tree.link[w][y])
      /\ tree' = [tree EXCEPT !.red[w] = TRUE]
      /\ fix' = [fix EXCEPT !.elm = p, !.parent = tree.parent[p]]
  <2>1. /\ Hanging(s) /\ w # Nil /\ ~ IsRed(tree, w)
        /\ ~ IsRed(tree, tree.link[w][s]) /\ ~ IsRed(tree, tree.link[w][o])
        /\ tree' = [tree EXCEPT !.red[w] = TRUE]
        /\ fix' = [fix EXCEPT !.elm = p, !.parent = tree.parent[p]]
    BY DEF BlackNephews, BlackSibling, Sibling, Inner, Outer
  <2> QED
    BY <2>1, Sides
<1>2. /\ Shape(tree, B) /\ fix \in [op : {"remove"}, elm : Ptr, parent : Ptr]
      /\ p \in S /\ tree.link[p][s] = e
      /\ Heights(H) /\ Levels(tree, S, H, p, s)
      /\ ~ IsRed(tree, tree.root) /\ ~ IsRed(tree, e)
      /\ \A x \in S, y \in Side : Ease(tree, Nil, FALSE, x, tree.link[x][y])
  <2>1. Hanging(s)
    BY <1>1
  <2> QED
    BY <2>1, HangingPoised
<1>3. o \in Side /\ o # s /\ Other(o) = s
  BY Sides
<1>4. /\ H[w] = H[e] + 1 /\ H[p] = H[e] + 1 + Black(tree, p) /\ H[e] \in Nat
  BY <1>2, ShortIs
<1>5. w \in S /\ w # p /\ w # tree.root /\ tree.parent[w] = p
  <2>1. p \in B[tree.root] /\ o \in Side /\ tree.link[p][o] # Nil
    BY <1>1, <1>2, <1>3
  <2> HIDE DEF p, o
  <2> QED
    BY <1>2, <2>1, Places
<1>6. /\ tree \in Tree /\ \A x \in S : x \in Node /\ x \in Ptr /\ x # Nil
      /\ \A x \in S, y \in Side : tree.link[x][y] \in Ptr /\ tree.link[x][y] # x
      /\ \A x \in S, y \in Side : tree.link[x][y] = w => x = p
      /\ \A x \in S, y \in Side : tree.link[x][y] # Nil => tree.link[x][y] # tree.root
  <2>1. /\ tree \in Tree /\ \A x \in S : x \in Node /\ x \in Ptr /\ x # Nil
        /\ \A x \in S, y \in Side : tree.link[x][y] \in Ptr /\ tree.link[x][y] # x
        /\ \A x \in S, y \in Side : tree.link[x][y] # Nil =>
             tree.parent[tree.link[x][y]] = x /\ tree.link[x][y] # tree.root
    BY <1>2, Places
  <2> HIDE DEF w, p, S
  <2> QED
    BY <1>1, <1>5, <2>1
<1>7. \A y \in Side : tree.link[w][y] # p
  BY <1>1, <1>2, <1>3, NoCycle
<1>8. e # w /\ e # p /\ e \in Ptr
  <2>1. e # w
    BY <1>1, <1>2, Twins
  <2> QED
    BY <1>2, <1>6, <2>1
<1>9. w = tree.link[p][o]
  OBVIOUS
<1>10. fix'.op = "remove" /\ fix'.elm = p /\ fix'.parent = tree.parent[p]
  BY <1>1, <1>2
<1>11. /\ \A x \in Node, y \in Side : tree.link[x][y] = p =>
            x = tree.parent[p] /\ y = SideOf(tree, p, tree.parent[p])
       /\ p # tree.root =>
            /\ tree.parent[p] \in Node
            /\ tree.link[tree.parent[p]][SideOf(tree, p, tree.parent[p])] = p
  <2>1. p \in B[tree.root]
    BY <1>2
  <2> HIDE DEF p, S
  <2> QED
    BY <1>2, <2>1, PlaceIs
<1> HIDE DEF p, e, o, S, w
<1>12. /\ tree' \in Tree /\ tree'.root = tree.root /\ tree'.link = tree.link
       /\ tree'.parent = tree.parent
       /\ \A x \in Node : tree'.red[x] = IF x = w THEN TRUE ELSE tree.red[x]
  BY <1>1, <1>5, <1>6 DEF Tree
<1>13. \A x \in S, y \in Side : x = q /\ y = z <=> tree.link[x][y] = p
  <2>1. z = SideOf(tree, p, tree.parent[p])
    BY <1>10, <1>12 DEF SideOf
  <2>2. q = IF p = tree.root THEN Nil ELSE tree.parent[p]
    BY <1>10, <1>12 DEF ShortAt
  <2> HIDE DEF q, z
  <2> QED
    BY <1>2, <1>6, <1>11, <2>1, <2>2
<1> HIDE DEF q, z
<1>14. /\ G \in [Ptr -> Nat] /\ G[w] = H[e] /\ G[p] = H[e] + Black(tree, p)
       /\ \A x \in Ptr : x # p /\ x # w => G[x] = H[x]
       /\ G[Nil] = 0
  <2>1. Black(tree, p) \in Nat
    BY DEF Black
  <2> QED
    BY <1>2, <1>4, <1>5, <1>6, <2>1, NilIs DEF Heights
<1> HIDE DEF G
<1>15. ASSUME NEW x \in S, NEW y \in Side PROVE Level(tree', G, q, z, x, y)
  <2> DEFINE c == tree.link[x][y]
  <2>1. x \in Node /\ x \in Ptr /\ c \in Ptr /\ c # x /\ H[c] \in Nat /\ H[x] \in Nat
    BY <1>2, <1>6 DEF Heights
  <2>2. H[x] = H[c] + Lack(p, s, x, y) + Black(tree, x)
    BY <1>2 DEF Levels, Level
  <2>3. Black(tree', x) = IF x = w THEN 0 ELSE Black(tree, x)
    BY <1>12, <2>1 DEF Black
  <2>4. Lack(q, z, x, y) = IF c = p THEN 1 ELSE 0
    BY <1>13 DEF Lack
  <2>5. Black(tree, x) \in Nat
    BY DEF Black
  <2> SUFFICES G[x] = G[c] + Lack(q, z, x, y) + Black(tree', x)
    BY <1>12 DEF Level
  <2>6. CASE x = p
    <3>1. c = e \/ c = w
      BY <1>2, <1>3, <1>9, <2>6, Sides
    <3>2. G[c] = H[e] /\ c # p
      BY <1>8, <1>14, <2>1, <2>6, <3>1
    <3> QED
      BY <1>4, <1>5, <1>14, <2>3, <2>4, <2>5, <2>6, <3>2
  <2>7. CASE x = w
    <3>1. c # p /\ c # w /\ G[c] = H[c]
      BY <1>7, <1>14, <2>1, <2>7
    <3>2. Lack(p, s, x, y) = 0 /\ Black(tree, x) = 1
      BY <1>1, <1>5, <1>6, <2>7 DEF Lack, Black, IsRed
    <3> QED
      BY <1>4, <1>14, <2>1, <2>2, <2>3, <2>4, <2>7, <3>1, <3>2
  <2>8. CASE x # p /\ x # w
    <3>1. c # w /\ G[x] = H[x] /\ Lack(p, s, x, y) = 0
      BY <1>6, <1>14, <2>1, <2>8 DEF Lack
    <3>2. CASE c = p
      <4>1. Black(tree, p) \in Nat
        BY DEF Black
      <4>2. /\ H[x] = H[p] + Black(tree, x) /\ G[c] = H[e] + Black(tree, p)
            /\ Black(tree', x) = Black(tree, x) /\ Lack(q, z, x, y) = 1
        BY <1>14, <2>1, <2>2, <2>3, <2>4, <2>5, <2>8, <3>1, <3>2
      <4> QED
        BY <1>4, <2>5, <3>1, <4>1, <4>2
    <3>3. CASE c # p
      <4>1. G[c] = H[c]
        BY <1>14, <2>1, <3>1, <3>3
      <4> QED
        BY <2>1, <2>2, <2>3, <2>4, <2>5, <2>8, <3>1, <3>3, <4>1
    <3> QED
      BY <3>2, <3>3
  <2> QED
    BY <2>6, <2>7, <2>8
<1>16. Calm(tree', S, p, TRUE)
  <2>1. ~ IsRed(tree', tree'.root)
    BY <1>2, <1>5, <1>6, <1>12 DEF IsRed, Tree, Ptr
  <2>2. ASSUME NEW x \in S, NEW y \in Side PROVE Ease(tree', p, TRUE, x, tree.link[x][y])
    <3> DEFINE c == tree.link[x][y]
    <3>1. SUFFICES ASSUME tree'.red[x], IsRed(tree', c), x # p PROVE FALSE
      BY DEF Ease
    <3>2. x \in Node /\ c \in Ptr /\ c # Nil /\ c # w /\ c \in Node /\ IsRed(tree, c)
      <4>1. x \in Node /\ c \in Ptr
        BY <1>6
      <4>2. c # Nil /\ tree'.red[c]
        BY <3>1 DEF IsRed
      <4>3. c \in Node
        <5> HIDE DEF c
        <5> QED
          BY <4>1, <4>2 DEF Ptr
      <4>4. c # w
        BY <1>6, <3>1
      <4>5. tree.red[c]
        <5> HIDE DEF c
        <5> QED
          BY <1>12, <4>2, <4>3, <4>4
      <4>6. x \in Node /\ c \in Ptr /\ c # Nil /\ c # w /\ c \in Node
        BY <4>1, <4>2, <4>3, <4>4
      <4> QED
        BY <4>2, <4>5, <4>6 DEF IsRed
    <3>3. x # w
      BY <1>1, <3>2
    <3>4. tree.red[x] /\ Ease(tree, Nil, FALSE, x, c)
      BY <1>2, <1>12, <3>1, <3>2, <3>3
    <3> QED
      BY <3>2, <3>4 DEF Ease
  <2> QED
    BY <1>12, <2>1, <2>2 DEF Calm
<1>17. Heights(G) /\ Levels(tree', S, G, q, z)
  BY <1>14, <1>15 DEF Heights, Levels
<1> QED
  BY <1>10, <1>16, <1>17 DEF Poised, S, q, z

\* The sibling rises above the parent and its red child makes up for what is lacking.
LEMMA OuterNephewPoised ==
  ASSUME NEW B, Held(B), NEW H, Poised(tree, B[tree.root], fix, H), NEW s \in Side,
         OuterNephew(s)
  PROVE  \E G : Poised(tree', B[tree.root], fix', G)
<1> DEFINE p == fix.parent
           e == fix.elm
           o == Other(s)
           S == B[tree.root]
           w == tree.link[p][o]
           c == tree.link[w][s]
           d == tree.link[w][o]
           t == [tree EXCEPT !.red[w] = tree.red[p], !.red[p] = FALSE, !.red[d] = FALSE]
           h == H[e] + 1
           G == [H EXCEPT ![d] = h]
<1>1. /\ Hanging(s) /\ w # Nil /\ ~ IsRed(tree, w) /\ IsRed(tree, d)
      /\ tree' = Rotate(t, p, s) /\ fix' = [fix EXCEPT !.elm = tree'.root]
  BY DEF OuterNephew, BlackSibling, Sibling, Outer
<1>2. /\ Shape(tree, B) /\ fix \in [op : {"remove"}, elm : Ptr, parent : Ptr]
      /\ p \in S /\ tree.link[p][s] = e
      /\ Heights(H) /\ Levels(tree, S, H, p, s)
      /\ ~ IsRed(tree, tree.root) /\ ~ IsRed(tree, e)
      /\ \A x \in S, y \in Side : Ease(tree, Nil, FALSE, x, tree.link[x][y])
  <2>1. Hanging(s)
    BY <1>1
  <2> QED
    BY <2>1, HangingPoised
<1>3. o \in Side /\ o # s /\ Other(o) = s
  BY Sides
<1>4. /\ H[w] = H[e] + 1 /\ H[p] = H[e] + 1 + Black(tree, p) /\ H[e] \in Nat
  BY <1>2, ShortIs
<1>5. w \in S /\ w # p /\ w # tree.root /\ tree.parent[w] = p
  <2>1. p \in B[tree.root] /\ o \in Side /\ tree.link[p][o] # Nil
    BY <1>1, <1>2, <1>3
  <2> HIDE DEF p, o
  <2> QED
    BY <1>2, <2>1, Places
<1>6. \A y \in Side : tree.link[w][y] # p
  <2>1. p \in B[tree.root] /\ o \in Side /\ tree.link[p][o] # Nil /\ Shape(tree, B)
    <3> HIDE DEF p, o, t, h, G, c, d, e
    <3> QED
      BY <1>1, <1>2, <1>3
  <2> HIDE DEF p, o
  <2> QED
    BY <2>1, NoCycle
<1>7. e # w
  <2>1. /\ p \in B[tree.root] /\ tree.link[p][Other(s)] # Nil /\ Shape(tree, B)
        /\ tree.link[p][s] = e /\ w = tree.link[p][Other(s)]
    BY <1>1, <1>2
  <2> HIDE DEF p, e, w
  <2> QED
    BY <2>1, Twins
<1>8. w = tree.link[p][o] /\ d = tree.link[w][o] /\ c = tree.link[w][s] /\ d # Nil /\ tree.red[d]
  BY <1>1 DEF IsRed
<1>9. c # d
  <2>1. w \in B[tree.root] /\ tree.link[w][Other(s)] # Nil
    BY <1>5, <1>8
  <2> HIDE DEF w
  <2> QED
    BY <1>2, <2>1, Twins
<1>10. \A y \in Side : tree.link[d][y] # w
  <2>1. w \in B[tree.root] /\ tree.link[w][o] # Nil /\ o \in Side
    BY <1>3, <1>5, <1>8
  <2> HIDE DEF w, o
  <2> QED
    BY <1>2, <2>1, NoCycle
<1>11. /\ tree \in Tree /\ tree.root \in Ptr /\ \A x \in S : x \in Node /\ x \in Ptr /\ x # Nil
       /\ \A x \in S, y \in Side : tree.link[x][y] \in Ptr /\ tree.link[x][y] # x
       /\ \A x \in S, y \in Side : tree.link[x][y] # Nil =>
            tree.parent[tree.link[x][y]] = x /\ tree.link[x][y] # tree.root /\ tree.link[x][y] \in S
  BY <1>2, Places
<1>12. p # tree.root => tree.parent[p] \in S /\ \E y \in Side : tree.link[tree.parent[p]][y] = p
  <2>1. p \in B[tree.root]
    BY <1>2
  <2> HIDE DEF p
  <2> QED
    BY <1>2, <2>1, PlaceIs, SideOfIs
<1> HIDE DEF p, e, o, S, w, c, d
<1>13. d \in S /\ d # w /\ d # p /\ d \in Node /\ p \in Node /\ w \in Node /\ e # d /\ e # p
       /\ e \in Ptr /\ c \in Ptr /\ c # w /\ c # p /\ tree.parent[d] = w /\ tree.parent[w] = p
  <2>1. d \in S /\ d # w /\ d \in Ptr /\ c \in Ptr /\ c # w /\ tree.parent[d] = w
    BY <1>3, <1>5, <1>8, <1>11
  <2>2. d # p /\ c # p
    BY <1>3, <1>6, <1>8
  <2>3. e \in Ptr /\ e # p /\ (e # Nil => tree.parent[e] = p)
    BY <1>2, <1>11
  <2>4. e # d
    BY <1>5, <1>8, <2>1, <2>3
  <2> QED
    BY <1>2, <1>5, <1>11, <2>1, <2>2, <2>3, <2>4
<1>14. /\ t \in Tree /\ t.root = tree.root /\ t.link = tree.link /\ t.parent = tree.parent
       /\ \A x \in Node : t.red[x] = IF x = d \/ x = p THEN FALSE
                                     ELSE IF x = w THEN tree.red[p] ELSE tree.red[x]
  BY <1>5, <1>11, <1>13 DEF Tree
<1>15. /\ G \in [Ptr -> Nat] /\ G[d] = h /\ G[Nil] = 0
       /\ \A x \in Ptr : x # d => G[x] = H[x]
  BY <1>2, <1>4, <1>13, NilIs DEF Heights
<1> HIDE DEF t, G
<1>16. Shape(t, B) /\ S = B[t.root] /\ p \in B[t.root] /\ w = t.link[p][Other(s)]
  BY <1>2, <1>8, <1>14, Recoloured DEF S, o
<1>17. \A x \in S, y \in Side :
         /\ H[x] = H[tree.link[x][y]] + Lack(p, s, x, y) + Black(tree, x)
         /\ H[tree.link[x][y]] \in Nat /\ H[x] \in Nat
  BY <1>2, <1>11 DEF Heights, Levels, Level
<1>18. Black(t, p) = 1 /\ Black(t, w) = Black(tree, p) /\ Black(t, d) = 1 /\ Black(tree, p) \in Nat
       /\ Black(tree, w) = 1 /\ Black(tree, d) = 0
  BY <1>1, <1>5, <1>8, <1>13, <1>14 DEF Black, IsRed
<1>19. H[d] = H[e] /\ H[c] = H[e] /\ G[e] = H[e] /\ G[w] = h /\ G[c] = H[e]
       /\ G[p] = h + Black(tree, p)
  <2>1. Lack(p, s, w, s) = 0 /\ Lack(p, s, w, o) = 0
    BY <1>5 DEF Lack
  <2>2. H[w] = H[d] + 0 + 1 /\ H[w] = H[c] + 0 + 1 /\ H[d] \in Nat /\ H[c] \in Nat
    BY <1>3, <1>5, <1>8, <1>17, <1>18, <2>1
  <2>3. G[e] = H[e] /\ G[w] = H[w] /\ G[c] = H[c] /\ G[p] = H[p]
    BY <1>9, <1>11, <1>13, <1>15, NilIs
  <2> QED
    BY <1>4, <1>18, <2>2, <2>3
<1>20. TurnLevels(t, S, G, h, Nil, s, p, w, s)
  <2>1. ASSUME NEW x \in S, x # p, x # w, NEW y \in Side PROVE Level(t, G, Nil, s, x, y)
    <3> DEFINE b == tree.link[x][y]
    <3>1. /\ b \in Ptr /\ x \in Node /\ x \in Ptr /\ b # x /\ b # d /\ x # Nil
      <4>1. /\ b \in Ptr /\ x \in Node /\ x \in Ptr /\ b # x /\ x # Nil
            /\ b # Nil => tree.parent[b] = x
        BY <1>11, <2>1
      <4> QED
        BY <1>8, <1>13, <2>1, <4>1
    <3>2. G[b] = H[b] /\ Lack(p, s, x, y) = 0 /\ Lack(Nil, s, x, y) = 0
      BY <1>15, <2>1, <3>1 DEF Lack
    <3>3. H[x] = H[b] + 0 + Black(tree, x) /\ H[b] \in Nat
      BY <1>17, <3>2
    <3>4. G[x] = H[b] + Black(t, x)
      <4>1. CASE x = d
        BY <1>4, <1>15, <1>18, <1>19, <3>3, <4>1
      <4>2. CASE x # d
        <5>1. Black(t, x) = Black(tree, x) /\ Black(tree, x) \in Nat
          BY <1>14, <2>1, <3>1, <4>2 DEF Black
        <5> QED
          BY <1>15, <3>1, <3>3, <4>2, <5>1
      <4> QED
        BY <4>1, <4>2
    <3>5. Black(t, x) \in Nat
      BY DEF Black
    <3> QED
      BY <1>14, <3>2, <3>3, <3>4, <3>5 DEF Level
  <2>2. Lack(Nil, s, p, s) = 0 /\ Lack(Nil, s, p, o) = 0 /\ Lack(Nil, s, w, s) = 0
        /\ Lack(Nil, s, w, o) = 0
    BY <1>13, NilIs DEF Lack
  <2>3. t.link[p][s] = e /\ t.link[w][s] = c /\ t.link[w][o] = d
    BY <1>2, <1>8, <1>14
  <2>4. /\ h = G[t.link[p][s]] + Lack(Nil, s, p, s) + Black(t, p)
        /\ h = G[t.link[w][s]] + Lack(Nil, s, p, o) + Black(t, p)
        /\ G[p] = h + Lack(Nil, s, w, s) + Black(t, w)
        /\ G[p] = G[t.link[w][o]] + Lack(Nil, s, w, o) + Black(t, w)
        /\ h \in Nat
    BY <1>4, <1>15, <1>18, <1>19, <2>2, <2>3
  <2> QED
    BY <1>15, <2>1, <2>4 DEF TurnLevels, Heights, o
<1>21. ASSUME NEW x \in S, x # p, x # w, NEW b \in Ptr, b # p, b # w, Ease(tree, Nil, FALSE, x, b)
       PROVE  Ease(t, Nil, FALSE, x, b)
  <2>1. t.red[x] => tree.red[x]
    BY <1>11, <1>14, <1>21
  <2>2. IsRed(t, b) => IsRed(tree, b)
    BY <1>14, <1>21 DEF IsRed, Ptr
  <2> QED
    BY <1>21, <2>1, <2>2 DEF Ease
<1>22. TurnCalm(t, S, Nil, FALSE, p, w, s)
  <2>1. ~ t.red[p] /\ ~ t.red[d] /\ t.red[w] = tree.red[p]
    BY <1>5, <1>13, <1>14
  <2>2. p = t.root => ~ t.red[w]
    BY <1>2, <1>11, <1>14, <2>1 DEF IsRed
  <2>3. p # t.root => ~ IsRed(t, t.root)
    BY <1>2, <1>5, <1>11, <1>14 DEF IsRed, Ptr
  <2>4. p # t.root => Ease(t, Nil, FALSE, t.parent[p], w)
    <3> DEFINE x == tree.parent[p]
    <3>1. SUFFICES ASSUME p # tree.root, t.red[x], IsRed(t, w) PROVE FALSE
      BY <1>14 DEF Ease
    <3>2. x \in S /\ (\E y \in Side : tree.link[x][y] = p)
      BY <1>12, <3>1
    <3> HIDE DEF x
    <3>3. x # w /\ x # p /\ x # d /\ x \in Node
      <4>1. PICK y \in Side : tree.link[x][y] = p
        BY <3>2
      <4>2. x # w
        BY <1>6, <4>1
      <4>3. x # p /\ x \in Node
        BY <1>11, <3>2, <4>1
      <4>4. x # d
        BY <2>1, <3>1
      <4> QED
        BY <4>2, <4>3, <4>4
    <3>4. tree.red[x] /\ IsRed(tree, p) /\ Ease(tree, Nil, FALSE, x, p)
      <4>1. t.red[x] = tree.red[x]
        BY <1>14, <3>3
      <4>2. Ease(tree, Nil, FALSE, x, p)
        BY <1>2, <3>2
      <4>3. p # Nil
        BY <1>2, <1>11
      <4> QED
        BY <2>1, <3>1, <4>1, <4>2, <4>3 DEF IsRed
    <3> QED
      BY <1>11, <1>2, <3>4 DEF Ease
  <2>5. ASSUME NEW x \in S, x # p, x # w, NEW y \in Side, t.link[x][y] # p
        PROVE  Ease(t, Nil, FALSE, x, t.link[x][y])
    <3> DEFINE b == tree.link[x][y]
    <3>1. b \in Ptr /\ (b # Nil => tree.parent[b] = x) /\ Ease(tree, Nil, FALSE, x, b)
      BY <1>2, <1>11, <2>5
    <3>2. t.link[x][y] = b /\ b # p
      BY <1>14, <2>5
    <3> HIDE DEF b
    <3>3. b # w
      BY <1>1, <1>13, <2>5, <3>1
    <3> QED
      BY <1>21, <2>5, <3>1, <3>2, <3>3
  <2>6. /\ Ease(t, Nil, FALSE, p, t.link[p][s]) /\ Ease(t, Nil, FALSE, p, t.link[w][s])
        /\ Ease(t, Nil, FALSE, w, p) /\ Ease(t, Nil, FALSE, w, t.link[w][Other(s)])
    <3>1. t.link[w][Other(s)] = d
      BY <1>8, <1>14 DEF o
    <3> QED
      BY <2>1, <3>1 DEF Ease, IsRed
  <2> QED
    BY <2>2, <2>3, <2>4, <2>5, <2>6 DEF TurnCalm
<1> HIDE DEF h
<1>23. Heights(Risen(G, p, w, h)) /\ Levels(tree', S, Risen(G, p, w, h), Nil, s)
  <2>1. TurnLevels(t, B[t.root], G, h, Nil, s, p, w, s)
    BY <1>16, <1>20
  <2>2. /\ Heights(Risen(G, p, w, h))
        /\ Levels(Rotate(t, p, s), B[t.root], Risen(G, p, w, h), Nil, s)
    BY <1>1, <1>16, <2>1, RotateLevels
  <2> QED
    BY <1>1, <1>16, <2>2
<1>24. Calm(tree', S, Nil, FALSE)
  <2>1. TurnCalm(t, B[t.root], Nil, FALSE, p, w, s)
    BY <1>16, <1>22
  <2>2. Calm(Rotate(t, p, s), B[t.root], Nil, FALSE)
    BY <1>1, <1>16, <2>1, RotateCalm
  <2> QED
    BY <1>1, <1>16, <2>2
<1>25. fix'.op = "remove" /\ fix'.elm = tree'.root
  BY <1>1, <1>2
<1>26. ShortAt(tree', fix') = Nil
  BY <1>25 DEF ShortAt
<1>27. S \in SUBSET Node
  BY <1>11
<1>28. Levels(tree', S, Risen(G, p, w, h), ShortAt(tree', fix'), SideOf(tree', fix'.elm, fix'.parent))
  BY <1>23, <1>26, <1>27, NoneShort
<1>29. Calm(tree', S, fix'.elm, fix'.op = "remove")
  BY <1>24, CalmAnyway
<1> QED
  BY <1>23, <1>25, <1>28, <1>29 DEF Poised, S

\* The node that takes the place of the one unlinked is painted black.
LEMMA EndRemovePoised ==
  ASSUME NEW B, Held(B), NEW H, Poised(tree, B[tree.root], fix, H), EndRemove
  PROVE  \E G : Poised(tree', B[tree.root], fix', G)
<1> DEFINE e == fix.elm
           p == fix.parent
           S == B[tree.root]
           q == ShortAt(tree, fix)
           z == SideOf(tree, e, p)
           G == [H EXCEPT ![e] = H[e] + 1 - Black(tree, e)]
<1>1. /\ fix.op = "remove" /\ (IsRed(tree, e) \/ e = tree.root) /\ fix' = NoFix
      /\ tree' = IF e = Nil THEN tree ELSE [tree EXCEPT !.red[e] = FALSE]
  BY DEF EndRemove, Short
<1>2. Shape(tree, B) /\ (e # tree.root => p \in S /\ \E s \in Side : tree.link[p][s] = e)
  BY <1>1 DEF Held, FixAt, HangsAt, NoFix
<1>3. Heights(H) /\ Levels(tree, S, H, q, z) /\ Calm(tree, S, e, TRUE)
  BY <1>1 DEF Poised
<1>4. q = IF e = tree.root THEN Nil ELSE p
  BY <1>1 DEF ShortAt
<1>5. fix'.op = "none" /\ fix'.elm = Nil /\ ShortAt(tree', fix') = Nil
  BY <1>1 DEF NoFix, ShortAt
<1>6. /\ tree \in Tree /\ tree.root \in Ptr /\ S \in SUBSET Node
      /\ \A x \in S : x \in Node /\ x \in Ptr /\ x # Nil
      /\ \A x \in S, y \in Side : tree.link[x][y] \in Ptr /\ tree.link[x][y] # x
      /\ \A x \in S, y \in Side : tree.link[x][y] # Nil =>
           tree.parent[tree.link[x][y]] = x /\ tree.link[x][y] # tree.root /\ tree.link[x][y] \in S
  BY <1>2, Places
<1>7. S = {} \/ tree.root \in S
  <2>1. CASE tree.root = Nil
    BY <1>2, <2>1 DEF Shape, Subtrees
  <2>2. CASE tree.root # Nil
    BY <1>2, <1>6, <2>2, SubtreeIs, Sides DEF Ptr
  <2> QED
    BY <2>1, <2>2
<1>S. S = B[tree.root]
  OBVIOUS
<1>Z. z = SideOf(tree, e, p)
  OBVIOUS
<1> HIDE DEF e, p, S, q, z, G
<1>8. tree' \in Tree /\ tree'.root = tree.root /\ tree'.link = tree.link
      /\ \A x \in Node : tree'.red[x] = IF x = e THEN FALSE ELSE tree.red[x]
  <2>1. CASE e = Nil
    BY <1>1, <1>6, <2>1, NilIs
  <2>2. CASE e # Nil
    <3>1. e \in Node
      BY <1>1, <1>2, <1>6, <2>2 DEF Ptr
    <3> QED
      BY <1>1, <1>6, <2>2, <3>1 DEF Tree
  <2> QED
    BY <2>1, <2>2
<1>9. Calm(tree', S, Nil, FALSE)
  <2>1. ~ IsRed(tree', tree'.root)
    BY <1>3, <1>6, <1>8 DEF Calm, IsRed, Ptr
  <2>2. ASSUME NEW x \in S, NEW y \in Side PROVE Ease(tree', Nil, FALSE, x, tree.link[x][y])
    <3> DEFINE c == tree.link[x][y]
    <3>1. SUFFICES ASSUME tree'.red[x], IsRed(tree', c) PROVE FALSE
      BY DEF Ease
    <3>2. c \in Ptr /\ x \in Node /\ Ease(tree, e, TRUE, x, c)
      BY <1>3, <1>6 DEF Calm
    <3>3. c # e /\ x # e /\ tree.red[x] /\ IsRed(tree, c)
      BY <1>8, <3>1, <3>2 DEF IsRed, Ptr
    <3> QED
      BY <3>2, <3>3 DEF Ease
  <2> QED
    BY <1>8, <2>1, <2>2 DEF Calm
<1>10. \E J : Heights(J) /\ Even(tree', S, J)
  <2>1. CASE e = Nil
    <3>1. S = {}
      BY <1>1, <1>6, <1>7, <2>1 DEF IsRed
    <3>2. Even(tree', S, H)
      BY <3>1 DEF Even
    <3> QED
      BY <1>3, <3>2
  <2>2. CASE e # Nil
    <3>1. e \in Node /\ e \in Ptr
      BY <1>1, <1>2, <1>6, <2>2, NilIs DEF Ptr
    <3>2. Black(tree, e) \in {0, 1} /\ Black(tree', e) = 1
      BY <1>8, <3>1 DEF Black
    <3>3. /\ G \in [Ptr -> Nat] /\ G[e] = H[e] + 1 - Black(tree, e) /\ G[Nil] = 0
          /\ \A x \in Ptr : x # e => G[x] = H[x]
      BY <1>3, <2>2, <3>1, <3>2, NilIs DEF Heights, G
    <3>4. ASSUME NEW x \in S, NEW y \in Side PROVE G[x] = G[tree.link[x][y]] + Black(tree', x)
      <4> DEFINE c == tree.link[x][y]
      <4>1. x \in Node /\ x \in Ptr /\ c \in Ptr /\ c # x
            /\ (c # Nil => tree.parent[c] = x /\ c # tree.root)
        BY <1>6
      <4>2. H[x] = H[c] + Lack(q, z, x, y) + Black(tree, x) /\ H[c] \in Nat /\ H[x] \in Nat
        BY <1>3, <4>1 DEF Levels, Level, Heights
      <4> HIDE DEF c
      <4>3. Black(tree, x) \in Nat
        BY DEF Black
      <4>4. H[x] = G[c] + Black(tree, x)
        <5>1. CASE c = e
          <6>1. e # tree.root /\ q = p /\ p \in S /\ Black(tree, e) = 0
            BY <1>1, <1>2, <1>4, <2>2, <4>1, <5>1 DEF Black, IsRed
          <6>2. x = p /\ y = z
            <7>1. PICK r \in Side : tree.link[p][r] = e
              BY <1>2, <6>1
            <7>2. tree.parent[e] = p /\ e \in B[tree.root]
              BY <1>6, <1>S, <2>2, <6>1, <7>1
            <7>3. \A v \in Node, r1 \in Side : tree.link[v][r1] = e => v = p /\ r1 = SideOf(tree, e, p)
              BY <1>2, <7>2, PlaceIs
            <7> QED
              BY <1>Z, <4>1, <5>1, <7>3 DEF c
          <6>3. Lack(q, z, x, y) = 1
            BY <6>1, <6>2 DEF Lack
          <6> QED
            BY <3>3, <4>2, <4>3, <5>1, <6>1, <6>3
        <5>2. CASE c # e
          <6>1. Lack(q, z, x, y) = 0
            <7>1. SUFFICES ASSUME x = q, y = z PROVE FALSE
              BY DEF Lack
            <7>2. e # tree.root /\ x = p
              BY <1>4, <1>6, <7>1
            <7>3. PICK r \in Side : tree.link[p][r] = e
              BY <1>2, <7>2
            <7>4. tree.parent[e] = p /\ e \in B[tree.root]
              BY <1>6, <1>S, <2>2, <7>2, <7>3
            <7>5. tree.link[p][SideOf(tree, e, p)] = e
              BY <1>2, <7>2, <7>4, PlaceIs
            <7> QED
              BY <1>Z, <5>2, <7>1, <7>2, <7>5 DEF c
          <6> QED
            BY <3>3, <4>1, <4>2, <4>3, <5>2, <6>1
        <5> QED
          BY <5>1, <5>2
      <4>5. CASE x = e
        <5>1. G[c] \in Nat /\ G[x] = H[x] + 1 - Black(tree, x) /\ Black(tree', x) = 1
          BY <3>2, <3>3, <4>1, <4>5
        <5>2. G[x] = G[c] + 1
          BY <4>2, <4>3, <4>4, <5>1
        <5> QED
          BY <5>1, <5>2 DEF c
      <4>6. CASE x # e
        <5>1. Black(tree', x) = Black(tree, x)
          BY <1>8, <4>1, <4>6 DEF Black
        <5> QED
          BY <3>3, <4>1, <4>4, <4>6, <5>1 DEF c
      <4> QED
        BY <4>5, <4>6
    <3>5. Heights(G) /\ Even(tree', S, G)
      BY <1>8, <3>3, <3>4 DEF Heights, Even
    <3> QED
      BY <3>5
  <2> QED
    BY <2>1, <2>2
<1>11. PICK J : Heights(J) /\ Even(tree', S, J)
  BY <1>10
<1>12. Levels(tree', S, J, ShortAt(tree', fix'), SideOf(tree', fix'.elm, fix'.parent))
  BY <1>5, <1>6, <1>8, <1>11, EvenIs
<1> QED
  BY <1>5, <1>9, <1>11, <1>12 DEF Poised, S

\* The place below which a node is hung is free.
LEMMA LastFree ==
  ASSUME NEW t, NEW B, Shape(t, B), NEW n \in Node, NEW p, p = Last(t, Key[n]),
         p # Nil => Key[p] # Key[n]
  PROVE  /\ p = Nil <=> t.root = Nil
         /\ p # Nil => p \in B[t.root] /\ t.link[p][Toward(Key[n], p)] = Nil
<1>1. t \in Tree /\ B[Nil] = {} /\ t.root \in Ptr /\ Key[n] \in Nat
  BY KeyIs DEF Shape, Subtrees, Tree
<1>2. CASE t.root = Nil
  BY <1>1, <1>2, LastIs
<1>3. CASE t.root # Nil
  <2>1. Reached(t, B, Key[n], t.root, p)
    BY <1>1, <1>3, LastIs
  <2>2. p \in B[t.root] /\ Stops(t, Key[n], p)
    BY <2>1 DEF Reached
  <2>3. p \in Node
    BY <1>1, <2>2, Deeper
  <2> QED
    BY <1>1, <1>3, <2>2, <2>3, NilIs DEF Stops
<1> QED
  BY <1>2, <1>3

\* When no rebalancing is under way.
LEMMA StablePoised ==
  ASSUME NEW B, Held(B), NEW H, Poised(tree, B[tree.root], fix, H), Stable
  PROVE  /\ Shape(tree, B) /\ Heights(H) /\ Even(tree, B[tree.root], H)
         /\ Calm(tree, B[tree.root], Nil, FALSE) /\ fix = NoFix
<1>1. fix = NoFix /\ Shape(tree, B)
  BY DEF Held, FixAt, Stable
<1>2. fix.op = "none" /\ fix.elm = Nil
  BY <1>1 DEF NoFix
<1>3. tree \in Tree /\ B[tree.root] \in SUBSET Node
  BY <1>1, Places
<1>4. Heights(H) /\ Even(tree, B[tree.root], H)
  BY <1>2, <1>3, EvenIs DEF Poised
<1>5. Calm(tree, B[tree.root], Nil, FALSE)
  BY <1>2 DEF Poised
<1> QED
  BY <1>1, <1>4, <1>5

\* The new node is red, and takes the place of a null pointer.
LEMMA InsertPoised ==
  ASSUME NEW B, Held(B), NEW H, Poised(tree, B[tree.root], fix, H), NEW n \in Node, Insert(n)
  PROVE  \E G : Poised(tree', B[tree.root] \cup {n}, fix', G)
<1> DEFINE p == Last(tree, Key[n])
           w == Toward(Key[n], p)
           S == B[tree.root]
           G == [H EXCEPT ![n] = 0]
<1>1. /\ Shape(tree, B) /\ Heights(H) /\ Even(tree, S, H) /\ Calm(tree, S, Nil, FALSE)
  BY StablePoised DEF Insert
<1>2. n \notin S /\ (p # Nil => Key[p] # Key[n])
  BY <1>1, InTreeIs DEF Insert
<1>3. tree' = Grafted(tree, n, p)
  BY DEF Insert, Grafted
<1>4. fix' = [op |-> "insert", elm |-> n, parent |-> Nil]
  BY DEF Insert, InsertColor
<1>5. p = Last(tree, Key[n])
  OBVIOUS
<1> HIDE DEF p
<1>6. GraftedAs(tree, tree', n, p)
  BY <1>1, <1>2, <1>3, <1>5, GraftShape
<1>7. /\ p = Nil <=> tree.root = Nil
      /\ p # Nil => p \in S /\ tree.link[p][w] = Nil
  BY <1>1, <1>2, <1>5, LastFree
<1>8. \A x \in Node, z \in Side : tree.link[x][z] # n
  BY <1>1, <1>2, Alone
<1>9. /\ tree \in Tree /\ tree.root \in Ptr /\ S \in SUBSET Node
      /\ \A x \in S : x \in Node /\ x \in Ptr /\ x # Nil
      /\ \A x \in S, y \in Side : tree.link[x][y] \in Ptr /\ tree.link[x][y] # x
  BY <1>1, Places
<1>10. tree.root # n
  <2>1. tree.root \in Node => tree.root \in S
    BY <1>1, SubtreeIs, Sides
  <2> QED
    BY <1>2, <2>1
<1>11. /\ tree' \in Tree /\ tree'.root = IF p = Nil THEN n ELSE tree.root
       /\ \A x \in Node, z \in Side :
            tree'.link[x][z] = IF x = n THEN Nil ELSE IF x = p /\ z = w THEN n
                               ELSE tree.link[x][z]
       /\ \A x \in Node : tree'.red[x] = IF x = n THEN TRUE ELSE tree.red[x]
  BY <1>6 DEF GraftedAs
<1>12. /\ G \in [Ptr -> Nat] /\ G[n] = 0 /\ G[Nil] = 0
       /\ \A x \in Ptr : x # n => G[x] = H[x]
  BY <1>1, NilIs DEF Heights
<1> HIDE DEF w, S, G
<1>13. ASSUME NEW x \in S, NEW y \in Side
       PROVE  /\ x \in Node /\ x \in Ptr /\ x # n /\ tree.link[x][y] # n /\ tree.link[x][y] \in Ptr
              /\ tree'.link[x][y] = IF x = p /\ y = w THEN n ELSE tree.link[x][y]
  BY <1>2, <1>8, <1>9, <1>11
<1>14. Even(tree', S \cup {n}, G)
  <2>1. ASSUME NEW x \in S, NEW y \in Side PROVE G[x] = G[tree'.link[x][y]] + Black(tree', x)
    <3>1. H[x] = H[tree.link[x][y]] + Black(tree, x)
      BY <1>1 DEF Even
    <3>2. Black(tree', x) = Black(tree, x)
      BY <1>11, <1>13 DEF Black
    <3>3. G[tree'.link[x][y]] = H[tree.link[x][y]]
      <4>1. CASE x = p /\ y = w
        <5>1. tree.link[x][y] = Nil
          BY <1>7, <1>13, <4>1, NilIs
        <5> QED
          BY <1>1, <1>12, <1>13, <4>1, <5>1 DEF Heights
      <4>2. CASE ~ (x = p /\ y = w)
        BY <1>12, <1>13, <4>2
      <4> QED
        BY <4>1, <4>2
    <3> QED
      BY <1>12, <1>13, <3>1, <3>2, <3>3
  <2>2. ASSUME NEW y \in Side PROVE G[n] = G[tree'.link[n][y]] + Black(tree', n)
    <3>1. tree'.link[n][y] = Nil /\ tree'.red[n]
      BY <1>11
    <3>2. Black(tree', n) = 0
      BY <3>1 DEF Black
    <3> QED
      BY <1>12, <3>1, <3>2
  <2> QED
    BY <2>1, <2>2 DEF Even
<1>15. Calm(tree', S \cup {n}, n, FALSE)
  <2>1. IsRed(tree', tree'.root) => tree'.root = n
    BY <1>1, <1>7, <1>9, <1>10, <1>11 DEF Calm, IsRed, Ptr
  <2>2. ASSUME NEW x \in S, NEW y \in Side PROVE Ease(tree', n, FALSE, x, tree'.link[x][y])
    <3>1. SUFFICES ASSUME tree'.red[x], IsRed(tree', tree'.link[x][y]), tree'.link[x][y] # n
                   PROVE  FALSE
      BY DEF Ease
    <3>2. tree'.link[x][y] = tree.link[x][y]
      BY <1>13, <3>1
    <3> DEFINE c == tree.link[x][y]
    <3>3. c \in Ptr /\ c # n /\ x \in Node /\ x # n /\ tree'.red[x] /\ IsRed(tree', c)
      BY <1>13, <3>1, <3>2
    <3> HIDE DEF c
    <3>5. tree.red[x] /\ IsRed(tree, c)
      BY <1>11, <3>3 DEF IsRed, Ptr
    <3>4. Ease(tree, Nil, FALSE, x, tree.link[x][y])
      BY <1>1 DEF Calm
    <3> QED
      BY <3>4, <3>5 DEF Ease, IsRed, c
  <2>3. ASSUME NEW y \in Side PROVE Ease(tree', n, FALSE, n, tree'.link[n][y])
    BY <1>11 DEF Ease, IsRed
  <2> QED
    BY <2>1, <2>2, <2>3 DEF Calm
<1>16. fix'.op = "insert" /\ fix'.elm = n
  BY <1>4
<1>17. Levels(tree', S \cup {n}, G, ShortAt(tree', fix'), SideOf(tree', fix'.elm, fix'.parent))
  <2>1. S \cup {n} \in SUBSET Node
    BY <1>9
  <2> QED
    BY <1>11, <1>12, <1>14, <1>16, <2>1, EvenIs DEF Heights
<1>18. tree'.red[n]
  BY <1>11
<1> QED
  BY <1>12, <1>15, <1>16, <1>17, <1>18 DEF Poised, Heights, S

\* Where a black node is lacking after the removal of a black one.
OnlyIf(b, x) == IF b THEN x ELSE Nil

\* Cutting out m leaves a black node lacking if m was black.
LEMMA CutPoised ==
  ASSUME NEW t, NEW B, Shape(t, B), NEW m \in B[t.root], NEW c, OnlyChild(t, m, c),
         NEW p, p = t.parent[m], NEW u, Cut(t, u, m, c, p),
         NEW H, Heights(H), Even(t, B[t.root], H), Calm(t, B[t.root], Nil, FALSE)
  PROVE  /\ Levels(u, B[t.root] \ {m}, H, OnlyIf(~ t.red[m], p), SideOf(t, m, p))
         /\ Calm(u, B[t.root] \ {m}, OnlyIf(~ t.red[m], c), ~ t.red[m])
<1> DEFINE S == B[t.root]
           w == SideOf(t, m, p)
           q == OnlyIf(~ t.red[m], p)
<1>1. /\ t \in Tree /\ t.root \in Ptr /\ S \in SUBSET Node
      /\ \A x \in S : x \in Node /\ x \in Ptr /\ x # Nil
      /\ \A x \in S, y \in Side : t.link[x][y] \in Ptr /\ t.link[x][y] # x
  BY Places
<1>2. PICK s \in Side : t.link[m][s] = c
  BY DEF OnlyChild
<1>3. /\ m \in Node /\ t.root \in Node /\ p # m
      /\ m = t.root => p = Nil
      /\ m # t.root => p \in Node /\ p \in S /\ t.link[p][w] = m
      /\ \A x \in Node, z \in Side : t.link[x][z] = m => x = p /\ z = w
  BY PlaceIs
<1>4. /\ u.root = IF p = Nil THEN c ELSE t.root
      /\ \A x \in Node, z \in Side :
           u.link[x][z] = IF x = m THEN Nil ELSE IF x = p /\ z = w THEN c ELSE t.link[x][z]
      /\ \A x \in Node : u.red[x] = IF x = m THEN FALSE ELSE t.red[x]
  BY DEF Cut
<1>5. H[m] = H[c] + Black(t, m) /\ Ease(t, Nil, FALSE, m, c) /\ c \in Ptr /\ c # m
  BY <1>1, <1>2 DEF Even, Calm
<1>6. /\ \A x \in S, y \in Side : H[x] = H[t.link[x][y]] + Black(t, x)
      /\ \A x \in S, y \in Side : Ease(t, Nil, FALSE, x, t.link[x][y])
      /\ ~ IsRed(t, t.root)
  BY DEF Even, Calm, IsRed
<1>7. m \in S
  OBVIOUS
<1> HIDE DEF S, w, q
<1>8. ASSUME NEW x \in S, x # m, NEW y \in Side
      PROVE  /\ x \in Node /\ x \in Ptr /\ t.link[x][y] \in Ptr /\ u.red[x] = t.red[x]
             /\ u.link[x][y] = IF x = p /\ y = w THEN c ELSE t.link[x][y]
             /\ x = p /\ y = w <=> t.link[x][y] = m
  <2>1. x \in Node /\ x \in Ptr /\ x # Nil /\ t.link[x][y] \in Ptr
    BY <1>1
  <2>2. x = p => m # t.root
    BY <1>3, <2>1
  <2> QED
    BY <1>3, <1>4, <1>8, <2>1, <2>2
<1>9. ASSUME NEW x \in S, x # m, NEW y \in Side PROVE Level(u, H, q, w, x, y)
  <2>1. H[x] = H[t.link[x][y]] + Black(t, x) /\ H[t.link[x][y]] \in Nat /\ H[c] \in Nat
    BY <1>5, <1>6, <1>8, <1>9 DEF Heights
  <2>2. Black(u, x) = Black(t, x) /\ Black(t, x) \in Nat
    BY <1>8, <1>9 DEF Black
  <2>3. CASE x = p /\ y = w
    <3>1. H[x] = H[c] + Black(t, m) + Black(t, x) /\ u.link[x][y] = c /\ Black(t, m) \in Nat
      BY <1>5, <1>8, <1>9, <2>1, <2>3 DEF Black
    <3>2. Lack(q, w, x, y) = Black(t, m)
      <4>1. x # Nil
        BY <1>1
      <4> QED
        BY <2>3, <4>1 DEF Lack, Black, q, OnlyIf
    <3> QED
      BY <2>1, <2>2, <3>1, <3>2 DEF Level
  <2>4. CASE ~ (x = p /\ y = w)
    <3>1. Lack(q, w, x, y) = 0
      <4>1. x # Nil
        BY <1>1
      <4> QED
        BY <2>4, <4>1 DEF Lack, q, OnlyIf
    <3>2. u.link[x][y] = t.link[x][y]
      BY <1>8, <1>9, <2>4
    <3> QED
      BY <2>1, <2>2, <3>1, <3>2 DEF Level
  <2> QED
    BY <2>3, <2>4
<1>10. ASSUME NEW x \in S, x # m, NEW y \in Side
       PROVE  Ease(u, OnlyIf(~ t.red[m], c), ~ t.red[m], x, u.link[x][y])
  <2>1. CASE x = p /\ y = w
    <3>1. u.link[x][y] = c
      BY <1>8, <1>10, <2>1
    <3>2. CASE t.red[m]
      <4>1. ~ IsRed(t, c)
        BY <1>5, <3>2 DEF Ease, IsRed
      <4>2. ~ IsRed(u, c)
        BY <1>4, <1>5, <4>1 DEF IsRed, Ptr
      <4> QED
        BY <3>1, <4>2 DEF Ease
    <3>3. CASE ~ t.red[m]
      BY <3>1, <3>3 DEF Ease, OnlyIf
    <3> QED
      BY <3>2, <3>3
  <2>2. CASE ~ (x = p /\ y = w)
    <3> DEFINE b == t.link[x][y]
    <3>1. u.link[x][y] = b /\ b \in Ptr /\ b # m /\ u.red[x] = t.red[x]
      BY <1>8, <1>10, <2>2
    <3>2. Ease(t, Nil, FALSE, x, b)
      BY <1>6
    <3> HIDE DEF b
    <3>3. IsRed(u, b) => IsRed(t, b)
      BY <1>4, <3>1 DEF IsRed, Ptr
    <3> QED
      BY <3>1, <3>2, <3>3 DEF Ease, IsRed
  <2> QED
    BY <2>1, <2>2
<1>11. IsRed(u, u.root) => u.root = OnlyIf(~ t.red[m], c)
  <2>1. CASE p = Nil
    <3>1. m = t.root
      BY <1>3, <2>1, NilIs
    <3>2. ~ t.red[m]
      BY <1>3, <1>6, <3>1, NilIs DEF IsRed
    <3> QED
      BY <1>4, <2>1, <3>2 DEF OnlyIf
  <2>2. CASE p # Nil
    <3>1. u.root = t.root /\ u.red[t.root] => t.red[t.root]
      BY <1>3, <1>4, <2>2
    <3>2. u.root = t.root
      BY <1>4, <2>2
    <3> QED
      BY <1>3, <1>4, <1>6, <3>2 DEF IsRed
  <2> QED
    BY <2>1, <2>2
<1> QED
  BY <1>9, <1>10, <1>11 DEF Levels, Calm, S, w, q

\* m takes over the place and the colour of n, and its height.
LEMMA TakenPoised ==
  ASSUME NEW t, NEW B, Shape(t, B), NEW n \in B[t.root], NEW m \in Node, m \notin B[t.root],
         NEW p, p = t.parent[n], NEW u, Taken(t, u, n, m, p),
         NEW H, Heights(H), NEW q, q # m, NEW z, Levels(t, B[t.root], H, q, z),
         NEW e, e # n, e # m, NEW d, Calm(t, B[t.root], e, d)
  PROVE  LET S == (B[t.root] \ {n}) \cup {m}
         IN  /\ Heights([H EXCEPT ![m] = H[n]])
             /\ Levels(u, S, [H EXCEPT ![m] = H[n]], IF q = n THEN m ELSE q, z)
             /\ Calm(u, S, e, d)
<1> DEFINE S == B[t.root]
           w == SideOf(t, n, p)
           G == [H EXCEPT ![m] = H[n]]
           r == IF q = n THEN m ELSE q
<1>1. /\ t \in Tree /\ t.root \in Ptr /\ S \in SUBSET Node
      /\ \A x \in S : x \in Node /\ x \in Ptr /\ x # Nil
      /\ \A x \in S, y \in Side : t.link[x][y] \in Ptr /\ t.link[x][y] # x
  BY Places
<1>2. /\ n \in Node /\ t.root \in Node /\ p # n
      /\ n = t.root => p = Nil
      /\ n # t.root => p \in Node /\ p \in S /\ t.link[p][w] = n
      /\ \A x \in Node, y \in Side : t.link[x][y] = n => x = p /\ y = w
  BY PlaceIs
<1>3. /\ u.root = IF p = Nil THEN m ELSE t.root
      /\ \A x \in Node, y \in Side :
           u.link[x][y] = IF x = n THEN Nil ELSE IF x = m THEN t.link[n][y]
                          ELSE IF x = p /\ y = w THEN m ELSE t.link[x][y]
      /\ \A x \in Node : u.red[x] = IF x = n THEN FALSE ELSE IF x = m THEN t.red[n] ELSE t.red[x]
  BY DEF Taken
<1>4. \A x \in Node, y \in Side : t.link[x][y] # m
  BY Alone
<1>5. /\ \A x \in S, y \in Side : Level(t, H, q, z, x, y)
      /\ \A x \in S, y \in Side : Ease(t, e, d, x, t.link[x][y])
      /\ IsRed(t, t.root) => t.root = e
  BY DEF Levels, Calm
<1>6. n \in S /\ m \notin S /\ m # n /\ t.root # m
  <2>1. t.root \in S
    BY <1>2, SubtreeIs, Sides
  <2> QED
    BY <2>1
<1> HIDE DEF S, w
<1>7. /\ G \in [Ptr -> Nat] /\ G[m] = H[n] /\ G[Nil] = 0
      /\ \A x \in Ptr : x # m => G[x] = H[x]
  BY <1>1, <1>6, NilIs DEF Heights
<1> HIDE DEF G
<1>8. ASSUME NEW x \in S, x # n, NEW y \in Side
      PROVE  /\ x \in Node /\ x \in Ptr /\ x # m /\ u.red[x] = t.red[x]
             /\ t.link[x][y] \in Ptr /\ t.link[x][y] # m
             /\ x = p /\ y = w => t.link[x][y] = n /\ u.link[x][y] = m
             /\ ~ (x = p /\ y = w) => t.link[x][y] # n /\ u.link[x][y] = t.link[x][y]
  <2>1. x \in Node /\ x \in Ptr /\ x # Nil /\ x # m /\ t.link[x][y] \in Ptr
    BY <1>1, <1>6
  <2>2. x = p => n # t.root
    BY <1>2, <2>1
  <2> QED
    BY <1>2, <1>3, <1>4, <1>8, <2>1, <2>2
<1>9. ASSUME NEW y \in Side
      PROVE  /\ u.link[m][y] = t.link[n][y] /\ u.red[m] = t.red[n]
             /\ t.link[n][y] \in Ptr /\ t.link[n][y] # m /\ t.link[n][y] # n
  BY <1>1, <1>2, <1>3, <1>4, <1>6
<1>10. ASSUME NEW x \in S, x # n, NEW y \in Side PROVE Level(u, G, r, z, x, y)
  <2>1. G[u.link[x][y]] = H[t.link[x][y]] /\ G[x] = H[x]
    BY <1>7, <1>8, <1>10
  <2>2. Black(u, x) = Black(t, x)
    BY <1>8, <1>10 DEF Black
  <2>3. Lack(r, z, x, y) = Lack(q, z, x, y)
    BY <1>8, <1>10 DEF Lack
  <2>4. Level(t, H, q, z, x, y)
    BY <1>5
  <2> QED
    BY <2>1, <2>2, <2>3, <2>4 DEF Level
<1>11. ASSUME NEW y \in Side PROVE Level(u, G, r, z, m, y)
  <2>1. G[u.link[m][y]] = H[t.link[n][y]] /\ G[m] = H[n]
    BY <1>7, <1>9
  <2>2. Black(u, m) = Black(t, n)
    BY <1>9 DEF Black
  <2>3. Lack(r, z, m, y) = Lack(q, z, n, y)
    BY DEF Lack
  <2>4. Level(t, H, q, z, n, y)
    BY <1>5, <1>6
  <2> QED
    BY <2>1, <2>2, <2>3, <2>4 DEF Level
<1> HIDE DEF r
<1>12. ASSUME NEW x \in S, x # n, NEW y \in Side PROVE Ease(u, e, d, x, u.link[x][y])
  <2>1. Ease(t, e, d, x, t.link[x][y])
    BY <1>5
  <2> DEFINE b == t.link[x][y]
  <2>2. CASE x = p /\ y = w
    <3>1. b = n /\ u.link[x][y] = m /\ u.red[x] = t.red[x] /\ u.red[m] = t.red[n]
      BY <1>8, <1>9, <1>12, <2>2
    <3>2. IsRed(u, m) <=> IsRed(t, n)
      BY <1>1, <1>6, <3>1, NilIs DEF IsRed
    <3> QED
      BY <2>1, <3>1, <3>2 DEF Ease
  <2>3. CASE ~ (x = p /\ y = w)
    <3>1. b # n /\ b # m /\ b \in Ptr /\ u.link[x][y] = b /\ u.red[x] = t.red[x] /\ Ease(t, e, d, x, b)
      BY <1>8, <1>12, <2>1, <2>3
    <3> HIDE DEF b
    <3>2. IsRed(u, b) <=> IsRed(t, b)
      BY <1>3, <3>1 DEF IsRed, Ptr
    <3> QED
      BY <3>1, <3>2 DEF Ease
  <2> QED
    BY <2>2, <2>3
<1>13. ASSUME NEW y \in Side PROVE Ease(u, e, d, m, u.link[m][y])
  <2> DEFINE b == t.link[n][y]
  <2>1. Ease(t, e, d, n, b)
    BY <1>5, <1>6
  <2>2. b # n /\ b # m /\ b \in Ptr /\ u.link[m][y] = b /\ u.red[m] = t.red[n]
    BY <1>9
  <2> HIDE DEF b
  <2>3. IsRed(u, b) <=> IsRed(t, b)
    BY <1>3, <2>2 DEF IsRed, Ptr
  <2> QED
    BY <2>1, <2>2, <2>3 DEF Ease
<1>14. IsRed(u, u.root) => u.root = e
  <2>1. CASE p = Nil
    <3>1. n = t.root /\ u.root = m
      BY <1>2, <1>3, <2>1, NilIs
    <3>2. ~ t.red[n]
      BY <1>2, <1>5, <3>1, NilIs DEF IsRed
    <3>3. ~ u.red[m]
      BY <1>3, <1>6, <3>2
    <3> QED
      BY <3>1, <3>3 DEF IsRed
  <2>2. CASE p # Nil
    <3>1. u.root = t.root /\ t.root # n /\ t.root # m
      BY <1>2, <1>3, <1>6, <2>2
    <3>2. u.red[t.root] = t.red[t.root]
      BY <1>2, <1>3, <3>1
    <3> QED
      BY <1>5, <3>1, <3>2 DEF IsRed
  <2> QED
    BY <2>1, <2>2
<1>15. Levels(u, (S \ {n}) \cup {m}, G, r, z) /\ Calm(u, (S \ {n}) \cup {m}, e, d) /\ Heights(G)
  BY <1>7, <1>10, <1>11, <1>12, <1>13, <1>14 DEF Levels, Calm, Heights
<1> QED
  BY <1>15 DEF S, G, r

\* What a removal leaves: c hangs below q, and a black node is lacking there if b.
SpliceLeft(u, S, c, q, b) ==
  \E G, z : /\ Heights(G) /\ z \in Side
            /\ Levels(u, S, G, OnlyIf(b, q), z) /\ Calm(u, S, OnlyIf(b, c), b)
            /\ q = Nil => u.root = c
            /\ q # Nil => q \in S /\ u.link[q][z] = c

LEMMA RemovedPoised ==
  ASSUME NEW t, NEW B, Shape(t, B), NEW n \in B[t.root],
         NEW H, Heights(H), Even(t, B[t.root], H), Calm(t, B[t.root], Nil, FALSE)
  PROVE  SpliceLeft(Removed(t, n), B[t.root] \ {n}, Child(t, Spliced(t, n)), SplicedParent(t, n),
                    ~ t.red[Spliced(t, n)])
<1> DEFINE u == Removed(t, n)
           S == B[t.root]
<1>0. t \in Tree /\ B \in [Ptr -> SUBSET Node] /\ B[Nil] = {} /\ t.root \in Ptr /\ n \in Node
  <2>1. t \in Tree /\ B \in [Ptr -> SUBSET Node] /\ B[Nil] = {} /\ t.root \in Ptr
    BY DEF Shape, Subtrees, Tree
  <2> QED
    BY <2>1, Deeper
<1>1. CASE \E s \in Side : t.link[n][s] = Nil
  <2> DEFINE c == Child(t, n)
             p == t.parent[n]
             w == SideOf(t, n, p)
  <2>1. OneStep(t, u, n)
    BY <1>0, <1>1, RemovedOne
  <2>2. OnlyChild(t, n, c) /\ Cut(t, u, n, c, p)
    BY <2>1 DEF OneStep
  <2>3. Spliced(t, n) = n
    BY <1>1 DEF Spliced
  <2>4. /\ n = t.root => p = Nil
        /\ n # t.root => p \in Node /\ p \in B[t.root]
        /\ p # n
    BY PlaceIs
  <2>5. SplicedParent(t, n) = p
    BY <2>3, <2>4 DEF SplicedParent
  <2>P. p = t.parent[n]
    OBVIOUS
  <2>6. w \in Side /\ w = SideOf(t, n, p)
    BY SideOfIs
  <2> HIDE DEF c, p, w, u
  <2>7. /\ Levels(u, S \ {n}, H, OnlyIf(~ t.red[n], p), SideOf(t, n, p))
        /\ Calm(u, S \ {n}, OnlyIf(~ t.red[n], c), ~ t.red[n])
    BY <2>P, <2>2, CutPoised
  <2>8. p = Nil => u.root = c
    BY <2>2 DEF Cut
  <2>9. p # Nil => p \in S \ {n} /\ u.link[p][w] = c
    BY <2>2, <2>4, <2>6 DEF Cut
  <2>10. SpliceLeft(u, S \ {n}, c, p, ~ t.red[n])
    <3> HIDE DEF S
    <3> QED
      BY <2>6, <2>7, <2>8, <2>9 DEF SpliceLeft
  <2> QED
    BY <2>3, <2>5, <2>10 DEF c, u
<1>2. CASE \A s \in Side : t.link[n][s] # Nil
  <2> DEFINE m == Furthest(t, t.link[n]["right"], "left")
             v == Cleared(Unlink(t, m), m)
             D == Without(B, m)
             c == Child(t, m)
             p == t.parent[m]
             w == SideOf(t, m, p)
             k == v.parent[n]
             b == ~ t.red[m]
             e == OnlyIf(b, c)
             q == OnlyIf(b, p)
             r == IF p = n THEN m ELSE p
             G == [H EXCEPT ![m] = H[n]]
  <2>1. TwoSteps(t, B, u, n, m, v)
    BY <1>2, RemovedTwo
  <2>2. Spliced(t, n) = m /\ SplicedParent(t, n) = r
    BY <1>2 DEF Spliced, SplicedParent
  <2> HIDE DEF m, v
  <2>3. /\ m \in Node /\ m # n /\ m \in B[n] /\ m \in B[t.root]
        /\ OnlyChild(t, m, c) /\ Cut(t, v, m, c, p)
        /\ Shape(v, D) /\ D[v.root] = B[t.root] \ {m} /\ Fits(v, D, n, m)
        /\ Taken(v, u, n, m, k)
    BY <2>1 DEF TwoSteps
  <2> HIDE DEF D, u
  <2>4. n \in D[v.root] /\ m \notin D[v.root]
    BY <2>3
  <2>7. p \in Node /\ p \in B[n] /\ p \in B[t.root] /\ p # m /\ w \in Side /\ p # Nil
    <3>1. n \in Ptr
      BY <1>0, NilIs
    <3>2. p \in Node /\ p \in B[n] /\ B[n] \subseteq B[t.root]
      BY <1>0, <2>3, <3>1, Deeper
    <3>3. p # m
      BY <2>3, PlaceIs
    <3> QED
      BY <3>2, <3>3, SideOfIs, NilIs
  <2>8. v.link[p][w] = c
    BY <2>3, <2>7 DEF Cut
  <2>9. n # c /\ c # m
    <3>1. PICK s \in Side : t.link[m][s] = c
      BY <2>3 DEF OnlyChild
    <3>2. n = c => n \in B[m]
      BY <1>0, <2>3, <3>1, SubtreeIs, Sides
    <3>3. c # m
      BY <2>3, <3>1, Places
    <3> QED
      BY <1>0, <2>3, <3>2, <3>3, Apart
  <2>10. k \notin B[n]
    <3>1. k = t.parent[n]
      BY <1>0, <2>3, <2>9 DEF Cut
    <3> QED
      BY <3>1, Above
  <2>11. Levels(v, D[v.root], H, q, w) /\ Calm(v, D[v.root], e, b)
    <3>1. m \in B[t.root] /\ OnlyChild(t, m, c) /\ p = t.parent[m] /\ Cut(t, v, m, c, p)
      BY <2>3
    <3> HIDE DEF c, p
    <3>2. /\ Levels(v, B[t.root] \ {m}, H, OnlyIf(~ t.red[m], p), SideOf(t, m, p))
          /\ Calm(v, B[t.root] \ {m}, OnlyIf(~ t.red[m], c), ~ t.red[m])
      BY <3>1, CutPoised
    <3> QED
      BY <2>3, <3>2
  <2>12. q # m /\ e # n /\ e # m
    <3>1. p # m /\ Nil # m /\ c # n /\ c # m /\ Nil # n
      BY <1>0, <2>3, <2>7, <2>9, NilIs
    <3>2. (q = p \/ q = Nil) /\ (e = c \/ e = Nil)
      BY DEF OnlyIf
    <3> HIDE DEF p, c, q, e, b
    <3> QED
      BY <3>1, <3>2
  <2>14. OnlyIf(b, r) = IF q = n THEN m ELSE q
    BY <1>0, NilIs DEF OnlyIf
  <2> HIDE DEF c, p, w, k, b, e, q
  <2>15. k = v.parent[n]
    BY DEF k
  <2>16. LET V == (D[v.root] \ {n}) \cup {m}
         IN  /\ Heights(G)
             /\ Levels(u, V, G, IF q = n THEN m ELSE q, w)
             /\ Calm(u, V, e, b)
    BY <2>3, <2>4, <2>11, <2>12, <2>15, TakenPoised
  <2>17. Heights(G) /\ Levels(u, S \ {n}, G, OnlyIf(b, r), w) /\ Calm(u, S \ {n}, e, b)
    <3> HIDE DEF G
    <3>1. (D[v.root] \ {n}) \cup {m} = S \ {n}
      BY <2>3
    <3> QED
      BY <2>14, <2>16, <3>1
  <2>18. r # Nil /\ r \in S \ {n} /\ u.link[r][w] = c
    <3>1. CASE p = n
      BY <2>3, <2>7, <2>8, <3>1, NilIs DEF Taken
    <3>2. CASE p # n
      <4>1. p # k
        BY <2>7, <2>10
      <4> QED
        BY <2>3, <2>7, <2>8, <3>2, <4>1 DEF Taken
    <3> QED
      BY <3>1, <3>2
  <2>19. SpliceLeft(u, S \ {n}, c, r, b)
    <3> HIDE DEF S, r, G
    <3> QED
      BY <2>7, <2>17, <2>18 DEF SpliceLeft, e
  <2> QED
    BY <2>2, <2>19 DEF u, c, b
<1> QED
  BY <1>1, <1>2

\* After the removal a black node is lacking where RB_REMOVE_COLOR is told, if it is
\* called.
LEMMA RemovePoised ==
  ASSUME NEW B, Held(B), NEW H, Poised(tree, B[tree.root], fix, H), NEW n \in Node, Remove(n)
  PROVE  \E G : Poised(tree', B[tree.root] \ {n}, fix', G)
<1> DEFINE m == Spliced(tree, n)
           c == Child(tree, m)
           q == SplicedParent(tree, n)
           b == ~ tree.red[m]
           S == B[tree.root] \ {n}
<1>1. /\ Shape(tree, B) /\ Heights(H) /\ Even(tree, B[tree.root], H)
      /\ Calm(tree, B[tree.root], Nil, FALSE)
  BY StablePoised DEF Remove
<1>2. n \in B[tree.root]
  BY <1>1, InTreeIs DEF Remove
<1>3. tree' = Removed(tree, n)
  BY DEF Remove, Removed
<1>4. fix' = IF tree.red[m] THEN NoFix ELSE [op |-> "remove", elm |-> c, parent |-> q]
  BY DEF Remove, Spliced, SplicedParent
<1>5. SpliceLeft(tree', S, c, q, b)
  BY <1>1, <1>2, <1>3, RemovedPoised
<1>6. PICK C : Shape(tree', C) /\ C[tree'.root] = S
  BY <1>1, <1>2, <1>3, RemovedShape
<1> HIDE DEF m, c, q, S
<1>7. PICK G, z : /\ Heights(G) /\ z \in Side
                  /\ Levels(tree', S, G, OnlyIf(b, q), z) /\ Calm(tree', S, OnlyIf(b, c), b)
                  /\ q = Nil => tree'.root = c
                  /\ q # Nil => q \in S /\ tree'.link[q][z] = c
  BY <1>5 DEF SpliceLeft
<1>8. S \in SUBSET Node
  BY <1>6, Places
<1>9. CASE ~ b
  <2>1. fix'.op = "none" /\ fix'.elm = Nil /\ ShortAt(tree', fix') = Nil
    BY <1>4, <1>9 DEF NoFix, ShortAt
  <2>2. Levels(tree', S, G, Nil, z) /\ Calm(tree', S, Nil, FALSE)
    BY <1>7, <1>9 DEF OnlyIf
  <2>3. Levels(tree', S, G, Nil, SideOf(tree', fix'.elm, fix'.parent))
    BY <1>8, <2>2, NoneShort
  <2> QED
    BY <1>7, <2>1, <2>2, <2>3 DEF Poised, S
<1>10. CASE b
  <2>1. fix'.op = "remove" /\ fix'.elm = c /\ fix'.parent = q
    BY <1>4, <1>10
  <2>2. Levels(tree', S, G, q, z) /\ Calm(tree', S, c, TRUE)
    BY <1>7, <1>10 DEF OnlyIf
  <2>3. CASE q = Nil
    <3>1. ShortAt(tree', fix') = Nil
      BY <1>7, <2>1, <2>3 DEF ShortAt
    <3>2. Levels(tree', S, G, Nil, SideOf(tree', fix'.elm, fix'.parent))
      BY <1>8, <2>2, <2>3, NoneShort
    <3> QED
      BY <1>7, <2>1, <2>2, <3>1, <3>2 DEF Poised, S
  <2>4. CASE q # Nil
    <3>1. SideOf(tree', c, q) = z /\ c # tree'.root
      BY <1>6, <1>7, <2>2, <2>4, ShortIs
    <3>2. ShortAt(tree', fix') = q
      BY <2>1, <3>1 DEF ShortAt
    <3> QED
      BY <1>7, <2>1, <2>2, <3>1, <3>2 DEF Poised, S
  <2> QED
    BY <2>3, <2>4
<1> QED
  BY <1>9, <1>10

\* The heights are right in every state, but for the place the rebalancing is about.
Leveled == \E B, H : Held(B) /\ Poised(tree, B[tree.root], fix, H)

\* After a step.
Leveling(S) == (\E C : Reshaped(C, S)) /\ (\E G : Poised(tree', S, fix', G))

LEMMA LevelingIs == ASSUME NEW S, Leveling(S) PROVE Leveled'
<1>1. PICK C : Reshaped(C, S)
  BY DEF Leveling
<1>2. PICK G : Poised(tree', S, fix', G)
  BY DEF Leveling
<1>3. (Held(C))' /\ Poised(tree', C[tree'.root], fix', G)
  BY <1>1, <1>2 DEF Reshaped, Held
<1> QED
  BY <1>3 DEF Leveled

LEMMA RebalancePoised ==
  ASSUME NEW B, Held(B), NEW H, Poised(tree, B[tree.root], fix, H), Rebalance
  PROVE  Leveling(B[tree.root])
<1>1. CASE EndInsert
  BY <1>1, EndInsertStep, EndInsertPoised DEF Leveling
<1>2. CASE EndRemove
  BY <1>2, EndRemoveStep, EndRemovePoised DEF Leveling
<1>3. CASE ~ EndInsert /\ ~ EndRemove
  <2>1. PICK s \in Side : \/ RedUncle(s) \/ InnerGrandchild(s) \/ OuterGrandchild(s)
                          \/ RedSibling(s) \/ BlackNephews(s) \/ InnerNephew(s)
                          \/ OuterNephew(s)
    BY <1>3 DEF Rebalance
  <2>2. CASE RedUncle(s)
    BY <2>2, RedUncleStep, RedUnclePoised DEF Leveling
  <2>3. CASE InnerGrandchild(s)
    BY <2>3, InnerGrandchildStep, InnerGrandchildPoised DEF Leveling
  <2>4. CASE OuterGrandchild(s)
    BY <2>4, OuterGrandchildStep, OuterGrandchildPoised DEF Leveling
  <2>5. CASE RedSibling(s)
    BY <2>5, RedSiblingStep, RedSiblingPoised DEF Leveling
  <2>6. CASE BlackNephews(s)
    BY <2>6, BlackNephewsStep, BlackNephewsPoised DEF Leveling
  <2>7. CASE InnerNephew(s)
    BY <2>7, InnerNephewStep, InnerNephewPoised DEF Leveling
  <2>8. CASE OuterNephew(s)
    BY <2>8, OuterNephewStep, OuterNephewPoised DEF Leveling
  <2> QED
    BY <2>1, <2>2, <2>3, <2>4, <2>5, <2>6, <2>7, <2>8
<1> QED
  BY <1>1, <1>2, <1>3

LEMMA LeveledFirst == Init => Leveled
<1> SUFFICES ASSUME Init PROVE Leveled
  OBVIOUS
<1>1. PICK B : Held(B) /\ B[tree.root] = {}
  BY HeldFirst
<1>2. tree.root = Nil /\ fix.op = "none" /\ fix.elm = Nil
  BY DEF Init, NoFix
<1> DEFINE H == [x \in Ptr |-> 0]
<1>3. Heights(H)
  BY NilIs DEF Heights
<1>4. Levels(tree, {}, H, ShortAt(tree, fix), SideOf(tree, fix.elm, fix.parent))
  BY DEF Levels
<1>5. Calm(tree, {}, fix.elm, fix.op = "remove")
  BY <1>2 DEF Calm
<1>6. Poised(tree, B[tree.root], fix, H)
  BY <1>1, <1>2, <1>3, <1>4, <1>5 DEF Poised
<1> QED
  BY <1>1, <1>6 DEF Leveled

LEMMA LeveledHolds == Spec => []Leveled
<1>1. Leveled /\ [Next]_vars => Leveled'
  <2> SUFFICES ASSUME Leveled, [Next]_vars PROVE Leveled'
    OBVIOUS
  <2>1. PICK B, H : Held(B) /\ Poised(tree, B[tree.root], fix, H)
    BY DEF Leveled
  <2>2. ASSUME NEW n \in Node, Insert(n) PROVE Leveling(B[tree.root] \cup {n})
    BY <2>1, <2>2, InsertStep, InsertPoised DEF Leveling
  <2>3. ASSUME NEW n \in Node, Remove(n) PROVE Leveling(B[tree.root] \ {n})
    BY <2>1, <2>3, RemoveStep, RemovePoised DEF Leveling
  <2>4. ASSUME Rebalance PROVE Leveling(B[tree.root])
    BY <2>1, <2>4, RebalancePoised
  <2>5. ASSUME tree' = tree, fix' = fix PROVE Leveling(B[tree.root])
    <3>1. Reshaped(B, B[tree.root])
      BY <2>1, <2>5 DEF Reshaped, Held
    <3>2. Poised(tree', B[tree.root], fix', H)
      BY <2>1, <2>5
    <3> QED
      BY <3>1, <3>2 DEF Leveling
  <2>6. ASSUME StartScan \/ Visit \/ EndScan \/ UNCHANGED vars PROVE Leveling(B[tree.root])
    BY <2>5, <2>6 DEF StartScan, Visit, EndScan, vars
  <2> QED
    BY <2>2, <2>3, <2>4, <2>6, LevelingIs DEF Next
<1> QED
  BY LeveledFirst, <1>1, PTL DEF Spec

-----------------------------------------------------------------------------
(* What the heights say of the balance.                                    *)

\* The black nodes on the paths below n, given those below its children.
Count(g, n) ==
  {b + (IF tree.red[n] THEN 0 ELSE 1) : b \in
     UNION {{a + Lacking(n, s) : a \in g[tree.link[n][s]]} : s \in Side}}

LEMMA CountIs ==
  ASSUME NEW g, NEW n, NEW k, \A s \in Side : {a + Lacking(n, s) : a \in g[tree.link[n][s]]} = {k}
  PROVE  Count(g, n) = {k + (IF tree.red[n] THEN 0 ELSE 1)}
<1>1. UNION {{a + Lacking(n, s) : a \in g[tree.link[n][s]]} : s \in Side} = {k}
  <2>1. {{a + Lacking(n, s) : a \in g[tree.link[n][s]]} : s \in Side} = {{k}}
    BY Sides
  <2> QED
    BY <2>1
<1> QED
  BY <1>1 DEF Count

LEMMA OneHeight ==
  ASSUME NEW B, Held(B), NEW H, Poised(tree, B[tree.root], fix, H)
  PROVE  Cardinality(BlackHeights) = 1
<1> DEFINE S == B[tree.root]
           q == ShortAt(tree, fix)
           z == SideOf(tree, fix.elm, fix.parent)
           Is(g) == g = [n \in Ptr |->
                           IF n = Nil THEN {0}
                           ELSE {b + (IF tree.red[n] THEN 0 ELSE 1) : b \in
                                   UNION {{a + Lacking(n, s) : a \in g[tree.link[n][s]]} : s \in Side}}]
           count == CHOOSE g : Is(g)
           K == [n \in Ptr |-> IF n \in S \/ n = Nil THEN {H[n]} ELSE {Black(tree, n)}]
<1>1. BlackHeights = count[tree.root]
  BY Zenon DEF BlackHeights
<1>2. Shape(tree, B)
  BY DEF Held
<1>3. /\ tree \in Tree /\ tree.root \in Ptr /\ S \in SUBSET Node
      /\ \A x \in S : x \in Node /\ x \in Ptr /\ x # Nil
      /\ \A x \in S, y \in Side : tree.link[x][y] \in Ptr
      /\ \A x \in S, y \in Side : tree.link[x][y] # Nil => tree.link[x][y] \in S
  BY <1>2, Places
<1>4. Heights(H) /\ Levels(tree, S, H, q, z)
  BY DEF Poised
<1>5. \A x \in Node, s \in Side :
        Lacking(x, s) = IF x \in S THEN Lack(q, z, x, s) ELSE 0
  <2> SUFFICES ASSUME NEW x \in Node, NEW s \in Side
               PROVE  Lacking(x, s) = IF x \in S THEN Lack(q, z, x, s) ELSE 0
    OBVIOUS
  <2>1. x # Nil
    BY NilIs
  <2>2. Lacking(x, s) = Lack(q, z, x, s)
    BY <2>1 DEF Lacking, Lack, ShortAt
  <2>3. CASE fix.op = "remove" /\ fix.elm # tree.root
    <3>1. fix.parent \in S
      BY <2>3 DEF Held, FixAt, HangsAt, NoFix
    <3> QED
      BY <2>2, <3>1, <2>3 DEF Lacking
  <2>4. CASE ~ (fix.op = "remove" /\ fix.elm # tree.root)
    BY <2>2, <2>4 DEF Lacking
  <2> QED
    BY <2>3, <2>4
<1>6. tree.root = Nil \/ tree.root \in S
  BY <1>2, <1>3, SubtreeIs, Sides DEF Ptr
<1>7. \A x \in Node : x \notin S => \A s \in Side : tree.link[x][s] = Nil
  BY <1>2 DEF Shape, Linked
<1> HIDE DEF S, q, z
<1>8. K[Nil] = {0} /\ \A x \in S : K[x] = {H[x]}
  BY <1>3, <1>4, NilIs DEF Heights
<1>9. \A x \in Node : x \notin S => K[x] = {Black(tree, x)}
  BY NilIs
<1>K. K = [n \in Ptr |-> K[n]]
  OBVIOUS
<1> HIDE DEF K
<1>10. ASSUME NEW n \in Node PROVE K[n] = Count(K, n)
  <2>1. CASE n \in S
    <3> DEFINE k == H[n] - Black(tree, n)
    <3>1. ASSUME NEW s \in Side PROVE {a + Lacking(n, s) : a \in K[tree.link[n][s]]} = {k}
      <4> DEFINE c == tree.link[n][s]
      <4>1. c \in Ptr /\ (c = Nil \/ c \in S)
        BY <1>3, <2>1
      <4>2. K[c] = {H[c]} /\ H[c] \in Nat
        BY <1>4, <1>8, <4>1 DEF Heights
      <4>3. H[n] = H[c] + Lack(q, z, n, s) + Black(tree, n)
        BY <1>4, <2>1 DEF Levels, Level
      <4>4. Lacking(n, s) = Lack(q, z, n, s) /\ Lack(q, z, n, s) \in Nat /\ Black(tree, n) \in Nat
        BY <1>5, <2>1 DEF Lack, Black
      <4> HIDE DEF c
      <4>5. H[c] + Lacking(n, s) = k
        BY <4>2, <4>3, <4>4
      <4>6. {a + Lacking(n, s) : a \in K[c]} = {k}
        BY <4>2, <4>5
      <4> QED
        BY <4>6 DEF c
    <3>2. H[n] \in Nat /\ Black(tree, n) \in Nat
      BY <1>3, <1>4, <2>1 DEF Heights, Black
    <3>3. k + (IF tree.red[n] THEN 0 ELSE 1) = H[n]
      BY <3>2 DEF Black
    <3> HIDE DEF k
    <3>4. Count(K, n) = {k + (IF tree.red[n] THEN 0 ELSE 1)}
      BY <3>1, CountIs
    <3> QED
      BY <1>8, <2>1, <3>3, <3>4
  <2>2. CASE n \notin S
    <3>1. ASSUME NEW s \in Side PROVE {a + Lacking(n, s) : a \in K[tree.link[n][s]]} = {0}
      <4>1. tree.link[n][s] = Nil /\ Lacking(n, s) = 0
        BY <1>5, <1>7, <2>2
      <4>2. {a + 0 : a \in {0}} = {0}
        OBVIOUS
      <4> QED
        BY <1>8, <4>1, <4>2
    <3>2. Count(K, n) = {0 + (IF tree.red[n] THEN 0 ELSE 1)}
      BY <3>1, CountIs
    <3> QED
      BY <1>9, <2>2, <3>2 DEF Black
  <2> QED
    BY <2>1, <2>2
<1>11. Is(K)
  <2>1. \A n \in Ptr : K[n] = IF n = Nil THEN {0} ELSE Count(K, n)
    BY <1>8, <1>10 DEF Ptr
  <2> QED
    BY <1>K, <2>1 DEF Count
<1>12. Is(count)
  <2> HIDE DEF Is
  <2> QED
    BY <1>11
<1> HIDE DEF count
<1>13. count[Nil] = {0} /\ \A n \in Node : count[n] = Count(count, n)
  BY <1>12, NilIs DEF Count
<1>14. \A n \in Node : (\A s \in Side : count[tree.link[n][s]] = K[tree.link[n][s]]) =>
         count[n] = K[n]
  <2> SUFFICES ASSUME NEW n \in Node, \A s \in Side : count[tree.link[n][s]] = K[tree.link[n][s]]
               PROVE  count[n] = K[n]
    OBVIOUS
  <2>1. \A s \in Side : {a + Lacking(n, s) : a \in count[tree.link[n][s]]}
                          = {a + Lacking(n, s) : a \in K[tree.link[n][s]]}
    OBVIOUS
  <2>2. {{a + Lacking(n, s) : a \in count[tree.link[n][s]]} : s \in Side}
          = {{a + Lacking(n, s) : a \in K[tree.link[n][s]]} : s \in Side}
    BY <2>1
  <2>3. Count(count, n) = Count(K, n)
    BY <2>2 DEF Count
  <2> QED
    BY <1>10, <1>13, <2>3
<1> HIDE DEF Is
<1>15. SameStep(tree, count, K)
  BY <1>8, <1>13, <1>14 DEF SameStep
<1>16. count[tree.root] = K[tree.root]
  BY <1>2, <1>3, <1>15, Unique
<1>17. K[tree.root] = {H[tree.root]}
  BY <1>4, <1>6, <1>8 DEF Heights
<1> QED
  BY <1>1, <1>16, <1>17, FS_Singleton

\* Red next to red, or at the root.
LEMMA NoClash ==
  ASSUME NEW B, Held(B), NEW H, Poised(tree, B[tree.root], fix, H), NEW n \in B[tree.root],
         tree.red[n], n = tree.root \/ tree.red[tree.parent[n]]
  PROVE  \/ n = fix.elm
         \/ fix.op = "remove" /\ tree.parent[n] = fix.elm
<1>1. Shape(tree, B) /\ Calm(tree, B[tree.root], fix.elm, fix.op = "remove")
  BY DEF Held, Poised
<1>2. n # Nil
  BY <1>1, Places
<1>3. CASE n = tree.root
  BY <1>1, <1>2, <1>3 DEF Calm, IsRed
<1>4. CASE n # tree.root
  <2> DEFINE p == tree.parent[n]
             s == SideOf(tree, n, p)
  <2>1. p \in B[tree.root] /\ tree.link[p][s] = n /\ s \in Side
    BY <1>1, <1>4, PlaceIs, SideOfIs
  <2>2. Ease(tree, fix.elm, fix.op = "remove", p, n)
    BY <1>1, <2>1 DEF Calm
  <2> QED
    BY <1>2, <1>4, <2>2 DEF Ease, IsRed
<1> QED
  BY <1>3, <1>4

LEMMA NoneNull ==
  ASSUME NEW B, Held(B), NEW H, Poised(tree, B[tree.root], fix, H)
  PROVE  NoNullNode
<1>1. ASSUME fix.op = "insert", IsRed(tree, Parent) PROVE Grandparent # Nil
  <2>1. Shape(tree, B) /\ fix.elm \in B[tree.root]
    BY <1>1 DEF Held, FixAt, NoFix
  <2>2. Parent # Nil /\ tree.red[Parent]
    BY <1>1 DEF IsRed
  <2>3. Parent \in B[tree.root] /\ Parent # fix.elm
    BY <2>1, <2>2, PlaceIs DEF Parent
  <2>4. Parent # tree.root
    BY <1>1, <2>2, <2>3 DEF Poised, Calm, IsRed
  <2> QED
    BY <2>1, <2>3, <2>4, PlaceIs, NilIs DEF Grandparent
<1>2. ASSUME Short PROVE fix.parent # Nil
  <2>1. Shape(tree, B) /\ fix.parent \in B[tree.root]
    BY <1>2 DEF Short, Held, FixAt, HangsAt, NoFix
  <2> QED
    BY <2>1, Places
<1>3. ASSUME NEW s \in Side, Hanging(s) PROVE Sibling(s) # Nil
  <2>1. /\ Shape(tree, B) /\ fix.parent \in B[tree.root]
        /\ Heights(H) /\ Levels(tree, B[tree.root], H, fix.parent, s)
    BY <1>3, HangingPoised
  <2> QED
    BY <2>1, ShortIs DEF Sibling
<1> QED
  BY <1>1, <1>2, <1>3 DEF NoNullNode

\* Powers of two, as far as they are needed.
Doubles(E, k) == E \in [Nat -> Nat] /\ E[0] = 1 /\ \A i \in Nat : i < k => E[i + 1] = 2 * E[i]

LEMMA Powers == ASSUME NEW k \in Nat PROVE \E E : Doubles(E, k)
<1> DEFINE K == {i \in Nat : \E E : Doubles(E, i)}
<1>1. 0 \in K
  <2> DEFINE E == [i \in Nat |-> 1]
  <2>1. E \in [Nat -> Nat] /\ E[0] = 1
    OBVIOUS
  <2> HIDE DEF E
  <2>2. Doubles(E, 0)
    BY <2>1 DEF Doubles
  <2> QED
    BY <2>2
<1>2. ASSUME NEW i \in Nat, i \in K PROVE i + 1 \in K
  <2>1. PICK E : Doubles(E, i)
    BY <1>2
  <2> DEFINE F == [j \in Nat |-> IF j = i + 1 THEN 2 * E[i] ELSE E[j]]
  <2>2. F \in [Nat -> Nat] /\ F[i + 1] = 2 * E[i] /\ \A j \in Nat : j # i + 1 => F[j] = E[j]
    BY <2>1 DEF Doubles
  <2> HIDE DEF F
  <2>3. Doubles(F, i + 1)
    BY <2>1, <2>2 DEF Doubles
  <2> QED
    BY <2>3
<1> HIDE DEF K
<1>3. \A i \in Nat : i \in K
  BY <1>1, <1>2, Induction
<1> QED
  BY <1>3 DEF K

LEMMA Squares ==
  ASSUME NEW a \in Nat, NEW b \in Nat
  PROVE  a * a \in Nat /\ (2 * a) * (2 * a) = 4 * (a * a) /\ (a <= b => a * a <= b * b)
<1>1. a * a \in Nat /\ (2 * a) * (2 * a) = 4 * (a * a)
  OBVIOUS
<1>2. ASSUME a <= b PROVE a * a <= b * b
  <2> DEFINE d == b - a
  <2>1. d \in Nat /\ b = a + d
    BY <1>2
  <2> HIDE DEF d
  <2>2. b * b = a * a + 2 * (a * d) + d * d /\ a * d \in Nat /\ d * d \in Nat
    BY <2>1
  <2> HIDE DEF d
  <2> QED
    BY <1>1, <2>2
<1> QED
  BY <1>1, <1>2

\* A node, and the nodes on either side.
LEMMA SizeAdds ==
  ASSUME NEW t, NEW B, Shape(t, B), NEW n \in Node
  PROVE  /\ Size(B, n) = Size(B, t.link[n]["left"]) + Size(B, t.link[n]["right"]) + 1
         /\ Size(B, t.link[n]["left"]) \in Nat /\ Size(B, t.link[n]["right"]) \in Nat
<1> DEFINE l == t.link[n]["left"]
           r == t.link[n]["right"]
<1>1. l \in Ptr /\ r \in Ptr /\ n \notin B[l] /\ n \notin B[r] /\ B[n] = {n} \cup B[l] \cup B[r]
  BY SubtreeIs, Sides
<1>2. \A x \in B[l] : x \notin B[r]
  <2> TAKE x \in B[l]
  <2>1. x \in Node /\ Key[x] < Key[n]
    BY Sides, SortedIs DEF Beside
  <2>2. x \in B[r] => Key[x] > Key[n]
    BY Sides, SortedIs DEF Beside
  <2> QED
    BY <2>1, <2>2, KeyIs
<1>3. /\ IsFiniteSet(B[l]) /\ Cardinality(B[l]) \in Nat
      /\ IsFiniteSet(B[r]) /\ Cardinality(B[r]) \in Nat
  BY <1>1, SizeIs DEF Size
<1> DEFINE L == B[l]
           R == B[r]
<1>4. L \cap R = {} /\ n \notin L \cup R /\ B[n] = (L \cup R) \cup {n}
  BY <1>1, <1>2
<1>5. IsFiniteSet(L) /\ IsFiniteSet(R) /\ Cardinality(L) \in Nat /\ Cardinality(R) \in Nat
  BY <1>3
<1> HIDE DEF L, R
<1>6. IsFiniteSet(L \cup R) /\ Cardinality(L \cup R) = Cardinality(L) + Cardinality(R)
  <2>1. /\ IsFiniteSet(L \cup R)
        /\ Cardinality(L \cup R) = Cardinality(L) + Cardinality(R) - Cardinality(L \cap R)
    BY <1>5, FS_Union
  <2>2. Cardinality(L \cap R) = 0
    BY <1>4, FS_EmptySet
  <2> QED
    BY <1>5, <2>1, <2>2
<1>7. Cardinality((L \cup R) \cup {n}) = Cardinality(L) + Cardinality(R) + 1
  BY <1>4, <1>6, FS_AddElement
<1> QED
  BY <1>4, <1>5, <1>7 DEF Size, L, R

\* The larger of two.
More(j, k) == IF j > k THEN j ELSE k

\* A tree of black height k has at least two to the k nodes, less one, and at most four to
\* the k on the longest path, twice if it begins with a red node.
Bounded(B, E, H, full, n) ==
  /\ H[n] <= Size(B, n)
  /\ E[H[n]] <= Size(B, n) + 1
  /\ full[n] <= (IF IsRed(tree, n) THEN 2 ELSE 1) * (E[H[n]] * E[H[n]])

LEMMA HeightStep ==
  ASSUME NEW B, Shape(tree, B), NEW H, Heights(H), Even(tree, B[tree.root], H),
         Calm(tree, B[tree.root], Nil, FALSE),
         NEW E, Doubles(E, Cardinality(Node)),
         NEW full, full \in [Ptr -> Nat],
         NEW n \in B[tree.root],
         full[n] = 2 * More(full[tree.link[n]["left"]], full[tree.link[n]["right"]]),
         \A s \in Side : Bounded(B, E, H, full, tree.link[n][s])
  PROVE  Bounded(B, E, H, full, n)
<1> DEFINE l == tree.link[n]["left"]
           r == tree.link[n]["right"]
           b == Black(tree, n)
           h == H[l]
           a == E[h]
           j == Size(B, l)
           k == Size(B, r)
           N == Cardinality(Node)
<1>1. n \in Node /\ n # Nil /\ n \in Ptr /\ l \in Ptr /\ r \in Ptr
  BY Places, Sides
<1>2. Size(B, n) = j + k + 1 /\ j \in Nat /\ k \in Nat /\ Size(B, n) <= N /\ N \in Nat
  <2>1. N \in Nat
    BY TreeAssumption, FS_CardinalityType DEF TreeAssumption
  <2> QED
    BY <1>1, <2>1, SizeAdds, SizeIs
<1>3. H[n] = H[l] + b /\ H[n] = H[r] + b /\ b \in {0, 1} /\ H[l] \in Nat /\ H[r] \in Nat
  BY <1>1, Sides DEF Even, Heights, Black
<1>4. H[r] = h /\ h \in Nat /\ h <= j /\ H[n] = h + b
  <2>1. H[l] <= Size(B, l)
    BY Sides DEF Bounded
  <2> HIDE DEF l, r, b
  <2> QED
    BY <1>3, <2>1
<1>5. E \in [Nat -> Nat] /\ \A i \in Nat : i < N => E[i + 1] = 2 * E[i]
  BY DEF Doubles
<1>6. a \in Nat /\ a <= j + 1 /\ a <= k + 1 /\ a * a \in Nat /\ (2 * a) * (2 * a) = 4 * (a * a)
  <2>1. E[H[l]] <= Size(B, l) + 1 /\ E[H[r]] <= Size(B, r) + 1
    BY Sides DEF Bounded
  <2>2. a \in Nat
    BY <1>4, <1>5
  <2>3. a * a \in Nat /\ (2 * a) * (2 * a) = 4 * (a * a)
    <3> HIDE DEF a
    <3> QED
      BY <2>2, Squares
  <2> HIDE DEF l, r
  <2> QED
    BY <1>4, <2>1, <2>2, <2>3
<1>7. full[l] \in Nat /\ full[r] \in Nat /\ full[n] = 2 * More(full[l], full[r])
  BY <1>1
<1>8. /\ full[l] <= (IF IsRed(tree, l) THEN 2 ELSE 1) * (a * a)
      /\ full[r] <= (IF IsRed(tree, r) THEN 2 ELSE 1) * (a * a)
  <2>1. /\ full[l] <= (IF IsRed(tree, l) THEN 2 ELSE 1) * (E[H[l]] * E[H[l]])
        /\ full[r] <= (IF IsRed(tree, r) THEN 2 ELSE 1) * (E[H[r]] * E[H[r]])
    BY Sides DEF Bounded
  <2> HIDE DEF l, r
  <2> QED
    BY <1>4, <2>1
<1>9. tree.red[n] => ~ IsRed(tree, l) /\ ~ IsRed(tree, r)
  BY Sides DEF Calm, Ease, IsRed
<1>10. /\ tree.red[n] => b = 0 /\ IsRed(tree, n)
       /\ ~ tree.red[n] => b = 1 /\ ~ IsRed(tree, n)
  BY <1>1 DEF Black, IsRed
<1> HIDE DEF l, r, b, h, a, j, k, N
<1> DEFINE e == a * a
           x == full[l]
           y == full[r]
<1>11. More(x, y) = x \/ More(x, y) = y
  BY DEF More
<1>12. CASE tree.red[n]
  <2>1. H[n] = h /\ H[n] <= Size(B, n)
    BY <1>2, <1>3, <1>4, <1>10, <1>12
  <2>2. E[H[n]] = a /\ a <= Size(B, n) + 1
    BY <1>2, <1>6, <2>1 DEF a
  <2>3. x <= 1 * e /\ y <= 1 * e /\ e \in Nat /\ x \in Nat /\ y \in Nat
    BY <1>6, <1>7, <1>8, <1>9, <1>12
  <2> HIDE DEF e, x, y
  <2>4. 2 * More(x, y) <= 2 * e
    BY <1>11, <2>3
  <2>5. full[n] <= 2 * (a * a)
    BY <1>7, <2>4 DEF e, x, y
  <2> QED
    BY <1>10, <1>12, <2>1, <2>2, <2>5 DEF Bounded
<1>13. CASE ~ tree.red[n]
  <2>1. H[n] = h + 1 /\ H[n] <= Size(B, n) /\ h < N
    BY <1>2, <1>3, <1>4, <1>10, <1>13
  <2>2. E[H[n]] = 2 * a /\ 2 * a <= Size(B, n) + 1
    BY <1>2, <1>4, <1>5, <1>6, <2>1 DEF a
  <2>3. /\ x <= (IF IsRed(tree, l) THEN 2 ELSE 1) * e
        /\ y <= (IF IsRed(tree, r) THEN 2 ELSE 1) * e
        /\ e \in Nat /\ x \in Nat /\ y \in Nat
    BY <1>6, <1>7, <1>8
  <2>4. (2 * a) * (2 * a) = 4 * e
    BY <1>6
  <2> HIDE DEF e, x, y
  <2>5. x <= 2 * e /\ y <= 2 * e
    BY <2>3
  <2>6. 2 * More(x, y) <= 4 * e
    BY <1>11, <2>3, <2>5
  <2>7. full[n] <= 4 * e
    BY <1>7, <2>6 DEF x, y
  <2>8. full[n] <= 1 * (E[H[n]] * E[H[n]])
    BY <2>2, <2>3, <2>4, <2>7
  <2> QED
    BY <1>10, <1>13, <2>1, <2>2, <2>8 DEF Bounded
<1> QED
  BY <1>12, <1>13

\* The bound on the height.
LEMMA HeightIs ==
  ASSUME NEW B, Held(B), NEW H, Poised(tree, B[tree.root], fix, H), Stable
  PROVE  Full <= (Cardinality(InTree) + 1) * (Cardinality(InTree) + 1)
<1> DEFINE Is(g) == g = [n \in Ptr |->
                           IF n = Nil THEN 1
                           ELSE 2 * (IF g[tree.link[n].left] > g[tree.link[n].right]
                                     THEN g[tree.link[n].left] ELSE g[tree.link[n].right])]
           full == CHOOSE g : Is(g)
           S == B[tree.root]
           N == Cardinality(Node)
<1>1. Full = full[tree.root]
  BY Zenon DEF Full
<1>2. /\ Shape(tree, B) /\ Heights(H) /\ Even(tree, S, H) /\ Calm(tree, S, Nil, FALSE)
  BY StablePoised
<1>3. /\ tree.root \in Ptr /\ \A x \in S : x \in Node /\ x \in Ptr /\ x # Nil
      /\ \A x \in S, y \in Side : tree.link[x][y] # Nil => tree.link[x][y] \in S
  BY <1>2, Places
<1>4. tree.root = Nil \/ tree.root \in S
  BY <1>2, <1>3, SubtreeIs, Sides DEF Ptr
<1>5. N \in Nat
  BY TreeAssumption, FS_CardinalityType DEF TreeAssumption
<1>6. PICK E : Doubles(E, N)
  BY <1>5, Powers
<1>7. \E g : g \in [Ptr -> Nat] /\ Is(g)
  <2> DEFINE F == [q \in Node \X Nat \X Nat |-> 2 * More(q[2], q[3])]
  <2>1. F \in [Node \X Nat \X Nat -> Nat]
    BY DEF More
  <2>2. \A n \in Node, b, c \in Nat : F[<<n, b, c>>] = 2 * More(b, c)
    OBVIOUS
  <2> HIDE DEF F
  <2>3. PICK g : Solves(tree, Nat, 1, F, g)
    BY <1>2, <2>1, Recursion
  <2>4. g \in [Ptr -> Nat] /\ g[Nil] = 1
    BY <2>3 DEF Solves
  <2>5. ASSUME NEW n \in Node
        PROVE  g[n] = 2 * More(g[tree.link[n]["left"]], g[tree.link[n]["right"]])
    <3>1. g[tree.link[n]["left"]] \in Nat /\ g[tree.link[n]["right"]] \in Nat
      BY <1>2, <2>4, SubtreeIs, Sides
    <3> QED
      BY <2>2, <2>3, <3>1 DEF Solves
  <2>6. Is(g)
    BY <2>4, <2>5, NilIs DEF More, Ptr
  <2> QED
    BY <2>4, <2>6
<1>8. Is(full)
  <2> HIDE DEF Is
  <2> QED
    BY <1>7
<1> HIDE DEF full
<1>9. /\ full[Nil] = 1
      /\ \A n \in Node : full[n] = 2 * More(full[tree.link[n]["left"]], full[tree.link[n]["right"]])
  BY <1>8, NilIs DEF More
<1>10. full \in [Ptr -> Nat]
  <2>1. PICK g : g \in [Ptr -> Nat] /\ Is(g)
    BY <1>7
  <2>2. /\ g[Nil] = 1
        /\ \A n \in Node : g[n] = 2 * More(g[tree.link[n]["left"]], g[tree.link[n]["right"]])
    BY <2>1, NilIs DEF More
  <2>3. full = [n \in Ptr |-> full[n]]
    BY <1>8
  <2> HIDE DEF Is
  <2>4. SameStep(tree, full, g)
    BY <1>9, <2>2, Sides DEF SameStep
  <2>5. \A n \in Ptr : full[n] = g[n]
    BY <1>2, <2>4, Unique
  <2> QED
    BY <2>1, <2>3, <2>5
<1> HIDE DEF Is, S, N
<1> DEFINE P == {n \in Ptr : n = Nil \/ n \in S => Bounded(B, E, H, full, n)}
<1>11. Bounded(B, E, H, full, Nil)
  <2>1. Size(B, Nil) = 0
    BY <1>2, FS_EmptySet DEF Size, Shape, Subtrees
  <2>2. H[Nil] = 0 /\ E[0] = 1 /\ ~ IsRed(tree, Nil)
    BY <1>2, <1>6 DEF Heights, Doubles, IsRed
  <2> QED
    BY <1>9, <2>1, <2>2 DEF Bounded
<1>12. Nil \in P
  BY <1>11, NilIs
<1>13. ASSUME NEW n \in Node, \A s \in Side : tree.link[n][s] \in P PROVE n \in P
  <2> SUFFICES ASSUME n \in S PROVE Bounded(B, E, H, full, n)
    BY NilIs
  <2>1. \A s \in Side : Bounded(B, E, H, full, tree.link[n][s])
    BY <1>3, <1>13
  <2>2. full[n] = 2 * More(full[tree.link[n]["left"]], full[tree.link[n]["right"]])
    BY <1>9
  <2> QED
    BY <1>2, <1>6, <1>10, <2>1, <2>2, HeightStep DEF S, N
<1> HIDE DEF P
<1>14. \A n \in Ptr : n \in P
  BY <1>2, <1>12, <1>13, Upward
<1>15. Bounded(B, E, H, full, tree.root)
  BY <1>3, <1>4, <1>14 DEF P
<1> DEFINE a == E[H[tree.root]]
           k == Size(B, tree.root)
<1>16. ~ IsRed(tree, tree.root)
  BY <1>2 DEF Calm, IsRed
<1>17. a <= k + 1 /\ full[tree.root] <= 1 * (a * a) /\ a \in Nat /\ k \in Nat
       /\ full[tree.root] \in Nat
  BY <1>2, <1>3, <1>6, <1>10, <1>15, <1>16, SizeIs DEF Bounded, Heights, Doubles
<1>18. k = Cardinality(InTree)
  BY <1>2, InTreeIs DEF Size
<1> HIDE DEF a, k
<1>19. a * a <= (k + 1) * (k + 1) /\ a * a \in Nat
  <2>1. k + 1 \in Nat
    BY <1>17
  <2> QED
    BY <1>17, <2>1, Squares
<1>20. full[tree.root] <= (k + 1) * (k + 1)
  <2> DEFINE c == a * a
             d == (k + 1) * (k + 1)
  <2>1. c \in Nat /\ c <= d /\ full[tree.root] <= 1 * c /\ d \in Nat
    BY <1>17, <1>19
  <2> HIDE DEF c, d
  <2>2. full[tree.root] <= d
    BY <1>17, <2>1
  <2> QED
    BY <2>2 DEF d
<1> QED
  BY <1>1, <1>18, <1>20

\* A search tree.
LEMMA OrderedIs == ASSUME NEW B, Shape(tree, B) PROVE Ordered
<1>1. tree.root \in Ptr /\ InTree = B[tree.root]
  BY InTreeIs DEF Shape, Tree
<1>2. tree.root # Nil => tree.parent[tree.root] = Nil
  BY DEF Shape, Linked
<1>3. ASSUME NEW n \in B[tree.root], NEW s \in Side
      PROVE  /\ tree.link[n][s] # Nil => tree.parent[tree.link[n][s]] = n
             /\ \A m \in Below(tree, tree.link[n][s]) : Beside(s, Key[m], Key[n])
  <2>1. n \in Node /\ tree.link[n][s] \in Ptr
    BY Places
  <2>2. Below(tree, tree.link[n][s]) = B[tree.link[n][s]]
    BY <2>1, BelowIs
  <2> QED
    BY <2>1, <2>2 DEF Shape, Linked, Sorted
<1> QED
  BY <1>1, <1>2, <1>3 DEF Ordered, Beside

\* Every operation and every step of the rebalancing keeps the tree of RB_INSERT and
\* RB_REMOVE a red-black tree: in any state it is a search tree with distinct keys whose
\* parent pointers are right, the paths have the same number of black nodes (with the
\* one that is lacking), red nodes are next to each other only where the loops are at
\* work, these never follow a null pointer, and between two operations the height is at
\* most 2 lg(n+1).
THEOREM RedBlackHolds == Spec => []RedBlack
<1>1. Inv /\ Leveled => RedBlack
  <2> SUFFICES ASSUME Inv, Leveled PROVE RedBlack
    OBVIOUS
  <2>1. PICK B, H : Held(B) /\ Poised(tree, B[tree.root], fix, H)
    BY DEF Leveled
  <2>2. Shape(tree, B) /\ FixAt(tree, B, fix) /\ InTree = B[tree.root]
    BY <2>1, InTreeIs DEF Held
  <2>3. TypeOK
    <3>1. scan \in [on : BOOLEAN, id : Nat, due : SUBSET Wanted]
      BY DEF Inv, ScanAt
    <3> QED
      BY <2>2, <3>1 DEF TypeOK, Shape, Tree, FixAt
  <2>4. Ordered
    BY <2>2, OrderedIs
  <2>5. Balanced
    <3>1. \A n \in InTree :
            tree.red[n] /\ (n = tree.root \/ tree.red[tree.parent[n]]) =>
              \/ n = fix.elm
              \/ fix.op = "remove" /\ tree.parent[n] = fix.elm
      BY <2>1, <2>2, NoClash
    <3> QED
      BY <2>1, <3>1, OneHeight, HeightIs DEF Balanced
  <2>6. NoNullNode
    BY <2>1, NoneNull
  <2> QED
    BY <2>3, <2>4, <2>5, <2>6 DEF RedBlack
<1> QED
  BY Invariance, LeveledHolds, <1>1, PTL
=============================================================================
