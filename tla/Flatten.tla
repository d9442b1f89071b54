------------------------------ MODULE Flatten ------------------------------
(***************************************************************************)
(* The flattening of nested tables (Flatten1_ and toflattable of           *)
(* src/datahandling.c).  A table is a number, the contents of table t are  *)
(* the sequence Tables[t]; an element is a value, [value |-> v], or a      *)
(* table, [table |-> t].  No table is nested in itself: Flatten1_ would    *)
(* not end.                                                                *)
(***************************************************************************)
EXTENDS Naturals, Sequences, TLC

CONSTANTS
  Value,    \* the values of a script that are not tables
  Tables    \* the contents of its tables

Element == [value : Value] \cup [table : DOMAIN Tables]

IsTable(e) == "table" \in DOMAIN e

ASSUME FlattenAssumption ==
  /\ Tables \in Seq(Seq(Element))
  /\ \A t \in DOMAIN Tables : \A i \in DOMAIN Tables[t] :
       IsTable(Tables[t][i]) => Tables[t][i].table < t

\* Where Flatten1_ starts in the flat table, of which it stores at most the first
\* element that is missing; how far it is, with the number of values it has found.
Start == {s \in [flat : Seq(Value), cur : Nat] : s.cur <= Len(s.flat)}
Progress == {p \in [flat : Seq(Value), cur : Nat, n : Nat] : p.cur <= Len(p.flat)}

StartOf(p) == [flat |-> p.flat, cur |-> p.cur]
Empty == [flat |-> <<>>, cur |-> 0]

\* lua_rawseti, of an element of the flat table or of the first after it.
RawSet(flat, i, v) == [k \in DOMAIN flat \cup {i} |-> IF k = i THEN v ELSE flat[k]]

\* (Mutant: cur_index does not advance past a nested table.)
OneElementStuck(e, p, Nested) ==
  IF IsTable(e)
  THEN LET r == Nested[e.table][StartOf(p)]
       IN  [flat |-> r.flat, cur |-> p.cur, n |-> p.n + r.n]
  ELSE [flat |-> RawSet(p.flat, p.cur + 1, e.value), cur |-> p.cur + 1, n |-> p.n + 1]

\* Flatten1_ goes past one element.
OneElement(e, p, Nested) ==
  IF IsTable(e)
  THEN LET r == Nested[e.table][StartOf(p)]
       IN  [flat |-> r.flat, cur |-> p.cur + r.n, n |-> p.n + r.n]
  ELSE [flat |-> RawSet(p.flat, p.cur + 1, e.value), cur |-> p.cur + 1, n |-> p.n + 1]

\* The loop over the elements of a table.
Loop(items, s, Nested) ==
  LET after[i \in 0 .. Len(items)] ==
        IF i = 0 THEN [flat |-> s.flat, cur |-> s.cur, n |-> 0]
                 ELSE OneElement(items[i], after[i - 1], Nested)
  IN  after[Len(items)]

\* Flatten1_: stores the values of a table in the flat one, after its first cur
\* elements; the table it leaves, and the number of values.
Flatten1[t \in DOMAIN Tables] ==
  [s \in Start |-> LET r == Loop(Tables[t], s, Flatten1) IN [flat |-> r.flat, n |-> r.n]]

\* toflattable: the arguments from the first on, or the first only, if it is a
\* table.
ToFlatTable(args) ==
  IF args # <<>> /\ IsTable(args[1]) THEN Flatten1[args[1].table][Empty]
                                     ELSE Loop(args, Empty, Flatten1)

-----------------------------------------------------------------------------
(* What flattening promises.                                               *)

\* The values of each element, one after the other.
LeavesOf(items, Nested) ==
  LET upto[i \in 0 .. Len(items)] ==
        IF i = 0 THEN <<>>
        ELSE upto[i - 1] \o IF IsTable(items[i]) THEN Nested[items[i].table]
                                                 ELSE <<items[i].value>>
  IN  upto[Len(items)]

Leaves[t \in DOMAIN Tables] == LeavesOf(Tables[t], Leaves)

\* The values that the arguments of flatten and pack stand for.
ValuesOf(args) ==
  IF args # <<>> /\ IsTable(args[1]) THEN Leaves[args[1].table] ELSE LeavesOf(args, Leaves)
=============================================================================
