------------------------------- MODULE Enums --------------------------------
(***************************************************************************)
(* The two-way map of codes and names (src/enums.c): two search trees over *)
(* the same records, one by domain and code, one by domain and name, which *)
(* are filled when the module is loaded and freed, one record at a time,   *)
(* when the process exits.  The trees are modelled by the sets of their    *)
(* records (RedBlackTree shows that they behave as such), a record by its  *)
(* keys and the address it is allocated at, here its position in the lists.*)
(***************************************************************************)
EXTENDS EnumNames, FiniteSets

CONSTANTS
  NoMemoryAt   \* positions of the records whose allocation may fail

VARIABLES
  phase,        \* of the module: loading, loaded, failed, exiting, exited
  next,         \* position of the record that enums_new is to be called for
  code_tree, string_tree,
  heap          \* records that are allocated

enumVars == <<phase, next, code_tree, string_tree, heap>>

(* The calls of enums_new: position <<d, j>> is the j-th name of domain d. *)

Positions == UNION {{d} \X DOMAIN Mappings[d].names : d \in DOMAIN Mappings}

Record(p) ==
  [domain |-> DomainNumber[Mappings[p[1]].domain],
   code |-> Mappings[p[1]].names[p[2]][1], str |-> Mappings[p[1]].names[p[2]][2], at |-> p]

After(p) == IF p[2] < Len(Mappings[p[1]].names) THEN <<p[1], p[2] + 1>> ELSE <<p[1] + 1, 1>>

ASSUME EnumsAssumption == NoMemoryAt \subseteq Positions

EnumsInit ==
  /\ phase = "loading" /\ next = <<1, 1>>
  /\ code_tree = {} /\ string_tree = {} /\ heap = {}

-----------------------------------------------------------------------------
(* The searches return a set, empty or of one record.                      *)

Precedes(d, c, r) == d < r.domain \/ (d = r.domain /\ c <= r.code)

CodeSearch(d, c) == {r \in code_tree : r.domain = d /\ r.code = c}

\* (Mutant: cmp_str does not compare the domains.)
StrSearchAnyDomain(d, s) == {r \in string_tree : r.str = s}

StrSearch(d, s) == {r \in string_tree : r.domain = d /\ r.str = s}

\* (Mutant: the first record after the key.)
CodeFirstAfter(d, c) ==
  LET following == {r \in code_tree : Precedes(d, c + 1, r)}
  IN  {r \in following : \A q \in following : Precedes(r.domain, r.code, q)}

\* code_first: the first record not before the key.
CodeFirst(d, c) ==
  LET following == {r \in code_tree : Precedes(d, c, r)}
  IN  {r \in following : \A q \in following : Precedes(r.domain, r.code, q)}

\* enums_check, enums_opt and enums_test: the code of a name, or an error.
Check(d, s) == {r.code : r \in StrSearch(d, s)}

\* enums_push: the name of a code, or an error.
Push(d, c) == {r.str : r \in CodeSearch(d, c)}

\* enums_values, called by enum: the names of a domain, from the first record with
\* its number on, through to the last of the tree.
Values(d) ==
  LET from == CodeFirst(d, 0)
      listed == {r \in code_tree : r.domain = d /\ \E f \in from : Precedes(f.domain, f.code, r)}
      nth(i) == CHOOSE r \in listed : Cardinality({q \in listed : q.code <= r.code}) = i
  IN  [i \in 1 .. Cardinality(listed) |-> nth(i).str]

\* enum: no value for what is no domain.
Enum(s) == IF s \in DOMAIN DomainNumber THEN {Values(DomainNumber[s])} ELSE {}

-----------------------------------------------------------------------------
\* enums_new: both trees are searched before the record is inserted in both.
EnumsNew ==
  LET r == Record(next)
  IN  /\ phase = "loading"
      /\ IF CodeSearch(r.domain, r.code) # {} \/ StrSearch(r.domain, r.str) # {}
         THEN phase' = "failed" /\ UNCHANGED <<next, code_tree, string_tree, heap>>
         ELSE /\ code_tree' = code_tree \cup {r}
              /\ string_tree' = string_tree \cup {r}
              /\ heap' = heap \cup {r.at}
              /\ next' = After(next)
              /\ phase' = IF next'[1] > Len(Mappings) THEN "loaded" ELSE phase

\* Malloc raises an error for the record, or Strdup for its name: then the record
\* is lost.
OutOfMemory ==
  /\ phase = "loading" /\ next \in NoMemoryAt
  /\ heap' \in {heap, heap \cup {next}}
  /\ phase' = "failed"
  /\ UNCHANGED <<next, code_tree, string_tree>>

\* AtExit.
AtExit ==
  /\ phase \in {"loaded", "failed"}
  /\ phase' = "exiting"
  /\ UNCHANGED <<next, code_tree, string_tree, heap>>

\* (Mutants: the record is left in the string tree, or in the code tree.)
EnumsFreeCode ==
  \E r \in CodeFirst(0, 0) :
    /\ phase = "exiting"
    /\ code_tree' = code_tree \ {r}
    /\ heap' = heap \ {r.at}
    /\ UNCHANGED <<phase, next, string_tree>>
EnumsFreeString ==
  \E r \in CodeFirst(0, 0) :
    /\ phase = "exiting"
    /\ string_tree' = string_tree \ {r}
    /\ heap' = heap \ {r.at}
    /\ UNCHANGED <<phase, next, code_tree>>

\* enums_free, of the first record.
EnumsFree ==
  \E r \in CodeFirst(0, 0) :
    /\ phase = "exiting"
    /\ code_tree' = code_tree \ ({r} \cap CodeSearch(r.domain, r.code))
    /\ string_tree' = string_tree \ ({r} \cap StrSearch(r.domain, r.str))
    /\ heap' = heap \ {r.at}
    /\ UNCHANGED <<phase, next>>

Exited ==
  /\ phase = "exiting" /\ CodeFirst(0, 0) = {}
  /\ phase' = "exited"
  /\ UNCHANGED <<next, code_tree, string_tree, heap>>

EnumsNext == EnumsNew \/ OutOfMemory \/ AtExit \/ EnumsFree \/ Exited

-----------------------------------------------------------------------------
\* The two trees hold the same records, all allocated, and no two with the same
\* key; a record that is in no tree is the one for whose name there was no memory.
TreesAgree ==
  /\ code_tree = string_tree
  /\ {r.at : r \in code_tree} \subseteq heap
  /\ heap \ {r.at : r \in code_tree} \subseteq {next} \cap NoMemoryAt
  /\ \A r \in code_tree : CodeSearch(r.domain, r.code) = {r} /\ StrSearch(r.domain, r.str) = {r}

\* The module's list has no duplicates: it is loaded whole, unless memory runs out,
\* and then the name of every code of the list is translated back to the code.
LoadedWhole ==
  /\ phase = "failed" => next \in NoMemoryAt
  /\ phase = "loaded" =>
       \A p \in Positions :
         LET r == Record(p)
         IN  Push(r.domain, r.code) = {r.str} /\ Check(r.domain, r.str) = {r.code}

\* "Returns a table listing the literals admitted by enumtype" (src/doc/enums.adoc):
\* the names of the domain that are there, all and no other, in the list's order.
ValuesComplete ==
  \A d \in DOMAIN Mappings :
    LET names == Mappings[d].names
        known == {j \in DOMAIN names : Record(<<d, j>>) \in code_tree}
    IN  \E v \in Enum(Mappings[d].domain) :
          /\ Len(v) = Cardinality(known)
          /\ \A j \in known : v[Cardinality({i \in known : i <= j})] = names[j][2]

\* The trees are consistent, and complete when the module is loaded.
EnumsWhole == TreesAgree /\ LoadedWhole /\ ValuesComplete

\* The process exits, with every record freed that was in the trees.
FreedAtExit == phase = "exiting" ~> phase = "exited" /\ heap \subseteq {next} \cap NoMemoryAt
=============================================================================
