---------------------------- MODULE MCLifecycle ----------------------------
(* Instances of Lifecycle for TLC. *)
EXTENDS Lifecycle, TLC

CONSTANTS c1, c2, d1, d2, d3

\* Device d2 is plugged into the hub d1; d3 is a device of the second context.
MCHubOf == [d \in Dev |-> IF d = d2 THEN d1 ELSE None]
MCCtxOf == [d \in Dev |-> IF d = d3 THEN c2 ELSE c1]

\* The types whose objects play the same part.
Symmetry ==
  Permutations(Hnd) \cup Permutations(Itf) \cup Permutations(Xfr)
  \cup Permutations(Mem) \cup Permutations(Hpl) \cup Permutations(Num)
=============================================================================
