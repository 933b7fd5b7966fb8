----------------------------- MODULE MCPrimeLibrary -----------------------------
(* The finite instances of PrimeLibrary that TLC checks. *)
EXTENDS PrimeLibrary, TLC

(* IDs are random, and processes, titles, archives and locales are          *)
(* interchangeable: no action and no property distinguishes one.            *)
Symmetry ==
  Permutations(Processes) \cup Permutations(GenID) \cup Permutations(Titles)
    \cup Permutations(Archives) \cup Permutations(Locales)

(* Bound: a third generation is drawn only over small ones, and with no     *)
(* fault and at most one crash or close.                                    *)
ThirdIsSmall ==
  Cardinality(used) > 2 =>
    /\ faults = 0 /\ stops <= 1
    /\ \A r \in {active, pending} \ {None} : Cardinality(r.titles) <= 1
=============================================================================
