--------------------------- MODULE MCFactLineage ---------------------------
(* Instance of FactLineage for TLC: three facts one after the other, or two at the *)
(* same time that may be cut off.                                                *)
EXTENDS FactLineage, TLC

Symmetry == Permutations(Facts) \cup Permutations(Seeded) \cup Permutations(Deletes)

MCSettings == {[facts |-> 3, inFlight |-> 1, crashes |-> FALSE],
               [facts |-> 2, inFlight |-> 3, crashes |-> TRUE]}
=============================================================================
