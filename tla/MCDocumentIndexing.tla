------------------------- MODULE MCDocumentIndexing -------------------------
(* Small instances of DocumentIndexing for TLC. *)
EXTENDS DocumentIndexing, TLC

Symmetry == Permutations(Indexers) \cup Permutations(Resets) \cup Permutations(Texts)
=============================================================================
