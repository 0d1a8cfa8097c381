------------------------- MODULE MCStorageArtifacts -------------------------
(* Small instances of StorageArtifacts for TLC. *)
EXTENDS StorageArtifacts, TLC

Symmetry == Permutations(Artifacts) \cup Permutations(Deletes)

\* Fault sets of the runs.
AllButCommit == {"db", "backend", "crash"}
NoCrash      == {"backend", "commit"}
=============================================================================
