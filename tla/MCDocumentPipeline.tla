------------------------- MODULE MCDocumentPipeline -------------------------
(* Small instances of DocumentPipeline for TLC. *)
EXTENDS DocumentPipeline, TLC

CONSTANTS x1, x2

Symmetry == Permutations(Uploads) \cup Permutations(Hashes)
            \cup Permutations(Removals) \cup Permutations(Reconcilers)

\* Requests for two documents, one at a time at each, and a store that may fail.
SerialSettings ==
    {[documents |-> {x1, x2}, hashes |-> {h}, removals |-> 2, wipe |-> TRUE, eventual |-> FALSE,
      faults |-> {"backend"}, races |-> {}] : h \in Hashes}

\* Everything at one document at once, and claims that go stale under their run.
RacingSetting ==
    [documents |-> {x1}, hashes |-> Hashes, removals |-> 1, wipe |-> FALSE, eventual |-> TRUE,
     faults |-> {"db", "backend", "crash"}, races |-> {"upload", "removal", "staleClaim"}]

MCRaces == SerialSettings \cup {RacingSetting}

\* Uploads, a delete of the artifact and a reconciler while both providers may fail.
MCSettles ==
    {[documents |-> {x1}, hashes |-> Hashes, removals |-> 0, wipe |-> FALSE, eventual |-> TRUE,
      faults |-> {"backend", "onramp"}, races |-> {"upload"}]}

\* Two uploads of the same bytes and nothing that fails.
MCSameBytes ==
    {[documents |-> {x1}, hashes |-> Hashes, removals |-> 1, wipe |-> FALSE, eventual |-> FALSE,
      faults |-> {}, races |-> {"upload"}]}
=============================================================================
