--------------------------- MODULE DocumentIndexing ---------------------------
(***************************************************************************)
(* The extraction and index layers of one document: POST :id/index, the    *)
(* two failure reports, the DELETE of the document and the reset of its    *)
(* source, at one raw_documents row, its chunks and its derived memories.  *)
(*                                                                         *)
(* Transactions. An index call works inside one transaction, under the     *)
(* document's advisory lock, across the await of the embedding service.    *)
(* What it writes there is seen by nobody before its COMMIT, the status    *)
(* 'running' included, which for the others is only a row lock. The        *)
(* reports and the DELETE take the same lock and await nothing else, so    *)
(* each of them is one step. A source reset takes no advisory lock: each   *)
(* of its statements is a step with its own READ COMMITTED snapshot, and   *)
(* it waits for, and is waited for at, rows alone. The database breaks a   *)
(* cycle of waits by aborting one of its transactions.                     *)
(*                                                                         *)
(* A call that indexes writes one generation of chunks and one memory per  *)
(* chunk; the generation is named by the call. None stands for SQL NULL.   *)
(***************************************************************************)
EXTENDS Naturals, FiniteSets

CONSTANTS
    Indexers,       \* calls of indexDocumentText
    Resets,         \* calls of deleteBySource for the document's source
    Texts,          \* the texts a caller may send, and their hashes
    None,
    Connections     \* bound on the transactions open at a time: 1 is the
                    \* default pool of a single process (db/pool.ts)

ASSUME ConnectionsAssumption == Connections \in Nat \ {0}
ASSUME NamesAssumption ==
    /\ None \notin Indexers \cup Texts \cup {"raw_storage", "extraction", "semantic_index"}
    /\ Indexers \cap Resets = {}

VARIABLES
    row,            \* the raw_documents row, as committed
    chunks,         \* the generations with active chunks, as committed
    memories,       \* the generations with active memories, as committed
    idx,            \* the index calls
    rst             \* the source resets
vars == <<row, chunks, memories, idx, rst>>

RowType == [state : {"active", "removed", "reset"},
            stored : BOOLEAN,      \* raw_storage_status is one of RAW_OK
            extraction : {"pending", "not_required", "unsupported", "complete", "failed"},
            index : {"pending", "not_required", "complete", "failed"},
            hash : Texts \cup {None},                     \* indexed_content_hash
            error : {None, "raw_storage", "extraction", "semantic_index"}]  \* its layer

\* Steps of an index call; it holds the advisory lock in Locked and, after its
\* conditional UPDATE, the row lock in Claimed.
Claimed == {"prepare", "chunks", "memories", "commit"}
Locked  == {"count", "heal", "claim"} \cup Claimed
IdxEnds == {"indexed", "skipped", "refused", "notfound", "error", "crashed"}
IdxType == [pc : {"idle", "mark"} \cup Locked \cup IdxEnds, text : Texts \cup {None},
            pending : BOOLEAN]     \* extraction_status = 'pending' when loaded
NoIndex == [pc |-> "idle", text |-> None, pending |-> FALSE]

\* Steps of a reset: the pc names the table whose statement it has issued.
Resetting == {"memories", "chunks", "document"}
RstType == [pc : {"idle"} \cup Resetting \cup {"ok", "error"},
            memories : SUBSET Indexers, chunks : SUBSET Indexers]
NoReset == [pc |-> "idle", memories |-> {}, chunks |-> {}]

Active == row.state = "active"

\* A client registers a document with any of the states it may declare.
Init ==
    /\ \E e \in {"pending", "not_required", "unsupported"}, x \in {"pending", "not_required"} :
          row = [state |-> "active", stored |-> TRUE, extraction |-> e, index |-> x,
                 hash |-> None, error |-> None]
    /\ chunks = {} /\ memories = {}
    /\ idx = [i \in Indexers |-> NoIndex]
    /\ rst = [r \in Resets |-> NoReset]

-----------------------------------------------------------------------------
(* Locks and connections.                                                  *)

LockFree == \A i \in Indexers : idx[i].pc \notin Locked
RowFree  == \A i \in Indexers : idx[i].pc \notin Claimed
HasConnection ==
    Cardinality({i \in Indexers : idx[i].pc \in Locked})
      + Cardinality({r \in Resets : rst[r].pc \in Resetting}) < Connections

\* Rows that a transaction has changed, or waits to change, and another has
\* changed and not committed. A set of rows that is gone blocks nobody.
HoldsMemories(r) == rst[r].pc \in Resetting /\ rst[r].memories \cap memories # {}
HoldsChunks(r) == rst[r].pc \in {"chunks", "document"} /\ rst[r].chunks \cap chunks # {}
ResetWaits(r, i) ==
    \/ rst[r].pc = "memories" /\ HoldsMemories(r) /\ idx[i].pc = "commit"
    \/ rst[r].pc = "chunks" /\ HoldsChunks(r) /\ idx[i].pc \in {"memories", "commit"}
    \/ rst[r].pc = "document" /\ idx[i].pc \in Claimed
IndexWaits(i, r) ==
    \/ idx[i].pc = "chunks" /\ HoldsChunks(r)
    \/ idx[i].pc = "memories" /\ HoldsMemories(r)

\* The two status helpers: a failure writes its envelope, any other status
\* clears an envelope of its own layer.
ExtractionAs(status, r) ==
    [r EXCEPT !.extraction = status,
              !.error = IF status = "failed" THEN "extraction"
                        ELSE IF r.error = "extraction" THEN None ELSE r.error]
IndexAsKeepsError(status, r) ==   \* mutant: success leaves the envelope
    [r EXCEPT !.index = status, !.error = IF status = "failed" THEN "semantic_index" ELSE @]
IndexAs(status, r) ==
    [r EXCEPT !.index = status,
              !.error = IF status = "failed" THEN "semantic_index"
                        ELSE IF r.error = "semantic_index" THEN None ELSE r.error]

-----------------------------------------------------------------------------
(* indexDocumentText.                                                      *)

IdxGoto(i, pc) == idx' = [idx EXCEPT ![i].pc = pc]
KeepData == UNCHANGED <<row, chunks, memories>>

\* Mutant: any indexed text counts as this one.
LoadAnyHash(i, t) ==
    /\ idx[i].pc = "idle"
    /\ LockFree /\ HasConnection
    /\ idx' = [idx EXCEPT ![i] =
                 [pc |-> IF ~Active THEN "notfound" ELSE IF row.hash # None THEN "count" ELSE "claim",
                  text |-> t, pending |-> row.extraction = "pending"]]
    /\ KeepData

\* BEGIN, the advisory lock, and the SELECT that finds the document.
LoadDocument(i, t) ==
    /\ idx[i].pc = "idle"
    /\ LockFree /\ HasConnection
    /\ idx' = [idx EXCEPT ![i] =
                 [pc |-> IF ~Active THEN "notfound" ELSE IF row.hash = t THEN "count" ELSE "claim",
                  text |-> t, pending |-> row.extraction = "pending"]]
    /\ KeepData

\* maybeIdempotentSkip: the same hash and at least one active chunk.
CountChunks(i) ==
    /\ idx[i].pc = "count"
    /\ IdxGoto(i, IF chunks = {} THEN "claim" ELSE "heal")
    /\ KeepData

\* The skip repairs an extraction that was loaded as pending, and commits.
Skip(i) ==
    /\ idx[i].pc = "heal"
    /\ row' = IF idx[i].pending /\ Active THEN ExtractionAs("complete", row) ELSE row
    /\ IdxGoto(i, "skipped")
    /\ UNCHANGED <<chunks, memories>>

\* Mutants: 'running' is committed at once; a refused UPDATE is tried again.
AdvanceVisible(i) ==
    /\ idx[i].pc = "claim"
    /\ IdxGoto(i, IF Active /\ row.index # "not_required" THEN "prepare" ELSE "refused")
    /\ row' = IF Active THEN [row EXCEPT !.index = "running"] ELSE row
    /\ UNCHANGED <<chunks, memories>>
AdvanceRetries(i) ==
    /\ idx[i].pc = "claim"
    /\ Active /\ row.index # "not_required"
    /\ IdxGoto(i, "prepare")
    /\ KeepData

\* tryAdvanceToRunning: the conditional UPDATE, or ROLLBACK and 409.
Advance(i) ==
    /\ idx[i].pc = "claim"
    /\ IdxGoto(i, IF Active /\ row.index # "not_required" THEN "prepare" ELSE "refused")
    /\ KeepData

\* semanticValidate and prepareChunks, the await of the embeddings.
Prepare(i) ==
    /\ idx[i].pc = "prepare"
    /\ IdxGoto(i, "chunks")
    /\ KeepData

\* clearPriorGeneration: two statements that wait for the rows they change.
ClearChunks(i) ==
    /\ idx[i].pc = "chunks"
    /\ \A r \in Resets : ~IndexWaits(i, r)
    /\ IdxGoto(i, "memories")
    /\ KeepData

ClearMemories(i) ==
    /\ idx[i].pc = "memories"
    /\ \A r \in Resets : ~IndexWaits(i, r)
    /\ IdxGoto(i, "commit")
    /\ KeepData

\* Mutant: the prior generation of chunks stays active.
GenerationKept(i) == chunks \cup {i}

\* The rows after insertDocumentChunks. Those that were active went at
\* ClearChunks: none can have come since, under the advisory lock.
Generation(i) == {i}

\* The statements after the clearing, and COMMIT, whose answer may be lost.
CommitIndex(i) ==
    /\ idx[i].pc = "commit"
    /\ chunks' = Generation(i)
    /\ memories' = {i}
    /\ row' = [IndexAs("complete", ExtractionAs("complete", row)) EXCEPT !.hash = idx[i].text]
    /\ IdxGoto(i, "indexed") \/ IdxGoto(i, "mark")

\* A refused text, the embedding service or any statement throws: ROLLBACK.
Throw(i) ==
    /\ idx[i].pc \in Locked
    /\ IdxGoto(i, "mark")
    /\ KeepData

\* markIndexerFailureBestEffort: a fresh statement after the ROLLBACK, with the
\* lock gone; it may fail too.
MarkFailed(i) ==
    /\ idx[i].pc = "mark"
    /\ RowFree /\ HasConnection
    /\ row' \in {row, IF Active THEN IndexAs("failed", row) ELSE row}
    /\ IdxGoto(i, "error")
    /\ UNCHANGED <<chunks, memories>>

\* The process stops: the transaction and its locks go with its connection.
CrashIndex(i) ==
    /\ idx[i].pc \in Locked \cup {"mark"}
    /\ IdxGoto(i, "crashed")
    /\ KeepData

IndexStep(i) ==
    \/ CountChunks(i) \/ Skip(i) \/ Advance(i) \/ Prepare(i) \/ ClearChunks(i)
    \/ ClearMemories(i) \/ CommitIndex(i) \/ MarkFailed(i)

-----------------------------------------------------------------------------
(* The failure reports, the DELETE and the storage layer: single steps.    *)

\* markExtractionFailure.
ReportExtractionFailure ==
    /\ LockFree /\ HasConnection /\ Active
    /\ \/ /\ row.extraction = "failed"
          /\ row' = ExtractionAs("failed", row)
       \/ /\ row.extraction = "pending" /\ row.stored
          /\ row' = IndexAs("not_required", ExtractionAs("failed", row))
    /\ UNCHANGED <<chunks, memories, idx, rst>>

\* markIndexFailure; tooLarge is the code index_text_too_large.
ReportIndexFailure(tooLarge) ==
    /\ LockFree /\ HasConnection /\ Active
    /\ \/ /\ \/ row.index = "failed"
             \/ row.extraction = "complete" /\ row.index = "pending" /\ row.stored
          /\ row' = IndexAs("failed", row)
       \/ /\ row.extraction = "pending" /\ row.index = "pending" /\ row.stored /\ tooLarge
          /\ row' = IndexAs("failed", ExtractionAs("complete", row))
    /\ UNCHANGED <<chunks, memories, idx, rst>>

DeleteUnlocked ==   \* mutant: without the advisory lock
    /\ HasConnection /\ Active
    /\ \A r \in Resets : ~HoldsMemories(r) /\ ~HoldsChunks(r)
    /\ row' = [row EXCEPT !.state = "removed"]
    /\ chunks' = {} /\ memories' = {}
    /\ UNCHANGED <<idx, rst>>

\* softDeleteDocumentCascade: its row locks are those of a reset that is under
\* way, which has no lock of its own to wait for.
DeleteDocument ==
    /\ LockFree /\ HasConnection /\ Active
    /\ \A r \in Resets : ~HoldsMemories(r) /\ ~HoldsChunks(r)
    /\ row' = [row EXCEPT !.state = "removed"]
    /\ chunks' = {} /\ memories' = {}
    /\ UNCHANGED <<idx, rst>>

\* The upload of the raw bytes claims the slot, fails, or is recorded.
StorageMoves ==
    /\ Active /\ RowFree /\ HasConnection
    /\ \/ LockFree /\ row' = [row EXCEPT !.stored = FALSE]
       \/ ~row.stored /\ row' = [row EXCEPT !.error = "raw_storage"]
       \/ ~row.stored /\ row' = [row EXCEPT !.stored = TRUE,
                                            !.error = IF @ = "raw_storage" THEN None ELSE @]
    /\ UNCHANGED <<chunks, memories, idx, rst>>

-----------------------------------------------------------------------------
(* deleteBySource.                                                         *)

ResetMemories(r) ==
    /\ rst[r].pc = "idle" /\ HasConnection
    /\ rst' = [rst EXCEPT ![r] = [NoReset EXCEPT !.pc = "memories", !.memories = memories]]
    /\ UNCHANGED <<row, chunks, memories, idx>>

ResetChunks(r) ==
    /\ rst[r].pc = "memories"
    /\ \A i \in Indexers : ~ResetWaits(r, i)
    /\ rst' = [rst EXCEPT ![r].pc = "chunks", ![r].chunks = chunks]
    /\ UNCHANGED <<row, chunks, memories, idx>>

ResetDocument(r) ==
    /\ rst[r].pc = "chunks"
    /\ \A i \in Indexers : ~ResetWaits(r, i)
    /\ rst' = [rst EXCEPT ![r].pc = "document"]
    /\ UNCHANGED <<row, chunks, memories, idx>>

\* The UPDATE of the row gets its lock, and COMMIT.
CommitReset(r) ==
    /\ rst[r].pc = "document"
    /\ \A i \in Indexers : ~ResetWaits(r, i)
    /\ row' = IF Active THEN [row EXCEPT !.state = "reset"] ELSE row
    /\ memories' = memories \ rst[r].memories
    /\ chunks' = chunks \ rst[r].chunks
    /\ rst' = [rst EXCEPT ![r].pc = "ok"]
    /\ UNCHANGED idx

\* The process stops, or a statement throws: ROLLBACK.
AbortReset(r) ==
    /\ rst[r].pc \in Resetting
    /\ rst' = [rst EXCEPT ![r].pc = "error"]
    /\ UNCHANGED <<row, chunks, memories, idx>>

ResetStep(r) == ResetChunks(r) \/ ResetDocument(r) \/ CommitReset(r)

\* The database finds an index call and a reset waiting for each other.
BreakDeadlock(i, r) ==
    /\ ResetWaits(r, i) /\ IndexWaits(i, r)
    /\ \/ IdxGoto(i, "mark") /\ UNCHANGED rst
       \/ rst' = [rst EXCEPT ![r].pc = "error"] /\ UNCHANGED idx
    /\ KeepData

-----------------------------------------------------------------------------
Next ==
    \/ \E i \in Indexers :
          /\ IndexStep(i) \/ Throw(i) \/ CrashIndex(i) \/ \E t \in Texts : LoadDocument(i, t)
          /\ UNCHANGED rst
    \/ ReportExtractionFailure
    \/ \E tooLarge \in BOOLEAN : ReportIndexFailure(tooLarge)
    \/ DeleteDocument
    \/ StorageMoves
    \/ \E r \in Resets : ResetMemories(r) \/ ResetStep(r) \/ AbortReset(r)
    \/ \E i \in Indexers, r \in Resets : BreakDeadlock(i, r)

Spec == Init /\ [][Next]_vars

\* A request that has begun is driven on, and the database breaks deadlocks.
Fairness ==
    /\ \A i \in Indexers : WF_vars(IndexStep(i) /\ UNCHANGED rst)
    /\ \A r \in Resets : WF_vars(ResetStep(r))
    /\ \A i \in Indexers, r \in Resets : WF_vars(BreakDeadlock(i, r))

FairSpec == Spec /\ Fairness

-----------------------------------------------------------------------------
TypeOK ==
    /\ row \in RowType
    /\ chunks \subseteq Indexers /\ memories \subseteq Indexers
    /\ idx \in [Indexers -> IdxType]
    /\ rst \in [Resets -> RstType]

\* An active document is searchable by all of one text or by nothing: its
\* chunks and its memories are those of a single call, and that call's text is
\* the one the idempotency hash promises, whatever failed or was cut in between.
IndexedIsWhole ==
    Active =>
       /\ memories = chunks
       /\ IF row.hash = None THEN chunks = {}
          ELSE \E i \in Indexers : chunks = {i} /\ idx[i].text = row.hash

\* last_error never blames a layer that has since succeeded.
ErrorNamesFailure ==
    /\ row.error = "extraction" => row.extraction = "failed"
    /\ row.error = "semantic_index" => row.index = "failed"

\* After the DELETE of a document nothing of it can be found by search, also
\* when an index call of the document was under way.
DeleteForgets == row.state = "removed" => chunks = {} /\ memories = {}

\* The same of the reset of its source.
ResetForgets == row.state = "reset" => chunks = {} /\ memories = {}

\* A document whose extraction failed is not one to be indexed.
FailedExtractionNotIndexed == row.extraction = "failed" => row.index = "not_required"

\* A call that skips its work as already done tells the truth about the text:
\* the document's chunks are those of the text it was sent.
SkipHasText ==
    [][\A i \in Indexers :
          idx[i].pc # "skipped" /\ idx'[i].pc = "skipped" /\ Active =>
             \E j \in Indexers : chunks = {j} /\ idx[j].text = idx[i].text]_vars

\* A retry from 'failed' that answers success lands 'complete'.
RetryCompletes ==
    [][\A i \in Indexers :
          idx[i].pc # "skipped" /\ idx'[i].pc = "skipped" => row.index' = "complete"]_vars

\* No index call and no reset waits for ever, for the lock of a failed or
\* crashed call or for rows that the other one holds.
RequestsFinish ==
    /\ \A i \in Indexers :
          idx[i].pc \in Locked \cup {"mark"} ~> idx[i].pc \in IdxEnds
    /\ \A r \in Resets : rst[r].pc \in Resetting ~> rst[r].pc \notin Resetting
=============================================================================
