----------------------- MODULE DocumentIndexingProofs -----------------------
(***************************************************************************)
(* Theorems about DocumentIndexing for every value of its constants: any   *)
(* number of index calls, resets, texts and connections.                   *)
(***************************************************************************)
EXTENDS DocumentIndexing, TLAPS

Extractions == {"pending", "not_required", "unsupported", "complete", "failed"}
Indexes == {"pending", "not_required", "complete", "failed"}

\* last_error names only layers whose status is failed.
Blames(r) ==
    /\ r.error = "extraction" => r.extraction = "failed"
    /\ r.error = "semantic_index" => r.index = "failed"

\* The two status helpers keep a row a row, of the same document with the same
\* hash, and leave last_error right if it was.
LEMMA ExtractionAsFields ==
  ASSUME NEW r \in RowType, NEW s \in Extractions
  PROVE  /\ ExtractionAs(s, r) \in RowType
         /\ ExtractionAs(s, r).state = r.state
         /\ ExtractionAs(s, r).hash = r.hash
         /\ Blames(r) => Blames(ExtractionAs(s, r))
<1>1. ASSUME NEW e \in {None, "raw_storage", "extraction", "semantic_index"}
      PROVE  /\ [r EXCEPT !.extraction = s, !.error = e] \in RowType
             /\ [r EXCEPT !.extraction = s, !.error = e].state = r.state
             /\ [r EXCEPT !.extraction = s, !.error = e].hash = r.hash
             /\ [r EXCEPT !.extraction = s, !.error = e].extraction = s
             /\ [r EXCEPT !.extraction = s, !.error = e].index = r.index
             /\ [r EXCEPT !.extraction = s, !.error = e].error = e
  BY DEF RowType, Extractions
<1>2. CASE s = "failed"
  <2>1. ExtractionAs(s, r) = [r EXCEPT !.extraction = s, !.error = "extraction"]
    BY <1>2 DEF ExtractionAs
  <2> QED
    BY <1>1, <1>2, <2>1 DEF Blames
<1>3. CASE s # "failed" /\ r.error = "extraction"
  <2>1. ExtractionAs(s, r) = [r EXCEPT !.extraction = s, !.error = None]
    BY <1>3 DEF ExtractionAs
  <2> QED
    BY <1>1, <2>1, NamesAssumption DEF Blames
<1>4. CASE s # "failed" /\ r.error # "extraction"
  <2>1. ExtractionAs(s, r) = [r EXCEPT !.extraction = s, !.error = r.error]
    BY <1>4 DEF ExtractionAs
  <2>2. r.error \in {None, "raw_storage", "extraction", "semantic_index"}
    BY DEF RowType
  <2> QED
    BY <1>1, <1>4, <2>1, <2>2 DEF Blames
<1> QED
  BY <1>2, <1>3, <1>4

LEMMA IndexAsFields ==
  ASSUME NEW r \in RowType, NEW s \in Indexes
  PROVE  /\ IndexAs(s, r) \in RowType
         /\ IndexAs(s, r).state = r.state
         /\ IndexAs(s, r).hash = r.hash
         /\ Blames(r) => Blames(IndexAs(s, r))
<1>1. ASSUME NEW e \in {None, "raw_storage", "extraction", "semantic_index"}
      PROVE  /\ [r EXCEPT !.index = s, !.error = e] \in RowType
             /\ [r EXCEPT !.index = s, !.error = e].state = r.state
             /\ [r EXCEPT !.index = s, !.error = e].hash = r.hash
             /\ [r EXCEPT !.index = s, !.error = e].index = s
             /\ [r EXCEPT !.index = s, !.error = e].extraction = r.extraction
             /\ [r EXCEPT !.index = s, !.error = e].error = e
  BY DEF RowType, Indexes
<1>2. CASE s = "failed"
  <2>1. IndexAs(s, r) = [r EXCEPT !.index = s, !.error = "semantic_index"]
    BY <1>2 DEF IndexAs
  <2> QED
    BY <1>1, <1>2, <2>1 DEF Blames
<1>3. CASE s # "failed" /\ r.error = "semantic_index"
  <2>1. IndexAs(s, r) = [r EXCEPT !.index = s, !.error = None]
    BY <1>3 DEF IndexAs
  <2> QED
    BY <1>1, <2>1, NamesAssumption DEF Blames
<1>4. CASE s # "failed" /\ r.error # "semantic_index"
  <2>1. IndexAs(s, r) = [r EXCEPT !.index = s, !.error = r.error]
    BY <1>4 DEF IndexAs
  <2>2. r.error \in {None, "raw_storage", "extraction", "semantic_index"}
    BY DEF RowType
  <2> QED
    BY <1>1, <1>4, <2>1, <2>2 DEF Blames
<1> QED
  BY <1>2, <1>3, <1>4

\* So does one after the other.
LEMMA BothAsFields ==
  ASSUME NEW r \in RowType, NEW s \in Extractions, NEW x \in Indexes
  PROVE  /\ IndexAs(x, ExtractionAs(s, r)) \in RowType
         /\ IndexAs(x, ExtractionAs(s, r)).state = r.state
         /\ IndexAs(x, ExtractionAs(s, r)).hash = r.hash
         /\ Blames(r) => Blames(IndexAs(x, ExtractionAs(s, r)))
<1>1. /\ ExtractionAs(s, r) \in RowType
      /\ ExtractionAs(s, r).state = r.state
      /\ ExtractionAs(s, r).hash = r.hash
      /\ Blames(r) => Blames(ExtractionAs(s, r))
  BY ExtractionAsFields
<1> QED
  BY <1>1, IndexAsFields

-----------------------------------------------------------------------------
\* What the steps other than a commit do to the row: it stays a row of the
\* same document with the same hash, and leaves "active" for good.
KeepsRow ==
    /\ row' \in RowType
    /\ row'.hash = row.hash
    /\ row.state # "active" => row'.state = row.state
    /\ Blames(row) => Blames(row')

LEMMA UnchangedKeepsRow ==
  ASSUME TypeOK, row' = row
  PROVE  KeepsRow
BY DEF TypeOK, KeepsRow

LEMMA SkipKeepsRow ==
  ASSUME TypeOK, NEW i \in Indexers, Skip(i)
  PROVE  KeepsRow
<1>1. row \in RowType
  BY DEF TypeOK
<1>2. row' = row \/ row' = ExtractionAs("complete", row)
  BY DEF Skip
<1> QED
  BY <1>1, <1>2, ExtractionAsFields DEF KeepsRow, Extractions

LEMMA MarkKeepsRow ==
  ASSUME TypeOK, NEW i \in Indexers, MarkFailed(i)
  PROVE  KeepsRow
<1>1. row \in RowType
  BY DEF TypeOK
<1>2. row' = row \/ row' = IndexAs("failed", row)
  BY DEF MarkFailed
<1> QED
  BY <1>1, <1>2, IndexAsFields DEF KeepsRow, Indexes

LEMMA ReportsKeepRow ==
  ASSUME TypeOK,
         ReportExtractionFailure \/ \E tooLarge \in BOOLEAN : ReportIndexFailure(tooLarge)
  PROVE  KeepsRow
<1>1. row \in RowType
  BY DEF TypeOK
<1>2. \/ row' = ExtractionAs("failed", row)
      \/ row' = IndexAs("not_required", ExtractionAs("failed", row))
      \/ row' = IndexAs("failed", row)
      \/ row' = IndexAs("failed", ExtractionAs("complete", row))
  BY DEF ReportExtractionFailure, ReportIndexFailure
<1> QED
  BY <1>1, <1>2, ExtractionAsFields, IndexAsFields, BothAsFields DEF KeepsRow, Extractions, Indexes

LEMMA StorageKeepsRow ==
  ASSUME TypeOK, StorageMoves
  PROVE  KeepsRow
<1>1. row \in RowType
  BY DEF TypeOK
<1>2. \/ row' = [row EXCEPT !.stored = FALSE]
      \/ row' = [row EXCEPT !.error = "raw_storage"]
      \/ row' = [row EXCEPT !.stored = TRUE,
                            !.error = IF row.error = "raw_storage" THEN None ELSE row.error]
  BY DEF StorageMoves
<1>3. CASE row' = [row EXCEPT !.stored = FALSE]
  BY <1>1, <1>3 DEF KeepsRow, RowType, Blames
<1>4. CASE row' = [row EXCEPT !.error = "raw_storage"]
  BY <1>1, <1>4 DEF KeepsRow, RowType, Blames
<1>5. ASSUME NEW e \in {row.error, None}, row' = [row EXCEPT !.stored = TRUE, !.error = e]
      PROVE  KeepsRow
  BY <1>1, <1>5, NamesAssumption DEF KeepsRow, RowType, Blames
<1> QED
  BY <1>2, <1>3, <1>4, <1>5

LEMMA RemovalKeepsRow ==
  ASSUME TypeOK, DeleteDocument \/ \E r \in Resets : CommitReset(r)
  PROVE  KeepsRow
<1>1. row \in RowType
  BY DEF TypeOK
<1>2. \/ row' = row
      \/ row.state = "active" /\ \E s \in {"removed", "reset"} : row' = [row EXCEPT !.state = s]
  BY DEF DeleteDocument, CommitReset, Active
<1> QED
  BY <1>1, <1>2 DEF KeepsRow, RowType, Blames

\* The commit of an index call writes its text's hash.
LEMMA CommitWritesRow ==
  ASSUME TypeOK, NEW i \in Indexers, CommitIndex(i)
  PROVE  /\ row' \in RowType
         /\ row'.hash = idx[i].text
         /\ row'.state = row.state
         /\ Blames(row) => Blames(row')
<1>1. row \in RowType /\ idx[i] \in IdxType
  BY DEF TypeOK
<1> DEFINE n == IndexAs("complete", ExtractionAs("complete", row))
<1>2. n \in RowType /\ n.state = row.state /\ (Blames(row) => Blames(n))
  BY <1>1, BothAsFields DEF Extractions, Indexes
<1>3. row' = [n EXCEPT !.hash = idx[i].text]
  BY DEF CommitIndex
<1> HIDE DEF n
<1> QED
  BY <1>1, <1>2, <1>3 DEF RowType, IdxType, Blames

-----------------------------------------------------------------------------
\* Where a call may go without a change to what it has loaded.
Pcs == {"idle", "mark"} \cup Locked \cup IdxEnds

LEMMA IdxGotoType ==
  ASSUME TypeOK, NEW i \in Indexers, NEW pc \in Pcs, IdxGoto(i, pc)
  PROVE  idx' \in [Indexers -> IdxType]
<1>1. ASSUME NEW c \in IdxType PROVE [c EXCEPT !.pc = pc] \in IdxType
  BY DEF IdxType, Pcs
<1> QED
  BY <1>1 DEF IdxGoto, TypeOK

\* A call moves to another pc, or loads the document, or leaves idx alone.
IdxMoves(i) == \E pc \in Pcs \ {"idle"} : IdxGoto(i, pc)

LEMMA StepsMoveIdx ==
  ASSUME NEW i \in Indexers,
         IndexStep(i) \/ Throw(i) \/ CrashIndex(i) \/ \E r \in Resets : BreakDeadlock(i, r)
  PROVE  IdxMoves(i) \/ idx' = idx
<1> USE DEF IdxMoves, Pcs, Locked, Claimed, IdxEnds
<1>1. CASE CountChunks(i)
  BY <1>1 DEF CountChunks
<1>2. CASE Skip(i) \/ CommitIndex(i) \/ MarkFailed(i) \/ Throw(i) \/ CrashIndex(i)
  BY <1>2 DEF Skip, CommitIndex, MarkFailed, Throw, CrashIndex
<1>3. CASE Advance(i)
  BY <1>3 DEF Advance
<1>4. CASE Prepare(i) \/ ClearChunks(i) \/ ClearMemories(i)
  BY <1>4 DEF Prepare, ClearChunks, ClearMemories
<1>5. CASE \E r \in Resets : BreakDeadlock(i, r)
  BY <1>5 DEF BreakDeadlock
<1> QED
  BY <1>1, <1>2, <1>3, <1>4, <1>5 DEF IndexStep

\* What each action of Next does to the variables, as far as the invariants
\* below care: the commit, the loading, the DELETE, and the rest.
Loads(i) == \E t \in Texts : LoadDocument(i, t)

LEMMA StepCases ==
  ASSUME TypeOK, Next
  PROVE  \/ \E i \in Indexers : CommitIndex(i) /\ UNCHANGED rst
         \/ \E i \in Indexers : Loads(i) /\ UNCHANGED rst
         \/ DeleteDocument
         \/ \E r \in Resets : CommitReset(r)
         \/ /\ KeepsRow /\ UNCHANGED <<chunks, memories>>
            /\ row'.state = row.state
            /\ idx' = idx \/ \E i \in Indexers : IdxMoves(i)
<1>1. row \in RowType
  BY DEF TypeOK
<1>2. ASSUME NEW i \in Indexers, IndexStep(i) \/ Throw(i) \/ CrashIndex(i), ~CommitIndex(i)
      PROVE  KeepsRow /\ UNCHANGED <<chunks, memories>> /\ row'.state = row.state
  <2>1. CASE Skip(i)
    BY <2>1, <1>1, SkipKeepsRow, ExtractionAsFields DEF Skip, Extractions
  <2>2. CASE MarkFailed(i)
    BY <2>2, <1>1, MarkKeepsRow, IndexAsFields DEF MarkFailed, Indexes
  <2>3. CASE KeepData
    BY <2>3, UnchangedKeepsRow DEF KeepData
  <2> QED
    BY <1>2, <2>1, <2>2, <2>3
       DEF IndexStep, CountChunks, Advance, Prepare, ClearChunks, ClearMemories, Throw, CrashIndex
<1>3. CASE ReportExtractionFailure \/ \E tooLarge \in BOOLEAN : ReportIndexFailure(tooLarge)
  <2>1. KeepsRow
    BY <1>3, ReportsKeepRow
  <2>2. UNCHANGED <<chunks, memories, idx>>
    BY <1>3 DEF ReportExtractionFailure, ReportIndexFailure
  <2>3. row'.state = row.state
    <3>1. \/ row' = ExtractionAs("failed", row)
          \/ row' = IndexAs("not_required", ExtractionAs("failed", row))
          \/ row' = IndexAs("failed", row)
          \/ row' = IndexAs("failed", ExtractionAs("complete", row))
      BY <1>3 DEF ReportExtractionFailure, ReportIndexFailure
    <3> QED
      BY <1>1, <3>1, ExtractionAsFields, IndexAsFields, BothAsFields DEF Extractions, Indexes
  <2> QED
    BY <2>1, <2>2, <2>3
<1>4. CASE StorageMoves
  <2>1. row'.state = row.state
    BY <1>1, <1>4 DEF StorageMoves, RowType
  <2> QED
    BY <1>4, <2>1, StorageKeepsRow DEF StorageMoves
<1>5. ASSUME NEW r \in Resets, ResetMemories(r) \/ ResetChunks(r) \/ ResetDocument(r) \/ AbortReset(r)
      PROVE  UNCHANGED <<row, chunks, memories, idx>>
  BY <1>5 DEF ResetMemories, ResetChunks, ResetDocument, AbortReset
<1>6. ASSUME NEW i \in Indexers, NEW r \in Resets, BreakDeadlock(i, r)
      PROVE  KeepsRow /\ UNCHANGED <<row, chunks, memories>> /\ (idx' = idx \/ IdxMoves(i))
  <2>1. UNCHANGED <<row, chunks, memories>>
    BY <1>6 DEF BreakDeadlock, KeepData
  <2> QED
    BY <1>6, <2>1, UnchangedKeepsRow, StepsMoveIdx
<1>7. CASE \E i \in Indexers :
             /\ IndexStep(i) \/ Throw(i) \/ CrashIndex(i) \/ Loads(i)
             /\ UNCHANGED rst
  BY <1>2, <1>7, StepsMoveIdx
<1>8. CASE \E r \in Resets : ResetMemories(r) \/ ResetStep(r) \/ AbortReset(r)
  BY <1>5, <1>8, UnchangedKeepsRow DEF ResetStep
<1> QED
  BY <1>3, <1>4, <1>6, <1>7, <1>8 DEF Next, Loads

-----------------------------------------------------------------------------
(* Type correctness.                                                       *)

LEMMA ResetRecords ==
  ASSUME TypeOK, NEW r \in Resets, ResetMemories(r) \/ ResetStep(r) \/ AbortReset(r)
  PROVE  rst' \in [Resets -> RstType]
<1>1. rst[r] \in RstType /\ chunks \subseteq Indexers /\ memories \subseteq Indexers
  BY DEF TypeOK
<1>2. ASSUME NEW n \in RstType, rst' = [rst EXCEPT ![r] = n]
      PROVE  rst' \in [Resets -> RstType]
  BY <1>2 DEF TypeOK
<1>3. CASE ResetMemories(r)
  <2>1. [NoReset EXCEPT !.pc = "memories", !.memories = memories] \in RstType
    BY <1>1 DEF NoReset, RstType, Resetting
  <2> QED
    BY <1>2, <1>3, <2>1 DEF ResetMemories
<1>4. CASE ResetChunks(r)
  <2>1. [rst[r] EXCEPT !.pc = "chunks", !.chunks = chunks] \in RstType
    BY <1>1 DEF RstType, Resetting
  <2>2. rst' = [rst EXCEPT ![r] = [rst[r] EXCEPT !.pc = "chunks", !.chunks = chunks]]
    BY <1>4 DEF ResetChunks, TypeOK
  <2> QED
    BY <1>2, <2>1, <2>2
<1>5. ASSUME NEW pc \in {"document", "ok", "error"}, rst' = [rst EXCEPT ![r].pc = pc]
      PROVE  rst' \in [Resets -> RstType]
  <2>1. [rst[r] EXCEPT !.pc = pc] \in RstType
    BY <1>1 DEF RstType, Resetting
  <2> QED
    BY <1>2, <1>5, <2>1
<1> QED
  BY <1>3, <1>4, <1>5 DEF ResetStep, ResetDocument, CommitReset, AbortReset

LEMMA ResetsKeepType ==
  ASSUME TypeOK, Next
  PROVE  rst' \in [Resets -> RstType]
<1>1. CASE rst' = rst
  BY <1>1 DEF TypeOK
<1>2. ASSUME NEW i \in Indexers, NEW r \in Resets, BreakDeadlock(i, r)
      PROVE  rst' \in [Resets -> RstType]
  <2>1. [rst[r] EXCEPT !.pc = "error"] \in RstType
    BY DEF TypeOK, RstType, Resetting
  <2>2. rst' = rst \/ rst' = [rst EXCEPT ![r] = [rst[r] EXCEPT !.pc = "error"]]
    BY <1>2 DEF BreakDeadlock
  <2> QED
    BY <2>1, <2>2 DEF TypeOK
<1> QED
  BY <1>1, <1>2, ResetRecords
     DEF Next, ReportExtractionFailure, ReportIndexFailure, DeleteDocument, StorageMoves

\* Init and each kind of step of StepCases keep every variable in its domain.
LEMMA InitTypes ==
  Init => TypeOK
BY NamesAssumption DEF Init, TypeOK, RowType, IdxType, NoIndex, RstType, NoReset, Locked, IdxEnds

LEMMA StepTypes ==
  ASSUME TypeOK, Next
  PROVE  TypeOK'
<1>1. CASE \E i \in Indexers : CommitIndex(i) /\ UNCHANGED rst
  <2> PICK i \in Indexers : CommitIndex(i)
    BY <1>1
  <2>1. row' \in RowType
    BY CommitWritesRow
  <2>2. chunks' \subseteq Indexers /\ memories' \subseteq Indexers
    BY DEF CommitIndex, Generation
  <2>3. idx' \in [Indexers -> IdxType]
    BY IdxGotoType DEF CommitIndex, Pcs, IdxEnds
  <2> QED
    BY <2>1, <2>2, <2>3, ResetsKeepType DEF TypeOK
<1>2. CASE \E i \in Indexers : Loads(i) /\ UNCHANGED rst
  <2> PICK i \in Indexers, t \in Texts : LoadDocument(i, t)
    BY <1>2 DEF Loads
  <2>1. PICK pc \in {"notfound", "count", "claim"} :
           idx' = [idx EXCEPT ![i] = [pc |-> pc, text |-> t, pending |-> row.extraction = "pending"]]
    BY DEF LoadDocument
  <2>2. [pc |-> pc, text |-> t, pending |-> row.extraction = "pending"] \in IdxType
    BY DEF IdxType, Locked, IdxEnds
  <2> QED
    BY <2>1, <2>2, ResetsKeepType DEF LoadDocument, KeepData, TypeOK
<1>3. CASE DeleteDocument
  BY <1>3, RemovalKeepsRow, ResetsKeepType DEF DeleteDocument, TypeOK, KeepsRow
<1>4. CASE \E r \in Resets : CommitReset(r)
  BY <1>4, RemovalKeepsRow, ResetsKeepType DEF CommitReset, TypeOK, KeepsRow
<1>5. CASE /\ KeepsRow /\ UNCHANGED <<chunks, memories>>
           /\ idx' = idx \/ \E i \in Indexers : IdxMoves(i)
  <2>1. idx' \in [Indexers -> IdxType]
    BY <1>5, IdxGotoType DEF IdxMoves, TypeOK
  <2> QED
    BY <1>5, <2>1, ResetsKeepType DEF KeepsRow, TypeOK
<1> QED
  BY <1>1, <1>2, <1>3, <1>4, <1>5, StepCases

\* The row, the chunks, the memories and the locals of every call and reset stay
\* in their domains: 'running' never becomes visible (document-indexer.ts).
THEOREM IndexTypeCorrect == Spec => []TypeOK
<1>1. TypeOK /\ UNCHANGED vars => TypeOK'
  BY DEF TypeOK, vars
<1> QED
  BY InitTypes, StepTypes, <1>1, PTL DEF Spec

-----------------------------------------------------------------------------
(* last_error.                                                             *)

LEMMA InitBlames ==
  Init => ErrorNamesFailure
BY NamesAssumption DEF Init, ErrorNamesFailure

LEMMA StepBlames ==
  ASSUME TypeOK, ErrorNamesFailure, Next
  PROVE  ErrorNamesFailure'
<1>1. Blames(row)
  BY DEF ErrorNamesFailure, Blames
<1>2. Blames(row')
  BY <1>1, StepCases, CommitWritesRow, RemovalKeepsRow
     DEF KeepsRow, Loads, LoadDocument, KeepData
<1> QED
  BY <1>2 DEF ErrorNamesFailure, Blames

\* last_error never blames a layer that has since succeeded, whatever calls,
\* reports and failures are interleaved (raw-document-status-repository.ts).
THEOREM ErrorIsCurrent == Spec => []ErrorNamesFailure
<1>1. ErrorNamesFailure /\ UNCHANGED vars => ErrorNamesFailure'
  BY DEF ErrorNamesFailure, vars
<1> QED
  BY InitBlames, StepBlames, <1>1, IndexTypeCorrect, PTL DEF Spec

-----------------------------------------------------------------------------
(* The DELETE of a document.                                               *)

\* Once the document is removed no call holds its lock: those that come later
\* do not find it.
RemovedInv ==
    row.state = "removed" => chunks = {} /\ memories = {} /\ LockFree

LEMMA InitRemoved ==
  Init => RemovedInv
BY DEF Init, RemovedInv

\* A call that moves without loading holds the lock only if it did before.
LEMMA MovesKeepLockFree ==
  ASSUME TypeOK, Next, LockFree, row.state = "removed"
  PROVE  LockFree'
<1> USE DEF LockFree, Locked, Claimed, IdxEnds
<1>1. ASSUME NEW i \in Indexers, IndexStep(i) \/ Throw(i) \/ CrashIndex(i) \/ Loads(i)
      PROVE  LockFree'
  <2>1. PICK pc \in IdxEnds : idx'[i].pc = pc /\ \A j \in Indexers \ {i} : idx'[j] = idx[j]
    BY <1>1 DEF TypeOK, IdxType, IndexStep, CountChunks, Skip, Advance, Prepare, ClearChunks, ClearMemories,
                CommitIndex, MarkFailed, Throw, CrashIndex, Loads, LoadDocument, Active, IdxGoto
  <2> QED
    BY <2>1
<1>2. ASSUME NEW i \in Indexers, NEW r \in Resets, BreakDeadlock(i, r)
      PROVE  LockFree'
  BY <1>2 DEF BreakDeadlock, IndexWaits
<1>3. CASE idx' = idx
  BY <1>3
<1> QED
  BY <1>1, <1>2, <1>3
     DEF Next, Loads, ReportExtractionFailure, ReportIndexFailure, DeleteDocument, StorageMoves,
         ResetMemories, ResetStep, ResetChunks, ResetDocument, CommitReset, AbortReset

LEMMA StepRemoved ==
  ASSUME TypeOK, RemovedInv, Next
  PROVE  RemovedInv'
<1>1. CASE row.state = "removed"
  <2>1. chunks = {} /\ memories = {} /\ LockFree
    BY <1>1 DEF RemovedInv
  <2>2. LockFree'
    BY <1>1, <2>1, MovesKeepLockFree
  <2>3. ~ \E i \in Indexers : CommitIndex(i)
    BY <2>1 DEF LockFree, CommitIndex, Locked, Claimed
  <2>4. chunks' = {} /\ memories' = {}
    BY <2>1, <2>3, StepCases DEF Loads, LoadDocument, KeepData, DeleteDocument, CommitReset
  <2> QED
    BY <2>2, <2>4 DEF RemovedInv
<1>2. CASE row.state # "removed" /\ DeleteDocument
  BY <1>2 DEF DeleteDocument, RemovedInv, LockFree
<1>3. CASE row.state # "removed" /\ ~DeleteDocument
  <2>1. row'.state # "removed"
    BY <1>3, StepCases, CommitWritesRow DEF Loads, LoadDocument, KeepData, CommitReset, TypeOK, RowType
  <2> QED
    BY <2>1 DEF RemovedInv
<1> QED
  BY <1>1, <1>2, <1>3

\* After the DELETE of a document none of its chunks and memories is active,
\* also when index calls were under way or come later, because the DELETE takes
\* the document's advisory lock (softDeleteDocumentCascade).
THEOREM DeletedIsForgotten == Spec => []DeleteForgets
<1>1. RemovedInv /\ UNCHANGED vars => RemovedInv'
  BY DEF RemovedInv, LockFree, vars
<1>2. RemovedInv => DeleteForgets
  BY DEF RemovedInv, DeleteForgets
<1> QED
  BY InitRemoved, StepRemoved, <1>1, <1>2, IndexTypeCorrect, PTL DEF Spec

-----------------------------------------------------------------------------
(* The generation that search sees.                                        *)

\* A call that has begun keeps its text, and only calls that have begun write.
WholeInv ==
    /\ IndexedIsWhole
    /\ \A i \in Indexers : idx[i].pc \in Locked => idx[i].text \in Texts
    /\ \A i \in chunks : idx[i].pc # "idle"

LEMMA InitWhole ==
  Init => WholeInv
BY DEF Init, WholeInv, IndexedIsWhole, NoIndex, Locked, Claimed

\* What every step does to the calls: their texts stay, and none goes back.
LEMMA StepsKeepTexts ==
  ASSUME TypeOK, WholeInv, Next
  PROVE  /\ \A i \in Indexers : idx'[i].pc \in Locked => idx'[i].text \in Texts
         /\ \A i \in Indexers : idx[i].pc # "idle" => idx'[i].text = idx[i].text /\ idx'[i].pc # "idle"
<1> USE DEF Locked, Claimed, IdxEnds
<1>1. ASSUME NEW i \in Indexers, IndexStep(i) \/ Throw(i) \/ CrashIndex(i)
      PROVE  /\ idx'[i].text = idx[i].text /\ idx'[i].pc # "idle"
             /\ idx'[i].pc \in Locked => idx[i].pc \in Locked
             /\ \A j \in Indexers \ {i} : idx'[j] = idx[j]
  BY <1>1 DEF TypeOK, IdxType, IndexStep, CountChunks, Skip, Advance, Prepare, ClearChunks, ClearMemories,
              CommitIndex, MarkFailed, Throw, CrashIndex, IdxGoto
<1>2. ASSUME NEW i \in Indexers, NEW t \in Texts, LoadDocument(i, t)
      PROVE  /\ idx[i].pc = "idle" /\ idx'[i].text \in Texts
             /\ \A j \in Indexers \ {i} : idx'[j] = idx[j]
  BY <1>2 DEF LoadDocument, TypeOK
<1>3. ASSUME NEW i \in Indexers, NEW r \in Resets, BreakDeadlock(i, r)
      PROVE  idx' = idx \/ /\ idx'[i].text = idx[i].text /\ idx'[i].pc = "mark"
                           /\ \A j \in Indexers \ {i} : idx'[j] = idx[j]
  BY <1>3 DEF BreakDeadlock, IdxGoto, TypeOK, IdxType
<1>4. CASE idx' = idx
  BY <1>4 DEF WholeInv
<1> QED
  BY <1>1, <1>2, <1>3, <1>4
     DEF WholeInv, Next, ReportExtractionFailure, ReportIndexFailure, DeleteDocument, StorageMoves,
         ResetMemories, ResetStep, ResetChunks, ResetDocument, CommitReset, AbortReset

LEMMA StepWhole ==
  ASSUME TypeOK, WholeInv, Next
  PROVE  WholeInv'
<1>1. /\ \A i \in Indexers : idx'[i].pc \in Locked => idx'[i].text \in Texts
      /\ \A i \in Indexers : idx[i].pc # "idle" => idx'[i].text = idx[i].text /\ idx'[i].pc # "idle"
  BY StepsKeepTexts
<1>2. CASE \E i \in Indexers : CommitIndex(i)
  <2> PICK i \in Indexers : CommitIndex(i)
    BY <1>2
  <2>1. idx[i].pc = "commit" /\ idx[i].text \in Texts
    BY DEF CommitIndex, WholeInv, Locked, Claimed
  <2>2. chunks' = {i} /\ memories' = {i} /\ row'.hash = idx[i].text
    BY CommitWritesRow DEF CommitIndex, Generation
  <2>3. idx'[i].text = idx[i].text /\ idx'[i].pc # "idle"
    BY <1>1, <2>1
  <2>4. row'.hash # None
    BY <2>1, <2>2, NamesAssumption
  <2> QED
    BY <1>1, <2>2, <2>3, <2>4 DEF WholeInv, IndexedIsWhole
<1>3. CASE row'.state # "active" /\ chunks' \subseteq chunks
  BY <1>1, <1>3 DEF WholeInv, IndexedIsWhole, Active, TypeOK
<1>4. CASE UNCHANGED <<chunks, memories>> /\ row'.hash = row.hash /\ row'.state = row.state
  <2>1. IndexedIsWhole'
    BY <1>1, <1>4 DEF WholeInv, IndexedIsWhole, Active, TypeOK
  <2> QED
    BY <1>1, <1>4, <2>1 DEF WholeInv, TypeOK
<1>5. CASE DeleteDocument
  BY <1>3, <1>5 DEF DeleteDocument, TypeOK, RowType
<1>6. CASE \E r \in Resets : CommitReset(r)
  BY <1>3, <1>6 DEF CommitReset, Active, TypeOK, RowType
<1> QED
  BY <1>2, <1>4, <1>5, <1>6, StepCases DEF KeepsRow, Loads, LoadDocument, KeepData

\* An active document is searchable by all of one text, the one its
\* indexed_content_hash names, or by nothing (indexDocumentText).
THEOREM WholeGeneration == Spec => []IndexedIsWhole
<1>1. WholeInv /\ UNCHANGED vars => WholeInv'
  BY DEF WholeInv, IndexedIsWhole, Active, vars
<1>2. WholeInv => IndexedIsWhole
  BY DEF WholeInv
<1> QED
  BY InitWhole, StepWhole, <1>1, <1>2, IndexTypeCorrect, PTL DEF Spec

-----------------------------------------------------------------------------
(* The idempotent skip.                                                    *)

\* One call at a time is under the advisory lock, and the hash that sent it to the
\* count is still the row's: nobody else can commit a generation meanwhile.
SkipInv ==
    /\ WholeInv
    /\ \A i, j \in Indexers : idx[i].pc \in Locked /\ idx[j].pc \in Locked => i = j
    /\ \A i \in Indexers : idx[i].pc \in {"count", "heal"} => row.hash = idx[i].text

LEMMA InitSkip ==
  Init => SkipInv
<1>1. Init => \A i \in Indexers : idx[i].pc = "idle"
  BY DEF Init, NoIndex
<1> QED
  BY <1>1, InitWhole DEF SkipInv, Locked, Claimed

\* A call comes to the lock by loading the document, and to the skip by its hash.
LEMMA StepsKeepSeen ==
  ASSUME TypeOK, Next, NEW i \in Indexers
  PROVE  /\ idx'[i].pc \in Locked =>
               \/ idx[i].pc \in Locked
               \/ LockFree /\ \A j \in Indexers \ {i} : idx'[j] = idx[j]
         /\ idx'[i].pc \in {"count", "heal"} =>
               \/ idx[i].pc \in {"count", "heal"} /\ idx'[i].text = idx[i].text
               \/ row.hash = idx'[i].text
         /\ idx[i].pc # "skipped" /\ idx'[i].pc = "skipped" => idx[i].pc = "heal"
<1> USE DEF Locked, Claimed, IdxEnds
<1>1. CASE idx' = idx
  BY <1>1
<1>2. ASSUME NEW k \in Indexers, IndexStep(k) \/ Throw(k) \/ CrashIndex(k)
      PROVE  /\ idx[k].pc \in Locked \cup {"mark"} /\ idx'[k].text = idx[k].text
             /\ idx'[k].pc \in Locked => idx[k].pc \in Locked
             /\ idx'[k].pc \in {"count", "heal"} => idx[k].pc \in {"count", "heal"}
             /\ idx'[k].pc = "skipped" => idx[k].pc = "heal"
             /\ \A j \in Indexers \ {k} : idx'[j] = idx[j]
  BY <1>2 DEF TypeOK, IdxType, IndexStep, CountChunks, Skip, Advance, Prepare, ClearChunks, ClearMemories,
              CommitIndex, MarkFailed, Throw, CrashIndex, IdxGoto
<1>3. ASSUME NEW k \in Indexers, NEW t \in Texts, LoadDocument(k, t)
      PROVE  /\ LockFree /\ idx'[k].pc # "skipped"
             /\ idx'[k].pc \in {"count", "heal"} => row.hash = idx'[k].text
             /\ \A j \in Indexers \ {k} : idx'[j] = idx[j]
  BY <1>3 DEF TypeOK, IdxType, LoadDocument
<1>4. ASSUME NEW k \in Indexers, NEW r \in Resets, BreakDeadlock(k, r)
      PROVE  /\ idx'[k].pc \in {idx[k].pc, "mark"} /\ idx'[k].text = idx[k].text
             /\ \A j \in Indexers \ {k} : idx'[j] = idx[j]
  BY <1>4 DEF BreakDeadlock, IdxGoto, TypeOK, IdxType
<1> QED
  BY <1>1, <1>2, <1>3, <1>4
     DEF Next, ReportExtractionFailure, ReportIndexFailure, DeleteDocument, StorageMoves,
         ResetMemories, ResetStep, ResetChunks, ResetDocument, CommitReset, AbortReset

LEMMA StepSkip ==
  ASSUME TypeOK, SkipInv, Next
  PROVE  SkipInv'
<1>1. WholeInv'
  BY StepWhole DEF SkipInv
<1>2. \A i, j \in Indexers : idx'[i].pc \in Locked /\ idx'[j].pc \in Locked => i = j
  BY StepsKeepSeen DEF SkipInv, LockFree
<1>3. ASSUME NEW i \in Indexers, idx'[i].pc \in {"count", "heal"}
      PROVE  row'.hash = idx'[i].text
  <2>1. row.hash = idx'[i].text
    BY <1>3, StepsKeepSeen DEF SkipInv
  <2>2. CASE \E k \in Indexers : CommitIndex(k)
    <3>1. PICK k \in Indexers : CommitIndex(k)
      BY <2>2
    <3>2. idx[k].pc = "commit" /\ idx'[k].pc \in {"indexed", "mark"}
          /\ \A j \in Indexers \ {k} : idx'[j] = idx[j]
      BY <3>1 DEF CommitIndex, IdxGoto, TypeOK, IdxType
    <3>3. i # k /\ idx[i].pc \in Locked /\ idx[k].pc \in Locked
      BY <1>3, <3>2 DEF Locked, Claimed
    <3> QED
      BY <3>3 DEF SkipInv
  <2>3. CASE ~ \E k \in Indexers : CommitIndex(k)
    <3>1. row'.hash = row.hash
      BY <2>3, StepCases DEF KeepsRow, Loads, LoadDocument, KeepData, DeleteDocument, CommitReset,
         TypeOK, RowType
    <3> QED
      BY <2>1, <3>1
  <2> QED
    BY <2>2, <2>3
<1> QED
  BY <1>1, <1>2, <1>3 DEF SkipInv

\* A call that skips its work as already done tells the truth: while the document is
\* active its chunks are those of the text it was sent, whatever other calls, failures
\* and resets came between its two reads (maybeIdempotentSkip).
THEOREM SkipIsTrue == Spec => SkipHasText
<1>1. TypeOK /\ SkipInv /\ [Next]_vars =>
        [\A i \in Indexers :
            idx[i].pc # "skipped" /\ idx'[i].pc = "skipped" /\ Active =>
               \E j \in Indexers : chunks = {j} /\ idx[j].text = idx[i].text]_vars
  <2> SUFFICES ASSUME TypeOK, SkipInv, Next, NEW i \in Indexers,
                      idx[i].pc # "skipped", idx'[i].pc = "skipped", Active
               PROVE  \E j \in Indexers : chunks = {j} /\ idx[j].text = idx[i].text
    OBVIOUS
  <2>1. idx[i].pc = "heal"
    BY StepsKeepSeen
  <2>2. row.hash = idx[i].text /\ idx[i].text \in Texts /\ IndexedIsWhole
    BY <2>1 DEF SkipInv, WholeInv, Locked
  <2> QED
    BY <2>2, NamesAssumption DEF IndexedIsWhole
<1>2. SkipInv /\ UNCHANGED vars => SkipInv'
  <2>1. WholeInv /\ UNCHANGED vars => WholeInv'
    BY DEF WholeInv, IndexedIsWhole, Active, vars
  <2> QED
    BY <2>1 DEF SkipInv, vars
<1> QED
  BY InitSkip, StepSkip, <1>1, <1>2, IndexTypeCorrect, PTL DEF Spec, SkipHasText
=============================================================================
