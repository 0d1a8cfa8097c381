----------------------- MODULE DocumentPipelineProofs -----------------------
(***************************************************************************)
(* Theorems about DocumentPipeline, for any documents, uploads, removals,  *)
(* deletes, reconcilers, hashes and settings.                              *)
(***************************************************************************)
EXTENDS DocumentPipeline, TLAPS

\* A handler that has begun names the document and the bytes it works for.
UploadsNamed ==
    \A u \in Uploads :
       up[u].pc # "none" => up[u].doc \in Documents /\ up[u].hash \in Hashes

ReconcilersNamed ==
    \A r \in Reconcilers :
       rec[r].pc \in {"promote", "archival", "stillPending"} => rec[r].row \in Documents

TypeInv == TypeOK /\ UploadsNamed /\ ReconcilersNamed

-----------------------------------------------------------------------------
\* The statements that several handlers run keep the rows in their domains.

LEMMA StatusesTyped ==
    ASSUME NEW raw \in RawStatuses
    PROVE  ArtifactStatus(raw) \in ArtStatuses
BY DEF RawStatuses, ArtStatuses, ArtifactStatus

LEMMA TransitionTyped ==
    ASSUME RowsTypeOK, NEW a, NEW status \in ArtStatuses
    PROVE  Transition(a, status) \in [Artifacts -> ArtType]
BY DEF RowsTypeOK, Transition, ArtType

LEMMA SetBothTyped ==
    ASSUME RowsTypeOK, NEW x \in Documents, NEW row \in DocType, SetBoth(x, row)
    PROVE  doc' \in [Documents -> DocType] /\ art' \in [Artifacts -> ArtType]
<1>1. doc' \in [Documents -> DocType]
  BY DEF RowsTypeOK, SetBoth
<1>2. row.status \in RawStatuses
  BY DEF DocType
<1>3. art' \in [Artifacts -> ArtType]
  BY <1>2, StatusesTyped, TransitionTyped DEF SetBoth, RowsTypeOK
<1> QED
  BY <1>1, <1>3

LEMMA RowTyped ==
    ASSUME RowsTypeOK, NEW x \in Documents
    PROVE  /\ doc[x] \in DocType
           /\ \A s \in RawStatuses : [doc[x] EXCEPT !.status = s] \in DocType
           /\ \A s \in RawStatuses, b \in BOOLEAN :
                 /\ [doc[x] EXCEPT !.status = s, !.hint = b] \in DocType
                 /\ [doc[x] EXCEPT !.status = s, !.claim = None, !.hint = b] \in DocType
                 /\ [doc[x] EXCEPT !.status = s, !.claim = None, !.attempts = 0,
                                   !.hint = b] \in DocType
<1>1. doc[x] \in DocType
  BY DEF RowsTypeOK
<1>2. \A s \in RawStatuses : [doc[x] EXCEPT !.status = s] \in DocType
  BY <1>1 DEF DocType
<1>3. ASSUME NEW s \in RawStatuses, NEW b \in BOOLEAN
      PROVE  [doc[x] EXCEPT !.status = s, !.hint = b] \in DocType
  BY <1>1 DEF DocType
<1>4. ASSUME NEW s \in RawStatuses, NEW b \in BOOLEAN
      PROVE  [doc[x] EXCEPT !.status = s, !.claim = None, !.hint = b] \in DocType
  BY <1>1 DEF DocType
<1>5. ASSUME NEW s \in RawStatuses, NEW b \in BOOLEAN
      PROVE  [doc[x] EXCEPT !.status = s, !.claim = None, !.attempts = 0, !.hint = b]
                \in DocType
  BY <1>1 DEF DocType
<1> QED
  BY <1>1, <1>2, <1>3, <1>4, <1>5

LEMMA ClaimTyped ==
    ASSUME NEW row \in DocType, NEW u \in Uploads, NEW h \in Hashes,
           NEW s \in {"stored", "pending", None}
    PROVE  /\ [row EXCEPT !.status = "blob_uploading", !.claim = u, !.hash = h] \in DocType
           /\ [row EXCEPT !.uri = None, !.storedStatus = None] \in DocType
           /\ [row EXCEPT !.mode = "managed_blob", !.uri = h, !.storedStatus = s,
                          !.link = u] \in DocType
<1>1. [row EXCEPT !.status = "blob_uploading", !.claim = u, !.hash = h] \in DocType
  <2>1. u \in Handlers /\ "blob_uploading" \in RawStatuses
    BY DEF Handlers, RawStatuses
  <2> QED
    BY <2>1 DEF DocType
<1>2. [row EXCEPT !.uri = None, !.storedStatus = None] \in DocType
  BY DEF DocType
<1>3. [row EXCEPT !.mode = "managed_blob", !.uri = h, !.storedStatus = s, !.link = u] \in DocType
  <2>1. u \in Artifacts
    BY DEF Artifacts
  <2> QED
    BY <2>1 DEF DocType
<1> QED
  BY <1>1, <1>2, <1>3

LEMMA NothingTyped == NoDoc \in DocType /\ NoArt \in ArtType
BY DEF NoDoc, DocType, RawStatuses, NoArt, ArtType, ArtStatuses

-----------------------------------------------------------------------------
LEMMA RegisterTyped ==
    ASSUME TypeInv, RegisterStep
    PROVE  TypeInv'
<1>1. PICK x \in Documents : Register(x)
  BY DEF RegisterStep
<1>2. RowsTypeOK'
  <2>1. PICK h \in setting.hashes \cup {None} :
          \/ /\ doc' = [doc EXCEPT ![x] = [NoDoc EXCEPT !.state = "active", !.hash = h,
                                                        !.link = x]]
             /\ art' = [art EXCEPT ![x] = [NoArt EXCEPT !.status = "stored"]]
          \/ /\ doc' = [doc EXCEPT ![x] = [NoDoc EXCEPT !.state = "active", !.hash = h]]
             /\ UNCHANGED art
    BY <1>1 DEF Register
  <2>2. h \in Hashes \cup {None}
    BY RawAssumption DEF TypeInv, TypeOK
  <2>3. /\ [NoDoc EXCEPT !.state = "active", !.hash = h, !.link = x] \in DocType
        /\ [NoDoc EXCEPT !.state = "active", !.hash = h] \in DocType
    BY <2>2 DEF NoDoc, DocType, RawStatuses, Artifacts
  <2>4. [NoArt EXCEPT !.status = "stored"] \in ArtType
    BY DEF NoArt, ArtType, ArtStatuses
  <2> QED
    BY <1>1, <2>1, <2>3, <2>4 DEF TypeInv, TypeOK, RowsTypeOK, Register
<1> QED
  BY <1>2 DEF TypeInv, TypeOK, RegisterStep, UpTypeOK, RmTypeOK, DelTypeOK, RecTypeOK,
              UploadsNamed, ReconcilersNamed

LEMMA GotoTyped ==
    ASSUME TypeInv, NEW u \in Uploads, NEW pc \in UpSteps \cup UpEnds,
           up[u].pc # "none", UpGoto(u, pc)
    PROVE  UpTypeOK' /\ UploadsNamed'
BY DEF TypeInv, TypeOK, UpTypeOK, UpType, UpGoto, UploadsNamed

LEMMA AlphaLoadTyped ==
    ASSUME TypeInv, NEW u \in Uploads, NEW x \in Documents, NEW h \in Hashes, AlphaLoad(u, x, h)
    PROVE  RowsTypeOK' /\ UpTypeOK' /\ UploadsNamed'
<1>1. doc[x].storedStatus \in {"stored", "pending", None}
  BY DEF TypeInv, TypeOK, RowsTypeOK, DocType
<1>2. lock' \in [Documents -> Handlers \cup {None}]
  BY DEF AlphaLoad, TypeInv, TypeOK, RowsTypeOK, Handlers
<1>3. \A d \in {"notFound", "existing", "finalize", "conflict", "upload"} :
         [pc |-> IF d \in {"upload", "finalize"} THEN "claim" ELSE d, doc |-> x, hash |-> h,
          branch |-> IF d = "finalize" THEN d ELSE "upload",
          storedStatus |-> doc[x].storedStatus] \in UpType
  BY <1>1 DEF UpType, UpSteps, UpEnds
<1>4. Decision(doc[x], h) \in {"existing", "finalize", "conflict", "upload"}
  BY DEF Decision
<1> QED
  BY <1>2, <1>3, <1>4 DEF AlphaLoad, TypeInv, TypeOK, RowsTypeOK, UpTypeOK, UploadsNamed

LEMMA UploadTyped ==
    ASSUME TypeInv, NEW u \in Uploads, UpStep(u) \/ CrashUpload(u)
    PROVE  RowsTypeOK' /\ UpTypeOK' /\ UploadsNamed'
<1> DEFINE x == up[u].doc
<1>1. /\ up[u].pc # "none"
      /\ x \in Documents /\ up[u].hash \in Hashes
      /\ up[u].storedStatus \in {"stored", "pending", None}
  <2>1. up[u].pc # "none"
    BY DEF UpStep, CrashUpload, AlphaClaim, Put, FailClaimed, Beta2, Compensate,
           MarkBeta2Failure, Gamma, UpSteps
  <2> QED
    BY <2>1 DEF TypeInv, TypeOK, UpTypeOK, UpType, UploadsNamed
<1>2. RowsTypeOK
  BY DEF TypeInv, TypeOK
<1>3. Key(u) \in Keys
  BY <1>1 DEF Key, Keys
<1>4. CASE AlphaClaim(u)
  <2>1. Claimed(u) \in DocType
    <3>1. doc[x] \in DocType
      BY <1>1, <1>2 DEF RowsTypeOK
    <3>2. [doc[x] EXCEPT !.status = "blob_uploading", !.claim = u,
                         !.hash = up[u].hash] \in DocType
      BY <1>1, <3>1, ClaimTyped
    <3> QED
      BY <3>2, ClaimTyped, <1>1 DEF Claimed
  <2>2. \A pc \in {"gamma", "put", "notFound", "error"} : pc \in UpSteps \cup UpEnds
    BY DEF UpSteps, UpEnds
  <2> QED
    BY <1>1, <1>2, <1>4, <2>1, <2>2, GotoTyped DEF AlphaClaim, RowsTypeOK
<1>5. CASE Put(u)
  <2>1. objects' \subseteq Keys
    BY <1>2, <1>3, <1>5 DEF Put, RowsTypeOK
  <2>2. UpTypeOK' /\ UploadsNamed'
    <3>1. CASE \E s \in {"stored", "pending"} :
                  up' = [up EXCEPT ![u] = [@ EXCEPT !.pc = "beta2", !.storedStatus = s]]
      <4>1. PICK s \in {"stored", "pending"} :
                   up' = [up EXCEPT ![u] = [@ EXCEPT !.pc = "beta2", !.storedStatus = s]]
        BY <3>1
      <4>2. [up[u] EXCEPT !.pc = "beta2", !.storedStatus = s] \in UpType
        BY DEF TypeInv, TypeOK, UpTypeOK, UpType, UpSteps
      <4>3. /\ [up[u] EXCEPT !.pc = "beta2", !.storedStatus = s].doc = x
            /\ [up[u] EXCEPT !.pc = "beta2", !.storedStatus = s].hash = up[u].hash
        BY DEF TypeInv, TypeOK, UpTypeOK, UpType
      <4> QED
        BY <1>1, <4>1, <4>2, <4>3 DEF TypeInv, TypeOK, UpTypeOK, UploadsNamed
    <3>2. CASE UpGoto(u, "failClaimed")
      BY <1>1, <3>2, GotoTyped DEF UpSteps
    <3> QED
      BY <1>5, <3>1, <3>2 DEF Put
  <2> QED
    BY <1>2, <1>5, <2>1, <2>2 DEF Put, RowsTypeOK
<1>6. CASE FailClaimed(u)
  <2>1. \A b \in BOOLEAN : Failed(x, b) \in DocType
    BY <1>1, <1>2, RowTyped DEF Failed, RawStatuses
  <2>2. doc' \in [Documents -> DocType] /\ art' \in [Artifacts -> ArtType]
    BY <1>1, <1>2, <1>6, <2>1, SetBothTyped DEF FailClaimed, RowsTypeOK
  <2> QED
    BY <1>1, <1>2, <1>6, <2>2, GotoTyped DEF FailClaimed, RowsTypeOK, UpEnds
<1>7. CASE Beta2(u)
  <2>1. [doc[x] EXCEPT !.mode = "managed_blob", !.uri = up[u].hash,
                       !.storedStatus = up[u].storedStatus, !.link = u] \in DocType
    BY <1>1, <1>2, ClaimTyped DEF RowsTypeOK
  <2>2. Swapped(u) \in [Artifacts -> ArtType]
    <3>1. [NoArt EXCEPT !.status = "pending", !.uri = Key(u)] \in ArtType
      BY <1>3 DEF NoArt, ArtType, ArtStatuses
    <3>2. \A a \in Artifacts : [art[a] EXCEPT !.status = "deleted", !.tomb = TRUE,
                                              !.attempt = None] \in ArtType
      BY <1>2 DEF RowsTypeOK, ArtType, ArtStatuses
    <3> QED
      BY <1>2, <3>1, <3>2 DEF Swapped, RowsTypeOK
  <2>3. \A pc \in {"gamma", "compensateLost", "compensateFailed"} : pc \in UpSteps
    BY DEF UpSteps
  <2> QED
    BY <1>1, <1>2, <1>7, <2>1, <2>2, <2>3, GotoTyped DEF Beta2, RowsTypeOK
<1>8. CASE Compensate(u)
  <2>1. \A pc \in {"lost", "markCleaned", "markOrphan"} : pc \in UpSteps \cup UpEnds
    BY DEF UpSteps, UpEnds
  <2>2. UpTypeOK' /\ UploadsNamed'
    BY <1>1, <1>8, <2>1, GotoTyped DEF Compensate
  <2> QED
    BY <1>2, <1>8, <2>2 DEF Compensate, RowsTypeOK
<1>9. CASE MarkBeta2Failure(u)
  <2>1. \A b \in BOOLEAN : Failed(x, b) \in DocType
    BY <1>1, <1>2, RowTyped DEF Failed, RawStatuses
  <2> QED
    BY <1>1, <1>2, <1>9, <2>1, GotoTyped DEF MarkBeta2Failure, RowsTypeOK, UpEnds
<1>10. CASE Gamma(u)
  <2>1. FinalStatus(up[u].storedStatus) \in RawStatuses
    BY DEF FinalStatus, RawStatuses
  <2>2. [doc[x] EXCEPT !.status = FinalStatus(up[u].storedStatus), !.claim = None,
                       !.hint = FALSE] \in DocType
    BY <1>1, <1>2, <2>1, RowTyped
  <2>3. doc' \in [Documents -> DocType] /\ art' \in [Artifacts -> ArtType]
    BY <1>1, <1>2, <1>10, <2>2, SetBothTyped DEF Gamma, RowsTypeOK
  <2>4. \A pc \in {"ok", "lost", "error"} : pc \in UpEnds
    BY DEF UpEnds
  <2> QED
    BY <1>1, <1>2, <1>10, <2>3, <2>4, GotoTyped DEF Gamma, RowsTypeOK
<1>11. CASE CrashUpload(u)
  BY <1>1, <1>2, <1>11, GotoTyped DEF CrashUpload, RowsTypeOK, UpEnds, Handlers
<1> QED
  BY <1>4, <1>5, <1>6, <1>7, <1>8, <1>9, <1>10, <1>11 DEF UpStep
-----------------------------------------------------------------------------
LEMMA RemovalGotoTyped ==
    ASSUME TypeInv, NEW w \in Removals, NEW pc \in RmSteps \cup RmEnds, RmGoto(w, pc)
    PROVE  RmTypeOK'
BY DEF TypeInv, TypeOK, RmTypeOK, RmType, RmGoto

LEMMA RemovalSetTyped ==
    ASSUME RmTypeOK, NEW w \in Removals, NEW e \in RmType, rm' = [rm EXCEPT ![w] = e]
    PROVE  RmTypeOK'
BY DEF RmTypeOK

LEMMA BlobsTyped ==
    ASSUME TypeInv, NEW scope \in SUBSET Documents
    PROVE  ManagedBlobs(scope) \subseteq Keys /\ OrphanedBlobs(scope) \subseteq Keys
<1>1. \A x \in Documents : doc[x].uri \in Hashes \cup {None}
  BY DEF TypeInv, TypeOK, RowsTypeOK, DocType
<1> QED
  BY <1>1 DEF ManagedBlobs, OrphanedBlobs, Keys

LEMMA ListTyped ==
    ASSUME TypeInv, NEW w \in Removals, NEW scope \in SUBSET Documents,
           NEW kind \in {"document", "source"}, ListBlobs(w, kind, scope)
    PROVE  RowsTypeOK' /\ RmTypeOK'
<1>1. [NoRemoval EXCEPT !.pc = "softDelete", !.kind = kind, !.scope = scope,
                        !.blobs = ManagedBlobs(scope)] \in RmType
  BY BlobsTyped DEF NoRemoval, RmType, RmSteps
<1> QED
  BY <1>1 DEF ListBlobs, TypeInv, TypeOK, RowsTypeOK, RmTypeOK, Handlers

LEMMA ListForWipeTyped ==
    ASSUME TypeInv, NEW w \in Removals, ListForWipe(w)
    PROVE  RowsTypeOK' /\ RmTypeOK'
<1>1. \A pc \in {"dropDocuments", "cleanup"} :
         [NoRemoval EXCEPT !.pc = pc, !.kind = "user", !.scope = Documents,
                           !.blobs = ManagedBlobs(Documents)] \in RmType
  BY BlobsTyped DEF NoRemoval, RmType, RmSteps
<1> QED
  BY <1>1 DEF ListForWipe, TypeInv, TypeOK, RowsTypeOK, RmTypeOK, rows

LEMMA RemovalTyped ==
    ASSUME TypeInv, NEW w \in Removals, RmStep(w) \/ CrashRemoval(w)
    PROVE  RowsTypeOK' /\ RmTypeOK'
<1>1. RowsTypeOK /\ rm[w] \in RmType /\ RmTypeOK
  BY DEF TypeInv, TypeOK, RmTypeOK
<1>2. rm[w].scope \subseteq Documents /\ rm[w].blobs \subseteq Keys
      /\ rm[w].cleaned \subseteq Keys /\ rm[w].failed \subseteq Keys
  BY <1>1 DEF RmType
<1>3. RmSteps \cup RmEnds = {"softDelete", "lookup", "cleanup", "mark", "dropDocuments",
                             "dropArtifacts", "none", "ok", "error", "crashed"}
  BY DEF RmSteps, RmEnds
<1>4. CASE SoftDelete(w)
  <2>1. \A x \in Documents : [doc[x] EXCEPT !.state = "deleted"] \in DocType
    BY <1>1 DEF RowsTypeOK, DocType
  <2>2. \A a \in Artifacts : [art[a] EXCEPT !.status = "deleted", !.tomb = TRUE,
                                            !.attempt = None] \in ArtType
    BY <1>1 DEF RowsTypeOK, ArtType, ArtStatuses
  <2>3. doc' \in [Documents -> DocType] /\ art' \in [Artifacts -> ArtType]
    <3>1. doc' \in [Documents -> DocType]
      <4>1. \/ doc' = doc
            \/ doc' = [x \in Documents |-> IF x \in rm[w].scope
                                           THEN [doc[x] EXCEPT !.state = "deleted"] ELSE doc[x]]
        BY <1>4 DEF SoftDelete
      <4>2. \A x \in Documents : doc[x] \in DocType
        BY <1>1 DEF RowsTypeOK
      <4> QED
        BY <1>1, <4>1, <4>2, <2>1 DEF RowsTypeOK
    <3>2. art' \in [Artifacts -> ArtType]
      <4> DEFINE gone == ArtifactsToTombstone(w)
      <4>1. \/ art' = [a \in Artifacts |->
                         IF a \in gone
                         THEN [art[a] EXCEPT !.status = "deleted", !.tomb = TRUE,
                                             !.attempt = None]
                         ELSE art[a]]
            \/ art' = art
        BY <1>4 DEF SoftDelete
      <4> HIDE DEF gone
      <4>2. \A a \in Artifacts : art[a] \in ArtType
        BY <1>1 DEF RowsTypeOK
      <4> QED
        BY <1>1, <4>1, <4>2, <2>2 DEF RowsTypeOK
    <3> QED
      BY <3>1, <3>2
  <2>4. RmTypeOK'
    <3>1. CASE RmGoto(w, "error")
      BY <1>3, <3>1, RemovalGotoTyped
    <3>2. CASE ~RmGoto(w, "error")
      <4>1. PICK S \in SUBSET Keys, pc \in {"lookup", "cleanup"} :
               rm' = [rm EXCEPT ![w] = [@ EXCEPT !.blobs = S, !.pc = pc]]
        BY <1>2, <1>4, <3>2 DEF SoftDelete
      <4>2. [rm[w] EXCEPT !.blobs = S, !.pc = pc] \in RmType
        BY <1>1, <1>3, <4>1 DEF RmType
      <4> QED
        BY <1>1, <4>1, <4>2, RemovalSetTyped
    <3> QED
      BY <3>1, <3>2
  <2> QED
    BY <1>1, <1>4, <2>3, <2>4 DEF SoftDelete, RowsTypeOK
<1>5. CASE LookupOrphans(w)
  <2>1. OrphanedBlobs(rm[w].scope) \subseteq Keys
    BY <1>2, BlobsTyped
  <2> QED
    <3>1. RmTypeOK'
      <4>1. CASE RmGoto(w, "error")
        BY <1>3, <4>1, RemovalGotoTyped
      <4>2. CASE ~RmGoto(w, "error")
        <5>1. PICK S \in SUBSET Keys, pc \in {"ok", "cleanup"} :
                 rm' = [rm EXCEPT ![w] = [@ EXCEPT !.blobs = S, !.pc = pc]]
          BY <1>5, <2>1, <4>2 DEF LookupOrphans
        <5>2. [rm[w] EXCEPT !.blobs = S, !.pc = pc] \in RmType
          BY <1>1, <1>3, <5>1 DEF RmType
        <5> QED
          BY <1>1, <5>1, <5>2, RemovalSetTyped
      <4> QED
        BY <4>1, <4>2
    <3> QED
      BY <1>1, <1>5, <3>1 DEF LookupOrphans, RowsTypeOK, rows
<1>6. CASE DropDocuments(w)
  <2>1. [NoDoc EXCEPT !.state = "wiped"] \in DocType
    BY DEF NoDoc, DocType, RawStatuses
  <2> QED
    BY <1>1, <1>3, <1>6, <2>1, RemovalGotoTyped DEF DropDocuments, RowsTypeOK
<1>7. CASE DropArtifacts(w)
  BY <1>1, <1>3, <1>7, NothingTyped, RemovalGotoTyped DEF DropArtifacts, RowsTypeOK
<1>8. ASSUME NEW b \in Keys, CleanupBlob(w, b)
      PROVE  RowsTypeOK' /\ RmTypeOK'
  <2>1. \A S : AfterCleanup(w, S) \in RmSteps
    BY DEF AfterCleanup, RmSteps
  <2>2. RmTypeOK'
    <3>1. PICK S \in SUBSET Keys, T \in SUBSET Keys, pc \in RmSteps :
             \/ rm' = [rm EXCEPT ![w] = [@ EXCEPT !.pc = pc, !.blobs = S, !.cleaned = T]]
             \/ rm' = [rm EXCEPT ![w] = [@ EXCEPT !.pc = pc, !.blobs = S, !.failed = T]]
      <4>1. /\ rm[w].blobs \ {b} \in SUBSET Keys
            /\ rm[w].cleaned \cup {b} \in SUBSET Keys
            /\ rm[w].failed \cup {b} \in SUBSET Keys
            /\ "cleanup" \in RmSteps
        BY <1>2 DEF RmSteps
      <4> QED
        BY <1>8, <2>1, <4>1 DEF CleanupBlob
    <3>2. /\ [rm[w] EXCEPT !.pc = pc, !.blobs = S, !.cleaned = T] \in RmType
          /\ [rm[w] EXCEPT !.pc = pc, !.blobs = S, !.failed = T] \in RmType
      BY <1>1, <3>1 DEF RmType
    <3> QED
      BY <1>1, <3>1, <3>2, RemovalSetTyped
  <2> QED
    BY <1>1, <1>8, <2>2 DEF CleanupBlob, RowsTypeOK
<1>9. ASSUME NEW b \in Keys, MarkCleaned(w, b)
      PROVE  RowsTypeOK' /\ RmTypeOK'
  <2>1. b[1] \in Documents
    BY DEF Keys
  <2>2. [doc[b[1]] EXCEPT !.status = "blob_deleted"] \in DocType
    BY <1>1, <2>1, RowTyped DEF RawStatuses
  <2>3. doc' \in [Documents -> DocType] /\ art' \in [Artifacts -> ArtType]
    BY <1>1, <1>9, <2>1, <2>2, SetBothTyped DEF MarkCleaned, RowsTypeOK
  <2>4. RmTypeOK'
    <3>1. CASE RmGoto(w, "error")
      BY <1>3, <3>1, RemovalGotoTyped
    <3>2. CASE ~RmGoto(w, "error")
      <4>1. PICK S \in SUBSET Keys, pc \in {"ok", "mark"} :
               rm' = [rm EXCEPT ![w] = [@ EXCEPT !.cleaned = S, !.pc = pc]]
        BY <1>2, <1>9, <3>2 DEF MarkCleaned
      <4>2. [rm[w] EXCEPT !.cleaned = S, !.pc = pc] \in RmType
        BY <1>1, <1>3, <4>1 DEF RmType
      <4> QED
        BY <1>1, <4>1, <4>2, RemovalSetTyped
    <3> QED
      BY <3>1, <3>2
  <2> QED
    BY <1>1, <1>9, <2>3, <2>4 DEF MarkCleaned, RowsTypeOK
<1>10. ASSUME NEW b \in Keys, MarkFailed(w, b)
       PROVE  RowsTypeOK' /\ RmTypeOK'
  <2>1. b[1] \in Documents
    BY DEF Keys
  <2>2. doc[b[1]].hint \in BOOLEAN
    BY <1>1, <2>1 DEF RowsTypeOK, DocType
  <2>3. [doc[b[1]] EXCEPT !.status = "raw_storage_failed",
                          !.hint = rm[w].kind = "source" /\ doc[b[1]].hint] \in DocType
    BY <1>1, <2>1, <2>2, RowTyped DEF RawStatuses
  <2>4. doc' \in [Documents -> DocType] /\ art' \in [Artifacts -> ArtType]
    BY <1>1, <1>10, <2>1, <2>3, SetBothTyped DEF MarkFailed, RowsTypeOK
  <2>5. RmTypeOK'
    <3>1. CASE RmGoto(w, "error")
      BY <1>3, <3>1, RemovalGotoTyped
    <3>2. CASE ~RmGoto(w, "error")
      <4>1. PICK S \in SUBSET Keys, pc \in {"error", "mark"} :
               rm' = [rm EXCEPT ![w] = [@ EXCEPT !.failed = S, !.pc = pc]]
        BY <1>2, <1>10, <3>2 DEF MarkFailed
      <4>2. [rm[w] EXCEPT !.failed = S, !.pc = pc] \in RmType
        BY <1>1, <1>3, <4>1 DEF RmType
      <4> QED
        BY <1>1, <4>1, <4>2, RemovalSetTyped
    <3> QED
      BY <3>1, <3>2
  <2> QED
    BY <1>1, <1>10, <2>4, <2>5 DEF MarkFailed, RowsTypeOK
<1>11. CASE CrashRemoval(w)
  BY <1>1, <1>3, <1>11, RemovalGotoTyped DEF CrashRemoval, RowsTypeOK, Handlers
<1> QED
  BY <1>4, <1>5, <1>6, <1>7, <1>8, <1>9, <1>10, <1>11 DEF RmStep

-----------------------------------------------------------------------------
LEMMA DeleteGotoTyped ==
    ASSUME TypeInv, NEW d \in Deletes, NEW pc \in DelSteps \cup DelEnds, DelGoto(d, pc)
    PROVE  DelTypeOK'
BY DEF TypeInv, TypeOK, DelTypeOK, DelType, DelGoto

LEMMA ArtSetTyped ==
    ASSUME RowsTypeOK, NEW a, NEW s \in ArtStatuses, NEW v \in Deletes \cup {None},
           art' = [art EXCEPT ![a] = [@ EXCEPT !.status = s, !.attempt = v]]
    PROVE  art' \in [Artifacts -> ArtType]
BY DEF RowsTypeOK, ArtType

LEMMA ReadInitialTyped ==
    ASSUME TypeInv, NEW d \in Deletes, NEW a \in Artifacts, NEW policy \in BOOLEAN,
           ReadInitial(d, a, policy)
    PROVE  RowsTypeOK' /\ DelTypeOK'
<1>1. art[a].status \in ArtStatuses /\ art[a].uri \in Keys \cup {None}
  BY DEF TypeInv, TypeOK, RowsTypeOK, ArtType
<1>2. \A pc \in {"deleted", "claim"} :
         [NoDelete EXCEPT !.pc = pc, !.art = a, !.withDocuments = policy,
                          !.status = art[a].status, !.uri = art[a].uri] \in DelType
  BY <1>1 DEF NoDelete, DelType, DelSteps, DelEnds
<1> QED
  BY <1>2 DEF ReadInitial, TypeInv, TypeOK, RowsTypeOK, DelTypeOK, rows

LEMMA DeleteTyped ==
    ASSUME TypeInv, NEW d \in Deletes, DelStep(d)
    PROVE  RowsTypeOK' /\ DelTypeOK'
<1>1. RowsTypeOK /\ del[d] \in DelType /\ DelTypeOK
  BY DEF TypeInv, TypeOK, DelTypeOK
<1>2. DelSteps \cup DelEnds = {"claim", "count", "cascade", "release", "backend",
        "finalizeSuccess", "finalizeFailure", "none", "deleted", "delete_failed",
        "refused", "notFound", "error"}
  BY DEF DelSteps, DelEnds
<1>3. /\ art \in [Artifacts -> ArtType]
      /\ {"deleting", "delete_failed"} \subseteq ArtStatuses
  BY <1>1 DEF RowsTypeOK, ArtStatuses
<1>4. CASE ClaimDelete(d)
  <2>1. art' \in [Artifacts -> ArtType]
    <3>1. CASE art' = [art EXCEPT ![del[d].art] = [@ EXCEPT !.status = "deleting",
                                                             !.attempt = d]]
      BY <1>1, <1>3, <3>1, ArtSetTyped
    <3> QED
      BY <1>3, <1>4, <3>1 DEF ClaimDelete
  <2>2. \A s : Refusal(s) \in DelEnds
    BY DEF Refusal, DelEnds
  <2> QED
    BY <1>1, <1>2, <1>4, <2>1, <2>2, DeleteGotoTyped DEF ClaimDelete, RowsTypeOK
<1>5. CASE CountReferences(d)
  <2>1. \A S \in SUBSET Documents : [del[d] EXCEPT !.pc = "cascade", !.todo = S] \in DelType
    BY <1>1, <1>2 DEF DelType
  <2>2. References(del[d].art) \subseteq Documents
    BY DEF References
  <2> QED
    <3>1. DelTypeOK'
      <4>1. CASE \E pc \in {"backend", "release"} : DelGoto(d, pc)
        BY <1>2, <4>1, DeleteGotoTyped
      <4>2. CASE del' = [del EXCEPT ![d] = [@ EXCEPT !.pc = "cascade",
                                                     !.todo = References(del[d].art)]]
        <5>1. [del[d] EXCEPT !.pc = "cascade", !.todo = References(del[d].art)] \in DelType
          BY <2>1, <2>2
        <5> QED
          BY <1>1, <4>2, <5>1 DEF DelTypeOK
      <4> QED
        BY <1>5, <4>1, <4>2 DEF CountReferences
    <3> QED
      BY <1>1, <1>5, <3>1 DEF CountReferences, RowsTypeOK, rows
<1>6. ASSUME NEW x \in Documents, Cascade(d, x)
      PROVE  RowsTypeOK' /\ DelTypeOK'
  <2>1. [doc[x] EXCEPT !.state = "deleted"] \in DocType
    BY <1>1 DEF RowsTypeOK, DocType
  <2>2. Transition(doc[x].link, "deleted") \in [Artifacts -> ArtType]
    BY <1>1, TransitionTyped DEF ArtStatuses
  <2>3. \A S, T \in SUBSET Documents, pc \in {"backend", "cascade"} :
           [del[d] EXCEPT !.pc = pc, !.todo = S, !.cascaded = T] \in DelType
    BY <1>1, <1>2 DEF DelType
  <2>4. del[d].todo \ {x} \in SUBSET Documents /\ del[d].cascaded \cup {x} \in SUBSET Documents
        /\ del[d].cascaded \in SUBSET Documents
    BY <1>1 DEF DelType
  <2>5. DelTypeOK'
    BY <1>1, <1>6, <2>3, <2>4 DEF Cascade, DelTypeOK
  <2> QED
    BY <1>1, <1>6, <2>1, <2>2, <2>5 DEF Cascade, RowsTypeOK
<1>7. CASE ReleaseClaim(d)
  <2>1. del[d].status \in ArtStatuses
    BY <1>1 DEF DelType
  <2>2. art' \in [Artifacts -> ArtType]
    <3>1. CASE art' = [art EXCEPT ![del[d].art] = [@ EXCEPT !.status = del[d].status,
                                                             !.attempt = None]]
      BY <1>1, <2>1, <3>1, ArtSetTyped
    <3> QED
      BY <1>3, <1>7, <3>1 DEF ReleaseClaim
  <2> QED
    BY <1>1, <1>2, <1>7, <2>2, DeleteGotoTyped DEF ReleaseClaim, RowsTypeOK
<1>8. CASE DeleteObject(d)
  BY <1>1, <1>2, <1>8, DeleteGotoTyped DEF DeleteObject, RowsTypeOK
<1>9. CASE FinalizeDelete(d)
  <2>1. Transition(del[d].art, "deleted") \in [Artifacts -> ArtType]
    BY <1>1, TransitionTyped DEF ArtStatuses
  <2>2. art' \in [Artifacts -> ArtType]
    <3>1. CASE art' = [art EXCEPT ![del[d].art] = [@ EXCEPT !.status = "delete_failed",
                                                             !.attempt = None]]
      BY <1>1, <1>3, <3>1, ArtSetTyped
    <3> QED
      BY <1>3, <1>9, <2>1, <3>1 DEF FinalizeDelete
  <2>3. doc' \in [Documents -> DocType]
    <3>1. \A x \in Documents : doc[x].hint \in BOOLEAN
      BY <1>1 DEF RowsTypeOK, DocType
    <3>2. \A x \in Documents, s \in {"blob_deleted", "raw_storage_failed"}, ok \in BOOLEAN :
             [doc[x] EXCEPT !.status = s, !.hint = ok /\ doc[x].hint] \in DocType
      BY <1>1, <3>1, RowTyped DEF RawStatuses
    <3> DEFINE ok == del[d].pc = "finalizeSuccess"
               raw == IF ok THEN "blob_deleted" ELSE "raw_storage_failed"
    <3>3. \/ doc' = doc
          \/ doc' = [x \in Documents |-> IF x \in del[d].cascaded
                                         THEN [doc[x] EXCEPT !.status = raw, !.hint = ok /\ doc[x].hint]
                                         ELSE doc[x]]
      BY <1>9 DEF FinalizeDelete
    <3>4. ok \in BOOLEAN /\ raw \in {"blob_deleted", "raw_storage_failed"}
      OBVIOUS
    <3> HIDE DEF ok, raw
    <3>5. \A x \in Documents :
             doc[x] \in DocType /\ [doc[x] EXCEPT !.status = raw, !.hint = ok /\ doc[x].hint] \in DocType
      BY <1>1, <3>2, <3>4 DEF RowsTypeOK
    <3> QED
      BY <1>1, <3>3, <3>5 DEF RowsTypeOK
  <2> QED
    BY <1>1, <1>2, <1>9, <2>2, <2>3, DeleteGotoTyped DEF FinalizeDelete, RowsTypeOK
<1> QED
  BY <1>4, <1>5, <1>6, <1>7, <1>8, <1>9 DEF DelStep

-----------------------------------------------------------------------------
LEMMA RecIdleTyped == RecIdle \in RecType
BY DEF RecIdle, RecType

LEMMA CountedTyped ==
    ASSUME NEW row \in DocType
    PROVE  CountedAttempt(row) \in DocType
<1> DEFINE n == row.attempts + 1
<1>1. n \in Nat
  <2>1. row.attempts \in Nat
    BY DEF DocType
  <2> QED
    BY <2>1
<1> HIDE DEF n
<1>2. [row EXCEPT !.claim = None, !.attempts = n] \in DocType
  BY <1>1 DEF DocType
<1> QED
  BY <1>2 DEF CountedAttempt, n

LEMMA ReconcileTyped ==
    ASSUME TypeInv, NEW r \in Reconcilers, RecStep(r) \/ CrashReconciler(r)
    PROVE  RowsTypeOK' /\ RecTypeOK' /\ ReconcilersNamed'
<1>1. RowsTypeOK /\ rec[r] \in RecType /\ RecTypeOK /\ ReconcilersNamed
  BY DEF TypeInv, TypeOK, RecTypeOK
<1>2. RecIdle.pc = "idle"
  BY DEF RecIdle
<1>3. ASSUME NEW batch \in SUBSET Documents, ClaimBatch(r, batch)
      PROVE  RowsTypeOK' /\ RecTypeOK' /\ ReconcilersNamed'
  <2>1. \A x \in Documents : [doc[x] EXCEPT !.claim = r] \in DocType
    BY <1>1 DEF RowsTypeOK, DocType, Handlers
  <2>2. {<<x, doc[x].uri>> : x \in batch} \subseteq Keys
    BY <1>1, <1>3 DEF ClaimBatch, Claimable, RowsTypeOK, DocType, Keys
  <2>3. [x \in Documents |-> IF x \in batch THEN doc[x].attempts ELSE 0] \in [Documents -> Nat]
    BY <1>1 DEF RowsTypeOK, DocType
  <2>4. \A S \in SUBSET Keys, f \in [Documents -> Nat] :
           /\ [rec[r] EXCEPT !.pc = "probe", !.todo = S, !.attempts = f] \in RecType
           /\ [rec[r] EXCEPT !.pc = "probe", !.todo = S, !.attempts = f].pc = "probe"
    BY <1>1 DEF RecType
  <2> QED
    BY <1>1, <1>3, <2>1, <2>2, <2>3, <2>4
       DEF ClaimBatch, RowsTypeOK, RecTypeOK, ReconcilersNamed
<1>4. ASSUME NEW k \in Keys, Probe(r, k)
      PROVE  RowsTypeOK' /\ RecTypeOK' /\ ReconcilersNamed'
  <2>1. k[1] \in Documents
    BY DEF Keys
  <2>2. \A pc \in {"promote", "archival", "stillPending"} :
           /\ [rec[r] EXCEPT !.pc = pc, !.row = k[1]] \in RecType
           /\ [rec[r] EXCEPT !.pc = pc, !.row = k[1]].row = k[1]
    BY <1>1, <2>1 DEF RecType
  <2> QED
    BY <1>1, <1>4, <2>1, <2>2 DEF Probe, RecPlan, RowsTypeOK, RecTypeOK, ReconcilersNamed, rows
<1>5. CASE RecWrite(r)
  <2> DEFINE x == rec[r].row
  <2>1. x \in Documents
    BY <1>1, <1>5 DEF RecWrite, ReconcilersNamed
  <2>2. \A s \in {"blob_available", "blob_archival_failed"} :
           [doc[x] EXCEPT !.status = s, !.claim = None, !.attempts = 0, !.hint = FALSE] \in DocType
    BY <1>1, <2>1, RowTyped DEF RawStatuses
  <2>3. CountedAttempt(doc[x]) \in DocType
    BY <1>1, <2>1, CountedTyped DEF RowsTypeOK
  <2>4. doc' \in [Documents -> DocType] /\ art' \in [Artifacts -> ArtType]
    BY <1>1, <1>5, <2>1, <2>2, <2>3, SetBothTyped DEF RecWrite, RowsTypeOK
  <2>5. \A S \in SUBSET Keys :
           /\ [rec[r] EXCEPT !.pc = "probe", !.row = None, !.todo = S] \in RecType
           /\ [rec[r] EXCEPT !.pc = "probe", !.row = None, !.todo = S].pc = "probe"
    BY <1>1 DEF RecType
  <2>6. {k \in rec[r].todo : k[1] # x} \in SUBSET Keys
    BY <1>1 DEF RecType
  <2>7. NextRow(r, x) => RecTypeOK' /\ ReconcilersNamed'
    BY <1>1, <1>2, <2>5, <2>6, RecIdleTyped DEF NextRow, RecTypeOK, ReconcilersNamed
  <2>8. RecTypeOK' /\ ReconcilersNamed'
    BY <1>1, <1>2, <1>5, <2>7, RecIdleTyped DEF RecWrite, RecTypeOK, ReconcilersNamed
  <2> QED
    BY <1>1, <1>5, <2>4, <2>8 DEF RecWrite, RowsTypeOK
<1>6. CASE CrashReconciler(r)
  <2>1. [RecIdle EXCEPT !.pc = "crashed"] \in RecType
        /\ [RecIdle EXCEPT !.pc = "crashed"].pc = "crashed"
    BY DEF RecIdle, RecType
  <2> QED
    BY <1>1, <1>6, <2>1 DEF CrashReconciler, RowsTypeOK, RecTypeOK, ReconcilersNamed, rows
<1> QED
  BY <1>3, <1>4, <1>5, <1>6 DEF RecStep

-----------------------------------------------------------------------------
LEMMA InitTyped == Init => TypeInv
<1> SUFFICES ASSUME Init PROVE TypeInv
  OBVIOUS
<1>1. RowsTypeOK
  BY NothingTyped DEF Init, RowsInit, RowsTypeOK, Keys
<1>2. UpTypeOK /\ UploadsNamed
  BY DEF Init, UpInit, NoUpload, UpTypeOK, UpType, UpEnds, UploadsNamed
<1>3. RmTypeOK
  BY DEF Init, RmInit, NoRemoval, RmTypeOK, RmType, RmEnds
<1>4. DelTypeOK
  BY DEF Init, DelInit, NoDelete, DelTypeOK, DelType, DelEnds, ArtStatuses
<1>5. RecTypeOK /\ ReconcilersNamed
  BY RecIdleTyped DEF Init, RecInit, RecIdle, RecTypeOK, ReconcilersNamed
<1> QED
  BY <1>1, <1>2, <1>3, <1>4, <1>5 DEF Init, TypeInv, TypeOK

LEMMA NextTyped ==
    ASSUME TypeInv, [Next]_vars
    PROVE  TypeInv'
<1> USE DEF TypeInv, TypeOK
<1>1. CASE RegisterStep
  BY <1>1, RegisterTyped
<1>2. CASE UploadStep
  <2>1. RowsTypeOK' /\ UpTypeOK' /\ UploadsNamed'
    BY <1>2, AlphaLoadTyped, UploadTyped DEF UploadStep, BeginUpload
  <2> QED
    BY <1>2, <2>1 DEF UploadStep, RmTypeOK, DelTypeOK, RecTypeOK, ReconcilersNamed
<1>3. CASE RemovalStep
  <2>1. Registered \subseteq Documents
    BY DEF Registered
  <2>2. RowsTypeOK' /\ RmTypeOK'
    <3>1. PICK w \in Removals : \/ RmStep(w) \/ CrashRemoval(w)
                                \/ \E x \in Registered : BeginRemoval(w, "document", {x})
                                \/ BeginRemoval(w, "source", Registered)
                                \/ BeginWipe(w)
      BY <1>3 DEF RemovalStep
    <3>2. CASE RmStep(w) \/ CrashRemoval(w)
      BY <3>2, RemovalTyped
    <3>3. CASE \E x \in Registered : BeginRemoval(w, "document", {x})
      BY <2>1, <3>3, ListTyped DEF BeginRemoval
    <3>4. CASE BeginRemoval(w, "source", Registered)
      BY <2>1, <3>4, ListTyped DEF BeginRemoval
    <3>5. CASE BeginWipe(w)
      BY <3>5, ListForWipeTyped DEF BeginWipe
    <3> QED
      BY <3>1, <3>2, <3>3, <3>4, <3>5
  <2> QED
    BY <1>3, <2>2 DEF RemovalStep, UpTypeOK, DelTypeOK, RecTypeOK, UploadsNamed, ReconcilersNamed
<1>4. CASE DeleteStep
  <2>1. RowsTypeOK' /\ DelTypeOK'
    BY <1>4, DeleteTyped, ReadInitialTyped DEF DeleteStep
  <2> QED
    BY <1>4, <2>1 DEF DeleteStep, UpTypeOK, RmTypeOK, RecTypeOK, UploadsNamed, ReconcilersNamed
<1>5. CASE ReconcileStep
  <2>1. RowsTypeOK' /\ RecTypeOK' /\ ReconcilersNamed'
    BY <1>5, ReconcileTyped DEF ReconcileStep
  <2> QED
    BY <1>5, <2>1 DEF ReconcileStep, UpTypeOK, RmTypeOK, DelTypeOK, UploadsNamed
<1>6. CASE UNCHANGED vars
  BY <1>6 DEF vars, RowsTypeOK, UpTypeOK, RmTypeOK, DelTypeOK, RecTypeOK, UploadsNamed,
              ReconcilersNamed
<1> QED
  BY <1>1, <1>2, <1>3, <1>4, <1>5, <1>6 DEF Next

\* Every row, object, lock and handler variable of the pipeline stays in its domain,
\* under any interleaving of uploads, removals, wipes, deletes and reconcilers.
THEOREM PipelineTypeCorrect == Spec => []TypeOK
<1>1. Spec => []TypeInv
  BY InitTyped, NextTyped, PTL DEF Spec
<1>2. TypeInv => TypeOK
  BY DEF TypeInv
<1> QED
  BY <1>1, <1>2, PTL
-----------------------------------------------------------------------------
\* The slot of a document. An upload at its claim has the advisory lock, and what it
\* read when it took the lock is still true of the row: writers that do not take the
\* lock occupy no slot and change no hash.
SeenUnderLock(u) ==
    LET row == doc[up[u].doc] IN
    up[u].pc = "claim" =>
       /\ lock[up[u].doc] = u
       /\ row.state # "absent"
       /\ row.status \in Occupied /\ row.hash # None => row.hash = up[u].hash
       /\ up[u].branch = "finalize" /\ row.state = "active" => row.hash = up[u].hash

\* A claim that is still held is on a row with the hash of its bytes.
ClaimHasHash(u) ==
    up[u].pc \in {"put", "beta2"} /\ doc[up[u].doc].claim = u =>
       doc[up[u].doc].hash = up[u].hash

AbsentIsFree == \A x \in Documents : doc[x].state = "absent" => doc[x].status \notin Occupied

SlotInv ==
    /\ TypeInv
    /\ \A u \in Uploads : SeenUnderLock(u) /\ ClaimHasHash(u)
    /\ AbsentIsFree
    /\ UriMatchesHash

\* What most steps do to a row: its identity stays, no slot is occupied and no upload
\* gets a claim; or the row is new, or wiped.
Keeps(x) ==
    /\ doc'[x].hash = doc[x].hash
    /\ doc'[x].uri = doc[x].uri
    /\ doc'[x].claim \in Uploads => doc'[x].claim = doc[x].claim
    /\ doc'[x].status \in Occupied => doc[x].status \in Occupied
    /\ doc'[x].state = "absent" => doc[x].state = "absent"
    /\ doc'[x].state = "active" => doc[x].state = "active"

Fresh(x) ==
    /\ (doc[x].state = "absent" /\ doc'[x].state = "active") \/ doc'[x].state = "wiped"
    /\ doc'[x].status \notin Occupied
    /\ doc'[x].uri = None
    /\ doc'[x].claim = None

Quiet == \A x \in Documents : Keeps(x) \/ Fresh(x)

\* What most steps do to an upload: nothing, or they take it on to a later step.
Onward(u) ==
    \/ up'[u].pc \notin {"claim", "put", "beta2"}
    \/ /\ up[u].pc = "put" /\ up'[u].pc = "beta2"
       /\ up'[u].doc = up[u].doc /\ up'[u].hash = up[u].hash

Stays(u) == up'[u] = up[u] /\ \A x \in Documents : lock[x] = u => lock'[x] = u

KeepsSlot(x) ==
    doc[x].status \in Occupied /\ doc[x].hash # None =>
       doc'[x].hash = doc[x].hash \/ doc'[x].state = "wiped"

\* Such a step preserves the invariant and the slots.
LEMMA QuietStep ==
    ASSUME SlotInv, TypeInv', Quiet, \A u \in Uploads : Stays(u) \/ Onward(u)
    PROVE  SlotInv' /\ \A x \in Documents : KeepsSlot(x)
<1>1. UriMatchesHash' /\ AbsentIsFree' /\ \A x \in Documents : KeepsSlot(x)
  BY DEF SlotInv, Quiet, Keeps, Fresh, KeepsSlot, UriMatchesHash, AbsentIsFree
<1>2. ASSUME NEW u \in Uploads
      PROVE  SeenUnderLock(u)' /\ ClaimHasHash(u)'
  <2>1. up[u].pc # "none" => up[u].doc \in Documents
    BY DEF SlotInv, TypeInv, UploadsNamed
  <2>2. SeenUnderLock(u) /\ ClaimHasHash(u) /\ u # None
    BY NamesAssumption DEF SlotInv
  <2>3. CASE Stays(u)
    <3>1. CASE up[u].pc \in {"claim", "put", "beta2"}
      <4>1. Keeps(up[u].doc) \/ Fresh(up[u].doc)
        BY <2>1, <3>1 DEF Quiet
      <4>2. SeenUnderLock(u)'
        BY <2>1, <2>2, <2>3, <3>1, <4>1 DEF Stays, SeenUnderLock, Keeps, Fresh
      <4>3. ClaimHasHash(u)'
        BY <2>2, <2>3, <4>1 DEF Stays, ClaimHasHash, Keeps, Fresh
      <4> QED
        BY <4>2, <4>3
    <3>2. CASE up[u].pc \notin {"claim", "put", "beta2"}
      BY <2>3, <3>2 DEF Stays, SeenUnderLock, ClaimHasHash
    <3> QED
      BY <3>1, <3>2
  <2>4. CASE Onward(u)
    <3>1. SeenUnderLock(u)'
      BY <2>4 DEF Onward, SeenUnderLock
    <3>2. CASE up[u].pc = "put"
      <4>1. Keeps(up[u].doc) \/ Fresh(up[u].doc)
        BY <2>1, <3>2 DEF Quiet
      <4> QED
        BY <2>2, <2>4, <3>1, <3>2, <4>1 DEF Onward, ClaimHasHash, Keeps, Fresh
    <3>3. CASE up[u].pc # "put"
      BY <2>4, <3>1, <3>3 DEF Onward, ClaimHasHash
    <3> QED
      BY <3>2, <3>3
  <2> QED
    BY <2>3, <2>4
<1> QED
  BY <1>1, <1>2 DEF SlotInv

LEMMA UnchangedQuiet == doc' = doc => Quiet
BY DEF Quiet, Keeps

\* Which fields the UPDATEs of a row leave alone.
SameIdentity(new, old) == new.hash = old.hash /\ new.uri = old.uri /\ new.state = old.state

\* A statement that writes one row and keeps its identity.
LEMMA OneRowQuiet ==
    ASSUME RowsTypeOK, NEW x \in Documents, NEW row, doc' = [doc EXCEPT ![x] = row],
           SameIdentity(row, doc[x]),
           row.claim \in Uploads => row.claim = doc[x].claim,
           row.status \in Occupied => doc[x].status \in Occupied
    PROVE  Quiet
BY DEF RowsTypeOK, Quiet, Keeps, SameIdentity

LEMMA MarkedQuiet ==
    ASSUME RowsTypeOK, NEW x \in Documents, NEW row, doc' = [doc EXCEPT ![x] = row],
           SameIdentity(row, doc[x]), row.claim = doc[x].claim, row.status \notin Occupied
    PROVE  Quiet
BY OneRowQuiet

LEMMA DeletedKeeps ==
    ASSUME NEW x, doc[x] \in DocType,
           doc'[x] = doc[x] \/ doc'[x] = [doc[x] EXCEPT !.state = "deleted"]
    PROVE  Keeps(x)
BY DEF Keeps, DocType

LEMMA MarkedKeeps ==
    ASSUME NEW x, doc[x] \in DocType, NEW s, NEW b, s \notin Occupied,
           doc'[x] = [doc[x] EXCEPT !.status = s, !.hint = b]
    PROVE  Keeps(x)
BY DEF Keeps, DocType

LEMMA ClaimedKeeps ==
    ASSUME NEW x, doc[x] \in DocType, NEW r, r \notin Uploads,
           doc'[x] = doc[x] \/ doc'[x] = [doc[x] EXCEPT !.claim = r]
    PROVE  Keeps(x)
BY DEF Keeps, DocType

LEMMA StatusWritten ==
    ASSUME NEW row \in DocType, NEW s
    PROVE  LET new == [row EXCEPT !.status = s]
           IN  SameIdentity(new, row) /\ new.claim = row.claim /\ new.status = s
BY DEF DocType, SameIdentity

LEMMA StatusAndHintWritten ==
    ASSUME NEW row \in DocType, NEW s, NEW b
    PROVE  LET new == [row EXCEPT !.status = s, !.hint = b]
           IN  SameIdentity(new, row) /\ new.claim = row.claim /\ new.status = s
BY DEF DocType, SameIdentity

LEMMA ClaimReleased ==
    ASSUME NEW row \in DocType, NEW s, NEW b
    PROVE  LET new == [row EXCEPT !.status = s, !.claim = None, !.hint = b]
           IN  SameIdentity(new, row) /\ new.claim = None /\ new.status = s
BY DEF DocType, SameIdentity

LEMMA CheckRecorded ==
    ASSUME NEW row \in DocType
    PROVE  /\ \A s : LET new == [row EXCEPT !.status = s, !.claim = None, !.attempts = 0,
                                          !.hint = FALSE]
                    IN  SameIdentity(new, row) /\ new.claim = None
           /\ SameIdentity(CountedAttempt(row), row) /\ CountedAttempt(row).claim = None
BY DEF DocType, SameIdentity, CountedAttempt

LEMMA RegisterQuiet ==
    ASSUME TypeInv, RegisterStep
    PROVE  Quiet
<1>1. PICK x \in Documents : Register(x)
  BY DEF RegisterStep
<1>2. doc[x].state = "absent" /\ doc \in [Documents -> DocType]
  BY <1>1 DEF Register, TypeInv, TypeOK, RowsTypeOK
<1>3. PICK row : /\ doc' = [doc EXCEPT ![x] = row]
                 /\ row.state = "active" /\ row.status \notin Occupied
                 /\ row.uri = None /\ row.claim = None
  <2>1. PICK h \in setting.hashes \cup {None} :
          \/ doc' = [doc EXCEPT ![x] = [NoDoc EXCEPT !.state = "active", !.hash = h, !.link = x]]
          \/ doc' = [doc EXCEPT ![x] = [NoDoc EXCEPT !.state = "active", !.hash = h]]
    BY <1>1 DEF Register
  <2>2. CASE doc' = [doc EXCEPT ![x] = [NoDoc EXCEPT !.state = "active", !.hash = h, !.link = x]]
    <3> DEFINE row == [NoDoc EXCEPT !.state = "active", !.hash = h, !.link = x]
    <3>1. /\ row.state = "active" /\ row.status \notin Occupied
          /\ row.uri = None /\ row.claim = None
      BY DEF NoDoc, Occupied
    <3> QED
      BY <2>2, <3>1
  <2>3. CASE doc' = [doc EXCEPT ![x] = [NoDoc EXCEPT !.state = "active", !.hash = h]]
    <3> DEFINE row == [NoDoc EXCEPT !.state = "active", !.hash = h]
    <3>1. /\ row.state = "active" /\ row.status \notin Occupied
          /\ row.uri = None /\ row.claim = None
      BY DEF NoDoc, Occupied
    <3> QED
      BY <2>3, <3>1
  <2> QED
    BY <2>1, <2>2, <2>3
<1>4. Fresh(x) /\ \A y \in Documents \ {x} : doc'[y] = doc[y]
  BY <1>2, <1>3 DEF Fresh
<1> QED
  BY <1>4 DEF Quiet, Keeps

LEMMA RemovalQuiet ==
    ASSUME TypeInv, RemovalStep
    PROVE  Quiet /\ \A u \in Uploads : Stays(u)
<1>1. PICK w \in Removals : \/ RmStep(w) \/ CrashRemoval(w)
                            \/ \E x \in Registered : BeginRemoval(w, "document", {x})
                            \/ BeginRemoval(w, "source", Registered)
                            \/ BeginWipe(w)
  BY DEF RemovalStep
<1>2. RowsTypeOK /\ w \notin Uploads /\ None \notin Uploads
  BY NamesAssumption DEF TypeInv, TypeOK
<1>3. up' = up
  BY DEF RemovalStep
<1>4. CASE \E x \in Registered : BeginRemoval(w, "document", {x})
  BY <1>2, <1>3, <1>4, UnchangedQuiet
     DEF BeginRemoval, ListBlobs, Stays, RowsTypeOK, Registered
<1>5. CASE BeginRemoval(w, "source", Registered) \/ BeginWipe(w)
  BY <1>3, <1>5, UnchangedQuiet DEF BeginRemoval, BeginWipe, ListBlobs, ListForWipe, rows, Stays
<1>6. CASE SoftDelete(w)
  <2>1. \A x \in Documents : doc'[x] = doc[x] \/ doc'[x] = [doc[x] EXCEPT !.state = "deleted"]
    BY <1>2, <1>6 DEF SoftDelete, RowsTypeOK
  <2>2. Quiet
    BY <1>2, <2>1, DeletedKeeps DEF Quiet, RowsTypeOK
  <2> QED
    BY <1>2, <1>3, <1>6, <2>2 DEF SoftDelete, Stays, RowsTypeOK
<1>7. CASE LookupOrphans(w) \/ DropArtifacts(w) \/ \E b \in Keys : CleanupBlob(w, b)
  BY <1>3, <1>7, UnchangedQuiet DEF LookupOrphans, DropArtifacts, CleanupBlob, rows, Stays
<1>8. CASE DropDocuments(w)
  <2>1. \A x \in Documents : doc'[x] = doc[x] \/ doc'[x] = [NoDoc EXCEPT !.state = "wiped"]
    BY <1>2, <1>8 DEF DropDocuments, RowsTypeOK
  <2>2. Quiet
    BY <2>1 DEF Quiet, Keeps, Fresh, NoDoc, Occupied
  <2> QED
    BY <1>3, <1>8, <2>2 DEF DropDocuments, Stays
<1>9. CASE \E b \in Keys : MarkCleaned(w, b) \/ MarkFailed(w, b)
  <2>1. PICK b \in Keys : MarkCleaned(w, b) \/ MarkFailed(w, b)
    BY <1>9
  <2>2. b[1] \in Documents
    BY DEF Keys
  <2>3. "blob_deleted" \notin Occupied /\ "raw_storage_failed" \notin Occupied
    BY DEF Occupied
  <2>4. ASSUME MarkCleaned(w, b) PROVE Quiet
    <3> DEFINE row == [doc[b[1]] EXCEPT !.status = "blob_deleted"]
    <3>1. doc[b[1]] \in DocType
      BY <1>2, <2>2 DEF RowsTypeOK
    <3>2. SameIdentity(row, doc[b[1]]) /\ row.claim = doc[b[1]].claim /\ row.status = "blob_deleted"
      BY <3>1, StatusWritten
    <3>3. doc' = [doc EXCEPT ![b[1]] = row] \/ doc' = doc
      BY <2>4 DEF MarkCleaned, SetBoth
    <3> HIDE DEF row
    <3> QED
      BY <1>2, <2>2, <2>3, <3>2, <3>3, MarkedQuiet, UnchangedQuiet
  <2>5. ASSUME MarkFailed(w, b) PROVE Quiet
    <3> DEFINE row == [doc[b[1]] EXCEPT !.status = "raw_storage_failed",
                                        !.hint = rm[w].kind = "source" /\ doc[b[1]].hint]
    <3>1. doc[b[1]] \in DocType
      BY <1>2, <2>2 DEF RowsTypeOK
    <3>2. /\ SameIdentity(row, doc[b[1]]) /\ row.claim = doc[b[1]].claim
          /\ row.status = "raw_storage_failed"
      BY <3>1 DEF DocType, SameIdentity
    <3>3. doc' = [doc EXCEPT ![b[1]] = row] \/ doc' = doc
      BY <2>5 DEF MarkFailed, SetBoth
    <3> HIDE DEF row
    <3> QED
      BY <1>2, <2>2, <2>3, <3>2, <3>3, MarkedQuiet, UnchangedQuiet
  <2>6. lock' = lock
    BY <2>1 DEF MarkCleaned, MarkFailed
  <2> QED
    BY <1>3, <2>1, <2>4, <2>5, <2>6 DEF Stays
<1>10. CASE CrashRemoval(w)
  BY <1>2, <1>3, <1>10, UnchangedQuiet DEF CrashRemoval, Stays, RowsTypeOK
<1> QED
  BY <1>1, <1>4, <1>5, <1>6, <1>7, <1>8, <1>9, <1>10 DEF RmStep

LEMMA DeleteQuiet ==
    ASSUME TypeInv, DeleteStep
    PROVE  Quiet /\ \A u \in Uploads : Stays(u)
<1>1. RowsTypeOK /\ up' = up
  BY DEF TypeInv, TypeOK, DeleteStep
<1>2. lock' = lock
  BY DEF DeleteStep, DelStep, ReadInitial, ClaimDelete, CountReferences, Cascade, ReleaseClaim,
         DeleteObject, FinalizeDelete, rows
<1>3. \A x \in Documents :
         \/ doc'[x] = doc[x]
         \/ doc'[x] = [doc[x] EXCEPT !.state = "deleted"]
         \/ \E s \in {"blob_deleted", "raw_storage_failed"}, b \in BOOLEAN :
               doc'[x] = [doc[x] EXCEPT !.status = s, !.hint = b]
  <2>1. PICK d \in Deletes : DelStep(d) \/ \E a \in Artifacts, policy \in BOOLEAN :
                                              ReadInitial(d, a, policy)
    BY DEF DeleteStep
  <2>2. CASE \E x \in Documents : Cascade(d, x)
    <3>1. PICK y \in Documents : Cascade(d, y)
      BY <2>2
    <3>2. doc' = doc \/ doc' = [doc EXCEPT ![y] = [doc[y] EXCEPT !.state = "deleted"]]
      BY <3>1 DEF Cascade
    <3>3. doc \in [Documents -> DocType]
      BY <1>1 DEF RowsTypeOK
    <3> QED
      BY <3>2, <3>3
  <2>3. CASE FinalizeDelete(d)
    BY <1>1, <2>3 DEF FinalizeDelete, RowsTypeOK, DocType
  <2>4. CASE \/ ClaimDelete(d) \/ CountReferences(d) \/ ReleaseClaim(d) \/ DeleteObject(d)
            \/ \E a \in Artifacts, policy \in BOOLEAN : ReadInitial(d, a, policy)
    BY <2>4 DEF ClaimDelete, CountReferences, ReleaseClaim, DeleteObject, ReadInitial, rows
  <2> QED
    BY <2>1, <2>2, <2>3, <2>4 DEF DelStep
<1>4. Quiet
  <2>1. "blob_deleted" \notin Occupied /\ "raw_storage_failed" \notin Occupied
    BY DEF Occupied
  <2> QED
    BY <1>1, <1>3, <2>1, DeletedKeeps, MarkedKeeps DEF Quiet, RowsTypeOK
<1> QED
  BY <1>1, <1>2, <1>4 DEF Stays

LEMMA ReconcileQuiet ==
    ASSUME TypeInv, ReconcileStep
    PROVE  Quiet /\ \A u \in Uploads : Stays(u)
<1>1. RowsTypeOK /\ up' = up
  BY DEF TypeInv, TypeOK, ReconcileStep
<1>2. PICK r \in Reconcilers : RecStep(r) \/ CrashReconciler(r)
  BY DEF ReconcileStep
<1>3. r \notin Uploads /\ None \notin Uploads
  BY NamesAssumption
<1>4. CASE \E batch \in SUBSET Documents : ClaimBatch(r, batch)
  <2>1. \A x \in Documents : doc'[x] = doc[x] \/ doc'[x] = [doc[x] EXCEPT !.claim = r]
    BY <1>1, <1>4 DEF ClaimBatch, RowsTypeOK
  <2>2. Quiet
    BY <1>1, <1>3, <2>1, ClaimedKeeps DEF Quiet, RowsTypeOK
  <2> QED
    BY <1>1, <1>4, <2>2 DEF ClaimBatch, Stays
<1>5. CASE RecWrite(r)
  <2>1. rec[r].row \in Documents
    BY <1>5 DEF RecWrite, TypeInv, ReconcilersNamed
  <2>2. "blob_archival_failed" \notin Occupied /\ "blob_pending" \in Occupied
    BY DEF Occupied
  <2>3. CASE doc' = doc
    BY <1>1, <1>5, <2>3, UnchangedQuiet DEF RecWrite, Stays
  <2>4. CASE doc' # doc
    <3>1. doc[rec[r].row].status \in Occupied
      BY <1>5, <2>2, <2>4 DEF RecWrite, RecHolds
    <3>2. PICK row : /\ doc' = [doc EXCEPT ![rec[r].row] = row]
                     /\ SameIdentity(row, doc[rec[r].row]) /\ row.claim = None
      <4> DEFINE old == doc[rec[r].row]
                 after(s) == [old EXCEPT !.status = s, !.claim = None, !.attempts = 0,
                                         !.hint = FALSE]
      <4>1. old \in DocType
        BY <1>1, <2>1 DEF RowsTypeOK
      <4>2. \/ \E s \in {"blob_available", "blob_archival_failed"} :
                  doc' = [doc EXCEPT ![rec[r].row] = after(s)]
            \/ doc' = [doc EXCEPT ![rec[r].row] = CountedAttempt(old)]
        BY <1>5, <2>4 DEF RecWrite, SetBoth
      <4>3. \A s : SameIdentity(after(s), old) /\ after(s).claim = None
        BY <4>1, CheckRecorded
      <4>4. SameIdentity(CountedAttempt(old), old) /\ CountedAttempt(old).claim = None
        BY <4>1, CheckRecorded
      <4> HIDE DEF after, old
      <4>5. doc[rec[r].row] = old
        BY DEF old
      <4> QED
        BY <4>2, <4>3, <4>4, <4>5
    <3>3. Quiet
      BY <1>1, <1>3, <2>1, <3>1, <3>2, OneRowQuiet
    <3> QED
      BY <1>1, <1>5, <3>3 DEF RecWrite, Stays
  <2> QED
    BY <2>3, <2>4
<1>6. CASE CrashReconciler(r) \/ \E k \in Keys : Probe(r, k)
  BY <1>1, <1>6, UnchangedQuiet DEF CrashReconciler, Probe, rows, Stays
<1> QED
  BY <1>2, <1>4, <1>5, <1>6 DEF RecStep
-----------------------------------------------------------------------------
\* The steps of uploads. Three of them write what the invariant is about: the
\* beginning takes the lock, the claim writes the hash, beta2 writes the uri.

LEMMA BeginKeepsSlot ==
    ASSUME SlotInv, TypeInv', NEW u \in Uploads, NEW x \in Documents, NEW h \in Hashes,
           AlphaLoad(u, x, h)
    PROVE  SlotInv' /\ \A y \in Documents : KeepsSlot(y)
<1>1. /\ doc' = doc /\ doc[x].state # "absent" /\ lock[x] = None
      /\ \A v \in Uploads \ {u} : up'[v] = up[v]
      /\ up'[u].doc = x /\ up'[u].hash = h
      /\ up'[u].pc \notin {"put", "beta2"}
      /\ \A y \in Documents \ {x} : lock'[y] = lock[y]
  BY DEF AlphaLoad, SlotInv, TypeInv, TypeOK, UpTypeOK, RowsTypeOK, Decision
<1>2. up'[u].pc = "claim" =>
         /\ lock'[x] = u
         /\ doc[x].status \in Occupied /\ doc[x].hash # None => doc[x].hash = h
         /\ up'[u].branch = "finalize" => doc[x].hash = h
  BY DEF AlphaLoad, SlotInv, TypeInv, TypeOK, UpTypeOK, RowsTypeOK, Decision
<1>3. UriMatchesHash' /\ AbsentIsFree' /\ \A y \in Documents : KeepsSlot(y)
  BY <1>1 DEF SlotInv, UriMatchesHash, AbsentIsFree, KeepsSlot
<1>4. SeenUnderLock(u)' /\ ClaimHasHash(u)'
  BY <1>1, <1>2 DEF SeenUnderLock, ClaimHasHash
<1>5. ASSUME NEW v \in Uploads \ {u}
      PROVE  SeenUnderLock(v)' /\ ClaimHasHash(v)'
  <2>1. SeenUnderLock(v) /\ ClaimHasHash(v) /\ v # None
    BY NamesAssumption DEF SlotInv
  <2>2. up[v].pc = "claim" => up[v].doc \in Documents
    BY DEF SlotInv, TypeInv, UploadsNamed
  <2> QED
    BY <1>1, <2>1, <2>2 DEF SeenUnderLock, ClaimHasHash
<1> QED
  BY <1>3, <1>4, <1>5 DEF SlotInv

LEMMA OnwardByGoto ==
    ASSUME TypeInv, NEW u \in Uploads, NEW pc, UpGoto(u, pc)
    PROVE  /\ \A v \in Uploads \ {u} : up'[v] = up[v]
           /\ pc \notin {"claim", "put", "beta2"} => Onward(u)
           /\ up'[u].pc = pc /\ up'[u].doc = up[u].doc /\ up'[u].hash = up[u].hash
BY DEF TypeInv, TypeOK, UpTypeOK, UpType, UpGoto, Onward

LEMMA ClaimKeepsSlot ==
    ASSUME SlotInv, TypeInv', NEW u \in Uploads, AlphaClaim(u)
    PROVE  SlotInv' /\ \A y \in Documents : KeepsSlot(y)
<1> DEFINE x == up[u].doc
<1>1. /\ up[u].pc = "claim" /\ x \in Documents /\ lock[x] = u
      /\ TypeInv /\ RowsTypeOK /\ doc[x] \in DocType
      /\ lock' = [lock EXCEPT ![x] = None]
  BY DEF AlphaClaim, SlotInv, TypeInv, TypeOK, UploadsNamed, SeenUnderLock, RowsTypeOK
<1>2. PICK pc \in {"gamma", "put", "notFound", "error"} : UpGoto(u, pc)
  BY DEF AlphaClaim
<1>3. \A v \in Uploads \ {u} : Stays(v)
  BY <1>1, <1>2, OnwardByGoto DEF Stays, RowsTypeOK
<1>4. CASE doc' = doc /\ pc # "put"
  BY <1>1, <1>2, <1>3, <1>4, OnwardByGoto, UnchangedQuiet, QuietStep
<1>5. CASE Active(x) /\ doc' = [doc EXCEPT ![x] = Claimed(u)]
  <2> DEFINE row == Claimed(u)
  <2>1. /\ row.claim = u /\ row.hash = up[u].hash /\ row.state = "active"
        /\ row.uri = None \/ (up[u].branch = "finalize" /\ row.uri = doc[x].uri)
    <3> DEFINE taken == [doc[x] EXCEPT !.status = "blob_uploading", !.claim = u,
                                       !.hash = up[u].hash]
    <3>1. /\ taken \in DocType
          /\ taken.claim = u /\ taken.hash = up[u].hash /\ taken.state = doc[x].state
          /\ taken.uri = doc[x].uri
      <4>1. up[u].hash \in Hashes
        BY <1>1 DEF TypeInv, UploadsNamed
      <4>2. taken \in DocType
        BY <1>1, <4>1, ClaimTyped DEF DocType
      <4>3. /\ taken.claim = u /\ taken.hash = up[u].hash
            /\ taken.state = doc[x].state /\ taken.uri = doc[x].uri
        BY <1>1 DEF DocType
      <4> QED
        BY <4>2, <4>3
    <3>2. row = IF up[u].branch = "finalize" THEN taken
                ELSE [taken EXCEPT !.uri = None, !.storedStatus = None]
      BY DEF Claimed
    <3>3. CASE up[u].branch = "finalize"
      <4>1. row = taken
        BY <3>2, <3>3
      <4> HIDE DEF taken, row
      <4> QED
        BY <1>5, <3>1, <3>3, <4>1 DEF Active
    <3>4. CASE up[u].branch # "finalize"
      <4>1. row = [taken EXCEPT !.uri = None, !.storedStatus = None]
        BY <3>2, <3>4
      <4> HIDE DEF taken, row
      <4> QED
        BY <1>5, <3>1, <4>1 DEF Active, DocType
    <3> QED
      BY <3>3, <3>4
  <2>2. doc'[x] = row /\ \A y \in Documents \ {x} : doc'[y] = doc[y]
    BY <1>1, <1>5 DEF RowsTypeOK
  <2>3. SeenUnderLock(u) /\ UriMatchesHash /\ AbsentIsFree
    BY DEF SlotInv
  <2>4. UriMatchesHash'
    BY <1>1, <1>5, <2>1, <2>2, <2>3 DEF UriMatchesHash, SeenUnderLock, Active
  <2>5. AbsentIsFree'
    BY <1>1, <2>1, <2>2, <2>3 DEF AbsentIsFree
  <2>6. \A y \in Documents : KeepsSlot(y)
    BY <1>1, <2>1, <2>2, <2>3 DEF KeepsSlot, SeenUnderLock
  <2>7. SeenUnderLock(u)' /\ ClaimHasHash(u)'
    <3>1. up'[u].pc # "claim" /\ up'[u].doc = x /\ up'[u].hash = up[u].hash
      BY <1>1, <1>2, OnwardByGoto
    <3> QED
      BY <2>1, <2>2, <3>1 DEF SeenUnderLock, ClaimHasHash
  <2>8. ASSUME NEW v \in Uploads \ {u}
        PROVE  SeenUnderLock(v)' /\ ClaimHasHash(v)'
    <3>1. SeenUnderLock(v) /\ ClaimHasHash(v) /\ up'[v] = up[v]
      BY <1>3 DEF SlotInv, Stays
    <3>2. up[v].pc # "none" => up[v].doc \in Documents
      BY DEF SlotInv, TypeInv, UploadsNamed
    <3>3. SeenUnderLock(v)'
      BY <1>1, <1>3, <2>2, <3>1, <3>2 DEF SeenUnderLock, Stays
    <3>4. ClaimHasHash(v)'
      BY <2>1, <2>2, <3>1, <3>2 DEF ClaimHasHash
    <3> QED
      BY <3>3, <3>4
  <2> QED
    BY <2>4, <2>5, <2>6, <2>7, <2>8 DEF SlotInv
<1>6. \/ doc' = doc /\ pc # "put"
      \/ Active(x) /\ doc' = [doc EXCEPT ![x] = Claimed(u)]
  <2>1. UpGoto(u, "put") => pc = "put"
    BY <1>1, <1>2, OnwardByGoto
  <2>2. \A q : UpGoto(u, q) => q = pc
    BY <1>1, <1>2, OnwardByGoto
  <2> QED
    BY <2>2 DEF AlphaClaim
<1> QED
  BY <1>4, <1>5, <1>6

LEMMA Beta2KeepsSlot ==
    ASSUME SlotInv, TypeInv', NEW u \in Uploads, Beta2(u)
    PROVE  SlotInv' /\ \A y \in Documents : KeepsSlot(y)
<1> DEFINE x == up[u].doc
<1>1. /\ up[u].pc = "beta2" /\ x \in Documents /\ lock' = lock
      /\ TypeInv /\ RowsTypeOK /\ doc[x] \in DocType
  BY DEF Beta2, SlotInv, TypeInv, TypeOK, UploadsNamed, RowsTypeOK
<1>2. PICK pc \in {"gamma", "compensateLost", "compensateFailed"} : UpGoto(u, pc)
  BY DEF Beta2
<1>3. Onward(u) /\ \A v \in Uploads \ {u} : Stays(v)
  BY <1>1, <1>2, OnwardByGoto DEF Stays
<1>4. CASE doc' = doc
  BY <1>1, <1>3, <1>4, UnchangedQuiet, QuietStep
<1>5. CASE doc' # doc
  <2>1. /\ ClaimHeld(u)
        /\ doc' = [doc EXCEPT ![x] = [@ EXCEPT !.mode = "managed_blob", !.uri = up[u].hash,
                                               !.storedStatus = up[u].storedStatus,
                                               !.link = u]]
    BY <1>5 DEF Beta2
  <2>2. /\ doc'[x].uri = up[u].hash /\ doc'[x].hash = doc[x].hash
        /\ doc'[x].claim = doc[x].claim /\ doc'[x].state = doc[x].state
        /\ doc'[x].status = doc[x].status
    BY <1>1, <2>1 DEF RowsTypeOK, DocType
  <2>3. \A y \in Documents \ {x} : doc'[y] = doc[y]
    BY <1>1, <2>1 DEF RowsTypeOK
  <2>4. doc[x].hash = up[u].hash
    BY <1>1, <2>1 DEF SlotInv, ClaimHasHash, ClaimHeld
  <2>5. UriMatchesHash' /\ AbsentIsFree' /\ \A y \in Documents : KeepsSlot(y)
    BY <2>2, <2>3, <2>4 DEF SlotInv, UriMatchesHash, AbsentIsFree, KeepsSlot
  <2>6. ASSUME NEW v \in Uploads
        PROVE  SeenUnderLock(v)' /\ ClaimHasHash(v)'
    <3>1. SeenUnderLock(v) /\ ClaimHasHash(v) /\ (up'[v] = up[v] \/ (Onward(v) /\ v = u))
      <4>1. SeenUnderLock(v) /\ ClaimHasHash(v)
        BY DEF SlotInv
      <4>2. CASE v = u
        BY <1>3, <4>1, <4>2
      <4>3. CASE v # u
        BY <1>3, <4>1, <4>3 DEF Stays
      <4> QED
        BY <4>2, <4>3
    <3>2. up[v].pc # "none" => up[v].doc \in Documents
      BY DEF SlotInv, TypeInv, UploadsNamed
    <3>3. CASE up'[v] = up[v]
      BY <1>1, <2>2, <2>3, <3>1, <3>2, <3>3 DEF SeenUnderLock, ClaimHasHash
    <3>4. CASE Onward(v) /\ v = u
      BY <1>1, <3>4 DEF Onward, SeenUnderLock, ClaimHasHash
    <3> QED
      BY <3>1, <3>3, <3>4
  <2> QED
    BY <2>5, <2>6 DEF SlotInv
<1> QED
  BY <1>4, <1>5

LEMMA OtherStepsQuiet ==
    ASSUME TypeInv, NEW u \in Uploads,
           \/ Put(u) \/ FailClaimed(u) \/ Compensate(u) \/ MarkBeta2Failure(u)
           \/ Gamma(u) \/ CrashUpload(u)
    PROVE  Quiet /\ \A v \in Uploads : Stays(v) \/ Onward(v)
<1> DEFINE x == up[u].doc
<1>1. /\ RowsTypeOK /\ None \notin Uploads
      /\ up[u].pc # "none" /\ x \in Documents /\ doc[x] \in DocType
  <2>1. up[u].pc # "none"
    BY DEF Put, FailClaimed, Compensate, MarkBeta2Failure, Gamma, CrashUpload, UpSteps
  <2> QED
    BY <2>1, NamesAssumption DEF TypeInv, TypeOK, UploadsNamed, RowsTypeOK
<1>2. CASE Put(u)
  <2>1. Onward(u) /\ \A v \in Uploads \ {u} : up'[v] = up[v]
    <3>1. CASE \E s \in {"stored", "pending"} :
                  up' = [up EXCEPT ![u] = [@ EXCEPT !.pc = "beta2", !.storedStatus = s]]
      BY <1>2, <3>1 DEF Put, Onward, TypeInv, TypeOK, UpTypeOK, UpType
    <3>2. CASE UpGoto(u, "failClaimed")
      BY <3>2, OnwardByGoto
    <3> QED
      BY <1>2, <3>1, <3>2 DEF Put
  <2> QED
    BY <1>2, <2>1, UnchangedQuiet DEF Put, Stays
<1>3. CASE Compensate(u)
  <2>1. PICK pc \in {"lost", "markCleaned", "markOrphan"} : UpGoto(u, pc)
    BY <1>3 DEF Compensate
  <2> QED
    BY <1>3, <2>1, OnwardByGoto, UnchangedQuiet DEF Compensate, Stays
<1>4. CASE CrashUpload(u)
  BY <1>1, <1>4, OnwardByGoto, UnchangedQuiet DEF CrashUpload, Stays, RowsTypeOK
<1>5. CASE FailClaimed(u) \/ MarkBeta2Failure(u)
  <2>1. doc' # doc => \E b \in BOOLEAN : doc' = [doc EXCEPT ![x] = Failed(x, b)]
    BY <1>5 DEF FailClaimed, MarkBeta2Failure, SetBoth
  <2>2. \A b : /\ SameIdentity(Failed(x, b), doc[x]) /\ Failed(x, b).claim = None
               /\ Failed(x, b).status = "raw_storage_failed"
    BY <1>1, ClaimReleased DEF Failed
  <2>3. "raw_storage_failed" \notin Occupied
    BY DEF Occupied
  <2>4. Quiet
    BY <1>1, <2>1, <2>2, <2>3, OneRowQuiet, UnchangedQuiet
  <2> QED
    BY <1>5, <2>4, OnwardByGoto DEF FailClaimed, MarkBeta2Failure, Stays
<1>6. CASE Gamma(u)
  <2> DEFINE row == [doc[x] EXCEPT !.status = FinalStatus(up[u].storedStatus),
                                   !.claim = None, !.hint = FALSE]
  <2>1. doc' # doc => doc' = [doc EXCEPT ![x] = row] /\ doc[x].status = "blob_uploading"
    BY <1>6 DEF Gamma, SetBoth, GammaHeld, ClaimHeld
  <2>2. SameIdentity(row, doc[x]) /\ row.claim = None
    BY <1>1 DEF DocType, SameIdentity
  <2>3. "blob_uploading" \in Occupied
    BY DEF Occupied
  <2> HIDE DEF row
  <2>4. Quiet
    BY <1>1, <2>1, <2>2, <2>3, OneRowQuiet, UnchangedQuiet
  <2>5. PICK pc \in {"ok", "lost", "error"} : UpGoto(u, pc)
    BY <1>6 DEF Gamma
  <2> QED
    BY <1>6, <2>4, <2>5, OnwardByGoto DEF Gamma, Stays
<1> QED
  BY <1>2, <1>3, <1>4, <1>5, <1>6

-----------------------------------------------------------------------------
LEMMA SlotStep ==
    ASSUME SlotInv, [Next]_vars
    PROVE  SlotInv' /\ \A x \in Documents : KeepsSlot(x)
<1>1. TypeInv /\ TypeInv'
  BY NextTyped DEF SlotInv
<1>2. CASE RegisterStep
  BY <1>1, <1>2, RegisterQuiet, QuietStep DEF RegisterStep, Register, Stays
<1>3. CASE UploadStep
  <2>1. PICK u \in Uploads : \/ UpStep(u) \/ CrashUpload(u)
                             \/ \E x \in Documents, h \in Hashes : BeginUpload(u, x, h)
    BY <1>3 DEF UploadStep
  <2>2. CASE \E x \in Documents, h \in Hashes : BeginUpload(u, x, h)
    BY <1>1, <2>2, BeginKeepsSlot DEF BeginUpload
  <2>3. CASE AlphaClaim(u)
    BY <1>1, <2>3, ClaimKeepsSlot
  <2>4. CASE Beta2(u)
    BY <1>1, <2>4, Beta2KeepsSlot
  <2>5. CASE \/ Put(u) \/ FailClaimed(u) \/ Compensate(u) \/ MarkBeta2Failure(u)
            \/ Gamma(u) \/ CrashUpload(u)
    BY <1>1, <2>5, OtherStepsQuiet, QuietStep
  <2> QED
    BY <2>1, <2>2, <2>3, <2>4, <2>5 DEF UpStep
<1>4. CASE RemovalStep
  BY <1>1, <1>4, RemovalQuiet, QuietStep
<1>5. CASE DeleteStep
  BY <1>1, <1>5, DeleteQuiet, QuietStep
<1>6. CASE ReconcileStep
  BY <1>1, <1>6, ReconcileQuiet, QuietStep
<1>7. CASE UNCHANGED vars
  BY <1>1, <1>7, UnchangedQuiet, QuietStep DEF vars, Stays
<1> QED
  BY <1>2, <1>3, <1>4, <1>5, <1>6, <1>7 DEF Next

LEMMA InitSlot == Init => SlotInv
<1> SUFFICES ASSUME Init PROVE SlotInv
  OBVIOUS
<1>1. \A u \in Uploads : up[u].pc = "none"
  BY DEF Init, UpInit, NoUpload
<1>2. \A x \in Documents : doc[x] = NoDoc
  BY DEF Init, RowsInit
<1>3. UriMatchesHash /\ AbsentIsFree
  BY <1>2 DEF UriMatchesHash, AbsentIsFree, NoDoc, Occupied
<1> QED
  BY <1>1, <1>3, InitTyped DEF SlotInv, SeenUnderLock, ClaimHasHash

LEMMA SlotAlways == Spec => []SlotInv
BY InitSlot, SlotStep, PTL DEF Spec

\* A document never points at bytes other than those its content_hash promises.
THEOREM UriIsOfHash == Spec => []UriMatchesHash
<1>1. SlotInv => UriMatchesHash
  BY DEF SlotInv
<1> QED
  BY <1>1, SlotAlways, PTL

\* An occupied slot keeps its bytes, whatever uploads, reconcilers, removals and
\* deletes do at once; only the wipe of its user drops it.
THEOREM SlotIsKept == Spec => SlotKept
<1>1. SlotInv /\ [Next]_vars =>
         [\A x \in Documents :
             doc[x].status \in Occupied /\ doc[x].hash # None =>
                doc'[x].hash = doc[x].hash \/ doc'[x].state = "wiped"]_vars
  BY SlotStep DEF KeepsSlot
<1> QED
  BY <1>1, SlotAlways, PTL DEF Spec, SlotKept

-----------------------------------------------------------------------------
(***************************************************************************)
(* Links.  A document links its own pointer artifact or one of its own      *)
(* uploads, so no two documents link the same, and what is done to the      *)
(* artifact of one is done to that of no other.                             *)
(***************************************************************************)

\* The upload has not inserted its artifact.
Early == {"none", "claim", "put", "beta2"}

Linked == Settled \cup {"blob_archival_failed"}

Created(a) ==
    /\ a \in Documents => doc[a].state # "absent"
    /\ a \in Uploads => up[a].pc \notin Early

LinkOwn(x) ==
    doc[x].link # None =>
       /\ doc[x].link = x \/ (doc[x].link \in Uploads /\ up[doc[x].link].doc = x)
       /\ doc[x].state \in {"active", "deleted"}
       /\ art[doc[x].link].status # "absent"

Filled(x) == doc[x].status \in Linked \/ doc[x].uri # None => doc[x].link # None

ArtifactsNamed ==
    \A a \in Artifacts : art[a].status # "absent" =>
       /\ Created(a)
       /\ a \in Uploads => art[a].uri = Key(a)

\* A wipe has the documents to itself, and the steps of a kind of removal are its own.
RemovalOrder(w) ==
    /\ rm[w].kind = "user" => rm[w].pc # "none" /\ setting.wipe
    /\ rm[w].kind = "user" /\ rm[w].pc \in RmSteps =>
          /\ rm[w].pc \in {"cleanup", "mark", "dropDocuments", "dropArtifacts"}
          /\ rm[w].scope = Documents
          /\ \A v \in Removals \ {w} : rm[v].pc \in RmSteps => rm[v].scope = {}
    /\ rm[w].pc \in {"dropDocuments", "dropArtifacts"} => rm[w].kind = "user"
    /\ rm[w].kind # "user" /\ rm[w].pc \in RmSteps =>
          /\ \A x \in rm[w].scope : HasRow(x)
          /\ rm[w].pc # "softDelete" => \A x \in rm[w].scope : doc[x].state = "deleted"
          /\ \A k \in rm[w].blobs \cup rm[w].cleaned \cup rm[w].failed : k[1] \in rm[w].scope

\* A delete past its count has nobody left who links its artifact.
DeleteOrder(d) ==
    LET a == del[d].art IN
    del[d].pc # "none" =>
       /\ a \in Artifacts /\ Created(a) /\ del[d].status # "absent"
       /\ del[d].pc = "cascade" => References(a) \subseteq del[d].todo
       /\ del[d].pc \in {"backend", "finalizeSuccess", "finalizeFailure"} => References(a) = {}

\* An artifact of an upload that is alive is linked, or its document was wiped.
Owned(u) ==
    art[u].status \notin {"absent", "deleted"} =>
       \/ \E x \in Documents : doc[x].link = u
       \/ /\ doc[up[u].doc].state = "wiped"
          /\ \E w \in Removals : rm[w].kind = "user" /\ rm[w].pc # "ok"

\* The artifact an active document links has the status its own maps to, unless a
\* delete has begun at it.
Followed(x) ==
    Active(x) /\ doc[x].status \in Linked =>
       \/ art[doc[x].link].status = ArtifactStatus(doc[x].status)
       \/ \E d \in Deletes : del[d].pc # "none" /\ del[d].art = doc[x].link

LinkInv ==
    /\ TypeInv
    /\ \A x \in Documents : Followed(x)
    /\ \A x \in Documents : LinkOwn(x) /\ Filled(x)
    /\ ArtifactsNamed
    /\ \A w \in Removals : RemovalOrder(w)
    /\ \A d \in Deletes : DeleteOrder(d)
    /\ \A u \in Uploads : Owned(u)
    /\ LinkedArtifactLives

RowLinks ==
    /\ \A x \in Documents : LinkOwn(x) /\ Filled(x)
    /\ ArtifactsNamed
    /\ LinkedArtifactLives

\* What most steps do to the rows: no link changes, no artifact appears, vanishes or
\* comes back without its document, and none of an active document becomes a tombstone.
TameRow(x) ==
    /\ doc'[x].link = doc[x].link
    /\ \/ doc'[x].state = doc[x].state
       \/ HasRow(x) /\ doc'[x].state = "deleted"
    /\ doc'[x].uri # None => doc[x].uri # None
    /\ doc'[x].status \in Linked => doc[x].status \in Linked \/ doc[x].uri # None

TameArt(a) ==
    /\ art'[a].uri = art[a].uri
    /\ art'[a].status = "absent" <=> art[a].status = "absent"
    /\ art'[a].status \notin {"absent", "deleted"} =>
          art[a].status # "deleted" \/ \E x \in Documents : doc[x].link = a
    /\ art'[a].tomb => art[a].tomb \/ \A x \in Documents : doc[x].link = a => doc'[x].state # "active"

\* A document and its artifact take their statuses together, or the artifact is one
\* that a delete works at.
SyncRow(x) ==
    doc'[x].state = "active" /\ doc'[x].status \in Linked =>
       \/ art'[doc'[x].link].status = ArtifactStatus(doc'[x].status)
       \/ \E d \in Deletes : del'[d].pc # "none" /\ del'[d].art = doc'[x].link
       \/ /\ doc[x].status = doc'[x].status
          /\ art'[doc[x].link].status = art[doc[x].link].status

GoesOn(d) == del[d].pc # "none" => del'[d].pc # "none" /\ del'[d].art = del[d].art

TameUp(u) ==
    /\ up'[u].pc \in Early => up[u].pc \in Early
    /\ up[u].pc \notin Early => up'[u].doc = up[u].doc /\ up'[u].hash = up[u].hash

Tame ==
    /\ \A x \in Documents : TameRow(x) /\ SyncRow(x)
    /\ \A a \in Artifacts : TameArt(a)
    /\ \A u \in Uploads : TameUp(u)

LEMMA DocTyped ==
    ASSUME TypeInv, NEW x \in Documents
    PROVE  /\ doc[x] \in DocType
           /\ doc[x].link \in Artifacts \cup {None} /\ doc[x].status \in RawStatuses
           /\ doc[x].state \in {"absent", "active", "deleted", "wiped"}
           /\ doc[x].uri \in Hashes \cup {None}
<1>1. doc[x] \in DocType
  BY DEF TypeInv, TypeOK, RowsTypeOK
<1> QED BY <1>1 DEF DocType

LEMMA NamesApart ==
    /\ None \notin Artifacts /\ None \notin Documents /\ None \notin Uploads
    /\ Artifacts = Documents \cup Uploads /\ Documents \cap Uploads = {}
BY NamesAssumption DEF Artifacts

\* No two documents link the same artifact.
LEMMA LinksApart ==
    ASSUME TypeInv, NEW x \in Documents, NEW y \in Documents, LinkOwn(x), LinkOwn(y),
           doc[x].link = doc[y].link, doc[x].link # None
    PROVE  x = y
BY NamesApart DEF LinkOwn

LEMMA LinkCreated ==
    ASSUME TypeInv, RowLinks, NEW x \in Documents, doc[x].link # None
    PROVE  doc[x].link \in Artifacts /\ Created(doc[x].link)
BY DocTyped DEF RowLinks, LinkOwn, ArtifactsNamed

LEMMA TameCreated ==
    ASSUME Tame, NEW a \in Artifacts, Created(a)
    PROVE  Created(a)'
BY DEF Created, Tame, TameRow, TameUp, HasRow

LEMMA TameLinks ==
    ASSUME TypeInv, RowLinks, Tame
    PROVE  RowLinks'
<1>1. ASSUME NEW x \in Documents PROVE LinkOwn(x)' /\ Filled(x)'
  <2>1. LinkOwn(x) /\ Filled(x) /\ TameRow(x)
    BY DEF RowLinks, Tame
  <2>2. doc[x].link # None =>
           /\ doc[x].link \in Artifacts /\ TameArt(doc[x].link)
           /\ doc[x].link \in Uploads => TameUp(doc[x].link) /\ up[doc[x].link].pc \notin Early
    BY LinkCreated DEF Tame, Created
  <2> QED BY <2>1, <2>2 DEF LinkOwn, Filled, TameRow, TameArt, TameUp, HasRow
<1>2. ArtifactsNamed'
  <2> SUFFICES ASSUME NEW a \in Artifacts, art'[a].status # "absent"
               PROVE  Created(a)' /\ (a \in Uploads => art'[a].uri = Key(a)')
    BY DEF ArtifactsNamed
  <2>1. TameArt(a)
    BY DEF Tame
  <2>2. Created(a) /\ (a \in Uploads => art[a].uri = Key(a))
    BY <2>1 DEF RowLinks, ArtifactsNamed, TameArt
  <2>3. a \in Uploads => Key(a)' = Key(a)
    BY <2>2 DEF Tame, TameUp, Created, Key
  <2> QED BY <2>1, <2>2, <2>3, TameCreated DEF TameArt
<1>3. LinkedArtifactLives'
  <2> SUFFICES ASSUME NEW x \in Documents, doc'[x].state = "active", doc'[x].link # None
               PROVE  ~art'[doc'[x].link].tomb
    BY DEF LinkedArtifactLives, Active
  <2>1. TameRow(x)
    BY DEF Tame
  <2>2. doc[x].state = "active" /\ doc[x].link = doc'[x].link
    BY <2>1 DEF TameRow
  <2>3. doc[x].link \in Artifacts /\ TameArt(doc[x].link)
    BY <2>2, LinkCreated DEF Tame
  <2>4. ~art[doc[x].link].tomb
    BY <2>2 DEF RowLinks, LinkedArtifactLives, Active
  <2> QED BY <2>2, <2>3, <2>4 DEF TameArt
<1> QED BY <1>1, <1>2, <1>3 DEF RowLinks

LEMMA TameReferences ==
    ASSUME Tame, NEW a
    PROVE  References(a)' \subseteq References(a)
BY DEF References, Active, Tame, TameRow

LEMMA TameDelete ==
    ASSUME Tame, NEW d \in Deletes, DeleteOrder(d), del'[d] = del[d]
    PROVE  DeleteOrder(d)'
<1>1. References(del[d].art)' \subseteq References(del[d].art)
  BY TameReferences
<1> QED BY <1>1, TameCreated DEF DeleteOrder, References

\* Removals at rest do not mind documents that are removed, or are not there yet.
LEMMA RemovalsKept ==
    ASSUME TypeInv, UNCHANGED <<rm, setting>>, \A w \in Removals : RemovalOrder(w),
           \A x \in Documents : /\ HasRow(x) => HasRow(x)'
                                /\ doc[x].state = "deleted" => doc'[x].state = "deleted"
    PROVE  \A w \in Removals : RemovalOrder(w)'
<1>1. rm \in [Removals -> RmType]
  BY DEF TypeInv, TypeOK, RmTypeOK
<1> TAKE w \in Removals
<1>2. rm[w].scope \subseteq Documents
  BY <1>1 DEF RmType
<1>3. RemovalOrder(w)
  OBVIOUS
<1>5. rm' = rm /\ setting' = setting
  OBVIOUS
<1>6. \A x \in rm[w].scope :
         (HasRow(x) => HasRow(x)') /\ (doc[x].state = "deleted" => doc'[x].state = "deleted")
  BY <1>2
<1> QED BY <1>3, <1>5, <1>6 DEF RemovalOrder

LEMMA TameRemovals ==
    ASSUME TypeInv, Tame, UNCHANGED <<rm, setting>>, \A w \in Removals : RemovalOrder(w)
    PROVE  \A w \in Removals : RemovalOrder(w)'
<1>1. \A x \in Documents : /\ HasRow(x) => HasRow(x)'
                           /\ doc[x].state = "deleted" => doc'[x].state = "deleted"
  BY DEF Tame, TameRow, HasRow
<1> QED BY <1>1, RemovalsKept

LEMMA TameOwned ==
    ASSUME Tame, NEW u \in Uploads, Owned(u), RowLinks, TypeInv,
           \A w \in Removals : rm[w].kind = "user" /\ rm[w].pc # "ok" =>
                                  rm'[w].kind = "user" /\ rm'[w].pc # "ok"
    PROVE  Owned(u)'
<1> SUFFICES ASSUME art'[u].status \notin {"absent", "deleted"}
             PROVE  Owned(u)'
  BY DEF Owned
<1>1. u \in Artifacts /\ TameArt(u) /\ TameUp(u)
  BY NamesApart DEF Tame
<1>2. \A x \in Documents : doc[x].link = u => doc'[x].link = u
  BY DEF Tame, TameRow
<1>3. CASE \E x \in Documents : doc[x].link = u
  BY <1>2, <1>3 DEF Owned
<1>4. CASE ~\E x \in Documents : doc[x].link = u
  <2>1. art[u].status \notin {"absent", "deleted"}
    BY <1>1, <1>4 DEF TameArt
  <2>2. up[u].pc \notin Early
    BY <1>1, <2>1 DEF RowLinks, ArtifactsNamed, Created
  <2>3. up[u].doc \in Documents /\ up'[u].doc = up[u].doc
    BY <1>1, <2>2 DEF TameUp, TypeInv, UploadsNamed, Early
  <2>4. doc[up[u].doc].state = "wiped" /\ \E w \in Removals : rm[w].kind = "user" /\ rm[w].pc # "ok"
    BY <1>4, <2>1 DEF Owned
  <2>5. doc'[up[u].doc].state = "wiped"
    BY <2>3, <2>4 DEF Tame, TameRow, HasRow
  <2> QED BY <2>3, <2>4, <2>5 DEF Owned
<1> QED BY <1>3, <1>4

\* The steps that are tame.

LEMMA StatusOfArtifact ==
    ASSUME NEW s \in RawStatuses
    PROVE  ArtifactStatus(s) # "absent" /\ (ArtifactStatus(s) = "deleted" => s = "blob_deleted")
BY DEF RawStatuses, ArtifactStatus

LEMMA ArtTyped ==
    ASSUME TypeInv
    PROVE  art \in [Artifacts -> ArtType] /\ doc \in [Documents -> DocType]
BY DEF TypeInv, TypeOK, RowsTypeOK

LEMMA UnchangedTame ==
    ASSUME UNCHANGED <<doc, art>>, \A u \in Uploads : TameUp(u)
    PROVE  Tame
<1>1. \A x \in Documents : TameRow(x) /\ SyncRow(x)
  BY DEF TameRow, SyncRow
<1>2. \A a \in Artifacts : TameArt(a)
  BY DEF TameArt
<1> QED BY <1>1, <1>2 DEF Tame

LEMMA SameUpTame == UNCHANGED up => \A u \in Uploads : TameUp(u)
BY DEF TameUp

LEMMA GotoTame ==
    ASSUME TypeInv, NEW u \in Uploads, NEW pc, UpGoto(u, pc), pc \in Early => up[u].pc \in Early
    PROVE  \A v \in Uploads : TameUp(v)
BY DEF UpGoto, TameUp, TypeInv, TypeOK, UpTypeOK, UpType

\* An artifact that keeps its uri and is there before and after, in another status.
LEMMA ArtChangeTame ==
    ASSUME NEW a, art'[a].uri = art[a].uri, art[a].status # "absent", art'[a].status # "absent",
           art[a].status # "deleted" \/ \E x \in Documents : doc[x].link = a,
           art'[a].tomb => art[a].tomb \/ \A x \in Documents : doc[x].link = a => doc'[x].state # "active"
    PROVE  TameArt(a)
BY DEF TameArt

\* A row of one document, alone or with its artifact.
LEMMA RowStepTame ==
    ASSUME TypeInv, RowLinks, NEW x \in Documents, NEW row,
           row.link = doc[x].link, row.state = doc[x].state, row.uri \in {doc[x].uri, None},
           row.status \in RawStatuses,
           row.status \in Linked => doc[x].status \in Linked \/ doc[x].uri # None,
           row.status = "blob_deleted" => doc[x].state # "active",
           \/ SetBoth(x, row)
           \/ /\ doc' = [doc EXCEPT ![x] = row] /\ art' = art
              /\ row.status \in Linked => row.status = doc[x].status,
           \A u \in Uploads : TameUp(u)
    PROVE  Tame
<1>1. /\ doc'[x] = row /\ \A y \in Documents \ {x} : doc'[y] = doc[y]
      /\ \/ row.link # None /\ art' = Transition(row.link, ArtifactStatus(row.status))
         \/ art' = art /\ (row.status \in Linked => row.status = doc[x].status \/ row.link = None)
  BY ArtTyped DEF SetBoth
<1>2. \A y \in Documents : TameRow(y)
  BY <1>1 DEF TameRow
<1>4. ASSUME NEW y \in Documents PROVE SyncRow(y)
  <2>1. CASE art' = art /\ (row.status \in Linked => row.status = doc[x].status \/ row.link = None)
    <3>1. row.link = None => doc[x].status \notin Linked /\ doc[x].uri = None
      BY DEF RowLinks, Filled
    <3> QED
      BY <1>1, <2>1, <3>1 DEF SyncRow
  <2>2. CASE row.link # None /\ art' = Transition(row.link, ArtifactStatus(row.status))
    <3>1. row.link \in Artifacts /\ art[row.link] \in ArtType
      BY <2>2, ArtTyped, DocTyped
    <3>2. /\ art'[row.link].status = ArtifactStatus(row.status)
          /\ \A a \in Artifacts \ {row.link} : art'[a] = art[a]
      <4> DEFINE s == ArtifactStatus(row.status)
      <4>1. /\ art'[row.link] = IF s = "deleted"
                                THEN [art[row.link] EXCEPT !.status = s, !.tomb = TRUE, !.attempt = None]
                                ELSE [art[row.link] EXCEPT !.status = s]
            /\ \A a \in Artifacts \ {row.link} : art'[a] = art[a]
        BY <2>2, <3>1, ArtTyped DEF Transition
      <4> HIDE DEF s
      <4>2. art'[row.link].status = s
        BY <3>1, <4>1 DEF ArtType
      <4> QED
        BY <4>1, <4>2 DEF s
    <3>3. CASE y = x
      BY <1>1, <3>2, <3>3 DEF SyncRow
    <3>4. CASE y # x
      <4>1. doc[y].link # None => doc[y].link \in Artifacts \ {row.link}
        BY <2>2, <3>4, DocTyped, LinksApart DEF RowLinks
      <4>2. doc[y].status \in Linked => doc[y].link # None
        BY DEF RowLinks, Filled
      <4> QED
        BY <1>1, <3>2, <3>4, <4>1, <4>2 DEF SyncRow
    <3> QED
      BY <3>3, <3>4
  <2> QED
    BY <1>1, <2>1, <2>2
<1>3. ASSUME NEW a \in Artifacts PROVE TameArt(a)
  <2>1. CASE art'[a] = art[a]
    BY <2>1 DEF TameArt
  <2>2. CASE row.link = a /\ row.link # None /\ art' = Transition(a, ArtifactStatus(row.status))
    <3> DEFINE s == ArtifactStatus(row.status)
    <3>1. art[a] \in ArtType
      BY ArtTyped
    <3>2. s # "absent" /\ (s = "deleted" => row.status = "blob_deleted")
      BY StatusOfArtifact
    <3> HIDE DEF s
    <3>3. /\ art'[a].uri = art[a].uri /\ art'[a].status = s
          /\ art'[a].tomb => art[a].tomb \/ s = "deleted"
      <4>1. art'[a] = IF s = "deleted"
                      THEN [art[a] EXCEPT !.status = s, !.tomb = TRUE, !.attempt = None]
                      ELSE [art[a] EXCEPT !.status = s]
        BY <2>2, ArtTyped DEF Transition, s
      <4> QED BY <3>1, <4>1 DEF ArtType
    <3>4. art[a].status # "absent"
      BY <2>2 DEF RowLinks, LinkOwn
    <3>5. \A y \in Documents : doc[y].link = a => y = x
      BY <2>2, LinksApart DEF RowLinks
    <3>6. s = "deleted" => \A y \in Documents : doc[y].link = a => doc'[y].state # "active"
      BY <1>1, <3>2, <3>5
    <3> QED BY <2>2, <3>2, <3>3, <3>4, <3>6, ArtChangeTame
  <2>3. art'[a] = art[a] \/ (row.link = a /\ row.link # None /\ art' = Transition(a, ArtifactStatus(row.status)))
    BY <1>1, ArtTyped DEF Transition
  <2> QED BY <2>1, <2>2, <2>3
<1> QED BY <1>2, <1>3, <1>4 DEF Tame

\* Documents that are removed, with tombstones for artifacts of theirs.
LEMMA RemovedTame ==
    ASSUME TypeInv, RowLinks, NEW S \in SUBSET Documents, \A x \in S : HasRow(x),
           doc' = [x \in Documents |-> IF x \in S THEN [doc[x] EXCEPT !.state = "deleted"]
                                       ELSE doc[x]],
           \A a \in Artifacts :
              \/ art'[a] = art[a]
              \/ /\ \E x \in S : doc[x].link = a
                 /\ art'[a] = [art[a] EXCEPT !.status = "deleted", !.tomb = TRUE, !.attempt = None],
           \A u \in Uploads : TameUp(u)
    PROVE  Tame
<1>1. ASSUME NEW x \in Documents
      PROVE  TameRow(x) /\ (x \in S => doc'[x].state = "deleted") /\ doc'[x].link = doc[x].link
  <2>1. doc[x] \in DocType
    BY ArtTyped
  <2>2. CASE x \in S
    <3>1. doc'[x] = [doc[x] EXCEPT !.state = "deleted"]
      BY <2>2
    <3>2. /\ doc'[x].link = doc[x].link /\ doc'[x].state = "deleted"
          /\ doc'[x].uri = doc[x].uri /\ doc'[x].status = doc[x].status
      BY <2>1, <3>1 DEF DocType
    <3> QED BY <2>2, <3>2 DEF TameRow
  <2>3. CASE x \notin S
    BY <2>3 DEF TameRow
  <2> QED BY <2>2, <2>3
<1>2. ASSUME NEW a \in Artifacts PROVE TameArt(a)
  <2>1. CASE art'[a] = art[a]
    BY <2>1 DEF TameArt
  <2>2. CASE /\ \E x \in S : doc[x].link = a
             /\ art'[a] = [art[a] EXCEPT !.status = "deleted", !.tomb = TRUE, !.attempt = None]
    <3>1. art[a] \in ArtType /\ a # None
      BY ArtTyped, NamesApart
    <3>2. art'[a].uri = art[a].uri /\ art'[a].status = "deleted"
      BY <2>2, <3>1 DEF ArtType
    <3>3. PICK x \in S : doc[x].link = a
      BY <2>2
    <3>4. art[a].status # "absent"
      BY <3>1, <3>3 DEF RowLinks, LinkOwn
    <3>5. \A y \in Documents : doc[y].link = a => y = x
      BY <3>1, <3>3, LinksApart DEF RowLinks
    <3>6. \A y \in Documents : doc[y].link = a => doc'[y].state # "active"
      BY <1>1, <3>3, <3>5
    <3> QED BY <3>2, <3>3, <3>4, <3>6, ArtChangeTame
  <2> QED BY <2>1, <2>2
<1>3. ASSUME NEW x \in Documents PROVE SyncRow(x)
  <2> SUFFICES ASSUME doc'[x].state = "active", doc'[x].status \in Linked
               PROVE  doc'[x] = doc[x] /\ art'[doc[x].link] = art[doc[x].link]
    BY DEF SyncRow
  <2>1. x \notin S /\ doc'[x] = doc[x]
    BY <1>1
  <2>2. doc[x].link \in Artifacts
    BY <2>1, DocTyped DEF RowLinks, Filled
  <2>3. \A z \in S : doc[z].link # doc[x].link
    BY <2>1, <2>2, NamesApart, LinksApart DEF RowLinks
  <2> QED
    BY <2>1, <2>2, <2>3
<1> QED BY <1>1, <1>2, <1>3 DEF Tame

-----------------------------------------------------------------------------
\* Uploads. The swap of beta2 is the one step of theirs that moves a link.
SwapStep(u) ==
    LET x == up[u].doc
        prior == doc[x].link
    IN
    /\ up[u].pc = "beta2" /\ ClaimHeld(u)
    /\ prior # None => art[prior].status \notin DeleteStarted
    /\ doc' = [doc EXCEPT ![x] = [@ EXCEPT !.mode = "managed_blob", !.uri = up[u].hash,
                                           !.storedStatus = up[u].storedStatus, !.link = u]]
    /\ art' = Swapped(u)
    /\ UpGoto(u, "gamma")

LEMMA FailedRow ==
    ASSUME TypeInv, NEW x \in Documents, NEW b
    PROVE  /\ Failed(x, b).link = doc[x].link /\ Failed(x, b).state = doc[x].state
           /\ Failed(x, b).uri = doc[x].uri /\ Failed(x, b).status = "raw_storage_failed"
           /\ Failed(x, b).status \in RawStatuses \ (Linked \cup {"blob_deleted"})
<1>1. doc[x] \in DocType
  BY DocTyped
<1>2. "raw_storage_failed" \in RawStatuses \ (Linked \cup {"blob_deleted"})
  BY DEF RawStatuses, Linked, Settled, Occupied
<1> QED
  BY <1>1, <1>2 DEF Failed, DocType

LEMMA UploadTame ==
    ASSUME TypeInv, RowLinks, NEW u \in Uploads, UpStep(u) \/ CrashUpload(u)
    PROVE  Tame \/ SwapStep(u)
<1> DEFINE x == up[u].doc
<1>1. up[u].pc # "none" /\ x \in Documents /\ up[u].hash \in Hashes
  <2>1. up[u].pc # "none"
    BY DEF UpStep, CrashUpload, AlphaClaim, Put, FailClaimed, Beta2, Compensate,
           MarkBeta2Failure, Gamma, UpSteps
  <2> QED
    BY <2>1 DEF TypeInv, UploadsNamed
<1>2. doc[x] \in DocType
  BY <1>1, DocTyped
<1> HIDE DEF x
<1>3. CASE AlphaClaim(u)
  <2>1. \A v \in Uploads : TameUp(v)
    <3>1. \E pc : UpGoto(u, pc) /\ up[u].pc = "claim"
      BY <1>3 DEF AlphaClaim
    <3> QED
      BY <3>1, GotoTame DEF Early
  <2>2. CASE UNCHANGED <<doc, art>>
    BY <2>1, <2>2, UnchangedTame
  <2>3. CASE Active(x) /\ doc' = [doc EXCEPT ![x] = Claimed(u)]
    <3>1. /\ Claimed(u).link = doc[x].link /\ Claimed(u).state = doc[x].state
          /\ Claimed(u).uri \in {doc[x].uri, None} /\ Claimed(u).status = "blob_uploading"
      <4> DEFINE row == [doc[x] EXCEPT !.status = "blob_uploading", !.claim = u,
                                       !.hash = up[u].hash]
      <4>1. row \in [state : {doc[x].state}, mode : {doc[x].mode}, status : {"blob_uploading"},
                     hash : {up[u].hash}, uri : {doc[x].uri}, storedStatus : {doc[x].storedStatus},
                     claim : {u}, attempts : {doc[x].attempts}, link : {doc[x].link},
                     hint : {doc[x].hint}]
        BY <1>2 DEF DocType
      <4>2. Claimed(u) = row \/ Claimed(u) = [row EXCEPT !.uri = None, !.storedStatus = None]
        BY DEF Claimed, x
      <4> HIDE DEF row
      <4> QED
        BY <4>1, <4>2
    <3>2. "blob_uploading" \in RawStatuses \ (Linked \cup {"blob_deleted"})
      BY DEF RawStatuses, Linked, Settled, Occupied
    <3>3. art' = art
      BY <1>3 DEF AlphaClaim
    <3> QED
      BY <1>1, <2>1, <2>3, <3>1, <3>2, <3>3, RowStepTame DEF x
  <2> QED
    BY <1>3, <2>2, <2>3 DEF AlphaClaim, x
<1>4. CASE Put(u)
  <2>1. up[u].pc = "put" /\ \A v \in Uploads \ {u} : up'[v] = up[v]
    BY <1>4 DEF Put, UpGoto, TypeInv, TypeOK, UpTypeOK
  <2>2. \A v \in Uploads : TameUp(v)
    BY <2>1 DEF TameUp, Early
  <2> QED
    BY <1>4, <2>2, UnchangedTame DEF Put
<1>5. CASE FailClaimed(u)
  <2>1. \A v \in Uploads : TameUp(v)
    BY <1>5, GotoTame DEF FailClaimed, Early
  <2>2. CASE SetBoth(x, Failed(x, FALSE))
    BY <1>1, <2>1, <2>2, FailedRow, RowStepTame DEF x
  <2>3. CASE UNCHANGED <<doc, art>>
    BY <2>1, <2>3, UnchangedTame
  <2> QED
    BY <1>5, <2>2, <2>3 DEF FailClaimed, x
<1>6. CASE Beta2(u)
  <2>1. CASE UNCHANGED <<doc, art>>
    <3>1. \E pc \in {"compensateLost", "compensateFailed", "gamma"} : UpGoto(u, pc)
      BY <1>6 DEF Beta2
    <3>2. \A v \in Uploads : TameUp(v)
      BY <3>1, GotoTame DEF Early
    <3> QED
      BY <2>1, <3>2, UnchangedTame
  <2>2. CASE ~UNCHANGED <<doc, art>>
    BY <1>6, <2>2 DEF Beta2, SwapStep
  <2> QED
    BY <2>1, <2>2
<1>7. CASE Compensate(u)
  <2>1. \E pc \in {"lost", "markCleaned", "markOrphan"} : UpGoto(u, pc)
    BY <1>7 DEF Compensate
  <2>2. \A v \in Uploads : TameUp(v)
    BY <2>1, GotoTame DEF Early
  <2> QED
    BY <1>7, <2>2, UnchangedTame DEF Compensate
<1>8. CASE MarkBeta2Failure(u)
  <2>1. \A v \in Uploads : TameUp(v)
    BY <1>8, GotoTame DEF MarkBeta2Failure, Early
  <2>2. art' = art
    BY <1>8 DEF MarkBeta2Failure
  <2>3. CASE \E b \in BOOLEAN : doc' = [doc EXCEPT ![x] = Failed(x, b)]
    <3>1. PICK b \in BOOLEAN : doc' = [doc EXCEPT ![x] = Failed(x, b)]
      BY <2>3
    <3> QED
      BY <1>1, <2>1, <2>2, <3>1, FailedRow, RowStepTame DEF x
  <2>4. CASE UNCHANGED doc
    BY <2>1, <2>2, <2>4, UnchangedTame
  <2> QED
    BY <1>8, <2>3, <2>4 DEF MarkBeta2Failure, x
<1>9. CASE Gamma(u)
  <2>1. \A v \in Uploads : TameUp(v)
    <3>1. \E pc \in {"ok", "lost", "error"} : UpGoto(u, pc)
      BY <1>9 DEF Gamma
    <3> QED
      BY <3>1, GotoTame DEF Early
  <2> DEFINE row == [doc[x] EXCEPT !.status = FinalStatus(up[u].storedStatus),
                                   !.claim = None, !.hint = FALSE]
  <2>2. CASE GammaHeld(u) /\ SetBoth(x, row)
    <3>1. /\ row.link = doc[x].link /\ row.state = doc[x].state /\ row.uri = doc[x].uri
          /\ row.status = FinalStatus(up[u].storedStatus)
      BY <1>2 DEF DocType
    <3>2. FinalStatus(up[u].storedStatus) \in RawStatuses \ {"blob_deleted"}
      BY DEF FinalStatus, RawStatuses
    <3>3. doc[x].uri # None
      BY <2>2 DEF GammaHeld, x
    <3> HIDE DEF row
    <3> QED
      BY <1>1, <2>1, <2>2, <3>1, <3>2, <3>3, RowStepTame DEF x
  <2>3. CASE UNCHANGED <<doc, art>>
    BY <2>1, <2>3, UnchangedTame
  <2> QED
    BY <1>9, <2>2, <2>3 DEF Gamma, x
<1>10. CASE CrashUpload(u)
  <2>1. \A v \in Uploads : TameUp(v)
    BY <1>10, GotoTame DEF CrashUpload, Early
  <2> QED
    BY <1>10, <2>1, UnchangedTame DEF CrashUpload
<1> QED
  BY <1>3, <1>4, <1>5, <1>6, <1>7, <1>8, <1>9, <1>10 DEF UpStep

LEMMA AlphaLoadTame ==
    ASSUME TypeInv, NEW u \in Uploads, NEW x, NEW h, AlphaLoad(u, x, h)
    PROVE  Tame
<1>1. up[u].pc = "none" /\ \A v \in Uploads \ {u} : up'[v] = up[v]
  BY DEF AlphaLoad, TypeInv, TypeOK, UpTypeOK
<1>2. \A v \in Uploads : TameUp(v)
  BY <1>1 DEF TameUp, Early
<1> QED
  BY <1>2, UnchangedTame DEF AlphaLoad

LEMMA SwapLinks ==
    ASSUME LinkInv, NEW u \in Uploads, SwapStep(u), UNCHANGED <<rm, del, setting>>, TypeInv'
    PROVE  LinkInv'
<1> DEFINE x == up[u].doc
           prior == doc[x].link
<1>1. TypeInv /\ RowLinks
  BY DEF LinkInv, RowLinks
<1>2. x \in Documents /\ up[u].pc = "beta2"
  BY <1>1 DEF SwapStep, TypeInv, UploadsNamed
<1>3. doc[x] \in DocType /\ doc[x].state = "active" /\ prior \in Artifacts \cup {None}
  BY <1>1, <1>2, DocTyped DEF SwapStep, ClaimHeld
<1>4. /\ doc'[x].link = u /\ doc'[x].state = "active"
      /\ \A y \in Documents \ {x} : doc'[y] = doc[y]
  <2>1. doc'[x] = [doc[x] EXCEPT !.mode = "managed_blob", !.uri = up[u].hash,
                                 !.storedStatus = up[u].storedStatus, !.link = u]
    BY <1>1, <1>2, ArtTyped DEF SwapStep
  <2> QED
    BY <1>1, <1>2, <1>3, <2>1, ArtTyped DEF SwapStep, DocType
<1>5. /\ up'[u].pc = "gamma" /\ Key(u)' = Key(u) /\ up'[u].doc = x
      /\ \A v \in Uploads \ {u} : up'[v] = up[v]
  BY DEF SwapStep, UpGoto, LinkInv, TypeInv, TypeOK, UpTypeOK, UpType, Key
<1>6. u \in Artifacts /\ u \notin Documents /\ u # None /\ None \notin Artifacts
  BY NamesApart
<1>7. art[u].status = "absent"
  BY <1>2, <1>6 DEF LinkInv, ArtifactsNamed, Created, Early
<1>8. \A y \in Documents : doc[y].link # u
  BY <1>6, <1>7 DEF LinkInv, LinkOwn
<1>9. \A y \in Documents \ {x} : doc[y].link # None => doc[y].link # prior
  BY <1>1, <1>2, LinksApart DEF RowLinks
<1>10. art'[u].status = "pending" /\ art'[u].uri = Key(u) /\ art'[u].tomb = FALSE
  BY <1>6 DEF SwapStep, Swapped, NoArt
<1>11. prior # None =>
          /\ art[prior].status # "absent" /\ Created(prior)
          /\ art'[prior].status = "deleted" /\ art'[prior].uri = art[prior].uri
  <2>1. SUFFICES ASSUME prior # None
           PROVE  /\ art[prior].status # "absent" /\ Created(prior)
                  /\ art'[prior].status = "deleted" /\ art'[prior].uri = art[prior].uri
    OBVIOUS
  <2>2. prior \in Artifacts /\ prior # u /\ art[prior] \in ArtType
    BY <1>1, <1>2, <1>3, <1>8, <2>1, ArtTyped
  <2>3. art'[prior] = [art[prior] EXCEPT !.status = "deleted", !.tomb = TRUE, !.attempt = None]
    BY <2>2 DEF SwapStep, Swapped
  <2>4. art[prior].status # "absent"
    BY <1>2, <2>1 DEF LinkInv, LinkOwn
  <2> QED
    BY <1>1, <1>2, <2>1, <2>2, <2>3, <2>4, LinkCreated DEF ArtType
<1>12. \A a \in Artifacts \ {u, prior} : art'[a] = art[a]
  BY DEF SwapStep, Swapped
<1> HIDE DEF x, prior
<1>13. \A a \in Artifacts : Created(a) => Created(a)'
  BY <1>3, <1>4, <1>5 DEF Created, Early
<1>14. ASSUME NEW y \in Documents PROVE LinkOwn(y)' /\ Filled(y)'
  <2>1. CASE y = x
    BY <1>4, <1>5, <1>6, <1>10, <2>1 DEF LinkOwn, Filled
  <2>2. CASE y # x
    <3>1. LinkOwn(y) /\ Filled(y) /\ doc'[y] = doc[y]
      BY <1>4, <2>2 DEF LinkInv
    <3>2. doc[y].link # None => /\ doc[y].link \in Artifacts \ {u, prior}
                                /\ art'[doc[y].link] = art[doc[y].link]
      BY <1>1, <1>8, <1>9, <1>12, <2>2, DocTyped
    <3>3. doc[y].link \in Uploads => up'[doc[y].link] = up[doc[y].link]
      BY <1>5, <1>8
    <3> QED
      BY <3>1, <3>2, <3>3 DEF LinkOwn, Filled
  <2> QED
    BY <2>1, <2>2
<1>15. ArtifactsNamed'
  <2> SUFFICES ASSUME NEW a \in Artifacts, art'[a].status # "absent"
               PROVE  Created(a)' /\ (a \in Uploads => art'[a].uri = Key(a)')
    BY DEF ArtifactsNamed
  <2>1. CASE a = u
    BY <1>5, <1>6, <1>10, <2>1 DEF Created, Early
  <2>2. CASE a # u
    <3>1. art[a].status # "absent" /\ art'[a].uri = art[a].uri
      BY <1>11, <1>12, <1>6, <2>2
    <3>2. Created(a) /\ (a \in Uploads => art[a].uri = Key(a))
      BY <3>1 DEF LinkInv, ArtifactsNamed
    <3>3. a \in Uploads => Key(a)' = Key(a)
      BY <1>5, <2>2 DEF Key
    <3> QED
      BY <1>13, <3>1, <3>2, <3>3
  <2> QED
    BY <2>1, <2>2
<1>16. LinkedArtifactLives'
  <2> SUFFICES ASSUME NEW y \in Documents, doc'[y].state = "active", doc'[y].link # None
               PROVE  ~art'[doc'[y].link].tomb
    BY DEF LinkedArtifactLives, Active
  <2>1. CASE y = x
    BY <1>4, <1>10, <2>1
  <2>2. CASE y # x
    BY <1>1, <1>4, <1>8, <1>9, <1>12, <2>2, DocTyped DEF LinkInv, LinkedArtifactLives, Active
  <2> QED
    BY <2>1, <2>2
<1>17. \A w \in Removals : RemovalOrder(w)'
  <2>1. \A y \in Documents : /\ HasRow(y) => HasRow(y)'
                             /\ doc[y].state = "deleted" => doc'[y].state = "deleted"
    BY <1>3, <1>4 DEF HasRow
  <2> QED
    BY <1>1, <2>1, RemovalsKept DEF LinkInv
<1>18. ASSUME NEW d \in Deletes PROVE DeleteOrder(d)'
  <2> DEFINE a == del[d].art
  <2>1. DeleteOrder(d) /\ del'[d] = del[d]
    BY DEF LinkInv
  <2>2. CASE del[d].pc = "none"
    BY <2>1, <2>2 DEF DeleteOrder
  <2>3. CASE del[d].pc # "none"
    <3>1. a \in Artifacts /\ Created(a) /\ a # u
      BY <1>2, <2>1, <2>3 DEF DeleteOrder, Created, Early
    <3>2. References(a)' \subseteq References(a)
      BY <1>4, <3>1 DEF References, Active
    <3> QED
      BY <1>13, <2>1, <3>1, <3>2 DEF DeleteOrder
  <2> QED
    BY <2>2, <2>3
<1>19. ASSUME NEW v \in Uploads PROVE Owned(v)'
  <2> SUFFICES ASSUME art'[v].status \notin {"absent", "deleted"}
               PROVE  Owned(v)'
    BY DEF Owned
  <2>1. CASE v = u
    BY <1>2, <1>4, <2>1 DEF Owned
  <2>2. CASE v # u
    <3>1. v \in Artifacts \ {u, prior} /\ art'[v] = art[v]
      BY <1>6, <1>11, <1>12, <2>2, NamesApart
    <3>2. (\E y \in Documents : doc[y].link = v) => \E y \in Documents : doc'[y].link = v
      <4> SUFFICES ASSUME NEW y \in Documents, doc[y].link = v
                   PROVE  doc'[y].link = v
        OBVIOUS
      <4> QED
        BY <1>4, <3>1 DEF prior
    <3>3. Owned(v) /\ up[v].pc \notin Early /\ up'[v] = up[v]
      BY <1>5, <2>2, <3>1 DEF LinkInv, ArtifactsNamed, Created
    <3>4. up[v].doc \in Documents
      BY <1>1, <3>3 DEF TypeInv, UploadsNamed, Early
    <3>5. doc[up[v].doc].state = "wiped" => doc'[up[v].doc].state = "wiped"
      BY <1>3, <1>4, <3>4
    <3> QED
      BY <3>1, <3>2, <3>3, <3>5 DEF Owned
  <2> QED
    BY <2>1, <2>2
<1>20. ASSUME NEW y \in Documents PROVE Followed(y)'
  <2>1. CASE y = x
    <3>1. doc'[x].status = "blob_uploading"
      <4>1. doc'[x] = [doc[x] EXCEPT !.mode = "managed_blob", !.uri = up[u].hash,
                                     !.storedStatus = up[u].storedStatus, !.link = u]
        BY <1>1, <1>2, ArtTyped DEF SwapStep, x
      <4> QED
        BY <1>3, <4>1 DEF DocType, SwapStep, ClaimHeld, x
    <3> QED
      BY <2>1, <3>1 DEF Followed, Linked, Settled
  <2>2. CASE y # x
    <3>1. Followed(y) /\ doc'[y] = doc[y] /\ del' = del
      BY <1>4, <2>2 DEF LinkInv
    <3>2. doc[y].status \in Linked => art'[doc[y].link] = art[doc[y].link]
      BY <1>1, <1>8, <1>9, <1>12, <2>2, DocTyped DEF RowLinks, Filled
    <3> QED
      BY <3>1, <3>2 DEF Followed, Active
  <2> QED
    BY <2>1, <2>2
<1> QED
  BY <1>14, <1>15, <1>16, <1>17, <1>18, <1>19, <1>20 DEF LinkInv

\* A document that is registered is new, and so is its pointer artifact.
LEMMA RegisterLinks ==
    ASSUME LinkInv, RegisterStep, TypeInv'
    PROVE  LinkInv'
<1>1. PICK x \in Documents : Register(x)
  BY DEF RegisterStep
<1>2. TypeInv /\ RowLinks /\ UNCHANGED <<up, rm, del, setting>>
  BY DEF LinkInv, RowLinks, RegisterStep
<1>3. /\ doc[x].state = "absent" /\ doc'[x].state = "active" /\ doc'[x].uri = None
      /\ doc'[x].status = "pointer_recorded"
      /\ \A y \in Documents \ {x} : doc'[y] = doc[y]
      /\ \/ doc'[x].link = x /\ art' = [art EXCEPT ![x] = [NoArt EXCEPT !.status = "stored"]]
         \/ doc'[x].link = None /\ art' = art
  <2>1. doc[x].state = "absent" /\ doc \in [Documents -> DocType]
    BY <1>1, <1>2, ArtTyped DEF Register
  <2>2. PICK h :
          \/ /\ doc' = [doc EXCEPT ![x] = [NoDoc EXCEPT !.state = "active", !.hash = h,
                                                        !.link = x]]
             /\ art' = [art EXCEPT ![x] = [NoArt EXCEPT !.status = "stored"]]
          \/ /\ doc' = [doc EXCEPT ![x] = [NoDoc EXCEPT !.state = "active", !.hash = h]]
             /\ UNCHANGED art
    BY <1>1 DEF Register
  <2> DEFINE row1 == [NoDoc EXCEPT !.state = "active", !.hash = h, !.link = x]
             row2 == [NoDoc EXCEPT !.state = "active", !.hash = h]
  <2>3. /\ row1.state = "active" /\ row1.uri = None /\ row1.status = "pointer_recorded"
        /\ row2.state = "active" /\ row2.uri = None /\ row2.status = "pointer_recorded"
        /\ row1.link = x /\ row2.link = None
    BY DEF NoDoc
  <2> HIDE DEF row1, row2
  <2>4. \/ doc' = [doc EXCEPT ![x] = row1] /\ art' = [art EXCEPT ![x] = [NoArt EXCEPT !.status = "stored"]]
        \/ doc' = [doc EXCEPT ![x] = row2] /\ art' = art
    BY <2>2 DEF row1, row2
  <2> QED
    BY <2>1, <2>3, <2>4
<1>4. doc[x].link = None
  BY <1>3 DEF LinkInv, LinkOwn
<1>5. x \in Artifacts /\ x \notin Uploads /\ None \notin Artifacts
  BY NamesApart
<1>6. art[x].status = "absent"
  BY <1>3, <1>5 DEF LinkInv, ArtifactsNamed, Created
<1>7. \A y \in Documents : doc[y].link # x
  BY <1>2, <1>4, <1>5, <1>6, NamesApart DEF LinkInv, LinkOwn
<1>8. /\ \A a \in Artifacts \ {x} : art'[a] = art[a]
      /\ doc'[x].link = x => art'[x].status = "stored" /\ art'[x].tomb = FALSE
      /\ doc'[x].link # x => art'[x] = art[x]
  BY <1>2, <1>3, <1>5, ArtTyped DEF NoArt
<1>9. \A a \in Artifacts : Created(a) => Created(a)'
  BY <1>2, <1>3 DEF Created
<1>10. \A y \in Documents : HasRow(y) => doc'[y] = doc[y]
  BY <1>3 DEF HasRow
<1>11. \A s \in Linked : s # "pointer_recorded"
  BY DEF Linked, Settled, Occupied
<1>12. ASSUME NEW y \in Documents PROVE LinkOwn(y)' /\ Filled(y)'
  <2>1. CASE y = x
    BY <1>3, <1>8, <1>11, <2>1 DEF LinkOwn, Filled
  <2>2. CASE y # x
    <3>1. LinkOwn(y) /\ Filled(y) /\ doc'[y] = doc[y]
      BY <1>3, <2>2 DEF LinkInv
    <3>2. doc[y].link # None => art'[doc[y].link] = art[doc[y].link]
      BY <1>2, <1>7, <1>8, DocTyped
    <3> QED
      BY <1>2, <3>1, <3>2 DEF LinkOwn, Filled
  <2> QED
    BY <2>1, <2>2
<1>13. ArtifactsNamed'
  <2> SUFFICES ASSUME NEW a \in Artifacts, art'[a].status # "absent"
               PROVE  Created(a)' /\ (a \in Uploads => art'[a].uri = Key(a)')
    BY DEF ArtifactsNamed
  <2>1. CASE a = x
    BY <1>3, <1>5, <2>1 DEF Created
  <2>2. CASE a # x
    BY <1>2, <1>8, <1>9, <2>2 DEF LinkInv, ArtifactsNamed, Key
  <2> QED
    BY <2>1, <2>2
<1>14. LinkedArtifactLives'
  <2> SUFFICES ASSUME NEW y \in Documents, doc'[y].state = "active", doc'[y].link # None
               PROVE  ~art'[doc'[y].link].tomb
    BY DEF LinkedArtifactLives, Active
  <2>1. CASE y = x
    BY <1>3, <1>8, <2>1
  <2>2. CASE y # x
    BY <1>2, <1>3, <1>7, <1>8, <2>2, DocTyped DEF LinkInv, LinkedArtifactLives, Active
  <2> QED
    BY <2>1, <2>2
<1>15. \A w \in Removals : RemovalOrder(w)'
  <2>1. \A y \in Documents : /\ HasRow(y) => HasRow(y)'
                             /\ doc[y].state = "deleted" => doc'[y].state = "deleted"
    BY <1>3, <1>10 DEF HasRow
  <2> QED
    BY <1>2, <2>1, RemovalsKept DEF LinkInv
<1>16. ASSUME NEW d \in Deletes PROVE DeleteOrder(d)'
  <2>1. DeleteOrder(d)
    BY DEF LinkInv
  <2>2. del[d].pc # "none" => References(del[d].art)' \subseteq References(del[d].art)
    <3> SUFFICES ASSUME del[d].pc # "none" PROVE References(del[d].art)' \subseteq References(del[d].art)
      OBVIOUS
    <3>1. del[d].art \in Artifacts /\ Created(del[d].art)
      BY <2>1 DEF DeleteOrder
    <3>2. del[d].art # x
      BY <1>3, <3>1 DEF Created
    <3> QED
      BY <1>2, <1>3, <1>5, <3>1, <3>2 DEF References, Active
  <2> QED
    BY <1>2, <1>9, <2>1, <2>2 DEF DeleteOrder
<1>17. ASSUME NEW u \in Uploads PROVE Owned(u)'
  <2> SUFFICES ASSUME art'[u].status \notin {"absent", "deleted"} PROVE Owned(u)'
    BY DEF Owned
  <2>1. u \in Artifacts \ {x} /\ art'[u] = art[u]
    BY <1>5, <1>8, NamesApart
  <2>2. Owned(u) /\ up[u].doc \in Documents
    BY <1>2, <2>1 DEF LinkInv, ArtifactsNamed, Created, Early, TypeInv, UploadsNamed
  <2>3. \A y \in Documents : doc[y].link = u => doc'[y].link = u
    BY <1>3, <1>4, <2>1, <1>5
  <2>4. doc[up[u].doc].state = "wiped" => doc'[up[u].doc].state = "wiped"
    BY <1>3, <2>2
  <2> QED
    BY <1>2, <2>1, <2>2, <2>3, <2>4 DEF Owned
<1>18. ASSUME NEW y \in Documents PROVE Followed(y)'
  <2>1. CASE y = x
    BY <1>3, <1>11, <2>1 DEF Followed
  <2>2. CASE y # x
    <3>1. Followed(y) /\ doc'[y] = doc[y] /\ del' = del
      BY <1>2, <1>3, <2>2 DEF LinkInv
    <3>2. doc[y].status \in Linked => art'[doc[y].link] = art[doc[y].link]
      BY <1>2, <1>7, <1>8, <2>2, DocTyped DEF RowLinks, Filled
    <3> QED
      BY <3>1, <3>2 DEF Followed, Active
  <2> QED
    BY <2>1, <2>2
<1> QED
  BY <1>12, <1>13, <1>14, <1>15, <1>16, <1>17, <1>18 DEF LinkInv

-----------------------------------------------------------------------------
\* Removals. What the step of one means to the order of all.
LEMMA RemovalsMoved ==
    ASSUME LinkInv, NEW w \in Removals, RemovalOrder(w)', setting' = setting,
           \A v \in Removals \ {w} : rm'[v] = rm[v],
           \A v \in Removals \ {w} :
              rm[v].kind # "user" /\ rm[v].pc \in RmSteps =>
                 \A x \in rm[v].scope : /\ HasRow(x) => HasRow(x)'
                                        /\ doc[x].state = "deleted" => doc'[x].state = "deleted",
           \A v \in Removals \ {w} :
              rm[v].kind = "user" /\ rm[v].pc \in RmSteps /\ rm'[w].pc \in RmSteps =>
                 rm'[w].scope = {}
    PROVE  \A v \in Removals : RemovalOrder(v)'
<1> SUFFICES ASSUME NEW v \in Removals, v # w
             PROVE  RemovalOrder(v)'
  OBVIOUS
<1>1. RemovalOrder(v) /\ rm'[v] = rm[v]
  BY DEF LinkInv
<1>2. rm[v].kind = "user" /\ rm[v].pc \in RmSteps =>
         \A z \in Removals \ {v} : rm'[z].pc \in RmSteps => rm'[z].scope = {}
  BY <1>1 DEF RemovalOrder
<1>3. rm[v].kind # "user" /\ rm[v].pc \in RmSteps =>
         \A x \in rm[v].scope : /\ HasRow(x) => HasRow(x)'
                                /\ doc[x].state = "deleted" => doc'[x].state = "deleted"
  OBVIOUS
<1> QED
  BY <1>1, <1>2, <1>3 DEF RemovalOrder

LEMMA RemovalTypes ==
    ASSUME TypeInv, NEW w \in Removals
    PROVE  /\ rm \in [Removals -> RmType] /\ rm[w] \in RmType
           /\ rm[w].scope \subseteq Documents /\ rm[w].blobs \subseteq Keys
           /\ rm[w].cleaned \subseteq Keys /\ rm[w].failed \subseteq Keys
BY DEF TypeInv, TypeOK, RmTypeOK, RmType

\* Whatever a removal does, its documents are those it began with.
LEMMA RemovalGoesOn ==
    ASSUME TypeInv, NEW w \in Removals, RmStep(w) \/ CrashRemoval(w)
    PROVE  /\ rm[w].pc \in RmSteps
           /\ rm'[w].kind = rm[w].kind /\ rm'[w].scope = rm[w].scope
           /\ \A v \in Removals \ {w} : rm'[v] = rm[v]
<1>1. rm[w] \in RmType /\ rm \in [Removals -> RmType]
  BY RemovalTypes
<1>2. rm[w].pc \in RmSteps
  BY DEF RmStep, CrashRemoval, SoftDelete, LookupOrphans, DropDocuments, DropArtifacts,
         CleanupBlob, MarkCleaned, MarkFailed, RmSteps
<1>3. \E pc, b, c, f : rm' = [rm EXCEPT ![w] = [rm[w] EXCEPT !.pc = pc, !.blobs = b, !.cleaned = c,
                                                             !.failed = f]]
  <2>1. CASE \E pc : RmGoto(w, pc)
    <3>1. PICK pc : RmGoto(w, pc)
      BY <2>1
    <3>2. rm' = [rm EXCEPT ![w] = [rm[w] EXCEPT !.pc = pc, !.blobs = rm[w].blobs,
                                     !.cleaned = rm[w].cleaned, !.failed = rm[w].failed]]
      BY <1>1, <3>1 DEF RmGoto, RmType
    <3> QED
      BY <3>2
  <2>2. CASE \E pc, b : rm' = [rm EXCEPT ![w] = [@ EXCEPT !.blobs = b, !.pc = pc]]
    <3>1. PICK pc, b : rm' = [rm EXCEPT ![w] = [@ EXCEPT !.blobs = b, !.pc = pc]]
      BY <2>2
    <3>2. rm' = [rm EXCEPT ![w] = [rm[w] EXCEPT !.pc = pc, !.blobs = b,
                                     !.cleaned = rm[w].cleaned, !.failed = rm[w].failed]]
      BY <1>1, <3>1 DEF RmType
    <3> QED
      BY <3>2
  <2>3. CASE \E pc, c, b : rm' = [rm EXCEPT ![w] = [@ EXCEPT !.pc = pc, !.blobs = b, !.cleaned = c]]
    <3>1. PICK pc, c, b : rm' = [rm EXCEPT ![w] = [@ EXCEPT !.pc = pc, !.blobs = b, !.cleaned = c]]
      BY <2>3
    <3>2. rm' = [rm EXCEPT ![w] = [rm[w] EXCEPT !.pc = pc, !.blobs = b,
                                     !.cleaned = c, !.failed = rm[w].failed]]
      BY <1>1, <3>1 DEF RmType
    <3> QED
      BY <3>2
  <2>4. CASE \E pc, f, b : rm' = [rm EXCEPT ![w] = [@ EXCEPT !.pc = pc, !.blobs = b, !.failed = f]]
    <3>1. PICK pc, f, b : rm' = [rm EXCEPT ![w] = [@ EXCEPT !.pc = pc, !.blobs = b, !.failed = f]]
      BY <2>4
    <3>2. rm' = [rm EXCEPT ![w] = [rm[w] EXCEPT !.pc = pc, !.blobs = b,
                                     !.cleaned = rm[w].cleaned, !.failed = f]]
      BY <1>1, <3>1 DEF RmType
    <3> QED
      BY <3>2
  <2>5. CASE \E pc, c : rm' = [rm EXCEPT ![w] = [@ EXCEPT !.cleaned = c, !.pc = pc]]
    <3>1. PICK pc, c : rm' = [rm EXCEPT ![w] = [@ EXCEPT !.cleaned = c, !.pc = pc]]
      BY <2>5
    <3>2. rm' = [rm EXCEPT ![w] = [rm[w] EXCEPT !.pc = pc, !.blobs = rm[w].blobs,
                                     !.cleaned = c, !.failed = rm[w].failed]]
      BY <1>1, <3>1 DEF RmType
    <3> QED
      BY <3>2
  <2>6. CASE \E pc, f : rm' = [rm EXCEPT ![w] = [@ EXCEPT !.failed = f, !.pc = pc]]
    <3>1. PICK pc, f : rm' = [rm EXCEPT ![w] = [@ EXCEPT !.failed = f, !.pc = pc]]
      BY <2>6
    <3>2. rm' = [rm EXCEPT ![w] = [rm[w] EXCEPT !.pc = pc, !.blobs = rm[w].blobs,
                                     !.cleaned = rm[w].cleaned, !.failed = f]]
      BY <1>1, <3>1 DEF RmType
    <3> QED
      BY <3>2
  <2>7. CASE SoftDelete(w)
    BY <2>1, <2>2, <2>7 DEF SoftDelete
  <2>8. CASE LookupOrphans(w)
    BY <2>1, <2>2, <2>8 DEF LookupOrphans
  <2>9. CASE DropDocuments(w) \/ DropArtifacts(w) \/ CrashRemoval(w)
    BY <2>1, <2>9 DEF DropDocuments, DropArtifacts, CrashRemoval
  <2>10. CASE \E b \in Keys : CleanupBlob(w, b)
    BY <2>3, <2>4, <2>10 DEF CleanupBlob
  <2>11. CASE \E b \in Keys : MarkCleaned(w, b)
    BY <2>1, <2>5, <2>11 DEF MarkCleaned
  <2>12. CASE \E b \in Keys : MarkFailed(w, b)
    BY <2>1, <2>6, <2>12 DEF MarkFailed
  <2> QED
    BY <2>7, <2>8, <2>9, <2>10, <2>11, <2>12 DEF RmStep
<1>4. PICK pc, b, c, f : rm' = [rm EXCEPT ![w] = [rm[w] EXCEPT !.pc = pc, !.blobs = b,
                                                   !.cleaned = c, !.failed = f]]
  BY <1>3
<1>5. rm'[w] = [rm[w] EXCEPT !.pc = pc, !.blobs = b, !.cleaned = c, !.failed = f]
  BY <1>1, <1>4
<1> QED
  BY <1>1, <1>2, <1>4, <1>5 DEF RmType

LEMMA RemovalEntry ==
    ASSUME TypeInv, NEW w \in Removals, NEW e, rm' = [rm EXCEPT ![w] = e]
    PROVE  rm'[w] = e
BY RemovalTypes

LEMMA RemovalStepOrder ==
    ASSUME LinkInv, NEW w \in Removals, RmStep(w) \/ CrashRemoval(w), UNCHANGED setting
    PROVE  RemovalOrder(w)'
<1>1. /\ TypeInv /\ RemovalOrder(w) /\ rm[w].pc \in RmSteps
      /\ rm'[w].kind = rm[w].kind /\ rm'[w].scope = rm[w].scope
      /\ \A v \in Removals \ {w} : rm'[v] = rm[v]
  BY RemovalGoesOn DEF LinkInv
<1>2. /\ rm[w] \in RmType /\ rm \in [Removals -> RmType] /\ rm[w].scope \subseteq Documents
      /\ rm[w].blobs \subseteq Keys /\ rm[w].cleaned \subseteq Keys /\ rm[w].failed \subseteq Keys
  BY <1>1, RemovalTypes
<1>3. ASSUME rm'[w].pc \notin RmSteps, rm'[w].pc # "none"
      PROVE  RemovalOrder(w)'
  BY <1>1, <1>3 DEF RemovalOrder, RmSteps
<1>4. \A pc \in {"error", "crashed", "ok"} : pc \notin RmSteps /\ pc # "none"
  BY DEF RmSteps
<1>5. ASSUME NEW pc, RmGoto(w, pc) PROVE rm'[w].pc = pc
  <2>1. rm'[w] = [rm[w] EXCEPT !.pc = pc]
    BY <1>1, <1>5, RemovalEntry DEF RmGoto
  <2> QED
    BY <1>2, <2>1 DEF RmType
<1>6. CASE (\E pc \in {"error", "crashed", "ok"} : RmGoto(w, pc))
  BY <1>3, <1>4, <1>5, <1>6
\* A step that goes on, of a removal of one document or of a source.
<1>7. ASSUME rm[w].kind # "user", rm'[w].pc \in {"lookup", "cleanup", "mark"},
             \A x \in rm[w].scope : doc'[x].state = "deleted",
             \A k \in rm'[w].blobs \cup rm'[w].cleaned \cup rm'[w].failed : k[1] \in rm[w].scope
      PROVE  RemovalOrder(w)'
  BY <1>1, <1>7 DEF RemovalOrder, HasRow
\* And of a wipe.
<1>8. ASSUME rm[w].kind = "user", rm'[w].pc \in {"cleanup", "mark", "dropDocuments", "dropArtifacts"}
      PROVE  RemovalOrder(w)'
  BY <1>1, <1>8 DEF RemovalOrder
<1>9. CASE SoftDelete(w) /\ ~RmGoto(w, "error")
  <2>1. rm[w].kind # "user" /\ rm[w].pc = "softDelete"
    BY <1>1, <1>9 DEF SoftDelete, RemovalOrder
  <2>2. PICK blobs \in SUBSET Keys, pc \in {"lookup", "cleanup"} :
           blobs \subseteq rm[w].blobs /\ rm' = [rm EXCEPT ![w] = [@ EXCEPT !.blobs = blobs, !.pc = pc]]
    BY <1>2, <1>9 DEF SoftDelete
  <2>3. /\ rm'[w].pc = pc /\ rm'[w].blobs = blobs /\ rm'[w].cleaned = rm[w].cleaned
        /\ rm'[w].failed = rm[w].failed
    <3>1. rm'[w] = [rm[w] EXCEPT !.blobs = blobs, !.pc = pc]
      BY <1>1, <2>2, RemovalEntry
    <3> QED
      BY <1>2, <3>1 DEF RmType
  <2>4. \A x \in rm[w].scope : doc'[x].state = "deleted"
    <3> SUFFICES ASSUME NEW x \in rm[w].scope PROVE doc'[x].state = "deleted"
      OBVIOUS
    <3>1. doc'[x] = [doc[x] EXCEPT !.state = "deleted"]
      BY <1>2, <1>9 DEF SoftDelete
    <3>2. doc[x] \in DocType
      BY <1>1, <1>2, DocTyped
    <3> QED
      BY <3>1, <3>2 DEF DocType
  <2>5. \A k \in rm[w].blobs \cup rm[w].cleaned \cup rm[w].failed : k[1] \in rm[w].scope
    BY <1>1, <2>1 DEF RemovalOrder
  <2> QED
    BY <1>7, <2>1, <2>2, <2>3, <2>4, <2>5
<1>10. CASE LookupOrphans(w) /\ ~RmGoto(w, "error")
  <2>1. rm[w].kind # "user" /\ rm[w].pc = "lookup"
    BY <1>1, <1>10 DEF LookupOrphans, RemovalOrder
  <2>2. PICK pc \in {"ok", "cleanup"} :
           rm' = [rm EXCEPT ![w] = [@ EXCEPT !.blobs = OrphanedBlobs(rm[w].scope), !.pc = pc]]
    BY <1>10 DEF LookupOrphans
  <2>3. /\ rm'[w].pc = pc /\ rm'[w].blobs = OrphanedBlobs(rm[w].scope)
        /\ rm'[w].cleaned = rm[w].cleaned /\ rm'[w].failed = rm[w].failed
    <3>1. rm'[w] = [rm[w] EXCEPT !.blobs = OrphanedBlobs(rm[w].scope), !.pc = pc]
      BY <1>1, <2>2, RemovalEntry
    <3> QED
      BY <1>2, <3>1 DEF RmType
  <2>4. \A k \in OrphanedBlobs(rm[w].scope) : k[1] \in rm[w].scope
    BY DEF OrphanedBlobs
  <2>5. /\ \A x \in rm[w].scope : doc[x].state = "deleted"
        /\ \A k \in rm[w].blobs \cup rm[w].cleaned \cup rm[w].failed : k[1] \in rm[w].scope
    BY <1>1, <2>1 DEF RemovalOrder
  <2>6. doc' = doc
    BY <1>10 DEF LookupOrphans, rows
  <2> QED
    BY <1>3, <1>4, <1>7, <2>1, <2>2, <2>3, <2>4, <2>5, <2>6
<1>11. CASE DropDocuments(w)
  <2>1. rm[w].kind = "user"
    BY <1>1, <1>11 DEF DropDocuments, RemovalOrder
  <2> QED
    BY <1>5, <1>6, <1>8, <1>11, <2>1 DEF DropDocuments
<1>12. CASE DropArtifacts(w)
  BY <1>6, <1>12 DEF DropArtifacts
<1>13. CASE CrashRemoval(w)
  BY <1>6, <1>13 DEF CrashRemoval
<1>14. CASE \E b \in Keys : CleanupBlob(w, b)
  <2>1. PICK b \in Keys : CleanupBlob(w, b)
    BY <1>14
  <2>2. /\ rm[w].pc = "cleanup" /\ b \in rm[w].blobs /\ doc' = doc
        /\ rm'[w].pc \in {"cleanup", "mark", "dropDocuments"}
        /\ rm'[w].pc = "dropDocuments" => rm[w].kind = "user"
        /\ rm'[w].blobs \cup rm'[w].cleaned \cup rm'[w].failed
              \subseteq rm[w].blobs \cup rm[w].cleaned \cup rm[w].failed
    <3> DEFINE next(failed) == IF rm[w].blobs \ {b} = {} THEN AfterCleanup(w, failed) ELSE "cleanup"
    <3>1. \A F : /\ next(F) \in {"cleanup", "mark", "dropDocuments"}
                 /\ next(F) = "dropDocuments" => rm[w].kind = "user"
      BY DEF AfterCleanup
    <3> HIDE DEF next
    <3>2. \/ rm' = [rm EXCEPT ![w] = [@ EXCEPT !.pc = next(rm[w].failed), !.blobs = rm[w].blobs \ {b},
                                               !.cleaned = rm[w].cleaned \cup {b}]]
          \/ rm' = [rm EXCEPT ![w] = [@ EXCEPT !.pc = next({b}), !.blobs = rm[w].blobs \ {b},
                                               !.failed = rm[w].failed \cup {b}]]
      BY <2>1 DEF CleanupBlob, next
    <3>3. rm[w].pc = "cleanup" /\ b \in rm[w].blobs /\ doc' = doc
      BY <2>1 DEF CleanupBlob
    <3>4. \/ rm'[w] = [rm[w] EXCEPT !.pc = next(rm[w].failed), !.blobs = rm[w].blobs \ {b},
                                    !.cleaned = rm[w].cleaned \cup {b}]
          \/ rm'[w] = [rm[w] EXCEPT !.pc = next({b}), !.blobs = rm[w].blobs \ {b},
                                    !.failed = rm[w].failed \cup {b}]
      BY <1>2, <3>2
    <3>5. CASE rm'[w] = [rm[w] EXCEPT !.pc = next(rm[w].failed), !.blobs = rm[w].blobs \ {b},
                                      !.cleaned = rm[w].cleaned \cup {b}]
      <4>1. /\ rm'[w].pc = next(rm[w].failed) /\ rm'[w].blobs = rm[w].blobs \ {b}
            /\ rm'[w].cleaned = rm[w].cleaned \cup {b} /\ rm'[w].failed = rm[w].failed
        BY <1>2, <3>5 DEF RmType
      <4> QED
        BY <3>1, <3>3, <4>1
    <3>6. CASE rm'[w] = [rm[w] EXCEPT !.pc = next({b}), !.blobs = rm[w].blobs \ {b},
                                      !.failed = rm[w].failed \cup {b}]
      <4>1. /\ rm'[w].pc = next({b}) /\ rm'[w].blobs = rm[w].blobs \ {b}
            /\ rm'[w].failed = rm[w].failed \cup {b} /\ rm'[w].cleaned = rm[w].cleaned
        BY <1>2, <3>6 DEF RmType
      <4> QED
        BY <3>1, <3>3, <4>1
    <3> QED
      BY <3>4, <3>5, <3>6
  <2>3. CASE rm[w].kind = "user"
    BY <1>8, <2>2, <2>3
  <2>4. CASE rm[w].kind # "user"
    <3>1. /\ \A x \in rm[w].scope : doc[x].state = "deleted"
          /\ \A k \in rm[w].blobs \cup rm[w].cleaned \cup rm[w].failed : k[1] \in rm[w].scope
      BY <1>1, <2>2, <2>4 DEF RemovalOrder
    <3> QED
      BY <1>7, <2>2, <2>4, <3>1
  <2> QED
    BY <2>3, <2>4
<1>15. CASE (\E b \in Keys : MarkCleaned(w, b) \/ MarkFailed(w, b)) /\ ~RmGoto(w, "error")
  <2>1. PICK b \in Keys : MarkCleaned(w, b) \/ MarkFailed(w, b)
    BY <1>15
  <2>2. /\ rm[w].pc = "mark"
        /\ rm'[w].pc \in {"ok", "error", "mark"} /\ rm'[w].blobs = rm[w].blobs
        /\ rm'[w].cleaned \subseteq rm[w].cleaned /\ rm'[w].failed \subseteq rm[w].failed
    <3>1. PICK pc \in {"ok", "error", "mark"} :
             \/ rm' = [rm EXCEPT ![w] = [@ EXCEPT !.cleaned = rm[w].cleaned \ {b}, !.pc = pc]]
             \/ rm' = [rm EXCEPT ![w] = [@ EXCEPT !.failed = rm[w].failed \ {b}, !.pc = pc]]
      BY <1>15, <2>1 DEF MarkCleaned, MarkFailed
    <3>2. \/ rm'[w] = [rm[w] EXCEPT !.cleaned = rm[w].cleaned \ {b}, !.pc = pc]
          \/ rm'[w] = [rm[w] EXCEPT !.failed = rm[w].failed \ {b}, !.pc = pc]
      BY <1>2, <3>1
    <3>3. rm[w].pc = "mark"
      BY <2>1 DEF MarkCleaned, MarkFailed
    <3>4. CASE rm'[w] = [rm[w] EXCEPT !.cleaned = rm[w].cleaned \ {b}, !.pc = pc]
      BY <1>2, <3>3, <3>4 DEF RmType
    <3>5. CASE rm'[w] = [rm[w] EXCEPT !.failed = rm[w].failed \ {b}, !.pc = pc]
      BY <1>2, <3>3, <3>5 DEF RmType
    <3> QED
      BY <3>2, <3>4, <3>5
  <2>3. CASE rm'[w].pc \in {"ok", "error"}
    BY <1>3, <1>4, <2>3
  <2>4. CASE rm'[w].pc = "mark" /\ rm[w].kind = "user"
    BY <1>8, <2>4
  <2>5. CASE rm'[w].pc = "mark" /\ rm[w].kind # "user"
    <3>1. /\ \A x \in rm[w].scope : doc[x].state = "deleted"
          /\ \A k \in rm[w].blobs \cup rm[w].cleaned \cup rm[w].failed : k[1] \in rm[w].scope
      BY <1>1, <2>2, <2>5 DEF RemovalOrder
    <3>2. \A x \in Documents : doc'[x].state = doc[x].state
      <4> DEFINE row1 == [doc[b[1]] EXCEPT !.status = "blob_deleted"]
                 row2 == [doc[b[1]] EXCEPT !.status = "raw_storage_failed",
                                           !.hint = rm[w].kind = "source" /\ doc[b[1]].hint]
      <4>1. doc' = [doc EXCEPT ![b[1]] = row1] \/ doc' = [doc EXCEPT ![b[1]] = row2]
        BY <1>15, <2>1 DEF MarkCleaned, MarkFailed, SetBoth
      <4>2. b[1] \in Documents
        BY DEF Keys
      <4>3. row1.state = doc[b[1]].state /\ row2.state = doc[b[1]].state
        BY <1>1, <4>2, DocTyped DEF DocType
      <4> HIDE DEF row1, row2
      <4> QED
        BY <1>1, <4>1, <4>2, <4>3, ArtTyped
    <3> QED
      BY <1>2, <1>7, <2>2, <2>5, <3>1, <3>2
  <2> QED
    BY <2>2, <2>3, <2>4, <2>5
<1> QED
  BY <1>6, <1>9, <1>10, <1>11, <1>12, <1>13, <1>14, <1>15 DEF RmStep

\* The two statements of a wipe that drop rows; every other step of a removal is tame.
DocumentsDropped(w) == DropDocuments(w) /\ RmGoto(w, "dropArtifacts") /\
    doc' = [x \in Documents |-> IF HasRow(x) THEN [NoDoc EXCEPT !.state = "wiped"] ELSE doc[x]]

ArtifactsDropped(w) == DropArtifacts(w) /\ art' = [a \in Artifacts |-> NoArt] /\
    ~\E x \in Documents : doc[x].link # None

LEMMA RemovalTame ==
    ASSUME LinkInv, NEW w \in Removals, RmStep(w) \/ CrashRemoval(w), UNCHANGED up
    PROVE  Tame \/ DocumentsDropped(w) \/ ArtifactsDropped(w)
<1>1. TypeInv /\ RowLinks /\ RemovalOrder(w) /\ \A u \in Uploads : TameUp(u)
  BY SameUpTame DEF LinkInv, RowLinks
<1>2. /\ rm[w] \in RmType /\ rm \in [Removals -> RmType] /\ rm[w].scope \subseteq Documents
  BY <1>1, RemovalTypes
<1>3. CASE UNCHANGED <<doc, art>>
  BY <1>1, <1>3, UnchangedTame
<1>4. CASE SoftDelete(w) /\ ~UNCHANGED <<doc, art>>
  <2> DEFINE scope == rm[w].scope
             gone == ArtifactsToTombstone(w)
  <2>1. /\ rm[w].pc = "softDelete"
        /\ doc' = [x \in Documents |-> IF x \in scope THEN [doc[x] EXCEPT !.state = "deleted"]
                                       ELSE doc[x]]
        /\ art' = [a \in Artifacts |->
                     IF a \in gone
                     THEN [art[a] EXCEPT !.status = "deleted", !.tomb = TRUE, !.attempt = None]
                     ELSE art[a]]
    BY <1>4 DEF SoftDelete
  <2>2. \A x \in scope : HasRow(x)
    BY <1>1, <2>1 DEF RemovalOrder, RmSteps
  <2>3. \A a \in gone : \E x \in scope : doc[x].link = a
    BY DEF ArtifactsToTombstone
  <2>4. scope \in SUBSET Documents
    BY <1>2
  <2> HIDE DEF scope, gone
  <2>5. \A a \in Artifacts :
           \/ art'[a] = art[a]
           \/ /\ \E x \in scope : doc[x].link = a
              /\ art'[a] = [art[a] EXCEPT !.status = "deleted", !.tomb = TRUE, !.attempt = None]
    BY <2>1, <2>3
  <2> QED
    BY <1>1, <2>1, <2>2, <2>4, <2>5, RemovedTame
<1>5. CASE (\E b \in Keys : MarkCleaned(w, b)) /\ ~UNCHANGED <<doc, art>>
  <2>1. PICK b \in Keys : MarkCleaned(w, b)
    BY <1>5
  <2> DEFINE x == b[1]
             row == [doc[x] EXCEPT !.status = "blob_deleted"]
  <2>2. /\ rm[w].pc = "mark" /\ rm[w].kind # "user" /\ b \in rm[w].cleaned /\ SetBoth(x, row)
    BY <1>5, <2>1 DEF MarkCleaned
  <2>3. x \in Documents /\ doc[x] \in DocType
    BY <1>1, DocTyped DEF Keys
  <2>4. doc[x].state = "deleted"
    BY <1>1, <2>2 DEF RemovalOrder, RmSteps
  <2>5. /\ row.link = doc[x].link /\ row.state = doc[x].state /\ row.uri = doc[x].uri
        /\ row.status = "blob_deleted"
    BY <2>3 DEF DocType
  <2>6. "blob_deleted" \in RawStatuses \ Linked
    BY DEF RawStatuses, Linked, Settled, Occupied
  <2> HIDE DEF x, row
  <2> QED
    BY <1>1, <2>2, <2>3, <2>4, <2>5, <2>6, RowStepTame
<1>6. CASE (\E b \in Keys : MarkFailed(w, b)) /\ ~UNCHANGED <<doc, art>>
  <2>1. PICK b \in Keys : MarkFailed(w, b)
    BY <1>6
  <2> DEFINE x == b[1]
             row == [doc[x] EXCEPT !.status = "raw_storage_failed",
                                   !.hint = rm[w].kind = "source" /\ doc[x].hint]
  <2>2. SetBoth(x, row)
    BY <1>6, <2>1 DEF MarkFailed
  <2>3. x \in Documents /\ doc[x] \in DocType
    BY <1>1, DocTyped DEF Keys
  <2>4. /\ row.link = doc[x].link /\ row.state = doc[x].state /\ row.uri = doc[x].uri
        /\ row.status = "raw_storage_failed"
    BY <2>3 DEF DocType
  <2>5. "raw_storage_failed" \in RawStatuses \ (Linked \cup {"blob_deleted"})
    BY DEF RawStatuses, Linked, Settled, Occupied
  <2> HIDE DEF x, row
  <2> QED
    BY <1>1, <2>2, <2>3, <2>4, <2>5, RowStepTame
<1>7. CASE DropDocuments(w) /\ ~UNCHANGED <<doc, art>>
  BY <1>7 DEF DropDocuments, DocumentsDropped
<1>8. CASE DropArtifacts(w) /\ ~UNCHANGED <<doc, art>>
  BY <1>8 DEF DropArtifacts, ArtifactsDropped
<1>9. LookupOrphans(w) \/ CrashRemoval(w) \/ (\E b \in Keys : CleanupBlob(w, b)) => UNCHANGED <<doc, art>>
  BY DEF LookupOrphans, CrashRemoval, CleanupBlob, rows
<1> QED
  BY <1>3, <1>4, <1>5, <1>6, <1>7, <1>8, <1>9 DEF RmStep

\* Without links nothing can be amiss.
LEMMA NoLinks ==
    ASSUME \A x \in Documents : doc'[x].link = None /\ doc'[x].uri = None /\ doc'[x].status \notin Linked,
           ArtifactsNamed'
    PROVE  RowLinks'
BY DEF RowLinks, LinkOwn, Filled, LinkedArtifactLives

LEMMA DropDocumentsLinks ==
    ASSUME LinkInv, NEW w \in Removals, DocumentsDropped(w), UNCHANGED <<up, del, setting>>
    PROVE  /\ RowLinks' /\ (\A d \in Deletes : DeleteOrder(d)') /\ (\A u \in Uploads : Owned(u)')
           /\ \A x \in Documents : Followed(x)'
           /\ \A v \in Removals \ {w} : rm[v].pc \in RmSteps => rm[v].scope = {}
<1>1. TypeInv /\ RowLinks /\ RemovalOrder(w)
  BY DEF LinkInv, RowLinks
<1>2. /\ rm[w].pc = "dropDocuments" /\ art' = art
      /\ doc' = [x \in Documents |-> IF HasRow(x) THEN [NoDoc EXCEPT !.state = "wiped"] ELSE doc[x]]
      /\ rm' = [rm EXCEPT ![w] = [rm[w] EXCEPT !.pc = "dropArtifacts"]]
  BY DEF DocumentsDropped, DropDocuments, RmGoto
<1>3. rm[w].kind = "user" /\ \A v \in Removals \ {w} : rm[v].pc \in RmSteps => rm[v].scope = {}
  BY <1>1, <1>2 DEF RemovalOrder, RmSteps
<1>4. ASSUME NEW x \in Documents
      PROVE  /\ doc'[x].link = None /\ doc'[x].state \in {"absent", "wiped"}
             /\ HasRow(x) => doc'[x].state = "wiped"
             /\ ~HasRow(x) => doc'[x] = doc[x]
  <2>1. CASE HasRow(x)
    BY <1>2, <2>1 DEF NoDoc
  <2>2. CASE ~HasRow(x)
    BY <1>1, <1>2, <2>2, DocTyped DEF RowLinks, LinkOwn, HasRow
  <2> QED
    BY <2>1, <2>2
<1>5. ASSUME NEW x \in Documents PROVE doc'[x].uri = None /\ doc'[x].status \notin Linked
  <2>1. CASE HasRow(x)
    BY <1>2, <2>1 DEF NoDoc, Linked, Settled, Occupied
  <2>2. CASE ~HasRow(x)
    BY <1>1, <1>4, <2>2 DEF RowLinks, Filled
  <2> QED
    BY <2>1, <2>2
<1>6. \A a \in Artifacts : Created(a) => Created(a)'
  BY <1>4 DEF Created, HasRow
<1>7. ArtifactsNamed'
  BY <1>1, <1>2, <1>6 DEF RowLinks, ArtifactsNamed, Key
<1>8. RowLinks'
  BY <1>4, <1>5, <1>7, NoLinks
<1>9. ASSUME NEW d \in Deletes PROVE DeleteOrder(d)'
  <2>1. References(del[d].art)' = {}
    BY <1>4 DEF References, Active
  <2>2. DeleteOrder(d)
    BY DEF LinkInv
  <2> QED
    BY <1>6, <2>1, <2>2 DEF DeleteOrder
<1>10. ASSUME NEW u \in Uploads PROVE Owned(u)'
  <2> SUFFICES ASSUME art'[u].status \notin {"absent", "deleted"} PROVE Owned(u)'
    BY DEF Owned
  <2>1. u \in Artifacts /\ u \notin Documents /\ u # None
    BY NamesApart
  <2>2. up[u].doc \in Documents
    BY <1>1, <1>2, <2>1 DEF RowLinks, ArtifactsNamed, Created, Early, TypeInv, UploadsNamed
  <2>3. doc[up[u].doc].state = "wiped" \/ HasRow(up[u].doc)
    BY <1>2, <2>1 DEF LinkInv, Owned, LinkOwn, HasRow
  <2>4. doc'[up[u].doc].state = "wiped"
    BY <1>4, <2>2, <2>3
  <2>5. rm'[w].kind = "user" /\ rm'[w].pc = "dropArtifacts"
    BY <1>1, <1>2, <1>3, RemovalTypes DEF RmType
  <2> QED
    BY <2>4, <2>5 DEF Owned
<1>11. \A x \in Documents : Followed(x)'
  BY <1>4 DEF Followed, Active
<1> QED
  BY <1>3, <1>8, <1>9, <1>10, <1>11

LEMMA DropArtifactsLinks ==
    ASSUME LinkInv, NEW w \in Removals, ArtifactsDropped(w), UNCHANGED <<up, del, setting>>
    PROVE  /\ RowLinks' /\ (\A d \in Deletes : DeleteOrder(d)') /\ (\A u \in Uploads : Owned(u)')
           /\ \A x \in Documents : Followed(x)'
<1>1. /\ doc' = doc /\ \A a \in Artifacts : art'[a].status = "absent"
      /\ \A x \in Documents : doc[x].link = None
  BY DEF ArtifactsDropped, DropArtifacts, NoArt
<1>2. RowLinks'
  BY <1>1 DEF LinkInv, RowLinks, LinkOwn, Filled, LinkedArtifactLives, ArtifactsNamed
<1>3. \A d \in Deletes : DeleteOrder(d)'
  BY <1>1 DEF LinkInv, DeleteOrder, Created, References, Active
<1>4. \A u \in Uploads : Owned(u)'
  BY <1>1, NamesApart DEF Owned
<1>5. \A x \in Documents : Followed(x)'
  BY <1>1 DEF LinkInv, Filled, Followed
<1> QED
  BY <1>2, <1>3, <1>4, <1>5

\* A removal that begins: a wipe finds no other at work, and nobody begins beside one.
LEMMA BeginOrder ==
    ASSUME LinkInv, NEW w \in Removals, UNCHANGED <<doc, art, up, del, setting>>,
           \/ \E x \in Registered : BeginRemoval(w, "document", {x})
           \/ BeginRemoval(w, "source", Registered)
           \/ BeginWipe(w)
    PROVE  /\ RemovalOrder(w)' /\ rm[w].pc = "none"
           /\ \A v \in Removals \ {w} : rm'[v] = rm[v]
           /\ \A v \in Removals \ {w} :
                 rm[v].kind = "user" /\ rm[v].pc \in RmSteps /\ rm'[w].pc \in RmSteps =>
                    rm'[w].scope = {}
<1>1. TypeInv /\ setting \in Settings /\ rm \in [Removals -> RmType]
  BY RemovalTypes DEF LinkInv, TypeInv, TypeOK
<1>2. \A v \in Removals : rm[v].kind = "user" => setting.wipe /\ setting.races = {}
  BY <1>1, RawAssumption DEF LinkInv, RemovalOrder
<1>3. ASSUME NEW scope \in SUBSET Documents, MayRemove(scope),
             NEW v \in Removals, rm[v].kind = "user", rm[v].pc \in RmSteps
      PROVE  scope = {}
  <2>1. \A x \in scope : Removing(x) = {}
    BY <1>2, <1>3 DEF MayRemove, Races
  <2>2. rm[v].scope = Documents
    BY <1>3 DEF LinkInv, RemovalOrder
  <2> QED
    BY <1>3, <2>1, <2>2 DEF Removing
<1>4. ASSUME NEW kind \in {"document", "source"}, NEW scope \in SUBSET Registered,
             BeginRemoval(w, kind, scope)
      PROVE  /\ RemovalOrder(w)' /\ rm[w].pc = "none" /\ rm'[w].scope = scope
             /\ \A v \in Removals \ {w} : rm'[v] = rm[v]
             /\ MayRemove(scope)
  <2> DEFINE e == [NoRemoval EXCEPT !.pc = "softDelete", !.kind = kind, !.scope = scope,
                                    !.blobs = ManagedBlobs(scope)]
  <2>1. rm[w].pc = "none" /\ rm' = [rm EXCEPT ![w] = e] /\ MayRemove(scope)
    BY <1>4 DEF BeginRemoval, ListBlobs
  <2>2. /\ e.pc = "softDelete" /\ e.kind = kind /\ e.scope = scope
        /\ e.blobs = ManagedBlobs(scope) /\ e.cleaned = {} /\ e.failed = {}
    BY DEF NoRemoval
  <2>3. \A k \in ManagedBlobs(scope) : k[1] \in scope
    BY DEF ManagedBlobs
  <2>4. \A x \in scope : HasRow(x)'
    BY DEF Registered, HasRow
  <2> HIDE DEF e
  <2> QED
    BY <1>1, <2>1, <2>2, <2>3, <2>4 DEF RemovalOrder
<1>5. CASE \E kind \in {"document", "source"} : \E scope \in SUBSET Registered : BeginRemoval(w, kind, scope)
  <2>1. PICK kind \in {"document", "source"}, scope \in SUBSET Registered : BeginRemoval(w, kind, scope)
    BY <1>5
  <2>2. scope \in SUBSET Documents
    BY DEF Registered
  <2> QED
    BY <1>3, <1>4, <2>1, <2>2
<1>6. CASE BeginWipe(w)
  <2>1. PICK pc \in {"dropDocuments", "cleanup"} :
           rm' = [rm EXCEPT ![w] = [NoRemoval EXCEPT !.pc = pc, !.kind = "user", !.scope = Documents,
                                                     !.blobs = ManagedBlobs(Documents)]]
    BY <1>6 DEF BeginWipe, ListForWipe
  <2> DEFINE e == [NoRemoval EXCEPT !.pc = pc, !.kind = "user", !.scope = Documents,
                                    !.blobs = ManagedBlobs(Documents)]
  <2>2. e.pc = pc /\ e.kind = "user" /\ e.scope = Documents
    BY DEF NoRemoval
  <2> HIDE DEF e
  <2>3. rm' = [rm EXCEPT ![w] = e]
    BY <2>1 DEF e
  <2>4. rm[w].pc = "none" /\ setting.wipe /\ setting.races = {} /\ MayRemove(Documents)
    BY <1>1, <1>6, RawAssumption DEF BeginWipe, ListForWipe
  <2>5. rm'[w] = e /\ \A v \in Removals \ {w} : rm'[v] = rm[v]
    BY <1>1, <2>3
  <2>6. \A v \in Removals : rm[v].pc \in RmSteps => rm[v].scope = {}
    <3> SUFFICES ASSUME NEW v \in Removals, rm[v].pc \in RmSteps, NEW x \in rm[v].scope PROVE FALSE
      OBVIOUS
    <3>1. x \in Documents
      BY <1>1, RemovalTypes
    <3> QED
      BY <2>4, <3>1 DEF MayRemove, Races, Removing
  <2>7. RemovalOrder(w)'
    BY <2>2, <2>4, <2>5, <2>6 DEF RemovalOrder
  <2>8. \A v \in Removals : rm[v].kind = "user" /\ rm[v].pc \in RmSteps => Documents = {}
    BY <2>6 DEF LinkInv, RemovalOrder
  <2>9. \A v \in Removals \ {w} :
           rm[v].kind = "user" /\ rm[v].pc \in RmSteps /\ rm'[w].pc \in RmSteps => rm'[w].scope = {}
    BY <2>2, <2>5, <2>8
  <2> QED
    BY <2>4, <2>5, <2>7, <2>9
<1>7. /\ \A x \in Registered : {x} \in SUBSET Registered
      /\ Registered \in SUBSET Registered
  OBVIOUS
<1> QED
  BY <1>5, <1>6, <1>7

LEMMA BeginUnchanged ==
    ASSUME NEW w \in Removals,
           \/ \E x \in Registered : BeginRemoval(w, "document", {x})
           \/ BeginRemoval(w, "source", Registered)
           \/ BeginWipe(w)
    PROVE  UNCHANGED <<doc, art, objects>>
BY DEF BeginRemoval, ListBlobs, BeginWipe, ListForWipe, rows

\* A wipe that has not answered ok has not answered it after a step that drops nothing.
LEMMA WipeStays ==
    ASSUME LinkInv, NEW w \in Removals, RmStep(w) \/ CrashRemoval(w), ~ArtifactsDropped(w),
           rm[w].kind = "user"
    PROVE  rm'[w].kind = "user" /\ rm'[w].pc # "ok"
<1>1. /\ TypeInv /\ rm[w] \in RmType /\ rm \in [Removals -> RmType]
      /\ rm'[w].kind = rm[w].kind /\ rm[w].pc \in RmSteps
      /\ rm[w].pc \in {"cleanup", "mark", "dropDocuments", "dropArtifacts"}
  BY RemovalTypes, RemovalGoesOn DEF LinkInv, RemovalOrder
<1>2. ASSUME NEW pc, RmGoto(w, pc) PROVE rm'[w].pc = pc
  BY <1>1, <1>2 DEF RmGoto, RmType
<1>3. CASE DropDocuments(w) \/ DropArtifacts(w) \/ CrashRemoval(w) \/ RmGoto(w, "error")
  <2>1. \E pc \in {"dropArtifacts", "error", "crashed"} : RmGoto(w, pc)
    BY <1>3 DEF DropDocuments, DropArtifacts, CrashRemoval, ArtifactsDropped
  <2> QED
    BY <1>1, <1>2, <2>1
<1>4. CASE \E b \in Keys : CleanupBlob(w, b)
  <2>1. PICK b \in Keys : CleanupBlob(w, b)
    BY <1>4
  <2> DEFINE next(failed) == IF rm[w].blobs \ {b} = {} THEN AfterCleanup(w, failed) ELSE "cleanup"
  <2>2. \A F : next(F) \in {"cleanup", "mark", "dropDocuments"}
    BY DEF AfterCleanup
  <2> HIDE DEF next
  <2>3. \/ rm'[w] = [rm[w] EXCEPT !.pc = next(rm[w].failed), !.blobs = rm[w].blobs \ {b},
                                  !.cleaned = rm[w].cleaned \cup {b}]
        \/ rm'[w] = [rm[w] EXCEPT !.pc = next({b}), !.blobs = rm[w].blobs \ {b},
                                  !.failed = rm[w].failed \cup {b}]
    BY <1>1, <2>1 DEF CleanupBlob, next
  <2>4. rm'[w].pc = next(rm[w].failed) \/ rm'[w].pc = next({b})
    BY <1>1, <2>3 DEF RmType
  <2> QED
    BY <1>1, <2>2, <2>4
<1>5. CASE (\E b \in Keys : MarkFailed(w, b)) /\ ~RmGoto(w, "error")
  <2>1. PICK b \in Keys : MarkFailed(w, b)
    BY <1>5
  <2>2. PICK pc \in {"error", "mark"} :
           rm' = [rm EXCEPT ![w] = [@ EXCEPT !.failed = rm[w].failed \ {b}, !.pc = pc]]
    BY <1>5, <2>1 DEF MarkFailed
  <2> QED
    BY <1>1, <2>2 DEF RmType
<1> QED
  BY <1>1, <1>3, <1>4, <1>5 DEF RmStep, SoftDelete, LookupOrphans, MarkCleaned

\* What a tame step needs besides to keep the links.
LEMMA TameStep ==
    ASSUME LinkInv, Tame, TypeInv', \A w \in Removals : RemovalOrder(w)',
           \A d \in Deletes : del'[d] = del[d] \/ (DeleteOrder(d)' /\ GoesOn(d)),
           \A w \in Removals : rm[w].kind = "user" /\ rm[w].pc # "ok" =>
                                  rm'[w].kind = "user" /\ rm'[w].pc # "ok"
    PROVE  LinkInv'
<1>1. TypeInv /\ RowLinks
  BY DEF LinkInv, RowLinks
<1>5. ASSUME NEW x \in Documents PROVE Followed(x)'
  <2> SUFFICES ASSUME doc'[x].state = "active", doc'[x].status \in Linked,
                      doc[x].status = doc'[x].status,
                      art'[doc[x].link].status = art[doc[x].link].status
               PROVE  Followed(x)'
    <3>1. SyncRow(x)
      BY DEF Tame
    <3> QED
      BY <3>1 DEF SyncRow, Followed, Active
  <2>1. doc[x].state = "active" /\ doc'[x].link = doc[x].link
    BY DEF Tame, TameRow
  <2>2. \A d \in Deletes : GoesOn(d)
    BY DEF GoesOn
  <2> QED
    BY <2>1, <2>2 DEF LinkInv, Followed, Active, GoesOn
<1>2. RowLinks'
  BY <1>1, TameLinks
<1>3. \A d \in Deletes : DeleteOrder(d)'
  BY TameDelete DEF LinkInv
<1>4. \A u \in Uploads : Owned(u)'
  BY <1>1, TameOwned DEF LinkInv
<1> QED
  BY <1>2, <1>3, <1>4, <1>5 DEF LinkInv, RowLinks

LEMMA RemovalLinks ==
    ASSUME LinkInv, RemovalStep, TypeInv'
    PROVE  LinkInv'
<1>1. PICK w \in Removals :
         \/ RmStep(w) \/ CrashRemoval(w)
         \/ \E x \in Registered : BeginRemoval(w, "document", {x})
         \/ BeginRemoval(w, "source", Registered)
         \/ BeginWipe(w)
  BY DEF RemovalStep
<1>2. TypeInv /\ UNCHANGED <<up, del, setting>> /\ (\A u \in Uploads : TameUp(u)) /\ RowLinks
  BY SameUpTame DEF RemovalStep, LinkInv, RowLinks
<1>3. CASE RmStep(w) \/ CrashRemoval(w)
  <2>1. RemovalOrder(w)'
    BY <1>2, <1>3, RemovalStepOrder
  <2>2. /\ rm[w].pc \in RmSteps /\ rm'[w].scope = rm[w].scope
        /\ \A v \in Removals \ {w} : rm'[v] = rm[v]
    BY <1>2, <1>3, RemovalGoesOn
  <2>3. \A v \in Removals \ {w} :
           rm[v].kind = "user" /\ rm[v].pc \in RmSteps /\ rm'[w].pc \in RmSteps => rm'[w].scope = {}
    BY <2>2 DEF LinkInv, RemovalOrder
  <2>4. CASE Tame /\ ~ArtifactsDropped(w)
    <3>1. \A v \in Removals \ {w} :
             rm[v].kind # "user" /\ rm[v].pc \in RmSteps =>
                \A x \in rm[v].scope : /\ HasRow(x) => HasRow(x)'
                                       /\ doc[x].state = "deleted" => doc'[x].state = "deleted"
      BY <1>2, <2>4, RemovalTypes DEF Tame, TameRow, HasRow
    <3>2. \A v \in Removals : RemovalOrder(v)'
      BY <1>2, <2>1, <2>2, <2>3, <3>1, RemovalsMoved
    <3>3. \A v \in Removals : rm[v].kind = "user" /\ rm[v].pc # "ok" =>
                                 rm'[v].kind = "user" /\ rm'[v].pc # "ok"
      BY <1>3, <2>2, <2>4, WipeStays
    <3> QED
      BY <1>2, <2>4, <3>2, <3>3, TameStep
  <2>5. CASE DocumentsDropped(w)
    <3>1. /\ RowLinks' /\ (\A d \in Deletes : DeleteOrder(d)') /\ (\A u \in Uploads : Owned(u)')
          /\ \A x \in Documents : Followed(x)'
          /\ \A v \in Removals \ {w} : rm[v].pc \in RmSteps => rm[v].scope = {}
      BY <1>2, <2>5, DropDocumentsLinks
    <3>2. \A v \in Removals \ {w} :
             rm[v].kind # "user" /\ rm[v].pc \in RmSteps =>
                \A x \in rm[v].scope : /\ HasRow(x) => HasRow(x)'
                                       /\ doc[x].state = "deleted" => doc'[x].state = "deleted"
      BY <3>1
    <3>3. \A v \in Removals : RemovalOrder(v)'
      BY <1>2, <2>1, <2>2, <2>3, <3>2, RemovalsMoved
    <3> QED
      BY <3>1, <3>3 DEF LinkInv, RowLinks
  <2>6. CASE ArtifactsDropped(w)
    <3>1. /\ RowLinks' /\ (\A d \in Deletes : DeleteOrder(d)') /\ (\A u \in Uploads : Owned(u)')
          /\ \A x \in Documents : Followed(x)'
      BY <1>2, <2>6, DropArtifactsLinks
    <3>2. doc' = doc
      BY <2>6 DEF ArtifactsDropped, DropArtifacts
    <3>3. \A v \in Removals : RemovalOrder(v)'
      BY <1>2, <2>1, <2>2, <2>3, <3>2, RemovalsMoved DEF HasRow
    <3> QED
      BY <3>1, <3>3 DEF LinkInv, RowLinks
  <2> QED
    BY <1>2, <1>3, <2>4, <2>5, <2>6, RemovalTame
<1>4. CASE ~(RmStep(w) \/ CrashRemoval(w))
  <2>1. UNCHANGED <<doc, art>> /\ Tame
    BY <1>1, <1>2, <1>4, BeginUnchanged, UnchangedTame
  <2>2. /\ RemovalOrder(w)' /\ rm[w].pc = "none"
        /\ \A v \in Removals \ {w} : rm'[v] = rm[v]
        /\ \A v \in Removals \ {w} :
              rm[v].kind = "user" /\ rm[v].pc \in RmSteps /\ rm'[w].pc \in RmSteps =>
                 rm'[w].scope = {}
    BY <1>1, <1>2, <1>4, <2>1, BeginOrder
  <2>3. \A v \in Removals : RemovalOrder(v)'
    BY <1>2, <2>1, <2>2, RemovalsMoved DEF HasRow
  <2>4. rm[w].kind # "user"
    BY <2>2 DEF LinkInv, RemovalOrder
  <2> QED
    BY <1>2, <2>1, <2>2, <2>3, <2>4, TameStep
<1> QED
  BY <1>3, <1>4

-----------------------------------------------------------------------------
\* Deletes of artifacts.
LEMMA DeleteTypes ==
    ASSUME TypeInv, NEW d \in Deletes
    PROVE  /\ del \in [Deletes -> DelType] /\ del[d] \in DelType
           /\ del[d].todo \subseteq Documents /\ del[d].cascaded \subseteq Documents
BY DEF TypeInv, TypeOK, DelTypeOK, DelType

LEMMA DeleteGoesOn ==
    ASSUME TypeInv, NEW d \in Deletes,
           DelStep(d) \/ \E a \in Artifacts, policy \in BOOLEAN : ReadInitial(d, a, policy)
    PROVE  /\ \A e \in Deletes \ {d} : del'[e] = del[e]
           /\ \A e \in Deletes : GoesOn(e)
           /\ DelStep(d) => del[d].pc # "none"
<1>7. DelStep(d) => del[d].pc # "none"
  BY DEF DelStep, ClaimDelete, CountReferences, Cascade, ReleaseClaim, DeleteObject, FinalizeDelete
<1> SUFFICES (\A e \in Deletes \ {d} : del'[e] = del[e]) /\ GoesOn(d)
  BY <1>7 DEF GoesOn
<1>1. del \in [Deletes -> DelType] /\ del[d] \in DelType
  BY DeleteTypes
<1>2. ASSUME NEW pc, pc # "none", DelGoto(d, pc)
      PROVE  (\A e \in Deletes \ {d} : del'[e] = del[e]) /\ GoesOn(d)
  BY <1>1, <1>2 DEF DelGoto, DelType, GoesOn
<1>3. CASE CountReferences(d)
  <2>1. CASE del' = [del EXCEPT ![d] = [@ EXCEPT !.pc = "cascade", !.todo = References(del[d].art)]]
    BY <1>1, <1>3, <2>1 DEF CountReferences, DelType, GoesOn
  <2>2. CASE DelGoto(d, "backend") \/ DelGoto(d, "release")
    BY <1>2, <1>3, <2>2 DEF CountReferences, GoesOn
  <2> QED
    BY <1>3, <2>1, <2>2 DEF CountReferences
<1>4. CASE \E x \in Documents : Cascade(d, x)
  <2>1. PICK x \in Documents : Cascade(d, x)
    BY <1>4
  <2> DEFINE pc == IF del[d].todo \ {x} = {} THEN "backend" ELSE "cascade"
  <2>2. PICK t, c : del' = [del EXCEPT ![d] = [@ EXCEPT !.pc = pc, !.todo = t, !.cascaded = c]]
    BY <2>1 DEF Cascade
  <2>3. pc # "none" /\ del[d].pc = "cascade"
    BY <2>1 DEF Cascade
  <2> HIDE DEF pc
  <2>4. del'[d] = [del[d] EXCEPT !.pc = pc, !.todo = t, !.cascaded = c]
    BY <1>1, <2>2
  <2> QED
    BY <1>1, <2>2, <2>3, <2>4 DEF DelType, GoesOn
<1>5. CASE ClaimDelete(d) \/ ReleaseClaim(d) \/ DeleteObject(d) \/ FinalizeDelete(d)
  <2>1. \E pc : pc # "none" /\ DelGoto(d, pc)
    BY <1>5 DEF ClaimDelete, ReleaseClaim, DeleteObject, FinalizeDelete, Refusal
  <2>2. del[d].pc # "none"
    BY <1>5 DEF ClaimDelete, ReleaseClaim, DeleteObject, FinalizeDelete
  <2> QED
    BY <1>2, <2>1, <2>2 DEF GoesOn
<1>6. CASE \E a \in Artifacts, policy \in BOOLEAN : ReadInitial(d, a, policy)
  BY <1>1, <1>6 DEF ReadInitial, GoesOn
<1> QED
  BY <1>3, <1>4, <1>5, <1>6 DEF DelStep

\* A delete that only moves on, with nothing it knows to establish.
LEMMA DeleteMoves ==
    ASSUME LinkInv, Tame, NEW d \in Deletes, NEW pc, DelGoto(d, pc), del[d].pc # "none",
           pc # "cascade",
           pc \in {"backend", "finalizeSuccess", "finalizeFailure"} => References(del[d].art) = {}
    PROVE  DeleteOrder(d)'
<1>1. TypeInv /\ del \in [Deletes -> DelType] /\ del[d] \in DelType
  BY DeleteTypes DEF LinkInv
<1>2. del'[d] = [del[d] EXCEPT !.pc = pc] /\ \A e \in Deletes \ {d} : del'[e] = del[e]
  BY <1>1 DEF DelGoto
<1>3. del'[d].pc = pc /\ del'[d].art = del[d].art /\ del'[d].status = del[d].status
  BY <1>1, <1>2 DEF DelType
<1>4. del[d].art \in Artifacts /\ Created(del[d].art) /\ del[d].status # "absent"
  BY DEF LinkInv, DeleteOrder
<1>5. Created(del[d].art)' /\ References(del[d].art)' \subseteq References(del[d].art)
  BY <1>3, <1>4, TameCreated, TameReferences
<1> QED
  BY <1>2, <1>3, <1>4, <1>5 DEF DeleteOrder, Created, References, Active

LEMMA DeleteLinks ==
    ASSUME LinkInv, DeleteStep, TypeInv'
    PROVE  LinkInv'
<1>1. PICK d \in Deletes : DelStep(d) \/ \E a \in Artifacts, policy \in BOOLEAN : ReadInitial(d, a, policy)
  BY DEF DeleteStep
<1> DEFINE art0 == del[d].art
<1>2. TypeInv /\ UNCHANGED <<up, rm, setting>> /\ (\A u \in Uploads : TameUp(u)) /\ RowLinks
  BY SameUpTame DEF DeleteStep, LinkInv, RowLinks
<1>3. /\ del \in [Deletes -> DelType] /\ del[d] \in DelType
      /\ del[d].todo \subseteq Documents /\ del[d].cascaded \subseteq Documents
  BY <1>2, DeleteTypes
<1>4. DelStep(d) => art0 \in Artifacts /\ art[art0] \in ArtType /\ DeleteOrder(d) /\ del[d].pc # "none"
  BY <1>2, ArtTyped DEF DelStep, ClaimDelete, CountReferences, Cascade, ReleaseClaim, DeleteObject,
                        FinalizeDelete, LinkInv, DeleteOrder
<1>14. (\A e \in Deletes \ {d} : del'[e] = del[e]) /\ GoesOn(d)
  BY <1>1, <1>2, DeleteGoesOn
<1>5. SUFFICES Tame /\ DeleteOrder(d)'
  BY <1>2, <1>14, TameRemovals, TameStep DEF LinkInv
\* The statuses of the artifact a delete works at are its own.
<1>15. ASSUME DelStep(d), \A a \in Artifacts \ {art0} : art'[a] = art[a],
              NEW x \in Documents, doc'[x].link = doc[x].link,
              doc'[x].status \in Linked => doc'[x].status = doc[x].status
       PROVE  SyncRow(x)
  <2>1. doc[x].status \in Linked => doc[x].link \in Artifacts
    BY <1>2, DocTyped DEF RowLinks, Filled
  <2> QED
    BY <1>4, <1>14, <1>15, <2>1 DEF SyncRow, GoesOn
<1>6. ASSUME NEW pc, DelGoto(d, pc), Tame, del[d].pc # "none", pc \notin {"cascade", "backend"},
             pc \in {"finalizeSuccess", "finalizeFailure"} => del[d].pc = "backend"
      PROVE  Tame /\ DeleteOrder(d)'
  BY <1>6, DeleteMoves DEF LinkInv, DeleteOrder
<1>7. CASE \E a \in Artifacts, policy \in BOOLEAN : ReadInitial(d, a, policy)
  <2>1. PICK a \in Artifacts, policy \in BOOLEAN : ReadInitial(d, a, policy)
    BY <1>7
  <2> DEFINE e == [NoDelete EXCEPT !.pc = IF art[a].status = "deleted" THEN "deleted" ELSE "claim",
                                   !.art = a, !.withDocuments = policy,
                                   !.status = art[a].status, !.uri = art[a].uri]
  <2>2. /\ art[a].status # "absent" /\ del' = [del EXCEPT ![d] = e] /\ UNCHANGED <<doc, art>>
    BY <2>1 DEF ReadInitial, rows
  <2>3. e.pc \in {"deleted", "claim"} /\ e.art = a /\ e.status = art[a].status
    BY DEF NoDelete
  <2> HIDE DEF e
  <2>4. Created(a)'
    BY <1>2, <2>2 DEF RowLinks, ArtifactsNamed, Created
  <2>5. DeleteOrder(d)'
    BY <1>3, <2>2, <2>3, <2>4 DEF DeleteOrder, Created
  <2> QED
    BY <1>2, <1>3, <2>2, <2>5, UnchangedTame
<1>8. CASE ClaimDelete(d)
  <2>1. PICK pc : DelGoto(d, pc) /\ pc \in {"count", "deleted", "notFound", "refused"}
    BY <1>8 DEF ClaimDelete, Refusal
  <2>2. Tame
    <3>1. CASE UNCHANGED <<doc, art>>
      BY <1>2, <3>1, UnchangedTame
    <3>2. CASE /\ doc' = doc /\ art[art0].status \notin {"absent", "deleted"}
               /\ art' = [art EXCEPT ![art0] = [@ EXCEPT !.status = "deleting", !.attempt = d]]
      <4>1. /\ art'[art0].uri = art[art0].uri /\ art'[art0].status = "deleting"
            /\ art'[art0].tomb = art[art0].tomb
            /\ \A a \in Artifacts \ {art0} : art'[a] = art[a]
        BY <1>2, <1>4, <1>8, <3>2, ArtTyped DEF ArtType, DelStep
      <4>2. \A a \in Artifacts : TameArt(a)
        BY <3>2, <4>1 DEF TameArt
      <4>3. \A x \in Documents : SyncRow(x)
        BY <1>8, <1>15, <3>2, <4>1 DEF DelStep
      <4> QED
        BY <1>2, <3>2, <4>2, <4>3 DEF Tame, TameRow
    <3> QED
      BY <1>8, <3>1, <3>2 DEF ClaimDelete
  <2> QED
    BY <1>4, <1>6, <1>8, <2>1, <2>2 DEF DelStep
<1>9. CASE CountReferences(d)
  <2>1. Tame /\ UNCHANGED <<doc, art>>
    BY <1>2, <1>9, UnchangedTame DEF CountReferences, rows
  <2>2. CASE References(art0) = {} /\ DelGoto(d, "backend")
    BY <1>4, <1>9, <2>1, <2>2, DeleteMoves DEF DelStep
  <2>3. CASE DelGoto(d, "release")
    BY <1>4, <1>6, <1>9, <2>1, <2>3 DEF DelStep
  <2>4. CASE del' = [del EXCEPT ![d] = [@ EXCEPT !.pc = "cascade", !.todo = References(art0)]]
    <3>1. /\ del'[d].pc = "cascade" /\ del'[d].todo = References(art0)
          /\ del'[d].art = art0 /\ del'[d].status = del[d].status
      BY <1>3, <2>4 DEF DelType
    <3>2. DeleteOrder(d)'
      BY <1>2, <1>4, <1>9, <2>1, <3>1 DEF DelStep, DeleteOrder, Created, References, Active
    <3> QED
      BY <1>3, <2>1, <2>4, <3>2
  <2> QED
    BY <1>9, <2>2, <2>3, <2>4 DEF CountReferences
<1>10. CASE \E x \in Documents : Cascade(d, x)
  <2>1. PICK x \in Documents : Cascade(d, x)
    BY <1>10
  <2> DEFINE rest == del[d].todo \ {x}
  <2>2. /\ del[d].pc = "cascade" /\ x \in del[d].todo
        /\ doc' = IF Active(x) THEN [doc EXCEPT ![x] = [@ EXCEPT !.state = "deleted"]] ELSE doc
        /\ art' = art \/ (Active(x) /\ art' = Transition(doc[x].link, "deleted"))
    <3>1. CASE Active(x)
      BY <2>1, <3>1 DEF Cascade
    <3>2. CASE ~Active(x)
      BY <2>1, <3>2 DEF Cascade
    <3> QED
      BY <3>1, <3>2
  <2>3. doc' = [y \in Documents |-> IF y \in {z \in {x} : Active(z)}
                                    THEN [doc[y] EXCEPT !.state = "deleted"] ELSE doc[y]]
    BY <1>2, <2>2, ArtTyped
  <2>4. ASSUME NEW a \in Artifacts
        PROVE  \/ art'[a] = art[a]
               \/ /\ \E z \in {y \in {x} : Active(y)} : doc[z].link = a
                  /\ art'[a] = [art[a] EXCEPT !.status = "deleted", !.tomb = TRUE, !.attempt = None]
    BY <1>2, <2>2, ArtTyped DEF Transition
  <2>5. Tame
    <3> DEFINE S == {z \in {x} : Active(z)}
    <3>1. S \in SUBSET Documents /\ \A z \in S : HasRow(z)
      BY DEF Active, HasRow
    <3>2. \A a \in Artifacts :
             \/ art'[a] = art[a]
             \/ /\ \E z \in S : doc[z].link = a
                /\ art'[a] = [art[a] EXCEPT !.status = "deleted", !.tomb = TRUE, !.attempt = None]
      BY <2>4
    <3>3. doc' = [y \in Documents |-> IF y \in S THEN [doc[y] EXCEPT !.state = "deleted"] ELSE doc[y]]
      BY <2>3
    <3> HIDE DEF S
    <3> QED
      BY <1>2, <3>1, <3>2, <3>3, RemovedTame
  <2>6. /\ del'[d].pc = IF rest = {} THEN "backend" ELSE "cascade"
        /\ del'[d].todo = rest /\ del'[d].art = art0 /\ del'[d].status = del[d].status
        /\ \A e \in Deletes \ {d} : del'[e] = del[e]
    <3>1. PICK c : del' = [del EXCEPT ![d] = [@ EXCEPT !.pc = IF rest = {} THEN "backend" ELSE "cascade",
                                                       !.todo = rest, !.cascaded = c]]
      BY <2>1 DEF Cascade
    <3>2. del'[d] = [del[d] EXCEPT !.pc = IF rest = {} THEN "backend" ELSE "cascade",
                                   !.todo = rest, !.cascaded = c]
      BY <1>3, <3>1
    <3> QED
      BY <1>3, <3>1, <3>2 DEF DelType
  <2>7. doc'[x].state # "active"
    BY <1>2, <2>2, DocTyped, ArtTyped DEF Active, DocType
  <2>8. References(art0)' \subseteq rest
    <3>1. References(art0) \subseteq del[d].todo
      BY <1>4, <1>10, <2>2 DEF DelStep, DeleteOrder
    <3>2. References(art0)' \subseteq References(art0)
      BY <2>5, TameReferences, <2>6 DEF References, Active, Tame, TameRow
    <3> QED
      BY <2>7, <3>1, <3>2, <2>6 DEF References, Active
  <2>9. Created(art0)' /\ del[d].status # "absent" /\ art0 \in Artifacts
    BY <1>4, <1>10, <2>2, <2>5, <2>6, TameCreated DEF DelStep, DeleteOrder
  <2>10. DeleteOrder(d)'
    BY <2>6, <2>8, <2>9 DEF DeleteOrder
  <2> QED
    BY <2>5, <2>6, <2>10
<1>11. CASE ReleaseClaim(d)
  <2>1. del[d].status # "absent"
    BY <1>4, <1>11 DEF DelStep, DeleteOrder
  <2>2. CASE UNCHANGED <<doc, art>>
    BY <1>2, <1>4, <1>6, <1>11, <2>2, UnchangedTame DEF DelStep, ReleaseClaim
  <2>3. CASE /\ doc' = doc /\ art[art0].status = "deleting"
             /\ art' = [art EXCEPT ![art0] = [@ EXCEPT !.status = del[d].status, !.attempt = None]]
    <3>1. /\ art'[art0].uri = art[art0].uri /\ art'[art0].status = del[d].status
          /\ art'[art0].tomb = art[art0].tomb
          /\ \A a \in Artifacts \ {art0} : art'[a] = art[a]
      BY <1>2, <1>4, <1>11, <2>3, ArtTyped DEF ArtType, DelStep
    <3>2. \A a \in Artifacts : TameArt(a)
      BY <2>1, <2>3, <3>1 DEF TameArt
    <3>3. \A x \in Documents : SyncRow(x)
      BY <1>11, <1>15, <2>3, <3>1 DEF DelStep
    <3>4. Tame
      BY <1>2, <2>3, <3>2, <3>3 DEF Tame, TameRow
    <3> QED
      BY <1>4, <1>6, <1>11, <3>4 DEF DelStep, ReleaseClaim
  <2> QED
    BY <1>11, <2>2, <2>3 DEF ReleaseClaim, DeleteCas
<1>12. CASE DeleteObject(d)
  <2>1. Tame
    BY <1>2, <1>12, UnchangedTame DEF DeleteObject
  <2>2. PICK pc \in {"finalizeSuccess", "finalizeFailure"} : DelGoto(d, pc)
    BY <1>12 DEF DeleteObject
  <2> QED
    BY <1>4, <1>6, <1>12, <2>1, <2>2 DEF DelStep, DeleteObject
<1>13. CASE FinalizeDelete(d)
  <2>1. PICK pc \in {"deleted", "delete_failed", "error"} : DelGoto(d, pc)
    BY <1>13 DEF FinalizeDelete
  <2>2. CASE UNCHANGED <<doc, art>>
    BY <1>2, <1>4, <1>6, <1>13, <2>1, <2>2, UnchangedTame DEF DelStep
  <2>3. CASE ~UNCHANGED <<doc, art>>
    <3> DEFINE ok == del[d].pc = "finalizeSuccess"
               raw == IF ok THEN "blob_deleted" ELSE "raw_storage_failed"
    <3>1. /\ DeleteCas(d) /\ CascadedRemain(d)
          /\ art' = IF ok THEN Transition(art0, "deleted")
                    ELSE [art EXCEPT ![art0] = [@ EXCEPT !.status = "delete_failed", !.attempt = None]]
          /\ doc' = [x \in Documents |-> IF x \in del[d].cascaded
                                         THEN [doc[x] EXCEPT !.status = raw, !.hint = ok /\ doc[x].hint]
                                         ELSE doc[x]]
      BY <1>13, <2>3 DEF FinalizeDelete
    <3>2. ASSUME NEW x \in Documents
          PROVE  /\ TameRow(x) /\ doc'[x].state = doc[x].state /\ doc'[x].link = doc[x].link
                 /\ doc'[x].status \in Linked => doc'[x].status = doc[x].status
      <4>1. CASE x \in del[d].cascaded
        <5>1. doc[x] \in DocType
          BY <1>2, DocTyped
        <5>2. doc'[x] = [doc[x] EXCEPT !.status = raw, !.hint = ok /\ doc[x].hint]
          BY <3>1, <4>1
        <5>3. /\ doc'[x].state = doc[x].state /\ doc'[x].link = doc[x].link
              /\ doc'[x].uri = doc[x].uri /\ doc'[x].status = raw
          BY <5>1, <5>2 DEF DocType
        <5>4. raw \notin Linked
          BY DEF Linked, Settled, Occupied
        <5> QED
          BY <5>3, <5>4 DEF TameRow
      <4>2. CASE x \notin del[d].cascaded
        BY <3>1, <4>2 DEF TameRow
      <4> QED
        BY <4>1, <4>2
    <3>3. References(art0) = {}
      BY <1>4, <1>13 DEF DelStep, FinalizeDelete, DeleteOrder
    <3>4. art[art0].status = "deleting"
      BY <3>1 DEF DeleteCas
    <3>5. /\ art'[art0].uri = art[art0].uri /\ art'[art0].status \notin {"absent"}
          /\ art'[art0].tomb => art[art0].tomb \/ ok
          /\ \A a \in Artifacts \ {art0} : art'[a] = art[a]
      <4>1. CASE ok
        BY <1>2, <1>4, <1>13, <3>1, <4>1, ArtTyped DEF ArtType, Transition, DelStep
      <4>2. CASE ~ok
        BY <1>2, <1>4, <1>13, <3>1, <4>2, ArtTyped DEF ArtType, DelStep
      <4> QED
        BY <4>1, <4>2
    <3>6. \A x \in Documents : doc[x].link = art0 => doc'[x].state # "active"
      BY <3>2, <3>3 DEF References, Active
    <3>7. \A a \in Artifacts : TameArt(a)
      BY <3>4, <3>5, <3>6 DEF TameArt
    <3>8. \A x \in Documents : SyncRow(x)
      BY <1>13, <1>15, <3>2, <3>5 DEF DelStep
    <3>9. Tame
      BY <1>2, <3>2, <3>7, <3>8 DEF Tame
    <3> QED
      BY <1>4, <1>6, <1>13, <2>1, <3>9 DEF DelStep
  <2> QED
    BY <2>2, <2>3
<1> QED
  BY <1>1, <1>7, <1>8, <1>9, <1>10, <1>11, <1>12, <1>13 DEF DelStep

-----------------------------------------------------------------------------
\* Reconcilers write rows in place.
LEMMA ReconcileTame ==
    ASSUME TypeInv, RowLinks, UNCHANGED up, NEW r \in Reconcilers, RecStep(r) \/ CrashReconciler(r)
    PROVE  Tame
<1>1. \A u \in Uploads : TameUp(u)
  BY SameUpTame
<1>2. ASSUME NEW batch \in SUBSET Documents, ClaimBatch(r, batch)
      PROVE  Tame
  <2>1. art' = art
    BY <1>2 DEF ClaimBatch
  <2>2. ASSUME NEW x \in Documents PROVE TameRow(x) /\ SyncRow(x)
    <3> DEFINE claimed == [doc[x] EXCEPT !.claim = r]
    <3>1. /\ claimed.link = doc[x].link /\ claimed.state = doc[x].state
          /\ claimed.uri = doc[x].uri /\ claimed.status = doc[x].status
      BY DocTyped DEF DocType
    <3>2. doc'[x] = doc[x] \/ doc'[x] = claimed
      BY <1>2 DEF ClaimBatch
    <3> HIDE DEF claimed
    <3>3. /\ doc'[x].link = doc[x].link /\ doc'[x].state = doc[x].state
          /\ doc'[x].uri = doc[x].uri /\ doc'[x].status = doc[x].status
      BY <3>1, <3>2
    <3> QED
      BY <2>1, <3>3 DEF TameRow, SyncRow
  <2> QED
    BY <1>1, <2>1, <2>2 DEF Tame, TameArt
<1>3. CASE RecWrite(r) /\ ~UNCHANGED <<doc, art>>
  <2> DEFINE x == rec[r].row
  <2>1. x \in Documents
    BY <1>3 DEF RecWrite, TypeInv, ReconcilersNamed
  <2>2. doc[x] \in DocType /\ doc[x].status = "blob_pending"
    BY <1>3, <2>1, DocTyped DEF RecWrite, RecHolds
  <2>3. /\ "blob_pending" \in RawStatuses \cap Linked
        /\ {"blob_pending", "blob_available", "blob_archival_failed"} \subseteq RawStatuses \ {"blob_deleted"}
    BY DEF RawStatuses, Linked, Settled, Occupied
  <2>4. CASE \E s \in {"blob_available", "blob_archival_failed"} :
                SetBoth(x, [doc[x] EXCEPT !.status = s, !.claim = None, !.attempts = 0, !.hint = FALSE])
    <3>1. PICK s \in {"blob_available", "blob_archival_failed"} :
                  SetBoth(x, [doc[x] EXCEPT !.status = s, !.claim = None, !.attempts = 0, !.hint = FALSE])
      BY <2>4
    <3> DEFINE row == [doc[x] EXCEPT !.status = s, !.claim = None, !.attempts = 0, !.hint = FALSE]
    <3>2. /\ row.link = doc[x].link /\ row.state = doc[x].state /\ row.uri = doc[x].uri
          /\ row.status = s
      BY <2>2 DEF DocType
    <3>3. SetBoth(x, row)
      BY <3>1
    <3> HIDE DEF x, row
    <3>4. /\ row.status \in RawStatuses \ {"blob_deleted"} /\ doc[x].status \in Linked
      BY <2>2, <2>3, <3>2
    <3> QED
      BY <1>1, <2>1, <3>2, <3>3, <3>4, RowStepTame
  <2>5. CASE doc' = [doc EXCEPT ![x] = CountedAttempt(doc[x])] /\ art' = art
    <3> DEFINE row == CountedAttempt(doc[x])
    <3>1. /\ row.link = doc[x].link /\ row.state = doc[x].state /\ row.uri = doc[x].uri
          /\ row.status = "blob_pending"
      BY <2>2 DEF DocType, CountedAttempt
    <3> HIDE DEF x, row
    <3> QED
      BY <1>1, <2>1, <2>2, <2>3, <2>5, <3>1, RowStepTame DEF row
  <2> QED
    BY <1>3, <2>4, <2>5 DEF RecWrite
<1>4. CASE UNCHANGED <<doc, art>>
  BY <1>1, <1>4, UnchangedTame
<1>5. CASE (\E k \in Keys : Probe(r, k)) \/ CrashReconciler(r)
  BY <1>4, <1>5 DEF Probe, CrashReconciler, rows
<1> QED
  BY <1>2, <1>3, <1>4, <1>5 DEF RecStep

LEMMA InitLinks == Init => LinkInv
<1> SUFFICES ASSUME Init PROVE LinkInv
  OBVIOUS
<1>1. \A x \in Documents : doc[x] = NoDoc
  BY DEF Init, RowsInit
<1>2. \A a \in Artifacts : art[a] = NoArt
  BY DEF Init, RowsInit
<1>3. /\ \A w \in Removals : rm[w] = NoRemoval
      /\ \A d \in Deletes : del[d] = NoDelete
  BY DEF Init, RmInit, DelInit
<1>4. \A x \in Documents : LinkOwn(x) /\ Filled(x) /\ doc[x].link = None
  BY <1>1 DEF LinkOwn, Filled, NoDoc, Linked, Settled, Occupied
<1>5. ArtifactsNamed /\ \A u \in Uploads : Owned(u)
  BY <1>2, NamesApart DEF ArtifactsNamed, Owned, NoArt
<1>6. \A w \in Removals : RemovalOrder(w)
  BY <1>3 DEF RemovalOrder, NoRemoval, RmSteps
<1>7. \A d \in Deletes : DeleteOrder(d)
  BY <1>3 DEF DeleteOrder, NoDelete
<1>8. \A x \in Documents : Followed(x)
  BY <1>1 DEF Followed, NoDoc, Active
<1> QED
  BY <1>4, <1>5, <1>6, <1>7, <1>8, InitTyped DEF LinkInv, LinkedArtifactLives

LEMMA NextLinks ==
    ASSUME LinkInv, [Next]_vars
    PROVE  LinkInv'
<1>1. TypeInv /\ TypeInv' /\ RowLinks
  BY NextTyped DEF LinkInv, RowLinks
<1>2. CASE RegisterStep
  BY <1>1, <1>2, RegisterLinks
<1>3. CASE UploadStep
  <2>1. UNCHANGED <<rm, del, setting>>
    BY <1>3 DEF UploadStep
  <2>2. PICK u \in Uploads : \/ UpStep(u) \/ CrashUpload(u)
                             \/ \E x \in Documents, h \in Hashes : BeginUpload(u, x, h)
    BY <1>3 DEF UploadStep
  <2>3. Tame \/ SwapStep(u)
    BY <1>1, <2>2, UploadTame, AlphaLoadTame DEF BeginUpload
  <2>4. CASE Tame
    BY <1>1, <2>1, <2>4, TameRemovals, TameStep DEF LinkInv
  <2>5. CASE SwapStep(u)
    BY <1>1, <2>1, <2>5, SwapLinks
  <2> QED
    BY <2>3, <2>4, <2>5
<1>4. CASE RemovalStep
  BY <1>1, <1>4, RemovalLinks
<1>5. CASE DeleteStep
  BY <1>1, <1>5, DeleteLinks
<1>6. CASE ReconcileStep
  <2>1. UNCHANGED <<up, rm, del, setting>> /\ Tame
    BY <1>1, <1>6, ReconcileTame DEF ReconcileStep
  <2> QED
    BY <1>1, <2>1, TameRemovals, TameStep DEF LinkInv
<1>7. CASE UNCHANGED vars
  <2>1. UNCHANGED <<up, rm, del, setting>> /\ Tame
    BY <1>7, SameUpTame, UnchangedTame DEF vars
  <2> QED
    BY <1>1, <2>1, TameRemovals, TameStep DEF LinkInv
<1> QED
  BY <1>2, <1>3, <1>4, <1>5, <1>6, <1>7 DEF Next

LEMMA LinksAlways == Spec => []LinkInv
BY InitLinks, NextLinks, PTL DEF Spec

\* No active document links a tombstone, whichever uploads swap its artifact, deletes
\* count its references and removals or wipes take its neighbours at the same time.
THEOREM LinkedArtifactAlive == Spec => []LinkedArtifactLives
<1>1. LinkInv => LinkedArtifactLives
  BY DEF LinkInv
<1> QED
  BY <1>1, LinksAlways, PTL

LEMMA OwnedIsLinked == LinkInv => NoStrandedArtifact
<1> SUFFICES ASSUME LinkInv, NEW u \in Uploads, art[u].status \notin {"absent", "deleted"}
             PROVE  \/ \E x \in Documents : doc[x].link = u
                    \/ /\ doc[art[u].uri[1]].state = "wiped"
                       /\ \E w \in Removals : rm[w].kind = "user" /\ rm[w].pc # "ok"
  BY DEF NoStrandedArtifact
<1>1. u \in Artifacts /\ Owned(u)
  BY NamesApart DEF LinkInv
<1>2. art[u].uri = Key(u)
  BY <1>1 DEF LinkInv, ArtifactsNamed
<1> QED
  BY <1>1, <1>2 DEF Owned, Key

\* No managed artifact is left alive that its document does not link, but by a wipe
\* that may be repeated: the swap drops the old one in the transaction that links the new.
THEOREM NothingStranded == Spec => []NoStrandedArtifact
BY OwnedIsLinked, LinksAlways, PTL

\* While nobody deletes its artifact, an active document and the artifact it links have
\* the same status at every await of every upload, removal, wipe and reconciler: the
\* paired transactions keep them together. With UriMatchesHash and NoStrandedArtifact
\* these are the rows of a document, its artifacts and its hash.
THEOREM RowsAlwaysAgree ==
    ASSUME Deletes = {}
    PROVE  Spec => []RowsAgree
<1>1. LinkInv => ArtifactFollows
  <2> SUFFICES ASSUME LinkInv, NEW x \in Documents, Active(x), doc[x].status \in Linked
               PROVE  art[doc[x].link].status = ArtifactStatus(doc[x].status)
    BY DEF ArtifactFollows, Linked
  <2> QED
    BY DEF LinkInv, Followed
<1>2. SlotInv /\ LinkInv => RowsAgree
  BY <1>1, OwnedIsLinked DEF SlotInv, RowsAgree
<1> QED
  BY <1>2, SlotAlways, LinksAlways, PTL

\* With deletes, an artifact may differ from its active document only after a delete
\* has been asked for at it.
ArtifactFollowsOrDeleted == \A x \in Documents : Followed(x)

THEOREM ArtifactsFollow == Spec => []ArtifactFollowsOrDeleted
<1>1. LinkInv => ArtifactFollowsOrDeleted
  BY DEF LinkInv, ArtifactFollowsOrDeleted
<1> QED
  BY <1>1, LinksAlways, PTL

-----------------------------------------------------------------------------
(***************************************************************************)
(* Attempts.  A reconciler that still holds the claim of a row knows the    *)
(* attempts recorded on it, so the row is given up at the last one.         *)
(***************************************************************************)

EarnedInv ==
    /\ \A x \in Documents : doc[x].attempts < MaxAttempts
    /\ \A r \in Reconcilers, x \in Documents :
          x \in Working(r) /\ doc[x].claim = r => rec[r].attempts[x] = doc[x].attempts
    /\ \A r \in Reconcilers : rec[r].pc \in {"promote", "archival", "stillPending"} =>
          /\ rec[r].row \in Working(r)
          /\ rec[r].pc = "archival" /\ ~Fault("onramp") => Exhausted(r, rec[r].row)
          /\ rec[r].pc = "stillPending" => ~Exhausted(r, rec[r].row)

\* What every handler but a reconciler does to a row: no attempt is counted, no
\* reconciler gets the claim, and nothing is given up.
Uncounted(x) ==
    /\ \/ /\ doc'[x].attempts = doc[x].attempts
          /\ doc'[x].claim \in Uploads \cup {None, doc[x].claim}
       \/ doc'[x].attempts = 0 /\ doc'[x].claim = None
    /\ doc'[x].status = "blob_archival_failed" => doc[x].status = "blob_archival_failed"

Earned(x) ==
    ~Fault("onramp") =>
      (doc[x].status = "blob_pending" /\ doc'[x].status = "blob_archival_failed" =>
         doc[x].attempts + 1 = MaxAttempts)

LEMMA EarnedAside ==
    ASSUME TypeInv, EarnedInv, \A x \in Documents : Uncounted(x), UNCHANGED <<rec, setting>>
    PROVE  EarnedInv' /\ \A x \in Documents : Earned(x)
<1>1. \A x \in Documents : Earned(x) /\ doc'[x].attempts < MaxAttempts
  BY RawAssumption DEF Uncounted, Earned, EarnedInv
<1>2. ASSUME NEW r \in Reconcilers, NEW x \in Documents, x \in Working(r)', doc'[x].claim = r
      PROVE  rec'[r].attempts[x] = doc'[x].attempts
  <2>1. r # None /\ r \notin Uploads /\ x \in Working(r)
    BY <1>2, NamesAssumption DEF Working
  <2>2. doc[x].claim = r /\ doc'[x].attempts = doc[x].attempts
    BY <1>2, <2>1 DEF Uncounted
  <2> QED
    BY <2>1, <2>2 DEF EarnedInv
<1>3. \A r, x : (Exhausted(r, x)' <=> Exhausted(r, x)) /\ Working(r)' = Working(r)
  BY DEF Exhausted, Working
<1>4. Fault("onramp")' <=> Fault("onramp")
  BY DEF Fault
<1> QED
  BY <1>1, <1>2, <1>3, <1>4 DEF EarnedInv

LEMMA RowUncounted ==
    ASSUME RowsTypeOK, NEW x \in Documents, NEW row, doc' = doc \/ doc' = [doc EXCEPT ![x] = row],
           \/ /\ row.attempts = doc[x].attempts
              /\ row.claim \in Uploads \cup {None, doc[x].claim}
           \/ row.attempts = 0 /\ row.claim = None,
           row.status # "blob_archival_failed" \/ row.status = doc[x].status
    PROVE  \A y \in Documents : Uncounted(y)
BY DEF RowsTypeOK, Uncounted

\* The rows that the handlers write.
LEMMA WrittenUncounted ==
    ASSUME NEW row \in DocType, NEW s, NEW b
    PROVE  /\ [row EXCEPT !.status = s].attempts = row.attempts
           /\ [row EXCEPT !.status = s].claim = row.claim
           /\ [row EXCEPT !.status = s].status = s
           /\ [row EXCEPT !.status = s, !.hint = b].attempts = row.attempts
           /\ [row EXCEPT !.status = s, !.hint = b].claim = row.claim
           /\ [row EXCEPT !.status = s, !.hint = b].status = s
           /\ [row EXCEPT !.status = s, !.claim = None, !.hint = b].attempts = row.attempts
           /\ [row EXCEPT !.status = s, !.claim = None, !.hint = b].claim = None
           /\ [row EXCEPT !.status = s, !.claim = None, !.hint = b].status = s
<1> DEFINE one == [row EXCEPT !.status = s]
           two == [row EXCEPT !.status = s, !.hint = b]
           three == [row EXCEPT !.status = s, !.claim = None, !.hint = b]
<1>1. one.attempts = row.attempts /\ one.claim = row.claim /\ one.status = s
  BY DEF DocType
<1>2. two.attempts = row.attempts /\ two.claim = row.claim /\ two.status = s
  BY DEF DocType
<1>3. three.attempts = row.attempts /\ three.claim = None /\ three.status = s
  BY DEF DocType
<1> QED
  BY <1>1, <1>2, <1>3

LEMMA SameRowsUncounted ==
    ASSUME UNCHANGED doc
    PROVE  \A x \in Documents : Uncounted(x)
BY DEF Uncounted

LEMMA RegisterUncounted ==
    ASSUME TypeInv, RegisterStep
    PROVE  \A x \in Documents : Uncounted(x)
<1>1. PICK x \in Documents : Register(x)
  BY DEF RegisterStep
<1>2. PICK h \in setting.hashes \cup {None} :
          \/ doc' = [doc EXCEPT ![x] = [NoDoc EXCEPT !.state = "active", !.hash = h, !.link = x]]
          \/ doc' = [doc EXCEPT ![x] = [NoDoc EXCEPT !.state = "active", !.hash = h]]
  BY <1>1 DEF Register
<1>3. PICK row : /\ doc' = [doc EXCEPT ![x] = row] /\ row.attempts = 0 /\ row.claim = None
                 /\ row.status # "blob_archival_failed"
  <2>1. LET row == [NoDoc EXCEPT !.state = "active", !.hash = h, !.link = x]
        IN  row.attempts = 0 /\ row.claim = None /\ row.status # "blob_archival_failed"
    BY DEF NoDoc
  <2>2. LET row == [NoDoc EXCEPT !.state = "active", !.hash = h]
        IN  row.attempts = 0 /\ row.claim = None /\ row.status # "blob_archival_failed"
    BY DEF NoDoc
  <2> QED
    BY <1>2, <2>1, <2>2
<1> QED
  BY <1>3, RowUncounted DEF TypeInv, TypeOK

LEMMA UploadUncounted ==
    ASSUME TypeInv, UploadStep
    PROVE  \A x \in Documents : Uncounted(x)
<1>1. PICK u \in Uploads : \/ UpStep(u) \/ CrashUpload(u)
                           \/ \E x \in Documents, h \in Hashes : BeginUpload(u, x, h)
  BY DEF UploadStep
<1> DEFINE x == up[u].doc
<1>2. CASE \E y \in Documents, h \in Hashes : BeginUpload(u, y, h)
  BY <1>2, SameRowsUncounted DEF BeginUpload, AlphaLoad
<1>3. CASE Put(u) \/ Compensate(u) \/ CrashUpload(u)
  BY <1>3, SameRowsUncounted DEF Put, Compensate, CrashUpload
<1>4. ASSUME up[u].pc # "none" PROVE x \in Documents /\ doc[x] \in DocType /\ RowsTypeOK
  BY <1>4 DEF TypeInv, TypeOK, UploadsNamed, RowsTypeOK
<1>5. CASE AlphaClaim(u)
  <2>1. doc[x] \in DocType /\ x \in Documents /\ RowsTypeOK
    BY <1>4, <1>5 DEF AlphaClaim
  <2> DEFINE taken == [doc[x] EXCEPT !.status = "blob_uploading", !.claim = u, !.hash = up[u].hash]
             freed == [taken EXCEPT !.uri = None, !.storedStatus = None]
  <2>2. /\ taken.attempts = doc[x].attempts /\ taken.claim = u /\ taken.status = "blob_uploading"
    BY <2>1 DEF DocType
  <2>3. /\ freed.attempts = doc[x].attempts /\ freed.claim = u /\ freed.status = "blob_uploading"
    BY <2>1 DEF DocType
  <2>4. Claimed(u) \in {taken, freed}
    BY DEF Claimed
  <2> HIDE DEF taken, freed
  <2>5. doc' = doc \/ doc' = [doc EXCEPT ![x] = Claimed(u)]
    BY <1>5 DEF AlphaClaim
  <2> QED
    BY <2>1, <2>2, <2>3, <2>4, <2>5, RowUncounted
<1>6. CASE FailClaimed(u) \/ MarkBeta2Failure(u)
  <2>1. doc[x] \in DocType /\ x \in Documents /\ RowsTypeOK
    BY <1>4, <1>6 DEF FailClaimed, MarkBeta2Failure
  <2>2. PICK b : doc' = doc \/ doc' = [doc EXCEPT ![x] = Failed(x, b)]
    BY <1>6 DEF FailClaimed, MarkBeta2Failure, SetBoth
  <2>3. /\ Failed(x, b).attempts = doc[x].attempts /\ Failed(x, b).claim = None
        /\ Failed(x, b).status = "raw_storage_failed"
    BY <2>1, WrittenUncounted DEF Failed
  <2> QED
    BY <2>1, <2>2, <2>3, RowUncounted
<1>7. CASE Beta2(u)
  <2>1. doc[x] \in DocType /\ x \in Documents /\ RowsTypeOK
    BY <1>4, <1>7 DEF Beta2
  <2> DEFINE row == [doc[x] EXCEPT !.mode = "managed_blob", !.uri = up[u].hash,
                                   !.storedStatus = up[u].storedStatus, !.link = u]
  <2>2. row.attempts = doc[x].attempts /\ row.claim = doc[x].claim /\ row.status = doc[x].status
    BY <2>1 DEF DocType
  <2>3. doc' = doc \/ doc' = [doc EXCEPT ![x] = row]
    BY <1>7 DEF Beta2
  <2> HIDE DEF row
  <2> QED
    BY <2>1, <2>2, <2>3, RowUncounted
<1>8. CASE Gamma(u)
  <2>1. doc[x] \in DocType /\ x \in Documents /\ RowsTypeOK
    BY <1>4, <1>8 DEF Gamma
  <2> DEFINE row == [doc[x] EXCEPT !.status = FinalStatus(up[u].storedStatus), !.claim = None,
                                   !.hint = FALSE]
  <2>2. row.attempts = doc[x].attempts /\ row.claim = None /\ row.status = FinalStatus(up[u].storedStatus)
    BY <2>1, WrittenUncounted
  <2>3. FinalStatus(up[u].storedStatus) # "blob_archival_failed"
    BY DEF FinalStatus
  <2>4. doc' = doc \/ doc' = [doc EXCEPT ![x] = row]
    BY <1>8 DEF Gamma, SetBoth
  <2> HIDE DEF row
  <2> QED
    BY <2>1, <2>2, <2>3, <2>4, RowUncounted
<1> QED
  BY <1>1, <1>2, <1>3, <1>5, <1>6, <1>7, <1>8 DEF UpStep

LEMMA RemovalUncounted ==
    ASSUME TypeInv, RemovalStep
    PROVE  \A x \in Documents : Uncounted(x)
<1>1. PICK w \in Removals : \/ RmStep(w) \/ CrashRemoval(w)
                            \/ \E x \in Registered : BeginRemoval(w, "document", {x})
                            \/ BeginRemoval(w, "source", Registered)
                            \/ BeginWipe(w)
  BY DEF RemovalStep
<1>2. RowsTypeOK /\ \A x \in Documents : doc[x] \in DocType
  BY DEF TypeInv, TypeOK, RowsTypeOK
<1>3. CASE \/ \E x \in Registered : BeginRemoval(w, "document", {x})
           \/ BeginRemoval(w, "source", Registered) \/ BeginWipe(w)
           \/ LookupOrphans(w) \/ DropArtifacts(w) \/ CrashRemoval(w)
           \/ \E b \in Keys : CleanupBlob(w, b)
  BY <1>3, SameRowsUncounted DEF BeginRemoval, BeginWipe, ListBlobs, ListForWipe, LookupOrphans,
     DropArtifacts, CrashRemoval, CleanupBlob, rows
<1>4. CASE SoftDelete(w)
  <2>1. \A x \in Documents : doc'[x] = doc[x] \/ doc'[x] = [doc[x] EXCEPT !.state = "deleted"]
    BY <1>2, <1>4 DEF SoftDelete, RowsTypeOK
  <2>2. ASSUME NEW x \in Documents
        PROVE  /\ doc'[x].attempts = doc[x].attempts
               /\ doc'[x].claim = doc[x].claim
               /\ doc'[x].status = doc[x].status
    BY <1>2, <2>1 DEF DocType
  <2> QED
    BY <2>2 DEF Uncounted
<1>5. CASE DropDocuments(w)
  <2>1. \A x \in Documents : doc'[x] = doc[x] \/ doc'[x] = [NoDoc EXCEPT !.state = "wiped"]
    BY <1>2, <1>5 DEF DropDocuments, RowsTypeOK
  <2> QED
    BY <2>1 DEF Uncounted, NoDoc
<1>6. ASSUME NEW b \in Keys, MarkCleaned(w, b) \/ MarkFailed(w, b)
      PROVE  \A x \in Documents : Uncounted(x)
  <2>1. b[1] \in Documents /\ doc[b[1]] \in DocType
    BY <1>2 DEF Keys
  <2>2. PICK hint :
          \/ doc' = doc
          \/ doc' = [doc EXCEPT ![b[1]] = [doc[b[1]] EXCEPT !.status = "blob_deleted"]]
          \/ doc' = [doc EXCEPT ![b[1]] = [doc[b[1]] EXCEPT !.status = "raw_storage_failed",
                                                            !.hint = hint]]
    BY <1>6 DEF MarkCleaned, MarkFailed, SetBoth
  <2> DEFINE cleaned == [doc[b[1]] EXCEPT !.status = "blob_deleted"]
             failed == [doc[b[1]] EXCEPT !.status = "raw_storage_failed", !.hint = hint]
  <2>3. /\ cleaned.attempts = doc[b[1]].attempts /\ cleaned.claim = doc[b[1]].claim
        /\ cleaned.status = "blob_deleted"
        /\ failed.attempts = doc[b[1]].attempts /\ failed.claim = doc[b[1]].claim
        /\ failed.status = "raw_storage_failed"
    BY <2>1, WrittenUncounted
  <2>4. \/ doc' = doc \/ doc' = [doc EXCEPT ![b[1]] = cleaned]
        \/ doc' = [doc EXCEPT ![b[1]] = failed]
    BY <2>2
  <2> HIDE DEF cleaned, failed
  <2> QED
    BY <1>2, <2>1, <2>3, <2>4, RowUncounted
<1> QED
  BY <1>1, <1>3, <1>4, <1>5, <1>6 DEF RmStep

LEMMA DeleteUncounted ==
    ASSUME TypeInv, DeleteStep
    PROVE  \A x \in Documents : Uncounted(x)
<1>1. RowsTypeOK /\ \A x \in Documents : doc[x] \in DocType
  BY DEF TypeInv, TypeOK, RowsTypeOK
<1>2. PICK d \in Deletes : DelStep(d) \/ \E a \in Artifacts, policy \in BOOLEAN :
                                            ReadInitial(d, a, policy)
  BY DEF DeleteStep
<1>3. CASE \E x \in Documents : Cascade(d, x)
  <2>1. PICK y \in Documents : Cascade(d, y)
    BY <1>3
  <2>2. doc' = doc \/ doc' = [doc EXCEPT ![y] = [doc[y] EXCEPT !.state = "deleted"]]
    BY <2>1 DEF Cascade
  <2>3. LET row == [doc[y] EXCEPT !.state = "deleted"]
        IN  /\ row.attempts = doc[y].attempts /\ row.claim = doc[y].claim
            /\ row.status = doc[y].status
    BY <1>1 DEF DocType
  <2> QED
    BY <1>1, <2>2, <2>3, RowUncounted
<1>4. CASE FinalizeDelete(d)
  <2>1. ASSUME NEW x \in Documents
        PROVE  \E b : \/ doc'[x] = doc[x]
                      \/ doc'[x] = [doc[x] EXCEPT !.status = "blob_deleted", !.hint = b]
                      \/ doc'[x] = [doc[x] EXCEPT !.status = "raw_storage_failed", !.hint = b]
    BY <1>1, <1>4 DEF FinalizeDelete
  <2>2. ASSUME NEW x \in Documents PROVE Uncounted(x)
    <3>1. PICK b : \/ doc'[x] = doc[x]
                   \/ doc'[x] = [doc[x] EXCEPT !.status = "blob_deleted", !.hint = b]
                   \/ doc'[x] = [doc[x] EXCEPT !.status = "raw_storage_failed", !.hint = b]
      BY <2>1
    <3>2. doc[x] \in DocType
      BY <1>1
    <3> QED
      BY <3>1, <3>2 DEF Uncounted, DocType
  <2> QED
    BY <2>2
<1>5. CASE \/ ClaimDelete(d) \/ CountReferences(d) \/ ReleaseClaim(d) \/ DeleteObject(d)
           \/ \E a \in Artifacts, policy \in BOOLEAN : ReadInitial(d, a, policy)
  BY <1>5, SameRowsUncounted
     DEF ClaimDelete, CountReferences, ReleaseClaim, DeleteObject, ReadInitial, rows
<1> QED
  BY <1>2, <1>3, <1>4, <1>5 DEF DelStep

\* A reconciler reads the attempts of what it claims, and lets go of what it writes.
LEMMA ClaimBatchEarned ==
    ASSUME TypeInv, EarnedInv, NEW r \in Reconcilers, NEW batch \in SUBSET Documents,
           ClaimBatch(r, batch), UNCHANGED setting
    PROVE  EarnedInv' /\ \A x \in Documents : Earned(x)
<1>1. /\ \A x \in Documents : doc[x] \in DocType
      /\ rec \in [Reconcilers -> RecType] /\ rec[r] \in RecType
  BY DEF TypeInv, TypeOK, RowsTypeOK, RecTypeOK
<1>2. ASSUME NEW x \in Documents
      PROVE  /\ doc'[x].attempts = doc[x].attempts /\ doc'[x].status = doc[x].status
             /\ doc'[x].claim = doc[x].claim \/ (doc'[x].claim = r /\ x \in batch)
  BY <1>1 DEF ClaimBatch, DocType
<1>3. /\ rec'[r].pc = "probe" /\ rec'[r].todo = {<<x, doc[x].uri>> : x \in batch}
      /\ \A x \in batch : rec'[r].attempts[x] = doc[x].attempts
      /\ \A q \in Reconcilers \ {r} : rec'[q] = rec[q]
  BY <1>1 DEF ClaimBatch, RecType
<1>4. ASSUME NEW q \in Reconcilers, NEW x \in Documents, x \in Working(q)', doc'[x].claim = q
      PROVE  rec'[q].attempts[x] = doc'[x].attempts
  <2>1. CASE q = r
    BY <1>2, <1>3, <1>4, <2>1 DEF Working
  <2>2. CASE q # r
    BY <1>2, <1>3, <1>4, <2>2 DEF Working, EarnedInv
  <2> QED
    BY <2>1, <2>2
<1>5. ASSUME NEW q \in Reconcilers, rec'[q].pc \in {"promote", "archival", "stillPending"}
      PROVE  /\ rec'[q].row \in Working(q)'
             /\ rec'[q].pc = "archival" /\ ~Fault("onramp")' => Exhausted(q, rec[q].row)
             /\ rec'[q].pc = "stillPending" => ~Exhausted(q, rec[q].row)
             /\ rec'[q] = rec[q]
  BY <1>3, <1>5 DEF Working, EarnedInv, Fault
<1>6. \A q \in Reconcilers : rec'[q] = rec[q] => (Exhausted(q, rec[q].row)' <=> Exhausted(q, rec[q].row))
  BY DEF Exhausted
<1> QED
  BY <1>2, <1>4, <1>5, <1>6 DEF EarnedInv, Earned

LEMMA ProbeEarned ==
    ASSUME TypeInv, EarnedInv, NEW r \in Reconcilers, NEW k \in Keys, Probe(r, k),
           UNCHANGED setting
    PROVE  EarnedInv' /\ \A x \in Documents : Earned(x)
<1>1. rec \in [Reconcilers -> RecType] /\ rec[r] \in RecType /\ UNCHANGED doc /\ k \in rec[r].todo
  BY DEF TypeInv, TypeOK, RecTypeOK, Probe, rows
<1>2. PICK pc \in {"promote", "archival", "stillPending"} :
        /\ RecPlan(r, k[1], pc)
        /\ pc = "archival" => Fault("onramp") \/ Exhausted(r, k[1])
        /\ pc = "stillPending" => ~Exhausted(r, k[1])
  BY DEF Probe
<1>3. /\ rec'[r].pc = pc /\ rec'[r].row = k[1] /\ rec'[r].todo = rec[r].todo
      /\ rec'[r].attempts = rec[r].attempts
      /\ \A q \in Reconcilers \ {r} : rec'[q] = rec[q]
  BY <1>1, <1>2 DEF RecPlan, RecType
<1>4. \A q \in Reconcilers : Working(q)' = Working(q) /\ rec'[q].attempts = rec[q].attempts
  BY <1>3 DEF Working
<1>5. \A q \in Reconcilers : \A x : Exhausted(q, x)' <=> Exhausted(q, x)
  BY <1>4 DEF Exhausted
<1>6. k[1] \in Working(r)
  BY <1>1 DEF Working
<1>7. ASSUME NEW q \in Reconcilers, rec'[q].pc \in {"promote", "archival", "stillPending"}
      PROVE  /\ rec'[q].row \in Working(q)
             /\ rec'[q].pc = "archival" /\ ~Fault("onramp")' => Exhausted(q, rec'[q].row)
             /\ rec'[q].pc = "stillPending" => ~Exhausted(q, rec'[q].row)
  <2>1. CASE q = r
    BY <1>2, <1>3, <1>6, <2>1 DEF Fault
  <2>2. CASE q # r
    BY <1>3, <1>7, <2>2 DEF EarnedInv, Fault
  <2> QED
    BY <2>1, <2>2
<1>8. \A q \in Reconcilers : Exhausted(q, rec[q].row)' <=> Exhausted(q, rec'[q].row)
  BY <1>4 DEF Exhausted
<1> QED
  BY <1>1, <1>4, <1>7, <1>8 DEF EarnedInv, Earned

LEMMA WriteEarned ==
    ASSUME TypeInv, EarnedInv, NEW r \in Reconcilers, RecWrite(r), UNCHANGED setting
    PROVE  EarnedInv' /\ \A x \in Documents : Earned(x)
<1> DEFINE x == rec[r].row
<1>1. /\ doc \in [Documents -> DocType] /\ rec \in [Reconcilers -> RecType] /\ rec[r] \in RecType
      /\ x \in Documents /\ doc[x] \in DocType
      /\ rec[r].pc \in {"promote", "archival", "stillPending"}
  BY DEF TypeInv, TypeOK, RowsTypeOK, RecTypeOK, RecWrite, ReconcilersNamed
<1>2. /\ x \in Working(r)
      /\ rec[r].pc = "archival" /\ ~Fault("onramp") => Exhausted(r, x)
      /\ rec[r].pc = "stillPending" => ~Exhausted(r, x)
      /\ \A y \in Documents : doc[y].attempts < MaxAttempts
  BY <1>1 DEF EarnedInv
<1>3. /\ \A q \in Reconcilers \ {r} : rec'[q] = rec[q]
      /\ rec'[r].pc \notin {"promote", "archival", "stillPending"}
      /\ \A y \in Working(r)' : y \in Working(r) /\ rec'[r].attempts[y] = rec[r].attempts[y]
  <2>1. CASE rec' = [rec EXCEPT ![r] = RecIdle]
    BY <1>1, <2>1 DEF RecIdle, Working
  <2>2. CASE NextRow(r, x)
    <3> DEFINE rest == {k \in rec[r].todo : k[1] # x}
    <3>1. CASE rest = {}
      BY <2>1, <2>2, <3>1 DEF NextRow
    <3>2. CASE rest # {}
      <4>1. rec' = [rec EXCEPT ![r] = [@ EXCEPT !.pc = "probe", !.row = None, !.todo = rest]]
        BY <2>2, <3>2 DEF NextRow
      <4>2. rec'[r].pc = "probe" /\ rec'[r].todo = rest /\ rec'[r].attempts = rec[r].attempts
        BY <1>1, <4>1 DEF RecType
      <4> QED
        BY <1>1, <4>1, <4>2 DEF Working
    <3> QED
      BY <3>1, <3>2
  <2> QED
    BY <2>1, <2>2 DEF RecWrite
<1>4. CASE doc' = doc
  <2>1. ASSUME NEW q \in Reconcilers, NEW y \in Documents, y \in Working(q)', doc'[y].claim = q
        PROVE  rec'[q].attempts[y] = doc'[y].attempts
    BY <1>3, <1>4, <2>1 DEF EarnedInv, Working
  <2>2. \A q \in Reconcilers \ {r} : Working(q)' = Working(q)
                                     /\ (Exhausted(q, rec[q].row)' <=> Exhausted(q, rec[q].row))
    BY <1>3 DEF Working, Exhausted
  <2> QED
    BY <1>3, <1>4, <2>1, <2>2 DEF EarnedInv, Earned, Fault
<1>5. CASE doc' # doc
  <2>1. RecHolds(r, x)
    BY <1>5 DEF RecWrite
  <2>2. rec[r].attempts[x] = doc[x].attempts /\ doc[x].attempts \in Nat
    BY <1>1, <1>2, <2>1 DEF RecHolds, EarnedInv, DocType
  <2>3. \A y \in Documents \ {x} : doc'[y] = doc[y]
    BY <1>1, <1>5 DEF RecWrite, SetBoth
  <2>4. /\ doc'[x].claim = None /\ doc'[x].attempts < MaxAttempts
        /\ rec[r].pc # "archival" => doc'[x].status # "blob_archival_failed"
    <3>1. CASE rec[r].pc = "stillPending"
      <4>1. doc'[x] = CountedAttempt(doc[x])
        BY <1>1, <1>5, <3>1 DEF RecWrite
      <4>2. /\ CountedAttempt(doc[x]).claim = None /\ CountedAttempt(doc[x]).status = doc[x].status
            /\ CountedAttempt(doc[x]).attempts = doc[x].attempts + 1
        BY <1>1 DEF CountedAttempt, DocType
      <4> QED
        BY <1>2, <2>1, <2>2, <3>1, <4>1, <4>2, RawAssumption DEF Exhausted, RecHolds
    <3>2. CASE rec[r].pc # "stillPending"
      <4>1. PICK s \in {"blob_available", "blob_archival_failed"} :
              /\ doc'[x] = [doc[x] EXCEPT !.status = s, !.claim = None, !.attempts = 0, !.hint = FALSE]
              /\ rec[r].pc # "archival" => s = "blob_available"
        BY <1>1, <1>5, <3>2 DEF RecWrite, SetBoth
      <4>2. doc'[x].status = s /\ doc'[x].claim = None /\ doc'[x].attempts = 0
        BY <1>1, <4>1 DEF DocType
      <4> QED
        BY <4>1, <4>2, RawAssumption
    <3> QED
      BY <3>1, <3>2
  <2>5. \A y \in Documents : Earned(y)
    <3>1. Earned(x)
      BY <1>1, <1>2, <2>2, <2>4, RawAssumption DEF Earned, Exhausted
    <3> QED
      BY <2>3, <3>1 DEF Earned
  <2>6. ASSUME NEW q \in Reconcilers, NEW y \in Documents, y \in Working(q)', doc'[y].claim = q
        PROVE  rec'[q].attempts[y] = doc'[y].attempts
    <3>1. y # x
      BY <2>4, <2>6, NamesAssumption
    <3> QED
      BY <1>3, <2>3, <2>6, <3>1 DEF EarnedInv, Working
  <2>7. \A q \in Reconcilers \ {r} : Working(q)' = Working(q)
                                     /\ (Exhausted(q, rec[q].row)' <=> Exhausted(q, rec[q].row))
    BY <1>3 DEF Working, Exhausted
  <2>8. \A y \in Documents : doc'[y].attempts < MaxAttempts
    BY <1>2, <2>3, <2>4
  <2> QED
    BY <1>3, <2>5, <2>6, <2>7, <2>8 DEF EarnedInv, Fault
<1> QED
  BY <1>4, <1>5

LEMMA EarnedStep ==
    ASSUME TypeInv, EarnedInv, [Next]_vars
    PROVE  EarnedInv' /\ \A x \in Documents : Earned(x)
<1>1. CASE RegisterStep \/ UploadStep \/ RemovalStep \/ DeleteStep \/ UNCHANGED vars
  <2>1. UNCHANGED <<rec, setting>>
    BY <1>1 DEF RegisterStep, UploadStep, RemovalStep, DeleteStep, vars
  <2>2. \A x \in Documents : Uncounted(x)
    BY <1>1, RegisterUncounted, UploadUncounted, RemovalUncounted, DeleteUncounted,
       SameRowsUncounted DEF vars
  <2> QED
    BY <2>1, <2>2, EarnedAside
<1>2. CASE ReconcileStep
  <2>1. PICK r \in Reconcilers : RecStep(r) \/ CrashReconciler(r)
    BY <1>2 DEF ReconcileStep
  <2>2. UNCHANGED setting
    BY <1>2 DEF ReconcileStep
  <2>3. CASE CrashReconciler(r)
    <3>1. /\ rec'[r].pc = "crashed" /\ rec'[r].todo = {} /\ UNCHANGED doc
          /\ \A q \in Reconcilers \ {r} : rec'[q] = rec[q]
      BY <2>3 DEF CrashReconciler, RecIdle, rows, TypeInv, TypeOK, RecTypeOK
    <3>2. \A q \in Reconcilers \ {r} : Working(q)' = Working(q)
                                       /\ (Exhausted(q, rec[q].row)' <=> Exhausted(q, rec[q].row))
      BY <3>1 DEF Working, Exhausted
    <3>3. Working(r)' = {}
      BY <3>1 DEF Working
    <3> QED
      BY <2>2, <3>1, <3>2, <3>3 DEF EarnedInv, Earned, Fault
  <2> QED
    BY <2>1, <2>2, <2>3, ClaimBatchEarned, ProbeEarned, WriteEarned DEF RecStep
<1> QED
  BY <1>1, <1>2 DEF Next

\* Where the provider reports no failure, a row is given up exactly when the last of
\* its attempts has been recorded, however many reconcilers overlap, crash and take
\* over stale claims: none gives up on a count it read before another one's write.
THEOREM ArchivalEarned == Spec => ArchivalIsEarned
<1>1. Init => TypeInv /\ EarnedInv
  <2> SUFFICES ASSUME Init PROVE EarnedInv
    BY InitTyped
  <2>1. \A x \in Documents : doc[x] = NoDoc
    BY DEF Init, RowsInit
  <2>2. \A r \in Reconcilers : rec[r].pc = "idle" /\ rec[r].todo = {}
    BY DEF Init, RecInit, RecIdle
  <2>3. \A r \in Reconcilers : Working(r) = {}
    BY <2>2 DEF Working
  <2> QED
    BY <2>1, <2>2, <2>3, RawAssumption DEF EarnedInv, NoDoc
<1>2. TypeInv /\ EarnedInv /\ [Next]_vars => (TypeInv /\ EarnedInv)'
  BY NextTyped, EarnedStep
<1>3. TypeInv /\ EarnedInv /\ [Next]_vars =>
         [~Fault("onramp") =>
            \A x \in Documents :
               doc[x].status = "blob_pending" /\ doc'[x].status = "blob_archival_failed" =>
                  doc[x].attempts + 1 = MaxAttempts]_vars
  BY EarnedStep DEF Earned
<1> QED
  BY <1>1, <1>2, <1>3, PTL DEF Spec, ArchivalIsEarned

-----------------------------------------------------------------------------
(***************************************************************************)
(* Requests one at a time.  Under Serial a document has one upload or one  *)
(* removal, which alone moves its row and its objects between its own      *)
(* steps: what it read, wrote or deleted is still so at its next step.     *)
(***************************************************************************)

\* The requests for a document take turns, and no reconciler runs.
Turns ==
    /\ \A r \in Reconcilers : rec[r].pc = "idle"
    /\ \A u, v \in Uploads :
          up[u].pc \in UpSteps /\ up[v].pc \in UpSteps /\ up[u].doc = up[v].doc => u = v
    /\ \A u \in Uploads, w \in Removals :
          up[u].pc \in UpSteps /\ rm[w].pc \in RmSteps => up[u].doc \notin rm[w].scope
    /\ \A v, w \in Removals :
          rm[v].pc \in RmSteps /\ rm[w].pc \in RmSteps /\ v # w =>
             \A x \in rm[v].scope : x \notin rm[w].scope

\* Nothing but a tombstone has the status of a delete.
DeletedAreTombs == \A a \in Artifacts : art[a].status \in DeleteStarted => art[a].tomb

\* An upload keeps the slot from its claim to its publication, and does not compensate.
UploadAlone(u) ==
    LET row == doc[up[u].doc] IN
    up[u].pc \in UpSteps =>
       /\ up[u].pc \in {"claim", "put", "failClaimed", "beta2", "gamma"}
       /\ up[u].branch = "upload"
       /\ row.state = "active"
       /\ up[u].pc = "claim" => row.status \notin Occupied /\ (row.uri = None \/ WipeFailed)
       /\ up[u].pc # "claim" => row.status = "blob_uploading" /\ row.claim = u
       /\ up[u].pc \in {"put", "failClaimed", "beta2"} => row.uri = None
       /\ up[u].pc \in {"beta2", "gamma"} => Key(u) \in objects /\ up[u].storedStatus = "stored"
       /\ up[u].pc = "gamma" => row.uri = up[u].hash

WipeMarks == \E w \in Removals : rm[w].kind = "user" /\ rm[w].pc = "mark"

\* Only a failed wipe leaves a uri on a row whose slot is free.
ActiveAlone(x) ==
    LET row == doc[x] IN
    row.state = "active" =>
       /\ row.status = "blob_uploading" => Uploading(x) # {}
       /\ row.status \in Settled => row.uri # None /\ <<x, row.uri>> \in objects \cup Unrecorded
       /\ row.status \notin Occupied /\ row.uri # None => WipeFailed \/ WipeMarks

\* The object of a removed document is still to be deleted or to be marked, or it is marked.
RemovedAlone(x) ==
    doc[x].state = "deleted" /\ <<x, doc[x].uri>> \in objects =>
       \/ doc[x].status = "raw_storage_failed"
       \/ \E w \in Removing(x) : <<x, doc[x].uri>> \in rm[w].blobs \cup rm[w].failed

\* A document has no object but the one its row names or its upload is about to record.
ObjectsKnown(x) ==
    doc[x].state # "wiped" =>
       \A k \in objects : k[1] = x =>
          \/ WipeFailed \/ k[2] = doc[x].uri
          \/ \E u \in Uploads : up[u].pc = "beta2" /\ Key(u) = k

RowAlone(x) ==
    /\ doc[x].state = "absent" => doc[x].uri = None
    /\ doc[x].uri # None => doc[x].mode = "managed_blob"
    /\ ActiveAlone(x) /\ RemovedAlone(x) /\ ObjectsKnown(x)

\* A removal deletes the objects its rows name, all of them, and knows which it deleted.
KeysAlone(w) ==
    LET m == rm[w] IN
    m.pc \in RmSteps =>
       /\ m.cleaned \cap objects = {}
       /\ m.pc # "dropArtifacts" =>
             \A k \in m.blobs \cup m.cleaned \cup m.failed :
                k[1] \in m.scope /\ k[2] = doc[k[1]].uri
       /\ m.kind = "document" => \A x, y \in m.scope : x = y
       /\ m.pc = "softDelete" =>
             /\ m.cleaned = {} /\ m.failed = {}
             /\ \A k \in m.blobs : doc[k[1]].state = "active"
             /\ \A x \in m.scope : doc[x].state = "active" /\ doc[x].uri # None =>
                   <<x, doc[x].uri>> \in m.blobs
       /\ m.pc = "lookup" => m.blobs = {} /\ m.cleaned = {} /\ m.failed = {}
       /\ m.pc = "mark" => m.blobs = {} /\ (m.kind = "user" => m.failed # {})
       /\ m.pc \in {"dropDocuments", "dropArtifacts"} => m.blobs = {} /\ m.failed = {}

WipeAlone(w) ==
    LET m == rm[w] IN
    m.kind = "user" =>
       /\ m.pc = "cleanup" =>
             \A x \in Documents : doc[x].state = "active" /\ <<x, doc[x].uri>> \in objects =>
                <<x, doc[x].uri>> \in m.blobs \cup m.failed
       /\ m.pc = "dropDocuments" =>
             \A x \in Documents : doc[x].state = "active" => <<x, doc[x].uri>> \notin objects

Alone ==
    /\ LinkInv /\ UriMatchesHash /\ Turns /\ DeletedAreTombs
    /\ \A u \in Uploads : UploadAlone(u)
    /\ \A x \in Documents : RowAlone(x)
    /\ \A w \in Removals : KeysAlone(w) /\ WipeAlone(w)

LEMMA SerialMeans ==
    ASSUME Serial
    PROVE  /\ ~Eventual /\ ~Fault("db") /\ ~Fault("crash") /\ ~Fault("onramp")
           /\ "upload" \notin Races /\ "removal" \notin Races
BY DEF Serial, Eventual, Fault, Races

LEMMA AloneTypes ==
    ASSUME Alone
    PROVE  /\ TypeInv /\ RowsTypeOK /\ objects \subseteq Keys
           /\ \A x \in Documents : doc[x] \in DocType
           /\ up \in [Uploads -> UpType] /\ \A u \in Uploads : up[u] \in UpType
           /\ rm \in [Removals -> RmType] /\ \A w \in Removals : rm[w] \in RmType
           /\ \A u \in Uploads : up[u].pc # "none" => Key(u) \in Keys
<1>1. TypeInv
  BY DEF Alone, LinkInv
<1>2. RowsTypeOK /\ UpTypeOK /\ RmTypeOK
  BY <1>1 DEF TypeInv, TypeOK
<1>3. \A u \in Uploads : up[u].pc # "none" => Key(u) \in Keys
  BY <1>1 DEF TypeInv, UploadsNamed, Key, Keys
<1> QED
  BY <1>1, <1>2, <1>3 DEF RowsTypeOK, UpTypeOK, RmTypeOK

\* A wipe under way has every document in its scope.
LEMMA WipeScope ==
    ASSUME Alone, NEW w \in Removals, rm[w].pc \in RmSteps,
           rm[w].kind = "user" \/ rm[w].pc \in {"dropDocuments", "dropArtifacts"}
    PROVE  rm[w].kind = "user" /\ rm[w].scope = Documents
BY DEF Alone, LinkInv, RemovalOrder

\* No key is made of a row without uri.
LEMMA KeysOfUri ==
    ASSUME NEW k \in Keys
    PROVE  k[2] # None /\ k[2] \in Hashes /\ k[1] \in Documents /\ k = <<k[1], k[2]>>
BY NamesAssumption DEF Keys

-----------------------------------------------------------------------------
\* What a handler does at one document leaves the rest as it was.

\* A step of upload u at document x, where no other handler is.
UploadAt(u, x) ==
    /\ \A v \in Uploads \ {u} : up'[v] = up[v] /\ (up[v].pc \in UpSteps => up[v].doc # x)
    /\ up[u].pc \in UpSteps => up[u].doc = x
    /\ up'[u].doc = x
    /\ \A w \in Removals : rm[w].pc \in RmSteps => x \notin rm[w].scope
    /\ \A y \in Documents \ {x} : doc'[y] = doc[y]
    /\ objects' \subseteq Keys
    /\ \A k \in Keys : k[1] # x => (k \in objects' <=> k \in objects)
    /\ UNCHANGED <<rm, rec, setting>>

LEMMA UploadElsewhere ==
    ASSUME Alone, NEW u \in Uploads, NEW x \in Documents, UploadAt(u, x)
    PROVE  /\ \A v \in Uploads \ {u} : UploadAlone(v)'
           /\ \A y \in Documents \ {x} : RowAlone(y)'
           /\ \A w \in Removals : KeysAlone(w)' /\ WipeAlone(w)'
<1>1. /\ objects \subseteq Keys /\ objects' \subseteq Keys
      /\ \A k \in Keys : k[1] # x => (k \in objects' <=> k \in objects)
      /\ \A y \in Documents \ {x} : doc'[y] = doc[y]
  BY AloneTypes DEF UploadAt
<1>2. (WipeFailed' <=> WipeFailed) /\ (WipeMarks' <=> WipeMarks) /\ Unrecorded' = Unrecorded
  BY DEF UploadAt, WipeFailed, WipeMarks, Unrecorded
<1>3. \A v \in Uploads \ {u} : up'[v] = up[v] /\ (up[v].pc \in UpSteps => up[v].doc \in Documents \ {x})
  BY AloneTypes DEF UploadAt, TypeInv, UploadsNamed, UpSteps
<1>4. ASSUME NEW v \in Uploads \ {u}
      PROVE  UploadAlone(v)'
  <2>1. SUFFICES ASSUME up[v].pc \in UpSteps PROVE UploadAlone(v)'
    BY <1>3 DEF UploadAlone
  <2>2. doc'[up'[v].doc] = doc[up[v].doc] /\ up'[v] = up[v] /\ UploadAlone(v)
    BY <1>1, <1>3, <2>1 DEF Alone
  <2>3. Key(v)' = Key(v) /\ Key(v) \in Keys /\ Key(v)[1] # x
    BY <1>3, <2>1, AloneTypes DEF Key, UpSteps
  <2>4. Key(v)' \in objects' <=> Key(v) \in objects
    BY <1>1, <2>3
  <2> QED
    BY <1>2, <2>1, <2>2, <2>4 DEF UploadAlone
<1>5. ASSUME NEW y \in Documents \ {x}
      PROVE  RowAlone(y)'
  <2>1. doc'[y] = doc[y] /\ RowAlone(y)
    BY <1>1 DEF Alone
  <2>2. Uploading(y) \subseteq Uploading(y)'
    BY <1>3 DEF Uploading, UploadAt
  <2>3. Removing(y)' = Removing(y) /\ rm' = rm
    BY DEF Removing, UploadAt
  <2>4. \A h : <<y, h>> \in objects' <=> <<y, h>> \in objects
    <3> SUFFICES ASSUME NEW h PROVE <<y, h>> \in objects' <=> <<y, h>> \in objects
      OBVIOUS
    <3>1. <<y, h>>[1] = y
      OBVIOUS
    <3> QED
      BY <1>1, <3>1
  <2>5. ActiveAlone(y)'
    BY <1>2, <2>1, <2>2, <2>4 DEF RowAlone, ActiveAlone
  <2>6. RemovedAlone(y)'
    BY <2>1, <2>3, <2>4 DEF RowAlone, RemovedAlone
  <2>7. ASSUME NEW k \in objects', k[1] = y, doc[y].state # "wiped"
        PROVE  \/ WipeFailed \/ k[2] = doc[y].uri
               \/ \E v \in Uploads : up'[v].pc = "beta2" /\ Key(v)' = k
    <3>1. k \in objects
      BY <1>1, <2>7
    <3>2. ASSUME NEW v \in Uploads, up[v].pc = "beta2", Key(v) = k
          PROVE  up'[v].pc = "beta2" /\ Key(v)' = k
      <4>1. up[v].doc = y
        BY <2>7, <3>2 DEF Key
      <4>2. v # u
        BY <3>2, <4>1 DEF UploadAt, UpSteps
      <4> QED
        BY <1>3, <3>2, <4>2 DEF Key
    <3> QED
      BY <2>1, <2>7, <3>1, <3>2 DEF RowAlone, ObjectsKnown
  <2>8. ObjectsKnown(y)'
    BY <1>2, <2>1, <2>7 DEF ObjectsKnown
  <2> QED
    BY <2>1, <2>5, <2>6, <2>8 DEF RowAlone
<1>6. ASSUME NEW w \in Removals
      PROVE  KeysAlone(w)' /\ WipeAlone(w)'
  <2>1. KeysAlone(w) /\ WipeAlone(w) /\ rm' = rm
    BY DEF Alone, UploadAt
  <2>2. CASE rm[w].pc \notin RmSteps
    BY <2>1, <2>2 DEF KeysAlone, WipeAlone, RmSteps
  <2>3. CASE rm[w].pc \in RmSteps
    <3>1. x \notin rm[w].scope
      BY <2>3 DEF UploadAt
    <3>2. rm[w].kind # "user" /\ rm[w].pc # "dropArtifacts"
      BY <2>3, <3>1, WipeScope
    <3>3. WipeAlone(w)'
      BY <2>1, <3>2 DEF WipeAlone
    <3>4. rm[w] \in RmType
      BY AloneTypes
    <3>5. \A y \in rm[w].scope : doc'[y] = doc[y]
      BY <1>1, <3>1, <3>4 DEF RmType
    <3>6. \A k \in rm[w].cleaned : k[1] \in rm[w].scope
      BY <2>1, <2>3, <3>2 DEF KeysAlone
    <3>7. rm[w].cleaned \cap objects' = {}
      <4> SUFFICES ASSUME NEW k \in rm[w].cleaned, k \in objects' PROVE FALSE
        OBVIOUS
      <4>1. k \in objects
        BY <1>1, <3>1, <3>6
      <4> QED
        BY <2>1, <2>3, <4>1 DEF KeysAlone
    <3>8. KeysAlone(w)'
      BY <2>1, <2>3, <3>2, <3>5, <3>7 DEF KeysAlone
    <3> QED
      BY <3>3, <3>8
  <2> QED
    BY <2>2, <2>3
<1> QED
  BY <1>4, <1>5, <1>6

\* A step of removal w at its scope, where no other handler is.
RemovalAt(w) ==
    LET scope == rm'[w].scope IN
    /\ scope \subseteq Documents
    /\ rm[w].pc \in RmSteps \/ rm[w].pc = "none"
    /\ rm[w].pc \in RmSteps => scope = rm[w].scope
    /\ rm[w].kind = "user" =>
          /\ rm'[w].kind = "user" /\ rm[w].cleaned \subseteq rm'[w].cleaned
          /\ rm[w].pc = "mark" => rm'[w].pc \in {"mark", "error"}
    /\ \A v \in Removals \ {w} :
          rm'[v] = rm[v] /\ (rm[v].pc \in RmSteps => \A x \in scope : x \notin rm[v].scope)
    /\ \A u \in Uploads : up[u].pc \in UpSteps => up[u].doc \notin scope
    /\ \A y \in Documents \ scope : doc'[y] = doc[y]
    /\ objects' \subseteq Keys
    /\ \A k \in Keys : k[1] \notin scope => (k \in objects' <=> k \in objects)
    /\ UNCHANGED <<up, rec, setting>>

LEMMA RemovalElsewhere ==
    ASSUME Alone, NEW w \in Removals, RemovalAt(w)
    PROVE  /\ \A u \in Uploads : UploadAlone(u)'
           /\ \A y \in Documents \ rm'[w].scope : RowAlone(y)'
           /\ \A v \in Removals \ {w} : KeysAlone(v)' /\ WipeAlone(v)'
           /\ WipeFailed => WipeFailed'
           /\ WipeMarks => WipeMarks' \/ WipeFailed'
           /\ Unrecorded \subseteq Unrecorded'
<1> DEFINE scope == rm'[w].scope
<1>1. /\ objects \subseteq Keys /\ objects' \subseteq Keys /\ scope \subseteq Documents
      /\ \A k \in Keys : k[1] \notin scope => (k \in objects' <=> k \in objects)
      /\ \A y \in Documents \ scope : doc'[y] = doc[y]
  BY AloneTypes DEF RemovalAt
<1>2. \A v \in Removals \ {w} : rm'[v] = rm[v]
  BY DEF RemovalAt
<1>3. WipeFailed => WipeFailed'
  BY <1>2 DEF RemovalAt, WipeFailed, RmSteps
<1>4. WipeMarks => WipeMarks' \/ WipeFailed'
  BY <1>2 DEF RemovalAt, WipeMarks, WipeFailed
<1>5. Unrecorded \subseteq Unrecorded'
  BY <1>2 DEF RemovalAt, Unrecorded
<1>6. up' = up
  BY DEF RemovalAt
<1>7. ASSUME NEW u \in Uploads
      PROVE  UploadAlone(u)'
  <2>1. SUFFICES ASSUME up[u].pc \in UpSteps PROVE UploadAlone(u)'
    BY <1>6 DEF UploadAlone
  <2>2. up[u].doc \in Documents \ scope /\ Key(u) \in Keys
    BY <2>1, AloneTypes DEF RemovalAt, TypeInv, UploadsNamed, UpSteps
  <2>3. doc'[up'[u].doc] = doc[up[u].doc] /\ UploadAlone(u)
    BY <1>1, <1>6, <2>2 DEF Alone
  <2>4. Key(u)' = Key(u) /\ Key(u)[1] \notin scope
    BY <1>6, <2>2 DEF Key
  <2>5. Key(u)' \in objects' <=> Key(u) \in objects
    BY <1>1, <2>2, <2>4
  <2> QED
    BY <1>3, <1>6, <2>1, <2>3, <2>5 DEF UploadAlone
<1>8. ASSUME NEW y \in Documents \ scope
      PROVE  RowAlone(y)'
  <2>1. doc'[y] = doc[y] /\ RowAlone(y)
    BY <1>1 DEF Alone
  <2>2. Uploading(y)' = Uploading(y)
    BY <1>6 DEF Uploading
  <2>3. \A v \in Removing(y) : v \in Removing(y)' /\ rm'[v] = rm[v]
    BY <1>2 DEF Removing, RemovalAt
  <2>4. \A h : <<y, h>> \in objects' <=> <<y, h>> \in objects
    <3> SUFFICES ASSUME NEW h PROVE <<y, h>> \in objects' <=> <<y, h>> \in objects
      OBVIOUS
    <3>1. <<y, h>>[1] = y
      OBVIOUS
    <3> QED
      BY <1>1, <3>1
  <2>5. ActiveAlone(y)'
    BY <1>3, <1>4, <1>5, <2>1, <2>2, <2>4 DEF RowAlone, ActiveAlone
  <2>6. RemovedAlone(y)'
    BY <2>1, <2>3, <2>4 DEF RowAlone, RemovedAlone
  <2>7. ASSUME NEW k \in objects', k[1] = y
        PROVE  k \in objects
    BY <1>1, <2>7
  <2>8. ObjectsKnown(y)'
    BY <1>3, <1>6, <2>1, <2>7 DEF RowAlone, ObjectsKnown, Key
  <2> QED
    BY <2>1, <2>5, <2>6, <2>8 DEF RowAlone
<1>9. ASSUME NEW v \in Removals \ {w}
      PROVE  KeysAlone(v)' /\ WipeAlone(v)'
  <2>1. KeysAlone(v) /\ WipeAlone(v) /\ rm'[v] = rm[v]
    BY <1>2 DEF Alone
  <2>2. CASE rm[v].pc \notin RmSteps
    BY <2>1, <2>2 DEF KeysAlone, WipeAlone, RmSteps
  <2>3. CASE rm[v].pc \in RmSteps
    <3>1. \A x \in rm[v].scope : x \in Documents /\ doc'[x] = doc[x] /\ x \notin scope
      BY <1>1, <2>3, AloneTypes DEF RemovalAt, RmType
    <3>2. rm[v].kind = "user" \/ rm[v].pc = "dropArtifacts" => rm[v].scope = Documents
      BY <2>3, WipeScope
    <3>3. rm[v] \in RmType
      BY AloneTypes
    <3>4. \A k \in rm[v].cleaned : k \in Keys /\ k[1] \in rm[v].scope
      <4> SUFFICES ASSUME NEW k \in rm[v].cleaned PROVE k \in Keys /\ k[1] \in rm[v].scope
        OBVIOUS
      <4>1. k \in Keys /\ k[1] \in Documents
        BY <3>3, KeysOfUri DEF RmType
      <4> QED
        BY <2>1, <2>3, <3>2, <4>1 DEF KeysAlone
    <3>5. rm[v].cleaned \cap objects' = {}
      BY <1>1, <2>1, <2>3, <3>1, <3>4 DEF KeysAlone
    <3>6. KeysAlone(v)'
      BY <2>1, <2>3, <3>1, <3>5 DEF KeysAlone
    <3>7. \A x \in rm[v].scope : \A h : <<x, h>> \in objects' => <<x, h>> \in objects
      <4> SUFFICES ASSUME NEW x \in rm[v].scope, NEW h, <<x, h>> \in objects'
                   PROVE  <<x, h>> \in objects
        OBVIOUS
      <4>1. <<x, h>>[1] = x
        OBVIOUS
      <4> QED
        BY <1>1, <3>1, <4>1
    <3>8. WipeAlone(v)'
      BY <2>1, <3>1, <3>2, <3>7 DEF WipeAlone
    <3> QED
      BY <3>6, <3>8
  <2> QED
    BY <2>2, <2>3
<1> QED
  BY <1>3, <1>4, <1>5, <1>7, <1>8, <1>9

-----------------------------------------------------------------------------
\* Uploads.

\* The upload that is at a document is alone there.
LEMMA UploadIsAlone ==
    ASSUME Alone, NEW u \in Uploads, up[u].pc \in UpSteps
    PROVE  /\ up[u].doc \in Documents /\ up[u].hash \in Hashes /\ Key(u) \in Keys
           /\ UploadAlone(u) /\ RowAlone(up[u].doc) /\ doc[up[u].doc].state = "active"
           /\ \A v \in Uploads \ {u} : up[v].pc \in UpSteps => up[v].doc # up[u].doc
           /\ \A w \in Removals : rm[w].pc \in RmSteps => up[u].doc \notin rm[w].scope
<1>1. up[u].doc \in Documents /\ up[u].hash \in Hashes /\ Key(u) \in Keys
  BY AloneTypes DEF TypeInv, UploadsNamed, UpSteps
<1>2. UploadAlone(u) /\ RowAlone(up[u].doc)
  BY <1>1 DEF Alone
<1>3. doc[up[u].doc].state = "active"
  BY <1>2 DEF UploadAlone
<1> QED
  BY <1>1, <1>2, <1>3 DEF Alone, Turns

\* The objects of its document, other than the one it has put, are left by a failed wipe.
LEMMA KnownToUpload ==
    ASSUME Alone, NEW u \in Uploads, up[u].pc \in UpSteps,
           doc[up[u].doc].uri = None \/ WipeFailed,
           NEW k \in objects, k[1] = up[u].doc
    PROVE  WipeFailed \/ (up[u].pc = "beta2" /\ k = Key(u))
<1>1. k[2] # None
  BY AloneTypes, KeysOfUri
<1>2. ObjectsKnown(up[u].doc) /\ doc[up[u].doc].state = "active"
  BY UploadIsAlone DEF RowAlone
<1>3. WipeFailed \/ \E v \in Uploads : up[v].pc = "beta2" /\ Key(v) = k
  BY <1>1, <1>2 DEF ObjectsKnown
<1>4. ASSUME NEW v \in Uploads, up[v].pc = "beta2", Key(v) = k
      PROVE  v = u
  <2>1. up[v].doc = up[u].doc
    BY <1>4 DEF Key
  <2> QED
    BY <1>4, <2>1, UploadIsAlone DEF UpSteps
<1> QED
  BY <1>3, <1>4

\* A step of an upload past its first one.
UploadGoes(u) ==
    /\ up'[u].doc = up[u].doc /\ up'[u].hash = up[u].hash /\ up'[u].branch = up[u].branch
    /\ up[u].pc \in UpSteps
    /\ \A v \in Uploads \ {u} : up'[v] = up[v]
    /\ \A y \in Documents \ {up[u].doc} : doc'[y] = doc[y]
    /\ objects' \subseteq Keys
    /\ \A k \in Keys : k[1] # up[u].doc => (k \in objects' <=> k \in objects)
    /\ UNCHANGED <<rm, rec, setting>>

LEMMA UploadGoesAt ==
    ASSUME Alone, NEW u \in Uploads, UploadGoes(u)
    PROVE  UploadAt(u, up[u].doc) /\ Turns'
<1>1. UploadAt(u, up[u].doc)
  BY UploadIsAlone DEF UploadGoes, UploadAt
<1>2. Turns
  BY DEF Alone
<1>3. \A v \in Uploads : up'[v].pc \in UpSteps => up[v].pc \in UpSteps /\ up'[v].doc = up[v].doc
  BY DEF UploadGoes
<1>4. rm' = rm /\ rec' = rec
  BY DEF UploadGoes
<1>5. Turns'
  BY <1>2, <1>3, <1>4 DEF Turns
<1> QED
  BY <1>1, <1>5

LEMMA UploadGoto ==
    ASSUME Alone, NEW u \in Uploads, NEW pc, UpGoto(u, pc)
    PROVE  /\ up'[u].pc = pc /\ up'[u].doc = up[u].doc /\ up'[u].hash = up[u].hash
           /\ up'[u].branch = up[u].branch /\ up'[u].storedStatus = up[u].storedStatus
           /\ \A v \in Uploads \ {u} : up'[v] = up[v]
BY AloneTypes DEF UpGoto, UpType

\* The claim takes a free slot, and drops the uri that a failed wipe left there.
LEMMA ClaimAlone ==
    ASSUME Alone, Serial, NEW u \in Uploads, NEW x \in Documents, up[u].doc = x,
           AlphaClaim(u), UNCHANGED <<rm, rec, setting>>
    PROVE  UploadGoes(u) /\ UploadAlone(u)' /\ RowAlone(x)'
<1>1. /\ up[u].pc = "claim" /\ up[u].pc \in UpSteps /\ Active(x) /\ up[u].branch = "upload"
      /\ x \in Documents /\ doc[x] \in DocType
  BY UploadIsAlone, AloneTypes DEF AlphaClaim, UpSteps, UploadAlone, Active
<1>2. doc' = [doc EXCEPT ![x] = Claimed(u)] /\ UpGoto(u, "put") /\ UNCHANGED objects
  BY <1>1, SerialMeans DEF AlphaClaim
<1>3. /\ up'[u].pc = "put" /\ up'[u].doc = x /\ up'[u].hash = up[u].hash
      /\ up'[u].branch = "upload" /\ \A v \in Uploads \ {u} : up'[v] = up[v]
  BY <1>1, <1>2, UploadGoto
<1>4. doc \in [Documents -> DocType]
  BY AloneTypes DEF RowsTypeOK
<1>5. doc'[x] = Claimed(u) /\ \A y \in Documents \ {x} : doc'[y] = doc[y]
  BY <1>1, <1>2, <1>4
<1>6. /\ doc'[x].state = "active" /\ doc'[x].status = "blob_uploading" /\ doc'[x].claim = u
      /\ doc'[x].uri = None
  BY <1>1, <1>5 DEF Claimed, DocType, Active
<1>7. UploadGoes(u)
  BY <1>1, <1>2, <1>3, <1>5, AloneTypes DEF UploadGoes
<1>8. UploadAlone(u)'
  BY <1>3, <1>6 DEF UploadAlone
<1>9. u \in Uploading(x)'
  BY <1>3 DEF Uploading, UpSteps
<1>10. doc[x].uri = None \/ WipeFailed
  BY <1>1, UploadIsAlone DEF UploadAlone
<1>11. ObjectsKnown(x)'
  <2>1. WipeFailed' <=> WipeFailed
    BY DEF WipeFailed
  <2> QED
    BY <1>1, <1>2, <1>10, <2>1, KnownToUpload DEF ObjectsKnown
<1>12. ActiveAlone(x)' /\ RemovedAlone(x)'
  BY <1>6, <1>9 DEF ActiveAlone, RemovedAlone, Settled, Occupied
<1> QED
  BY <1>6, <1>7, <1>8, <1>11, <1>12 DEF RowAlone

\* The put leaves the key that its upload is about to record.
LEMMA PutAlone ==
    ASSUME Alone, Serial, NEW u \in Uploads, NEW x \in Documents, up[u].doc = x,
           Put(u), UNCHANGED <<rm, rec, setting>>
    PROVE  UploadGoes(u) /\ UploadAlone(u)' /\ RowAlone(x)'
<1>1. /\ up[u].pc = "put" /\ up[u].pc \in UpSteps /\ x \in Documents /\ Key(u) \in Keys
      /\ UNCHANGED doc /\ UploadAlone(u) /\ RowAlone(x)
  BY UploadIsAlone DEF Put, UpSteps
<1>2. /\ doc[x].state = "active" /\ doc[x].status = "blob_uploading" /\ doc[x].claim = u
      /\ doc[x].uri = None /\ up[u].branch = "upload"
  BY <1>1 DEF UploadAlone
<1>3. \/ objects' = objects \cup {Key(u)} /\ up'[u].pc = "beta2" /\ up'[u].storedStatus = "stored"
      \/ objects' = objects /\ up'[u].pc = "failClaimed"
  <2>1. CASE UpGoto(u, "failClaimed") /\ UNCHANGED objects
    BY <2>1, UploadGoto
  <2>2. CASE /\ objects' = objects \cup {Key(u)}
             /\ up' = [up EXCEPT ![u] = [@ EXCEPT !.pc = "beta2", !.storedStatus = "stored"]]
    BY <2>2, AloneTypes DEF UpType
  <2> QED
    BY <2>1, <2>2, SerialMeans DEF Put
<1>4. /\ up'[u].doc = x /\ up'[u].hash = up[u].hash /\ up'[u].branch = up[u].branch
      /\ \A v \in Uploads \ {u} : up'[v] = up[v]
  <2>1. PICK row : up' = [up EXCEPT ![u] = row] /\ row.doc = x /\ row.hash = up[u].hash
                   /\ row.branch = up[u].branch
    <3>1. up[u] \in UpType
      BY AloneTypes
    <3> QED
      BY <3>1 DEF Put, UpGoto, UpType
  <2> QED
    BY <2>1, AloneTypes
<1>5. Key(u)' = Key(u) /\ Key(u)[1] = x
  BY <1>4 DEF Key
<1>6. UploadGoes(u)
  BY <1>1, <1>3, <1>4, <1>5, AloneTypes DEF UploadGoes
<1>7. UploadAlone(u)'
  BY <1>1, <1>2, <1>3, <1>4, <1>5 DEF UploadAlone
<1>8. u \in Uploading(x)'
  BY <1>3, <1>4 DEF Uploading, UpSteps
<1>9. ObjectsKnown(x)'
  <2>1. SUFFICES ASSUME NEW k \in objects', k[1] = x
                 PROVE  WipeFailed \/ \E v \in Uploads : up'[v].pc = "beta2" /\ Key(v)' = k
    BY DEF ObjectsKnown, WipeFailed
  <2>2. CASE k \in objects
    BY <1>1, <1>2, <2>1, <2>2, KnownToUpload
  <2>3. CASE k \notin objects
    BY <1>3, <1>5, <2>3
  <2> QED
    BY <2>2, <2>3
<1>10. ActiveAlone(x)' /\ RemovedAlone(x)'
  BY <1>1, <1>2, <1>8 DEF ActiveAlone, RemovedAlone, Settled, Occupied
<1>11. doc'[x] = doc[x]
  BY <1>1
<1> QED
  BY <1>2, <1>6, <1>7, <1>9, <1>10, <1>11 DEF RowAlone

LEMMA RowWritten ==
    ASSUME Alone, NEW x \in Documents, NEW row, doc' = [doc EXCEPT ![x] = row]
    PROVE  doc'[x] = row /\ \A y \in Documents \ {x} : doc'[y] = doc[y]
BY AloneTypes DEF RowsTypeOK

\* A put that failed gives the slot back, without uri.
LEMMA FailClaimedAlone ==
    ASSUME Alone, Serial, NEW u \in Uploads, NEW x \in Documents, up[u].doc = x,
           FailClaimed(u), UNCHANGED <<rm, rec, setting>>
    PROVE  UploadGoes(u) /\ UploadAlone(u)' /\ RowAlone(x)'
<1>1. /\ up[u].pc = "failClaimed" /\ up[u].pc \in UpSteps /\ UploadAlone(u) /\ RowAlone(x)
      /\ UNCHANGED objects /\ doc[x] \in DocType
  BY UploadIsAlone, AloneTypes DEF FailClaimed, UpSteps
<1>2. doc[x].state = "active" /\ doc[x].uri = None /\ OwnsClaim(u)
  BY <1>1 DEF UploadAlone, OwnsClaim
<1>3. doc' = [doc EXCEPT ![x] = Failed(x, FALSE)]
  BY <1>2, SerialMeans DEF FailClaimed, SetBoth
<1>4. doc'[x] = Failed(x, FALSE) /\ \A y \in Documents \ {x} : doc'[y] = doc[y]
  BY <1>3, RowWritten
<1>5. doc'[x].state = "active" /\ doc'[x].uri = None /\ doc'[x].status = "raw_storage_failed"
  BY <1>1, <1>2, <1>4 DEF Failed, DocType
<1>6. /\ up'[u].pc = "error" /\ up'[u].doc = x /\ up'[u].hash = up[u].hash
      /\ up'[u].branch = up[u].branch /\ \A v \in Uploads \ {u} : up'[v] = up[v]
  BY UploadGoto DEF FailClaimed
<1>7. UploadGoes(u)
  BY <1>1, <1>4, <1>6, AloneTypes DEF UploadGoes
<1>8. UploadAlone(u)'
  BY <1>6 DEF UploadAlone, UpSteps
<1>9. ObjectsKnown(x)'
  <2>1. WipeFailed' <=> WipeFailed
    BY DEF WipeFailed
  <2> QED
    BY <1>1, <1>2, <2>1, KnownToUpload DEF ObjectsKnown
<1>10. ActiveAlone(x)' /\ RemovedAlone(x)'
  BY <1>5 DEF ActiveAlone, RemovedAlone, Settled, Occupied
<1> QED
  BY <1>5, <1>7, <1>8, <1>9, <1>10 DEF RowAlone

\* The claim is held and the artifact it replaces is alive, so the key is recorded.
LEMMA Beta2Alone ==
    ASSUME Alone, Serial, NEW u \in Uploads, NEW x \in Documents, up[u].doc = x,
           Beta2(u), UNCHANGED <<rm, rec, setting>>
    PROVE  UploadGoes(u) /\ UploadAlone(u)' /\ RowAlone(x)' /\ art' = Swapped(u)
<1>1. /\ up[u].pc = "beta2" /\ up[u].pc \in UpSteps /\ UploadAlone(u) /\ RowAlone(x)
      /\ UNCHANGED objects /\ doc[x] \in DocType /\ up[u].hash \in Hashes
  BY UploadIsAlone, AloneTypes DEF Beta2, UpSteps
<1>2. /\ doc[x].state = "active" /\ doc[x].uri = None /\ doc[x].status = "blob_uploading"
      /\ doc[x].claim = u /\ Key(u) \in objects /\ up[u].storedStatus = "stored"
      /\ up[u].branch = "upload"
  BY <1>1 DEF UploadAlone
<1>3. ClaimHeld(u)
  BY <1>2 DEF ClaimHeld
<1>4. ~(doc[x].link # None /\ art[doc[x].link].status \in DeleteStarted)
  <2>1. doc[x].link # None => ~art[doc[x].link].tomb
    BY <1>2 DEF Alone, LinkInv, LinkedArtifactLives, Active
  <2>2. doc[x].link # None => doc[x].link \in Artifacts
    BY <1>1 DEF DocType
  <2> QED
    BY <2>1, <2>2 DEF Alone, DeletedAreTombs
<1>5. /\ doc' = [doc EXCEPT ![x] = [@ EXCEPT !.mode = "managed_blob", !.uri = up[u].hash,
                                             !.storedStatus = up[u].storedStatus, !.link = u]]
      /\ art' = Swapped(u) /\ UpGoto(u, "gamma")
  BY <1>3, <1>4, SerialMeans DEF Beta2
<1>6. /\ doc'[x] = [doc[x] EXCEPT !.mode = "managed_blob", !.uri = up[u].hash,
                                  !.storedStatus = up[u].storedStatus, !.link = u]
      /\ \A y \in Documents \ {x} : doc'[y] = doc[y]
  BY <1>5, RowWritten
<1>7. /\ doc'[x].state = "active" /\ doc'[x].uri = up[u].hash /\ doc'[x].mode = "managed_blob"
      /\ doc'[x].status = "blob_uploading" /\ doc'[x].claim = u
  BY <1>1, <1>2, <1>6 DEF DocType
<1>8. /\ up'[u].pc = "gamma" /\ up'[u].doc = x /\ up'[u].hash = up[u].hash
      /\ up'[u].branch = up[u].branch /\ up'[u].storedStatus = up[u].storedStatus
      /\ \A v \in Uploads \ {u} : up'[v] = up[v]
  BY <1>5, UploadGoto
<1>9. UploadGoes(u)
  BY <1>1, <1>6, <1>8, AloneTypes DEF UploadGoes
<1>10. UploadAlone(u)'
  BY <1>1, <1>2, <1>7, <1>8 DEF UploadAlone, Key
<1>11. ObjectsKnown(x)'
  <2>1. SUFFICES ASSUME NEW k \in objects, k[1] = x
                 PROVE  WipeFailed \/ k[2] = up[u].hash
    BY <1>1, <1>7 DEF ObjectsKnown, WipeFailed
  <2>2. WipeFailed \/ k = Key(u)
    BY <1>1, <1>2, <2>1, KnownToUpload
  <2> QED
    BY <2>2 DEF Key
<1>12. u \in Uploading(x)'
  BY <1>8 DEF Uploading, UpSteps
<1>13. ActiveAlone(x)' /\ RemovedAlone(x)'
  BY <1>7, <1>12 DEF ActiveAlone, RemovedAlone, Settled, Occupied
<1> QED
  BY <1>5, <1>7, <1>9, <1>10, <1>11, <1>13 DEF RowAlone

\* The published status is that of a row whose object is there.
LEMMA GammaAlone ==
    ASSUME Alone, Serial, NEW u \in Uploads, NEW x \in Documents, up[u].doc = x,
           Gamma(u), UNCHANGED <<rm, rec, setting>>
    PROVE  /\ UploadGoes(u) /\ UploadAlone(u)' /\ RowAlone(x)'
           /\ doc'[x].status \in Settled /\ doc'[x].uri = up[u].hash /\ Key(u)' \in objects'
<1>1. /\ up[u].pc = "gamma" /\ up[u].pc \in UpSteps /\ UploadAlone(u) /\ RowAlone(x)
      /\ UNCHANGED objects /\ doc[x] \in DocType /\ up[u].hash \in Hashes
  BY UploadIsAlone, AloneTypes DEF Gamma, UpSteps
<1>2. /\ doc[x].state = "active" /\ doc[x].uri = up[u].hash /\ doc[x].status = "blob_uploading"
      /\ doc[x].claim = u /\ Key(u) \in objects /\ up[u].storedStatus = "stored"
      /\ up[u].hash # None
  BY <1>1, NamesAssumption DEF UploadAlone
<1>3. GammaHeld(u)
  BY <1>2 DEF GammaHeld, ClaimHeld
<1> DEFINE status == FinalStatus(up[u].storedStatus)
<1>4. status = "blob_stored"
  BY <1>2, SerialMeans DEF FinalStatus
<1>5. /\ doc' = [doc EXCEPT ![x] = [doc[x] EXCEPT !.status = status, !.claim = None, !.hint = FALSE]]
      /\ UpGoto(u, "ok")
  BY <1>3, SerialMeans DEF Gamma, SetBoth
<1>6. /\ doc'[x] = [doc[x] EXCEPT !.status = status, !.claim = None, !.hint = FALSE]
      /\ \A y \in Documents \ {x} : doc'[y] = doc[y]
  BY <1>5, RowWritten
<1>7. /\ doc'[x].state = "active" /\ doc'[x].uri = up[u].hash /\ doc'[x].mode = doc[x].mode
      /\ doc'[x].status = "blob_stored"
  <2> HIDE DEF status
  <2> QED
    BY <1>1, <1>2, <1>4, <1>6 DEF DocType
<1>8. /\ up'[u].pc = "ok" /\ up'[u].doc = x /\ up'[u].hash = up[u].hash
      /\ up'[u].branch = up[u].branch /\ \A v \in Uploads \ {u} : up'[v] = up[v]
  BY <1>5, UploadGoto
<1>9. UploadGoes(u)
  BY <1>1, <1>6, <1>8, AloneTypes DEF UploadGoes
<1>10. UploadAlone(u)'
  BY <1>8 DEF UploadAlone, UpSteps
<1>11. ObjectsKnown(x)'
  <2>1. SUFFICES ASSUME NEW k \in objects, k[1] = x
                 PROVE  WipeFailed \/ k[2] = up[u].hash
    BY <1>1, <1>7 DEF ObjectsKnown, WipeFailed
  <2>2. WipeFailed \/ k[2] = doc[x].uri \/ \E v \in Uploads : up[v].pc = "beta2" /\ Key(v) = k
    BY <1>1, <1>2, <2>1 DEF RowAlone, ObjectsKnown
  <2>3. ASSUME NEW v \in Uploads, up[v].pc = "beta2", Key(v) = k
        PROVE  FALSE
    <3>1. up[v].doc = x
      BY <2>1, <2>3 DEF Key
    <3>2. v # u
      BY <1>1, <2>3
    <3> QED
      BY <1>1, <2>3, <3>1, <3>2, UploadIsAlone DEF UpSteps
  <2> QED
    BY <1>2, <2>2, <2>3
<1>12. Key(u)' = <<x, doc'[x].uri>> /\ Key(u)' \in objects'
  BY <1>1, <1>2, <1>7, <1>8 DEF Key
<1>13. ActiveAlone(x)' /\ RemovedAlone(x)'
  BY <1>2, <1>7, <1>12 DEF ActiveAlone, RemovedAlone, Settled, Occupied
<1>14. (doc[x].uri # None => doc[x].mode = "managed_blob")'
  BY <1>1, <1>2, <1>7 DEF RowAlone
<1> QED
  BY <1>7, <1>9, <1>10, <1>11, <1>12, <1>13, <1>14 DEF RowAlone, Settled, Occupied

\* An upload that begins finds nobody at its document: it is told of bytes that are there,
\* or finds a free slot.
LEMMA BeginAlone ==
    ASSUME Alone, Serial, NEW u \in Uploads, NEW x \in Documents, NEW h \in Hashes,
           BeginUpload(u, x, h), UNCHANGED <<rm, rec, setting>>
    PROVE  /\ UploadAt(u, x) /\ Turns' /\ UploadAlone(u)' /\ RowAlone(x)'
           /\ up'[u].pc # "ok"
           /\ up'[u].pc = "existing" =>
                 /\ doc'[x].status \in Settled /\ doc'[x].uri = up'[u].hash
                 /\ Key(u)' \in objects' \cup Unrecorded
<1> DEFINE d == IF Active(x) THEN Decision(doc[x], h) ELSE "notFound"
           claims == d \in {"upload", "finalize"}
           new == [pc |-> IF claims THEN "claim" ELSE d, doc |-> x, hash |-> h,
                   branch |-> IF d = "finalize" THEN d ELSE "upload",
                   storedStatus |-> doc[x].storedStatus]
<1>1. /\ Uploading(x) = {} /\ Removing(x) = {} /\ up[u].pc = "none"
      /\ up' = [up EXCEPT ![u] = new] /\ UNCHANGED <<doc, objects>>
  BY SerialMeans DEF BeginUpload, AlphaLoad
<1>2. up'[u] = new /\ \A v \in Uploads \ {u} : up'[v] = up[v]
  BY <1>1, AloneTypes
<1>3. RowAlone(x) /\ doc[x] \in DocType
  BY AloneTypes DEF Alone
<1>4. /\ up'[u].pc = IF claims THEN "claim" ELSE d
      /\ up'[u].doc = x /\ up'[u].hash = h
      /\ up'[u].branch = IF d = "finalize" THEN d ELSE "upload"
  BY <1>2
<1>5. d \in {"notFound", "existing", "finalize", "conflict", "upload"}
  BY DEF Decision
<1> HIDE DEF d, claims, new
<1>6. \A v \in Uploads : up[v].pc \in UpSteps => up[v].doc # x
  BY <1>1 DEF Uploading
<1>7. \A w \in Removals : rm[w].pc \in RmSteps => x \notin rm[w].scope
  BY <1>1 DEF Removing
<1>8. UploadAt(u, x)
  <2>1. doc' = doc /\ objects' = objects /\ objects \subseteq Keys
    BY <1>1, AloneTypes
  <2>2. \A v \in Uploads \ {u} : up'[v] = up[v] /\ (up[v].pc \in UpSteps => up[v].doc # x)
    BY <1>2, <1>6
  <2>3. up'[u].doc = x /\ (up[u].pc \in UpSteps => up[u].doc = x)
    BY <1>1, <1>4 DEF UpSteps
  <2> QED
    BY <1>7, <2>1, <2>2, <2>3 DEF UploadAt
<1>9. Turns'
  <2>1. Turns /\ rm' = rm /\ rec' = rec
    BY DEF Alone
  <2>2. \A v \in Uploads \ {u} : up'[v] = up[v]
    BY <1>2
  <2> QED
    BY <1>4, <1>6, <1>7, <2>1, <2>2 DEF Turns
<1>10. \A w \in Removals : rm[w].kind = "user" /\ rm[w].pc = "mark" => FALSE
  BY <1>7, WipeScope DEF RmSteps
<1>11. ASSUME d \in {"upload", "finalize"}
       PROVE  /\ d = "upload" /\ doc[x].state = "active" /\ doc[x].status \notin Occupied
              /\ doc[x].uri = None \/ WipeFailed
  <2>1. doc[x].state = "active" /\ Decision(doc[x], h) = d
    BY <1>11 DEF d, Active
  <2>2. doc[x].status # "blob_uploading"
    BY <1>1, <1>3, <2>1 DEF RowAlone, ActiveAlone
  <2>3. doc[x].status \in Settled => doc[x].uri # None /\ doc[x].uri = doc[x].hash
    BY <1>3, <2>1 DEF RowAlone, ActiveAlone, Alone, UriMatchesHash
  <2>4. doc[x].status \notin Settled
    BY <1>11, <2>1, <2>3 DEF Decision, Settled
  <2>5. doc[x].status \notin Occupied
    BY <2>2, <2>4 DEF Settled
  <2>6. d = "upload"
    BY <1>11, <2>1, <2>2, <2>5 DEF Decision
  <2>7. doc[x].uri = None \/ WipeFailed
    BY <1>3, <1>10, <2>1, <2>5 DEF RowAlone, ActiveAlone, WipeMarks
  <2> QED
    BY <2>1, <2>5, <2>6, <2>7
<1>12. UploadAlone(u)'
  <2>1. WipeFailed' <=> WipeFailed
    BY DEF WipeFailed
  <2>2. CASE d \in {"upload", "finalize"}
    <3>1. up'[u].pc = "claim" /\ up'[u].doc = x /\ up'[u].branch = "upload"
      BY <1>4, <1>11, <2>2 DEF claims
    <3> QED
      BY <1>1, <1>11, <2>1, <2>2, <3>1 DEF UploadAlone
  <2>3. CASE d \notin {"upload", "finalize"}
    BY <1>4, <1>5, <2>3 DEF UploadAlone, UpSteps, claims
  <2> QED
    BY <2>2, <2>3
<1>13. RowAlone(x)'
  <2>1. doc' = doc /\ objects' = objects /\ rm' = rm
    BY <1>1
  <2>2. (WipeFailed' <=> WipeFailed) /\ (WipeMarks' <=> WipeMarks) /\ Unrecorded' = Unrecorded
    BY <2>1 DEF WipeFailed, WipeMarks, Unrecorded
  <2>3. ActiveAlone(x)'
    BY <1>1, <1>3, <2>1, <2>2 DEF RowAlone, ActiveAlone
  <2>4. RemovedAlone(x)'
    BY <1>3, <2>1 DEF RowAlone, RemovedAlone, Removing
  <2>5. ASSUME NEW v \in Uploads, up[v].pc = "beta2"
        PROVE  up'[v].pc = "beta2" /\ Key(v)' = Key(v)
    BY <1>1, <1>2, <2>5 DEF Key
  <2>6. ObjectsKnown(x)'
    BY <1>3, <2>1, <2>2, <2>5 DEF RowAlone, ObjectsKnown
  <2> QED
    BY <1>3, <2>1, <2>3, <2>4, <2>6 DEF RowAlone
<1>14. ASSUME up'[u].pc = "existing"
       PROVE  /\ doc'[x].status \in Settled /\ doc'[x].uri = h
              /\ <<x, h>> \in objects' \cup Unrecorded
  <2>1. d = "existing"
    BY <1>4, <1>14 DEF claims
  <2>2. doc[x].state = "active" /\ doc[x].hash = h /\ doc[x].status \in Settled
    BY <2>1 DEF d, Decision, Active
  <2>3. doc[x].uri # None /\ <<x, doc[x].uri>> \in objects \cup Unrecorded
    BY <1>3, <2>2 DEF RowAlone, ActiveAlone
  <2>4. doc[x].uri = h
    BY <2>2, <2>3 DEF Alone, UriMatchesHash
  <2> QED
    BY <1>1, <2>2, <2>3, <2>4
<1>15. up'[u].pc # "ok"
  BY <1>4, <1>5 DEF claims
<1> QED
  BY <1>4, <1>8, <1>9, <1>12, <1>13, <1>14, <1>15 DEF Key

-----------------------------------------------------------------------------
\* Artifacts.

LEMMA TransitionTombs ==
    ASSUME Alone, NEW x \in Documents, NEW row \in DocType, SetBoth(x, row)
    PROVE  DeletedAreTombs'
<1>1. DeletedAreTombs /\ art \in [Artifacts -> ArtType] /\ row.status \in RawStatuses
      /\ row.link \in Artifacts \cup {None}
  BY AloneTypes DEF Alone, RowsTypeOK, DocType
<1>2. CASE row.link = None
  BY <1>1, <1>2 DEF SetBoth, DeletedAreTombs
<1>3. CASE row.link # None
  <2> DEFINE s == ArtifactStatus(row.status)
  <2>1. s \in {"stored", "pending", "available", "failed", "deleted"}
    BY <1>1 DEF ArtifactStatus, RawStatuses
  <2>2. art' = Transition(row.link, s)
    BY <1>3 DEF SetBoth
  <2> HIDE DEF s
  <2>3. \A a \in Artifacts \ {row.link} : art'[a] = art[a]
    BY <1>1, <1>3, <2>2 DEF Transition
  <2>4. \/ s = "deleted" /\ art'[row.link] = [art[row.link] EXCEPT !.status = s, !.tomb = TRUE,
                                                                  !.attempt = None]
        \/ s # "deleted" /\ art'[row.link] = [art[row.link] EXCEPT !.status = s]
    BY <1>1, <1>3, <2>2 DEF Transition
  <2>5. art[row.link] \in ArtType
    BY <1>1, <1>3
  <2>6. art'[row.link].status = s /\ (s = "deleted" => art'[row.link].tomb)
    BY <2>4, <2>5 DEF ArtType
  <2> QED
    BY <1>1, <2>1, <2>3, <2>6 DEF DeletedAreTombs, DeleteStarted
<1> QED
  BY <1>2, <1>3

LEMMA SwapTombs ==
    ASSUME Alone, NEW u \in Uploads, art' = Swapped(u)
    PROVE  DeletedAreTombs'
<1> DEFINE new == [NoArt EXCEPT !.status = "pending", !.uri = Key(u)]
           dead(a) == [art[a] EXCEPT !.status = "deleted", !.tomb = TRUE, !.attempt = None]
<1>1. DeletedAreTombs /\ art \in [Artifacts -> ArtType]
  BY AloneTypes DEF Alone, RowsTypeOK
<1>2. \A a \in Artifacts : art'[a] \in {new, dead(a), art[a]}
  BY DEF Swapped
<1>3. new.status = "pending"
  BY DEF NoArt
<1>4. \A a \in Artifacts : dead(a).tomb
  BY <1>1 DEF ArtType
<1> HIDE DEF new, dead
<1> QED
  BY <1>1, <1>2, <1>3, <1>4 DEF DeletedAreTombs, DeleteStarted

LEMMA SameTombs == ASSUME Alone, UNCHANGED art PROVE DeletedAreTombs'
BY DEF Alone, DeletedAreTombs

-----------------------------------------------------------------------------
\* Every upload step, and the registering of a document.

LEMMA AloneJoined ==
    ASSUME Alone, LinkInv', UriMatchesHash', NEW u \in Uploads, NEW x \in Documents,
           UploadAt(u, x), Turns', DeletedAreTombs', UploadAlone(u)', RowAlone(x)'
    PROVE  Alone'
<1>1. /\ \A v \in Uploads : UploadAlone(v)'
      /\ \A y \in Documents : RowAlone(y)'
      /\ \A w \in Removals : KeysAlone(w)' /\ WipeAlone(w)'
  BY UploadElsewhere
<1> QED
  BY <1>1 DEF Alone

LEMMA UploadStepAlone ==
    ASSUME Alone, Serial, LinkInv', UriMatchesHash', UploadStep
    PROVE  Alone' /\ \A u \in Uploads : UploadAnswerIsTrue(u)
<1>1. PICK u \in Uploads : UpStep(u) \/ CrashUpload(u)
                           \/ \E x \in Documents, h \in Hashes : BeginUpload(u, x, h)
  BY DEF UploadStep
<1>2. UNCHANGED <<rm, rec, setting>>
  BY DEF UploadStep
<1>3. UNCHANGED <<rm, setting, rec>> /\ Unrecorded' = Unrecorded
  BY <1>2 DEF Unrecorded
<1>4. ASSUME \A v \in Uploads \ {u} : up'[v] = up[v], UploadAnswerIsTrue(u)
      PROVE  \A v \in Uploads : UploadAnswerIsTrue(v)
  <2>1. \A v \in Uploads \ {u} : UploadAnswerIsTrue(v)
    BY <1>4 DEF UploadAnswerIsTrue
  <2> QED
    BY <1>4, <2>1
<1>5. CASE \E x \in Documents, h \in Hashes : BeginUpload(u, x, h)
  <2>1. PICK x \in Documents, h \in Hashes : BeginUpload(u, x, h)
    BY <1>5
  <2>2. /\ UploadAt(u, x) /\ Turns' /\ UploadAlone(u)' /\ RowAlone(x)'
        /\ up'[u].pc # "ok"
        /\ up'[u].pc = "existing" =>
              /\ doc'[x].status \in Settled /\ doc'[x].uri = up'[u].hash
              /\ Key(u)' \in objects' \cup Unrecorded
    BY <1>2, <2>1, BeginAlone
  <2>3. DeletedAreTombs'
    BY <2>1, SameTombs DEF BeginUpload, AlphaLoad
  <2>4. Alone'
    BY <2>2, <2>3, AloneJoined
  <2>5. (\A v \in Uploads \ {u} : up'[v] = up[v]) /\ up'[u].doc = x
    BY <2>2 DEF UploadAt
  <2>6. UploadAnswerIsTrue(u)
    BY <2>2, <2>5 DEF UploadAnswerIsTrue
  <2> QED
    BY <1>4, <2>4, <2>5, <2>6
<1>6. CASE UpStep(u) \/ CrashUpload(u)
  <2>1. PICK x \in Documents : up[u].doc = x
    <3>1. up[u].pc \in UpSteps
      BY <1>6 DEF UpStep, AlphaClaim, Put, FailClaimed, Beta2, Compensate, MarkBeta2Failure, Gamma,
         CrashUpload, UpSteps
    <3> QED
      BY <3>1, UploadIsAlone
  <2>2. ASSUME UploadGoes(u), UploadAlone(u)', RowAlone(x)', DeletedAreTombs',
               UploadAnswerIsTrue(u)
        PROVE  Alone' /\ \A v \in Uploads : UploadAnswerIsTrue(v)
    <3>1. UploadAt(u, x) /\ Turns'
      BY <2>1, <2>2, UploadGoesAt
    <3>2. Alone'
      BY <2>2, <3>1, AloneJoined
    <3> QED
      BY <1>4, <2>2, <3>2 DEF UploadGoes
  <2>3. CASE AlphaClaim(u)
    <3>1. UploadGoes(u) /\ UploadAlone(u)' /\ RowAlone(x)'
      BY <1>2, <2>1, <2>3, ClaimAlone
    <3>2. DeletedAreTombs'
      BY <2>3, SameTombs DEF AlphaClaim
    <3>3. up'[u].pc \notin {"ok", "existing"}
      BY <2>3, UploadGoto DEF AlphaClaim
    <3> QED
      BY <2>2, <3>1, <3>2, <3>3 DEF UploadAnswerIsTrue
  <2>4. CASE Put(u)
    <3>1. UploadGoes(u) /\ UploadAlone(u)' /\ RowAlone(x)'
      BY <1>2, <2>1, <2>4, PutAlone
    <3>2. DeletedAreTombs'
      BY <2>4, SameTombs DEF Put
    <3>3. up'[u].pc \in {"beta2", "failClaimed"}
      <4>1. CASE UpGoto(u, "failClaimed")
        BY <4>1, UploadGoto
      <4>2. ASSUME NEW s, up' = [up EXCEPT ![u] = [@ EXCEPT !.pc = "beta2", !.storedStatus = s]]
            PROVE  up'[u].pc = "beta2"
        BY <4>2, AloneTypes DEF UpType
      <4> QED
        BY <2>4, <4>1, <4>2 DEF Put
    <3> QED
      BY <2>2, <3>1, <3>2, <3>3 DEF UploadAnswerIsTrue
  <2>5. CASE FailClaimed(u)
    <3>1. UploadGoes(u) /\ UploadAlone(u)' /\ RowAlone(x)'
      BY <1>2, <2>1, <2>5, FailClaimedAlone
    <3>2. Failed(x, FALSE) \in DocType
      <4>1. doc[x] \in DocType
        BY AloneTypes
      <4> QED
        BY <4>1 DEF Failed, DocType, RawStatuses
    <3>3. DeletedAreTombs'
      BY <2>1, <2>5, <3>2, SameTombs, TransitionTombs DEF FailClaimed
    <3>4. up'[u].pc = "error"
      BY <2>5, UploadGoto DEF FailClaimed
    <3> QED
      BY <2>2, <3>1, <3>3, <3>4 DEF UploadAnswerIsTrue
  <2>6. CASE Beta2(u)
    <3>1. UploadGoes(u) /\ UploadAlone(u)' /\ RowAlone(x)' /\ art' = Swapped(u)
      BY <1>2, <2>1, <2>6, Beta2Alone
    <3>2. DeletedAreTombs'
      BY <3>1, SwapTombs
    <3>3. up'[u].pc \in {"gamma", "compensateLost", "compensateFailed"}
      BY <2>6, UploadGoto DEF Beta2
    <3> QED
      BY <2>2, <3>1, <3>2, <3>3 DEF UploadAnswerIsTrue
  <2>7. CASE Gamma(u)
    <3>1. /\ UploadGoes(u) /\ UploadAlone(u)' /\ RowAlone(x)'
          /\ doc'[x].status \in Settled /\ doc'[x].uri = up[u].hash /\ Key(u)' \in objects'
      BY <1>2, <2>1, <2>7, GammaAlone
    <3>2. DeletedAreTombs'
      <4>1. doc[x] \in DocType
        BY AloneTypes
      <4> DEFINE s == FinalStatus(up[u].storedStatus)
      <4>2. s \in RawStatuses
        BY DEF FinalStatus, RawStatuses
      <4> HIDE DEF s
      <4>3. [doc[x] EXCEPT !.status = s, !.claim = None, !.hint = FALSE] \in DocType
        BY <4>1, <4>2 DEF DocType
      <4>4. \/ UNCHANGED art
            \/ SetBoth(x, [doc[x] EXCEPT !.status = s, !.claim = None, !.hint = FALSE])
        BY <2>1, <2>7 DEF Gamma, s
      <4> QED
        BY <4>3, <4>4, SameTombs, TransitionTombs
    <3>3. up'[u].doc = x /\ up'[u].hash = up[u].hash
      BY <2>1, <3>1 DEF UploadGoes
    <3>4. UploadAnswerIsTrue(u)
      BY <3>1, <3>3 DEF UploadAnswerIsTrue
    <3> QED
      BY <2>2, <3>1, <3>2, <3>4
  <2>8. CASE Compensate(u) \/ MarkBeta2Failure(u) \/ CrashUpload(u)
    <3>1. up[u].pc \in {"compensateLost", "compensateFailed", "markCleaned", "markOrphan"}
      BY <2>8, SerialMeans DEF Compensate, MarkBeta2Failure, CrashUpload
    <3>2. up[u].pc \in UpSteps
      BY <3>1 DEF UpSteps
    <3>3. UploadAlone(u)
      BY DEF Alone
    <3> QED
      BY <3>1, <3>2, <3>3 DEF UploadAlone
  <2> QED
    BY <1>6, <2>3, <2>4, <2>5, <2>6, <2>7, <2>8 DEF UpStep
<1> QED
  BY <1>1, <1>5, <1>6

\* A document that is registered has no object, and nobody has a key of it.
LEMMA RegisterAlone ==
    ASSUME Alone, Serial, LinkInv', UriMatchesHash', RegisterStep
    PROVE  Alone'
<1>1. PICK x \in Documents : Register(x)
  BY DEF RegisterStep
<1>2. /\ doc[x].state = "absent" /\ UNCHANGED <<objects, lock, up, rm, rec, setting>>
      /\ RowAlone(x)
  BY <1>1 DEF RegisterStep, Register, Alone
<1>3. PICK row : /\ doc' = [doc EXCEPT ![x] = row]
                 /\ row.state = "active" /\ row.uri = None /\ row.status = "pointer_recorded"
  <2> DEFINE linked(h) == [NoDoc EXCEPT !.state = "active", !.hash = h, !.link = x]
             bare(h) == [NoDoc EXCEPT !.state = "active", !.hash = h]
  <2>1. \A h : \A row \in {linked(h), bare(h)} :
           row.state = "active" /\ row.uri = None /\ row.status = "pointer_recorded"
    BY DEF NoDoc
  <2>2. PICK h \in setting.hashes \cup {None} :
          doc' = [doc EXCEPT ![x] = linked(h)] \/ doc' = [doc EXCEPT ![x] = bare(h)]
    BY <1>1 DEF Register
  <2> HIDE DEF linked, bare
  <2> QED
    BY <2>1, <2>2
<1>4. doc'[x] = row /\ \A y \in Documents \ {x} : doc'[y] = doc[y]
  BY <1>3, RowWritten
<1>5. DeletedAreTombs'
  <2>1. DeletedAreTombs /\ art \in [Artifacts -> ArtType]
    BY AloneTypes DEF Alone, RowsTypeOK
  <2>2. [NoArt EXCEPT !.status = "stored"].status \notin DeleteStarted
    BY DEF NoArt, DeleteStarted
  <2>3. \A a \in Artifacts : art'[a] = art[a] \/ art'[a] = [NoArt EXCEPT !.status = "stored"]
    BY <1>1, <2>1 DEF Register
  <2> QED
    BY <2>1, <2>2, <2>3 DEF DeletedAreTombs
<1>6. (WipeFailed' <=> WipeFailed) /\ (WipeMarks' <=> WipeMarks) /\ Unrecorded' = Unrecorded
  BY <1>2 DEF WipeFailed, WipeMarks, Unrecorded
<1>7. Turns'
  BY <1>2 DEF Alone, Turns
<1>8. ASSUME NEW u \in Uploads
      PROVE  UploadAlone(u)' /\ (up[u].pc \in UpSteps => up[u].doc # x)
  <2>1. CASE up[u].pc \notin UpSteps
    BY <1>2, <2>1 DEF UploadAlone
  <2>2. CASE up[u].pc \in UpSteps
    <3>1. up[u].doc \in Documents \ {x}
      BY <1>2, <2>2, UploadIsAlone
    <3>2. doc'[up'[u].doc] = doc[up[u].doc] /\ up'[u] = up[u] /\ Key(u)' = Key(u)
      BY <1>2, <1>4, <3>1 DEF Key
    <3>3. UploadAlone(u)
      BY DEF Alone
    <3> QED
      BY <1>2, <1>6, <2>2, <3>1, <3>2, <3>3 DEF UploadAlone
  <2> QED
    BY <2>1, <2>2
<1>9. ASSUME NEW y \in Documents
      PROVE  RowAlone(y)'
  <2>1. (\A v \in Uploads : Key(v)' = Key(v)) /\ Uploading(y)' = Uploading(y) /\ Removing(y)' = Removing(y)
    BY <1>2 DEF Key, Uploading, Removing
  <2>2. CASE y # x
    <3>1. doc'[y] = doc[y] /\ RowAlone(y)
      BY <1>4, <2>2 DEF Alone
    <3>2. ActiveAlone(y)'
      BY <1>2, <1>6, <2>1, <3>1 DEF RowAlone, ActiveAlone
    <3>3. RemovedAlone(y)'
      BY <1>2, <2>1, <3>1 DEF RowAlone, RemovedAlone
    <3>4. ObjectsKnown(y)'
      BY <1>2, <1>6, <2>1, <3>1 DEF RowAlone, ObjectsKnown
    <3> QED
      BY <3>1, <3>2, <3>3, <3>4 DEF RowAlone
  <2>3. CASE y = x
    <3>1. ActiveAlone(x)' /\ RemovedAlone(x)'
      BY <1>3, <1>4 DEF ActiveAlone, RemovedAlone, Settled, Occupied
    <3>2. doc[x].uri = None /\ ObjectsKnown(x)
      BY <1>2 DEF RowAlone
    <3>3. ObjectsKnown(x)'
      BY <1>2, <1>3, <1>4, <1>6, <2>1, <3>2 DEF ObjectsKnown
    <3> QED
      BY <1>3, <1>4, <2>3, <3>1, <3>3 DEF RowAlone
  <2> QED
    BY <2>2, <2>3
<1>10. \A y \in Documents : <<y, None>> \notin objects
  BY AloneTypes, NamesAssumption DEF Keys
<1>11. ASSUME NEW w \in Removals
       PROVE  KeysAlone(w)' /\ WipeAlone(w)'
  <2>1. KeysAlone(w) /\ WipeAlone(w) /\ rm' = rm /\ rm[w] \in RmType
    BY <1>2, AloneTypes DEF Alone
  <2>2. WipeAlone(w)'
    <3>1. \A y \in Documents : doc'[y].state = "active" /\ <<y, doc'[y].uri>> \in objects =>
             doc'[y] = doc[y]
      BY <1>3, <1>4, <1>10
    <3>2. objects' = objects
      BY <1>2
    <3> QED
      BY <2>1, <3>1, <3>2 DEF WipeAlone
  <2>3. CASE rm[w].pc \notin RmSteps
    BY <2>1, <2>2, <2>3 DEF KeysAlone
  <2>4. CASE rm[w].pc \in RmSteps
    <3>1. ASSUME NEW k \in rm[w].blobs \cup rm[w].cleaned \cup rm[w].failed,
                 rm[w].pc # "dropArtifacts"
          PROVE  k[1] \in Documents \ {x}
      <4>1. k[1] \in Documents /\ k[2] # None
        BY <2>1, KeysOfUri DEF RmType
      <4>2. k[2] = doc[k[1]].uri
        BY <2>1, <2>4, <3>1 DEF KeysAlone
      <4> QED
        BY <1>2, <4>1, <4>2 DEF RowAlone
    <3>2. rm[w].scope \subseteq Documents /\ objects' = objects
      BY <1>2, <2>1 DEF RmType
    <3>3. \A y \in rm[w].scope : doc'[y] = doc[y] \/ doc'[y].uri = None
      BY <1>3, <1>4, <3>2
    <3>4. rm[w].pc = "softDelete" => rm[w].pc # "dropArtifacts"
      OBVIOUS
    <3> QED
      BY <1>4, <2>1, <2>2, <2>4, <3>1, <3>2, <3>3, <3>4 DEF KeysAlone
  <2> QED
    BY <2>2, <2>3, <2>4
<1> QED
  BY <1>5, <1>7, <1>8, <1>9, <1>11 DEF Alone

-----------------------------------------------------------------------------
\* Removals.

LEMMA RemovalIsAlone ==
    ASSUME Alone, NEW w \in Removals, rm[w].pc \in RmSteps
    PROVE  /\ rm[w] \in RmType /\ rm[w].scope \subseteq Documents
           /\ KeysAlone(w) /\ WipeAlone(w) /\ RemovalOrder(w)
           /\ \A v \in Removals \ {w} :
                 rm[v].pc \in RmSteps => \A x \in rm[w].scope : x \notin rm[v].scope
           /\ \A u \in Uploads : up[u].pc \in UpSteps => up[u].doc \notin rm[w].scope
<1>1. rm[w] \in RmType
  BY AloneTypes
<1>2. rm[w].scope \subseteq Documents
  BY <1>1 DEF RmType
<1>3. KeysAlone(w) /\ WipeAlone(w) /\ RemovalOrder(w)
  BY DEF Alone, LinkInv
<1>4. Turns
  BY DEF Alone
<1>5. \A v \in Removals \ {w} :
         rm[v].pc \in RmSteps => \A x \in rm[w].scope : x \notin rm[v].scope
  BY <1>4 DEF Turns
<1>6. \A u \in Uploads : up[u].pc \in UpSteps => up[u].doc \notin rm[w].scope
  BY <1>4 DEF Turns
<1> QED
  BY <1>1, <1>2, <1>3, <1>5, <1>6

\* What a step of a removal past its first does to the rest.
RemovalGoes(w) ==
    /\ \A y \in Documents \ rm[w].scope : doc'[y] = doc[y]
    /\ objects' \subseteq objects
    /\ \A k \in objects : k[1] \notin rm[w].scope => k \in objects'
    /\ rm[w].kind = "user" =>
          /\ rm[w].cleaned \subseteq rm'[w].cleaned
          /\ rm[w].pc = "mark" => rm'[w].pc \in {"mark", "error"}
    /\ UNCHANGED <<up, rec, setting>>

LEMMA RemovalGoesAt ==
    ASSUME Alone, NEW w \in Removals, RmStep(w), RemovalGoes(w)
    PROVE  RemovalAt(w) /\ Turns'
<1>1. /\ rm[w].pc \in RmSteps
      /\ rm'[w].kind = rm[w].kind /\ rm'[w].scope = rm[w].scope
      /\ \A v \in Removals \ {w} : rm'[v] = rm[v]
  BY AloneTypes, RemovalGoesOn
<1>2. objects \subseteq Keys
  BY AloneTypes
<1>3. \A v \in Removals \ {w} :
         rm'[v] = rm[v] /\ (rm[v].pc \in RmSteps => \A x \in rm'[w].scope : x \notin rm[v].scope)
  BY <1>1, RemovalIsAlone
<1>4. \A u \in Uploads : up[u].pc \in UpSteps => up[u].doc \notin rm'[w].scope
  BY <1>1, RemovalIsAlone
<1>5. rm'[w].scope \subseteq Documents
  BY <1>1, RemovalIsAlone
<1>6. RemovalAt(w)
  BY <1>1, <1>2, <1>3, <1>4, <1>5 DEF RemovalAt, RemovalGoes
<1>7. \A v \in Removals : rm'[v].scope = rm[v].scope /\ (rm'[v].pc \in RmSteps => rm[v].pc \in RmSteps)
  BY <1>1
<1>8. Turns /\ up' = up /\ rec' = rec
  BY DEF Alone, RemovalGoes
<1>9. Turns'
  BY <1>7, <1>8 DEF Turns
<1> QED
  BY <1>6, <1>9

LEMMA RemovalJoined ==
    ASSUME Alone, LinkInv', UriMatchesHash', NEW w \in Removals, RemovalAt(w), Turns',
           DeletedAreTombs', KeysAlone(w)', WipeAlone(w)', \A x \in rm'[w].scope : RowAlone(x)'
    PROVE  Alone'
<1>1. /\ \A u \in Uploads : UploadAlone(u)'
      /\ \A y \in Documents \ rm'[w].scope : RowAlone(y)'
      /\ \A v \in Removals \ {w} : KeysAlone(v)' /\ WipeAlone(v)'
  BY RemovalElsewhere
<1>2. \A y \in Documents : RowAlone(y)'
  BY <1>1
<1>3. \A v \in Removals : KeysAlone(v)' /\ WipeAlone(v)'
  BY <1>1
<1> QED
  BY <1>1, <1>2, <1>3 DEF Alone

\* A row that a removal does not write: it keeps what it knows of the row's object.
LEMMA RowKept ==
    ASSUME Alone, NEW w \in Removals, RemovalAt(w), NEW x \in Documents, x \in rm'[w].scope,
           doc'[x] = doc[x], objects' \subseteq objects,
           doc[x].state = "active" /\ <<x, doc[x].uri>> \in objects \ objects' =>
              <<x, doc[x].uri>> \in Unrecorded',
           /\ doc[x].state = "deleted" /\ <<x, doc[x].uri>> \in objects'
           /\ doc[x].status # "raw_storage_failed"
           /\ rm[w].pc \in RmSteps /\ <<x, doc[x].uri>> \in rm[w].blobs \cup rm[w].failed
           => rm'[w].pc \in RmSteps /\ <<x, doc[x].uri>> \in rm'[w].blobs \cup rm'[w].failed
    PROVE  RowAlone(x)'
<1>1. RowAlone(x) /\ up' = up
  BY DEF Alone, RemovalAt
<1>2. /\ WipeFailed => WipeFailed'
      /\ WipeMarks => WipeMarks' \/ WipeFailed'
      /\ Unrecorded \subseteq Unrecorded'
  BY RemovalElsewhere
<1>3. Uploading(x)' = Uploading(x) /\ \A u \in Uploads : Key(u)' = Key(u)
  BY <1>1 DEF Uploading, Key
<1>4. ActiveAlone(x)'
  BY <1>1, <1>2, <1>3 DEF RowAlone, ActiveAlone
<1>5. \A v \in Removing(x) : v = w /\ rm[w].pc \in RmSteps
  BY DEF Removing, RemovalAt
<1>6. w \in Removing(x)' <=> rm'[w].pc \in RmSteps
  BY DEF Removing
<1>7. RemovedAlone(x)'
  BY <1>1, <1>5, <1>6 DEF RowAlone, RemovedAlone
<1>8. ObjectsKnown(x)'
  BY <1>1, <1>2, <1>3 DEF RowAlone, ObjectsKnown
<1> QED
  BY <1>1, <1>4, <1>7, <1>8 DEF RowAlone

\* What a removal finds of a document that is removed is what its row names.
LEMMA KnownToRemoval ==
    ASSUME Alone, NEW w \in Removals, rm[w].pc \in RmSteps, NEW x \in rm[w].scope,
           doc[x].state # "wiped", NEW k \in objects, k[1] = x
    PROVE  WipeFailed \/ k = <<x, doc[x].uri>>
<1>1. ObjectsKnown(x) /\ k \in Keys
  BY RemovalIsAlone, AloneTypes DEF Alone, RowAlone
<1>2. ASSUME NEW u \in Uploads, up[u].pc = "beta2", Key(u) = k
      PROVE  FALSE
  BY <1>2, RemovalIsAlone DEF Key, UpSteps
<1> QED
  BY <1>1, <1>2, KeysOfUri DEF ObjectsKnown

\* What is left to show of a step of removal w.
RemovalDone(w) ==
    /\ RemovalAt(w) /\ Turns'
    /\ KeysAlone(w)' /\ WipeAlone(w)'
    /\ \A x \in rm'[w].scope : RowAlone(x)'

\* The objects of active documents are all on the list of their removal.
LEMMA ListedAlone ==
    ASSUME Alone, NEW scope \in SUBSET Documents
    PROVE  /\ \A k \in ManagedBlobs(scope) :
                 k[1] \in scope /\ k[2] = doc[k[1]].uri /\ doc[k[1]].state = "active"
           /\ \A x \in scope : doc[x].state = "active" /\ doc[x].uri # None =>
                 <<x, doc[x].uri>> \in ManagedBlobs(scope)
<1>1. \A x \in scope : doc[x].uri # None => doc[x].mode = "managed_blob"
  BY DEF Alone, RowAlone
<1> QED
  BY <1>1 DEF ManagedBlobs, Active

LEMMA ListAlone ==
    ASSUME Alone, Serial, NEW w \in Removals, NEW scope \in SUBSET Documents,
           NEW kind \in {"document", "source", "user"},
           \/ /\ kind = "document" /\ \A x, y \in scope : x = y
              /\ BeginRemoval(w, kind, scope)
           \/ kind = "source" /\ BeginRemoval(w, kind, scope)
           \/ kind = "user" /\ scope = Documents /\ BeginWipe(w),
           UNCHANGED <<up, rec, setting>>
    PROVE  RemovalDone(w) /\ rm'[w].pc # "ok" /\ UNCHANGED <<doc, art, objects>>
<1> DEFINE blobs == ManagedBlobs(scope)
           first == IF kind # "user" THEN "softDelete"
                    ELSE IF blobs = {} THEN "dropDocuments" ELSE "cleanup"
           e == [NoRemoval EXCEPT !.pc = first, !.kind = kind, !.scope = scope, !.blobs = blobs]
<1>1. MayRemove(scope) /\ rm[w].pc = "none" /\ UNCHANGED <<doc, art, objects>>
  BY DEF BeginRemoval, BeginWipe, ListBlobs, ListForWipe, rows
<1>2. rm' = [rm EXCEPT ![w] = e]
  BY DEF BeginRemoval, BeginWipe, ListBlobs, ListForWipe
<1>3. rm'[w] = e /\ \A v \in Removals \ {w} : rm'[v] = rm[v]
  BY <1>2, AloneTypes
<1> HIDE DEF first, blobs
<1>4. /\ rm'[w].pc = first /\ rm'[w].kind = kind /\ rm'[w].scope = scope /\ rm'[w].blobs = blobs
      /\ rm'[w].cleaned = {} /\ rm'[w].failed = {}
  BY <1>3 DEF NoRemoval
<1> HIDE DEF e
<1>5. \A x \in scope : Uploading(x) = {} /\ Removing(x) = {}
  BY <1>1, SerialMeans DEF MayRemove
<1>6. \A v \in Removals \ {w} : rm[v].pc \in RmSteps => \A x \in scope : x \notin rm[v].scope
  BY <1>5 DEF Removing
<1>7. \A u \in Uploads : up[u].pc \in UpSteps => up[u].doc \notin scope
  BY <1>5 DEF Uploading
<1>8. rm[w].kind # "user"
  BY <1>1 DEF Alone, LinkInv, RemovalOrder
<1>9. RemovalAt(w)
  <2>1. rm[w].pc \notin RmSteps
    BY <1>1 DEF RmSteps
  <2>2. objects' = objects /\ doc' = doc /\ objects \subseteq Keys
    BY <1>1, AloneTypes
  <2> QED
    BY <1>1, <1>3, <1>4, <1>6, <1>7, <1>8, <2>1, <2>2 DEF RemovalAt
<1>10. Turns'
  <2>1. Turns /\ up' = up /\ rec' = rec
    BY DEF Alone
  <2> QED
    BY <1>3, <1>4, <1>6, <1>7, <2>1 DEF Turns
<1>11. ASSUME NEW x \in scope PROVE RowAlone(x)'
  <2>1. rm[w].pc \notin RmSteps
    BY <1>1 DEF RmSteps
  <2> QED
    BY <1>1, <1>4, <1>9, <2>1, RowKept
<1>12. /\ \A k \in blobs : k[1] \in scope /\ k[2] = doc[k[1]].uri /\ doc[k[1]].state = "active"
       /\ \A x \in scope : doc[x].state = "active" /\ doc[x].uri # None => <<x, doc[x].uri>> \in blobs
  BY ListedAlone DEF blobs
<1>13. first \in {"softDelete", "dropDocuments", "cleanup"}
       /\ (first = "softDelete" <=> kind # "user") /\ (first = "dropDocuments" => blobs = {})
  BY DEF first
<1>14. kind = "document" => \A x, y \in scope : x = y
  OBVIOUS
<1>15. KeysAlone(w)'
  BY <1>1, <1>4, <1>12, <1>13, <1>14 DEF KeysAlone
<1>16. \A x \in Documents : <<x, None>> \notin objects
  BY AloneTypes, NamesAssumption DEF Keys
<1>17. WipeAlone(w)'
  <2>1. kind = "user" => scope = Documents
    OBVIOUS
  <2>2. doc' = doc /\ objects' = objects
    BY <1>1
  <2> QED
    BY <1>4, <1>12, <1>13, <1>16, <2>1, <2>2 DEF WipeAlone
<1> QED
  BY <1>1, <1>4, <1>9, <1>10, <1>11, <1>13, <1>15, <1>17 DEF RemovalDone

\* The commit hands on every object of the documents it has deleted.
LEMMA SoftDeleteAlone ==
    ASSUME Alone, Serial, NEW w \in Removals, SoftDelete(w), UNCHANGED <<up, rec, setting>>
    PROVE  RemovalDone(w) /\ rm'[w].pc # "ok"
<1> DEFINE scope == rm[w].scope
           blobs == IF rm[w].kind = "document" /\ ~\E x \in scope : Active(x)
                    THEN {} ELSE rm[w].blobs
           dead(x) == [doc[x] EXCEPT !.state = "deleted"]
<1>1. /\ rm[w].pc = "softDelete" /\ rm[w].pc \in RmSteps /\ UNCHANGED objects
      /\ doc' = [x \in Documents |-> IF x \in scope THEN dead(x) ELSE doc[x]]
      /\ rm' = [rm EXCEPT ![w] = [@ EXCEPT !.blobs = blobs,
                                           !.pc = IF blobs = {} THEN "lookup" ELSE "cleanup"]]
  BY SerialMeans DEF SoftDelete, RmSteps
<1>2. /\ rm[w] \in RmType /\ scope \subseteq Documents /\ KeysAlone(w)
      /\ rm[w].kind # "user" /\ \A x \in scope : HasRow(x)
  BY <1>1, RemovalIsAlone DEF RemovalOrder
<1>3. /\ rm[w].cleaned = {} /\ rm[w].failed = {}
      /\ \A k \in rm[w].blobs : k[1] \in scope /\ k[2] = doc[k[1]].uri /\ doc[k[1]].state = "active"
      /\ \A x \in scope : doc[x].state = "active" /\ doc[x].uri # None =>
            <<x, doc[x].uri>> \in rm[w].blobs
      /\ rm[w].kind = "document" => \A x, y \in scope : x = y
  BY <1>1, <1>2 DEF KeysAlone
<1>4. blobs = rm[w].blobs
  <2>1. ASSUME NEW k \in rm[w].blobs PROVE Active(k[1]) /\ k[1] \in scope
    BY <1>3 DEF Active
  <2> QED
    BY <2>1
<1>5. rm'[w] = [rm[w] EXCEPT !.blobs = blobs, !.pc = IF blobs = {} THEN "lookup" ELSE "cleanup"]
  BY <1>1, AloneTypes
<1> HIDE DEF blobs
<1>6. /\ rm'[w].blobs = rm[w].blobs /\ rm'[w].cleaned = {} /\ rm'[w].failed = {}
      /\ rm'[w].scope = scope /\ rm'[w].kind = rm[w].kind
      /\ rm'[w].pc = IF rm[w].blobs = {} THEN "lookup" ELSE "cleanup"
  BY <1>2, <1>3, <1>4, <1>5 DEF RmType
<1>7. ASSUME NEW x \in scope
      PROVE  /\ doc'[x].state = "deleted" /\ doc'[x].uri = doc[x].uri
             /\ doc'[x].mode = doc[x].mode /\ doc'[x].status = doc[x].status
  <2>1. doc'[x] = dead(x) /\ doc[x] \in DocType
    BY <1>1, <1>2, AloneTypes
  <2> QED
    BY <2>1 DEF DocType
<1>8. \A y \in Documents \ scope : doc'[y] = doc[y]
  BY <1>1
<1>9. RemovalAt(w) /\ Turns'
  BY <1>1, <1>2, <1>8, RemovalGoesAt DEF RemovalGoes, RmStep
<1>10. ASSUME NEW x \in scope PROVE RowAlone(x)'
  <2>1. RowAlone(x) /\ x \in Documents /\ doc[x].state \in {"active", "deleted"}
    BY <1>2 DEF Alone, HasRow
  <2>2. ASSUME <<x, doc[x].uri>> \in objects, doc[x].status # "raw_storage_failed"
        PROVE  <<x, doc[x].uri>> \in rm[w].blobs
    <3>1. CASE doc[x].state = "active"
      <4>1. doc[x].uri # None
        BY <2>2, AloneTypes, NamesAssumption DEF Keys
      <4> QED
        BY <1>3, <3>1, <4>1
    <3>2. CASE doc[x].state = "deleted"
      <4>1. PICK v \in Removing(x) : <<x, doc[x].uri>> \in rm[v].blobs \cup rm[v].failed
        BY <2>1, <2>2, <3>2 DEF RowAlone, RemovedAlone
      <4>2. v = w
        BY <1>1, <4>1, RemovalIsAlone DEF Removing
      <4> QED
        BY <1>3, <4>1, <4>2
    <3> QED
      BY <2>1, <3>1, <3>2
  <2>3. RemovedAlone(x)'
    <3>1. ASSUME <<x, doc[x].uri>> \in objects, doc[x].status # "raw_storage_failed"
          PROVE  w \in Removing(x)' /\ <<x, doc[x].uri>> \in rm'[w].blobs
      <4>1. <<x, doc[x].uri>> \in rm[w].blobs
        BY <2>2, <3>1
      <4>2. rm'[w].pc = "cleanup"
        BY <1>6, <4>1
      <4> QED
        BY <1>6, <4>1, <4>2 DEF Removing, RmSteps
    <3>2. doc'[x].uri = doc[x].uri /\ doc'[x].status = doc[x].status /\ objects' = objects
      BY <1>1, <1>7
    <3> QED
      BY <3>1, <3>2 DEF RemovedAlone
  <2>4. ActiveAlone(x)'
    BY <1>7 DEF ActiveAlone
  <2>5. ObjectsKnown(x)'
    <3>1. WipeFailed => WipeFailed'
      BY <1>9, RemovalElsewhere
    <3>2. (\A v \in Uploads : Key(v)' = Key(v)) /\ up' = up
      BY DEF Key
    <3> QED
      BY <1>1, <1>7, <2>1, <3>1, <3>2 DEF RowAlone, ObjectsKnown
  <2> QED
    BY <1>7, <2>1, <2>3, <2>4, <2>5 DEF RowAlone
<1>11. KeysAlone(w)'
  <2>1. \A k \in rm[w].blobs : k[1] \in scope /\ k[2] = doc'[k[1]].uri
    BY <1>3, <1>7
  <2> QED
    BY <1>3, <1>6, <2>1 DEF KeysAlone
<1>12. WipeAlone(w)'
  BY <1>2, <1>6 DEF WipeAlone
<1> QED
  BY <1>6, <1>9, <1>10, <1>11, <1>12 DEF RemovalDone

\* A lookup that finds nothing means that there is nothing.
LEMMA LookupAlone ==
    ASSUME Alone, Serial, NEW w \in Removals, LookupOrphans(w), UNCHANGED <<up, rec, setting>>
    PROVE  RemovalDone(w) /\ (rm'[w].pc = "ok" => NoObjectLeft(w)' \/ WipeFailed)
<1> DEFINE orphans == OrphanedBlobs(rm[w].scope)
<1>1. /\ rm[w].pc = "lookup" /\ rm[w].pc \in RmSteps /\ UNCHANGED <<doc, objects>>
      /\ rm' = [rm EXCEPT ![w] = [@ EXCEPT !.blobs = orphans,
                                           !.pc = IF orphans = {} THEN "ok" ELSE "cleanup"]]
  BY SerialMeans DEF LookupOrphans, RmSteps, rows
<1>2. /\ rm[w] \in RmType /\ rm[w].scope \subseteq Documents /\ KeysAlone(w)
      /\ rm[w].kind # "user" /\ \A x \in rm[w].scope : doc[x].state = "deleted"
  BY <1>1, RemovalIsAlone DEF RemovalOrder
<1>3. /\ rm[w].blobs = {} /\ rm[w].cleaned = {} /\ rm[w].failed = {}
      /\ rm[w].kind = "document" => \A x, y \in rm[w].scope : x = y
  BY <1>1, <1>2 DEF KeysAlone
<1>4. rm'[w] = [rm[w] EXCEPT !.blobs = orphans, !.pc = IF orphans = {} THEN "ok" ELSE "cleanup"]
  BY <1>1, AloneTypes
<1>5. \A k \in orphans : k[1] \in rm[w].scope /\ k[2] = doc[k[1]].uri
  BY DEF OrphanedBlobs
<1>6. ASSUME NEW x \in rm[w].scope, <<x, doc[x].uri>> \in objects
      PROVE  <<x, doc[x].uri>> \in orphans
  <2>1. RowAlone(x)
    BY <1>2 DEF Alone
  <2>2. doc[x].uri # None
    BY <1>6, AloneTypes, NamesAssumption DEF Keys
  <2>3. doc[x].status = "raw_storage_failed"
    <3>1. ASSUME NEW v \in Removing(x), <<x, doc[x].uri>> \in rm[v].blobs \cup rm[v].failed
          PROVE  FALSE
      <4>1. v = w
        BY <1>1, <1>6, <3>1, RemovalIsAlone DEF Removing
      <4> QED
        BY <1>3, <3>1, <4>1
    <3> QED
      BY <1>2, <1>6, <2>1, <3>1 DEF RowAlone, RemovedAlone
  <2> QED
    BY <1>2, <2>1, <2>2, <2>3 DEF OrphanedBlobs, RowAlone
<1> HIDE DEF orphans
<1>7. /\ rm'[w].blobs = orphans /\ rm'[w].cleaned = {} /\ rm'[w].failed = {}
      /\ rm'[w].scope = rm[w].scope /\ rm'[w].kind = rm[w].kind
      /\ rm'[w].pc = IF orphans = {} THEN "ok" ELSE "cleanup"
  BY <1>2, <1>3, <1>4 DEF RmType
<1>8. RemovalAt(w) /\ Turns'
  BY <1>1, <1>2, RemovalGoesAt DEF RemovalGoes, RmStep
<1>9. \A x \in rm'[w].scope : RowAlone(x)'
  BY <1>1, <1>2, <1>3, <1>7, <1>8, RowKept
<1>10. KeysAlone(w)'
  BY <1>1, <1>3, <1>5, <1>7 DEF KeysAlone
<1>11. WipeAlone(w)'
  BY <1>2, <1>7 DEF WipeAlone
<1>12. ASSUME rm'[w].pc = "ok", ~WipeFailed, NEW k \in objects, k[1] \in rm[w].scope
       PROVE  FALSE
  <2>1. orphans = {}
    BY <1>7, <1>12
  <2>2. k = <<k[1], doc[k[1]].uri>>
    BY <1>1, <1>2, <1>12, KnownToRemoval
  <2> QED
    BY <1>6, <1>12, <2>1, <2>2
<1>13. rm'[w].pc = "ok" => NoObjectLeft(w)' \/ WipeFailed
  BY <1>1, <1>7, <1>12 DEF NoObjectLeft
<1> QED
  BY <1>8, <1>9, <1>10, <1>11, <1>13 DEF RemovalDone

\* A key leaves the list for the cleaned or the failed ones.
LEMMA CleanupAlone ==
    ASSUME Alone, Serial, NEW w \in Removals, NEW b \in Keys, CleanupBlob(w, b),
           UNCHANGED <<up, rec, setting>>
    PROVE  RemovalDone(w) /\ rm'[w].pc # "ok" /\ UNCHANGED doc
<1> DEFINE rest == rm[w].blobs \ {b}
           next(failed) == IF rest = {} THEN AfterCleanup(w, failed) ELSE "cleanup"
           scope == rm[w].scope
<1>1. /\ rm[w].pc = "cleanup" /\ rm[w].pc \in RmSteps /\ b \in rm[w].blobs /\ UNCHANGED doc
      /\ objects' \subseteq objects /\ objects \ objects' \subseteq {b}
  BY DEF CleanupBlob, RmSteps
<1>2. /\ rm[w] \in RmType /\ scope \subseteq Documents /\ KeysAlone(w) /\ WipeAlone(w)
      /\ rm[w].kind # "user" => \A x \in scope : doc[x].state = "deleted"
      /\ rm[w].kind = "user" => scope = Documents
  BY <1>1, RemovalIsAlone DEF RemovalOrder
<1>3. /\ rm[w].cleaned \cap objects = {}
      /\ \A k \in rm[w].blobs \cup rm[w].cleaned \cup rm[w].failed :
            k[1] \in scope /\ k[2] = doc[k[1]].uri
      /\ rm[w].kind = "document" => \A x, y \in scope : x = y
  BY <1>1, <1>2 DEF KeysAlone
<1>4. PICK gone \in BOOLEAN :
         /\ rm'[w].blobs = rest /\ rm'[w].scope = scope /\ rm'[w].kind = rm[w].kind
         /\ gone => /\ b \notin objects' /\ rm'[w].cleaned = rm[w].cleaned \cup {b}
                    /\ rm'[w].failed = rm[w].failed /\ rm'[w].pc = next(rm[w].failed)
         /\ ~gone => /\ objects' = objects /\ rm'[w].cleaned = rm[w].cleaned
                     /\ rm'[w].failed = rm[w].failed \cup {b} /\ rm'[w].pc = next({b})
  <2> HIDE DEF next, rest
  <2>1. CASE /\ objects' = objects \ {b}
             /\ rm' = [rm EXCEPT ![w] = [@ EXCEPT !.pc = next(rm[w].failed), !.blobs = rest,
                                                  !.cleaned = rm[w].cleaned \cup {b}]]
    <3>1. rm'[w] = [rm[w] EXCEPT !.pc = next(rm[w].failed), !.blobs = rest,
                                 !.cleaned = rm[w].cleaned \cup {b}]
      BY <2>1, AloneTypes
    <3>2. /\ rm'[w].pc = next(rm[w].failed) /\ rm'[w].blobs = rest /\ rm'[w].scope = scope
          /\ rm'[w].kind = rm[w].kind /\ rm'[w].cleaned = rm[w].cleaned \cup {b}
          /\ rm'[w].failed = rm[w].failed
      BY <1>2, <3>1 DEF RmType
    <3> QED
      BY <2>1, <3>2
  <2>2. CASE /\ objects' = objects
             /\ rm' = [rm EXCEPT ![w] = [@ EXCEPT !.pc = next({b}), !.blobs = rest,
                                                  !.failed = rm[w].failed \cup {b}]]
    <3>1. rm'[w] = [rm[w] EXCEPT !.pc = next({b}), !.blobs = rest,
                                 !.failed = rm[w].failed \cup {b}]
      BY <2>2, AloneTypes
    <3>2. /\ rm'[w].pc = next({b}) /\ rm'[w].blobs = rest /\ rm'[w].scope = scope
          /\ rm'[w].kind = rm[w].kind /\ rm'[w].cleaned = rm[w].cleaned
          /\ rm'[w].failed = rm[w].failed \cup {b}
      BY <1>2, <3>1 DEF RmType
    <3> QED
      BY <2>2, <3>2
  <2> QED
    BY <2>1, <2>2 DEF CleanupBlob, next, rest
<1>5. /\ rm'[w].pc \in {"cleanup", "mark", "dropDocuments"}
      /\ rm'[w].pc # "cleanup" => rest = {}
      /\ rm'[w].pc = "dropDocuments" => rm[w].kind = "user" /\ rm'[w].failed = {} /\ gone
      /\ rm'[w].pc = "mark" /\ rm[w].kind = "user" => rm'[w].failed # {}
  BY <1>4 DEF AfterCleanup
<1>6. rm'[w].pc \in RmSteps
  BY <1>5 DEF RmSteps
<1>7. \A k \in objects : k[1] \notin scope => k \in objects'
  BY <1>1, <1>3
<1>8. rm[w].cleaned \subseteq rm'[w].cleaned
  BY <1>4
<1>9. RemovalAt(w) /\ Turns'
  <2>1. RmStep(w)
    BY DEF RmStep
  <2> QED
    BY <1>1, <1>7, <1>8, <2>1, RemovalGoesAt DEF RemovalGoes
<1>10. \A k \in (rm[w].blobs \cup rm[w].failed) \cap objects' : k \in rm'[w].blobs \cup rm'[w].failed
  BY <1>4
<1>11. ASSUME NEW x \in scope PROVE RowAlone(x)'
  <2>1. ASSUME doc[x].state = "active", <<x, doc[x].uri>> \in objects \ objects'
        PROVE  <<x, doc[x].uri>> \in Unrecorded'
    <3>1. rm[w].kind = "user" /\ <<x, doc[x].uri>> = b
      BY <1>1, <1>2, <2>1
    <3>2. b \in rm'[w].cleaned /\ rm'[w].kind = "user"
      BY <1>4, <2>1, <3>1
    <3> QED
      BY <3>1, <3>2 DEF Unrecorded
  <2> QED
    BY <1>1, <1>2, <1>4, <1>6, <1>9, <1>10, <2>1, RowKept
<1>12. KeysAlone(w)'
  <2>1. rm'[w].cleaned \cap objects' = {}
    BY <1>1, <1>3, <1>4
  <2>2. rm'[w].blobs \cup rm'[w].cleaned \cup rm'[w].failed \subseteq
           rm[w].blobs \cup rm[w].cleaned \cup rm[w].failed
    BY <1>1, <1>4
  <2>3. rm'[w].pc # "cleanup" => rm'[w].blobs = {}
    BY <1>4, <1>5
  <2>4. rm'[w].pc \notin {"softDelete", "lookup", "dropArtifacts"}
    BY <1>4, <1>5
  <2>5. rm'[w].pc = "dropDocuments" => rm'[w].failed = {}
    BY <1>4, <1>5
  <2>6. rm'[w].pc = "mark" /\ rm'[w].kind = "user" => rm'[w].failed # {}
    BY <1>4, <1>5
  <2>7. rm'[w].kind = "document" => \A x, y \in rm'[w].scope : x = y
    BY <1>3, <1>4
  <2>8. rm'[w].scope = rm[w].scope /\ doc' = doc
    BY <1>1, <1>4
  <2> HIDE DEF rest, next
  <2> QED
    BY <1>3, <2>1, <2>2, <2>3, <2>4, <2>5, <2>6, <2>7, <2>8 DEF KeysAlone
<1>13. WipeAlone(w)'
  <2>1. CASE rm[w].kind # "user"
    BY <1>4, <2>1 DEF WipeAlone
  <2>2. CASE rm[w].kind = "user"
    <3>1. \A x \in Documents : doc[x].state = "active" /\ <<x, doc[x].uri>> \in objects' =>
             <<x, doc[x].uri>> \in rm'[w].blobs \cup rm'[w].failed
      BY <1>1, <1>2, <1>10, <2>2 DEF WipeAlone
    <3>2. rm'[w].pc = "dropDocuments" => rm'[w].blobs \cup rm'[w].failed = {}
      BY <1>4, <1>5
    <3> QED
      BY <1>1, <3>1, <3>2 DEF WipeAlone
  <2> QED
    BY <2>1, <2>2
<1>14. rm'[w].pc # "ok"
  BY <1>4, <1>5
<1> QED
  BY <1>1, <1>4, <1>9, <1>11, <1>12, <1>13, <1>14 DEF RemovalDone

\* A success is marked on a row whose object is gone, so an ok means none is left.
LEMMA MarkCleanedAlone ==
    ASSUME Alone, Serial, NEW w \in Removals, NEW b \in Keys, MarkCleaned(w, b),
           UNCHANGED <<up, rec, setting>>
    PROVE  /\ RemovalDone(w) /\ \A x \in Documents : doc'[x].state = doc[x].state
           /\ rm'[w].pc = "ok" /\ rm[w].kind = "document" => NoObjectLeft(w)' \/ WipeFailed
<1> DEFINE rest == rm[w].cleaned \ {b}
           last == IF rest = {} /\ rm[w].failed = {} THEN "ok" ELSE "mark"
           scope == rm[w].scope
<1>1. PICK x \in Documents : b[1] = x
  BY KeysOfUri
<1>2. /\ rm[w].pc = "mark" /\ rm[w].pc \in RmSteps /\ rm[w].kind # "user" /\ b \in rm[w].cleaned
      /\ UNCHANGED objects
      /\ doc' = [doc EXCEPT ![x] = [doc[x] EXCEPT !.status = "blob_deleted"]]
      /\ rm' = [rm EXCEPT ![w] = [@ EXCEPT !.cleaned = rest, !.pc = last]]
  BY <1>1, SerialMeans DEF MarkCleaned, SetBoth, RmSteps
<1>3. /\ rm[w] \in RmType /\ scope \subseteq Documents /\ KeysAlone(w)
      /\ \A y \in scope : doc[y].state = "deleted"
  BY <1>2, RemovalIsAlone DEF RemovalOrder
<1>4. /\ rm[w].cleaned \cap objects = {} /\ rm[w].blobs = {}
      /\ \A k \in rm[w].blobs \cup rm[w].cleaned \cup rm[w].failed :
            k[1] \in scope /\ k[2] = doc[k[1]].uri
      /\ rm[w].kind = "document" => \A y, z \in scope : y = z
  BY <1>2, <1>3 DEF KeysAlone
<1>5. x \in scope /\ b = <<x, doc[x].uri>> /\ b \notin objects /\ doc[x].state = "deleted"
  BY <1>1, <1>2, <1>3, <1>4, KeysOfUri
<1>6. /\ doc'[x] = [doc[x] EXCEPT !.status = "blob_deleted"]
      /\ \A y \in Documents \ {x} : doc'[y] = doc[y]
  BY <1>2, RowWritten
<1>7. /\ doc'[x].state = doc[x].state /\ doc'[x].uri = doc[x].uri /\ doc'[x].mode = doc[x].mode
      /\ \A y \in Documents : doc'[y].state = doc[y].state /\ doc'[y].uri = doc[y].uri
  <2>1. doc[x] \in DocType
    BY AloneTypes
  <2> QED
    BY <1>6, <2>1 DEF DocType
<1> HIDE DEF last
<1>8. rm'[w] = [rm[w] EXCEPT !.cleaned = rest, !.pc = last]
  BY <1>2, AloneTypes
<1>9. /\ rm'[w].pc = last /\ rm'[w].cleaned = rest /\ rm'[w].scope = scope
      /\ rm'[w].kind = rm[w].kind /\ rm'[w].blobs = {} /\ rm'[w].failed = rm[w].failed
  <2> HIDE DEF rest
  <2> QED
    BY <1>3, <1>4, <1>8 DEF RmType
<1>10. RemovalAt(w) /\ Turns'
  <2>1. RmStep(w)
    BY DEF RmStep
  <2>2. \A y \in Documents \ scope : doc'[y] = doc[y]
    BY <1>5, <1>6
  <2> QED
    BY <1>2, <2>1, <2>2, RemovalGoesAt DEF RemovalGoes
<1>11. ASSUME NEW y \in scope PROVE RowAlone(y)'
  <2>1. CASE y # x
    <3>1. rm[w].failed # {} => rm'[w].pc \in RmSteps
      BY <1>9 DEF last, RmSteps
    <3>2. doc'[y] = doc[y] /\ objects' = objects
      BY <1>2, <1>3, <1>6, <2>1
    <3> QED
      BY <1>3, <1>4, <1>9, <1>10, <3>1, <3>2, RowKept
  <2>2. CASE y = x
    <3>1. RowAlone(x)
      BY <1>1 DEF Alone
    <3>2. RemovedAlone(x)'
      BY <1>2, <1>5, <1>7 DEF RemovedAlone
    <3>3. ActiveAlone(x)'
      BY <1>5, <1>7 DEF ActiveAlone
    <3>4. ObjectsKnown(x)'
      <4>1. (WipeFailed => WipeFailed') /\ (\A v \in Uploads : Key(v)' = Key(v)) /\ up' = up
        BY <1>10, RemovalElsewhere DEF Key
      <4> QED
        BY <1>2, <1>7, <3>1, <4>1 DEF RowAlone, ObjectsKnown
    <3> QED
      BY <1>5, <1>7, <2>2, <3>1, <3>2, <3>3, <3>4 DEF RowAlone
  <2> QED
    BY <2>1, <2>2
<1>12. KeysAlone(w)'
  <2>1. \A k \in rm'[w].cleaned \cup rm'[w].failed : k[1] \in scope /\ k[2] = doc'[k[1]].uri
    BY <1>3, <1>4, <1>7, <1>9
  <2>2. rm'[w].pc \in {"ok", "mark"} /\ rm'[w].cleaned \cap objects' = {}
    BY <1>2, <1>4, <1>9 DEF last
  <2> HIDE DEF rest
  <2> QED
    BY <1>2, <1>4, <1>9, <2>1, <2>2 DEF KeysAlone
<1>13. WipeAlone(w)'
  BY <1>2, <1>9 DEF WipeAlone
<1>14. ASSUME rm[w].kind = "document", ~WipeFailed, NEW k \in objects, k[1] \in scope
       PROVE  FALSE
  <2>1. k[1] = x
    BY <1>4, <1>5, <1>14
  <2> QED
    BY <1>2, <1>5, <1>14, <2>1, KnownToRemoval
<1>15. rm[w].kind = "document" => NoObjectLeft(w)' \/ WipeFailed
  BY <1>2, <1>9, <1>14 DEF NoObjectLeft
<1> QED
  BY <1>7, <1>9, <1>10, <1>11, <1>12, <1>13, <1>15 DEF RemovalDone

\* A failure is marked on the row, which then names the object to a retry.
LEMMA MarkFailedAlone ==
    ASSUME Alone, Serial, NEW w \in Removals, NEW b \in Keys, MarkFailed(w, b),
           UNCHANGED <<up, rec, setting>>
    PROVE  /\ RemovalDone(w) /\ rm'[w].pc # "ok"
           /\ \A x \in Documents : doc'[x].state = doc[x].state
<1> DEFINE rest == rm[w].failed \ {b}
           last == IF rest = {} THEN "error" ELSE "mark"
           scope == rm[w].scope
<1>1. PICK x \in Documents : b[1] = x
  BY KeysOfUri
<1> DEFINE hint == rm[w].kind = "source" /\ doc[x].hint
<1>2. /\ rm[w].pc = "mark" /\ rm[w].pc \in RmSteps /\ b \in rm[w].failed /\ UNCHANGED objects
      /\ doc' = [doc EXCEPT ![x] = [doc[x] EXCEPT !.status = "raw_storage_failed", !.hint = hint]]
      /\ rm' = [rm EXCEPT ![w] = [@ EXCEPT !.failed = rest, !.pc = last]]
  BY <1>1, SerialMeans DEF MarkFailed, SetBoth, RmSteps
<1>3. /\ rm[w] \in RmType /\ scope \subseteq Documents /\ KeysAlone(w)
      /\ rm[w].kind # "user" => \A y \in scope : doc[y].state = "deleted"
  BY <1>2, RemovalIsAlone DEF RemovalOrder
<1>4. /\ rm[w].cleaned \cap objects = {} /\ rm[w].blobs = {}
      /\ \A k \in rm[w].blobs \cup rm[w].cleaned \cup rm[w].failed :
            k[1] \in scope /\ k[2] = doc[k[1]].uri
      /\ rm[w].kind = "document" => \A y, z \in scope : y = z
  BY <1>2, <1>3 DEF KeysAlone
<1>5. x \in scope /\ b = <<x, doc[x].uri>>
  BY <1>1, <1>2, <1>4, KeysOfUri
<1> HIDE DEF last, hint
<1>6. /\ doc'[x] = [doc[x] EXCEPT !.status = "raw_storage_failed", !.hint = hint]
      /\ \A y \in Documents \ {x} : doc'[y] = doc[y]
  BY <1>2, RowWritten
<1>7. /\ doc'[x].state = doc[x].state /\ doc'[x].uri = doc[x].uri /\ doc'[x].mode = doc[x].mode
      /\ doc'[x].status = "raw_storage_failed"
      /\ \A y \in Documents : doc'[y].state = doc[y].state /\ doc'[y].uri = doc[y].uri
  <2>1. doc[x] \in DocType
    BY AloneTypes
  <2>2. /\ doc'[x].state = doc[x].state /\ doc'[x].uri = doc[x].uri /\ doc'[x].mode = doc[x].mode
        /\ doc'[x].status = "raw_storage_failed"
    BY <1>6, <2>1, Zenon DEF DocType
  <2> QED
    BY <1>6, <2>2
<1>8. rm'[w] = [rm[w] EXCEPT !.failed = rest, !.pc = last]
  BY <1>2, AloneTypes
<1>9. /\ rm'[w].pc = last /\ rm'[w].failed = rest /\ rm'[w].scope = scope
      /\ rm'[w].kind = rm[w].kind /\ rm'[w].blobs = {} /\ rm'[w].cleaned = rm[w].cleaned
  <2> HIDE DEF rest
  <2> QED
    BY <1>3, <1>4, <1>8 DEF RmType
<1>10. rm'[w].pc \in {"error", "mark"} /\ (rm'[w].pc = "mark" <=> rest # {})
  BY <1>9 DEF last
<1>11. RemovalAt(w) /\ Turns'
  <2>1. RmStep(w)
    BY DEF RmStep
  <2>2. \A y \in Documents \ scope : doc'[y] = doc[y]
    BY <1>5, <1>6
  <2> QED
    BY <1>2, <1>9, <1>10, <2>1, <2>2, RemovalGoesAt DEF RemovalGoes
<1>12. ASSUME NEW y \in scope PROVE RowAlone(y)'
  <2>1. CASE y # x
    <3>1. /\ doc'[y] = doc[y] /\ objects' = objects /\ <<y, doc[y].uri>> # b
      BY <1>2, <1>3, <1>5, <1>6, <2>1
    <3>2. <<y, doc[y].uri>> \in rm[w].blobs \cup rm[w].failed =>
             rm'[w].pc \in RmSteps /\ <<y, doc[y].uri>> \in rm'[w].blobs \cup rm'[w].failed
      BY <1>4, <1>9, <1>10, <3>1 DEF RmSteps
    <3> QED
      BY <1>3, <1>9, <1>11, <3>1, <3>2, RowKept
  <2>2. CASE y = x
    <3>1. RowAlone(x) /\ (WipeFailed => WipeFailed')
      BY <1>1, <1>11, RemovalElsewhere DEF Alone
    <3>2. RemovedAlone(x)'
      BY <1>7 DEF RemovedAlone
    <3>3. ActiveAlone(x)'
      <4>1. doc[x].state = "active" => WipeFailed' \/ WipeMarks'
        BY <1>3, <1>5, <1>9, <1>10 DEF WipeFailed, WipeMarks
      <4> QED
        BY <1>7, <4>1 DEF ActiveAlone, Settled, Occupied
    <3>4. ObjectsKnown(x)'
      <4>1. (\A v \in Uploads : Key(v)' = Key(v)) /\ up' = up
        BY DEF Key
      <4> QED
        BY <1>2, <1>7, <3>1, <4>1 DEF RowAlone, ObjectsKnown
    <3> QED
      BY <1>7, <2>2, <3>1, <3>2, <3>3, <3>4 DEF RowAlone
  <2> QED
    BY <2>1, <2>2
<1>13. KeysAlone(w)'
  <2>1. \A k \in rm'[w].cleaned \cup rm'[w].failed : k[1] \in scope /\ k[2] = doc'[k[1]].uri
    BY <1>3, <1>4, <1>7, <1>9
  <2>2. rm'[w].cleaned \cap objects' = {}
    BY <1>2, <1>4, <1>9
  <2> HIDE DEF rest
  <2> QED
    BY <1>2, <1>4, <1>9, <1>10, <2>1, <2>2 DEF KeysAlone
<1>14. WipeAlone(w)'
  BY <1>10 DEF WipeAlone
<1> QED
  BY <1>7, <1>9, <1>10, <1>11, <1>12, <1>13, <1>14 DEF RemovalDone

\* The rows go when no active document has an object left.
LEMMA DropDocumentsAlone ==
    ASSUME Alone, Serial, NEW w \in Removals, DropDocuments(w), UNCHANGED <<up, rec, setting>>
    PROVE  /\ RemovalDone(w) /\ rm'[w].pc # "ok"
           /\ \A x \in Documents : WipeDropsOnlyClean(x)
<1> DEFINE row == [NoDoc EXCEPT !.state = "wiped"]
<1>1. /\ rm[w].pc = "dropDocuments" /\ rm[w].pc \in RmSteps /\ UNCHANGED objects
      /\ doc' = [x \in Documents |-> IF HasRow(x) THEN row ELSE doc[x]]
      /\ rm' = [rm EXCEPT ![w] = [@ EXCEPT !.pc = "dropArtifacts"]]
  BY SerialMeans DEF DropDocuments, RmGoto, RmSteps
<1>2. /\ rm[w].kind = "user" /\ rm[w].scope = Documents /\ rm[w] \in RmType
      /\ KeysAlone(w) /\ WipeAlone(w)
  BY <1>1, RemovalIsAlone, WipeScope
<1>3. /\ rm[w].cleaned \cap objects = {} /\ rm[w].blobs = {} /\ rm[w].failed = {}
      /\ \A x \in Documents : doc[x].state = "active" => <<x, doc[x].uri>> \notin objects
  BY <1>1, <1>2 DEF KeysAlone, WipeAlone
<1>4. rm'[w] = [rm[w] EXCEPT !.pc = "dropArtifacts"]
  BY <1>1, AloneTypes
<1>5. /\ rm'[w].pc = "dropArtifacts" /\ rm'[w].cleaned = rm[w].cleaned /\ rm'[w].scope = Documents
      /\ rm'[w].kind = "user" /\ rm'[w].blobs = {} /\ rm'[w].failed = {}
  BY <1>2, <1>3, <1>4 DEF RmType
<1>6. RemovalAt(w) /\ Turns'
  <2>1. RmStep(w)
    BY DEF RmStep
  <2> QED
    BY <1>1, <1>2, <1>5, <2>1, RemovalGoesAt DEF RemovalGoes
<1>7. row.state = "wiped" /\ row.uri = None
  BY DEF NoDoc
<1> HIDE DEF row
<1>8. ASSUME NEW x \in Documents PROVE RowAlone(x)'
  <2>1. CASE HasRow(x)
    <3>1. doc'[x] = row
      BY <1>1, <2>1
    <3> QED
      BY <1>7, <3>1 DEF RowAlone, ActiveAlone, RemovedAlone, ObjectsKnown
  <2>2. CASE ~HasRow(x)
    <3>1. doc'[x] = doc[x] /\ objects' = objects /\ doc[x].state # "deleted"
      BY <1>1, <2>2 DEF HasRow
    <3> QED
      BY <1>5, <1>6, <3>1, RowKept
  <2> QED
    BY <2>1, <2>2
<1>9. KeysAlone(w)'
  BY <1>1, <1>3, <1>5 DEF KeysAlone
<1>10. WipeAlone(w)'
  BY <1>5 DEF WipeAlone
<1>11. \A x \in Documents : WipeDropsOnlyClean(x)
  BY <1>3 DEF WipeDropsOnlyClean, Active
<1> QED
  BY <1>5, <1>6, <1>8, <1>9, <1>10, <1>11 DEF RemovalDone

LEMMA DropArtifactsAlone ==
    ASSUME Alone, Serial, NEW w \in Removals, DropArtifacts(w), UNCHANGED <<up, rec, setting>>
    PROVE  RemovalDone(w) /\ rm'[w].kind = "user" /\ UNCHANGED doc
<1>1. /\ rm[w].pc = "dropArtifacts" /\ rm[w].pc \in RmSteps /\ UNCHANGED <<doc, objects>>
  BY DEF DropArtifacts, RmSteps
<1>2. PICK pc \in {"ok", "error"} : rm' = [rm EXCEPT ![w] = [@ EXCEPT !.pc = pc]]
  BY DEF DropArtifacts, RmGoto
<1>3. /\ rm[w].kind = "user" /\ rm[w].scope = Documents /\ rm[w] \in RmType /\ KeysAlone(w)
  BY <1>1, RemovalIsAlone, WipeScope
<1>4. /\ rm[w].cleaned \cap objects = {} /\ rm[w].blobs = {} /\ rm[w].failed = {}
  BY <1>1, <1>3 DEF KeysAlone
<1>5. rm'[w] = [rm[w] EXCEPT !.pc = pc]
  BY <1>2, AloneTypes
<1>6. /\ rm'[w].pc = pc /\ rm'[w].cleaned = rm[w].cleaned /\ rm'[w].scope = Documents
      /\ rm'[w].kind = "user"
  BY <1>3, <1>5 DEF RmType
<1>7. RemovalAt(w) /\ Turns'
  <2>1. RmStep(w)
    BY DEF RmStep
  <2> QED
    BY <1>1, <1>3, <1>6, <2>1, RemovalGoesAt DEF RemovalGoes
<1>8. ASSUME NEW x \in Documents PROVE RowAlone(x)'
  BY <1>1, <1>4, <1>6, <1>7, RowKept
<1>9. KeysAlone(w)' /\ WipeAlone(w)'
  BY <1>6 DEF KeysAlone, WipeAlone, RmSteps
<1> QED
  BY <1>1, <1>6, <1>7, <1>8, <1>9 DEF RemovalDone

LEMMA SoftDeleteTombs ==
    ASSUME Alone, NEW w \in Removals, SoftDelete(w)
    PROVE  DeletedAreTombs' /\ \A x \in Documents : WipeDropsOnlyClean(x)
<1>1. DeletedAreTombs /\ art \in [Artifacts -> ArtType] /\ \A x \in Documents : doc[x] \in DocType
  BY AloneTypes DEF Alone, RowsTypeOK
<1> DEFINE dead(a) == [art[a] EXCEPT !.status = "deleted", !.tomb = TRUE, !.attempt = None]
           gone(x) == [doc[x] EXCEPT !.state = "deleted"]
<1>2. \A a \in Artifacts : dead(a).tomb
  BY <1>1 DEF ArtType
<1>3. \A x \in Documents : gone(x).state = "deleted"
  BY <1>1 DEF DocType
<1>4. \/ /\ art' = [a \in Artifacts |-> IF a \in ArtifactsToTombstone(w) THEN dead(a) ELSE art[a]]
         /\ doc' = [x \in Documents |-> IF x \in rm[w].scope THEN gone(x) ELSE doc[x]]
      \/ UNCHANGED <<doc, art>>
  BY DEF SoftDelete
<1> HIDE DEF dead, gone
<1>5. \A a \in Artifacts : art'[a] \in {dead(a), art[a]}
  BY <1>4
<1>6. \A x \in Documents : doc'[x] \in {gone(x), doc[x]}
  BY <1>4
<1>7. DeletedAreTombs'
  BY <1>1, <1>2, <1>5 DEF DeletedAreTombs
<1> QED
  BY <1>3, <1>6, <1>7 DEF WipeDropsOnlyClean, Active

LEMMA MarkTombs ==
    ASSUME Alone, NEW w \in Removals, NEW b \in Keys, MarkCleaned(w, b) \/ MarkFailed(w, b)
    PROVE  DeletedAreTombs'
<1>1. PICK x \in Documents : b[1] = x
  BY KeysOfUri
<1>2. doc[x] \in DocType
  BY AloneTypes
<1> DEFINE hint == rm[w].kind = "source" /\ doc[x].hint
<1>3. hint \in BOOLEAN
  OBVIOUS
<1>4. \/ UNCHANGED art
      \/ SetBoth(x, [doc[x] EXCEPT !.status = "blob_deleted"])
      \/ SetBoth(x, [doc[x] EXCEPT !.status = "raw_storage_failed", !.hint = hint])
  BY <1>1 DEF MarkCleaned, MarkFailed
<1> HIDE DEF hint
<1>5. /\ [doc[x] EXCEPT !.status = "blob_deleted"] \in DocType
      /\ [doc[x] EXCEPT !.status = "raw_storage_failed", !.hint = hint] \in DocType
  BY <1>2, <1>3 DEF DocType, RawStatuses
<1> QED
  BY <1>4, <1>5, SameTombs, TransitionTombs

LEMMA DropTombs ==
    ASSUME Alone, NEW w \in Removals, DropArtifacts(w)
    PROVE  DeletedAreTombs'
<1>1. DeletedAreTombs
  BY DEF Alone
<1>2. NoArt.status \notin DeleteStarted
  BY DEF NoArt, DeleteStarted
<1> QED
  BY <1>1, <1>2 DEF DropArtifacts, DeletedAreTombs

-----------------------------------------------------------------------------
\* Every removal step.

LEMMA StatesKept ==
    ASSUME \A x \in Documents : doc'[x].state \in {doc[x].state, "deleted"}
    PROVE  \A x \in Documents : WipeDropsOnlyClean(x)
BY DEF WipeDropsOnlyClean, Active

LEMMA OwnAnswer ==
    ASSUME NEW w \in Removals, \A v \in Removals \ {w} : rm'[v] = rm[v], DeleteAnswerIsTrue(w)
    PROVE  \A v \in Removals : DeleteAnswerIsTrue(v)
<1>1. \A v \in Removals \ {w} : DeleteAnswerIsTrue(v)
  BY DEF DeleteAnswerIsTrue
<1> QED
  BY <1>1

LEMMA BeginRemovalAlone ==
    ASSUME Alone, Serial, NEW w \in Removals, UNCHANGED <<up, rec, setting>>,
           \/ \E x \in Registered : BeginRemoval(w, "document", {x})
           \/ BeginRemoval(w, "source", Registered)
           \/ BeginWipe(w)
    PROVE  RemovalDone(w) /\ rm'[w].pc # "ok" /\ UNCHANGED <<doc, art, objects>>
<1>1. CASE \E x \in Registered : BeginRemoval(w, "document", {x})
  <2>1. PICK x \in Registered : BeginRemoval(w, "document", {x})
    BY <1>1
  <2>2. {x} \in SUBSET Documents /\ \A y, z \in {x} : y = z
    BY DEF Registered
  <2> QED
    BY <2>1, <2>2, ListAlone
<1>2. CASE BeginRemoval(w, "source", Registered)
  <2>1. Registered \in SUBSET Documents
    BY DEF Registered
  <2> QED
    BY <1>2, <2>1, ListAlone
<1>3. CASE BeginWipe(w)
  <2>1. Documents \in SUBSET Documents
    OBVIOUS
  <2> QED
    BY <1>3, <2>1, ListAlone
<1> QED
  BY <1>1, <1>2, <1>3

LEMMA RemovalStepAlone ==
    ASSUME Alone, Serial, LinkInv', UriMatchesHash', RemovalStep
    PROVE  /\ Alone'
           /\ \A w \in Removals : DeleteAnswerIsTrue(w)
           /\ \A x \in Documents : WipeDropsOnlyClean(x)
<1>1. PICK w \in Removals :
          \/ RmStep(w) \/ CrashRemoval(w)
          \/ \E x \in Registered : BeginRemoval(w, "document", {x})
          \/ BeginRemoval(w, "source", Registered)
          \/ BeginWipe(w)
  BY DEF RemovalStep
<1>2. UNCHANGED <<up, rec, setting>>
  BY DEF RemovalStep
<1>3. ASSUME RemovalDone(w), DeletedAreTombs', DeleteAnswerIsTrue(w)
      PROVE  Alone' /\ \A v \in Removals : DeleteAnswerIsTrue(v)
  <2>1. Alone'
    BY <1>3, RemovalJoined DEF RemovalDone
  <2>2. \A v \in Removals \ {w} : rm'[v] = rm[v]
    BY <1>3 DEF RemovalDone, RemovalAt
  <2> QED
    BY <1>3, <2>1, <2>2, OwnAnswer
<1>4. rm'[w].pc # "ok" => DeleteAnswerIsTrue(w)
  BY DEF DeleteAnswerIsTrue
<1>5. CASE \/ \E x \in Registered : BeginRemoval(w, "document", {x})
           \/ BeginRemoval(w, "source", Registered)
           \/ BeginWipe(w)
  <2>1. RemovalDone(w) /\ rm'[w].pc # "ok" /\ UNCHANGED <<doc, art>>
    BY <1>2, <1>5, BeginRemovalAlone
  <2> QED
    BY <1>3, <1>4, <2>1, SameTombs, StatesKept
<1>6. CASE SoftDelete(w)
  <2>1. RemovalDone(w) /\ rm'[w].pc # "ok"
    BY <1>2, <1>6, SoftDeleteAlone
  <2> QED
    BY <1>3, <1>4, <1>6, <2>1, SoftDeleteTombs
<1>7. CASE LookupOrphans(w)
  <2>1. RemovalDone(w) /\ (rm'[w].pc = "ok" => NoObjectLeft(w)' \/ WipeFailed)
    BY <1>2, <1>7, LookupAlone
  <2>2. UNCHANGED <<doc, art>>
    BY <1>7 DEF LookupOrphans, rows
  <2>3. DeleteAnswerIsTrue(w)
    BY <2>1 DEF DeleteAnswerIsTrue
  <2> QED
    BY <1>3, <2>1, <2>2, <2>3, SameTombs, StatesKept
<1>8. ASSUME NEW b \in Keys, CleanupBlob(w, b)
      PROVE  Alone' /\ (\A v \in Removals : DeleteAnswerIsTrue(v))
             /\ \A x \in Documents : WipeDropsOnlyClean(x)
  <2>1. RemovalDone(w) /\ rm'[w].pc # "ok" /\ UNCHANGED doc
    BY <1>2, <1>8, CleanupAlone
  <2>2. UNCHANGED art
    BY <1>8 DEF CleanupBlob
  <2> QED
    BY <1>3, <1>4, <2>1, <2>2, SameTombs, StatesKept
<1>9. ASSUME NEW b \in Keys, MarkCleaned(w, b)
      PROVE  Alone' /\ (\A v \in Removals : DeleteAnswerIsTrue(v))
             /\ \A x \in Documents : WipeDropsOnlyClean(x)
  <2>1. /\ RemovalDone(w) /\ \A x \in Documents : doc'[x].state = doc[x].state
        /\ rm'[w].pc = "ok" /\ rm[w].kind = "document" => NoObjectLeft(w)' \/ WipeFailed
    BY <1>2, <1>9, MarkCleanedAlone
  <2>2. DeleteAnswerIsTrue(w)
    BY <2>1 DEF DeleteAnswerIsTrue
  <2> QED
    BY <1>3, <1>9, <2>1, <2>2, MarkTombs, StatesKept
<1>10. ASSUME NEW b \in Keys, MarkFailed(w, b)
       PROVE  Alone' /\ (\A v \in Removals : DeleteAnswerIsTrue(v))
              /\ \A x \in Documents : WipeDropsOnlyClean(x)
  <2>1. RemovalDone(w) /\ rm'[w].pc # "ok" /\ \A x \in Documents : doc'[x].state = doc[x].state
    BY <1>2, <1>10, MarkFailedAlone
  <2> QED
    BY <1>3, <1>4, <1>10, <2>1, MarkTombs, StatesKept
<1>11. CASE DropDocuments(w)
  <2>1. RemovalDone(w) /\ rm'[w].pc # "ok" /\ \A x \in Documents : WipeDropsOnlyClean(x)
    BY <1>2, <1>11, DropDocumentsAlone
  <2>2. UNCHANGED art
    BY <1>11 DEF DropDocuments
  <2> QED
    BY <1>3, <1>4, <2>1, <2>2, SameTombs
<1>12. CASE DropArtifacts(w)
  <2>1. RemovalDone(w) /\ rm'[w].kind = "user" /\ UNCHANGED doc
    BY <1>2, <1>12, DropArtifactsAlone
  <2>2. rm[w].kind = "user"
    BY <1>12, WipeScope DEF DropArtifacts, RmSteps
  <2>3. DeleteAnswerIsTrue(w)
    BY <2>2 DEF DeleteAnswerIsTrue
  <2> QED
    BY <1>3, <1>12, <2>1, <2>3, DropTombs, StatesKept
<1>13. ~CrashRemoval(w)
  BY SerialMeans DEF CrashRemoval
<1> QED
  BY <1>1, <1>5, <1>6, <1>7, <1>8, <1>9, <1>10, <1>11, <1>12, <1>13 DEF RmStep

-----------------------------------------------------------------------------
\* Every step, and what the answers and the objects are then.

LEMMA StutterAlone ==
    ASSUME Alone, LinkInv', UriMatchesHash', UNCHANGED vars
    PROVE  Alone'
<1>1. UNCHANGED <<setting, doc, art, objects, up, rm, rec>>
  BY DEF vars
<1>2. (WipeFailed' <=> WipeFailed) /\ (WipeMarks' <=> WipeMarks) /\ Unrecorded' = Unrecorded
  BY <1>1 DEF WipeFailed, WipeMarks, Unrecorded
<1>3. /\ \A u \in Uploads : Key(u)' = Key(u)
      /\ \A x \in Documents : Uploading(x)' = Uploading(x) /\ Removing(x)' = Removing(x)
  BY <1>1 DEF Key, Uploading, Removing
<1>4. Turns'
  BY <1>1 DEF Alone, Turns
<1>5. \A u \in Uploads : UploadAlone(u)'
  BY <1>1, <1>2, <1>3 DEF Alone, UploadAlone
<1>6. ASSUME NEW x \in Documents PROVE RowAlone(x)'
  <2>1. RowAlone(x)
    BY DEF Alone
  <2>2. ActiveAlone(x)'
    BY <1>1, <1>2, <1>3, <2>1 DEF RowAlone, ActiveAlone
  <2>3. RemovedAlone(x)'
    BY <1>1, <1>3, <2>1 DEF RowAlone, RemovedAlone
  <2>4. ObjectsKnown(x)'
    BY <1>1, <1>2, <1>3, <2>1 DEF RowAlone, ObjectsKnown
  <2> QED
    BY <1>1, <2>1, <2>2, <2>3, <2>4 DEF RowAlone
<1>7. \A w \in Removals : KeysAlone(w)'
  BY <1>1 DEF Alone, KeysAlone
<1>8. \A w \in Removals : WipeAlone(w)'
  BY <1>1 DEF Alone, WipeAlone
<1> QED
  BY <1>4, <1>5, <1>6, <1>7, <1>8, SameTombs, <1>1 DEF Alone

\* No upload wipes a row.
LEMMA UploadWipesNone ==
    ASSUME LinkInv, UploadStep
    PROVE  \A x \in Documents : WipeDropsOnlyClean(x)
<1>1. TypeInv /\ RowLinks
  BY DEF LinkInv, RowLinks
<1>2. PICK u \in Uploads : \/ UpStep(u) \/ CrashUpload(u)
                           \/ \E x \in Documents, h \in Hashes : BeginUpload(u, x, h)
  BY DEF UploadStep
<1>3. Tame \/ SwapStep(u)
  BY <1>1, <1>2, UploadTame, AlphaLoadTame DEF BeginUpload
<1>4. CASE Tame
  <2>1. \A x \in Documents : doc'[x].state \in {doc[x].state, "deleted"}
    BY <1>4 DEF Tame, TameRow
  <2> QED
    BY <2>1, StatesKept
<1>5. CASE SwapStep(u)
  <2>1. \A x \in Documents : doc[x] \in DocType
    BY <1>1, DocTyped
  <2>2. \A x \in Documents : doc'[x].state = doc[x].state
    BY <1>5, <2>1 DEF SwapStep, DocType
  <2> QED
    BY <2>2, StatesKept
<1> QED
  BY <1>3, <1>4, <1>5

LEMMA RegisterWipesNone ==
    ASSUME Alone, RegisterStep
    PROVE  \A x \in Documents : WipeDropsOnlyClean(x)
<1>1. PICK x \in Documents : Register(x)
  BY DEF RegisterStep
<1>2. doc[x].state = "absent" /\ \A y \in Documents \ {x} : doc'[y] = doc[y]
  BY <1>1, AloneTypes DEF Register, RowsTypeOK
<1> QED
  BY <1>2 DEF WipeDropsOnlyClean, Active

Answered ==
    /\ \A w \in Removals : DeleteAnswerIsTrue(w)
    /\ \A u \in Uploads : UploadAnswerIsTrue(u)
    /\ \A x \in Documents : WipeDropsOnlyClean(x)

LEMMA SameRemovals ==
    ASSUME UNCHANGED rm
    PROVE  \A w \in Removals : DeleteAnswerIsTrue(w)
BY DEF DeleteAnswerIsTrue

LEMMA SameUploads ==
    ASSUME UNCHANGED up
    PROVE  \A u \in Uploads : UploadAnswerIsTrue(u)
BY DEF UploadAnswerIsTrue

LEMMA AloneStep ==
    ASSUME Deletes = {}, Alone, Serial, [Next]_vars, LinkInv', UriMatchesHash'
    PROVE  Alone' /\ Answered
<1>1. CASE RegisterStep
  <2>1. UNCHANGED rm /\ UNCHANGED up
    BY <1>1 DEF RegisterStep
  <2> QED
    BY <1>1, <2>1, RegisterAlone, RegisterWipesNone, SameRemovals, SameUploads DEF Answered
<1>2. CASE UploadStep
  <2>1. UNCHANGED rm /\ LinkInv
    BY <1>2 DEF UploadStep, Alone
  <2> QED
    BY <1>2, <2>1, UploadStepAlone, UploadWipesNone, SameRemovals DEF Answered
<1>3. CASE RemovalStep
  <2>1. UNCHANGED up
    BY <1>3 DEF RemovalStep
  <2> QED
    BY <1>3, <2>1, RemovalStepAlone, SameUploads DEF Answered
<1>4. ~DeleteStep
  BY DEF DeleteStep
<1>5. ~ReconcileStep
  <2>1. \A r \in Reconcilers : rec[r].pc = "idle"
    BY DEF Alone, Turns
  <2> QED
    BY <2>1, SerialMeans DEF ReconcileStep, RecStep, ClaimBatch, Probe, RecWrite, CrashReconciler
<1>6. CASE UNCHANGED vars
  <2>1. UNCHANGED rm /\ UNCHANGED up /\ UNCHANGED doc
    BY <1>6 DEF vars
  <2> QED
    BY <1>6, <2>1, StutterAlone, StatesKept, SameRemovals, SameUploads DEF Answered
<1> QED
  BY <1>1, <1>2, <1>3, <1>4, <1>5, <1>6 DEF Next

LEMMA InitAlone ==
    ASSUME Init
    PROVE  Alone
<1>1. LinkInv /\ UriMatchesHash
  BY InitLinks, InitSlot DEF SlotInv
<1>2. /\ \A x \in Documents : doc[x] = NoDoc
      /\ \A a \in Artifacts : art[a] = NoArt
      /\ \A w \in Removals : rm[w] = NoRemoval
      /\ \A u \in Uploads : up[u].pc = "none"
      /\ \A r \in Reconcilers : rec[r].pc = "idle"
      /\ objects = {}
  BY DEF Init, RowsInit, RmInit, UpInit, RecInit, RecIdle, NoUpload
<1>3. \A w \in Removals : rm[w].pc = "none" /\ rm[w].kind = "document"
  BY <1>2 DEF NoRemoval
<1>4. Turns
  BY <1>2, <1>3 DEF Turns, UpSteps, RmSteps
<1>5. DeletedAreTombs
  BY <1>2 DEF DeletedAreTombs, NoArt, DeleteStarted
<1>6. \A u \in Uploads : UploadAlone(u)
  BY <1>2 DEF UploadAlone, UpSteps
<1>7. \A x \in Documents : doc[x].state = "absent" /\ doc[x].uri = None
  BY <1>2 DEF NoDoc
<1>8. \A x \in Documents : RowAlone(x)
  BY <1>2, <1>7 DEF RowAlone, ActiveAlone, RemovedAlone, ObjectsKnown
<1>9. \A w \in Removals : KeysAlone(w) /\ WipeAlone(w)
  BY <1>3 DEF KeysAlone, WipeAlone, RmSteps
<1> QED
  BY <1>1, <1>4, <1>5, <1>6, <1>8, <1>9 DEF Alone

SerialInv == Serial => Alone

LEMMA SettingKept == [Next]_vars => setting' = setting
BY DEF Next, RegisterStep, UploadStep, RemovalStep, DeleteStep, ReconcileStep, vars

LEMMA SerialStep ==
    ASSUME Deletes = {}, SerialInv, [Next]_vars, LinkInv', UriMatchesHash'
    PROVE  SerialInv' /\ (Serial => Answered)
<1>1. Serial' <=> Serial
  BY SettingKept DEF Serial, Eventual
<1> QED
  BY <1>1, AloneStep DEF SerialInv

LEMMA SerialAlways ==
    ASSUME Deletes = {}
    PROVE  Spec => []SerialInv
<1>1. Init => SerialInv
  BY InitAlone DEF SerialInv
<1>2. SerialInv /\ [Next]_vars /\ LinkInv' /\ UriMatchesHash' => SerialInv'
  BY SerialStep
<1>3. SlotInv => UriMatchesHash
  BY DEF SlotInv
<1> QED
  BY <1>1, <1>2, <1>3, LinksAlways, SlotAlways, PTL DEF Spec

LEMMA AloneKeepsBytes ==
    ASSUME Alone
    PROVE  StoredDocHasBytes /\ RemovedBytesTraceable
<1>1. StoredDocHasBytes
  BY DEF Alone, RowAlone, ActiveAlone, StoredDocHasBytes, Active
<1>2. ASSUME NEW x \in Documents, doc[x].state = "deleted", Removing(x) = {}, Uploading(x) = {},
             NEW k \in objects, k[1] = x, ~WipeFailed
      PROVE  k \in OrphanedBlobs({x})
  <2>1. RowAlone(x) /\ k \in Keys
    BY AloneTypes DEF Alone
  <2>2. ASSUME NEW u \in Uploads, up[u].pc = "beta2", Key(u) = k
        PROVE  FALSE
    BY <1>2, <2>2 DEF Key, Uploading, UpSteps
  <2>3. k = <<x, doc[x].uri>> /\ doc[x].uri # None
    BY <1>2, <2>1, <2>2, KeysOfUri DEF RowAlone, ObjectsKnown
  <2>4. doc[x].status = "raw_storage_failed" /\ doc[x].mode = "managed_blob"
    BY <1>2, <2>1, <2>3 DEF RowAlone, RemovedAlone
  <2> QED
    BY <1>2, <2>3, <2>4 DEF OrphanedBlobs
<1> QED
  BY <1>1, <1>2 DEF RemovedBytesTraceable

\* Where nobody deletes an artifact and requests for a document come one at a time, no
\* object is lost however many uploads, retries, deletes, resets and wipes follow each
\* other and whichever calls of the object store fail: an active document that reports
\* its bytes has them, and what a removal leaves is what its row lets a retry find.
THEOREM BytesKept ==
    ASSUME Deletes = {}
    PROVE  Spec => []NoBytesLost
<1>1. SerialInv => NoBytesLost
  BY AloneKeepsBytes DEF SerialInv, NoBytesLost
<1> QED
  BY <1>1, SerialAlways, PTL

\* Under the same conditions every answer is true when it is given: a DELETE that says
\* ok, first call or retry, has left no object of the document; an upload that says ok
\* has its row and its object; a wipe drops the row of no active document with an object.
THEOREM AnswersTrue ==
    ASSUME Deletes = {}
    PROVE  Spec => AnswersAreTrue
<1>1. SerialInv /\ [Next]_vars /\ LinkInv' /\ UriMatchesHash' =>
         [Serial =>
            /\ \A w \in Removals : DeleteAnswerIsTrue(w)
            /\ \A u \in Uploads : UploadAnswerIsTrue(u)
            /\ \A x \in Documents : WipeDropsOnlyClean(x)]_vars
  BY SerialStep DEF Answered
<1>2. SlotInv => UriMatchesHash
  BY DEF SlotInv
<1> QED
  BY <1>1, <1>2, SerialAlways, LinksAlways, SlotAlways, PTL DEF Spec, AnswersAreTrue
=============================================================================
