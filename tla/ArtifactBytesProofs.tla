------------------------ MODULE ArtifactBytesProofs ------------------------
(***************************************************************************)
(* Theorems about the bytes of StorageArtifacts: what a row says of its    *)
(* object, for any number of artifacts, documents and DELETE requests.     *)
(***************************************************************************)
EXTENDS StorageArtifactsProofs

(***************************************************************************)
(* Requests that overlap uploads. As long as no COMMIT takes effect whose  *)
(* client sees a throw, an upload handler knows whether its object is at   *)
(* the backend and its row has no uri until it answers, and the snapshot   *)
(* of a DELETE shows no uri the row does not have.                         *)
(***************************************************************************)

ArtifactBytes(a) ==
    LET r == row[a] IN
    /\ r.status = "absent" \/ r.mode = "pointer" => put[a] = "none" /\ a \notin bytes
    /\ put[a] \in PutSteps => ~r.uri
    /\ put[a] \in {"upload", "markPutFailed", "markCleanedUp"} => a \notin bytes
    /\ put[a] \in {"record1", "record2", "reconcile1", "reconcile2", "cleanup",
                   "markUnrecoverable"} => a \in bytes
    /\ r.status = "failed" => put[a] \in PutEnds /\ (a \in bytes => r.lastError = "orphan")
    /\ r.mode = "managed" /\ r.status = "stored" => r.uri
    /\ r.mode = "managed" /\ r.uri /\ r.status \notin {"deleting", "deleted"} => a \in bytes

SnapshotBytes(d) ==
    LET a == del[d].art
        i == del[d].initial
    IN
    del[d].pc \in DeleteSteps =>
       /\ i.mode = row[a].mode
       /\ i.uri => row[a].uri
       /\ i.mode = "managed" /\ i.status = "stored" => i.uri
       /\ i.status = "failed" => put[a] \in PutEnds /\ (a \in bytes => i.lastError = "orphan")
       /\ del[d].pc \in Holding \ {"finalizeSuccess"} /\ i.mode = "managed" /\ row[a].uri =>
             a \in bytes
       /\ del[d].pc = "finalizeSuccess" /\ i.mode = "managed" /\ i.uri => a \notin bytes

\* A request that saw no uri has answered success.
DeletedBlindly(a) ==
    \E d \in Deletes : del[d].art = a /\ del[d].pc = "deleted" /\ ~del[d].initial.uri

\* A tombstone has no object and gets none, or was made blindly.
Tombstones ==
    \A a \in Artifacts :
       row[a].status = "deleted" /\ (a \in bytes \/ put[a] \in PutSteps) => DeletedBlindly(a)

PointerLinks ==
    \A x \in Documents : doc[x].state = "active" => row[doc[x].art].mode = "pointer"

BytesInv ==
    /\ ClaimInv
    /\ \A a \in Artifacts : ArtifactBytes(a)
    /\ \A d \in Deletes : SnapshotBytes(d)
    /\ Tombstones
    /\ PointerLinks

\* The upload has ended exactly when it is not at one of its steps.
LEMMA StepsAreNotEnds == PutSteps \cap PutEnds = {}
BY DEF PutSteps, PutEnds

\* A row under a claim is deleting.
LEMMA HolderDeletes ==
  ASSUME ClaimInv, NEW d \in Deletes, del[d].pc \in Holding
  PROVE  del[d].art \in Artifacts /\ row[del[d].art].status = "deleting"
BY DEF ClaimInv, HandlerClaims, DeleteClaimExclusive, DeleteCas, Holding

\* A step of one artifact's upload, or the creation of its row, keeps the invariant
\* when it leaves the artifact's own part true: a DELETE that has read the row
\* is not misled.
LEMMA UploadMoves ==
  ASSUME BytesInv, ClaimInv', NEW a \in Artifacts, UNCHANGED del, PointerLinks',
         \A b \in Artifacts \ {a} :
            row'[b] = row[b] /\ put'[b] = put[b] /\ (b \in bytes' <=> b \in bytes),
         ArtifactBytes(a)',
         row[a].status # "absent" =>
            /\ put[a] \in PutSteps
            /\ row'[a].mode = row[a].mode
            /\ row'[a] = row[a] \/ PutCas(a),
         row'[a].status = "deleted" => row[a].status = "deleted"
  PROVE  BytesInv'
<1>1. /\ ClaimInv /\ Tombstones /\ \A b \in Artifacts : ArtifactBytes(b)
      /\ \A d \in Deletes : SnapshotBytes(d)
  BY DEF BytesInv
<1>2. \A b \in Artifacts : ArtifactBytes(b)'
  BY <1>1 DEF ArtifactBytes
<1>3. Tombstones'
  BY <1>1 DEF Tombstones, DeletedBlindly
<1>4. ASSUME NEW d \in Deletes PROVE SnapshotBytes(d)'
  <2> SUFFICES ASSUME del[d].pc \in DeleteSteps PROVE SnapshotBytes(d)'
    BY DEF SnapshotBytes
  <2>1. del[d].art \in Artifacts /\ row[del[d].art].status # "absent" /\ SnapshotBytes(d)
    BY <1>1 DEF ClaimInv, HandlerClaims, DeleteSteps
  <2>2. CASE del[d].art # a
    BY <2>1, <2>2 DEF SnapshotBytes
  <2>3. CASE del[d].art = a
    <3>1. put[a] \in PutSteps /\ put[a] \notin PutEnds /\ ~row[a].uri
          /\ row'[a].mode = row[a].mode
      BY <1>1, <2>1, <2>3, StepsAreNotEnds DEF ArtifactBytes
    <3>2. del[d].pc \in Holding => ~row'[a].uri
      BY <1>1, <2>1, <2>3, <3>1, HolderDeletes DEF PutCas
    <3> QED
      BY <2>1, <2>3, <3>1, <3>2 DEF SnapshotBytes, Holding
  <2> QED
    BY <2>2, <2>3
<1> QED
  BY <1>2, <1>3, <1>4 DEF BytesInv

\* A step of a delete handler keeps the invariant when it leaves true what concerns
\* its artifact and its snapshot.
LEMMA DeleteMoves ==
  ASSUME BytesInv, ClaimInv', NEW d \in Deletes, NEW a \in Artifacts, a = del[d].art,
         del[d].pc \in DeleteSteps, UNCHANGED put, PointerLinks',
         \A e \in Deletes \ {d} : del'[e] = del[e],
         del'[d].art = a, del'[d].initial = del[d].initial,
         \A b \in Artifacts \ {a} : row'[b] = row[b],
         row'[a].mode = row[a].mode, row'[a].uri = row[a].uri,
         bytes' = bytes \/ (bytes' = bytes \ {a} /\ del[d].pc \in Holding),
         ArtifactBytes(a)', SnapshotBytes(d)',
         row'[a].status = "deleted" =>
            \/ row[a].status = "deleted"
            \/ del'[d].pc = "deleted" /\ ~del[d].initial.uri
            \/ a \notin bytes' /\ put[a] \notin PutSteps
  PROVE  BytesInv'
<1>1. /\ ClaimInv /\ Tombstones /\ \A b \in Artifacts : ArtifactBytes(b)
      /\ \A e \in Deletes : SnapshotBytes(e)
  BY DEF BytesInv
<1>2. \A b \in Artifacts : ArtifactBytes(b)'
  BY <1>1 DEF ArtifactBytes
<1>3. Tombstones'
  <2> SUFFICES ASSUME NEW b \in Artifacts, row'[b].status = "deleted",
                      b \in bytes' \/ put'[b] \in PutSteps
               PROVE  DeletedBlindly(b)'
    BY DEF Tombstones
  <2>1. CASE row[b].status = "deleted"
    <3>1. PICK e \in Deletes : del[e].art = b /\ del[e].pc = "deleted" /\ ~del[e].initial.uri
      BY <1>1, <2>1 DEF Tombstones, DeletedBlindly
    <3>2. e # d
      BY <3>1 DEF DeleteSteps
    <3> QED
      BY <3>1, <3>2 DEF DeletedBlindly
  <2>2. CASE row[b].status # "deleted"
    BY <2>2 DEF DeletedBlindly
  <2> QED
    BY <2>1, <2>2
<1>4. ASSUME NEW e \in Deletes \ {d} PROVE SnapshotBytes(e)'
  <2>1. CASE del[e].art # a
    <3>1. del[e].pc \in DeleteSteps => del[e].art \in Artifacts
      BY <1>1 DEF ClaimInv, HandlerClaims, DeleteSteps
    <3> QED
      BY <1>1, <2>1, <3>1 DEF SnapshotBytes
  <2>2. CASE del[e].art = a /\ bytes' = bytes
    BY <1>1, <2>2 DEF SnapshotBytes
  <2>3. CASE del[e].art = a /\ bytes' # bytes
    <3>1. del[e].pc \notin Holding
      BY <1>1, <2>3, HolderIsAlone
    <3> QED
      BY <1>1, <2>3, <3>1 DEF SnapshotBytes
  <2> QED
    BY <2>1, <2>2, <2>3
<1> QED
  BY <1>2, <1>3, <1>4 DEF BytesInv

\* Creating a row and the upload's steps.
LEMMA UploadKeepsBytes ==
  ASSUME BytesInv, "commit" \notin Faults, NEW a \in Artifacts,
         PutPointer(a) \/ ClaimPending(a) \/ PutStep(a) \/ CrashPut(a)
  PROVE  BytesInv'
<1>1. ClaimInv'
  BY PutKeepsClaims DEF BytesInv
<1>2. /\ row \in [Artifacts -> RowType] /\ row[a] \in RowType /\ row' \in [Artifacts -> RowType]
      /\ put \in [Artifacts -> PutSteps \cup PutEnds] /\ bytes \subseteq Artifacts
      /\ ArtifactBytes(a) /\ ClaimInv /\ RowClaims
  BY <1>1 DEF BytesInv, ClaimInv, TypeOK
<1>3. UNCHANGED del /\ UNCHANGED doc
  BY DEF PutPointer, ClaimPending, PutStep, CrashPut, BackendPut, RecordBackendPutFailure,
         RecordUploaded, ReconcileAlreadyFinalized, CleanupUpload, MarkRecovered
<1>4. ASSUME row'[a].mode = row[a].mode \/ row[a].status = "absent",
             \A b \in Artifacts \ {a} : row'[b] = row[b]
      PROVE  PointerLinks'
  <2>1. \A x \in Documents : doc[x].state = "active" =>
           doc[x].art \in Artifacts /\ row[doc[x].art].status # "absent"
    BY <1>2 DEF ClaimInv, DocumentLinks
  <2> QED
    BY <1>3, <1>4, <2>1 DEF PointerLinks, BytesInv
\* Creating the row.
<1>5. ASSUME row[a].status = "absent", NEW n, row' = [row EXCEPT ![a] = n],
             n.status \in {"stored", "pending"}, UNCHANGED bytes,
             \/ n.mode = "pointer" /\ UNCHANGED put
             \/ n.mode = "managed" /\ ~n.uri /\ n.status = "pending" /\ PutGoto(a, "upload")
      PROVE  BytesInv'
  <2>1. /\ row'[a] = n /\ put[a] = "none" /\ a \notin bytes
        /\ \A b \in Artifacts \ {a} : row'[b] = row[b] /\ put'[b] = put[b]
        /\ put'[a] = "none" \/ (put'[a] = "upload" /\ n.mode = "managed")
    BY <1>2, <1>5 DEF PutGoto, ArtifactBytes
  <2>2. ArtifactBytes(a)'
    BY <1>5, <2>1 DEF ArtifactBytes, PutSteps
  <2> QED
    BY <1>1, <1>3, <1>4, <1>5, <2>1, <2>2, UploadMoves
<1>6. CASE PutPointer(a)
  <2>1. PointerRow.status = "stored" /\ PointerRow.mode = "pointer"
    BY DEF PointerRow, NoRow
  <2> QED
    BY <1>5, <1>6, <2>1 DEF PutPointer
<1>7. CASE ClaimPending(a)
  <2> DEFINE n == [NoRow EXCEPT !.status = "pending", !.mode = "managed", !.putAttempt = TRUE]
  <2>1. n.status = "pending" /\ n.mode = "managed" /\ ~n.uri
    BY DEF NoRow
  <2>2. /\ row[a].status = "absent" /\ row' = [row EXCEPT ![a] = n]
        /\ UNCHANGED bytes /\ PutGoto(a, "upload")
    BY <1>7 DEF ClaimPending, PutGoto
  <2> HIDE DEF n
  <2> QED
    BY <1>5, <2>1, <2>2
\* The steps of the upload: the row is there, and has no uri.
<1>8. ASSUME put[a] \in PutSteps, NEW pc \in PutSteps \cup PutEnds, PutGoto(a, pc),
             \A b \in Artifacts \ {a} : row'[b] = row[b] /\ (b \in bytes' <=> b \in bytes),
             row'[a].mode = row[a].mode, row'[a] = row[a] \/ PutCas(a),
             row'[a].status # "deleted" \/ row'[a] = row[a],
             row'[a].mode = "managed" => ArtifactBytes(a)'
      PROVE  BytesInv'
  <2>1. row[a].mode = "managed"
    BY <1>2, <1>8 DEF ArtifactBytes, PutSteps, RowType
  <2>2. \A b \in Artifacts \ {a} : put'[b] = put[b]
    BY <1>2, <1>8 DEF PutGoto
  <2> QED
    BY <1>1, <1>3, <1>4, <1>8, <2>1, <2>2, UploadMoves
<1>9. ASSUME UNCHANGED <<row, bytes>>, put[a] \in PutSteps,
             NEW pc \in PutSteps \cup PutEnds, PutGoto(a, pc),
             pc \in PutEnds \/ (pc \in {"record2", "reconcile1", "reconcile2", "cleanup"} /\
                 put[a] \in {"record1", "record2", "reconcile1", "reconcile2"})
      PROVE  BytesInv'
  <2>1. put'[a] = pc
    BY <1>2, <1>9 DEF PutGoto
  <2>2. row'[a].mode = "managed" => ArtifactBytes(a)'
    BY <1>2, <1>9, <2>1, StepsAreNotEnds DEF ArtifactBytes, RowClaims, PutSteps, PutEnds
  <2> QED
    BY <1>8, <1>9, <2>2
<1>10. ASSUME PutCas(a), put[a] \in {"markPutFailed", "markCleanedUp", "markUnrecoverable"},
              NEW err, MarkFailed(a, err), PutGoto(a, "error"), UNCHANGED bytes,
              put[a] = "markUnrecoverable" => err = "orphan"
       PROVE  BytesInv'
  <2>1. /\ row'[a].status = "failed" /\ row'[a].mode = row[a].mode /\ row'[a].uri = row[a].uri
        /\ row'[a].lastError = err /\ \A b \in Artifacts \ {a} : row'[b] = row[b]
    BY <1>2, <1>10 DEF MarkFailed, RowType
  <2>2. put'[a] = "error" /\ put[a] \in PutSteps
    BY <1>2, <1>10 DEF PutGoto, PutSteps
  <2>3. ~row[a].uri /\ (a \in bytes => err = "orphan")
    BY <1>2, <1>10, <2>2 DEF ArtifactBytes
  <2>4. row'[a].mode = "managed" => ArtifactBytes(a)'
    BY <1>10, <2>1, <2>2, <2>3 DEF ArtifactBytes, PutSteps, PutEnds
  <2> QED
    BY <1>8, <1>10, <2>1, <2>2, <2>4 DEF PutEnds
<1>11. ASSUME PutCas(a), put[a] \in {"record1", "record2"}, StoreRow(a), PutGoto(a, "ok"),
              UNCHANGED bytes
       PROVE  BytesInv'
  <2>1. /\ row'[a].status = "stored" /\ row'[a].mode = row[a].mode /\ row'[a].uri
        /\ \A b \in Artifacts \ {a} : row'[b] = row[b]
    BY <1>2, <1>11 DEF StoreRow, RowType
  <2>2. put'[a] = "ok" /\ put[a] \in PutSteps /\ a \in bytes
    BY <1>2, <1>11 DEF PutGoto, PutSteps, ArtifactBytes
  <2>3. row'[a].mode = "managed" => ArtifactBytes(a)'
    BY <1>11, <2>1, <2>2 DEF ArtifactBytes, PutSteps, PutEnds
  <2> QED
    BY <1>8, <1>11, <2>1, <2>2, <2>3 DEF PutEnds
\* The two steps that call the backend.
<1>12. ASSUME UNCHANGED row, NEW pc, PutGoto(a, pc),
              \/ /\ put[a] = "upload" /\ bytes' = bytes \cup {a} /\ pc = "record1"
              \/ /\ put[a] = "upload" /\ bytes' = bytes /\ pc = "markPutFailed"
              \/ /\ put[a] = "cleanup" /\ bytes' = bytes \ {a} /\ pc = "markCleanedUp"
              \/ /\ put[a] = "cleanup" /\ bytes' = bytes /\ pc = "markUnrecoverable"
       PROVE  BytesInv'
  <2>1. put'[a] = pc /\ put[a] \in PutSteps /\ pc \in PutSteps /\ ~row[a].uri
    BY <1>2, <1>12 DEF PutGoto, PutSteps, ArtifactBytes
  <2>2. /\ row[a].status # "failed" /\ (row[a].mode = "managed" => row[a].status # "stored")
        /\ row[a].status # "absent"
    BY <1>2, <1>12, <2>1, StepsAreNotEnds DEF ArtifactBytes, PutSteps
  <2>3. row'[a].mode = "managed" => ArtifactBytes(a)'
    BY <1>2, <1>12, <2>1, <2>2 DEF ArtifactBytes
  <2>4. \A b \in Artifacts \ {a} : b \in bytes' <=> b \in bytes
    BY <1>12
  <2> QED
    BY <1>8, <1>12, <2>1, <2>3, <2>4
<1>13. CASE BackendPut(a) \/ CleanupUpload(a)
  BY <1>12, <1>13 DEF BackendPut, CleanupUpload, Fault
<1>14. CASE RecordBackendPutFailure(a)
  <2>1. put[a] \in PutSteps /\ "error" \in PutEnds
    BY <1>14 DEF RecordBackendPutFailure, PutSteps, PutEnds
  <2>2. CASE UNCHANGED row
    BY <1>9, <1>14, <2>1, <2>2 DEF RecordBackendPutFailure
  <2>3. CASE PutCas(a) /\ MarkFailed(a, "put_failed")
    BY <1>10, <1>14, <2>3 DEF RecordBackendPutFailure
  <2> QED
    BY <1>14, <2>2, <2>3 DEF RecordBackendPutFailure
<1>15. CASE MarkRecovered(a)
  <2>1. put[a] \in PutSteps /\ "error" \in PutEnds
    BY <1>15 DEF MarkRecovered, PutSteps, PutEnds
  <2>2. CASE UNCHANGED row
    BY <1>9, <1>15, <2>1, <2>2 DEF MarkRecovered
  <2>3. CASE PutCas(a) /\ \E err : /\ MarkFailed(a, err)
                                   /\ put[a] = "markUnrecoverable" => err = "orphan"
    BY <1>10, <1>15, <2>3 DEF MarkRecovered
  <2> QED
    BY <1>15, <2>2, <2>3 DEF MarkRecovered
<1>16. CASE RecordUploaded(a)
  <2>1. put[a] \in PutSteps /\ {"reconcile1", "reconcile2"} \subseteq PutSteps
    BY <1>16 DEF RecordUploaded, PutSteps
  <2>2. CASE UNCHANGED row /\ (PutGoto(a, "reconcile1") \/ PutGoto(a, "reconcile2"))
    BY <1>9, <1>16, <2>1, <2>2 DEF RecordUploaded
  <2>3. CASE PutCas(a) /\ StoreRow(a) /\ PutGoto(a, "ok")
    BY <1>11, <1>16, <2>3 DEF RecordUploaded
  <2> QED
    BY <1>16, <2>2, <2>3 DEF RecordUploaded, Fault
<1>17. CASE ReconcileAlreadyFinalized(a)
  <2>1. /\ put[a] \in PutSteps /\ {"ok", "error"} \subseteq PutEnds
        /\ {"record2", "cleanup"} \subseteq PutSteps
    BY <1>17 DEF ReconcileAlreadyFinalized, PutSteps, PutEnds
  <2> QED
    BY <1>9, <1>17, <2>1 DEF ReconcileAlreadyFinalized
<1>18. CASE CrashPut(a)
  BY <1>9, <1>18 DEF CrashPut, PutEnds
<1> QED
  BY <1>6, <1>7, <1>13, <1>14, <1>15, <1>16, <1>17, <1>18 DEF PutStep

\* The first SELECT of a delete: its snapshot is the row.
LEMMA ReadKeepsBytes ==
  ASSUME BytesInv, NEW d \in Deletes, NEW a \in Artifacts, NEW policy \in BOOLEAN,
         ReadInitial(d, a, policy)
  PROVE  BytesInv'
<1>1. ClaimInv'
  BY ReadKeepsClaims DEF BytesInv
<1>2. del \in [Deletes -> DelType] /\ ArtifactBytes(a) /\ UNCHANGED <<row, bytes, put, doc>>
  BY DEF BytesInv, ClaimInv, TypeOK, ReadInitial
<1>3. /\ del[d].pc = "none" /\ del'[d].art = a /\ del'[d].initial = Snapshot(a)
      /\ del'[d].pc \in {"deleted", "claim"} /\ row[a].status # "absent"
      /\ \A e \in Deletes \ {d} : del'[e] = del[e]
  BY <1>2 DEF ReadInitial, DelType
<1>4. \A b \in Artifacts : ArtifactBytes(b)'
  BY <1>2 DEF BytesInv, ArtifactBytes
<1>5. Tombstones'
  BY <1>2, <1>3 DEF BytesInv, Tombstones, DeletedBlindly
<1>6. PointerLinks'
  BY <1>2 DEF BytesInv, PointerLinks
<1>7. SnapshotBytes(d)'
  BY <1>2, <1>3 DEF SnapshotBytes, ArtifactBytes, Snapshot, Holding
<1>8. ASSUME NEW e \in Deletes \ {d} PROVE SnapshotBytes(e)'
  BY <1>2, <1>3 DEF BytesInv, SnapshotBytes
<1> QED
  BY <1>1, <1>4, <1>5, <1>6, <1>7, <1>8 DEF BytesInv

\* The document operations: their rows are pointers, which have no object here.
LEMMA DocumentsKeepBytes ==
  ASSUME BytesInv, NEW x \in Documents,
         DeleteDocument(x) \/ \E a \in Artifacts : RegisterDocument(x, a)
  PROVE  BytesInv'
<1>1. ClaimInv'
  BY DocumentsKeepClaims DEF BytesInv
<1>2. /\ row \in [Artifacts -> RowType] /\ doc \in [Documents -> DocType]
      /\ UNCHANGED <<bytes, put, del>> /\ ClaimInv /\ DocumentLinks
      /\ \A b \in Artifacts : ArtifactBytes(b)
  BY DEF BytesInv, ClaimInv, TypeOK, DeleteDocument, RegisterDocument
<1>3. ASSUME NEW a \in Artifacts, NEW n, row' = [row EXCEPT ![a] = n], n.mode = "pointer",
             row[a].status = "absent" \/ (row[a].mode = "pointer" /\ n.uri = row[a].uri),
             row[a].status # "absent" \/ n.status = "stored", n.status # "failed",
             PointerLinks'
      PROVE  BytesInv'
  <2>1. /\ row'[a] = n /\ \A b \in Artifacts \ {a} : row'[b] = row[b]
        /\ put[a] = "none" /\ a \notin bytes
    BY <1>2, <1>3 DEF ArtifactBytes
  <2>2. \A b \in Artifacts : ArtifactBytes(b)'
    BY <1>2, <1>3, <2>1 DEF ArtifactBytes, PutSteps
  <2>3. Tombstones'
    BY <1>2, <2>1 DEF BytesInv, Tombstones, DeletedBlindly, PutSteps
  <2>4. ASSUME NEW d \in Deletes PROVE SnapshotBytes(d)'
    <3> SUFFICES ASSUME del[d].pc \in DeleteSteps PROVE SnapshotBytes(d)'
      BY <1>2 DEF SnapshotBytes
    <3>1. del[d].art \in Artifacts /\ row[del[d].art].status # "absent" /\ SnapshotBytes(d)
      BY <1>2 DEF BytesInv, ClaimInv, HandlerClaims, DeleteSteps
    <3>2. row'[del[d].art].mode = row[del[d].art].mode /\ row'[del[d].art].uri = row[del[d].art].uri
      BY <1>3, <2>1, <3>1
    <3> QED
      BY <1>2, <3>1, <3>2 DEF SnapshotBytes
  <2> QED
    BY <1>1, <1>3, <2>2, <2>3, <2>4 DEF BytesInv
<1>4. ASSUME NEW a \in Artifacts, RegisterDocument(x, a) PROVE BytesInv'
  <2>1. PointerRow.mode = "pointer" /\ PointerRow.status = "stored"
    BY DEF PointerRow, NoRow
  <2>2. row[a].status = "absent" /\ row' = [row EXCEPT ![a] = PointerRow]
    BY <1>4 DEF RegisterDocument
  <2>3. doc'[x].art = a /\ \A y \in Documents \ {x} : doc'[y] = doc[y]
    BY <1>2, <1>4 DEF RegisterDocument, DocType
  <2>4. PointerLinks'
    BY <1>2, <2>1, <2>2, <2>3 DEF BytesInv, PointerLinks, DocumentLinks
  <2> QED
    BY <1>3, <2>1, <2>2, <2>4
<1>5. CASE DeleteDocument(x)
  <2>1. /\ doc[x].art \in Artifacts /\ row[doc[x].art].status # "absent"
        /\ row[doc[x].art].mode = "pointer" /\ row[doc[x].art] \in RowType
    BY <1>2, <1>5 DEF DeleteDocument, DocumentLinks, BytesInv, PointerLinks
  <2>2. \A y \in Documents : doc'[y].art = doc[y].art
                             /\ (doc'[y].state = "active" => doc[y].state = "active")
    BY <1>2, <1>5 DEF DeleteDocument, DocType
  <2> DEFINE a == doc[x].art
             n == [row[a] EXCEPT !.status = "deleted", !.deleteAttempt = None]
  <2>3. n.mode = "pointer" /\ n.uri = row[a].uri /\ n.status = "deleted"
    BY <2>1 DEF RowType
  <2>4. CASE UNCHANGED row
    <3>1. PointerLinks'
      BY <2>2, <2>4 DEF BytesInv, PointerLinks
    <3>2. \A b \in Artifacts : ArtifactBytes(b)'
      BY <1>2, <2>4 DEF ArtifactBytes
    <3>3. Tombstones' /\ \A d \in Deletes : SnapshotBytes(d)'
      BY <1>2, <2>4 DEF BytesInv, Tombstones, DeletedBlindly, SnapshotBytes
    <3> QED
      BY <1>1, <3>1, <3>2, <3>3 DEF BytesInv
  <2>5. CASE row' = [row EXCEPT ![a] = n]
    <3> HIDE DEF n
    <3>1. PointerLinks'
      BY <1>2, <2>1, <2>2, <2>3, <2>5 DEF BytesInv, PointerLinks, DocumentLinks
    <3> QED
      BY <1>3, <2>1, <2>3, <2>5, <3>1
  <2> QED
    BY <1>5, <2>4, <2>5 DEF DeleteDocument
<1> QED
  BY <1>4, <1>5

\* The delete handler's steps.
LEMMA DeleteKeepsBytes ==
  ASSUME BytesInv, NEW d \in Deletes, DelStep(d) \/ CrashDelete(d)
  PROVE  BytesInv'
<1>1. ClaimInv' /\ UNCHANGED put
  BY DeleteKeepsClaims
     DEF BytesInv, DelStep, CrashDelete, ClaimDeleteAttempt, RereadRefused, CountReferences,
         CascadeDocument, CascadeDone, ReleaseDeleteClaim, BackendDelete, FinalizeSuccess,
         FinalizeFailure
<1>2. del[d].pc \in DeleteSteps
  BY DEF DelStep, CrashDelete, ClaimDeleteAttempt, RereadRefused, CountReferences,
         CascadeDocument, CascadeDone, ReleaseDeleteClaim, BackendDelete, FinalizeSuccess,
         FinalizeFailure, DeleteSteps
<1>3. PICK a \in Artifacts : a = del[d].art /\ row[a] \in RowType /\ row[a].status # "absent"
  BY <1>2 DEF BytesInv, ClaimInv, TypeOK, HandlerClaims, DeleteSteps
<1>4. /\ ClaimInv /\ row \in [Artifacts -> RowType] /\ doc \in [Documents -> DocType]
      /\ del \in [Deletes -> DelType] /\ del[d] \in DelType
      /\ ArtifactBytes(a) /\ SnapshotBytes(d)
  BY DEF BytesInv, ClaimInv, TypeOK
<1>5. del[d].pc \in Holding => row[a].status = "deleting"
  BY <1>3, <1>4, HolderDeletes
<1>6. ASSUME NEW pc, DelGoto(d, pc)
      PROVE  /\ del'[d].pc = pc /\ del'[d].art = a /\ del'[d].initial = del[d].initial
             /\ \A e \in Deletes \ {d} : del'[e] = del[e]
  BY <1>3, <1>4, <1>6 DEF DelGoto, DelType
<1>7. ASSUME \A b \in Artifacts : row'[b].mode = row[b].mode,
             \A x \in Documents : /\ doc'[x].art = doc[x].art
                                  /\ doc'[x].state = "active" => doc[x].state = "active"
      PROVE  PointerLinks'
  BY <1>4, <1>7 DEF BytesInv, PointerLinks, ClaimInv, DocumentLinks
\* Steps that move the handler only, or a document: it goes on holding, or ends.
<1>8. ASSUME UNCHANGED <<row, bytes>>,
             del'[d].art = a, del'[d].initial = del[d].initial,
             \A e \in Deletes \ {d} : del'[e] = del[e],
             \A x \in Documents : /\ doc'[x].art = doc[x].art
                                  /\ doc'[x].state = "active" => doc[x].state = "active",
             \/ del'[d].pc \in DeleteEnds
             \/ del'[d].pc = "reread" /\ del[d].pc = "claim"
             \/ /\ del[d].pc \in Holding \ {"finalizeSuccess"}
                /\ del'[d].pc \in Holding \ {"finalizeSuccess"}
      PROVE  BytesInv'
  <2>1. ArtifactBytes(a)'
    BY <1>1, <1>4, <1>8 DEF ArtifactBytes
  <2>2. SnapshotBytes(d)'
    BY <1>1, <1>2, <1>3, <1>4, <1>8 DEF SnapshotBytes, DeleteSteps, DeleteEnds, Holding
  <2> QED
    BY <1>1, <1>2, <1>3, <1>7, <1>8, <2>1, <2>2, DeleteMoves
<1>9. ASSUME UNCHANGED <<row, bytes, doc>>, NEW pc, DelGoto(d, pc),
             \/ pc \in DeleteEnds
             \/ pc = "reread" /\ del[d].pc = "claim"
             \/ pc \in Holding \ {"finalizeSuccess"} /\ del[d].pc \in Holding \ {"finalizeSuccess"}
      PROVE  BytesInv'
  BY <1>6, <1>8, <1>9
\* Steps that change the row of the artifact.
<1>10. ASSUME NEW n, row' = [row EXCEPT ![a] = n], n.mode = row[a].mode, n.uri = row[a].uri,
              NEW pc, DelGoto(d, pc), UNCHANGED bytes,
              \A x \in Documents : doc'[x].art = doc[x].art /\ doc'[x].state = doc[x].state,
              ArtifactBytes(a)', SnapshotBytes(d)',
              n.status = "deleted" =>
                 \/ pc = "deleted" /\ ~del[d].initial.uri
                 \/ a \notin bytes /\ put[a] \notin PutSteps
       PROVE  BytesInv'
  <2>1. row'[a] = n /\ \A b \in Artifacts \ {a} : row'[b] = row[b]
    BY <1>4, <1>10
  <2>2. \A b \in Artifacts : row'[b].mode = row[b].mode
    BY <1>10, <2>1
  <2>3. PointerLinks'
    BY <1>7, <1>10, <2>2
  <2> QED
    BY <1>1, <1>2, <1>3, <1>6, <1>10, <2>1, <2>3, DeleteMoves
<1>11. CASE ClaimDeleteAttempt(d)
  <2>1. CASE UNCHANGED row /\ (DelGoto(d, "reread") \/ DelGoto(d, "error"))
    BY <1>9, <1>11, <2>1 DEF ClaimDeleteAttempt, DeleteEnds
  <2>2. ASSUME row[a].status \in CLAIMABLE_FROM_STATUSES, DelGoto(d, "count"),
               row' = [row EXCEPT ![a] = [row[a] EXCEPT !.status = "deleting",
                                                        !.deleteAttempt = d,
                                                        !.lastError = "none"]]
        PROVE  BytesInv'
    <3> DEFINE n == [row[a] EXCEPT !.status = "deleting", !.deleteAttempt = d,
                                   !.lastError = "none"]
    <3>1. n.mode = row[a].mode /\ n.uri = row[a].uri /\ n.status = "deleting"
      BY <1>3 DEF RowType
    <3>2. row' = [row EXCEPT ![a] = n] /\ UNCHANGED <<bytes, doc>> /\ del[d].pc = "claim"
      BY <1>11, <2>2 DEF ClaimDeleteAttempt
    <3> HIDE DEF n
    <3>3. row'[a] = n
      BY <1>4, <3>2
    <3>4. ArtifactBytes(a)'
      BY <1>1, <1>3, <1>4, <3>1, <3>2, <3>3 DEF ArtifactBytes
    <3>5. row[a].mode = "managed" /\ row[a].uri => a \in bytes
      BY <1>4, <2>2 DEF ArtifactBytes, CLAIMABLE_FROM_STATUSES
    <3>6. SnapshotBytes(d)'
      BY <1>1, <1>2, <1>3, <1>4, <1>6, <2>2, <3>1, <3>2, <3>3, <3>5 DEF SnapshotBytes, Holding
    <3> QED
      BY <1>10, <2>2, <3>1, <3>2, <3>4, <3>6
  <2> QED
    BY <1>3, <1>11, <2>1, <2>2 DEF ClaimDeleteAttempt
<1>12. CASE RereadRefused(d)
  BY <1>9, <1>12 DEF RereadRefused, DeleteEnds
<1>13. CASE CountReferences(d)
  <2>1. UNCHANGED <<row, bytes, doc>> /\ del[d].pc = "count"
    BY <1>13 DEF CountReferences
  <2>2. CASE DelGoto(d, "backend") \/ DelGoto(d, "release")
    BY <1>9, <2>1, <2>2 DEF Holding
  <2>3. CASE \E t : del' = [del EXCEPT ![d] = [@ EXCEPT !.pc = "cascade", !.todo = t]]
    <3>1. /\ del'[d].pc = "cascade" /\ del'[d].art = a /\ del'[d].initial = del[d].initial
          /\ \A e \in Deletes \ {d} : del'[e] = del[e]
      BY <1>3, <1>4, <2>3 DEF DelType
    <3> QED
      BY <1>8, <2>1, <3>1 DEF Holding
  <2> QED
    BY <1>13, <2>2, <2>3 DEF CountReferences
<1>14. ASSUME NEW x \in Documents, CascadeDocument(d, x) PROVE BytesInv'
  <2>1. UNCHANGED <<row, bytes>> /\ del[d].pc = "cascade"
    BY <1>14 DEF CascadeDocument
  <2>2. CASE DelGoto(d, "release") /\ UNCHANGED doc
    BY <1>9, <2>1, <2>2 DEF Holding
  <2>3. ASSUME NEW t, NEW c, del' = [del EXCEPT ![d] = [@ EXCEPT !.todo = t, !.cascaded = c]],
               doc' = [doc EXCEPT ![x] = [@ EXCEPT !.state = "deleted"]]
        PROVE  BytesInv'
    <3>1. /\ del'[d].pc = "cascade" /\ del'[d].art = a /\ del'[d].initial = del[d].initial
          /\ \A e \in Deletes \ {d} : del'[e] = del[e]
      BY <1>3, <1>4, <2>1, <2>3 DEF DelType
    <3>2. \A y \in Documents : /\ doc'[y].art = doc[y].art
                               /\ doc'[y].state = "active" => doc[y].state = "active"
      BY <1>4, <2>3 DEF DocType
    <3> QED
      BY <1>8, <2>1, <3>1, <3>2 DEF Holding
  <2> QED
    BY <1>14, <2>2, <2>3 DEF CascadeDocument
<1>15. CASE CascadeDone(d)
  BY <1>9, <1>15 DEF CascadeDone, Holding
<1>16. CASE ReleaseDeleteClaim(d)
  <2>1. del[d].pc = "release" /\ UNCHANGED <<bytes, doc>> /\ DelGoto(d, "refused")
    BY <1>16 DEF ReleaseDeleteClaim
  <2>2. CASE UNCHANGED row
    BY <1>9, <2>1, <2>2 DEF DeleteEnds
  <2>3. ASSUME row' = [row EXCEPT ![a] = [row[a] EXCEPT !.status = del[d].initial.status,
                                                        !.lastError = del[d].initial.lastError,
                                                        !.deleteAttempt = None]]
        PROVE  BytesInv'
    <3> DEFINE n == [row[a] EXCEPT !.status = del[d].initial.status,
                                   !.lastError = del[d].initial.lastError,
                                   !.deleteAttempt = None]
    <3>1. /\ n.mode = row[a].mode /\ n.uri = row[a].uri /\ n.status = del[d].initial.status
          /\ n.lastError = del[d].initial.lastError
      BY <1>3 DEF RowType
    <3>2. row' = [row EXCEPT ![a] = n]
      BY <2>3
    <3> HIDE DEF n
    <3>3. row'[a] = n
      BY <1>4, <3>2
    <3>4. del[d].initial.status \notin {"absent", "deleted"}
      BY <1>2, <1>4 DEF ClaimInv, HandlerClaims
    <3>5. ArtifactBytes(a)'
      BY <1>1, <1>2, <1>3, <1>4, <2>1, <3>1, <3>3, <3>4 DEF ArtifactBytes, SnapshotBytes, Holding
    <3>6. SnapshotBytes(d)'
      BY <1>6, <2>1 DEF SnapshotBytes, DeleteSteps
    <3> QED
      BY <1>10, <2>1, <3>1, <3>2, <3>4, <3>5, <3>6
  <2> QED
    BY <1>3, <1>16, <2>2, <2>3 DEF ReleaseDeleteClaim
<1>17. CASE BackendDelete(d)
  <2>1. del[d].pc = "backend" /\ UNCHANGED <<row, doc>> /\ row[a].status = "deleting"
    BY <1>5, <1>17 DEF BackendDelete, Holding
  <2>2. CASE DelGoto(d, "finalizeFailure") /\ UNCHANGED bytes
    BY <1>9, <2>1, <2>2 DEF Holding
  <2> DEFINE hasObject == del[d].initial.mode = "managed" /\ del[d].initial.uri
  <2>3. CASE DelGoto(d, "finalizeSuccess") /\ bytes' = IF hasObject THEN bytes \ {a} ELSE bytes
    <3>1. hasObject => put[a] \notin PutSteps
      BY <1>2, <1>3, <1>4 DEF SnapshotBytes, ArtifactBytes
    <3>2. ArtifactBytes(a)'
      BY <1>1, <1>4, <2>1, <2>3, <3>1 DEF ArtifactBytes, PutSteps
    <3>3. SnapshotBytes(d)'
      BY <1>1, <1>2, <1>3, <1>4, <1>6, <2>1, <2>3 DEF SnapshotBytes
    <3>4. PointerLinks'
      BY <1>7, <2>1
    <3> QED
      BY <1>1, <1>2, <1>3, <1>6, <2>1, <2>3, <3>2, <3>3, <3>4, DeleteMoves DEF Holding
  <2> QED
    BY <1>3, <1>17, <2>2, <2>3 DEF BackendDelete
<1>18. ASSUME NEW s \in {"deleted", "delete_failed"}, NEW e, NEW w, Finalize(d, s, e, w),
              UNCHANGED bytes,
              del[d].pc = IF s = "deleted" THEN "finalizeSuccess" ELSE "finalizeFailure"
       PROVE  BytesInv'
  <2>1. CASE DelGoto(d, "error") /\ UNCHANGED <<row, doc>>
    BY <1>9, <1>18, <2>1 DEF DeleteEnds
  <2>2. ASSUME DelGoto(d, s),
               row' = [row EXCEPT ![a] = [row[a] EXCEPT !.status = s, !.lastError = e,
                                                        !.deleteAttempt = None]],
               doc' = [x \in Documents |->
                         IF x \in del[d].cascaded THEN [doc[x] EXCEPT !.raw = w] ELSE doc[x]]
        PROVE  BytesInv'
    <3> DEFINE n == [row[a] EXCEPT !.status = s, !.lastError = e, !.deleteAttempt = None]
    <3>1. n.mode = row[a].mode /\ n.uri = row[a].uri /\ n.status = s
      BY <1>3 DEF RowType
    <3>2. row' = [row EXCEPT ![a] = n]
      BY <2>2
    <3> HIDE DEF n
    <3>3. row'[a] = n
      BY <1>4, <3>2
    <3>4. \A x \in Documents : doc'[x].art = doc[x].art /\ doc'[x].state = doc[x].state
      BY <1>4, <2>2 DEF DocType
    <3>5. ArtifactBytes(a)'
      BY <1>1, <1>2, <1>3, <1>4, <1>18, <3>1, <3>3 DEF ArtifactBytes, SnapshotBytes, Holding
    <3>6. SnapshotBytes(d)'
      BY <1>6, <2>2 DEF SnapshotBytes, DeleteSteps
    <3>7. s = "deleted" =>
             \/ ~del[d].initial.uri
             \/ a \notin bytes /\ put[a] \notin PutSteps
      <4>1. del[d].initial.mode \in {"managed", "pointer"}
        BY <1>4 DEF DelType, SnapshotType
      <4> QED
        BY <1>2, <1>3, <1>4, <1>18, <4>1 DEF ArtifactBytes, SnapshotBytes, PutSteps
    <3> QED
      BY <1>10, <1>18, <2>2, <3>1, <3>2, <3>4, <3>5, <3>6, <3>7
  <2> QED
    BY <1>3, <1>18, <2>1, <2>2 DEF Finalize
<1>19. CASE FinalizeSuccess(d)
  BY <1>18, <1>19 DEF FinalizeSuccess
<1>20. CASE FinalizeFailure(d)
  BY <1>18, <1>20 DEF FinalizeFailure
<1>21. CASE CrashDelete(d)
  BY <1>9, <1>21 DEF CrashDelete, DeleteEnds
<1> QED
  BY <1>11, <1>12, <1>13, <1>14, <1>15, <1>16, <1>17, <1>19, <1>20, <1>21 DEF DelStep

LEMMA BytesInvariant ==
  ASSUME "commit" \notin Faults
  PROVE  Spec => []BytesInv
<1>1. Init => BytesInv
  BY ClaimsAtInit DEF Init, BytesInv, ArtifactBytes, SnapshotBytes, Tombstones, PointerLinks,
                      NoRow, NoDelete, NoDoc, PutSteps, DeleteSteps
<1>2. BytesInv /\ [Next]_vars => BytesInv'
  <2> SUFFICES ASSUME BytesInv, [Next]_vars PROVE BytesInv'
    OBVIOUS
  <2>1. CASE UNCHANGED vars
    <3>1. ClaimInv'
      BY <2>1 DEF vars, BytesInv, ClaimInv, TypeOK, RowClaims, HandlerClaims, DocumentLinks,
                  DeleteClaimExclusive, DeleteCas
    <3> QED
      BY <2>1, <3>1 DEF vars, BytesInv, ArtifactBytes, SnapshotBytes, Tombstones,
                        DeletedBlindly, PointerLinks
  <2>2. CASE \E a \in Artifacts : PutPointer(a) \/ ClaimPending(a) \/ PutStep(a) \/ CrashPut(a)
    BY <2>2, UploadKeepsBytes
  <2>3. CASE \E x \in Documents : DeleteDocument(x) \/ \E a \in Artifacts : RegisterDocument(x, a)
    BY <2>3, DocumentsKeepBytes
  <2>4. CASE \E d \in Deletes, a \in Artifacts, policy \in BOOLEAN : ReadInitial(d, a, policy)
    BY <2>4, ReadKeepsBytes
  <2>5. CASE \E d \in Deletes : DelStep(d) \/ CrashDelete(d)
    BY <2>5, DeleteKeepsBytes
  <2> QED
    BY <2>1, <2>2, <2>3, <2>4, <2>5 DEF Next
<1> QED
  BY <1>1, <1>2, PTL DEF Spec

\* Where no commit is lost on its way to the client, a stored row has its object, a
\* failed row left none or names the orphan, and a tombstone with an object was
\* made by a request that saw no uri.
THEOREM RowsAccountForBytes ==
  ASSUME "commit" \notin Faults
  PROVE  Spec => []BytesAccountedFor
<1>1. BytesInv => BytesAccountedFor
  <2> SUFFICES ASSUME BytesInv PROVE BytesAccountedFor
    OBVIOUS
  <2>1. StoredHasBytes /\ FailedIsCleanOrMarked
    BY DEF BytesInv, ArtifactBytes, StoredHasBytes, FailedIsCleanOrMarked, Managed
  <2>2. OrphanOnlyByBlindDelete
    BY DEF BytesInv, Tombstones, DeletedBlindly, OrphanOnlyByBlindDelete
  <2> QED
    BY <2>1, <2>2 DEF BytesAccountedFor
<1> QED
  BY <1>1, BytesInvariant, PTL

\* And a put that answers success leaves a row with a uri and an object behind it,
\* also when it got there by its retry.
THEOREM SuccessHasObject ==
  ASSUME "commit" \notin Faults
  PROVE  Spec => PutSuccessIsTrue
<1>1. BytesInv /\ [Next]_vars =>
         [\A a \in Artifacts :
             put[a] # "ok" /\ put'[a] = "ok" => row'[a].uri /\ a \in bytes']_vars
  <2> SUFFICES ASSUME BytesInv, Next, NEW a \in Artifacts, put[a] # "ok", put'[a] = "ok"
               PROVE  row'[a].uri /\ a \in bytes'
    OBVIOUS
  <2>1. /\ put \in [Artifacts -> PutSteps \cup PutEnds] /\ row \in [Artifacts -> RowType]
        /\ ArtifactBytes(a) /\ row[a] \in RowType
    BY DEF BytesInv, ClaimInv, TypeOK
  <2>2. RecordUploaded(a) \/ ReconcileAlreadyFinalized(a)
    <3>1. PICK b \in Artifacts : ClaimPending(b) \/ PutStep(b) \/ CrashPut(b)
      BY DEF Next, PutPointer, RegisterDocument, DeleteDocument, ReadInitial, DelStep,
             CrashDelete, ClaimDeleteAttempt, RereadRefused, CountReferences, CascadeDocument,
             CascadeDone, ReleaseDeleteClaim, BackendDelete, FinalizeSuccess, FinalizeFailure
    <3>2. b = a
      BY <2>1, <3>1 DEF ClaimPending, PutStep, CrashPut, BackendPut, RecordBackendPutFailure,
                        RecordUploaded, ReconcileAlreadyFinalized, CleanupUpload, MarkRecovered,
                        PutGoto
    <3> QED
      BY <2>1, <3>1, <3>2 DEF ClaimPending, PutStep, CrashPut, BackendPut,
                              RecordBackendPutFailure, CleanupUpload, MarkRecovered, PutGoto
  <2>3. CASE RecordUploaded(a)
    <3>1. StoreRow(a) /\ a \in bytes /\ UNCHANGED bytes
      BY <2>1, <2>3 DEF RecordUploaded, PutGoto, ArtifactBytes, Fault
    <3>2. row'[a].uri
      BY <2>1, <3>1 DEF StoreRow, RowType
    <3> QED
      BY <3>1, <3>2
  <2>4. CASE ReconcileAlreadyFinalized(a)
    <3>1. AlreadyFinalized(a) /\ put[a] \in PutSteps
      BY <2>1, <2>4 DEF ReconcileAlreadyFinalized, PutGoto, PutSteps
    <3> QED
      BY <2>1, <3>1 DEF AlreadyFinalized, ArtifactBytes
  <2> QED
    BY <2>2, <2>3, <2>4
<1> QED
  BY <1>1, BytesInvariant, PTL DEF Spec, PutSuccessIsTrue

-----------------------------------------------------------------------------
(***************************************************************************)
(* Requests one after the other. A DELETE that names no artifact whose     *)
(* upload still runs sees the uri of every object there is, as long as an  *)
(* upload cannot stop half-way: its recovery is never needed, because only *)
(* the answer of its UPDATE can get lost.                                  *)
(***************************************************************************)

SerialDeletes == ~EarlyDelete /\ Faults \subseteq {"backend", "commit"}

UploadSerial(a) ==
    LET r == row[a] IN
    /\ r.status = "absent" \/ r.mode = "pointer" => put[a] = "none" /\ a \notin bytes
    /\ put[a] \in PutSteps => put[a] \in {"upload", "markPutFailed", "record1", "reconcile1"}
    /\ put[a] \in {"upload", "markPutFailed"} => PutCas(a) /\ a \notin bytes
    /\ put[a] = "record1" => PutCas(a) /\ a \in bytes
    /\ put[a] = "reconcile1" => AlreadyFinalized(a) /\ a \in bytes
    /\ put[a] \in PutEnds /\ a \in bytes => r.uri
    /\ r.status = "deleted" => a \notin bytes

DeleteSerial(d) ==
    LET a == del[d].art
        i == del[d].initial
    IN
    del[d].pc \in DeleteSteps =>
       /\ put[a] \in PutEnds
       /\ i.mode = row[a].mode /\ i.uri = row[a].uri
       /\ del[d].pc = "finalizeSuccess" => a \notin bytes

SerialInv ==
    /\ ClaimInv
    /\ \A a \in Artifacts : UploadSerial(a)
    /\ \A d \in Deletes : DeleteSerial(d)
    /\ PointerLinks

\* Creating a row and the upload's steps: no DELETE is at the artifact.
LEMMA UploadKeepsSerial ==
  ASSUME SerialInv, SerialDeletes, NEW a \in Artifacts,
         PutPointer(a) \/ ClaimPending(a) \/ PutStep(a) \/ CrashPut(a)
  PROVE  SerialInv'
<1>1. ClaimInv'
  BY PutKeepsClaims DEF SerialInv
<1>2. /\ row \in [Artifacts -> RowType] /\ row[a] \in RowType
      /\ put \in [Artifacts -> PutSteps \cup PutEnds] /\ bytes \subseteq Artifacts
      /\ UploadSerial(a) /\ ClaimInv /\ \A d \in Deletes : DeleteSerial(d)
      /\ UNCHANGED <<del, doc>>
  BY DEF SerialInv, ClaimInv, TypeOK, PutPointer, ClaimPending, PutStep, CrashPut, BackendPut,
         RecordBackendPutFailure, RecordUploaded, ReconcileAlreadyFinalized, CleanupUpload,
         MarkRecovered
<1>3. ~Fault("db") /\ ~Fault("crash")
  BY DEF SerialDeletes, Fault
<1>4. ASSUME row[a].status = "absent" \/ put[a] \in PutSteps,
             row'[a].mode = row[a].mode \/ row[a].status = "absent", UploadSerial(a)',
             \A b \in Artifacts \ {a} :
                row'[b] = row[b] /\ put'[b] = put[b] /\ (b \in bytes' <=> b \in bytes)
      PROVE  SerialInv'
  <2>1. \A b \in Artifacts : UploadSerial(b)'
    BY <1>4 DEF SerialInv, UploadSerial, PutCas, AlreadyFinalized
  <2>2. PointerLinks'
    BY <1>2, <1>4 DEF SerialInv, PointerLinks, ClaimInv, DocumentLinks
  <2>3. ASSUME NEW d \in Deletes PROVE DeleteSerial(d)'
    <3>1. del[d].pc \in DeleteSteps =>
             /\ del[d].art \in Artifacts /\ row[del[d].art].status # "absent"
             /\ put[del[d].art] \notin PutSteps
      BY <1>2, StepsAreNotEnds DEF DeleteSerial, ClaimInv, HandlerClaims, DeleteSteps
    <3> QED
      BY <1>2, <1>4, <3>1 DEF DeleteSerial
  <2> QED
    BY <1>1, <2>1, <2>2, <2>3 DEF SerialInv
<1>5. CASE PutPointer(a)
  <2>1. /\ row[a].status = "absent" /\ row'[a] = PointerRow /\ UNCHANGED <<put, bytes>>
        /\ \A b \in Artifacts \ {a} : row'[b] = row[b]
    BY <1>2, <1>5 DEF PutPointer
  <2>2. UploadSerial(a)'
    BY <1>2, <2>1 DEF UploadSerial, PointerRow, NoRow, PutSteps
  <2> QED
    BY <1>4, <2>1, <2>2
<1>6. CASE ClaimPending(a)
  <2>1. /\ row[a].status = "absent" /\ put'[a] = "upload" /\ UNCHANGED bytes
        /\ row'[a] = [NoRow EXCEPT !.status = "pending", !.mode = "managed", !.putAttempt = TRUE]
        /\ \A b \in Artifacts \ {a} : row'[b] = row[b] /\ put'[b] = put[b]
    BY <1>2, <1>6 DEF ClaimPending
  <2>2. row'[a].status = "pending" /\ row'[a].mode = "managed" /\ row'[a].putAttempt
    BY <2>1 DEF NoRow
  <2>3. UploadSerial(a)'
    BY <1>2, <2>1, <2>2 DEF UploadSerial, PutSteps, PutEnds, PutCas
  <2> QED
    BY <1>4, <2>1, <2>3
\* Where the upload is tells which of its steps it takes.
<1>7. ASSUME put[a] \in PutSteps, NEW pc \in PutSteps \cup PutEnds, PutGoto(a, pc),
             row'[a].mode = row[a].mode,
             \A b \in Artifacts \ {a} : row'[b] = row[b] /\ (b \in bytes' <=> b \in bytes),
             put'[a] = pc => UploadSerial(a)'
      PROVE  SerialInv'
  <2>1. put'[a] = pc /\ \A b \in Artifacts \ {a} : put'[b] = put[b]
    BY <1>2, <1>7 DEF PutGoto
  <2> QED
    BY <1>4, <1>7, <2>1
<1>8. put[a] \in PutSteps => row[a].mode = "managed" /\ row[a].status # "absent"
  BY <1>2 DEF UploadSerial, PutSteps, RowType
<1>9. CASE BackendPut(a)
  <2>1. put[a] \in PutSteps /\ PutCas(a) /\ UNCHANGED row
    BY <1>2, <1>9 DEF BackendPut, UploadSerial, PutSteps
  <2>2. CASE bytes' = bytes \cup {a} /\ PutGoto(a, "record1")
    <3>1. put'[a] = "record1" => UploadSerial(a)'
      BY <1>2, <1>8, <2>1, <2>2 DEF UploadSerial, PutSteps, PutEnds, PutCas
    <3>2. "record1" \in PutSteps /\ \A b \in Artifacts \ {a} : b \in bytes' <=> b \in bytes
      BY <2>2 DEF PutSteps
    <3> QED
      BY <1>7, <2>1, <2>2, <3>1, <3>2
  <2>3. CASE PutGoto(a, "markPutFailed") /\ UNCHANGED bytes
    <3>1. put'[a] = "markPutFailed" => UploadSerial(a)'
      BY <1>2, <1>8, <1>9, <2>1, <2>3 DEF BackendPut, UploadSerial, PutSteps, PutEnds, PutCas
    <3> QED
      BY <1>7, <2>1, <2>3, <3>1 DEF PutSteps
  <2> QED
    BY <1>9, <2>2, <2>3 DEF BackendPut
<1>10. CASE RecordBackendPutFailure(a)
  <2>1. /\ put[a] \in PutSteps /\ PutCas(a) /\ a \notin bytes /\ UNCHANGED bytes
        /\ PutGoto(a, "error") /\ MarkFailed(a, "put_failed")
    BY <1>2, <1>3, <1>10 DEF RecordBackendPutFailure, UploadSerial, PutSteps
  <2>2. /\ row'[a].status = "failed" /\ row'[a].mode = row[a].mode
        /\ \A b \in Artifacts \ {a} : row'[b] = row[b]
    BY <1>2, <2>1 DEF MarkFailed, RowType
  <2>3. put'[a] = "error" => UploadSerial(a)'
    BY <1>8, <2>1, <2>2 DEF UploadSerial, PutSteps, PutEnds
  <2> QED
    BY <1>7, <2>1, <2>2, <2>3 DEF PutEnds
<1>11. CASE RecordUploaded(a)
  <2>1. /\ put[a] = "record1" /\ put[a] \in PutSteps /\ a \in bytes /\ UNCHANGED bytes
        /\ StoreRow(a) /\ (PutGoto(a, "ok") \/ PutGoto(a, "reconcile1"))
    BY <1>2, <1>3, <1>11 DEF RecordUploaded, UploadSerial, PutSteps
  <2>2. /\ row'[a].status = "stored" /\ row'[a].uri /\ row'[a].mode = row[a].mode
        /\ \A b \in Artifacts \ {a} : row'[b] = row[b]
    BY <1>2, <2>1 DEF StoreRow, RowType
  <2>3. put'[a] \in {"ok", "reconcile1"} => UploadSerial(a)'
    BY <1>8, <2>1, <2>2 DEF UploadSerial, PutSteps, PutEnds, AlreadyFinalized
  <2> QED
    BY <1>7, <2>1, <2>2, <2>3 DEF PutEnds, PutSteps
<1>12. CASE ReconcileAlreadyFinalized(a)
  <2>1. /\ put[a] = "reconcile1" /\ put[a] \in PutSteps /\ AlreadyFinalized(a)
        /\ UNCHANGED <<row, bytes>> /\ PutGoto(a, "ok")
    BY <1>2, <1>3, <1>12 DEF ReconcileAlreadyFinalized, UploadSerial, PutSteps
  <2>2. put'[a] = "ok" => UploadSerial(a)'
    BY <1>2, <1>8, <2>1 DEF UploadSerial, PutSteps, PutEnds, AlreadyFinalized
  <2> QED
    BY <1>7, <2>1, <2>2 DEF PutEnds
<1>13. ~CleanupUpload(a) /\ ~MarkRecovered(a) /\ ~CrashPut(a)
  BY <1>2, <1>3 DEF CleanupUpload, MarkRecovered, CrashPut, UploadSerial, PutSteps
<1> QED
  BY <1>5, <1>6, <1>9, <1>10, <1>11, <1>12, <1>13 DEF PutStep

\* The document operations and the first SELECT of a delete.
LEMMA OthersKeepSerial ==
  ASSUME SerialInv, SerialDeletes,
         \/ \E d \in Deletes, a \in Artifacts, policy \in BOOLEAN : ReadInitial(d, a, policy)
         \/ \E x \in Documents : DeleteDocument(x) \/ \E a \in Artifacts : RegisterDocument(x, a)
  PROVE  SerialInv'
<1>1. ClaimInv'
  BY ReadKeepsClaims, DocumentsKeepClaims DEF SerialInv
<1>2. /\ row \in [Artifacts -> RowType] /\ doc \in [Documents -> DocType]
      /\ del \in [Deletes -> DelType] /\ ClaimInv
      /\ \A b \in Artifacts : UploadSerial(b)
      /\ \A e \in Deletes : DeleteSerial(e)
  BY DEF SerialInv, ClaimInv, TypeOK
<1>3. ASSUME NEW d \in Deletes, NEW a \in Artifacts, NEW policy \in BOOLEAN,
             ReadInitial(d, a, policy)
      PROVE  SerialInv'
  <2>1. /\ del'[d].art = a /\ del'[d].initial = Snapshot(a) /\ put[a] \in PutEnds
        /\ del'[d].pc \in {"deleted", "claim"} /\ UNCHANGED <<row, bytes, put, doc>>
        /\ \A e \in Deletes \ {d} : del'[e] = del[e]
    BY <1>2, <1>3 DEF ReadInitial, DelType, SerialDeletes
  <2>2. PointerLinks' /\ \A b \in Artifacts : UploadSerial(b)'
    BY <1>2, <2>1 DEF SerialInv, PointerLinks, UploadSerial, PutCas, AlreadyFinalized
  <2>3. \A e \in Deletes : DeleteSerial(e)'
    BY <1>2, <2>1 DEF DeleteSerial, Snapshot
  <2> QED
    BY <1>1, <2>2, <2>3 DEF SerialInv
<1>4. ASSUME UNCHANGED <<bytes, put, del>>, PointerLinks', NEW a \in Artifacts,
             \A b \in Artifacts \ {a} : row'[b] = row[b],
             row[a].status = "absent" \/ row[a].mode = "pointer", row'[a].mode = "pointer",
             row[a].status # "absent" => row'[a].uri = row[a].uri
      PROVE  SerialInv'
  <2>1. \A b \in Artifacts : UploadSerial(b)'
    BY <1>2, <1>4 DEF UploadSerial, PutCas, AlreadyFinalized, PutSteps
  <2>2. \A b \in Artifacts : row[b].status # "absent" =>
                                row'[b].mode = row[b].mode /\ row'[b].uri = row[b].uri
    BY <1>4
  <2>3. ASSUME NEW e \in Deletes PROVE DeleteSerial(e)'
    <3>1. del[e].pc \in DeleteSteps =>
             del[e].art \in Artifacts /\ row[del[e].art].status # "absent"
      BY <1>2 DEF ClaimInv, HandlerClaims, DeleteSteps
    <3>2. DeleteSerial(e)
      BY <1>2
    <3> QED
      BY <1>4, <2>2, <3>1, <3>2 DEF DeleteSerial
  <2> QED
    BY <1>1, <1>4, <2>1, <2>3 DEF SerialInv
<1>5. ASSUME NEW x \in Documents, NEW a \in Artifacts, RegisterDocument(x, a) PROVE SerialInv'
  <2>1. /\ row[a].status = "absent" /\ row'[a] = PointerRow
        /\ \A b \in Artifacts \ {a} : row'[b] = row[b]
        /\ doc'[x].art = a /\ \A y \in Documents \ {x} : doc'[y] = doc[y]
        /\ UNCHANGED <<bytes, put, del>>
    BY <1>2, <1>5 DEF RegisterDocument, DocType
  <2>2. PointerRow.mode = "pointer"
    BY DEF PointerRow, NoRow
  <2>3. PointerLinks'
    BY <1>2, <2>1, <2>2 DEF SerialInv, PointerLinks, ClaimInv, DocumentLinks
  <2> QED
    BY <1>4, <2>1, <2>2, <2>3
<1>6. ASSUME NEW x \in Documents, DeleteDocument(x) PROVE SerialInv'
  <2>1. PICK a \in Artifacts : a = doc[x].art /\ row[a].mode = "pointer" /\ row[a] \in RowType
    BY <1>2, <1>6 DEF DeleteDocument, ClaimInv, DocumentLinks, SerialInv, PointerLinks
  <2>2. \A y \in Documents : /\ doc'[y].art = doc[y].art
                             /\ doc'[y].state = "active" => doc[y].state = "active"
    BY <1>2, <1>6 DEF DeleteDocument, DocType
  <2>3. /\ row'[a].mode = "pointer" /\ row'[a].uri = row[a].uri
        /\ \A b \in Artifacts \ {a} : row'[b] = row[b]
    <3>1. CASE UNCHANGED row
      BY <2>1, <3>1
    <3>2. CASE row' = [row EXCEPT ![a] = [row[a] EXCEPT !.status = "deleted",
                                                        !.deleteAttempt = None]]
      BY <1>2, <2>1, <3>2 DEF RowType
    <3> QED
      BY <1>6, <2>1, <3>1, <3>2 DEF DeleteDocument
  <2>4. PointerLinks'
    BY <1>2, <2>1, <2>2, <2>3 DEF SerialInv, PointerLinks, ClaimInv, DocumentLinks
  <2>5. UNCHANGED <<bytes, put, del>>
    BY <1>6 DEF DeleteDocument
  <2> QED
    BY <1>4, <2>1, <2>3, <2>4, <2>5
<1> QED
  BY <1>3, <1>5, <1>6

\* The delete handler's steps: the upload of its artifact is over.
LEMMA DeleteKeepsSerial ==
  ASSUME SerialInv, SerialDeletes, NEW d \in Deletes, DelStep(d) \/ CrashDelete(d)
  PROVE  SerialInv'
<1>1. ClaimInv' /\ UNCHANGED put
  BY DeleteKeepsClaims
     DEF SerialInv, DelStep, CrashDelete, ClaimDeleteAttempt, RereadRefused, CountReferences,
         CascadeDocument, CascadeDone, ReleaseDeleteClaim, BackendDelete, FinalizeSuccess,
         FinalizeFailure
<1>2. del[d].pc \in DeleteSteps
  BY DEF DelStep, CrashDelete, ClaimDeleteAttempt, RereadRefused, CountReferences,
         CascadeDocument, CascadeDone, ReleaseDeleteClaim, BackendDelete, FinalizeSuccess,
         FinalizeFailure, DeleteSteps
<1>3. PICK a \in Artifacts :
         /\ a = del[d].art /\ row[a] \in RowType /\ row[a].status # "absent"
         /\ put[a] \in PutEnds /\ put[a] \notin PutSteps
         /\ del[d].initial.mode = row[a].mode /\ del[d].initial.uri = row[a].uri
  BY <1>2, StepsAreNotEnds DEF SerialInv, ClaimInv, TypeOK, HandlerClaims, DeleteSteps,
                               DeleteSerial
<1>4. /\ ClaimInv /\ row \in [Artifacts -> RowType] /\ doc \in [Documents -> DocType]
      /\ del \in [Deletes -> DelType] /\ del[d] \in DelType
      /\ UploadSerial(a) /\ DeleteSerial(d)
  BY DEF SerialInv, ClaimInv, TypeOK
<1>5. \A x \in Documents : /\ doc'[x].art = doc[x].art
                           /\ doc'[x].state = "active" => doc[x].state = "active"
  <2> DEFINE Fewer == \A x \in Documents :
                         /\ doc'[x].art = doc[x].art
                         /\ doc'[x].state = "active" => doc[x].state = "active"
  <2>1. ASSUME NEW x \in Documents, CascadeDocument(d, x) PROVE Fewer
    BY <1>4, <2>1 DEF CascadeDocument, DocType
  <2>2. ASSUME NEW s, NEW e, NEW w, Finalize(d, s, e, w) PROVE Fewer
    BY <1>4, <2>2 DEF Finalize, DocType
  <2>3. UNCHANGED doc \/ (\E x \in Documents : CascadeDocument(d, x))
          \/ FinalizeSuccess(d) \/ FinalizeFailure(d)
    BY DEF DelStep, CrashDelete, ClaimDeleteAttempt, RereadRefused, CountReferences,
           CascadeDone, ReleaseDeleteClaim, BackendDelete
  <2> HIDE DEF Fewer
  <2>4. FinalizeSuccess(d) \/ FinalizeFailure(d) => Fewer
    BY <2>2 DEF FinalizeSuccess, FinalizeFailure
  <2>5. UNCHANGED doc => Fewer
    BY DEF Fewer
  <2>6. Fewer
    BY <2>1, <2>3, <2>4, <2>5
  <2> QED
    BY <2>6 DEF Fewer
<1>6. ASSUME \A b \in Artifacts \ {a} : row'[b] = row[b] /\ (b \in bytes' <=> b \in bytes),
             bytes' \subseteq bytes,
             row'[a].mode = row[a].mode, row'[a].uri = row[a].uri, row'[a].status # "absent",
             row'[a].status = "deleted" => a \notin bytes',
             del'[d].art = a, del'[d].initial = del[d].initial,
             \A e \in Deletes \ {d} : del'[e] = del[e],
             del'[d].pc = "finalizeSuccess" => a \notin bytes'
      PROVE  SerialInv'
  <2>1. \A b \in Artifacts : UploadSerial(b)'
    BY <1>1, <1>3, <1>4, <1>6 DEF SerialInv, UploadSerial, PutCas, AlreadyFinalized, PutSteps
  <2>2. DeleteSerial(d)'
    BY <1>1, <1>3, <1>6 DEF DeleteSerial
  <2>3. ASSUME NEW e \in Deletes \ {d} PROVE DeleteSerial(e)'
    <3>1. del[e].pc \in DeleteSteps => del[e].art \in Artifacts
      BY <1>4 DEF ClaimInv, HandlerClaims, DeleteSteps
    <3>2. DeleteSerial(e)
      BY DEF SerialInv
    <3>3. \A b \in Artifacts : row'[b].mode = row[b].mode /\ row'[b].uri = row[b].uri
      BY <1>6
    <3> QED
      BY <1>1, <1>6, <3>1, <3>2, <3>3 DEF DeleteSerial
  <2>4. PointerLinks'
    BY <1>4, <1>5, <1>6 DEF SerialInv, PointerLinks, ClaimInv, DocumentLinks
  <2> QED
    BY <1>1, <2>1, <2>2, <2>3, <2>4 DEF SerialInv
<1>7. ASSUME NEW pc, DelGoto(d, pc)
      PROVE  /\ del'[d].pc = pc /\ del'[d].art = a /\ del'[d].initial = del[d].initial
             /\ \A e \in Deletes \ {d} : del'[e] = del[e]
  BY <1>3, <1>4, <1>7 DEF DelGoto, DelType
<1>8. row[a].status = "deleted" => a \notin bytes
  BY <1>4 DEF UploadSerial
<1>9. ASSUME UNCHANGED <<row, bytes>>, NEW pc \in (DeleteSteps \cup DeleteEnds) \ {"finalizeSuccess"},
             DelGoto(d, pc)
      PROVE  SerialInv'
  BY <1>3, <1>6, <1>7, <1>8, <1>9
\* The steps that write the row.
<1>10. ASSUME NEW s, NEW e, NEW c, s # "absent", s = "deleted" => a \notin bytes,
              row' = [row EXCEPT ![a] = [@ EXCEPT !.status = s, !.deleteAttempt = c,
                                                  !.lastError = e]],
              UNCHANGED bytes, NEW pc, pc # "finalizeSuccess", DelGoto(d, pc)
       PROVE  SerialInv'
  <2>1. /\ row'[a].status = s /\ row'[a].mode = row[a].mode /\ row'[a].uri = row[a].uri
        /\ \A b \in Artifacts \ {a} : row'[b] = row[b]
    BY <1>3, <1>4, <1>10 DEF RowType
  <2> QED
    BY <1>6, <1>7, <1>10, <2>1
<1>11. CASE ClaimDeleteAttempt(d)
  <2>1. CASE UNCHANGED row /\ (DelGoto(d, "reread") \/ DelGoto(d, "error"))
    BY <1>9, <1>11, <2>1 DEF ClaimDeleteAttempt, DeleteSteps, DeleteEnds
  <2>2. CASE /\ row' = [row EXCEPT ![a] = [@ EXCEPT !.status = "deleting", !.deleteAttempt = d,
                                                    !.lastError = "none"]]
             /\ DelGoto(d, "count")
    <3>1. UNCHANGED bytes
      BY <1>11 DEF ClaimDeleteAttempt
    <3>2. "deleting" # "absent" /\ "deleting" # "deleted" /\ "count" # "finalizeSuccess"
      OBVIOUS
    <3> QED
      BY <1>10, <2>2, <3>1, <3>2
  <2> QED
    BY <1>3, <1>11, <2>1, <2>2 DEF ClaimDeleteAttempt
<1>12. CASE RereadRefused(d)
  BY <1>9, <1>12 DEF RereadRefused, DeleteEnds
<1>13. CASE CountReferences(d)
  <2>1. UNCHANGED <<row, bytes>>
    BY <1>13 DEF CountReferences
  <2>2. CASE DelGoto(d, "backend") \/ DelGoto(d, "release")
    BY <1>9, <2>1, <2>2 DEF DeleteSteps
  <2>3. CASE \E t : del' = [del EXCEPT ![d] = [@ EXCEPT !.pc = "cascade", !.todo = t]]
    <3>1. /\ del'[d].pc = "cascade" /\ del'[d].art = a /\ del'[d].initial = del[d].initial
          /\ \A e \in Deletes \ {d} : del'[e] = del[e]
      BY <1>3, <1>4, <2>3 DEF DelType
    <3> QED
      BY <1>3, <1>6, <1>8, <2>1, <3>1
  <2> QED
    BY <1>13, <2>2, <2>3 DEF CountReferences
<1>14. ASSUME NEW x \in Documents, CascadeDocument(d, x) PROVE SerialInv'
  <2>1. UNCHANGED <<row, bytes>> /\ del[d].pc = "cascade"
    BY <1>14 DEF CascadeDocument
  <2>2. CASE DelGoto(d, "release")
    BY <1>9, <2>1, <2>2 DEF DeleteSteps
  <2>3. CASE \E t, c : del' = [del EXCEPT ![d] = [@ EXCEPT !.todo = t, !.cascaded = c]]
    <3>1. /\ del'[d].pc = "cascade" /\ del'[d].art = a /\ del'[d].initial = del[d].initial
          /\ \A e \in Deletes \ {d} : del'[e] = del[e]
      BY <1>3, <1>4, <2>1, <2>3 DEF DelType
    <3> QED
      BY <1>3, <1>6, <1>8, <2>1, <3>1
  <2> QED
    BY <1>14, <2>2, <2>3 DEF CascadeDocument
<1>15. CASE CascadeDone(d)
  BY <1>9, <1>15 DEF CascadeDone, DeleteSteps
<1>16. CASE ReleaseDeleteClaim(d)
  <2>1. del[d].initial.status \notin {"absent", "deleted"}
    BY <1>2, <1>4 DEF ClaimInv, HandlerClaims
  <2>2. CASE UNCHANGED row
    BY <1>9, <1>16, <2>2 DEF ReleaseDeleteClaim, DeleteEnds
  <2>3. ASSUME row' = [row EXCEPT ![a] = [@ EXCEPT !.status = del[d].initial.status,
                                                   !.lastError = del[d].initial.lastError,
                                                   !.deleteAttempt = None]]
        PROVE  SerialInv'
    <3>1. row' = [row EXCEPT ![a] = [@ EXCEPT !.status = del[d].initial.status,
                                              !.deleteAttempt = None,
                                              !.lastError = del[d].initial.lastError]]
      BY <1>3, <1>4, <2>3 DEF RowType
    <3> QED
      BY <1>10, <1>16, <2>1, <3>1 DEF ReleaseDeleteClaim
  <2> QED
    BY <1>3, <1>16, <2>2, <2>3 DEF ReleaseDeleteClaim
<1>17. CASE BackendDelete(d)
  <2> DEFINE hasObject == del[d].initial.mode = "managed" /\ del[d].initial.uri
  <2>1. CASE DelGoto(d, "finalizeFailure") /\ UNCHANGED bytes
    BY <1>9, <1>17, <2>1 DEF BackendDelete, DeleteSteps
  <2>2. CASE DelGoto(d, "finalizeSuccess") /\ bytes' = IF hasObject THEN bytes \ {a} ELSE bytes
    <3>1. row[a].mode \in {"pointer", "managed"}
      BY <1>3 DEF RowType
    <3>2. a \notin bytes'
      BY <1>3, <1>4, <2>2, <3>1 DEF UploadSerial
    <3>3. UNCHANGED row /\ bytes' \subseteq bytes
          /\ \A b \in Artifacts \ {a} : b \in bytes' <=> b \in bytes
      BY <1>17, <2>2 DEF BackendDelete
    <3> QED
      BY <1>3, <1>6, <1>7, <2>2, <3>2, <3>3
  <2> QED
    BY <1>3, <1>17, <2>1, <2>2 DEF BackendDelete
<1>18. ASSUME NEW s \in {"deleted", "delete_failed"}, NEW e, NEW w, Finalize(d, s, e, w),
              UNCHANGED bytes,
              del[d].pc = IF s = "deleted" THEN "finalizeSuccess" ELSE "finalizeFailure"
       PROVE  SerialInv'
  <2>1. CASE DelGoto(d, "error") /\ UNCHANGED <<row, doc>>
    BY <1>9, <1>18, <2>1 DEF DeleteEnds
  <2>2. ASSUME DelGoto(d, s),
               row' = [row EXCEPT ![a] = [@ EXCEPT !.status = s, !.lastError = e,
                                                   !.deleteAttempt = None]]
        PROVE  SerialInv'
    <3>1. row' = [row EXCEPT ![a] = [@ EXCEPT !.status = s, !.deleteAttempt = None,
                                              !.lastError = e]]
      BY <1>3, <1>4, <2>2 DEF RowType
    <3>2. s = "deleted" => a \notin bytes
      BY <1>2, <1>3, <1>4, <1>18 DEF DeleteSerial
    <3> QED
      BY <1>10, <1>18, <2>2, <3>1, <3>2
  <2> QED
    BY <1>3, <1>18, <2>1, <2>2 DEF Finalize
<1>19. CASE FinalizeSuccess(d)
  BY <1>18, <1>19 DEF FinalizeSuccess
<1>20. CASE FinalizeFailure(d)
  BY <1>18, <1>20 DEF FinalizeFailure
<1>21. CASE CrashDelete(d)
  BY <1>9, <1>21 DEF CrashDelete, DeleteEnds
<1>22. CASE \E x \in Documents : CascadeDocument(d, x)
  BY <1>14, <1>22
<1> QED
  BY <1>11, <1>12, <1>13, <1>15, <1>16, <1>17, <1>19, <1>20, <1>21, <1>22 DEF DelStep

LEMMA SerialInvariant ==
  ASSUME SerialDeletes
  PROVE  Spec => []SerialInv
<1>1. Init => SerialInv
  <2> SUFFICES ASSUME Init PROVE SerialInv
    OBVIOUS
  <2>1. \A b \in Artifacts : UploadSerial(b)
    <3>1. \A b \in Artifacts : /\ row[b].status = "absent" /\ put[b] = "none"
                               /\ put[b] \notin PutSteps /\ b \notin bytes
      BY DEF Init, NoRow, PutSteps
    <3> QED
      BY <3>1 DEF UploadSerial
  <2>2. \A d \in Deletes : DeleteSerial(d)
    BY DEF Init, NoDelete, DeleteSerial, DeleteSteps
  <2>3. PointerLinks
    BY DEF Init, NoDoc, PointerLinks
  <2> QED
    BY ClaimsAtInit, <2>1, <2>2, <2>3 DEF SerialInv
<1>2. SerialInv /\ [Next]_vars => SerialInv'
  <2> SUFFICES ASSUME SerialInv, [Next]_vars PROVE SerialInv'
    OBVIOUS
  <2>1. CASE UNCHANGED vars
    <3>1. ClaimInv'
      BY <2>1 DEF vars, SerialInv, ClaimInv, TypeOK, RowClaims, HandlerClaims, DocumentLinks,
                  DeleteClaimExclusive, DeleteCas
    <3> QED
      BY <2>1, <3>1 DEF vars, SerialInv, UploadSerial, DeleteSerial, PointerLinks, PutCas,
                        AlreadyFinalized
  <2>2. CASE \E a \in Artifacts : PutPointer(a) \/ ClaimPending(a) \/ PutStep(a) \/ CrashPut(a)
    BY <2>2, UploadKeepsSerial
  <2>3. CASE \E x \in Documents : DeleteDocument(x) \/ \E a \in Artifacts : RegisterDocument(x, a)
    BY <2>3, OthersKeepSerial
  <2>4. CASE \E d \in Deletes, a \in Artifacts, policy \in BOOLEAN : ReadInitial(d, a, policy)
    BY <2>4, OthersKeepSerial
  <2>5. CASE \E d \in Deletes : DelStep(d) \/ CrashDelete(d)
    BY <2>5, DeleteKeepsSerial
  <2> QED
    BY <2>1, <2>2, <2>3, <2>4, <2>5 DEF Next
<1> QED
  BY <1>1, <1>2, PTL DEF Spec

\* Where a DELETE waits for the upload and an upload does not stop half-way, no
\* tombstone has an object, though the backend throws and answers get lost.
THEOREM TombstonesAreEmpty ==
  ASSUME SerialDeletes
  PROVE  Spec => []DeletedHasNoBytes
<1>1. SerialInv => DeletedHasNoBytes
  BY DEF SerialInv, UploadSerial, DeletedHasNoBytes
<1> QED
  BY <1>1, SerialInvariant, PTL

-----------------------------------------------------------------------------
(***************************************************************************)
(* Refusals. A refused request is told that a delete is in flight. Without *)
(* crashes, database errors and linked documents no handler has to give    *)
(* its claim up, so the row is deleting only while its holder runs.        *)
(***************************************************************************)

HoldersRun == Documents = {} /\ Faults \subseteq {"backend", "commit"}

\* Holding, less the steps that only documents or a database error lead to.
AtWork == {"count", "backend", "finalizeSuccess", "finalizeFailure"}

DeletingHeld ==
    \A a \in Artifacts : row[a].status = "deleting" =>
       LET e == row[a].deleteAttempt
       IN  e \in Deletes /\ del[e].art = a /\ del[e].pc \in AtWork

\* A handler that is not at work holds nothing, so it may go anywhere.
LEMMA IdleMoves ==
  ASSUME DeletingHeld, TypeOK, UNCHANGED row, NEW d \in Deletes, del[d].pc \notin AtWork,
         \A e \in Deletes \ {d} : del'[e] = del[e]
  PROVE  DeletingHeld'
<1> SUFFICES ASSUME NEW a \in Artifacts, row[a].status = "deleting"
             PROVE  LET e == row[a].deleteAttempt
                    IN  e \in Deletes /\ del'[e].art = a /\ del'[e].pc \in AtWork
  BY DEF DeletingHeld
<1> QED
  BY DEF DeletingHeld

\* The holder moves on, and the row stays under its claim.
LEMMA HolderMoves ==
  ASSUME DeletingHeld, TypeOK, UNCHANGED row, NEW d \in Deletes, NEW pc \in AtWork,
         DelGoto(d, pc)
  PROVE  DeletingHeld'
<1>1. del'[d].art = del[d].art /\ del'[d].pc = pc /\ \A e \in Deletes \ {d} : del'[e] = del[e]
  BY DEF DelGoto, TypeOK, DelType
<1> QED
  BY <1>1 DEF DeletingHeld

LEMMA DeleteKeepsHolders ==
  ASSUME HoldersRun, ClaimInv, DeletingHeld, NEW d \in Deletes, DelStep(d) \/ CrashDelete(d)
  PROVE  DeletingHeld'
<1>1. /\ TypeOK /\ row \in [Artifacts -> RowType] /\ del \in [Deletes -> DelType]
      /\ \A x : ~(x \in Documents) /\ ~Fault("db") /\ ~Fault("crash")
  BY DEF ClaimInv, TypeOK, HoldersRun, Fault
<1>2. del[d].pc \in DeleteSteps
  BY DEF DelStep, CrashDelete, ClaimDeleteAttempt, RereadRefused, CountReferences,
         CascadeDocument, CascadeDone, ReleaseDeleteClaim, BackendDelete, FinalizeSuccess,
         FinalizeFailure, DeleteSteps
<1>3. PICK a \in Artifacts : a = del[d].art /\ row[a] \in RowType /\ del[d] \in DelType
  BY <1>1, <1>2 DEF ClaimInv, HandlerClaims, DeleteSteps
<1>4. del[d].pc \in Holding =>
         row[a].status = "deleting" /\ row[a].deleteAttempt = d /\ del[d].pc \in AtWork
  BY <1>3 DEF ClaimInv, DeleteClaimExclusive, DeleteCas, DeletingHeld
<1>5. ASSUME NEW pc, DelGoto(d, pc)
      PROVE  /\ del'[d].pc = pc /\ del'[d].art = a
             /\ \A e \in Deletes \ {d} : del'[e] = del[e]
  BY <1>1, <1>3, <1>5 DEF DelGoto, DelType
<1>6. CASE ClaimDeleteAttempt(d)
  <2>1. CASE UNCHANGED row
    <3>1. \E pc : DelGoto(d, pc)
      BY <1>6 DEF ClaimDeleteAttempt
    <3>2. del[d].pc \notin AtWork
      BY <1>6 DEF ClaimDeleteAttempt, AtWork
    <3> QED
      BY <1>1, <1>5, <2>1, <3>1, <3>2, IdleMoves
  <2>2. CASE /\ row' = [row EXCEPT ![a] = [@ EXCEPT !.status = "deleting",
                                                    !.deleteAttempt = d,
                                                    !.lastError = "none"]]
             /\ DelGoto(d, "count")
    <3>1. row'[a].deleteAttempt = d /\ \A b \in Artifacts \ {a} : row'[b] = row[b]
      BY <1>1, <1>3, <2>2 DEF RowType
    <3>2. del'[d].pc \in AtWork /\ del'[d].art = a /\ \A e \in Deletes \ {d} : del'[e] = del[e]
      BY <1>5, <2>2 DEF AtWork
    <3>3. del[d].pc \notin AtWork
      BY <1>6 DEF ClaimDeleteAttempt, AtWork
    <3> QED
      BY <3>1, <3>2, <3>3 DEF DeletingHeld
  <2> QED
    BY <1>3, <1>6, <2>1, <2>2 DEF ClaimDeleteAttempt
<1>7. CASE RereadRefused(d)
  <2>1. UNCHANGED row /\ del[d].pc \notin AtWork /\ \E pc : DelGoto(d, pc)
    BY <1>7 DEF RereadRefused, AtWork
  <2> QED
    BY <1>1, <1>5, <2>1, IdleMoves
<1>8. CASE CountReferences(d)
  <2>1. UNCHANGED row /\ DelGoto(d, "backend")
    BY <1>1, <1>8 DEF CountReferences, References
  <2> QED
    BY <1>1, <2>1, HolderMoves DEF AtWork
<1>9. ~CascadeDone(d) /\ ~ReleaseDeleteClaim(d) /\ ~CrashDelete(d)
      /\ \A x \in Documents : ~CascadeDocument(d, x)
  BY <1>1, <1>4 DEF CascadeDone, ReleaseDeleteClaim, CrashDelete, AtWork, Holding
<1>10. CASE BackendDelete(d)
  <2>1. UNCHANGED row /\ (DelGoto(d, "finalizeSuccess") \/ DelGoto(d, "finalizeFailure"))
    BY <1>10 DEF BackendDelete
  <2> QED
    BY <1>1, <2>1, HolderMoves DEF AtWork
<1>11. ASSUME NEW s \in {"deleted", "delete_failed"}, NEW e, NEW w, Finalize(d, s, e, w),
              del[d].pc \in Holding
       PROVE  DeletingHeld'
  <2>1. DeleteCas(d)
    BY <1>11 DEF ClaimInv, DeleteClaimExclusive
  <2>2. /\ row' = [row EXCEPT ![a] = [@ EXCEPT !.status = s, !.lastError = e,
                                               !.deleteAttempt = None]]
        /\ DelGoto(d, s)
    BY <1>1, <1>3, <1>11, <2>1 DEF Finalize
  <2>3. row'[a].status # "deleting" /\ \A b \in Artifacts \ {a} : row'[b] = row[b]
    BY <1>1, <1>3, <2>2 DEF RowType
  <2>4. \A f \in Deletes \ {d} : del'[f] = del[f]
    BY <1>5, <2>2
  <2>5. \A b \in Artifacts \ {a} : row[b].status = "deleting" => row[b].deleteAttempt # d
    BY <1>3 DEF DeletingHeld
  <2> QED
    BY <2>3, <2>4, <2>5 DEF DeletingHeld
<1>12. CASE FinalizeSuccess(d)
  BY <1>11, <1>12 DEF FinalizeSuccess, Holding
<1>13. CASE FinalizeFailure(d)
  BY <1>11, <1>13 DEF FinalizeFailure, Holding
<1> QED
  BY <1>6, <1>7, <1>8, <1>9, <1>10, <1>12, <1>13 DEF DelStep

\* The uploads and the first SELECT leave every row under a claim alone.
LEMMA OthersKeepHolders ==
  ASSUME ClaimInv, DeletingHeld,
         \/ \E a \in Artifacts : PutPointer(a) \/ ClaimPending(a) \/ PutStep(a) \/ CrashPut(a)
         \/ \E d \in Deletes, a \in Artifacts, policy \in BOOLEAN : ReadInitial(d, a, policy)
  PROVE  DeletingHeld'
<1>1. TypeOK /\ row \in [Artifacts -> RowType] /\ del \in [Deletes -> DelType]
  BY DEF ClaimInv, TypeOK
<1>2. ASSUME NEW d \in Deletes, NEW a \in Artifacts, NEW policy \in BOOLEAN,
             ReadInitial(d, a, policy)
      PROVE  DeletingHeld'
  <2>1. UNCHANGED row /\ del[d].pc \notin AtWork /\ \A e \in Deletes \ {d} : del'[e] = del[e]
    BY <1>1, <1>2 DEF ReadInitial, AtWork
  <2> QED
    BY <1>1, <2>1, IdleMoves
<1>3. ASSUME NEW a \in Artifacts, NEW r, row' = [row EXCEPT ![a] = r], r.status # "deleting",
             UNCHANGED del
      PROVE  DeletingHeld'
  <2>1. row'[a].status # "deleting" /\ \A b \in Artifacts \ {a} : row'[b] = row[b]
    BY <1>1, <1>3
  <2> QED
    BY <1>3, <2>1 DEF DeletingHeld
<1>4. ASSUME UNCHANGED <<row, del>> PROVE DeletingHeld'
  BY <1>4 DEF DeletingHeld
<1>5. ASSUME NEW a \in Artifacts, PutPointer(a) \/ ClaimPending(a) \/ PutStep(a) \/ CrashPut(a)
      PROVE  DeletingHeld'
  <2>1. row[a] \in RowType
    BY <1>1
  <2>2. ASSUME NEW e, MarkFailed(a, e), UNCHANGED del PROVE DeletingHeld'
    <3>1. [row[a] EXCEPT !.status = "failed", !.lastError = e, !.putAttempt = FALSE].status
             # "deleting"
      BY <2>1 DEF RowType
    <3> QED
      BY <1>3, <2>2, <3>1 DEF MarkFailed
  <2>3. ASSUME StoreRow(a), UNCHANGED del PROVE DeletingHeld'
    <3>1. [row[a] EXCEPT !.status = "stored", !.uri = TRUE, !.putAttempt = FALSE].status
             # "deleting"
      BY <2>1 DEF RowType
    <3> QED
      BY <1>3, <2>3, <3>1 DEF StoreRow
  <2>4. CASE PutPointer(a)
    <3>1. PointerRow.status # "deleting"
      BY DEF PointerRow, NoRow
    <3> QED
      BY <1>3, <2>4, <3>1 DEF PutPointer
  <2>5. CASE ClaimPending(a)
    <3>1. [NoRow EXCEPT !.status = "pending", !.mode = "managed", !.putAttempt = TRUE].status
             # "deleting"
      BY DEF NoRow
    <3> QED
      BY <1>3, <2>5, <3>1 DEF ClaimPending
  <2>6. CASE BackendPut(a) \/ ReconcileAlreadyFinalized(a) \/ CleanupUpload(a) \/ CrashPut(a)
    BY <1>4, <2>6 DEF BackendPut, ReconcileAlreadyFinalized, CleanupUpload, CrashPut
  <2>7. CASE RecordBackendPutFailure(a)
    BY <1>4, <2>2, <2>7 DEF RecordBackendPutFailure
  <2>8. CASE MarkRecovered(a)
    BY <1>4, <2>2, <2>8 DEF MarkRecovered
  <2>9. CASE RecordUploaded(a)
    BY <1>4, <2>3, <2>9 DEF RecordUploaded
  <2> QED
    BY <1>5, <2>4, <2>5, <2>6, <2>7, <2>8, <2>9 DEF PutStep
<1> QED
  BY <1>2, <1>5

\* A request turned away because the row is deleting is turned away by a
\* handler that is still at work on it, whether uploads overlap the deletes or
\* not, as long as no handler dies, no statement throws and no document refers
\* to an artifact.
THEOREM RefusalsAreBacked ==
  ASSUME HoldersRun
  PROVE  Spec => RefusalMeansLiveHolder
<1>1. Init => DeletingHeld
  BY DEF Init, NoRow, DeletingHeld
<1>2. ClaimInv /\ DeletingHeld /\ [Next]_vars => DeletingHeld'
  <2> SUFFICES ASSUME ClaimInv, DeletingHeld, [Next]_vars PROVE DeletingHeld'
    OBVIOUS
  <2>1. CASE UNCHANGED vars
    BY <2>1 DEF vars, DeletingHeld
  <2>2. CASE \E d \in Deletes : DelStep(d) \/ CrashDelete(d)
    BY <2>2, DeleteKeepsHolders
  <2>3. ~\E x \in Documents : DeleteDocument(x) \/ \E a \in Artifacts : RegisterDocument(x, a)
    BY DEF HoldersRun
  <2> QED
    BY <2>1, <2>2, <2>3, OthersKeepHolders DEF Next
<1>3. ClaimInv /\ DeletingHeld /\ [Next]_vars =>
        [\A d \in Deletes :
           LET r == row[del[d].art] IN
           del[d].pc = "claim" /\ del'[d].pc = "reread" =>
              \/ r.status = "deleted"
              \/ \E e \in Deletes : r.deleteAttempt = e /\ del[e].pc \in Holding]_vars
  <2> SUFFICES ASSUME ClaimInv, DeletingHeld, Next, NEW d \in Deletes,
                      del[d].pc = "claim", del'[d].pc = "reread",
                      row[del[d].art].status # "deleted"
               PROVE  \E e \in Deletes : /\ row[del[d].art].deleteAttempt = e
                                         /\ del[e].pc \in Holding
    OBVIOUS
  <2>1. /\ del \in [Deletes -> DelType] /\ del[d].art \in Artifacts
        /\ row[del[d].art] \in RowType /\ row[del[d].art].status # "absent"
    BY DEF ClaimInv, TypeOK, HandlerClaims, DeleteSteps
  <2>2. del' # del
    OBVIOUS
  <2>3. ClaimDeleteAttempt(d)
    <3>1. ASSUME NEW e \in Deletes, DelStep(e) \/ CrashDelete(e)
                 \/ \E a \in Artifacts, policy \in BOOLEAN : ReadInitial(e, a, policy)
          PROVE  e = d
      <4>1. \A f \in Deletes \ {e} : del'[f] = del[f]
        BY <2>1, <3>1 DEF DelStep, CrashDelete, ReadInitial, DelGoto, ClaimDeleteAttempt,
             RereadRefused, CountReferences, CascadeDocument, CascadeDone, ReleaseDeleteClaim,
             BackendDelete, FinalizeSuccess, FinalizeFailure, Finalize
      <4> QED
        BY <4>1
    <3>2. DelStep(d) \/ CrashDelete(d)
          \/ \E a \in Artifacts, policy \in BOOLEAN : ReadInitial(d, a, policy)
      <4>1. \E e \in Deletes : DelStep(e) \/ CrashDelete(e)
                 \/ \E a \in Artifacts, policy \in BOOLEAN : ReadInitial(e, a, policy)
        BY <2>2 DEF Next, PutPointer, ClaimPending, PutStep, CrashPut, BackendPut,
             RecordBackendPutFailure, RecordUploaded, ReconcileAlreadyFinalized,
             CleanupUpload, MarkRecovered, DeleteDocument, RegisterDocument
      <4> QED
        BY <3>1, <4>1
    <3>3. del[d].pc = "claim" => ~CrashDelete(d)
      BY DEF HoldersRun, CrashDelete, Fault
    <3> QED
      BY <3>2, <3>3 DEF DelStep, ReadInitial, RereadRefused, CountReferences, CascadeDocument,
           CascadeDone, ReleaseDeleteClaim, BackendDelete, FinalizeSuccess, FinalizeFailure
  <2>4. row[del[d].art].status \notin CLAIMABLE_FROM_STATUSES
    BY <2>1, <2>3 DEF ClaimDeleteAttempt, DelGoto, DelType
  <2>5. row[del[d].art].status = "deleting"
    BY <2>1, <2>4 DEF CLAIMABLE_FROM_STATUSES, RowType, Statuses
  <2> QED
    BY <2>1, <2>5 DEF DeletingHeld, AtWork, Holding
<1> QED
  BY <1>1, <1>2, <1>3, ClaimInvariant, PTL DEF Spec, RefusalMeansLiveHolder
=============================================================================
