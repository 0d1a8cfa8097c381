----------------------- MODULE StorageArtifactsProofs -----------------------
(***************************************************************************)
(* Theorems about StorageArtifacts for every value of its constants: any   *)
(* number of artifacts, documents and DELETE requests.                     *)
(***************************************************************************)
EXTENDS StorageArtifacts, TLAPS

\* Moving a handler changes nothing but its program counter.
LEMMA DelGotoType ==
  ASSUME TypeOK, NEW d \in Deletes, NEW pc \in DeleteSteps \cup DeleteEnds,
         DelGoto(d, pc)
  PROVE  del' \in [Deletes -> DelType]
<1>1. ASSUME NEW r \in DelType PROVE [r EXCEPT !.pc = pc] \in DelType
  BY DEF DelType
<1> QED
  BY <1>1 DEF DelGoto, TypeOK

\* A step that replaces at most one row, by a row, keeps the table well typed.
LEMMA RowPutType ==
  ASSUME TypeOK, NEW a, NEW n, a \in Artifacts => n \in RowType,
         row' = row \/ row' = [row EXCEPT ![a] = n]
  PROVE  row' \in [Artifacts -> RowType]
BY DEF TypeOK

\* Creating a row and the upload's steps keep every variable in its domain.
LEMMA PutKeepsTypes ==
  ASSUME TypeOK, NEW a \in Artifacts,
         PutPointer(a) \/ ClaimPending(a) \/ PutStep(a) \/ CrashPut(a)
  PROVE  TypeOK'
<1>1. row[a] \in RowType
  BY DEF TypeOK
<1>2. PutGoto(a, "upload") \/ put' = put \/ (\E pc \in PutSteps \cup PutEnds : PutGoto(a, pc))
      => put' \in [Artifacts -> PutSteps \cup PutEnds]
  BY DEF PutGoto, TypeOK, PutSteps
<1>3. CASE PutPointer(a)
  <2>1. PointerRow \in RowType
    BY ConstantsAssumption DEF PointerRow, NoRow, RowType, Statuses, Errors
  <2> QED
    BY <1>3, <2>1 DEF PutPointer, TypeOK
<1>4. CASE ClaimPending(a)
  <2>1. [NoRow EXCEPT !.status = "pending", !.mode = "managed", !.putAttempt = TRUE] \in RowType
    BY DEF NoRow, RowType, Statuses, Errors
  <2> QED
    BY <1>4, <2>1 DEF ClaimPending, TypeOK, PutSteps
<1>5. CASE CrashPut(a)
  BY <1>5 DEF CrashPut, PutGoto, TypeOK, PutEnds
<1>6. CASE BackendPut(a)
  BY <1>6 DEF BackendPut, PutGoto, TypeOK, PutSteps
<1>7. ASSUME NEW err \in Errors, MarkFailed(a, err) PROVE row' \in [Artifacts -> RowType]
  <2>1. [row[a] EXCEPT !.status = "failed", !.lastError = err, !.putAttempt = FALSE] \in RowType
    BY <1>1 DEF RowType, Statuses
  <2> QED
    BY <1>7, <2>1 DEF MarkFailed, TypeOK
<1>8. CASE RecordBackendPutFailure(a)
  <2>1. "put_failed" \in Errors
    BY DEF Errors
  <2>2. row' \in [Artifacts -> RowType]
    BY <1>7, <1>8, <2>1 DEF RecordBackendPutFailure, TypeOK
  <2>3. put' \in [Artifacts -> PutSteps \cup PutEnds]
    BY <1>8 DEF RecordBackendPutFailure, PutGoto, TypeOK, PutEnds
  <2> QED
    BY <1>8, <2>2, <2>3 DEF RecordBackendPutFailure, TypeOK
<1>9. CASE RecordUploaded(a)
  <2>1. [row[a] EXCEPT !.status = "stored", !.uri = TRUE, !.putAttempt = FALSE] \in RowType
    BY <1>1 DEF RowType, Statuses
  <2>2. row' \in [Artifacts -> RowType]
    BY <1>9, <2>1 DEF RecordUploaded, StoreRow, TypeOK
  <2>3. put' \in [Artifacts -> PutSteps \cup PutEnds]
    BY <1>9 DEF RecordUploaded, PutGoto, TypeOK, PutSteps, PutEnds
  <2> QED
    BY <1>9, <2>2, <2>3 DEF RecordUploaded, TypeOK
<1>10. CASE ReconcileAlreadyFinalized(a)
  BY <1>10 DEF ReconcileAlreadyFinalized, PutGoto, TypeOK, PutSteps, PutEnds
<1>11. CASE CleanupUpload(a)
  BY <1>11 DEF CleanupUpload, PutGoto, TypeOK, PutSteps
<1>12. CASE MarkRecovered(a)
  <2>1. {"cleaned_up", "orphan"} \subseteq Errors
    BY DEF Errors
  <2>2. row' \in [Artifacts -> RowType]
    BY <1>7, <1>12, <2>1 DEF MarkRecovered, TypeOK
  <2>3. put' \in [Artifacts -> PutSteps \cup PutEnds]
    BY <1>12 DEF MarkRecovered, PutGoto, TypeOK, PutEnds
  <2> QED
    BY <1>12, <2>2, <2>3 DEF MarkRecovered, TypeOK
<1> QED
  BY <1>3, <1>4, <1>5, <1>6, <1>8, <1>9, <1>10, <1>11, <1>12 DEF PutStep

\* So do the steps of a delete handler.
LEMMA DeleteKeepsTypes ==
  ASSUME TypeOK, NEW d \in Deletes, DelStep(d) \/ CrashDelete(d)
  PROVE  TypeOK'
<1> USE DEF DeleteSteps, DeleteEnds
<1>1. del[d] \in DelType
  BY DEF TypeOK
<1>2. ASSUME NEW pc \in DeleteSteps \cup DeleteEnds, DelGoto(d, pc)
      PROVE  del' \in [Deletes -> DelType]
  BY <1>2, DelGotoType
<1>a. PICK a : a = del[d].art
  OBVIOUS
<1>3. CASE ClaimDeleteAttempt(d)
  <2>2. row' \in [Artifacts -> RowType]
    <3> DEFINE n == [row[a] EXCEPT !.status = "deleting", !.deleteAttempt = d, !.lastError = "none"]
    <3>1. a \in Artifacts => n \in RowType
      BY DEF TypeOK, RowType, Statuses, Errors
    <3>2. row' = row \/ row' = [row EXCEPT ![a] = n]
      BY <1>3, <1>a DEF ClaimDeleteAttempt
    <3> HIDE DEF n
    <3> QED
      BY <3>1, <3>2, RowPutType
  <2>3. del' \in [Deletes -> DelType]
    BY <1>2, <1>3 DEF ClaimDeleteAttempt
  <2> QED
    BY <1>3, <2>2, <2>3 DEF ClaimDeleteAttempt, TypeOK
<1>4. CASE RereadRefused(d)
  <2>1. del' \in [Deletes -> DelType]
    BY <1>2, <1>4 DEF RereadRefused
  <2> QED
    BY <1>4, <2>1 DEF RereadRefused, TypeOK
<1>5. CASE CountReferences(d)
  <2>1. References(del[d].art) \subseteq Documents
    BY DEF References
  <2>2. ASSUME NEW r \in DelType
        PROVE [r EXCEPT !.pc = "cascade", !.todo = References(del[d].art)] \in DelType
    BY <2>1 DEF DelType
  <2>3. del' \in [Deletes -> DelType]
    BY <1>2, <1>5, <2>2 DEF CountReferences, TypeOK
  <2> QED
    BY <1>5, <2>3 DEF CountReferences, TypeOK
<1>6. CASE \E x \in Documents : CascadeDocument(d, x)
  <2>1. PICK x \in Documents : CascadeDocument(d, x)
    BY <1>6
  <2>2. ASSUME NEW r \in DocType PROVE [r EXCEPT !.state = "deleted"] \in DocType
    BY DEF DocType
  <2>3. doc' \in [Documents -> DocType]
    BY <2>1, <2>2 DEF CascadeDocument, TypeOK
  <2>5. del' \in [Deletes -> DelType]
    <3> DEFINE removed == {x} \cap References(del[d].art)
    <3>1. CASE \E pc \in DeleteSteps : DelGoto(d, pc)
      BY <1>2, <3>1
    <3>2. CASE del' = [del EXCEPT ![d] =
                         [@ EXCEPT !.todo = del[d].todo \ {x},
                                   !.cascaded = del[d].cascaded \cup removed]]
      <4> DEFINE m == [del[d] EXCEPT !.todo = del[d].todo \ {x},
                                   !.cascaded = del[d].cascaded \cup removed]
      <4>1. m \in DelType
        BY <1>1 DEF DelType, References
      <4>2. del' = [del EXCEPT ![d] = m]
        BY <3>2
      <4> HIDE DEF m
      <4> QED
        BY <4>1, <4>2 DEF TypeOK
    <3> QED
      BY <2>1, <3>1, <3>2 DEF CascadeDocument
  <2> QED
    BY <2>1, <2>3, <2>5 DEF CascadeDocument, TypeOK
<1>7. CASE CascadeDone(d)
  <2>1. del' \in [Deletes -> DelType]
    BY <1>2, <1>7 DEF CascadeDone
  <2> QED
    BY <1>7, <2>1 DEF CascadeDone, TypeOK
<1>8. CASE ReleaseDeleteClaim(d)
  <2>1. del[d].initial \in SnapshotType
    BY <1>1 DEF DelType
  <2>3. row' \in [Artifacts -> RowType]
    <3> DEFINE n == [row[a] EXCEPT !.status = del[d].initial.status,
                                     !.lastError = del[d].initial.lastError, !.deleteAttempt = None]
    <3>1. a \in Artifacts => n \in RowType
      BY <2>1 DEF TypeOK, RowType, SnapshotType
    <3>2. row' = row \/ row' = [row EXCEPT ![a] = n]
      BY <1>8, <1>a DEF ReleaseDeleteClaim
    <3> HIDE DEF n
    <3> QED
      BY <3>1, <3>2, RowPutType
  <2>4. del' \in [Deletes -> DelType]
    BY <1>2, <1>8 DEF ReleaseDeleteClaim
  <2> QED
    BY <1>8, <2>3, <2>4 DEF ReleaseDeleteClaim, TypeOK
<1>9. CASE BackendDelete(d)
  <2>1. del' \in [Deletes -> DelType]
    BY <1>2, <1>9 DEF BackendDelete
  <2> QED
    BY <1>9, <2>1 DEF BackendDelete, TypeOK
<1>10. ASSUME NEW s \in {"deleted", "delete_failed"}, NEW e \in Errors,
              NEW w \in {"blob_deleted", "raw_storage_failed"}, Finalize(d, s, e, w)
       PROVE  /\ row' \in [Artifacts -> RowType]
              /\ doc' \in [Documents -> DocType]
              /\ del' \in [Deletes -> DelType]
  <2>2. ASSUME NEW r \in DocType PROVE [r EXCEPT !.raw = w] \in DocType
    BY DEF DocType
  <2>3. row' \in [Artifacts -> RowType]
    <3> DEFINE n == [row[a] EXCEPT !.status = s, !.lastError = e, !.deleteAttempt = None]
    <3>1. a \in Artifacts => n \in RowType
      BY DEF TypeOK, RowType, Statuses
    <3>2. row' = row \/ row' = [row EXCEPT ![a] = n]
      BY <1>10, <1>a DEF Finalize
    <3> HIDE DEF n
    <3> QED
      BY <3>1, <3>2, RowPutType
  <2>4. doc' \in [Documents -> DocType]
    BY <1>10, <2>2 DEF Finalize, TypeOK
  <2>5. del' \in [Deletes -> DelType]
    BY <1>2, <1>10 DEF Finalize
  <2> QED
    BY <2>3, <2>4, <2>5
<1>11. CASE FinalizeSuccess(d)
  <2>1. "none" \in Errors
    BY DEF Errors
  <2> QED
    BY <1>10, <1>11, <2>1 DEF FinalizeSuccess, TypeOK
<1>12. CASE FinalizeFailure(d)
  <2>1. "delete_failed" \in Errors
    BY DEF Errors
  <2> QED
    BY <1>10, <1>12, <2>1 DEF FinalizeFailure, TypeOK
<1>13. CASE CrashDelete(d)
  <2>1. del' \in [Deletes -> DelType]
    BY <1>2, <1>13 DEF CrashDelete
  <2> QED
    BY <1>13, <2>1 DEF CrashDelete, TypeOK
<1> QED
  BY <1>3, <1>4, <1>5, <1>6, <1>7, <1>8, <1>9, <1>11, <1>12, <1>13 DEF DelStep

\* And so do the first SELECT of a delete and the document operations.
LEMMA OthersKeepTypes ==
  ASSUME TypeOK,
         \/ \E d \in Deletes, a \in Artifacts, policy \in BOOLEAN : ReadInitial(d, a, policy)
         \/ \E x \in Documents : DeleteDocument(x) \/ \E a \in Artifacts : RegisterDocument(x, a)
  PROVE  TypeOK'
<1>1. ASSUME NEW d \in Deletes, NEW a \in Artifacts, NEW policy \in BOOLEAN,
             ReadInitial(d, a, policy) PROVE TypeOK'
  <2>1. Snapshot(a) \in SnapshotType
    BY DEF Snapshot, SnapshotType, TypeOK, RowType
  <2>2. ASSUME NEW r \in DelType, NEW pc \in {"deleted", "claim"}
        PROVE [r EXCEPT !.pc = pc, !.art = a, !.withDocuments = policy,
                        !.initial = Snapshot(a)] \in DelType
    BY <2>1 DEF DelType, DeleteSteps, DeleteEnds
  <2>3. del' \in [Deletes -> DelType]
    BY <1>1, <2>2 DEF ReadInitial, TypeOK
  <2> QED
    BY <1>1, <2>3 DEF ReadInitial, TypeOK
<1>2. ASSUME NEW x \in Documents, DeleteDocument(x) PROVE TypeOK'
  <2>1. ASSUME NEW r \in RowType
        PROVE [r EXCEPT !.status = "deleted", !.deleteAttempt = None] \in RowType
    BY DEF RowType, Statuses
  <2>2. row' \in [Artifacts -> RowType]
    BY <1>2, <2>1 DEF DeleteDocument, TypeOK
  <2>3. doc' \in [Documents -> DocType]
    BY <1>2 DEF DeleteDocument, DocType, TypeOK
  <2> QED
    BY <1>2, <2>2, <2>3 DEF DeleteDocument, TypeOK
<1>3. ASSUME NEW x \in Documents, NEW a \in Artifacts, RegisterDocument(x, a) PROVE TypeOK'
  <2>1. PointerRow \in RowType
    BY DEF PointerRow, NoRow, RowType, Statuses, Errors
  <2>2. doc' \in [Documents -> DocType]
    <3>1. [doc[x] EXCEPT !.art = a, !.state = "active"] \in DocType
      BY DEF DocType, TypeOK
    <3> QED
      BY <1>3, <3>1 DEF RegisterDocument, TypeOK
  <2> QED
    BY <1>3, <2>1, <2>2 DEF RegisterDocument, TypeOK
<1> QED
  BY <1>1, <1>2, <1>3

\* Type correctness: no handler step takes a column, an object or a local
\* variable out of its domain.
THEOREM TypeCorrect == Spec => []TypeOK
<1>1. Init => TypeOK
  BY DEF Init, TypeOK, RowType, NoRow, Statuses, Errors, PutEnds, DelType, NoDelete,
         DeleteEnds, SnapshotType, DocType, NoDoc
<1>2. TypeOK /\ [Next]_vars => TypeOK'
  <2>1. TypeOK /\ UNCHANGED vars => TypeOK'
    BY DEF vars, TypeOK
  <2> SUFFICES ASSUME TypeOK, Next PROVE TypeOK'
    BY <2>1
  <2>2. CASE \E a \in Artifacts : PutPointer(a) \/ ClaimPending(a) \/ PutStep(a) \/ CrashPut(a)
    BY <2>2, PutKeepsTypes
  <2>3. CASE \E x \in Documents : DeleteDocument(x) \/ \E a \in Artifacts : RegisterDocument(x, a)
    BY <2>3, OthersKeepTypes
  <2>4. CASE \E d \in Deletes, a \in Artifacts, policy \in BOOLEAN : ReadInitial(d, a, policy)
    BY <2>4, OthersKeepTypes
  <2>5. CASE \E d \in Deletes : DelStep(d) \/ CrashDelete(d)
    BY <2>5, DeleteKeepsTypes
  <2> QED
    BY <2>2, <2>3, <2>4, <2>5 DEF Next
<1> QED
  BY <1>1, <1>2, PTL DEF Spec

-----------------------------------------------------------------------------
(***************************************************************************)
(* Claims. DeleteClaimExclusive is not inductive alone: the steps that     *)
(* disturb a claim are guarded by the row's status, so what the status     *)
(* says of the claim, and what a handler's snapshot may hold, come with it.*)
(***************************************************************************)

RowClaims ==
    \A a \in Artifacts :
       /\ row[a].deleteAttempt # None => row[a].status = "deleting"
       /\ row[a].status = "absent" => ~row[a].putAttempt /\ ~row[a].uri

HandlerClaims ==
    \A d \in Deletes :
       /\ del[d].pc # "none" => del[d].art \in Artifacts
       /\ del[d].pc \in DeleteSteps =>
             /\ del[d].initial.status \notin {"absent", "deleted"}
             /\ row[del[d].art].status # "absent"

DocumentLinks ==
    \A x \in Documents :
       doc[x].state = "active" => doc[x].art \in Artifacts /\ row[doc[x].art].status # "absent"

ClaimInv == TypeOK /\ RowClaims /\ HandlerClaims /\ DocumentLinks /\ DeleteClaimExclusive

\* What a step does to the rows, seen from the claims: rows stay, claims are
\* kept as RowClaims says, and a row under a claim is touched by its holder
\* only. Every step but the first SELECT and the handler's own moves has this
\* shape.
RowStep(d) ==
    \A a \in Artifacts :
       /\ row[a].status # "absent" => row'[a].status # "absent"
       /\ row'[a].deleteAttempt # None => row'[a].status = "deleting"
       /\ row'[a].status = "absent" => ~row'[a].putAttempt /\ ~row'[a].uri
       /\ row[a].status = "deleting" /\ row[a].deleteAttempt # d =>
             row'[a].status = "deleting" /\ row'[a].deleteAttempt = row[a].deleteAttempt

\* With no handler moving, such a step keeps the claim invariant.
LEMMA RowStepKeepsClaims ==
  ASSUME ClaimInv, TypeOK', RowStep(None), UNCHANGED del, DocumentLinks'
  PROVE  ClaimInv'
<1>1. RowClaims'
  BY DEF RowStep, RowClaims
<1>2. HandlerClaims'
  BY DEF ClaimInv, HandlerClaims, RowStep, DeleteSteps
<1>3. DeleteClaimExclusive'
  <2> SUFFICES ASSUME NEW d \in Deletes, del[d].pc \in Holding PROVE DeleteCas(d)'
    BY DEF DeleteClaimExclusive
  <2>1. DeleteCas(d) /\ del[d].art \in Artifacts /\ d # None
    BY ConstantsAssumption DEF ClaimInv, DeleteClaimExclusive, HandlerClaims, Holding
  <2> QED
    BY <2>1 DEF RowStep, DeleteCas
<1> QED
  BY <1>1, <1>2, <1>3 DEF ClaimInv

\* With one handler moving, what is left to show is what holds of that handler.
LEMMA HandlerStepKeepsClaims ==
  ASSUME ClaimInv, TypeOK', NEW d \in Deletes, RowStep(d), DocumentLinks',
         \A e \in Deletes \ {d} : del'[e] = del[e],
         del'[d].art \in Artifacts,
         del'[d].pc \in DeleteSteps =>
            /\ del'[d].initial.status \notin {"absent", "deleted"}
            /\ row'[del'[d].art].status # "absent",
         del'[d].pc \in Holding => DeleteCas(d)',
         \A e \in Deletes \ {d} :
            del[e].pc \in Holding => row[del[e].art].deleteAttempt # d
  PROVE  ClaimInv'
<1>1. RowClaims'
  BY DEF RowStep, RowClaims
<1>2. HandlerClaims'
  BY DEF ClaimInv, HandlerClaims, RowStep, DeleteSteps
<1>3. DeleteClaimExclusive'
  <2> SUFFICES ASSUME NEW e \in Deletes \ {d}, del[e].pc \in Holding PROVE DeleteCas(e)'
    BY DEF DeleteClaimExclusive
  <2>1. DeleteCas(e) /\ del[e].art \in Artifacts
    BY DEF ClaimInv, DeleteClaimExclusive, HandlerClaims, Holding
  <2> QED
    BY <2>1 DEF RowStep, DeleteCas
<1> QED
  BY <1>1, <1>2, <1>3 DEF ClaimInv

\* Creating a row and the upload's steps respect every delete claim: they move
\* only rows that are absent or pending.
LEMMA PutKeepsClaims ==
  ASSUME ClaimInv, NEW a \in Artifacts,
         PutPointer(a) \/ ClaimPending(a) \/ PutStep(a) \/ CrashPut(a)
  PROVE  ClaimInv'
<1>1. TypeOK'
  BY PutKeepsTypes DEF ClaimInv
<1>2. UNCHANGED del /\ UNCHANGED doc
  BY DEF PutPointer, ClaimPending, PutStep, CrashPut, BackendPut, RecordBackendPutFailure,
         RecordUploaded, ReconcileAlreadyFinalized, CleanupUpload, MarkRecovered
<1>3. RowStep(None)
  <2>1. row[a] \in RowType /\ row \in [Artifacts -> RowType] /\ RowClaims
    BY DEF ClaimInv, TypeOK
  <2>2. CASE UNCHANGED row
    BY <2>1, <2>2 DEF RowStep, RowClaims
  <2>3. CASE PutPointer(a)
    BY <2>1, <2>3 DEF PutPointer, PointerRow, NoRow, RowStep, RowClaims
  <2>4. CASE ClaimPending(a)
    BY <2>1, <2>4 DEF ClaimPending, NoRow, RowStep, RowClaims
  <2>5. CASE StoreRow(a) /\ PutCas(a)
    BY <2>1, <2>5 DEF StoreRow, PutCas, RowStep, RowClaims, RowType
  <2>6. ASSUME NEW err, MarkFailed(a, err), PutCas(a) PROVE RowStep(None)
    BY <2>1, <2>6 DEF MarkFailed, PutCas, RowStep, RowClaims, RowType
  <2> QED
    BY <2>2, <2>3, <2>4, <2>5, <2>6
       DEF PutStep, CrashPut, BackendPut, RecordBackendPutFailure, RecordUploaded,
           ReconcileAlreadyFinalized, CleanupUpload, MarkRecovered
<1>4. DocumentLinks'
  BY <1>2, <1>3 DEF ClaimInv, DocumentLinks, RowStep
<1> QED
  BY <1>1, <1>2, <1>3, <1>4, RowStepKeepsClaims

\* The document operations respect them as well: a document delete skips a row
\* whose delete has started.
LEMMA DocumentsKeepClaims ==
  ASSUME ClaimInv, NEW x \in Documents,
         DeleteDocument(x) \/ \E a \in Artifacts : RegisterDocument(x, a)
  PROVE  ClaimInv'
<1>1. TypeOK'
  BY OthersKeepTypes DEF ClaimInv
<1>2. row \in [Artifacts -> RowType] /\ doc \in [Documents -> DocType] /\ RowClaims /\ DocumentLinks
  BY DEF ClaimInv, TypeOK
<1>3. CASE DeleteDocument(x)
  <2>1. PICK a \in Artifacts : a = doc[x].art /\ row[a].status # "absent" /\ row[a] \in RowType
    BY <1>2, <1>3 DEF DeleteDocument, DocumentLinks
  <2>2. \/ UNCHANGED row
        \/ /\ row' = [row EXCEPT ![a] = [row[a] EXCEPT !.status = "deleted", !.deleteAttempt = None]]
           /\ row[a].status \notin {"deleting", "deleted", "delete_failed"}
    BY <1>3, <2>1 DEF DeleteDocument, DeleteStarted
  <2>3. RowStep(None)
    <3>1. CASE UNCHANGED row
      BY <1>2, <3>1 DEF RowStep, RowClaims
    <3>2. ASSUME row' = [row EXCEPT ![a] = [row[a] EXCEPT !.status = "deleted",
                                                          !.deleteAttempt = None]],
                 row[a].status \notin {"deleting", "deleted", "delete_failed"}
          PROVE  RowStep(None)
      <4>1. row'[a].status = "deleted" /\ row'[a].deleteAttempt = None
        BY <1>2, <2>1, <3>2 DEF RowType
      <4>2. \A b \in Artifacts \ {a} : row'[b] = row[b]
        BY <1>2, <3>2
      <4> QED
        BY <1>2, <2>1, <3>2, <4>1, <4>2 DEF RowStep, RowClaims
    <3> QED
      BY <2>2, <3>1, <3>2
  <2>4. DocumentLinks'
    BY <1>2, <1>3, <2>3 DEF DeleteDocument, DocumentLinks, RowStep, DocType
  <2> QED
    BY <1>1, <1>3, <2>3, <2>4, RowStepKeepsClaims DEF DeleteDocument
<1>4. ASSUME NEW a \in Artifacts, RegisterDocument(x, a) PROVE ClaimInv'
  <2>1. RowStep(None)
    BY <1>2, <1>4 DEF RegisterDocument, PointerRow, NoRow, RowStep, RowClaims
  <2>2. row'[a].status # "absent"
    BY <1>2, <1>4 DEF RegisterDocument, PointerRow, NoRow
  <2>3. DocumentLinks'
    <3>1. doc'[x].art = a /\ \A y \in Documents \ {x} : doc'[y] = doc[y]
      BY <1>2, <1>4 DEF RegisterDocument, DocType
    <3> QED
      BY <1>2, <2>1, <2>2, <3>1 DEF DocumentLinks, RowStep
  <2> QED
    BY <1>1, <1>4, <2>1, <2>3, RowStepKeepsClaims DEF RegisterDocument
<1> QED
  BY <1>3, <1>4

\* The first SELECT of a delete: nothing shared moves.
LEMMA ReadKeepsClaims ==
  ASSUME ClaimInv, NEW d \in Deletes, NEW a \in Artifacts, NEW policy \in BOOLEAN,
         ReadInitial(d, a, policy)
  PROVE  ClaimInv'
<1>1. TypeOK'
  BY OthersKeepTypes DEF ClaimInv
<1>2. del \in [Deletes -> DelType] /\ row \in [Artifacts -> RowType]
  BY DEF ClaimInv, TypeOK
<1>3. /\ del'[d].art = a
      /\ del'[d].pc = IF row[a].status = "deleted" THEN "deleted" ELSE "claim"
      /\ del'[d].initial = Snapshot(a)
      /\ \A e \in Deletes \ {d} : del'[e] = del[e]
  BY <1>2 DEF ReadInitial, DelType
<1>4. row[a].status # "absent" /\ UNCHANGED <<row, doc>>
  BY DEF ReadInitial
<1>5. RowClaims' /\ DocumentLinks'
  BY <1>4 DEF ClaimInv, RowClaims, DocumentLinks
<1>6. HandlerClaims'
  BY <1>3, <1>4 DEF ClaimInv, HandlerClaims, Snapshot, DeleteSteps
<1>7. DeleteClaimExclusive'
  BY <1>3, <1>4 DEF ClaimInv, DeleteClaimExclusive, DeleteCas, Holding
<1> QED
  BY <1>1, <1>5, <1>6, <1>7 DEF ClaimInv

\* A handler that holds a claim shares it with no other handler.
LEMMA HolderIsAlone ==
  ASSUME ClaimInv, NEW d \in Deletes, NEW e \in Deletes \ {d},
         del[d].pc \in Holding, del[e].pc \in Holding
  PROVE  del[d].art # del[e].art /\ row[del[e].art].deleteAttempt # d
BY DEF ClaimInv, DeleteClaimExclusive, DeleteCas

\* The handler's own steps: the claim itself, and what it does while it holds.
LEMMA DeleteKeepsClaims ==
  ASSUME ClaimInv, NEW d \in Deletes, DelStep(d) \/ CrashDelete(d)
  PROVE  ClaimInv'
<1>1. TypeOK'
  BY DeleteKeepsTypes DEF ClaimInv
<1>2. /\ row \in [Artifacts -> RowType] /\ doc \in [Documents -> DocType]
      /\ del \in [Deletes -> DelType] /\ del[d] \in DelType
      /\ RowClaims /\ HandlerClaims /\ DocumentLinks /\ DeleteClaimExclusive
      /\ d # None
  BY ConstantsAssumption DEF ClaimInv, TypeOK
<1>3. del[d].pc \in DeleteSteps
  BY DEF DelStep, CrashDelete, ClaimDeleteAttempt, RereadRefused, CountReferences,
         CascadeDocument, CascadeDone, ReleaseDeleteClaim, BackendDelete, FinalizeSuccess,
         FinalizeFailure, DeleteSteps
<1>4. PICK a \in Artifacts :
         /\ a = del[d].art /\ row[a] \in RowType /\ row[a].status # "absent"
         /\ del[d].initial \in SnapshotType
         /\ del[d].initial.status \notin {"absent", "deleted"}
  BY <1>2, <1>3 DEF HandlerClaims, DeleteSteps, DelType
\* Steps that move neither a row nor a document.
<1>5. ASSUME UNCHANGED <<row, doc>>, NEW pc,
             del' = [del EXCEPT ![d] = [@ EXCEPT !.pc = pc]]
                \/ \E t : del' = [del EXCEPT ![d] = [@ EXCEPT !.pc = pc, !.todo = t]],
             pc \in Holding => del[d].pc \in Holding
      PROVE  ClaimInv'
  <2>1. /\ del'[d].art = a /\ del'[d].pc = pc /\ del'[d].initial = del[d].initial
        /\ \A e \in Deletes \ {d} : del'[e] = del[e]
    BY <1>2, <1>4, <1>5 DEF DelType
  <2>2. RowClaims' /\ DocumentLinks'
    BY <1>2, <1>5 DEF RowClaims, DocumentLinks
  <2>3. HandlerClaims'
    BY <1>2, <1>4, <1>5, <2>1 DEF HandlerClaims
  <2>4. DeleteClaimExclusive'
    <3> SUFFICES ASSUME NEW e \in Deletes, del'[e].pc \in Holding PROVE DeleteCas(e)'
      BY DEF DeleteClaimExclusive
    <3>1. DeleteCas(e) /\ del'[e].art = del[e].art
      BY <1>2, <1>4, <1>5, <2>1 DEF DeleteClaimExclusive
    <3> QED
      BY <1>5, <3>1 DEF DeleteCas
  <2> QED
    BY <1>1, <2>2, <2>3, <2>4 DEF ClaimInv
\* Steps by which a holder gives up its claim and leaves the row at status s.
<1>6. ASSUME del[d].pc \in Holding, NEW s \in Statuses \ {"absent"}, NEW e,
             row' = [row EXCEPT ![a] = [@ EXCEPT !.status = s, !.lastError = e,
                                                 !.deleteAttempt = None]],
             NEW pc \in DeleteEnds, DelGoto(d, pc),
             \A x \in Documents : doc'[x].state = doc[x].state /\ doc'[x].art = doc[x].art
      PROVE  ClaimInv'
  <2>1. /\ del'[d].art = a /\ del'[d].pc = pc
        /\ \A f \in Deletes \ {d} : del'[f] = del[f]
    BY <1>2, <1>4, <1>6 DEF DelGoto, DelType
  <2>2. /\ row'[a].status = s /\ row'[a].deleteAttempt = None
        /\ row'[a].putAttempt = row[a].putAttempt /\ row'[a].uri = row[a].uri
        /\ \A b \in Artifacts \ {a} : row'[b] = row[b]
    BY <1>2, <1>4, <1>6 DEF RowType
  <2>3. row[a].status = "deleting" /\ row[a].deleteAttempt = d
    BY <1>2, <1>4, <1>6 DEF DeleteClaimExclusive, DeleteCas
  <2>4. RowStep(d)
    BY <1>2, <1>4, <2>2, <2>3 DEF RowStep, RowClaims
  <2>5. DocumentLinks'
    BY <1>2, <1>6, <2>4 DEF DocumentLinks, RowStep
  <2>6. \A f \in Deletes \ {d} : del[f].pc \in Holding => row[del[f].art].deleteAttempt # d
    BY <1>6, HolderIsAlone
  <2>7. pc \notin DeleteSteps /\ pc \notin Holding
    BY DEF DeleteEnds, DeleteSteps, Holding
  <2> QED
    BY <1>1, <2>1, <2>4, <2>5, <2>6, <2>7, HandlerStepKeepsClaims
<1>7. CASE ClaimDeleteAttempt(d)
  <2>1. ASSUME UNCHANGED <<row, doc>>, NEW pc \in {"reread", "error"}, DelGoto(d, pc)
        PROVE  ClaimInv'
    BY <1>5, <2>1 DEF DelGoto, Holding
  <2>2. ASSUME row[a].status \in CLAIMABLE_FROM_STATUSES, UNCHANGED doc, DelGoto(d, "count"),
               row' = [row EXCEPT ![a] = [row[a] EXCEPT !.status = "deleting",
                                           !.deleteAttempt = d, !.lastError = "none"]]
        PROVE  ClaimInv'
    <3>2. /\ row'[a].status = "deleting" /\ row'[a].deleteAttempt = d
          /\ row'[a].putAttempt = row[a].putAttempt /\ row'[a].uri = row[a].uri
          /\ \A b \in Artifacts \ {a} : row'[b] = row[b]
      BY <1>2, <1>4, <2>2 DEF RowType
    <3>3. /\ del'[d].art = a /\ del'[d].pc = "count" /\ del'[d].initial = del[d].initial
          /\ \A f \in Deletes \ {d} : del'[f] = del[f]
      BY <1>2, <1>4, <2>2 DEF DelGoto, DelType
    <3>4. RowStep(d)
      BY <1>2, <1>4, <2>2, <3>2 DEF RowStep, RowClaims, CLAIMABLE_FROM_STATUSES
    <3>5. DocumentLinks'
      BY <1>2, <2>2, <3>4 DEF DocumentLinks, RowStep
    <3>6. \A f \in Deletes \ {d} : del[f].pc \in Holding => row[del[f].art].deleteAttempt # d
      BY <1>2 DEF DeleteClaimExclusive, DeleteCas
    <3> QED
      BY <1>1, <1>4, <3>2, <3>3, <3>4, <3>5, <3>6, HandlerStepKeepsClaims DEF DeleteCas
  <2> QED
    BY <1>4, <1>7, <2>1, <2>2 DEF ClaimDeleteAttempt
<1>8. CASE CrashDelete(d)
  BY <1>5, <1>8 DEF CrashDelete, DelGoto, Holding
<1>9. CASE RereadRefused(d)
  BY <1>5, <1>9 DEF RereadRefused, DelGoto, Holding
<1>10. CASE CountReferences(d)
  BY <1>5, <1>10 DEF CountReferences, DelGoto, Holding
<1>11. CASE CascadeDone(d)
  BY <1>5, <1>11 DEF CascadeDone, DelGoto, Holding
<1>12. CASE BackendDelete(d)
  BY <1>5, <1>12 DEF BackendDelete, DelGoto, Holding
<1>13. CASE ReleaseDeleteClaim(d)
  <2>1. CASE DelGoto(d, "refused") /\ UNCHANGED <<row, doc>>
    BY <1>5, <2>1 DEF DelGoto, Holding
  <2>2. CASE ~UNCHANGED row
    <3>1. del[d].initial.status \in Statuses \ {"absent"} /\ "refused" \in DeleteEnds
      BY <1>4 DEF SnapshotType, DeleteEnds
    <3>2. /\ del[d].pc \in Holding /\ DelGoto(d, "refused") /\ UNCHANGED doc
          /\ row' = [row EXCEPT ![a] = [@ EXCEPT !.status = del[d].initial.status,
                                                 !.lastError = del[d].initial.lastError,
                                                 !.deleteAttempt = None]]
      BY <1>4, <1>13, <2>2 DEF ReleaseDeleteClaim, Holding
    <3> QED
      BY <1>6, <3>1, <3>2
  <2> QED
    BY <1>13, <2>1, <2>2 DEF ReleaseDeleteClaim
<1>14. ASSUME NEW s \in {"deleted", "delete_failed"}, NEW e, NEW w, Finalize(d, s, e, w),
              del[d].pc \in Holding
       PROVE  ClaimInv'
  <2>1. CASE DelGoto(d, "error") /\ UNCHANGED <<row, doc>>
    BY <1>5, <2>1 DEF DelGoto, Holding
  <2>2. ASSUME row' = [row EXCEPT ![a] = [@ EXCEPT !.status = s, !.lastError = e,
                                                   !.deleteAttempt = None]],
               doc' = [x \in Documents |->
                         IF x \in del[d].cascaded THEN [doc[x] EXCEPT !.raw = w] ELSE doc[x]],
               DelGoto(d, s)
        PROVE  ClaimInv'
    <3>1. \A x \in Documents : doc'[x].state = doc[x].state /\ doc'[x].art = doc[x].art
      BY <1>2, <2>2 DEF DocType
    <3>2. s \in Statuses \ {"absent"} /\ s \in DeleteEnds
      BY DEF Statuses, DeleteEnds
    <3> QED
      BY <1>6, <1>14, <2>2, <3>1, <3>2
  <2> QED
    BY <1>4, <1>14, <2>1, <2>2 DEF Finalize
<1>15. CASE FinalizeSuccess(d) \/ FinalizeFailure(d)
  BY <1>14, <1>15 DEF FinalizeSuccess, FinalizeFailure, Holding
<1>16. ASSUME NEW x \in Documents, CascadeDocument(d, x) PROVE ClaimInv'
  <2>1. CASE DelGoto(d, "release") /\ UNCHANGED <<row, doc>>
    BY <1>5, <1>16, <2>1 DEF CascadeDocument, DelGoto, Holding
  <2>2. ASSUME doc' = [doc EXCEPT ![x] = [doc[x] EXCEPT !.state = "deleted"]],
               NEW t, NEW c,
               del' = [del EXCEPT ![d] = [del[d] EXCEPT !.todo = t, !.cascaded = c]],
               UNCHANGED row, del[d].pc = "cascade"
        PROVE  ClaimInv'
    <3>1. /\ del'[d].art = a /\ del'[d].pc = "cascade" /\ del'[d].initial = del[d].initial
          /\ \A e \in Deletes \ {d} : del'[e] = del[e]
      BY <1>2, <1>4, <2>2 DEF DelType
    <3>2. /\ \A y \in Documents : doc'[y].art = doc[y].art
          /\ \A y \in Documents : doc'[y].state = "active" => doc[y].state = "active"
      BY <1>2, <2>2 DEF DocType
    <3>3. DocumentLinks' /\ RowClaims'
      BY <1>2, <2>2, <3>2 DEF DocumentLinks, RowClaims
    <3>4. HandlerClaims'
      BY <1>2, <1>4, <2>2, <3>1 DEF HandlerClaims
    <3>5. DeleteClaimExclusive'
      <4> SUFFICES ASSUME NEW e \in Deletes, del'[e].pc \in Holding PROVE DeleteCas(e)'
        BY DEF DeleteClaimExclusive
      <4>1. DeleteCas(e) /\ del'[e].art = del[e].art
        BY <1>2, <1>4, <2>2, <3>1 DEF DeleteClaimExclusive, Holding
      <4> QED
        BY <2>2, <4>1 DEF DeleteCas
    <3> QED
      BY <1>1, <3>3, <3>4, <3>5 DEF ClaimInv
  <2> QED
    BY <1>16, <2>1, <2>2 DEF CascadeDocument
<1> QED
  BY <1>7, <1>8, <1>9, <1>10, <1>11, <1>12, <1>13, <1>15, <1>16 DEF DelStep

\* At first there is no row, no document and no request.
LEMMA ClaimsAtInit == Init => ClaimInv
<1>1. Init => TypeOK
  BY DEF Init, TypeOK, RowType, NoRow, Statuses, Errors, PutEnds, DelType, NoDelete,
         DeleteEnds, SnapshotType, DocType, NoDoc
<1> QED
  BY <1>1 DEF Init, ClaimInv, RowClaims, HandlerClaims, DocumentLinks, DeleteClaimExclusive,
              NoRow, NoDelete, NoDoc, DeleteSteps, Holding

\* The claim invariant holds of every execution.
LEMMA ClaimInvariant == Spec => []ClaimInv
<1>1. ClaimInv /\ [Next]_vars => ClaimInv'
  <2>1. ClaimInv /\ UNCHANGED vars => ClaimInv'
    BY DEF vars, ClaimInv, TypeOK, RowClaims, HandlerClaims, DocumentLinks,
           DeleteClaimExclusive, DeleteCas
  <2> SUFFICES ASSUME ClaimInv, Next PROVE ClaimInv'
    BY <2>1
  <2>2. CASE \E a \in Artifacts : PutPointer(a) \/ ClaimPending(a) \/ PutStep(a) \/ CrashPut(a)
    BY <2>2, PutKeepsClaims
  <2>3. CASE \E x \in Documents : DeleteDocument(x) \/ \E a \in Artifacts : RegisterDocument(x, a)
    BY <2>3, DocumentsKeepClaims
  <2>4. CASE \E d \in Deletes, a \in Artifacts, policy \in BOOLEAN : ReadInitial(d, a, policy)
    BY <2>4, ReadKeepsClaims
  <2>5. CASE \E d \in Deletes : DelStep(d) \/ CrashDelete(d)
    BY <2>5, DeleteKeepsClaims
  <2> QED
    BY <2>2, <2>3, <2>4, <2>5 DEF Next
<1> QED
  BY <1>1, ClaimsAtInit, PTL DEF Spec

\* Whatever the number of requests, faults and crashes, a delete handler past
\* its claim owns the row until it finalizes.
THEOREM ClaimsAreExclusive == Spec => []DeleteClaimExclusive
BY ClaimInvariant, PTL DEF ClaimInv
-----------------------------------------------------------------------------
(***************************************************************************)
(* The refinement. Seen through Claims, each step of a handler is one step *)
(* of ArtifactClaims or none: creating a row, the end of an upload, the    *)
(* claim of a delete, its release or its tombstone, or an answer.          *)
(***************************************************************************)

\* The claim seen by ArtifactClaims of a handler at pc.
Request(pc) ==
    CASE pc \in {"none", "claim"} -> "waiting"
      [] pc \in Holding           -> "holding"
      [] OTHER                    -> "over"

Requests == [d \in Deletes |-> Request(del[d].pc)]
Created == {a \in Artifacts : row[a].status # "absent"}
Uploading == {a \in Artifacts : row[a].putAttempt}
Holder == [a \in Artifacts |-> row[a].deleteAttempt]
Gone == {a \in Artifacts : row[a].status = "deleted"}

ClaimVars == <<Created, Uploading, Holder, Gone, Requests>>

LEMMA RequestOf ==
  /\ Request("none") = "waiting" /\ Request("claim") = "waiting"
  /\ \A pc \in Holding : Request(pc) = "holding"
  /\ \A pc \in (DeleteEnds \ {"none"}) \cup {"reread"} : Request(pc) = "over"
BY DEF Request, Holding, DeleteEnds

\* A step that leaves the claims of the rows and what each handler holds is none
\* of ArtifactClaims.
LEMMA NoClaimMoves ==
  ASSUME TypeOK, TypeOK',
         \A a \in Artifacts :
            /\ row'[a].status \in {"absent", "deleted"} \/ row[a].status \in {"absent", "deleted"}
                  => row'[a].status = row[a].status
            /\ row'[a].putAttempt = row[a].putAttempt
            /\ row'[a].deleteAttempt = row[a].deleteAttempt,
         \A d \in Deletes : Request(del'[d].pc) = Request(del[d].pc)
  PROVE  UNCHANGED ClaimVars
<1>1. Created' = Created /\ Gone' = Gone
  BY DEF Created, Gone
<1>2. Uploading' = Uploading /\ Holder' = Holder
  BY DEF Uploading, Holder
<1>3. Requests' = Requests
  BY DEF Requests
<1> QED
  BY <1>1, <1>2, <1>3 DEF ClaimVars

LEMMA InitImplements == Init => Claims!Init
<1> SUFFICES ASSUME Init PROVE Claims!Init
  OBVIOUS
<1>1. /\ \A a \in Artifacts : row[a] = NoRow
      /\ \A d \in Deletes : del[d] = NoDelete
  BY DEF Init
<1>2. Created = {} /\ Gone = {} /\ Uploading = {}
  BY <1>1 DEF Created, Gone, Uploading, NoRow
<1>3. Holder = [a \in Artifacts |-> None]
  BY <1>1 DEF Holder, NoRow
<1>4. Requests = [d \in Deletes |-> "waiting"]
  BY <1>1, RequestOf DEF Requests, NoDelete
<1> QED
  BY <1>2, <1>3, <1>4
     DEF Claims!Init, Created, Gone, Uploading, Holder, Requests, Request
\* Inserting a row creates its artifact.
LEMMA InsertImplements ==
  ASSUME ClaimInv, TypeOK', NEW a \in Artifacts, NEW n,
         row[a].status = "absent", row' = [row EXCEPT ![a] = n], UNCHANGED del,
         n.status \notin {"absent", "deleted"}, n.deleteAttempt = None
  PROVE  Claims!Create(a)
<1>1. /\ row \in [Artifacts -> RowType]
      /\ row'[a] = n /\ \A b \in Artifacts \ {a} : row'[b] = row[b]
      /\ row[a].deleteAttempt = None /\ ~row[a].putAttempt
  BY DEF ClaimInv, TypeOK, RowClaims
<1>2. n.putAttempt \in BOOLEAN
  BY <1>1 DEF TypeOK, RowType
<1>3. a \notin Created /\ Created' = Created \cup {a}
  BY <1>1 DEF Created
<1>4. Uploading' = Uploading \cup {a} \/ Uploading' = Uploading
  <2>1. CASE n.putAttempt
    BY <1>1, <2>1 DEF Uploading
  <2>2. CASE ~n.putAttempt
    BY <1>1, <2>2 DEF Uploading
  <2> QED
    BY <2>1, <2>2
<1>5. Holder' = Holder
  BY <1>1 DEF Holder
<1>6. Gone' = Gone
  BY <1>1 DEF Gone
<1>7. Requests' = Requests
  BY DEF Requests
<1> QED
  BY <1>3, <1>4, <1>5, <1>6, <1>7
     DEF Claims!Create, Created, Gone, Uploading, Holder, Requests, Request

\* The upload's CAS ends its claim.
LEMMA CasImplements ==
  ASSUME ClaimInv, TypeOK', NEW a \in Artifacts, NEW n, PutCas(a),
         row' = [row EXCEPT ![a] = n], UNCHANGED del,
         n.status \notin {"absent", "deleted"}, ~n.putAttempt,
         n.deleteAttempt = row[a].deleteAttempt
  PROVE  Claims!FinishUpload(a)
<1>1. /\ row \in [Artifacts -> RowType]
      /\ row'[a] = n /\ \A b \in Artifacts \ {a} : row'[b] = row[b]
      /\ row[a].status = "pending" /\ row[a].putAttempt /\ row[a].deleteAttempt = None
  BY DEF ClaimInv, TypeOK, RowClaims, PutCas
<1>2. a \in Uploading \ Gone /\ Uploading' = Uploading \ {a}
  BY <1>1 DEF Uploading, Gone
<1>3. Created' = Created /\ Gone' = Gone
  BY <1>1 DEF Created, Gone
<1>4. Holder' = Holder /\ Holder[a] = None
  BY <1>1 DEF Holder
<1>5. Requests' = Requests
  BY DEF Requests
<1> QED
  BY <1>2, <1>3, <1>4, <1>5
     DEF Claims!FinishUpload, Created, Gone, Uploading, Holder, Requests, Request

\* What a handler's move from one pc to another does to its request.
LEMMA RequestMoves ==
  ASSUME TypeOK, NEW d \in Deletes, NEW pc, del' \in [Deletes -> DelType],
         del'[d].pc = pc, \A e \in Deletes \ {d} : del'[e] = del[e]
  PROVE  /\ Requests[d] = Request(del[d].pc)
         /\ Requests' = [Requests EXCEPT ![d] = Request(pc)]
         /\ Request(pc) = Request(del[d].pc) => Requests' = Requests
BY DEF Requests

\* An answer without a claim, and a stop, give up.
LEMMA AnswerImplements ==
  ASSUME ClaimInv, TypeOK', NEW d \in Deletes, UNCHANGED row,
         \A e \in Deletes \ {d} : del'[e] = del[e],
         Request(del'[d].pc) = "over", Request(del[d].pc) \in {"waiting", "holding"}
  PROVE  Claims!GiveUp(d)
<1>1. Requests[d] \in {"waiting", "holding"} /\ Requests' = [Requests EXCEPT ![d] = "over"]
  BY RequestMoves DEF ClaimInv, TypeOK
<1>2. UNCHANGED <<Created, Uploading, Holder, Gone>>
  BY DEF Created, Uploading, Holder, Gone
<1> QED
  BY <1>1, <1>2
     DEF Claims!GiveUp, Claims!Become, Created, Gone, Uploading, Holder, Requests, Request

\* The CAS of a delete claims the artifact.
LEMMA ClaimImplements ==
  ASSUME ClaimInv, TypeOK', NEW d \in Deletes, NEW a \in Artifacts,
         del[d].pc = "claim", row[a].status \in CLAIMABLE_FROM_STATUSES,
         row' = [row EXCEPT ![a] = [@ EXCEPT !.status = "deleting", !.deleteAttempt = d,
                                             !.lastError = "none"]],
         DelGoto(d, "count")
  PROVE  Claims!Acquire(a, d)
<1>1. /\ row \in [Artifacts -> RowType] /\ row[a] \in RowType
      /\ row[a].status \notin {"absent", "deleted", "deleting"}
      /\ row[a].deleteAttempt = None
  BY DEF ClaimInv, TypeOK, RowClaims, CLAIMABLE_FROM_STATUSES
<1>2. /\ row'[a].status = "deleting" /\ row'[a].deleteAttempt = d
      /\ row'[a].putAttempt = row[a].putAttempt
      /\ \A b \in Artifacts \ {a} : row'[b] = row[b]
  BY <1>1 DEF RowType
<1>3. Requests[d] = "waiting" /\ Requests' = [Requests EXCEPT ![d] = "holding"]
  <2>1. del'[d].pc = "count" /\ \A e \in Deletes \ {d} : del'[e] = del[e]
    BY DEF DelGoto, ClaimInv, TypeOK, DelType
  <2>2. "count" \in Holding
    BY DEF Holding
  <2> QED
    BY <2>1, <2>2, RequestMoves, RequestOf DEF ClaimInv, TypeOK
<1>4. a \in Created \ Gone /\ Created' = Created /\ Gone' = Gone /\ Uploading' = Uploading
  BY <1>1, <1>2 DEF Created, Gone, Uploading
<1>5. Holder[a] = None /\ Holder' = [Holder EXCEPT ![a] = d]
  BY <1>1, <1>2 DEF Holder
<1> QED
  BY <1>3, <1>4, <1>5 DEF Claims!Acquire, Claims!Become, Created, Gone, Uploading, Holder,
                          Requests, Request

\* A holder that leaves the row releases its claim, or makes the tombstone.
LEMMA LeaveImplements ==
  ASSUME ClaimInv, TypeOK', NEW d \in Deletes, NEW a, a = del[d].art,
         del[d].pc \in Holding, NEW s \in Statuses \ {"absent"}, NEW e,
         row' = [row EXCEPT ![a] = [@ EXCEPT !.status = s, !.lastError = e,
                                             !.deleteAttempt = None]],
         NEW pc \in DeleteEnds \ {"none"}, DelGoto(d, pc)
  PROVE  a \in Artifacts /\ IF s = "deleted" THEN Claims!Destroy(a, d) ELSE Claims!Release(a, d)
<1>1. /\ row \in [Artifacts -> RowType] /\ a \in Artifacts /\ row[a] \in RowType
      /\ row[a].status = "deleting" /\ row[a].deleteAttempt = d
  BY DEF ClaimInv, TypeOK, HandlerClaims, DeleteClaimExclusive, DeleteCas, Holding
<1>2. /\ row'[a].status = s /\ row'[a].deleteAttempt = None
      /\ row'[a].putAttempt = row[a].putAttempt
      /\ \A b \in Artifacts \ {a} : row'[b] = row[b]
  BY <1>1 DEF RowType
<1>3. Requests[d] = "holding" /\ Requests' = [Requests EXCEPT ![d] = "over"]
  <2>1. del'[d].pc = pc /\ \A f \in Deletes \ {d} : del'[f] = del[f]
    BY DEF DelGoto, ClaimInv, TypeOK, DelType
  <2> QED
    BY <2>1, RequestMoves, RequestOf DEF ClaimInv, TypeOK
<1>4. Created' = Created /\ Uploading' = Uploading
  BY <1>1, <1>2 DEF Created, Uploading
<1>5. Holder[a] = d /\ Holder' = [Holder EXCEPT ![a] = None]
  BY <1>1, <1>2 DEF Holder
<1>6. CASE s = "deleted"
  <2>1. Gone' = Gone \cup {a}
    BY <1>1, <1>2, <1>6 DEF Gone
  <2>2. Claims!Destroy(a, d)
    BY <1>3, <1>4, <1>5, <2>1 DEF Claims!Destroy, Claims!Holds, Claims!Become, Created, Gone,
                                  Uploading, Holder, Requests, Request
  <2> QED
    BY <1>1, <1>6, <2>2
<1>7. CASE s # "deleted"
  <2>1. Gone' = Gone
    BY <1>1, <1>2, <1>7 DEF Gone
  <2>2. Claims!Release(a, d)
    BY <1>3, <1>4, <1>5, <2>1 DEF Claims!Release, Claims!Holds, Claims!Become, Created, Gone,
                                  Uploading, Holder, Requests, Request
  <2> QED
    BY <1>1, <1>7, <2>2
<1> QED
  BY <1>6, <1>7
ClaimStep == Claims!Next \/ UNCHANGED ClaimVars

\* Creating a row and the upload's steps.
LEMMA PutImplements ==
  ASSUME ClaimInv, NEW a \in Artifacts,
         PutPointer(a) \/ ClaimPending(a) \/ PutStep(a) \/ CrashPut(a)
  PROVE  ClaimStep
<1>1. TypeOK /\ TypeOK' /\ row[a] \in RowType
  BY PutKeepsTypes DEF ClaimInv, TypeOK
<1>2. UNCHANGED del
  BY DEF PutPointer, ClaimPending, PutStep, CrashPut, BackendPut, RecordBackendPutFailure,
         RecordUploaded, ReconcileAlreadyFinalized, CleanupUpload, MarkRecovered
<1>3. CASE UNCHANGED row
  BY <1>1, <1>2, <1>3, NoClaimMoves DEF ClaimStep
<1>4. CASE PutPointer(a)
  <2>1. PointerRow.status = "stored" /\ PointerRow.deleteAttempt = None
    BY DEF PointerRow, NoRow
  <2> QED
    BY <1>1, <1>2, <1>4, <2>1, InsertImplements DEF PutPointer, ClaimStep, Claims!Next
<1>5. CASE ClaimPending(a)
  <2> DEFINE n == [NoRow EXCEPT !.status = "pending", !.mode = "managed", !.putAttempt = TRUE]
  <2>1. n.status = "pending" /\ n.deleteAttempt = None
    BY DEF NoRow
  <2>2. row[a].status = "absent" /\ row' = [row EXCEPT ![a] = n]
    BY <1>5 DEF ClaimPending
  <2> HIDE DEF n
  <2> QED
    BY <1>1, <1>2, <2>1, <2>2, InsertImplements DEF ClaimStep, Claims!Next
<1>6. ASSUME PutCas(a), StoreRow(a) PROVE ClaimStep
  <2> DEFINE n == [row[a] EXCEPT !.status = "stored", !.uri = TRUE, !.putAttempt = FALSE]
  <2>1. n.status = "stored" /\ n.deleteAttempt = row[a].deleteAttempt /\ ~n.putAttempt
    BY <1>1 DEF RowType
  <2>2. row' = [row EXCEPT ![a] = n]
    BY <1>6 DEF StoreRow
  <2> HIDE DEF n
  <2> QED
    BY <1>1, <1>2, <1>6, <2>1, <2>2, CasImplements DEF ClaimStep, Claims!Next
<1>7. ASSUME PutCas(a), NEW err, MarkFailed(a, err) PROVE ClaimStep
  <2> DEFINE n == [row[a] EXCEPT !.status = "failed", !.lastError = err, !.putAttempt = FALSE]
  <2>1. n.status = "failed" /\ n.deleteAttempt = row[a].deleteAttempt /\ ~n.putAttempt
    BY <1>1 DEF RowType
  <2>2. row' = [row EXCEPT ![a] = n]
    BY <1>7 DEF MarkFailed
  <2> HIDE DEF n
  <2> QED
    BY <1>1, <1>2, <1>7, <2>1, <2>2, CasImplements DEF ClaimStep, Claims!Next
<1> QED
  BY <1>3, <1>4, <1>5, <1>6, <1>7
     DEF PutStep, CrashPut, BackendPut, RecordBackendPutFailure, RecordUploaded,
         ReconcileAlreadyFinalized, CleanupUpload, MarkRecovered

\* The document operations: a document delete makes a tombstone only where no
\* delete of the artifact has started.
LEMMA DocumentsImplement ==
  ASSUME ClaimInv, NEW x \in Documents,
         DeleteDocument(x) \/ \E a \in Artifacts : RegisterDocument(x, a)
  PROVE  ClaimStep
<1>1. TypeOK /\ TypeOK' /\ UNCHANGED del
  BY OthersKeepTypes DEF ClaimInv, DeleteDocument, RegisterDocument
<1>2. ASSUME NEW a \in Artifacts, RegisterDocument(x, a) PROVE ClaimStep
  <2>1. PointerRow.status = "stored" /\ PointerRow.deleteAttempt = None
    BY DEF PointerRow, NoRow
  <2> QED
    BY <1>1, <1>2, <2>1, InsertImplements DEF RegisterDocument, ClaimStep, Claims!Next
<1>3. CASE DeleteDocument(x) /\ UNCHANGED row
  BY <1>1, <1>3, NoClaimMoves DEF ClaimStep
<1>4. CASE DeleteDocument(x) /\ ~UNCHANGED row
  <2>1. PICK a \in Artifacts :
           /\ row[a].status \notin {"absent", "deleting", "deleted"}
           /\ row' = [row EXCEPT ![a] = [row[a] EXCEPT !.status = "deleted",
                                                       !.deleteAttempt = None]]
    BY <1>4 DEF DeleteDocument, ClaimInv, DocumentLinks, DeleteStarted
  <2>2. row \in [Artifacts -> RowType] /\ row[a] \in RowType /\ row[a].deleteAttempt = None
    BY <2>1 DEF ClaimInv, TypeOK, RowClaims
  <2>3. /\ row'[a].status = "deleted" /\ row'[a].deleteAttempt = None
        /\ row'[a].putAttempt = row[a].putAttempt
        /\ \A b \in Artifacts \ {a} : row'[b] = row[b]
    BY <2>1, <2>2 DEF RowType
  <2>4. a \in Created \ Gone /\ Created' = Created /\ Gone' = Gone \cup {a}
    BY <2>1, <2>2, <2>3 DEF Created, Gone
  <2>5. Holder[a] = None /\ Holder' = Holder /\ Uploading' = Uploading
    BY <2>2, <2>3 DEF Holder, Uploading
  <2>6. Requests' = Requests
    BY <1>1 DEF Requests
  <2>7. Claims!DestroyUnclaimed(a)
    BY <2>4, <2>5, <2>6 DEF Claims!DestroyUnclaimed, Created, Gone, Uploading, Holder,
                            Requests, Request
  <2> QED
    BY <2>7 DEF ClaimStep, Claims!Next
<1> QED
  BY <1>2, <1>3, <1>4

\* A delete handler's own steps.
LEMMA DeleteImplements ==
  ASSUME ClaimInv, NEW d \in Deletes,
         \/ DelStep(d) \/ CrashDelete(d)
         \/ \E a \in Artifacts, policy \in BOOLEAN : ReadInitial(d, a, policy)
  PROVE  ClaimStep
<1> USE RequestOf
<1>1. TypeOK /\ TypeOK' /\ ClaimInv'
  BY DeleteKeepsTypes, OthersKeepTypes, DeleteKeepsClaims, ReadKeepsClaims DEF ClaimInv
<1>2. del \in [Deletes -> DelType] /\ del[d] \in DelType
  BY <1>1 DEF TypeOK
\* Steps that move no row.
<1>3. ASSUME UNCHANGED row, \A e \in Deletes \ {d} : del'[e] = del[e],
             \/ Request(del'[d].pc) = Request(del[d].pc)
             \/ Request(del'[d].pc) = "over" /\ Request(del[d].pc) \in {"waiting", "holding"}
      PROVE  ClaimStep
  <2>1. CASE Request(del'[d].pc) = Request(del[d].pc)
    BY <1>1, <1>3, <2>1, NoClaimMoves DEF ClaimStep
  <2>2. CASE Request(del'[d].pc) = "over" /\ Request(del[d].pc) \in {"waiting", "holding"}
    BY <1>1, <1>3, <2>2, AnswerImplements DEF ClaimStep, Claims!Next
  <2> QED
    BY <1>3, <2>1, <2>2
<1>4. ASSUME NEW pc, DelGoto(d, pc)
      PROVE  del'[d].pc = pc /\ \A e \in Deletes \ {d} : del'[e] = del[e]
  BY <1>2, <1>4 DEF DelGoto, DelType
<1>5. ASSUME NEW a \in Artifacts, NEW policy \in BOOLEAN, ReadInitial(d, a, policy)
      PROVE  ClaimStep
  <2>1. /\ del[d].pc = "none" /\ del'[d].pc \in {"deleted", "claim"} /\ UNCHANGED row
        /\ \A e \in Deletes \ {d} : del'[e] = del[e]
    BY <1>2, <1>5 DEF ReadInitial, DelType
  <2>2. "deleted" \in DeleteEnds \ {"none"}
    BY DEF DeleteEnds
  <2> QED
    BY <1>3, <2>1, <2>2
<1>6. CASE CrashDelete(d)
  <2>1. "crashed" \in DeleteEnds \ {"none"} /\ DeleteSteps \subseteq Holding \cup {"claim", "reread"}
    BY DEF DeleteEnds, DeleteSteps, Holding
  <2> QED
    BY <1>3, <1>4, <1>6, <2>1 DEF CrashDelete
<1>7. CASE ClaimDeleteAttempt(d)
  <2>1. CASE UNCHANGED row
    <3>1. del[d].pc = "claim" /\ \E pc \in {"reread", "error"} : DelGoto(d, pc)
      <4>1. CASE DelGoto(d, "reread") \/ DelGoto(d, "error")
        BY <1>7, <4>1 DEF ClaimDeleteAttempt
      <4>2. CASE ~(DelGoto(d, "reread") \/ DelGoto(d, "error"))
        <5>1. row[del[d].art].status \in CLAIMABLE_FROM_STATUSES
          BY <1>7, <4>2 DEF ClaimDeleteAttempt
        <5>2. /\ del[d].art \in Artifacts /\ row[del[d].art] \in RowType
              /\ row \in [Artifacts -> RowType]
          BY <1>1, <1>7 DEF ClaimDeleteAttempt, ClaimInv, HandlerClaims, TypeOK
        <5>3. \E n : row' = [row EXCEPT ![del[d].art] =
                             [row[del[d].art] EXCEPT !.status = "deleting", !.deleteAttempt = d,
                                                     !.lastError = n]]
          BY <1>7, <4>2 DEF ClaimDeleteAttempt
        <5>4. row'[del[d].art].status = "deleting"
          BY <5>2, <5>3 DEF RowType
        <5> QED
          BY <2>1, <5>1, <5>4 DEF CLAIMABLE_FROM_STATUSES
      <4> QED
        BY <4>1, <4>2
    <3>2. "error" \in DeleteEnds \ {"none"}
      BY DEF DeleteEnds
    <3> QED
      BY <1>3, <1>4, <2>1, <3>1, <3>2
  <2>2. CASE ~UNCHANGED row
    <3> DEFINE a == del[d].art
    <3>1. a \in Artifacts
      BY <1>7 DEF ClaimInv, HandlerClaims, ClaimDeleteAttempt
    <3>2. Claims!Acquire(a, d)
      BY <1>1, <1>7, <2>2, <3>1, ClaimImplements DEF ClaimDeleteAttempt
    <3> QED
      BY <3>1, <3>2 DEF ClaimStep, Claims!Next
  <2> QED
    BY <2>1, <2>2
<1>8. CASE RereadRefused(d)
  <2>1. {"deleted", "delete_in_flight"} \subseteq DeleteEnds \ {"none"}
    BY DEF DeleteEnds
  <2> QED
    BY <1>3, <1>4, <1>8, <2>1 DEF RereadRefused
\* Steps of a holder that stays one.
<1>9. ASSUME UNCHANGED row, del[d].pc \in Holding, del'[d].pc \in Holding,
             \A e \in Deletes \ {d} : del'[e] = del[e]
      PROVE  ClaimStep
  BY <1>3, <1>9
<1>10. CASE CountReferences(d) \/ CascadeDone(d) \/ BackendDelete(d)
  <2>1. del[d].pc \in Holding /\ UNCHANGED row
    BY <1>10 DEF CountReferences, CascadeDone, BackendDelete, Holding
  <2>2. CASE \E pc \in Holding : DelGoto(d, pc)
    BY <1>4, <1>9, <2>1, <2>2
  <2>3. CASE \E refs : del' = [del EXCEPT ![d] = [@ EXCEPT !.pc = "cascade", !.todo = refs]]
    <3>1. del'[d].pc = "cascade" /\ \A e \in Deletes \ {d} : del'[e] = del[e]
      BY <1>2, <2>3 DEF DelType
    <3> QED
      BY <1>9, <2>1, <3>1 DEF Holding
  <2> QED
    BY <1>10, <2>2, <2>3 DEF CountReferences, CascadeDone, BackendDelete, Holding
<1>11. ASSUME NEW x \in Documents, CascadeDocument(d, x) PROVE ClaimStep
  <2>1. del[d].pc = "cascade" /\ UNCHANGED row /\ {"cascade", "release"} \subseteq Holding
    BY <1>11 DEF CascadeDocument, Holding
  <2>2. CASE DelGoto(d, "release")
    BY <1>4, <1>9, <2>1, <2>2
  <2>3. CASE \E t, c : del' = [del EXCEPT ![d] = [@ EXCEPT !.todo = t, !.cascaded = c]]
    <3>1. del'[d].pc = "cascade" /\ \A e \in Deletes \ {d} : del'[e] = del[e]
      BY <1>2, <2>1, <2>3 DEF DelType
    <3> QED
      BY <1>9, <2>1, <3>1
  <2> QED
    BY <1>11, <2>2, <2>3 DEF CascadeDocument
\* Steps by which a holder ends.
<1>12. ASSUME del[d].pc \in Holding, NEW pc \in DeleteEnds \ {"none"}, DelGoto(d, pc),
              NEW s \in Statuses \ {"absent"}, NEW e,
              \/ UNCHANGED row
              \/ row' = [row EXCEPT ![del[d].art] = [@ EXCEPT !.status = s, !.lastError = e,
                                                              !.deleteAttempt = None]]
       PROVE  ClaimStep
  <2>1. CASE UNCHANGED row
    BY <1>3, <1>4, <1>12, <2>1
  <2>2. CASE ~UNCHANGED row
    <3>1. /\ del[d].art \in Artifacts
          /\ Claims!Destroy(del[d].art, d) \/ Claims!Release(del[d].art, d)
      BY <1>1, <1>12, <2>2, LeaveImplements
    <3> QED
      BY <3>1 DEF ClaimStep, Claims!Next
  <2> QED
    BY <2>1, <2>2
<1>13. CASE ReleaseDeleteClaim(d)
  <2>1. /\ "refused" \in DeleteEnds \ {"none"} /\ "release" \in Holding
        /\ del[d].pc = "release" /\ del[d].initial.status \in Statuses \ {"absent"}
    BY <1>2, <1>13 DEF DeleteEnds, Holding, ReleaseDeleteClaim, ClaimInv, HandlerClaims, DelType,
                       SnapshotType, DeleteSteps
  <2> QED
    BY <1>12, <1>13, <2>1 DEF ReleaseDeleteClaim
<1>14. ASSUME NEW s \in {"deleted", "delete_failed"}, NEW e, NEW w, Finalize(d, s, e, w),
              del[d].pc \in Holding
       PROVE  ClaimStep
  <2>1. s \in Statuses \ {"absent"} /\ {s, "error"} \subseteq DeleteEnds \ {"none"}
    BY DEF Statuses, DeleteEnds
  <2>2. \/ DelGoto(d, s) /\ row' = [row EXCEPT ![del[d].art] =
                              [@ EXCEPT !.status = s, !.lastError = e, !.deleteAttempt = None]]
        \/ DelGoto(d, "error") /\ UNCHANGED row
    BY <1>14 DEF Finalize
  <2> QED
    BY <1>12, <1>14, <2>1, <2>2
<1>15. CASE FinalizeSuccess(d) \/ FinalizeFailure(d)
  BY <1>14, <1>15 DEF FinalizeSuccess, FinalizeFailure, Holding
<1> QED
  BY <1>5, <1>6, <1>7, <1>8, <1>10, <1>11, <1>13, <1>15 DEF DelStep

\* The handlers implement the claims: whatever they and the faults do, an artifact is
\* created once, its delete claim goes to one request at a time and back, only the
\* holder or a document delete of an unclaimed artifact makes its tombstone, and a
\* tombstone is final.
THEOREM HandlersImplementClaims == Spec => ImplementsClaims
<1>1. ClaimInv /\ [Next]_vars => [Claims!Next]_(Claims!vars)
  <2> SUFFICES ASSUME ClaimInv, [Next]_vars PROVE ClaimStep
    BY DEF ClaimStep, ClaimVars, Claims!vars, Created, Gone, Uploading, Holder, Requests, Request
  <2>1. CASE UNCHANGED vars
    BY <2>1 DEF vars, ClaimStep, ClaimVars, Created, Gone, Uploading, Holder, Requests
  <2>2. CASE Next
    BY <2>2, PutImplements, DocumentsImplement, DeleteImplements DEF Next
  <2> QED
    BY <2>1, <2>2
<1> QED
  BY <1>1, InitImplements, ClaimInvariant, PTL DEF Spec, ImplementsClaims, Claims!Spec
=============================================================================
