-------------------------- MODULE StorageArtifacts --------------------------
(***************************************************************************)
(* The managed-artifact store of packages/core: `storage_artifacts` rows   *)
(* in Postgres, their bytes at a storage backend, and the two kinds of     *)
(* request handler that keep them together:                                *)
(*                                                                         *)
(*   put    StorageService.putManaged and storage-put-recovery.ts: insert  *)
(*          a pending row, upload outside the transaction, CAS the row to  *)
(*          stored, and recover when one of those steps fails;             *)
(*   delete StorageService.deleteArtifact: snapshot the row, claim it,     *)
(*          cascade to the linked documents, delete the bytes outside the  *)
(*          transaction, finalize.                                         *)
(*                                                                         *)
(* A handler is one step per awaited call, so handlers interleave at every *)
(* await. The backend key of a managed artifact contains the artifact id,  *)
(* so its object is identified with the artifact and its uri is a Boolean. *)
(*                                                                         *)
(* Faults names what may go wrong, so that a run can say under which       *)
(* faults its properties hold:                                             *)
(*   "db"      a statement or transaction throws and has no effect         *)
(*   "commit"  the upload's UPDATE commits and the client still sees a     *)
(*             throw                                                       *)
(*   "backend" backend.put or backend.delete throws and has no effect      *)
(*   "crash"   the process running a handler dies between two steps        *)
(***************************************************************************)
EXTENDS FiniteSets

CONSTANTS
    Artifacts,     \* artifact ids
    Deletes,       \* DELETE requests; each mints one delete_attempt_id
    Documents,     \* raw_documents registered with a pointer artifact
    None,          \* SQL NULL
    Faults,        \* the faults the environment may inject
    EarlyDelete    \* a DELETE may name an artifact whose upload still runs

FaultKinds == {"db", "commit", "backend", "crash"}

ASSUME ConstantsAssumption ==
    /\ None \notin Artifacts \cup Deletes \cup Documents
    /\ Faults \subseteq FaultKinds
    /\ EarlyDelete \in BOOLEAN

VARIABLES
    row,      \* storage_artifacts, by id
    bytes,    \* the managed artifacts whose object exists at the backend
    put,      \* where the put handler of each artifact is
    del,      \* where each delete handler is, and its local variables
    doc       \* raw_documents rows that link an artifact

vars == <<row, bytes, put, del, doc>>

Statuses == {"absent", "stored", "pending", "available", "unavailable",
             "deleting", "deleted", "delete_failed", "failed"}

\* Mutant: a delete in flight can be claimed again.
ClaimableWhileDeleting ==
    {"stored", "pending", "available", "unavailable", "failed", "delete_failed", "deleting"}

\* Statuses a fresh delete claim may start from. deleted_at is stamped exactly
\* when a row of this module becomes "deleted".
CLAIMABLE_FROM_STATUSES ==
    {"stored", "pending", "available", "unavailable", "failed", "delete_failed"}

\* last_error, reduced to the envelopes that say different things of the bytes.
Errors == {"none", "put_failed", "cleaned_up", "orphan", "delete_failed"}

RowType == [status : Statuses, mode : {"pointer", "managed"}, uri : BOOLEAN,
            putAttempt : BOOLEAN, deleteAttempt : Deletes \cup {None},
            lastError : Errors]

NoRow == [status |-> "absent", mode |-> "pointer", uri |-> FALSE,
          putAttempt |-> FALSE, deleteAttempt |-> None, lastError |-> "none"]

\* The delete handler's `initial`: the row as its first SELECT returned it.
SnapshotType == [status : Statuses, mode : {"pointer", "managed"},
                 uri : BOOLEAN, lastError : Errors]

Snapshot(a) == [status |-> row[a].status, mode |-> row[a].mode,
                uri |-> row[a].uri, lastError |-> row[a].lastError]

PutSteps == {"upload", "markPutFailed", "record1", "reconcile1", "record2",
             "reconcile2", "cleanup", "markCleanedUp", "markUnrecoverable"}
PutEnds  == {"none", "ok", "error", "crashed"}

DeleteSteps == {"claim", "reread", "count", "cascade", "release", "backend",
                "finalizeSuccess", "finalizeFailure"}
DeleteEnds  == {"none", "deleted", "delete_failed", "delete_in_flight",
                "refused", "error", "crashed"}

\* The steps a delete handler takes while it holds the row's claim.
Holding == {"count", "cascade", "release", "backend", "finalizeSuccess",
            "finalizeFailure"}

DelType == [pc : DeleteSteps \cup DeleteEnds, art : Artifacts \cup {None},
            withDocuments : BOOLEAN, initial : SnapshotType,
            todo : SUBSET Documents, cascaded : SUBSET Documents]

NoDelete == [pc |-> "none", art |-> None, withDocuments |-> FALSE,
             initial |-> [status |-> "absent", mode |-> "pointer",
                          uri |-> FALSE, lastError |-> "none"],
             todo |-> {}, cascaded |-> {}]

DocType == [art : Artifacts \cup {None},
            state : {"absent", "active", "deleted"},
            raw : {"pointer_recorded", "blob_deleted", "raw_storage_failed"}]

NoDoc == [art |-> None, state |-> "absent", raw |-> "pointer_recorded"]

Init ==
    /\ row = [a \in Artifacts |-> NoRow]
    /\ bytes = {}
    /\ put = [a \in Artifacts |-> "none"]
    /\ del = [d \in Deletes |-> NoDelete]
    /\ doc = [x \in Documents |-> NoDoc]

Fault(f) == f \in Faults

-----------------------------------------------------------------------------
(* Creating a row. *)

PointerRow == [NoRow EXCEPT !.status = "stored", !.uri = TRUE]

\* putPointer: one INSERT, no backend call.
PutPointer(a) ==
    /\ row[a].status = "absent"
    /\ row' = [row EXCEPT ![a] = PointerRow]
    /\ UNCHANGED <<bytes, put, del, doc>>

\* registerWithPointerArtifact: the document, its pointer artifact and the
\* link are inserted in one transaction.
RegisterDocument(x, a) ==
    /\ doc[x].state = "absent"
    /\ row[a].status = "absent"
    /\ row' = [row EXCEPT ![a] = PointerRow]
    /\ doc' = [doc EXCEPT ![x] = [@ EXCEPT !.art = a, !.state = "active"]]
    /\ UNCHANGED <<bytes, put, del>>

\* putManaged up to claimPendingArtifact: the pending row comes first, with no
\* uri and a fresh put_attempt_id.
ClaimPending(a) ==
    /\ row[a].status = "absent"
    /\ row' = [row EXCEPT ![a] = [NoRow EXCEPT !.status = "pending",
                                               !.mode = "managed",
                                               !.putAttempt = TRUE]]
    /\ put' = [put EXCEPT ![a] = "upload"]
    /\ UNCHANGED <<bytes, del, doc>>

-----------------------------------------------------------------------------
(* The put handler. *)

PutGoto(a, pc) == put' = [put EXCEPT ![a] = pc]

\* The CAS every put-side UPDATE carries: this attempt's put_attempt_id, and
\* the row still pending.
PutCas(a) == row[a].status = "pending" /\ row[a].putAttempt

BackendPut(a) ==
    /\ put[a] = "upload"
    /\ \/ bytes' = bytes \cup {a} /\ PutGoto(a, "record1")
       \/ Fault("backend") /\ PutGoto(a, "markPutFailed") /\ UNCHANGED bytes
    /\ UNCHANGED <<row, del, doc>>

\* Mutants: a status the column's CHECK does not list; an envelope that is the
\* same for every failure; an error recorded without leaving pending.
MarkFailedUnlisted(a, err) ==
    row' = [row EXCEPT ![a] = [@ EXCEPT !.status = "put_failed", !.lastError = err,
                                        !.putAttempt = FALSE]]
MarkFailed(a, err) ==
    row' = [row EXCEPT ![a] = [@ EXCEPT !.status = "failed", !.lastError = err,
                                        !.putAttempt = FALSE]]

\* recordBackendPutFailure: a best-effort marker; the caller gets the error.
RecordBackendPutFailure(a) ==
    /\ put[a] = "markPutFailed"
    /\ \/ PutCas(a) /\ MarkFailed(a, "put_failed")
       \/ ~PutCas(a) /\ UNCHANGED row
       \/ Fault("db") /\ UNCHANGED row
    /\ PutGoto(a, "error")
    /\ UNCHANGED <<bytes, del, doc>>

StoreRow(a) ==
    row' = [row EXCEPT ![a] = [@ EXCEPT !.status = "stored", !.uri = TRUE,
                                        !.putAttempt = FALSE]]

\* recordUploadedArtifact, first call and retry: on a CAS miss or a throw the
\* handler goes on to reconcile.
RecordUploaded(a) ==
    /\ put[a] \in {"record1", "record2"}
    /\ LET reconcile == IF put[a] = "record1" THEN "reconcile1" ELSE "reconcile2"
       IN  \/ PutCas(a) /\ StoreRow(a) /\ PutGoto(a, "ok")
           \/ ~PutCas(a) /\ PutGoto(a, reconcile) /\ UNCHANGED row
           \/ Fault("db") /\ PutGoto(a, reconcile) /\ UNCHANGED row
           \/ Fault("commit") /\ PutCas(a) /\ StoreRow(a) /\ PutGoto(a, reconcile)
    /\ UNCHANGED <<bytes, del, doc>>

\* Mutant: any row that has left pending counts as finalized.
NoLongerPending(a) == row[a].status # "pending"

AlreadyFinalized(a) == row[a].status = "stored" /\ row[a].uri

\* reconcileAlreadyFinalized: was the row stored with this uri after all? Its
\* SELECT is not guarded, so a throw here ends the request with no recovery.
ReconcileAlreadyFinalized(a) ==
    /\ put[a] \in {"reconcile1", "reconcile2"}
    /\ \/ /\ AlreadyFinalized(a)
          /\ PutGoto(a, "ok")
       \/ /\ ~AlreadyFinalized(a)
          /\ PutGoto(a, IF put[a] = "reconcile1" THEN "record2" ELSE "cleanup")
       \/ Fault("db") /\ PutGoto(a, "error")
    /\ UNCHANGED <<row, bytes, del, doc>>

\* recoverPostPutFailure: take the uploaded bytes back.
CleanupUpload(a) ==
    /\ put[a] = "cleanup"
    /\ \/ bytes' = bytes \ {a} /\ PutGoto(a, "markCleanedUp")
       \/ Fault("backend") /\ PutGoto(a, "markUnrecoverable") /\ UNCHANGED bytes
    /\ UNCHANGED <<row, del, doc>>

\* runScopedFailureMarker, for both outcomes of the cleanup. When the bytes
\* could not be removed, last_error carries the orphan uri.
MarkRecovered(a) ==
    /\ put[a] \in {"markCleanedUp", "markUnrecoverable"}
    /\ \/ /\ PutCas(a)
          /\ MarkFailed(a, IF put[a] = "markCleanedUp" THEN "cleaned_up" ELSE "orphan")
       \/ ~PutCas(a) /\ UNCHANGED row
       \/ Fault("db") /\ UNCHANGED row
    /\ PutGoto(a, "error")
    /\ UNCHANGED <<bytes, del, doc>>

CrashPut(a) ==
    /\ Fault("crash")
    /\ put[a] \in PutSteps
    /\ PutGoto(a, "crashed")
    /\ UNCHANGED <<row, bytes, del, doc>>

PutStep(a) ==
    \/ BackendPut(a)
    \/ RecordBackendPutFailure(a)
    \/ RecordUploaded(a)
    \/ ReconcileAlreadyFinalized(a)
    \/ CleanupUpload(a)
    \/ MarkRecovered(a)

-----------------------------------------------------------------------------
(* The delete handler. *)

DelGoto(d, pc) == del' = [del EXCEPT ![d] = [@ EXCEPT !.pc = pc]]

\* The CAS of releaseDeleteClaim, markDeleteSuccess and markDeleteFailed.
DeleteCas(d) ==
    LET a == del[d].art
    IN  row[a].status = "deleting" /\ row[a].deleteAttempt = d

\* The first SELECT: the row as it is now, deleted rows included. It fixes
\* whether the backend will be called at all.
ReadInitial(d, a, policy) ==
    /\ del[d].pc = "none"
    /\ row[a].status # "absent"
    /\ EarlyDelete \/ put[a] \in PutEnds
    /\ del' = [del EXCEPT ![d] =
                 [@ EXCEPT !.pc = IF row[a].status = "deleted" THEN "deleted" ELSE "claim",
                           !.art = a,
                           !.withDocuments = policy,
                           !.initial = Snapshot(a)]]
    /\ UNCHANGED <<row, bytes, put, doc>>

\* claimDeleteAttempt: refused when the row is deleting or deleted.
ClaimDeleteAttempt(d) ==
    LET a == del[d].art IN
    /\ del[d].pc = "claim"
    /\ \/ /\ row[a].status \in CLAIMABLE_FROM_STATUSES
          /\ row' = [row EXCEPT ![a] = [@ EXCEPT !.status = "deleting",
                                                 !.deleteAttempt = d,
                                                 !.lastError = "none"]]
          /\ DelGoto(d, "count")
       \/ /\ row[a].status \notin CLAIMABLE_FROM_STATUSES
          /\ DelGoto(d, "reread") /\ UNCHANGED row
       \/ Fault("db") /\ DelGoto(d, "error") /\ UNCHANGED row
    /\ UNCHANGED <<bytes, put, doc>>

\* The refused claimant looks again: deleted is idempotent success, anything
\* else is the 409 delete_in_flight answer.
RereadRefused(d) ==
    /\ del[d].pc = "reread"
    /\ DelGoto(d, IF row[del[d].art].status = "deleted" THEN "deleted" ELSE "delete_in_flight")
    /\ UNCHANGED <<row, bytes, put, doc>>

References(a) == {x \in Documents : doc[x].art = a /\ doc[x].state = "active"}

\* maybeCascadeDocuments: the reference-count gate. The list the cascade runs
\* over is read right after the count; a document that leaves in between is
\* one the cascade would find already removed.
CountReferences(d) ==
    LET refs == References(del[d].art) IN
    /\ del[d].pc = "count"
    /\ \/ refs = {} /\ DelGoto(d, "backend")
       \/ refs # {} /\ ~del[d].withDocuments /\ DelGoto(d, "release")
       \/ /\ refs # {} /\ del[d].withDocuments
          /\ del' = [del EXCEPT ![d] = [@ EXCEPT !.pc = "cascade", !.todo = refs]]
       \/ Fault("db") /\ DelGoto(d, "release")
    /\ UNCHANGED <<row, bytes, put, doc>>

\* softDeleteDocumentCascade as the delete handler calls it: the artifact is
\* deleting, so the linked-artifact update inside it matches nothing.
CascadeDocument(d, x) ==
    /\ del[d].pc = "cascade"
    /\ x \in del[d].todo
    /\ \/ /\ doc' = [doc EXCEPT ![x] = [@ EXCEPT !.state = "deleted"]]
          /\ del' = [del EXCEPT ![d] =
                       [@ EXCEPT !.todo = del[d].todo \ {x},
                                 !.cascaded = del[d].cascaded
                                              \cup ({x} \cap References(del[d].art))]]
       \/ Fault("db") /\ DelGoto(d, "release") /\ UNCHANGED doc
    /\ UNCHANGED <<row, bytes, put>>

CascadeDone(d) ==
    /\ del[d].pc = "cascade"
    /\ del[d].todo = {}
    /\ DelGoto(d, "backend")
    /\ UNCHANGED <<row, bytes, put, doc>>

\* releaseDeleteClaim: back to the status and last_error of the snapshot.
ReleaseDeleteClaim(d) ==
    LET a == del[d].art IN
    /\ del[d].pc = "release"
    /\ \/ /\ DeleteCas(d)
          /\ row' = [row EXCEPT ![a] = [@ EXCEPT !.status = del[d].initial.status,
                                                 !.lastError = del[d].initial.lastError,
                                                 !.deleteAttempt = None]]
       \/ ~DeleteCas(d) /\ UNCHANGED row
       \/ Fault("db") /\ UNCHANGED row
    /\ DelGoto(d, "refused")
    /\ UNCHANGED <<bytes, put, doc>>

\* Mutant: a throw of backend.delete is logged and swallowed.
BackendDeleteSwallows(d) ==
    /\ del[d].pc = "backend"
    /\ \/ bytes' = bytes \ {del[d].art}
       \/ Fault("backend") /\ UNCHANGED bytes
    /\ DelGoto(d, "finalizeSuccess")
    /\ UNCHANGED <<row, put, doc>>

\* executeBackendDelete: only a managed row whose snapshot had a uri has bytes
\* to remove; for every other row the CAS is the whole delete.
BackendDelete(d) ==
    LET a == del[d].art
        hasObject == del[d].initial.mode = "managed" /\ del[d].initial.uri
    IN
    /\ del[d].pc = "backend"
    /\ \/ /\ bytes' = IF hasObject THEN bytes \ {a} ELSE bytes
          /\ DelGoto(d, "finalizeSuccess")
       \/ /\ hasObject /\ Fault("backend")
          /\ DelGoto(d, "finalizeFailure") /\ UNCHANGED bytes
    /\ UNCHANGED <<row, put, doc>>

\* The paired finalize transaction: the artifact and every cascaded document,
\* or, when the CAS misses or the transaction throws, neither.
Finalize(d, status, err, raw) ==
    LET a == del[d].art IN
    \/ /\ DeleteCas(d)
       /\ row' = [row EXCEPT ![a] = [@ EXCEPT !.status = status, !.lastError = err,
                                              !.deleteAttempt = None]]
       /\ doc' = [x \in Documents |->
                    IF x \in del[d].cascaded THEN [doc[x] EXCEPT !.raw = raw] ELSE doc[x]]
       /\ DelGoto(d, status)
    \/ ~DeleteCas(d) /\ DelGoto(d, "error") /\ UNCHANGED <<row, doc>>
    \/ Fault("db") /\ DelGoto(d, "error") /\ UNCHANGED <<row, doc>>

FinalizeSuccess(d) ==
    /\ del[d].pc = "finalizeSuccess"
    /\ Finalize(d, "deleted", "none", "blob_deleted")
    /\ UNCHANGED <<bytes, put>>

\* Mutant: the failed backend delete is reported and never recorded.
FinalizeFailureUnrecorded(d) ==
    /\ del[d].pc = "finalizeFailure"
    /\ DelGoto(d, "error")
    /\ UNCHANGED <<row, bytes, put, doc>>

FinalizeFailure(d) ==
    /\ del[d].pc = "finalizeFailure"
    /\ Finalize(d, "delete_failed", "delete_failed", "raw_storage_failed")
    /\ UNCHANGED <<bytes, put>>

CrashDelete(d) ==
    /\ Fault("crash")
    /\ del[d].pc \in DeleteSteps
    /\ DelGoto(d, "crashed")
    /\ UNCHANGED <<row, bytes, put, doc>>

DelStep(d) ==
    \/ ClaimDeleteAttempt(d)
    \/ RereadRefused(d)
    \/ CountReferences(d)
    \/ \E x \in Documents : CascadeDocument(d, x)
    \/ CascadeDone(d)
    \/ ReleaseDeleteClaim(d)
    \/ BackendDelete(d)
    \/ FinalizeSuccess(d)
    \/ FinalizeFailure(d)

-----------------------------------------------------------------------------
\* Mutant: a delete in flight does not protect the artifact.
DeleteStartedLate == {"deleted", "delete_failed"}

\* The statuses softDeleteLinkedArtifactForDocumentWithClient leaves alone.
DeleteStarted == {"deleting", "deleted", "delete_failed"}

\* DELETE on the document itself: softDeleteDocumentCascade soft-deletes the
\* linked pointer artifact unless its own delete has started.
DeleteDocument(x) ==
    LET a == doc[x].art IN
    /\ doc[x].state = "active"
    /\ doc' = [doc EXCEPT ![x] = [@ EXCEPT !.state = "deleted"]]
    /\ row' = IF row[a].status \in DeleteStarted THEN row
              ELSE [row EXCEPT ![a] = [@ EXCEPT !.status = "deleted", !.deleteAttempt = None]]
    /\ UNCHANGED <<bytes, put, del>>

Next ==
    \/ \E a \in Artifacts : PutPointer(a) \/ ClaimPending(a) \/ PutStep(a) \/ CrashPut(a)
    \/ \E x \in Documents : DeleteDocument(x) \/ \E a \in Artifacts : RegisterDocument(x, a)
    \/ \E d \in Deletes :
          \/ \E a \in Artifacts, policy \in BOOLEAN : ReadInitial(d, a, policy)
          \/ DelStep(d)
          \/ CrashDelete(d)

Spec == Init /\ [][Next]_vars

\* A request that has begun is driven by the event loop until it answers; no
\* request is obliged to begin.
Fairness ==
    /\ \A a \in Artifacts : WF_vars(PutStep(a))
    /\ \A d \in Deletes : WF_vars(DelStep(d))

FairSpec == Spec /\ Fairness

-----------------------------------------------------------------------------
(* Properties. *)

\* Every variable keeps its shape.
TypeOK ==
    /\ row \in [Artifacts -> RowType]
    /\ bytes \subseteq Artifacts
    /\ put \in [Artifacts -> PutSteps \cup PutEnds]
    /\ del \in [Deletes -> DelType]
    /\ doc \in [Documents -> DocType]

Managed(a) == row[a].mode = "managed"

\* A delete handler past claimDeleteAttempt owns the row until it finalizes:
\* the row is deleting under its claim. Two handlers are therefore never both
\* between the claim and the finalize of one artifact, whatever the uploads,
\* the document deletes and the crashes around them do.
DeleteClaimExclusive ==
    \A d \in Deletes : del[d].pc \in Holding => DeleteCas(d)

\* A managed row that reads as stored has its object at the backend, so
\* getArtifactContent of a stored artifact finds it.
StoredHasBytes ==
    \A a \in Artifacts :
       Managed(a) /\ row[a].status = "stored" => row[a].uri /\ a \in bytes

\* A failed row either left nothing at the backend or names the orphan in
\* last_error; a refused delete in between restores that envelope.
FailedIsCleanOrMarked ==
    \A a \in Artifacts :
       row[a].status = "failed" /\ a \in bytes => row[a].lastError = "orphan"

\* The only tombstones with an object left behind are those made by a request
\* whose snapshot showed no uri: a delete that saw the uri, and every delete
\* that failed, was refused or crashed on the way, loses track of no bytes.
OrphanOnlyByBlindDelete ==
    \A a \in Artifacts :
       row[a].status = "deleted" /\ a \in bytes /\ put[a] \in PutEnds =>
          \E d \in Deletes :
             del[d].art = a /\ del[d].pc = "deleted" /\ ~del[d].initial.uri

\* The three together: whatever the handlers and the faults do, the row says
\* what is at the backend, or a request that could not know has answered.
BytesAccountedFor == StoredHasBytes /\ FailedIsCleanOrMarked /\ OrphanOnlyByBlindDelete

\* No finished managed artifact leaves its object behind: once the row is a
\* tombstone and its upload handler is done, the backend holds nothing for it.
DeletedHasNoBytes ==
    \A a \in Artifacts :
       row[a].status = "deleted" /\ put[a] \in PutEnds => a \notin bytes

\* The put handler answers success only with a row that has a uri and an
\* object behind it, in the retry and reconcile branches too.
PutSuccessIsTrue ==
    [][\A a \in Artifacts :
          put[a] # "ok" /\ put'[a] = "ok" => row'[a].uri /\ a \in bytes']_vars

\* A request turned away because the row is deleting is turned away by a
\* handler that is still at work on it.
RefusalMeansLiveHolder ==
    [][\A d \in Deletes :
          LET r == row[del[d].art] IN
          del[d].pc = "claim" /\ del'[d].pc = "reread" =>
             \/ r.status = "deleted"
             \/ \E e \in Deletes : r.deleteAttempt = e /\ del[e].pc \in Holding]_vars

\* A row is deleting only under a claim: a refused delete does not leave it
\* deleting with delete_attempt_id NULL, where nobody can claim it again.
DeletingHasClaim ==
    \A a \in Artifacts : row[a].status = "deleting" => row[a].deleteAttempt # None

\* Every upload that began leaves pending, and every claimed delete leaves
\* deleting, as long as the handlers run and the database answers.
RowsSettle ==
    \A a \in Artifacts : \A s \in {"pending", "deleting"} :
       row[a].status = s ~> row[a].status # s

\* The claim columns keep the promise of ArtifactClaims.
Claims == INSTANCE ArtifactClaims WITH
    created   <- {a \in Artifacts : row[a].status # "absent"},
    uploading <- {a \in Artifacts : row[a].putAttempt},
    holder    <- [a \in Artifacts |-> row[a].deleteAttempt],
    gone      <- {a \in Artifacts : row[a].status = "deleted"},
    request   <- [d \in Deletes |->
                    CASE del[d].pc \in {"none", "claim"} -> "waiting"
                      [] del[d].pc \in Holding           -> "holding"
                      [] OTHER                           -> "over"]

ImplementsClaims == Claims!Spec

=============================================================================
