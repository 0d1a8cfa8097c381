-------------------------- MODULE DocumentRemoval --------------------------
(***************************************************************************)
(* Removing documents and the objects behind them: DELETE of one document  *)
(* (DocumentService.delete) and reset of a source (resetBySource). Both    *)
(* soft-delete in a transaction, delete the objects after its commit, and  *)
(* mark each row with the outcome; a retry looks for rows whose cleanup    *)
(* failed. deleteAll wipes a user: objects first, then the tables, one     *)
(* statement each and no transaction. All documents of the model belong to *)
(* one source of one user.                                                 *)
(***************************************************************************)
EXTENDS RawDocuments

VARIABLE rm   \* the removal handlers

RmSteps == {"softDelete", "lookup", "cleanup", "mark", "dropDocuments", "dropArtifacts"}
RmEnds  == {"none", "ok", "error", "crashed"}

RmType == [pc : RmSteps \cup RmEnds, kind : {"document", "source", "user"},
           scope : SUBSET Documents, blobs : SUBSET Keys,
           cleaned : SUBSET Keys, failed : SUBSET Keys]

NoRemoval == [pc |-> "none", kind |-> "document", scope |-> {}, blobs |-> {},
              cleaned |-> {}, failed |-> {}]

RmInit == rm = [w \in Removals |-> NoRemoval]

RmGoto(w, pc) == rm' = [rm EXCEPT ![w] = [@ EXCEPT !.pc = pc]]

\* listManagedBlobsForDocument and listManagedBlobsBySource.
ManagedBlobs(scope) ==
    {<<x, doc[x].uri>> : x \in {y \in scope : /\ Active(y)
                                              /\ doc[y].mode = "managed_blob"
                                              /\ doc[y].uri # None}}

\* listOrphanedManagedBlobs: rows an earlier removal left to clean.
OrphanedBlobs(scope) ==
    {<<x, doc[x].uri>> : x \in {y \in scope : /\ doc[y].state = "deleted"
                                              /\ doc[y].status = "raw_storage_failed"
                                              /\ doc[y].mode = "managed_blob"
                                              /\ doc[y].uri # None}}

Removing(x) == {w \in Removals : x \in rm[w].scope /\ rm[w].pc \in RmSteps}

\* The SELECT of the transaction. Only the document path takes the lock.
ListBlobs(w, kind, scope) ==
    /\ rm[w].pc = "none"
    /\ rm' = [rm EXCEPT ![w] = [NoRemoval EXCEPT !.pc = "softDelete", !.kind = kind,
                                                 !.scope = scope,
                                                 !.blobs = ManagedBlobs(scope)]]
    /\ \/ /\ kind = "document"
          /\ \A x \in scope : lock[x] = None
          /\ lock' = [x \in Documents |-> IF x \in scope THEN w ELSE lock[x]]
       \/ kind = "source" /\ UNCHANGED lock
    /\ UNCHANGED <<doc, art, objects>>

\* softDeleteLinkedArtifactForDocument (a document without objects) and
\* softDeleteLinkedArtifactsForSource (documents without a uri, or clean).
ArtifactsToTombstone(w) ==
    LET linked(x) == doc[x].link # None
        docs == IF rm[w].kind = "document"
                THEN {x \in rm[w].scope : Active(x) /\ rm[w].blobs = {}}
                ELSE {x \in rm[w].scope : doc[x].uri = None \/ doc[x].status = "blob_deleted"}
    IN  {a \in {doc[x].link : x \in {y \in docs : linked(y)}} :
           art[a].status \notin DeleteStarted}

\* The UPDATEs and the commit. A document that was already deleted hands no
\* objects on.
SoftDelete(w) ==
    LET scope == rm[w].scope
        blobs == IF rm[w].kind = "document" /\ ~\E x \in scope : Active(x)
                 THEN {} ELSE rm[w].blobs
        gone == ArtifactsToTombstone(w)
    IN
    /\ rm[w].pc = "softDelete"
    /\ \/ /\ doc' = [x \in Documents |-> IF x \in scope
                                         THEN [doc[x] EXCEPT !.state = "deleted"] ELSE doc[x]]
          /\ art' = [a \in Artifacts |->
                       IF a \in gone
                       THEN [art[a] EXCEPT !.status = "deleted", !.tomb = TRUE,
                                           !.attempt = None]
                       ELSE art[a]]
          /\ rm' = [rm EXCEPT ![w] =
                      [@ EXCEPT !.blobs = blobs,
                                !.pc = IF blobs = {} THEN "lookup" ELSE "cleanup"]]
       \/ Fault("db") /\ RmGoto(w, "error") /\ UNCHANGED <<doc, art>>
    /\ lock' = [x \in Documents |-> IF lock[x] = w THEN None ELSE lock[x]]
    /\ UNCHANGED objects

\* A transaction that found no objects: is this a retry?
LookupOrphans(w) ==
    LET orphans == OrphanedBlobs(rm[w].scope) IN
    /\ rm[w].pc = "lookup"
    /\ \/ rm' = [rm EXCEPT ![w] = [@ EXCEPT !.blobs = orphans,
                                            !.pc = IF orphans = {} THEN "ok" ELSE "cleanup"]]
       \/ Fault("db") /\ RmGoto(w, "error")
    /\ UNCHANGED rows

\* Mutant: deleteAll drops its tables whatever failed.
AfterCleanupAnyway(w, failed) == IF rm[w].kind = "user" THEN "dropDocuments" ELSE "mark"

\* deleteAll marks failures only, and goes on to its tables when there are none.
AfterCleanup(w, failed) ==
    IF rm[w].kind = "user" /\ failed = {} THEN "dropDocuments" ELSE "mark"

\* cleanupManagedBlobs: each object is tried on its own; a failure is kept.
CleanupBlob(w, b) ==
    LET rest == rm[w].blobs \ {b}
        next(failed) == IF rest = {} THEN AfterCleanup(w, failed) ELSE "cleanup"
    IN
    /\ rm[w].pc = "cleanup"
    /\ b \in rm[w].blobs
    /\ \/ /\ objects' = objects \ {b}
          /\ rm' = [rm EXCEPT ![w] = [@ EXCEPT !.pc = next(rm[w].failed), !.blobs = rest,
                                               !.cleaned = rm[w].cleaned \cup {b}]]
       \/ /\ Fault("backend")
          /\ rm' = [rm EXCEPT ![w] = [@ EXCEPT !.pc = next({b}), !.blobs = rest,
                                               !.failed = rm[w].failed \cup {b}]]
          /\ UNCHANGED objects
    /\ UNCHANGED <<doc, art, lock>>

\* markCleanupSuccessAndSyncArtifact: by document id, whatever its status.
MarkCleaned(w, b) ==
    LET rest == rm[w].cleaned \ {b}
        x == b[1]
    IN
    /\ rm[w].pc = "mark" /\ rm[w].kind # "user"
    /\ b \in rm[w].cleaned
    /\ \/ /\ SetBoth(x, [doc[x] EXCEPT !.status = "blob_deleted"])
          /\ rm' = [rm EXCEPT ![w] =
                      [@ EXCEPT !.cleaned = rest,
                                !.pc = IF rest = {} /\ rm[w].failed = {} THEN "ok" ELSE "mark"]]
       \/ Fault("db") /\ RmGoto(w, "error") /\ UNCHANGED <<doc, art>>
    /\ UNCHANGED <<objects, lock>>

\* Mutant: failures are reported and their rows are not marked.
MarkFailedForgotten(w, b) ==
    /\ rm[w].pc = "mark"
    /\ rm[w].cleaned = {}
    /\ b \in rm[w].failed
    /\ RmGoto(w, "error")
    /\ UNCHANGED rows

\* markCleanupFailedAndSyncArtifact, after the successes; then the handler
\* throws. A source reset passes no error, which keeps the row's last_error.
MarkFailed(w, b) ==
    LET rest == rm[w].failed \ {b}
        x == b[1]
    IN
    /\ rm[w].pc = "mark"
    /\ rm[w].cleaned = {} \/ rm[w].kind = "user"
    /\ b \in rm[w].failed
    /\ \/ /\ SetBoth(x, [doc[x] EXCEPT !.status = "raw_storage_failed",
                                       !.hint = rm[w].kind = "source" /\ doc[x].hint])
          /\ rm' = [rm EXCEPT ![w] = [@ EXCEPT !.failed = rest,
                                               !.pc = IF rest = {} THEN "error" ELSE "mark"]]
       \/ Fault("db") /\ RmGoto(w, "error") /\ UNCHANGED <<doc, art>>
    /\ UNCHANGED <<objects, lock>>

\* deleteAll: the objects of the user's active documents, or none to clean.
ListForWipe(w) ==
    LET blobs == ManagedBlobs(Documents) IN
    /\ rm[w].pc = "none"
    /\ rm' = [rm EXCEPT ![w] = [NoRemoval EXCEPT !.pc = IF blobs = {} THEN "dropDocuments"
                                                       ELSE "cleanup",
                                                 !.kind = "user", !.scope = Documents,
                                                 !.blobs = blobs]]
    /\ UNCHANGED rows

HasRow(x) == doc[x].state \in {"active", "deleted"}

\* DELETE FROM raw_documents: every row of the user, whatever its state.
DropDocuments(w) ==
    /\ rm[w].pc = "dropDocuments"
    /\ \/ /\ doc' = [x \in Documents |-> IF HasRow(x) THEN [NoDoc EXCEPT !.state = "wiped"]
                                                        ELSE doc[x]]
          /\ RmGoto(w, "dropArtifacts")
       \/ Fault("db") /\ RmGoto(w, "error") /\ UNCHANGED doc
    /\ UNCHANGED <<art, objects, lock>>

\* DELETE FROM storage_artifacts: the foreign key refuses it while a document that
\* was registered in between links an artifact.
DropArtifacts(w) ==
    LET linked == \E x \in Documents : doc[x].link # None IN
    /\ rm[w].pc = "dropArtifacts"
    /\ \/ ~linked /\ art' = [a \in Artifacts |-> NoArt] /\ RmGoto(w, "ok")
       \/ (linked \/ Fault("db")) /\ RmGoto(w, "error") /\ UNCHANGED art
    /\ UNCHANGED <<doc, objects, lock>>

CrashRemoval(w) ==
    /\ Fault("crash")
    /\ rm[w].pc \in RmSteps
    /\ RmGoto(w, "crashed")
    /\ lock' = [x \in Documents |-> IF lock[x] = w THEN None ELSE lock[x]]
    /\ UNCHANGED <<doc, art, objects>>

RmStep(w) ==
    \/ SoftDelete(w)
    \/ LookupOrphans(w)
    \/ DropDocuments(w) \/ DropArtifacts(w)
    \/ \E b \in Keys : CleanupBlob(w, b) \/ MarkCleaned(w, b) \/ MarkFailed(w, b)

RmTypeOK == rm \in [Removals -> RmType]
=============================================================================
