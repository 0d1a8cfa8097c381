--------------------------- MODULE DocumentUpload ---------------------------
(***************************************************************************)
(* uploadRawDocument: alpha claims the slot, beta writes the bytes, beta2  *)
(* records the uri and swaps the artifact, gamma publishes the status.     *)
(* Alpha is one transaction under the document's advisory lock, in two     *)
(* steps (its SELECT and its UPDATE) because writers that do not take the  *)
(* lock run in between; beta2 and gamma compare the claim instead.         *)
(***************************************************************************)
EXTENDS RawDocuments

VARIABLE up        \* the upload handlers

UpSteps == {"claim", "put", "failClaimed", "beta2", "compensateLost",
            "compensateFailed", "markCleaned", "markOrphan", "gamma"}
UpEnds  == {"none", "ok", "existing", "conflict", "notFound", "lost", "error", "crashed"}

UpType == [pc : UpSteps \cup UpEnds, doc : Documents \cup {None},
           hash : Hashes \cup {None}, branch : {"upload", "finalize"},
           storedStatus : {"stored", "pending", None}]

NoUpload == [pc |-> "none", doc |-> None, hash |-> None, branch |-> "upload",
             storedStatus |-> None]

Key(u) == <<up[u].doc, up[u].hash>>

UpInit == up = [u \in Uploads |-> NoUpload]

UpGoto(u, pc) == up' = [up EXCEPT ![u] = [@ EXCEPT !.pc = pc]]

Occupied == {"blob_stored", "blob_pending", "blob_available", "blob_uploading"}
Settled  == Occupied \ {"blob_uploading"}

\* classifyIdempotent and hasConflictingManagedBlob, on the row alpha selected.
Decision(row, h) ==
    IF row.hash = h /\ row.status \in Settled THEN "existing"
    ELSE IF row.hash = h /\ row.status = "blob_uploading" /\ row.uri # None THEN "finalize"
    ELSE IF row.hash \notin {h, None} /\ row.status \in Occupied THEN "conflict"
    ELSE "upload"

Uploading(x) == {u \in Uploads : up[u].doc = x /\ up[u].pc \in UpSteps}

\* Mutant: alpha does not take the advisory lock.
AlphaLoadUnlocked(u, x, h) ==
    /\ up[u].pc = "none"
    /\ doc[x].state # "absent"
    /\ LET d == IF Active(x) THEN Decision(doc[x], h) ELSE "notFound"
       IN  up' = [up EXCEPT ![u] =
                    [pc |-> IF d \in {"upload", "finalize"} THEN "claim" ELSE d,
                     doc |-> x, hash |-> h,
                     branch |-> IF d = "finalize" THEN d ELSE "upload",
                     storedStatus |-> doc[x].storedStatus]]
    /\ UNCHANGED rows

\* runPhaseAlpha up to its UPDATE. The early exits end the transaction here.
AlphaLoad(u, x, h) ==
    /\ up[u].pc = "none"
    /\ doc[x].state # "absent"
    /\ lock[x] = None
    /\ LET d == IF Active(x) THEN Decision(doc[x], h) ELSE "notFound"
           claims == d \in {"upload", "finalize"}
       IN  /\ up' = [up EXCEPT ![u] =
                       [pc |-> IF claims THEN "claim" ELSE d,
                        doc |-> x, hash |-> h,
                        branch |-> IF d = "finalize" THEN d ELSE "upload",
                        storedStatus |-> doc[x].storedStatus]]
           /\ lock' = IF claims THEN [lock EXCEPT ![x] = u] ELSE lock
    /\ UNCHANGED <<doc, art, objects>>

\* Mutant: a status the column's CHECK does not list.
ClaimedUnlisted(u) ==
    [doc[up[u].doc] EXCEPT !.status = "uploading", !.claim = u, !.hash = up[u].hash,
                           !.uri = None, !.storedStatus = None]

\* claimUploadSlotWithClient: a reclaim clears the durable uri, a finalize
\* keeps it. The row is only asked to be active.
Claimed(u) ==
    LET row == [doc[up[u].doc] EXCEPT !.status = "blob_uploading", !.claim = u,
                                      !.hash = up[u].hash]
    IN  IF up[u].branch = "finalize" THEN row
        ELSE [row EXCEPT !.uri = None, !.storedStatus = None]

AlphaClaim(u) ==
    LET x == up[u].doc IN
    /\ up[u].pc = "claim"
    /\ \/ /\ Active(x)
          /\ doc' = [doc EXCEPT ![x] = Claimed(u)]
          /\ UpGoto(u, IF up[u].branch = "finalize" THEN "gamma" ELSE "put")
       \/ ~Active(x) /\ UpGoto(u, "notFound") /\ UNCHANGED doc
       \/ Fault("db") /\ UpGoto(u, "error") /\ UNCHANGED doc
    /\ lock' = [lock EXCEPT ![x] = None]
    /\ UNCHANGED <<art, objects>>

\* runPhaseBeta. An eventual provider may answer stored at once.
Put(u) ==
    /\ up[u].pc = "put"
    /\ \/ /\ objects' = objects \cup {Key(u)}
          /\ \E s \in IF Eventual THEN {"stored", "pending"} ELSE {"stored"} :
                up' = [up EXCEPT ![u] = [@ EXCEPT !.pc = "beta2", !.storedStatus = s]]
       \/ Fault("backend") /\ UpGoto(u, "failClaimed") /\ UNCHANGED objects
    /\ UNCHANGED <<doc, art, lock>>

Failed(x, hint) == [doc[x] EXCEPT !.status = "raw_storage_failed", !.claim = None,
                                  !.hint = hint]

OwnsClaim(u) == doc[up[u].doc].claim = u

\* failClaimedUploadAndSyncArtifact: guarded by the claim and not by deleted_at.
FailClaimed(u) ==
    /\ up[u].pc = "failClaimed"
    /\ \/ OwnsClaim(u) /\ SetBoth(up[u].doc, Failed(up[u].doc, FALSE))
       \/ ~OwnsClaim(u) /\ UNCHANGED <<doc, art>>
       \/ Fault("db") /\ UNCHANGED <<doc, art>>
    /\ UpGoto(u, "error")
    /\ UNCHANGED <<objects, lock>>

\* The compare-and-set of beta2 and, with a uri, of gamma.
ClaimHeld(u) ==
    LET row == doc[up[u].doc]
    IN  row.state = "active" /\ row.status = "blob_uploading" /\ row.claim = u

\* swapToManagedArtifact: the prior artifact is soft-deleted, a managed one is
\* inserted as pending.
Swapped(u) ==
    LET prior == doc[up[u].doc].link
        new   == [NoArt EXCEPT !.status = "pending", !.uri = Key(u)]
    IN  [a \in Artifacts |->
           IF a = u THEN new
           ELSE IF a = prior
           THEN [art[a] EXCEPT !.status = "deleted", !.tomb = TRUE, !.attempt = None]
           ELSE art[a]]

\* recordUploadResultAndSwapArtifact, one transaction: it refuses a prior
\* artifact whose delete has started by throwing.
Beta2(u) ==
    LET x == up[u].doc
        prior == doc[x].link
        refused == prior # None /\ art[prior].status \in DeleteStarted
    IN
    /\ up[u].pc = "beta2"
    /\ \/ /\ ClaimHeld(u) /\ ~refused
          /\ doc' = [doc EXCEPT ![x] = [@ EXCEPT !.mode = "managed_blob",
                                                 !.uri = up[u].hash,
                                                 !.storedStatus = up[u].storedStatus,
                                                 !.link = u]]
          /\ art' = Swapped(u)
          /\ UpGoto(u, "gamma")
       \/ ~ClaimHeld(u) /\ UpGoto(u, "compensateLost") /\ UNCHANGED <<doc, art>>
       \/ /\ (ClaimHeld(u) /\ refused) \/ Fault("db")
          /\ UpGoto(u, "compensateFailed") /\ UNCHANGED <<doc, art>>
    /\ UNCHANGED <<objects, lock>>

\* compensateOrphanedBlob, after a lost claim or after a throw.
Compensate(u) ==
    LET lost == up[u].pc = "compensateLost" IN
    /\ up[u].pc \in {"compensateLost", "compensateFailed"}
    /\ \/ /\ objects' = objects \ {Key(u)}
          /\ UpGoto(u, IF lost THEN "lost" ELSE "markCleaned")
       \/ /\ Fault("backend")
          /\ UpGoto(u, IF lost THEN "lost" ELSE "markOrphan")
          /\ UNCHANGED objects
    /\ UNCHANGED <<doc, art, lock>>

\* markBeta2FailureOnDocument: the document alone, so that the artifact keeps
\* the state its own delete gives it.
MarkBeta2Failure(u) ==
    LET x == up[u].doc IN
    /\ up[u].pc \in {"markCleaned", "markOrphan"}
    /\ \/ OwnsClaim(u) /\ doc' = [doc EXCEPT ![x] = Failed(x, up[u].pc = "markOrphan")]
       \/ ~OwnsClaim(u) /\ UNCHANGED doc
       \/ Fault("db") /\ UNCHANGED doc
    /\ UpGoto(u, "error")
    /\ UNCHANGED <<art, objects, lock>>

\* deriveFinalRawStorageStatus.
FinalStatus(stored) ==
    IF stored = "pending" THEN "blob_pending"
    ELSE IF Eventual THEN "blob_available" ELSE "blob_stored"

GammaHeld(u) == ClaimHeld(u) /\ doc[up[u].doc].uri # None

\* finalizeUploadAndSyncArtifact, for both ways into gamma.
Gamma(u) ==
    LET x == up[u].doc IN
    /\ up[u].pc = "gamma"
    /\ \/ /\ GammaHeld(u)
          /\ SetBoth(x, [doc[x] EXCEPT !.status = FinalStatus(up[u].storedStatus),
                                       !.claim = None, !.hint = FALSE])
          /\ UpGoto(u, "ok")
       \/ ~GammaHeld(u) /\ UpGoto(u, "lost") /\ UNCHANGED <<doc, art>>
       \/ Fault("db") /\ UpGoto(u, "error") /\ UNCHANGED <<doc, art>>
    /\ UNCHANGED <<objects, lock>>

\* A dead process's transaction is rolled back, which releases its lock.
CrashUpload(u) ==
    /\ Fault("crash")
    /\ up[u].pc \in UpSteps
    /\ UpGoto(u, "crashed")
    /\ lock' = [x \in Documents |-> IF lock[x] = u THEN None ELSE lock[x]]
    /\ UNCHANGED <<doc, art, objects>>

UpStep(u) ==
    \/ AlphaClaim(u)
    \/ Put(u)
    \/ FailClaimed(u)
    \/ Beta2(u)
    \/ Compensate(u)
    \/ MarkBeta2Failure(u)
    \/ Gamma(u)

UpTypeOK == up \in [Uploads -> UpType]
=============================================================================
