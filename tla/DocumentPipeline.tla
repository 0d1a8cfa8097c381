-------------------------- MODULE DocumentPipeline --------------------------
(***************************************************************************)
(* The document handlers together: uploads, removals, artifact deletes and *)
(* reconcilers at the rows and objects of RawDocuments. Races says which   *)
(* of them may be at one document together, so that a run can tell what    *)
(* holds when requests for a document come one at a time from what holds   *)
(* under every interleaving.                                               *)
(***************************************************************************)
EXTENDS DocumentUpload, DocumentRemoval, ArtifactRemoval, StorageReconciler

vars == <<setting, doc, art, objects, lock, up, rm, del, rec>>

Init == setting \in Settings /\ RowsInit /\ UpInit /\ RmInit /\ DelInit /\ RecInit

BeginUpload(u, x, h) ==
    /\ "upload" \in Races \/ Uploading(x) = {}
    /\ "removal" \in Races \/ Removing(x) = {}
    /\ h \in setting.hashes
    /\ AlphaLoad(u, x, h)

MayRemove(scope) ==
    /\ "removal" \in Races \/ \A x \in scope : Uploading(x) = {} /\ Removing(x) = {}
    /\ Cardinality({v \in Removals : rm[v].pc # "none"}) < setting.removals

BeginRemoval(w, kind, scope) == MayRemove(scope) /\ ListBlobs(w, kind, scope)

BeginWipe(w) == setting.wipe /\ MayRemove(Documents) /\ ListForWipe(w)

Registered == {x \in Documents : HasRow(x)}

RegisterStep == (\E x \in Documents : Register(x)) /\ UNCHANGED <<up, rm, del, rec, setting>>

UploadStep ==
    /\ \E u \in Uploads : UpStep(u) \/ CrashUpload(u)
                          \/ \E x \in Documents, h \in Hashes : BeginUpload(u, x, h)
    /\ UNCHANGED <<rm, del, rec, setting>>

RemovalStep ==
    /\ \E w \in Removals :
          \/ RmStep(w) \/ CrashRemoval(w)
          \/ \E x \in Registered : BeginRemoval(w, "document", {x})
          \/ BeginRemoval(w, "source", Registered)
          \/ BeginWipe(w)
    /\ UNCHANGED <<up, del, rec, setting>>

DeleteStep ==
    /\ \E d \in Deletes : DelStep(d)
                          \/ \E a \in Artifacts, policy \in BOOLEAN : ReadInitial(d, a, policy)
    /\ UNCHANGED <<up, rm, rec, setting>>

ReconcileStep ==
    /\ \E r \in Reconcilers : RecStep(r) \/ CrashReconciler(r)
    /\ UNCHANGED <<up, rm, del, setting>>

Next == RegisterStep \/ UploadStep \/ RemovalStep \/ DeleteStep \/ ReconcileStep

Spec == Init /\ [][Next]_vars

\* Requests that have begun are driven to their answer; the scheduler's timer
\* goes on ticking in every process that is up.
Fairness ==
    /\ \A u \in Uploads : WF_vars(UpStep(u) /\ UNCHANGED <<rm, del, rec, setting>>)
    /\ \A w \in Removals : WF_vars(RmStep(w) /\ UNCHANGED <<up, del, rec, setting>>)
    /\ \A d \in Deletes : WF_vars(DelStep(d) /\ UNCHANGED <<up, rm, rec, setting>>)
    /\ \A r \in Reconcilers : WF_vars(RecStep(r) /\ UNCHANGED <<up, rm, del, setting>>)

FairSpec == Spec /\ Fairness

-----------------------------------------------------------------------------
TypeOK == setting \in Settings /\ RowsTypeOK /\ UpTypeOK /\ RmTypeOK /\ DelTypeOK /\ RecTypeOK

\* A row never points at bytes other than those its content_hash promises: a
\* retry with other bytes after an archival failure clears the old uri first.
UriMatchesHash ==
    \A x \in Documents : doc[x].uri # None => doc[x].uri = doc[x].hash

\* An occupied slot keeps its bytes: no interleaving of uploads, reconcilers
\* and removals lets a caller with other bytes take it over. Only a wipe drops it.
SlotKept ==
    [][\A x \in Documents :
          doc[x].status \in Occupied /\ doc[x].hash # None =>
             doc'[x].hash = doc[x].hash \/ doc'[x].state = "wiped"]_vars

\* Objects that a wipe has deleted whose documents it may have left: deleteAll
\* marks no row for an object it has cleaned.
Unrecorded == UNION {rm[w].cleaned : w \in {v \in Removals : rm[v].kind = "user"}}

\* What an active document reports as stored or available is there.
StoredDocHasBytes ==
    \A x \in Documents :
       Active(x) /\ doc[x].status \in Settled => <<x, doc[x].uri>> \in objects \cup Unrecorded

\* The two rows do not drift: the artifact an active document links has the
\* status the document's own status maps to, unless it is being deleted.
ArtifactFollows ==
    \A x \in Documents :
       /\ Active(x)
       /\ doc[x].status \in Settled \cup {"blob_archival_failed"}
       => \/ art[doc[x].link].status = ArtifactStatus(doc[x].status)
          \/ art[doc[x].link].status \in {"deleting", "delete_failed"}

\* No upload, retry or lost claim leaves a managed artifact alive that its
\* document does not link, and a wipe only where it may be repeated.
NoStrandedArtifact ==
    \A u \in Uploads :
       art[u].status \notin {"absent", "deleted"} =>
          \/ \E x \in Documents : doc[x].link = u
          \/ /\ doc[art[u].uri[1]].state = "wiped"
             /\ \E w \in Removals : rm[w].kind = "user" /\ rm[w].pc # "ok"

\* The rows of a document, its artifacts and its hash agree, at every await of
\* every handler: the three of the above.
RowsAgree == UriMatchesHash /\ ArtifactFollows /\ NoStrandedArtifact

\* A wipe that failed leaves active documents that name objects, and an upload
\* clears the name before its put.
WipeFailed == \E w \in Removals : rm[w].kind = "user" /\ rm[w].pc = "error"

\* A document removed with its handlers finished has no object, or a row from
\* which the retry of its removal finds the object.
RemovedBytesTraceable ==
    \A x \in Documents :
       doc[x].state = "deleted" /\ Removing(x) = {} /\ Uploading(x) = {} =>
          \A k \in objects : k[1] = x => k \in OrphanedBlobs({x}) \/ WipeFailed

\* A removal that answers success left no object of a document it removed, nor
\* one that an earlier removal had failed to delete.
NoObjectLeft(w) == \A k \in objects : k[1] \in rm[w].scope => Active(k[1])

RemovalAnswerIsTrue ==
    [][\A w \in Removals :
          rm[w].pc # "ok" /\ rm'[w].pc = "ok" => NoObjectLeft(w)']_vars

\* The same of the DELETE of one document, first call or retry.
DeleteAnswerIsTrue(w) ==
    rm[w].pc # "ok" /\ rm'[w].pc = "ok" /\ rm[w].kind = "document" =>
       NoObjectLeft(w)' \/ WipeFailed

\* An upload answers success only when the row and the object agree with what
\* it says.
UploadAnswerIsTrue(u) ==
    LET x == up'[u].doc IN
    up[u].pc \notin {"ok", "existing"} /\ up'[u].pc \in {"ok", "existing"} =>
       /\ doc'[x].status \in Settled
       /\ doc'[x].uri = up'[u].hash
       /\ Key(u)' \in objects' \cup Unrecorded

\* A wipe drops the row of no active document whose object is still there: one that
\* failed to delete an object drops nothing.
WipeDropsOnlyClean(x) ==
    Active(x) /\ doc'[x].state = "wiped" => <<x, doc[x].uri>> \notin objects

\* The requests for a document come one at a time and only the object store fails. It
\* confirms at once: a retry with other bytes after the archival failure of an eventual
\* provider leaves the old object behind.
Serial == setting.races = {} /\ setting.faults \subseteq {"backend"} /\ ~Eventual

\* What a handler answers is true of the rows and the objects: the three of the
\* above, for requests that come one at a time.
AnswersAreTrue ==
    [][Serial =>
       /\ \A w \in Removals : DeleteAnswerIsTrue(w)
       /\ \A u \in Uploads : UploadAnswerIsTrue(u)
       /\ \A x \in Documents : WipeDropsOnlyClean(x)]_vars

\* No bytes are lost by requests that come one at a time: what an active document
\* reports is there, and what a removal left can be found.
NoBytesLost == Serial => StoredDocHasBytes /\ RemovedBytesTraceable

\* An active document never links a tombstone: not after a delete that counted
\* its references, and not after a swap.
LinkedArtifactLives ==
    \A x \in Documents :
       Active(x) /\ doc[x].link # None => ~art[doc[x].link].tomb

\* The delete handler that holds a claim owns the artifact until it finalizes:
\* no status sync of its document takes the row out of deleting.
DeleteClaimKept ==
    \A d \in Deletes : del[d].pc \in DelSteps \ {"claim"} => DeleteCas(d)

\* Where the provider reports no failure, a row is given up only after
\* MaxAttempts recorded attempts, whichever reconcilers made them and whatever
\* claims went stale in between.
ArchivalIsEarned ==
    [][~Fault("onramp") =>
       \A x \in Documents :
          doc[x].status = "blob_pending" /\ doc'[x].status = "blob_archival_failed" =>
             doc[x].attempts + 1 = MaxAttempts]_vars

\* An active document stays neither in blob_uploading nor in blob_pending while
\* the processes run and the database answers, through failed puts, lost claims
\* and deletes of its artifact.
RowsSettle ==
    \A x \in Documents : \A s \in {"blob_uploading", "blob_pending"} :
       Active(x) /\ doc[x].status = s ~> ~Active(x) \/ doc[x].status # s
=============================================================================
