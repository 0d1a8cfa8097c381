-------------------------- MODULE ArtifactRemoval --------------------------
(***************************************************************************)
(* StorageService.deleteArtifact on the artifacts of documents: the claim  *)
(* protocol of StorageArtifacts, at rows that an upload, a reconciler or a *)
(* document removal writes too. Faults of the delete itself are the        *)
(* subject of StorageArtifacts; here only the backend may fail.            *)
(***************************************************************************)
EXTENDS RawDocuments

VARIABLE del   \* the delete handlers

DelSteps == {"claim", "count", "cascade", "release", "backend", "finalizeSuccess",
             "finalizeFailure"}
DelEnds  == {"none", "deleted", "delete_failed", "refused", "notFound", "error"}

DelType == [pc : DelSteps \cup DelEnds, art : Artifacts \cup {None},
            withDocuments : BOOLEAN, status : ArtStatuses, uri : Keys \cup {None},
            todo : SUBSET Documents, cascaded : SUBSET Documents]

NoDelete == [pc |-> "none", art |-> None, withDocuments |-> FALSE, status |-> "absent",
             uri |-> None, todo |-> {}, cascaded |-> {}]

DelInit == del = [d \in Deletes |-> NoDelete]

DelGoto(d, pc) == del' = [del EXCEPT ![d] = [@ EXCEPT !.pc = pc]]

\* The first SELECT of deleteArtifact, and what it remembers of the row.
ReadInitial(d, a, policy) ==
    /\ del[d].pc = "none"
    /\ art[a].status # "absent"
    /\ del' = [del EXCEPT ![d] =
                 [NoDelete EXCEPT !.pc = IF art[a].status = "deleted" THEN "deleted" ELSE "claim",
                                  !.art = a, !.withDocuments = policy,
                                  !.status = art[a].status, !.uri = art[a].uri]]
    /\ UNCHANGED rows

\* What a caller is told whose claim is refused; a wipe may have dropped the row.
Refusal(status) ==
    CASE status = "deleted" -> "deleted" [] status = "absent" -> "notFound" [] OTHER -> "refused"

\* claimDeleteAttempt, and the answer of a caller it refuses.
ClaimDelete(d) ==
    LET a == del[d].art
        claimable == ~art[a].tomb /\ art[a].status \notin {"absent", "deleting", "deleted"}
    IN
    /\ del[d].pc = "claim"
    /\ \/ /\ claimable
          /\ art' = [art EXCEPT ![a] = [@ EXCEPT !.status = "deleting", !.attempt = d]]
          /\ DelGoto(d, "count")
       \/ ~claimable /\ DelGoto(d, Refusal(art[a].status)) /\ UNCHANGED art
    /\ UNCHANGED <<doc, objects, lock>>

\* Mutant: the deleted_at filter of the count is inverted.
ReferencesDeleted(a) == {x \in Documents : doc[x].state = "deleted" /\ doc[x].link = a}

\* countReferencingDocuments and listReferencingDocumentIds.
References(a) == {x \in Documents : Active(x) /\ doc[x].link = a}

\* maybeCascadeDocuments: the reference gate.
CountReferences(d) ==
    LET refs == References(del[d].art) IN
    /\ del[d].pc = "count"
    /\ \/ refs = {} /\ DelGoto(d, "backend")
       \/ refs # {} /\ ~del[d].withDocuments /\ DelGoto(d, "release")
       \/ /\ refs # {} /\ del[d].withDocuments
          /\ del' = [del EXCEPT ![d] = [@ EXCEPT !.pc = "cascade", !.todo = refs]]
    /\ UNCHANGED rows

\* softDeleteDocumentCascade, for a document on the list.
Cascade(d, x) ==
    LET a == doc[x].link
        hasBlob == doc[x].mode = "managed_blob" /\ doc[x].uri # None
        rest == del[d].todo \ {x}
    IN
    /\ del[d].pc = "cascade"
    /\ x \in del[d].todo
    /\ lock[x] = None
    /\ doc' = IF Active(x) THEN [doc EXCEPT ![x] = [@ EXCEPT !.state = "deleted"]] ELSE doc
    /\ art' = IF Active(x) /\ ~hasBlob /\ art[a].status \notin DeleteStarted
              THEN Transition(a, "deleted") ELSE art
    /\ del' = [del EXCEPT ![d] =
                 [@ EXCEPT !.pc = IF rest = {} THEN "backend" ELSE "cascade",
                           !.todo = rest,
                           !.cascaded = IF Active(x) THEN del[d].cascaded \cup {x}
                                        ELSE del[d].cascaded]]
    /\ UNCHANGED <<objects, lock>>

DeleteCas(d) ==
    LET a == del[d].art IN art[a].status = "deleting" /\ art[a].attempt = d

\* releaseDeleteClaim: back to the status of the first SELECT.
ReleaseClaim(d) ==
    LET a == del[d].art IN
    /\ del[d].pc = "release"
    /\ \/ /\ DeleteCas(d)
          /\ art' = [art EXCEPT ![a] = [@ EXCEPT !.status = del[d].status, !.attempt = None]]
       \/ ~DeleteCas(d) /\ UNCHANGED art
    /\ DelGoto(d, "refused")
    /\ UNCHANGED <<doc, objects, lock>>

\* executeBackendDelete: the uri it removes is the snapshot's.
DeleteObject(d) ==
    /\ del[d].pc = "backend"
    /\ \/ /\ objects' = objects \ {del[d].uri}
          /\ DelGoto(d, "finalizeSuccess")
       \/ /\ del[d].uri # None /\ Fault("backend")
          /\ DelGoto(d, "finalizeFailure") /\ UNCHANGED objects
    /\ UNCHANGED <<doc, art, lock>>

\* assertCascadedRowCount: the outcome is committed for all cascaded rows or not at all.
CascadedRemain(d) == \A x \in del[d].cascaded : doc[x].state = "deleted"

\* finalizeArtifactDeleteSuccessTx and finalizeArtifactDeleteFailureTx.
FinalizeDelete(d) ==
    LET a == del[d].art
        ok == del[d].pc = "finalizeSuccess"
        raw == IF ok THEN "blob_deleted" ELSE "raw_storage_failed"
    IN
    /\ del[d].pc \in {"finalizeSuccess", "finalizeFailure"}
    /\ \/ /\ DeleteCas(d) /\ CascadedRemain(d)
          /\ art' = IF ok THEN Transition(a, "deleted")
                    ELSE [art EXCEPT ![a] = [@ EXCEPT !.status = "delete_failed",
                                                      !.attempt = None]]
          /\ doc' = [x \in Documents |-> IF x \in del[d].cascaded
                                         THEN [doc[x] EXCEPT !.status = raw,
                                                             !.hint = ok /\ doc[x].hint]
                                         ELSE doc[x]]
          /\ DelGoto(d, IF ok THEN "deleted" ELSE "delete_failed")
       \/ ~(DeleteCas(d) /\ CascadedRemain(d)) /\ DelGoto(d, "error") /\ UNCHANGED <<doc, art>>
    /\ UNCHANGED <<objects, lock>>

DelStep(d) ==
    \/ ClaimDelete(d)
    \/ CountReferences(d)
    \/ \E x \in Documents : Cascade(d, x)
    \/ ReleaseClaim(d)
    \/ DeleteObject(d)
    \/ FinalizeDelete(d)

DelTypeOK == del \in [Deletes -> DelType]
=============================================================================
