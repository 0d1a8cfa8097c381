------------------------- MODULE StorageReconciler -------------------------
(***************************************************************************)
(* raw-storage-reconciler.ts: a scheduler per process runs a batch at a    *)
(* time. A run claims pending rows, probes each at the provider, and       *)
(* promotes it, fails it or leaves it for a later run. A reconciler stands *)
(* for its current run's claim id: a run that is over never compares its   *)
(* claim again.                                                            *)
(***************************************************************************)
EXTENDS RawDocuments

VARIABLE rec   \* the reconcilers

RecType == [pc : {"idle", "probe", "promote", "archival", "stillPending", "crashed"},
            row : Documents \cup {None}, todo : SUBSET Keys,
            attempts : [Documents -> Nat]]

RecIdle == [pc |-> "idle", row |-> None, todo |-> {},
            attempts |-> [x \in Documents |-> 0]]

RecInit == rec = [r \in Reconcilers |-> RecIdle]

Running(r) == rec[r].pc \notin {"idle", "crashed"}

\* The rows a live run still has to write.
Working(r) == {k[1] : k \in rec[r].todo}

\* A claim is stale when staleAfterMs have gone by. A run that is over or dead
\* lets them go by; "staleClaim" says that a slow one may too.
StaleClaim(x) ==
    \/ doc[x].claim = None
    \/ "staleClaim" \in Races
    \/ \A r \in Reconcilers : doc[x].claim = r => x \notin Working(r)

Claimable(x) ==
    /\ Active(x)
    /\ doc[x].status = "blob_pending"
    /\ doc[x].uri # None
    /\ StaleClaim(x)

\* claimReconcileBatch: some of the claimable rows whose next check has come,
\* those locked by another transaction skipped.
ClaimBatch(r, batch) ==
    /\ Eventual
    /\ rec[r].pc = "idle"
    /\ batch # {}
    /\ \A x \in batch : Claimable(x)
    /\ doc' = [x \in Documents |-> IF x \in batch THEN [doc[x] EXCEPT !.claim = r] ELSE doc[x]]
    /\ rec' = [rec EXCEPT ![r] =
                 [@ EXCEPT !.pc = "probe",
                           !.todo = {<<x, doc[x].uri>> : x \in batch},
                           !.attempts = [x \in Documents |->
                                           IF x \in batch THEN doc[x].attempts ELSE 0]]]
    /\ UNCHANGED <<art, objects, lock>>

\* nextAttempts >= maxAttempts, from the attempts the claim returned.
Exhausted(r, x) == rec[r].attempts[x] + 1 >= MaxAttempts

RecPlan(r, x, pc) == rec' = [rec EXCEPT ![r] = [@ EXCEPT !.pc = pc, !.row = x]]

\* probeHead and processOneRow. Only an object that exists is retrievable; a
\* reported failure is final at once; anything else counts an attempt.
Probe(r, k) ==
    LET x == k[1] IN
    /\ rec[r].pc = "probe"
    /\ k \in rec[r].todo
    /\ \/ k \in objects /\ RecPlan(r, x, "promote")
       \/ Fault("onramp") /\ RecPlan(r, x, "archival")
       \/ RecPlan(r, x, IF Exhausted(r, x) THEN "archival" ELSE "stillPending")
    /\ UNCHANGED rows

\* Mutant: the UPDATE compares the status and not the claim.
RecHoldsAnyClaim(r, x) == doc[x].status = "blob_pending"

RecHolds(r, x) == doc[x].status = "blob_pending" /\ doc[x].claim = r

NextRow(r, x) ==
    LET rest == {k \in rec[r].todo : k[1] # x}
    IN  rec' = [rec EXCEPT ![r] = IF rest = {} THEN RecIdle
                                  ELSE [@ EXCEPT !.pc = "probe", !.row = None, !.todo = rest]]

\* Mutant: a check that found nothing is not counted.
UncountedAttempt(row) == [row EXCEPT !.claim = None]

\* markStillPending.
CountedAttempt(row) == [row EXCEPT !.claim = None, !.attempts = row.attempts + 1]

\* The promote, archival and still-pending UPDATEs, each guarded by status,
\* provider and claim and not by deleted_at. A throw ends the whole run.
RecWrite(r) ==
    LET x == rec[r].row
        row == doc[x]
    IN
    /\ rec[r].pc \in {"promote", "archival", "stillPending"}
    /\ \/ /\ RecHolds(r, x)
          /\ \/ /\ rec[r].pc = "promote"
                /\ SetBoth(x, [row EXCEPT !.status = "blob_available", !.claim = None,
                                          !.attempts = 0, !.hint = FALSE])
             \/ /\ rec[r].pc = "archival"
                /\ SetBoth(x, [row EXCEPT !.status = "blob_archival_failed", !.claim = None,
                                          !.attempts = 0, !.hint = FALSE])
             \/ /\ rec[r].pc = "stillPending"
                /\ doc' = [doc EXCEPT ![x] = CountedAttempt(row)]
                /\ UNCHANGED art
          /\ NextRow(r, x)
       \/ ~RecHolds(r, x) /\ NextRow(r, x) /\ UNCHANGED <<doc, art>>
       \/ Fault("db") /\ rec' = [rec EXCEPT ![r] = RecIdle] /\ UNCHANGED <<doc, art>>
    /\ UNCHANGED <<objects, lock>>

CrashReconciler(r) ==
    /\ Fault("crash")
    /\ Running(r)
    /\ rec' = [rec EXCEPT ![r] = [RecIdle EXCEPT !.pc = "crashed"]]
    /\ UNCHANGED rows

RecStep(r) ==
    \/ \E batch \in SUBSET Documents : ClaimBatch(r, batch)
    \/ \E k \in Keys : Probe(r, k)
    \/ RecWrite(r)

RecTypeOK == rec \in [Reconcilers -> RecType]
=============================================================================
