---------------------------- MODULE RawDocuments ----------------------------
(***************************************************************************)
(* The tables and the objects that the document handlers of packages/core  *)
(* share: `raw_documents`, the `storage_artifacts` rows they link, the     *)
(* objects at the raw-content store, and the advisory lock per document.   *)
(* The handlers are the modules DocumentUpload, DocumentRemoval,           *)
(* ArtifactRemoval and StorageReconciler; this one has the statements they *)
(* run.                                                                    *)
(*                                                                         *)
(* An object's key is made of the document id and the content hash         *)
(* (blobKey), so equal bytes of one document have one key and a storage    *)
(* uri is modelled by its hash. An artifact is named by what created it:   *)
(* the document (its pointer artifact) or the upload (a managed one).      *)
(***************************************************************************)
EXTENDS FiniteSets, Naturals

CONSTANTS
    Documents, Uploads, Removals, Deletes, Reconcilers,
    Hashes,        \* content hashes of the bytes callers upload
    None,
    MaxAttempts,   \* reconciliation attempts before archival failure
    Settings       \* what a behaviour may be, see RawAssumption

\* documents, hashes, removals: bounds on the ids, the bytes and the requests.
\* eventual: the provider confirms later (filecoin), or at once.
\* faults: what may go wrong. races: which handlers may be at one document together.
\* wipe: whether the user may be wiped, which is modelled for requests in turn only.
ASSUME RawAssumption ==
    /\ MaxAttempts \in Nat \ {0}
    /\ Settings \subseteq [documents : SUBSET Documents, hashes : SUBSET Hashes,
                           removals : Nat, wipe : BOOLEAN, eventual : BOOLEAN,
                           faults : SUBSET {"db", "backend", "onramp", "crash"},
                           races : SUBSET {"upload", "removal", "staleClaim"}]
    /\ \A s \in Settings : s.wipe => s.races = {}

\* Claims and locks tell handlers apart by name, and artifacts are named by what
\* created them.
ASSUME NamesAssumption ==
    /\ None \notin Uploads \cup Documents \cup Hashes \cup Reconcilers
    /\ Uploads \cap (Removals \cup Reconcilers \cup Documents) = {}

VARIABLES
    setting,  \* chosen in Init
    doc,      \* raw_documents, by id
    art,      \* storage_artifacts, by id
    objects,  \* the <<document, hash>> keys that have bytes
    lock      \* pg_advisory_xact_lock(hashtext(document id))

rows == <<doc, art, objects, lock>>

Artifacts == Documents \cup Uploads
Handlers  == Uploads \cup Removals \cup Reconcilers
Fault(f)  == f \in setting.faults
Eventual  == setting.eventual
Races     == setting.races
Keys      == Documents \X Hashes

RawStatuses == {"pointer_recorded", "blob_uploading", "blob_stored", "blob_pending",
                "blob_available", "blob_archival_failed", "raw_storage_failed",
                "blob_deleted"}

DocType == [state : {"absent", "active", "deleted", "wiped"},
            mode : {"pointer_only", "managed_blob"},
            status : RawStatuses,
            hash : Hashes \cup {None},
            uri : Hashes \cup {None},
            storedStatus : {"stored", "pending", None},
            claim : Handlers \cup {None},
            attempts : Nat,
            link : Artifacts \cup {None},
            hint : BOOLEAN]    \* last_error carries internal_recovery_hint

NoDoc == [state |-> "absent", mode |-> "pointer_only", status |-> "pointer_recorded",
          hash |-> None, uri |-> None, storedStatus |-> None, claim |-> None,
          attempts |-> 0, link |-> None, hint |-> FALSE]

ArtStatuses == {"absent", "stored", "pending", "available", "failed", "deleting",
                "deleted", "delete_failed"}

\* `tomb` is deleted_at IS NOT NULL; `uri` is the key of a managed artifact's
\* object, and None for a pointer artifact, whose bytes are not ours.
ArtType == [status : ArtStatuses, tomb : BOOLEAN, uri : Keys \cup {None},
            attempt : Deletes \cup {None}]

NoArt == [status |-> "absent", tomb |-> FALSE, uri |-> None, attempt |-> None]

RowsInit ==
    /\ doc = [x \in Documents |-> NoDoc]
    /\ art = [a \in Artifacts |-> NoArt]
    /\ objects = {}
    /\ lock = [x \in Documents |-> None]

RowsTypeOK ==
    /\ doc \in [Documents -> DocType]
    /\ art \in [Artifacts -> ArtType]
    /\ objects \subseteq Keys
    /\ lock \in [Documents -> Handlers \cup {None}]

-----------------------------------------------------------------------------
Active(x) == doc[x].state = "active"

\* registerRawDocument: with an external_uri the document gets a pointer
\* artifact, without one it gets none. Its content_hash is what the caller says.
Register(x) ==
    /\ doc[x].state = "absent" /\ x \in setting.documents
    /\ \E h \in setting.hashes \cup {None} :
          \/ /\ doc' = [doc EXCEPT ![x] = [NoDoc EXCEPT !.state = "active", !.hash = h,
                                                        !.link = x]]
             /\ art' = [art EXCEPT ![x] = [NoArt EXCEPT !.status = "stored"]]
          \/ /\ doc' = [doc EXCEPT ![x] = [NoDoc EXCEPT !.state = "active", !.hash = h]]
             /\ UNCHANGED art
    /\ UNCHANGED <<objects, lock>>

\* STATUS_MAP of raw-doc-artifact-sync.ts.
ArtifactStatus(raw) ==
    CASE raw \in {"pointer_recorded", "blob_stored"}            -> "stored"
      [] raw \in {"blob_pending", "blob_uploading"}             -> "pending"
      [] raw = "blob_available"                                 -> "available"
      [] raw \in {"blob_archival_failed", "raw_storage_failed"} -> "failed"
      [] raw = "blob_deleted"                                   -> "deleted"

\* applyArtifactTransition: the UPDATE names the artifact and nothing else. A
\* delete clears the claim and stamps deleted_at; the others leave both alone.
Transition(a, status) ==
    [art EXCEPT ![a] = IF status = "deleted"
                       THEN [@ EXCEPT !.status = status, !.tomb = TRUE, !.attempt = None]
                       ELSE [@ EXCEPT !.status = status]]

\* Mutant: the document's row alone.
SetDocumentOnly(x, newRow) ==
    /\ doc' = [doc EXCEPT ![x] = newRow]
    /\ UNCHANGED art

\* The paired transaction: the document's row and its linked artifact together.
SetBoth(x, newRow) ==
    /\ doc' = [doc EXCEPT ![x] = newRow]
    /\ art' = IF newRow.link = None THEN art
              ELSE Transition(newRow.link, ArtifactStatus(newRow.status))

\* Mutant: a delete in flight does not protect the artifact.
DeleteStartedLate == {"deleted", "delete_failed"}

\* Statuses of a delete that has begun: nobody else may link or remove these.
DeleteStarted == {"deleting", "deleted", "delete_failed"}
=============================================================================
