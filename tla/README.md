# A TLA+ model of atomicmemory

AtomicMemory stores what a user's conversations and documents say and gives it
back to agents. This directory models the parts of it whose correctness depends
on the order of concurrent steps: the storage of documents and artifacts, the
document index, the claim ledger behind the memories, the background work on
memories, trace events and reflections in `packages/core`, and the replicated
key-value cache of the SDK. Every definition is translated from the source; the map
in `PROJECT.json` names the lines. Paths below are relative to `packages/core/src/`
unless they begin with a package or crate.

## Inventory

### What runs beside what

The core is an Express server on one Node.js event loop, over PostgreSQL and one
or more object stores. A request handler gives way to the others at every
`await`. Handlers of one process, handlers of several processes on the same
database, and the interval schedulers meet in the rows. What keeps them apart is

- compare-and-set UPDATEs with an attempt id (`put_attempt_id`,
  `delete_attempt_id`, `upload_attempt_id`, the reconciler's claim id),
- per-document advisory locks, held for a transaction,
- `FOR UPDATE SKIP LOCKED` batches, whose claims go stale after a while,
- and, in the claim ledger, nothing.

`db/pool.ts:14-28` gives the default pool one connection, so the transactions of
one process do not overlap, only its statements and its calls to object stores and
models do. Transactions overlap between processes, or in a process that is given a
larger pool (`app/runtime-container.ts:276-287`). The models let statements
and transactions of different handlers interleave freely; in `DocumentIndexing`,
where a transaction is held across an await, the constant `Connections` bounds them.

### Components

| Component | State | Operations | Works with | Hard behaviour | Correct when |
| --- | --- | --- | --- | --- | --- |
| Managed storage artifacts (`services/storage-service.ts`, `storage-put-recovery.ts`, `db/storage-artifact-*.ts`) | `storage_artifacts`, objects | put, pointer put, delete with or without cascade, recovery | object stores, documents that link an artifact | bytes and row change in different systems; COMMIT answers get lost; two deletes of one row | claims are exclusive, stored rows have bytes, tombstones are final and leave none |
| Raw document rows (`db/raw-document-*.ts`, `raw-doc-artifact-sync.ts`) | `raw_documents`, the linked artifact | register, paired status transitions | every handler below | two rows that must say the same | document and artifact agree |
| Document upload (`services/document-upload*.ts`, `upload-*.ts`) | `raw_storage_status`, uri, hash, attempt id | alpha (claim), beta (put), beta2 (record, swap the artifact), gamma (publish), compensation | store, artifacts, reconciler | idempotent retries, lost claims, crash between phases | an occupied slot keeps its bytes, uri and hash agree, answers are true |
| Document removal and source reset (`services/document-service.ts`, `storage/cleanup.ts`, `db/repository-document-delete.ts`) | `deleted_at`, objects, failure markers | delete, retry of a delete, reset of a source | store, uploads, index | partial failure of a cleanup, crash after the commit | what is left can be found, success means nothing is left |
| Raw storage reconciler (`services/raw-storage-reconciler*.ts`) | claim, attempts of `blob_pending` rows | claim a batch, probe, promote, count, give up | eventual stores, uploads, removals | stale claims, late outcomes | no row is given up early, none waits for ever |
| Document indexer and failure markers (`services/document-indexer.ts`, `document-failure-markers.ts`) | extraction and index status, `indexed_content_hash`, chunks, derived memories | index, two failure reports | embedding service, removal, reset, upload | a transaction across an await, markers after its lock is gone, deadlocks | search sees one whole text or none |
| Fact ingestion and claim lineage (`services/ingest-fact-pipeline.ts`, `memory-audn.ts`, `audn-decision-executor.ts`, `memory-lineage.ts`, `db/repository-claims.ts`) | `memories`, `memory_claims`, `memory_claim_versions` | ADD, UPDATE, DELETE, NOOP, SUPERSEDE, CLARIFY, a user's delete, archival | language model, search | up to nine statements per fact and no transaction around them | ledger and memories agree, history stays connected |
| Deferred AUDN and consolidation (`services/deferred-audn.ts`, `services/consolidation-service.ts`, `db/repository-deferred-audn.ts`) | `deferred_audn` flags and candidates of memories | scheduled and requested passes, decisions; cluster, summarise, archive | memories, language model, user deletes | a batch decided concurrently from old reads, several statements per decision, a crash between them, targets the model makes up | no fact is lost or comes back, every deferred memory is decided |
| Cloud trace outbox (`db/cloud-trace-outbox-repository.ts`, `services/cloud-trace-sync.ts`) | outbox rows, a runtime per process | enqueue, claim, send, retry, dead letter, drain, purge | the cloud API, the shutdown | stale claims, late retries, stops between two rows | every event is sent at least once or given up, and what is recorded stands |
| Reflect jobs (`services/reflect-jobs.ts`, `db/reflection-jobs-repository.ts`, `routes/reflect.ts`) | job rows | enqueue, work, flush | ingest, language model, the shutdown | fetch and mark in two statements, cut-off workers | no job is lost |
| Process lifecycle (`server.ts`) | up, stopping or down | start, SIGTERM, drain, exit, crash | the loops above | a stop at any step | an orderly stop leaves no claim |
| Observation profiles | dirty marks | mark, regenerate | | never scheduled | |
| User wipe (`db/repository-wipe.ts`) | every table | delete all | store | no transaction around it | it drops no document whose object is left |
| Migrations (`db/migration*.ts`) | schema | migrate under an advisory lock | replicas that boot | the lock's timeout | one migrator |
| Ingest orchestration, search and ranking, entities, routes, object stores, Filecoin | none of their own that others depend on | | | | |
| SDK key-value cache (`packages/sdk/src/kv-cache`) | replicas, health | get, set, delete, keys and batch with a write quorum; retries, timeouts, aborts; health checks, circuit breaker | storage adapters | operations that time out and land late, replicas left behind | a success was taken by its quorum, a read returns nothing that was replaced everywhere |
| SDK clients, MCP server, CLIs, llmwiki, adapters, plugins, scripts | sessions, files | | the HTTP API | | |

`PROJECT.json` lists each with its status, and the hazards of the code by line.

## Plan

1. Done: `StorageArtifacts` with its abstract specification; the document pipeline
   over it, the user wipe included; `DocumentIndexing`; `FactLineage`;
   `MemoryMaintenance`; the background loops composed in `CoreProcess`;
   `ReplicatedCache`; eight modules of proofs.
2. Next: uploads on a pointer-only deployment and a wipe beside other writers in the
   pipeline; deferred decisions at the claim ledger, which they bypass; observation
   profiles, once something schedules them.
3. Abstract specifications worth stating next: a document slot (empty, held by one
   claim, holding the bytes of one hash, gone) for the upload handlers to
   implement, and a ledger (a sequence of versions, its last one visible) for
   `FactLineage` one handler at a time.
4. Theorems worth proving next: every safety property that a run checks is stated by
   one; what is left are the abstract specifications of item 3, step by step.

## Modules

| Module | What it is |
| --- | --- |
| `ArtifactClaims` | abstract: who holds the claims of an artifact |
| `StorageArtifacts` | put and delete of artifacts, one step per awaited call |
| `StorageArtifactsProofs` | theorems about its claims, and that it implements `ArtifactClaims` |
| `ArtifactBytesProofs` | theorems about rows and their objects |
| `RawDocuments` | rows, artifacts and objects of documents; the actions that write document and artifact together |
| `DocumentUpload`, `DocumentRemoval`, `ArtifactRemoval`, `StorageReconciler` | one kind of handler each, over `RawDocuments` |
| `DocumentPipeline` | the five together, and their properties |
| `DocumentPipelineProofs` | theorems about the slot of a document and its link to an artifact |
| `DocumentIndexing` | the extraction and index layer of one document |
| `DocumentIndexingProofs` | its theorems |
| `FactLineage` | facts, memories and the claim ledger |
| `FactLineageProofs` | its theorems |
| `MemoryMaintenance` | deferred reconciliation and consolidation beside ingest and deletes |
| `MemoryMaintenanceProofs` | its theorems |
| `CloudTraceOutbox`, `ReflectQueue` | the two queues and their consumers |
| `CoreProcess` | processes that start, stop and crash around the two queues |
| `CoreProcessProofs` | theorems about the two queues |
| `ReplicatedCache` | the SDK's cache over several adapters |
| `ReplicatedCacheProofs` | theorems about its quorum and its reads |
| `MC*` | small instances for TLC: symmetry, settings, deployments |

Shared conventions. A handler is a record with a `pc`, its local variables and
the values it has read; the `pc` names the call it does next. A statement, or a
transaction that awaits nothing but the database, is one step. `None` is SQL NULL.
A module whose questions need different bounds chooses a `setting` (in `CoreProcess` a
`deployment`) in `Init` from a set of records, so that one run answers them all and
a theorem about the module holds of every one. Its field `faults`, or in
`StorageArtifacts` the constant `Faults`, names what may go wrong ("db": a statement throws and has no
effect; "commit": it took effect and its client sees a throw; "backend": the object
store throws; "onramp": the provider reports that it could not archive; "crash":
the process of a handler stops between two steps). Definitions whose comment says
"mutant" are plausible bugs next to the definition they vary; no action uses them.

### StorageArtifacts

`row` is `storage_artifacts`, `bytes` the objects, `put` and `del` the handlers,
`doc` documents that link an artifact. The put handler goes through `ClaimPending`,
`BackendPut`, `RecordUploaded` and, where one of them throws, through
`ReconcileAlreadyFinalized`, `CleanupUpload` and `MarkRecovered`, the branches of
`storage-put-recovery.ts`. The delete handler goes `ReadInitial` (the snapshot
used later), `ClaimDeleteAttempt`, `CountReferences`, `CascadeDocument`,
`BackendDelete`, `Finalize...`, with `RereadRefused` and `ReleaseDeleteClaim` aside.
`EarlyDelete` says whether a DELETE may name an artifact whose upload is under way.
`ArtifactClaims` hides rows and bytes and keeps who holds which claim; the
mapping at the end of `StorageArtifacts` maps the columns to it.

### RawDocuments and the pipeline

`doc`, `art`, `objects` and `lock` (the advisory lock) are shared. `SetBoth` is the
paired transaction of document and artifact. An upload's transaction is one
step; `alpha` is two, because it reads the row and claims it in one transaction
that the lock, and not the row, protects. An object's key is document and content
hash (`upload-helpers.ts:110-134`), so two uploads of the same bytes share an
object. `Swapped` is what beta2 does to the prior and the new artifact. A removal
lists, soft-deletes, cleans and marks; a retry of a removal finds its objects by
the marker. A wipe (kind "user") lists the objects of active documents, cleans
them, and drops both tables only when no object failed; its documents become
"wiped" and may not be registered again. A reconciler is identified with the claim
id of its current run. `races` says which handlers may be at one document together,
and "staleClaim" whether a claim may be taken over while its holder works; a wipe
is modelled where `races` is empty, because it takes no lock at all.

### DocumentIndexing

One document. `row` is its extraction and index layer; `chunks` and `memories` are
the calls whose generation is active. The statements of an index call are steps,
but what they write is seen only at `CommitIndex`: 'running' is therefore a row
lock and no status. The advisory lock is `Locked`, the row lock `Claimed`. A
source reset takes no advisory lock, so its statements are steps with snapshots of
their own, and `ResetWaits`, `IndexWaits` and `BreakDeadlock` are PostgreSQL's row
locks. `MarkFailed` runs after the ROLLBACK, when other calls may have come and gone.

### FactLineage

A fact's handler is one step per awaited statement from candidate search to the
claim's pointer; it names the memory and the claim it may create, and its versions
are `<<f, "first">>` (a new claim's, or a backfill's) and `<<f, "next">>`. What a
memory or a version says is the fact that wrote it. The language model's decision
is a free choice of plan and of any active target, which covers every decision it can
make. `setting.inFlight` bounds the handlers under way together; `setting.crashes`
lets a handler be cut off after any step, which is also what a statement that throws
does.

### MemoryMaintenance

A row of `memories` is abstracted to the set of facts its content says. A deferred
row is stored and marked in two statements. A pass of the scheduler or of a route
takes the oldest `BatchSize` flagged rows with their content and their candidates, and
runs them in chunks of `setting.concurrency`; the task of a memory refreshes its
candidates (`Refresh`: one read each in the code, one step here), asks the model and
applies its answer in one or two statements (`DecideUpdate` then `EraseMerged`), then
clears the flag. NOOP is an answer only where a candidate says
what the memory says: a model that drops a fact is wrong and not the code. The target
of an UPDATE or a SUPERSEDE is any row, live or not, or no row at all (`NoRow`), because
the code compares it with nothing; `strays` counts the answers whose target was no
candidate the task has read, and `setting.strays` bounds them. A
consolidation scans, writes a summary from the scanned text and archives the members
one by one. `alone` runs one actor at a time: what holds then, and what fails when
actors overlap, is the difference between the run and the finding `deferred_chunks`.
A call to the model may fail once (`setting.failures`) or, for the memories in
`faulty`, always.
A process stops (awaiting the scheduler's pass), crashes and restarts.

### CloudTraceOutbox, ReflectQueue, CoreProcess

The outbox row has the columns of its migration; time is the two flags `due` and
`stale`, which become true by themselves. The uploader of each process is at one call
of its tick: heartbeat, claim, the post of one event, the statement that records its
answer; `draining` is the shutdown. An empty claim ends the
drain; that of a tick still under way at SIGTERM goes on to it. `posts` and `takenOver` are history.
A reflect actor is the worker or a flush request, at one statement of
`processOnePendingJob`; a statement that throws may have been carried out all the same
(`StatementThrows`), and a mark that was leaves its job in progress without an actor. `CoreProcess` boots both, stops the uploader at SIGTERM and
nothing else, as `server.ts` does, and loses the local state of both when a process
ends. The two queues share no table, so a deployment has one or the other; reflect
runs in a single process, as its documentation asks.

### ReplicatedCache

One key and `NumAdapters` adapters. A value is the number of the call that writes it.
A call is at each adapter in a stage (queued, flying, waiting for its retry, ended);
an attempt that fails had its effect, has none, or will have it later (`late`): the
timeout of the retry engine does not stop the operation it gives up on. `health` is
the record of the tracker and the breaker. `history` holds what earlier calls have
promised.

## Runs

All pass with the deadlock check off: every system here may come to rest when its
requests are used up.

| Run | Instance | What it shows |
| --- | --- | --- |
| `artifact_races` | 2 artifacts, 2 deletes, 1 document, all faults but "commit", early deletes | claims exclusive, every object accounted for (stored rows have bytes, failed rows are clean or marked, orphans come from blind deletes only), put answers true, `ArtifactClaims` implemented |
| `artifact_serial` | the same without document, early deletes, "db" and "crash", with "commit", fair | no tombstone has bytes, a refusal has a live holder, uploads and deletes settle |
| `pipeline_races` | either 2 documents, 1 hash, 2 removals or wipes, a failing store, requests one at a time; or 1 document, 2 hashes, 1 removal, an eventual store, all races, crashes and stale claims; 2 uploads and 2 reconcilers | rows agree (uri and hash, document and artifact, no stranded artifact), an occupied slot is kept, archival is earned; for requests in turn at a provider that confirms at once: answers of uploads, deletes and wipes are true and no bytes are lost |
| `pipeline_settles` | 1 document, 2 uploads, 1 artifact delete, 1 reconciler, provider faults, fair | no slot stays uploading, no document stays pending, an active document links no tombstone |
| `same_bytes_race` | 2 uploads of the same bytes | finding, below |
| `indexing` | 2 index calls, 2 texts, 1 reset, 3 transactions, fair | one whole text or nothing, envelopes, true skips, deletes forget, calls end |
| `retry_skipped` | 3 index calls, 2 texts, no reset | finding, below |
| `lineage` | 1 seeded memory and 1 delete with 3 facts in turn, or 2 facts overlapping and cut off | in turn: ledger and memories agree and what is deleted is forgotten; always: no cycles, facts are kept |
| `maintenance` | a scheduler and a route, batches of 2, and one of four settings. In turn, with a stop or crash: 3 rows with a user's delete and a consolidation; 3 rows with a user's delete and an answer that names no candidate. Overlapping, with a stop or crash: 2 rows, 2 tasks at once, a memory the model never answers for. In turn: 4 rows, of which 3 are deferred and 1 is such a memory | no fact is lost while candidates are named, none comes back (in turn); every deferred memory is decided (always) |
| `deferred_chunks` | 3 rows, chunks of 2 | finding, below |
| `core_loops` | 2 processes and 1 event; 1 process and 2 events; or 2 jobs, the worker, a flush and a throwing statement; one stop or crash | an orderly stop leaves no claim, no job is lost, recorded outcomes stand and are earned, both queues come to their end |
| `cache` | 2 adapters, quorum 1 or 2: 3 calls in turn with 1 fault, 2 in turn with 2, 2 at once with 1, 3 at once with none | acknowledged writes are on their quorum, reads are current, calls end and adapters return |

Why the bounds are enough. The conflicts modelled are between two handlers at one
row: two attempts at a claim are needed for a loser, and a third party (a crash, a
document delete, a reconciler) to disturb it. Two artifacts tell apart an action at
the wrong row. Two hashes tell equal from different bytes, and the setting with one
hash is about sharing a key. Two attempts (`MaxAttempts`) distinguish the first from
the last. Three facts make a chain with a middle. With two index calls one can be the
past generation and one the present; a third, which was checked for the safety
properties too, found nothing more. In `maintenance` a third row is a
memory that is a candidate of one row and has a candidate of its own. The first row is
never deferred, since it has nothing to conflict with. Four rows (of one fact, which is
enough for liveness) are therefore three deferred ones: one that always fails, which may
be the oldest, and two more, one of which `LIMIT` cuts off. Facts are alike, and the first
row stored says the first of them (`SomeFacts`). One event and two processes are enough for a take-over, two
events and one process for a batch that is stopped in the middle. Two adapters with a
quorum of one or two are the two ends of the quorum's range, and three calls a write,
another that replaces it and a read. Symmetry is used for safety only.

### Fairness

`FairSpec` assumes weak fairness of each handler that has begun, step by step: Node
drives a promise chain on, and no handler is obliged to begin. It says nothing of
crash actions, and the runs with liveness have no crash faults, or (`indexing`)
crashes that free what they held. `StorageReconciler` is fair because its scheduler
is an interval timer that starts a run whenever none is under way. A store that
fails may fail for ever: settling means an honest failed status. `BreakDeadlock` is
fair because PostgreSQL looks for cycles after `deadlock_timeout`.

In `MemoryMaintenance` the interval of the scheduler gives strong fairness to
`StartPass(Scheduler)` (a pass or a stop may be in the way of a tick, not of every
tick), a pass takes its next step (`PassStep`), and a process that is down is started
again. Fewer memories than `BatchSize`
fail for ever (`SettingsAssumption`): the batch is the oldest rows, so more of them do
starve the rest. In the outbox a heartbeat that can be answered "ok" again and again
is (`SF`): a cloud that is unreachable for ever, or refuses for ever, settles nothing,
and refusals are bounded. Time passes for `due` and `stale`. A reflect actor takes its
next statement, but no request is obliged to come; ends of a process and throwing
statements are bounded. In the cache every attempt ends by its timeout and every delay by
its timer (`CallStep`), and `HealthCheck` is on an interval; faults are bounded.

## Theorems

`StorageArtifactsProofs` is about any number of artifacts, requests and documents,
and any set of faults; it assumes only `ConstantsAssumption` (None is no name, the
faults are known kinds).

- `TypeCorrect`: `Spec => []TypeOK`. One lemma per kind of step, one step per action.
- `ClaimsAreExclusive`: `Spec => []DeleteClaimExclusive`. The property is not
  inductive: a document delete may tombstone a row, a late upload writes one. The
  invariant `ClaimInvariant` adds that a row with a delete claim is `deleting`, and
  that a row `deleting` is touched by none but the CAS of its claim; then every
  write either requires the claim or excludes `deleting`.

- `HandlersImplementClaims`: `Spec => ImplementsClaims`, the refinement. Under
  `ClaimInv` each step of the handlers, of a document and of a crash is one step of
  `ArtifactClaims` or leaves what `Created` and `Holder` map to as it was.

`ArtifactBytesProofs` is about the objects behind the rows, again for any number of
artifacts, requests and documents. Each theorem has the hypothesis under which its
property is meant, the one the runs use; each is satisfied by a deployment.

- `RowsAccountForBytes`: `Spec => []BytesAccountedFor`, and `SuccessHasObject`:
  `Spec => PutSuccessIsTrue`, where "commit" is not in `Faults`. With it the
  recovery of a put reads a row it cannot tell from another's and may clean up an
  object the row keeps. `BytesInv` says for each step of a put which columns it has
  left and whether its object is there, and that the object of a tombstone,
  or one a put may still write for it, is the work of a blind delete.
- `TombstonesAreEmpty`: `Spec => []DeletedHasNoBytes`, under `SerialDeletes`: no DELETE
  during an upload, and no faults but "backend" and "commit". A DELETE that read the
  row before its uri was written is the blind delete the other run allows. The
  invariant `SerialInv` says that no delete has read an artifact whose put is under
  way, and that the snapshot of a delete past its claim has the row's uri.
- `RefusalsAreBacked`: `Spec => RefusalMeansLiveHolder`, under `HoldersRun`: without
  "db" and "crash", either of which leaves a claim nobody finishes, and without
  documents, whose soft delete may tombstone what is then restored. `DeletingHeld` says
  that a row in `deleting` has a request past its claim.

`DocumentPipelineProofs` is about any number of documents, uploads, removals, wipes,
deletes, reconcilers and hashes; it assumes `NamesAssumption` of `RawDocuments` (nothing
is named None, and no upload as a removal, a reconciler or a document, so that a claim, a
lock or a link names one handler or document) and `RawAssumption` (a wipe is modelled
for requests in turn).

- `PipelineTypeCorrect`: `Spec => []TypeOK`. Inductive with `UploadsNamed` and
  `ReconcilersNamed`: a handler that has begun names the document it works at.
- `SlotIsKept`: `Spec => SlotKept`, and `UriIsOfHash`: `Spec => []UriMatchesHash`.
  Both from `SlotInv`: an upload at its claim holds the advisory lock, and what it
  read under it is still true of the row (`SeenUnderLock`); a claim that is still
  held is on a row with the hash of its bytes (`ClaimHasHash`); a row that is not
  there occupies no slot. The claim and beta2 are the only steps that change a hash
  or a uri. Every other step is `Quiet`, also those that do not take the lock:
  it occupies no slot, gives no upload a claim and keeps hash and uri, or the row
  is new or wiped. So neither the reconciler nor the DELETE of an artifact,
  which take no lock, can break the slot.
- `LinkedArtifactAlive`: `Spec => []LinkedArtifactLives`; `NothingStranded`:
  `Spec => []NoStrandedArtifact`; `ArtifactsFollow`: the artifact an active document
  links has the document's status unless a delete was asked for at it. With
  `Deletes = {}`, as in `pipeline_races`, they give `RowsAlwaysAgree`: `Spec => []RowsAgree`.
  All from `LinkInv`. A document links its own pointer artifact or the artifact of one
  of its own uploads (`LinkOwn`), so no two link the same (`LinksApart`); an artifact
  that exists was inserted by what it is named for (`ArtifactsNamed`); a delete past its
  count has no active document left at its artifact (`DeleteOrder`, where the tombstone
  is written); a removal marks only documents it has deleted, and a wipe has the
  documents to itself (`RemovalOrder`). Most steps are `Tame`: no link moves, no artifact
  appears or comes back to life, a tombstone falls only on artifacts without active
  documents, and status and artifact change together. The swap of beta2, the registering
  of a document and the two statements of a wipe are the others, each with a lemma.
  `ArtifactsFollow` needs its exception: see Drift below.
- `ArchivalEarned`: `Spec => ArchivalIsEarned`. Inductive with `EarnedInv`: while a
  reconciler's claim is still on a row, the attempts it read are those recorded there,
  and it goes to the archival write only on the last one. Every step of another handler
  is `Uncounted`: it counts no attempt, or it sets the row back to none and takes the
  claim away, so that the write of a reconciler that read before it fails on its claim.
- `BytesKept`: `Spec => []NoBytesLost`, and `AnswersTrue`: `Spec => AnswersAreTrue`, with
  `Deletes = {}` as in `pipeline_races`. Both from `Serial => Alone`. The requests for a document
  take turns (`Turns`), so that what a handler read, wrote or deleted is still so at its
  next step: an upload past its claim has the slot, past its put the object
  (`UploadAlone`); the keys of a removal are those its rows name, the ones it cleaned
  have no object, and an empty list means that there was none to clean (`KeysAlone`); a
  wipe at its tables has left no active document an object (`WipeAlone`). Between
  requests a document has no object but the one its row names (`ObjectsKnown`); a removed
  one that still has it is marked for a retry, or a removal is about to mark it
  (`RemovedAlone`). The proof has a lemma per action, which shows these of the handler's
  own document (`UploadAt`, `RemovalAt`), and one per kind of handler that carries all
  other documents and handlers over (`UploadElsewhere`, `RemovalElsewhere`). The excuses of
  the properties are in the invariant too and hide no step of an upload or a DELETE: a
  wipe that failed (`WipeFailed`), and the objects a wipe has deleted (`Unrecorded`).
  `Deletes = {}` is needed: the delete of an artifact soft-deletes its documents before
  it deletes the object, which until then is the duty of its own claim (see
  `BytesAccountedFor` of the artifacts) and of no row.

`DocumentIndexingProofs` is about any number of index calls, resets, texts and
connections, under `NamesAssumption` and `ConnectionsAssumption`.

- `IndexTypeCorrect`: `Spec => []TypeOK`.
- `ErrorIsCurrent`: `Spec => []ErrorNamesFailure`. Every write of the row is one of
  the two status helpers, or the two in a row, and each keeps the envelope right.
- `DeletedIsForgotten`: `Spec => []DeleteForgets`. Inductive with `RemovedInv`: no
  call is in its transaction once the document is removed. It rests on the
  DELETE's advisory lock; the reset, which takes none, has no such theorem.
- `WholeGeneration`: `Spec => []IndexedIsWhole`. Inductive with `WholeInv`: a call in
  its transaction holds the text it was sent, and a call whose generation is
  active has begun, so that no later load changes the text the generation is of.
- `SkipIsTrue`: `Spec => SkipHasText`. Inductive with `SkipInv`: one call at a time is
  under the advisory lock, so the hash that sent it to the count is still the row's when
  it skips; that an active document has chunks of that text is `WholeGeneration`.

They rest on `StepCases`, which says what each action does to the row, the
generations and the calls; the proofs then split on five kinds of step.

`CoreProcessProofs` is about any number of processes, events, jobs, flushes and
faults and any set of deployments; it assumes what the modules do
(`OutboxAssumption`, `ReflectAssumption`, `DeploymentAssumption`: where reflect runs
there is one process).

- `JobsKept`: `Spec => []JobsAreKept`. Inductive with `KeptInv` (a job in progress
  has an actor past its mark or is stranded; a job a flush was promised is not
  pending once it answers; a completed job is reflected) and `WorkerRests`: the
  worker holds nothing while no process is up, without which a boot would make it
  forget a job. The outbox steps leave the queue alone.

- `StopIsClean`: `Spec => []StopLeavesNoClaim`, and `OutcomesAreFinal`:
  `Spec => OutcomesStand`. Both from `OutboxInv`: a row claimed by a live uploader is in its batch
  (`ClaimsAreHeld`), and a row in a batch that was never taken over is claimed by the
  uploader of that batch, and by no other (`HeldAlone`). The attempts of a row and the
  uploaders that have posted it and not yet recorded the answer are together at most its
  posts (`AttemptsPosted`), so the last attempt was made before an event is given up.
- `TypeCorrect`: `Spec => []TypeOK`, with the state of the two queues in one proof.

`ReplicatedCacheProofs` is about any number of adapters, clients, calls, attempts and
faults and any set of settings, under `CacheAssumption`.

- `AcknowledgedOnQuorum`: `Spec => []AckedOnQuorum`. Inductive with `OkHolds`: an
  adapter that a running set counts as written has held its value, which is not 0.
  `EnoughHolders` turns the count of the answer into the cardinality of the property
  (a subset of a finite set), and `AckedStays` says that later steps only add holders.

- `ReadsStayCurrent`: `Spec => []ReadsAreCurrent`. `ReadInv` adds to `QuorumInv` that
  running calls have values of their own, which no call before them ended with
  (`Numbered`); that what was replaced is on no adapter and on its way to none unless it
  timed out, nor is what a running write found stored on the adapters it has written
  (`ReplacedGone`); that without deletes an adapter which has held a value holds
  one (`HeldStays`); and what a get has read so far (`GetsCurrent`).
- `TypeCorrect`: `Spec => []TypeOK`. The bound on failure counts needs an argument of
  its own (`FaultInv`): an aborted call that is still busy at an
  adapter owes it a failure, and what an adapter has counted and is still owed stays
  within the faults that have happened.

`FactLineageProofs` is about any seeded memories, facts, deletes and settings, under
`NamesAssumption` (the names of memories are finitely many and distinct from None).

- `TypeCorrect`: `Spec => []TypeOK`. Inductive with `ShapeInv`: at each step of a handler
  the target it chose, the version it read and the claim it made are there.
- `NoFactIsLost`: `Spec => []FactsAreKept`, for every interleaving and crash. `KeptInv`: what
  a handler past a step has written is still so (`RecordedInv`), and a memory expired
  by a fact names a handler that stores the replacement or was cut off
  (`ExpiredIsReplaced`).
- `HistoryEnds`: `Spec => []ChainsEnd`. A link leads from the version a handler was about
  to the one it wrote (`YoungerInv`), so the versions can be numbered with every link
  going up (`Numbers`), and a chain is no longer than there are numbers. The recursive `Chain` is unfolded by a least
  counterexample (the well-founded order of the naturals), because the induction theorems
  of the library cannot be instantiated.
- `ForgottenForGood`: `Spec => []DeletedIsForgotten`, which the property states of
  handlers in turn, none cut off. `ForgetInv`: handlers name memories that are
  stored (`NamedInv`), a memory has at most one version about it (`OneVersion`), one
  handler is under way (`SerialInv`), and a delete at each of its steps has done what came
  before: past its lookup it holds the version about its memory, and closes it
  before it invalidates the claim (`DeleteInv`).
- `LedgersAgree`: `Spec => []LedgerAgrees`, which the property states of handlers in
  turn, none cut off, too. `LedgerInv` says at each step of a handler what its claim and
  its memories are like (`FactLedger`, `DelLedger`), and that every other claim and
  memory agrees (`Rest`). A handler's lookup takes its claim and its memories out of
  `Rest`, and its last step puts them back. That every version of a claim leads to the
  current one cannot be carried through the recursive `Chain`: `Leads` says that each
  version has a distance, less than the claim has versions, which its successor lessens,
  and `LeadsInChain` that then the current version is in the chain. While a handler has
  written its version and not linked it, `Leads` is of the others; the link adds one to
  every distance (`LeadsOn`). `NewInv`: what a handler has not created
  yet, its claim, its versions and its memory, is not there.

`MemoryMaintenanceProofs` is about any number of memories, summaries, facts and runners,
any batch size and any settings, under `SettingsAssumption`.

- `TypeCorrect`: `Spec => []TypeOK`. The batch is the oldest rows: `OldestFew` and
  `OldestFirst` say of the operator that it returns so many and no younger before an
  older one; they too take a least counterexample.
- `FactsStay`: `Spec => []NoFactLost`, which the property states of actors in turn,
  one task at a time, as long as every answer has named a candidate (`strays = 0`): with
  another target the code itself loses the fact. `SerialInv` has four parts beside the
  property. One actor is under way (`OneActor`). A
  candidate is older than its memory (`Ordered`). What a pass has read is what the table
  says until the statement that changes it, and while a merged memory is still to be
  erased another live row covers it (`PassReads`): the rest of the batch is younger than
  the memory being decided, so no decision of the pass touches it before its turn. What a
  consolidation scanned is what the rows say, and once its summary is stored a live row
  covers each member not yet archived (`ConReads`). A crash between two of these
  statements therefore loses nothing. With two tasks at once `PassReads` fails, and
  `deferred_chunks` shows how.
- `ForgottenStays`: `Spec => []ForgottenStaysForgotten`, for actors in turn, whatever
  targets the model names. It has an invariant of its own, since it cannot use that
  what a pass has read is still in the table: `Untainted` says that no text a pass,
  its tasks or a consolidation still holds says a forgotten fact, and `IdleHolds` that an
  idle pass or consolidation holds no text. A fact is forgotten by a user's delete alone,
  which in turn comes only when nothing is held; what a stray UPDATE writes is the memory's own text.

Only model-checked: every liveness property (ENABLED and fairness are out of the
prover's reach); of the pipeline `RowsAgree` with deletes of artifacts (which breaks it), and
`NoBytesLost` and `AnswersAreTrue` with them.
What `Oldest` and `Chain` compute is proved as far as the theorems
need; what a recursive definition computes for every input is not, since an
induction theorem cannot be instantiated here.

## Findings

The three violation runs show where the code and its comments disagree.

- `same_bytes_race` (`document-upload.ts:404`): an upload that lost its claim
  removes the object at a key it shares with the winner.
- `retry_skipped` (`document-indexer.ts:373`): text A is indexed, text B fails, a
  retry with A is skipped by its hash and leaves the row failed.
- `deferred_chunks` (`services/deferred-audn.ts:133`): "Each deferred memory
  re-fetches its own candidates and is independent" (`:127`), but a memory of the
  chunk may be a candidate of another: one is merged into a memory that is itself
  merged or dropped at the same time, and its fact is in no live row.

## Known disagreements

Behaviour met while modelling that a reader should know of. Each is reproduced by
the definition named, under a variation of a run's constants or settings; those
without a name were read in the code while modelling it.

### Artifacts and documents

- Blind delete. `DeletedHasNoBytes` fails with `EarlyDelete = TRUE` and no
  faults: a DELETE that read the row before its upload recorded the uri skips
  `backend.delete` (`storage-service.ts:496`), although it claims the row after;
  `:490-494` says such rows have no object. A crash between put and record
  ("crash" in `artifact_serial`) leaves an orphan the same way.
- Abandoned claim. `RefusalMeansLiveHolder` fails with "crash": a dead holder's
  claim is never taken over.
- Stale release. The release of a refused delete writes back the status it read
  before its claim (`storage-service.ts:380`, against `:371-373`). If that was another
  delete's `deleting`, the row stays `deleting` with no claim, and no later call can
  claim it: `DeletingHasClaim` fails with 1 artifact, 2 deletes, 1 document and no
  faults. If it was pending, the row may have been finished meanwhile.
- Lost marker. `claimDeleteAttempt` (`db/storage-artifact-repository.ts:542`)
  clears `last_error`, where the only reference to an orphan may be. And a throw
  of the SELECT in `reconcileAlreadyFinalized` (`storage-put-recovery.ts:157`)
  ends the recovery, the row staying pending.
- Throw after commit. `StoredHasBytes` fails with "db" and "commit" and early
  deletes: recovery (`storage-put-recovery.ts:165`) removes an object that a
  restored row still names.
- Partial reset. `RemovalAnswerIsTrue` fails with the serial
  settings of `pipeline_races`: a reset that finds one fresh object skips the lookup of the
  orphans an earlier reset left for another document and answers success
  (`services/memory-crud.ts:121`, against `:118-120`).
- Traces lost in removal. `RemovedBytesTraceable` fails with `races = {"removal"}`
  (an upload swaps while a removal is between list and cleanup) and with
  "crash" (the removal stops after its commit).
- Revived tombstone. `failClaimedUpload` (`db/raw-document-blob-repository.ts:368`)
  does not ask for `deleted_at IS NULL`, so the failure of an upload rewrites the
  status of a removed document.
- Wipe. It lists active documents only (`db/raw-document-blob-repository.ts:107-124`),
  so an object that the removal of its document failed to clean loses its last trace
  when the row goes. When one object fails, the rows of those that were cleaned stay
  `blob_stored` without bytes (`Unrecorded`; `repository-wipe.ts` says "on failure the
  surviving rows are marked raw_storage_failed"); an upload to a row a failed wipe has
  left clears its uri before the put, and a failed put leaves the object untraceable
  (`WipeFailed`). It deletes the rows of managed artifacts that no document links
  without their objects, it takes no lock, and the foreign key may refuse the
  artifacts when a document is registered in between.
- Old object of a retry. A retry with other bytes after an archival failure clears the
  uri of the old object (`services/document-upload.ts:251`), which nothing removes.
- Drift. `ArtifactFollows` and `DeleteClaimKept` fail with `Deletes = {d1}`: the
  status sync of a document overwrites the claim of its artifact's delete
  (`db/raw-doc-artifact-sync.ts:331`), which
  `db/repository-document-delete.ts:85-88` says must not happen. A claimed delete
  after an archival failure and a re-upload of the same bytes removes the new
  object (`StoredDocHasBytes` with `Deletes = {d1}`, `Reconcilers = {r1}`, `Eventual`).
- Reset survivors. `ResetForgets` fails in `DocumentIndexing` with one call, one
  reset and `Connections = 2`: the chunks and memories a call commits
  between the statements of a reset outlive it.
- Late marker. `FailedExtractionNotIndexed` fails with three calls and one
  connection: the failure marker of an index call lands after a reported extraction
  failure, although `document-failure-markers.ts:25-27` says 'failed' extraction
  and 'not_required' index travel together. It overwrites a later call's 'complete'
  as well. A failure of the storage layer overwrites the envelope of a failed index,
  and the next upload clears it.

### Memories

- Ledger under overlap. With `inFlight = 2`, no crashes, one seeded memory,
  two facts and a delete, `OneOpenVersion`, `VisibleIsCurrent`,
  `ChainReachesCurrent` and `DeletedIsForgotten` fail: `setClaimCurrentVersion`
  (`db/repository-claims.ts:213`) revives a claim, or points it at an old version,
  that another handler has moved on; a delete looks its version up before it is
  inserted. With one handler at a time and crashes, a cut between
  `createClaimVersion` and `setClaimCurrentVersion` breaks the first two.
- Deferred decisions. They bypass the ledger (`services/deferred-audn.ts:264`), which
  keeps an open version of the memory they delete. Their target is not compared with the
  candidates (`:254-264`, `:273`), as it is at ingest
  (`services/audn-decision-executor.ts:47`): an UPDATE that names an id of no live row
  writes nothing, and the deferred memory is deleted all the same, so that its fact is
  lost (`NoFactLost` without `strays = 0`); a live row that is no candidate is
  overwritten without having been read; a SUPERSEDE may delete such a row. A DELETE decision deletes the
  deferred memory itself and not its target. A crash between `storeCanonicalFact` and
  `markMemoryDeferred` (`services/memory-audn.ts:81`) leaves a row that is never
  reconciled. `BatchSize` memories that always fail starve all younger ones.
- Consolidation writes from the text of its scan: a merge or a delete that overlaps
  with it is lost or revived (`NoFactLost`, `ForgottenStaysForgotten` without
  `OneAtATime`).
- `ObservationService.regeneratePending` has no caller, so a profile marked dirty is
  not regenerated.

### Background loops

- Delivery is at least once. An answer that is lost, or a crash between a post and the
  statement that records it, sends the event again; `OutcomesStand` is about the states
  of the row and not about posts.
- Take-over. A claim that goes stale while its uploader is slow is claimed again: the
  event is sent twice, and the later answer decides, even where it puts a sent event
  back to pending (`OutcomesStand` excepts `takenOver`).
- Flush. `routes/reflect.ts:7-10` promises that "all reflections are written" at the
  answer; `FlushIsComplete` fails when the worker holds one of the jobs. The worker and
  a flush may run one job twice.
- Cut-off jobs. The shutdown does not stop the reflect worker, and nothing takes up a
  job that was left in progress, as one is by a `markInProgress` whose answer was lost.

### Cache

- A delete reaches healthy adapters only and swallows their errors, so that the value
  returns later (`kv-cache/storage-manager.ts:397`, "Delete value from all adapters"). A
  get answers null when every adapter has failed. An abort counts as a failure of the
  adapter. `batch` writes one adapter only.
- An opened breaker closes by an operation already under way and otherwise never:
  `canExecuteOperation` and `shouldTryHalfOpen` have no caller (against
  `kv-cache/circuit-breaker.ts:7-8`). `recordFailedOperation` has none either, so the
  repair queue is empty. The read quorum is not enforced; with the default write quorum
  of one a read may be stale. Two adapters of one class without ids share a record.

## What is not modelled

- Of the modelled components: reads and listings, metadata, quotas, the bytes
  themselves; a wipe beside other handlers, and its tables other than documents and
  artifacts; uploads on a pointer-only deployment; "commit" faults in
  the pipeline, and in an artifact's delete there anything but store failures.
  The window inside beta2's transaction, where `assertArtifactLinkable` reads
  without a row lock, is closed in the model: beta2 is one step. 'blob_deleted'
  stands for 'blob_tombstoned' too. The reconciler's backoff is a free choice of
  the batch and `verifyMode` is `head_only`. Collisions of `hashtext` between
  documents' advisory locks are ignored. In the indexer, a text without chunks, the
  'stale' status (never written) and the deletion of a single derived memory.
- In `FactLineage`: canonical objects, evidence, projections, entities, opinion
  confidence, topic-based consolidation, contradiction preservation (off by
  default), workspaces, `valid_at`; `createClaimVersion`'s two statements are one.
  The filter of targets superseded within an ingest is left out, which only adds
  behaviours; the facts of one ingest are not sequenced.
- In `MemoryMaintenance`: what the ledger records of a summary, memories of other
  users, embeddings. A summary says what its members say: the model's prose is not
  the code's.
- In the loops: statements of the outbox that throw (one in the drain rejects the
  shutdown, one in a tick leaves rows claimed until they are stale), trace snapshots,
  the cap of 1000 jobs a flush, more than one job of a conversation. A job is
  "reflected" when the memories it calls for were written.
- In the cache: a call begun with a signal that is aborted already
  (`kv-cache/retry-engine.ts:67`), which charges each adapter with a failure; batches of
  anything but sets; TTL, sizes and validation, `initialize` and `close`, the repair queue,
  more than one key, successful checks of a healthy adapter, which only raise a count.
- The components with status `not_modelled`, for the reasons in `PROJECT.json`.
