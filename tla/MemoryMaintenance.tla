--------------------------- MODULE MemoryMaintenance ---------------------------
(***************************************************************************)
(* The background rewriting of the memories table: deferred AUDN           *)
(* reconciliation (services/deferred-audn.ts, its repository and its       *)
(* scheduler) and consolidation (services/consolidation-service.ts),       *)
(* beside ingest and user deletes.                                         *)
(*                                                                         *)
(* The content of a row is abstracted to the set of facts it says.  A      *)
(* deferred row is decided by a task of a pass: the task reads its         *)
(* candidates again, asks the model, and applies the answer in one or two  *)
(* statements.  A pass runs its tasks in chunks of `concurrency`.          *)
(***************************************************************************)
EXTENDS Integers, FiniteSets

CONSTANTS
  NumMemories,     \* rows ingest may store, numbered in creation order
  NumSummaries,    \* rows consolidation may store
  Fact,            \* what a row can say
  Runner,          \* callers of reconcile*(): the scheduler and routes
  Scheduler,       \* the runner that is the interval of server.ts
  BatchSize,       \* config.deferredAudnBatchSize
  Settings,        \* settings to choose from: see SettingsAssumption
  MinCluster       \* config.affinityClusteringMinSize

ASSUME MaintenanceAssumption ==
  /\ NumMemories \in Nat /\ NumSummaries \in Nat
  /\ BatchSize \in Nat \ {0} /\ MinCluster \in Nat
  /\ Scheduler \in Runner

Memory  == 1..NumMemories
Summary == NumMemories + 1..NumMemories + NumSummaries
Row     == Memory \cup Summary
NoRow   == 0   \* an id of no row of this user

\* A setting: config.deferredAudnConcurrency; whether actors run one at a time;
\* and the bounds of that schedule: the rows ingest stores and the facts each may say,
\* the memories the model never answers for, the calls to it that fail once, its answers
\* that name no candidate, the user's deletes, the consolidation requests and the
\* process exits.
ASSUME SettingsAssumption ==
  /\ Settings \subseteq [concurrency : Nat \ {0}, alone : BOOLEAN, stores : 0..NumMemories,
                          facts : [Memory -> SUBSET Fact], faults : Nat,
                          failures : Nat, strays : Nat, deletes : Nat, scans : Nat, downs : Nat]
  /\ \A s \in Settings : s.faults < BatchSize

VARIABLES
  setting,     \* the setting, chosen in Init
  faulty,      \* memories the model never answers for, chosen in Init
  rows,        \* the memories table
  ingest,      \* rows stored whose deferred mark is not written yet
  passes,      \* one reconciliation pass per runner
  con,         \* the consolidation request
  proc,        \* the process: up, stopping or down
  deletes, scans, failures, downs,
  strays,      \* decisions applied to a target that was no candidate
  retired,     \* facts a decision or the user has dropped
  forgotten    \* facts whose last live row the user deleted

config == <<setting, faulty>>
spent  == <<deletes, scans, failures, downs, strays>>
vars   == <<config, rows, ingest, passes, con, proc, spent, retired, forgotten>>

--------------------------------------------------------------------------------
Live(r)  == rows[r].st = "live"
LiveRows == {r \in Row : Live(r)}
Said     == UNION {rows[r].says : r \in LiveRows}

NoTask  == <<>>
IdlePass == [on |-> FALSE, batch |-> NoTask, tasks |-> NoTask]
IdleCon  == [on |-> FALSE, clusters |-> {}, text |-> <<>>, cluster |-> {}, members |-> {}]

Init ==
  /\ setting \in Settings
  /\ faulty \in {S \in SUBSET Memory : Cardinality(S) <= setting.faults}
  /\ rows = [r \in Row |-> [st |-> "absent", says |-> {}, deferred |-> FALSE, cands |-> {}]]
  /\ ingest = {}
  /\ passes = [a \in Runner |-> IdlePass]
  /\ con = IdleCon
  /\ proc = "up"
  /\ deletes = 0 /\ scans = 0 /\ failures = 0 /\ downs = 0 /\ strays = 0
  /\ retired = {} /\ forgotten = {}

\* `alone`: an actor starts only when no other is active.
Quiet    == ingest = {} /\ ~con.on /\ \A a \in Runner : ~passes[a].on
MayStart == proc # "down" /\ (setting.alone => Quiet)

--------------------------------------------------------------------------------
\* Ingest stores a fact; with conflict candidates it marks the row deferred in a
\* second statement.
StoreFact(m, f, cands) ==
  /\ MayStart /\ m <= setting.stores /\ f \in setting.facts[m]
  /\ rows[m].st = "absent" /\ (m > 1 => rows[m - 1].st # "absent")
  /\ cands \subseteq LiveRows
  /\ rows' = [rows EXCEPT ![m] = [st |-> "live", says |-> {f}, deferred |-> FALSE,
                                  cands |-> cands]]
  /\ ingest' = IF cands = {} THEN ingest ELSE ingest \cup {m}
  /\ retired' = retired \ {f} /\ forgotten' = forgotten \ {f}
  /\ UNCHANGED <<config, passes, con, proc, spent>>

MarkDeferred(m) ==
  /\ m \in ingest
  /\ rows' = [rows EXCEPT ![m].deferred = TRUE]
  /\ ingest' = ingest \ {m}
  /\ UNCHANGED <<config, passes, con, proc, spent, retired, forgotten>>

SoftDelete(r) ==
  IF r \in LiveRows THEN rows' = [rows EXCEPT ![r].st = "deleted"] ELSE UNCHANGED rows

UserDelete(r) ==
  /\ MayStart /\ Live(r) /\ deletes < setting.deletes
  /\ deletes' = deletes + 1
  /\ SoftDelete(r)
  /\ retired' = retired \cup rows[r].says
  /\ forgotten' = forgotten \cup {f \in rows[r].says :
                     \A q \in LiveRows \ {r} : f \notin rows[q].says}
  /\ UNCHANGED <<config, ingest, passes, con, proc, scans, failures, downs, strays>>

--------------------------------------------------------------------------------
Oldest(S, k) == {m \in S : Cardinality({q \in S : q < m}) < k}

\* findDeferredMemories: the oldest BatchSize rows that are flagged and not deleted,
\* with their content and their candidates as they read now.
DeferredAnyState == {m \in Memory : rows[m].deferred}   \* mutant: without deleted_at IS NULL
Deferred == {m \in Memory : rows[m].deferred /\ Live(m)}
Batch    == [m \in Oldest(Deferred, BatchSize) |->
               [says |-> rows[m].says, cands |-> rows[m].cands]]

NewTask(r) == [phase |-> "refresh", says |-> r.says, cands |-> r.cands, seen |-> <<>>]

\* Mutant: the whole batch starts at once.
WholeBatch(batch) ==
  [on |-> TRUE, batch |-> NoTask, tasks |-> [m \in DOMAIN batch |-> NewTask(batch[m])]]

\* The next `concurrency` memories of the batch start together.
ChunkOf(batch) ==
  LET chunk == Oldest(DOMAIN batch, setting.concurrency)
  IN  [on    |-> TRUE,
       batch |-> [m \in DOMAIN batch \ chunk |-> batch[m]],
       tasks |-> [m \in chunk |-> NewTask(batch[m])]]

\* A scheduler tick or a POST /reconcile fetches its batch.  The scheduler skips
\* the tick while one is in flight, and when it is stopped.
StartPass(a) ==
  /\ MayStart /\ ~passes[a].on
  /\ a = Scheduler => proc = "up"
  /\ Deferred # {}
  /\ passes' = [passes EXCEPT ![a] = ChunkOf(Batch)]
  /\ UNCHANGED <<config, rows, ingest, con, proc, spent, retired, forgotten>>

Settled(p) == \A m \in DOMAIN p.tasks : p.tasks[m].phase = "done"

\* Promise.allSettled has returned: the next chunk, or the end of the pass.
NextChunk(a) ==
  /\ passes[a].on /\ Settled(passes[a])
  /\ passes' = [passes EXCEPT ![a] = IF DOMAIN @.batch = {} THEN IdlePass ELSE ChunkOf(@.batch)]
  /\ UNCHANGED <<config, rows, ingest, con, proc, spent, retired, forgotten>>

InPhase(a, m, ph) == m \in DOMAIN passes[a].tasks /\ passes[a].tasks[m].phase = ph

Advance(a, m, ph) == passes' = [passes EXCEPT ![a].tasks[m].phase = ph]

\* Mutant: candidates that are deleted by now are kept.
RefreshAll(a, m) ==
  /\ InPhase(a, m, "refresh")
  /\ LET all == passes[a].tasks[m].cands
     IN  passes' = [passes EXCEPT ![a].tasks[m] =
                      [@ EXCEPT !.seen  = [c \in all |-> rows[c].says],
                                !.phase = IF all = {} THEN "clear" ELSE "apply"]]
  /\ UNCHANGED <<config, rows, ingest, con, proc, spent, retired, forgotten>>

\* refreshCandidates: the fetched candidates that are still live, as they read now
\* (one read each in the code, all at once here); with none left the memory is
\* confirmed.
Refresh(a, m) ==
  /\ InPhase(a, m, "refresh")
  /\ LET now == {c \in passes[a].tasks[m].cands : Live(c)}
     IN  passes' = [passes EXCEPT ![a].tasks[m] =
                      [@ EXCEPT !.seen  = [c \in now |-> rows[c].says],
                                !.phase = IF now = {} THEN "clear" ELSE "apply"]]
  /\ UNCHANGED <<config, rows, ingest, con, proc, spent, retired, forgotten>>

\* The model answers and the first statement of the decision runs.  NOOP is the
\* answer only for a memory a candidate already covers.
DecideNoop(a, m) ==
  /\ InPhase(a, m, "apply") /\ m \notin faulty
  /\ LET t == passes[a].tasks[m] IN \E c \in DOMAIN t.seen : t.says \subseteq t.seen[c]
  /\ SoftDelete(m)
  /\ Advance(a, m, "clear")
  /\ UNCHANGED <<config, ingest, con, proc, spent, retired, forgotten>>

DecideDelete(a, m) ==
  /\ InPhase(a, m, "apply") /\ m \notin faulty
  /\ SoftDelete(m)
  /\ Advance(a, m, "clear")
  /\ retired' = retired \cup passes[a].tasks[m].says
  /\ UNCHANGED <<config, ingest, con, proc, spent, forgotten>>

\* The target is whatever id the model names: nothing compares it with the candidates.
SeenIn(a, m, c) ==
  LET t == passes[a].tasks[m] IN IF c \in DOMAIN t.seen THEN t.seen[c] ELSE {}

CountStray(a, m, c) ==
  IF c \in DOMAIN passes[a].tasks[m].seen THEN UNCHANGED strays
  ELSE strays < setting.strays /\ strays' = strays + 1

\* The merged text (of the memory and what the task has read of the target) replaces
\* the content of the target if that is a live row; the deferred memory goes in a
\* second statement whether it was or not.
DecideUpdate(a, m, c) ==
  /\ InPhase(a, m, "apply") /\ m \notin faulty
  /\ CountStray(a, m, c)
  /\ IF c \in LiveRows
     THEN rows' = [rows EXCEPT ![c].says = passes[a].tasks[m].says \cup SeenIn(a, m, c)]
     ELSE UNCHANGED rows
  /\ Advance(a, m, "erase")
  /\ UNCHANGED <<config, ingest, con, proc, deletes, scans, failures, downs, retired, forgotten>>

EraseMerged(a, m) ==
  /\ InPhase(a, m, "erase")
  /\ SoftDelete(m)
  /\ Advance(a, m, "clear")
  /\ UNCHANGED <<config, ingest, con, proc, spent, retired, forgotten>>

DecideSupersede(a, m, c) ==
  /\ InPhase(a, m, "apply") /\ m \notin faulty
  /\ CountStray(a, m, c)
  /\ SoftDelete(c)
  /\ Advance(a, m, "clear")
  /\ retired' = retired \cup (SeenIn(a, m, c) \ passes[a].tasks[m].says)
  /\ UNCHANGED <<config, ingest, con, proc, deletes, scans, failures, downs, forgotten>>

\* ADD, an unknown action such as CLARIFY, or a decision without its target.
DecideKeep(a, m) ==
  /\ InPhase(a, m, "apply") /\ m \notin faulty
  /\ Advance(a, m, "clear")
  /\ UNCHANGED <<config, rows, ingest, con, proc, spent, retired, forgotten>>

\* Mutant: a task that throws ends its pass (Promise.all in place of allSettled).
FailEndsPass(a, m) ==
  /\ InPhase(a, m, "apply")
  /\ IF m \in faulty THEN UNCHANGED failures
     ELSE failures < setting.failures /\ failures' = failures + 1
  /\ passes' = [passes EXCEPT ![a] = IdlePass]
  /\ UNCHANGED <<config, rows, ingest, con, proc, deletes, scans, downs, strays,
                 retired, forgotten>>

\* The model call throws: the flag stays for a later pass.
DecideFails(a, m) ==
  /\ InPhase(a, m, "apply")
  /\ IF m \in faulty THEN UNCHANGED failures
     ELSE failures < setting.failures /\ failures' = failures + 1
  /\ Advance(a, m, "done")
  /\ UNCHANGED <<config, rows, ingest, con, proc, deletes, scans, downs, strays,
                 retired, forgotten>>

ClearFlag(a, m) ==
  /\ InPhase(a, m, "clear")
  /\ rows' = [rows EXCEPT ![m].deferred = FALSE, ![m].cands = {}]
  /\ Advance(a, m, "done")
  /\ UNCHANGED <<config, ingest, con, proc, spent, retired, forgotten>>

TaskStep(a, m) ==
  \/ Refresh(a, m) \/ DecideNoop(a, m) \/ DecideDelete(a, m) \/ DecideKeep(a, m)
  \/ DecideFails(a, m) \/ EraseMerged(a, m) \/ ClearFlag(a, m)
  \/ \E c \in Row \cup {NoRow} : DecideUpdate(a, m, c) \/ DecideSupersede(a, m, c)

--------------------------------------------------------------------------------
\* executeConsolidation scans the live rows once and keeps the text of every
\* cluster it finds (at most two here).
Scan(clusters) ==
  /\ MayStart /\ ~con.on /\ scans < setting.scans
  /\ scans' = scans + 1
  /\ \A c, d \in clusters : c # d => c \cap d = {}
  /\ con' = [IdleCon EXCEPT !.on = TRUE, !.clusters = clusters,
                              !.text = [r \in UNION clusters |-> rows[r].says]]
  /\ UNCHANGED <<config, rows, ingest, passes, proc, deletes, failures, downs, strays,
                 retired, forgotten>>

Clusters == {c \in SUBSET LiveRows : c # {} /\ Cardinality(c) >= MinCluster}

BetweenClusters == con.on /\ con.cluster = {} /\ con.members = {}

\* The summary of a cluster is written from the scanned text; then its members
\* are read again, and at least two must be left.
Synthesize(c) ==
  /\ BetweenClusters /\ c \in con.clusters
  /\ LET valid == {r \in c : Live(r)}
     IN  /\ Cardinality(valid) >= 2
         /\ con' = [con EXCEPT !.clusters = @ \ {c}, !.cluster = c, !.members = valid]
  /\ UNCHANGED <<config, rows, ingest, passes, proc, spent, retired, forgotten>>

\* No summary, or too few members left: the cluster stays as it is.
SkipCluster(c) ==
  /\ BetweenClusters /\ c \in con.clusters
  /\ con' = [con EXCEPT !.clusters = @ \ {c}]
  /\ UNCHANGED <<config, rows, ingest, passes, proc, spent, retired, forgotten>>

StoreSummary(s) ==
  /\ con.cluster # {} /\ rows[s].st = "absent"
  /\ rows' = [rows EXCEPT ![s].st = "live", ![s].says = UNION {con.text[r] : r \in con.cluster}]
  /\ con' = [con EXCEPT !.cluster = {}]
  /\ UNCHANGED <<config, ingest, passes, proc, spent, retired, forgotten>>

ArchiveMember(r) ==
  /\ con.cluster = {} /\ r \in con.members
  /\ SoftDelete(r)
  /\ con' = [con EXCEPT !.members = @ \ {r}]
  /\ UNCHANGED <<config, ingest, passes, proc, spent, retired, forgotten>>

EndConsolidation ==
  /\ BetweenClusters /\ con.clusters = {}
  /\ con' = IdleCon
  /\ UNCHANGED <<config, rows, ingest, passes, proc, spent, retired, forgotten>>

ConsolidationStep ==
  \/ \E c \in con.clusters : Synthesize(c) \/ SkipCluster(c)
  \/ \E s \in Summary : StoreSummary(s)
  \/ \E r \in con.members : ArchiveMember(r)
  \/ EndConsolidation

--------------------------------------------------------------------------------
\* SIGTERM: the scheduler takes no new tick and its pass in flight is awaited;
\* then the process exits, whatever the routes are doing.
Stop ==
  /\ proc = "up" /\ downs < setting.downs
  /\ proc' = "stopping"
  /\ downs' = downs + 1
  /\ UNCHANGED <<config, rows, ingest, passes, con, deletes, scans, failures, strays,
                 retired, forgotten>>

LoseMemory ==
  /\ proc' = "down"
  /\ ingest' = {} /\ con' = IdleCon
  /\ passes' = [a \in Runner |-> IdlePass]
  /\ UNCHANGED <<config, rows, deletes, scans, failures, strays, retired, forgotten>>

Exit  == proc = "stopping" /\ ~passes[Scheduler].on /\ UNCHANGED downs /\ LoseMemory
Crash == proc = "up" /\ downs < setting.downs /\ downs' = downs + 1 /\ LoseMemory

Restart ==
  /\ proc = "down"
  /\ proc' = "up"
  /\ UNCHANGED <<config, rows, ingest, passes, con, spent, retired, forgotten>>

PassStep(a) == NextChunk(a) \/ \E m \in Memory : TaskStep(a, m)

Next ==
  \/ \E m \in Memory : \/ \E f \in Fact, cands \in SUBSET LiveRows : StoreFact(m, f, cands)
                       \/ MarkDeferred(m)
  \/ \E r \in Row : UserDelete(r)
  \/ \E a \in Runner : StartPass(a) \/ PassStep(a)
  \/ \E c, d \in Clusters : Scan({c, d})
  \/ ConsolidationStep
  \/ Stop \/ Exit \/ Crash \/ Restart

Fairness ==
  /\ \A a \in Runner : WF_vars(PassStep(a))
  /\ SF_vars(StartPass(Scheduler))
  /\ WF_vars(\E m \in Memory : MarkDeferred(m))
  /\ WF_vars(ConsolidationStep)
  /\ WF_vars(Exit) /\ WF_vars(Restart)

Spec == Init /\ [][Next]_vars /\ Fairness

--------------------------------------------------------------------------------
\* The shape of the state: one task per memory of the chunk, never larger than the
\* configured concurrency, and summaries only among the rows set aside for them.
TypeOK ==
  /\ rows \in [Row -> [st : {"absent", "live", "deleted"}, says : SUBSET Fact,
                       deferred : BOOLEAN, cands : SUBSET Row]]
  /\ ingest \subseteq Memory /\ retired \subseteq Fact /\ forgotten \subseteq Fact
  /\ proc \in {"up", "stopping", "down"}
  /\ \A a \in Runner :
       /\ DOMAIN passes[a].tasks \subseteq Memory
       /\ Cardinality(DOMAIN passes[a].tasks) <= setting.concurrency
       /\ \A m \in DOMAIN passes[a].tasks :
            passes[a].tasks[m].phase \in {"refresh", "apply", "erase", "clear", "done"}
  /\ con.members \subseteq Row /\ UNION con.clusters \subseteq Row

\* What was stored and never dropped by a decision or by its user stays readable:
\* a fact that is not retired is said by a live row, whatever reconciliation has
\* merged, replaced or removed and whatever consolidation has archived, also after
\* a crash between two of their statements.  For actors that run one at a time, and
\* as long as the model has named candidates only: the code applies an UPDATE to any
\* id, and erases the memory even when no row took its text.
Stored == {f \in Fact : \E r \in Row : rows[r].st # "absent" /\ f \in rows[r].says}
FactsKept == Stored \ retired \subseteq Said
OneAtATime == setting.alone /\ setting.concurrency = 1
NoFactLost == OneAtATime /\ strays = 0 => FactsKept

\* What the user has deleted does not come back: no merge and no summary puts a
\* fact into a live row after its last live row was deleted by its user (unless it
\* is stored again), whatever targets the model names.  For actors that run one at a
\* time.
ForgottenStaysForgotten == OneAtATime => forgotten \cap Said = {}

\* Every deferred memory is decided: fewer failing memories than a batch holds, which
\* head every batch when they are the oldest, never starve the others, through
\* crashes, restarts and overlapping passes.
QueueDrains ==
  \A m \in Memory :
    (rows[m].deferred /\ Live(m) /\ m \notin faulty) ~> (~rows[m].deferred \/ ~Live(m))

\* processReconciliationBatch: "Each deferred memory re-fetches its own candidates
\* and is independent, so the per-memory LLM AUDN decisions run concurrently".
TasksAreIndependent == setting.alone /\ strays = 0 => FactsKept
================================================================================
