------------------------ MODULE MemoryMaintenanceProofs ------------------------
(* Theorems of MemoryMaintenance, for any number of rows, facts and runners, any   *)
(* batch size and any settings.                                                    *)
EXTENDS MemoryMaintenance, FiniteSetTheorems, WellFoundedInduction, TLAPS

Phases == {"refresh", "apply", "erase", "clear", "done"}

\* What a task, a pass or a consolidation has read: texts of some rows.
Texts(S) == UNION {[D -> SUBSET Fact] : D \in SUBSET S}

RowType == [st : {"absent", "live", "deleted"}, says : SUBSET Fact,
            deferred : BOOLEAN, cands : SUBSET Row]
\* What a pass fetches of a row.
Fetched == [says : SUBSET Fact, cands : SUBSET Row]
Batches == UNION {[D -> Fetched] : D \in SUBSET Memory}
Task    == [phase : Phases, says : SUBSET Fact, cands : SUBSET Row, seen : Texts(Row)]
Tasks   == UNION {[D -> Task] : D \in SUBSET Memory}
Pass    == [on : BOOLEAN, batch : Batches, tasks : Tasks]
ConType == [on : BOOLEAN, clusters : SUBSET SUBSET Row, text : Texts(Row),
            cluster : SUBSET Row, members : SUBSET Row]

\* Every row of a cluster has been read by the scan.
Scanned == con.cluster \cup UNION con.clusters \subseteq DOMAIN con.text

FewTasks(a) == Cardinality(DOMAIN passes[a].tasks) <= setting.concurrency

ShapeInv ==
  /\ setting \in Settings
  /\ rows \in [Row -> RowType]
  /\ ingest \subseteq Memory /\ retired \subseteq Fact /\ forgotten \subseteq Fact
  /\ proc \in {"up", "stopping", "down"}
  /\ passes \in [Runner -> Pass] /\ \A a \in Runner : FewTasks(a)
  /\ con \in ConType /\ Scanned

--------------------------------------------------------------------------------
(* The oldest rows of a set of memories.                                           *)

LEMMA MemoriesFinite ==
  ASSUME NEW S \in SUBSET Memory
  PROVE  IsFiniteSet(S) /\ S \subseteq Nat /\ Cardinality(S) \in Nat
<1>1. NumMemories \in Nat
  BY MaintenanceAssumption
<1>2. IsFiniteSet(Memory)
  BY <1>1, FS_Interval DEF Memory
<1>3. IsFiniteSet(S)
  BY <1>2, FS_Subset
<1> QED BY <1>1, <1>3, FS_CardinalityType DEF Memory

\* A nonempty set of memories has an oldest and a youngest one.
LEMMA Extremes ==
  ASSUME NEW S \in SUBSET Memory, S # {}
  PROVE  /\ \E x \in S : \A y \in S : x <= y
         /\ \E x \in S : \A y \in S : y <= x
<1>1. NumMemories \in Nat /\ Memory \subseteq Nat /\ \A x \in Memory : x <= NumMemories
  BY MaintenanceAssumption DEF Memory
<1>2. ASSUME NEW T \in SUBSET Nat, T # {}
      PROVE  \E x \in T : \A y \in T : x <= y
  <2> DEFINE R == {ss \in Nat \X Nat : ss[1] < ss[2]}
  <2>1. IsWellFoundedOn(R, Nat)
    BY NatLessThanWellFounded DEF OpToRel
  <2>2. \A x, y \in Nat : x < y => <<x, y>> \in R
    OBVIOUS
  <2> HIDE DEF R
  <2>3. PICK x \in T : \A y \in T : ~(<<y, x>> \in R)
    BY <1>2, <2>1, WFMin
  <2>4. \A y \in T : ~(y < x) /\ x \in Nat /\ y \in Nat
    BY <1>2, <2>2, <2>3
  <2> QED BY <2>4
<1>3. \E x \in S : \A y \in S : x <= y
  BY <1>1, <1>2
<1>4. \E x \in S : \A y \in S : y <= x
  <2> DEFINE T == {n \in Nat : NumMemories - n \in S}
  <2>1. ASSUME NEW x \in S PROVE NumMemories - x \in T /\ NumMemories - (NumMemories - x) = x
    BY <1>1
  <2>2. T # {}
    BY <2>1
  <2>3. PICK n \in T : \A y \in T : n <= y
    BY <1>2, <2>2
  <2>4. NumMemories - n \in S
    BY <2>3
  <2>5. \A y \in S : n <= NumMemories - y /\ y \in Nat /\ n \in Nat
    BY <1>1, <2>1, <2>3
  <2> QED BY <1>1, <2>4, <2>5
<1> QED BY <1>3, <1>4

LEMMA OldestFew ==
  ASSUME NEW S \in SUBSET Memory, NEW k \in Nat
  PROVE  Oldest(S, k) \subseteq S /\ Cardinality(Oldest(S, k)) <= k
<1> DEFINE O == Oldest(S, k)
<1>1. O \subseteq S /\ O \in SUBSET Memory
  BY DEF Oldest
<1>2. CASE O = {}
  BY <1>2, FS_EmptySet
<1>3. CASE O # {}
  <2>1. PICK x \in O : \A y \in O : y <= x
    BY <1>1, <1>3, Extremes
  <2> DEFINE B == {q \in S : q < x}
  <2>2. B \in SUBSET Memory /\ Cardinality(B) < k
    BY <1>1, <2>1 DEF Oldest
  <2>3. O \ {x} \subseteq B
    <3>1. O \subseteq Nat
      BY <1>1, MemoriesFinite
    <3> QED BY <1>1, <2>1, <3>1
  <2>4. IsFiniteSet(B) /\ IsFiniteSet(O) /\ Cardinality(B) \in Nat /\ Cardinality(O) \in Nat
    BY <1>1, <2>2, MemoriesFinite
  <2>5. Cardinality(O \ {x}) <= Cardinality(B)
    BY <2>3, <2>4, FS_Subset
  <2>6. Cardinality(O \ {x}) = Cardinality(O) - 1
    BY <2>1, <2>4, FS_RemoveElement
  <2> QED BY <1>1, <2>2, <2>4, <2>5, <2>6
<1> QED BY <1>1, <1>2, <1>3

\* One at a time, the oldest comes first.
LEMMA OldestFirst ==
  ASSUME NEW S \in SUBSET Memory, NEW m \in Oldest(S, 1), NEW q \in S
  PROVE  m <= q
<1>1. m \in S /\ m \in Nat /\ q \in Nat
  BY MemoriesFinite DEF Oldest
<1> DEFINE B == {p \in S : p < m}
<1>2. B \in SUBSET Memory /\ Cardinality(B) < 1
  BY DEF Oldest
<1>3. IsFiniteSet(B) /\ Cardinality(B) = 0
  BY <1>2, MemoriesFinite
<1>4. B = {}
  BY <1>3, FS_EmptySet
<1> QED BY <1>1, <1>4

--------------------------------------------------------------------------------
(* The shape of the state.                                                         *)

LEMMA TextsAre ==
  ASSUME NEW S
  PROVE  /\ \A D \in SUBSET S : [D -> SUBSET Fact] \subseteq Texts(S)
         /\ \A g \in Texts(S) : DOMAIN g \in SUBSET S /\ g \in [DOMAIN g -> SUBSET Fact]
         /\ <<>> \in Texts(S)
<1>1. \A D \in SUBSET S : [D -> SUBSET Fact] \subseteq Texts(S)
  BY DEF Texts
<1>2. ASSUME NEW g \in Texts(S)
      PROVE  DOMAIN g \in SUBSET S /\ g \in [DOMAIN g -> SUBSET Fact]
  <2>1. PICK D \in SUBSET S : g \in [D -> SUBSET Fact]
    BY DEF Texts
  <2> QED BY <2>1
<1>3. <<>> \in [{} -> SUBSET Fact]
  OBVIOUS
<1> QED BY <1>1, <1>2, <1>3

LEMMA TasksAre ==
  /\ \A D \in SUBSET Memory : [D -> Task] \subseteq Tasks
  /\ \A g \in Tasks : DOMAIN g \in SUBSET Memory /\ g \in [DOMAIN g -> Task]
  /\ <<>> \in Tasks
<1>1. \A D \in SUBSET Memory : [D -> Task] \subseteq Tasks
  BY DEF Tasks
<1>2. ASSUME NEW g \in Tasks
      PROVE  DOMAIN g \in SUBSET Memory /\ g \in [DOMAIN g -> Task]
  <2>1. PICK D \in SUBSET Memory : g \in [D -> Task]
    BY DEF Tasks
  <2> QED BY <2>1
<1>3. <<>> \in [{} -> Task]
  OBVIOUS
<1> QED BY <1>1, <1>2, <1>3

LEMMA BatchesAre ==
  /\ \A D \in SUBSET Memory : [D -> Fetched] \subseteq Batches
  /\ \A g \in Batches : DOMAIN g \in SUBSET Memory /\ g \in [DOMAIN g -> Fetched]
  /\ <<>> \in Batches
<1>1. \A D \in SUBSET Memory : [D -> Fetched] \subseteq Batches
  BY DEF Batches
<1>2. ASSUME NEW g \in Batches
      PROVE  DOMAIN g \in SUBSET Memory /\ g \in [DOMAIN g -> Fetched]
  <2>1. PICK D \in SUBSET Memory : g \in [D -> Fetched]
    BY DEF Batches
  <2> QED BY <2>1
<1>3. <<>> \in [{} -> Fetched]
  OBVIOUS
<1> QED BY <1>1, <1>2, <1>3

LEMMA IdleIsTyped ==
  /\ IdlePass \in Pass /\ DOMAIN IdlePass.tasks = {} /\ DOMAIN IdlePass.batch = {}
  /\ IdleCon \in ConType /\ IdleCon.cluster \cup UNION IdleCon.clusters = {}
<1>1. IdlePass \in Pass
  BY BatchesAre, TasksAre DEF IdlePass, Pass, NoTask
<1>2. IdleCon \in ConType
  BY TextsAre DEF IdleCon, ConType
<1> QED BY <1>1, <1>2 DEF IdlePass, IdleCon, NoTask

LEMMA SettingsAre ==
  ASSUME setting \in Settings
  PROVE  setting.concurrency \in Nat \ {0} /\ setting.alone \in BOOLEAN
  BY SettingsAssumption

LEMMA ShapeIsTypeOK == ShapeInv => TypeOK
<1> SUFFICES ASSUME ShapeInv PROVE TypeOK
  OBVIOUS
<1>1. ASSUME NEW a \in Runner
      PROVE  /\ DOMAIN passes[a].tasks \subseteq Memory
             /\ Cardinality(DOMAIN passes[a].tasks) <= setting.concurrency
             /\ \A m \in DOMAIN passes[a].tasks : passes[a].tasks[m].phase \in Phases
  <2>1. passes[a].tasks \in Tasks
    BY DEF ShapeInv, Pass
  <2> QED BY <2>1, TasksAre DEF ShapeInv, FewTasks, Task
<1> QED BY <1>1 DEF ShapeInv, TypeOK, RowType, Phases, ConType

LEMMA ShapeInitial == Init => ShapeInv
<1> SUFFICES ASSUME Init PROVE ShapeInv
  OBVIOUS
<1>1. rows \in [Row -> RowType]
  BY DEF Init, RowType
<1>2. passes \in [Runner -> Pass] /\ con \in ConType /\ Scanned
  BY IdleIsTyped DEF Init, Scanned
<1>3. ASSUME NEW a \in Runner PROVE FewTasks(a)
  <2>1. Cardinality(DOMAIN passes[a].tasks) = 0
    BY IdleIsTyped, FS_EmptySet DEF Init
  <2> QED BY <2>1, SettingsAre DEF Init, FewTasks
<1> QED BY <1>1, <1>2, <1>3 DEF Init, ShapeInv

\* A task in another phase, having seen what it has.
InHand(t, ph, seen) == [phase |-> ph, says |-> t.says, cands |-> t.cands, seen |-> seen]

\* One task goes on to another phase.
Moved(a, m, ph, seen) ==
  /\ passes' \in [Runner -> Pass]
  /\ \A b \in Runner \ {a} : passes'[b] = passes[b]
  /\ passes'[a].on = passes[a].on /\ passes'[a].batch = passes[a].batch
  /\ DOMAIN passes'[a].tasks = DOMAIN passes[a].tasks
  /\ \A k \in DOMAIN passes[a].tasks \ {m} : passes'[a].tasks[k] = passes[a].tasks[k]
  /\ passes'[a].tasks[m] = InHand(passes[a].tasks[m], ph, seen)

LEMMA TaskIsTyped ==
  ASSUME ShapeInv, NEW a \in Runner, NEW m \in DOMAIN passes[a].tasks
  PROVE  /\ m \in Memory /\ passes[a] \in Pass /\ passes[a].tasks[m] \in Task
         /\ DOMAIN passes[a].tasks[m].seen \in SUBSET Row
         /\ \A c \in DOMAIN passes[a].tasks[m].seen : passes[a].tasks[m].seen[c] \in SUBSET Fact
<1>1. passes[a] \in Pass /\ passes[a].tasks \in Tasks
  BY DEF ShapeInv, Pass
<1>2. m \in Memory /\ passes[a].tasks[m] \in Task
  BY <1>1, TasksAre
<1>3. passes[a].tasks[m].seen \in Texts(Row)
  BY <1>2 DEF Task
<1> QED BY <1>1, <1>2, <1>3, TextsAre

LEMMA MovedTyped ==
  ASSUME ShapeInv, NEW a \in Runner, NEW m \in DOMAIN passes[a].tasks,
         NEW ph \in Phases, NEW seen \in Texts(Row),
         NEW t \in Task, t = InHand(passes[a].tasks[m], ph, seen),
         passes' = [passes EXCEPT ![a].tasks[m] = t]
  PROVE  Moved(a, m, ph, seen)
<1>1. passes \in [Runner -> Pass] /\ passes[a] \in Pass /\ passes[a].tasks \in Tasks
  BY DEF ShapeInv, Pass
<1> DEFINE ts == [passes[a].tasks EXCEPT ![m] = t]
<1>2. DOMAIN passes[a].tasks \in SUBSET Memory
      /\ passes[a].tasks \in [DOMAIN passes[a].tasks -> Task]
  BY <1>1, TasksAre
<1>3. ts \in [DOMAIN passes[a].tasks -> Task] /\ ts \in Tasks
  BY <1>2, TasksAre
<1>4. ts[m] = t /\ \A k \in DOMAIN passes[a].tasks \ {m} : ts[k] = passes[a].tasks[k]
  BY <1>2
<1> DEFINE p == [passes[a] EXCEPT !.tasks = ts]
<1>5. passes' = [passes EXCEPT ![a] = p]
  OBVIOUS
<1> HIDE DEF ts
<1>6. p \in Pass /\ p.on = passes[a].on /\ p.batch = passes[a].batch /\ p.tasks = ts
  BY <1>1, <1>3 DEF Pass
<1> HIDE DEF p
<1>7. passes' \in [Runner -> Pass] /\ passes'[a] = p
      /\ \A b \in Runner \ {a} : passes'[b] = passes[b]
  BY <1>1, <1>5, <1>6
<1> QED BY <1>3, <1>4, <1>6, <1>7 DEF Moved

LEMMA AdvanceMoves ==
  ASSUME ShapeInv, NEW a \in Runner, NEW m, NEW was, InPhase(a, m, was),
         NEW ph \in Phases, Advance(a, m, ph)
  PROVE  m \in DOMAIN passes[a].tasks /\ m \in Memory
         /\ Moved(a, m, ph, passes[a].tasks[m].seen)
<1>1. m \in DOMAIN passes[a].tasks
  BY DEF InPhase
<1>2. m \in Memory /\ passes[a].tasks[m] \in Task /\ passes[a].tasks[m].seen \in Texts(Row)
  BY <1>1, TaskIsTyped DEF Task
<1> DEFINE t == [passes[a].tasks[m] EXCEPT !.phase = ph]
<1>3. t \in Task /\ t = InHand(passes[a].tasks[m], ph, passes[a].tasks[m].seen)
  BY <1>2 DEF Task, InHand
<1>4. passes' = [passes EXCEPT ![a].tasks[m] = t]
  BY DEF Advance
<1> HIDE DEF t
<1> QED BY <1>1, <1>2, <1>3, <1>4, MovedTyped

LEMMA RefreshMoves ==
  ASSUME ShapeInv, NEW a \in Runner, NEW m \in Memory, Refresh(a, m)
  PROVE  LET now == {c \in passes[a].tasks[m].cands : Live(c)}
         IN  /\ m \in DOMAIN passes[a].tasks
             /\ Moved(a, m, IF now = {} THEN "clear" ELSE "apply", [c \in now |-> rows[c].says])
<1> DEFINE now == {c \in passes[a].tasks[m].cands : Live(c)}
           ph  == IF now = {} THEN "clear" ELSE "apply"
           seen == [c \in now |-> rows[c].says]
<1>1. m \in DOMAIN passes[a].tasks
  BY DEF Refresh, InPhase
<1>2. passes[a].tasks[m] \in Task
  BY <1>1, TaskIsTyped
<1>3. now \in SUBSET Row /\ seen \in [now -> SUBSET Fact] /\ ph \in Phases
  <2>1. passes[a].tasks[m].cands \in SUBSET Row
    BY <1>2 DEF Task
  <2>2. \A c \in Row : rows[c].says \in SUBSET Fact
    BY DEF ShapeInv, RowType
  <2>3. now \in SUBSET Row /\ ph \in Phases
    BY <2>1 DEF Phases
  <2> QED BY <2>2, <2>3
<1>4. seen \in Texts(Row)
  <2> HIDE DEF now, seen
  <2>1. [now -> SUBSET Fact] \subseteq Texts(Row)
    BY <1>3, TextsAre
  <2> QED BY <1>3, <2>1
<1> DEFINE t0 == [passes[a].tasks[m] EXCEPT !.seen = seen]
           t  == [t0 EXCEPT !.phase = ph]
<1>5. passes' = [passes EXCEPT ![a].tasks[m] = t]
  BY DEF Refresh
<1> HIDE DEF now, ph, seen
<1>6. t \in Task /\ t = InHand(passes[a].tasks[m], ph, seen)
  <2>1. t0 \in Task /\ t0.says = passes[a].tasks[m].says /\ t0.seen = seen
        /\ t0.cands = passes[a].tasks[m].cands
    BY <1>2, <1>4 DEF Task
  <2> HIDE DEF t0
  <2> QED BY <1>3, <2>1 DEF Task, InHand
<1> HIDE DEF t
<1>7. Moved(a, m, ph, seen)
  BY <1>1, <1>3, <1>4, <1>5, <1>6, MovedTyped
<1> QED BY <1>1, <1>7 DEF now, ph, seen

\* A row as the query of a pass returns it.
RowRead(q) == [says |-> rows[q].says, cands |-> rows[q].cands]

LEMMA BatchIsTyped ==
  ASSUME ShapeInv
  PROVE  /\ Batch \in Batches /\ DOMAIN Batch \in SUBSET Memory
         /\ \A q \in DOMAIN Batch : Live(q) /\ Batch[q] = RowRead(q)
<1>1. DOMAIN Batch \in SUBSET Memory /\ \A q \in DOMAIN Batch : Live(q)
  BY DEF Batch, Oldest, Deferred
<1>2. \A q \in DOMAIN Batch : Batch[q] = RowRead(q) /\ RowRead(q) \in Fetched
  <2>1. \A q \in Memory : rows[q] \in RowType
    BY DEF ShapeInv, Row
  <2> QED BY <1>1, <2>1 DEF Batch, RowType, RowRead, Fetched
<1>3. Batch \in [DOMAIN Batch -> Fetched]
  BY <1>2 DEF Batch
<1> QED BY <1>1, <1>2, <1>3, BatchesAre

\* The next chunk of a batch: a task for each of its oldest memories.
LEMMA ChunkIs ==
  ASSUME ShapeInv, NEW batch \in Batches
  PROVE  LET c == Oldest(DOMAIN batch, setting.concurrency)
         IN  /\ ChunkOf(batch) \in Pass /\ ChunkOf(batch).on
             /\ c \in SUBSET DOMAIN batch /\ Cardinality(c) <= setting.concurrency
             /\ DOMAIN ChunkOf(batch).tasks = c
             /\ \A m \in c : ChunkOf(batch).tasks[m] = NewTask(batch[m])
             /\ DOMAIN ChunkOf(batch).batch = DOMAIN batch \ c
             /\ \A m \in DOMAIN batch \ c : ChunkOf(batch).batch[m] = batch[m]
<1> DEFINE c == Oldest(DOMAIN batch, setting.concurrency)
           ts == [m \in c |-> NewTask(batch[m])]
           rest == [m \in DOMAIN batch \ c |-> batch[m]]
<1>1. DOMAIN batch \in SUBSET Memory /\ batch \in [DOMAIN batch -> Fetched]
  BY BatchesAre
<1>2. c \in SUBSET DOMAIN batch /\ Cardinality(c) <= setting.concurrency
  BY <1>1, OldestFew, SettingsAre DEF ShapeInv
<1>3. ASSUME NEW r \in Fetched PROVE NewTask(r) \in Task
  BY TextsAre DEF NewTask, Task, Phases, Fetched
<1>4. ts \in [c -> Task] /\ c \in SUBSET Memory
  BY <1>1, <1>2, <1>3
<1>5. rest \in [DOMAIN batch \ c -> Fetched] /\ DOMAIN batch \ c \in SUBSET Memory
  BY <1>1
<1>6. ts \in Tasks /\ rest \in Batches
  <2> HIDE DEF ts, rest, c
  <2>1. [c -> Task] \subseteq Tasks
    BY <1>4, TasksAre
  <2>2. [DOMAIN batch \ c -> Fetched] \subseteq Batches
    BY <1>5, BatchesAre
  <2> QED BY <1>4, <1>5, <2>1, <2>2
<1>7. ChunkOf(batch) = [on |-> TRUE, batch |-> rest, tasks |-> ts]
  BY DEF ChunkOf
<1> HIDE DEF c
<1>8. DOMAIN ts = c /\ (\A m \in c : ts[m] = NewTask(batch[m]))
      /\ DOMAIN rest = DOMAIN batch \ c /\ \A m \in DOMAIN batch \ c : rest[m] = batch[m]
  OBVIOUS
<1> HIDE DEF ts, rest
<1>9. ChunkOf(batch) \in Pass
  BY <1>6, <1>7 DEF Pass
<1> QED BY <1>2, <1>7, <1>8, <1>9 DEF c

\* A row is soft-deleted, and nothing else is.
Gone(r) ==
  /\ rows' \in [Row -> RowType]
  /\ \A q \in Row \ {r} : rows'[q] = rows[q]
  /\ rows'[r] = [rows[r] EXCEPT !.st = IF @ = "live" THEN "deleted" ELSE @]

LEMMA SoftDeleted ==
  ASSUME ShapeInv, NEW r, SoftDelete(r)
  PROVE  /\ rows' \in [Row -> RowType]
         /\ r \in Row => Gone(r)
         /\ \A q \in Row : rows'[q].says = rows[q].says /\ (rows'[q].st = "live" => Live(q))
<1>1. rows \in [Row -> RowType]
  BY DEF ShapeInv
<1>2. CASE r \in LiveRows
  <2>1. r \in Row /\ rows[r] \in RowType /\ rows[r].st = "live"
        /\ rows' = [rows EXCEPT ![r].st = "deleted"]
    BY <1>1, <1>2 DEF SoftDelete, LiveRows, Live
  <2> DEFINE d == [rows[r] EXCEPT !.st = "deleted"]
  <2>2. d \in RowType /\ d = [rows[r] EXCEPT !.st = IF @ = "live" THEN "deleted" ELSE @]
        /\ d.says = rows[r].says /\ d.st = "deleted"
    BY <2>1 DEF RowType
  <2>3. rows' = [rows EXCEPT ![r] = d]
    BY <2>1
  <2> HIDE DEF d
  <2>4. rows' \in [Row -> RowType] /\ rows'[r] = d /\ \A q \in Row \ {r} : rows'[q] = rows[q]
    BY <1>1, <2>1, <2>2, <2>3
  <2> QED BY <2>2, <2>4 DEF Gone, Live
<1>3. CASE r \notin LiveRows
  <2>1. rows' = rows
    BY <1>3 DEF SoftDelete
  <2>2. r \in Row => rows[r] \in RowType /\ rows[r].st # "live"
    BY <1>1, <1>3 DEF LiveRows, Live
  <2>3. r \in Row => rows[r] = [rows[r] EXCEPT !.st = IF @ = "live" THEN "deleted" ELSE @]
    BY <2>2 DEF RowType
  <2> QED BY <1>1, <2>1, <2>3 DEF Gone, Live
<1> QED BY <1>2, <1>3

LEMMA MovedShape ==
  ASSUME ShapeInv, NEW a \in Runner, NEW m, NEW ph, NEW seen, Moved(a, m, ph, seen),
         rows' \in [Row -> RowType], UNCHANGED <<config, ingest, con, proc>>,
         retired' \subseteq Fact, forgotten' \subseteq Fact
  PROVE  ShapeInv'
<1>1. ASSUME NEW b \in Runner PROVE FewTasks(b)'
  <2>1. DOMAIN passes'[b].tasks = DOMAIN passes[b].tasks /\ setting' = setting
    BY DEF Moved, config
  <2> QED BY <2>1 DEF ShapeInv, FewTasks
<1>2. Scanned' /\ con' \in ConType /\ setting' \in Settings
  BY DEF ShapeInv, Scanned, config
<1> QED BY <1>1, <1>2 DEF ShapeInv, Moved

\* Steps of ingest, of a user or of the process around the table.
LEMMA TableShape ==
  ASSUME ShapeInv, rows' \in [Row -> RowType], ingest' \subseteq Memory,
         retired' \subseteq Fact, forgotten' \subseteq Fact, UNCHANGED <<config, passes, con, proc>>
  PROVE  ShapeInv'
<1>1. ASSUME NEW b \in Runner PROVE FewTasks(b)'
  BY DEF ShapeInv, FewTasks, config
<1> QED BY <1>1 DEF ShapeInv, Scanned, config

LEMMA PassShape ==
  ASSUME ShapeInv, NEW a \in Runner, NEW p \in Pass,
         Cardinality(DOMAIN p.tasks) <= setting.concurrency, passes' = [passes EXCEPT ![a] = p],
         UNCHANGED <<config, rows, ingest, con, proc, retired, forgotten>>
  PROVE  ShapeInv'
<1>1. passes' \in [Runner -> Pass]
  BY DEF ShapeInv
<1>2. ASSUME NEW b \in Runner PROVE FewTasks(b)'
  <2>1. CASE b = a
    BY <2>1 DEF ShapeInv, FewTasks, config
  <2>2. CASE b # a
    BY <2>2 DEF ShapeInv, FewTasks, config
  <2> QED BY <2>1, <2>2
<1> QED BY <1>1, <1>2 DEF ShapeInv, Scanned, config

LEMMA ConShape ==
  ASSUME ShapeInv, rows' \in [Row -> RowType], con' \in ConType, Scanned',
         UNCHANGED <<config, ingest, passes, proc, retired, forgotten>>
  PROVE  ShapeInv'
<1>1. ASSUME NEW b \in Runner PROVE FewTasks(b)'
  BY DEF ShapeInv, FewTasks, config
<1> QED BY <1>1 DEF ShapeInv, config

LEMMA RowsTyped == ShapeInv => \A r \in Row : rows[r] \in RowType
  BY DEF ShapeInv

LEMMA IngestShape ==
  ASSUME ShapeInv, NEW m \in Memory,
         \/ \E f \in Fact, cands \in SUBSET LiveRows : StoreFact(m, f, cands)
         \/ MarkDeferred(m)
  PROVE  ShapeInv' /\ m \in Row /\ rows' \in [Row -> RowType]
<1>0. m \in Row
  BY DEF Row
<1>1. ASSUME NEW f \in Fact, NEW cands \in SUBSET LiveRows, StoreFact(m, f, cands)
      PROVE  ShapeInv' /\ rows' \in [Row -> RowType]
  <2>1. [st |-> "live", says |-> {f}, deferred |-> FALSE, cands |-> cands] \in RowType
    BY DEF LiveRows, RowType
  <2>2. rows' \in [Row -> RowType]
    BY <1>1, <2>1 DEF StoreFact, ShapeInv
  <2>3. ingest' \subseteq Memory /\ retired' \subseteq Fact /\ forgotten' \subseteq Fact
    BY <1>1 DEF StoreFact, ShapeInv
  <2> QED BY <1>1, <2>2, <2>3, TableShape DEF StoreFact
<1>2. CASE MarkDeferred(m)
  <2>1. [rows[m] EXCEPT !.deferred = TRUE] \in RowType
    <3>1. rows[m] \in RowType
      BY <1>0, RowsTyped
    <3> QED BY <3>1 DEF RowType
  <2>2. rows' \in [Row -> RowType]
    <3>1. rows \in [Row -> RowType] /\ rows' = [rows EXCEPT ![m].deferred = TRUE]
      BY <1>2 DEF MarkDeferred, ShapeInv
    <3> QED BY <1>0, <2>1, <3>1
  <2>3. ingest' \subseteq Memory
    BY <1>2 DEF MarkDeferred, ShapeInv
  <2>4. UNCHANGED <<config, passes, con, proc, retired, forgotten>>
    BY <1>2 DEF MarkDeferred
  <2>5. retired' \subseteq Fact /\ forgotten' \subseteq Fact
    BY <2>4 DEF ShapeInv
  <2> QED BY <1>0, <2>2, <2>3, <2>4, <2>5, TableShape
<1> QED BY <1>0, <1>1, <1>2

LEMMA DeleteShape ==
  ASSUME ShapeInv, NEW r \in Row, UserDelete(r)
  PROVE  ShapeInv' /\ Gone(r)
<1>1. rows[r] \in RowType
  BY RowsTyped
<1>2. Gone(r)
  BY SoftDeleted DEF UserDelete
<1>3. retired' \subseteq Fact /\ forgotten' \subseteq Fact
  BY <1>1 DEF UserDelete, ShapeInv, RowType
<1>4. UNCHANGED <<config, ingest, passes, con, proc>> /\ ingest' \subseteq Memory
  BY DEF UserDelete, ShapeInv
<1> QED BY <1>2, <1>3, <1>4, TableShape DEF Gone

LEMMA StartShape ==
  ASSUME ShapeInv, NEW a \in Runner, StartPass(a) \/ NextChunk(a)
  PROVE  ShapeInv'
<1>1. CASE StartPass(a)
  <2>1. ChunkOf(Batch) \in Pass
        /\ Cardinality(DOMAIN ChunkOf(Batch).tasks) <= setting.concurrency
    BY BatchIsTyped, ChunkIs
  <2>2. /\ passes' = [passes EXCEPT ![a] = ChunkOf(Batch)]
        /\ UNCHANGED <<config, rows, ingest, con, proc, retired, forgotten>>
    BY <1>1 DEF StartPass
  <2> HIDE DEF ChunkOf
  <2> QED BY <2>1, <2>2, PassShape
<1>2. CASE NextChunk(a)
  <2>1. /\ passes[a].batch \in Batches
        /\ \/ passes' = [passes EXCEPT ![a] = IdlePass]
           \/ passes' = [passes EXCEPT ![a] = ChunkOf(passes[a].batch)]
        /\ UNCHANGED <<config, rows, ingest, con, proc, retired, forgotten>>
    BY <1>2 DEF NextChunk, ShapeInv, Pass
  <2>2. ChunkOf(passes[a].batch) \in Pass
        /\ Cardinality(DOMAIN ChunkOf(passes[a].batch).tasks) <= setting.concurrency
    BY <2>1, ChunkIs
  <2>3. Cardinality(DOMAIN IdlePass.tasks) <= setting.concurrency
    BY IdleIsTyped, FS_EmptySet, SettingsAre DEF ShapeInv
  <2> QED BY <2>1, <2>2, <2>3, IdleIsTyped, PassShape
<1> QED BY <1>1, <1>2

\* The text of a merge: the memory's and what the task has read of the target.
Merge(a, m, c) == passes[a].tasks[m].says \cup SeenIn(a, m, c)

\* A live target says what the merge says; no other row changes.
LEMMA MergedRow ==
  ASSUME ShapeInv, NEW a \in Runner, NEW m \in Memory, NEW c, DecideUpdate(a, m, c)
  PROVE  /\ rows' \in [Row -> RowType] /\ \A q \in Row \ {c} : rows'[q] = rows[q]
         /\ \A q \in Row : rows'[q].st = rows[q].st /\ rows'[q].cands = rows[q].cands
         /\ c \in LiveRows => rows'[c].says = Merge(a, m, c)
         /\ c \notin LiveRows => rows' = rows
<1>0. rows \in [Row -> RowType]
  BY DEF ShapeInv
<1>1. m \in DOMAIN passes[a].tasks
  BY DEF DecideUpdate, InPhase
<1>2. Merge(a, m, c) \in SUBSET Fact
  BY <1>1, TaskIsTyped DEF Task, Merge, SeenIn
<1>3. CASE c \in LiveRows
  <2>1. c \in Row /\ rows[c] \in RowType /\ rows' = [rows EXCEPT ![c].says = Merge(a, m, c)]
    BY <1>0, <1>3 DEF DecideUpdate, LiveRows, Merge
  <2> DEFINE d == [rows[c] EXCEPT !.says = Merge(a, m, c)]
  <2>2. d \in RowType /\ d.st = rows[c].st /\ d.cands = rows[c].cands /\ d.says = Merge(a, m, c)
    BY <1>2, <2>1 DEF RowType
  <2>3. rows' = [rows EXCEPT ![c] = d]
    BY <2>1
  <2> HIDE DEF d
  <2>4. rows' \in [Row -> RowType] /\ rows'[c] = d /\ \A q \in Row \ {c} : rows'[q] = rows[q]
    BY <1>0, <2>1, <2>2, <2>3
  <2> QED BY <1>3, <2>2, <2>4
<1>4. CASE c \notin LiveRows
  BY <1>0, <1>4 DEF DecideUpdate
<1> QED BY <1>3, <1>4

\* The flag of a decided memory is cleared.
LEMMA ClearedRow ==
  ASSUME ShapeInv, NEW a \in Runner, NEW m \in Memory, ClearFlag(a, m)
  PROVE  /\ rows' \in [Row -> RowType] /\ \A q \in Row \ {m} : rows'[q] = rows[q]
         /\ rows'[m].st = rows[m].st /\ rows'[m].says = rows[m].says /\ rows'[m].cands = {}
<1>1. m \in Row /\ rows[m] \in RowType /\ rows \in [Row -> RowType]
  BY DEF ShapeInv, Row
<1> DEFINE r0 == [rows[m] EXCEPT !.deferred = FALSE]
           r1 == [r0 EXCEPT !.cands = {}]
           w0 == [rows EXCEPT ![m] = r0]
<1>2. r0 \in RowType /\ r0.st = rows[m].st /\ r0.says = rows[m].says
  BY <1>1 DEF RowType
<1>3. w0 \in [Row -> RowType] /\ w0[m] = r0 /\ \A q \in Row \ {m} : w0[q] = rows[q]
  BY <1>1, <1>2
<1>4. rows' = [w0 EXCEPT ![m].cands = {}]
  BY DEF ClearFlag
<1> HIDE DEF r0, w0
<1>5. r1 \in RowType /\ r1.st = rows[m].st /\ r1.says = rows[m].says /\ r1.cands = {}
  BY <1>2 DEF RowType
<1>6. rows' = [w0 EXCEPT ![m] = r1]
  BY <1>3, <1>4
<1> HIDE DEF r1
<1> QED BY <1>1, <1>3, <1>5, <1>6

LEMMA TaskShape ==
  ASSUME ShapeInv, NEW a \in Runner, NEW m \in Memory, TaskStep(a, m)
  PROVE  ShapeInv'
<1>0. m \in Row /\ rows \in [Row -> RowType]
  BY DEF Row, ShapeInv
<1>1. ASSUME NEW was, NEW ph \in Phases, InPhase(a, m, was), Advance(a, m, ph),
             rows' \in [Row -> RowType], retired' \subseteq Fact,
             UNCHANGED <<config, ingest, con, proc, forgotten>>
      PROVE  ShapeInv'
  <2>1. Moved(a, m, ph, passes[a].tasks[m].seen)
    BY <1>1, AdvanceMoves
  <2>2. forgotten' \subseteq Fact
    BY <1>1 DEF ShapeInv
  <2> QED BY <1>1, <2>1, <2>2, MovedShape
<1>2. retired \subseteq Fact
  BY DEF ShapeInv
<1>3. {"clear", "erase", "done"} \subseteq Phases
  BY DEF Phases
<1>4. CASE Refresh(a, m)
  <2>1. /\ UNCHANGED <<config, rows, ingest, con, proc, retired, forgotten>>
        /\ \E ph, seen : Moved(a, m, ph, seen)
    BY <1>4, RefreshMoves DEF Refresh
  <2>2. retired' \subseteq Fact /\ forgotten' \subseteq Fact /\ rows' \in [Row -> RowType]
    BY <1>0, <2>1 DEF ShapeInv
  <2> QED BY <2>1, <2>2, MovedShape
<1>5. CASE DecideNoop(a, m)
  <2>1. rows' \in [Row -> RowType]
    BY <1>0, <1>5, SoftDeleted DEF DecideNoop
  <2> QED BY <1>1, <1>2, <1>3, <1>5, <2>1 DEF DecideNoop
<1>6. CASE DecideDelete(a, m)
  <2>1. rows' \in [Row -> RowType]
    BY <1>0, <1>6, SoftDeleted DEF DecideDelete
  <2>2. passes[a].tasks[m].says \subseteq Fact
    BY <1>6, TaskIsTyped DEF DecideDelete, InPhase, Task
  <2>3. retired' \subseteq Fact
    BY <1>2, <1>6, <2>2 DEF DecideDelete
  <2> QED BY <1>1, <1>3, <1>6, <2>1, <2>3 DEF DecideDelete
<1>7. CASE DecideKeep(a, m)
  BY <1>0, <1>1, <1>2, <1>3, <1>7 DEF DecideKeep
<1>8. CASE DecideFails(a, m)
  BY <1>0, <1>1, <1>2, <1>3, <1>8 DEF DecideFails
<1>9. CASE EraseMerged(a, m)
  <2>1. rows' \in [Row -> RowType]
    BY <1>0, <1>9, SoftDeleted DEF EraseMerged
  <2> QED BY <1>1, <1>2, <1>3, <1>9, <2>1 DEF EraseMerged
<1>10. CASE ClearFlag(a, m)
  BY <1>1, <1>2, <1>3, <1>10, ClearedRow DEF ClearFlag
<1>11. ASSUME NEW c, DecideUpdate(a, m, c) PROVE ShapeInv'
  BY <1>1, <1>2, <1>3, <1>11, MergedRow DEF DecideUpdate
<1>12. ASSUME NEW c, DecideSupersede(a, m, c) PROVE ShapeInv'
  <2>1. rows' \in [Row -> RowType]
    BY <1>12, SoftDeleted DEF DecideSupersede
  <2>2. m \in DOMAIN passes[a].tasks
    BY <1>12 DEF DecideSupersede, InPhase
  <2>3. SeenIn(a, m, c) \subseteq Fact
    BY <2>2, TaskIsTyped DEF SeenIn
  <2>4. retired' \subseteq Fact
    BY <1>2, <1>12, <2>3 DEF DecideSupersede
  <2> QED BY <1>1, <1>3, <1>12, <2>1, <2>4 DEF DecideSupersede
<1> QED BY <1>4, <1>5, <1>6, <1>7, <1>8, <1>9, <1>10, <1>11, <1>12 DEF TaskStep

\* A scan keeps its clusters and the text of their rows.
LEMMA ScanIs ==
  ASSUME ShapeInv, NEW clusters \in SUBSET Clusters, Scan(clusters)
  PROVE  /\ con' \in ConType /\ Scanned' /\ con'.on
         /\ con'.clusters = clusters /\ con'.cluster = {} /\ con'.members = {}
         /\ DOMAIN con'.text = UNION clusters
         /\ \A r \in UNION clusters : Live(r) /\ con'.text[r] = rows[r].says
<1>1. UNION clusters \in SUBSET Row /\ clusters \in SUBSET SUBSET Row
      /\ \A r \in UNION clusters : Live(r)
  BY DEF Clusters, LiveRows
<1> DEFINE text == [r \in UNION clusters |-> rows[r].says]
<1>2. text \in [UNION clusters -> SUBSET Fact]
  BY <1>1, RowsTyped DEF RowType
<1>3. text \in Texts(Row) /\ DOMAIN text = UNION clusters
      /\ \A r \in UNION clusters : text[r] = rows[r].says
  <2>1. [UNION clusters -> SUBSET Fact] \subseteq Texts(Row)
    BY <1>1, TextsAre
  <2> QED BY <1>2, <2>1
<1>4. con' = [on |-> TRUE, clusters |-> clusters, text |-> text, cluster |-> {}, members |-> {}]
  BY DEF Scan, IdleCon
<1> HIDE DEF text
<1>5. con' \in ConType
  BY <1>1, <1>3, <1>4 DEF ConType
<1> QED BY <1>1, <1>3, <1>4, <1>5 DEF Scanned

\* A cluster is taken up: its members that are still live will be archived.
LEMMA SynthesizeIs ==
  ASSUME ShapeInv, NEW c \in con.clusters, Synthesize(c)
  PROVE  /\ con' = [con EXCEPT !.clusters = @ \ {c}, !.cluster = c,
                               !.members = {r \in c : Live(r)}]
         /\ con' \in ConType /\ con'.on = con.on /\ con'.text = con.text
         /\ con'.clusters = con.clusters \ {c} /\ con'.cluster = c
         /\ con'.members = {r \in c : Live(r)} /\ c # {}
<1> DEFINE valid == {r \in c : Live(r)}
<1>1. valid \in SUBSET Row /\ c \in SUBSET Row /\ con \in ConType /\ con.clusters \ {c} \in SUBSET SUBSET Row
  BY DEF ShapeInv, ConType
<1>2. c # {}
  <2>1. Cardinality(valid) >= 2
    BY DEF Synthesize
  <2> QED BY <2>1, FS_EmptySet
<1> DEFINE n0 == [con EXCEPT !.clusters = con.clusters \ {c}]
           n1 == [n0 EXCEPT !.cluster = c]
           n2 == [n1 EXCEPT !.members = valid]
<1>3. con' = n2
  BY DEF Synthesize
<1> HIDE DEF valid
<1>4. n0 \in ConType /\ n0.clusters = con.clusters \ {c} /\ n0.on = con.on /\ n0.text = con.text
  BY <1>1 DEF ConType
<1> HIDE DEF n0
<1>5. n1 \in ConType /\ n1.clusters = n0.clusters /\ n1.on = n0.on /\ n1.text = n0.text
      /\ n1.cluster = c
  BY <1>1, <1>4 DEF ConType
<1> HIDE DEF n1
<1>6. n2 \in ConType /\ n2.clusters = n1.clusters /\ n2.on = n1.on /\ n2.text = n1.text
      /\ n2.cluster = n1.cluster /\ n2.members = valid
  BY <1>1, <1>5 DEF ConType
<1> HIDE DEF n2
<1>7. con' = [con EXCEPT !.clusters = @ \ {c}, !.cluster = c, !.members = valid]
  BY DEF Synthesize, valid
<1> QED BY <1>2, <1>3, <1>4, <1>5, <1>6, <1>7 DEF valid

\* The summary of the cluster in hand, in a row set aside for summaries.
SummaryOf == UNION {con.text[r] : r \in con.cluster}

LEMMA SummaryIs ==
  ASSUME ShapeInv, NEW s \in Summary, StoreSummary(s)
  PROVE  /\ s \in Row /\ rows[s].st = "absent"
         /\ rows' \in [Row -> RowType] /\ \A q \in Row \ {s} : rows'[q] = rows[q]
         /\ rows'[s].st = "live" /\ rows'[s].says = SummaryOf /\ rows'[s].cands = rows[s].cands
         /\ con' \in ConType /\ con' = [con EXCEPT !.cluster = {}]
<1>1. s \in Row /\ rows[s] \in RowType /\ rows \in [Row -> RowType] /\ con \in ConType
  BY DEF ShapeInv, Row
<1>2. SummaryOf \in SUBSET Fact
  <2>1. con.text \in Texts(Row) /\ con.cluster \subseteq DOMAIN con.text
    BY <1>1 DEF ConType, ShapeInv, Scanned
  <2>2. \A r \in con.cluster : con.text[r] \in SUBSET Fact
    BY <2>1, TextsAre
  <2> QED BY <2>2 DEF SummaryOf
<1> DEFINE r0 == [rows[s] EXCEPT !.st = "live"]
           r1 == [r0 EXCEPT !.says = SummaryOf]
           w0 == [rows EXCEPT ![s] = r0]
<1>3. r0 \in RowType /\ r0.st = "live" /\ r0.cands = rows[s].cands
  BY <1>1 DEF RowType
<1>4. w0 \in [Row -> RowType] /\ w0[s] = r0 /\ \A q \in Row \ {s} : w0[q] = rows[q]
  BY <1>1, <1>3
<1>5. rows' = [w0 EXCEPT ![s].says = SummaryOf]
  BY DEF StoreSummary, SummaryOf
<1> HIDE DEF r0, w0
<1>6. r1 \in RowType /\ r1.st = "live" /\ r1.says = SummaryOf /\ r1.cands = r0.cands
  BY <1>2, <1>3 DEF RowType
<1>7. rows' = [w0 EXCEPT ![s] = r1]
  BY <1>4, <1>5
<1> HIDE DEF r1
<1>8. con' \in ConType /\ con' = [con EXCEPT !.cluster = {}] /\ rows[s].st = "absent"
  BY <1>1 DEF StoreSummary, ConType
<1> QED BY <1>1, <1>3, <1>4, <1>6, <1>7, <1>8

LEMMA ConsolidationShape ==
  ASSUME ShapeInv,
         \/ \E c, d \in Clusters : Scan({c, d})
         \/ ConsolidationStep
  PROVE  ShapeInv'
<1>0. rows \in [Row -> RowType] /\ con \in ConType /\ Scanned
  BY DEF ShapeInv
<1>1. ASSUME NEW c \in Clusters, NEW d \in Clusters, Scan({c, d})
      PROVE  ShapeInv'
  <2>1. con' \in ConType /\ Scanned'
    BY <1>1, ScanIs
  <2>2. UNCHANGED <<config, rows, ingest, passes, proc, retired, forgotten>>
    BY <1>1 DEF Scan
  <2> QED BY <1>0, <2>1, <2>2, ConShape
<1>2. ASSUME NEW c \in con.clusters, Synthesize(c) PROVE ShapeInv'
  <2>1. con' \in ConType /\ Scanned'
    BY <1>0, <1>2, SynthesizeIs DEF Scanned
  <2>2. UNCHANGED <<config, rows, ingest, passes, proc, retired, forgotten>>
    BY <1>2 DEF Synthesize
  <2> QED BY <1>0, <2>1, <2>2, ConShape
<1>3. ASSUME NEW c \in con.clusters, SkipCluster(c) PROVE ShapeInv'
  <2>1. con' \in ConType /\ Scanned'
    BY <1>0, <1>3 DEF SkipCluster, Scanned, ConType
  <2>2. UNCHANGED <<config, rows, ingest, passes, proc, retired, forgotten>>
    BY <1>3 DEF SkipCluster
  <2> QED BY <1>0, <2>1, <2>2, ConShape
<1>4. ASSUME NEW s \in Summary, StoreSummary(s) PROVE ShapeInv'
  <2>1. con' \in ConType /\ con' = [con EXCEPT !.cluster = {}] /\ rows' \in [Row -> RowType]
    BY <1>4, SummaryIs
  <2>2. Scanned'
    BY <1>0, <2>1 DEF Scanned, ConType
  <2>3. UNCHANGED <<config, ingest, passes, proc, retired, forgotten>>
    BY <1>4 DEF StoreSummary
  <2> QED BY <2>1, <2>2, <2>3, ConShape
<1>5. ASSUME NEW r \in con.members, ArchiveMember(r) PROVE ShapeInv'
  <2>1. r \in Row
    BY <1>0 DEF ConType
  <2>2. rows' \in [Row -> RowType]
    BY <1>5, <2>1, SoftDeleted DEF ArchiveMember
  <2>3. con' \in ConType /\ Scanned'
    BY <1>0, <1>5 DEF ArchiveMember, Scanned, ConType
  <2>4. UNCHANGED <<config, ingest, passes, proc, retired, forgotten>>
    BY <1>5 DEF ArchiveMember
  <2> QED BY <2>2, <2>3, <2>4, ConShape
<1>6. CASE EndConsolidation
  <2>1. con' \in ConType /\ Scanned'
    BY <1>6, IdleIsTyped DEF EndConsolidation, Scanned
  <2>2. UNCHANGED <<config, rows, ingest, passes, proc, retired, forgotten>>
    BY <1>6 DEF EndConsolidation
  <2> QED BY <1>0, <2>1, <2>2, ConShape
<1> QED BY <1>1, <1>2, <1>3, <1>4, <1>5, <1>6 DEF ConsolidationStep

LEMMA ProcessShape ==
  ASSUME ShapeInv, Stop \/ Exit \/ Crash \/ Restart
  PROVE  ShapeInv'
<1>1. CASE Stop \/ Restart
  <2>1. UNCHANGED <<config, rows, ingest, passes, con, retired, forgotten>>
        /\ proc' \in {"up", "stopping", "down"}
    BY <1>1 DEF Stop, Restart
  <2>2. ASSUME NEW b \in Runner PROVE FewTasks(b)'
    BY <2>1 DEF ShapeInv, FewTasks, config
  <2> QED BY <2>1, <2>2 DEF ShapeInv, Scanned, config
<1>2. CASE Exit \/ Crash
  <2>1. LoseMemory
    BY <1>2 DEF Exit, Crash
  <2>2. ASSUME NEW b \in Runner PROVE FewTasks(b)'
    <3>1. Cardinality(DOMAIN passes'[b].tasks) = 0 /\ setting' = setting
      BY <2>1, IdleIsTyped, FS_EmptySet DEF LoseMemory, config
    <3> QED BY <3>1, SettingsAre DEF ShapeInv, FewTasks
  <2>3. passes' \in [Runner -> Pass] /\ con' \in ConType /\ Scanned'
    BY <2>1, IdleIsTyped DEF LoseMemory, Scanned
  <2> QED BY <2>1, <2>2, <2>3 DEF ShapeInv, LoseMemory, config
<1> QED BY <1>1, <1>2

LEMMA ShapeStep == ShapeInv /\ [Next]_vars => ShapeInv'
<1> SUFFICES ASSUME ShapeInv, [Next]_vars PROVE ShapeInv'
  OBVIOUS
<1>1. CASE UNCHANGED vars
  <2>1. ASSUME NEW b \in Runner PROVE FewTasks(b)'
    BY <1>1 DEF ShapeInv, FewTasks, vars, config
  <2> QED BY <1>1, <2>1 DEF ShapeInv, Scanned, vars, config
<1>2. CASE Next
  BY <1>2, IngestShape, DeleteShape, StartShape, TaskShape, ConsolidationShape, ProcessShape
  DEF Next, PassStep
<1> QED BY <1>1, <1>2

\* The shape of the state: a pass holds a task for each memory of its chunk and never
\* more than the configured concurrency, what tasks and requests have read are texts of
\* rows, and a consolidation has scanned every row it still has to summarize.
THEOREM TypeCorrect == Spec => []TypeOK
<1>1. Init => ShapeInv
  BY ShapeInitial
<1>2. ShapeInv /\ [Next]_vars => ShapeInv'
  BY ShapeStep
<1>3. ShapeInv => TypeOK
  BY ShapeIsTypeOK
<1> QED BY <1>1, <1>2, <1>3, PTL DEF Spec

--------------------------------------------------------------------------------
(* One actor at a time, one task at a time, and no target but candidates: no fact  *)
(* is lost.                                                                        *)

\* Whoever is active is alone, and who is not has nothing in hand.
OneActor ==
  /\ ingest # {} => ~con.on /\ \A a \in Runner : ~passes[a].on
  /\ con.on => \A a \in Runner : ~passes[a].on
  /\ \A a, b \in Runner : passes[a].on /\ passes[b].on => a = b
  /\ \A a \in Runner : ~passes[a].on =>
       DOMAIN passes[a].tasks = {} /\ DOMAIN passes[a].batch = {}
  /\ ~con.on => con.clusters = {} /\ con.cluster = {} /\ con.members = {}

\* Memories are stored in order, and a memory's candidates are older than it is: a
\* decision never writes to a memory that the pass has still to come to.
Ordered ==
  /\ \A m \in Memory : \A c \in rows[m].cands : c \in Memory => c < m
  /\ \A m, k \in Memory : k < m /\ rows[m].st # "absent" => rows[k].st # "absent"

\* What a task has read is what the table says, up to the statement that changes it;
\* between the statements of a merge another live row says it too.
TaskReads(m, t) ==
  /\ t.phase \in {"refresh", "apply", "erase"} => Live(m) /\ t.says = rows[m].says
  /\ t.phase = "refresh" => t.cands = rows[m].cands
  /\ t.phase = "apply" => \A c \in DOMAIN t.seen :
       c \in rows[m].cands /\ Live(c) /\ t.seen[c] = rows[c].says
  /\ t.phase = "erase" => \E c \in Row \ {m} : Live(c) /\ t.says \subseteq rows[c].says

PassReads(a) ==
  /\ \A m, k \in DOMAIN passes[a].tasks : m = k
  /\ \A m \in DOMAIN passes[a].tasks, q \in DOMAIN passes[a].batch : m < q
  /\ \A q \in DOMAIN passes[a].batch : Live(q) /\ passes[a].batch[q] = RowRead(q)
  /\ \A m \in DOMAIN passes[a].tasks : TaskReads(m, passes[a].tasks[m])

\* The text of the rows to be summarized is theirs; once their summary is stored, a
\* live row that stays says what the members still to be archived say.
ConReads ==
  /\ \A c, d \in con.clusters : c # d => c \cap d = {}
  /\ \A r \in con.cluster \cup UNION con.clusters : Live(r) /\ con.text[r] = rows[r].says
  /\ \A r \in con.members : r \notin UNION con.clusters
  /\ con.cluster # {} => con.members \subseteq con.cluster
  /\ con.cluster = {} /\ con.members # {} =>
       \E s \in Row : /\ Live(s) /\ s \notin con.members /\ s \notin UNION con.clusters
                      /\ \A r \in con.members : rows[r].says \subseteq rows[s].says

Serial == OneActor /\ Ordered /\ (\A a \in Runner : PassReads(a)) /\ ConReads /\ FactsKept

SerialInv == OneAtATime /\ strays = 0 => Serial

LEMMA MemoriesAreRows ==
  /\ Memory \subseteq Nat /\ Memory \subseteq Row /\ Summary \subseteq Row
  /\ \A s \in Summary : s \notin Memory
<1>1. NumMemories \in Nat /\ NumSummaries \in Nat
  BY MaintenanceAssumption
<1> QED BY <1>1 DEF Memory, Summary, Row

LEMMA KeptIs ==
  ASSUME ShapeInv, FactsKept
  PROVE  \A r \in Row : \A f \in rows[r].says : rows[r].st # "absent" /\ f \notin retired
              => \E q \in Row : Live(q) /\ f \in rows[q].says
<1>1. \A f : f \in Said <=> \E q \in Row : Live(q) /\ f \in rows[q].says
  BY DEF Said, LiveRows
<1>2. ASSUME NEW r \in Row, NEW f \in rows[r].says, rows[r].st # "absent" PROVE f \in Stored
  BY <1>2, RowsTyped DEF Stored, RowType
<1> QED BY <1>1, <1>2 DEF FactsKept

LEMMA KeptThen ==
  ASSUME \A r \in Row : \A f \in rows'[r].says : rows'[r].st # "absent" /\ f \notin retired'
           => \E q \in Row : rows'[q].st = "live" /\ f \in rows'[q].says
  PROVE  FactsKept'
<1>1. \A f : f \in Said' <=> \E q \in Row : rows'[q].st = "live" /\ f \in rows'[q].says
  BY DEF Said, LiveRows, Live
<1>2. \A f \in Stored' : f \notin retired' => f \in Said'
  BY <1>1 DEF Stored
<1> QED BY <1>1, <1>2 DEF FactsKept

\* Rows keep their state and their text.
LEMMA KeptSame ==
  ASSUME ShapeInv, FactsKept, UNCHANGED retired,
         \A q \in Row : rows'[q].st = rows[q].st /\ rows'[q].says = rows[q].says
  PROVE  FactsKept'
<1> QED BY KeptIs, KeptThen DEF Live

\* A row goes whose facts are retired, or said elsewhere.
LEMMA KeptGone ==
  ASSUME ShapeInv, FactsKept, NEW r \in Row, Gone(r), retired \subseteq retired',
         \A f \in rows[r].says :
            f \in retired' \/ \E q \in Row \ {r} : Live(q) /\ f \in rows[q].says
  PROVE  FactsKept'
<1>1. rows'[r].says = rows[r].says /\ rows'[r].st # "live"
      /\ (rows'[r].st # "absent" <=> rows[r].st # "absent")
  BY RowsTyped DEF Gone, RowType
<1>2. ASSUME NEW q \in Row, NEW f \in rows'[q].says, rows'[q].st # "absent", f \notin retired'
      PROVE  \E p \in Row : rows'[p].st = "live" /\ f \in rows'[p].says
  <2>1. f \in rows[q].says /\ rows[q].st # "absent" /\ f \notin retired
    BY <1>1, <1>2 DEF Gone
  <2>2. PICK p \in Row : Live(p) /\ f \in rows[p].says
    BY <2>1, KeptIs
  <2>3. \E p2 \in Row \ {r} : Live(p2) /\ f \in rows[p2].says
    BY <1>2, <2>2
  <2> QED BY <2>3 DEF Gone, Live
<1> QED BY <1>2, KeptThen

\* A row takes a text that covers what it said.
LEMMA KeptWritten ==
  ASSUME ShapeInv, FactsKept, NEW c \in Row, \A q \in Row \ {c} : rows'[q] = rows[q],
         rows'[c].st = "live", rows[c].st = "absent" \/ rows[c].says \subseteq rows'[c].says,
         NEW f, retired \ {f} \subseteq retired', f \in rows'[c].says \/ retired \subseteq retired'
  PROVE  FactsKept'
<1>1. ASSUME NEW q \in Row, NEW g \in rows'[q].says, rows'[q].st # "absent", g \notin retired'
      PROVE  \E p \in Row : rows'[p].st = "live" /\ g \in rows'[p].says
  <2>1. CASE g \in rows'[c].says
    BY <2>1
  <2>2. CASE g \notin rows'[c].says
    <3>1. q # c /\ rows'[q] = rows[q] /\ g \notin retired
      BY <1>1, <2>2
    <3>2. PICK p \in Row : Live(p) /\ g \in rows[p].says
      BY <1>1, <3>1, KeptIs
    <3>3. p # c
      BY <2>2, <3>2 DEF Live
    <3> QED BY <3>2, <3>3 DEF Live
  <2> QED BY <2>1, <2>2
<1> QED BY <1>1, KeptThen

LEMMA OrderedStays ==
  ASSUME Ordered, \A q \in Memory : /\ rows'[q].st = "absent" <=> rows[q].st = "absent"
                                    /\ rows'[q].cands \subseteq rows[q].cands
  PROVE  Ordered'
  BY DEF Ordered

\* Nobody has anything in hand: the table may change as it does.
LEMMA IdleReads ==
  ASSUME OneActor, \A a \in Runner : ~passes[a].on, UNCHANGED passes
  PROVE  \A a \in Runner : PassReads(a)'
<1>1. \A a \in Runner : DOMAIN passes'[a].tasks = {} /\ DOMAIN passes'[a].batch = {}
  BY DEF OneActor
<1> QED BY <1>1 DEF PassReads

LEMMA IdleConReads ==
  ASSUME OneActor, ~con.on, UNCHANGED con
  PROVE  ConReads'
<1>1. con'.clusters = {} /\ con'.cluster = {} /\ con'.members = {}
  BY DEF OneActor
<1> QED BY <1>1 DEF ConReads

LEMMA SerialInitial == Init => Serial
<1> SUFFICES ASSUME Init PROVE Serial
  OBVIOUS
<1>1. \A a \in Runner : passes[a] = IdlePass
  BY DEF Init
<1>2. \A r \in Row : rows[r].st = "absent" /\ rows[r].cands = {}
  BY DEF Init
<1>3. con = IdleCon /\ con.clusters = {} /\ con.cluster = {} /\ con.members = {} /\ ~con.on
  BY DEF Init, IdleCon
<1>4. OneActor /\ \A a \in Runner : PassReads(a)
  BY <1>1, <1>3, IdleIsTyped DEF Init, OneActor, PassReads, IdlePass
<1>5. Ordered
  BY <1>2, MemoriesAreRows DEF Ordered
<1>6. ConReads
  BY <1>3 DEF ConReads
<1>7. FactsKept
  <2>1. Stored = {}
    BY <1>2 DEF Stored
  <2> QED BY <2>1 DEF FactsKept
<1> QED BY <1>4, <1>5, <1>6, <1>7 DEF Serial

LEMMA MayStartIsQuiet ==
  ASSUME ShapeInv, OneAtATime, MayStart
  PROVE  Quiet
  BY DEF MayStart, OneAtATime

LEMMA StoreSerial ==
  ASSUME ShapeInv, OneAtATime, Serial, NEW m \in Memory, NEW f \in Fact,
         NEW cands \in SUBSET LiveRows, StoreFact(m, f, cands)
  PROVE  Serial'
<1>0. Quiet /\ m \in Row /\ m \in Nat /\ rows[m].st = "absent"
  BY MayStartIsQuiet, MemoriesAreRows DEF StoreFact
<1>1. /\ rows' = [rows EXCEPT ![m] = [st |-> "live", says |-> {f}, deferred |-> FALSE,
                                      cands |-> cands]]
      /\ retired' = retired \ {f}
      /\ UNCHANGED <<passes, con>>
  BY DEF StoreFact
<1>2. /\ rows'[m].st = "live" /\ rows'[m].says = {f} /\ rows'[m].cands = cands
      /\ \A q \in Row \ {m} : rows'[q] = rows[q]
  BY <1>0, <1>1 DEF ShapeInv
<1>3. OneActor'
  BY <1>0, <1>1 DEF Serial, OneActor, Quiet
<1>4. (\A a \in Runner : PassReads(a)') /\ ConReads'
  BY <1>0, <1>1, IdleReads, IdleConReads DEF Serial, Quiet
<1>5. Ordered'
  <2>1. ASSUME NEW c \in cands, c \in Memory PROVE c < m
    <3>1. rows[c].st # "absent" /\ c \in Nat
      BY <2>1, MemoriesAreRows DEF LiveRows, Live
    <3>2. ~(m < c) /\ c # m
      BY <1>0, <2>1, <3>1 DEF Serial, Ordered
    <3> QED BY <1>0, <3>1, <3>2
  <2>2. ASSUME NEW k \in Memory, k < m PROVE rows[k].st # "absent"
    <3>1. m > 1 /\ k \in Nat /\ m - 1 \in Memory
      BY <1>0, <2>2, MemoriesAreRows, MaintenanceAssumption DEF Memory
    <3>2. rows[m - 1].st # "absent" /\ (k = m - 1 \/ k < m - 1)
      BY <1>0, <2>2, <3>1 DEF StoreFact
    <3> QED BY <3>1, <3>2 DEF Serial, Ordered
  <2>3. ASSUME NEW j \in Memory, NEW k \in Memory, k < j, rows'[j].st # "absent"
        PROVE  rows'[k].st # "absent"
    <3>1. CASE k = m
      BY <1>2, <3>1
    <3>2. CASE k # m /\ j = m
      BY <1>2, <2>2, <2>3, <3>2, MemoriesAreRows
    <3>3. CASE k # m /\ j # m
      BY <1>2, <2>3, <3>3, MemoriesAreRows DEF Serial, Ordered
    <3> QED BY <3>1, <3>2, <3>3
  <2>4. ASSUME NEW j \in Memory, NEW c \in rows'[j].cands, c \in Memory PROVE c < j
    <3>1. CASE j = m
      BY <1>2, <2>1, <2>4, <3>1
    <3>2. CASE j # m
      BY <1>2, <2>4, <3>2, MemoriesAreRows DEF Serial, Ordered
    <3> QED BY <3>1, <3>2
  <2> QED BY <2>3, <2>4 DEF Ordered
<1>6. FactsKept'
  <2>1. retired \ {f} \subseteq retired' /\ f \in rows'[m].says
    BY <1>1, <1>2
  <2> QED BY <1>0, <1>2, <2>1, KeptWritten DEF Serial
<1> QED BY <1>3, <1>4, <1>5, <1>6 DEF Serial

LEMMA MarkSerial ==
  ASSUME ShapeInv, OneAtATime, Serial, NEW m \in Memory, MarkDeferred(m)
  PROVE  Serial'
<1>0. ~con.on /\ \A a \in Runner : ~passes[a].on
  BY DEF MarkDeferred, Serial, OneActor
<1>1. UNCHANGED <<passes, con, retired>>
  BY DEF MarkDeferred
<1>2. \A q \in Row : rows'[q].st = rows[q].st /\ rows'[q].says = rows[q].says
                     /\ rows'[q].cands = rows[q].cands
  <2>1. rows' = [rows EXCEPT ![m].deferred = TRUE]
    BY DEF MarkDeferred
  <2>2. m \in Row /\ rows \in [Row -> RowType] /\ rows[m] \in RowType
    BY MemoriesAreRows DEF ShapeInv
  <2>3. rows'[m].st = rows[m].st /\ rows'[m].says = rows[m].says /\ rows'[m].cands = rows[m].cands
    BY <2>1, <2>2 DEF RowType
  <2>4. \A q \in Row \ {m} : rows'[q] = rows[q]
    BY <2>1, <2>2
  <2> QED BY <2>3, <2>4
<1>3. OneActor'
  BY <1>0, <1>1 DEF Serial, OneActor
<1>4. (\A a \in Runner : PassReads(a)') /\ ConReads'
  BY <1>0, <1>1, IdleReads, IdleConReads DEF Serial
<1>5. Ordered'
  BY <1>2, OrderedStays, MemoriesAreRows DEF Serial
<1>6. FactsKept'
  BY <1>1, <1>2, KeptSame DEF Serial
<1> QED BY <1>3, <1>4, <1>5, <1>6 DEF Serial

LEMMA UserSerial ==
  ASSUME ShapeInv, OneAtATime, Serial, NEW r \in Row, UserDelete(r)
  PROVE  Serial'
<1>0. Quiet /\ Gone(r) /\ Live(r) /\ rows[r] \in RowType
  BY MayStartIsQuiet, DeleteShape, RowsTyped DEF UserDelete
<1>1. /\ retired' = retired \cup rows[r].says
      /\ UNCHANGED <<ingest, passes, con>>
  BY DEF UserDelete
<1>2. /\ rows'[r].st = "deleted" /\ rows'[r].says = rows[r].says /\ rows'[r].cands = rows[r].cands
      /\ \A q \in Row \ {r} : rows'[q] = rows[q]
  BY <1>0 DEF Gone, RowType, Live
<1>3. OneActor'
  BY <1>0, <1>1 DEF Serial, OneActor, Quiet
<1>4. (\A a \in Runner : PassReads(a)') /\ ConReads'
  BY <1>0, <1>1, IdleReads, IdleConReads DEF Serial, Quiet
<1>5. Ordered'
  <2>1. rows[r].st = "live"
    BY <1>0 DEF Live
  <2>2. \A q \in Row : rows'[q].cands = rows[q].cands
                       /\ (rows'[q].st = "absent" <=> rows[q].st = "absent")
    BY <1>2, <2>1
  <2> QED BY <2>2, OrderedStays, MemoriesAreRows DEF Serial
<1>6. FactsKept'
  <2>1. ASSUME NEW q \in Row, NEW g \in rows'[q].says, rows'[q].st # "absent", g \notin retired'
        PROVE  \E p \in Row : rows'[p].st = "live" /\ g \in rows'[p].says
    <3>1. q # r /\ g \in rows[q].says /\ rows[q].st # "absent" /\ g \notin retired
          /\ g \notin rows[r].says
      BY <1>1, <1>2, <2>1
    <3>2. PICK p \in Row : Live(p) /\ g \in rows[p].says
      BY <3>1, KeptIs DEF Serial
    <3> QED BY <1>2, <3>1, <3>2 DEF Live
  <2> QED BY <2>1, KeptThen
<1> QED BY <1>3, <1>4, <1>5, <1>6 DEF Serial

\* A chunk of one: the oldest memory left, whose text is the table's.
LEMMA ChunkReads ==
  ASSUME ShapeInv, setting.concurrency = 1, NEW a \in Runner, NEW batch \in Batches,
         \A q \in DOMAIN batch : Live(q) /\ batch[q] = RowRead(q),
         UNCHANGED rows, passes'[a] = ChunkOf(batch)
  PROVE  PassReads(a)' /\ passes'[a].on
<1> DEFINE c == Oldest(DOMAIN batch, 1)
<1>0. PICK p : p = ChunkOf(batch)
  OBVIOUS
<1>1. DOMAIN batch \in SUBSET Memory
  BY BatchesAre
<1>2. /\ p.on /\ c \in SUBSET DOMAIN batch /\ DOMAIN p.tasks = c
      /\ \A m \in c : p.tasks[m] = NewTask(batch[m])
      /\ DOMAIN p.batch = DOMAIN batch \ c
      /\ \A m \in DOMAIN batch \ c : p.batch[m] = batch[m]
  BY <1>0, ChunkIs
<1>3. \A m \in c, q \in DOMAIN batch : m <= q /\ m \in Nat /\ q \in Nat
  BY <1>1, <1>2, OldestFirst, MemoriesAreRows
<1> HIDE DEF c
<1>4. (\A m, k \in c : m = k) /\ \A m \in c, q \in DOMAIN batch \ c : m < q
  <2>1. \A m \in c, k \in c : m <= k /\ k <= m /\ m \in Nat /\ k \in Nat
    BY <1>2, <1>3
  <2>2. \A m \in c, q \in DOMAIN batch \ c : m <= q /\ m # q /\ m \in Nat /\ q \in Nat
    BY <1>2, <1>3
  <2> QED BY <2>1, <2>2
<1>5. ASSUME NEW m \in c PROVE TaskReads(m, p.tasks[m])'
  <2>1. p.tasks[m] = NewTask(batch[m]) /\ Live(m) /\ batch[m] = RowRead(m)
    BY <1>2
  <2>2. /\ p.tasks[m].phase = "refresh" /\ p.tasks[m].says = rows[m].says
        /\ p.tasks[m].cands = rows[m].cands
    BY <2>1 DEF NewTask, RowRead
  <2> QED BY <2>1, <2>2 DEF TaskReads, Live
<1>6. passes'[a] = p
  BY <1>0
<1>7. \A m \in DOMAIN passes'[a].tasks : TaskReads(m, passes[a].tasks[m])'
  <2>1. ASSUME NEW m \in DOMAIN passes'[a].tasks PROVE TaskReads(m, passes[a].tasks[m])'
    <3>1. TaskReads(m, p.tasks[m])'
      BY <1>2, <1>5, <1>6
    <3> QED BY <1>6, <3>1 DEF TaskReads
  <2> QED BY <2>1
<1>8. \A q \in DOMAIN p.batch : rows'[q].st = "live" /\ p.batch[q] = RowRead(q)'
  BY <1>2 DEF Live, RowRead
<1> QED BY <1>2, <1>4, <1>6, <1>7, <1>8 DEF PassReads, Live

LEMMA StartSerial ==
  ASSUME ShapeInv, OneAtATime, Serial, NEW a \in Runner, StartPass(a) \/ NextChunk(a)
  PROVE  Serial'
<1>1. /\ ~con.on /\ ingest = {} /\ \A b \in Runner \ {a} : ~passes[b].on
      /\ UNCHANGED <<rows, ingest, con, retired>>
  <2>1. CASE StartPass(a)
    BY <2>1, MayStartIsQuiet DEF StartPass, Quiet
  <2>2. CASE NextChunk(a)
    BY <2>2 DEF NextChunk, Serial, OneActor
  <2> QED BY <2>1, <2>2
<1>2. /\ \A b \in Runner \ {a} : passes'[b] = passes[b]
      /\ \/ passes'[a] = IdlePass
         \/ \E batch \in Batches :
              /\ \A q \in DOMAIN batch : Live(q) /\ batch[q] = RowRead(q)
              /\ passes'[a] = ChunkOf(batch)
  <2>1. CASE StartPass(a)
    <3>1. passes' = [passes EXCEPT ![a] = ChunkOf(Batch)] /\ passes \in [Runner -> Pass]
      BY <2>1 DEF StartPass, ShapeInv
    <3> HIDE DEF ChunkOf, Batch
    <3> QED BY <3>1, BatchIsTyped
  <2>2. CASE NextChunk(a)
    <3>1. /\ passes \in [Runner -> Pass]
          /\ \/ passes' = [passes EXCEPT ![a] = IdlePass]
             \/ passes' = [passes EXCEPT ![a] = ChunkOf(passes[a].batch)]
      BY <2>2 DEF NextChunk, ShapeInv
    <3>2. passes[a].batch \in Batches
          /\ \A q \in DOMAIN passes[a].batch : Live(q) /\ passes[a].batch[q] = RowRead(q)
      BY <3>1 DEF Pass, Serial, PassReads
    <3> HIDE DEF ChunkOf, IdlePass
    <3> QED BY <3>1, <3>2
  <2> QED BY <2>1, <2>2
<1>3. \A b \in Runner \ {a} : PassReads(b)' /\ ~passes'[b].on
         /\ DOMAIN passes'[b].tasks = {} /\ DOMAIN passes'[b].batch = {}
  <2>1. \A b \in Runner \ {a} : /\ DOMAIN passes'[b].tasks = {} /\ DOMAIN passes'[b].batch = {}
                                /\ ~passes'[b].on
    BY <1>1, <1>2 DEF Serial, OneActor
  <2> QED BY <2>1 DEF PassReads
<1>4. CASE passes'[a] = IdlePass
  <2>1. DOMAIN passes'[a].tasks = {} /\ DOMAIN passes'[a].batch = {} /\ ~passes'[a].on
    BY <1>4, IdleIsTyped DEF IdlePass
  <2>2. OneActor' /\ PassReads(a)'
    BY <1>1, <1>3, <2>1 DEF OneActor, PassReads, Serial
  <2>3. Ordered' /\ ConReads' /\ FactsKept'
    BY <1>1, OrderedStays, IdleConReads, KeptSame, MemoriesAreRows DEF Serial
  <2> QED BY <1>3, <2>2, <2>3 DEF Serial
<1>5. ASSUME NEW batch \in Batches, passes'[a] = ChunkOf(batch),
             \A q \in DOMAIN batch : Live(q) /\ batch[q] = RowRead(q)
      PROVE  Serial'
  <2>1. PassReads(a)' /\ passes'[a].on
    BY <1>1, <1>5, ChunkReads DEF OneAtATime
  <2>2. OneActor'
    BY <1>1, <1>3, <2>1 DEF OneActor, Serial
  <2>3. Ordered' /\ ConReads' /\ FactsKept'
    BY <1>1, OrderedStays, IdleConReads, KeptSame, MemoriesAreRows DEF Serial
  <2> QED BY <1>3, <2>1, <2>2, <2>3 DEF Serial
<1> QED BY <1>2, <1>4, <1>5

\* The runner of a task is the actor that is active, and this is its only task.
LEMMA TaskAlone ==
  ASSUME ShapeInv, OneAtATime, Serial, NEW a \in Runner, NEW m \in DOMAIN passes[a].tasks
  PROVE  /\ passes[a].on /\ ingest = {} /\ ~con.on
         /\ \A b \in Runner \ {a} : ~passes[b].on
         /\ DOMAIN passes[a].tasks = {m} /\ TaskReads(m, passes[a].tasks[m])
         /\ \A q \in DOMAIN passes[a].batch : m < q
  BY DEF Serial, OneActor, PassReads

\* A step of a task that changes rows the pass has done with.
LEMMA TaskSerial ==
  ASSUME ShapeInv, OneAtATime, Serial, NEW a \in Runner, NEW m \in DOMAIN passes[a].tasks,
         NEW ph, NEW seen, Moved(a, m, ph, seen), UNCHANGED <<ingest, con>>,
         \A q \in Memory : q > m => rows'[q] = rows[q],
         \A q \in Memory : /\ rows'[q].st = "absent" <=> rows[q].st = "absent"
                           /\ rows'[q].cands \subseteq rows[q].cands,
         NEW t, t = InHand(passes[a].tasks[m], ph, seen),
         TaskReads(m, t)', FactsKept'
  PROVE  Serial'
<1>1. /\ passes[a].on /\ ingest = {} /\ ~con.on /\ DOMAIN passes[a].tasks = {m}
      /\ \A b \in Runner \ {a} : ~passes[b].on
      /\ \A q \in DOMAIN passes[a].batch : m < q
  BY TaskAlone
<1>2. /\ \A b \in Runner \ {a} : passes'[b] = passes[b]
      /\ passes'[a].on /\ passes'[a].batch = passes[a].batch
      /\ DOMAIN passes'[a].tasks = {m} /\ passes'[a].tasks[m] = t
  BY <1>1 DEF Moved
<1>3. OneActor'
  BY <1>1, <1>2 DEF OneActor, Serial
<1>4. PassReads(a)'
  <2>1. DOMAIN passes[a].batch \in SUBSET Memory
    <3>1. passes[a].batch \in Batches
      BY DEF ShapeInv, Pass
    <3> QED BY <3>1, BatchesAre
  <2>2. m \in Nat /\ \A q \in DOMAIN passes[a].batch : q > m /\ q \in Memory
    BY <1>1, <2>1, TaskIsTyped, MemoriesAreRows
  <2>3. \A q \in DOMAIN passes'[a].batch :
           rows'[q].st = "live" /\ passes'[a].batch[q] = RowRead(q)' /\ m < q
    BY <1>1, <1>2, <2>2 DEF Serial, PassReads, Live, RowRead
  <2>4. \A k \in DOMAIN passes'[a].tasks : TaskReads(k, passes[a].tasks[k])'
    BY <1>2 DEF TaskReads
  <2> QED BY <1>2, <2>3, <2>4 DEF PassReads, Live
<1>5. ASSUME NEW b \in Runner \ {a} PROVE PassReads(b)'
  <2>1. DOMAIN passes'[b].tasks = {} /\ DOMAIN passes'[b].batch = {}
    BY <1>1, <1>2 DEF Serial, OneActor
  <2> QED BY <2>1 DEF PassReads
<1>6. Ordered' /\ ConReads'
  BY <1>1, OrderedStays, IdleConReads DEF Serial
<1> QED BY <1>3, <1>4, <1>5, <1>6 DEF Serial

\* What Gone changes, in the form the steps of a task need it.
LEMMA GoneIs ==
  ASSUME ShapeInv, NEW r \in Row, Gone(r)
  PROVE  /\ \A q \in Row : /\ rows'[q].says = rows[q].says /\ rows'[q].cands = rows[q].cands
                           /\ rows'[q].st = "absent" <=> rows[q].st = "absent"
         /\ rows'[r].st # "live"
         /\ \A q \in Row \ {r} : rows'[q] = rows[q]
<1>1. /\ rows'[r].says = rows[r].says /\ rows'[r].cands = rows[r].cands
      /\ rows'[r].st = "absent" <=> rows[r].st = "absent"
      /\ rows'[r].st # "live"
  BY RowsTyped DEF Gone, RowType
<1>2. \A q \in Row \ {r} : rows'[q] = rows[q]
  BY DEF Gone
<1> QED BY <1>1, <1>2

\* Where a task of a pass stands, before it takes a step.
LEMMA TaskAt ==
  ASSUME ShapeInv, OneAtATime, Serial, NEW a \in Runner, NEW m \in Memory, NEW was,
         InPhase(a, m, was)
  PROVE  /\ m \in DOMAIN passes[a].tasks /\ m \in Row /\ m \in Nat
         /\ TaskReads(m, passes[a].tasks[m]) /\ passes[a].tasks[m].phase = was
         /\ \A c \in rows[m].cands : c \in Row /\ c # m /\ (c \in Memory => c < m)
         /\ \A c \in rows[m].cands : \A q \in Memory : q > m => q # c
<1>1. m \in DOMAIN passes[a].tasks /\ passes[a].tasks[m].phase = was /\ m \in Row /\ m \in Nat
  BY MemoriesAreRows DEF InPhase
<1>2. rows[m].cands \subseteq Row
  BY <1>1, RowsTyped DEF RowType
<1>3. \A c \in rows[m].cands : c \in Memory => c < m /\ c \in Nat
  BY MemoriesAreRows DEF Serial, Ordered
<1>4. ASSUME NEW c \in rows[m].cands, NEW q \in Memory, q > m PROVE q # c
  <2>1. SUFFICES ASSUME q = c PROVE FALSE
    OBVIOUS
  <2>2. q < m /\ q \in Nat
    BY <1>3, <1>4, <2>1
  <2> QED BY <1>1, <1>4, <2>2
<1> QED BY <1>1, <1>2, <1>3, <1>4, TaskAlone

\* A step that leaves the table, or takes the task's own row out of it.
LEMMA QuietTask ==
  ASSUME ShapeInv, OneAtATime, Serial, NEW a \in Runner, NEW m \in Memory, NEW was,
         InPhase(a, m, was), NEW ph \in {"clear", "done"}, Advance(a, m, ph),
         UNCHANGED <<ingest, con>>,
         \A q \in Memory : q > m => rows'[q] = rows[q],
         \A q \in Memory : /\ rows'[q].st = "absent" <=> rows[q].st = "absent"
                           /\ rows'[q].cands \subseteq rows[q].cands,
         FactsKept'
  PROVE  Serial'
<1>1. m \in DOMAIN passes[a].tasks /\ Moved(a, m, ph, passes[a].tasks[m].seen)
  BY AdvanceMoves DEF Phases
<1>2. PICK seen : seen = passes[a].tasks[m].seen
  OBVIOUS
<1>3. PICK t : t = InHand(passes[a].tasks[m], ph, seen)
  OBVIOUS
<1>4. TaskReads(m, t)'
  BY <1>3 DEF TaskReads, InHand
<1> QED BY <1>1, <1>2, <1>3, <1>4, TaskSerial

LEMMA RefreshSerial ==
  ASSUME ShapeInv, OneAtATime, Serial, NEW a \in Runner, NEW m \in Memory, Refresh(a, m)
  PROVE  Serial'
<1> DEFINE now == {c \in passes[a].tasks[m].cands : Live(c)}
<1>1. UNCHANGED <<rows, ingest, con, retired>> /\ InPhase(a, m, "refresh")
  BY DEF Refresh
<1>2. m \in DOMAIN passes[a].tasks /\ Live(m) /\ passes[a].tasks[m].says = rows[m].says
      /\ passes[a].tasks[m].cands = rows[m].cands
  BY <1>1, TaskAt DEF TaskReads
<1>3. PICK ph : ph = IF now = {} THEN "clear" ELSE "apply"
  OBVIOUS
<1>4. PICK seen : seen = [c \in now |-> rows[c].says]
  OBVIOUS
<1>5. Moved(a, m, ph, seen)
  BY <1>3, <1>4, RefreshMoves
<1>6. PICK t : t = InHand(passes[a].tasks[m], ph, seen)
  OBVIOUS
<1>7. t.phase \in {"clear", "apply"} /\ t.says = rows[m].says /\ DOMAIN t.seen = now
      /\ \A c \in now : t.seen[c] = rows[c].says
  BY <1>2, <1>3, <1>4, <1>6 DEF InHand
<1>8. TaskReads(m, t)'
  BY <1>1, <1>2, <1>7 DEF TaskReads, Live
<1>9. FactsKept'
  BY <1>1, KeptSame DEF Serial
<1> QED BY <1>1, <1>2, <1>5, <1>6, <1>8, <1>9, TaskSerial

LEMMA KeepSerial ==
  ASSUME ShapeInv, OneAtATime, Serial, NEW a \in Runner, NEW m \in Memory,
         DecideKeep(a, m) \/ DecideFails(a, m)
  PROVE  Serial'
<1>1. UNCHANGED <<rows, ingest, con, retired>> /\ InPhase(a, m, "apply")
      /\ \E ph \in {"clear", "done"} : Advance(a, m, ph)
  BY DEF DecideKeep, DecideFails
<1>2. FactsKept'
  BY <1>1, KeptSame DEF Serial
<1> QED BY <1>1, <1>2, QuietTask

LEMMA ClearSerial ==
  ASSUME ShapeInv, OneAtATime, Serial, NEW a \in Runner, NEW m \in Memory, ClearFlag(a, m)
  PROVE  Serial'
<1>1. UNCHANGED <<ingest, con, retired>> /\ InPhase(a, m, "clear")
      /\ Advance(a, m, "done")
  BY DEF ClearFlag
<1>2. /\ \A q \in Row \ {m} : rows'[q] = rows[q]
      /\ rows'[m].st = rows[m].st /\ rows'[m].says = rows[m].says /\ rows'[m].cands = {}
  BY ClearedRow
<1>3. FactsKept'
  BY <1>1, <1>2, KeptSame DEF Serial
<1> QED BY <1>1, <1>2, <1>3, QuietTask, MemoriesAreRows

\* The memory itself is removed: it is covered, retired, or merged already.
LEMMA RemoveSerial ==
  ASSUME ShapeInv, OneAtATime, Serial, NEW a \in Runner, NEW m \in Memory,
         DecideNoop(a, m) \/ DecideDelete(a, m) \/ EraseMerged(a, m)
  PROVE  Serial'
<1>1. UNCHANGED <<ingest, con>> /\ SoftDelete(m) /\ Advance(a, m, "clear")
      /\ retired \subseteq retired'
  BY DEF DecideNoop, DecideDelete, EraseMerged
<1>2. PICK was : InPhase(a, m, was) /\ was \in {"apply", "erase"}
  BY DEF DecideNoop, DecideDelete, EraseMerged
<1>3. /\ m \in DOMAIN passes[a].tasks /\ m \in Row /\ m \in Nat
      /\ TaskReads(m, passes[a].tasks[m]) /\ passes[a].tasks[m].phase = was
      /\ \A c \in rows[m].cands : c \in Row /\ c # m
  BY <1>2, TaskAt
<1>4. Gone(m)
  BY <1>1, <1>3, SoftDeleted
<1>5. passes[a].tasks[m].says = rows[m].says
  BY <1>2, <1>3 DEF TaskReads
<1>6. \A f \in rows[m].says :
         f \in retired' \/ \E q \in Row \ {m} : Live(q) /\ f \in rows[q].says
  <2>1. CASE DecideNoop(a, m)
    <3>1. PICK c \in DOMAIN passes[a].tasks[m].seen :
             passes[a].tasks[m].says \subseteq passes[a].tasks[m].seen[c]
      BY <2>1 DEF DecideNoop
    <3>2. passes[a].tasks[m].phase = "apply"
      BY <2>1 DEF DecideNoop, InPhase
    <3>3. c \in rows[m].cands /\ Live(c) /\ passes[a].tasks[m].seen[c] = rows[c].says
      BY <1>3, <3>1, <3>2 DEF TaskReads
    <3> QED BY <1>3, <1>5, <3>1, <3>3
  <2>2. CASE DecideDelete(a, m)
    BY <1>5, <2>2 DEF DecideDelete
  <2>3. CASE EraseMerged(a, m)
    <3>1. passes[a].tasks[m].phase = "erase"
      BY <2>3 DEF EraseMerged, InPhase
    <3>2. \E c \in Row \ {m} : Live(c) /\ passes[a].tasks[m].says \subseteq rows[c].says
      BY <1>3, <3>1 DEF TaskReads
    <3> QED BY <1>5, <3>2
  <2> QED BY <2>1, <2>2, <2>3
<1>7. FactsKept'
  BY <1>1, <1>3, <1>4, <1>6, KeptGone DEF Serial
<1>8. \A q \in Memory : q > m => rows'[q] = rows[q]
  <2>1. ASSUME NEW q \in Memory, q > m PROVE q # m /\ q \in Row
    <3>1. q \in Nat /\ q \in Row /\ m \in Nat
      BY <1>3, MemoriesAreRows
    <3> QED BY <2>1, <3>1
  <2> QED BY <1>3, <1>4, <2>1, GoneIs
<1>9. \A q \in Memory : /\ rows'[q].st = "absent" <=> rows[q].st = "absent"
                        /\ rows'[q].cands \subseteq rows[q].cands
  BY <1>3, <1>4, GoneIs, MemoriesAreRows
<1> QED BY <1>1, <1>2, <1>7, <1>8, <1>9, QuietTask

\* A candidate is replaced: what it said is retired, unless the memory says it too.
LEMMA SupersedeSerial ==
  ASSUME ShapeInv, OneAtATime, Serial, NEW a \in Runner, NEW m \in Memory, NEW c,
         DecideSupersede(a, m, c), strays \in Nat, strays' = strays
  PROVE  Serial'
<1>1. /\ UNCHANGED <<ingest, con>> /\ SoftDelete(c) /\ Advance(a, m, "clear")
      /\ InPhase(a, m, "apply") /\ c \in DOMAIN passes[a].tasks[m].seen
      /\ retired' = retired \cup (passes[a].tasks[m].seen[c] \ passes[a].tasks[m].says)
  BY DEF DecideSupersede, CountStray, SeenIn
<1>2. /\ m \in DOMAIN passes[a].tasks /\ m \in Row /\ m \in Nat
      /\ TaskReads(m, passes[a].tasks[m]) /\ passes[a].tasks[m].phase = "apply"
      /\ \A d \in rows[m].cands : d \in Row /\ d # m
      /\ \A d \in rows[m].cands : \A q \in Memory : q > m => q # d
  BY <1>1, TaskAt
<1>3. /\ c \in rows[m].cands /\ passes[a].tasks[m].seen[c] = rows[c].says
      /\ Live(m) /\ passes[a].tasks[m].says = rows[m].says /\ c \in Row
  BY <1>1, <1>2 DEF TaskReads
<1>4. Gone(c)
  BY <1>1, <1>3, SoftDeleted
<1>5. FactsKept'
  <2>1. \A f \in rows[c].says :
           f \in retired' \/ \E q \in Row \ {c} : Live(q) /\ f \in rows[q].says
    BY <1>1, <1>2, <1>3
  <2> QED BY <1>1, <1>3, <1>4, <2>1, KeptGone DEF Serial
<1>6. \A q \in Memory : q > m => rows'[q] = rows[q]
  <2>1. \A q \in Memory : q > m => q # c /\ q \in Row
    BY <1>2, <1>3, MemoriesAreRows
  <2> QED BY <1>3, <1>4, <2>1, GoneIs
<1>7. \A q \in Memory : /\ rows'[q].st = "absent" <=> rows[q].st = "absent"
                        /\ rows'[q].cands \subseteq rows[q].cands
  BY <1>3, <1>4, GoneIs, MemoriesAreRows
<1> QED BY <1>1, <1>5, <1>6, <1>7, QuietTask

\* The merged text goes to a live candidate, which from then on covers the memory.
LEMMA MergeSerial ==
  ASSUME ShapeInv, OneAtATime, Serial, NEW a \in Runner, NEW m \in Memory, NEW c,
         DecideUpdate(a, m, c), strays \in Nat, strays' = strays
  PROVE  Serial'
<1>1. /\ UNCHANGED <<ingest, con, retired>> /\ Advance(a, m, "erase")
      /\ InPhase(a, m, "apply") /\ c \in DOMAIN passes[a].tasks[m].seen
      /\ Merge(a, m, c) = passes[a].tasks[m].says \cup passes[a].tasks[m].seen[c]
  BY DEF DecideUpdate, CountStray, SeenIn, Merge
<1>2. /\ m \in DOMAIN passes[a].tasks /\ m \in Row /\ m \in Nat
      /\ TaskReads(m, passes[a].tasks[m]) /\ passes[a].tasks[m].phase = "apply"
      /\ \A d \in rows[m].cands : d \in Row /\ d # m
      /\ \A d \in rows[m].cands : \A q \in Memory : q > m => q # d
  BY <1>1, TaskAt
<1>3. /\ c \in rows[m].cands /\ Live(c) /\ passes[a].tasks[m].seen[c] = rows[c].says
      /\ Live(m) /\ passes[a].tasks[m].says = rows[m].says /\ c # m
      /\ c \in Row
  BY <1>1, <1>2 DEF TaskReads
<1>4. /\ \A q \in Row \ {c} : rows'[q] = rows[q]
      /\ rows'[c].st = "live" /\ rows'[c].says = rows[c].says \cup rows[m].says
      /\ rows'[c].cands = rows[c].cands
  <2>1. c \in LiveRows /\ rows[c].st = "live"
    BY <1>3 DEF LiveRows, Live
  <2> QED BY <1>1, <1>3, <2>1, MergedRow
<1>5. FactsKept'
  <2>1. rows[c].says \subseteq rows'[c].says /\ retired \subseteq retired'
    BY <1>1, <1>4
  <2> QED BY <1>3, <1>4, <2>1, KeptWritten DEF Serial
<1>6. \A q \in Memory : q > m => rows'[q] = rows[q]
  <2>1. \A q \in Memory : q > m => q # c /\ q \in Row
    BY <1>2, <1>3, MemoriesAreRows
  <2> QED BY <1>4, <2>1
<1>7. \A q \in Memory : /\ rows'[q].st = "absent" <=> rows[q].st = "absent"
                        /\ rows'[q].cands \subseteq rows[q].cands
  BY <1>3, <1>4, MemoriesAreRows DEF Live
<1>8. PICK seen : seen = passes[a].tasks[m].seen
  OBVIOUS
<1>9. PICK t : t = InHand(passes[a].tasks[m], "erase", seen)
  OBVIOUS
<1>10. Moved(a, m, "erase", seen)
  BY <1>1, <1>8, AdvanceMoves DEF Phases
<1>11. TaskReads(m, t)'
  <2>1. t.phase = "erase" /\ t.says = rows[m].says
    BY <1>3, <1>9 DEF InHand
  <2>2. rows'[m] = rows[m] /\ rows'[m].st = "live"
    BY <1>2, <1>3, <1>4 DEF Live
  <2>3. c \in Row \ {m} /\ rows'[c].st = "live" /\ t.says \subseteq rows'[c].says
    BY <1>3, <1>4, <2>1
  <2> QED BY <2>1, <2>2, <2>3 DEF TaskReads, Live
<1> QED BY <1>1, <1>2, <1>5, <1>6, <1>7, <1>8, <1>9, <1>10, <1>11, TaskSerial

\* While a consolidation runs nothing else does.
LEMMA ConAlone ==
  ASSUME Serial, con.on, UNCHANGED <<ingest, passes>>
  PROVE  /\ ingest' = {} /\ \A a \in Runner : ~passes'[a].on /\ PassReads(a)'
         /\ con'.on => OneActor'
         /\ con'.clusters = {} /\ con'.cluster = {} /\ con'.members = {} => OneActor'
<1>1. ingest = {} /\ \A a \in Runner : ~passes[a].on
  BY DEF Serial, OneActor
<1> QED BY <1>1, IdleReads DEF Serial, OneActor

LEMMA ScanSerial ==
  ASSUME ShapeInv, OneAtATime, Serial, NEW c \in Clusters, NEW d \in Clusters, Scan({c, d})
  PROVE  Serial'
<1>0. Quiet /\ UNCHANGED <<rows, ingest, passes, retired>>
  BY MayStartIsQuiet DEF Scan
<1>1. /\ con'.on /\ con'.clusters = {c, d} /\ con'.cluster = {} /\ con'.members = {}
      /\ \A r \in UNION {c, d} : Live(r) /\ con'.text[r] = rows[r].says
      /\ \A x, y \in {c, d} : x # y => x \cap y = {}
  <2>1. {c, d} \in SUBSET Clusters
    OBVIOUS
  <2>2. \A x, y \in {c, d} : x # y => x \cap y = {}
    BY DEF Scan
  <2> QED BY <2>1, <2>2, ScanIs
<1>2. OneActor' /\ \A a \in Runner : PassReads(a)'
  BY <1>0, <1>1, IdleReads DEF Quiet, OneActor, Serial
<1>3. ConReads'
  BY <1>0, <1>1 DEF ConReads, Live
<1>4. Ordered' /\ FactsKept'
  BY <1>0, OrderedStays, KeptSame, MemoriesAreRows DEF Serial
<1> QED BY <1>2, <1>3, <1>4 DEF Serial

LEMMA ClusterSerial ==
  ASSUME ShapeInv, OneAtATime, Serial, NEW c \in con.clusters, Synthesize(c) \/ SkipCluster(c)
  PROVE  Serial'
<1>0. con.on /\ con.cluster = {} /\ con.members = {}
      /\ UNCHANGED <<rows, ingest, passes, retired>>
  BY DEF Synthesize, SkipCluster, BetweenClusters
<1>1. /\ \A x, y \in con.clusters : x # y => x \cap y = {}
      /\ \A r \in UNION con.clusters : Live(r) /\ con.text[r] = rows[r].says
  BY DEF Serial, ConReads
<1>2. /\ con'.on /\ con'.text = con.text /\ con'.clusters = con.clusters \ {c}
      /\ con'.cluster \subseteq c /\ con'.members \subseteq con'.cluster
  <2>1. CASE Synthesize(c)
    BY <1>0, <2>1, SynthesizeIs
  <2>2. CASE SkipCluster(c)
    BY <1>0, <2>2 DEF SkipCluster, ShapeInv, ConType
  <2> QED BY <2>1, <2>2
<1>3. OneActor' /\ \A a \in Runner : PassReads(a)'
  BY <1>0, <1>2, ConAlone
<1>4. ConReads'
  <2>1. \A x, y \in con'.clusters : x # y => x \cap y = {}
    BY <1>1, <1>2
  <2>2. \A r \in con'.cluster \cup UNION con'.clusters :
           rows'[r].st = "live" /\ con'.text[r] = rows'[r].says
    BY <1>0, <1>1, <1>2 DEF Live
  <2>3. \A r \in con'.members : r \notin UNION con'.clusters
    BY <1>1, <1>2
  <2> QED BY <1>2, <2>1, <2>2, <2>3 DEF ConReads, Live
<1>5. Ordered' /\ FactsKept'
  BY <1>0, OrderedStays, KeptSame, MemoriesAreRows DEF Serial
<1> QED BY <1>3, <1>4, <1>5 DEF Serial

\* The summary says what its cluster says, which is still what the rows say.
LEMMA SummarySerial ==
  ASSUME ShapeInv, OneAtATime, Serial, NEW s \in Summary, StoreSummary(s)
  PROVE  Serial'
<1>0. con.on /\ con.cluster # {} /\ UNCHANGED <<ingest, passes, retired>>
  BY DEF StoreSummary, Serial, OneActor
<1>1. /\ s \in Row /\ rows[s].st = "absent" /\ \A q \in Row \ {s} : rows'[q] = rows[q]
      /\ rows'[s].st = "live" /\ rows'[s].says = SummaryOf
  BY SummaryIs
<1>2. /\ con'.on /\ con'.text = con.text /\ con'.clusters = con.clusters
      /\ con'.cluster = {} /\ con'.members = con.members
  BY <1>0, SummaryIs DEF ShapeInv, ConType
<1>3. /\ \A x, y \in con.clusters : x # y => x \cap y = {}
      /\ \A r \in con.cluster \cup UNION con.clusters :
            r \in Row /\ r # s /\ Live(r) /\ con.text[r] = rows[r].says
      /\ \A r \in con.members : r \notin UNION con.clusters /\ r \in con.cluster
  <2>1. con.cluster \cup UNION con.clusters \subseteq Row
    BY DEF ShapeInv, ConType
  <2> QED BY <1>0, <1>1, <2>1 DEF Serial, ConReads, Live
<1>4. OneActor' /\ \A a \in Runner : PassReads(a)'
  BY <1>0, <1>2, ConAlone
<1>5. \A f : f \in SummaryOf <=> \E r \in con.cluster : f \in rows[r].says
  BY <1>3 DEF SummaryOf
<1>6. ConReads'
  <2>1. \A r \in con'.cluster \cup UNION con'.clusters :
           rows'[r].st = "live" /\ con'.text[r] = rows'[r].says
    BY <1>1, <1>2, <1>3 DEF Live
  <2>2. /\ s \notin con'.members /\ s \notin UNION con'.clusters
        /\ \A r \in con'.members : rows'[r].says \subseteq rows'[s].says
    BY <1>1, <1>2, <1>3, <1>5
  <2> QED BY <1>1, <1>2, <1>3, <2>1, <2>2 DEF ConReads, Live
<1>7. Ordered'
  BY <1>1, OrderedStays, MemoriesAreRows DEF Serial
<1>8. FactsKept'
  BY <1>0, <1>1, KeptWritten DEF Serial
<1> QED BY <1>4, <1>6, <1>7, <1>8 DEF Serial

LEMMA ArchiveSerial ==
  ASSUME ShapeInv, OneAtATime, Serial, NEW r \in con.members, ArchiveMember(r)
  PROVE  Serial'
<1>0. con.on /\ con.cluster = {} /\ UNCHANGED <<ingest, passes, retired>>
  BY DEF ArchiveMember, Serial, OneActor
<1>1. r \in Row /\ Gone(r)
  BY SoftDeleted DEF ArchiveMember, ShapeInv, ConType
<1>2. /\ con'.on /\ con'.text = con.text /\ con'.clusters = con.clusters
      /\ con'.cluster = {} /\ con'.members = con.members \ {r}
  BY <1>0 DEF ArchiveMember, ShapeInv, ConType
<1>3. PICK s \in Row : /\ Live(s) /\ s \notin con.members /\ s \notin UNION con.clusters
                       /\ \A q \in con.members : rows[q].says \subseteq rows[s].says
  BY <1>0 DEF Serial, ConReads
<1>4. /\ \A x, y \in con.clusters : x # y => x \cap y = {}
      /\ \A q \in UNION con.clusters : q # r /\ q \in Row /\ Live(q) /\ con.text[q] = rows[q].says
      /\ \A q \in con.members : q \notin UNION con.clusters
  <2>1. UNION con.clusters \subseteq Row
    BY DEF ShapeInv, ConType
  <2> QED BY <2>1 DEF Serial, ConReads
<1>5. OneActor' /\ \A a \in Runner : PassReads(a)'
  BY <1>0, <1>2, ConAlone
<1>6. /\ \A q \in Row : rows'[q].says = rows[q].says
      /\ \A q \in Row \ {r} : rows'[q] = rows[q]
  BY <1>1, GoneIs
<1>7. ConReads'
  <2>1. \A q \in con'.cluster \cup UNION con'.clusters :
           rows'[q].st = "live" /\ con'.text[q] = rows'[q].says
    BY <1>2, <1>4, <1>6 DEF Live
  <2>2. /\ rows'[s].st = "live" /\ s \notin con'.members /\ s \notin UNION con'.clusters
        /\ \A q \in con'.members : rows'[q].says \subseteq rows'[s].says
    <3>1. s # r /\ con.members \subseteq Row
      BY <1>3 DEF ShapeInv, ConType
    <3> QED BY <1>2, <1>3, <1>6, <3>1 DEF Live
  <2> QED BY <1>2, <1>3, <1>4, <2>1, <2>2 DEF ConReads, Live
<1>8. Ordered'
  BY <1>1, GoneIs, OrderedStays, MemoriesAreRows DEF Serial
<1>9. FactsKept'
  <2>1. \A f \in rows[r].says : \E q \in Row \ {r} : Live(q) /\ f \in rows[q].says
    BY <1>3
  <2> QED BY <1>0, <1>1, <2>1, KeptGone DEF Serial
<1> QED BY <1>5, <1>7, <1>8, <1>9 DEF Serial

LEMMA EndSerial ==
  ASSUME ShapeInv, OneAtATime, Serial, EndConsolidation
  PROVE  Serial'
<1>1. con.on /\ UNCHANGED <<rows, ingest, passes, retired>>
      /\ con'.clusters = {} /\ con'.cluster = {} /\ con'.members = {}
  BY DEF EndConsolidation, BetweenClusters, IdleCon
<1>2. OneActor' /\ \A a \in Runner : PassReads(a)'
  BY <1>1, ConAlone
<1>3. Ordered' /\ FactsKept'
  BY <1>1, OrderedStays, KeptSame, MemoriesAreRows DEF Serial
<1>4. ConReads'
  BY <1>1 DEF ConReads
<1> QED BY <1>2, <1>3, <1>4 DEF Serial

\* Whatever is in hand is lost with the process; the table stays.
LEMMA LossSerial ==
  ASSUME ShapeInv, OneAtATime, Serial, LoseMemory
  PROVE  Serial'
<1>1. UNCHANGED <<rows, retired>> /\ ingest' = {} /\ con' = IdleCon
      /\ \A a \in Runner : passes'[a] = IdlePass
  BY DEF LoseMemory
<1>2. ~con'.on /\ con'.clusters = {} /\ con'.cluster = {} /\ con'.members = {}
  BY <1>1 DEF IdleCon
<1>3. \A a \in Runner : ~passes'[a].on /\ DOMAIN passes'[a].tasks = {}
                        /\ DOMAIN passes'[a].batch = {}
  BY <1>1, IdleIsTyped DEF IdlePass
<1>4. OneActor' /\ ConReads' /\ \A a \in Runner : PassReads(a)'
  BY <1>1, <1>2, <1>3 DEF OneActor, ConReads, PassReads
<1>5. Ordered' /\ FactsKept'
  BY <1>1, OrderedStays, KeptSame, MemoriesAreRows DEF Serial
<1> QED BY <1>4, <1>5 DEF Serial

LEMMA SerialUnchanged ==
  ASSUME Serial, UNCHANGED <<rows, ingest, passes, con, retired>>
  PROVE  Serial'
<1>1. OneActor' /\ Ordered' /\ ConReads' /\ FactsKept'
  BY DEF Serial, OneActor, Ordered, ConReads, FactsKept, Stored, Said, LiveRows, Live
<1>2. \A a \in Runner : PassReads(a)'
  BY DEF Serial, PassReads, TaskReads, Live, RowRead
<1> QED BY <1>1, <1>2 DEF Serial

\* The setting stays, and what is counted is never taken back.
LEMMA ConfigStays ==
  [Next]_vars => UNCHANGED config /\ (strays' = strays \/ strays' = strays + 1)
<1> SUFFICES ASSUME [Next]_vars PROVE UNCHANGED config /\ (strays' = strays \/ strays' = strays + 1)
  OBVIOUS
<1> DEFINE Stays == UNCHANGED config /\ (strays' = strays \/ strays' = strays + 1)
<1>1. ASSUME NEW a \in Runner, NEW m \in Memory, TaskStep(a, m) PROVE Stays
  BY <1>1 DEF TaskStep, Refresh, DecideNoop, DecideDelete, DecideUpdate, DecideSupersede,
     DecideKeep, DecideFails, EraseMerged, ClearFlag, CountStray, spent
<1>2. CASE ConsolidationStep
  BY <1>2 DEF ConsolidationStep, Synthesize, SkipCluster, StoreSummary, ArchiveMember,
     EndConsolidation, spent
<1>3. ASSUME NEW m \in Memory, NEW f, NEW cands, StoreFact(m, f, cands) \/ MarkDeferred(m)
      PROVE  Stays
  BY <1>3 DEF StoreFact, MarkDeferred, spent
<1>4. ASSUME NEW r, UserDelete(r) PROVE Stays
  BY <1>4 DEF UserDelete
<1>5. ASSUME NEW a, StartPass(a) \/ NextChunk(a) PROVE Stays
  BY <1>5 DEF StartPass, NextChunk, spent
<1>6. ASSUME NEW clusters, Scan(clusters) PROVE Stays
  BY <1>6 DEF Scan
<1>7. CASE Stop \/ Exit \/ Crash \/ Restart
  BY <1>7 DEF Stop, Exit, Crash, LoseMemory, Restart, spent
<1>8. CASE UNCHANGED vars
  BY <1>8 DEF vars, spent
<1> QED BY <1>1, <1>2, <1>3, <1>4, <1>5, <1>6, <1>7, <1>8 DEF Next, PassStep

Counted == strays \in Nat

LEMMA SerialStep == ShapeInv /\ Counted /\ SerialInv /\ [Next]_vars => SerialInv'
<1> SUFFICES ASSUME ShapeInv, Counted, SerialInv, [Next]_vars, OneAtATime', strays' = 0
             PROVE  Serial'
  BY DEF SerialInv
<1>0. OneAtATime /\ Serial /\ strays' = strays /\ strays \in Nat
  <2>1. OneAtATime /\ strays' = strays /\ strays \in Nat
    BY ConfigStays DEF OneAtATime, config, Counted
  <2> QED BY <2>1 DEF SerialInv
<1>1. CASE UNCHANGED vars
  BY <1>0, <1>1, SerialUnchanged DEF vars
<1>2. ASSUME NEW m \in Memory, NEW f \in Fact, NEW cands \in SUBSET LiveRows,
             StoreFact(m, f, cands)
      PROVE  Serial'
  BY <1>0, <1>2, StoreSerial
<1>3. ASSUME NEW m \in Memory, MarkDeferred(m) PROVE Serial'
  BY <1>0, <1>3, MarkSerial
<1>4. ASSUME NEW r \in Row, UserDelete(r) PROVE Serial'
  BY <1>0, <1>4, UserSerial
<1>5. ASSUME NEW a \in Runner, StartPass(a) \/ NextChunk(a) PROVE Serial'
  BY <1>0, <1>5, StartSerial
<1>6. ASSUME NEW a \in Runner, NEW m \in Memory, TaskStep(a, m) PROVE Serial'
  BY <1>0, <1>6, RefreshSerial, KeepSerial, ClearSerial, RemoveSerial, SupersedeSerial, MergeSerial
  DEF TaskStep
<1>7. ASSUME NEW c \in Clusters, NEW d \in Clusters, Scan({c, d}) PROVE Serial'
  BY <1>0, <1>7, ScanSerial
<1>8. CASE ConsolidationStep
  BY <1>0, <1>8, ClusterSerial, SummarySerial, ArchiveSerial, EndSerial DEF ConsolidationStep
<1>9. CASE Stop \/ Restart
  BY <1>0, <1>9, SerialUnchanged DEF Stop, Restart
<1>10. CASE Exit \/ Crash
  BY <1>0, <1>10, LossSerial DEF Exit, Crash
<1> QED BY <1>1, <1>2, <1>3, <1>4, <1>5, <1>6, <1>7, <1>8, <1>9, <1>10 DEF Next, PassStep

\* Reconciliation, consolidation, ingest and deletes, each with the table to itself, and
\* a model that names candidates only: no fact that was stored is lost but by a decision
\* or by its user.  A decision's own text and that of its candidates are what the table
\* says (a pass never comes to a memory it has written to, candidates being older), a
\* merge covers the memory before it is erased, and a summary covers its members before
\* they are archived, so a crash between two of those statements loses nothing either.
THEOREM FactsStay == Spec => []NoFactLost
<1>1. Init => ShapeInv /\ Counted /\ SerialInv
  BY ShapeInitial, SerialInitial DEF SerialInv, Init, Counted
<1>2. ShapeInv /\ Counted /\ SerialInv /\ [Next]_vars => ShapeInv' /\ Counted' /\ SerialInv'
  BY ShapeStep, SerialStep, ConfigStays DEF Counted
<1>3. SerialInv => NoFactLost
  BY DEF SerialInv, Serial, NoFactLost
<1> QED BY <1>1, <1>2, <1>3, PTL DEF Spec

--------------------------------------------------------------------------------
(* One actor at a time, whatever targets the model names: what the user deleted    *)
(* stays deleted.                                                                  *)

Fresh(S, gone) == S \cap gone = {}

\* Nobody holds a text with a forgotten fact: no live row, no batch, no task, no request.
TaskFresh(t) ==
  Fresh(t.says, forgotten) /\ \A c \in DOMAIN t.seen : Fresh(t.seen[c], forgotten)

PassFresh(p) ==
  /\ \A q \in DOMAIN p.batch : Fresh(p.batch[q].says, forgotten)
  /\ \A m \in DOMAIN p.tasks : TaskFresh(p.tasks[m])

Untainted ==
  /\ \A r \in Row : Live(r) => Fresh(rows[r].says, forgotten)
  /\ \A a \in Runner : PassFresh(passes[a])
  /\ \A r \in DOMAIN con.text : Fresh(con.text[r], forgotten)

\* Who is not active has nothing in hand.
IdleHolds ==
  /\ \A a \in Runner : ~passes[a].on =>
       DOMAIN passes[a].tasks = {} /\ DOMAIN passes[a].batch = {}
  /\ ~con.on => DOMAIN con.text = {}

UntaintedInv == OneAtATime => Untainted /\ IdleHolds

LEMMA IdleIsFresh ==
  /\ ~IdlePass.on /\ DOMAIN IdlePass.tasks = {} /\ DOMAIN IdlePass.batch = {}
  /\ ~IdleCon.on /\ DOMAIN IdleCon.text = {}
<1>1. DOMAIN IdleCon.text = {} /\ ~IdleCon.on
  BY DEF IdleCon
<1>2. ~IdlePass.on
  BY DEF IdlePass
<1> QED BY <1>1, <1>2, IdleIsTyped

\* The table gains no forgotten fact, and what is in hand stays or is dropped.
LEMMA TableUntainted ==
  ASSUME Untainted, IdleHolds, forgotten' \subseteq forgotten,
         \A r \in Row : rows'[r].st = "live" => Fresh(rows'[r].says, forgotten'),
         \A a \in Runner : passes'[a] = passes[a] \/ passes'[a] = IdlePass,
         con' = IdleCon \/ (con'.on = con.on /\ con'.text = con.text)
  PROVE  (Untainted /\ IdleHolds)'
<1>1. \A S : Fresh(S, forgotten) => Fresh(S, forgotten')
  BY DEF Fresh
<1>2. ASSUME NEW a \in Runner
      PROVE  /\ PassFresh(passes[a])'
             /\ ~passes'[a].on => DOMAIN passes'[a].tasks = {} /\ DOMAIN passes'[a].batch = {}
  <2>1. CASE passes'[a] = passes[a]
    <3>1. \A q \in DOMAIN passes'[a].batch : Fresh(passes'[a].batch[q].says, forgotten')
      BY <1>1, <2>1 DEF Untainted, PassFresh
    <3>2. \A m \in DOMAIN passes'[a].tasks : TaskFresh(passes[a].tasks[m])'
      BY <1>1, <2>1 DEF Untainted, PassFresh, TaskFresh
    <3> QED BY <2>1, <3>1, <3>2 DEF PassFresh, IdleHolds
  <2>2. CASE passes'[a] = IdlePass
    <3>1. DOMAIN passes'[a].tasks = {} /\ DOMAIN passes'[a].batch = {}
      BY <2>2, IdleIsFresh
    <3> QED BY <3>1 DEF PassFresh
  <2> QED BY <2>1, <2>2
<1>3. /\ \A r \in DOMAIN con'.text : Fresh(con'.text[r], forgotten')
      /\ ~con'.on => DOMAIN con'.text = {}
  <2>1. CASE con' = IdleCon
    BY <2>1, IdleIsFresh
  <2>2. CASE con'.on = con.on /\ con'.text = con.text
    BY <1>1, <2>2 DEF Untainted, IdleHolds
  <2> QED BY <2>1, <2>2
<1> QED BY <1>2, <1>3 DEF Untainted, IdleHolds, Live

\* A task goes on with texts that hold nothing forgotten.
LEMMA TaskUntainted ==
  ASSUME Untainted, IdleHolds, UNCHANGED <<con, forgotten>>,
         NEW a \in Runner, NEW m \in DOMAIN passes[a].tasks, NEW ph, NEW seen,
         Moved(a, m, ph, seen), \A c \in DOMAIN seen : Fresh(seen[c], forgotten),
         \A r \in Row : rows'[r].st = "live" => Fresh(rows'[r].says, forgotten)
  PROVE  (Untainted /\ IdleHolds)'
<1>1. /\ \A b \in Runner \ {a} : passes'[b] = passes[b]
      /\ passes'[a].on = passes[a].on /\ passes'[a].batch = passes[a].batch
      /\ DOMAIN passes'[a].tasks = DOMAIN passes[a].tasks
      /\ \A k \in DOMAIN passes[a].tasks \ {m} : passes'[a].tasks[k] = passes[a].tasks[k]
      /\ passes'[a].tasks[m].says = passes[a].tasks[m].says
      /\ passes'[a].tasks[m].seen = seen
  BY DEF Moved, InHand
<1>2. ASSUME NEW b \in Runner \ {a} PROVE PassFresh(passes[b])'
  <2>1. \A q \in DOMAIN passes'[b].batch : Fresh(passes'[b].batch[q].says, forgotten')
    BY <1>1 DEF Untainted, PassFresh
  <2>2. \A k \in DOMAIN passes'[b].tasks : TaskFresh(passes[b].tasks[k])'
    BY <1>1 DEF Untainted, PassFresh, TaskFresh
  <2> QED BY <2>1, <2>2 DEF PassFresh
<1>3. PassFresh(passes[a])'
  <2>1. \A q \in DOMAIN passes'[a].batch : Fresh(passes'[a].batch[q].says, forgotten')
    BY <1>1 DEF Untainted, PassFresh
  <2>2. ASSUME NEW k \in DOMAIN passes'[a].tasks PROVE TaskFresh(passes[a].tasks[k])'
    <3>1. TaskFresh(passes[a].tasks[k])
      BY <1>1, <2>2 DEF Untainted, PassFresh
    <3>2. CASE k = m
      BY <1>1, <3>1, <3>2 DEF TaskFresh
    <3>3. CASE k # m
      BY <1>1, <2>2, <3>1, <3>3 DEF TaskFresh
    <3> QED BY <3>2, <3>3
  <2> QED BY <2>1, <2>2 DEF PassFresh
<1>4. IdleHolds'
  BY <1>1 DEF IdleHolds
<1> QED BY <1>2, <1>3, <1>4 DEF Untainted, Live

\* A fact is forgotten only while nobody holds a text, with the last row that says it.
LEMMA UserUntainted ==
  ASSUME ShapeInv, OneAtATime, Untainted, IdleHolds, NEW r \in Row, UserDelete(r)
  PROVE  (Untainted /\ IdleHolds)'
<1>1. Quiet /\ Gone(r) /\ UNCHANGED <<passes, con>>
      /\ forgotten' = forgotten \cup {f \in rows[r].says :
                          \A q \in LiveRows \ {r} : f \notin rows[q].says}
  BY MayStartIsQuiet, DeleteShape DEF UserDelete
<1>2. /\ rows'[r].st # "live" /\ \A q \in Row \ {r} : rows'[q] = rows[q]
  BY <1>1, GoneIs
<1>3. ASSUME NEW q \in Row, rows'[q].st = "live" PROVE Fresh(rows'[q].says, forgotten')
  <2>1. q # r /\ rows'[q] = rows[q] /\ q \in LiveRows /\ Fresh(rows[q].says, forgotten)
    BY <1>2, <1>3 DEF Untainted, LiveRows, Live
  <2> QED BY <1>1, <2>1 DEF Fresh
<1>4. /\ \A a \in Runner : DOMAIN passes'[a].tasks = {} /\ DOMAIN passes'[a].batch = {}
      /\ DOMAIN con'.text = {}
  BY <1>1 DEF Quiet, IdleHolds
<1>5. \A a \in Runner : PassFresh(passes[a])'
  BY <1>4 DEF PassFresh
<1> QED BY <1>3, <1>4, <1>5 DEF Untainted, IdleHolds, Live

\* A chunk takes its texts from the batch.
LEMMA ChunkUntainted ==
  ASSUME ShapeInv, Untainted, IdleHolds, UNCHANGED <<rows, con, forgotten>>,
         NEW a \in Runner, NEW batch \in Batches,
         \A q \in DOMAIN batch : Fresh(batch[q].says, forgotten),
         \A b \in Runner \ {a} : passes'[b] = passes[b], passes'[a] = ChunkOf(batch)
  PROVE  (Untainted /\ IdleHolds)'
<1> DEFINE c == Oldest(DOMAIN batch, setting.concurrency)
<1>1. PICK p : p = ChunkOf(batch)
  OBVIOUS
<1>2. /\ p.on /\ c \in SUBSET DOMAIN batch /\ DOMAIN p.tasks = c
      /\ \A m \in c : p.tasks[m] = NewTask(batch[m])
      /\ DOMAIN p.batch = DOMAIN batch \ c
      /\ \A m \in DOMAIN batch \ c : p.batch[m] = batch[m]
  BY <1>1, ChunkIs
<1> HIDE DEF c
<1>3. ASSUME NEW m \in c
      PROVE  p.tasks[m].says = batch[m].says /\ DOMAIN p.tasks[m].seen = {}
  <2>1. p.tasks[m] = NewTask(batch[m])
    BY <1>2
  <2>2. p.tasks[m].says = batch[m].says /\ p.tasks[m].seen = <<>>
    BY <2>1 DEF NewTask
  <2>3. DOMAIN <<>> = {}
    OBVIOUS
  <2> QED BY <2>2, <2>3
<1>4. passes'[a] = p
  BY <1>1
<1>5. PassFresh(passes[a])'
  <2>1. \A q \in DOMAIN p.batch : Fresh(p.batch[q].says, forgotten')
    BY <1>2
  <2>2. \A m \in DOMAIN p.tasks : /\ Fresh(p.tasks[m].says, forgotten')
                                  /\ DOMAIN p.tasks[m].seen = {}
    BY <1>2, <1>3
  <2>3. \A m \in DOMAIN passes'[a].tasks : TaskFresh(passes[a].tasks[m])'
    BY <1>4, <2>2 DEF TaskFresh
  <2> QED BY <1>4, <2>1, <2>3 DEF PassFresh
<1>6. ASSUME NEW b \in Runner \ {a} PROVE PassFresh(passes[b])'
  <2>1. \A q \in DOMAIN passes'[b].batch : Fresh(passes'[b].batch[q].says, forgotten')
    BY DEF Untainted, PassFresh
  <2>2. \A k \in DOMAIN passes'[b].tasks : TaskFresh(passes[b].tasks[k])'
    BY DEF Untainted, PassFresh, TaskFresh
  <2> QED BY <2>1, <2>2 DEF PassFresh
<1>7. IdleHolds'
  BY <1>2, <1>4 DEF IdleHolds
<1> QED BY <1>5, <1>6, <1>7 DEF Untainted, Live

LEMMA PassUntainted ==
  ASSUME ShapeInv, Untainted, IdleHolds, NEW a \in Runner, StartPass(a) \/ NextChunk(a)
  PROVE  (Untainted /\ IdleHolds)'
<1>0. passes \in [Runner -> Pass]
  BY DEF ShapeInv
<1>1. CASE StartPass(a)
  <2>1. /\ passes' = [passes EXCEPT ![a] = ChunkOf(Batch)]
        /\ UNCHANGED <<rows, con, forgotten>>
    BY <1>1 DEF StartPass
  <2>2. Batch \in Batches /\ \A q \in DOMAIN Batch : Fresh(Batch[q].says, forgotten)
    <3>1. /\ Batch \in Batches /\ DOMAIN Batch \subseteq Memory
          /\ \A q \in DOMAIN Batch : Live(q) /\ Batch[q] = RowRead(q)
      BY BatchIsTyped
    <3>2. \A q \in DOMAIN Batch : Fresh(rows[q].says, forgotten) /\ Batch[q].says = rows[q].says
      <4>1. ASSUME NEW q \in DOMAIN Batch
            PROVE  Fresh(rows[q].says, forgotten) /\ Batch[q].says = rows[q].says
        <5>1. q \in Row /\ Live(q) /\ Batch[q] = RowRead(q)
          BY <3>1, MemoriesAreRows
        <5>2. RowRead(q).says = rows[q].says
          BY DEF RowRead
        <5> QED BY <5>1, <5>2 DEF Untainted
      <4> QED BY <4>1
    <3> HIDE DEF Batch
    <3> QED BY <3>1, <3>2
  <2> HIDE DEF ChunkOf, Batch
  <2> QED BY <1>0, <2>1, <2>2, ChunkUntainted
<1>2. CASE NextChunk(a)
  <2>1. /\ \/ passes' = [passes EXCEPT ![a] = IdlePass]
           \/ passes' = [passes EXCEPT ![a] = ChunkOf(passes[a].batch)]
        /\ UNCHANGED <<rows, con, forgotten>>
    BY <1>2 DEF NextChunk
  <2>2. /\ passes[a].batch \in Batches
        /\ \A q \in DOMAIN passes[a].batch : Fresh(passes[a].batch[q].says, forgotten)
    BY <1>0 DEF Pass, Untainted, PassFresh
  <2> HIDE DEF ChunkOf, IdlePass
  <2>3. CASE passes' = [passes EXCEPT ![a] = ChunkOf(passes[a].batch)]
    BY <1>0, <2>1, <2>2, <2>3, ChunkUntainted
  <2>4. CASE passes' = [passes EXCEPT ![a] = IdlePass]
    <3>1. \A b \in Runner : passes'[b] = passes[b] \/ passes'[b] = IdlePass
      BY <1>0, <2>4
    <3>2. \A r \in Row : rows'[r].st = "live" => Fresh(rows'[r].says, forgotten')
      BY <2>1 DEF Untainted, Live
    <3> QED BY <2>1, <3>1, <3>2, TableUntainted
  <2> QED BY <2>1, <2>3, <2>4
<1> QED BY <1>1, <1>2

\* A merge joins two texts in hand, whichever row it is written to.
LEMMA DecisionUntainted ==
  ASSUME ShapeInv, Untainted, IdleHolds, NEW a \in Runner, NEW m \in Memory, TaskStep(a, m)
  PROVE  (Untainted /\ IdleHolds)'
<1>0. \A r \in Row : rows[r].st = "live" => Fresh(rows[r].says, forgotten)
  BY DEF Untainted, Live
<1>1. ASSUME NEW was, NEW ph \in Phases, InPhase(a, m, was), Advance(a, m, ph),
             UNCHANGED <<con, forgotten>>,
             \A r \in Row : rows'[r].st = "live" => Fresh(rows'[r].says, forgotten)
      PROVE  (Untainted /\ IdleHolds)'
  <2>1. m \in DOMAIN passes[a].tasks /\ Moved(a, m, ph, passes[a].tasks[m].seen)
    BY <1>1, AdvanceMoves
  <2>2. \A c \in DOMAIN passes[a].tasks[m].seen : Fresh(passes[a].tasks[m].seen[c], forgotten)
    BY <2>1 DEF Untainted, PassFresh, TaskFresh
  <2> QED BY <1>1, <2>1, <2>2, TaskUntainted
<1>2. {"clear", "erase", "done"} \subseteq Phases
  BY DEF Phases
<1>3. ASSUME NEW r, SoftDelete(r)
      PROVE  \A q \in Row : rows'[q].st = "live" => Fresh(rows'[q].says, forgotten)
  BY <1>3, SoftDeleted DEF Untainted
<1>4. CASE Refresh(a, m)
  <2> DEFINE now == {c \in passes[a].tasks[m].cands : Live(c)}
  <2>1. UNCHANGED <<rows, con, forgotten>> /\ InPhase(a, m, "refresh")
    BY <1>4 DEF Refresh
  <2>2. PICK ph, seen : /\ m \in DOMAIN passes[a].tasks /\ Moved(a, m, ph, seen)
                        /\ seen = [c \in now |-> rows[c].says]
    BY <1>4, RefreshMoves
  <2>3. passes[a].tasks[m].cands \subseteq Row
    BY <2>2, TaskIsTyped DEF Task
  <2>4. \A c \in DOMAIN seen : Fresh(seen[c], forgotten)
    BY <2>2, <2>3 DEF Untainted
  <2> QED BY <1>0, <2>1, <2>2, <2>4, TaskUntainted
<1>5. CASE DecideNoop(a, m) \/ DecideDelete(a, m) \/ EraseMerged(a, m)
  BY <1>1, <1>2, <1>3, <1>5 DEF DecideNoop, DecideDelete, EraseMerged
<1>6. CASE DecideKeep(a, m) \/ DecideFails(a, m)
  BY <1>0, <1>1, <1>2, <1>6 DEF DecideKeep, DecideFails
<1>7. CASE ClearFlag(a, m)
  <2>1. \A q \in Row : rows'[q].st = "live" => Fresh(rows'[q].says, forgotten)
    BY <1>0, <1>7, ClearedRow
  <2> QED BY <1>1, <1>2, <1>7, <2>1 DEF ClearFlag
<1>8. ASSUME NEW c, DecideUpdate(a, m, c) PROVE (Untainted /\ IdleHolds)'
  <2>1. m \in DOMAIN passes[a].tasks
    BY <1>8 DEF DecideUpdate, InPhase
  <2>2. Fresh(passes[a].tasks[m].says, forgotten) /\ Fresh(SeenIn(a, m, c), forgotten)
    BY <2>1 DEF Untainted, PassFresh, TaskFresh, SeenIn, Fresh
  <2>3. Fresh(Merge(a, m, c), forgotten)
    BY <2>2 DEF Merge, Fresh
  <2>4. \A q \in Row : rows'[q].st = "live" => Fresh(rows'[q].says, forgotten)
    BY <1>0, <1>8, <2>3, MergedRow
  <2> QED BY <1>1, <1>2, <1>8, <2>4 DEF DecideUpdate
<1>9. ASSUME NEW c, DecideSupersede(a, m, c) PROVE (Untainted /\ IdleHolds)'
  BY <1>1, <1>2, <1>3, <1>9 DEF DecideSupersede
<1> QED BY <1>4, <1>5, <1>6, <1>7, <1>8, <1>9 DEF TaskStep

LEMMA ConUntainted ==
  ASSUME ShapeInv, Untainted, IdleHolds,
         \/ \E c, d \in Clusters : Scan({c, d})
         \/ ConsolidationStep
  PROVE  (Untainted /\ IdleHolds)'
<1>0. /\ \A r \in Row : rows[r].st = "live" => Fresh(rows[r].says, forgotten)
      /\ con \in ConType
  BY DEF Untainted, Live, ShapeInv
<1>1. ASSUME UNCHANGED <<passes, forgotten>>, con' = IdleCon \/ (con'.on = con.on /\ con'.text = con.text),
             \A r \in Row : rows'[r].st = "live" => Fresh(rows'[r].says, forgotten)
      PROVE  (Untainted /\ IdleHolds)'
  BY <1>1, TableUntainted
<1>2. ASSUME NEW c \in Clusters, NEW d \in Clusters, Scan({c, d})
      PROVE  (Untainted /\ IdleHolds)'
  <2>1. UNCHANGED <<rows, passes, forgotten>>
    BY <1>2 DEF Scan
  <2>2. /\ con'.on /\ DOMAIN con'.text = UNION {c, d} /\ UNION {c, d} \subseteq Row
        /\ \A r \in UNION {c, d} : Live(r) /\ con'.text[r] = rows[r].says
    <3>1. {c, d} \in SUBSET Clusters
      OBVIOUS
    <3> QED BY <1>2, <3>1, ScanIs DEF Clusters, LiveRows
  <2>3. \A r \in DOMAIN con'.text : Fresh(con'.text[r], forgotten')
    BY <1>0, <2>1, <2>2 DEF Live
  <2>4. IdleHolds'
    BY <2>1, <2>2 DEF IdleHolds
  <2>5. \A a \in Runner : PassFresh(passes[a])'
    BY <2>1 DEF Untainted, PassFresh, TaskFresh
  <2> QED BY <1>0, <2>1, <2>3, <2>4, <2>5 DEF Untainted, Live
<1>3. ASSUME NEW c \in con.clusters, Synthesize(c) \/ SkipCluster(c)
      PROVE  (Untainted /\ IdleHolds)'
  <2>1. UNCHANGED <<rows, passes, forgotten>>
    BY <1>3 DEF Synthesize, SkipCluster
  <2>2. con'.on = con.on /\ con'.text = con.text
    <3>1. CASE Synthesize(c)
      BY <3>1, SynthesizeIs
    <3>2. CASE SkipCluster(c)
      BY <1>0, <3>2 DEF SkipCluster, ConType
    <3> QED BY <1>3, <3>1, <3>2
  <2> QED BY <1>0, <1>1, <2>1, <2>2
<1>4. ASSUME NEW s \in Summary, StoreSummary(s) PROVE (Untainted /\ IdleHolds)'
  <2>1. UNCHANGED <<passes, forgotten>> /\ con'.on = con.on /\ con'.text = con.text
    BY <1>0, <1>4 DEF StoreSummary, ConType
  <2>2. Fresh(SummaryOf, forgotten)
    BY DEF ShapeInv, Scanned, Untainted, SummaryOf, Fresh
  <2>3. \A q \in Row : rows'[q].st = "live" => Fresh(rows'[q].says, forgotten)
    BY <1>0, <1>4, <2>2, SummaryIs
  <2> QED BY <1>1, <2>1, <2>3
<1>5. ASSUME NEW r \in con.members, ArchiveMember(r) PROVE (Untainted /\ IdleHolds)'
  <2>1. UNCHANGED <<passes, forgotten>> /\ con'.on = con.on /\ con'.text = con.text
    BY <1>0, <1>5 DEF ArchiveMember, ConType
  <2>2. \A q \in Row : rows'[q].st = "live" => Fresh(rows'[q].says, forgotten)
    BY <1>5, SoftDeleted DEF ArchiveMember, Untainted
  <2> QED BY <1>1, <2>1, <2>2
<1>6. CASE EndConsolidation
  BY <1>0, <1>1, <1>6 DEF EndConsolidation
<1> QED BY <1>2, <1>3, <1>4, <1>5, <1>6 DEF ConsolidationStep

\* Ingest and the process itself.
LEMMA OutsideUntainted ==
  ASSUME ShapeInv, Untainted, IdleHolds,
         \/ \E m \in Memory, f \in Fact, cands \in SUBSET LiveRows : StoreFact(m, f, cands)
         \/ \E m \in Memory : MarkDeferred(m)
         \/ Stop \/ Exit \/ Crash \/ Restart
         \/ UNCHANGED vars
  PROVE  (Untainted /\ IdleHolds)'
<1>0. \A r \in Row : rows[r].st = "live" => Fresh(rows[r].says, forgotten)
  BY DEF Untainted, Live
<1>1. ASSUME NEW m \in Memory, NEW f \in Fact, NEW cands, StoreFact(m, f, cands)
      PROVE  (Untainted /\ IdleHolds)'
  <2>1. /\ rows' = [rows EXCEPT ![m] = [st |-> "live", says |-> {f}, deferred |-> FALSE,
                                        cands |-> cands]]
        /\ forgotten' = forgotten \ {f} /\ UNCHANGED <<passes, con>>
    BY <1>1 DEF StoreFact
  <2>2. m \in Row /\ rows \in [Row -> RowType]
    BY MemoriesAreRows DEF ShapeInv
  <2>3. rows'[m].says = {f} /\ \A q \in Row \ {m} : rows'[q] = rows[q]
    BY <2>1, <2>2
  <2>4. \A q \in Row : rows'[q].st = "live" => Fresh(rows'[q].says, forgotten')
    BY <1>0, <2>1, <2>3 DEF Fresh
  <2> QED BY <2>1, <2>4, TableUntainted
<1>2. ASSUME NEW m \in Memory, MarkDeferred(m) PROVE (Untainted /\ IdleHolds)'
  <2>1. rows' = [rows EXCEPT ![m].deferred = TRUE] /\ UNCHANGED <<passes, con, forgotten>>
    BY <1>2 DEF MarkDeferred
  <2>2. m \in Row /\ rows \in [Row -> RowType] /\ rows[m] \in RowType
    BY MemoriesAreRows DEF ShapeInv
  <2>3. rows'[m].st = rows[m].st /\ rows'[m].says = rows[m].says
    BY <2>1, <2>2 DEF RowType
  <2>4. \A q \in Row \ {m} : rows'[q] = rows[q]
    BY <2>1, <2>2
  <2>5. \A q \in Row : rows'[q].st = "live" => Fresh(rows'[q].says, forgotten')
    BY <1>0, <2>1, <2>3, <2>4
  <2> QED BY <2>1, <2>5, TableUntainted
<1>3. CASE Stop \/ Restart \/ UNCHANGED vars
  <2>1. UNCHANGED <<rows, passes, con, forgotten>>
    BY <1>3 DEF Stop, Restart, vars
  <2> QED BY <1>0, <2>1, TableUntainted
<1>4. CASE Exit \/ Crash
  <2>1. UNCHANGED <<rows, forgotten>> /\ con' = IdleCon /\ \A a \in Runner : passes'[a] = IdlePass
    BY <1>4 DEF Exit, Crash, LoseMemory
  <2> QED BY <1>0, <2>1, TableUntainted
<1> QED BY <1>1, <1>2, <1>3, <1>4

LEMMA UntaintedStep == ShapeInv /\ UntaintedInv /\ [Next]_vars => UntaintedInv'
<1> SUFFICES ASSUME ShapeInv, UntaintedInv, [Next]_vars, OneAtATime'
             PROVE  (Untainted /\ IdleHolds)'
  BY DEF UntaintedInv
<1>0. OneAtATime /\ Untainted /\ IdleHolds
  <2>1. OneAtATime
    BY ConfigStays DEF OneAtATime, config
  <2> QED BY <2>1 DEF UntaintedInv
<1> QED BY <1>0, UserUntainted, PassUntainted, DecisionUntainted, ConUntainted, OutsideUntainted
    DEF Next, PassStep

\* Reconciliation, consolidation, ingest and deletes, each with the table to itself: what
\* the user deleted does not come back, whatever targets the model names and wherever a
\* crash falls.  Whoever holds a text holds none with a forgotten fact, since facts are
\* forgotten only while nobody holds any, and a merge or a summary joins texts in hand.
THEOREM ForgottenStays == Spec => []ForgottenStaysForgotten
<1>1. Init => ShapeInv /\ UntaintedInv
  <2>1. ASSUME Init PROVE Untainted /\ IdleHolds
    <3>1. \A a \in Runner : PassFresh(passes[a])
      BY <2>1, IdleIsFresh DEF Init, PassFresh
    <3>2. \A r \in Row : ~Live(r)
      BY <2>1 DEF Init, Live
    <3> QED BY <2>1, <3>1, <3>2, IdleIsFresh DEF Init, Untainted, IdleHolds
  <2> QED BY <2>1, ShapeInitial DEF UntaintedInv
<1>2. ShapeInv /\ UntaintedInv /\ [Next]_vars => ShapeInv' /\ UntaintedInv'
  BY ShapeStep, UntaintedStep
<1>3. UntaintedInv => ForgottenStaysForgotten
  BY DEF UntaintedInv, Untainted, ForgottenStaysForgotten, Said, LiveRows, Fresh
<1> QED BY <1>1, <1>2, <1>3, PTL DEF Spec
================================================================================
