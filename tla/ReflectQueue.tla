------------------------------ MODULE ReflectQueue ------------------------------
(* The queue of reflection jobs: ingest adds one per conversation, the worker and  *)
(* any flush request take them with processOnePendingJob (services/reflect-jobs.ts,*)
(* db/reflection-jobs-repository.ts, routes/reflect.ts). A job is fetched, marked  *)
(* in progress, run and recorded in statements of their own, none of which looks   *)
(* at the status it replaces.                                                      *)
(*                                                                                *)
(* Conversations are numbered in the order of their jobs.                         *)
EXTENDS Naturals

CONSTANTS
    NumJobs,            \* bound: conversations
    Flush,              \* POST /v1/reflect/flush requests
    Worker,             \* the background worker
    MaxFaults           \* bound: statements of the queue that throw

ASSUME ReflectAssumption ==
    /\ NumJobs \in Nat /\ MaxFaults \in Nat
    /\ Worker \notin Flush

Job   == 1..NumJobs
Actor == Flush \cup {Worker}

VARIABLES
    job,        \* reflection_jobs.status
    actor,      \* local state of the worker and of each flush
    reflected,  \* history: jobs whose reflections have been written
    stranded,   \* history: jobs an actor let go of without an outcome
    faults
reflectVars == <<job, actor, reflected, stranded, faults>>

JobStates == {"absent", "pending", "in_progress", "completed", "failed"}
Settled   == {"completed", "failed"}

\* A flush is idle until its request comes, and answered or failed at its end.
\* promised: the jobs that were in the queue when the flush began.
ActorType == [step : {"off", "fetch", "mark", "run", "complete", "fail", "answered", "broken"},
              job : Job \cup {0}, promised : SUBSET Job]
NoActor == [step |-> "off", job |-> 0, promised |-> {}]

ReflectTypeOK ==
    /\ job \in [Job -> JobStates]
    /\ actor \in [Actor -> ActorType]
    /\ reflected \subseteq Job
    /\ stranded \subseteq Job
    /\ faults \in 0..MaxFaults

ReflectInit ==
    /\ job = [j \in Job |-> "absent"]
    /\ actor = [a \in Actor |-> NoActor]
    /\ reflected = {} /\ stranded = {}
    /\ faults = 0

--------------------------------------------------------------------------------
\* Ingest enqueues the job of its new episode.
Enqueue(j) ==
    /\ job[j] = "absent" /\ (j > 1 => job[j - 1] # "absent")
    /\ job' = [job EXCEPT ![j] = "pending"]
    /\ UNCHANGED <<actor, reflected, stranded, faults>>

Queued == {j \in Job : job[j] \in {"pending", "in_progress"}}

FlushBegins(a) ==
    /\ actor[a].step = "off"
    /\ actor' = [actor EXCEPT ![a] = [step |-> "fetch", job |-> 0, promised |-> Queued]]
    /\ UNCHANGED <<job, reflected, stranded, faults>>

Pending == {j \in Job : job[j] = "pending"}

\* fetchPending(1): the oldest pending job. With none the worker sleeps and a flush
\* answers.
Fetch(a) ==
    /\ actor[a].step = "fetch"
    /\ \/ \E j \in Pending :
            /\ \A i \in Pending : j <= i
            /\ actor' = [actor EXCEPT ![a].step = "mark", ![a].job = j]
       \/ /\ Pending = {} /\ a # Worker
          /\ actor' = [actor EXCEPT ![a].step = "answered"]
    /\ UNCHANGED <<job, reflected, stranded, faults>>

MarkInProgress(a) ==
    /\ actor[a].step = "mark"
    /\ job' = [job EXCEPT ![actor[a].job] = "in_progress"]
    /\ actor' = [actor EXCEPT ![a].step = "run"]
    /\ UNCHANGED <<reflected, stranded, faults>>

\* Mutant: what Reflect throws leaves processOnePendingJob.
RunUncaught(a, wrote, threw) ==
    /\ actor[a].step = "run"
    /\ threw \/ wrote
    /\ reflected' = IF wrote THEN reflected \cup {actor[a].job} ELSE reflected
    /\ actor' = [actor EXCEPT ![a] = IF threw THEN [@ EXCEPT !.step = "fetch", !.job = 0]
                                              ELSE [@ EXCEPT !.step = "complete"]]
    /\ UNCHANGED <<job, stranded, faults>>

\* runReflectForConversation: the observations are written in one statement; the
\* model call before it and the entity cards after it may throw.
RunReflect(a, wrote, threw) ==
    /\ actor[a].step = "run"
    /\ threw \/ wrote
    /\ reflected' = IF wrote THEN reflected \cup {actor[a].job} ELSE reflected
    /\ actor' = [actor EXCEPT ![a].step = IF threw THEN "fail" ELSE "complete"]
    /\ UNCHANGED <<job, stranded, faults>>

RecordOutcome(a) ==
    /\ actor[a].step \in {"complete", "fail"}
    /\ job' = [job EXCEPT ![actor[a].job] =
                 IF actor[a].step = "complete" THEN "completed" ELSE "failed"]
    /\ actor' = [actor EXCEPT ![a].step = "fetch", ![a].job = 0]
    /\ UNCHANGED <<reflected, stranded, faults>>

\* A statement of the queue throws, without effect or (applied) with its answer lost.
\* markCompleted is inside the try: the job is failed instead. Any other leaves the
\* actor: the worker sleeps and fetches again, a flush breaks, and a job that is marked
\* stays as it is.
Written == [mark |-> "in_progress", complete |-> "completed", fail |-> "failed"]

StatementThrows(a, applied) ==
    /\ actor[a].step \in {"fetch"} \cup DOMAIN Written
    /\ faults < MaxFaults
    /\ faults' = faults + 1
    /\ applied => actor[a].step \in DOMAIN Written
    /\ job' = IF applied THEN [job EXCEPT ![actor[a].job] = Written[actor[a].step]] ELSE job
    /\ stranded' = IF actor[a].step = (IF applied THEN "mark" ELSE "fail")
                   THEN stranded \cup {actor[a].job} ELSE stranded
    /\ actor' = [actor EXCEPT
         ![a] = IF @.step = "complete" THEN [@ EXCEPT !.step = "fail"]
                ELSE [@ EXCEPT !.step = IF a = Worker THEN "fetch" ELSE "broken", !.job = 0]]
    /\ UNCHANGED reflected

ReflectStep(a) ==
    \/ Fetch(a) \/ MarkInProgress(a) \/ RecordOutcome(a)
    \/ \E applied \in BOOLEAN : StatementThrows(a, applied)
    \/ \E wrote, threw \in BOOLEAN : RunReflect(a, wrote, threw)

--------------------------------------------------------------------------------
StartWorker ==
    /\ actor' = [actor EXCEPT ![Worker].step = "fetch"]
    /\ UNCHANGED <<job, reflected, stranded, faults>>

\* The process ends; nothing stops the worker or a flush first.
LoseActors ==
    /\ stranded' = stranded \cup {actor[a].job : a \in {b \in Actor : actor[b].job # 0}}
    /\ actor' = [a \in Actor |->
         IF actor[a].step \in {"off", "answered", "broken"} THEN actor[a]
         ELSE [NoActor EXCEPT !.step = IF a = Worker THEN "off" ELSE "broken"]]
    /\ UNCHANGED <<job, reflected, faults>>

ReflectFairness ==
    \A a \in Actor :
        WF_reflectVars(\/ Fetch(a) \/ MarkInProgress(a) \/ RecordOutcome(a)
                       \/ \E wrote, threw \in BOOLEAN : RunReflect(a, wrote, threw))

--------------------------------------------------------------------------------
\* The queue fails closed: a job stays in progress without an actor at work on it
\* only when its actor was cut off, by the end of the process, by a markFailed that
\* threw or by a markInProgress that took effect and threw. Nothing takes such a job up
\* again.
LeftOnlyWhenCutOff ==
    \A j \in Job : job[j] = "in_progress" =>
        j \in stranded \/ \E a \in Actor : actor[a].job = j

\* A flush has drained what it found: at its answer every job that was queued when it
\* began is settled, or was left to the actor that had taken it or lost it. A job is
\* settled as completed only when its reflections were written.
FlushDrains ==
    /\ \A a \in Flush : actor[a].step = "answered" =>
         \A j \in actor[a].promised :
            \/ job[j] \in Settled \/ j \in stranded
            \/ \E b \in Actor \ {a} : actor[b].job = j
    /\ \A j \in Job : job[j] = "completed" => j \in reflected

\* No job is lost between the worker and the flushes: both of the above.
JobsAreKept == LeftOnlyWhenCutOff /\ FlushDrains

\* Every job reaches an outcome unless its actor is cut off.
JobsSettle ==
    \A j \in Job : job[j] = "pending" ~> (job[j] \in Settled \/ j \in stranded)

\* routes/reflect.ts: a harness that calls the flush after ingest is "guaranteed all
\* reflections are written before issuing queries".
FlushIsComplete ==
    \A a \in Flush : actor[a].step = "answered" =>
        \A j \in actor[a].promised : job[j] \in Settled \/ j \in stranded
================================================================================
