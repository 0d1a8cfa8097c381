--------------------------- MODULE CoreProcessProofs ----------------------------
(* Theorems of CoreProcess, for any number of processes, events, jobs, flush        *)
(* requests and faults: no reflection job is lost between the worker and the       *)
(* flushes (first part), and the outbox keeps what it was given: a stopped uploader *)
(* leaves no claim, and the outcome of an event is its last one (second part).      *)
EXTENDS CoreProcess, FiniteSetTheorems, SequenceTheorems, TLAPS

Resting == {"off", "answered", "broken"}
Working == {"run", "complete", "fail"}

\* An actor holds a job from its fetch to its outcome.
HoldsJob(a) == /\ actor[a].step \in Resting \cup {"fetch"} => actor[a].job = 0
               /\ actor[a].step \in {"mark"} \cup Working => actor[a].job \in Job
               /\ actor[a].step = "complete" => actor[a].job \in reflected

\* JobsAreKept and what makes it inductive: a job in progress has an actor past its
\* MarkInProgress, since one that is about to mark a job may still throw and drop it;
\* a promised job is never absent again; and the worker rests while nothing runs.
KeptInv ==
    /\ job \in [Job -> JobStates]
    /\ actor \in [Actor -> ActorType]
    /\ \A a \in Actor : HoldsJob(a)
    /\ \A j \in Job : job[j] = "in_progress" =>
          j \in stranded \/ \E a \in Actor : actor[a].job = j /\ actor[a].step \in Working
    /\ \A j \in Job : job[j] = "completed" => j \in reflected
    /\ \A a \in Actor : \A j \in actor[a].promised :
          /\ job[j] # "absent"
          /\ actor[a].step = "answered" => job[j] # "pending"

WorkerRests ==
    /\ deployment \in Deployments
    /\ proc \in [Process -> {"down", "up", "stopping"}]
    /\ (deployment.reflect /\ \A p \in deployment.running : proc[p] = "down")
          => actor[Worker].step \in Resting

ReflectInv == KeptInv /\ WorkerRests

\* What a step of the system does to the reflect queue.
ReflectCase ==
    \/ \E a \in Actor : Fetch(a)
    \/ \E a \in Actor : MarkInProgress(a)
    \/ \E a \in Actor, wrote, threw \in BOOLEAN : RunReflect(a, wrote, threw)
    \/ \E a \in Actor : RecordOutcome(a)
    \/ \E a \in Actor, applied \in BOOLEAN : StatementThrows(a, applied)
    \/ \E j \in Job : Enqueue(j)
    \/ \E a \in Flush : FlushBegins(a)
    \/ StartWorker /\ actor[Worker].step \in Resting
    \/ LoseActors
    \/ UNCHANGED reflectVars

--------------------------------------------------------------------------------
\* Initially nothing is queued and every actor is off.
LEMMA ReflectInitial == Init => ReflectInv
  BY DeploymentAssumption
  DEF Init, ReflectInit, ReflectInv, KeptInv, WorkerRests, HoldsJob, NoActor, ActorType,
      JobStates, Resting, Working, Actor

\* A boot finds the worker at rest: where reflect runs there is one process.
LEMMA ReflectSteps == ReflectInv /\ [Next]_vars => ReflectCase
<1> SUFFICES ASSUME ReflectInv, [Next]_vars PROVE ReflectCase
  OBVIOUS
<1>1. ASSUME NEW p \in Process, Boot(p) PROVE ReflectCase
  <2>1. CASE deployment.reflect
    <3>1. \A q \in deployment.running : q = p
      BY <1>1, <2>1, DeploymentAssumption DEF Boot, ReflectInv, WorkerRests
    <3>2. actor[Worker].step \in Resting
      BY <1>1, <2>1, <3>1 DEF Boot, ReflectInv, WorkerRests
    <3> QED BY <1>1, <2>1, <3>2 DEF Boot, ReflectCase
  <2>2. CASE ~deployment.reflect
    BY <1>1, <2>2 DEF Boot, ReflectCase
  <2> QED BY <2>1, <2>2
<1>2. ASSUME NEW p \in Process, Terminate(p) PROVE ReflectCase
  BY <1>2 DEF Terminate, ReflectCase
<1>3. ASSUME NEW p \in Process, Exit(p) \/ Crash(p) PROVE ReflectCase
  BY <1>3 DEF Exit, Crash, End, ReflectCase
<1>4. CASE Outbox
  BY <1>4 DEF Outbox, ReflectCase
<1>5. CASE Reflect
  BY <1>5 DEF Reflect, ReflectStep, ReflectCase
<1>6. CASE UNCHANGED vars
  BY <1>6 DEF vars, ReflectCase
<1> QED BY <1>1, <1>2, <1>3, <1>4, <1>5, <1>6 DEF Next

\* Every statement of the queue keeps KeptInv.
LEMMA KeptStep == KeptInv /\ ReflectCase => KeptInv'
<1> SUFFICES ASSUME KeptInv, ReflectCase PROVE KeptInv'
  OBVIOUS
<1> USE ReflectAssumption DEF Job
<1>1. ASSUME NEW a \in Actor, Fetch(a) PROVE KeptInv'
  <2>1. UNCHANGED <<job, reflected, stranded>> /\ actor[a].step = "fetch"
    BY <1>1 DEF Fetch
  <2>2. /\ actor' \in [Actor -> ActorType] /\ \A b \in Actor \ {a} : actor'[b] = actor[b]
        /\ actor'[a].promised = actor[a].promised
        /\ \/ actor'[a].step = "mark" /\ actor'[a].job \in Job
           \/ /\ actor'[a].step = "answered" /\ actor'[a].job = actor[a].job
              /\ \A j \in Job : job[j] # "pending"
    <3>1. actor \in [Actor -> ActorType] /\ actor[a] \in ActorType
      BY DEF KeptInv
    <3>2. ASSUME NEW j \in Job, actor' = [actor EXCEPT ![a].step = "mark", ![a].job = j]
          PROVE  /\ actor' \in [Actor -> ActorType] /\ actor'[a].promised = actor[a].promised
                 /\ actor'[a].step = "mark" /\ actor'[a].job = j
                 /\ \A b \in Actor \ {a} : actor'[b] = actor[b]
      BY <3>1, <3>2 DEF ActorType
    <3>3. ASSUME actor' = [actor EXCEPT ![a].step = "answered"]
          PROVE  /\ actor' \in [Actor -> ActorType] /\ actor'[a].promised = actor[a].promised
                 /\ actor'[a].step = "answered" /\ actor'[a].job = actor[a].job
                 /\ \A b \in Actor \ {a} : actor'[b] = actor[b]
      BY <3>1, <3>3 DEF ActorType
    <3>4. \/ \E j \in Job : actor' = [actor EXCEPT ![a].step = "mark", ![a].job = j]
          \/ /\ actor' = [actor EXCEPT ![a].step = "answered"]
             /\ \A j \in Job : job[j] # "pending"
      BY <1>1 DEF Fetch, Pending
    <3> QED BY <3>2, <3>3, <3>4
  <2>3. \A b \in Actor : HoldsJob(b)'
    BY <2>1, <2>2 DEF KeptInv, HoldsJob, Resting, Working
  <2>4. \A b \in Actor : actor'[b].promised \subseteq Job
    BY <2>2 DEF ActorType
  <2> QED BY <2>1, <2>2, <2>3, <2>4 DEF KeptInv, Working
<1>2. ASSUME NEW a \in Actor, MarkInProgress(a) PROVE KeptInv'
  BY <1>2 DEF MarkInProgress, KeptInv, HoldsJob, ActorType, JobStates, Resting, Working
<1>3. ASSUME NEW a \in Actor, NEW wrote \in BOOLEAN, NEW threw \in BOOLEAN,
             RunReflect(a, wrote, threw)
      PROVE KeptInv'
  BY <1>3 DEF RunReflect, KeptInv, HoldsJob, ActorType, JobStates, Resting, Working
<1>4. ASSUME NEW a \in Actor, RecordOutcome(a) PROVE KeptInv'
  BY <1>4 DEF RecordOutcome, KeptInv, HoldsJob, ActorType, JobStates, Resting, Working
<1>5. ASSUME NEW a \in Actor, NEW applied \in BOOLEAN, StatementThrows(a, applied)
      PROVE KeptInv'
  <2> DEFINE held == [actor[a] EXCEPT !.step = "fail"]
             left == [actor[a] EXCEPT !.step = IF a = Worker THEN "fetch" ELSE "broken", !.job = 0]
  <2>1. actor[a] \in ActorType
    BY DEF KeptInv
  <2>2. held \in ActorType
    BY <2>1 DEF ActorType
  <2>3. left \in ActorType
    <3>1. CASE a = Worker
      BY <2>1, <3>1 DEF ActorType
    <3>2. CASE a # Worker
      BY <2>1, <3>2 DEF ActorType
    <3> QED BY <3>1, <3>2
  <2>4. actor' = [actor EXCEPT ![a] = IF actor[a].step = "complete" THEN held ELSE left]
    BY <1>5 DEF StatementThrows
  <2>5. actor' \in [Actor -> ActorType] /\ \A b \in Actor \ {a} : actor'[b] = actor[b]
    BY <2>2, <2>3, <2>4 DEF KeptInv
  <2>6. actor'[a] = IF actor[a].step = "complete" THEN held ELSE left
    BY <2>4 DEF KeptInv
  <2>7. /\ actor'[a].promised = actor[a].promised
        /\ actor'[a].step \in {"fetch", "fail", "broken"}
        /\ \/ actor[a].step = "complete" /\ actor'[a].step = "fail" /\ actor'[a].job = actor[a].job
           \/ actor[a].step # "complete" /\ actor'[a].step # "fail" /\ actor'[a].job = 0
    BY <2>6 DEF KeptInv, ActorType
  <2> HIDE DEF held, left
  <2>8. /\ UNCHANGED reflected
        /\ stranded \subseteq stranded'
        /\ actor[a].step = "fail" /\ ~applied => actor[a].job \in stranded'
        /\ actor[a].step = "mark" /\ applied => actor[a].job \in stranded'
        /\ actor[a].step \in {"fetch", "mark", "complete", "fail"}
        /\ applied => actor[a].step \in {"mark", "complete", "fail"}
    BY <1>5 DEF StatementThrows, Written
  <2>9. /\ job' \in [Job -> JobStates]
        /\ \A j \in Job : job'[j] = job[j] \/ (applied /\ j = actor[a].job)
        /\ applied => /\ actor[a].job \in Job
                      /\ job'[actor[a].job] = Written[actor[a].step]
    <3>1. CASE applied
      <4>1. actor[a].job \in Job /\ job \in [Job -> JobStates]
        BY <2>8, <3>1 DEF KeptInv, HoldsJob, Working
      <4>2. PICK w \in JobStates : w = Written[actor[a].step]
        BY <2>8, <3>1 DEF Written, JobStates
      <4>3. job' = [job EXCEPT ![actor[a].job] = w]
        BY <1>5, <3>1, <4>2 DEF StatementThrows
      <4>4. /\ job' \in [Job -> JobStates] /\ job'[actor[a].job] = w
            /\ \A j \in Job : j # actor[a].job => job'[j] = job[j]
        BY <4>1, <4>2, <4>3
      <4> QED BY <3>1, <4>1, <4>2, <4>4
    <3>2. CASE ~applied
      BY <1>5, <3>2 DEF StatementThrows, KeptInv
    <3> QED BY <3>1, <3>2
  <2>10. \A b \in Actor : HoldsJob(b)'
    BY <2>5, <2>7, <2>8 DEF KeptInv, HoldsJob, Resting, Working
  <2>11. ASSUME NEW j \in Job, job'[j] = "in_progress"
         PROVE  j \in stranded' \/ \E b \in Actor : actor'[b].job = j /\ actor'[b].step \in Working
    <3>1. CASE applied /\ j = actor[a].job
      <4>1. actor[a].step = "mark"
        BY <2>8, <2>9, <2>11, <3>1 DEF Written
      <4> QED BY <2>8, <3>1, <4>1
    <3>2. CASE ~(applied /\ j = actor[a].job)
      <4>1. job[j] = "in_progress"
        BY <2>9, <2>11, <3>2
      <4>2. CASE j \in stranded
        BY <2>8, <4>2
      <4>3. ASSUME NEW b \in Actor, actor[b].job = j, actor[b].step \in Working, b # a
            PROVE  actor'[b].job = j /\ actor'[b].step \in Working
        BY <2>5, <4>3
      <4>4. CASE actor[a].job = j /\ actor[a].step \in Working
        BY <2>7, <2>8, <3>2, <4>4 DEF Working
      <4> QED BY <4>1, <4>2, <4>3, <4>4 DEF KeptInv
    <3> QED BY <3>1, <3>2
  <2>12. ASSUME NEW j \in Job, job'[j] = "completed" PROVE j \in reflected'
    <3>1. CASE applied /\ j = actor[a].job
      <4>1. actor[a].step = "complete"
        BY <2>8, <2>9, <2>12, <3>1 DEF Written
      <4> QED BY <2>8, <3>1, <4>1 DEF KeptInv, HoldsJob
    <3>2. CASE ~(applied /\ j = actor[a].job)
      BY <2>8, <2>9, <2>12, <3>2 DEF KeptInv
    <3> QED BY <3>1, <3>2
  <2>13. ASSUME NEW b \in Actor, NEW j \in actor'[b].promised
         PROVE  job'[j] # "absent" /\ (actor'[b].step = "answered" => job'[j] # "pending")
    <3>1. /\ j \in actor[b].promised /\ j \in Job
          /\ actor'[b].step = "answered" => actor[b].step = "answered"
      BY <2>5, <2>7, <2>13 DEF KeptInv, ActorType
    <3>2. job[j] # "absent" /\ (actor'[b].step = "answered" => job[j] # "pending")
      BY <3>1 DEF KeptInv
    <3>3. job'[j] = job[j] \/ job'[j] \in {"in_progress", "completed", "failed"}
      BY <2>8, <2>9, <3>1 DEF Written
    <3> QED BY <3>2, <3>3
  <2> QED BY <2>5, <2>9, <2>10, <2>11, <2>12, <2>13 DEF KeptInv
<1>6. ASSUME NEW j \in Job, Enqueue(j) PROVE KeptInv'
  BY <1>6 DEF Enqueue, KeptInv, HoldsJob, ActorType, JobStates, Resting, Working
<1>7. ASSUME NEW a \in Flush, FlushBegins(a) PROVE KeptInv'
  BY <1>7 DEF FlushBegins, Queued, KeptInv, HoldsJob, ActorType, JobStates, Resting, Working, Actor
<1>8. CASE StartWorker /\ actor[Worker].step \in Resting
  BY <1>8 DEF StartWorker, KeptInv, HoldsJob, ActorType, JobStates, Resting, Working, Actor
<1>9. CASE LoseActors
  BY <1>9 DEF LoseActors, NoActor, KeptInv, HoldsJob, ActorType, JobStates, Resting, Working, Actor
<1>10. CASE UNCHANGED reflectVars
  BY <1>10 DEF reflectVars, KeptInv, HoldsJob
<1> QED
  BY <1>1, <1>2, <1>3, <1>4, <1>5, <1>6, <1>7, <1>8, <1>9, <1>10 DEF ReflectCase

\* The worker is at rest whenever no process is up: every end of a process takes it
\* along, and only a boot starts it again.
LEMMA RestStep == ReflectInv /\ [Next]_vars => WorkerRests'
<1> SUFFICES ASSUME ReflectInv, [Next]_vars PROVE WorkerRests'
  OBVIOUS
<1> USE DEF ReflectInv, WorkerRests
<1>1. ASSUME NEW p \in Process, Boot(p) PROVE WorkerRests'
  BY <1>1 DEF Boot
<1>2. ASSUME NEW p \in Process, Terminate(p) PROVE WorkerRests'
  <2>1. p \in Process /\ proc'[p] = "stopping" /\ proc[p] = "up"
    BY <1>2 DEF Terminate
  <2>2. deployment' = deployment /\ actor' = actor /\ \A q \in Process \ {p} : proc'[q] = proc[q]
    BY <1>2 DEF Terminate, reflectVars
  <2> QED BY <1>2, <2>1, <2>2 DEF Terminate
<1>3. ASSUME NEW p \in Process, Exit(p) \/ Crash(p) PROVE WorkerRests'
  <2>1. /\ deployment' = deployment
        /\ proc' \in [Process -> {"down", "up", "stopping"}]
        /\ deployment.reflect => LoseActors
    BY <1>3 DEF Exit, Crash, End
  <2>2. LoseActors => actor'[Worker].step \in Resting
    BY DEF LoseActors, NoActor, KeptInv, ActorType, Actor, Resting
  <2> QED BY <2>1, <2>2
<1>4. CASE Outbox
  BY <1>4 DEF Outbox, processVars, reflectVars
<1>5. CASE Reflect
  <2>1. UNCHANGED <<deployment, proc>>
    BY <1>5 DEF Reflect, processVars
  <2>2. ASSUME NEW a \in Actor, ReflectStep(a), actor[Worker].step \in Resting
        PROVE actor'[Worker].step \in Resting
    <3>1. actor[a].step \notin Resting
      <4>1. ASSUME NEW applied, StatementThrows(a, applied) PROVE actor[a].step \notin Resting
        BY <4>1 DEF StatementThrows, Written, Resting
      <4> QED BY <2>2, <4>1
          DEF ReflectStep, Fetch, MarkInProgress, RecordOutcome, RunReflect, Resting
    <3>2. actor'[Worker] = actor[Worker]
      BY <2>2, <3>1 DEF ReflectStep, Fetch, MarkInProgress, RecordOutcome, StatementThrows,
         RunReflect, KeptInv, Actor
    <3> QED BY <2>2, <3>2
  <2>3. ASSUME \/ \E j \in Job : Enqueue(j)
               \/ \E a \in Flush : FlushBegins(a)
        PROVE actor'[Worker] = actor[Worker]
    BY <2>3, ReflectAssumption DEF Enqueue, FlushBegins, KeptInv, Actor
  <2> QED BY <1>5, <2>1, <2>2, <2>3 DEF Reflect
<1>6. CASE UNCHANGED vars
  BY <1>6 DEF vars, processVars, reflectVars
<1> QED BY <1>1, <1>2, <1>3, <1>4, <1>5, <1>6 DEF Next

\* KeptInv implies the property: a settled or started job has somebody to answer for it.
LEMMA KeptImplies == KeptInv => JobsAreKept
<1> SUFFICES ASSUME KeptInv PROVE JobsAreKept
  OBVIOUS
<1>1. LeftOnlyWhenCutOff
  BY DEF KeptInv, LeftOnlyWhenCutOff
<1>2. ASSUME NEW a \in Flush, actor[a].step = "answered", NEW j \in actor[a].promised
      PROVE \/ job[j] \in Settled \/ j \in stranded
            \/ \E b \in Actor \ {a} : actor[b].job = j
  <2>1. a \in Actor /\ j \in Job
    BY <1>2 DEF KeptInv, ActorType, Actor
  <2>2. job[j] \in JobStates \ {"absent", "pending"}
    BY <1>2, <2>1 DEF KeptInv
  <2>3. CASE job[j] = "in_progress"
    BY <1>2, <2>1, <2>3 DEF KeptInv, Working
  <2> QED BY <2>2, <2>3 DEF JobStates, Settled
<1>3. \A j \in Job : job[j] = "completed" => j \in reflected
  BY DEF KeptInv
<1> QED BY <1>1, <1>2, <1>3 DEF JobsAreKept, FlushDrains

\* No job is lost between the worker and the flushes: one stays in progress only when
\* its actor was cut off, a flush has drained what it found, and what is completed has
\* its reflections. For any number of jobs, flushes, faults and restarts.
THEOREM JobsKept == Spec => []JobsAreKept
<1>1. Init => ReflectInv
  BY ReflectInitial
<1>2. ReflectInv /\ [Next]_vars => ReflectInv'
  BY ReflectSteps, KeptStep, RestStep DEF ReflectInv
<1>3. ReflectInv => JobsAreKept
  BY KeptImplies DEF ReflectInv
<1> QED BY <1>1, <1>2, <1>3, PTL DEF Spec

--------------------------------------------------------------------------------
(* The outbox. A batch is the claimable rows in order: every one of them, each     *)
(* once.                                                                          *)

\* The elements of a finite set of numbers, listed by their rank.
LEMMA Enumerated ==
  ASSUME NEW S \in SUBSET Nat, IsFiniteSet(S), NEW nth,
         nth = [i \in 1..Cardinality(S) |->
                   CHOOSE e \in S : Cardinality({d \in S : d < e}) = i - 1]
  PROVE  /\ Cardinality(S) \in Nat
         /\ \A i \in 1..Cardinality(S) : nth[i] \in S
         /\ \A i, j \in 1..Cardinality(S) : nth[i] = nth[j] => i = j
         /\ \A e \in S : \E i \in 1..Cardinality(S) : nth[i] = e
<1> DEFINE below(e) == {d \in S : d < e}
           n == Cardinality(S)
           rank == [e \in S |-> Cardinality(below(e))]
<1>1. n \in Nat
  BY FS_CardinalityType
<1>2. ASSUME NEW e \in S PROVE IsFiniteSet(below(e)) /\ rank[e] \in Nat /\ rank[e] < n
  <2>1. below(e) \in SUBSET S /\ e \notin below(e)
    OBVIOUS
  <2>2. IsFiniteSet(below(e)) /\ Cardinality(below(e)) <= n /\ Cardinality(below(e)) # n
    BY <2>1, FS_Subset
  <2>3. Cardinality(below(e)) \in Nat
    BY <2>2, FS_CardinalityType
  <2>4. rank[e] = Cardinality(below(e))
    OBVIOUS
  <2> HIDE DEF below, rank, n
  <2> QED BY <1>1, <2>2, <2>3, <2>4
<1>3. ASSUME NEW x \in S, NEW y \in S, x < y
      PROVE  rank[x] < rank[y]
  <2>1. below(x) \in SUBSET below(y)
    <3> SUFFICES ASSUME NEW d \in S, d < x PROVE d < y
      OBVIOUS
    <3>1. d \in Nat /\ x \in Nat /\ y \in Nat
      OBVIOUS
    <3> QED BY <1>3, <3>1
  <2>2. x \in below(y) /\ x \notin below(x)
    BY <1>3
  <2>3. IsFiniteSet(below(y))
    BY <1>2
  <2>4. Cardinality(below(x)) <= Cardinality(below(y))
        /\ Cardinality(below(x)) # Cardinality(below(y))
    BY <2>1, <2>2, <2>3, FS_Subset
  <2>5. rank[x] = Cardinality(below(x)) /\ rank[y] = Cardinality(below(y))
    OBVIOUS
  <2>6. rank[x] \in Nat /\ rank[y] \in Nat
    BY <1>2
  <2> HIDE DEF below, rank
  <2> QED BY <2>4, <2>5, <2>6
<1>4. \A i \in 1..n : nth[i] = CHOOSE e \in S : rank[e] = i - 1
  OBVIOUS
<1> HIDE DEF below, rank, n
<1>5. \A x, y \in S : rank[x] = rank[y] => x = y
  <2> SUFFICES ASSUME NEW x \in S, NEW y \in S, x # y PROVE rank[x] # rank[y]
    OBVIOUS
  <2>1. (x < y \/ y < x) /\ rank[x] \in Nat /\ rank[y] \in Nat
    BY <1>2
  <2> QED BY <1>3, <2>1
\* An injection of S into as many numbers is onto.
<1>6. \A i \in 1..n : \E e \in S : rank[e] = i - 1
  <2> DEFINE place == [e \in S |-> rank[e] + 1]
  <2>1. place \in [S -> 1..n]
    BY <1>1, <1>2
  <2>2. \A x, y \in S : place[x] = place[y] => x = y
    BY <1>2, <1>5
  <2>3. place \in Injection(S, 1..n)
    BY <2>1, <2>2 DEF Injection, IsInjective
  <2>4. IsFiniteSet(1..n) /\ Cardinality(1..n) = n
    BY <1>1, FS_Interval
  <2>5. place \in Surjection(S, 1..n)
    BY <2>3, <2>4, FS_Injection DEF n
  <2>6. \A i \in 1..n : \E e \in S : place[e] = i
    BY <2>5 DEF Surjection
  <2> QED BY <1>2, <2>6
<1>7. \A i \in 1..n : nth[i] \in S /\ rank[nth[i]] = i - 1
  BY <1>4, <1>6
<1>8. \A i, j \in 1..n : nth[i] = nth[j] => i = j
  <2> TAKE i, j \in 1..n
  <2>1. rank[nth[i]] = i - 1 /\ rank[nth[j]] = j - 1
    BY <1>7
  <2> QED BY <2>1
<1>9. \A e \in S : \E i \in 1..n : nth[i] = e
  <2> TAKE e \in S
  <2>1. rank[e] + 1 \in 1..n
    BY <1>1, <1>2
  <2>2. nth[rank[e] + 1] \in S /\ rank[nth[rank[e] + 1]] = (rank[e] + 1) - 1
    BY <1>7, <2>1
  <2>3. rank[nth[rank[e] + 1]] = rank[e]
    BY <1>2, <2>2
  <2> QED BY <1>5, <2>1, <2>2, <2>3
<1> QED BY <1>1, <1>7, <1>8, <1>9 DEF n

Uploading == {"post", "record"}

\* A batch is what the uploader is working at, and names an event once.
Batches ==
    \A p \in Process :
       LET u == uploader[p] IN
       /\ u.step \in Uploading <=> u.batch # <<>>
       /\ u.step = "record" => u.reply \in Replies
       /\ \A i, j \in DOMAIN u.batch : u.batch[i].id = u.batch[j].id => i = j

ClaimsAreHeld ==
    \A p \in Process, e \in Event :
       event[e].state = "claimed" /\ event[e].holder = p => e \in Held(p)

\* What no live uploader lost to another is in one batch, under that claim.
HeldAlone ==
    \A p \in Process, e \in Event :
       e \in Held(p) /\ e \notin takenOver => event[e].state = "claimed" /\ event[e].holder = p

\* The uploaders that have posted an event and not recorded the answer.
Recorders(e) == {p \in Process : uploader[p].step = "record" /\ Head(uploader[p].batch).id = e}

\* An attempt is counted when its answer is recorded, so the attempts of a row and
\* the answers still to be recorded are posts of its event.
AttemptsPosted ==
    \A e \in Event :
       posts[e] = MaxAttempts \/ event[e].attempts + Cardinality(Recorders(e)) <= posts[e]

EntriesPosted ==
    \A p \in Process :
       LET u == uploader[p] IN
       \A i \in DOMAIN u.batch :
          /\ u.batch[i].attempts <= posts[u.batch[i].id]
          /\ i = 1 /\ u.step = "record" => UpTo(u.batch[i].attempts) <= posts[u.batch[i].id]

OutboxInv == /\ OutboxTypeOK /\ Batches /\ ClaimsAreHeld /\ HeldAlone
             /\ AttemptsPosted /\ EntriesPosted

\* What OutcomesStand says of one step.
OutcomeStands == \A e \in Event : SentIsFinal(e) /\ DeadLetterWasTried(e)

\* The batches stay: so do what is held and who records.
LEMMA SameBatches ==
  ASSUME \A p \in Process : uploader'[p].batch = uploader[p].batch,
         \A p \in Process : uploader'[p].step = "record" <=> uploader[p].step = "record"
  PROVE  /\ \A p \in Process : Held(p)' = Held(p)
         /\ \A e \in Event : Recorders(e)' = Recorders(e)
  BY DEF Held, Recorders

LEMMA RecordersFinite ==
  ASSUME NEW e
  PROVE  IsFiniteSet(Recorders(e)) /\ Cardinality(Recorders(e)) \in Nat
<1>1. Recorders(e) \in SUBSET Process /\ IsFiniteSet(Process)
  BY OutboxAssumption DEF Recorders
<1>2. IsFiniteSet(Recorders(e))
  BY <1>1, FS_Subset
<1> QED BY <1>2, FS_CardinalityType

\* A row changes that nobody claims, before and after, or stays under its claim.
LEMMA RowMoves ==
  ASSUME OutboxInv, NEW e \in Event, NEW r \in EventType, event' = [event EXCEPT ![e] = r],
         UNCHANGED <<uploader, accepted, posts, takenOver, refusals>>, entering' \in Nat,
         r.attempts <= event[e].attempts,
         \/ /\ r.state = "claimed" /\ event[e].state = "claimed"
            /\ r.holder = event[e].holder
         \/ r.state # "claimed" /\ event[e].state # "claimed",
         event[e].state = "sent" => r.state = "purged",
         r.state = "dead_letter" => event[e].state = "dead_letter"
  PROVE  OutboxInv' /\ OutcomeStands
<1>1. /\ event'[e] = r /\ \A d \in Event \ {e} : event'[d] = event[d]
      /\ event \in [Event -> EventType] /\ event' \in [Event -> EventType]
  BY DEF OutboxInv, OutboxTypeOK
<1>2. /\ \A p \in Process : Held(p)' = Held(p)
      /\ \A d \in Event : Recorders(d)' = Recorders(d)
  BY SameBatches
<1>3. OutboxTypeOK'
  BY <1>1 DEF OutboxInv, OutboxTypeOK
<1>4. Batches' /\ EntriesPosted'
  BY DEF OutboxInv, Batches, EntriesPosted
<1>5. ClaimsAreHeld' /\ HeldAlone'
  BY <1>1, <1>2 DEF OutboxInv, ClaimsAreHeld, HeldAlone
<1>6. ASSUME NEW d \in Event
      PROVE  posts[d] = MaxAttempts
                \/ event'[d].attempts + Cardinality(Recorders(d)) <= posts[d]
  <2>1. /\ event[d].attempts \in Nat /\ event'[d].attempts \in Nat /\ posts[d] \in Nat
        /\ Cardinality(Recorders(d)) \in Nat
    BY <1>1, RecordersFinite, OutboxAssumption DEF EventType, OutboxInv, OutboxTypeOK
  <2>2. event'[d].attempts <= event[d].attempts
    BY <1>1, <2>1
  <2> QED BY <2>1, <2>2 DEF OutboxInv, AttemptsPosted
<1>7. AttemptsPosted'
  BY <1>2, <1>6 DEF AttemptsPosted
<1>8. OutcomeStands
  BY <1>1 DEF OutcomeStands, SentIsFinal, DeadLetterWasTried
<1> QED BY <1>3, <1>4, <1>5, <1>7, <1>8 DEF OutboxInv

\* Requests, the clock and the retention.
LEMMA EnvironmentKeepsOutbox ==
  ASSUME OutboxInv, NEW limit \in 0..NumEvents, OutboxEnvironment(limit)
  PROVE  OutboxInv' /\ OutcomeStands
<1>1. event \in [Event -> EventType] /\ entering \in Nat
  BY DEF OutboxInv, OutboxTypeOK
<1>2. CASE Enter(limit)
  <2>1. UNCHANGED <<event, uploader, accepted, posts, takenOver, refusals>> /\ entering' \in Nat
    BY <1>1, <1>2 DEF Enter
  <2>2. /\ \A p \in Process : Held(p)' = Held(p)
        /\ \A d \in Event : Recorders(d)' = Recorders(d)
    BY <2>1, SameBatches
  <2>3. OutboxInv'
    BY <2>1, <2>2 DEF OutboxInv, OutboxTypeOK, Batches, ClaimsAreHeld, HeldAlone,
                      AttemptsPosted, EntriesPosted
  <2> QED BY <2>1, <2>3 DEF OutcomeStands, SentIsFinal, DeadLetterWasTried
<1>3. ASSUME NEW e \in 1..limit,
             \/ Insert(e) \/ BecomesDue(e) \/ BecomesStale(e) \/ \E p \in Process : Purge(p, e)
      PROVE  OutboxInv' /\ OutcomeStands
  <2>1. e \in Event /\ event[e] \in EventType
    BY <1>1, OutboxAssumption DEF Event
  <2>2. CASE Insert(e)
    <3> DEFINE r == [event[e] EXCEPT !.state = "pending", !.due = TRUE]
    <3>1. r \in EventType /\ r.state = "pending" /\ r.attempts = event[e].attempts
      BY <2>1 DEF EventType
    <3>2. event' = [event EXCEPT ![e] = r]
      BY <1>1, <2>1, <2>2 DEF Insert
    <3> HIDE DEF r
    <3>4. /\ event[e].state = "absent" /\ entering' \in Nat
          /\ UNCHANGED <<uploader, accepted, posts, takenOver, refusals>>
      BY <1>1, <2>2 DEF Insert
    <3>3. r.attempts <= event[e].attempts
      BY <2>1, <3>1 DEF EventType
    <3> QED BY <2>1, <3>1, <3>2, <3>3, <3>4, RowMoves
  <2>3. CASE BecomesDue(e)
    <3> DEFINE r == [event[e] EXCEPT !.due = TRUE]
    <3>1. r \in EventType /\ r.state = "pending" /\ r.attempts = event[e].attempts
      BY <2>1, <2>3 DEF EventType, BecomesDue
    <3>2. /\ event' = [event EXCEPT ![e] = r] /\ event[e].state = "pending"
          /\ UNCHANGED <<uploader, accepted, posts, takenOver, refusals>> /\ entering' \in Nat
      BY <1>1, <2>3 DEF BecomesDue
    <3> HIDE DEF r
    <3>3. r.attempts <= event[e].attempts
      BY <2>1, <3>1 DEF EventType
    <3> QED BY <2>1, <3>1, <3>2, <3>3, RowMoves
  <2>4. CASE BecomesStale(e)
    <3> DEFINE r == [event[e] EXCEPT !.stale = TRUE]
    <3>1. /\ r \in EventType /\ r.state = "claimed" /\ r.attempts = event[e].attempts
          /\ r.holder = event[e].holder
      BY <2>1, <2>4 DEF EventType, BecomesStale
    <3>2. /\ event' = [event EXCEPT ![e] = r] /\ event[e].state = "claimed"
          /\ UNCHANGED <<uploader, accepted, posts, takenOver, refusals>> /\ entering' \in Nat
      BY <1>1, <2>4 DEF BecomesStale
    <3> HIDE DEF r
    <3>3. r.attempts <= event[e].attempts
      BY <2>1, <3>1 DEF EventType
    <3> QED BY <2>1, <3>1, <3>2, <3>3, RowMoves
  <2>5. CASE \E p \in Process : Purge(p, e)
    <3> DEFINE r == [AbsentRow EXCEPT !.state = "purged"]
    <3>1. r \in EventType /\ r.state = "purged" /\ r.attempts = 0
      <4>1. 0 \in 0..MaxAttempts
        BY OutboxAssumption
      <4> QED BY <4>1 DEF EventType, AbsentRow
    <3>2. /\ event' = [event EXCEPT ![e] = r] /\ event[e].state \in {"sent", "dead_letter"}
          /\ UNCHANGED <<uploader, accepted, posts, takenOver, refusals>> /\ entering' \in Nat
      BY <1>1, <2>5 DEF Purge
    <3> HIDE DEF r
    <3>3. r.attempts <= event[e].attempts
      BY <2>1, <3>1, OutboxAssumption DEF EventType
    <3> QED BY <2>1, <3>1, <3>2, <3>3, RowMoves
  <2> QED BY <1>3, <2>2, <2>3, <2>4, <2>5
<1> QED BY <1>2, <1>3 DEF OutboxEnvironment

\* An uploader changes its mind, not its batch.
LEMMA UploaderMoves ==
  ASSUME OutboxInv, NEW p \in Process, NEW u \in UploaderType,
         uploader' = [uploader EXCEPT ![p] = u],
         UNCHANGED <<event, entering, accepted, posts, takenOver, refusals>>,
         u.batch = uploader[p].batch, u.step = "record" => u.reply = uploader[p].reply,
         \/ u.step = uploader[p].step
         \/ u.step \notin Uploading /\ uploader[p].step \notin Uploading
  PROVE  OutboxInv' /\ OutcomeStands
<1>1. /\ uploader'[p] = u /\ \A q \in Process \ {p} : uploader'[q] = uploader[q]
      /\ uploader' \in [Process -> UploaderType]
  BY DEF OutboxInv, OutboxTypeOK
<1>2. \A q \in Process : /\ uploader'[q].batch = uploader[q].batch
                         /\ uploader'[q].step = "record" => uploader'[q].reply = uploader[q].reply
                         /\ uploader'[q].step \in Uploading <=> uploader[q].step \in Uploading
                         /\ uploader'[q].step = "record" <=> uploader[q].step = "record"
  BY <1>1 DEF Uploading
<1>3. /\ \A q \in Process : Held(q)' = Held(q)
      /\ \A d \in Event : Recorders(d)' = Recorders(d)
  BY <1>2, SameBatches
<1>4. OutboxTypeOK'
  BY <1>1 DEF OutboxInv, OutboxTypeOK
<1>5. Batches'
  BY <1>2 DEF OutboxInv, Batches
<1>6. EntriesPosted'
  BY <1>2 DEF OutboxInv, EntriesPosted
<1>7. ClaimsAreHeld' /\ HeldAlone'
  BY <1>3 DEF OutboxInv, ClaimsAreHeld, HeldAlone
<1>8. AttemptsPosted'
  BY <1>3 DEF OutboxInv, AttemptsPosted
<1>9. OutcomeStands
  BY DEF OutcomeStands, SentIsFinal, DeadLetterWasTried
<1> QED BY <1>4, <1>5, <1>6, <1>7, <1>8, <1>9 DEF OutboxInv

\* Starting, the heartbeat, and the beginning and the end of a shutdown.
LEMMA QuietStepsKeepOutbox ==
  ASSUME OutboxInv, NEW p \in Process,
         \/ StartUploader(p) /\ uploader[p].step = "off"
         \/ StopUploader(p) /\ uploader[p].step # "off"
         \/ \E answer \in {"ok", "auth", "failed"} : Heartbeat(p, answer)
         \/ DrainEnds(p)
  PROVE  OutboxInv' /\ OutcomeStands
<1>1. uploader \in [Process -> UploaderType] /\ uploader[p] \in UploaderType
  BY DEF OutboxInv, OutboxTypeOK
<1>2. CASE StartUploader(p) /\ uploader[p].step = "off"
  <2> DEFINE u == [NoUploader EXCEPT !.step = "idle"]
  <2>1. u \in UploaderType /\ u.step = "idle" /\ u.batch = <<>>
    <3>1. <<>> \in Seq([id : Event, attempts : 0..MaxAttempts])
      OBVIOUS
    <3> QED BY <3>1 DEF UploaderType, NoUploader
  <2>2. /\ uploader' = [uploader EXCEPT ![p] = u]
        /\ UNCHANGED <<event, entering, accepted, posts, takenOver, refusals>>
    BY <1>2 DEF StartUploader
  <2>3. uploader[p].batch = <<>>
    BY <1>2 DEF OutboxInv, Batches, Uploading
  <2> HIDE DEF u
  <2> QED BY <1>2, <2>1, <2>2, <2>3, UploaderMoves DEF Uploading
<1>3. CASE StopUploader(p) /\ uploader[p].step # "off"
  <2> DEFINE s == IF uploader[p].step = "idle" THEN "drain" ELSE uploader[p].step
             u == [uploader[p] EXCEPT !.draining = TRUE, !.step = s]
  <2>1. s \in {"off", "idle", "claim", "post", "record", "drain", "stopped"}
    BY <1>1 DEF UploaderType
  <2>2. /\ uploader' = [uploader EXCEPT ![p] = u]
        /\ UNCHANGED <<event, entering, accepted, posts, takenOver, refusals>>
    BY <1>3 DEF StopUploader
  <2>3. s = uploader[p].step \/ (s \notin Uploading /\ uploader[p].step \notin Uploading)
    BY DEF Uploading
  <2> HIDE DEF s
  <2>4. /\ u \in UploaderType /\ u.step = s /\ u.batch = uploader[p].batch
        /\ u.reply = uploader[p].reply
    BY <1>1, <2>1 DEF UploaderType
  <2> HIDE DEF u
  <2> QED BY <2>2, <2>3, <2>4, UploaderMoves
<1>4. ASSUME NEW answer \in {"ok", "auth", "failed"}, Heartbeat(p, answer)
      PROVE  OutboxInv' /\ OutcomeStands
  <2> DEFINE b == CASE answer = "ok"   -> FALSE
                    [] answer = "auth" -> TRUE
                    [] OTHER           -> uploader[p].paused
             s == IF b THEN "idle" ELSE "claim"
             u == [uploader[p] EXCEPT !.paused = b, !.step = s]
  <2>1. b \in BOOLEAN /\ s \in {"idle", "claim"}
    BY <1>1 DEF UploaderType
  <2>2. uploader' = [uploader EXCEPT ![p].paused = b, ![p].step = s]
        /\ UNCHANGED <<event, entering, accepted, posts, takenOver, refusals>>
    BY <1>4 DEF Heartbeat
  <2> HIDE DEF b, s
  <2>3. /\ u \in UploaderType /\ u.step = s /\ u.batch = uploader[p].batch
        /\ u.reply = uploader[p].reply
    BY <1>1, <2>1 DEF UploaderType
  <2>4. uploader' = [uploader EXCEPT ![p] = u]
    <3> DEFINE v == [uploader[p] EXCEPT !.paused = b]
               w == [uploader EXCEPT ![p] = v]
    <3>1. w \in [Process -> UploaderType] /\ w[p] = v
      BY <1>1, <2>1 DEF UploaderType
    <3>2. uploader' = [w EXCEPT ![p] = [w[p] EXCEPT !.step = s]]
      BY <2>2
    <3>3. uploader' = [w EXCEPT ![p] = u]
      BY <3>1, <3>2
    <3> HIDE DEF u
    <3> QED BY <1>1, <3>3
  <2> HIDE DEF u
  <2> QED BY <1>4, <2>1, <2>2, <2>3, <2>4, UploaderMoves DEF Heartbeat, Uploading
<1>5. CASE DrainEnds(p)
  <2> DEFINE u == [uploader[p] EXCEPT !.step = "stopped"]
  <2>1. /\ u \in UploaderType /\ u.step = "stopped" /\ u.batch = uploader[p].batch
        /\ u.reply = uploader[p].reply
    BY <1>1 DEF UploaderType
  <2>2. /\ uploader' = [uploader EXCEPT ![p] = u] /\ uploader[p].step = "drain"
        /\ UNCHANGED <<event, entering, accepted, posts, takenOver, refusals>>
    BY <1>5 DEF DrainEnds
  <2> HIDE DEF u
  <2> QED BY <2>1, <2>2, UploaderMoves DEF Uploading
<1> QED BY <1>2, <1>3, <1>4, <1>5

\* The process is gone, and its claims with nobody.
LEMMA LossKeepsOutbox ==
  ASSUME OutboxInv, NEW p \in Process, LoseUploader(p)
  PROVE  OutboxInv' /\ OutcomeStands
<1>1. /\ event \in [Event -> EventType] /\ uploader \in [Process -> UploaderType]
      /\ entering \in Nat
  BY DEF OutboxInv, OutboxTypeOK
<1>2. /\ NoUploader \in UploaderType /\ NoUploader.step = "off" /\ NoUploader.batch = <<>>
      /\ None \notin Process
  BY OutboxAssumption DEF UploaderType, NoUploader
<1>3. /\ uploader'[p] = NoUploader /\ \A q \in Process \ {p} : uploader'[q] = uploader[q]
      /\ uploader' \in [Process -> UploaderType]
  BY <1>1, <1>2 DEF LoseUploader
<1>4. ASSUME NEW e \in Event
      PROVE  /\ event'[e] \in EventType /\ event'[e].state = event[e].state
             /\ event'[e].attempts = event[e].attempts
             /\ event'[e].holder = IF event[e].holder = p THEN None ELSE event[e].holder
  <2>1. event'[e] = IF event[e].holder = p THEN [event[e] EXCEPT !.holder = None] ELSE event[e]
    BY DEF LoseUploader
  <2>2. event[e] \in EventType
    BY <1>1
  <2> QED BY <2>1, <2>2 DEF EventType
<1>5. UNCHANGED <<accepted, posts, takenOver, refusals>> /\ entering' \in Nat
      /\ event' \in [Event -> EventType]
  <2>1. event' \in [Event -> EventType]
    BY <1>4 DEF LoseUploader
  <2> QED BY <1>1, <2>1 DEF LoseUploader
<1>6. Held(p)' = {} /\ \A q \in Process \ {p} : Held(q)' = Held(q)
  BY <1>2, <1>3 DEF Held
<1>7. \A e \in Event : Recorders(e)' \in SUBSET Recorders(e)
  BY <1>2, <1>3 DEF Recorders
<1>8. OutboxTypeOK'
  BY <1>3, <1>5 DEF OutboxInv, OutboxTypeOK
<1>9. Batches' /\ EntriesPosted'
  BY <1>2, <1>3, <1>5 DEF OutboxInv, Batches, EntriesPosted, Uploading
<1>10. ClaimsAreHeld'
  BY <1>2, <1>4, <1>6 DEF OutboxInv, ClaimsAreHeld
<1>11. HeldAlone'
  BY <1>4, <1>5, <1>6 DEF OutboxInv, HeldAlone
<1>12. ASSUME NEW e \in Event
       PROVE  posts[e] = MaxAttempts
                 \/ event'[e].attempts + Cardinality(Recorders(e)') <= posts[e]
  <2>1. Cardinality(Recorders(e)') <= Cardinality(Recorders(e))
        /\ Cardinality(Recorders(e)') \in Nat /\ Cardinality(Recorders(e)) \in Nat
    BY <1>7, RecordersFinite, FS_Subset, FS_CardinalityType
  <2>2. event[e].attempts \in Nat /\ posts[e] \in Nat
    BY <1>1, OutboxAssumption DEF EventType, OutboxInv, OutboxTypeOK
  <2> QED BY <1>4, <2>1, <2>2 DEF OutboxInv, AttemptsPosted
<1>13. AttemptsPosted'
  BY <1>5, <1>12 DEF AttemptsPosted
<1>14. OutcomeStands
  BY <1>4 DEF OutcomeStands, SentIsFinal, DeadLetterWasTried
<1> QED BY <1>8, <1>9, <1>10, <1>11, <1>13, <1>14 DEF OutboxInv

\* The next batch: every claimable row in turn, and the claim on each.
LEMMA ClaimKeepsOutbox ==
  ASSUME OutboxInv, NEW p \in Process, uploader[p].step \notin Uploading, Claim(p)
  PROVE  OutboxInv' /\ OutcomeStands
<1> DEFINE ids == {e \in Claimable : Cardinality({d \in Claimable : d < e}) < BatchSize}
           nth == [i \in 1..Cardinality(ids) |->
                      CHOOSE e \in ids : Cardinality({d \in ids : d < e}) = i - 1]
           batch == [i \in DOMAIN nth |-> [id |-> nth[i], attempts |-> event[nth[i]].attempts]]
           n == Cardinality(ids)
           u == uploader[p]
           Entry == [id : Event, attempts : 0..MaxAttempts]
<1>1. /\ event \in [Event -> EventType] /\ uploader \in [Process -> UploaderType]
      /\ u \in UploaderType /\ posts \in [Event -> 0..MaxAttempts] /\ takenOver \subseteq Event
      /\ u.batch = <<>> /\ MaxAttempts \in Nat
  BY OutboxAssumption DEF OutboxInv, OutboxTypeOK, Batches
<1>2. /\ event' = [e \in Event |->
                     IF e \in ids
                     THEN [event[e] EXCEPT !.state = "claimed", !.due = FALSE,
                                           !.stale = FALSE, !.holder = p]
                     ELSE event[e]]
      /\ takenOver' = takenOver \cup
           {e \in ids : event[e].stale /\ \E q \in Process \ {p} : e \in Held(q)}
      /\ uploader' = [uploader EXCEPT
           ![p] = IF ids # {} THEN [u EXCEPT !.step = "post", !.batch = batch]
                  ELSE IF u.step = "drain" THEN [u EXCEPT !.step = "stopped"] ELSE Rest(u)]
      /\ UNCHANGED <<entering, accepted, posts, refusals>>
  BY DEF Claim
\* What is claimed.
<1>3. ids \in SUBSET Event /\ Event \in SUBSET Nat /\ IsFiniteSet(ids)
  <2>1. ids \in SUBSET Event
    BY DEF Claimable
  <2>2. IsFiniteSet(Event) /\ Event \in SUBSET Nat
    BY FS_Interval, OutboxAssumption DEF Event
  <2> HIDE DEF ids
  <2> QED BY <2>1, <2>2, FS_Subset
<1>4. /\ n \in Nat
      /\ \A i \in 1..n : nth[i] \in ids
      /\ \A i, j \in 1..n : nth[i] = nth[j] => i = j
      /\ \A e \in ids : \E i \in 1..n : nth[i] = e
  <2> HIDE DEF ids
  <2>1. ids \in SUBSET Nat
    BY <1>3
  <2> QED BY <1>3, <2>1, Enumerated
<1>5. \A e \in ids : \/ event[e].state = "pending"
                     \/ event[e].state = "claimed" /\ event[e].stale
  BY DEF Claimable
<1>6. ids = {} <=> n = 0
  <2> HIDE DEF ids
  <2> QED BY <1>3, FS_EmptySet
<1> HIDE DEF ids
<1>7. DOMAIN batch = 1..n
      /\ \A i \in 1..n : batch[i].id = nth[i] /\ batch[i].attempts = event[nth[i]].attempts
  OBVIOUS
<1>8. \A i \in 1..n : batch[i] \in Entry
  <2> TAKE i \in 1..n
  <2>1. nth[i] \in Event /\ event[nth[i]] \in EventType
    BY <1>1, <1>3, <1>4
  <2>2. event[nth[i]].attempts \in 0..MaxAttempts
    BY <2>1 DEF EventType
  <2> QED BY <2>1, <2>2
<1>9. batch \in Seq(Entry) /\ (batch = <<>> <=> n = 0)
  <2>1. batch \in [1..n -> Entry]
    BY <1>7, <1>8
  <2> HIDE DEF batch, Entry
  <2>2. batch \in Seq(Entry) /\ Len(batch) = n
    BY <1>4, <2>1
  <2> QED BY <1>4, <2>2
<1> HIDE DEF nth, batch, n
\* The uploader that claims.
<1>10. /\ uploader' \in [Process -> UploaderType]
       /\ \A q \in Process \ {p} : uploader'[q] = uploader[q]
       /\ IF ids # {} THEN uploader'[p].step = "post" /\ uploader'[p].batch = batch
          ELSE uploader'[p].step \notin Uploading /\ uploader'[p].batch = <<>>
  <2>1. CASE ids # {}
    <3>1. [u EXCEPT !.step = "post", !.batch = batch] \in UploaderType
      BY <1>1, <1>9 DEF UploaderType
    <3>2. /\ [u EXCEPT !.step = "post", !.batch = batch].step = "post"
          /\ [u EXCEPT !.step = "post", !.batch = batch].batch = batch
      BY <1>1 DEF UploaderType
    <3>3. uploader' = [uploader EXCEPT ![p] = [u EXCEPT !.step = "post", !.batch = batch]]
      BY <1>2, <2>1
    <3> QED BY <1>1, <2>1, <3>1, <3>2, <3>3
  <2>2. CASE ids = {} /\ u.step = "drain"
    <3>1. [u EXCEPT !.step = "stopped"] \in UploaderType
      BY <1>1 DEF UploaderType
    <3>2. /\ [u EXCEPT !.step = "stopped"].step = "stopped"
          /\ [u EXCEPT !.step = "stopped"].batch = <<>>
      BY <1>1 DEF UploaderType
    <3>3. uploader' = [uploader EXCEPT ![p] = [u EXCEPT !.step = "stopped"]]
      BY <1>2, <2>2
    <3> QED BY <1>1, <2>2, <3>1, <3>2, <3>3 DEF Uploading
  <2>3. CASE ids = {} /\ u.step # "drain"
    <3> DEFINE s == IF u.draining THEN "drain" ELSE "idle"
    <3>1. Rest(u) = [u EXCEPT !.step = s, !.batch = <<>>, !.reply = None] /\ s \in {"drain", "idle"}
      BY DEF Rest
    <3> HIDE DEF s
    <3>2. Rest(u) \in UploaderType /\ Rest(u).step = s /\ Rest(u).batch = <<>>
      BY <1>1, <3>1 DEF UploaderType
    <3>3. uploader' = [uploader EXCEPT ![p] = Rest(u)]
      BY <1>2, <2>3
    <3> QED BY <1>1, <2>3, <3>1, <3>2, <3>3 DEF Uploading
  <2> QED BY <2>1, <2>2, <2>3
<1>11. Held(p) = {} /\ Held(p)' = ids /\ \A q \in Process \ {p} : Held(q)' = Held(q)
  <2>1. Held(p) = {} /\ \A q \in Process \ {p} : Held(q)' = Held(q)
    BY <1>1, <1>10 DEF Held
  <2>2. CASE ids = {}
    <3>1. Held(p)' = {}
      BY <1>10, <2>2 DEF Held
    <3> QED BY <2>1, <2>2, <3>1
  <2>3. CASE ids # {}
    <3>1. Held(p)' = {batch[i].id : i \in 1..n}
      <4>1. uploader'[p].batch = batch
        BY <1>10, <2>3
      <4> QED BY <1>7, <4>1 DEF Held
    <3>2. {batch[i].id : i \in 1..n} = ids
      BY <1>4, <1>7
    <3> QED BY <2>1, <3>1, <3>2
  <2> QED BY <2>1, <2>2, <2>3
<1>12. \A e \in Event : Recorders(e)' = Recorders(e)
  <2>1. uploader[p].step # "record" /\ uploader'[p].step # "record"
    BY <1>10 DEF Uploading
  <2> QED BY <1>10, <2>1 DEF Recorders
\* The rows.
<1>13. ASSUME NEW e \in Event
       PROVE  /\ event'[e] \in EventType /\ event'[e].attempts = event[e].attempts
              /\ e \notin ids => event'[e] = event[e]
              /\ e \in ids => event'[e].state = "claimed" /\ event'[e].holder = p
  <2>1. event[e] \in EventType
    BY <1>1
  <2>2. event'[e] = IF e \in ids
                    THEN [event[e] EXCEPT !.state = "claimed", !.due = FALSE,
                                          !.stale = FALSE, !.holder = p]
                    ELSE event[e]
    BY <1>2
  <2> QED BY <2>1, <2>2 DEF EventType
<1>14. OutboxTypeOK'
  <2>1. event' \in [Event -> EventType]
    BY <1>2, <1>13
  <2>2. takenOver' \subseteq Event
    BY <1>1, <1>2, <1>3
  <2> QED BY <1>2, <1>10, <2>1, <2>2 DEF OutboxInv, OutboxTypeOK
<1>15. Batches'
  <2>1. ASSUME NEW q \in Process
        PROVE  LET v == uploader'[q] IN
               /\ v.step \in Uploading <=> v.batch # <<>>
               /\ v.step = "record" => v.reply \in Replies
               /\ \A i, j \in DOMAIN v.batch : v.batch[i].id = v.batch[j].id => i = j
    <3>1. CASE q # p
      BY <1>10, <3>1 DEF OutboxInv, Batches
    <3>2. CASE q = p /\ ids # {}
      BY <1>4, <1>6, <1>7, <1>9, <1>10, <3>2 DEF Uploading
    <3>3. CASE q = p /\ ids = {}
      BY <1>10, <3>3 DEF Uploading
    <3> QED BY <3>1, <3>2, <3>3
  <2> QED BY <2>1 DEF Batches
<1>16. ClaimsAreHeld'
  BY <1>11, <1>13 DEF OutboxInv, ClaimsAreHeld
<1>17. HeldAlone'
  <2> SUFFICES ASSUME NEW q \in Process, NEW e \in Event, e \in Held(q)', e \notin takenOver'
               PROVE  event'[e].state = "claimed" /\ event'[e].holder = q
    BY DEF HeldAlone
  <2>1. CASE q = p
    BY <1>11, <1>13, <2>1
  <2>2. CASE q # p
    <3>1. e \in Held(q) /\ e \notin takenOver
      BY <1>2, <1>11, <2>2
    <3>2. event[e].state = "claimed" /\ event[e].holder = q
      BY <3>1 DEF OutboxInv, HeldAlone
    <3>3. e \notin ids
      BY <1>2, <1>5, <2>2, <3>1, <3>2
    <3> QED BY <1>13, <3>2, <3>3
  <2> QED BY <2>1, <2>2
<1>18. AttemptsPosted'
  BY <1>2, <1>12, <1>13 DEF OutboxInv, AttemptsPosted
<1>19. EntriesPosted'
  <2>1. ASSUME NEW e \in Event PROVE event[e].attempts <= posts[e]
    <3>1. /\ event[e].attempts \in 0..MaxAttempts /\ posts[e] \in 0..MaxAttempts
          /\ Cardinality(Recorders(e)) \in Nat
      BY <1>1, RecordersFinite DEF EventType
    <3> QED BY <1>1, <3>1 DEF OutboxInv, AttemptsPosted
  <2>2. ASSUME NEW q \in Process
        PROVE  LET v == uploader'[q] IN
               \A i \in DOMAIN v.batch :
                  /\ v.batch[i].attempts <= posts[v.batch[i].id]
                  /\ i = 1 /\ v.step = "record" => UpTo(v.batch[i].attempts) <= posts[v.batch[i].id]
    <3>1. CASE q # p
      BY <1>10, <3>1 DEF OutboxInv, EntriesPosted
    <3>2. CASE q = p /\ ids # {}
      <4>1. /\ DOMAIN uploader'[q].batch = 1..n /\ uploader'[q].step # "record"
            /\ uploader'[q].batch = batch
        BY <1>7, <1>10, <3>2
      <4>2. \A i \in 1..n : nth[i] \in Event
        BY <1>3, <1>4
      <4>3. \A i \in 1..n : batch[i].attempts <= posts[batch[i].id]
        BY <1>7, <2>1, <4>2
      <4> QED BY <4>1, <4>3
    <3>3. CASE q = p /\ ids = {}
      BY <1>10, <3>3
    <3> QED BY <3>1, <3>2, <3>3
  <2> QED BY <1>2, <2>2 DEF EntriesPosted
<1>20. OutcomeStands
  <2>1. \A e \in Event : /\ event'[e].state = "dead_letter" => event[e].state = "dead_letter"
                         /\ event[e].state = "sent" => event'[e].state = "sent"
    BY <1>5, <1>13
  <2> QED BY <2>1 DEF OutcomeStands, SentIsFinal, DeadLetterWasTried
<1> QED BY <1>14, <1>15, <1>16, <1>17, <1>18, <1>19, <1>20 DEF OutboxInv

\* A post is counted as it leaves; its answer is recorded later.
LEMMA PostKeepsOutbox ==
  ASSUME OutboxInv, NEW p \in Process, NEW reply \in Replies, NEW taken \in BOOLEAN,
         Post(p, reply, taken)
  PROVE  OutboxInv' /\ OutcomeStands
<1> DEFINE u == uploader[p]
           w == [u EXCEPT !.step = "record", !.reply = reply]
<1>1. /\ event \in [Event -> EventType] /\ uploader \in [Process -> UploaderType]
      /\ u \in UploaderType /\ posts \in [Event -> 0..MaxAttempts] /\ MaxAttempts \in Nat \ {0}
      /\ u.step = "post" /\ u.batch # <<>> /\ u.batch \in Seq([id : Event, attempts : 0..MaxAttempts])
  BY OutboxAssumption DEF OutboxInv, OutboxTypeOK, Batches, Post, Uploading, UploaderType
<1>2. PICK e0 \in Event : e0 = Head(u.batch).id /\ Head(u.batch) = u.batch[1]
  <2>1. Head(u.batch) \in [id : Event, attempts : 0..MaxAttempts]
    BY <1>1, HeadTailProperties
  <2>2. Head(u.batch) = u.batch[1]
    BY <1>1
  <2> QED BY <2>1, <2>2
<1>3. /\ accepted' = (IF taken THEN accepted \cup {e0} ELSE accepted)
      /\ posts' = [posts EXCEPT ![e0] = UpTo(posts[e0])]
      /\ UNCHANGED <<event, entering, takenOver>>
      /\ refusals' = (IF reply = "auth" THEN refusals + 1 ELSE refusals)
      /\ reply = "auth" => refusals < MaxRefusals
  BY <1>2 DEF Post
<1>4. uploader' = [uploader EXCEPT ![p] = w]
  <2> DEFINE v == [u EXCEPT !.step = "record"]
             x == [uploader EXCEPT ![p] = v]
  <2>1. v \in UploaderType
    BY <1>1 DEF UploaderType
  <2>2. x \in [Process -> UploaderType] /\ x[p] = v
    BY <1>1, <2>1
  <2>3. uploader' = [x EXCEPT ![p] = [x[p] EXCEPT !.reply = reply]]
    BY DEF Post
  <2>4. uploader' = [x EXCEPT ![p] = w]
    BY <2>2, <2>3
  <2> HIDE DEF w
  <2> QED BY <1>1, <2>4
<1>5. w \in UploaderType /\ w.step = "record" /\ w.reply = reply /\ w.batch = u.batch
  BY <1>1 DEF UploaderType, Replies
<1> HIDE DEF w
<1>6. /\ uploader'[p] = w /\ \A q \in Process \ {p} : uploader'[q] = uploader[q]
      /\ uploader' \in [Process -> UploaderType]
  BY <1>1, <1>4, <1>5
<1>7. \A q \in Process : Held(q)' = Held(q)
  BY <1>5, <1>6 DEF Held
<1>8. p \notin Recorders(e0)
      /\ \A e \in Event : Recorders(e)' = IF e = e0 THEN Recorders(e) \cup {p} ELSE Recorders(e)
  BY <1>1, <1>2, <1>5, <1>6 DEF Recorders
<1>9. \A k \in 0..MaxAttempts : UpTo(k) \in 0..MaxAttempts /\ k <= UpTo(k)
                                /\ (UpTo(k) = MaxAttempts \/ UpTo(k) = k + 1)
  BY <1>1 DEF UpTo
<1>10. /\ posts'[e0] = UpTo(posts[e0]) /\ \A e \in Event \ {e0} : posts'[e] = posts[e]
       /\ posts' \in [Event -> 0..MaxAttempts]
  <2>1. posts[e0] \in 0..MaxAttempts
    BY <1>1, <1>2
  <2>2. UpTo(posts[e0]) \in 0..MaxAttempts
    BY <1>9, <2>1
  <2> HIDE DEF UpTo
  <2> QED BY <1>1, <1>2, <1>3, <2>2
<1>11. OutboxTypeOK'
  <2>1. accepted' \subseteq Event /\ refusals' \in 0..MaxRefusals
    <3>1. accepted \subseteq Event /\ refusals \in 0..MaxRefusals /\ MaxRefusals \in Nat
      BY OutboxAssumption DEF OutboxInv, OutboxTypeOK
    <3> QED BY <1>2, <1>3, <3>1
  <2> QED BY <1>3, <1>6, <1>10, <2>1 DEF OutboxInv, OutboxTypeOK
<1>12. Batches'
  <2>1. ASSUME NEW q \in Process
        PROVE  LET v == uploader'[q] IN
               /\ v.step \in Uploading <=> v.batch # <<>>
               /\ v.step = "record" => v.reply \in Replies
               /\ \A i, j \in DOMAIN v.batch : v.batch[i].id = v.batch[j].id => i = j
    <3>1. CASE q # p
      BY <1>6, <3>1 DEF OutboxInv, Batches
    <3>2. CASE q = p
      <4>1. \A i, j \in DOMAIN u.batch : u.batch[i].id = u.batch[j].id => i = j
        BY DEF OutboxInv, Batches
      <4>2. uploader'[q].batch = u.batch /\ uploader'[q].step = "record" /\ uploader'[q].reply = reply
        BY <1>5, <1>6, <3>2
      <4>3. u.batch # <<>> /\ "record" \in Uploading
        BY <1>1 DEF Uploading
      <4> HIDE DEF u
      <4> QED BY <4>1, <4>2, <4>3
    <3> QED BY <3>1, <3>2
  <2> QED BY <2>1 DEF Batches
<1>13. ClaimsAreHeld' /\ HeldAlone'
  BY <1>3, <1>7 DEF OutboxInv, ClaimsAreHeld, HeldAlone
<1>14. AttemptsPosted'
  <2>1. ASSUME NEW e \in Event
        PROVE  posts'[e] = MaxAttempts
                  \/ event[e].attempts + Cardinality(Recorders(e)') <= posts'[e]
    <3>1. /\ event[e].attempts \in Nat /\ posts[e] \in 0..MaxAttempts
          /\ Cardinality(Recorders(e)) \in Nat
      BY <1>1, RecordersFinite DEF EventType
    <3>2. \/ posts[e] = MaxAttempts
          \/ event[e].attempts + Cardinality(Recorders(e)) <= posts[e]
      BY DEF OutboxInv, AttemptsPosted
    <3>3. CASE e # e0
      BY <1>8, <1>10, <3>2, <3>3
    <3>4. CASE e = e0
      <4>1. Cardinality(Recorders(e)') = Cardinality(Recorders(e)) + 1
        <5>1. Recorders(e)' = Recorders(e) \cup {p} /\ p \notin Recorders(e)
          BY <1>8, <3>4
        <5>2. Cardinality(Recorders(e) \cup {p}) = Cardinality(Recorders(e)) + 1
          BY <5>1, RecordersFinite, FS_AddElement
        <5> QED BY <5>1, <5>2
      <4>2. posts'[e] = MaxAttempts \/ (posts'[e] = posts[e] + 1)
        BY <1>9, <1>10, <3>1, <3>4
      <4>3. posts[e] = MaxAttempts => posts'[e] = MaxAttempts
        BY <1>1, <1>9, <1>10, <3>1, <3>4
      <4> QED BY <3>1, <3>2, <4>1, <4>2, <4>3
    <3> QED BY <3>3, <3>4
  <2> QED BY <1>3, <2>1 DEF AttemptsPosted
<1>15. EntriesPosted'
  <2>1. \A e \in Event : posts[e] \in 0..MaxAttempts /\ posts'[e] \in 0..MaxAttempts
                         /\ posts[e] <= posts'[e]
    <3> TAKE e \in Event
    <3>1. posts[e] \in 0..MaxAttempts
      BY <1>1
    <3>2. CASE e = e0
      BY <1>9, <1>10, <3>1, <3>2
    <3>3. CASE e # e0
      BY <1>10, <3>1, <3>3
    <3> QED BY <3>2, <3>3
  <2>2. ASSUME NEW q \in Process, NEW i \in DOMAIN uploader'[q].batch
        PROVE  LET v == uploader'[q] IN
               /\ v.batch[i].attempts <= posts'[v.batch[i].id]
               /\ i = 1 /\ v.step = "record" => UpTo(v.batch[i].attempts) <= posts'[v.batch[i].id]
    <3>1. uploader'[q].batch = uploader[q].batch
      BY <1>5, <1>6
    <3>2. uploader[q].batch \in Seq([id : Event, attempts : 0..MaxAttempts])
      BY <1>1 DEF UploaderType
    <3>3. uploader[q].batch[i] \in [id : Event, attempts : 0..MaxAttempts]
      <4>1. i \in DOMAIN uploader[q].batch
        BY <3>1
      <4>2. i \in 1..Len(uploader[q].batch)
        BY <3>2, <4>1
      <4> QED BY <3>2, <4>2, ElementOfSeq
    <3> DEFINE entry == uploader[q].batch[i]
    <3>4. entry.id \in Event /\ entry.attempts \in 0..MaxAttempts
      BY <3>3
    <3>5. /\ entry.attempts <= posts[entry.id]
          /\ i = 1 /\ uploader[q].step = "record" => UpTo(entry.attempts) <= posts[entry.id]
      BY <3>1 DEF OutboxInv, EntriesPosted
    <3> HIDE DEF entry
    <3>6. entry.attempts <= posts'[entry.id]
      BY <2>1, <3>4, <3>5
    <3>7. ASSUME i = 1, uploader'[q].step = "record"
          PROVE  UpTo(entry.attempts) <= posts'[entry.id]
      <4>1. CASE q = p
        <5>1. entry.id = e0
          BY <1>2, <3>7, <4>1 DEF entry
        <5>2. posts'[entry.id] = UpTo(posts[entry.id])
          BY <1>10, <5>1
        <5>3. \A k, m \in 0..MaxAttempts : k <= m => UpTo(k) <= UpTo(m)
          BY <1>1 DEF UpTo
        <5> QED BY <2>1, <3>4, <3>5, <5>2, <5>3
      <4>2. CASE q # p
        BY <1>6, <1>9, <2>1, <3>4, <3>5, <3>7, <4>2
      <4> QED BY <4>1, <4>2
    <3> QED BY <3>1, <3>6, <3>7 DEF entry
  <2> QED BY <2>2 DEF EntriesPosted
<1>16. OutcomeStands
  BY <1>3 DEF OutcomeStands, SentIsFinal, DeadLetterWasTried
<1> QED BY <1>11, <1>12, <1>13, <1>14, <1>15, <1>16 DEF OutboxInv

\* What an answer makes of a row: nobody holds it, and it counts at most one attempt
\* more; it is given up only when the cloud refused it or at the last attempt.
LEMMA OutcomeOfRow ==
  ASSUME NEW row \in EventType, NEW reply \in Replies,
         NEW entry \in [id : Event, attempts : 0..MaxAttempts]
  PROVE  LET r == Unclaim(Outcome(row, entry, reply)) IN
         /\ r \in EventType /\ r.state \in {"sent", "dead_letter", "pending"}
         /\ r.attempts <= row.attempts + 1
         /\ r.state = "dead_letter" => reply = "rejected" \/ UpTo(entry.attempts) = MaxAttempts
<1> DEFINE o == Outcome(row, entry, reply)
<1>1. MaxAttempts \in Nat \ {0} /\ row.attempts \in 0..MaxAttempts
  BY OutboxAssumption DEF EventType
<1>2. UpTo(row.attempts) \in 0..MaxAttempts /\ UpTo(row.attempts) <= row.attempts + 1
  BY <1>1 DEF UpTo
<1>3. /\ Sent(row) \in EventType /\ Sent(row).state = "sent"
      /\ Sent(row).attempts = row.attempts
  BY DEF Sent, EventType
<1>4. /\ DeadLetter(row) \in EventType /\ DeadLetter(row).state = "dead_letter"
      /\ DeadLetter(row).attempts = row.attempts
  BY DEF DeadLetter, EventType
<1>5. /\ Retry(row) \in EventType /\ Retry(row).state = "pending"
      /\ Retry(row).attempts = UpTo(row.attempts)
  BY <1>2 DEF Retry, EventType
<1>6. /\ o \in {Sent(row), DeadLetter(row), Retry(row)}
      /\ o = DeadLetter(row) => reply = "rejected" \/ entry.attempts + 1 >= MaxAttempts
  <2>1. CASE reply \in {"ok", "rejected", "auth"}
    BY <1>3, <1>4, <1>5, <2>1 DEF Outcome
  <2>2. CASE reply \in {"lost", "busy"}
    BY <1>4, <1>5, <2>2 DEF Outcome
  <2> QED BY <2>1, <2>2 DEF Replies
<1> HIDE DEF o
<1>7. /\ o \in EventType /\ o.state \in {"sent", "dead_letter", "pending"}
      /\ o.attempts <= row.attempts + 1
      /\ o.state = "dead_letter" => o = DeadLetter(row)
  BY <1>1, <1>2, <1>3, <1>4, <1>5, <1>6
<1>8. Unclaim(o) = [o EXCEPT !.stale = FALSE, !.holder = None]
  BY <1>7 DEF Unclaim
<1>9. /\ Unclaim(o) \in EventType /\ Unclaim(o).state = o.state
      /\ Unclaim(o).attempts = o.attempts
  BY <1>7, <1>8 DEF EventType
<1>10. entry.attempts + 1 >= MaxAttempts => UpTo(entry.attempts) = MaxAttempts
  BY <1>1 DEF UpTo
<1> QED BY <1>6, <1>7, <1>9, <1>10 DEF o

\* The answer is recorded, and the batch is an entry shorter.
LEMMA RecordKeepsOutbox ==
  ASSUME OutboxInv, NEW p \in Process, Record(p)
  PROVE  OutboxInv' /\ OutcomeStands
<1> DEFINE u == uploader[p]
           Entry == [id : Event, attempts : 0..MaxAttempts]
           v == [u EXCEPT !.batch = Tail(u.batch), !.reply = None,
                          !.paused = (u.reply = "auth" \/ (u.paused /\ u.reply # "ok"))]
<1>1. /\ event \in [Event -> EventType] /\ uploader \in [Process -> UploaderType]
      /\ u \in UploaderType /\ posts \in [Event -> 0..MaxAttempts] /\ MaxAttempts \in Nat \ {0}
      /\ u.step = "record" /\ u.batch # <<>> /\ u.batch \in Seq(Entry) /\ u.reply \in Replies
  BY OutboxAssumption DEF OutboxInv, OutboxTypeOK, Batches, Record, Uploading, UploaderType
<1>2. /\ Head(u.batch) \in Entry /\ Head(u.batch) = u.batch[1] /\ Tail(u.batch) \in Seq(Entry)
      /\ Len(u.batch) \in Nat \ {0} /\ DOMAIN u.batch = 1..Len(u.batch)
      /\ DOMAIN Tail(u.batch) = 1..(Len(u.batch) - 1)
      /\ \A i \in 1..(Len(u.batch) - 1) : Tail(u.batch)[i] = u.batch[i + 1]
  <2> HIDE DEF Entry
  <2>1. /\ Head(u.batch) \in Entry /\ Tail(u.batch) \in Seq(Entry)
        /\ Len(Tail(u.batch)) = Len(u.batch) - 1
        /\ \A i \in 1..Len(Tail(u.batch)) : Tail(u.batch)[i] = u.batch[i + 1]
    BY <1>1, HeadTailProperties
  <2>2. Len(u.batch) \in Nat \ {0} /\ DOMAIN u.batch = 1..Len(u.batch)
        /\ Head(u.batch) = u.batch[1] /\ DOMAIN Tail(u.batch) = 1..Len(Tail(u.batch))
    BY <1>1, <2>1
  <2> QED BY <2>1, <2>2
<1>3. PICK e0 \in Event : e0 = Head(u.batch).id
  BY <1>2
\* The batch before and after, position by position.
<1>3a. PICK b \in Seq(Entry), t \in Seq(Entry) :
         /\ b = u.batch /\ t = Tail(u.batch) /\ Head(u.batch) = b[1] /\ 1 \in DOMAIN b
         /\ \A i \in DOMAIN t : i \in Int /\ i + 1 \in DOMAIN b /\ i + 1 # 1 /\ t[i] = b[i + 1]
         /\ \A j \in DOMAIN b : j = 1 \/ \E i \in DOMAIN t : j = i + 1
  <2> HIDE DEF Entry
  <2>1. 1 \in DOMAIN u.batch
    BY <1>2
  <2>2. \A i \in DOMAIN Tail(u.batch) :
           i \in Int /\ i + 1 \in DOMAIN u.batch /\ i + 1 # 1 /\ Tail(u.batch)[i] = u.batch[i + 1]
    BY <1>2
  <2>3. \A j \in DOMAIN u.batch : j = 1 \/ \E i \in DOMAIN Tail(u.batch) : j = i + 1
    <3> TAKE j \in DOMAIN u.batch
    <3>1. j = 1 \/ (j - 1 \in 1..(Len(u.batch) - 1) /\ j = (j - 1) + 1)
      BY <1>2
    <3> QED BY <1>2, <3>1
  <2> QED BY <1>1, <1>2, <2>1, <2>2, <2>3
<1> DEFINE r == IF event[e0].state = "purged" THEN event[e0]
                ELSE Unclaim(Outcome(event[e0], Head(u.batch), u.reply))
<1>4. /\ event' = [event EXCEPT ![e0] = r]
      /\ uploader' = [uploader EXCEPT ![p] = IF v.batch = <<>> THEN Rest(v)
                                             ELSE [v EXCEPT !.step = "post"]]
      /\ UNCHANGED <<entering, accepted, posts, takenOver, refusals>>
  BY <1>3 DEF Record
<1>5. /\ r \in EventType /\ r.state \in {"sent", "dead_letter", "pending", "purged"}
      /\ r.attempts <= event[e0].attempts + 1
      /\ r.state = "dead_letter" => \/ u.reply = "rejected"
                                    \/ UpTo(Head(u.batch).attempts) = MaxAttempts
  <2>1. event[e0] \in EventType /\ event[e0].attempts \in Nat
    BY <1>1 DEF EventType
  <2>2. CASE event[e0].state = "purged"
    BY <2>1, <2>2
  <2>3. CASE event[e0].state # "purged"
    <3> DEFINE o == Unclaim(Outcome(event[e0], Head(u.batch), u.reply))
    <3>1. r = o
      BY <2>3
    <3>2. u.reply \in Replies /\ Head(u.batch) \in Entry
      BY <1>1, <1>2
    <3> HIDE DEF r, Entry
    <3>3. /\ o \in EventType /\ o.state \in {"sent", "dead_letter", "pending"}
          /\ o.attempts <= event[e0].attempts + 1
          /\ o.state = "dead_letter" => \/ u.reply = "rejected"
                                        \/ UpTo(Head(u.batch).attempts) = MaxAttempts
      BY <2>1, <3>2, OutcomeOfRow DEF Entry
    <3> HIDE DEF o
    <3> QED BY <3>1, <3>3
  <2> QED BY <2>2, <2>3
<1> HIDE DEF r
<1>6. /\ event'[e0] = r /\ \A e \in Event \ {e0} : event'[e] = event[e]
      /\ event' \in [Event -> EventType]
  BY <1>1, <1>4, <1>5
\* The uploader that records.
<1>7. /\ uploader' \in [Process -> UploaderType]
      /\ \A q \in Process \ {p} : uploader'[q] = uploader[q]
      /\ uploader'[p].batch = Tail(u.batch) /\ uploader'[p].step # "record"
      /\ uploader'[p].step \in Uploading <=> Tail(u.batch) # <<>>
  <2>1. v \in UploaderType /\ v.batch = Tail(u.batch)
    BY <1>1, <1>2 DEF UploaderType
  <2> HIDE DEF v
  <2>2. CASE v.batch = <<>>
    <3> DEFINE s == IF v.draining THEN "drain" ELSE "idle"
    <3>1. Rest(v) = [v EXCEPT !.step = s, !.batch = <<>>, !.reply = None]
      BY DEF Rest
    <3>2. s \in {"drain", "idle"}
      OBVIOUS
    <3> HIDE DEF s
    <3>3. Rest(v) \in UploaderType /\ Rest(v).step = s /\ Rest(v).batch = <<>>
      <4>1. <<>> \in Seq(Entry)
        OBVIOUS
      <4> QED BY <2>1, <3>1, <3>2, <4>1 DEF UploaderType
    <3> QED BY <1>1, <1>4, <2>1, <2>2, <3>2, <3>3 DEF Uploading
  <2>3. CASE v.batch # <<>>
    <3>1. /\ [v EXCEPT !.step = "post"] \in UploaderType
          /\ [v EXCEPT !.step = "post"].step = "post"
          /\ [v EXCEPT !.step = "post"].batch = Tail(u.batch)
      BY <2>1 DEF UploaderType
    <3> QED BY <1>1, <1>4, <2>1, <2>3, <3>1 DEF Uploading
  <2> QED BY <2>2, <2>3
<1> HIDE DEF v
\* Its first entry is the only one of that event, and is gone.
<1>8. \A i, j \in DOMAIN u.batch : u.batch[i].id = u.batch[j].id => i = j
  BY DEF OutboxInv, Batches
<1>9. /\ e0 \in Held(p) /\ e0 \notin Held(p)' /\ Held(p) \ {e0} \subseteq Held(p)'
      /\ Held(p)' \subseteq Held(p) /\ \A q \in Process \ {p} : Held(q)' = Held(q)
  <2>0. uploader[p].batch = b
    BY <1>3a
  <2>1. Held(p) = {b[i].id : i \in DOMAIN b} /\ e0 = b[1].id
    BY <1>3, <2>0 DEF Held
  <2>2. Held(p)' = {t[i].id : i \in DOMAIN t}
    BY <1>7, <1>3a DEF Held
  <2>3. ASSUME NEW i \in DOMAIN t PROVE t[i].id # e0 /\ t[i].id \in Held(p)
    <3>1. i + 1 \in DOMAIN b /\ 1 \in DOMAIN b /\ i + 1 # 1 /\ t[i] = b[i + 1]
      BY <1>3a
    <3>2. b[i + 1].id = b[1].id => i + 1 = 1
      BY <1>8, <2>0, <3>1
    <3> QED BY <2>1, <3>1, <3>2
  <2>5. e0 \notin Held(p)'
    BY <2>2, <2>3
  <2>7. Held(p) \ {e0} \subseteq Held(p)'
    <3> SUFFICES ASSUME NEW j \in DOMAIN b, b[j].id # e0 PROVE b[j].id \in Held(p)'
      BY <2>1
    <3>1. PICK i \in DOMAIN t : j = i + 1
      BY <1>3a, <2>1
    <3>2. b[j].id = t[i].id
      BY <1>3a, <3>1
    <3> QED BY <2>2, <3>2
  <2>8. Held(p)' \subseteq Held(p) /\ e0 \in Held(p)
    BY <1>3a, <2>1, <2>2, <2>3
  <2>9. \A q \in Process \ {p} : Held(q)' = Held(q)
    BY <1>7 DEF Held
  <2> QED BY <2>5, <2>7, <2>8, <2>9
<1>10. p \in Recorders(e0)
       /\ \A e \in Event : Recorders(e)' = IF e = e0 THEN Recorders(e) \ {p} ELSE Recorders(e)
  BY <1>1, <1>3, <1>7 DEF Recorders
<1>11. OutboxTypeOK'
  BY <1>4, <1>6, <1>7 DEF OutboxInv, OutboxTypeOK
<1>12. Batches'
  <2>1. ASSUME NEW q \in Process
        PROVE  LET w == uploader'[q] IN
               /\ w.step \in Uploading <=> w.batch # <<>>
               /\ w.step = "record" => w.reply \in Replies
               /\ \A i, j \in DOMAIN w.batch : w.batch[i].id = w.batch[j].id => i = j
    <3>1. CASE q # p
      BY <1>7, <3>1 DEF OutboxInv, Batches
    <3>2. CASE q = p
      <4>1. ASSUME NEW i \in DOMAIN t, NEW j \in DOMAIN t, t[i].id = t[j].id
            PROVE  i = j
        <5>1. b[i + 1].id = b[j + 1].id /\ i + 1 \in DOMAIN b /\ j + 1 \in DOMAIN b
              /\ i \in Int /\ j \in Int
          BY <1>3a, <4>1
        <5>2. i + 1 = j + 1
          BY <1>8, <1>3a, <5>1
        <5> QED BY <5>1, <5>2
      <4>2. /\ uploader'[q].batch = t /\ uploader'[q].step # "record"
            /\ uploader'[q].step \in Uploading <=> t # <<>>
        BY <1>7, <1>3a, <3>2
      <4> QED BY <4>1, <4>2
    <3> QED BY <3>1, <3>2
  <2> QED BY <2>1 DEF Batches
<1>13. ClaimsAreHeld'
  BY <1>5, <1>6, <1>9 DEF OutboxInv, ClaimsAreHeld
<1>14. HeldAlone'
  <2> SUFFICES ASSUME NEW q \in Process, NEW e \in Event, e \in Held(q)', e \notin takenOver
               PROVE  event'[e].state = "claimed" /\ event'[e].holder = q
    BY <1>4 DEF HeldAlone
  <2>1. e \in Held(q) /\ event[e].state = "claimed" /\ event[e].holder = q
    BY <1>9 DEF OutboxInv, HeldAlone
  <2>2. e # e0
    <3>1. e = e0 => q # p
      BY <1>9
    <3>2. e = e0 => event[e].holder = p
      BY <1>9 DEF OutboxInv, HeldAlone
    <3> QED BY <2>1, <3>1, <3>2
  <2> QED BY <1>6, <2>1, <2>2
<1>15. AttemptsPosted'
  <2>1. ASSUME NEW e \in Event
        PROVE  posts[e] = MaxAttempts
                  \/ event'[e].attempts + Cardinality(Recorders(e)') <= posts[e]
    <3>1. /\ event[e].attempts \in Nat /\ event'[e].attempts \in Nat
          /\ posts[e] \in 0..MaxAttempts /\ Cardinality(Recorders(e)) \in Nat
      <4>1. event[e] \in EventType /\ event'[e] \in EventType /\ posts[e] \in 0..MaxAttempts
        BY <1>1, <1>6
      <4>2. event[e].attempts \in 0..MaxAttempts /\ event'[e].attempts \in 0..MaxAttempts
        BY <4>1 DEF EventType
      <4> QED BY <1>1, <4>1, <4>2, RecordersFinite
    <3>2. \/ posts[e] = MaxAttempts
          \/ event[e].attempts + Cardinality(Recorders(e)) <= posts[e]
      BY DEF OutboxInv, AttemptsPosted
    <3>3. CASE e # e0
      BY <1>6, <1>10, <3>2, <3>3
    <3>4. CASE e = e0
      <4>1. Cardinality(Recorders(e)') = Cardinality(Recorders(e)) - 1
        <5>1. Recorders(e)' = Recorders(e) \ {p} /\ p \in Recorders(e)
          BY <1>10, <3>4
        <5>2. Cardinality(Recorders(e) \ {p}) = Cardinality(Recorders(e)) - 1
          BY <5>1, RecordersFinite, FS_RemoveElement
        <5> QED BY <5>1, <5>2
      <4>2. event'[e].attempts <= event[e].attempts + 1
        BY <1>5, <1>6, <3>4
      <4>3. posts[e] \in Int
        BY <1>1, <3>1
      <4> DEFINE x == event[e].attempts
                 y == event'[e].attempts
                 c == Cardinality(Recorders(e))
                 k == posts[e]
      <4>4. x \in Int /\ y \in Int /\ c \in Int /\ k \in Int
        BY <3>1, <4>3
      <4>5. y <= x + 1 /\ (k = MaxAttempts \/ x + c <= k)
        BY <3>2, <4>2
      <4>6. Cardinality(Recorders(e)') = c - 1
        BY <4>1
      <4> HIDE DEF x, y, c, k
      <4>7. k = MaxAttempts \/ y + (c - 1) <= k
        BY <4>4, <4>5
      <4> QED BY <4>6, <4>7 DEF y, k
    <3> QED BY <3>3, <3>4
  <2> QED BY <1>4, <2>1 DEF AttemptsPosted
<1>16. EntriesPosted'
  <2>1. ASSUME NEW q \in Process, NEW i \in DOMAIN uploader'[q].batch
        PROVE  LET w == uploader'[q] IN
               /\ w.batch[i].attempts <= posts[w.batch[i].id]
               /\ i = 1 /\ w.step = "record" => UpTo(w.batch[i].attempts) <= posts[w.batch[i].id]
    <3>1. CASE q # p
      BY <1>7, <3>1 DEF OutboxInv, EntriesPosted
    <3>2. CASE q = p
      <4>1. i \in 1..(Len(u.batch) - 1) /\ uploader'[q].batch[i] = u.batch[i + 1]
        BY <1>2, <1>7, <3>2
      <4>2. i + 1 \in DOMAIN u.batch
        BY <1>2, <4>1
      <4>3. u.batch[i + 1].attempts <= posts[u.batch[i + 1].id]
        BY <4>2 DEF OutboxInv, EntriesPosted
      <4> QED BY <1>7, <3>2, <4>1, <4>3
    <3> QED BY <3>1, <3>2
  <2> QED BY <1>4, <2>1 DEF EntriesPosted
<1>17. OutcomeStands
  <2>1. ASSUME NEW e \in Event PROVE SentIsFinal(e)
    <3>1. CASE e = e0
      BY <1>9, <3>1 DEF SentIsFinal, OutboxInv, HeldAlone
    <3>2. CASE e # e0
      BY <1>6, <3>2 DEF SentIsFinal
    <3> QED BY <3>1, <3>2
  <2>2. ASSUME NEW e \in Event PROVE DeadLetterWasTried(e)
    <3>1. CASE e # e0
      BY <1>6, <3>1 DEF DeadLetterWasTried
    <3>2. CASE e = e0 /\ u.reply = "rejected"
      BY <1>3, <3>2 DEF DeadLetterWasTried
    <3>3. CASE e = e0 /\ u.reply # "rejected" /\ event'[e].state = "dead_letter"
      <4>1. UpTo(Head(u.batch).attempts) = MaxAttempts
        BY <1>5, <1>6, <3>3
      <4>2. UpTo(u.batch[1].attempts) <= posts[u.batch[1].id] /\ u.batch[1] = Head(u.batch)
        <5>1. 1 \in DOMAIN u.batch
          BY <1>2
        <5> QED BY <1>1, <1>2, <5>1 DEF OutboxInv, EntriesPosted
      <4>3. posts[e] = MaxAttempts
        BY <1>1, <1>3, <3>3, <4>1, <4>2
      <4> QED BY <4>3 DEF DeadLetterWasTried
    <3> QED BY <3>1, <3>2, <3>3 DEF DeadLetterWasTried
  <2> QED BY <2>1, <2>2 DEF OutcomeStands
<1> QED BY <1>11, <1>12, <1>13, <1>14, <1>15, <1>16, <1>17 DEF OutboxInv

\* An uploader that runs is not switched off by its own steps.
LEMMA UploaderStepKeepsOutbox ==
  ASSUME OutboxInv, NEW p \in Process, UploaderStep(p)
  PROVE  /\ OutboxInv' /\ OutcomeStands
         /\ \A q \in Process : uploader'[q].step = "off" <=> uploader[q].step = "off"
<1>1. uploader \in [Process -> UploaderType] /\ uploader[p] \in UploaderType
  BY DEF OutboxInv, OutboxTypeOK
<1>2. ASSUME NEW u, uploader' = [uploader EXCEPT ![p] = u], u.step # "off",
             uploader[p].step # "off"
      PROVE  \A q \in Process : uploader'[q].step = "off" <=> uploader[q].step = "off"
  BY <1>1, <1>2
<1>3. Rest(uploader[p]).step \in {"drain", "idle"}
  BY <1>1 DEF Rest, UploaderType
<1>4. ASSUME NEW answer \in {"ok", "auth", "failed"}, Heartbeat(p, answer)
      PROVE  \A q \in Process : uploader'[q].step = "off" <=> uploader[q].step = "off"
  BY <1>1, <1>4 DEF Heartbeat, UploaderType
<1>5. ASSUME Claim(p), uploader[p].step # "off"
      PROVE  \A q \in Process : uploader'[q].step = "off" <=> uploader[q].step = "off"
  <2>1. PICK b : uploader' \in
           {[uploader EXCEPT ![p] = [uploader[p] EXCEPT !.step = "post", !.batch = b]],
            [uploader EXCEPT ![p] = [uploader[p] EXCEPT !.step = "stopped"]],
            [uploader EXCEPT ![p] = Rest(uploader[p])]}
    BY <1>5 DEF Claim
  <2>2. /\ [uploader[p] EXCEPT !.step = "post", !.batch = b].step # "off"
        /\ [uploader[p] EXCEPT !.step = "stopped"].step # "off"
    BY <1>1 DEF UploaderType
  <2> QED BY <1>2, <1>3, <1>5, <2>1, <2>2
<1>6. ASSUME NEW reply \in Replies, NEW taken \in BOOLEAN, Post(p, reply, taken)
      PROVE  \A q \in Process : uploader'[q].step = "off" <=> uploader[q].step = "off"
  BY <1>1, <1>6 DEF Post, UploaderType
<1>7. ASSUME Record(p)
      PROVE  \A q \in Process : uploader'[q].step = "off" <=> uploader[q].step = "off"
  <2> DEFINE v == [uploader[p] EXCEPT !.batch = Tail(uploader[p].batch), !.reply = None,
                       !.paused = (uploader[p].reply = "auth"
                                     \/ (uploader[p].paused /\ uploader[p].reply # "ok"))]
  <2>1. uploader[p].step = "record"
        /\ uploader' = [uploader EXCEPT ![p] = IF v.batch = <<>> THEN Rest(v)
                                               ELSE [v EXCEPT !.step = "post"]]
    BY <1>7 DEF Record
  <2>2. [v EXCEPT !.step = "post"].step = "post" /\ Rest(v).step \in {"drain", "idle"}
    BY <1>1 DEF Rest, UploaderType
  <2> HIDE DEF v
  <2> QED BY <1>2, <2>1, <2>2
<1>8. ASSUME DrainEnds(p)
      PROVE  \A q \in Process : uploader'[q].step = "off" <=> uploader[q].step = "off"
  BY <1>1, <1>8 DEF DrainEnds, UploaderType
<1>9. TickClaim(p) \/ DrainMore(p) =>
         Claim(p) /\ uploader[p].step \notin Uploading /\ uploader[p].step # "off"
  BY DEF TickClaim, DrainMore, Uploading
<1> QED
  BY <1>4, <1>5, <1>6, <1>7, <1>8, <1>9, QuietStepsKeepOutbox, ClaimKeepsOutbox,
     PostKeepsOutbox, RecordKeepsOutbox DEF UploaderStep

--------------------------------------------------------------------------------
\* The outbox under the processes that come and go: an uploader is off exactly when
\* its process is down or traces are not uploaded.
ProcessInv ==
    /\ OutboxInv
    /\ deployment \in Deployments
    /\ proc \in [Process -> {"down", "up", "stopping"}]
    /\ downs \in 0..MaxDowns
    /\ \A p \in Process : (proc[p] = "down" \/ ~deployment.traces) <=> uploader[p].step = "off"

LEMMA ProcessInitial == Init => ProcessInv
<1> SUFFICES ASSUME Init PROVE ProcessInv
  OBVIOUS
<1>1. 0 \in 0..MaxAttempts /\ 0 \in 0..MaxRefusals /\ 0 \in 0..MaxDowns
  BY OutboxAssumption, DeploymentAssumption
<1>2. /\ NoUploader \in UploaderType /\ NoUploader.step = "off" /\ NoUploader.batch = <<>>
      /\ AbsentRow \in EventType /\ AbsentRow.state = "absent" /\ AbsentRow.attempts = 0
  <2>1. <<>> \in Seq([id : Event, attempts : 0..MaxAttempts])
    OBVIOUS
  <2> QED BY <1>1, <2>1 DEF NoUploader, UploaderType, AbsentRow, EventType
<1>3. /\ event = [e \in Event |-> AbsentRow] /\ uploader = [p \in Process |-> NoUploader]
      /\ entering = 0 /\ accepted = {} /\ takenOver = {} /\ refusals = 0
      /\ posts = [e \in Event |-> 0]
  BY DEF Init, OutboxInit
<1>4. OutboxTypeOK
  BY <1>1, <1>2, <1>3 DEF OutboxTypeOK
<1>5. Batches /\ ClaimsAreHeld /\ HeldAlone /\ EntriesPosted
  BY <1>2, <1>3 DEF Batches, ClaimsAreHeld, HeldAlone, EntriesPosted, Held, Uploading
<1>6. \A e \in Event : Recorders(e) = {}
  BY <1>2, <1>3 DEF Recorders
<1>7. AttemptsPosted
  <2>1. \A e \in Event : event[e].attempts = 0 /\ posts[e] = 0
    BY <1>2, <1>3
  <2> QED BY <1>6, <2>1, FS_EmptySet DEF AttemptsPosted
<1>8. /\ deployment \in Deployments /\ proc = [p \in Process |-> "down"] /\ downs = 0
  BY DEF Init
<1> QED BY <1>1, <1>2, <1>3, <1>4, <1>5, <1>7, <1>8 DEF ProcessInv, OutboxInv

LEMMA ProcessStep ==
  ASSUME ProcessInv, [Next]_vars
  PROVE  ProcessInv' /\ (OutcomeStands \/ UNCHANGED outboxVars)
<1>1. /\ OutboxInv /\ deployment \in Deployments
      /\ proc \in [Process -> {"down", "up", "stopping"}]
      /\ uploader \in [Process -> UploaderType] /\ downs \in 0..MaxDowns /\ MaxDowns \in Nat
  BY DeploymentAssumption DEF ProcessInv, OutboxInv, OutboxTypeOK
<1>2. ASSUME UNCHANGED outboxVars
      PROVE  OutboxInv' /\ UNCHANGED uploader
  <2>1. UNCHANGED <<event, entering, uploader, accepted, posts, takenOver, refusals>>
    BY <1>2 DEF outboxVars
  <2>2. /\ \A q \in Process : Held(q)' = Held(q)
        /\ \A d \in Event : Recorders(d)' = Recorders(d)
    BY <2>1, SameBatches
  <2> QED BY <2>1, <2>2 DEF ProcessInv, OutboxInv, OutboxTypeOK, Batches, ClaimsAreHeld,
                            HeldAlone, AttemptsPosted, EntriesPosted
<1>3. ASSUME NEW p \in Process, Boot(p)
      PROVE  ProcessInv' /\ (OutcomeStands \/ UNCHANGED outboxVars)
  <2>1. /\ proc[p] = "down" /\ proc' = [proc EXCEPT ![p] = "up"]
        /\ UNCHANGED <<deployment, downs>> /\ uploader[p].step = "off"
    BY <1>3 DEF Boot, ProcessInv
  <2>2. CASE deployment.traces
    <3>1. StartUploader(p)
      BY <1>3, <2>2 DEF Boot
    <3>2. OutboxInv' /\ OutcomeStands
      BY <1>1, <2>1, <3>1, QuietStepsKeepOutbox
    <3>3. uploader'[p].step = "idle" /\ \A q \in Process \ {p} : uploader'[q] = uploader[q]
      BY <1>1, <3>1 DEF StartUploader, NoUploader
    <3> QED BY <1>1, <2>1, <2>2, <3>2, <3>3 DEF ProcessInv
  <2>3. CASE ~deployment.traces
    BY <1>1, <1>2, <1>3, <2>1, <2>3 DEF Boot, ProcessInv
  <2> QED BY <2>2, <2>3
<1>4. ASSUME NEW p \in Process, Terminate(p)
      PROVE  ProcessInv' /\ (OutcomeStands \/ UNCHANGED outboxVars)
  <2>1. /\ proc[p] = "up" /\ proc' = [proc EXCEPT ![p] = "stopping"]
        /\ UNCHANGED deployment /\ downs' \in 0..MaxDowns
    BY <1>1, <1>4 DEF Terminate
  <2>2. CASE deployment.traces
    <3>1. StopUploader(p) /\ uploader[p].step # "off"
      BY <1>4, <2>1, <2>2 DEF Terminate, ProcessInv
    <3>2. OutboxInv' /\ OutcomeStands
      BY <1>1, <3>1, QuietStepsKeepOutbox
    <3>3. uploader'[p].step # "off" /\ \A q \in Process \ {p} : uploader'[q] = uploader[q]
      BY <1>1, <3>1 DEF StopUploader, UploaderType
    <3> QED BY <1>1, <2>1, <2>2, <3>1, <3>2, <3>3 DEF ProcessInv
  <2>3. CASE ~deployment.traces
    BY <1>1, <1>2, <1>4, <2>1, <2>3 DEF Terminate, ProcessInv
  <2> QED BY <2>2, <2>3
<1>5. ASSUME NEW p \in Process, Exit(p) \/ Crash(p)
      PROVE  ProcessInv' /\ (OutcomeStands \/ UNCHANGED outboxVars)
  <2>1. /\ End(p) /\ downs' \in 0..MaxDowns
    BY <1>1, <1>5 DEF Exit, Crash
  <2>2. /\ proc' = [proc EXCEPT ![p] = "down"] /\ UNCHANGED deployment
        /\ uploader'[p].step = "off" /\ \A q \in Process \ {p} : uploader'[q] = uploader[q]
    BY <1>1, <2>1 DEF End, LoseUploader, NoUploader
  <2>3. OutboxInv' /\ OutcomeStands
    BY <1>1, <2>1, LossKeepsOutbox DEF End
  <2> QED BY <1>1, <2>1, <2>2, <2>3 DEF ProcessInv
<1>6. CASE Outbox
  <2>1. UNCHANGED <<deployment, proc, downs>> /\ deployment.events \in 0..NumEvents
    BY <1>1, <1>6, DeploymentAssumption DEF Outbox, processVars
  <2>2. CASE OutboxEnvironment(deployment.events)
    <3>1. OutboxInv' /\ OutcomeStands
      BY <1>1, <2>1, <2>2, EnvironmentKeepsOutbox
    <3>2. UNCHANGED uploader
      BY <2>2 DEF OutboxEnvironment, Enter, Insert, BecomesDue, BecomesStale, Purge
    <3> QED BY <2>1, <3>1, <3>2 DEF ProcessInv
  <2>3. CASE \E p \in Process : UploaderStep(p)
    <3>1. /\ OutboxInv' /\ OutcomeStands
          /\ \A q \in Process : uploader'[q].step = "off" <=> uploader[q].step = "off"
      BY <1>1, <2>3, UploaderStepKeepsOutbox
    <3> QED BY <2>1, <3>1 DEF ProcessInv
  <2> QED BY <1>6, <2>2, <2>3 DEF Outbox
<1>7. CASE Reflect \/ UNCHANGED vars
  <2>1. UNCHANGED outboxVars /\ UNCHANGED <<deployment, proc, downs>>
    BY <1>7 DEF Reflect, vars, processVars
  <2> QED BY <1>2, <2>1 DEF ProcessInv
<1> QED BY <1>3, <1>4, <1>5, <1>6, <1>7 DEF Next

LEMMA ProcessInvariant == Spec => []ProcessInv
<1>1. ProcessInv /\ [Next]_vars => ProcessInv'
  BY ProcessStep
<1> QED BY ProcessInitial, <1>1, PTL DEF Spec

\* An orderly shutdown leaves no row claimed by the process that stopped, whoever else
\* claims, posts, records and crashes: for any number of processes and events.
THEOREM StopIsClean == Spec => []StopLeavesNoClaim
<1>1. ProcessInv => StopLeavesNoClaim
  <2> SUFFICES ASSUME ProcessInv, NEW p \in Process, uploader[p].step = "stopped",
                      NEW e \in Event, event[e].state = "claimed", event[e].holder = p
               PROVE  FALSE
    BY DEF StopLeavesNoClaim
  <2>1. e \in Held(p)
    BY DEF ProcessInv, OutboxInv, ClaimsAreHeld
  <2>2. uploader[p].batch = <<>>
    BY DEF ProcessInv, OutboxInv, Batches, Uploading
  <2> QED BY <2>1, <2>2 DEF Held
<1> QED BY <1>1, ProcessInvariant, PTL

\* The outcome of an event is its last one, and it was earned: a row that is sent
\* stays sent unless two live uploaders had its claim, and none is given up before its
\* last attempt, because the attempts of a row never run ahead of its posts.
THEOREM OutcomesAreFinal == Spec => OutcomesStand
<1>1. ProcessInv /\ [Next]_vars => [\A e \in Event : SentIsFinal(e) /\ DeadLetterWasTried(e)]_outboxVars
  BY ProcessStep DEF OutcomeStands
<1> QED BY <1>1, ProcessInvariant, PTL DEF Spec, OutcomesStand

\* The histories of the reflect queue name jobs only, and faults stays under its bound.
ReflectFields == reflected \subseteq Job /\ stranded \subseteq Job /\ faults \in 0..MaxFaults

LEMMA FieldsStep ==
  ASSUME KeptInv, ReflectFields, ReflectCase
  PROVE  ReflectFields'
<1>1. /\ actor \in [Actor -> ActorType] /\ MaxFaults \in Nat
      /\ \A a \in Actor : /\ actor[a].job \in Job \cup {0}
                          /\ actor[a].step \in {"mark"} \cup Working => actor[a].job \in Job
  BY ReflectAssumption DEF KeptInv, HoldsJob, ActorType
<1>2. ASSUME NEW a \in Actor, NEW wrote \in BOOLEAN, NEW threw \in BOOLEAN,
             RunReflect(a, wrote, threw)
      PROVE  ReflectFields'
  <2>1. actor[a].job \in Job /\ UNCHANGED <<stranded, faults>>
        /\ reflected' \in {reflected, reflected \cup {actor[a].job}}
    BY <1>1, <1>2 DEF RunReflect, Working
  <2> QED BY <2>1 DEF ReflectFields
<1>3. ASSUME NEW a \in Actor, NEW applied \in BOOLEAN, StatementThrows(a, applied)
      PROVE  ReflectFields'
  <2>1. /\ faults' \in 0..MaxFaults
    BY <1>1, <1>3 DEF StatementThrows, ReflectFields
  <2>2. UNCHANGED reflected /\ stranded' \subseteq Job
    BY <1>1, <1>3 DEF StatementThrows, ReflectFields, Working, Written
  <2> QED BY <2>1, <2>2 DEF ReflectFields
<1>4. CASE LoseActors
  <2>1. {actor[a].job : a \in {b \in Actor : actor[b].job # 0}} \subseteq Job
    BY <1>1
  <2> QED BY <1>4, <2>1 DEF LoseActors, ReflectFields
<1>5. (\/ \E a \in Actor : Fetch(a) \/ MarkInProgress(a) \/ RecordOutcome(a)
       \/ \E j \in Job : Enqueue(j)
       \/ \E a \in Flush : FlushBegins(a)
       \/ StartWorker \/ UNCHANGED reflectVars)
      => UNCHANGED <<reflected, stranded, faults>>
  BY DEF Fetch, MarkInProgress, RecordOutcome, Enqueue, FlushBegins, StartWorker, reflectVars
<1>6. UNCHANGED <<reflected, stranded, faults>> => ReflectFields'
  BY DEF ReflectFields
<1> QED BY <1>2, <1>3, <1>4, <1>5, <1>6 DEF ReflectCase

\* The shape of the processes, their uploaders, the rows and the reflect queue; an
\* uploader is off exactly while its process is down or traces are not uploaded.
THEOREM TypeCorrect == Spec => []TypeOK
<1>1. Init => ReflectFields
  BY ReflectAssumption DEF Init, ReflectInit, ReflectFields
<1>2. ReflectInv /\ ReflectFields /\ [Next]_vars => ReflectInv' /\ ReflectFields'
  BY ReflectSteps, KeptStep, RestStep, FieldsStep DEF ReflectInv
<1>3. ProcessInv /\ ReflectInv /\ ReflectFields => TypeOK
  BY DEF ProcessInv, OutboxInv, ReflectInv, KeptInv, ReflectFields, TypeOK, ReflectTypeOK
<1> QED BY ReflectInitial, ProcessInvariant, <1>1, <1>2, <1>3, PTL DEF Spec
================================================================================
