------------------------------ MODULE CoreProcess -------------------------------
(* The life of core processes and what their background loops make of it: start,  *)
(* SIGTERM, the order of the shutdown, crash and restart (server.ts), with the     *)
(* uploader of CloudTraceOutbox and the worker and flush requests of ReflectQueue. *)
(* The shutdown drains the uploader; the reflect worker is not told, and ends      *)
(* with the process.                                                              *)
EXTENDS CloudTraceOutbox, ReflectQueue

CONSTANTS
    Deployments,        \* what may be deployed, see DeploymentAssumption
    MaxDowns            \* bound: ends of a process

\* CLOUD_TRACE_SYNC_ENABLED, REFLECT_ENABLED, the processes that run, and a
\* bound on the events. Reflect is documented for a single instance.
ASSUME DeploymentAssumption ==
    /\ MaxDowns \in Nat
    /\ Deployments \subseteq [traces : BOOLEAN, reflect : BOOLEAN, running : SUBSET Process,
                     events : 0..NumEvents]
    /\ \A d \in Deployments : d.reflect => \A p, q \in d.running : p = q

VARIABLES
    deployment, \* chosen in Init
    proc,       \* each process: down, up or stopping
    downs
processVars == <<deployment, proc, downs>>
vars == <<processVars, outboxVars, reflectVars>>

Init ==
    /\ deployment \in Deployments
    /\ proc = [p \in Process |-> "down"]
    /\ downs = 0
    /\ OutboxInit /\ ReflectInit

\* Mutant: a process that restarts does not start its uploader again.
BootOnce(p) ==
    /\ p \in deployment.running /\ proc[p] = "down"
    /\ proc' = [proc EXCEPT ![p] = "up"]
    /\ IF deployment.traces /\ downs = 0 THEN StartUploader(p) ELSE UNCHANGED outboxVars
    /\ IF deployment.reflect THEN StartWorker ELSE UNCHANGED reflectVars
    /\ UNCHANGED <<deployment, downs>>

\* bootstrap(): the runtime starts the reflect worker, then the uploader.
Boot(p) ==
    /\ p \in deployment.running /\ proc[p] = "down"
    /\ proc' = [proc EXCEPT ![p] = "up"]
    /\ IF deployment.traces THEN StartUploader(p) ELSE UNCHANGED outboxVars
    /\ IF deployment.reflect THEN StartWorker ELSE UNCHANGED reflectVars
    /\ UNCHANGED <<deployment, downs>>

\* SIGTERM: stopCloudTraceSync begins.
Terminate(p) ==
    /\ proc[p] = "up" /\ downs < MaxDowns
    /\ proc' = [proc EXCEPT ![p] = "stopping"]
    /\ downs' = downs + 1
    /\ IF deployment.traces THEN StopUploader(p) ELSE UNCHANGED outboxVars
    /\ UNCHANGED <<deployment, reflectVars>>

End(p) ==
    /\ proc' = [proc EXCEPT ![p] = "down"]
    /\ LoseUploader(p)
    /\ IF deployment.reflect THEN LoseActors ELSE UNCHANGED reflectVars
    /\ UNCHANGED deployment

\* pool.end() and exit, once the uploader has stopped.
Exit(p) ==
    /\ proc[p] = "stopping" /\ (deployment.traces => uploader[p].step = "stopped")
    /\ End(p)
    /\ UNCHANGED downs

Crash(p) ==
    /\ proc[p] # "down" /\ downs < MaxDowns
    /\ downs' = downs + 1
    /\ End(p)

Outbox ==
    /\ deployment.traces
    /\ OutboxEnvironment(deployment.events) \/ \E p \in Process : UploaderStep(p)
    /\ UNCHANGED <<processVars, reflectVars>>

\* Requests are served while the process is up.
Reflect ==
    /\ deployment.reflect
    /\ \/ \E a \in Actor : ReflectStep(a)
       \/ /\ \E p \in Process : proc[p] = "up"
          /\ \/ \E j \in Job : Enqueue(j)
             \/ \E a \in Flush : FlushBegins(a)
    /\ UNCHANGED <<processVars, outboxVars>>

Next ==
    \/ \E p \in Process : Boot(p) \/ Terminate(p) \/ Exit(p) \/ Crash(p)
    \/ Outbox \/ Reflect

Fairness ==
    /\ \A p \in Process : WF_vars(Boot(p)) /\ WF_vars(Exit(p))
    /\ OutboxFairness
    /\ ReflectFairness

Spec == Init /\ [][Next]_vars /\ Fairness

\* The shape of the state of the processes and of their loops.
TypeOK ==
    /\ deployment \in Deployments
    /\ proc \in [Process -> {"down", "up", "stopping"}]
    /\ downs \in 0..MaxDowns
    /\ OutboxTypeOK /\ ReflectTypeOK
    /\ \A p \in Process : (proc[p] = "down" \/ ~deployment.traces) <=> uploader[p].step = "off"

\* What was put into a queue comes to its end through stops, crashes and restarts:
\* every event, and every job that no actor was cut off from.
QueuesSettle == EventSettles /\ JobsSettle
================================================================================
