---------------------------- MODULE ReplicatedCache ----------------------------
(* The key-value cache of the SDK: StorageManager writes one key to every healthy *)
(* adapter and reads it from the first that has it, with retries and a timeout    *)
(* around each adapter operation, and a health record with a circuit breaker per  *)
(* adapter (storage-manager.ts, resilience-manager.ts, retry-engine.ts,           *)
(* health-tracker.ts, circuit-breaker.ts). An adapter is any StorageAdapter: what *)
(* runs there at the same time may take effect in any order.                      *)
(*                                                                                *)
(* A value is the number of the set or batch call that writes it; 0 is none.      *)
EXTENDS Naturals, FiniteSets, FiniteSetsExt

CONSTANTS
    NumAdapters,        \* adapters[0] is 1
    Client,             \* callers, one call each at a time
    Settings,           \* what a behaviour may be, see CacheAssumption
    FailureThreshold,   \* healthCheck.failureThreshold
    MinOperations,      \* circuitBreaker.minimumOperations
    MaxAttempts,        \* retryPolicy.maxAttempts
    MaxCalls,           \* bound: calls
    MaxFaults           \* bound: operations that fail, and aborts

\* A setting is the quorum of the configuration and bounds of its own on a behaviour.

ASSUME CacheAssumption ==
    /\ {NumAdapters, FailureThreshold, MinOperations, MaxAttempts} \subseteq Nat \ {0}
    /\ {MaxCalls, MaxFaults} \subseteq Nat
    /\ Settings \subseteq [writeQuorum : 1..NumAdapters, requirePrimary : BOOLEAN,
                           clients : SUBSET Client, calls : 0..MaxCalls, faults : 0..MaxFaults,
                           ops : SUBSET {"get", "set", "delete", "keys", "batch"}]

Adapter == 1..NumAdapters
Value   == 1..MaxCalls

VARIABLES
    setting,    \* chosen in Init
    kv,         \* what each adapter holds for the key
    late,       \* effects of operations that timed out and still run
    health,     \* AdapterHealthStatus
    call,       \* the call each client is in, or its last one
    calls,      \* calls begun
    history,    \* what the calls so far promise, see HistoryType
    faults
vars == <<setting, kv, late, health, call, calls, history, faults>>

Ops  == {"get", "set", "delete", "keys", "batch"}
Ends == {"ok", "threw"}

\* queued: a get comes here after the adapters before. waiting: the delay before a
\* retry. out: not healthy when the call began, or not asked.
Busy   == {"queued", "waiting", "flying"}
Stages == Busy \cup {"out", "ok", "failed"}

\* totalOperations counts up to a number at which no failure the bound allows can
\* bring the rate back to the breaker's threshold of one half.
TotalCap == Max({2 * MaxFaults + 1, MinOperations})

HealthType == [healthy : BOOLEAN, open : BOOLEAN, consecutive : 0..MaxFaults,
               total : 0..TotalCap, failed : 0..MaxFaults]
NewHealth == [healthy |-> TRUE, open |-> FALSE, consecutive |-> 0, total |-> 0, failed |-> 0]

\* at: what has come of the call at each adapter. answer: the value of a get.
\* seen: for a set or delete the values whose calls had ended when it began, for a
\* get those that a later call had replaced by then.
CallType == [step : {"idle", "run"} \cup Ends, op : Ops, value : Value \cup {0},
             at : [Adapter -> Stages],
             tries : [Adapter -> 0..MaxAttempts - 1], aborted : BOOLEAN,
             answer : Value \cup {0}, seen : SUBSET Value, stored : BOOLEAN]
NoCall == [step |-> "idle", op |-> "get", value |-> 0, at |-> [a \in Adapter |-> "out"],
           tries |-> [a \in Adapter |-> 0], aborted |-> FALSE, answer |-> 0, seen |-> {},
           stored |-> FALSE]

\* held: who has ever held which value. acked: sets that answered success.
\* replaced: values of calls that had ended before the begin of a call that put
\* something else on every adapter. timedOut: values with an operation that timed out.
HistoryType == [held : SUBSET (Adapter \X Value), ended : SUBSET Value, acked : SUBSET Value,
                replaced : SUBSET Value, timedOut : SUBSET Value, deletes : BOOLEAN]

TypeOK ==
    /\ setting \in Settings
    /\ kv \in [Adapter -> Value \cup {0}]
    /\ late \subseteq Adapter \X (Value \cup {0}) \X (1..MaxAttempts)
    /\ health \in [Adapter -> HealthType]
    /\ call \in [Client -> CallType]
    /\ calls \in 0..MaxCalls
    /\ history \in HistoryType
    /\ faults \in 0..MaxFaults

Init ==
    /\ setting \in Settings
    /\ kv = [a \in Adapter |-> 0]
    /\ late = {}
    /\ health = [a \in Adapter |-> NewHealth]
    /\ call = [c \in Client |-> NoCall]
    /\ calls = 0
    /\ history = [held |-> {}, ended |-> {}, acked |-> {}, replaced |-> {}, timedOut |-> {},
                  deletes |-> FALSE]
    /\ faults = 0

--------------------------------------------------------------------------------
\* Health records.

Counted(h) == [h EXCEPT !.total = Min({@ + 1, TotalCap})]

\* Mutant: a success only counts.
CheckCounted(h) == Counted(h)

\* HealthTracker.recordSuccess. A health check stops here: it leaves the breaker alone.
CheckSucceeded(h) == [Counted(h) EXCEPT !.consecutive = 0, !.healthy = TRUE]

\* ResilienceManager.recordSuccess: an operation that was under way closes the breaker.
Succeeded(h) == [CheckSucceeded(h) EXCEPT !.open = FALSE]

\* HealthTracker.recordFailure.
CheckFailed(h) ==
    [Counted(h) EXCEPT !.failed = @ + 1, !.consecutive = @ + 1,
                       !.healthy = @ /\ h.consecutive + 1 < FailureThreshold]

\* ResilienceManager.recordFailure: the breaker opens at a failure rate of one half.
Failed(h) ==
    LET g == CheckFailed(h) IN
    IF g.total >= MinOperations /\ 2 * g.failed >= g.total
    THEN [g EXCEPT !.open = TRUE, !.healthy = FALSE]
    ELSE g

Healthy == {a \in Adapter : health[a].healthy /\ ~health[a].open}

CanSatisfyWriteQuorum ==
    /\ setting.requirePrimary /\ Healthy # {} => 1 \in Healthy
    /\ Cardinality(Healthy) >= setting.writeQuorum

--------------------------------------------------------------------------------
\* A call's begin.

Begun(op, at, seen) ==
    [NoCall EXCEPT !.step = "run", !.op = op, !.at = at, !.seen = seen,
                   !.value = IF op \in {"set", "batch"} THEN calls + 1 ELSE 0,
                   !.stored = history.acked # {} /\ ~history.deletes]

Refused(op) ==
    \/ op \in {"get", "keys", "batch"} /\ Healthy = {}
    \/ op = "set" /\ ~CanSatisfyWriteQuorum

\* set and delete start at every healthy adapter at once; keys and batch use the
\* first, get begins with it.
Started(op) ==
    [a \in Adapter |-> IF a \in Healthy /\ (op \in {"set", "delete"} \/ a = Min(Healthy))
                       THEN "flying"
                       ELSE IF a \in Healthy /\ op = "get" THEN "queued" ELSE "out"]

Begin(c, op) ==
    /\ call[c].step # "run" /\ c \in setting.clients /\ op \in setting.ops /\ calls < setting.calls
    /\ call' = [call EXCEPT ![c] =
                  IF Refused(op) THEN [Begun(op, NoCall.at, {}) EXCEPT !.step = "threw"]
                  ELSE Begun(op, Started(op),
                             IF op = "get" THEN history.replaced ELSE history.ended)]
    /\ calls' = calls + 1
    /\ history' = [history EXCEPT !.deletes = @ \/ op = "delete"]
    /\ UNCHANGED <<setting, kv, late, health, faults>>

--------------------------------------------------------------------------------
\* The attempts of a call at its adapters.

Writes(c) == call[c].op \in {"set", "delete", "batch"}
Holding(a, v) == IF v = 0 THEN history.held ELSE history.held \cup {<<a, v>>}

Effect(c, a) ==
    IF Writes(c)
    THEN /\ kv' = [kv EXCEPT ![a] = call[c].value]
         /\ history' = [history EXCEPT !.held = Holding(a, call[c].value)]
    ELSE UNCHANGED <<kv, history>>

At(c, a, stage) == call[c].step = "run" /\ call[c].at[a] = stage

AttemptSucceeds(c, a) ==
    /\ At(c, a, "flying")
    /\ Effect(c, a)
    /\ call' = [call EXCEPT ![c].at[a] = "ok",
                            ![c].answer = IF call[c].op = "get" THEN kv[a] ELSE 0]
    /\ health' = [health EXCEPT ![a] = Succeeded(@)]
    /\ UNCHANGED <<setting, late, calls, faults>>

\* The operation is given up at a: get, set and delete count it against the adapter,
\* an abort by their caller included; keys and batch do not.
GivenUp(c, a) ==
    /\ call' = [call EXCEPT ![c].at[a] = "failed"]
    /\ health' = IF call[c].op \in {"keys", "batch"} THEN health
                 ELSE [health EXCEPT ![a] = Failed(@)]

\* Mutant: one attempt too many.
ExtraTry(c, a) == call[c].tries[a] + 1 > MaxAttempts

LastTry(c, a) == call[c].tries[a] + 1 >= MaxAttempts

\* An attempt that throws has changed nothing or (now) what it was to change; one that
\* times out may also do so later. It is tried again unless it was the last one, the
\* call is aborted, or the error or the total duration forbids it (stop).
AttemptFails(c, a, fate, stop) ==
    /\ At(c, a, "flying")
    /\ faults < setting.faults /\ faults' = faults + 1
    /\ fate # "never" => Writes(c)
    /\ \/ fate = "now" /\ Effect(c, a) /\ UNCHANGED late
       \/ fate = "never" /\ UNCHANGED <<kv, history, late>>
       \/ /\ fate = "later"
          /\ late' = late \cup {<<a, call[c].value, call[c].tries[a] + 1>>}
          /\ history' = [history EXCEPT !.timedOut = @ \cup ({call[c].value} \ {0})]
          /\ UNCHANGED kv
    /\ IF stop \/ call[c].aborted \/ LastTry(c, a)
       THEN GivenUp(c, a)
       ELSE /\ call' = [call EXCEPT ![c].at[a] = "waiting", ![c].tries[a] = @ + 1]
            /\ UNCHANGED health
    /\ UNCHANGED <<setting, calls>>

\* The delay is over, or a get comes to its next adapter. An aborted call tries no more.
TryAt(c, a) ==
    /\ IF call[c].aborted THEN GivenUp(c, a)
       ELSE call' = [call EXCEPT ![c].at[a] = "flying"] /\ UNCHANGED health
    /\ UNCHANGED <<setting, kv, late, calls, history, faults>>

Retry(c, a) == At(c, a, "waiting") /\ TryAt(c, a)

AdaptersAt(c, stages) == {a \in Adapter : call[c].at[a] \in stages}

\* get goes on after a null and after an error.
NextAdapter(c, a) ==
    /\ At(c, a, "queued")
    /\ AdaptersAt(c, {"waiting", "flying"}) = {} /\ call[c].answer = 0
    /\ a = Min(AdaptersAt(c, {"queued"}))
    /\ TryAt(c, a)

\* A timed out operation that was still running comes to its end.
Land(e) ==
    /\ e \in late
    /\ late' = late \ {e}
    /\ kv' = [kv EXCEPT ![e[1]] = e[2]]
    /\ history' = [history EXCEPT !.held = Holding(e[1], e[2])]
    /\ UNCHANGED <<setting, health, call, calls, faults>>

Abort(c) ==
    /\ call[c].step = "run" /\ ~call[c].aborted
    /\ faults < setting.faults /\ faults' = faults + 1
    /\ call' = [call EXCEPT ![c].aborted = TRUE]
    /\ UNCHANGED <<setting, kv, late, health, calls, history>>

--------------------------------------------------------------------------------
\* A call's end.

\* Mutant: the adapters that were asked are counted.
EnoughAsked(c) == Cardinality(AdaptersAt(c, {"ok", "failed"})) >= setting.writeQuorum

EnoughWrites(c) == Cardinality(AdaptersAt(c, {"ok"})) >= setting.writeQuorum

Succeeds(c) ==
    CASE call[c].op = "set"               -> EnoughWrites(c)
      [] call[c].op \in {"get", "delete"} -> TRUE
      [] OTHER                            -> AdaptersAt(c, {"failed"}) = {}

\* The call put something else on every adapter: it had to, or it did.
ReplacesAll(c) ==
    \/ call[c].op = "set" /\ EnoughWrites(c) /\ setting.writeQuorum = NumAdapters
    \/ call[c].op = "delete" /\ AdaptersAt(c, {"ok"}) = Adapter

Answer(c) ==
    /\ call[c].step = "run"
    /\ \/ AdaptersAt(c, Busy) = {}
       \/ call[c].answer # 0
    /\ call' = [call EXCEPT ![c].step = IF Succeeds(c) THEN "ok" ELSE "threw"]
    /\ history' = [history EXCEPT
          !.ended    = @ \cup ({call[c].value} \ {0}),
          !.acked    = IF call[c].op = "set" /\ Succeeds(c) THEN @ \cup {call[c].value} ELSE @,
          !.replaced = IF ReplacesAll(c) THEN @ \cup call[c].seen ELSE @]
    /\ UNCHANGED <<setting, kv, late, health, calls, faults>>

--------------------------------------------------------------------------------
\* checkAdapterHealth, on its timer or on demand. A check that finds a good adapter
\* good raises totalOperations only, as a successful call does, and is left out.
HealthCheck(a) ==
    /\ \/ /\ health[a].consecutive > 0 \/ ~health[a].healthy
          /\ health' = [health EXCEPT ![a] = CheckSucceeded(@)] /\ UNCHANGED faults
       \/ /\ faults < setting.faults /\ faults' = faults + 1
          /\ health' = [health EXCEPT ![a] = CheckFailed(@)]
    /\ UNCHANGED <<setting, kv, late, call, calls, history>>

CallStep(c) ==
    \/ \E a \in Adapter :
          \/ AttemptSucceeds(c, a) \/ Retry(c, a) \/ NextAdapter(c, a)
          \/ \E fate \in {"never", "now", "later"}, stop \in BOOLEAN : AttemptFails(c, a, fate, stop)
    \/ Answer(c)

Next ==
    \/ \E c \in Client : CallStep(c) \/ Abort(c) \/ \E op \in Ops : Begin(c, op)
    \/ \E a \in Adapter : HealthCheck(a)
    \/ \E e \in late : Land(e)

\* Every attempt ends by its timeout, every delay by its timer, and the health check
\* runs on an interval.
Fairness ==
    /\ \A c \in Client : WF_vars(CallStep(c))
    /\ \A a \in Adapter : WF_vars(HealthCheck(a))

Spec == Init /\ [][Next]_vars /\ Fairness

--------------------------------------------------------------------------------
\* A set that answered success was taken by a write quorum of adapters, whatever timed
\* out, was retried, or was overtaken by other calls and aborts.
AckedOnQuorum ==
    \A v \in history.acked :
       Cardinality({a \in Adapter : <<a, v>> \in history.held}) >= setting.writeQuorum

\* A get returns no value that a call since put away on every adapter, unless an
\* operation that timed out brought it back; and with a write quorum of all adapters
\* it answers null for a stored value only when all that it asked failed.
ReadsAreCurrent ==
    \A c \in Client :
       call[c].op = "get" /\ call[c].step = "ok" =>
          /\ call[c].answer \in call[c].seen => call[c].answer \in history.timedOut
          /\ /\ call[c].answer = 0 /\ call[c].stored /\ ~history.deletes
             /\ setting.writeQuorum = NumAdapters
             => AdaptersAt(c, {"ok"}) = {}

\* Every call comes to its end, and an adapter set aside for its failures is used again
\* unless its breaker is open.
CallsEndAdaptersReturn ==
    /\ \A c \in Client : call[c].step = "run" ~> call[c].step # "run"
    /\ \A a \in Adapter : ~health[a].healthy ~> health[a].healthy \/ health[a].open
================================================================================
