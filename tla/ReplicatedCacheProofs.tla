------------------------- MODULE ReplicatedCacheProofs --------------------------
(* Theorems of ReplicatedCache, for any number of adapters, clients, calls, attempts *)
(* and failures: an acknowledged set was taken by a write quorum, a get returns     *)
(* nothing that was put away everywhere, and no adapter is charged with more         *)
(* failures than there were.                                                        *)
EXTENDS ReplicatedCache, FiniteSetTheorems, TLAPS

Shape == [step : {"idle", "run"} \cup Ends, op : Ops, value : Nat, at : [Adapter -> Stages],
          tries : [Adapter -> Nat], aborted : BOOLEAN, answer : Nat, seen : SUBSET Nat,
          stored : BOOLEAN]

HistoryShape == [held : SUBSET (Adapter \X Nat), ended : SUBSET Nat, acked : SUBSET Nat,
                 replaced : SUBSET Nat, timedOut : SUBSET Nat, deletes : BOOLEAN]

\* TypeOK without the bounds, which take no part.
CacheShape ==
    /\ setting \in Settings
    /\ kv \in [Adapter -> Nat]
    /\ late \subseteq Adapter \X Nat \X Nat
    /\ call \in [Client -> Shape]
    /\ calls \in Nat
    /\ history \in HistoryShape

Holders(v) == {a \in Adapter : <<a, v>> \in history.held}

\* What makes AckedOnQuorum inductive: an adapter that a running set counts as
\* written has held its value, and its value is one.
OkHolds ==
    \A c \in Client : call[c].step = "run" /\ call[c].op = "set" =>
       /\ call[c].value # 0
       /\ \A a \in Adapter : call[c].at[a] = "ok" => <<a, call[c].value>> \in history.held

QuorumInv == CacheShape /\ OkHolds /\ AckedOnQuorum

--------------------------------------------------------------------------------
\* The adapters are finitely many.
LEMMA AdaptersFinite == IsFiniteSet(Adapter)
  BY CacheAssumption, FS_Interval DEF Adapter

\* A set of adapters that holds v and reaches the quorum leaves AckedOnQuorum true of v.
LEMMA EnoughHolders ==
  ASSUME NEW S, NEW T \in SUBSET Adapter, S \subseteq T, NEW q \in Nat, Cardinality(S) >= q
  PROVE  Cardinality(T) >= q
<1>1. IsFiniteSet(T)
  BY AdaptersFinite, FS_Subset
<1>2. IsFiniteSet(S) /\ Cardinality(S) <= Cardinality(T)
  BY <1>1, FS_Subset
<1> QED BY <1>1, <1>2, FS_CardinalityType

LEMMA AllAdapters ==
  ASSUME NEW S \in SUBSET Adapter, Cardinality(S) >= NumAdapters
  PROVE  S = Adapter
<1>1. Cardinality(Adapter) = NumAdapters
  BY CacheAssumption, FS_Interval DEF Adapter
<1>2. /\ Cardinality(S) <= Cardinality(Adapter) /\ IsFiniteSet(S)
      /\ Cardinality(S) = Cardinality(Adapter) => S = Adapter
  BY AdaptersFinite, FS_Subset
<1>3. Cardinality(S) \in Nat /\ NumAdapters \in Nat
  BY <1>2, FS_CardinalityType, CacheAssumption
<1> QED BY <1>1, <1>2, <1>3

\* What has been held stays held.
LEMMA AckedStays ==
  ASSUME CacheShape, AckedOnQuorum, history.held \subseteq history'.held,
         history'.acked \subseteq history.acked, UNCHANGED setting
  PROVE  AckedOnQuorum'
<1> SUFFICES ASSUME NEW v \in history'.acked
             PROVE  Cardinality(Holders(v)') >= setting.writeQuorum
  BY DEF AckedOnQuorum, Holders
<1>1. Cardinality(Holders(v)) >= setting.writeQuorum
  BY DEF AckedOnQuorum, Holders
<1>2. setting.writeQuorum \in Nat
  BY CacheAssumption DEF CacheShape
<1>3. Holders(v) \subseteq Holders(v)' /\ Holders(v)' \in SUBSET Adapter
  BY DEF Holders
<1> QED BY <1>1, <1>2, <1>3, EnoughHolders

\* Initially nothing is held and nothing acknowledged.
LEMMA QuorumInitial == Init => QuorumInv
<1> SUFFICES ASSUME Init PROVE QuorumInv
  OBVIOUS
<1>1. NoCall \in Shape
  BY DEF NoCall, Shape, Ops, Ends, Stages, Busy
<1>2. CacheShape
  BY <1>1 DEF Init, CacheShape, HistoryShape
<1>3. OkHolds
  BY DEF Init, OkHolds, NoCall
<1>4. AckedOnQuorum
  BY DEF Init, AckedOnQuorum
<1> QED BY <1>2, <1>3, <1>4 DEF QuorumInv

--------------------------------------------------------------------------------
\* A step of call c that only counts adapters which have taken its value.
LEMMA OkStays ==
  ASSUME CacheShape, OkHolds, history.held \subseteq history'.held,
         NEW c \in Client, NEW r \in Shape, call' = [call EXCEPT ![c] = r],
         r.op = call[c].op, r.value = call[c].value,
         r.step = "run" => call[c].step = "run",
         call[c].op = "set" /\ call[c].value # 0 => \A a \in Adapter :
            r.at[a] = "ok" => call[c].at[a] = "ok" \/ <<a, r.value>> \in history'.held
  PROVE  OkHolds'
<1> SUFFICES ASSUME NEW d \in Client, call'[d].step = "run", call'[d].op = "set"
             PROVE  /\ call'[d].value # 0
                    /\ \A a \in Adapter : call'[d].at[a] = "ok"
                          => <<a, call'[d].value>> \in history'.held
  BY DEF OkHolds
<1>1. CASE d = c
  BY <1>1 DEF CacheShape, OkHolds
<1>2. CASE d # c
  <2>1. call'[d] = call[d]
    BY <1>2 DEF CacheShape
  <2> QED BY <2>1 DEF OkHolds
<1> QED BY <1>1, <1>2

\* A step that leaves the calls alone.
LEMMA OkUnchanged ==
  ASSUME OkHolds, history.held \subseteq history'.held, UNCHANGED call
  PROVE  OkHolds'
  BY DEF OkHolds

\* The value of a call is written at a, and counted as held.
LEMMA EffectShape ==
  ASSUME CacheShape, NEW c \in Client, NEW a \in Adapter, Effect(c, a)
  PROVE  /\ kv' \in [Adapter -> Nat] /\ history' \in HistoryShape
         /\ history.held \subseteq history'.held
         /\ history'.acked = history.acked
         /\ call[c].op = "set" /\ call[c].value # 0 => <<a, call[c].value>> \in history'.held
<1>1. call[c].value \in Nat
  BY DEF CacheShape, Shape
<1>2. CASE Writes(c)
  <2>1. kv' = [kv EXCEPT ![a] = call[c].value] /\ history' = [history EXCEPT !.held = Holding(a, call[c].value)]
    BY <1>2 DEF Effect
  <2>2. /\ Holding(a, call[c].value) \in SUBSET (Adapter \X Nat)
        /\ history.held \subseteq Holding(a, call[c].value)
        /\ call[c].value # 0 => <<a, call[c].value>> \in Holding(a, call[c].value)
    BY <1>1 DEF Holding, CacheShape, HistoryShape
  <2> QED BY <1>1, <2>1, <2>2 DEF CacheShape, HistoryShape
<1>3. CASE ~Writes(c)
  BY <1>3 DEF Effect, Writes, CacheShape
<1> QED BY <1>2, <1>3

\* An adapter's stage and its number of tries change; the call remains what it was.
LEMMA StageShape ==
  ASSUME CacheShape, NEW c \in Client, NEW a \in Adapter, NEW stage \in Stages,
         NEW n \in Nat, NEW answer \in Nat
  PROVE  /\ [call[c] EXCEPT !.at[a] = stage, !.answer = answer] \in Shape
         /\ [call[c] EXCEPT !.at[a] = stage, !.tries[a] = n] \in Shape
         /\ [call[c] EXCEPT !.at[a] = stage] \in Shape
<1>1. call[c] \in Shape
  BY DEF CacheShape
<1>2. /\ [call[c].at EXCEPT ![a] = stage] \in [Adapter -> Stages]
      /\ [call[c].tries EXCEPT ![a] = n] \in [Adapter -> Nat]
  BY <1>1 DEF Shape
<1> QED BY <1>1, <1>2 DEF Shape

\* Where an adapter is given up or tried, no adapter is counted as written.
LEMMA StageKeeps ==
  ASSUME QuorumInv, NEW c \in Client, NEW a \in Adapter, NEW stage \in Stages \ {"ok"},
         NEW n \in Nat, history.held \subseteq history'.held,
         \/ call' = [call EXCEPT ![c] = [call[c] EXCEPT !.at[a] = stage]]
         \/ call' = [call EXCEPT ![c] = [call[c] EXCEPT !.at[a] = stage, !.tries[a] = n]]
  PROVE  call' \in [Client -> Shape] /\ OkHolds'
<1> DEFINE r == call'[c]
<1>1. call[c] \in Shape
  BY DEF QuorumInv, CacheShape
<1>2. r \in Shape /\ call' = [call EXCEPT ![c] = r]
  <2>1. /\ [call[c] EXCEPT !.at[a] = stage] \in Shape
        /\ [call[c] EXCEPT !.at[a] = stage, !.tries[a] = n] \in Shape
    BY StageShape, 0 \in Nat DEF QuorumInv
  <2>2. \A q \in Shape : call' = [call EXCEPT ![c] = q] => r = q /\ call' = [call EXCEPT ![c] = r]
    BY DEF QuorumInv, CacheShape
  <2> QED BY <2>1, <2>2
<1>3. r.at = [call[c].at EXCEPT ![a] = stage] /\ r.op = call[c].op /\ r.value = call[c].value /\ r.step = call[c].step
  <2>1. CASE call' = [call EXCEPT ![c] = [call[c] EXCEPT !.at[a] = stage]]
    BY <1>1, <2>1 DEF QuorumInv, CacheShape, Shape
  <2>2. CASE call' = [call EXCEPT ![c] = [call[c] EXCEPT !.at[a] = stage, !.tries[a] = n]]
    BY <1>1, <2>2 DEF QuorumInv, CacheShape, Shape
  <2> QED BY <2>1, <2>2
<1>4. \A b \in Adapter : r.at[b] = "ok" => call[c].at[b] = "ok"
  BY <1>1, <1>3 DEF Shape
<1> HIDE DEF r
<1>5. OkHolds'
  BY <1>2, <1>3, <1>4, OkStays DEF QuorumInv
<1> QED BY <1>2, <1>5 DEF QuorumInv, CacheShape

LEMMA SucceedsKeeps ==
  ASSUME QuorumInv, NEW c \in Client, NEW a \in Adapter, AttemptSucceeds(c, a)
  PROVE  QuorumInv'
<1> USE DEF QuorumInv
<1> DEFINE answer == IF call[c].op = "get" THEN kv[a] ELSE 0
           r      == [call[c] EXCEPT !.at[a] = "ok", !.answer = answer]
<1>1. call[c] \in Shape /\ answer \in Nat
  BY DEF CacheShape
<1>2. r \in Shape
  BY <1>1, StageShape DEF Stages, Busy
<1>3. call' = [call EXCEPT ![c] = r] /\ Effect(c, a) /\ UNCHANGED <<setting, late, calls>>
  BY DEF AttemptSucceeds, CacheShape
<1>4. /\ r.op = call[c].op /\ r.value = call[c].value /\ r.step = call[c].step
      /\ \A b \in Adapter : r.at[b] = "ok" => call[c].at[b] = "ok" \/ b = a
  BY <1>1 DEF Shape
<1>5. /\ kv' \in [Adapter -> Nat] /\ history' \in HistoryShape
      /\ history.held \subseteq history'.held /\ history'.acked = history.acked
      /\ call[c].op = "set" /\ call[c].value # 0 => <<a, call[c].value>> \in history'.held
  BY <1>3, EffectShape
<1> HIDE DEF r
<1>6. CacheShape'
  BY <1>2, <1>3, <1>5 DEF CacheShape
<1>7. OkHolds'
  BY <1>2, <1>3, <1>4, <1>5, OkStays
<1>8. AckedOnQuorum'
  BY <1>3, <1>5, AckedStays
<1> QED BY <1>6, <1>7, <1>8

\* An operation that is given up, at its last try or by an abort.
LEMMA GivenUpKeeps ==
  ASSUME QuorumInv, NEW c \in Client, NEW a \in Adapter, GivenUp(c, a),
         history.held \subseteq history'.held
  PROVE  call' \in [Client -> Shape] /\ OkHolds'
<1>1. call' = [call EXCEPT ![c] = [call[c] EXCEPT !.at[a] = "failed"]]
  BY DEF GivenUp, QuorumInv, CacheShape
<1> QED BY <1>1, StageKeeps, 0 \in Nat DEF Stages, Busy

LEMMA FailsKeeps ==
  ASSUME QuorumInv, NEW c \in Client, NEW a \in Adapter, NEW fate, NEW stop,
         AttemptFails(c, a, fate, stop)
  PROVE  QuorumInv'
<1> USE DEF QuorumInv
<1>1. call[c] \in Shape /\ call[c].value \in Nat /\ call[c].tries[a] + 1 \in Nat
  BY DEF CacheShape, Shape
<1>2. /\ kv' \in [Adapter -> Nat] /\ history' \in HistoryShape
      /\ late' \subseteq Adapter \X Nat \X Nat
      /\ history.held \subseteq history'.held /\ history'.acked = history.acked
  <2>1. CASE fate = "now" /\ Effect(c, a) /\ UNCHANGED late
    BY <2>1, EffectShape DEF CacheShape
  <2>2. CASE UNCHANGED <<kv, history, late>>
    BY <2>2 DEF CacheShape
  <2>3. CASE /\ late' = late \cup {<<a, call[c].value, call[c].tries[a] + 1>>}
             /\ history' = [history EXCEPT !.timedOut = @ \cup ({call[c].value} \ {0})]
             /\ UNCHANGED kv
    BY <1>1, <2>3 DEF CacheShape, HistoryShape
  <2> QED BY <2>1, <2>2, <2>3 DEF AttemptFails
<1>3. call' \in [Client -> Shape] /\ OkHolds'
  <2>1. CASE GivenUp(c, a)
    BY <1>2, <2>1, GivenUpKeeps
  <2>2. CASE call' = [call EXCEPT ![c].at[a] = "waiting", ![c].tries[a] = @ + 1]
    <3>1. call' = [call EXCEPT ![c] = [call[c] EXCEPT !.at[a] = "waiting",
                                                      !.tries[a] = call[c].tries[a] + 1]]
      BY <2>2 DEF CacheShape
    <3> QED BY <1>1, <1>2, <3>1, StageKeeps DEF Stages, Busy
  <2> QED BY <2>1, <2>2 DEF AttemptFails
<1>4. UNCHANGED <<setting, calls>>
  BY DEF AttemptFails
<1>5. CacheShape'
  BY <1>2, <1>3, <1>4 DEF CacheShape
<1>6. AckedOnQuorum'
  BY <1>2, <1>4, AckedStays
<1> QED BY <1>3, <1>5, <1>6

\* A retry, or the next adapter of a get.
LEMMA TryKeeps ==
  ASSUME QuorumInv, NEW c \in Client, NEW a \in Adapter, TryAt(c, a)
  PROVE  QuorumInv'
<1> USE DEF QuorumInv
<1>1. UNCHANGED <<setting, kv, late, calls, history>>
  BY DEF TryAt
<1>2. call' \in [Client -> Shape] /\ OkHolds'
  <2>1. CASE GivenUp(c, a)
    BY <1>1, <2>1, GivenUpKeeps
  <2>2. CASE call' = [call EXCEPT ![c].at[a] = "flying"]
    <3>1. call' = [call EXCEPT ![c] = [call[c] EXCEPT !.at[a] = "flying"]]
      BY <2>2 DEF CacheShape
    <3> QED BY <1>1, <3>1, StageKeeps, 0 \in Nat DEF Stages, Busy
  <2> QED BY <2>1, <2>2 DEF TryAt
<1>3. CacheShape' /\ AckedOnQuorum'
  BY <1>1, <1>2 DEF CacheShape, AckedOnQuorum
<1> QED BY <1>2, <1>3

\* A set is acknowledged only here, and only with enough adapters that took it.
LEMMA AnswerKeeps ==
  ASSUME QuorumInv, NEW c \in Client, Answer(c)
  PROVE  QuorumInv'
<1> USE DEF QuorumInv
<1> DEFINE r == [call[c] EXCEPT !.step = IF Succeeds(c) THEN "ok" ELSE "threw"]
<1>1. call[c] \in Shape /\ call[c].value \in Nat /\ call[c].seen \in SUBSET Nat
  BY DEF CacheShape, Shape
<1>2. /\ r \in Shape /\ call' = [call EXCEPT ![c] = r]
      /\ r.step # "run" /\ r.at = call[c].at /\ r.op = call[c].op /\ r.value = call[c].value
  BY <1>1 DEF Answer, CacheShape, Shape, Ends
<1>3. UNCHANGED <<setting, kv, late, calls>>
  BY DEF Answer
<1>4. /\ history' \in HistoryShape /\ history'.held = history.held
      /\ history'.acked = IF call[c].op = "set" /\ Succeeds(c)
                          THEN history.acked \cup {call[c].value} ELSE history.acked
  BY <1>1 DEF Answer, CacheShape, HistoryShape
<1> HIDE DEF r
<1>5. CacheShape'
  BY <1>2, <1>3, <1>4 DEF CacheShape
<1>6. OkHolds'
  BY <1>2, <1>4, OkStays
<1>7. AckedOnQuorum'
  <2> SUFFICES ASSUME NEW v \in history'.acked
               PROVE  Cardinality(Holders(v)) >= setting.writeQuorum
    BY <1>3, <1>4 DEF AckedOnQuorum, Holders
  <2>1. CASE v \in history.acked
    BY <2>1 DEF AckedOnQuorum, Holders
  <2>2. CASE v \notin history.acked
    <3>1. v = call[c].value /\ call[c].op = "set" /\ EnoughWrites(c) /\ call[c].step = "run"
      BY <1>4, <2>2 DEF Succeeds, Answer
    <3>2. AdaptersAt(c, {"ok"}) \subseteq Holders(v)
      BY <3>1 DEF OkHolds, AdaptersAt, Holders
    <3>3. setting.writeQuorum \in Nat /\ Holders(v) \in SUBSET Adapter
      BY CacheAssumption DEF CacheShape, Holders
    <3> QED BY <3>1, <3>2, <3>3, EnoughHolders DEF EnoughWrites
  <2> QED BY <2>1, <2>2
<1> QED BY <1>5, <1>6, <1>7

\* A new call has nothing written yet, and a set or batch has a value of its own.
LEMMA BeginKeeps ==
  ASSUME QuorumInv, NEW c \in Client, NEW op \in Ops, Begin(c, op)
  PROVE  QuorumInv'
<1> USE DEF QuorumInv
<1>1. ASSUME NEW at \in [Adapter -> Stages \ {"ok"}], NEW seen \in SUBSET Nat
      PROVE  /\ Begun(op, at, seen) \in Shape
             /\ [Begun(op, at, seen) EXCEPT !.step = "threw"] \in Shape
             /\ [Begun(op, at, seen) EXCEPT !.step = "threw"].step # "run"
             /\ Begun(op, at, seen).at = at /\ Begun(op, at, seen).op = op
             /\ op = "set" => Begun(op, at, seen).value # 0
  <2> DEFINE value  == IF op \in {"set", "batch"} THEN calls + 1 ELSE 0
             stored == history.acked # {} /\ ~history.deletes
  <2>1. NoCall \in Shape
    BY DEF NoCall, Shape, Ops, Ends, Stages, Busy
  <2>2. value \in Nat /\ (op = "set" => value # 0) /\ at \in [Adapter -> Stages]
    BY DEF CacheShape
  <2>3. stored \in BOOLEAN
    OBVIOUS
  <2>4. Begun(op, at, seen) =
           [NoCall EXCEPT !.step = "run", !.op = op, !.at = at, !.seen = seen, !.value = value,
                          !.stored = stored]
    BY Zenon DEF Begun
  <2> HIDE DEF value, stored
  <2>5. /\ Begun(op, at, seen) \in Shape
        /\ Begun(op, at, seen).at = at /\ Begun(op, at, seen).op = op
        /\ Begun(op, at, seen).value = value
    BY <2>1, <2>2, <2>3, <2>4 DEF Shape
  <2>6. [Begun(op, at, seen) EXCEPT !.step = "threw"] \in Shape
    BY <2>5 DEF Shape, Ends
  <2>7. [Begun(op, at, seen) EXCEPT !.step = "threw"].step = "threw"
    BY <2>5 DEF Shape
  <2> QED BY <2>2, <2>5, <2>6, <2>7
<1>2. NoCall.at \in [Adapter -> Stages \ {"ok"}] /\ Started(op) \in [Adapter -> Stages \ {"ok"}]
  BY DEF NoCall, Started, Stages, Busy
<1>3. {} \in SUBSET Nat /\ history.replaced \in SUBSET Nat /\ history.ended \in SUBSET Nat
  BY DEF CacheShape, HistoryShape
<1>4. PICK r \in Shape : /\ call' = [call EXCEPT ![c] = r]
                         /\ r.step = "run" /\ r.op = "set" => r.value # 0
                         /\ r.step = "run" => \A a \in Adapter : r.at[a] # "ok"
  <2>1. CASE Refused(op)
    <3>1. call' = [call EXCEPT ![c] = [Begun(op, NoCall.at, {}) EXCEPT !.step = "threw"]]
      BY <2>1 DEF Begin
    <3>2. /\ [Begun(op, NoCall.at, {}) EXCEPT !.step = "threw"] \in Shape
          /\ [Begun(op, NoCall.at, {}) EXCEPT !.step = "threw"].step # "run"
      BY <1>1, <1>2, <1>3
    <3> QED BY <3>1, <3>2
  <2>2. CASE ~Refused(op)
    <3>1. PICK seen \in SUBSET Nat : call' = [call EXCEPT ![c] = Begun(op, Started(op), seen)]
      BY <1>3, <2>2 DEF Begin
    <3>2. /\ Begun(op, Started(op), seen) \in Shape /\ Begun(op, Started(op), seen).at = Started(op)
          /\ Begun(op, Started(op), seen).op = op
          /\ op = "set" => Begun(op, Started(op), seen).value # 0
      BY <1>1, <1>2
    <3> QED BY <1>2, <3>1, <3>2
  <2> QED BY <2>1, <2>2
<1>5. /\ history' \in HistoryShape /\ history'.held = history.held /\ history'.acked = history.acked
      /\ calls' \in Nat /\ UNCHANGED <<setting, kv, late>>
  <2> DEFINE deletes == history.deletes \/ op = "delete"
  <2>1. deletes \in BOOLEAN
    OBVIOUS
  <2>2. history' = [history EXCEPT !.deletes = deletes]
    BY DEF Begin
  <2> HIDE DEF deletes
  <2>3. /\ history' \in HistoryShape /\ history'.held = history.held
        /\ history'.acked = history.acked
    BY <2>1, <2>2 DEF CacheShape, HistoryShape
  <2> QED BY <2>3 DEF Begin, CacheShape
<1>6. CacheShape'
  BY <1>4, <1>5 DEF CacheShape
<1>7. OkHolds'
  <2> SUFFICES ASSUME NEW d \in Client, call'[d].step = "run", call'[d].op = "set"
               PROVE  /\ call'[d].value # 0
                      /\ \A a \in Adapter : call'[d].at[a] = "ok"
                            => <<a, call'[d].value>> \in history'.held
    BY DEF OkHolds
  <2>1. CASE d = c
    BY <1>4, <2>1 DEF CacheShape
  <2>2. CASE d # c
    <3>1. call'[d] = call[d]
      BY <1>4, <2>2 DEF CacheShape
    <3> QED BY <1>5, <3>1 DEF OkHolds
  <2> QED BY <2>1, <2>2
<1>8. AckedOnQuorum'
  BY <1>5, AckedStays
<1> QED BY <1>6, <1>7, <1>8

\* An abort, a health check and a late effect leave what is counted alone.
LEMMA RestKeeps ==
  ASSUME QuorumInv,
         \/ \E c \in Client : Abort(c)
         \/ \E a \in Adapter : HealthCheck(a)
         \/ \E e \in late : Land(e)
         \/ UNCHANGED vars
  PROVE  QuorumInv'
<1> USE DEF QuorumInv
<1>1. ASSUME NEW c \in Client, Abort(c) PROVE QuorumInv'
  <2> DEFINE r == [call[c] EXCEPT !.aborted = TRUE]
  <2>1. call[c] \in Shape
    BY DEF CacheShape
  <2>2. /\ r \in Shape /\ call' = [call EXCEPT ![c] = r]
        /\ r.step = call[c].step /\ r.at = call[c].at /\ r.op = call[c].op
        /\ r.value = call[c].value
    BY <1>1, <2>1 DEF Abort, CacheShape, Shape
  <2>3. UNCHANGED <<setting, kv, late, calls, history>>
    BY <1>1 DEF Abort
  <2> HIDE DEF r
  <2>4. OkHolds'
    BY <2>2, <2>3, OkStays
  <2>5. CacheShape' /\ AckedOnQuorum'
    BY <2>2, <2>3 DEF CacheShape, AckedOnQuorum
  <2> QED BY <2>4, <2>5
<1>2. ASSUME NEW a \in Adapter, HealthCheck(a) PROVE QuorumInv'
  BY <1>2 DEF HealthCheck, CacheShape, OkHolds, AckedOnQuorum
<1>3. ASSUME NEW e \in late, Land(e) PROVE QuorumInv'
  <2>1. e[1] \in Adapter /\ e[2] \in Nat
    BY DEF CacheShape
  <2>2. /\ kv' = [kv EXCEPT ![e[1]] = e[2]] /\ late' \subseteq late
        /\ history' = [history EXCEPT !.held = Holding(e[1], e[2])]
        /\ UNCHANGED <<setting, call, calls>>
    BY <1>3 DEF Land
  <2>3. /\ Holding(e[1], e[2]) \in SUBSET (Adapter \X Nat)
        /\ history.held \subseteq Holding(e[1], e[2])
    BY <2>1 DEF Holding, CacheShape, HistoryShape
  <2>4. /\ history' \in HistoryShape /\ history'.acked = history.acked
        /\ history.held \subseteq history'.held
    BY <2>2, <2>3 DEF CacheShape, HistoryShape
  <2>5. CacheShape'
    BY <2>1, <2>2, <2>4 DEF CacheShape
  <2>6. OkHolds' /\ AckedOnQuorum'
    BY <2>2, <2>4, OkUnchanged, AckedStays
  <2> QED BY <2>5, <2>6
<1>4. CASE UNCHANGED vars
  BY <1>4 DEF vars, CacheShape, OkHolds, AckedOnQuorum
<1> QED BY <1>1, <1>2, <1>3, <1>4

LEMMA QuorumStep == QuorumInv /\ [Next]_vars => QuorumInv'
<1> SUFFICES ASSUME QuorumInv, [Next]_vars PROVE QuorumInv'
  OBVIOUS
<1>1. ASSUME NEW c \in Client, CallStep(c) PROVE QuorumInv'
  BY <1>1, SucceedsKeeps, FailsKeeps, TryKeeps, AnswerKeeps DEF CallStep, Retry, NextAdapter
<1>2. ASSUME NEW c \in Client, NEW op \in Ops, Begin(c, op) PROVE QuorumInv'
  BY <1>2, BeginKeeps
<1> QED BY <1>1, <1>2, RestKeeps DEF Next

\* A set that answers success was taken by a write quorum of adapters, however many
\* there are, and whatever timed out, was retried, came late or was aborted.
THEOREM AcknowledgedOnQuorum == Spec => []AckedOnQuorum
<1>1. QuorumInv => AckedOnQuorum
  BY DEF QuorumInv
<1> QED BY QuorumInitial, QuorumStep, <1>1, PTL DEF Spec

--------------------------------------------------------------------------------
(* Reads. The invariant is stated of any state of the adapters (k), the late        *)
(* effects (l), the history (h), the calls (cs) and their number (n), so that a     *)
(* step is taken in parts: what it writes, then what becomes of its call.           *)

\* A running call has a value of its own, that no call before it ended with.
Numbered(h, cs, n) ==
    /\ h.ended \subseteq 1..n
    /\ \A c \in Client : cs[c].step = "run" /\ cs[c].value # 0 =>
          /\ cs[c].value <= n /\ cs[c].value \notin h.ended
          /\ \A d \in Client : cs[d].step = "run" /\ cs[d].value = cs[c].value => d = c

SeenEnded(h, cs) ==
    /\ h.replaced \subseteq h.ended
    /\ \A c \in Client : /\ cs[c].seen \subseteq h.ended
                         /\ cs[c].op = "get" => cs[c].seen \subseteq h.replaced

\* What was replaced is on no adapter, nor on its way there, unless it timed out; nor
\* what a running call saw, on the adapters it has written.
ReplacedGone(k, l, h, cs) ==
    /\ \A e \in l : e[2] # 0 => e[2] \in h.timedOut
    /\ \A a \in Adapter : k[a] \in h.replaced => k[a] \in h.timedOut
    /\ \A c \in Client : cs[c].step = "run" /\ cs[c].op \in {"set", "delete"} =>
          \A a \in Adapter : cs[c].at[a] = "ok" /\ k[a] \in cs[c].seen => k[a] \in h.timedOut

\* Without deletes an adapter that has held a value holds one.
HeldStays(k, l, h, cs) ==
    ~h.deletes =>
       /\ \A e \in l : e[2] # 0
       /\ \A a \in Adapter, v \in Nat : <<a, v>> \in h.held => k[a] # 0
       /\ \A c \in Client : cs[c].step = "run" /\ cs[c].op \in {"set", "delete", "batch"}
                               => cs[c].value # 0

\* With a quorum of all adapters, each has held what was acknowledged.
AckedEverywhere(h) ==
    setting.writeQuorum = NumAdapters =>
       \A v \in h.acked, a \in Adapter : <<a, v>> \in h.held

\* What a get has read so far.
GetsCurrent(h, cs) ==
    \A c \in Client : cs[c].op = "get" =>
       /\ cs[c].answer \in cs[c].seen => cs[c].answer \in h.timedOut
       /\ cs[c].stored => h.acked # {}
       /\ cs[c].stored /\ ~h.deletes /\ setting.writeQuorum = NumAdapters =>
             \A a \in Adapter : cs[c].at[a] = "ok" => cs[c].answer # 0

Sound(k, l, h, cs, n) ==
    /\ Numbered(h, cs, n) /\ SeenEnded(h, cs) /\ ReplacedGone(k, l, h, cs)
    /\ HeldStays(k, l, h, cs) /\ AckedEverywhere(h) /\ GetsCurrent(h, cs)

ReadInv == QuorumInv /\ Sound(kv, late, history, call, calls)

\* The shapes the parts are stated over.
DataShape(k, l, h, cs, n) ==
    /\ k \in [Adapter -> Nat] /\ l \subseteq Adapter \X Nat \X Nat
    /\ h \in HistoryShape /\ cs \in [Client -> Shape] /\ n \in Nat

\* A write of w at a, where no ended call but a timed out one put w there.
LEMMA WriteKeeps ==
  ASSUME NEW k, NEW l, NEW h, NEW cs, NEW n, DataShape(k, l, h, cs, n), Sound(k, l, h, cs, n),
         NEW a \in Adapter, NEW w \in Nat, w \in h.ended => w \in h.timedOut,
         ~h.deletes => w # 0
  PROVE  LET g == [h EXCEPT !.held = IF w = 0 THEN h.held ELSE h.held \cup {<<a, w>>}] IN
         /\ Sound([k EXCEPT ![a] = w], l, g, cs, n)
         /\ DataShape([k EXCEPT ![a] = w], l, g, cs, n)
<1> DEFINE g == [h EXCEPT !.held = IF w = 0 THEN h.held ELSE h.held \cup {<<a, w>>}]
           m == [k EXCEPT ![a] = w]
<1>1. /\ g \in HistoryShape /\ g.ended = h.ended /\ g.acked = h.acked
      /\ g.replaced = h.replaced /\ g.timedOut = h.timedOut /\ g.deletes = h.deletes
      /\ g.held = IF w = 0 THEN h.held ELSE h.held \cup {<<a, w>>}
  BY DEF DataShape, HistoryShape
<1>2. m \in [Adapter -> Nat] /\ m[a] = w /\ \A b \in Adapter \ {a} : m[b] = k[b]
  BY DEF DataShape
<1> HIDE DEF g, m
<1>3. Numbered(g, cs, n) /\ SeenEnded(g, cs) /\ AckedEverywhere(g) /\ GetsCurrent(g, cs)
  BY <1>1 DEF Sound, Numbered, SeenEnded, AckedEverywhere, GetsCurrent
<1>4. ReplacedGone(m, l, g, cs)
  BY <1>1, <1>2 DEF Sound, ReplacedGone, SeenEnded
<1>5. HeldStays(m, l, g, cs)
  <2> SUFFICES ASSUME ~h.deletes PROVE HeldStays(m, l, g, cs)
    BY <1>1 DEF HeldStays
  <2>1. ASSUME NEW b \in Adapter, NEW v \in Nat, <<b, v>> \in g.held
        PROVE  m[b] # 0
    BY <1>1, <1>2, <2>1 DEF Sound, HeldStays
  <2> QED BY <1>1, <2>1 DEF Sound, HeldStays
<1>6. DataShape(m, l, g, cs, n)
  BY <1>1, <1>2 DEF DataShape
<1> QED BY <1>3, <1>4, <1>5, <1>6 DEF Sound, g, m

\* An operation that timed out may still take effect.
LEMMA LateKeeps ==
  ASSUME NEW k, NEW l, NEW h, NEW cs, NEW n, DataShape(k, l, h, cs, n), Sound(k, l, h, cs, n),
         NEW a \in Adapter, NEW w \in Nat, NEW i \in Nat, ~h.deletes => w # 0
  PROVE  LET g == [h EXCEPT !.timedOut = h.timedOut \cup ({w} \ {0})] IN
         /\ Sound(k, l \cup {<<a, w, i>>}, g, cs, n)
         /\ DataShape(k, l \cup {<<a, w, i>>}, g, cs, n)
<1> DEFINE g == [h EXCEPT !.timedOut = h.timedOut \cup ({w} \ {0})]
           m == l \cup {<<a, w, i>>}
<1>1. /\ g \in HistoryShape /\ g.ended = h.ended /\ g.acked = h.acked
      /\ g.replaced = h.replaced /\ g.held = h.held /\ g.deletes = h.deletes
      /\ g.timedOut = h.timedOut \cup ({w} \ {0})
  BY DEF DataShape, HistoryShape
<1>2. /\ m \subseteq Adapter \X Nat \X Nat
      /\ \A e \in m : e \in l \/ e[2] = w
  BY DEF DataShape
<1>3. 0 \notin h.ended
  BY DEF Sound, Numbered, DataShape
<1> HIDE DEF g, m
<1>4. Numbered(g, cs, n) /\ SeenEnded(g, cs) /\ AckedEverywhere(g) /\ GetsCurrent(g, cs)
  BY <1>1 DEF Sound, Numbered, SeenEnded, AckedEverywhere, GetsCurrent
<1>5. ReplacedGone(k, m, g, cs)
  BY <1>1, <1>2, <1>3 DEF Sound, ReplacedGone
<1>6. HeldStays(k, m, g, cs)
  BY <1>1, <1>2 DEF Sound, HeldStays
<1>7. DataShape(k, m, g, cs, n)
  BY <1>1, <1>2 DEF DataShape
<1> QED BY <1>4, <1>5, <1>6, <1>7 DEF Sound, g, m

\* A call goes on: what it is does not change, and what it counts as done is.
LEMMA CallKeeps ==
  ASSUME NEW k, NEW l, NEW h, NEW cs, NEW n, DataShape(k, l, h, cs, n), Sound(k, l, h, cs, n),
         NEW c \in Client, NEW r \in Shape,
         r.op = cs[c].op, r.value = cs[c].value, r.seen = cs[c].seen, r.stored = cs[c].stored,
         r.step = "run" => cs[c].step = "run",
         r.op \in {"set", "delete"} => \A a \in Adapter :
            r.at[a] = "ok" => cs[c].at[a] = "ok" \/ k[a] \notin r.seen,
         r.op = "get" =>
            \/ /\ r.answer = cs[c].answer
               /\ \A a \in Adapter : r.at[a] = "ok" => cs[c].at[a] = "ok"
            \/ \E a \in Adapter : r.answer = k[a]
  PROVE  Sound(k, l, h, [cs EXCEPT ![c] = r], n) /\ DataShape(k, l, h, [cs EXCEPT ![c] = r], n)
<1> DEFINE ds == [cs EXCEPT ![c] = r]
<1>1. ds \in [Client -> Shape] /\ ds[c] = r /\ \A d \in Client \ {c} : ds[d] = cs[d]
  BY DEF DataShape
<1> HIDE DEF ds
<1>2. \A d \in Client : /\ ds[d].op = cs[d].op /\ ds[d].value = cs[d].value
                        /\ ds[d].seen = cs[d].seen /\ ds[d].stored = cs[d].stored
                        /\ ds[d].step = "run" => cs[d].step = "run"
  BY <1>1
<1>3. Numbered(h, ds, n) /\ SeenEnded(h, ds)
  BY <1>2 DEF Sound, Numbered, SeenEnded
<1>4. ReplacedGone(k, l, h, ds)
  BY <1>1, <1>2 DEF Sound, ReplacedGone
<1>5. HeldStays(k, l, h, ds)
  BY <1>2 DEF Sound, HeldStays
<1>6. GetsCurrent(h, ds)
  <2> SUFFICES ASSUME NEW d \in Client, ds[d].op = "get"
               PROVE  /\ ds[d].answer \in ds[d].seen => ds[d].answer \in h.timedOut
                      /\ ds[d].stored => h.acked # {}
                      /\ ds[d].stored /\ ~h.deletes /\ setting.writeQuorum = NumAdapters =>
                            \A a \in Adapter : ds[d].at[a] = "ok" => ds[d].answer # 0
    BY DEF GetsCurrent
  <2>1. CASE d # c \/ (d = c /\ r.answer = cs[c].answer
                             /\ \A a \in Adapter : r.at[a] = "ok" => cs[c].at[a] = "ok")
    BY <1>1, <1>2, <2>1 DEF Sound, GetsCurrent
  <2>2. ASSUME d = c, NEW a \in Adapter, r.answer = k[a]
        PROVE  /\ ds[d].answer \in ds[d].seen => ds[d].answer \in h.timedOut
               /\ ds[d].stored => h.acked # {}
               /\ ds[d].stored /\ ~h.deletes /\ setting.writeQuorum = NumAdapters
                     => ds[d].answer # 0
    <3>1. ds[d].seen \subseteq h.replaced
      BY <1>2 DEF Sound, SeenEnded
    <3>2. k[a] \in h.replaced => k[a] \in h.timedOut
      BY DEF Sound, ReplacedGone
    <3>3. ds[d].stored => h.acked # {}
      BY <1>2 DEF Sound, GetsCurrent
    <3>4. h.acked # {} /\ ~h.deletes /\ setting.writeQuorum = NumAdapters => k[a] # 0
      <4> SUFFICES ASSUME ~h.deletes, setting.writeQuorum = NumAdapters, NEW v \in h.acked
                   PROVE  k[a] # 0
        OBVIOUS
      <4>1. v \in Nat /\ <<a, v>> \in h.held
        BY DEF DataShape, HistoryShape, Sound, AckedEverywhere
      <4> QED BY <4>1 DEF Sound, HeldStays
    <3> QED BY <1>1, <2>2, <3>1, <3>2, <3>3, <3>4
  <2> QED BY <1>1, <2>1, <2>2
<1>7. DataShape(k, l, h, ds, n)
  BY <1>1 DEF DataShape
<1> QED BY <1>3, <1>4, <1>5, <1>6, <1>7 DEF Sound, ds

\* The value of a running call is none that a call ended with.
LEMMA ValueFresh ==
  ASSUME ReadInv, NEW c \in Client, call[c].step = "run"
  PROVE  /\ call[c] \in Shape /\ call[c].value \in Nat /\ call[c].value \notin history.ended
         /\ call[c].value \notin call[c].seen
         /\ Writes(c) /\ ~history.deletes => call[c].value # 0
         /\ DataShape(kv, late, history, call, calls) /\ Sound(kv, late, history, call, calls)
<1>1. DataShape(kv, late, history, call, calls) /\ Sound(kv, late, history, call, calls)
  BY DEF ReadInv, QuorumInv, CacheShape, DataShape
<1>2. 0 \notin history.ended /\ call[c].value \notin history.ended
  BY <1>1 DEF Sound, Numbered
<1>3. call[c].seen \subseteq history.ended
  BY <1>1 DEF Sound, SeenEnded
<1>4. call[c] \in Shape /\ call[c].value \in Nat
  BY <1>1 DEF DataShape, Shape
<1>5. Writes(c) /\ ~history.deletes => call[c].value # 0
  BY <1>1 DEF Sound, HeldStays, Writes
<1> QED BY <1>1, <1>2, <1>3, <1>4, <1>5

\* The effect of an attempt, before the call counts it.
LEMMA EffectSound ==
  ASSUME ReadInv, NEW c \in Client, NEW a \in Adapter, call[c].step = "run", Effect(c, a)
  PROVE  /\ Sound(kv', late, history', call, calls)
         /\ DataShape(kv', late, history', call, calls)
         /\ Writes(c) => kv'[a] = call[c].value
         /\ ~Writes(c) => UNCHANGED <<kv, history>>
<1>1. CASE Writes(c)
  <2>1. /\ kv' = [kv EXCEPT ![a] = call[c].value]
        /\ history' = [history EXCEPT !.held = IF call[c].value = 0 THEN history.held
                                               ELSE history.held \cup {<<a, call[c].value>>}]
    BY <1>1 DEF Effect, Holding
  <2>2. kv'[a] = call[c].value
    BY <2>1 DEF ReadInv, QuorumInv, CacheShape
  <2>3. LET g == [history EXCEPT !.held = IF call[c].value = 0 THEN history.held
                                          ELSE history.held \cup {<<a, call[c].value>>}] IN
        /\ Sound([kv EXCEPT ![a] = call[c].value], late, g, call, calls)
        /\ DataShape([kv EXCEPT ![a] = call[c].value], late, g, call, calls)
    BY <1>1, ValueFresh, WriteKeeps
  <2> QED BY <1>1, <2>1, <2>2, <2>3
<1>2. CASE ~Writes(c)
  BY <1>2, ValueFresh DEF Effect
<1> QED BY <1>1, <1>2

LEMMA SucceedsSound ==
  ASSUME ReadInv, NEW c \in Client, NEW a \in Adapter, AttemptSucceeds(c, a)
  PROVE  Sound(kv', late', history', call', calls')
<1> DEFINE answer == IF call[c].op = "get" THEN kv[a] ELSE 0
           r      == [call[c] EXCEPT !.at[a] = "ok", !.answer = answer]
<1>1. call[c] \in Shape /\ answer \in Nat /\ call[c].step = "run"
  BY DEF ReadInv, QuorumInv, CacheShape, AttemptSucceeds, At
<1>2. r \in Shape
  BY <1>1, StageShape DEF Stages, Busy, ReadInv, QuorumInv
<1>3. call' = [call EXCEPT ![c] = r] /\ Effect(c, a) /\ UNCHANGED <<late, calls>>
  BY DEF AttemptSucceeds, ReadInv, QuorumInv, CacheShape
<1>4. /\ r.op = call[c].op /\ r.value = call[c].value /\ r.step = call[c].step
      /\ r.seen = call[c].seen /\ r.stored = call[c].stored /\ r.answer = answer
      /\ \A b \in Adapter : r.at[b] = "ok" => call[c].at[b] = "ok" \/ b = a
  BY <1>1 DEF Shape
<1>5. /\ Sound(kv', late, history', call, calls)
      /\ DataShape(kv', late, history', call, calls)
      /\ Writes(c) => kv'[a] = call[c].value
      /\ ~Writes(c) => UNCHANGED <<kv, history>>
  BY <1>1, <1>3, EffectSound
<1> HIDE DEF r
<1>6. r.op \in {"set", "delete"} => \A b \in Adapter :
         r.at[b] = "ok" => call[c].at[b] = "ok" \/ kv'[b] \notin r.seen
  BY <1>1, <1>4, <1>5, ValueFresh DEF Writes
<1>7. r.op = "get" => r.answer = kv'[a]
  BY <1>4, <1>5 DEF Writes
<1> HIDE DEF answer
<1>8. Sound(kv', late, history', [call EXCEPT ![c] = r], calls)
  BY <1>2, <1>4, <1>5, <1>6, <1>7, CallKeeps
<1> QED BY <1>3, <1>8

\* A stage of a call other than success, and the number of its tries.
LEMMA StageSound ==
  ASSUME NEW k, NEW l, NEW h, NEW n, DataShape(k, l, h, call, n), Sound(k, l, h, call, n),
         CacheShape, NEW c \in Client, NEW a \in Adapter, NEW stage \in Stages \ {"ok"},
         NEW i \in Nat,
         \/ call' = [call EXCEPT ![c].at[a] = stage]
         \/ call' = [call EXCEPT ![c].at[a] = stage, ![c].tries[a] = i]
  PROVE  Sound(k, l, h, call', n)
<1>1. call[c] \in Shape
  BY DEF CacheShape
<1>2. PICK r \in Shape : /\ call' = [call EXCEPT ![c] = r]
                         /\ r.op = call[c].op /\ r.value = call[c].value
                         /\ r.seen = call[c].seen /\ r.stored = call[c].stored
                         /\ r.step = call[c].step /\ r.answer = call[c].answer
                         /\ \A b \in Adapter : r.at[b] = "ok" => call[c].at[b] = "ok"
  <2>1. CASE call' = [call EXCEPT ![c].at[a] = stage]
    <3> DEFINE r == [call[c] EXCEPT !.at[a] = stage]
    <3>1. r \in Shape /\ call' = [call EXCEPT ![c] = r]
      BY <2>1, StageShape, 0 \in Nat DEF CacheShape
    <3>2. /\ r.op = call[c].op /\ r.value = call[c].value
          /\ r.seen = call[c].seen /\ r.stored = call[c].stored
          /\ r.step = call[c].step /\ r.answer = call[c].answer
          /\ \A b \in Adapter : r.at[b] = "ok" => call[c].at[b] = "ok"
      BY <1>1 DEF Shape
    <3> HIDE DEF r
    <3> QED BY <3>1, <3>2
  <2>2. CASE call' = [call EXCEPT ![c].at[a] = stage, ![c].tries[a] = i]
    <3> DEFINE r == [call[c] EXCEPT !.at[a] = stage, !.tries[a] = i]
    <3>1. r \in Shape /\ call' = [call EXCEPT ![c] = r]
      BY <2>2, StageShape DEF CacheShape
    <3>2. /\ r.op = call[c].op /\ r.value = call[c].value
          /\ r.seen = call[c].seen /\ r.stored = call[c].stored
          /\ r.step = call[c].step /\ r.answer = call[c].answer
          /\ \A b \in Adapter : r.at[b] = "ok" => call[c].at[b] = "ok"
      BY <1>1 DEF Shape
    <3> HIDE DEF r
    <3> QED BY <3>1, <3>2
  <2> QED BY <2>1, <2>2
<1> QED BY <1>2, CallKeeps

LEMMA TrySound ==
  ASSUME ReadInv, NEW c \in Client, NEW a \in Adapter, TryAt(c, a)
  PROVE  Sound(kv', late', history', call', calls')
<1>1. UNCHANGED <<kv, late, history, calls>> /\ CacheShape
  BY DEF TryAt, ReadInv, QuorumInv
<1>2. DataShape(kv, late, history, call, calls) /\ Sound(kv, late, history, call, calls)
  BY DEF ReadInv, QuorumInv, CacheShape, DataShape
<1>3. \E stage \in {"failed", "flying"} : call' = [call EXCEPT ![c].at[a] = stage]
  BY DEF TryAt, GivenUp
<1>4. Sound(kv, late, history, call', calls)
  BY <1>1, <1>2, <1>3, StageSound, 0 \in Nat DEF Stages, Busy
<1> QED BY <1>1, <1>4

LEMMA FailsSound ==
  ASSUME ReadInv, NEW c \in Client, NEW a \in Adapter, NEW fate, NEW stop,
         AttemptFails(c, a, fate, stop)
  PROVE  Sound(kv', late', history', call', calls')
<1>1. call[c].step = "run" /\ CacheShape /\ UNCHANGED calls
  BY DEF AttemptFails, At, ReadInv, QuorumInv
<1>2. call[c].value \in Nat /\ call[c].tries[a] + 1 \in Nat
  BY <1>1 DEF CacheShape, Shape
<1>3. Sound(kv', late', history', call, calls) /\ DataShape(kv', late', history', call, calls)
  <2>1. CASE fate = "now" /\ Effect(c, a) /\ UNCHANGED late
    BY <1>1, <2>1, EffectSound
  <2>2. CASE UNCHANGED <<kv, history, late>>
    BY <1>1, <2>2, ValueFresh
  <2>3. CASE /\ fate = "later"
             /\ late' = late \cup {<<a, call[c].value, call[c].tries[a] + 1>>}
             /\ history' = [history EXCEPT !.timedOut = @ \cup ({call[c].value} \ {0})]
             /\ UNCHANGED kv
    <3>1. Writes(c)
      BY <2>3 DEF AttemptFails
    <3>2. LET g == [history EXCEPT !.timedOut = history.timedOut \cup ({call[c].value} \ {0})] IN
          /\ Sound(kv, late \cup {<<a, call[c].value, call[c].tries[a] + 1>>}, g, call, calls)
          /\ DataShape(kv, late \cup {<<a, call[c].value, call[c].tries[a] + 1>>}, g, call, calls)
      BY <1>1, <1>2, <3>1, ValueFresh, LateKeeps
    <3> QED BY <2>3, <3>2
  <2> QED BY <2>1, <2>2, <2>3 DEF AttemptFails
<1>4. \/ call' = [call EXCEPT ![c].at[a] = "failed"]
      \/ call' = [call EXCEPT ![c].at[a] = "waiting", ![c].tries[a] = call[c].tries[a] + 1]
  BY DEF AttemptFails, GivenUp
<1>5. Sound(kv', late', history', call', calls)
  <2>1. CASE call' = [call EXCEPT ![c].at[a] = "failed"]
    BY <1>1, <1>2, <1>3, <2>1, StageSound DEF Stages, Busy
  <2>2. CASE call' = [call EXCEPT ![c].at[a] = "waiting", ![c].tries[a] = call[c].tries[a] + 1]
    BY <1>1, <1>2, <1>3, <2>2, StageSound DEF Stages, Busy
  <2> QED BY <1>4, <2>1, <2>2
<1> QED BY <1>1, <1>5

\* A call ends: its value is ended, what it saw is replaced where it took everywhere.
LEMMA AnswerSound ==
  ASSUME ReadInv, QuorumInv', NEW c \in Client, Answer(c)
  PROVE  Sound(kv', late', history', call', calls')
<1> DEFINE r == [call[c] EXCEPT !.step = IF Succeeds(c) THEN "ok" ELSE "threw"]
<1>1. /\ call[c].step = "run" /\ call[c] \in Shape /\ call[c].value \in Nat
      /\ call[c].value \notin history.ended /\ CacheShape
      /\ Sound(kv, late, history, call, calls) /\ UNCHANGED <<setting, kv, late, calls>>
  BY ValueFresh DEF Answer, ReadInv, QuorumInv
<1>2. /\ r \in Shape /\ call' = [call EXCEPT ![c] = r] /\ r.step # "run" /\ r.at = call[c].at
      /\ r.op = call[c].op /\ r.value = call[c].value /\ r.answer = call[c].answer
      /\ r.seen = call[c].seen /\ r.stored = call[c].stored
  BY <1>1 DEF Answer, CacheShape, Shape, Ends
<1> HIDE DEF r
<1>3. /\ call'[c] = r /\ \A d \in Client \ {c} : call'[d] = call[d]
      /\ \A d \in Client : /\ call'[d].op = call[d].op /\ call'[d].value = call[d].value
                           /\ call'[d].seen = call[d].seen /\ call'[d].stored = call[d].stored
                           /\ call'[d].at = call[d].at /\ call'[d].answer = call[d].answer
                           /\ call'[d].step = "run" => call[d].step = "run" /\ d # c
  BY <1>1, <1>2 DEF CacheShape
<1>4. /\ history'.held = history.held /\ history'.timedOut = history.timedOut
      /\ history'.deletes = history.deletes /\ history.acked \subseteq history'.acked
      /\ history'.ended = history.ended \cup ({call[c].value} \ {0})
      /\ history'.replaced = IF ReplacesAll(c) THEN history.replaced \cup call[c].seen
                             ELSE history.replaced
  BY <1>1 DEF Answer, CacheShape, HistoryShape
<1>5. history.ended \subseteq 1..calls /\ calls \in Nat
  BY <1>1 DEF Sound, Numbered, CacheShape
<1>6. Numbered(history', call', calls')
  <2>1. call[c].value # 0 => call[c].value \in 1..calls
    BY <1>1, <1>5 DEF Sound, Numbered
  <2>2. history'.ended \subseteq 1..calls
    BY <1>4, <1>5, <2>1
  <2>3. ASSUME NEW d \in Client, call'[d].step = "run", call'[d].value # 0
        PROVE  /\ call'[d].value <= calls /\ call'[d].value \notin history'.ended
               /\ \A e \in Client : call'[e].step = "run" /\ call'[e].value = call'[d].value
                     => e = d
    <3>1. call[d].step = "run" /\ d # c /\ call[d].value # 0 /\ call'[d].value = call[d].value
      BY <1>3, <2>3
    <3>2. /\ call[d].value <= calls /\ call[d].value \notin history.ended
          /\ \A e \in Client : call[e].step = "run" /\ call[e].value = call[d].value => e = d
      BY <1>1, <3>1 DEF Sound, Numbered
    <3>3. call[d].value # call[c].value
      BY <1>1, <3>1, <3>2
    <3> QED BY <1>3, <1>4, <3>1, <3>2, <3>3
  <2> QED BY <1>1, <2>2, <2>3 DEF Numbered
<1>7. SeenEnded(history', call')
  BY <1>1, <1>3, <1>4 DEF Sound, SeenEnded
<1>8. ASSUME ReplacesAll(c), NEW a \in Adapter, kv[a] \in call[c].seen
      PROVE  kv[a] \in history.timedOut
  <2>1. call[c].op \in {"set", "delete"}
    BY <1>8 DEF ReplacesAll
  <2>2. call[c].at[a] = "ok"
    <3>1. CASE call[c].op = "delete"
      BY <1>8, <3>1 DEF ReplacesAll, AdaptersAt
    <3>2. CASE call[c].op = "set"
      <4>1. Cardinality(AdaptersAt(c, {"ok"})) >= NumAdapters
        BY <1>8, <3>2 DEF ReplacesAll, EnoughWrites
      <4>2. AdaptersAt(c, {"ok"}) = Adapter
        BY <4>1, AllAdapters DEF AdaptersAt
      <4> QED BY <4>2 DEF AdaptersAt
    <3> QED BY <2>1, <3>1, <3>2
  <2> QED BY <1>1, <1>8, <2>1, <2>2 DEF Sound, ReplacedGone
<1>9. ReplacedGone(kv', late', history', call')
  <2>1. \A e \in late : e[2] # 0 => e[2] \in history.timedOut
    BY <1>1 DEF Sound, ReplacedGone
  <2>2. \A a \in Adapter : kv[a] \in history'.replaced => kv[a] \in history.timedOut
    BY <1>1, <1>4, <1>8 DEF Sound, ReplacedGone
  <2> QED BY <1>1, <1>3, <1>4, <2>1, <2>2 DEF Sound, ReplacedGone
<1>10. HeldStays(kv', late', history', call')
  BY <1>1, <1>3, <1>4 DEF Sound, HeldStays
<1>11. AckedEverywhere(history')
  <2> SUFFICES ASSUME setting.writeQuorum = NumAdapters, NEW v \in history'.acked
               PROVE  \A a \in Adapter : <<a, v>> \in history'.held
    BY DEF AckedEverywhere
  <2> DEFINE S == {a \in Adapter : <<a, v>> \in history'.held}
  <2>1. Cardinality(S) >= NumAdapters
    BY <1>1 DEF QuorumInv, AckedOnQuorum
  <2>2. S = Adapter
    BY <2>1, AllAdapters
  <2> QED BY <2>2
<1>12. GetsCurrent(history', call')
  BY <1>1, <1>3, <1>4 DEF Sound, GetsCurrent
<1> QED BY <1>6, <1>7, <1>9, <1>10, <1>11, <1>12 DEF Sound

\* The record of a call as it begins.
LEMMA BegunIs ==
  ASSUME CacheShape, NEW op \in Ops, NEW at \in [Adapter -> Stages], NEW seen \in SUBSET Nat,
         NEW r, \/ r = Begun(op, at, seen)
                \/ r = [Begun(op, at, seen) EXCEPT !.step = "threw"]
  PROVE  /\ r.op = op /\ r.at = at /\ r.seen = seen /\ r.answer = 0
         /\ r.value = IF op \in {"set", "batch"} THEN calls + 1 ELSE 0
         /\ r.stored => history.acked # {}
<1> DEFINE value  == IF op \in {"set", "batch"} THEN calls + 1 ELSE 0
           stored == history.acked # {} /\ ~history.deletes
<1>1. NoCall \in Shape /\ NoCall.answer = 0
  BY DEF NoCall, Shape, Ops, Ends, Stages, Busy
<1>2. stored \in BOOLEAN
  OBVIOUS
<1>3. Begun(op, at, seen) =
         [NoCall EXCEPT !.step = "run", !.op = op, !.at = at, !.seen = seen, !.value = value,
                        !.stored = stored]
  BY Zenon DEF Begun
<1> HIDE DEF value, stored
<1>4. LET b == Begun(op, at, seen) IN
      b.op = op /\ b.at = at /\ b.seen = seen /\ b.answer = 0 /\ b.value = value
  BY <1>1, <1>3 DEF Shape
<1>5. Begun(op, at, seen).stored = stored
  BY <1>1, <1>2, <1>3 DEF Shape
<1>6. Begun(op, at, seen) = [Begun(op, at, seen) EXCEPT !.step = Begun(op, at, seen).step]
  BY <1>1, <1>3 DEF Shape
<1>7. r.op = op /\ r.at = at /\ r.seen = seen /\ r.answer = 0 /\ r.value = value
  BY <1>1, <1>3, <1>4 DEF Shape
<1>8. r.stored = stored
  BY <1>1, <1>2, <1>3, <1>5 DEF Shape
<1>9. stored => history.acked # {}
  BY DEF stored
<1> QED BY <1>7, <1>8, <1>9 DEF value

\* A new call: its value is one that no call had, and a delete leaves its mark.
LEMMA BeginSound ==
  ASSUME ReadInv, NEW c \in Client, NEW op \in Ops, Begin(c, op)
  PROVE  Sound(kv', late', history', call', calls')
<1>1. /\ CacheShape /\ Sound(kv, late, history, call, calls) /\ calls \in Nat
      /\ UNCHANGED <<setting, kv, late>> /\ calls' = calls + 1
      /\ history.ended \subseteq 1..calls /\ history.replaced \subseteq history.ended
  BY DEF ReadInv, QuorumInv, CacheShape, Begin, Sound, Numbered, SeenEnded
<1>2. PICK r : /\ call' = [call EXCEPT ![c] = r]
               /\ r.op = op /\ r.answer = 0 /\ \A a \in Adapter : r.at[a] # "ok"
               /\ r.value = IF op \in {"set", "batch"} THEN calls + 1 ELSE 0
               /\ r.stored => history.acked # {}
               /\ r.seen \subseteq history.ended
               /\ op = "get" => r.seen \subseteq history.replaced
  <2>1. /\ NoCall.at \in [Adapter -> Stages] /\ Started(op) \in [Adapter -> Stages]
        /\ \A a \in Adapter : NoCall.at[a] # "ok" /\ Started(op)[a] # "ok"
    BY DEF NoCall, Started, Stages, Busy
  <2>2. /\ {} \in SUBSET Nat /\ history.replaced \in SUBSET Nat /\ history.ended \in SUBSET Nat
    BY <1>1 DEF CacheShape, HistoryShape
  <2>3. CASE Refused(op)
    <3> DEFINE r == [Begun(op, NoCall.at, {}) EXCEPT !.step = "threw"]
    <3>1. call' = [call EXCEPT ![c] = r]
      BY <2>3 DEF Begin
    <3>2. /\ r.op = op /\ r.at = NoCall.at /\ r.seen = {} /\ r.answer = 0
          /\ r.value = IF op \in {"set", "batch"} THEN calls + 1 ELSE 0
          /\ r.stored => history.acked # {}
      BY <1>1, <2>1, <2>2, BegunIs
    <3> HIDE DEF r
    <3> QED BY <2>1, <3>1, <3>2
  <2>4. CASE ~Refused(op)
    <3> DEFINE seen == IF op = "get" THEN history.replaced ELSE history.ended
               r    == Begun(op, Started(op), seen)
    <3>1. call' = [call EXCEPT ![c] = r]
      BY <2>4 DEF Begin
    <3>2. /\ seen \in SUBSET Nat /\ seen \subseteq history.ended
          /\ op = "get" => seen \subseteq history.replaced
      BY <1>1, <2>2
    <3> HIDE DEF seen
    <3>3. /\ r.op = op /\ r.at = Started(op) /\ r.seen = seen /\ r.answer = 0
          /\ r.value = IF op \in {"set", "batch"} THEN calls + 1 ELSE 0
          /\ r.stored => history.acked # {}
      BY <1>1, <2>1, <3>2, BegunIs
    <3> HIDE DEF r
    <3> QED BY <2>1, <3>1, <3>2, <3>3
  <2> QED BY <2>3, <2>4
<1>3. /\ call'[c] = r /\ \A d \in Client \ {c} : call'[d] = call[d]
  BY <1>1, <1>2 DEF CacheShape
<1>4. /\ history'.held = history.held /\ history'.timedOut = history.timedOut
      /\ history'.acked = history.acked /\ history'.ended = history.ended
      /\ history'.replaced = history.replaced
      /\ ~history'.deletes => ~history.deletes /\ op # "delete"
  <2> DEFINE deletes == history.deletes \/ op = "delete"
  <2>1. history' = [history EXCEPT !.deletes = deletes] /\ deletes \in BOOLEAN
    BY DEF Begin
  <2>2. ~deletes => ~history.deletes /\ op # "delete"
    OBVIOUS
  <2> HIDE DEF deletes
  <2>3. history'.deletes = deletes
    BY <1>1, <2>1 DEF CacheShape, HistoryShape
  <2>4. /\ history'.held = history.held /\ history'.timedOut = history.timedOut
        /\ history'.acked = history.acked /\ history'.ended = history.ended
        /\ history'.replaced = history.replaced
    BY <1>1, <2>1 DEF CacheShape, HistoryShape
  <2> QED BY <2>2, <2>3, <2>4
<1>5. Numbered(history', call', calls')
  <2>1. history'.ended \subseteq 1..calls'
    BY <1>1, <1>4
  <2>2. ASSUME NEW d \in Client, call'[d].step = "run", call'[d].value # 0
        PROVE  /\ call'[d].value <= calls' /\ call'[d].value \notin history'.ended
               /\ \A e \in Client : call'[e].step = "run" /\ call'[e].value = call'[d].value
                     => e = d
    <3>1. \A e \in Client \ {c} : call[e].step = "run" /\ call[e].value # 0
             => /\ call[e].value <= calls /\ call[e].value \notin history.ended
                /\ \A f \in Client : call[f].step = "run" /\ call[f].value = call[e].value => f = e
      BY <1>1 DEF Sound, Numbered
    <3>2. call'[c].value = calls + 1 \/ call'[c].value = 0
      BY <1>2, <1>3
    <3>3. \A e \in Client : call[e].value \in Nat
      BY <1>1 DEF CacheShape, Shape
    <3>4. CASE d = c
      BY <1>1, <1>3, <1>4, <2>2, <3>1, <3>2, <3>4
    <3>5. CASE d # c
      <4>1. call[d].step = "run" /\ call[d].value # 0 /\ call'[d] = call[d]
        BY <1>3, <2>2, <3>5
      <4>2. call[d].value <= calls /\ call[d].value \notin history.ended
        BY <3>1, <3>5, <4>1
      <4>3. call'[c].value # call[d].value
        BY <1>1, <3>2, <3>3, <4>1, <4>2
      <4> QED BY <1>1, <1>3, <1>4, <3>1, <3>3, <3>5, <4>1, <4>2, <4>3
    <3> QED BY <3>4, <3>5
  <2> QED BY <2>1, <2>2 DEF Numbered
<1>6. SeenEnded(history', call')
  BY <1>1, <1>2, <1>3, <1>4 DEF Sound, SeenEnded
<1>7. ReplacedGone(kv', late', history', call')
  BY <1>1, <1>2, <1>3, <1>4 DEF Sound, ReplacedGone
<1>8. HeldStays(kv', late', history', call')
  <2> SUFFICES ASSUME ~history'.deletes PROVE HeldStays(kv', late', history', call')
    BY DEF HeldStays
  <2>1. ~history.deletes /\ op # "delete" /\ (op \in {"set", "batch"} => r.value # 0)
    BY <1>1, <1>2, <1>4
  <2> QED BY <1>1, <1>2, <1>3, <1>4, <2>1 DEF Sound, HeldStays
<1>9. AckedEverywhere(history')
  BY <1>1, <1>4 DEF Sound, AckedEverywhere
<1>10. GetsCurrent(history', call')
  <2>1. 0 \notin history.ended
    BY <1>1
  <2> QED BY <1>1, <1>2, <1>3, <1>4, <2>1 DEF Sound, GetsCurrent
<1> QED BY <1>5, <1>6, <1>7, <1>8, <1>9, <1>10 DEF Sound

\* An abort, a health check and an operation that lands late.
LEMMA RestSound ==
  ASSUME ReadInv,
         \/ \E c \in Client : Abort(c)
         \/ \E a \in Adapter : HealthCheck(a)
         \/ \E e \in late : Land(e)
         \/ UNCHANGED vars
  PROVE  Sound(kv', late', history', call', calls')
<1>1. /\ DataShape(kv, late, history, call, calls) /\ Sound(kv, late, history, call, calls)
  BY DEF ReadInv, QuorumInv, CacheShape, DataShape
<1>2. ASSUME NEW c \in Client, Abort(c) PROVE Sound(kv', late', history', call', calls')
  <2> DEFINE r == [call[c] EXCEPT !.aborted = TRUE]
  <2>1. call[c] \in Shape
    BY <1>1 DEF DataShape
  <2>2. /\ r \in Shape /\ call' = [call EXCEPT ![c] = r]
        /\ r.step = call[c].step /\ r.at = call[c].at /\ r.op = call[c].op
        /\ r.value = call[c].value /\ r.answer = call[c].answer /\ r.seen = call[c].seen
        /\ r.stored = call[c].stored
    BY <1>1, <1>2, <2>1 DEF Abort, DataShape, Shape
  <2> HIDE DEF r
  <2>3. Sound(kv, late, history, [call EXCEPT ![c] = r], calls)
    BY <1>1, <2>2, CallKeeps
  <2> QED BY <1>2, <2>2, <2>3 DEF Abort
<1>3. ASSUME NEW a \in Adapter, HealthCheck(a)
      PROVE  Sound(kv', late', history', call', calls')
  BY <1>1, <1>3 DEF HealthCheck
<1>4. ASSUME NEW e \in late, Land(e) PROVE Sound(kv', late', history', call', calls')
  <2>1. e[1] \in Adapter /\ e[2] \in Nat
    BY <1>1 DEF DataShape
  <2>2. (e[2] \in history.ended => e[2] \in history.timedOut) /\ (~history.deletes => e[2] # 0)
    BY <1>1 DEF Sound, Numbered, ReplacedGone, HeldStays
  <2>3. LET g == [history EXCEPT !.held = IF e[2] = 0 THEN history.held
                                          ELSE history.held \cup {<<e[1], e[2]>>}] IN
        Sound([kv EXCEPT ![e[1]] = e[2]], late, g, call, calls)
    BY <1>1, <2>1, <2>2, WriteKeeps
  <2>4. /\ kv' = [kv EXCEPT ![e[1]] = e[2]] /\ late' \subseteq late
        /\ history' = [history EXCEPT !.held = IF e[2] = 0 THEN history.held
                                               ELSE history.held \cup {<<e[1], e[2]>>}]
        /\ UNCHANGED <<call, calls>>
    BY <1>4 DEF Land, Holding
  <2>5. Sound(kv', late, history', call', calls')
    BY <2>3, <2>4
  <2>6. ReplacedGone(kv', late', history', call') /\ HeldStays(kv', late', history', call')
    BY <2>4, <2>5 DEF Sound, ReplacedGone, HeldStays
  <2> QED BY <2>5, <2>6 DEF Sound
<1>5. CASE UNCHANGED vars
  BY <1>1, <1>5 DEF vars
<1> QED BY <1>2, <1>3, <1>4, <1>5

LEMMA SoundInitial == Init => Sound(kv, late, history, call, calls)
<1> SUFFICES ASSUME Init PROVE Sound(kv, late, history, call, calls)
  OBVIOUS
<1>1. /\ kv = [a \in Adapter |-> 0] /\ late = {} /\ calls = 0
      /\ history.held = {} /\ history.ended = {} /\ history.acked = {} /\ history.replaced = {}
      /\ \A c \in Client : call[c] = NoCall
  BY DEF Init
<1>2. /\ NoCall.step = "idle" /\ NoCall.value = 0 /\ NoCall.seen = {} /\ ~NoCall.stored
  BY DEF NoCall
<1> QED BY <1>1, <1>2 DEF Sound, Numbered, SeenEnded, ReplacedGone, HeldStays,
                          AckedEverywhere, GetsCurrent

\* A get returns nothing that was put away everywhere, unless an operation that timed
\* out brought it back, and with a quorum of all adapters it does not miss a stored
\* value that any adapter answered for: for any number of adapters, calls and failures.
THEOREM ReadsStayCurrent == Spec => []ReadsAreCurrent
<1>1. Init => ReadInv
  BY QuorumInitial, SoundInitial DEF ReadInv
<1>2. ReadInv /\ [Next]_vars => ReadInv'
  <2> SUFFICES ASSUME ReadInv, [Next]_vars PROVE ReadInv'
    OBVIOUS
  <2>1. QuorumInv'
    BY QuorumStep DEF ReadInv
  <2>2. Sound(kv', late', history', call', calls')
    <3>1. ASSUME NEW c \in Client, CallStep(c)
          PROVE  Sound(kv', late', history', call', calls')
      BY <2>1, <3>1, SucceedsSound, FailsSound, TrySound, AnswerSound
      DEF CallStep, Retry, NextAdapter
    <3>2. ASSUME NEW c \in Client, NEW op \in Ops, Begin(c, op)
          PROVE  Sound(kv', late', history', call', calls')
      BY <3>2, BeginSound
    <3> QED BY <3>1, <3>2, RestSound DEF Next
  <2>3. UNCHANGED setting
    <3>1. ASSUME NEW c \in Client, CallStep(c) PROVE UNCHANGED setting
      <4>1. ASSUME NEW a \in Adapter,
                   \/ AttemptSucceeds(c, a) \/ TryAt(c, a)
                   \/ \E fate \in {"never", "now", "later"}, stop \in BOOLEAN :
                         AttemptFails(c, a, fate, stop)
            PROVE  UNCHANGED setting
        BY <4>1 DEF AttemptSucceeds, TryAt, AttemptFails
      <4>2. Answer(c) => UNCHANGED setting
        BY DEF Answer
      <4> QED BY <3>1, <4>1, <4>2 DEF CallStep, Retry, NextAdapter
    <3>2. ASSUME NEW c \in Client, Abort(c) \/ \E op \in Ops : Begin(c, op)
          PROVE  UNCHANGED setting
      BY <3>2 DEF Abort, Begin
    <3>3. (\E a \in Adapter : HealthCheck(a)) \/ (\E e \in late : Land(e)) \/ UNCHANGED vars
             => UNCHANGED setting
      BY DEF HealthCheck, Land, vars
    <3> QED BY <3>1, <3>2, <3>3 DEF Next
  <2> QED BY <2>1, <2>2, <2>3 DEF ReadInv, Sound, Numbered, SeenEnded, ReplacedGone, HeldStays,
                                  AckedEverywhere, GetsCurrent
<1>3. ReadInv => ReadsAreCurrent
  <2> SUFFICES ASSUME ReadInv, NEW c \in Client, call[c].op = "get"
               PROVE  /\ call[c].answer \in call[c].seen => call[c].answer \in history.timedOut
                      /\ /\ call[c].answer = 0 /\ call[c].stored /\ ~history.deletes
                         /\ setting.writeQuorum = NumAdapters
                         => AdaptersAt(c, {"ok"}) = {}
    BY DEF ReadsAreCurrent
  <2> QED BY DEF ReadInv, Sound, GetsCurrent, AdaptersAt
<1> QED BY <1>1, <1>2, <1>3, PTL DEF Spec

--------------------------------------------------------------------------------
(* The shape of the state. The health records count no more failures than there     *)
(* were: an abort is one failure, of every adapter its call still owes an answer of. *)

LEMMA MinOfTwo ==
  ASSUME NEW x \in Nat, NEW y \in Nat
  PROVE  Min({x, y}) \in Nat /\ Min({x, y}) <= x /\ Min({x, y}) <= y
<1>1. \E z \in {x, y} : \A w \in {x, y} : z <= w
  OBVIOUS
<1> QED BY <1>1 DEF Min

LEMMA TotalCapNat == TotalCap \in Nat
<1>1. 2 * MaxFaults + 1 \in Nat /\ MinOperations \in Nat
  BY CacheAssumption
<1> DEFINE x == 2 * MaxFaults + 1
<1> HIDE DEF x
<1>2. x \in Nat
  BY <1>1 DEF x
<1>3. \E z \in {x, MinOperations} : \A w \in {x, MinOperations} : z >= w
  BY <1>1, <1>2
<1>4. Max({x, MinOperations}) \in Nat
  BY <1>1, <1>2, <1>3 DEF Max
<1> QED BY <1>4 DEF TotalCap, x

HealthShape == [healthy : BOOLEAN, open : BOOLEAN, consecutive : Nat, total : 0..TotalCap,
                failed : Nat]

LEMMA CountedShape ==
  ASSUME NEW h \in HealthShape
  PROVE  /\ Counted(h) \in HealthShape /\ Counted(h).consecutive = h.consecutive
         /\ Counted(h).failed = h.failed
<1>1. h.total + 1 \in Nat
  BY TotalCapNat DEF HealthShape
<1>2. Min({h.total + 1, TotalCap}) \in 0..TotalCap
  BY <1>1, TotalCapNat, MinOfTwo
<1> DEFINE t == Min({h.total + 1, TotalCap})
<1>3. Counted(h) = [h EXCEPT !.total = t]
  BY DEF Counted
<1> HIDE DEF t
<1> QED BY <1>2, <1>3 DEF HealthShape, t

\* What a success and a failure make of a record.
LEMMA SucceededShape ==
  ASSUME NEW h \in HealthShape
  PROVE  /\ CheckSucceeded(h) \in HealthShape /\ CheckSucceeded(h).consecutive = 0
         /\ CheckSucceeded(h).failed = h.failed
         /\ Succeeded(h) \in HealthShape /\ Succeeded(h).consecutive = 0
         /\ Succeeded(h).failed = h.failed
<1>1. /\ CheckSucceeded(h) \in HealthShape /\ CheckSucceeded(h).consecutive = 0
      /\ CheckSucceeded(h).failed = h.failed
  BY CountedShape DEF CheckSucceeded, HealthShape
<1> QED BY <1>1 DEF Succeeded, HealthShape

LEMMA FailedShape ==
  ASSUME NEW h \in HealthShape, NEW g \in {CheckFailed(h), Failed(h)}
  PROVE  /\ g \in HealthShape /\ g.consecutive = h.consecutive + 1
         /\ g.failed = h.failed + 1
<1>1. /\ CheckFailed(h) \in HealthShape /\ CheckFailed(h).consecutive = h.consecutive + 1
      /\ CheckFailed(h).failed = h.failed + 1
  <2> DEFINE k == Counted(h)
             healthy == k.healthy /\ h.consecutive + 1 < FailureThreshold
             f == k.failed + 1
             s == k.consecutive + 1
  <2>1. k \in HealthShape /\ k.consecutive = h.consecutive /\ k.failed = h.failed
    BY CountedShape
  <2>2. CheckFailed(h) = [k EXCEPT !.failed = f, !.consecutive = s, !.healthy = healthy]
    BY Zenon DEF CheckFailed
  <2>3. healthy \in BOOLEAN
    OBVIOUS
  <2>4. f \in Nat /\ s \in Nat /\ f = h.failed + 1 /\ s = h.consecutive + 1
    BY <2>1 DEF HealthShape
  <2> HIDE DEF k, healthy, f, s
  <2> QED BY <2>1, <2>2, <2>3, <2>4 DEF HealthShape
<1>2. \/ Failed(h) = CheckFailed(h)
      \/ Failed(h) = [CheckFailed(h) EXCEPT !.open = TRUE, !.healthy = FALSE]
  BY DEF Failed
<1> HIDE DEF HealthShape
<1>3. ASSUME NEW f \in HealthShape
      PROVE  LET e == [f EXCEPT !.open = TRUE, !.healthy = FALSE] IN
             e \in HealthShape /\ e.consecutive = f.consecutive /\ e.failed = f.failed
  BY DEF HealthShape
<1> QED BY <1>1, <1>2, <1>3

\* The calls that will give an adapter up without a failure of its own.
Owed(a) == {c \in Client : /\ call[c].step = "run" /\ call[c].aborted
                           /\ call[c].at[a] \in Busy}

FaultInv ==
    /\ health \in [Adapter -> HealthShape]
    /\ faults \in 0..MaxFaults
    /\ \A a \in Adapter :
          /\ health[a].consecutive <= health[a].failed
          /\ IsFiniteSet(Owed(a)) /\ health[a].failed + Cardinality(Owed(a)) <= faults

\* Nothing is owed that was not, and no failure is counted that did not happen.
LEMMA FaultsFrom ==
  ASSUME FaultInv, faults' \in 0..MaxFaults, health' \in [Adapter -> HealthShape],
         \A b \in Adapter :
            /\ health'[b].consecutive <= health'[b].failed
            /\ IsFiniteSet(Owed(b)')
            /\ health'[b].failed + Cardinality(Owed(b)') + faults
                  <= health[b].failed + Cardinality(Owed(b)) + faults'
  PROVE  FaultInv'
<1> SUFFICES ASSUME NEW b \in Adapter
             PROVE  health'[b].failed + Cardinality(Owed(b)') <= faults'
  BY DEF FaultInv
<1>1. /\ health[b].failed + Cardinality(Owed(b)) <= faults /\ IsFiniteSet(Owed(b))
      /\ faults \in Nat /\ faults' \in Nat /\ health[b] \in HealthShape /\ health'[b] \in HealthShape
  BY DEF FaultInv
<1>2. Cardinality(Owed(b)) \in Nat /\ Cardinality(Owed(b)') \in Nat
  BY <1>1, FS_CardinalityType
<1>3. health[b].failed \in Nat /\ health'[b].failed \in Nat
  BY <1>1 DEF HealthShape
<1> QED BY <1>1, <1>2, <1>3

\* A step after which no adapter is owed more, and at most one has failed again.
LEMMA OwedLess ==
  ASSUME FaultInv, NEW n \in {0, 1}, faults' = faults + n, faults' \in 0..MaxFaults,
         \A b \in Adapter : Owed(b)' \subseteq Owed(b),
         \/ UNCHANGED health
         \/ \E b \in Adapter : health' = [health EXCEPT ![b] = Succeeded(health[b])]
         \/ \E b \in Adapter : health' = [health EXCEPT ![b] = CheckSucceeded(health[b])]
         \/ n = 1 /\ \E b \in Adapter : health' = [health EXCEPT ![b] = Failed(health[b])]
         \/ n = 1 /\ \E b \in Adapter : health' = [health EXCEPT ![b] = CheckFailed(health[b])]
  PROVE  FaultInv'
<1>1. /\ health \in [Adapter -> HealthShape] /\ faults \in Nat
      /\ \A b \in Adapter : health[b].consecutive <= health[b].failed
  BY DEF FaultInv
<1>2. PICK a : /\ \A b \in Adapter \ {a} : health'[b] = health[b]
               /\ a \in Adapter => health'[a] \in {health[a], Succeeded(health[a]),
                     CheckSucceeded(health[a])} \cup
                     (IF n = 1 THEN {Failed(health[a]), CheckFailed(health[a])} ELSE {})
               /\ DOMAIN health' = Adapter /\ health' = [b \in Adapter |-> health'[b]]
  <2>1. CASE UNCHANGED health
    BY <1>1, <2>1
  <2>2. CASE ~ UNCHANGED health
    <3>1. PICK a \in Adapter :
               \/ health' = [health EXCEPT ![a] = Succeeded(health[a])]
               \/ health' = [health EXCEPT ![a] = CheckSucceeded(health[a])]
               \/ n = 1 /\ health' = [health EXCEPT ![a] = Failed(health[a])]
               \/ n = 1 /\ health' = [health EXCEPT ![a] = CheckFailed(health[a])]
      BY <2>2
    <3> QED BY <1>1, <3>1
  <2> QED BY <2>1, <2>2
<1>3. ASSUME NEW b \in Adapter
      PROVE  /\ health'[b] \in HealthShape /\ health'[b].consecutive <= health'[b].failed
             /\ health'[b].failed <= health[b].failed + n
  <2>1. health[b] \in HealthShape /\ health[b].failed \in Nat /\ health[b].consecutive \in Nat
    BY <1>1 DEF HealthShape
  <2>2. CASE health'[b] = health[b]
    BY <1>1, <2>1, <2>2
  <2>3. CASE health'[b] \in {Succeeded(health[b]), CheckSucceeded(health[b])}
    BY <2>1, <2>3, SucceededShape
  <2>4. CASE n = 1 /\ health'[b] \in {Failed(health[b]), CheckFailed(health[b])}
    <3>1. /\ health'[b] \in HealthShape /\ health'[b].consecutive = health[b].consecutive + 1
          /\ health'[b].failed = health[b].failed + 1
      BY <2>1, <2>4, FailedShape
    <3> QED BY <1>1, <2>1, <2>4, <3>1
  <2> QED BY <1>2, <2>2, <2>3, <2>4
<1>4. ASSUME NEW b \in Adapter
      PROVE  /\ IsFiniteSet(Owed(b)')
             /\ health'[b].failed + Cardinality(Owed(b)') + faults
                   <= health[b].failed + Cardinality(Owed(b)) + faults'
  <2>1. /\ IsFiniteSet(Owed(b)) /\ IsFiniteSet(Owed(b)')
        /\ Cardinality(Owed(b)') <= Cardinality(Owed(b))
    BY FS_Subset DEF FaultInv
  <2>2. Cardinality(Owed(b)') \in Nat /\ Cardinality(Owed(b)) \in Nat
    BY <2>1, FS_CardinalityType
  <2>3. health'[b].failed \in Nat /\ health[b].failed \in Nat
    BY <1>1, <1>3 DEF HealthShape
  <2> QED BY <1>1, <1>3, <2>1, <2>2, <2>3
<1>5. health' \in [Adapter -> HealthShape]
  BY <1>2, <1>3
<1> QED BY <1>3, <1>4, <1>5, FaultsFrom

\* A call that goes on, or ends, owes no adapter that it did not.
LEMMA OwedFrom ==
  ASSUME CacheShape, NEW c \in Client, NEW r, call' = [call EXCEPT ![c] = r],
         \/ r.step # "run" \/ ~r.aborted
         \/ /\ r.step = call[c].step /\ r.aborted = call[c].aborted
            /\ \A b \in Adapter : r.at[b] \in Busy => call[c].at[b] \in Busy
  PROVE  \A b \in Adapter : Owed(b)' \subseteq Owed(b)
<1>1. call'[c] = r /\ \A d \in Client \ {c} : call'[d] = call[d]
  BY DEF CacheShape
<1> SUFFICES ASSUME NEW b \in Adapter, NEW d \in Owed(b)' PROVE d \in Owed(b)
  OBVIOUS
<1>2. CASE d = c
  BY <1>1, <1>2 DEF Owed
<1>3. CASE d # c
  BY <1>1, <1>3 DEF Owed
<1> QED BY <1>2, <1>3

\* TypeOK without the health records and the faults.
DataOK ==
    /\ setting \in Settings
    /\ kv \in [Adapter -> Value \cup {0}]
    /\ late \subseteq Adapter \X (Value \cup {0}) \X (1..MaxAttempts)
    /\ call \in [Client -> CallType]
    /\ calls \in 0..MaxCalls
    /\ history \in HistoryType

TypeInv == DataOK /\ QuorumInv /\ FaultInv

LEMMA Bounds ==
  /\ MaxCalls \in Nat /\ MaxFaults \in Nat /\ MaxAttempts \in Nat \ {0} /\ 0 \in 0..MaxAttempts - 1
  /\ DataOK => setting.calls \in 0..MaxCalls /\ setting.faults \in 0..MaxFaults
  BY CacheAssumption DEF DataOK

LEMMA HoldingTyped ==
  ASSUME DataOK, NEW a \in Adapter, NEW v \in Value \cup {0}
  PROVE  [history EXCEPT !.held = Holding(a, v)] \in HistoryType
<1>1. Holding(a, v) \in SUBSET (Adapter \X Value)
  BY DEF DataOK, HistoryType, Holding
<1> QED BY <1>1 DEF DataOK, HistoryType

LEMMA EffectTyped ==
  ASSUME DataOK, NEW c \in Client, NEW a \in Adapter, Effect(c, a)
  PROVE  kv' \in [Adapter -> Value \cup {0}] /\ history' \in HistoryType
<1>1. call[c].value \in Value \cup {0}
  BY DEF DataOK, CallType
<1>2. CASE Writes(c)
  BY <1>1, <1>2, HoldingTyped DEF Effect, DataOK
<1>3. CASE ~Writes(c)
  BY <1>3 DEF Effect, DataOK
<1> QED BY <1>2, <1>3

LEMMA StageTyped ==
  ASSUME DataOK, NEW c \in Client, NEW a \in Adapter, NEW stage \in Stages,
         NEW n \in 0..MaxAttempts - 1, NEW answer \in Value \cup {0}
  PROVE  /\ [call[c] EXCEPT !.at[a] = stage, !.answer = answer] \in CallType
         /\ [call[c] EXCEPT !.at[a] = stage, !.tries[a] = n] \in CallType
         /\ [call[c] EXCEPT !.at[a] = stage] \in CallType
<1>1. call[c] \in CallType
  BY DEF DataOK
<1>2. /\ [call[c].at EXCEPT ![a] = stage] \in [Adapter -> Stages]
      /\ [call[c].tries EXCEPT ![a] = n] \in [Adapter -> 0..MaxAttempts - 1]
  BY <1>1 DEF CallType
<1> QED BY <1>1, <1>2 DEF CallType

LEMMA SucceedsTyped ==
  ASSUME TypeInv, NEW c \in Client, NEW a \in Adapter, AttemptSucceeds(c, a)
  PROVE  DataOK' /\ FaultInv'
<1> DEFINE answer == IF call[c].op = "get" THEN kv[a] ELSE 0
           r      == [call[c] EXCEPT !.at[a] = "ok", !.answer = answer]
<1>1. /\ DataOK /\ CacheShape /\ FaultInv /\ call[c] \in CallType /\ answer \in Value \cup {0}
      /\ UNCHANGED <<setting, late, calls, faults>> /\ Effect(c, a)
      /\ call' = [call EXCEPT ![c] = r] /\ "ok" \in Stages
      /\ health' = [health EXCEPT ![a] = Succeeded(health[a])]
  BY DEF TypeInv, DataOK, QuorumInv, CacheShape, AttemptSucceeds, Stages, Busy
<1>2. r \in CallType
  BY <1>1, Bounds, StageTyped
<1>3. /\ r.step = call[c].step /\ r.aborted = call[c].aborted
      /\ \A b \in Adapter : r.at[b] \in Busy => call[c].at[b] \in Busy
  BY <1>1 DEF CallType, Busy
<1> HIDE DEF r, answer
<1>4. DataOK'
  BY <1>1, <1>2, EffectTyped DEF DataOK
<1>5. FaultInv'
  <2>1. \A b \in Adapter : Owed(b)' \subseteq Owed(b)
    BY <1>1, <1>3, OwedFrom
  <2>2. faults' = faults + 0 /\ faults' \in 0..MaxFaults
    BY <1>1, Bounds DEF FaultInv
  <2> QED BY <1>1, <2>1, <2>2, OwedLess
<1> QED BY <1>4, <1>5

\* A stage that is not a success, with the tries it took.
StageMove(c, a, stage, n) ==
    \/ call' = [call EXCEPT ![c].at[a] = stage]
    \/ call' = [call EXCEPT ![c].at[a] = stage, ![c].tries[a] = n]

LEMMA StageIs ==
  ASSUME DataOK, CacheShape, NEW c \in Client, NEW a \in Adapter,
         NEW stage \in Stages, NEW n \in 0..MaxAttempts - 1, StageMove(c, a, stage, n)
  PROVE  /\ call' \in [Client -> CallType]
         /\ call'[c].at = [call[c].at EXCEPT ![a] = stage]
         /\ call'[c].step = call[c].step /\ call'[c].aborted = call[c].aborted
         /\ call' = [call EXCEPT ![c] = call'[c]]
<1>1. call[c] \in CallType /\ call \in [Client -> CallType]
  BY DEF DataOK
<1>2. PICK r \in CallType : /\ call' = [call EXCEPT ![c] = r]
                            /\ r.at = [call[c].at EXCEPT ![a] = stage]
                            /\ r.step = call[c].step /\ r.aborted = call[c].aborted
  <2>1. CASE call' = [call EXCEPT ![c].at[a] = stage]
    <3> DEFINE r == [call[c] EXCEPT !.at[a] = stage]
    <3>1. r \in CallType /\ call' = [call EXCEPT ![c] = r]
      BY <1>1, <2>1, StageTyped, Bounds
    <3>2. /\ r.at = [call[c].at EXCEPT ![a] = stage]
          /\ r.step = call[c].step /\ r.aborted = call[c].aborted
      BY <1>1 DEF CallType
    <3> HIDE DEF r
    <3> QED BY <3>1, <3>2
  <2>2. CASE call' = [call EXCEPT ![c].at[a] = stage, ![c].tries[a] = n]
    <3> DEFINE r == [call[c] EXCEPT !.at[a] = stage, !.tries[a] = n]
    <3>1. r \in CallType /\ call' = [call EXCEPT ![c] = r]
      BY <1>1, <2>2, StageTyped, Bounds
    <3>2. /\ r.at = [call[c].at EXCEPT ![a] = stage]
          /\ r.step = call[c].step /\ r.aborted = call[c].aborted
      BY <1>1 DEF CallType
    <3> HIDE DEF r
    <3> QED BY <3>1, <3>2
  <2> QED BY <2>1, <2>2 DEF StageMove
<1> QED BY <1>1, <1>2

LEMMA FailsTyped ==
  ASSUME TypeInv, NEW c \in Client, NEW a \in Adapter, NEW fate, NEW stop,
         AttemptFails(c, a, fate, stop)
  PROVE  DataOK' /\ FaultInv'
<1>1. /\ DataOK /\ CacheShape /\ FaultInv /\ call[c] \in CallType /\ UNCHANGED <<setting, calls>>
      /\ call[c].step = "run" /\ call[c].at[a] \in Busy /\ call[c].value \in Value \cup {0}
      /\ call[c].tries[a] \in 0..MaxAttempts - 1 /\ call[c].at \in [Adapter -> Stages]
  BY DEF TypeInv, DataOK, QuorumInv, CallType, AttemptFails, At, Busy
<1>2. faults' = faults + 1 /\ faults' \in 0..MaxFaults
  BY <1>1, Bounds DEF AttemptFails, FaultInv
<1>3. /\ kv' \in [Adapter -> Value \cup {0}] /\ history' \in HistoryType
      /\ late' \subseteq Adapter \X (Value \cup {0}) \X (1..MaxAttempts)
  <2>1. CASE fate = "now" /\ Effect(c, a) /\ UNCHANGED late
    BY <1>1, <2>1, EffectTyped DEF DataOK
  <2>2. CASE UNCHANGED <<kv, history, late>>
    BY <1>1, <2>2 DEF DataOK
  <2>3. CASE /\ late' = late \cup {<<a, call[c].value, call[c].tries[a] + 1>>}
             /\ history' = [history EXCEPT !.timedOut = @ \cup ({call[c].value} \ {0})]
             /\ UNCHANGED kv
    <3>1. call[c].tries[a] + 1 \in 1..MaxAttempts
      BY <1>1, Bounds
    <3> QED BY <1>1, <2>3, <3>1 DEF DataOK, HistoryType
  <2> QED BY <2>1, <2>2, <2>3 DEF AttemptFails
<1>4. PICK stage \in {"failed", "waiting"}, n \in 0..MaxAttempts - 1 : StageMove(c, a, stage, n)
  <2>1. CASE GivenUp(c, a)
    BY <2>1, Bounds DEF GivenUp, StageMove
  <2>2. CASE ~LastTry(c, a) /\ call' = [call EXCEPT ![c].at[a] = "waiting",
                                                    ![c].tries[a] = call[c].tries[a] + 1]
    <3>1. call[c].tries[a] + 1 \in 0..MaxAttempts - 1
      BY <1>1, <2>2, Bounds DEF LastTry
    <3> QED BY <2>2, <3>1 DEF StageMove
  <2> QED BY <2>1, <2>2 DEF AttemptFails
<1>5. /\ call' \in [Client -> CallType]
      /\ call'[c].at = [call[c].at EXCEPT ![a] = stage]
      /\ call'[c].step = call[c].step /\ call'[c].aborted = call[c].aborted
      /\ call' = [call EXCEPT ![c] = call'[c]]
  BY <1>1, <1>4, StageIs DEF Stages, Busy
<1>6. DataOK'
  BY <1>1, <1>3, <1>5 DEF DataOK
<1>7. FaultInv'
  <2>1. \A b \in Adapter : call'[c].at[b] \in Busy => call[c].at[b] \in Busy
    BY <1>1, <1>5
  <2>2. \A b \in Adapter : Owed(b)' \subseteq Owed(b)
    BY <1>1, <1>5, <2>1, OwedFrom
  <2>3. UNCHANGED health \/ health' = [health EXCEPT ![a] = Failed(health[a])]
    BY DEF AttemptFails, GivenUp
  <2> QED BY <1>1, <1>2, <2>2, <2>3, OwedLess
<1> QED BY <1>6, <1>7

\* An aborted call gives up an adapter that it still owed an answer of: the failure was
\* counted when it was aborted.
LEMMA TryTyped ==
  ASSUME TypeInv, NEW c \in Client, NEW a \in Adapter, TryAt(c, a),
         call[c].step = "run", call[c].at[a] \in Busy
  PROVE  DataOK' /\ FaultInv'
<1>1. /\ DataOK /\ CacheShape /\ FaultInv /\ call[c] \in CallType
      /\ UNCHANGED <<setting, kv, late, calls, history, faults>>
      /\ call[c].at \in [Adapter -> Stages] /\ "failed" \in Stages /\ "flying" \in Stages
  BY DEF TypeInv, DataOK, QuorumInv, CallType, TryAt, Stages, Busy
<1>2. /\ health \in [Adapter -> HealthShape] /\ faults \in Nat /\ faults \in 0..MaxFaults
      /\ \A b \in Adapter : health[b].consecutive <= health[b].failed
  BY <1>1 DEF FaultInv
<1>3. PICK stage \in {"failed", "flying"} : /\ call' = [call EXCEPT ![c].at[a] = stage]
                                            /\ call[c].aborted <=> stage = "failed"
  BY <1>1 DEF TryAt, GivenUp, CallType
<1>4. /\ call' \in [Client -> CallType]
      /\ call'[c].at = [call[c].at EXCEPT ![a] = stage]
      /\ call'[c].step = call[c].step /\ call'[c].aborted = call[c].aborted
      /\ call' = [call EXCEPT ![c] = call'[c]]
  <2>1. StageMove(c, a, stage, 0) /\ stage \in Stages
    BY <1>1, <1>3 DEF StageMove
  <2> QED BY <1>1, <2>1, Bounds, StageIs
<1>5. DataOK'
  BY <1>1, <1>4 DEF DataOK
<1>6. \A b \in Adapter : Owed(b)' \subseteq Owed(b)
  <2>1. \A b \in Adapter : call'[c].at[b] \in Busy => call[c].at[b] \in Busy
    BY <1>1, <1>3, <1>4
  <2> QED BY <1>1, <1>4, <2>1, OwedFrom
<1>7. CASE UNCHANGED health
  <2>1. faults' = faults + 0 /\ faults' \in 0..MaxFaults
    BY <1>1, <1>2
  <2> QED BY <1>1, <1>5, <1>6, <1>7, <2>1, OwedLess
<1>8. CASE stage = "failed" /\ health' = [health EXCEPT ![a] = Failed(health[a])]
  <2>1. /\ health' \in [Adapter -> HealthShape] /\ health[a] \in HealthShape
        /\ \A b \in Adapter \ {a} : health'[b] = health[b]
        /\ health'[a] \in HealthShape
        /\ health'[a].consecutive = health[a].consecutive + 1
        /\ health'[a].failed = health[a].failed + 1
    BY <1>2, <1>8, FailedShape
  <2>2. c \in Owed(a) /\ c \notin Owed(a)' /\ Owed(a)' \subseteq Owed(a) \ {c}
    BY <1>1, <1>3, <1>4, <1>6, <1>8 DEF Owed, Busy
  <2>3. ASSUME NEW b \in Adapter
        PROVE  /\ health'[b].consecutive <= health'[b].failed
               /\ IsFiniteSet(Owed(b)')
               /\ health'[b].failed + Cardinality(Owed(b)') + faults
                     <= health[b].failed + Cardinality(Owed(b)) + faults'
    <3>1. /\ IsFiniteSet(Owed(b)) /\ IsFiniteSet(Owed(b)')
          /\ Cardinality(Owed(b)') <= Cardinality(Owed(b))
      BY <1>1, <1>6, FS_Subset DEF FaultInv
    <3>2. /\ Cardinality(Owed(b)') \in Nat /\ Cardinality(Owed(b)) \in Nat
          /\ health[b].failed \in Nat /\ health[b].consecutive \in Nat
      BY <1>2, <3>1, FS_CardinalityType DEF HealthShape
    <3>3. CASE b = a
      <4>1. /\ IsFiniteSet(Owed(a) \ {c}) /\ Cardinality(Owed(a) \ {c}) = Cardinality(Owed(a)) - 1
        BY <2>2, <3>1, <3>3, FS_RemoveElement
      <4>2. Cardinality(Owed(a)') <= Cardinality(Owed(a) \ {c})
        BY <2>2, <4>1, FS_Subset
      <4> QED BY <1>1, <1>2, <2>1, <3>1, <3>2, <3>3, <4>1, <4>2
    <3>4. CASE b # a
      BY <1>1, <1>2, <2>1, <3>1, <3>2, <3>4
    <3> QED BY <3>3, <3>4
  <2>4. FaultInv'
    BY <1>1, <1>2, <2>1, <2>3, FaultsFrom
  <2> QED BY <1>5, <2>4
<1>9. \/ UNCHANGED health
      \/ stage = "failed" /\ health' = [health EXCEPT ![a] = Failed(health[a])]
  <2>1. CASE call[c].aborted
    BY <1>3, <2>1 DEF TryAt, GivenUp
  <2>2. CASE ~call[c].aborted
    BY <2>2 DEF TryAt
  <2> QED BY <2>1, <2>2
<1> QED BY <1>7, <1>8, <1>9

\* What an ended call leaves in the history are values.
LEMMA AnswerTyped ==
  ASSUME TypeInv, NEW c \in Client, Answer(c)
  PROVE  DataOK' /\ FaultInv'
<1> DEFINE r == [call[c] EXCEPT !.step = IF Succeeds(c) THEN "ok" ELSE "threw"]
<1>1. /\ DataOK /\ CacheShape /\ FaultInv /\ call[c] \in CallType /\ OkHolds
      /\ UNCHANGED <<setting, kv, late, calls, health, faults>>
      /\ call' = [call EXCEPT ![c] = r] /\ call[c].step = "run"
  BY DEF TypeInv, DataOK, QuorumInv, Answer
<1>2. r \in CallType /\ r.step # "run"
  BY <1>1 DEF CallType, Ends
<1> HIDE DEF r
<1>3. history' \in HistoryType
  <2>1. /\ call[c].value \in Value \cup {0} /\ call[c].seen \subseteq Value
        /\ call[c].op = "set" => call[c].value # 0
    BY <1>1 DEF CallType, OkHolds
  <2> DEFINE ended    == history.ended \cup ({call[c].value} \ {0})
             acked    == IF call[c].op = "set" /\ Succeeds(c)
                         THEN history.acked \cup {call[c].value} ELSE history.acked
             replaced == IF ReplacesAll(c) THEN history.replaced \cup call[c].seen
                         ELSE history.replaced
  <2>2. ended \subseteq Value /\ acked \subseteq Value /\ replaced \subseteq Value
    BY <1>1, <2>1 DEF DataOK, HistoryType
  <2>3. history' = [history EXCEPT !.ended = ended, !.acked = acked, !.replaced = replaced]
    BY DEF Answer
  <2> HIDE DEF ended, acked, replaced
  <2> QED BY <1>1, <2>2, <2>3 DEF DataOK, HistoryType
<1>4. DataOK'
  BY <1>1, <1>2, <1>3 DEF DataOK
<1>5. FaultInv'
  <2>1. \A b \in Adapter : Owed(b)' \subseteq Owed(b)
    BY <1>1, <1>2, OwedFrom
  <2>2. faults' = faults + 0 /\ faults' \in 0..MaxFaults
    BY <1>1, Bounds DEF FaultInv
  <2> QED BY <1>1, <2>1, <2>2, OwedLess
<1> QED BY <1>4, <1>5

LEMMA BeginTyped ==
  ASSUME TypeInv, NEW c \in Client, NEW op \in Ops, Begin(c, op)
  PROVE  DataOK' /\ FaultInv'
<1>1. /\ DataOK /\ CacheShape /\ FaultInv /\ UNCHANGED <<setting, kv, late, health, faults>>
      /\ calls' = calls + 1 /\ calls + 1 \in 1..MaxCalls
  BY Bounds DEF TypeInv, QuorumInv, Begin, DataOK
<1>2. ASSUME NEW at \in [Adapter -> Stages], NEW seen \in SUBSET Value
      PROVE  /\ Begun(op, at, seen) \in CallType /\ ~Begun(op, at, seen).aborted
             /\ LET r == [Begun(op, at, seen) EXCEPT !.step = "threw"]
                IN  r \in CallType /\ r.step # "run"
  <2> DEFINE value  == IF op \in {"set", "batch"} THEN calls + 1 ELSE 0
             stored == history.acked # {} /\ ~history.deletes
  <2>1. NoCall \in CallType /\ ~NoCall.aborted
    BY Bounds DEF NoCall, CallType, Ops, Ends, Stages, Busy
  <2>2. value \in Value \cup {0}
    BY <1>1 DEF Value
  <2>3. stored \in BOOLEAN
    OBVIOUS
  <2>4. Begun(op, at, seen) =
           [NoCall EXCEPT !.step = "run", !.op = op, !.at = at, !.seen = seen, !.value = value,
                          !.stored = stored]
    BY Zenon DEF Begun
  <2> HIDE DEF value, stored
  <2>5. Begun(op, at, seen) \in CallType
    BY <2>1, <2>2, <2>3, <2>4 DEF CallType
  <2>6. Begun(op, at, seen).aborted = NoCall.aborted
    BY <2>1, <2>4 DEF CallType
  <2>7. LET r == [Begun(op, at, seen) EXCEPT !.step = "threw"]
        IN  r \in CallType /\ r.step # "run"
    BY <2>5 DEF CallType, Ends
  <2> QED BY <2>1, <2>5, <2>6, <2>7
<1>3. NoCall.at \in [Adapter -> Stages] /\ Started(op) \in [Adapter -> Stages]
  BY DEF NoCall, Started, Stages, Busy
<1>4. {} \in SUBSET Value /\ history.replaced \in SUBSET Value /\ history.ended \in SUBSET Value
  BY <1>1 DEF DataOK, HistoryType
<1>5. PICK r \in CallType : call' = [call EXCEPT ![c] = r] /\ (r.step # "run" \/ ~r.aborted)
  <2>1. CASE Refused(op)
    <3>1. call' = [call EXCEPT ![c] = [Begun(op, NoCall.at, {}) EXCEPT !.step = "threw"]]
      BY <2>1 DEF Begin
    <3> QED BY <1>2, <1>3, <1>4, <3>1
  <2>2. CASE ~Refused(op)
    <3>1. PICK seen \in SUBSET Value : call' = [call EXCEPT ![c] = Begun(op, Started(op), seen)]
      BY <1>4, <2>2 DEF Begin
    <3> QED BY <1>2, <1>3, <3>1
  <2> QED BY <2>1, <2>2
<1>6. history' \in HistoryType
  <2> DEFINE deletes == history.deletes \/ op = "delete"
  <2>1. deletes \in BOOLEAN /\ history' = [history EXCEPT !.deletes = deletes]
    BY DEF Begin
  <2> HIDE DEF deletes
  <2> QED BY <1>1, <2>1 DEF DataOK, HistoryType
<1>7. DataOK'
  <2>1. calls' \in 0..MaxCalls
    BY <1>1, Bounds
  <2> QED BY <1>1, <1>5, <1>6, <2>1 DEF DataOK
<1>8. FaultInv'
  <2>1. \A b \in Adapter : Owed(b)' \subseteq Owed(b)
    BY <1>1, <1>5, OwedFrom
  <2>2. faults' = faults + 0 /\ faults' \in 0..MaxFaults
    BY <1>1, Bounds DEF FaultInv
  <2> QED BY <1>1, <2>1, <2>2, OwedLess
<1> QED BY <1>7, <1>8

\* An abort is counted once, and may cost each adapter one failure.
LEMMA AbortTyped ==
  ASSUME TypeInv, NEW c \in Client, Abort(c)
  PROVE  DataOK' /\ FaultInv'
<1> DEFINE r == [call[c] EXCEPT !.aborted = TRUE]
<1>1. /\ DataOK /\ CacheShape /\ FaultInv /\ call[c] \in CallType
      /\ UNCHANGED <<setting, kv, late, calls, history, health>>
      /\ call' = [call EXCEPT ![c] = r] /\ call[c].step = "run"
  BY DEF TypeInv, DataOK, QuorumInv, Abort
<1>2. r \in CallType /\ r.at = call[c].at
  BY <1>1 DEF CallType
<1> HIDE DEF r
<1>3. DataOK'
  BY <1>1, <1>2 DEF DataOK
<1>4. faults' = faults + 1 /\ faults' \in 0..MaxFaults /\ faults \in Nat
  BY <1>1, Bounds DEF Abort, FaultInv
<1>5. ASSUME NEW b \in Adapter
      PROVE  /\ health'[b].consecutive <= health'[b].failed
             /\ IsFiniteSet(Owed(b)')
             /\ health'[b].failed + Cardinality(Owed(b)') + faults
                   <= health[b].failed + Cardinality(Owed(b)) + faults'
  <2>1. Owed(b)' \subseteq Owed(b) \cup {c}
    <3>1. \A d \in Client \ {c} : call'[d] = call[d]
      BY <1>1 DEF CacheShape
    <3> QED BY <3>1 DEF Owed
  <2>2. /\ IsFiniteSet(Owed(b)) /\ IsFiniteSet(Owed(b) \cup {c})
        /\ Cardinality(Owed(b) \cup {c}) <= Cardinality(Owed(b)) + 1
    <3>1. IsFiniteSet(Owed(b))
      BY <1>1 DEF FaultInv
    <3>2. /\ IsFiniteSet(Owed(b) \cup {c})
          /\ Cardinality(Owed(b) \cup {c}) = IF c \in Owed(b) THEN Cardinality(Owed(b))
                                             ELSE Cardinality(Owed(b)) + 1
      BY <3>1, FS_AddElement
    <3>3. Cardinality(Owed(b)) \in Nat
      BY <3>1, FS_CardinalityType
    <3> QED BY <3>1, <3>2, <3>3
  <2>3. IsFiniteSet(Owed(b)') /\ Cardinality(Owed(b)') <= Cardinality(Owed(b) \cup {c})
    BY <2>1, <2>2, FS_Subset
  <2>4. /\ Cardinality(Owed(b)) \in Nat /\ Cardinality(Owed(b)') \in Nat
        /\ Cardinality(Owed(b) \cup {c}) \in Nat
    BY <2>2, <2>3, FS_CardinalityType
  <2>5. /\ health'[b] = health[b] /\ health[b].failed \in Nat
        /\ health[b].consecutive <= health[b].failed
    BY <1>1 DEF FaultInv, HealthShape
  <2> QED BY <1>4, <2>2, <2>3, <2>4, <2>5
<1>6. health' \in [Adapter -> HealthShape]
  BY <1>1 DEF FaultInv
<1> QED BY <1>1, <1>3, <1>4, <1>5, <1>6, FaultsFrom

LEMMA RestTyped ==
  ASSUME TypeInv,
         \/ \E a \in Adapter : HealthCheck(a)
         \/ \E e \in late : Land(e)
         \/ UNCHANGED vars
  PROVE  DataOK' /\ FaultInv'
<1>1. DataOK /\ FaultInv /\ faults \in 0..MaxFaults
  BY DEF TypeInv, FaultInv
<1>2. UNCHANGED call
  BY DEF HealthCheck, Land, vars
<1>3. \A b \in Adapter : Owed(b)' \subseteq Owed(b)
  BY <1>2 DEF Owed
<1>4. ASSUME NEW a \in Adapter, HealthCheck(a) PROVE DataOK' /\ FaultInv'
  <2>1. DataOK'
    BY <1>1, <1>4 DEF HealthCheck, DataOK
  <2>2. CASE health' = [health EXCEPT ![a] = CheckSucceeded(health[a])] /\ UNCHANGED faults
    <3>1. faults' = faults + 0 /\ faults' \in 0..MaxFaults
      BY <1>1, <2>2, Bounds
    <3> QED BY <1>1, <1>3, <2>1, <2>2, <3>1, OwedLess
  <2>3. CASE /\ faults < setting.faults /\ faults' = faults + 1
             /\ health' = [health EXCEPT ![a] = CheckFailed(health[a])]
    <3>1. faults' \in 0..MaxFaults
      BY <1>1, <2>3, Bounds
    <3> QED BY <1>1, <1>3, <2>1, <2>3, <3>1, OwedLess
  <2> QED BY <1>4, <2>2, <2>3 DEF HealthCheck
<1>5. ASSUME NEW e \in late, Land(e) \/ UNCHANGED vars PROVE UNCHANGED <<health, faults>>
  BY <1>5 DEF Land, vars
<1>6. ASSUME UNCHANGED <<health, faults>> PROVE FaultInv'
  <2>1. faults' = faults + 0 /\ faults' \in 0..MaxFaults
    BY <1>1, <1>6, Bounds
  <2> QED BY <1>1, <1>3, <1>6, <2>1, OwedLess
<1>7. ASSUME NEW e \in late, Land(e) PROVE DataOK' /\ FaultInv'
  <2>1. /\ e[1] \in Adapter /\ e[2] \in Value \cup {0}
    BY <1>1 DEF DataOK
  <2>2. [history EXCEPT !.held = Holding(e[1], e[2])] \in HistoryType
    BY <1>1, <2>1, HoldingTyped
  <2>3. DataOK'
    BY <1>1, <1>7, <2>1, <2>2 DEF Land, DataOK
  <2> QED BY <1>6, <1>7, <2>3 DEF Land
<1>8. CASE UNCHANGED vars
  BY <1>1, <1>6, <1>8 DEF vars, DataOK
<1> QED BY <1>4, <1>7, <1>8

LEMMA TypeInitial == Init => TypeInv
<1> SUFFICES ASSUME Init PROVE TypeInv
  OBVIOUS
<1>1. QuorumInv
  BY QuorumInitial
<1>2. DataOK
  <2>1. NoCall \in CallType
    BY Bounds DEF NoCall, CallType, Ops, Ends, Stages, Busy
  <2> QED BY <2>1, Bounds DEF Init, DataOK, HistoryType
<1>3. FaultInv
  <2>1. NewHealth \in HealthShape /\ NewHealth.consecutive = 0 /\ NewHealth.failed = 0
    BY TotalCapNat DEF NewHealth, HealthShape
  <2>2. \A b \in Adapter : Owed(b) = {}
    BY DEF Init, NoCall, Owed
  <2>3. health = [a \in Adapter |-> NewHealth] /\ faults = 0 /\ 0 \in 0..MaxFaults
    BY Bounds DEF Init
  <2>4. \A b \in Adapter : IsFiniteSet(Owed(b)) /\ Cardinality(Owed(b)) = 0
    BY <2>2, FS_EmptySet
  <2> QED BY <2>1, <2>3, <2>4 DEF FaultInv
<1> QED BY <1>1, <1>2, <1>3 DEF TypeInv

\* The shape of the state: no attempt beyond the last, no value but a call's, and no
\* adapter charged with more failures than the operations that failed and the aborts.
THEOREM TypeCorrect == Spec => []TypeOK
<1>1. TypeInv /\ [Next]_vars => TypeInv'
  <2> SUFFICES ASSUME TypeInv, [Next]_vars PROVE TypeInv'
    OBVIOUS
  <2>1. QuorumInv'
    BY QuorumStep DEF TypeInv
  <2>2. ASSUME NEW c \in Client, CallStep(c) PROVE DataOK' /\ FaultInv'
    <3>1. ASSUME NEW a \in Adapter, Retry(c, a) \/ NextAdapter(c, a)
          PROVE  DataOK' /\ FaultInv'
      BY <3>1, TryTyped DEF Retry, NextAdapter, At, Busy
    <3> QED BY <2>2, <3>1, SucceedsTyped, FailsTyped, AnswerTyped DEF CallStep
  <2>3. DataOK' /\ FaultInv'
    BY <2>2, AbortTyped, BeginTyped, RestTyped DEF Next
  <2> QED BY <2>1, <2>3 DEF TypeInv
<1>2. TypeInv => TypeOK
  <2> SUFFICES ASSUME TypeInv PROVE TypeOK
    OBVIOUS
  <2>1. ASSUME NEW a \in Adapter PROVE health[a] \in HealthType
    <3>1. /\ health[a] \in HealthShape /\ health[a].consecutive <= health[a].failed
          /\ IsFiniteSet(Owed(a)) /\ health[a].failed + Cardinality(Owed(a)) <= faults
          /\ faults \in 0..MaxFaults
      BY DEF TypeInv, FaultInv
    <3>2. Cardinality(Owed(a)) \in Nat
      BY <3>1, FS_CardinalityType
    <3>3. health[a].failed \in 0..MaxFaults /\ health[a].consecutive \in 0..MaxFaults
      BY <3>1, <3>2, Bounds DEF HealthShape
    <3> QED BY <3>1, <3>3 DEF HealthShape, HealthType
  <2>2. health \in [Adapter -> HealthType]
    BY <2>1 DEF TypeInv, FaultInv
  <2> QED BY <2>2 DEF TypeInv, DataOK, FaultInv, TypeOK
<1> QED BY TypeInitial, <1>1, <1>2, PTL DEF Spec
================================================================================
