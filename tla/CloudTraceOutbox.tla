---------------------------- MODULE CloudTraceOutbox ----------------------------
(* The outbox of trace events: enqueue under a cap, and the uploader of each      *)
(* process that claims a batch, posts its events one by one and records every     *)
(* answer (services/cloud-trace-sync.ts, db/cloud-trace-outbox-repository.ts).    *)
(*                                                                                *)
(* Events are numbered in the order of their rows. Time is two flags of a row:    *)
(* due (next_attempt_at has come) and stale (claimed_at is older than             *)
(* claimStaleMs). The cloud keeps the set of events it has accepted.              *)
EXTENDS Naturals, Sequences, FiniteSets

CONSTANTS
    Process,            \* core processes at the same database
    NumEvents,          \* bound: rows of the outbox
    BatchSize,          \* config.batchSize
    MaxAttempts,        \* config.maxAttempts
    MaxPending,         \* config.maxPending
    MaxRefusals         \* bound: answers 401 or 403

None == "none"
ASSUME OutboxAssumption ==
    /\ IsFiniteSet(Process) /\ None \notin Process
    /\ NumEvents \in Nat /\ BatchSize \in Nat \ {0} /\ MaxPending \in Nat
    /\ MaxAttempts \in Nat \ {0} /\ MaxRefusals \in Nat

Event == 1..NumEvents

VARIABLES
    event,      \* cloud_trace_outbox
    entering,   \* enqueue calls that have passed the cap and not inserted yet
    uploader,   \* UploaderRuntime and the local state of its tick, per process
    accepted,   \* events the cloud has
    posts,      \* history: uploads of each event, counted up to MaxAttempts
    takenOver,  \* history: events claimed again when stale, while a holder lived
    refusals
outboxVars == <<event, entering, uploader, accepted, posts, takenOver, refusals>>

EventType == [state : {"absent", "pending", "claimed", "sent", "dead_letter", "purged"},
              attempts : 0..MaxAttempts, due : BOOLEAN, stale : BOOLEAN,
              holder : Process \cup {None}]     \* who claimed it last

Replies == {"ok", "lost", "busy", "auth", "rejected"}
UploaderType == [step : {"off", "idle", "claim", "post", "record", "drain", "stopped"},
                 batch : Seq([id : Event, attempts : 0..MaxAttempts]),
                 reply : Replies \cup {None}, paused : BOOLEAN, draining : BOOLEAN]
NoUploader == [step |-> "off", batch |-> <<>>, reply |-> None,
               paused |-> FALSE, draining |-> FALSE]

OutboxTypeOK ==
    /\ event \in [Event -> EventType]
    /\ entering \in Nat
    /\ uploader \in [Process -> UploaderType]
    /\ accepted \subseteq Event
    /\ posts \in [Event -> 0..MaxAttempts]
    /\ takenOver \subseteq Event
    /\ refusals \in 0..MaxRefusals

AbsentRow == [state |-> "absent", attempts |-> 0, due |-> FALSE, stale |-> FALSE, holder |-> None]

OutboxInit ==
    /\ event = [e \in Event |-> AbsentRow]
    /\ entering = 0
    /\ uploader = [p \in Process |-> NoUploader]
    /\ accepted = {} /\ takenOver = {}
    /\ posts = [e \in Event |-> 0]
    /\ refusals = 0

--------------------------------------------------------------------------------
Open == {e \in Event : event[e].state \in {"pending", "claimed"}}
UpTo(n) == IF n < MaxAttempts THEN n + 1 ELSE MaxAttempts

\* enqueueCloudTraceFromInput counts the open rows, then inserts its own.
Enter(limit) ==
    /\ entering + Cardinality({e \in Event : event[e].state # "absent"}) < limit
    /\ Cardinality(Open) < MaxPending
    /\ entering' = entering + 1
    /\ UNCHANGED <<event, uploader, accepted, posts, takenOver, refusals>>

Insert(e) ==
    /\ entering > 0
    /\ event[e].state = "absent" /\ (e > 1 => event[e - 1].state # "absent")
    /\ entering' = entering - 1
    /\ event' = [event EXCEPT ![e].state = "pending", ![e].due = TRUE]
    /\ UNCHANGED <<uploader, accepted, posts, takenOver, refusals>>

BecomesDue(e) ==
    /\ event[e].state = "pending" /\ ~event[e].due
    /\ event' = [event EXCEPT ![e].due = TRUE]
    /\ UNCHANGED <<entering, uploader, accepted, posts, takenOver, refusals>>

BecomesStale(e) ==
    /\ event[e].state = "claimed" /\ ~event[e].stale
    /\ event' = [event EXCEPT ![e].stale = TRUE]
    /\ UNCHANGED <<entering, uploader, accepted, posts, takenOver, refusals>>

\* The retention of a sent or dead row is over.
Purge(p, e) ==
    /\ uploader[p].step \notin {"off", "stopped"}
    /\ event[e].state \in {"sent", "dead_letter"}
    /\ event' = [event EXCEPT ![e] = [AbsentRow EXCEPT !.state = "purged"]]
    /\ UNCHANGED <<entering, uploader, accepted, posts, takenOver, refusals>>

--------------------------------------------------------------------------------
\* A tick that is over waits for the next timer, or for the loop of the shutdown.
Rest(u) == [u EXCEPT !.step = IF u.draining THEN "drain" ELSE "idle",
                     !.batch = <<>>, !.reply = None]

\* The timer fires: the heartbeat clears or sets the pause, and only a runtime that
\* is not paused goes on to claim.
Heartbeat(p, answer) ==
    /\ uploader[p].step = "idle"
    /\ LET paused == CASE answer = "ok"   -> FALSE
                       [] answer = "auth" -> TRUE
                       [] OTHER           -> uploader[p].paused
       IN  uploader' = [uploader EXCEPT ![p].paused = paused,
                                        ![p].step = IF paused THEN "idle" ELSE "claim"]
    /\ UNCHANGED <<event, entering, accepted, posts, takenOver, refusals>>

\* Mutant: a claim is taken without waiting for it to be stale.
ClaimableAnyTime == {e \in Event : \/ event[e].state = "pending" /\ event[e].due
                                   \/ event[e].state = "claimed"}

Claimable == {e \in Event : \/ event[e].state = "pending" /\ event[e].due
                            \/ event[e].state = "claimed" /\ event[e].stale}

\* claimCloudTraceBatch: the oldest claimable rows, with the attempts they show.
Held(q) == {uploader[q].batch[i].id : i \in DOMAIN uploader[q].batch}
Claim(p) ==
    LET ids   == {e \in Claimable : Cardinality({d \in Claimable : d < e}) < BatchSize}
        nth   == [i \in 1..Cardinality(ids) |->
                    CHOOSE e \in ids : Cardinality({d \in ids : d < e}) = i - 1]
        batch == [i \in DOMAIN nth |-> [id |-> nth[i], attempts |-> event[nth[i]].attempts]]
    IN  /\ event' = [e \in Event |->
                       IF e \in ids
                       THEN [event[e] EXCEPT !.state = "claimed", !.due = FALSE,
                                             !.stale = FALSE, !.holder = p]
                       ELSE event[e]]
        /\ takenOver' = takenOver \cup
             {e \in ids : event[e].stale /\ \E q \in Process \ {p} : e \in Held(q)}
        /\ uploader' = [uploader EXCEPT
             ![p] = IF ids # {} THEN [uploader[p] EXCEPT !.step = "post", !.batch = batch]
                    ELSE IF uploader[p].step = "drain" THEN [uploader[p] EXCEPT !.step = "stopped"]
                    ELSE Rest(uploader[p])]
        /\ UNCHANGED <<entering, accepted, posts, refusals>>

TickClaim(p) == uploader[p].step = "claim" /\ Claim(p)

\* The upload of the first event of the batch. An answer may be lost, and an
\* overloaded cloud may or may not have taken the event.
Post(p, reply, taken) ==
    /\ uploader[p].step = "post"
    /\ LET e == Head(uploader[p].batch).id
       IN  /\ reply = "ok" => taken
           /\ reply \in {"auth", "rejected"} => ~taken /\ e \notin accepted
           /\ reply = "auth" => refusals < MaxRefusals
           /\ accepted' = IF taken THEN accepted \cup {e} ELSE accepted
           /\ posts' = [posts EXCEPT ![e] = UpTo(@)]
    /\ refusals' = IF reply = "auth" THEN refusals + 1 ELSE refusals
    /\ uploader' = [uploader EXCEPT ![p].step = "record", ![p].reply = reply]
    /\ UNCHANGED <<event, entering, takenOver>>

--------------------------------------------------------------------------------
\* What the answer makes of the row. No statement looks at the state it replaces.
Sent(row)       == [row EXCEPT !.state = "sent"]
DeadLetter(row) == [row EXCEPT !.state = "dead_letter"]
Retry(row)      == [row EXCEPT !.state = "pending", !.attempts = UpTo(@), !.due = FALSE]

\* Mutant: a failed upload leaves its row to go stale, and counts no attempt.
OutcomeForgets(row, entry, reply) ==
    CASE reply = "ok"       -> Sent(row)
      [] reply = "rejected" -> DeadLetter(row)
      [] OTHER              -> row

Outcome(row, entry, reply) ==
    CASE reply = "ok"       -> Sent(row)
      [] reply = "rejected" -> DeadLetter(row)
      [] reply = "auth"     -> Retry(row)
      [] OTHER -> IF entry.attempts + 1 >= MaxAttempts THEN DeadLetter(row) ELSE Retry(row)

Unclaim(row) == IF row.state = "claimed" THEN row ELSE [row EXCEPT !.stale = FALSE, !.holder = None]

\* Mutant: a stopping uploader drops the rest of its batch.
RecordAndStop(p) ==
    /\ uploader[p].step = "record"
    /\ LET u     == uploader[p]
           entry == Head(u.batch)
       IN  /\ event' = [event EXCEPT ![entry.id] =
                 IF @.state = "purged" THEN @ ELSE Unclaim(Outcome(@, entry, u.reply))]
           /\ uploader' = [uploader EXCEPT ![p] =
                 IF u.draining \/ Len(u.batch) = 1 THEN Rest(u)
                 ELSE [u EXCEPT !.batch = Tail(u.batch), !.reply = None, !.step = "post"]]
    /\ UNCHANGED <<entering, accepted, posts, takenOver, refusals>>

Record(p) ==
    /\ uploader[p].step = "record"
    /\ LET u     == uploader[p]
           entry == Head(u.batch)
       IN  /\ event' = [event EXCEPT ![entry.id] =
                 IF @.state = "purged" THEN @ ELSE Unclaim(Outcome(@, entry, u.reply))]
           /\ uploader' = [uploader EXCEPT ![p] =
                 LET v == [u EXCEPT !.batch = Tail(u.batch), !.reply = None,
                                    !.paused = (u.reply = "auth" \/ (u.paused /\ u.reply # "ok"))]
                 IN  IF v.batch = <<>> THEN Rest(v) ELSE [v EXCEPT !.step = "post"]]
    /\ UNCHANGED <<entering, accepted, posts, takenOver, refusals>>

--------------------------------------------------------------------------------
StartUploader(p) ==
    /\ uploader' = [uploader EXCEPT ![p] = [NoUploader EXCEPT !.step = "idle"]]
    /\ UNCHANGED <<event, entering, accepted, posts, takenOver, refusals>>

\* stopCloudTraceSync: no further tick; the tick in flight is awaited.
StopUploader(p) ==
    /\ uploader' = [uploader EXCEPT ![p] =
         [@ EXCEPT !.draining = TRUE,
                   !.step = IF uploader[p].step = "idle" THEN "drain" ELSE uploader[p].step]]
    /\ UNCHANGED <<event, entering, accepted, posts, takenOver, refusals>>

\* The loop of the shutdown claims and uploads until nothing is open or claimable,
\* the runtime is paused, or the deadline is over.
DrainMore(p) ==
    /\ uploader[p].step = "drain"
    /\ Open # {} /\ ~uploader[p].paused
    /\ Claim(p)

DrainEnds(p) ==
    /\ uploader[p].step = "drain"
    /\ uploader' = [uploader EXCEPT ![p].step = "stopped"]
    /\ UNCHANGED <<event, entering, accepted, posts, takenOver, refusals>>

\* The process is gone with its batch; its claims stay in the table.
LoseUploader(p) ==
    /\ uploader' = [uploader EXCEPT ![p] = NoUploader]
    /\ event' = [e \in Event |-> IF event[e].holder = p THEN [event[e] EXCEPT !.holder = None]
                                                        ELSE event[e]]
    /\ entering' \in 0..entering
    /\ UNCHANGED <<accepted, posts, takenOver, refusals>>

UploaderStep(p) ==
    \/ \E answer \in {"ok", "auth", "failed"} : Heartbeat(p, answer)
    \/ TickClaim(p)
    \/ \E reply \in Replies, taken \in BOOLEAN : Post(p, reply, taken)
    \/ Record(p)
    \/ DrainMore(p) \/ DrainEnds(p)

\* limit: a bound on the rows, at most NumEvents.
OutboxEnvironment(limit) ==
    \/ Enter(limit)
    \/ \E e \in 1..limit : \/ Insert(e) \/ BecomesDue(e) \/ BecomesStale(e)
                         \/ \E p \in Process : Purge(p, e)

OutboxFairness ==
    /\ \A e \in Event : WF_outboxVars(BecomesDue(e)) /\ WF_outboxVars(BecomesStale(e))
    /\ \A p \in Process :
         /\ SF_outboxVars(Heartbeat(p, "ok"))
         /\ WF_outboxVars(TickClaim(p) \/ Record(p) \/ DrainMore(p) \/ DrainEnds(p))
         /\ WF_outboxVars(\E reply \in Replies, taken \in BOOLEAN : Post(p, reply, taken))

--------------------------------------------------------------------------------
\* A row recorded as sent is done with: it leaves that state only to be purged, or
\* when its claim had gone stale under a live uploader and two of them recorded their
\* answers (no UPDATE of the outbox looks at the state it replaces). Until it is
\* recorded the event is posted again, after a lost answer or a crash also one that
\* the cloud has: delivery is at least once.
SentIsFinal(e) ==
    event[e].state = "sent" /\ e \notin takenOver => event'[e].state \in {"sent", "purged"}

\* No event is given up early: a dead letter was rejected by the cloud or posted
\* MaxAttempts times, whatever crashes, pauses and take-overs came between.
\* (`rejected` leaves an event the cloud does not have.)
DeadLetterWasTried(e) ==
    event[e].state # "dead_letter" /\ event'[e].state = "dead_letter" =>
       \/ posts[e] = MaxAttempts
       \/ \E p \in Process : uploader[p].reply = "rejected" /\ Head(uploader[p].batch).id = e

\* The outcome of a row is its last one, and it was earned: both of the above.
OutcomesStand == [][\A e \in Event : SentIsFinal(e) /\ DeadLetterWasTried(e)]_outboxVars

\* An orderly shutdown leaves no row claimed by the process that stopped: every
\* row of a claimed batch is uploaded and recorded, past the deadline too.
StopLeavesNoClaim ==
    \A p \in Process : uploader[p].step = "stopped" =>
        ~\E e \in Event : event[e].state = "claimed" /\ event[e].holder = p

\* Every event in the outbox is sent or becomes a dead letter, through crashes that
\* leave it claimed, lost answers, refusals and shutdowns.
EventSettles ==
    \A e \in Event :
        event[e].state \in {"pending", "claimed"} ~> event[e].state \in {"sent", "dead_letter", "purged"}
================================================================================
