------------------------------ MODULE FactLineage ------------------------------
(* How one extracted fact changes the memories of a user and the claim ledger   *)
(* that explains them: an AUDN decision (add, update, delete, no-op, supersede, *)
(* clarify) carried out by processFullAudnFact, executeAudnDecision and         *)
(* emitLineageEvent, beside the deletion of a memory by its user and the        *)
(* archival of decayed memories.                                                *)
(*                                                                              *)
(* No transaction and no lock spans these calls: every awaited statement is a   *)
(* step, and the handlers of other facts run between any two of them.           *)
(*                                                                              *)
(* Ids. A fact inserts at most one memory, one claim and two versions, so the   *)
(* fact names its memory and its claim, and <<f, "first">> and <<f, "next">>    *)
(* name its versions. The words of a memory or a version are represented by     *)
(* the fact (or seeded memory) that wrote them.                                 *)
EXTENDS Naturals, FiniteSets

CONSTANTS
    Seeded,             \* memories stored before the model begins
    Facts,              \* extracted facts, one handler each
    Deletes,            \* calls of deleteMemory
    None,
    Settings            \* what a behaviour may be, see SettingsAssumption

\* facts: bound on the facts; inFlight: bound on the handlers that run at the same
\* time; crashes: a handler may stop after any of its steps.
ASSUME SettingsAssumption ==
    Settings \subseteq [facts : Nat, inFlight : Nat \ {0}, crashes : BOOLEAN]
ASSUME NamesAssumption ==
    /\ IsFiniteSet(Seeded) /\ IsFiniteSet(Facts)
    /\ Seeded \cap Facts = {} /\ Facts \cap Deletes = {}
    /\ None \notin Seeded \cup Facts \cup ((Seeded \cup Facts) \X {"first", "next"})

VARIABLES
    memory,     \* memories: the state of each row
    content,    \* memories.content
    claim,      \* memory_claims
    version,    \* memory_claim_versions
    fact,       \* local state of each fact's handler
    del,        \* local state of each deleteMemory call
    setting     \* chosen in Init
vars == <<memory, content, claim, version, fact, del, setting>>

Memories == Seeded \cup Facts
Versions == Memories \X {"first", "next"}

\* "active" is status = 'active' with neither expired_at nor deleted_at.
MemoryStates == {"absent", "active", "needs_clarification", "expired", "deleted"}
ClaimType == [status : {"absent", "active", "deleted"}, current : Versions \cup {None}]
NoClaim == [status |-> "absent", current |-> None]

\* open is valid_to IS NULL.
VersionType == [claim : Memories \cup {None}, memory : Memories \cup {None},
                content : Memories \cup {None}, kind : {"none", "add", "update", "supersede", "delete"},
                open : BOOLEAN, successor : Versions \cup {None}]
NoVersion == [claim |-> None, memory |-> None, content |-> None, kind |-> "none",
              open |-> FALSE, successor |-> None]

Plans == {"none", "ADD", "UPDATE", "DELETE", "NOOP", "SUPERSEDE", "CLARIFY"}
FactEnds == {"idle", "done", "failed"}
FactSteps == FactEnds \cup {"target", "lookup", "claim", "first", "point",
                            "update", "close", "release", "expire", "store",
                            "softDelete", "next", "link", "repoint", "invalidate"}
FactType == [step : FactSteps, plan : Plans, target : Memories \cup {None},
             text : Memories \cup {None}, old : Versions \cup {None}]
NoFact == [step |-> "idle", plan |-> "none", target |-> None, text |-> None, old |-> None]

DelSteps == FactEnds \cup {"lookup", "softDelete", "close", "invalidate"}
DelType == [step : DelSteps, memory : Memories \cup {None}, old : Versions \cup {None}]
NoDel == [step |-> "idle", memory |-> None, old |-> None]

Init ==
    \E claimed \in SUBSET Seeded :
      /\ memory = [m \in Memories |-> IF m \in Seeded THEN "active" ELSE "absent"]
      /\ content = [m \in Memories |-> m]
      /\ claim = [c \in Memories |-> IF c \in claimed
                    THEN [status |-> "active", current |-> <<c, "first">>] ELSE NoClaim]
      /\ version = [v \in Versions |-> IF v[1] \in claimed /\ v[2] = "first"
                      THEN [NoVersion EXCEPT !.claim = v[1], !.memory = v[1], !.content = v[1],
                                             !.kind = "add", !.open = TRUE]
                      ELSE NoVersion]
      /\ fact = [f \in Facts |-> NoFact]
      /\ del = [d \in Deletes |-> NoDel]
      /\ setting \in Settings

Present(v) == version[v].claim # None
\* getClaimVersionByMemoryId: memory_id is UNIQUE.
VersionsOf(m) == {v \in Versions : Present(v) /\ version[v].memory = m}

FactsInFlight == {f \in Facts : fact[f].step \notin FactEnds}
DeletesInFlight == {d \in Deletes : del[d].step \notin FactEnds}
HasRoom == Cardinality(FactsInFlight) + Cardinality(DeletesInFlight) < setting.inFlight

Goto(f, step) == fact' = [fact EXCEPT ![f].step = step]
----------------------------------------------------------------------------
(* The handler of a fact.                                                     *)

\* The vector, keyword and slot searches return neither a deleted nor an expired
\* memory, nor one that waits for a clarification.
Candidates == {m \in Memories : memory[m] = "active"}

\* The step after ensureClaimTarget.
MutationStep(plan) ==
    CASE plan = "UPDATE" -> "update" [] plan = "SUPERSEDE" -> "expire"
      [] plan = "DELETE" -> "softDelete" [] OTHER -> "done"

\* findFilteredCandidates and the decision: fast path, LLM and overrides may
\* choose anything, so the choice is free. A target that is no candidate
\* falls back to ADD.
FindCandidates(f) ==
    /\ fact[f].step = "idle" /\ HasRoom
    /\ Cardinality({g \in Facts : fact[g].step # "idle"}) < setting.facts
    /\ \/ \E plan \in {"ADD", "CLARIFY"} :
            fact' = [fact EXCEPT ![f] = [NoFact EXCEPT !.step = "store", !.plan = plan]]
       \/ \E plan \in {"UPDATE", "DELETE", "NOOP", "SUPERSEDE"}, m \in Candidates :
            fact' = [fact EXCEPT ![f] = [NoFact EXCEPT !.step = "target", !.plan = plan, !.target = m]]
    /\ UNCHANGED <<memory, content, claim, version, del>>

\* ensureClaimTarget, getMemoryIncludingDeleted: the words a backfill will copy.
ReadTarget(f) ==
    /\ fact[f].step = "target"
    /\ fact' = [fact EXCEPT ![f].text = content[fact[f].target], ![f].step = "lookup"]
    /\ UNCHANGED <<memory, content, claim, version, del>>

\* ensureClaimTarget, getClaimVersionByMemoryId.
LookupVersion(f) ==
    /\ fact[f].step = "lookup"
    /\ \/ \E v \in VersionsOf(fact[f].target) :
            fact' = [fact EXCEPT ![f].old = v, ![f].step = MutationStep(fact[f].plan)]
       \/ VersionsOf(fact[f].target) = {} /\ Goto(f, "claim")
    /\ UNCHANGED <<memory, content, claim, version, del>>

\* createClaim, of emitCanonicalAdd or of a backfill.
CreateClaim(f) ==
    /\ fact[f].step = "claim"
    /\ claim' = [claim EXCEPT ![f] = [status |-> "active", current |-> None]]
    /\ Goto(f, "first")
    /\ UNCHANGED <<memory, content, version, del>>

\* INSERT INTO memory_claim_versions, refused when the memory already has a
\* version. recordNoop swallows the error; the other handlers throw.
InsertVersion(f, v, row, next) ==
    \/ /\ row.memory = None \/ VersionsOf(row.memory) = {}
       /\ version' = [version EXCEPT ![v] = row]
       /\ Goto(f, next)
    \/ /\ row.memory # None /\ VersionsOf(row.memory) # {}
       /\ Goto(f, IF fact[f].plan = "NOOP" THEN "done" ELSE "failed")
       /\ UNCHANGED version

\* createClaimVersion of emitCanonicalAdd or of a backfill.
CreateFirstVersion(f) ==
    /\ fact[f].step = "first"
    /\ LET adds == fact[f].plan = "ADD" IN
       InsertVersion(f, <<f, "first">>,
                     [NoVersion EXCEPT !.claim = f, !.open = TRUE,
                                       !.memory = IF adds THEN f ELSE fact[f].target,
                                       !.content = IF adds THEN f ELSE fact[f].text,
                                       !.kind = IF adds THEN "add" ELSE "none"],
                     "point")
    /\ UNCHANGED <<memory, content, claim, del>>

\* Mutant: a status the column's CHECK does not list.
PointClaimUnlisted(c, v) == claim' = [claim EXCEPT ![c] = [status |-> "current", current |-> v]]

\* setClaimCurrentVersion overwrites whatever the claim says.
PointClaim(c, v) == claim' = [claim EXCEPT ![c] = [status |-> "active", current |-> v]]

PointFirst(f) ==
    /\ fact[f].step = "point"
    /\ PointClaim(f, <<f, "first">>)
    /\ \/ fact[f].plan = "ADD" /\ Goto(f, "done")
       \/ /\ fact[f].plan # "ADD"
          /\ fact' = [fact EXCEPT ![f].old = <<f, "first">>, ![f].step = MutationStep(fact[f].plan)]
    /\ UNCHANGED <<memory, content, version, del>>

\* storeProjection of ADD and SUPERSEDE, storeClarification of CLARIFY.
StoreMemory(f) ==
    /\ fact[f].step = "store"
    /\ memory' = [memory EXCEPT ![f] =
                    IF fact[f].plan = "CLARIFY" THEN "needs_clarification" ELSE "active"]
    /\ Goto(f, CASE fact[f].plan = "ADD" -> "claim" [] fact[f].plan = "SUPERSEDE" -> "next"
                 [] OTHER -> "done")
    /\ UNCHANGED <<content, claim, version, del>>

\* updateCanonicalFact: updateMemoryContent, guarded by deleted_at IS NULL only.
UpdateContent(f) ==
    /\ fact[f].step = "update"
    /\ content' = IF memory[fact[f].target] = "deleted" THEN content
                  ELSE [content EXCEPT ![fact[f].target] = f]
    /\ Goto(f, "close")
    /\ UNCHANGED <<memory, claim, version, del>>

\* createUpdateVersion: supersedeClaimVersion(old, null).
CloseOldVersion(f) ==
    /\ fact[f].step = "close"
    /\ version' = [version EXCEPT ![fact[f].old].open = FALSE, ![fact[f].old].successor = None]
    /\ Goto(f, "release")
    /\ UNCHANGED <<memory, content, claim, del>>

\* createUpdateVersion: memory_id = NULL on the old version.
ReleaseMemory(f) ==
    /\ fact[f].step = "release"
    /\ version' = [version EXCEPT ![fact[f].old].memory = None]
    /\ Goto(f, "next")
    /\ UNCHANGED <<memory, content, claim, del>>

\* Mutant: the version is written before the memory it is about.
ExpireThenVersion(f) ==
    /\ fact[f].step = "expire"
    /\ memory' = [memory EXCEPT ![fact[f].target] = "expired"]
    /\ Goto(f, "next")
    /\ UNCHANGED <<content, claim, version, del>>

\* supersedeCanonicalFact: expireMemory.
ExpireTarget(f) ==
    /\ fact[f].step = "expire"
    /\ memory' = [memory EXCEPT ![fact[f].target] =
                    IF @ \in {"active", "needs_clarification"} THEN "expired" ELSE @]
    /\ Goto(f, "store")
    /\ UNCHANGED <<content, claim, version, del>>

\* deleteCanonicalFact: softDeleteMemory.
SoftDeleteTarget(f) ==
    /\ fact[f].step = "softDelete"
    /\ memory' = [memory EXCEPT ![fact[f].target] = "deleted"]
    /\ Goto(f, "next")
    /\ UNCHANGED <<content, claim, version, del>>

OldClaim(f) == version[fact[f].old].claim

\* createClaimVersion of an update, a supersede or a delete (a tombstone).
CreateNextVersion(f) ==
    /\ fact[f].step = "next"
    /\ InsertVersion(f, <<f, "next">>,
         [NoVersion EXCEPT !.claim = OldClaim(f), !.content = f, !.open = TRUE,
            !.memory = CASE fact[f].plan = "UPDATE" -> fact[f].target
                         [] fact[f].plan = "SUPERSEDE" -> f [] OTHER -> None,
            !.kind = CASE fact[f].plan = "UPDATE" -> "update"
                       [] fact[f].plan = "SUPERSEDE" -> "supersede" [] OTHER -> "delete"],
         "link")
    /\ UNCHANGED <<memory, content, claim, del>>

\* Mutants: the link without valid_to; valid_to without the link; a link to the
\* version the claim calls current at that moment.
LinkOnly(f) ==
    /\ fact[f].step = "link"
    /\ version' = [version EXCEPT ![fact[f].old].successor = <<f, "next">>]
    /\ Goto(f, IF fact[f].plan = "DELETE" THEN "invalidate" ELSE "repoint")
    /\ UNCHANGED <<memory, content, claim, del>>
LinkToCurrent(f) ==
    /\ fact[f].step = "link"
    /\ version' = [version EXCEPT ![fact[f].old].successor = claim[OldClaim(f)].current]
    /\ Goto(f, IF fact[f].plan = "DELETE" THEN "invalidate" ELSE "repoint")
    /\ UNCHANGED <<memory, content, claim, del>>

\* superseded_by_version_id of the old version; a supersede and a delete close
\* it in the same statement.
LinkOldVersion(f) ==
    /\ fact[f].step = "link"
    /\ version' = [version EXCEPT ![fact[f].old].successor = <<f, "next">>,
                                  ![fact[f].old].open = @ /\ fact[f].plan = "UPDATE"]
    /\ Goto(f, IF fact[f].plan = "DELETE" THEN "invalidate" ELSE "repoint")
    /\ UNCHANGED <<memory, content, claim, del>>

\* setClaimCurrentVersion to the new version.
Repoint(f) ==
    /\ fact[f].step = "repoint"
    /\ PointClaim(OldClaim(f), <<f, "next">>)
    /\ Goto(f, "done")
    /\ UNCHANGED <<memory, content, version, del>>

\* emitCanonicalDelete: invalidateClaim.
InvalidateOldClaim(f) ==
    /\ fact[f].step = "invalidate"
    /\ claim' = [claim EXCEPT ![OldClaim(f)] = [status |-> "deleted", current |-> None]]
    /\ Goto(f, "done")
    /\ UNCHANGED <<memory, content, version, del>>

\* A statement or a model call throws, or the process stops: what was written
\* stays. (recordNoop swallows the throw; it has nothing left to write.)
AbortFact(f) ==
    /\ setting.crashes /\ f \in FactsInFlight
    /\ Goto(f, "failed")
    /\ UNCHANGED <<memory, content, claim, version, del>>
----------------------------------------------------------------------------
(* deleteMemory, and the archival of decayed memories.                        *)

\* getMemory returns neither a deleted nor an expired row.
ReadDeleted(d) ==
    /\ del[d].step = "idle" /\ HasRoom
    /\ \E m \in Memories :
         /\ memory[m] \in {"active", "needs_clarification"}
         /\ del' = [del EXCEPT ![d] = [step |-> "lookup", memory |-> m, old |-> None]]
    /\ UNCHANGED <<memory, content, claim, version, fact>>

\* Mutant: the user's delete does not look for the memory's version.
LookupSkipped(d) ==
    /\ del[d].step = "lookup"
    /\ del' = [del EXCEPT ![d].step = "softDelete"]
    /\ UNCHANGED <<memory, content, claim, version, fact>>

LookupDeleted(d) ==
    /\ del[d].step = "lookup"
    /\ \/ \E v \in VersionsOf(del[d].memory) :
            del' = [del EXCEPT ![d].old = v, ![d].step = "softDelete"]
       \/ /\ VersionsOf(del[d].memory) = {}
          /\ del' = [del EXCEPT ![d].step = "softDelete"]
    /\ UNCHANGED <<memory, content, claim, version, fact>>

SoftDelete(d) ==
    /\ del[d].step = "softDelete"
    /\ memory' = [memory EXCEPT ![del[d].memory] = "deleted"]
    /\ del' = [del EXCEPT ![d].step = IF del[d].old = None THEN "done" ELSE "close"]
    /\ UNCHANGED <<content, claim, version, fact>>

CloseDeleted(d) ==
    /\ del[d].step = "close"
    /\ version' = [version EXCEPT ![del[d].old].open = FALSE, ![del[d].old].successor = None]
    /\ del' = [del EXCEPT ![d].step = "invalidate"]
    /\ UNCHANGED <<memory, content, claim, fact>>

InvalidateDeleted(d) ==
    /\ del[d].step = "invalidate"
    /\ claim' = [claim EXCEPT ![version[del[d].old].claim] = [status |-> "deleted", current |-> None]]
    /\ del' = [del EXCEPT ![d].step = "done"]
    /\ UNCHANGED <<memory, content, version, fact>>

AbortDelete(d) ==
    /\ setting.crashes /\ d \in DeletesInFlight
    /\ del' = [del EXCEPT ![d].step = "failed"]
    /\ UNCHANGED <<memory, content, claim, version, fact>>

\* archiveDecayed: softDeleteMemory alone, the ledger is not told.
Archive(m) ==
    /\ memory[m] = "active"
    /\ memory' = [memory EXCEPT ![m] = "deleted"]
    /\ UNCHANGED <<content, claim, version, fact, del>>
----------------------------------------------------------------------------
FactNext(f) ==
    \/ FindCandidates(f) \/ ReadTarget(f) \/ LookupVersion(f) \/ CreateClaim(f)
    \/ CreateFirstVersion(f) \/ PointFirst(f) \/ StoreMemory(f) \/ UpdateContent(f)
    \/ CloseOldVersion(f) \/ ReleaseMemory(f) \/ ExpireTarget(f) \/ SoftDeleteTarget(f)
    \/ CreateNextVersion(f) \/ LinkOldVersion(f) \/ Repoint(f) \/ InvalidateOldClaim(f)
    \/ AbortFact(f)

DeleteNext(d) ==
    \/ ReadDeleted(d) \/ LookupDeleted(d) \/ SoftDelete(d) \/ CloseDeleted(d)
    \/ InvalidateDeleted(d) \/ AbortDelete(d)

Next ==
    /\ \/ \E f \in Facts : FactNext(f)
       \/ \E d \in Deletes : DeleteNext(d)
       \/ \E m \in Memories : Archive(m)
    /\ UNCHANGED setting

Spec == Init /\ [][Next]_vars
----------------------------------------------------------------------------
TypeOK ==
    /\ memory \in [Memories -> MemoryStates]
    /\ content \in [Memories -> Memories]
    /\ claim \in [Memories -> ClaimType]
    /\ version \in [Versions -> VersionType]
    /\ fact \in [Facts -> FactType]
    /\ del \in [Deletes -> DelType]
    /\ setting \in Settings

\* One handler at a time, each to its end: the ledger is kept by nothing else.
Serial == setting.inFlight = 1 /\ ~setting.crashes
Quiet  == Serial /\ FactsInFlight = {} /\ DeletesInFlight = {}
ActiveClaims == {c \in Memories : claim[c].status = "active"}
VersionsIn(c) == {v \in Versions : version[v].claim = c}

\* Between two handlers an active claim has exactly one open version, and that
\* version is the current one: what countOpenClaimVersions counts.
OneOpenVersion ==
    Quiet => \A c \in ActiveClaims :
               {v \in VersionsIn(c) : version[v].open} = {claim[c].current}

\* Between two handlers the ledger and the memories agree: a memory that has a
\* version and that search still returns is the memory of the current version
\* of an active claim, with the words of that version.
VisibleIsCurrent ==
    Quiet => \A m \in Memories, v \in Versions :
               memory[m] = "active" /\ version[v].memory = m =>
                 /\ claim[version[v].claim] = [status |-> "active", current |-> v]
                 /\ version[v].content = content[m]

\* The versions reached from v along superseded_by_version_id (getReversalChain).
Chain(v) ==
    LET reached[n \in 0..Cardinality(Versions)] ==
          IF n = 0 THEN {v}
          ELSE reached[n - 1] \cup ({version[u].successor : u \in reached[n - 1]} \ {None})
    IN  reached[Cardinality(Versions)]

\* Between two handlers the chain of every version of a living claim leads to
\* its current version, so the history explains what search returns.
ChainReachesCurrent ==
    Quiet => \A c \in ActiveClaims : \A v \in VersionsIn(c) : claim[c].current \in Chain(v)

\* What search returns, what the ledger says and the history that explains it are
\* one, after any sequence of mutations, deletes and archivals: the three above.
LedgerAgrees == OneOpenVersion /\ VisibleIsCurrent /\ ChainReachesCurrent

\* A chain never comes back to where it started: getReversalChain ends without
\* its depth limit, whatever the handlers interleave.
ChainsEnd ==
    \A v \in Versions : version[v].successor # None => v \notin Chain(version[v].successor)

\* A fact that expired a memory has stored its own words, is about to, or was
\* cut off between the two statements: nothing else hides a memory for good
\* without the one that replaces it.
ExpiredIsReplaced ==
    \A m \in Memories : memory[m] = "expired" =>
      \E f \in Facts : /\ fact[f].plan = "SUPERSEDE" /\ fact[f].target = m
                       /\ memory[f] # "absent" \/ fact[f].step \in {"store", "failed"}

\* What a handler reports as stored, updated or deleted is in the ledger, as a
\* version of that kind with the words of the fact.
AnswerIsRecorded ==
    \A f \in Facts : fact[f].step = "done" =>
      LET recorded(kind, name) == /\ version[<<f, name>>].kind = kind
                                  /\ version[<<f, name>>].content = f
      IN  /\ fact[f].plan = "ADD" => recorded("add", "first")
          /\ fact[f].plan = "UPDATE" => recorded("update", "next")
          /\ fact[f].plan = "SUPERSEDE" => recorded("supersede", "next")
          /\ fact[f].plan = "DELETE" => recorded("delete", "next")

\* No fact is lost on the way: neither the words it replaced a memory for nor the
\* record of what it answered. Both of the above.
FactsAreKept == ExpiredIsReplaced /\ AnswerIsRecorded

\* A memory its user deleted is in no open version of an active claim: neither
\* current nor historical search returns its words as of now.
DeletedIsForgotten ==
    Serial => \A d \in Deletes : del[d].step = "done" =>
      \A v \in Versions : version[v].memory = del[d].memory /\ version[v].open =>
        claim[version[v].claim].status # "active"
=============================================================================
