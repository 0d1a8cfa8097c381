-------------------------- MODULE FactLineageProofs ---------------------------
(* Theorems of FactLineage, for any number of facts, deletions and stored          *)
(* memories, and for any interleaving and cut of their handlers.                   *)
EXTENDS FactLineage, FiniteSetTheorems, WellFoundedInduction, TLAPS

Mutating == {"UPDATE", "DELETE", "NOOP", "SUPERSEDE"}

\* A handler's steps follow its plan; from its lookup on it has the version it is about,
\* and that version is there to stay.
FactOK(f) ==
    /\ fact[f].step = "idle" => fact[f].plan = "none" /\ fact[f].target = None /\ fact[f].old = None
    /\ fact[f].step \in {"target", "lookup"} => fact[f].plan \in Mutating
    /\ fact[f].step \in {"claim", "first", "point"} => fact[f].plan \in Mutating \cup {"ADD"}
    /\ fact[f].step \in {"update", "close", "release"} => fact[f].plan = "UPDATE"
    /\ fact[f].step = "expire" => fact[f].plan = "SUPERSEDE"
    /\ fact[f].step \in {"softDelete", "invalidate"} => fact[f].plan = "DELETE"
    /\ fact[f].step = "store" => fact[f].plan \in {"ADD", "CLARIFY", "SUPERSEDE"}
    /\ fact[f].step \in {"next", "link"} => fact[f].plan \in {"UPDATE", "DELETE", "SUPERSEDE"}
    /\ fact[f].step = "repoint" => fact[f].plan \in {"UPDATE", "SUPERSEDE"}
    /\ fact[f].plan \in Mutating => fact[f].target # None
    /\ fact[f].step \in {"lookup", "claim", "first", "point"} /\ fact[f].plan \in Mutating
          => fact[f].text # None
    /\ \/ fact[f].step \in {"update", "close", "release", "expire", "softDelete", "next", "link",
                            "repoint", "invalidate"}
       \/ fact[f].step = "store" /\ fact[f].plan = "SUPERSEDE"
       => fact[f].old # None
    /\ fact[f].old # None => Present(fact[f].old)
    /\ fact[f].step = "point" => Present(<<f, "first">>)

DelOK(d) ==
    /\ del[d].step \in DelSteps \ FactEnds => del[d].memory # None
    /\ del[d].step \in {"close", "invalidate"} => del[d].old # None
    /\ del[d].old # None => Present(del[d].old)

ShapeInv == TypeOK /\ (\A f \in Facts : FactOK(f)) /\ (\A d \in Deletes : DelOK(d))


--------------------------------------------------------------------------------
(* The shape of the state.                                                        *)

LEMMA NamesApart ==
  /\ None \notin Memories /\ None \notin Versions
  /\ \A f \in Facts : /\ f \in Memories /\ f \notin Seeded
                      /\ <<f, "first">> \in Versions /\ <<f, "next">> \in Versions
  /\ \A m \in Memories : <<m, "first">> \in Versions /\ <<m, "next">> \in Versions
  /\ NoVersion \in VersionType /\ NoFact \in FactType /\ NoDel \in DelType
  /\ NoClaim \in ClaimType
  BY NamesAssumption DEF Memories, Versions, NoVersion, VersionType, NoFact, FactType, Plans,
     FactSteps, FactEnds, NoDel, DelType, DelSteps, NoClaim, ClaimType

LEMMA ShapeInitial == Init => ShapeInv
<1> SUFFICES ASSUME Init PROVE ShapeInv
  OBVIOUS
<1> PICK claimed \in SUBSET Seeded :
      /\ memory = [m \in Memories |-> IF m \in Seeded THEN "active" ELSE "absent"]
      /\ content = [m \in Memories |-> m]
      /\ claim = [c \in Memories |-> IF c \in claimed
                    THEN [status |-> "active", current |-> <<c, "first">>] ELSE NoClaim]
      /\ version = [v \in Versions |-> IF v[1] \in claimed /\ v[2] = "first"
                      THEN [NoVersion EXCEPT !.claim = v[1], !.memory = v[1], !.content = v[1],
                                             !.kind = "add", !.open = TRUE]
                      ELSE NoVersion]
      /\ fact = [f \in Facts |-> NoFact]
      /\ del = [d \in Deletes |-> NoDel]
      /\ setting \in Settings
  BY DEF Init
<1>1. memory \in [Memories -> MemoryStates] /\ content \in [Memories -> Memories]
  BY DEF MemoryStates
<1>2. claim \in [Memories -> ClaimType]
  BY NamesApart DEF ClaimType
<1>3. version \in [Versions -> VersionType]
  <2>1. ASSUME NEW m \in Memories
        PROVE  [NoVersion EXCEPT !.claim = m, !.memory = m, !.content = m, !.kind = "add",
                                 !.open = TRUE] \in VersionType
    BY NamesApart DEF VersionType, NoVersion
  <2> QED BY <2>1, NamesApart DEF Memories
<1>4. fact \in [Facts -> FactType] /\ del \in [Deletes -> DelType]
  BY NamesApart
<1>5. (\A f \in Facts : FactOK(f)) /\ (\A d \in Deletes : DelOK(d))
  BY DEF FactOK, DelOK, NoFact, NoDel, Mutating, FactEnds
<1> QED BY <1>1, <1>2, <1>3, <1>4, <1>5 DEF ShapeInv, TypeOK

\* A version stays where it is.
PresentStays == \A v \in Versions : Present(v) => Present(v)'

\* A step of one fact's handler, of one deletion, or of neither.
LEMMA FactShape ==
  ASSUME ShapeInv, memory' \in [Memories -> MemoryStates], content' \in [Memories -> Memories],
         claim' \in [Memories -> ClaimType], version' \in [Versions -> VersionType],
         PresentStays, UNCHANGED <<del, setting>>,
         NEW f \in Facts, fact' \in [Facts -> FactType], FactOK(f)',
         \A g \in Facts \ {f} : fact'[g] = fact[g]
  PROVE  ShapeInv'
<1>1. TypeOK'
  BY DEF ShapeInv, TypeOK
<1>2. ASSUME NEW g \in Facts PROVE FactOK(g)'
  <2>1. CASE g # f
    <3>1. FactOK(g) /\ fact'[g] = fact[g] /\ fact[g] \in FactType
      BY <2>1 DEF ShapeInv, TypeOK
    <3>2. fact[g].old # None => fact[g].old \in Versions
      BY <3>1 DEF FactType
    <3>3. fact[g].old # None => Present(fact[g].old)'
      BY <3>1, <3>2 DEF FactOK, PresentStays
    <3>4. fact[g].step = "point" => Present(<<g, "first">>)'
      BY <3>1, NamesApart DEF FactOK, PresentStays
    <3> QED BY <3>1, <3>3, <3>4 DEF FactOK, Present
  <2> QED BY <2>1
<1>3. ASSUME NEW d \in Deletes PROVE DelOK(d)'
  <2>1. DelOK(d) /\ del[d] \in DelType /\ UNCHANGED del
    BY DEF ShapeInv, TypeOK
  <2>2. del[d].old # None => del[d].old \in Versions
    BY <2>1 DEF DelType
  <2> QED BY <2>1, <2>2 DEF DelOK, PresentStays, Present
<1> QED BY <1>1, <1>2, <1>3 DEF ShapeInv

LEMMA DeleteShape ==
  ASSUME ShapeInv, memory' \in [Memories -> MemoryStates], content' \in [Memories -> Memories],
         claim' \in [Memories -> ClaimType], version' \in [Versions -> VersionType],
         PresentStays, UNCHANGED <<fact, setting>>,
         NEW d \in Deletes, del' \in [Deletes -> DelType], DelOK(d)',
         \A e \in Deletes \ {d} : del'[e] = del[e]
  PROVE  ShapeInv'
<1>1. TypeOK'
  BY DEF ShapeInv, TypeOK
<1>2. ASSUME NEW g \in Facts PROVE FactOK(g)'
  <2>1. FactOK(g) /\ UNCHANGED fact /\ fact[g] \in FactType
    BY DEF ShapeInv, TypeOK
  <2>2. fact[g].old # None => fact[g].old \in Versions
    BY <2>1 DEF FactType
  <2>3. fact[g].old # None => Present(fact[g].old)'
    BY <2>1, <2>2 DEF FactOK, PresentStays
  <2>4. fact[g].step = "point" => Present(<<g, "first">>)'
    BY <2>1, NamesApart DEF FactOK, PresentStays
  <2> QED BY <2>1, <2>3, <2>4 DEF FactOK, Present
<1>3. ASSUME NEW e \in Deletes PROVE DelOK(e)'
  <2>1. CASE e # d
    <3>1. DelOK(e) /\ del[e] \in DelType /\ del'[e] = del[e]
      BY <2>1 DEF ShapeInv, TypeOK
    <3>2. del[e].old # None => del[e].old \in Versions
      BY <3>1 DEF DelType
    <3> QED BY <3>1, <3>2 DEF DelOK, PresentStays, Present
  <2> QED BY <2>1
<1> QED BY <1>1, <1>2, <1>3 DEF ShapeInv

\* What a handler's local state names is there.
LEMMA FactFacts ==
  ASSUME ShapeInv, NEW f \in Facts
  PROVE  /\ fact[f] \in FactType /\ FactOK(f) /\ f \in Memories
         /\ fact[f].plan \in Mutating => fact[f].target \in Memories
         /\ fact[f].old # None =>
              fact[f].old \in Versions /\ version[fact[f].old] \in VersionType /\ OldClaim(f) \in Memories
<1>1. fact[f] \in FactType /\ FactOK(f)
  BY DEF ShapeInv, TypeOK
<1>2. f \in Memories
  BY DEF Memories
<1>3. fact[f].plan \in Mutating => fact[f].target \in Memories
  BY <1>1 DEF FactOK, FactType
<1>4. ASSUME fact[f].old # None
      PROVE  fact[f].old \in Versions /\ version[fact[f].old] \in VersionType /\ OldClaim(f) \in Memories
  <2>1. fact[f].old \in Versions /\ Present(fact[f].old)
    BY <1>1, <1>4 DEF FactOK, FactType
  <2>2. version[fact[f].old] \in VersionType
    BY <2>1 DEF ShapeInv, TypeOK
  <2> QED BY <2>1, <2>2 DEF VersionType, Present, OldClaim
<1> QED BY <1>1, <1>2, <1>3, <1>4

LEMMA DeleteFacts ==
  ASSUME ShapeInv, NEW d \in Deletes
  PROVE  /\ del[d] \in DelType /\ DelOK(d)
         /\ del[d].step \in DelSteps \ FactEnds => del[d].memory \in Memories
         /\ del[d].old # None =>
              /\ del[d].old \in Versions /\ version[del[d].old] \in VersionType
              /\ version[del[d].old].claim \in Memories
<1>1. del[d] \in DelType /\ DelOK(d)
  BY DEF ShapeInv, TypeOK
<1>2. del[d].step \in DelSteps \ FactEnds => del[d].memory \in Memories
  BY <1>1 DEF DelOK, DelType
<1>3. ASSUME del[d].old # None
      PROVE  /\ del[d].old \in Versions /\ version[del[d].old] \in VersionType
             /\ version[del[d].old].claim \in Memories
  <2>1. del[d].old \in Versions /\ Present(del[d].old)
    BY <1>1, <1>3 DEF DelOK, DelType
  <2>2. version[del[d].old] \in VersionType
    BY <2>1 DEF ShapeInv, TypeOK
  <2> QED BY <2>1, <2>2 DEF VersionType, Present
<1> QED BY <1>1, <1>2, <1>3

\* A handler that only moves on.
LEMMA MovesOn ==
  ASSUME ShapeInv, NEW f \in Facts, NEW s \in FactSteps, Goto(f, s)
  PROVE  /\ fact' \in [Facts -> FactType]
         /\ fact'[f].step = s /\ fact'[f].plan = fact[f].plan /\ fact'[f].target = fact[f].target
         /\ fact'[f].text = fact[f].text /\ fact'[f].old = fact[f].old
         /\ \A g \in Facts \ {f} : fact'[g] = fact[g]
<1>1. fact \in [Facts -> FactType]
  BY DEF ShapeInv, TypeOK
<1> QED BY <1>1 DEF Goto, FactType

\* A row written to a version.
LEMMA RowWritten ==
  ASSUME ShapeInv, NEW v \in Versions, NEW row \in VersionType, row.claim # None,
         version' = [version EXCEPT ![v] = row]
  PROVE  /\ version' \in [Versions -> VersionType] /\ PresentStays /\ Present(v)'
         /\ version'[v] = row /\ \A u \in Versions \ {v} : version'[u] = version[u]
<1>1. version \in [Versions -> VersionType]
  BY DEF ShapeInv, TypeOK
<1> QED BY <1>1 DEF PresentStays, Present

\* A row that is only closed, released or linked.
LEMMA RowChanged ==
  ASSUME ShapeInv, NEW v \in Versions, NEW row \in VersionType, row.claim = version[v].claim,
         version' = [version EXCEPT ![v] = row]
  PROVE  /\ version' \in [Versions -> VersionType] /\ PresentStays
         /\ version'[v] = row /\ \A u \in Versions \ {v} : version'[u] = version[u]
<1>1. version \in [Versions -> VersionType]
  BY DEF ShapeInv, TypeOK
<1> QED BY <1>1 DEF PresentStays, Present

LEMMA ClaimPointed ==
  ASSUME ShapeInv, NEW c \in Memories, NEW v \in Versions, PointClaim(c, v)
  PROVE  claim' \in [Memories -> ClaimType]
  BY DEF ShapeInv, TypeOK, PointClaim, ClaimType

\* The row is inserted, or refused.
Inserted(f, v, row, next) ==
    \/ /\ Goto(f, next) /\ version'[v] = row
       /\ row.memory = None \/ VersionsOf(row.memory) = {}
       /\ \A u \in Versions \ {v} : version'[u] = version[u]
    \/ Goto(f, "done") /\ fact[f].plan = "NOOP" /\ UNCHANGED version
    \/ Goto(f, "failed") /\ UNCHANGED version

LEMMA Insertion ==
  ASSUME ShapeInv, NEW f \in Facts, NEW v \in Versions, NEW row \in VersionType, row.claim # None,
         NEW next \in FactSteps \ FactEnds, InsertVersion(f, v, row, next)
  PROVE  /\ version' \in [Versions -> VersionType] /\ PresentStays
         /\ Inserted(f, v, row, next)
<1>1. CASE /\ row.memory = None \/ VersionsOf(row.memory) = {}
           /\ version' = [version EXCEPT ![v] = row]
           /\ Goto(f, next)
  <2>1. /\ version' \in [Versions -> VersionType] /\ PresentStays /\ Present(v)'
        /\ version'[v] = row /\ \A u \in Versions \ {v} : version'[u] = version[u]
    BY <1>1, RowWritten
  <2> QED BY <1>1, <2>1 DEF FactEnds, Inserted
<1>2. CASE /\ row.memory # None /\ VersionsOf(row.memory) # {}
           /\ Goto(f, IF fact[f].plan = "NOOP" THEN "done" ELSE "failed")
           /\ UNCHANGED version
  <2>1. version' \in [Versions -> VersionType] /\ PresentStays
    BY <1>2 DEF ShapeInv, TypeOK, PresentStays, Present
  <2>2. CASE fact[f].plan = "NOOP"
    BY <1>2, <2>1, <2>2 DEF FactEnds, Inserted
  <2>3. CASE fact[f].plan # "NOOP"
    BY <1>2, <2>1, <2>3 DEF FactEnds, Inserted
  <2> QED BY <2>2, <2>3
<1> QED BY <1>1, <1>2 DEF InsertVersion

LEMMA Unwritten ==
  ASSUME ShapeInv
  PROVE  /\ UNCHANGED memory => memory' \in [Memories -> MemoryStates]
         /\ UNCHANGED content => content' \in [Memories -> Memories]
         /\ UNCHANGED claim => claim' \in [Memories -> ClaimType]
         /\ UNCHANGED version => version' \in [Versions -> VersionType] /\ PresentStays
  BY DEF ShapeInv, TypeOK, PresentStays, Present

\* A handler that writes no version.
LEMMA OnlyMoves ==
  ASSUME ShapeInv, NEW f \in Facts, UNCHANGED <<version, del, setting>>,
         memory' \in [Memories -> MemoryStates], content' \in [Memories -> Memories],
         claim' \in [Memories -> ClaimType],
         fact' \in [Facts -> FactType], FactOK(f)',
         \A g \in Facts \ {f} : fact'[g] = fact[g]
  PROVE  ShapeInv'
<1>1. version' \in [Versions -> VersionType] /\ PresentStays
  BY Unwritten
<1> QED BY <1>1, FactShape

\* The row of a first version.
NewRow(c, m, w, k) ==
    [NoVersion EXCEPT !.claim = c, !.open = TRUE, !.memory = m, !.content = w, !.kind = k]

LEMMA FirstRow ==
  ASSUME NEW c \in Memories, NEW m \in Memories, NEW w \in Memories, NEW k \in {"add", "none"}
  PROVE  NewRow(c, m, w, k) \in VersionType /\ NewRow(c, m, w, k).claim = c
<1> DEFINE r1 == [NoVersion EXCEPT !.claim = c]
           r2 == [r1 EXCEPT !.open = TRUE]
           r3 == [r2 EXCEPT !.memory = m]
           r4 == [r3 EXCEPT !.content = w]
           r5 == [r4 EXCEPT !.kind = k]
<1>1. r1 \in VersionType /\ r1.claim = c
  BY NamesApart DEF VersionType
<1> HIDE DEF r1
<1>2. r2 \in VersionType /\ r2.claim = c
  BY <1>1 DEF VersionType
<1> HIDE DEF r2
<1>3. r3 \in VersionType /\ r3.claim = c
  BY <1>2 DEF VersionType
<1> HIDE DEF r3
<1>4. r4 \in VersionType /\ r4.claim = c
  BY <1>3 DEF VersionType
<1> HIDE DEF r4
<1>5. r5 \in VersionType /\ r5.claim = c
  BY <1>4 DEF VersionType
<1> QED BY ONLY <1>5 DEF r1, r2, r3, r4, r5, NewRow

LEMMA FactWritten ==
  ASSUME ShapeInv, NEW f \in Facts, NEW r \in FactType, fact' = [fact EXCEPT ![f] = r]
  PROVE  /\ fact' \in [Facts -> FactType] /\ fact'[f] = r
         /\ \A g \in Facts \ {f} : fact'[g] = fact[g]
  BY DEF ShapeInv, TypeOK

LEMMA FactKeepsShape ==
  ASSUME ShapeInv, NEW f \in Facts, FactNext(f), UNCHANGED setting
  PROVE  ShapeInv'
<1> USE FactFacts, NamesApart
<1>1. CASE FindCandidates(f)
  <2>1. fact[f].step = "idle"
    BY <1>1 DEF FindCandidates
  <2>2. fact' \in [Facts -> FactType] /\ \A g \in Facts \ {f} : fact'[g] = fact[g]
    <3>1. ASSUME NEW plan \in {"ADD", "CLARIFY"},
                 fact' = [fact EXCEPT ![f] = [NoFact EXCEPT !.step = "store", !.plan = plan]]
          PROVE  fact' \in [Facts -> FactType] /\ \A g \in Facts \ {f} : fact'[g] = fact[g]
      <4>1. [NoFact EXCEPT !.step = "store", !.plan = plan] \in FactType
        BY DEF FactType, NoFact, Plans, FactSteps, FactEnds
      <4> QED BY <3>1, <4>1, FactWritten
    <3>2. ASSUME NEW plan \in {"UPDATE", "DELETE", "NOOP", "SUPERSEDE"}, NEW m \in Candidates,
                 fact' = [fact EXCEPT ![f] = [NoFact EXCEPT !.step = "target", !.plan = plan, !.target = m]]
          PROVE  fact' \in [Facts -> FactType] /\ \A g \in Facts \ {f} : fact'[g] = fact[g]
      <4>1. [NoFact EXCEPT !.step = "target", !.plan = plan, !.target = m] \in FactType
        BY DEF FactType, NoFact, Plans, FactSteps, FactEnds, Candidates
      <4> QED BY <3>2, <4>1, FactWritten
    <3> QED BY <1>1, <3>1, <3>2 DEF FindCandidates
  <2>3. FactOK(f)'
    <3>1. ASSUME NEW plan \in {"ADD", "CLARIFY"},
                 fact' = [fact EXCEPT ![f] = [NoFact EXCEPT !.step = "store", !.plan = plan]]
          PROVE  FactOK(f)'
      BY <3>1 DEF ShapeInv, TypeOK, NoFact, FactOK, Mutating
    <3>2. ASSUME NEW plan \in {"UPDATE", "DELETE", "NOOP", "SUPERSEDE"}, NEW m \in Candidates,
                 fact' = [fact EXCEPT ![f] = [NoFact EXCEPT !.step = "target", !.plan = plan, !.target = m]]
          PROVE  FactOK(f)'
      BY <3>2 DEF ShapeInv, TypeOK, NoFact, FactOK, Mutating, Candidates
    <3> QED BY <1>1, <3>1, <3>2 DEF FindCandidates
  <2> QED BY <1>1, <2>2, <2>3, Unwritten, OnlyMoves DEF FindCandidates, FactNext
<1>2. CASE ReadTarget(f)
  <2>1. fact[f].step = "target" /\ fact[f].plan \in Mutating /\ content[fact[f].target] \in Memories
    BY <1>2 DEF ReadTarget, FactOK, ShapeInv, TypeOK
  <2>2. fact' \in [Facts -> FactType] /\ \A g \in Facts \ {f} : fact'[g] = fact[g]
    BY <1>2, <2>1 DEF ReadTarget, ShapeInv, TypeOK, FactType, FactSteps, FactEnds
  <2>3. /\ fact'[f].step = "lookup" /\ fact'[f].text # None /\ fact'[f].plan = fact[f].plan
        /\ fact'[f].target = fact[f].target /\ fact'[f].old = fact[f].old /\ UNCHANGED version
    BY <1>2, <2>1 DEF ReadTarget, ShapeInv, TypeOK, FactType
  <2>4. FactOK(f)'
    BY <2>1, <2>3 DEF FactOK, Mutating, Present
  <2> QED BY <1>2, <2>2, <2>4, Unwritten, OnlyMoves DEF ReadTarget
<1>3. CASE LookupVersion(f)
  <2>1. fact[f].step = "lookup" /\ fact[f].plan \in Mutating /\ fact[f].target \in Memories
    BY <1>3 DEF LookupVersion, FactOK
  <2>2. ASSUME NEW v \in VersionsOf(fact[f].target),
               fact' = [fact EXCEPT ![f].old = v, ![f].step = MutationStep(fact[f].plan)]
        PROVE  /\ fact' \in [Facts -> FactType] /\ \A g \in Facts \ {f} : fact'[g] = fact[g]
               /\ FactOK(f)'
    <3>1. v \in Versions /\ Present(v) /\ MutationStep(fact[f].plan) \in {"update", "expire", "softDelete", "done"}
      BY <2>1 DEF VersionsOf, MutationStep, Mutating
    <3>2. fact' \in [Facts -> FactType] /\ \A g \in Facts \ {f} : fact'[g] = fact[g]
      <4> DEFINE r == [fact[f] EXCEPT !.old = v, !.step = MutationStep(fact[f].plan)]
      <4>1. r \in FactType
        <5>1. fact[f] \in FactType /\ MutationStep(fact[f].plan) \in FactSteps
          BY <3>1 DEF FactSteps, FactEnds
        <5> QED BY <3>1, <5>1 DEF FactType
      <4>2. fact' = [fact EXCEPT ![f] = r]
        BY <2>2 DEF ShapeInv, TypeOK
      <4> HIDE DEF r
      <4> QED BY <4>1, <4>2, FactWritten
    <3>3. /\ fact'[f].old = v /\ fact'[f].step = MutationStep(fact[f].plan)
          /\ fact'[f].plan = fact[f].plan /\ fact'[f].target = fact[f].target /\ Present(v)'
      <4>1. fact \in [Facts -> FactType] /\ UNCHANGED version
        BY <1>3 DEF ShapeInv, TypeOK, LookupVersion
      <4>2. fact'[f] = [fact[f] EXCEPT !.old = v, !.step = MutationStep(fact[f].plan)]
        BY <2>2, <4>1
      <4> QED BY <3>1, <4>1, <4>2 DEF FactType, Present
    <3>4. FactOK(f)'
      BY <2>1, <3>1, <3>3 DEF FactOK, MutationStep, Mutating, Present
    <3> QED BY <3>2, <3>4
  <2>3. ASSUME Goto(f, "claim")
        PROVE  /\ fact' \in [Facts -> FactType] /\ \A g \in Facts \ {f} : fact'[g] = fact[g]
               /\ FactOK(f)'
    <3>1. "claim" \in FactSteps
      BY DEF FactSteps
    <3>2. UNCHANGED version
      BY <1>3 DEF LookupVersion
    <3> QED BY <2>1, <2>3, <3>1, <3>2, MovesOn DEF FactOK, Present
  <2> QED BY <1>3, <2>2, <2>3, Unwritten, OnlyMoves DEF LookupVersion
<1>4. CASE CreateClaim(f)
  <2>1. fact[f].step = "claim" /\ Goto(f, "first") /\ "first" \in FactSteps /\ UNCHANGED version
    BY <1>4 DEF CreateClaim, FactSteps
  <2>2. claim' \in [Memories -> ClaimType]
    BY <1>4 DEF CreateClaim, ShapeInv, TypeOK, ClaimType
  <2>3. FactOK(f)'
    BY <2>1, MovesOn DEF FactOK, Present
  <2> QED BY <1>4, <2>1, <2>2, <2>3, MovesOn, Unwritten, OnlyMoves DEF CreateClaim
<1>5. CASE CreateFirstVersion(f)
  <2> DEFINE m == IF fact[f].plan = "ADD" THEN f ELSE fact[f].target
             w == IF fact[f].plan = "ADD" THEN f ELSE fact[f].text
             k == IF fact[f].plan = "ADD" THEN "add" ELSE "none"
             row == NewRow(f, m, w, k)
  <2>1. /\ fact[f].step = "first" /\ fact[f].plan \in Mutating \cup {"ADD"}
        /\ fact[f].plan \in Mutating => fact[f].target \in Memories /\ fact[f].text \in Memories
        /\ InsertVersion(f, <<f, "first">>, row, "point")
    BY <1>5 DEF CreateFirstVersion, FactOK, FactType, NewRow
  <2>2. row \in VersionType /\ row.claim # None
    <3>1. m \in Memories /\ w \in Memories /\ k \in {"add", "none"} /\ f \in Memories /\ f # None
      BY <2>1
    <3> HIDE DEF m, w, k
    <3>2. row \in VersionType /\ row.claim = f
      BY <3>1, FirstRow
    <3> QED BY <3>1, <3>2
  <2> HIDE DEF row
  <2>3. "point" \in FactSteps \ FactEnds
    BY DEF FactSteps, FactEnds
  <2>4. PICK s \in {"point", "done", "failed"} :
          /\ Goto(f, s)
          /\ s = "point" => version'[<<f, "first">>].claim # None
    <3>1. Inserted(f, <<f, "first">>, row, "point")
      BY <2>1, <2>2, <2>3, Insertion
    <3> QED BY <2>2, <3>1 DEF Inserted
  <2>5. version' \in [Versions -> VersionType] /\ PresentStays
    BY <2>1, <2>2, <2>3, Insertion
  <2>6. s \in FactSteps
    BY DEF FactSteps, FactEnds
  <2>7. fact[f].old # None => version'[fact[f].old].claim # None
    BY <2>5 DEF PresentStays, FactOK, Present
  <2>8. FactOK(f)'
    BY <2>1, <2>4, <2>6, <2>7, MovesOn DEF FactOK, Present
  <2> QED BY <1>5, <2>4, <2>5, <2>6, <2>8, MovesOn, Unwritten, FactShape DEF CreateFirstVersion
<1>6. CASE PointFirst(f)
  <2>1. /\ fact[f].step = "point" /\ fact[f].plan \in Mutating \cup {"ADD"} /\ UNCHANGED version
        /\ Present(<<f, "first">>)
    BY <1>6 DEF PointFirst, FactOK
  <2>2. claim' \in [Memories -> ClaimType]
    BY <1>6, ClaimPointed DEF PointFirst
  <2>3. ASSUME Goto(f, "done")
        PROVE  /\ fact' \in [Facts -> FactType] /\ \A g \in Facts \ {f} : fact'[g] = fact[g]
               /\ FactOK(f)'
    <3>1. "done" \in FactSteps
      BY DEF FactSteps, FactEnds
    <3> QED BY <2>1, <2>3, <3>1, MovesOn DEF FactOK, Present
  <2>4. ASSUME fact[f].plan # "ADD",
               fact' = [fact EXCEPT ![f].old = <<f, "first">>, ![f].step = MutationStep(fact[f].plan)]
        PROVE  /\ fact' \in [Facts -> FactType] /\ \A g \in Facts \ {f} : fact'[g] = fact[g]
               /\ FactOK(f)'
    <3>1. MutationStep(fact[f].plan) \in {"update", "expire", "softDelete", "done"}
      BY <2>1, <2>4 DEF MutationStep, Mutating
    <3>2. fact' \in [Facts -> FactType] /\ \A g \in Facts \ {f} : fact'[g] = fact[g]
      <4> DEFINE r == [fact[f] EXCEPT !.old = <<f, "first">>, !.step = MutationStep(fact[f].plan)]
      <4>1. r \in FactType
        <5>1. fact[f] \in FactType /\ MutationStep(fact[f].plan) \in FactSteps
          BY <3>1 DEF FactSteps, FactEnds
        <5> QED BY <3>1, <5>1 DEF FactType
      <4>2. fact' = [fact EXCEPT ![f] = r]
        BY <2>4 DEF ShapeInv, TypeOK
      <4> HIDE DEF r
      <4> QED BY <4>1, <4>2, FactWritten
    <3>3. /\ fact'[f].old = <<f, "first">> /\ fact'[f].step = MutationStep(fact[f].plan)
          /\ fact'[f].plan = fact[f].plan /\ fact'[f].target = fact[f].target
          /\ Present(<<f, "first">>)'
      <4>1. fact \in [Facts -> FactType]
        BY DEF ShapeInv, TypeOK
      <4>2. fact'[f] = [fact[f] EXCEPT !.old = <<f, "first">>, !.step = MutationStep(fact[f].plan)]
        BY <2>4, <4>1
      <4>3. Present(<<f, "first">>)'
        BY <2>1 DEF Present
      <4> QED BY <3>1, <4>1, <4>2, <4>3 DEF FactType
    <3>4. FactOK(f)'
      BY <2>1, <2>4, <3>1, <3>3 DEF FactOK, MutationStep, Mutating, Present
    <3> QED BY <3>2, <3>4
  <2> QED BY <1>6, <2>2, <2>3, <2>4, Unwritten, OnlyMoves DEF PointFirst
<1>7. CASE StoreMemory(f)
  <2>1. fact[f].step = "store" /\ fact[f].plan \in {"ADD", "CLARIFY", "SUPERSEDE"} /\ UNCHANGED version
    BY <1>7 DEF StoreMemory, FactOK
  <2>2. memory' \in [Memories -> MemoryStates]
    BY <1>7 DEF StoreMemory, ShapeInv, TypeOK, MemoryStates
  <2>3. PICK s \in {"claim", "next", "done"} :
          /\ Goto(f, s)
          /\ s = "claim" => fact[f].plan = "ADD"
          /\ s = "next" => fact[f].plan = "SUPERSEDE"
          /\ s \in FactSteps
    <3>1. CASE fact[f].plan = "ADD"
      BY <1>7, <3>1 DEF StoreMemory, FactSteps, FactEnds
    <3>2. CASE fact[f].plan = "SUPERSEDE"
      BY <1>7, <3>2 DEF StoreMemory, FactSteps, FactEnds
    <3>3. CASE fact[f].plan = "CLARIFY"
      BY <1>7, <3>3 DEF StoreMemory, FactSteps, FactEnds
    <3> QED BY <2>1, <3>1, <3>2, <3>3
  <2>4. FactOK(f)'
    BY <2>1, <2>3, MovesOn DEF FactOK, Present, Mutating
  <2> QED BY <1>7, <2>2, <2>3, <2>4, MovesOn, Unwritten, OnlyMoves DEF StoreMemory
<1>8. CASE UpdateContent(f)
  <2>1. fact[f].step = "update" /\ fact[f].plan = "UPDATE" /\ Goto(f, "close") /\ UNCHANGED version
    BY <1>8 DEF UpdateContent, FactOK
  <2>2. content' \in [Memories -> Memories]
    BY <1>8 DEF UpdateContent, ShapeInv, TypeOK
  <2>3. "close" \in FactSteps
    BY DEF FactSteps
  <2>4. FactOK(f)'
    BY <2>1, <2>3, MovesOn DEF FactOK, Present, Mutating
  <2> QED BY <1>8, <2>1, <2>2, <2>3, <2>4, MovesOn, Unwritten, OnlyMoves DEF UpdateContent
<1>9. CASE CloseOldVersion(f)
  <2> DEFINE v == fact[f].old
             row == [version[fact[f].old] EXCEPT !.open = FALSE, !.successor = None]
  <2>1. /\ fact[f].step = "close" /\ fact[f].plan = "UPDATE" /\ Goto(f, "release")
        /\ v \in Versions /\ version[v] \in VersionType
    BY <1>9 DEF CloseOldVersion, FactOK
  <2>2. version' = [version EXCEPT ![v] = row]
    BY <1>9 DEF CloseOldVersion, ShapeInv, TypeOK
  <2>3. row \in VersionType /\ row.claim = version[v].claim
    BY <2>1 DEF VersionType
  <2>4. version' \in [Versions -> VersionType] /\ PresentStays
    <3> HIDE DEF row, v
    <3> QED BY <2>1, <2>2, <2>3, RowChanged
  <2>5. "release" \in FactSteps
    BY DEF FactSteps
  <2>6. version'[fact[f].old].claim # None
    BY <2>1, <2>4 DEF PresentStays, FactOK, Present
  <2>7. FactOK(f)'
    BY <2>1, <2>5, <2>6, MovesOn DEF FactOK, Present, Mutating
  <2> QED BY <1>9, <2>1, <2>4, <2>5, <2>7, MovesOn, Unwritten, FactShape DEF CloseOldVersion
<1>10. CASE ReleaseMemory(f)
  <2> DEFINE v == fact[f].old
             row == [version[fact[f].old] EXCEPT !.memory = None]
  <2>1. /\ fact[f].step = "release" /\ fact[f].plan = "UPDATE" /\ Goto(f, "next")
        /\ v \in Versions /\ version[v] \in VersionType
    BY <1>10 DEF ReleaseMemory, FactOK
  <2>2. version' = [version EXCEPT ![v] = row]
    BY <1>10 DEF ReleaseMemory, ShapeInv, TypeOK
  <2>3. row \in VersionType /\ row.claim = version[v].claim
    BY <2>1 DEF VersionType
  <2>4. version' \in [Versions -> VersionType] /\ PresentStays
    <3> HIDE DEF row, v
    <3> QED BY <2>1, <2>2, <2>3, RowChanged
  <2>5. "next" \in FactSteps
    BY DEF FactSteps
  <2>6. version'[fact[f].old].claim # None
    BY <2>1, <2>4 DEF PresentStays, FactOK, Present
  <2>7. FactOK(f)'
    BY <2>1, <2>5, <2>6, MovesOn DEF FactOK, Present, Mutating
  <2> QED BY <1>10, <2>1, <2>4, <2>5, <2>7, MovesOn, Unwritten, FactShape DEF ReleaseMemory
<1>11. CASE ExpireTarget(f)
  <2>1. fact[f].step = "expire" /\ fact[f].plan = "SUPERSEDE" /\ Goto(f, "store") /\ UNCHANGED version
    BY <1>11 DEF ExpireTarget, FactOK
  <2>2. memory' \in [Memories -> MemoryStates]
    BY <1>11, <2>1 DEF ExpireTarget, ShapeInv, TypeOK, MemoryStates
  <2>3. "store" \in FactSteps
    BY DEF FactSteps
  <2>4. FactOK(f)'
    BY <2>1, <2>3, MovesOn DEF FactOK, Present, Mutating
  <2> QED BY <1>11, <2>1, <2>2, <2>3, <2>4, MovesOn, Unwritten, OnlyMoves DEF ExpireTarget
<1>12. CASE SoftDeleteTarget(f)
  <2>1. fact[f].step = "softDelete" /\ fact[f].plan = "DELETE" /\ Goto(f, "next") /\ UNCHANGED version
    BY <1>12 DEF SoftDeleteTarget, FactOK
  <2>2. memory' \in [Memories -> MemoryStates]
    BY <1>12, <2>1 DEF SoftDeleteTarget, ShapeInv, TypeOK, MemoryStates
  <2>3. "next" \in FactSteps
    BY DEF FactSteps
  <2>4. FactOK(f)'
    BY <2>1, <2>3, MovesOn DEF FactOK, Present, Mutating
  <2> QED BY <1>12, <2>1, <2>2, <2>3, <2>4, MovesOn, Unwritten, OnlyMoves DEF SoftDeleteTarget
<1>13. CASE CreateNextVersion(f)
  <2> DEFINE row == [NoVersion EXCEPT !.claim = OldClaim(f), !.content = f, !.open = TRUE,
                       !.memory = CASE fact[f].plan = "UPDATE" -> fact[f].target
                                    [] fact[f].plan = "SUPERSEDE" -> f [] OTHER -> None,
                       !.kind = CASE fact[f].plan = "UPDATE" -> "update"
                                  [] fact[f].plan = "SUPERSEDE" -> "supersede" [] OTHER -> "delete"]
  <2>1. /\ fact[f].step = "next" /\ fact[f].plan \in {"UPDATE", "DELETE", "SUPERSEDE"}
        /\ fact[f].old # None /\ fact[f].target \in Memories /\ OldClaim(f) \in Memories
        /\ InsertVersion(f, <<f, "next">>, row, "link")
    BY <1>13 DEF CreateNextVersion, FactOK, Mutating
  <2>2. row \in VersionType /\ row.claim # None
    BY <2>1 DEF VersionType, NoVersion
  <2> HIDE DEF row
  <2>3. "link" \in FactSteps \ FactEnds
    BY DEF FactSteps, FactEnds
  <2>4. PICK s \in {"link", "done", "failed"} : Goto(f, s)
    <3>1. Inserted(f, <<f, "next">>, row, "link")
      BY <2>1, <2>2, <2>3, Insertion
    <3> QED BY <3>1 DEF Inserted
  <2>5. version' \in [Versions -> VersionType] /\ PresentStays
    BY <2>1, <2>2, <2>3, Insertion
  <2>6. s \in FactSteps
    BY DEF FactSteps, FactEnds
  <2>7. version'[fact[f].old].claim # None
    BY <2>1, <2>5 DEF PresentStays, FactOK, Present
  <2>8. FactOK(f)'
    BY <2>1, <2>4, <2>6, <2>7, MovesOn DEF FactOK, Present
  <2> QED BY <1>13, <2>4, <2>5, <2>6, <2>8, MovesOn, Unwritten, FactShape DEF CreateNextVersion
<1>14. CASE LinkOldVersion(f)
  <2> DEFINE v == fact[f].old
             row == [version[v] EXCEPT !.successor = <<f, "next">>,
                                       !.open = version[v].open /\ fact[f].plan = "UPDATE"]
  <2>1. /\ fact[f].step = "link" /\ fact[f].plan \in {"UPDATE", "DELETE", "SUPERSEDE"}
        /\ v # None /\ v \in Versions /\ version[v] \in VersionType
    BY <1>14 DEF LinkOldVersion, FactOK
  <2>2. version' = [version EXCEPT ![v] = row]
    BY <1>14 DEF LinkOldVersion, ShapeInv, TypeOK
  <2>3. row \in VersionType /\ row.claim = version[v].claim
    <3>1. ASSUME NEW b \in BOOLEAN
          PROVE  /\ [version[v] EXCEPT !.successor = <<f, "next">>, !.open = b] \in VersionType
                 /\ [version[v] EXCEPT !.successor = <<f, "next">>, !.open = b].claim = version[v].claim
      BY <2>1 DEF VersionType
    <3>2. (version[v].open /\ fact[f].plan = "UPDATE") \in BOOLEAN
      OBVIOUS
    <3> QED BY ONLY <3>1, <3>2
  <2>4. version' \in [Versions -> VersionType] /\ PresentStays
    <3> HIDE DEF row, v
    <3> QED BY <2>1, <2>2, <2>3, RowChanged
  <2>5. PICK s \in {"invalidate", "repoint"} :
          /\ Goto(f, s) /\ s \in FactSteps
          /\ s = "invalidate" <=> fact[f].plan = "DELETE"
    BY <1>14 DEF LinkOldVersion, FactSteps
  <2>6. version'[fact[f].old].claim # None
    BY <2>1, <2>4 DEF PresentStays, FactOK, Present
  <2>7. FactOK(f)'
    BY <2>1, <2>5, <2>6, MovesOn DEF FactOK, Present, Mutating
  <2> QED BY <1>14, <2>4, <2>5, <2>7, MovesOn, Unwritten, FactShape DEF LinkOldVersion
<1>15. CASE Repoint(f)
  <2>1. /\ fact[f].step = "repoint" /\ fact[f].old # None /\ Goto(f, "done") /\ UNCHANGED version
        /\ OldClaim(f) \in Memories
    BY <1>15 DEF Repoint, FactOK
  <2>2. claim' \in [Memories -> ClaimType]
    BY <1>15, <2>1, ClaimPointed DEF Repoint
  <2>3. "done" \in FactSteps
    BY DEF FactSteps, FactEnds
  <2>4. FactOK(f)'
    BY <2>1, <2>3, MovesOn DEF FactOK, Present
  <2> QED BY <1>15, <2>1, <2>2, <2>3, <2>4, MovesOn, Unwritten, OnlyMoves DEF Repoint
<1>16. CASE InvalidateOldClaim(f)
  <2>1. /\ fact[f].step = "invalidate" /\ fact[f].old # None /\ Goto(f, "done") /\ UNCHANGED version
        /\ OldClaim(f) \in Memories
    BY <1>16 DEF InvalidateOldClaim, FactOK
  <2>2. claim' \in [Memories -> ClaimType]
    BY <1>16, <2>1 DEF InvalidateOldClaim, ShapeInv, TypeOK, ClaimType
  <2>3. "done" \in FactSteps
    BY DEF FactSteps, FactEnds
  <2>4. FactOK(f)'
    BY <2>1, <2>3, MovesOn DEF FactOK, Present
  <2> QED BY <1>16, <2>1, <2>2, <2>3, <2>4, MovesOn, Unwritten, OnlyMoves DEF InvalidateOldClaim
<1>17. CASE AbortFact(f)
  <2>1. Goto(f, "failed") /\ "failed" \in FactSteps /\ UNCHANGED version
    BY <1>17 DEF AbortFact, FactSteps, FactEnds
  <2>2. FactOK(f)'
    BY <2>1, MovesOn DEF FactOK, Present
  <2> QED BY <1>17, <2>1, <2>2, MovesOn, Unwritten, OnlyMoves DEF AbortFact
<1> QED BY <1>1, <1>2, <1>3, <1>4, <1>5, <1>6, <1>7, <1>8, <1>9, <1>10, <1>11, <1>12, <1>13,
         <1>14, <1>15, <1>16, <1>17 DEF FactNext

LEMMA DeleteWritten ==
  ASSUME ShapeInv, NEW d \in Deletes, NEW r \in DelType, del' = [del EXCEPT ![d] = r]
  PROVE  /\ del' \in [Deletes -> DelType] /\ del'[d] = r
         /\ \A e \in Deletes \ {d} : del'[e] = del[e]
  BY DEF ShapeInv, TypeOK

\* A deletion that only moves on.
LEMMA DeleteMovesOn ==
  ASSUME ShapeInv, NEW d \in Deletes, NEW s \in DelSteps, del' = [del EXCEPT ![d].step = s]
  PROVE  /\ del' \in [Deletes -> DelType]
         /\ del'[d].step = s /\ del'[d].memory = del[d].memory /\ del'[d].old = del[d].old
         /\ \A e \in Deletes \ {d} : del'[e] = del[e]
<1>1. del \in [Deletes -> DelType]
  BY DEF ShapeInv, TypeOK
<1> QED BY <1>1 DEF DelType

LEMMA DeleteOnlyMoves ==
  ASSUME ShapeInv, NEW d \in Deletes, UNCHANGED <<version, fact, setting>>,
         memory' \in [Memories -> MemoryStates], content' \in [Memories -> Memories],
         claim' \in [Memories -> ClaimType],
         del' \in [Deletes -> DelType], DelOK(d)',
         \A e \in Deletes \ {d} : del'[e] = del[e]
  PROVE  ShapeInv'
<1>1. version' \in [Versions -> VersionType] /\ PresentStays
  BY Unwritten
<1> QED BY <1>1, DeleteShape

LEMMA DeleteKeepsShape ==
  ASSUME ShapeInv, NEW d \in Deletes, DeleteNext(d), UNCHANGED setting
  PROVE  ShapeInv'
<1> USE DeleteFacts, NamesApart
<1>1. CASE ReadDeleted(d)
  <2>1. PICK m \in Memories : del' = [del EXCEPT ![d] = [step |-> "lookup", memory |-> m, old |-> None]]
    BY <1>1 DEF ReadDeleted
  <2>2. [step |-> "lookup", memory |-> m, old |-> None] \in DelType
    BY DEF DelType, DelSteps, FactEnds
  <2>3. /\ del' \in [Deletes -> DelType] /\ \A e \in Deletes \ {d} : del'[e] = del[e]
        /\ del'[d] = [step |-> "lookup", memory |-> m, old |-> None]
    BY <2>1, <2>2, DeleteWritten
  <2>4. DelOK(d)'
    BY <2>3 DEF DelOK
  <2> QED BY <1>1, <2>3, <2>4, Unwritten, DeleteOnlyMoves DEF ReadDeleted
<1>2. CASE LookupDeleted(d)
  <2>1. del[d].step = "lookup" /\ del[d].memory # None /\ UNCHANGED version
    BY <1>2 DEF LookupDeleted, DelOK, DelSteps, FactEnds
  <2>2. ASSUME NEW v \in VersionsOf(del[d].memory),
               del' = [del EXCEPT ![d].old = v, ![d].step = "softDelete"]
        PROVE  /\ del' \in [Deletes -> DelType] /\ \A e \in Deletes \ {d} : del'[e] = del[e]
               /\ DelOK(d)'
    <3> DEFINE r == [del[d] EXCEPT !.old = v, !.step = "softDelete"]
    <3>1. v \in Versions /\ Present(v)
      BY DEF VersionsOf
    <3>2. r \in DelType /\ r.step = "softDelete" /\ r.memory = del[d].memory /\ r.old = v
      BY <3>1 DEF DelType, DelSteps, FactEnds
    <3>3. del' = [del EXCEPT ![d] = r]
      BY <2>2 DEF ShapeInv, TypeOK
    <3> HIDE DEF r
    <3>4. /\ del' \in [Deletes -> DelType] /\ del'[d] = r
          /\ \A e \in Deletes \ {d} : del'[e] = del[e]
      BY <3>2, <3>3, DeleteWritten
    <3> QED BY <2>1, <3>1, <3>2, <3>4 DEF DelOK, Present
  <2>3. ASSUME del' = [del EXCEPT ![d].step = "softDelete"]
        PROVE  /\ del' \in [Deletes -> DelType] /\ \A e \in Deletes \ {d} : del'[e] = del[e]
               /\ DelOK(d)'
    <3>1. "softDelete" \in DelSteps
      BY DEF DelSteps
    <3>2. /\ del' \in [Deletes -> DelType] /\ \A e \in Deletes \ {d} : del'[e] = del[e]
          /\ del'[d].step = "softDelete" /\ del'[d].memory = del[d].memory /\ del'[d].old = del[d].old
      BY <2>3, <3>1, DeleteMovesOn
    <3>3. DelOK(d)'
      BY <2>1, <3>2 DEF DelOK, Present
    <3> QED BY <3>2, <3>3
  <2> QED BY <1>2, <2>2, <2>3, Unwritten, DeleteOnlyMoves DEF LookupDeleted
<1>3. CASE SoftDelete(d)
  <2>1. del[d].step = "softDelete" /\ del[d].memory # None /\ UNCHANGED version
    BY <1>3 DEF SoftDelete, DelOK, DelSteps, FactEnds
  <2>2. memory' \in [Memories -> MemoryStates]
    BY <1>3 DEF SoftDelete, ShapeInv, TypeOK, MemoryStates
  <2>3. PICK s \in {"done", "close"} : /\ del' = [del EXCEPT ![d].step = s]
                                       /\ s = "close" => del[d].old # None
    <3>1. CASE del[d].old = None
      BY <1>3, <3>1 DEF SoftDelete
    <3>2. CASE del[d].old # None
      BY <1>3, <3>2 DEF SoftDelete
    <3> QED BY <3>1, <3>2
  <2>4. s \in DelSteps
    BY DEF DelSteps, FactEnds
  <2>5. DelOK(d)'
    BY <2>1, <2>3, <2>4, DeleteMovesOn DEF DelOK, Present
  <2> QED BY <1>3, <2>2, <2>3, <2>4, <2>5, DeleteMovesOn, Unwritten, DeleteOnlyMoves DEF
           SoftDelete
<1>4. CASE CloseDeleted(d)
  <2> DEFINE v == del[d].old
             row == [version[v] EXCEPT !.open = FALSE, !.successor = None]
  <2>1. /\ del[d].step = "close" /\ del[d].memory # None /\ v # None
        /\ v \in Versions /\ version[v] \in VersionType
        /\ del' = [del EXCEPT ![d].step = "invalidate"]
    BY <1>4 DEF CloseDeleted, DelOK, DelSteps, FactEnds
  <2>2. version' = [version EXCEPT ![v] = row]
    BY <1>4 DEF CloseDeleted, ShapeInv, TypeOK
  <2>3. row \in VersionType /\ row.claim = version[v].claim
    BY <2>1 DEF VersionType
  <2>4. version' \in [Versions -> VersionType] /\ PresentStays
    <3> HIDE DEF row, v
    <3> QED BY <2>1, <2>2, <2>3, RowChanged
  <2>5. "invalidate" \in DelSteps
    BY DEF DelSteps
  <2>6. version'[del[d].old].claim # None
    BY <2>1, <2>4 DEF PresentStays, DelOK, Present
  <2>7. DelOK(d)'
    BY <2>1, <2>5, <2>6, DeleteMovesOn DEF DelOK, Present
  <2> QED BY <1>4, <2>1, <2>4, <2>5, <2>7, DeleteMovesOn, Unwritten, DeleteShape DEF CloseDeleted
<1>5. CASE InvalidateDeleted(d)
  <2>1. /\ del[d].step = "invalidate" /\ del[d].old # None /\ UNCHANGED version
        /\ version[del[d].old].claim \in Memories /\ del' = [del EXCEPT ![d].step = "done"]
    BY <1>5 DEF InvalidateDeleted, DelOK
  <2>2. claim' \in [Memories -> ClaimType]
    BY <1>5, <2>1 DEF InvalidateDeleted, ShapeInv, TypeOK, ClaimType
  <2>3. "done" \in DelSteps
    BY DEF DelSteps, FactEnds
  <2>4. DelOK(d)'
    BY <2>1, <2>3, DeleteMovesOn DEF DelOK, Present, FactEnds
  <2> QED BY <1>5, <2>1, <2>2, <2>3, <2>4, DeleteMovesOn, Unwritten, DeleteOnlyMoves DEF
           InvalidateDeleted
<1>6. CASE AbortDelete(d)
  <2>1. del' = [del EXCEPT ![d].step = "failed"] /\ "failed" \in DelSteps /\ UNCHANGED version
    BY <1>6 DEF AbortDelete, DelSteps, FactEnds
  <2>2. DelOK(d)'
    BY <2>1, DeleteMovesOn DEF DelOK, Present, FactEnds
  <2> QED BY <1>6, <2>1, <2>2, DeleteMovesOn, Unwritten, DeleteOnlyMoves DEF AbortDelete
<1> QED BY <1>1, <1>2, <1>3, <1>4, <1>5, <1>6 DEF DeleteNext

LEMMA ShapeStep == ShapeInv /\ [Next]_vars => ShapeInv'
<1> SUFFICES ASSUME ShapeInv, [Next]_vars PROVE ShapeInv'
  OBVIOUS
<1>1. ASSUME NEW f \in Facts, FactNext(f), UNCHANGED setting PROVE ShapeInv'
  BY <1>1, FactKeepsShape
<1>2. ASSUME NEW d \in Deletes, DeleteNext(d), UNCHANGED setting PROVE ShapeInv'
  BY <1>2, DeleteKeepsShape
<1>3. ASSUME UNCHANGED <<content, claim, version, fact, del, setting>>,
             memory' \in [Memories -> MemoryStates]
      PROVE  ShapeInv'
  BY <1>3 DEF ShapeInv, TypeOK, FactOK, DelOK, Present
<1>4. ASSUME NEW m \in Memories, Archive(m), UNCHANGED setting PROVE ShapeInv'
  <2>1. memory' \in [Memories -> MemoryStates]
    BY <1>4 DEF Archive, ShapeInv, TypeOK, MemoryStates
  <2> QED BY <1>3, <1>4, <2>1 DEF Archive
<1>5. CASE UNCHANGED vars
  BY <1>3, <1>5, Unwritten DEF vars
<1> QED BY <1>1, <1>2, <1>4, <1>5 DEF Next

LEMMA ShapeHolds == Spec => []ShapeInv
  BY ShapeInitial, ShapeStep, PTL DEF Spec

\* In every reachable state each table and each handler holds what its columns and
\* its code allow: a claim points at a version, a handler past its lookup holds the
\* version it will close or replace, however many handlers interleave or are cut off.
THEOREM TypeCorrect == Spec => []TypeOK
<1>1. ShapeInv => TypeOK
  BY DEF ShapeInv
<1> QED BY <1>1, ShapeHolds, PTL

--------------------------------------------------------------------------------
(* What one step does to the handlers, the memories and the versions: the rest of  *)
(* the proofs reads the actions only through this.                                 *)

Kind(plan) == CASE plan = "UPDATE" -> "update" [] plan = "SUPERSEDE" -> "supersede"
                [] OTHER -> "delete"

\* Nothing rewrites the claim, the words and the kind of a version, and a link is only
\* taken away.
SameWords(v) ==
    /\ version'[v].claim = version[v].claim /\ version'[v].kind = version[v].kind
    /\ version'[v].content = version[v].content
SameLink(v) == version'[v].successor \in {version[v].successor, None}

Onward(f) ==
    /\ \A g \in Facts \ {f} : fact'[g] = fact[g]
    /\ fact[f].step \notin {"done", "failed"} /\ fact'[f].step # "idle"
    /\ fact[f].step = "idle" =>
         HasRoom /\ (fact'[f].target # None => fact'[f].target \in Candidates)
    /\ fact[f].step # "idle" => fact'[f].plan = fact[f].plan /\ fact'[f].target = fact[f].target
    /\ fact[f].step \notin {"idle", "lookup", "point"} => fact'[f].old = fact[f].old
    /\ fact[f].step \in {"link", "repoint", "invalidate"}
         => fact'[f].step \in {"repoint", "invalidate", "done", "failed"}
    /\ fact'[f].step \in {"repoint", "invalidate"} => fact[f].step = "link"
    /\ fact'[f].step = "link" => fact[f].step = "next"
    /\ fact'[f].step = "point" => fact[f].step = "first"
    /\ fact'[f].step = "done" =>
         /\ fact'[f].plan \in {"UPDATE", "SUPERSEDE", "DELETE"} => fact[f].step \in {"repoint", "invalidate"}
         /\ fact'[f].plan = "ADD" => fact[f].step = "point"

\* Memories: none comes back to "absent"; only an expiry expires.
Stored(f) ==
    /\ \A m \in Memories :
         \/ memory'[m] = memory[m]
         \/ m = f /\ fact[f].step = "store" /\ memory'[m] \in {"active", "needs_clarification"}
         \/ m = fact[f].target /\ fact[f].step # "idle" /\ memory'[m] = "deleted"
         \/ /\ m = fact[f].target /\ memory[m] # "deleted" /\ memory'[m] = "expired"
            /\ fact[f].step # "idle" /\ fact'[f].step = "store" /\ fact'[f].plan = "SUPERSEDE"
            /\ fact'[f].target = m
    /\ fact[f].step = "store" => fact'[f].step = "failed" \/ memory'[f] # "absent"

\* Versions: a handler writes its first one at "first" and its next one at "next".
Recorded(f) ==
    /\ \A v \in Versions :
         \/ SameWords(v)
         \/ v = <<f, "first">> /\ fact[f].step = "first"
         \/ v = <<f, "next">> /\ fact[f].step = "next" /\ fact'[f].step = "link"
    /\ \A v \in Versions :
         \/ SameLink(v)
         \/ v = fact[f].old /\ version'[v].successor = <<f, "next">> /\ fact[f].step = "link"
    /\ fact'[f].step = "link" =>
         /\ version'[<<f, "next">>].kind = Kind(fact[f].plan)
         /\ version'[<<f, "next">>].content = f /\ version'[<<f, "next">>].claim # None
    /\ fact'[f].step = "point" /\ fact[f].plan = "ADD" =>
         version'[<<f, "first">>].kind = "add" /\ version'[<<f, "first">>].content = f

\* A step that is no fact's: of a deletion, of the archival, or of nobody.
Aside ==
    /\ UNCHANGED fact
    /\ \A m \in Memories : memory'[m] = memory[m] \/ memory'[m] = "deleted"
    /\ \A v \in Versions : SameWords(v) /\ SameLink(v)

LEMMA Found ==
  ASSUME ShapeInv, NEW f \in Facts, FindCandidates(f)
  PROVE  /\ fact[f].step = "idle" /\ fact'[f].step \in {"store", "target"} /\ fact'[f].old = None
         /\ HasRoom /\ (fact'[f].target # None => fact'[f].target \in Candidates)
         /\ \A g \in Facts \ {f} : fact'[g] = fact[g]
         /\ UNCHANGED <<memory, content, claim, version, del>>
<1>1. ASSUME NEW plan, NEW target \in Candidates,
             fact' = [fact EXCEPT ![f] = [NoFact EXCEPT !.step = "target", !.plan = plan, !.target = target]]
      PROVE  /\ fact'[f].step \in {"store", "target"} /\ fact'[f].old = None
             /\ fact'[f].target \in Candidates
             /\ \A g \in Facts \ {f} : fact'[g] = fact[g]
  BY <1>1 DEF ShapeInv, TypeOK, NoFact
<1>2. ASSUME NEW plan \in {"ADD", "CLARIFY"},
             fact' = [fact EXCEPT ![f] = [NoFact EXCEPT !.step = "store", !.plan = plan]]
      PROVE  /\ fact'[f].step \in {"store", "target"} /\ fact'[f].old = None
             /\ fact'[f].target = None
             /\ \A g \in Facts \ {f} : fact'[g] = fact[g]
  BY <1>2 DEF ShapeInv, TypeOK, NoFact
<1>3. \/ \E plan \in {"ADD", "CLARIFY"} :
           fact' = [fact EXCEPT ![f] = [NoFact EXCEPT !.step = "store", !.plan = plan]]
      \/ \E plan \in {"UPDATE", "DELETE", "NOOP", "SUPERSEDE"}, m \in Candidates :
           fact' = [fact EXCEPT ![f] = [NoFact EXCEPT !.step = "target", !.plan = plan, !.target = m]]
  BY DEF FindCandidates
<1>4. fact[f].step = "idle" /\ HasRoom /\ UNCHANGED <<memory, content, claim, version, del>>
  BY DEF FindCandidates
<1> QED BY <1>1, <1>2, <1>3, <1>4

LEMMA LookedUp ==
  ASSUME ShapeInv, NEW f \in Facts, LookupVersion(f)
  PROVE  /\ fact[f].step = "lookup" /\ fact[f].plan \in Mutating
         /\ fact'[f].step \in {"claim", MutationStep(fact[f].plan)}
         /\ fact'[f].plan = fact[f].plan /\ fact'[f].target = fact[f].target
         /\ \A g \in Facts \ {f} : fact'[g] = fact[g]
         /\ UNCHANGED <<memory, content, claim, version, del>>
<1>1. fact \in [Facts -> FactType] /\ fact[f].step = "lookup" /\ fact[f].plan \in Mutating
  BY FactFacts DEF ShapeInv, TypeOK, LookupVersion, FactOK
<1>2. ASSUME NEW v, fact' = [fact EXCEPT ![f].old = v, ![f].step = MutationStep(fact[f].plan)]
      PROVE  /\ fact'[f].step = MutationStep(fact[f].plan)
             /\ fact'[f].plan = fact[f].plan /\ fact'[f].target = fact[f].target
             /\ \A g \in Facts \ {f} : fact'[g] = fact[g]
  BY <1>1, <1>2 DEF FactType
<1>3. ASSUME Goto(f, "claim")
      PROVE  /\ fact'[f].step = "claim"
             /\ fact'[f].plan = fact[f].plan /\ fact'[f].target = fact[f].target
             /\ \A g \in Facts \ {f} : fact'[g] = fact[g]
  BY <1>1, <1>3 DEF FactType, Goto
<1> QED BY <1>1, <1>2, <1>3 DEF LookupVersion

\* What a memory stored by a fact becomes, and where its handler goes.
LEMMA MemoryStored ==
  ASSUME ShapeInv, NEW f \in Facts, StoreMemory(f)
  PROVE  /\ fact[f].step = "store" /\ memory'[f] \in {"needs_clarification", "active"}
         /\ \A m \in Memories \ {f} : memory'[m] = memory[m]
         /\ UNCHANGED <<content, claim, version, del>>
         /\ \/ Goto(f, "claim") /\ fact[f].plan = "ADD"
            \/ Goto(f, "next") /\ fact[f].plan = "SUPERSEDE"
            \/ Goto(f, "done") /\ fact[f].plan = "CLARIFY"
<1>1. fact[f].plan \in {"ADD", "CLARIFY", "SUPERSEDE"} /\ f \in Memories
  BY FactFacts DEF StoreMemory, FactOK
<1>2. memory'[f] \in {"needs_clarification", "active"} /\ \A m \in Memories \ {f} : memory'[m] = memory[m]
  BY <1>1 DEF StoreMemory, ShapeInv, TypeOK
<1>3. CASE fact[f].plan = "ADD"
  BY <1>2, <1>3 DEF StoreMemory
<1>4. CASE fact[f].plan = "SUPERSEDE"
  BY <1>2, <1>4 DEF StoreMemory
<1>5. CASE fact[f].plan = "CLARIFY"
  BY <1>2, <1>5 DEF StoreMemory
<1> QED BY <1>1, <1>3, <1>4, <1>5

LEMMA FactMovesOnward ==
  ASSUME ShapeInv, NEW f \in Facts, FactNext(f)
  PROVE  Onward(f)
<1>0. /\ fact \in [Facts -> FactType] /\ memory \in [Memories -> MemoryStates]
      /\ version \in [Versions -> VersionType]
      /\ fact[f] \in FactType /\ FactOK(f)
  BY FactFacts DEF ShapeInv, TypeOK
<1>1. CASE FindCandidates(f)
  BY <1>0, <1>1, Found DEF Onward, FactOK
<1>2. CASE ReadTarget(f)
  BY <1>0, <1>2 DEF ReadTarget, Onward, FactType, FactOK
<1>3. CASE LookupVersion(f)
  BY <1>0, <1>3, LookedUp DEF Onward, MutationStep, Mutating
<1>4. CASE CreateClaim(f)
  BY <1>0, <1>4 DEF CreateClaim, Onward, Goto, FactType, FactOK
<1>5. CASE CreateFirstVersion(f)
  BY <1>0, <1>5 DEF CreateFirstVersion, Onward, Goto, FactType, FactOK, InsertVersion
<1>6. CASE PointFirst(f)
  BY <1>0, <1>6 DEF PointFirst, Onward, Goto, FactType, FactOK, MutationStep, Mutating
<1>7. CASE StoreMemory(f)
  BY <1>0, <1>7 DEF StoreMemory, Onward, Goto, FactType, FactOK
<1>8. CASE UpdateContent(f)
  BY <1>0, <1>8 DEF UpdateContent, Onward, Goto, FactType, FactOK
<1>9. CASE CloseOldVersion(f)
  BY <1>0, <1>9 DEF CloseOldVersion, Onward, Goto, FactType, FactOK
<1>10. CASE ReleaseMemory(f)
  BY <1>0, <1>10 DEF ReleaseMemory, Onward, Goto, FactType, FactOK
<1>11. CASE ExpireTarget(f)
  BY <1>0, <1>11 DEF ExpireTarget, Onward, Goto, FactType, FactOK
<1>12. CASE SoftDeleteTarget(f)
  BY <1>0, <1>12 DEF SoftDeleteTarget, Onward, Goto, FactType, FactOK
<1>13. CASE CreateNextVersion(f)
  BY <1>0, <1>13 DEF CreateNextVersion, Onward, Goto, FactType, FactOK, InsertVersion
<1>14. CASE LinkOldVersion(f)
  BY <1>0, <1>14 DEF LinkOldVersion, Onward, Goto, FactType, FactOK
<1>15. CASE Repoint(f)
  BY <1>0, <1>15 DEF Repoint, Onward, Goto, FactType, FactOK
<1>16. CASE InvalidateOldClaim(f)
  BY <1>0, <1>16 DEF InvalidateOldClaim, Onward, Goto, FactType, FactOK
<1>17. CASE AbortFact(f)
  BY <1>0, <1>17 DEF AbortFact, Onward, Goto, FactType, FactOK, FactsInFlight, FactEnds
<1> QED BY <1>1, <1>2, <1>3, <1>4, <1>5, <1>6, <1>7, <1>8, <1>9, <1>10, <1>11, <1>12, <1>13,
         <1>14, <1>15, <1>16, <1>17 DEF FactNext

LEMMA FactStores ==
  ASSUME ShapeInv, NEW f \in Facts, FactNext(f)
  PROVE  Stored(f)
<1>0. /\ fact \in [Facts -> FactType] /\ memory \in [Memories -> MemoryStates]
      /\ version \in [Versions -> VersionType]
      /\ fact[f] \in FactType /\ FactOK(f)
  BY FactFacts DEF ShapeInv, TypeOK
<1>1. CASE FindCandidates(f)
  BY <1>0, <1>1, Found DEF Stored, FactOK
<1>2. CASE ReadTarget(f)
  BY <1>0, <1>2 DEF ReadTarget, Stored, FactType
<1>3. CASE LookupVersion(f)
  BY <1>0, <1>3, LookedUp DEF Stored, MutationStep, Mutating
<1>4. CASE CreateClaim(f)
  BY <1>0, <1>4 DEF CreateClaim, Stored, Goto, FactType
<1>5. CASE CreateFirstVersion(f)
  BY <1>0, <1>5 DEF CreateFirstVersion, Stored, Goto, FactType, InsertVersion
<1>6. CASE PointFirst(f)
  BY <1>0, <1>6 DEF PointFirst, Stored, Goto, FactType, MutationStep, Mutating, FactOK
<1>7. CASE StoreMemory(f)
  BY <1>0, <1>7, MemoryStored, NamesApart DEF Stored
<1>8. CASE UpdateContent(f)
  BY <1>0, <1>8 DEF UpdateContent, Stored, Goto, FactType
<1>9. CASE CloseOldVersion(f)
  BY <1>0, <1>9 DEF CloseOldVersion, Stored, Goto, FactType
<1>10. CASE ReleaseMemory(f)
  BY <1>0, <1>10 DEF ReleaseMemory, Stored, Goto, FactType
<1>11. CASE ExpireTarget(f)
  BY <1>0, <1>11 DEF ExpireTarget, Stored, Goto, FactType, FactOK
<1>12. CASE SoftDeleteTarget(f)
  BY <1>0, <1>12 DEF SoftDeleteTarget, Stored, Goto, FactType, FactOK
<1>13. CASE CreateNextVersion(f)
  BY <1>0, <1>13 DEF CreateNextVersion, Stored, Goto, FactType, InsertVersion
<1>14. CASE LinkOldVersion(f)
  BY <1>0, <1>14 DEF LinkOldVersion, Stored, Goto, FactType
<1>15. CASE Repoint(f)
  BY <1>0, <1>15 DEF Repoint, Stored, Goto, FactType
<1>16. CASE InvalidateOldClaim(f)
  BY <1>0, <1>16 DEF InvalidateOldClaim, Stored, Goto, FactType
<1>17. CASE AbortFact(f)
  BY <1>0, <1>17 DEF AbortFact, Stored, Goto, FactType, FactsInFlight, FactEnds
<1> QED BY <1>1, <1>2, <1>3, <1>4, <1>5, <1>6, <1>7, <1>8, <1>9, <1>10, <1>11, <1>12, <1>13,
         <1>14, <1>15, <1>16, <1>17 DEF FactNext

LEMMA FactRecords ==
  ASSUME ShapeInv, NEW f \in Facts, FactNext(f)
  PROVE  Recorded(f)
<1>0. /\ fact \in [Facts -> FactType] /\ memory \in [Memories -> MemoryStates]
      /\ version \in [Versions -> VersionType]
      /\ fact[f] \in FactType /\ FactOK(f)
  BY FactFacts DEF ShapeInv, TypeOK
<1>1. CASE FindCandidates(f)
  BY <1>0, <1>1, Found DEF Recorded, SameWords, SameLink, FactOK
<1>2. CASE ReadTarget(f)
  BY <1>0, <1>2 DEF ReadTarget, Recorded, SameWords, SameLink, FactType
<1>3. CASE LookupVersion(f)
  BY <1>0, <1>3, LookedUp DEF Recorded, SameWords, SameLink, MutationStep, Mutating
<1>4. CASE CreateClaim(f)
  BY <1>0, <1>4 DEF CreateClaim, Recorded, SameWords, SameLink, Goto, FactType
<1>5. CASE CreateFirstVersion(f)
  <2> DEFINE row == [NoVersion EXCEPT !.claim = f, !.open = TRUE,
                       !.memory = IF fact[f].plan = "ADD" THEN f ELSE fact[f].target,
                       !.content = IF fact[f].plan = "ADD" THEN f ELSE fact[f].text,
                       !.kind = IF fact[f].plan = "ADD" THEN "add" ELSE "none"]
  <2>1. /\ fact[f].step = "first" /\ InsertVersion(f, <<f, "first">>, row, "point")
        /\ fact[f].plan \in Mutating \cup {"ADD"}
        /\ fact[f].plan \in Mutating => fact[f].target \in Memories
        /\ fact[f].old # None => OldClaim(f) \in Memories
        /\ f \in Memories
        /\ fact[f].step = "first" /\ fact[f].plan \in Mutating => fact[f].text \in Memories
    BY <1>0, <1>5, FactFacts DEF CreateFirstVersion, FactOK, FactType
  <2>2. /\ row \in VersionType /\ row.claim # None /\ row.successor = None
        /\ fact[f].plan = "ADD" => row.kind = "add" /\ row.content = f
    BY <2>1, NamesApart DEF VersionType, NoVersion, Mutating, Kind
  <2> HIDE DEF row
  <2>3. "point" \in FactSteps \ FactEnds
    BY DEF FactSteps, FactEnds
  <2>4. CASE /\ Goto(f, "point") /\ version'[<<f, "first">>] = row
             /\ \A u \in Versions \ {<<f, "first">>} : version'[u] = version[u]
    <3>1. fact'[f].step = "point"
      BY <1>0, <2>4 DEF Goto, FactType
    <3>2. ASSUME NEW v \in Versions
          PROVE  /\ SameWords(v) \/ v = <<f, "first">>
                 /\ SameLink(v)
      <4>1. CASE v = <<f, "first">>
        BY <2>2, <2>4, <4>1 DEF SameLink
      <4>2. CASE v # <<f, "first">>
        <5>1. version'[v] = version[v]
          BY <2>4, <4>2
        <5> QED BY <5>1 DEF SameLink, SameWords
      <4> QED BY <4>1, <4>2
    <3>3. ASSUME NEW v \in Versions
          PROVE  \/ SameWords(v)
                 \/ v = <<f, "first">> /\ fact[f].step = "first"
                 \/ v = <<f, "next">> /\ fact[f].step = "next" /\ fact'[f].step = "link"
      BY <2>1, <3>1, <3>2
    <3> QED BY <2>1, <2>2, <2>4, <3>1, <3>2, <3>3 DEF Recorded
  <2>5. ASSUME NEW s \in {"done", "failed"}, Goto(f, s), UNCHANGED version
        PROVE  Recorded(f)
    <3>1. fact'[f].step = s
      BY <1>0, <2>5 DEF Goto, FactType
    <3> QED BY <2>5, <3>1 DEF Recorded, SameWords, SameLink
  <2>6. <<f, "first">> \in Versions
    BY NamesApart
  <2>7. Inserted(f, <<f, "first">>, row, "point")
    BY <2>1, <2>2, <2>3, <2>6, Insertion
  <2>8. ASSUME Goto(f, "done"), UNCHANGED version PROVE Recorded(f)
    BY <2>5, <2>8
  <2>9. ASSUME Goto(f, "failed"), UNCHANGED version PROVE Recorded(f)
    BY <2>5, <2>9
  <2> QED BY <2>4, <2>7, <2>8, <2>9 DEF Inserted
<1>6. CASE PointFirst(f)
  BY <1>0, <1>6 DEF PointFirst, Recorded, SameWords, SameLink, Goto, FactType, MutationStep,
     Mutating, FactOK
<1>7. CASE StoreMemory(f)
  BY <1>0, <1>7, MemoryStored DEF Recorded, SameWords, SameLink, Goto, FactType
<1>8. CASE UpdateContent(f)
  BY <1>0, <1>8 DEF UpdateContent, Recorded, SameWords, SameLink, Goto, FactType
<1>9. CASE CloseOldVersion(f)
  BY <1>0, <1>9 DEF CloseOldVersion, Recorded, SameWords, SameLink, Goto, FactType, FactOK,
     VersionType
<1>10. CASE ReleaseMemory(f)
  BY <1>0, <1>10 DEF ReleaseMemory, Recorded, SameWords, SameLink, Goto, FactType, FactOK,
     VersionType
<1>11. CASE ExpireTarget(f)
  BY <1>0, <1>11 DEF ExpireTarget, Recorded, SameWords, SameLink, Goto, FactType
<1>12. CASE SoftDeleteTarget(f)
  BY <1>0, <1>12 DEF SoftDeleteTarget, Recorded, SameWords, SameLink, Goto, FactType
<1>13. CASE CreateNextVersion(f)
  <2> DEFINE row == [NoVersion EXCEPT !.claim = OldClaim(f), !.content = f, !.open = TRUE,
                       !.memory = CASE fact[f].plan = "UPDATE" -> fact[f].target
                                    [] fact[f].plan = "SUPERSEDE" -> f [] OTHER -> None,
                       !.kind = CASE fact[f].plan = "UPDATE" -> "update"
                                  [] fact[f].plan = "SUPERSEDE" -> "supersede" [] OTHER -> "delete"]
  <2>1. /\ fact[f].step = "next" /\ InsertVersion(f, <<f, "next">>, row, "link")
        /\ fact[f].old # None /\ fact[f].plan \in {"UPDATE", "DELETE", "SUPERSEDE"}
        /\ fact[f].plan \in Mutating => fact[f].target \in Memories
        /\ fact[f].old # None => OldClaim(f) \in Memories
        /\ f \in Memories
        /\ fact[f].step = "first" /\ fact[f].plan \in Mutating => fact[f].text \in Memories
    BY <1>0, <1>13, FactFacts DEF CreateNextVersion, FactOK, FactType
  <2>2. /\ row \in VersionType /\ row.claim # None /\ row.successor = None
        /\ row.kind = Kind(fact[f].plan) /\ row.content = f
    BY <2>1, NamesApart DEF VersionType, NoVersion, Mutating, Kind
  <2> HIDE DEF row
  <2>3. "link" \in FactSteps \ FactEnds
    BY DEF FactSteps, FactEnds
  <2>4. CASE /\ Goto(f, "link") /\ version'[<<f, "next">>] = row
             /\ \A u \in Versions \ {<<f, "next">>} : version'[u] = version[u]
    <3>1. fact'[f].step = "link"
      BY <1>0, <2>4 DEF Goto, FactType
    <3>2. ASSUME NEW v \in Versions
          PROVE  /\ SameWords(v) \/ v = <<f, "next">>
                 /\ SameLink(v)
      <4>1. CASE v = <<f, "next">>
        BY <2>2, <2>4, <4>1 DEF SameLink
      <4>2. CASE v # <<f, "next">>
        <5>1. version'[v] = version[v]
          BY <2>4, <4>2
        <5> QED BY <5>1 DEF SameLink, SameWords
      <4> QED BY <4>1, <4>2
    <3>3. ASSUME NEW v \in Versions
          PROVE  \/ SameWords(v)
                 \/ v = <<f, "first">> /\ fact[f].step = "first"
                 \/ v = <<f, "next">> /\ fact[f].step = "next" /\ fact'[f].step = "link"
      BY <2>1, <3>1, <3>2
    <3> QED BY <2>1, <2>2, <2>4, <3>1, <3>2, <3>3 DEF Recorded
  <2>5. ASSUME NEW s \in {"done", "failed"}, Goto(f, s), UNCHANGED version
        PROVE  Recorded(f)
    <3>1. fact'[f].step = s
      BY <1>0, <2>5 DEF Goto, FactType
    <3> QED BY <2>5, <3>1 DEF Recorded, SameWords, SameLink
  <2>6. <<f, "next">> \in Versions
    BY NamesApart
  <2>7. Inserted(f, <<f, "next">>, row, "link")
    BY <2>1, <2>2, <2>3, <2>6, Insertion
  <2>8. ASSUME Goto(f, "done"), UNCHANGED version PROVE Recorded(f)
    BY <2>5, <2>8
  <2>9. ASSUME Goto(f, "failed"), UNCHANGED version PROVE Recorded(f)
    BY <2>5, <2>9
  <2> QED BY <2>4, <2>7, <2>8, <2>9 DEF Inserted
<1>14. CASE LinkOldVersion(f)
  BY <1>0, <1>14 DEF LinkOldVersion, Recorded, SameWords, SameLink, Goto, FactType, FactOK,
     VersionType
<1>15. CASE Repoint(f)
  BY <1>0, <1>15 DEF Repoint, Recorded, SameWords, SameLink, Goto, FactType
<1>16. CASE InvalidateOldClaim(f)
  BY <1>0, <1>16 DEF InvalidateOldClaim, Recorded, SameWords, SameLink, Goto, FactType
<1>17. CASE AbortFact(f)
  BY <1>0, <1>17 DEF AbortFact, Recorded, SameWords, SameLink, Goto, FactType, FactsInFlight,
     FactEnds
<1> QED BY <1>1, <1>2, <1>3, <1>4, <1>5, <1>6, <1>7, <1>8, <1>9, <1>10, <1>11, <1>12, <1>13,
         <1>14, <1>15, <1>16, <1>17 DEF FactNext

LEMMA DeleteIsAside ==
  ASSUME ShapeInv, NEW d \in Deletes, DeleteNext(d)
  PROVE  Aside
<1>0. /\ del \in [Deletes -> DelType] /\ memory \in [Memories -> MemoryStates]
      /\ version \in [Versions -> VersionType]
  BY DEF ShapeInv, TypeOK
<1>1. CASE ReadDeleted(d)
  BY <1>0, <1>1 DEF ReadDeleted, Aside, SameWords, SameLink, VersionType
<1>2. CASE LookupDeleted(d)
  BY <1>0, <1>2 DEF LookupDeleted, Aside, SameWords, SameLink, VersionType
<1>3. CASE SoftDelete(d)
  BY <1>0, <1>3 DEF SoftDelete, Aside, SameWords, SameLink, VersionType
<1>4. CASE CloseDeleted(d)
  BY <1>0, <1>4 DEF CloseDeleted, Aside, SameWords, SameLink, VersionType
<1>5. CASE InvalidateDeleted(d)
  BY <1>0, <1>5 DEF InvalidateDeleted, Aside, SameWords, SameLink, VersionType
<1>6. CASE AbortDelete(d)
  BY <1>0, <1>6 DEF AbortDelete, Aside, SameWords, SameLink, VersionType
<1> QED BY <1>1, <1>2, <1>3, <1>4, <1>5, <1>6 DEF DeleteNext

\* Every step is one of a fact's handler or leaves the handlers and their words alone.
LEMMA StepKinds ==
  ASSUME ShapeInv, [Next]_vars
  PROVE  Aside \/ \E f \in Facts : Onward(f) /\ Stored(f) /\ Recorded(f)
<1>1. ASSUME NEW f \in Facts, FactNext(f) PROVE Onward(f) /\ Stored(f) /\ Recorded(f)
  BY <1>1, FactMovesOnward, FactStores, FactRecords
<1>2. ASSUME NEW d \in Deletes, DeleteNext(d) PROVE Aside
  BY <1>2, DeleteIsAside
<1>3. ASSUME NEW m \in Memories, Archive(m) PROVE Aside
  BY <1>3 DEF Archive, Aside, SameWords, SameLink, ShapeInv, TypeOK
<1>4. CASE UNCHANGED vars
  BY <1>4 DEF vars, Aside, SameWords, SameLink
<1> QED BY <1>1, <1>2, <1>3, <1>4 DEF Next

--------------------------------------------------------------------------------
(* No fact is lost.                                                               *)

\* The record of what a handler will answer is there before it answers.
RecordedInv ==
    \A f \in Facts :
       /\ \/ fact[f].step \in {"link", "repoint", "invalidate"}
          \/ fact[f].step = "done" /\ fact[f].plan \in {"UPDATE", "SUPERSEDE", "DELETE"}
          => /\ version[<<f, "next">>].kind = Kind(fact[f].plan)
             /\ version[<<f, "next">>].content = f
       /\ fact[f].step \in {"point", "done"} /\ fact[f].plan = "ADD"
          => version[<<f, "first">>].kind = "add" /\ version[<<f, "first">>].content = f

KeptInv == RecordedInv /\ ExpiredIsReplaced

LEMMA KeptInitial == Init => KeptInv
<1> SUFFICES ASSUME Init PROVE KeptInv
  OBVIOUS
<1>1. \A f \in Facts : fact[f] = NoFact
  BY DEF Init
<1>2. \A m \in Memories : memory[m] # "expired"
  BY DEF Init
<1> QED BY <1>1, <1>2 DEF KeptInv, RecordedInv, ExpiredIsReplaced, NoFact

LEMMA RecordedStep ==
  ASSUME ShapeInv, RecordedInv, [Next]_vars
  PROVE  RecordedInv'
<1>1. CASE Aside
  <2>1. ASSUME NEW g \in Facts
        PROVE  fact'[g] = fact[g] /\ SameWords(<<g, "next">>) /\ SameWords(<<g, "first">>)
    BY <1>1, NamesApart DEF Aside
  <2>2. ASSUME NEW g \in Facts
        PROVE  /\ \/ fact'[g].step \in {"link", "repoint", "invalidate"}
                  \/ fact'[g].step = "done" /\ fact'[g].plan \in {"UPDATE", "SUPERSEDE", "DELETE"}
                  => /\ version'[<<g, "next">>].kind = Kind(fact'[g].plan)
                     /\ version'[<<g, "next">>].content = g
               /\ fact'[g].step \in {"point", "done"} /\ fact'[g].plan = "ADD"
                  => version'[<<g, "first">>].kind = "add" /\ version'[<<g, "first">>].content = g
    BY <2>1 DEF RecordedInv, SameWords
  <2> QED BY <2>2 DEF RecordedInv
<1>2. ASSUME NEW f \in Facts, Onward(f), Recorded(f)
      PROVE  RecordedInv'
  <2>1. ASSUME NEW g \in Facts \ {f}
        PROVE  fact'[g] = fact[g] /\ SameWords(<<g, "next">>) /\ SameWords(<<g, "first">>)
    BY <1>2, NamesApart DEF Onward, Recorded
  <2>2. fact[f].step # "next" => SameWords(<<f, "next">>)
    BY <1>2, NamesApart DEF Recorded
  <2>3. fact[f].step # "first" => SameWords(<<f, "first">>)
    BY <1>2, NamesApart DEF Recorded
  <2>4. ASSUME \/ fact'[f].step \in {"link", "repoint", "invalidate"}
               \/ fact'[f].step = "done" /\ fact'[f].plan \in {"UPDATE", "SUPERSEDE", "DELETE"}
        PROVE  /\ version'[<<f, "next">>].kind = Kind(fact'[f].plan)
               /\ version'[<<f, "next">>].content = f
    <3>1. CASE fact'[f].step = "link"
      BY <1>2, <3>1 DEF Onward, Recorded
    <3>2. CASE fact'[f].step # "link"
      <4>1. fact[f].step \in {"link", "repoint", "invalidate"} /\ fact'[f].plan = fact[f].plan
        BY <1>2, <2>4, <3>2 DEF Onward
      <4> QED BY <4>1, <2>2 DEF RecordedInv, SameWords
    <3> QED BY <3>1, <3>2
  <2>5. ASSUME fact'[f].step \in {"point", "done"}, fact'[f].plan = "ADD"
        PROVE  version'[<<f, "first">>].kind = "add" /\ version'[<<f, "first">>].content = f
    <3>1. CASE fact'[f].step = "point"
      BY <1>2, <2>5, <3>1 DEF Onward, Recorded
    <3>2. CASE fact'[f].step = "done"
      <4>1. fact[f].step = "point" /\ fact[f].plan = "ADD"
        BY <1>2, <2>5, <3>2 DEF Onward
      <4> QED BY <4>1, <2>3 DEF RecordedInv, SameWords
    <3> QED BY <2>5, <3>1, <3>2
  <2>6. ASSUME NEW g \in Facts \ {f}
        PROVE  /\ \/ fact'[g].step \in {"link", "repoint", "invalidate"}
                  \/ fact'[g].step = "done" /\ fact'[g].plan \in {"UPDATE", "SUPERSEDE", "DELETE"}
                  => /\ version'[<<g, "next">>].kind = Kind(fact'[g].plan)
                     /\ version'[<<g, "next">>].content = g
               /\ fact'[g].step \in {"point", "done"} /\ fact'[g].plan = "ADD"
                  => version'[<<g, "first">>].kind = "add" /\ version'[<<g, "first">>].content = g
    BY <2>1 DEF RecordedInv, SameWords
  <2> QED BY <2>4, <2>5, <2>6 DEF RecordedInv
<1> QED BY <1>1, <1>2, StepKinds

LEMMA ReplacedStep ==
  ASSUME ShapeInv, ExpiredIsReplaced, [Next]_vars
  PROVE  ExpiredIsReplaced'
<1>1. CASE Aside
  <2>1. \A f \in Facts : memory[f] # "absent" => memory'[f] # "absent"
    BY <1>1, NamesApart DEF Aside
  <2> QED BY <1>1, <2>1 DEF Aside, ExpiredIsReplaced
<1>2. ASSUME NEW f \in Facts, Onward(f), Stored(f)
      PROVE  ExpiredIsReplaced'
  <2> SUFFICES ASSUME NEW m \in Memories, memory'[m] = "expired"
               PROVE  \E g \in Facts :
                         /\ fact'[g].plan = "SUPERSEDE" /\ fact'[g].target = m
                         /\ memory'[g] # "absent" \/ fact'[g].step \in {"store", "failed"}
    BY DEF ExpiredIsReplaced
  <2>1. CASE memory[m] # "expired"
    BY <1>2, <2>1 DEF Stored
  <2>2. CASE memory[m] = "expired"
    <3>1. PICK g \in Facts : /\ fact[g].plan = "SUPERSEDE" /\ fact[g].target = m
                             /\ memory[g] # "absent" \/ fact[g].step \in {"store", "failed"}
      BY <2>2 DEF ExpiredIsReplaced
    <3>2. memory[g] # "absent" => memory'[g] # "absent"
      BY <1>2, NamesApart DEF Stored
    <3>3. fact'[g].plan = "SUPERSEDE" /\ fact'[g].target = m
      <4>1. fact[g].step # "idle"
        BY <3>1, FactFacts DEF FactOK
      <4> QED BY <1>2, <3>1, <4>1 DEF Onward
    <3>4. fact[g].step = "failed" => fact'[g].step = "failed"
      BY <1>2 DEF Onward
    <3>5. fact[g].step = "store" => fact'[g].step \in {"store", "failed"} \/ memory'[g] # "absent"
      BY <1>2 DEF Onward, Stored
    <3> QED BY <3>1, <3>2, <3>3, <3>4, <3>5
  <2> QED BY <2>1, <2>2
<1> QED BY <1>1, <1>2, StepKinds

\* However the handlers interleave and wherever they are cut off: a memory that a fact
\* expired has its replacement stored, about to be stored, or lost with its handler, and
\* what a handler answers (added, updated, superseded, deleted) is in the ledger, with
\* the fact's words.
THEOREM NoFactIsLost == Spec => []FactsAreKept
<1>1. KeptInv => FactsAreKept
  BY DEF KeptInv, FactsAreKept, RecordedInv, AnswerIsRecorded, Kind
<1>2. ShapeInv /\ KeptInv /\ [Next]_vars => KeptInv'
  BY RecordedStep, ReplacedStep DEF KeptInv
<1> QED BY <1>1, <1>2, KeptInitial, ShapeHolds, PTL DEF Spec

--------------------------------------------------------------------------------
(* The chains of versions end.                                                    *)

\* A version its handler wrote at "next" is there from then on, beside the one it was
\* about, and a link goes from the second to the first.
YoungerInv ==
    /\ \A f \in Facts : fact[f].step \in {"link", "repoint", "invalidate"} => Present(<<f, "next">>)
    /\ \A f \in Facts : Present(<<f, "next">>) =>
          fact[f].step \in {"link", "repoint", "invalidate", "done", "failed"} /\ fact[f].old # None
    /\ \A u \in Versions : version[u].successor # None =>
          \E f \in Facts : /\ version[u].successor = <<f, "next">> /\ fact[f].old = u
                           /\ Present(<<f, "next">>)

\* The versions can be numbered so that each is above the one its handler was about.
Numbers(rank) ==
    /\ rank \in [Versions -> Nat]
    /\ \A f \in Facts : Present(<<f, "next">>) => rank[fact[f].old] < rank[<<f, "next">>]

LinkInv == YoungerInv /\ \E rank \in [Versions -> Nat] : Numbers(rank)

LEMMA LinkInitial == Init => LinkInv
<1> SUFFICES ASSUME Init PROVE LinkInv
  OBVIOUS
<1>1. PICK claimed \in SUBSET Seeded :
        version = [v \in Versions |-> IF v[1] \in claimed /\ v[2] = "first"
                      THEN [NoVersion EXCEPT !.claim = v[1], !.memory = v[1], !.content = v[1],
                                             !.kind = "add", !.open = TRUE]
                      ELSE NoVersion]
  BY DEF Init
<1>2. \A v \in Versions : version[v].successor = None
  BY <1>1 DEF NoVersion
<1>3. \A f \in Facts : ~Present(<<f, "next">>)
  BY <1>1, NamesApart DEF Present, NoVersion
<1>4. \A f \in Facts : fact[f] = NoFact
  BY DEF Init
<1>5. Numbers([v \in Versions |-> 0])
  BY <1>3 DEF Numbers
<1> QED BY <1>2, <1>3, <1>4, <1>5 DEF LinkInv, YoungerInv, Numbers, NoFact

LEMMA YoungerStep ==
  ASSUME ShapeInv, YoungerInv, [Next]_vars
  PROVE  YoungerInv'
<1>1. CASE Aside
  <2>1. \A v \in Versions : (Present(v)' <=> Present(v)) /\ SameLink(v)
    BY <1>1 DEF Aside, SameWords, Present
  <2>2. \A f \in Facts : Present(<<f, "next">>)' <=> Present(<<f, "next">>)
    BY <2>1, NamesApart
  <2> QED BY <1>1, <2>1, <2>2 DEF YoungerInv, Aside, SameLink
<1>2. ASSUME NEW f \in Facts, Onward(f), Recorded(f)
      PROVE  YoungerInv'
  <2> DEFINE There(g) == version'[<<g, "next">>].claim # None
  <2>1. ASSUME NEW g \in Facts \ {f}
        PROVE  fact'[g] = fact[g] /\ (There(g) <=> Present(<<g, "next">>))
    BY <1>2, NamesApart DEF Onward, Recorded, SameWords, Present
  <2>2. /\ fact'[f].step = "link" => fact[f].step = "next" /\ There(f)
        /\ fact'[f].step # "link" => (There(f) <=> Present(<<f, "next">>))
    BY <1>2, NamesApart DEF Onward, Recorded, SameWords, Present
  <2>3. fact[f].step = "next" => fact'[f].old = fact[f].old /\ fact[f].old # None
    BY <1>2, FactFacts DEF Onward, FactOK
  <2>4. fact'[f].step \in {"link", "repoint", "invalidate"} => There(f)
    BY <1>2, <2>2 DEF Onward, YoungerInv
  <2>5. There(f) => /\ fact'[f].step \in {"link", "repoint", "invalidate", "done", "failed"}
                    /\ fact'[f].old # None
    BY <1>2, <2>2, <2>3 DEF Onward, YoungerInv
  <2>6. ASSUME NEW u \in Versions, version'[u].successor # None
        PROVE  \E g \in Facts : /\ version'[u].successor = <<g, "next">> /\ fact'[g].old = u
                                /\ There(g)
    <3>1. CASE SameLink(u)
      <4>1. version'[u].successor = version[u].successor
        BY <2>6, <3>1 DEF SameLink
      <4>2. PICK g \in Facts : /\ version[u].successor = <<g, "next">> /\ fact[g].old = u
                               /\ Present(<<g, "next">>)
        BY <2>6, <4>1 DEF YoungerInv
      <4>3. CASE g # f
        BY <2>1, <4>1, <4>2, <4>3
      <4>4. CASE g = f
        <5>1. fact[f].step \in {"link", "repoint", "invalidate", "done", "failed"}
          BY <4>2, <4>4 DEF YoungerInv
        <5>2. fact'[f].old = u /\ fact'[f].step # "link"
          BY <1>2, <4>2, <4>4, <5>1 DEF Onward
        <5> QED BY <2>2, <4>1, <4>2, <4>4, <5>2
      <4> QED BY <4>3, <4>4
    <3>2. CASE /\ u = fact[f].old /\ version'[u].successor = <<f, "next">>
               /\ fact[f].step = "link"
      <4>1. fact'[f].old = u /\ fact'[f].step # "link" /\ Present(<<f, "next">>)
        BY <1>2, <3>2 DEF Onward, YoungerInv
      <4> QED BY <2>2, <3>2, <4>1
    <3> QED BY <1>2, <3>1, <3>2 DEF Recorded
  <2>7. \A g \in Facts : fact'[g].step \in {"link", "repoint", "invalidate"} => There(g)
    BY <2>1, <2>4 DEF YoungerInv
  <2>8. \A g \in Facts : There(g) =>
          /\ fact'[g].step \in {"link", "repoint", "invalidate", "done", "failed"}
          /\ fact'[g].old # None
    BY <2>1, <2>5 DEF YoungerInv
  <2> QED BY <2>6, <2>7, <2>8 DEF YoungerInv, Present
<1> QED BY <1>1, <1>2, StepKinds

LEMMA NumbersStep ==
  ASSUME ShapeInv, YoungerInv, NEW rank \in [Versions -> Nat], Numbers(rank), [Next]_vars
  PROVE  \E r \in [Versions -> Nat] : Numbers(r)'
<1>1. CASE Aside
  <2>1. \A f \in Facts : Present(<<f, "next">>)' <=> Present(<<f, "next">>)
    BY <1>1, NamesApart DEF Aside, SameWords, Present
  <2>2. Numbers(rank)'
    BY <1>1, <2>1 DEF Numbers, Aside
  <2> QED BY <2>2
<1>2. ASSUME NEW f \in Facts, Onward(f), Recorded(f)
      PROVE  \E r \in [Versions -> Nat] : Numbers(r)'
  <2> DEFINE There(g) == version'[<<g, "next">>].claim # None
  <2>1. ASSUME NEW g \in Facts \ {f}
        PROVE  fact'[g] = fact[g] /\ (There(g) <=> Present(<<g, "next">>))
    BY <1>2, NamesApart DEF Onward, Recorded, SameWords, Present
  <2>2. CASE fact'[f].step # "link"
    <3>1. There(f) <=> Present(<<f, "next">>)
      BY <1>2, <2>2, NamesApart DEF Onward, Recorded, SameWords, Present
    <3>2. Present(<<f, "next">>) => fact'[f].old = fact[f].old
      BY <1>2 DEF YoungerInv, Onward
    <3>3. \A g \in Facts : There(g) => rank[fact'[g].old] < rank[<<g, "next">>]
      BY <2>1, <3>1, <3>2 DEF Numbers
    <3>4. Numbers(rank)'
      BY <3>3 DEF Numbers, Present
    <3> QED BY <3>4
  <2>3. CASE fact'[f].step = "link"
    <3> DEFINE n == <<f, "next">>
               r == [rank EXCEPT ![n] = rank[fact[f].old] + 1]
    <3>1. /\ fact[f].step = "next" /\ ~Present(n) /\ fact'[f].old = fact[f].old
          /\ fact[f].old \in Versions /\ Present(fact[f].old) /\ n \in Versions
      BY <1>2, <2>3, FactFacts, NamesApart DEF Onward, YoungerInv, FactOK
    <3>2. r \in [Versions -> Nat] /\ fact[f].old # n
      BY <3>1
    <3>3. r[n] = rank[fact[f].old] + 1 /\ \A v \in Versions \ {n} : r[v] = rank[v]
      BY <3>1
    <3>4. r[fact'[f].old] < r[n]
      <4>1. rank[fact[f].old] \in Nat
        BY <3>1
      <4> QED BY <3>1, <3>2, <3>3, <4>1
    <3>5. ASSUME NEW g \in Facts \ {f}, There(g)
          PROVE  r[fact'[g].old] < r[<<g, "next">>]
      <4>1. Present(<<g, "next">>) /\ fact'[g] = fact[g]
        BY <2>1, <3>5
      <4>2. fact[g].old # None
        BY <4>1 DEF YoungerInv
      <4>3. fact[g].old \in Versions /\ Present(fact[g].old) /\ <<g, "next">> \in Versions \ {n}
        BY <4>2, FactFacts, NamesApart DEF FactOK
      <4>4. fact[g].old # n
        BY <3>1, <4>3
      <4> QED BY <3>3, <4>1, <4>3, <4>4 DEF Numbers
    <3>6. PICK s \in [Versions -> Nat] : s = r
      BY <3>2
    <3>7. \A g \in Facts : There(g) => s[fact'[g].old] < s[<<g, "next">>]
      BY <3>4, <3>5, <3>6
    <3>8. Numbers(s)'
      BY <3>7 DEF Numbers, Present
    <3> QED BY <3>8
  <2> QED BY <2>2, <2>3
<1> QED BY <1>1, <1>2, StepKinds

\* A set of numbers has a least one: < is well founded on Nat.
LEMMA LeastOf ==
  ASSUME NEW T \in SUBSET Nat, T # {}
  PROVE  \E x \in T : \A y \in T : x <= y
<1> DEFINE R == {ss \in Nat \X Nat : ss[1] < ss[2]}
<1>1. IsWellFoundedOn(R, Nat)
  BY NatLessThanWellFounded DEF OpToRel
<1>2. \A x, y \in Nat : x < y => <<x, y>> \in R
  OBVIOUS
<1> HIDE DEF R
<1>3. PICK x \in T : \A y \in T : ~(<<y, x>> \in R)
  BY <1>1, WFMin
<1>4. \A y \in T : ~(y < x) /\ x \in Nat /\ y \in Nat
  BY <1>2, <1>3
<1> QED BY <1>4

\* The body of the function that Chain unfolds.
Unfolds(v, reached, n) ==
    IF n = 0 THEN {v}
    ELSE reached[n - 1] \cup ({version[u].successor : u \in reached[n - 1]} \ {None})

LEMMA Unfolding ==
  ASSUME NEW v
  PROVE  \A m \in Nat : \E f : f = [n \in 0..m |-> Unfolds(v, f, n)]
<1> DEFINE T == {m \in Nat : ~ \E f : f = [n \in 0..m |-> Unfolds(v, f, n)]}
<1>1. ASSUME T # {} PROVE FALSE
  <2>1. PICK m \in T : \A y \in T : m <= y
    <3>1. T \in SUBSET Nat
      OBVIOUS
    <3> HIDE DEF T
    <3> QED BY <1>1, <3>1, LeastOf
  <2>2. CASE m = 0
    <3> DEFINE f == [n \in 0..0 |-> {v}]
    <3>1. f = [n \in 0..0 |-> Unfolds(v, f, n)]
      BY DEF Unfolds
    <3> QED BY <2>1, <2>2, <3>1
  <2>3. CASE m # 0
    <3>1. m - 1 \in Nat /\ m - 1 \notin T /\ m \in Nat
      BY <2>1, <2>3
    <3>2. PICK f : f = [n \in 0..(m - 1) |-> Unfolds(v, f, n)]
      BY <3>1
    <3> DEFINE g == [n \in 0..m |-> IF n < m THEN f[n] ELSE Unfolds(v, f, m)]
    <3>3. \A n \in 0..m : g[n] = Unfolds(v, g, n)
      <4> SUFFICES ASSUME NEW n \in 0..m PROVE g[n] = Unfolds(v, g, n)
        OBVIOUS
      <4>1. n # 0 => n - 1 \in 0..m /\ g[n - 1] = f[n - 1]
        BY <3>1
      <4>2. Unfolds(v, g, n) = Unfolds(v, f, n)
        BY <4>1 DEF Unfolds
      <4>3. CASE n < m
        <5>1. g[n] = f[n] /\ n \in 0..(m - 1)
          BY <3>1, <4>3
        <5>2. f[n] = Unfolds(v, f, n)
          BY <3>2, <5>1
        <5> QED BY <4>2, <5>1, <5>2
      <4>4. CASE n = m
        BY <4>2, <4>4
      <4> QED BY <4>3, <4>4, <3>1
    <3>4. g = [n \in 0..m |-> Unfolds(v, g, n)]
      BY <3>3
    <3> QED BY <2>1, <3>4
  <2> QED BY <2>2, <2>3
<1> QED BY <1>1

LEMMA VersionsAreFinite == IsFiniteSet(Versions)
<1>1. IsFiniteSet(Memories)
  BY NamesAssumption, FS_Union DEF Memories
<1>2. IsFiniteSet({"first", "next"})
  <2>1. IsFiniteSet({"first"}) /\ {"first", "next"} = {"first"} \cup {"next"}
    BY FS_Singleton
  <2> QED BY <2>1, FS_AddElement
<1> QED BY <1>1, <1>2, FS_Product DEF Versions

LEMMA FiniteVersions == Cardinality(Versions) \in Nat
  BY VersionsAreFinite, FS_CardinalityType

\* What a set holds with all its successors, a chain does not leave.
LEMMA ChainStaysIn ==
  ASSUME NEW v, NEW S, v \in S,
         \A u \in S : version[u].successor # None => version[u].successor \in S
  PROVE  Chain(v) \subseteq S
<1> DEFINE K == Cardinality(Versions)
           f == CHOOSE f : f = [n \in 0..K |-> Unfolds(v, f, n)]
<1>1. K \in Nat
  BY FiniteVersions
<1>2. f = [n \in 0..K |-> Unfolds(v, f, n)]
  BY <1>1, Unfolding
<1>3. Chain(v) = f[K]
  BY DEF Chain, Unfolds
<1> HIDE DEF f, K
<1> DEFINE T == {n \in 0..K : ~(f[n] \subseteq S)}
<1>4. ASSUME T # {} PROVE FALSE
  <2>1. PICK n \in T : \A y \in T : n <= y
    <3>1. T \in SUBSET Nat
      BY <1>1
    <3> HIDE DEF T
    <3> QED BY <1>4, <3>1, LeastOf
  <2>2. n \in 0..K /\ f[n] = Unfolds(v, f, n) /\ ~(f[n] \subseteq S)
    BY <1>2, <2>1
  <2>3. n # 0
    BY <2>2 DEF Unfolds
  <2>4. n - 1 \in 0..K /\ n - 1 \notin T
    BY <1>1, <2>1, <2>2, <2>3
  <2>5. f[n - 1] \subseteq S
    BY <2>4
  <2> QED BY <2>2, <2>3, <2>5 DEF Unfolds
<1>5. f[K] \subseteq S
  BY <1>1, <1>4
<1> QED BY <1>3, <1>5

LEMMA NumberedChainsEnd == ShapeInv /\ LinkInv => ChainsEnd
<1> SUFFICES ASSUME ShapeInv, LinkInv, NEW v \in Versions, version[v].successor # None
             PROVE  v \notin Chain(version[v].successor)
  BY DEF ChainsEnd
<1>1. PICK rank \in [Versions -> Nat] : Numbers(rank)
  BY DEF LinkInv
<1>2. ASSUME NEW u \in Versions, version[u].successor # None
      PROVE  version[u].successor \in Versions /\ rank[u] < rank[version[u].successor]
  BY <1>1, <1>2, NamesApart DEF LinkInv, YoungerInv, Numbers
<1> DEFINE S == {u \in Versions : rank[v] < rank[u]}
<1>3. \A u \in S : version[u].successor # None => version[u].successor \in S
  <2> SUFFICES ASSUME NEW u \in S, version[u].successor # None
               PROVE  version[u].successor \in S
    OBVIOUS
  <2>1. version[u].successor \in Versions /\ rank[u] < rank[version[u].successor]
    BY <1>2
  <2>2. rank[v] \in Nat /\ rank[u] \in Nat /\ rank[version[u].successor] \in Nat /\ rank[v] < rank[u]
    BY <2>1
  <2>3. rank[v] < rank[version[u].successor]
    BY <2>1, <2>2
  <2> QED BY <2>1, <2>3
<1>4. version[v].successor \in S
  BY <1>2
<1>5. v \notin S
  <2>1. rank[v] \in Nat
    OBVIOUS
  <2> QED BY <2>1
<1> HIDE DEF S
<1> QED BY <1>3, <1>4, <1>5, ChainStaysIn

\* The history of a memory ends: following superseded_by_version_id never comes back to a
\* version already passed, whatever the handlers interleave.
THEOREM HistoryEnds == Spec => []ChainsEnd
<1>1. ShapeInv /\ LinkInv /\ [Next]_vars => LinkInv'
  BY YoungerStep, NumbersStep DEF LinkInv
<1> QED BY <1>1, LinkInitial, ShapeHolds, NumberedChainsEnd, PTL DEF Spec

--------------------------------------------------------------------------------
(* What a user deleted is forgotten.                                              *)

\* A version keeps its claim, may lose its memory and is never opened again.
Fades(v) ==
    /\ version'[v].claim = version[v].claim
    /\ version'[v].memory \in {version[v].memory, None}
    /\ version'[v].open => version[v].open

\* But for one: a new one, about no memory or about one that had no version.
Placed(f) ==
    \E n \in Versions :
      /\ \A v \in Versions \ {n} : Fades(v)
      /\ \/ Fades(n)
         \/ /\ version'[n].claim # None /\ version'[n].memory \in {None, f, fact[f].target}
            /\ version'[n].memory = None \/ VersionsOf(version'[n].memory) = {}

LEMMA FactPlaces ==
  ASSUME ShapeInv, NEW f \in Facts, FactNext(f)
  PROVE  Placed(f)
<1>0. /\ fact \in [Facts -> FactType] /\ memory \in [Memories -> MemoryStates]
      /\ version \in [Versions -> VersionType]
      /\ fact[f] \in FactType /\ FactOK(f)
  BY FactFacts DEF ShapeInv, TypeOK
<1>1. ASSUME \A v \in Versions : Fades(v)
       PROVE  Placed(f)
  BY <1>1, NamesApart DEF Placed
<1>2. ASSUME UNCHANGED version
       PROVE  Placed(f)
  BY <1>1, <1>2 DEF Fades
<1>3. CASE FindCandidates(f)
  BY <1>2, <1>3, Found
<1>4. CASE ReadTarget(f)
  BY <1>2, <1>4 DEF ReadTarget
<1>5. CASE LookupVersion(f)
  BY <1>2, <1>5 DEF LookupVersion
<1>6. CASE CreateClaim(f)
  BY <1>2, <1>6 DEF CreateClaim
<1>7. CASE CreateFirstVersion(f)
  <2> DEFINE row == [NoVersion EXCEPT !.claim = f, !.open = TRUE,
                       !.memory = IF fact[f].plan = "ADD" THEN f ELSE fact[f].target,
                       !.content = IF fact[f].plan = "ADD" THEN f ELSE fact[f].text,
                       !.kind = IF fact[f].plan = "ADD" THEN "add" ELSE "none"]
             n == <<f, "first">>
  <2>1. /\ fact[f].step = "first" /\ InsertVersion(f, n, row, "point")
        /\ fact[f].plan \in Mutating \cup {"ADD"}
        /\ fact[f].plan \in Mutating => fact[f].target \in Memories
        /\ fact[f].old # None => OldClaim(f) \in Memories
        /\ f \in Memories
        /\ fact[f].step = "first" /\ fact[f].plan \in Mutating => fact[f].text \in Memories
    BY <1>0, <1>7, FactFacts DEF CreateFirstVersion, FactOK, FactType
  <2>2. row \in VersionType /\ row.claim # None /\ row.memory \in {None, f, fact[f].target}
    BY <2>1, NamesApart DEF VersionType, NoVersion, Mutating
  <2>3. "point" \in FactSteps \ FactEnds /\ n \in Versions
    BY NamesApart DEF FactSteps, FactEnds
  <2> HIDE DEF row, n
  <2>4. \/ /\ version'[n] = row
           /\ row.memory = None \/ VersionsOf(row.memory) = {}
           /\ \A u \in Versions \ {n} : version'[u] = version[u]
        \/ UNCHANGED version
    BY <2>1, <2>2, <2>3, Insertion DEF Inserted
  <2>5. ASSUME version'[n] = row, row.memory = None \/ VersionsOf(row.memory) = {},
               \A u \in Versions \ {n} : version'[u] = version[u]
        PROVE  Placed(f)
    <3>1. \A u \in Versions \ {n} : Fades(u)
      BY <2>5 DEF Fades
    <3>2. /\ version'[n].claim # None /\ version'[n].memory \in {None, f, fact[f].target}
          /\ version'[n].memory = None \/ VersionsOf(version'[n].memory) = {}
      BY <2>2, <2>5
    <3> QED BY <2>3, <3>1, <3>2 DEF Placed
  <2>6. CASE UNCHANGED version
    BY <1>2, <2>6
  <2> QED BY <2>4, <2>5, <2>6
<1>8. CASE PointFirst(f)
  BY <1>2, <1>8 DEF PointFirst
<1>9. CASE StoreMemory(f)
  BY <1>2, <1>9 DEF StoreMemory
<1>10. CASE UpdateContent(f)
  BY <1>2, <1>10 DEF UpdateContent
<1>11. CASE CloseOldVersion(f)
  BY <1>1, <1>0, <1>11 DEF CloseOldVersion, Fades, VersionType
<1>12. CASE ReleaseMemory(f)
  BY <1>1, <1>0, <1>12 DEF ReleaseMemory, Fades, VersionType
<1>13. CASE ExpireTarget(f)
  BY <1>2, <1>13 DEF ExpireTarget
<1>14. CASE SoftDeleteTarget(f)
  BY <1>2, <1>14 DEF SoftDeleteTarget
<1>15. CASE CreateNextVersion(f)
  <2> DEFINE row == [NoVersion EXCEPT !.claim = OldClaim(f), !.content = f, !.open = TRUE,
                       !.memory = CASE fact[f].plan = "UPDATE" -> fact[f].target
                                    [] fact[f].plan = "SUPERSEDE" -> f [] OTHER -> None,
                       !.kind = CASE fact[f].plan = "UPDATE" -> "update"
                                  [] fact[f].plan = "SUPERSEDE" -> "supersede" [] OTHER -> "delete"]
             n == <<f, "next">>
  <2>1. /\ fact[f].step = "next" /\ InsertVersion(f, n, row, "link")
        /\ fact[f].old # None /\ fact[f].plan \in {"UPDATE", "DELETE", "SUPERSEDE"}
        /\ fact[f].plan \in Mutating => fact[f].target \in Memories
        /\ fact[f].old # None => OldClaim(f) \in Memories
        /\ f \in Memories
        /\ fact[f].step = "first" /\ fact[f].plan \in Mutating => fact[f].text \in Memories
    BY <1>0, <1>15, FactFacts DEF CreateNextVersion, FactOK, FactType
  <2>2. row \in VersionType /\ row.claim # None /\ row.memory \in {None, f, fact[f].target}
    BY <2>1, NamesApart DEF VersionType, NoVersion, Mutating
  <2>3. "link" \in FactSteps \ FactEnds /\ n \in Versions
    BY NamesApart DEF FactSteps, FactEnds
  <2> HIDE DEF row, n
  <2>4. \/ /\ version'[n] = row
           /\ row.memory = None \/ VersionsOf(row.memory) = {}
           /\ \A u \in Versions \ {n} : version'[u] = version[u]
        \/ UNCHANGED version
    BY <2>1, <2>2, <2>3, Insertion DEF Inserted
  <2>5. ASSUME version'[n] = row, row.memory = None \/ VersionsOf(row.memory) = {},
               \A u \in Versions \ {n} : version'[u] = version[u]
        PROVE  Placed(f)
    <3>1. \A u \in Versions \ {n} : Fades(u)
      BY <2>5 DEF Fades
    <3>2. /\ version'[n].claim # None /\ version'[n].memory \in {None, f, fact[f].target}
          /\ version'[n].memory = None \/ VersionsOf(version'[n].memory) = {}
      BY <2>2, <2>5
    <3> QED BY <2>3, <3>1, <3>2 DEF Placed
  <2>6. CASE UNCHANGED version
    BY <1>2, <2>6
  <2> QED BY <2>4, <2>5, <2>6
<1>16. CASE LinkOldVersion(f)
  BY <1>1, <1>0, <1>16 DEF LinkOldVersion, Fades, VersionType
<1>17. CASE Repoint(f)
  BY <1>2, <1>17 DEF Repoint
<1>18. CASE InvalidateOldClaim(f)
  BY <1>2, <1>18 DEF InvalidateOldClaim
<1>19. CASE AbortFact(f)
  BY <1>2, <1>19 DEF AbortFact
<1> QED BY <1>3, <1>4, <1>5, <1>6, <1>7, <1>8, <1>9, <1>10, <1>11, <1>12, <1>13, <1>14, <1>15,
         <1>16, <1>17, <1>18, <1>19 DEF FactNext

\* A memory is only deleted by what is no fact's step, and only one that is there.
DeletedAside ==
    /\ UNCHANGED <<fact, setting>>
    /\ \A v \in Versions : Fades(v)
    /\ \A m \in Memories : \/ memory'[m] = memory[m]
                           \/ memory'[m] = "deleted" /\ memory[m] = "active"
                           \/ /\ memory'[m] = "deleted"
                              /\ \E d \in Deletes : /\ del[d].step = "softDelete"
                                                    /\ del[d].memory = m

LEMMA DeleteFades ==
  ASSUME ShapeInv, NEW d \in Deletes, DeleteNext(d), UNCHANGED setting
  PROVE  DeletedAside
<1>0. /\ del \in [Deletes -> DelType] /\ memory \in [Memories -> MemoryStates]
      /\ version \in [Versions -> VersionType]
  BY DEF ShapeInv, TypeOK
<1>1. CASE ReadDeleted(d)
  BY <1>0, <1>1 DEF ReadDeleted, DeletedAside, Fades, VersionType
<1>2. CASE LookupDeleted(d)
  BY <1>0, <1>2 DEF LookupDeleted, DeletedAside, Fades, VersionType
<1>3. CASE SoftDelete(d)
  BY <1>0, <1>3 DEF SoftDelete, DeletedAside, Fades, VersionType
<1>4. CASE CloseDeleted(d)
  BY <1>0, <1>4 DEF CloseDeleted, DeletedAside, Fades, VersionType
<1>5. CASE InvalidateDeleted(d)
  BY <1>0, <1>5 DEF InvalidateDeleted, DeletedAside, Fades, VersionType
<1>6. CASE AbortDelete(d)
  BY <1>0, <1>6 DEF AbortDelete, DeletedAside, Fades, VersionType
<1> QED BY <1>1, <1>2, <1>3, <1>4, <1>5, <1>6 DEF DeleteNext

\* Every memory a handler names is stored; a version that is not there is about none,
\* and no two are about the same memory.
NamedInv ==
    /\ \A f \in Facts : fact[f].step = "idle" => memory[f] = "absent"
    /\ \A f \in Facts : fact[f].target # None => memory[fact[f].target] # "absent"
    /\ \A d \in Deletes : del[d].memory # None => memory[del[d].memory] # "absent"
OneVersion ==
    /\ \A v \in Versions : ~Present(v) => version[v].memory = None
    /\ \A u, v \in Versions :
         version[u].memory = version[v].memory /\ version[u].memory # None => u = v


\* Every step, once more.
LEMMA StepKindsAgain ==
  ASSUME ShapeInv, [Next]_vars
  PROVE  \/ UNCHANGED <<memory, version, fact, del, setting>>
         \/ \E d \in Deletes : DeleteNext(d) /\ DeletedAside
         \/ DeletedAside /\ UNCHANGED <<version, del>>
         \/ \E f \in Facts : /\ Onward(f) /\ Stored(f) /\ Placed(f) /\ UNCHANGED <<del, setting>>
<1>1. ASSUME NEW f \in Facts, FactNext(f), UNCHANGED setting
      PROVE  Onward(f) /\ Stored(f) /\ Placed(f) /\ UNCHANGED <<del, setting>>
  <2>1. UNCHANGED del
    BY <1>1 DEF FactNext, FindCandidates, ReadTarget, LookupVersion, CreateClaim,
       CreateFirstVersion,
       PointFirst, StoreMemory, UpdateContent, CloseOldVersion, ReleaseMemory, ExpireTarget,
       SoftDeleteTarget, CreateNextVersion, LinkOldVersion, Repoint, InvalidateOldClaim, AbortFact
  <2> QED BY <1>1, <2>1, FactMovesOnward, FactStores, FactPlaces
<1>2. ASSUME NEW d \in Deletes, DeleteNext(d), UNCHANGED setting PROVE DeletedAside
  BY <1>2, DeleteFades
<1>3. ASSUME NEW m \in Memories, Archive(m), UNCHANGED setting
      PROVE  DeletedAside /\ UNCHANGED <<version, del>>
  BY <1>3 DEF Archive, DeletedAside, Fades, ShapeInv, TypeOK
<1>4. CASE UNCHANGED vars
  BY <1>4 DEF vars
<1> QED BY <1>1, <1>2, <1>3, <1>4 DEF Next

LEMMA OneVersionInitial == Init => OneVersion
<1> SUFFICES ASSUME Init PROVE OneVersion
  OBVIOUS
<1>1. PICK claimed \in SUBSET Seeded :
        version = [v \in Versions |-> IF v[1] \in claimed /\ v[2] = "first"
                      THEN [NoVersion EXCEPT !.claim = v[1], !.memory = v[1], !.content = v[1],
                                             !.kind = "add", !.open = TRUE]
                      ELSE NoVersion]
  BY DEF Init
<1>2. ASSUME NEW v \in Versions
      PROVE  \/ version[v].memory = None
             \/ Present(v) /\ version[v].memory = v[1] /\ v[2] = "first"
  <2>1. v[1] \in Memories
    BY DEF Versions
  <2> QED BY <1>1, <2>1, NamesApart DEF NoVersion, Present
<1>3. \A u, v \in Versions : u[1] = v[1] /\ u[2] = v[2] => u = v
  BY DEF Versions
<1> QED BY <1>2, <1>3 DEF OneVersion

LEMMA OneVersionStep ==
  ASSUME ShapeInv, OneVersion, [Next]_vars
  PROVE  OneVersion'
<1>1. ASSUME \A v \in Versions : Fades(v) PROVE OneVersion'
  BY <1>1 DEF OneVersion, Fades, Present
<1>2. ASSUME NEW f \in Facts, NEW n \in Versions,
             \A v \in Versions \ {n} : Fades(v),
             version'[n].claim # None,
             version'[n].memory = None \/ VersionsOf(version'[n].memory) = {}
      PROVE  OneVersion'
  <2>1. ASSUME NEW v \in Versions, version'[v].claim = None PROVE version'[v].memory = None
    BY <1>2, <2>1 DEF OneVersion, Fades, Present
  <2>2. ASSUME NEW v \in Versions \ {n}, version'[v].memory # None
        PROVE  version[v].memory = version'[v].memory /\ Present(v)
    BY <1>2, <2>2 DEF OneVersion, Fades
  <2>3. ASSUME NEW v \in Versions \ {n}, version'[v].memory # None
        PROVE  version'[v].memory # version'[n].memory
    BY <1>2, <2>2, <2>3 DEF VersionsOf
  <2>4. ASSUME NEW u \in Versions, NEW v \in Versions,
               version'[u].memory = version'[v].memory, version'[u].memory # None
        PROVE  u = v
    BY <2>2, <2>3, <2>4 DEF OneVersion
  <2> QED BY <2>1, <2>4 DEF OneVersion, Present
<1>3. UNCHANGED version => \A v \in Versions : Fades(v)
  BY DEF Fades
<1>4. ASSUME NEW f \in Facts, Placed(f) PROVE OneVersion'
  BY <1>1, <1>2, <1>4 DEF Placed
<1> QED BY <1>1, <1>3, <1>4, StepKindsAgain DEF DeletedAside

LEMMA NamedInitial == Init => NamedInv
<1> SUFFICES ASSUME Init PROVE NamedInv
  OBVIOUS
<1>1. /\ \A f \in Facts : fact[f] = NoFact /\ memory[f] = "absent"
      /\ \A d \in Deletes : del[d] = NoDel
  BY NamesApart DEF Init
<1> QED BY <1>1 DEF NamedInv, NoFact, NoDel

LEMMA NamedStep ==
  ASSUME ShapeInv, NamedInv, [Next]_vars
  PROVE  NamedInv'
<1>1. ASSUME DeletedAside
      PROVE  \A m \in Memories : memory'[m] # memory[m] => memory[m] # "absent" /\ memory'[m] # "absent"
  <2> SUFFICES ASSUME NEW m \in Memories, memory'[m] # memory[m]
               PROVE  memory[m] # "absent" /\ memory'[m] # "absent"
    OBVIOUS
  <2>1. CASE memory[m] = "active"
    BY <1>1, <2>1 DEF DeletedAside
  <2>2. ASSUME NEW d \in Deletes, del[d].step = "softDelete", del[d].memory = m, memory'[m] = "deleted"
        PROVE  memory[m] # "absent" /\ memory'[m] # "absent"
    BY <2>2, NamesApart DEF NamedInv
  <2> QED BY <1>1, <2>1, <2>2 DEF DeletedAside
<1>2. ASSUME NEW f \in Facts, Stored(f)
      PROVE  \A m \in Memories : memory'[m] # memory[m] =>
               /\ memory'[m] # "absent"
               /\ memory[m] # "absent" \/ (m = f /\ fact[f].step = "store")
  <2> SUFFICES ASSUME NEW m \in Memories, memory'[m] # memory[m]
               PROVE  /\ memory'[m] # "absent"
                      /\ memory[m] # "absent" \/ (m = f /\ fact[f].step = "store")
    OBVIOUS
  <2>1. \/ m = f /\ fact[f].step = "store" /\ memory'[m] # "absent"
        \/ m = fact[f].target /\ memory'[m] # "absent"
    BY <1>2 DEF Stored
  <2>2. m = fact[f].target => memory[m] # "absent"
    BY NamesApart DEF NamedInv
  <2> QED BY <2>1, <2>2
<1>3. ASSUME UNCHANGED fact, UNCHANGED del,
             \A m \in Memories : memory'[m] # memory[m] => memory[m] # "absent" /\ memory'[m] # "absent"
      PROVE  NamedInv'
  <2>1. ASSUME NEW f \in Facts PROVE f \in Memories /\ (fact[f].target # None => fact[f].target \in Memories)
    BY FactFacts, NamesApart DEF FactType
  <2>2. ASSUME NEW d \in Deletes PROVE del[d].memory # None => del[d].memory \in Memories
    BY DeleteFacts DEF DelType
  <2> QED BY <1>3, <2>1, <2>2 DEF NamedInv
<1>4. ASSUME NEW d \in Deletes, DeleteNext(d), DeletedAside
      PROVE  NamedInv'
  <2>1. UNCHANGED fact
    BY <1>4 DEF DeletedAside
  <2>2. ASSUME NEW f \in Facts PROVE f \in Memories /\ (fact[f].target # None => fact[f].target \in Memories)
    BY FactFacts, NamesApart DEF FactType
  <2>3. ASSUME NEW e \in Deletes, del'[e].memory # None
        PROVE  del'[e].memory \in Memories /\ memory[del'[e].memory] # "absent"
    <3>1. /\ del \in [Deletes -> DelType]
          /\ del[e].memory # None => del[e].memory \in Memories /\ memory[del[e].memory] # "absent"
      BY DeleteFacts DEF ShapeInv, TypeOK, NamedInv, DelType
    <3>2. CASE ReadDeleted(d)
      BY <2>3, <3>1, <3>2 DEF ReadDeleted
    <3>3. CASE LookupDeleted(d)
      <4>1. ASSUME NEW v, del' = [del EXCEPT ![d].old = v, ![d].step = "softDelete"]
            PROVE  del'[e].memory = del[e].memory
        BY <3>1, <4>1 DEF DelType
      <4>2. ASSUME del' = [del EXCEPT ![d].step = "softDelete"]
            PROVE  del'[e].memory = del[e].memory
        BY <3>1, <4>2 DEF DelType
      <4> QED BY <2>3, <3>1, <3>3, <4>1, <4>2 DEF LookupDeleted
    <3>4. CASE SoftDelete(d)
      BY <2>3, <3>1, <3>4 DEF SoftDelete, DelType
    <3>5. CASE CloseDeleted(d)
      BY <2>3, <3>1, <3>5 DEF CloseDeleted, DelType
    <3>6. CASE InvalidateDeleted(d)
      BY <2>3, <3>1, <3>6 DEF InvalidateDeleted, DelType
    <3>7. CASE AbortDelete(d)
      BY <2>3, <3>1, <3>7 DEF AbortDelete, DelType
    <3> QED BY <1>4, <3>2, <3>3, <3>4, <3>5, <3>6, <3>7 DEF DeleteNext
  <2> QED BY <1>1, <1>4, <2>1, <2>2, <2>3 DEF NamedInv
<1>5. ASSUME NEW f \in Facts, Onward(f), Stored(f), UNCHANGED del
      PROVE  NamedInv'
  <2>1. ASSUME NEW g \in Facts, fact'[g].step = "idle" PROVE memory'[g] = "absent"
    <3>1. g # f /\ fact'[g] = fact[g]
      BY <1>5, <2>1 DEF Onward
    <3>2. memory[g] = "absent" /\ g \in Memories
      BY <2>1, <3>1, NamesApart DEF NamedInv
    <3> QED BY <1>2, <1>5, <3>1, <3>2
  <2>2. ASSUME NEW g \in Facts, fact'[g].target # None PROVE memory'[fact'[g].target] # "absent"
    <3>1. fact[g].target # None => fact[g].target \in Memories /\ memory[fact[g].target] # "absent"
      BY FactFacts DEF FactType, NamedInv
    <3>2. CASE fact'[g].target = fact[g].target
      BY <1>2, <1>5, <2>2, <3>1, <3>2
    <3>3. CASE fact'[g].target # fact[g].target
      BY <1>2, <1>5, <2>2, <3>3 DEF Onward, Candidates
    <3> QED BY <3>2, <3>3
  <2>3. ASSUME NEW e \in Deletes, del'[e].memory # None PROVE memory'[del'[e].memory] # "absent"
    <3>1. del[e].memory \in Memories /\ memory[del[e].memory] # "absent" /\ del'[e] = del[e]
      BY <1>5, <2>3, DeleteFacts DEF DelType, NamedInv
    <3> QED BY <1>2, <1>5, <3>1
  <2> QED BY <2>1, <2>2, <2>3 DEF NamedInv
<1> QED BY <1>1, <1>3, <1>4, <1>5, StepKindsAgain DEF DeletedAside

\* With room for one handler, one runs at a time.
SerialInv ==
    setting.inFlight = 1 =>
      /\ \A f, g \in FactsInFlight : f = g
      /\ \A d, e \in DeletesInFlight : d = e
      /\ FactsInFlight = {} \/ DeletesInFlight = {}

LEMMA AtMostOne ==
  ASSUME NEW S, \A x, y \in S : x = y
  PROVE  Cardinality(S) \in Nat /\ (S # {} => Cardinality(S) = 1)
<1>1. CASE S = {}
  BY <1>1, FS_EmptySet
<1>2. CASE S # {}
  <2>1. PICK x : S = {x}
    BY <1>2
  <2> QED BY <1>2, <2>1, FS_Singleton
<1> QED BY <1>1, <1>2

LEMMA RoomMeansNobody ==
  ASSUME SerialInv, setting.inFlight = 1, HasRoom
  PROVE  FactsInFlight = {} /\ DeletesInFlight = {}
<1> DEFINE a == Cardinality(FactsInFlight)
           b == Cardinality(DeletesInFlight)
<1>1. a \in Nat /\ b \in Nat /\ (FactsInFlight # {} => a = 1) /\ (DeletesInFlight # {} => b = 1)
  BY AtMostOne DEF SerialInv
<1>2. a + b < 1
  BY DEF HasRoom
<1> HIDE DEF a, b
<1> QED BY <1>1, <1>2

\* Whoever takes a step was running, or has just started with room for it.
LEMMA OneStarts ==
  ASSUME ShapeInv, NEW d \in Deletes, DeleteNext(d)
  PROVE  /\ \A e \in Deletes \ {d} : del'[e] = del[e]
         /\ d \in DeletesInFlight \/ (del[d].step = "idle" /\ HasRoom)
<1>0. del \in [Deletes -> DelType]
  BY DEF ShapeInv, TypeOK
<1> QED BY <1>0 DEF DeleteNext, ReadDeleted, LookupDeleted, SoftDelete, CloseDeleted,
         InvalidateDeleted,
        AbortDelete, DeletesInFlight, FactEnds

LEMMA SerialStep ==
  ASSUME ShapeInv, SerialInv, [Next]_vars
  PROVE  SerialInv'
<1> SUFFICES ASSUME setting.inFlight = 1, UNCHANGED setting
             PROVE  /\ \A f, g \in FactsInFlight' : f = g
                    /\ \A d, e \in DeletesInFlight' : d = e
                    /\ FactsInFlight' = {} \/ DeletesInFlight' = {}
  <2>1. UNCHANGED setting
    BY DEF Next, vars
  <2> QED BY <2>1 DEF SerialInv
<1>1. CASE UNCHANGED <<fact, del>>
  BY <1>1 DEF SerialInv, FactsInFlight, DeletesInFlight
<1>2. ASSUME NEW f \in Facts, Onward(f), UNCHANGED del
      PROVE  /\ \A h, g \in FactsInFlight' : h = g
             /\ \A d, e \in DeletesInFlight' : d = e
             /\ FactsInFlight' = {} \/ DeletesInFlight' = {}
  <2>1. FactsInFlight' \subseteq FactsInFlight \cup {f} /\ DeletesInFlight' = DeletesInFlight
    BY <1>2 DEF Onward, FactsInFlight, DeletesInFlight
  <2>2. f \in FactsInFlight \/ HasRoom
    BY <1>2 DEF Onward, FactsInFlight, FactEnds
  <2>3. CASE f \in FactsInFlight
    BY <2>1, <2>3 DEF SerialInv
  <2>4. CASE HasRoom
    BY <2>1, <2>4, RoomMeansNobody
  <2> QED BY <2>2, <2>3, <2>4
<1>3. ASSUME NEW d \in Deletes, DeleteNext(d), UNCHANGED fact
      PROVE  /\ \A h, g \in FactsInFlight' : h = g
             /\ \A c, e \in DeletesInFlight' : c = e
             /\ FactsInFlight' = {} \/ DeletesInFlight' = {}
  <2>1. DeletesInFlight' \subseteq DeletesInFlight \cup {d} /\ FactsInFlight' = FactsInFlight
    BY <1>3, OneStarts DEF FactsInFlight, DeletesInFlight
  <2>2. CASE d \in DeletesInFlight
    BY <2>1, <2>2 DEF SerialInv
  <2>3. CASE HasRoom
    BY <2>1, <2>3, RoomMeansNobody
  <2> QED BY <1>3, <2>2, <2>3, OneStarts
<1> QED BY <1>1, <1>2, <1>3, StepKindsAgain DEF DeletedAside

\* Once deleted, a memory keeps no open version, and no handler that runs is about it.
Forgotten(m) ==
    /\ memory[m] = "deleted"
    /\ \A v \in Versions : version[v].memory = m => ~version[v].open
    /\ \A f \in FactsInFlight : f # m /\ fact[f].target # m

\* A deletion with nobody beside it has found the only version of its memory.
DeleteOK(d) ==
    /\ del[d].step = "done" => del[d].memory \in Memories /\ Forgotten(del[d].memory)
    /\ del[d].step \in {"softDelete", "close", "invalidate"} =>
         \A v \in Versions : version[v].memory = del[d].memory => v = del[d].old
    /\ del[d].step \in {"close", "invalidate"} => memory[del[d].memory] = "deleted"
    /\ del[d].step = "invalidate" => ~version[del[d].old].open

DeleteInv == Serial => \A d \in Deletes : DeleteOK(d)

ForgetInv == NamedInv /\ OneVersion /\ SerialInv /\ DeleteInv

LEMMA ForgetInitial == Init => ForgetInv
<1> SUFFICES ASSUME Init PROVE ForgetInv
  OBVIOUS
<1>1. \A f \in Facts : fact[f] = NoFact
  BY DEF Init
<1>2. \A d \in Deletes : del[d] = NoDel
  BY DEF Init
<1>3. FactsInFlight = {} /\ DeletesInFlight = {}
  BY <1>1, <1>2 DEF FactsInFlight, DeletesInFlight, FactEnds, NoFact, NoDel
<1>4. DeleteInv
  BY <1>2 DEF DeleteInv, DeleteOK, NoDel
<1> QED BY <1>3, <1>4, NamedInitial, OneVersionInitial DEF ForgetInv, SerialInv

\* A deleted memory stays forgotten beside a step of a fact's handler,
LEMMA ForgottenBesideFact ==
  ASSUME ShapeInv, NamedInv, NEW f \in Facts, Onward(f), Stored(f), Placed(f),
         NEW m \in Memories, Forgotten(m)
  PROVE  Forgotten(m)'
<1>1. fact[f].step \in FactSteps /\ m # None /\ (fact[f].step = "idle" => fact[f].target = None)
  BY FactFacts, NamesApart DEF FactType, FactOK
<1>2. f # m
  BY <1>1 DEF Onward, NamedInv, Forgotten, FactsInFlight, FactEnds
<1>3. fact[f].target # m
  BY <1>1 DEF Onward, Forgotten, FactsInFlight, FactEnds
<1>4. memory'[m] = "deleted"
  BY <1>2, <1>3 DEF Stored, Forgotten
<1>5. fact'[f].target # m
  BY <1>1, <1>3 DEF Onward, Forgotten, Candidates
<1>6. ASSUME NEW v \in Versions, version'[v].memory = m PROVE ~version'[v].open
  <2>1. Fades(v)
    BY <1>1, <1>2, <1>3, <1>6 DEF Placed
  <2> QED BY <1>1, <1>6, <2>1 DEF Fades, Forgotten
<1>7. ASSUME NEW g \in FactsInFlight' PROVE g # m /\ fact'[g].target # m
  <2>1. CASE g = f
    BY <1>2, <1>5, <2>1
  <2>2. CASE g # f
    <3>1. fact'[g] = fact[g] /\ g \in FactsInFlight
      BY <1>7, <2>2 DEF Onward, FactsInFlight
    <3> QED BY <3>1 DEF Forgotten
  <2> QED BY <2>1, <2>2
<1> QED BY <1>4, <1>6, <1>7 DEF Forgotten

\* and beside a step that is no fact's.
LEMMA ForgottenBesideDelete ==
  ASSUME DeletedAside, NEW m \in Memories, Forgotten(m)
  PROVE  Forgotten(m)'
<1>1. memory'[m] = "deleted" /\ FactsInFlight' = FactsInFlight
  BY DEF DeletedAside, Forgotten, FactsInFlight
<1>2. ASSUME NEW v \in Versions, version'[v].memory = m PROVE ~version'[v].open
  BY <1>2, NamesApart DEF DeletedAside, Fades, Forgotten
<1>3. \A f \in FactsInFlight' : f # m /\ fact'[f].target # m
  BY <1>1 DEF DeletedAside, Forgotten
<1> QED BY <1>1, <1>2, <1>3 DEF Forgotten

LEMMA DeleteFactStep ==
  ASSUME ShapeInv, ForgetInv, Serial, NEW f \in Facts, Onward(f), Stored(f), Placed(f),
         UNCHANGED <<del, setting>>
  PROVE  \A d \in Deletes : DeleteOK(d)'
<1>1. fact[f].step \in FactSteps
  BY FactFacts DEF FactType
<1>2. DeletesInFlight = {}
  <2>1. f \in FactsInFlight \/ HasRoom
    BY DEF Onward, FactsInFlight, FactEnds
  <2> QED BY <2>1, RoomMeansNobody DEF ForgetInv, SerialInv, Serial
<1>3. ASSUME NEW d \in Deletes PROVE DeleteOK(d)'
  <2>1. del[d].step \in FactEnds /\ del'[d] = del[d] /\ DeleteOK(d)
    BY <1>2 DEF DeletesInFlight, ForgetInv, DeleteInv
  <2>2. CASE del[d].step = "done"
    <3>1. del[d].memory \in Memories /\ Forgotten(del[d].memory)
      BY <2>1, <2>2 DEF DeleteOK
    <3>2. ASSUME NEW m \in Memories, m = del[d].memory PROVE Forgotten(m)'
      BY <3>1, <3>2, ForgottenBesideFact DEF ForgetInv
    <3>3. Forgotten(del[d].memory)'
      BY <2>1, <3>1, <3>2 DEF Forgotten
    <3> QED BY <2>1, <2>2, <3>1, <3>3 DEF DeleteOK
  <2>3. CASE del[d].step # "done"
    BY <2>1, <2>3 DEF DeleteOK, FactEnds
  <2> QED BY <2>2, <2>3
<1> QED BY <1>3

LEMMA DeleteOwnStep ==
  ASSUME ShapeInv, ForgetInv, Serial, NEW d \in Deletes, DeleteNext(d), DeletedAside
  PROVE  \A e \in Deletes : DeleteOK(e)'
<1>0. /\ del \in [Deletes -> DelType] /\ version \in [Versions -> VersionType]
      /\ memory \in [Memories -> MemoryStates]
  BY DEF ShapeInv, TypeOK
<1>1. \A e \in Deletes \ {d} : e \notin DeletesInFlight /\ del'[e] = del[e]
  BY OneStarts, RoomMeansNobody DEF ForgetInv, SerialInv, Serial
<1>2. FactsInFlight' = {}
  <2>1. FactsInFlight = {}
    BY OneStarts, RoomMeansNobody DEF ForgetInv, SerialInv, Serial
  <2> QED BY <2>1 DEF DeletedAside, FactsInFlight
<1>3. ASSUME NEW e \in Deletes \ {d} PROVE DeleteOK(e)'
  <2>1. del[e].step \in FactEnds /\ del'[e] = del[e] /\ DeleteOK(e)
    BY <1>1 DEF DeletesInFlight, ForgetInv, DeleteInv
  <2>2. CASE del[e].step = "done"
    <3>1. del[e].memory \in Memories /\ Forgotten(del[e].memory)
      BY <2>1, <2>2 DEF DeleteOK
    <3>2. ASSUME NEW m \in Memories, m = del[e].memory PROVE Forgotten(m)'
      BY <3>1, <3>2, ForgottenBesideDelete
    <3>3. Forgotten(del[e].memory)'
      BY <2>1, <3>1, <3>2 DEF Forgotten
    <3> QED BY <2>1, <2>2, <3>1, <3>3 DEF DeleteOK
  <2>3. CASE del[e].step # "done"
    BY <2>1, <2>3 DEF DeleteOK, FactEnds
  <2> QED BY <2>2, <2>3
<1>4. DeleteOK(d)'
  <2>0. DeleteOK(d) /\ (del[d].step \in DelSteps \ FactEnds => del[d].memory \in Memories)
    BY DeleteFacts DEF ForgetInv, DeleteInv
  <2>1. CASE ReadDeleted(d)
    <3>1. del'[d].step = "lookup"
      BY <1>0, <2>1 DEF ReadDeleted
    <3> QED BY <3>1 DEF DeleteOK
  <2>2. CASE LookupDeleted(d)
    <3>1. /\ del[d].step = "lookup" /\ del[d].memory \in Memories /\ del[d].memory # None
          /\ UNCHANGED <<memory, version>>
      BY <2>0, <2>2, NamesApart DEF LookupDeleted, DelSteps, FactEnds
    <3>2. \A v \in Versions : version[v].memory = del[d].memory => v \in VersionsOf(del[d].memory)
      BY <3>1 DEF VersionsOf, ForgetInv, OneVersion
    <3>3. \A u, v \in VersionsOf(del[d].memory) : u = v
      BY <3>1 DEF VersionsOf, ForgetInv, OneVersion
    <3>4. /\ del'[d].step = "softDelete" /\ del'[d].memory = del[d].memory
          /\ VersionsOf(del[d].memory) # {} => del'[d].old \in VersionsOf(del[d].memory)
      <4>1. ASSUME NEW v \in VersionsOf(del[d].memory),
                   del' = [del EXCEPT ![d].old = v, ![d].step = "softDelete"]
            PROVE  /\ del'[d].step = "softDelete" /\ del'[d].memory = del[d].memory
                   /\ del'[d].old \in VersionsOf(del[d].memory)
        BY <1>0, <4>1 DEF DelType
      <4>2. ASSUME del' = [del EXCEPT ![d].step = "softDelete"]
            PROVE  del'[d].step = "softDelete" /\ del'[d].memory = del[d].memory
        BY <1>0, <4>2 DEF DelType
      <4> QED BY <2>2, <4>1, <4>2 DEF LookupDeleted
    <3>5. \A v \in Versions : version'[v].memory = del'[d].memory => v = del'[d].old
      BY <3>1, <3>2, <3>3, <3>4
    <3> QED BY <3>4, <3>5 DEF DeleteOK
  <2>3. CASE SoftDelete(d)
    <3>1. /\ del[d].step = "softDelete" /\ del[d].memory \in Memories /\ UNCHANGED version
          /\ memory'[del[d].memory] = "deleted" /\ del'[d].memory = del[d].memory
          /\ del'[d].old = del[d].old
          /\ del'[d].step = IF del[d].old = None THEN "done" ELSE "close"
      BY <1>0, <2>0, <2>3 DEF SoftDelete, DelSteps, FactEnds, DelType
    <3>2. \A v \in Versions : version'[v].memory = del[d].memory => v = del[d].old
      BY <2>0, <3>1 DEF DeleteOK
    <3>3. CASE del[d].old = None
      <4>1. Forgotten(del[d].memory)'
        BY <1>2, <3>1, <3>2, <3>3, NamesApart DEF Forgotten
      <4> QED BY <3>1, <3>3, <4>1 DEF DeleteOK
    <3>4. CASE del[d].old # None
      BY <3>1, <3>2, <3>4 DEF DeleteOK
    <3> QED BY <3>3, <3>4
  <2>4. CASE CloseDeleted(d)
    <3>1. /\ del[d].step = "close" /\ del[d].memory \in Memories /\ UNCHANGED memory
          /\ del'[d].memory = del[d].memory /\ del'[d].old = del[d].old /\ del'[d].step = "invalidate"
          /\ del[d].old \in Versions
      BY <1>0, <2>0, <2>4, DeleteFacts DEF CloseDeleted, DelSteps, FactEnds, DelType, DelOK
    <3>2. ~version'[del[d].old].open
      BY <1>0, <2>4, <3>1 DEF CloseDeleted, VersionType
    <3>3. \A v \in Versions : version'[v].memory = del[d].memory => version[v].memory = del[d].memory
      BY <3>1, NamesApart DEF DeletedAside, Fades
    <3> QED BY <2>0, <3>1, <3>2, <3>3 DEF DeleteOK
  <2>5. CASE InvalidateDeleted(d)
    <3>1. /\ del[d].step = "invalidate" /\ del[d].memory \in Memories /\ UNCHANGED <<memory, version>>
          /\ del'[d].memory = del[d].memory /\ del'[d].step = "done"
      BY <1>0, <2>0, <2>5 DEF InvalidateDeleted, DelSteps, FactEnds, DelType
    <3>2. Forgotten(del[d].memory)'
      BY <1>2, <2>0, <3>1 DEF DeleteOK, Forgotten
    <3> QED BY <3>1, <3>2 DEF DeleteOK
  <2>6. CASE AbortDelete(d)
    BY <2>6 DEF AbortDelete, Serial
  <2> QED BY <2>1, <2>2, <2>3, <2>4, <2>5, <2>6 DEF DeleteNext
<1> QED BY <1>3, <1>4

LEMMA DeleteInvStep ==
  ASSUME ShapeInv, ForgetInv, [Next]_vars
  PROVE  DeleteInv'
<1> SUFFICES ASSUME Serial, UNCHANGED setting
             PROVE  \A d \in Deletes : DeleteOK(d)'
  <2>1. UNCHANGED setting
    BY DEF Next, vars
  <2> QED BY <2>1 DEF DeleteInv, Serial
<1>1. CASE UNCHANGED <<memory, version, fact, del>>
  BY <1>1 DEF ForgetInv, DeleteInv, DeleteOK, Forgotten, FactsInFlight
<1>2. ASSUME NEW d \in Deletes, DeleteNext(d), DeletedAside
      PROVE  \A e \in Deletes : DeleteOK(e)'
  BY <1>2, DeleteOwnStep
<1>3. CASE DeletedAside /\ UNCHANGED <<version, del>>
  <2>1. \A m \in Memories : Forgotten(m) => Forgotten(m)'
    BY <1>3, ForgottenBesideDelete
  <2>2. ASSUME NEW d \in Deletes PROVE DeleteOK(d)'
    <3>1. /\ DeleteOK(d) /\ del'[d] = del[d]
          /\ del[d].step \in {"close", "invalidate"} => del[d].memory \in Memories
      BY <1>3, DeleteFacts DEF ForgetInv, DeleteInv, DelSteps, FactEnds
    <3>2. \A m \in Memories : memory[m] = "deleted" => memory'[m] = "deleted"
      BY <1>3 DEF DeletedAside
    <3>3. del[d].step = "done" => Forgotten(del[d].memory)'
      BY <1>3, <2>1, <3>1 DEF DeleteOK, Forgotten
    <3> QED BY <1>3, <3>1, <3>2, <3>3 DEF DeleteOK
  <2> QED BY <2>2
<1>4. ASSUME NEW f \in Facts, Onward(f), Stored(f), Placed(f), UNCHANGED <<del, setting>>
      PROVE  \A d \in Deletes : DeleteOK(d)'
  BY <1>4, DeleteFactStep
<1> QED BY <1>1, <1>2, <1>3, <1>4, StepKindsAgain

\* One handler at a time and none cut off: when deleteMemory has answered, no open version
\* of an active claim is about the memory, so neither current nor historical search
\* returns its words as of now, and no later fact brings it back.
THEOREM ForgottenForGood == Spec => []DeletedIsForgotten
<1>1. ForgetInv => DeletedIsForgotten
  BY DEF ForgetInv, DeleteInv, DeleteOK, Forgotten, DeletedIsForgotten
<1>2. ShapeInv /\ ForgetInv /\ [Next]_vars => ForgetInv'
  BY NamedStep, OneVersionStep, SerialStep, DeleteInvStep DEF ForgetInv
<1> QED BY <1>1, <1>2, ForgetInitial, ShapeHolds, PTL DEF Spec

--------------------------------------------------------------------------------
(* What search returns, what the ledger says and the history agree.               *)

\* Following the successors in ver, every version of S comes nearer to w and stays in S.
Descends(ver, S, w, distance) ==
    \A v \in S :
      /\ distance[v] < Cardinality(S)
      /\ v # w => /\ ver[v].successor \in S
                  /\ distance[ver[v].successor] < distance[v]

Leads(ver, S, w) ==
    w \in S /\ \E distance \in [Versions -> Nat] : Descends(ver, S, w, distance)

\* Where all of S leads, its chains arrive: Chain looks far enough.
LEMMA LeadsInChain ==
  ASSUME NEW S \in SUBSET Versions, NEW w, Leads(version, S, w), NEW v \in S
  PROVE  w \in Chain(v)
<1> DEFINE K == Cardinality(Versions)
           f == CHOOSE f : f = [n \in 0..K |-> Unfolds(v, f, n)]
<1>0. PICK D \in [Versions -> Nat] : Descends(version, S, w, D)
  BY DEF Leads
<1>1. K \in Nat /\ Cardinality(S) \in Nat /\ Cardinality(S) <= K
  BY VersionsAreFinite, FS_Subset, FS_CardinalityType
<1>2. f = [n \in 0..K |-> Unfolds(v, f, n)]
  BY <1>1, Unfolding
<1>3. Chain(v) = f[K]
  BY DEF Chain, Unfolds
<1> HIDE DEF f, K
<1> DEFINE Near(n) == \E u \in S : u \in f[n] /\ (u = w \/ D[u] + n <= D[v])
           T == {n \in 0..K : ~Near(n)}
<1>4. ASSUME T # {} PROVE FALSE
  <2>1. PICK n \in T : \A y \in T : n <= y
    <3>1. T \in SUBSET Nat
      BY <1>1
    <3> HIDE DEF T
    <3> QED BY <1>4, <3>1, LeastOf
  <2>2. n \in 0..K /\ f[n] = Unfolds(v, f, n) /\ ~Near(n)
    BY <1>2, <2>1
  <2>3. ASSUME n = 0 PROVE FALSE
    <3>1. v \in f[n] /\ D[v] \in Nat
      BY <2>2, <2>3 DEF Unfolds
    <3>2. D[v] + n <= D[v]
      BY <2>3, <3>1
    <3> QED BY <2>2, <3>1, <3>2
  <2>4. n - 1 \in 0..K /\ n - 1 \notin T /\ n \in Nat
    BY <1>1, <2>1, <2>2, <2>3
  <2>5. PICK u \in S : u \in f[n - 1] /\ (u = w \/ D[u] + (n - 1) <= D[v])
    BY <2>4
  <2>6. f[n - 1] \subseteq f[n] /\ \A x \in f[n - 1] : version[x].successor # None => version[x].successor \in f[n]
    BY <2>2, <2>3 DEF Unfolds
  <2>7. CASE u = w
    BY <2>2, <2>5, <2>6, <2>7
  <2>8. CASE u # w
    <3>1. version[u].successor \in S /\ D[version[u].successor] < D[u]
      BY <1>0, <2>5, <2>8 DEF Descends
    <3>2. version[u].successor \in f[n]
      BY <2>5, <2>6, <3>1, NamesApart
    <3>3. D[version[u].successor] \in Nat /\ D[u] \in Nat /\ D[v] \in Nat
      BY <1>0, <2>5, <3>1
    <3>4. D[version[u].successor] + n <= D[v]
      BY <2>4, <2>5, <2>8, <3>1, <3>3
    <3> QED BY <2>2, <3>1, <3>2, <3>4
  <2> QED BY <2>7, <2>8
<1>5. Near(K)
  BY <1>1, <1>4
<1>6. PICK u \in S : u \in f[K] /\ (u = w \/ D[u] + K <= D[v])
  BY <1>5
<1>7. D[v] < Cardinality(S) /\ D[u] \in Nat /\ D[v] \in Nat
  BY <1>0, <1>6 DEF Descends
<1>8. u = w
  BY <1>1, <1>6, <1>7
<1> QED BY <1>3, <1>6, <1>8

\* A version alone leads to itself; a new one at the end is where all lead.
LEMMA LeadsAlone ==
  ASSUME NEW ver, NEW w \in Versions
  PROVE  Leads(ver, {w}, w)
<1> DEFINE D == [v \in Versions |-> 0]
<1>1. Cardinality({w}) = 1
  BY FS_Singleton
<1>2. D \in [Versions -> Nat] /\ Descends(ver, {w}, w, D)
  BY <1>1 DEF Descends
<1> QED BY <1>2 DEF Leads

LEMMA LeadsOn ==
  ASSUME NEW S \in SUBSET Versions, NEW ver, NEW after, NEW o, NEW n \in Versions \ S,
         Leads(ver, S, o), after[o].successor = n,
         \A v \in S \ {o} : after[v].successor = ver[v].successor
  PROVE  Leads(after, S \cup {n}, n)
<1>1. PICK D \in [Versions -> Nat] : Descends(ver, S, o, D)
  BY DEF Leads
<1> DEFINE E == [v \in Versions |-> IF v = n THEN 0 ELSE D[v] + 1]
<1>2. E \in [Versions -> Nat] /\ E[n] = 0 /\ \A v \in S : E[v] = D[v] + 1 /\ D[v] \in Nat
  BY <1>1
<1>3. Cardinality(S) \in Nat /\ Cardinality(S \cup {n}) = Cardinality(S) + 1
  BY VersionsAreFinite, FS_Subset, FS_CardinalityType, FS_AddElement
<1> HIDE DEF E
<1>4. ASSUME NEW v \in S \cup {n}
      PROVE  /\ E[v] < Cardinality(S \cup {n})
             /\ v # n => after[v].successor \in S \cup {n} /\ E[after[v].successor] < E[v]
  <2>1. CASE v = n
    BY <1>2, <1>3, <2>1
  <2>2. CASE v # n /\ v = o
    <3>1. D[v] < Cardinality(S) /\ D[v] \in Nat /\ E[v] = D[v] + 1 /\ after[v].successor = n
      BY <1>1, <1>2, <2>2 DEF Leads, Descends
    <3> QED BY <1>2, <1>3, <3>1
  <2>3. CASE v # n /\ v # o
    <3>1. /\ D[v] < Cardinality(S) /\ D[v] \in Nat /\ E[v] = D[v] + 1
          /\ after[v].successor \in S /\ D[after[v].successor] < D[v]
      BY <1>1, <1>2, <2>3 DEF Descends
    <3>2. E[after[v].successor] = D[after[v].successor] + 1 /\ D[after[v].successor] \in Nat
      BY <1>2, <3>1
    <3> QED BY <1>2, <1>3, <3>1, <3>2
  <2> QED BY <2>1, <2>2, <2>3
<1>5. Descends(after, S \cup {n}, n, E)
  BY <1>4 DEF Descends
<1> QED BY <1>2, <1>5 DEF Leads

LEMMA LeadsStill ==
  ASSUME NEW S, NEW ver, NEW after, NEW w, Leads(ver, S, w),
         \A v \in S \ {w} : after[v].successor = ver[v].successor
  PROVE  Leads(after, S, w)
<1>1. PICK D \in [Versions -> Nat] : Descends(ver, S, w, D)
  BY DEF Leads
<1>2. Descends(after, S, w, D)
  BY <1>1 DEF Descends
<1> QED BY <1>2 DEF Leads

\* Between two handlers: an active claim has one open version, its current one, to which
\* all its versions lead, and the version of a memory that is shown is current and has
\* its words.
Live(m) == memory[m] \in {"active", "needs_clarification"}
Opened(c) == {v \in VersionsIn(c) : version[v].open}
Active(v) == [status |-> "active", current |-> v]
Agrees(c) ==
    claim[c].status = "active" =>
      /\ Opened(c) = {claim[c].current}
      /\ Leads(version, VersionsIn(c), claim[c].current)
Explained(m) ==
    \A v \in Versions : version[v].memory = m =>
      claim[version[v].claim] = Active(v) /\ version[v].content = content[m]

\* All that, but for a claim and some memories that a handler is at work on.
Rest(c, M) ==
    /\ \A a \in Memories \ {c} : Agrees(a)
    /\ \A m \in Memories \ M : Live(m) => Explained(m)

\* What a handler has not created yet is not there.
First(f) == <<f, "first">>
Newer(f) == <<f, "next">>
Unclaimed(f) == \/ fact[f].step \in {"idle", "target", "lookup", "claim"}
                \/ fact[f].step = "store" /\ fact[f].plan # "SUPERSEDE"
Unstored(f) ==
    \/ fact[f].step \in {"idle", "target", "lookup", "update", "close", "release", "expire",
                         "softDelete", "store"}
    \/ fact[f].step \in {"claim", "first", "point"} /\ fact[f].plan # "ADD"
    \/ fact[f].step \in {"next", "link", "repoint", "invalidate"} /\ fact[f].plan # "SUPERSEDE"
NoneIn(f) == ~Present(First(f)) /\ \A v \in Versions : version[v].claim # f
Unborn(f) == memory[f] = "absent" /\ content[f] = f /\ \A v \in Versions : version[v].memory # f
NewInv ==
    \A f \in Facts :
      /\ Unclaimed(f) => claim[f].status = "absent"
      /\ Unclaimed(f) \/ fact[f].step = "first" => NoneIn(f)
      /\ Unstored(f) => Unborn(f)

\* A handler that carries out its mutation. The memories: its own one and its target have
\* no version but the new one, or are as the old version says.
Mutates(f) ==
    \/ fact[f].step \in {"update", "close", "release", "expire", "softDelete", "next", "link",
                         "repoint", "invalidate"}
    \/ fact[f].step = "store" /\ fact[f].plan = "SUPERSEDE"
MutatedMemories(f) ==
    LET t == fact[f].target  o == fact[f].old IN
    /\ f # t /\ content[f] = f /\ \A v \in Versions : version[v].memory = f => v = Newer(f)
    /\ fact[f].plan # "SUPERSEDE" => ~Live(f)
    /\ fact[f].plan \in {"SUPERSEDE", "DELETE"} /\ fact[f].step \notin {"expire", "softDelete"} => ~Live(t)
    /\ fact[f].plan = "UPDATE" /\ fact[f].step # "update" => (Live(t) => content[t] = f)
    /\ fact[f].step \in {"update", "close", "release"} => version[o].memory = t
    /\ fact[f].plan = "UPDATE" /\ fact[f].step \in {"next", "link", "repoint"} =>
         \A v \in Versions : version[v].memory = t => v = Newer(f)

\* The claim: it still names the old version, to which all but the new one lead, until
\* the old one is linked to the new one.
MutatedClaim(f) ==
    LET t == fact[f].target  o == fact[f].old  c == OldClaim(f) IN
    /\ claim[c] = Active(o) /\ version[o].memory \in {t, None}
    /\ fact[f].step \notin {"repoint", "invalidate"} => Leads(version, VersionsIn(c) \ {Newer(f)}, o)
    /\ fact[f].step \notin {"link", "repoint", "invalidate"} => Opened(c) \subseteq {o}
    /\ fact[f].step \in {"release", "next"} /\ fact[f].plan = "UPDATE" => Opened(c) = {}
    /\ fact[f].step = "link" =>
         Opened(c) \ {o} = {Newer(f)} /\ (fact[f].plan = "UPDATE" => o \notin Opened(c))
    /\ fact[f].step = "repoint" => Opened(c) = {Newer(f)} /\ Leads(version, VersionsIn(c), Newer(f))
    /\ fact[f].step \in {"link", "repoint"} => version[Newer(f)].content = f

\* What a first version is about, and its words.
About(f) == IF fact[f].plan = "ADD" THEN f ELSE fact[f].target
Words(f) == IF fact[f].plan = "ADD" THEN f ELSE fact[f].text

FactLedger(f) ==
    /\ Unclaimed(f) \/ fact[f].step \in FactEnds => Rest(None, {})
    /\ fact[f].step \in {"target", "lookup"} => Explained(fact[f].target)
    /\ fact[f].step = "lookup" => fact[f].text = content[fact[f].target]
    /\ fact[f].step \in {"claim", "first"} => VersionsOf(About(f)) = {} /\ content[About(f)] = Words(f)
    /\ fact[f].step \in {"first", "point"} => claim[f] = Active(None)
    /\ fact[f].step = "first" => Rest(f, {})
    /\ fact[f].step = "point" =>
         /\ Rest(f, {About(f)}) /\ VersionsIn(f) = {First(f)} /\ version[First(f)].open
         /\ version[First(f)].memory = About(f) /\ version[First(f)].content = content[About(f)]
    /\ Mutates(f) => Rest(OldClaim(f), {f, fact[f].target}) /\ MutatedMemories(f) /\ MutatedClaim(f)

DelLedger(d) ==
    LET m == del[d].memory  o == del[d].old IN
    /\ del[d].step \in FactEnds \cup {"lookup"} \/ o = None => Rest(None, {})
    /\ del[d].step = "lookup" => Explained(m) /\ o = None
    /\ del[d].step \in {"softDelete", "close", "invalidate"} /\ o # None =>
         Rest(version[o].claim, {m}) /\ claim[version[o].claim] = Active(o) /\ version[o].memory = m
    /\ del[d].step \in {"close", "invalidate"} => ~Live(m)

LedgerInv ==
    Serial =>
      /\ Quiet => Rest(None, {})
      /\ \A f \in FactsInFlight : FactLedger(f)
      /\ \A d \in DeletesInFlight : DelLedger(d)

\* Between two handlers that is what the property says.
LEMMA RestIsAgreement ==
  ASSUME TypeOK, LedgerInv
  PROVE  LedgerAgrees
<1> SUFFICES ASSUME Quiet PROVE LedgerAgrees
  BY DEF LedgerAgrees, OneOpenVersion, VisibleIsCurrent, ChainReachesCurrent
<1>1. Rest(None, {})
  BY DEF LedgerInv, Quiet
<1>2. \A c \in Memories : Agrees(c)
  BY <1>1, NamesApart DEF Rest
<1>3. \A m \in Memories : Live(m) => Explained(m)
  BY <1>1 DEF Rest
<1>4. OneOpenVersion
  BY <1>2 DEF OneOpenVersion, Agrees, ActiveClaims, Opened
<1>5. VisibleIsCurrent
  BY <1>3 DEF VisibleIsCurrent, Explained, Live, Active
<1>6. ChainReachesCurrent
  <2> SUFFICES ASSUME NEW c \in ActiveClaims, NEW v \in VersionsIn(c)
               PROVE  claim[c].current \in Chain(v)
    BY DEF ChainReachesCurrent
  <2>1. Leads(version, VersionsIn(c), claim[c].current)
    BY <1>2 DEF ActiveClaims, Agrees
  <2>2. VersionsIn(c) \in SUBSET Versions
    BY DEF VersionsIn
  <2> QED BY <2>1, <2>2, LeadsInChain
<1> QED BY <1>4, <1>5, <1>6 DEF LedgerAgrees

LEMMA LedgerInitial == Init => NewInv /\ LedgerInv
<1> SUFFICES ASSUME Init PROVE NewInv /\ LedgerInv
  OBVIOUS
<1>1. PICK claimed \in SUBSET Seeded :
        /\ claim = [c \in Memories |-> IF c \in claimed
                     THEN [status |-> "active", current |-> <<c, "first">>] ELSE NoClaim]
        /\ version = [v \in Versions |-> IF v[1] \in claimed /\ v[2] = "first"
                      THEN [NoVersion EXCEPT !.claim = v[1], !.memory = v[1], !.content = v[1],
                                             !.kind = "add", !.open = TRUE]
                      ELSE NoVersion]
  BY DEF Init
<1>2. /\ \A f \in Facts : fact[f] = NoFact
      /\ \A d \in Deletes : del[d] = NoDel
      /\ content = [m \in Memories |-> m]
      /\ \A f \in Facts : memory[f] = "absent"
  BY NamesApart DEF Init
<1>3. ASSUME NEW v \in Versions
      PROVE  \/ version[v] = NoVersion /\ ~(v[1] \in claimed /\ v[2] = "first")
             \/ /\ v[1] \in claimed /\ v[2] = "first"
                /\ version[v].claim = v[1] /\ version[v].memory = v[1]
                /\ version[v].content = v[1] /\ version[v].open
  <2>1. v[1] \in Memories
    BY DEF Versions
  <2> QED BY <1>1, <2>1 DEF NoVersion
<1>4. \A u, v \in Versions : u[1] = v[1] /\ u[2] = v[2] => u = v
  BY DEF Versions
<1>5. NoVersion.claim = None /\ NoVersion.memory = None /\ NoVersion.open = FALSE
  BY DEF NoVersion
<1>6. NewInv
  <2> SUFFICES ASSUME NEW f \in Facts
               PROVE  claim[f].status = "absent" /\ NoneIn(f) /\ Unborn(f)
    BY DEF NewInv
  <2>1. f \in Memories /\ f \notin claimed /\ f # None /\ First(f) \in Versions /\ First(f)[1] = f
    BY NamesApart DEF First
  <2>2. claim[f].status = "absent"
    BY <1>1, <2>1 DEF NoClaim
  <2>3. \A v \in Versions : version[v].claim # f /\ version[v].memory # f
    BY <1>3, <1>5, <2>1
  <2>4. version[First(f)].claim = None
    BY <1>3, <1>5, <2>1
  <2> QED BY <1>2, <2>1, <2>2, <2>3, <2>4 DEF NoneIn, Unborn, Present
<1>7. ASSUME NEW c \in Memories PROVE Agrees(c)
  <2>1. CASE c \notin claimed
    BY <1>1, <2>1 DEF Agrees, NoClaim
  <2>2. CASE c \in claimed
    <3>1. claim[c].current = <<c, "first">> /\ <<c, "first">> \in Versions
      BY <1>1, <2>2, NamesApart
    <3>2. VersionsIn(c) = {<<c, "first">>} /\ Opened(c) = {<<c, "first">>}
      BY <1>3, <1>4, <1>5, <2>2, <3>1, NamesApart DEF VersionsIn, Opened
    <3> QED BY <3>1, <3>2, LeadsAlone DEF Agrees
  <2> QED BY <2>1, <2>2
<1>8. ASSUME NEW m \in Memories PROVE Explained(m)
  <2> SUFFICES ASSUME NEW v \in Versions, version[v].memory = m
               PROVE  claim[version[v].claim] = Active(v) /\ version[v].content = content[m]
    BY DEF Explained
  <2>1. v[1] = m /\ m \in claimed /\ v[2] = "first" /\ version[v].claim = m /\ version[v].content = m
    BY <1>3, <1>5, NamesApart
  <2>2. v = <<m, "first">>
    BY <2>1 DEF Versions
  <2> QED BY <1>1, <1>2, <2>1, <2>2 DEF Active
<1>9. FactsInFlight = {} /\ DeletesInFlight = {}
  BY <1>2 DEF FactsInFlight, DeletesInFlight, FactEnds, NoFact, NoDel
<1> QED BY <1>6, <1>7, <1>8, <1>9 DEF LedgerInv, Rest

\* What a step of a fact's handler writes is its own: the versions and the claim it
\* creates, and what the version it is about names.
Owned(f) ==
    /\ \A v \in Versions :
         \/ /\ version'[v].claim = version[v].claim
            /\ version'[v].memory \in {version[v].memory, None}
         \/ /\ v = First(f) /\ fact[f].step = "first"
            /\ version'[v].claim = f /\ version'[v].memory = About(f)
         \/ /\ v = Newer(f) /\ fact[f].step = "next" /\ version'[v].claim = OldClaim(f)
            /\ version'[v].memory \in {None, f, fact[f].target}
            /\ fact[f].plan # "SUPERSEDE" => version'[v].memory \in {None, fact[f].target}
    /\ \A c \in Memories :
         \/ claim'[c] = claim[c]
         \/ c = f /\ fact[f].step \in {"claim", "point"}
         \/ c = OldClaim(f) /\ fact[f].step \in {"repoint", "invalidate"}
    /\ \A m \in Memories : content'[m] = content[m] \/ (m = fact[f].target /\ fact[f].step = "update")

\* Its steps before it creates a claim, a version or a memory come before those after.
Ordered(f) ==
    /\ fact'[f].step = "first" => fact[f].step = "claim"
    /\ Unclaimed(f)' => Unclaimed(f) /\ fact[f].step # "claim"
    /\ Unstored(f)' => Unstored(f) /\ fact[f].step # "store"

LEMMA FactIsOrdered ==
  ASSUME ShapeInv, NEW f \in Facts, FactNext(f)
  PROVE  Ordered(f)
<1>0. fact \in [Facts -> FactType] /\ fact[f] \in FactType /\ FactOK(f)
  BY FactFacts DEF ShapeInv, TypeOK
<1> USE DEF Ordered, Unclaimed, Unstored, FactType, FactOK, Mutating, Goto
<1>1. CASE FindCandidates(f)
  BY <1>0, <1>1, Found
<1>2. CASE ReadTarget(f)
  BY <1>0, <1>2 DEF ReadTarget
<1>3. CASE LookupVersion(f)
  BY <1>0, <1>3, LookedUp DEF MutationStep
<1>4. CASE CreateClaim(f)
  BY <1>0, <1>4 DEF CreateClaim
<1>5. CASE CreateFirstVersion(f)
  BY <1>0, <1>5 DEF CreateFirstVersion, InsertVersion
<1>6. CASE PointFirst(f)
  BY <1>0, <1>6 DEF PointFirst, MutationStep
<1>7. CASE StoreMemory(f)
  BY <1>0, <1>7 DEF StoreMemory
<1>8. CASE UpdateContent(f)
  BY <1>0, <1>8 DEF UpdateContent
<1>9. CASE CloseOldVersion(f)
  BY <1>0, <1>9 DEF CloseOldVersion
<1>10. CASE ReleaseMemory(f)
  BY <1>0, <1>10 DEF ReleaseMemory
<1>11. CASE ExpireTarget(f)
  BY <1>0, <1>11 DEF ExpireTarget
<1>12. CASE SoftDeleteTarget(f)
  BY <1>0, <1>12 DEF SoftDeleteTarget
<1>13. CASE CreateNextVersion(f)
  BY <1>0, <1>13 DEF CreateNextVersion, InsertVersion
<1>14. CASE LinkOldVersion(f)
  BY <1>0, <1>14 DEF LinkOldVersion
<1>15. CASE Repoint(f)
  BY <1>0, <1>15 DEF Repoint
<1>16. CASE InvalidateOldClaim(f)
  BY <1>0, <1>16 DEF InvalidateOldClaim
<1>17. CASE AbortFact(f)
  BY <1>0, <1>17 DEF AbortFact, FactsInFlight, FactEnds
<1> QED BY <1>1, <1>2, <1>3, <1>4, <1>5, <1>6, <1>7, <1>8, <1>9, <1>10, <1>11, <1>12, <1>13,
         <1>14, <1>15, <1>16, <1>17 DEF FactNext

\* The row of a first version and of a later one, and what writing it leaves alone.
FirstVersion(f) ==
    [NoVersion EXCEPT !.claim = f, !.open = TRUE, !.memory = About(f), !.content = Words(f),
                      !.kind = IF fact[f].plan = "ADD" THEN "add" ELSE "none"]
NextVersion(f) ==
    [NoVersion EXCEPT !.claim = OldClaim(f), !.content = f, !.open = TRUE,
       !.memory = CASE fact[f].plan = "UPDATE" -> fact[f].target
                    [] fact[f].plan = "SUPERSEDE" -> f [] OTHER -> None,
       !.kind = CASE fact[f].plan = "UPDATE" -> "update"
                  [] fact[f].plan = "SUPERSEDE" -> "supersede" [] OTHER -> "delete"]

LEMMA FirstInserted ==
  ASSUME ShapeInv, NEW f \in Facts, CreateFirstVersion(f)
  PROVE  /\ fact[f].step = "first" /\ UNCHANGED <<memory, content, claim, del>>
         /\ fact[f].plan \in Mutating \cup {"ADD"} /\ About(f) \in Memories
         /\ Inserted(f, First(f), FirstVersion(f), "point")
         /\ FirstVersion(f) \in VersionType /\ FirstVersion(f).claim = f
         /\ FirstVersion(f).memory = About(f) /\ FirstVersion(f).content = Words(f)
         /\ FirstVersion(f).open /\ FirstVersion(f).successor = None
         /\ InsertVersion(f, First(f), FirstVersion(f), "point")
<1>1. /\ fact[f].step = "first" /\ UNCHANGED <<memory, content, claim, del>>
      /\ InsertVersion(f, First(f), FirstVersion(f), "point")
  <2>1. CASE fact[f].plan = "ADD"
    BY <2>1 DEF CreateFirstVersion, FirstVersion, First, About, Words
  <2>2. CASE fact[f].plan # "ADD"
    BY <2>2 DEF CreateFirstVersion, FirstVersion, First, About, Words
  <2> QED BY <2>1, <2>2
<1>2. /\ fact[f].plan \in Mutating \cup {"ADD"} /\ f \in Memories
      /\ fact[f].plan \in Mutating => fact[f].target \in Memories /\ fact[f].text \in Memories
  BY <1>1, FactFacts DEF FactOK, FactType
<1>3. About(f) \in Memories /\ Words(f) \in Memories
  BY <1>2 DEF About, Words
<1>4. /\ FirstVersion(f) \in VersionType /\ FirstVersion(f).claim = f
      /\ FirstVersion(f).memory = About(f) /\ FirstVersion(f).content = Words(f)
      /\ FirstVersion(f).open /\ FirstVersion(f).successor = None
  BY <1>2, <1>3, NamesApart DEF FirstVersion, VersionType, NoVersion
<1>5. First(f) \in Versions /\ "point" \in FactSteps \ FactEnds /\ f # None
  BY NamesApart, <1>2 DEF First, FactSteps, FactEnds
<1> QED BY <1>1, <1>2, <1>3, <1>4, <1>5, Insertion

LEMMA NextInserted ==
  ASSUME ShapeInv, NEW f \in Facts, CreateNextVersion(f)
  PROVE  /\ fact[f].step = "next" /\ UNCHANGED <<memory, content, claim, del>>
         /\ fact[f].plan \in {"UPDATE", "DELETE", "SUPERSEDE"}
         /\ Inserted(f, Newer(f), NextVersion(f), "link")
         /\ NextVersion(f) \in VersionType /\ NextVersion(f).claim = OldClaim(f)
         /\ NextVersion(f).memory = CASE fact[f].plan = "UPDATE" -> fact[f].target
                                      [] fact[f].plan = "SUPERSEDE" -> f [] OTHER -> None
         /\ NextVersion(f).content = f /\ NextVersion(f).open /\ NextVersion(f).successor = None
         /\ InsertVersion(f, Newer(f), NextVersion(f), "link")
<1>1. /\ fact[f].step = "next" /\ UNCHANGED <<memory, content, claim, del>>
      /\ InsertVersion(f, Newer(f), NextVersion(f), "link")
  BY DEF CreateNextVersion, NextVersion, Newer
<1>2. /\ fact[f].plan \in {"UPDATE", "DELETE", "SUPERSEDE"} /\ f \in Memories
      /\ fact[f].target \in Memories /\ OldClaim(f) \in Memories /\ OldClaim(f) # None
  <2>1. fact[f].plan \in {"UPDATE", "DELETE", "SUPERSEDE"} /\ fact[f].old # None
    BY <1>1, FactFacts DEF FactOK
  <2>2. fact[f].plan \in Mutating
    BY <2>1 DEF Mutating
  <2> QED BY <2>1, <2>2, FactFacts, NamesApart
<1>3. /\ NextVersion(f) \in VersionType /\ NextVersion(f).claim = OldClaim(f)
      /\ NextVersion(f).content = f /\ NextVersion(f).open /\ NextVersion(f).successor = None
      /\ NextVersion(f).memory = CASE fact[f].plan = "UPDATE" -> fact[f].target
                                   [] fact[f].plan = "SUPERSEDE" -> f [] OTHER -> None
  BY <1>2, NamesApart DEF NextVersion, VersionType, NoVersion
<1>4. Newer(f) \in Versions /\ "link" \in FactSteps \ FactEnds
  BY NamesApart DEF Newer, FactSteps, FactEnds
<1> QED BY <1>1, <1>2, <1>3, <1>4, Insertion

LEMMA FactOwns ==
  ASSUME ShapeInv, NEW f \in Facts, FactNext(f)
  PROVE  Owned(f)
<1>0. /\ fact \in [Facts -> FactType] /\ claim \in [Memories -> ClaimType]
      /\ version \in [Versions -> VersionType] /\ content \in [Memories -> Memories]
      /\ fact[f] \in FactType /\ f \in Memories
  BY FactFacts DEF ShapeInv, TypeOK
<1>1. ASSUME UNCHANGED <<version, content, claim>> PROVE Owned(f)
  BY <1>1 DEF Owned
<1>2. ASSUME UNCHANGED <<version, content>>,
             \A c \in Memories :
               \/ claim'[c] = claim[c]
               \/ c = f /\ fact[f].step \in {"claim", "point"}
               \/ c = OldClaim(f) /\ fact[f].step \in {"repoint", "invalidate"}
      PROVE  Owned(f)
  BY <1>2 DEF Owned
<1>3. ASSUME UNCHANGED <<claim, content>>,
             \A v \in Versions : /\ version'[v].claim = version[v].claim
                                 /\ version'[v].memory \in {version[v].memory, None}
      PROVE  Owned(f)
  BY <1>3 DEF Owned
<1>4. CASE FindCandidates(f)
  BY <1>1, <1>4, Found
<1>5. CASE ReadTarget(f)
  BY <1>1, <1>5 DEF ReadTarget
<1>6. CASE LookupVersion(f)
  BY <1>1, <1>6 DEF LookupVersion
<1>7. CASE CreateClaim(f)
  BY <1>0, <1>2, <1>7 DEF CreateClaim
<1>8. CASE CreateFirstVersion(f)
  <2>1. /\ fact[f].step = "first" /\ UNCHANGED <<memory, content, claim, del>>
        /\ Inserted(f, First(f), FirstVersion(f), "point")
        /\ FirstVersion(f).claim = f /\ FirstVersion(f).memory = About(f)
    BY <1>8, FirstInserted
  <2> QED BY <1>1, <2>1 DEF Owned, Inserted
<1>9. CASE PointFirst(f)
  BY <1>0, <1>2, <1>9 DEF PointFirst, PointClaim
<1>10. CASE StoreMemory(f)
  BY <1>1, <1>10 DEF StoreMemory
<1>11. CASE UpdateContent(f)
  BY <1>0, <1>11 DEF UpdateContent, Owned
<1>12. CASE CloseOldVersion(f)
  BY <1>0, <1>3, <1>12 DEF CloseOldVersion, VersionType
<1>13. CASE ReleaseMemory(f)
  BY <1>0, <1>3, <1>13 DEF ReleaseMemory, VersionType
<1>14. CASE ExpireTarget(f)
  BY <1>1, <1>14 DEF ExpireTarget
<1>15. CASE SoftDeleteTarget(f)
  BY <1>1, <1>15 DEF SoftDeleteTarget
<1>16. CASE CreateNextVersion(f)
  <2>1. /\ fact[f].step = "next" /\ UNCHANGED <<memory, content, claim, del>>
        /\ fact[f].plan \in {"UPDATE", "DELETE", "SUPERSEDE"}
        /\ Inserted(f, Newer(f), NextVersion(f), "link")
        /\ NextVersion(f).claim = OldClaim(f)
        /\ NextVersion(f).memory = CASE fact[f].plan = "UPDATE" -> fact[f].target
                                     [] fact[f].plan = "SUPERSEDE" -> f [] OTHER -> None
    BY <1>16, NextInserted
  <2>2. /\ NextVersion(f).memory \in {None, f, fact[f].target}
        /\ fact[f].plan # "SUPERSEDE" => NextVersion(f).memory \in {None, fact[f].target}
    BY <2>1
  <2> QED BY <1>1, <2>1, <2>2 DEF Owned, Inserted
<1>17. CASE LinkOldVersion(f)
  BY <1>0, <1>3, <1>17 DEF LinkOldVersion, VersionType
<1>18. CASE Repoint(f)
  BY <1>0, <1>2, <1>18 DEF Repoint, PointClaim
<1>19. CASE InvalidateOldClaim(f)
  BY <1>0, <1>2, <1>19 DEF InvalidateOldClaim
<1>20. CASE AbortFact(f)
  BY <1>1, <1>20 DEF AbortFact
<1> QED BY <1>4, <1>5, <1>6, <1>7, <1>8, <1>9, <1>10, <1>11, <1>12, <1>13, <1>14, <1>15,
         <1>16, <1>17, <1>18, <1>19, <1>20 DEF FactNext

\* The versions, claims and memories that are not there yet stay so beside a step of
\* another handler, and of the handler itself until the step that creates them.
LEMMA NewBesideFact ==
  ASSUME ShapeInv, NamedInv, NewInv, NEW f \in Facts, Onward(f), Stored(f), Owned(f), Ordered(f)
  PROVE  NewInv'
<1>0. /\ fact[f].target # None => fact[f].target \in Memories /\ memory[fact[f].target] # "absent"
      /\ fact[f].old # None => OldClaim(f) = version[fact[f].old].claim /\ fact[f].old \in Versions
      /\ f \in Memories /\ None \notin Memories
      /\ fact[f].step \in {"repoint", "invalidate", "next"} => fact[f].old # None
      /\ \A g \in Facts : First(g) \in Versions /\ Newer(g) \in Versions
  BY FactFacts, NamesApart DEF FactType, FactOK, NamedInv, OldClaim, First, Newer
<1>1. ASSUME NEW g \in Facts, g # f
      PROVE  /\ (Unclaimed(g)' <=> Unclaimed(g)) /\ (Unstored(g)' <=> Unstored(g))
             /\ fact'[g].step = fact[g].step
  BY <1>1 DEF Onward, Unclaimed, Unstored
<1>2. ASSUME NEW g \in Facts, Unclaimed(g)' PROVE claim'[g].status = "absent"
  <2>1. Unclaimed(g) /\ (g = f => fact[f].step # "claim")
    BY <1>1, <1>2 DEF Ordered
  <2>2. claim[g].status = "absent" /\ NoneIn(g) /\ g \in Memories
    BY <2>1, NamesApart DEF NewInv
  <2>3. OldClaim(f) # g \/ fact[f].step \notin {"repoint", "invalidate"}
    BY <1>0, <2>2 DEF NoneIn
  <2>4. g = f => fact[f].step \notin {"claim", "point"}
    BY <2>1 DEF Unclaimed
  <2> QED BY <2>2, <2>3, <2>4 DEF Owned
<1>3. ASSUME NEW g \in Facts, Unclaimed(g)' \/ fact'[g].step = "first" PROVE NoneIn(g)'
  <2>1. Unclaimed(g) \/ fact[g].step = "first"
    BY <1>1, <1>3 DEF Ordered, Unclaimed
  <2>2. NoneIn(g) /\ g \in Memories /\ (g = f => fact[f].step # "first")
    <3>1. ASSUME fact[f].step = "first" PROVE ~Unclaimed(f)' /\ fact'[f].step # "first"
      BY <3>1 DEF Ordered, Unclaimed
    <3> QED BY <1>3, <2>1, <3>1, NamesApart DEF NewInv
  <2>3. fact[f].step = "next" => OldClaim(f) # g
    BY <1>0, <2>2 DEF NoneIn
  <2>4. ASSUME NEW v \in Versions PROVE version'[v].claim # g
    BY <2>2, <2>3 DEF Owned, NoneIn
  <2>5. ~Present(First(g))'
    <3>1. version[First(g)].claim = None /\ First(g) # Newer(f) /\ (First(g) = First(f) => g = f)
      BY <2>2 DEF NoneIn, Present, First, Newer
    <3>2. version'[First(g)].claim = None
      BY <1>0, <2>2, <3>1 DEF Owned
    <3> QED BY <3>2 DEF Present, First
  <2> QED BY <2>4, <2>5 DEF NoneIn
<1>4. ASSUME NEW g \in Facts, Unstored(g)' PROVE Unborn(g)'
  <2>1. Unstored(g) /\ (g = f => fact[f].step # "store")
    BY <1>1, <1>4 DEF Ordered
  <2>2. memory[g] = "absent" /\ content[g] = g /\ g \in Memories /\ \A v \in Versions : version[v].memory # g
    BY <2>1, NamesApart DEF NewInv, Unborn
  <2>3. fact[f].target # g
    BY <1>0, <2>2
  <2>4. content'[g] = g
    BY <2>2, <2>3 DEF Owned
  <2>5. memory'[g] = "absent"
    BY <2>1, <2>2, <2>3 DEF Stored
  <2>6. ASSUME NEW v \in Versions, version'[v].memory = g PROVE FALSE
    <3>1. g # None
      BY <1>0, <2>2
    <3>2. CASE v = First(f) /\ fact[f].step = "first" /\ version'[v].memory = About(f)
      BY <2>1, <2>3, <2>6, <3>2 DEF About, Unstored
    <3>3. CASE /\ v = Newer(f) /\ fact[f].step = "next" /\ version'[v].memory \in {None, f, fact[f].target}
               /\ fact[f].plan # "SUPERSEDE" => version'[v].memory \in {None, fact[f].target}
      BY <2>1, <2>3, <2>6, <3>1, <3>3 DEF Unstored
    <3> QED BY <2>2, <2>6, <3>1, <3>2, <3>3 DEF Owned
  <2> QED BY <2>4, <2>5, <2>6 DEF Unborn
<1> QED BY <1>2, <1>3, <1>4 DEF NewInv

LEMMA NewBesideDelete ==
  ASSUME ShapeInv, NamedInv, NewInv, DeletedAside, UNCHANGED content,
         \A c \in Memories : claim'[c] = claim[c] \/ \E v \in Versions : version[v].claim = c
  PROVE  NewInv'
<1>1. \A m \in Memories : memory[m] = "absent" => memory'[m] = "absent"
  BY NamesApart DEF DeletedAside, NamedInv
<1>2. ASSUME NEW g \in Facts
      PROVE  /\ (Unclaimed(g)' <=> Unclaimed(g)) /\ (Unstored(g)' <=> Unstored(g))
             /\ fact'[g].step = fact[g].step /\ First(g) \in Versions /\ g \in Memories /\ g # None
  BY NamesApart DEF DeletedAside, Unclaimed, Unstored, First
<1>3. ASSUME NEW g \in Facts, NoneIn(g) PROVE NoneIn(g)' /\ claim'[g] = claim[g]
  <2>1. \A v \in Versions : version'[v].claim = version[v].claim
    BY DEF DeletedAside, Fades
  <2>2. ~Present(First(g))'
    BY <1>2, <1>3, <2>1 DEF NoneIn, Present, First
  <2> QED BY <1>2, <1>3, <2>1, <2>2 DEF NoneIn
<1>4. ASSUME NEW g \in Facts, Unborn(g) PROVE Unborn(g)'
  BY <1>1, <1>2, <1>4 DEF Unborn, DeletedAside, Fades
<1> QED BY <1>2, <1>3, <1>4 DEF NewInv

\* What a handler works on may change, and the rest still agrees.
LEMMA RestStays ==
  ASSUME ShapeInv, OneVersion, NEW c, NEW M, Rest(c, M),
         \A a \in Memories \ {c} : claim'[a] = claim[a],
         \A v \in Versions :
           \/ version'[v] = version[v]
           \/ version[v].claim \in {c, None} /\ version'[v].claim = c /\ version'[v].memory \in M \cup {None},
         \A m \in Memories \ M : content'[m] = content[m] /\ (Live(m)' => Live(m)),
         c \in Memories =>
           \A v \in Versions : claim[c] = Active(v) => version[v].memory \in M \cup {None}
  PROVE  /\ \A a \in Memories \ {c} : Agrees(a)'
         /\ \A m \in Memories \ M : Live(m)' => Explained(m)'
<1>1. ASSUME NEW a \in Memories \ {c} PROVE Agrees(a)'
  <2> SUFFICES ASSUME claim'[a].status = "active"
               PROVE  /\ Opened(a)' = {claim'[a].current}
                      /\ Leads(version', VersionsIn(a)', claim'[a].current)
    BY DEF Agrees
  <2>1. a # None /\ a # c /\ claim'[a] = claim[a]
    BY NamesApart
  <2>2. /\ Opened(a) = {claim[a].current}
        /\ Leads(version, VersionsIn(a), claim[a].current)
    BY <2>1 DEF Rest, Agrees
  <2>3. \A v \in Versions : (version'[v].claim = a <=> version[v].claim = a)
                            /\ (version[v].claim = a => version'[v] = version[v])
    BY <2>1
  <2>4. VersionsIn(a)' = VersionsIn(a)
    BY <2>3 DEF VersionsIn
  <2>5. Opened(a)' = Opened(a)
    BY <2>3, <2>4 DEF Opened, VersionsIn
  <2>6. \A v \in VersionsIn(a) : version'[v].successor = version[v].successor
    BY <2>3 DEF VersionsIn
  <2>7. Leads(version', VersionsIn(a), claim[a].current)
    BY <2>2, <2>6, LeadsStill
  <2> QED BY <2>1, <2>2, <2>4, <2>5, <2>7
<1>2. ASSUME NEW m \in Memories \ M, Live(m)' PROVE Explained(m)'
  <2> SUFFICES ASSUME NEW v \in Versions, version'[v].memory = m
               PROVE  claim'[version'[v].claim] = Active(v) /\ version'[v].content = content'[m]
    BY DEF Explained
  <2>1. Explained(m) /\ content'[m] = content[m] /\ m # None
    BY <1>2, NamesApart DEF Rest
  <2>2. version'[v] = version[v]
    BY <2>1
  <2>3. claim[version[v].claim] = Active(v) /\ version[v].content = content[m]
    BY <2>1, <2>2 DEF Explained
  <2>4. version[v].claim \in Memories
    <3>1. version[v] \in VersionType
      BY DEF ShapeInv, TypeOK
    <3>2. version[v].claim # None
      BY <2>1, <2>2 DEF OneVersion, Present
    <3> QED BY <3>1, <3>2 DEF VersionType
  <2>5. version[v].claim # c
    BY <2>1, <2>2, <2>3, <2>4
  <2> QED BY <2>1, <2>2, <2>3, <2>4, <2>5
<1> QED BY <1>1, <1>2

LEMMA MutationFrame ==
  ASSUME ShapeInv, OneVersion, NEW f \in Facts, Mutates(f), FactLedger(f),
         \A a \in Memories \ {OldClaim(f)} : claim'[a] = claim[a],
         \A v \in Versions :
           \/ version'[v] = version[v]
           \/ /\ version[v].claim \in {OldClaim(f), None} /\ version'[v].claim = OldClaim(f)
              /\ version'[v].memory \in {f, fact[f].target, None},
         \A m \in Memories \ {f, fact[f].target} : content'[m] = content[m] /\ (Live(m)' => Live(m))
  PROVE  /\ \A a \in Memories \ {OldClaim(f)} : Agrees(a)'
         /\ \A m \in Memories \ {f, fact[f].target} : Live(m)' => Explained(m)'
<1> DEFINE c == OldClaim(f)
           M == {f, fact[f].target}
<1>1. Rest(c, M) /\ claim[c] = Active(fact[f].old) /\ version[fact[f].old].memory \in M \cup {None}
  BY DEF FactLedger, MutatedClaim
<1>2. \A v \in Versions : claim[c] = Active(v) => version[v].memory \in M \cup {None}
  BY <1>1 DEF Active
<1>3. \A v \in Versions :
           \/ version'[v] = version[v]
           \/ version[v].claim \in {c, None} /\ version'[v].claim = c /\ version'[v].memory \in M \cup {None}
  OBVIOUS
<1>4. /\ \A a \in Memories \ {c} : claim'[a] = claim[a]
      /\ \A m \in Memories \ M : content'[m] = content[m] /\ (Live(m)' => Live(m))
  OBVIOUS
<1> HIDE DEF c, M
<1>5. /\ \A a \in Memories \ {c} : Agrees(a)'
      /\ \A m \in Memories \ M : Live(m)' => Explained(m)'
  BY <1>1, <1>2, <1>3, <1>4, RestStays
<1> QED BY <1>5 DEF c, M

\* What Mutates needs of the old version, and of its handler.
LEMMA MutationFacts ==
  ASSUME ShapeInv, YoungerInv, NEW f \in Facts, Mutates(f), FactLedger(f)
  PROVE  /\ fact[f].plan \in {"UPDATE", "DELETE", "SUPERSEDE"} /\ fact[f].target \in Memories
         /\ fact[f].old \in Versions /\ version[fact[f].old] \in VersionType /\ OldClaim(f) \in Memories
         /\ Newer(f) \in Versions /\ OldClaim(f) # None /\ f \in Memories /\ f # None
         /\ fact[f].step \in FactSteps
         /\ fact[f].step \notin {"link", "repoint", "invalidate"} => version[Newer(f)].claim = None
         /\ MutatedMemories(f) /\ MutatedClaim(f) /\ Rest(OldClaim(f), {f, fact[f].target})
<1>1. /\ fact[f] \in FactType /\ FactOK(f) /\ f \in Memories /\ None \notin Memories
      /\ <<f, "next">> \in Versions
  BY FactFacts, NamesApart
<1>2. fact[f].plan \in {"UPDATE", "DELETE", "SUPERSEDE"} /\ fact[f].old # None
  BY <1>1 DEF FactOK, Mutates
<1>3. fact[f].step \notin {"link", "repoint", "invalidate"} => version[Newer(f)].claim = None
  BY <1>1 DEF YoungerInv, Mutates, Present, Newer
<1>4. fact[f].step \in FactSteps /\ fact[f].plan \in Mutating
  BY <1>1, <1>2 DEF FactType, Mutating
<1> QED BY <1>1, <1>2, <1>3, <1>4, FactFacts DEF FactLedger, Newer

GroundInv == ShapeInv /\ NamedInv /\ OneVersion /\ YoungerInv /\ NewInv


\* A handler that begins its mutation finds all it needs in a ledger at rest.
Enters ==
  \A f \in Facts :
    /\ GroundInv
    /\ fact[f].step \in {"update", "expire", "softDelete"} /\ Rest(None, {})
    /\ version[fact[f].old].memory = fact[f].target /\ Explained(fact[f].target)
    => FactLedger(f)

LEMMA Entering == Enters
<1> SUFFICES ASSUME NEW f \in Facts, GroundInv,
                    fact[f].step \in {"update", "expire", "softDelete"}, Rest(None, {}),
                    version[fact[f].old].memory = fact[f].target, Explained(fact[f].target)
             PROVE  FactLedger(f)
  BY DEF Enters
<1> USE DEF GroundInv
<1> DEFINE t == fact[f].target
           o == fact[f].old
           c == OldClaim(f)
<1>1. /\ fact[f].plan \in Mutating /\ o # None
      /\ fact[f].step = "update" <=> fact[f].plan = "UPDATE"
      /\ f \in Memories /\ f # None /\ Newer(f) \in Versions
  BY FactFacts, NamesApart DEF FactOK, Mutating, Newer
<1>2. t \in Memories /\ o \in Versions /\ c \in Memories /\ c # None /\ t # None
  BY <1>1, FactFacts, NamesApart
<1>3. /\ memory[f] = "absent" /\ content[f] = f /\ \A v \in Versions : version[v].memory # f
      /\ memory[t] # "absent" /\ f # t
  BY <1>2 DEF NewInv, Unstored, Unborn, NamedInv
<1>4. claim[c] = Active(o)
  BY <1>2 DEF Explained, OldClaim
<1>5. Opened(c) = {o} /\ Leads(version, VersionsIn(c), o)
  BY <1>2, <1>4 DEF Rest, Agrees, Active
<1>6. VersionsIn(c) \ {Newer(f)} = VersionsIn(c)
  <2>1. version[Newer(f)].claim = None
    BY DEF YoungerInv, Present, Newer
  <2> QED BY <1>2, <2>1 DEF VersionsIn
<1>7. MutatedMemories(f)
  BY <1>1, <1>3 DEF MutatedMemories, Live
<1>8. MutatedClaim(f)
  BY <1>4, <1>5, <1>6 DEF MutatedClaim
<1>9. Rest(c, {f, t})
  BY NamesApart DEF Rest
<1> QED BY <1>7, <1>8, <1>9 DEF FactLedger, Unclaimed, FactEnds

\* Each step of a fact's handler leaves the ledger as its next step needs it.
LEMMA RestUnchanged ==
  ASSUME UNCHANGED <<memory, content, claim, version>>
  PROVE  /\ Rest(None, {}) => Rest(None, {})'
         /\ \A m : Explained(m) => Explained(m)'
<1>1. \A c : VersionsIn(c)' = VersionsIn(c) /\ Opened(c)' = Opened(c)
  BY DEF VersionsIn, Opened
<1>2. \A c : Agrees(c) => Agrees(c)'
  BY <1>1 DEF Agrees
<1>3. \A m : (Live(m)' <=> Live(m)) /\ (Explained(m) => Explained(m)')
  BY DEF Live, Explained
<1> QED BY <1>2, <1>3 DEF Rest

LEMMA LedgerFind ==
  ASSUME GroundInv, NEW f \in Facts, FactLedger(f), FindCandidates(f)
  PROVE  FactLedger(f)'
<1>1. Rest(None, {})
  BY DEF FactLedger, Unclaimed, FindCandidates
<1>2. fact \in [Facts -> FactType] /\ UNCHANGED <<memory, content, claim, version>>
  BY DEF FindCandidates, GroundInv, ShapeInv, TypeOK
<1>3. Rest(None, {})' /\ \A m : Explained(m) => Explained(m)'
  BY <1>1, <1>2, RestUnchanged
<1>4. ASSUME NEW plan \in {"ADD", "CLARIFY"},
             fact' = [fact EXCEPT ![f] = [NoFact EXCEPT !.step = "store", !.plan = plan]]
      PROVE  FactLedger(f)'
  <2>1. fact'[f].step = "store" /\ fact'[f].plan \in {"ADD", "CLARIFY"}
    BY <1>2, <1>4 DEF NoFact
  <2> QED BY <1>3, <2>1 DEF FactLedger, Unclaimed, Mutates
<1>5. ASSUME NEW plan \in {"UPDATE", "DELETE", "NOOP", "SUPERSEDE"}, NEW m \in Candidates,
             fact' = [fact EXCEPT ![f] = [NoFact EXCEPT !.step = "target", !.plan = plan, !.target = m]]
      PROVE  FactLedger(f)'
  <2>1. fact'[f].step = "target" /\ fact'[f].target = m
    BY <1>2, <1>5 DEF NoFact
  <2>2. Explained(m)
    BY <1>1 DEF Rest, Candidates, Live
  <2>3. Explained(fact[f].target)'
    BY <1>2, <2>1, <2>2 DEF Explained
  <2> QED BY <1>3, <2>1, <2>3 DEF FactLedger, Mutates
<1> QED BY <1>4, <1>5 DEF FindCandidates

LEMMA LedgerReadTarget ==
  ASSUME GroundInv, NEW f \in Facts, FactLedger(f), ReadTarget(f)
  PROVE  FactLedger(f)'
<1>1. Rest(None, {}) /\ Explained(fact[f].target)
  BY DEF FactLedger, Unclaimed, ReadTarget
<1>2. /\ fact \in [Facts -> FactType] /\ UNCHANGED <<memory, content, claim, version>>
      /\ fact[f].step = "target"
  BY DEF ReadTarget, GroundInv, ShapeInv, TypeOK
<1>3. fact'[f].step = "lookup" /\ fact'[f].target = fact[f].target /\ fact'[f].text = content[fact[f].target]
  BY <1>2 DEF ReadTarget, FactType
<1>4. Rest(None, {})' /\ Explained(fact[f].target)'
  BY <1>1, <1>2, <1>3, RestUnchanged DEF Explained
<1> QED BY <1>2, <1>3, <1>4 DEF FactLedger, Mutates, Explained

\* What MutationStep leads to: the mutation, or the end of a no-op.
LEMMA LedgerEntered ==
  ASSUME NEW f \in Facts, GroundInv', Rest(None, {})', Explained(fact[f].target)',
         fact[f].plan \in Mutating, fact'[f].plan = fact[f].plan, fact'[f].target = fact[f].target,
         fact'[f].step = MutationStep(fact[f].plan),
         version'[fact'[f].old].memory = fact'[f].target
  PROVE  FactLedger(f)'
<1>1. fact'[f].step \in {"update", "expire", "softDelete", "done"}
  BY DEF MutationStep, Mutating
<1>2. CASE fact'[f].step = "done"
  BY <1>2 DEF FactLedger, FactEnds, Mutates
<1>3. CASE fact'[f].step # "done"
  <2>1. Enters'
    BY Entering, PTL
  <2> QED BY <1>1, <1>3, <2>1 DEF Enters
<1> QED BY <1>2, <1>3

LEMMA LedgerLookup ==
  ASSUME GroundInv, GroundInv', NEW f \in Facts, FactLedger(f), LookupVersion(f)
  PROVE  FactLedger(f)'
<1> DEFINE t == fact[f].target
<1>1. /\ fact[f].step = "lookup" /\ Rest(None, {}) /\ Explained(t) /\ fact[f].text = content[t]
      /\ UNCHANGED <<memory, content, claim, version>>
  BY DEF FactLedger, Unclaimed, LookupVersion
<1>2. fact \in [Facts -> FactType] /\ fact[f].plan \in Mutating /\ fact[f].plan # "ADD"
  BY <1>1, FactFacts DEF GroundInv, ShapeInv, TypeOK, FactOK, Mutating
<1>3. Rest(None, {})' /\ \A m : Explained(m) => Explained(m)'
  BY <1>1, RestUnchanged
<1>4. ASSUME NEW v \in VersionsOf(t),
             fact' = [fact EXCEPT ![f].old = v, ![f].step = MutationStep(fact[f].plan)]
      PROVE  FactLedger(f)'
  <2>1. /\ fact'[f].step = MutationStep(fact[f].plan) /\ fact'[f].old = v
        /\ fact'[f].plan = fact[f].plan /\ fact'[f].target = t
    BY <1>2, <1>4 DEF FactType
  <2>2. version'[fact'[f].old].memory = fact'[f].target
    BY <1>1, <1>4, <2>1 DEF VersionsOf
  <2>3. Explained(fact[f].target)'
    BY <1>1, <1>3, <2>1 DEF Explained
  <2> QED BY <1>2, <1>3, <2>1, <2>2, <2>3, LedgerEntered
<1>5. ASSUME VersionsOf(t) = {}, Goto(f, "claim") PROVE FactLedger(f)'
  <2>1. /\ fact'[f].step = "claim" /\ fact'[f].plan = fact[f].plan /\ fact'[f].target = t
        /\ fact'[f].text = fact[f].text
    BY <1>2, <1>5 DEF FactType, Goto
  <2>2. VersionsOf(About(f))' = {} /\ content'[About(f)'] = Words(f)'
    BY <1>1, <1>2, <1>5, <2>1 DEF VersionsOf, About, Words, Present
  <2> QED BY <1>3, <2>1, <2>2 DEF FactLedger, Mutates
<1> QED BY <1>4, <1>5 DEF LookupVersion

LEMMA LedgerCreateClaim ==
  ASSUME GroundInv, NEW f \in Facts, FactLedger(f), CreateClaim(f)
  PROVE  FactLedger(f)'
<1>1. /\ fact[f].step = "claim" /\ Rest(None, {}) /\ VersionsOf(About(f)) = {}
      /\ content[About(f)] = Words(f) /\ UNCHANGED <<memory, content, version>>
  BY DEF FactLedger, Unclaimed, CreateClaim
<1>2. fact \in [Facts -> FactType] /\ claim \in [Memories -> ClaimType] /\ f \in Memories /\ None \notin Memories
  BY NamesApart DEF GroundInv, ShapeInv, TypeOK
<1>3. /\ fact'[f].step = "first" /\ fact'[f].plan = fact[f].plan /\ fact'[f].target = fact[f].target
      /\ fact'[f].text = fact[f].text
  BY <1>2 DEF CreateClaim, Goto, FactType
<1>4. claim'[f] = Active(None) /\ \A a \in Memories \ {f} : claim'[a] = claim[a]
  BY <1>2 DEF CreateClaim, Active
<1>5. VersionsOf(About(f))' = {} /\ content'[About(f)'] = Words(f)'
  BY <1>1, <1>3 DEF VersionsOf, About, Words, Present
<1>6. Rest(f, {})'
  <2>1. Rest(f, {})
    BY <1>1, <1>2 DEF Rest
  <2>2. \A v \in Versions : claim[f] # Active(v)
    BY <1>1 DEF GroundInv, NewInv, Unclaimed, Active
  <2>3. /\ \A a \in Memories \ {f} : Agrees(a)'
        /\ \A m \in Memories \ {} : Live(m)' => Explained(m)'
    BY <1>1, <1>4, <2>1, <2>2, RestStays DEF GroundInv, Live
  <2> QED BY <2>3 DEF Rest
<1> QED BY <1>3, <1>4, <1>5, <1>6 DEF FactLedger, Unclaimed, FactEnds, Mutates

\* Nothing refuses a version about a memory that has none.
LEMMA InsertedFor ==
  ASSUME ShapeInv, NEW f \in Facts, NEW v \in Versions, NEW row \in VersionType, NEW next \in FactSteps,
         InsertVersion(f, v, row, next), row.memory = None \/ VersionsOf(row.memory) = {}
  PROVE  /\ version'[v] = row /\ \A u \in Versions \ {v} : version'[u] = version[u]
         /\ fact'[f].step = next /\ fact'[f].plan = fact[f].plan /\ fact'[f].target = fact[f].target
         /\ fact'[f].text = fact[f].text /\ fact'[f].old = fact[f].old
<1>1. Goto(f, next) /\ version' = [version EXCEPT ![v] = row]
  BY DEF InsertVersion
<1>2. version \in [Versions -> VersionType]
  BY DEF ShapeInv, TypeOK
<1> QED BY <1>1, <1>2, MovesOn

LEMMA LedgerFirstVersion ==
  ASSUME GroundInv, NEW f \in Facts, FactLedger(f), CreateFirstVersion(f)
  PROVE  FactLedger(f)'
<1> DEFINE w == About(f)
<1>1. /\ fact[f].step = "first" /\ UNCHANGED <<memory, content, claim>>
      /\ w \in Memories /\ FirstVersion(f) \in VersionType /\ FirstVersion(f).claim = f
      /\ FirstVersion(f).memory = w /\ FirstVersion(f).content = Words(f) /\ FirstVersion(f).open
      /\ InsertVersion(f, First(f), FirstVersion(f), "point")
  BY FirstInserted DEF GroundInv
<1>2. /\ Rest(f, {}) /\ VersionsOf(w) = {} /\ content[w] = Words(f) /\ claim[f] = Active(None)
      /\ NoneIn(f)
  BY <1>1 DEF FactLedger, GroundInv, NewInv
<1>3. f \in Memories /\ First(f) \in Versions /\ None \notin Versions /\ f # None
  BY NamesApart DEF First
<1>4. /\ version'[First(f)] = FirstVersion(f)
      /\ \A u \in Versions \ {First(f)} : version'[u] = version[u]
      /\ fact'[f].step = "point" /\ fact'[f].plan = fact[f].plan /\ fact'[f].target = fact[f].target
  <2>1. "point" \in FactSteps
    BY DEF FactSteps
  <2> QED BY <1>1, <1>2, <1>3, <2>1, InsertedFor DEF GroundInv
<1>5. About(f)' = w
  BY <1>4 DEF About
<1>6. version[First(f)].claim = None
  BY <1>2 DEF NoneIn, Present
<1>7. VersionsIn(f)' = {First(f)}
  BY <1>1, <1>2, <1>3, <1>4 DEF VersionsIn, NoneIn
<1>8. /\ \A a \in Memories \ {f} : Agrees(a)'
      /\ \A m \in Memories \ {w} : Live(m)' => Explained(m)'
  <2>1. Rest(f, {w})
    BY <1>2 DEF Rest
  <2>2. \A v \in Versions : claim[f] # Active(v)
    BY <1>2, <1>3 DEF Active
  <2> HIDE DEF w
  <2> QED BY <1>1, <1>4, <1>6, <2>1, <2>2, RestStays DEF GroundInv, Live
<1>9. Rest(f, {w})'
  BY <1>5, <1>8 DEF Rest
<1> QED BY <1>1, <1>2, <1>4, <1>5, <1>7, <1>9 DEF FactLedger, Unclaimed, FactEnds, Mutates, First

LEMMA LedgerPointFirst ==
  ASSUME GroundInv, GroundInv', NEW f \in Facts, FactLedger(f), PointFirst(f)
  PROVE  FactLedger(f)'
<1> DEFINE w == About(f)
<1>1. /\ fact[f].step = "point" /\ UNCHANGED <<memory, content, version>>
      /\ PointClaim(f, First(f))
      /\ Rest(f, {w}) /\ VersionsIn(f) = {First(f)} /\ version[First(f)].open
      /\ version[First(f)].memory = w /\ version[First(f)].content = content[w]
      /\ claim[f] = Active(None)
  BY DEF FactLedger, PointFirst, First
<1>2. /\ fact \in [Facts -> FactType] /\ claim \in [Memories -> ClaimType] /\ f \in Memories
      /\ fact[f].plan \in Mutating \cup {"ADD"} /\ First(f) \in Versions
      /\ fact[f].plan \in Mutating => fact[f].target \in Memories
      /\ None \notin Memories /\ None \notin Versions
  BY <1>1, FactFacts, NamesApart DEF GroundInv, ShapeInv, TypeOK, FactOK, First
<1>3. claim'[f] = Active(First(f)) /\ \A a \in Memories \ {f} : claim'[a] = claim[a]
  BY <1>1, <1>2 DEF PointClaim, Active
<1>4. w \in Memories /\ w # None
  BY <1>2 DEF About
<1>5. /\ \A a \in Memories \ {f} : Agrees(a)'
      /\ \A m \in Memories \ {w} : Live(m)' => Explained(m)'
  <2>1. \A v \in Versions : claim[f] # Active(v)
    BY <1>1, <1>2 DEF Active
  <2> HIDE DEF w
  <2> QED BY <1>1, <1>3, <2>1, RestStays DEF GroundInv, Live
<1>6. Agrees(f)'
  <2>1. Opened(f)' = {First(f)} /\ VersionsIn(f)' = {First(f)}
    BY <1>1 DEF Opened, VersionsIn
  <2>2. claim'[f].current = First(f)
    BY <1>3 DEF Active
  <2> QED BY <1>2, <2>1, <2>2, LeadsAlone DEF Agrees
<1>7. ASSUME NEW m \in Memories, m = w PROVE Explained(m)'
  <2> SUFFICES ASSUME NEW v \in Versions, version'[v].memory = m
               PROVE  claim'[version'[v].claim] = Active(v) /\ version'[v].content = content'[m]
    BY DEF Explained
  <2>1. v = First(f)
    BY <1>1, <1>2, <1>4, <1>7 DEF GroundInv, OneVersion
  <2>2. version[v].claim = f
    BY <1>1, <2>1 DEF VersionsIn
  <2> QED BY <1>1, <1>3, <1>7, <2>1, <2>2
<1>8. Rest(None, {})'
  <2>1. \A a \in Memories : Agrees(a)'
    BY <1>5, <1>6
  <2>2. \A m \in Memories : Live(m)' => Explained(m)'
    BY <1>5, <1>7
  <2> QED BY <2>1, <2>2 DEF Rest
<1>9. CASE fact[f].plan = "ADD"
  <2>1. fact'[f].step = "done"
    BY <1>2, <1>9 DEF PointFirst, Goto, FactType
  <2> QED BY <1>8, <2>1 DEF FactLedger, FactEnds, Mutates
<1>10. CASE fact[f].plan # "ADD"
  <2>1. /\ fact'[f].step = MutationStep(fact[f].plan) /\ fact'[f].old = First(f)
        /\ fact'[f].plan = fact[f].plan /\ fact'[f].target = fact[f].target
    BY <1>2, <1>10 DEF PointFirst, FactType, First
  <2>2. w = fact[f].target /\ fact[f].plan \in Mutating
    BY <1>2, <1>10 DEF About
  <2>3. version'[fact'[f].old].memory = fact'[f].target
    BY <1>1, <2>1, <2>2
  <2>4. Explained(fact[f].target)'
    <3>1. \A m \in Memories : m = w => Explained(m)'
      BY <1>7
    <3> QED BY <1>4, <2>1, <2>2, <3>1 DEF Explained
  <2> QED BY <1>8, <2>1, <2>2, <2>3, <2>4, LedgerEntered
<1> QED BY <1>9, <1>10

\* A handler in the middle of its mutation.
LEMMA LedgerMutated ==
  ASSUME NEW f \in Facts, Mutates(f)', MutatedMemories(f)', MutatedClaim(f)',
         fact'[f].target = fact[f].target, OldClaim(f)' = OldClaim(f),
         \A a \in Memories \ {OldClaim(f)} : Agrees(a)',
         \A m \in Memories \ {f, fact[f].target} : Live(m)' => Explained(m)'
  PROVE  FactLedger(f)'
<1>1. Rest(OldClaim(f), {f, fact[f].target})'
  BY DEF Rest
<1> QED BY <1>1 DEF FactLedger, Mutates, Unclaimed, FactEnds

LEMMA LedgerStore ==
  ASSUME GroundInv, NEW f \in Facts, FactLedger(f), StoreMemory(f)
  PROVE  FactLedger(f)'
<1>1. /\ fact[f].step = "store" /\ UNCHANGED <<content, claim, version>>
      /\ \A m \in Memories \ {f} : memory'[m] = memory[m]
      /\ \/ Goto(f, "claim") /\ fact[f].plan = "ADD"
         \/ Goto(f, "next") /\ fact[f].plan = "SUPERSEDE"
         \/ Goto(f, "done") /\ fact[f].plan = "CLARIFY"
  BY MemoryStored DEF GroundInv
<1>2. f \in Memories /\ f # None /\ None \notin Memories /\ {"claim", "next", "done"} \subseteq FactSteps
  BY NamesApart DEF FactSteps, FactEnds
<1>3. content[f] = f /\ \A v \in Versions : version[v].memory # f
  BY <1>1 DEF GroundInv, NewInv, Unstored, Unborn
<1>4. /\ fact'[f].plan = fact[f].plan /\ fact'[f].target = fact[f].target
      /\ fact'[f].text = fact[f].text /\ fact'[f].old = fact[f].old
  BY <1>1, <1>2, MovesOn DEF GroundInv
<1>5. CASE fact[f].plan \in {"ADD", "CLARIFY"}
  <2>1. Rest(None, {f})
    BY <1>1, <1>5 DEF FactLedger, Unclaimed, Rest
  <2>2. /\ \A a \in Memories \ {None} : Agrees(a)'
        /\ \A m \in Memories \ {f} : Live(m)' => Explained(m)'
    BY <1>1, <1>2, <2>1, RestStays DEF GroundInv, Live
  <2>3. Explained(f)'
    BY <1>1, <1>3 DEF Explained
  <2>4. Rest(None, {})'
    <3>1. \A m \in Memories : Live(m)' => Explained(m)'
      BY <2>2, <2>3
    <3> QED BY <2>2, <3>1 DEF Rest
  <2>5. fact'[f].step \in {"claim", "done"} /\ (fact'[f].step = "claim" => fact[f].plan = "ADD")
    BY <1>1, <1>2, <1>5, MovesOn DEF GroundInv
  <2>6. fact'[f].step = "claim" => VersionsOf(About(f))' = {} /\ content'[About(f)'] = Words(f)'
    BY <1>1, <1>3, <1>4, <2>5 DEF VersionsOf, About, Words
  <2> QED BY <2>4, <2>5, <2>6 DEF FactLedger, Mutates
<1>6. CASE fact[f].plan = "SUPERSEDE"
  <2>1. Mutates(f)
    BY <1>1, <1>6 DEF Mutates
  <2>2. fact'[f].step = "next"
    BY <1>1, <1>2, <1>6, MovesOn DEF GroundInv
  <2>3. /\ fact[f].target \in Memories /\ MutatedMemories(f) /\ MutatedClaim(f)
        /\ OldClaim(f)' = OldClaim(f)
    BY <1>1, <1>4, <2>1, MutationFacts DEF GroundInv, OldClaim
  <2>4. /\ \A a \in Memories \ {OldClaim(f)} : Agrees(a)'
        /\ \A m \in Memories \ {f, fact[f].target} : Live(m)' => Explained(m)'
    BY <1>1, <2>1, MutationFrame DEF GroundInv, Live
  <2>5. MutatedMemories(f)'
    BY <1>1, <1>3, <1>4, <1>6, <2>2, <2>3 DEF MutatedMemories, Live, Newer
  <2>6. MutatedClaim(f)'
    <3>1. VersionsIn(OldClaim(f))' = VersionsIn(OldClaim(f)) /\ Opened(OldClaim(f))' = Opened(OldClaim(f))
      BY <1>1, <2>3 DEF VersionsIn, Opened
    <3> QED BY <1>1, <1>4, <1>6, <2>2, <2>3, <3>1 DEF MutatedClaim, Newer
  <2>7. Mutates(f)'
    BY <2>2 DEF Mutates
  <2> QED BY <1>4, <2>3, <2>4, <2>5, <2>6, <2>7, LedgerMutated
<1> QED BY <1>1, <1>5, <1>6

LEMMA LedgerUpdate ==
  ASSUME GroundInv, NEW f \in Facts, FactLedger(f), UpdateContent(f)
  PROVE  FactLedger(f)'
<1> DEFINE t == fact[f].target
           c == OldClaim(f)
<1>1. fact[f].step = "update" /\ UNCHANGED <<memory, claim, version>> /\ Goto(f, "close") /\ Mutates(f)
  BY DEF UpdateContent, Mutates
<1>2. /\ fact'[f].step = "close" /\ fact'[f].plan = fact[f].plan /\ fact'[f].target = t
      /\ fact'[f].old = fact[f].old
  <2>1. "close" \in FactSteps
    BY DEF FactSteps
  <2> QED BY <1>1, <2>1, MovesOn DEF GroundInv
<1>3. /\ fact[f].plan = "UPDATE" /\ t \in Memories /\ f \in Memories /\ OldClaim(f)' = c
      /\ MutatedMemories(f) /\ MutatedClaim(f)
  <2>1. fact[f].plan = "UPDATE"
    BY <1>1, FactFacts DEF GroundInv, FactOK
  <2> QED BY <1>1, <1>2, <2>1, MutationFacts DEF GroundInv, OldClaim
<1>4. /\ \A m \in Memories \ {t} : content'[m] = content[m]
      /\ content'[t] = f \/ memory[t] = "deleted"
  BY <1>3 DEF UpdateContent, GroundInv, ShapeInv, TypeOK
<1>5. /\ \A a \in Memories \ {c} : Agrees(a)'
      /\ \A m \in Memories \ {f, t} : Live(m)' => Explained(m)'
  BY <1>1, <1>4, MutationFrame DEF GroundInv, Live
<1>6. MutatedMemories(f)'
  BY <1>1, <1>2, <1>3, <1>4 DEF MutatedMemories, Live, Newer
<1>7. MutatedClaim(f)'
  <2>1. VersionsIn(c)' = VersionsIn(c) /\ Opened(c)' = Opened(c)
    BY <1>1, <1>3 DEF VersionsIn, Opened
  <2> QED BY <1>1, <1>2, <1>3, <2>1 DEF MutatedClaim, Newer
<1>8. Mutates(f)'
  BY <1>2 DEF Mutates
<1> QED BY <1>2, <1>3, <1>5, <1>6, <1>7, <1>8, LedgerMutated

\* An expiry and a soft delete take the memory out of sight.
LEMMA LedgerHide ==
  ASSUME GroundInv, NEW f \in Facts, FactLedger(f), ExpireTarget(f) \/ SoftDeleteTarget(f)
  PROVE  FactLedger(f)'
<1> DEFINE t == fact[f].target
           c == OldClaim(f)
<1>1. /\ fact[f].step \in {"expire", "softDelete"} /\ UNCHANGED <<content, claim, version>>
      /\ \/ Goto(f, "store") /\ fact[f].step = "expire"
         \/ Goto(f, "next") /\ fact[f].step = "softDelete"
      /\ Mutates(f)
  BY DEF ExpireTarget, SoftDeleteTarget, Mutates
<1>2. /\ fact'[f].step = IF fact[f].step = "expire" THEN "store" ELSE "next"
      /\ fact'[f].plan = fact[f].plan /\ fact'[f].target = t /\ fact'[f].old = fact[f].old
  <2>1. "store" \in FactSteps /\ "next" \in FactSteps
    BY DEF FactSteps
  <2> QED BY <1>1, <2>1, MovesOn DEF GroundInv
<1>3. /\ fact[f].step = "expire" => fact[f].plan = "SUPERSEDE"
      /\ fact[f].step = "softDelete" => fact[f].plan = "DELETE"
      /\ t \in Memories /\ f \in Memories /\ OldClaim(f)' = c
      /\ MutatedMemories(f) /\ MutatedClaim(f)
  <2>1. /\ fact[f].step = "expire" => fact[f].plan = "SUPERSEDE"
        /\ fact[f].step = "softDelete" => fact[f].plan = "DELETE"
    BY FactFacts DEF GroundInv, FactOK
  <2> QED BY <1>1, <1>2, <2>1, MutationFacts DEF GroundInv, OldClaim
<1>4. /\ \A m \in Memories \ {t} : memory'[m] = memory[m]
      /\ memory'[t] \notin {"active", "needs_clarification"}
  BY <1>3 DEF ExpireTarget, SoftDeleteTarget, GroundInv, ShapeInv, TypeOK
<1>5. /\ \A a \in Memories \ {c} : Agrees(a)'
      /\ \A m \in Memories \ {f, t} : Live(m)' => Explained(m)'
  BY <1>1, <1>4, MutationFrame DEF GroundInv, Live
<1>6. MutatedMemories(f)'
  BY <1>1, <1>2, <1>3, <1>4 DEF MutatedMemories, Live, Newer
<1>7. MutatedClaim(f)'
  <2>1. VersionsIn(c)' = VersionsIn(c) /\ Opened(c)' = Opened(c)
    BY <1>1, <1>3 DEF VersionsIn, Opened
  <2> QED BY <1>1, <1>2, <1>3, <2>1 DEF MutatedClaim, Newer
<1>8. Mutates(f)'
  BY <1>1, <1>2, <1>3 DEF Mutates
<1> QED BY <1>2, <1>3, <1>5, <1>6, <1>7, <1>8, LedgerMutated

\* The old version is closed, and lets go of its memory.
LEMMA LedgerRelease ==
  ASSUME GroundInv, NEW f \in Facts, FactLedger(f), CloseOldVersion(f) \/ ReleaseMemory(f)
  PROVE  FactLedger(f)'
<1> DEFINE t == fact[f].target
           o == fact[f].old
           c == OldClaim(f)
<1>1. /\ fact[f].step \in {"close", "release"} /\ UNCHANGED <<memory, content, claim>>
      /\ Goto(f, IF fact[f].step = "close" THEN "release" ELSE "next")
      /\ Mutates(f)
  BY DEF CloseOldVersion, ReleaseMemory, Mutates
<1>2. /\ fact'[f].step = IF fact[f].step = "close" THEN "release" ELSE "next"
      /\ fact'[f].plan = fact[f].plan /\ fact'[f].target = t /\ fact'[f].old = o
  <2>1. "release" \in FactSteps /\ "next" \in FactSteps
    BY DEF FactSteps
  <2> QED BY <1>1, <2>1, MovesOn DEF GroundInv
<1>3. /\ fact[f].plan = "UPDATE" /\ t \in Memories /\ o \in Versions /\ c \in Memories /\ f \in Memories
      /\ t # None /\ c # None
      /\ version[Newer(f)].claim = None /\ MutatedMemories(f) /\ MutatedClaim(f)
  <2>1. fact[f].plan = "UPDATE"
    BY <1>1, FactFacts DEF GroundInv, FactOK
  <2> QED BY <1>1, <2>1, MutationFacts, NamesApart DEF GroundInv
<1>4. /\ \A v \in Versions \ {o} : version'[v] = version[v]
      /\ version'[o].claim = c
      /\ fact[f].step = "close" => version'[o].memory = version[o].memory /\ ~version'[o].open
      /\ fact[f].step = "release" => version'[o].memory = None /\ version'[o].open = version[o].open
  <2>1. version \in [Versions -> VersionType]
    BY DEF GroundInv, ShapeInv, TypeOK
  <2>2. CASE CloseOldVersion(f)
    BY <1>3, <2>1, <2>2 DEF CloseOldVersion, VersionType, OldClaim
  <2>3. CASE ReleaseMemory(f)
    BY <1>3, <2>1, <2>3 DEF ReleaseMemory, VersionType, OldClaim
  <2> QED BY <2>2, <2>3
<1>5. OldClaim(f)' = c /\ version[o].claim = c
  BY <1>2, <1>4 DEF OldClaim
<1>6. version[o].memory = t
  BY <1>1, <1>3 DEF MutatedMemories
<1>7. /\ \A a \in Memories \ {c} : Agrees(a)'
      /\ \A m \in Memories \ {f, t} : Live(m)' => Explained(m)'
  <2>1. version'[o].memory \in {f, t, None}
    BY <1>1, <1>4, <1>6
  <2> QED BY <1>1, <1>3, <1>4, <1>5, <2>1, MutationFrame DEF GroundInv, Live
<1>8. MutatedMemories(f)'
  <2>1. \A v \in Versions : version'[v].memory = f => v = Newer(f)
    BY <1>1, <1>3, <1>4, <1>6, NamesApart DEF MutatedMemories
  <2>2. ASSUME fact[f].step = "release", NEW v \in Versions, version'[v].memory = t PROVE FALSE
    BY <1>3, <1>4, <1>6, <2>2 DEF GroundInv, OneVersion
  <2>3. fact'[f].step = "release" => version'[o].memory = t
    BY <1>1, <1>2, <1>4, <1>6
  <2> QED BY <1>1, <1>2, <1>3, <2>1, <2>2, <2>3 DEF MutatedMemories, Live, Newer
<1>9. MutatedClaim(f)'
  <2>1. VersionsIn(c)' = VersionsIn(c)
    BY <1>4, <1>5 DEF VersionsIn
  <2>2. Opened(c)' = {}
    <3>1. fact[f].step = "release" => Opened(c) = {}
      BY <1>3 DEF MutatedClaim
    <3>2. fact[f].step = "close" => Opened(c) \subseteq {o}
      BY <1>3 DEF MutatedClaim
    <3>3. Opened(c)' \subseteq Opened(c) /\ (fact[f].step = "close" => o \notin Opened(c)')
      BY <1>1, <1>4, <2>1 DEF Opened, VersionsIn
    <3> QED BY <1>1, <3>1, <3>2, <3>3
  <2>3. Leads(version', VersionsIn(c) \ {Newer(f)}, o)
    <3>1. Leads(version, VersionsIn(c) \ {Newer(f)}, o)
      BY <1>1, <1>3 DEF MutatedClaim
    <3>2. \A v \in (VersionsIn(c) \ {Newer(f)}) \ {o} : version'[v].successor = version[v].successor
      BY <1>4 DEF VersionsIn
    <3> HIDE DEF c, o
    <3> QED BY <3>1, <3>2, LeadsStill
  <2>4. claim'[c] = Active(o) /\ version'[o].memory \in {t, None}
    BY <1>1, <1>3, <1>4, <1>6 DEF MutatedClaim
  <2> QED BY <1>1, <1>2, <1>5, <2>1, <2>2, <2>3, <2>4 DEF MutatedClaim, Newer
<1>10. Mutates(f)'
  BY <1>1, <1>2 DEF Mutates
<1> QED BY <1>2, <1>5, <1>7, <1>8, <1>9, <1>10, LedgerMutated

LEMMA LedgerNextVersion ==
  ASSUME GroundInv, NEW f \in Facts, FactLedger(f), CreateNextVersion(f)
  PROVE  FactLedger(f)'
<1> DEFINE t == fact[f].target
           o == fact[f].old
           c == OldClaim(f)
           n == Newer(f)
           row == NextVersion(f)
<1>1. /\ fact[f].step = "next" /\ UNCHANGED <<memory, content, claim>>
      /\ row \in VersionType /\ row.claim = c /\ row.content = f /\ row.open
      /\ row.memory = CASE fact[f].plan = "UPDATE" -> t [] fact[f].plan = "SUPERSEDE" -> f [] OTHER -> None
      /\ InsertVersion(f, n, row, "link") /\ Mutates(f)
  BY NextInserted DEF GroundInv, Mutates
<1>2. /\ fact[f].plan \in {"UPDATE", "DELETE", "SUPERSEDE"}
      /\ t \in Memories /\ o \in Versions /\ c \in Memories /\ f \in Memories /\ n \in Versions
      /\ t # None /\ c # None /\ f # None
      /\ version[n].claim = None /\ MutatedMemories(f) /\ MutatedClaim(f)
  BY <1>1, MutationFacts, NamesApart DEF GroundInv
<1>3. version[n].memory = None /\ version[o].claim = c /\ o # n
  BY <1>2 DEF GroundInv, OneVersion, Present, OldClaim
<1>4. row.memory = None \/ VersionsOf(row.memory) = {}
  <2>1. \A v \in Versions : version[v].memory # f
    BY <1>2, <1>3 DEF MutatedMemories
  <2>2. fact[f].plan = "UPDATE" => \A v \in Versions : version[v].memory # t
    BY <1>1, <1>2, <1>3 DEF MutatedMemories
  <2> QED BY <1>1, <1>2, <2>1, <2>2 DEF VersionsOf
<1>5. /\ version'[n] = row /\ \A u \in Versions \ {n} : version'[u] = version[u]
      /\ fact'[f].step = "link" /\ fact'[f].plan = fact[f].plan /\ fact'[f].target = t /\ fact'[f].old = o
  <2>1. "link" \in FactSteps
    BY DEF FactSteps
  <2> HIDE DEF row, n
  <2> QED BY <1>1, <1>2, <1>4, <2>1, InsertedFor DEF GroundInv
<1> HIDE DEF row
<1>6. OldClaim(f)' = c
  BY <1>2, <1>3, <1>5 DEF OldClaim
<1>7. /\ \A a \in Memories \ {c} : Agrees(a)'
      /\ \A m \in Memories \ {f, t} : Live(m)' => Explained(m)'
  <2>1. row.memory \in {f, t, None}
    BY <1>1, <1>2
  <2> QED BY <1>1, <1>2, <1>5, <2>1, MutationFrame DEF GroundInv, Live
<1>8. MutatedMemories(f)'
  <2>1. \A v \in Versions : version'[v].memory = f => v = n
    BY <1>2, <1>5 DEF MutatedMemories
  <2>2. fact[f].plan = "UPDATE" => \A v \in Versions : version'[v].memory = t => v = n
    BY <1>1, <1>2, <1>5 DEF MutatedMemories
  <2> QED BY <1>1, <1>2, <1>5, <2>1, <2>2 DEF MutatedMemories, Live, Newer
<1>9. MutatedClaim(f)'
  <2>1. VersionsIn(c)' = VersionsIn(c) \cup {n} /\ n \notin VersionsIn(c)
    BY <1>1, <1>2, <1>5, <1>6 DEF VersionsIn
  <2>2. Opened(c)' = Opened(c) \cup {n}
    BY <1>1, <1>5, <2>1 DEF Opened, VersionsIn
  <2>3. Opened(c) \subseteq {o} /\ (fact[f].plan = "UPDATE" => Opened(c) = {})
    BY <1>1, <1>2 DEF MutatedClaim
  <2>4. VersionsIn(c)' \ {n} = VersionsIn(c) \ {n}
    BY <2>1
  <2>5. Leads(version', VersionsIn(c)' \ {n}, o)
    <3>1. Leads(version, VersionsIn(c) \ {n}, o)
      BY <1>1, <1>2 DEF MutatedClaim
    <3>2. \A v \in (VersionsIn(c) \ {n}) \ {o} : version'[v].successor = version[v].successor
      BY <1>5 DEF VersionsIn
    <3> HIDE DEF c, o, n
    <3>3. Leads(version', VersionsIn(c) \ {n}, o)
      BY <3>1, <3>2, LeadsStill
    <3> QED BY <2>4, <3>3
  <2>6. claim'[c] = Active(o) /\ version'[o].memory \in {t, None} /\ version'[n].content = f
    BY <1>1, <1>2, <1>3, <1>5 DEF MutatedClaim
  <2> QED BY <1>3, <1>5, <1>6, <2>2, <2>3, <2>5, <2>6 DEF MutatedClaim, Newer
<1>10. Mutates(f)'
  BY <1>5 DEF Mutates
<1> QED BY <1>5, <1>6, <1>7, <1>8, <1>9, <1>10, LedgerMutated

\* The old version is linked to the new one: all lead there.
LEMMA LedgerLink ==
  ASSUME GroundInv, NEW f \in Facts, FactLedger(f), LinkOldVersion(f)
  PROVE  FactLedger(f)'
<1> DEFINE t == fact[f].target
           o == fact[f].old
           c == OldClaim(f)
           n == Newer(f)
<1>1. /\ fact[f].step = "link" /\ UNCHANGED <<memory, content, claim>> /\ Mutates(f)
      /\ Goto(f, IF fact[f].plan = "DELETE" THEN "invalidate" ELSE "repoint")
  BY DEF LinkOldVersion, Mutates
<1>2. /\ fact'[f].step = IF fact[f].plan = "DELETE" THEN "invalidate" ELSE "repoint"
      /\ fact'[f].plan = fact[f].plan /\ fact'[f].target = t /\ fact'[f].old = o
  <2>1. "invalidate" \in FactSteps /\ "repoint" \in FactSteps
    BY DEF FactSteps
  <2> QED BY <1>1, <2>1, MovesOn DEF GroundInv
<1>3. /\ fact[f].plan \in {"UPDATE", "DELETE", "SUPERSEDE"}
      /\ t \in Memories /\ o \in Versions /\ c \in Memories /\ f \in Memories /\ n \in Versions
      /\ t # None /\ c # None /\ f # None
      /\ MutatedMemories(f) /\ MutatedClaim(f)
  BY <1>1, MutationFacts, NamesApart DEF GroundInv
<1>4. /\ version' = [version EXCEPT ![o].successor = n, ![o].open = @ /\ fact[f].plan = "UPDATE"]
      /\ version \in [Versions -> VersionType]
  BY DEF LinkOldVersion, Newer, GroundInv, ShapeInv, TypeOK
<1>5. /\ \A v \in Versions \ {o} : version'[v] = version[v]
      /\ version'[o].claim = c /\ version'[o].memory = version[o].memory
      /\ version'[o].content = version[o].content /\ version'[o].successor = n
      /\ version'[o].open = (version[o].open /\ fact[f].plan = "UPDATE")
  BY <1>3, <1>4 DEF VersionType, OldClaim
<1>6. OldClaim(f)' = c /\ version[o].claim = c
  BY <1>2, <1>5 DEF OldClaim
<1>7. /\ claim[c] = Active(o) /\ version[o].memory \in {t, None}
      /\ Opened(c) \ {o} = {n} /\ (fact[f].plan = "UPDATE" => o \notin Opened(c))
      /\ Leads(version, VersionsIn(c) \ {n}, o) /\ version[n].content = f
  BY <1>1, <1>3 DEF MutatedClaim
<1>8. n # o /\ n \in VersionsIn(c)
  BY <1>7 DEF Opened
<1>9. /\ \A a \in Memories \ {c} : Agrees(a)'
      /\ \A m \in Memories \ {f, t} : Live(m)' => Explained(m)'
  <2>1. version'[o].memory \in {f, t, None}
    BY <1>5, <1>7
  <2> QED BY <1>1, <1>3, <1>5, <1>6, <2>1, MutationFrame DEF GroundInv, Live
<1>10. MutatedMemories(f)'
  <2>1. \A v \in Versions : version'[v].memory = version[v].memory
    BY <1>5
  <2> QED BY <1>1, <1>2, <1>3, <2>1 DEF MutatedMemories, Live, Newer
<1>11. MutatedClaim(f)'
  <2>1. VersionsIn(c)' = VersionsIn(c)
    BY <1>5, <1>6 DEF VersionsIn
  <2>2. Opened(c)' = {n}
    <3>1. o \notin Opened(c)'
      BY <1>3, <1>5, <1>6, <1>7 DEF Opened, VersionsIn
    <3>2. \A v \in Versions \ {o} : v \in Opened(c)' <=> v \in Opened(c)
      BY <1>5, <2>1 DEF Opened, VersionsIn
    <3>3. Opened(c)' \subseteq Versions /\ Opened(c) \subseteq Versions
      BY DEF Opened, VersionsIn
    <3> QED BY <1>7, <3>1, <3>2, <3>3
  <2>3. Leads(version', VersionsIn(c), n)
    <3>1. (VersionsIn(c) \ {n}) \cup {n} = VersionsIn(c)
      BY <1>8
    <3>2. VersionsIn(c) \ {n} \in SUBSET Versions /\ n \in Versions \ (VersionsIn(c) \ {n})
      BY <1>3 DEF VersionsIn
    <3>3. \A v \in (VersionsIn(c) \ {n}) \ {o} : version'[v].successor = version[v].successor
      BY <1>5, <3>2
    <3>4. version'[o].successor = n
      BY <1>5
    <3> HIDE DEF c, o, n
    <3>5. Leads(version', (VersionsIn(c) \ {n}) \cup {n}, n)
      BY <1>7, <3>2, <3>3, <3>4, LeadsOn
    <3> QED BY <3>1, <3>5
  <2>4. /\ claim'[c] = Active(o) /\ version'[o].memory \in {t, None}
        /\ version'[n].content = f
    BY <1>1, <1>3, <1>5, <1>7, <1>8
  <2> QED BY <1>2, <1>3, <1>6, <2>1, <2>2, <2>3, <2>4 DEF MutatedClaim, Newer
<1>12. Mutates(f)'
  BY <1>1, <1>2 DEF Mutates
<1> QED BY <1>2, <1>6, <1>9, <1>10, <1>11, <1>12, LedgerMutated

\* The end of a mutation: the claim names the new version, or is deleted.
LEMMA LedgerEnd ==
  ASSUME GroundInv, NEW f \in Facts, FactLedger(f), Repoint(f) \/ InvalidateOldClaim(f)
  PROVE  FactLedger(f)'
<1> DEFINE t == fact[f].target
           o == fact[f].old
           c == OldClaim(f)
           n == Newer(f)
<1>1. /\ fact[f].step \in {"repoint", "invalidate"} /\ UNCHANGED <<memory, content, version>>
      /\ Goto(f, "done") /\ Mutates(f)
  BY DEF Repoint, InvalidateOldClaim, Mutates
<1>2. fact'[f].step = "done"
  <2>1. "done" \in FactSteps
    BY DEF FactSteps, FactEnds
  <2> QED BY <1>1, <2>1, MovesOn DEF GroundInv
<1>3. /\ t \in Memories /\ o \in Versions /\ c \in Memories /\ f \in Memories /\ n \in Versions
      /\ None \notin Memories /\ MutatedMemories(f) /\ MutatedClaim(f)
      /\ fact[f].step = "repoint" => fact[f].plan \in {"UPDATE", "SUPERSEDE"}
      /\ fact[f].step = "invalidate" => fact[f].plan = "DELETE"
  <2>1. /\ fact[f].step = "repoint" => fact[f].plan \in {"UPDATE", "SUPERSEDE"}
        /\ fact[f].step = "invalidate" => fact[f].plan = "DELETE"
    BY FactFacts DEF GroundInv, FactOK
  <2> QED BY <1>1, <2>1, MutationFacts, NamesApart DEF GroundInv
<1>4. /\ \A a \in Memories \ {c} : claim'[a] = claim[a]
      /\ fact[f].step = "repoint" => claim'[c] = Active(n)
      /\ fact[f].step = "invalidate" => claim'[c].status = "deleted"
  <2>1. claim \in [Memories -> ClaimType]
    BY DEF GroundInv, ShapeInv, TypeOK
  <2>2. CASE Repoint(f)
    BY <1>3, <2>1, <2>2 DEF Repoint, PointClaim, Active, Newer
  <2>3. CASE InvalidateOldClaim(f)
    BY <1>3, <2>1, <2>3 DEF InvalidateOldClaim
  <2> QED BY <2>2, <2>3
<1>5. /\ \A a \in Memories \ {c} : Agrees(a)'
      /\ \A m \in Memories \ {f, t} : Live(m)' => Explained(m)'
  BY <1>1, <1>4, MutationFrame DEF GroundInv, Live
<1>6. ASSUME NEW a \in Memories, a = c PROVE Agrees(a)'
  <2>1. CASE fact[f].step = "invalidate"
    BY <1>4, <1>6, <2>1 DEF Agrees
  <2>2. CASE fact[f].step = "repoint"
    <3>1. Opened(c) = {n} /\ Leads(version, VersionsIn(c), n)
      BY <1>3, <2>2 DEF MutatedClaim
    <3>2. Opened(a)' = {n} /\ VersionsIn(a)' = VersionsIn(c)
      BY <1>1, <1>6, <3>1 DEF Opened, VersionsIn
    <3>3. claim'[a].current = n
      BY <1>4, <1>6, <2>2 DEF Active
    <3> QED BY <1>1, <3>1, <3>2, <3>3 DEF Agrees
  <2> QED BY <1>1, <2>1, <2>2
<1>7. ASSUME NEW m \in {f, t}, Live(m)' PROVE Explained(m)'
  <2>1. Live(m)
    BY <1>1, <1>7 DEF Live
  <2>2. fact[f].step = "repoint" /\ content[m] = f /\ \A v \in Versions : version[v].memory = m => v = n
    BY <1>1, <1>3, <2>1 DEF MutatedMemories
  <2>3. version[n].claim = c /\ version[n].content = f
    <3>1. n \in Opened(c) /\ version[n].content = f
      BY <1>3, <2>2 DEF MutatedClaim
    <3> QED BY <3>1 DEF Opened, VersionsIn
  <2> QED BY <1>1, <1>4, <2>2, <2>3 DEF Explained
<1>8. Rest(None, {})'
  <2>1. \A a \in Memories : Agrees(a)'
    BY <1>5, <1>6
  <2>2. \A m \in Memories : Live(m)' => Explained(m)'
    BY <1>5, <1>7
  <2> QED BY <2>1, <2>2 DEF Rest
<1> QED BY <1>2, <1>8 DEF FactLedger, FactEnds, Mutates

\* The deletion of a memory, step by step.
LEMMA LedgerReadDeleted ==
  ASSUME GroundInv, NEW d \in Deletes, Rest(None, {}), ReadDeleted(d)
  PROVE  DelLedger(d)'
<1>1. PICK m \in Memories : /\ Live(m)
                            /\ del' = [del EXCEPT ![d] = [step |-> "lookup", memory |-> m, old |-> None]]
  BY DEF ReadDeleted, Live
<1>2. UNCHANGED <<memory, content, claim, version>> /\ del \in [Deletes -> DelType]
  BY DEF ReadDeleted, GroundInv, ShapeInv, TypeOK
<1>3. del'[d].step = "lookup" /\ del'[d].memory = m /\ del'[d].old = None
  BY <1>1, <1>2
<1>4. Explained(m)
  BY <1>1 DEF Rest
<1>5. Rest(None, {})' /\ Explained(m)'
  BY <1>2, <1>4, RestUnchanged
<1>6. Explained(del[d].memory)'
  BY <1>3, <1>5 DEF Explained
<1> QED BY <1>3, <1>5, <1>6 DEF DelLedger, FactEnds

LEMMA LedgerLookupDeleted ==
  ASSUME GroundInv, NEW d \in Deletes, DelLedger(d), LookupDeleted(d)
  PROVE  DelLedger(d)'
<1> DEFINE m == del[d].memory
<1>1. /\ del[d].step = "lookup" /\ UNCHANGED <<memory, content, claim, version>>
      /\ Rest(None, {}) /\ Explained(m) /\ del[d].old = None
  BY DEF LookupDeleted, DelLedger
<1>2. del \in [Deletes -> DelType] /\ None \notin Memories /\ None \notin Versions
  BY NamesApart DEF GroundInv, ShapeInv, TypeOK
<1>3. Rest(None, {})'
  BY <1>1, RestUnchanged
<1>4. ASSUME NEW v \in VersionsOf(m), del' = [del EXCEPT ![d].old = v, ![d].step = "softDelete"]
      PROVE  DelLedger(d)'
  <2>1. del'[d].step = "softDelete" /\ del'[d].old = v /\ del'[d].memory = m
    BY <1>2, <1>4 DEF DelType
  <2>2. v # None /\ version[v].memory = m /\ claim[version[v].claim] = Active(v)
    BY <1>1, <1>2, <1>4 DEF VersionsOf, Explained
  <2>3. Rest(version[del[d].old].claim, {del[d].memory})'
    BY <1>3, <1>2 DEF Rest
  <2> QED BY <1>1, <2>1, <2>2, <2>3 DEF DelLedger, FactEnds
<1>5. ASSUME del' = [del EXCEPT ![d].step = "softDelete"] PROVE DelLedger(d)'
  <2>1. del'[d].step = "softDelete" /\ del'[d].old = None
    BY <1>1, <1>2, <1>5 DEF DelType
  <2> QED BY <1>3, <2>1 DEF DelLedger
<1> QED BY <1>4, <1>5 DEF LookupDeleted

\* What a deletion that found a version works on, and the rest.
LEMMA DeleteFrame ==
  ASSUME GroundInv, NEW d \in Deletes, DelLedger(d), del[d].old # None,
         del[d].step \in {"softDelete", "close", "invalidate"},
         \A a \in Memories \ {version[del[d].old].claim} : claim'[a] = claim[a],
         \A v \in Versions \ {del[d].old} : version'[v] = version[v],
         version'[del[d].old].claim = version[del[d].old].claim,
         version'[del[d].old].memory = version[del[d].old].memory,
         UNCHANGED content,
         \A m \in Memories \ {del[d].memory} : Live(m)' => Live(m)
  PROVE  /\ \A a \in Memories \ {version[del[d].old].claim} : Agrees(a)'
         /\ \A m \in Memories \ {del[d].memory} : Live(m)' => Explained(m)'
<1> DEFINE c == version[del[d].old].claim
           M == {del[d].memory}
<1>1. Rest(c, M) /\ claim[c] = Active(del[d].old) /\ version[del[d].old].memory \in M
  BY DEF DelLedger
<1>2. \A v \in Versions : claim[c] = Active(v) => version[v].memory \in M \cup {None}
  BY <1>1 DEF Active
<1>3. \A v \in Versions :
           \/ version'[v] = version[v]
           \/ version[v].claim \in {c, None} /\ version'[v].claim = c /\ version'[v].memory \in M \cup {None}
  BY <1>1
<1>4. /\ \A a \in Memories \ {c} : claim'[a] = claim[a]
      /\ \A m \in Memories \ M : content'[m] = content[m] /\ (Live(m)' => Live(m))
  OBVIOUS
<1> HIDE DEF c, M
<1>5. /\ \A a \in Memories \ {c} : Agrees(a)'
      /\ \A m \in Memories \ M : Live(m)' => Explained(m)'
  BY <1>1, <1>2, <1>3, <1>4, RestStays DEF GroundInv
<1> QED BY <1>5 DEF c, M

LEMMA LedgerSoftDelete ==
  ASSUME GroundInv, NEW d \in Deletes, DelLedger(d), SoftDelete(d)
  PROVE  DelLedger(d)'
<1> DEFINE m == del[d].memory
           o == del[d].old
<1>1. /\ del[d].step = "softDelete" /\ UNCHANGED <<content, claim, version>> /\ m \in Memories
  BY DeleteFacts DEF SoftDelete, GroundInv, DelSteps, FactEnds
<1>2. /\ del'[d].step = IF o = None THEN "done" ELSE "close"
      /\ del'[d].memory = m /\ del'[d].old = o
  BY DEF SoftDelete, GroundInv, ShapeInv, TypeOK, DelType
<1>3. \A a \in Memories : (Live(a)' => Live(a)) /\ (a = m => ~Live(a)')
  BY <1>1 DEF SoftDelete, GroundInv, ShapeInv, TypeOK, Live
<1>4. CASE o = None
  <2>1. Rest(None, {})
    BY <1>4 DEF DelLedger
  <2>2. /\ \A a \in Memories \ {None} : Agrees(a)'
        /\ \A a \in Memories \ {} : Live(a)' => Explained(a)'
    BY <1>1, <1>3, <2>1, NamesApart, RestStays DEF GroundInv
  <2>3. Rest(None, {})'
    BY <2>2 DEF Rest
  <2> QED BY <1>2, <1>4, <2>3 DEF DelLedger
<1>5. CASE o # None
  <2>1. /\ \A a \in Memories \ {version[o].claim} : Agrees(a)'
        /\ \A a \in Memories \ {m} : Live(a)' => Explained(a)'
    BY <1>1, <1>3, <1>5, DeleteFrame
  <2>2. Rest(version[del[d].old].claim, {del[d].memory})'
    BY <1>1, <1>2, <2>1 DEF Rest
  <2>3. claim[version[o].claim] = Active(o) /\ version[o].memory = m
    BY <1>1, <1>5 DEF DelLedger
  <2>4. ~Live(del[d].memory)'
    BY <1>1, <1>2, <1>3 DEF Live
  <2> QED BY <1>1, <1>2, <1>5, <2>2, <2>3, <2>4 DEF DelLedger, FactEnds
<1> QED BY <1>4, <1>5

LEMMA LedgerCloseDeleted ==
  ASSUME GroundInv, NEW d \in Deletes, DelLedger(d), CloseDeleted(d)
  PROVE  DelLedger(d)'
<1> DEFINE m == del[d].memory
           o == del[d].old
<1>1. /\ del[d].step = "close" /\ UNCHANGED <<memory, content, claim>>
      /\ o # None /\ o \in Versions
  BY DeleteFacts DEF CloseDeleted, GroundInv, DelOK
<1>2. del'[d].step = "invalidate" /\ del'[d].memory = m /\ del'[d].old = o
  BY DEF CloseDeleted, GroundInv, ShapeInv, TypeOK, DelType
<1>3. /\ \A v \in Versions \ {o} : version'[v] = version[v]
      /\ version'[o].claim = version[o].claim /\ version'[o].memory = version[o].memory
  BY <1>1 DEF CloseDeleted, GroundInv, ShapeInv, TypeOK, VersionType
<1>4. /\ \A a \in Memories \ {version[o].claim} : Agrees(a)'
      /\ \A a \in Memories \ {m} : Live(a)' => Explained(a)'
  BY <1>1, <1>3, DeleteFrame DEF Live
<1>5. Rest(version[del[d].old].claim, {del[d].memory})'
  BY <1>2, <1>3, <1>4 DEF Rest
<1>6. claim[version[o].claim] = Active(o) /\ version[o].memory = m /\ ~Live(m)
  BY <1>1 DEF DelLedger
<1> QED BY <1>1, <1>2, <1>3, <1>5, <1>6 DEF DelLedger, FactEnds, Live

LEMMA LedgerInvalidateDeleted ==
  ASSUME GroundInv, NEW d \in Deletes, DelLedger(d), InvalidateDeleted(d)
  PROVE  DelLedger(d)'
<1> DEFINE m == del[d].memory
           o == del[d].old
           c == version[o].claim
<1>1. /\ del[d].step = "invalidate" /\ UNCHANGED <<memory, content, version>>
      /\ o # None /\ o \in Versions /\ c \in Memories
  BY DeleteFacts DEF InvalidateDeleted, GroundInv, DelOK
<1>2. del'[d].step = "done"
  BY DEF InvalidateDeleted, GroundInv, ShapeInv, TypeOK, DelType
<1>3. claim'[c].status = "deleted" /\ \A a \in Memories \ {c} : claim'[a] = claim[a]
  BY <1>1 DEF InvalidateDeleted, GroundInv, ShapeInv, TypeOK
<1>4. /\ \A a \in Memories \ {c} : Agrees(a)'
      /\ \A a \in Memories \ {m} : Live(a)' => Explained(a)'
  BY <1>1, <1>3, DeleteFrame DEF Live
<1>5. ASSUME NEW a \in Memories, a = c PROVE Agrees(a)'
  BY <1>3, <1>5 DEF Agrees
<1>6. ~Live(m) /\ \A a \in Memories : Live(a)' <=> Live(a)
  BY <1>1 DEF DelLedger, Live
<1>7. Rest(None, {})'
  <2>1. \A a \in Memories : Agrees(a)'
    BY <1>4, <1>5
  <2>2. \A a \in Memories : Live(a)' => Explained(a)'
    BY <1>4, <1>6
  <2> QED BY <2>1, <2>2 DEF Rest
<1> QED BY <1>2, <1>7 DEF DelLedger

\* The archival only takes memories out of sight, so nothing disagrees that did not.
LEMMA LedgerArchive ==
  ASSUME UNCHANGED <<content, claim, version, fact, del>>, \A m \in Memories : Live(m)' => Live(m)
  PROVE  /\ Rest(None, {}) => Rest(None, {})'
         /\ \A f \in Facts : FactLedger(f) /\ f \in Memories /\ (Mutates(f) => fact[f].target \in Memories)
                               => FactLedger(f)'
         /\ \A d \in Deletes : DelLedger(d) /\ (del[d].step \in {"close", "invalidate"} => del[d].memory \in Memories)
                               => DelLedger(d)'
<1>1. \A c : VersionsIn(c)' = VersionsIn(c) /\ Opened(c)' = Opened(c) /\ VersionsOf(c)' = VersionsOf(c)
  BY DEF VersionsIn, Opened, VersionsOf, Present
<1>2. \A c : (Agrees(c) => Agrees(c)') /\ (Explained(c) => Explained(c)')
  BY <1>1 DEF Agrees, Explained
<1>3. \A c, M : Rest(c, M) => /\ \A a \in Memories \ {c} : Agrees(a)'
                              /\ \A m \in Memories \ M : Live(m)' => Explained(m)'
  BY <1>2 DEF Rest
<1>4. Rest(None, {}) => Rest(None, {})'
  BY <1>3 DEF Rest
<1>5. ASSUME NEW f \in Facts, FactLedger(f), f \in Memories, Mutates(f) => fact[f].target \in Memories
      PROVE  FactLedger(f)'
  <2>1. /\ About(f)' = About(f) /\ Words(f)' = Words(f) /\ OldClaim(f)' = OldClaim(f)
        /\ (Unclaimed(f)' <=> Unclaimed(f)) /\ (Mutates(f)' <=> Mutates(f))
    BY DEF About, Words, OldClaim, Unclaimed, Mutates
  <2>2. Mutates(f) => Rest(OldClaim(f), {f, fact[f].target})'
    <3>1. Mutates(f) => Rest(OldClaim(f), {f, fact[f].target})
      BY <1>5 DEF FactLedger
    <3> QED BY <1>3, <2>1, <3>1 DEF Rest
  <2>3. /\ Rest(f, {}) => Rest(f, {})'
        /\ Rest(f, {About(f)}) => Rest(f, {About(f)})'
    BY <1>3, <2>1 DEF Rest
  <2>4. Mutates(f) => MutatedMemories(f)'
    BY <1>5 DEF FactLedger, MutatedMemories, Newer
  <2>5. Mutates(f) => MutatedClaim(f)'
    BY <1>1, <1>5, <2>1 DEF FactLedger, MutatedClaim, Newer
  <2>6. Explained(fact[f].target) => Explained(fact[f].target)'
    BY <1>2 DEF Explained
  <2>7. VersionsOf(About(f))' = VersionsOf(About(f)) /\ VersionsIn(f)' = VersionsIn(f) /\ First(f)' = First(f)
    BY <1>1, <2>1 DEF VersionsOf, Present, First, VersionsIn
  <2> QED BY <1>4, <1>5, <2>1, <2>2, <2>3, <2>4, <2>5, <2>6, <2>7 DEF FactLedger
<1>6. ASSUME NEW d \in Deletes, DelLedger(d), del[d].step \in {"close", "invalidate"} => del[d].memory \in Memories
      PROVE  DelLedger(d)'
  <2>1. Rest(version[del[d].old].claim, {del[d].memory}) => Rest(version[del[d].old].claim, {del[d].memory})'
    BY <1>3 DEF Rest
  <2>2. Explained(del[d].memory) => Explained(del[d].memory)'
    BY <1>2 DEF Explained
  <2>3. del[d].memory \in Memories => (Live(del[d].memory)' => Live(del[d].memory))
    BY DEF Live
  <2> QED BY <1>4, <1>6, <2>1, <2>2, <2>3 DEF DelLedger
<1> QED BY <1>4, <1>5, <1>6

LEMMA NewStep ==
  ASSUME ShapeInv, NamedInv, NewInv, [Next]_vars
  PROVE  NewInv'
<1>1. ASSUME NEW f \in Facts, FactNext(f), UNCHANGED setting PROVE NewInv'
  <2>1. Onward(f) /\ Stored(f) /\ Owned(f) /\ Ordered(f)
    BY <1>1, FactMovesOnward, FactStores, FactOwns, FactIsOrdered
  <2> QED BY <2>1, NewBesideFact
<1>2. ASSUME NEW d \in Deletes, DeleteNext(d), UNCHANGED setting PROVE NewInv'
  <2>1. DeletedAside
    BY <1>2, DeleteFades
  <2>2. UNCHANGED content
    BY <1>2 DEF DeleteNext, ReadDeleted, LookupDeleted, SoftDelete, CloseDeleted,
       InvalidateDeleted, AbortDelete
  <2>3. ASSUME NEW c \in Memories
        PROVE  claim'[c] = claim[c] \/ \E v \in Versions : version[v].claim = c
    <3>1. CASE UNCHANGED claim
      BY <3>1
    <3>2. CASE InvalidateDeleted(d)
      <4>1. del[d].old \in Versions /\ claim \in [Memories -> ClaimType]
        BY <3>2, DeleteFacts DEF InvalidateDeleted, DelOK, ShapeInv, TypeOK
      <4> QED BY <3>2, <4>1 DEF InvalidateDeleted
    <3> QED BY <1>2, <3>1, <3>2 DEF DeleteNext, ReadDeleted, LookupDeleted, SoftDelete,
            CloseDeleted, AbortDelete
  <2> QED BY <2>1, <2>2, <2>3, NewBesideDelete
<1>3. ASSUME NEW m \in Memories, Archive(m), UNCHANGED setting PROVE NewInv'
  <2>1. DeletedAside /\ UNCHANGED <<content, claim>>
    BY <1>3 DEF Archive, DeletedAside, Fades, ShapeInv, TypeOK
  <2> QED BY <2>1, NewBesideDelete
<1>4. CASE UNCHANGED vars
  <2>1. DeletedAside /\ UNCHANGED <<content, claim>>
    BY <1>4 DEF vars, DeletedAside, Fades
  <2> QED BY <2>1, NewBesideDelete
<1> QED BY <1>1, <1>2, <1>3, <1>4 DEF Next

LEMMA GroundStep == GroundInv /\ [Next]_vars => GroundInv'
  BY ShapeStep, NamedStep, OneVersionStep, YoungerStep, NewStep DEF GroundInv

\* A fact whose handler takes a step was running, or starts with nobody beside it.
LEMMA LedgerFactStep ==
  ASSUME Serial, GroundInv, GroundInv', SerialInv, LedgerInv, NEW f \in Facts, FactNext(f),
         UNCHANGED <<del, setting>>
  PROVE  LedgerInv'
<1>1. Onward(f)
  BY FactMovesOnward DEF GroundInv
<1>2. f \in FactsInFlight \/ (fact[f].step = "idle" /\ HasRoom)
  BY <1>1 DEF Onward, FactsInFlight, FactEnds
<1>3. FactsInFlight \ {f} = {} /\ DeletesInFlight = {}
  <2>1. CASE f \in FactsInFlight
    BY <2>1 DEF SerialInv, Serial
  <2>2. CASE HasRoom
    BY <2>2, RoomMeansNobody DEF Serial
  <2> QED BY <1>2, <2>1, <2>2
<1>4. FactLedger(f)
  <2>1. CASE f \in FactsInFlight
    BY <2>1 DEF LedgerInv
  <2>2. CASE fact[f].step = "idle"
    <3>1. FactsInFlight = {}
      BY <1>3, <2>2 DEF FactsInFlight, FactEnds
    <3>2. Rest(None, {})
      BY <1>3, <3>1 DEF LedgerInv, Quiet
    <3> QED BY <2>2, <3>2 DEF FactLedger, Mutates
  <2> QED BY <1>2, <2>1, <2>2
<1>5. FactLedger(f)'
  BY <1>4, LedgerFind, LedgerReadTarget, LedgerLookup, LedgerCreateClaim, LedgerFirstVersion,
     LedgerPointFirst, LedgerStore, LedgerUpdate, LedgerHide, LedgerRelease, LedgerNextVersion,
     LedgerLink, LedgerEnd DEF FactNext, AbortFact, Serial
<1>6. FactsInFlight' \subseteq {f} /\ DeletesInFlight' = {}
  BY <1>1, <1>3 DEF Onward, FactsInFlight, DeletesInFlight
<1>7. Quiet' => Rest(None, {})'
  BY <1>5 DEF Quiet, FactsInFlight, FactLedger
<1> QED BY <1>5, <1>6, <1>7 DEF LedgerInv

LEMMA LedgerDeleteStep ==
  ASSUME Serial, GroundInv, SerialInv, LedgerInv, NEW d \in Deletes, DeleteNext(d),
         UNCHANGED <<fact, setting>>
  PROVE  LedgerInv'
<1>1. /\ \A e \in Deletes \ {d} : del'[e] = del[e]
      /\ d \in DeletesInFlight \/ (del[d].step = "idle" /\ HasRoom)
  BY OneStarts DEF GroundInv
<1>2. FactsInFlight = {} /\ DeletesInFlight \ {d} = {}
  <2>1. CASE d \in DeletesInFlight
    BY <2>1 DEF SerialInv, Serial
  <2>2. CASE HasRoom
    BY <2>2, RoomMeansNobody DEF Serial
  <2> QED BY <1>1, <2>1, <2>2
<1>3. DelLedger(d)'
  <2>1. CASE d \in DeletesInFlight
    <3>1. DelLedger(d) /\ ~ReadDeleted(d) /\ ~AbortDelete(d)
      BY <2>1 DEF LedgerInv, DeletesInFlight, FactEnds, ReadDeleted, AbortDelete, Serial
    <3> QED BY <3>1, LedgerLookupDeleted, LedgerSoftDelete, LedgerCloseDeleted,
            LedgerInvalidateDeleted DEF DeleteNext
  <2>2. CASE del[d].step = "idle"
    <3>1. DeletesInFlight = {}
      BY <1>2, <2>2 DEF DeletesInFlight, FactEnds
    <3>2. Rest(None, {})
      BY <1>2, <3>1 DEF LedgerInv, Quiet
    <3>3. ReadDeleted(d)
      BY <2>2, <3>1 DEF DeleteNext, LookupDeleted, SoftDelete, CloseDeleted, InvalidateDeleted,
         AbortDelete
    <3> QED BY <3>2, <3>3, LedgerReadDeleted
  <2> QED BY <1>1, <2>1, <2>2
<1>4. DeletesInFlight' \subseteq {d} /\ FactsInFlight' = {}
  BY <1>1, <1>2 DEF FactsInFlight, DeletesInFlight
<1>5. Quiet' => Rest(None, {})'
  BY <1>3 DEF Quiet, DeletesInFlight, DelLedger
<1> QED BY <1>3, <1>4, <1>5 DEF LedgerInv

LEMMA LedgerStep ==
  ASSUME GroundInv, GroundInv', SerialInv, LedgerInv, [Next]_vars
  PROVE  LedgerInv'
<1> SUFFICES ASSUME Serial, UNCHANGED setting PROVE LedgerInv'
  <2>1. UNCHANGED setting
    BY DEF Next, vars
  <2> QED BY <2>1 DEF LedgerInv, Serial
<1>1. ASSUME NEW f \in Facts, FactNext(f) PROVE LedgerInv'
  <2>1. UNCHANGED del
    BY <1>1 DEF FactNext, FindCandidates, ReadTarget, LookupVersion, CreateClaim,
       CreateFirstVersion, PointFirst, StoreMemory, UpdateContent, CloseOldVersion, ReleaseMemory,
       ExpireTarget, SoftDeleteTarget, CreateNextVersion, LinkOldVersion, Repoint,
       InvalidateOldClaim, AbortFact
  <2> QED BY <1>1, <2>1, LedgerFactStep
<1>2. ASSUME NEW d \in Deletes, DeleteNext(d) PROVE LedgerInv'
  <2>1. UNCHANGED fact
    BY <1>2, DeleteFades DEF DeletedAside, GroundInv
  <2> QED BY <1>2, <2>1, LedgerDeleteStep
<1>3. ASSUME UNCHANGED <<content, claim, version, fact, del>>, \A m \in Memories : Live(m)' => Live(m)
      PROVE  LedgerInv'
  <2>1. FactsInFlight' = FactsInFlight /\ DeletesInFlight' = DeletesInFlight /\ (Quiet' <=> Quiet)
    BY <1>3 DEF FactsInFlight, DeletesInFlight, Quiet, Serial
  <2>2. ASSUME NEW f \in FactsInFlight PROVE FactLedger(f)'
    <3>1. f \in Facts /\ f \in Memories /\ FactLedger(f)
      BY FactFacts DEF FactsInFlight, GroundInv, LedgerInv
    <3>2. Mutates(f) => fact[f].target \in Memories
      BY <3>1, MutationFacts DEF GroundInv
    <3> QED BY <1>3, <3>1, <3>2, LedgerArchive
  <2>3. ASSUME NEW d \in DeletesInFlight PROVE DelLedger(d)'
    <3>1. d \in Deletes /\ DelLedger(d)
      BY DEF DeletesInFlight, LedgerInv
    <3>2. del[d].step \in {"close", "invalidate"} => del[d].memory \in Memories
      BY <3>1, DeleteFacts DEF GroundInv, DelSteps, FactEnds
    <3> QED BY <1>3, <3>1, <3>2, LedgerArchive
  <2>4. Quiet => Rest(None, {})'
    BY <1>3, LedgerArchive DEF LedgerInv
  <2> QED BY <2>1, <2>2, <2>3, <2>4 DEF LedgerInv
<1>4. ASSUME NEW m \in Memories, Archive(m) PROVE LedgerInv'
  <2>1. \A w \in Memories : Live(w)' => Live(w)
    BY <1>4 DEF Archive, Live, GroundInv, ShapeInv, TypeOK
  <2> QED BY <1>3, <1>4, <2>1 DEF Archive
<1>5. CASE UNCHANGED vars
  <2>1. \A w \in Memories : Live(w)' => Live(w)
    BY <1>5 DEF vars, Live
  <2> QED BY <1>3, <1>5, <2>1 DEF vars
<1> QED BY <1>1, <1>2, <1>4, <1>5 DEF Next

\* One handler at a time and none cut off: after any sequence of mutations, deletes and
\* archivals, of any number of facts, an active claim has one open version, its current
\* one; a memory that search returns and that has a version is the memory of a current
\* one, with its words; and every version of an active claim leads to the current one,
\* so that getReversalChain explains what search returns.
THEOREM LedgersAgree == Spec => []LedgerAgrees
<1> DEFINE Inv == GroundInv /\ SerialInv /\ LedgerInv
<1>1. Init => Inv
  BY ShapeInitial, NamedInitial, OneVersionInitial, LinkInitial, ForgetInitial, LedgerInitial
     DEF GroundInv, LinkInv, ForgetInv
<1>2. Inv /\ [Next]_vars => Inv'
  BY GroundStep, SerialStep, LedgerStep DEF GroundInv
<1>3. Inv => LedgerAgrees
  BY RestIsAgreement DEF GroundInv, ShapeInv
<1> QED BY <1>1, <1>2, <1>3, PTL DEF Spec
================================================================================
