--------------------------- MODULE ArtifactClaims ---------------------------
(***************************************************************************)
(* What the claim columns of `storage_artifacts` promise to the handlers   *)
(* that share a row. An artifact is created once. A DELETE request takes   *)
(* an artifact's delete claim only while nobody holds it; only the request *)
(* that holds it gives it back or turns the artifact into a tombstone; a   *)
(* request that stops half-way leaves the claim where it is. A document    *)
(* delete may tombstone an artifact nobody has claimed. The upload's own   *)
(* claim is given up at most once, never under a delete claim and never    *)
(* after the tombstone, and a tombstone is final.                          *)
(***************************************************************************)
CONSTANTS Artifacts, Deletes, None

VARIABLES
    created,    \* artifacts that have a row
    uploading,  \* artifacts whose upload claim is held
    holder,     \* the request holding each artifact's delete claim, or None
    gone,       \* tombstones
    request     \* each request is waiting, holding a claim, or over

vars == <<created, uploading, holder, gone, request>>

Init ==
    /\ created = {}
    /\ uploading = {}
    /\ holder = [a \in Artifacts |-> None]
    /\ gone = {}
    /\ request = [d \in Deletes |-> "waiting"]

Become(d, s) == request' = [request EXCEPT ![d] = s]

Create(a) ==
    /\ a \notin created
    /\ created' = created \cup {a}
    /\ \/ uploading' = uploading \cup {a}
       \/ UNCHANGED uploading
    /\ UNCHANGED <<holder, gone, request>>

FinishUpload(a) ==
    /\ a \in uploading \ gone
    /\ holder[a] = None
    /\ uploading' = uploading \ {a}
    /\ UNCHANGED <<created, holder, gone, request>>

Acquire(a, d) ==
    /\ a \in created \ gone
    /\ holder[a] = None
    /\ request[d] = "waiting"
    /\ holder' = [holder EXCEPT ![a] = d]
    /\ Become(d, "holding")
    /\ UNCHANGED <<created, uploading, gone>>

Holds(a, d) == holder[a] = d /\ request[d] = "holding"

Release(a, d) ==
    /\ Holds(a, d)
    /\ holder' = [holder EXCEPT ![a] = None]
    /\ Become(d, "over")
    /\ UNCHANGED <<created, uploading, gone>>

\* The holder's tombstone. What was never finished uploading stays so.
Destroy(a, d) ==
    /\ Holds(a, d)
    /\ gone' = gone \cup {a}
    /\ holder' = [holder EXCEPT ![a] = None]
    /\ Become(d, "over")
    /\ UNCHANGED <<created, uploading>>

\* A tombstone made for a document, of an artifact nobody has claimed.
DestroyUnclaimed(a) ==
    /\ a \in created \ gone
    /\ holder[a] = None
    /\ gone' = gone \cup {a}
    /\ UNCHANGED <<created, uploading, holder, request>>

\* A request answers without a claim, or stops and leaves its claim behind.
GiveUp(d) ==
    /\ request[d] \in {"waiting", "holding"}
    /\ Become(d, "over")
    /\ UNCHANGED <<created, uploading, holder, gone>>

Next ==
    \/ \E a \in Artifacts :
          \/ Create(a) \/ FinishUpload(a) \/ DestroyUnclaimed(a)
          \/ \E d \in Deletes : Acquire(a, d) \/ Release(a, d) \/ Destroy(a, d)
    \/ \E d \in Deletes : GiveUp(d)

Spec == Init /\ [][Next]_vars
=============================================================================
