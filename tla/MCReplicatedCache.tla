--------------------------- MODULE MCReplicatedCache ---------------------------
(* Small instances of ReplicatedCache for TLC. *)
EXTENDS ReplicatedCache

CONSTANTS c1, c2

Setting(quorum, clients, n, f, ops) ==
    [writeQuorum |-> quorum, requirePrimary |-> quorum = 2, clients |-> clients,
     calls |-> n, faults |-> f, ops |-> ops]

\* With the default quorum and with one of all adapters: calls one after the other
\* while operations fail, two calls of any kind at once, and three when nothing fails.
MCSettings ==
    UNION {{Setting(q, {c1}, 3, 1, {"get", "set", "delete"}),
            Setting(q, {c1}, 2, 2, {"get", "set", "delete"}),
            Setting(q, {c1, c2}, 2, 1, Ops),
            Setting(q, {c1, c2}, 3, 0, {"get", "set", "delete"})} : q \in 1..2}
================================================================================
