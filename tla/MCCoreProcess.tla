----------------------------- MODULE MCCoreProcess ------------------------------
(* Instance of CoreProcess for TLC: two processes at an outbox of one event, one    *)
(* process at an outbox of two, or one process with the reflect queue. The two     *)
(* loops share no table.                                                          *)
EXTENDS CoreProcess

CONSTANTS p1, p2

MCDeployments ==
    {[traces |-> TRUE,  reflect |-> FALSE, running |-> {p1, p2}, events |-> 1],
     [traces |-> TRUE,  reflect |-> FALSE, running |-> {p1},     events |-> 2],
     [traces |-> FALSE, reflect |-> TRUE,  running |-> {p1},     events |-> 0]}

================================================================================
