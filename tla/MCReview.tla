------------------------------ MODULE MCReview ------------------------------
(* Small instances of ReviewGraph: two assignments whose results interact. *)
EXTENDS ReviewGraph

CONSTANTS a1, a2, v0, v1

MCRequests ==
    {[correctors |-> {a1, a2}, cross |-> TRUE, skipped |-> FALSE],
     [correctors |-> {a1}, cross |-> FALSE, skipped |-> TRUE]}

MCOrder == <<a1, a2>>
=============================================================================
