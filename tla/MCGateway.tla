------------------------------ MODULE MCGateway ------------------------------
(* Three workers, two providers, two values; three requests in turn, one to all. *)
EXTENDS Gateway

CONSTANTS r1, r2, r3, v1, v2, message, none

MCRequests == {r1, r2, r3}
MCValues == {v1, v2}
MCLoad == [m \in Modes |-> CASE m = "random" -> 2 [] m = "round-robin" -> 3 [] OTHER -> 1]
=============================================================================
