---------------------------- MODULE MCHttpAdapter ----------------------------
(* Instances of HttpAdapter for TLC. *)
EXTENDS HttpAdapter

CONSTANTS r1, r2, a, b

Request2 == {r1, r2}
OneOrTwo == {[r \in Request2 |-> a], [r \in Request2 |-> IF r = r1 THEN a ELSE b]}
=============================================================================
