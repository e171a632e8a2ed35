--------------------------- MODULE MCPumbleAdapter ---------------------------
(* Small instances of PumbleAdapter for TLC. *)
EXTENDS PumbleAdapter

CONSTANTS m1, m2

Kinds(k1, k2) == [m \in Message |-> IF m = m1 THEN k1 ELSE k2]

(* Two answered messages: where the answers appear, over a restart and a failing store. *)
Routing ==
    {[written |-> {m1, m2}, kind |-> Kinds("reply", "error"), streams |-> FALSE, posts |-> 2,
      deliveries |-> 3 - f, faults |-> f, crashes |-> 1,
      events |-> [turn : Message, type : {"terminal"}]] : f \in {0, 1}}

(* One message with all of its events, a failing call or a restart. *)
Rendering ==
    {[written |-> {m1}, kind |-> Kinds(k, "reply"), streams |-> s, posts |-> 1,
      deliveries |-> 4 - f, faults |-> f, crashes |-> 1 - f,
      events |-> [turn : {m1}, type : Type]] : k \in Kind, s \in BOOLEAN, f \in {0, 1}}

(* What a retry repeats that falls behind both a failing call and a restart. *)
Recovering ==
    {[written |-> {m1}, kind |-> Kinds("reply", "reply"), streams |-> TRUE, posts |-> 1,
      deliveries |-> 4, faults |-> 2, crashes |-> 1,
      events |-> [turn : {m1}, type : {"delta", "terminal"}]]}

MCPlans == Routing \cup Rendering \cup Recovering
=============================================================================
