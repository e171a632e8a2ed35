-------------------------- MODULE MCOutboundEmitter --------------------------
(* Instances of OutboundEmitter for TLC. *)
EXTENDS OutboundEmitter

CONSTANTS m1, m2

Message2 == {m1, m2}
=============================================================================
