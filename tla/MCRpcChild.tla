----------------------------- MODULE MCRpcChild -----------------------------
(* Instances of RpcChild for TLC. *)
EXTENDS RpcChild

CONSTANTS k1, k2, k3, a, b

Child3 == {k1, k2, k3}

Child2 == {k1, k2}

Key2 == {a, b}
=============================================================================
