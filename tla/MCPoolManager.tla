---------------------------- MODULE MCPoolManager ----------------------------
(***************************************************************************)
(* Model-checking instances of PoolManager: small sets of conversations,   *)
(* callers and process identities, and the environments the runs explore.  *)
(* Child needs MaxChildren identities for the slots and a few more for     *)
(* leases that outlive their process.                                      *)
(***************************************************************************)
EXTENDS PoolManager, TLC

CONSTANTS k1, k2, k3, c1, c2, c3, x1, x2, x3, x4

Conv1 == {k1}
Conv2 == {k1, k2}
Conv3 == {k1, k2, k3}
Caller2 == {c1, c2}
Caller3 == {c1, c2, c3}
Child3 == {x1, x2, x3}
Child4 == {x1, x2, x3, x4}

\* What the registry may hold when the pool starts.
FreshDatabase == {"noRow"}
AnyDatabase == {"noRow", "stale"}

\* Environments.
Handled == {"factory", "attach", "exit", "error", "idle", "reset"}
Orderly == {"exit", "error", "idle", "reset"}
Hostile == Handled \cup {"negotiate", "close", "ackTimeout", "closeIdle"}
Ending == {"shutdown", "idle", "exit"}
IdleTimers == {"idle"}
FactoryFails == {"factory"}
NegotiationFails == {"negotiate"}
AckTimeouts == {"ackTimeout", "error"}

\* Process identities are interchangeable; used by runs without liveness.
ChildSymmetry == Permutations(Child)
=============================================================================
