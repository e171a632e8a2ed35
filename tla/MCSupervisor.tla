---------------------------- MODULE MCSupervisor ----------------------------
(* Instances of Supervisor for TLC. *)
EXTENDS Supervisor, TLC

CONSTANTS m1, m2, m3, k1, k2

Message3 == {m1, m2, m3}

Child2 == {k1, k2}

Says(k, n, c) ==
    [kind    |-> m1 :> k[1] @@ m2 :> k[2] @@ m3 :> k[3],
     posts   |-> m1 :> n[1] @@ m2 :> n[2] @@ m3 :> n[3],
     crashes |-> c]

(* With a crash, two messages of which one is delivered twice, a session reset that
   joins the turn it takes down among them; without one, two addressed messages and
   an ambient one, in any order: a turn, what joins it and what supersedes it. *)
Conversations ==
    {Says(<<k, "addressed", "ambient">>, <<2, 1, 0>>, 1) : k \in Kind} \cup
    {Says(<<"addressed", "addressed", "ambient">>, <<1, 1, 1>>, 0)}

(* A turn and what may take it down. *)
Resets == {Says(<<"addressed", k, "ambient">>, <<1, 1, 0>>, 0) : k \in {"reset", "ambient_reset"}}

ChildSymmetry == Permutations(Child2)
=============================================================================
