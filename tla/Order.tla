-------------------------------- MODULE Order --------------------------------
(***************************************************************************)
(* Sorting by a numeric key: `sort' over sequence numbers in server.ts of  *)
(* the HTTP adapter, ORDER BY sequence in the outbox's queries, and the    *)
(* file names of loadSchedules, which number the jobs.                     *)
(***************************************************************************)
EXTENDS Integers, FiniteSets

(* The numbers of a finite set in their order. *)
Ascending(S) ==
    CHOOSE f \in [1 .. Cardinality(S) -> S] :
        \A i, j \in 1 .. Cardinality(S) : i < j => f[i] < f[j]
=============================================================================
