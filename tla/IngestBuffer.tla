---------------------------- MODULE IngestBuffer ----------------------------
(***************************************************************************)
(* The activation state machine of packages/core/src/ingest-buffer.ts for  *)
(* one conversation.  It is synchronous and deterministic, so a method is  *)
(* an operator on the state of the conversation.                           *)
(*                                                                         *)
(* Time is discrete: window is the time left until windowDeadline (zero    *)
(* when there is no window or it has expired, which the code treats        *)
(* alike), silence the time since lastArrivalAt, counted up to Quiet.      *)
(***************************************************************************)
EXTENDS Naturals, Sequences

CONSTANTS
    Window,  \* engagementWindowMs, in ticks
    Quiet    \* quietPeriodMs, in ticks; 0 disables holding

ASSUME BufferAssumption == Window \in Nat \ {0} /\ Quiet \in Nat

(* A conversation nobody wrote to: lastArrivalAt is 0, long ago. *)
EmptyBuffer == [backlog |-> <<>>, window |-> 0, silence |-> Quiet]

IsActive(buf) == buf.window > 0

(* What ingest decides for an arrival. *)
Activates(buf, addressed) ==
    addressed \/ (IsActive(buf) /\ ~(Quiet > 0 /\ buf.silence < Quiet))

(* ingest: an activation flushes the backlog and opens or resets the window,
   anything else is held, in an open window that stays as it is, or without. *)
Ingest(buf, m, addressed) ==
    IF Activates(buf, addressed)
    THEN [backlog |-> <<>>, window |-> Window, silence |-> 0]
    ELSE [buf EXCEPT !.backlog = Append(@, m), !.silence = 0]

ActivationMode(addressed, streaming) ==
    IF ~streaming THEN "prompt" ELSE IF addressed THEN "steer" ELSE "followUp"

(* Whether sweepSettled releases the backlog of this conversation. *)
Due(buf) ==
    Quiet > 0 /\ buf.backlog # <<>> /\ buf.silence >= Quiet /\ IsActive(buf)

Sweep(buf) == [buf EXCEPT !.backlog = <<>>, !.window = Window]

Dismiss(buf) == [buf EXCEPT !.window = 0]

RecordInteraction(buf) == [buf EXCEPT !.window = IF @ > 0 THEN Window ELSE 0]

Elapse(buf) ==
    [buf EXCEPT !.window = IF @ > 0 THEN @ - 1 ELSE 0,
                !.silence = IF @ < Quiet THEN @ + 1 ELSE Quiet]
=============================================================================
