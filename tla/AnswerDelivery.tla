--------------------------- MODULE AnswerDelivery ---------------------------
(***************************************************************************)
(* What the core promises the adapter about the answer to a correlation:   *)
(* one answer is decided, it may be posted any number of times, it counts  *)
(* as sent only after the adapter has accepted it, and a confirmed answer  *)
(* stays confirmed.  OutboundEmitter implements this over two databases,   *)
(* with retries, crashes and several emitters.                             *)
(***************************************************************************)
CONSTANTS
    Answer,     \* the terminal events that may answer the correlation
    NoResponse  \* nothing decided yet

VARIABLES
    answer,     \* the decided answer
    verdict,    \* "pending", "saved", "sent" or "failed"
    accepted    \* the adapter has accepted the answer

avars == <<answer, verdict, accepted>>

Init == answer = NoResponse /\ verdict = "pending" /\ accepted = FALSE

Decide ==
    /\ verdict = "pending"
    /\ verdict' = "saved" /\ answer' \in Answer
    /\ UNCHANGED accepted

Accept ==
    /\ answer # NoResponse
    /\ accepted' = TRUE
    /\ UNCHANGED <<answer, verdict>>

Confirm ==
    /\ accepted /\ verdict \in {"saved", "failed"}
    /\ verdict' = "sent"
    /\ UNCHANGED <<answer, accepted>>

GiveUp ==
    /\ verdict = "saved"
    /\ verdict' = "failed"
    /\ UNCHANGED <<answer, accepted>>

Next == Decide \/ Accept \/ Confirm \/ GiveUp

Spec == Init /\ [][Next]_avars
=============================================================================
