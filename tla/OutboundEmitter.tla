--------------------------- MODULE OutboundEmitter ---------------------------
(***************************************************************************)
(* The outbound side of one correlation: packages/core/src/                *)
(* outbound-emitter.ts with its durable outbox, the durable hooks that     *)
(* supervisor.ts installs over the idempotency store, the redelivery of a  *)
(* saved response for a duplicate message, the recovery after a restart,   *)
(* and the adapter that accepts events.                                    *)
(*                                                                         *)
(* The two stores are separate databases, so a crash can fall between two  *)
(* writes of one synchronous step: the actions Crash... stop the step      *)
(* there.  An emitter posts its jobs one after the other; a POST and the   *)
(* handling of its answer are two steps.  An event is identified by its    *)
(* sequence number and type (eventId is a fresh UUID per event).  The      *)
(* text, the attachments and the usage an event carries are left out, and  *)
(* turn.progress, which is delivered like turn.delta.                      *)
(***************************************************************************)
EXTENDS IdempotencyStore, Order, Sequences

CONSTANTS
    Opener,      \* the message that created the correlation
    TotalPosts,  \* 1 + Len(retryDelaysMs)
    None,        \* no active correlation
    MaxDeltas,   \* bound: text chunks streamed
    MaxDups,     \* bound: duplicate deliveries of a message by the adapter
    MaxCrashes   \* bound: crashes of the core

ASSUME OutboxAssumption ==
    /\ Opener \in Message
    /\ TotalPosts \in Nat \ {0}
    /\ {MaxDeltas, MaxDups, MaxCrashes} \subseteq Nat

(* The emitter of the turn, and the one of a redelivery or of the recovery. *)
Emitter == {"turn", "again"}

AnswerType == {"turn.reply", "turn.error"}

TerminalType == AnswerType \cup {"turn.cancelled"}

DurableType == TerminalType \cup {"turn.started"}

Event == [no : Nat, type : DurableType \cup {"turn.delta"}]

ASSUME MarkerAssumption ==
    /\ None \notin Emitter /\ NoResponse \notin Event
    /\ NoRow \notin RowType({"own"}, Event)

VARIABLES
    rows,      \* the idempotency store, the messages of this correlation
    outbox,    \* outbound_outbox, its rows in sequence order
    em,        \* the emitters that are not closed
    active,    \* the emitter of this.active, if it is of this correlation
    up,        \* the core runs
    received,  \* the events the adapter has accepted
    posted,    \* history: POSTs of the terminal event
    allowed,   \* history: POSTs of it that the retry schedules allow so far
    left       \* bounds: what is left of deltas, duplicates and crashes

vars == <<rows, outbox, em, active, up, received, posted, allowed, left>>

Job == [event : Event, attempt : 0..TotalPosts, fresh : BOOLEAN]

OutboxRow == [event : Event, attempts : 0..TotalPosts,
              status : {"pending", "delivered", "permanent_failure"}]

EmitterState == [open : BOOLEAN, seq : Nat, started : BOOLEAN, terminal : BOOLEAN,
                 queue : Seq(Job), flight : {"none", "acked", "unacked"}]

Closed == [open |-> FALSE, seq |-> 0, started |-> FALSE, terminal |-> FALSE,
           queue |-> <<>>, flight |-> "none"]

TypeOK ==
    /\ rows \in [Message -> RowType({"own"}, Event) \cup {NoRow}]
    /\ outbox \in Seq(OutboxRow)
    /\ em \in [Emitter -> EmitterState]
    /\ active \in Emitter \cup {None}
    /\ up \in BOOLEAN
    /\ received \subseteq Event
    /\ posted \in Nat /\ allowed \in Nat
    /\ left \in [deltas : Nat, dups : Nat, crashes : Nat]

Init ==
    /\ rows = EmptyStore
    /\ outbox = <<>>
    /\ em = [e \in Emitter |-> Closed]
    /\ active = None
    /\ up = TRUE
    /\ received = {}
    /\ posted = 0 /\ allowed = TotalPosts
    /\ left = [deltas |-> MaxDeltas, dups |-> MaxDups, crashes |-> MaxCrashes]

-----------------------------------------------------------------------------
(* Parts of actions *)

(* The emitter continues after the highest persisted sequence number, and does
   not answer again what has a terminal row. *)
Construct(ob) ==
    LET done == \E i \in DOMAIN ob : ob[i].event.type \in TerminalType
    IN [Closed EXCEPT !.open = TRUE,
                      !.seq = IF ob = <<>> THEN 0 ELSE ob[Len(ob)].event.no,
                      !.started = done, !.terminal = done]

PendingRow(ev) == [event |-> ev, attempts |-> 0, status |-> "pending"]

NewJob(ev, n) == [event |-> ev, attempt |-> n, fresh |-> TRUE]

(* onDurablePrepared *)
Prepared(ev) ==
    IF ev.type \in AnswerType THEN SaveForCorrelation(rows, Opener, ev) ELSE rows

(* The events of an emission: a terminal one makes up for a missing turn.started,
   except the cancellation and the direct reply. *)
Emission(s, type, starts) ==
    IF starts /\ ~s.started
    THEN <<[no |-> s.seq + 1, type |-> "turn.started"], [no |-> s.seq + 2, type |-> type]>>
    ELSE <<[no |-> s.seq + 1, type |-> type]>>

(* deliverDurable of each: prepared, inserted, enqueued. *)
Emitted(s, evs) ==
    [s EXCEPT !.seq = @ + Len(evs),
              !.started = @ \/ evs[1].type = "turn.started",
              !.terminal = evs[Len(evs)].type \in TerminalType,
              !.queue = @ \o [i \in DOMAIN evs |-> NewJob(evs[i], 0)]]

Emit(e, s, evs) ==
    /\ em' = [em EXCEPT ![e] = Emitted(s, evs)]
    /\ outbox' = outbox \o [i \in DOMAIN evs |-> PendingRow(evs[i])]
    /\ rows' = Prepared(evs[Len(evs)])

(* The place of an event in the outbox. *)
At(ev) == {i \in DOMAIN outbox : outbox[i].event = ev}

Mark(ev, status, n) ==
    [i \in DOMAIN outbox |->
        IF outbox[i].event = ev
        THEN [outbox[i] EXCEPT !.status = status, !.attempts = n]
        ELSE outbox[i]]

(* recordAttempt leaves the status as it is. *)
RecordAttempt(ev, n) ==
    [i \in DOMAIN outbox |->
        IF outbox[i].event = ev THEN [outbox[i] EXCEPT !.attempts = n] ELSE outbox[i]]

(* onDurableDelivered and onDurableFailed *)
Delivered(ev) == IF ev.type \in AnswerType THEN CorrelationSent(rows, Opener) ELSE rows

Failed(ev) == IF ev.type \in AnswerType THEN CorrelationFailed(rows, Opener) ELSE rows

(* Mutant: a resumed row starts its schedule over. *)
ResumePending_FromZero ==
    LET order == Ascending({i \in DOMAIN outbox : outbox[i].status = "pending"})
    IN [k \in DOMAIN order |-> NewJob(outbox[order[k]].event, 0)]

(* resumePending: the pending rows in order, from their persisted attempts. *)
ResumePending ==
    LET order == Ascending({i \in DOMAIN outbox : outbox[i].status = "pending"})
    IN [k \in DOMAIN order |-> NewJob(outbox[order[k]].event, outbox[order[k]].attempts)]

(* Mutant: the response is sent again as a new event. *)
RedeliverDurable_NewEvent(ev) ==
    LET again == [ev EXCEPT !.no = Construct(outbox).seq + 1]
    IN /\ outbox' = Append(outbox, PendingRow(again))
       /\ em' = [em EXCEPT !["again"] =
                    [Construct(outbox) EXCEPT !.queue = <<NewJob(again, 0)>>]]
       /\ rows' = rows

(* retryPermanentFailure: the retained event, from the start of the schedule. *)
RetryPermanentFailure(ev) ==
    /\ outbox' = Mark(ev, "pending", 0)
    /\ em' = [em EXCEPT !["again"] = [Construct(outbox) EXCEPT !.queue = <<NewJob(ev, 0)>>]]
    /\ UNCHANGED rows

(* redeliverDurable of the retained response by a new emitter: inserted if the
   crash came before the insert, resumed if pending, reset and retried from the
   start if it had failed for good, and only confirmed if it was delivered.  The
   prepared hook finds the response saved. *)
RedeliverDurable(ev) ==
    LET s == Construct(outbox)
        row == CHOOSE i \in At(ev) : TRUE
        With(q) == em' = [em EXCEPT !["again"] = [s EXCEPT !.queue = q]]
    IN IF At(ev) = {}
       THEN /\ outbox' = Append(outbox, PendingRow(ev))
            /\ With(<<NewJob(ev, 0)>>)
            /\ UNCHANGED rows
       ELSE CASE outbox[row].status = "pending" ->
                    With(ResumePending) /\ UNCHANGED <<rows, outbox>>
              [] outbox[row].status = "permanent_failure" -> RetryPermanentFailure(ev)
              [] OTHER ->
                    With(<<>>) /\ rows' = Delivered(ev) /\ UNCHANGED outbox

-----------------------------------------------------------------------------
(* The turn *)

Recovering == active = None /\ em["again"].open

(* The first message: its row, and the emitter of its turn. *)
Activate ==
    /\ up /\ rows = EmptyStore
    /\ rows' = Insert(rows, Opener, "own", Opener)
    /\ em' = [em EXCEPT !["turn"] = Construct(outbox)]
    /\ active' = "turn"
    /\ UNCHANGED <<outbox, up, received, posted, allowed, left>>

InTurn == up /\ active = "turn" /\ ~em["turn"].terminal

(* A later message joins the correlation in flight. *)
Join(m) ==
    /\ InTurn /\ rows[m] = NoRow
    /\ rows' = Insert(rows, m, "own", Opener)
    /\ UNCHANGED <<outbox, em, active, up, received, posted, allowed, left>>

(* The child acknowledged the message. *)
Acknowledge(m) ==
    /\ InTurn /\ IngestPending(rows, m)
    /\ rows' = MarkIngestComplete(rows, m)
    /\ UNCHANGED <<outbox, em, active, up, received, posted, allowed, left>>

HandleTurnStart ==
    /\ InTurn /\ ~em["turn"].started
    /\ Emit("turn", em["turn"], Emission(em["turn"], "turn.started", FALSE))
    /\ UNCHANGED <<active, up, received, posted, allowed, left>>

(* A sequence number is taken, and the chunk is posted once, unpersisted. *)
EmitDelta(s) ==
    LET ev == [no |-> s.seq + 1, type |-> "turn.delta"]
    IN [s EXCEPT !.seq = @ + 1, !.queue = Append(@, NewJob(ev, 0))]

HandleMessageUpdate ==
    /\ InTurn /\ left.deltas > 0
    /\ left' = [left EXCEPT !.deltas = @ - 1]
    /\ em' = [em EXCEPT !["turn"] = EmitDelta(@)]
    /\ UNCHANGED <<rows, outbox, active, up, received, posted, allowed>>

(* The terminal event of the turn, and then cleanupCorrelation. *)
End(type, starts) ==
    /\ InTurn
    /\ Emit("turn", em["turn"], Emission(em["turn"], type, starts))
    /\ active' = None
    /\ UNCHANGED <<up, received, posted, allowed, left>>

(* agent_end: the reply of the model, or the error it ended with. *)
HandleAgentEnd(type) == End(type, TRUE)

(* The child failed. *)
EmitProviderError == End("turn.error", TRUE)

(* A reply of the core itself, without a turn of the model. *)
EmitDirectReply == End("turn.reply", FALSE)

(* The turn is superseded; the calls of the messages it had have returned. *)
EmitCancelled ==
    /\ InTurn /\ \A m \in Message : ~IngestPending(rows, m)
    /\ Emit("turn", em["turn"], Emission(em["turn"], "turn.cancelled", FALSE))
    /\ active' = None
    /\ UNCHANGED <<up, received, posted, allowed, left>>

-----------------------------------------------------------------------------
(* Duplicates *)

Duplicate ==
    /\ up /\ active = None /\ ~Recovering /\ left.dups > 0
    /\ left' = [left EXCEPT !.dups = @ - 1]

(* terminalizeAcceptedInbound for a message that a crash interrupted. *)
Interrupted(m) ==
    /\ Duplicate
    /\ rows[m] # NoRow /\ BeginKind(rows, m, "own") = "pending" /\ IngestPending(rows, m)
    /\ LET s == Construct(outbox)
       IN Emit("turn", s, Emission(s, "turn.error", TRUE))
    /\ UNCHANGED <<active, up, received, posted, allowed>>

(* redeliverSaved, while the emitter of the turn may still be posting. *)
RedeliverSaved(m) ==
    /\ Duplicate
    /\ rows[m] # NoRow
    /\ BeginKind(rows, m, "own") \in {"response-saved", "delivery-failed"}
    /\ RedeliverDurable(rows[m].response)
    /\ active' = "again"
    /\ allowed' = allowed + TotalPosts
    /\ UNCHANGED <<up, received, posted>>

-----------------------------------------------------------------------------
(* Delivery *)

HeadJob(e) == Head(em[e].queue)

CanPost(e) == up /\ em[e].queue # <<>> /\ em[e].flight = "none"

(* postOnce: the adapter accepts the event or not, and its answer arrives in time
   or not. *)
Post(e, accepts, answers) ==
    /\ CanPost(e) /\ HeadJob(e).attempt < TotalPosts
    /\ answers => accepts
    /\ received' = IF accepts THEN received \cup {HeadJob(e).event} ELSE received
    /\ posted' = IF HeadJob(e).event.type \in TerminalType THEN posted + 1 ELSE posted
    /\ em' = [em EXCEPT ![e].flight = IF answers THEN "acked" ELSE "unacked",
                        ![e].queue[1].fresh = FALSE]
    /\ UNCHANGED <<rows, outbox, active, up, allowed, left>>

Pop(e) == em' = [em EXCEPT ![e].queue = Tail(@), ![e].flight = "none"]

Durable(e) == HeadJob(e).event.type \in DurableType

(* Mutant: any answer of the adapter counts. *)
Acked_AnyAnswer(e) ==
    /\ up /\ em[e].flight # "none" /\ Durable(e)
    /\ outbox' = Mark(HeadJob(e).event, "delivered", HeadJob(e).attempt + 1)
    /\ rows' = Delivered(HeadJob(e).event)
    /\ Pop(e)
    /\ UNCHANGED <<active, up, received, posted, allowed, left>>

(* A 2xx answer: markDelivered, and the hook. *)
Acked(e) ==
    /\ up /\ em[e].flight = "acked" /\ Durable(e)
    /\ outbox' = Mark(HeadJob(e).event, "delivered", HeadJob(e).attempt + 1)
    /\ rows' = Delivered(HeadJob(e).event)
    /\ Pop(e)
    /\ UNCHANGED <<active, up, received, posted, allowed, left>>

LastAttempt(e) == HeadJob(e).attempt + 1 >= TotalPosts

(* Another answer, or none: the attempt is recorded and the schedule goes on. *)
Unacked(e) ==
    /\ up /\ em[e].flight = "unacked" /\ Durable(e) /\ ~LastAttempt(e)
    /\ outbox' = RecordAttempt(HeadJob(e).event, HeadJob(e).attempt + 1)
    /\ em' = [em EXCEPT ![e].flight = "none", ![e].queue[1].attempt = @ + 1]
    /\ UNCHANGED <<rows, active, up, received, posted, allowed, left>>

(* The schedule is exhausted, by this answer or when the row was resumed, or the
   adapter is not registered (any more) when its turn comes. *)
Exhausted(e) ==
    /\ up /\ em[e].queue # <<>> /\ Durable(e)
    /\ LET n == HeadJob(e).attempt
       IN \/ /\ em[e].flight = "unacked" /\ LastAttempt(e)
             /\ outbox' = Mark(HeadJob(e).event, "permanent_failure", n + 1)
          \/ /\ em[e].flight = "none" /\ (n >= TotalPosts \/ HeadJob(e).fresh)
             /\ outbox' = [i \in DOMAIN outbox |->
                    IF outbox[i].event = HeadJob(e).event
                    THEN [outbox[i] EXCEPT !.status = "permanent_failure"]
                    ELSE outbox[i]]
    /\ rows' = Failed(HeadJob(e).event)
    /\ Pop(e)
    /\ UNCHANGED <<active, up, received, posted, allowed, left>>

(* postBestEffort: whatever became of it. *)
BestEffort(e) ==
    /\ up /\ em[e].queue # <<>> /\ ~Durable(e)
    /\ em[e].flight # "none" \/ HeadJob(e).fresh
    /\ Pop(e)
    /\ UNCHANGED <<rows, outbox, active, up, received, posted, allowed, left>>

(* flush and close, of a turn that has ended or of a redelivery. *)
Close(e) ==
    /\ up /\ em[e].open /\ em[e].queue = <<>>
    /\ e = "turn" => em[e].terminal
    /\ em' = [em EXCEPT ![e] = Closed]
    /\ active' = IF active = e THEN None ELSE active
    /\ UNCHANGED <<rows, outbox, up, received, posted, allowed, left>>

-----------------------------------------------------------------------------
(* Crash and recovery *)

Dies ==
    /\ up /\ left.crashes > 0
    /\ left' = [left EXCEPT !.crashes = @ - 1]
    /\ up' = FALSE
    /\ active' = None
    /\ em' = [e \in Emitter |-> Closed]
    /\ allowed' = allowed + Cardinality({e \in Emitter : em[e].flight # "none"})
    /\ UNCHANGED <<received, posted>>

Crash == Dies /\ UNCHANGED <<rows, outbox>>

(* Between the save of an answer and the insert of its row. *)
CrashAfterSave(type) ==
    /\ InTurn
    /\ LET evs == Emission(em["turn"], type, TRUE)
       IN /\ rows' = Prepared(evs[Len(evs)])
          /\ outbox' = outbox \o [i \in 1..(Len(evs) - 1) |-> PendingRow(evs[i])]
    /\ Dies

(* Between markDelivered and its hook. *)
CrashAfterDelivered(e) ==
    /\ up /\ em[e].flight = "acked" /\ Durable(e)
    /\ outbox' = Mark(HeadJob(e).event, "delivered", HeadJob(e).attempt + 1)
    /\ Dies /\ UNCHANGED rows

(* After the last attempt was recorded, or after the row was marked as failed. *)
CrashAfterLastAttempt(e) ==
    /\ up /\ em[e].flight = "unacked" /\ Durable(e) /\ LastAttempt(e)
    /\ \/ outbox' = RecordAttempt(HeadJob(e).event, HeadJob(e).attempt + 1)
       \/ outbox' = Mark(HeadJob(e).event, "permanent_failure", HeadJob(e).attempt + 1)
    /\ Dies /\ UNCHANGED rows

(* Mutant: only the outbox is searched for work. *)
RecoverPending_OutboxOnly ==
    IF \E i \in DOMAIN outbox : outbox[i].status = "pending"
    THEN /\ em' = [em EXCEPT !["again"] = [Construct(outbox) EXCEPT !.queue = ResumePending]]
         /\ UNCHANGED <<rows, outbox>>
    ELSE UNCHANGED <<rows, outbox, em>>

(* recoverPending: a correlation with a pending row or a saved response. *)
RecoverPending ==
    IF SavedCorrelations(rows) # {}
    THEN RedeliverDurable(rows[Opener].response)
    ELSE IF \E i \in DOMAIN outbox : outbox[i].status = "pending"
    THEN /\ em' = [em EXCEPT !["again"] = [Construct(outbox) EXCEPT !.queue = ResumePending]]
         /\ UNCHANGED <<rows, outbox>>
    ELSE UNCHANGED <<rows, outbox, em>>

Boot ==
    /\ ~up
    /\ up' = TRUE
    /\ RecoverPending
    /\ allowed' = IF outbox' # outbox THEN allowed + TotalPosts ELSE allowed
    /\ UNCHANGED <<active, received, posted, left>>

-----------------------------------------------------------------------------
Deliver(e) ==
    \/ \E accepts, answers \in BOOLEAN : Post(e, accepts, answers)
    \/ Acked(e) \/ Unacked(e) \/ Exhausted(e) \/ BestEffort(e) \/ Close(e)

Next ==
    \/ Activate
    \/ \E m \in Message : Join(m) \/ Acknowledge(m) \/ Interrupted(m) \/ RedeliverSaved(m)
    \/ HandleTurnStart \/ HandleMessageUpdate \/ EmitCancelled
    \/ (\E type \in AnswerType : HandleAgentEnd(type)) \/ EmitProviderError \/ EmitDirectReply
    \/ \E e \in Emitter : Deliver(e)
    \/ Crash \/ Boot
    \/ \E type \in AnswerType : CrashAfterSave(type)
    \/ \E e \in Emitter : CrashAfterDelivered(e) \/ CrashAfterLastAttempt(e)

Spec == Init /\ [][Next]_vars

(* Posts end or time out and every emitter goes on with its queue; the process is
   started again when it has died. *)
FairSpec ==
    Spec /\ WF_vars(Boot) /\ \A e \in Emitter : WF_vars(Deliver(e))

-----------------------------------------------------------------------------
(* Properties *)

(* One answer per correlation, whatever crashes, duplicates and second emitters do:
   every reply or error that is queued, recorded or accepted by the adapter is the
   one the store retains for all its messages, so that no hook of a delivery
   throws; and no other terminal event exists beside it. *)
OneAnswer ==
    LET seen == received \cup {outbox[i].event : i \in DOMAIN outbox}
                \cup UNION {{em[e].queue[i].event : i \in DOMAIN em[e].queue} :
                            e \in Emitter}
        terminals == {ev \in seen : ev.type \in TerminalType}
    IN /\ Cardinality(terminals) <= 1
       /\ \A ev \in terminals :
            \/ ev.type = "turn.cancelled"
            \/ \A m \in Siblings(rows, Opener) : rows[m].response = ev

(* The retry schedule bounds the traffic: no row counts more attempts than the
   schedule has, a redelivery may run it once more, and so does a recovery that finds
   the answer failed or not even recorded; otherwise a restart continues it, and
   repeats only the POSTs the crash cut off. *)
PostsBounded == TypeOK /\ posted <= allowed

(* The outbox and the store implement AnswerDelivery. *)
Refined ==
    INSTANCE AnswerDelivery WITH
        Answer   <- [no : 1..(MaxDeltas + 3), type : AnswerType],
        answer   <- IF rows[Opener] = NoRow THEN NoResponse ELSE rows[Opener].response,
        verdict  <- IF rows[Opener] = NoRow THEN "pending" ELSE rows[Opener].delivery,
        accepted <- rows[Opener] # NoRow /\ rows[Opener].response \in received

Implements == Refined!Spec

(* No terminal event is stranded: a saved answer, and a terminal row of the outbox, is
   delivered or recorded as failed, across crashes and without another message to set
   it off. *)
Stranded ==
    \/ SavedCorrelations(rows) # {}
    \/ \E i \in DOMAIN outbox :
          outbox[i].event.type \in TerminalType /\ outbox[i].status = "pending"

Settles == Stranded ~> ~Stranded
=============================================================================
