----------------------------- MODULE Supervisor -----------------------------
(***************************************************************************)
(* CoreSupervisor (packages/core/src/supervisor.ts) for one conversation   *)
(* of one adapter: the inbound pipeline over the idempotency store and the *)
(* ingest buffer, the turn in flight, interruption, session reset, the     *)
(* events of the children, redelivery, crash, recovery and shutdown.       *)
(* Conversations share nothing but the pool, which PoolManager models; its *)
(* side of this module is what a single conversation can see of it.        *)
(*                                                                         *)
(* An action runs from one await to the next.  The inbound messages of the *)
(* conversation run one after the other (inboundChains): `chain' holds the *)
(* calls that have not returned and `call' the step of its head.  A        *)
(* correlation is named after the message that created it.                 *)
(*                                                                         *)
(* The emitters are abstracted to the terminal event of each correlation   *)
(* and whether it is being posted; OutboundEmitter has the detail.         *)
(***************************************************************************)
EXTENDS IdempotencyStore, IngestBuffer, FiniteSets

CONSTANTS
    Child,      \* identities of omp processes
    None,       \* no child, no active correlation
    Scenarios   \* bounds: what is said, how often it is delivered, restarts

(* A session reset ("/new") is taken as one however it is addressed. *)
Kind == {"addressed", "ambient", "reset", "ambient_reset"}

TerminalType == {"turn.reply", "turn.error", "turn.cancelled"}

Event == [corr : Message, no : Nat, type : TerminalType]

Status == {"pending", "delivered", "permanent_failure"}

VARIABLES
    kind,        \* what each message says: constant after Init
    rows,        \* the idempotency store
    outbox,      \* per correlation, its terminal rows of the outbox
    buffer,      \* the ingest buffer's state of the conversation
    active,      \* this.active for the conversation
    chain, call, \* inboundChains: the messages in process, the head's step
    kids,        \* the children of the conversation, pooled or not
    sending,     \* correlations whose emitter is posting the terminal event
    recovering,  \* correlations recoverPending has not finished
    phase,       \* "up", "closing" (closeImpl), "down"
    posts,       \* bound: deliveries left of each message
    crashes,     \* bound: crashes left
    died,        \* history: whether an earlier process died
    written      \* history: how often each message reached a session

durable == <<rows, outbox>>

bounds == <<kind, posts, crashes, died>>

vars == <<kind, rows, outbox, buffer, active, chain, call, kids, sending,
          recovering, phase, posts, crashes, died, written>>

CallStep == {"none", "begin", "admit", "aborting", "acquiring", "prompting",
             "prompted", "resetting", "retiring", "redelivering", "append_acquiring",
             "appending", "appended"}

Mode == {"prompt", "steer", "followUp"}

Idle == [at |-> "none", mode |-> "prompt", child |-> None]

NoChild == [at |-> "none", leased |-> FALSE, shut |-> FALSE, runs |-> 0]

OutboxRow == [event : Event, status : Status]

(* ActiveCorrelation *)
Turn == [corr : Message, lease : Child \cup {None}, followUps : Nat, terminal : BOOLEAN]

Call == [at : CallStep, mode : Mode, child : Child \cup {None}]

Kid == [at : {"none", "pooled", "gone"}, leased : BOOLEAN, shut : BOOLEAN, runs : Nat]

ASSUME SupervisorAssumption ==
    /\ None \notin Child /\ None \notin Turn
    /\ NoResponse \notin Event /\ NoRow \notin RowType({"own"}, Event)
    /\ Scenarios \subseteq [kind : [Message -> Kind], posts : [Message -> Nat], crashes : Nat]

TypeOK ==
    /\ kind \in [Message -> Kind]
    /\ rows \in [Message -> RowType({"own"}, Event) \cup {NoRow}]
    /\ outbox \in [Message -> Seq(OutboxRow)]
    /\ buffer \in [backlog : Seq(Message), window : 0..Window, silence : 0..Quiet]
    /\ active \in Turn \cup {None}
    /\ chain \in Seq(Message)
    /\ call \in Call
    /\ kids \in [Child -> Kid]
    /\ sending \subseteq Message /\ recovering \subseteq Message
    /\ phase \in {"up", "closing", "down"}
    /\ posts \in [Message -> Nat] /\ crashes \in Nat /\ died \in BOOLEAN
    /\ written \in [Message -> Nat]

Init ==
    /\ \E s \in Scenarios : kind = s.kind /\ posts = s.posts /\ crashes = s.crashes
    /\ died = FALSE
    /\ rows = EmptyStore
    /\ outbox = [c \in Message |-> <<>>]
    /\ buffer = EmptyBuffer
    /\ active = None
    /\ chain = <<>> /\ call = Idle
    /\ kids = [k \in Child |-> NoChild]
    /\ sending = {} /\ recovering = {}
    /\ phase = "up"
    /\ written = [m \in Message |-> 0]

Addressed(m) == kind[m] \in {"addressed", "reset"}

(* SESSION_RESET_COMMANDS: decided by the text alone. *)
IsReset(m) == kind[m] \in {"reset", "ambient_reset"}

(* The continuation after an await runs before the next event. *)
Quiescent == call.at # "admit"

Running == phase # "down"

-----------------------------------------------------------------------------
(* Parts of actions *)

(* A terminal event of correlation c.  The emitter takes it unless it has
   emitted one or found one in the outbox when it was constructed; its
   prepared hook saves replies and errors across the correlation, the insert
   follows, and the post is queued.  rs are the rows by then. *)
EmitOver(rs, c, type) ==
    LET e == [corr |-> c, no |-> Len(outbox[c]) + 1, type |-> type]
    IN IF outbox[c] # <<>>
       THEN rows' = rs /\ UNCHANGED <<outbox, sending>>
       ELSE /\ outbox' = [outbox EXCEPT ![c] =
                             Append(@, [event |-> e, status |-> "pending"])]
            /\ rows' = IF type = "turn.cancelled" THEN rs
                       ELSE SaveForCorrelation(rs, c, e)
            /\ sending' = sending \cup {c}

EmitTerminal(c, type) == EmitOver(rows, c, type)

(* The pool's entry of a lease becomes idle; nothing if it has left the pool. *)
Unlease(ks, k) ==
    IF k # None /\ ks[k].at = "pooled" THEN [ks EXCEPT ![k].leased = FALSE] ELSE ks

(* retireChild, and the evictions: the entry leaves the Map, its process is
   closed and exits later. *)
Retire(ks, k) ==
    IF ks[k].at = "pooled"
    THEN [ks EXCEPT ![k].at = "gone", ![k].leased = FALSE, ![k].shut = TRUE]
    ELSE ks

(* retireConversation: the entry the pool has for the conversation, if any. *)
RetireConversation(ks) ==
    IF \E k \in Child : ks[k].at = "pooled"
    THEN Retire(ks, CHOOSE k \in Child : ks[k].at = "pooled")
    ELSE ks

(* The head call returns and the next one of the chain starts. *)
Return ==
    /\ chain' = Tail(chain)
    /\ call' = IF Tail(chain) = <<>> THEN Idle ELSE [Idle EXCEPT !.at = "begin"]

Goto(step) == call' = [call EXCEPT !.at = step]

(* Mutant: the failure of an accepted message is only logged. *)
Terminalize_LogsOnly(m, ks) == UNCHANGED <<rows, outbox, sending, active>> /\ kids' = ks

(* terminalizeAcceptedInbound, with the children as they are by then. *)
Terminalize(m, ks) ==
    IF rows[m].response # NoResponse \/ (active # None /\ active.terminal)
    THEN UNCHANGED <<rows, outbox, sending, active>> /\ kids' = ks
    ELSE /\ EmitTerminal(IF active = None THEN rows[m].corr ELSE active.corr,
                         "turn.error")
         /\ active' = None
         /\ kids' = Unlease(ks, IF active = None THEN None ELSE active.lease)

(* failCorrelation *)
FailCorrelation(ks) ==
    IF active = None \/ active.terminal
    THEN UNCHANGED <<rows, outbox, sending, active>> /\ kids' = ks
    ELSE /\ EmitTerminal(active.corr, "turn.error")
         /\ active' = None
         /\ kids' = Unlease(ks, active.lease)

-----------------------------------------------------------------------------
(* processInbound *)

(* An adapter delivers a message, for the first time or again. *)
ProcessInbound(m) ==
    /\ phase = "up" /\ Quiescent
    /\ posts[m] > 0
    /\ posts' = [posts EXCEPT ![m] = @ - 1]
    /\ chain' = Append(chain, m)
    /\ call' = IF chain = <<>> THEN [Idle EXCEPT !.at = "begin"] ELSE call
    /\ UNCHANGED <<kind, crashes, died, durable, buffer, active, kids, sending, recovering,
                   phase, written>>

(* Mutant: the correlation in flight is read without interrupting it. *)
BeginSerial_NoInterrupt ==
    /\ Running /\ call.at = "begin" /\ recovering = {}
    /\ Goto("admit")
    /\ UNCHANGED <<bounds, durable, buffer, active, chain, kids, sending, recovering,
                   phase, written>>

(* processInboundSerial, up to the interruption: wait for the recovery of the
   conversation; an addressed message claims the terminal of the turn in
   flight and aborts its child. *)
BeginSerial ==
    /\ Running /\ call.at = "begin" /\ recovering = {}
    /\ IF active # None /\ Addressed(Head(chain)) /\ ~active.terminal
       THEN /\ EmitTerminal(active.corr, "turn.cancelled")
            /\ active' = [active EXCEPT !.terminal = TRUE]
            /\ Goto("aborting")
       ELSE /\ Goto("admit")
            /\ UNCHANGED <<rows, outbox, sending, active>>
    /\ UNCHANGED <<bounds, buffer, chain, kids, recovering, phase, written>>

(* The turn in flight is being aborted, for an addressed message that has not
   been admitted yet or for a session reset that has. *)
Aborting == call.at \in {"aborting", "resetting"}

(* interruptTurn has returned: the message is admitted, or the session reset goes
   on with retireConversation. *)
Interrupted(ks) ==
    IF call.at = "aborting" THEN kids' = ks /\ Goto("admit")
                            ELSE kids' = RetireConversation(ks) /\ Goto("retiring")

(* Mutant: the lease of the interrupted turn is not released. *)
AbortAcknowledged_KeepsLease ==
    /\ Running /\ Aborting
    /\ kids[active.lease].at # "none" /\ kids[active.lease].runs = 0
    /\ Interrupted(kids)
    /\ active' = None
    /\ UNCHANGED <<bounds, durable, buffer, chain, sending, recovering, phase,
                   written>>

(* The child acknowledged the abort; it reports the end of its runs first. *)
AbortAcknowledged ==
    /\ Running /\ Aborting
    /\ kids[active.lease].at # "none" /\ kids[active.lease].runs = 0
    /\ Interrupted(Unlease(kids, active.lease))
    /\ active' = None
    /\ UNCHANGED <<bounds, durable, buffer, chain, sending, recovering, phase,
                   written>>

(* The abort failed: the process is gone, was closed, or did not answer in
   time, which closes it.  The failure is ignored. *)
AbortFailed ==
    /\ Running /\ Aborting
    /\ LET k == active.lease
           ks == IF kids[k].at = "none" THEN kids ELSE [kids EXCEPT ![k].shut = TRUE]
       IN Interrupted(Unlease(ks, k))
    /\ active' = None
    /\ UNCHANGED <<bounds, durable, buffer, chain, sending, recovering, phase,
                   written>>

(* A duplicate whose response is confirmed, or whose turn is in flight. *)
AdmitDuplicate(m) ==
    /\ \/ BeginKind(rows, m, "own") = "already-sent"
       \/ /\ BeginKind(rows, m, "own") = "pending"
          /\ active # None \/ ~IngestPending(rows, m)
    /\ Return
    /\ UNCHANGED <<durable, buffer, active, kids, sending, written>>

(* Mutant: an interrupted message is run again. *)
AdmitInterrupted_RunsAgain(m) ==
    /\ BeginKind(rows, m, "own") = "pending"
    /\ active = None /\ IngestPending(rows, m)
    /\ Goto("acquiring")
    /\ UNCHANGED <<durable, buffer, active, chain, kids, sending, written>>

(* A duplicate of a message that an earlier process had not finished to
   ingest: it is answered with an error. *)
AdmitInterrupted(m) ==
    /\ BeginKind(rows, m, "own") = "pending"
    /\ active = None /\ IngestPending(rows, m)
    /\ Terminalize(m, kids)
    /\ Return
    /\ UNCHANGED <<buffer, written>>

(* redeliverSaved: under a transient correlation, or, while a turn is in
   flight, through that turn's emitter, which refuses the event of another
   correlation. *)
AdmitSaved(m) ==
    /\ BeginKind(rows, m, "own") \in {"response-saved", "delivery-failed"}
    /\ IF active = None
       THEN /\ active' = [corr |-> rows[m].corr, lease |-> None, followUps |-> 0,
                          terminal |-> TRUE]
            /\ Goto("redelivering")
            /\ UNCHANGED chain
       ELSE /\ Return
            /\ UNCHANGED active
    /\ UNCHANGED <<durable, buffer, kids, sending, written>>

(* An unaddressed session reset that the engagement window activates during a
   turn has joined that turn's correlation, like any ambient message, before
   handleSessionReset interrupts the turn. *)
Supersedes(m) == active # None /\ IsReset(m) /\ Activates(buffer, Addressed(m))

AdmitSuperseding(m) ==
    /\ BeginKind(rows, m, "own") = "created" /\ Supersedes(m)
    /\ EmitOver(Insert(rows, m, "own", active.corr), active.corr, "turn.cancelled")
    /\ active' = [active EXCEPT !.terminal = TRUE]
    /\ buffer' = Ingest(buffer, m, Addressed(m))
    /\ Goto("resetting")
    /\ UNCHANGED <<chain, kids, written>>

(* Any other new message joins the correlation of the turn in flight or creates
   one, and the buffer decides what becomes of it. *)
AdmitCreated(m) ==
    /\ BeginKind(rows, m, "own") = "created" /\ ~Supersedes(m)
    /\ rows' = Insert(rows, m, "own", IF active = None THEN m ELSE active.corr)
    /\ LET addressed == Addressed(m)
           mode == ActivationMode(addressed, active # None)
           after == Ingest(buffer, m, addressed)
       IN IF ~Activates(buffer, addressed)
          THEN /\ buffer' = after
               /\ call' = IF active = None
                          THEN [call EXCEPT !.at = "append_acquiring"]
                          ELSE [call EXCEPT !.at = "appending", !.child = active.lease]
               /\ UNCHANGED <<active, kids>>
          ELSE IF IsReset(m)
          THEN /\ buffer' = after
               /\ Goto("retiring")
               /\ kids' = RetireConversation(kids)
               /\ UNCHANGED active
          ELSE IF active = None
          THEN /\ buffer' = after
               /\ Goto("acquiring")
               /\ UNCHANGED <<active, kids>>
          ELSE /\ buffer' = RecordInteraction(after)
               /\ active' = [active EXCEPT !.followUps = @ + 1]
               /\ call' = [at |-> "prompting", mode |-> mode, child |-> active.lease]
               /\ UNCHANGED kids
    /\ UNCHANGED <<outbox, chain, sending, written>>

Admit ==
    /\ call.at = "admit"
    /\ \/ AdmitDuplicate(Head(chain))
       \/ AdmitInterrupted(Head(chain))
       \/ AdmitSaved(Head(chain))
       \/ AdmitSuperseding(Head(chain))
       \/ AdmitCreated(Head(chain))
    /\ UNCHANGED <<bounds, recovering, phase>>

-----------------------------------------------------------------------------
(* Activation: lease, prompt, acknowledgement *)

(* A child the pool can hand out: its idle one or, if it has none, a new one. *)
Available(k) ==
    \/ kids[k].at = "pooled" /\ ~kids[k].leased
    \/ kids[k].at = "none" /\ \A j \in Child : kids[j].at # "pooled"

Lease(ks, k) ==
    [ks EXCEPT ![k] = IF @.at = "none"
                      THEN [at |-> "pooled", leased |-> TRUE, shut |-> FALSE, runs |-> 0]
                      ELSE [@ EXCEPT !.leased = TRUE]]

(* activate: the correlation becomes active with the lease. *)
ActivateAcquired(k) ==
    /\ phase = "up" /\ call.at = "acquiring" /\ Available(k)
    /\ kids' = Lease(kids, k)
    /\ active' = [corr |-> rows[Head(chain)].corr, lease |-> k, followUps |-> 0,
                  terminal |-> FALSE]
    /\ buffer' = RecordInteraction(buffer)
    /\ call' = [at |-> "prompting", mode |-> "prompt", child |-> k]
    /\ UNCHANGED <<bounds, durable, chain, sending, recovering, phase, written>>

(* The pool could not lease a child, for the turn or for a passive append: the
   message is answered with an error. *)
AcquireFailed ==
    /\ Running /\ call.at \in {"acquiring", "append_acquiring"}
    /\ Terminalize(Head(chain), kids)
    /\ Return
    /\ UNCHANGED <<bounds, buffer, recovering, phase, written>>

Alive(k) == k # None /\ kids[k].at # "none" /\ ~kids[k].shut

(* The child takes the prompt, or the ambient command that triggers a turn:
   one more run of the agent. *)
PromptTaken ==
    /\ Running /\ call.at = "prompting" /\ Alive(call.child)
    /\ kids' = [kids EXCEPT ![call.child].runs = @ + 1]
    /\ written' = [written EXCEPT ![Head(chain)] = @ + 1]
    /\ Goto("prompted")
    /\ UNCHANGED <<bounds, durable, buffer, active, chain, sending, recovering,
                   phase>>

(* The acknowledgement of the prompt; a terminal event may have come first. *)
PromptAcknowledged ==
    /\ Running /\ call.at = "prompted" /\ Alive(call.child)
    /\ rows' = IF IngestPending(rows, Head(chain))
               THEN MarkIngestComplete(rows, Head(chain)) ELSE rows
    /\ Return
    /\ UNCHANGED <<bounds, outbox, buffer, active, kids, sending, recovering,
                   phase, written>>

(* The prompt is rejected, its child ends, or the acknowledgement does not come
   in time: the child is retired and the message answered with an error. *)
PromptFailed ==
    /\ Running /\ call.at \in {"prompting", "prompted"}
    /\ LET ks == Retire(kids, call.child)
           m  == Head(chain)
       IN Terminalize(m, ks)
    /\ Return
    /\ UNCHANGED <<bounds, buffer, recovering, phase, written>>

(* handleSessionReset after retireConversation: closing the child ends with its
   exit, or once it was killed, or at once if it had been closed before.  The
   reply of a reset that joined the turn it interrupted is no event any more: its
   correlation has the cancellation, and the message stays as it is. *)
ResetReply ==
    /\ Running /\ call.at = "retiring"
    /\ EmitTerminal(rows[Head(chain)].corr, "turn.reply")
    /\ buffer' = RecordInteraction(buffer)
    /\ Return
    /\ UNCHANGED <<bounds, active, kids, recovering, phase, written>>

-----------------------------------------------------------------------------
(* Passive append of a held message *)

AppendAcquired(k) ==
    /\ phase = "up" /\ call.at = "append_acquiring" /\ Available(k)
    /\ kids' = Lease(kids, k)
    /\ call' = [call EXCEPT !.at = "appending", !.child = k]
    /\ UNCHANGED <<bounds, durable, buffer, active, chain, sending, recovering,
                   phase, written>>

AppendTaken ==
    /\ Running /\ call.at = "appending" /\ Alive(call.child)
    /\ written' = [written EXCEPT ![Head(chain)] = @ + 1]
    /\ Goto("appended")
    /\ UNCHANGED <<bounds, durable, buffer, active, chain, kids, sending, recovering,
                   phase>>

(* A lease of the append's own is released; one of the turn is the turn's. *)
OwnLease == rows[Head(chain)].corr = Head(chain)

(* markIngestComplete throws when a terminal event completed the ingest during
   the append, and the call is rejected. *)
AppendAcknowledged ==
    /\ Running /\ call.at = "appended" /\ Alive(call.child)
    /\ kids' = IF OwnLease THEN Unlease(kids, call.child) ELSE kids
    /\ IF IngestPending(rows, Head(chain))
       THEN rows' = MarkIngestComplete(rows, Head(chain)) /\ Return
       ELSE Return /\ UNCHANGED rows
    /\ UNCHANGED <<bounds, outbox, buffer, active, sending, recovering, phase, written>>

AppendFailed ==
    /\ Running /\ call.at \in {"appending", "appended"}
    /\ Terminalize(Head(chain), IF OwnLease THEN Retire(kids, call.child) ELSE kids)
    /\ Return
    /\ UNCHANGED <<bounds, buffer, recovering, phase, written>>

-----------------------------------------------------------------------------
(* Children *)

(* agent_end of any child wired to the conversation: swallowed for a queued
   follow-up, else the end of the turn in flight. *)
AgentEnd(k, type) ==
    /\ Running /\ Quiescent
    /\ kids[k].at # "none" /\ kids[k].runs > 0
    /\ LET ks == [kids EXCEPT ![k].runs = @ - 1]
       IN IF active = None \/ (active.followUps = 0 /\ active.terminal)
          THEN kids' = ks /\ UNCHANGED <<rows, outbox, sending, active>>
          ELSE IF active.followUps > 0
          THEN /\ kids' = ks
               /\ active' = [active EXCEPT !.followUps = @ - 1]
               /\ UNCHANGED <<rows, outbox, sending>>
          ELSE /\ EmitTerminal(active.corr, type)
               /\ active' = None
               /\ kids' = Unlease(ks, active.lease)
    /\ UNCHANGED <<bounds, buffer, chain, call, recovering, phase, written>>

(* turn_start and message_update extend an open window. *)
ChildOutput(k) ==
    /\ Running /\ Quiescent
    /\ kids[k].at # "none" /\ kids[k].runs > 0 /\ active # None
    /\ buffer' = RecordInteraction(buffer)
    /\ UNCHANGED <<bounds, durable, active, chain, call, kids, sending, recovering,
                   phase, written>>

(* The process of a child ends, by itself or because it was closed. *)
ChildExit(k) ==
    /\ Running /\ Quiescent
    /\ kids[k].at # "none"
    /\ FailCorrelation([kids EXCEPT ![k] = NoChild])
    /\ UNCHANGED <<bounds, buffer, chain, call, recovering, phase, written>>

(* A protocol error of the child: retired, and the turn fails. *)
ChildError(k) ==
    /\ Running /\ Quiescent
    /\ kids[k].at # "none"
    /\ FailCorrelation(Retire(kids, k))
    /\ UNCHANGED <<bounds, buffer, chain, call, recovering, phase, written>>

(* The pool evicts the idle child, for its timer or for another conversation. *)
Evict(k) ==
    /\ Running /\ Quiescent
    /\ kids[k].at = "pooled" /\ ~kids[k].leased
    /\ kids' = Retire(kids, k)
    /\ UNCHANGED <<bounds, durable, buffer, active, chain, call, sending, recovering,
                   phase, written>>

-----------------------------------------------------------------------------
(* Delivery, as the durable hooks report it *)

Confirm(c) ==
    /\ outbox' = [outbox EXCEPT ![c][1].status = "delivered"]
    /\ rows' = IF outbox[c][1].event.type = "turn.cancelled" THEN rows
               ELSE CorrelationSent(rows, c)

GiveUp(c) ==
    /\ outbox' = [outbox EXCEPT ![c][1].status = "permanent_failure"]
    /\ rows' = IF outbox[c][1].event.type = "turn.cancelled" THEN rows
               ELSE CorrelationFailed(rows, c)

(* The emitter of a finished turn posts its terminal event, or gives up. *)
Deliver(c) ==
    /\ Running /\ Quiescent /\ c \in sending
    /\ Confirm(c) \/ GiveUp(c)
    /\ sending' = sending \ {c}
    /\ UNCHANGED <<bounds, buffer, active, chain, call, kids, recovering, phase,
                   written>>

(* redeliverSaved, to its return. *)
Redelivered ==
    /\ Running /\ call.at = "redelivering"
    /\ Confirm(active.corr) \/ GiveUp(active.corr)
    /\ active' = None
    /\ Return
    /\ UNCHANGED <<bounds, buffer, kids, sending, recovering, phase, written>>

(* One correlation of recoverPending. *)
Recover(c) ==
    /\ Running /\ Quiescent /\ c \in recovering
    /\ Confirm(c) \/ GiveUp(c)
    /\ recovering' = recovering \ {c}
    /\ UNCHANGED <<bounds, buffer, active, chain, call, kids, sending, phase,
                   written>>

-----------------------------------------------------------------------------
(* Time *)

Tick ==
    /\ Running /\ Quiescent
    /\ Elapse(buffer) # buffer
    /\ buffer' = Elapse(buffer)
    /\ UNCHANGED <<bounds, durable, active, chain, call, kids, sending, recovering,
                   phase, written>>

(* flushSettled: the backlog is taken from the buffer, and beginInbound is
   called with the id of its last message and the text of the whole span, which
   conflicts with the row of that message; the error is logged and dropped. *)
FlushSettled ==
    /\ phase = "up" /\ Quiescent
    /\ Due(buffer)
    /\ BeginKind(rows, buffer.backlog[Len(buffer.backlog)], "span") = "conflict"
    /\ buffer' = Sweep(buffer)
    /\ UNCHANGED <<bounds, durable, active, chain, call, kids, sending, recovering,
                   phase, written>>

DismissEngagement ==
    /\ Running /\ Quiescent
    /\ IsActive(buffer)
    /\ buffer' = Dismiss(buffer)
    /\ UNCHANGED <<bounds, durable, active, chain, call, kids, sending, recovering,
                   phase, written>>

-----------------------------------------------------------------------------
(* Shutdown, crash, restart *)

(* close(): no new messages, and the pool closes its children and refuses to
   lease. *)
Close ==
    /\ phase = "up" /\ Quiescent
    /\ phase' = "closing"
    /\ kids' = [k \in Child |-> Retire(kids, k)[k]]
    /\ UNCHANGED <<bounds, durable, buffer, active, chain, call, sending, recovering,
                   written>>

(* closeImpl has drained the pool, the chain and the recovery. *)
Drained ==
    /\ phase = "closing" /\ chain = <<>> /\ recovering = {}
    /\ \A k \in Child : kids[k].at = "none"

Reset ==
    /\ phase' = "down"
    /\ buffer' = EmptyBuffer /\ active' = None
    /\ chain' = <<>> /\ call' = Idle
    /\ kids' = [k \in Child |-> NoChild]
    /\ sending' = {} /\ recovering' = {}
    /\ UNCHANGED <<kind, posts, durable, written>>

(* The stores are closed; emitters of ended turns may still have been posting. *)
Closed == Drained /\ Reset /\ UNCHANGED <<crashes, died>>

(* The process dies; the sweep of the next start kills its children. *)
Crash ==
    /\ Running /\ Quiescent /\ crashes > 0
    /\ crashes' = crashes - 1 /\ died' = TRUE
    /\ Reset

(* A new process, up to recoverPending. *)
Boot ==
    /\ phase = "down"
    /\ phase' = "up"
    /\ recovering' = {c \in Message : outbox[c] # <<>> /\ outbox[c][1].status = "pending"}
                     \cup SavedCorrelations(rows)
    /\ UNCHANGED <<bounds, durable, buffer, active, chain, call, kids, sending, written>>

-----------------------------------------------------------------------------
Serve ==
    \/ BeginSerial \/ AbortAcknowledged \/ AbortFailed \/ Admit
    \/ \E k \in Child : ActivateAcquired(k)
    \/ AcquireFailed \/ PromptTaken \/ PromptAcknowledged \/ PromptFailed \/ ResetReply
    \/ \E k \in Child : AppendAcquired(k)
    \/ AppendTaken \/ AppendAcknowledged \/ AppendFailed \/ Redelivered

Next ==
    \/ \E m \in Message : ProcessInbound(m)
    \/ Serve
    \/ \E k \in Child, type \in {"turn.reply", "turn.error"} : AgentEnd(k, type)
    \/ \E k \in Child : ChildOutput(k) \/ ChildExit(k) \/ ChildError(k) \/ Evict(k)
    \/ \E c \in Message : Deliver(c) \/ Recover(c)
    \/ Tick \/ FlushSettled \/ DismissEngagement
    \/ Close \/ Closed \/ Crash \/ Boot

Spec == Init /\ [][Next]_vars

-----------------------------------------------------------------------------
(* Properties *)

(* saveResponseForCorrelation answers a correlation as a whole: once it has a
   reply or an error, every message that joined it retains exactly that event,
   and no message retains an event of another correlation.  A message that joined
   after the terminal was claimed would stay without an answer. *)
SiblingsAnswered ==
    \A m \in Rows(rows) :
        LET posted == outbox[rows[m].corr]
        IN /\ SchemaHolds(rows[m])
           /\ rows[m].response # NoResponse =>
                 posted # <<>> /\ posted[1].event = rows[m].response
           /\ posted # <<>> /\ posted[1].event.type # "turn.cancelled" =>
                 rows[m].response = posted[1].event

(* processInboundSerial interrupts before it reads the active correlation: an
   addressed message has a correlation of its own, so that the interruption it
   causes cannot take it down with the old turn. *)
OwnTurn == \A m \in Rows(rows) : Addressed(m) => rows[m].corr = m

(* The state has its types, and addressed messages have their own turns. *)
Consistent == TypeOK /\ OwnTurn

(* The lease is held by the turn in flight until its terminal event, or by a
   passive append, and by nothing else: no path of interruption, failure, reset
   or redelivery leaks a lease or drops the one of a running turn. *)
LeaseFollowsTurn ==
    /\ \A k \in Child : kids[k].leased =>
          \/ active # None /\ active.lease = k
          \/ call.child = k /\ call.at \in {"appending", "appended"}
    /\ phase = "up" /\ active # None /\ ~active.terminal =>
          kids[active.lease].at = "pooled" /\ kids[active.lease].leased

(* A message is written to the session of its conversation at most once, however
   often its adapter delivers it and wherever the core crashed. *)
WrittenOnce == \A m \in Message : written[m] <= 1

(* A turn in flight has a run of its child to end it: no order of acknowledgement,
   agent_end, follow-up, retirement and exit leaves a turn that nobody will ever
   end, with the conversation busy for good. *)
TurnRuns ==
    active # None /\ ~active.terminal /\ call.at # "prompting" =>
        kids[active.lease].at # "none" /\ kids[active.lease].runs > 0

(* Lease and child go with the turn in flight, from its start to its end. *)
TurnHeld == LeaseFollowsTurn /\ TurnRuns

(* Short of a crash nothing accepted is forgotten: once the calls have returned and
   no turn is in flight, every message has finished its ingest, but for a session
   reset that joined the turn it took down, and every addressed one, or one that
   joined a turn, has a terminal event.  closeImpl drains the calls before it closes
   the store, so that this holds of what a shutdown leaves behind, and no turn
   outlives the drain. *)
Settled ==
    ~died /\ chain = <<>> /\ (active = None \/ Drained) =>
        /\ active = None
        /\ \A m \in Rows(rows) :
              /\ IngestPending(rows, m) => kind[m] = "ambient_reset" /\ rows[m].corr # m
              /\ Addressed(m) \/ rows[m].corr # m => outbox[rows[m].corr] # <<>>

(* What the store has promised it keeps: a row is never removed, never changes its
   correlation or its response, and a confirmed delivery stays confirmed, whatever
   a second emitter of the correlation reports later. *)
RowsKept ==
    [][\A m \in Rows(rows) :
         /\ rows'[m] # NoRow /\ rows'[m].corr = rows[m].corr
         /\ rows[m].response # NoResponse => rows'[m].response = rows[m].response
         /\ rows[m].delivery = "sent" => rows'[m].delivery = "sent"
         /\ rows[m].ingest = "completed" => rows'[m].ingest = "completed"]_vars

(* handleSessionReset: a session reset that has been carried out is answered, "the
   terminal reply flows through the normal completion path". *)
ResetAnswered ==
    [][call.at = "retiring" /\ call'.at # "retiring" /\ phase' # "down" =>
         rows'[Head(chain)].response # NoResponse]_vars

(* flushSettled: a held backlog that is taken from the buffer starts a turn. *)
BacklogStartsTurn ==
    [][(buffer.backlog # <<>> /\ buffer'.backlog = <<>> /\ phase' # "down")
       => call'.at \in {"acquiring", "prompting", "retiring"}]_vars
=============================================================================
