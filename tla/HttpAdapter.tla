----------------------------- MODULE HttpAdapter -----------------------------
(***************************************************************************)
(* packages/http-adapter/src/server.ts: a request that posts a message to  *)
(* the core and waits for the terminal event of its turn, and the callback *)
(* on which the core delivers the events, possibly before it has answered  *)
(* the post, more than once, late, or in another order.                    *)
(*                                                                         *)
(* The core gives every message of this adapter a correlation of its own,  *)
(* so a correlation is named by its request.  Its events are 1             *)
(* (turn.started), deltas and progress, and LastEvent, the terminal one.   *)
(* What the routes refuse before they touch any state is one action.       *)
(***************************************************************************)
EXTENDS Order, Sequences, FiniteSetsExt, SequencesExt

CONSTANTS
    Request,       \* requests of clients (bound)
    Assignments,   \* functions from requests to conversations
    LastEvent,     \* the sequence number of a turn's terminal event
    EarlyLimit,    \* EARLY_EVENT_LIMIT
    RecentLimit,   \* RECENT_EVENT_LIMIT
    MaxDeliveries, \* bound: deliveries of events, repeated ones included
    None

ASSUME HttpAssumption ==
    /\ \A c \in Assignments : DOMAIN c = Request
    /\ LastEvent \in Nat /\ LastEvent > 1
    /\ EarlyLimit \in Nat /\ RecentLimit \in Nat \ {0} /\ MaxDeliveries \in Nat

VARIABLES
    conv,      \* the conversation each request is for
    req,       \* the requests: handleMessage's progress and the response
    inFlight,  \* inFlightConversations
    trackers,  \* trackers, by correlation
    recent,    \* recentEventOrder, and as a set recentEventIds
    closing,
    core,      \* the requests whose message the core has accepted
    delivered, \* bound: the deliveries so far
    frames,    \* history: the frames written to each stream
    acked      \* history: the turns whose terminal event was answered with 200

vars == <<conv, req, inFlight, trackers, recent, closing, core, delivered, frames, acked>>

Event == [turn : Request, seq : 1 .. LastEvent]
Failure == LastEvent + 1   \* the frame that reports an error of the adapter

Tracker == [active : BOOLEAN, timer : BOOLEAN, buffered : SUBSET (1 .. LastEvent),
            terminal : BOOLEAN, lastSequence : 0 .. LastEvent]

(* A tracker for a correlation: with its expiry timer when events come first. *)
NewTracker(expires) ==
    [active |-> FALSE, timer |-> expires, buffered |-> {}, terminal |-> FALSE,
     lastSequence |-> 0]

ASSUME NoneAssumption == None \notin Tracker

Response == {"none", "refused", "terminal", "failed", "timeout", "shutdown", "unsent"}

Call == [stage : {"new", "posting", "waiting", "done"}, streams : BOOLEAN,
         stream : BOOLEAN, gone : BOOLEAN, response : Response]

TypeOK ==
    /\ conv \in Assignments
    /\ req \in [Request -> Call]
    /\ inFlight \subseteq Range(conv)
    /\ trackers \in [Request -> Tracker \cup {None}]
    /\ recent \in Seq(Event) /\ Len(recent) <= RecentLimit
    /\ closing \in BOOLEAN
    /\ core \subseteq Request
    /\ delivered \in 0 .. MaxDeliveries
    /\ frames \in [Request -> Seq(0 .. Failure)]
    /\ acked \subseteq Request

Init ==
    /\ conv \in Assignments
    /\ req = [r \in Request |-> [stage |-> "new", streams |-> FALSE, stream |-> FALSE,
                                 gone |-> FALSE, response |-> "none"]]
    /\ inFlight = {} /\ trackers = [r \in Request |-> None]
    /\ recent = <<>> /\ closing = FALSE
    /\ core = {}
    /\ delivered = 0
    /\ frames = [r \in Request |-> <<>>] /\ acked = {}

network == <<core, delivered, acked>>

-----------------------------------------------------------------------------
(* handleMessage *)

(* An invalid token, agent, key, content type or body; a conversation that has a
   turn in flight. *)
Refuse(r) ==
    /\ req[r].stage = "new"
    /\ req' = [req EXCEPT ![r].stage = "done", ![r].response = "refused"]
    /\ UNCHANGED <<conv, inFlight, trackers, recent, closing, network, frames>>

(* Mutant: the mark is set without a look at it. *)
HandleMessage_Unchecked(r, streams) ==
    /\ req[r].stage = "new"
    /\ inFlight' = inFlight \cup {conv[r]}
    /\ req' = [req EXCEPT ![r].stage = "posting", ![r].streams = streams]
    /\ UNCHANGED <<conv, trackers, recent, closing, network, frames>>

(* The message is posted to the core, during a shutdown too when the body of the
   request was still being read. *)
HandleMessage(r, streams) ==
    /\ req[r].stage = "new" /\ conv[r] \notin inFlight
    /\ inFlight' = inFlight \cup {conv[r]}
    /\ req' = [req EXCEPT ![r].stage = "posting", ![r].streams = streams]
    /\ UNCHANGED <<conv, trackers, recent, closing, network, frames>>

(* The end of handleMessage: the response, which neither a client that is gone
   nor one that has a stream gets, and the finally block. *)
Finished(r, response, streamed) ==
    [req EXCEPT ![r].stage = "done", ![r].stream = FALSE,
                ![r].response = IF req[r].gone \/ streamed THEN "unsent" ELSE response]

Freed(r) == inFlight \ {conv[r]}

(* postToCore throws: no connection, a timeout, or an answer that accepts nothing. *)
PostFails(r) ==
    /\ req[r].stage = "posting"
    /\ req' = Finished(r, "failed", FALSE) /\ inFlight' = Freed(r)
    /\ UNCHANGED <<conv, trackers, recent, closing, network, frames>>

(* The core's answer finds the adapter shutting down. *)
PostTooLate(r) ==
    /\ req[r].stage = "posting" /\ r \in core /\ closing
    /\ req' = Finished(r, "shutdown", FALSE) /\ inFlight' = Freed(r)
    /\ UNCHANGED <<conv, trackers, recent, closing, network, frames>>

(* completeTurn and failTurn: the tracker goes, an attached stream gets its last
   frame, and handleMessage ends. *)
Ended(r, response, frame) ==
    /\ trackers' = [trackers EXCEPT ![r] = None]
    /\ frames' = [frames EXCEPT ![r] = @ \o frame]
    /\ req' = Finished(r, response, req[r].streams)
    /\ inFlight' = Freed(r)

(* beginTurn: the stream opens, and what came early is replayed in the order of
   its sequence numbers, the terminal event last.  A slow or broken connection
   detaches the stream: it gets nothing from frame `cut` on. *)
BeginTurn(r) ==
    /\ req[r].stage = "posting" /\ r \in core /\ ~closing
    /\ \E cut \in 0 .. Failure :
          LET t == IF trackers[r] = None THEN NewTracker(FALSE) ELSE trackers[r]
              opens == req[r].streams /\ ~req[r].gone
              replay == {0} \cup t.buffered \cup (IF t.terminal THEN {LastEvent} ELSE {})
              sent == IF opens
                      THEN Ascending({s \in replay : s = 0 \/ s < cut})
                      ELSE <<>>
          IN  /\ opens \/ cut = Failure
              /\ frames' = [frames EXCEPT ![r] = sent]
              /\ IF t.terminal
                 THEN /\ trackers' = [trackers EXCEPT ![r] = None]
                      /\ req' = Finished(r, "terminal", req[r].streams)
                      /\ inFlight' = Freed(r)
                 ELSE /\ trackers' = [trackers EXCEPT ![r] =
                             [NewTracker(FALSE) EXCEPT !.active = TRUE,
                                                       !.lastSequence = Max(replay)]]
                      /\ req' = [req EXCEPT ![r].stage = "waiting",
                                            ![r].stream = opens /\ cut = Failure]
                      /\ UNCHANGED inFlight
    /\ UNCHANGED <<conv, recent, closing, network>>

(* Mutant: a turn whose client went away is left to the core. *)
TurnTimeout_Attached(r) ==
    /\ req[r].stage = "waiting" /\ ~req[r].gone
    /\ Ended(r, "timeout", IF req[r].stream THEN <<Failure>> ELSE <<>>)
    /\ UNCHANGED <<conv, recent, closing, network>>

(* The turn's timer: what is left of turnTimeoutMs since the request. *)
TurnTimeout(r) ==
    /\ req[r].stage = "waiting"
    /\ Ended(r, "timeout", IF req[r].stream THEN <<Failure>> ELSE <<>>)
    /\ UNCHANGED <<conv, recent, closing, network>>

(* The client goes away: its stream detaches, the turn goes on. *)
Disconnect(r) ==
    /\ req[r].stage \in {"posting", "waiting"} /\ ~req[r].gone
    /\ req' = [req EXCEPT ![r].gone = TRUE, ![r].stream = FALSE]
    /\ UNCHANGED <<conv, inFlight, trackers, recent, closing, network, frames>>

-----------------------------------------------------------------------------
(* handleCoreEvent *)

(* rememberEvent *)
Remembered(e) ==
    LET longer == Append(recent, e)
    IN  IF Len(longer) > RecentLimit THEN Tail(longer) ELSE longer

(* Mutant: an event is delivered as often as it comes. *)
DeliverEvent_AnyOrder(e) ==
    LET r == e.turn
    IN  IF e.seq = LastEvent
        THEN Ended(r, "terminal", IF req[r].stream THEN <<LastEvent>> ELSE <<>>)
        ELSE /\ trackers' = [trackers EXCEPT ![r].lastSequence = e.seq]
             /\ frames' = [frames EXCEPT ![r] = IF req[r].stream THEN Append(@, e.seq) ELSE @]
             /\ UNCHANGED <<req, inFlight>>

(* deliverEvent to an active turn: the terminal event ends it, another one that is
   not newer than the last is passed over, and a push may detach the stream. *)
DeliverEvent(e) ==
    LET r == e.turn
        shown == e.seq > 1 /\ req[r].stream
    IN  IF e.seq = LastEvent
        THEN Ended(r, "terminal", IF req[r].stream THEN <<LastEvent>> ELSE <<>>)
        ELSE IF e.seq <= trackers[r].lastSequence
        THEN UNCHANGED <<req, trackers, frames, inFlight>>
        ELSE /\ trackers' = [trackers EXCEPT ![r].lastSequence = e.seq]
             /\ frames' = [frames EXCEPT ![r] = IF shown THEN Append(@, e.seq) ELSE @]
             /\ \/ UNCHANGED req
                \/ shown /\ req' = [req EXCEPT ![r].stream = FALSE]
             /\ UNCHANGED inFlight

(* Mutant: a full buffer turns the terminal event away too. *)
BufferEvent_CapsAll(e) ==
    LET t == IF trackers[e.turn] = None THEN NewTracker(TRUE) ELSE trackers[e.turn]
    IN  trackers' = [trackers EXCEPT ![e.turn] =
            IF Cardinality(t.buffered) >= EarlyLimit THEN t
            ELSE IF e.seq = LastEvent THEN [t EXCEPT !.terminal = TRUE]
            ELSE [t EXCEPT !.buffered = @ \cup {e.seq}]]

(* An event of no active turn waits in a tracker; beyond the limit deltas and
   progress are dropped. *)
BufferEvent(e) ==
    LET t == IF trackers[e.turn] = None THEN NewTracker(TRUE) ELSE trackers[e.turn]
    IN  trackers' = [trackers EXCEPT ![e.turn] =
            IF e.seq = LastEvent THEN [t EXCEPT !.terminal = TRUE]
            ELSE IF Cardinality(t.buffered) >= EarlyLimit THEN t
            ELSE [t EXCEPT !.buffered = @ \cup {e.seq}]]

(* acceptEvent *)
AcceptEvent(e) ==
    IF trackers[e.turn] # None /\ trackers[e.turn].active THEN DeliverEvent(e)
    ELSE /\ IF e.seq = 1 THEN UNCHANGED trackers ELSE BufferEvent(e)
         /\ UNCHANGED <<req, frames, inFlight>>

(* The core (external) delivers an event, whether or not the post was answered. *)
HandleCoreEvent(e) ==
    /\ e.turn \in core /\ delivered < MaxDeliveries
    /\ delivered' = delivered + 1
    /\ acked' = IF e.seq = LastEvent THEN acked \cup {e.turn} ELSE acked
    /\ IF Contains(recent, e)
       THEN UNCHANGED <<req, inFlight, trackers, recent, frames>>
       ELSE AcceptEvent(e) /\ recent' = Remembered(e)
    /\ UNCHANGED <<conv, closing, core>>

(* The expiry timer of early events is armed after the post's and runs as long,
   so a post that is still waiting has not reached it. *)
EarlyExpires(r) ==
    /\ trackers[r] # None /\ ~trackers[r].active /\ trackers[r].timer
    /\ req[r].stage # "posting"
    /\ trackers' = [trackers EXCEPT ![r] = None]
    /\ UNCHANGED <<conv, req, inFlight, recent, closing, network, frames>>

-----------------------------------------------------------------------------
(* handleInbound of the core takes the message and names its correlation. *)
CoreAccepts(r) ==
    /\ req[r].stage = "posting" /\ r \notin core
    /\ core' = core \cup {r}
    /\ UNCHANGED <<conv, req, inFlight, trackers, recent, closing, delivered, frames, acked>>

(* close(): every active turn fails and its stream is destroyed. *)
Close ==
    /\ ~closing /\ closing' = TRUE
    /\ req' = [r \in Request |->
                IF req[r].stage = "waiting" THEN Finished(r, "shutdown", req[r].streams)[r]
                ELSE req[r]]
    /\ trackers' = [r \in Request |-> None]
    /\ inFlight' = {} /\ recent' = <<>>
    /\ UNCHANGED <<conv, network, frames>>

Next ==
    \/ \E r \in Request :
          \/ Refuse(r) \/ PostFails(r) \/ PostTooLate(r) \/ BeginTurn(r)
          \/ TurnTimeout(r) \/ Disconnect(r) \/ EarlyExpires(r) \/ CoreAccepts(r)
          \/ \E streams \in BOOLEAN : HandleMessage(r, streams)
    \/ \E e \in Event : HandleCoreEvent(e)
    \/ Close

Spec == Init /\ [][Next]_vars

(* The timers of the post, of the turn and of early events expire. *)
FairSpec ==
    /\ Spec
    /\ \A r \in Request :
          WF_vars(PostFails(r)) /\ WF_vars(TurnTimeout(r)) /\ WF_vars(EarlyExpires(r))

-----------------------------------------------------------------------------
(* Correctness *)

Open(r) == req[r].stage \in {"posting", "waiting"}

(* Only one turn is in flight for a conversation, whatever happens. *)
OneTurnInFlight ==
    \A r, q \in Request : Open(r) /\ Open(q) /\ conv[r] = conv[q] => r = q

(* Until close() drops the marks, a conversation is marked exactly while a request
   of it is open, and there is one such request: no error path of handleMessage
   leaves it locked or lets a second one in. *)
OneTurnEach ==
    ~closing => /\ inFlight = {conv[r] : r \in {q \in Request : Open(q)}}
                /\ OneTurnInFlight

(* After close() no request waits for a turn, not even one whose post was answered
   or begun only then. *)
NoneWaits == closing => \A r \in Request : req[r].stage # "waiting"

(* A terminal event that was answered with 200 is never lost: no request goes on
   waiting for it, whether it came before, during or after the post's answer. *)
TerminalKept ==
    \A r \in acked : req[r].stage # "waiting"

(* A client sees the acceptance first, then each event at most once and in order,
   and nothing after the terminal event or the failure. *)
StreamOrdered ==
    \A r \in Request :
        /\ frames[r] # <<>> => frames[r][1] = 0
        /\ \A i \in 1 .. (Len(frames[r]) - 1) : frames[r][i] < frames[r][i + 1]
        /\ Contains(frames[r], LastEvent) \/ Contains(frames[r], Failure) => ~Open(r)

(* No tracker outlives its use: it is active for a waiting request, or it waits
   for one with its expiry timer armed. *)
TrackersOwned ==
    \A r \in Request : trackers[r] # None =>
        IF trackers[r].active THEN req[r].stage = "waiting" ELSE trackers[r].timer

(* The state has its types, the limit on remembered events included, and the marks
   and the trackers are those of the open requests, until a close and after it. *)
Consistent == TypeOK /\ OneTurnEach /\ NoneWaits /\ TrackersOwned

(* Every request is answered or abandoned, and the trackers are all given up. *)
RequestsEnd ==
    /\ \A r \in Request : Open(r) ~> ~Open(r)
    /\ <>[](\A r \in Request : trackers[r] = None)
=============================================================================
