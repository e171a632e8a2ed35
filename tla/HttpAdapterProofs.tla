-------------------------- MODULE HttpAdapterProofs --------------------------
(***************************************************************************)
(* Proofs about HttpAdapter, for every set of requests, every assignment   *)
(* of conversations, every number of events of a turn, and every limit on  *)
(* early and remembered events and on deliveries.                          *)
(***************************************************************************)
EXTENDS HttpAdapter, OrderProofs, SequenceTheorems

-----------------------------------------------------------------------------
(***************************************************************************)
(* The inductive invariant.  Most of it is about one request: its call q,  *)
(* its tracker t and the frames f of its stream.                           *)
(***************************************************************************)

\* Strictly increasing, from the acceptance frame on.
InOrder(f) ==
    /\ f # <<>> => f[1] = 0
    /\ \A i \in 1 .. (Len(f) - 1) : f[i] < f[i + 1]

\* A tracker has an owner; what it holds are deltas and progress, before the
\* terminal event.
TrackerSound(q, t) ==
    /\ t # None => /\ IF t.active THEN q.stage = "waiting" ELSE t.timer
                   /\ t.buffered \subseteq 2 .. (LastEvent - 1)
                   /\ t.lastSequence < LastEvent
    /\ q.stage = "waiting" => t # None /\ t.active

\* Nothing is written before the turn begins or without an open stream, and
\* nothing of a turn that goes on is ahead of its tracker.
StreamSound(q, t, f) ==
    /\ q.stage \in {"new", "posting"} => f = <<>>
    /\ q.stream => q.stage = "waiting" /\ f # <<>>
    /\ InOrder(f)
    /\ q.stage = "waiting" => \A i \in 1 .. Len(f) : f[i] <= t.lastSequence

Sound(q, t, f) ==
    /\ q \in Call /\ t \in Tracker \cup {None} /\ f \in Seq(0 .. Failure)
    /\ TrackerSound(q, t)
    /\ StreamSound(q, t, f)

\* An acknowledged terminal event waits for its request, or has ended it.
TerminalWaits(r) ==
    /\ req[r].stage # "waiting"
    /\ req[r].stage = "posting" /\ ~closing => trackers[r] # None /\ trackers[r].terminal

\* A turn is known to the core after its post; what is remembered of a terminal
\* event has been acknowledged.
EventsKnown ==
    /\ \A r \in core : req[r].stage # "new"
    /\ acked \subseteq core
    /\ \A i \in 1 .. Len(recent) : recent[i].seq = LastEvent => recent[i].turn \in acked

Inv ==
    /\ TypeOK
    /\ \A r \in Request : Sound(req[r], trackers[r], frames[r])
    /\ OneTurnEach
    /\ EventsKnown
    /\ \A r \in acked : TerminalWaits(r)

-----------------------------------------------------------------------------
(***************************************************************************)
(* Steps of one request: its call becomes q, its tracker t and its stream  *)
(* f.                                                                      *)
(***************************************************************************)

Opened(q) == q.stage \in {"posting", "waiting"}

\* The step of r leaves its three parts sound, and those of the others alone.
LEMMA OneRequest ==
    ASSUME Inv, NEW r \in Request, NEW q, NEW t, NEW f, Sound(q, t, f),
           req' = [req EXCEPT ![r] = q],
           trackers' = [trackers EXCEPT ![r] = t],
           frames' = [frames EXCEPT ![r] = f]
    PROVE  /\ req' \in [Request -> Call]
           /\ trackers' \in [Request -> Tracker \cup {None}]
           /\ frames' \in [Request -> Seq(0 .. Failure)]
           /\ req'[r] = q /\ trackers'[r] = t /\ frames'[r] = f
           /\ \A p \in Request \ {r} :
                 req'[p] = req[p] /\ trackers'[p] = trackers[p] /\ frames'[p] = frames[p]
           /\ \A p \in Request : Sound(req'[p], trackers'[p], frames'[p])
  <1>1. /\ req \in [Request -> Call]
        /\ trackers \in [Request -> Tracker \cup {None}]
        /\ frames \in [Request -> Seq(0 .. Failure)]
        /\ \A p \in Request : Sound(req[p], trackers[p], frames[p])
    BY DEF Inv, TypeOK
  <1>2. q \in Call /\ t \in Tracker \cup {None} /\ f \in Seq(0 .. Failure)
    BY DEF Sound
  <1>3. /\ req' \in [Request -> Call]
        /\ req'[r] = q /\ \A p \in Request \ {r} : req'[p] = req[p]
    BY <1>1, <1>2
  <1>4. /\ trackers' \in [Request -> Tracker \cup {None}]
        /\ trackers'[r] = t /\ \A p \in Request \ {r} : trackers'[p] = trackers[p]
    BY <1>1, <1>2
  <1>5. /\ frames' \in [Request -> Seq(0 .. Failure)]
        /\ frames'[r] = f /\ \A p \in Request \ {r} : frames'[p] = frames[p]
    BY <1>1, <1>2
  <1>6. ASSUME NEW p \in Request PROVE Sound(req'[p], trackers'[p], frames'[p])
    <2>1. CASE p = r
      BY <1>3, <1>4, <1>5, <2>1
    <2>2. CASE p # r
      BY <1>1, <1>3, <1>4, <1>5, <2>2
    <2> QED BY <2>1, <2>2
  <1> QED BY <1>3, <1>4, <1>5, <1>6

\* The mark of r's conversation follows r: it is the only one that can be open.
LEMMA MarksFollow ==
    ASSUME TypeOK, OneTurnEach, NEW r \in Request, NEW q, q \in Call,
           req' = [req EXCEPT ![r] = q], UNCHANGED <<conv, closing>>,
           \/ inFlight' = inFlight /\ (Opened(q) <=> Open(r))
           \/ inFlight' = inFlight \cup {conv[r]} /\ conv[r] \notin inFlight /\ Opened(q)
           \/ inFlight' = Freed(r) /\ Open(r) /\ ~Opened(q)
    PROVE  OneTurnEach' /\ (inFlight \subseteq Range(conv))'
  <1>1. req'[r] = q /\ \A p \in Request \ {r} : req'[p] = req[p]
    BY DEF TypeOK
  <1>2. Open(r)' <=> Opened(q)
    BY <1>1 DEF Open, Opened
  <1>3. \A p \in Request \ {r} : Open(p)' <=> Open(p)
    BY <1>1 DEF Open
  <1>4. conv[r] \in Range(conv) /\ inFlight \subseteq Range(conv)
    BY HttpAssumption DEF TypeOK, Range
  <1>5. inFlight' \subseteq Range(conv')
    BY <1>4 DEF Freed
  <1>6. ~closing => inFlight = {conv[p] : p \in {s \in Request : Open(s)}}
    BY DEF OneTurnEach
  <1>7. ~closing => \A p, s \in Request : Open(p) /\ Open(s) /\ conv[p] = conv[s] => p = s
    BY DEF OneTurnEach, OneTurnInFlight
  <1>c. CASE closing
    BY <1>5, <1>c DEF OneTurnEach
  <1>8. CASE ~closing /\ inFlight' = inFlight /\ (Opened(q) <=> Open(r))
    <2>1. \A p \in Request : Open(p)' <=> Open(p)
      BY <1>2, <1>3, <1>8
    <2> QED BY <1>5, <1>6, <1>7, <1>8, <2>1 DEF OneTurnEach, OneTurnInFlight
  <1>9. CASE ~closing /\ inFlight' = inFlight \cup {conv[r]} /\ conv[r] \notin inFlight /\ Opened(q)
    <2>1. \A p \in Request : Open(p)' <=> Open(p) \/ p = r
      BY <1>2, <1>3, <1>9
    <2>2. \A p \in Request : Open(p) => conv[p] # conv[r]
      BY <1>6, <1>9
    <2>3. inFlight' = {conv[p] : p \in {s \in Request : Open(s)'}}
      BY <1>6, <1>9, <2>1
    <2> QED BY <1>5, <1>7, <1>9, <2>1, <2>2, <2>3 DEF OneTurnEach, OneTurnInFlight
  <1>10. CASE ~closing /\ inFlight' = Freed(r) /\ Open(r) /\ ~Opened(q)
    <2>1. \A p \in Request : Open(p)' <=> Open(p) /\ p # r
      BY <1>2, <1>3, <1>10
    <2>2. \A p \in Request : Open(p) /\ conv[p] = conv[r] => p = r
      BY <1>7, <1>10
    <2>3. ~closing => inFlight' = {conv[p] : p \in {s \in Request : Open(s)'}}
      BY <1>6, <1>10, <2>1, <2>2 DEF Freed
    <2> QED BY <1>5, <1>7, <1>10, <2>1, <2>3 DEF OneTurnEach, OneTurnInFlight
  <1> QED BY <1>c, <1>8, <1>9, <1>10

\* What a step of r may do to the record of events: what is remembered of a
\* terminal event has been acknowledged.
Heard(r) ==
    /\ core' = core /\ delivered' \in 0 .. MaxDeliveries
    /\ acked' \in {acked, acked \cup {r}} /\ (r \in acked' => r \in core)
    /\ recent' \in Seq(Event) /\ Len(recent') <= RecentLimit
    /\ \A i \in 1 .. Len(recent') : recent'[i].seq = LastEvent => recent'[i].turn \in acked'

LEMMA NothingHeard ==
    ASSUME Inv, NEW r \in Request, UNCHANGED <<recent, network>>
    PROVE  Heard(r) /\ acked' = acked
  BY DEF Inv, TypeOK, EventsKnown, Heard, network

\* What the steps of a request have in common, the arrival of its events included.
LEMMA RequestKeeps ==
    ASSUME Inv, NEW r \in Request, NEW q, NEW t, NEW f, Sound(q, t, f),
           req' = [req EXCEPT ![r] = q],
           trackers' = [trackers EXCEPT ![r] = t],
           frames' = [frames EXCEPT ![r] = f],
           UNCHANGED <<conv, closing>>, Heard(r),
           \/ inFlight' = inFlight /\ (Opened(q) <=> Open(r))
           \/ inFlight' = inFlight \cup {conv[r]} /\ conv[r] \notin inFlight /\ Opened(q)
           \/ inFlight' = Freed(r) /\ Open(r) /\ ~Opened(q),
           r \in core => q.stage # "new",
           r \in acked' => /\ q.stage # "waiting"
                           /\ q.stage = "posting" /\ ~closing => t # None /\ t.terminal
    PROVE  Inv'
  <1>1. TypeOK /\ OneTurnEach /\ EventsKnown /\ q \in Call
    BY DEF Inv, Sound
  <1>2. /\ core' \subseteq Request /\ acked' \subseteq Request /\ acked' \subseteq core'
        /\ \A p \in acked' : p \in acked \/ p = r
    BY <1>1 DEF Heard, TypeOK, EventsKnown
  <1>3. OneTurnEach' /\ (inFlight \subseteq Range(conv))'
    BY <1>1, MarksFollow
  <1>4. /\ req' \in [Request -> Call]
        /\ trackers' \in [Request -> Tracker \cup {None}]
        /\ frames' \in [Request -> Seq(0 .. Failure)]
        /\ req'[r] = q /\ trackers'[r] = t /\ frames'[r] = f
        /\ \A p \in Request \ {r} :
              req'[p] = req[p] /\ trackers'[p] = trackers[p] /\ frames'[p] = frames[p]
        /\ \A p \in Request : Sound(req'[p], trackers'[p], frames'[p])
    BY OneRequest
  <1>5. TypeOK'
    BY <1>1, <1>2, <1>3, <1>4 DEF TypeOK, Heard
  <1>6. EventsKnown'
    <2>1. \A p \in core' : req'[p].stage # "new"
      BY <1>1, <1>4 DEF EventsKnown, TypeOK, Heard
    <2> QED BY <1>2, <2>1 DEF EventsKnown, Heard
  <1>7. ASSUME NEW p \in acked' PROVE TerminalWaits(p)'
    <2>1. CASE p = r
      BY <1>4, <2>1 DEF TerminalWaits
    <2>2. CASE p # r
      <3>1. p \in acked /\ p \in Request
        BY <1>2, <2>2
      <3>2. TerminalWaits(p)
        BY <3>1 DEF Inv
      <3> QED BY <1>4, <2>2, <3>1, <3>2 DEF TerminalWaits
    <2> QED BY <2>1, <2>2
  <1> QED BY <1>3, <1>4, <1>5, <1>6, <1>7 DEF Inv

-----------------------------------------------------------------------------
(***************************************************************************)
(* The actions of a request and of the core, one by one.                   *)
(***************************************************************************)

\* What a request knows of its own before a step.
LEMMA Before ==
    ASSUME Inv, NEW r \in Request
    PROVE  /\ Sound(req[r], trackers[r], frames[r])
           /\ req[r] \in Call /\ trackers[r] \in Tracker \cup {None}
           /\ frames[r] \in Seq(0 .. Failure)
           /\ TrackerSound(req[r], trackers[r])
           /\ StreamSound(req[r], trackers[r], frames[r])
           /\ req = [req EXCEPT ![r] = req[r]]
           /\ trackers = [trackers EXCEPT ![r] = trackers[r]]
           /\ frames = [frames EXCEPT ![r] = frames[r]]
           /\ r \in core => req[r].stage # "new"
           /\ r \in acked => r \in core /\ TerminalWaits(r)
  BY DEF Inv, Sound, TypeOK, EventsKnown

LEMMA RefuseKeeps == ASSUME Inv, NEW r \in Request, Refuse(r) PROVE Inv'
  <1> DEFINE q == [req[r] EXCEPT !.stage = "done", !.response = "refused"]
  <1>1. /\ Sound(req[r], trackers[r], frames[r]) /\ req[r] \in Call
        /\ trackers = [trackers EXCEPT ![r] = trackers[r]]
        /\ frames = [frames EXCEPT ![r] = frames[r]]
    BY Before
  <1>2. req[r].stage = "new" /\ req' = [req EXCEPT ![r] = q]
    BY DEF Refuse, Inv, TypeOK
  <1>3. q \in Call /\ q.stage = "done" /\ q.stream = req[r].stream
    BY <1>1 DEF Call, Response
  <1>4. Sound(q, trackers[r], frames[r])
    BY <1>1, <1>2, <1>3 DEF Sound, TrackerSound, StreamSound
  <1>5. ~Open(r) /\ ~Opened(q)
    BY <1>2, <1>3 DEF Open, Opened
  <1> HIDE DEF q
  <1>6. trackers' = [trackers EXCEPT ![r] = trackers[r]] /\ frames' = [frames EXCEPT ![r] = frames[r]]
    BY <1>1 DEF Refuse
  <1>7. inFlight' = inFlight /\ UNCHANGED <<conv, recent, closing, network>>
        /\ acked' = acked /\ Heard(r)
    BY NothingHeard DEF Refuse
  <1> QED BY <1>2, <1>3, <1>4, <1>5, <1>6, <1>7, RequestKeeps

LEMMA HandleMessageKeeps ==
    ASSUME Inv, NEW r \in Request, NEW streams \in BOOLEAN, HandleMessage(r, streams)
    PROVE  Inv'
  <1> DEFINE q == [req[r] EXCEPT !.stage = "posting", !.streams = streams]
  <1>1. /\ Sound(req[r], trackers[r], frames[r]) /\ req[r] \in Call
        /\ trackers = [trackers EXCEPT ![r] = trackers[r]]
        /\ frames = [frames EXCEPT ![r] = frames[r]]
        /\ r \in core => req[r].stage # "new"
        /\ r \in acked => r \in core
    BY Before
  <1>2. req[r].stage = "new" /\ req' = [req EXCEPT ![r] = q]
    BY DEF HandleMessage, Inv, TypeOK
  <1>3. q \in Call /\ q.stage = "posting" /\ q.stream = req[r].stream
    BY <1>1 DEF Call
  <1>4. Sound(q, trackers[r], frames[r])
    BY <1>1, <1>2, <1>3 DEF Sound, TrackerSound, StreamSound
  <1>5. Opened(q)
    BY <1>3 DEF Opened
  <1> HIDE DEF q
  <1>6. trackers' = [trackers EXCEPT ![r] = trackers[r]] /\ frames' = [frames EXCEPT ![r] = frames[r]]
    BY <1>1 DEF HandleMessage
  <1>7. /\ inFlight' = inFlight \cup {conv[r]} /\ conv[r] \notin inFlight
        /\ UNCHANGED <<conv, recent, closing, network>>
        /\ acked' = acked /\ Heard(r)
    BY NothingHeard DEF HandleMessage
  <1> QED BY <1>1, <1>2, <1>3, <1>4, <1>5, <1>6, <1>7, RequestKeeps

\* The end of an open request: its call is done, its stream detached, its mark gone.
LEMMA FinishedKeeps ==
    ASSUME Inv, NEW r \in Request, NEW response \in Response, NEW streamed \in BOOLEAN, NEW t, NEW f,
           Open(r), TrackerSound([stage |-> "done"], t), t \in Tracker \cup {None},
           f \in Seq(0 .. Failure), InOrder(f),
           req' = Finished(r, response, streamed), inFlight' = Freed(r),
           trackers' = [trackers EXCEPT ![r] = t],
           frames' = [frames EXCEPT ![r] = f],
           UNCHANGED <<conv, closing>>, Heard(r)
    PROVE  Inv'
  <1> DEFINE w == IF req[r].gone \/ streamed THEN "unsent" ELSE response
             q == [req[r] EXCEPT !.stage = "done", !.stream = FALSE, !.response = w]
  <1>1. req[r] \in Call
    BY Before
  <1>2. w \in Response
    BY DEF Response
  <1>3. req' = [req EXCEPT ![r] = q]
    BY DEF Finished, Inv, TypeOK
  <1> HIDE DEF w
  <1>4. q \in Call /\ q.stage = "done" /\ q.stream = FALSE
    BY <1>1, <1>2 DEF Call
  <1> HIDE DEF q
  <1>5. Sound(q, t, f)
    BY <1>4 DEF Sound, TrackerSound, StreamSound
  <1>6. ~Opened(q)
    BY <1>4 DEF Opened
  <1> QED BY <1>3, <1>4, <1>5, <1>6, RequestKeeps

\* A request that is still posting ends without a turn.
LEMMA PostEnds ==
    ASSUME Inv, NEW r \in Request, req[r].stage = "posting", NEW response \in Response,
           req' = Finished(r, response, FALSE), inFlight' = Freed(r),
           UNCHANGED <<conv, trackers, recent, closing, network, frames>>
    PROVE  Inv'
  <1>1. /\ Sound(req[r], trackers[r], frames[r])
        /\ trackers' = [trackers EXCEPT ![r] = trackers[r]]
        /\ frames' = [frames EXCEPT ![r] = frames[r]]
    BY Before
  <1>2. /\ TrackerSound([stage |-> "done"], trackers[r]) /\ trackers[r] \in Tracker \cup {None}
        /\ frames[r] \in Seq(0 .. Failure) /\ InOrder(frames[r])
    BY <1>1 DEF Sound, TrackerSound, StreamSound
  <1>3. Open(r)
    BY DEF Open
  <1>4. Heard(r)
    BY NothingHeard
  <1> QED BY <1>1, <1>2, <1>3, <1>4, FinishedKeeps

LEMMA PostFailsKeeps == ASSUME Inv, NEW r \in Request, PostFails(r) PROVE Inv'
  BY PostEnds DEF PostFails, Response

LEMMA PostTooLateKeeps == ASSUME Inv, NEW r \in Request, PostTooLate(r) PROVE Inv'
  BY PostEnds DEF PostTooLate, Response

\* completeTurn and failTurn: a last frame that is beyond all the others.
LEMMA EndedKeeps ==
    ASSUME Inv, NEW r \in Request, req[r].stage = "waiting", NEW response \in Response,
           NEW last \in {LastEvent, Failure},
           Ended(r, response, IF req[r].stream THEN <<last>> ELSE <<>>),
           UNCHANGED <<conv, closing>>, Heard(r)
    PROVE  Inv'
  <1> DEFINE f == frames[r] \o (IF req[r].stream THEN <<last>> ELSE <<>>)
  <1>1. /\ Sound(req[r], trackers[r], frames[r])
        /\ req[r] \in Call
        /\ frames[r] \in Seq(0 .. Failure)
    BY Before
  <1>2. /\ frames' = [frames EXCEPT ![r] = f] /\ trackers' = [trackers EXCEPT ![r] = None]
        /\ req' = Finished(r, response, req[r].streams) /\ inFlight' = Freed(r)
    BY DEF Ended, Inv, TypeOK
  <1>3. f \in Seq(0 .. Failure) /\ InOrder(f)
    <2>1. CASE ~req[r].stream
      <3>1. f = frames[r]
        BY <1>1, <2>1
      <3> QED BY <1>1, <3>1 DEF Sound, StreamSound
    <2>2. CASE req[r].stream
      <3>1. f = Append(frames[r], last)
        BY <1>1, <2>2
      <3> DEFINE g == frames[r]
      <3>2. g \in Seq(0 .. Failure) /\ g # <<>> /\ g[1] = 0
        BY <1>1, <2>2 DEF Sound, StreamSound, InOrder
      <3>3. \A i \in 1 .. (Len(g) - 1) : g[i] < g[i + 1]
        BY <1>1 DEF Sound, StreamSound, InOrder
      <3>4. trackers[r].lastSequence \in 0 .. LastEvent /\ trackers[r].lastSequence < LastEvent
        BY <1>1 DEF Sound, TrackerSound, Tracker
      <3>5. \A i \in 1 .. Len(g) : g[i] <= trackers[r].lastSequence
        BY <1>1 DEF Sound, StreamSound
      <3>6. last \in 0 .. Failure /\ last \in Nat /\ last >= LastEvent /\ LastEvent \in Nat
        BY HttpAssumption DEF Failure
      <3> HIDE DEF g
      <3>7. \A i \in 1 .. Len(g) : g[i] < last
        <4> SUFFICES ASSUME NEW i \in 1 .. Len(g) PROVE g[i] < last
          OBVIOUS
        <4>1. g[i] \in 0 .. Failure
          BY <3>2, ElementOfSeq
        <4>2. g[i] \in Int /\ g[i] <= trackers[r].lastSequence
          BY <3>5, <4>1 DEF Failure
        <4> QED BY <3>4, <3>6, <4>2
      <3>8. InOrder(Append(g, last)) /\ Append(g, last) \in Seq(0 .. Failure)
        BY <3>2, <3>3, <3>6, <3>7 DEF InOrder
      <3> QED BY <3>1, <3>8 DEF g
    <2> QED BY <2>1, <2>2
  <1> HIDE DEF f
  <1>4. TrackerSound([stage |-> "done"], None) /\ Open(r) /\ req[r].streams \in BOOLEAN
    BY <1>1 DEF TrackerSound, Open, Call
  <1> QED BY <1>2, <1>3, <1>4, FinishedKeeps

LEMMA TurnTimeoutKeeps == ASSUME Inv, NEW r \in Request, TurnTimeout(r) PROVE Inv'
  BY NothingHeard, EndedKeeps DEF TurnTimeout, Response

LEMMA DisconnectKeeps == ASSUME Inv, NEW r \in Request, Disconnect(r) PROVE Inv'
  <1> DEFINE q == [req[r] EXCEPT !.gone = TRUE, !.stream = FALSE]
  <1>1. /\ Sound(req[r], trackers[r], frames[r]) /\ req[r] \in Call
        /\ trackers = [trackers EXCEPT ![r] = trackers[r]]
        /\ frames = [frames EXCEPT ![r] = frames[r]]
        /\ r \in core => req[r].stage # "new"
        /\ r \in acked => TerminalWaits(r)
    BY Before
  <1>2. req' = [req EXCEPT ![r] = q]
    BY DEF Disconnect, Inv, TypeOK
  <1>3. q \in Call /\ q.stage = req[r].stage /\ q.stream = FALSE
    BY <1>1 DEF Call
  <1> HIDE DEF q
  <1>4. Sound(q, trackers[r], frames[r])
    BY <1>1, <1>3 DEF Sound, TrackerSound, StreamSound
  <1>5. Opened(q) <=> Open(r)
    BY <1>3 DEF Open, Opened
  <1>6. /\ trackers' = [trackers EXCEPT ![r] = trackers[r]]
        /\ frames' = [frames EXCEPT ![r] = frames[r]]
        /\ inFlight' = inFlight /\ UNCHANGED <<conv, recent, closing, network>>
        /\ acked' = acked /\ Heard(r)
    BY <1>1, NothingHeard DEF Disconnect
  <1>7. r \in acked => /\ q.stage # "waiting"
                       /\ q.stage = "posting" /\ ~closing => trackers[r] # None /\ trackers[r].terminal
    BY <1>1, <1>3 DEF TerminalWaits
  <1> QED BY <1>1, <1>2, <1>3, <1>4, <1>5, <1>6, <1>7, RequestKeeps

LEMMA EarlyExpiresKeeps == ASSUME Inv, NEW r \in Request, EarlyExpires(r) PROVE Inv'
  <1>1. /\ Sound(req[r], trackers[r], frames[r])
        /\ req = [req EXCEPT ![r] = req[r]]
        /\ frames = [frames EXCEPT ![r] = frames[r]]
        /\ r \in core => req[r].stage # "new"
        /\ r \in acked => TerminalWaits(r)
    BY Before
  <1>2. trackers[r] # None /\ ~trackers[r].active /\ req[r].stage # "posting"
    BY DEF EarlyExpires
  <1>3. Sound(req[r], None, frames[r])
    BY <1>1, <1>2 DEF Sound, TrackerSound, StreamSound
  <1>4. Opened(req[r]) <=> Open(r)
    BY DEF Opened, Open
  <1>5. /\ req' = [req EXCEPT ![r] = req[r]]
        /\ frames' = [frames EXCEPT ![r] = frames[r]]
        /\ trackers' = [trackers EXCEPT ![r] = None]
        /\ inFlight' = inFlight /\ UNCHANGED <<conv, recent, closing, network>>
        /\ acked' = acked /\ Heard(r)
    BY <1>1, NothingHeard DEF EarlyExpires
  <1>6. r \in acked => req[r].stage # "waiting"
    BY <1>1 DEF TerminalWaits
  <1> QED BY <1>1, <1>2, <1>3, <1>4, <1>5, <1>6, RequestKeeps

LEMMA CoreAcceptsKeeps == ASSUME Inv, NEW r \in Request, CoreAccepts(r) PROVE Inv'
  <1>1. UNCHANGED <<conv, req, inFlight, trackers, recent, closing, delivered, frames, acked>>
    BY DEF CoreAccepts
  <1>2. core' = core \cup {r} /\ req[r].stage = "posting"
    BY DEF CoreAccepts
  <1>3. TypeOK' /\ OneTurnEach'
    BY <1>1, <1>2 DEF Inv, TypeOK, OneTurnEach, OneTurnInFlight, Open
  <1>4. EventsKnown'
    BY <1>1, <1>2 DEF Inv, EventsKnown
  <1>5. \A p \in acked' : TerminalWaits(p)'
    BY <1>1 DEF Inv, TerminalWaits
  <1>6. \A p \in Request : Sound(req'[p], trackers'[p], frames'[p])
    BY <1>1 DEF Inv
  <1> QED BY <1>3, <1>4, <1>5, <1>6 DEF Inv

\* What beginTurn finds: the early events of the turn, and none of a turn before.
LEMMA Early ==
    ASSUME Inv, NEW r \in Request, req[r].stage = "posting",
           NEW t, t = IF trackers[r] = None THEN NewTracker(FALSE) ELSE trackers[r]
    PROVE  t \in Tracker /\ t.buffered \subseteq 2 .. (LastEvent - 1) /\ t.terminal \in BOOLEAN
  <1>1. TrackerSound(req[r], trackers[r]) /\ trackers[r] \in Tracker \cup {None}
    BY Before
  <1>2. CASE trackers[r] = None
    <2>1. 0 \in 0 .. LastEvent
      BY HttpAssumption
    <2>2. NewTracker(FALSE) \in Tracker
      BY <2>1 DEF NewTracker, Tracker
    <2>3. t = NewTracker(FALSE) /\ t.buffered = {}
      BY <1>2 DEF NewTracker
    <2> QED BY <2>2, <2>3 DEF Tracker
  <1>3. CASE trackers[r] # None
    BY <1>1, <1>3 DEF TrackerSound, Tracker
  <1> QED BY <1>2, <1>3

\* The replay of early events, cut off anywhere, is in order.
LEMMA Replay ==
    ASSUME NEW R \in SUBSET (0 .. LastEvent), 0 \in R, NEW cut \in 0 .. Failure
    PROVE  LET sent == Ascending({s \in R : s = 0 \/ s < cut})
           IN  /\ sent \in Seq(0 .. Failure) /\ sent # <<>> /\ InOrder(sent)
               /\ \A i \in 1 .. Len(sent) : sent[i] <= Max(R)
  <1> DEFINE S == {s \in R : s = 0 \/ s < cut}
             sent == Ascending(S)
  <1>1. LastEvent \in Nat /\ Failure \in Nat /\ R \in SUBSET (0 .. Failure)
    BY HttpAssumption DEF Failure
  <1>2. S \in SUBSET (0 .. Failure) /\ 0 \in S /\ S \subseteq R
    BY <1>1
  <1>3. \A y \in R : y <= Max(R)
    BY <1>1, Largest
  <1> HIDE DEF S
  <1>4. /\ sent \in Seq(0 .. Failure) /\ sent # <<>> /\ sent[1] = 0
        /\ \A i \in 1 .. Len(sent) : sent[i] \in S
        /\ \A i \in 1 .. (Len(sent) - 1) : sent[i] < sent[i + 1]
    BY <1>1, <1>2, AscendingLists
  <1> HIDE DEF sent
  <1>5. \A i \in 1 .. Len(sent) : sent[i] <= Max(R)
    BY <1>2, <1>3, <1>4
  <1>6. InOrder(sent)
    BY <1>4 DEF InOrder
  <1> QED BY <1>4, <1>5, <1>6 DEF sent, S

LEMMA BeginTurnKeeps == ASSUME Inv, NEW r \in Request, BeginTurn(r) PROVE Inv'
  <1> DEFINE t == IF trackers[r] = None THEN NewTracker(FALSE) ELSE trackers[r]
             opens == req[r].streams /\ ~req[r].gone
             replay == {0} \cup t.buffered \cup (IF t.terminal THEN {LastEvent} ELSE {})
             sent(cut) == IF opens THEN Ascending({s \in replay : s = 0 \/ s < cut}) ELSE <<>>
  <1>1. req[r].stage = "posting" /\ ~closing /\ UNCHANGED <<conv, closing>>
    BY DEF BeginTurn
  <1>2. Heard(r) /\ acked' = acked
    BY NothingHeard DEF BeginTurn
  <1>3. PICK cut \in 0 .. Failure :
          /\ opens \/ cut = Failure
          /\ frames' = [frames EXCEPT ![r] = sent(cut)]
          /\ IF t.terminal
             THEN /\ trackers' = [trackers EXCEPT ![r] = None]
                  /\ req' = Finished(r, "terminal", req[r].streams)
                  /\ inFlight' = Freed(r)
             ELSE /\ trackers' = [trackers EXCEPT ![r] =
                         [NewTracker(FALSE) EXCEPT !.active = TRUE,
                                                   !.lastSequence = Max(replay)]]
                  /\ req' = [req EXCEPT ![r].stage = "waiting",
                                        ![r].stream = opens /\ cut = Failure]
                  /\ UNCHANGED inFlight
    BY DEF BeginTurn
  <1>4. t \in Tracker /\ t.buffered \subseteq 2 .. (LastEvent - 1) /\ t.terminal \in BOOLEAN
    BY <1>1, Early
  <1>5. /\ req[r] \in Call
        /\ r \in acked => TerminalWaits(r)
    BY Before
  <1>6. r \in acked => t.terminal
    BY <1>1, <1>5 DEF TerminalWaits
  <1>7. opens \in BOOLEAN /\ req[r].streams \in BOOLEAN
    BY <1>5 DEF Call
  <1>8. Open(r)
    BY <1>1 DEF Open
  <1> HIDE DEF t
  <1>9. replay \in SUBSET (0 .. LastEvent) /\ 0 \in replay
    BY <1>4, HttpAssumption
  <1>10. Max(replay) \in replay
    BY <1>9, Largest, HttpAssumption
  <1>11. ~t.terminal => Max(replay) \in 0 .. LastEvent /\ Max(replay) < LastEvent
    BY <1>4, <1>9, <1>10, HttpAssumption
  <1> HIDE DEF replay, opens
  <1>12. /\ sent(cut) \in Seq(0 .. Failure) /\ InOrder(sent(cut))
         /\ opens => sent(cut) # <<>>
         /\ \A i \in 1 .. Len(sent(cut)) : sent(cut)[i] <= Max(replay)
    <2>1. CASE opens
      BY <1>9, <2>1, Replay
    <2>2. CASE ~opens
      <3>1. sent(cut) = <<>>
        BY <2>2
      <3> HIDE DEF sent
      <3> QED BY <2>2, <3>1 DEF InOrder
    <2> QED BY <2>1, <2>2
  <1> DEFINE f == sent(cut)
  <1> HIDE DEF sent
  <1>13. CASE t.terminal
    <2>1. TrackerSound([stage |-> "done"], None)
      BY DEF TrackerSound
    <2> QED BY <1>1, <1>2, <1>3, <1>7, <1>8, <1>12, <1>13, <2>1, FinishedKeeps DEF Response
  <1>14. CASE ~t.terminal
    <2> DEFINE u == [NewTracker(FALSE) EXCEPT !.active = TRUE, !.lastSequence = Max(replay)]
               on == opens /\ cut = Failure
               q == [req[r] EXCEPT !.stage = "waiting", !.stream = on]
    <2>1. /\ u \in Tracker /\ u.active /\ u.buffered = {} /\ u.lastSequence = Max(replay)
      BY <1>11, <1>14 DEF NewTracker, Tracker
    <2>2. req' = [req EXCEPT ![r] = q]
      BY <1>3, <1>14 DEF Inv, TypeOK
    <2>3. on \in BOOLEAN /\ (on => f # <<>>)
      BY <1>7, <1>12
    <2> HIDE DEF on, f
    <2>4. q \in Call /\ q.stage = "waiting" /\ q.stream = on
      BY <1>5, <2>3 DEF Call
    <2>5. trackers' = [trackers EXCEPT ![r] = u] /\ frames' = [frames EXCEPT ![r] = f] /\ inFlight' = inFlight
      BY <1>3, <1>14 DEF f
    <2>6. /\ f \in Seq(0 .. Failure) /\ InOrder(f)
          /\ \A i \in 1 .. Len(f) : f[i] <= Max(replay)
      BY <1>12 DEF f
    <2>7. u # None
      BY <2>1, NoneAssumption
    <2> HIDE DEF q, u
    <2>8. TrackerSound(q, u)
      BY <1>11, <1>14, <2>1, <2>4, <2>7 DEF TrackerSound
    <2>9. StreamSound(q, u, f)
      BY <2>1, <2>3, <2>4, <2>6 DEF StreamSound
    <2>10. Sound(q, u, f)
      BY <2>1, <2>4, <2>6, <2>8, <2>9 DEF Sound
    <2>11. Opened(q)
      BY <2>4 DEF Opened
    <2>12. r \notin acked'
      BY <1>2, <1>6, <1>14
    <2> QED BY <1>1, <1>2, <1>8, <2>2, <2>4, <2>5, <2>10, <2>11, <2>12, RequestKeeps
  <1> QED BY <1>13, <1>14

-----------------------------------------------------------------------------
(***************************************************************************)
(* The arrival of an event.                                                *)
(***************************************************************************)

\* rememberEvent keeps its limit, and holds nothing but the new event and old ones.
LEMMA RememberedSound ==
    ASSUME Inv, NEW e \in Event, recent' = Remembered(e)
    PROVE  /\ recent' \in Seq(Event) /\ Len(recent') <= RecentLimit
           /\ \A i \in 1 .. Len(recent') :
                 recent'[i] = e \/ \E j \in 1 .. Len(recent) : recent'[i] = recent[j]
  <1> DEFINE longer == Append(recent, e)
  <1>1. /\ recent \in Seq(Event) /\ Len(recent) <= RecentLimit
        /\ RecentLimit \in Nat /\ Len(recent) \in Nat
    BY HttpAssumption DEF Inv, TypeOK
  <1>2. /\ longer \in Seq(Event) /\ Len(longer) = Len(recent) + 1
        /\ \A i \in 1 .. Len(longer) : longer[i] = e \/ \E j \in 1 .. Len(recent) : longer[i] = recent[j]
    <2>1. longer \in Seq(Event) /\ Len(longer) = Len(recent) + 1
      BY <1>1
    <2>2. ASSUME NEW i \in 1 .. Len(longer)
          PROVE  longer[i] = e \/ \E j \in 1 .. Len(recent) : longer[i] = recent[j]
      <3>1. CASE i = Len(recent) + 1
        BY <1>1, <3>1
      <3>2. CASE i # Len(recent) + 1
        <4>1. i \in 1 .. Len(recent)
          BY <1>1, <2>1, <3>2
        <4>2. longer[i] = recent[i]
          BY <1>1, <4>1
        <4> QED BY <4>1, <4>2
      <3> QED BY <3>1, <3>2
    <2> QED BY <2>1, <2>2
  <1>3. recent' = IF Len(longer) > RecentLimit THEN Tail(longer) ELSE longer
    BY DEF Remembered
  <1> HIDE DEF longer
  <1>4. CASE Len(longer) > RecentLimit
    <2>1. recent' = Tail(longer) /\ longer # <<>>
      BY <1>1, <1>2, <1>3, <1>4
    <2>2. /\ recent' \in Seq(Event) /\ Len(recent') = Len(longer) - 1
          /\ \A i \in 1 .. Len(recent') : recent'[i] = longer[i + 1]
      BY <1>2, <2>1, HeadTailProperties
    <2>3. \A i \in 1 .. Len(recent') : i + 1 \in 1 .. Len(longer)
      BY <1>1, <1>2, <2>2
    <2>4. Len(recent') <= RecentLimit
      BY <1>1, <1>2, <2>2
    <2>5. \A i \in 1 .. Len(recent') :
              recent'[i] = e \/ \E j \in 1 .. Len(recent) : recent'[i] = recent[j]
      BY <1>2, <2>2, <2>3
    <2> QED BY <2>2, <2>4, <2>5
  <1>5. CASE ~(Len(longer) > RecentLimit)
    <2>1. recent' = longer
      BY <1>3, <1>5
    <2> QED BY <1>1, <1>2, <1>5, <2>1
  <1> QED BY <1>4, <1>5

\* What handleCoreEvent records of an event.
LEMMA EventHeard ==
    ASSUME Inv, NEW e \in Event, e.turn \in core, delivered < MaxDeliveries, delivered' = delivered + 1,
           acked' = IF e.seq = LastEvent THEN acked \cup {e.turn} ELSE acked,
           recent' = Remembered(e), core' = core
    PROVE  Heard(e.turn)
  <1>1. delivered' \in 0 .. MaxDeliveries
    BY HttpAssumption DEF Inv, TypeOK
  <1>2. /\ recent' \in Seq(Event) /\ Len(recent') <= RecentLimit
        /\ \A i \in 1 .. Len(recent') :
              recent'[i] = e \/ \E j \in 1 .. Len(recent) : recent'[i] = recent[j]
    BY RememberedSound
  <1>3. acked \subseteq acked' /\ (e.seq = LastEvent => e.turn \in acked')
    BY Zenon
  <1>4. \A j \in 1 .. Len(recent) : recent[j].seq = LastEvent => recent[j].turn \in acked
    BY DEF Inv, EventsKnown
  <1>5. \A i \in 1 .. Len(recent') : recent'[i].seq = LastEvent => recent'[i].turn \in acked'
    BY <1>2, <1>3, <1>4
  <1>6. acked' \in {acked, acked \cup {e.turn}} /\ (e.turn \in acked' => e.turn \in core)
    OBVIOUS
  <1> QED BY <1>1, <1>2, <1>5, <1>6 DEF Heard

\* A repeated event changes nothing: if it is terminal, it was acknowledged before.
LEMMA RepeatedKeeps ==
    ASSUME Inv, NEW e \in Event, HandleCoreEvent(e), Contains(recent, e)
    PROVE  Inv'
  <1>1. PICK i \in 1 .. Len(recent) : recent[i] = e
    BY DEF Contains, Inv, TypeOK
  <1>2. e.seq = LastEvent => e.turn \in acked
    BY <1>1 DEF Inv, EventsKnown
  <1>3. acked' = acked
    BY <1>2 DEF HandleCoreEvent
  <1>4. delivered' \in 0 .. MaxDeliveries
    BY HttpAssumption DEF HandleCoreEvent, Inv, TypeOK
  <1>5. UNCHANGED <<conv, req, inFlight, trackers, recent, closing, core, frames>>
    BY DEF HandleCoreEvent
  <1>6. TypeOK' /\ OneTurnEach'
    BY <1>3, <1>4, <1>5 DEF Inv, TypeOK, OneTurnEach, OneTurnInFlight, Open
  <1>7. EventsKnown' /\ \A p \in acked' : TerminalWaits(p)'
    BY <1>3, <1>5 DEF Inv, EventsKnown, TerminalWaits
  <1>8. \A p \in Request : Sound(req'[p], trackers'[p], frames'[p])
    BY <1>5 DEF Inv
  <1> QED BY <1>6, <1>7, <1>8 DEF Inv

\* deliverEvent to an active turn.
LEMMA DeliverEventKeeps ==
    ASSUME Inv, NEW e \in Event, e.turn \in core, UNCHANGED <<conv, closing>>, Heard(e.turn),
           acked' = IF e.seq = LastEvent THEN acked \cup {e.turn} ELSE acked,
           trackers[e.turn] # None, trackers[e.turn].active, DeliverEvent(e)
    PROVE  Inv'
  <1> DEFINE r == e.turn
             t == trackers[r]
             f == frames[r]
  <1>1. r \in Request /\ e.seq \in 1 .. LastEvent
    BY DEF Event
  <1>2. /\ Sound(req[r], t, f) /\ req[r] \in Call /\ t \in Tracker /\ f \in Seq(0 .. Failure)
        /\ req = [req EXCEPT ![r] = req[r]]
        /\ trackers = [trackers EXCEPT ![r] = trackers[r]]
        /\ frames = [frames EXCEPT ![r] = frames[r]]
        /\ r \in acked => TerminalWaits(r)
    BY <1>1, Before
  <1>3. req[r].stage = "waiting"
    BY <1>2 DEF Sound, TrackerSound
  <1>4. Open(r) /\ Opened(req[r])
    BY <1>3 DEF Open, Opened
  <1>5. r \notin acked
    BY <1>2, <1>3 DEF TerminalWaits
  <1>6. CASE e.seq = LastEvent
    <2>1. Ended(r, "terminal", IF req[r].stream THEN <<LastEvent>> ELSE <<>>)
      BY <1>6 DEF DeliverEvent
    <2> QED BY <1>1, <1>3, <2>1, EndedKeeps DEF Response
  <1>7. CASE e.seq # LastEvent
    <2>1. r \notin acked'
      BY <1>5, <1>7
    <2>2. CASE e.seq <= t.lastSequence
      <3>1. UNCHANGED <<req, trackers, frames, inFlight>>
        BY <1>7, <2>2 DEF DeliverEvent
      <3>2. /\ req' = [req EXCEPT ![r] = req[r]] /\ trackers' = [trackers EXCEPT ![r] = t]
            /\ frames' = [frames EXCEPT ![r] = f]
        BY <1>2, <3>1
      <3> HIDE DEF r, t, f
      <3> QED BY <1>1, <1>2, <1>3, <1>4, <2>1, <3>1, <3>2, RequestKeeps, ZenonT(30) DEF r
    <2>3. CASE ~(e.seq <= t.lastSequence)
      <3> DEFINE shown == e.seq > 1 /\ req[r].stream
                 u == [t EXCEPT !.lastSequence = e.seq]
                 g == IF shown THEN Append(f, e.seq) ELSE f
      <3>1. /\ trackers' = [trackers EXCEPT ![r] = u] /\ frames' = [frames EXCEPT ![r] = g]
            /\ inFlight' = inFlight
            /\ UNCHANGED req \/ (shown /\ req' = [req EXCEPT ![r].stream = FALSE])
        <4>1. /\ trackers' = [trackers EXCEPT ![r].lastSequence = e.seq]
              /\ frames' = [frames EXCEPT ![r] = IF shown THEN Append(@, e.seq) ELSE @]
              /\ UNCHANGED req \/ (shown /\ req' = [req EXCEPT ![r].stream = FALSE])
              /\ inFlight' = inFlight
          BY <1>7, <2>3, Zenon DEF DeliverEvent
        <4>2. trackers' = [trackers EXCEPT ![r] = u]
          BY <4>1
        <4>3. frames' = [frames EXCEPT ![r] = g]
          BY <4>1, Zenon
        <4> QED BY <4>1, <4>2, <4>3
      <3>2. PICK q : /\ req' = [req EXCEPT ![r] = q] /\ q \in Call /\ q.stage = "waiting"
                     /\ q.stream => req[r].stream
        <4>1. CASE UNCHANGED req
          BY <1>2, <1>3, <4>1
        <4>2. CASE req' = [req EXCEPT ![r].stream = FALSE]
          <5> DEFINE d == [req[r] EXCEPT !.stream = FALSE]
          <5>1. req' = [req EXCEPT ![r] = d]
            BY <4>2 DEF Inv, TypeOK
          <5>2. d \in Call /\ d.stage = "waiting" /\ d.stream = FALSE
            BY <1>2, <1>3 DEF Call
          <5> QED BY <5>1, <5>2
        <4> QED BY <3>1, <4>1, <4>2
      <3>3. /\ e.seq \in 0 .. LastEvent /\ e.seq \in 0 .. Failure /\ e.seq < LastEvent
            /\ LastEvent \in Nat /\ e.seq \in Nat
        BY <1>1, <1>7, HttpAssumption DEF Failure
      <3>4. u \in Tracker /\ u.active /\ u.lastSequence = e.seq /\ u.buffered = t.buffered
        BY <1>2, <3>3 DEF Tracker
      <3>5. u # None
        BY <3>4, NoneAssumption
      <3>6. t.buffered \subseteq 2 .. (LastEvent - 1)
        BY <1>2 DEF Sound, TrackerSound
      <3>7. /\ f \in Seq(0 .. Failure) /\ InOrder(f)
            /\ \A i \in 1 .. Len(f) : f[i] <= t.lastSequence
            /\ req[r].stream => f # <<>>
        BY <1>2, <1>3 DEF Sound, StreamSound
      <3>8. t.lastSequence \in 0 .. LastEvent
        BY <1>2 DEF Tracker
      <3> HIDE DEF t, f, u
      <3>9. \A i \in 1 .. Len(f) : f[i] \in Int /\ f[i] < e.seq
        <4> SUFFICES ASSUME NEW i \in 1 .. Len(f) PROVE f[i] \in Int /\ f[i] < e.seq
          OBVIOUS
        <4>1. f[i] \in 0 .. Failure
          BY <3>7, ElementOfSeq
        <4>2. f[i] \in Int /\ f[i] <= t.lastSequence
          BY <3>7, <4>1 DEF Failure
        <4> QED BY <2>3, <3>3, <3>8, <4>2
      <3>10. /\ g \in Seq(0 .. Failure) /\ InOrder(g)
             /\ \A i \in 1 .. Len(g) : g[i] <= e.seq
             /\ req[r].stream => g # <<>>
        <4>1. CASE shown
          <5>1. g = Append(f, e.seq) /\ f # <<>>
            BY <3>7, <4>1
          <5> HIDE DEF g
          <5>2. Append(f, e.seq) \in Seq(0 .. Failure) /\ Append(f, e.seq) # <<>>
            BY <3>3, <3>7
          <5>3. InOrder(Append(f, e.seq))
            BY <3>3, <3>7, <3>9, <5>1 DEF InOrder
          <5>4. \A i \in 1 .. Len(Append(f, e.seq)) : Append(f, e.seq)[i] <= e.seq
            BY <3>3, <3>7, <3>9
          <5> QED BY <5>1, <5>2, <5>3, <5>4
        <4>2. CASE ~shown
          BY <3>3, <3>7, <3>9, <4>2
        <4> QED BY <4>1, <4>2
      <3> HIDE DEF g
      <3>11. TrackerSound(q, u)
        BY <3>2, <3>3, <3>4, <3>5, <3>6 DEF TrackerSound
      <3>12. StreamSound(q, u, g)
        BY <3>2, <3>4, <3>10 DEF StreamSound
      <3>13. Sound(q, u, g)
        BY <3>2, <3>4, <3>10, <3>11, <3>12 DEF Sound
      <3>14. Opened(q)
        BY <3>2 DEF Opened
      <3> HIDE DEF r
      <3> QED BY <1>1, <1>4, <2>1, <3>1, <3>2, <3>13, <3>14, RequestKeeps DEF r
    <2> QED BY <2>2, <2>3
  <1> QED BY <1>6, <1>7

\* An event of no active turn: a terminal one is always kept, and nothing else
\* changes.
LEMMA BufferEventKeeps ==
    ASSUME Inv, NEW e \in Event, e.turn \in core, UNCHANGED <<conv, closing>>, Heard(e.turn),
           acked' = IF e.seq = LastEvent THEN acked \cup {e.turn} ELSE acked,
           ~(trackers[e.turn] # None /\ trackers[e.turn].active),
           IF e.seq = 1 THEN UNCHANGED trackers ELSE BufferEvent(e),
           UNCHANGED <<req, frames, inFlight>>
    PROVE  Inv'
  <1> DEFINE r == e.turn
             q == req[r]
             f == frames[r]
             t == IF trackers[r] = None THEN NewTracker(TRUE) ELSE trackers[r]
             u == IF e.seq = 1 THEN trackers[r]
                  ELSE IF e.seq = LastEvent THEN [t EXCEPT !.terminal = TRUE]
                  ELSE IF Cardinality(t.buffered) >= EarlyLimit THEN t
                  ELSE [t EXCEPT !.buffered = @ \cup {e.seq}]
  <1>1. /\ r \in Request /\ e.seq \in 1 .. LastEvent /\ LastEvent \in Nat /\ LastEvent # 1
    BY HttpAssumption DEF Event
  <1>2. /\ Sound(q, trackers[r], f) /\ trackers[r] \in Tracker \cup {None}
        /\ TrackerSound(q, trackers[r]) /\ StreamSound(q, trackers[r], f)
        /\ req' = [req EXCEPT ![r] = q]
        /\ trackers = [trackers EXCEPT ![r] = trackers[r]]
        /\ frames' = [frames EXCEPT ![r] = f]
        /\ q.stage # "new"
        /\ r \in acked => TerminalWaits(r)
    BY <1>1, Before
  <1>3. q.stage # "waiting"
    BY <1>2 DEF TrackerSound
  <1>4. trackers' = [trackers EXCEPT ![r] = u]
    <2>1. CASE e.seq = 1
      BY <1>2, <2>1
    <2>2. CASE e.seq # 1
      BY <2>2 DEF BufferEvent
    <2> QED BY <2>1, <2>2
  <1>5. /\ t \in Tracker /\ t # None /\ ~t.active /\ t.timer
        /\ t.buffered \subseteq 2 .. (LastEvent - 1) /\ t.lastSequence < LastEvent
        /\ trackers[r] # None => t = trackers[r]
    <2>1. CASE trackers[r] = None
      <3>1. 0 \in 0 .. LastEvent /\ 0 < LastEvent
        BY <1>1
      <3>2. NewTracker(TRUE) \in Tracker
        BY <3>1 DEF NewTracker, Tracker
      <3>3. /\ t = NewTracker(TRUE) /\ t.buffered = {} /\ ~t.active /\ t.timer
            /\ t.lastSequence = 0
        BY <2>1 DEF NewTracker
      <3> QED BY <2>1, <3>1, <3>2, <3>3, NoneAssumption
    <2>2. CASE trackers[r] # None
      BY <1>2, <2>2 DEF TrackerSound
    <2> QED BY <2>1, <2>2
  <1> HIDE DEF t
  <1>6. /\ u \in Tracker \cup {None}
        /\ u # None => /\ ~u.active /\ u.timer
                       /\ u.buffered \subseteq 2 .. (LastEvent - 1) /\ u.lastSequence < LastEvent
        /\ trackers[r] # None => u # None /\ (trackers[r].terminal => u.terminal)
        /\ e.seq = LastEvent => u # None /\ u.terminal
    <2>1. CASE e.seq = 1
      <3>1. u = trackers[r] /\ e.seq # LastEvent
        BY <1>1, <2>1
      <3> HIDE DEF u
      <3> QED BY <1>2, <1>5, <3>1
    <2>2. CASE e.seq = LastEvent
      <3>1. u = [t EXCEPT !.terminal = TRUE]
        BY <1>1, <2>2
      <3> HIDE DEF u
      <3>2. /\ u \in Tracker /\ u.active = t.active /\ u.timer = t.timer
            /\ u.buffered = t.buffered /\ u.lastSequence = t.lastSequence /\ u.terminal
        BY <1>5, <3>1 DEF Tracker
      <3> QED BY <1>5, <3>2, NoneAssumption
    <2>3. CASE e.seq # 1 /\ e.seq # LastEvent
      <3>1. CASE Cardinality(t.buffered) >= EarlyLimit
        <4>1. u = t
          BY <2>3, <3>1
        <4> HIDE DEF u
        <4> QED BY <1>5, <2>3, <4>1
      <3>2. CASE ~(Cardinality(t.buffered) >= EarlyLimit)
        <4>1. u = [t EXCEPT !.buffered = t.buffered \cup {e.seq}]
          BY <2>3, <3>2
        <4> HIDE DEF u
        <4>2. t.buffered \cup {e.seq} \subseteq 2 .. (LastEvent - 1)
          BY <1>1, <1>5, <2>3
        <4>3. t.buffered \cup {e.seq} \in SUBSET (1 .. LastEvent)
          BY <1>1, <4>2
        <4>4. /\ u \in Tracker /\ u.active = t.active /\ u.timer = t.timer
              /\ u.buffered = t.buffered \cup {e.seq} /\ u.lastSequence = t.lastSequence
              /\ u.terminal = t.terminal
          BY <1>5, <4>1, <4>3 DEF Tracker
        <4> QED BY <1>5, <2>3, <4>2, <4>4, NoneAssumption
      <3> QED BY <3>1, <3>2
    <2> QED BY <2>1, <2>2, <2>3
  <1> HIDE DEF u
  <1>7. Sound(q, u, f)
    <2>1. TrackerSound(q, u)
      BY <1>3, <1>6 DEF TrackerSound
    <2>2. StreamSound(q, u, f)
      BY <1>2, <1>3 DEF StreamSound
    <2> QED BY <1>2, <1>6, <2>1, <2>2 DEF Sound
  <1>8. Opened(q) <=> Open(r)
    BY DEF Opened, Open
  <1>9. r \in acked' => /\ q.stage # "waiting"
                        /\ q.stage = "posting" /\ ~closing => u # None /\ u.terminal
    <2>1. CASE e.seq = LastEvent
      BY <1>3, <1>6, <2>1
    <2>2. CASE e.seq # LastEvent
      <3>1. acked' = acked
        BY <2>2
      <3> QED BY <1>2, <1>3, <1>6, <3>1 DEF TerminalWaits
    <2> QED BY <2>1, <2>2
  <1> HIDE DEF q, f
  <1> QED BY <1>1, <1>2, <1>4, <1>7, <1>8, <1>9, RequestKeeps

LEMMA HandleCoreEventKeeps == ASSUME Inv, NEW e \in Event, HandleCoreEvent(e) PROVE Inv'
  <1>1. CASE Contains(recent, e)
    BY <1>1, RepeatedKeeps
  <1>2. CASE ~Contains(recent, e)
    <2>1. AcceptEvent(e) /\ recent' = Remembered(e)
      BY <1>2 DEF HandleCoreEvent
    <2>2. /\ e.turn \in core /\ delivered < MaxDeliveries /\ delivered' = delivered + 1
          /\ acked' = IF e.seq = LastEvent THEN acked \cup {e.turn} ELSE acked
          /\ core' = core /\ UNCHANGED <<conv, closing>>
      BY DEF HandleCoreEvent
    <2>3. Heard(e.turn)
      BY <2>1, <2>2, EventHeard
    <2>4. CASE trackers[e.turn] # None /\ trackers[e.turn].active
      BY <2>1, <2>2, <2>3, <2>4, DeliverEventKeeps DEF AcceptEvent
    <2>5. CASE ~(trackers[e.turn] # None /\ trackers[e.turn].active)
      BY <2>1, <2>2, <2>3, <2>5, BufferEventKeeps DEF AcceptEvent
    <2> QED BY <2>4, <2>5
  <1> QED BY <1>1, <1>2

\* close(): the waiting requests end, the posting ones find the adapter closing.
LEMMA CloseKeeps == ASSUME Inv, Close PROVE Inv'
  <1>1. /\ closing' = TRUE /\ trackers' = [r \in Request |-> None]
        /\ inFlight' = {} /\ recent' = <<>> /\ UNCHANGED <<conv, core, delivered, acked, frames>>
    BY DEF Close, network
  <1>2. ASSUME NEW r \in Request
        PROVE  /\ req'[r] \in Call
               /\ req[r].stage # "waiting" => req'[r] = req[r]
               /\ req[r].stage = "waiting" => req'[r].stage = "done" /\ req'[r].stream = FALSE
    <2>1. req[r] \in Call /\ req \in [Request -> Call]
      BY DEF Inv, TypeOK
    <2>2. CASE req[r].stage # "waiting"
      BY <2>1, <2>2 DEF Close
    <2>3. CASE req[r].stage = "waiting"
      <3> DEFINE w == IF req[r].gone \/ req[r].streams THEN "unsent" ELSE "shutdown"
                 q == [req[r] EXCEPT !.stage = "done", !.stream = FALSE, !.response = w]
      <3>1. w \in Response
        BY DEF Response
      <3>2. req'[r] = q
        BY <2>1, <2>3 DEF Close, Finished
      <3> HIDE DEF w
      <3>3. q \in Call /\ q.stage = "done" /\ q.stream = FALSE
        BY <2>1, <3>1 DEF Call
      <3> QED BY <2>3, <3>2, <3>3
    <2> QED BY <2>2, <2>3
  <1>3. req' \in [Request -> Call]
    <2>1. req' = [r \in Request |-> req'[r]]
      BY DEF Close
    <2> QED BY <1>2, <2>1
  <1>4. ASSUME NEW r \in Request PROVE Sound(req'[r], trackers'[r], frames'[r])
    <2>1. trackers'[r] = None /\ frames'[r] = frames[r] /\ Sound(req[r], trackers[r], frames[r])
      BY <1>1 DEF Inv
    <2>2. TrackerSound(req'[r], None)
      BY <1>2 DEF TrackerSound
    <2>3. StreamSound(req'[r], None, frames[r])
      BY <1>2, <2>1 DEF Sound, StreamSound
    <2> QED BY <1>2, <2>1, <2>2, <2>3 DEF Sound
  <1>5. TypeOK'
    BY <1>1, <1>3, HttpAssumption DEF Inv, TypeOK
  <1>8. OneTurnEach'
    BY <1>1 DEF OneTurnEach
  <1>9. EventsKnown'
    <2>1. \A p \in core' : req'[p].stage # "new"
      <3>1. \A p \in core : p \in Request /\ req[p].stage # "new"
        BY DEF Inv, EventsKnown, TypeOK
      <3> QED BY <1>1, <1>2, <3>1
    <2>2. acked' \subseteq core'
      BY <1>1 DEF Inv, EventsKnown
    <2>3. Len(recent') = 0
      BY <1>1
    <2> QED BY <2>1, <2>2, <2>3 DEF EventsKnown
  <1>10. \A p \in acked' : TerminalWaits(p)'
    BY <1>1, <1>2 DEF Inv, TerminalWaits, TypeOK
  <1> QED BY <1>4, <1>5, <1>8, <1>9, <1>10 DEF Inv

-----------------------------------------------------------------------------
(***************************************************************************)
(* The theorems.                                                           *)
(***************************************************************************)

LEMMA InitSound == ASSUME Init PROVE Inv
  <1> DEFINE q == [stage |-> "new", streams |-> FALSE, stream |-> FALSE, gone |-> FALSE,
                   response |-> "none"]
  <1>1. q \in Call
    BY DEF Call, Response
  <1>2. /\ req = [r \in Request |-> q] /\ trackers = [r \in Request |-> None]
        /\ frames = [r \in Request |-> <<>>] /\ inFlight = {} /\ recent = <<>>
        /\ core = {} /\ acked = {} /\ closing = FALSE /\ delivered = 0 /\ conv \in Assignments
    BY DEF Init
  <1>3. TypeOK
    <2>1. recent \in Seq(Event) /\ Len(recent) <= RecentLimit
      BY <1>2, HttpAssumption
    <2>2. delivered \in 0 .. MaxDeliveries
      BY <1>2, HttpAssumption
    <2>3. frames \in [Request -> Seq(0 .. Failure)]
      BY <1>2
    <2>4. req \in [Request -> Call] /\ trackers \in [Request -> Tracker \cup {None}]
      BY <1>1, <1>2
    <2> QED BY <1>2, <2>1, <2>2, <2>3, <2>4 DEF TypeOK
  <1>4. q.stage = "new" /\ q.stream = FALSE
    OBVIOUS
  <1> HIDE DEF q
  <1>5. \A r \in Request : Sound(req[r], trackers[r], frames[r])
    BY <1>1, <1>2, <1>4 DEF Sound, TrackerSound, StreamSound, InOrder
  <1>6. \A r \in Request : ~Open(r)
    BY <1>2, <1>4 DEF Open
  <1>7. OneTurnEach /\ EventsKnown
    BY <1>2, <1>6 DEF OneTurnEach, OneTurnInFlight, EventsKnown
  <1> QED BY <1>2, <1>3, <1>5, <1>7 DEF Inv

LEMMA NextKeeps == ASSUME Inv, [Next]_vars PROVE Inv'
  <1>1. CASE UNCHANGED vars
    BY <1>1 DEF vars, Inv, TypeOK, OneTurnEach, OneTurnInFlight, Open, EventsKnown, TerminalWaits
  <1>2. CASE Close
    BY <1>2, CloseKeeps
  <1>3. CASE \E e \in Event : HandleCoreEvent(e)
    BY <1>3, HandleCoreEventKeeps
  <1>4. CASE \E r \in Request :
                \/ Refuse(r) \/ PostFails(r) \/ PostTooLate(r) \/ BeginTurn(r)
                \/ TurnTimeout(r) \/ Disconnect(r) \/ EarlyExpires(r) \/ CoreAccepts(r)
                \/ \E streams \in BOOLEAN : HandleMessage(r, streams)
    BY <1>4, RefuseKeeps, PostFailsKeeps, PostTooLateKeeps, BeginTurnKeeps, TurnTimeoutKeeps,
       DisconnectKeeps, EarlyExpiresKeeps, CoreAcceptsKeeps, HandleMessageKeeps
  <1> QED BY <1>1, <1>2, <1>3, <1>4 DEF Next

\* A turn begins only before close(), which ends the waiting ones.
LEMMA NoneWaitsNext ==
    ASSUME Inv, NoneWaits, [Next]_vars
    PROVE  NoneWaits'
  <1>1. req \in [Request -> Call]
    BY DEF Inv, TypeOK
  <1>2. CASE Close
    <2>1. ASSUME NEW r \in Request PROVE req'[r].stage # "waiting"
      <3>1. CASE req[r].stage = "waiting"
        BY <1>1, <1>2, <3>1 DEF Close, Finished, Call
      <3>2. CASE req[r].stage # "waiting"
        BY <1>2, <3>2 DEF Close
      <3> QED BY <3>1, <3>2
    <2> QED BY <2>1 DEF NoneWaits
  <1>3. CASE \E r \in Request : BeginTurn(r)
    BY <1>3 DEF BeginTurn, NoneWaits
  <1>4. ASSUME closing' = closing, \A p \in Request : req'[p].stage = "waiting" => req[p].stage = "waiting"
        PROVE  NoneWaits'
    BY <1>4 DEF NoneWaits
  <1>5. CASE UNCHANGED vars
    BY <1>4, <1>5 DEF vars
  <1>6. ASSUME NEW r \in Request, NEW response \in Response, NEW streamed \in BOOLEAN,
               req' = Finished(r, response, streamed), closing' = closing
        PROVE  NoneWaits'
    BY <1>1, <1>4, <1>6 DEF Finished, Call
  <1>7. ASSUME NEW e \in Event, HandleCoreEvent(e)
        PROVE  NoneWaits'
    <2>1. e.turn \in Request /\ closing' = closing
      BY <1>7 DEF Event, HandleCoreEvent
    <2>2. CASE req' = req
      BY <1>4, <2>1, <2>2
    <2>3. CASE req' = Finished(e.turn, "terminal", req[e.turn].streams)
      <3>1. req[e.turn].streams \in BOOLEAN /\ "terminal" \in Response
        BY <1>1, <2>1 DEF Call, Response
      <3> QED BY <1>6, <2>1, <2>3, <3>1
    <2>4. CASE req' = [req EXCEPT ![e.turn].stream = FALSE]
      BY <1>1, <1>4, <2>1, <2>4 DEF Call
    <2> QED BY <1>7, <2>2, <2>3, <2>4 DEF HandleCoreEvent, AcceptEvent, DeliverEvent, Ended
  <1>8. ASSUME NEW r \in Request, Refuse(r) \/ Disconnect(r) \/ EarlyExpires(r) \/ CoreAccepts(r)
                                   \/ \E streams \in BOOLEAN : HandleMessage(r, streams)
        PROVE  NoneWaits'
    <2>1. closing' = closing
      BY <1>8 DEF Refuse, Disconnect, EarlyExpires, CoreAccepts, HandleMessage
    <2>2. \A p \in Request : req'[p].stage = "waiting" => req[p].stage = "waiting"
      BY <1>1, <1>8 DEF Refuse, Disconnect, EarlyExpires, CoreAccepts, HandleMessage, Call
    <2> QED BY <1>4, <2>1, <2>2
  <1>9. ASSUME NEW r \in Request, PostFails(r) \/ PostTooLate(r) \/ TurnTimeout(r)
        PROVE  NoneWaits'
    <2>1. closing' = closing /\ req[r].streams \in BOOLEAN
      BY <1>1, <1>9 DEF PostFails, PostTooLate, TurnTimeout, Call
    <2>2. \E response \in Response, streamed \in BOOLEAN : req' = Finished(r, response, streamed)
      BY <1>9, <2>1 DEF PostFails, PostTooLate, TurnTimeout, Ended, Response
    <2> QED BY <1>6, <2>1, <2>2
  <1> QED BY <1>2, <1>3, <1>5, <1>7, <1>8, <1>9 DEF Next

\* In every reachable state of the adapter, for every number of requests and
\* every limit: each request, its tracker and its stream agree, the marks are those
\* of the open requests until a close, and an acknowledged terminal event is kept.
THEOREM InvariantHolds == Spec => []Inv
  <1>1. Init => Inv
    BY InitSound
  <1>2. Inv /\ [Next]_vars => Inv'
    BY NextKeeps
  <1> QED BY <1>1, <1>2, PTL DEF Spec

\* Until close() no error path of handleMessage leaves a conversation locked or
\* unlocks one that another request holds; after it no request waits for a turn;
\* and every tracker has an owner or an expiry timer.
THEOREM ConsistentHolds == Spec => []Consistent
  <1>1. Inv /\ NoneWaits => Consistent
    BY DEF Inv, Sound, TrackerSound, Consistent, TrackersOwned
  <1>2. Init => NoneWaits
    BY DEF Init, NoneWaits
  <1>3. Inv /\ NoneWaits /\ [Next]_vars => NoneWaits'
    BY NoneWaitsNext
  <1> QED BY <1>1, <1>2, <1>3, InvariantHolds, PTL DEF Spec

\* A terminal event that handleCoreEvent answered with 200 is never waited for
\* again, whether it came before, during or after the post's answer.
THEOREM TerminalKeptHolds == Spec => []TerminalKept
  <1>1. Inv => TerminalKept
    BY DEF Inv, TerminalWaits, TerminalKept
  <1> QED BY <1>1, InvariantHolds, PTL

\* A streaming client sees the acceptance first, then every event at most once and
\* in order, and nothing after the frame that ends its turn.
THEOREM StreamOrderedHolds == Spec => []StreamOrdered
  <1>1. ASSUME Inv, NEW r \in Request, Open(r)
        PROVE  ~Contains(frames[r], LastEvent) /\ ~Contains(frames[r], Failure)
    <2>1. Sound(req[r], trackers[r], frames[r])
      BY <1>1 DEF Inv
    <2>2. CASE req[r].stage = "posting"
      BY <2>1, <2>2 DEF Sound, StreamSound, Contains
    <2>3. CASE req[r].stage = "waiting"
      <3>1. /\ trackers[r] \in Tracker /\ trackers[r].lastSequence < LastEvent
            /\ \A i \in 1 .. Len(frames[r]) : frames[r][i] <= trackers[r].lastSequence
        BY <2>1, <2>3 DEF Sound, TrackerSound, StreamSound
      <3>2. trackers[r].lastSequence \in 0 .. LastEvent /\ LastEvent \in Nat
        BY <3>1, HttpAssumption DEF Tracker
      <3>3. \A i \in 1 .. Len(frames[r]) : frames[r][i] # LastEvent /\ frames[r][i] # Failure
        BY <3>1, <3>2 DEF Failure
      <3> QED BY <3>3 DEF Contains
    <2> QED BY <1>1, <2>2, <2>3 DEF Open
  <1>2. Inv => StreamOrdered
    <2> SUFFICES ASSUME Inv, NEW r \in Request
                 PROVE  /\ InOrder(frames[r])
                        /\ Contains(frames[r], LastEvent) \/ Contains(frames[r], Failure) => ~Open(r)
      BY DEF StreamOrdered, InOrder
    <2>1. InOrder(frames[r])
      BY DEF Inv, Sound, StreamSound
    <2> QED BY <1>1, <2>1
  <1> QED BY <1>2, InvariantHolds, PTL
=============================================================================
