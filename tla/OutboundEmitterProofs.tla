------------------------ MODULE OutboundEmitterProofs ------------------------
(***************************************************************************)
(* Proofs about OutboundEmitter, for every set of messages, every retry    *)
(* schedule, and every number of deltas, duplicates and crashes: that a    *)
(* correlation has one answer, that the retry schedule bounds its POSTs,   *)
(* and that the two databases implement AnswerDelivery.                    *)
(***************************************************************************)
EXTENDS OutboundEmitter, OrderProofs, SequenceTheorems

-----------------------------------------------------------------------------
(***************************************************************************)
(* The inductive invariant.  The outbox is the place to look: every        *)
(* terminal event that is queued or was accepted has its row there, it is  *)
(* the last row, and the store retains it if it is an answer.              *)
(***************************************************************************)

Terminal(ev) == ev.type \in TerminalType

NoTerminal(s) == \A i \in 1 .. Len(s) : ~Terminal(s[i].event)

TerminalLast(s) == \A i \in 1 .. Len(s) : Terminal(s[i].event) => i = Len(s)

\* A terminal event has its row, the last one.
Recorded(ev, ob) == Terminal(ev) => ob # <<>> /\ ev = ob[Len(ob)].event

\* A job in flight is the first of its queue and has an attempt left; an
\* acknowledged one was accepted; the events of the queue are recorded.
EmitterSound(s, ob, rec) ==
    /\ s \in EmitterState
    /\ s.flight # "none" => s.queue # <<>> /\ s.queue[1].attempt < TotalPosts
    /\ s.flight = "acked" => s.queue[1].event \in rec
    /\ TerminalLast(s.queue)
    /\ \A i \in 1 .. Len(s.queue) : Recorded(s.queue[i].event, ob)

OutboxSound(ob, rec) ==
    /\ ob \in Seq(OutboxRow)
    /\ TerminalLast(ob)
    /\ \A i \in 1 .. Len(ob) : ob[i].status = "delivered" => ob[i].event \in rec

Answers == [no : 1..(MaxDeltas + 3), type : AnswerType]

\* The rows of the messages agree.
RowsSound(rs) ==
    /\ rs \in [Message -> RowType({"own"}, Event) \cup {NoRow}]
    /\ rs[Opener] = NoRow => rs = EmptyStore
    /\ \A m \in Message : rs[m] # NoRow =>
          /\ rs[m].corr = Opener
          /\ rs[m].response = rs[Opener].response /\ rs[m].delivery = rs[Opener].delivery
          /\ SchemaHolds(rs[m])
          /\ rs[m].delivery # "pending" => rs[m].ingest = "completed"
          /\ rs[m].response \in Answers \cup {NoResponse}

Undecided(rs) == rs[Opener] = NoRow \/ rs[Opener].response = NoResponse

\* What the last row of the outbox says about the store.
StoresAgree(rs, ob) ==
    /\ rs[Opener] = NoRow => ob = <<>>
    /\ \A i \in 1 .. Len(ob) :
          /\ ob[i].event.type \in AnswerType =>
                rs[Opener] # NoRow /\ rs[Opener].response = ob[i].event
          /\ ob[i].event.type = "turn.cancelled" =>
                Undecided(rs) /\ \A m \in Message : ~IngestPending(rs, m)
          /\ Undecided(rs) /\ ~Terminal(ob[i].event) => ob[i].event.no <= MaxDeltas + 1

\* While the turn lasts nothing is decided, and its numbers are those of its
\* start and of its deltas.
TurnSound ==
    /\ left.deltas <= MaxDeltas
    /\ active = "turn" =>
          /\ rows[Opener] # NoRow /\ Undecided(rows) /\ NoTerminal(outbox)
          /\ em["turn"].seq + left.deltas <= MaxDeltas + (IF em["turn"].started THEN 1 ELSE 0)

DownQuiet == ~up => active = None /\ \A e \in Emitter : em[e] = Closed

\* The POSTs of the terminal event that an emitter may still make without a
\* further redelivery, and whether one is under way.
LastJob(s) == s.queue[Len(s.queue)]

HasTerminal(s) == s.queue # <<>> /\ Terminal(LastJob(s).event)

Posting(s) == IF s.flight # "none" /\ Terminal(s.queue[1].event) THEN 1 ELSE 0

PostsLeft(s) == IF HasTerminal(s) THEN TotalPosts - LastJob(s).attempt - Posting(s) ELSE 0

\* What the schedules allow covers what the emitters may still post, and what a
\* restart would post.
PostsCovered ==
    /\ posted + PostsLeft(em["turn"]) + PostsLeft(em["again"]) <= allowed
    /\ outbox # <<>> /\ Terminal(outbox[Len(outbox)].event)
          /\ outbox[Len(outbox)].status = "pending" =>
       posted + (TotalPosts - outbox[Len(outbox)].attempts)
          <= allowed + Posting(em["turn"]) + Posting(em["again"])
    /\ NoTerminal(outbox) => posted = 0
    /\ TotalPosts <= allowed

Inv ==
    /\ TypeOK
    /\ RowsSound(rows)
    /\ OutboxSound(outbox, received)
    /\ StoresAgree(rows, outbox)
    /\ \A e \in Emitter : EmitterSound(em[e], outbox, received)
    /\ \A ev \in received : Recorded(ev, outbox)
    /\ TurnSound
    /\ DownQuiet
    /\ PostsCovered

-----------------------------------------------------------------------------
(***************************************************************************)
(* The operators of the idempotency store.                                 *)
(***************************************************************************)

Row == RowType({"own"}, Event)

LEMMA Constants ==
    /\ Opener \in Message /\ TotalPosts \in Nat /\ TotalPosts # 0
    /\ MaxDeltas \in Nat /\ MaxDups \in Nat /\ MaxCrashes \in Nat
    /\ NoRow \notin Row /\ NoResponse \notin Event
    /\ None # "turn" /\ None # "again"
  BY OutboxAssumption, MarkerAssumption DEF Row, Emitter

\* An answer is an event, and not the mark of a missing response.
LEMMA AnswerIsEvent ==
    ASSUME NEW ev \in Answers
    PROVE  ev \in Event /\ ev # NoResponse /\ Terminal(ev) /\ ev.type \in AnswerType
  <1>1. ev \in Event
    BY Constants DEF Answers, Event, AnswerType, DurableType, TerminalType
  <1> QED BY <1>1, Constants DEF Answers, Terminal, TerminalType

\* The rows keep their messages, their responses and their ingest states.
RowsKept(rs, rt) ==
    \A m \in Message :
        /\ rt[m] = NoRow <=> rs[m] = NoRow
        /\ rs[m] # NoRow => rt[m].response = rs[m].response /\ rt[m].ingest = rs[m].ingest

\* The update of a delivery state, of all the rows of the correlation or of none.
LEMMA DeliveryUpdate ==
    ASSUME NEW rs, RowsSound(rs), NEW From \in SUBSET (DeliveryState \ {"pending"}),
           NEW d \in DeliveryState \ {"pending"}, NEW rt,
           rt = [m \in Message |-> IF m \in Siblings(rs, Opener) /\ rs[m].delivery \in From
                                   THEN [rs[m] EXCEPT !.delivery = d] ELSE rs[m]]
    PROVE  /\ RowsSound(rt) /\ RowsKept(rs, rt)
           /\ rs[Opener] # NoRow =>
                 rt[Opener].delivery = IF rs[Opener].delivery \in From THEN d ELSE rs[Opener].delivery
  <1>1. \A m \in Message : rs[m] \in Row \cup {NoRow}
    BY DEF RowsSound, Row
  <1>2. \A m \in Message : m \in Siblings(rs, Opener) <=> rs[m] # NoRow
    BY DEF RowsSound, Siblings, Rows
  <1>3. ASSUME NEW m \in Message, rs[m] # NoRow
        PROVE  /\ rt[m] \in Row /\ rt[m] # NoRow
               /\ rt[m].corr = rs[m].corr /\ rt[m].response = rs[m].response
               /\ rt[m].ingest = rs[m].ingest
               /\ rt[m].delivery = IF rs[m].delivery \in From THEN d ELSE rs[m].delivery
    <2>1. rs[m] \in Row /\ m \in Siblings(rs, Opener)
      BY <1>1, <1>2, <1>3
    <2>2. CASE rs[m].delivery \in From
      <3>1. rt[m] = [rs[m] EXCEPT !.delivery = d]
        BY <2>1, <2>2
      <3>2. /\ rt[m] \in Row
            /\ rt[m].corr = rs[m].corr /\ rt[m].response = rs[m].response
            /\ rt[m].ingest = rs[m].ingest /\ rt[m].delivery = d
        BY <2>1, <3>1 DEF Row, RowType
      <3> QED BY <2>2, <3>2, Constants
    <2>3. CASE rs[m].delivery \notin From
      BY <2>1, <2>3, Constants
    <2> QED BY <2>2, <2>3
  <1>4. \A m \in Message : rs[m] = NoRow => rt[m] = NoRow
    BY <1>2
  <1>5. RowsKept(rs, rt)
    BY <1>3, <1>4 DEF RowsKept
  <1>6. rt \in [Message -> Row \cup {NoRow}]
    <2>1. \A m \in Message : rt[m] \in Row \cup {NoRow}
      BY <1>3, <1>4
    <2>2. rt = [m \in Message |-> rt[m]]
      OBVIOUS
    <2> QED BY <2>1, <2>2
  <1>7. rt[Opener] = NoRow => rt = EmptyStore
    <2>1. ASSUME rt[Opener] = NoRow PROVE rt = EmptyStore
      <3>1. rs = EmptyStore
        BY <1>5, <2>1, Constants DEF RowsKept, RowsSound
      <3>2. \A m \in Message : rt[m] = NoRow
        BY <1>4, <3>1 DEF EmptyStore
      <3> QED BY <1>6, <3>2 DEF EmptyStore
    <2> QED BY <2>1
  <1>8. ASSUME NEW m \in Message, rt[m] # NoRow
        PROVE  /\ rt[m].corr = Opener
               /\ rt[m].response = rt[Opener].response /\ rt[m].delivery = rt[Opener].delivery
               /\ SchemaHolds(rt[m])
               /\ rt[m].delivery # "pending" => rt[m].ingest = "completed"
               /\ rt[m].response \in Answers \cup {NoResponse}
    <2>1. rs[m] # NoRow /\ rs[Opener] # NoRow
      BY <1>4, <1>8 DEF RowsSound, EmptyStore
    <2>2. /\ rs[m].corr = Opener
          /\ rs[m].response = rs[Opener].response /\ rs[m].delivery = rs[Opener].delivery
          /\ (rs[m].delivery = "pending") <=> (rs[m].response = NoResponse)
          /\ rs[m].delivery # "pending" => rs[m].ingest = "completed"
          /\ rs[m].response \in Answers \cup {NoResponse}
      BY <2>1 DEF RowsSound, SchemaHolds
    <2>3. rt[m].delivery = "pending" <=> rs[m].delivery = "pending"
      BY <1>3, <2>1
    <2>4. rt[m].delivery = rt[Opener].delivery /\ rt[m].response = rt[Opener].response
      <3>1. /\ rt[Opener].delivery = IF rs[Opener].delivery \in From THEN d ELSE rs[Opener].delivery
            /\ rt[Opener].response = rs[Opener].response
        BY <1>3, <2>1, Constants
      <3>2. /\ rt[m].delivery = IF rs[m].delivery \in From THEN d ELSE rs[m].delivery
            /\ rt[m].response = rs[m].response
        BY <1>3, <2>1
      <3> QED BY <2>2, <3>1, <3>2
    <2>5. rt[m].corr = Opener /\ rt[m].response = rs[m].response /\ rt[m].ingest = rs[m].ingest
      BY <1>3, <2>1, <2>2
    <2>6. SchemaHolds(rt[m])
      BY <2>2, <2>3, <2>5 DEF SchemaHolds
    <2> QED BY <2>2, <2>3, <2>4, <2>5, <2>6
  <1>9. RowsSound(rt)
    BY <1>6, <1>7, <1>8 DEF RowsSound, Row
  <1> QED BY <1>3, <1>5, <1>9, Constants

\* The hooks of a delivery and of a failure.
LEMMA DeliveredRows ==
    ASSUME RowsSound(rows), NEW ev
    PROVE  /\ RowsSound(Delivered(ev)) /\ RowsKept(rows, Delivered(ev))
           /\ rows[Opener] # NoRow =>
                 Delivered(ev)[Opener].delivery =
                    IF ev.type \in AnswerType /\ rows[Opener].delivery \in {"saved", "failed"}
                    THEN "sent" ELSE rows[Opener].delivery
  <1>1. CASE ev.type \in AnswerType
    <2> DEFINE From == {"saved", "failed"}
               rt == Delivered(ev)
    <2>1. rt = [m \in Message |-> IF m \in Siblings(rows, Opener) /\ rows[m].delivery \in From
                                  THEN [rows[m] EXCEPT !.delivery = "sent"] ELSE rows[m]]
      BY <1>1 DEF Delivered, CorrelationSent
    <2>2. From \in SUBSET (DeliveryState \ {"pending"}) /\ "sent" \in DeliveryState \ {"pending"}
      BY DEF DeliveryState
    <2> HIDE DEF From, rt
    <2>3. /\ RowsSound(rt) /\ RowsKept(rows, rt)
          /\ rows[Opener] # NoRow =>
                rt[Opener].delivery = IF rows[Opener].delivery \in From THEN "sent" ELSE rows[Opener].delivery
      BY <2>1, <2>2, DeliveryUpdate
    <2> QED BY <1>1, <2>3 DEF From, rt
  <1>2. CASE ev.type \notin AnswerType
    BY <1>2 DEF Delivered, RowsKept
  <1> QED BY <1>1, <1>2

LEMMA FailedRows ==
    ASSUME RowsSound(rows), NEW ev
    PROVE  /\ RowsSound(Failed(ev)) /\ RowsKept(rows, Failed(ev))
           /\ rows[Opener] # NoRow =>
                 Failed(ev)[Opener].delivery =
                    IF ev.type \in AnswerType /\ rows[Opener].delivery = "saved"
                    THEN "failed" ELSE rows[Opener].delivery
  <1>1. CASE ev.type \in AnswerType
    <2> DEFINE From == {"saved"}
               d == "failed"
               rt == Failed(ev)
    <2>1. rt = [m \in Message |-> IF m \in Siblings(rows, Opener) /\ rows[m].delivery \in From
                                  THEN [rows[m] EXCEPT !.delivery = d] ELSE rows[m]]
      BY <1>1 DEF Failed, CorrelationFailed
    <2>2. From \in SUBSET (DeliveryState \ {"pending"}) /\ d \in DeliveryState \ {"pending"}
      BY DEF DeliveryState
    <2> HIDE DEF From, d, rt
    <2>3. /\ RowsSound(rt) /\ RowsKept(rows, rt)
          /\ rows[Opener] # NoRow =>
                rt[Opener].delivery = IF rows[Opener].delivery \in From THEN d ELSE rows[Opener].delivery
      BY <2>1, <2>2, DeliveryUpdate
    <2> QED BY <1>1, <2>3 DEF From, d, rt
  <1>2. CASE ev.type \notin AnswerType
    BY <1>2 DEF Failed, RowsKept
  <1> QED BY <1>1, <1>2

\* saveResponseForCorrelation decides the correlation, for all its messages.
LEMMA SavedRows ==
    ASSUME RowsSound(rows), rows[Opener] # NoRow, Undecided(rows), NEW ev \in Answers
    PROVE  /\ RowsSound(SaveForCorrelation(rows, Opener, ev))
           /\ SaveForCorrelation(rows, Opener, ev)[Opener] # NoRow
           /\ SaveForCorrelation(rows, Opener, ev)[Opener].response = ev
           /\ SaveForCorrelation(rows, Opener, ev)[Opener].delivery = "saved"
  <1> DEFINE rt == SaveForCorrelation(rows, Opener, ev)
  <1>1. \A m \in Message : rows[m] \in Row \cup {NoRow}
    BY DEF RowsSound, Row
  <1>2. \A m \in Message : rows[m] # NoRow => m \in Siblings(rows, Opener) /\ rows[m].delivery = "pending"
    BY Constants DEF RowsSound, Siblings, Rows, Undecided, SchemaHolds
  <1>3. \A m \in Message : rows[m] = NoRow => rt[m] = NoRow
    BY DEF SaveForCorrelation, Siblings, Rows
  <1>4. ev \in Event /\ ev # NoResponse
    BY AnswerIsEvent
  <1>5. ASSUME NEW m \in Message, rows[m] # NoRow
        PROVE  /\ rt[m] \in Row /\ rt[m] # NoRow /\ rt[m].corr = Opener
               /\ rt[m].response = ev /\ rt[m].delivery = "saved" /\ rt[m].ingest = "completed"
    <2>1. rt[m] = [rows[m] EXCEPT !.ingest = "completed", !.delivery = "saved", !.response = ev]
      BY <1>2, <1>5 DEF SaveForCorrelation
    <2>2. rows[m] \in Row /\ rows[m].corr = Opener
      BY <1>1, <1>5 DEF RowsSound
    <2>3. "completed" \in IngestState /\ "saved" \in DeliveryState
      BY DEF IngestState, DeliveryState
    <2>4. /\ rt[m] \in Row /\ rt[m].corr = Opener
          /\ rt[m].response = ev /\ rt[m].delivery = "saved" /\ rt[m].ingest = "completed"
      BY <1>4, <2>1, <2>2, <2>3 DEF Row, RowType
    <2> QED BY <2>4, Constants
  <1>6. rt \in [Message -> Row \cup {NoRow}]
    <2>1. \A m \in Message : rt[m] \in Row \cup {NoRow}
      BY <1>3, <1>5
    <2>2. rt = [m \in Message |-> rt[m]]
      BY DEF SaveForCorrelation
    <2> QED BY <2>1, <2>2
  <1> HIDE DEF rt
  <1>7. /\ rt[Opener] # NoRow /\ rt[Opener].response = ev /\ rt[Opener].delivery = "saved"
    BY <1>5, Constants
  <1>8. \A m \in Message : rt[m] # NoRow => SchemaHolds(rt[m])
    BY <1>3, <1>4, <1>5 DEF SchemaHolds
  <1>9. RowsSound(rt)
    BY <1>3, <1>5, <1>6, <1>7, <1>8 DEF RowsSound, Row
  <1> QED BY <1>7, <1>9 DEF rt

\* The insert of a message, the first one or one that joins.
LEMMA InsertedRows ==
    ASSUME RowsSound(rows), NEW m \in Message, rows[m] = NoRow,
           rows[Opener] = NoRow => m = Opener, Undecided(rows)
    PROVE  /\ RowsSound(Insert(rows, m, "own", Opener))
           /\ Insert(rows, m, "own", Opener)[Opener] # NoRow
           /\ Insert(rows, m, "own", Opener)[Opener].response = NoResponse
           /\ Insert(rows, m, "own", Opener)[Opener].delivery = "pending"
  <1> DEFINE row == [corr |-> Opener, hash |-> "own", ingest |-> "pending",
                     delivery |-> "pending", response |-> NoResponse]
             rt == Insert(rows, m, "own", Opener)
  <1>1. rows \in [Message -> Row \cup {NoRow}]
    BY DEF RowsSound, Row
  <1>2. row \in Row /\ row # NoRow
    BY Constants DEF Row, RowType, IngestState, DeliveryState
  <1>3. /\ row.corr = Opener /\ row.ingest = "pending" /\ row.delivery = "pending"
        /\ row.response = NoResponse /\ SchemaHolds(row)
    BY DEF SchemaHolds
  <1>4. rt = [rows EXCEPT ![m] = row]
    BY DEF Insert
  <1> HIDE DEF row, rt
  <1>5. /\ rt \in [Message -> Row \cup {NoRow}] /\ rt[m] = row
        /\ \A n \in Message \ {m} : rt[n] = rows[n]
    BY <1>1, <1>2, <1>4
  <1>6. /\ rt[Opener] # NoRow /\ rt[Opener].response = NoResponse
        /\ rt[Opener].delivery = "pending"
    <2>1. CASE m = Opener
      BY <1>2, <1>3, <1>5, <2>1
    <2>2. CASE m # Opener
      <3>1. rows[Opener] # NoRow /\ rows[Opener].response = NoResponse /\ SchemaHolds(rows[Opener])
        BY <2>2, Constants DEF Undecided, RowsSound
      <3> QED BY <1>5, <2>2, <3>1, Constants DEF SchemaHolds
    <2> QED BY <2>1, <2>2
  <1>7. ASSUME NEW n \in Message, rt[n] # NoRow
        PROVE  /\ rt[n].corr = Opener
               /\ rt[n].response = rt[Opener].response /\ rt[n].delivery = rt[Opener].delivery
               /\ SchemaHolds(rt[n])
               /\ rt[n].delivery # "pending" => rt[n].ingest = "completed"
               /\ rt[n].response \in Answers \cup {NoResponse}
    <2>1. CASE n = m
      BY <1>3, <1>5, <1>6, <2>1
    <2>2. CASE n # m
      <3>1. rt[n] = rows[n] /\ rows[n] # NoRow
        BY <1>5, <1>7, <2>2
      <3>2. rows[Opener] # NoRow
        BY <3>1 DEF RowsSound, EmptyStore
      <3>3. /\ rows[n].corr = Opener /\ rows[n].response = rows[Opener].response
            /\ rows[n].delivery = rows[Opener].delivery /\ SchemaHolds(rows[n])
            /\ SchemaHolds(rows[Opener])
        BY <3>1, <3>2, Constants DEF RowsSound
      <3>4. rows[Opener].response = NoResponse /\ rows[Opener].delivery = "pending"
        BY <3>2, <3>3 DEF Undecided, SchemaHolds
      <3> QED BY <1>6, <3>1, <3>3, <3>4
    <2> QED BY <2>1, <2>2
  <1>8. RowsSound(rt)
    BY <1>5, <1>6, <1>7 DEF RowsSound, Row
  <1> QED BY <1>6, <1>8 DEF rt

\* markIngestComplete.
LEMMA CompletedRows ==
    ASSUME RowsSound(rows), NEW m \in Message, rows[m] # NoRow
    PROVE  LET rt == MarkIngestComplete(rows, m)
           IN  /\ RowsSound(rt)
               /\ \A n \in Message : /\ rt[n] = NoRow <=> rows[n] = NoRow
                                     /\ IngestPending(rt, n) => IngestPending(rows, n)
                                     /\ rt[n] # NoRow => /\ rt[n].response = rows[n].response
                                                         /\ rt[n].delivery = rows[n].delivery
  <1> DEFINE row == [rows[m] EXCEPT !.ingest = "completed"]
             rt == MarkIngestComplete(rows, m)
  <1>1. rows \in [Message -> Row \cup {NoRow}] /\ rows[m] \in Row
    BY DEF RowsSound, Row
  <1>2. rt = [rows EXCEPT ![m] = row]
    BY DEF MarkIngestComplete
  <1>3. /\ row \in Row /\ row.corr = rows[m].corr /\ row.ingest = "completed"
        /\ row.delivery = rows[m].delivery /\ row.response = rows[m].response
    BY <1>1 DEF Row, RowType, IngestState
  <1>4. row # NoRow
    BY <1>3, Constants
  <1> HIDE DEF row, rt
  <1>5. /\ rt \in [Message -> Row \cup {NoRow}] /\ rt[m] = row
        /\ \A n \in Message \ {m} : rt[n] = rows[n]
    BY <1>1, <1>2, <1>3
  <1>6. ASSUME NEW n \in Message
        PROVE  /\ rt[n] = NoRow <=> rows[n] = NoRow
               /\ IngestPending(rt, n) => IngestPending(rows, n)
               /\ rt[n] # NoRow => /\ rt[n].response = rows[n].response /\ rt[n].corr = rows[n].corr
                                   /\ rt[n].delivery = rows[n].delivery
                                   /\ rt[n].ingest = rows[n].ingest \/ rt[n].ingest = "completed"
    <2>1. CASE n = m
      BY <1>3, <1>4, <1>5, <2>1 DEF IngestPending
    <2>2. CASE n # m
      BY <1>5, <2>2 DEF IngestPending
    <2> QED BY <2>1, <2>2
  <1>7. rt[Opener] # NoRow
    BY <1>6, Constants DEF RowsSound, EmptyStore
  <1>8. \A n \in Message : rt[n] # NoRow => SchemaHolds(rt[n])
    BY <1>6 DEF RowsSound, SchemaHolds
  <1>9. RowsSound(rt)
    BY <1>5, <1>6, <1>7, <1>8, Constants DEF RowsSound, Row
  <1> QED BY <1>6, <1>9 DEF rt

-----------------------------------------------------------------------------
(***************************************************************************)
(* The outbox: its rows are marked in place, or new ones are appended.     *)
(***************************************************************************)

SameEvents(ob, oc) ==
    /\ oc \in Seq(OutboxRow) /\ Len(oc) = Len(ob)
    /\ \A i \in 1 .. Len(ob) : oc[i].event = ob[i].event

LEMMA SameEventsAgree ==
    ASSUME NEW ob \in Seq(OutboxRow), NEW oc, SameEvents(ob, oc)
    PROVE  /\ TerminalLast(ob) => TerminalLast(oc)
           /\ NoTerminal(oc) <=> NoTerminal(ob)
           /\ ob # <<>> <=> oc # <<>>
           /\ ob # <<>> => oc[Len(oc)].event = ob[Len(ob)].event
           /\ \A ev : Recorded(ev, ob) <=> Recorded(ev, oc)
           /\ \A rs : StoresAgree(rs, ob) => StoresAgree(rs, oc)
  <1>1. /\ Len(oc) = Len(ob) /\ \A i \in 1 .. Len(ob) : oc[i].event = ob[i].event
        /\ oc \in Seq(OutboxRow)
    BY DEF SameEvents
  <1>2. ob # <<>> <=> oc # <<>>
    BY <1>1
  <1>3. ob # <<>> => Len(ob) \in 1 .. Len(ob)
    OBVIOUS
  <1>4. ob # <<>> => oc[Len(oc)].event = ob[Len(ob)].event
    BY <1>1, <1>3
  <1>5. \A ev : Recorded(ev, ob) <=> Recorded(ev, oc)
    BY <1>2, <1>4 DEF Recorded
  <1>6. TerminalLast(ob) => TerminalLast(oc)
    BY <1>1 DEF TerminalLast
  <1>7. NoTerminal(oc) <=> NoTerminal(ob)
    BY <1>1 DEF NoTerminal
  <1>8. ASSUME NEW rs, StoresAgree(rs, ob) PROVE StoresAgree(rs, oc)
    <2>1. rs[Opener] = NoRow => oc = <<>>
      BY <1>2, <1>8 DEF StoresAgree
    <2>2. ASSUME NEW i \in 1 .. Len(oc)
          PROVE  /\ oc[i].event.type \in AnswerType =>
                       rs[Opener] # NoRow /\ rs[Opener].response = oc[i].event
                 /\ oc[i].event.type = "turn.cancelled" =>
                       Undecided(rs) /\ \A m \in Message : ~IngestPending(rs, m)
                 /\ Undecided(rs) /\ ~Terminal(oc[i].event) => oc[i].event.no <= MaxDeltas + 1
      <3>1. i \in 1 .. Len(ob) /\ oc[i].event = ob[i].event
        BY <1>1
      <3> QED BY <1>8, <3>1 DEF StoresAgree
    <2> QED BY <2>1, <2>2 DEF StoresAgree
  <1> QED BY <1>2, <1>4, <1>5, <1>6, <1>7, <1>8

\* Rows that keep their events, one by one.
LEMMA InPlace ==
    ASSUME outbox \in Seq(OutboxRow), NEW oc, oc = [i \in 1 .. Len(outbox) |-> oc[i]],
           \A i \in 1 .. Len(outbox) : oc[i] \in OutboxRow /\ oc[i].event = outbox[i].event
    PROVE  SameEvents(outbox, oc)
  <1>1. oc \in [1 .. Len(outbox) -> OutboxRow] /\ Len(outbox) \in Nat
    OBVIOUS
  <1>2. oc \in Seq(OutboxRow) /\ Len(oc) = Len(outbox)
    BY <1>1
  <1> QED BY <1>2 DEF SameEvents

\* The row of an event, marked in place.
LEMMA MarkInPlace ==
    ASSUME outbox \in Seq(OutboxRow), NEW ev, NEW n \in 0 .. TotalPosts,
           NEW st \in {"pending", "delivered", "permanent_failure"}
    PROVE  /\ SameEvents(outbox, Mark(ev, st, n))
           /\ \A i \in 1 .. Len(outbox) :
                /\ outbox[i].event # ev => Mark(ev, st, n)[i] = outbox[i]
                /\ outbox[i].event = ev => Mark(ev, st, n)[i].status = st /\ Mark(ev, st, n)[i].attempts = n
  <1> DEFINE oc == Mark(ev, st, n)
  <1>1. DOMAIN outbox = 1 .. Len(outbox)
    OBVIOUS
  <1>2. ASSUME NEW i \in 1 .. Len(outbox)
        PROVE  /\ oc[i] \in OutboxRow /\ oc[i].event = outbox[i].event
               /\ outbox[i].event # ev => oc[i] = outbox[i]
               /\ outbox[i].event = ev => oc[i].status = st /\ oc[i].attempts = n
    <2>1. outbox[i] \in OutboxRow
      BY ElementOfSeq
    <2>2. CASE outbox[i].event # ev
      BY <1>1, <2>1, <2>2 DEF Mark
    <2>3. CASE outbox[i].event = ev
      <3>1. oc[i] = [outbox[i] EXCEPT !.status = st, !.attempts = n]
        BY <1>1, <2>3 DEF Mark
      <3> HIDE DEF oc
      <3> QED BY <2>1, <2>3, <3>1 DEF OutboxRow
    <2> QED BY <2>2, <2>3
  <1>3. oc = [i \in 1 .. Len(outbox) |-> oc[i]]
    BY <1>1 DEF Mark
  <1> HIDE DEF oc
  <1>4. SameEvents(outbox, oc)
    BY <1>2, <1>3, InPlace
  <1> QED BY <1>2, <1>4 DEF oc

LEMMA AttemptInPlace ==
    ASSUME outbox \in Seq(OutboxRow), NEW ev, NEW n \in 0 .. TotalPosts
    PROVE  /\ SameEvents(outbox, RecordAttempt(ev, n))
           /\ \A i \in 1 .. Len(outbox) :
                /\ outbox[i].event # ev => RecordAttempt(ev, n)[i] = outbox[i]
                /\ outbox[i].event = ev => RecordAttempt(ev, n)[i].status = outbox[i].status /\ RecordAttempt(ev, n)[i].attempts = n
  <1> DEFINE oc == RecordAttempt(ev, n)
  <1>1. DOMAIN outbox = 1 .. Len(outbox)
    OBVIOUS
  <1>2. ASSUME NEW i \in 1 .. Len(outbox)
        PROVE  /\ oc[i] \in OutboxRow /\ oc[i].event = outbox[i].event
               /\ outbox[i].event # ev => oc[i] = outbox[i]
               /\ outbox[i].event = ev => oc[i].status = outbox[i].status /\ oc[i].attempts = n
    <2>1. outbox[i] \in OutboxRow
      BY ElementOfSeq
    <2>2. CASE outbox[i].event # ev
      BY <1>1, <2>1, <2>2 DEF RecordAttempt
    <2>3. CASE outbox[i].event = ev
      <3>1. oc[i] = [outbox[i] EXCEPT !.attempts = n]
        BY <1>1, <2>3 DEF RecordAttempt
      <3> HIDE DEF oc
      <3> QED BY <2>1, <2>3, <3>1 DEF OutboxRow
    <2> QED BY <2>2, <2>3
  <1>3. oc = [i \in 1 .. Len(outbox) |-> oc[i]]
    BY <1>1 DEF RecordAttempt
  <1> HIDE DEF oc
  <1>4. SameEvents(outbox, oc)
    BY <1>2, <1>3, InPlace
  <1> QED BY <1>2, <1>4 DEF oc

\* What Exhausted makes of the outbox when no POST was made.
GivenUp(ev) ==
    [i \in DOMAIN outbox |->
        IF outbox[i].event = ev
        THEN [outbox[i] EXCEPT !.status = "permanent_failure"]
        ELSE outbox[i]]

LEMMA StatusInPlace ==
    ASSUME outbox \in Seq(OutboxRow), NEW ev
    PROVE  /\ SameEvents(outbox, GivenUp(ev))
           /\ \A i \in 1 .. Len(outbox) :
                /\ outbox[i].event # ev => GivenUp(ev)[i] = outbox[i]
                /\ outbox[i].event = ev => GivenUp(ev)[i].status = "permanent_failure"
  <1> DEFINE oc == GivenUp(ev)
  <1>1. DOMAIN outbox = 1 .. Len(outbox)
    OBVIOUS
  <1>2. ASSUME NEW i \in 1 .. Len(outbox)
        PROVE  /\ oc[i] \in OutboxRow /\ oc[i].event = outbox[i].event
               /\ outbox[i].event # ev => oc[i] = outbox[i]
               /\ outbox[i].event = ev => oc[i].status = "permanent_failure"
    <2>1. outbox[i] \in OutboxRow
      BY ElementOfSeq
    <2>2. CASE outbox[i].event # ev
      BY <1>1, <2>1, <2>2 DEF GivenUp
    <2>3. CASE outbox[i].event = ev
      <3>1. oc[i] = [outbox[i] EXCEPT !.status = "permanent_failure"]
        BY <1>1, <2>3 DEF GivenUp
      <3> HIDE DEF oc
      <3> QED BY <2>1, <2>3, <3>1 DEF OutboxRow
    <2> QED BY <2>2, <2>3
  <1>3. oc = [i \in 1 .. Len(outbox) |-> oc[i]]
    BY <1>1 DEF GivenUp
  <1> HIDE DEF oc
  <1>4. SameEvents(outbox, oc)
    BY <1>2, <1>3, InPlace
  <1> QED BY <1>2, <1>4 DEF oc

\* No event has a row that is terminal: then none that is recorded is.
LEMMA NoneRecorded ==
    ASSUME NEW ob \in Seq(OutboxRow), NoTerminal(ob), NEW ev, Recorded(ev, ob)
    PROVE  ~Terminal(ev)
  BY DEF NoTerminal, Recorded

-----------------------------------------------------------------------------
(***************************************************************************)
(* The queue of an emitter: its first job is posted, changes or leaves.    *)
(***************************************************************************)

\* The POSTs left are counted in naturals, and a terminal event that is being
\* posted is alone in its queue.
LEMMA PostsCounted ==
    ASSUME NEW s, NEW ob, NEW rec, EmitterSound(s, ob, rec)
    PROVE  /\ PostsLeft(s) \in Nat /\ Posting(s) \in {0, 1}
           /\ Posting(s) = 1 => Len(s.queue) = 1 /\ HasTerminal(s)
           /\ PostsLeft(s) <= TotalPosts
           /\ NoTerminal(s.queue) => PostsLeft(s) = 0 /\ Posting(s) = 0
  <1>1. s.queue \in Seq(Job) /\ TerminalLast(s.queue)
    BY DEF EmitterSound, EmitterState
  <1>2. s.queue # <<>> => /\ 1 \in 1 .. Len(s.queue) /\ Len(s.queue) \in 1 .. Len(s.queue)
                          /\ Len(s.queue) \in Nat
    BY <1>1
  <1>3. s.queue # <<>> => s.queue[1] \in Job /\ LastJob(s) \in Job
    BY <1>1, <1>2, ElementOfSeq DEF LastJob
  <1>4. s.queue # <<>> => LastJob(s).attempt \in 0 .. TotalPosts
    BY <1>3 DEF Job
  <1>5. s.flight # "none" => s.queue # <<>> /\ s.queue[1].attempt < TotalPosts
    BY DEF EmitterSound
  <1>6. Posting(s) \in {0, 1}
    BY DEF Posting
  <1>7. Posting(s) = 1 => /\ s.queue # <<>> /\ Terminal(s.queue[1].event)
                          /\ s.queue[1].attempt < TotalPosts
    BY <1>5 DEF Posting
  <1>8. Posting(s) = 1 => Len(s.queue) = 1 /\ HasTerminal(s) /\ LastJob(s) = s.queue[1]
    BY <1>1, <1>2, <1>7 DEF TerminalLast, HasTerminal, LastJob
  <1>9. PostsLeft(s) \in Nat /\ PostsLeft(s) <= TotalPosts
    <2>1. CASE ~HasTerminal(s)
      BY <2>1, Constants DEF PostsLeft
    <2>2. CASE HasTerminal(s)
      <3>1. LastJob(s).attempt \in 0 .. TotalPosts
        BY <1>4, <2>2 DEF HasTerminal
      <3>2. PostsLeft(s) = TotalPosts - LastJob(s).attempt - Posting(s)
        BY <2>2 DEF PostsLeft
      <3> QED BY <1>6, <1>7, <1>8, <3>1, <3>2, Constants
    <2> QED BY <2>1, <2>2
  <1>10. ASSUME NoTerminal(s.queue) PROVE PostsLeft(s) = 0 /\ Posting(s) = 0
    <2>1. ~HasTerminal(s)
      BY <1>2, <1>10 DEF NoTerminal, HasTerminal, LastJob
    <2>2. Posting(s) # 1
      BY <1>8, <2>1
    <2> QED BY <1>6, <2>1, <2>2 DEF PostsLeft
  <1> QED BY <1>6, <1>8, <1>9, <1>10

\* The first job leaves.
LEMMA Popped ==
    ASSUME NEW s, NEW ob, NEW rec, EmitterSound(s, ob, rec), s.queue # <<>>, NEW rcv,
           NEW t \in EmitterState, t.queue = Tail(s.queue), t.flight = "none"
    PROVE  /\ EmitterSound(t, ob, rcv) /\ Posting(t) = 0
           /\ PostsLeft(t) <= PostsLeft(s)
           /\ ~Terminal(s.queue[1].event) => Posting(s) = 0
  <1>1. s \in EmitterState /\ s.queue \in Seq(Job) /\ TerminalLast(s.queue)
    BY DEF EmitterSound, EmitterState
  <1> DEFINE q == s.queue
             r == Tail(s.queue)
  <1>2. /\ r \in Seq(Job) /\ Len(r) = Len(q) - 1
        /\ \A i \in 1 .. Len(r) : r[i] = q[i + 1]
    BY <1>1, HeadTailProperties
  <1>3. Len(q) \in Nat /\ Len(q) # 0
    BY <1>1
  <1> HIDE DEF r
  <1>4. t \in EmitterState /\ t.queue = r /\ t.flight = "none"
    BY DEF r
  <1>5. \A i \in 1 .. Len(r) : i + 1 \in 1 .. Len(q)
    BY <1>2, <1>3
  <1>6. TerminalLast(r)
    <2> SUFFICES ASSUME NEW i \in 1 .. Len(r), Terminal(r[i].event) PROVE i = Len(r)
      BY DEF TerminalLast
    <2>1. i + 1 \in 1 .. Len(q) /\ Terminal(q[i + 1].event)
      BY <1>2, <1>5
    <2>2. i + 1 = Len(q)
      BY <1>1, <2>1 DEF TerminalLast
    <2> QED BY <1>2, <1>3, <2>2
  <1>7. \A i \in 1 .. Len(r) : Recorded(r[i].event, ob)
    BY <1>2, <1>5 DEF EmitterSound
  <1>8. EmitterSound(t, ob, rcv)
    BY <1>4, <1>6, <1>7 DEF EmitterSound
  <1>9. Posting(t) = 0
    BY <1>4 DEF Posting
  <1>10. PostsLeft(t) <= PostsLeft(s)
    <2>1. PostsLeft(s) \in Nat
      BY PostsCounted
    <2>2. CASE ~HasTerminal(t)
      BY <2>1, <2>2 DEF PostsLeft
    <2>3. CASE HasTerminal(t)
      <3>1. r # <<>> /\ Terminal(r[Len(r)].event)
        BY <1>4, <2>3 DEF HasTerminal, LastJob
      <3>2. Len(r) \in 1 .. Len(r) /\ Len(r) + 1 = Len(q)
        BY <1>2, <1>3, <3>1
      <3>3. LastJob(t) = LastJob(s)
        BY <1>2, <1>4, <3>2 DEF LastJob
      <3>4. HasTerminal(s)
        BY <1>4, <2>3, <3>3 DEF HasTerminal
      <3>5. Len(q) # 1
        BY <1>2, <3>1, <3>2
      <3>6. Posting(s) = 0
        BY <3>5, PostsCounted
      <3> QED BY <1>9, <2>1, <2>3, <3>3, <3>4, <3>6 DEF PostsLeft
    <2> QED BY <2>2, <2>3
  <1>11. ~Terminal(s.queue[1].event) => Posting(s) = 0
    BY DEF Posting
  <1> QED BY <1>4, <1>8, <1>9, <1>10, <1>11

\* The first job is posted, or its attempt is counted.
LEMMA HeadChanged ==
    ASSUME NEW s, NEW ob, NEW rec, EmitterSound(s, ob, rec), s.queue # <<>>, NEW rcv,
           NEW t \in EmitterState, Len(t.queue) = Len(s.queue),
           t.queue[1].event = s.queue[1].event,
           \A i \in 1 .. Len(s.queue) : i # 1 => t.queue[i] = s.queue[i],
           t.flight # "none" => t.queue[1].attempt < TotalPosts,
           t.flight = "acked" => t.queue[1].event \in rcv
    PROVE  /\ EmitterSound(t, ob, rcv)
           /\ Terminal(s.queue[1].event) =>
                 /\ Posting(t) = (IF t.flight = "none" THEN 0 ELSE 1)
                 /\ PostsLeft(t) = TotalPosts - t.queue[1].attempt - Posting(t)
                 /\ Posting(s) = (IF s.flight = "none" THEN 0 ELSE 1)
                 /\ PostsLeft(s) = TotalPosts - s.queue[1].attempt - Posting(s)
           /\ ~Terminal(s.queue[1].event) => /\ Posting(t) = 0 /\ Posting(s) = 0
                                             /\ PostsLeft(t) = PostsLeft(s)
  <1>1. s \in EmitterState /\ s.queue \in Seq(Job) /\ TerminalLast(s.queue)
    BY DEF EmitterSound, EmitterState
  <1> DEFINE q == s.queue
             r == t.queue
             fl == t.flight
             j == t.queue[1]
  <1>2. Len(q) \in Nat /\ Len(q) # 0 /\ 1 \in 1 .. Len(q) /\ Len(q) \in 1 .. Len(q)
    BY <1>1
  <1>3. /\ r \in Seq(Job) /\ Len(r) = Len(q) /\ r[1] = j
        /\ \A i \in 1 .. Len(q) : i # 1 => r[i] = q[i]
    BY <1>1, <1>2 DEF EmitterState
  <1>4. \A i \in 1 .. Len(r) : r[i].event = q[i].event
    BY <1>3
  <1>5. t \in EmitterState /\ t.queue = r /\ t.flight = fl
    OBVIOUS
  <1>6. TerminalLast(r)
    BY <1>1, <1>3, <1>4 DEF TerminalLast
  <1>7. \A i \in 1 .. Len(r) : Recorded(r[i].event, ob)
    BY <1>3, <1>4 DEF EmitterSound
  <1>8. r # <<>>
    BY <1>2, <1>3
  <1>9. EmitterSound(t, ob, rcv)
    BY <1>3, <1>5, <1>6, <1>7, <1>8 DEF EmitterSound
  <1>10. CASE Terminal(j.event)
    <2>1. Len(q) = 1
      BY <1>1, <1>2, <1>10 DEF TerminalLast
    <2>2. LastJob(t) = j /\ LastJob(s) = q[1] /\ t.queue[1] = j
      BY <1>3, <1>5, <2>1 DEF LastJob
    <2>3. HasTerminal(t) /\ HasTerminal(s)
      BY <1>5, <1>8, <1>10, <2>2 DEF HasTerminal
    <2>4. /\ Posting(t) = (IF fl = "none" THEN 0 ELSE 1)
          /\ Posting(s) = (IF s.flight = "none" THEN 0 ELSE 1)
      BY <1>5, <1>10, <2>2 DEF Posting
    <2> QED BY <1>5, <1>9, <1>10, <2>2, <2>3, <2>4 DEF PostsLeft
  <1>11. CASE ~Terminal(j.event)
    <2>1. Posting(t) = 0 /\ Posting(s) = 0
      BY <1>3, <1>5, <1>11 DEF Posting
    <2>2. LastJob(t).event = LastJob(s).event
      BY <1>2, <1>3, <1>4, <1>5 DEF LastJob
    <2>3. HasTerminal(t) <=> HasTerminal(s)
      BY <1>5, <1>8, <2>2 DEF HasTerminal
    <2>4. HasTerminal(s) => LastJob(t) = LastJob(s)
      <3>1. ASSUME HasTerminal(s) PROVE Len(q) # 1
        BY <1>11, <3>1 DEF HasTerminal, LastJob
      <3> QED BY <1>2, <1>3, <1>5, <3>1 DEF LastJob
    <2> QED BY <1>5, <1>9, <1>11, <2>1, <2>3, <2>4 DEF PostsLeft
  <1> QED BY <1>10, <1>11

-----------------------------------------------------------------------------
(***************************************************************************)
(* A step of an emitter's delivery.                                        *)
(***************************************************************************)

\* What the stores agree on depends on the messages, the responses and the ingest
\* states only.
LEMMA RowsKeptAgree ==
    ASSUME NEW rs, NEW rt, RowsKept(rs, rt), NEW ob, StoresAgree(rs, ob)
    PROVE  /\ StoresAgree(rt, ob) /\ (Undecided(rt) <=> Undecided(rs))
           /\ rt[Opener] = NoRow <=> rs[Opener] = NoRow
           /\ rs[Opener] # NoRow => rt[Opener].response = rs[Opener].response
  <1>1. /\ rt[Opener] = NoRow <=> rs[Opener] = NoRow
        /\ rs[Opener] # NoRow => rt[Opener].response = rs[Opener].response
    BY Constants DEF RowsKept
  <1>2. Undecided(rt) <=> Undecided(rs)
    BY <1>1 DEF Undecided
  <1>3. \A m \in Message : IngestPending(rt, m) => IngestPending(rs, m)
    BY DEF RowsKept, IngestPending
  <1>4. StoresAgree(rt, ob)
    BY <1>1, <1>2, <1>3 DEF StoresAgree
  <1> QED BY <1>1, <1>2, <1>4

LEMMA EmitterMoves ==
    ASSUME Inv, up, UNCHANGED <<up, left, allowed>>,
           NEW e \in Emitter, NEW s, em' = [em EXCEPT ![e] = s],
           EmitterSound(s, outbox, received'),
           received \subseteq received', received' \subseteq Event,
           \A ev \in received' : Recorded(ev, outbox),
           SameEvents(outbox, outbox'),
           \A i \in 1 .. Len(outbox) : outbox'[i].status = "delivered" => outbox[i].event \in received',
           RowsSound(rows'), RowsKept(rows, rows'),
           active' \in {active, None},
           active' = "turn" /\ e = "turn" => s.seq = em["turn"].seq /\ s.started = em["turn"].started,
           posted' \in Nat, PostsCovered'
    PROVE  Inv'
  <1>1. /\ em \in [Emitter -> EmitterState] /\ outbox \in Seq(OutboxRow)
        /\ TerminalLast(outbox) /\ StoresAgree(rows, outbox)
    BY DEF Inv, TypeOK, OutboxSound
  <1>2. s \in EmitterState
    BY DEF EmitterSound
  <1>3. /\ em' \in [Emitter -> EmitterState] /\ em'[e] = s
        /\ \A f \in Emitter \ {e} : em'[f] = em[f]
    BY <1>1, <1>2
  <1>4. /\ TerminalLast(outbox') /\ (NoTerminal(outbox') <=> NoTerminal(outbox))
        /\ \A ev : Recorded(ev, outbox) <=> Recorded(ev, outbox')
        /\ \A rs : StoresAgree(rs, outbox) => StoresAgree(rs, outbox')
    BY <1>1, SameEventsAgree
  <1>5. TypeOK'
    <2>1. rows' \in [Message -> RowType({"own"}, Event) \cup {NoRow}]
      BY DEF RowsSound
    <2>2. outbox' \in Seq(OutboxRow)
      BY DEF SameEvents
    <2>3. active' \in Emitter \cup {None}
      BY DEF Inv, TypeOK
    <2>4. up' \in BOOLEAN /\ left' \in [deltas : Nat, dups : Nat, crashes : Nat] /\ allowed' \in Nat
      BY DEF Inv, TypeOK
    <2> QED BY <1>3, <2>1, <2>2, <2>3, <2>4 DEF TypeOK
  <1>6. OutboxSound(outbox', received')
    <2>1. /\ outbox' \in Seq(OutboxRow) /\ Len(outbox') = Len(outbox)
          /\ \A i \in 1 .. Len(outbox) : outbox'[i].event = outbox[i].event
      BY DEF SameEvents
    <2> QED BY <1>4, <2>1 DEF OutboxSound
  <1>7. /\ StoresAgree(rows', outbox') /\ (Undecided(rows') <=> Undecided(rows))
        /\ rows'[Opener] = NoRow <=> rows[Opener] = NoRow
    BY <1>1, <1>4, RowsKeptAgree
  <1>8. ASSUME NEW f \in Emitter PROVE EmitterSound(em'[f], outbox', received')
    <2>1. EmitterSound(em'[f], outbox, received')
      <3>1. CASE f = e
        BY <1>3, <3>1
      <3>2. CASE f # e
        <4>1. EmitterSound(em[f], outbox, received) /\ em'[f] = em[f]
          BY <1>3, <3>2 DEF Inv
        <4> QED BY <4>1 DEF EmitterSound
      <3> QED BY <3>1, <3>2
    <2> QED BY <1>4, <2>1 DEF EmitterSound
  <1>9. \A ev \in received' : Recorded(ev, outbox')
    BY <1>4
  <1>10. TurnSound'
    <2> SUFFICES ASSUME active' = "turn"
                 PROVE  /\ rows'[Opener] # NoRow /\ Undecided(rows') /\ NoTerminal(outbox')
                        /\ em'["turn"].seq + left'.deltas
                              <= MaxDeltas + (IF em'["turn"].started THEN 1 ELSE 0)
      BY DEF TurnSound, Inv
    <2>1. active = "turn"
      BY Constants
    <2>2. /\ rows[Opener] # NoRow /\ Undecided(rows) /\ NoTerminal(outbox)
          /\ em["turn"].seq + left.deltas <= MaxDeltas + (IF em["turn"].started THEN 1 ELSE 0)
      BY <2>1 DEF Inv, TurnSound
    <2>3. em'["turn"].seq = em["turn"].seq /\ em'["turn"].started = em["turn"].started
      BY <1>3 DEF Emitter
    <2> QED BY <1>4, <1>7, <2>2, <2>3
  <1>11. DownQuiet'
    BY DEF DownQuiet
  <1> QED BY <1>5, <1>6, <1>7, <1>8, <1>9, <1>10, <1>11 DEF Inv

\* A sum stays below n when one part of it is traded for what is added to a.
LEMMA SumsTraded ==
    ASSUME NEW a \in Nat, NEW a1 \in Nat, NEW n \in Nat, NEW p \in Nat, NEW q \in Nat,
           NEW u \in Nat, NEW v \in Nat, NEW w \in Nat, NEW x \in Nat, NEW y \in Nat,
           a + p + q <= n, p + q = u + v, x + y = w + v, a1 + w <= a + u
    PROVE  a1 + x + y <= n /\ a1 + w <= n
OBVIOUS

\* The POSTs of an emitter stay covered: it trades a POST it had left for one it
\* made, and the row it leaves pending allows no more than it has left itself.
LEMMA PostsTraded ==
    ASSUME Inv, allowed' = allowed, NEW e \in Emitter, NEW s, NEW rec, em' = [em EXCEPT ![e] = s],
           EmitterSound(s, outbox, rec), SameEvents(outbox, outbox'), posted' \in Nat,
           posted' + PostsLeft(s) <= posted + PostsLeft(em[e]),
           NoTerminal(outbox) => posted' = posted,
           LET l == Len(outbox)
           IN  outbox # <<>> /\ Terminal(outbox[l].event) /\ outbox'[l].status = "pending" =>
                  \/ /\ outbox[l].status = "pending" /\ outbox'[l].attempts = outbox[l].attempts
                     /\ posted' + Posting(em[e]) <= posted + Posting(s)
                  \/ TotalPosts - outbox'[l].attempts <= PostsLeft(s)
    PROVE  PostsCovered'
  <1> DEFINE f == IF e = "turn" THEN "again" ELSE "turn"
  <1>1. /\ em \in [Emitter -> EmitterState] /\ outbox \in Seq(OutboxRow)
        /\ posted \in Nat /\ allowed \in Nat
    BY DEF Inv, TypeOK
  <1>2. f \in Emitter /\ f # e /\ {e, f} = {"turn", "again"}
    BY DEF Emitter
  <1>3. em'[e] = s /\ em'[f] = em[f]
    BY <1>1, <1>2 DEF EmitterSound
  <1>4. /\ PostsLeft(s) \in Nat /\ Posting(s) \in {0, 1}
    BY PostsCounted
  <1>5. /\ PostsLeft(em[e]) \in Nat /\ Posting(em[e]) \in {0, 1}
        /\ PostsLeft(em[f]) \in Nat /\ Posting(em[f]) \in {0, 1}
    BY <1>2, PostsCounted DEF Inv
  <1>6. PostsLeft(em["turn"]) + PostsLeft(em["again"]) = PostsLeft(em[e]) + PostsLeft(em[f])
        /\ Posting(em["turn"]) + Posting(em["again"]) = Posting(em[e]) + Posting(em[f])
        /\ PostsLeft(em'["turn"]) + PostsLeft(em'["again"]) = PostsLeft(s) + PostsLeft(em[f])
        /\ Posting(em'["turn"]) + Posting(em'["again"]) = Posting(s) + Posting(em[f])
    <2>1. CASE e = "turn"
      BY <1>3, <1>4, <1>5, <2>1
    <2>2. CASE e = "again"
      BY <1>3, <1>4, <1>5, <2>2
    <2> QED BY <2>1, <2>2 DEF Emitter
  <1>7. /\ \A x \in Emitter : PostsLeft(em[x]) \in Nat /\ Posting(em[x]) \in {0, 1}
        /\ \A x \in Emitter : PostsLeft(em'[x]) \in Nat /\ Posting(em'[x]) \in {0, 1}
    BY <1>2, <1>3, <1>4, <1>5 DEF Emitter
  <1>8. /\ PostsLeft(em["turn"]) \in Nat /\ PostsLeft(em["again"]) \in Nat
        /\ Posting(em["turn"]) \in {0, 1} /\ Posting(em["again"]) \in {0, 1}
        /\ PostsLeft(em'["turn"]) \in Nat /\ PostsLeft(em'["again"]) \in Nat
        /\ Posting(em'["turn"]) \in {0, 1} /\ Posting(em'["again"]) \in {0, 1}
    BY <1>7 DEF Emitter
  <1> HIDE DEF f
  <1>9. /\ posted + PostsLeft(em["turn"]) + PostsLeft(em["again"]) <= allowed
        /\ NoTerminal(outbox) => posted = 0
        /\ TotalPosts <= allowed
    BY DEF Inv, PostsCovered
  <1>10. posted' + PostsLeft(em'["turn"]) + PostsLeft(em'["again"]) <= allowed'
         /\ posted' + PostsLeft(s) <= allowed
    <2> DEFINE a == posted
               a1 == posted'
               p == PostsLeft(em["turn"])
               q == PostsLeft(em["again"])
               u == PostsLeft(em[e])
               v == PostsLeft(em[f])
               w == PostsLeft(s)
               x == PostsLeft(em'["turn"])
               y == PostsLeft(em'["again"])
    <2>1. /\ p \in Nat /\ q \in Nat /\ u \in Nat /\ v \in Nat
          /\ w \in Nat /\ x \in Nat /\ y \in Nat
      BY <1>4, <1>5, <1>8
    <2>2. a + p + q <= allowed /\ p + q = u + v /\ x + y = w + v /\ a1 + w <= a + u
      BY <1>6, <1>9
    <2>3. a \in Nat /\ a1 \in Nat /\ allowed \in Nat
      BY <1>1
    <2> HIDE DEF a, a1, p, q, u, v, w, x, y
    <2>4. a1 + x + y <= allowed /\ a1 + w <= allowed
      BY <2>1, <2>2, <2>3, SumsTraded
    <2> QED BY <2>4 DEF a1, w, x, y
  <1>11. /\ NoTerminal(outbox') <=> NoTerminal(outbox)
         /\ outbox # <<>> <=> outbox' # <<>>
         /\ outbox # <<>> => outbox'[Len(outbox')].event = outbox[Len(outbox)].event
         /\ Len(outbox') = Len(outbox) /\ outbox' \in Seq(OutboxRow)
    BY <1>1, SameEventsAgree DEF SameEvents
  <1>12. ASSUME outbox' # <<>>, Terminal(outbox'[Len(outbox')].event),
                outbox'[Len(outbox')].status = "pending"
         PROVE  posted' + (TotalPosts - outbox'[Len(outbox')].attempts)
                   <= allowed' + Posting(em'["turn"]) + Posting(em'["again"])
    <2> DEFINE l == Len(outbox)
               a == outbox'[l].attempts
    <2>1. l \in 1 .. Len(outbox) /\ Len(outbox') = l
      BY <1>1, <1>11, <1>12
    <2>2. a \in 0 .. TotalPosts
      <3>1. outbox'[l] \in OutboxRow
        BY <1>11, <2>1, ElementOfSeq
      <3> QED BY <3>1 DEF OutboxRow
    <2>3. outbox # <<>> /\ Terminal(outbox[l].event) /\ outbox'[l].status = "pending"
      BY <1>11, <1>12
    <2>4. CASE /\ outbox[l].status = "pending" /\ a = outbox[l].attempts
               /\ posted' + Posting(em[e]) <= posted + Posting(s)
      <3>1. posted + (TotalPosts - a) <= allowed + Posting(em["turn"]) + Posting(em["again"])
        BY <2>3, <2>4 DEF Inv, PostsCovered
      <3>2. outbox'[Len(outbox')].attempts = a
        BY <2>1
      <3> HIDE DEF l, a
      <3> DEFINE b == TotalPosts - a
                 p == Posting(em["turn"])
                 q == Posting(em["again"])
                 u == Posting(em[e])
                 v == Posting(em[f])
                 w == Posting(s)
                 x == Posting(em'["turn"])
                 y == Posting(em'["again"])
      <3>3. b \in Nat
        BY <2>2, Constants
      <3>4. /\ p \in Nat /\ q \in Nat /\ u \in Nat /\ v \in Nat
            /\ w \in Nat /\ x \in Nat /\ y \in Nat
        BY <1>4, <1>5, <1>8
      <3>5. posted + b <= allowed + p + q /\ p + q = u + v /\ x + y = w + v /\ posted' + u <= posted + w
        BY <1>6, <2>4, <3>1
      <3> HIDE DEF b, p, q, u, v, w, x, y
      <3>6. posted' + b <= allowed + x + y
        BY <1>1, <3>3, <3>4, <3>5
      <3>7. posted' + (TotalPosts - a) <= allowed' + Posting(em'["turn"]) + Posting(em'["again"])
        BY <3>6 DEF b, x, y
      <3> QED BY <3>2, <3>7
    <2>5. CASE TotalPosts - a <= PostsLeft(s)
      <3>1. posted' + PostsLeft(s) <= allowed
        BY <1>10
      <3>2. outbox'[Len(outbox')].attempts = a
        BY <2>1
      <3> HIDE DEF l, a
      <3>3. posted' + (TotalPosts - a) <= allowed' + Posting(em'["turn"]) + Posting(em'["again"])
        BY <1>1, <1>4, <1>8, <2>2, <2>5, <3>1, Constants
      <3> QED BY <3>2, <3>3
    <2> QED BY <2>3, <2>4, <2>5
  <1>13. NoTerminal(outbox') => posted' = 0
    BY <1>9, <1>11
  <1> QED BY <1>9, <1>10, <1>12, <1>13 DEF PostsCovered

\* What a step of an emitter starts from.
LEMMA EmitterBefore ==
    ASSUME Inv, NEW e \in Emitter
    PROVE  /\ EmitterSound(em[e], outbox, received) /\ em[e] \in EmitterState
           /\ em \in [Emitter -> EmitterState]
           /\ outbox \in Seq(OutboxRow) /\ received \subseteq Event /\ posted \in Nat
           /\ RowsSound(rows) /\ RowsKept(rows, rows)
           /\ \A ev \in received : Recorded(ev, outbox)
           /\ \A i \in 1 .. Len(outbox) : outbox[i].status = "delivered" => outbox[i].event \in received
           /\ SameEvents(outbox, outbox)
           /\ em[e].queue # <<>> => /\ HeadJob(e) = em[e].queue[1] /\ HeadJob(e) \in Job
                                    /\ Recorded(HeadJob(e).event, outbox)
           /\ em[e].flight # "none" => em[e].queue # <<>> /\ HeadJob(e).attempt + 1 \in 0 .. TotalPosts
  <1>1. /\ EmitterSound(em[e], outbox, received) /\ em[e] \in EmitterState
        /\ em \in [Emitter -> EmitterState]
        /\ outbox \in Seq(OutboxRow) /\ received \subseteq Event /\ posted \in Nat
        /\ RowsSound(rows)
        /\ \A ev \in received : Recorded(ev, outbox)
        /\ \A i \in 1 .. Len(outbox) : outbox[i].status = "delivered" => outbox[i].event \in received
    BY DEF Inv, TypeOK, OutboxSound
  <1>2. RowsKept(rows, rows) /\ SameEvents(outbox, outbox)
    BY <1>1 DEF RowsKept, SameEvents
  <1>3. em[e].queue \in Seq(Job)
    BY <1>1 DEF EmitterState
  <1>4. ASSUME em[e].queue # <<>>
        PROVE  /\ HeadJob(e) = em[e].queue[1] /\ HeadJob(e) \in Job
               /\ Recorded(HeadJob(e).event, outbox)
    <2>1. 1 \in 1 .. Len(em[e].queue)
      BY <1>3, <1>4
    <2>2. em[e].queue[1] \in Job
      BY <1>3, <2>1, ElementOfSeq
    <2>3. HeadJob(e) = em[e].queue[1]
      BY <1>3, <1>4 DEF HeadJob
    <2> QED BY <1>1, <2>1, <2>2, <2>3 DEF EmitterSound
  <1>5. ASSUME em[e].flight # "none"
        PROVE  em[e].queue # <<>> /\ HeadJob(e).attempt + 1 \in 0 .. TotalPosts
    <2>1. em[e].queue # <<>> /\ em[e].queue[1].attempt < TotalPosts
      BY <1>1, <1>5 DEF EmitterSound
    <2>2. HeadJob(e).attempt \in 0 .. TotalPosts /\ HeadJob(e).attempt < TotalPosts
      BY <1>4, <2>1 DEF Job
    <2> QED BY <2>1, <2>2, Constants
  <1> QED BY <1>1, <1>2, <1>4, <1>5

LEMMA PostKeeps ==
    ASSUME Inv, NEW e \in Emitter, NEW accepts \in BOOLEAN, NEW answers \in BOOLEAN,
           Post(e, accepts, answers)
    PROVE  Inv'
  <1> DEFINE s == em[e]
             h == s.queue[1]
             j == [h EXCEPT !.fresh = FALSE]
             fl == IF answers THEN "acked" ELSE "unacked"
             t == [s EXCEPT !.queue = [s.queue EXCEPT ![1] = j], !.flight = fl]
  <1>1. /\ up /\ s.queue # <<>> /\ s.flight = "none" /\ HeadJob(e).attempt < TotalPosts
        /\ UNCHANGED <<rows, outbox, active, up, allowed, left>>
    BY DEF Post, CanPost
  <1>2. /\ EmitterSound(s, outbox, received) /\ s \in EmitterState
        /\ em \in [Emitter -> EmitterState]
        /\ outbox \in Seq(OutboxRow) /\ received \subseteq Event /\ posted \in Nat
        /\ RowsSound(rows) /\ RowsKept(rows, rows)
        /\ \A ev \in received : Recorded(ev, outbox)
        /\ \A i \in 1 .. Len(outbox) : outbox[i].status = "delivered" => outbox[i].event \in received
        /\ SameEvents(outbox, outbox)
        /\ HeadJob(e) = h /\ h \in Job /\ Recorded(h.event, outbox)
    BY <1>1, EmitterBefore
  <1>3. /\ j \in Job /\ j.event = h.event /\ j.attempt = h.attempt
        /\ h.event \in Event /\ h.attempt \in 0 .. TotalPosts
    BY <1>2 DEF Job
  <1>4. fl \in {"none", "acked", "unacked"} /\ fl # "none" /\ (fl = "acked" <=> answers)
    OBVIOUS
  <1>5. em' = [em EXCEPT ![e] = t]
    <2>1. s.queue \in Seq(Job) /\ 1 \in DOMAIN s.queue
      BY <1>1, <1>2 DEF EmitterState
    <2>2. em' = [em EXCEPT ![e].flight = fl, ![e].queue[1].fresh = FALSE]
      BY DEF Post
    <2> HIDE DEF fl
    <2> QED BY <1>2, <2>1, <2>2 DEF EmitterState
  <1>6. /\ received' = IF accepts THEN received \cup {h.event} ELSE received
        /\ posted' = IF Terminal(h.event) THEN posted + 1 ELSE posted
        /\ answers => accepts
    BY <1>2 DEF Post, Terminal
  <1>7. /\ received \subseteq received' /\ received' \subseteq Event
        /\ \A ev \in received' : Recorded(ev, outbox)
        /\ fl = "acked" => j.event \in received'
    BY <1>2, <1>3, <1>4, <1>6
  <1>0. /\ t \in EmitterState /\ t.queue = [s.queue EXCEPT ![1] = j] /\ t.flight = fl
        /\ t.seq = s.seq /\ t.started = s.started
    <2> HIDE DEF fl, j
    <2>1. s.queue \in Seq(Job) /\ [s.queue EXCEPT ![1] = j] \in Seq(Job)
      BY <1>1, <1>2, <1>3 DEF EmitterState
    <2> QED BY <1>2, <1>4, <2>1 DEF EmitterState
  <1> HIDE DEF t, fl, j
  <1>8. /\ EmitterSound(t, outbox, received')
        /\ Terminal(j.event) => /\ Posting(t) = (IF fl = "none" THEN 0 ELSE 1)
                                /\ PostsLeft(t) = TotalPosts - j.attempt - Posting(t)
                                /\ Posting(s) = (IF s.flight = "none" THEN 0 ELSE 1)
                                /\ PostsLeft(s) = TotalPosts - s.queue[1].attempt - Posting(s)
        /\ ~Terminal(j.event) => /\ Posting(t) = 0 /\ Posting(s) = 0
                                 /\ PostsLeft(t) = PostsLeft(s)
    <2>1. /\ Len(t.queue) = Len(s.queue) /\ t.queue[1] = j
          /\ \A i \in 1 .. Len(s.queue) : i # 1 => t.queue[i] = s.queue[i]
      BY <1>0, <1>1, <1>2, <1>3 DEF EmitterState
    <2>2. /\ t.queue[1].event = s.queue[1].event
          /\ t.flight # "none" => t.queue[1].attempt < TotalPosts
          /\ t.flight = "acked" => t.queue[1].event \in received'
      BY <1>0, <1>1, <1>2, <1>3, <1>7, <2>1
    <2>3. t \in EmitterState /\ s.queue # <<>> /\ EmitterSound(s, outbox, received)
      BY <1>0, <1>1, <1>2
    <2> HIDE DEF s
    <2>4. /\ EmitterSound(t, outbox, received')
          /\ Terminal(s.queue[1].event) =>
                /\ Posting(t) = (IF t.flight = "none" THEN 0 ELSE 1)
                /\ PostsLeft(t) = TotalPosts - t.queue[1].attempt - Posting(t)
                /\ Posting(s) = (IF s.flight = "none" THEN 0 ELSE 1)
                /\ PostsLeft(s) = TotalPosts - s.queue[1].attempt - Posting(s)
          /\ ~Terminal(s.queue[1].event) => /\ Posting(t) = 0 /\ Posting(s) = 0
                                            /\ PostsLeft(t) = PostsLeft(s)
      BY <2>1, <2>2, <2>3, HeadChanged
    <2> QED BY <1>0, <2>1, <2>2, <2>4
  <1>9. posted' \in Nat
    BY <1>2, <1>6
  <1>10. /\ PostsLeft(s) \in Nat /\ PostsLeft(t) \in Nat
    BY <1>2, <1>8, PostsCounted
  <1>11. /\ posted' + PostsLeft(t) <= posted + PostsLeft(s)
         /\ posted' + Posting(s) <= posted + Posting(t)
    <2>1. CASE Terminal(h.event)
      <3>1. /\ Posting(t) = 1 /\ Posting(s) = 0 /\ posted' = posted + 1
            /\ PostsLeft(t) = TotalPosts - h.attempt - 1 /\ PostsLeft(s) = TotalPosts - h.attempt - 0
        BY <1>1, <1>3, <1>4, <1>6, <1>8, <2>1
      <3> HIDE DEF s, h
      <3> QED BY <1>2, <1>3, <1>10, <3>1, Constants
    <2>2. CASE ~Terminal(h.event)
      <3>1. Posting(t) = 0 /\ Posting(s) = 0 /\ posted' = posted /\ PostsLeft(t) = PostsLeft(s)
        BY <1>3, <1>6, <1>8, <2>2
      <3> HIDE DEF s, h
      <3> QED BY <1>2, <1>10, <3>1
    <2> QED BY <2>1, <2>2
  <1>12. NoTerminal(outbox) => posted' = posted
    BY <1>2, <1>6, NoneRecorded
  <1>13. PostsCovered'
    BY <1>1, <1>2, <1>5, <1>8, <1>9, <1>11, <1>12, PostsTraded
  <1> QED BY <1>0, <1>1, <1>2, <1>5, <1>7, <1>8, <1>9, <1>13, EmitterMoves

\* The steps that end the first job: its row is not left pending if it is the
\* terminal one.
LEMMA PopKeeps ==
    ASSUME Inv, up, NEW e \in Emitter, em[e].queue # <<>>, Pop(e),
           UNCHANGED <<active, up, received, posted, allowed, left>>,
           SameEvents(outbox, outbox'),
           \A i \in 1 .. Len(outbox) :
              /\ outbox[i].event # HeadJob(e).event => outbox'[i] = outbox[i]
              /\ outbox[i].event = HeadJob(e).event /\ Terminal(outbox[i].event) =>
                    outbox'[i].status # "pending"
              /\ outbox'[i].status = "delivered" => outbox[i].event \in received,
           RowsSound(rows'), RowsKept(rows, rows')
    PROVE  Inv'
  <1> DEFINE s == em[e]
             t == [s EXCEPT !.queue = Tail(s.queue), !.flight = "none"]
  <1>1. /\ EmitterSound(s, outbox, received) /\ s \in EmitterState
        /\ em \in [Emitter -> EmitterState]
        /\ outbox \in Seq(OutboxRow) /\ received \subseteq Event /\ posted \in Nat
        /\ \A ev \in received : Recorded(ev, outbox)
        /\ HeadJob(e) = s.queue[1] /\ Recorded(HeadJob(e).event, outbox)
    BY EmitterBefore
  <1>2. em' = [em EXCEPT ![e] = t]
    BY <1>1 DEF Pop, EmitterState
  <1>0. /\ t \in EmitterState /\ t.queue = Tail(s.queue) /\ t.flight = "none"
        /\ t.seq = s.seq /\ t.started = s.started
    <2>1. s.queue \in Seq(Job) /\ Tail(s.queue) \in Seq(Job)
      BY <1>1 DEF EmitterState
    <2> QED BY <1>1, <2>1 DEF EmitterState
  <1> HIDE DEF t
  <1>3. /\ EmitterSound(t, outbox, received) /\ Posting(t) = 0
        /\ PostsLeft(t) <= PostsLeft(s)
        /\ ~Terminal(s.queue[1].event) => Posting(s) = 0
    BY <1>0, <1>1, Popped
  <1>4. PostsLeft(s) \in Nat /\ PostsLeft(t) \in Nat
    BY <1>1, <1>3, PostsCounted
  <1>5. posted' + PostsLeft(t) <= posted + PostsLeft(s)
    BY <1>1, <1>3, <1>4
  <1>6. LET l == Len(outbox)
        IN  outbox # <<>> /\ Terminal(outbox[l].event) /\ outbox'[l].status = "pending" =>
               /\ outbox[l].status = "pending" /\ outbox'[l].attempts = outbox[l].attempts
               /\ posted' + Posting(s) <= posted + Posting(t)
    <2> DEFINE l == Len(outbox)
    <2> SUFFICES ASSUME outbox # <<>>, Terminal(outbox[l].event), outbox'[l].status = "pending"
                 PROVE  /\ outbox[l].status = "pending" /\ outbox'[l].attempts = outbox[l].attempts
                        /\ posted' + Posting(s) <= posted + Posting(t)
      OBVIOUS
    <2>1. l \in 1 .. Len(outbox)
      BY <1>1
    <2>2. outbox[l].event # HeadJob(e).event /\ outbox'[l] = outbox[l]
      BY <2>1
    <2>3. ~Terminal(s.queue[1].event)
      BY <1>1, <2>2 DEF Recorded
    <2>4. posted' + Posting(s) <= posted + Posting(t)
      BY <1>1, <1>3, <2>3
    <2> QED BY <2>2, <2>4
  <1>7. PostsCovered'
    BY <1>1, <1>2, <1>3, <1>5, <1>6, PostsTraded
  <1>8. \A i \in 1 .. Len(outbox) : outbox'[i].status = "delivered" => outbox[i].event \in received'
    OBVIOUS
  <1> QED BY <1>0, <1>1, <1>2, <1>3, <1>7, <1>8, EmitterMoves

LEMMA AckedKeeps == ASSUME Inv, NEW e \in Emitter, Acked(e) PROVE Inv'
  <1> DEFINE ev == HeadJob(e).event
             n == HeadJob(e).attempt + 1
  <1>1. /\ up /\ em[e].flight = "acked" /\ Pop(e)
        /\ outbox' = Mark(ev, "delivered", n) /\ rows' = Delivered(ev)
        /\ UNCHANGED <<active, up, received, posted, allowed, left>>
    BY DEF Acked
  <1>2. /\ em[e].queue # <<>> /\ n \in 0 .. TotalPosts /\ HeadJob(e) = em[e].queue[1]
        /\ outbox \in Seq(OutboxRow) /\ RowsSound(rows)
        /\ EmitterSound(em[e], outbox, received)
        /\ \A i \in 1 .. Len(outbox) : outbox[i].status = "delivered" => outbox[i].event \in received
    BY <1>1, EmitterBefore
  <1>3. ev \in received
    BY <1>1, <1>2 DEF EmitterSound
  <1> HIDE DEF ev, n
  <1>4. /\ SameEvents(outbox, outbox')
        /\ \A i \in 1 .. Len(outbox) : /\ outbox[i].event # ev => outbox'[i] = outbox[i]
                                       /\ outbox[i].event = ev => outbox'[i].status = "delivered"
    BY <1>1, <1>2, MarkInPlace
  <1>5. RowsSound(rows') /\ RowsKept(rows, rows')
    BY <1>1, <1>2, DeliveredRows
  <1>6. \A i \in 1 .. Len(outbox) :
          /\ outbox[i].event # HeadJob(e).event => outbox'[i] = outbox[i]
          /\ outbox[i].event = HeadJob(e).event /\ Terminal(outbox[i].event) =>
                outbox'[i].status # "pending"
          /\ outbox'[i].status = "delivered" => outbox[i].event \in received
    BY <1>2, <1>3, <1>4 DEF ev
  <1> QED BY <1>1, <1>2, <1>4, <1>5, <1>6, PopKeeps

LEMMA ExhaustedKeeps == ASSUME Inv, NEW e \in Emitter, Exhausted(e) PROVE Inv'
  <1> DEFINE ev == HeadJob(e).event
             n == HeadJob(e).attempt
  <1>1. /\ up /\ em[e].queue # <<>> /\ Pop(e) /\ rows' = Failed(ev)
        /\ UNCHANGED <<active, up, received, posted, allowed, left>>
    BY DEF Exhausted
  <1>2. \/ em[e].flight # "none" /\ outbox' = Mark(ev, "permanent_failure", n + 1)
        \/ outbox' = GivenUp(ev)
    BY DEF Exhausted, GivenUp
  <1>3. /\ outbox \in Seq(OutboxRow) /\ RowsSound(rows)
        /\ em[e].flight # "none" => n + 1 \in 0 .. TotalPosts
        /\ \A i \in 1 .. Len(outbox) : outbox[i].status = "delivered" => outbox[i].event \in received
    BY EmitterBefore
  <1> HIDE DEF ev, n
  <1>4. /\ SameEvents(outbox, outbox')
        /\ \A i \in 1 .. Len(outbox) : /\ outbox[i].event # ev => outbox'[i] = outbox[i]
                                       /\ outbox[i].event = ev => outbox'[i].status = "permanent_failure"
    <2>1. CASE em[e].flight # "none" /\ outbox' = Mark(ev, "permanent_failure", n + 1)
      BY <1>3, <2>1, MarkInPlace
    <2>2. CASE outbox' = GivenUp(ev)
      BY <1>3, <2>2, StatusInPlace
    <2> QED BY <1>2, <2>1, <2>2
  <1>5. RowsSound(rows') /\ RowsKept(rows, rows')
    BY <1>1, <1>3, FailedRows
  <1>6. \A i \in 1 .. Len(outbox) :
          /\ outbox[i].event # HeadJob(e).event => outbox'[i] = outbox[i]
          /\ outbox[i].event = HeadJob(e).event /\ Terminal(outbox[i].event) =>
                outbox'[i].status # "pending"
          /\ outbox'[i].status = "delivered" => outbox[i].event \in received
    BY <1>3, <1>4 DEF ev
  <1> QED BY <1>1, <1>4, <1>5, <1>6, PopKeeps

LEMMA BestEffortKeeps == ASSUME Inv, NEW e \in Emitter, BestEffort(e) PROVE Inv'
  <1>1. /\ up /\ em[e].queue # <<>> /\ Pop(e) /\ ~Durable(e)
        /\ UNCHANGED <<rows, outbox, active, up, received, posted, allowed, left>>
    BY DEF BestEffort
  <1>2. /\ RowsSound(rows) /\ RowsKept(rows, rows) /\ SameEvents(outbox, outbox)
        /\ \A i \in 1 .. Len(outbox) : outbox[i].status = "delivered" => outbox[i].event \in received
    BY EmitterBefore
  <1>3. ~Terminal(HeadJob(e).event)
    BY <1>1 DEF Durable, DurableType, Terminal
  <1>4. \A i \in 1 .. Len(outbox) :
          /\ outbox[i].event # HeadJob(e).event => outbox'[i] = outbox[i]
          /\ outbox[i].event = HeadJob(e).event /\ Terminal(outbox[i].event) =>
                outbox'[i].status # "pending"
          /\ outbox'[i].status = "delivered" => outbox[i].event \in received
    BY <1>1, <1>2, <1>3
  <1>5. SameEvents(outbox, outbox') /\ RowsSound(rows') /\ RowsKept(rows, rows')
    BY <1>1, <1>2
  <1> QED BY <1>1, <1>4, <1>5, PopKeeps

LEMMA UnackedKeeps == ASSUME Inv, NEW e \in Emitter, Unacked(e) PROVE Inv'
  <1> DEFINE s == em[e]
             h == s.queue[1]
             n == h.attempt + 1
             j == [h EXCEPT !.attempt = n]
             t == [s EXCEPT !.queue = [s.queue EXCEPT ![1] = j], !.flight = "none"]
  <1>1. /\ up /\ s.flight = "unacked"
        /\ UNCHANGED <<rows, active, up, received, posted, allowed, left>>
    BY DEF Unacked
  <1>2. /\ EmitterSound(s, outbox, received) /\ s \in EmitterState
        /\ em \in [Emitter -> EmitterState]
        /\ outbox \in Seq(OutboxRow) /\ received \subseteq Event /\ posted \in Nat
        /\ RowsSound(rows) /\ RowsKept(rows, rows)
        /\ \A ev \in received : Recorded(ev, outbox)
        /\ \A i \in 1 .. Len(outbox) : outbox[i].status = "delivered" => outbox[i].event \in received
        /\ s.queue # <<>> /\ HeadJob(e) = h /\ h \in Job /\ Recorded(h.event, outbox)
        /\ n \in 0 .. TotalPosts
    BY <1>1, EmitterBefore
  <1>3. /\ j \in Job /\ j.event = h.event /\ j.attempt = n /\ h.attempt \in 0 .. TotalPosts
    BY <1>2 DEF Job
  <1>4. em' = [em EXCEPT ![e] = t]
    <2>1. s.queue \in Seq(Job) /\ 1 \in DOMAIN s.queue
      BY <1>2 DEF EmitterState
    <2>2. em' = [em EXCEPT ![e].flight = "none", ![e].queue[1].attempt = @ + 1]
      BY DEF Unacked
    <2> QED BY <1>2, <2>1, <2>2 DEF EmitterState
  <1>5. outbox' = RecordAttempt(h.event, n)
    BY <1>2 DEF Unacked
  <1>0. /\ t \in EmitterState /\ t.queue = [s.queue EXCEPT ![1] = j] /\ t.flight = "none"
        /\ t.seq = s.seq /\ t.started = s.started
    <2> HIDE DEF j
    <2>1. s.queue \in Seq(Job) /\ [s.queue EXCEPT ![1] = j] \in Seq(Job)
      BY <1>2, <1>3 DEF EmitterState
    <2> QED BY <1>2, <2>1 DEF EmitterState
  <1> HIDE DEF t, j
  <1>6. /\ SameEvents(outbox, outbox')
        /\ \A i \in 1 .. Len(outbox) :
             /\ outbox[i].event # h.event => outbox'[i] = outbox[i]
             /\ outbox[i].event = h.event => /\ outbox'[i].status = outbox[i].status
                                             /\ outbox'[i].attempts = n
    BY <1>2, <1>5, AttemptInPlace, SMTT(30)
  <1>7. \A i \in 1 .. Len(outbox) : outbox'[i].status = "delivered" => outbox[i].event \in received'
    BY <1>1, <1>2, <1>6
  <1>8. /\ EmitterSound(t, outbox, received)
        /\ Terminal(j.event) => /\ Posting(t) = 0
                                /\ PostsLeft(t) = TotalPosts - j.attempt - Posting(t)
                                /\ Posting(s) = (IF s.flight = "none" THEN 0 ELSE 1)
                                /\ PostsLeft(s) = TotalPosts - s.queue[1].attempt - Posting(s)
        /\ ~Terminal(j.event) => /\ Posting(t) = 0 /\ Posting(s) = 0
                                 /\ PostsLeft(t) = PostsLeft(s)
    <2>1. /\ Len(t.queue) = Len(s.queue) /\ t.queue[1] = j
          /\ \A i \in 1 .. Len(s.queue) : i # 1 => t.queue[i] = s.queue[i]
      BY <1>0, <1>1, <1>2, <1>3 DEF EmitterState
    <2>2. t.queue[1].event = s.queue[1].event /\ t.flight = "none"
      BY <1>0, <1>3, <2>1
    <2>3. t \in EmitterState /\ s.queue # <<>> /\ EmitterSound(s, outbox, received)
      BY <1>0, <1>1, <1>2
    <2> HIDE DEF s
    <2>4. /\ EmitterSound(t, outbox, received)
          /\ Terminal(s.queue[1].event) =>
                /\ Posting(t) = (IF t.flight = "none" THEN 0 ELSE 1)
                /\ PostsLeft(t) = TotalPosts - t.queue[1].attempt - Posting(t)
                /\ Posting(s) = (IF s.flight = "none" THEN 0 ELSE 1)
                /\ PostsLeft(s) = TotalPosts - s.queue[1].attempt - Posting(s)
          /\ ~Terminal(s.queue[1].event) => /\ Posting(t) = 0 /\ Posting(s) = 0
                                            /\ PostsLeft(t) = PostsLeft(s)
      BY <2>1, <2>2, <2>3, HeadChanged
    <2> QED BY <2>1, <2>2, <2>4
  <1>9. PostsLeft(s) \in Nat /\ PostsLeft(t) \in Nat
    BY <1>2, <1>8, PostsCounted
  <1>10. /\ PostsLeft(t) = PostsLeft(s)
         /\ Terminal(h.event) => PostsLeft(t) = TotalPosts - n
         /\ ~Terminal(h.event) => Posting(t) = 0 /\ Posting(s) = 0
    <2>1. CASE Terminal(h.event)
      <3>1. /\ Posting(t) = 0 /\ Posting(s) = 1
            /\ PostsLeft(t) = TotalPosts - n - 0 /\ PostsLeft(s) = TotalPosts - h.attempt - 1
        BY <1>1, <1>3, <1>8, <2>1
      <3> HIDE DEF s, h
      <3> QED BY <1>3, <1>9, <2>1, <3>1, Constants
    <2>2. CASE ~Terminal(h.event)
      BY <1>3, <1>8, <2>2
    <2> QED BY <2>1, <2>2
  <1>11. LET l == Len(outbox)
         IN  outbox # <<>> /\ Terminal(outbox[l].event) /\ outbox'[l].status = "pending" =>
                \/ /\ outbox[l].status = "pending" /\ outbox'[l].attempts = outbox[l].attempts
                   /\ posted' + Posting(s) <= posted + Posting(t)
                \/ TotalPosts - outbox'[l].attempts <= PostsLeft(t)
    <2> DEFINE l == Len(outbox)
    <2> SUFFICES ASSUME outbox # <<>>, Terminal(outbox[l].event), outbox'[l].status = "pending"
                 PROVE  \/ /\ outbox[l].status = "pending" /\ outbox'[l].attempts = outbox[l].attempts
                           /\ posted' + Posting(s) <= posted + Posting(t)
                        \/ TotalPosts - outbox'[l].attempts <= PostsLeft(t)
      OBVIOUS
    <2>1. l \in 1 .. Len(outbox)
      BY <1>2
    <2>2. CASE outbox[l].event = h.event
      <3>1. outbox'[l].attempts = n /\ PostsLeft(t) = TotalPosts - n
        BY <1>6, <1>10, <2>1, <2>2
      <3> HIDE DEF s, h
      <3> QED BY <1>9, <3>1
    <2>3. CASE outbox[l].event # h.event
      <3>1. outbox'[l] = outbox[l] /\ ~Terminal(h.event)
        BY <1>2, <1>6, <2>1, <2>3 DEF Recorded
      <3>2. posted' + Posting(s) <= posted + Posting(t)
        BY <1>1, <1>2, <1>10, <3>1
      <3> QED BY <3>1, <3>2
    <2> QED BY <2>2, <2>3
  <1>12. posted' + PostsLeft(t) <= posted + PostsLeft(s)
    BY <1>1, <1>2, <1>9, <1>10
  <1>13. PostsCovered'
    BY <1>1, <1>2, <1>4, <1>6, <1>8, <1>11, <1>12, PostsTraded
  <1> QED BY <1>0, <1>1, <1>2, <1>4, <1>6, <1>7, <1>8, <1>13, EmitterMoves

\* An emitter that is closed, or has nothing queued.
LEMMA QueueEmpty ==
    ASSUME NEW s \in EmitterState, s.queue = <<>>, s.flight = "none", NEW ob, NEW rec
    PROVE  EmitterSound(s, ob, rec) /\ PostsLeft(s) = 0 /\ Posting(s) = 0
  BY DEF EmitterSound, TerminalLast, PostsLeft, HasTerminal, Posting

LEMMA ClosedSound ==
    ASSUME NEW ob, NEW rec
    PROVE  /\ EmitterSound(Closed, ob, rec) /\ Closed \in EmitterState
           /\ PostsLeft(Closed) = 0 /\ Posting(Closed) = 0
  <1>1. Closed \in EmitterState /\ Closed.queue = <<>> /\ Closed.flight = "none"
    BY DEF Closed, EmitterState
  <1> HIDE DEF Closed
  <1> QED BY <1>1, QueueEmpty

LEMMA CloseKeeps == ASSUME Inv, NEW e \in Emitter, Close(e) PROVE Inv'
  <1>1. /\ up /\ em[e].queue = <<>> /\ em' = [em EXCEPT ![e] = Closed]
        /\ active' = IF active = e THEN None ELSE active
        /\ UNCHANGED <<rows, outbox, up, received, posted, allowed, left>>
    BY DEF Close
  <1>2. /\ EmitterSound(em[e], outbox, received) /\ em[e] \in EmitterState
        /\ outbox \in Seq(OutboxRow) /\ received \subseteq Event /\ posted \in Nat
        /\ RowsSound(rows) /\ RowsKept(rows, rows)
        /\ \A ev \in received : Recorded(ev, outbox)
        /\ \A i \in 1 .. Len(outbox) : outbox[i].status = "delivered" => outbox[i].event \in received
        /\ SameEvents(outbox, outbox) /\ em[e].flight = "none"
    BY <1>1, EmitterBefore
  <1>3. PostsLeft(em[e]) = 0 /\ Posting(em[e]) = 0
    BY <1>1, <1>2, QueueEmpty
  <1>4. EmitterSound(Closed, outbox, received) /\ PostsLeft(Closed) = 0 /\ Posting(Closed) = 0
    BY ClosedSound
  <1>5. posted' + PostsLeft(Closed) <= posted + PostsLeft(em[e])
        /\ posted' + Posting(em[e]) <= posted + Posting(Closed)
        /\ posted' \in Nat
    BY <1>1, <1>2, <1>3, <1>4
  <1>6. active' = "turn" => e # "turn"
    BY <1>1, Constants
  <1> HIDE DEF Closed
  <1>7. SameEvents(outbox, outbox')
    BY <1>1, <1>2
  <1>8. LET l == Len(outbox)
        IN  outbox # <<>> /\ Terminal(outbox[l].event) /\ outbox'[l].status = "pending" =>
               \/ /\ outbox[l].status = "pending" /\ outbox'[l].attempts = outbox[l].attempts
                  /\ posted' + Posting(em[e]) <= posted + Posting(Closed)
               \/ TotalPosts - outbox'[l].attempts <= PostsLeft(Closed)
    BY <1>1, <1>5
  <1>9. PostsCovered'
    BY <1>1, <1>4, <1>5, <1>7, <1>8, PostsTraded
  <1>10. /\ \A i \in 1 .. Len(outbox) : outbox'[i].status = "delivered" => outbox[i].event \in received'
         /\ RowsSound(rows') /\ RowsKept(rows, rows') /\ active' \in {active, None}
         /\ received \subseteq received' /\ received' \subseteq Event
         /\ \A ev \in received' : Recorded(ev, outbox)
         /\ EmitterSound(Closed, outbox, received')
    BY <1>1, <1>2, <1>4
  <1> QED BY <1>1, <1>5, <1>6, <1>7, <1>9, <1>10, EmitterMoves

-----------------------------------------------------------------------------
(***************************************************************************)
(* The messages of the turn.                                               *)
(***************************************************************************)

\* Only the rows of the messages change.
LEMMA RowsMove ==
    ASSUME Inv, RowsSound(rows'), StoresAgree(rows', outbox),
           UNCHANGED <<outbox, em, active, up, received, posted, allowed, left>>,
           rows[Opener] # NoRow /\ Undecided(rows) => rows'[Opener] # NoRow /\ Undecided(rows')
    PROVE  Inv'
  <1>1. TypeOK'
    BY DEF Inv, TypeOK, RowsSound
  <1>2. TurnSound' /\ DownQuiet' /\ PostsCovered'
    BY DEF Inv, TurnSound, DownQuiet, PostsCovered
  <1>3. /\ OutboxSound(outbox', received') /\ StoresAgree(rows', outbox')
        /\ \A e \in Emitter : EmitterSound(em'[e], outbox', received')
        /\ \A ev \in received' : Recorded(ev, outbox')
    BY DEF Inv
  <1> QED BY <1>1, <1>2, <1>3 DEF Inv

LEMMA JoinKeeps == ASSUME Inv, NEW m \in Message, Join(m) PROVE Inv'
  <1>1. /\ active = "turn" /\ rows[m] = NoRow /\ rows' = Insert(rows, m, "own", Opener)
        /\ UNCHANGED <<outbox, em, active, up, received, posted, allowed, left>>
    BY DEF Join, InTurn
  <1>2. /\ RowsSound(rows) /\ rows[Opener] # NoRow /\ Undecided(rows) /\ NoTerminal(outbox)
        /\ StoresAgree(rows, outbox)
    BY <1>1 DEF Inv, TurnSound
  <1>3. RowsSound(rows') /\ rows'[Opener] # NoRow /\ Undecided(rows')
    BY <1>1, <1>2, InsertedRows DEF Undecided
  <1>4. StoresAgree(rows', outbox)
    BY <1>2, <1>3 DEF StoresAgree, NoTerminal, Terminal, TerminalType
  <1> QED BY <1>1, <1>3, <1>4, RowsMove

LEMMA AcknowledgeKeeps == ASSUME Inv, NEW m \in Message, Acknowledge(m) PROVE Inv'
  <1> DEFINE rt == MarkIngestComplete(rows, m)
  <1>1. /\ rows[m] # NoRow /\ rows' = rt
        /\ UNCHANGED <<outbox, em, active, up, received, posted, allowed, left>>
    BY DEF Acknowledge, IngestPending
  <1>2. RowsSound(rows) /\ StoresAgree(rows, outbox)
    BY DEF Inv
  <1>3. /\ RowsSound(rt)
        /\ \A n \in Message : /\ rt[n] = NoRow <=> rows[n] = NoRow
                              /\ IngestPending(rt, n) => IngestPending(rows, n)
                              /\ rt[n] # NoRow => /\ rt[n].response = rows[n].response
                                                  /\ rt[n].delivery = rows[n].delivery
    BY <1>1, <1>2, CompletedRows
  <1> HIDE DEF rt
  <1>4. /\ rt[Opener] = NoRow <=> rows[Opener] = NoRow
        /\ rt[Opener] # NoRow => rt[Opener].response = rows[Opener].response
        /\ Undecided(rt) <=> Undecided(rows)
    BY <1>3, Constants DEF Undecided
  <1>5. StoresAgree(rt, outbox)
    BY <1>2, <1>3, <1>4 DEF StoresAgree
  <1> QED BY <1>1, <1>3, <1>4, <1>5, RowsMove

\* A new emitter: it goes on after the last row.
LEMMA Constructed ==
    ASSUME NEW ob \in Seq(OutboxRow)
    PROVE  LET c == Construct(ob)
           IN  /\ c \in EmitterState /\ c.queue = <<>> /\ c.flight = "none"
               /\ c.seq = IF ob = <<>> THEN 0 ELSE ob[Len(ob)].event.no
               /\ NoTerminal(ob) => c.started = FALSE
  <1> DEFINE done == \E i \in DOMAIN ob : ob[i].event.type \in TerminalType
             sq == IF ob = <<>> THEN 0 ELSE ob[Len(ob)].event.no
             c == Construct(ob)
  <1>1. c = [Closed EXCEPT !.open = TRUE, !.seq = sq, !.started = done, !.terminal = done]
    BY DEF Construct
  <1>2. done \in BOOLEAN /\ (NoTerminal(ob) => done = FALSE)
    BY DEF NoTerminal, Terminal
  <1>3. sq \in Nat
    <2>1. CASE ob # <<>>
      <3>1. Len(ob) \in 1 .. Len(ob)
        BY <2>1
      <3>2. ob[Len(ob)] \in OutboxRow
        BY <3>1, ElementOfSeq
      <3> QED BY <2>1, <3>2 DEF OutboxRow, Event
    <2> QED BY <2>1
  <1>4. Closed \in EmitterState /\ Closed.queue = <<>> /\ Closed.flight = "none"
    BY DEF Closed, EmitterState
  <1> HIDE DEF done, sq, c
  <1>5. /\ c.open = TRUE /\ c.seq = sq /\ c.started = done /\ c.terminal = done
        /\ c.queue = <<>> /\ c.flight = "none" /\ c \in EmitterState
    BY <1>1, <1>2, <1>3, <1>4 DEF EmitterState
  <1> QED BY <1>2, <1>5 DEF sq, c

\* A step of the turn's emitter, while no terminal event is recorded.
LEMMA TurnMoves ==
    ASSUME Inv, up, UNCHANGED <<up, received, posted, allowed>>, NoTerminal(outbox),
           left' \in [deltas : Nat, dups : Nat, crashes : Nat], left'.deltas <= left.deltas,
           NEW t, em' = [em EXCEPT !["turn"] = t], EmitterSound(t, outbox', received),
           OutboxSound(outbox', received), RowsSound(rows'), StoresAgree(rows', outbox'),
           active' \in Emitter \cup {None},
           active' = "turn" =>
              /\ rows'[Opener] # NoRow /\ Undecided(rows') /\ NoTerminal(outbox')
              /\ t.seq + left'.deltas <= MaxDeltas + (IF t.started THEN 1 ELSE 0)
    PROVE  Inv'
  <1>1. /\ em \in [Emitter -> EmitterState] /\ left \in [deltas : Nat, dups : Nat, crashes : Nat]
        /\ posted \in Nat /\ allowed \in Nat /\ t \in EmitterState
        /\ outbox \in Seq(OutboxRow) /\ outbox' \in Seq(OutboxRow)
    BY DEF Inv, TypeOK, EmitterSound, OutboxSound
  <1>2. em' \in [Emitter -> EmitterState] /\ em'["turn"] = t /\ em'["again"] = em["again"]
    BY <1>1 DEF Emitter
  <1>3. TypeOK'
    BY <1>1, <1>2 DEF Inv, TypeOK, RowsSound
  <1>4. EmitterSound(em["again"], outbox, received)
    BY DEF Inv, Emitter
  <1>5. \A i \in 1 .. Len(em["again"].queue) : ~Terminal(em["again"].queue[i].event)
    BY <1>1, <1>4, NoneRecorded DEF EmitterSound
  <1>6. EmitterSound(em["again"], outbox', received)
    BY <1>4, <1>5 DEF EmitterSound, Recorded
  <1>7. \A e \in Emitter : EmitterSound(em'[e], outbox', received')
    BY <1>2, <1>6 DEF Emitter
  <1>8. \A ev \in received' : Recorded(ev, outbox')
    <2>1. \A ev \in received : ~Terminal(ev)
      BY <1>1, NoneRecorded DEF Inv
    <2> QED BY <2>1 DEF Recorded
  <1>9. TurnSound'
    <2>1. left'.deltas <= MaxDeltas
      BY <1>1, Constants DEF Inv, TurnSound
    <2> QED BY <1>2, <2>1 DEF TurnSound
  <1>10. PostsCovered'
    <2>1. PostsLeft(em["again"]) = 0 /\ Posting(em["again"]) = 0
      BY <1>4, <1>5, PostsCounted DEF NoTerminal
    <2>2. PostsLeft(t) \in Nat /\ Posting(t) \in {0, 1} /\ PostsLeft(t) <= TotalPosts
      BY PostsCounted
    <2>3. posted = 0 /\ TotalPosts <= allowed
      BY DEF Inv, PostsCovered
    <2>4. posted' + PostsLeft(em'["turn"]) + PostsLeft(em'["again"]) <= allowed'
      BY <1>1, <1>2, <2>1, <2>2, <2>3, Constants
    <2>5. ASSUME outbox' # <<>>
          PROVE  posted' + (TotalPosts - outbox'[Len(outbox')].attempts)
                    <= allowed' + Posting(em'["turn"]) + Posting(em'["again"])
      <3>1. Len(outbox') \in 1 .. Len(outbox')
        BY <1>1, <2>5
      <3>2. outbox'[Len(outbox')] \in OutboxRow
        BY <1>1, <3>1, ElementOfSeq
      <3>3. outbox'[Len(outbox')].attempts \in 0 .. TotalPosts
        BY <3>2 DEF OutboxRow
      <3> QED BY <1>1, <1>2, <2>1, <2>2, <2>3, <3>3, Constants, SMTT(30)
    <2> QED BY <2>3, <2>4, <2>5 DEF PostsCovered
  <1>11. DownQuiet'
    BY DEF DownQuiet
  <1> QED BY <1>3, <1>7, <1>8, <1>9, <1>10, <1>11 DEF Inv

LEMMA ActivateKeeps == ASSUME Inv, Activate PROVE Inv'
  <1> DEFINE c == Construct(outbox)
  <1>1. /\ up /\ rows = EmptyStore /\ rows' = Insert(rows, Opener, "own", Opener)
        /\ em' = [em EXCEPT !["turn"] = c] /\ active' = "turn"
        /\ UNCHANGED <<outbox, up, received, posted, allowed, left>>
    BY DEF Activate
  <1>2. /\ rows[Opener] = NoRow /\ outbox = <<>> /\ RowsSound(rows) /\ Undecided(rows)
        /\ outbox \in Seq(OutboxRow) /\ OutboxSound(outbox, received)
    BY <1>1, Constants DEF EmptyStore, Inv, StoresAgree, Undecided, TypeOK
  <1>3. RowsSound(rows') /\ rows'[Opener] # NoRow /\ Undecided(rows')
    BY <1>1, <1>2, Constants, InsertedRows DEF Undecided
  <1>4. NoTerminal(outbox) /\ StoresAgree(rows', outbox)
    BY <1>2, <1>3 DEF NoTerminal, StoresAgree
  <1>5. /\ c \in EmitterState /\ c.queue = <<>> /\ c.flight = "none" /\ c.seq = 0
        /\ c.started = FALSE
    BY <1>2, <1>4, Constructed
  <1> HIDE DEF c
  <1>6. EmitterSound(c, outbox, received)
    BY <1>5, QueueEmpty
  <1>7. left \in [deltas : Nat, dups : Nat, crashes : Nat] /\ left.deltas <= MaxDeltas
    BY DEF Inv, TypeOK, TurnSound
  <1>8. left'.deltas <= left.deltas /\ c.seq + left'.deltas <= MaxDeltas + (IF c.started THEN 1 ELSE 0)
    BY <1>1, <1>5, <1>7, Constants
  <1>9. active' \in Emitter \cup {None}
    BY <1>1 DEF Emitter
  <1> QED BY <1>1, <1>2, <1>3, <1>4, <1>6, <1>7, <1>8, <1>9, TurnMoves

\* Jobs are added to a queue without a terminal event.
LEMMA QueueExtended ==
    ASSUME NEW s, NEW ob, NEW rec, EmitterSound(s, ob, rec), NoTerminal(s.queue),
           NEW t \in EmitterState, t.flight = s.flight, Len(s.queue) < Len(t.queue),
           \A i \in 1 .. Len(s.queue) : t.queue[i] = s.queue[i],
           NEW oc, TerminalLast(t.queue),
           \A i \in 1 .. Len(t.queue) : Recorded(t.queue[i].event, oc)
    PROVE  EmitterSound(t, oc, rec)
  <1>1. s.queue \in Seq(Job) /\ t.queue \in Seq(Job)
    BY DEF EmitterSound, EmitterState
  <1>2. ASSUME s.flight # "none" PROVE t.queue # <<>> /\ t.queue[1] = s.queue[1]
    <2>1. 1 \in 1 .. Len(s.queue)
      BY <1>1, <1>2 DEF EmitterSound
    <2> QED BY <1>1, <2>1
  <1> QED BY <1>2 DEF EmitterSound

LEMMA HandleMessageUpdateKeeps == ASSUME Inv, HandleMessageUpdate PROVE Inv'
  <1> DEFINE s == em["turn"]
             t == EmitDelta(s)
             ev == [no |-> s.seq + 1, type |-> "turn.delta"]
             j == NewJob(ev, 0)
  <1>1. /\ up /\ active = "turn" /\ left.deltas > 0
        /\ left' = [left EXCEPT !.deltas = @ - 1]
        /\ UNCHANGED <<rows, outbox, active, up, received, posted, allowed>>
    BY DEF HandleMessageUpdate, InTurn
  <1>2. /\ EmitterSound(s, outbox, received) /\ s \in EmitterState
        /\ em \in [Emitter -> EmitterState] /\ outbox \in Seq(OutboxRow)
        /\ left \in [deltas : Nat, dups : Nat, crashes : Nat]
        /\ OutboxSound(outbox, received) /\ RowsSound(rows) /\ StoresAgree(rows, outbox)
    BY DEF Inv, TypeOK, Emitter
  <1>3. /\ rows[Opener] # NoRow /\ Undecided(rows) /\ NoTerminal(outbox)
        /\ s.seq + left.deltas <= MaxDeltas + (IF s.started THEN 1 ELSE 0)
    BY <1>1 DEF Inv, TurnSound
  <1>4. s.seq \in Nat /\ s.queue \in Seq(Job)
    BY <1>2 DEF EmitterState
  <1>5. j \in Job /\ ~Terminal(j.event)
    BY <1>4, Constants DEF NewJob, Job, Event, Terminal, TerminalType, AnswerType
  <1>6. em' = [em EXCEPT !["turn"] = t]
    BY <1>2 DEF HandleMessageUpdate, Emitter
  <1>7. t = [s EXCEPT !.seq = s.seq + 1, !.queue = Append(s.queue, j)]
    BY <1>2 DEF EmitDelta, EmitterState
  <1> HIDE DEF j, t
  <1>8. /\ t \in EmitterState /\ t.seq = s.seq + 1 /\ t.started = s.started
        /\ t.flight = s.flight /\ t.queue = Append(s.queue, j)
    <2>1. Append(s.queue, j) \in Seq(Job) /\ s.seq + 1 \in Nat
      BY <1>4, <1>5
    <2> QED BY <1>2, <1>7, <2>1 DEF EmitterState
  <1>9. NoTerminal(s.queue)
    BY <1>2, <1>3, NoneRecorded DEF EmitterSound, NoTerminal
  <1>10. /\ Len(t.queue) = Len(s.queue) + 1 /\ Len(s.queue) \in Nat
         /\ \A i \in 1 .. Len(s.queue) : t.queue[i] = s.queue[i]
         /\ t.queue[Len(s.queue) + 1] = j
    BY <1>4, <1>5, <1>8, AppendProperties
  <1>11. \A i \in 1 .. Len(t.queue) : ~Terminal(t.queue[i].event)
    <2>1. ASSUME NEW i \in 1 .. Len(t.queue) PROVE i \in 1 .. Len(s.queue) \/ i = Len(s.queue) + 1
      BY <1>10
    <2> QED BY <1>5, <1>9, <1>10, <2>1 DEF NoTerminal
  <1>12. /\ TerminalLast(t.queue)
         /\ \A i \in 1 .. Len(t.queue) : Recorded(t.queue[i].event, outbox)
         /\ Len(s.queue) < Len(t.queue)
    BY <1>10, <1>11 DEF TerminalLast, Recorded
  <1> HIDE DEF s
  <1>13. EmitterSound(t, outbox, received)
    BY <1>2, <1>8, <1>9, <1>10, <1>12, QueueExtended
  <1>14. /\ left' \in [deltas : Nat, dups : Nat, crashes : Nat] /\ left'.deltas = left.deltas - 1
         /\ left.deltas \in Nat
    BY <1>1, <1>2
  <1>15. left'.deltas <= left.deltas /\ t.seq + left'.deltas <= MaxDeltas + (IF t.started THEN 1 ELSE 0)
    <2>1. t.seq + left'.deltas = s.seq + left.deltas
      BY <1>4, <1>8, <1>14
    <2> QED BY <1>3, <1>8, <1>14, <2>1
  <1>16. active' \in Emitter \cup {None}
    BY <1>1 DEF Emitter
  <1> QED BY <1>1, <1>2, <1>3, <1>6, <1>13, <1>14, <1>15, <1>16, TurnMoves

-----------------------------------------------------------------------------
(***************************************************************************)
(* An emission: rows are appended to the outbox and jobs to the queue.     *)
(***************************************************************************)

\* c is a followed by b.
IsJoin(c, a, b) ==
    /\ Len(c) = Len(a) + Len(b)
    /\ \A i \in 1 .. Len(a) : c[i] = a[i]
    /\ \A i \in 1 .. Len(b) : c[Len(a) + i] = b[i]
    /\ \A i \in 1 .. Len(c) : i \in 1 .. Len(a) \/ \E k \in 1 .. Len(b) : i = Len(a) + k

LEMMA Joined ==
    ASSUME NEW S, NEW a \in Seq(S), NEW b \in Seq(S)
    PROVE  a \o b \in Seq(S) /\ IsJoin(a \o b, a, b)
  <1>1. /\ a \o b \in Seq(S) /\ Len(a \o b) = Len(a) + Len(b)
        /\ \A i \in 1 .. Len(a) + Len(b) :
              (a \o b)[i] = IF i <= Len(a) THEN a[i] ELSE b[i - Len(a)]
    BY ConcatProperties
  <1> DEFINE m == Len(a)
             n == Len(b)
             c == a \o b
  <1>2. /\ c \in Seq(S) /\ Len(c) = m + n
        /\ \A i \in 1 .. m + n : c[i] = IF i <= m THEN a[i] ELSE b[i - m]
    BY <1>1
  <1>3. m \in Nat /\ n \in Nat
    OBVIOUS
  <1> HIDE DEF m, n, c
  <1>4. \A i \in 1 .. m : c[i] = a[i]
    BY <1>2, <1>3
  <1>5. ASSUME NEW i \in 1 .. n PROVE c[m + i] = b[i]
    <2>1. m + i \in 1 .. m + n /\ ~(m + i <= m) /\ (m + i) - m = i
      BY <1>3
    <2> QED BY <1>2, <2>1
  <1>6. ASSUME NEW i \in 1 .. m + n PROVE i \in 1 .. m \/ \E k \in 1 .. n : i = m + k
    <2>1. CASE i <= m
      BY <1>3, <2>1
    <2>2. CASE i > m
      <3>1. i - m \in 1 .. n /\ i = m + (i - m)
        BY <1>3, <2>2
      <3> QED BY <3>1
    <2> QED BY <1>3, <2>1, <2>2
  <1>7. IsJoin(c, a, b)
    BY <1>2, <1>4, <1>5, <1>6 DEF m, n, IsJoin
  <1> QED BY <1>2, <1>7 DEF c

\* The rows and the jobs of the events of an emission.
PendingRows(evs, n) == [i \in 1 .. n |-> PendingRow(evs[i])]

NewJobs(evs, n) == [i \in 1 .. n |-> NewJob(evs[i], 0)]

LEMMA RowsAndJobs ==
    ASSUME NEW evs \in Seq(Event), NEW n \in 0 .. Len(evs)
    PROVE  /\ PendingRows(evs, n) \in Seq(OutboxRow) /\ Len(PendingRows(evs, n)) = n
           /\ \A i \in 1 .. n : PendingRows(evs, n)[i] = PendingRow(evs[i])
           /\ NewJobs(evs, n) \in Seq(Job) /\ Len(NewJobs(evs, n)) = n
           /\ \A i \in 1 .. n : NewJobs(evs, n)[i] = NewJob(evs[i], 0)
  <1>1. n \in Nat /\ \A i \in 1 .. n : evs[i] \in Event
    <2>1. \A i \in 1 .. n : i \in 1 .. Len(evs)
      OBVIOUS
    <2> QED BY <2>1, ElementOfSeq
  <1>2. \A i \in 1 .. n : PendingRow(evs[i]) \in OutboxRow /\ NewJob(evs[i], 0) \in Job
    BY <1>1, Constants DEF PendingRow, OutboxRow, NewJob, Job
  <1>3. /\ PendingRows(evs, n) \in [1 .. n -> OutboxRow] /\ NewJobs(evs, n) \in [1 .. n -> Job]
    BY <1>2 DEF PendingRows, NewJobs
  <1>4. /\ PendingRows(evs, n) \in Seq(OutboxRow) /\ Len(PendingRows(evs, n)) = n
        /\ NewJobs(evs, n) \in Seq(Job) /\ Len(NewJobs(evs, n)) = n
    BY <1>1, <1>3
  <1> QED BY <1>4 DEF PendingRows, NewJobs

\* The events of an emission: the last one has the type asked for, and another one
\* before it starts the turn.
LEMMA EmissionShape ==
    ASSUME NEW s \in EmitterState, NEW type \in DurableType, NEW starts \in BOOLEAN
    PROVE  LET evs == Emission(s, type, starts)
               n == Len(evs)
           IN  /\ evs \in Seq(Event) /\ n \in {1, 2}
               /\ evs[n].type = type /\ evs[n].no = s.seq + n
               /\ n = 2 => starts /\ ~s.started /\ evs[1].type = "turn.started"
               /\ n = 1 => ~starts \/ s.started
  <1>1. /\ s.seq + 1 \in Nat /\ s.seq + 2 \in Nat
        /\ [no |-> s.seq + 1, type |-> "turn.started"] \in Event
        /\ [no |-> s.seq + 2, type |-> type] \in Event /\ [no |-> s.seq + 1, type |-> type] \in Event
    BY DEF EmitterState, Event, DurableType
  <1>2. CASE starts /\ ~s.started
    BY <1>1, <1>2 DEF Emission
  <1>3. CASE ~(starts /\ ~s.started)
    BY <1>1, <1>3 DEF Emission
  <1> QED BY <1>2, <1>3

\* Of the first n events only the last may be terminal.
EndsTerminal(evs, n) == \A i \in 1 .. n : Terminal(evs[i]) => i = n

\* The outbox oc is ob with rows for the first n events.
Extends(oc, ob, evs, n) ==
    /\ Len(oc) = Len(ob) + n /\ \A i \in 1 .. Len(ob) : oc[i] = ob[i]
    /\ n # 0 => oc # <<>> /\ oc[Len(oc)].event = evs[n]
    /\ (\A i \in 1 .. n : ~Terminal(evs[i])) => NoTerminal(oc)

\* The outbox with the rows of an emission, the terminal one last.
LEMMA OutboxExtended ==
    ASSUME NEW ob, NEW rec, OutboxSound(ob, rec), NoTerminal(ob),
           NEW evs \in Seq(Event), NEW n \in 0 .. Len(evs), NEW oc,
           oc = ob \o PendingRows(evs, n), EndsTerminal(evs, n)
    PROVE  OutboxSound(oc, rec) /\ Extends(oc, ob, evs, n)
  <1>1. ob \in Seq(OutboxRow)
    BY DEF OutboxSound
  <1>2. /\ oc \in Seq(OutboxRow) /\ Len(oc) = Len(ob) + n
        /\ \A i \in 1 .. Len(ob) : oc[i] = ob[i]
        /\ \A i \in 1 .. n : oc[Len(ob) + i] = PendingRow(evs[i])
        /\ \A i \in 1 .. Len(oc) : i \in 1 .. Len(ob) \/ \E k \in 1 .. n : i = Len(ob) + k
    <2>1. /\ PendingRows(evs, n) \in Seq(OutboxRow) /\ Len(PendingRows(evs, n)) = n
          /\ \A i \in 1 .. n : PendingRows(evs, n)[i] = PendingRow(evs[i])
      BY RowsAndJobs
    <2> DEFINE b == PendingRows(evs, n)
    <2> HIDE DEF b
    <2>2. /\ b \in Seq(OutboxRow) /\ Len(b) = n /\ \A i \in 1 .. n : b[i] = PendingRow(evs[i])
          /\ oc = ob \o b
      BY <2>1 DEF b
    <2>3. oc \in Seq(OutboxRow) /\ IsJoin(oc, ob, b)
      BY <1>1, <2>2, Joined
    <2> QED BY <2>2, <2>3 DEF IsJoin
  <1>3. ASSUME NEW i \in 1 .. n
        PROVE  oc[Len(ob) + i].event = evs[i] /\ oc[Len(ob) + i].status = "pending"
    <2>1. oc[Len(ob) + i] = PendingRow(evs[i])
      BY <1>2
    <2>2. PendingRow(evs[i]).event = evs[i] /\ PendingRow(evs[i]).status = "pending"
      BY DEF PendingRow
    <2> QED BY <2>1, <2>2
  <1>4. TerminalLast(oc)
    <2> SUFFICES ASSUME NEW i \in 1 .. Len(oc), Terminal(oc[i].event) PROVE i = Len(oc)
      BY DEF TerminalLast
    <2>1. i \notin 1 .. Len(ob)
      BY <1>2 DEF NoTerminal
    <2>2. PICK k \in 1 .. n : i = Len(ob) + k
      BY <1>2, <2>1
    <2>3. k = n
      BY <1>3, <2>2 DEF EndsTerminal
    <2> QED BY <1>2, <2>2, <2>3
  <1>5. ASSUME NEW i \in 1 .. Len(oc), oc[i].status = "delivered" PROVE oc[i].event \in rec
    <2>1. i \in 1 .. Len(ob)
      BY <1>2, <1>3, <1>5
    <2> QED BY <1>2, <1>5, <2>1 DEF OutboxSound
  <1>6. ASSUME \A i \in 1 .. n : ~Terminal(evs[i]) PROVE NoTerminal(oc)
    BY <1>2, <1>3, <1>6 DEF NoTerminal
  <1>7. n # 0 => n \in 1 .. n /\ Len(ob) \in Nat
    BY <1>1
  <1>8. n # 0 => oc # <<>> /\ oc[Len(oc)].event = evs[n]
    BY <1>2, <1>3, <1>7
  <1> QED BY <1>2, <1>4, <1>5, <1>6, <1>8 DEF OutboxSound, Extends

\* The emitter with the jobs of an emission.
LEMMA EmittedSound ==
    ASSUME NEW s, NEW ob, NEW rec, EmitterSound(s, ob, rec), OutboxSound(ob, rec), NoTerminal(ob),
           NEW evs \in Seq(Event), evs # <<>>,
           \A i \in 1 .. Len(evs) : Terminal(evs[i]) => i = Len(evs),
           NEW oc, oc # <<>>, oc[Len(oc)].event = evs[Len(evs)],
           NEW t, t = Emitted(s, evs)
    PROVE  /\ EmitterSound(t, oc, rec) /\ t.seq = s.seq + Len(evs)
           /\ t.started = (s.started \/ evs[1].type = "turn.started")
  <1> DEFINE n == Len(evs)
             q == s.queue
             b == NewJobs(evs, n)
             r == q \o b
             st == s.started \/ evs[1].type = "turn.started"
             tm == evs[Len(evs)].type \in TerminalType
  <1>1. /\ s \in EmitterState /\ q \in Seq(Job) /\ s.seq \in Nat /\ n \in Nat /\ n # 0
        /\ n \in 0 .. Len(evs) /\ ob \in Seq(OutboxRow)
    BY DEF EmitterSound, EmitterState, OutboxSound
  <1>2. b \in Seq(Job) /\ Len(b) = n /\ \A i \in 1 .. n : b[i] = NewJob(evs[i], 0)
    BY <1>1, RowsAndJobs
  <1>3. [i \in DOMAIN evs |-> NewJob(evs[i], 0)] = b
    BY DEF NewJobs
  <1>4. t = [s EXCEPT !.seq = s.seq + n, !.started = st, !.terminal = tm, !.queue = r]
    BY <1>1, <1>3 DEF Emitted, EmitterState
  <1> HIDE DEF b
  <1>5. r \in Seq(Job) /\ IsJoin(r, q, b)
    BY <1>1, <1>2, Joined
  <1>6. s.seq + n \in Nat /\ st \in BOOLEAN /\ tm \in BOOLEAN
    BY <1>1
  <1> HIDE DEF r, st, tm
  <1>7. /\ t \in EmitterState /\ t.seq = s.seq + n /\ t.started = st /\ t.queue = r
        /\ t.flight = s.flight
    BY <1>1, <1>4, <1>5, <1>6 DEF EmitterState
  <1>8. NoTerminal(q)
    BY <1>1, NoneRecorded DEF EmitterSound, NoTerminal
  <1>9. /\ Len(r) = Len(q) + n /\ Len(q) \in Nat
        /\ \A i \in 1 .. Len(q) : r[i] = q[i]
        /\ \A i \in 1 .. n : r[Len(q) + i] = NewJob(evs[i], 0)
        /\ \A i \in 1 .. Len(r) : i \in 1 .. Len(q) \/ \E k \in 1 .. n : i = Len(q) + k
    <2>1. /\ Len(r) = Len(q) + Len(b) /\ \A i \in 1 .. Len(q) : r[i] = q[i]
          /\ \A i \in 1 .. Len(b) : r[Len(q) + i] = b[i]
          /\ \A i \in 1 .. Len(r) : i \in 1 .. Len(q) \/ \E k \in 1 .. Len(b) : i = Len(q) + k
      BY <1>5 DEF IsJoin
    <2>2. Len(q) \in Nat
      BY <1>1
    <2> HIDE DEF n, q
    <2> QED BY <1>2, <2>1, <2>2
  <1>10. ASSUME NEW i \in 1 .. n PROVE r[Len(q) + i].event = evs[i]
    <2>1. r[Len(q) + i] = NewJob(evs[i], 0)
      BY <1>9
    <2>2. NewJob(evs[i], 0).event = evs[i]
      BY DEF NewJob
    <2> QED BY <2>1, <2>2
  <1>11. ASSUME NEW i \in 1 .. Len(r), Terminal(r[i].event)
         PROVE  i = Len(r) /\ r[i].event = evs[n]
    <2>1. i \notin 1 .. Len(q)
      BY <1>8, <1>9, <1>11 DEF NoTerminal
    <2>2. PICK k \in 1 .. n : i = Len(q) + k
      BY <1>9, <2>1
    <2>3. r[i].event = evs[k]
      BY <1>10, <2>2
    <2>4. k = n
      BY <1>11, <2>3
    <2> QED BY <1>9, <2>2, <2>3, <2>4
  <1>12. /\ TerminalLast(r) /\ \A i \in 1 .. Len(r) : Recorded(r[i].event, oc)
         /\ Len(q) < Len(r)
    BY <1>1, <1>9, <1>11 DEF TerminalLast, Recorded
  <1>13. EmitterSound(t, oc, rec)
    BY <1>7, <1>8, <1>9, <1>12, QueueExtended
  <1> QED BY <1>7, <1>13 DEF st

\* What becomes of the stores.
LEMMA EmitKeeps ==
    ASSUME Inv, up, UNCHANGED <<up, received, posted, allowed>>,
           rows[Opener] # NoRow, Undecided(rows), NoTerminal(outbox),
           left' \in [deltas : Nat, dups : Nat, crashes : Nat], left'.deltas <= left.deltas,
           NEW s, EmitterSound(s, outbox, received),
           NEW evs \in Seq(Event), Len(evs) \in {1, 2},
           Len(evs) = 2 => evs[1].type = "turn.started",
           Emit("turn", s, evs),
           \/ evs[Len(evs)] \in Answers
           \/ /\ evs[Len(evs)].type = "turn.cancelled" /\ Len(evs) = 1
              /\ \A m \in Message : ~IngestPending(rows, m)
           \/ /\ evs[Len(evs)].type = "turn.started" /\ Len(evs) = 1
              /\ evs[Len(evs)].no <= MaxDeltas + 1,
           active' \in Emitter \cup {None},
           active' = "turn" => /\ evs[Len(evs)].type = "turn.started"
                               /\ s.seq + 1 + left'.deltas <= MaxDeltas + 1
    PROVE  Inv'
  <1> DEFINE n == Len(evs)
             z == evs[n]
             t == Emitted(s, evs)
  <1>1. /\ em' = [em EXCEPT !["turn"] = t] /\ rows' = Prepared(z)
        /\ outbox' = outbox \o PendingRows(evs, n)
    <2>1. [i \in DOMAIN evs |-> PendingRow(evs[i])] = PendingRows(evs, n)
      BY DEF PendingRows
    <2> QED BY <2>1 DEF Emit
  <1>2. /\ RowsSound(rows) /\ StoresAgree(rows, outbox) /\ OutboxSound(outbox, received)
        /\ outbox \in Seq(OutboxRow)
    BY DEF Inv, TypeOK
  <1>0. evs # <<>>
    <2>1. evs = <<>> => Len(evs) = 0
      BY EmptySeq
    <2>2. Len(evs) \in {1, 2}
      OBVIOUS
    <2>3. Len(evs) # 0
      BY ONLY <2>2
    <2> QED BY ONLY <2>1, <2>3
  <1>3. \A i \in 1 .. n : Terminal(evs[i]) => i = n
    BY DEF Terminal, TerminalType, AnswerType
  <1>4. n \in 0 .. Len(evs) /\ n \in Nat /\ n # 0 /\ z \in Event
    BY ElementOfSeq
  <1>5. /\ OutboxSound(outbox', received) /\ outbox' # <<>> /\ outbox'[Len(outbox')].event = z
        /\ (\A i \in 1 .. n : ~Terminal(evs[i])) => NoTerminal(outbox')
        /\ Len(outbox') = Len(outbox) + n /\ \A i \in 1 .. Len(outbox) : outbox'[i] = outbox[i]
    <2> HIDE DEF n
    <2>1. EndsTerminal(evs, n)
      BY <1>3 DEF EndsTerminal
    <2>2. OutboxSound(outbox', received) /\ Extends(outbox', outbox, evs, n)
      BY <1>1, <1>2, <1>4, <2>1, OutboxExtended
    <2> QED BY <1>4, <2>2 DEF Extends
  <1> HIDE DEF t
  <1>6. /\ EmitterSound(t, outbox', received) /\ t.seq = s.seq + n
        /\ t.started = (s.started \/ evs[1].type = "turn.started")
    <2>1. t = Emitted(s, evs)
      BY DEF t
    <2> QED BY <1>0, <1>2, <1>3, <1>5, <2>1, EmittedSound
  <1>7. RowsSound(rows') /\ StoresAgree(rows', outbox') /\ (~Terminal(z) => rows' = rows)
    <2>1. CASE z \in Answers
      <3>1. z.type \in AnswerType /\ Terminal(z)
        BY <2>1, AnswerIsEvent
      <3>2. rows' = SaveForCorrelation(rows, Opener, z)
        BY <1>1, <3>1 DEF Prepared
      <3>3. RowsSound(rows') /\ rows'[Opener] # NoRow /\ rows'[Opener].response = z
        BY <1>2, <2>1, <3>2, SavedRows
      <3>4. ~Undecided(rows')
        BY <2>1, <3>3, AnswerIsEvent DEF Undecided
      <3>5. ASSUME NEW i \in 1 .. Len(outbox'), Terminal(outbox'[i].event)
            PROVE  outbox'[i].event = z
        BY <1>5, <3>5 DEF OutboxSound, TerminalLast
      <3>6. z.type # "turn.cancelled"
        BY <3>1 DEF AnswerType
      <3>7. \A i \in 1 .. Len(outbox') :
              /\ outbox'[i].event.type \in AnswerType => outbox'[i].event = z
              /\ outbox'[i].event.type # "turn.cancelled"
        BY <3>5, <3>6 DEF Terminal, TerminalType
      <3> QED BY <3>1, <3>3, <3>4, <3>7 DEF StoresAgree
    <2>2. CASE /\ z.type = "turn.cancelled" /\ n = 1 /\ \A m \in Message : ~IngestPending(rows, m)
      <3>1. rows' = rows /\ z.type \notin AnswerType /\ Terminal(z)
        BY <1>1, <2>2 DEF Prepared, AnswerType, Terminal, TerminalType
      <3>2. \A i \in 1 .. Len(outbox') : outbox'[i].event = z \/ (i \in 1 .. Len(outbox) /\ outbox'[i] = outbox[i])
        BY <1>2, <1>5, <2>2
      <3>3. ASSUME NEW i \in 1 .. Len(outbox')
            PROVE  /\ outbox'[i].event.type \notin AnswerType
                   /\ ~Terminal(outbox'[i].event) => outbox'[i].event.no <= MaxDeltas + 1
        BY <1>2, <3>1, <3>2 DEF StoresAgree, NoTerminal, Terminal, TerminalType
      <3> QED BY <1>2, <2>2, <3>1, <3>3 DEF StoresAgree
    <2>3. CASE z.type = "turn.started" /\ n = 1 /\ z.no <= MaxDeltas + 1
      <3>1. rows' = rows /\ ~Terminal(z)
        BY <1>1, <2>3 DEF Prepared, AnswerType, Terminal, TerminalType
      <3>2. \A i \in 1 .. Len(outbox') : outbox'[i].event = z \/ (i \in 1 .. Len(outbox) /\ outbox'[i] = outbox[i])
        BY <1>2, <1>5, <2>3
      <3>3. ASSUME NEW i \in 1 .. Len(outbox')
            PROVE  ~Terminal(outbox'[i].event) /\ outbox'[i].event.no <= MaxDeltas + 1
        BY <1>2, <2>3, <3>1, <3>2 DEF StoresAgree, NoTerminal
      <3> QED BY <1>2, <3>1, <3>3 DEF StoresAgree, Terminal, TerminalType
    <2> QED BY <2>1, <2>2, <2>3
  <1>8. ASSUME active' = "turn"
        PROVE  /\ rows'[Opener] # NoRow /\ Undecided(rows') /\ NoTerminal(outbox')
               /\ t.seq + left'.deltas <= MaxDeltas + (IF t.started THEN 1 ELSE 0)
    <2>1. z.type = "turn.started" /\ s.seq + 1 + left'.deltas <= MaxDeltas + 1
      BY <1>8
    <2>2. ~Terminal(z) /\ n = 1
      BY <2>1 DEF Terminal, TerminalType, AnswerType, Answers
    <2>3. t.started /\ t.seq = s.seq + 1
      BY <1>6, <2>1, <2>2
    <2> QED BY <1>5, <1>7, <2>1, <2>2, <2>3
  <1> QED BY <1>1, <1>5, <1>6, <1>7, <1>8, TurnMoves

\* What a step of the turn starts from.
LEMMA TurnBefore ==
    ASSUME Inv, InTurn
    PROVE  /\ up /\ EmitterSound(em["turn"], outbox, received) /\ em["turn"] \in EmitterState
           /\ em["turn"].seq \in Nat /\ left.deltas \in Nat
           /\ left \in [deltas : Nat, dups : Nat, crashes : Nat]
           /\ rows[Opener] # NoRow /\ Undecided(rows) /\ NoTerminal(outbox)
           /\ em["turn"].seq + left.deltas <= MaxDeltas + (IF em["turn"].started THEN 1 ELSE 0)
           /\ active = "turn" /\ active \in Emitter \cup {None} /\ None \in Emitter \cup {None}
  <1>1. up /\ active = "turn"
    BY DEF InTurn
  <1>2. /\ EmitterSound(em["turn"], outbox, received) /\ em["turn"] \in EmitterState
        /\ left \in [deltas : Nat, dups : Nat, crashes : Nat]
    BY DEF Inv, TypeOK, Emitter
  <1>3. em["turn"].seq \in Nat /\ left.deltas \in Nat
    BY <1>2 DEF EmitterState
  <1>4. /\ rows[Opener] # NoRow /\ Undecided(rows) /\ NoTerminal(outbox)
        /\ em["turn"].seq + left.deltas <= MaxDeltas + (IF em["turn"].started THEN 1 ELSE 0)
    BY <1>1 DEF Inv, TurnSound
  <1> QED BY <1>1, <1>2, <1>3, <1>4 DEF Emitter

LEMMA HandleTurnStartKeeps == ASSUME Inv, HandleTurnStart PROVE Inv'
  <1> DEFINE s == em["turn"]
             type == "turn.started"
             evs == Emission(s, type, FALSE)
             n == Len(evs)
  <1>1. /\ InTurn /\ ~s.started /\ Emit("turn", s, evs)
        /\ UNCHANGED <<active, up, received, posted, allowed, left>>
    BY DEF HandleTurnStart
  <1>2. /\ up /\ EmitterSound(s, outbox, received) /\ s \in EmitterState
        /\ s.seq \in Nat /\ left.deltas \in Nat
        /\ left \in [deltas : Nat, dups : Nat, crashes : Nat]
        /\ rows[Opener] # NoRow /\ Undecided(rows) /\ NoTerminal(outbox)
        /\ s.seq + left.deltas <= MaxDeltas + (IF s.started THEN 1 ELSE 0)
        /\ active \in Emitter \cup {None}
    BY <1>1, TurnBefore
  <1>3. type \in DurableType /\ FALSE \in BOOLEAN
    BY DEF DurableType
  <1>4. /\ evs \in Seq(Event) /\ n \in {1, 2}
        /\ evs[n].type = type /\ evs[n].no = s.seq + n
        /\ n = 2 => FALSE
    BY <1>2, <1>3, EmissionShape
  <1>5. n = 1
    BY <1>4
  <1>6. evs[n].no <= MaxDeltas + 1 /\ s.seq + 1 + left.deltas <= MaxDeltas + 1
    <2>1. s.seq + left.deltas <= MaxDeltas + 0
      BY <1>1, <1>2
    <2>2. evs[n].no = s.seq + 1
      BY <1>4, <1>5
    <2> DEFINE q == s.seq
               d == left.deltas
    <2>3. q \in Nat /\ d \in Nat /\ MaxDeltas \in Nat /\ q + d <= MaxDeltas + 0
      BY <1>2, <2>1, Constants
    <2> HIDE DEF q, d
    <2>4. q + 1 <= MaxDeltas + 1 /\ q + 1 + d <= MaxDeltas + 1
      BY ONLY <2>3
    <2> QED BY <2>2, <2>4 DEF q, d
  <1> HIDE DEF evs, s
  <1>7. left'.deltas <= left.deltas
    BY <1>1, <1>2
  <1> QED BY <1>1, <1>2, <1>4, <1>5, <1>6, <1>7, EmitKeeps

\* The number of a terminal event.
LEMMA AnswerNumber ==
    ASSUME NEW s \in EmitterState, s.seq <= MaxDeltas + 1, NEW type \in AnswerType,
           NEW starts \in BOOLEAN
    PROVE  LET evs == Emission(s, type, starts)
           IN  evs[Len(evs)] \in Answers
  <1> DEFINE evs == Emission(s, type, starts)
             n == Len(evs)
             z == evs[n]
  <1>1. type \in DurableType
    BY DEF DurableType, TerminalType
  <1>2. evs \in Seq(Event) /\ n \in {1, 2} /\ z.type = type /\ z.no = s.seq + n
    BY <1>1, EmissionShape
  <1>3. z \in Event
    BY <1>2, ElementOfSeq
  <1>4. s.seq \in Nat
    BY DEF EmitterState
  <1> HIDE DEF evs, n
  <1>5. z.no \in 1 .. (MaxDeltas + 3)
    BY <1>2, <1>4, Constants
  <1>6. z = [no |-> z.no, type |-> z.type]
    BY <1>3 DEF Event
  <1>7. z \in Answers
    BY <1>2, <1>5, <1>6 DEF Answers
  <1> QED BY <1>7 DEF evs, n

\* The answer that ends the turn.
LEMMA TurnAnswer ==
    ASSUME Inv, InTurn, NEW type \in AnswerType, NEW starts \in BOOLEAN
    PROVE  LET evs == Emission(em["turn"], type, starts)
           IN  evs[Len(evs)] \in Answers
  <1> DEFINE s == em["turn"]
  <1>1. /\ s \in EmitterState /\ s.seq \in Nat /\ left.deltas \in Nat
        /\ s.seq + left.deltas <= MaxDeltas + (IF s.started THEN 1 ELSE 0)
    BY TurnBefore
  <1>2. s.seq <= MaxDeltas + 1
    BY <1>1, Constants
  <1> HIDE DEF s
  <1>3. LET evs == Emission(s, type, starts)
        IN  evs[Len(evs)] \in Answers
    BY <1>1, <1>2, AnswerNumber
  <1> QED BY <1>3 DEF s

LEMMA EndKeeps ==
    ASSUME Inv, NEW type \in AnswerType, NEW starts \in BOOLEAN, End(type, starts)
    PROVE  Inv'
  <1> DEFINE s == em["turn"]
             evs == Emission(s, type, starts)
             n == Len(evs)
  <1>1. /\ InTurn /\ Emit("turn", s, evs) /\ active' = None
        /\ UNCHANGED <<up, received, posted, allowed, left>>
    BY DEF End
  <1>2. /\ up /\ EmitterSound(s, outbox, received) /\ s \in EmitterState
        /\ s.seq \in Nat /\ left.deltas \in Nat
        /\ left \in [deltas : Nat, dups : Nat, crashes : Nat]
        /\ rows[Opener] # NoRow /\ Undecided(rows) /\ NoTerminal(outbox)
        /\ s.seq + left.deltas <= MaxDeltas + (IF s.started THEN 1 ELSE 0)
        /\ None \in Emitter \cup {None}
    BY <1>1, TurnBefore
  <1>3. type \in DurableType
    BY DEF DurableType, TerminalType
  <1>4. /\ evs \in Seq(Event) /\ n \in {1, 2}
        /\ n = 2 => evs[1].type = "turn.started"
    BY <1>2, <1>3, EmissionShape
  <1>5. evs[n] \in Answers
    BY <1>1, TurnAnswer
  <1> HIDE DEF evs, s
  <1>6. left'.deltas <= left.deltas /\ left' \in [deltas : Nat, dups : Nat, crashes : Nat]
    BY <1>1, <1>2
  <1>7. active' \in Emitter \cup {None} /\ active' # "turn"
    BY <1>1, Constants
  <1> QED BY <1>1, <1>2, <1>4, <1>5, <1>6, <1>7, EmitKeeps

LEMMA EmitCancelledKeeps == ASSUME Inv, EmitCancelled PROVE Inv'
  <1> DEFINE s == em["turn"]
             type == "turn.cancelled"
             evs == Emission(s, type, FALSE)
             n == Len(evs)
  <1>1. /\ InTurn /\ Emit("turn", s, evs) /\ active' = None
        /\ \A m \in Message : ~IngestPending(rows, m)
        /\ UNCHANGED <<up, received, posted, allowed, left>>
    BY DEF EmitCancelled
  <1>2. /\ up /\ EmitterSound(s, outbox, received) /\ s \in EmitterState
        /\ s.seq \in Nat /\ left.deltas \in Nat
        /\ left \in [deltas : Nat, dups : Nat, crashes : Nat]
        /\ rows[Opener] # NoRow /\ Undecided(rows) /\ NoTerminal(outbox)
        /\ None \in Emitter \cup {None}
    BY <1>1, TurnBefore
  <1>3. type \in DurableType /\ FALSE \in BOOLEAN
    BY DEF DurableType, TerminalType
  <1>4. /\ evs \in Seq(Event) /\ n \in {1, 2} /\ evs[n].type = type /\ (n = 2 => FALSE)
    BY <1>2, <1>3, EmissionShape
  <1>5. n = 1
    BY <1>4
  <1> HIDE DEF evs, s
  <1>6. left'.deltas <= left.deltas /\ left' \in [deltas : Nat, dups : Nat, crashes : Nat]
    BY <1>1, <1>2
  <1>7. active' \in Emitter \cup {None} /\ active' # "turn"
    BY <1>1, Constants
  <1> QED BY <1>1, <1>2, <1>4, <1>5, <1>6, <1>7, EmitKeeps

\* A message whose ingest is still pending after a crash: nothing is decided.
LEMMA InterruptedBefore ==
    ASSUME Inv, NEW m \in Message, IngestPending(rows, m)
    PROVE  LET s == Construct(outbox)
               evs == Emission(s, "turn.error", TRUE)
           IN  /\ rows[Opener] # NoRow /\ Undecided(rows) /\ NoTerminal(outbox)
               /\ s \in EmitterState /\ EmitterSound(s, outbox, received)
               /\ evs[Len(evs)] \in Answers
  <1> DEFINE s == Construct(outbox)
             type == "turn.error"
             evs == Emission(s, type, TRUE)
  <1>1. rows[m] # NoRow /\ IngestPending(rows, m)
    BY DEF IngestPending
  <1>2. RowsSound(rows) /\ StoresAgree(rows, outbox) /\ outbox \in Seq(OutboxRow)
    BY DEF Inv, TypeOK
  <1>3. rows[Opener] # NoRow /\ Undecided(rows)
    <2>1. rows[Opener] # NoRow
      BY <1>1, <1>2 DEF RowsSound, EmptyStore
    <2>2. /\ rows[m].response = rows[Opener].response /\ SchemaHolds(rows[m])
          /\ rows[m].delivery # "pending" => rows[m].ingest = "completed"
      BY <1>1, <1>2 DEF RowsSound
    <2>3. rows[m].delivery = "pending"
      BY <1>1, <2>2 DEF IngestPending
    <2> QED BY <2>1, <2>2, <2>3 DEF Undecided, SchemaHolds
  <1>4. NoTerminal(outbox)
    <2> SUFFICES ASSUME NEW i \in 1 .. Len(outbox), Terminal(outbox[i].event) PROVE FALSE
      BY DEF NoTerminal
    <2>1. CASE outbox[i].event.type \in AnswerType
      <3>1. rows[Opener].response = outbox[i].event
        BY <1>2, <2>1 DEF StoresAgree
      <3>2. outbox[i].event \in Event
        <4>1. outbox[i] \in OutboxRow
          BY <1>2, ElementOfSeq
        <4> QED BY <4>1 DEF OutboxRow
      <3> QED BY <1>3, <3>1, <3>2, Constants DEF Undecided
    <2>2. CASE outbox[i].event.type = "turn.cancelled"
      BY <1>1, <1>2, <2>2 DEF StoresAgree
    <2> QED BY <2>1, <2>2 DEF Terminal, TerminalType
  <1>5. /\ s \in EmitterState /\ s.queue = <<>> /\ s.flight = "none"
        /\ s.seq = IF outbox = <<>> THEN 0 ELSE outbox[Len(outbox)].event.no
    BY <1>2, Constructed
  <1>6. s.seq <= MaxDeltas + 1
    <2>1. CASE outbox = <<>>
      BY <1>5, <2>1, Constants
    <2>2. CASE outbox # <<>>
      <3>1. Len(outbox) \in 1 .. Len(outbox)
        BY <1>2, <2>2
      <3>2. outbox[Len(outbox)].event.no <= MaxDeltas + 1
        BY <1>2, <1>3, <1>4, <3>1 DEF StoresAgree, NoTerminal
      <3> QED BY <1>5, <2>2, <3>2
    <2> QED BY <2>1, <2>2
  <1> HIDE DEF s
  <1>7. EmitterSound(s, outbox, received)
    BY <1>5, QueueEmpty
  <1>8. type \in AnswerType /\ TRUE \in BOOLEAN
    BY DEF AnswerType
  <1> HIDE DEF type
  <1>9. evs[Len(evs)] \in Answers
    BY <1>5, <1>6, <1>8, AnswerNumber
  <1> QED BY <1>3, <1>4, <1>5, <1>7, <1>9 DEF s, type

LEMMA InterruptedKeeps == ASSUME Inv, NEW m \in Message, Interrupted(m) PROVE Inv'
  <1> DEFINE s == Construct(outbox)
             type == "turn.error"
             evs == Emission(s, type, TRUE)
             n == Len(evs)
  <1>1. /\ up /\ active = None /\ left.dups > 0 /\ left' = [left EXCEPT !.dups = @ - 1]
        /\ IngestPending(rows, m) /\ Emit("turn", s, evs)
        /\ UNCHANGED <<active, up, received, posted, allowed>>
    BY DEF Interrupted, Duplicate
  <1>2. left \in [deltas : Nat, dups : Nat, crashes : Nat]
    BY DEF Inv, TypeOK
  <1>3. /\ rows[Opener] # NoRow /\ Undecided(rows) /\ NoTerminal(outbox)
        /\ s \in EmitterState /\ EmitterSound(s, outbox, received)
        /\ evs[n] \in Answers
    BY <1>1, InterruptedBefore
  <1> HIDE DEF s
  <1>4. type \in DurableType /\ TRUE \in BOOLEAN
    BY DEF DurableType, TerminalType, AnswerType
  <1>5. /\ evs \in Seq(Event) /\ n \in {1, 2} /\ (n = 2 => evs[1].type = "turn.started")
    BY <1>3, <1>4, EmissionShape
  <1> HIDE DEF evs
  <1>6. left' \in [deltas : Nat, dups : Nat, crashes : Nat] /\ left'.deltas <= left.deltas
    BY <1>1, <1>2
  <1>7. active' \in Emitter \cup {None} /\ active' # "turn"
    BY <1>1, Constants
  <1> QED BY <1>1, <1>3, <1>5, <1>6, <1>7, EmitKeeps

-----------------------------------------------------------------------------
(***************************************************************************)
(* Redelivery and recovery: a second emitter for what is recorded.         *)
(***************************************************************************)

\* The POSTs that the last row still has, if it is a pending terminal one.
ResumesLast(t) ==
    /\ outbox # <<>> /\ Terminal(outbox[Len(outbox)].event)
    /\ outbox[Len(outbox)].status = "pending"
    /\ PostsLeft(t) = TotalPosts - outbox[Len(outbox)].attempts

\* resumePending: the pending rows in their order, so that a terminal one is last.
LEMMA Resumed ==
    ASSUME OutboxSound(outbox, received), NEW t, t.queue = ResumePending, t.flight = "none",
           ResumePending \in Seq(Job) => t \in EmitterState
    PROVE  /\ t \in EmitterState /\ EmitterSound(t, outbox, received)
           /\ Posting(t) = 0 /\ (PostsLeft(t) = 0 \/ ResumesLast(t))
  <1> DEFINE N == Len(outbox)
             P == {i \in DOMAIN outbox : outbox[i].status = "pending"}
             f == Ascending(P)
             n == Cardinality(P)
             q == ResumePending
  <1>1. outbox \in Seq(OutboxRow) /\ TerminalLast(outbox) /\ N \in Nat /\ DOMAIN outbox = 1 .. N
    BY DEF OutboxSound
  <1>2. P \in SUBSET (0 .. N) /\ \A i \in P : i \in 1 .. N /\ outbox[i].status = "pending"
    BY <1>1
  <1>3. Lists(f, P) /\ n \in Nat
    BY <1>1, <1>2, AscendingIsList, BoundedFinite
  <1>4. /\ f \in [1 .. n -> P]
        /\ \A i, j \in 1 .. n : i < j => f[i] < f[j]
    BY <1>3 DEF Lists
  <1>5. q = [k \in 1 .. n |-> NewJob(outbox[f[k]].event, outbox[f[k]].attempts)]
    BY <1>4 DEF ResumePending
  <1> HIDE DEF q, f, n, P
  <1>6. ASSUME NEW k \in 1 .. n
        PROVE  /\ f[k] \in 1 .. N /\ q[k] \in Job /\ outbox[f[k]].status = "pending"
               /\ q[k].event = outbox[f[k]].event /\ q[k].attempt = outbox[f[k]].attempts
    <2>1. f[k] \in 1 .. N /\ outbox[f[k]].status = "pending"
      BY <1>2, <1>4
    <2>2. outbox[f[k]] \in OutboxRow
      BY <1>1, <2>1, ElementOfSeq
    <2>3. q[k] = NewJob(outbox[f[k]].event, outbox[f[k]].attempts)
      BY <1>5
    <2>4. /\ q[k] \in Job /\ q[k].event = outbox[f[k]].event
          /\ q[k].attempt = outbox[f[k]].attempts
      BY <2>2, <2>3 DEF NewJob, Job, OutboxRow
    <2> QED BY <2>1, <2>4
  <1>7. q \in Seq(Job) /\ Len(q) = n
    <2>1. q \in [1 .. n -> Job]
      BY <1>5, <1>6
    <2> QED BY <1>3, <2>1
  <1>8. ASSUME NEW k \in 1 .. n, Terminal(q[k].event)
        PROVE  k = n /\ f[k] = N
    <2>1. f[k] = N
      BY <1>1, <1>6, <1>8 DEF TerminalLast
    <2>2. SUFFICES ASSUME k # n PROVE FALSE
      BY <2>1
    <2>3. k < n /\ n \in 1 .. n
      BY <1>3, <2>2
    <2>4. f[k] < f[n] /\ f[n] \in 1 .. N
      BY <1>4, <1>6, <2>3
    <2> QED BY <1>1, <2>1, <2>4
  <1>9. t \in EmitterState /\ t.queue = q /\ t.flight = "none"
    BY <1>7 DEF q
  <1>10. EmitterSound(t, outbox, received)
    <2>1. TerminalLast(q)
      BY <1>7, <1>8 DEF TerminalLast
    <2>2. \A i \in 1 .. Len(q) : Recorded(q[i].event, outbox)
      <3> SUFFICES ASSUME NEW i \in 1 .. n, Terminal(q[i].event)
                   PROVE  outbox # <<>> /\ q[i].event = outbox[Len(outbox)].event
        BY <1>7 DEF Recorded
      <3>1. f[i] = N /\ N \in 1 .. N
        BY <1>6, <1>8
      <3> QED BY <1>1, <1>6, <3>1
    <2> QED BY <1>9, <2>1, <2>2 DEF EmitterSound
  <1>11. Posting(t) = 0
    BY <1>9 DEF Posting
  <1>12. ASSUME HasTerminal(t) PROVE ResumesLast(t)
    <2>1. n \in 1 .. n /\ LastJob(t) = q[n] /\ Terminal(q[n].event)
      BY <1>3, <1>7, <1>9, <1>12 DEF HasTerminal, LastJob
    <2>2. f[n] = N /\ N \in 1 .. N
      BY <1>6, <1>8, <2>1
    <2>3. /\ outbox[N].status = "pending" /\ q[n].event = outbox[N].event
          /\ q[n].attempt = outbox[N].attempts
      BY <1>6, <2>1, <2>2
    <2>4. outbox[N].attempts \in 0 .. TotalPosts
      <3>1. outbox[N] \in OutboxRow
        BY <1>1, <2>2, ElementOfSeq
      <3> QED BY <3>1 DEF OutboxRow
    <2>5. PostsLeft(t) = TotalPosts - outbox[N].attempts
      <3>1. PostsLeft(t) = TotalPosts - outbox[N].attempts - 0
        BY <1>11, <1>12, <2>1, <2>3 DEF PostsLeft
      <3> QED BY <2>4, <3>1, Constants
    <2>6. outbox # <<>>
      BY <1>1, <2>2
    <2> QED BY <2>1, <2>3, <2>5, <2>6 DEF ResumesLast
  <1>13. ~HasTerminal(t) => PostsLeft(t) = 0
    BY DEF PostsLeft
  <1> QED BY <1>9, <1>10, <1>11, <1>12, <1>13

\* One job, from the start of the schedule.
LEMMA OneJob ==
    ASSUME NEW ev \in Event, NEW t, NEW c \in EmitterState, c.flight = "none",
           t = [c EXCEPT !.queue = <<NewJob(ev, 0)>>],
           NEW ob, Recorded(ev, ob), NEW rec
    PROVE  EmitterSound(t, ob, rec)
  <1> DEFINE j == NewJob(ev, 0)
             q == <<j>>
  <1>1. j \in Job /\ j.event = ev
    BY Constants DEF NewJob, Job
  <1> HIDE DEF j
  <1>2. q \in Seq(Job) /\ Len(q) = 1 /\ q[1] = j
    BY <1>1
  <1>3. t = [c EXCEPT !.queue = q]
    BY DEF j
  <1> HIDE DEF q
  <1>4. t \in EmitterState /\ t.queue = q /\ t.flight = "none"
    BY <1>2, <1>3 DEF EmitterState
  <1>5. \A i \in 1 .. Len(q) : i = 1
    BY <1>2
  <1> QED BY <1>1, <1>2, <1>4, <1>5 DEF EmitterSound, TerminalLast

\* What a redelivery or a recovery installs: an emitter t for what is recorded.
AgainSound(t) ==
    /\ em' = [em EXCEPT !["again"] = t]
    /\ EmitterSound(t, outbox', received)
    /\ OutboxSound(outbox', received) /\ RowsSound(rows') /\ StoresAgree(rows', outbox')
    /\ \A ev : Recorded(ev, outbox) => Recorded(ev, outbox')
    /\ NoTerminal(outbox') => NoTerminal(outbox)
    /\ outbox' = outbox => PostsLeft(t) = 0 \/ ResumesLast(t)

\* The retained response is the only terminal event that may have a row.
LEMMA RetainedRow ==
    ASSUME Inv, rows[Opener] # NoRow, NEW ev, ev = rows[Opener].response, ev # NoResponse
    PROVE  /\ ev \in Answers /\ ev \in Event /\ Terminal(ev) /\ ~Undecided(rows)
           /\ \A i \in 1 .. Len(outbox) : Terminal(outbox[i].event) <=> outbox[i].event = ev
           /\ \A i \in At(ev) : i = Len(outbox) /\ outbox # <<>>
           /\ At(ev) = {} => NoTerminal(outbox)
  <1>1. RowsSound(rows) /\ StoresAgree(rows, outbox) /\ OutboxSound(outbox, received)
    BY DEF Inv
  <1>2. ev \in Answers
    BY <1>1, Constants DEF RowsSound
  <1>3. ev \in Event /\ Terminal(ev)
    BY <1>2, AnswerIsEvent
  <1>4. ~Undecided(rows)
    BY DEF Undecided
  <1>5. \A i \in 1 .. Len(outbox) : Terminal(outbox[i].event) <=> outbox[i].event = ev
    BY <1>1, <1>3, <1>4 DEF StoresAgree, Terminal, TerminalType
  <1>6. DOMAIN outbox = 1 .. Len(outbox) /\ outbox \in Seq(OutboxRow)
    BY <1>1 DEF OutboxSound
  <1>7. \A i \in At(ev) : i \in 1 .. Len(outbox) /\ outbox[i].event = ev
    BY <1>6 DEF At
  <1>8. \A i \in At(ev) : i = Len(outbox)
    BY <1>1, <1>3, <1>7 DEF OutboxSound, TerminalLast
  <1>9. At(ev) = {} => NoTerminal(outbox)
    BY <1>5, <1>6 DEF At, NoTerminal
  <1>10. At(ev) # {} => outbox # <<>>
    BY <1>6, <1>7
  <1> QED BY <1>2, <1>3, <1>4, <1>5, <1>8, <1>9, <1>10

LEMMA Redelivered ==
    ASSUME Inv, rows[Opener] # NoRow, NEW ev, ev = rows[Opener].response, ev # NoResponse,
           RedeliverDurable(ev)
    PROVE  \E t : AgainSound(t)
  <1> DEFINE c == Construct(outbox)
             row == CHOOSE i \in At(ev) : TRUE
             With(q) == em' = [em EXCEPT !["again"] = [c EXCEPT !.queue = q]]
  <1>1. /\ RowsSound(rows) /\ StoresAgree(rows, outbox) /\ OutboxSound(outbox, received)
        /\ outbox \in Seq(OutboxRow)
    BY DEF Inv, TypeOK
  <1>2. /\ ev \in Answers /\ ev \in Event /\ Terminal(ev) /\ ~Undecided(rows)
        /\ \A i \in 1 .. Len(outbox) : Terminal(outbox[i].event) <=> outbox[i].event = ev
        /\ \A i \in At(ev) : i = Len(outbox) /\ outbox # <<>>
        /\ At(ev) = {} => NoTerminal(outbox)
    BY RetainedRow
  <1>3. c \in EmitterState /\ c.queue = <<>> /\ c.flight = "none"
    BY <1>1, Constructed
  <1>4. CASE At(ev) = {}
    <2>1. /\ outbox' = Append(outbox, PendingRow(ev)) /\ With(<<NewJob(ev, 0)>>) /\ rows' = rows
      BY <1>4 DEF RedeliverDurable
    <2> DEFINE r == PendingRow(ev)
               t == [c EXCEPT !.queue = <<NewJob(ev, 0)>>]
    <2>2. r \in OutboxRow /\ r.event = ev /\ r.status = "pending"
      BY <1>2, Constants DEF PendingRow, OutboxRow
    <2> HIDE DEF r, c
    <2>3. /\ outbox' \in Seq(OutboxRow) /\ outbox' # <<>> /\ Len(outbox') = Len(outbox) + 1
          /\ \A i \in 1 .. Len(outbox) : outbox'[i] = outbox[i]
          /\ outbox'[Len(outbox) + 1] = r
      BY <1>1, <2>1, <2>2, AppendProperties DEF r
    <2>4. Len(outbox) \in Nat
      BY <1>1
    <2>5. \A i \in 1 .. Len(outbox') : i \in 1 .. Len(outbox) \/ i = Len(outbox')
      BY <2>3, <2>4
    <2>6. NoTerminal(outbox) /\ outbox'[Len(outbox')].event = ev
          /\ outbox'[Len(outbox')].status = "pending"
      BY <1>2, <1>4, <2>2, <2>3
    <2>7. OutboxSound(outbox', received)
      <3>1. TerminalLast(outbox')
        BY <2>3, <2>5, <2>6 DEF TerminalLast, NoTerminal
      <3>2. \A i \in 1 .. Len(outbox') : outbox'[i].status = "delivered" => outbox'[i].event \in received
        BY <1>1, <2>3, <2>5, <2>6 DEF OutboxSound
      <3> QED BY <2>3, <3>1, <3>2 DEF OutboxSound
    <2>8. StoresAgree(rows', outbox')
      <3>1. \A i \in 1 .. Len(outbox') : Terminal(outbox'[i].event) => outbox'[i].event = ev
        BY <2>3, <2>5, <2>6 DEF NoTerminal
      <3>2. ev.type # "turn.cancelled"
        BY <1>2 DEF Answers, AnswerType
      <3>3. \A i \in 1 .. Len(outbox') : /\ outbox'[i].event.type # "turn.cancelled"
                                         /\ outbox'[i].event.type \in AnswerType => outbox'[i].event = ev
        BY <3>1, <3>2 DEF Terminal, TerminalType
      <3> QED BY <1>2, <2>1, <3>3 DEF StoresAgree
    <2>9. \A x : Recorded(x, outbox) => Recorded(x, outbox')
      BY <1>1, <2>6, NoneRecorded DEF Recorded
    <2>10. EmitterSound(t, outbox', received)
      <3>1. Recorded(ev, outbox')
        BY <2>3, <2>6 DEF Recorded
      <3> QED BY <1>2, <1>3, <3>1, OneJob
    <2>11. outbox' # outbox
      BY <2>3, <2>4
    <2> HIDE DEF t
    <2>12. em' = [em EXCEPT !["again"] = t]
      BY <2>1 DEF t
    <2>13. RowsSound(rows') /\ (NoTerminal(outbox') => NoTerminal(outbox))
      BY <1>1, <2>1, <2>6
    <2>14. AgainSound(t)
      BY <2>7, <2>8, <2>9, <2>10, <2>11, <2>12, <2>13 DEF AgainSound
    <2> QED BY <2>14
  <1>5. CASE At(ev) # {}
    <2>1. row \in At(ev)
      BY <1>5
    <2>2. /\ row = Len(outbox) /\ outbox # <<>> /\ outbox[row].event = ev /\ row \in 1 .. Len(outbox)
      BY <1>1, <1>2, <2>1 DEF At
    <2>3. CASE outbox[row].status = "pending"
      <3>1. With(ResumePending) /\ rows' = rows /\ outbox' = outbox
        BY <1>5, <2>3 DEF RedeliverDurable
      <3> DEFINE t == [c EXCEPT !.queue = ResumePending]
      <3> HIDE DEF c
      <3>2. /\ t.queue = ResumePending /\ t.flight = "none"
            /\ ResumePending \in Seq(Job) => t \in EmitterState
        BY <1>3 DEF EmitterState
      <3>3. em' = [em EXCEPT !["again"] = t]
        BY <3>1
      <3> HIDE DEF t
      <3>4. EmitterSound(t, outbox, received) /\ (PostsLeft(t) = 0 \/ ResumesLast(t))
        BY <1>1, <3>2, Resumed
      <3>5. AgainSound(t)
        BY <1>1, <3>1, <3>3, <3>4 DEF AgainSound
      <3> QED BY <3>5
    <2>4. CASE outbox[row].status = "permanent_failure"
      <3>1. /\ outbox' = Mark(ev, "pending", 0) /\ With(<<NewJob(ev, 0)>>) /\ rows' = rows
        BY <1>5, <2>4 DEF RedeliverDurable, RetryPermanentFailure
      <3> DEFINE t == [c EXCEPT !.queue = <<NewJob(ev, 0)>>]
                 st == "pending"
      <3> HIDE DEF c
      <3>2. st \in {"pending", "delivered", "permanent_failure"} /\ 0 \in 0 .. TotalPosts
            /\ st = "pending"
        BY Constants
      <3> HIDE DEF st
      <3>3. outbox' = Mark(ev, st, 0)
        BY <3>1, <3>2
      <3>4. /\ SameEvents(outbox, outbox')
            /\ \A i \in 1 .. Len(outbox) :
                 /\ outbox[i].event # ev => outbox'[i] = outbox[i]
                 /\ outbox[i].event = ev => outbox'[i].status = st /\ outbox'[i].attempts = 0
        BY <1>1, <3>2, <3>3, MarkInPlace
      <3>5. /\ TerminalLast(outbox') /\ (NoTerminal(outbox') <=> NoTerminal(outbox))
            /\ \A x : Recorded(x, outbox) <=> Recorded(x, outbox')
            /\ \A rs : StoresAgree(rs, outbox) => StoresAgree(rs, outbox')
        BY <1>1, <3>4, SameEventsAgree DEF OutboxSound
      <3>6. OutboxSound(outbox', received)
        <4>1. /\ outbox' \in Seq(OutboxRow) /\ Len(outbox') = Len(outbox)
              /\ \A i \in 1 .. Len(outbox) : outbox'[i].event = outbox[i].event
          BY <3>4 DEF SameEvents
        <4>2. \A i \in 1 .. Len(outbox) : outbox'[i].status = "delivered" => outbox'[i] = outbox[i]
          BY <3>2, <3>4
        <4>3. \A i \in 1 .. Len(outbox) : outbox'[i].status = "delivered" => outbox'[i].event \in received
          BY <1>1, <4>2 DEF OutboxSound
        <4> QED BY <3>5, <4>1, <4>3 DEF OutboxSound
      <3>7. Recorded(ev, outbox')
        BY <2>2, <3>5 DEF Recorded
      <3>8. EmitterSound(t, outbox', received)
        BY <1>2, <1>3, <3>7, OneJob
      <3>9. outbox' # outbox
        BY <2>2, <2>4, <3>2, <3>4
      <3> HIDE DEF t
      <3>10. em' = [em EXCEPT !["again"] = t]
        BY <3>1 DEF t
      <3>11. RowsSound(rows') /\ StoresAgree(rows', outbox')
        BY <1>1, <3>1, <3>5
      <3>12. AgainSound(t)
        BY <3>5, <3>6, <3>8, <3>9, <3>10, <3>11 DEF AgainSound
      <3> QED BY <3>12
    <2>5. CASE outbox[row].status \notin {"pending", "permanent_failure"}
      <3>1. With(<<>>) /\ rows' = Delivered(ev) /\ outbox' = outbox
        BY <1>5, <2>5 DEF RedeliverDurable
      <3> DEFINE t == [c EXCEPT !.queue = <<>>]
      <3> HIDE DEF c
      <3>2. t \in EmitterState /\ t.queue = <<>> /\ t.flight = "none"
        BY <1>3 DEF EmitterState
      <3>3. em' = [em EXCEPT !["again"] = t]
        BY <3>1
      <3> HIDE DEF t
      <3>4. EmitterSound(t, outbox, received) /\ PostsLeft(t) = 0
        BY <3>2, QueueEmpty
      <3>5. RowsSound(rows') /\ RowsKept(rows, rows')
        BY <1>1, <3>1, DeliveredRows
      <3>6. StoresAgree(rows', outbox)
        BY <1>1, <3>5, RowsKeptAgree
      <3>7. AgainSound(t)
        BY <1>1, <3>1, <3>3, <3>4, <3>5, <3>6 DEF AgainSound
      <3> QED BY <3>7
    <2> QED BY <2>3, <2>4, <2>5
  <1> QED BY <1>4, <1>5

\* The second emitter takes over: with a schedule of its own, or after a restart
\* with what the row has left.
LEMMA AgainMoves ==
    ASSUME Inv, NEW t, AgainSound(t), up' = TRUE, UNCHANGED <<received, posted>>,
           left' \in [deltas : Nat, dups : Nat, crashes : Nat], left'.deltas <= left.deltas,
           active' \in {None, "again"},
           \/ allowed' = allowed + TotalPosts
           \/ allowed' = allowed /\ outbox' = outbox /\ em["turn"] = Closed /\ em["again"] = Closed
    PROVE  Inv'
  <1>1. /\ em \in [Emitter -> EmitterState] /\ left \in [deltas : Nat, dups : Nat, crashes : Nat]
        /\ posted \in Nat /\ allowed \in Nat
        /\ EmitterSound(em["turn"], outbox, received) /\ EmitterSound(em["again"], outbox, received)
    BY DEF Inv, TypeOK, Emitter
  <1>2. /\ em' = [em EXCEPT !["again"] = t]
        /\ EmitterSound(t, outbox', received)
        /\ OutboxSound(outbox', received) /\ RowsSound(rows') /\ StoresAgree(rows', outbox')
        /\ \A ev : Recorded(ev, outbox) => Recorded(ev, outbox')
        /\ NoTerminal(outbox') => NoTerminal(outbox)
        /\ outbox' = outbox => PostsLeft(t) = 0 \/ ResumesLast(t)
    BY DEF AgainSound
  <1>3. t \in EmitterState /\ outbox' \in Seq(OutboxRow)
    BY <1>2 DEF EmitterSound, OutboxSound
  <1>4. em' \in [Emitter -> EmitterState] /\ em'["again"] = t /\ em'["turn"] = em["turn"]
    BY <1>1, <1>2, <1>3 DEF Emitter
  <1>5. allowed' \in Nat /\ allowed <= allowed'
    BY <1>1, Constants
  <1>6. TypeOK'
    <2>1. active' \in Emitter \cup {None} /\ up' \in BOOLEAN
      BY DEF Emitter
    <2>2. received' \subseteq Event /\ posted' \in Nat
      BY DEF Inv, TypeOK
    <2> QED BY <1>2, <1>3, <1>4, <1>5, <2>1, <2>2 DEF TypeOK, RowsSound
  <1>7. \A e \in Emitter : EmitterSound(em'[e], outbox', received')
    <2>1. EmitterSound(em["turn"], outbox', received)
      BY <1>1, <1>2 DEF EmitterSound
    <2> QED BY <1>2, <1>4, <2>1 DEF Emitter
  <1>8. \A ev \in received' : Recorded(ev, outbox')
    BY <1>2 DEF Inv
  <1>9. TurnSound' /\ DownQuiet'
    <2>1. left'.deltas <= MaxDeltas
      BY <1>1, Constants DEF Inv, TurnSound
    <2>2. active' # "turn"
      BY Constants
    <2> QED BY <2>1, <2>2 DEF TurnSound, DownQuiet
  <1>10. PostsCovered'
    <2> DEFINE x == PostsLeft(em["turn"])
               y == PostsLeft(em["again"])
               z == PostsLeft(t)
               u == Posting(em["turn"])
               v == Posting(em["again"])
               w == Posting(t)
               l == Len(outbox)
    <2>1. /\ x \in Nat /\ y \in Nat /\ z \in Nat /\ z <= TotalPosts
          /\ u \in Nat /\ v \in Nat /\ w \in Nat
      <3>1. u \in {0, 1} /\ v \in {0, 1} /\ w \in {0, 1}
        BY <1>1, <1>2, PostsCounted
      <3>2. x \in Nat /\ y \in Nat /\ z \in Nat /\ z <= TotalPosts
        BY <1>1, <1>2, PostsCounted
      <3> QED BY <3>1, <3>2
    <2>2. /\ posted + x + y <= allowed
          /\ NoTerminal(outbox) => posted = 0
          /\ TotalPosts <= allowed
      BY DEF Inv, PostsCovered
    <2>3. /\ PostsLeft(em'["turn"]) = x /\ PostsLeft(em'["again"]) = z
          /\ Posting(em'["turn"]) = u /\ Posting(em'["again"]) = w
      BY <1>4
    <2>4. ASSUME outbox' # <<>>
          PROVE  outbox'[Len(outbox')].attempts \in 0 .. TotalPosts
      <3>1. Len(outbox') \in 1 .. Len(outbox')
        BY <1>3, <2>4
      <3>2. outbox'[Len(outbox')] \in OutboxRow
        BY <1>3, <3>1, ElementOfSeq
      <3> QED BY <3>2 DEF OutboxRow
    <2>5. CASE allowed' = allowed + TotalPosts
      <3> DEFINE b == TotalPosts - outbox'[Len(outbox')].attempts
      <3>1. outbox' # <<>> => b \in Nat /\ b <= TotalPosts
        BY <2>4, Constants
      <3> HIDE DEF x, y, z, u, v, w, b
      <3>2. posted + x + z <= allowed'
        BY <1>1, <2>1, <2>2, <2>5, Constants
      <3>3. outbox' # <<>> => posted + b <= allowed' + u + w
        BY <1>1, <2>1, <2>2, <2>5, <3>1, Constants
      <3>4. TotalPosts <= allowed'
        BY <1>1, <2>2, <2>5, Constants
      <3> QED BY <1>2, <2>2, <2>3, <3>2, <3>3, <3>4 DEF b, PostsCovered
    <2>6. CASE allowed' = allowed /\ outbox' = outbox /\ em["turn"] = Closed /\ em["again"] = Closed
      <3>1. x = 0 /\ u = 0 /\ v = 0
        BY <2>6, ClosedSound
      <3> DEFINE b == TotalPosts - outbox[l].attempts
                 Due == outbox # <<>> /\ Terminal(outbox[l].event) /\ outbox[l].status = "pending"
      <3>2. Due => posted + b <= allowed + u + v
        BY DEF Inv, PostsCovered
      <3>3. z = 0 \/ (Due /\ z = b)
        BY <1>2, <2>6 DEF ResumesLast
      <3>4. Due => b \in Nat
        BY <2>4, <2>6, Constants
      <3> HIDE DEF x, y, z, u, v, w, b, Due
      <3>5. posted + x + z <= allowed
        BY <1>1, <2>1, <2>2, <3>1, <3>2, <3>3, <3>4, Constants
      <3>6. Due => posted + b <= allowed + u + w
        BY <1>1, <2>1, <3>1, <3>2, <3>4
      <3> QED BY <1>2, <2>2, <2>3, <2>6, <3>5, <3>6 DEF b, Due, PostsCovered
    <2> QED BY <2>5, <2>6
  <1> QED BY <1>2, <1>6, <1>7, <1>8, <1>9, <1>10 DEF Inv

LEMMA RedeliverSavedKeeps == ASSUME Inv, NEW m \in Message, RedeliverSaved(m) PROVE Inv'
  <1>1. /\ up /\ left' = [left EXCEPT !.dups = @ - 1] /\ left.dups > 0
        /\ rows[m] # NoRow /\ BeginKind(rows, m, "own") \in {"response-saved", "delivery-failed"}
        /\ RedeliverDurable(rows[m].response)
        /\ active' = "again" /\ allowed' = allowed + TotalPosts
        /\ UNCHANGED <<up, received, posted>>
    BY DEF RedeliverSaved, Duplicate
  <1>2. RowsSound(rows) /\ left \in [deltas : Nat, dups : Nat, crashes : Nat] /\ up \in BOOLEAN
    BY DEF Inv, TypeOK
  <1>3. rows[Opener] # NoRow
    BY <1>1, <1>2 DEF RowsSound, EmptyStore
  <1>4. rows[m].response = rows[Opener].response /\ SchemaHolds(rows[m])
    BY <1>1, <1>2 DEF RowsSound
  <1>5. rows[m].delivery # "pending"
    BY <1>1 DEF BeginKind
  <1> DEFINE ev == rows[Opener].response
  <1>6. ev # NoResponse /\ RedeliverDurable(ev)
    BY <1>1, <1>4, <1>5 DEF SchemaHolds
  <1> HIDE DEF ev
  <1>7. PICK t : AgainSound(t)
    BY <1>3, <1>6, Redelivered DEF ev
  <1>8. left' \in [deltas : Nat, dups : Nat, crashes : Nat] /\ left'.deltas <= left.deltas
    BY <1>1, <1>2
  <1>9. up' = TRUE
    BY <1>1, <1>2
  <1> QED BY <1>1, <1>7, <1>8, <1>9, AgainMoves

\* recoverPending without a saved response.
LEMMA PendingRecovered ==
    ASSUME Inv, em' = [em EXCEPT !["again"] = [Construct(outbox) EXCEPT !.queue = ResumePending]],
           UNCHANGED <<rows, outbox>>
    PROVE  \E t : AgainSound(t)
  <1> DEFINE c == Construct(outbox)
             t == [c EXCEPT !.queue = ResumePending]
  <1>1. /\ RowsSound(rows) /\ StoresAgree(rows, outbox) /\ OutboxSound(outbox, received)
        /\ outbox \in Seq(OutboxRow)
    BY DEF Inv, TypeOK
  <1>2. c \in EmitterState /\ c.queue = <<>> /\ c.flight = "none"
    BY <1>1, Constructed
  <1> HIDE DEF c
  <1>3. /\ t.queue = ResumePending /\ t.flight = "none"
        /\ ResumePending \in Seq(Job) => t \in EmitterState
    BY <1>2 DEF EmitterState
  <1>4. em' = [em EXCEPT !["again"] = t]
    BY DEF c
  <1> HIDE DEF t
  <1>5. EmitterSound(t, outbox, received) /\ (PostsLeft(t) = 0 \/ ResumesLast(t))
    BY <1>1, <1>3, Resumed
  <1>6. AgainSound(t)
    BY <1>1, <1>4, <1>5 DEF AgainSound
  <1> QED BY <1>6

LEMMA NothingRecovered ==
    ASSUME Inv, ~up, UNCHANGED <<rows, outbox, em>>
    PROVE  \E t : AgainSound(t)
  <1> DEFINE t == em["again"]
  <1>1. /\ RowsSound(rows) /\ StoresAgree(rows, outbox) /\ OutboxSound(outbox, received)
        /\ em \in [Emitter -> EmitterState] /\ EmitterSound(t, outbox, received) /\ t = Closed
    BY DEF Inv, TypeOK, DownQuiet, Emitter
  <1>2. em' = [em EXCEPT !["again"] = t]
    BY <1>1 DEF Emitter
  <1>3. PostsLeft(t) = 0
    BY <1>1, ClosedSound
  <1> HIDE DEF t
  <1>4. AgainSound(t)
    BY <1>1, <1>2, <1>3 DEF AgainSound
  <1> QED BY <1>4

LEMMA BootKeeps == ASSUME Inv, Boot PROVE Inv'
  <1>1. /\ ~up /\ up' = TRUE /\ RecoverPending
        /\ allowed' = IF outbox' # outbox THEN allowed + TotalPosts ELSE allowed
        /\ UNCHANGED <<active, received, posted, left>>
    BY DEF Boot
  <1>2. /\ RowsSound(rows) /\ left \in [deltas : Nat, dups : Nat, crashes : Nat]
        /\ active = None /\ em["turn"] = Closed /\ em["again"] = Closed
    BY <1>1 DEF Inv, TypeOK, DownQuiet, Emitter
  <1>3. \E t : AgainSound(t)
    <2>1. CASE SavedCorrelations(rows) # {}
      <3>1. RedeliverDurable(rows[Opener].response)
        BY <1>1, <2>1 DEF RecoverPending
      <3>2. PICK m \in Message : rows[m] # NoRow /\ rows[m].delivery = "saved"
        BY <2>1 DEF SavedCorrelations, Rows
      <3>3. rows[Opener] # NoRow
        BY <1>2, <3>2 DEF RowsSound, EmptyStore
      <3>4. rows[m].response = rows[Opener].response /\ SchemaHolds(rows[m])
        BY <1>2, <3>2 DEF RowsSound
      <3> DEFINE ev == rows[Opener].response
      <3>5. ev # NoResponse /\ RedeliverDurable(ev)
        BY <3>1, <3>2, <3>4 DEF SchemaHolds
      <3> HIDE DEF ev
      <3> QED BY <3>3, <3>5, Redelivered DEF ev
    <2>2. CASE /\ SavedCorrelations(rows) = {}
               /\ \E i \in DOMAIN outbox : outbox[i].status = "pending"
      <3>1. /\ em' = [em EXCEPT !["again"] = [Construct(outbox) EXCEPT !.queue = ResumePending]]
            /\ UNCHANGED <<rows, outbox>>
        BY <1>1, <2>2 DEF RecoverPending
      <3> QED BY <3>1, PendingRecovered
    <2>3. CASE /\ SavedCorrelations(rows) = {}
               /\ ~\E i \in DOMAIN outbox : outbox[i].status = "pending"
      <3>1. UNCHANGED <<rows, outbox, em>>
        BY <1>1, <2>3 DEF RecoverPending
      <3> QED BY <1>1, <3>1, NothingRecovered
    <2> QED BY <2>1, <2>2, <2>3
  <1>4. PICK t : AgainSound(t)
    BY <1>3
  <1>5. left' \in [deltas : Nat, dups : Nat, crashes : Nat] /\ left'.deltas <= left.deltas
    BY <1>1, <1>2
  <1> QED BY <1>1, <1>2, <1>4, <1>5, AgainMoves

-----------------------------------------------------------------------------
(***************************************************************************)
(* Crashes.                                                                *)
(***************************************************************************)

InFlight == {e \in Emitter : em[e].flight # "none"}

\* The POSTs under way are counted among the ones a crash allows again.
LEMMA FlightsCounted ==
    /\ Cardinality(InFlight) \in Nat
    /\ Posting(em["turn"]) \in {0, 1} /\ Posting(em["again"]) \in {0, 1}
    /\ Posting(em["turn"]) + Posting(em["again"]) <= Cardinality(InFlight)
  <1> DEFINE F == InFlight
  <1>1. IsFiniteSet({"turn"}) /\ Cardinality({"turn"}) = 1
    BY FS_Singleton
  <1>2. {"turn"} \cup {"again"} = Emitter
    BY DEF Emitter
  <1>3. IsFiniteSet(Emitter) /\ Cardinality(Emitter) = 2
    <2>1. "again" \notin {"turn"}
      OBVIOUS
    <2>2. IsFiniteSet({"turn"} \cup {"again"}) /\ Cardinality({"turn"} \cup {"again"}) = 1 + 1
      BY <1>1, <2>1, FS_AddElement
    <2> QED BY <1>2, <2>2
  <1>4. F \subseteq Emitter
    BY DEF InFlight
  <1>5. IsFiniteSet(F) /\ Cardinality(F) \in Nat
    BY <1>3, <1>4, FS_Subset, FS_CardinalityType
  <1>6. F # {} => Cardinality(F) # 0
    BY <1>5, FS_EmptySet
  <1>7. Posting(em["turn"]) \in {0, 1} /\ Posting(em["again"]) \in {0, 1}
    BY DEF Posting
  <1>8. /\ Posting(em["turn"]) = 1 => "turn" \in F
        /\ Posting(em["again"]) = 1 => "again" \in F
    BY DEF Posting, InFlight, Emitter
  <1>9. "turn" \in F /\ "again" \in F => Cardinality(F) = 2
    <2>1. "turn" \in F /\ "again" \in F => F = Emitter
      BY <1>4 DEF Emitter
    <2> QED BY <1>3, <2>1
  <1> HIDE DEF F
  <1>10. Posting(em["turn"]) + Posting(em["again"]) <= Cardinality(F)
    <2> DEFINE c == Cardinality(F)
               u == Posting(em["turn"])
               v == Posting(em["again"])
    <2>1. CASE u = 1 /\ v = 1
      <3>1. c = 2 /\ u + v = 2
        BY <1>8, <1>9, <2>1
      <3> QED BY <3>1
    <2>2. CASE u = 1 /\ v = 0
      <3>1. c # 0 /\ c \in Nat /\ u + v = 1
        BY <1>5, <1>6, <1>8, <2>2
      <3> QED BY <3>1
    <2>3. CASE u = 0 /\ v = 1
      <3>1. c # 0 /\ c \in Nat /\ u + v = 1
        BY <1>5, <1>6, <1>8, <2>3
      <3> QED BY <3>1
    <2>4. CASE u = 0 /\ v = 0
      <3>1. c \in Nat /\ u + v = 0
        BY <1>5, <2>4
      <3> QED BY <3>1
    <2> QED BY <1>7, <2>1, <2>2, <2>3, <2>4
  <1> QED BY <1>5, <1>7, <1>10 DEF F

LEMMA DiesKeeps ==
    ASSUME Inv, Dies, RowsSound(rows'), OutboxSound(outbox', received),
           StoresAgree(rows', outbox'),
           \A ev : Recorded(ev, outbox) => Recorded(ev, outbox'),
           NoTerminal(outbox') => NoTerminal(outbox),
           LET l == Len(outbox')
           IN  outbox' # <<>> /\ Terminal(outbox'[l].event) /\ outbox'[l].status = "pending" =>
                  \/ outbox # <<>> /\ outbox'[l] = outbox[Len(outbox)]
                  \/ outbox'[l].attempts = TotalPosts
    PROVE  Inv'
  <1>1. /\ up' = FALSE /\ active' = None /\ em' = [e \in Emitter |-> Closed]
        /\ allowed' = allowed + Cardinality(InFlight)
        /\ left' = [left EXCEPT !.crashes = @ - 1] /\ left.crashes > 0
        /\ UNCHANGED <<received, posted>>
    BY DEF Dies, InFlight
  <1>2. /\ em'["turn"] = Closed /\ em'["again"] = Closed
        /\ \A e \in Emitter : em'[e] = Closed
    BY <1>1 DEF Emitter
  <1>3. /\ posted \in Nat /\ allowed \in Nat /\ outbox' \in Seq(OutboxRow) /\ received \subseteq Event
        /\ left \in [deltas : Nat, dups : Nat, crashes : Nat]
    BY DEF Inv, TypeOK, OutboxSound
  <1>4. Cardinality(InFlight) \in Nat
    BY FlightsCounted
  <1>5. \A e \in Emitter : EmitterSound(em'[e], outbox', received')
    BY <1>2, ClosedSound
  <1>6. TypeOK'
    <2>1. Closed \in EmitterState
      BY ClosedSound
    <2>2. em' \in [Emitter -> EmitterState]
      BY <1>1, <2>1
    <2>3. left' \in [deltas : Nat, dups : Nat, crashes : Nat]
      BY <1>1, <1>3
    <2>4. allowed' \in Nat
      BY <1>1, <1>3, <1>4
    <2> QED BY <1>1, <1>3, <2>2, <2>3, <2>4 DEF TypeOK, RowsSound
  <1>7. TurnSound' /\ DownQuiet'
    <2>1. left'.deltas = left.deltas /\ left.deltas <= MaxDeltas
      BY <1>1, <1>3 DEF Inv, TurnSound
    <2> QED BY <1>1, <1>2, <2>1, Constants DEF TurnSound, DownQuiet
  <1>8. \A ev \in received' : Recorded(ev, outbox')
    BY <1>1 DEF Inv
  <1>9. PostsCovered'
    <2> DEFINE x == PostsLeft(em["turn"])
               y == PostsLeft(em["again"])
               u == Posting(em["turn"])
               v == Posting(em["again"])
               c == Cardinality(InFlight)
               l == Len(outbox')
               a == outbox'[l].attempts
    <2>1. x \in Nat /\ y \in Nat
      BY PostsCounted DEF Inv, Emitter
    <2>2. u \in Nat /\ v \in Nat /\ c \in Nat /\ u + v <= c
      <3>1. /\ u \in {0, 1} /\ v \in {0, 1} /\ c \in Nat /\ u + v <= c
        BY FlightsCounted
      <3> QED BY <3>1
    <2>3. /\ posted + x + y <= allowed /\ TotalPosts <= allowed
          /\ NoTerminal(outbox) => posted = 0
      BY DEF Inv, PostsCovered
    <2>4. /\ PostsLeft(em'["turn"]) = 0 /\ PostsLeft(em'["again"]) = 0
          /\ Posting(em'["turn"]) = 0 /\ Posting(em'["again"]) = 0
      BY <1>2, ClosedSound
    <2>5. ASSUME outbox' # <<>>, Terminal(outbox'[l].event), outbox'[l].status = "pending"
          PROVE  posted + (TotalPosts - a) <= allowed + c
      <3>1. a \in 0 .. TotalPosts
        <4>1. l \in 1 .. Len(outbox')
          BY <1>3, <2>5
        <4>2. outbox'[l] \in OutboxRow
          BY <1>3, <4>1, ElementOfSeq
        <4> QED BY <4>2 DEF OutboxRow
      <3>2. CASE outbox # <<>> /\ outbox'[l] = outbox[Len(outbox)]
        <4>1. posted + (TotalPosts - a) <= allowed + u + v
          BY <2>5, <3>2 DEF Inv, PostsCovered
        <4> DEFINE b == TotalPosts - a
        <4>2. b \in Nat
          BY <3>1, Constants
        <4> HIDE DEF b, u, v, c
        <4>3. posted + b <= allowed + u + v
          BY <4>1 DEF b
        <4>4. posted + b <= allowed + c
          BY <1>3, <2>2, <4>2, <4>3
        <4> QED BY <4>4 DEF b
      <3>3. CASE a = TotalPosts
        <4> HIDE DEF a, c, x, y
        <4> QED BY <1>3, <2>1, <2>2, <2>3, <3>3, Constants
      <3> QED BY <2>5, <3>2, <3>3
    <2>6. posted + 0 + 0 <= allowed + c /\ TotalPosts <= allowed + c
      <3> HIDE DEF x, y, c
      <3> QED BY <1>3, <2>1, <2>2, <2>3, Constants
    <2>7. allowed' = allowed + c /\ posted' = posted /\ allowed + c + 0 + 0 = allowed + c
      BY <1>1, <1>3, <2>2
    <2> HIDE DEF c
    <2> QED BY <2>3, <2>4, <2>5, <2>6, <2>7 DEF PostsCovered
  <1> QED BY <1>1, <1>5, <1>6, <1>7, <1>8, <1>9 DEF Inv

LEMMA CrashKeeps == ASSUME Inv, Crash PROVE Inv'
  <1>1. Dies /\ rows' = rows /\ outbox' = outbox
    BY DEF Crash
  <1>2. RowsSound(rows') /\ OutboxSound(outbox', received) /\ StoresAgree(rows', outbox')
    BY <1>1 DEF Inv
  <1> QED BY <1>1, <1>2, DiesKeeps

LEMMA CrashAfterSaveKeeps == ASSUME Inv, NEW type \in AnswerType, CrashAfterSave(type) PROVE Inv'
  <1> DEFINE s == em["turn"]
             evs == Emission(s, type, TRUE)
             n == Len(evs)
             z == evs[n]
  <1>1. /\ InTurn /\ Dies /\ rows' = Prepared(z)
        /\ outbox' = outbox \o [i \in 1..(n - 1) |-> PendingRow(evs[i])]
    BY DEF CrashAfterSave
  <1>2. /\ s \in EmitterState /\ s.seq \in Nat /\ left.deltas \in Nat
        /\ rows[Opener] # NoRow /\ Undecided(rows) /\ NoTerminal(outbox)
        /\ s.seq + left.deltas <= MaxDeltas + (IF s.started THEN 1 ELSE 0)
    BY <1>1, TurnBefore
  <1>3. type \in DurableType /\ TRUE \in BOOLEAN
    BY DEF DurableType, TerminalType
  <1>4. /\ evs \in Seq(Event) /\ n \in {1, 2}
        /\ n = 2 => evs[1].type = "turn.started"
    BY <1>2, <1>3, EmissionShape
  <1>5. z \in Answers
    BY <1>1, <1>3, TurnAnswer
  <1>6. RowsSound(rows) /\ OutboxSound(outbox, received) /\ outbox \in Seq(OutboxRow)
    BY DEF Inv, TypeOK
  <1>7. RowsSound(rows') /\ rows'[Opener] # NoRow /\ ~Undecided(rows')
    <2>1. rows' = SaveForCorrelation(rows, Opener, z)
      BY <1>1, <1>5, AnswerIsEvent DEF Prepared
    <2> HIDE DEF z
    <2>2. RowsSound(rows') /\ rows'[Opener] # NoRow /\ rows'[Opener].response = z
      BY <1>2, <1>5, <1>6, <2>1, SavedRows
    <2> QED BY <1>5, <2>2, AnswerIsEvent DEF Undecided
  <1> DEFINE k == n - 1
  <1>8. k \in 0 .. Len(evs) /\ \A i \in 1 .. k : ~Terminal(evs[i])
    <2>1. "turn.started" \notin TerminalType
      BY DEF TerminalType, AnswerType
    <2>2. n \in {1, 2} /\ (n = 2 => ~Terminal(evs[1]))
      BY <1>4, <2>1 DEF Terminal
    <2>3. k \in 0 .. n /\ \A i \in 1 .. k : n = 2 /\ i = 1
      <3> HIDE DEF n
      <3> QED BY <2>2
    <2> QED BY <2>2, <2>3
  <1>9. outbox' = outbox \o PendingRows(evs, k)
    BY <1>1 DEF PendingRows
  <1> HIDE DEF k, evs
  <1>10. OutboxSound(outbox', received) /\ NoTerminal(outbox')
    <2>1. EndsTerminal(evs, k)
      BY <1>8 DEF EndsTerminal
    <2>2. OutboxSound(outbox', received) /\ Extends(outbox', outbox, evs, k)
      BY <1>2, <1>4, <1>6, <1>8, <1>9, <2>1, OutboxExtended
    <2> QED BY <1>8, <2>2 DEF Extends
  <1>11. StoresAgree(rows', outbox')
    BY <1>7, <1>10 DEF StoresAgree, NoTerminal, Terminal, TerminalType
  <1>12. \A ev : Recorded(ev, outbox) => Recorded(ev, outbox')
    BY <1>2, <1>6, NoneRecorded DEF Recorded
  <1>13. outbox' # <<>> => ~Terminal(outbox'[Len(outbox')].event)
    <2>1. outbox' \in Seq(OutboxRow)
      BY <1>10 DEF OutboxSound
    <2>2. outbox' # <<>> => Len(outbox') \in 1 .. Len(outbox')
      BY <2>1
    <2> QED BY <1>10, <2>2 DEF NoTerminal
  <1> QED BY <1>1, <1>2, <1>7, <1>10, <1>11, <1>12, <1>13, DiesKeeps

\* A crash after the row of the job in flight was marked.
LEMMA MarkedDies ==
    ASSUME Inv, Dies, rows' = rows, SameEvents(outbox, outbox'),
           \A i \in 1 .. Len(outbox) :
              /\ outbox'[i].status = "delivered" => outbox[i].event \in received
              /\ outbox'[i].status = "pending" =>
                    outbox'[i] = outbox[i] \/ outbox'[i].attempts = TotalPosts
    PROVE  Inv'
  <1>1. /\ RowsSound(rows) /\ StoresAgree(rows, outbox) /\ OutboxSound(outbox, received)
        /\ outbox \in Seq(OutboxRow)
    BY DEF Inv, TypeOK
  <1>2. /\ TerminalLast(outbox') /\ (NoTerminal(outbox') <=> NoTerminal(outbox))
        /\ (outbox # <<>> <=> outbox' # <<>>)
        /\ \A ev : Recorded(ev, outbox) <=> Recorded(ev, outbox')
        /\ \A rs : StoresAgree(rs, outbox) => StoresAgree(rs, outbox')
    BY <1>1, SameEventsAgree DEF OutboxSound
  <1>3. /\ outbox' \in Seq(OutboxRow) /\ Len(outbox') = Len(outbox)
        /\ \A i \in 1 .. Len(outbox) : outbox'[i].event = outbox[i].event
    BY DEF SameEvents
  <1>4. OutboxSound(outbox', received)
    BY <1>2, <1>3 DEF OutboxSound
  <1>5. RowsSound(rows') /\ StoresAgree(rows', outbox')
    BY <1>1, <1>2
  <1>6. LET l == Len(outbox')
        IN  outbox' # <<>> /\ Terminal(outbox'[l].event) /\ outbox'[l].status = "pending" =>
               \/ outbox # <<>> /\ outbox'[l] = outbox[Len(outbox)]
               \/ outbox'[l].attempts = TotalPosts
    <2>1. outbox # <<>> => Len(outbox) \in 1 .. Len(outbox)
      BY <1>1
    <2> QED BY <1>2, <1>3, <2>1
  <1> QED BY <1>2, <1>4, <1>5, <1>6, DiesKeeps

LEMMA CrashAfterDeliveredKeeps == ASSUME Inv, NEW e \in Emitter, CrashAfterDelivered(e) PROVE Inv'
  <1> DEFINE ev == HeadJob(e).event
             n == HeadJob(e).attempt + 1
             st == "delivered"
  <1>1. em[e].flight = "acked" /\ outbox' = Mark(ev, st, n) /\ Dies /\ rows' = rows
    BY DEF CrashAfterDelivered
  <1>2. /\ EmitterSound(em[e], outbox, received) /\ outbox \in Seq(OutboxRow)
        /\ \A i \in 1 .. Len(outbox) : outbox[i].status = "delivered" => outbox[i].event \in received
        /\ em[e].queue # <<>> /\ n \in 0 .. TotalPosts
    BY <1>1, EmitterBefore
  <1>3. ev \in received
    <2>1. HeadJob(e) = em[e].queue[1]
      BY <1>2, EmitterBefore
    <2> QED BY <1>1, <1>2, <2>1 DEF EmitterSound
  <1>4. st \in {"pending", "delivered", "permanent_failure"} /\ st # "pending"
    OBVIOUS
  <1> HIDE DEF st, ev, n
  <1>5. /\ SameEvents(outbox, outbox')
        /\ \A i \in 1 .. Len(outbox) :
             /\ outbox[i].event # ev => outbox'[i] = outbox[i]
             /\ outbox[i].event = ev => outbox'[i].status = st /\ outbox'[i].attempts = n
    BY <1>1, <1>2, <1>4, MarkInPlace
  <1>6. \A i \in 1 .. Len(outbox) :
          /\ outbox'[i].status = "delivered" => outbox[i].event \in received
          /\ outbox'[i].status = "pending" =>
                outbox'[i] = outbox[i] \/ outbox'[i].attempts = TotalPosts
    BY <1>2, <1>3, <1>4, <1>5
  <1> QED BY <1>1, <1>5, <1>6, MarkedDies

LEMMA CrashAfterLastAttemptKeeps ==
    ASSUME Inv, NEW e \in Emitter, CrashAfterLastAttempt(e)
    PROVE  Inv'
  <1> DEFINE ev == HeadJob(e).event
             n == HeadJob(e).attempt + 1
             st == "permanent_failure"
  <1>1. /\ em[e].flight = "unacked" /\ Dies /\ rows' = rows /\ n >= TotalPosts
        /\ outbox' = RecordAttempt(ev, n) \/ outbox' = Mark(ev, st, n)
    BY DEF CrashAfterLastAttempt, LastAttempt
  <1>2. /\ outbox \in Seq(OutboxRow)
        /\ \A i \in 1 .. Len(outbox) : outbox[i].status = "delivered" => outbox[i].event \in received
        /\ n \in 0 .. TotalPosts
    BY <1>1, EmitterBefore
  <1>3. n = TotalPosts
    BY <1>1, <1>2, Constants
  <1>4. st \in {"pending", "delivered", "permanent_failure"} /\ st # "pending" /\ st # "delivered"
    OBVIOUS
  <1> HIDE DEF st, ev, n
  <1>5. CASE outbox' = RecordAttempt(ev, n)
    <2>1. /\ SameEvents(outbox, outbox')
          /\ \A i \in 1 .. Len(outbox) :
               /\ outbox[i].event # ev => outbox'[i] = outbox[i]
               /\ outbox[i].event = ev => /\ outbox'[i].status = outbox[i].status
                                          /\ outbox'[i].attempts = n
      BY <1>2, <1>5, AttemptInPlace
    <2>2. \A i \in 1 .. Len(outbox) :
            /\ outbox'[i].status = "delivered" => outbox[i].event \in received
            /\ outbox'[i].status = "pending" =>
                  outbox'[i] = outbox[i] \/ outbox'[i].attempts = TotalPosts
      BY <1>2, <1>3, <2>1
    <2> QED BY <1>1, <2>1, <2>2, MarkedDies
  <1>6. CASE outbox' = Mark(ev, st, n)
    <2>1. /\ SameEvents(outbox, outbox')
          /\ \A i \in 1 .. Len(outbox) :
               /\ outbox[i].event # ev => outbox'[i] = outbox[i]
               /\ outbox[i].event = ev => outbox'[i].status = st /\ outbox'[i].attempts = n
      BY <1>2, <1>4, <1>6, MarkInPlace
    <2>2. \A i \in 1 .. Len(outbox) :
            /\ outbox'[i].status = "delivered" => outbox[i].event \in received
            /\ outbox'[i].status = "pending" =>
                  outbox'[i] = outbox[i] \/ outbox'[i].attempts = TotalPosts
      BY <1>2, <1>4, <2>1
    <2> QED BY <1>1, <2>1, <2>2, MarkedDies
  <1> QED BY <1>1, <1>5, <1>6

-----------------------------------------------------------------------------
(***************************************************************************)
(* The invariant.                                                          *)
(***************************************************************************)

LEMMA InitSound == Init => Inv
  <1> SUFFICES ASSUME Init PROVE Inv
    OBVIOUS
  <1>1. /\ rows = EmptyStore /\ outbox = <<>> /\ em = [e \in Emitter |-> Closed]
        /\ active = None /\ up = TRUE /\ received = {} /\ posted = 0 /\ allowed = TotalPosts
        /\ left = [deltas |-> MaxDeltas, dups |-> MaxDups, crashes |-> MaxCrashes]
    BY DEF Init
  <1>2. \A e \in Emitter : em[e] = Closed
    BY <1>1
  <1>3. /\ Closed \in EmitterState /\ EmitterSound(Closed, outbox, received)
        /\ PostsLeft(Closed) = 0 /\ Posting(Closed) = 0
    BY ClosedSound
  <1>4. em \in [Emitter -> EmitterState]
    BY <1>1, <1>3
  <1>5. RowsSound(rows)
    BY <1>1 DEF RowsSound, EmptyStore
  <1>6. OutboxSound(outbox, received) /\ StoresAgree(rows, outbox) /\ NoTerminal(outbox)
    BY <1>1 DEF OutboxSound, TerminalLast, StoresAgree, NoTerminal
  <1>7. TypeOK
    BY <1>1, <1>4, <1>5, <1>6, Constants DEF TypeOK, RowsSound, OutboxSound
  <1>8. TurnSound /\ DownQuiet
    BY <1>1, Constants DEF TurnSound, DownQuiet
  <1>9. PostsCovered
    <2>1. em["turn"] = Closed /\ em["again"] = Closed
      BY <1>2 DEF Emitter
    <2> QED BY <1>1, <1>3, <2>1, Constants DEF PostsCovered
  <1> QED BY <1>1, <1>2, <1>3, <1>5, <1>6, <1>7, <1>8, <1>9 DEF Inv

LEMMA DeliverKeeps == ASSUME Inv, NEW e \in Emitter, Deliver(e) PROVE Inv'
  <1>1. CASE \E accepts, answers \in BOOLEAN : Post(e, accepts, answers)
    BY <1>1, PostKeeps
  <1>2. CASE Acked(e)
    BY <1>2, AckedKeeps
  <1>3. CASE Unacked(e)
    BY <1>3, UnackedKeeps
  <1>4. CASE Exhausted(e)
    BY <1>4, ExhaustedKeeps
  <1>5. CASE BestEffort(e)
    BY <1>5, BestEffortKeeps
  <1>6. CASE Close(e)
    BY <1>6, CloseKeeps
  <1> QED BY <1>1, <1>2, <1>3, <1>4, <1>5, <1>6 DEF Deliver

LEMMA StutterKeeps == ASSUME Inv, UNCHANGED vars PROVE Inv'
  <1>1. /\ rows' = rows /\ outbox' = outbox /\ em' = em /\ active' = active /\ up' = up
        /\ received' = received /\ posted' = posted /\ allowed' = allowed /\ left' = left
    BY DEF vars
  <1>2. TypeOK'
    BY <1>1 DEF Inv, TypeOK
  <1>3. TurnSound' /\ DownQuiet' /\ PostsCovered'
    BY <1>1 DEF Inv, TurnSound, DownQuiet, PostsCovered
  <1>4. /\ RowsSound(rows') /\ OutboxSound(outbox', received') /\ StoresAgree(rows', outbox')
        /\ \A e \in Emitter : EmitterSound(em'[e], outbox', received')
        /\ \A ev \in received' : Recorded(ev, outbox')
    BY <1>1 DEF Inv
  <1> QED BY <1>2, <1>3, <1>4 DEF Inv

LEMMA NextKeeps == ASSUME Inv, Next PROVE Inv'
  <1>1. CASE Activate
    BY <1>1, ActivateKeeps
  <1>2. ASSUME NEW m \in Message, Join(m) \/ Acknowledge(m) \/ Interrupted(m) \/ RedeliverSaved(m)
        PROVE  Inv'
    BY <1>2, JoinKeeps, AcknowledgeKeeps, InterruptedKeeps, RedeliverSavedKeeps
  <1>3. CASE HandleTurnStart \/ HandleMessageUpdate \/ EmitCancelled
    BY <1>3, HandleTurnStartKeeps, HandleMessageUpdateKeeps, EmitCancelledKeeps
  <1>4. ASSUME NEW type \in AnswerType, HandleAgentEnd(type) PROVE Inv'
    <2>1. End(type, TRUE) /\ TRUE \in BOOLEAN
      BY <1>4 DEF HandleAgentEnd
    <2> QED BY <2>1, EndKeeps
  <1>5. CASE EmitProviderError
    <2> DEFINE type == "turn.error"
    <2>1. End(type, TRUE) /\ TRUE \in BOOLEAN /\ type \in AnswerType
      BY <1>5 DEF EmitProviderError, AnswerType
    <2> HIDE DEF type
    <2> QED BY <2>1, EndKeeps
  <1>6. CASE EmitDirectReply
    <2> DEFINE type == "turn.reply"
    <2>1. End(type, FALSE) /\ FALSE \in BOOLEAN /\ type \in AnswerType
      BY <1>6 DEF EmitDirectReply, AnswerType
    <2> HIDE DEF type
    <2> QED BY <2>1, EndKeeps
  <1>7. ASSUME NEW e \in Emitter, Deliver(e) PROVE Inv'
    BY <1>7, DeliverKeeps
  <1>8. CASE Crash \/ Boot
    BY <1>8, CrashKeeps, BootKeeps
  <1>9. ASSUME NEW type \in AnswerType, CrashAfterSave(type) PROVE Inv'
    BY <1>9, CrashAfterSaveKeeps
  <1>10. ASSUME NEW e \in Emitter, CrashAfterDelivered(e) \/ CrashAfterLastAttempt(e) PROVE Inv'
    BY <1>10, CrashAfterDeliveredKeeps, CrashAfterLastAttemptKeeps
  <1> QED BY <1>1, <1>2, <1>3, <1>4, <1>5, <1>6, <1>7, <1>8, <1>9, <1>10 DEF Next

(* In every reachable state the outbox's last row accounts for every terminal event,
   the messages' rows agree with it, and what the schedules allow covers what the
   emitters, or a restart, may still post: across crashes between the two databases,
   duplicates and second emitters. *)
THEOREM InvariantHolds == Spec => []Inv
  <1>1. Inv /\ [Next]_vars => Inv'
    BY NextKeeps, StutterKeeps
  <1> QED BY <1>1, InitSound, PTL DEF Spec

(* The retry schedule bounds the POSTs of the terminal event: a restart continues
   the schedule and repeats only what the crash cut off. *)
THEOREM PostsBoundedHolds == Spec => []PostsBounded
  <1>1. Inv => PostsBounded
    <2> SUFFICES ASSUME Inv PROVE PostsBounded
      OBVIOUS
    <2>1. PostsLeft(em["turn"]) \in Nat /\ PostsLeft(em["again"]) \in Nat
      BY PostsCounted DEF Inv, Emitter
    <2>2. posted + PostsLeft(em["turn"]) + PostsLeft(em["again"]) <= allowed
      BY DEF Inv, PostsCovered
    <2>3. posted \in Nat /\ allowed \in Nat /\ TypeOK
      BY DEF Inv, TypeOK
    <2> QED BY <2>1, <2>2, <2>3 DEF PostsBounded
  <1> QED BY <1>1, InvariantHolds, PTL

(* One answer per correlation: every terminal event that is queued, recorded or
   accepted is the same one, and the store retains it for all messages unless it is a
   cancellation. *)
THEOREM OneAnswerHolds == Spec => []OneAnswer
  <1>1. Inv => OneAnswer
    <2> SUFFICES ASSUME Inv PROVE OneAnswer
      OBVIOUS
    <2> DEFINE seen == received \cup {outbox[i].event : i \in DOMAIN outbox}
                       \cup UNION {{em[e].queue[i].event : i \in DOMAIN em[e].queue} : e \in Emitter}
               terminals == {ev \in seen : ev.type \in TerminalType}
               z == outbox[Len(outbox)].event
    <2>1. /\ outbox \in Seq(OutboxRow) /\ OutboxSound(outbox, received) /\ RowsSound(rows)
          /\ StoresAgree(rows, outbox) /\ em \in [Emitter -> EmitterState]
      BY DEF Inv, TypeOK
    <2>2. ASSUME NEW ev \in terminals PROVE outbox # <<>> /\ ev = z
      <3>1. Terminal(ev) /\ ev \in seen
        BY DEF Terminal
      <3>2. CASE ev \in received
        BY <3>1, <3>2 DEF Inv, Recorded
      <3>3. CASE ev \in {outbox[i].event : i \in DOMAIN outbox}
        <4>1. PICK i \in 1 .. Len(outbox) : ev = outbox[i].event
          BY <2>1, <3>3
        <4>2. i = Len(outbox)
          BY <2>1, <3>1, <4>1 DEF OutboxSound, TerminalLast
        <4> QED BY <2>1, <4>1, <4>2
      <3>4. ASSUME NEW e \in Emitter, ev \in {em[e].queue[i].event : i \in DOMAIN em[e].queue}
            PROVE  outbox # <<>> /\ ev = z
        <4>1. em[e].queue \in Seq(Job)
          BY <2>1 DEF EmitterState
        <4>2. PICK i \in 1 .. Len(em[e].queue) : ev = em[e].queue[i].event
          BY <3>4, <4>1
        <4>3. Recorded(ev, outbox)
          BY <4>2 DEF Inv, EmitterSound
        <4> QED BY <3>1, <4>3 DEF Recorded
      <3> QED BY <3>1, <3>2, <3>3, <3>4
    <2>3. Cardinality(terminals) <= 1
      <3>1. terminals \subseteq {z}
        BY <2>2
      <3> HIDE DEF terminals, z
      <3>2. terminals = {} \/ terminals = {z}
        BY <3>1
      <3>3. Cardinality({}) = 0 /\ Cardinality({z}) = 1
        BY FS_EmptySet, FS_Singleton
      <3> QED BY <3>2, <3>3
    <2>4. ASSUME NEW ev \in terminals
          PROVE  \/ ev.type = "turn.cancelled"
                 \/ \A m \in Siblings(rows, Opener) : rows[m].response = ev
      <3>1. outbox # <<>> /\ ev = z /\ ev.type \in TerminalType
        BY <2>2
      <3>2. Len(outbox) \in 1 .. Len(outbox)
        BY <2>1, <3>1
      <3>3. CASE ev.type \in AnswerType
        <4>1. rows[Opener] # NoRow /\ rows[Opener].response = ev
          BY <2>1, <3>1, <3>2, <3>3 DEF StoresAgree
        <4> QED BY <2>1, <4>1 DEF RowsSound, Siblings, Rows
      <3> QED BY <3>1, <3>3 DEF TerminalType
    <2> HIDE DEF terminals
    <2>5. /\ Cardinality(terminals) <= 1
          /\ \A ev \in terminals :
                \/ ev.type = "turn.cancelled"
                \/ \A m \in Siblings(rows, Opener) : rows[m].response = ev
      BY <2>3, <2>4
    <2> QED BY <2>5 DEF OneAnswer, terminals
  <1> QED BY <1>1, InvariantHolds, PTL

-----------------------------------------------------------------------------
(***************************************************************************)
(* The refinement.  The abstract state is read off the row of the message  *)
(* that created the correlation, and off what the adapter has accepted.    *)
(***************************************************************************)

TheAnswer == IF rows[Opener] = NoRow THEN NoResponse ELSE rows[Opener].response

TheVerdict == IF rows[Opener] = NoRow THEN "pending" ELSE rows[Opener].delivery

IsAccepted == rows[Opener] # NoRow /\ rows[Opener].response \in received

AbstractStep == Refined!Next \/ UNCHANGED Refined!avars

LEMMA SameAbstractState ==
    ASSUME TheAnswer' = TheAnswer, TheVerdict' = TheVerdict, IsAccepted' = IsAccepted
    PROVE  AbstractStep
  BY DEF AbstractStep, Refined!avars, TheAnswer, TheVerdict, IsAccepted

\* A step that leaves the store and the adapter alone is a stuttering step.
LEMMA QuietStep ==
    ASSUME rows' = rows, received' = received
    PROVE  AbstractStep
  BY SameAbstractState DEF TheAnswer, TheVerdict, IsAccepted

\* As long as nothing is decided, nothing is accepted.
LEMMA UndecidedState ==
    ASSUME RowsSound(rows), received \subseteq Event, Undecided(rows)
    PROVE  TheAnswer = NoResponse /\ TheVerdict = "pending" /\ IsAccepted = FALSE
  <1>1. CASE rows[Opener] = NoRow
    BY <1>1 DEF TheAnswer, TheVerdict, IsAccepted
  <1>2. CASE rows[Opener] # NoRow
    <2>1. rows[Opener].response = NoResponse /\ SchemaHolds(rows[Opener])
      BY <1>2, Constants DEF Undecided, RowsSound
    <2>2. rows[Opener].delivery = "pending" /\ rows[Opener].response \notin received
      BY <2>1, Constants DEF SchemaHolds
    <2> QED BY <1>2, <2>1, <2>2 DEF TheAnswer, TheVerdict, IsAccepted
  <1> QED BY <1>1, <1>2

\* The answer is saved for the correlation.
LEMMA SaveDecides ==
    ASSUME Inv, rows[Opener] # NoRow, Undecided(rows), NoTerminal(outbox),
           NEW z \in Answers, rows' = Prepared(z), received' = received
    PROVE  AbstractStep
  <1>1. /\ RowsSound(rows) /\ received \subseteq Event /\ outbox \in Seq(OutboxRow)
        /\ \A ev \in received : Recorded(ev, outbox)
    BY DEF Inv, TypeOK
  <1>2. Terminal(z) /\ z.type \in AnswerType
    BY AnswerIsEvent
  <1>3. rows' = SaveForCorrelation(rows, Opener, z)
    BY <1>2 DEF Prepared
  <1>4. /\ rows'[Opener] # NoRow /\ rows'[Opener].response = z
        /\ rows'[Opener].delivery = "saved"
    BY <1>1, <1>3, SavedRows
  <1>5. TheAnswer = NoResponse /\ TheVerdict = "pending" /\ IsAccepted = FALSE
    BY <1>1, UndecidedState
  <1>6. z \notin received
    <2>1. outbox # <<>> => Len(outbox) \in 1 .. Len(outbox)
      BY <1>1
    <2>2. outbox # <<>> => z # outbox[Len(outbox)].event
      BY <1>2, <2>1 DEF NoTerminal
    <2> QED BY <1>1, <1>2, <2>2 DEF Recorded
  <1>7. TheAnswer' = z /\ TheVerdict' = "saved" /\ IsAccepted' = FALSE
    BY <1>4, <1>6 DEF TheAnswer, TheVerdict, IsAccepted
  <1>8. Refined!Decide
    BY <1>5, <1>7 DEF Refined!Decide, TheAnswer, TheVerdict, IsAccepted, Answers
  <1> QED BY <1>8 DEF AbstractStep, Refined!Next

\* The rows keep their response, and the adapter what it has accepted: the verdict
\* may change.
LEMMA VerdictMoves ==
    ASSUME Inv, RowsKept(rows, rows'), received' = received, rows[Opener] # NoRow,
           \/ rows'[Opener].delivery = rows[Opener].delivery
           \/ /\ rows[Opener].response \in received
              /\ rows[Opener].delivery \in {"saved", "failed"} /\ rows'[Opener].delivery = "sent"
           \/ rows[Opener].delivery = "saved" /\ rows'[Opener].delivery = "failed"
    PROVE  AbstractStep
  <1>1. rows'[Opener] # NoRow /\ rows'[Opener].response = rows[Opener].response
    BY Constants DEF RowsKept
  <1>2. TheAnswer' = TheAnswer /\ IsAccepted' = IsAccepted
    BY <1>1 DEF TheAnswer, IsAccepted
  <1>3. TheVerdict = rows[Opener].delivery /\ TheVerdict' = rows'[Opener].delivery
    BY <1>1 DEF TheVerdict
  <1>4. CASE rows'[Opener].delivery = rows[Opener].delivery
    BY <1>2, <1>3, <1>4, SameAbstractState
  <1>5. CASE /\ rows[Opener].response \in received
             /\ rows[Opener].delivery \in {"saved", "failed"} /\ rows'[Opener].delivery = "sent"
    <2>1. IsAccepted /\ TheVerdict \in {"saved", "failed"} /\ TheVerdict' = "sent"
      BY <1>3, <1>5 DEF IsAccepted
    <2>2. Refined!Confirm
      BY <1>2, <2>1 DEF Refined!Confirm, TheAnswer, TheVerdict, IsAccepted
    <2> QED BY <2>2 DEF AbstractStep, Refined!Next
  <1>6. CASE rows[Opener].delivery = "saved" /\ rows'[Opener].delivery = "failed"
    <2>1. TheVerdict = "saved" /\ TheVerdict' = "failed"
      BY <1>3, <1>6
    <2>2. Refined!GiveUp
      BY <1>2, <2>1 DEF Refined!GiveUp, TheAnswer, TheVerdict, IsAccepted
    <2> QED BY <2>2 DEF AbstractStep, Refined!Next
  <1> QED BY <1>4, <1>5, <1>6

\* The event of a job, if it is an answer, is the response of the correlation.
LEMMA RecordedAnswer ==
    ASSUME Inv, NEW ev, ev.type \in AnswerType, Recorded(ev, outbox)
    PROVE  rows[Opener] # NoRow /\ rows[Opener].response = ev
  <1>1. StoresAgree(rows, outbox) /\ outbox \in Seq(OutboxRow)
    BY DEF Inv, TypeOK
  <1>2. outbox # <<>> /\ ev = outbox[Len(outbox)].event
    BY DEF Recorded, Terminal, TerminalType
  <1>3. Len(outbox) \in 1 .. Len(outbox)
    BY <1>1, <1>2
  <1> QED BY <1>1, <1>2, <1>3 DEF StoresAgree

\* The hook of a delivery confirms the answer, which the adapter has accepted.
LEMMA DeliveryConfirms ==
    ASSUME Inv, NEW ev \in received, rows' = Delivered(ev), received' = received
    PROVE  AbstractStep
  <1>1. CASE ev.type \notin AnswerType
    <2>1. rows' = rows
      BY <1>1 DEF Delivered
    <2> QED BY <2>1, QuietStep
  <1>2. CASE ev.type \in AnswerType
    <2>1. RowsSound(rows) /\ Recorded(ev, outbox)
      BY DEF Inv
    <2>2. rows[Opener] # NoRow /\ rows[Opener].response = ev
      BY <1>2, <2>1, RecordedAnswer
    <2>3. /\ RowsKept(rows, rows')
          /\ rows'[Opener].delivery =
                IF rows[Opener].delivery \in {"saved", "failed"} THEN "sent" ELSE rows[Opener].delivery
      BY <1>2, <2>1, <2>2, DeliveredRows
    <2> QED BY <2>2, <2>3, VerdictMoves
  <1> QED BY <1>1, <1>2

\* The hook of a failure gives the answer up, unless it is confirmed.
LEMMA FailureGivesUp ==
    ASSUME Inv, NEW ev, Recorded(ev, outbox), rows' = Failed(ev), received' = received
    PROVE  AbstractStep
  <1>1. CASE ev.type \notin AnswerType
    <2>1. rows' = rows
      BY <1>1 DEF Failed
    <2> QED BY <2>1, QuietStep
  <1>2. CASE ev.type \in AnswerType
    <2>1. RowsSound(rows)
      BY DEF Inv
    <2>2. rows[Opener] # NoRow
      BY <1>2, RecordedAnswer
    <2>3. /\ RowsKept(rows, rows')
          /\ rows'[Opener].delivery =
                IF rows[Opener].delivery = "saved" THEN "failed" ELSE rows[Opener].delivery
      BY <1>2, <2>1, <2>2, FailedRows
    <2> QED BY <2>2, <2>3, VerdictMoves
  <1> QED BY <1>1, <1>2

LEMMA PostRefines ==
    ASSUME Inv, NEW e \in Emitter, NEW accepts \in BOOLEAN, NEW answers \in BOOLEAN,
           Post(e, accepts, answers)
    PROVE  AbstractStep
  <1> DEFINE ev == HeadJob(e).event
  <1>1. /\ em[e].queue # <<>> /\ rows' = rows
        /\ received' = IF accepts THEN received \cup {ev} ELSE received
    BY DEF Post, CanPost
  <1>2. RowsSound(rows) /\ received \subseteq Event /\ ev \in Event
    BY <1>1, EmitterBefore DEF Job
  <1> HIDE DEF ev
  <1>3. TheAnswer' = TheAnswer /\ TheVerdict' = TheVerdict
    BY <1>1 DEF TheAnswer, TheVerdict
  <1>4. CASE Undecided(rows)
    <2>1. IsAccepted = FALSE
      BY <1>2, <1>4, UndecidedState
    <2>2. NoResponse \notin received'
      BY <1>1, <1>2, Constants
    <2>3. IsAccepted' = FALSE
      BY <1>1, <1>4, <2>2 DEF IsAccepted, Undecided
    <2> QED BY <1>3, <2>1, <2>3, SameAbstractState
  <1>5. CASE ~Undecided(rows)
    <2>1. rows[Opener] # NoRow /\ rows[Opener].response # NoResponse
      BY <1>5 DEF Undecided
    <2>2. CASE accepts /\ rows[Opener].response = ev
      <3>1. TheAnswer # NoResponse /\ IsAccepted' = TRUE
        BY <1>1, <2>1, <2>2 DEF TheAnswer, IsAccepted
      <3>2. Refined!Accept
        BY <1>3, <3>1 DEF Refined!Accept, TheAnswer, TheVerdict, IsAccepted
      <3> QED BY <3>2 DEF AbstractStep, Refined!Next
    <2>3. CASE ~(accepts /\ rows[Opener].response = ev)
      <3>1. IsAccepted' = IsAccepted
        BY <1>1, <2>3 DEF IsAccepted
      <3> QED BY <1>3, <3>1, SameAbstractState
    <2> QED BY <2>2, <2>3
  <1> QED BY <1>4, <1>5

LEMMA DeliverRefines == ASSUME Inv, NEW e \in Emitter, Deliver(e) PROVE AbstractStep
  <1> DEFINE ev == HeadJob(e).event
  <1>1. CASE \E accepts, answers \in BOOLEAN : Post(e, accepts, answers)
    BY <1>1, PostRefines
  <1>2. CASE Acked(e)
    <2>1. em[e].flight = "acked" /\ rows' = Delivered(ev) /\ received' = received
      BY <1>2 DEF Acked
    <2>2. EmitterSound(em[e], outbox, received) /\ HeadJob(e) = em[e].queue[1]
      BY <2>1, EmitterBefore
    <2>3. ev \in received
      BY <2>1, <2>2 DEF EmitterSound
    <2> HIDE DEF ev
    <2> QED BY <2>1, <2>3, DeliveryConfirms
  <1>3. CASE Exhausted(e)
    <2>1. em[e].queue # <<>> /\ rows' = Failed(ev) /\ received' = received
      BY <1>3 DEF Exhausted
    <2>2. Recorded(ev, outbox)
      BY <2>1, EmitterBefore
    <2> HIDE DEF ev
    <2> QED BY <2>1, <2>2, FailureGivesUp
  <1>4. CASE Unacked(e) \/ BestEffort(e) \/ Close(e)
    <2>1. rows' = rows /\ received' = received
      BY <1>4 DEF Unacked, BestEffort, Close
    <2> QED BY <2>1, QuietStep
  <1> QED BY <1>1, <1>2, <1>3, <1>4 DEF Deliver

LEMMA MessageRefines ==
    ASSUME Inv, NEW m \in Message, Join(m) \/ Acknowledge(m)
    PROVE  AbstractStep
  <1>1. RowsSound(rows) /\ received \subseteq Event /\ received' = received
    BY DEF Inv, TypeOK, Join, Acknowledge
  <1>2. InTurn
    BY DEF Join, Acknowledge
  <1>3. rows[Opener] # NoRow /\ Undecided(rows)
    BY <1>2, TurnBefore
  <1>4. RowsSound(rows') /\ Undecided(rows')
    <2>1. CASE Join(m)
      <3>1. rows[m] = NoRow /\ rows' = Insert(rows, m, "own", Opener)
        BY <2>1 DEF Join
      <3> QED BY <1>1, <1>3, <3>1, InsertedRows DEF Undecided
    <2>2. CASE Acknowledge(m)
      <3> DEFINE rt == MarkIngestComplete(rows, m)
      <3>1. rows[m] # NoRow /\ rows' = rt
        BY <2>2 DEF Acknowledge, IngestPending
      <3>2. /\ RowsSound(rt)
            /\ \A n \in Message : /\ rt[n] = NoRow <=> rows[n] = NoRow
                                  /\ IngestPending(rt, n) => IngestPending(rows, n)
                                  /\ rt[n] # NoRow => /\ rt[n].response = rows[n].response
                                                      /\ rt[n].delivery = rows[n].delivery
        BY <1>1, <3>1, CompletedRows
      <3> HIDE DEF rt
      <3> QED BY <1>3, <3>1, <3>2, Constants DEF Undecided
    <2> QED BY <2>1, <2>2
  <1>5. TheAnswer = NoResponse /\ TheVerdict = "pending" /\ IsAccepted = FALSE
    BY <1>1, <1>3, UndecidedState
  <1>6. TheAnswer' = NoResponse /\ TheVerdict' = "pending" /\ IsAccepted' = FALSE
    <2>1. CASE rows'[Opener] = NoRow
      BY <2>1 DEF TheAnswer, TheVerdict, IsAccepted
    <2>2. CASE rows'[Opener] # NoRow
      <3>1. rows'[Opener].response = NoResponse /\ SchemaHolds(rows'[Opener])
        BY <1>4, <2>2, Constants DEF Undecided, RowsSound
      <3>2. rows'[Opener].delivery = "pending" /\ rows'[Opener].response \notin received'
        BY <1>1, <3>1, Constants DEF SchemaHolds
      <3> QED BY <2>2, <3>1, <3>2 DEF TheAnswer, TheVerdict, IsAccepted
    <2> QED BY <2>1, <2>2
  <1> QED BY <1>5, <1>6, SameAbstractState

LEMMA ActivateRefines == ASSUME Inv, Activate PROVE AbstractStep
  <1>1. /\ rows = EmptyStore /\ rows' = Insert(rows, Opener, "own", Opener)
        /\ received' = received
    BY DEF Activate
  <1>2. RowsSound(rows) /\ received \subseteq Event
    BY DEF Inv, TypeOK
  <1>3. rows[Opener] = NoRow /\ Opener \in Message
    BY <1>1, Constants DEF EmptyStore
  <1>4. /\ rows'[Opener] # NoRow /\ rows'[Opener].response = NoResponse
        /\ rows'[Opener].delivery = "pending"
    BY <1>1, <1>2, <1>3, InsertedRows DEF Undecided
  <1>5. NoResponse \notin received
    BY <1>2, Constants
  <1>6. TheAnswer = NoResponse /\ TheVerdict = "pending" /\ IsAccepted = FALSE
    BY <1>3 DEF TheAnswer, TheVerdict, IsAccepted
  <1>7. TheAnswer' = NoResponse /\ TheVerdict' = "pending" /\ IsAccepted' = FALSE
    BY <1>1, <1>4, <1>5 DEF TheAnswer, TheVerdict, IsAccepted
  <1> QED BY <1>6, <1>7, SameAbstractState

\* The steps that end the correlation with an answer.
LEMMA AnswerRefines ==
    ASSUME Inv, InTurn, NEW type \in AnswerType, NEW starts \in BOOLEAN,
           End(type, starts) \/ (starts = TRUE /\ CrashAfterSave(type))
    PROVE  AbstractStep
  <1> DEFINE evs == Emission(em["turn"], type, starts)
             z == evs[Len(evs)]
  <1>1. rows' = Prepared(z) /\ received' = received
    <2>1. CASE End(type, starts)
      BY <2>1 DEF End, Emit
    <2>2. CASE starts = TRUE /\ CrashAfterSave(type)
      BY <2>2 DEF CrashAfterSave, Dies
    <2> QED BY <2>1, <2>2
  <1>2. rows[Opener] # NoRow /\ Undecided(rows) /\ NoTerminal(outbox)
    BY TurnBefore
  <1>3. z \in Answers
    BY TurnAnswer
  <1> HIDE DEF z
  <1> QED BY <1>1, <1>2, <1>3, SaveDecides

LEMMA InterruptedRefines == ASSUME Inv, NEW m \in Message, Interrupted(m) PROVE AbstractStep
  <1> DEFINE evs == Emission(Construct(outbox), "turn.error", TRUE)
             z == evs[Len(evs)]
  <1>1. IngestPending(rows, m) /\ rows' = Prepared(z) /\ received' = received
    BY DEF Interrupted, Emit
  <1>2. rows[Opener] # NoRow /\ Undecided(rows) /\ NoTerminal(outbox) /\ z \in Answers
    BY <1>1, InterruptedBefore
  <1> HIDE DEF z
  <1> QED BY <1>1, <1>2, SaveDecides

\* An emission that is no answer leaves the store alone.
LEMMA EmissionRefines == ASSUME Inv, HandleTurnStart \/ EmitCancelled PROVE AbstractStep
  <1>1. em["turn"] \in EmitterState /\ FALSE \in BOOLEAN
    BY DEF Inv, TypeOK, Emitter
  <1>2. PICK type \in {"turn.started", "turn.cancelled"} :
          LET evs == Emission(em["turn"], type, FALSE)
          IN  rows' = Prepared(evs[Len(evs)]) /\ received' = received
    BY DEF HandleTurnStart, EmitCancelled, Emit
  <1>3. type \in DurableType /\ type \notin AnswerType
    BY DEF DurableType, TerminalType, AnswerType
  <1> DEFINE evs == Emission(em["turn"], type, FALSE)
             z == evs[Len(evs)]
  <1>4. z.type = type
    BY <1>1, <1>3, EmissionShape
  <1>5. rows' = Prepared(z) /\ received' = received
    BY <1>2
  <1> HIDE DEF z
  <1>6. rows' = rows
    BY <1>3, <1>4, <1>5 DEF Prepared
  <1> QED BY <1>5, <1>6, QuietStep

\* A redelivery writes the store only when the row says the answer was delivered.
LEMMA RedeliveryRefines ==
    ASSUME Inv, rows[Opener] # NoRow, NEW ev, ev = rows[Opener].response, ev # NoResponse,
           RedeliverDurable(ev), received' = received
    PROVE  AbstractStep
  <1> DEFINE row == CHOOSE i \in At(ev) : TRUE
  <1>1. \/ rows' = rows
        \/ /\ At(ev) # {} /\ rows' = Delivered(ev)
           /\ outbox[row].status # "pending" /\ outbox[row].status # "permanent_failure"
    BY DEF RedeliverDurable, RetryPermanentFailure
  <1>2. CASE rows' = rows
    BY <1>2, QuietStep
  <1>3. CASE /\ At(ev) # {} /\ rows' = Delivered(ev)
             /\ outbox[row].status # "pending" /\ outbox[row].status # "permanent_failure"
    <2>1. row \in At(ev)
      BY <1>3
    <2> HIDE DEF row
    <2>2. outbox \in Seq(OutboxRow) /\ OutboxSound(outbox, received)
      BY DEF Inv, TypeOK
    <2>3. row \in 1 .. Len(outbox) /\ outbox[row].event = ev
      BY <2>1, <2>2 DEF At
    <2>4. outbox[row] \in OutboxRow
      BY <2>2, <2>3, ElementOfSeq
    <2>5. outbox[row].status = "delivered"
      BY <1>3, <2>4 DEF OutboxRow
    <2>6. ev \in received
      BY <2>2, <2>3, <2>5 DEF OutboxSound
    <2> QED BY <1>3, <2>6, DeliveryConfirms
  <1> QED BY <1>1, <1>2, <1>3

LEMMA RedeliverSavedRefines ==
    ASSUME Inv, NEW m \in Message, RedeliverSaved(m)
    PROVE  AbstractStep
  <1>1. /\ rows[m] # NoRow /\ BeginKind(rows, m, "own") \in {"response-saved", "delivery-failed"}
        /\ RedeliverDurable(rows[m].response) /\ received' = received
    BY DEF RedeliverSaved
  <1>2. RowsSound(rows)
    BY DEF Inv
  <1>3. rows[Opener] # NoRow
    BY <1>1, <1>2 DEF RowsSound, EmptyStore
  <1>4. rows[m].response = rows[Opener].response /\ SchemaHolds(rows[m])
    BY <1>1, <1>2 DEF RowsSound
  <1>5. rows[m].delivery # "pending"
    BY <1>1 DEF BeginKind
  <1> DEFINE ev == rows[Opener].response
  <1>6. ev # NoResponse /\ RedeliverDurable(ev)
    BY <1>1, <1>4, <1>5 DEF SchemaHolds
  <1> HIDE DEF ev
  <1> QED BY <1>1, <1>3, <1>6, RedeliveryRefines DEF ev

LEMMA BootRefines == ASSUME Inv, Boot PROVE AbstractStep
  <1>1. RecoverPending /\ received' = received
    BY DEF Boot
  <1>2. CASE SavedCorrelations(rows) # {}
    <2>1. RedeliverDurable(rows[Opener].response)
      BY <1>1, <1>2 DEF RecoverPending
    <2>2. PICK m \in Message : rows[m] # NoRow /\ rows[m].delivery = "saved"
      BY <1>2 DEF SavedCorrelations, Rows
    <2>3. RowsSound(rows)
      BY DEF Inv
    <2>4. rows[Opener] # NoRow
      BY <2>2, <2>3 DEF RowsSound, EmptyStore
    <2>5. rows[m].response = rows[Opener].response /\ SchemaHolds(rows[m])
      BY <2>2, <2>3 DEF RowsSound
    <2> DEFINE ev == rows[Opener].response
    <2>6. ev # NoResponse /\ RedeliverDurable(ev)
      BY <2>1, <2>2, <2>5 DEF SchemaHolds
    <2> HIDE DEF ev
    <2> QED BY <1>1, <2>4, <2>6, RedeliveryRefines DEF ev
  <1>3. CASE SavedCorrelations(rows) = {}
    <2>1. rows' = rows
      BY <1>1, <1>3 DEF RecoverPending
    <2> QED BY <1>1, <2>1, QuietStep
  <1> QED BY <1>2, <1>3

LEMMA NextRefines == ASSUME Inv, Next PROVE AbstractStep
  <1>1. CASE Activate
    BY <1>1, ActivateRefines
  <1>2. ASSUME NEW m \in Message, Join(m) \/ Acknowledge(m) \/ Interrupted(m) \/ RedeliverSaved(m)
        PROVE  AbstractStep
    BY <1>2, MessageRefines, InterruptedRefines, RedeliverSavedRefines
  <1>3. CASE HandleTurnStart \/ EmitCancelled
    BY <1>3, EmissionRefines
  <1>4. CASE HandleMessageUpdate
    BY <1>4, QuietStep DEF HandleMessageUpdate
  <1>5. ASSUME NEW type \in AnswerType, HandleAgentEnd(type) PROVE AbstractStep
    <2>1. End(type, TRUE) /\ TRUE \in BOOLEAN /\ InTurn
      BY <1>5 DEF HandleAgentEnd, End
    <2> QED BY <2>1, AnswerRefines
  <1>6. CASE EmitProviderError
    <2> DEFINE type == "turn.error"
    <2>1. End(type, TRUE) /\ TRUE \in BOOLEAN /\ type \in AnswerType /\ InTurn
      BY <1>6 DEF EmitProviderError, AnswerType, End
    <2> HIDE DEF type
    <2> QED BY <2>1, AnswerRefines
  <1>7. CASE EmitDirectReply
    <2> DEFINE type == "turn.reply"
    <2>1. End(type, FALSE) /\ FALSE \in BOOLEAN /\ type \in AnswerType /\ InTurn
      BY <1>7 DEF EmitDirectReply, AnswerType, End
    <2> HIDE DEF type
    <2> QED BY <2>1, AnswerRefines
  <1>8. ASSUME NEW e \in Emitter, Deliver(e) PROVE AbstractStep
    BY <1>8, DeliverRefines
  <1>9. CASE Boot
    BY <1>9, BootRefines
  <1>10. ASSUME NEW type \in AnswerType, CrashAfterSave(type) PROVE AbstractStep
    <2>1. TRUE \in BOOLEAN /\ InTurn
      BY <1>10 DEF CrashAfterSave
    <2> QED BY <1>10, <2>1, AnswerRefines
  <1>11. CASE Crash
    BY <1>11, QuietStep DEF Crash, Dies
  <1>12. ASSUME NEW e \in Emitter, CrashAfterDelivered(e) \/ CrashAfterLastAttempt(e)
         PROVE  AbstractStep
    BY <1>12, QuietStep DEF CrashAfterDelivered, CrashAfterLastAttempt, Dies
  <1> QED BY <1>1, <1>2, <1>3, <1>4, <1>5, <1>6, <1>7, <1>8, <1>9, <1>10, <1>11, <1>12 DEF Next

(* The two databases, the retries, the crashes and the second emitters implement
   AnswerDelivery: one answer is decided, it counts as sent only after the adapter has
   accepted it, and a confirmed answer stays confirmed. *)
THEOREM ImplementsHolds == Spec => Implements
  <1>1. Init => Refined!Init
    <2> SUFFICES ASSUME Init PROVE Refined!Init
      OBVIOUS
    <2>1. rows[Opener] = NoRow
      BY Constants DEF Init, EmptyStore
    <2> QED BY <2>1 DEF Refined!Init
  <1>2. Inv /\ [Next]_vars => [Refined!Next]_(Refined!avars)
    <2> SUFFICES ASSUME Inv, [Next]_vars PROVE AbstractStep
      BY DEF AbstractStep
    <2>1. CASE Next
      BY <2>1, NextRefines
    <2>2. CASE UNCHANGED vars
      BY <2>2, QuietStep DEF vars
    <2> QED BY <2>1, <2>2
  <1>3. Spec => Refined!Spec
    BY <1>1, <1>2, InvariantHolds, PTL DEF Spec, Refined!Spec
  <1> QED BY <1>3 DEF Implements
=============================================================================
