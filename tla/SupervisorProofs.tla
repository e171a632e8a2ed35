-------------------------- MODULE SupervisorProofs --------------------------
(***************************************************************************)
(* Proofs about Supervisor, for every set of messages and children, every  *)
(* way the messages are delivered and every number of crashes: that a      *)
(* correlation is answered as a whole, that the lease and the child go     *)
(* with the turn, that a message is written to a session at most once and  *)
(* that nothing accepted is forgotten.                                     *)
(***************************************************************************)
EXTENDS Supervisor, TLAPS, SequenceTheorems

-----------------------------------------------------------------------------
(***************************************************************************)
(* The inductive invariant.  Its parts take the state they speak of as     *)
(* parameters; h is the message at the head of the chain.                  *)
(***************************************************************************)

Row == RowType({"own"}, Event)

\* The row of m and the outbox of its correlation: an answer leaves no ingest
\* pending, and a cancellation none of the message that created the correlation.
Answered(m, r, p) ==
    /\ SchemaHolds(r)
    /\ r.response # NoResponse => p # <<>> /\ p[1].event = r.response
    /\ p # <<>> /\ p[1].event.type # "turn.cancelled" =>
          r.ingest = "completed" /\ r.response = p[1].event
    /\ p # <<>> /\ r.corr = m => r.ingest = "completed"

StoreSound(rs, ob) ==
    /\ rs \in [Message -> Row \cup {NoRow}]
    /\ ob \in [Message -> Seq(OutboxRow)]
    /\ \A m \in Message : ob[m] # <<>> => rs[m] # NoRow
    /\ \A m \in Message : rs[m] # NoRow =>
          /\ rs[rs[m].corr] # NoRow /\ rs[rs[m].corr].corr = rs[m].corr
          /\ Answered(m, rs[m], ob[rs[m].corr])

\* The steps of a call whose message has just been accepted, of one that prompts
\* its child and of one that appends to its session.
Fresh == {"acquiring", "append_acquiring"}

Prompts == {"prompting", "prompted"}

Appends == {"appending", "appended"}

Busy == Fresh \cup {"retiring"} \cup Prompts \cup Appends

\* The steps that wait for the abort of the turn in flight.
Aborts == {"aborting", "resetting"}

CallSound(cl, h, a, rs, Own) ==
    /\ cl.at \in Fresh =>
          /\ a = None /\ IngestPending(rs, h) /\ rs[h].corr = h
          /\ \A m \in Message : rs[m] # NoRow /\ rs[m].corr = h => m = h
    /\ cl.at \in Prompts \cup Appends =>
          /\ cl.child \in Child /\ rs[h] # NoRow
          /\ a # None => a.corr = rs[h].corr /\ a.lease = cl.child
    /\ cl.at \in Appends /\ rs[h].corr = h => a = None
    /\ cl.at = "admit" /\ h \in Own => a = None
    /\ cl.at \in {"resetting", "retiring"} => rs[h] # NoRow
    /\ cl.at = "retiring" => a = None
    /\ cl.at \in Aborts \cup {"redelivering"} => a # None /\ a.terminal

\* A turn whose terminal event is claimed is being aborted, or is the transient
\* one of a redelivery.
Claimed(a, ob, cl) ==
    /\ ob[a.corr] # <<>>
    /\ \/ cl.at \in Aborts /\ a.lease \in Child
       \/ cl.at = "redelivering" /\ a.lease = None

\* The runs a turn's child owes are more than the follow-ups that swallow their
\* ends.
InFlight(a, rs, ob, cl, h, ks, ph) ==
    /\ ob[a.corr] = <<>> /\ a.lease \in Child
    /\ ks[a.lease].at # "none"
    /\ ks[a.lease].runs + (IF cl.at = "prompting" THEN 1 ELSE 0) > a.followUps
    /\ ph = "up" => ks[a.lease].leased
    /\ \A m \in Message : IngestPending(rs, m) /\ rs[m].corr = a.corr =>
          cl.at \in Prompts \cup Appends /\ m = h

TurnSound(a, rs, ob, cl, h, ks, ph) ==
    a # None =>
       /\ rs[a.corr] # NoRow /\ rs[a.corr].corr = a.corr
       /\ a.terminal => Claimed(a, ob, cl)
       /\ ~a.terminal => InFlight(a, rs, ob, cl, h, ks, ph)

KidsSound(ks) ==
    /\ ks \in [Child -> Kid]
    /\ \A k \in Child : ks[k].leased => ks[k].at = "pooled"

LeasesHeld(ks, a, cl, h, rs) ==
    \A k \in Child : ks[k].leased =>
       \/ a # None /\ a.lease = k
       \/ cl.child = k /\ cl.at \in Appends /\ rs[h].corr = h

WrittenSound(w, rs, cl, h) ==
    /\ w \in [Message -> Nat]
    /\ \A m \in Message : w[m] <= 1 /\ (rs[m] = NoRow => w[m] = 0)
    /\ cl.at \in {"acquiring", "append_acquiring", "prompting", "appending"} => w[h] = 0

\* A session reset that joined the turn it took down.
Stranded(m, rs, ob, Lone) == m \in Lone /\ rs[m].corr # m /\ ob[rs[m].corr] # <<>>

\* Whose business a pending ingest is.
Owed(m, rs, ob, cl, h, Lone) ==
    \/ cl.at \in Busy /\ m = h /\ ob[rs[m].corr] = <<>>
    \/ Stranded(m, rs, ob, Lone)

\* What is unfinished, short of a crash, is the business of the call at the head
\* of the chain or of the turn in flight, or stranded.
Unfinished(rs, ob, cl, h, a, Own, Lone) ==
    \A m \in Message : rs[m] # NoRow =>
       /\ IngestPending(rs, m) => Owed(m, rs, ob, cl, h, Lone)
       /\ (m \in Own \/ rs[m].corr # m) /\ ob[rs[m].corr] = <<>> =>
             \/ a # None /\ ~a.terminal /\ a.corr = rs[m].corr
             \/ cl.at \in {"acquiring", "retiring"} /\ m = h

OwnCorrelation(rs, Own) == \A m \in Own : rs[m] # NoRow => rs[m].corr = m

Saying == {m \in Message : Addressed(m)}

Joining == {m \in Message : kind[m] = "ambient_reset"}

BoundsTyped ==
    /\ kind \in [Message -> Kind] /\ posts \in [Message -> Nat]
    /\ crashes \in Nat /\ died \in BOOLEAN

BufferType == [backlog : Seq(Message), window : 0..Window, silence : 0..Quiet]

Typed(bf, a, ch, cl, sd, rc, ph) ==
    /\ bf \in BufferType
    /\ a \in Turn \cup {None}
    /\ ch \in Seq(Message) /\ cl \in Call
    /\ sd \subseteq Message /\ rc \subseteq Message
    /\ ph \in {"up", "closing", "down"}

ControlSound(ch, cl, ph, a, sd, rc, ob) ==
    /\ ch = <<>> <=> cl.at = "none"
    /\ ph = "down" => a = None /\ ch = <<>>
    /\ \A c \in sd \cup rc : ob[c] # <<>>

\* Every part of the control takes the store, the turn, the call and the children.
TurnsSound(rs, ob, a, cl, h, ks, ph, w, Own) ==
    /\ OwnCorrelation(rs, Own)
    /\ CallSound(cl, h, a, rs, Own)
    /\ TurnSound(a, rs, ob, cl, h, ks, ph)
    /\ KidsSound(ks)
    /\ LeasesHeld(ks, a, cl, h, rs)
    /\ WrittenSound(w, rs, cl, h)

Inv ==
    /\ BoundsTyped
    /\ Typed(buffer, active, chain, call, sending, recovering, phase)
    /\ ControlSound(chain, call, phase, active, sending, recovering, outbox)
    /\ StoreSound(rows, outbox)
    /\ TurnsSound(rows, outbox, active, call, Head(chain), kids, phase, written, Saying)
    /\ ~died => Unfinished(rows, outbox, call, Head(chain), active, Saying, Joining)

-----------------------------------------------------------------------------
(***************************************************************************)
(* The children.                                                           *)
(***************************************************************************)

LEMMA Markers ==
    /\ None \notin Child /\ None \notin Turn /\ NoResponse \notin Event /\ NoRow \notin Row
  BY SupervisorAssumption DEF Row

\* The entry of k becomes idle, and nothing else changes.
Unleased(ks, k, kt) ==
    \A j \in Child : /\ kt[j].at = "none" <=> ks[j].at = "none"
                     /\ kt[j].runs = ks[j].runs
                     /\ kt[j].leased => ks[j].leased /\ j # k
                     /\ j # k /\ ks[j].leased => kt[j].leased

LEMMA UnleaseIdles ==
    ASSUME NEW ks, KidsSound(ks), NEW k \in Child \cup {None}
    PROVE  KidsSound(Unlease(ks, k)) /\ Unleased(ks, k, Unlease(ks, k))
  <1> DEFINE kt == Unlease(ks, k)
  <1>1. CASE k \in Child /\ ks[k].at = "pooled"
    <2>1. kt = [ks EXCEPT ![k].leased = FALSE]
      BY <1>1, Markers DEF Unlease
    <2>2. ks \in [Child -> Kid] /\ \A j \in Child : ks[j].leased => ks[j].at = "pooled"
      BY DEF KidsSound
    <2> DEFINE r == [ks[k] EXCEPT !.leased = FALSE]
    <2>3. ks[k] \in Kid
      BY <1>1, <2>2
    <2>4. r \in Kid /\ r.at = ks[k].at /\ r.runs = ks[k].runs /\ r.leased = FALSE
      BY <2>3 DEF Kid
    <2>5. kt = [ks EXCEPT ![k] = r]
      BY <2>1
    <2> HIDE DEF r, kt
    <2>6. kt \in [Child -> Kid] /\ kt[k] = r /\ \A j \in Child \ {k} : kt[j] = ks[j]
      BY <1>1, <2>2, <2>4, <2>5
    <2>7. KidsSound(kt)
      BY <2>2, <2>4, <2>6 DEF KidsSound
    <2>8. Unleased(ks, k, kt)
      BY <2>2, <2>4, <2>6 DEF Unleased
    <2> QED BY <2>7, <2>8 DEF kt
  <1>2. CASE ~(k \in Child /\ ks[k].at = "pooled")
    <2>1. kt = ks
      BY <1>2 DEF Unlease
    <2>2. Unleased(ks, k, ks)
      BY <1>2 DEF Unleased, KidsSound
    <2> QED BY <2>1, <2>2
  <1> QED BY <1>1, <1>2

LEMMA RetireIdles ==
    ASSUME NEW ks, KidsSound(ks), NEW k \in Child
    PROVE  KidsSound(Retire(ks, k)) /\ Unleased(ks, k, Retire(ks, k))
  <1> DEFINE kt == Retire(ks, k)
  <1>0. ks \in [Child -> Kid] /\ \A j \in Child : ks[j].leased => ks[j].at = "pooled"
    BY DEF KidsSound
  <1>1. CASE ks[k].at = "pooled"
    <2> DEFINE r == [ks[k] EXCEPT !.at = "gone", !.leased = FALSE, !.shut = TRUE]
    <2>1. ks[k] \in Kid
      BY <1>0
    <2>2. /\ r \in Kid /\ r.at = "gone" /\ r.runs = ks[k].runs /\ r.leased = FALSE
      BY <2>1 DEF Kid
    <2>3. kt = [ks EXCEPT ![k] = r]
      BY <1>0, <1>1 DEF Retire
    <2> HIDE DEF r, kt
    <2>4. kt \in [Child -> Kid] /\ kt[k] = r /\ \A j \in Child \ {k} : kt[j] = ks[j]
      BY <1>0, <2>2, <2>3
    <2>5. KidsSound(kt)
      BY <1>0, <2>2, <2>4 DEF KidsSound
    <2>6. Unleased(ks, k, kt)
      BY <1>0, <1>1, <2>2, <2>4 DEF Unleased
    <2> QED BY <2>5, <2>6 DEF kt
  <1>2. CASE ks[k].at # "pooled"
    <2>1. kt = ks
      BY <1>2 DEF Retire
    <2>2. Unleased(ks, k, ks)
      BY <1>0, <1>2 DEF Unleased
    <2> QED BY <2>1, <2>2
  <1> QED BY <1>1, <1>2

LEMMA LeaseTakes ==
    ASSUME NEW k \in Child, KidsSound(kids), Available(k), \A j \in Child : ~kids[j].leased
    PROVE  /\ KidsSound(Lease(kids, k))
           /\ Lease(kids, k)[k].leased /\ Lease(kids, k)[k].at # "none"
           /\ Lease(kids, k)[k].runs \in Nat
           /\ \A j \in Child : Lease(kids, k)[j].leased => j = k
  <1> DEFINE r == IF kids[k].at = "none"
                  THEN [at |-> "pooled", leased |-> TRUE, shut |-> FALSE, runs |-> 0]
                  ELSE [kids[k] EXCEPT !.leased = TRUE]
             kt == Lease(kids, k)
  <1>1. kids \in [Child -> Kid] /\ kids[k] \in Kid
    BY DEF KidsSound
  <1>2. r \in Kid /\ r.leased = TRUE /\ r.at = "pooled" /\ r.runs \in Nat
    <2>1. CASE kids[k].at = "none"
      BY <2>1 DEF Kid
    <2>2. CASE kids[k].at # "none"
      <3>1. kids[k].at = "pooled"
        BY <2>2 DEF Available
      <3>2. r = [kids[k] EXCEPT !.leased = TRUE]
        BY <2>2
      <3> QED BY <1>1, <3>1, <3>2 DEF Kid
    <2> QED BY <2>1, <2>2
  <1>3. kt = [kids EXCEPT ![k] = r]
    BY DEF Lease
  <1> HIDE DEF r, kt
  <1>4. kt \in [Child -> Kid] /\ kt[k] = r /\ \A j \in Child \ {k} : kt[j] = kids[j]
    BY <1>1, <1>2, <1>3
  <1>5. KidsSound(kt)
    BY <1>2, <1>4 DEF KidsSound
  <1>6. kt[k].leased /\ kt[k].at # "none" /\ kt[k].runs \in Nat /\ \A j \in Child : kt[j].leased => j = k
    BY <1>2, <1>4
  <1> QED BY <1>5, <1>6 DEF kt

-----------------------------------------------------------------------------
(***************************************************************************)
(* The store and the outbox.                                               *)
(***************************************************************************)

\* What RowsKept says of a step.
RowsKeep(rs, rt) ==
    \A m \in Rows(rs) :
       /\ rt[m] # NoRow /\ rt[m].corr = rs[m].corr
       /\ rs[m].response # NoResponse => rt[m].response = rs[m].response
       /\ rs[m].delivery = "sent" => rt[m].delivery = "sent"
       /\ rs[m].ingest = "completed" => rt[m].ingest = "completed"

\* No row is added, none becomes unfinished, and one that stays so keeps its
\* correlation without a terminal event.
StoreMoves(rs, ob, rt, oc) ==
    \A m \in Message :
       /\ rt[m] = NoRow <=> rs[m] = NoRow
       /\ rs[m] # NoRow => rt[m].corr = rs[m].corr
       /\ IngestPending(rt, m) =>
             IngestPending(rs, m) /\ (ob[rs[m].corr] = <<>> => oc[rs[m].corr] = <<>>)
       /\ ob[m] # <<>> => oc[m] # <<>>

\* Only the outcome of a delivery changes.
StoreStays(rs, ob, rt, oc) ==
    \A m \in Message :
       /\ rt[m] = NoRow <=> rs[m] = NoRow
       /\ rs[m] # NoRow => rt[m].corr = rs[m].corr
       /\ IngestPending(rt, m) <=> IngestPending(rs, m)
       /\ ob[m] # <<>> <=> oc[m] # <<>>

\* A row before and after the outcome of its delivery is recorded.
Marked(r, t) ==
    \/ t = r
    \/ /\ r \in Row /\ t \in Row
       /\ t.corr = r.corr /\ t.ingest = r.ingest /\ t.response = r.response
       /\ r.delivery \in {"saved", "failed"} /\ t.delivery \in {"sent", "failed"}

LEMMA SentMarks ==
    ASSUME NEW rs \in [Message -> Row \cup {NoRow}], NEW c \in Message
    PROVE  /\ CorrelationSent(rs, c) = [m \in Message |-> CorrelationSent(rs, c)[m]]
           /\ \A m \in Message : Marked(rs[m], CorrelationSent(rs, c)[m])
  <1> DEFINE rt == CorrelationSent(rs, c)
  <1>1. rt = [m \in Message |-> rt[m]]
    BY DEF CorrelationSent
  <1>2. ASSUME NEW m \in Message PROVE Marked(rs[m], rt[m])
    <2>1. CASE m \in Siblings(rs, c) /\ rs[m].delivery \in {"saved", "failed"}
      <3>1. rt[m] = [rs[m] EXCEPT !.delivery = "sent"]
        BY <2>1 DEF CorrelationSent
      <3>2. rs[m] \in Row
        BY <2>1 DEF Siblings, Rows
      <3>3. /\ rt[m] \in Row /\ rt[m].corr = rs[m].corr /\ rt[m].ingest = rs[m].ingest
            /\ rt[m].response = rs[m].response /\ rt[m].delivery = "sent"
        BY <3>1, <3>2 DEF Row, RowType, DeliveryState
      <3> QED BY <2>1, <3>2, <3>3 DEF Marked
    <2>2. CASE ~(m \in Siblings(rs, c) /\ rs[m].delivery \in {"saved", "failed"})
      BY <2>2 DEF CorrelationSent, Marked
    <2> QED BY <2>1, <2>2
  <1> QED BY <1>1, <1>2

LEMMA FailedMarks ==
    ASSUME NEW rs \in [Message -> Row \cup {NoRow}], NEW c \in Message
    PROVE  /\ CorrelationFailed(rs, c) = [m \in Message |-> CorrelationFailed(rs, c)[m]]
           /\ \A m \in Message : Marked(rs[m], CorrelationFailed(rs, c)[m])
  <1> DEFINE rt == CorrelationFailed(rs, c)
  <1>1. rt = [m \in Message |-> rt[m]]
    BY DEF CorrelationFailed
  <1>2. ASSUME NEW m \in Message PROVE Marked(rs[m], rt[m])
    <2>1. CASE m \in Siblings(rs, c) /\ rs[m].delivery = "saved"
      <3>1. rt[m] = [rs[m] EXCEPT !.delivery = "failed"]
        BY <2>1 DEF CorrelationFailed
      <3>2. rs[m] \in Row
        BY <2>1 DEF Siblings, Rows
      <3>3. /\ rt[m] \in Row /\ rt[m].corr = rs[m].corr /\ rt[m].ingest = rs[m].ingest
            /\ rt[m].response = rs[m].response /\ rt[m].delivery = "failed"
        BY <3>1, <3>2 DEF Row, RowType, DeliveryState
      <3> QED BY <2>1, <3>2, <3>3 DEF Marked
    <2>2. CASE ~(m \in Siblings(rs, c) /\ rs[m].delivery = "saved")
      BY <2>2 DEF CorrelationFailed, Marked
    <2> QED BY <2>1, <2>2
  <1> QED BY <1>1, <1>2

\* The mark of the outbox row of a posted event.
Posted(ob, c, s) == [ob EXCEPT ![c][1].status = s]

SameEvents(ob, oc) ==
    \A m \in Message : /\ ob[m] # <<>> <=> oc[m] # <<>>
                       /\ oc[m] # <<>> => oc[m][1].event = ob[m][1].event

LEMMA StatusMarks ==
    ASSUME NEW ob \in [Message -> Seq(OutboxRow)], NEW c \in Message, ob[c] # <<>>,
           NEW s \in Status, NEW oc, oc = Posted(ob, c, s)
    PROVE  /\ oc \in [Message -> Seq(OutboxRow)]
           /\ SameEvents(ob, oc)
  <1> DEFINE q == ob[c]
             x == [q[1] EXCEPT !.status = s]
             p == [q EXCEPT ![1] = x]
  <1>1. q \in Seq(OutboxRow) /\ q # <<>>
    OBVIOUS
  <1>2. 1 \in 1..Len(q)
    BY <1>1, EmptySeq
  <1>3. q[1] \in OutboxRow
    BY <1>1, <1>2, ElementOfSeq
  <1>4. x \in OutboxRow /\ x.event = q[1].event
    BY <1>3 DEF OutboxRow
  <1>5. oc = [ob EXCEPT ![c] = p]
    BY DEF Posted
  <1> HIDE DEF q, x
  <1>6. p \in Seq(OutboxRow) /\ Len(p) = Len(q) /\ p[1] = x
    BY <1>1, <1>2, <1>4, ExceptSeq
  <1>7. p # <<>>
    BY <1>1, <1>2, <1>6, EmptySeq
  <1> HIDE DEF p
  <1>8. oc \in [Message -> Seq(OutboxRow)] /\ oc[c] = p /\ \A m \in Message \ {c} : oc[m] = ob[m]
    BY <1>5, <1>6
  <1>9. p[1].event = ob[c][1].event
    BY <1>4, <1>6 DEF q
  <1> QED BY <1>7, <1>8, <1>9 DEF SameEvents

LEMMA OutcomeRecorded ==
    ASSUME NEW rs, NEW ob, StoreSound(rs, ob), NEW c \in Message, ob[c] # <<>>,
           NEW s \in Status, NEW oc, oc = Posted(ob, c, s),
           NEW rt, rt = [m \in Message |-> rt[m]],
           \A m \in Message : Marked(rs[m], rt[m])
    PROVE  StoreSound(rt, oc) /\ StoreStays(rs, ob, rt, oc) /\ RowsKeep(rs, rt)
  <1>1. /\ rs \in [Message -> Row \cup {NoRow}] /\ ob \in [Message -> Seq(OutboxRow)]
        /\ \A m \in Message : ob[m] # <<>> => rs[m] # NoRow
    BY DEF StoreSound
  <1>2. /\ oc \in [Message -> Seq(OutboxRow)]
        /\ SameEvents(ob, oc)
    BY ONLY <1>1, StatusMarks, StoreSound(rs, ob), c \in Message, ob[c] # <<>>, s \in Status,
            oc = Posted(ob, c, s)
  <1>3. ASSUME NEW m \in Message
        PROVE  /\ rt[m] \in Row \cup {NoRow} /\ (rt[m] = NoRow <=> rs[m] = NoRow)
               /\ rs[m] # NoRow =>
                     /\ rs[m] \in Row
                     /\ rt[m].corr = rs[m].corr /\ rt[m].ingest = rs[m].ingest
                     /\ rt[m].response = rs[m].response
                     /\ rt[m].delivery = "pending" <=> rs[m].delivery = "pending"
                     /\ rs[m].delivery = "sent" => rt[m].delivery = "sent"
    BY <1>1, Markers DEF Marked
  <1>4. rt \in [Message -> Row \cup {NoRow}]
    BY <1>3
  <1>5. ASSUME NEW m \in Message, rt[m] # NoRow
        PROVE  /\ rt[rt[m].corr] # NoRow /\ rt[rt[m].corr].corr = rt[m].corr
               /\ Answered(m, rt[m], oc[rt[m].corr])
    <2> DEFINE d == rs[m].corr
    <2>1. rs[m] # NoRow /\ rt[m].corr = d
      BY <1>3, <1>5
    <2>2. d \in Message
      BY <1>3, <2>1 DEF Row, RowType
    <2>3. rs[d] # NoRow /\ rs[d].corr = d /\ Answered(m, rs[m], ob[d])
      BY <2>1 DEF StoreSound
    <2> HIDE DEF d
    <2>4. rt[d] # NoRow /\ rt[d].corr = d
      BY <1>3, <2>2, <2>3
    <2>5. Answered(m, rt[m], oc[d])
      BY <1>2, <1>3, <2>1, <2>2, <2>3 DEF Answered, SchemaHolds, SameEvents
    <2> QED BY <2>1, <2>4, <2>5
  <1>6. StoreSound(rt, oc)
    BY <1>1, <1>2, <1>3, <1>4, <1>5 DEF StoreSound, SameEvents
  <1>7. StoreStays(rs, ob, rt, oc)
    BY <1>2, <1>3 DEF SameEvents, StoreStays, IngestPending
  <1>8. RowsKeep(rs, rt)
    BY <1>3 DEF RowsKeep, Rows
  <1> QED BY <1>6, <1>7, <1>8

\* What Confirm and GiveUp leave in the store.
LEMMA OutcomeStored ==
    ASSUME StoreSound(rows, outbox), NEW c \in Message, outbox[c] # <<>>,
           Confirm(c) \/ GiveUp(c)
    PROVE  /\ StoreSound(rows', outbox') /\ StoreStays(rows, outbox, rows', outbox')
           /\ RowsKeep(rows, rows')
  <1>1. PICK s \in Status : outbox' = Posted(outbox, c, s)
    BY DEF Confirm, GiveUp, Posted, Status
  <1>2. rows \in [Message -> Row \cup {NoRow}]
    BY DEF StoreSound
  <1>3. \/ rows' = rows
        \/ rows' = CorrelationSent(rows, c)
        \/ rows' = CorrelationFailed(rows, c)
    BY DEF Confirm, GiveUp
  <1>4. rows' = [m \in Message |-> rows'[m]] /\ \A m \in Message : Marked(rows[m], rows'[m])
    <2>1. CASE rows' = rows
      BY <1>2, <2>1 DEF Marked
    <2>2. CASE rows' = CorrelationSent(rows, c)
      BY <1>2, <2>2, SentMarks
    <2>3. CASE rows' = CorrelationFailed(rows, c)
      BY <1>2, <2>3, FailedMarks
    <2> QED BY <1>3, <2>1, <2>2, <2>3
  <1> QED BY <1>1, <1>4, OutcomeRecorded

\* A row before and after the response of correlation c is saved.
Saved(r, t, c, e) ==
    \/ /\ r # NoRow /\ r.corr = c /\ r.delivery = "pending"
       /\ t \in Row /\ t.corr = c /\ t.ingest = "completed" /\ t.delivery = "saved"
       /\ t.response = e
    \/ t = r /\ ~(r # NoRow /\ r.corr = c /\ r.delivery = "pending")

LEMMA ResponseSaves ==
    ASSUME NEW rs \in [Message -> Row \cup {NoRow}], NEW c \in Message, NEW e \in Event
    PROVE  /\ SaveForCorrelation(rs, c, e) = [m \in Message |-> SaveForCorrelation(rs, c, e)[m]]
           /\ \A m \in Message : Saved(rs[m], SaveForCorrelation(rs, c, e)[m], c, e)
  <1> DEFINE rt == SaveForCorrelation(rs, c, e)
  <1>1. rt = [m \in Message |-> rt[m]]
    BY DEF SaveForCorrelation
  <1>2. ASSUME NEW m \in Message PROVE Saved(rs[m], rt[m], c, e)
    <2>1. CASE m \in Siblings(rs, c) /\ rs[m].delivery = "pending"
      <3>1. rt[m] = [rs[m] EXCEPT !.ingest = "completed", !.delivery = "saved", !.response = e]
        BY <2>1 DEF SaveForCorrelation
      <3>2. rs[m] \in Row /\ rs[m] # NoRow /\ rs[m].corr = c
        BY <2>1 DEF Siblings, Rows
      <3>3. /\ rt[m] \in Row /\ rt[m].corr = rs[m].corr /\ rt[m].ingest = "completed"
            /\ rt[m].response = e /\ rt[m].delivery = "saved"
        BY <3>1, <3>2 DEF Row, RowType, DeliveryState, IngestState
      <3> QED BY <2>1, <3>2, <3>3 DEF Saved
    <2>2. CASE ~(m \in Siblings(rs, c) /\ rs[m].delivery = "pending")
      <3>1. rt[m] = rs[m]
        BY <2>2 DEF SaveForCorrelation
      <3> QED BY <2>2, <3>1 DEF Saved, Siblings, Rows
    <2> QED BY <2>1, <2>2
  <1> QED BY <1>1, <1>2

\* The outbox with the terminal event e of correlation c.
Terminal(ob, c, e) == [ob EXCEPT ![c] = Append(@, [event |-> e, status |-> "pending"])]

LEMMA TerminalPosts ==
    ASSUME NEW ob \in [Message -> Seq(OutboxRow)], NEW c \in Message, ob[c] = <<>>,
           NEW e \in Event, NEW oc, oc = Terminal(ob, c, e)
    PROVE  /\ oc \in [Message -> Seq(OutboxRow)]
           /\ oc[c] # <<>> /\ oc[c][1].event = e
           /\ \A m \in Message \ {c} : oc[m] = ob[m]
  <1> DEFINE x == [event |-> e, status |-> "pending"]
             p == Append(ob[c], x)
  <1>1. x \in OutboxRow /\ x.event = e
    BY DEF OutboxRow, Status
  <1> HIDE DEF x
  <1>2. ob[c] \in Seq(OutboxRow) /\ Len(ob[c]) = 0
    BY EmptySeq
  <1>3. p \in Seq(OutboxRow) /\ Len(p) = 1 /\ p[1] = x /\ p # <<>>
    BY <1>1, <1>2, AppendProperties
  <1>4. oc = [ob EXCEPT ![c] = p]
    BY DEF Terminal, x
  <1> HIDE DEF p
  <1>5. oc \in [Message -> Seq(OutboxRow)] /\ oc[c] = p /\ \A m \in Message \ {c} : oc[m] = ob[m]
    BY <1>3, <1>4
  <1> QED BY <1>1, <1>3, <1>5

\* The first terminal event of a correlation.  One that saves no response, the
\* cancellation, finds no ingest pending.
LEMMA TerminalRecorded ==
    ASSUME NEW rs, NEW ob, StoreSound(rs, ob), NEW c \in Message, ob[c] = <<>>,
           rs[c] # NoRow, rs[c].corr = c,
           NEW e \in Event, NEW oc, oc = Terminal(ob, c, e),
           NEW rt, rt = [m \in Message |-> rt[m]],
           \/ /\ \A m \in Message : Saved(rs[m], rt[m], c, e)
           \/ /\ rt = rs /\ e.type = "turn.cancelled"
              /\ \A m \in Message : IngestPending(rs, m) => rs[m].corr # c
    PROVE  /\ StoreSound(rt, oc) /\ StoreMoves(rs, ob, rt, oc) /\ RowsKeep(rs, rt)
           /\ oc[c] # <<>>
  <1>1. /\ rs \in [Message -> Row \cup {NoRow}] /\ ob \in [Message -> Seq(OutboxRow)]
        /\ \A m \in Message : ob[m] # <<>> => rs[m] # NoRow
    BY DEF StoreSound
  <1>2. /\ oc \in [Message -> Seq(OutboxRow)]
        /\ oc[c] # <<>> /\ oc[c][1].event = e
        /\ \A m \in Message \ {c} : oc[m] = ob[m]
    BY ONLY <1>1, TerminalPosts, c \in Message, ob[c] = <<>>, e \in Event, oc = Terminal(ob, c, e), SMTT(30)
  <1>3. e # NoResponse
    BY Markers
  <1>4. ASSUME NEW m \in Message, rs[m] # NoRow
        PROVE  /\ rs[m] \in Row /\ rs[m].corr \in Message
               /\ rs[rs[m].corr] # NoRow /\ rs[rs[m].corr].corr = rs[m].corr
               /\ Answered(m, rs[m], ob[rs[m].corr])
    <2>1. rs[m] \in Row
      BY <1>1, <1>4
    <2>2. rs[m].corr \in Message
      BY <2>1 DEF Row, RowType
    <2> QED BY <1>4, <2>1, <2>2 DEF StoreSound
  <1>5. ASSUME NEW m \in Message
        PROVE  /\ rt[m] \in Row \cup {NoRow} /\ (rt[m] = NoRow <=> rs[m] = NoRow)
               /\ rs[m] # NoRow => rt[m].corr = rs[m].corr
               /\ rs[m] # NoRow /\ rs[m].corr # c => rt[m] = rs[m]
    BY <1>1, Markers DEF Saved
  <1>6. rt \in [Message -> Row \cup {NoRow}]
    BY <1>5
  <1>7. ASSUME NEW m \in Message, rs[m] # NoRow, rs[m].corr = c
        PROVE  /\ Answered(m, rt[m], oc[c]) /\ rt[m].ingest = "completed"
               /\ rs[m].response = NoResponse /\ rs[m].delivery # "sent"
    <2>1. rs[m] \in Row /\ Answered(m, rs[m], <<>>)
      BY <1>4, <1>7
    <2>2. rs[m].response = NoResponse /\ rs[m].delivery = "pending"
      BY <2>1 DEF Answered, SchemaHolds
    <2>3. CASE Saved(rs[m], rt[m], c, e)
      <3>1. /\ rt[m].ingest = "completed" /\ rt[m].delivery = "saved" /\ rt[m].response = e
        BY <1>7, <2>2, <2>3 DEF Saved
      <3>2. Answered(m, rt[m], oc[c])
        BY <1>2, <1>3, <3>1 DEF Answered, SchemaHolds
      <3> QED BY <2>2, <3>1, <3>2
    <2>4. CASE rt = rs /\ e.type = "turn.cancelled" /\ ~IngestPending(rs, m)
      <3>1. rs[m].ingest = "completed"
        BY <1>7, <2>1, <2>4 DEF IngestPending, Row, RowType, IngestState
      <3>2. Answered(m, rs[m], oc[c])
        BY <1>2, <2>2, <2>4, <3>1 DEF Answered, SchemaHolds
      <3> QED BY <2>2, <2>4, <3>1, <3>2
    <2> QED BY <1>7, <2>3, <2>4
  <1>8. ASSUME NEW m \in Message, rt[m] # NoRow
        PROVE  /\ rt[rt[m].corr] # NoRow /\ rt[rt[m].corr].corr = rt[m].corr
               /\ Answered(m, rt[m], oc[rt[m].corr])
    <2> DEFINE d == rs[m].corr
    <2>1. rs[m] # NoRow /\ rt[m].corr = d
      BY <1>5, <1>8
    <2>2. d \in Message /\ rs[d] # NoRow /\ rs[d].corr = d /\ Answered(m, rs[m], ob[d])
      BY <1>4, <2>1
    <2> HIDE DEF d
    <2>3. rt[d] # NoRow /\ rt[d].corr = d
      BY <1>5, <2>2
    <2>4. Answered(m, rt[m], oc[d])
      <3>1. CASE d = c
        BY <1>7, <2>1, <3>1 DEF d
      <3>2. CASE d # c
        BY <1>2, <1>5, <2>1, <2>2, <3>2 DEF d
      <3> QED BY <3>1, <3>2
    <2> QED BY <2>1, <2>3, <2>4
  <1>9. StoreSound(rt, oc)
    BY <1>1, <1>2, <1>5, <1>6, <1>8, ZenonT(30) DEF StoreSound
  <1>10. StoreMoves(rs, ob, rt, oc)
    <2>1. ASSUME NEW m \in Message
          PROVE  /\ rt[m] = NoRow <=> rs[m] = NoRow
                 /\ rs[m] # NoRow => rt[m].corr = rs[m].corr
                 /\ ob[m] # <<>> => oc[m] # <<>>
      BY <1>2, <1>5
    <2>2. ASSUME NEW m \in Message, IngestPending(rt, m)
          PROVE  IngestPending(rs, m) /\ oc[rs[m].corr] = ob[rs[m].corr]
      <3>1. rs[m] # NoRow
        BY <2>1, <2>2 DEF IngestPending
      <3>2. rs[m].corr # c
        BY <1>7, <2>2, <3>1 DEF IngestPending
      <3>3. rt[m] = rs[m] /\ rs[m].corr \in Message
        BY <1>4, <1>5, <3>1, <3>2
      <3> QED BY <1>2, <2>2, <3>1, <3>2, <3>3 DEF IngestPending
    <2> QED BY <2>1, <2>2 DEF StoreMoves
  <1>11. RowsKeep(rs, rt)
    BY <1>5, <1>7 DEF RowsKeep, Rows
  <1> QED BY <1>2, <1>9, <1>10, <1>11

\* The store after a terminal event of correlation c.
Emitted(rs, ob, rt, oc, c) ==
    /\ StoreSound(rt, oc) /\ StoreMoves(rs, ob, rt, oc) /\ RowsKeep(rs, rt)
    /\ oc[c] # <<>>

LEMMA StoreUnmoved ==
    ASSUME NEW rs, NEW ob
    PROVE  StoreMoves(rs, ob, rs, ob) /\ StoreStays(rs, ob, rs, ob)
  BY DEF StoreMoves, StoreStays

LEMMA RowsUnmoved ==
    ASSUME NEW rs
    PROVE  RowsKeep(rs, rs)
  BY DEF RowsKeep, Rows

NonePending(rs, c) == \A m \in Message : IngestPending(rs, m) => rs[m].corr # c

LEMMA EmitStores ==
    ASSUME StoreSound(rows, outbox), NEW c \in Message, rows[c] # NoRow, rows[c].corr = c,
           NEW type \in TerminalType, type = "turn.cancelled" => NonePending(rows, c),
           EmitTerminal(c, type)
    PROVE  /\ Emitted(rows, outbox, rows', outbox', c)
           /\ \A d \in sending' : d \in sending \/ d = c
  <1>1. CASE outbox[c] # <<>>
    <2>1. rows' = rows /\ outbox' = outbox /\ sending' = sending
      BY <1>1 DEF EmitTerminal, EmitOver
    <2> QED BY <1>1, <2>1, StoreUnmoved, RowsUnmoved DEF Emitted
  <1>2. CASE outbox[c] = <<>>
    <2> DEFINE e == [corr |-> c, no |-> Len(outbox[c]) + 1, type |-> type]
    <2>1. e \in Event /\ e.type = type
      <3>1. Len(outbox[c]) = 0
        BY <1>2, EmptySeq
      <3> QED BY <3>1 DEF Event
    <2>2. outbox' = Terminal(outbox, c, e)
      BY <1>2 DEF EmitTerminal, EmitOver, Terminal
    <2>3. rows' = IF type = "turn.cancelled" THEN rows ELSE SaveForCorrelation(rows, c, e)
      BY <1>2 DEF EmitTerminal, EmitOver
    <2>4. \A d \in sending' : d \in sending \/ d = c
      BY <1>2 DEF EmitTerminal, EmitOver
    <2> HIDE DEF e
    <2>5. rows \in [Message -> Row \cup {NoRow}]
      BY DEF StoreSound
    <2>6. rows' = [m \in Message |-> rows'[m]]
      <3>1. CASE type = "turn.cancelled"
        BY <2>3, <2>5, <3>1
      <3>2. CASE type # "turn.cancelled"
        BY <2>1, <2>3, <2>5, <3>2, ResponseSaves
      <3> QED BY <3>1, <3>2
    <2>7. \/ /\ \A m \in Message : Saved(rows[m], rows'[m], c, e)
          \/ /\ rows' = rows /\ e.type = "turn.cancelled"
             /\ \A m \in Message : IngestPending(rows, m) => rows[m].corr # c
      <3>1. CASE type = "turn.cancelled"
        BY <2>1, <2>3, <3>1 DEF NonePending
      <3>2. CASE type # "turn.cancelled"
        BY <2>1, <2>3, <2>5, <3>2, ResponseSaves
      <3> QED BY <3>1, <3>2
    <2>8. Emitted(rows, outbox, rows', outbox', c)
      BY <1>2, <2>1, <2>2, <2>6, <2>7, TerminalRecorded DEF Emitted
    <2> QED BY <2>4, <2>8
  <1> QED BY <1>1, <1>2

\* A new row, of a message that starts a correlation or joins one that has no
\* terminal event but a cancellation.
LEMMA InsertStores ==
    ASSUME NEW rs, NEW ob, StoreSound(rs, ob), NEW m \in Message, rs[m] = NoRow,
           NEW c \in Message,
           \/ c = m
           \/ /\ c # m /\ rs[c] # NoRow /\ rs[c].corr = c
              /\ ob[c] = <<>> \/ ob[c][1].event.type = "turn.cancelled",
           NEW rt, rt = Insert(rs, m, "own", c)
    PROVE  /\ StoreSound(rt, ob) /\ RowsKeep(rs, rt)
           /\ IngestPending(rt, m) /\ rt[m] # NoRow /\ rt[m].corr = c
           /\ \A n \in Message : n # m => rt[n] = rs[n]
  <1> DEFINE r == [corr |-> c, hash |-> "own", ingest |-> "pending",
                   delivery |-> "pending", response |-> NoResponse]
  <1>1. rs \in [Message -> Row \cup {NoRow}] /\ ob \in [Message -> Seq(OutboxRow)]
    BY DEF StoreSound
  <1>2. ob[c] = <<>> \/ (c # m /\ ob[c][1].event.type = "turn.cancelled")
    BY DEF StoreSound
  <1>3. /\ r \in Row /\ r.corr = c /\ r.ingest = "pending" /\ r.delivery = "pending"
        /\ r.response = NoResponse
    BY DEF Row, RowType, IngestState, DeliveryState
  <1>4. rt = [rs EXCEPT ![m] = r]
    BY DEF Insert
  <1> HIDE DEF r
  <1>5. /\ rt \in [Message -> Row \cup {NoRow}] /\ rt[m] = r
        /\ \A n \in Message : n # m => rt[n] = rs[n]
    BY <1>1, <1>3, <1>4
  <1>6. r # NoRow /\ Answered(m, r, ob[c])
    BY <1>2, <1>3, Markers DEF Answered, SchemaHolds
  <1>7. ASSUME NEW n \in Message, rt[n] # NoRow
        PROVE  /\ rt[rt[n].corr] # NoRow /\ rt[rt[n].corr].corr = rt[n].corr
               /\ Answered(n, rt[n], ob[rt[n].corr])
    <2>1. CASE n = m
      <3>1. rt[c] # NoRow /\ rt[c].corr = c
        BY <1>3, <1>5, <1>6
      <3> QED BY <1>2, <1>3, <1>5, <1>6, <2>1, <3>1
    <2>2. CASE n # m
      <3>1. rt[n] = rs[n]
        BY <1>5, <2>2
      <3>2. rs[n].corr \in Message
        BY <1>1, <1>7, <3>1 DEF Row, RowType
      <3>3. /\ rs[rs[n].corr] # NoRow /\ rs[rs[n].corr].corr = rs[n].corr
            /\ Answered(n, rs[n], ob[rs[n].corr])
        BY <1>7, <3>1 DEF StoreSound
      <3>4. rs[n].corr # m
        BY <3>3
      <3> QED BY <1>5, <3>1, <3>2, <3>3, <3>4
    <2> QED BY <2>1, <2>2
  <1>8. \A n \in Message : ob[n] # <<>> => rt[n] # NoRow
    BY <1>5, <1>6 DEF StoreSound
  <1>9. StoreSound(rt, ob)
    BY <1>1, <1>5, <1>7, <1>8 DEF StoreSound
  <1>10. RowsKeep(rs, rt)
    BY <1>5 DEF RowsKeep, Rows
  <1> QED BY <1>3, <1>5, <1>6, <1>9, <1>10 DEF IngestPending

\* The rows of a reset that joins the turn it takes down: the cancellation of the
\* turn finds the row already there.
LEMMA SupersedeStores ==
    ASSUME StoreSound(rows, outbox), NEW m \in Message, rows[m] = NoRow,
           NEW c \in Message, c # m, rows[c] # NoRow, rows[c].corr = c, outbox[c] = <<>>,
           NonePending(rows, c),
           EmitOver(Insert(rows, m, "own", c), c, "turn.cancelled")
    PROVE  /\ StoreSound(rows', outbox') /\ RowsKeep(rows, rows')
           /\ rows'[m] # NoRow /\ rows'[m].corr = c
           /\ \A n \in Message : n # m => rows'[n] = rows[n]
           /\ outbox'[c] # <<>> /\ \A n \in Message : outbox[n] # <<>> => outbox'[n] # <<>>
           /\ \A d \in sending' : d \in sending \/ d = c
  <1> DEFINE e == [corr |-> c, no |-> Len(outbox[c]) + 1, type |-> "turn.cancelled"]
  <1>1. e \in Event /\ e.type = "turn.cancelled"
    <2>1. Len(outbox[c]) = 0
      BY EmptySeq
    <2> QED BY <2>1 DEF Event, TerminalType
  <1>2. outbox' = Terminal(outbox, c, e) /\ rows' = Insert(rows, m, "own", c)
    BY DEF EmitOver, Terminal
  <1>3. \A d \in sending' : d \in sending \/ d = c
    BY DEF EmitOver
  <1> HIDE DEF e
  <1>4. /\ rows \in [Message -> Row \cup {NoRow}] /\ outbox \in [Message -> Seq(OutboxRow)]
        /\ rows = [n \in Message |-> rows[n]]
    BY DEF StoreSound
  <1>5. /\ outbox'[c] # <<>> /\ outbox'[c][1].event = e
        /\ \A n \in Message \ {c} : outbox'[n] = outbox[n]
    BY <1>1, <1>2, <1>4, TerminalPosts
  <1>6. StoreSound(rows, outbox')
    BY <1>1, <1>2, <1>4, TerminalRecorded DEF NonePending
  <1>7. outbox'[c][1].event.type = "turn.cancelled"
    BY <1>1, <1>5
  <1>8. /\ RowsKeep(rows, rows') /\ StoreSound(rows', outbox')
        /\ rows'[m] # NoRow /\ rows'[m].corr = c
        /\ \A n \in Message : n # m => rows'[n] = rows[n]
    BY <1>2, <1>6, <1>7, InsertStores
  <1>9. \A n \in Message : outbox[n] # <<>> => outbox'[n] # <<>>
    BY <1>5
  <1> QED BY <1>3, <1>5, <1>8, <1>9

LEMMA IngestStores ==
    ASSUME StoreSound(rows, outbox), NEW m \in Message, IngestPending(rows, m),
           rows' = MarkIngestComplete(rows, m)
    PROVE  /\ StoreSound(rows', outbox) /\ StoreMoves(rows, outbox, rows', outbox)
           /\ RowsKeep(rows, rows') /\ ~IngestPending(rows', m)
  <1> DEFINE r == [rows[m] EXCEPT !.ingest = "completed"]
  <1>1. rows \in [Message -> Row \cup {NoRow}] /\ outbox \in [Message -> Seq(OutboxRow)]
    BY DEF StoreSound
  <1>2. rows[m] \in Row /\ rows[m] # NoRow
    BY <1>1 DEF IngestPending
  <1>3. /\ r \in Row /\ r.corr = rows[m].corr /\ r.ingest = "completed"
        /\ r.delivery = rows[m].delivery /\ r.response = rows[m].response
    BY <1>2 DEF Row, RowType, IngestState
  <1>4. rows' = [rows EXCEPT ![m] = r]
    BY DEF MarkIngestComplete
  <1> HIDE DEF r
  <1>5. /\ rows' \in [Message -> Row \cup {NoRow}] /\ rows'[m] = r
        /\ \A n \in Message : n # m => rows'[n] = rows[n]
    BY <1>1, <1>3, <1>4
  <1>6. r # NoRow
    BY <1>3, Markers
  <1>7. \A n \in Message : /\ rows'[n] = NoRow <=> rows[n] = NoRow
                           /\ rows[n] # NoRow => rows'[n].corr = rows[n].corr
    BY <1>2, <1>3, <1>5, <1>6
  <1>8. ASSUME NEW n \in Message, rows'[n] # NoRow
        PROVE  /\ rows'[rows'[n].corr] # NoRow /\ rows'[rows'[n].corr].corr = rows'[n].corr
               /\ Answered(n, rows'[n], outbox[rows'[n].corr])
    <2>1. rows[n] # NoRow /\ rows'[n].corr = rows[n].corr
      BY <1>7, <1>8
    <2>2. rows[n].corr \in Message
      BY <1>1, <2>1 DEF Row, RowType
    <2>3. /\ rows[rows[n].corr] # NoRow /\ rows[rows[n].corr].corr = rows[n].corr
          /\ Answered(n, rows[n], outbox[rows[n].corr])
      BY <2>1 DEF StoreSound
    <2>4. Answered(n, rows'[n], outbox[rows[n].corr])
      BY <1>3, <1>5, <2>3 DEF Answered, SchemaHolds
    <2> QED BY <1>7, <2>1, <2>2, <2>3, <2>4
  <1>9. StoreSound(rows', outbox)
    BY <1>1, <1>5, <1>7, <1>8 DEF StoreSound
  <1>10. StoreMoves(rows, outbox, rows', outbox)
    BY <1>3, <1>5, <1>7 DEF StoreMoves, IngestPending
  <1>11. RowsKeep(rows, rows')
    BY <1>2, <1>3, <1>5, <1>6 DEF RowsKeep, Rows
  <1> QED BY <1>3, <1>5, <1>9, <1>10, <1>11 DEF IngestPending

-----------------------------------------------------------------------------
(***************************************************************************)
(* The types of a step: the buffer, the head of the chain, a return.       *)
(***************************************************************************)

LEMMA InvTypes ==
    ASSUME Inv
    PROVE  TypeOK
  BY DEF Inv, BoundsTyped, Typed, StoreSound, TurnsSound, KidsSound, WrittenSound, TypeOK, Row,
         BufferType

LEMMA HeadMessage ==
    ASSUME Inv, call.at # "none"
    PROVE  chain # <<>> /\ Head(chain) \in Message
  <1>1. chain # <<>> /\ chain \in Seq(Message)
    BY DEF Inv, Typed, ControlSound
  <1> QED BY <1>1, HeadTailProperties

LEMMA SayingStays ==
    ASSUME UNCHANGED kind
    PROVE  Saying' = Saying /\ Joining' = Joining
  BY DEF Saying, Addressed, Joining

LEMMA ReturnTypes ==
    ASSUME Inv, call.at # "none", Return
    PROVE  /\ chain' \in Seq(Message) /\ call' \in Call
           /\ chain' = <<>> <=> call'.at = "none"
           /\ call'.at \in {"none", "begin"}
  <1>1. chain # <<>> /\ chain \in Seq(Message)
    BY DEF Inv, Typed, ControlSound
  <1>2. chain' = Tail(chain) /\ chain' \in Seq(Message)
    BY <1>1, HeadTailProperties DEF Return
  <1>3. CASE Tail(chain) = <<>>
    <2>1. call' = Idle
      BY <1>3 DEF Return
    <2>2. call' \in Call /\ call'.at = "none"
      BY <2>1 DEF Idle, Call, CallStep, Mode
    <2> QED BY <1>2, <1>3, <2>2
  <1>4. CASE Tail(chain) # <<>>
    <2>1. call' = [Idle EXCEPT !.at = "begin"]
      BY <1>4 DEF Return
    <2>2. call' \in Call /\ call'.at = "begin"
      BY <2>1 DEF Idle, Call, CallStep, Mode
    <2> QED BY <1>2, <1>4, <2>2
  <1> QED BY <1>3, <1>4

LEMMA GotoTypes ==
    ASSUME Inv, NEW step \in CallStep, Goto(step)
    PROVE  call' \in Call /\ call'.at = step /\ call'.child = call.child /\ call'.mode = call.mode
  <1>1. call \in Call
    BY DEF Inv, Typed
  <1> QED BY <1>1 DEF Goto, Call

LEMMA RecordTypes ==
    ASSUME NEW bf \in BufferType
    PROVE  RecordInteraction(bf) \in BufferType
  <1> DEFINE w == IF bf.window > 0 THEN Window ELSE 0
  <1>1. w \in 0..Window
    BY BufferAssumption
  <1>2. RecordInteraction(bf) = [bf EXCEPT !.window = w]
    BY DEF RecordInteraction
  <1> HIDE DEF w
  <1> QED BY <1>1, <1>2 DEF BufferType

LEMMA DismissTypes ==
    ASSUME NEW bf \in BufferType
    PROVE  Dismiss(bf) \in BufferType /\ Sweep(bf) \in BufferType
  <1>1. 0 \in 0..Window /\ Window \in 0..Window /\ <<>> \in Seq(Message)
    BY BufferAssumption, EmptySeq
  <1> QED BY <1>1 DEF Dismiss, Sweep, BufferType

LEMMA ElapseTypes ==
    ASSUME NEW bf \in BufferType
    PROVE  Elapse(bf) \in BufferType
  <1> DEFINE w == IF bf.window > 0 THEN bf.window - 1 ELSE 0
             q == IF bf.silence < Quiet THEN bf.silence + 1 ELSE Quiet
  <1>1. bf.window \in 0..Window /\ bf.silence \in 0..Quiet
    BY DEF BufferType
  <1>2. w \in 0..Window /\ q \in 0..Quiet
    BY <1>1, BufferAssumption
  <1>3. Elapse(bf) = [bf EXCEPT !.window = w, !.silence = q]
    BY DEF Elapse
  <1> HIDE DEF w, q
  <1> QED BY <1>2, <1>3 DEF BufferType

LEMMA IngestTypes ==
    ASSUME NEW bf \in BufferType, NEW m \in Message, NEW addressed \in BOOLEAN
    PROVE  Ingest(bf, m, addressed) \in BufferType
  <1>1. 0 \in 0..Quiet /\ Window \in 0..Window /\ <<>> \in Seq(Message)
    BY BufferAssumption, EmptySeq
  <1> DEFINE p == Append(bf.backlog, m)
  <1>2. p \in Seq(Message)
    BY AppendProperties DEF BufferType
  <1>3. CASE Activates(bf, addressed)
    BY <1>1, <1>3 DEF Ingest, BufferType
  <1>4. CASE ~Activates(bf, addressed)
    <2>1. Ingest(bf, m, addressed) = [bf EXCEPT !.backlog = p, !.silence = 0]
      BY <1>4 DEF Ingest
    <2> HIDE DEF p
    <2> QED BY <1>1, <1>2, <2>1 DEF BufferType
  <1> QED BY <1>3, <1>4

-----------------------------------------------------------------------------
(***************************************************************************)
(* Steps that touch only the buffer.                                       *)
(***************************************************************************)

LEMMA BufferMoves ==
    ASSUME Inv, buffer' \in BufferType,
           UNCHANGED <<bounds, durable, active, chain, call, kids, sending, recovering, phase, written>>
    PROVE  Inv' /\ RowsKeep(rows, rows')
  <1> USE DEF bounds, durable
  <1>1. BoundsTyped'
    BY DEF Inv, BoundsTyped
  <1>2. Typed(buffer', active', chain', call', sending', recovering', phase')
    BY DEF Inv, Typed
  <1>3. Saying' = Saying /\ Joining' = Joining
    BY SayingStays
  <1>4. /\ rows' = rows /\ outbox' = outbox /\ active' = active /\ chain' = chain /\ call' = call
        /\ kids' = kids /\ sending' = sending /\ recovering' = recovering /\ phase' = phase
        /\ written' = written /\ died' = died
    OBVIOUS
  <1>5. /\ ControlSound(chain', call', phase', active', sending', recovering', outbox')
        /\ StoreSound(rows', outbox')
    BY <1>4 DEF Inv
  <1>6. TurnsSound(rows', outbox', active', call', Head(chain'), kids', phase', written', Saying')
    BY <1>3, <1>4 DEF Inv
  <1>7. ~died' => Unfinished(rows', outbox', call', Head(chain'), active', Saying', Joining')
    BY <1>3, <1>4 DEF Inv
  <1> QED BY <1>1, <1>2, <1>4, <1>5, <1>6, <1>7, RowsUnmoved DEF Inv

LEMMA BufferSteps ==
    ASSUME Inv, (\E k \in Child : ChildOutput(k)) \/ Tick \/ FlushSettled \/ DismissEngagement
    PROVE  Inv' /\ RowsKeep(rows, rows')
  <1>1. buffer \in BufferType
    BY DEF Inv, Typed
  <1>2. buffer' \in BufferType
    BY <1>1, RecordTypes, DismissTypes, ElapseTypes
       DEF ChildOutput, Tick, FlushSettled, DismissEngagement
  <1>3. UNCHANGED <<bounds, durable, active, chain, call, kids, sending, recovering, phase, written>>
    BY DEF ChildOutput, Tick, FlushSettled, DismissEngagement
  <1> QED BY <1>2, <1>3, BufferMoves

-----------------------------------------------------------------------------
(***************************************************************************)
(* The outcome of a delivery.                                              *)
(***************************************************************************)

\* Nothing the control depends on is an outcome.
LEMMA OutcomeKeepsControl ==
    ASSUME Inv, StoreSound(rows', outbox'), StoreStays(rows, outbox, rows', outbox')
    PROVE  /\ TurnsSound(rows', outbox', active, call, Head(chain), kids, phase, written, Saying)
           /\ ~died => Unfinished(rows', outbox', call, Head(chain), active, Saying, Joining)
  <1> DEFINE h == Head(chain)
  <1>1. TurnsSound(rows, outbox, active, call, h, kids, phase, written, Saying)
    BY DEF Inv
  <1>2. call.at # "none" => h \in Message
    BY HeadMessage
  <1>3. active # None => active.corr \in Message
    BY DEF Inv, Typed, Turn
  <1> HIDE DEF h
  <1>4. OwnCorrelation(rows', Saying)
    BY <1>1 DEF TurnsSound, OwnCorrelation, StoreStays, Saying
  <1>5. CallSound(call, h, active, rows', Saying)
    BY <1>1, <1>2 DEF TurnsSound, CallSound, StoreStays, Fresh, Prompts, Appends, Aborts
  <1>6. TurnSound(active, rows', outbox', call, h, kids, phase)
    <2>1. ASSUME active # None
          PROVE  /\ rows'[active.corr] # NoRow /\ rows'[active.corr].corr = active.corr
                 /\ outbox'[active.corr] = <<>> <=> outbox[active.corr] = <<>>
      BY <1>1, <1>3, <2>1 DEF TurnsSound, TurnSound, StoreStays
    <2>2. active # None /\ active.terminal => Claimed(active, outbox', call)
      BY <1>1, <2>1 DEF TurnsSound, TurnSound, Claimed
    <2>3. ASSUME active # None, ~active.terminal
          PROVE  InFlight(active, rows', outbox', call, h, kids, phase)
      <3>1. InFlight(active, rows, outbox, call, h, kids, phase)
        BY <1>1, <2>3 DEF TurnsSound, TurnSound
      <3>2. \A m \in Message : IngestPending(rows', m) /\ rows'[m].corr = active.corr =>
               call.at \in Prompts \cup Appends /\ m = h
        <4>1. \A m \in Message : IngestPending(rows', m) =>
                 IngestPending(rows, m) /\ rows'[m].corr = rows[m].corr
          BY DEF StoreStays, IngestPending
        <4> QED BY <3>1, <4>1 DEF InFlight
      <3> QED BY <2>1, <2>3, <3>1, <3>2 DEF InFlight
    <2> QED BY <2>1, <2>2, <2>3 DEF TurnSound
  <1>7. LeasesHeld(kids, active, call, h, rows')
    <2>1. call.at \in Appends => rows'[h].corr = rows[h].corr
      BY <1>1, <1>2 DEF TurnsSound, CallSound, StoreStays, Appends
    <2> QED BY <1>1, <2>1 DEF TurnsSound, LeasesHeld
  <1>8. WrittenSound(written, rows', call, h)
    BY <1>1 DEF TurnsSound, WrittenSound, StoreStays
  <1>9. ASSUME ~died PROVE Unfinished(rows', outbox', call, h, active, Saying, Joining)
    <2>1. Unfinished(rows, outbox, call, h, active, Saying, Joining)
      BY <1>9 DEF Inv, h
    <2>2. ASSUME NEW m \in Message, rows'[m] # NoRow
          PROVE  /\ IngestPending(rows', m) => Owed(m, rows', outbox', call, h, Joining)
                 /\ (m \in Saying \/ rows'[m].corr # m) /\ outbox'[rows'[m].corr] = <<>> =>
                       \/ active # None /\ ~active.terminal /\ active.corr = rows'[m].corr
                       \/ call.at \in {"acquiring", "retiring"} /\ m = h
      <3>1. rows[m] # NoRow /\ rows'[m].corr = rows[m].corr /\ (IngestPending(rows', m) <=> IngestPending(rows, m))
        BY <2>2 DEF StoreStays
      <3>2. rows[m].corr \in Message
        BY <3>1 DEF Inv, StoreSound, Row, RowType
      <3>3. outbox'[rows[m].corr] = <<>> <=> outbox[rows[m].corr] = <<>>
        BY <3>2 DEF StoreStays
      <3> QED BY <2>1, <3>1, <3>3 DEF Unfinished, Owed, Stranded
    <2> QED BY <2>2 DEF Unfinished
  <1> QED BY <1>1, <1>4, <1>5, <1>6, <1>7, <1>8, <1>9 DEF TurnsSound, h

LEMMA OutcomeMoves ==
    ASSUME Inv, NEW c \in Message, c \in sending \cup recovering, Confirm(c) \/ GiveUp(c),
           sending' \subseteq sending, recovering' \subseteq recovering,
           UNCHANGED <<bounds, buffer, active, chain, call, kids, phase, written>>
    PROVE  Inv' /\ RowsKeep(rows, rows')
  <1> USE DEF bounds
  <1>1. BoundsTyped'
    BY DEF Inv, BoundsTyped
  <1>2. Typed(buffer', active', chain', call', sending', recovering', phase')
    BY DEF Inv, Typed
  <1>3. Saying' = Saying /\ Joining' = Joining
    BY SayingStays
  <1>4. StoreSound(rows, outbox) /\ outbox[c] # <<>>
    BY DEF Inv, ControlSound
  <1>5. /\ StoreSound(rows', outbox') /\ StoreStays(rows, outbox, rows', outbox')
        /\ RowsKeep(rows, rows')
    BY <1>4, OutcomeStored
  <1>6. /\ TurnsSound(rows', outbox', active, call, Head(chain), kids, phase, written, Saying)
        /\ ~died => Unfinished(rows', outbox', call, Head(chain), active, Saying, Joining)
    BY <1>5, OutcomeKeepsControl
  <1>7. /\ active' = active /\ chain' = chain /\ call' = call /\ kids' = kids /\ phase' = phase
        /\ written' = written /\ died' = died
    OBVIOUS
  <1>8. ControlSound(chain', call', phase', active', sending', recovering', outbox')
    BY <1>2, <1>5, <1>7 DEF Inv, ControlSound, StoreStays, Typed
  <1>9. TurnsSound(rows', outbox', active', call', Head(chain'), kids', phase', written', Saying')
    BY <1>3, <1>6, <1>7
  <1>10. ~died' => Unfinished(rows', outbox', call', Head(chain'), active', Saying', Joining')
    BY <1>3, <1>6, <1>7
  <1> QED BY <1>1, <1>2, <1>5, <1>8, <1>9, <1>10 DEF Inv

LEMMA OutcomeSteps ==
    ASSUME Inv, NEW c \in Message, Deliver(c) \/ Recover(c)
    PROVE  Inv' /\ RowsKeep(rows, rows')
  BY OutcomeMoves DEF Deliver, Recover

-----------------------------------------------------------------------------
(***************************************************************************)
(* Steps of the children that leave the turn in flight, or leave none.     *)
(***************************************************************************)

\* The turn before and after, in flight with fewer follow-ups at most.
SameTurn(a, b, ks, cl, ph) ==
    \/ a = None /\ b = None
    \/ /\ a # None /\ b # None
       /\ b.corr = a.corr /\ b.lease = a.lease /\ b.terminal = a.terminal
       /\ ~a.terminal =>
             /\ ks[a.lease].at # "none"
             /\ ks[a.lease].runs + (IF cl.at = "prompting" THEN 1 ELSE 0) > b.followUps
             /\ ph = "up" => ks[a.lease].leased

LEMMA KidsMove ==
    ASSUME Inv, KidsSound(kids'), \A k \in Child : kids'[k].leased => kids[k].leased,
           active' \in Turn \cup {None}, SameTurn(active, active', kids', call, phase'),
           phase' \in {"up", "closing"} \/ phase' = phase,
           UNCHANGED <<bounds, durable, buffer, chain, call, sending, recovering, written>>
    PROVE  Inv' /\ RowsKeep(rows, rows')
  <1> USE DEF bounds, durable
  <1> DEFINE h == Head(chain)
  <1>1. BoundsTyped'
    BY DEF Inv, BoundsTyped
  <1>2. Typed(buffer', active', chain', call', sending', recovering', phase')
    BY DEF Inv, Typed
  <1>3. Saying' = Saying /\ Joining' = Joining
    BY SayingStays
  <1>4. /\ rows' = rows /\ outbox' = outbox /\ chain' = chain /\ call' = call /\ died' = died
        /\ sending' = sending /\ recovering' = recovering /\ written' = written
    OBVIOUS
  <1>5. /\ active = None <=> active' = None
        /\ active # None => /\ active'.corr = active.corr /\ active'.lease = active.lease
                            /\ active'.terminal = active.terminal
    BY DEF SameTurn
  <1>6. /\ TurnsSound(rows, outbox, active, call, h, kids, phase, written, Saying)
        /\ ~died => Unfinished(rows, outbox, call, h, active, Saying, Joining)
    BY DEF Inv
  <1> HIDE DEF h
  <1>7. ControlSound(chain', call', phase', active', sending', recovering', outbox')
    BY <1>4, <1>5 DEF Inv, ControlSound
  <1>8. CallSound(call, h, active', rows, Saying)
    BY <1>5, <1>6 DEF TurnsSound, CallSound
  <1>9. TurnSound(active', rows, outbox, call, h, kids', phase')
    <2>1. ASSUME active' # None
          PROVE  /\ rows[active'.corr] # NoRow /\ rows[active'.corr].corr = active'.corr
                 /\ active'.terminal => Claimed(active', outbox, call)
      BY <1>5, <1>6, <2>1 DEF TurnsSound, TurnSound, Claimed
    <2>2. ASSUME active' # None, ~active'.terminal
          PROVE  InFlight(active', rows, outbox, call, h, kids', phase')
      <3>1. active # None /\ ~active.terminal
        BY <1>5, <2>2
      <3>2. InFlight(active, rows, outbox, call, h, kids, phase)
        BY <1>6, <3>1 DEF TurnsSound, TurnSound
      <3>3. /\ kids'[active.lease].at # "none"
            /\ kids'[active.lease].runs + (IF call.at = "prompting" THEN 1 ELSE 0) > active'.followUps
            /\ phase' = "up" => kids'[active.lease].leased
        BY <3>1 DEF SameTurn
      <3> QED BY <1>5, <3>1, <3>2, <3>3 DEF InFlight
    <2> QED BY <2>1, <2>2 DEF TurnSound
  <1>10. LeasesHeld(kids', active', call, h, rows)
    BY <1>5, <1>6 DEF TurnsSound, LeasesHeld
  <1>11. TurnsSound(rows', outbox', active', call', Head(chain'), kids', phase', written', Saying')
    BY <1>3, <1>4, <1>6, <1>8, <1>9, <1>10 DEF TurnsSound, h
  <1>12. ~died => Unfinished(rows, outbox, call, h, active', Saying, Joining)
    BY <1>5, <1>6 DEF Unfinished
  <1>13. ~died' => Unfinished(rows', outbox', call', Head(chain'), active', Saying', Joining')
    BY <1>3, <1>4, <1>12 DEF h
  <1>14. StoreSound(rows', outbox') /\ RowsKeep(rows, rows')
    BY <1>4, RowsUnmoved DEF Inv
  <1> QED BY <1>1, <1>2, <1>7, <1>11, <1>13, <1>14 DEF Inv

\* What the invariant says of the children and of the turn in flight.
LEMMA TurnFacts ==
    ASSUME Inv
    PROVE  /\ KidsSound(kids) /\ kids \in [Child -> Kid]
           /\ active # None =>
                 /\ active \in Turn /\ active.corr \in Message /\ active.followUps \in Nat
                 /\ active.lease \in Child \cup {None} /\ active.terminal \in BOOLEAN
                 /\ rows[active.corr] # NoRow /\ rows[active.corr].corr = active.corr
                 /\ active.terminal => Claimed(active, outbox, call)
                 /\ ~active.terminal =>
                       InFlight(active, rows, outbox, call, Head(chain), kids, phase)
  <1>1. KidsSound(kids) /\ kids \in [Child -> Kid]
    BY DEF Inv, TurnsSound, KidsSound
  <1>2. ASSUME active # None
        PROVE  /\ active \in Turn /\ active.corr \in Message /\ active.followUps \in Nat
               /\ active.lease \in Child \cup {None} /\ active.terminal \in BOOLEAN
    BY <1>2 DEF Inv, Typed, Turn
  <1>3. TurnSound(active, rows, outbox, call, Head(chain), kids, phase)
    BY DEF Inv, TurnsSound
  <1> QED BY <1>1, <1>2, <1>3 DEF TurnSound

LEMMA EvictSteps ==
    ASSUME Inv, NEW k \in Child, Evict(k)
    PROVE  Inv' /\ RowsKeep(rows, rows')
  <1>1. KidsSound(kids)
    BY TurnFacts
  <1>2. KidsSound(kids') /\ Unleased(kids, k, kids')
    BY <1>1, RetireIdles DEF Evict
  <1>3. ~kids[k].leased /\ active' = active /\ phase' = phase
    BY DEF Evict
  <1>4. SameTurn(active, active', kids', call, phase')
    <2>1. ASSUME active # None, ~active.terminal
          PROVE  /\ kids'[active.lease].at # "none"
                 /\ kids'[active.lease].runs + (IF call.at = "prompting" THEN 1 ELSE 0) > active.followUps
                 /\ phase' = "up" => kids'[active.lease].leased
      <3>1. InFlight(active, rows, outbox, call, Head(chain), kids, phase)
        BY <2>1, TurnFacts
      <3> QED BY <1>2, <1>3, <3>1 DEF InFlight, Unleased
    <2> QED BY <1>3, <2>1 DEF SameTurn
  <1>5. \A j \in Child : kids'[j].leased => kids[j].leased
    BY <1>2 DEF Unleased
  <1>6. active' \in Turn \cup {None}
    BY <1>3 DEF Inv, Typed
  <1> QED BY <1>2, <1>3, <1>4, <1>5, <1>6, KidsMove DEF Evict, durable

LEMMA CloseSteps ==
    ASSUME Inv, Close
    PROVE  Inv' /\ RowsKeep(rows, rows')
  <1>1. KidsSound(kids) /\ kids \in [Child -> Kid]
    BY TurnFacts
  <1>2. ASSUME NEW k \in Child
        PROVE  /\ kids'[k] = Retire(kids, k)[k]
               /\ kids'[k] \in Kid /\ ~kids'[k].leased
               /\ kids'[k].at = "none" <=> kids[k].at = "none"
               /\ kids'[k].runs = kids[k].runs
    <2>1. kids'[k] = Retire(kids, k)[k]
      BY DEF Close
    <2>2. KidsSound(Retire(kids, k)) /\ Unleased(kids, k, Retire(kids, k))
      BY <1>1, RetireIdles
    <2>3. Retire(kids, k)[k] \in Kid
      BY <2>2 DEF KidsSound
    <2>4. Retire(kids, k)[k].leased \in BOOLEAN
      BY <2>3 DEF Kid
    <2> QED BY <2>1, <2>2, <2>3, <2>4 DEF Unleased
  <1>3. kids' \in [Child -> Kid]
    BY <1>2 DEF Close
  <1>4. KidsSound(kids')
    BY <1>2, <1>3 DEF KidsSound
  <1>5. active' = active /\ phase' = "closing"
    BY DEF Close
  <1>6. SameTurn(active, active', kids', call, phase')
    <2>1. ASSUME active # None, ~active.terminal
          PROVE  /\ kids'[active.lease].at # "none"
                 /\ kids'[active.lease].runs + (IF call.at = "prompting" THEN 1 ELSE 0) > active.followUps
      <3>1. InFlight(active, rows, outbox, call, Head(chain), kids, phase)
        BY <2>1, TurnFacts
      <3> QED BY <1>2, <3>1 DEF InFlight
    <2> QED BY <1>5, <2>1 DEF SameTurn
  <1>7. active' \in Turn \cup {None}
    BY <1>5 DEF Inv, Typed
  <1> QED BY <1>2, <1>4, <1>5, <1>6, <1>7, KidsMove DEF Close, durable

-----------------------------------------------------------------------------
(***************************************************************************)
(* The end of the turn in flight, by an event of a child.                  *)
(***************************************************************************)

LEMMA TurnEnds ==
    ASSUME Inv, active # None, ~active.terminal, active' = None,
           Emitted(rows, outbox, rows', outbox', active.corr),
           \A d \in sending' : d \in sending \/ d = active.corr,
           KidsSound(kids'),
           \A k \in Child : kids'[k].leased => kids[k].leased /\ k # active.lease,
           UNCHANGED <<bounds, buffer, chain, call, recovering, phase, written>>
    PROVE  Inv' /\ RowsKeep(rows, rows')
  <1> USE DEF bounds
  <1> DEFINE h == Head(chain)
  <1>1. /\ StoreSound(rows', outbox') /\ StoreMoves(rows, outbox, rows', outbox')
        /\ RowsKeep(rows, rows') /\ outbox'[active.corr] # <<>>
    BY DEF Emitted
  <1>2. active.corr \in Message
    BY TurnFacts
  <1>3. BoundsTyped'
    BY DEF Inv, BoundsTyped
  <1>4. Typed(buffer', active', chain', call', sending', recovering', phase')
    BY <1>2 DEF Inv, Typed
  <1>5. Saying' = Saying /\ Joining' = Joining
    BY SayingStays
  <1>6. /\ chain' = chain /\ call' = call /\ died' = died /\ phase' = phase
        /\ recovering' = recovering /\ written' = written
    OBVIOUS
  <1>7. ControlSound(chain', call', phase', active', sending', recovering', outbox')
    <2>1. \A d \in sending' \cup recovering' : outbox'[d] # <<>>
      BY <1>1, <1>4, <1>6 DEF Inv, ControlSound, StoreMoves, Typed
    <2> QED BY <1>6, <2>1 DEF Inv, ControlSound
  <1>8. /\ TurnsSound(rows, outbox, active, call, h, kids, phase, written, Saying)
        /\ ~died => Unfinished(rows, outbox, call, h, active, Saying, Joining)
    BY DEF Inv
  <1>9. call.at # "none" => h \in Message
    BY HeadMessage
  <1>10. \A m \in Message : rows'[m] # NoRow => rows[m] # NoRow /\ rows'[m].corr = rows[m].corr
    BY <1>1 DEF StoreMoves
  <1> HIDE DEF h
  <1>11. OwnCorrelation(rows', Saying)
    BY <1>8, <1>10 DEF TurnsSound, OwnCorrelation, Saying
  <1>12. /\ call.at \notin Fresh /\ call.at \notin Aborts \cup {"redelivering"}
         /\ call.at \notin {"resetting", "retiring"}
    BY <1>8 DEF TurnsSound, CallSound, Aborts
  <1>13. CallSound(call, h, None, rows', Saying)
    <2>1. call.at \in Prompts \cup Appends => call.child \in Child /\ rows'[h] # NoRow
      BY <1>1, <1>8, <1>9 DEF TurnsSound, CallSound, StoreMoves, Prompts, Appends
    <2> QED BY <1>12, <2>1 DEF CallSound
  <1>14. LeasesHeld(kids', None, call, h, rows')
    <2>1. \A k \in Child : ~kids'[k].leased
      BY <1>8 DEF TurnsSound, LeasesHeld, CallSound
    <2> QED BY <2>1 DEF LeasesHeld
  <1>15. WrittenSound(written, rows', call, h)
    BY <1>1, <1>8 DEF TurnsSound, WrittenSound, StoreMoves
  <1>16. TurnSound(None, rows', outbox', call, h, kids', phase)
    BY DEF TurnSound
  <1>17. TurnsSound(rows', outbox', active', call', Head(chain'), kids', phase', written', Saying')
    BY <1>5, <1>6, <1>11, <1>13, <1>14, <1>15, <1>16 DEF TurnsSound, h
  <1>18. ASSUME ~died PROVE Unfinished(rows', outbox', call, h, None, Saying, Joining)
    <2>1. Unfinished(rows, outbox, call, h, active, Saying, Joining)
      BY <1>8, <1>18
    <2>2. ASSUME NEW m \in Message, rows'[m] # NoRow
          PROVE  /\ IngestPending(rows', m) => Owed(m, rows', outbox', call, h, Joining)
                 /\ (m \in Saying \/ rows'[m].corr # m) /\ outbox'[rows'[m].corr] = <<>> =>
                       call.at \in {"acquiring", "retiring"} /\ m = h
      <3>1. rows[m] # NoRow /\ rows'[m].corr = rows[m].corr /\ (IngestPending(rows', m) =>
               IngestPending(rows, m) /\ (outbox[rows[m].corr] = <<>> => outbox'[rows[m].corr] = <<>>))
        BY <1>1, <2>2 DEF StoreMoves
      <3>2. rows[m].corr \in Message
        BY <3>1 DEF Inv, StoreSound, Row, RowType
      <3>3. outbox'[rows[m].corr] = <<>> => outbox[rows[m].corr] = <<>> /\ rows[m].corr # active.corr
        BY <1>1, <3>2 DEF StoreMoves
      <3> QED BY <2>1, <3>1, <3>3 DEF Unfinished, Owed, Stranded
    <2> QED BY <2>2 DEF Unfinished
  <1>19. ~died' => Unfinished(rows', outbox', call', Head(chain'), active', Saying', Joining')
    BY <1>5, <1>6, <1>18 DEF h
  <1> QED BY <1>1, <1>3, <1>4, <1>7, <1>17, <1>19 DEF Inv

\* A terminal event of the turn in flight that is not a cancellation.
LEMMA TurnEmits ==
    ASSUME Inv, active # None, NEW type \in {"turn.reply", "turn.error"},
           EmitTerminal(active.corr, type)
    PROVE  /\ Emitted(rows, outbox, rows', outbox', active.corr)
           /\ \A d \in sending' : d \in sending \/ d = active.corr
  <1>1. active.corr \in Message /\ rows[active.corr] # NoRow /\ rows[active.corr].corr = active.corr
    BY TurnFacts
  <1>2. type \in TerminalType /\ type # "turn.cancelled"
    BY DEF TerminalType
  <1>3. StoreSound(rows, outbox)
    BY DEF Inv
  <1> QED BY <1>1, <1>2, <1>3, EmitStores

\* The children after a run of k ended.
RunEnded(ks, k, kt) ==
    \A j \in Child : /\ kt[j].at = ks[j].at /\ kt[j].leased = ks[j].leased
                     /\ kt[j].runs \in Nat /\ kt[j].runs + 1 >= ks[j].runs

LEMMA RunEnds ==
    ASSUME NEW ks, KidsSound(ks), NEW k \in Child, ks[k].runs > 0,
           NEW kt, kt = [ks EXCEPT ![k].runs = @ - 1]
    PROVE  KidsSound(kt) /\ RunEnded(ks, k, kt)
  <1>1. ks \in [Child -> Kid] /\ \A j \in Child : ks[j].leased => ks[j].at = "pooled"
    BY DEF KidsSound
  <1>2. ks[k] \in Kid /\ \A j \in Child : ks[j].runs \in Nat
    BY <1>1 DEF Kid
  <1> DEFINE n == ks[k].runs - 1
             r == [ks[k] EXCEPT !.runs = n]
  <1>3. n \in Nat /\ n + 1 = ks[k].runs
    BY <1>2
  <1>4. kt = [ks EXCEPT ![k] = r]
    OBVIOUS
  <1> HIDE DEF n
  <1>5. r \in Kid /\ r.at = ks[k].at /\ r.leased = ks[k].leased /\ r.runs = n
    BY <1>2, <1>3 DEF Kid
  <1> HIDE DEF r
  <1>6. kt \in [Child -> Kid] /\ kt[k] = r /\ \A j \in Child \ {k} : kt[j] = ks[j]
    BY <1>1, <1>4, <1>5
  <1>7. KidsSound(kt)
    BY <1>1, <1>5, <1>6 DEF KidsSound
  <1>8. ASSUME NEW j \in Child
        PROVE  /\ kt[j].at = ks[j].at /\ kt[j].leased = ks[j].leased
               /\ kt[j].runs \in Nat /\ kt[j].runs + 1 >= ks[j].runs
    <2>1. CASE j = k
      BY <1>2, <1>3, <1>5, <1>6, <2>1
    <2>2. CASE j # k
      <3>1. kt[j] = ks[j] /\ ks[j].runs \in Nat
        BY <1>2, <1>6, <2>2
      <3> QED BY <3>1
    <2> QED BY <2>1, <2>2
  <1> QED BY <1>7, <1>8 DEF RunEnded

LEMMA AgentEndSteps ==
    ASSUME Inv, NEW k \in Child, NEW type \in {"turn.reply", "turn.error"}, AgentEnd(k, type)
    PROVE  Inv' /\ RowsKeep(rows, rows')
  <1> DEFINE ks == [kids EXCEPT ![k].runs = @ - 1]
  <1>1. KidsSound(ks) /\ RunEnded(kids, k, ks)
    BY TurnFacts, RunEnds DEF AgentEnd
  <1>2. UNCHANGED <<bounds, buffer, chain, call, recovering, phase, written>>
    BY DEF AgentEnd
  <1>3. \/ /\ active = None \/ (active.followUps = 0 /\ active.terminal)
           /\ kids' = ks /\ UNCHANGED <<rows, outbox, sending, active>>
        \/ /\ active # None /\ active.followUps > 0 /\ kids' = ks
           /\ active' = [active EXCEPT !.followUps = @ - 1]
           /\ UNCHANGED <<rows, outbox, sending>>
        \/ /\ active # None /\ ~(active.followUps = 0 /\ active.terminal) /\ ~(active.followUps > 0)
           /\ EmitTerminal(active.corr, type) /\ active' = None
           /\ kids' = Unlease(ks, active.lease)
    BY DEF AgentEnd
  <1> HIDE DEF ks
  <1>4. CASE /\ active = None \/ (active.followUps = 0 /\ active.terminal)
             /\ kids' = ks /\ UNCHANGED <<rows, outbox, sending, active>>
    <2>1. SameTurn(active, active', kids', call, phase')
      BY <1>4 DEF SameTurn
    <2>2. active' \in Turn \cup {None}
      BY <1>4 DEF Inv, Typed
    <2>3. \A j \in Child : kids'[j].leased => kids[j].leased
      BY <1>1, <1>4 DEF RunEnded
    <2> QED BY <1>1, <1>2, <1>4, <2>1, <2>2, <2>3, KidsMove DEF durable
  <1>5. CASE /\ active # None /\ active.followUps > 0 /\ kids' = ks
             /\ active' = [active EXCEPT !.followUps = @ - 1]
             /\ UNCHANGED <<rows, outbox, sending>>
    <2>1. active \in Turn /\ active.followUps \in Nat
      BY <1>5, TurnFacts
    <2> DEFINE n == active.followUps - 1
    <2>2. n \in Nat /\ n + 1 = active.followUps
      BY <1>5, <2>1
    <2> HIDE DEF n
    <2>3. active' = [active EXCEPT !.followUps = n]
      BY <1>5 DEF n
    <2>4. /\ active' \in Turn /\ active'.corr = active.corr /\ active'.lease = active.lease
          /\ active'.terminal = active.terminal /\ active'.followUps = n
      BY <2>1, <2>2, <2>3 DEF Turn
    <2>5. active' # None
      BY <2>4, Markers
    <2>6. ASSUME ~active.terminal
          PROVE  /\ kids'[active.lease].at # "none"
                 /\ kids'[active.lease].runs + (IF call.at = "prompting" THEN 1 ELSE 0) > n
                 /\ phase' = "up" => kids'[active.lease].leased
      <3>1. InFlight(active, rows, outbox, call, Head(chain), kids, phase)
        BY <1>5, <2>6, TurnFacts
      <3>2. active.lease \in Child
        BY <3>1 DEF InFlight
      <3> DEFINE p == IF call.at = "prompting" THEN 1 ELSE 0
                 u == kids[active.lease].runs
                 v == ks[active.lease].runs
      <3>3. p \in Nat
        OBVIOUS
      <3>4. u + p > active.followUps
        BY <3>1 DEF InFlight
      <3>5. v \in Nat /\ v + 1 >= u
        BY <1>1, <3>2 DEF RunEnded
      <3>6. u \in Nat
        BY <3>2, TurnFacts DEF Kid
      <3>7. kids'[active.lease] = ks[active.lease]
        BY <1>5
      <3>8. kids'[active.lease].at # "none" /\ (phase' = "up" => kids'[active.lease].leased)
        BY <1>1, <1>2, <3>1, <3>2, <3>7 DEF InFlight, RunEnded
      <3> HIDE DEF p, u, v
      <3>9. v + p > n
        BY <2>1, <2>2, <3>3, <3>4, <3>5, <3>6
      <3> QED BY <3>7, <3>8, <3>9 DEF p, v
    <2>7. SameTurn(active, active', kids', call, phase')
      BY <1>5, <2>4, <2>5, <2>6 DEF SameTurn
    <2>8. \A j \in Child : kids'[j].leased => kids[j].leased
      BY <1>1, <1>5 DEF RunEnded
    <2>9. active' \in Turn \cup {None}
      BY <2>4
    <2> QED BY <1>1, <1>2, <1>5, <2>7, <2>8, <2>9, KidsMove DEF durable
  <1>6. CASE /\ active # None /\ ~(active.followUps = 0 /\ active.terminal) /\ ~(active.followUps > 0)
             /\ EmitTerminal(active.corr, type) /\ active' = None
             /\ kids' = Unlease(ks, active.lease)
    <2>1. ~active.terminal
      <3>1. active.followUps \in Nat
        BY <1>6, TurnFacts
      <3>2. active.followUps = 0
        BY <1>6, <3>1
      <3> QED BY <1>6, <3>2
    <2>2. /\ Emitted(rows, outbox, rows', outbox', active.corr)
          /\ \A d \in sending' : d \in sending \/ d = active.corr
      BY <1>6, TurnEmits
    <2>3. active.lease \in Child \cup {None}
      BY <1>6, TurnFacts
    <2>4. KidsSound(kids') /\ Unleased(ks, active.lease, kids')
      BY <1>1, <1>6, <2>3, UnleaseIdles
    <2>5. \A j \in Child : kids'[j].leased => kids[j].leased /\ j # active.lease
      BY <1>1, <2>4 DEF Unleased, RunEnded
    <2> QED BY <1>2, <1>6, <2>1, <2>2, <2>4, <2>5, TurnEnds
  <1> QED BY <1>3, <1>4, <1>5, <1>6

LEMMA FailureMoves ==
    ASSUME Inv, NEW ks, KidsSound(ks), \A j \in Child : ks[j].leased => kids[j].leased,
           FailCorrelation(ks),
           UNCHANGED <<bounds, buffer, chain, call, recovering, phase, written>>
    PROVE  Inv' /\ RowsKeep(rows, rows')
  <1>1. CASE active = None \/ active.terminal
    <2>1. kids' = ks /\ UNCHANGED <<rows, outbox, sending, active>>
      BY <1>1 DEF FailCorrelation
    <2>2. SameTurn(active, active', kids', call, phase')
      BY <1>1, <2>1 DEF SameTurn
    <2>3. active' \in Turn \cup {None}
      BY <2>1 DEF Inv, Typed
    <2>4. KidsSound(kids') /\ \A j \in Child : kids'[j].leased => kids[j].leased
      BY <2>1
    <2> QED BY <2>1, <2>2, <2>3, <2>4, KidsMove DEF durable
  <1>2. CASE active # None /\ ~active.terminal
    <2>1. /\ EmitTerminal(active.corr, "turn.error") /\ active' = None
          /\ kids' = Unlease(ks, active.lease)
      BY <1>2 DEF FailCorrelation
    <2> DEFINE type == "turn.error"
    <2>2. type \in {"turn.reply", "turn.error"} /\ EmitTerminal(active.corr, type)
      BY <2>1
    <2> HIDE DEF type
    <2>3. /\ Emitted(rows, outbox, rows', outbox', active.corr)
          /\ \A d \in sending' : d \in sending \/ d = active.corr
      BY <1>2, <2>2, TurnEmits
    <2>4. active.lease \in Child \cup {None}
      BY <1>2, TurnFacts
    <2>5. KidsSound(kids') /\ Unleased(ks, active.lease, kids')
      BY <2>1, <2>4, UnleaseIdles
    <2>6. \A j \in Child : kids'[j].leased => kids[j].leased /\ j # active.lease
      BY <2>5 DEF Unleased
    <2> QED BY <1>2, <2>1, <2>3, <2>5, <2>6, TurnEnds
  <1> QED BY <1>1, <1>2

LEMMA ExitSteps ==
    ASSUME Inv, NEW k \in Child, ChildExit(k) \/ ChildError(k)
    PROVE  Inv' /\ RowsKeep(rows, rows')
  <1>1. KidsSound(kids) /\ kids \in [Child -> Kid]
    BY TurnFacts
  <1>2. UNCHANGED <<bounds, buffer, chain, call, recovering, phase, written>>
    BY DEF ChildExit, ChildError
  <1>3. CASE ChildExit(k)
    <2> DEFINE r == NoChild
               ks == [kids EXCEPT ![k] = r]
    <2>1. r \in Kid /\ ~r.leased
      BY DEF NoChild, Kid
    <2>2. FailCorrelation(ks)
      BY <1>3 DEF ChildExit
    <2> HIDE DEF r
    <2>3. ks \in [Child -> Kid] /\ ks[k] = r /\ \A j \in Child \ {k} : ks[j] = kids[j]
      BY <1>1, <2>1
    <2> HIDE DEF ks
    <2>4. KidsSound(ks) /\ \A j \in Child : ks[j].leased => kids[j].leased
      BY <1>1, <2>1, <2>3 DEF KidsSound
    <2> QED BY <1>2, <2>2, <2>4, FailureMoves
  <1>4. CASE ChildError(k)
    <2> DEFINE ks == Retire(kids, k)
    <2>1. KidsSound(ks) /\ Unleased(kids, k, ks)
      BY <1>1, RetireIdles
    <2>2. FailCorrelation(ks)
      BY <1>4 DEF ChildError
    <2> HIDE DEF ks
    <2>3. \A j \in Child : ks[j].leased => kids[j].leased
      BY <2>1 DEF Unleased
    <2> QED BY <1>2, <2>1, <2>2, <2>3, FailureMoves
  <1> QED BY <1>3, <1>4

-----------------------------------------------------------------------------
(***************************************************************************)
(* Calls that return and leave no turn.                                    *)
(***************************************************************************)

LEMMA ReturnsIdle ==
    ASSUME Inv, call.at # "none", Return, active' = None,
           StoreSound(rows', outbox'), StoreMoves(rows, outbox, rows', outbox'),
           call.at \in Busy /\ IngestPending(rows', Head(chain)) =>
              outbox[rows[Head(chain)].corr] # <<>>,
           call.at \in {"acquiring", "retiring"} => outbox'[rows[Head(chain)].corr] # <<>>,
           active # None /\ ~active.terminal => outbox'[active.corr] # <<>>,
           sending' \subseteq Message, \A d \in sending' : outbox'[d] # <<>>,
           KidsSound(kids'), \A k \in Child : ~kids'[k].leased, buffer' \in BufferType,
           UNCHANGED <<bounds, recovering, phase, written>>
    PROVE  Inv'
  <1> USE DEF bounds
  <1> DEFINE h == Head(chain)
             g == Head(chain')
  <1>1. /\ chain' \in Seq(Message) /\ call' \in Call
        /\ chain' = <<>> <=> call'.at = "none"
        /\ call'.at \in {"none", "begin"}
    BY ReturnTypes
  <1>2. BoundsTyped'
    BY DEF Inv, BoundsTyped
  <1>3. Typed(buffer', active', chain', call', sending', recovering', phase')
    BY <1>1 DEF Inv, Typed
  <1>4. Saying' = Saying /\ Joining' = Joining /\ died' = died /\ written' = written /\ recovering' = recovering
    BY SayingStays
  <1>5. ControlSound(chain', call', phase', active', sending', recovering', outbox')
    <2>1. \A d \in sending' \cup recovering' : outbox'[d] # <<>>
      BY <1>4, <1>3 DEF Inv, ControlSound, StoreMoves, Typed
    <2>2. phase' # "down"
      BY HeadMessage DEF Inv, ControlSound
    <2> QED BY <1>1, <2>1, <2>2 DEF ControlSound
  <1>6. /\ TurnsSound(rows, outbox, active, call, h, kids, phase, written, Saying)
        /\ ~died => Unfinished(rows, outbox, call, h, active, Saying, Joining)
    BY DEF Inv
  <1>7. h \in Message
    BY HeadMessage
  <1> HIDE DEF g
  <1>8. OwnCorrelation(rows', Saying)
    BY <1>6 DEF TurnsSound, OwnCorrelation, Saying, StoreMoves
  <1>9. CallSound(call', g, None, rows', Saying)
    BY <1>1 DEF CallSound, Fresh, Prompts, Appends, Aborts
  <1>10. /\ TurnSound(None, rows', outbox', call', g, kids', phase')
         /\ LeasesHeld(kids', None, call', g, rows')
    BY DEF TurnSound, LeasesHeld
  <1>11. WrittenSound(written, rows', call', g)
    BY <1>1, <1>6 DEF TurnsSound, WrittenSound, StoreMoves
  <1>12. TurnsSound(rows', outbox', active', call', Head(chain'), kids', phase', written', Saying')
    BY <1>4, <1>8, <1>9, <1>10, <1>11 DEF TurnsSound, g
  <1>13. ASSUME ~died PROVE Unfinished(rows', outbox', call', g, None, Saying, Joining)
    <2>1. Unfinished(rows, outbox, call, h, active, Saying, Joining)
      BY <1>6, <1>13
    <2>2. ASSUME NEW m \in Message, rows'[m] # NoRow
          PROVE  /\ IngestPending(rows', m) => Stranded(m, rows', outbox', Joining)
                 /\ ~((m \in Saying \/ rows'[m].corr # m) /\ outbox'[rows'[m].corr] = <<>>)
      <3>1. rows[m] # NoRow /\ rows'[m].corr = rows[m].corr /\ (IngestPending(rows', m) =>
               IngestPending(rows, m) /\ (outbox[rows[m].corr] = <<>> => outbox'[rows[m].corr] = <<>>))
        BY <2>2 DEF StoreMoves
      <3>2. rows[m].corr \in Message
        BY <3>1 DEF Inv, StoreSound, Row, RowType
      <3>3. outbox'[rows[m].corr] = <<>> => outbox[rows[m].corr] = <<>>
        BY <3>2 DEF StoreMoves
      <3> QED BY <2>1, <3>1, <3>3 DEF Unfinished, Owed, Stranded
    <2> QED BY <2>2 DEF Unfinished, Owed
  <1>14. ~died' => Unfinished(rows', outbox', call', Head(chain'), active', Saying', Joining')
    BY <1>4, <1>13 DEF g
  <1> QED BY <1>2, <1>3, <1>5, <1>12, <1>14 DEF Inv

\* terminalizeAcceptedInbound always leaves the correlation of its message answered
\* and no turn in flight.
LEMMA Terminalizes ==
    ASSUME Inv, call.at \in Busy \/ (call.at = "admit" /\ active = None), call.at # "none",
           rows[Head(chain)] # NoRow, NEW ks, Terminalize(Head(chain), ks)
    PROVE  /\ active' = None
           /\ Emitted(rows, outbox, rows', outbox', rows[Head(chain)].corr)
           /\ sending' \subseteq Message /\ \A d \in sending' : outbox'[d] # <<>>
           /\ active # None => active.corr = rows[Head(chain)].corr /\ active.lease = call.child
           /\ IngestPending(rows', Head(chain)) => outbox[rows[Head(chain)].corr] # <<>>
           /\ kids' = Unlease(ks, IF active = None THEN None ELSE active.lease)
  <1> DEFINE h == Head(chain)
             c == rows[h].corr
  <1>1. h \in Message
    BY HeadMessage
  <1>2. StoreSound(rows, outbox)
    BY DEF Inv
  <1>3. c \in Message /\ rows[c] # NoRow /\ rows[c].corr = c /\ Answered(h, rows[h], outbox[c])
    <2>1. rows[h] \in Row
      BY <1>1, <1>2 DEF StoreSound
    <2>2. rows[h].corr \in Message
      BY <2>1 DEF Row, RowType
    <2> QED BY <1>1, <1>2, <2>2 DEF StoreSound
  <1>4. ASSUME active # None
        PROVE  active.corr = c /\ active.lease = call.child /\ ~active.terminal /\ outbox[c] = <<>>
    <2>1. CallSound(call, h, active, rows, Saying)
      BY DEF Inv, TurnsSound
    <2>2. active.corr = c /\ active.lease = call.child
      BY <1>4, <2>1 DEF CallSound, Busy
    <2>3. ~active.terminal
      <3>1. active.terminal => call.at \in Aborts \cup {"redelivering"}
        BY <1>4, TurnFacts DEF Claimed, Aborts
      <3>2. call.at \in Busy
        BY <1>4
      <3> QED BY <3>1, <3>2 DEF Busy, Fresh, Prompts, Appends, Aborts
    <2> QED BY <1>4, <2>2, <2>3, TurnFacts DEF InFlight
  <1>5. sending \subseteq Message /\ \A d \in sending : outbox[d] # <<>>
    BY DEF Inv, Typed, ControlSound
  <1> HIDE DEF c
  <1>6. CASE rows[h].response # NoResponse \/ (active # None /\ active.terminal)
    <2>1. UNCHANGED <<rows, outbox, sending, active>> /\ kids' = ks
      BY <1>6 DEF Terminalize
    <2>2. rows[h].response # NoResponse
      BY <1>4, <1>6
    <2>3. outbox[c] # <<>>
      BY <1>3, <2>2 DEF Answered
    <2>4. active = None
      BY <1>4, <2>3
    <2>5. Emitted(rows, outbox, rows', outbox', c)
      BY <1>2, <2>1, <2>3, StoreUnmoved, RowsUnmoved DEF Emitted
    <2>6. Unlease(ks, None) = ks
      BY DEF Unlease
    <2> QED BY <1>5, <2>1, <2>3, <2>4, <2>5, <2>6 DEF c
  <1>7. CASE ~(rows[h].response # NoResponse \/ (active # None /\ active.terminal))
    <2>1. /\ EmitTerminal(IF active = None THEN rows[h].corr ELSE active.corr, "turn.error")
          /\ active' = None
          /\ kids' = Unlease(ks, IF active = None THEN None ELSE active.lease)
      BY <1>7 DEF Terminalize
    <2> DEFINE type == "turn.error"
    <2>2. EmitTerminal(c, type)
      BY <1>4, <2>1 DEF c
    <2>3. type \in TerminalType /\ type # "turn.cancelled"
      BY DEF TerminalType
    <2> HIDE DEF type
    <2>4. /\ Emitted(rows, outbox, rows', outbox', c)
          /\ \A d \in sending' : d \in sending \/ d = c
      BY <1>2, <1>3, <2>2, <2>3, EmitStores
    <2>5. /\ StoreSound(rows', outbox') /\ StoreMoves(rows, outbox, rows', outbox')
          /\ outbox'[c] # <<>>
      BY <2>4 DEF Emitted
    <2>6. sending' \subseteq Message /\ \A d \in sending' : outbox'[d] # <<>>
      BY <1>3, <1>5, <2>4, <2>5 DEF StoreMoves
    <2>7. IngestPending(rows', h) => outbox[c] # <<>>
      BY <1>1, <2>5 DEF StoreMoves, c
    <2> QED BY <1>4, <2>1, <2>4, <2>6, <2>7 DEF c
  <1> QED BY <1>6, <1>7

LEMMA FailedReturns ==
    ASSUME Inv, call.at \in Busy \/ (call.at = "admit" /\ active = None),
           rows[Head(chain)] # NoRow, NEW ks, KidsSound(ks),
           \A k \in Child : ks[k].leased =>
              /\ kids[k].leased
              /\ ~(call.at \in Appends /\ rows[Head(chain)].corr = Head(chain) /\ k = call.child),
           Terminalize(Head(chain), ks), Return,
           UNCHANGED <<bounds, buffer, recovering, phase, written>>
    PROVE  Inv' /\ RowsKeep(rows, rows')
  <1> DEFINE h == Head(chain)
             l == IF active = None THEN None ELSE active.lease
  <1>1. call.at # "none"
    BY DEF Busy, Fresh, Prompts, Appends, Aborts
  <1>2. /\ active' = None
        /\ Emitted(rows, outbox, rows', outbox', rows[h].corr)
        /\ sending' \subseteq Message /\ \A d \in sending' : outbox'[d] # <<>>
        /\ active # None => active.corr = rows[h].corr /\ active.lease = call.child
        /\ IngestPending(rows', h) => outbox[rows[h].corr] # <<>>
        /\ kids' = Unlease(ks, l)
    BY <1>1, Terminalizes
  <1>3. l \in Child \cup {None}
    BY TurnFacts
  <1> HIDE DEF l
  <1>4. KidsSound(kids') /\ Unleased(ks, l, kids')
    BY <1>2, <1>3, UnleaseIdles
  <1>5. \A k \in Child : ~kids'[k].leased
    <2>1. LeasesHeld(kids, active, call, h, rows)
      BY DEF Inv, TurnsSound
    <2>2. active # None => l = active.lease
      BY DEF l
    <2> QED BY <1>4, <2>1, <2>2 DEF LeasesHeld, Unleased
  <1>6. /\ StoreSound(rows', outbox') /\ StoreMoves(rows, outbox, rows', outbox')
        /\ RowsKeep(rows, rows') /\ outbox'[rows[h].corr] # <<>>
    BY <1>2 DEF Emitted
  <1>7. buffer' \in BufferType
    BY DEF Inv, Typed
  <1>8. Inv'
    BY <1>1, <1>2, <1>4, <1>5, <1>6, <1>7, ReturnsIdle
  <1> QED BY <1>6, <1>8

\* The message of a call past its admission has a row.
LEMMA BusyRow ==
    ASSUME Inv, call.at \in Busy
    PROVE  rows[Head(chain)] # NoRow
  BY DEF Inv, TurnsSound, CallSound, Busy, IngestPending

LEMMA AcquireFailedSteps ==
    ASSUME Inv, AcquireFailed
    PROVE  Inv' /\ RowsKeep(rows, rows')
  <1>1. call.at \in Busy /\ call.at \notin Appends
    BY DEF AcquireFailed, Busy, Fresh, Appends
  <1>2. rows[Head(chain)] # NoRow
    BY <1>1, BusyRow
  <1>3. KidsSound(kids)
    BY TurnFacts
  <1>4. /\ Terminalize(Head(chain), kids) /\ Return
        /\ UNCHANGED <<bounds, buffer, recovering, phase, written>>
    BY DEF AcquireFailed
  <1> QED BY <1>1, <1>2, <1>3, <1>4, FailedReturns

LEMMA PromptFailedSteps ==
    ASSUME Inv, PromptFailed
    PROVE  Inv' /\ RowsKeep(rows, rows')
  <1> DEFINE ks == Retire(kids, call.child)
  <1>1. call.at \in Busy /\ call.at \in Prompts /\ call.at \notin Appends
    BY DEF PromptFailed, Busy, Prompts, Appends
  <1>2. rows[Head(chain)] # NoRow
    BY <1>1, BusyRow
  <1>3. call.child \in Child
    BY <1>1 DEF Inv, TurnsSound, CallSound
  <1>4. KidsSound(ks) /\ Unleased(kids, call.child, ks)
    BY <1>3, TurnFacts, RetireIdles
  <1>5. /\ Terminalize(Head(chain), ks) /\ Return
        /\ UNCHANGED <<bounds, buffer, recovering, phase, written>>
    BY DEF PromptFailed
  <1> HIDE DEF ks
  <1>6. \A k \in Child : ks[k].leased => kids[k].leased
    BY <1>4 DEF Unleased
  <1> QED BY <1>1, <1>2, <1>4, <1>5, <1>6, FailedReturns

LEMMA AppendFailedSteps ==
    ASSUME Inv, AppendFailed
    PROVE  Inv' /\ RowsKeep(rows, rows')
  <1> DEFINE ks == IF OwnLease THEN Retire(kids, call.child) ELSE kids
  <1>1. call.at \in Busy /\ call.at \in Appends
    BY DEF AppendFailed, Busy, Appends
  <1>2. rows[Head(chain)] # NoRow
    BY <1>1, BusyRow
  <1>3. call.child \in Child
    BY <1>1 DEF Inv, TurnsSound, CallSound
  <1>4. KidsSound(kids)
    BY TurnFacts
  <1>5. KidsSound(ks) /\ \A k \in Child : ks[k].leased => kids[k].leased /\ (OwnLease => k # call.child)
    <2>1. CASE OwnLease
      <3>1. KidsSound(ks) /\ Unleased(kids, call.child, ks)
        BY <1>3, <1>4, <2>1, RetireIdles
      <3> QED BY <3>1 DEF Unleased
    <2>2. CASE ~OwnLease
      BY <1>4, <2>2
    <2> QED BY <2>1, <2>2
  <1>6. /\ Terminalize(Head(chain), ks) /\ Return
        /\ UNCHANGED <<bounds, buffer, recovering, phase, written>>
    BY DEF AppendFailed
  <1> HIDE DEF ks
  <1>7. \A k \in Child : ks[k].leased =>
              /\ kids[k].leased
              /\ ~(call.at \in Appends /\ rows[Head(chain)].corr = Head(chain) /\ k = call.child)
    BY <1>5 DEF OwnLease
  <1> QED BY <1>1, <1>2, <1>5, <1>6, <1>7, FailedReturns

LEMMA AdmitInterruptedSteps ==
    ASSUME Inv, call.at = "admit", AdmitInterrupted(Head(chain)),
           UNCHANGED <<bounds, recovering, phase>>
    PROVE  Inv' /\ RowsKeep(rows, rows')
  <1>1. active = None /\ rows[Head(chain)] # NoRow
    BY DEF AdmitInterrupted, IngestPending
  <1>2. call.at \notin Appends
    BY DEF Appends
  <1>3. KidsSound(kids)
    BY TurnFacts
  <1>4. Terminalize(Head(chain), kids) /\ Return /\ UNCHANGED <<buffer, written>>
    BY DEF AdmitInterrupted
  <1> QED BY <1>1, <1>2, <1>3, <1>4, FailedReturns

LEMMA ResetReplySteps ==
    ASSUME Inv, ResetReply
    PROVE  Inv' /\ RowsKeep(rows, rows')
  <1> DEFINE h == Head(chain)
             c == rows[h].corr
             type == "turn.reply"
  <1>1. call.at = "retiring" /\ call.at # "none"
    BY DEF ResetReply
  <1>2. /\ CallSound(call, h, active, rows, Saying) /\ LeasesHeld(kids, active, call, h, rows)
        /\ StoreSound(rows, outbox)
    BY DEF Inv, TurnsSound
  <1>3. h \in Message
    BY <1>1, HeadMessage
  <1>4. active = None /\ rows[h] # NoRow
    BY <1>1, <1>2 DEF CallSound
  <1>5. c \in Message /\ rows[c] # NoRow /\ rows[c].corr = c
    <2>1. rows[h] \in Row
      BY <1>2, <1>3, <1>4 DEF StoreSound
    <2> QED BY <1>2, <1>3, <1>4, <2>1 DEF StoreSound, Row, RowType
  <1>6. EmitTerminal(c, type) /\ type \in TerminalType /\ type # "turn.cancelled"
    BY DEF ResetReply, TerminalType
  <1> HIDE DEF type, c, h
  <1>7. /\ Emitted(rows, outbox, rows', outbox', c)
        /\ \A d \in sending' : d \in sending \/ d = c
    BY <1>2, <1>5, <1>6, EmitStores
  <1>8. /\ StoreSound(rows', outbox') /\ StoreMoves(rows, outbox, rows', outbox')
        /\ RowsKeep(rows, rows') /\ outbox'[c] # <<>>
    BY <1>7 DEF Emitted
  <1>9. sending' \subseteq Message /\ \A d \in sending' : outbox'[d] # <<>>
    BY <1>5, <1>7, <1>8 DEF Inv, Typed, ControlSound, StoreMoves
  <1>10. IngestPending(rows', h) => outbox[rows[h].corr] # <<>>
    BY <1>3, <1>8 DEF StoreMoves, c
  <1>11. KidsSound(kids) /\ \A k \in Child : ~kids[k].leased
    BY <1>1, <1>2, <1>4, TurnFacts DEF LeasesHeld, Appends
  <1>12. buffer' \in BufferType
    BY RecordTypes DEF Inv, Typed, ResetReply
  <1>13. /\ Return /\ active' = active /\ kids' = kids
         /\ UNCHANGED <<bounds, recovering, phase, written>>
    BY DEF ResetReply
  <1>14. Inv'
    BY <1>1, <1>4, <1>8, <1>9, <1>10, <1>11, <1>12, <1>13, ReturnsIdle DEF h, c
  <1> QED BY <1>8, <1>14

LEMMA RedeliveredSteps ==
    ASSUME Inv, Redelivered
    PROVE  Inv' /\ RowsKeep(rows, rows')
  <1>1. call.at = "redelivering" /\ call.at \notin Busy /\ call.at \notin Appends
    BY DEF Redelivered, Busy, Fresh, Prompts, Appends
  <1>2. active # None /\ active.terminal
    BY <1>1 DEF Inv, TurnsSound, CallSound
  <1>3. active.corr \in Message /\ outbox[active.corr] # <<>> /\ active.lease = None
    BY <1>1, <1>2, TurnFacts DEF Claimed, Aborts
  <1>4. StoreSound(rows, outbox)
    BY DEF Inv
  <1>5. /\ StoreSound(rows', outbox') /\ StoreStays(rows, outbox, rows', outbox')
        /\ RowsKeep(rows, rows')
    BY <1>3, <1>4, OutcomeStored DEF Redelivered
  <1>6. StoreMoves(rows, outbox, rows', outbox')
    <2>1. \A m \in Message : IngestPending(rows, m) => rows[m].corr \in Message
      BY <1>4 DEF StoreSound, IngestPending, Row, RowType
    <2> QED BY <1>5, <2>1 DEF StoreMoves, StoreStays
  <1>7. KidsSound(kids) /\ \A k \in Child : ~kids[k].leased
    BY <1>1, <1>3, TurnFacts, Markers DEF Inv, TurnsSound, LeasesHeld
  <1>8. /\ Return /\ active' = None /\ kids' = kids /\ sending' = sending /\ buffer' = buffer
        /\ UNCHANGED <<bounds, recovering, phase, written>>
    BY DEF Redelivered
  <1>9. sending' \subseteq Message /\ \A d \in sending' : outbox'[d] # <<>>
    BY <1>6, <1>8 DEF Inv, Typed, ControlSound, StoreMoves
  <1>10. buffer' \in BufferType
    BY <1>8 DEF Inv, Typed
  <1>11. Inv'
    BY <1>1, <1>2, <1>5, <1>6, <1>7, <1>8, <1>9, <1>10, ReturnsIdle
  <1> QED BY <1>5, <1>11

-----------------------------------------------------------------------------
(***************************************************************************)
(* Calls before their admission.                                           *)
(***************************************************************************)

Neutral == {"none", "begin", "admit"}

\* Between neutral steps the head of the chain does not matter.
LEMMA NeutralMoves ==
    ASSUME Inv, phase # "down", call.at \in Neutral, call'.at \in Neutral,
           chain' \in Seq(Message), call' \in Call, chain' = <<>> <=> call'.at = "none",
           call'.at = "admit" /\ Head(chain') \in Saying => active = None,
           posts' \in [Message -> Nat],
           UNCHANGED <<kind, crashes, died, durable, buffer, active, kids, sending, recovering,
                       phase, written>>
    PROVE  Inv' /\ RowsKeep(rows, rows')
  <1> USE DEF durable
  <1> DEFINE h == Head(chain)
             g == Head(chain')
  <1>1. BoundsTyped'
    BY DEF Inv, BoundsTyped
  <1>2. Typed(buffer', active', chain', call', sending', recovering', phase')
    BY DEF Inv, Typed
  <1>3. Saying' = Saying /\ Joining' = Joining
    BY SayingStays
  <1>4. /\ rows' = rows /\ outbox' = outbox /\ active' = active /\ kids' = kids /\ died' = died
        /\ sending' = sending /\ recovering' = recovering /\ phase' = phase /\ written' = written
    OBVIOUS
  <1>5. ControlSound(chain', call', phase', active', sending', recovering', outbox')
    BY <1>4 DEF Inv, ControlSound
  <1>6. /\ TurnsSound(rows, outbox, active, call, h, kids, phase, written, Saying)
        /\ ~died => Unfinished(rows, outbox, call, h, active, Saying, Joining)
    BY DEF Inv
  <1> DEFINE s == call.at
             t == call'.at
  <1>7. /\ s \notin Busy /\ s \notin Aborts \cup {"redelivering"} /\ s \notin Prompts \cup Appends
        /\ t \notin Busy /\ t \notin Aborts \cup {"redelivering"} /\ t \notin Prompts \cup Appends
        /\ t \notin {"acquiring", "append_acquiring", "prompting", "appending"}
        /\ t \notin Fresh /\ s # "prompting" /\ s \notin {"acquiring", "retiring"}
        /\ t \notin {"resetting", "retiring"}
    BY DEF Neutral, Busy, Fresh, Prompts, Appends, Aborts
  <1> HIDE DEF s, t, h
  <1>8. CallSound(call', g, active, rows, Saying)
    BY <1>7 DEF CallSound, t
  <1> HIDE DEF g
  <1>9. TurnSound(active, rows, outbox, call', g, kids, phase)
    <2>1. ASSUME active # None
          PROVE  ~active.terminal
      BY <1>7, <2>1, TurnFacts DEF Claimed, Aborts, s
    <2>2. ASSUME active # None
          PROVE  InFlight(active, rows, outbox, call', g, kids, phase)
      <3>1. InFlight(active, rows, outbox, call, h, kids, phase)
        BY <2>1, <2>2, TurnFacts DEF h
      <3>2. call.at # "prompting" /\ call'.at # "prompting"
        BY <1>7 DEF s, t
      <3>3. \A m \in Message : ~(IngestPending(rows, m) /\ rows[m].corr = active.corr)
        BY <1>7, <3>1 DEF InFlight, s
      <3> QED BY <3>1, <3>2, <3>3 DEF InFlight
    <2> QED BY <2>1, <2>2, TurnFacts DEF TurnSound
  <1>10. LeasesHeld(kids, active, call', g, rows)
    BY <1>6, <1>7 DEF TurnsSound, LeasesHeld, s
  <1>11. WrittenSound(written, rows, call', g)
    BY <1>6, <1>7 DEF TurnsSound, WrittenSound, t
  <1>12. TurnsSound(rows', outbox', active', call', Head(chain'), kids', phase', written', Saying')
    BY <1>3, <1>4, <1>6, <1>8, <1>9, <1>10, <1>11 DEF TurnsSound, g
  <1>13. ~died => Unfinished(rows, outbox, call', g, active, Saying, Joining)
    BY <1>6, <1>7 DEF Unfinished, Owed, s
  <1>14. ~died' => Unfinished(rows', outbox', call', Head(chain'), active', Saying', Joining')
    BY <1>3, <1>4, <1>13 DEF g
  <1>15. StoreSound(rows', outbox') /\ RowsKeep(rows, rows')
    BY <1>4, RowsUnmoved DEF Inv
  <1> QED BY <1>1, <1>2, <1>5, <1>12, <1>14, <1>15 DEF Inv

\* Another call behind the head of the chain is nothing to it.
LEMMA ChainMoves ==
    ASSUME Inv, phase # "down", chain # <<>>, chain' \in Seq(Message), chain' # <<>>, Head(chain') = Head(chain),
           posts' \in [Message -> Nat],
           UNCHANGED <<kind, crashes, died, durable, buffer, active, call, kids, sending,
                       recovering, phase, written>>
    PROVE  Inv' /\ RowsKeep(rows, rows')
  <1> USE DEF durable
  <1>1. BoundsTyped'
    BY DEF Inv, BoundsTyped
  <1>2. Typed(buffer', active', chain', call', sending', recovering', phase')
    BY DEF Inv, Typed
  <1>3. Saying' = Saying /\ Joining' = Joining
    BY SayingStays
  <1>4. /\ rows' = rows /\ outbox' = outbox /\ active' = active /\ kids' = kids /\ died' = died
        /\ sending' = sending /\ recovering' = recovering /\ phase' = phase /\ written' = written
        /\ call' = call
    OBVIOUS
  <1>5. ControlSound(chain', call', phase', active', sending', recovering', outbox')
    BY <1>4 DEF Inv, ControlSound
  <1>6. TurnsSound(rows', outbox', active', call', Head(chain'), kids', phase', written', Saying')
    BY <1>3, <1>4 DEF Inv
  <1>7. ~died' => Unfinished(rows', outbox', call', Head(chain'), active', Saying', Joining')
    BY <1>3, <1>4 DEF Inv
  <1>8. StoreSound(rows', outbox') /\ RowsKeep(rows, rows')
    BY <1>4, RowsUnmoved DEF Inv
  <1> QED BY <1>1, <1>2, <1>5, <1>6, <1>7, <1>8 DEF Inv

LEMMA ProcessInboundSteps ==
    ASSUME Inv, NEW m \in Message, ProcessInbound(m)
    PROVE  Inv' /\ RowsKeep(rows, rows')
  <1>1. chain \in Seq(Message) /\ chain' = Append(chain, m)
    BY DEF Inv, Typed, ProcessInbound
  <1>2. chain' \in Seq(Message) /\ chain' # <<>> /\ (chain # <<>> => Head(chain') = Head(chain))
    <2>1. chain' \in Seq(Message) /\ Len(chain') = Len(chain) + 1 /\ chain' # <<>>
      BY <1>1, AppendProperties
    <2>2. ASSUME chain # <<>> PROVE Head(chain') = Head(chain)
      <3>1. 1 \in 1..Len(chain)
        BY <1>1, <2>2, EmptySeq
      <3>2. chain'[1] = chain[1]
        BY <1>1, <3>1, AppendProperties
      <3> QED BY <1>1, <2>1, <2>2, <3>2
    <2> QED BY <2>1, <2>2
  <1>3. posts' \in [Message -> Nat]
    <2>1. posts \in [Message -> Nat]
      BY DEF Inv, BoundsTyped
    <2> DEFINE n == posts[m] - 1
    <2>2. n \in Nat
      BY <2>1 DEF ProcessInbound
    <2>3. posts' = [posts EXCEPT ![m] = n]
      BY DEF ProcessInbound
    <2> HIDE DEF n
    <2> QED BY <2>1, <2>2, <2>3
  <1>4. /\ phase # "down"
        /\ UNCHANGED <<kind, crashes, died, durable, buffer, active, kids, sending, recovering,
                       phase, written>>
    BY DEF ProcessInbound
  <1>5. CASE chain = <<>>
    <2>1. call.at \in Neutral
      BY <1>5 DEF Inv, ControlSound, Neutral
    <2>2. call' = [Idle EXCEPT !.at = "begin"]
      BY <1>5 DEF ProcessInbound
    <2>3. call' \in Call /\ call'.at = "begin"
      BY <2>2 DEF Idle, Call, CallStep, Mode
    <2>4. call'.at \in Neutral
      BY <2>3 DEF Neutral
    <2> QED BY <1>2, <1>3, <1>4, <2>1, <2>3, <2>4, NeutralMoves
  <1>6. CASE chain # <<>>
    <2>1. call' = call
      BY <1>6 DEF ProcessInbound
    <2> QED BY <1>2, <1>3, <1>4, <1>6, <2>1, ChainMoves
  <1> QED BY <1>5, <1>6

LEMMA AdmitDuplicateSteps ==
    ASSUME Inv, call.at = "admit", Return,
           UNCHANGED <<bounds, durable, buffer, active, kids, sending, recovering, phase, written>>
    PROVE  Inv' /\ RowsKeep(rows, rows')
  <1>1. /\ chain' \in Seq(Message) /\ call' \in Call
        /\ chain' = <<>> <=> call'.at = "none"
        /\ call'.at \in {"none", "begin"}
    BY ReturnTypes
  <1>2. call.at \in Neutral /\ call'.at \in Neutral /\ call'.at # "admit"
    BY <1>1 DEF Neutral
  <1>3. /\ posts' \in [Message -> Nat]
        /\ UNCHANGED <<kind, crashes, died, durable, buffer, active, kids, sending, recovering,
                       phase, written>>
        /\ phase # "down"
    BY HeadMessage DEF Inv, BoundsTyped, ControlSound, bounds
  <1> QED BY <1>1, <1>2, <1>3, NeutralMoves

LEMMA BeginAdmits ==
    ASSUME Inv, call.at = "begin", Goto("admit"),
           active = None \/ ~Addressed(Head(chain)) \/ active.terminal,
           UNCHANGED <<bounds, durable, buffer, active, chain, kids, sending, recovering,
                       phase, written>>
    PROVE  Inv' /\ RowsKeep(rows, rows')
  <1>1. call' \in Call /\ call'.at = "admit"
    BY GotoTypes DEF CallStep
  <1>2. call.at \in Neutral /\ call'.at \in Neutral
    BY <1>1 DEF Neutral
  <1>3. active # None => ~active.terminal
    BY TurnFacts DEF Claimed, Aborts
  <1>4. Head(chain') \in Saying => active = None
    BY <1>3 DEF Saying
  <1>5. chain' \in Seq(Message) /\ (chain' = <<>> <=> call'.at = "none")
    BY <1>1 DEF Inv, Typed, ControlSound
  <1>6. /\ posts' \in [Message -> Nat]
        /\ UNCHANGED <<kind, crashes, died, durable, buffer, active, kids, sending, recovering,
                       phase, written>>
        /\ phase # "down"
    BY HeadMessage DEF Inv, BoundsTyped, ControlSound, bounds
  <1> QED BY <1>1, <1>2, <1>4, <1>5, <1>6, NeutralMoves

\* The parts of the invariant after a step that leaves the bounds alone.
LEMMA Assembled ==
    ASSUME Inv, UNCHANGED bounds,
           Typed(buffer', active', chain', call', sending', recovering', phase'),
           ControlSound(chain', call', phase', active', sending', recovering', outbox'),
           StoreSound(rows', outbox'),
           TurnsSound(rows', outbox', active', call', Head(chain'), kids', phase', written', Saying),
           ~died => Unfinished(rows', outbox', call', Head(chain'), active', Saying, Joining)
    PROVE  Inv'
  <1>1. BoundsTyped' /\ died' = died
    BY DEF Inv, BoundsTyped, bounds
  <1>2. Saying' = Saying /\ Joining' = Joining
    BY SayingStays DEF bounds
  <1> QED BY <1>1, <1>2 DEF Inv

LEMMA BeginInterrupts ==
    ASSUME Inv, call.at = "begin", Goto("aborting"), active # None, ~active.terminal,
           EmitTerminal(active.corr, "turn.cancelled"),
           active' = [active EXCEPT !.terminal = TRUE],
           UNCHANGED <<bounds, buffer, chain, kids, recovering, phase, written>>
    PROVE  Inv' /\ RowsKeep(rows, rows')
  <1> DEFINE h == Head(chain)
             c == active.corr
             type == "turn.cancelled"
  <1>1. /\ active \in Turn /\ c \in Message /\ rows[c] # NoRow /\ rows[c].corr = c
        /\ InFlight(active, rows, outbox, call, h, kids, phase) /\ KidsSound(kids)
    BY TurnFacts
  <1>2. call' \in Call /\ call'.at = "aborting"
    BY GotoTypes DEF CallStep
  <1>3. /\ call.at \notin Prompts \cup Appends /\ call.at \notin Busy
        /\ call'.at \notin Prompts \cup Appends /\ call'.at \notin Busy /\ call'.at \notin Fresh
    BY <1>2 DEF Busy, Prompts, Appends, Fresh
  <1>4. NonePending(rows, c)
    BY <1>1, <1>3 DEF InFlight, NonePending
  <1>5. /\ active' \in Turn /\ active'.corr = c /\ active'.lease = active.lease
        /\ active'.terminal = TRUE
    BY <1>1 DEF Turn
  <1>6. active' # None
    BY <1>5, Markers
  <1>7. StoreSound(rows, outbox)
    BY DEF Inv
  <1>8. type \in TerminalType /\ EmitTerminal(c, type)
    BY DEF TerminalType
  <1> HIDE DEF type, c
  <1>9. /\ Emitted(rows, outbox, rows', outbox', c)
        /\ \A d \in sending' : d \in sending \/ d = c
    BY <1>1, <1>4, <1>7, <1>8, EmitStores
  <1>10. /\ StoreSound(rows', outbox') /\ StoreMoves(rows, outbox, rows', outbox')
         /\ RowsKeep(rows, rows') /\ outbox'[c] # <<>>
    BY <1>9 DEF Emitted
  <1>11. Typed(buffer', active', chain', call', sending', recovering', phase')
    BY <1>1, <1>2, <1>5, <1>9 DEF Inv, Typed
  <1>12. ControlSound(chain', call', phase', active', sending', recovering', outbox')
    <2>1. \A d \in sending' \cup recovering' : outbox'[d] # <<>>
      BY <1>9, <1>10, <1>11 DEF Inv, ControlSound, StoreMoves, Typed
    <2>2. phase' # "down"
      BY DEF Inv, ControlSound
    <2> QED BY <1>2, <2>1, <2>2 DEF Inv, ControlSound
  <1>13. /\ TurnsSound(rows, outbox, active, call, h, kids, phase, written, Saying)
         /\ ~died => Unfinished(rows, outbox, call, h, active, Saying, Joining)
    BY DEF Inv
  <1> HIDE DEF h
  <1>14. OwnCorrelation(rows', Saying)
    BY <1>10, <1>13 DEF TurnsSound, OwnCorrelation, Saying, StoreMoves
  <1>15. CallSound(call', h, active', rows', Saying)
    BY <1>2, <1>3, <1>5, <1>6 DEF CallSound, Fresh, Prompts, Appends, Aborts
  <1>16. TurnSound(active', rows', outbox', call', h, kids, phase)
    <2>1. rows'[c] # NoRow /\ rows'[c].corr = c
      BY <1>1, <1>10 DEF StoreMoves
    <2>2. active.lease \in Child
      BY <1>1 DEF InFlight
    <2> QED BY <1>2, <1>5, <1>10, <2>1, <2>2 DEF TurnSound, Claimed, Aborts
  <1>17. LeasesHeld(kids, active', call', h, rows')
    BY <1>3, <1>5, <1>6, <1>13 DEF TurnsSound, LeasesHeld
  <1>18. WrittenSound(written, rows', call', h)
    BY <1>2, <1>10, <1>13 DEF TurnsSound, WrittenSound, StoreMoves
  <1>19. TurnsSound(rows', outbox', active', call', Head(chain'), kids', phase', written', Saying)
    BY <1>13, <1>14, <1>15, <1>16, <1>17, <1>18 DEF TurnsSound, h
  <1>20. ASSUME ~died PROVE Unfinished(rows', outbox', call', h, active', Saying, Joining)
    <2>1. Unfinished(rows, outbox, call, h, active, Saying, Joining)
      BY <1>13, <1>20
    <2>2. ASSUME NEW m \in Message, rows'[m] # NoRow
          PROVE  /\ IngestPending(rows', m) => Stranded(m, rows', outbox', Joining)
                 /\ ~((m \in Saying \/ rows'[m].corr # m) /\ outbox'[rows'[m].corr] = <<>>)
      <3>1. rows[m] # NoRow /\ rows'[m].corr = rows[m].corr /\ (IngestPending(rows', m) =>
               IngestPending(rows, m) /\ (outbox[rows[m].corr] = <<>> => outbox'[rows[m].corr] = <<>>))
        BY <1>10, <2>2 DEF StoreMoves
      <3>2. rows[m].corr \in Message
        BY <1>7, <3>1 DEF StoreSound, Row, RowType
      <3>3. outbox'[rows[m].corr] = <<>> => outbox[rows[m].corr] = <<>> /\ rows[m].corr # c
        BY <1>10, <3>2 DEF StoreMoves
      <3>4. IngestPending(rows', m) => Stranded(m, rows', outbox', Joining)
        BY <1>3, <2>1, <3>1, <3>3 DEF Unfinished, Owed, Stranded
      <3>5. ~((m \in Saying \/ rows'[m].corr # m) /\ outbox'[rows'[m].corr] = <<>>)
        BY <1>3, <2>1, <3>1, <3>3 DEF Unfinished, Busy, c
      <3> QED BY <3>4, <3>5
    <2> QED BY <2>2 DEF Unfinished, Owed
  <1>21. ~died => Unfinished(rows', outbox', call', Head(chain'), active', Saying, Joining)
    BY <1>20 DEF h
  <1>22. Inv'
    BY <1>10, <1>11, <1>12, <1>19, <1>21, Assembled
  <1> QED BY <1>10, <1>22

LEMMA BeginSerialSteps ==
    ASSUME Inv, BeginSerial
    PROVE  Inv' /\ RowsKeep(rows, rows')
  <1>1. CASE active # None /\ Addressed(Head(chain)) /\ ~active.terminal
    BY <1>1, BeginInterrupts DEF BeginSerial
  <1>2. CASE ~(active # None /\ Addressed(Head(chain)) /\ ~active.terminal)
    BY <1>2, BeginAdmits DEF BeginSerial, durable
  <1> QED BY <1>1, <1>2

\* The abort of the interrupted turn has ended, one way or the other.
LEMMA AbortEnds ==
    ASSUME Inv, call.at \in Aborts,
           Goto(IF call.at = "aborting" THEN "admit" ELSE "retiring"), active' = None,
           KidsSound(kids'), \A k \in Child : kids'[k].leased => kids[k].leased /\ k # active.lease,
           UNCHANGED <<bounds, durable, buffer, chain, sending, recovering, phase, written>>
    PROVE  Inv' /\ RowsKeep(rows, rows')
  <1> USE DEF durable
  <1> DEFINE h == Head(chain)
             step == IF call.at = "aborting" THEN "admit" ELSE "retiring"
  <1>1. call' \in Call /\ call'.at = step /\ step \in {"admit", "retiring"}
    BY GotoTypes DEF CallStep
  <1>2. /\ TurnsSound(rows, outbox, active, call, h, kids, phase, written, Saying)
        /\ ~died => Unfinished(rows, outbox, call, h, active, Saying, Joining)
        /\ StoreSound(rows, outbox)
    BY DEF Inv
  <1>3. active # None /\ active.terminal
    BY <1>2 DEF TurnsSound, CallSound
  <1>4. step = "retiring" => rows[h] # NoRow
    BY <1>2 DEF TurnsSound, CallSound, Aborts
  <1> HIDE DEF step
  <1>5. Typed(buffer', active', chain', call', sending', recovering', phase')
    BY <1>1 DEF Inv, Typed
  <1>6. ControlSound(chain', call', phase', active', sending', recovering', outbox')
    BY <1>1 DEF Inv, ControlSound, Aborts
  <1> HIDE DEF h
  <1>7. /\ call'.at \notin Fresh /\ call'.at \notin Prompts \cup Appends /\ call'.at \notin Appends
        /\ call'.at \notin Aborts \cup {"redelivering"} /\ call'.at # "resetting"
        /\ call.at \notin Appends /\ call.at \notin Busy /\ call.at \notin {"acquiring", "retiring"}
    BY <1>1 DEF Fresh, Prompts, Appends, Busy, Aborts
  <1>8. CallSound(call', h, None, rows, Saying)
    BY <1>1, <1>4, <1>7 DEF CallSound
  <1>9. TurnSound(None, rows, outbox, call', h, kids', phase)
    BY DEF TurnSound
  <1>10. LeasesHeld(kids', None, call', h, rows)
    BY <1>2, <1>7 DEF TurnsSound, LeasesHeld
  <1>11. WrittenSound(written, rows, call', h)
    BY <1>1, <1>2 DEF TurnsSound, WrittenSound
  <1>12. TurnsSound(rows', outbox', active', call', Head(chain'), kids', phase', written', Saying)
    BY <1>2, <1>8, <1>9, <1>10, <1>11 DEF TurnsSound, h
  <1>13. ~died => Unfinished(rows, outbox, call', h, None, Saying, Joining)
    BY <1>2, <1>3, <1>7 DEF Unfinished, Owed
  <1>14. ~died => Unfinished(rows', outbox', call', Head(chain'), active', Saying, Joining)
    BY <1>13 DEF h
  <1>15. Inv'
    BY <1>2, <1>5, <1>6, <1>12, <1>14, Assembled
  <1> QED BY <1>15, RowsUnmoved

LEMMA RetireConversationIdles ==
    ASSUME NEW ks, KidsSound(ks)
    PROVE  /\ KidsSound(RetireConversation(ks))
           /\ \A k \in Child : RetireConversation(ks)[k].leased => ks[k].leased
  <1>1. CASE \E k \in Child : ks[k].at = "pooled"
    <2> DEFINE j == CHOOSE k \in Child : ks[k].at = "pooled"
    <2>1. j \in Child
      BY <1>1
    <2>2. RetireConversation(ks) = Retire(ks, j)
      BY <1>1 DEF RetireConversation
    <2> HIDE DEF j
    <2>3. KidsSound(Retire(ks, j)) /\ Unleased(ks, j, Retire(ks, j))
      BY <2>1, RetireIdles
    <2> QED BY <2>2, <2>3 DEF Unleased
  <1>2. CASE ~\E k \in Child : ks[k].at = "pooled"
    BY <1>2 DEF RetireConversation
  <1> QED BY <1>1, <1>2

LEMMA AbortSteps ==
    ASSUME Inv, AbortAcknowledged \/ AbortFailed
    PROVE  Inv' /\ RowsKeep(rows, rows')
  <1>1. call.at \in Aborts
    BY DEF AbortAcknowledged, AbortFailed, Aborting, Aborts
  <1>2. active # None /\ active.terminal
    BY <1>1 DEF Inv, TurnsSound, CallSound
  <1>3. active.lease \in Child
    BY <1>1, <1>2, TurnFacts DEF Claimed, Aborts
  <1>4. KidsSound(kids) /\ kids \in [Child -> Kid]
    BY TurnFacts
  <1>5. PICK ks : /\ KidsSound(ks) /\ \A k \in Child : ks[k].leased => kids[k].leased
                  /\ Interrupted(Unlease(ks, active.lease))
    <2>1. CASE AbortAcknowledged
      BY <1>4, <2>1 DEF AbortAcknowledged
    <2>2. CASE AbortFailed /\ kids[active.lease].at = "none"
      BY <1>4, <2>2 DEF AbortFailed
    <2>3. CASE AbortFailed /\ kids[active.lease].at # "none"
      <3> DEFINE k == active.lease
                 r == [kids[k] EXCEPT !.shut = TRUE]
                 ks == [kids EXCEPT ![k] = r]
      <3>1. Interrupted(Unlease(ks, k))
        BY <2>3 DEF AbortFailed
      <3>2. k \in Child /\ kids[k] \in Kid
        BY <1>3, <1>4
      <3> HIDE DEF k
      <3>3. r \in Kid /\ r.at = kids[k].at /\ r.leased = kids[k].leased
        BY <3>2 DEF Kid
      <3> HIDE DEF r
      <3>4. ks \in [Child -> Kid] /\ ks[k] = r /\ \A j \in Child \ {k} : ks[j] = kids[j]
        BY <1>4, <3>2, <3>3
      <3> HIDE DEF ks
      <3>5. KidsSound(ks) /\ \A j \in Child : ks[j].leased => kids[j].leased
        BY <1>4, <3>2, <3>3, <3>4 DEF KidsSound
      <3> QED BY <3>1, <3>5 DEF k
    <2> QED BY <2>1, <2>2, <2>3
  <1> DEFINE kt == Unlease(ks, active.lease)
  <1>6. KidsSound(kt) /\ Unleased(ks, active.lease, kt)
    BY <1>3, <1>5, UnleaseIdles
  <1>7. \A k \in Child : kt[k].leased => kids[k].leased /\ k # active.lease
    BY <1>5, <1>6 DEF Unleased
  <1>8. Interrupted(kt)
    BY <1>5
  <1> HIDE DEF kt
  <1>9. /\ Goto(IF call.at = "aborting" THEN "admit" ELSE "retiring")
        /\ kids' = kt \/ kids' = RetireConversation(kt)
    BY <1>8 DEF Interrupted
  <1>10. KidsSound(kids') /\ \A k \in Child : kids'[k].leased => kt[k].leased
    BY <1>6, <1>9, RetireConversationIdles
  <1>11. /\ active' = None
         /\ UNCHANGED <<bounds, durable, buffer, chain, sending, recovering, phase, written>>
    BY DEF AbortAcknowledged, AbortFailed
  <1> QED BY <1>1, <1>7, <1>9, <1>10, <1>11, AbortEnds

LEMMA AdmitRedelivers ==
    ASSUME Inv, call.at = "admit", active = None, AdmitSaved(Head(chain)),
           UNCHANGED <<bounds, recovering, phase>>
    PROVE  Inv' /\ RowsKeep(rows, rows')
  <1> USE DEF durable
  <1> DEFINE h == Head(chain)
             c == rows[h].corr
  <1>1. /\ Goto("redelivering") /\ UNCHANGED <<durable, buffer, chain, kids, sending, written>>
        /\ active' = [corr |-> c, lease |-> None, followUps |-> 0, terminal |-> TRUE]
    BY DEF AdmitSaved
  <1>2. call' \in Call /\ call'.at = "redelivering"
    BY <1>1, GotoTypes DEF CallStep
  <1>3. h \in Message
    BY HeadMessage
  <1>4. /\ TurnsSound(rows, outbox, active, call, h, kids, phase, written, Saying)
        /\ ~died => Unfinished(rows, outbox, call, h, active, Saying, Joining)
        /\ StoreSound(rows, outbox)
    BY DEF Inv
  <1>5. rows[h] # NoRow /\ rows[h].delivery # "pending"
    BY DEF AdmitSaved, BeginKind
  <1>6. rows[h] \in Row
    BY <1>3, <1>4, <1>5 DEF StoreSound
  <1>7. c \in Message
    BY <1>6 DEF Row, RowType
  <1>8. rows[c] # NoRow /\ rows[c].corr = c /\ outbox[c] # <<>>
    BY <1>3, <1>4, <1>5 DEF StoreSound, Answered, SchemaHolds
  <1> HIDE DEF c
  <1>9. active' \in Turn /\ active'.corr = c /\ active'.lease = None /\ active'.terminal = TRUE
    BY <1>1, <1>7 DEF Turn
  <1>10. active' # None
    BY <1>9, Markers
  <1>11. Typed(buffer', active', chain', call', sending', recovering', phase')
    BY <1>1, <1>2, <1>9 DEF Inv, Typed
  <1>12. ControlSound(chain', call', phase', active', sending', recovering', outbox')
    <2>1. phase # "down"
      BY HeadMessage DEF Inv, ControlSound
    <2> QED BY <1>1, <1>2, <2>1 DEF Inv, ControlSound
  <1> HIDE DEF h
  <1>13. /\ call'.at \notin Fresh /\ call'.at \notin Prompts \cup Appends /\ call'.at \notin Appends
         /\ call.at \notin Appends /\ call.at \notin Busy
    BY <1>2 DEF Fresh, Prompts, Appends, Busy, Aborts
  <1>14. CallSound(call', h, active', rows, Saying)
    BY <1>2, <1>9, <1>10, <1>13 DEF CallSound, Aborts
  <1>15. TurnSound(active', rows, outbox, call', h, kids, phase)
    BY <1>2, <1>8, <1>9 DEF TurnSound, Claimed
  <1>16. LeasesHeld(kids, active', call', h, rows)
    BY <1>4, <1>13 DEF TurnsSound, LeasesHeld
  <1>17. WrittenSound(written, rows, call', h)
    BY <1>2, <1>4 DEF TurnsSound, WrittenSound
  <1>18. TurnsSound(rows', outbox', active', call', Head(chain'), kids', phase', written', Saying)
    BY <1>1, <1>4, <1>14, <1>15, <1>16, <1>17 DEF TurnsSound, h
  <1>19. ~died => Unfinished(rows, outbox, call', h, active', Saying, Joining)
    BY <1>4, <1>13 DEF Unfinished, Owed
  <1>20. ~died => Unfinished(rows', outbox', call', Head(chain'), active', Saying, Joining)
    BY <1>1, <1>19 DEF h
  <1>21. Inv'
    BY <1>1, <1>4, <1>11, <1>12, <1>18, <1>20, Assembled
  <1> QED BY <1>1, <1>21, RowsUnmoved

-----------------------------------------------------------------------------
(***************************************************************************)
(* The acknowledgement of a prompt or of an append.                        *)
(***************************************************************************)

LEMMA AckReturns ==
    ASSUME Inv, call.at \in {"prompted", "appended"}, Return,
           rows' = IF IngestPending(rows, Head(chain))
                   THEN MarkIngestComplete(rows, Head(chain)) ELSE rows,
           KidsSound(kids'), active # None => kids' = kids,
           \A k \in Child : kids'[k].leased => active # None /\ active.lease = k,
           UNCHANGED <<bounds, outbox, buffer, active, sending, recovering, phase, written>>
    PROVE  Inv' /\ RowsKeep(rows, rows')
  <1> DEFINE h == Head(chain)
             g == Head(chain')
  <1>1. /\ chain' \in Seq(Message) /\ call' \in Call
        /\ chain' = <<>> <=> call'.at = "none"
        /\ call'.at \in {"none", "begin"}
    BY ReturnTypes
  <1>2. h \in Message /\ phase # "down"
    BY HeadMessage DEF Inv, ControlSound
  <1>3. /\ TurnsSound(rows, outbox, active, call, h, kids, phase, written, Saying)
        /\ ~died => Unfinished(rows, outbox, call, h, active, Saying, Joining)
        /\ StoreSound(rows, outbox)
    BY DEF Inv
  <1>4. /\ StoreSound(rows', outbox) /\ StoreMoves(rows, outbox, rows', outbox)
        /\ RowsKeep(rows, rows') /\ ~IngestPending(rows', h)
    <2>1. CASE IngestPending(rows, h)
      BY <1>2, <1>3, <2>1, IngestStores
    <2>2. CASE ~IngestPending(rows, h)
      BY <1>3, <2>2, StoreUnmoved, RowsUnmoved
    <2> QED BY <2>1, <2>2
  <1>5. Typed(buffer', active', chain', call', sending', recovering', phase')
    BY <1>1 DEF Inv, Typed
  <1>6. ControlSound(chain', call', phase', active', sending', recovering', outbox')
    BY <1>1, <1>2 DEF Inv, ControlSound
  <1> HIDE DEF h, g
  <1>7. OwnCorrelation(rows', Saying)
    BY <1>3, <1>4 DEF TurnsSound, OwnCorrelation, Saying, StoreMoves
  <1>8. /\ call'.at \notin Fresh /\ call'.at \notin Prompts \cup Appends /\ call'.at \notin Appends
        /\ call'.at \notin Aborts \cup {"redelivering", "admit", "prompting"}
        /\ call'.at \notin {"resetting", "retiring"}
        /\ call.at # "prompting" /\ call.at \notin Aborts \cup {"redelivering"}
        /\ call'.at \notin {"acquiring", "append_acquiring", "prompting", "appending"}
        /\ call.at \notin {"acquiring", "retiring"}
    BY <1>1 DEF Fresh, Prompts, Appends, Aborts
  <1>9. CallSound(call', g, active, rows', Saying)
    BY <1>8 DEF CallSound
  <1>10. TurnSound(active, rows', outbox, call', g, kids', phase)
    <2>1. ASSUME active # None
          PROVE  /\ rows'[active.corr] # NoRow /\ rows'[active.corr].corr = active.corr
                 /\ ~active.terminal
      BY <1>4, <1>8, <2>1, TurnFacts DEF StoreMoves, Claimed
    <2>2. ASSUME active # None
          PROVE  InFlight(active, rows', outbox, call', g, kids', phase)
      <3>1. InFlight(active, rows, outbox, call, h, kids, phase) /\ kids' = kids
        BY <2>1, <2>2, TurnFacts DEF h
      <3>2. ASSUME NEW m \in Message, IngestPending(rows', m), rows'[m].corr = active.corr
            PROVE  FALSE
        <4>1. IngestPending(rows, m) /\ rows[m].corr = active.corr
          BY <1>4, <3>2 DEF StoreMoves, IngestPending
        <4>2. m = h
          BY <3>1, <4>1 DEF InFlight
        <4> QED BY <1>4, <3>2, <4>2
      <3> QED BY <1>8, <3>1, <3>2 DEF InFlight
    <2> QED BY <2>1, <2>2 DEF TurnSound
  <1>11. LeasesHeld(kids', active, call', g, rows')
    BY DEF LeasesHeld
  <1>12. WrittenSound(written, rows', call', g)
    BY <1>3, <1>4, <1>8 DEF TurnsSound, WrittenSound, StoreMoves
  <1>13. TurnsSound(rows', outbox', active', call', Head(chain'), kids', phase', written', Saying)
    BY <1>7, <1>9, <1>10, <1>11, <1>12 DEF TurnsSound, g
  <1>14. ASSUME ~died PROVE Unfinished(rows', outbox, call', g, active, Saying, Joining)
    <2>1. Unfinished(rows, outbox, call, h, active, Saying, Joining)
      BY <1>3, <1>14
    <2>2. ASSUME NEW m \in Message, rows'[m] # NoRow
          PROVE  /\ IngestPending(rows', m) => Stranded(m, rows', outbox, Joining)
                 /\ (m \in Saying \/ rows'[m].corr # m) /\ outbox[rows'[m].corr] = <<>> =>
                       active # None /\ ~active.terminal /\ active.corr = rows'[m].corr
      <3>1. rows[m] # NoRow /\ rows'[m].corr = rows[m].corr /\ (IngestPending(rows', m) =>
               IngestPending(rows, m) /\ (outbox[rows[m].corr] = <<>> => outbox'[rows[m].corr] = <<>>))
        BY <1>4, <2>2 DEF StoreMoves
      <3>2. ASSUME IngestPending(rows', m) PROVE Stranded(m, rows', outbox, Joining)
        <4>1. IngestPending(rows, m) /\ Owed(m, rows, outbox, call, h, Joining) /\ m # h
          BY <1>4, <2>1, <3>1, <3>2 DEF Unfinished
        <4> QED BY <3>1, <4>1 DEF Owed, Stranded
      <3>3. (m \in Saying \/ rows'[m].corr # m) /\ outbox[rows'[m].corr] = <<>> =>
               active # None /\ ~active.terminal /\ active.corr = rows'[m].corr
        BY <1>8, <2>1, <3>1 DEF Unfinished
      <3> QED BY <3>2, <3>3
    <2> QED BY <2>2 DEF Unfinished, Owed
  <1>15. ~died => Unfinished(rows', outbox', call', Head(chain'), active', Saying, Joining)
    BY <1>14 DEF g
  <1>16. StoreSound(rows', outbox')
    BY <1>4
  <1>17. Inv'
    BY <1>5, <1>6, <1>13, <1>15, <1>16, Assembled
  <1> QED BY <1>4, <1>17

LEMMA PromptAcknowledgedSteps ==
    ASSUME Inv, PromptAcknowledged
    PROVE  Inv' /\ RowsKeep(rows, rows')
  <1>1. call.at = "prompted" /\ call.at \notin Appends
    BY DEF PromptAcknowledged, Appends
  <1>2. /\ kids' = kids /\ Return
        /\ rows' = IF IngestPending(rows, Head(chain))
                   THEN MarkIngestComplete(rows, Head(chain)) ELSE rows
        /\ UNCHANGED <<bounds, outbox, buffer, active, sending, recovering, phase, written>>
    BY DEF PromptAcknowledged
  <1>3. \A k \in Child : kids[k].leased => active # None /\ active.lease = k
    BY <1>1 DEF Inv, TurnsSound, LeasesHeld
  <1>4. KidsSound(kids)
    BY TurnFacts
  <1> QED BY <1>1, <1>2, <1>3, <1>4, AckReturns

LEMMA AppendAcknowledgedSteps ==
    ASSUME Inv, AppendAcknowledged
    PROVE  Inv' /\ RowsKeep(rows, rows')
  <1>1. call.at = "appended" /\ call.at \in Appends
    BY DEF AppendAcknowledged, Appends
  <1>2. /\ kids' = IF OwnLease THEN Unlease(kids, call.child) ELSE kids
        /\ Return
        /\ rows' = IF IngestPending(rows, Head(chain))
                   THEN MarkIngestComplete(rows, Head(chain)) ELSE rows
        /\ UNCHANGED <<bounds, outbox, buffer, active, sending, recovering, phase, written>>
    BY DEF AppendAcknowledged
  <1>3. /\ CallSound(call, Head(chain), active, rows, Saying)
        /\ LeasesHeld(kids, active, call, Head(chain), rows)
    BY DEF Inv, TurnsSound
  <1>4. KidsSound(kids)
    BY TurnFacts
  <1>5. CASE OwnLease
    <2>1. active = None /\ call.child \in Child
      BY <1>1, <1>3, <1>5 DEF CallSound, OwnLease
    <2>2. KidsSound(kids') /\ Unleased(kids, call.child, kids')
      BY <1>2, <1>4, <1>5, <2>1, UnleaseIdles
    <2>3. \A k \in Child : ~kids'[k].leased
      BY <1>3, <2>1, <2>2 DEF LeasesHeld, Unleased
    <2> QED BY <1>1, <1>2, <2>1, <2>2, <2>3, AckReturns
  <1>6. CASE ~OwnLease
    <2>1. kids' = kids /\ \A k \in Child : kids[k].leased => active # None /\ active.lease = k
      BY <1>2, <1>3, <1>6 DEF LeasesHeld, OwnLease
    <2> QED BY <1>1, <1>2, <1>4, <2>1, AckReturns
  <1> QED BY <1>5, <1>6

-----------------------------------------------------------------------------
(***************************************************************************)
(* The child takes a message.                                              *)
(***************************************************************************)

LEMMA WritesOnce ==
    ASSUME NEW w, NEW rs, NEW cl, NEW dl, NEW h \in Message, WrittenSound(w, rs, cl, h),
           w[h] = 0, rs[h] # NoRow, dl.at \in {"prompted", "appended"},
           NEW v, v = [w EXCEPT ![h] = @ + 1]
    PROVE  WrittenSound(v, rs, dl, h)
  <1>1. w \in [Message -> Nat] /\ \A m \in Message : w[m] <= 1 /\ (rs[m] = NoRow => w[m] = 0)
    BY DEF WrittenSound
  <1> DEFINE n == w[h] + 1
  <1>2. n = 1 /\ n \in Nat
    OBVIOUS
  <1>3. v = [w EXCEPT ![h] = n]
    OBVIOUS
  <1> HIDE DEF n
  <1>4. v \in [Message -> Nat] /\ v[h] = 1 /\ \A m \in Message \ {h} : v[m] = w[m]
    BY <1>1, <1>2, <1>3
  <1>5. ASSUME NEW m \in Message
        PROVE  v[m] <= 1 /\ (rs[m] = NoRow => v[m] = 0)
    <2>1. CASE m = h
      BY <1>4, <2>1
    <2>2. CASE m # h
      <3>1. v[m] = w[m]
        BY <1>4, <2>2
      <3> QED BY <1>1, <3>1
    <2> QED BY <2>1, <2>2
  <1>6. dl.at \notin {"acquiring", "append_acquiring", "prompting", "appending"}
    OBVIOUS
  <1> QED BY <1>4, <1>5, <1>6 DEF WrittenSound

LEMMA PromptTakenSteps ==
    ASSUME Inv, PromptTaken
    PROVE  Inv' /\ RowsKeep(rows, rows')
  <1> USE DEF durable
  <1> DEFINE h == Head(chain)
             k == call.child
  <1>1. /\ call.at = "prompting" /\ Goto("prompted")
        /\ kids' = [kids EXCEPT ![k].runs = @ + 1]
        /\ written' = [written EXCEPT ![h] = @ + 1]
        /\ UNCHANGED <<bounds, durable, buffer, active, chain, sending, recovering, phase>>
    BY DEF PromptTaken
  <1>2. call' \in Call /\ call'.at = "prompted" /\ call'.child = k
    BY <1>1, GotoTypes DEF CallStep
  <1>3. h \in Message
    BY <1>1, HeadMessage
  <1>4. /\ TurnsSound(rows, outbox, active, call, h, kids, phase, written, Saying)
        /\ ~died => Unfinished(rows, outbox, call, h, active, Saying, Joining)
        /\ StoreSound(rows, outbox)
    BY DEF Inv
  <1>5. /\ k \in Child /\ rows[h] # NoRow
        /\ active # None => active.corr = rows[h].corr /\ active.lease = k
    BY <1>1, <1>4 DEF TurnsSound, CallSound, Prompts
  <1>6. KidsSound(kids) /\ kids \in [Child -> Kid]
    BY TurnFacts
  <1>7. kids[k] \in Kid /\ kids[k].runs \in Nat
    BY <1>5, <1>6 DEF Kid
  <1> DEFINE n == kids[k].runs + 1
             r == [kids[k] EXCEPT !.runs = n]
  <1>8. n \in Nat
    BY <1>7
  <1>9. kids' = [kids EXCEPT ![k] = r]
    BY <1>1
  <1> HIDE DEF n, k, h
  <1>10. r \in Kid /\ r.at = kids[k].at /\ r.leased = kids[k].leased /\ r.runs = n
    BY <1>7, <1>8 DEF Kid
  <1> HIDE DEF r
  <1>11. kids' \in [Child -> Kid] /\ kids'[k] = r /\ \A j \in Child \ {k} : kids'[j] = kids[j]
    BY <1>5, <1>6, <1>9, <1>10
  <1>12. KidsSound(kids') /\ \A j \in Child : kids'[j].leased => kids[j].leased
    BY <1>5, <1>6, <1>10, <1>11 DEF KidsSound
  <1>13. Typed(buffer', active', chain', call', sending', recovering', phase')
    BY <1>1, <1>2 DEF Inv, Typed
  <1>14. ControlSound(chain', call', phase', active', sending', recovering', outbox')
    BY <1>1, <1>2 DEF Inv, ControlSound
  <1>15. /\ call'.at \in Prompts \cup Appends /\ call'.at \notin Fresh /\ call'.at \notin Appends
         /\ call.at \notin Appends /\ call.at \in Busy /\ call'.at \in Busy
         /\ call'.at \notin Aborts \cup {"redelivering", "resetting", "retiring", "admit"}
    BY <1>1, <1>2 DEF Prompts, Appends, Fresh, Busy, Aborts
  <1>16. CallSound(call', h, active, rows, Saying)
    BY <1>2, <1>5, <1>15 DEF CallSound
  <1>17. TurnSound(active, rows, outbox, call', h, kids', phase)
    <2>1. ASSUME active # None
          PROVE  ~active.terminal
      BY <1>1, <2>1, TurnFacts DEF Claimed, Aborts
    <2>2. ASSUME active # None
          PROVE  InFlight(active, rows, outbox, call', h, kids', phase)
      <3>1. InFlight(active, rows, outbox, call, h, kids, phase) /\ active.lease = k
        BY <1>5, <2>1, <2>2, TurnFacts DEF h
      <3>2. kids[k].runs + 1 > active.followUps
        BY <1>1, <3>1 DEF InFlight
      <3>3. active.followUps \in Nat
        BY <2>2, TurnFacts
      <3>4. r.runs + 0 > active.followUps
        BY <1>8, <1>10, <3>2, <3>3 DEF n
      <3>5. r.at # "none" /\ (phase = "up" => r.leased)
        BY <1>10, <3>1 DEF InFlight
      <3>6. \A m \in Message : IngestPending(rows, m) /\ rows[m].corr = active.corr =>
               call'.at \in Prompts \cup Appends /\ m = h
        BY <1>15, <3>1 DEF InFlight
      <3> QED BY <1>2, <1>11, <3>1, <3>4, <3>5, <3>6 DEF InFlight
    <2> QED BY <2>1, <2>2, TurnFacts DEF TurnSound
  <1>18. LeasesHeld(kids', active, call', h, rows)
    BY <1>4, <1>12, <1>15 DEF TurnsSound, LeasesHeld
  <1>19. WrittenSound(written', rows, call', h)
    <2>1. WrittenSound(written, rows, call, h)
      BY <1>4 DEF TurnsSound
    <2>2. written[h] = 0
      BY <1>1, <2>1 DEF WrittenSound
    <2>3. written' = [written EXCEPT ![h] = @ + 1]
      BY <1>1 DEF h
    <2> QED BY <1>2, <1>3, <1>5, <2>1, <2>2, <2>3, WritesOnce
  <1>20. TurnsSound(rows', outbox', active', call', Head(chain'), kids', phase', written', Saying)
    BY <1>1, <1>4, <1>12, <1>16, <1>17, <1>18, <1>19 DEF TurnsSound, h
  <1>21. ~died => Unfinished(rows, outbox, call', h, active, Saying, Joining)
    BY <1>1, <1>4, <1>15 DEF Unfinished, Owed
  <1>22. ~died => Unfinished(rows', outbox', call', Head(chain'), active', Saying, Joining)
    BY <1>1, <1>21 DEF h
  <1>23. Inv'
    BY <1>1, <1>4, <1>13, <1>14, <1>20, <1>22, Assembled
  <1> QED BY <1>1, <1>23, RowsUnmoved

LEMMA AppendTakenSteps ==
    ASSUME Inv, AppendTaken
    PROVE  Inv' /\ RowsKeep(rows, rows')
  <1> USE DEF durable
  <1> DEFINE h == Head(chain)
  <1>1. /\ call.at = "appending" /\ Goto("appended")
        /\ written' = [written EXCEPT ![h] = @ + 1]
        /\ UNCHANGED <<bounds, durable, buffer, active, chain, kids, sending, recovering, phase>>
    BY DEF AppendTaken
  <1>2. call' \in Call /\ call'.at = "appended" /\ call'.child = call.child
    BY <1>1, GotoTypes DEF CallStep
  <1>3. h \in Message
    BY <1>1, HeadMessage
  <1>4. /\ TurnsSound(rows, outbox, active, call, h, kids, phase, written, Saying)
        /\ ~died => Unfinished(rows, outbox, call, h, active, Saying, Joining)
        /\ StoreSound(rows, outbox)
    BY DEF Inv
  <1>5. /\ call'.at \in Prompts \cup Appends /\ call'.at \notin Fresh /\ call'.at \in Appends
        /\ call.at \in Prompts \cup Appends /\ call.at \in Appends /\ call.at \in Busy
        /\ call'.at \in Busy
        /\ call'.at \notin Aborts \cup {"redelivering", "resetting", "retiring", "admit"}
    BY <1>1, <1>2 DEF Prompts, Appends, Fresh, Busy, Aborts
  <1>6. Typed(buffer', active', chain', call', sending', recovering', phase')
    BY <1>1, <1>2 DEF Inv, Typed
  <1>7. ControlSound(chain', call', phase', active', sending', recovering', outbox')
    BY <1>1, <1>2 DEF Inv, ControlSound
  <1> HIDE DEF h
  <1>8. CallSound(call', h, active, rows, Saying) /\ rows[h] # NoRow
    BY <1>2, <1>4, <1>5 DEF TurnsSound, CallSound
  <1>9. TurnSound(active, rows, outbox, call', h, kids, phase)
    <2>1. active # None => ~active.terminal
      BY <1>1, TurnFacts DEF Claimed, Aborts
    <2>2. ASSUME active # None
          PROVE  InFlight(active, rows, outbox, call', h, kids, phase)
      <3>1. InFlight(active, rows, outbox, call, h, kids, phase)
        BY <2>1, <2>2, TurnFacts DEF h
      <3> QED BY <1>1, <1>2, <1>5, <3>1 DEF InFlight
    <2> QED BY <2>1, <2>2, TurnFacts DEF TurnSound
  <1>10. LeasesHeld(kids, active, call', h, rows)
    BY <1>2, <1>4, <1>5 DEF TurnsSound, LeasesHeld
  <1>11. WrittenSound(written', rows, call', h)
    <2>1. WrittenSound(written, rows, call, h)
      BY <1>4 DEF TurnsSound
    <2>2. written[h] = 0
      BY <1>1, <2>1 DEF WrittenSound
    <2>3. written' = [written EXCEPT ![h] = @ + 1]
      BY <1>1 DEF h
    <2> QED BY <1>2, <1>3, <1>8, <2>1, <2>2, <2>3, WritesOnce
  <1>12. TurnsSound(rows', outbox', active', call', Head(chain'), kids', phase', written', Saying)
    BY <1>1, <1>4, <1>8, <1>9, <1>10, <1>11 DEF TurnsSound, h
  <1>13. ~died => Unfinished(rows, outbox, call', h, active, Saying, Joining)
    BY <1>1, <1>4, <1>5 DEF Unfinished, Owed
  <1>14. ~died => Unfinished(rows', outbox', call', Head(chain'), active', Saying, Joining)
    BY <1>1, <1>13 DEF h
  <1>15. Inv'
    BY <1>1, <1>4, <1>6, <1>7, <1>12, <1>14, Assembled
  <1> QED BY <1>1, <1>15, RowsUnmoved

-----------------------------------------------------------------------------
(***************************************************************************)
(* The admission of a new message.                                         *)
(***************************************************************************)

LEMMA CreatedFacts ==
    ASSUME Inv, call.at = "admit", rows[Head(chain)] = NoRow,
           rows' = Insert(rows, Head(chain), "own", IF active = None THEN Head(chain) ELSE active.corr)
    PROVE  /\ Head(chain) \in Message /\ phase # "down"
           /\ StoreSound(rows', outbox) /\ RowsKeep(rows, rows')
           /\ IngestPending(rows', Head(chain)) /\ rows'[Head(chain)] # NoRow
           /\ rows'[Head(chain)].corr = IF active = None THEN Head(chain) ELSE active.corr
           /\ \A n \in Message : n # Head(chain) => rows'[n] = rows[n]
           /\ active # None =>
                 /\ ~active.terminal /\ active.corr # Head(chain) /\ Head(chain) \notin Saying
                 /\ InFlight(active, rows, outbox, call, Head(chain), kids, phase)
           /\ OwnCorrelation(rows', Saying)
           /\ written[Head(chain)] = 0
           /\ \A k \in Child : kids[k].leased => active # None /\ active.lease = k
           /\ \A n \in Message : rows[n] # NoRow => rows[n].corr # Head(chain)
           /\ ~died => \A n \in Message : IngestPending(rows, n) =>
                                               Stranded(n, rows, outbox, Joining)
  <1> DEFINE h == Head(chain)
             c == IF active = None THEN h ELSE active.corr
  <1>1. h \in Message /\ phase # "down"
    BY HeadMessage DEF Inv, ControlSound
  <1>2. /\ TurnsSound(rows, outbox, active, call, h, kids, phase, written, Saying)
        /\ ~died => Unfinished(rows, outbox, call, h, active, Saying, Joining)
        /\ StoreSound(rows, outbox)
    BY DEF Inv
  <1>3. ASSUME active # None
        PROVE  /\ active.corr \in Message /\ rows[active.corr] # NoRow
               /\ rows[active.corr].corr = active.corr
               /\ ~active.terminal /\ active.corr # h /\ h \notin Saying
               /\ InFlight(active, rows, outbox, call, h, kids, phase)
    <2>1. ~active.terminal
      BY <1>3, TurnFacts DEF Claimed, Aborts
    <2>2. h \notin Saying
      BY <1>2, <1>3 DEF TurnsSound, CallSound
    <2> QED BY <1>3, <2>1, <2>2, TurnFacts
  <1>4. /\ c \in Message
        /\ c = h \/ (c # h /\ rows[c] # NoRow /\ rows[c].corr = c /\ outbox[c] = <<>>)
    BY <1>1, <1>3 DEF InFlight
  <1>5. rows' = Insert(rows, h, "own", c)
    OBVIOUS
  <1> HIDE DEF c
  <1>6. /\ StoreSound(rows', outbox) /\ RowsKeep(rows, rows')
        /\ IngestPending(rows', h) /\ rows'[h] # NoRow /\ rows'[h].corr = c
        /\ \A n \in Message : n # h => rows'[n] = rows[n]
    BY <1>1, <1>2, <1>4, <1>5, InsertStores
  <1>7. OwnCorrelation(rows', Saying)
    <2>1. h \in Saying => c = h
      BY <1>3 DEF c
    <2> QED BY <1>2, <1>6, <2>1 DEF TurnsSound, OwnCorrelation, Saying
  <1>8. written[h] = 0
    BY <1>1, <1>2 DEF TurnsSound, WrittenSound
  <1>9. \A k \in Child : kids[k].leased => active # None /\ active.lease = k
    BY <1>2 DEF TurnsSound, LeasesHeld, Appends
  <1>10. \A n \in Message : rows[n] # NoRow => rows[n].corr # h
    BY <1>2 DEF StoreSound
  <1>11. ~died => \A n \in Message : IngestPending(rows, n) => Stranded(n, rows, outbox, Joining)
    BY <1>2 DEF Unfinished, Owed, IngestPending, Busy, Fresh, Prompts, Appends
  <1> QED BY <1>1, <1>3, <1>6, <1>7, <1>8, <1>9, <1>10, <1>11 DEF c

\* A message that starts a correlation of its own.
LEMMA CreatedAlone ==
    ASSUME Inv, call.at = "admit", rows[Head(chain)] = NoRow, active = None,
           rows' = Insert(rows, Head(chain), "own", Head(chain)),
           call' \in Call, call'.at \in Fresh \cup {"retiring"},
           call'.at = "append_acquiring" => Head(chain) \notin Saying,
           KidsSound(kids'), \A k \in Child : kids'[k].leased => kids[k].leased,
           buffer' \in BufferType,
           UNCHANGED <<bounds, outbox, active, chain, sending, recovering, phase, written>>
    PROVE  Inv' /\ RowsKeep(rows, rows')
  <1> DEFINE h == Head(chain)
  <1>1. /\ h \in Message /\ phase # "down"
        /\ StoreSound(rows', outbox) /\ RowsKeep(rows, rows')
        /\ IngestPending(rows', h) /\ rows'[h] # NoRow /\ rows'[h].corr = h
        /\ \A n \in Message : n # h => rows'[n] = rows[n]
        /\ OwnCorrelation(rows', Saying)
        /\ written[h] = 0
        /\ \A k \in Child : ~kids[k].leased
        /\ \A n \in Message : rows[n] # NoRow => rows[n].corr # h
        /\ ~died => \A n \in Message : IngestPending(rows, n) => Stranded(n, rows, outbox, Joining)
    BY CreatedFacts
  <1>2. /\ TurnsSound(rows, outbox, active, call, h, kids, phase, written, Saying)
        /\ ~died => Unfinished(rows, outbox, call, h, active, Saying, Joining)
    BY DEF Inv
  <1>3. Typed(buffer', active', chain', call', sending', recovering', phase')
    BY DEF Inv, Typed
  <1>4. /\ call'.at # "none" /\ call'.at \notin Prompts \cup Appends /\ call'.at \notin Appends
        /\ call'.at \notin Aborts \cup {"admit", "redelivering"} /\ call'.at \in Busy
        /\ call'.at \in {"acquiring", "append_acquiring", "retiring"} /\ call'.at # "resetting"
    BY DEF Fresh, Prompts, Appends, Busy, Aborts
  <1>5. ControlSound(chain', call', phase', active', sending', recovering', outbox')
    BY <1>1, <1>4 DEF Inv, ControlSound
  <1> HIDE DEF h
  <1>6. CallSound(call', h, None, rows', Saying)
    BY <1>1, <1>4 DEF CallSound
  <1>7. TurnSound(None, rows', outbox, call', h, kids', phase) /\ LeasesHeld(kids', None, call', h, rows')
    BY <1>1 DEF TurnSound, LeasesHeld
  <1>8. WrittenSound(written, rows', call', h)
    BY <1>1, <1>2 DEF TurnsSound, WrittenSound
  <1>9. TurnsSound(rows', outbox', active', call', Head(chain'), kids', phase', written', Saying)
    BY <1>1, <1>6, <1>7, <1>8 DEF TurnsSound, h
  <1>10. ASSUME ~died PROVE Unfinished(rows', outbox, call', h, None, Saying, Joining)
    <2>1. Unfinished(rows, outbox, call, h, None, Saying, Joining)
      BY <1>2, <1>10
    <2>2. ASSUME NEW m \in Message, rows'[m] # NoRow
          PROVE  /\ IngestPending(rows', m) => Owed(m, rows', outbox, call', h, Joining)
                 /\ (m \in Saying \/ rows'[m].corr # m) /\ outbox[rows'[m].corr] = <<>> =>
                       call'.at \in {"acquiring", "retiring"} /\ m = h
      <3>1. CASE m = h
        <4>1. outbox[rows'[m].corr] = <<>>
          BY <1>1, <3>1 DEF Inv, StoreSound, h
        <4> QED BY <1>1, <1>4, <3>1, <4>1 DEF h, Owed
      <3>2. CASE m # h
        <4>1. /\ rows'[m] = rows[m]
              /\ IngestPending(rows', m) => Stranded(m, rows', outbox, Joining)
          BY <1>1, <1>10, <3>2 DEF IngestPending, Stranded
        <4>2. call.at \notin {"acquiring", "retiring"}
          OBVIOUS
        <4> QED BY <2>1, <2>2, <4>1, <4>2 DEF Unfinished, Owed
      <3> QED BY <3>1, <3>2
    <2> QED BY <2>2 DEF Unfinished
  <1>11. ~died => Unfinished(rows', outbox', call', Head(chain'), active', Saying, Joining)
    BY <1>10 DEF h
  <1>12. StoreSound(rows', outbox')
    BY <1>1
  <1>13. Inv'
    BY <1>3, <1>5, <1>9, <1>11, <1>12, Assembled
  <1> QED BY <1>1, <1>13

\* A message that joins the turn in flight: it is not an addressed one, and its
\* prompt, if it is prompted, is one more run to come.
LEMMA CreatedJoins ==
    ASSUME Inv, call.at = "admit", rows[Head(chain)] = NoRow, active # None,
           rows' = Insert(rows, Head(chain), "own", active.corr),
           call' \in Call, call'.at \in {"appending", "prompting"}, call'.child = active.lease,
           active' \in Turn, active'.corr = active.corr, active'.lease = active.lease,
           active'.terminal = active.terminal,
           active'.followUps = active.followUps + (IF call'.at = "prompting" THEN 1 ELSE 0),
           buffer' \in BufferType,
           UNCHANGED <<bounds, outbox, kids, chain, sending, recovering, phase, written>>
    PROVE  Inv' /\ RowsKeep(rows, rows')
  <1> DEFINE h == Head(chain)
  <1>1. /\ h \in Message /\ phase # "down"
        /\ StoreSound(rows', outbox) /\ RowsKeep(rows, rows')
        /\ IngestPending(rows', h) /\ rows'[h] # NoRow /\ rows'[h].corr = active.corr
        /\ \A n \in Message : n # h => rows'[n] = rows[n]
        /\ ~active.terminal /\ active.corr # h /\ h \notin Saying
        /\ InFlight(active, rows, outbox, call, h, kids, phase)
        /\ OwnCorrelation(rows', Saying)
        /\ written[h] = 0
        /\ \A k \in Child : kids[k].leased => active.lease = k
        /\ ~died => \A n \in Message : IngestPending(rows, n) => Stranded(n, rows, outbox, Joining)
    BY CreatedFacts
  <1>2. /\ TurnsSound(rows, outbox, active, call, h, kids, phase, written, Saying)
        /\ ~died => Unfinished(rows, outbox, call, h, active, Saying, Joining)
    BY DEF Inv
  <1>3. active' # None
    BY Markers
  <1>4. Typed(buffer', active', chain', call', sending', recovering', phase')
    BY DEF Inv, Typed
  <1>5. /\ call'.at # "none" /\ call'.at \in Prompts \cup Appends
        /\ call'.at \notin Aborts \cup {"admit", "redelivering"} /\ call'.at \in Busy
        /\ call'.at \notin Fresh /\ call.at \notin Prompts \cup Appends
    BY DEF Fresh, Prompts, Appends, Busy, Aborts
  <1>6. ControlSound(chain', call', phase', active', sending', recovering', outbox')
    BY <1>1, <1>5 DEF Inv, ControlSound
  <1> HIDE DEF h
  <1>7. active.lease \in Child /\ kids[active.lease].runs \in Nat /\ active.followUps \in Nat
    <2>1. active.lease \in Child
      BY <1>1 DEF InFlight
    <2> QED BY <2>1, TurnFacts DEF Kid
  <1>8. CallSound(call', h, active', rows', Saying)
    BY <1>1, <1>5, <1>7 DEF CallSound
  <1>9. TurnSound(active', rows', outbox, call', h, kids, phase)
    <2>1. rows'[active.corr] # NoRow /\ rows'[active.corr].corr = active.corr
      BY <1>1, TurnFacts
    <2>2. InFlight(active', rows', outbox, call', h, kids, phase)
      <3> DEFINE p == IF call'.at = "prompting" THEN 1 ELSE 0
                 u == kids[active.lease].runs
                 f == active.followUps
      <3>1. u + 0 > f
        BY <1>1 DEF InFlight
      <3>2. p \in Nat /\ active'.followUps = f + p /\ u \in Nat /\ f \in Nat
        BY <1>7
      <3> HIDE DEF p, u, f
      <3>3. u + p > active'.followUps
        BY <3>1, <3>2
      <3>4. ASSUME NEW m \in Message, IngestPending(rows', m), rows'[m].corr = active.corr
            PROVE  m = h
        <4>1. SUFFICES ASSUME m # h PROVE FALSE
          OBVIOUS
        <4>2. IngestPending(rows, m) /\ rows[m].corr = active.corr
          BY <1>1, <3>4, <4>1 DEF IngestPending
        <4> QED BY <1>1, <1>5, <4>2 DEF InFlight
      <3> QED BY <1>1, <1>5, <3>3, <3>4 DEF InFlight, p, u
    <2> QED BY <1>1, <2>1, <2>2 DEF TurnSound
  <1>10. LeasesHeld(kids, active', call', h, rows')
    BY <1>1, <1>3 DEF LeasesHeld
  <1>11. WrittenSound(written, rows', call', h)
    BY <1>1, <1>2 DEF TurnsSound, WrittenSound
  <1>12. TurnsSound(rows', outbox', active', call', Head(chain'), kids', phase', written', Saying)
    BY <1>1, <1>2, <1>8, <1>9, <1>10, <1>11 DEF TurnsSound, h
  <1>13. ASSUME ~died PROVE Unfinished(rows', outbox, call', h, active', Saying, Joining)
    <2>1. Unfinished(rows, outbox, call, h, active, Saying, Joining)
      BY <1>2, <1>13
    <2>2. ASSUME NEW m \in Message, rows'[m] # NoRow
          PROVE  /\ IngestPending(rows', m) => Owed(m, rows', outbox, call', h, Joining)
                 /\ (m \in Saying \/ rows'[m].corr # m) /\ outbox[rows'[m].corr] = <<>> =>
                       active' # None /\ ~active'.terminal /\ active'.corr = rows'[m].corr
      <3>1. CASE m = h
        BY <1>1, <1>3, <1>5, <3>1 DEF Owed, InFlight
      <3>2. CASE m # h
        <4>1. /\ rows'[m] = rows[m]
              /\ IngestPending(rows', m) => Stranded(m, rows', outbox, Joining)
          BY <1>1, <1>13, <3>2 DEF IngestPending, Stranded
        <4>2. call.at \notin {"acquiring", "retiring"}
          OBVIOUS
        <4> QED BY <1>3, <2>1, <2>2, <4>1, <4>2 DEF Unfinished, Owed
      <3> QED BY <3>1, <3>2
    <2> QED BY <2>2 DEF Unfinished
  <1>14. ~died => Unfinished(rows', outbox', call', Head(chain'), active', Saying, Joining)
    BY <1>13 DEF h
  <1>15. StoreSound(rows', outbox')
    BY <1>1
  <1>16. Inv'
    BY <1>4, <1>6, <1>12, <1>14, <1>15, Assembled
  <1> QED BY <1>1, <1>16

LEMMA AdmitCreatedSteps ==
    ASSUME Inv, call.at = "admit", AdmitCreated(Head(chain)),
           UNCHANGED <<bounds, recovering, phase>>
    PROVE  Inv' /\ RowsKeep(rows, rows')
  <1> DEFINE h == Head(chain)
             on == Addressed(h)
             mode == ActivationMode(on, active # None)
             after == Ingest(buffer, h, on)
  <1>1. /\ rows' = Insert(rows, h, "own", IF active = None THEN h ELSE active.corr)
        /\ UNCHANGED <<outbox, chain, sending, written>>
    BY DEF AdmitCreated
  <1>2. rows[h] = NoRow
    BY DEF AdmitCreated, BeginKind
  <1>3. h \in Message /\ on \in BOOLEAN /\ (h \in Saying <=> on)
    BY HeadMessage DEF Addressed, Saying
  <1>4. buffer \in BufferType /\ call \in Call /\ active \in Turn \cup {None}
    BY DEF Inv, Typed
  <1>5. mode \in Mode
    BY DEF ActivationMode, Mode
  <1>6. \/ /\ ~Activates(buffer, on) /\ buffer' = after
           /\ call' = IF active = None
                      THEN [call EXCEPT !.at = "append_acquiring"]
                      ELSE [call EXCEPT !.at = "appending", !.child = active.lease]
           /\ UNCHANGED <<active, kids>>
        \/ /\ Activates(buffer, on) /\ IsReset(h) /\ buffer' = after /\ Goto("retiring")
           /\ kids' = RetireConversation(kids)
           /\ UNCHANGED active
        \/ /\ Activates(buffer, on) /\ active = None /\ buffer' = after /\ Goto("acquiring")
           /\ UNCHANGED <<active, kids>>
        \/ /\ Activates(buffer, on) /\ active # None /\ buffer' = RecordInteraction(after)
           /\ active' = [active EXCEPT !.followUps = @ + 1]
           /\ call' = [at |-> "prompting", mode |-> mode, child |-> active.lease]
           /\ UNCHANGED kids
    BY DEF AdmitCreated
  <1>7. active # None => ~active.terminal /\ h \notin Saying
    BY <1>1, <1>2, CreatedFacts
  <1>8. KidsSound(kids)
    BY TurnFacts
  <1> HIDE DEF h, on, mode, after
  <1>9. after \in BufferType
    BY <1>3, <1>4, IngestTypes DEF after
  <1>10. CASE /\ ~Activates(buffer, on) /\ buffer' = after
              /\ call' = IF active = None
                         THEN [call EXCEPT !.at = "append_acquiring"]
                         ELSE [call EXCEPT !.at = "appending", !.child = active.lease]
              /\ UNCHANGED <<active, kids>>
    <2>1. h \notin Saying
      BY <1>3, <1>10 DEF Activates
    <2>2. CASE active = None
      <3>1. call' \in Call /\ call'.at = "append_acquiring"
        BY <1>4, <1>10, <2>2 DEF Call, CallStep
      <3>2. call'.at \in Fresh
        BY <3>1 DEF Fresh
      <3> QED BY <1>1, <1>2, <1>8, <1>9, <1>10, <2>1, <2>2, <3>1, <3>2, CreatedAlone DEF h
    <2>3. CASE active # None
      <3>1. active \in Turn /\ active.lease \in Child \cup {None} /\ active.followUps \in Nat
        BY <2>3, TurnFacts
      <3>2. call' = [call EXCEPT !.at = "appending", !.child = active.lease]
        BY <1>10, <2>3
      <3>3. call' \in Call /\ call'.at = "appending" /\ call'.child = active.lease
        BY <1>4, <3>1, <3>2 DEF Call, CallStep
      <3>4. active' = active /\ active'.followUps = active.followUps + 0
        BY <1>10, <3>1
      <3> QED BY <1>1, <1>2, <1>9, <1>10, <2>3, <3>1, <3>3, <3>4, CreatedJoins DEF h
    <2> QED BY <2>2, <2>3
  <1>11. CASE /\ Activates(buffer, on) /\ IsReset(h) /\ buffer' = after /\ Goto("retiring")
              /\ kids' = RetireConversation(kids)
              /\ UNCHANGED active
    <2>2. active = None
      BY <1>11 DEF AdmitCreated, Supersedes, on, h
    <2>3. call' \in Call /\ call'.at = "retiring"
      BY <1>11, GotoTypes DEF CallStep
    <2>4. call'.at \in Fresh \cup {"retiring"}
      BY <2>3 DEF Fresh
    <2>5. KidsSound(kids') /\ \A k \in Child : kids'[k].leased => kids[k].leased
      BY <1>8, <1>11, RetireConversationIdles
    <2> QED BY <1>1, <1>2, <1>9, <1>11, <2>2, <2>3, <2>4, <2>5, CreatedAlone DEF h
  <1>12. CASE /\ Activates(buffer, on) /\ active = None /\ buffer' = after /\ Goto("acquiring")
              /\ UNCHANGED <<active, kids>>
    <2>1. call' \in Call /\ call'.at = "acquiring"
      BY <1>12, GotoTypes DEF CallStep
    <2>2. call'.at \in Fresh
      BY <2>1 DEF Fresh
    <2> QED BY <1>1, <1>2, <1>8, <1>9, <1>12, <2>1, <2>2, CreatedAlone DEF h
  <1>13. CASE /\ Activates(buffer, on) /\ active # None /\ buffer' = RecordInteraction(after)
              /\ active' = [active EXCEPT !.followUps = @ + 1]
              /\ call' = [at |-> "prompting", mode |-> mode, child |-> active.lease]
              /\ UNCHANGED kids
    <2>1. active \in Turn /\ active.lease \in Child \cup {None} /\ active.followUps \in Nat
      BY <1>13, TurnFacts
    <2>2. call' \in Call /\ call'.at = "prompting" /\ call'.child = active.lease
      BY <1>5, <1>13, <2>1 DEF Call, CallStep
    <2> DEFINE n == active.followUps + 1
    <2>3. n \in Nat
      BY <2>1
    <2>4. active' = [active EXCEPT !.followUps = n]
      BY <1>13
    <2> HIDE DEF n
    <2>5. /\ active' \in Turn /\ active'.corr = active.corr /\ active'.lease = active.lease
          /\ active'.terminal = active.terminal /\ active'.followUps = n
      BY <2>1, <2>3, <2>4 DEF Turn
    <2>6. active'.followUps = active.followUps + 1
      BY <2>5 DEF n
    <2>7. buffer' \in BufferType
      BY <1>9, <1>13, RecordTypes
    <2> QED BY <1>1, <1>2, <1>13, <2>2, <2>5, <2>6, <2>7, CreatedJoins DEF h
  <1> QED BY <1>6, <1>10, <1>11, <1>12, <1>13

\* A reset that joins the turn in flight and takes it down.
LEMMA AdmitSupersedingSteps ==
    ASSUME Inv, call.at = "admit", AdmitSuperseding(Head(chain)),
           UNCHANGED <<bounds, recovering, phase>>
    PROVE  Inv' /\ RowsKeep(rows, rows')
  <1> DEFINE h == Head(chain)
             c == active.corr
  <1>1. /\ rows[h] = NoRow /\ active # None /\ IsReset(h)
        /\ EmitOver(Insert(rows, h, "own", c), c, "turn.cancelled")
        /\ active' = [active EXCEPT !.terminal = TRUE]
        /\ buffer' = Ingest(buffer, h, Addressed(h)) /\ Goto("resetting")
        /\ UNCHANGED <<chain, kids, written>>
    BY DEF AdmitSuperseding, Supersedes, BeginKind
  <1>2. /\ TurnsSound(rows, outbox, active, call, h, kids, phase, written, Saying)
        /\ ~died => Unfinished(rows, outbox, call, h, active, Saying, Joining)
        /\ StoreSound(rows, outbox)
    BY DEF Inv
  <1>3. h \in Message /\ phase # "down"
    BY HeadMessage DEF Inv, ControlSound
  <1>4. ~active.terminal
    BY <1>1, TurnFacts DEF Claimed, Aborts
  <1>5. h \notin Saying
    BY <1>1, <1>2 DEF TurnsSound, CallSound
  <1>6. h \in Joining
    BY <1>1, <1>3, <1>5 DEF Joining, Saying, IsReset, Addressed
  <1>7. /\ active \in Turn /\ c \in Message /\ rows[c] # NoRow /\ rows[c].corr = c
        /\ InFlight(active, rows, outbox, call, h, kids, phase) /\ KidsSound(kids)
        /\ active.lease \in Child
    BY <1>1, <1>4, TurnFacts DEF InFlight
  <1>8. call' \in Call /\ call'.at = "resetting"
    BY <1>1, GotoTypes DEF CallStep
  <1>9. /\ call.at \notin Prompts \cup Appends /\ call.at \notin Busy
        /\ call'.at \notin Prompts \cup Appends /\ call'.at \notin Busy /\ call'.at \notin Fresh
        /\ call'.at \in Aborts /\ call'.at \notin Appends
    BY <1>8 DEF Busy, Prompts, Appends, Fresh, Aborts
  <1>10. /\ NonePending(rows, c) /\ outbox[c] = <<>> /\ c # h
    BY <1>1, <1>7, <1>9 DEF InFlight, NonePending
  <1>11. /\ active' \in Turn /\ active'.corr = c /\ active'.lease = active.lease
         /\ active'.terminal = TRUE
    BY <1>1, <1>7 DEF Turn
  <1>12. active' # None
    BY <1>11, Markers
  <1>13. buffer' \in BufferType
    <2>1. buffer \in BufferType /\ Addressed(h) \in BOOLEAN
      BY DEF Inv, Typed, Addressed
    <2> QED BY <1>1, <1>3, <2>1, IngestTypes
  <1> HIDE DEF c
  <1>14. /\ StoreSound(rows', outbox') /\ RowsKeep(rows, rows')
         /\ rows'[h] # NoRow /\ rows'[h].corr = c
         /\ \A n \in Message : n # h => rows'[n] = rows[n]
         /\ outbox'[c] # <<>> /\ \A n \in Message : outbox[n] # <<>> => outbox'[n] # <<>>
         /\ \A d \in sending' : d \in sending \/ d = c
    BY <1>1, <1>2, <1>3, <1>7, <1>10, SupersedeStores
  <1>15. Typed(buffer', active', chain', call', sending', recovering', phase')
    BY <1>1, <1>7, <1>8, <1>11, <1>13, <1>14 DEF Inv, Typed
  <1>16. ControlSound(chain', call', phase', active', sending', recovering', outbox')
    <2>1. \A d \in sending' \cup recovering' : outbox'[d] # <<>>
      BY <1>14, <1>15 DEF Inv, ControlSound, Typed
    <2>2. chain' # <<>>
      BY <1>1, HeadMessage
    <2> QED BY <1>3, <1>8, <2>1, <2>2 DEF ControlSound
  <1> HIDE DEF h
  <1>17. OwnCorrelation(rows', Saying)
    <2>1. ASSUME NEW n \in Saying, rows'[n] # NoRow PROVE rows'[n].corr = n
      <3>1. n \in Message /\ n # h
        BY <1>5, <2>1 DEF Saying
      <3> QED BY <1>2, <1>14, <2>1, <3>1 DEF TurnsSound, OwnCorrelation
    <2> QED BY <2>1 DEF OwnCorrelation
  <1>18. CallSound(call', h, active', rows', Saying)
    BY <1>8, <1>9, <1>11, <1>12, <1>14 DEF CallSound
  <1>19. TurnSound(active', rows', outbox', call', h, kids, phase)
    <2>1. rows'[c] # NoRow /\ rows'[c].corr = c
      BY <1>7, <1>10, <1>14
    <2> QED BY <1>7, <1>9, <1>11, <1>14, <2>1 DEF TurnSound, Claimed
  <1>20. LeasesHeld(kids, active', call', h, rows')
    BY <1>9, <1>11, <1>12, <1>2 DEF TurnsSound, LeasesHeld
  <1>21. WrittenSound(written, rows', call', h)
    BY <1>2, <1>8, <1>14 DEF TurnsSound, WrittenSound
  <1>22. TurnsSound(rows', outbox', active', call', Head(chain'), kids', phase', written', Saying)
    BY <1>1, <1>2, <1>17, <1>18, <1>19, <1>20, <1>21 DEF TurnsSound, h
  <1>23. ASSUME ~died PROVE Unfinished(rows', outbox', call', h, active', Saying, Joining)
    <2>1. Unfinished(rows, outbox, call, h, active, Saying, Joining)
      BY <1>2, <1>23
    <2>2. ASSUME NEW m \in Message, rows'[m] # NoRow
          PROVE  /\ IngestPending(rows', m) => Stranded(m, rows', outbox', Joining)
                 /\ ~((m \in Saying \/ rows'[m].corr # m) /\ outbox'[rows'[m].corr] = <<>>)
      <3>1. CASE m = h
        BY <1>6, <1>10, <1>14, <3>1 DEF Stranded
      <3>2. CASE m # h
        <4>1. rows'[m] = rows[m] /\ rows[m] # NoRow
          BY <1>14, <2>2, <3>2
        <4>2. rows[m].corr \in Message
          BY <1>2, <4>1 DEF StoreSound, Row, RowType
        <4>3. outbox'[rows[m].corr] = <<>> => outbox[rows[m].corr] = <<>> /\ rows[m].corr # c
          BY <1>14, <4>2
        <4>4. IngestPending(rows', m) => Stranded(m, rows', outbox', Joining)
          BY <1>9, <2>1, <4>1, <4>3 DEF Unfinished, Owed, Stranded, IngestPending
        <4>5. ~((m \in Saying \/ rows'[m].corr # m) /\ outbox'[rows'[m].corr] = <<>>)
          BY <1>9, <2>1, <4>1, <4>3 DEF Unfinished, Busy, c
        <4> QED BY <4>4, <4>5
      <3> QED BY <3>1, <3>2
    <2> QED BY <2>2 DEF Unfinished, Owed
  <1>24. ~died => Unfinished(rows', outbox', call', Head(chain'), active', Saying, Joining)
    BY <1>1, <1>23 DEF h
  <1>25. Inv'
    BY <1>14, <1>15, <1>16, <1>22, <1>24, Assembled
  <1> QED BY <1>14, <1>25

LEMMA AdmitSteps ==
    ASSUME Inv, Admit
    PROVE  Inv' /\ RowsKeep(rows, rows')
  <1>1. call.at = "admit" /\ UNCHANGED <<bounds, recovering, phase>>
    BY DEF Admit
  <1>2. CASE AdmitDuplicate(Head(chain))
    BY <1>1, <1>2, AdmitDuplicateSteps DEF AdmitDuplicate
  <1>3. CASE AdmitInterrupted(Head(chain))
    BY <1>1, <1>3, AdmitInterruptedSteps
  <1>4. CASE AdmitSaved(Head(chain)) /\ active = None
    BY <1>1, <1>4, AdmitRedelivers
  <1>5. CASE AdmitSaved(Head(chain)) /\ active # None
    BY <1>1, <1>5, AdmitDuplicateSteps DEF AdmitSaved
  <1>6. CASE AdmitCreated(Head(chain))
    BY <1>1, <1>6, AdmitCreatedSteps
  <1>7. CASE AdmitSuperseding(Head(chain))
    BY <1>1, <1>7, AdmitSupersedingSteps
  <1> QED BY <1>2, <1>3, <1>4, <1>5, <1>6, <1>7 DEF Admit

-----------------------------------------------------------------------------
(***************************************************************************)
(* A child is leased, for a turn or for an append.                         *)
(***************************************************************************)

LEMMA FreshFacts ==
    ASSUME Inv, call.at \in Fresh
    PROVE  /\ Head(chain) \in Message /\ phase # "down" /\ active = None
           /\ IngestPending(rows, Head(chain)) /\ rows[Head(chain)] # NoRow
           /\ rows[Head(chain)].corr = Head(chain) /\ outbox[Head(chain)] = <<>>
           /\ \A m \in Message : rows[m] # NoRow /\ rows[m].corr = Head(chain) => m = Head(chain)
           /\ \A k \in Child : ~kids[k].leased
  <1> DEFINE h == Head(chain)
  <1>1. call.at # "none" /\ call.at \notin Appends
    BY DEF Fresh, Appends
  <1>2. h \in Message /\ phase # "down"
    BY <1>1, HeadMessage DEF Inv, ControlSound
  <1>3. /\ active = None /\ IngestPending(rows, h) /\ rows[h].corr = h
        /\ \A m \in Message : rows[m] # NoRow /\ rows[m].corr = h => m = h
    BY DEF Inv, TurnsSound, CallSound
  <1>4. rows[h] # NoRow /\ rows[h].ingest = "pending"
    BY <1>3 DEF IngestPending
  <1>5. outbox[h] = <<>>
    BY <1>2, <1>3, <1>4 DEF Inv, StoreSound, Answered
  <1>6. \A k \in Child : ~kids[k].leased
    BY <1>1, <1>3 DEF Inv, TurnsSound, LeasesHeld
  <1> QED BY <1>2, <1>3, <1>4, <1>5, <1>6

LEMMA ActivateSteps ==
    ASSUME Inv, NEW k \in Child, ActivateAcquired(k)
    PROVE  Inv' /\ RowsKeep(rows, rows')
  <1> USE DEF durable
  <1> DEFINE h == Head(chain)
  <1>1. /\ phase = "up" /\ call.at = "acquiring" /\ Available(k)
        /\ kids' = Lease(kids, k)
        /\ active' = [corr |-> rows[h].corr, lease |-> k, followUps |-> 0, terminal |-> FALSE]
        /\ buffer' = RecordInteraction(buffer)
        /\ call' = [at |-> "prompting", mode |-> "prompt", child |-> k]
        /\ UNCHANGED <<bounds, durable, chain, sending, recovering, phase, written>>
    BY DEF ActivateAcquired
  <1>2. call.at \in Fresh
    BY <1>1 DEF Fresh
  <1>3. /\ h \in Message /\ active = None
        /\ IngestPending(rows, h) /\ rows[h] # NoRow /\ rows[h].corr = h /\ outbox[h] = <<>>
        /\ \A m \in Message : rows[m] # NoRow /\ rows[m].corr = h => m = h
        /\ \A j \in Child : ~kids[j].leased
    BY <1>2, FreshFacts
  <1>4. /\ TurnsSound(rows, outbox, active, call, h, kids, phase, written, Saying)
        /\ ~died => Unfinished(rows, outbox, call, h, active, Saying, Joining)
        /\ StoreSound(rows, outbox)
    BY DEF Inv
  <1> HIDE DEF h
  <1>5. /\ active' \in Turn /\ active'.corr = h /\ active'.lease = k /\ active'.followUps = 0
        /\ active'.terminal = FALSE
    BY <1>1, <1>3 DEF Turn
  <1>6. active' # None
    BY <1>5, Markers
  <1>7. call' \in Call /\ call'.at = "prompting" /\ call'.child = k
    BY <1>1 DEF Call, CallStep, Mode
  <1>8. /\ KidsSound(kids') /\ kids'[k].leased /\ kids'[k].at # "none" /\ kids'[k].runs \in Nat
        /\ \A j \in Child : kids'[j].leased => j = k
    BY <1>1, <1>3, TurnFacts, LeaseTakes
  <1>9. Typed(buffer', active', chain', call', sending', recovering', phase')
    BY <1>1, <1>5, <1>7, RecordTypes DEF Inv, Typed
  <1>10. ControlSound(chain', call', phase', active', sending', recovering', outbox')
    BY <1>1, <1>7 DEF Inv, ControlSound
  <1>11. /\ call'.at \in Prompts \cup Appends /\ call'.at \notin Fresh /\ call'.at \notin Appends
         /\ call'.at \in Busy
         /\ call'.at \notin Aborts \cup {"redelivering", "resetting", "retiring", "admit"}
    BY <1>7 DEF Prompts, Appends, Fresh, Busy, Aborts
  <1>12. CallSound(call', h, active', rows, Saying)
    BY <1>3, <1>5, <1>7, <1>11 DEF CallSound
  <1>13. TurnSound(active', rows, outbox, call', h, kids', phase)
    <2>1. kids'[k].runs + 1 > 0
      BY <1>8
    <2>2. InFlight(active', rows, outbox, call', h, kids', phase)
      BY <1>3, <1>5, <1>7, <1>8, <1>11, <2>1 DEF InFlight, IngestPending
    <2> QED BY <1>3, <1>5, <2>2 DEF TurnSound
  <1>14. LeasesHeld(kids', active', call', h, rows)
    BY <1>5, <1>6, <1>8 DEF LeasesHeld
  <1>15. WrittenSound(written, rows, call', h)
    BY <1>1, <1>4, <1>7 DEF TurnsSound, WrittenSound
  <1>16. TurnsSound(rows', outbox', active', call', Head(chain'), kids', phase', written', Saying)
    BY <1>1, <1>4, <1>8, <1>12, <1>13, <1>14, <1>15 DEF TurnsSound, h
  <1>17. ~died => Unfinished(rows, outbox, call', h, active', Saying, Joining)
    BY <1>1, <1>3, <1>4, <1>5, <1>6, <1>11 DEF Unfinished, Owed
  <1>18. ~died => Unfinished(rows', outbox', call', Head(chain'), active', Saying, Joining)
    BY <1>1, <1>17 DEF h
  <1>19. Inv'
    BY <1>1, <1>4, <1>9, <1>10, <1>16, <1>18, Assembled
  <1> QED BY <1>1, <1>19, RowsUnmoved

LEMMA AppendAcquiredSteps ==
    ASSUME Inv, NEW k \in Child, AppendAcquired(k)
    PROVE  Inv' /\ RowsKeep(rows, rows')
  <1> USE DEF durable
  <1> DEFINE h == Head(chain)
  <1>1. /\ phase = "up" /\ call.at = "append_acquiring" /\ Available(k)
        /\ kids' = Lease(kids, k)
        /\ call' = [call EXCEPT !.at = "appending", !.child = k]
        /\ UNCHANGED <<bounds, durable, buffer, active, chain, sending, recovering, phase, written>>
    BY DEF AppendAcquired
  <1>2. call.at \in Fresh
    BY <1>1 DEF Fresh
  <1>3. /\ h \in Message /\ active = None
        /\ IngestPending(rows, h) /\ rows[h] # NoRow /\ rows[h].corr = h
        /\ \A j \in Child : ~kids[j].leased
    BY <1>2, FreshFacts
  <1>4. /\ TurnsSound(rows, outbox, active, call, h, kids, phase, written, Saying)
        /\ ~died => Unfinished(rows, outbox, call, h, active, Saying, Joining)
        /\ StoreSound(rows, outbox)
    BY DEF Inv
  <1> HIDE DEF h
  <1>5. call' \in Call /\ call'.at = "appending" /\ call'.child = k
    BY <1>1 DEF Inv, Typed, Call, CallStep
  <1>6. KidsSound(kids') /\ \A j \in Child : kids'[j].leased => j = k
    BY <1>1, <1>3, TurnFacts, LeaseTakes
  <1>7. Typed(buffer', active', chain', call', sending', recovering', phase')
    BY <1>1, <1>5 DEF Inv, Typed
  <1>8. ControlSound(chain', call', phase', active', sending', recovering', outbox')
    BY <1>1, <1>5 DEF Inv, ControlSound
  <1>9. /\ call'.at \in Prompts \cup Appends /\ call'.at \notin Fresh /\ call'.at \in Appends
        /\ call'.at \in Busy
        /\ call'.at \notin Aborts \cup {"redelivering", "resetting", "retiring", "admit"}
    BY <1>5 DEF Prompts, Appends, Fresh, Busy, Aborts
  <1>10. CallSound(call', h, active, rows, Saying)
    BY <1>3, <1>5, <1>9 DEF CallSound
  <1>11. TurnSound(active, rows, outbox, call', h, kids', phase)
    BY <1>3 DEF TurnSound
  <1>12. LeasesHeld(kids', active, call', h, rows)
    BY <1>3, <1>5, <1>6, <1>9 DEF LeasesHeld
  <1>13. WrittenSound(written, rows, call', h)
    BY <1>1, <1>4, <1>5 DEF TurnsSound, WrittenSound
  <1>14. TurnsSound(rows', outbox', active', call', Head(chain'), kids', phase', written', Saying)
    BY <1>1, <1>4, <1>6, <1>10, <1>11, <1>12, <1>13 DEF TurnsSound, h
  <1>15. ~died => Unfinished(rows, outbox, call', h, active, Saying, Joining)
    BY <1>1, <1>3, <1>4, <1>9 DEF Unfinished, Owed
  <1>16. ~died => Unfinished(rows', outbox', call', Head(chain'), active', Saying, Joining)
    BY <1>1, <1>15 DEF h
  <1>17. Inv'
    BY <1>1, <1>4, <1>7, <1>8, <1>14, <1>16, Assembled
  <1> QED BY <1>1, <1>17, RowsUnmoved

-----------------------------------------------------------------------------
(***************************************************************************)
(* Shutdown, crash and restart.                                            *)
(***************************************************************************)

\* A process that has stopped holds nothing in memory.
LEMMA IdleControl ==
    ASSUME NEW ks, ks = [k \in Child |-> NoChild], NEW rs, NEW ob, NEW h, NEW ph, NEW w, NEW Own,
           OwnCorrelation(rs, Own), w \in [Message -> Nat],
           \A m \in Message : w[m] <= 1 /\ (rs[m] = NoRow => w[m] = 0)
    PROVE  TurnsSound(rs, ob, None, Idle, h, ks, ph, w, Own)
  <1> DEFINE r == NoChild
             cl == Idle
  <1>1. r \in Kid /\ r.leased = FALSE
    BY DEF NoChild, Kid
  <1>2. ks = [k \in Child |-> r]
    OBVIOUS
  <1> HIDE DEF r
  <1>3. KidsSound(ks) /\ \A k \in Child : ~ks[k].leased
    BY <1>1, <1>2 DEF KidsSound
  <1>4. cl.at = "none"
    BY DEF Idle
  <1> HIDE DEF cl
  <1>5. CallSound(cl, h, None, rs, Own)
    BY <1>4 DEF CallSound, Fresh, Prompts, Appends, Aborts
  <1>6. TurnSound(None, rs, ob, cl, h, ks, ph) /\ LeasesHeld(ks, None, cl, h, rs)
    BY <1>3 DEF TurnSound, LeasesHeld
  <1>7. WrittenSound(w, rs, cl, h)
    BY <1>4 DEF WrittenSound
  <1> QED BY <1>3, <1>5, <1>6, <1>7 DEF TurnsSound, cl

LEMMA IdleTypes ==
    ASSUME NEW ph \in {"up", "closing", "down"}, NEW ob
    PROVE  /\ Typed(EmptyBuffer, None, <<>>, Idle, {}, {}, ph)
           /\ ControlSound(<<>>, Idle, ph, None, {}, {}, ob)
  <1>1. EmptyBuffer \in BufferType
    BY BufferAssumption, EmptySeq DEF EmptyBuffer, BufferType
  <1>2. Idle \in Call /\ Idle.at = "none"
    BY DEF Idle, Call, CallStep, Mode
  <1>3. <<>> \in Seq(Message)
    BY EmptySeq
  <1> QED BY <1>1, <1>2, <1>3 DEF Typed, ControlSound

LEMMA ResetMoves ==
    ASSUME Inv, Reset, crashes' \in Nat, died' \in BOOLEAN,
           ~died' => \A m \in Message : rows[m] # NoRow =>
                        /\ IngestPending(rows, m) => Stranded(m, rows, outbox, Joining)
                        /\ ~((m \in Saying \/ rows[m].corr # m) /\ outbox[rows[m].corr] = <<>>)
    PROVE  Inv' /\ RowsKeep(rows, rows')
  <1>1. /\ phase' = "down" /\ buffer' = EmptyBuffer /\ active' = None
        /\ chain' = <<>> /\ call' = Idle /\ kids' = [k \in Child |-> NoChild]
        /\ sending' = {} /\ recovering' = {} /\ kind' = kind /\ posts' = posts
        /\ rows' = rows /\ outbox' = outbox /\ written' = written
    BY DEF Reset, durable
  <1>2. BoundsTyped'
    BY <1>1 DEF Inv, BoundsTyped
  <1> DEFINE ph == "down"
  <1>3. ph \in {"up", "closing", "down"} /\ phase' = ph
    BY <1>1
  <1> HIDE DEF ph
  <1>4. Saying' = Saying /\ Joining' = Joining
    BY <1>1, SayingStays
  <1>5. /\ Typed(EmptyBuffer, None, <<>>, Idle, {}, {}, ph)
        /\ ControlSound(<<>>, Idle, ph, None, {}, {}, outbox)
    BY <1>3, IdleTypes
  <1>6. /\ Typed(buffer', active', chain', call', sending', recovering', phase')
        /\ ControlSound(chain', call', phase', active', sending', recovering', outbox')
    BY <1>1, <1>3, <1>5
  <1>7. /\ OwnCorrelation(rows, Saying) /\ written \in [Message -> Nat]
        /\ \A m \in Message : written[m] <= 1 /\ (rows[m] = NoRow => written[m] = 0)
        /\ StoreSound(rows, outbox)
    BY DEF Inv, TurnsSound, WrittenSound
  <1>8. TurnsSound(rows, outbox, None, Idle, Head(chain'), kids', phase', written, Saying)
    BY <1>1, <1>7, IdleControl
  <1>9. TurnsSound(rows', outbox', active', call', Head(chain'), kids', phase', written', Saying')
    BY <1>1, <1>4, <1>8
  <1>10. ~died' => Unfinished(rows', outbox', call', Head(chain'), active', Saying', Joining')
    BY <1>1, <1>4 DEF Unfinished, Owed
  <1>11. StoreSound(rows', outbox') /\ RowsKeep(rows, rows')
    BY <1>1, <1>7, RowsUnmoved
  <1> QED BY <1>2, <1>6, <1>9, <1>10, <1>11 DEF Inv

\* No turn outlives the drain, because its child has not ended.
LEMMA DrainedIdle ==
    ASSUME Inv, Drained
    PROVE  active = None
  <1>1. call.at = "none"
    BY DEF Inv, ControlSound, Drained
  <1>2. ASSUME active # None PROVE FALSE
    <2>1. ~active.terminal
      BY <1>1, <1>2, TurnFacts DEF Claimed, Aborts
    <2>2. active.lease \in Child /\ kids[active.lease].at # "none"
      BY <1>2, <2>1, TurnFacts DEF InFlight
    <2> QED BY <2>2 DEF Drained
  <1> QED BY <1>2

LEMMA StopSteps ==
    ASSUME Inv, Closed \/ Crash
    PROVE  Inv' /\ RowsKeep(rows, rows')
  <1>1. CASE Closed
    <2>1. Reset /\ crashes' \in Nat /\ died' \in BOOLEAN /\ died' = died
      BY <1>1 DEF Closed, Inv, BoundsTyped
    <2>2. active = None /\ call.at = "none"
      BY <1>1, DrainedIdle DEF Closed, Drained, Inv, ControlSound
    <2>3. ~died => \A m \in Message : rows[m] # NoRow =>
                      /\ IngestPending(rows, m) => Stranded(m, rows, outbox, Joining)
                      /\ ~((m \in Saying \/ rows[m].corr # m) /\ outbox[rows[m].corr] = <<>>)
      BY <2>2 DEF Inv, Unfinished, Owed, Busy, Fresh, Prompts, Appends
    <2> QED BY <2>1, <2>3, ResetMoves
  <1>2. CASE Crash
    <2>1. Reset /\ died' = TRUE /\ crashes' \in Nat
      BY <1>2 DEF Crash, Inv, BoundsTyped
    <2> QED BY <2>1, ResetMoves
  <1> QED BY <1>1, <1>2

LEMMA BootSteps ==
    ASSUME Inv, Boot
    PROVE  Inv' /\ RowsKeep(rows, rows')
  <1> USE DEF durable
  <1> DEFINE h == Head(chain)
  <1>1. /\ phase = "down" /\ phase' = "up"
        /\ UNCHANGED <<bounds, durable, buffer, active, chain, call, kids, sending, written>>
    BY DEF Boot
  <1>2. active = None /\ StoreSound(rows, outbox)
    BY <1>1 DEF Inv, ControlSound
  <1>3. recovering' \subseteq Message /\ \A c \in recovering' : outbox[c] # <<>>
    <2>1. SUFFICES ASSUME NEW c \in recovering' PROVE c \in Message /\ outbox[c] # <<>>
      OBVIOUS
    <2>2. CASE c \in SavedCorrelations(rows)
      <3>1. PICK m \in Message : rows[m] # NoRow /\ rows[m].delivery = "saved" /\ c = rows[m].corr
        BY <2>2 DEF SavedCorrelations, Rows
      <3>2. rows[m] \in Row /\ Answered(m, rows[m], outbox[c])
        BY <1>2, <3>1 DEF StoreSound
      <3> QED BY <3>1, <3>2 DEF Answered, SchemaHolds, Row, RowType
    <2>3. CASE c \notin SavedCorrelations(rows)
      BY <2>3 DEF Boot
    <2> QED BY <2>2, <2>3
  <1>4. Typed(buffer', active', chain', call', sending', recovering', phase')
    BY <1>1, <1>3 DEF Inv, Typed
  <1>5. ControlSound(chain', call', phase', active', sending', recovering', outbox')
    BY <1>1, <1>3 DEF Inv, ControlSound
  <1>6. /\ TurnsSound(rows, outbox, active, call, h, kids, phase, written, Saying)
        /\ ~died => Unfinished(rows, outbox, call, h, active, Saying, Joining)
    BY DEF Inv
  <1> HIDE DEF h
  <1>7. TurnSound(active, rows, outbox, call, h, kids, phase')
    BY <1>2 DEF TurnSound
  <1>8. TurnsSound(rows', outbox', active', call', Head(chain'), kids', phase', written', Saying)
    BY <1>1, <1>6, <1>7 DEF TurnsSound, h
  <1>9. ~died => Unfinished(rows', outbox', call', Head(chain'), active', Saying, Joining)
    BY <1>1, <1>6 DEF h
  <1>10. Inv'
    BY <1>1, <1>2, <1>4, <1>5, <1>8, <1>9, Assembled
  <1> QED BY <1>1, <1>10, RowsUnmoved

-----------------------------------------------------------------------------
(***************************************************************************)
(* The theorems.                                                           *)
(***************************************************************************)

LEMMA InitInv ==
    ASSUME Init
    PROVE  Inv
  <1>1. BoundsTyped
    <2>1. PICK s \in Scenarios : kind = s.kind /\ posts = s.posts /\ crashes = s.crashes
      BY DEF Init
    <2>2. s \in [kind : [Message -> Kind], posts : [Message -> Nat], crashes : Nat]
      BY SupervisorAssumption
    <2> QED BY <2>1, <2>2 DEF Init, BoundsTyped
  <1>2. /\ rows = [m \in Message |-> NoRow] /\ outbox = [c \in Message |-> <<>>]
        /\ buffer = EmptyBuffer /\ active = None /\ chain = <<>> /\ call = Idle
        /\ kids = [k \in Child |-> NoChild] /\ sending = {} /\ recovering = {}
        /\ phase = "up" /\ written = [m \in Message |-> 0]
    BY DEF Init, EmptyStore
  <1> DEFINE ph == "up"
  <1>3. ph \in {"up", "closing", "down"} /\ phase = ph
    BY <1>2
  <1> HIDE DEF ph
  <1>4. /\ Typed(EmptyBuffer, None, <<>>, Idle, {}, {}, ph)
        /\ ControlSound(<<>>, Idle, ph, None, {}, {}, outbox)
    BY <1>3, IdleTypes
  <1>5. /\ Typed(buffer, active, chain, call, sending, recovering, phase)
        /\ ControlSound(chain, call, phase, active, sending, recovering, outbox)
    BY <1>2, <1>3, <1>4
  <1>6. \A m \in Message : rows[m] = NoRow /\ outbox[m] = <<>> /\ written[m] = 0
    BY <1>2
  <1>7. rows \in [Message -> Row \cup {NoRow}] /\ outbox \in [Message -> Seq(OutboxRow)]
    BY <1>2, EmptySeq
  <1>8. StoreSound(rows, outbox)
    BY <1>6, <1>7 DEF StoreSound
  <1>9. written \in [Message -> Nat] /\ \A m \in Message : written[m] <= 1
    BY <1>2
  <1>10. OwnCorrelation(rows, Saying)
    BY <1>6 DEF OwnCorrelation, Saying
  <1>11. TurnsSound(rows, outbox, None, Idle, Head(chain), kids, phase, written, Saying)
    BY <1>2, <1>6, <1>9, <1>10, IdleControl
  <1>12. TurnsSound(rows, outbox, active, call, Head(chain), kids, phase, written, Saying)
    BY <1>2, <1>11
  <1>13. Unfinished(rows, outbox, call, Head(chain), active, Saying, Joining)
    BY <1>6 DEF Unfinished
  <1> QED BY <1>1, <1>5, <1>8, <1>12, <1>13 DEF Inv

LEMMA NextInv ==
    ASSUME Inv, Next
    PROVE  Inv' /\ RowsKeep(rows, rows')
  <1>1. CASE \E m \in Message : ProcessInbound(m)
    BY <1>1, ProcessInboundSteps
  <1>2. CASE BeginSerial
    BY <1>2, BeginSerialSteps
  <1>3. CASE AbortAcknowledged \/ AbortFailed
    BY <1>3, AbortSteps
  <1>4. CASE Admit
    BY <1>4, AdmitSteps
  <1>5. CASE \E k \in Child : ActivateAcquired(k)
    BY <1>5, ActivateSteps
  <1>6. CASE AcquireFailed
    BY <1>6, AcquireFailedSteps
  <1>7. CASE PromptTaken
    BY <1>7, PromptTakenSteps
  <1>8. CASE PromptAcknowledged
    BY <1>8, PromptAcknowledgedSteps
  <1>9. CASE PromptFailed
    BY <1>9, PromptFailedSteps
  <1>10. CASE ResetReply
    BY <1>10, ResetReplySteps
  <1>11. CASE \E k \in Child : AppendAcquired(k)
    BY <1>11, AppendAcquiredSteps
  <1>12. CASE AppendTaken
    BY <1>12, AppendTakenSteps
  <1>13. CASE AppendAcknowledged
    BY <1>13, AppendAcknowledgedSteps
  <1>14. CASE AppendFailed
    BY <1>14, AppendFailedSteps
  <1>15. CASE Redelivered
    BY <1>15, RedeliveredSteps
  <1>16. CASE \E k \in Child, type \in {"turn.reply", "turn.error"} : AgentEnd(k, type)
    BY <1>16, AgentEndSteps
  <1>17. CASE \/ \E k \in Child : ChildOutput(k)
              \/ Tick \/ FlushSettled \/ DismissEngagement
    BY <1>17, BufferSteps
  <1>18. CASE \E k \in Child : ChildExit(k) \/ ChildError(k)
    BY <1>18, ExitSteps
  <1>19. CASE \E k \in Child : Evict(k)
    BY <1>19, EvictSteps
  <1>20. CASE \E c \in Message : Deliver(c) \/ Recover(c)
    BY <1>20, OutcomeSteps
  <1>21. CASE Close
    BY <1>21, CloseSteps
  <1>22. CASE Closed \/ Crash
    BY <1>22, StopSteps
  <1>23. CASE Boot
    BY <1>23, BootSteps
  <1> QED BY <1>1, <1>2, <1>3, <1>4, <1>5, <1>6, <1>7, <1>8, <1>9, <1>10, <1>11, <1>12, <1>13,
             <1>14, <1>15, <1>16, <1>17, <1>18, <1>19, <1>20, <1>21, <1>22, <1>23 DEF Next, Serve

LEMMA StutterInv ==
    ASSUME Inv, UNCHANGED vars
    PROVE  Inv'
  <1>1. buffer' \in BufferType
    BY DEF Inv, Typed, vars
  <1>2. UNCHANGED <<bounds, durable, active, chain, call, kids, sending, recovering, phase, written>>
    BY DEF vars, bounds, durable
  <1> QED BY <1>1, <1>2, BufferMoves

\* The inductive invariant holds of every behaviour of the core.
THEOREM InvariantHolds == Spec => []Inv
  <1>1. Init => Inv
    BY InitInv
  <1>2. Inv /\ [Next]_vars => Inv'
    BY NextInv, StutterInv
  <1> QED BY <1>1, <1>2, PTL DEF Spec

LEMMA InvConsistent ==
    ASSUME Inv
    PROVE  Consistent
  <1>1. TypeOK
    BY InvTypes
  <1>2. OwnCorrelation(rows, Saying)
    BY DEF Inv, TurnsSound
  <1>3. OwnTurn
    BY <1>2 DEF OwnCorrelation, OwnTurn, Saying, Rows
  <1> QED BY <1>1, <1>3 DEF Consistent

LEMMA InvSiblings ==
    ASSUME Inv
    PROVE  SiblingsAnswered
  <1>1. StoreSound(rows, outbox)
    BY DEF Inv
  <1>2. ASSUME NEW m \in Rows(rows)
        PROVE  Answered(m, rows[m], outbox[rows[m].corr])
    BY <1>1, <1>2 DEF StoreSound, Rows
  <1> QED BY <1>2 DEF SiblingsAnswered, Answered

LEMMA InvTurnHeld ==
    ASSUME Inv
    PROVE  TurnHeld
  <1>1. \A k \in Child : kids[k].leased =>
           \/ active # None /\ active.lease = k
           \/ call.child = k /\ call.at \in {"appending", "appended"}
    BY DEF Inv, TurnsSound, LeasesHeld, Appends
  <1>2. ASSUME active # None, ~active.terminal
        PROVE  /\ phase = "up" => kids[active.lease].at = "pooled" /\ kids[active.lease].leased
               /\ call.at # "prompting" => kids[active.lease].at # "none" /\ kids[active.lease].runs > 0
    <2>1. InFlight(active, rows, outbox, call, Head(chain), kids, phase) /\ KidsSound(kids)
      BY <1>2, TurnFacts
    <2>2. active.lease \in Child /\ active.followUps \in Nat
      BY <1>2, <2>1, TurnFacts DEF InFlight
    <2>3. kids[active.lease].runs \in Nat
      BY <2>1, <2>2 DEF KidsSound, Kid
    <2> DEFINE u == kids[active.lease].runs
               f == active.followUps
    <2>4. call.at # "prompting" => u + 0 > f
      BY <2>1 DEF InFlight
    <2>5. u \in Nat /\ f \in Nat
      BY <2>2, <2>3
    <2> HIDE DEF u, f
    <2>6. call.at # "prompting" => u > 0
      BY <2>4, <2>5
    <2> QED BY <2>1, <2>2, <2>6 DEF InFlight, KidsSound, u
  <1> QED BY <1>1, <1>2 DEF TurnHeld, LeaseFollowsTurn, TurnRuns

LEMMA InvSettled ==
    ASSUME Inv
    PROVE  Settled
  <1>1. SUFFICES ASSUME ~died, chain = <<>>, active = None \/ Drained
                 PROVE  /\ active = None
                        /\ \A m \in Rows(rows) :
                              /\ IngestPending(rows, m) =>
                                    kind[m] = "ambient_reset" /\ rows[m].corr # m
                              /\ Addressed(m) \/ rows[m].corr # m => outbox[rows[m].corr] # <<>>
    BY DEF Settled
  <1>2. active = None
    BY <1>1, DrainedIdle
  <1>3. call.at = "none"
    BY <1>1 DEF Inv, ControlSound
  <1>4. Unfinished(rows, outbox, call, Head(chain), active, Saying, Joining)
    BY <1>1 DEF Inv
  <1>5. call.at \notin Busy /\ call.at \notin {"acquiring", "retiring"}
    BY <1>3 DEF Busy, Fresh, Prompts, Appends, Aborts
  <1>6. ASSUME NEW m \in Rows(rows)
        PROVE  /\ IngestPending(rows, m) => kind[m] = "ambient_reset" /\ rows[m].corr # m
               /\ Addressed(m) \/ rows[m].corr # m => outbox[rows[m].corr] # <<>>
    <2>1. m \in Message /\ rows[m] # NoRow /\ (Addressed(m) => m \in Saying)
      BY DEF Rows, Saying
    <2> QED BY <1>2, <1>4, <1>5, <2>1 DEF Unfinished, Owed, Stranded, Joining
  <1> QED BY <1>2, <1>6

\* The state has its types, and an addressed message has a correlation of its own:
\* processInboundSerial interrupts the turn before it reads the active correlation.
THEOREM ConsistentHolds == Spec => []Consistent
  <1>1. Inv => Consistent
    BY InvConsistent
  <1> QED BY <1>1, InvariantHolds, PTL

\* A correlation is answered as a whole: saveResponseForCorrelation leaves every
\* message that joined it with exactly the event the outbox holds.
THEOREM SiblingsAnsweredHolds == Spec => []SiblingsAnswered
  <1>1. Inv => SiblingsAnswered
    BY InvSiblings
  <1> QED BY <1>1, InvariantHolds, PTL

\* Lease and child go with the turn in flight: no path of interruption, failure,
\* reset or redelivery leaks the lease, and a turn has a run to end it.
THEOREM TurnHeldHolds == Spec => []TurnHeld
  <1>1. Inv => TurnHeld
    BY InvTurnHeld
  <1> QED BY <1>1, InvariantHolds, PTL

\* A message reaches the session at most once, however often it is delivered and
\* wherever the core crashed: the row is inserted before the child is asked.
THEOREM WrittenOnceHolds == Spec => []WrittenOnce
  <1>1. Inv => WrittenOnce
    BY DEF Inv, TurnsSound, WrittenSound, WrittenOnce
  <1> QED BY <1>1, InvariantHolds, PTL

\* Short of a crash nothing accepted is forgotten, and no turn outlives closeImpl.
THEOREM SettledHolds == Spec => []Settled
  <1>1. Inv => Settled
    BY InvSettled
  <1> QED BY <1>1, InvariantHolds, PTL

\* The store keeps what it has promised: no step removes a row, moves it to another
\* correlation, replaces its response or takes back a confirmed delivery.
THEOREM RowsKeptHolds == Spec => RowsKept
  <1>1. Inv /\ [Next]_vars =>
           [\A m \in Rows(rows) :
              /\ rows'[m] # NoRow /\ rows'[m].corr = rows[m].corr
              /\ rows[m].response # NoResponse => rows'[m].response = rows[m].response
              /\ rows[m].delivery = "sent" => rows'[m].delivery = "sent"
              /\ rows[m].ingest = "completed" => rows'[m].ingest = "completed"]_vars
    BY NextInv DEF RowsKeep
  <1> QED BY <1>1, InvariantHolds, PTL DEF Spec, RowsKept
=============================================================================
