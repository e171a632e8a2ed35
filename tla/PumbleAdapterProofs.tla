------------------------ MODULE PumbleAdapterProofs ------------------------
(***************************************************************************)
(* Consistent, RightPlace and ExactlyOnce of PumbleAdapter, for every set  *)
(* of messages, every plan and every number of deliveries, failing calls,  *)
(* failing writes and restarts.                                            *)
(*                                                                         *)
(* Where an answer appears is decided when its text is posted, by what     *)
(* targets.json holds then.  The invariant says who stands there: a        *)
(* message that the core took is bound, or is at the head of its           *)
(* conversation's chain, or has ended for good (Reachable), unless it was  *)
(* lost.  How often an answer appears depends on how the step of a         *)
(* rendering, its checkpoints and the record of completed events follow    *)
(* what stands in the channel (TurnSound), and how the file, to which a    *)
(* restart goes back, lags behind memory (FileSound).                      *)
(***************************************************************************)
EXTENDS PumbleAdapter, TLAPS, SequenceTheorems

Pending == {"queued", "posting", "binding"}
AtHead == {"posting", "binding"}
Effects == {"texted", "attach", "attached"}

\* The messages of the chain are those under way; only the first may be at the
\* core, and then it is the latest of its conversation, and the file has a target.
ChainSound ==
    /\ \A m \in Message : inbound[m] \in Pending <=> \E i \in DOMAIN chain : chain[i] = m
    /\ \A m \in Message : inbound[m] \in AtHead =>
          /\ chain # <<>> /\ Head(chain) = m /\ byConversation = m
          /\ targetFile.byConversation # None

\* A target is the correlation's own, in memory and in the file.
Bound == \A m \in Message : /\ byCorrelation[m] \in {None, m}
                            /\ targetFile.byCorrelation[m] \in {None, m}

\* An event is rendered only for a message that the core took.
Reachable ==
    /\ accepted # {} => byConversation # None /\ targetFile.byConversation # None
    /\ \A m \in Message : renders[m] # <<>> => m \in accepted
    /\ \A m \in Message : m \in accepted /\ m \notin lost =>
          byCorrelation[m] = m \/ inbound[m] \in AtHead \/ Finished(m)
    /\ \A m \in forgetting : Finished(m)

\* A turn with answer kind k whose rendering is at step s of queue q, with memory x,
\* checkpoints c, b in the channel and g effects cut off; out: its terminal event
\* was rendered, done: it is completed, bad: a call failed.
Progress(s, q, x, b, out, done) ==
    /\ s # "begin" => q # <<>> /\ Head(q) = "terminal" /\ ~x.terminal
    /\ "terminal" \in x.seen => x.terminal
    /\ out => x.terminal
    /\ done => x.terminal \/ \A i \in DOMAIN q : q[i] # "terminal"
    /\ x.interim /\ s = "begin" /\ ~x.terminal => b.interims > 0

AnsweredBy(k, b) ==
    /\ k \in {"reply", "error"} => b.texts # <<>>
    /\ k = "reply" => b.files > 0

\* A checkpoint is about something that stands in the channel.
Backed(c, b) ==
    /\ "text" \in c => b.texts # <<>>
    /\ "attachment" \in c => b.files > 0

Delivered(k, s, x, c, b, done, bad) ==
    /\ Backed(c, b)
    /\ s \in Effects => b.texts # <<>> /\ k \in {"reply", "error"}
    /\ s = "attached" => b.files > 0
    /\ s = "cleanup" => AnsweredBy(k, b)
    /\ s = "reject" => bad
    /\ (x.terminal \/ done) /\ ~bad => AnsweredBy(k, b)

\* n effects are what g cut off ones account for, and one more once it is on record.
Within(n, g, recorded) == n <= IF recorded THEN g + 1 ELSE g

\* Each effect happened once more often than it was cut off from its checkpoint, if that
\* is there or the event is completed.
OnceEach(s, c, b, g, done) ==
    /\ Within(Len(b.texts), g.text, "text" \in c \/ s = "texted" \/ done)
    /\ Within(b.files, g.attachment, "attachment" \in c \/ s = "attached" \/ done)

\* Without a restart.
Undisturbed(s, x, c, b, done, bad) ==
    /\ done => x.terminal
    /\ "text" \in c => s \in {"attach", "attached", "cleanup", "reject"} \/ x.terminal
    /\ ~bad => b.interims = (IF x.interim /\ s = "begin" /\ ~x.terminal THEN 1 ELSE 0)

TurnSound(k, s, q, x, c, b, g, out, done, bad) ==
    /\ Progress(s, q, x, b, out, done)
    /\ Delivered(k, s, x, c, b, done, bad)
    /\ OnceEach(s, c, b, g, done)

Rendered(m) == [turn |-> m, type |-> "terminal"] \in rendered

TurnsSound ==
    \A m \in Message :
        TurnSound(plan.kind[m], step[m], renders[m], mem[m], checkpoints[m], room[m],
                  gap[m], Rendered(m), Finished(m), m \in failed)

TurnsUndisturbed ==
    crashes = 0 => \A m \in Message :
        Undisturbed(step[m], mem[m], checkpoints[m], room[m], Finished(m), m \in failed)

\* What delivered-events.json says of a turn at step s, with checkpoints c in memory, b in
\* the channel and g effects cut off, holds as well when a restart goes back to it.
FinishedOnFile(m) == [turn |-> m, type |-> "terminal"] \in deliveryFile.completed

OnFile(m, s, c, b, g) ==
    /\ Finished(m) \/ deliveryFile.checkpoints[m] \subseteq c
    /\ Backed(deliveryFile.checkpoints[m], b)
    /\ OnceEach(s, deliveryFile.checkpoints[m], b, g, FinishedOnFile(m))

FileSound ==
    /\ deliveryFile.completed \subseteq completed
    /\ \A m \in Message : OnFile(m, step[m], checkpoints[m], room[m], gap[m])

\* The answers of a turn stand where its message does, ...
PlacedAt(m, texts) == m \notin lost => \A i \in DOMAIN texts : texts[i] = m

Placed == \A m \in Message : PlacedAt(m, room[m].texts)

\* ... and the markers of an ended one are gone.
Cleared ==
    crashes = 0 /\ lost = {} => \A m \in Message :
        mem[m].terminal /\ m \notin failed => markers[m] = {}

Inv == /\ TypeOK /\ ChainSound /\ Bound /\ Reachable
       /\ TurnsSound /\ TurnsUndisturbed /\ FileSound /\ Placed /\ Cleared
-----------------------------------------------------------------------------
(***************************************************************************)
(* The webhook: messages on their way to the core.                         *)
(***************************************************************************)

\* A step that leaves the rendering alone and loses no message twice keeps what
\* is said of it.
LEMMA RenderingKept ==
    ASSUME TurnsSound, TurnsUndisturbed, FileSound, Placed, Cleared,
           UNCHANGED <<plan, renders, step, mem, rendered, completed, checkpoints,
                       deliveryFile, room, markers, failed, gap, crashes>>,
           lost \subseteq lost'
    PROVE  TurnsSound' /\ TurnsUndisturbed' /\ FileSound' /\ Placed' /\ Cleared'
<1>1. TurnsSound'
  BY DEF TurnsSound, Rendered, Finished
<1>2. TurnsUndisturbed'
  BY DEF TurnsUndisturbed, Finished
<1>3. Placed'
  BY DEF Placed, PlacedAt
<1>4. Cleared'
  BY DEF Cleared
<1>5. FileSound'
  BY DEF FileSound, OnFile, FinishedOnFile, Finished
<1> QED BY <1>1, <1>2, <1>3, <1>4, <1>5

\* Targets that are the correlations' own are so in the file, saved or not.
LEMMA TargetFileKept ==
    ASSUME TypeOK, Bound, MaySaveTargets, byConversation' \in Message \cup {None},
           byCorrelation' \in [Message -> Message \cup {None}],
           \A n \in Message : byCorrelation'[n] \in {None, n}
    PROVE  /\ targetFile' \in [byConversation : Message \cup {None},
                              byCorrelation : [Message -> Message \cup {None}]]
           /\ Bound'
           /\ \/ targetFile'.byConversation = byConversation'
              \/ targetFile'.byConversation = targetFile.byConversation
<1>1. CASE SaveTargets
  <2>1. targetFile' = [byConversation |-> byConversation', byCorrelation |-> byCorrelation']
    BY <1>1 DEF SaveTargets
  <2>2. /\ targetFile'.byConversation = byConversation'
        /\ targetFile'.byCorrelation = byCorrelation'
        /\ targetFile' \in [byConversation : Message \cup {None},
                            byCorrelation : [Message -> Message \cup {None}]]
    BY <2>1
  <2> QED BY <2>2 DEF Bound
<1>2. CASE UNCHANGED targetFile
  BY <1>2 DEF TypeOK, Bound
<1> QED BY <1>1, <1>2 DEF MaySaveTargets

\* The first message of the chain leaves it.
LEMMA LeavesKeeps ==
    ASSUME TypeOK, ChainSound, NEW m \in Message, chain # <<>>, Head(chain) = m,
           NEW v \in {"done", "failed"}, Leaves(m, v)
    PROVE  /\ chain' \in Seq(Message) /\ IsInjective(chain')
           /\ inbound' \in [Message -> {"new", "queued", "posting", "binding", "done", "failed"}]
           /\ ChainSound'
           /\ \A n \in Message : n # m => inbound[n] \notin AtHead
<1>1. /\ chain \in Seq(Message) /\ inbound' = [inbound EXCEPT ![m] = v]
      /\ IsInjective(chain) /\ inbound \in [Message -> Pending \cup {"new", "done", "failed"}]
  BY DEF TypeOK, Pending, Leaves
<1>2. /\ chain' = Tail(chain) /\ chain' \in Seq(Message) /\ Len(chain') = Len(chain) - 1
      /\ \A i \in 1 .. Len(chain') : chain'[i] = chain[i + 1]
      /\ Len(chain) \in Nat /\ Len(chain) >= 1 /\ chain[1] = m
  BY <1>1, HeadTailProperties, EmptySeq, LenProperties DEF Leaves
<1>3. DOMAIN chain = 1 .. Len(chain) /\ DOMAIN chain' = 1 .. Len(chain')
  BY <1>1, <1>2, LenProperties
<1>4. \A i, j \in 1 .. Len(chain) : chain[i] = chain[j] => i = j
  BY <1>1, <1>3 DEF IsInjective
<1>5. \A i, j \in 1 .. Len(chain') : chain'[i] = chain'[j] => i = j
  BY <1>2, <1>4
<1>6. IsInjective(chain')
  BY <1>5, <1>3 DEF IsInjective
<1>7. \A n \in Message : n # m => inbound[n] \notin AtHead
  BY <1>1 DEF ChainSound
<1>8. ASSUME NEW n \in Message
      PROVE  inbound'[n] \in Pending <=> \E i \in DOMAIN chain' : chain'[i] = n
  <2>1. inbound[n] \in Pending <=> \E i \in 1 .. Len(chain) : chain[i] = n
    BY <1>3 DEF ChainSound
  <2>2. CASE n = m
    <3>1. inbound'[n] \notin Pending
      BY <2>2, <1>1 DEF Pending
    <3>2. \A i \in 1 .. Len(chain') : chain'[i] # m
      BY <1>2, <1>4
    <3> QED BY <3>1, <3>2, <2>2, <1>3
  <2>3. CASE n # m
    <3>1. inbound'[n] = inbound[n]
      BY <2>3, <1>1
    <3>2. ASSUME NEW i \in 1 .. Len(chain), chain[i] = n
          PROVE  \E j \in 1 .. Len(chain') : chain'[j] = n
      <4>1. i - 1 \in 1 .. Len(chain') /\ chain'[i - 1] = n
        BY <3>2, <1>2, <2>3
      <4> QED BY <4>1
    <3>3. ASSUME NEW j \in 1 .. Len(chain'), chain'[j] = n
          PROVE  \E i \in 1 .. Len(chain) : chain[i] = n
      <4>1. j + 1 \in 1 .. Len(chain) /\ chain[j + 1] = n
        BY <3>3, <1>2
      <4> QED BY <4>1
    <3> QED BY <3>1, <3>2, <3>3, <2>1, <1>3
  <2> QED BY <2>2, <2>3
<1>9. ASSUME NEW n \in Message PROVE inbound'[n] \notin AtHead
  BY <1>1, <1>7 DEF AtHead
<1>10. inbound' \in [Message -> {"new", "queued", "posting", "binding", "done", "failed"}]
  BY <1>1 DEF Pending
<1> QED BY <1>2, <1>6, <1>7, <1>8, <1>9, <1>10 DEF ChainSound

LEMMA NewMessageKeeps ==
    ASSUME Inv, NEW m \in Message, NewMessage(m)
    PROVE  Inv'
<1> USE DEF Inv
<1>1. /\ UNCHANGED <<plan, renders, step, mem, rendered, completed, checkpoints, deliveryFile,
                     room, markers, failed, gap, crashes, lost, forgetting, accepted,
                     byConversation, byCorrelation, targetFile, deliveries, faults>>
      /\ inbound' = [inbound EXCEPT ![m] = "queued"] /\ chain' = Append(chain, m)
      /\ inbound[m] \notin Pending
      /\ posts' = [posts EXCEPT ![m] = @ + 1]
  BY DEF NewMessage, rendering, targets, delivery, records, pumble, history, bounds, Pending
<1>2. /\ chain \in Seq(Message) /\ IsInjective(chain)
      /\ inbound \in [Message -> Pending \cup {"new", "done", "failed"}]
  BY DEF TypeOK, Pending
<1>3. /\ chain' \in Seq(Message) /\ Len(chain') = Len(chain) + 1 /\ Len(chain) \in Nat
      /\ \A i \in 1 .. Len(chain) : chain'[i] = chain[i]
      /\ chain'[Len(chain) + 1] = m
      /\ DOMAIN chain = 1 .. Len(chain) /\ DOMAIN chain' = 1 .. Len(chain')
  BY <1>1, <1>2, AppendProperties, LenProperties
<1>4. \A i \in 1 .. Len(chain) : chain[i] # m
  BY <1>1, <1>3 DEF ChainSound
<1>5. IsInjective(chain')
  <2>1. \A i, j \in 1 .. Len(chain) : chain[i] = chain[j] => i = j
    BY <1>2, <1>3 DEF IsInjective
  <2>2. \A i, j \in 1 .. Len(chain') : chain'[i] = chain'[j] => i = j
    BY <2>1, <1>3, <1>4
  <2> QED BY <2>2, <1>3 DEF IsInjective
<1>6. TypeOK'
  <2>1. posts' \in [Message -> Nat]
    <3>1. posts \in [Message -> Nat] /\ posts[m] + 1 \in Nat
      BY DEF TypeOK
    <3> QED BY <3>1, <1>1
  <2>2. inbound' \in [Message -> {"new", "queued", "posting", "binding", "done", "failed"}]
    BY <1>1 DEF TypeOK
  <2> QED BY <2>1, <2>2, <1>1, <1>3, <1>5 DEF TypeOK
<1>7. ChainSound'
  <2>1. ASSUME NEW n \in Message
        PROVE  inbound'[n] \in Pending <=> \E i \in DOMAIN chain' : chain'[i] = n
    <3>1. CASE n = m
      BY <3>1, <1>1, <1>2, <1>3 DEF Pending
    <3>2. CASE n # m
      <4>1. inbound'[n] = inbound[n]
        BY <3>2, <1>1, <1>2
      <4>2. (\E i \in DOMAIN chain : chain[i] = n) <=> \E i \in DOMAIN chain' : chain'[i] = n
        BY <3>2, <1>3
      <4> QED BY <4>1, <4>2 DEF ChainSound
    <3> QED BY <3>1, <3>2
  <2>2. ASSUME NEW n \in Message, inbound'[n] \in AtHead
        PROVE  /\ chain' # <<>> /\ Head(chain') = n /\ byConversation' = n
               /\ targetFile'.byConversation # None
    <3>1. inbound[n] \in AtHead
      BY <2>2, <1>1, <1>2 DEF AtHead
    <3>2. /\ chain # <<>> /\ Head(chain) = n /\ byConversation = n
          /\ targetFile.byConversation # None
      BY <3>1 DEF ChainSound
    <3>3. Len(chain) >= 1 /\ chain[1] = n
      BY <3>2, <1>2, HeadTailProperties, EmptySeq
    <3>4. chain' # <<>> /\ chain'[1] = n
      BY <3>3, <1>3, EmptySeq
    <3> QED BY <3>4, <3>2, <1>1, <1>3, HeadTailProperties
  <2> QED BY <2>1, <2>2 DEF ChainSound
<1>8. Bound'
  BY <1>1 DEF Bound
<1>9. Reachable'
  <2>1. \A n \in Message : inbound[n] \in AtHead => inbound'[n] \in AtHead
    BY <1>1, <1>2 DEF AtHead, Pending
  <2> QED BY <2>1, <1>1 DEF Reachable, Finished
<1> QED BY <1>1, <1>6, <1>7, <1>8, <1>9, RenderingKept

LEMMA PutByConversationKeeps ==
    ASSUME Inv, NEW m \in Message, PutByConversation(m)
    PROVE  Inv'
<1> USE DEF Inv
<1>1. /\ UNCHANGED <<plan, renders, step, mem, rendered, completed, checkpoints, deliveryFile,
                     room, markers, failed, gap, crashes, lost, forgetting, accepted,
                     byCorrelation, deliveries, faults, chain, posts>>
      /\ inbound' = [inbound EXCEPT ![m] = "posting"] /\ byConversation' = m
      /\ inbound[m] = "queued" /\ chain # <<>> /\ Head(chain) = m
      /\ targetFile' = [byConversation |-> m, byCorrelation |-> byCorrelation]
  BY DEF PutByConversation, MayProceed, SaveTargets, rendering, delivery, records, pumble,
         history, bounds
<1>2. inbound \in [Message -> {"new", "queued", "posting", "binding", "done", "failed"}]
  BY DEF TypeOK
<1>t. /\ targetFile' \in [byConversation : Message \cup {None},
                         byCorrelation : [Message -> Message \cup {None}]]
      /\ targetFile'.byConversation = m /\ targetFile'.byCorrelation = byCorrelation
  BY <1>1 DEF TypeOK
<1>3. TypeOK'
  <2>1. inbound' \in [Message -> {"new", "queued", "posting", "binding", "done", "failed"}]
    BY <1>1, <1>2
  <2>2. byConversation' \in Message \cup {None}
    BY <1>1
  <2> QED BY <2>1, <2>2, <1>1, <1>t DEF TypeOK
<1>4. \A n \in Message : inbound[n] \notin AtHead
  BY <1>1 DEF ChainSound, AtHead
<1>5. ChainSound'
  <2>1. \A n \in Message : inbound'[n] \in Pending <=> inbound[n] \in Pending
    BY <1>1, <1>2 DEF Pending
  <2>2. \A n \in Message : inbound'[n] \in AtHead => n = m
    BY <1>1, <1>2, <1>4
  <2>3. targetFile'.byConversation # None
    BY <1>t, PumbleAssumption
  <2> QED BY <1>1, <2>1, <2>2, <2>3 DEF ChainSound
<1>6. Bound'
  BY <1>1, <1>t DEF Bound
<1>7. Reachable'
  <2>1. byConversation' # None /\ targetFile'.byConversation # None
    BY <1>1, <1>t, PumbleAssumption
  <2> QED BY <2>1, <1>1, <1>4 DEF Reachable, Finished
<1> QED BY <1>1, <1>3, <1>5, <1>6, <1>7, RenderingKept

\* No other message is at the core when a target cannot be put.
LEMMA PutFailsKeeps ==
    ASSUME Inv, NEW m \in Message, PutFails(m)
    PROVE  Inv'
<1> USE DEF Inv
<1>1. /\ UNCHANGED <<plan, renders, step, mem, rendered, completed, checkpoints, deliveryFile,
                     room, markers, failed, gap, crashes, lost, forgetting, accepted,
                     byCorrelation, deliveries, posts>>
      /\ byConversation' \in {byConversation, m} /\ inbound[m] = "queued"
      /\ chain # <<>> /\ Head(chain) = m /\ MaySaveTargets /\ Leaves(m, "failed")
      /\ faults' = faults + 1
  BY DEF PutFails, MayProceed, StoreFault, rendering, delivery, records, pumble, history
<1>2. /\ chain' \in Seq(Message) /\ IsInjective(chain') /\ ChainSound'
      /\ inbound' \in [Message -> {"new", "queued", "posting", "binding", "done", "failed"}]
  BY <1>1, LeavesKeeps
<1>3. \A n \in Message : inbound[n] \notin AtHead
  BY <1>1 DEF ChainSound, AtHead
<1>4. /\ byConversation' \in Message \cup {None}
      /\ byCorrelation' \in [Message -> Message \cup {None}]
      /\ \A n \in Message : byCorrelation'[n] \in {None, n}
      /\ {deliveries', faults', crashes'} \subseteq Nat
  <2>1. {deliveries, faults, crashes} \subseteq Nat /\ byConversation \in Message \cup {None}
    BY DEF TypeOK
  <2>2. {deliveries', faults', crashes'} \subseteq Nat
    BY <1>1, <2>1
  <2>3. byConversation' \in Message \cup {None}
    BY <1>1, <2>1
  <2> QED BY <1>1, <2>2, <2>3 DEF TypeOK, Bound
<1>5. /\ targetFile' \in [byConversation : Message \cup {None},
                         byCorrelation : [Message -> Message \cup {None}]]
      /\ Bound'
      /\ \/ targetFile'.byConversation = byConversation'
         \/ targetFile'.byConversation = targetFile.byConversation
  BY <1>1, <1>4, TargetFileKept
<1>6. TypeOK'
  BY <1>1, <1>2, <1>4, <1>5 DEF TypeOK
<1>7. Reachable'
  <2>1. accepted' # {} => byConversation' # None /\ targetFile'.byConversation # None
    BY <1>1, <1>5, PumbleAssumption DEF Reachable
  <2> QED BY <2>1, <1>1, <1>3 DEF Reachable, Finished
<1> QED BY <1>1, <1>2, <1>5, <1>6, <1>7, RenderingKept

LEMMA CoreAcceptsKeeps ==
    ASSUME Inv, NEW m \in Message, CoreAccepts(m)
    PROVE  Inv'
<1> USE DEF Inv
<1>1. /\ UNCHANGED <<plan, renders, step, mem, rendered, completed, checkpoints, deliveryFile,
                     room, markers, failed, gap, crashes, lost, forgetting, inbound,
                     byConversation, byCorrelation, targetFile, deliveries, faults, chain,
                     posts>>
      /\ accepted' = accepted \cup {m} /\ inbound[m] \in AtHead
  BY DEF CoreAccepts, rendering, delivery, records, pumble, history, bounds, webhook, targets,
         AtHead
<1>2. TypeOK'
  BY <1>1 DEF TypeOK
<1>3. ChainSound' /\ Bound'
  BY <1>1 DEF ChainSound, Bound
<1>4. Reachable'
  <2>1. byConversation' # None /\ targetFile'.byConversation # None
    BY <1>1, PumbleAssumption DEF ChainSound
  <2> QED BY <2>1, <1>1 DEF Reachable, Finished
<1> QED BY <1>1, <1>2, <1>3, <1>4, RenderingKept

LEMMA PostAnsweredKeeps ==
    ASSUME Inv, NEW m \in Message, PostAnswered(m)
    PROVE  Inv'
<1> USE DEF Inv
<1>1. /\ UNCHANGED <<plan, renders, step, mem, rendered, completed, checkpoints, deliveryFile,
                     room, markers, failed, gap, crashes, lost, forgetting, accepted,
                     byConversation, byCorrelation, targetFile, deliveries, faults, chain,
                     posts>>
      /\ inbound' = [inbound EXCEPT ![m] = "binding"] /\ inbound[m] = "posting"
  BY DEF PostAnswered, rendering, delivery, records, pumble, history, bounds, targets
<1>2. inbound \in [Message -> {"new", "queued", "posting", "binding", "done", "failed"}]
  BY DEF TypeOK
<1>3. TypeOK'
  <2>1. inbound' \in [Message -> {"new", "queued", "posting", "binding", "done", "failed"}]
    BY <1>1, <1>2
  <2> QED BY <2>1, <1>1 DEF TypeOK
<1>4. \A n \in Message : /\ inbound'[n] \in AtHead <=> inbound[n] \in AtHead
                         /\ inbound'[n] \in Pending <=> inbound[n] \in Pending
  BY <1>1, <1>2 DEF AtHead, Pending
<1>5. ChainSound' /\ Bound'
  BY <1>1, <1>4 DEF ChainSound, Bound
<1>6. Reachable'
  BY <1>1, <1>4 DEF Reachable, Finished
<1> QED BY <1>1, <1>3, <1>5, <1>6, RenderingKept

\* A message whose post fails after the core took it is lost, unless it is bound.
LEMMA PostFailsKeeps ==
    ASSUME Inv, NEW m \in Message, PostFails(m)
    PROVE  Inv'
<1> USE DEF Inv
<1>1. /\ UNCHANGED <<plan, renders, step, mem, rendered, completed, checkpoints, deliveryFile,
                     room, markers, failed, gap, crashes, forgetting, accepted,
                     byConversation, byCorrelation, targetFile, deliveries, faults, posts>>
      /\ inbound[m] \in AtHead /\ Leaves(m, "failed")
      /\ lost' = IF m \in accepted /\ byCorrelation[m] = None THEN lost \cup {m} ELSE lost
  BY DEF PostFails, rendering, delivery, records, pumble, history, bounds, targets, AtHead
<1>2. chain # <<>> /\ Head(chain) = m
  BY <1>1 DEF ChainSound
<1>3. /\ chain' \in Seq(Message) /\ IsInjective(chain') /\ ChainSound'
      /\ inbound' \in [Message -> {"new", "queued", "posting", "binding", "done", "failed"}]
      /\ \A n \in Message : n # m => inbound[n] \notin AtHead
  BY <1>1, <1>2, LeavesKeeps
<1>4. TypeOK'
  <2>1. lost' \subseteq Message
    BY <1>1 DEF TypeOK
  <2> QED BY <2>1, <1>1, <1>3 DEF TypeOK
<1>5. Bound'
  BY <1>1 DEF Bound
<1>6. Reachable'
  <2>1. ASSUME NEW n \in Message, n \in accepted', n \notin lost'
        PROVE  byCorrelation'[n] = n \/ inbound'[n] \in AtHead \/ Finished(n)'
    <3>1. n \in accepted /\ n \notin lost
      BY <2>1, <1>1
    <3>2. CASE n = m
      BY <2>1, <3>1, <3>2, <1>1 DEF Bound
    <3>3. CASE n # m
      BY <3>1, <3>3, <1>1, <1>3 DEF Reachable, Finished
    <3> QED BY <3>2, <3>3
  <2> QED BY <2>1, <1>1 DEF Reachable, Finished
<1>7. lost \subseteq lost'
  BY <1>1
<1> QED BY <1>1, <1>3, <1>4, <1>5, <1>6, <1>7, RenderingKept

\* The target bound is the conversation's, which is still that of the message; it is in
\* memory whether or not the file could be written.
LEMMA BindKeeps ==
    ASSUME Inv, NEW m \in Message, inbound[m] = "binding", NEW v \in {"done", "failed"},
           Leaves(m, v), faults' \in Nat,
           UNCHANGED <<plan, renders, step, mem, rendered, completed, checkpoints, deliveryFile,
                       room, markers, failed, gap, crashes, forgetting, accepted, lost,
                       byConversation, deliveries, posts>>,
           byCorrelation' =
              [byCorrelation EXCEPT ![m] = IF @ = None THEN byConversation ELSE @],
           MaySaveTargets
    PROVE  Inv'
<1> USE DEF Inv
<1>1. inbound[m] \in AtHead
  BY DEF AtHead
<1>2. /\ chain # <<>> /\ Head(chain) = m /\ byConversation = m
      /\ byCorrelation[m] \in {None, m} /\ targetFile.byConversation # None
  BY <1>1 DEF ChainSound, Bound
<1>3. /\ chain' \in Seq(Message) /\ IsInjective(chain') /\ ChainSound'
      /\ inbound' \in [Message -> {"new", "queued", "posting", "binding", "done", "failed"}]
      /\ \A n \in Message : n # m => inbound[n] \notin AtHead
  BY <1>2, LeavesKeeps
<1>5. byCorrelation' = [byCorrelation EXCEPT ![m] = m]
  BY <1>2
<1>6. byCorrelation \in [Message -> Message \cup {None}]
  BY DEF TypeOK
<1>7. /\ byCorrelation' \in [Message -> Message \cup {None}] /\ byCorrelation'[m] = m
      /\ \A n \in Message : n # m => byCorrelation'[n] = byCorrelation[n]
  BY <1>5, <1>6
<1>8. /\ targetFile' \in [byConversation : Message \cup {None},
                         byCorrelation : [Message -> Message \cup {None}]]
      /\ Bound'
      /\ \/ targetFile'.byConversation = byConversation'
         \/ targetFile'.byConversation = targetFile.byConversation
  <2>1. /\ \A n \in Message : byCorrelation'[n] \in {None, n}
        /\ byConversation' \in Message \cup {None}
    BY <1>7 DEF Bound, TypeOK
  <2> QED BY <2>1, <1>7, TargetFileKept
<1>9. TypeOK'
  <2>1. {deliveries', faults', crashes'} \subseteq Nat
    BY DEF TypeOK
  <2> QED BY <1>3, <1>7, <1>8, <2>1 DEF TypeOK
<1>10. Reachable'
  <2>1. ASSUME NEW n \in Message, n \in accepted', n \notin lost'
        PROVE  byCorrelation'[n] = n \/ inbound'[n] \in AtHead \/ Finished(n)'
    BY <2>1, <1>3, <1>7 DEF Reachable, Finished
  <2>2. byConversation' # None /\ targetFile'.byConversation # None
    BY <1>2, <1>8, PumbleAssumption
  <2> QED BY <2>1, <2>2 DEF Reachable, Finished
<1> QED BY <1>3, <1>8, <1>9, <1>10, RenderingKept

LEMMA BindCorrelationKeeps ==
    ASSUME Inv, NEW m \in Message, BindCorrelation(m) \/ BindFails(m)
    PROVE  Inv'
<1>1. /\ inbound[m] = "binding"
      /\ UNCHANGED <<plan, renders, step, mem, rendered, completed, checkpoints, deliveryFile,
                     room, markers, failed, gap, crashes, forgetting, accepted, lost,
                     byConversation, deliveries, posts>>
      /\ MaySaveTargets
  BY DEF BindCorrelation, BindFails, MaySaveTargets, rendering, delivery, records, pumble,
         history, bounds, targets
<1>2. byCorrelation \in [Message -> Message \cup {None}] /\ faults \in Nat
  BY DEF Inv, TypeOK
<1>3. byCorrelation' = [byCorrelation EXCEPT ![m] = IF @ = None THEN byConversation ELSE @]
  BY <1>2 DEF BindCorrelation, BindFails, targets
<1>4. CASE BindCorrelation(m)
  <2>1. Leaves(m, "done") /\ faults' \in Nat
    BY <1>2, <1>4 DEF BindCorrelation, bounds
  <2> QED BY <1>1, <1>3, <2>1, BindKeeps
<1>5. CASE BindFails(m)
  <2>1. Leaves(m, "failed") /\ faults' \in Nat
    BY <1>2, <1>5 DEF BindFails, StoreFault
  <2> QED BY <1>1, <1>3, <2>1, BindKeeps
<1> QED BY <1>4, <1>5

-----------------------------------------------------------------------------
(***************************************************************************)
(* The renderer: one step of one correlation.                              *)
(***************************************************************************)

Steps == {"begin", "texted", "attach", "attached", "cleanup", "reject"}
Checkpoint == {"text", "attachment"}

\* The rendering of m comes to step s with queue q, memory x, checkpoints c, b in the
\* channel and g effects cut off, and leaves the markers mk.
Renders(m, s, q, x, c, b, g, mk) ==
    /\ step' = [step EXCEPT ![m] = s] /\ renders' = [renders EXCEPT ![m] = q]
    /\ mem' = [mem EXCEPT ![m] = x] /\ checkpoints' = [checkpoints EXCEPT ![m] = c]
    /\ room' = [room EXCEPT ![m] = b] /\ markers' = [markers EXCEPT ![Resolve(m)] = mk]
    /\ rendered' \in {rendered, rendered \cup {[turn |-> m, type |-> Current(m)]}}
    /\ failed' \in {failed, failed \cup {m}} /\ faults' \in Nat
    /\ gap' = [gap EXCEPT ![m] = g] /\ MaySaveDeliveries
    /\ UNCHANGED elsewhere

\* The file is written, or what it says of m still holds.
Recorded(m, s, c, b, g) == SaveDeliveries \/ (UNCHANGED deliveryFile /\ OnFile(m, s, c, b, g))

Gaps == [text : Nat, attachment : Nat]

\* An event that is rendered has a target, which is its own message unless that was lost
\* or its turn had ended before.
LEMMA ResolvesOwn ==
    ASSUME Inv, NEW m \in Message, renders[m] # <<>>
    PROVE  /\ Resolve(m) \in Message
           /\ m \notin lost /\ ~Finished(m) => Resolve(m) = m
<1>1. m \in accepted /\ byConversation # None
  BY DEF Inv, Reachable
<1>2. byConversation \in Message /\ byCorrelation[m] \in {None, m}
  BY <1>1 DEF Inv, TypeOK, Bound
<1>3. Resolve(m) \in Message
  BY <1>2 DEF Resolve
<1>4. ASSUME m \notin lost, ~Finished(m) PROVE Resolve(m) = m
  <2>1. byCorrelation[m] = m \/ inbound[m] \in AtHead
    BY <1>1, <1>4 DEF Inv, Reachable
  <2>2. CASE byCorrelation[m] = m
    BY <2>2, PumbleAssumption DEF Resolve
  <2>3. CASE inbound[m] \in AtHead
    <3>1. byConversation = m
      BY <2>3 DEF Inv, ChainSound
    <3> QED BY <3>1, <1>2 DEF Resolve
  <2> QED BY <2>1, <2>2, <2>3
<1> QED BY <1>3, <1>4

LEMMA RenderTypes ==
    ASSUME TypeOK, NEW m \in Message, renders[m] # <<>>, Resolve(m) \in Message,
           NEW s \in Steps, NEW q \in Seq(Type), NEW x \in Memory,
           NEW c \in SUBSET Checkpoint, NEW b \in Board, NEW g \in Gaps,
           NEW mk \in SUBSET Reaction,
           Renders(m, s, q, x, c, b, g, mk), s # "begin" => q # <<>>
    PROVE  TypeOK'
<1>1. /\ step' \in [Message -> Steps] /\ renders' \in [Message -> Seq(Type)]
      /\ mem' \in [Message -> Memory] /\ checkpoints' \in [Message -> SUBSET Checkpoint]
  BY DEF TypeOK, Renders, Steps, Checkpoint
<1>2. room' \in [Message -> Board] /\ markers' \in [Message -> SUBSET Reaction]
  BY DEF TypeOK, Renders
<1>3. \A n \in Message : step'[n] # "begin" => renders'[n] # <<>>
  <2>1. /\ step \in [Message -> Steps] /\ renders \in [Message -> Seq(Type)]
        /\ \A n \in Message : step[n] # "begin" => renders[n] # <<>>
    BY DEF TypeOK, Steps
  <2>2. step' = [step EXCEPT ![m] = s] /\ renders' = [renders EXCEPT ![m] = q]
    BY DEF Renders
  <2> QED BY <2>1, <2>2
<1>4. rendered' \subseteq Event
  <2>1. Head(renders[m]) \in Type
    <3>1. renders[m] \in Seq(Type)
      BY DEF TypeOK
    <3> QED BY <3>1, HeadTailProperties
  <2>2. [turn |-> m, type |-> Current(m)] \in Event
    BY <2>1 DEF Event, Current
  <2> QED BY <2>2 DEF TypeOK, Renders
<1>5. failed' \subseteq Message
  BY DEF TypeOK, Renders
<1>6. {deliveries', faults', crashes'} \subseteq Nat
  BY DEF TypeOK, Renders, elsewhere
<1>7. UNCHANGED <<plan, inbound, chain, posts, lost, byConversation, byCorrelation, targetFile,
                  accepted, forgetting, completed>>
  BY DEF Renders, elsewhere, webhook, targets
<1>8. gap' \in [Message -> [text : Nat, attachment : Nat]]
  BY DEF TypeOK, Renders, Gaps
<1>9. deliveryFile' \in [completed : SUBSET Event,
                        checkpoints : [Message -> SUBSET {"text", "attachment"}]]
  <2>1. completed' \in SUBSET Event
    BY <1>7 DEF TypeOK
  <2>2. CASE SaveDeliveries
    BY <2>1, <2>2, <1>1 DEF SaveDeliveries, Checkpoint
  <2>3. CASE UNCHANGED deliveryFile
    BY <2>3 DEF TypeOK
  <2> QED BY <2>2, <2>3 DEF Renders, MaySaveDeliveries
<1> QED BY <1>1, <1>2, <1>3, <1>4, <1>5, <1>6, <1>7, <1>8, <1>9 DEF TypeOK, Steps, Checkpoint

\* What is saved is as sound as memory is.
LEMMA SavedSound ==
    ASSUME TurnsSound', TypeOK', SaveDeliveries
    PROVE  FileSound'
<1>1. deliveryFile'.completed = completed' /\ deliveryFile'.checkpoints = checkpoints'
  BY DEF SaveDeliveries
<1>2. ASSUME NEW n \in Message PROVE OnFile(n, step[n], checkpoints[n], room[n], gap[n])'
  <2>1. TurnSound(plan.kind[n], step[n], renders[n], mem[n], checkpoints[n], room[n],
                  gap[n], Rendered(n), Finished(n), n \in failed)'
    BY DEF TurnsSound
  <2>2. /\ Backed(checkpoints[n], room[n])'
        /\ OnceEach(step[n], checkpoints[n], room[n], gap[n], Finished(n))'
    BY <2>1 DEF TurnSound, Delivered
  <2>3. FinishedOnFile(n)' = Finished(n)'
    BY <1>1 DEF FinishedOnFile, Finished
  <2> QED BY <1>1, <2>2, <2>3 DEF OnFile
<1> QED BY <1>1, <1>2 DEF FileSound

LEMMA RenderKeeps ==
    ASSUME Inv, NEW m \in Message, renders[m] # <<>>,
           NEW s \in Steps, NEW q \in Seq(Type), NEW x \in Memory,
           NEW c \in SUBSET Checkpoint, NEW b \in Board, NEW g \in Gaps,
           NEW mk \in SUBSET Reaction,
           Renders(m, s, q, x, c, b, g, mk), s # "begin" => q # <<>>,
           TurnSound(plan.kind[m], s, q, x, c, b, g, Rendered(m)', Finished(m), m \in failed'),
           crashes = 0 => Undisturbed(s, x, c, b, Finished(m), m \in failed'),
           Recorded(m, s, c, b, g), PlacedAt(m, b.texts),
           crashes = 0 /\ mem[m].terminal => markers' = markers,
           crashes = 0 /\ x.terminal /\ ~mem[m].terminal /\ m \notin failed' => mk = {}
    PROVE  Inv'
<1>1. /\ Resolve(m) \in Message
      /\ m \notin lost /\ ~Finished(m) => Resolve(m) = m
  BY ResolvesOwn
<1>2. TypeOK /\ TypeOK'
  BY <1>1, RenderTypes DEF Inv
<1>3. UNCHANGED <<plan, inbound, chain, posts, lost, byConversation, byCorrelation, targetFile,
                  accepted, forgetting, completed, crashes>>
  BY DEF Renders, elsewhere, webhook, targets
<1>4. ChainSound' /\ Bound'
  BY <1>3 DEF Inv, ChainSound, Bound
<1>5. /\ step'[m] = s /\ renders'[m] = q /\ mem'[m] = x /\ checkpoints'[m] = c /\ room'[m] = b
      /\ gap'[m] = g
      /\ \A n \in Message : n # m =>
            /\ step'[n] = step[n] /\ renders'[n] = renders[n] /\ mem'[n] = mem[n]
            /\ checkpoints'[n] = checkpoints[n] /\ room'[n] = room[n] /\ gap'[n] = gap[n]
  <2>1. /\ m \in DOMAIN step /\ m \in DOMAIN renders /\ m \in DOMAIN mem
        /\ m \in DOMAIN checkpoints /\ m \in DOMAIN room /\ m \in DOMAIN gap
    BY <1>2 DEF TypeOK
  <2>2. /\ DOMAIN step = Message /\ DOMAIN renders = Message /\ DOMAIN mem = Message
        /\ DOMAIN checkpoints = Message /\ DOMAIN room = Message /\ DOMAIN gap = Message
    BY <1>2 DEF TypeOK
  <2> QED BY <2>1, <2>2 DEF Renders
<1>6. \A n \in Message : n # m => /\ Rendered(n)' = Rendered(n)
                                  /\ (n \in failed') = (n \in failed)
  <2>1. \A n \in Message : n # m => /\ Rendered(n)' <=> Rendered(n)
                                    /\ n \in failed' <=> n \in failed
    BY DEF Renders, Rendered
  <2> QED BY <2>1 DEF Rendered
<1>7. \A n \in Message : Finished(n)' = Finished(n)
  BY <1>3 DEF Finished
<1>8. Reachable'
  <2>1. m \in accepted
    BY DEF Inv, Reachable
  <2>2. \A n \in Message : renders'[n] # <<>> => n \in accepted
    BY <2>1, <1>5 DEF Inv, Reachable
  <2> QED BY <2>2, <1>3 DEF Inv, Reachable, Finished
<1>9. TurnsSound'
  <2>1. SUFFICES ASSUME NEW n \in Message
                 PROVE  TurnSound(plan'.kind[n], step'[n], renders'[n], mem'[n],
                                  checkpoints'[n], room'[n], gap'[n], Rendered(n)',
                                  Finished(n)', n \in failed')
    BY DEF TurnsSound
  <2>2. plan'.kind[n] = plan.kind[n]
    BY <1>3
  <2>3. CASE n = m
    BY <2>2, <2>3, <1>5, <1>7
  <2>4. CASE n # m
    <3>1. TurnSound(plan.kind[n], step[n], renders[n], mem[n], checkpoints[n], room[n],
                    gap[n], Rendered(n), Finished(n), n \in failed)
      BY DEF Inv, TurnsSound
    <3> QED BY <3>1, <2>2, <2>4, <1>5, <1>6, <1>7
  <2> QED BY <2>3, <2>4
<1>10. TurnsUndisturbed'
  <2>1. SUFFICES ASSUME crashes = 0, NEW n \in Message
                 PROVE  Undisturbed(step'[n], mem'[n], checkpoints'[n], room'[n],
                                    Finished(n)', n \in failed')
    BY <1>3 DEF TurnsUndisturbed
  <2>2. CASE n = m
    BY <2>1, <2>2, <1>5, <1>7
  <2>3. CASE n # m
    <3>1. Undisturbed(step[n], mem[n], checkpoints[n], room[n], Finished(n), n \in failed)
      BY <2>1 DEF Inv, TurnsUndisturbed
    <3> QED BY <3>1, <2>3, <1>5, <1>6, <1>7
  <2> QED BY <2>2, <2>3
<1>11. Placed'
  <2>1. SUFFICES ASSUME NEW n \in Message PROVE PlacedAt(n, room[n].texts)'
    BY DEF Placed
  <2>2. CASE n # m
    BY <2>2, <1>3, <1>5 DEF Inv, Placed, PlacedAt
  <2>3. CASE n = m
    BY <2>3, <1>3, <1>5 DEF PlacedAt
  <2> QED BY <2>2, <2>3
<1>f. FileSound'
  <2>1. CASE SaveDeliveries
    BY <2>1, <1>2, <1>9, SavedSound
  <2>2. CASE UNCHANGED deliveryFile /\ OnFile(m, s, c, b, g)
    <3>1. ASSUME NEW n \in Message PROVE OnFile(n, step'[n], checkpoints'[n], room'[n], gap'[n])
      <4>1. CASE n = m
        BY <2>2, <4>1, <1>5
      <4>2. CASE n # m
        BY <4>2, <1>5 DEF Inv, FileSound
      <4> QED BY <4>1, <4>2
    <3>2. \A n \in Message : FinishedOnFile(n)' = FinishedOnFile(n)
      BY <2>2 DEF FinishedOnFile
    <3>3. \A n \in Message : OnFile(n, step[n], checkpoints[n], room[n], gap[n])'
      BY <2>2, <3>1, <3>2, <1>7 DEF OnFile
    <3> QED BY <2>2, <3>3, <1>3 DEF Inv, FileSound
  <2> QED BY <2>1, <2>2 DEF Recorded
<1>12. Cleared'
  <2>1. SUFFICES ASSUME crashes = 0, lost = {}, NEW n \in Message, mem'[n].terminal,
                        n \notin failed'
                 PROVE  markers'[n] = {}
    BY <1>3 DEF Cleared
  <2>2. /\ markers' = [markers EXCEPT ![Resolve(m)] = mk] /\ DOMAIN markers = Message
        /\ failed \subseteq failed'
    BY <1>2 DEF Renders, TypeOK
  <2>3. \A k \in Message : mem[k].terminal /\ k \notin failed => markers[k] = {}
    BY <2>1 DEF Inv, Cleared
  <2>4. CASE mem[m].terminal
    BY <2>1, <2>2, <2>3, <2>4, <1>5
  <2>5. CASE ~mem[m].terminal
    <3>1. ~Finished(m)
      BY <2>1, <2>5 DEF Inv, TurnsUndisturbed, Undisturbed
    <3>2. Resolve(m) = m
      BY <3>1, <2>1, <1>1
    <3> QED BY <2>1, <2>2, <2>3, <2>5, <3>2, <1>5
  <2> QED BY <2>4, <2>5
<1> QED BY <1>2, <1>4, <1>8, <1>9, <1>10, <1>11, <1>f, <1>12 DEF Inv

\* What a step of the renderer starts from.
LEMMA RenderBefore ==
    ASSUME Inv, NEW m \in Message, renders[m] # <<>>
    PROVE  /\ renders[m] \in Seq(Type) /\ Current(m) \in Type /\ Tail(renders[m]) \in Seq(Type)
           /\ mem[m] \in Memory /\ room[m] \in Board /\ checkpoints[m] \in SUBSET Checkpoint
           /\ step[m] \in Steps /\ Resolve(m) \in Message
           /\ markers[Resolve(m)] \in SUBSET Reaction
           /\ gap[m] \in Gaps /\ gap[m].text \in Nat /\ gap[m].attachment \in Nat
           /\ faults \in Nat
           /\ TurnSound(plan.kind[m], step[m], renders[m], mem[m], checkpoints[m], room[m],
                        gap[m], Rendered(m), Finished(m), m \in failed)
           /\ crashes = 0 => Undisturbed(step[m], mem[m], checkpoints[m], room[m],
                                         Finished(m), m \in failed)
           /\ OnFile(m, step[m], checkpoints[m], room[m], gap[m]) /\ PlacedAt(m, room[m].texts)
           /\ Current(m) = "terminal" /\ Finished(m) => mem[m].terminal
<1>1. /\ renders[m] \in Seq(Type) /\ mem[m] \in Memory /\ room[m] \in Board
      /\ checkpoints[m] \in SUBSET Checkpoint /\ step[m] \in Steps
      /\ gap[m] \in [text : Nat, attachment : Nat] /\ gap[m] \in Gaps
      /\ {deliveries, faults, crashes} \subseteq Nat
  BY DEF Inv, TypeOK, Checkpoint, Steps, Gaps
<1>2. /\ Current(m) \in Type /\ Tail(renders[m]) \in Seq(Type) /\ Current(m) = renders[m][1]
      /\ 1 \in DOMAIN renders[m]
  BY <1>1, HeadTailProperties, EmptySeq, LenProperties DEF Current
<1>3. Resolve(m) \in Message
  BY ResolvesOwn
<1>4. markers[Resolve(m)] \in SUBSET Reaction
  BY <1>3 DEF Inv, TypeOK
<1>5. TurnSound(plan.kind[m], step[m], renders[m], mem[m], checkpoints[m], room[m],
                gap[m], Rendered(m), Finished(m), m \in failed)
  BY DEF Inv, TurnsSound
<1>6. crashes = 0 => Undisturbed(step[m], mem[m], checkpoints[m], room[m],
                                 Finished(m), m \in failed)
  BY DEF Inv, TurnsUndisturbed
<1>7. Current(m) = "terminal" /\ Finished(m) => mem[m].terminal
  BY <1>2, <1>5 DEF TurnSound, Progress
<1>8. OnFile(m, step[m], checkpoints[m], room[m], gap[m]) /\ PlacedAt(m, room[m].texts)
  BY DEF Inv, FileSound, Placed
<1> QED BY <1>1, <1>2, <1>3, <1>4, <1>5, <1>6, <1>7, <1>8

\* Variables a step leaves alone, as updates at m.
LEMMA Unmoved ==
    ASSUME Inv, NEW m \in Message
    PROVE  /\ step = [step EXCEPT ![m] = step[m]] /\ renders = [renders EXCEPT ![m] = renders[m]]
           /\ mem = [mem EXCEPT ![m] = mem[m]]
           /\ checkpoints = [checkpoints EXCEPT ![m] = checkpoints[m]]
           /\ room = [room EXCEPT ![m] = room[m]] /\ gap = [gap EXCEPT ![m] = gap[m]]
           /\ \A n \in Message : markers = [markers EXCEPT ![n] = markers[n]]
<1>1. /\ step \in [Message -> Steps] /\ renders \in [Message -> Seq(Type)]
      /\ mem \in [Message -> Memory] /\ checkpoints \in [Message -> SUBSET Checkpoint]
      /\ room \in [Message -> Board] /\ markers \in [Message -> SUBSET Reaction]
      /\ gap \in [Message -> Gaps]
  BY DEF Inv, TypeOK, Steps, Checkpoint, Gaps
<1> QED BY <1>1

\* render() of an event that is not the end of its turn, or is ignored, returns or rejects.
LEMMA ReturnKeeps ==
    ASSUME Inv, NEW m \in Message, At(m, "begin"), NEW x \in Memory, NEW b \in Board,
           NEW mk \in SUBSET Reaction,
           Renders(m, "begin", Tail(renders[m]), x, checkpoints[m], b, gap[m], mk),
           x.terminal = mem[m].terminal, "terminal" \in x.seen => "terminal" \in mem[m].seen,
           Current(m) = "terminal" => mem[m].terminal,
           b.texts = room[m].texts, b.files = room[m].files,
           x.interim /\ ~x.terminal => b.interims > 0,
           crashes = 0 /\ m \notin failed' =>
              b.interims = (IF x.interim /\ ~x.terminal THEN 1 ELSE 0),
           crashes = 0 /\ mem[m].terminal => markers' = markers
    PROVE  Inv'
<1> DEFINE q == renders[m]
<1>1. q # <<>> /\ step[m] = "begin"
  BY DEF At
<1>2. /\ q \in Seq(Type) /\ Tail(q) \in Seq(Type) /\ checkpoints[m] \in SUBSET Checkpoint
      /\ room[m] \in Board /\ gap[m] \in Gaps
      /\ OnFile(m, "begin", checkpoints[m], room[m], gap[m]) /\ PlacedAt(m, room[m].texts)
      /\ TurnSound(plan.kind[m], "begin", q, mem[m], checkpoints[m], room[m],
                   gap[m], Rendered(m), Finished(m), m \in failed)
      /\ crashes = 0 => Undisturbed("begin", mem[m], checkpoints[m], room[m],
                                    Finished(m), m \in failed)
  BY <1>1, RenderBefore
<1>3. failed \subseteq failed' /\ (Rendered(m)' => Rendered(m) \/ Current(m) = "terminal")
  BY DEF Renders, Rendered
<1>4. (\A i \in DOMAIN q : q[i] # "terminal") => \A i \in DOMAIN Tail(q) : Tail(q)[i] # "terminal"
  <2> HIDE DEF q
  <2>1. /\ Len(Tail(q)) = Len(q) - 1 /\ \A i \in 1 .. Len(Tail(q)) : Tail(q)[i] = q[i + 1]
        /\ DOMAIN q = 1 .. Len(q) /\ DOMAIN Tail(q) = 1 .. Len(Tail(q)) /\ Len(q) \in Nat
    BY <1>1, <1>2, HeadTailProperties, LenProperties DEF q
  <2>2. \A i \in DOMAIN Tail(q) : i + 1 \in DOMAIN q /\ Tail(q)[i] = q[i + 1]
    BY <2>1
  <2> QED BY <2>2
<1>5. Progress("begin", Tail(q), x, b, Rendered(m)', Finished(m))
  BY <1>2, <1>3, <1>4 DEF TurnSound, Progress
<1>6. Delivered(plan.kind[m], "begin", x, checkpoints[m], b, Finished(m), m \in failed')
  BY <1>2, <1>3 DEF TurnSound, Delivered, Backed, AnsweredBy, Effects
<1>7. OnceEach("begin", checkpoints[m], b, gap[m], Finished(m))
  BY <1>2 DEF TurnSound, OnceEach
<1>8. crashes = 0 => Undisturbed("begin", x, checkpoints[m], b, Finished(m), m \in failed')
  BY <1>2 DEF Undisturbed
<1>9. TurnSound(plan.kind[m], "begin", Tail(q), x, checkpoints[m], b, gap[m], Rendered(m)',
                Finished(m), m \in failed')
  BY <1>5, <1>6, <1>7 DEF TurnSound
<1>10. "begin" \in Steps
  BY DEF Steps
<1>11. Recorded(m, "begin", checkpoints[m], b, gap[m]) /\ PlacedAt(m, b.texts)
  BY <1>2 DEF Renders, MaySaveDeliveries, Recorded, OnFile, OnceEach, Backed
<1> QED BY <1>1, <1>2, <1>8, <1>9, <1>10, <1>11, RenderKeeps

LEMMA IgnoreKeeps ==
    ASSUME Inv, NEW m \in Message, Ignore(m)
    PROVE  Inv'
<1>1. At(m, "begin") /\ renders[m] # <<>> /\ ~Live(m)
  BY DEF Ignore, At
<1>2. /\ mem[m] \in Memory /\ room[m] \in Board /\ markers[Resolve(m)] \in SUBSET Reaction
      /\ Resolve(m) \in Message /\ faults \in Nat /\ step[m] = "begin"
      /\ Progress("begin", renders[m], mem[m], room[m], Rendered(m), Finished(m))
      /\ crashes = 0 => Undisturbed("begin", mem[m], checkpoints[m], room[m],
                                    Finished(m), m \in failed)
  BY <1>1, RenderBefore DEF TurnSound, At
<1>3. Current(m) = "terminal" => mem[m].terminal
  BY <1>1, <1>2 DEF Live, Progress
<1>4. Renders(m, "begin", Tail(renders[m]), mem[m], checkpoints[m], room[m], gap[m],
              markers[Resolve(m)])
  BY <1>2, Unmoved DEF Ignore, Renders, Ends, NoFault, MaySaveDeliveries, pumble
<1>5. markers' = markers /\ failed' = failed
  BY DEF Ignore, pumble, NoFault
<1>6. /\ mem[m].interim /\ ~mem[m].terminal => room[m].interims > 0
      /\ crashes = 0 /\ m \notin failed' =>
            room[m].interims = (IF mem[m].interim /\ ~mem[m].terminal THEN 1 ELSE 0)
  BY <1>2, <1>5 DEF Progress, Undisturbed
<1> QED BY <1>1, <1>2, <1>3, <1>4, <1>5, <1>6, ReturnKeeps

LEMMA OnStartedKeeps ==
    ASSUME Inv, NEW m \in Message, OnStarted(m)
    PROVE  Inv'
<1> DEFINE todo == {"eyes", "brain"} \ mem[m].attempted
<1>1. At(m, "begin") /\ renders[m] # <<>> /\ ~mem[m].terminal /\ Current(m) = "started"
  BY DEF OnStarted, Live, At
<1>2. /\ mem[m] \in Memory /\ room[m] \in Board /\ markers[Resolve(m)] \in SUBSET Reaction
      /\ Resolve(m) \in Message /\ faults \in Nat /\ step[m] = "begin"
      /\ Progress("begin", renders[m], mem[m], room[m], Rendered(m), Finished(m))
      /\ crashes = 0 => Undisturbed("begin", mem[m], checkpoints[m], room[m],
                                    Finished(m), m \in failed)
  BY <1>1, RenderBefore DEF TurnSound, At
<1>3. PICK tried \in SUBSET todo, added \in SUBSET todo, returns \in BOOLEAN :
        /\ NoFault \/ Fault(m)
        /\ markers' = [markers EXCEPT ![Resolve(m)] = @ \cup added]
        /\ mem' = [mem EXCEPT ![m].attempted = @ \cup tried, ![m].seen = SeenAfter(m, returns)]
        /\ Ends(m, returns)
  BY DEF OnStarted
<1> DEFINE n == SeenAfter(m, returns)
           x == [mem[m] EXCEPT !.attempted = @ \cup tried, !.seen = n]
<1>s. n \in SUBSET Type /\ ("terminal" \in n => "terminal" \in mem[m].seen)
  BY <1>1, <1>2 DEF SeenAfter, Memory, Type
<1> HIDE DEF n
<1>4. /\ x \in Memory /\ x.terminal = mem[m].terminal /\ x.interim = mem[m].interim
      /\ "terminal" \in x.seen => "terminal" \in mem[m].seen
  BY <1>2, <1>s DEF Memory, Reaction
<1>5. mem' = [mem EXCEPT ![m] = x]
  <2>1. mem' = [mem EXCEPT ![m].attempted = @ \cup tried, ![m].seen = n]
    BY <1>3 DEF n
  <2>2. mem \in [Message -> Memory]
    BY DEF Inv, TypeOK
  <2> QED BY <2>1, <2>2 DEF Memory
<1> HIDE DEF x
<1>6. markers[Resolve(m)] \cup added \in SUBSET Reaction
  BY <1>2 DEF Reaction
<1>7. failed' \in {failed, failed \cup {m}} /\ faults' \in Nat
  BY <1>2, <1>3 DEF Fault, StoreFault, NoFault
<1>8. Renders(m, "begin", Tail(renders[m]), x, checkpoints[m], room[m], gap[m],
              markers[Resolve(m)] \cup added)
  <2>1. UNCHANGED <<elsewhere, checkpoints, room, gap>> /\ MaySaveDeliveries
    BY DEF OnStarted
  <2>2. markers' = [markers EXCEPT ![Resolve(m)] = markers[Resolve(m)] \cup added]
    BY <1>3
  <2> QED BY <2>1, <2>2, <1>3, <1>5, <1>7, Unmoved DEF Renders, Ends
<1>9. /\ x.interim /\ ~x.terminal => room[m].interims > 0
      /\ crashes = 0 /\ m \notin failed' =>
            room[m].interims = (IF x.interim /\ ~x.terminal THEN 1 ELSE 0)
  BY <1>2, <1>4, <1>7 DEF Progress, Undisturbed
<1> QED BY <1>1, <1>2, <1>4, <1>6, <1>8, <1>9, ReturnKeeps

LEMMA OnDeltaKeeps ==
    ASSUME Inv, NEW m \in Message, OnDelta(m)
    PROVE  Inv'
<1> DEFINE swaps == "balloon" \notin mem[m].attempted
           shows == plan.streams /\ ~mem[m].interim
           r == Resolve(m)
<1>1. /\ At(m, "begin") /\ renders[m] # <<>> /\ ~mem[m].terminal
      /\ Current(m) \in {"delta", "delta2"}
  BY DEF OnDelta, Live, At
<1>2. /\ mem[m] \in Memory /\ room[m] \in Board /\ markers[r] \in SUBSET Reaction
      /\ r \in Message /\ faults \in Nat /\ step[m] = "begin"
      /\ Progress("begin", renders[m], mem[m], room[m], Rendered(m), Finished(m))
      /\ crashes = 0 => Undisturbed("begin", mem[m], checkpoints[m], room[m],
                                    Finished(m), m \in failed)
  BY <1>1, RenderBefore DEF TurnSound, At
<1>3. PICK cleared, tried, added, shown, known, returns \in BOOLEAN :
        /\ cleared \/ tried => swaps
        /\ added => tried
        /\ shown => shows
        /\ known => shown
        /\ \/ NoFault /\ returns /\ (swaps => cleared /\ added) /\ (shows => known)
           \/ Fault(m) /\ returns /\ (cleared => tried)
           \/ Fault(m) /\ ~returns /\ swaps /\ ~shown
        /\ markers' = [markers EXCEPT ![r] =
              (IF cleared THEN @ \ {"brain"} ELSE @) \cup (IF added THEN {"balloon"} ELSE {})]
        /\ room' = [room EXCEPT ![m].interims = IF shown THEN @ + 1 ELSE @]
        /\ mem' = [mem EXCEPT ![m].interim = @ \/ known,
                              ![m].attempted = IF tried THEN @ \cup {"balloon"} ELSE @,
                              ![m].seen = SeenAfter(m, returns)]
        /\ Ends(m, returns)
  BY ZenonT(30) DEF OnDelta
<1> DEFINE in == mem[m].interim \/ known
           at == IF tried THEN mem[m].attempted \cup {"balloon"} ELSE mem[m].attempted
           n == SeenAfter(m, returns)
           x == [mem[m] EXCEPT !.interim = in, !.attempted = at, !.seen = n]
           b == [room[m] EXCEPT !.interims = IF shown THEN @ + 1 ELSE @]
           mk == (IF cleared THEN markers[r] \ {"brain"} ELSE markers[r])
                    \cup (IF added THEN {"balloon"} ELSE {})
<1>4. /\ shown => ~mem[m].interim
      /\ known => shown
      /\ (NoFault /\ (shown => known)) \/ Fault(m)
  BY <1>3, Zenon
<1> HIDE DEF shows
<1>s. n \in SUBSET Type /\ ("terminal" \in n => "terminal" \in mem[m].seen)
  BY <1>1, <1>2 DEF SeenAfter, Memory, Type
<1>a. at \in SUBSET Reaction
  BY <1>2 DEF Memory, Reaction
<1> HIDE DEF n
<1>5. mem' = [mem EXCEPT ![m] = x] /\ room' = [room EXCEPT ![m] = b]
  <2>1. mem \in [Message -> Memory] /\ room \in [Message -> Board]
    BY DEF Inv, TypeOK
  <2>2. /\ mem' = [mem EXCEPT ![m].interim = @ \/ known,
                              ![m].attempted = IF tried THEN @ \cup {"balloon"} ELSE @,
                              ![m].seen = n]
        /\ room' = [room EXCEPT ![m].interims = IF shown THEN @ + 1 ELSE @]
    BY <1>3 DEF n
  <2>3. mem' = [mem EXCEPT ![m].interim = in, ![m].attempted = at, ![m].seen = n]
    BY <2>1, <2>2 DEF Memory
  <2> HIDE DEF in, at
  <2> QED BY <2>1, <2>2, <2>3 DEF Memory, Board
<1>6. markers' = [markers EXCEPT ![r] = mk]
  BY <1>3
<1>7. mk \in SUBSET Reaction
  BY <1>2 DEF Reaction
<1> HIDE DEF mk, at
<1>in. in \in BOOLEAN /\ (in <=> mem[m].interim \/ known)
  OBVIOUS
<1> HIDE DEF in
<1>8. x.terminal = mem[m].terminal /\ x.interim = in /\ x.seen = n
  BY <1>2 DEF Memory
<1>9. x \in Memory /\ ("terminal" \in x.seen => "terminal" \in mem[m].seen)
  <2>1. x \in Memory
    BY <1>2, <1>in, <1>a, <1>s DEF Memory
  <2> QED BY <2>1, <1>s, <1>8
<1>10. /\ b \in Board /\ b.texts = room[m].texts /\ b.files = room[m].files
       /\ b.interims = IF shown THEN room[m].interims + 1 ELSE room[m].interims
       /\ room[m].interims \in Nat
  BY <1>2 DEF Board
<1> HIDE DEF x, b
<1>11. /\ failed' \in {failed, failed \cup {m}} /\ faults' \in Nat
  BY <1>2, <1>4 DEF Fault, StoreFault, NoFault
<1>12. Renders(m, "begin", Tail(renders[m]), x, checkpoints[m], b, gap[m], mk)
  <2>1. UNCHANGED <<elsewhere, checkpoints, gap>> /\ MaySaveDeliveries
    BY DEF OnDelta
  <2>2. Ends(m, returns)
    BY <1>3
  <2> QED BY <2>1, <2>2, <1>5, <1>6, <1>11, Unmoved DEF Renders, Ends
<1>13. x.interim /\ ~x.terminal => b.interims > 0
  <2>1. mem[m].interim => room[m].interims > 0
    BY <1>1, <1>2 DEF Progress
  <2>2. CASE shown
    BY <2>2, <1>10
  <2>3. CASE ~shown
    BY <2>1, <2>3, <1>4, <1>8, <1>in, <1>10
  <2> QED BY <2>2, <2>3
<1>14. crashes = 0 /\ m \notin failed' =>
          b.interims = (IF x.interim /\ ~x.terminal THEN 1 ELSE 0)
  <2>1. SUFFICES ASSUME crashes = 0, m \notin failed'
                 PROVE  b.interims = (IF x.interim THEN 1 ELSE 0)
    BY <1>1, <1>8
  <2>2. room[m].interims = (IF mem[m].interim THEN 1 ELSE 0)
    BY <2>1, <1>1, <1>2, <1>11 DEF Undisturbed
  <2>n. shown <=> known
    BY <2>1, <1>4 DEF Fault
  <2>3. CASE shown
    <3>1. x.interim /\ ~mem[m].interim
      BY <2>3, <2>n, <1>4, <1>8, <1>in
    <3> QED BY <3>1, <2>2, <2>3, <1>10
  <2>4. CASE ~shown
    <3>1. x.interim <=> mem[m].interim
      BY <2>4, <2>n, <1>8, <1>in
    <3> QED BY <3>1, <2>2, <2>4, <1>10
  <2> QED BY <2>3, <2>4
<1>15. Current(m) # "terminal"
  BY <1>1
<1> QED BY <1>1, <1>7, <1>9, <1>8, <1>10, <1>12, <1>13, <1>14, <1>15, ReturnKeeps

\* What clearStatusReactions leaves.
LEMMA StatusCleared ==
    ASSUME Inv, NEW m \in Message, renders[m] # <<>>, ClearStatusReactions(m)
    PROVE  \E left \in SUBSET Reaction :
              /\ markers' = [markers EXCEPT ![Resolve(m)] = left]
              /\ failed' \in {failed, failed \cup {m}} /\ faults' \in Nat
              /\ m \notin failed' => left = {}
<1>1. markers[Resolve(m)] \in SUBSET Reaction /\ faults \in Nat
  BY RenderBefore
<1>2. PICK left \in SUBSET markers[Resolve(m)] :
        /\ (left = {} /\ NoFault) \/ Fault(m)
        /\ markers' = [markers EXCEPT ![Resolve(m)] = left]
  BY DEF ClearStatusReactions
<1>3. /\ left \in SUBSET Reaction /\ failed' \in {failed, failed \cup {m}} /\ faults' \in Nat
      /\ m \notin failed' => left = {}
  BY <1>1, <1>2 DEF Fault, StoreFault, NoFault
<1> QED BY <1>2, <1>3

LEMMA OnPresenceOfflineKeeps ==
    ASSUME Inv, NEW m \in Message, OnPresenceOffline(m)
    PROVE  Inv'
<1>1. At(m, "begin") /\ renders[m] # <<>> /\ ~mem[m].terminal /\ Current(m) = "offline"
  BY DEF OnPresenceOffline, Live, At
<1>2. /\ mem[m] \in Memory /\ room[m] \in Board /\ step[m] = "begin"
      /\ Progress("begin", renders[m], mem[m], room[m], Rendered(m), Finished(m))
      /\ crashes = 0 => Undisturbed("begin", mem[m], checkpoints[m], room[m],
                                    Finished(m), m \in failed)
  BY <1>1, RenderBefore DEF TurnSound, At
<1>3. PICK left \in SUBSET Reaction :
        /\ markers' = [markers EXCEPT ![Resolve(m)] = left]
        /\ failed' \in {failed, failed \cup {m}} /\ faults' \in Nat
  BY <1>1, StatusCleared DEF OnPresenceOffline
<1>r. PICK returns \in BOOLEAN :
        mem' = [mem EXCEPT ![m].seen = SeenAfter(m, returns)] /\ Ends(m, returns)
  BY DEF OnPresenceOffline
<1> DEFINE n == SeenAfter(m, returns)
           x == [mem[m] EXCEPT !.seen = n]
<1>s. n \in SUBSET Type /\ ("terminal" \in n => "terminal" \in mem[m].seen)
  BY <1>1, <1>2 DEF SeenAfter, Memory, Type
<1> HIDE DEF n
<1>4. /\ x \in Memory /\ x.terminal = mem[m].terminal /\ x.interim = mem[m].interim
      /\ "terminal" \in x.seen => "terminal" \in mem[m].seen
  BY <1>2, <1>s DEF Memory
<1>5. mem' = [mem EXCEPT ![m] = x]
  <2>1. mem' = [mem EXCEPT ![m].seen = n] /\ mem \in [Message -> Memory]
    BY <1>r DEF Inv, TypeOK, n
  <2> QED BY <2>1 DEF Memory
<1> HIDE DEF x
<1>6. Renders(m, "begin", Tail(renders[m]), x, checkpoints[m], room[m], gap[m], left)
  <2>1. UNCHANGED <<elsewhere, checkpoints, room, gap>> /\ MaySaveDeliveries
    BY DEF OnPresenceOffline, ClearStatusReactions
  <2> QED BY <2>1, <1>3, <1>r, <1>5, Unmoved DEF Renders, Ends
<1>7. /\ x.interim /\ ~x.terminal => room[m].interims > 0
      /\ crashes = 0 /\ m \notin failed' =>
            room[m].interims = (IF x.interim /\ ~x.terminal THEN 1 ELSE 0)
  BY <1>2, <1>3, <1>4 DEF Progress, Undisturbed
<1> QED BY <1>1, <1>2, <1>4, <1>6, <1>7, ReturnKeeps

\* A step within the delivery of a terminal event, which render() has not left.
LEMMA TerminalStepKeeps ==
    ASSUME Inv, NEW m \in Message, renders[m] # <<>>, Current(m) = "terminal",
           ~mem[m].terminal, NEW s \in Steps \ {"begin"}, NEW x \in Memory,
           NEW c \in SUBSET Checkpoint, NEW b \in Board, NEW g \in Gaps,
           Renders(m, s, renders[m], x, c, b, g, markers[Resolve(m)]), rendered' = rendered,
           x.terminal = mem[m].terminal, x.seen = mem[m].seen,
           Delivered(plan.kind[m], s, x, c, b, FALSE, m \in failed'),
           OnceEach(s, c, b, g, FALSE),
           crashes = 0 => Undisturbed(s, x, c, b, FALSE, m \in failed'),
           Recorded(m, s, c, b, g), PlacedAt(m, b.texts)
    PROVE  Inv'
<1>1. /\ renders[m] \in Seq(Type) /\ Resolve(m) \in Message
      /\ markers[Resolve(m)] \in SUBSET Reaction
      /\ Progress(step[m], renders[m], mem[m], room[m], Rendered(m), Finished(m))
      /\ Finished(m) = FALSE
  <2>1. ~Finished(m)
    BY RenderBefore
  <2> QED BY <2>1, RenderBefore DEF TurnSound, Finished
<1>2. Progress(s, renders[m], x, b, Rendered(m)', Finished(m))
  <2>1. Rendered(m)' <=> Rendered(m)
    BY DEF Rendered
  <2> QED BY <1>1, <2>1 DEF Progress, Current
<1>3. TurnSound(plan.kind[m], s, renders[m], x, c, b, g, Rendered(m)', Finished(m),
                m \in failed')
  BY <1>1, <1>2 DEF TurnSound
<1>4. crashes = 0 => Undisturbed(s, x, c, b, Finished(m), m \in failed')
  BY <1>1
<1>5. s \in Steps
  OBVIOUS
<1> QED BY <1>1, <1>3, <1>4, <1>5, RenderKeeps

\* What such a step starts from.
LEMMA TerminalBefore ==
    ASSUME Inv, NEW m \in Message, renders[m] # <<>>, ~mem[m].terminal,
           step[m] # "begin" \/ Current(m) = "terminal"
    PROVE  /\ Current(m) = "terminal" /\ renders[m] \in Seq(Type)
           /\ mem[m] \in Memory /\ room[m] \in Board /\ checkpoints[m] \in SUBSET Checkpoint
           /\ Resolve(m) \in Message /\ markers[Resolve(m)] \in SUBSET Reaction
           /\ gap[m] \in Gaps /\ gap[m].text \in Nat /\ gap[m].attachment \in Nat
           /\ faults \in Nat
           /\ room[m].interims \in Nat /\ room[m].files \in Nat
           /\ room[m].texts \in Seq(Message) /\ Len(room[m].texts) \in Nat
           /\ mem[m].interim \in BOOLEAN /\ mem[m].terminal = FALSE
           /\ ~Finished(m) /\ ~FinishedOnFile(m) /\ ~Rendered(m)
           /\ Delivered(plan.kind[m], step[m], mem[m], checkpoints[m], room[m], FALSE,
                        m \in failed)
           /\ OnceEach(step[m], checkpoints[m], room[m], gap[m], FALSE)
           /\ crashes = 0 => Undisturbed(step[m], mem[m], checkpoints[m], room[m], FALSE,
                                         m \in failed)
           /\ step[m] = "begin" /\ mem[m].interim => room[m].interims > 0
           /\ plan.kind[m] \in Kind
           /\ m \notin lost => Resolve(m) = m
           /\ OnFile(m, step[m], checkpoints[m], room[m], gap[m]) /\ PlacedAt(m, room[m].texts)
<1>1. /\ renders[m] \in Seq(Type) /\ mem[m] \in Memory /\ room[m] \in Board
      /\ checkpoints[m] \in SUBSET Checkpoint
      /\ Resolve(m) \in Message /\ markers[Resolve(m)] \in SUBSET Reaction
      /\ gap[m] \in Gaps /\ gap[m].text \in Nat /\ gap[m].attachment \in Nat /\ faults \in Nat
      /\ TurnSound(plan.kind[m], step[m], renders[m], mem[m], checkpoints[m], room[m],
                   gap[m], Rendered(m), Finished(m), m \in failed)
      /\ crashes = 0 => Undisturbed(step[m], mem[m], checkpoints[m], room[m],
                                    Finished(m), m \in failed)
      /\ Current(m) = "terminal" /\ Finished(m) => mem[m].terminal
      /\ OnFile(m, step[m], checkpoints[m], room[m], gap[m]) /\ PlacedAt(m, room[m].texts)
  BY RenderBefore
<1>2. Current(m) = "terminal" /\ ~Rendered(m)
  BY <1>1 DEF TurnSound, Progress, Current
<1>3. Finished(m) = FALSE
  BY <1>1, <1>2 DEF Finished
<1>f. ~FinishedOnFile(m) /\ (m \notin lost => Resolve(m) = m)
  BY <1>3, ResolvesOwn DEF Inv, FileSound, FinishedOnFile, Finished
<1>4. /\ room[m].interims \in Nat /\ room[m].files \in Nat /\ room[m].texts \in Seq(Message)
      /\ Len(room[m].texts) \in Nat
  BY <1>1, LenProperties DEF Board
<1>5. mem[m].interim \in BOOLEAN /\ mem[m].terminal = FALSE
  BY <1>1 DEF Memory
<1>6. plan.kind[m] \in Kind
  BY PumbleAssumption DEF Inv, TypeOK, Plan
<1>7. /\ Delivered(plan.kind[m], step[m], mem[m], checkpoints[m], room[m], FALSE, m \in failed)
      /\ OnceEach(step[m], checkpoints[m], room[m], gap[m], FALSE)
      /\ crashes = 0 => Undisturbed(step[m], mem[m], checkpoints[m], room[m], FALSE,
                                    m \in failed)
  BY <1>1, <1>3 DEF TurnSound
<1>8. step[m] = "begin" /\ mem[m].interim => room[m].interims > 0
  BY <1>1 DEF TurnSound, Progress
<1> QED BY <1>1, <1>2, <1>3, <1>f, <1>4, <1>5, <1>6, <1>7, <1>8

LEMMA OnNoAnswerKeeps ==
    ASSUME Inv, NEW m \in Message, OnNoAnswer(m)
    PROVE  Inv'
<1> DEFINE c == checkpoints[m]
           k == plan.kind[m]
           o == room[m]
<1>1. /\ renders[m] # <<>> /\ step[m] = "begin" /\ ~mem[m].terminal /\ Current(m) = "terminal"
      /\ k \in {"silent", "cancelled"}
      /\ UNCHANGED <<elsewhere, checkpoints, deliveryFile, markers, gap>>
  BY DEF OnNoAnswer, Live, At
<1>2. /\ mem[m] \in Memory /\ o \in Board /\ c \in SUBSET Checkpoint /\ gap[m] \in Gaps
      /\ Resolve(m) \in Message /\ faults \in Nat
      /\ o.interims \in Nat /\ o.files \in Nat /\ mem[m].interim \in BOOLEAN
      /\ Delivered(k, "begin", mem[m], c, o, FALSE, m \in failed)
      /\ OnceEach("begin", c, o, gap[m], FALSE)
      /\ crashes = 0 => Undisturbed("begin", mem[m], c, o, FALSE, m \in failed)
      /\ mem[m].interim => o.interims > 0
      /\ OnFile(m, "begin", c, o, gap[m]) /\ PlacedAt(m, o.texts)
  BY <1>1, TerminalBefore
<1>3. /\ room \in [Message -> Board] /\ mem \in [Message -> Memory]
      /\ checkpoints' = [checkpoints EXCEPT ![m] = c] /\ gap' = [gap EXCEPT ![m] = gap[m]]
      /\ markers' = [markers EXCEPT ![Resolve(m)] = markers[Resolve(m)]]
      /\ room = [room EXCEPT ![m] = o] /\ mem = [mem EXCEPT ![m] = mem[m]]
  BY <1>1, <1>2, Unmoved DEF Inv, TypeOK
<1>4. ASSUME NEW s \in {"cleanup", "reject"}, NEW x \in Memory, NEW b \in Board, Goto(m, s),
             mem' = [mem EXCEPT ![m] = x], room' = [room EXCEPT ![m] = b],
             x.terminal = mem[m].terminal, x.seen = mem[m].seen,
             b.texts = o.texts, b.files = o.files, NoFault \/ Fault(m),
             s = "reject" => Fault(m), NoFault => b.interims = 0 \/ crashes # 0 \/ m \in failed
      PROVE  Inv'
  <2>1. /\ failed' \in {failed, failed \cup {m}} /\ faults' \in Nat
        /\ s = "reject" => m \in failed'
    BY <1>2, <1>4 DEF NoFault, Fault, StoreFault
  <2>2. Renders(m, s, renders[m], x, c, b, gap[m], markers[Resolve(m)]) /\ rendered' = rendered
    BY <1>1, <1>3, <1>4, <2>1, Unmoved DEF Renders, Goto, MaySaveDeliveries
  <2> HIDE DEF c, k, o
  <2>3. Delivered(k, s, x, c, b, FALSE, m \in failed')
    BY <1>1, <1>2, <1>4, <2>1 DEF Delivered, Backed, AnsweredBy, Effects
  <2>4. OnceEach(s, c, b, gap[m], FALSE)
    BY <1>2, <1>4 DEF OnceEach
  <2>5. crashes = 0 => Undisturbed(s, x, c, b, FALSE, m \in failed')
    <3>1. crashes = 0 /\ m \notin failed' => b.interims = 0
      BY <1>4 DEF NoFault, Fault
    <3> QED BY <3>1, <1>4 DEF Undisturbed
  <2>6. Recorded(m, s, c, b, gap[m]) /\ PlacedAt(m, b.texts)
    BY <1>1, <1>2, <1>4 DEF Recorded, OnFile, OnceEach, Backed
  <2>7. s \in Steps \ {"begin"}
    BY DEF Steps
  <2> QED BY <1>1, <1>2, <1>4, <2>2, <2>3, <2>4, <2>5, <2>6, <2>7, TerminalStepKeeps DEF c, k, o
<1>5. ASSUME NEW gone \in BOOLEAN, gone => mem[m].interim,
             (NoFault /\ gone = mem[m].interim) \/ Fault(m),
             room' = [room EXCEPT ![m].interims = IF gone THEN @ - 1 ELSE @],
             mem' = [mem EXCEPT ![m].interim = FALSE], Goto(m, "cleanup")
      PROVE  Inv'
  <2> DEFINE i == IF gone THEN o.interims - 1 ELSE o.interims
             b == [o EXCEPT !.interims = i]
             x == [mem[m] EXCEPT !.interim = FALSE]
  <2>1. i \in Nat
    BY <1>2, <1>5
  <2>2. b \in Board /\ b.texts = o.texts /\ b.files = o.files /\ b.interims = i
    BY <1>2, <2>1 DEF Board
  <2>3. room' = [room EXCEPT ![m] = b]
    BY <1>3, <1>5 DEF Board
  <2>4. x \in Memory /\ x.terminal = mem[m].terminal /\ x.seen = mem[m].seen
    BY <1>2 DEF Memory
  <2>5. mem' = [mem EXCEPT ![m] = x]
    BY <1>3, <1>5 DEF Memory
  <2>6. NoFault => i = 0 \/ crashes # 0 \/ m \in failed
    <3>1. SUFFICES ASSUME NoFault, crashes = 0, m \notin failed PROVE i = 0
      OBVIOUS
    <3>2. gone = mem[m].interim
      BY <3>1, <1>2, <1>5 DEF NoFault, Fault, StoreFault
    <3>3. o.interims = (IF mem[m].interim THEN 1 ELSE 0)
      BY <3>1, <1>1, <1>2 DEF Undisturbed
    <3> QED BY <3>2, <3>3, <1>2
  <2> HIDE DEF i, b, x
  <2>7. (NoFault \/ Fault(m)) /\ (NoFault => b.interims = 0 \/ crashes # 0 \/ m \in failed)
    BY <1>5, <2>2, <2>6
  <2> QED BY <1>4, <1>5, <2>2, <2>3, <2>4, <2>5, <2>7
<1>6. CASE k = "silent" /\ Fault(m) /\ Goto(m, "reject") /\ UNCHANGED <<room, mem>>
  <2>1. room' = [room EXCEPT ![m] = o] /\ mem' = [mem EXCEPT ![m] = mem[m]]
    BY <1>3, <1>6
  <2>2. ~NoFault
    BY <1>2, <1>6 DEF NoFault, Fault, StoreFault
  <2> QED BY <1>2, <1>4, <1>6, <2>1, <2>2
<1> QED BY <1>5, <1>6 DEF OnNoAnswer

\* A step that leaves memory and markers alone.
LEMMA EffectKeeps ==
    ASSUME Inv, NEW m \in Message, renders[m] # <<>>, Current(m) = "terminal",
           ~mem[m].terminal, NEW s \in Steps \ {"begin"},
           NEW c \in SUBSET Checkpoint, NEW b \in Board, NEW g \in Gaps, Goto(m, s),
           checkpoints' = [checkpoints EXCEPT ![m] = c], room' = [room EXCEPT ![m] = b],
           gap' = [gap EXCEPT ![m] = g], MaySaveDeliveries,
           NoFault \/ Fault(m), UNCHANGED <<elsewhere, mem, markers>>,
           Delivered(plan.kind[m], s, mem[m], c, b, FALSE, m \in failed'),
           OnceEach(s, c, b, g, FALSE),
           crashes = 0 => Undisturbed(s, mem[m], c, b, FALSE, m \in failed'),
           Recorded(m, s, c, b, g), PlacedAt(m, b.texts)
    PROVE  Inv'
<1>1. mem[m] \in Memory /\ Resolve(m) \in Message /\ faults \in Nat
  BY TerminalBefore
<1>2. failed' \in {failed, failed \cup {m}} /\ faults' \in Nat
  BY <1>1 DEF NoFault, Fault, StoreFault
<1>3. Renders(m, s, renders[m], mem[m], c, b, g, markers[Resolve(m)]) /\ rendered' = rendered
  BY <1>1, <1>2, Unmoved DEF Renders, Goto
<1> QED BY <1>1, <1>3, TerminalStepKeeps

\* A text that is added, or not, to those of its turn.
LEMMA TextsAfter ==
    ASSUME NEW m \in Message, NEW r \in Message, NEW t \in Seq(Message), NEW h \in BOOLEAN,
           PlacedAt(m, t), m \notin lost => r = m
    PROVE  /\ AppendIf(t, r, h) \in Seq(Message) /\ PlacedAt(m, AppendIf(t, r, h))
           /\ Len(AppendIf(t, r, h)) = Len(t) + Once(h) /\ Len(t) \in Nat
           /\ h \/ t # <<>> => AppendIf(t, r, h) # <<>>
<1>1. CASE h
  <2>1. /\ Append(t, r) \in Seq(Message) /\ Append(t, r) # <<>> /\ Len(Append(t, r)) = Len(t) + 1
        /\ \A i \in 1 .. Len(t) : Append(t, r)[i] = t[i]
        /\ Append(t, r)[Len(t) + 1] = r
    BY AppendProperties, EmptySeq
  <2>2. /\ DOMAIN Append(t, r) = 1 .. (Len(t) + 1) /\ DOMAIN t = 1 .. Len(t) /\ Len(t) \in Nat
    BY <2>1, LenProperties
  <2>3. PlacedAt(m, Append(t, r))
    BY <2>1, <2>2 DEF PlacedAt
  <2> QED BY <1>1, <2>1, <2>2, <2>3 DEF AppendIf, Once
<1>2. CASE ~h
  BY <1>2, LenProperties DEF AppendIf, Once
<1> QED BY <1>1, <1>2

\* The final text is edited in or posted: a first, a second time, or not at all.
LEMMA DeliverFinalTextKeeps ==
    ASSUME Inv, NEW m \in Message, Live(m), Answers(m), "text" \notin checkpoints[m],
           DeliverFinalText(m),
           UNCHANGED <<elsewhere, checkpoints, deliveryFile, mem, markers>>
    PROVE  Inv'
<1> DEFINE c == checkpoints[m]
           k == plan.kind[m]
           o == room[m]
           r == Resolve(m)
<1>1. /\ renders[m] # <<>> /\ step[m] = "begin" /\ ~mem[m].terminal /\ Current(m) = "terminal"
      /\ k \in {"reply", "error"}
  BY DEF Live, At, Answers
<1>2. /\ o \in Board /\ c \in SUBSET Checkpoint /\ r \in Message /\ gap[m] \in Gaps
      /\ o.interims \in Nat /\ o.files \in Nat /\ o.texts \in Seq(Message) /\ faults \in Nat
      /\ Len(o.texts) \in Nat /\ gap[m].text \in Nat /\ gap[m].attachment \in Nat
      /\ mem[m].interim \in BOOLEAN /\ mem[m].terminal = FALSE
      /\ Delivered(k, "begin", mem[m], c, o, FALSE, m \in failed)
      /\ OnceEach("begin", c, o, gap[m], FALSE)
      /\ crashes = 0 => Undisturbed("begin", mem[m], c, o, FALSE, m \in failed)
      /\ mem[m].interim => o.interims > 0
      /\ m \notin lost => r = m
      /\ OnFile(m, "begin", c, o, gap[m]) /\ PlacedAt(m, o.texts)
      /\ ~FinishedOnFile(m) /\ ~Finished(m)
  BY <1>1, TerminalBefore
<1>3. /\ checkpoints' = [checkpoints EXCEPT ![m] = c]
      /\ room \in [Message -> Board] /\ gap \in [Message -> Gaps]
  BY Unmoved DEF Inv, TypeOK, Gaps
<1>4. PICK edited, posted \in BOOLEAN, s \in {"texted", "reject"} :
        /\ edited => mem[m].interim
        /\ \/ NoFault /\ s = "texted" /\ edited = mem[m].interim /\ posted = ~edited
           \/ Fault(m) /\ s = "texted" /\ mem[m].interim /\ posted
           \/ Fault(m) /\ s = "reject"
        /\ Goto(m, s)
        /\ room' = [room EXCEPT
              ![m].texts = AppendIf(AppendIf(@, Resolve(m), edited), Resolve(m), posted),
              ![m].interims = IF edited THEN @ - 1 ELSE @]
        /\ gap' = [gap EXCEPT
              ![m].text = @ + ((Once(edited) + Once(posted)) - Once(s = "texted"))]
  BY ZenonT(30) DEF DeliverFinalText
<1> DEFINE t == AppendIf(AppendIf(o.texts, r, edited), r, posted)
           i == IF edited THEN o.interims - 1 ELSE o.interims
           n == Once(edited) + Once(posted)
           z == Once(s = "texted")
           b == [o EXCEPT !.texts = t, !.interims = i]
           g == [gap[m] EXCEPT !.text = @ + (n - z)]
<1> HIDE DEF c, k, r
<1>5. /\ t \in Seq(Message) /\ PlacedAt(m, t) /\ Len(t) = Len(o.texts) + n
      /\ edited \/ posted => t # <<>>
  <2> DEFINE u == AppendIf(o.texts, r, edited)
  <2>1. /\ u \in Seq(Message) /\ PlacedAt(m, u) /\ Len(u) = Len(o.texts) + Once(edited)
        /\ edited => u # <<>>
    <3>1. /\ o.texts \in Seq(Message) /\ r \in Message /\ PlacedAt(m, o.texts)
          /\ m \notin lost => r = m
      BY <1>2
    <3> HIDE DEF o
    <3> QED BY <3>1, TextsAfter, Zenon
  <2> HIDE DEF u
  <2>2. /\ AppendIf(u, r, posted) \in Seq(Message) /\ PlacedAt(m, AppendIf(u, r, posted))
        /\ Len(AppendIf(u, r, posted)) = Len(u) + Once(posted)
        /\ posted \/ u # <<>> => AppendIf(u, r, posted) # <<>>
    <3>1. r \in Message /\ (m \notin lost => r = m)
      BY <1>2
    <3> QED BY <3>1, <2>1, TextsAfter, Zenon
  <2>3. (Len(o.texts) + Once(edited)) + Once(posted) = Len(o.texts) + n
    <3>1. Once(edited) \in Nat /\ Once(posted) \in Nat
      BY DEF Once
    <3>2. Len(o.texts) \in Nat
      BY <1>2
    <3> HIDE DEF o
    <3> QED BY <3>1, <3>2
  <2> HIDE DEF o, n
  <2> QED BY <2>1, <2>2, <2>3 DEF u
<1>6. /\ n \in Nat /\ z \in {0, 1} /\ n - z \in Nat
      /\ s = "texted" => z = 1 /\ (edited \/ posted)
      /\ s = "reject" => z = 0
  BY <1>4 DEF Once
<1>7. i \in Nat
  BY <1>2, <1>4
<1>8. b \in Board /\ b.texts = t /\ b.files = o.files /\ b.interims = i
  BY <1>2, <1>5, <1>7 DEF Board
<1>9. room' = [room EXCEPT ![m] = b]
  BY <1>3, <1>4 DEF Board, r
<1>10. /\ g \in Gaps /\ g.text = gap[m].text + (n - z) /\ g.attachment = gap[m].attachment
  BY <1>2, <1>6 DEF Gaps
<1>11. gap' = [gap EXCEPT ![m] = g]
  BY <1>3, <1>4 DEF Gaps
<1>12. Len(t) <= g.text + z
  <2>1. Len(o.texts) <= gap[m].text
    BY <1>2 DEF OnceEach, Within, c
  <2> HIDE DEF n, z, t, g
  <2> QED BY <2>1, <1>2, <1>5, <1>6, <1>10
<1>13. crashes = 0 /\ m \notin failed' => i = 0
  <2>1. SUFFICES ASSUME crashes = 0, m \notin failed' PROVE i = 0
    OBVIOUS
  <2>2. NoFault /\ edited = mem[m].interim /\ failed' = failed
    BY <2>1, <1>4 DEF Fault, NoFault
  <2>3. o.interims = (IF mem[m].interim THEN 1 ELSE 0)
    BY <2>1, <2>2, <1>2 DEF Undisturbed
  <2> QED BY <2>2, <2>3, <1>2
<1>14. (s = "reject" => m \in failed') /\ failed \subseteq failed' /\ (NoFault \/ Fault(m))
  BY <1>4 DEF Fault, NoFault
<1> HIDE DEF t, i, n, z, b, g, o
<1>15. Delivered(k, s, mem[m], c, b, FALSE, m \in failed')
  <2>1. s = "texted" => b.texts # <<>>
    BY <1>5, <1>6, <1>8
  <2>2. Backed(c, b)
    BY <1>2, <1>8 DEF Delivered, Backed, c
  <2> QED BY <1>1, <1>2, <1>14, <2>1, <2>2 DEF Delivered, Effects
<1>16. Within(Len(b.texts), g.text, s = "texted")
  BY <1>4, <1>6, <1>8, <1>10, <1>12 DEF Within, Gaps
<1>17. OnceEach(s, c, b, g, FALSE)
  <2>1. "text" \notin c /\ s # "attached"
    BY <1>4 DEF c
  <2>2. Within(b.files, g.attachment, "attachment" \in c)
    BY <1>2, <1>8, <1>10 DEF OnceEach
  <2> QED BY <1>16, <2>1, <2>2 DEF OnceEach
<1>18. crashes = 0 => Undisturbed(s, mem[m], c, b, FALSE, m \in failed')
  BY <1>8, <1>13, <1>4 DEF Undisturbed, c
<1>19. Recorded(m, s, c, b, g)
  <2> DEFINE f == deliveryFile.checkpoints[m]
  <2>1. f \subseteq c /\ "text" \notin f /\ s # "attached"
    BY <1>2, <1>4 DEF OnFile, c
  <2>2. Backed(f, b)
    BY <1>2, <1>8, <2>1 DEF OnFile, Backed
  <2>3. Within(b.files, g.attachment, "attachment" \in f)
    BY <1>2, <1>8, <1>10 DEF OnceEach, OnFile
  <2>4. OnceEach(s, f, b, g, FALSE)
    BY <1>16, <2>1, <2>3 DEF OnceEach
  <2>5. FinishedOnFile(m) = FALSE
    BY <1>2 DEF FinishedOnFile
  <2> QED BY <2>1, <2>2, <2>4, <2>5 DEF Recorded, OnFile
<1>20. s \in Steps \ {"begin"} /\ PlacedAt(m, b.texts) /\ MaySaveDeliveries
  BY <1>4, <1>5, <1>8 DEF Steps, MaySaveDeliveries
<1> QED BY <1>1, <1>2, <1>3, <1>4, <1>8, <1>9, <1>10, <1>11, <1>14, <1>15, <1>17, <1>18,
           <1>19, <1>20, EffectKeeps DEF k

LEMMA OnAnswerKeeps ==
    ASSUME Inv, NEW m \in Message, OnAnswer(m)
    PROVE  Inv'
<1> DEFINE c == checkpoints[m]
           k == plan.kind[m]
           o == room[m]
<1>1. /\ Live(m) /\ Answers(m)
      /\ UNCHANGED <<elsewhere, checkpoints, deliveryFile, mem, markers>>
      /\ renders[m] # <<>> /\ step[m] = "begin" /\ ~mem[m].terminal /\ Current(m) = "terminal"
      /\ k \in {"reply", "error"}
  BY DEF OnAnswer, Live, At, Answers
<1>2. CASE "text" \notin c /\ DeliverFinalText(m)
  BY <1>1, <1>2, DeliverFinalTextKeeps
<1>3. CASE /\ "text" \in c /\ UNCHANGED <<room, gap>>
           /\ \/ NoFault /\ Goto(m, AfterText(m))
              \/ Fault(m) /\ Goto(m, "reject")
  <2>1. /\ o \in Board /\ c \in SUBSET Checkpoint /\ gap[m] \in Gaps
        /\ mem[m].terminal = FALSE
        /\ Delivered(k, "begin", mem[m], c, o, FALSE, m \in failed)
        /\ OnceEach("begin", c, o, gap[m], FALSE)
        /\ crashes = 0 => Undisturbed("begin", mem[m], c, o, FALSE, m \in failed)
        /\ OnFile(m, "begin", c, o, gap[m]) /\ PlacedAt(m, o.texts)
    BY <1>1, TerminalBefore
  <2>2. /\ checkpoints' = [checkpoints EXCEPT ![m] = c] /\ room' = [room EXCEPT ![m] = o]
        /\ gap' = [gap EXCEPT ![m] = gap[m]]
    BY <1>1, <1>3, Unmoved
  <2>3. PICK s \in {"attach", "cleanup", "reject"} :
          /\ Goto(m, s) /\ (NoFault \/ Fault(m)) /\ (s = "reject" => Fault(m))
          /\ s = "cleanup" => k # "reply"
    BY <1>3 DEF AfterText
  <2> HIDE DEF c, k, o
  <2>4. failed \subseteq failed' /\ (s = "reject" => m \in failed')
    BY <2>3 DEF NoFault, Fault
  <2>5. Delivered(k, s, mem[m], c, o, FALSE, m \in failed')
    BY <1>1, <1>3, <2>1, <2>3, <2>4 DEF Delivered, Backed, AnsweredBy, Effects
  <2>6. OnceEach(s, c, o, gap[m], FALSE)
    BY <2>1, <2>3 DEF OnceEach
  <2>7. crashes # 0
    BY <1>1, <1>3, <2>1 DEF Undisturbed
  <2>8. Recorded(m, s, c, o, gap[m]) /\ MaySaveDeliveries
    BY <1>1, <2>1, <2>3 DEF Recorded, OnFile, OnceEach, MaySaveDeliveries
  <2>9. s \in Steps \ {"begin"}
    BY DEF Steps
  <2> QED BY <1>1, <2>1, <2>2, <2>3, <2>5, <2>6, <2>7, <2>8, <2>9, EffectKeeps DEF k
<1> QED BY <1>2, <1>3 DEF OnAnswer

\* A checkpoint is recorded after the effect it is about, or its write fails, which cuts
\* the effect off from it.
LEMMA MarkCheckpointKeeps ==
    ASSUME Inv, NEW m \in Message, renders[m] # <<>>,
           NEW p \in Checkpoint, step[m] = IF p = "text" THEN "texted" ELSE "attached",
           NEW next \in {"attach", "cleanup"}, next = "cleanup" => p = "attachment" \/ plan.kind[m] # "reply",
           MarkCheckpoint(m, p, next)
    PROVE  Inv'
<1> DEFINE c == checkpoints[m]
           d == c \cup {p}
           k == plan.kind[m]
           o == room[m]
<1>1. /\ step[m] \in {"texted", "attached"} /\ UNCHANGED <<elsewhere, mem, markers, room>>
      /\ checkpoints' = [checkpoints EXCEPT ![m] = d] /\ p \in {"text", "attachment"}
  BY DEF MarkCheckpoint, pumble, Checkpoint
<1>2. ~mem[m].terminal
  BY <1>1, RenderBefore DEF TurnSound, Progress
<1>3. /\ Current(m) = "terminal" /\ o \in Board /\ c \in SUBSET Checkpoint /\ gap[m] \in Gaps
      /\ gap[m].text \in Nat /\ gap[m].attachment \in Nat
      /\ Len(o.texts) \in Nat /\ o.files \in Nat /\ mem[m].terminal = FALSE
      /\ Delivered(k, step[m], mem[m], c, o, FALSE, m \in failed)
      /\ OnceEach(step[m], c, o, gap[m], FALSE)
      /\ crashes = 0 => Undisturbed(step[m], mem[m], c, o, FALSE, m \in failed)
      /\ OnFile(m, step[m], c, o, gap[m]) /\ PlacedAt(m, o.texts)
      /\ FinishedOnFile(m) = FALSE /\ Finished(m) = FALSE
  <2>1. ~FinishedOnFile(m) /\ ~Finished(m)
    BY <1>1, <1>2, TerminalBefore
  <2>2. FinishedOnFile(m) = FALSE /\ Finished(m) = FALSE
    BY <2>1 DEF FinishedOnFile, Finished
  <2> QED BY <2>2, <1>1, <1>2, TerminalBefore
<1>4. room' = [room EXCEPT ![m] = o] /\ d \in SUBSET Checkpoint /\ gap \in [Message -> Gaps]
      /\ gap = [gap EXCEPT ![m] = gap[m]]
  BY <1>1, <1>3, Unmoved DEF Checkpoint, Inv, TypeOK, Gaps
<1> HIDE DEF c, k, o
<1>5. Backed(d, o)
  BY <1>1, <1>3 DEF Delivered, Backed, Effects
<1>6. CASE NoFault /\ Goto(m, next) /\ SaveDeliveries /\ UNCHANGED gap
  <2>1. failed' = failed /\ gap' = [gap EXCEPT ![m] = gap[m]]
    BY <1>4, <1>6 DEF NoFault
  <2>2. Delivered(k, next, mem[m], d, o, FALSE, m \in failed')
    BY <1>1, <1>3, <1>5, <2>1 DEF Delivered, Backed, AnsweredBy, Effects, k
  <2>3. OnceEach(next, d, o, gap[m], FALSE)
    BY <1>1, <1>3 DEF OnceEach, Within
  <2>4. crashes = 0 => Undisturbed(next, mem[m], d, o, FALSE, m \in failed')
    BY <1>1, <1>3, <2>1 DEF Undisturbed
  <2>5. next \in Steps \ {"begin"} /\ Recorded(m, next, d, o, gap[m]) /\ MaySaveDeliveries
    BY <1>6 DEF Steps, Recorded, MaySaveDeliveries
  <2> HIDE DEF d
  <2> QED BY <1>1, <1>2, <1>3, <1>4, <1>6, <2>1, <2>2, <2>3, <2>4, <2>5, EffectKeeps DEF k
<1>7. CASE /\ Fault(m) /\ Goto(m, "reject") /\ MaySaveDeliveries
           /\ gap' = [gap EXCEPT ![m][p] = @ + 1]
  <2>1. PICK g \in Gaps :
          /\ gap' = [gap EXCEPT ![m] = g]
          /\ g.text = IF p = "text" THEN gap[m].text + 1 ELSE gap[m].text
          /\ g.attachment = IF p = "text" THEN gap[m].attachment ELSE gap[m].attachment + 1
    <3>1. CASE p = "text"
      <4> DEFINE g == [gap[m] EXCEPT !.text = @ + 1]
      <4>1. g \in Gaps /\ g.text = gap[m].text + 1 /\ g.attachment = gap[m].attachment
        BY <1>3 DEF Gaps
      <4>2. gap' = [gap EXCEPT ![m] = g]
        BY <1>4, <1>7, <3>1 DEF Gaps
      <4> HIDE DEF g
      <4> QED BY <3>1, <4>1, <4>2
    <3>2. CASE p = "attachment"
      <4> DEFINE g == [gap[m] EXCEPT !.attachment = @ + 1]
      <4>1. g \in Gaps /\ g.text = gap[m].text /\ g.attachment = gap[m].attachment + 1
        BY <1>3 DEF Gaps
      <4>2. gap' = [gap EXCEPT ![m] = g]
        BY <1>4, <1>7, <3>2 DEF Gaps
      <4> HIDE DEF g
      <4> QED BY <3>2, <4>1, <4>2
    <3> QED BY <1>1, <3>1, <3>2
  <2>2. m \in failed' /\ (m \in failed') = TRUE
    BY <1>7 DEF Fault
  <2>3. Delivered(k, "reject", mem[m], d, o, FALSE, m \in failed')
    BY <1>3, <1>5, <2>2 DEF Delivered, Effects
  <2>4. ASSUME NEW f \in SUBSET Checkpoint, OnceEach(step[m], f, o, gap[m], FALSE)
        PROVE  OnceEach("reject", f, o, g, FALSE) /\ OnceEach("reject", f \cup {p}, o, g, FALSE)
    BY <1>1, <1>3, <2>1, <2>4 DEF OnceEach, Within
  <2>5. OnceEach("reject", d, o, g, FALSE)
    BY <1>3, <2>4
  <2>6. Undisturbed("reject", mem[m], d, o, FALSE, m \in failed')
    BY <2>2 DEF Undisturbed
  <2>7. Recorded(m, "reject", d, o, g)
    <3>1. deliveryFile.checkpoints[m] \subseteq c
      BY <1>3 DEF OnFile
    <3>2. /\ deliveryFile.checkpoints[m] \in SUBSET Checkpoint
          /\ OnceEach(step[m], deliveryFile.checkpoints[m], o, gap[m], FALSE)
      BY <1>3, <3>1 DEF OnFile
    <3>3. OnceEach("reject", deliveryFile.checkpoints[m], o, g, FALSE)
      BY <3>2, <2>4
    <3>4. OnFile(m, "reject", d, o, g)
      BY <3>1, <3>3, <1>3 DEF OnFile
    <3> QED BY <3>4, <1>7 DEF Recorded, MaySaveDeliveries
  <2>8. "reject" \in Steps \ {"begin"}
    BY DEF Steps
  <2> HIDE DEF d
  <2> QED BY <1>1, <1>2, <1>3, <1>4, <1>7, <2>1, <2>3, <2>5, <2>6, <2>7, <2>8, EffectKeeps DEF k
<1> QED BY <1>6, <1>7 DEF MarkCheckpoint

LEMMA MarkTextCheckpointKeeps ==
    ASSUME Inv, NEW m \in Message, MarkTextCheckpoint(m)
    PROVE  Inv'
<1>1. renders[m] # <<>> /\ step[m] = "texted" /\ MarkCheckpoint(m, "text", AfterText(m))
  BY DEF MarkTextCheckpoint, At
<1>2. /\ "text" \in Checkpoint /\ AfterText(m) \in {"attach", "cleanup"}
      /\ AfterText(m) = "cleanup" => plan.kind[m] # "reply"
  BY DEF Checkpoint, AfterText
<1> QED BY <1>1, <1>2, MarkCheckpointKeeps

LEMMA MarkAttachmentCheckpointKeeps ==
    ASSUME Inv, NEW m \in Message, MarkAttachmentCheckpoint(m)
    PROVE  Inv'
<1>1. renders[m] # <<>> /\ step[m] = "attached" /\ MarkCheckpoint(m, "attachment", "cleanup")
  BY DEF MarkAttachmentCheckpoint, At
<1>2. "attachment" \in Checkpoint
  BY DEF Checkpoint
<1> QED BY <1>1, <1>2, MarkCheckpointKeeps

LEMMA DeliverAttachmentsKeeps ==
    ASSUME Inv, NEW m \in Message, DeliverAttachments(m)
    PROVE  Inv'
<1> DEFINE c == checkpoints[m]
           k == plan.kind[m]
           o == room[m]
           f == deliveryFile.checkpoints[m]
<1>1. /\ renders[m] # <<>> /\ step[m] = "attach"
      /\ UNCHANGED <<elsewhere, checkpoints, deliveryFile, mem, markers>>
  BY DEF DeliverAttachments, At
<1>2. ~mem[m].terminal
  BY <1>1, RenderBefore DEF TurnSound, Progress
<1>3. /\ Current(m) = "terminal" /\ o \in Board /\ c \in SUBSET Checkpoint /\ gap[m] \in Gaps
      /\ o.files \in Nat /\ gap[m].attachment \in Nat /\ mem[m].terminal = FALSE
      /\ Delivered(k, "attach", mem[m], c, o, FALSE, m \in failed)
      /\ OnceEach("attach", c, o, gap[m], FALSE)
      /\ crashes = 0 => Undisturbed("attach", mem[m], c, o, FALSE, m \in failed)
      /\ OnFile(m, "attach", c, o, gap[m]) /\ PlacedAt(m, o.texts)
      /\ FinishedOnFile(m) = FALSE /\ ~Finished(m)
  <2>1. ~FinishedOnFile(m)
    BY <1>1, <1>2, TerminalBefore
  <2>2. FinishedOnFile(m) = FALSE
    BY <2>1 DEF FinishedOnFile
  <2> QED BY <2>2, <1>1, <1>2, TerminalBefore
<1>4. /\ room = [room EXCEPT ![m] = o] /\ checkpoints' = [checkpoints EXCEPT ![m] = c]
      /\ gap = [gap EXCEPT ![m] = gap[m]] /\ MaySaveDeliveries
      /\ room \in [Message -> Board] /\ gap \in [Message -> Gaps]
  BY <1>1, Unmoved DEF Inv, TypeOK, Gaps, MaySaveDeliveries
<1>f. f \subseteq c
  BY <1>3 DEF OnFile
<1>5. {"attached", "cleanup", "reject"} \subseteq Steps \ {"begin"}
  BY DEF Steps
<1>6. CASE "attachment" \in c /\ Goto(m, "cleanup") /\ NoFault /\ UNCHANGED <<room, gap>>
  <2> HIDE DEF c, k, o, f
  <2>1. failed' = failed /\ room' = [room EXCEPT ![m] = o] /\ gap' = [gap EXCEPT ![m] = gap[m]]
    BY <1>4, <1>6 DEF NoFault
  <2>2. Delivered(k, "cleanup", mem[m], c, o, FALSE, m \in failed')
    BY <1>2, <1>3, <1>6, <2>1 DEF Delivered, Backed, AnsweredBy, Effects
  <2>3. OnceEach("cleanup", c, o, gap[m], FALSE)
    BY <1>3 DEF OnceEach
  <2>4. crashes = 0 => Undisturbed("cleanup", mem[m], c, o, FALSE, m \in failed')
    BY <1>3, <2>1 DEF Undisturbed
  <2>5. Recorded(m, "cleanup", c, o, gap[m])
    BY <1>1, <1>3 DEF Recorded, OnFile, OnceEach
  <2> QED BY <1>1, <1>2, <1>3, <1>4, <1>5, <1>6, <2>1, <2>2, <2>3, <2>4, <2>5, EffectKeeps DEF k
<1>7. ASSUME "attachment" \notin c, NEW sent \in BOOLEAN, NEW s \in {"attached", "reject"},
             s = "attached" => sent /\ NoFault, s = "reject" => Fault(m), Goto(m, s),
             room' = [room EXCEPT ![m].files = @ + Once(sent)],
             gap' = [gap EXCEPT ![m].attachment = @ + Once(sent /\ s = "reject")]
      PROVE  Inv'
  <2> DEFINE n == Once(sent)
             z == Once(sent /\ s = "reject")
             b == [o EXCEPT !.files = @ + n]
             g == [gap[m] EXCEPT !.attachment = @ + z]
  <2>1. /\ n \in Nat /\ z \in Nat /\ (s = "attached" => n = 1 /\ z = 0)
        /\ s = "reject" => n = z
    BY <1>7 DEF Once
  <2>2. /\ b \in Board /\ b.texts = o.texts /\ b.files = o.files + n /\ b.interims = o.interims
        /\ b.files \in Nat
    <3> HIDE DEF n, o
    <3> QED BY <1>3, <2>1 DEF Board
  <2>3. /\ g \in Gaps /\ g.text = gap[m].text /\ g.attachment = gap[m].attachment + z
    <3> HIDE DEF z
    <3> QED BY <1>3, <2>1 DEF Gaps
  <2>4. room' = [room EXCEPT ![m] = b]
    <3> HIDE DEF n
    <3> QED BY <1>4, <1>7 DEF Board, n
  <2>5. gap' = [gap EXCEPT ![m] = g]
    <3> HIDE DEF z
    <3> QED BY <1>4, <1>7 DEF Gaps, z
  <2>6. /\ failed \subseteq failed' /\ (s = "reject" => m \in failed') /\ (NoFault \/ Fault(m))
        /\ s = "attached" => failed' = failed
    BY <1>7 DEF NoFault, Fault
  <2>7. "attachment" \notin f
    BY <1>f, <1>7
  <2> HIDE DEF c, k, o, f, b, g, n, z
  <2>8. Delivered(k, s, mem[m], c, b, FALSE, m \in failed')
    BY <1>2, <1>3, <1>7, <2>1, <2>2, <2>6 DEF Delivered, Backed, Effects
  <2>9. ASSUME NEW e, "attachment" \notin e, OnceEach("attach", e, o, gap[m], FALSE)
        PROVE  OnceEach(s, e, b, g, FALSE)
    <3>1. o.files <= gap[m].attachment
      BY <2>9 DEF OnceEach, Within
    <3>2. Within(b.files, g.attachment, s = "attached")
      BY <1>3, <1>7, <2>1, <2>2, <2>3, <3>1 DEF Within
    <3>3. Within(Len(b.texts), g.text, "text" \in e)
      BY <2>2, <2>3, <2>9 DEF OnceEach
    <3> QED BY <3>2, <3>3, <2>9, <1>7 DEF OnceEach
  <2>10. OnceEach(s, c, b, g, FALSE)
    BY <1>3, <1>7, <2>9
  <2>11. crashes = 0 => Undisturbed(s, mem[m], c, b, FALSE, m \in failed')
    BY <1>3, <1>7, <2>2, <2>6 DEF Undisturbed
  <2>12. Recorded(m, s, c, b, g)
    <3>1. OnceEach("attach", f, o, gap[m], FALSE) /\ Backed(f, o)
      BY <1>3 DEF OnFile, f
    <3>2. OnceEach(s, f, b, g, FALSE)
      BY <3>1, <2>7, <2>9
    <3>3. Backed(f, b)
      BY <3>1, <2>2, <2>7 DEF Backed
    <3> QED BY <1>1, <1>3, <1>f, <3>2, <3>3 DEF Recorded, OnFile, f
  <2>13. s \in Steps \ {"begin"} /\ PlacedAt(m, b.texts)
    BY <1>3, <1>5, <2>2
  <2> QED BY <1>1, <1>2, <1>3, <1>4, <1>7, <2>2, <2>3, <2>4, <2>5, <2>6, <2>8, <2>10, <2>11,
             <2>12, <2>13, EffectKeeps DEF k
<1>8. CASE /\ "attachment" \notin c /\ Goto(m, "attached") /\ NoFault /\ UNCHANGED gap
           /\ room' = [room EXCEPT ![m].files = @ + 1]
  <2>1. /\ room' = [room EXCEPT ![m].files = @ + Once(TRUE)]
        /\ gap' = [gap EXCEPT ![m].attachment = @ + Once(TRUE /\ "attached" = "reject")]
    BY <1>3, <1>4, <1>8 DEF Once, Gaps
  <2> QED BY <1>7, <1>8, <2>1
<1>9. ASSUME "attachment" \notin c, Goto(m, "reject"), Fault(m), NEW sent \in BOOLEAN,
             room' = [room EXCEPT ![m].files = @ + Once(sent)],
             gap' = [gap EXCEPT ![m].attachment = @ + Once(sent)]
      PROVE  Inv'
  <2>1. gap' = [gap EXCEPT ![m].attachment = @ + Once(sent /\ "reject" = "reject")]
    BY <1>9 DEF Once
  <2> QED BY <1>7, <1>9, <2>1
<1> QED BY <1>6, <1>8, <1>9 DEF DeliverAttachments

\* The end of a turn, delivered or rejected.
LEMMA ClearTerminalStatusKeeps ==
    ASSUME Inv, NEW m \in Message, ClearTerminalStatus(m)
    PROVE  Inv'
<1> DEFINE c == checkpoints[m]
           k == plan.kind[m]
           o == room[m]
           q == renders[m]
<1>1. /\ step[m] \in {"cleanup", "reject"} /\ UNCHANGED <<elsewhere, checkpoints, room, gap>>
      /\ MaySaveDeliveries
  BY DEF ClearTerminalStatus, ClearStatusReactions
<1>2. q # <<>>
  BY <1>1 DEF Inv, TypeOK
<1>3. ~mem[m].terminal
  BY <1>1, <1>2, RenderBefore DEF TurnSound, Progress
<1>4. /\ mem[m] \in Memory /\ o \in Board /\ c \in SUBSET Checkpoint /\ Tail(q) \in Seq(Type)
      /\ gap[m] \in Gaps /\ Current(m) \in Type
      /\ Delivered(k, step[m], mem[m], c, o, FALSE, m \in failed)
      /\ OnceEach(step[m], c, o, gap[m], FALSE)
      /\ crashes = 0 => Undisturbed(step[m], mem[m], c, o, FALSE, m \in failed)
      /\ OnFile(m, step[m], c, o, gap[m]) /\ PlacedAt(m, o.texts)
      /\ Finished(m) = FALSE
  <2>1. ~Finished(m) /\ q \in Seq(Type)
    BY <1>1, <1>2, <1>3, TerminalBefore
  <2>2. Finished(m) = FALSE
    BY <2>1 DEF Finished
  <2>3. Tail(q) \in Seq(Type) /\ Current(m) \in Type
    BY <1>2, <2>1, HeadTailProperties DEF Current
  <2> QED BY <1>1, <1>2, <1>3, <2>2, <2>3, TerminalBefore
<1>5. PICK left \in SUBSET Reaction :
        /\ markers' = [markers EXCEPT ![Resolve(m)] = left]
        /\ failed' \in {failed, failed \cup {m}} /\ faults' \in Nat
        /\ m \notin failed' => left = {}
  BY <1>2, StatusCleared DEF ClearTerminalStatus
<1> DEFINE n == SeenAfter(m, step[m] = "cleanup")
           x == [mem[m] EXCEPT !.terminal = TRUE, !.seen = n]
<1>6. n \in SUBSET Type
  BY <1>4 DEF SeenAfter, Memory
<1>7. /\ mem' = [mem EXCEPT ![m].terminal = TRUE, ![m].seen = n]
      /\ mem \in [Message -> Memory] /\ Ends(m, step[m] = "cleanup")
  BY DEF ClearTerminalStatus, Inv, TypeOK
<1> HIDE DEF n
<1>8. x \in Memory /\ x.terminal = TRUE /\ mem' = [mem EXCEPT ![m] = x]
  BY <1>4, <1>6, <1>7 DEF Memory
<1> HIDE DEF x
<1>9. Renders(m, "begin", Tail(q), x, c, o, gap[m], left)
  <2>1. /\ renders' = [renders EXCEPT ![m] = Tail(q)] /\ step' = [step EXCEPT ![m] = "begin"]
        /\ rendered' \in {rendered, rendered \cup {[turn |-> m, type |-> Current(m)]}}
    BY <1>7 DEF Ends
  <2>2. /\ checkpoints' = [checkpoints EXCEPT ![m] = c] /\ room' = [room EXCEPT ![m] = o]
        /\ gap' = [gap EXCEPT ![m] = gap[m]]
    BY <1>1, Unmoved
  <2> QED BY <2>1, <2>2, <1>1, <1>5, <1>8 DEF Renders
<1> HIDE DEF c, k, o, q
<1>10. Progress("begin", Tail(q), x, o, Rendered(m)', FALSE)
  BY <1>8 DEF Progress
<1>11. Delivered(k, "begin", x, c, o, FALSE, m \in failed')
  BY <1>1, <1>4, <1>5, <1>8 DEF Delivered, Effects
<1>12. OnceEach("begin", c, o, gap[m], FALSE)
  BY <1>1, <1>4 DEF OnceEach
<1>13. crashes = 0 => Undisturbed("begin", x, c, o, FALSE, m \in failed')
  BY <1>1, <1>4, <1>5, <1>8 DEF Undisturbed
<1>14. TurnSound(k, "begin", Tail(q), x, c, o, gap[m], Rendered(m)', Finished(m), m \in failed')
  BY <1>4, <1>10, <1>11, <1>12 DEF TurnSound
<1>15. crashes = 0 => Undisturbed("begin", x, c, o, Finished(m), m \in failed')
  BY <1>4, <1>13
<1>16. Recorded(m, "begin", c, o, gap[m])
  BY <1>1, <1>4 DEF Recorded, OnFile, OnceEach, MaySaveDeliveries
<1>17. "begin" \in Steps /\ renders[m] # <<>>
  BY <1>2 DEF Steps, q
<1> QED BY <1>3, <1>4, <1>5, <1>8, <1>9, <1>14, <1>15, <1>16, <1>17, RenderKeeps DEF k

-----------------------------------------------------------------------------
(***************************************************************************)
(* The core's events, the records of them, and restarts.                   *)
(***************************************************************************)

LEMMA HandleCoreEventKeeps ==
    ASSUME Inv, NEW e \in Event, HandleCoreEvent(e)
    PROVE  Inv'
<1> DEFINE m == e.turn
<1>1. /\ m \in Message /\ e.type \in Type /\ e = [turn |-> m, type |-> e.type]
      /\ m \in accepted
      /\ UNCHANGED <<plan, inbound, chain, posts, lost, byConversation, byCorrelation,
                     targetFile, accepted, step, rendered, completed, checkpoints,
                     deliveryFile, mem, room, markers, faults, crashes, failed, gap>>
      /\ deliveries' = deliveries + 1
  BY DEF HandleCoreEvent, Event, webhook, targets, pumble, history, records
<1>2. deliveries' \in Nat
  BY <1>1 DEF Inv, TypeOK
<1>3. ChainSound' /\ Bound'
  BY <1>1 DEF Inv, ChainSound, Bound
<1>4. CASE e \in completed
  <2>1. renders' = renders /\ forgetting' \subseteq Message
        /\ \A n \in forgetting' : n \in forgetting \/ (n = m /\ e.type = "terminal")
    BY <1>1, <1>4 DEF HandleCoreEvent, Inv, TypeOK
  <2>2. TypeOK'
    BY <1>1, <1>2, <2>1 DEF Inv, TypeOK
  <2>3. Reachable'
    <3>1. e.type = "terminal" => Finished(m)
      BY <1>1, <1>4 DEF Finished
    <3> QED BY <3>1, <2>1, <1>1 DEF Inv, Reachable, Finished
  <2> QED BY <1>1, <1>3, <2>1, <2>2, <2>3, RenderingKept DEF Inv
<1>5. CASE e \notin completed
  <2> DEFINE q == renders[m]
             a == Append(q, e.type)
  <2>1. renders' = [renders EXCEPT ![m] = a] /\ forgetting' = forgetting
    BY <1>5 DEF HandleCoreEvent
  <2>2. renders \in [Message -> Seq(Type)] /\ q \in Seq(Type)
    BY <1>1 DEF Inv, TypeOK
  <2>3. /\ a \in Seq(Type) /\ a # <<>> /\ Len(a) = Len(q) + 1 /\ Len(q) \in Nat
        /\ \A i \in 1 .. Len(q) : a[i] = q[i] /\ a[Len(q) + 1] = e.type
        /\ DOMAIN a = 1 .. (Len(q) + 1) /\ DOMAIN q = 1 .. Len(q)
        /\ a[Len(q) + 1] = e.type
    BY <1>1, <2>2, AppendProperties, LenProperties, EmptySeq
  <2>4. q # <<>> => Head(a) = Head(q)
    BY <2>2, <2>3, HeadTailProperties, EmptySeq
  <2>5. e.type # "terminal" /\ (\A i \in DOMAIN q : q[i] # "terminal")
           => \A i \in DOMAIN a : a[i] # "terminal"
    BY <2>3
  <2>6. e.type = "terminal" => ~Finished(m)
    BY <1>1, <1>5 DEF Finished
  <2> HIDE DEF a
  <2>7. renders'[m] = a /\ \A n \in Message : n # m => renders'[n] = renders[n]
    BY <1>1, <2>1, <2>2
  <2>8. TypeOK'
    <3>1. renders' \in [Message -> Seq(Type)]
      BY <1>1, <2>1, <2>2, <2>3
    <3>2. \A n \in Message : step'[n] # "begin" => renders'[n] # <<>>
      BY <1>1, <2>3, <2>7 DEF Inv, TypeOK
    <3> QED BY <1>1, <1>2, <2>1, <3>1, <3>2 DEF Inv, TypeOK
  <2>9. Reachable'
    <3>1. \A n \in Message : renders'[n] # <<>> => n \in accepted
      BY <1>1, <2>7 DEF Inv, Reachable
    <3> QED BY <3>1, <2>1, <1>1 DEF Inv, Reachable, Finished
  <2>10. TurnsSound'
    <3>1. SUFFICES ASSUME NEW n \in Message
                   PROVE  TurnSound(plan.kind[n], step[n], renders'[n], mem[n],
                                    checkpoints[n], room[n], gap[n], Rendered(n),
                                    Finished(n), n \in failed)
      BY <1>1 DEF TurnsSound, Rendered, Finished
    <3>2. TurnSound(plan.kind[n], step[n], renders[n], mem[n], checkpoints[n], room[n],
                    gap[n], Rendered(n), Finished(n), n \in failed)
      BY DEF Inv, TurnsSound
    <3>3. CASE n # m
      BY <3>2, <3>3, <2>7
    <3>4. CASE n = m
      <4>1. Progress(step[m], q, mem[m], room[m], Rendered(m), Finished(m))
        BY <3>2, <3>4 DEF TurnSound
      <4>2. Progress(step[m], a, mem[m], room[m], Rendered(m), Finished(m))
        <5> HIDE DEF q, m
        <5> QED BY <4>1, <2>3, <2>4, <2>5, <2>6 DEF Progress
      <4> QED BY <3>2, <3>4, <4>2, <2>7 DEF TurnSound
    <3> QED BY <3>3, <3>4
  <2>11. TurnsUndisturbed' /\ FileSound' /\ Placed' /\ Cleared'
    BY <1>1 DEF Inv, TurnsUndisturbed, FileSound, OnFile, FinishedOnFile, Placed, PlacedAt,
                Cleared, Finished
  <2> QED BY <1>3, <2>8, <2>9, <2>10, <2>11 DEF Inv
<1> QED BY <1>4, <1>5

LEMMA ForgetCorrelationKeeps ==
    ASSUME Inv, NEW m \in Message, ForgetCorrelation(m) \/ ForgetFails(m)
    PROVE  Inv'
<1>1. /\ m \in forgetting /\ forgetting' = forgetting \ {m}
      /\ byCorrelation' = [byCorrelation EXCEPT ![m] = None]
      /\ UNCHANGED <<plan, inbound, chain, posts, lost, byConversation, accepted, renders,
                     step, rendered, completed, checkpoints, deliveryFile, mem, room,
                     markers, deliveries, crashes, failed, gap>>
      /\ MaySaveTargets
  BY DEF ForgetCorrelation, ForgetFails, Forgets, MaySaveTargets, webhook, pumble, history,
         records
<1>2. TypeOK /\ Bound /\ byConversation' \in Message \cup {None}
      /\ byCorrelation \in [Message -> Message \cup {None}] /\ {deliveries, faults, crashes} \subseteq Nat
  BY <1>1 DEF Inv, TypeOK
<1>3. /\ byCorrelation' \in [Message -> Message \cup {None}] /\ byCorrelation'[m] = None
      /\ \A n \in Message : n # m => byCorrelation'[n] = byCorrelation[n]
  BY <1>1, <1>2
<1>4. \A n \in Message : byCorrelation'[n] \in {None, n}
  BY <1>2, <1>3 DEF Bound
<1>5. /\ targetFile' \in [byConversation : Message \cup {None},
                           byCorrelation : [Message -> Message \cup {None}]]
      /\ Bound'
      /\ \/ targetFile'.byConversation = byConversation'
         \/ targetFile'.byConversation = targetFile.byConversation
  BY <1>1, <1>2, <1>3, <1>4, TargetFileKept
<1>6. {deliveries', faults', crashes'} \subseteq Nat
  BY <1>1, <1>2 DEF ForgetCorrelation, ForgetFails, StoreFault
<1>7. TypeOK'
  BY <1>1, <1>2, <1>3, <1>5, <1>6 DEF TypeOK
<1>8. ChainSound'
  <2>1. \A n \in Message : inbound[n] \in AtHead =>
          /\ chain # <<>> /\ Head(chain) = n /\ byConversation' = n
          /\ targetFile'.byConversation # None
    BY <1>1, <1>5, PumbleAssumption DEF Inv, ChainSound
  <2> QED BY <1>1, <2>1 DEF Inv, ChainSound
<1>9. Finished(m)
  BY <1>1 DEF Inv, Reachable
<1>10. Reachable'
  <2>1. accepted # {} => byConversation' # None /\ targetFile'.byConversation # None
    BY <1>1, <1>5 DEF Inv, Reachable
  <2> QED BY <1>1, <1>3, <1>9, <2>1 DEF Inv, Reachable, Finished
<1> QED BY <1>1, <1>5, <1>7, <1>8, <1>10, RenderingKept DEF Inv

\* A terminal event is completed after its render() returned, when its turn is over.
LEMMA MarkCompletedKeeps ==
    ASSUME Inv, NEW e \in Event, MarkCompleted(e) \/ MarkCompletedFails(e)
    PROVE  Inv'
<1> DEFINE m == e.turn
<1>1. /\ m \in Message /\ e.type \in Type /\ e = [turn |-> m, type |-> e.type] /\ e \in rendered
      /\ rendered' = rendered \ {e} /\ completed' = completed \cup {e}
      /\ UNCHANGED <<plan, inbound, chain, posts, lost, byConversation, byCorrelation,
                     targetFile, accepted, renders, step, mem, room, markers, deliveries,
                     crashes, failed, gap>>
      /\ checkpoints' = IF e.type = "terminal" THEN [checkpoints EXCEPT ![m] = {}]
                                               ELSE checkpoints
      /\ MaySaveDeliveries
  BY DEF MarkCompleted, MarkCompletedFails, Completes, MaySaveDeliveries, Event, webhook,
         targets, pumble, history, bounds
<1>f. /\ forgetting' \subseteq Message /\ {deliveries', faults', crashes'} \subseteq Nat
      /\ \A n \in forgetting' : n \in forgetting \/ (n = m /\ e.type = "terminal")
  <2>1. forgetting \subseteq Message /\ {deliveries, faults, crashes} \subseteq Nat
    BY DEF Inv, TypeOK
  <2>2. /\ faults' = faults \/ faults' = faults + 1
        /\ \/ forgetting' = forgetting
           \/ e.type = "terminal" /\ forgetting' = forgetting \cup {m}
    BY DEF MarkCompleted, MarkCompletedFails, StoreFault, bounds
  <2>3. {deliveries', faults', crashes'} \subseteq Nat
    BY <1>1, <2>1, <2>2
  <2> QED BY <1>1, <2>1, <2>2, <2>3
<1>d. ASSUME checkpoints' \in [Message -> SUBSET {"text", "attachment"}]
      PROVE  deliveryFile' \in [completed : SUBSET Event,
                               checkpoints : [Message -> SUBSET {"text", "attachment"}]]
  <2>1. completed' \in SUBSET Event
    BY <1>1 DEF Inv, TypeOK
  <2>2. CASE SaveDeliveries
    BY <1>d, <2>1, <2>2 DEF SaveDeliveries
  <2>3. CASE UNCHANGED deliveryFile
    BY <2>3 DEF Inv, TypeOK
  <2> QED BY <1>1, <2>2, <2>3 DEF MaySaveDeliveries
<1>s. ASSUME TypeOK', TurnsSound',
             \A n \in Message : Finished(n)' \/ checkpoints'[n] = checkpoints[n],
             \A n \in Message : Finished(n) => Finished(n)'
      PROVE  FileSound'
  <2>1. CASE SaveDeliveries
    BY <1>s, <2>1, SavedSound
  <2>2. CASE UNCHANGED deliveryFile
    <3>1. ASSUME NEW n \in Message
          PROVE  OnFile(n, step[n], checkpoints[n], room[n], gap[n])'
      <4>1. OnFile(n, step[n], checkpoints[n], room[n], gap[n])
        BY DEF Inv, FileSound
      <4>2. FinishedOnFile(n)' = FinishedOnFile(n)
        BY <2>2 DEF FinishedOnFile
      <4>3. Finished(n)' \/ deliveryFile.checkpoints[n] \subseteq checkpoints'[n]
        BY <4>1, <1>s DEF OnFile
      <4> QED BY <1>1, <2>2, <4>1, <4>2, <4>3 DEF OnFile
    <3> QED BY <1>1, <2>2, <3>1 DEF Inv, FileSound
  <2> QED BY <1>1, <2>1, <2>2 DEF MaySaveDeliveries
<1>2. \A n \in Message : (Finished(n) => Finished(n)') /\ (Rendered(n)' => Rendered(n))
  BY <1>1 DEF Finished, Rendered
<1>3. ChainSound' /\ Bound' /\ Placed' /\ Cleared'
  BY <1>1 DEF Inv, ChainSound, Bound, Placed, PlacedAt, Cleared
<1>4. CASE e.type # "terminal"
  <2>1. checkpoints' = checkpoints /\ checkpoints \in [Message -> SUBSET {"text", "attachment"}]
    BY <1>1, <1>4 DEF Inv, TypeOK
  <2>2. \A n \in Message : (Finished(n)' = Finished(n)) /\ (Rendered(n)' = Rendered(n))
    <3>1. \A n \in Message : [turn |-> n, type |-> "terminal"] # e
      BY <1>1, <1>4
    <3> QED BY <3>1, <1>1 DEF Finished, Rendered
  <2>3. TypeOK'
    BY <1>1, <1>f, <1>d, <2>1 DEF Inv, TypeOK
  <2>4. Reachable'
    BY <1>1, <1>2, <1>4, <1>f DEF Inv, Reachable
  <2>5. TurnsSound'
    BY <1>1, <2>1, <2>2 DEF Inv, TurnsSound
  <2>6. TurnsUndisturbed'
    BY <1>1, <2>1, <2>2 DEF Inv, TurnsUndisturbed
  <2>7. FileSound'
    BY <1>2, <1>s, <2>1, <2>3, <2>5
  <2> QED BY <1>3, <2>3, <2>4, <2>5, <2>6, <2>7 DEF Inv
<1>5. CASE e.type = "terminal"
  <2>1. checkpoints' = [checkpoints EXCEPT ![m] = {}]
    BY <1>1, <1>5
  <2>2. checkpoints \in [Message -> SUBSET {"text", "attachment"}]
    BY DEF Inv, TypeOK
  <2>3. /\ checkpoints' \in [Message -> SUBSET {"text", "attachment"}] /\ checkpoints'[m] = {}
        /\ \A n \in Message : n # m => checkpoints'[n] = checkpoints[n]
    BY <1>1, <2>1, <2>2
  <2>4. Finished(m)' /\ Rendered(m)
    BY <1>1, <1>5 DEF Finished, Rendered
  <2>5. \A n \in Message : n # m => Finished(n)' = Finished(n) /\ Rendered(n)' = Rendered(n)
    <3>1. \A n \in Message : n # m => [turn |-> n, type |-> "terminal"] # e
      BY <1>1
    <3> QED BY <3>1, <1>1 DEF Finished, Rendered
  <2>6. TypeOK'
    BY <1>1, <1>f, <1>d, <2>3 DEF Inv, TypeOK
  <2>7. Reachable'
    BY <1>1, <1>2, <1>f, <2>4 DEF Inv, Reachable
  <2>8. TurnSound(plan.kind[m], step[m], renders[m], mem[m], checkpoints[m], room[m],
                  gap[m], Rendered(m), Finished(m), m \in failed)
    BY <1>1 DEF Inv, TurnsSound
  <2>9. mem[m].terminal /\ step[m] = "begin"
    BY <2>4, <2>8 DEF TurnSound, Progress
  <2>10. TurnsSound'
    <3>1. SUFFICES ASSUME NEW n \in Message
                   PROVE  TurnSound(plan.kind[n], step[n], renders[n], mem[n],
                                    checkpoints'[n], room[n], gap[n], Rendered(n)',
                                    Finished(n)', n \in failed)
      BY <1>1 DEF TurnsSound
    <3>2. CASE n # m
      <4>1. TurnSound(plan.kind[n], step[n], renders[n], mem[n], checkpoints[n], room[n],
                      gap[n], Rendered(n), Finished(n), n \in failed)
        BY DEF Inv, TurnsSound
      <4> QED BY <4>1, <3>2, <2>3, <2>5
    <3>3. CASE n = m
      <4>0. /\ Len(room[m].texts) \in Nat /\ room[m].files \in Nat
            /\ gap[m].text \in Nat /\ gap[m].attachment \in Nat
        <5>1. room[m] \in Board /\ gap[m] \in [text : Nat, attachment : Nat]
          BY <1>1 DEF Inv, TypeOK
        <5> QED BY <5>1, LenProperties DEF Board
      <4>1. Progress(step[m], renders[m], mem[m], room[m], Rendered(m)', Finished(m)')
        BY <1>1, <1>2, <2>8, <2>9 DEF TurnSound, Progress
      <4>2. Delivered(plan.kind[m], step[m], mem[m], checkpoints'[m], room[m], Finished(m)',
                      m \in failed)
        BY <2>3, <2>8, <2>9 DEF TurnSound, Delivered, Backed, Effects
      <4>3. OnceEach(step[m], checkpoints'[m], room[m], gap[m], Finished(m)')
        BY <4>0, <2>4, <2>8 DEF TurnSound, OnceEach, Within
      <4> QED BY <3>3, <4>1, <4>2, <4>3 DEF TurnSound
    <3> QED BY <3>2, <3>3
  <2>11. TurnsUndisturbed'
    <3>1. SUFFICES ASSUME crashes = 0, NEW n \in Message
                   PROVE  Undisturbed(step[n], mem[n], checkpoints'[n], room[n],
                                      Finished(n)', n \in failed)
      BY <1>1 DEF TurnsUndisturbed
    <3>2. Undisturbed(step[n], mem[n], checkpoints[n], room[n], Finished(n), n \in failed)
      BY <3>1 DEF Inv, TurnsUndisturbed
    <3>3. CASE n # m
      BY <3>2, <3>3, <2>3, <2>5
    <3>4. CASE n = m
      BY <3>2, <3>4, <2>3, <2>9 DEF Undisturbed
    <3> QED BY <3>3, <3>4
  <2>12. FileSound'
    BY <1>2, <1>s, <2>3, <2>4, <2>6, <2>10
  <2> QED BY <1>3, <2>6, <2>7, <2>10, <2>11, <2>12 DEF Inv
<1> QED BY <1>4, <1>5

\* A restart keeps what is on disk and in Pumble.
LEMMA CrashKeeps ==
    ASSUME Inv, Crash
    PROVE  Inv'
<1> DEFINE inGap(n) ==
             [text |-> gap[n].text + Once(step[n] = "texted"),
              attachment |-> gap[n].attachment + Once(step[n] = "attached")]
           f(n) == deliveryFile.checkpoints[n]
<1>1. /\ inbound' = [n \in Message |-> IF inbound[n] \in Pending THEN "failed" ELSE inbound[n]]
      /\ lost' = lost \cup {n \in accepted :
                              targetFile.byCorrelation[n] = None /\ ~FinishedOnFile(n)}
      /\ gap' = [n \in Message |-> inGap(n)]
      /\ byConversation' = targetFile.byConversation /\ byCorrelation' = targetFile.byCorrelation
      /\ completed' = deliveryFile.completed /\ checkpoints' = deliveryFile.checkpoints
      /\ chain' = <<>> /\ rendered' = {} /\ forgetting' = {}
      /\ renders' = [n \in Message |-> <<>>] /\ step' = [n \in Message |-> "begin"]
      /\ mem' = [n \in Message |-> NoMemory] /\ crashes' = crashes + 1
      /\ UNCHANGED <<plan, targetFile, accepted, deliveryFile, room, markers, posts,
                     deliveries, faults, failed>>
  BY DEF Crash, Pending, FinishedOnFile, pumble
<1>2. /\ inbound \in [Message -> {"new", "queued", "posting", "binding", "done", "failed"}]
      /\ gap \in [Message -> Gaps] /\ crashes \in Nat
      /\ room \in [Message -> Board]
  BY DEF Inv, TypeOK, Gaps
<1>3. crashes' \in Nat /\ crashes' # 0
  BY <1>1, <1>2
<1>4. \A n \in Message : inbound'[n] \in {"new", "done", "failed"}
  BY <1>1, <1>2 DEF Pending
<1>5. ASSUME NEW n \in Message
      PROVE  /\ inGap(n) \in Gaps /\ gap'[n] = inGap(n)
             /\ gap'[n].text = IF step[n] = "texted" THEN gap[n].text + 1 ELSE gap[n].text
             /\ gap'[n].attachment = IF step[n] = "attached" THEN gap[n].attachment + 1
                                                             ELSE gap[n].attachment
             /\ gap[n].text \in Nat /\ gap[n].attachment \in Nat
  BY <1>1, <1>2 DEF Gaps, Once
<1>6. NoMemory \in Memory /\ <<>> \in Seq(Type) /\ <<>> \in Seq(Message)
  BY EmptySeq DEF NoMemory, Memory
<1>7. TypeOK'
  <2>1. inbound' \in [Message -> {"new", "queued", "posting", "binding", "done", "failed"}]
    BY <1>1, <1>2
  <2>2. gap' \in [Message -> [text : Nat, attachment : Nat]]
    <3>1. gap' \in [Message -> Gaps]
      <4> HIDE DEF inGap
      <4> QED BY <1>1, <1>5
    <3> QED BY <3>1 DEF Gaps
  <2>3. chain' \in Seq(Message) /\ IsInjective(chain')
    BY <1>1, <1>6 DEF IsInjective
  <2>4. /\ renders' \in [Message -> Seq(Type)] /\ mem' \in [Message -> Memory]
        /\ step' \in [Message -> {"begin", "texted", "attach", "attached", "cleanup", "reject"}]
        /\ \A n \in Message : step'[n] # "begin" => renders'[n] # <<>>
    BY <1>1, <1>6
  <2>5. lost' \subseteq Message
    BY <1>1 DEF Inv, TypeOK
  <2>6. {deliveries', faults', crashes'} \subseteq Nat
    BY <1>1, <1>3 DEF Inv, TypeOK
  <2>7. rendered' \subseteq Event /\ forgetting' \subseteq Message
    BY <1>1
  <2>8. /\ byConversation' \in Message \cup {None}
        /\ byCorrelation' \in [Message -> Message \cup {None}]
        /\ completed' \subseteq Event
        /\ checkpoints' \in [Message -> SUBSET {"text", "attachment"}]
    BY <1>1 DEF Inv, TypeOK
  <2> QED BY <1>1, <2>1, <2>2, <2>3, <2>4, <2>5, <2>6, <2>7, <2>8 DEF Inv, TypeOK
<1>8. ChainSound' /\ Bound'
  BY <1>1, <1>4 DEF Inv, ChainSound, Bound, Pending, AtHead
<1>9. \A n \in Message : Finished(n)' = FinishedOnFile(n) /\ FinishedOnFile(n)' = FinishedOnFile(n)
  BY <1>1 DEF Finished, FinishedOnFile
<1>10. Reachable'
  <2>1. \A n \in Message : renders'[n] = <<>>
    BY <1>1
  <2>2. ASSUME NEW n \in Message, n \in accepted, n \notin lost'
        PROVE  byCorrelation'[n] = n \/ Finished(n)'
    BY <1>1, <1>9, <2>2 DEF Inv, Bound
  <2>3. accepted # {} => targetFile.byConversation # None
    BY DEF Inv, Reachable
  <2> QED BY <1>1, <2>1, <2>2, <2>3 DEF Reachable
<1>11. ASSUME NEW n \in Message
       PROVE  Backed(f(n), room[n]) /\ OnceEach("begin", f(n), room[n], gap'[n], FinishedOnFile(n))
  <2>1. /\ Backed(f(n), room[n])
        /\ OnceEach(step[n], f(n), room[n], gap[n], FinishedOnFile(n))
    BY DEF Inv, FileSound, OnFile
  <2>2. Len(room[n].texts) \in Nat /\ room[n].files \in Nat
    BY <1>2, LenProperties DEF Board
  <2> DEFINE t == Len(room[n].texts)
             z == room[n].files
             g == gap[n].text
             h == gap[n].attachment
  <2>3. /\ Within(t, g, "text" \in f(n) \/ step[n] = "texted" \/ FinishedOnFile(n))
        /\ Within(z, h, "attachment" \in f(n) \/ step[n] = "attached" \/ FinishedOnFile(n))
    BY <2>1 DEF OnceEach
  <2>4. /\ t \in Nat /\ z \in Nat /\ g \in Nat /\ h \in Nat
        /\ gap'[n].text = IF step[n] = "texted" THEN g + 1 ELSE g
        /\ gap'[n].attachment = IF step[n] = "attached" THEN h + 1 ELSE h
    BY <2>2, <1>5
  <2> HIDE DEF t, z, g, h, f
  <2>5. Within(t, gap'[n].text, "text" \in f(n) \/ "begin" = "texted" \/ FinishedOnFile(n))
    <3>1. CASE step[n] = "texted"
      BY <2>3, <2>4, <3>1 DEF Within
    <3>2. CASE step[n] # "texted"
      BY <2>3, <2>4, <3>2 DEF Within
    <3> QED BY <3>1, <3>2
  <2>6. Within(z, gap'[n].attachment,
               "attachment" \in f(n) \/ "begin" = "attached" \/ FinishedOnFile(n))
    <3>1. CASE step[n] = "attached"
      BY <2>3, <2>4, <3>1 DEF Within
    <3>2. CASE step[n] # "attached"
      BY <2>3, <2>4, <3>2 DEF Within
    <3> QED BY <3>1, <3>2
  <2> QED BY <2>1, <2>5, <2>6 DEF OnceEach, t, z
<1>12. TurnsSound'
  <2>1. SUFFICES ASSUME NEW n \in Message
                 PROVE  TurnSound(plan.kind[n], "begin", <<>>, NoMemory, f(n), room[n],
                                  gap'[n], Rendered(n)', FinishedOnFile(n), n \in failed)
    BY <1>1, <1>9 DEF TurnsSound
  <2>2. Delivered(plan.kind[n], step[n], mem[n], checkpoints[n], room[n], Finished(n),
                  n \in failed)
    BY DEF Inv, TurnsSound, TurnSound
  <2>3. Progress("begin", <<>>, NoMemory, room[n], Rendered(n)', FinishedOnFile(n))
    BY <1>1 DEF Progress, NoMemory, Rendered
  <2>4. FinishedOnFile(n) => Finished(n)
    BY DEF Inv, FileSound, FinishedOnFile, Finished
  <2>5. Delivered(plan.kind[n], "begin", NoMemory, f(n), room[n], FinishedOnFile(n),
                  n \in failed)
    BY <1>11, <2>2, <2>4 DEF Delivered, NoMemory, Effects
  <2> QED BY <1>11, <2>3, <2>5 DEF TurnSound
<1>13. TurnsUndisturbed' /\ Cleared'
  BY <1>3 DEF TurnsUndisturbed, Cleared
<1>14. Placed'
  BY <1>1 DEF Inv, Placed, PlacedAt
<1>15. FileSound'
  <2>1. ASSUME NEW n \in Message PROVE OnFile(n, step[n], checkpoints[n], room[n], gap[n])'
    BY <1>1, <1>9, <1>11 DEF OnFile
  <2> QED BY <1>1, <2>1 DEF FileSound
<1> QED BY <1>7, <1>8, <1>10, <1>12, <1>13, <1>14, <1>15 DEF Inv

-----------------------------------------------------------------------------
(***************************************************************************)
(* The theorems.                                                           *)
(***************************************************************************)

LEMMA InitInv == Init => Inv
<1> SUFFICES ASSUME Init PROVE Inv
  OBVIOUS
<1> DEFINE b == [interims |-> 0, files |-> 0, texts |-> <<>>]
           g == [text |-> 0, attachment |-> 0]
<1>1. /\ NoMemory \in Memory /\ <<>> \in Seq(Type) /\ <<>> \in Seq(Message)
      /\ b \in Board /\ b.texts = <<>> /\ b.files = 0 /\ b.interims = 0 /\ Len(b.texts) = 0
      /\ g \in [text : Nat, attachment : Nat] /\ g.text = 0 /\ g.attachment = 0
      /\ IsInjective(<<>>)
  BY EmptySeq DEF NoMemory, Memory, Board, IsInjective
<1>2. room = [m \in Message |-> b] /\ gap = [m \in Message |-> g]
  BY DEF Init
<1> HIDE DEF b, g
<1>3. TypeOK
  BY <1>1, <1>2 DEF Init, TypeOK
<1>4. ChainSound /\ Bound /\ Reachable
  BY DEF Init, ChainSound, Bound, Reachable, Pending, AtHead
<1>5. ASSUME NEW m \in Message, NEW k
      PROVE  /\ Progress("begin", <<>>, NoMemory, b, FALSE, FALSE)
             /\ Delivered(k, "begin", NoMemory, {}, b, FALSE, FALSE)
             /\ OnceEach("begin", {}, b, g, FALSE)
             /\ Undisturbed("begin", NoMemory, {}, b, FALSE, FALSE)
  BY <1>1 DEF Progress, Delivered, Backed, OnceEach, Within, Undisturbed, NoMemory, Effects
<1>6. ASSUME NEW m \in Message
      PROVE  /\ step[m] = "begin" /\ renders[m] = <<>> /\ mem[m] = NoMemory /\ room[m] = b
             /\ checkpoints[m] = {} /\ gap[m] = g /\ Rendered(m) = FALSE
             /\ Finished(m) = FALSE /\ (m \in failed) = FALSE
             /\ deliveryFile.checkpoints[m] = {} /\ FinishedOnFile(m) = FALSE
  BY <1>2 DEF Init, Rendered, Finished, FinishedOnFile
<1>7. TurnsSound
  BY <1>5, <1>6 DEF TurnsSound, TurnSound
<1>8. TurnsUndisturbed
  BY <1>5, <1>6 DEF TurnsUndisturbed
<1>9. Placed /\ Cleared
  <2>0. NoMemory.terminal = FALSE
    BY DEF NoMemory
  <2>1. ASSUME NEW m \in Message PROVE room[m].texts = <<>> /\ ~mem[m].terminal
    BY <1>1, <1>6, <2>0
  <2>2. Placed
    BY <2>1 DEF Placed, PlacedAt
  <2> QED BY <2>1, <2>2 DEF Cleared
<1>10. FileSound
  <2>1. ASSUME NEW m \in Message PROVE OnFile(m, step[m], checkpoints[m], room[m], gap[m])
    BY <1>5, <1>6 DEF OnFile, Delivered
  <2> QED BY <2>1 DEF FileSound, Init
<1> QED BY <1>3, <1>4, <1>7, <1>8, <1>9, <1>10 DEF Inv

LEMMA StutterKeeps ==
    ASSUME Inv, UNCHANGED vars
    PROVE  Inv'
<1>1. UNCHANGED <<plan, inbound, chain, posts, lost, byConversation, byCorrelation, targetFile,
                  accepted, renders, step, rendered, forgetting, completed, checkpoints,
                  deliveryFile, mem, room, markers, deliveries, faults, crashes, failed, gap>>
  BY DEF vars
<1>2. TypeOK' /\ ChainSound' /\ Bound' /\ Reachable'
  BY <1>1 DEF Inv, TypeOK, ChainSound, Bound, Reachable, Finished
<1> QED BY <1>1, <1>2, RenderingKept DEF Inv

LEMMA StepKeeps ==
    ASSUME Inv, [Step]_vars
    PROVE  Inv'
<1>1. ASSUME NEW m \in Message,
             \/ NewMessage(m) \/ PutByConversation(m) \/ PutFails(m) \/ CoreAccepts(m)
             \/ PostAnswered(m) \/ PostFails(m) \/ BindCorrelation(m) \/ BindFails(m)
             \/ ForgetCorrelation(m) \/ ForgetFails(m)
      PROVE  Inv'
  BY <1>1, NewMessageKeeps, PutByConversationKeeps, PutFailsKeeps, CoreAcceptsKeeps,
     PostAnsweredKeeps, PostFailsKeeps, BindCorrelationKeeps, ForgetCorrelationKeeps
<1>2. ASSUME NEW m \in Message,
             \/ Ignore(m) \/ OnStarted(m) \/ OnDelta(m) \/ OnPresenceOffline(m)
             \/ OnNoAnswer(m) \/ OnAnswer(m) \/ MarkTextCheckpoint(m)
             \/ DeliverAttachments(m) \/ MarkAttachmentCheckpoint(m)
             \/ ClearTerminalStatus(m)
      PROVE  Inv'
  BY <1>2, IgnoreKeeps, OnStartedKeeps, OnDeltaKeeps, OnPresenceOfflineKeeps,
     OnNoAnswerKeeps, OnAnswerKeeps, MarkTextCheckpointKeeps, DeliverAttachmentsKeeps,
     MarkAttachmentCheckpointKeeps, ClearTerminalStatusKeeps
<1>3. ASSUME NEW e \in Event,
             HandleCoreEvent(e) \/ MarkCompleted(e) \/ MarkCompletedFails(e)
      PROVE  Inv'
  BY <1>3, HandleCoreEventKeeps, MarkCompletedKeeps
<1> QED BY <1>1, <1>2, <1>3, CrashKeeps, StutterKeeps DEF Step

\* The inductive invariant holds: targets, renderings, checkpoints and what stands in the
\* channel agree after every step of webhook, renderer and stores, after calls and writes
\* that fail with or without effect, and after restarts, which go back to the files.
THEOREM InvariantHolds == Spec => []Inv
<1>1. Init => Inv
  BY InitInv
<1>2. Inv /\ [Step]_vars => Inv'
  BY StepKeeps
<1> QED BY <1>1, <1>2, PTL DEF Spec

\* The state of the adapter has its types, and a turn that ended without a failed call or
\* a restart leaves no marker and no interim message.
THEOREM ConsistentHolds == Spec => []Consistent
<1>1. ASSUME Inv PROVE Tidy
  <2>1. SUFFICES ASSUME NEW m \in Message, Finished(m), m \notin failed, crashes = 0, lost = {}
                 PROVE  markers[m] = {} /\ room[m].interims = 0
    BY DEF Tidy
  <2>2. Undisturbed(step[m], mem[m], checkpoints[m], room[m], Finished(m), m \in failed)
    BY <1>1, <2>1 DEF Inv, TurnsUndisturbed
  <2>3. mem[m].terminal /\ room[m].interims = 0
    BY <2>1, <2>2 DEF Undisturbed
  <2> QED BY <1>1, <2>1, <2>3 DEF Inv, Cleared
<1>2. Inv => Consistent
  BY <1>1 DEF Inv, Consistent
<1> QED BY <1>2, InvariantHolds, PTL

\* An answer appears where its message was written, and no correlation is bound to another
\* message's target, unless the adapter saw the post of a message fail that the core took or
\* was restarted with neither its binding nor its end in the files.
THEOREM RightPlaceHolds == Spec => []RightPlace
<1>1. ASSUME Inv PROVE RightPlace
  <2>1. ASSUME NEW m \in Message, m \notin lost PROVE Range(room[m].texts) \subseteq {m}
    BY <1>1, <2>1 DEF Inv, Placed, PlacedAt, Range
  <2> QED BY <1>1, <2>1 DEF Inv, Bound, RightPlace
<1> QED BY <1>1, InvariantHolds, PTL

\* Every text and every file of an answer is posted unless a call or a checkpoint of its
\* turn failed, and posted once, plus once for every effect cut off from its checkpoint by
\* a restart, a failed write, or a call that took effect and was reported as failed;
\* however often and in whatever order the core delivers the events.
THEOREM ExactlyOnceHolds == Spec => []ExactlyOnce
<1>1. ASSUME Inv, NEW m \in Message
      PROVE  /\ Len(room[m].texts) <= 1 + gap[m].text
             /\ room[m].files <= 1 + gap[m].attachment
  <2>1. OnceEach(step[m], checkpoints[m], room[m], gap[m], Finished(m))
    BY <1>1 DEF Inv, TurnsSound, TurnSound
  <2>2. room[m] \in Board /\ gap[m] \in [text : Nat, attachment : Nat]
    BY <1>1 DEF Inv, TypeOK
  <2>3. /\ Len(room[m].texts) \in Nat /\ room[m].files \in Nat
        /\ gap[m].text \in Nat /\ gap[m].attachment \in Nat
    BY <2>2, LenProperties DEF Board
  <2> QED BY <2>1, <2>3 DEF OnceEach, Within
<1>2. ASSUME Inv, NEW m \in Message, Finished(m), m \notin failed PROVE Answered(m)
  <2>1. Delivered(plan.kind[m], step[m], mem[m], checkpoints[m], room[m], Finished(m),
                  m \in failed)
    BY <1>2 DEF Inv, TurnsSound, TurnSound
  <2> QED BY <1>2, <2>1 DEF Delivered, AnsweredBy, Answered
<1>3. Inv => ExactlyOnce
  BY <1>1, <1>2 DEF ExactlyOnce, EffectsOnce, AckedUnlessFailed
<1> QED BY <1>3, InvariantHolds, PTL
=============================================================================
