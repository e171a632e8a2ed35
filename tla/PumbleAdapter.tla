---------------------------- MODULE PumbleAdapter ----------------------------
(***************************************************************************)
(* packages/pumble-adapter: messages of one Pumble conversation on their   *)
(* way to the core (server.ts, target-store.ts), and the core's events on  *)
(* their way to Pumble (server.ts, pumble-renderer.ts, delivery-store.ts). *)
(*                                                                         *)
(* Every message is addressed, so the core gives it a correlation of its   *)
(* own, named here by the message; so is the target its answer belongs to, *)
(* the message that triggered it.  The two stores do one operation at a    *)
(* time, each of them one step here: they change their memory, then write  *)
(* all of it to a file that is renamed into place.  A write that fails     *)
(* leaves memory and file apart until the next one; the rename itself may  *)
(* have happened.  A call of the Pumble API that fails may have taken      *)
(* effect, since every call is aborted after a time.                       *)
(*                                                                         *)
(* Reaction checkpoints save repeated calls that change nothing in Pumble  *)
(* and are left out, but not that writing one may fail, or may save what   *)
(* an earlier write did not.  turn.progress, which the renderer ignores,   *)
(* and active or idle presence are left out.  What happens before a        *)
(* message or an event is queued changes no state: a lookup that fails     *)
(* there is a delivery that is repeated.                                   *)
(***************************************************************************)
EXTENDS Naturals, Sequences, SequencesExt

CONSTANTS
    Message,
    Plans,         \* what happens outside the adapter, see Plan
    None

VARIABLES
    plan,        \* a member of Plans
    inbound,     \* processNewMessage of each message
    chain,       \* conversationChains: the messages waiting for their turn
    byConversation, byCorrelation,  \* TargetStore.data
    targetFile,  \* targets.json
    accepted,    \* messages the core has taken
    renders,     \* per correlation, the events whose render() waits in its chain
    step,        \* how far the first of them is
    rendered,    \* events whose render() returned, to be recorded as completed
    forgetting,  \* turns whose target is to be released
    mem,         \* CorrelationState
    completed, checkpoints,         \* DeliveryStore, in memory
    deliveryFile,                   \* delivered-events.json
    room,        \* Pumble (external): what stands in the channel for each turn
    markers,     \* Pumble (external): status reactions on each message
    posts, deliveries, faults, crashes,
    lost, failed, gap               \* histories, see below

Kind == {"reply", "silent", "error", "cancelled"}
Type == {"started", "delta", "delta2", "offline", "terminal"}
Event == [turn : Message, type : Type]

(* The messages that are written, how the turn of each ends, the events the core
   sends, whether the settings ask for an interim message, and the bounds: deliveries
   of one message by Pumble, of events by the core, handlers and store operations of which
   a call fails, and restarts. *)
Plan == [written : SUBSET Message, kind : [Message -> Kind], events : SUBSET Event,
         streams : BOOLEAN, posts : Nat, deliveries : Nat, faults : Nat, crashes : Nat]

ASSUME PumbleAssumption == Plans \subseteq Plan /\ None \notin Message

vars == <<plan, inbound, chain, byConversation, byCorrelation, targetFile, accepted, renders,
          step, rendered, forgetting, mem, completed, checkpoints, deliveryFile, room, markers,
          posts, deliveries, faults, crashes, lost, failed, gap>>

targets == <<byConversation, byCorrelation, targetFile>>
webhook == <<inbound, chain, posts, lost>>
records == <<completed, checkpoints, deliveryFile>>
delivery == <<rendered, forgetting, records>>
pumble == <<room, markers>>
bounds == <<deliveries, faults, crashes>>
history == <<failed, gap>>

Reaction == {"eyes", "brain", "balloon"}

Memory == [seen : SUBSET Type, attempted : SUBSET Reaction, interim : BOOLEAN,
           terminal : BOOLEAN]

NoMemory == [seen |-> {}, attempted |-> {}, interim |-> FALSE, terminal |-> FALSE]

(* What stands in the channel for a turn: interim messages, files, and for each final text
   the message it answers. *)
Board == [interims : Nat, files : Nat, texts : Seq(Message)]

TypeOK ==
    /\ plan \in Plans
    /\ inbound \in [Message -> {"new", "queued", "posting", "binding", "done", "failed"}]
    /\ chain \in Seq(Message) /\ IsInjective(chain)
    /\ byConversation \in Message \cup {None}
    /\ byCorrelation \in [Message -> Message \cup {None}]
    /\ targetFile \in [byConversation : Message \cup {None},
                        byCorrelation : [Message -> Message \cup {None}]]
    /\ accepted \subseteq Message
    /\ renders \in [Message -> Seq(Type)]
    /\ step \in [Message -> {"begin", "texted", "attach", "attached", "cleanup", "reject"}]
    /\ rendered \subseteq Event /\ forgetting \subseteq Message
    /\ \A m \in Message : step[m] # "begin" => renders[m] # <<>>
    /\ mem \in [Message -> Memory]
    /\ completed \subseteq Event
    /\ checkpoints \in [Message -> SUBSET {"text", "attachment"}]
    /\ deliveryFile \in [completed : SUBSET Event,
                          checkpoints : [Message -> SUBSET {"text", "attachment"}]]
    /\ room \in [Message -> Board]
    /\ markers \in [Message -> SUBSET Reaction]
    /\ posts \in [Message -> Nat] /\ {deliveries, faults, crashes} \subseteq Nat
    /\ lost \subseteq Message /\ failed \subseteq Message
    /\ gap \in [Message -> [text : Nat, attachment : Nat]]

Init ==
    /\ plan \in Plans
    /\ inbound = [m \in Message |-> "new"] /\ chain = <<>>
    /\ byConversation = None /\ byCorrelation = [m \in Message |-> None]
    /\ targetFile = [byConversation |-> None, byCorrelation |-> [m \in Message |-> None]]
    /\ accepted = {}
    /\ renders = [m \in Message |-> <<>>] /\ step = [m \in Message |-> "begin"]
    /\ rendered = {} /\ forgetting = {}
    /\ mem = [m \in Message |-> NoMemory]
    /\ completed = {} /\ checkpoints = [m \in Message |-> {}]
    /\ deliveryFile = [completed |-> {}, checkpoints |-> [m \in Message |-> {}]]
    /\ room = [m \in Message |-> [interims |-> 0, files |-> 0, texts |-> <<>>]]
    /\ markers = [m \in Message |-> {}]
    /\ posts = [m \in Message |-> 0] /\ deliveries = 0 /\ faults = 0 /\ crashes = 0
    /\ lost = {}    \* messages the core took, of which no target is known any more
    /\ failed = {}  \* turns of which a call of the Pumble API or a checkpoint failed
    /\ gap = [m \in Message |-> [text |-> 0, attachment |-> 0]]
                    \* effects cut off from their checkpoint: by a restart, by a failed
                    \* write of it, or because the call took effect and failed

-----------------------------------------------------------------------------
(* write() of the two stores: all of their memory, unless it fails *)

SaveTargets ==
    targetFile' = [byConversation |-> byConversation', byCorrelation |-> byCorrelation']

SaveDeliveries == deliveryFile' = [completed |-> completed', checkpoints |-> checkpoints']

MaySaveTargets == SaveTargets \/ UNCHANGED targetFile

MaySaveDeliveries == SaveDeliveries \/ UNCHANGED deliveryFile

StoreFault == faults < plan.faults /\ faults' = faults + 1

-----------------------------------------------------------------------------
(* processNewMessage, from serializeConversation on *)

rendering == <<renders, step, mem, delivery, pumble, history>>

(* Mutant: the messages of a conversation do not wait for each other. *)
MayProceed_AnyOrder(m) == Contains(chain, m)

(* serializeConversation *)
MayProceed(m) == chain # <<>> /\ Head(chain) = m

(* The promise of the first message settles, and the next one goes on. *)
Leaves(m, outcome) ==
    /\ inbound' = [inbound EXCEPT ![m] = outcome]
    /\ chain' = Tail(chain)

(* Pumble delivers a message, again if it was not answered with 200. *)
NewMessage(m) ==
    /\ m \in plan.written /\ inbound[m] \in {"new", "failed", "done"} /\ posts[m] < plan.posts
    /\ posts' = [posts EXCEPT ![m] = @ + 1]
    /\ inbound' = [inbound EXCEPT ![m] = "queued"]
    /\ chain' = Append(chain, m)
    /\ UNCHANGED <<plan, targets, accepted, rendering, bounds, lost>>

PutByConversation(m) ==
    /\ inbound[m] = "queued" /\ MayProceed(m)
    /\ byConversation' = m /\ UNCHANGED byCorrelation
    /\ SaveTargets
    /\ inbound' = [inbound EXCEPT ![m] = "posting"]
    /\ UNCHANGED <<plan, chain, accepted, rendering, bounds, posts, lost>>

(* The file cannot be read, or not be written: 500. *)
PutFails(m) ==
    /\ inbound[m] = "queued" /\ MayProceed(m)
    /\ byConversation' \in {byConversation, m} /\ UNCHANGED byCorrelation
    /\ MaySaveTargets
    /\ Leaves(m, "failed") /\ StoreFault
    /\ UNCHANGED <<plan, accepted, rendering, deliveries, crashes, posts, lost>>

(* handleInbound of the core takes the message, or knows it already. *)
CoreAccepts(m) ==
    /\ inbound[m] = "posting" /\ m \notin accepted
    /\ accepted' = accepted \cup {m}
    /\ UNCHANGED <<plan, webhook, targets, rendering, bounds>>

PostAnswered(m) ==
    /\ inbound[m] = "posting" /\ m \in accepted
    /\ inbound' = [inbound EXCEPT ![m] = "binding"]
    /\ UNCHANGED <<plan, chain, targets, accepted, rendering, bounds, posts, lost>>

(* No answer from the core, or a refusal: 500, and Pumble will try again. *)
PostFails(m) ==
    /\ inbound[m] = "posting"
    /\ Leaves(m, "failed")
    /\ lost' = IF m \in accepted /\ byCorrelation[m] = None THEN lost \cup {m} ELSE lost
    /\ UNCHANGED <<plan, targets, accepted, rendering, bounds, posts>>

(* A correlation that is bound already is left alone, and nothing is written. *)
BindCorrelation(m) ==
    /\ inbound[m] = "binding"
    /\ IF byCorrelation[m] = None
       THEN /\ byCorrelation' = [byCorrelation EXCEPT ![m] = byConversation]
            /\ UNCHANGED byConversation
            /\ SaveTargets
       ELSE UNCHANGED targets
    /\ Leaves(m, "done")
    /\ UNCHANGED <<plan, accepted, rendering, bounds, posts, lost>>

(* The binding is in memory, but Pumble is answered with 500. *)
BindFails(m) ==
    /\ inbound[m] = "binding" /\ byCorrelation[m] = None
    /\ byCorrelation' = [byCorrelation EXCEPT ![m] = byConversation]
    /\ UNCHANGED byConversation
    /\ MaySaveTargets
    /\ Leaves(m, "failed") /\ StoreFault
    /\ UNCHANGED <<plan, accepted, rendering, deliveries, crashes, posts, lost>>

-----------------------------------------------------------------------------
(* handleCoreEvents *)

Resolve(m) == IF byCorrelation[m] # None THEN byCorrelation[m] ELSE byConversation

(* A completed event is only acknowledged; another waits in render's chain. *)
HandleCoreEvent(e) ==
    /\ e \in plan.events /\ e.turn \in accepted /\ deliveries < plan.deliveries
    /\ deliveries' = deliveries + 1
    /\ IF e \in completed
       THEN /\ forgetting' = IF e.type = "terminal" THEN forgetting \cup {e.turn}
                                                     ELSE forgetting
            /\ UNCHANGED renders
       ELSE /\ renders' = [renders EXCEPT ![e.turn] = Append(@, e.type)]
            /\ UNCHANGED forgetting
    /\ UNCHANGED <<plan, webhook, targets, accepted, step, rendered, records, mem, pumble,
                   faults, crashes, history>>

(* markCompleted, in memory *)
Completes(e) ==
    /\ completed' = completed \cup {e}
    /\ checkpoints' = IF e.type = "terminal" THEN [checkpoints EXCEPT ![e.turn] = {}]
                                             ELSE checkpoints

(* after a render() that returned; an event is recorded once *)
MarkCompleted(e) ==
    /\ e \in rendered /\ rendered' = rendered \ {e}
    /\ Completes(e)
    /\ IF e \in completed THEN UNCHANGED deliveryFile ELSE SaveDeliveries
    /\ forgetting' = IF e.type = "terminal" THEN forgetting \cup {e.turn} ELSE forgetting
    /\ UNCHANGED <<plan, webhook, targets, accepted, renders, step, mem, pumble, bounds,
                   history>>

(* The core sees a 500 and will deliver again what memory holds as completed. *)
MarkCompletedFails(e) ==
    /\ e \in rendered \ completed /\ rendered' = rendered \ {e}
    /\ Completes(e) /\ MaySaveDeliveries /\ StoreFault
    /\ UNCHANGED <<plan, webhook, targets, accepted, forgetting, renders, step, mem, pumble,
                   deliveries, crashes, history>>

(* forgetCorrelation, in memory *)
Forgets(m) ==
    /\ m \in forgetting /\ forgetting' = forgetting \ {m}
    /\ byCorrelation' = [byCorrelation EXCEPT ![m] = None]
    /\ UNCHANGED <<plan, webhook, byConversation, accepted, renders, step, rendered, mem,
                   records, pumble, deliveries, crashes, history>>

ForgetCorrelation(m) == Forgets(m) /\ SaveTargets /\ UNCHANGED faults

ForgetFails(m) == Forgets(m) /\ MaySaveTargets /\ StoreFault

-----------------------------------------------------------------------------
(* apply and dispatch, for the first event in the chain of a correlation.  A handler
   of which a call fails counts as one fault. *)

At(m, s) == renders[m] # <<>> /\ step[m] = s

Current(m) == Head(renders[m])

Live(m) == At(m, "begin") /\ Current(m) \notin mem[m].seen /\ ~mem[m].terminal

Fault(m) ==
    /\ StoreFault
    /\ failed' = failed \cup {m}

NoFault == UNCHANGED <<faults, failed>>

Goto(m, s) == step' = [step EXCEPT ![m] = s] /\ UNCHANGED <<renders, rendered>>

(* render() returns, or rejects, which is answered with 500; the next event of the
   correlation has its turn. *)
Ends(m, returns) ==
    /\ renders' = [renders EXCEPT ![m] = Tail(@)] /\ step' = [step EXCEPT ![m] = "begin"]
    /\ rendered' = IF returns THEN rendered \cup {[turn |-> m, type |-> Current(m)]}
                              ELSE rendered

SeenAfter(m, returns) == IF returns THEN mem[m].seen \cup {Current(m)} ELSE mem[m].seen

elsewhere == <<plan, webhook, targets, accepted, forgetting, completed, deliveries, crashes>>

Ignore(m) ==
    /\ At(m, "begin") /\ ~Live(m)
    /\ Ends(m, TRUE) /\ NoFault
    /\ UNCHANGED <<elsewhere, checkpoints, deliveryFile, mem, pumble, gap>>

(* A call that fails is logged, and counts as attempted; one of the checkpoints that
   fails ends the handler before the next marker. *)
OnStarted(m) ==
    LET todo == {"eyes", "brain"} \ mem[m].attempted IN
    /\ Live(m) /\ Current(m) = "started"
    /\ \E tried, added \in SUBSET todo, returns \in BOOLEAN :
          /\ added \subseteq tried
          /\ \/ NoFault /\ returns /\ added = todo
             \/ Fault(m) /\ returns /\ tried \in {{}, todo}
             \/ Fault(m) /\ ~returns /\ tried \in {todo \cap {"eyes"}, todo} \ {{}}
          /\ markers' = [markers EXCEPT ![Resolve(m)] = @ \cup added]
          /\ mem' = [mem EXCEPT ![m].attempted = @ \cup tried, ![m].seen = SeenAfter(m, returns)]
          /\ Ends(m, returns)
    /\ UNCHANGED <<elsewhere, checkpoints, room, gap>> /\ MaySaveDeliveries

(* The first chunk swaps the thinking marker for the replying one; an interim message is
   posted unless there is one, which is edited.  It is known by the answer to its post. *)
OnDelta(m) ==
    LET swaps == "balloon" \notin mem[m].attempted
        shows == plan.streams /\ ~mem[m].interim
    IN
    /\ Live(m) /\ Current(m) \in {"delta", "delta2"}
    /\ \E cleared, tried, added, shown, known, returns \in BOOLEAN :
          /\ cleared \/ tried => swaps
          /\ added => tried
          /\ shown => shows
          /\ known => shown
          /\ \/ NoFault /\ returns /\ (swaps => cleared /\ added) /\ (shows => known)
             \/ Fault(m) /\ returns /\ (cleared => tried)
             \/ Fault(m) /\ ~returns /\ swaps /\ ~shown
          /\ markers' = [markers EXCEPT ![Resolve(m)] =
                (IF cleared THEN @ \ {"brain"} ELSE @)
                   \cup (IF added THEN {"balloon"} ELSE {})]
          /\ room' = [room EXCEPT ![m].interims = IF shown THEN @ + 1 ELSE @]
          /\ mem' = [mem EXCEPT ![m].interim = @ \/ known,
                                ![m].attempted = IF tried THEN @ \cup {"balloon"} ELSE @,
                                ![m].seen = SeenAfter(m, returns)]
          /\ Ends(m, returns)
    /\ UNCHANGED <<elsewhere, checkpoints, gap>> /\ MaySaveDeliveries

(* clearStatusReactions: every marker is removed, whatever this process added. *)
ClearStatusReactions(m) ==
    /\ \E left \in SUBSET markers[Resolve(m)] :
          /\ (left = {} /\ NoFault) \/ Fault(m)
          /\ markers' = [markers EXCEPT ![Resolve(m)] = left]
    /\ UNCHANGED <<elsewhere, checkpoints, room, gap>> /\ MaySaveDeliveries

OnPresenceOffline(m) ==
    /\ Live(m) /\ Current(m) = "offline"
    /\ ClearStatusReactions(m)
    /\ \E returns \in BOOLEAN :
          /\ returns \/ faults' # faults
          /\ mem' = [mem EXCEPT ![m].seen = SeenAfter(m, returns)]
          /\ Ends(m, returns)

(* onCancelled, and onReply of a turn that ended silently: the interim goes.  Only the
   latter needs its target. *)
OnNoAnswer(m) ==
    /\ Live(m) /\ Current(m) = "terminal" /\ plan.kind[m] \in {"silent", "cancelled"}
    /\ \/ \E gone \in BOOLEAN :
             /\ gone => mem[m].interim
             /\ (NoFault /\ gone = mem[m].interim) \/ Fault(m)
             /\ room' = [room EXCEPT ![m].interims = IF gone THEN @ - 1 ELSE @]
             /\ mem' = [mem EXCEPT ![m].interim = FALSE]
             /\ Goto(m, "cleanup")
       \/ /\ plan.kind[m] = "silent" /\ Fault(m)
          /\ Goto(m, "reject") /\ UNCHANGED <<room, mem>>
    /\ UNCHANGED <<elsewhere, checkpoints, deliveryFile, markers, gap>>

Answers(m) == Current(m) = "terminal" /\ plan.kind[m] \in {"reply", "error"}

AfterText(m) == IF plan.kind[m] = "reply" THEN "attach" ELSE "cleanup"

AppendIf(texts, m, happens) == IF happens THEN Append(texts, m) ELSE texts

Once(happens) == IF happens THEN 1 ELSE 0

(* Mutant: a final message is posted whether or not an interim stands. *)
DeliverFinalText_AlwaysPosts(m) ==
    /\ \/ /\ NoFault /\ Goto(m, "texted")
          /\ room' = [room EXCEPT ![m].texts = Append(@, Resolve(m))]
       \/ Fault(m) /\ Goto(m, "reject") /\ UNCHANGED room
    /\ UNCHANGED gap

(* The interim is edited into the answer; a failed edit, which may have taken effect, falls
   back to a post. *)
DeliverFinalText(m) ==
    \E edited, posted \in BOOLEAN, s \in {"texted", "reject"} :
       /\ edited => mem[m].interim
       /\ \/ NoFault /\ s = "texted" /\ edited = mem[m].interim /\ posted = ~edited
          \/ Fault(m) /\ s = "texted" /\ mem[m].interim /\ posted
          \/ Fault(m) /\ s = "reject"
       /\ Goto(m, s)
       /\ room' = [room EXCEPT
             ![m].texts = AppendIf(AppendIf(@, Resolve(m), edited), Resolve(m), posted),
             ![m].interims = IF edited THEN @ - 1 ELSE @]
       /\ gap' = [gap EXCEPT
             ![m].text = @ + ((Once(edited) + Once(posted)) - Once(s = "texted"))]

(* onReply with a text, and onError.  A target that is not found is a failure too. *)
OnAnswer(m) ==
    /\ Live(m) /\ Answers(m)
    /\ \/ "text" \notin checkpoints[m] /\ DeliverFinalText(m)
       \/ /\ "text" \in checkpoints[m]
          /\ \/ NoFault /\ Goto(m, AfterText(m))
             \/ Fault(m) /\ Goto(m, "reject")
          /\ UNCHANGED <<room, gap>>
    /\ UNCHANGED <<elsewhere, checkpoints, deliveryFile, mem, markers>>

(* markCheckpoint, after the effect it is about: the store remembers it before it writes.
   A failed write rejects like a failed delivery. *)
MarkCheckpoint(m, checkpoint, next) ==
    /\ checkpoints' = [checkpoints EXCEPT ![m] = @ \cup {checkpoint}]
    /\ UNCHANGED <<elsewhere, mem, pumble>>
    /\ \/ NoFault /\ Goto(m, next) /\ SaveDeliveries /\ UNCHANGED gap
       \/ /\ Fault(m) /\ Goto(m, "reject") /\ MaySaveDeliveries
          /\ gap' = [gap EXCEPT ![m][checkpoint] = @ + 1]

MarkTextCheckpoint(m) == At(m, "texted") /\ MarkCheckpoint(m, "text", AfterText(m))

(* Mutant: a file is sent again although its checkpoint is there. *)
DeliverAttachments_IgnoresCheckpoint(m) ==
    /\ At(m, "attach")
    /\ Goto(m, "attached") /\ NoFault
    /\ room' = [room EXCEPT ![m].files = @ + 1]
    /\ UNCHANGED <<elsewhere, checkpoints, deliveryFile, mem, markers, gap>>

(* A reply has one file to send; the notice of a failure is left out. *)
DeliverAttachments(m) ==
    /\ At(m, "attach")
    /\ \/ /\ "attachment" \in checkpoints[m]
          /\ Goto(m, "cleanup") /\ NoFault /\ UNCHANGED <<room, gap>>
       \/ /\ "attachment" \notin checkpoints[m]
          /\ Goto(m, "attached") /\ NoFault /\ UNCHANGED gap
          /\ room' = [room EXCEPT ![m].files = @ + 1]
       \/ /\ "attachment" \notin checkpoints[m]
          /\ Goto(m, "reject") /\ Fault(m)
          /\ \E sent \in BOOLEAN :
                /\ room' = [room EXCEPT ![m].files = @ + Once(sent)]
                /\ gap' = [gap EXCEPT ![m].attachment = @ + Once(sent)]
    /\ UNCHANGED <<elsewhere, checkpoints, deliveryFile, mem, markers>>

MarkAttachmentCheckpoint(m) ==
    At(m, "attached") /\ MarkCheckpoint(m, "attachment", "cleanup")

(* The finally of apply: a turn whose delivery failed is closed as well, and only then
   does render() reject, which the server answers with 500. *)
ClearTerminalStatus(m) ==
    /\ step[m] \in {"cleanup", "reject"} /\ ClearStatusReactions(m)
    /\ LET returns == step[m] = "cleanup" IN
          /\ mem' = [mem EXCEPT ![m].terminal = TRUE, ![m].seen = SeenAfter(m, returns)]
          /\ Ends(m, returns)

-----------------------------------------------------------------------------
(* The adapter is restarted: what is not in its two files is gone.  Pumble and the core
   see their requests fail. *)
Crash ==
    LET pending == {m \in Message : inbound[m] \in {"queued", "posting", "binding"}} IN
    /\ crashes < plan.crashes /\ crashes' = crashes + 1
    /\ inbound' = [m \in Message |-> IF m \in pending THEN "failed" ELSE inbound[m]]
    /\ lost' = lost \cup {m \in accepted :
                            /\ targetFile.byCorrelation[m] = None
                            /\ [turn |-> m, type |-> "terminal"] \notin deliveryFile.completed}
    /\ byConversation' = targetFile.byConversation
    /\ byCorrelation' = targetFile.byCorrelation
    /\ completed' = deliveryFile.completed /\ checkpoints' = deliveryFile.checkpoints
    /\ gap' = [m \in Message |->
                 [text |-> gap[m].text + Once(step[m] = "texted"),
                  attachment |-> gap[m].attachment + Once(step[m] = "attached")]]
    /\ chain' = <<>>
    /\ renders' = [m \in Message |-> <<>>] /\ step' = [m \in Message |-> "begin"]
    /\ rendered' = {} /\ forgetting' = {}
    /\ mem' = [m \in Message |-> NoMemory]
    /\ UNCHANGED <<plan, targetFile, accepted, deliveryFile, pumble, posts, deliveries,
                   faults, failed>>

Step ==
    \/ \E m \in Message :
          \/ NewMessage(m) \/ PutByConversation(m) \/ PutFails(m) \/ CoreAccepts(m)
          \/ PostAnswered(m) \/ PostFails(m) \/ BindCorrelation(m) \/ BindFails(m)
          \/ ForgetCorrelation(m) \/ ForgetFails(m) \/ Ignore(m)
          \/ OnStarted(m) \/ OnDelta(m) \/ OnPresenceOffline(m) \/ OnNoAnswer(m)
          \/ OnAnswer(m) \/ MarkTextCheckpoint(m) \/ DeliverAttachments(m)
          \/ MarkAttachmentCheckpoint(m) \/ ClearTerminalStatus(m)
    \/ \E e \in Event : HandleCoreEvent(e) \/ MarkCompleted(e) \/ MarkCompletedFails(e)
    \/ Crash

Spec == Init /\ [][Step]_vars

-----------------------------------------------------------------------------
(* A correlation is never bound to another message's target, and an answer appears where
   its message was written, early callbacks before the binding and late ones after a
   restart included.  The one exception is a message whose target is not known any more,
   because the adapter saw its post fail after the core took it, or was restarted with
   neither its binding nor its end in the files: until it is bound again it resolves to
   whatever message came last. *)
RightPlace ==
    \A m \in Message :
       /\ byCorrelation[m] \in {None, m}
       /\ m \notin lost => Range(room[m].texts) \subseteq {m}

(* A final text and a file are posted once, however often the core delivers the terminal
   event and wherever the adapter restarts, except that each effect that is cut off from
   its checkpoint may be repeated once: by a restart between the two, by a failed write of
   the checkpoint, or because the call took effect and was reported as failed. *)
EffectsOnce ==
    \A m \in Message :
       /\ Len(room[m].texts) <= 1 + gap[m].text
       /\ room[m].files <= 1 + gap[m].attachment

Answered(m) ==
    /\ plan.kind[m] \in {"reply", "error"} => room[m].texts # <<>>
    /\ plan.kind[m] = "reply" => room[m].files > 0

Finished(m) == [turn |-> m, type |-> "terminal"] \in completed

(* A terminal event that is acknowledged for good has its text and its file in the
   channel, restarts between any two of the steps included, unless a call of the Pumble
   API or the write of a checkpoint failed for that turn. *)
AckedUnlessFailed ==
    \A m \in Message : Finished(m) /\ m \notin failed => Answered(m)

(* An answer is posted, and posted once. *)
ExactlyOnce == EffectsOnce /\ AckedUnlessFailed

(* Without a failed call or a restart, an ended turn leaves no status marker and no
   interim message, whatever the order in which its other events arrive. *)
Tidy ==
    \A m \in Message :
       Finished(m) /\ m \notin failed /\ crashes = 0 /\ lost = {} =>
          markers[m] = {} /\ room[m].interims = 0

(* The state has its types, and ended turns are tidied up after. *)
Consistent == TypeOK /\ Tidy

(* The comment on CorrelationState.terminal, "True only once a terminal reply or error is
   fully delivered", and the renderer's header, "rejects so the core retries the durable
   redelivery; attachments are never silently dropped": an event is completed only when
   its answer is in the channel.  The code breaks it: the finally of apply closes the
   turn after a failure as well, so the retry is ignored and acknowledged. *)
AckedDelivered == \A m \in Message : Finished(m) => Answered(m)
=============================================================================
