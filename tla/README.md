# TLA+ specification of omp-bundler

omp-bundler runs one agent as a durable service. Chat adapters post inbound
messages to a core process; the core keeps at most a few `omp` child processes,
one conversation each, sends them prompts over a pipe, and posts their answers
back to the adapters; a scheduler fires jobs through children of its own. This
directory specifies the parts whose correctness depends on interleavings, lost
and repeated messages, failures and restarts, checks them with TLC and proves
what is proved with TLAPS.

## The system and its parts

| Part | State | Operations | What is hard about it | What makes it correct | Module |
|---|---|---|---|---|---|
| PoolManager (`core/src/pool-manager.ts`) | Map of live entries in LRU order, creations in flight, FIFO wait queue, two slot counters, pending evictions | `acquire`, `release`, drain, capacity, idle and retire evictions, `closeIdle`, `forgetExitedChild`, `close` | everything awaits; each await lets other callers in; closes may fail | slots exact and bounded, leases exclusive, no lost wakeup, close before release, shutdown complete | `PoolManager` |
| SessionRegistry (`session-registry.ts`) | SQLite row per conversation: session file, owner | `getOrCreate`, `setOwner`, `release`, `forget` | rows of a crashed predecessor | a row is owned by the child that serves it | in `PoolManager` |
| Supervisor (`supervisor.ts`) | the turn in flight and one chain of inbound messages per conversation | inbound pipeline, interrupt, reset, passive append, settled flush, child events, recovery, `close` | duplicate, joining and superseding messages, a turn whose child dies | nothing accepted is forgotten, written twice or answered for another turn | `Supervisor` |
| IdempotencyStore (`idempotency-store.ts`) | SQLite row per message | `beginInbound`, ingest and delivery marks per correlation | several writers of one correlation, crash between writes | answers and confirmations are never changed | `IdempotencyStore` |
| IngestBuffer (`ingest-buffer.ts`) | held ambient messages, engagement window | `ingest`, `sweepSettled`, `dismiss` | quiet periods | held messages reach a turn | `IngestBuffer` |
| OutboundEmitter (`outbound-emitter.ts`) | outbox rows, sequence counter, delivery chain | durable and best-effort events, retries, `resumePending`, redelivery | crash between POST and mark, two emitters of one correlation | one answer, delivered or recorded as failed | `OutboundEmitter`, `AnswerDelivery` |
| RpcChild (`rpc-child.ts`) | process, pending responses, chunks, `closed` | `start`, `send`, `close`, frames | handshake, registration, exit and timeouts race | every start and command settles, a closed child dies | `RpcChild` |
| ChildReaper (`child-reaper.ts`, `orphan-sweep.ts`) | JSON file of process groups | register, unregister, sweep | crash between any two steps | no group outlives its core unreclaimed | `RpcChild` |
| CronScheduler (`cron-scheduler.ts`, `cron-expression.ts`) | last-run files, run in flight, timer | tick, catch-up, boot runs, stop | clock changes, caps, crash between two writes | each boundary recorded once, in order, with its output | `CronScheduler`, `CronExpression` |
| HTTP adapter (`http-adapter`) | open requests, trackers, recent event ids | message and event routes, timers, close | events before the answer of the post, repeated or reordered | each request ends, streams are ordered | `HttpAdapter` |
| Pumble adapter (`pumble-adapter`) | routing targets, completed events, checkpoints, per-turn memory | webhook, core events, rendering | restart between an effect and its record, routing races | an answer is posted once, where it belongs | `PumbleAdapter` |
| File plans of the CLI (`cli/src/file-plan.ts`) | the user's files, staged and backup files, undo stack | `applyFilePlan` | a call fails half-way, a file appears meanwhile | all or nothing, other people's files kept | `FilePlan` |
| Rest of the CLI, contracts, configuration, image build | none that is shared | | sequential | covered by tests | none |

They interact as follows. An adapter posts a message to the core server, which
calls the Supervisor. The Supervisor runs one message per conversation at a
time, records it in the IdempotencyStore, holds or activates it with the
IngestBuffer, and for a turn leases the conversation's child from the
PoolManager; the pool starts children through the Supervisor's factory and
claims their registry row. Events of the child go to an OutboundEmitter, which
stores and delivers them to the adapter. Child errors and exits call back into
the pool (`retireChild`, `forgetExitedChild`).

The modules follow that structure: `Supervisor` EXTENDS `IdempotencyStore` and
`IngestBuffer` and applies their operators in its actions; `OutboundEmitter`
EXTENDS `IdempotencyStore` too, since its hooks write that table, and INSTANCEs
`AnswerDelivery`; `CronScheduler` EXTENDS `CronExpression`. What a module takes of
a part another module details is named in its header. Every `MC` module
instantiates one component for TLC, and a module `XProofs` EXTENDS `X` and holds its
theorems. `Order` has the one helper that three of them share, the listing of a finite
set of numbers in ascending order. A definition named `X_Y` next to `X` is `X`
with a plausible mistake, used to test that a property notices it.

## The modules

### `PoolManager`

Models the pool and what it touches of the registry, of `RpcChild` and of the
Supervisor. The correspondence of its state with the code:

| Variable | Code |
|---|---|
| `entries` | `this.entries`, as the sequence of its children in iteration order |
| `inUse`, `retiring`, `armed` | the flags of `PoolEntry`; `idleTimer !== null` |
| `conv`, `live`, `rpcClosed` | what a child process is for, whether it exists, `RpcChild.closed` set by a timeout |
| `inflight`, `stage`, `joiners`, `creators` | `this.inflight`, how far `doCreate` is, and who awaits the promise |
| `pendingCreations`, `closing` | the counters of the same names |
| `teardown`, `snap` | the teardowns under way by their awaiter (`pendingEvictions`), the candidate snapshots of evictions |
| `waiters`, `call` | `this.waiters`, and the continuation of each caller |
| `owner` | `session_registry.current_owner`; `free` is NULL, `stale` a token of an earlier supervisor, `noRow` no row |
| `phase` | `this.closed` and the progress of `closeImpl` |
| `micro` | the microtask queue |

The grain of atomicity is that of the event loop. An external event (a call, a
timer, an exit, an answer of a child) is one action and runs only when `micro`
is empty. What it triggers synchronously is part of it or, for the drain loop
and the continuations of settled promises, queued in `micro`, in the order
the promises resume them; `micro` is emptied before the next event. Hence
everything an `await` lets in is between two actions, and nothing else is.

The model shows an identity of a child to be reusable once nothing refers to
it (`Fresh`, `Recycle`), so that unbounded runs have finitely many states. A
process that leaked keeps its identity.

Abstractions: adapter and key are one conversation; the parent conversation,
the session file, time stamps, statistics and logging are left out; a timer may
fire at any time after it was armed; `release_failed` (a database error after
the child is dead) is taken to free the slot like a success, and its only other
effect, the owner left in the row, is what a crashed supervisor leaves too.
An `acquire` or `release` that throws or returns without changing anything is
not an action.

`Env` selects which failures and optional events may happen, `Serialized` whether
callers keep the Supervisor's discipline. `MCPoolManager` instantiates them.

### `Supervisor`, `IdempotencyStore`, `IngestBuffer`

One conversation of one adapter. An action runs from one `await` to the next;
`chain` is `inboundChains`, `call` the progress of its head. A correlation is named
after the message that created it. `rows` is the idempotency table, on which the
operators of `IdempotencyStore` stand for its methods (each is one SQLite
transaction); `buffer` is the conversation's state in the ingest buffer, with time
in ticks. `active` is the turn in flight; `kids` holds the children of the
conversation, pooled or not, with their lease and the runs they have to end. The
pool is what a single conversation sees of it: an acquire succeeds with the
pooled child or a fresh one, or fails; a child may be evicted when it is not
leased. Emitters are reduced to the terminal event of a correlation (`outbox`)
and whether it is being posted.

A message is addressed, ambient, or a session reset of either sort: `/new` counts by its
text alone, so the engagement window may activate an unaddressed one during a turn. It has
joined that turn's correlation by then, and `handleSessionReset` interrupts the turn
(`AdmitSuperseding`): the correlation gets its cancellation and the reset no answer.
`Settled` excepts the ingest of such a message, which stays pending.

Actions: `ProcessInbound`, `BeginSerial` (with the interruption), `Admit...` (the
outcomes of `beginInbound`), the two prompt and the two append steps, reset,
child output, `AgentEnd`, exit, error, eviction, delivery and its failure,
redelivery of a saved response, `Tick`, `FlushSettled`, `DismissEngagement`,
`Close`, `Crash`, `Boot` and `Recover`.

### `OutboundEmitter`, `AnswerDelivery`

One correlation with its messages, up to two emitters (the turn's, and the one
of a redelivery or of the recovery), the outbox and the idempotency table. The two
are separate databases, so the `Crash...` actions stop a step between its
writes. A POST and the handling of its answer are two steps: the adapter may
accept an event and the answer be lost. `AnswerDelivery` is the promise in four
actions: one answer is decided, it may be accepted, it counts as sent only when
it was accepted, and it may be given up before that. The refinement mapping
reads `answer` and `verdict` off the row of the message that opened the
correlation and `accepted` off the adapter's side.

### `RpcChild`

The process groups as the operating system knows them (`proc`), the `RpcChild`
objects (`obj`), the lines between them (`wire`), the registry file with the
operations queued on it (`file`, `lock`, `loaded`), crash and sweep. `overlap` says
whether a caller may start a child beside a living one of its conversation; the
pool does so when an idle eviction is closing the old one. A response comes on
one line or in chunks; each line may be lost (malformed, or with bad metadata) or
carry invalid data, and `Assembled` is the reassembly of `processChunk`. Byte
lengths, base64 and UTF-8 are what makes a chunk invalid and are not modelled
further. Chunk ids are fresh, so a frame never continues an older one.

Each operation on the registry may fail. A failed registration makes `start()` kill the
child; a failed unregistration is swallowed (`UnregisterFails`), and the entry of the dead
group stays. Until the sweep of a restart clears it, no child of that conversation can
register, which `NoStaleEntry` allows. An error event before the ready frame, a chunk
before the negotiation for instance, rejects `start()` and clears its timer, but kills
nobody (`HandshakeError`): the child is `abandoned`, alive and registered, with no object
left to close it. `Accounted` says that it stays registered, so that a restart finds it;
`ClosedDies` is about children that were closed or that `start()` gave up by killing.
A handshake that is rejected while the registration is still being written is a
promise nobody handles yet; if the runtime ends the process for it, that is a `Crash`.

### `CronExpression`, `CronScheduler`

`CronExpression` is the parser on parts (`*`, `A`, `A-B`, each with a step) and
`nextRunAfter`, over a calendar given by constants; a time zone is an offset that
may change once. `CronScheduler` is the tick loop with the durable last-run state.
The loop of `computeDueFires` is its result, the least set of minutes that is closed
under `nextRunAfter` (`FiresAfter`), and the times at which it throws instead
(`NeverAgain`). A `last-run.json` that cannot be read or parsed is taken for a missing one
(`Unreadable`): the job is anchored at the time of the tick and what it had missed is
dropped, so `CaughtUp` speaks of the boundaries since the last anchor. The clock never
goes back. `NextRunExact` compares `NextRunAfter` with what the schedule says
minute by minute, over the days that it scans from every reachable time.

### `HttpAdapter`

Requests (`req`), `inFlightConversations`, trackers with their early events,
the bounded memory of event ids, and the core as an environment that accepts a
message and delivers its events, possibly before it answered the post, more than
once, late or in another order. `Refuse` and `HandleMessage` are the two ends of the part
before the mark, in which the body is read; neither looks at `closing`. `close()` clears
the marks, so `OneTurnEach` holds until then and `NoneWaits` from then on.

### `PumbleAdapter`

The webhook side (`inbound`, `chain`, `byConversation`, `byCorrelation`) and the
rendering side: per correlation the events waiting in `render`'s chain, the step
the first one is at, the renderer's memory, the completed events and checkpoints,
and what stands in Pumble (`room`, `markers`). Both stores are in memory and in a file
(`targetFile`, `deliveryFile`): an operation changes the memory and then writes all of it;
a write that fails may have replaced the file or not, and a restart goes back to the file.
A call of the API that fails may have taken effect, since it is aborted after a time: the
edit of the interim message is then followed by a post of the same text. A step ends where
the code awaits the API or a store, so that a restart falls between an effect and its
checkpoint; `gap` counts, per message, the effects that were cut off from their
checkpoint, by a restart, by a failed write of it or by a call that took effect and
failed. `EffectsOnce` allows one repetition for each. `plan` chooses what is written and
which faults happen.

### `FilePlan`

The tree as a function from paths to nodes, `applyFilePlan` as the phases
preflight, stage, apply, and rollback or commit, one action per call that changes
the tree. `CallFails`, `StageFails`, `EnsureDirectoryFails` and the `bad` parameters
of the undo and cleanup actions are calls that fail; `Appear` is another program
that creates a file. `Goal` says what a plan is to achieve without the steps.

## Runs

| Run | Instance | Shows |
|---|---|---|
| `PoolLedger` | every failure, callers without discipline, one slot, two conversations | `CapacityBound`, `SlotLedger`, `SlotKept` (proved) |
| `PoolLeases` | what the pool is meant to handle, two slots, three conversations, rows of an earlier core | `LiveBounded`, `LeaseExclusive`, `EntryOwned`, `CloseBeforeRelease` (proved) |
| `PoolLiveness` | three callers without discipline, one slot, exits, idle timers, `close()` at any moment | `WaitersBlocked`, `ClosedQuiet` (proved, for callers with discipline), `CallsEnd` (`Served`, `CloseEnds`) |
| `Turns` | three messages: one delivered twice beside a superseding one, with a crash; two addressed and one ambient without | `Consistent` (`OwnTurn`), `SiblingsAnswered`, `TurnHeld` (`LeaseFollowsTurn`, `TurnRuns`), `WrittenOnce`, `Settled`, `RowsKept` (all proved) |
| `TurnsBacklog` | the same | fails: `BacklogStartsTurn` |
| `Outbox` | two messages of one correlation, two posts per schedule, one delta, one duplicate, two crashes | `OneAnswer`, `PostsBounded`, `Implements` (proved), `Settles` |
| `Children` | two children, two conversations, one command at a time, responses of three chunks, handshakes that break off, registry operations that fail, one crash | `Consistent` (`CommandsSettled`), `FramesWhole`, `Registered` (`Accounted`, `NoStaleEntry`), `EntriesKept` (proved), `CallsSettle` (`StartSettles`, `CommandsEnd`), `ClosedDies` |
| `Cron` | two jobs in five directories; hours of two minutes, days of two hours; a fault, an edit and a stop | `Consistent` (`OutputKept`), `NextRunExact`, `MissedRuns` (`CaughtUp`, `SkipsToLatest`) (proved), `CatchesUp` |
| `Http` | two requests of one or two conversations, four events each, three deliveries, a shutdown | `Consistent` (`OneTurnEach`, `NoneWaits`, `TrackersOwned`), `TerminalKept`, `StreamOrdered` (proved), `RequestsEnd` |
| `Pumble` | two messages posted twice and answered, with a restart and a failing write; one message with all its events in any order, with a fault or a restart; one answer with two faults and a restart | `Consistent` (`Tidy`), `RightPlace`, `ExactlyOnce` (`EffectsOnce`, `AckedUnlessFailed`) (proved) |
| `PumbleLost` | the same | fails: `AckedDelivered` |
| `Files` | nine plans of up to three operations, three failing calls, two files of others | `Consistent` (`ForeignKept`), `AllOrNothing` (`Restored`, `Applied`) |

"Proved" means that the properties before it in the cell are also theorems, for every
instance. The properties are stated, with what they are about, at the end of each module.
`Consistent` is the type invariant with the parts in parentheses; `TurnHeld`,
`Registered`, `CallsSettle`, `MissedRuns`, `CallsEnd`, `ExactlyOnce` and `AllOrNothing`
are the conjunctions of theirs.

The two runs that fail are disagreements of the code with its own comments.
`TurnsBacklog`: `flushSettled` begins the turn over a settled backlog under the id
of a message that is already recorded with another text; the store throws, the
error is logged, and the backlog is gone. `PumbleLost`: after a failed delivery of
a terminal event the renderer regards the turn as finished, so the core's retry is
acknowledged without being delivered. Three more disagreements are listed under "What
the models show besides".

Bounds. In the pool, one slot makes every second caller meet the cap, two allow a
candidate loop with a second candidate; three conversations are what two slots
and a competitor need. In `Turns`, three messages are one turn, one that joins it
and one that supersedes it; a crash is combined with two messages because a
third adds only another join. In `Outbox`, two posts per schedule are a retry
and an exhaustion, the second crash hits the recovery from the first. In
`Children`, three chunks have a first, a middle and a last one; two children are
one and its successor, or two neighbours in the file. In `Cron`, the cap is two
and time runs for five minutes, so that the cap is exceeded; `MaxDays` is one more
than the year. In `Http`, the limits for early and remembered events are one, so
that both overflow. In `Pumble`, there are three plans: two messages with their answers,
a restart, and either three deliveries or two and a fault; one message with every order of
four of the five events and a restart, or of three and a fault; and one answer, four
deliveries, two faults and a restart, which is a retry cut off on each side of its
record. In `Files`, three faults are a failure, one of its rollback and one
of the cleanup. Larger instances repeat these meetings.

Deadlock is not checked where the model may stop: when all identities, posts or
deliveries are used up, or the process is closed. `PoolLeases`
checks it. Symmetry is used for children in runs without liveness.

## Fairness

* `PoolManager`: the event loop runs its microtasks (weak fairness); answers of
  children are delivered (every command, the factory and close have a timeout),
  turns end and release their leases, and the continuation of `close()` runs (strong:
  queued events that microtasks may delay but not cancel). Nothing is assumed of
  new calls, timers or failures.
* `OutboundEmitter`: every emitter goes on with its queue, since a post ends or times
  out and a delay is a timer; the core is started again after a crash (the
  container restarts it). Whether the adapter ever accepts is left open.
* `RpcChild`: file operations and the timers of the handshake, of a command and of
  close complete; a killed group ends; the sweep runs at the next start. Nothing is
  assumed of the child: it may never write a line and never exit by itself.
* `CronScheduler`: the tick loop, a command's run (bounded by its timeout), the exit
  after a stop and the restart. A prompt's run need not end, and `CatchesUp`
  excepts it.
* `HttpAdapter`: the timers of the post, of the turn and of early events expire.
* `Supervisor`, `PumbleAdapter` and `FilePlan` are checked for safety only.

## Proofs

What a run checks on a small instance, the theorems below state for every value of
the constants. Each component has an inductive invariant (`Inv`; `CronInv` for the scheduler), lemmas
that say what each action does to it, and short theorems that derive the
properties of the runs from it.

| Module | Theorems | For every |
|---|---|---|
| `PoolManagerProofs` | `TypeCorrect`, `CapacityHolds` (`CapacityBound`), `LedgerExact` (`SlotLedger`), `SlotIsKept` (`SlotKept`) | finite sets of conversations and processes, callers, `maxChildren >= 1`, environment, discipline |
| | `LeaseExclusiveHolds`, `EntryOwnedHolds` | the same, but `Disciplined` |
| | `LiveBoundedHolds`, `ClosedQuietHolds` | the same, but `Disciplined` and `NoLeaks` |
| | `WaitersBlockedHolds` | the same, but `Disciplined` and `Promised` |
| | `CloseBeforeReleaseHolds` | the same, but `Acknowledged` |
| `SupervisorProofs` | `ConsistentHolds`, `SiblingsAnsweredHolds`, `TurnHeldHolds`, `WrittenOnceHolds`, `SettledHolds`, `RowsKeptHolds` | sets of messages and children, deliveries, crashes, window and quiet period |
| `OutboundEmitterProofs` | `PostsBoundedHolds`, `OneAnswerHolds`, `ImplementsHolds` (the refinement of `AnswerDelivery`) | messages, emitters, retry schedules, deltas, duplicates, crashes |
| `RpcChildProofs` | `ConsistentHolds`, `FramesHold` (`FramesWhole`), `RegisteredHolds`, `EntriesKeptHolds` | children, conversations, chunks, commands, failing registry operations, crashes |
| `HttpAdapterProofs` | `ConsistentHolds`, `TerminalKeptHolds`, `StreamOrderedHolds` | requests, conversations, events, limits |
| `PumbleAdapterProofs` | `ConsistentHolds`, `RightPlaceHolds`, `ExactlyOnceHolds` | messages, plans, deliveries, failing calls and writes, restarts |
| `CronSchedulerProofs` | `ConsistentHolds`, `NextRunIsExact` (`NextRunExact`), `MissedRunsHold` (`MissedRuns`) | calendars, schedules, jobs, zones, caps, stops, crashes, failed reads and writes, edits |
| `OrderProofs` | lemmas on `Ascending`, the listing of a finite set of numbers in order | |

The theorems assume what the named `ASSUME` of each module says, which TLC
evaluates in every run of it: the constants have their types, and the model values
that stand for "none" (`None`, `NoRow`, `NoResponse`) are not among the values they
are told apart from. Some theorems of the pool assume more, and say so in their
statements; what that excludes, and that it has to be excluded, is said below.

`PoolManager`. The capacity bound is not inductive: a step that turns `closing` into
an entry, or a reservation into an entry, keeps the sum only if the counter it
decrements really counts that child. `Inv` therefore adds that a child is in one
place at a time: pooled children are neither being created nor torn down
(`PooledSettled`), a child being torn down is not being created (`TornSettled`), a
child being created is the one its conversation's promise stands for
(`CreatingReserved`), keys of the Map are distinct (`KeysDistinct`), and the
counters are cardinalities (`CountersExact`). `CreateAfterEvict` creates without
looking at the capacity, so `Inv` needs `SlotKept`: a queued create task is alone
in the queue and has a free slot.

Leases have an invariant of their own, `LeaseInv`, on top of `Inv`. That a child has one
holder is not inductive, because an acquire hands over a child several steps after it
looked at the Map. `LeaseInv` follows each call through its awaits: a conversation has one
call (`OneCaller`), a creation has one caller that awaits it and no entry beside it
(`CreationsOwned`, `NoEntryYet`), the microtask that resumes a caller brings the child
of its conversation (`MicroSound`), a child in use has a holder (`UsedHeld`), and an owner
in the registry is pooled or being torn down (`OwnersSound`). `LiveInv` adds that every
process is pooled, being created or being torn down, so that the slots count the processes.
`WaitInv` is the absence of lost wakeups between events: as long as somebody waits, the
pool is full and busy, or an eviction or a creation of the drain is under way, or the
microtask that runs next drains. It is about the inside of an event, where `WaitersBlocked`
says nothing, and that is what makes it inductive.

The hypotheses of these theorems:

* `Disciplined`: the callers are the Supervisor's, one call per conversation (`Serialized`),
  and no close of a child fails. Without the first, both the joiner and the creator of a
  child may lease it, and two acquires may replace each other's entry; with `MaxChildren`
  of two or more `WaitersBlocked` fails too (the head of the queue waits for a busy
  conversation while a slot is free, or an acquire that evicted joins a creation in flight
  and leaves its slot idle). Without the second, a failed close puts a retired child back
  in the Map after its row was forgotten, and `EntryOwned` fails.
* `NoLeaks`: no failed negotiation and no acknowledgement timeout, which leave a process
  alive that the pool does not know.
* `Promised`: no creation fails. One that does gives its slot back without a drain.
* `Acknowledged`: no acknowledgement timeout, for callers with or without discipline.

`PoolLeases` runs under `Disciplined`, `NoLeaks` and `Acknowledged`. `PoolLiveness` has one slot and
callers without discipline, so the run and the theorems complement each other there.

`Supervisor`. The store part (`StoreSound`) says that a correlation is a row of its
own, that a terminal event leaves no ingest of its messages pending and that the rows
hold exactly the event posted. It is preserved only because nobody joins a correlation
that has its terminal event, and that is a fact about control: a turn whose terminal is
claimed is being aborted or is the transient one of a redelivery, and both hold the
chain (`Claimed`), while a turn in flight has no terminal event and the only ingest
pending in it is that of the call at the head (`InFlight`). `TurnRuns` rests on an
inequality between two counters, the runs the child still owes and the follow-ups whose
ends are swallowed; `LeaseFollowsTurn` on who may hold a lease at each step of the call
(`LeasesHeld`); `WrittenOnce` on the row being inserted before the child is asked;
`Settled` on `Unfinished`, which gives every unfinished message to the call at the head
or to the turn, except a session reset that joined the turn it took down. That no turn outlives the drain follows because its child has not
exited. Lemmas on the store's operators say what each leaves of a row (`Marked`, `Saved`),
and the action lemmas use those relations only.

`OutboundEmitter`. `OneAnswer` is not inductive: by itself it does not exclude an emitter
with a second terminal event in its queue, still to be delivered. `Inv` therefore says
that every terminal event queued or accepted has its row (`Recorded`) and that this row
is the last one, that the idempotency table retains the answer the
row holds (`StoresAgree`) and that the rows of the messages agree (`RowsSound`), and
that nothing is decided while the turn lasts (`TurnSound`). `PostsBounded` needs that
what the schedules still allow covers what the emitters may still post and what a
restart would post (`PostsCovered`).
For the refinement, the mapped `answer` and `verdict` are read off the row of the message
that opened the correlation; every step is shown to be one of the four abstract actions
or a stutter. The listing of the outbox in order of sequence numbers is `Ascending`, a
`CHOOSE`; `OrderProofs` shows that it exists and is unique, by taking least elements
(`WFMin`), because the induction rules of the library cannot be instantiated here.

`RpcChild`. `Inv` has three parts. On the wire, what an object has assembled is what its
process sent, unless a line was lost (`FramesExact`), and a closed object owes no
command. In the registry, the copy that an operation has read is the file as long as the
operation holds the lock (`LockHeld`), and queued operations and entries of the file
belong to objects in the states that issue them (`QueueOwned`, `EntriesOwned`). The third
part holds for callers that never start a child beside a living one of its
conversation (`CarefulCaller`): the operations of an older child come before those of its
successor and an entry stays until its own child removes it, which is what `Accounted`
rests on. The entry of a dead group has its unregistration in the queue or is marked as
left behind by one that failed (`stale`), which is all that `NoStaleEntry` excepts.

`HttpAdapter`. A request, its tracker and its stream agree at every step of
`handleMessage` (`TrackerSound`, `StreamSound`); the marks of conversations in flight are
those of open requests (`OneTurnEach`) until `close()`, and after it no request is waiting
(`NoneWaits`); an id remembered is that of an event seen
(`EventsKnown`); and an acknowledged terminal event is buffered, streamed or has ended the
request (`TerminalWaits`).

`PumbleAdapter`. Where an answer appears is decided when its text is posted, by what
the target store holds then. For `RightPlace`, `Inv` says who stands there: a message that
the core took is bound, or is at the head of its conversation's chain and the latest of
it, or has ended for good (`Reachable`, `ChainSound`), unless it was lost. For
`ExactlyOnce` it relates the step a rendering is at to its memory, to the checkpoints and
completed events and to what stands in the channel (`TurnSound`): an effect
happened at most as often as it was cut off from its record, and once more when the
record is there. Two cuts repeat the effect twice, which is why `gap` counts them. The
invariant is stated of what the stores remember, and `FileSound` and `OnFile` say it of
their files as well, which lag behind after a failed write: a restart may go back to them
at any moment. `Tidy` needs facts that hold only without a restart
(`TurnsUndisturbed`, `Cleared`), since a restart forgets the interim message.

`CronScheduler`. The proofs go from the calendar up. A wall time of a schedule lies in the
day, the hour and the minute it was put together from (`TimesAre`, `TimesHave`). In a zone
whose clock is set once, by a day at most (`IsZone`; no zone has moved further), a
wall time that comes once has one epoch, `wallToEpoch` finds it, and it is in order with
all others (`WallOfEpoch`, `WallOrder`). Hence `nextRunAfter` passes over no boundary
(`NextRunAfterFacts`): the earliest wall time it accepts is the earliest epoch. The fires of
a tick are a chain in which each is `nextRunAfter` of the one before, because a fire that
was not could be left out of the least closed set (`FiresAfterFacts`). `MissedRuns` is not
inductive, since it says nothing of the fires a tick still has to make: `CronInv` adds that
the fire being run and those that wait for it are such a chain, starting at
`last-run.json` (`Chain`, `Continues`), that a run belongs to the head of the queue
(`TickShape`), that a run about to be recorded has its output (`OutputFirst`) and that what
is recorded lies between the anchor and the last run (`Anchored`). Recording a fire takes
the first link off the chain and puts it on the log (`ChainTail`, `RecordOne`); a crash or a
failed write drops the chain, which the next tick builds again.

Only model-checked are: every liveness property (`CallsEnd`, `Settles`, `CallsSettle`,
`ClosedDies`, `CatchesUp`, `RequestsEnd`), since fairness and `ENABLED` are out of the
prover's reach; and `FilePlan`: that the undo stack leads back to the tree before takes an
induction over the stack, and the library's induction rules, which have an operator as a
parameter, cannot be instantiated here.

## What the models show besides

These are behaviours of the code that the models reach, or that were met while
writing them, and that no run above reports.

Three contradict a comment or a document. Each has its property in the module, which fails
in a copy of the configuration named, with that property alone:

* `ResetAnswered` (`Turns.cfg`, with `Scenarios <- Resets` and `PROPERTY ResetAnswered`):
  an unaddressed `/new` that the engagement window activates during a turn has joined that
  turn's correlation when `handleSessionReset` interrupts it (`supervisor.ts:763-764`), so
  `emitDirectReply` finds the cancellation (`outbound-emitter.ts:465`) and does nothing: the
  session is reset without an answer and the message stays pending. The comment at
  `supervisor.ts:769` says "Register a correlation exactly like a real turn so the terminal
  reply flows through the normal completion path.", and `supervisor.ts:348` names the
  danger for addressed messages: "joining the active correlation and then cancelling it
  would take the new message down with the old turn".
* `HeaderGrammar` (`Cron.cfg`, with `MinutesPerHour = 4`, `Jobs = 1`, `Setups <- SteppedValue` and
  `INVARIANT HeaderGrammar`): a single value with a step ends at that value
  (`cron-expression.ts:68`), so `5/15` is the minute 5 only. The header at line 11 says
  "`A`/M every M-th value from A to the range max (Vixie/Quartz style)".
* `OneTurnInFlight` (`Http.cfg`, with `INVARIANT OneTurnInFlight`): `close()` clears
  `inFlightConversations` (`http-adapter/src/server.ts:183`), and a request whose body was
  still being read passes the check at 267 and posts a second turn of a conversation.
  The repository's `README.md:429` says "Only one turn may be in flight for a conversation."

Pool. Each was found with TLC and can be reproduced with two callers, three
children and the named environment of `MCPoolManager`:

* two live children of one conversation (`OneLiveChild`, `IdleTimers`): an entry
  leaves the Map before its process is dead;
* `Served` fails with `FactoryFails`: an acquire whose own creation fails gives its
  slot back without draining the queue;
* `CloseBeforeRelease` fails with `AckTimeouts`: after an acknowledgement timeout
  `RpcChild.close()` returns at once, and ownership is released with the process
  alive;
* `LiveBounded` fails with `NegotiationFails`: a failed negotiation leaks the process.
* The lease properties assume the Supervisor's discipline: a joiner of a creation
  resumes before its creator and both may lease the child.

Supervisor and emitters:

* a duplicate of the addressed message being answered cancels that answer;
* a crash after the ingest of a message and before its terminal event ends the
  turn without any event, unless the message is delivered again;
* the exit of a child that was replaced fails the turn of its replacement;
* a passive append that is acknowledged after the turn it joined has ended makes
  the call fail although the message is in the session;
* the mode `steer` is never used, because an addressed message interrupts first;
* two emitters of one correlation (a turn's and a redelivery's) may have their
  events accepted out of order, and after a restart a pending `turn.started` may
  arrive after the terminal event.

Children:

* where two children of a conversation overlap, the second is refused
  registration while the first has its entry; otherwise the exit of the older one
  may remove the entry of the newer, which a crash then leaves unaccounted for
  (`Accounted` assumes `~overlap`);
* a child whose handshake an error event broke off lives on, and while its entry stands
  its conversation cannot start another; the same goes for an entry that a failed
  unregistration left behind;
* a dialog request of a child that is being closed makes `writeRaw` throw inside the
  listener of its output, where nothing catches it (`DialogWhileClosing`).

Cron:

* an unreadable `last-run.json` drops the backlog of a `catchUp` job;
* `stop()` during a run lets the tick begin its next due fire, which the exit cuts
  short and the next start repeats;
* a schedule that never matches makes the tick throw, so jobs after it never run;
  a malformed file leaves all of them unread;
* a prompt that never ends blocks every job;
* the repeated hour of a clock change is passed over.

Pumble:

* a post that times out after the core took the message leaves the correlation
  unbound, and its answer goes to whatever message came last (`lost` in
  `RightPlace`);
* so does the answer of a message whose binding was only in memory, because the write of
  it failed, when a restart follows;
* a turn that completes before its binding is written leaves the binding behind;
* a restart forgets the interim message, and a `turn.started` delivered after it
  puts the markers back (`Tidy` excepts restarts).

File plans:

* a file that a plan had replaced before it failed is restored and then removed:
  its staged artifact carries the file's name by then and is still marked for the
  cleanup of a failure. The error says nothing of it (`Replaced` in `Restored`);
* when the undo of the removal or replacement of a file fails, the cleanup removes the
  backup, the only copy left;
* created directories are never removed, since `rm` without `recursive` refuses them,
  so the failure of a plan that created one always reports a failed rollback;
* a staged file that could not be written completely is not recorded and stays;
* a file that appears in a directory whose contents are being removed goes with it.

## Not modelled

* SessionRegistry beyond ownership: session files and forking of parents are
  data to the pool, and its in-flight map never has a second caller.
* Operations of the IdempotencyStore that the core does not call.
* `turn.progress` and `presence.changed` in the emitter: delivered like the events
  that are modelled.
* In the adapters: signatures, uploads and downloads, installation and tokens,
  checks against events that contradict the contract.
* The core's HTTP routes, configuration, adapter registration, contracts: no state
  that several actors share.
* The `omp` process, its ambient extension, and the image build.
* The commands of the CLI besides file plans: one at a time, over files; and the
  symbolic links, modes and permissions that file plans check.

## Plan

1. `AllOrNothing` of `FilePlan`: the undo stack describes how to get back from the tree
   as it is to the one before.
2. An abstract lease service that `PoolManager` implements and `Supervisor` uses; `LeaseInv`
   has what its refinement needs.

## Running

`tlc -config Turns.cfg MCSupervisor` checks a run; `PROJECT.json` gives the module of
each configuration. `tlapm PoolManagerProofs.tla` checks the proofs of a module, from
nothing in some ten minutes for the pool and in one to five for the others.
