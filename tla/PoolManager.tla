----------------------------- MODULE PoolManager -----------------------------
(***************************************************************************)
(* The bounded child-process lease pool (packages/core/src/pool-manager.ts)*)
(* together with what it touches: the ownership column of SessionRegistry, *)
(* RpcChild.close, the default child factory, and the way the Supervisor   *)
(* calls the pool.                                                         *)
(*                                                                         *)
(* JavaScript runs one callback at a time.  An external event (a call, a   *)
(* timer, a process exit, the answer of a child) starts only when the      *)
(* microtask queue `micro' is empty; the promise continuations and the     *)
(* drain loop that the event triggers are queued in `micro' and run before *)
(* the next event.  A chain of continuations of one settled promise that   *)
(* nothing can interleave with is one step.                                *)
(***************************************************************************)
EXTENDS Integers, Sequences, FiniteSets

CONSTANTS
    Conv,        \* conversations, the (adapterId, conversationKey) pairs
    Caller,      \* concurrent users of acquire
    Child,       \* identities of child processes, recycled once forgotten
    MaxChildren, \* PoolManagerOptions.maxChildren
    Serialized,  \* TRUE: the Supervisor's discipline, one call per conversation
    Env,         \* the environment events that may happen, see EnvEvent
    Rows,        \* what session_registry may hold for a conversation at startup
    None         \* no child, no conversation

EnvEvent ==
    { "factory",    \* the factory rejects and leaves no process
      "negotiate",  \* the factory rejects after the process has started
      "attach",     \* getOrCreate or the ownership claim rejects
      "close",      \* child.close() throws, the process survives
      "exit",       \* a pooled process dies by itself
      "error",      \* a command fails or the stream breaks: retireChild
      "ackTimeout", \* a command is not acknowledged: RpcChild closes itself
      "idle",       \* idle timers fire
      "closeIdle", "reset", "shutdown" }

ASSUME PoolAssumption ==
    /\ IsFiniteSet(Conv) /\ IsFiniteSet(Child)
    /\ MaxChildren \in Nat \ {0}
    /\ Serialized \in BOOLEAN
    /\ Env \subseteq EnvEvent
    /\ Rows \subseteq {"noRow", "free", "stale"}
    /\ None \notin Conv \cup Child
    /\ Caller \cap {"none", "drain", "sweep", "idle", "retire", "final"} = {}
    /\ Child \cap {"noRow", "free", "stale"} = {}

VARIABLES
    entries,     \* the Map of live entries, in its iteration (LRU) order
    conv,        \* the conversation a child was created for
    live,        \* the OS processes that exist
    rpcClosed,   \* children whose RpcChild.closed flag was set by a timeout
    inUse, retiring, armed, \* PoolEntry.inUse, .retiring, .idleTimer # null
    inflight,    \* conversation -> the child being created for it
    stage,       \* how far doCreate is with a child
    joiners,     \* callers awaiting the creation promise itself
    creators,    \* callers awaiting it through createEntry, one tick later
    pendingCreations, closing,
    teardown,    \* who awaits teardownEntry of a child
    snap,        \* eviction candidates still to be tried, per evictor
    waiters,     \* the FIFO wait queue
    call,        \* what each caller is doing
    owner,       \* session_registry.current_owner per conversation
    phase,       \* how far close() is
    micro        \* queued microtasks

entryVars == <<entries, conv, inUse, retiring, armed>>
createVars == <<inflight, stage, joiners, creators, pendingCreations>>
evictVars == <<closing, teardown, snap>>
procVars == <<live, rpcClosed>>
vars == <<entryVars, createVars, evictVars, procVars, waiters, call, owner,
          phase, micro>>

Evictor == Caller \cup {"drain", "sweep"}

\* Teardowns whose child still counts in `closing' (all but those of close()).
Counted == Evictor \cup {"idle", "retire"}

Pc == {"idle", "evicting", "creating", "joining", "waiting", "drainCreating",
       "drainJoining", "holding", "resetting"}

Task == [op : {"drain"}] \cup [op : {"resume"}, caller : Caller, child : Child \cup {None}]
        \cup [op : {"create"}, caller : Caller] \cup [op : {"rejectFor"}, conv : Conv]
        \cup [op : {"evict"}, by : Evictor]

IdleCall == [pc |-> "idle", conv |-> None, child |-> None]
NoSnap == [order |-> <<>>, left |-> {}]

DrainTask == [op |-> "drain"]
ResumeTask(c, x) == [op |-> "resume", caller |-> c, child |-> x]
EvictTask(by) == [op |-> "evict", by |-> by]
CreateTask(c) == [op |-> "create", caller |-> c]
RejectTask(k) == [op |-> "rejectFor", conv |-> k]

(***************************************************************************)
(* Helpers on the Map of entries, a sequence without repeated keys.        *)
(***************************************************************************)
Pooled == {entries[i] : i \in DOMAIN entries}
Idle == Pooled \ inUse

\* Positions of conversation k in the Map: at most one.
At(k) == {i \in DOMAIN entries : conv[entries[i]] = k}

\* The sequence s without its i-th element (Map.delete, waiters.splice).
Without(s, i) == [j \in 1 .. (Len(s) - 1) |-> IF j < i THEN s[j] ELSE s[j + 1]]

\* entries.set(id, x): in place when the key is present, else at the end.
MapSet(x) ==
    IF At(conv[x]) = {}
    THEN Append(entries, x)
    ELSE [i \in DOMAIN entries |-> IF i \in At(conv[x]) THEN x ELSE entries[i]]

\* Move the entry at position i to the most-recently-used end.
touchLru(i) == Append(Without(entries, i), entries[i])

\* Move the entry of conversation k, if there is one, to that end.
TouchConv(k) ==
    IF At(k) = {} THEN UNCHANGED entries
    ELSE \E i \in At(k) : entries' = touchLru(i)

\* Mutant: children that are still closing take no slot.
occupiedSlots_IgnoresClosing == Len(entries) + pendingCreations
occupiedSlots == Len(entries) + pendingCreations + closing
\* Mutant: one child too many.
Full_OffByOne == occupiedSlots > MaxChildren
Full == occupiedSlots >= MaxChildren

\* Child identities nobody refers to any more.
Fresh ==
    {x \in Child : /\ x \notin live \cup Pooled
                   /\ stage[x] = "none" /\ teardown[x] = "none"
                   /\ \A c \in Caller : call[c].child # x
                   /\ \A k \in Conv : owner[k] # x}

\* The Supervisor runs one inbound message per conversation at a time and
\* keeps the lease of a turn, so it never asks twice for a conversation.
MayCall(k) == Serialized => \A c \in Caller : call[c].conv # k

Quiet == micro = <<>>

SetCall(c, pc, k, x) ==
    call' = [call EXCEPT ![c] = [pc |-> pc, conv |-> k, child |-> x]]
HangUp(c) == call' = [call EXCEPT ![c] = IdleCall]

\* Mutants: the release writes NULL over any owner; it leaves no valid owner.
ReleaseOwnership_Blind(x) ==
    owner' = IF conv[x] \in Conv THEN [owner EXCEPT ![conv[x]] = "free"] ELSE owner
ReleaseOwnership_Garbles(x) ==
    owner' = IF conv[x] \in Conv /\ owner[conv[x]] = x
             THEN [owner EXCEPT ![conv[x]] = None] ELSE owner

\* registry.release: compare-and-set the owner from x to NULL.
ReleaseOwnership(x) ==
    owner' = IF conv[x] \in Conv /\ owner[conv[x]] = x
             THEN [owner EXCEPT ![conv[x]] = "free"] ELSE owner

\* Drop the flags of a child once its process is dead, to recycle its identity.
Recycle(x) ==
    IF x \in live' THEN UNCHANGED <<conv, inUse, retiring>>
    ELSE /\ conv' = [conv EXCEPT ![x] = None]
         /\ inUse' = inUse \ {x}
         /\ retiring' = retiring \ {x}

-----------------------------------------------------------------------------
Init ==
    /\ entries = <<>>
    /\ conv = [x \in Child |-> None]
    /\ live = {} /\ rpcClosed = {}
    /\ inUse = {} /\ retiring = {} /\ armed = {}
    /\ inflight = [k \in Conv |-> None]
    /\ stage = [x \in Child |-> "none"]
    /\ joiners = [k \in Conv |-> <<>>]
    /\ creators = [k \in Conv |-> <<>>]
    /\ pendingCreations = 0 /\ closing = 0
    /\ teardown = [x \in Child |-> "none"]
    /\ snap = [e \in Evictor |-> NoSnap]
    /\ waiters = <<>>
    /\ call = [c \in Caller |-> IdleCall]
    \* Rows of an earlier supervisor may exist and may name a dead owner.
    /\ owner \in [Conv -> Rows]
    /\ phase = "open"
    /\ micro = <<>>

(***************************************************************************)
(* Building blocks: the start of an eviction and of a creation.            *)
(***************************************************************************)

\* The entry at position i leaves the Map, its slot is counted in `closing'
\* until its teardown, awaited by `by', settles.
BeginTeardown(i, by) ==
    /\ entries' = Without(entries, i)
    /\ armed' = armed \ {entries[i]}
    /\ closing' = closing + 1
    /\ teardown' = [teardown EXCEPT ![entries[i]] = by]

\* createEntry for caller c: joins the creation in flight, or reserves a slot
\* and lets the factory start a process.
createEntry(c, k, pc) ==
    /\ SetCall(c, pc, k, None)
    /\ creators' = [creators EXCEPT ![k] = Append(@, c)]
    /\ UNCHANGED joiners
    /\ \/ /\ inflight[k] # None
          /\ UNCHANGED <<inflight, stage, pendingCreations, conv, live>>
       \/ /\ inflight[k] = None
          /\ \E x \in Fresh :
               /\ inflight' = [inflight EXCEPT ![k] = x]
               /\ stage' = [stage EXCEPT ![x] = "factory"]
               /\ conv' = [conv EXCEPT ![x] = k]
               /\ live' = live \cup {x}
          /\ pendingCreations' = pendingCreations + 1

\* Mutant: inUse is not set.
Lease_Unmarked(c, k, x) ==
    /\ UNCHANGED inUse
    /\ TouchConv(k)
    /\ SetCall(c, "holding", k, x)

\* Caller c gets the lease of the pooled child x of conversation k.
Lease(c, k, x) ==
    /\ inUse' = inUse \cup {x}
    /\ TouchConv(k)
    /\ SetCall(c, "holding", k, x)

enqueueWaiter(c, k) ==
    /\ waiters' = Append(waiters, c)
    /\ SetCall(c, "waiting", k, None)

(***************************************************************************)
(* acquire                                                                 *)
(***************************************************************************)
AcquireReady(c, k) ==
    /\ Quiet
    /\ phase = "open"
    /\ call[c].pc = "idle"
    /\ MayCall(k)

\* A live idle child exists: lease it.  (A retiring one makes acquire throw.)
AcquireReuse(c, k) ==
    /\ AcquireReady(c, k)
    /\ \E i \in At(k) :
         /\ entries[i] \notin inUse \cup retiring
         /\ Lease(c, k, entries[i])
         /\ armed' = armed \ {entries[i]}
    /\ UNCHANGED <<conv, retiring, createVars, evictVars, procVars, waiters,
                   owner, phase, micro>>

\* The child is leased: wait for its release.
AcquireBusy(c, k) ==
    /\ AcquireReady(c, k)
    /\ \E i \in At(k) : entries[i] \in inUse \ retiring
    /\ enqueueWaiter(c, k)
    /\ UNCHANGED <<entryVars, createVars, evictVars, procVars, owner, phase, micro>>

\* A creation is in flight: await it.
AcquireJoin(c, k) ==
    /\ AcquireReady(c, k)
    /\ At(k) = {} /\ inflight[k] # None
    /\ joiners' = [joiners EXCEPT ![k] = Append(@, c)]
    /\ SetCall(c, "joining", k, None)
    /\ UNCHANGED <<entryVars, inflight, stage, creators, pendingCreations,
                   evictVars, procVars, waiters, owner, phase, micro>>

AcquireNew(c, k) ==
    /\ AcquireReady(c, k)
    /\ At(k) = {} /\ inflight[k] = None

\* At capacity with every child in use: join the FIFO queue.
AcquireWait(c, k) ==
    /\ AcquireNew(c, k)
    /\ Full /\ Idle = {}
    /\ enqueueWaiter(c, k)
    /\ UNCHANGED <<entryVars, createVars, evictVars, procVars, owner, phase, micro>>

\* At capacity with idle children: snapshot them in LRU order and evict.
AcquireEvict(c, k) ==
    /\ AcquireNew(c, k)
    /\ Full /\ Idle # {}
    /\ snap' = [snap EXCEPT ![c] = [order |-> entries, left |-> Idle]]
    /\ SetCall(c, "evicting", k, None)
    /\ micro' = <<EvictTask(c)>>
    /\ UNCHANGED <<entryVars, createVars, closing, teardown, procVars, waiters,
                   owner, phase>>

AcquireCreate(c, k) ==
    /\ AcquireNew(c, k)
    /\ ~Full
    /\ createEntry(c, k, "creating")
    /\ UNCHANGED <<entries, inUse, retiring, armed, evictVars, rpcClosed, waiters,
                   owner, phase, micro>>

-----------------------------------------------------------------------------
(***************************************************************************)
(* doCreate: factory, getOrCreate, ownership claim, entries.set.           *)
(***************************************************************************)

\* Mutant: a rejected creation keeps its reservation.
Settle_KeepsReservation(k, x) ==
    LET queue == joiners[k] \o creators[k]
    IN  /\ inflight' = [inflight EXCEPT ![k] = None]
        /\ pendingCreations' = IF x = None THEN pendingCreations ELSE pendingCreations - 1
        /\ joiners' = [joiners EXCEPT ![k] = <<>>]
        /\ creators' = [creators EXCEPT ![k] = <<>>]
        /\ micro' = [i \in DOMAIN queue |-> ResumeTask(queue[i], x)]

\* The creation promise of k settles with x, or rejects when x is None:
\* finally() frees the reservation, then the direct awaiters resume, then,
\* a tick later, those that went through createEntry.
Settle(k, x) ==
    LET queue == joiners[k] \o creators[k]
    IN  /\ inflight' = [inflight EXCEPT ![k] = None]
        /\ pendingCreations' = pendingCreations - 1
        /\ joiners' = [joiners EXCEPT ![k] = <<>>]
        /\ creators' = [creators EXCEPT ![k] = <<>>]
        /\ micro' = [i \in DOMAIN queue |-> ResumeTask(queue[i], x)]

\* The factory delivers a started child; getOrCreate looks the row up and
\* sends switch_session, or new_session when there is none.
FactoryDone(x) ==
    /\ Quiet
    /\ stage[x] = "factory"
    /\ stage' = [stage EXCEPT ![x] =
                   IF owner[conv[x]] = "noRow" THEN "attachNew" ELSE "attach"]
    /\ UNCHANGED <<entryVars, inflight, joiners, creators, pendingCreations,
                   evictVars, procVars, waiters, call, owner, phase, micro>>

\* The factory rejects: start() kills the process it spawned, but a failed
\* protocol negotiation leaves it running.
FactoryFail(x) ==
    /\ Quiet
    /\ stage[x] = "factory"
    /\ \/ "factory" \in Env /\ live' = live \ {x}
       \/ "negotiate" \in Env /\ UNCHANGED live
    /\ Recycle(x)
    /\ stage' = [stage EXCEPT ![x] = "none"]
    /\ Settle(conv[x], None)
    /\ UNCHANGED <<entries, armed, evictVars, rpcClosed, waiters,
                   call, owner, phase>>

\* The row an attach works on is still what getOrCreate found.
RowStands(x) == (stage[x] = "attachNew") <=> (owner[conv[x]] = "noRow")

\* getOrCreate resolves; the ownership is claimed from NULL, or transferred
\* from whatever owner is recorded; the entry enters the Map idle.
AttachDone(x) ==
    /\ Quiet
    /\ stage[x] \in {"attach", "attachNew"}
    /\ RowStands(x)
    /\ owner' = [owner EXCEPT ![conv[x]] = x]
    /\ entries' = MapSet(x)
    /\ inUse' = inUse \ {x} /\ retiring' = retiring \ {x} /\ armed' = armed \ {x}
    /\ stage' = [stage EXCEPT ![x] = "none"]
    /\ Settle(conv[x], x)
    /\ UNCHANGED <<conv, evictVars, procVars, waiters, call, phase>>

\* getOrCreate rejects or the row has gone: the fresh child is closed first.
AttachFail(x) ==
    /\ Quiet
    /\ stage[x] \in {"attach", "attachNew"}
    /\ "attach" \in Env \/ ~RowStands(x)
    /\ stage' = [stage EXCEPT ![x] = "cleanup"]
    /\ UNCHANGED <<entryVars, inflight, joiners, creators, pendingCreations,
                   evictVars, procVars, waiters, call, owner, phase, micro>>

\* Mutant: the close is started but not awaited.
ProcessClosed_NotAwaited(x, ok) ==
    /\ ok \/ "close" \in Env
    /\ UNCHANGED <<live, rpcClosed>>

\* What child.close() leaves of the process: nothing when it succeeds, but it
\* returns at once, process alive, when the RpcChild was already closed.
ProcessClosed(x, ok) ==
    /\ ok \/ "close" \in Env
    /\ live' = IF ok /\ x \notin rpcClosed THEN live \ {x} ELSE live
    /\ rpcClosed' = IF x \in live' THEN rpcClosed ELSE rpcClosed \ {x}

CleanupDone(x, ok) ==
    /\ Quiet
    /\ stage[x] = "cleanup"
    /\ ProcessClosed(x, ok)
    /\ Recycle(x)
    /\ stage' = [stage EXCEPT ![x] = "none"]
    /\ Settle(conv[x], None)
    /\ UNCHANGED <<entries, armed, evictVars, waiters, call,
                   owner, phase>>

(***************************************************************************)
(* Continuations of the callers that awaited a creation.                   *)
(***************************************************************************)
Running(op) == micro # <<>> /\ Head(micro).op = op
Then(tasks) == micro' = tasks \o Tail(micro)

ResumeReady(c, pcs) ==
    /\ Running("resume")
    /\ Head(micro).caller = c
    /\ call[c].pc \in pcs

\* Callers that came through drainWaiters drain again when they are done,
\* unless the pool closed meanwhile; those of acquire do not.
AfterResume(c) ==
    Then(IF /\ call[c].pc \in {"drainCreating", "drainJoining"}
            /\ phase = "open" \/ Head(micro).child = None
         THEN <<DrainTask>> ELSE <<>>)

\* The creation failed or the pool was closed: the caller's promise rejects.
ResumeReject(c) ==
    /\ ResumeReady(c, {"creating", "drainCreating", "joining", "drainJoining"})
    /\ Head(micro).child = None \/ phase # "open"
    /\ HangUp(c)
    /\ AfterResume(c)
    /\ UNCHANGED <<entryVars, createVars, evictVars, procVars, waiters, owner, phase>>

\* The creator takes the lease without looking; a joiner only an idle child.
ResumeLease(c) ==
    LET x == Head(micro).child
    IN  /\ ResumeReady(c, {"creating", "drainCreating", "joining", "drainJoining"})
        /\ x # None /\ phase = "open"
        /\ call[c].pc \in {"joining", "drainJoining"} => x \notin inUse
        /\ Lease(c, call[c].conv, x)
        /\ AfterResume(c)
        /\ UNCHANGED <<conv, retiring, armed, createVars, evictVars, procVars,
                       waiters, owner, phase>>

\* A joiner that finds the child leased queues: acquire at the end, a drained
\* waiter back at the head.
ResumeQueue(c) ==
    LET x == Head(micro).child
    IN  /\ ResumeReady(c, {"joining", "drainJoining"})
        /\ x # None /\ phase = "open"
        /\ x \in inUse
        /\ waiters' = IF call[c].pc = "joining" THEN Append(waiters, c)
                                                ELSE <<c>> \o waiters
        /\ SetCall(c, "waiting", call[c].conv, None)
        /\ AfterResume(c)
        /\ UNCHANGED <<entryVars, createVars, evictVars, procVars, owner, phase>>

-----------------------------------------------------------------------------
(***************************************************************************)
(* Release and the drain loop.                                             *)
(***************************************************************************)

\* The holder calls lease.release().  releaseEntry looks the entry up by
\* conversation, so it finds whichever child the Map holds now.
Release(c) ==
    /\ Quiet
    /\ call[c].pc = "holding"
    /\ HangUp(c)
    /\ \/ /\ phase = "open"
          /\ \E i \in At(call[c].conv) :
               /\ entries[i] \notin retiring
               /\ inUse' = inUse \ {entries[i]}
               /\ armed' = armed \cup {entries[i]}
               /\ entries' = touchLru(i)
          /\ micro' = <<DrainTask>>
       \/ /\ \/ phase # "open"
             \/ \A i \in At(call[c].conv) : entries[i] \in retiring
          /\ UNCHANGED <<entries, inUse, armed, micro>>
    /\ UNCHANGED <<conv, retiring, createVars, evictVars, procVars, waiters, owner, phase>>

HeadConv == call[Head(waiters)].conv
DrainReady ==
    Running("drain") /\ waiters # <<>> /\ call[Head(waiters)].pc = "waiting"

\* drainWaiters: the head's conversation has an idle child, hand it over
\* (or reject the head when that child is retiring) and go on.
DrainReuse ==
    /\ DrainReady
    /\ \E i \in At(HeadConv) :
         LET x == entries[i]
         IN  /\ x \in retiring \/ x \notin inUse
             /\ IF x \in retiring
                THEN HangUp(Head(waiters)) /\ UNCHANGED <<entries, inUse, armed>>
                ELSE Lease(Head(waiters), HeadConv, x) /\ armed' = armed \ {x}
    /\ waiters' = Tail(waiters)
    /\ UNCHANGED <<conv, retiring, createVars, evictVars, procVars, owner, phase, micro>>

\* A creation for the head's conversation is in flight: await it and stop.
DrainJoin ==
    /\ DrainReady
    /\ At(HeadConv) = {} /\ inflight[HeadConv] # None
    /\ joiners' = [joiners EXCEPT ![HeadConv] = Append(@, Head(waiters))]
    /\ SetCall(Head(waiters), "drainJoining", HeadConv, None)
    /\ waiters' = Tail(waiters)
    /\ Then(<<>>)
    /\ UNCHANGED <<entryVars, inflight, stage, creators, pendingCreations,
                   evictVars, procVars, owner, phase>>

drainEviction == \E x \in Child : teardown[x] = "drain"

\* No slot, but an idle child: start the one eviction a drain may have running.
DrainEvict ==
    /\ DrainReady
    /\ At(HeadConv) = {} /\ inflight[HeadConv] = None
    /\ Full /\ Idle # {} /\ ~drainEviction
    /\ snap' = [snap EXCEPT !["drain"] = [order |-> entries, left |-> Idle]]
    /\ Then(<<EvictTask("drain")>>)
    /\ UNCHANGED <<entryVars, createVars, closing, teardown, procVars, waiters,
                   call, owner, phase>>

\* A slot is free: create a child for the head and stop.
DrainCreate ==
    /\ DrainReady
    /\ At(HeadConv) = {} /\ inflight[HeadConv] = None
    /\ ~Full
    /\ createEntry(Head(waiters), HeadConv, "drainCreating")
    /\ waiters' = Tail(waiters)
    /\ Then(<<>>)
    /\ UNCHANGED <<entries, inUse, retiring, armed, evictVars, rpcClosed, owner, phase>>

\* Nobody waits, the head's child is leased, or no slot can be had now.
DrainStop ==
    /\ Running("drain")
    /\ \/ waiters = <<>>
       \/ /\ waiters # <<>>
          /\ \E i \in At(HeadConv) : entries[i] \in inUse \ retiring
       \/ /\ waiters # <<>>
          /\ At(HeadConv) = {} /\ inflight[HeadConv] = None
          /\ Full /\ (Idle = {} \/ drainEviction)
    /\ Then(<<>>)
    /\ UNCHANGED <<entryVars, createVars, evictVars, procVars, waiters, call,
                   owner, phase>>

-----------------------------------------------------------------------------
(***************************************************************************)
(* Eviction: the candidate loop, and the continuations of a teardown.      *)
(***************************************************************************)

\* Positions of the snapshot whose entry is still pooled and idle.
Candidates(by) ==
    {i \in DOMAIN snap[by].order : snap[by].order[i] \in snap[by].left \cap Idle}

\* Close the first candidate that is still there; the loop never turns back.
EvictNext(by) ==
    /\ Running("evict") /\ Head(micro).by = by
    /\ \E n \in Candidates(by) :
         /\ \A m \in Candidates(by) : n <= m
         /\ \E i \in DOMAIN entries :
              entries[i] = snap[by].order[n] /\ BeginTeardown(i, by)
         /\ snap' = [snap EXCEPT ![by].left =
                       {snap[by].order[m] : m \in {j \in DOMAIN snap[by].order : j > n}}
                         \cap snap[by].left]
    /\ Then(<<>>)
    /\ UNCHANGED <<conv, inUse, retiring, createVars, procVars, waiters, call,
                   owner, phase>>

\* Every candidate failed to close (or, for closeIdle, all were tried):
\* acquire throws, the drain rejects every waiter, and the drains go on.
EvictDone(by) ==
    /\ Running("evict") /\ Head(micro).by = by
    /\ Candidates(by) = {}
    /\ snap' = [snap EXCEPT ![by] = NoSnap]
    /\ Then(IF by \in Caller THEN <<>> ELSE <<DrainTask>>)
    /\ call' = [c \in Caller |->
                  IF c = by \/ (by = "drain" /\ call[c].pc = "waiting")
                  THEN IdleCall ELSE call[c]]
    /\ waiters' = IF by = "drain" THEN <<>> ELSE waiters
    /\ UNCHANGED <<entryVars, createVars, closing, teardown, procVars, owner, phase>>

\* teardownEntry(x), awaited by one of `by', settles: the process is gone and
\* the ownership released, or close() threw and both stay.
Settled(x, by, ok) ==
    /\ Quiet
    /\ teardown[x] \in by
    /\ ProcessClosed(x, ok)
    /\ teardown' = [teardown EXCEPT ![x] = "none"]
    /\ IF ok THEN Recycle(x) ELSE UNCHANGED <<conv, inUse, retiring>>

\* A failed close puts the entry back as an occupied slot; it was evicted
\* idle, so that inUse = false of the code changes nothing.
Restore(x) == entries' = MapSet(x) /\ armed' = armed \ {x}

\* Mutant: the queue is drained before the acquire that evicted goes on.
CapacityEvicted_DrainsFirst(x) ==
    /\ Settled(x, Caller, TRUE)
    /\ ReleaseOwnership(x)
    /\ closing' = closing - 1
    /\ snap' = [snap EXCEPT ![teardown[x]] = NoSnap]
    /\ micro' = <<DrainTask, CreateTask(teardown[x])>>
    /\ UNCHANGED <<entries, armed, createVars, waiters, call, phase>>

\* acquire's eviction succeeded: the slot is free for its own creation.
CapacityEvicted(x) ==
    /\ Settled(x, Caller, TRUE)
    /\ ReleaseOwnership(x)
    /\ closing' = closing - 1
    /\ snap' = [snap EXCEPT ![teardown[x]] = NoSnap]
    /\ micro' = <<CreateTask(teardown[x])>>
    /\ UNCHANGED <<entries, armed, createVars, waiters, call, phase>>

\* The rest of that acquire: it creates without another look at the capacity,
\* or throws when the pool was closed meanwhile.
CreateAfterEvict(c) ==
    /\ Running("create") /\ Head(micro).caller = c /\ call[c].pc = "evicting"
    /\ \/ /\ phase = "open"
          /\ createEntry(c, call[c].conv, "creating")
       \/ /\ phase # "open"
          /\ HangUp(c)
          /\ UNCHANGED <<createVars, conv, live>>
    /\ Then(<<>>)
    /\ UNCHANGED <<entries, inUse, retiring, armed, evictVars, rpcClosed, waiters,
                   owner, phase>>

\* The drain's eviction succeeded: drain again.
DrainEvicted(x) ==
    /\ Settled(x, {"drain"}, TRUE)
    /\ ReleaseOwnership(x)
    /\ closing' = closing - 1
    /\ snap' = [snap EXCEPT !["drain"] = NoSnap]
    /\ micro' = <<DrainTask>>
    /\ UNCHANGED <<entries, armed, createVars, waiters, call, phase>>

\* closeIdle closed one child: on to the next.
SweepEvicted(x) ==
    /\ Settled(x, {"sweep"}, TRUE)
    /\ ReleaseOwnership(x)
    /\ closing' = closing - 1
    /\ micro' = <<EvictTask("sweep")>>
    /\ UNCHANGED <<entries, armed, createVars, snap, waiters,
                   call, phase>>

\* One of the candidate loops could not close a child: try the next one.
EvictFailed(x) ==
    /\ Settled(x, Evictor, FALSE)
    /\ Restore(x)
    /\ closing' = closing - 1
    /\ micro' = <<EvictTask(teardown[x])>>
    /\ UNCHANGED <<createVars, snap, waiters, call, owner, phase>>

\* Mutant: nobody is told about the slot an idle sweep freed.
IdleEvicted_NoDrain(x, ok) ==
    /\ Settled(x, {"idle"}, ok)
    /\ IF ok THEN ReleaseOwnership(x) /\ UNCHANGED <<entries, armed>>
             ELSE Restore(x) /\ UNCHANGED owner
    /\ closing' = closing - 1
    /\ UNCHANGED <<createVars, snap, waiters, call, phase, micro>>

\* An idle sweep ends; either way the queue is drained.
IdleEvicted(x, ok) ==
    /\ Settled(x, {"idle"}, ok)
    /\ IF ok THEN ReleaseOwnership(x) /\ UNCHANGED <<entries, armed>>
             ELSE Restore(x) /\ UNCHANGED owner
    /\ closing' = closing - 1
    /\ micro' = <<DrainTask>>
    /\ UNCHANGED <<createVars, snap, waiters, call, phase>>

\* retireChild ends: drain; a session reset that waited for it then deletes
\* the registry row.
RetireEvicted(x) ==
    LET resets == {c \in Caller : call[c].pc = "resetting" /\ call[c].child = x}
    IN  /\ Settled(x, {"retire"}, TRUE)
        /\ IF resets = {} THEN ReleaseOwnership(x)
           ELSE owner' = [owner EXCEPT ![conv[x]] = "noRow"]
        /\ call' = [c \in Caller |-> IF c \in resets THEN IdleCall ELSE call[c]]
        /\ closing' = closing - 1
        /\ micro' = <<DrainTask>>
        /\ UNCHANGED <<entries, armed, createVars, snap, waiters, phase>>

\* The retired child does not close: it stays, leased to nobody, and the
\* waiters of its conversation are rejected.  The session reset throws.
RetireFailed(x) ==
    /\ Quiet
    /\ teardown[x] = "retire"
    /\ ProcessClosed(x, FALSE)
    /\ teardown' = [teardown EXCEPT ![x] = "none"]
    /\ Restore(x)
    /\ inUse' = inUse \cup {x}
    /\ closing' = closing - 1
    /\ call' = [c \in Caller |-> IF call[c].pc = "resetting" /\ call[c].child = x
                                 THEN IdleCall ELSE call[c]]
    /\ micro' = <<RejectTask(conv[x])>>
    /\ UNCHANGED <<conv, retiring, createVars, snap, waiters, owner, phase>>

\* rejectWaitersFor: from the end of the queue, one waiter of k after another.
RejectWaiter(k) ==
    LET mine == {i \in DOMAIN waiters : call[waiters[i]].conv = k}
    IN  /\ Running("rejectFor") /\ Head(micro).conv = k
        /\ \/ /\ mine = {}
              /\ Then(<<>>)
              /\ UNCHANGED <<waiters, call>>
           \/ \E i \in mine :
                /\ \A j \in mine : j <= i
                /\ waiters' = Without(waiters, i)
                /\ HangUp(waiters[i])
                /\ UNCHANGED micro
        /\ UNCHANGED <<entryVars, createVars, evictVars, procVars, owner, phase>>

-----------------------------------------------------------------------------
(***************************************************************************)
(* Timers, failures of children, session reset.                            *)
(***************************************************************************)

\* The idle timer armed for x fires and evicts the idle child it finds in the
\* Map under the conversation of x.
IdleTimer(x) ==
    /\ Quiet /\ "idle" \in Env
    /\ x \in armed
    /\ \/ \E i \in At(conv[x]) :
            /\ entries[i] \notin inUse
            /\ entries' = Without(entries, i)
            /\ armed' = armed \ {x, entries[i]}
            /\ closing' = closing + 1
            /\ teardown' = [teardown EXCEPT ![entries[i]] = "idle"]
       \/ /\ \A i \in At(conv[x]) : entries[i] \in inUse
          /\ armed' = armed \ {x}
          /\ UNCHANGED <<entries, closing, teardown>>
    /\ UNCHANGED <<conv, inUse, retiring, createVars, snap, procVars, waiters,
                   call, owner, phase, micro>>

\* retireChild: a pooled child is known to be bad; it is taken out of the Map
\* and closed.  The lease, if any, is released by its holder afterwards.
retireChild(i) ==
    /\ entries[i] \notin retiring
    /\ retiring' = retiring \cup {entries[i]}
    /\ inUse' = inUse \ {entries[i]}
    /\ BeginTeardown(i, "retire")

ChildError(x) ==
    /\ Quiet /\ "error" \in Env
    /\ \E i \in DOMAIN entries : entries[i] = x /\ retireChild(i)
    /\ UNCHANGED <<conv, createVars, snap, procVars, waiters, call, owner, phase, micro>>

\* A process dies outside a teardown.  forgetExitedChild removes its entry,
\* releases the ownership and drains, unless the Supervisor is closing.
ChildExit(x) ==
    /\ Quiet
    /\ x \in live
    /\ ("exit" \in Env /\ x \in Pooled) \/ x \in rpcClosed
    /\ live' = live \ {x} /\ rpcClosed' = rpcClosed \ {x}
    /\ \/ /\ phase = "open"
          /\ \E i \in DOMAIN entries : entries[i] = x /\ entries' = Without(entries, i)
          /\ armed' = armed \ {x}
          /\ Recycle(x)
          /\ ReleaseOwnership(x)
          /\ micro' = <<DrainTask>>
       \/ /\ phase # "open" \/ x \notin Pooled
          /\ UNCHANGED <<entryVars, owner, micro>>
    /\ UNCHANGED <<createVars, evictVars, waiters, call, phase>>

\* A command is not acknowledged in time: its promise rejects and the RpcChild
\* starts to close itself; nobody awaits that close.
AckTimeout(x) ==
    /\ Quiet /\ "ackTimeout" \in Env
    /\ x \in live \ rpcClosed
    /\ rpcClosed' = rpcClosed \cup {x}
    /\ \/ /\ \E c \in Caller : call[c].pc = "holding" /\ call[c].child = x
          /\ UNCHANGED stage
       \/ /\ stage[x] \in {"attach", "attachNew"}
          /\ stage' = [stage EXCEPT ![x] = "cleanup"]
    /\ UNCHANGED <<entryVars, inflight, joiners, creators, pendingCreations, live,
                   evictVars, waiters, call, owner, phase, micro>>

\* A session reset of k: retire the pooled child, then delete the row.
Reset(c, k) ==
    /\ Quiet /\ "reset" \in Env
    /\ phase = "open"
    /\ call[c].pc = "idle"
    /\ \A d \in Caller : call[d].conv # k
    /\ \/ \E i \in At(k) :
            /\ retireChild(i)
            /\ SetCall(c, "resetting", k, entries[i])
            /\ UNCHANGED owner
       \/ /\ \A i \in At(k) : entries[i] \in retiring
          /\ owner' = [owner EXCEPT ![k] = "noRow"]
          /\ UNCHANGED <<entries, inUse, retiring, armed, closing, teardown, call>>
    /\ UNCHANGED <<conv, createVars, snap, procVars, waiters, phase, micro>>

\* closeIdle: snapshot the idle children and close them one by one.
closeIdle ==
    /\ Quiet /\ "closeIdle" \in Env
    /\ \A x \in Child : teardown[x] # "sweep"
    /\ armed' = armed \ Idle
    /\ snap' = [snap EXCEPT !["sweep"] = [order |-> entries, left |-> Idle]]
    /\ micro' = <<EvictTask("sweep")>>
    /\ UNCHANGED <<entries, conv, inUse, retiring, createVars, closing, teardown,
                   procVars, waiters, call, owner, phase>>

(***************************************************************************)
(* close                                                                   *)
(***************************************************************************)

\* Waiters are rejected and timers stopped before the first await.
close ==
    /\ Quiet /\ "shutdown" \in Env
    /\ phase = "open"
    /\ phase' = "closing"
    /\ waiters' = <<>>
    /\ call' = [c \in Caller |-> IF call[c].pc = "waiting" THEN IdleCall ELSE call[c]]
    /\ armed' = armed \ Pooled
    /\ UNCHANGED <<entries, conv, inUse, retiring, createVars, evictVars, procVars,
                   owner, micro>>

\* Mutants: close() does not wait for the evictions under way; it also waits
\* for leases, which a closed pool no longer takes back.
CloseEntries_NoWait ==
    /\ Quiet
    /\ phase = "closing"
    /\ \A k \in Conv : inflight[k] = None
    /\ phase' = "teardown"
    /\ pendingCreations' = 0
    /\ teardown' = [x \in Child |-> IF x \in Pooled THEN "final" ELSE teardown[x]]
    /\ entries' = <<>>
    /\ UNCHANGED <<conv, inUse, retiring, armed, inflight, stage, joiners, creators,
                   closing, snap, procVars, waiters, call, owner, micro>>
CloseEntries_AwaitsLeases ==
    /\ \A x \in Child : teardown[x] = "none"
    /\ Pooled \cap inUse = {}
    /\ CloseEntries_NoWait

\* Once creations and evictions have settled, every entry is torn down.
CloseEntries ==
    /\ Quiet
    /\ phase = "closing"
    /\ \A k \in Conv : inflight[k] = None
    /\ \A x \in Child : teardown[x] = "none"
    /\ phase' = "teardown"
    /\ pendingCreations' = 0
    /\ teardown' = [x \in Child |-> IF x \in Pooled THEN "final" ELSE teardown[x]]
    /\ entries' = <<>>
    /\ UNCHANGED <<conv, inUse, retiring, armed, inflight, stage, joiners, creators,
                   closing, snap, procVars, waiters, call, owner, micro>>

FinalClosed(x, ok) ==
    /\ Settled(x, {"final"}, ok)
    /\ IF ok THEN ReleaseOwnership(x) ELSE UNCHANGED owner
    /\ UNCHANGED <<entries, armed, createVars, closing, snap,
                   waiters, call, phase, micro>>

CloseDone ==
    /\ Quiet
    /\ phase = "teardown"
    /\ \A x \in Child : teardown[x] # "final"
    /\ phase' = "closed"
    /\ UNCHANGED <<entryVars, createVars, evictVars, procVars, waiters, call,
                   owner, micro>>

-----------------------------------------------------------------------------
Acquire(c, k) ==
    \/ AcquireReuse(c, k) \/ AcquireBusy(c, k) \/ AcquireJoin(c, k)
    \/ AcquireWait(c, k) \/ AcquireEvict(c, k) \/ AcquireCreate(c, k)

Resume(c) == ResumeReject(c) \/ ResumeLease(c) \/ ResumeQueue(c)

drainWaiters == DrainReuse \/ DrainJoin \/ DrainEvict \/ DrainCreate \/ DrainStop

Microtask ==
    \/ drainWaiters
    \/ \E c \in Caller : Resume(c) \/ CreateAfterEvict(c)
    \/ \E by \in Evictor : EvictNext(by) \/ EvictDone(by)
    \/ \E k \in Conv : RejectWaiter(k)

\* The factory and the commands of getOrCreate answer, or time out.
FactoryEnds(x) == FactoryDone(x) \/ FactoryFail(x)
AttachEnds(x) ==
    AttachDone(x) \/ AttachFail(x) \/ \E ok \in BOOLEAN : CleanupDone(x, ok)

\* child.close() answers; it kills the process group after five seconds.
TeardownEnds(x) ==
    \/ CapacityEvicted(x) \/ DrainEvicted(x) \/ SweepEvicted(x) \/ EvictFailed(x)
    \/ RetireEvicted(x) \/ RetireFailed(x)
    \/ \E ok \in BOOLEAN : IdleEvicted(x, ok) \/ FinalClosed(x, ok)

ChildAnswers(x) == FactoryEnds(x) \/ AttachEnds(x) \/ TeardownEnds(x)

Next ==
    \/ Microtask
    \/ \E c \in Caller, k \in Conv : Acquire(c, k) \/ Reset(c, k)
    \/ \E c \in Caller : Release(c)
    \/ \E x \in Child : \/ ChildAnswers(x)
                        \/ IdleTimer(x) \/ ChildError(x) \/ ChildExit(x) \/ AckTimeout(x)
    \/ closeIdle \/ close \/ CloseEntries \/ CloseDone

Spec == Init /\ [][Next]_vars

\* The event loop runs its microtasks and delivers every pending completion
\* eventually (microtasks delay an event, they do not drop it: strong
\* fairness); turns end, so every lease is released; close() runs on.
Fairness ==
    /\ WF_vars(Microtask)
    /\ \A x \in Child : SF_vars(ChildAnswers(x))
    /\ \A c \in Caller : SF_vars(Release(c))
    /\ SF_vars(CloseEntries \/ CloseDone)

FairSpec == Spec /\ Fairness

-----------------------------------------------------------------------------
(***************************************************************************)
(* Properties                                                              *)
(***************************************************************************)

\* Type invariant of the pool's state.
TypeOK ==
    /\ entries \in Seq(Child)
    /\ conv \in [Child -> Conv \cup {None}]
    /\ live \subseteq Child /\ rpcClosed \subseteq Child
    /\ inUse \subseteq Child /\ retiring \subseteq Child /\ armed \subseteq Child
    /\ inflight \in [Conv -> Child \cup {None}]
    /\ stage \in [Child -> {"none", "factory", "attach", "attachNew", "cleanup"}]
    /\ joiners \in [Conv -> Seq(Caller)] /\ creators \in [Conv -> Seq(Caller)]
    /\ pendingCreations \in Int /\ closing \in Int
    /\ teardown \in [Child -> Counted \cup {"none", "final"}]
    /\ snap \in [Evictor -> [order : Seq(Child), left : SUBSET Child]]
    /\ waiters \in Seq(Caller)
    /\ call \in [Caller -> [pc : Pc, conv : Conv \cup {None}, child : Child \cup {None}]]
    /\ owner \in [Conv -> Child \cup {"noRow", "free", "stale"}]
    /\ phase \in {"open", "closing", "teardown", "closed"}
    /\ micro \in Seq(Task)

\* The pool never promises more slots than it has: live entries, reserved
\* creations and children still closing never exceed maxChildren, whatever
\* fails and however calls interleave (occupiedSlots, the cap of the pool).
CapacityBound == occupiedSlots <= MaxChildren

\* The two slot counters are exact: `pendingCreations' counts the creations in
\* flight, `closing' the children between leaving the Map and a settled close;
\* the Map has one entry per conversation.  A drift would leak or forge slots.
SlotLedger ==
    /\ pendingCreations = Cardinality({k \in Conv : inflight[k] # None})
    /\ closing = Cardinality({x \in Child : teardown[x] \in Counted})
    /\ \A i, j \in DOMAIN entries : conv[entries[i]] = conv[entries[j]] => i = j

\* The slot that acquire's eviction freed is still free when that acquire
\* creates its child: nothing runs between closing-- and createEntry.
SlotKept ==
    \A i \in DOMAIN micro : micro[i].op = "create" =>
        Len(micro) = 1 /\ occupiedSlots < MaxChildren

\* There are never more child processes than maxChildren ("preventing N+1 live
\* OS children"): no slot is given away before the process it stood for died.
LiveBounded == Cardinality(live) <= MaxChildren

\* "At most one live child exists per (adapterId, conversationKey) pair."
OneLiveChild ==
    \A x, y \in live : conv[x] = conv[y] /\ conv[x] # None => x = y

\* No child is leased twice, and an open pool takes a leased child away only
\* when it was retired or its process is dead: capacity and idle evictions
\* leave leases alone, whatever they saw before they awaited.
LeaseExclusive ==
    \A c \in Caller : call[c].pc = "holding" =>
        /\ \A d \in Caller : call[d].pc = "holding" /\ call[d].child = call[c].child => d = c
        /\ \/ call[c].child \in Pooled \cap inUse
           \/ call[c].child \in retiring \/ call[c].child \notin live
           \/ phase # "open"

\* Every pooled child owns its registry row: the late release of an older child
\* of the conversation, or a session reset, never takes the row from it.
EntryOwned == phase = "open" => \A x \in Pooled : owner[conv[x]] = x

\* No lost wakeup: between events, callers wait only while every slot is taken
\* and no idle child could be evicted for them, or while something is under way
\* that drains the queue at its end: an eviction of the drain or a closeIdle, or
\* a creation the drain started or joined.
WaitersBlocked ==
    Quiet /\ waiters # <<>> =>
        \/ Full /\ Idle = {}
        \/ \E x \in Child : teardown[x] \in {"drain", "sweep"}
        \/ \E c \in Caller : call[c].pc \in {"drainCreating", "drainJoining"}

\* Close-before-release: ownership goes back to NULL only from a child whose
\* process is dead by then.
CloseBeforeRelease ==
    [][\A k \in Conv : owner[k] # "free" /\ owner'[k] = "free" =>
         owner[k] \in Child /\ owner[k] \notin live']_vars

\* After close() nothing is left: no process, no owner this pool recorded, no
\* waiter, and no caller that still expects an answer.
ClosedQuiet ==
    phase = "closed" =>
        /\ live = {} /\ waiters = <<>>
        /\ \A k \in Conv : owner[k] \notin Child
        /\ \A c \in Caller : call[c].pc \in {"idle", "holding"}

\* Every acquire is answered with a lease or an error: nobody is stranded.
Served ==
    \A c \in Caller : call[c].pc \notin {"idle", "holding"}
                        ~> call[c].pc \in {"idle", "holding"}

\* close() ends: it waits for creations and evictions that all settle.
CloseEnds == phase = "closing" ~> phase = "closed"

\* Every call of the pool ends, whatever exits and whoever else calls.
CallsEnd == Served /\ CloseEnds
=============================================================================
