------------------------------ MODULE RpcChild ------------------------------
(***************************************************************************)
(* The omp processes of packages/core/src/rpc-child.ts and the registry of *)
(* process groups of packages/core/src/child-reaper.ts: start with its     *)
(* ready handshake and durable registration, commands with their           *)
(* acknowledgement timeout, close, exit, a crash of the core, and the      *)
(* orphan sweep that runs before the next core (orphan-sweep.ts).          *)
(*                                                                         *)
(* The registry is a file that is read, changed and renamed into place;    *)
(* withRegistryLock runs one such operation at a time, in the order they   *)
(* were asked for.  A process group is its leader.  Of the frames, ready   *)
(* and the responses are here, a response written as one line or in        *)
(* chunks, and dialog requests; the events are left to the Supervisor.     *)
(***************************************************************************)
EXTENDS Naturals, Sequences

CONSTANTS
    Child,       \* process groups (bound: how many are ever spawned)
    Key,         \* conversation keys
    None,        \* no entry, nothing loaded
    MaxCommands, \* bound: commands of one child that wait for their response
    Chunks,      \* how many lines a response that is too long for one is split in
    MaxCrashes   \* bound: crashes of the core

ASSUME ChunksAssumption == Chunks \in Nat /\ Chunks >= 2

ASSUME ChildAssumption ==
    /\ None \notin Child /\ None \notin Key
    /\ MaxCommands \in Nat \ {0} /\ MaxCrashes \in Nat

VARIABLES
    proc,      \* the process groups, as the operating system knows them
    obj,       \* the RpcChild objects
    wire,      \* the responses on their way from a child, and their reassembly
    file,      \* the registry file
    lock,      \* registryLocks: the operations in order
    loaded,    \* the registry as the first operation has read it
    phase,     \* "up", "down", or "swept": the sweep has killed, not yet written
    crashes,   \* bound: crashes left
    overlap,   \* whether a child may be started beside one of the same key
    kept       \* history: the children that start() returned without killing

vars == <<proc, obj, wire, file, lock, loaded, phase, crashes, overlap, kept>>

NoObject == [key |-> None, at |-> "none", ready |-> "pending", closed |-> FALSE,
             closing |-> "no", commands |-> 0, exited |-> FALSE, stale |-> FALSE]

(* ready is "broken" when an error event rejected the handshake; at is "abandoned"
   when start() then rejected; stale: its unregistration failed. *)
Object == [key : Key \cup {None},
           at : {"none", "registering", "unregistering", "waiting", "started", "failed",
                 "abandoned"},
           ready : {"pending", "ready", "rejected", "broken"},
           closed : BOOLEAN, closing : {"no", "waiting", "done"},
           commands : 0..MaxCommands, exited : BOOLEAN, stale : BOOLEAN]

(* owed: responses the child has not written; sent: chunks written of the one it
   is writing, and whether any of them was torn; part: chunks assembled of it;
   version: the protocol that is negotiated, 0 when the child refused it. *)
NoWire == [owed |-> 0, sent |-> 0, torn |-> FALSE, part |-> 0, version |-> 1]

Wire == [owed : 0..MaxCommands, sent : 0..(Chunks - 1), torn : BOOLEAN,
         part : 0..(Chunks - 1), version : 0..2]

Registry == [Key -> Child \cup {None}]

Operations == [op : {"register", "unregister"}, child : Child, key : Key]

TypeOK ==
    /\ proc \in [Child -> {"none", "live", "killed", "dead"}]
    /\ obj \in [Child -> Object]
    /\ wire \in [Child -> Wire]
    /\ file \in Registry
    /\ lock \in Seq(Operations)
    /\ loaded \in Registry \cup {None}
    /\ phase \in {"up", "down", "swept"}
    /\ crashes \in 0..MaxCrashes
    /\ overlap \in BOOLEAN
    /\ kept \subseteq Child

Init ==
    /\ proc = [k \in Child |-> "none"]
    /\ obj = [k \in Child |-> NoObject]
    /\ wire = [k \in Child |-> NoWire]
    /\ file = [key \in Key |-> None]
    /\ lock = <<>> /\ loaded = None
    /\ phase = "up" /\ crashes = MaxCrashes
    /\ overlap \in BOOLEAN
    /\ kept = {}

env == <<phase, crashes, overlap>>

Operation(name, k, key) == [op |-> name, child |-> k, key |-> key]

(* killProcessGroup: a group that lives is going to die; one that is gone stays so. *)
KillProcessGroup(state) == IF state = "live" THEN "killed" ELSE state

(* hardKillPg: nothing more is read from the group. *)
HardKill(k) == [proc EXCEPT ![k] = KillProcessGroup(@)]

Settling == {"registering", "unregistering", "waiting"}

-----------------------------------------------------------------------------
(* start *)

(* spawn, listeners, and the registration is asked for.  A careful caller waits
   for the last child of the conversation to be gone. *)
Start(k, key) ==
    /\ phase = "up" /\ proc[k] = "none" /\ obj[k] = NoObject
    /\ \A j \in Child : obj[j].key = key =>
          /\ obj[j].at \notin Settling
          /\ overlap \/ proc[j] \notin {"live", "killed"}
    /\ proc' = [proc EXCEPT ![k] = "live"]
    /\ obj' = [obj EXCEPT ![k] = [NoObject EXCEPT !.key = key, !.at = "registering"]]
    /\ lock' = Append(lock, Operation("register", k, key))
    /\ UNCHANGED <<wire, file, loaded, env, kept>>

(* The binary cannot be spawned: there is no group to register, and the error
   rejects the handshake. *)
SpawnFails(k, key) ==
    /\ phase = "up" /\ proc[k] = "none" /\ obj[k] = NoObject
    /\ \A j \in Child : obj[j].key = key =>
          /\ obj[j].at \notin Settling
          /\ overlap \/ proc[j] \notin {"live", "killed"}
    /\ proc' = [proc EXCEPT ![k] = "dead"]
    /\ obj' = [obj EXCEPT ![k] = [NoObject EXCEPT !.key = key, !.at = "failed",
                                                  !.ready = "rejected"]]
    /\ UNCHANGED <<wire, file, lock, loaded, env, kept>>

(* The ready frame arrives. *)
Ready(k) ==
    /\ phase = "up" /\ proc[k] = "live" /\ obj[k].at \in Settling
    /\ obj[k].ready = "pending"
    /\ obj' = [obj EXCEPT ![k].ready = "ready"]
    /\ UNCHANGED <<proc, wire, file, lock, loaded, env, kept>>

ReadyTimeout(k) ==
    /\ phase = "up" /\ obj[k].at \in Settling /\ obj[k].ready = "pending"
    /\ obj' = [obj EXCEPT ![k].ready = "rejected"]
    /\ proc' = HardKill(k)
    /\ UNCHANGED <<wire, file, lock, loaded, env, kept>>

(* An error event before the ready frame, as for a chunk before the negotiation:
   the handshake is rejected and its timer cleared, and nobody kills the child. *)
HandshakeError(k) ==
    /\ phase = "up" /\ proc[k] = "live" /\ obj[k].at \in Settling
    /\ obj[k].ready = "pending"
    /\ obj' = [obj EXCEPT ![k].ready = "broken"]
    /\ UNCHANGED <<proc, wire, file, lock, loaded, env, kept>>

(* start() returns the settled handshake. *)
StartReturns(k) ==
    /\ phase = "up" /\ obj[k].at = "waiting" /\ obj[k].ready # "pending"
    /\ obj' = [obj EXCEPT ![k].at = CASE obj[k].ready = "ready"    -> "started"
                                      [] obj[k].ready = "rejected" -> "failed"
                                      [] obj[k].ready = "broken"   -> "abandoned"]
    /\ kept' = IF obj[k].ready = "rejected" THEN kept ELSE kept \cup {k}
    /\ UNCHANGED <<proc, wire, file, lock, loaded, env>>

-----------------------------------------------------------------------------
(* The registry *)

First == Head(lock)

(* withRegistryLock: the next operation reads the file. *)
LockRead ==
    /\ phase = "up" /\ lock # <<>> /\ loaded = None
    /\ loaded' = file
    /\ UNCHANGED <<proc, obj, wire, file, lock, env, kept>>

(* What follows a registration: the unregistration if the child has exited
   meanwhile, else the wait for the handshake. *)
Continue(k) ==
    /\ obj' = [obj EXCEPT ![k].at = IF obj[k].exited THEN "unregistering" ELSE "waiting"]
    /\ lock' = Tail(lock) \o (IF obj[k].exited
                              THEN <<Operation("unregister", k, obj[k].key)>> ELSE <<>>)

(* Mutant: a registration overwrites what it finds. *)
Register_Overwrites ==
    /\ phase = "up" /\ loaded # None /\ First.op = "register"
    /\ file' = [loaded EXCEPT ![First.key] = First.child]
    /\ loaded' = None
    /\ Continue(First.child)
    /\ UNCHANGED <<proc, wire, env, kept>>

(* registerChild: written, unless the key has the entry of another group. *)
Register ==
    /\ phase = "up" /\ loaded # None /\ First.op = "register"
    /\ loaded[First.key] \in {None, First.child}
    /\ file' = [loaded EXCEPT ![First.key] = First.child]
    /\ loaded' = None
    /\ Continue(First.child)
    /\ UNCHANGED <<proc, wire, env, kept>>

(* The registration is refused, or the file cannot be written: the new group is
   killed and start() rejects. *)
RegisterFails ==
    /\ phase = "up" /\ loaded # None /\ First.op = "register"
    /\ proc' = HardKill(First.child)
    /\ obj' = [obj EXCEPT ![First.child].at = "failed"]
    /\ lock' = Tail(lock) /\ loaded' = None
    /\ UNCHANGED <<wire, file, env, kept>>

(* unregisterChild, by key, and the end of a start() that waits for it. *)
Unregister ==
    /\ phase = "up" /\ loaded # None /\ First.op = "unregister"
    /\ file' = [loaded EXCEPT ![First.key] = None]
    /\ lock' = Tail(lock) /\ loaded' = None
    /\ obj' = [obj EXCEPT ![First.child].at = IF @ = "unregistering" THEN "waiting" ELSE @]
    /\ UNCHANGED <<proc, wire, env, kept>>

(* The file cannot be read or written: unregisterPgid swallows the failure. *)
UnregisterFails ==
    /\ phase = "up" /\ loaded # None /\ First.op = "unregister"
    /\ lock' = Tail(lock) /\ loaded' = None
    /\ obj' = [obj EXCEPT ![First.child].at = IF @ = "unregistering" THEN "waiting" ELSE @,
                          ![First.child].stale = TRUE]
    /\ UNCHANGED <<proc, wire, file, env, kept>>

-----------------------------------------------------------------------------
(* Commands, close and exit *)

(* The first command is negotiate_protocol: no other is sent before its response,
   and none at all when that is a refusal. *)
Send(k) ==
    /\ phase = "up" /\ obj[k].at = "started" /\ ~obj[k].closed
    /\ obj[k].commands < CASE wire[k].version = 0 -> 0 [] wire[k].version = 1 -> 1
                           [] OTHER -> MaxCommands
    /\ obj' = [obj EXCEPT ![k].commands = @ + 1]
    /\ wire' = [wire EXCEPT ![k].owed = @ + 1]
    /\ UNCHANGED <<proc, file, lock, loaded, env, kept>>

(* processFrame: a response settles the command that waits for it; any other is
   an orphan, and ignored. *)
ProcessResponse(k) ==
    obj' = [obj EXCEPT ![k].commands = IF @ > 0 THEN @ - 1 ELSE @]

(* A response on one line, of a command done or failed, or a malformed line, which
   is skipped (processLine). *)
Response(k, as) ==
    /\ phase = "up" /\ proc[k] = "live" /\ wire[k].owed > 0 /\ wire[k].sent = 0
    /\ wire' = [wire EXCEPT ![k].owed = @ - 1,
                            ![k].version = CASE @ = 1 /\ as = "success" -> 2
                                             [] @ = 1 /\ as = "failure" -> 0
                                             [] OTHER -> @]
    /\ IF as # "nothing" THEN ProcessResponse(k) ELSE UNCHANGED obj
    /\ UNCHANGED <<proc, file, lock, loaded, env, kept>>

(* Mutant: a chunk's own index is believed. *)
Assembled_TrustsIndex(k, index, valid) == IF valid THEN index + 1 ELSE 0

(* processChunk: the chunk that is due is kept, an unexpected or an invalid one
   drops the frame.  The first chunk of a frame comes with a fresh chunkId. *)
Assembled(k, index, valid) ==
    LET part == IF index = 0 THEN 0 ELSE wire[k].part
    IN  IF valid /\ part = index THEN part + 1 ELSE 0

(* One chunk of a response arrives: as it was written, with metadata right and
   data invalid, or as a line that says nothing (unparsable, bad metadata). *)
Chunk(k, as) ==
    LET index == wire[k].sent
        part  == IF as # "nothing" THEN Assembled(k, index, as = "written")
                 ELSE IF index = 0 THEN 0 ELSE wire[k].part
        last  == index + 1 = Chunks
    IN  /\ phase = "up" /\ proc[k] = "live" /\ wire[k].owed > 0 /\ wire[k].version = 2
        /\ wire' = [wire EXCEPT
              ![k].sent = IF last THEN 0 ELSE index + 1,
              ![k].owed = IF last THEN @ - 1 ELSE @,
              ![k].torn = ~last /\ (@ \/ as # "written"),
              ![k].part = IF part = Chunks THEN 0 ELSE part]
        /\ IF part = Chunks THEN ProcessResponse(k) ELSE UNCHANGED obj
        /\ UNCHANGED <<proc, file, lock, loaded, env, kept>>

(* Mutant: commands that wait are left alone. *)
Shut_KeepsCommands(k) ==
    [obj[k] EXCEPT !.closed = TRUE, !.closing = IF obj[k].exited THEN "done" ELSE "waiting"]

(* What close() does at once: reject what waits, and wait for the exit. *)
Shut(k) ==
    [obj[k] EXCEPT !.closed = TRUE, !.commands = 0,
                   !.closing = IF obj[k].exited THEN "done" ELSE "waiting"]

Close(k) ==
    /\ phase = "up" /\ obj[k].at \in {"started", "failed", "abandoned"} /\ ~obj[k].closed
    /\ obj' = [obj EXCEPT ![k] = Shut(k)]
    /\ UNCHANGED <<proc, wire, file, lock, loaded, env, kept>>

(* Mutant: the first chunk of a response clears the timer. *)
AckTimeout_ClearedByChunk(k) ==
    /\ phase = "up" /\ obj[k].commands > 0 /\ wire[k].owed > 0 /\ wire[k].sent = 0
    /\ obj' = [obj EXCEPT ![k] = Shut(k)]
    /\ UNCHANGED <<proc, wire, file, lock, loaded, env, kept>>

(* A command is not acknowledged in time: it is rejected and the child closed. *)
AckTimeout(k) ==
    /\ phase = "up" /\ obj[k].commands > 0
    /\ obj' = [obj EXCEPT ![k] = Shut(k)]
    /\ UNCHANGED <<proc, wire, file, lock, loaded, env, kept>>

(* Mutant: close() gives up instead of killing the group. *)
CloseTimeout_GivesUp(k) ==
    /\ phase = "up" /\ obj[k].closing = "waiting"
    /\ obj' = [obj EXCEPT ![k].closing = "done"]
    /\ UNCHANGED <<proc, wire, file, lock, loaded, env, kept>>

(* The child did not exit within the grace period. *)
CloseTimeout(k) ==
    /\ phase = "up" /\ obj[k].closing = "waiting"
    /\ obj' = [obj EXCEPT ![k].closing = "done"]
    /\ proc' = HardKill(k)
    /\ UNCHANGED <<wire, file, lock, loaded, env, kept>>

(* Mutant: an exit during the registration is not remembered. *)
Exit_ForgetsRegistration(k) ==
    /\ phase = "up" /\ proc[k] \in {"live", "killed"} /\ obj[k] # NoObject
    /\ proc' = [proc EXCEPT ![k] = "dead"]
    /\ obj' = [obj EXCEPT ![k].closed = TRUE, ![k].commands = 0,
                          ![k].ready = IF @ = "pending" THEN "rejected" ELSE @,
                          ![k].closing = IF @ = "waiting" THEN "done" ELSE @]
    /\ lock' = IF obj[k].at = "registering" THEN lock
               ELSE Append(lock, Operation("unregister", k, obj[k].key))
    /\ UNCHANGED <<wire, file, loaded, env, kept>>

(* The exit event: the handshake is rejected, the group unregistered (after its
   registration, if that is under way), the commands rejected, close() ends. *)
Exit(k) ==
    /\ phase = "up" /\ proc[k] \in {"live", "killed"} /\ obj[k] # NoObject
    /\ proc' = [proc EXCEPT ![k] = "dead"]
    /\ obj' = [obj EXCEPT ![k].closed = TRUE, ![k].commands = 0, ![k].exited = TRUE,
                          ![k].ready = IF @ = "pending" THEN "rejected" ELSE @,
                          ![k].closing = IF @ = "waiting" THEN "done" ELSE @]
    /\ lock' = IF obj[k].at = "registering" THEN lock
               ELSE Append(lock, Operation("unregister", k, obj[k].key))
    /\ UNCHANGED <<wire, file, loaded, env, kept>>

-----------------------------------------------------------------------------
(* Crash and sweep *)

(* The core dies; detached groups live on. *)
Crash ==
    /\ phase = "up" /\ crashes > 0
    /\ phase' = "down" /\ crashes' = crashes - 1
    /\ obj' = [k \in Child |-> NoObject]
    /\ wire' = [k \in Child |-> NoWire]
    /\ lock' = <<>> /\ loaded' = None
    /\ UNCHANGED <<proc, file, overlap, kept>>

(* handleExtensionUiRequest: a dialog request of an open child is cancelled on the
   spot and leaves no state; the cancellation cannot be written to a child that is
   closing, and nothing catches what writeRaw then throws. *)
DialogWhileClosing(k) ==
    /\ proc[k] = "live" /\ obj[k].closing = "waiting"
    /\ Crash

(* A group nobody watches ends. *)
Dies(k) ==
    /\ proc[k] \in {"live", "killed"} /\ obj[k] = NoObject
    /\ proc' = [proc EXCEPT ![k] = "dead"]
    /\ UNCHANGED <<obj, wire, file, lock, loaded, env, kept>>

(* sweepChildRegistry: the groups of the file that are alive are killed ... *)
SweepKill ==
    /\ phase = "down"
    /\ phase' = "swept"
    /\ proc' = [k \in Child |-> IF \E key \in Key : file[key] = k
                                THEN KillProcessGroup(proc[k]) ELSE proc[k]]
    /\ UNCHANGED <<obj, wire, file, lock, loaded, crashes, overlap, kept>>

(* ... and their entries removed. *)
SweepWrite ==
    /\ phase = "swept"
    /\ file' = [key \in Key |-> None]
    /\ phase' = "up"
    /\ UNCHANGED <<proc, obj, wire, lock, loaded, crashes, overlap, kept>>

(* Groups the sweep may not signal keep their entries, and the core is not started. *)
SweepDenied(keys) ==
    /\ phase = "down" /\ keys # {}
    /\ \A key \in keys : file[key] # None /\ proc[file[key]] = "live"
    /\ file' = [key \in Key |-> IF key \in keys THEN file[key] ELSE None]
    /\ proc' = [k \in Child |->
          IF \E key \in Key \ keys : file[key] = k
          THEN KillProcessGroup(proc[k]) ELSE proc[k]]
    /\ UNCHANGED <<obj, wire, lock, loaded, env, kept>>

-----------------------------------------------------------------------------
Serialize == LockRead \/ Register \/ RegisterFails \/ Unregister \/ UnregisterFails

Next ==
    \/ \E k \in Child, key \in Key : Start(k, key) \/ SpawnFails(k, key)
    \/ \E k \in Child :
        \/ Ready(k) \/ ReadyTimeout(k) \/ HandshakeError(k) \/ StartReturns(k)
        \/ Send(k) \/ AckTimeout(k)
        \/ \E as \in {"success", "failure", "nothing"} : Response(k, as)
        \/ \E as \in {"written", "invalid", "nothing"} : Chunk(k, as)
        \/ DialogWhileClosing(k)
        \/ Close(k) \/ CloseTimeout(k) \/ Exit(k) \/ Dies(k)
    \/ Serialize
    \/ Crash \/ SweepKill \/ SweepWrite
    \/ \E keys \in SUBSET Key : SweepDenied(keys)

Spec == Init /\ [][Next]_vars

(* File operations and timers of the core complete, a killed group ends, and a
   core that died is started again, behind its sweep. *)
FairSpec ==
    /\ Spec
    /\ WF_vars(Serialize) /\ WF_vars(SweepKill) /\ WF_vars(SweepWrite)
    /\ \A k \in Child :
        /\ WF_vars(StartReturns(k)) /\ WF_vars(ReadyTimeout(k))
        /\ WF_vars(CloseTimeout(k)) /\ WF_vars(AckTimeout(k))
        /\ WF_vars(proc[k] = "killed" /\ (Exit(k) \/ Dies(k)))

-----------------------------------------------------------------------------
(* Properties *)

(* withRegistryLock loses no update: an operation changes the entry of its own key
   only, and an entry is never replaced by another one, even when children of one
   conversation overlap. *)
EntriesKept ==
    [][phase = "up" => \A key \in Key : file'[key] # file[key] =>
          lock # <<>> /\ First.key = key /\ None \in {file[key], file'[key]}]_vars

(* Nothing waits for a child that is gone: a closed or exited child has no command
   left that could only time out. *)
CommandsSettled == \A k \in Child : obj[k].closed => obj[k].commands = 0

(* The state has its types, and a late response finds nothing to settle. *)
Consistent == TypeOK /\ CommandsSettled

(* What is assembled of a response is exactly what the child wrote of it so far:
   after a line that was lost or invalid nothing of the frame is ever completed. *)
FramesWhole ==
    \A k \in Child : wire[k].sent > 0 /\ wire[k].part > 0 =>
        /\ wire[k].part <= wire[k].sent
        /\ wire[k].part = wire[k].sent <=> ~wire[k].torn

(* Every process group that start() did not kill, whether it resolved or not, is in
   the registry as long as it lives, through failed starts, exits and registrations
   of other conversations, crashes and sweeps: nothing else would ever kill it after
   a crash.  It takes a caller that does not start a child beside a living one of
   the conversation. *)
Accounted ==
    ~overlap => \A k \in kept : proc[k] = "live" => \E key \in Key : file[key] = k

(* When the registry is at rest, no entry names a dead group, but one whose
   unregistration failed in this process: such an entry blocks its conversation, as
   registerChild refuses to replace it, until, as unregisterPgid says, the next
   startup sweep clears it. *)
NoStaleEntry ==
    phase = "up" /\ lock = <<>> =>
        \A key \in Key : file[key] # None =>
            proc[file[key]] # "dead" \/ obj[file[key]].stale

(* The registry says which groups live, as far as anyone relies on it. *)
Registered == Accounted /\ NoStaleEntry

(* start() settles, whatever the child does. *)
StartSettles ==
    \A k \in Child : (obj[k].at \in Settling) ~> (obj[k].at \notin Settling)

(* A command ends although the response it waits for was torn or never written:
   its acknowledgement timeout is the only one left to end it. *)
CommandsEnd ==
    \A k \in Child : (obj[k].commands > 0) ~> (obj[k].commands = 0)

(* Nobody waits forever for a child, to start or to answer. *)
CallsSettle == StartSettles /\ CommandsEnd

(* A child that was closed, or whose start() failed because of its registration, its
   exit or the ready timeout, does not stay alive.  One whose handshake an error
   event broke does: start() rejects, and its caller has no child to close. *)
ClosedDies ==
    \A k \in Child :
        (obj[k].at = "failed" \/ obj[k].closed)
            ~> (proc[k] = "dead" \/ obj[k] = NoObject)
=============================================================================
