--------------------------- MODULE RpcChildProofs ---------------------------
(***************************************************************************)
(* Proofs about RpcChild, for every set of process groups and keys, every  *)
(* number of commands, chunks and crashes, with careful and careless       *)
(* callers: type correctness and settled commands, whole frames, the lock  *)
(* of the registry, and what the registry says about the groups that live. *)
(***************************************************************************)
EXTENDS RpcChild, TLAPS, SequenceTheorems

-----------------------------------------------------------------------------
(***************************************************************************)
(* The inductive invariant.                                                *)
(***************************************************************************)

\* An open child owes no more responses than commands wait for: a closed one
\* is sent nothing more.
OwedBounded == \A k \in Child : ~obj[k].closed => wire[k].owed <= obj[k].commands

\* FramesWhole without its hypothesis on part, and a torn mark that ends with
\* its response.
FramesExact ==
    \A k \in Child :
        /\ wire[k].sent = 0 => ~wire[k].torn
        /\ wire[k].sent > 0 => /\ wire[k].part <= wire[k].sent
                               /\ wire[k].part = wire[k].sent <=> ~wire[k].torn

\* The state inside the critical section of withRegistryLock is the file's.
LockHeld == loaded # None => phase = "up" /\ loaded = file /\ lock # <<>>

\* A core that is down has no objects and no operations.
DownEmpty == phase # "up" => lock = <<>> /\ \A k \in Child : obj[k] = NoObject

\* An object belongs to a process that was spawned.
ObjectsSpawned ==
    \A k \in Child :
        IF obj[k].at = "none" THEN obj[k] = NoObject
        ELSE /\ obj[k].key \in Key /\ proc[k] # "none"
             /\ obj[k].exited => proc[k] = "dead"
             /\ proc[k] = "dead" /\ obj[k].at # "failed" => obj[k].exited

\* An operation is queued for an object under its own key; it is the only
\* registration of a child that is registering, or unregisters one that has
\* exited and is not registering any more.
QueueOwned ==
    /\ \A i \in DOMAIN lock :
        LET x == obj[lock[i].child]
        IN  /\ x.at # "none" /\ x.key = lock[i].key
            /\ lock[i].op = "register" => x.at = "registering"
            /\ lock[i].op = "unregister" => x.at # "registering" /\ x.exited
    /\ \A k \in Child : obj[k].at = "registering" =>
        \E i \in DOMAIN lock : lock[i] = Operation("register", k, obj[k].key)
    /\ \A i, j \in DOMAIN lock :
        lock[i].op = "register" /\ lock[i] = lock[j] => i = j

\* An entry of a core that is up is one of its objects', which has registered;
\* when its group is dead, its unregistration is queued or has failed.
EntriesOwned ==
    phase = "up" => \A key \in Key : file[key] # None =>
        LET k == file[key]
        IN  /\ obj[k].key = key /\ obj[k].at \notin {"none", "registering"}
            /\ proc[k] = "dead" =>
                 \/ obj[k].stale
                 \/ \E i \in DOMAIN lock : lock[i] = Operation("unregister", k, key)

\* A child that is still being started, or whose group has not ended.
Current(k) == /\ obj[k].at # "none"
              /\ obj[k].at \in Settling \/ proc[k] \in {"live", "killed"}

\* A careful caller has one current child of a conversation, ...
OneCurrent ==
    \A j, k \in Child :
        Current(j) /\ Current(k) /\ obj[j].key = obj[k].key => j = k

\* ... what unregisters an earlier one is ahead of its registration, ...
EarlierFirst ==
    \A j \in Child, i \in DOMAIN lock :
        /\ Current(j) /\ lock[i].op = "unregister"
        /\ lock[i].child # j /\ lock[i].key = obj[j].key
        => \E n \in DOMAIN lock : n > i /\ lock[n] = Operation("register", j, obj[j].key)

\* ... and it stays in the file from its registration to its end.
RegisteredStays ==
    \A k \in Child :
        obj[k].at \in {"unregistering", "waiting", "started", "abandoned"} /\ proc[k] # "dead"
        => file[obj[k].key] = k

\* A group that start() did not kill belongs to the core that is up, or is in the
\* file for the sweep, which leaves none of them alive.
KeptOwned ==
    \A k \in kept :
        /\ proc[k] # "none"
        /\ proc[k] = "live" => \/ phase = "up" /\ obj[k].at \in {"started", "abandoned"}
                               \/ phase = "down" /\ \E key \in Key : file[key] = k

CarefulCaller == OneCurrent /\ EarlierFirst /\ RegisteredStays /\ KeptOwned

WireInv == TypeOK /\ CommandsSettled /\ OwedBounded /\ FramesExact

RegistryInv == LockHeld /\ DownEmpty /\ ObjectsSpawned /\ QueueOwned /\ EntriesOwned

Inv == WireInv /\ RegistryInv /\ (~overlap => CarefulCaller)

-----------------------------------------------------------------------------
(***************************************************************************)
(* Types, commands and frames: one child at a time.                        *)
(***************************************************************************)

USE DEF env

\* WireInv of one child, with object o and wire w.
Sound(o, w) ==
    /\ o \in Object /\ w \in Wire
    /\ o.closed => o.commands = 0
    /\ ~o.closed => w.owed <= o.commands
    /\ w.sent = 0 => ~w.torn
    /\ w.sent > 0 => w.part <= w.sent /\ (w.part = w.sent <=> ~w.torn)

\* The types of what is not kept per child.
RestTyped ==
    /\ proc \in [Child -> {"none", "live", "killed", "dead"}]
    /\ file \in Registry
    /\ lock \in Seq(Operations)
    /\ loaded \in Registry \cup {None}
    /\ phase \in {"up", "down", "swept"}
    /\ crashes \in 0..MaxCrashes
    /\ overlap \in BOOLEAN
    /\ kept \subseteq Child

\* WireInv says that every child is sound.
LEMMA SoundEverywhere ==
    WireInv <=> /\ RestTyped
                /\ obj \in [Child -> Object] /\ wire \in [Child -> Wire]
                /\ \A k \in Child : Sound(obj[k], wire[k])
  <1>1. ASSUME WireInv, NEW k \in Child PROVE Sound(obj[k], wire[k])
    BY <1>1 DEF WireInv, TypeOK, CommandsSettled, OwedBounded, FramesExact, Sound
  <1>2. ASSUME \A k \in Child : Sound(obj[k], wire[k])
        PROVE  CommandsSettled /\ OwedBounded /\ FramesExact
    BY <1>2 DEF CommandsSettled, OwedBounded, FramesExact, Sound
  <1> QED BY <1>1, <1>2 DEF WireInv, TypeOK, RestTyped

\* A step that gives one child a sound object and a sound wire keeps WireInv.
LEMMA SoundUpdate ==
    ASSUME WireInv, NEW k \in Child, NEW o, NEW w, Sound(o, w),
           obj' = [obj EXCEPT ![k] = o], wire' = [wire EXCEPT ![k] = w],
           RestTyped'
    PROVE  WireInv'
  <1>1. /\ obj \in [Child -> Object] /\ wire \in [Child -> Wire]
        /\ \A j \in Child : Sound(obj[j], wire[j])
    BY SoundEverywhere
  <1>2. o \in Object /\ w \in Wire
    BY DEF Sound
  <1>3. obj' \in [Child -> Object] /\ wire' \in [Child -> Wire]
    BY <1>1, <1>2
  <1>4. ASSUME NEW j \in Child PROVE Sound(obj'[j], wire'[j])
    <2>1. CASE j = k
      BY <1>1, <2>1
    <2>2. CASE j # k
      BY <1>1, <2>2
    <2> QED BY <2>1, <2>2
  <1>5. CommandsSettled' /\ OwedBounded' /\ FramesExact'
    BY <1>4 DEF CommandsSettled, OwedBounded, FramesExact, Sound
  <1> QED BY <1>3, <1>5 DEF WireInv, TypeOK, RestTyped

\* A response settles at most one command, and only of a child that has one.
LEMMA ProcessResponseDoes ==
    ASSUME TypeOK, NEW k \in Child, ProcessResponse(k) \/ UNCHANGED obj
    PROVE  \E n \in 0..MaxCommands :
              /\ obj' = [obj EXCEPT ![k] = [obj[k] EXCEPT !.commands = n]]
              /\ n = obj[k].commands \/ n + 1 = obj[k].commands
  <1>1. obj \in [Child -> Object] /\ obj[k] \in Object
    BY DEF TypeOK
  <1> DEFINE c == obj[k].commands
  <1>2. c \in 0..MaxCommands
    BY <1>1 DEF Object
  <1>3. CASE UNCHANGED obj
    <2>1. obj[k] = [obj[k] EXCEPT !.commands = c]
      BY <1>1 DEF Object
    <2>2. obj' = [obj EXCEPT ![k] = [obj[k] EXCEPT !.commands = c]]
      BY <1>1, <1>3, <2>1
    <2> QED BY <1>2, <2>2
  <1>4. CASE ProcessResponse(k)
    <2> DEFINE n == IF c > 0 THEN c - 1 ELSE c
    <2>1. n \in 0..MaxCommands /\ (n = c \/ n + 1 = c)
      BY <1>2, ChildAssumption
    <2>2. obj' = [obj EXCEPT ![k] = [obj[k] EXCEPT !.commands = n]]
      BY <1>1, <1>4 DEF ProcessResponse
    <2> QED BY <2>1, <2>2
  <1> QED BY <1>3, <1>4

\* A response on one line keeps the child sound.
LEMMA ResponseWire ==
    ASSUME WireInv, NEW k \in Child, NEW as, Response(k, as)
    PROVE  WireInv'
  <1>1. PICK n \in 0..MaxCommands :
              /\ obj' = [obj EXCEPT ![k] = [obj[k] EXCEPT !.commands = n]]
              /\ n = obj[k].commands \/ n + 1 = obj[k].commands
    BY ProcessResponseDoes DEF Response, WireInv
  <1>2. PICK v \in 0..2 : wire' = [wire EXCEPT ![k] =
             [wire[k] EXCEPT !.owed = wire[k].owed - 1, !.version = v]]
    <2> DEFINE v == CASE wire[k].version = 1 /\ as = "success" -> 2
                      [] wire[k].version = 1 /\ as = "failure" -> 0
                      [] OTHER -> wire[k].version
    <2>1. v \in 0..2
      <3>1. wire[k].version \in 0..2
        BY DEF WireInv, TypeOK, Wire
      <3>2. v \in {0, 2, wire[k].version}
        OBVIOUS
      <3> HIDE DEF v
      <3> QED BY <3>1, <3>2
    <2>2. wire' = [wire EXCEPT ![k] = [wire[k] EXCEPT !.owed = wire[k].owed - 1, !.version = v]]
      BY DEF Response, WireInv, TypeOK, Wire
    <2> QED BY <2>1, <2>2
  <1> DEFINE o == [obj[k] EXCEPT !.commands = n]
             w == [wire[k] EXCEPT !.owed = wire[k].owed - 1, !.version = v]
  <1>3. Sound(obj[k], wire[k])
    BY SoundEverywhere
  <1>4. wire[k].owed > 0 /\ wire[k].sent = 0
    BY DEF Response
  <1>5. o \in Object /\ w \in Wire
    <2>1. wire[k].owed - 1 \in 0..MaxCommands
      BY <1>3, <1>4, ChildAssumption DEF Sound, Wire
    <2> QED BY <1>3, <2>1 DEF Sound, Object, Wire
  <1>6. Sound(o, w)
    <2>1. /\ o.closed = obj[k].closed /\ o.commands = n
          /\ w.owed = wire[k].owed - 1 /\ w.sent = 0 /\ w.torn = wire[k].torn
      BY <1>3, <1>4 DEF Sound, Object, Wire
    <2>2. wire[k].owed \in 0..MaxCommands /\ obj[k].commands \in 0..MaxCommands
      BY <1>3 DEF Sound, Object, Wire
    <2> HIDE DEF o, w
    <2> QED BY <1>1, <1>3, <1>4, <1>5, <2>1, <2>2, ChildAssumption DEF Sound
  <1>7. RestTyped'
    BY DEF Response, WireInv, TypeOK, RestTyped
  <1> HIDE DEF o, w
  <1> QED BY <1>1, <1>2, <1>6, <1>7, SoundUpdate DEF o, w

\* One chunk of a response keeps the child sound: what is assembled stays
\* exactly what was written, or less than it once the frame is torn.
LEMMA ChunkWire ==
    ASSUME WireInv, NEW k \in Child, NEW as \in {"written", "invalid", "nothing"}, Chunk(k, as)
    PROVE  WireInv'
  <1> DEFINE index == wire[k].sent
             last  == index + 1 = Chunks
             part  == IF as # "nothing" THEN Assembled(k, index, as = "written")
                      ELSE IF index = 0 THEN 0 ELSE wire[k].part
             sent  == IF last THEN 0 ELSE index + 1
             owed  == IF last THEN wire[k].owed - 1 ELSE wire[k].owed
             torn  == ~last /\ (wire[k].torn \/ as # "written")
             over  == IF part = Chunks THEN 0 ELSE part
             w == [wire[k] EXCEPT !.sent = sent, !.owed = owed, !.torn = torn, !.part = over]
  <1>1. Sound(obj[k], wire[k]) /\ wire \in [Child -> Wire] /\ TypeOK
    BY SoundEverywhere DEF WireInv
  <1>2. /\ wire[k].sent \in 0..(Chunks - 1) /\ wire[k].part \in 0..(Chunks - 1)
        /\ wire[k].owed \in 0..MaxCommands /\ wire[k].torn \in BOOLEAN
        /\ wire[k].owed > 0
        /\ obj[k].commands \in 0..MaxCommands
    BY <1>1 DEF Chunk, Sound, Wire, Object
  <1>3. wire' = [wire EXCEPT ![k] = w]
    BY <1>1 DEF Chunk, Wire
  <1>4. ProcessResponse(k) \/ UNCHANGED obj
    BY DEF Chunk
  <1>5. part # Chunks => UNCHANGED obj
    BY DEF Chunk
  <1>6. /\ part \in 0..Chunks
        /\ part = Chunks => last
        /\ ~last => part <= sent /\ (part = sent <=> ~torn)
    <2>1. /\ index = 0 => ~wire[k].torn
          /\ index > 0 => wire[k].part <= index /\ (wire[k].part = index <=> ~wire[k].torn)
      BY <1>1 DEF Sound
    <2>2. CASE as = "written"
      <3>1. part = IF index = 0 \/ wire[k].part = index THEN index + 1 ELSE 0
        BY <1>2, <2>2 DEF Assembled
      <3>2. torn <=> ~last /\ wire[k].torn
        BY <2>2
      <3> HIDE DEF part, torn
      <3> QED BY <1>2, <2>1, <3>1, <3>2, ChunksAssumption
    <2>3. CASE as = "invalid"
      <3>1. part = 0 /\ (torn <=> ~last)
        BY <2>3 DEF Assembled
      <3> HIDE DEF part, torn
      <3> QED BY <1>2, <3>1, ChunksAssumption
    <2>4. CASE as = "nothing"
      <3>1. part = (IF index = 0 THEN 0 ELSE wire[k].part) /\ (torn <=> ~last)
        BY <2>4
      <3> HIDE DEF part, torn
      <3> QED BY <1>2, <2>1, <3>1, ChunksAssumption
    <2> QED BY <2>2, <2>3, <2>4
  <1>7. /\ sent \in 0..(Chunks - 1) /\ over \in 0..(Chunks - 1)
        /\ owed \in 0..MaxCommands /\ torn \in BOOLEAN
        /\ sent = 0 => ~torn
        /\ sent > 0 => over <= sent /\ (over = sent <=> ~torn)
        /\ owed <= wire[k].owed /\ (part = Chunks => owed + 1 = wire[k].owed)
    <2>1. torn \in BOOLEAN /\ (last => ~torn)
      BY Zenon
    <2>2. sent = 0 => last
      BY <1>2
    <2> HIDE DEF part, torn
    <2> QED BY <1>2, <1>6, <2>1, <2>2, ChunksAssumption, ChildAssumption
  <1>8. PICK n \in 0..MaxCommands :
              /\ obj' = [obj EXCEPT ![k] = [obj[k] EXCEPT !.commands = n]]
              /\ n = obj[k].commands \/ n + 1 = obj[k].commands
              /\ part # Chunks => n = obj[k].commands
    <2>1. PICK n \in 0..MaxCommands :
              /\ obj' = [obj EXCEPT ![k] = [obj[k] EXCEPT !.commands = n]]
              /\ n = obj[k].commands \/ n + 1 = obj[k].commands
      BY <1>1, <1>4, ProcessResponseDoes
    <2>2. obj'[k].commands = n
      BY <1>1, <2>1 DEF TypeOK, Object
    <2> QED BY <1>5, <2>1, <2>2
  <1> DEFINE o == [obj[k] EXCEPT !.commands = n]
  <1>9. o \in Object /\ o.closed = obj[k].closed /\ o.commands = n
    BY <1>1 DEF Sound, Object
  <1>10. /\ w \in Wire /\ w.sent = sent /\ w.owed = owed /\ w.torn = torn /\ w.part = over
    <2> HIDE DEF sent, owed, torn, over
    <2> QED BY <1>1, <1>7 DEF Sound, Wire
  <1>11. Sound(o, w)
    <2> HIDE DEF o, w, sent, owed, torn, over, part
    <2> QED BY <1>1, <1>2, <1>7, <1>8, <1>9, <1>10 DEF Sound
  <1>12. RestTyped'
    BY <1>1 DEF Chunk, TypeOK, RestTyped
  <1> HIDE DEF o, w
  <1> QED BY <1>3, <1>8, <1>11, <1>12, SoundUpdate DEF o

\* Soundness looks at two fields of the object.
LEMMA SoundFields ==
    ASSUME NEW o, NEW w, NEW p \in Object, Sound(o, w),
           p.closed = o.closed, p.commands = o.commands
    PROVE  Sound(p, w)
  BY DEF Sound

\* An object without commands, closed or not, is sound when nothing is owed or
\* it is closed.
LEMMA SoundEmpty ==
    ASSUME NEW o, NEW w, NEW p \in Object, Sound(o, w), p.commands = 0,
           p.closed \/ (~o.closed /\ o.commands = 0)
    PROVE  Sound(p, w)
  <1>1. w.owed \in 0..MaxCommands /\ o.commands \in 0..MaxCommands
    BY DEF Sound, Wire, Object
  <1> QED BY <1>1, ChildAssumption DEF Sound

-----------------------------------------------------------------------------
(***************************************************************************)
(* Steps that the registry does not see.                                   *)
(***************************************************************************)

\* The operations of the queue have their types.
LEMMA QueueTyped ==
    ASSUME TypeOK
    PROVE  /\ Len(lock) \in Nat /\ DOMAIN lock = 1..Len(lock)
           /\ lock = <<>> <=> Len(lock) = 0
           /\ \A i \in DOMAIN lock : /\ lock[i] \in Operations
                                     /\ lock[i].child \in Child /\ lock[i].key \in Key
                                     /\ lock[i].op \in {"register", "unregister"}
                                     /\ lock[i] = Operation(lock[i].op, lock[i].child, lock[i].key)
  <1>1. lock \in Seq(Operations)
    BY DEF TypeOK
  <1>2. Len(lock) \in Nat /\ DOMAIN lock = 1..Len(lock) /\ (lock = <<>> <=> Len(lock) = 0)
        /\ \A i \in DOMAIN lock : lock[i] \in Operations
    BY <1>1, LenProperties, ElementOfSeq, EmptySeq
  <1> QED BY <1>2 DEF Operations, Operation

\* The registry depends on at, key, exited and stale of the objects, on who is dead
\* or was never spawned, and on who lives; a group that is killed still is.
SameGroup(k) ==
    /\ obj'[k].at = obj[k].at /\ obj'[k].key = obj[k].key /\ obj'[k].exited = obj[k].exited
    /\ obj'[k].stale = obj[k].stale
    /\ obj[k].at = "none" => obj'[k] = obj[k]
    /\ proc'[k] = proc[k] \/ (proc[k] = "live" /\ proc'[k] = "killed")

LEMMA RegistrySame ==
    ASSUME Inv, \A k \in Child : SameGroup(k),
           UNCHANGED <<file, lock, loaded, phase, overlap, kept>>
    PROVE  RegistryInv' /\ (~overlap' => CarefulCaller')
  <1> USE DEF SameGroup
  <1>1. LockHeld'
    BY DEF Inv, RegistryInv, LockHeld
  <1>2. DownEmpty'
    <2>1. NoObject.at = "none"
      BY DEF NoObject
    <2> QED BY <2>1 DEF Inv, RegistryInv, DownEmpty
  <1>3. ObjectsSpawned'
    BY DEF Inv, RegistryInv, ObjectsSpawned
  <1>4. \A i \in DOMAIN lock : lock[i].child \in Child
    BY QueueTyped DEF Inv, WireInv
  <1>5. QueueOwned'
    BY <1>4 DEF Inv, RegistryInv, QueueOwned, Operation
  <1>6. \A key \in Key : file[key] # None => file[key] \in Child
    BY DEF Inv, WireInv, TypeOK, Registry
  <1>7. EntriesOwned'
    BY <1>6 DEF Inv, RegistryInv, EntriesOwned, Operation
  <1>8. ASSUME ~overlap PROVE CarefulCaller'
    <2>1. \A k \in Child : Current(k)' <=> Current(k)
      BY DEF Current, Settling
    <2>2. OneCurrent'
      BY <1>8, <2>1 DEF Inv, CarefulCaller, OneCurrent
    <2>3. EarlierFirst'
      BY <1>8, <2>1 DEF Inv, CarefulCaller, EarlierFirst, Operation
    <2>4. RegisteredStays'
      BY <1>8 DEF Inv, CarefulCaller, RegisteredStays
    <2>5. KeptOwned'
      BY <1>8 DEF Inv, WireInv, TypeOK, CarefulCaller, KeptOwned
    <2> QED BY <2>2, <2>3, <2>4, <2>5 DEF CarefulCaller
  <1> QED BY <1>1, <1>2, <1>3, <1>5, <1>7, <1>8 DEF RegistryInv

\* A kill changes one group, and only if it lives.
LEMMA HardKillDoes ==
    ASSUME TypeOK, NEW k \in Child, proc' = HardKill(k) \/ UNCHANGED proc
    PROVE  /\ proc' \in [Child -> {"none", "live", "killed", "dead"}]
           /\ \A j \in Child : \/ proc'[j] = proc[j]
                               \/ proc[j] = "live" /\ proc'[j] = "killed"
  BY DEF TypeOK, HardKill, KillProcessGroup

\* What a step that changes neither the registry nor the stage of a child keeps.
LEMMA QuietKeeps ==
    ASSUME Inv, WireInv', NEW k \in Child, NEW o,
           obj' = [obj EXCEPT ![k] = o],
           o.at = obj[k].at, o.key = obj[k].key, o.exited = obj[k].exited,
           o.stale = obj[k].stale,
           obj[k].at = "none" => o = obj[k],
           proc' = HardKill(k) \/ UNCHANGED proc,
           UNCHANGED <<file, lock, loaded, env, kept>>
    PROVE  Inv'
  <1>1. TypeOK
    BY DEF Inv, WireInv
  <1>2. \A j \in Child : obj'[j] = IF j = k THEN o ELSE obj[j]
    BY <1>1 DEF TypeOK
  <1>3. \A j \in Child : SameGroup(j)
    BY <1>1, <1>2, HardKillDoes DEF SameGroup
  <1> QED BY <1>3, RegistrySame DEF Inv

\* ready, ready timeout, an error and close timeout: the fields ready and closing.
LEMMA HandshakeKeeps ==
    ASSUME Inv, NEW k \in Child, Ready(k) \/ ReadyTimeout(k) \/ HandshakeError(k) \/ CloseTimeout(k)
    PROVE  Inv'
  <1>1. PICK r \in {"pending", "ready", "rejected", "broken"}, c \in {"no", "waiting", "done"} :
             /\ obj' = [obj EXCEPT ![k] = [obj[k] EXCEPT !.ready = r, !.closing = c]]
             /\ obj[k].at # "none"
    <2>1. obj \in [Child -> Object] /\ obj[k] \in Object
      BY DEF Inv, WireInv, TypeOK
    <2>2. CASE Ready(k)
      <3>1. obj' = [obj EXCEPT ![k] = [obj[k] EXCEPT !.ready = "ready", !.closing = obj[k].closing]]
        BY <2>1, <2>2 DEF Ready, Object
      <3> QED BY <2>1, <2>2, <3>1 DEF Ready, Settling, Object
    <2>3. CASE ReadyTimeout(k)
      <3>1. obj' = [obj EXCEPT ![k] = [obj[k] EXCEPT !.ready = "rejected",
                                                    !.closing = obj[k].closing]]
        BY <2>1, <2>3 DEF ReadyTimeout, Object
      <3> QED BY <2>1, <2>3, <3>1 DEF ReadyTimeout, Settling, Object
    <2>5. CASE HandshakeError(k)
      <3>1. obj' = [obj EXCEPT ![k] = [obj[k] EXCEPT !.ready = "broken",
                                                    !.closing = obj[k].closing]]
        BY <2>1, <2>5 DEF HandshakeError, Object
      <3> QED BY <2>1, <2>5, <3>1 DEF HandshakeError, Settling, Object
    <2>4. CASE CloseTimeout(k)
      <3>1. obj[k].at # "none"
        BY <2>4 DEF CloseTimeout, Inv, RegistryInv, ObjectsSpawned, NoObject
      <3>2. obj' = [obj EXCEPT ![k] = [obj[k] EXCEPT !.ready = obj[k].ready, !.closing = "done"]]
        BY <2>1, <2>4 DEF CloseTimeout, Object
      <3> QED BY <2>1, <3>1, <3>2 DEF Object
    <2> QED BY <2>2, <2>3, <2>4, <2>5
  <1> DEFINE o == [obj[k] EXCEPT !.ready = r, !.closing = c]
  <1>2. obj[k] \in Object /\ Sound(obj[k], wire[k]) /\ wire \in [Child -> Wire] /\ TypeOK
    BY SoundEverywhere DEF Inv, WireInv, TypeOK
  <1>3. /\ o \in Object /\ o.closed = obj[k].closed /\ o.commands = obj[k].commands
        /\ o.at = obj[k].at /\ o.key = obj[k].key /\ o.exited = obj[k].exited
        /\ o.stale = obj[k].stale
    BY <1>2 DEF Object
  <1> HIDE DEF o
  <1>4. Sound(o, wire[k])
    BY <1>2, <1>3, SoundFields
  <1>5. /\ wire' = [wire EXCEPT ![k] = wire[k]]
        /\ UNCHANGED <<file, lock, loaded, env, kept>>
        /\ proc' = HardKill(k) \/ UNCHANGED proc
    BY <1>2 DEF Ready, ReadyTimeout, HandshakeError, CloseTimeout
  <1>6. RestTyped'
    BY <1>2, <1>5, HardKillDoes DEF TypeOK, RestTyped
  <1>7. WireInv'
    BY <1>1, <1>4, <1>5, <1>6, SoundUpdate DEF o, Inv
  <1> QED BY <1>1, <1>3, <1>5, <1>7, QuietKeeps DEF o

\* A command, a response and a chunk.
LEMMA CommandKeeps ==
    ASSUME Inv, NEW k \in Child,
           \/ Send(k)
           \/ \E as \in {"success", "failure", "nothing"} : Response(k, as)
           \/ \E as \in {"written", "invalid", "nothing"} : Chunk(k, as)
    PROVE  Inv'
  <1>1. obj \in [Child -> Object] /\ obj[k] \in Object /\ TypeOK /\ wire[k] \in Wire
        /\ wire \in [Child -> Wire] /\ Sound(obj[k], wire[k])
    BY SoundEverywhere DEF Inv, WireInv, TypeOK
  <1>2. /\ UNCHANGED <<proc, file, lock, loaded, env, kept>>
    BY DEF Send, Response, Chunk
  <1>3. CASE Send(k)
    <2> DEFINE o == [obj[k] EXCEPT !.commands = obj[k].commands + 1]
               w == [wire[k] EXCEPT !.owed = wire[k].owed + 1]
    <2>1. obj' = [obj EXCEPT ![k] = o] /\ wire' = [wire EXCEPT ![k] = w]
      BY <1>1, <1>3 DEF Send, Object, Wire
    <2>2. /\ obj[k].at # "none" /\ ~obj[k].closed /\ obj[k].commands < MaxCommands
          /\ wire[k].owed <= obj[k].commands
      <3>1. /\ obj[k].commands \in 0..MaxCommands /\ wire[k].version \in 0..2
            /\ obj[k].commands < CASE wire[k].version = 0 -> 0 [] wire[k].version = 1 -> 1
                           [] OTHER -> MaxCommands
        BY <1>1, <1>3 DEF Send, Object, Wire
      <3>2. obj[k].commands < MaxCommands
        BY <3>1, ChildAssumption
      <3> QED BY <1>1, <1>3, <3>2 DEF Send, Sound
    <2>3. /\ obj[k].commands + 1 \in 0..MaxCommands /\ wire[k].owed + 1 \in 0..MaxCommands
          /\ wire[k].owed + 1 <= obj[k].commands + 1
      BY <1>1, <2>2, ChildAssumption DEF Object, Wire
    <2>4. /\ o \in Object /\ w \in Wire /\ o.commands = obj[k].commands + 1
          /\ o.closed = obj[k].closed /\ o.at = obj[k].at /\ o.key = obj[k].key
          /\ o.exited = obj[k].exited /\ o.stale = obj[k].stale /\ w.owed = wire[k].owed + 1
          /\ w.sent = wire[k].sent /\ w.part = wire[k].part /\ w.torn = wire[k].torn
      BY <1>1, <2>3 DEF Object, Wire
    <2> HIDE DEF o, w
    <2>5. Sound(o, w)
      BY <1>1, <2>2, <2>3, <2>4 DEF Sound
    <2>6. RestTyped'
      BY <1>1, <1>2 DEF TypeOK, RestTyped
    <2>7. WireInv'
      BY <2>1, <2>5, <2>6, SoundUpdate DEF Inv
    <2> QED BY <1>2, <2>1, <2>2, <2>4, <2>7, QuietKeeps
  <1>4. CASE \/ \E as \in {"success", "failure", "nothing"} : Response(k, as)
             \/ \E as \in {"written", "invalid", "nothing"} : Chunk(k, as)
    <2>1. WireInv'
      BY <1>4, ResponseWire, ChunkWire DEF Inv
    <2>2. ProcessResponse(k) \/ UNCHANGED obj
      BY <1>4 DEF Response, Chunk
    <2>3. PICK n \in 0..MaxCommands :
              /\ obj' = [obj EXCEPT ![k] = [obj[k] EXCEPT !.commands = n]]
              /\ n = obj[k].commands \/ n + 1 = obj[k].commands
      BY <1>1, <2>2, ProcessResponseDoes
    <2> DEFINE o == [obj[k] EXCEPT !.commands = n]
    <2>4. /\ o.at = obj[k].at /\ o.key = obj[k].key /\ o.exited = obj[k].exited
          /\ o.stale = obj[k].stale
      BY <1>1 DEF Object
    <2>5. obj[k].at = "none" => o = obj[k]
      <3>1. SUFFICES ASSUME obj[k].at = "none" PROVE o = obj[k]
        OBVIOUS
      <3>2. obj[k] = NoObject /\ obj[k].commands = 0
        <4>1. obj[k] = NoObject
          BY <3>1 DEF Inv, RegistryInv, ObjectsSpawned
        <4> QED BY <4>1 DEF NoObject
      <3>3. n = 0
        BY <2>3, <3>2
      <3> QED BY <1>1, <3>2, <3>3 DEF NoObject
    <2> HIDE DEF o
    <2> QED BY <1>2, <2>1, <2>3, <2>4, <2>5, QuietKeeps DEF o
  <1> QED BY <1>3, <1>4

\* close() and the acknowledgement timeout reject what waits.
LEMMA ShutKeeps ==
    ASSUME Inv, NEW k \in Child, Close(k) \/ AckTimeout(k)
    PROVE  Inv'
  <1>1. obj[k] \in Object /\ TypeOK /\ wire \in [Child -> Wire] /\ Sound(obj[k], wire[k])
    BY SoundEverywhere DEF Inv, WireInv, TypeOK
  <1>2. /\ UNCHANGED <<proc, wire, file, lock, loaded, env, kept>>
        /\ obj' = [obj EXCEPT ![k] = Shut(k)]
    BY DEF Close, AckTimeout
  <1>3. obj[k].at # "none"
    BY DEF Close, AckTimeout, Inv, RegistryInv, ObjectsSpawned, NoObject
  <1>4. /\ Shut(k) \in Object /\ Shut(k).commands = 0 /\ Shut(k).closed
        /\ Shut(k).at = obj[k].at /\ Shut(k).key = obj[k].key /\ Shut(k).exited = obj[k].exited
        /\ Shut(k).stale = obj[k].stale
    <2>1. 0 \in 0..MaxCommands
      BY ChildAssumption
    <2> QED BY <1>1, <2>1 DEF Shut, Object
  <1>5. Sound(Shut(k), wire[k])
    BY <1>1, <1>4, SoundEmpty
  <1>6. RestTyped' /\ wire' = [wire EXCEPT ![k] = wire[k]]
    BY <1>1, <1>2 DEF TypeOK, RestTyped
  <1>7. WireInv'
    BY <1>2, <1>5, <1>6, SoundUpdate DEF Inv
  <1> QED BY <1>2, <1>3, <1>4, <1>7, QuietKeeps

-----------------------------------------------------------------------------
(***************************************************************************)
(* start() and the exit event.                                             *)
(***************************************************************************)

\* NoObject, field by field.
LEMMA NoObjectFields ==
    /\ NoObject \in Object /\ NoObject.at = "none" /\ NoObject.key = None
    /\ ~NoObject.closed /\ NoObject.commands = 0 /\ NoObject.exited = FALSE
    /\ NoObject.closing = "no" /\ NoObject.ready = "pending" /\ NoObject.stale = FALSE
  <1>1. 0 \in 0..MaxCommands
    BY ChildAssumption
  <1> QED BY <1>1 DEF NoObject, Object

\* What a further operation at the end of the queue leaves as it was.
LEMMA AppendQueue ==
    ASSUME TypeOK, NEW x \in Operations, lock' = Append(lock, x)
    PROVE  /\ lock' \in Seq(Operations)
           /\ DOMAIN lock' = 1..(Len(lock) + 1)
           /\ \A i \in DOMAIN lock : i \in DOMAIN lock' /\ lock'[i] = lock[i]
           /\ \A i \in DOMAIN lock' : i \in DOMAIN lock \/ (i = Len(lock) + 1 /\ lock'[i] = x)
           /\ \A i \in DOMAIN lock : i < Len(lock) + 1
           /\ Len(lock) + 1 \in DOMAIN lock' /\ lock'[Len(lock) + 1] = x
           /\ Len(lock) + 1 \notin DOMAIN lock
  <1>1. lock \in Seq(Operations)
    BY DEF TypeOK
  <1>2. Len(lock) \in Nat /\ DOMAIN lock = 1..Len(lock)
    BY <1>1, LenProperties
  <1> QED BY <1>1, <1>2, AppendProperties, LenProperties

\* start() returns: a child that has registered goes from waiting to its end.
LEMMA StartReturnsKeeps ==
    ASSUME Inv, NEW k \in Child, StartReturns(k)
    PROVE  Inv'
  <1>1. obj[k] \in Object /\ TypeOK /\ wire \in [Child -> Wire] /\ Sound(obj[k], wire[k])
    BY SoundEverywhere DEF Inv, WireInv, TypeOK
  <1> DEFINE a == CASE obj[k].ready = "ready"    -> "started"
                    [] obj[k].ready = "rejected" -> "failed"
                    [] obj[k].ready = "broken"   -> "abandoned"
             o == [obj[k] EXCEPT !.at = a]
  <1>2. /\ UNCHANGED <<proc, wire, file, lock, loaded, env>>
        /\ phase = "up" /\ obj[k].at = "waiting"
        /\ obj[k].ready # "pending"
        /\ kept' = IF obj[k].ready = "rejected" THEN kept ELSE kept \cup {k}
    BY DEF StartReturns
  <1>3. obj' = [obj EXCEPT ![k] = o]
    BY <1>1 DEF StartReturns, Object
  <1>5. /\ a \in {"started", "failed", "abandoned"}
        /\ obj[k].ready # "rejected" => a \in {"started", "abandoned"}
    <2>1. obj[k].ready \in {"pending", "ready", "rejected", "broken"}
      BY <1>1 DEF Object
    <2> QED BY <1>2, <2>1
  <1> HIDE DEF a
  <1>4. /\ o \in Object /\ o.closed = obj[k].closed /\ o.commands = obj[k].commands
        /\ o.at = a /\ o.key = obj[k].key /\ o.exited = obj[k].exited /\ o.stale = obj[k].stale
    BY <1>1, <1>5 DEF Object
  <1> HIDE DEF o
  <1>6. Sound(o, wire[k])
    BY <1>1, <1>4, SoundFields
  <1>7. RestTyped' /\ wire' = [wire EXCEPT ![k] = wire[k]]
    BY <1>1, <1>2 DEF TypeOK, RestTyped
  <1>8. WireInv'
    BY <1>3, <1>6, <1>7, SoundUpdate DEF Inv
  <1>9. \A j \in Child : obj'[j] = IF j = k THEN o ELSE obj[j]
    BY <1>1, <1>3 DEF TypeOK
  <1>10. RegistryInv'
    <2>1. LockHeld' /\ DownEmpty'
      BY <1>2 DEF Inv, RegistryInv, LockHeld, DownEmpty
    <2>2. ObjectsSpawned'
      BY <1>2, <1>4, <1>5, <1>9 DEF Inv, RegistryInv, ObjectsSpawned
    <2>3. QueueOwned'
      BY <1>1, <1>2, <1>4, <1>5, <1>9, QueueTyped DEF Inv, RegistryInv, QueueOwned, Operation
    <2>4. EntriesOwned'
      <3>1. \A key \in Key : file[key] # None => file[key] \in Child
        BY <1>1 DEF TypeOK, Registry
      <3> QED BY <1>2, <1>4, <1>5, <1>9, <3>1 DEF Inv, RegistryInv, EntriesOwned, Operation
    <2> QED BY <2>1, <2>2, <2>3, <2>4 DEF RegistryInv
  <1>11. ASSUME ~overlap PROVE CarefulCaller'
    <2>1. \A j \in Child : (Current(j)' => Current(j)) /\ obj'[j].key = obj[j].key
      BY <1>2, <1>4, <1>5, <1>9 DEF Current, Settling
    <2>2. OneCurrent'
      BY <1>11, <2>1 DEF Inv, CarefulCaller, OneCurrent
    <2>3. EarlierFirst'
      BY <1>2, <1>11, <2>1 DEF Inv, CarefulCaller, EarlierFirst, Operation
    <2>4. RegisteredStays'
      BY <1>2, <1>4, <1>5, <1>9, <1>11 DEF Inv, CarefulCaller, RegisteredStays
    <2>5. KeptOwned'
      <3>1. proc[k] # "none"
        BY <1>2 DEF Inv, RegistryInv, ObjectsSpawned
      <3> QED BY <1>1, <1>2, <1>4, <1>5, <1>9, <1>11, <3>1
          DEF Inv, TypeOK, CarefulCaller, KeptOwned
    <2> QED BY <2>2, <2>3, <2>4, <2>5 DEF CarefulCaller
  <1> QED BY <1>2, <1>8, <1>10, <1>11 DEF Inv

\* A child that could not be spawned leaves no trace in the registry.
LEMMA SpawnFailsKeeps ==
    ASSUME Inv, NEW k \in Child, NEW key \in Key, SpawnFails(k, key)
    PROVE  Inv'
  <1>1. obj[k] \in Object /\ TypeOK /\ wire \in [Child -> Wire] /\ Sound(obj[k], wire[k])
    BY SoundEverywhere DEF Inv, WireInv, TypeOK
  <1> DEFINE o == [NoObject EXCEPT !.key = key, !.at = "failed", !.ready = "rejected"]
  <1>2. /\ UNCHANGED <<wire, file, lock, loaded, env, kept>>
        /\ phase = "up" /\ obj[k] = NoObject /\ proc[k] = "none"
        /\ obj' = [obj EXCEPT ![k] = o] /\ proc' = [proc EXCEPT ![k] = "dead"]
    BY DEF SpawnFails
  <1>3. /\ o \in Object /\ ~o.closed /\ o.commands = 0
        /\ o.at = "failed" /\ o.key = key /\ o.exited = FALSE
    BY NoObjectFields DEF NoObject, Object
  <1> HIDE DEF o
  <1>4. Sound(o, wire[k])
    BY <1>1, <1>2, <1>3, NoObjectFields, SoundEmpty
  <1>5. RestTyped' /\ wire' = [wire EXCEPT ![k] = wire[k]]
    BY <1>1, <1>2 DEF TypeOK, RestTyped
  <1>6. WireInv'
    BY <1>2, <1>4, <1>5, SoundUpdate DEF Inv
  <1>7. \A j \in Child : /\ obj'[j] = IF j = k THEN o ELSE obj[j]
                         /\ proc'[j] = IF j = k THEN "dead" ELSE proc[j]
    BY <1>1, <1>2 DEF TypeOK
  <1>8. obj[k].at = "none"
    BY <1>2, NoObjectFields
  <1>9. RegistryInv'
    <2>1. LockHeld' /\ DownEmpty'
      BY <1>2 DEF Inv, RegistryInv, LockHeld, DownEmpty
    <2>2. ObjectsSpawned'
      BY <1>3, <1>7 DEF Inv, RegistryInv, ObjectsSpawned
    <2>3. QueueOwned'
      BY <1>1, <1>2, <1>3, <1>7, <1>8, QueueTyped DEF Inv, RegistryInv, QueueOwned, Operation
    <2>4. EntriesOwned'
      <3>1. \A x \in Key : file[x] # None => file[x] \in Child
        BY <1>1 DEF TypeOK, Registry
      <3> QED BY <1>2, <1>3, <1>7, <1>8, <3>1 DEF Inv, RegistryInv, EntriesOwned, Operation
    <2> QED BY <2>1, <2>2, <2>3, <2>4 DEF RegistryInv
  <1>10. ASSUME ~overlap PROVE CarefulCaller'
    <2>1. \A j \in Child : Current(j)' => Current(j) /\ obj'[j].key = obj[j].key
      BY <1>3, <1>7 DEF Current, Settling
    <2>2. OneCurrent'
      BY <1>10, <2>1 DEF Inv, CarefulCaller, OneCurrent
    <2>3. EarlierFirst'
      BY <1>2, <1>10, <2>1 DEF Inv, CarefulCaller, EarlierFirst, Operation
    <2>4. RegisteredStays'
      BY <1>2, <1>3, <1>7, <1>10 DEF Inv, CarefulCaller, RegisteredStays
    <2>5. KeptOwned'
      BY <1>1, <1>2, <1>7, <1>10 DEF Inv, TypeOK, CarefulCaller, KeptOwned
    <2> QED BY <2>2, <2>3, <2>4, <2>5 DEF CarefulCaller
  <1> QED BY <1>2, <1>6, <1>9, <1>10 DEF Inv

\* A child is spawned and its registration queued behind all that is asked for.
LEMMA StartKeeps ==
    ASSUME Inv, NEW k \in Child, NEW key \in Key, Start(k, key)
    PROVE  Inv'
  <1>1. obj[k] \in Object /\ TypeOK /\ wire \in [Child -> Wire] /\ Sound(obj[k], wire[k])
    BY SoundEverywhere DEF Inv, WireInv, TypeOK
  <1> DEFINE o == [NoObject EXCEPT !.key = key, !.at = "registering"]
             x == Operation("register", k, key)
  <1>2. /\ UNCHANGED <<wire, file, loaded, env, kept>>
        /\ phase = "up" /\ obj[k] = NoObject /\ proc[k] = "none"
        /\ obj' = [obj EXCEPT ![k] = o] /\ proc' = [proc EXCEPT ![k] = "live"]
        /\ lock' = Append(lock, x)
    BY DEF Start
  <1>3. /\ o \in Object /\ ~o.closed /\ o.commands = 0
        /\ o.at = "registering" /\ o.key = key /\ o.exited = FALSE
    BY NoObjectFields DEF NoObject, Object
  <1>4. x \in Operations /\ x.op = "register" /\ x.child = k /\ x.key = key
    BY DEF Operation, Operations
  <1> HIDE DEF o, x
  <1>5. Sound(o, wire[k])
    BY <1>1, <1>2, <1>3, NoObjectFields, SoundEmpty
  <1>q. /\ lock' \in Seq(Operations)
        /\ \A i \in DOMAIN lock : i \in DOMAIN lock' /\ lock'[i] = lock[i]
        /\ \A i \in DOMAIN lock' : i \in DOMAIN lock \/ (i = Len(lock) + 1 /\ lock'[i] = x)
        /\ \A i \in DOMAIN lock : i < Len(lock) + 1
        /\ Len(lock) + 1 \in DOMAIN lock' /\ lock'[Len(lock) + 1] = x
        /\ Len(lock) + 1 \notin DOMAIN lock
    BY <1>1, <1>2, <1>4, AppendQueue
  <1>6. RestTyped' /\ wire' = [wire EXCEPT ![k] = wire[k]]
    BY <1>1, <1>2, <1>q DEF TypeOK, RestTyped
  <1>7. WireInv'
    BY <1>2, <1>5, <1>6, SoundUpdate DEF Inv
  <1>8. \A j \in Child : /\ obj'[j] = IF j = k THEN o ELSE obj[j]
                         /\ proc'[j] = IF j = k THEN "live" ELSE proc[j]
    BY <1>1, <1>2 DEF TypeOK
  <1>9. obj[k].at = "none"
    BY <1>2, NoObjectFields
  <1>10. \A i \in DOMAIN lock : lock[i].child \in Child /\ lock[i].child # k
    BY <1>1, <1>9, QueueTyped DEF Inv, RegistryInv, QueueOwned
  <1>11. RegistryInv'
    <2>1. LockHeld'
      <3>1. lock' # <<>>
        BY <1>q
      <3> QED BY <1>2, <3>1 DEF Inv, RegistryInv, LockHeld
    <2>2. DownEmpty'
      BY <1>2 DEF DownEmpty
    <2>3. ObjectsSpawned'
      BY <1>3, <1>8 DEF Inv, RegistryInv, ObjectsSpawned
    <2>4. QueueOwned'
      <3>1. ASSUME NEW i \in DOMAIN lock'
            PROVE  LET y == obj'[lock'[i].child]
                   IN  /\ y.at # "none" /\ y.key = lock'[i].key
                       /\ lock'[i].op = "register" => y.at = "registering"
                       /\ lock'[i].op = "unregister" => y.at # "registering" /\ y.exited
        <4>1. CASE i \in DOMAIN lock
          BY <1>8, <1>10, <1>q, <4>1 DEF Inv, RegistryInv, QueueOwned
        <4>2. CASE i = Len(lock) + 1
          BY <1>3, <1>4, <1>8, <1>q, <4>2
        <4> QED BY <1>q, <4>1, <4>2
      <3>2. ASSUME NEW j \in Child, obj'[j].at = "registering"
            PROVE  \E i \in DOMAIN lock' : lock'[i] = Operation("register", j, obj'[j].key)
        <4>1. CASE j = k
          BY <1>3, <1>8, <1>q, <4>1 DEF x
        <4>2. CASE j # k
          BY <1>8, <1>q, <3>2, <4>2 DEF Inv, RegistryInv, QueueOwned
        <4> QED BY <4>1, <4>2
      <3>3. ASSUME NEW i \in DOMAIN lock', NEW j \in DOMAIN lock',
                   lock'[i].op = "register", lock'[i] = lock'[j]
            PROVE  i = j
        BY <1>4, <1>10, <1>q, <3>3 DEF Inv, RegistryInv, QueueOwned
      <3> QED BY <3>1, <3>2, <3>3 DEF QueueOwned
    <2>5. EntriesOwned'
      <3>1. \A y \in Key : file[y] # None => file[y] \in Child /\ file[y] # k
        BY <1>1, <1>2, <1>9 DEF TypeOK, Registry, Inv, RegistryInv, EntriesOwned
      <3> QED BY <1>2, <1>8, <1>q, <3>1 DEF Inv, RegistryInv, EntriesOwned
    <2> QED BY <2>1, <2>2, <2>3, <2>4, <2>5 DEF RegistryInv
  <1>12. ASSUME ~overlap PROVE CarefulCaller'
    <2>1. \A j \in Child : Current(j) /\ j # k => obj[j].key # key
      BY <1>12 DEF Start, Current, Settling
    <2>2. \A j \in Child : j # k => (Current(j)' <=> Current(j)) /\ obj'[j].key = obj[j].key
      BY <1>8 DEF Current
    <2>3. OneCurrent'
      BY <1>3, <1>8, <1>12, <2>1, <2>2 DEF Inv, CarefulCaller, OneCurrent
    <2>4. EarlierFirst'
      <3>1. SUFFICES ASSUME NEW j \in Child, NEW i \in DOMAIN lock', Current(j)',
                            lock'[i].op = "unregister", lock'[i].child # j,
                            lock'[i].key = obj'[j].key
                     PROVE  \E n \in DOMAIN lock' :
                              n > i /\ lock'[n] = Operation("register", j, obj'[j].key)
        BY DEF EarlierFirst
      <3>2. i \in DOMAIN lock /\ lock'[i] = lock[i]
        BY <1>4, <1>q, <3>1
      <3>3. CASE j = k
        <4>1. Len(lock) + 1 \in DOMAIN lock' /\ Len(lock) + 1 > i
          <5>1. Len(lock) \in Nat /\ DOMAIN lock = 1..Len(lock)
            BY <1>1, QueueTyped
          <5> QED BY <1>q, <3>2, <5>1
        <4> QED BY <1>3, <1>8, <1>q, <3>3, <4>1 DEF x
      <3>4. CASE j # k
        BY <1>8, <1>12, <1>q, <2>2, <3>1, <3>2, <3>4 DEF Inv, CarefulCaller, EarlierFirst
      <3> QED BY <3>3, <3>4
    <2>5. RegisteredStays'
      BY <1>2, <1>3, <1>8, <1>12 DEF Inv, CarefulCaller, RegisteredStays
    <2>6. KeptOwned'
      <3>1. k \notin kept
        BY <1>2, <1>12 DEF Inv, RegistryInv, CarefulCaller, KeptOwned
      <3> QED BY <1>1, <1>2, <1>8, <1>12, <3>1 DEF Inv, TypeOK, CarefulCaller, KeptOwned
    <2> QED BY <2>3, <2>4, <2>5, <2>6 DEF CarefulCaller
  <1> QED BY <1>2, <1>7, <1>11, <1>12 DEF Inv

\* The exit event: a group that may be in the file is unregistered behind all
\* that is asked for, or by its registration when that is done.
LEMMA ExitKeeps ==
    ASSUME Inv, NEW k \in Child, Exit(k)
    PROVE  Inv'
  <1>1. obj[k] \in Object /\ TypeOK /\ wire \in [Child -> Wire] /\ Sound(obj[k], wire[k])
    BY SoundEverywhere DEF Inv, WireInv, TypeOK
  <1> DEFINE r == IF obj[k].ready = "pending" THEN "rejected" ELSE obj[k].ready
             c == IF obj[k].closing = "waiting" THEN "done" ELSE obj[k].closing
             o == [obj[k] EXCEPT !.closed = TRUE, !.commands = 0, !.exited = TRUE,
                                 !.ready = r, !.closing = c]
             x == Operation("unregister", k, obj[k].key)
             queues == obj[k].at # "registering"
  <1>2. /\ UNCHANGED <<wire, file, loaded, env, kept>>
        /\ phase = "up" /\ obj[k] # NoObject /\ proc[k] \in {"live", "killed"}
        /\ proc' = [proc EXCEPT ![k] = "dead"]
        /\ lock' = IF queues THEN Append(lock, x) ELSE lock
    BY DEF Exit
  <1>3. obj' = [obj EXCEPT ![k] = o]
    BY <1>1 DEF Exit, Object
  <1>4. /\ o \in Object /\ o.closed /\ o.commands = 0
        /\ o.at = obj[k].at /\ o.key = obj[k].key /\ o.exited
    <2>1. r \in {"pending", "ready", "rejected", "broken"} /\ c \in {"no", "waiting", "done"}
          /\ 0 \in 0..MaxCommands
      BY <1>1, ChildAssumption DEF Object
    <2> HIDE DEF r, c
    <2> QED BY <1>1, <2>1 DEF Object
  <1>5. obj[k].at # "none" /\ obj[k].key \in Key
    BY <1>2 DEF Inv, RegistryInv, ObjectsSpawned
  <1>6. x \in Operations /\ x.op = "unregister" /\ x.child = k /\ x.key = obj[k].key
    BY <1>5 DEF Operation, Operations
  <1> HIDE DEF o, x
  <1>7. Sound(o, wire[k])
    BY <1>1, <1>4, SoundEmpty
  <1>q. /\ lock' \in Seq(Operations)
        /\ \A i \in DOMAIN lock : i \in DOMAIN lock' /\ lock'[i] = lock[i]
        /\ \A i \in DOMAIN lock' : \/ i \in DOMAIN lock
                                   \/ queues /\ lock'[i] = x
        /\ queues => \E i \in DOMAIN lock' : lock'[i] = x
        /\ lock = <<>> \/ lock' # <<>>
    <2>1. CASE queues
      BY <1>1, <1>2, <1>6, <2>1, AppendQueue
    <2>2. CASE ~queues
      BY <1>1, <1>2, <2>2 DEF TypeOK
    <2> QED BY <2>1, <2>2
  <1>8. RestTyped' /\ wire' = [wire EXCEPT ![k] = wire[k]]
    BY <1>1, <1>2, <1>q DEF TypeOK, RestTyped
  <1>9. WireInv'
    BY <1>3, <1>7, <1>8, SoundUpdate DEF Inv
  <1>10. \A j \in Child : /\ obj'[j] = IF j = k THEN o ELSE obj[j]
                          /\ proc'[j] = IF j = k THEN "dead" ELSE proc[j]
    BY <1>1, <1>2, <1>3 DEF TypeOK
  <1>11. \A i \in DOMAIN lock : lock[i].child \in Child
    BY <1>1, QueueTyped
  <1>12. RegistryInv'
    <2>1. LockHeld' /\ DownEmpty'
      BY <1>2, <1>q DEF Inv, RegistryInv, LockHeld, DownEmpty
    <2>2. ObjectsSpawned'
      BY <1>4, <1>5, <1>10 DEF Inv, RegistryInv, ObjectsSpawned
    <2>3. QueueOwned'
      <3>1. ASSUME NEW i \in DOMAIN lock'
            PROVE  LET y == obj'[lock'[i].child]
                   IN  /\ y.at # "none" /\ y.key = lock'[i].key
                       /\ lock'[i].op = "register" => y.at = "registering"
                       /\ lock'[i].op = "unregister" => y.at # "registering" /\ y.exited
        <4>1. CASE i \in DOMAIN lock
          BY <1>4, <1>10, <1>11, <1>q, <4>1 DEF Inv, RegistryInv, QueueOwned
        <4>2. CASE i \notin DOMAIN lock
          BY <1>4, <1>5, <1>6, <1>10, <1>q, <4>2
        <4> QED BY <4>1, <4>2
      <3>2. ASSUME NEW j \in Child, obj'[j].at = "registering"
            PROVE  \E i \in DOMAIN lock' : lock'[i] = Operation("register", j, obj'[j].key)
        BY <1>4, <1>10, <1>q, <3>2 DEF Inv, RegistryInv, QueueOwned
      <3>3. ASSUME NEW i \in DOMAIN lock', NEW j \in DOMAIN lock',
                   lock'[i].op = "register", lock'[i] = lock'[j]
            PROVE  i = j
        BY <1>6, <1>q, <3>3 DEF Inv, RegistryInv, QueueOwned
      <3> QED BY <3>1, <3>2, <3>3 DEF QueueOwned
    <2>4. EntriesOwned'
      <3>1. \A y \in Key : file[y] # None => file[y] \in Child
        BY <1>1 DEF TypeOK, Registry
      <3>2. SUFFICES ASSUME NEW y \in Key, file[y] # None
                     PROVE  /\ obj'[file[y]].key = y
                            /\ obj'[file[y]].at \notin {"none", "registering"}
                            /\ proc'[file[y]] = "dead" =>
                                 \/ obj'[file[y]].stale
                                 \/ \E i \in DOMAIN lock' : lock'[i] = Operation("unregister", file[y], y)
        BY <1>2 DEF EntriesOwned
      <3>3. CASE file[y] = k
        BY <1>2, <1>4, <1>10, <1>q, <3>2, <3>3 DEF Inv, RegistryInv, EntriesOwned, x
      <3>4. CASE file[y] # k
        BY <1>2, <1>10, <1>q, <3>1, <3>2, <3>4 DEF Inv, RegistryInv, EntriesOwned
      <3> QED BY <3>3, <3>4
    <2> QED BY <2>1, <2>2, <2>3, <2>4 DEF RegistryInv
  <1>13. ASSUME ~overlap PROVE CarefulCaller'
    <2>1. \A j \in Child : (Current(j)' => Current(j)) /\ obj'[j].key = obj[j].key
      BY <1>4, <1>10 DEF Current
    <2>2. OneCurrent'
      BY <1>13, <2>1 DEF Inv, CarefulCaller, OneCurrent
    <2>3. EarlierFirst'
      <3>1. SUFFICES ASSUME NEW j \in Child, NEW i \in DOMAIN lock', Current(j)',
                            lock'[i].op = "unregister", lock'[i].child # j,
                            lock'[i].key = obj'[j].key
                     PROVE  \E n \in DOMAIN lock' :
                              n > i /\ lock'[n] = Operation("register", j, obj'[j].key)
        BY DEF EarlierFirst
      <3>2. CASE i \in DOMAIN lock
        BY <1>13, <1>q, <2>1, <3>1, <3>2 DEF Inv, CarefulCaller, EarlierFirst
      <3>3. CASE i \notin DOMAIN lock
        <4>1. Current(k)
          BY <1>2, <1>5 DEF Current
        <4> QED BY <1>6, <1>13, <1>q, <2>1, <3>1, <3>3, <4>1
              DEF Inv, CarefulCaller, OneCurrent
      <3> QED BY <3>2, <3>3
    <2>4. RegisteredStays'
      BY <1>2, <1>4, <1>10, <1>13 DEF Inv, CarefulCaller, RegisteredStays
    <2>5. KeptOwned'
      BY <1>1, <1>2, <1>4, <1>10, <1>13 DEF Inv, TypeOK, CarefulCaller, KeptOwned
    <2> QED BY <2>2, <2>3, <2>4, <2>5 DEF CarefulCaller
  <1> QED BY <1>2, <1>9, <1>12, <1>13 DEF Inv

-----------------------------------------------------------------------------
(***************************************************************************)
(* The operations of the registry.                                         *)
(***************************************************************************)

\* The operation that holds the lock.
LEMMA FirstOwned ==
    ASSUME Inv, loaded # None
    PROVE  /\ TypeOK /\ phase = "up" /\ loaded = file /\ lock # <<>>
           /\ 1 \in DOMAIN lock /\ First = lock[1]
           /\ First.child \in Child /\ First.key \in Key
           /\ obj[First.child].at # "none" /\ obj[First.child].key = First.key
           /\ First.op = "register" => obj[First.child].at = "registering"
           /\ First.op = "unregister" => /\ obj[First.child].at # "registering"
                                         /\ obj[First.child].exited
  <1>1. TypeOK /\ phase = "up" /\ loaded = file /\ lock # <<>>
    BY DEF Inv, WireInv, RegistryInv, LockHeld
  <1>2. 1 \in DOMAIN lock /\ First = lock[1]
    <2>1. lock \in Seq(Operations)
      BY <1>1 DEF TypeOK
    <2> QED BY <1>1, <2>1, QueueTyped DEF First
  <1> QED BY <1>1, <1>2, QueueTyped DEF Inv, RegistryInv, QueueOwned

\* What is left of the queue when the first operation is done, with or without
\* an operation that it asks for.
LEMMA TailQueue ==
    ASSUME TypeOK, lock # <<>>, NEW more \in BOOLEAN, NEW x \in Operations,
           lock' = Tail(lock) \o (IF more THEN <<x>> ELSE <<>>)
    PROVE  /\ lock' \in Seq(Operations)
           /\ \A i \in DOMAIN lock : i # 1 => i - 1 \in DOMAIN lock' /\ lock'[i - 1] = lock[i]
           /\ \A i \in DOMAIN lock' : \/ i + 1 \in DOMAIN lock /\ lock'[i] = lock[i + 1]
                                      \/ more /\ lock'[i] = x
           /\ more => \E i \in DOMAIN lock' : lock'[i] = x
           /\ DOMAIN lock \subseteq Nat /\ DOMAIN lock' \subseteq Nat
  <1>1. lock \in Seq(Operations) /\ Len(lock) \in Nat /\ Len(lock) > 0
    BY QueueTyped DEF TypeOK
  <1>2. /\ Tail(lock) \in Seq(Operations) /\ Len(Tail(lock)) = Len(lock) - 1
        /\ \A i \in 1..(Len(lock) - 1) : Tail(lock)[i] = lock[i + 1]
    BY <1>1, HeadTailProperties
  <1> DEFINE t == Tail(lock)
  <1>3. t \in Seq(Operations) /\ Len(t) = Len(lock) - 1
        /\ (\A i \in 1..(Len(lock) - 1) : t[i] = lock[i + 1])
        /\ lock' = t \o (IF more THEN <<x>> ELSE <<>>)
    BY <1>2
  <1> HIDE DEF t
  <1>4. CASE more
    <2>1. lock' = Append(t, x)
      BY <1>3, <1>4, AppendIsConcat
    <2>2. /\ lock' \in Seq(Operations) /\ Len(lock') = Len(lock)
          /\ \A i \in 1..(Len(lock) - 1) : lock'[i] = lock[i + 1]
          /\ lock'[Len(lock)] = x
      <3>1. /\ Append(t, x) \in Seq(Operations) /\ Len(Append(t, x)) = Len(t) + 1
            /\ \A i \in 1..Len(t) : Append(t, x)[i] = t[i]
            /\ Append(t, x)[Len(t) + 1] = x
        BY <1>3, AppendProperties
      <3> QED BY <1>1, <1>3, <2>1, <3>1
    <2>3. DOMAIN lock = 1..Len(lock) /\ DOMAIN lock' = 1..Len(lock)
      BY <1>1, <2>2, LenProperties
    <2>4. Len(lock) \in DOMAIN lock'
      BY <1>1, <2>3
    <2>5. \A i \in DOMAIN lock : i # 1 => i - 1 \in DOMAIN lock' /\ lock'[i - 1] = lock[i]
      BY <1>1, <2>2, <2>3
    <2>6. \A i \in DOMAIN lock' : \/ i + 1 \in DOMAIN lock /\ lock'[i] = lock[i + 1]
                                  \/ lock'[i] = x
      BY <1>1, <2>2, <2>3
    <2>7. DOMAIN lock \subseteq Nat /\ DOMAIN lock' \subseteq Nat
      BY <1>1, <2>3
    <2> QED BY <1>4, <2>2, <2>4, <2>5, <2>6, <2>7
  <1>5. CASE ~more
    <2>1. lock' = t
      BY <1>3, <1>5, ConcatEmptySeq
    <2>2. DOMAIN lock = 1..Len(lock) /\ DOMAIN lock' = 1..(Len(lock) - 1)
      BY <1>1, <1>3, <2>1, LenProperties
    <2> QED BY <1>1, <1>3, <1>5, <2>1, <2>2
  <1> QED BY <1>4, <1>5

\* The lock is taken.
LEMMA LockReadKeeps ==
    ASSUME Inv, LockRead
    PROVE  Inv'
  <1>1. /\ UNCHANGED <<proc, obj, wire, file, lock, env, kept>>
        /\ loaded' = file /\ phase = "up" /\ lock # <<>>
    BY DEF LockRead
  <1>2. TypeOK'
    BY <1>1 DEF Inv, WireInv, TypeOK
  <1>3. WireInv'
    BY <1>1, <1>2 DEF Inv, WireInv, CommandsSettled, OwedBounded, FramesExact
  <1>4. RegistryInv'
    BY <1>1 DEF Inv, RegistryInv, LockHeld, DownEmpty, ObjectsSpawned, QueueOwned, EntriesOwned
  <1>5. ASSUME ~overlap PROVE CarefulCaller'
    BY <1>1, <1>5 DEF Inv, CarefulCaller, OneCurrent, EarlierFirst, RegisteredStays,
                      KeptOwned, Current
  <1> QED BY <1>1, <1>3, <1>4, <1>5 DEF Inv

\* What the first operation of the queue keeps when it is done: its child goes
\* from stage to stage, the file changes under its own key, and an operation is
\* queued if the child has exited.
LEMMA OperationKeeps ==
    ASSUME Inv, loaded # None, NEW st \in BOOLEAN,
           NEW a \in {"unregistering", "waiting", "started", "failed", "abandoned"},
           NEW more \in BOOLEAN, NEW entry \in Child \cup {None},
           proc' = HardKill(First.child) \/ UNCHANGED proc,
           obj' = [obj EXCEPT ![First.child] = [obj[First.child] EXCEPT !.at = a, !.stale = st]],
           lock' = Tail(lock) \o
                     (IF more THEN <<Operation("unregister", First.child, First.key)>> ELSE <<>>),
           file' = [file EXCEPT ![First.key] = entry],
           loaded' = None,
           UNCHANGED <<wire, env, kept>>,
           \* the stage that follows
           First.op = "register" => a \in {"unregistering", "waiting", "failed"},
           First.op = "unregister" =>
              \/ a = obj[First.child].at
              \/ obj[First.child].at = "unregistering" /\ a = "waiting",
           more => First.op = "register" /\ obj[First.child].exited,
           \* the entry that follows
           First.op = "unregister" => entry = None \/ (entry = file[First.key] /\ st),
           obj[First.child].stale => st,
           First.op = "register" /\ a = "failed" => entry = file[First.key],
           First.op = "register" /\ a # "failed" =>
              entry = First.child /\ (obj[First.child].exited => more)
    PROVE  Inv'
  <1> DEFINE k == First.child
             key == First.key
             x == Operation("unregister", k, key)
             o == [obj[k] EXCEPT !.at = a, !.stale = st]
  <1>1. /\ TypeOK /\ phase = "up" /\ loaded = file /\ lock # <<>>
        /\ 1 \in DOMAIN lock /\ First = lock[1]
        /\ k \in Child /\ key \in Key
        /\ obj[k].at # "none" /\ obj[k].key = key
        /\ First.op = "register" => obj[k].at = "registering"
        /\ First.op = "unregister" => /\ obj[k].at # "registering"
                                      /\ obj[k].exited
    BY FirstOwned
  <1>2. obj[k] \in Object /\ wire \in [Child -> Wire] /\ Sound(obj[k], wire[k])
    BY <1>1, SoundEverywhere DEF Inv, WireInv, TypeOK
  <1>3. x \in Operations /\ x.op = "unregister" /\ x.child = k /\ x.key = key
    BY <1>1 DEF Operation, Operations
  <1>4. obj' = [obj EXCEPT ![k] = o]
    OBVIOUS
  <1>5. /\ o \in Object /\ o.closed = obj[k].closed /\ o.commands = obj[k].commands
        /\ o.at = a /\ o.key = obj[k].key /\ o.exited = obj[k].exited /\ o.stale = st
    BY <1>2 DEF Object
  <1>q. /\ lock' \in Seq(Operations)
        /\ \A i \in DOMAIN lock : i # 1 => i - 1 \in DOMAIN lock' /\ lock'[i - 1] = lock[i]
        /\ \A i \in DOMAIN lock' : \/ i + 1 \in DOMAIN lock /\ lock'[i] = lock[i + 1]
                                   \/ more /\ lock'[i] = x
        /\ more => \E i \in DOMAIN lock' : lock'[i] = x
        /\ DOMAIN lock \subseteq Nat /\ DOMAIN lock' \subseteq Nat
    BY <1>1, <1>3, TailQueue
  <1>o. First.op \in {"register", "unregister"}
    BY <1>1, QueueTyped
  <1> HIDE DEF o, x
  <1>6. Sound(o, wire[k])
    BY <1>2, <1>5, SoundFields
  <1>7. RestTyped' /\ wire' = [wire EXCEPT ![k] = wire[k]]
    BY <1>1, <1>2, <1>q, HardKillDoes DEF TypeOK, RestTyped, Registry
  <1>8. WireInv'
    BY <1>1, <1>4, <1>6, <1>7, SoundUpdate DEF Inv
  <1>9. /\ \A j \in Child : /\ obj'[j] = IF j = k THEN o ELSE obj[j]
                            /\ proc'[j] = "dead" <=> proc[j] = "dead"
                            /\ proc'[j] = "none" <=> proc[j] = "none"
                            /\ proc'[j] = "live" => proc[j] = "live"
                            /\ proc'[j] \in {"live", "killed"} <=> proc[j] \in {"live", "killed"}
        /\ \A y \in Key : file'[y] = IF y = key THEN entry ELSE file[y]
        /\ \A y \in Key : file[y] # None => file[y] \in Child
    <2>1. \A j \in Child : obj'[j] = IF j = k THEN o ELSE obj[j]
      BY <1>1, <1>4 DEF TypeOK
    <2>2. \A j \in Child : \/ proc'[j] = proc[j]
                           \/ proc[j] = "live" /\ proc'[j] = "killed"
      BY <1>1, HardKillDoes
    <2> QED BY <1>1, <2>1, <2>2 DEF TypeOK, Registry
  <1>10. RegistryInv'
    <2>1. LockHeld' /\ DownEmpty'
      BY <1>1 DEF LockHeld, DownEmpty
    <2>2. ObjectsSpawned'
      BY <1>1, <1>5, <1>9, <1>o DEF Inv, RegistryInv, ObjectsSpawned
    <2>3. QueueOwned'
      <3>1. ASSUME NEW i \in DOMAIN lock'
            PROVE  LET y == obj'[lock'[i].child]
                   IN  /\ y.at # "none" /\ y.key = lock'[i].key
                       /\ lock'[i].op = "register" => y.at = "registering"
                       /\ lock'[i].op = "unregister" => y.at # "registering" /\ y.exited
        <4>1. CASE i + 1 \in DOMAIN lock /\ lock'[i] = lock[i + 1]
          <5>1. /\ lock[i + 1].child \in Child
                /\ lock[i + 1] = Operation(lock[i + 1].op, lock[i + 1].child, lock[i + 1].key)
                /\ lock[1] = Operation(lock[1].op, lock[1].child, lock[1].key)
            BY <1>1, <4>1, QueueTyped
          <5>2. LET y == obj[lock[i + 1].child]
                IN  /\ y.at # "none" /\ y.key = lock[i + 1].key
                    /\ lock[i + 1].op = "register" => y.at = "registering"
                    /\ lock[i + 1].op = "unregister" => y.at # "registering" /\ y.exited
            BY <4>1 DEF Inv, RegistryInv, QueueOwned
          <5>3. CASE lock[i + 1].child # k
            <6>1. obj'[lock[i + 1].child] = obj[lock[i + 1].child]
              BY <1>9, <5>1, <5>3
            <6> DEFINE z == lock[i + 1]
                       y == obj[z.child]
            <6>2. lock'[i] = z /\ obj'[z.child] = y
              BY <4>1, <6>1
            <6>3. /\ y.at # "none" /\ y.key = z.key
                  /\ z.op = "register" => y.at = "registering"
                  /\ z.op = "unregister" => y.at # "registering" /\ y.exited
              BY <5>2
            <6> HIDE DEF z, y
            <6> QED BY <6>2, <6>3
          <5>4. CASE lock[i + 1].child = k
            <6>1. lock[i + 1].op # "register"
              <7>1. SUFFICES ASSUME lock[i + 1].op = "register" PROVE FALSE
                OBVIOUS
              <7>2. obj[k].at = "registering" /\ lock[i + 1].key = key
                BY <1>1, <5>2, <5>4, <7>1
              <7>3. First.op = "register"
                BY <1>1, <1>o, <7>2
              <7>4. lock[1] = lock[i + 1]
                BY <1>1, <5>1, <5>4, <7>1, <7>2, <7>3
              <7>5. i + 1 = 1
                BY <1>1, <4>1, <7>1, <7>4 DEF Inv, RegistryInv, QueueOwned
              <7>6. i \in 1..Len(lock')
                <8>1. lock' \in Seq(Operations)
                  BY <1>q
                <8> QED BY <8>1, LenProperties
              <7> QED BY <7>5, <7>6
            <6> QED BY <1>1, <1>5, <1>9, <4>1, <5>2, <5>4, <6>1, SMTT(30)
          <5> QED BY <5>3, <5>4
        <4>2. CASE more /\ lock'[i] = x
          BY <1>1, <1>3, <1>5, <1>9, <4>2
        <4> QED BY <1>q, <4>1, <4>2
      <3>2. ASSUME NEW j \in Child, obj'[j].at = "registering"
            PROVE  \E i \in DOMAIN lock' : lock'[i] = Operation("register", j, obj'[j].key)
        <4>1. j # k /\ obj'[j] = obj[j]
          BY <1>5, <1>9, <3>2
        <4>2. PICK i \in DOMAIN lock : lock[i] = Operation("register", j, obj[j].key)
          BY <3>2, <4>1 DEF Inv, RegistryInv, QueueOwned
        <4>3. i # 1
          BY <1>1, <4>1, <4>2 DEF Operation
        <4>4. i - 1 \in DOMAIN lock' /\ lock'[i - 1] = Operation("register", j, obj'[j].key)
          BY <1>q, <4>1, <4>2, <4>3
        <4> QED BY <4>4
      <3>3. ASSUME NEW i \in DOMAIN lock', NEW j \in DOMAIN lock',
                   lock'[i].op = "register", lock'[i] = lock'[j]
            PROVE  i = j
        <4>1. i + 1 \in DOMAIN lock /\ j + 1 \in DOMAIN lock
              /\ lock'[i] = lock[i + 1] /\ lock'[j] = lock[j + 1]
          BY <1>3, <1>q, <3>3
        <4>2. i + 1 = j + 1
          BY <3>3, <4>1 DEF Inv, RegistryInv, QueueOwned
        <4> QED BY <1>q, <4>2
      <3> QED BY <3>1, <3>2, <3>3 DEF QueueOwned
    <2>4. EntriesOwned'
      <3>1. SUFFICES ASSUME NEW y \in Key, file'[y] # None
                     PROVE  /\ obj'[file'[y]].key = y
                            /\ obj'[file'[y]].at \notin {"none", "registering"}
                            /\ proc'[file'[y]] = "dead" =>
                                 \/ obj'[file'[y]].stale
                                 \/ \E i \in DOMAIN lock' : lock'[i] = Operation("unregister", file'[y], y)
        BY DEF EntriesOwned
      <3>2. CASE file'[y] = file[y] /\ file[y] # k
        <4> DEFINE z == file[y]
        <4>1. /\ z \in Child /\ obj[z].key = y /\ obj[z].at \notin {"none", "registering"}
              /\ proc[z] = "dead" =>
                   \/ obj[z].stale
                   \/ \E i \in DOMAIN lock : lock[i] = Operation("unregister", z, y)
          BY <1>1, <1>9, <3>1, <3>2 DEF Inv, RegistryInv, EntriesOwned
        <4>2. ASSUME NEW i \in DOMAIN lock, lock[i] = Operation("unregister", z, y)
              PROVE  i # 1
          BY <1>1, <3>2, <4>2 DEF Operation
        <4>3. obj'[z] = obj[z] /\ (proc'[z] = "dead" => proc[z] = "dead")
          BY <1>9, <3>2, <4>1
        <4>4. ASSUME proc'[z] = "dead", ~obj'[z].stale
              PROVE  \E i \in DOMAIN lock' : lock'[i] = Operation("unregister", z, y)
          <5>1. PICK i \in DOMAIN lock : lock[i] = Operation("unregister", z, y)
            BY <4>1, <4>3, <4>4
          <5>2. i - 1 \in DOMAIN lock' /\ lock'[i - 1] = Operation("unregister", z, y)
            BY <1>q, <4>2, <5>1
          <5> QED BY <5>2
        <4> QED BY <3>2, <4>1, <4>3, <4>4
      <3>3. CASE file'[y] = k /\ y = key /\ First.op = "register" /\ a # "failed"
        <4>1. proc[k] = "dead" => more
          BY <1>1, <3>3 DEF Inv, RegistryInv, ObjectsSpawned
        <4> QED BY <1>1, <1>5, <1>9, <1>q, <3>3, <4>1 DEF x
      <3>4. y # key => file[y] # k
        BY <1>1, <1>9, <3>1 DEF Inv, RegistryInv, EntriesOwned
      <3>5. First.op = "register" => file[y] # k
        BY <1>1, <1>9, <3>1, ChildAssumption DEF Inv, RegistryInv, EntriesOwned
      <3>6. CASE file'[y] = k /\ First.op = "unregister"
        <4>1. y = key /\ st
          BY <1>9, <3>1, <3>4, <3>6, ChildAssumption, <1>1
        <4>2. obj'[k] = o /\ k \in Child
          BY <1>1, <1>9
        <4>3. obj[k].key = key
          BY <1>1
        <4>4. o.key = y /\ o.at = a /\ o.stale
          BY <1>5, <4>1, <4>3
        <4>5. a \notin {"none", "registering"}
          OBVIOUS
        <4> QED BY <3>6, <4>2, <4>4, <4>5
      <3>7. file'[y] = IF y = key THEN entry ELSE file[y]
        BY <1>9
      <3>8. CASE y # key
        BY <3>2, <3>4, <3>7, <3>8
      <3>9. CASE y = key /\ First.op = "register" /\ a = "failed"
        BY <3>2, <3>5, <3>7, <3>9
      <3>10. CASE y = key /\ First.op = "register" /\ a # "failed"
        BY <3>3, <3>7, <3>10
      <3>11. CASE y = key /\ First.op = "unregister"
        BY <3>1, <3>2, <3>6, <3>7, <3>11
      <3> QED BY <1>o, <3>8, <3>9, <3>10, <3>11
    <2> QED BY <2>1, <2>2, <2>3, <2>4 DEF RegistryInv
  <1>11. ASSUME ~overlap PROVE CarefulCaller'
    <2>1. \A j \in Child : (Current(j)' => Current(j)) /\ obj'[j].key = obj[j].key
      BY <1>1, <1>5, <1>9, <1>o DEF Current, Settling
    <2>2. First.op = "register" => Current(k)
      BY <1>1 DEF Current, Settling
    <2>3. OneCurrent'
      BY <1>11, <2>1 DEF Inv, CarefulCaller, OneCurrent
    <2>4. EarlierFirst'
      <3>1. SUFFICES ASSUME NEW j \in Child, NEW i \in DOMAIN lock', Current(j)',
                            lock'[i].op = "unregister", lock'[i].child # j,
                            lock'[i].key = obj'[j].key
                     PROVE  \E n \in DOMAIN lock' :
                              n > i /\ lock'[n] = Operation("register", j, obj'[j].key)
        BY DEF EarlierFirst
      <3>2. CASE i + 1 \in DOMAIN lock /\ lock'[i] = lock[i + 1]
        <4>1. PICK n \in DOMAIN lock : n > i + 1 /\ lock[n] = Operation("register", j, obj[j].key)
          BY <1>11, <2>1, <3>1, <3>2 DEF Inv, CarefulCaller, EarlierFirst
        <4>2. n # 1 /\ n - 1 > i
          BY <1>q, <4>1
        <4> QED BY <1>q, <2>1, <4>1, <4>2
      <3>3. CASE more /\ lock'[i] = x
        BY <1>1, <1>3, <1>11, <2>1, <2>2, <3>1, <3>3 DEF Inv, CarefulCaller, OneCurrent
      <3> QED BY <1>q, <3>2, <3>3
    <2>5. RegisteredStays'
      <3>1. SUFFICES ASSUME NEW j \in Child, proc'[j] # "dead",
                            obj'[j].at \in {"unregistering", "waiting", "started", "abandoned"}
                     PROVE  file'[obj'[j].key] = j
        BY DEF RegisteredStays
      <3>2. CASE j = k
        <4>1. First.op = "register"
          BY <1>1, <1>9, <1>o, <3>1, <3>2 DEF Inv, RegistryInv, ObjectsSpawned
        <4> QED BY <1>1, <1>5, <1>9, <3>1, <3>2, <4>1
      <3>3. CASE j # k
        <4>1. obj'[j] = obj[j] /\ file[obj[j].key] = j
          BY <1>9, <1>11, <3>1, <3>3 DEF Inv, CarefulCaller, RegisteredStays
        <4>2. Current(j) /\ obj[j].key \in Key
          <5>1. proc[j] \in {"none", "live", "killed", "dead"}
            BY <1>1 DEF TypeOK
          <5> QED BY <1>9, <3>1, <4>1, <5>1 DEF Current, Inv, RegistryInv, ObjectsSpawned
        <4>3. obj[j].key # key
          <5>1. SUFFICES ASSUME obj[j].key = key PROVE FALSE
            OBVIOUS
          <5>2. CASE First.op = "register"
            BY <1>1, <1>11, <2>2, <3>3, <4>2, <5>1, <5>2 DEF Inv, CarefulCaller, OneCurrent
          <5>3. CASE First.op = "unregister"
            <6>1. PICK n \in DOMAIN lock : lock[n] = Operation("register", j, obj[j].key)
              BY <1>1, <1>11, <3>3, <4>2, <5>1, <5>3 DEF Inv, CarefulCaller, EarlierFirst
            <6>2. obj[j].at = "registering"
              BY <6>1 DEF Inv, RegistryInv, QueueOwned, Operation
            <6> QED BY <3>1, <4>1, <6>2
          <5> QED BY <1>o, <5>2, <5>3
        <4> QED BY <1>9, <4>1, <4>2, <4>3
      <3> QED BY <3>2, <3>3
    <2>6. KeptOwned'
      <3>1. proc[k] = "live" => obj[k].at \notin {"started", "abandoned"}
        BY <1>1, <1>o DEF Inv, RegistryInv, ObjectsSpawned
      <3> QED BY <1>1, <1>9, <1>11, <3>1 DEF Inv, TypeOK, CarefulCaller, KeptOwned
    <2> QED BY <2>3, <2>4, <2>5, <2>6 DEF CarefulCaller
  <1> QED BY <1>8, <1>10, <1>11 DEF Inv

\* registerChild.
LEMMA RegisterKeeps ==
    ASSUME Inv, Register
    PROVE  Inv'
  <1> DEFINE k == First.child
             more == obj[k].exited
             a == IF obj[k].exited THEN "unregistering" ELSE "waiting"
  <1>1. loaded # None /\ First.op = "register"
    BY DEF Register
  <1>2. k \in Child /\ First.key \in Key /\ loaded = file /\ TypeOK /\ obj[k].key = First.key
    BY <1>1, FirstOwned
  <1>3. more \in BOOLEAN /\ obj[k].stale \in BOOLEAN
    BY <1>2 DEF TypeOK, Object
  <1>4. /\ UNCHANGED proc
        /\ obj' = [obj EXCEPT ![k] = [obj[k] EXCEPT !.at = a, !.stale = obj[k].stale]]
        /\ lock' = Tail(lock) \o
                     (IF more THEN <<Operation("unregister", k, First.key)>> ELSE <<>>)
        /\ file' = [file EXCEPT ![First.key] = k]
        /\ loaded' = None
        /\ UNCHANGED <<wire, env, kept>>
    <2>1. obj' = [obj EXCEPT ![k].at = a] /\ obj \in [Child -> Object]
      BY <1>2 DEF Register, Continue, TypeOK
    <2>2. obj' = [obj EXCEPT ![k] = [obj[k] EXCEPT !.at = a, !.stale = obj[k].stale]]
      BY <1>2, <2>1 DEF Object
    <2> QED BY <1>2, <2>2 DEF Register, Continue
  <1>5. a \in {"unregistering", "waiting"}
    OBVIOUS
  <1> HIDE DEF a
  <1> QED BY <1>1, <1>2, <1>3, <1>4, <1>5, OperationKeeps

\* A registration that fails.
LEMMA RegisterFailsKeeps ==
    ASSUME Inv, RegisterFails
    PROVE  Inv'
  <1> DEFINE k == First.child
  <1>1. loaded # None /\ First.op = "register"
    BY DEF RegisterFails
  <1>2. k \in Child /\ First.key \in Key /\ loaded = file /\ TypeOK /\ lock # <<>>
    BY <1>1, FirstOwned
  <1>3. Tail(lock) \in Seq(Operations) /\ file[First.key] \in Child \cup {None}
    BY <1>2, HeadTailProperties DEF TypeOK, Registry
  <1>4. /\ proc' = HardKill(k)
        /\ obj' = [obj EXCEPT ![k] = [obj[k] EXCEPT !.at = "failed", !.stale = obj[k].stale]]
        /\ lock' = Tail(lock) \o
                     (IF FALSE THEN <<Operation("unregister", k, First.key)>> ELSE <<>>)
        /\ file' = [file EXCEPT ![First.key] = file[First.key]]
        /\ loaded' = None
        /\ UNCHANGED <<wire, env, kept>>
    <2>1. Tail(lock) \o <<>> = Tail(lock)
      BY <1>3, ConcatEmptySeq
    <2>2. file = [file EXCEPT ![First.key] = file[First.key]]
      BY <1>2 DEF TypeOK, Registry
    <2>3. obj' = [obj EXCEPT ![k].at = "failed"] /\ obj \in [Child -> Object]
      BY <1>2 DEF RegisterFails, TypeOK
    <2>4. obj' = [obj EXCEPT ![k] = [obj[k] EXCEPT !.at = "failed", !.stale = obj[k].stale]]
      BY <1>2, <2>3 DEF Object
    <2> QED BY <2>1, <2>2, <2>4 DEF RegisterFails
  <1>5. obj[k].stale \in BOOLEAN
    BY <1>2 DEF TypeOK, Object
  <1> QED BY <1>1, <1>2, <1>3, <1>4, <1>5, OperationKeeps

\* unregisterChild, done or failed.
LEMMA UnregisterKeeps ==
    ASSUME Inv, Unregister \/ UnregisterFails
    PROVE  Inv'
  <1> DEFINE k == First.child
             a == IF obj[k].at = "unregistering" THEN "waiting" ELSE obj[k].at
             st == IF Unregister THEN obj[k].stale ELSE TRUE
             entry == IF Unregister THEN None ELSE file[First.key]
  <1>1. loaded # None /\ First.op = "unregister"
    BY DEF Unregister, UnregisterFails
  <1>2. /\ k \in Child /\ First.key \in Key /\ loaded = file /\ TypeOK /\ lock # <<>>
        /\ obj[k].at \notin {"none", "registering"}
    BY <1>1, FirstOwned
  <1>3. /\ Tail(lock) \in Seq(Operations) /\ file[First.key] \in Child \cup {None}
        /\ obj \in [Child -> Object] /\ obj[k] \in Object /\ obj[k].stale \in BOOLEAN
    BY <1>2, HeadTailProperties DEF TypeOK, Registry, Object
  <1>4. /\ st \in BOOLEAN /\ (obj[k].stale => st) /\ entry \in Child \cup {None}
        /\ entry = None \/ (entry = file[First.key] /\ st)
    BY <1>3
  <1>5. obj' = [obj EXCEPT ![k] = [obj[k] EXCEPT !.at = a, !.stale = st]]
    <2>1. CASE Unregister
      <3>1. obj' = [obj EXCEPT ![k].at = a]
        BY <2>1 DEF Unregister
      <3> QED BY <1>2, <1>3, <2>1, <3>1 DEF Object
    <2>2. CASE ~Unregister
      <3>1. obj' = [obj EXCEPT ![k].at = a, ![k].stale = TRUE]
        BY <2>2 DEF UnregisterFails
      <3>2. obj' = [obj EXCEPT ![k] = [obj[k] EXCEPT !.at = a, !.stale = TRUE]]
        BY <1>2, <1>3, <3>1 DEF Object
      <3> QED BY <2>2, <3>2
    <2> QED BY <2>1, <2>2
  <1>6. file' = [file EXCEPT ![First.key] = entry]
    <2>1. CASE Unregister
      BY <1>2, <2>1 DEF Unregister
    <2>2. CASE ~Unregister
      <3>1. file = [file EXCEPT ![First.key] = file[First.key]]
        BY <1>2 DEF TypeOK, Registry
      <3> QED BY <2>2, <3>1 DEF UnregisterFails
    <2> QED BY <2>1, <2>2
  <1>7. /\ UNCHANGED proc
        /\ lock' = Tail(lock) \o
                     (IF FALSE THEN <<Operation("unregister", k, First.key)>> ELSE <<>>)
        /\ loaded' = None
        /\ UNCHANGED <<wire, env, kept>>
    <2>1. Tail(lock) \o <<>> = Tail(lock)
      BY <1>3, ConcatEmptySeq
    <2> QED BY <1>2, <2>1 DEF Unregister, UnregisterFails
  <1>8. /\ a \in {"unregistering", "waiting", "started", "failed", "abandoned"}
        /\ a = obj[k].at \/ (obj[k].at = "unregistering" /\ a = "waiting")
    <2>1. obj[k].at \in {"none", "registering", "unregistering", "waiting", "started", "failed",
                         "abandoned"}
      BY <1>3 DEF Object
    <2> QED BY <1>2, <2>1
  <1> HIDE DEF a, st, entry
  <1> QED BY <1>1, <1>2, <1>4, <1>5, <1>6, <1>7, <1>8, OperationKeeps

-----------------------------------------------------------------------------
(***************************************************************************)
(* Crash, death and sweep.                                                 *)
(***************************************************************************)

\* A crash leaves the groups and the file, which names every group that start() kept.
LEMMA CrashKeeps ==
    ASSUME Inv, Crash
    PROVE  Inv'
  <1>1. /\ TypeOK /\ phase = "up" /\ phase' = "down" /\ lock' = <<>> /\ loaded' = None
        /\ obj' = [k \in Child |-> NoObject] /\ wire' = [k \in Child |-> NoWire]
        /\ UNCHANGED <<proc, file, overlap, kept>>
        /\ crashes' \in 0..MaxCrashes
    BY ChildAssumption DEF Crash, Inv, WireInv, TypeOK
  <1>2. NoWire \in Wire /\ NoWire.owed = 0 /\ NoWire.sent = 0 /\ ~NoWire.torn
    <2>1. 0 \in 0..MaxCommands /\ 0 \in 0..(Chunks - 1) /\ 1 \in 0..2
      BY ChildAssumption, ChunksAssumption
    <2> QED BY <2>1 DEF NoWire, Wire
  <1>3. WireInv'
    <2>1. TypeOK'
      BY <1>1, <1>2, NoObjectFields DEF TypeOK
    <2>2. CommandsSettled' /\ OwedBounded' /\ FramesExact'
      BY <1>1, <1>2, NoObjectFields DEF CommandsSettled, OwedBounded, FramesExact
    <2> QED BY <2>1, <2>2 DEF WireInv
  <1>4. RegistryInv'
    <2>1. LockHeld' /\ DownEmpty' /\ EntriesOwned'
      BY <1>1 DEF LockHeld, DownEmpty, EntriesOwned
    <2>2. ObjectsSpawned'
      BY <1>1, NoObjectFields DEF ObjectsSpawned
    <2>3. QueueOwned'
      BY <1>1, NoObjectFields DEF QueueOwned
    <2> QED BY <2>1, <2>2, <2>3 DEF RegistryInv
  <1>5. ASSUME ~overlap PROVE CarefulCaller'
    <2>1. \A k \in Child : ~Current(k)'
      BY <1>1, NoObjectFields DEF Current
    <2>2. OneCurrent' /\ EarlierFirst' /\ RegisteredStays'
      BY <1>1, <2>1, NoObjectFields DEF OneCurrent, EarlierFirst, RegisteredStays
    <2>3. KeptOwned'
      <3>1. ASSUME NEW k \in kept, proc[k] = "live"
            PROVE  \E key \in Key : file[key] = k
        BY <1>1, <1>5, <3>1 DEF TypeOK, Inv, CarefulCaller, RegisteredStays, KeptOwned,
                                RegistryInv, ObjectsSpawned
      <3> QED BY <1>1, <1>5, <3>1 DEF TypeOK, Inv, CarefulCaller, KeptOwned
    <2> QED BY <2>2, <2>3 DEF CarefulCaller
  <1> QED BY <1>1, <1>3, <1>4, <1>5 DEF Inv

\* A group nobody watches is not in the file of a core that is up.
LEMMA DiesKeeps ==
    ASSUME Inv, NEW k \in Child, Dies(k)
    PROVE  Inv'
  <1>1. /\ TypeOK /\ obj[k].at = "none" /\ proc' = [proc EXCEPT ![k] = "dead"]
        /\ UNCHANGED <<obj, wire, file, lock, loaded, env, kept>>
    BY NoObjectFields DEF Dies, Inv, WireInv
  <1>2. \A j \in Child : proc'[j] = IF j = k THEN "dead" ELSE proc[j]
    BY <1>1 DEF TypeOK
  <1>3. WireInv'
    <2>1. TypeOK'
      BY <1>1 DEF TypeOK
    <2> QED BY <1>1, <2>1 DEF Inv, WireInv, CommandsSettled, OwedBounded, FramesExact
  <1>4. RegistryInv'
    <2>1. LockHeld' /\ DownEmpty' /\ QueueOwned'
      BY <1>1 DEF Inv, RegistryInv, LockHeld, DownEmpty, QueueOwned
    <2>2. ObjectsSpawned'
      BY <1>1, <1>2 DEF Inv, RegistryInv, ObjectsSpawned
    <2>3. EntriesOwned'
      <3>1. \A y \in Key : file[y] # None => file[y] \in Child
        BY <1>1 DEF TypeOK, Registry
      <3> QED BY <1>1, <1>2, <3>1 DEF Inv, RegistryInv, EntriesOwned
    <2> QED BY <2>1, <2>2, <2>3 DEF RegistryInv
  <1>5. ASSUME ~overlap PROVE CarefulCaller'
    <2>1. \A j \in Child : Current(j)' <=> Current(j)
      BY <1>1, <1>2 DEF Current
    <2>2. OneCurrent' /\ EarlierFirst'
      BY <1>1, <1>5, <2>1 DEF Inv, CarefulCaller, OneCurrent, EarlierFirst
    <2>3. RegisteredStays'
      BY <1>1, <1>2, <1>5 DEF Inv, CarefulCaller, RegisteredStays
    <2>4. KeptOwned'
      BY <1>1, <1>2, <1>5 DEF Inv, TypeOK, CarefulCaller, KeptOwned
    <2> QED BY <2>2, <2>3, <2>4 DEF CarefulCaller
  <1> QED BY <1>1, <1>3, <1>4, <1>5 DEF Inv

\* The sweep works on a core that is down: it leaves no group of theirs alive
\* that is not in the file, and empties the file when it is done.
LEMMA SweepKeeps ==
    ASSUME Inv, SweepKill \/ SweepWrite \/ \E keys \in SUBSET Key : SweepDenied(keys)
    PROVE  Inv'
  <1>1. /\ TypeOK /\ UNCHANGED <<obj, wire, lock, loaded, crashes, overlap, kept>>
        /\ phase \in {"down", "swept"} /\ lock = <<>> /\ loaded = None
        /\ \A k \in Child : obj[k] = NoObject
        /\ phase' \in {"up", "down", "swept"}
    BY DEF SweepKill, SweepWrite, SweepDenied, Inv, WireInv, RegistryInv, LockHeld, DownEmpty, TypeOK
  <1>2. /\ file' \in Registry
        /\ phase' = "up" => \A key \in Key : file'[key] = None
    <2>1. CASE SweepKill
      BY <1>1, <2>1 DEF SweepKill, TypeOK
    <2>2. CASE SweepWrite
      BY <2>2 DEF SweepWrite, Registry
    <2>3. CASE \E keys \in SUBSET Key : SweepDenied(keys)
      BY <1>1, <2>3 DEF SweepDenied, TypeOK, Registry
    <2> QED BY <2>1, <2>2, <2>3
  <1>3. \A k \in Child : \/ proc'[k] = proc[k]
                         \/ proc[k] = "live" /\ proc'[k] = "killed"
    BY <1>1 DEF SweepKill, SweepWrite, SweepDenied, KillProcessGroup, TypeOK
  <1>4. proc' \in [Child -> {"none", "live", "killed", "dead"}]
    BY <1>1 DEF SweepKill, SweepWrite, SweepDenied, KillProcessGroup, TypeOK
  <1>5. WireInv'
    <2>1. TypeOK'
      BY <1>1, <1>2, <1>4 DEF TypeOK
    <2> QED BY <1>1, <2>1 DEF Inv, WireInv, CommandsSettled, OwedBounded, FramesExact
  <1>6. RegistryInv'
    <2>1. LockHeld' /\ DownEmpty'
      BY <1>1 DEF LockHeld, DownEmpty
    <2>2. ObjectsSpawned'
      BY <1>1, NoObjectFields DEF ObjectsSpawned
    <2>3. QueueOwned'
      BY <1>1, NoObjectFields DEF QueueOwned
    <2>4. EntriesOwned'
      BY <1>2 DEF EntriesOwned
    <2> QED BY <2>1, <2>2, <2>3, <2>4 DEF RegistryInv
  <1>7. ASSUME ~overlap PROVE CarefulCaller'
    <2>1. \A k \in Child : ~Current(k)'
      BY <1>1, NoObjectFields DEF Current
    <2>2. OneCurrent' /\ EarlierFirst' /\ RegisteredStays'
      BY <1>1, <2>1, NoObjectFields DEF OneCurrent, EarlierFirst, RegisteredStays
    <2>3. ASSUME NEW k \in kept
          PROVE  /\ proc'[k] # "none"
                 /\ proc'[k] = "live" => phase' = "down" /\ \E key \in Key : file'[key] = k
      <3>1. /\ k \in Child /\ proc[k] # "none"
            /\ proc[k] = "live" => phase = "down" /\ \E key \in Key : file[key] = k
        BY <1>1, <1>7, <2>3 DEF TypeOK, Inv, CarefulCaller, KeptOwned
      <3>2. proc'[k] # "none" /\ (proc'[k] = "live" => proc[k] = "live")
        BY <1>3, <3>1
      <3>3. CASE SweepKill
        BY <3>1, <3>2, <3>3 DEF SweepKill, KillProcessGroup
      <3>4. CASE SweepWrite
        BY <3>1, <3>2, <3>4 DEF SweepWrite
      <3>5. CASE \E keys \in SUBSET Key : SweepDenied(keys)
        BY <3>1, <3>2, <3>5 DEF SweepDenied, KillProcessGroup
      <3> QED BY <3>3, <3>4, <3>5
    <2>4. KeptOwned'
      BY <1>1, <2>3 DEF KeptOwned
    <2> QED BY <2>2, <2>4 DEF CarefulCaller
  <1> QED BY <1>1, <1>5, <1>6, <1>7 DEF Inv

-----------------------------------------------------------------------------
(***************************************************************************)
(* The theorems.                                                           *)
(***************************************************************************)

\* The invariant holds initially.
LEMMA InitInv == Init => Inv
  <1> SUFFICES ASSUME Init PROVE Inv
    OBVIOUS
  <1>1. NoWire \in Wire /\ NoWire.owed = 0 /\ NoWire.sent = 0 /\ ~NoWire.torn
    <2>1. 0 \in 0..MaxCommands /\ 0 \in 0..(Chunks - 1) /\ 1 \in 0..2
      BY ChildAssumption, ChunksAssumption
    <2> QED BY <2>1 DEF NoWire, Wire
  <1>2. TypeOK
    BY <1>1, NoObjectFields, ChildAssumption DEF Init, TypeOK, Registry
  <1>3. CommandsSettled /\ OwedBounded /\ FramesExact
    BY <1>1, NoObjectFields DEF Init, CommandsSettled, OwedBounded, FramesExact
  <1>4. LockHeld /\ DownEmpty /\ EntriesOwned
    BY DEF Init, LockHeld, DownEmpty, EntriesOwned
  <1>5. ObjectsSpawned /\ QueueOwned
    BY NoObjectFields DEF Init, ObjectsSpawned, QueueOwned
  <1>6. CarefulCaller
    BY NoObjectFields DEF Init, CarefulCaller, OneCurrent, EarlierFirst, RegisteredStays,
                          KeptOwned, Current
  <1> QED BY <1>2, <1>3, <1>4, <1>5, <1>6 DEF Inv, WireInv, RegistryInv

\* Every step keeps the invariant.
LEMMA NextInv == Inv /\ [Next]_vars => Inv'
  <1> SUFFICES ASSUME Inv, [Next]_vars PROVE Inv'
    OBVIOUS
  <1>1. CASE \E k \in Child, key \in Key : Start(k, key) \/ SpawnFails(k, key)
    BY <1>1, StartKeeps, SpawnFailsKeeps
  <1>2. ASSUME NEW k \in Child, Ready(k) \/ ReadyTimeout(k) \/ HandshakeError(k) \/ StartReturns(k)
        PROVE  Inv'
    BY <1>2, HandshakeKeeps, StartReturnsKeeps
  <1>3. ASSUME NEW k \in Child,
               \/ Send(k) \/ AckTimeout(k)
               \/ \E as \in {"success", "failure", "nothing"} : Response(k, as)
               \/ \E as \in {"written", "invalid", "nothing"} : Chunk(k, as)
        PROVE  Inv'
    BY <1>3, CommandKeeps, ShutKeeps
  <1>4. ASSUME NEW k \in Child,
               DialogWhileClosing(k) \/ Close(k) \/ CloseTimeout(k) \/ Exit(k) \/ Dies(k)
        PROVE  Inv'
    BY <1>4, CrashKeeps, ShutKeeps, HandshakeKeeps, ExitKeeps, DiesKeeps DEF DialogWhileClosing
  <1>5. CASE Serialize
    BY <1>5, LockReadKeeps, RegisterKeeps, RegisterFailsKeeps, UnregisterKeeps DEF Serialize
  <1>6. CASE Crash \/ SweepKill \/ SweepWrite \/ \E keys \in SUBSET Key : SweepDenied(keys)
    BY <1>6, CrashKeeps, SweepKeeps
  <1>7. CASE UNCHANGED vars
    <2>1. /\ \A k \in Child : SameGroup(k)
          /\ UNCHANGED <<file, lock, loaded, phase, overlap, kept>>
      BY <1>7 DEF vars, SameGroup
    <2>2. WireInv'
      BY <1>7 DEF vars, Inv, WireInv, TypeOK, CommandsSettled, OwedBounded, FramesExact
    <2> QED BY <2>1, <2>2, RegistrySame DEF Inv
  <1> QED BY <1>1, <1>2, <1>3, <1>4, <1>5, <1>6, <1>7 DEF Next

\* Inv is an invariant of the children and their registry.
THEOREM InvariantHolds == Spec => []Inv
  BY InitInv, NextInv, PTL DEF Spec

\* The state has its types, and a closed or exited child has no command left
\* that waits for a response.
THEOREM ConsistentHolds == Spec => []Consistent
  <1>1. Inv => Consistent
    BY DEF Inv, WireInv, Consistent
  <1> QED BY <1>1, InvariantHolds, PTL

\* processChunk completes no frame of which a line was lost, invalid or out of
\* order, however many chunks a response has.
THEOREM FramesHold == Spec => []FramesWhole
  <1>1. Inv => FramesWhole
    BY DEF Inv, WireInv, FramesExact, FramesWhole
  <1> QED BY <1>1, InvariantHolds, PTL

\* A group that start() did not kill is in the registry while it lives, through
\* crashes and sweeps, and a registry at rest names no dead group but those whose
\* unregistration failed since the core was started.
THEOREM RegisteredHolds == Spec => []Registered
  <1>1. ASSUME Inv PROVE Accounted
    <2>1. SUFFICES ASSUME ~overlap, NEW k \in kept, proc[k] = "live"
                   PROVE  \E key \in Key : file[key] = k
      BY DEF Accounted
    <2>2. k \in Child
      BY <1>1 DEF Inv, WireInv, TypeOK
    <2>3. CASE phase = "up" /\ obj[k].at \in {"started", "abandoned"}
      BY <1>1, <2>1, <2>2, <2>3 DEF Inv, RegistryInv, ObjectsSpawned, CarefulCaller, RegisteredStays
    <2> QED BY <1>1, <2>1, <2>3 DEF Inv, CarefulCaller, KeptOwned
  <1>2. ASSUME Inv PROVE NoStaleEntry
    BY <1>2 DEF Inv, RegistryInv, EntriesOwned, NoStaleEntry
  <1>3. Inv => Registered
    BY <1>1, <1>2 DEF Registered
  <1> QED BY <1>3, InvariantHolds, PTL

\* What a step that holds the lock, and only such a step, does to the file.
LEMMA FileSteps ==
    ASSUME Inv, [Next]_vars, phase = "up", file' # file
    PROVE  Register \/ Unregister
  BY ZenonT(30) DEF Next, vars, Start, SpawnFails, Ready, ReadyTimeout, HandshakeError, StartReturns, Send, AckTimeout,
         Response, Chunk, DialogWhileClosing, Close, CloseTimeout, Exit, Dies, Serialize,
         LockRead, RegisterFails, UnregisterFails, Crash, SweepKill, SweepWrite, SweepDenied

\* withRegistryLock loses no update: an entry changes only by the operation at
\* the head of the queue, under its own key, and is never replaced by another.
THEOREM EntriesKeptHolds == Spec => EntriesKept
  <1>1. ASSUME Inv, [Next]_vars, phase = "up", NEW key \in Key, file'[key] # file[key]
        PROVE  lock # <<>> /\ First.key = key /\ None \in {file[key], file'[key]}
    <2>1. Register \/ Unregister
      BY <1>1, FileSteps
    <2>2. loaded # None
      BY <2>1 DEF Register, Unregister
    <2>3. loaded = file /\ lock # <<>> /\ file \in Registry /\ First.key \in Key
      BY <1>1, <2>2, FirstOwned DEF TypeOK
    <2>4. CASE Register
      <3>1. \A y \in Key : file'[y] = IF y = First.key THEN First.child ELSE file[y]
        BY <2>3, <2>4 DEF Register, Registry
      <3>2. file[First.key] \in {None, First.child}
        BY <2>3, <2>4 DEF Register
      <3> QED BY <1>1, <2>3, <3>1, <3>2
    <2>5. CASE Unregister
      <3>1. \A y \in Key : file'[y] = IF y = First.key THEN None ELSE file[y]
        BY <2>3, <2>5 DEF Unregister, Registry
      <3> QED BY <1>1, <2>3, <3>1
    <2> QED BY <2>1, <2>4, <2>5
  <1>2. Inv /\ [Next]_vars =>
          [phase = "up" => \A key \in Key : file'[key] # file[key] =>
              lock # <<>> /\ First.key = key /\ None \in {file[key], file'[key]}]_vars
    BY <1>1
  <1> QED BY <1>2, InvariantHolds, PTL DEF Spec, EntriesKept
=============================================================================
