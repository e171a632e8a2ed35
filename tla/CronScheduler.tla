---------------------------- MODULE CronScheduler ----------------------------
(***************************************************************************)
(* packages/core/src/cron-scheduler.ts: the tick loop that fires scheduled *)
(* jobs, the boot runs, the command timeout, the durable last-run state,   *)
(* stop() at SIGTERM, and a crash at any point.                            *)
(*                                                                         *)
(* Jobs are numbered in the order of their file names, which is the order  *)
(* loadSchedules sorts them in.  The clock counts minutes and MAX_WAKE_MS  *)
(* is one minute, so an armed timer may fire at whatever minute it is.     *)
(***************************************************************************)
EXTENDS CronExpression, Order, SequencesExt

CONSTANTS
    Jobs,      \* how many schedule files there are
    Setups,    \* the contents these files may have: a sequence of directories
    CatchUpCap,\* CATCH_UP_CAP
    MaxTime,   \* bound: the last minute
    MaxFaults, \* bound: crashes, failed reads and failed writes
    MaxEdits,  \* bound: changes of the schedules directory
    MaxStops   \* bound: orderly stops

Job == 1 .. Jobs
Minute == 0 .. MaxTime

(* A run in flight. *)
Run == [job : Job, at : Minute, boot : BOOLEAN,
        stage : {"running", "terminating", "output", "record"}]

ASSUME CronAssumption ==
    /\ Jobs \in Nat \ {0} /\ CatchUpCap \in Nat \ {0}
    /\ \A s \in DOMAIN Setups, j \in Job :
          Parses(Setups[s][j].fields) /\ IsZone(Setups[s][j].timezone)
    /\ {MaxTime, MaxFaults, MaxEdits, MaxStops} \subseteq Nat
    /\ None \notin Run

VARIABLES
    setup,   \* which of the directories it is
    files,   \* the jobs whose file is in the directory
    broken,  \* a file of the directory does not parse
    clock,   \* Date.now()
    proc,    \* "up", "stopping" (SIGTERM received) or "down"
    drain,   \* stop() is waiting for the run that was in flight
    bootRan, \* jobs whose boot run this process has begun
    tick,    \* the tick loop: its phase and its local variables
    run,     \* inFlight: the run being executed, or None
    lastRun, \* last-run.json of each job, None before the first tick
    outputs, \* the run files
    anchor,  \* history: the value each last-run.json was last anchored at
    log,     \* history: the fires that were recorded, in order
    faults, edits, stops

vars == <<setup, files, broken, clock, proc, drain, bootRan, tick, run, lastRun,
          outputs, anchor, log, faults, edits, stops>>

durable == <<lastRun, outputs, anchor, log>>
world == <<setup, files, broken, clock, faults, edits, stops>>
process == <<proc, drain, bootRan>>

(* parseScheduleFile on every file; what does not parse is `broken`. *)
LoadSchedules(content) ==
    [j \in Job |-> [parsed    |-> ParseCronExpression(content[j].fields),
                    timezone  |-> content[j].timezone,
                    missed    |-> content[j].missed,
                    command   |-> content[j].command,
                    runAtBoot |-> content[j].runAtBoot]]

Loaded == [s \in DOMAIN Setups |-> LoadSchedules(Setups[s])]
CronJob(j) == Loaded[setup][j]

(* nextRunAfter, tabulated. *)
NextRuns ==
    [s \in DOMAIN Setups |-> [j \in Job |-> [t \in Minute |->
        NextRunAfter(Loaded[s][j].parsed, t, Loaded[s][j].timezone)]]]
NextRun(j, t) == NextRuns[setup][j][t]

Idle == [phase |-> "idle", at |-> 0, queue |-> <<>>, due |-> <<>>]
Armed == [Idle EXCEPT !.phase = "armed"]

TypeOK ==
    /\ setup \in DOMAIN Setups
    /\ files \subseteq Job /\ broken \in BOOLEAN /\ clock \in Minute
    /\ proc \in {"up", "stopping", "down"} /\ drain \in BOOLEAN
    /\ bootRan \subseteq Job
    /\ tick \in [phase : {"idle", "armed", "boot", "jobs", "due"}, at : Minute,
                 queue : Seq(Job), due : Seq(Minute)]
    /\ Len(tick.due) <= CatchUpCap
    /\ run \in Run \cup {None}
    /\ lastRun \in [Job -> Minute \cup {None}]
    /\ outputs \in [Job -> SUBSET Minute]
    /\ anchor \in [Job -> Minute \cup {None}] /\ log \in [Job -> Seq(Minute)]
    /\ faults \in 0 .. MaxFaults /\ edits \in 0 .. MaxEdits /\ stops \in 0 .. MaxStops

Init ==
    /\ setup \in DOMAIN Setups
    /\ files \in {Job, {}} /\ broken = FALSE
    /\ clock = 0
    /\ proc = "up" /\ drain = FALSE /\ bootRan = {}
    /\ tick = Armed /\ run = None
    /\ lastRun = [j \in Job |-> None]
    /\ outputs = [j \in Job |-> {}]
    /\ anchor = [j \in Job |-> None]
    /\ log = [j \in Job |-> <<>>]
    /\ faults = 0 /\ edits = 0 /\ stops = 0

-----------------------------------------------------------------------------
(* The environment: time passes, and the operator edits the directory. *)

Advance ==
    /\ clock < MaxTime
    /\ clock' = clock + 1
    /\ UNCHANGED <<setup, files, broken, process, tick, run, durable, faults, edits, stops>>

EditSchedules ==
    /\ edits < MaxEdits
    /\ edits' = edits + 1
    /\ \/ \E j \in Job : files' = (files \ {j}) \cup ({j} \ files)
          /\ UNCHANGED broken
       \/ broken' = ~broken /\ UNCHANGED files
    /\ UNCHANGED <<setup, clock, process, tick, run, durable, faults, stops>>

-----------------------------------------------------------------------------
(* The tick *)

(* scheduleNext, which does nothing once stopped. *)
Rearmed == IF proc = "up" THEN Armed ELSE Idle

(* loadSchedules throws, or there is no job: the timer is armed again at once. *)
LoadNothing ==
    /\ tick.phase = "armed" /\ (broken \/ files = {})
    /\ UNCHANGED vars

(* The time of the tick is read once, here. *)
LoadJobs ==
    /\ tick.phase = "armed" /\ ~broken /\ files # {}
    /\ tick' = [phase |-> "boot", at |-> clock,
                queue |-> Ascending(files), due |-> <<>>]
    /\ UNCHANGED <<world, process, run, durable>>

BootPending ==
    {j \in ToSet(tick.queue) : CronJob(j).runAtBoot /\ j \notin bootRan}

Running(j, t, boot) == [job |-> j, at |-> t, boot |-> boot, stage |-> "running"]

(* Boot runs come first, one after the other, each once in a process. *)
StartBootRun ==
    /\ tick.phase = "boot" /\ run = None /\ BootPending # {}
    /\ LET j == Min(BootPending)
       IN  bootRan' = bootRan \cup {j} /\ run' = Running(j, tick.at, TRUE)
    /\ UNCHANGED <<world, proc, drain, tick, durable>>

BootRunsDone ==
    /\ tick.phase = "boot" /\ run = None /\ BootPending = {}
    /\ tick' = [tick EXCEPT !.phase = "jobs"]
    /\ UNCHANGED <<world, process, run, durable>>

(* The tick after the head of the queue is dealt with; nextRunAfter throws for a
   schedule that never matches and the tick ends there. *)
AfterJob ==
    LET rest == Tail(tick.queue)
    IN  IF NextRun(Head(tick.queue), tick.at) = None \/ rest = <<>> THEN Rearmed
        ELSE [tick EXCEPT !.phase = "jobs", !.queue = rest, !.due = <<>>]

(* The head of the queue is anchored at the time of the tick, without a fire. *)
AnchorHead ==
    /\ lastRun' = [lastRun EXCEPT ![Head(tick.queue)] = tick.at]
    /\ anchor' = [anchor EXCEPT ![Head(tick.queue)] = tick.at]
    /\ tick' = AfterJob
    /\ UNCHANGED <<process, run, outputs, log>>

(* A job without last-run.json. *)
Anchor ==
    /\ tick.phase = "jobs" /\ lastRun[Head(tick.queue)] = None
    /\ AnchorHead
    /\ UNCHANGED world

(* readLastRun returns null as well for a file that cannot be read or parsed, and
   the job is anchored anew: the boundaries missed until now are dropped. *)
Unreadable ==
    /\ tick.phase = "jobs" /\ lastRun[Head(tick.queue)] # None
    /\ faults < MaxFaults /\ faults' = faults + 1
    /\ AnchorHead
    /\ UNCHANGED <<setup, files, broken, clock, edits, stops>>

(* The loop over nextRunAfter: the first run after `base`, the first one after
   that, and so on while they are due. *)
FiresAfter(j, base, now) ==
    LET window == (base + 1) .. now
        Closed(S) == \A t \in {base} \cup S : NextRun(j, t) \in window => NextRun(j, t) \in S
    IN  Ascending({t \in window : \A S \in SUBSET window : Closed(S) => t \in S})

(* Mutant: at the cap the oldest fires are dropped. *)
ComputeDueFires_CapKeepsNewest(j, now) ==
    LET fires == FiresAfter(j, lastRun[j], now)
    IN  IF CronJob(j).missed = "skip" THEN SubSeq(fires, Max({1, Len(fires)}), Len(fires))
        ELSE SubSeq(fires, Max({1, Len(fires) - CatchUpCap + 1}), Len(fires))

(* skip fires the latest missed boundary, catchUp the oldest ones up to the cap. *)
ComputeDueFires(j, now) ==
    LET fires == FiresAfter(j, lastRun[j], now)
    IN  IF CronJob(j).missed = "skip" THEN SubSeq(fires, Max({1, Len(fires)}), Len(fires))
        ELSE SubSeq(fires, 1, Min({CatchUpCap, Len(fires)}))

(* nextRunAfter throws for a time the loop comes to; in catchUp mode the loop
   does not look beyond the fire that reaches the cap. *)
NeverAgain(j, now) ==
    LET fires == FiresAfter(j, lastRun[j], now)
    IN  \/ NextRun(j, lastRun[j]) = None
        \/ \E i \in DOMAIN fires : /\ CronJob(j).missed = "skip" \/ i < CatchUpCap
                                  /\ NextRun(j, fires[i]) = None

(* computeDueFires throws: the tick fails. *)
Due ==
    /\ tick.phase = "jobs" /\ lastRun[Head(tick.queue)] # None
    /\ LET j == Head(tick.queue)
       IN  tick' = IF NeverAgain(j, tick.at) THEN Rearmed
                   ELSE [tick EXCEPT !.phase = "due",
                                     !.due = ComputeDueFires(j, tick.at)]
    /\ UNCHANGED <<world, process, run, durable>>

StartFire ==
    /\ tick.phase = "due" /\ run = None /\ tick.due # <<>>
    /\ run' = Running(Head(tick.queue), Head(tick.due), FALSE)
    /\ tick' = [tick EXCEPT !.due = Tail(@)]
    /\ UNCHANGED <<world, process, durable>>

JobDone ==
    /\ tick.phase = "due" /\ run = None /\ tick.due = <<>>
    /\ tick' = AfterJob
    /\ UNCHANGED <<world, process, run, durable>>

-----------------------------------------------------------------------------
(* A run.  Its result is ok or an error, and both are recorded alike. *)

(* Mutant: the fire is recorded first, its output written afterwards or never. *)
RunEnds_RecordsFirst ==
    /\ run # None /\ run.stage \in {"running", "terminating"}
    /\ run' = [run EXCEPT !.stage = IF run.boot THEN "output" ELSE "record"]
    /\ UNCHANGED <<world, process, tick, durable>>

(* A command closes or cannot be spawned; an omp child reports agent_end, exits,
   or refuses a command, and is closed. *)
RunEnds ==
    /\ run # None /\ run.stage \in {"running", "terminating"}
    /\ run' = [run EXCEPT !.stage = "output"]
    /\ UNCHANGED <<world, process, tick, durable>>

(* Mutant: only the polite signal is sent. *)
CommandTimeout_NoKill ==
    /\ run # None /\ CronJob(run.job).command /\ run.stage = "running"
    /\ run' = [run EXCEPT !.stage = "terminating"]
    /\ UNCHANGED <<world, process, tick, durable>>

(* The timeout of a command: SIGTERM to its group, and after the grace period
   SIGKILL, upon which the run is over whether or not the command closes. *)
CommandTimeout ==
    /\ run # None /\ CronJob(run.job).command /\ run.stage \in {"running", "terminating"}
    /\ run' = [run EXCEPT !.stage = IF @ = "running" THEN "terminating" ELSE "output"]
    /\ UNCHANGED <<world, process, tick, durable>>

(* inFlight is cleared, which is what stop() waits for. *)
RunOver == run' = None /\ drain' = FALSE

(* writeRun; a boot run leaves last-run.json alone. *)
WriteRun ==
    /\ run # None /\ run.stage = "output"
    /\ outputs' = [outputs EXCEPT ![run.job] = @ \cup {run.at}]
    /\ IF run.boot THEN RunOver
       ELSE run' = [run EXCEPT !.stage = "record"] /\ UNCHANGED drain
    /\ UNCHANGED <<world, proc, bootRan, tick, lastRun, anchor, log>>

WriteLastRun ==
    /\ run # None /\ run.stage = "record"
    /\ lastRun' = [lastRun EXCEPT ![run.job] = run.at]
    /\ log' = [log EXCEPT ![run.job] = Append(@, run.at)]
    /\ RunOver
    /\ UNCHANGED <<world, proc, bootRan, tick, outputs, anchor>>

(* Writing the output, the fire or an anchor fails: so does the tick. *)
WriteFails ==
    /\ \/ run # None /\ run.stage \in {"output", "record"}
       \/ tick.phase = "jobs"
    /\ faults < MaxFaults /\ faults' = faults + 1
    /\ RunOver
    /\ tick' = Rearmed
    /\ UNCHANGED <<setup, files, broken, clock, edits, stops, proc, bootRan, durable>>

-----------------------------------------------------------------------------
(* The process *)

Gone ==
    /\ proc' = "down" /\ drain' = FALSE /\ bootRan' = {}
    /\ tick' = Idle /\ run' = None
    /\ UNCHANGED durable

(* SIGTERM with nothing in flight: the process is gone before the tick goes on. *)
StopIdle ==
    /\ proc = "up" /\ run = None /\ stops < MaxStops /\ stops' = stops + 1
    /\ Gone
    /\ UNCHANGED <<setup, files, broken, clock, faults, edits>>

(* SIGTERM during a run: stop() waits for it.  The tick that awaits the same run
   goes on too, and looks at `stopped` only when it would arm the timer. *)
Stop ==
    /\ proc = "up" /\ run # None /\ stops < MaxStops /\ stops' = stops + 1
    /\ proc' = "stopping"
    /\ drain' = TRUE
    /\ UNCHANGED <<setup, files, broken, clock, faults, edits, bootRan, tick, run, durable>>

(* stop() resolves and the process exits. *)
Exit ==
    /\ proc = "stopping" /\ ~drain
    /\ Gone
    /\ UNCHANGED world

Crash ==
    /\ proc # "down"
    /\ faults < MaxFaults /\ faults' = faults + 1
    /\ Gone
    /\ UNCHANGED <<setup, files, broken, clock, edits, stops>>

Restart ==
    /\ proc = "down"
    /\ proc' = "up" /\ tick' = Armed
    /\ UNCHANGED <<world, drain, bootRan, run, durable>>

-----------------------------------------------------------------------------
TickStep ==
    \/ LoadNothing \/ LoadJobs \/ StartBootRun \/ BootRunsDone
    \/ Anchor \/ Due \/ StartFire \/ JobDone

RunStep == CommandTimeout \/ WriteRun \/ WriteLastRun

Next ==
    \/ Advance \/ EditSchedules
    \/ LoadNothing \/ LoadJobs \/ StartBootRun \/ BootRunsDone
    \/ Anchor \/ Unreadable \/ Due \/ StartFire \/ JobDone
    \/ RunEnds \/ CommandTimeout \/ WriteRun \/ WriteLastRun \/ WriteFails
    \/ StopIdle \/ Stop \/ Exit \/ Crash \/ Restart

Spec == Init /\ [][Next]_vars

(* The event loop runs what is ready, the command timer expires, the entrypoint
   starts the scheduler again.  Nothing makes an omp child end its turn. *)
FairSpec ==
    /\ Spec
    /\ WF_vars(TickStep) /\ WF_vars(RunStep) /\ WF_vars(Exit) /\ WF_vars(Restart)

-----------------------------------------------------------------------------
(* Correctness *)

Recorded(j) == ToSet(log[j])

(* What the schedule says, read off the calendar minute by minute. *)
Matching(job, e) ==
    LET w == Wall(job.timezone, e)
    IN  /\ DayMatches(job.parsed, w \div DayLength)
        /\ (w % DayLength) \div MinutesPerHour \in job.parsed.hour
        /\ w % MinutesPerHour \in job.parsed.minute

(* A wall time that comes twice because the clock is set back. *)
Repeated(zone, e) ==
    \E d \in (0 - DayLength) .. DayLength : d # 0 /\ Wall(zone, e + d) = Wall(zone, e)

(* No run of nextRunAfter looks further ahead. *)
Horizon == MaxTime + (MaxDays + 1) * DayLength
OnSchedule ==
    [s \in DOMAIN Setups |-> [j \in Job |->
        {e \in 0 .. Horizon : Matching(Loaded[s][j], e)}]]
Boundaries ==
    [s \in DOMAIN Setups |-> [j \in Job |->
        {e \in OnSchedule[s][j] : ~Repeated(Loaded[s][j].timezone, e)}]]

Matches(j, e) == e \in OnSchedule[setup][j]
Boundary(j, e) == e \in Boundaries[setup][j]

DayOf(j, e) == Wall(CronJob(j).timezone, e) \div DayLength

(* nextRunAfter: the result is after its argument and on the schedule, and of the
   minutes it passes over only those of a repeated hour are on the schedule; it
   throws only when the days it scans have no other. *)
NextRunExact ==
    \A j \in Job :
        LET next == NextRun(j, clock)
        IN  IF next = None
            THEN \A e \in (clock + 1) .. (clock + MaxDays * DayLength) :
                    DayOf(j, e) < DayOf(j, clock) + MaxDays => ~Boundary(j, e)
            ELSE /\ next > clock /\ Matches(j, next)
                 /\ \A e \in (clock + 1) .. (next - 1) : ~Boundary(j, e)

(* No job repeats a fire it has recorded: the recorded fires are in order, on the
   schedule and not later than last-run.json.  A job in catchUp mode misses nothing
   since it was last anchored: between that anchor and last-run.json every boundary
   is recorded, however often the cap, a stop, a crash, a failed write, a boot run
   or an edit cut a tick short.  An unreadable last-run.json sets a new anchor, and
   nothing is said of the boundaries between the last fire and that anchor. *)
CaughtUp ==
    \A j \in Job : lastRun[j] # None =>
        /\ anchor[j] # None
        /\ \A i \in 1 .. (Len(log[j]) - 1) : log[j][i] < log[j][i + 1]
        /\ \A e \in Recorded(j) : Matches(j, e) /\ e <= lastRun[j]
        /\ CronJob(j).missed = "catchUp" =>
              \A e \in (anchor[j] + 1) .. lastRun[j] : Boundary(j, e) => e \in Recorded(j)

(* A job in skip mode never replays a backlog: what is fired is the latest
   boundary at the time of the tick, and a tick fires it once. *)
SkipsToLatest ==
    (run # None /\ ~run.boot /\ CronJob(run.job).missed = "skip") =>
        /\ tick.due = <<>>
        /\ \A e \in (run.at + 1) .. tick.at : ~Boundary(run.job, e)

(* A fire is recorded only after its output is in place, so a crash between the
   two writes repeats the fire and never loses what it said. *)
OutputKept ==
    \A j \in Job : Recorded(j) \subseteq outputs[j]

(* The state has its types, the cap on a tick's fires included, and what is
   recorded has its output. *)
Consistent == TypeOK /\ OutputKept

(* Both modes treat the boundaries that passed while nobody looked as promised. *)
MissedRuns == CaughtUp /\ SkipsToLatest

(* The header's grammar: a single value with a step runs to the maximum. *)
HeaderPart(part, def) ==
    IF part.first # None /\ part.last = None /\ part.step # None
    THEN [part EXCEPT !.last = def.max] ELSE part
HeaderSchedule(fields) ==
    [name \in FieldNames |-> ParseField({HeaderPart(p, FieldDef(name)) : p \in fields[name]}, name)]

(* The next run of every job is the one its fields have by the grammar in the header
   of cron-expression.ts, where `A/M` is every M-th value from A to the maximum. *)
HeaderGrammar ==
    \A j \in Job : NextRun(j, clock) =
        NextRunAfter(HeaderSchedule(Setups[setup][j].fields), clock, CronJob(j).timezone)

Missed(j) ==
    lastRun[j] # None /\ \E e \in (lastRun[j] + 1) .. clock : Boundary(j, e)

(* A schedule that never matches ends every tick before the jobs that follow. *)
Blocked(j) == \E i \in 1 .. j : NextRun(i, 0) = None

HungPrompt == run # None /\ ~CronJob(run.job).command /\ run.stage = "running"

(* Every missed boundary is fired, passed over as the mode says, or dropped with an
   unreadable last-run.json, and not left waiting, while the job's file stays in place and
   the files parse, unless an omp child never ends its turn or a schedule that
   never matches comes first. *)
CatchesUp ==
    \A j \in Job :
        (<>[](j \in files /\ ~broken) /\ []<>(~HungPrompt))
            => (Missed(j) ~> (~Missed(j) \/ Blocked(j)))
=============================================================================
