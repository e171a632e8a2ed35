--------------------------- MODULE CronExpression ---------------------------
(***************************************************************************)
(* cron-expression.ts: the 5-field parser and nextRunAfter.  Time is       *)
(* counted in whole minutes since an epoch at which a day, a week, a month *)
(* and a year all begin.  The calendar is a parameter, so that a run can   *)
(* use days of a few minutes; the code's is 60, 24, 7 and twelve months.   *)
(***************************************************************************)
EXTENDS Integers, Sequences, FiniteSets, FiniteSetsExt

CONSTANTS MinutesPerHour, HoursPerDay, DaysPerWeek,
          MonthLengths,  \* the days of each month of the (only) year
          MaxDays,       \* the days scanned before giving up (366 in the code)
          None           \* an absent value

ASSUME CalendarAssumption ==
    /\ {MinutesPerHour, HoursPerDay, DaysPerWeek, MaxDays} \subseteq Nat \ {0}
    /\ MonthLengths \in Seq(Nat \ {0}) /\ MonthLengths # << >>
    /\ None \notin Int

DayLength == MinutesPerHour * HoursPerDay
LongestMonth == Max({MonthLengths[m] : m \in DOMAIN MonthLengths})

(***************************************************************************)
(* Parsing.  A field is a set of parts, a part what PART_RE captures:      *)
(* `first` and `last` of A-B (None when absent; no `first` is `*`) and the *)
(* step after the slash.  Sunday is both 0 and the maximum, 7.             *)
(***************************************************************************)
FieldDef(name) ==
    CASE name = "minute" -> [min |-> 0, max |-> MinutesPerHour - 1]
      [] name = "hour" -> [min |-> 0, max |-> HoursPerDay - 1]
      [] name = "dayOfMonth" -> [min |-> 1, max |-> LongestMonth]
      [] name = "month" -> [min |-> 1, max |-> Len(MonthLengths)]
      [] name = "dayOfWeek" -> [min |-> 0, max |-> DaysPerWeek]

Or(value, default) == IF value = None THEN default ELSE value

PartStart(part, def) == Or(part.first, def.min)
PartEnd(part, def) ==
    IF part.first = None THEN def.max ELSE Or(part.last, part.first)

(* An out-of-range bound or a zero step makes parseField throw. *)
PartValid(part, def) ==
    /\ Or(part.step, 1) >= 1
    /\ PartStart(part, def) \in def.min .. def.max
    /\ PartEnd(part, def) \in def.min .. def.max

(* The values of a range that wraps are start..max, then min..end, and the *)
(* step counts positions from the start.                                   *)
PartValues(part, def) ==
    LET start == PartStart(part, def)
        end == PartEnd(part, def)
        step == Or(part.step, 1)
        span == IF start <= end THEN end - start
                ELSE end - start + def.max - def.min + 1
        At(i) == IF start + i <= def.max THEN start + i
                 ELSE start + i - (def.max - def.min + 1)
    IN  {At(i) : i \in {k \in 0 .. span : k % step = 0}}

ParseField(parts, name) ==
    LET def == FieldDef(name)
        values == UNION {PartValues(p, def) : p \in parts}
    IN  IF name = "dayOfWeek" THEN {v % DaysPerWeek : v \in values} ELSE values

FieldNames == {"minute", "hour", "dayOfMonth", "month", "dayOfWeek"}

(* Whether parseCronExpression returns. *)
Parses(fields) ==
    \A name \in FieldNames : \A p \in fields[name] : PartValid(p, FieldDef(name))

ParseCronExpression(fields) ==
    [name \in FieldNames |-> ParseField(fields[name], name)]

(***************************************************************************)
(* The timezone, as Intl answers for it: an offset before and after one    *)
(* transition, which moves the clock by a day at most.  A wall clock is a  *)
(* minute count too, local = utc + offset.                                 *)
(***************************************************************************)
IsZone(zone) ==
    /\ {zone.before, zone.at, zone.after} \subseteq Int
    /\ zone.before - zone.after \in (0 - DayLength) .. DayLength
OffsetMs(zone, e) == IF e < zone.at THEN zone.before ELSE zone.after
Wall(zone, e) == e + OffsetMs(zone, e)

(* Mutant: a wall time the clock jumps over is taken for one that exists. *)
WallToEpoch_Once(zone, w) == w - OffsetMs(zone, w)

(* Two attempts at the offset; None for a wall time the clock jumps over. *)
WallToEpoch(zone, w) ==
    LET first == w - OffsetMs(zone, w)
        second == w - OffsetMs(zone, first)
    IN  IF Wall(zone, first) = w THEN first
        ELSE IF Wall(zone, second) = w THEN second ELSE None

(* The calendar date of a day number. *)
DaysBefore ==
    [m \in 1 .. (Len(MonthLengths) + 1) |-> MapThenSumSet(LAMBDA i : MonthLengths[i], 1 .. (m - 1))]
YearLength == DaysBefore[Len(MonthLengths) + 1]
MonthOf(n) ==
    CHOOSE m \in DOMAIN MonthLengths :
        DaysBefore[m] <= n % YearLength /\ n % YearLength < DaysBefore[m + 1]
DayOfMonth(n) == (n % YearLength) - DaysBefore[MonthOf(n)] + 1
Weekday(n) == n % DaysPerWeek

(***************************************************************************)
(* nextRunAfter.  A full day-of-month or day-of-week field leaves the      *)
(* choice of days to the other; two restricted fields match by either.     *)
(***************************************************************************)
DayMatches(schedule, n) ==
    LET domAll == Cardinality(schedule.dayOfMonth) = LongestMonth
        dowAll == Cardinality(schedule.dayOfWeek) = DaysPerWeek
        dom == DayOfMonth(n) \in schedule.dayOfMonth
        dow == Weekday(n) \in schedule.dayOfWeek
    IN  /\ MonthOf(n) \in schedule.month
        /\ IF domAll THEN dowAll \/ dow ELSE IF dowAll THEN dom ELSE dom \/ dow

TimesOf(schedule, n) ==
    IF DayMatches(schedule, n)
    THEN {n * DayLength + h * MinutesPerHour + m : h \in schedule.hour, m \in schedule.minute}
    ELSE {}

(* The wall times the scan of day n accepts; on the first day those up to the
   wall clock of `after` are passed over. *)
WallCandidates(schedule, n, after, zone) ==
    {w \in TimesOf(schedule, n) :
        /\ n = Wall(zone, after) \div DayLength => w > Wall(zone, after)
        /\ WallToEpoch(zone, w) # None
        /\ WallToEpoch(zone, w) > after}

(* The first accepted wall time of the first day that has one; None where the
   code throws because the window has none. *)
NextRunAfter(schedule, after, zone) ==
    LET first == Wall(zone, after) \div DayLength
        Accepted(n) == WallCandidates(schedule, n, after, zone)
        days == {n \in first .. (first + MaxDays - 1) : Accepted(n) # {}}
    IN  IF days = {} THEN None
        ELSE WallToEpoch(zone, Min(Accepted(Min(days))))
=============================================================================
