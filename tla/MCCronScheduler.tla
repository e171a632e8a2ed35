--------------------------- MODULE MCCronScheduler ---------------------------
(* Instances of CronScheduler for TLC: hours of two minutes, days of two hours,
   weeks of two days, a year of two months of three and of two days. *)
EXTENDS CronScheduler

Months == <<3, 2>>

Part(a, b, n) == [first |-> a, last |-> b, step |-> n]
Every == {Part(None, None, None)}

Fields(minute, hour, dom, month, dow) ==
    [minute |-> minute, hour |-> hour, dayOfMonth |-> dom, month |-> month, dayOfWeek |-> dow]

Utc == [before |-> 0, at |-> 0, after |-> 0]
Forward == [before |-> 0, at |-> 2, after |-> 2]  \* the clock skips an hour
Back == [before |-> 2, at |-> 3, after |-> 0]     \* and repeats one
BackWest == [before |-> 0, at |-> 3, after |-> -2]

EveryMinute == Fields(Every, Every, Every, Every, Every)
EveryOther == Fields({Part(None, None, 2)}, Every, Every, Every, Every)
SecondHour == Fields({Part(1, 0, 1)}, {Part(1, None, None)}, Every, Every, Every)
DayOrWeekday == Fields({Part(0, None, None)}, Every, {Part(2, None, None)}, Every, {Part(2, None, None)})
NeverMatches == Fields(Every, Every, {Part(3, None, None)}, {Part(2, None, None)}, Every)

File(fields, zone, missed, command, boot) ==
    [fields |-> fields, timezone |-> zone, missed |-> missed,
     command |-> command, runAtBoot |-> boot]

(* A frequent job behind a booting one, a prompt before a command, the changes of
   the clock, and a schedule that never matches before one that does. *)
Directories ==
    <<<<File(EveryMinute, Utc, "catchUp", TRUE, TRUE), File(EveryOther, Utc, "skip", TRUE, FALSE)>>,
     <<File(EveryOther, Utc, "skip", FALSE, FALSE), File(EveryOther, Back, "catchUp", TRUE, TRUE)>>,
     <<File(SecondHour, Forward, "catchUp", TRUE, FALSE), File(EveryMinute, BackWest, "catchUp", TRUE, FALSE)>>,
     <<File(DayOrWeekday, Utc, "catchUp", TRUE, FALSE), File(NeverMatches, Utc, "skip", FALSE, FALSE)>>,
     <<File(NeverMatches, Utc, "skip", TRUE, FALSE), File(EveryMinute, Utc, "catchUp", TRUE, FALSE)>>>>

(* One job whose minute is a single value with a step, `1/2`. *)
SteppedValue ==
    <<<<File(Fields({Part(1, None, 2)}, Every, Every, Every, Every), Utc, "catchUp", TRUE, FALSE)>>>>
=============================================================================
