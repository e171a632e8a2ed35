------------------------- MODULE CronSchedulerProofs -------------------------
(***************************************************************************)
(* Proofs about CronExpression and CronScheduler, for every calendar,      *)
(* every zone that is set forward or back by a day at most, every set of   *)
(* schedules, every cap and every bound: what nextRunAfter returns, what   *)
(* computeDueFires lists, and that the durable state of the jobs never     *)
(* loses, repeats or invents a run.                                        *)
(***************************************************************************)
EXTENDS CronScheduler, OrderProofs, SequenceTheorems

-----------------------------------------------------------------------------
(***************************************************************************)
(* Division, and the calendar day of a wall time.                          *)
(***************************************************************************)
LEMMA DivMod ==
    ASSUME NEW a \in Int, NEW b \in Nat \ {0}
    PROVE  /\ a \div b \in Int /\ a % b \in 0 .. (b - 1)
           /\ a = b * (a \div b) + (a % b)
  BY SMT

LEMMA DivUnique ==
    ASSUME NEW a \in Int, NEW b \in Nat \ {0}, NEW q \in Int, NEW r \in 0 .. (b - 1), a = b * q + r
    PROVE  a \div b = q /\ a % b = r
  <1> DEFINE p == a \div b
             t == a % b
  <1>1. p \in Int /\ t \in 0 .. (b - 1) /\ a = b * p + t
    BY DivMod
  <1> HIDE DEF p, t
  <1>2. b * (q - p) = t - r
    BY <1>1
  <1>3. t - r < b /\ r - t < b
    BY <1>1
  <1>4. q - p = 0
    <2>1. q - p \in Int
      BY <1>1
    <2>2. ASSUME q - p >= 1 PROVE FALSE
      <3>1. b * (q - p) >= b
        BY <2>1, <2>2
      <3> QED BY <1>1, <1>2, <1>3, <3>1
    <2>3. ASSUME q - p <= -1 PROVE FALSE
      <3>1. b * (q - p) <= 0 - b
        BY <2>1, <2>3
      <3> QED BY <1>1, <1>2, <1>3, <3>1
    <2> QED BY <2>1, <2>2, <2>3
  <1> QED BY <1>1, <1>2, <1>4 DEF p, t

LEMMA CalendarFacts ==
    /\ MinutesPerHour \in Nat \ {0} /\ HoursPerDay \in Nat \ {0} /\ MaxDays \in Nat \ {0}
    /\ DayLength \in Nat \ {0} /\ DayLength = MinutesPerHour * HoursPerDay /\ None \notin Int
  <1>1. MinutesPerHour \in Nat \ {0} /\ HoursPerDay \in Nat \ {0} /\ MaxDays \in Nat \ {0} /\ None \notin Int
    BY CalendarAssumption
  <1>2. MinutesPerHour * HoursPerDay \in Nat \ {0}
    BY <1>1
  <1> QED BY <1>1, <1>2 DEF DayLength

\* The hours and minutes of a schedule are hours and minutes of a day.
Fits(schedule) ==
    schedule.hour \subseteq 0 .. (HoursPerDay - 1) /\ schedule.minute \subseteq 0 .. (MinutesPerHour - 1)

\* A time of day n lies in day n and has an hour and a minute of the schedule.
LEMMA TimesAre ==
    ASSUME NEW schedule, Fits(schedule), NEW n \in Int, NEW w \in TimesOf(schedule, n)
    PROVE  /\ w \in Int /\ w \div DayLength = n /\ n * DayLength <= w /\ w < n * DayLength + DayLength
           /\ DayMatches(schedule, n)
           /\ (w % DayLength) \div MinutesPerHour \in schedule.hour
           /\ w % MinutesPerHour \in schedule.minute
  <1> DEFINE M == MinutesPerHour
             H == HoursPerDay
             D == DayLength
  <1>1. M \in Nat \ {0} /\ H \in Nat \ {0} /\ D \in Nat \ {0} /\ D = M * H
    BY CalendarFacts
  <1>2. PICK h \in schedule.hour, m \in schedule.minute : w = n * D + h * M + m
    BY DEF TimesOf
  <1>3. DayMatches(schedule, n)
    BY DEF TimesOf
  <1>4. h \in 0 .. (H - 1) /\ m \in 0 .. (M - 1)
    BY DEF Fits
  <1> HIDE DEF M, H, D
  <1>5. h * M + m \in 0 .. (D - 1)
    <2>1. h * M >= 0 /\ h * M <= (H - 1) * M
      BY <1>1, <1>4
    <2>2. (H - 1) * M = D - M
      BY <1>1
    <2> QED BY <1>1, <1>4, <2>1, <2>2
  <1>6. w = D * n + (h * M + m) /\ w \in Int
    BY <1>1, <1>2, <1>4
  <1>7. w \div D = n /\ w % D = h * M + m
    BY <1>1, <1>5, <1>6, DivUnique
  <1>8. (w % D) \div M = h
    <2>1. w % D = M * h + m /\ w % D \in Int
      BY <1>1, <1>4, <1>7
    <2> QED BY <1>1, <1>4, <2>1, DivUnique
  <1>9. w % M = m
    <2>1. w = M * (H * n + h) + m /\ H * n + h \in Int
      BY <1>1, <1>2, <1>4
    <2> QED BY <1>1, <1>4, <1>6, <2>1, DivUnique
  <1>10. n * D <= w /\ w < n * D + D
    BY <1>1, <1>4, <1>5, <1>6
  <1> QED BY <1>2, <1>3, <1>6, <1>7, <1>8, <1>9, <1>10 DEF M, H, D

\* And a wall time with such a day, hour and minute is one of its times.
LEMMA TimesHave ==
    ASSUME NEW schedule, NEW w \in Int, DayMatches(schedule, w \div DayLength),
           (w % DayLength) \div MinutesPerHour \in schedule.hour,
           w % MinutesPerHour \in schedule.minute
    PROVE  w \in TimesOf(schedule, w \div DayLength)
  <1> DEFINE M == MinutesPerHour
             H == HoursPerDay
             D == DayLength
             n == w \div D
             r == w % D
             h == r \div M
             m == r % M
  <1>1. M \in Nat \ {0} /\ H \in Nat \ {0} /\ D \in Nat \ {0} /\ D = M * H
    BY CalendarFacts
  <1>2. n \in Int /\ r \in 0 .. (D - 1) /\ w = D * n + r
    BY <1>1, DivMod
  <1>3. h \in Int /\ m \in 0 .. (M - 1) /\ r = M * h + m
    <2>1. r \in Int
      BY <1>1, <1>2
    <2> HIDE DEF r, M
    <2> QED BY <1>1, <2>1, DivMod
  <1>4. h \in schedule.hour /\ w % M \in schedule.minute /\ DayMatches(schedule, n)
    OBVIOUS
  <1> HIDE DEF M, H, D, n, r, h, m
  <1>5. w % M = m
    <2>1. w = M * (H * n + h) + m /\ H * n + h \in Int
      BY <1>1, <1>2, <1>3
    <2> QED BY <1>1, <1>3, <2>1, DivUnique
  <1>6. w = n * D + h * M + m
    BY <1>1, <1>2, <1>3
  <1>7. m \in schedule.minute
    BY <1>4, <1>5
  <1>8. w \in TimesOf(schedule, n)
    BY <1>4, <1>6, <1>7 DEF TimesOf, D, M
  <1> QED BY <1>8 DEF n, D

-----------------------------------------------------------------------------
(***************************************************************************)
(* A clock that is set once.  A wall time that does not come twice has one *)
(* epoch, wallToEpoch finds it, and it is in the right order with others.  *)
(***************************************************************************)
LEMMA ZoneFacts ==
    ASSUME NEW zone, IsZone(zone)
    PROVE  /\ zone.before \in Int /\ zone.at \in Int /\ zone.after \in Int
           /\ zone.before - zone.after <= DayLength /\ zone.after - zone.before <= DayLength
           /\ \A e \in Int : Wall(zone, e) \in Int /\ OffsetMs(zone, e) \in Int
  BY CalendarFacts DEF IsZone, Wall, OffsetMs

LEMMA EpochOfWall ==
    ASSUME NEW zone, IsZone(zone), NEW w \in Int, WallToEpoch(zone, w) # None
    PROVE  WallToEpoch(zone, w) \in Int /\ Wall(zone, WallToEpoch(zone, w)) = w
  <1>1. /\ w - OffsetMs(zone, w) \in Int
        /\ w - OffsetMs(zone, w - OffsetMs(zone, w)) \in Int
    BY ZoneFacts
  <1> QED BY <1>1 DEF WallToEpoch

LEMMA NotRepeated ==
    ASSUME NEW zone, IsZone(zone), NEW e \in Int, ~Repeated(zone, e),
           NEW f \in Int, Wall(zone, f) = Wall(zone, e)
    PROVE  f = e
  <1> DEFINE d == f - e
  <1>1. d \in (0 - DayLength) .. DayLength /\ e + d = f
    BY ZoneFacts, CalendarFacts DEF Wall, OffsetMs
  <1>2. d = 0
    BY <1>1 DEF Repeated
  <1> QED BY <1>2

LEMMA WallOfEpoch ==
    ASSUME NEW zone, IsZone(zone), NEW e \in Int, ~Repeated(zone, e)
    PROVE  WallToEpoch(zone, Wall(zone, e)) = e
  <1> DEFINE w == Wall(zone, e)
             first == w - OffsetMs(zone, w)
             second == w - OffsetMs(zone, first)
  <1>1. w \in Int /\ first \in Int /\ second \in Int
    BY ZoneFacts
  <1>2. CASE Wall(zone, first) = w
    BY <1>1, <1>2, NotRepeated DEF WallToEpoch
  <1>3. CASE Wall(zone, first) # w
    <2>1. OffsetMs(zone, first) # OffsetMs(zone, w)
      BY <1>1, <1>3, ZoneFacts DEF Wall
    <2>2. OffsetMs(zone, e) # OffsetMs(zone, w)
      <3>1. ASSUME OffsetMs(zone, e) = OffsetMs(zone, w) PROVE FALSE
        <4>1. first = e
          BY <3>1, ZoneFacts DEF Wall
        <4> QED BY <1>3, <4>1
      <3> QED BY <3>1
    <2>3. OffsetMs(zone, e) = OffsetMs(zone, first)
      BY <2>1, <2>2 DEF OffsetMs
    <2>4. second = e
      BY <2>3, ZoneFacts DEF Wall
    <2> QED BY <1>3, <2>4 DEF WallToEpoch
  <1> QED BY <1>2, <1>3

LEMMA WallOrder ==
    ASSUME NEW zone, IsZone(zone), NEW e \in Int, ~Repeated(zone, e), NEW f \in Int
    PROVE  /\ f < e => Wall(zone, f) < Wall(zone, e)
           /\ e < f => Wall(zone, e) < Wall(zone, f)
  <1> USE ZoneFacts, CalendarFacts DEF Wall, OffsetMs
  <1>1. ASSUME f < e, Wall(zone, f) >= Wall(zone, e) PROVE FALSE
    <2> DEFINE g == e - (zone.before - zone.after)
    <2>1. f < zone.at /\ zone.at <= e /\ zone.before > zone.after
      BY <1>1
    <2>2. g \in Int /\ g <= f /\ Wall(zone, g) = Wall(zone, e) /\ g # e
      BY <1>1, <2>1
    <2> QED BY <2>2, NotRepeated
  <1>2. ASSUME e < f, Wall(zone, e) >= Wall(zone, f) PROVE FALSE
    <2> DEFINE g == e + (zone.before - zone.after)
    <2>1. e < zone.at /\ zone.at <= f /\ zone.before > zone.after
      BY <1>2
    <2>2. g \in Int /\ g >= f /\ Wall(zone, g) = Wall(zone, e) /\ g # e
      BY <1>2, <2>1
    <2> QED BY <2>2, NotRepeated
  <1>3. Wall(zone, e) \in Int /\ Wall(zone, f) \in Int
    OBVIOUS
  <1> QED BY <1>1, <1>2, <1>3

-----------------------------------------------------------------------------
(***************************************************************************)
(* nextRunAfter.                                                           *)
(***************************************************************************)

\* What Min chooses from a set of integers with a lower bound.
LEMMA Smallest ==
    ASSUME NEW b \in Int, NEW S \in SUBSET Int, S # {}, \A x \in S : b <= x
    PROVE  Min(S) \in S /\ \A y \in S : Min(S) <= y
  <1> DEFINE T == {x - b : x \in S}
  <1>1. T \in SUBSET Nat /\ T # {}
    <2>1. \A x \in S : x - b \in Nat
      OBVIOUS
    <2> QED BY <2>1
  <1>2. PICK t \in T : \A y \in T : t <= y
    BY <1>1, Least
  <1>3. PICK x \in S : t = x - b
    OBVIOUS
  <1>4. \A y \in S : x <= y
    BY <1>2, <1>3
  <1> QED BY <1>4 DEF Min

\* A time of the schedule that comes once is among the candidates of its day.
LEMMA CandidateFound ==
    ASSUME NEW job, IsZone(job.timezone), NEW after \in Int, NEW e \in Int, after < e,
           Matching(job, e), ~Repeated(job.timezone, e)
    PROVE  LET w == Wall(job.timezone, e)
           IN  /\ w \in WallCandidates(job.parsed, w \div DayLength, after, job.timezone)
               /\ w \div DayLength >= Wall(job.timezone, after) \div DayLength
  <1> DEFINE zone == job.timezone
             w == Wall(zone, e)
             a == Wall(zone, after)
             D == DayLength
  <1>1. w \in Int /\ a \in Int /\ a < w /\ D \in Nat \ {0}
    BY ZoneFacts, WallOrder, CalendarFacts
  <1>2. WallToEpoch(zone, w) = e
    BY WallOfEpoch
  <1>3. w \in TimesOf(job.parsed, w \div D)
    <2> HIDE DEF w, D
    <2>1. DayMatches(job.parsed, w \div DayLength) /\ (w % DayLength) \div MinutesPerHour \in job.parsed.hour
          /\ w % MinutesPerHour \in job.parsed.minute
      BY DEF Matching, w
    <2> QED BY <1>1, <2>1, TimesHave DEF D
  <1>4. w \div D >= a \div D
    <2> HIDE DEF w, a, D
    <2> DEFINE p == w \div D
               q == a \div D
    <2>1. p \in Int /\ q \in Int /\ w - D * p \in 0 .. (D - 1) /\ a - D * q \in 0 .. (D - 1)
      <3>1. p \in Int /\ (w % D) \in 0 .. (D - 1) /\ w = D * p + (w % D)
        BY <1>1, DivMod
      <3>2. q \in Int /\ (a % D) \in 0 .. (D - 1) /\ a = D * q + (a % D)
        BY <1>1, DivMod
      <3> HIDE DEF p, q
      <3> QED BY <1>1, <3>1, <3>2
    <2> HIDE DEF p, q
    <2>2. ASSUME p <= q - 1 PROVE FALSE
      <3>1. D * p <= D * (q - 1)
        BY <1>1, <2>1, <2>2
      <3>2. D * (q - 1) = D * q - D
        BY <1>1, <2>1
      <3> QED BY <1>1, <2>1, <3>1, <3>2
    <2>3. p >= q
      BY <2>1, <2>2
    <2> QED BY <2>3 DEF p, q
  <1>5. w \in WallCandidates(job.parsed, w \div D, after, zone)
    <2>1. WallToEpoch(zone, w) # None /\ WallToEpoch(zone, w) > after /\ w > a
      BY <1>1, <1>2, CalendarFacts
    <2> QED BY <1>3, <2>1 DEF WallCandidates
  <1> QED BY <1>4, <1>5

\* nextRunAfter returns a time of the schedule that is later, passes over none
\* that comes once, and throws only if the days it scans have none.
LEMMA NextRunAfterFacts ==
    ASSUME NEW job, Fits(job.parsed), IsZone(job.timezone), NEW after \in Int
    PROVE  LET next == NextRunAfter(job.parsed, after, job.timezone)
               DayIn(e) == Wall(job.timezone, e) \div DayLength
           IN  /\ next = None => \A e \in Int :
                      /\ after < e /\ DayIn(e) < DayIn(after) + MaxDays
                      /\ Matching(job, e)
                      => Repeated(job.timezone, e)
               /\ next # None =>
                      /\ next \in Int /\ after < next /\ Matching(job, next)
                      /\ next <= after + (MaxDays + 1) * DayLength
                      /\ \A e \in (after + 1) .. (next - 1) :
                            Matching(job, e) => Repeated(job.timezone, e)
  <1> DEFINE zone == job.timezone
             next == NextRunAfter(job.parsed, after, zone)
             first == Wall(zone, after) \div DayLength
             Accepted(n) == WallCandidates(job.parsed, n, after, zone)
             days == {n \in first .. (first + MaxDays - 1) : Accepted(n) # {}}
  <1>1. Wall(zone, after) \in Int /\ DayLength \in Nat \ {0} /\ MaxDays \in Nat \ {0} /\ first \in Int
    <2>1. Wall(zone, after) \in Int /\ DayLength \in Nat \ {0} /\ MaxDays \in Nat \ {0}
      BY ZoneFacts, CalendarFacts
    <2> QED BY <2>1, DivMod
  <1>2. ASSUME NEW e \in Int, after < e, Matching(job, e), ~Repeated(zone, e),
               Wall(zone, e) \div DayLength < first + MaxDays
        PROVE  /\ Wall(zone, e) \div DayLength \in days
               /\ Wall(zone, e) \in Accepted(Wall(zone, e) \div DayLength)
    <2>1. Wall(zone, e) \in Int
      BY ZoneFacts
    <2>2. Wall(zone, e) \div DayLength \in Int
      BY <1>1, <2>1, DivMod
    <2>3. /\ Wall(zone, e) \in Accepted(Wall(zone, e) \div DayLength)
          /\ Wall(zone, e) \div DayLength >= first
      BY <1>2, CandidateFound
    <2> HIDE DEF first
    <2> QED BY <1>1, <1>2, <2>2, <2>3
  <1>3. next = IF days = {} THEN None ELSE WallToEpoch(zone, Min(Accepted(Min(days))))
    BY DEF NextRunAfter
  <1>4. \A n : \A w \in Accepted(n) : /\ w \in TimesOf(job.parsed, n)
                                      /\ WallToEpoch(zone, w) # None /\ WallToEpoch(zone, w) > after
    BY DEF WallCandidates
  <1> HIDE DEF first, Accepted, next
  <1>5. CASE days = {}
    <2>1. next = None
      BY <1>3, <1>5
    <2> QED BY <1>2, <1>5, <2>1 DEF next, first
  <1>6. CASE days # {}
    <2> DEFINE n == Min(days)
               w == Min(Accepted(n))
    <2>1. n \in days /\ \A m \in days : n <= m
      <3>1. days \in SUBSET Int /\ \A m \in days : first <= m
        BY <1>1
      <3> HIDE DEF days
      <3> QED BY <1>1, <1>6, <3>1, Smallest
    <2> HIDE DEF n
    <2>2. n \in Int /\ first <= n /\ n <= first + MaxDays - 1 /\ Accepted(n) # {}
      BY <1>1, <2>1
    <2> HIDE DEF days
    <2>3. w \in Accepted(n) /\ \A v \in Accepted(n) : w <= v
      <3>1. \A v \in Accepted(n) : v \in Int /\ n * DayLength <= v
        BY <1>4, <2>2, TimesAre
      <3>2. n * DayLength \in Int
        BY <1>1, <2>2
      <3> QED BY <2>2, <3>1, <3>2, Smallest
    <2> HIDE DEF w
    <2>4. w \in TimesOf(job.parsed, n) /\ WallToEpoch(zone, w) # None /\ WallToEpoch(zone, w) > after
      BY <1>4, <2>3
    <2>5. /\ w \in Int /\ w \div DayLength = n /\ n * DayLength <= w /\ w < n * DayLength + DayLength
          /\ DayMatches(job.parsed, n)
          /\ (w % DayLength) \div MinutesPerHour \in job.parsed.hour
          /\ w % MinutesPerHour \in job.parsed.minute
      BY <2>2, <2>4, TimesAre
    <2>6. next = WallToEpoch(zone, w)
      BY <1>3, <1>6 DEF w, n
    <2>7. next \in Int /\ Wall(zone, next) = w /\ after < next
      BY <2>4, <2>5, <2>6, EpochOfWall
    <2>8. Matching(job, next)
      BY <2>5, <2>7 DEF Matching
    <2>9. next <= after + (MaxDays + 1) * DayLength
      <3> DEFINE D == DayLength
                 q == Wall(zone, after)
      <3>1. D * first <= q
        <4>1. (q % D) \in 0 .. (D - 1) /\ q = D * (q \div D) + (q % D)
          BY <1>1, DivMod
        <4>2. first = q \div D
          BY DEF first
        <4> HIDE DEF q, D
        <4> QED BY <1>1, <4>1, <4>2 DEF D
      <3>2. n * D <= (first + MaxDays - 1) * D
        BY <1>1, <2>2
      <3>3. (first + MaxDays - 1) * D = D * first + MaxDays * D - D /\ (MaxDays + 1) * D = MaxDays * D + D
        BY <1>1
      <3>4. D * first \in Int /\ MaxDays * D \in Int /\ n * D \in Int
        BY <1>1, <2>2
      <3>5. w < q + MaxDays * D
        BY <1>1, <2>5, <3>1, <3>2, <3>3, <3>4
      <3>6. w - next - (q - after) <= D /\ (q - after) - (w - next) <= D
        BY <2>7, ZoneFacts, CalendarFacts DEF Wall, OffsetMs
      <3> HIDE DEF q, D
      <3>7. q \in Int /\ D \in Nat
        BY <1>1 DEF q, D
      <3>8. next < after + MaxDays * D + D
        BY <2>5, <2>7, <3>4, <3>5, <3>6, <3>7
      <3> QED BY <2>7, <3>3, <3>4, <3>7, <3>8 DEF D
    <2>10. ASSUME NEW e \in (after + 1) .. (next - 1), Matching(job, e), ~Repeated(zone, e)
           PROVE  FALSE
      <3> DEFINE v == Wall(zone, e)
                 m == v \div DayLength
      <3>1. e \in Int /\ after < e /\ e < next
        BY <2>7
      <3>2. v < w /\ v \in Int
        BY <2>7, <2>10, <3>1, WallOrder, ZoneFacts
      <3>3. m <= n /\ m \in Int
        <4> HIDE DEF v
        <4>1. m \in Int /\ v % DayLength \in 0 .. (DayLength - 1) /\ v = DayLength * m + (v % DayLength)
          BY <1>1, <3>2, DivMod
        <4> HIDE DEF m
        <4>2. ASSUME m >= n + 1 PROVE FALSE
          <5>1. DayLength * m >= DayLength * (n + 1)
            BY <1>1, <2>2, <4>1, <4>2
          <5>2. DayLength * (n + 1) = n * DayLength + DayLength
            BY <1>1, <2>2
          <5>3. DayLength * m \in Int /\ n * DayLength \in Int
            BY <1>1, <2>2, <4>1
          <5> QED BY <1>1, <2>5, <3>2, <4>1, <5>1, <5>2, <5>3
        <4> QED BY <2>2, <4>1, <4>2
      <3>4. m < first + MaxDays
        <4> HIDE DEF m
        <4> QED BY <1>1, <2>2, <3>3
      <3>5. m \in days /\ v \in Accepted(m)
        BY <1>2, <2>10, <3>1, <3>4
      <3>6. m = n
        <4> HIDE DEF m
        <4> QED BY <2>1, <2>2, <3>3, <3>5
      <3>7. w <= v
        BY <2>3, <3>5, <3>6
      <3> HIDE DEF v
      <3> QED BY <2>5, <3>2, <3>7
    <2>11. next # None
      BY <2>7, CalendarFacts
    <2> QED BY <2>7, <2>8, <2>9, <2>10, <2>11 DEF next
  <1> QED BY <1>5, <1>6

-----------------------------------------------------------------------------
(***************************************************************************)
(* What loadSchedules hands to the tick.                                   *)
(***************************************************************************)

\* The values of a part are within the bounds of its field.
LEMMA PartWithin ==
    ASSUME NEW part, NEW lo \in Int, NEW hi \in Int, PartValid(part, [min |-> lo, max |-> hi])
    PROVE  PartValues(part, [min |-> lo, max |-> hi]) \subseteq lo .. hi
  <1> DEFINE def == [min |-> lo, max |-> hi]
             start == PartStart(part, def)
             end == PartEnd(part, def)
             step == Or(part.step, 1)
             span == IF start <= end THEN end - start ELSE end - start + hi - lo + 1
             At(i) == IF start + i <= hi THEN start + i ELSE start + i - (hi - lo + 1)
  <1>1. start \in lo .. hi /\ end \in lo .. hi
    BY DEF PartValid
  <1>2. PartValues(part, def) = {At(i) : i \in {k \in 0 .. span : k % step = 0}}
    BY DEF PartValues
  <1> HIDE DEF start, end, step
  <1>3. \A i \in 0 .. span : At(i) \in lo .. hi
    BY <1>1
  <1> QED BY <1>2, <1>3

LEMMA LoadedFits ==
    ASSUME NEW s \in DOMAIN Setups, NEW j \in Job
    PROVE  Fits(Loaded[s][j].parsed) /\ IsZone(Loaded[s][j].timezone)
  <1> DEFINE content == Setups[s][j]
             parsed == Loaded[s][j].parsed
  <1>1. Parses(content.fields) /\ IsZone(content.timezone)
    BY CronAssumption DEF Job
  <1>2. Loaded[s][j].timezone = content.timezone /\ parsed = ParseCronExpression(content.fields)
    BY DEF Loaded, LoadSchedules
  <1>3. ASSUME NEW hi \in Int, NEW name \in {"minute", "hour"}, FieldDef(name) = [min |-> 0, max |-> hi]
        PROVE  parsed[name] \subseteq 0 .. hi
    <2>1. name \in FieldNames /\ name # "dayOfWeek"
      BY DEF FieldNames
    <2>2. parsed[name] = ParseField(content.fields[name], name)
      BY <1>2, <2>1 DEF ParseCronExpression
    <2>3. parsed[name] = UNION {PartValues(p, FieldDef(name)) : p \in content.fields[name]}
      BY <2>1, <2>2 DEF ParseField
    <2>4. \A p \in content.fields[name] : PartValid(p, FieldDef(name))
      BY <1>1, <2>1 DEF Parses
    <2>5. \A p \in content.fields[name] : PartValues(p, FieldDef(name)) \subseteq 0 .. hi
      BY <1>3, <2>4, PartWithin
    <2> QED BY <2>3, <2>5
  <1>4. /\ FieldDef("minute") = [min |-> 0, max |-> MinutesPerHour - 1]
        /\ FieldDef("hour") = [min |-> 0, max |-> HoursPerDay - 1]
    BY DEF FieldDef
  <1>5. MinutesPerHour - 1 \in Int /\ HoursPerDay - 1 \in Int
    BY CalendarFacts
  <1>6. parsed["minute"] \subseteq 0 .. (MinutesPerHour - 1) /\ parsed["hour"] \subseteq 0 .. (HoursPerDay - 1)
    BY <1>3, <1>4, <1>5
  <1> QED BY <1>1, <1>2, <1>6 DEF Fits

\* The gap between two times of a job: no boundary is strictly between them.
Gap(j, a, b) == \A e \in (a + 1) .. (b - 1) : ~Boundary(j, e)

LEMMA HorizonFacts ==
    /\ MaxTime \in Nat /\ (MaxDays + 1) * DayLength \in Nat /\ Horizon \in Nat
    /\ Horizon = MaxTime + (MaxDays + 1) * DayLength
    /\ Jobs \in Nat /\ CatchUpCap \in Nat \ {0}
  <1>1. MaxTime \in Nat /\ Jobs \in Nat /\ CatchUpCap \in Nat \ {0}
    BY CronAssumption
  <1>2. (MaxDays + 1) * DayLength \in Nat
    BY CalendarFacts
  <1> QED BY <1>1, <1>2 DEF Horizon

LEMMA NextRunFacts ==
    ASSUME setup \in DOMAIN Setups, NEW j \in Job, NEW t \in Minute
    PROVE  /\ NextRun(j, t) = None =>
                \A e \in (t + 1) .. Horizon : DayOf(j, e) < DayOf(j, t) + MaxDays => ~Boundary(j, e)
           /\ NextRun(j, t) # None =>
                /\ NextRun(j, t) \in Int /\ t < NextRun(j, t)
                /\ Matches(j, NextRun(j, t)) /\ Gap(j, t, NextRun(j, t))
  <1> DEFINE job == Loaded[setup][j]
             next == NextRun(j, t)
  <1>1. Fits(job.parsed) /\ IsZone(job.timezone)
    BY LoadedFits
  <1>2. t \in Int /\ 0 <= t /\ t <= MaxTime
    BY HorizonFacts DEF Minute
  <1>3. next = NextRunAfter(job.parsed, t, job.timezone)
    BY DEF NextRun, NextRuns
  <1>4. \A e : Matches(j, e) <=> e \in 0 .. Horizon /\ Matching(job, e)
    BY DEF Matches, OnSchedule
  <1>5. \A e : Boundary(j, e) <=> Matches(j, e) /\ ~Repeated(job.timezone, e)
    BY DEF Boundary, Boundaries, Matches
  <1>6. \A e : DayOf(j, e) = Wall(job.timezone, e) \div DayLength
    BY DEF DayOf, CronJob
  <1> HIDE DEF job, next
  <1>7. /\ next = None => \A e \in Int :
               t < e /\ Wall(job.timezone, e) \div DayLength < Wall(job.timezone, t) \div DayLength + MaxDays
               /\ Matching(job, e) => Repeated(job.timezone, e)
        /\ next # None =>
               /\ next \in Int /\ t < next /\ Matching(job, next)
               /\ next <= t + (MaxDays + 1) * DayLength
               /\ \A e \in (t + 1) .. (next - 1) : Matching(job, e) => Repeated(job.timezone, e)
    BY <1>1, <1>2, <1>3, NextRunAfterFacts
  <1>8. ASSUME next = None, NEW e \in (t + 1) .. Horizon, DayOf(j, e) < DayOf(j, t) + MaxDays, Boundary(j, e)
        PROVE  FALSE
    <2>1. e \in Int /\ t < e
      BY <1>2, HorizonFacts
    <2> QED BY <1>4, <1>5, <1>6, <1>7, <1>8, <2>1
  <1>9. ASSUME next # None
        PROVE  next \in Int /\ t < next /\ Matches(j, next) /\ Gap(j, t, next)
    <2>1. next \in 0 .. Horizon
      <3> DEFINE X == (MaxDays + 1) * DayLength
      <3>1. X \in Nat /\ Horizon = MaxTime + X /\ MaxTime \in Nat
        BY HorizonFacts
      <3>2. next \in Int /\ t < next /\ next <= t + X
        BY <1>7, <1>9
      <3> HIDE DEF X
      <3> QED BY <1>2, <3>1, <3>2
    <2>2. Matches(j, next)
      BY <1>4, <1>7, <1>9, <2>1
    <2>3. Gap(j, t, next)
      BY <1>4, <1>5, <1>7, <1>9 DEF Gap
    <2> QED BY <1>7, <1>9, <2>2, <2>3
  <1> QED BY <1>8, <1>9 DEF next

-----------------------------------------------------------------------------
(***************************************************************************)
(* The loop of computeDueFires.  From `base` on each fire is what          *)
(* nextRunAfter returns for the one before, so no boundary is passed over. *)
(***************************************************************************)

\* The time the loop is at before it comes to the i-th fire.
Cursor(base, fires, i) == IF i = 1 THEN base ELSE fires[i - 1]

LEMMA FiresAfterFacts ==
    ASSUME setup \in DOMAIN Setups, NEW j \in Job, NEW base \in Minute, NEW now \in Minute
    PROVE  LET f == FiresAfter(j, base, now)
               last == Cursor(base, f, Len(f) + 1)
           IN  /\ f \in Seq(Minute)
               /\ \A i \in 1 .. Len(f) : base < f[i] /\ f[i] <= now /\ Matches(j, f[i])
               /\ \A i, k \in 1 .. Len(f) : i < k => f[i] < f[k]
               /\ \A i \in 1 .. Len(f) : Gap(j, Cursor(base, f, i), f[i])
               /\ NextRun(j, last) # None => Gap(j, last, now + 1)
  <1> DEFINE window == (base + 1) .. now
             Closed(S) == \A t \in {base} \cup S : NextRun(j, t) \in window => NextRun(j, t) \in S
             F == {t \in window : \A S \in SUBSET window : Closed(S) => t \in S}
             f == FiresAfter(j, base, now)
             last == Cursor(base, f, Len(f) + 1)
  <1>1. base \in Int /\ now \in Int /\ 0 <= base /\ now <= MaxTime /\ MaxTime \in Nat
    BY HorizonFacts DEF Minute
  <1>2. window \subseteq Minute /\ F \subseteq window
    BY <1>1 DEF Minute
  <1>3. f = Ascending(F)
    BY DEF FiresAfter
  <1>4. F \in SUBSET (0 .. MaxTime)
    BY <1>2 DEF Minute
  <1>5. /\ f \in Seq(F)
        /\ \A i \in 1 .. Len(f) : f[i] \in F
        /\ \A i, k \in 1 .. Len(f) : i < k => f[i] < f[k]
        /\ \A x \in F : \E i \in 1 .. Len(f) : f[i] = x
    <2> HIDE DEF F, f
    <2> QED BY <1>1, <1>3, <1>4, AscendingReaches
  <1>6. Closed(F)
    <2>1. ASSUME NEW t \in {base} \cup F, NextRun(j, t) \in window,
                 NEW S \in SUBSET window, Closed(S)
          PROVE  NextRun(j, t) \in S
      <3>1. t \in {base} \cup S
        BY <2>1
      <3> QED BY <2>1, <3>1
    <2> QED BY <2>1
  <1>7. ASSUME NEW t \in F PROVE \E s \in {base} \cup F : NextRun(j, s) = t
    <2>1. SUFFICES ASSUME \A s \in {base} \cup F : NextRun(j, s) # t PROVE FALSE
      OBVIOUS
    <2> DEFINE R == F \ {t}
    <2>2. Closed(R)
      <3>1. \A s \in {base} \cup R : NextRun(j, s) \in window => NextRun(j, s) \in F /\ NextRun(j, s) # t
        BY <1>6, <2>1
      <3> QED BY <3>1
    <2>3. R \in SUBSET window
      BY <1>2
    <2>4. t \in R
      <3> HIDE DEF R, Closed
      <3> QED BY <2>2, <2>3
    <2> QED BY <2>4
  <1> HIDE DEF F, f, Closed
  <1>8. \A t \in F : t \in Minute /\ base < t /\ t <= now /\ t \in Int
    BY <1>1, <1>2 DEF Minute
  <1>9. \A s \in {base} \cup F : s \in Minute /\ s \in Int
    BY <1>1, <1>8
  <1>10. Len(f) \in Nat /\ f \in Seq(Minute)
    <2>1. \A i \in 1 .. Len(f) : f[i] \in Minute
      BY <1>5, <1>8
    <2> QED BY <1>5, <2>1, SeqDef
  <1>11. ASSUME NEW i \in 1 .. Len(f)
         PROVE  Matches(j, f[i]) /\ Gap(j, Cursor(base, f, i), f[i])
    <2>1. PICK s \in {base} \cup F : NextRun(j, s) = f[i]
      BY <1>5, <1>7
    <2>2. f[i] \in Int /\ s \in Minute /\ s \in Int /\ base < f[i]
      BY <1>5, <1>8, <1>9
    <2>3. s < f[i] /\ Matches(j, f[i]) /\ Gap(j, s, f[i])
      BY <2>1, <2>2, CalendarFacts, NextRunFacts
    <2>4. Cursor(base, f, i) \in Int /\ s <= Cursor(base, f, i)
      <3>1. CASE i = 1
        <4>1. Cursor(base, f, i) = base
          BY <3>1 DEF Cursor
        <4>2. ASSUME s # base PROVE FALSE
          <5>1. PICK k \in 1 .. Len(f) : f[k] = s
            BY <1>5, <4>2
          <5>2. k = 1 \/ 1 < k
            BY <1>10
          <5>3. s = f[1] \/ f[1] < s
            BY <1>5, <1>10, <3>1, <5>1, <5>2
          <5> QED BY <2>2, <2>3, <3>1, <5>3
        <4> QED BY <1>1, <4>1, <4>2
      <3>2. CASE i # 1
        <4>1. i - 1 \in 1 .. Len(f) /\ Cursor(base, f, i) = f[i - 1] /\ f[i - 1] \in F
          BY <1>5, <1>10, <3>2 DEF Cursor
        <4>2. f[i - 1] \in Int /\ base < f[i - 1]
          BY <1>8, <4>1
        <4>3. CASE s = base
          BY <1>1, <4>1, <4>2, <4>3
        <4>4. CASE s # base
          <5>1. PICK k \in 1 .. Len(f) : f[k] = s
            BY <1>5, <4>4
          <5>2. ASSUME i <= k PROVE FALSE
            <6>1. f[k] = f[i] \/ f[i] < f[k]
              BY <1>5, <1>10, <5>2
            <6> QED BY <2>2, <2>3, <5>1, <6>1
          <5>3. k = i - 1 \/ k < i - 1
            BY <1>10, <4>1, <5>2
          <5>4. f[k] = f[i - 1] \/ f[k] < f[i - 1]
            BY <1>5, <4>1, <5>3
          <5> QED BY <2>2, <4>1, <4>2, <5>1, <5>4
        <4> QED BY <4>3, <4>4
      <3> QED BY <3>1, <3>2
    <2>5. Gap(j, Cursor(base, f, i), f[i])
      <3> DEFINE c == Cursor(base, f, i)
      <3> HIDE DEF c
      <3>1. c \in Int /\ s <= c
        BY <2>4 DEF c
      <3>2. \A e \in (c + 1) .. (f[i] - 1) : e \in (s + 1) .. (f[i] - 1)
        BY <2>2, <3>1
      <3>3. Gap(j, c, f[i])
        BY <2>3, <3>2 DEF Gap
      <3> QED BY <3>3 DEF c
    <2> QED BY <2>3, <2>5
  <1>12. ASSUME NextRun(j, last) # None PROVE Gap(j, last, now + 1)
    <2>1. last \in {base} \cup F /\ \A t \in F : t <= last
      <3>1. CASE Len(f) = 0
        <4>1. last = base
          BY <3>1 DEF Cursor
        <4>2. F = {}
          BY <1>5, <3>1
        <4> QED BY <4>1, <4>2
      <3>2. CASE Len(f) # 0
        <4>1. Len(f) \in 1 .. Len(f) /\ last = f[Len(f)] /\ f[Len(f)] \in F
          BY <1>5, <1>10, <3>2 DEF Cursor
        <4>2. ASSUME NEW t \in F PROVE t <= f[Len(f)]
          <5>1. PICK k \in 1 .. Len(f) : f[k] = t
            BY <1>5
          <5>2. k = Len(f) \/ k < Len(f)
            BY <1>10
          <5>3. f[k] = f[Len(f)] \/ f[k] < f[Len(f)]
            BY <1>5, <4>1, <5>2
          <5> QED BY <1>8, <4>1, <5>1, <5>3
        <4> QED BY <4>1, <4>2
      <3> QED BY <3>1, <3>2
    <2> HIDE DEF last
    <2>2. last \in Minute /\ last \in Int /\ base <= last
      BY <1>1, <1>8, <1>9, <2>1
    <2>3. NextRun(j, last) \in Int /\ last < NextRun(j, last) /\ Gap(j, last, NextRun(j, last))
      BY <1>12, <2>2, NextRunFacts
    <2>4. NextRun(j, last) \notin F
      <3>1. ASSUME NextRun(j, last) \in F PROVE FALSE
        <4>1. NextRun(j, last) <= last
          BY <2>1, <3>1
        <4> QED BY <2>2, <2>3, <4>1
      <3> QED BY <3>1
    <2>5. NextRun(j, last) \notin window
      BY <1>6, <2>1, <2>4 DEF Closed
    <2>6. now < NextRun(j, last)
      BY <1>1, <2>2, <2>3, <2>5
    <2>7. \A e \in (last + 1) .. ((now + 1) - 1) : e \in (last + 1) .. (NextRun(j, last) - 1)
      BY <1>1, <2>2, <2>3, <2>6
    <2> QED BY <2>3, <2>7 DEF Gap
  <1>13. \A i \in 1 .. Len(f) : base < f[i] /\ f[i] <= now
    BY <1>5, <1>8
  <1> QED BY <1>5, <1>10, <1>11, <1>12, <1>13 DEF f

-----------------------------------------------------------------------------
(***************************************************************************)
(* The inductive invariant.                                                *)
(***************************************************************************)

\* No boundary of job j in directory s lies strictly between a and b.
Clear(s, j, a, b) == \A e \in (a + 1) .. (b - 1) : e \notin Boundaries[s][j]

\* The fires job j of directory s has ahead of it in the tick that looked at
\* `now`: they are on the schedule, later than `base` and in order.  In catchUp mode
\* no boundary is passed over on the way to any of them; in skip mode there is one
\* at most and no boundary comes after it.
Chain(s, j, base, fires, now) ==
    /\ fires \in Seq(Minute)
    /\ \A i \in 1 .. Len(fires) : fires[i] \in OnSchedule[s][j] /\ base < fires[i] /\ fires[i] <= now
    /\ \A i, k \in 1 .. Len(fires) : i < k => fires[i] < fires[k]
    /\ Loaded[s][j].missed # "skip" =>
          \A i \in 1 .. Len(fires) : Clear(s, j, Cursor(base, fires, i), fires[i])
    /\ Loaded[s][j].missed = "skip" =>
          Len(fires) <= 1 /\ \A i \in 1 .. Len(fires) : Clear(s, j, fires[i], now + 1)

\* The fire being run and those that wait for it.
Pending == IF run = None THEN tick.due ELSE <<run.at>> \o tick.due

\* The shape of a tick: who runs in which phase, and what is left of the queue.
TickShape ==
    /\ tick.phase \in {"boot", "jobs", "due"} => tick.queue # <<>>
    /\ tick.phase # "due" => tick.due = <<>>
    /\ run # None => /\ tick.phase = IF run.boot THEN "boot" ELSE "due"
                     /\ ~run.boot => run.job = Head(tick.queue)
    /\ proc = "down" => run = None /\ tick = Idle

\* A run that is about to be recorded has its output.
OutputFirst ==
    (run # None /\ run.stage = "record") => ~run.boot /\ run.at \in outputs[run.job]

\* Nothing is recorded before the first anchor, and no last-run.json is before its own.
Anchored ==
    \A j \in Job : IF lastRun[j] = None THEN log[j] = <<>>
                   ELSE anchor[j] # None /\ anchor[j] <= lastRun[j]

\* What is pending continues what is recorded.
Continues ==
    tick.phase = "due" =>
        /\ lastRun[Head(tick.queue)] # None
        /\ Chain(setup, Head(tick.queue), lastRun[Head(tick.queue)], Pending, tick.at)

\* No last-run.json is ahead of the clock, nor of the tick that is under way.
NotAhead(last, t) == \A j \in Job : last[j] # None => last[j] <= t
Timely ==
    /\ NotAhead(lastRun, clock)
    /\ tick.phase \in {"boot", "jobs", "due"} => tick.at <= clock /\ NotAhead(lastRun, tick.at)

CronInv ==
    /\ TypeOK /\ TickShape /\ OutputKept /\ OutputFirst
    /\ Anchored /\ CaughtUp /\ Continues /\ Timely

-----------------------------------------------------------------------------
(* computeDueFires lists such a chain, no longer than the cap. *)
LEMMA DueFires ==
    ASSUME setup \in DOMAIN Setups, NEW j \in Job, lastRun[j] \in Minute,
           NEW now \in Minute, ~NeverAgain(j, now)
    PROVE  /\ Chain(setup, j, lastRun[j], ComputeDueFires(j, now), now)
           /\ Len(ComputeDueFires(j, now)) <= CatchUpCap
  <1> DEFINE base == lastRun[j]
             f == FiresAfter(j, base, now)
             n == Len(f)
             g == ComputeDueFires(j, now)
             last == Cursor(base, f, n + 1)
             job == Loaded[setup][j]
  <1>1. /\ f \in Seq(Minute)
        /\ \A i \in 1 .. n : base < f[i] /\ f[i] <= now /\ Matches(j, f[i])
        /\ \A i, k \in 1 .. n : i < k => f[i] < f[k]
        /\ \A i \in 1 .. n : Gap(j, Cursor(base, f, i), f[i])
        /\ NextRun(j, last) # None => Gap(j, last, now + 1)
    BY FiresAfterFacts
  <1>2. n \in Nat /\ \A i \in 1 .. n : f[i] \in Minute
    BY <1>1
  <1>3. CatchUpCap \in Nat \ {0}
    BY HorizonFacts
  <1>4. /\ \A e : Matches(j, e) <=> e \in OnSchedule[setup][j]
        /\ \A a, b : Gap(j, a, b) <=> Clear(setup, j, a, b)
    BY DEF Matches, Gap, Clear, Boundary
  <1>5. g = IF job.missed = "skip" THEN SubSeq(f, Max({1, n}), n)
            ELSE SubSeq(f, 1, Min({CatchUpCap, n}))
    BY DEF ComputeDueFires, CronJob
  <1>6. /\ NextRun(j, base) # None
        /\ \A i \in 1 .. n : job.missed = "skip" \/ i < CatchUpCap => NextRun(j, f[i]) # None
    <2>1. DOMAIN f = 1 .. n
      BY <1>1
    <2> QED BY <2>1 DEF NeverAgain, CronJob
  <1> HIDE DEF f, n, g, job, base
  <1>7. CASE job.missed = "skip"
    <2>1. CASE n = 0
      <3>1. Max({1, n}) = 1
        BY <2>1 DEF Max
      <3>2. g = <<>>
        BY <1>5, <1>7, <2>1, <3>1, SubSeqEmpty
      <3>3. Len(g) = 0 /\ g \in Seq(Minute)
        BY <3>2
      <3>4. Chain(setup, j, base, g, now)
        BY <1>7, <3>3 DEF Chain, job
      <3> QED BY <1>3, <3>3, <3>4 DEF base, g
    <2>2. CASE n # 0
      <3>1. Max({1, n}) = n
        BY <1>2, <2>2 DEF Max
      <3>2. n \in 1 .. n /\ last = f[n]
        BY <1>2, <2>2 DEF Cursor
      <3>3. \A i \in n .. n : f[i] \in Minute
        BY <1>2, <3>2
      <3>4. g = SubSeq(f, n, n)
        BY <1>5, <1>7, <3>1
      <3>5. g \in Seq(Minute) /\ Len(g) = 1 /\ g[1] = f[n]
        <4>1. n \in Int /\ n <= n /\ (n - n) + 1 = 1 /\ (n + 1) - 1 = n
          BY <1>2
        <4>2. /\ SubSeq(f, n, n) \in Seq(Minute)
              /\ Len(SubSeq(f, n, n)) = IF n <= n THEN n - n + 1 ELSE 0
              /\ \A i \in 1 .. n - n + 1 : SubSeq(f, n, n)[i] = f[n + i - 1]
          BY <3>3, <4>1, SubSeqProperties
        <4> QED BY <1>2, <3>4, <4>1, <4>2
      <3>6. Gap(j, f[n], now + 1)
        BY <1>1, <1>6, <1>7, <3>2
      <3>7. /\ \A i \in 1 .. Len(g) : i = 1
            /\ Clear(setup, j, g[1], now + 1)
            /\ g[1] \in OnSchedule[setup][j] /\ base < g[1] /\ g[1] <= now
        BY <1>1, <1>4, <3>2, <3>5, <3>6
      <3>8. Chain(setup, j, base, g, now)
        BY <1>7, <3>5, <3>7 DEF Chain, job
      <3> QED BY <1>3, <3>5, <3>8 DEF base, g
    <2> QED BY <2>1, <2>2
  <1>8. CASE job.missed # "skip"
    <2> DEFINE m == Min({CatchUpCap, n})
    <2>1. m \in 0 .. n /\ m <= CatchUpCap
      BY <1>2, <1>3 DEF Min
    <2> HIDE DEF m
    <2>2. g = SubSeq(f, 1, m)
      BY <1>5, <1>8 DEF m
    <2>3. \A i \in 1 .. m : f[i] \in Minute /\ i \in 1 .. n
      BY <1>2, <2>1
    <2>4. g \in Seq(Minute) /\ Len(g) = m /\ \A i \in 1 .. m : g[i] = f[i]
      <3>1. m \in Int /\ (m - 1) + 1 = m /\ \A i \in 1 .. m : (1 + i) - 1 = i
        BY <1>2, <2>1
      <3>2. /\ SubSeq(f, 1, m) \in Seq(Minute)
            /\ Len(SubSeq(f, 1, m)) = IF 1 <= m THEN m - 1 + 1 ELSE 0
            /\ \A i \in 1 .. m - 1 + 1 : SubSeq(f, 1, m)[i] = f[1 + i - 1]
        BY <2>3, <3>1, SubSeqProperties
      <3> QED BY <1>2, <2>1, <2>2, <3>1, <3>2
    <2>5. \A i \in 1 .. m : Cursor(base, g, i) = Cursor(base, f, i)
      <3>1. \A i \in 1 .. m : i # 1 => i - 1 \in 1 .. m
        BY <1>2, <2>1
      <3> QED BY <2>4, <3>1 DEF Cursor
    <2>6. \A i \in 1 .. m : g[i] \in OnSchedule[setup][j] /\ base < g[i] /\ g[i] <= now
      BY <1>1, <1>4, <2>3, <2>4
    <2>7. \A i, k \in 1 .. m : i < k => g[i] < g[k]
      BY <1>1, <2>3, <2>4
    <2>8. \A i \in 1 .. m : Clear(setup, j, Cursor(base, g, i), g[i])
      BY <1>1, <1>4, <2>3, <2>4, <2>5
    <2>9. Chain(setup, j, base, g, now)
      BY <1>8, <2>4, <2>6, <2>7, <2>8 DEF Chain, job
    <2> QED BY <2>1, <2>4, <2>9 DEF base, g
  <1> QED BY <1>7, <1>8

\* The first fire of a chain, and what is left of it once that one is recorded.
LEMMA ChainTail ==
    ASSUME NEW s, NEW j, NEW base \in Minute, NEW x \in Minute, NEW due \in Seq(Minute),
           NEW now \in Minute, Chain(s, j, base, <<x>> \o due, now)
    PROVE  /\ x \in OnSchedule[s][j] /\ base < x /\ x <= now
           /\ Loaded[s][j].missed # "skip" => Clear(s, j, base, x)
           /\ Loaded[s][j].missed = "skip" => due = <<>> /\ Clear(s, j, x, now + 1)
           /\ Chain(s, j, x, due, now)
  <1> DEFINE f == <<x>> \o due
  <1>1. /\ f \in Seq(Minute) /\ Len(f) = Len(due) + 1 /\ Len(due) \in Nat
        /\ f[1] = x /\ \A i \in 1 .. Len(due) : f[i + 1] = due[i]
    <2>1. <<x>> \in Seq(Minute) /\ Len(<<x>>) = 1 /\ <<x>>[1] = x
      OBVIOUS
    <2>2. Len(due) \in Nat
      OBVIOUS
    <2>3. /\ f \in Seq(Minute) /\ Len(f) = 1 + Len(due)
          /\ \A i \in 1 .. 1 + Len(due) : f[i] = IF i <= 1 THEN <<x>>[i] ELSE due[i - 1]
      BY <2>1, ConcatProperties
    <2>4. \A i \in 1 .. Len(due) : i + 1 \in 1 .. 1 + Len(due) /\ ~(i + 1 <= 1) /\ (i + 1) - 1 = i
      BY <2>2
    <2> HIDE DEF f
    <2> QED BY <2>1, <2>2, <2>3, <2>4
  <1>2. Chain(s, j, base, f, now)
    OBVIOUS
  <1> HIDE DEF f
  <1>3. /\ 1 \in 1 .. Len(f)
        /\ \A i \in 1 .. Len(due) : i + 1 \in 1 .. Len(f) /\ 1 < i + 1
    BY <1>1
  <1>4. x \in OnSchedule[s][j] /\ base < x /\ x <= now
    BY <1>1, <1>2, <1>3 DEF Chain
  <1>5. ASSUME Loaded[s][j].missed # "skip"
        PROVE  Clear(s, j, base, x) /\ \A i \in 1 .. Len(due) : Clear(s, j, Cursor(x, due, i), due[i])
    <2>1. \A i \in 1 .. Len(f) : Clear(s, j, Cursor(base, f, i), f[i])
      BY <1>2, <1>5 DEF Chain
    <2>2. Cursor(base, f, 1) = base
      BY DEF Cursor
    <2>3. \A i \in 1 .. Len(due) : Cursor(base, f, i + 1) = Cursor(x, due, i)
      <3>1. \A i \in 1 .. Len(due) : i + 1 # 1 /\ (i + 1) - 1 = i
        BY <1>1
      <3>2. \A i \in 1 .. Len(due) : Cursor(base, f, i + 1) = f[i]
        BY <3>1 DEF Cursor
      <3>3. \A i \in 1 .. Len(due) : i # 1 => i - 1 \in 1 .. Len(due) /\ (i - 1) + 1 = i
        BY <1>1
      <3>4. \A i \in 1 .. Len(due) : f[i] = IF i = 1 THEN x ELSE due[i - 1]
        BY <1>1, <3>3
      <3> QED BY <3>2, <3>4 DEF Cursor
    <2> QED BY <1>1, <1>3, <2>1, <2>2, <2>3
  <1>6. ASSUME Loaded[s][j].missed = "skip"
        PROVE  Len(due) = 0 /\ due = <<>> /\ Clear(s, j, x, now + 1)
    <2>1. Len(f) <= 1 /\ \A i \in 1 .. Len(f) : Clear(s, j, f[i], now + 1)
      BY <1>2, <1>6 DEF Chain
    <2>2. Len(due) = 0
      BY <1>1, <2>1
    <2>3. due = <<>>
      BY <2>2
    <2> QED BY <1>1, <1>3, <2>1, <2>2, <2>3
  <1>7. \A i \in 1 .. Len(due) : due[i] \in OnSchedule[s][j] /\ x < due[i] /\ due[i] <= now
    BY <1>1, <1>2, <1>3 DEF Chain
  <1>8. \A i, k \in 1 .. Len(due) : i < k => due[i] < due[k]
    <2>1. \A i, k \in 1 .. Len(due) : i < k => i + 1 < k + 1
      BY <1>1
    <2> QED BY <1>1, <1>2, <1>3, <2>1 DEF Chain
  <1>9. Chain(s, j, x, due, now)
    BY <1>5, <1>6, <1>7, <1>8 DEF Chain
  <1> QED BY <1>4, <1>5, <1>6, <1>9

-----------------------------------------------------------------------------
(***************************************************************************)
(* The types.                                                              *)
(***************************************************************************)
Ticks == [phase : {"idle", "armed", "boot", "jobs", "due"}, at : Minute,
          queue : Seq(Job), due : Seq(Minute)]

WorldOK ==
    /\ setup \in DOMAIN Setups
    /\ files \subseteq Job /\ broken \in BOOLEAN /\ clock \in Minute
    /\ proc \in {"up", "stopping", "down"} /\ drain \in BOOLEAN /\ bootRan \subseteq Job
    /\ faults \in 0 .. MaxFaults /\ edits \in 0 .. MaxEdits /\ stops \in 0 .. MaxStops
TickOK == tick \in Ticks /\ Len(tick.due) <= CatchUpCap
RunOK == run \in Run \cup {None}
DurableOK ==
    /\ lastRun \in [Job -> Minute \cup {None}]
    /\ outputs \in [Job -> SUBSET Minute]
    /\ anchor \in [Job -> Minute \cup {None}] /\ log \in [Job -> Seq(Minute)]

LEMMA TypeParts ==
    /\ TypeOK <=> WorldOK /\ TickOK /\ RunOK /\ DurableOK
    /\ TypeOK' <=> WorldOK' /\ TickOK' /\ RunOK' /\ DurableOK'
  BY DEF TypeOK, WorldOK, TickOK, RunOK, DurableOK, Ticks

\* A tick that has no fire to run.
Calm(t) ==
    /\ t \in Ticks /\ t.due = <<>> /\ t.phase # "due"
    /\ t.phase \in {"boot", "jobs"} => t.queue # <<>>

LEMMA BoundFacts ==
    /\ 0 \in Minute /\ \A m \in Minute : m \in Int
    /\ MaxFaults \in Nat /\ MaxEdits \in Nat /\ MaxStops \in Nat /\ None \notin Minute
  BY HorizonFacts, CronAssumption, CalendarFacts DEF Minute

LEMMA CalmTicks ==
    /\ Calm(Idle) /\ Calm(Armed) /\ Calm(Rearmed)
    /\ Idle.phase = "idle" /\ Armed.phase = "armed" /\ Rearmed.phase \in {"idle", "armed"}
  <1>1. Idle \in Ticks /\ Armed \in Ticks
    <2>1. <<>> \in Seq(Job) /\ <<>> \in Seq(Minute) /\ 0 \in Minute
      BY BoundFacts
    <2>2. Armed = [phase |-> "armed", at |-> 0, queue |-> <<>>, due |-> <<>>]
      BY DEF Armed, Idle
    <2> QED BY <2>1, <2>2 DEF Ticks, Idle
  <1>2. Idle.phase = "idle" /\ Armed.phase = "armed" /\ Idle.due = <<>> /\ Armed.due = <<>>
    BY DEF Idle, Armed
  <1> QED BY <1>1, <1>2 DEF Calm, Rearmed

LEMMA QueueFacts ==
    ASSUME TickOK, tick.queue # <<>>
    PROVE  Head(tick.queue) \in Job /\ Tail(tick.queue) \in Seq(Job)
  BY HeadTailProperties DEF TickOK, Ticks

LEMMA CalmAfterJob ==
    ASSUME TickOK, tick.queue # <<>>
    PROVE  Calm(AfterJob)
  <1> DEFINE t == [tick EXCEPT !.phase = "jobs", !.queue = Tail(tick.queue), !.due = <<>>]
  <1>1. t \in Ticks /\ t.due = <<>> /\ t.phase = "jobs" /\ t.queue = Tail(tick.queue)
    <2>1. <<>> \in Seq(Minute) /\ Tail(tick.queue) \in Seq(Job)
      BY QueueFacts
    <2> HIDE DEF Minute
    <2> QED BY <2>1 DEF TickOK, Ticks
  <1>2. CASE Tail(tick.queue) # <<>>
    BY <1>1, <1>2, CalmTicks DEF AfterJob, Calm
  <1>3. CASE Tail(tick.queue) = <<>>
    BY <1>3, CalmTicks DEF AfterJob
  <1> QED BY <1>2, <1>3

\* Once nothing runs and the tick is calm, most of the invariant says nothing.
LEMMA CalmNext ==
    ASSUME run' = None, Calm(tick'), proc' = "down" => tick' = Idle
    PROVE  TickOK' /\ RunOK' /\ TickShape' /\ OutputFirst' /\ Continues'
  <1>1. TickOK'
    BY HorizonFacts DEF Calm, TickOK
  <1> QED BY <1>1 DEF RunOK, TickShape, OutputFirst, Continues, Calm

LEMMA RecordKept ==
    ASSUME UNCHANGED <<setup, lastRun, anchor, log>>, Anchored, CaughtUp
    PROVE  Anchored' /\ CaughtUp'
  BY DEF Anchored, CaughtUp, Recorded, Matches, Boundary, CronJob

LEMMA OutputStays ==
    ASSUME UNCHANGED <<outputs, log>>, OutputKept
    PROVE  OutputKept'
  BY DEF OutputKept, Recorded

LEMMA DurableStays ==
    ASSUME UNCHANGED <<setup, durable>>, DurableOK, Anchored, CaughtUp, OutputKept
    PROVE  DurableOK' /\ Anchored' /\ CaughtUp' /\ OutputKept'
  BY RecordKept, OutputStays DEF durable, DurableOK

LEMMA CronInit == Init => CronInv
  <1>1. SUFFICES ASSUME Init PROVE CronInv
    OBVIOUS
  <1>2. WorldOK
    <2>1. files \subseteq Job /\ bootRan \subseteq Job
      BY <1>1 DEF Init
    <2>2. clock \in Minute /\ faults \in 0 .. MaxFaults /\ edits \in 0 .. MaxEdits /\ stops \in 0 .. MaxStops
      BY <1>1, BoundFacts DEF Init
    <2> QED BY <1>1, <2>1, <2>2 DEF Init, WorldOK
  <1>3. TickOK /\ RunOK
    BY <1>1, CalmTicks, HorizonFacts DEF Init, TickOK, RunOK, Calm
  <1>4. DurableOK
    BY <1>1 DEF Init, DurableOK
  <1>5. TickShape
    BY <1>1, CalmTicks DEF Init, TickShape, Calm
  <1>6. OutputKept /\ OutputFirst
    <2>1. \A j \in Job : ToSet(log[j]) = {}
      BY <1>1 DEF Init, ToSet
    <2> QED BY <1>1, <2>1 DEF Init, OutputKept, OutputFirst, Recorded
  <1>7. Anchored /\ CaughtUp /\ Continues /\ Timely
    BY <1>1, CalmTicks DEF Init, Anchored, CaughtUp, Continues, Timely, NotAhead
  <1> QED BY <1>2, <1>3, <1>4, <1>5, <1>6, <1>7, TypeParts DEF CronInv

-----------------------------------------------------------------------------
(***************************************************************************)
(* Every step keeps the invariant.                                         *)
(***************************************************************************)
LEMMA BootPendingFacts ==
    ASSUME TickOK, BootPending # {}
    PROVE  Min(BootPending) \in Job
  <1>1. BootPending \subseteq Job
    BY DEF BootPending, ToSet, TickOK, Ticks
  <1>2. \A x \in BootPending : x \in Int /\ 1 <= x
    BY <1>1, HorizonFacts DEF Job
  <1>3. Min(BootPending) \in BootPending
    <2> DEFINE S == BootPending
    <2>1. S \in SUBSET Int /\ S # {} /\ \A x \in S : 1 <= x
      BY <1>2
    <2> HIDE DEF S
    <2>2. 1 \in Int
      OBVIOUS
    <2>3. Min(S) \in S
      BY <2>1, <2>2, Smallest
    <2> QED BY <2>3 DEF S
  <1> QED BY <1>1, <1>3

LEMMA WorldNext ==
    ASSUME TypeOK, [Next]_vars
    PROVE  WorldOK' /\ setup' = setup
  <1>1. WorldOK /\ TickOK
    BY TypeParts
  <1>2. /\ MaxFaults \in Nat /\ MaxEdits \in Nat /\ MaxStops \in Nat
        /\ \A n \in Minute : n < MaxTime => n + 1 \in Minute
    BY BoundFacts, HorizonFacts DEF Minute
  <1>3. CASE UNCHANGED vars
    BY <1>1, <1>3 DEF WorldOK, vars
  <1>4. CASE Advance
    BY <1>1, <1>2, <1>4 DEF WorldOK, Advance, process
  <1>5. CASE EditSchedules
    <2>1. edits' \in 0 .. MaxEdits
      BY <1>1, <1>2, <1>5 DEF WorldOK, EditSchedules
    <2>2. files' \subseteq Job /\ broken' \in BOOLEAN
      <3>1. CASE \E j \in Job : files' = (files \ {j}) \cup ({j} \ files) /\ UNCHANGED broken
        BY <1>1, <3>1 DEF WorldOK
      <3>2. CASE broken' = ~broken /\ UNCHANGED files
        BY <1>1, <3>2 DEF WorldOK
      <3> QED BY <1>5, <3>1, <3>2 DEF EditSchedules
    <2> QED BY <1>1, <1>5, <2>1, <2>2 DEF WorldOK, EditSchedules, process
  <1>6. CASE StartBootRun
    <2>1. bootRan' \subseteq Job
      BY <1>1, <1>6, BootPendingFacts DEF WorldOK, StartBootRun
    <2> QED BY <1>1, <1>6, <2>1 DEF WorldOK, StartBootRun, world
  <1>7. CASE LoadNothing \/ LoadJobs \/ BootRunsDone \/ Anchor \/ Due \/ StartFire \/ JobDone
    BY <1>1, <1>7 DEF WorldOK, LoadNothing, LoadJobs, BootRunsDone, Anchor, AnchorHead, Due,
                      StartFire, JobDone, world, process, vars
  <1>8. CASE RunEnds \/ CommandTimeout \/ WriteRun \/ WriteLastRun
    BY <1>1, <1>8 DEF WorldOK, RunEnds, CommandTimeout, WriteRun, WriteLastRun, RunOver, world, process
  <1>9. CASE WriteFails \/ Crash \/ Unreadable
    <2>1. faults' \in 0 .. MaxFaults
      BY <1>1, <1>2, <1>9 DEF WorldOK, WriteFails, Crash, Unreadable
    <2> QED BY <1>1, <1>9, <2>1 DEF WorldOK, WriteFails, RunOver, Crash, Gone, Unreadable, AnchorHead, process
  <1>10. CASE StopIdle \/ Stop
    <2>1. stops' \in 0 .. MaxStops
      BY <1>1, <1>2, <1>10 DEF WorldOK, StopIdle, Stop
    <2> QED BY <1>1, <1>10, <2>1 DEF WorldOK, StopIdle, Stop, Gone
  <1>11. CASE Exit \/ Restart
    BY <1>1, <1>11 DEF WorldOK, Exit, Restart, Gone, world
  <1> QED BY <1>3, <1>4, <1>5, <1>6, <1>7, <1>8, <1>9, <1>10, <1>11 DEF Next

\* What the inductive step assembles; WorldNext gives the rest.
StepKeeps ==
    TickOK /\ RunOK /\ DurableOK /\ TickShape /\ OutputKept /\ OutputFirst
    /\ Anchored /\ CaughtUp /\ Continues

\* The actions that touch neither the tick, nor the run, nor the files.
LEMMA FrameStep ==
    ASSUME CronInv, UNCHANGED <<setup, tick, run, durable>>, proc' = "down" => proc = "down"
    PROVE  StepKeeps'
  <1>1. TickOK /\ RunOK /\ DurableOK
    BY TypeParts DEF CronInv
  <1>2. TickOK' /\ RunOK'
    BY <1>1 DEF TickOK, RunOK
  <1>3. DurableOK' /\ Anchored' /\ CaughtUp' /\ OutputKept'
    BY <1>1, DurableStays DEF CronInv
  <1>4. TickShape' /\ OutputFirst'
    BY DEF CronInv, TickShape, OutputFirst, durable
  <1>5. Continues'
    BY DEF CronInv, Continues, Pending, durable
  <1> QED BY <1>2, <1>3, <1>4, <1>5 DEF StepKeeps

\* The actions after which nothing runs and nothing is written.
LEMMA CalmStep ==
    ASSUME CronInv, UNCHANGED <<setup, durable>>, run' = None, Calm(tick'),
           proc' = "down" => tick' = Idle
    PROVE  StepKeeps'
  <1>1. DurableOK
    BY TypeParts DEF CronInv
  <1>2. DurableOK' /\ Anchored' /\ CaughtUp' /\ OutputKept'
    BY <1>1, DurableStays DEF CronInv
  <1> QED BY <1>2, CalmNext DEF StepKeeps

LEMMA LoadJobsStep ==
    ASSUME CronInv, setup' = setup, LoadJobs
    PROVE  StepKeeps'
  <1>1. WorldOK /\ TickOK /\ RunOK
    BY TypeParts DEF CronInv
  <1>2. run = None /\ proc # "down"
    BY CalmTicks DEF CronInv, LoadJobs, TickShape
  <1>3. Ascending(files) \in Seq(Job) /\ Ascending(files) # <<>>
    <2> DEFINE q == Ascending(files)
    <2>1. files \in SUBSET (0 .. Jobs) /\ files # {} /\ files \subseteq Job
      BY <1>1, HorizonFacts DEF WorldOK, LoadJobs, Job
    <2>2. /\ q \in Seq(files) /\ \A i \in 1 .. Len(q) : q[i] \in files
          /\ \A x \in files : \E i \in 1 .. Len(q) : q[i] = x
      BY <2>1, HorizonFacts, AscendingReaches
    <2> HIDE DEF q
    <2>3. \A i \in 1 .. Len(q) : q[i] \in Job
      BY <2>1, <2>2
    <2>4. q \in Seq(Job)
      BY <2>2, <2>3, SeqDef
    <2>5. q # <<>>
      <3>1. PICK i \in 1 .. Len(q) : TRUE
        BY <2>1, <2>2
      <3>2. ASSUME q = <<>> PROVE FALSE
        <4>1. Len(q) = 0
          BY <3>2
        <4> QED BY <3>1, <4>1
      <3> QED BY <3>2
    <2> QED BY <2>4, <2>5 DEF q
  <1>4. clock \in Minute /\ <<>> \in Seq(Minute)
    BY <1>1 DEF WorldOK
  <1>5. tick' = [phase |-> "boot", at |-> clock, queue |-> Ascending(files), due |-> <<>>]
    BY DEF LoadJobs
  <1>6. Calm(tick')
    BY <1>3, <1>4, <1>5 DEF Calm, Ticks
  <1> QED BY <1>2, <1>6, CalmStep DEF LoadJobs, process

LEMMA StartBootRunStep ==
    ASSUME CronInv, setup' = setup, StartBootRun
    PROVE  StepKeeps'
  <1>1. WorldOK /\ TickOK /\ RunOK /\ DurableOK
    BY TypeParts DEF CronInv
  <1> DEFINE b == Min(BootPending)
  <1>2. b \in Job
    BY <1>1, BootPendingFacts DEF StartBootRun
  <1>3. run' = [job |-> b, at |-> tick.at, boot |-> TRUE, stage |-> "running"]
    BY DEF StartBootRun, Running
  <1> HIDE DEF b
  <1>4. run' \in Run /\ run'.boot = TRUE /\ run'.stage = "running"
    BY <1>1, <1>2, <1>3 DEF Run, TickOK, Ticks
  <1>5. tick' = tick /\ tick.phase = "boot" /\ proc' = proc
    BY DEF StartBootRun
  <1>6. proc # "down"
    BY <1>5, CalmTicks DEF CronInv, TickShape
  <1>7. TickOK' /\ RunOK'
    BY <1>1, <1>4, <1>5 DEF TickOK, RunOK
  <1>8. DurableOK' /\ Anchored' /\ CaughtUp' /\ OutputKept'
    BY <1>1, DurableStays DEF CronInv, StartBootRun
  <1>9. TickShape' /\ OutputFirst' /\ Continues'
    BY <1>4, <1>5, <1>6 DEF CronInv, TickShape, OutputFirst, Continues
  <1> QED BY <1>7, <1>8, <1>9 DEF StepKeeps

LEMMA BootRunsDoneStep ==
    ASSUME CronInv, setup' = setup, BootRunsDone
    PROVE  StepKeeps'
  <1>1. TickOK
    BY TypeParts DEF CronInv
  <1>2. tick' = [tick EXCEPT !.phase = "jobs"] /\ tick.phase = "boot" /\ run = None /\ run' = run /\ proc' = proc
    BY DEF BootRunsDone, process
  <1>3. tick.due = <<>> /\ tick.queue # <<>> /\ proc # "down"
    BY <1>2, CalmTicks DEF CronInv, TickShape
  <1>4. Calm(tick')
    BY <1>1, <1>2, <1>3 DEF Calm, TickOK, Ticks
  <1> QED BY <1>2, <1>3, <1>4, CalmStep DEF BootRunsDone

LEMMA JobDoneStep ==
    ASSUME CronInv, setup' = setup, JobDone
    PROVE  StepKeeps'
  <1>1. TickOK
    BY TypeParts DEF CronInv
  <1>2. tick' = AfterJob /\ tick.phase = "due" /\ run = None /\ run' = run /\ proc' = proc
    BY DEF JobDone, process
  <1>3. tick.queue # <<>> /\ proc # "down"
    BY <1>2, CalmTicks DEF CronInv, TickShape
  <1>4. Calm(tick')
    BY <1>1, <1>2, <1>3, CalmAfterJob
  <1> QED BY <1>2, <1>3, <1>4, CalmStep DEF JobDone

\* Anchoring a job, for the first time or anew: no boundary lies after the anchor.
LEMMA AnchorStep ==
    ASSUME CronInv, setup' = setup, Anchor \/ Unreadable
    PROVE  StepKeeps'
  <1> DEFINE j == Head(tick.queue)
  <1>1. TickOK /\ DurableOK
    BY TypeParts DEF CronInv
  <1>2. /\ tick' = AfterJob /\ tick.phase = "jobs" /\ run' = run /\ proc' = proc
        /\ UNCHANGED <<outputs, log>>
        /\ lastRun' = [lastRun EXCEPT ![j] = tick.at]
        /\ anchor' = [anchor EXCEPT ![j] = tick.at]
    BY DEF Anchor, Unreadable, AnchorHead, process
  <1>3. tick.queue # <<>> /\ run = None /\ proc # "down"
    BY <1>2, CalmTicks DEF CronInv, TickShape
  <1>4. j \in Job /\ tick.at \in Minute
    BY <1>1, <1>3, QueueFacts DEF TickOK, Ticks
  <1>5. Calm(tick')
    BY <1>1, <1>2, <1>3, CalmAfterJob
  <1>6. TickOK' /\ RunOK' /\ TickShape' /\ OutputFirst' /\ Continues'
    BY <1>2, <1>3, <1>5, CalmNext
  <1> HIDE DEF j
  <1>7. DurableOK'
    BY <1>1, <1>2, <1>4 DEF DurableOK
  <1>8. OutputKept'
    BY <1>2, OutputStays DEF CronInv
  <1>9. /\ lastRun'[j] = tick.at /\ anchor'[j] = tick.at
        /\ tick.at \in Int /\ tick.at # None
        /\ \A i \in Job : i # j => lastRun'[i] = lastRun[i] /\ anchor'[i] = anchor[i]
    BY <1>1, <1>2, <1>4, BoundFacts DEF CronInv, Anchored, DurableOK
  <1>10. Anchored'
    BY <1>2, <1>9 DEF CronInv, Anchored
  <1>11. CaughtUp'
    <2>1. SUFFICES ASSUME NEW i \in Job, lastRun'[i] # None
                   PROVE  /\ anchor'[i] # None
                          /\ \A k \in 1 .. (Len(log[i]) - 1) : log[i][k] < log[i][k + 1]
                          /\ \A e \in ToSet(log[i]) :
                                e \in OnSchedule[setup][i] /\ e <= lastRun'[i]
                          /\ Loaded[setup][i].missed = "catchUp" =>
                                \A e \in (anchor'[i] + 1) .. lastRun'[i] :
                                    e \in Boundaries[setup][i] => e \in ToSet(log[i])
      BY <1>2 DEF CaughtUp, Recorded, Matches, Boundary, CronJob
    <2>2. CASE i = j
      <3>1. (tick.at + 1) .. tick.at = {}
        BY <1>9
      <3>2. CASE lastRun[j] = None
        <4>1. log[j] = <<>>
          BY <1>4, <3>2 DEF CronInv, Anchored
        <4>2. ToSet(log[i]) = {} /\ Len(log[i]) = 0
          BY <2>2, <4>1 DEF ToSet
        <4>3. 1 .. (Len(log[i]) - 1) = {}
          BY <4>2
        <4> QED BY <1>9, <2>2, <3>1, <4>2, <4>3
      <3>3. CASE lastRun[j] # None
        <4>1. /\ \A k \in 1 .. (Len(log[j]) - 1) : log[j][k] < log[j][k + 1]
              /\ \A e \in ToSet(log[j]) : e \in OnSchedule[setup][j] /\ e <= lastRun[j]
          BY <1>4, <3>3 DEF CronInv, CaughtUp, Recorded, Matches
        <4>2. lastRun[j] <= tick.at /\ lastRun[j] \in Int
          BY <1>1, <1>2, <1>4, <3>3, BoundFacts DEF CronInv, Timely, NotAhead, DurableOK
        <4>3. \A e \in ToSet(log[j]) : e \in Int
          BY <1>1, <1>4, BoundFacts DEF DurableOK, ToSet
        <4>4. \A e \in ToSet(log[j]) : e <= tick.at
          BY <1>9, <4>1, <4>2, <4>3
        <4> QED BY <1>9, <2>2, <3>1, <4>1, <4>4
      <3> QED BY <3>2, <3>3
    <2>3. CASE i # j
      BY <1>9, <2>1, <2>3 DEF CronInv, CaughtUp, Recorded, Matches, Boundary, CronJob
    <2> QED BY <2>2, <2>3
  <1> QED BY <1>6, <1>7, <1>8, <1>10, <1>11 DEF StepKeeps

LEMMA DueStep ==
    ASSUME CronInv, setup' = setup, Due
    PROVE  StepKeeps'
  <1> DEFINE j == Head(tick.queue)
             due == ComputeDueFires(j, tick.at)
  <1>1. WorldOK /\ TickOK /\ DurableOK
    BY TypeParts DEF CronInv
  <1>2. /\ tick.phase = "jobs" /\ run' = run /\ proc' = proc /\ lastRun[j] # None /\ UNCHANGED durable
        /\ tick' = IF NeverAgain(j, tick.at) THEN Rearmed
                   ELSE [tick EXCEPT !.phase = "due", !.due = due]
    BY DEF Due, process
  <1>3. tick.queue # <<>> /\ run = None /\ proc # "down"
    BY <1>2, CalmTicks DEF CronInv, TickShape
  <1>4. CASE NeverAgain(j, tick.at)
    BY <1>2, <1>3, <1>4, CalmTicks, CalmStep
  <1>5. CASE ~NeverAgain(j, tick.at)
    <2>1. j \in Job /\ tick.at \in Minute
      BY <1>1, <1>3, QueueFacts DEF TickOK, Ticks
    <2>2. lastRun[j] \in Minute /\ setup \in DOMAIN Setups
      BY <1>1, <1>2, <2>1 DEF DurableOK, WorldOK
    <2>3. Chain(setup, j, lastRun[j], due, tick.at) /\ Len(due) <= CatchUpCap
      <3> HIDE DEF j
      <3> QED BY <1>5, <2>1, <2>2, DueFires
    <2>4. due \in Seq(Minute)
      BY <2>3 DEF Chain
    <2> HIDE DEF due
    <2>5. /\ tick' \in Ticks /\ tick'.phase = "due" /\ tick'.queue = tick.queue
          /\ tick'.at = tick.at /\ tick'.due = due
      BY <1>1, <1>2, <1>5, <2>4 DEF TickOK, Ticks
    <2>6. TickOK' /\ RunOK' /\ TickShape' /\ OutputFirst'
      BY <1>2, <1>3, <2>3, <2>5 DEF TickOK, RunOK, TickShape, OutputFirst
    <2>7. Continues'
      BY <1>2, <1>3, <2>3, <2>5 DEF Continues, Pending, durable
    <2>8. DurableOK' /\ Anchored' /\ CaughtUp' /\ OutputKept'
      BY <1>1, <1>2, DurableStays DEF CronInv
    <2> QED BY <2>6, <2>7, <2>8 DEF StepKeeps
  <1> QED BY <1>4, <1>5

LEMMA StartFireStep ==
    ASSUME CronInv, setup' = setup, StartFire
    PROVE  StepKeeps'
  <1> DEFINE j == Head(tick.queue)
             x == Head(tick.due)
             rest == Tail(tick.due)
  <1>1. TickOK /\ DurableOK
    BY TypeParts DEF CronInv
  <1>2. /\ tick.phase = "due" /\ run = None /\ tick.due # <<>> /\ proc' = proc /\ UNCHANGED durable
        /\ run' = [job |-> j, at |-> x, boot |-> FALSE, stage |-> "running"]
        /\ tick' = [tick EXCEPT !.due = rest]
    BY DEF StartFire, Running, process
  <1>3. tick.queue # <<>> /\ proc # "down"
    BY <1>2, CalmTicks DEF CronInv, TickShape
  <1>4. j \in Job /\ tick.due \in Seq(Minute)
    BY <1>1, <1>3, QueueFacts DEF TickOK, Ticks
  <1>5. x \in Minute /\ rest \in Seq(Minute) /\ Len(rest) = Len(tick.due) - 1 /\ <<x>> \o rest = tick.due
    <2> DEFINE f == tick.due
    <2>1. f \in Seq(Minute) /\ f # <<>>
      BY <1>2, <1>4
    <2> HIDE DEF f
    <2>2. /\ Head(f) \in Minute /\ Tail(f) \in Seq(Minute) /\ Len(Tail(f)) = Len(f) - 1
      BY <2>1, HeadTailProperties
    <2>3. <<Head(f)>> \o Tail(f) = f
      BY <2>1
    <2> QED BY <2>2, <2>3 DEF f
  <1> HIDE DEF j, x, rest
  <1>6. /\ tick' \in Ticks /\ tick'.phase = "due" /\ tick'.queue = tick.queue
        /\ tick'.at = tick.at /\ tick'.due = rest
    BY <1>1, <1>2, <1>5 DEF TickOK, Ticks
  <1>7. run' \in Run /\ run'.boot = FALSE /\ run'.stage = "running" /\ run'.job = j /\ run'.at = x
    BY <1>2, <1>4, <1>5 DEF Run
  <1>8. run' # None
    BY <1>7, CronAssumption
  <1>9. TickOK' /\ RunOK' /\ TickShape' /\ OutputFirst'
    <2>1. Len(tick'.due) <= CatchUpCap
      <3>1. Len(tick.due) \in Nat /\ Len(tick.due) <= CatchUpCap /\ CatchUpCap \in Nat
        BY <1>1, <1>4, HorizonFacts DEF TickOK
      <3> QED BY <1>5, <1>6, <3>1
    <2>2. run'.job = Head(tick'.queue)
      BY <1>6, <1>7 DEF j
    <2> QED BY <1>2, <1>3, <1>6, <1>7, <2>1, <2>2 DEF TickOK, RunOK, TickShape, OutputFirst
  <1>10. Pending' = Pending
    BY <1>2, <1>5, <1>6, <1>7, <1>8 DEF Pending
  <1>11. Continues'
    BY <1>2, <1>6, <1>10 DEF CronInv, Continues, durable
  <1>12. DurableOK' /\ Anchored' /\ CaughtUp' /\ OutputKept'
    BY <1>1, <1>2, DurableStays DEF CronInv
  <1> QED BY <1>9, <1>11, <1>12 DEF StepKeeps

\* The command closes, is terminated or is killed: only the stage changes.
LEMMA StageStep ==
    ASSUME CronInv, setup' = setup, RunEnds \/ CommandTimeout
    PROVE  StepKeeps'
  <1>1. TickOK /\ RunOK /\ DurableOK
    BY TypeParts DEF CronInv
  <1>2. run # None /\ run \in Run /\ UNCHANGED <<tick, proc, durable>>
    BY <1>1 DEF RunEnds, CommandTimeout, RunOK, process
  <1>3. PICK stage \in {"terminating", "output"} : run' = [run EXCEPT !.stage = stage]
    BY <1>2 DEF RunEnds, CommandTimeout
  <1>4. /\ run' \in Run /\ run'.job = run.job /\ run'.at = run.at /\ run'.boot = run.boot
        /\ run'.stage # "record"
    BY <1>2, <1>3 DEF Run
  <1>5. run' # None
    BY <1>4, CronAssumption
  <1>6. TickOK' /\ RunOK'
    BY <1>1, <1>2, <1>4 DEF TickOK, RunOK
  <1>7. TickShape' /\ OutputFirst'
    BY <1>2, <1>4 DEF CronInv, TickShape, OutputFirst
  <1>8. Continues'
    BY <1>2, <1>4, <1>5 DEF CronInv, Continues, Pending, durable
  <1>9. DurableOK' /\ Anchored' /\ CaughtUp' /\ OutputKept'
    BY <1>1, <1>2, DurableStays DEF CronInv
  <1> QED BY <1>6, <1>7, <1>8, <1>9 DEF StepKeeps

LEMMA WriteRunStep ==
    ASSUME CronInv, setup' = setup, WriteRun
    PROVE  StepKeeps'
  <1>1. TickOK /\ RunOK /\ DurableOK
    BY TypeParts DEF CronInv
  <1>2. /\ run # None /\ run \in Run /\ run.stage = "output" /\ UNCHANGED <<tick, proc, lastRun, anchor, log>>
        /\ outputs' = [outputs EXCEPT ![run.job] = @ \cup {run.at}]
    BY <1>1 DEF WriteRun, RunOK
  <1>3. run.job \in Job /\ run.at \in Minute /\ run.boot \in BOOLEAN
    BY <1>2 DEF Run
  <1>4. \A j \in Job : outputs[j] \subseteq outputs'[j]
    BY <1>1, <1>2 DEF DurableOK
  <1>5. run.at \in outputs'[run.job] /\ DurableOK'
    BY <1>1, <1>2, <1>3 DEF DurableOK
  <1>6. OutputKept'
    BY <1>2, <1>4 DEF CronInv, OutputKept, Recorded
  <1>7. Anchored' /\ CaughtUp'
    BY <1>2, RecordKept DEF CronInv
  <1>8. CASE run.boot
    <2>1. run' = None
      BY <1>8 DEF WriteRun, RunOver
    <2>2. tick.phase = "boot" /\ tick.queue # <<>> /\ tick.due = <<>> /\ proc # "down"
      BY <1>2, <1>8, CalmTicks DEF CronInv, TickShape
    <2>3. Calm(tick') /\ proc' # "down"
      BY <1>1, <1>2, <2>2 DEF Calm, TickOK
    <2> QED BY <1>5, <1>6, <1>7, <2>1, <2>3, CalmNext DEF StepKeeps
  <1>9. CASE ~run.boot
    <2>1. run' = [run EXCEPT !.stage = "record"]
      BY <1>9 DEF WriteRun
    <2>2. /\ run' \in Run /\ run'.job = run.job /\ run'.at = run.at /\ run'.boot = run.boot
      BY <1>2, <2>1 DEF Run
    <2>3. run' # None
      BY <2>2, CronAssumption
    <2>4. TickOK' /\ RunOK'
      BY <1>1, <1>2, <2>2 DEF TickOK, RunOK
    <2>5. TickShape' /\ OutputFirst'
      BY <1>2, <1>5, <1>9, <2>2 DEF CronInv, TickShape, OutputFirst
    <2>6. Continues'
      BY <1>2, <2>2, <2>3 DEF CronInv, Continues, Pending
    <2> QED BY <1>5, <1>6, <1>7, <2>4, <2>5, <2>6 DEF StepKeeps
  <1> QED BY <1>3, <1>8, <1>9

\* What is recorded when a fire is appended to a log.
LEMMA AppendFacts ==
    ASSUME NEW old \in Seq(Minute), NEW x \in Minute
    PROVE  LET new == Append(old, x)
           IN  /\ new \in Seq(Minute) /\ Len(new) = Len(old) + 1 /\ Len(old) \in Nat
               /\ \A k \in 1 .. Len(old) : new[k] = old[k]
               /\ new[Len(old) + 1] = x
               /\ ToSet(new) = ToSet(old) \cup {x}
               /\ \A k \in 1 .. Len(old) : old[k] \in ToSet(old)
  <1> DEFINE new == Append(old, x)
  <1>1. /\ new \in Seq(Minute) /\ Len(new) = Len(old) + 1 /\ Len(old) \in Nat
        /\ \A k \in 1 .. Len(old) : new[k] = old[k]
        /\ new[Len(old) + 1] = x
    OBVIOUS
  <1>2. ToSet(old) = {old[k] : k \in 1 .. Len(old)}
    BY DEF ToSet
  <1> HIDE DEF new
  <1>3. ToSet(new) = {new[k] : k \in 1 .. (Len(old) + 1)}
    BY <1>1 DEF ToSet
  <1>4. 1 .. (Len(old) + 1) = (1 .. Len(old)) \cup {Len(old) + 1}
    BY <1>1
  <1>5. ToSet(new) = ToSet(old) \cup {x}
    BY <1>1, <1>2, <1>3, <1>4
  <1> QED BY <1>1, <1>2, <1>5 DEF new

\* Recording the first fire of a chain: the log stays in order and, in catchUp
\* mode, still lists every boundary up to the last run.
LEMMA RecordOne ==
    ASSUME NEW s \in DOMAIN Setups, NEW j \in Job, NEW old \in Seq(Minute), NEW a \in Minute, NEW base \in Minute,
           NEW x \in Minute, a <= base, base < x, x \in OnSchedule[s][j],
           \A k \in 1 .. (Len(old) - 1) : old[k] < old[k + 1],
           \A e \in ToSet(old) : e \in OnSchedule[s][j] /\ e <= base
    PROVE  LET new == Append(old, x)
           IN  /\ \A k \in 1 .. (Len(new) - 1) : new[k] < new[k + 1]
               /\ \A e \in ToSet(new) : e \in OnSchedule[s][j] /\ e <= x
               /\ (/\ \A e \in (a + 1) .. base : e \in Boundaries[s][j] => e \in ToSet(old)
                   /\ \A e \in (base + 1) .. (x - 1) : e \notin Boundaries[s][j])
                  => \A e \in (a + 1) .. x : e \in Boundaries[s][j] => e \in ToSet(new)
  <1> DEFINE new == Append(old, x)
             n == Len(old)
  <1>1. /\ Len(new) = n + 1 /\ n \in Nat
        /\ \A k \in 1 .. n : new[k] = old[k]
        /\ new[n + 1] = x
        /\ ToSet(new) = ToSet(old) \cup {x}
        /\ \A k \in 1 .. n : old[k] \in ToSet(old)
    BY AppendFacts
  <1>2. a \in Int /\ base \in Int /\ x \in Int
    BY BoundFacts
  <1>3. \A k \in 1 .. n : old[k] \in Minute /\ old[k] \in Int
    BY BoundFacts
  <1>4. \A e \in ToSet(old) : e \in Int
    <2>1. ToSet(old) = {old[k] : k \in 1 .. n}
      BY DEF ToSet
    <2> QED BY <1>3, <2>1
  <1> HIDE DEF new, n
  <1>5. ASSUME NEW k \in 1 .. n PROVE new[k] < new[k + 1]
    <2>1. CASE k = n
      <3>1. new[k] = old[k] /\ old[k] \in ToSet(old) /\ old[k] \in Int /\ new[k + 1] = x
        BY <1>1, <1>3, <2>1
      <3> QED BY <1>2, <3>1
    <2>2. CASE k # n
      <3>1. k + 1 \in 1 .. n /\ k \in 1 .. (n - 1)
        BY <1>1, <2>2
      <3> QED BY <1>1, <3>1 DEF n
    <2> QED BY <2>1, <2>2
  <1>6. \A e \in ToSet(new) : e \in OnSchedule[s][j] /\ e <= x
    BY <1>1, <1>2, <1>4
  <1>7. ASSUME \A e \in (a + 1) .. base : e \in Boundaries[s][j] => e \in ToSet(old),
               \A e \in (base + 1) .. (x - 1) : e \notin Boundaries[s][j],
               NEW e \in (a + 1) .. x, e \in Boundaries[s][j]
        PROVE  e \in ToSet(new)
    <2>1. e \in (a + 1) .. base \/ e \in (base + 1) .. (x - 1) \/ e = x
      BY <1>2
    <2> QED BY <1>1, <1>7, <2>1
  <1>8. Len(new) - 1 = n
    BY <1>1
  <1> QED BY <1>5, <1>6, <1>7, <1>8 DEF new

LEMMA WriteLastRunStep ==
    ASSUME CronInv, setup' = setup, WriteLastRun
    PROVE  StepKeeps'
  <1> DEFINE j == run.job
             x == run.at
  <1>1. TickOK /\ RunOK /\ DurableOK
    BY TypeParts DEF CronInv
  <1>2. /\ run # None /\ run \in Run /\ run.stage = "record" /\ run' = None
        /\ UNCHANGED <<tick, proc, outputs, anchor>>
        /\ lastRun' = [lastRun EXCEPT ![j] = x]
        /\ log' = [log EXCEPT ![j] = Append(@, x)]
    BY <1>1 DEF WriteLastRun, RunOver, RunOK
  <1>3. j \in Job /\ x \in Minute /\ ~run.boot /\ x \in outputs[j]
    BY <1>2 DEF Run, CronInv, OutputFirst
  <1>4. tick.phase = "due" /\ j = Head(tick.queue) /\ proc # "down" /\ tick.queue # <<>>
    BY <1>2, <1>3 DEF CronInv, TickShape
  <1>5. tick.due \in Seq(Minute) /\ tick.at \in Minute
    BY <1>1 DEF TickOK, Ticks
  <1> HIDE DEF j, x
  <1>6. lastRun[j] # None /\ Chain(setup, j, lastRun[j], <<x>> \o tick.due, tick.at)
    BY <1>2, <1>4 DEF CronInv, Continues, Pending, x
  <1>7. lastRun[j] \in Minute /\ anchor[j] \in Minute /\ anchor[j] <= lastRun[j] /\ log[j] \in Seq(Minute)
    BY <1>1, <1>3, <1>6 DEF DurableOK, CronInv, Anchored
  <1>8. /\ x \in OnSchedule[setup][j] /\ lastRun[j] < x
        /\ Loaded[setup][j].missed # "skip" => Clear(setup, j, lastRun[j], x)
        /\ Chain(setup, j, x, tick.due, tick.at)
    BY <1>3, <1>5, <1>6, <1>7, ChainTail
  <1>9. /\ lastRun'[j] = x /\ log'[j] = Append(log[j], x) /\ x # None
        /\ \A i \in Job : i # j => lastRun'[i] = lastRun[i] /\ log'[i] = log[i]
    BY <1>1, <1>2, <1>3, BoundFacts DEF DurableOK
  <1>10. Append(log[j], x) \in Seq(Minute) /\ ToSet(Append(log[j], x)) = ToSet(log[j]) \cup {x}
    BY <1>3, <1>7, AppendFacts
  <1>11. DurableOK'
    BY <1>1, <1>2, <1>3, <1>10 DEF DurableOK
  <1>12. TickOK' /\ RunOK' /\ TickShape' /\ OutputFirst'
    BY <1>1, <1>2, <1>4 DEF CronInv, TickOK, RunOK, TickShape, OutputFirst
  <1>13. Continues'
    BY <1>2, <1>4, <1>8, <1>9 DEF Continues, Pending
  <1>14. OutputKept'
    <2>1. ASSUME NEW i \in Job PROVE ToSet(log'[i]) \subseteq outputs'[i]
      <3>1. ToSet(log[i]) \subseteq outputs[i] /\ outputs' = outputs
        BY <1>2 DEF CronInv, OutputKept, Recorded
      <3>2. CASE i = j
        BY <1>3, <1>9, <1>10, <3>1, <3>2
      <3>3. CASE i # j
        BY <1>9, <3>1, <3>3
      <3> QED BY <3>2, <3>3
    <2> QED BY <2>1 DEF OutputKept, Recorded
  <1>15. Anchored'
    <2>1. ASSUME NEW i \in Job
          PROVE  IF lastRun'[i] = None THEN log'[i] = <<>>
                 ELSE anchor'[i] # None /\ anchor'[i] <= lastRun'[i]
      <3>1. CASE i = j
        <4>1. anchor[j] # None /\ anchor[j] <= x
          BY <1>3, <1>7, <1>8, BoundFacts
        <4> QED BY <1>2, <1>9, <3>1, <4>1
      <3>2. CASE i # j
        BY <1>2, <1>9, <3>2 DEF CronInv, Anchored
      <3> QED BY <3>1, <3>2
    <2> QED BY <2>1 DEF Anchored
  <1>16. CaughtUp'
    <2>1. SUFFICES ASSUME NEW i \in Job, lastRun'[i] # None
                   PROVE  /\ anchor[i] # None
                          /\ \A k \in 1 .. (Len(log'[i]) - 1) : log'[i][k] < log'[i][k + 1]
                          /\ \A e \in ToSet(log'[i]) :
                                e \in OnSchedule[setup][i] /\ e <= lastRun'[i]
                          /\ Loaded[setup][i].missed = "catchUp" =>
                                \A e \in (anchor[i] + 1) .. lastRun'[i] :
                                    e \in Boundaries[setup][i] => e \in ToSet(log'[i])
      BY <1>2 DEF CaughtUp, Recorded, Matches, Boundary, CronJob
    <2>2. CASE i # j
      BY <1>9, <2>1, <2>2 DEF CronInv, CaughtUp, Recorded, Matches, Boundary, CronJob
    <2>3. CASE i = j
      <3>1. /\ anchor[j] # None
            /\ \A k \in 1 .. (Len(log[j]) - 1) : log[j][k] < log[j][k + 1]
            /\ \A e \in ToSet(log[j]) :
                  e \in OnSchedule[setup][j] /\ e <= lastRun[j]
            /\ Loaded[setup][j].missed = "catchUp" =>
                  \A e \in (anchor[j] + 1) .. lastRun[j] :
                      e \in Boundaries[setup][j] => e \in ToSet(log[j])
        BY <1>3, <1>6 DEF CronInv, CaughtUp, Recorded, Matches, Boundary, CronJob
      <3> DEFINE new == Append(log[j], x)
      <3>2. setup \in DOMAIN Setups
        BY TypeParts DEF CronInv, WorldOK
      <3>3. Loaded[setup][j].missed = "catchUp" =>
               \A e \in (lastRun[j] + 1) .. (x - 1) : e \notin Boundaries[setup][j]
        BY <1>8 DEF Clear
      <3>4. /\ \A k \in 1 .. (Len(new) - 1) : new[k] < new[k + 1]
            /\ \A e \in ToSet(new) : e \in OnSchedule[setup][j] /\ e <= x
            /\ (/\ \A e \in (anchor[j] + 1) .. lastRun[j] :
                      e \in Boundaries[setup][j] => e \in ToSet(log[j])
                /\ \A e \in (lastRun[j] + 1) .. (x - 1) : e \notin Boundaries[setup][j])
               => \A e \in (anchor[j] + 1) .. x : e \in Boundaries[setup][j] => e \in ToSet(new)
        BY <1>3, <1>7, <1>8, <3>1, <3>2, RecordOne
      <3> HIDE DEF new
      <3>5. Loaded[setup][j].missed = "catchUp" =>
               \A e \in (anchor[j] + 1) .. x : e \in Boundaries[setup][j] => e \in ToSet(new)
        BY <3>1, <3>3, <3>4
      <3>6. log'[i] = new /\ lastRun'[i] = x
        BY <1>9, <2>3 DEF new
      <3> QED BY <2>3, <3>1, <3>4, <3>5, <3>6
    <2> QED BY <2>2, <2>3
  <1> QED BY <1>11, <1>12, <1>13, <1>14, <1>15, <1>16 DEF StepKeeps

\* A failed write, a stop, an exit and a crash end the run; a restart begins anew.
LEMMA ProcessStep ==
    ASSUME CronInv, setup' = setup,
           WriteFails \/ StopIdle \/ Exit \/ Crash \/ Restart
    PROVE  StepKeeps'
  <1>1. UNCHANGED durable
    BY DEF WriteFails, StopIdle, Exit, Crash, Restart, Gone
  <1>2. CASE WriteFails
    <2>1. proc # "down"
      BY <1>2, CalmTicks DEF WriteFails, CronInv, TickShape
    <2> QED BY <1>1, <1>2, <2>1, CalmTicks, CalmStep DEF WriteFails, RunOver
  <1>3. CASE StopIdle \/ Exit \/ Crash
    BY <1>1, <1>3, CalmTicks, CalmStep DEF StopIdle, Exit, Crash, Gone
  <1>4. CASE Restart
    <2>1. run = None /\ run' = run /\ proc' = "up" /\ tick' = Armed
      BY <1>4 DEF Restart, CronInv, TickShape
    <2> QED BY <1>1, <2>1, CalmTicks, CalmStep
  <1> QED BY <1>2, <1>3, <1>4

\* Time moves forward, a tick reads the clock, and what it records is not later.
LEMMA TimelyNext ==
    ASSUME CronInv, [Next]_vars
    PROVE  Timely'
  <1>1. WorldOK /\ TickOK /\ RunOK /\ DurableOK
    BY TypeParts DEF CronInv
  <1>2. /\ clock \in Int /\ tick.at \in Int
        /\ \A j \in Job : lastRun[j] # None => lastRun[j] \in Int
    BY <1>1, BoundFacts DEF WorldOK, TickOK, Ticks, DurableOK
  <1>3. CASE UNCHANGED vars
    BY <1>3 DEF CronInv, Timely, NotAhead, vars
  <1>4. CASE Advance
    BY <1>2, <1>4 DEF CronInv, Timely, NotAhead, Advance, durable
  <1>5. CASE EditSchedules \/ LoadNothing \/ StartBootRun \/ RunEnds \/ CommandTimeout \/ WriteRun \/ Stop
    <2>1. UNCHANGED <<clock, tick, lastRun>>
      BY <1>5 DEF EditSchedules, LoadNothing, StartBootRun, RunEnds, CommandTimeout, WriteRun, Stop,
                  durable, world, vars
    <2> QED BY <2>1 DEF CronInv, Timely, NotAhead
  <1>6. CASE LoadJobs
    <2>1. clock' = clock /\ lastRun' = lastRun /\ tick'.at = clock
      BY <1>6 DEF LoadJobs, world, durable
    <2> QED BY <1>2, <2>1 DEF CronInv, Timely, NotAhead
  <1>7. CASE BootRunsDone \/ Due \/ StartFire \/ JobDone
    <2>1. clock' = clock /\ lastRun' = lastRun
      BY <1>7 DEF BootRunsDone, Due, StartFire, JobDone, world, durable
    <2>2. tick.phase \in {"boot", "jobs", "due"}
      BY <1>7 DEF BootRunsDone, Due, StartFire, JobDone
    <2>3. tick'.phase \in {"boot", "jobs", "due"} => tick'.at = tick.at
      BY <1>1, <1>7, CalmTicks DEF BootRunsDone, Due, StartFire, JobDone, AfterJob, TickOK, Ticks
    <2> QED BY <2>1, <2>2, <2>3 DEF CronInv, Timely, NotAhead
  <1>8. CASE Anchor \/ Unreadable
    <2>1. clock' = clock /\ tick' = AfterJob /\ tick.phase = "jobs"
          /\ lastRun' = [lastRun EXCEPT ![Head(tick.queue)] = tick.at]
      BY <1>8 DEF Anchor, Unreadable, AnchorHead, world
    <2>2. tick'.phase \in {"boot", "jobs", "due"} => tick'.at = tick.at
      BY <1>1, <2>1, CalmTicks DEF AfterJob, TickOK, Ticks
    <2>3. \A j \in Job : lastRun'[j] = tick.at \/ lastRun'[j] = lastRun[j]
      BY <1>1, <2>1 DEF DurableOK
    <2> QED BY <1>2, <2>1, <2>2, <2>3 DEF CronInv, Timely, NotAhead
  <1>9. CASE WriteLastRun
    <2> DEFINE j == run.job
               x == run.at
    <2>1. /\ clock' = clock /\ tick' = tick /\ run # None /\ run \in Run /\ run.stage = "record"
          /\ lastRun' = [lastRun EXCEPT ![j] = x]
      BY <1>1, <1>9 DEF WriteLastRun, world, RunOK
    <2>2. j \in Job /\ x \in Minute /\ ~run.boot
      BY <2>1 DEF Run, CronInv, OutputFirst
    <2>3. tick.phase = "due" /\ j = Head(tick.queue)
      BY <2>1, <2>2 DEF CronInv, TickShape
    <2>4. tick.due \in Seq(Minute)
      BY <1>1 DEF TickOK, Ticks
    <2> HIDE DEF j, x
    <2>5. lastRun[j] # None /\ Chain(setup, j, lastRun[j], <<x>> \o tick.due, tick.at)
      BY <2>1, <2>3 DEF CronInv, Continues, Pending, x
    <2>6. x <= tick.at
      <3>1. (<<x>> \o tick.due)[1] = x /\ 1 \in 1 .. Len(<<x>> \o tick.due)
        BY <2>2, <2>4
      <3> QED BY <2>5, <3>1 DEF Chain
    <2>7. \A i \in Job : lastRun'[i] = x \/ lastRun'[i] = lastRun[i]
      BY <1>1, <2>1 DEF DurableOK
    <2>8. x \in Int
      BY <2>2, BoundFacts
    <2> QED BY <1>2, <2>1, <2>3, <2>6, <2>7, <2>8 DEF CronInv, Timely, NotAhead
  <1>10. CASE WriteFails \/ StopIdle \/ Exit \/ Crash \/ Restart
    <2>1. clock' = clock /\ lastRun' = lastRun /\ tick'.phase \in {"idle", "armed"}
      BY <1>10, CalmTicks DEF WriteFails, StopIdle, Exit, Crash, Restart, Gone, durable, world
    <2> QED BY <2>1 DEF CronInv, Timely, NotAhead
  <1> QED BY <1>3, <1>4, <1>5, <1>6, <1>7, <1>8, <1>9, <1>10 DEF Next

LEMMA CronNext == CronInv /\ [Next]_vars => CronInv'
  <1>1. SUFFICES ASSUME CronInv, [Next]_vars PROVE CronInv'
    OBVIOUS
  <1>2. WorldOK' /\ setup' = setup
    BY <1>1, WorldNext DEF CronInv
  <1>3. StepKeeps'
    <2>1. CASE UNCHANGED vars
      BY <1>1, <2>1, FrameStep DEF vars, durable
    <2>2. CASE Advance \/ EditSchedules \/ LoadNothing \/ Stop
      <3>1. UNCHANGED <<setup, tick, run, durable>> /\ (proc' = "down" => proc = "down")
        BY <2>2 DEF Advance, EditSchedules, LoadNothing, Stop, process, durable, vars
      <3> QED BY <1>1, <3>1, FrameStep
    <2>3. CASE LoadJobs
      BY <1>1, <1>2, <2>3, LoadJobsStep
    <2>4. CASE StartBootRun
      BY <1>1, <1>2, <2>4, StartBootRunStep
    <2>5. CASE BootRunsDone
      BY <1>1, <1>2, <2>5, BootRunsDoneStep
    <2>6. CASE Anchor \/ Unreadable
      BY <1>1, <1>2, <2>6, AnchorStep
    <2>7. CASE Due
      BY <1>1, <1>2, <2>7, DueStep
    <2>8. CASE StartFire
      BY <1>1, <1>2, <2>8, StartFireStep
    <2>9. CASE JobDone
      BY <1>1, <1>2, <2>9, JobDoneStep
    <2>10. CASE RunEnds \/ CommandTimeout
      BY <1>1, <1>2, <2>10, StageStep
    <2>11. CASE WriteRun
      BY <1>1, <1>2, <2>11, WriteRunStep
    <2>12. CASE WriteLastRun
      BY <1>1, <1>2, <2>12, WriteLastRunStep
    <2>13. CASE WriteFails \/ StopIdle \/ Exit \/ Crash \/ Restart
      BY <1>1, <1>2, <2>13, ProcessStep
    <2> QED BY <1>1, <2>1, <2>2, <2>3, <2>4, <2>5, <2>6, <2>7, <2>8, <2>9, <2>10, <2>11, <2>12, <2>13
            DEF Next
  <1> QED BY <1>1, <1>2, <1>3, TypeParts, TimelyNext DEF StepKeeps, CronInv

-----------------------------------------------------------------------------
(***************************************************************************)
(* The theorems.                                                           *)
(***************************************************************************)

\* Whatever the files say and whenever the process stops, crashes, fails to write
\* or is started again: the types, the cap on a tick's fires, and the output of a
\* fire in place before last-run.json names it.
THEOREM ConsistentHolds == Spec => []Consistent
  <1>1. CronInv => Consistent
    BY DEF CronInv, Consistent
  <1> QED BY <1>1, CronInit, CronNext, PTL DEF Spec

\* At every minute nextRunAfter gives each job a later time of its schedule and
\* passes over none but those of a repeated hour.
THEOREM NextRunIsExact == Spec => []NextRunExact
  <1>1. CronInv => NextRunExact
    <2>1. SUFFICES ASSUME CronInv, NEW j \in Job
                   PROVE  LET next == NextRun(j, clock)
                          IN  IF next = None
                              THEN \A e \in (clock + 1) .. (clock + MaxDays * DayLength) :
                                      DayOf(j, e) < DayOf(j, clock) + MaxDays => ~Boundary(j, e)
                              ELSE /\ next > clock /\ Matches(j, next)
                                   /\ \A e \in (clock + 1) .. (next - 1) : ~Boundary(j, e)
      BY DEF NextRunExact
    <2>2. setup \in DOMAIN Setups /\ clock \in Minute
      BY <2>1 DEF CronInv, TypeOK
    <2>3. CASE NextRun(j, clock) = None
      <3>1. \A e \in (clock + 1) .. Horizon :
               DayOf(j, e) < DayOf(j, clock) + MaxDays => ~Boundary(j, e)
        BY <2>2, <2>3, NextRunFacts
      <3>2. \A e : Boundary(j, e) => e \in 0 .. Horizon
        BY <2>2 DEF Boundary, Boundaries, OnSchedule
      <3>3. ASSUME NEW e \in (clock + 1) .. (clock + MaxDays * DayLength), Boundary(j, e)
            PROVE  e \in (clock + 1) .. Horizon
        <4>1. clock \in Int /\ Horizon \in Int
          BY <2>2, BoundFacts, HorizonFacts
        <4>2. MaxDays * DayLength \in Int
          BY CalendarFacts
        <4>3. e \in Int /\ clock + 1 <= e
          BY <4>1, <4>2
        <4>4. e <= Horizon
          BY <3>2, <3>3, <4>1, <4>3
        <4> QED BY <4>1, <4>3, <4>4
      <3> QED BY <2>3, <3>1, <3>3
    <2>4. CASE NextRun(j, clock) # None
      <3>1. /\ NextRun(j, clock) \in Int /\ clock < NextRun(j, clock)
            /\ Matches(j, NextRun(j, clock)) /\ Gap(j, clock, NextRun(j, clock))
        BY <2>2, <2>4, NextRunFacts
      <3>2. clock \in Int
        BY <2>2, BoundFacts
      <3> QED BY <2>4, <3>1, <3>2 DEF Gap
    <2> QED BY <2>3, <2>4
  <1> QED BY <1>1, CronInit, CronNext, PTL DEF Spec

\* The recorded fires of a job are in order and on its schedule; a job in catchUp
\* mode records every boundary since it was last anchored, which an unreadable
\* last-run.json does anew; a job in skip mode fires the latest one and no backlog.
THEOREM MissedRunsHold == Spec => []MissedRuns
  <1>1. CronInv => MissedRuns
    <2>1. SUFFICES ASSUME CronInv PROVE CaughtUp /\ SkipsToLatest
      BY DEF MissedRuns
    <2>2. ASSUME run # None, ~run.boot, CronJob(run.job).missed = "skip"
          PROVE  tick.due = <<>> /\ \A e \in (run.at + 1) .. tick.at : ~Boundary(run.job, e)
      <3> DEFINE j == run.job
                 x == run.at
      <3>1. TickOK /\ RunOK /\ DurableOK
        BY <2>1, TypeParts DEF CronInv
      <3>2. j \in Job /\ x \in Minute /\ tick.due \in Seq(Minute) /\ tick.at \in Minute
        BY <2>2, <3>1 DEF TickOK, Ticks, RunOK, Run
      <3>3. tick.phase = "due" /\ j = Head(tick.queue)
        BY <2>1, <2>2 DEF CronInv, TickShape
      <3> HIDE DEF j, x
      <3>4. lastRun[j] # None /\ Chain(setup, j, lastRun[j], <<x>> \o tick.due, tick.at)
        BY <2>1, <2>2, <3>3 DEF CronInv, Continues, Pending, x
      <3>5. lastRun[j] \in Minute
        BY <3>1, <3>2, <3>4 DEF DurableOK
      <3>6. Loaded[setup][j].missed = "skip"
        BY <2>2 DEF CronJob, j
      <3>7. tick.due = <<>> /\ Clear(setup, j, x, tick.at + 1)
        BY <3>2, <3>4, <3>5, <3>6, ChainTail
      <3>8. (tick.at + 1) - 1 = tick.at
        BY <3>2, BoundFacts
      <3>9. \A e \in (x + 1) .. tick.at : ~Boundary(j, e)
        BY <3>7, <3>8 DEF Clear, Boundary
      <3> QED BY <3>7, <3>9 DEF j, x
    <2> QED BY <2>1, <2>2 DEF CronInv, SkipsToLatest
  <1> QED BY <1>1, CronInit, CronNext, PTL DEF Spec
=============================================================================
