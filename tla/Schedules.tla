----------------------------- MODULE Schedules -----------------------------
(***************************************************************************)
(* When a scheduled task runs: nextRunAt and its helpers                    *)
(* (src/core/scheduler/engine.ts), cronNextRun (src/core/scheduler/cron.ts) *)
(* and the timer set for the answer, for one task.  SchedulerEngine models  *)
(* many tasks with abstract slots; here the slots are computed.             *)
(*                                                                         *)
(* The calendar is a parameter: a small one has every boundary the real one *)
(* has.  Instants are ticks, several to a minute.  A field of a cron        *)
(* expression is the set of its values and whether it is `*'; parsing is    *)
(* left out, and so is a change of the offset of local time (cronNextRun    *)
(* keeps the offset of its `from', the other modes follow the calendar).    *)
(***************************************************************************)
EXTENDS Integers, Sequences, FiniteSets, FiniteSetsExt

CONSTANTS
    TicksPerMinute, MinutesPerHour, HoursPerDay, DaysPerWeek,
    MonthDays,      \* the lengths of the months of every year
    Offset,         \* minutes by which local time is behind UTC
    MaxAhead,       \* minutes for which a next run is searched
    MaxDelay,       \* the longest delay setTimeout honours; a longer one fires at once
    MaxMissed,      \* slots lastMissedRunAt walks over at most
    Plans,          \* schedules, with their startAt and endAt
    MaxRunTicks,    \* bound on how long a run takes
    LastInstant     \* bound on time

Never == -1     \* null, undefined

Intervals == {"every_n_minutes", "every_n_hours"}
CronField == [values : SUBSET Nat, star : BOOLEAN]
Schedule ==
    [mode : Intervals \cup {"daily", "weekdays", "weekly", "monthly", "cron"}, n : Nat \ {0},
     times : SUBSET (Nat \X Nat), weekdays : SUBSET Nat, days : SUBSET Nat,
     cron : [{"minute", "hour", "day", "month", "weekday"} -> CronField],
     startAt : Nat, endAt : Nat \cup {Never}]

\* More than one tick to a minute, since a search goes on a tick after the last
\* slot; more than one month, since a search knows a day by its day and month.
ASSUME SchedulesAssumption ==
    /\ {TicksPerMinute, MinutesPerHour, HoursPerDay, DaysPerWeek} \subseteq Nat \ {0}
    /\ TicksPerMinute > 1
    /\ MonthDays \in Seq(Nat \ {0}) /\ Len(MonthDays) > 1
    /\ {Offset, MaxAhead, MaxDelay, MaxMissed, MaxRunTicks, LastInstant} \subseteq Nat
    /\ Offset * TicksPerMinute <= LastInstant
    /\ Plans \subseteq Schedule

VARIABLES
    plan,       \* the schedule of the task
    clock,
    timer,      \* the timer of `timers', with the slot it is for; during the run, the one that went off
    stage,      \* "down", "waiting", or "running" since the timer went off
    lastRunAt,
    fired,      \* history: when the last run began
    missed      \* what the last start of the engine took for the last missed run

scheduleVars == <<plan, clock, timer, stage, lastRunAt, fired, missed>>

-----------------------------------------------------------------------------
(* The calendar, in local minutes                                          *)

MinutesPerDay == MinutesPerHour * HoursPerDay
Months == DOMAIN MonthDays
DaysThrough[m \in 0 .. Len(MonthDays)] ==
    IF m = 0 THEN 0 ELSE DaysThrough[m - 1] + MonthDays[m]
YearDays == DaysThrough[Len(MonthDays)]

MinuteOf(n) == n % MinutesPerHour
HourOf(n) == (n \div MinutesPerHour) % HoursPerDay
DayNumber(n) == n \div MinutesPerDay
WeekdayOf(n) == DayNumber(n) % DaysPerWeek
DayOfYear(n) == DayNumber(n) % YearDays
MonthOf(n) == Max({m \in Months : DaysThrough[m - 1] <= DayOfYear(n)})
DayOf(n) == DayOfYear(n) - DaysThrough[MonthOf(n) - 1] + 1

Local(minute) == minute - Offset
Minute(t) == t \div TicksPerMinute
Instant(minute) == minute * TicksPerMinute

-----------------------------------------------------------------------------
(* Cron                                                                    *)

\* dayMatchesVixie: either field decides, or the one that is restricted.
DayMatches(c, n) ==
    LET byDay == DayOf(n) \in c.day.values
        byWeekday == WeekdayOf(n) \in c.weekday.values
    IN  \/ c.day.star /\ c.weekday.star
        \/ c.day.star /\ byWeekday
        \/ c.weekday.star /\ byDay
        \/ ~c.day.star /\ ~c.weekday.star /\ (byDay \/ byWeekday)

NextMidnight(n) == (DayNumber(n) + 1) * MinutesPerDay

\* Bug: the first of the month after the next.
FirstOfMonthAfter(n) ==
    (DayNumber(n) - DayOf(n) + 1 + MonthDays[MonthOf(n)] + 1) * MinutesPerDay
FirstOfNextMonth(n) ==
    (DayNumber(n) - DayOf(n) + 1 + MonthDays[MonthOf(n)]) * MinutesPerDay

CronMatches(c, n) ==
    /\ MinuteOf(n) \in c.minute.values /\ HourOf(n) \in c.hour.values
    /\ DayMatches(c, n)

\* A turn of the search goes a minute on, or over a whole day or month that does
\* not match; the month is looked at only when the day has changed.
CronTurn(c, ceiling, s) ==
    LET n == Local(s.minute)
        today == DayOfYear(n)
        To(minute) == [minute |-> minute, lastDay |-> today, found |-> FALSE]
    IN  IF ceiling < s.minute \/ s.found THEN s
        ELSE IF today # s.lastDay /\ MonthOf(n) \notin c.month.values
             THEN To(FirstOfNextMonth(n) + Offset)
        ELSE IF today # s.lastDay /\ ~DayMatches(c, n) THEN To(NextMidnight(n) + Offset)
        ELSE IF CronMatches(c, n) THEN [s EXCEPT !.found = TRUE]
        ELSE To(s.minute + 1)

CronNextRun(c, from) ==
    LET search[k \in 0 .. MaxAhead] ==
            IF k = 0 THEN [minute |-> Minute(from) + 1, lastDay |-> -1, found |-> FALSE]
            ELSE CronTurn(c, Minute(from) + MaxAhead, search[k - 1])
    IN  IF search[MaxAhead].found THEN Instant(search[MaxAhead].minute) ELSE Never

-----------------------------------------------------------------------------
(* nextRunAt                                                               *)

\* matchesDateMode; weekday 0 and the last one are the weekend.
MatchesDateMode(p, n) ==
    CASE p.mode = "daily"    -> TRUE
      [] p.mode = "weekdays" -> WeekdayOf(n) \in 1 .. DaysPerWeek - 2
      [] p.mode = "weekly"   -> WeekdayOf(n) \in p.weekdays
      [] p.mode = "monthly"  -> DayOf(n) \in p.days

AtATime(p, n) == <<HourOf(n), MinuteOf(n)>> \in p.times

NextForDateAnchored(p, base) ==
    LET found == {minute \in Minute(base) + 1 .. Minute(base) + MaxAhead :
                     MatchesDateMode(p, Local(minute)) /\ AtATime(p, Local(minute))}
    IN  IF found = {} THEN Never ELSE Instant(Min(found))

Boundary(t, interval) == ((t + interval - 1) \div interval) * interval

Interval(p) == Instant(p.n * IF p.mode = "every_n_hours" THEN MinutesPerHour ELSE 1)

NextRunAt(p, from) ==
    LET base == Max({from, p.startAt})
        next == CASE p.mode \in Intervals -> Boundary(base, Interval(p))
                  [] p.mode = "cron"                                 -> CronNextRun(p.cron, base)
                  [] OTHER                                           -> NextForDateAnchored(p, base)
    IN  IF p.endAt # Never /\ (p.endAt <= from \/ next > p.endAt) THEN Never ELSE next

\* A turn of lastMissedRunAt: a slot further.
MissedTurn(p, now, s) ==
    IF s.next = Never \/ s.next >= now THEN s
    ELSE [next |-> NextRunAt(p, s.next + 1), found |-> s.next]

MissedSince(p, cursor, now) ==
    LET walk[k \in 0 .. MaxMissed] ==
            IF k = 0 THEN [next |-> NextRunAt(p, cursor), found |-> Never]
            ELSE MissedTurn(p, now, walk[k - 1])
    IN  walk[MaxMissed].found

\* Bug: from the last run itself.
LastMissedFromLast(p, last, now) ==
    IF last = Never THEN Never ELSE MissedSince(p, last, now)

LastMissed(p, last, now) ==
    IF last = Never THEN Never ELSE MissedSince(p, last + 1, now)

-----------------------------------------------------------------------------
(* The timer                                                               *)

NoTimer == [slot |-> Never, at |-> Never]

\* Bug: the time of the slot is taken for the delay.
TimerForTime(p, now) ==
    LET slot == NextRunAt(p, now)
    IN  IF slot = Never THEN NoTimer ELSE [slot |-> slot, at |-> now + slot]

\* scheduleOne: setTimeout takes a delay of 32 bits.
TimerFor(p, now) ==
    LET slot == NextRunAt(p, now)
    IN  IF slot = Never THEN NoTimer
        ELSE [slot |-> slot, at |-> IF slot - now > MaxDelay THEN now ELSE slot]

\* load(): the next run, and what was missed (the run that catches it up is
\* SchedulerEngine's).
StartEngine ==
    /\ stage = "down" /\ stage' = "waiting"
    /\ timer' = TimerFor(plan, clock)
    /\ missed' = LastMissed(plan, lastRunAt, clock)
    /\ UNCHANGED <<plan, clock, lastRunAt, fired>>

\* The timer goes off.  (Bound: no late timer.)
Fire ==
    /\ stage = "waiting" /\ timer # NoTimer /\ timer.at <= clock
    /\ stage' = "running" /\ fired' = clock
    /\ UNCHANGED <<plan, clock, timer, lastRunAt, missed>>

\* The run ends, later than it began, is recorded under its slot and sets the next timer.
RunEnds ==
    /\ stage = "running" /\ clock > fired
    /\ stage' = "waiting" /\ timer' = TimerFor(plan, clock) /\ lastRunAt' = timer.slot
    /\ UNCHANGED <<plan, clock, fired, missed>>

\* The process ends; a run it was in leaves no record.
StopEngine ==
    /\ stage # "down" /\ stage' = "down" /\ timer' = NoTimer
    /\ UNCHANGED <<plan, clock, lastRunAt, fired, missed>>

Tick ==
    /\ clock < LastInstant /\ clock' = clock + 1
    /\ stage = "waiting" => timer.at > clock \/ timer = NoTimer
    /\ stage = "running" => clock < fired + MaxRunTicks
    /\ UNCHANGED <<plan, timer, stage, lastRunAt, fired, missed>>

SchedulesInit ==
    /\ plan \in Plans /\ clock = Instant(Offset) /\ stage = "down"
    /\ timer = NoTimer /\ lastRunAt = Never /\ fired = Never /\ missed = Never

SchedulesNext == StartEngine \/ Fire \/ RunEnds \/ StopEngine \/ Tick

SchedulesSpec == SchedulesInit /\ [][SchedulesNext]_scheduleVars

-----------------------------------------------------------------------------
(* Properties                                                              *)

\* What the schedule says, instant by instant.
IsSlot(p, t) ==
    LET n == Local(Minute(t))
    IN  /\ t >= p.startAt /\ (p.endAt # Never => t <= p.endAt)
        /\ IF p.mode \in Intervals THEN t % Interval(p) = 0
           ELSE /\ t % TicksPerMinute = 0
                /\ IF p.mode = "cron"
                   THEN /\ MinuteOf(n) \in p.cron.minute.values /\ HourOf(n) \in p.cron.hour.values
                        /\ MonthOf(n) \in p.cron.month.values /\ DayMatches(p.cron, n)
                   ELSE MatchesDateMode(p, n) /\ AtATime(p, n)

\* A slot at startAt itself counts for intervals only.
Due(p, t) == IsSlot(p, t) /\ (t > p.startAt \/ p.mode \in Intervals)

\* From every instant with a slot to come, the search goes far enough for one.
SearchReaches ==
    \A p \in Plans : \A from, t \in 0 .. LastInstant :
        from < t /\ Due(p, t) =>
            \E u \in from + 1 .. t :
                /\ Due(p, u)
                /\ p.mode \in Intervals \/ Minute(u) <= Minute(Max({from, p.startAt})) + MaxAhead

\* No delay is longer than the timer honours, and no outage misses more slots
\* than lastMissedRunAt walks over.
DelaysFit ==
    \A p \in Plans : \A from \in 0 .. LastInstant : NextRunAt(p, from) - from <= MaxDelay
MissesFit ==
    \A p \in Plans : \A from, now \in 0 .. LastInstant :
        Cardinality({t \in from + 1 .. now - 1 : IsSlot(p, t)}) <= MaxMissed

SchedulesTypeOK ==
    /\ plan \in Plans /\ clock \in 0 .. LastInstant
    /\ timer # NoTimer => timer.slot \in Nat /\ timer.at \in 0 .. timer.slot
    /\ stage \in {"down", "waiting", "running"} /\ (stage = "running" => timer # NoTimer)
    /\ {lastRunAt, fired, missed} \subseteq (0 .. LastInstant) \cup {Never}

\* A waiting task waits for its next slot: the search jumps over none, although it
\* tests the month once a day and leaps over days and months, and it stops at the
\* ends of the schedule.
TimerIsForNextSlot ==
    stage = "waiting" =>
        /\ timer # NoTimer => IsSlot(plan, timer.slot)
        /\ \A t \in clock + 1 .. LastInstant :
               Due(plan, t) => timer # NoTimer /\ timer.slot <= t

\* No slot is run twice by its timer, and slots are run in their order.
SlotsInOrder == stage # "running" /\ stage' = "running" => timer.slot > lastRunAt

\* engine.test.ts:241: "catches up only the most recent missed run on load": what
\* a start takes for missed is the last slot since the last run.
MissedIsLatest ==
    stage = "down" /\ stage' = "waiting" /\ lastRunAt # Never =>
        LET passed == {t \in lastRunAt + 1 .. clock - 1 : IsSlot(plan, t)}
        IN  missed' = IF passed = {} THEN Never ELSE Max(passed)

\* packages/protocol/index.ts:69: startAt is the "First allowed fire time": no run
\* begins before it.
NotBeforeStart == stage = "running" => fired >= plan.startAt

\* Over runs that end late, outages and restarts the timer runs no slot twice or
\* out of order, and a start catches up the latest slot that was missed.
SlotsKept == [][SlotsInOrder /\ MissedIsLatest]_scheduleVars
=============================================================================
