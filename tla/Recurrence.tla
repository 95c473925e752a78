----------------------------- MODULE Recurrence -----------------------------
(***************************************************************************)
(* The rules of recurring events: internal/recurrence.                     *)
(*                                                                         *)
(* Time is counted in minutes, PerDay to the day, from 1 January 2024, a   *)
(* Monday and the start of a leap year.  The days are those of the civil   *)
(* calendar: what AddDate and time.Date make of a day that a month lacks   *)
(* is what this module is about.  A rule is the record that Parse returns. *)
(***************************************************************************)
EXTENDS Integers, Sequences, SequencesExt, FiniteSetsExt

CONSTANTS
    PerDay,          \* minutes of a day, and an event's start falls on one
    MaxMonths,       \* the calendar's months, and its end
    MaxIterations    \* next's safety limit

ASSUME RecurrenceAssumption ==
    /\ {PerDay, MaxMonths, MaxIterations} \subseteq Nat
    /\ PerDay > 0

FirstYear == 2024
IsLeap(y) == y % 4 = 0 /\ (y % 100 # 0 \/ y % 400 = 0)

MonthLength(k) ==
    LET m == k % 12
    IN  IF m = 1 THEN (IF IsLeap(FirstYear + k \div 12) THEN 29 ELSE 28)
        ELSE IF m \in {3, 5, 8, 10} THEN 30 ELSE 31

LeapDays(y) == y \div 4 - y \div 100 + y \div 400
BeforeMonth == <<0, 31, 59, 90, 120, 151, 181, 212, 243, 273, 304, 334>>

(* The day on which the month k after January of the first year begins *)
MonthStart(k) ==
    LET y == FirstYear + k \div 12
        leap == k % 12 > 1 /\ IsLeap(y)
    IN  365 * (k \div 12) + LeapDays(y - 1) - LeapDays(FirstYear - 1)
          + BeforeMonth[(k % 12) + 1] + (IF leap THEN 1 ELSE 0)

Horizon == MonthStart(MaxMonths)    \* the first day that is not looked at

Day(t) == t \div PerDay
Minute(t) == t % PerDay
MonthOf(day) == CHOOSE k \in (day \div 31)..(day \div 28) :
    MonthStart(k) <= day /\ day < MonthStart(k + 1)
DayOfMonth(day) == day - MonthStart(MonthOf(day)) + 1
Weekday(day) == day % 7             \* Monday is 0
WeekStart(day) == day - Weekday(day)

(* time.Date: days beyond a month's end run into the next one. *)
Date(month, day) == IF month >= MaxMonths THEN Horizon ELSE MonthStart(month) + day - 1
AddMonths(day, n) == Date(MonthOf(day) + n, DayOfMonth(day))

NoLimit == 0
NoUntil == -1

(* The rules that Parse accepts *)
Rules == [freq : {"daily", "weekly", "monthly", "yearly"}, interval : Nat \ {0},
          byDay : Seq(0..6), byMonthDay : 0..31, count : Nat, until : Int]

Rule(freq, interval, byDay, byMonthDay, count, until) ==
    [freq |-> freq, interval |-> interval, byDay |-> byDay, byMonthDay |-> byMonthDay,
     count |-> count, until |-> until]

-----------------------------------------------------------------------------
(* The iterator: where it is, a day (of BYDAY, the week and which of its   *)
(* days), and the day it came up with.                                     *)

Iterators == [current : Int, index : Nat, day : Int]
OnDay(day) == [current |-> day, index |-> 1, day |-> day]
Forever == -1    \* instead of a day: next does not return

FindNextByDay(rule, first, week, from) ==
    LET day(w, i) == w + rule.byDay[i]
        here == {i \in from..Len(rule.byDay) : day(week, i) >= first}
        later == week + 7 * rule.interval
    IN  IF here # {} THEN [current |-> week, index |-> Min(here), day |-> day(week, Min(here))]
        ELSE [current |-> later, index |-> 1, day |-> day(later, 1)]

AdvanceWeeklyByDay(rule, first, it) ==
    IF it.index < Len(rule.byDay) THEN FindNextByDay(rule, first, it.current, it.index + 1)
    ELSE FindNextByDay(rule, first, it.current + 7 * rule.interval, 1)

MonthDay(rule, first) == IF rule.byMonthDay = 0 THEN DayOfMonth(first) ELSE rule.byMonthDay

(* Fault: a month that is too short gets its last day. *)
AdvanceMonthlyClamped(rule, first, it) ==
    LET month == MonthOf(it.current) + rule.interval
        last == MonthLength(month)
        day == MonthDay(rule, first)
    IN  OnDay(Date(month, IF day > last THEN last ELSE day))

Cycle == 4800    \* months after which the calendar repeats

(* No month that is reached from "current" by the interval has the day, so *)
(* the loop that looks for one stays in it.  A month too short for the day *)
(* "current" falls on would end it: the next one has all days.             *)
Endless(rule, day, current) ==
    \A i \in 1..Cycle :
        LET length == MonthLength(MonthOf(current) + i * rule.interval)
        IN  DayOfMonth(current) <= length /\ length < day

(* Months without the day are skipped, an interval at a time. *)
AdvanceMonthly(rule, first, it) ==
    LET day == MonthDay(rule, first)
        skip[next \in Nat] ==
            IF next >= Horizon THEN Horizon
            ELSE IF day <= MonthLength(MonthOf(next)) THEN Date(MonthOf(next), day)
            ELSE skip[AddMonths(next, rule.interval)]
    IN  OnDay(IF Endless(rule, day, it.current) THEN Forever
              ELSE skip[AddMonths(it.current, rule.interval)])

(* From 29 February AddDate gets to 29 February or to 1 March, and from    *)
(* 1 March to no other day, so the loop that waits for a 29th stays in it. *)
AdvanceYearly(rule, first, it) ==
    LET next == AddMonths(it.current, 12 * rule.interval)
        leapDay == MonthOf(first) % 12 = 1 /\ DayOfMonth(first) = 29
    IN  OnDay(IF leapDay /\ next < Horizon /\ DayOfMonth(next) # 29 THEN Forever ELSE next)

ByDay(rule) == rule.freq = "weekly" /\ rule.byDay # <<>>

StartOf(rule, first) ==
    IF ByDay(rule) THEN FindNextByDay(rule, first, WeekStart(first), 1) ELSE OnDay(first)

Advance(rule, first, it) ==
    CASE rule.freq = "daily" -> OnDay(it.current + rule.interval)
      [] rule.freq = "weekly" -> IF ByDay(rule) THEN AdvanceWeeklyByDay(rule, first, it)
                                 ELSE OnDay(it.current + 7 * rule.interval)
      [] rule.freq = "monthly" -> AdvanceMonthly(rule, first, it)
      [] rule.freq = "yearly" -> AdvanceYearly(rule, first, it)

(* What Expand appends on its way through the rule's days: the starts of   *)
(* the occurrences that overlap the range.  A round of its loop appends    *)
(* one of them, or none, and the rest of the rounds the others.            *)
TimeOf(start, day) == day * PerDay + Minute(start)

Round(rule, start, length, from, to, n, rest) ==
    [it \in Iterators |->
        LET time == TimeOf(start, it.day)
            over == \/ n > MaxIterations
                    \/ rule.until # NoUntil /\ time > rule.until
                    \/ time >= to
                    \/ rule.count # NoLimit /\ n > rule.count
        IN  IF it.day = Forever THEN <<Forever>>
            ELSE IF over THEN <<>>
            ELSE (IF time + length > from THEN <<time>> ELSE <<>>)
                    \o rest[Advance(rule, Day(start), it)]]

Walk(rule, start, length, from, to) ==
    LET walk[n \in Nat] == Round(rule, start, length, from, to, n, walk[n + 1])
    IN  walk

Expand(rule, start, length, from, to) ==
    Walk(rule, start, length, from, to)[1][StartOf(rule, Day(start))]

ExpandReturns(rule, start, length, from, to) ==
    Forever \notin Range(Expand(rule, start, length, from, to))

-----------------------------------------------------------------------------
(* What a rule means, day by day, after a time. *)

Meets(rule, first, day) ==
    LET months == MonthOf(day) - MonthOf(first)
    IN  CASE rule.freq = "daily" -> (day - first) % rule.interval = 0
          [] ByDay(rule) -> /\ Weekday(day) \in Range(rule.byDay)
                            /\ (WeekStart(day) - WeekStart(first)) % (7 * rule.interval) = 0
          [] rule.freq = "weekly" /\ ~ByDay(rule) -> (day - first) % (7 * rule.interval) = 0
          [] rule.freq = "monthly" -> \/ day = first
                                      \/ /\ months > 0
                                         /\ months % rule.interval = 0
                                         /\ DayOfMonth(day) = MonthDay(rule, first)
          [] rule.freq = "yearly" -> /\ months % (12 * rule.interval) = 0
                                     /\ DayOfMonth(day) = DayOfMonth(first)

Meant(rule, start, after, to) ==
    LET first == Day(start)
        low == IF rule.count = NoLimit THEN Max({first, Day(after)}) ELSE first
        days == {d \in low..Day(to) : Meets(rule, first, d)}
        times == {t \in {TimeOf(start, d) : d \in days} :
                    t < to /\ (rule.until # NoUntil => t <= rule.until)}
    IN  {t \in times : /\ t > after
                       /\ \/ rule.count = NoLimit
                          \/ Cardinality({u \in times : u <= t}) <= rule.count}

(* Rules that keep to their meaning: beyond the 28th only month by month   *)
(* and not on a day before the first one's, 29 February never by the year, *)
(* and days of the week in their order.                                    *)
Regular(rule, start) ==
    LET first == Day(start)
    IN  /\ rule.freq = "monthly" =>
            \/ rule.interval = 1 /\ DayOfMonth(first) <= MonthDay(rule, first)
            \/ rule.interval = 1 /\ DayOfMonth(first) <= 28
            \/ DayOfMonth(first) <= 28 /\ MonthDay(rule, first) <= 28
        /\ rule.freq = "yearly" => ~(MonthOf(first) % 12 = 1 /\ DayOfMonth(first) = 29)
        /\ \A i, j \in DOMAIN rule.byDay : i < j => rule.byDay[i] < rule.byDay[j]
=============================================================================
