----------------------------- MODULE MCCalendar -----------------------------
(* The instances of Calendar that TLC checks.  A day has two minutes.      *)
EXTENDS Calendar

(* The last day of January, at the second minute, and that of February *)
JanuaryEnd == 30 * PerDay + 1
LeapDay == 59 * PerDay + 1

Every(freq, interval) == Rule(freq, interval, <<>>, 0, NoLimit, NoUntil)

SeriesRules ==
    {Every("monthly", 1), Every("yearly", 1),
     Rule("weekly", 2, <<0, 2, 6>>, 0, 8, NoUntil),
     Rule("daily", 2, <<>>, 0, NoLimit, LeapDay - 1),
     Rule("monthly", 1, <<>>, 30, NoLimit, NoUntil)}

From(start, rules) == {[start |-> start, length |-> 1, rule |-> r] : r \in rules}

EventTimes == From(JanuaryEnd, SeriesRules \cup {NoRule})

(* The last days of February and of March 2024, and of January 2025 *)
LastDays == {<<58 * PerDay, 60 * PerDay>>, <<89 * PerDay, 91 * PerDay>>,
             <<395 * PerDay, 397 * PerDay>>}

EditedDays == {59, 90}

(* A series and what is made of it: the other rows happen once. *)
OneSeries == \A id \in Events : id > 1 => event[id].rule = NoRule

LeapTimes == From(LeapDay, {Every("monthly", 1), Every("yearly", 1)})

HandlerSymmetry == Permutations(Handlers)
=============================================================================
