------------------------------ MODULE Calendar ------------------------------
(***************************************************************************)
(* The calendar: events, series of events and what is shown of them.       *)
(*                                                                         *)
(* Source: internal/handler/calendar_event.go, the calendar pages of       *)
(* internal/handler/template.go and internal/store/calendar_event.go.      *)
(*                                                                         *)
(* A series is a row with a rule; an occurrence that was edited or deleted *)
(* on its own is a row that names the series and the start it replaces.    *)
(* The pages take several statements for a change, the API one.  Titles,   *)
(* places and members are shown and nothing else.                          *)
(***************************************************************************)
EXTENDS Requests, Recurrence

CONSTANTS
    Timings,      \* start, length and rule that events are given
    NoRule,
    Leads,        \* minutes a reminder comes ahead
    MaxRows       \* bound on the rows of calendar_events

ASSUME CalendarAssumption ==
    /\ \A t \in Timings : /\ t.start \in Nat /\ t.length \in Nat \ {0}
                          /\ t.rule \in Rules \cup {NoRule}
    /\ NoRule \notin Rules
    /\ Leads \subseteq Nat
    /\ MaxRows \in Nat

VARIABLES event, nextEvent    \* rows of calendar_events

calendarVars == <<event, nextEvent>>

EventIDs == 1..MaxRows
NoParent == 0
NoLead == -1
NoOriginal == -1

Row(times) == [start |-> times.start, length |-> times.length, rule |-> times.rule,
               parent |-> NoParent, original |-> NoOriginal, cancelled |-> FALSE,
               lead |-> NoLead]
Exception(parent, original, times, cancelled) ==
    [Row(times) EXCEPT !.rule = NoRule, !.parent = parent, !.original = original,
                       !.cancelled = cancelled]

EventRow ==
    [start : Nat, length : Nat, rule : {t.rule : t \in Timings} \cup {NoRule},
     parent : 0..MaxRows, original : Nat \cup {NoOriginal}, cancelled : BOOLEAN,
     lead : Leads \cup {NoLead}]

CalendarTypeOK ==
    /\ nextEvent \in 1..(MaxRows + 1)
    /\ event \in [EventIDs -> {NoRow} \cup EventRow]

CalendarInit ==
    /\ event = [id \in EventIDs |-> NoRow]
    /\ nextEvent = 1
    /\ RequestsInit

IssuedEvents == 1..(nextEvent - 1)
Events == {id \in IssuedEvents : event[id] # NoRow}

Insert(row) ==
    /\ nextEvent \in EventIDs
    /\ event' = [event EXCEPT ![nextEvent] = row]
    /\ nextEvent' = nextEvent + 1

SetTimes(id, times) ==
    event' = IF event[id] = NoRow THEN event
             ELSE [event EXCEPT ![id].start = times.start, ![id].length = times.length,
                                ![id].rule = times.rule]

DeleteRows(S) == event' = [id \in EventIDs |-> IF id \in S THEN NoRow ELSE event[id]]

-----------------------------------------------------------------------------
(* The API. *)

ApiEventCreate(times) == Insert(Row(times)) /\ UNCHANGED request

ApiEventUpdate(id, times) ==
    /\ event[id] # NoRow
    /\ SetTimes(id, times)
    /\ UNCHANGED <<nextEvent, request>>

ApiEventDelete(id) ==
    /\ event[id] # NoRow
    /\ DeleteRows({id})
    /\ UNCHANGED <<nextEvent, request>>

-----------------------------------------------------------------------------
(* The pages.  Every change ends with a statement of its own that sets the *)
(* reminder of the row the page was opened on, whatever row was changed.   *)

Remind(h, id, lead) == Continue(h, [op |-> "remind", id |-> id, lead |-> lead])

(* Without a lead none is set; the row has none. *)
CalendarEventCreate(h, times, lead) ==
    /\ request[h] = Idle
    /\ Insert(Row(times))
    /\ IF lead = NoLead THEN UNCHANGED request ELSE Remind(h, nextEvent, lead)

SetReminderMinutes(h) ==
    LET r == request[h]
    IN  /\ At(h, "remind")
        /\ event' = IF event[r.id] = NoRow THEN event ELSE [event EXCEPT ![r.id].lead = r.lead]
        /\ Done(h)
        /\ UNCHANGED nextEvent

UpdateOne(h, id, times, lead) ==
    /\ request[h] = Idle
    /\ SetTimes(id, times)
    /\ Remind(h, id, lead)
    /\ UNCHANGED nextEvent

(* One occurrence: the series is read, and gets an exception for the day   *)
(* given, at the series' time of day.                                      *)
Original(parent, day) == day * PerDay + Minute(event[parent].start)

UpdateSingle(h, id, parent, day, times, lead) ==
    /\ event[parent] # NoRow
    /\ Begin(h, [op |-> "except", id |-> id, lead |-> lead,
                 row |-> Exception(parent, Original(parent, day), times, FALSE)])
    /\ UNCHANGED calendarVars

DeleteSingle(h, id, parent, day) ==
    LET original == Original(parent, day)
        times == [start |-> original, length |-> event[parent].length, rule |-> NoRule]
    IN  /\ event[id] # NoRow /\ event[parent] # NoRow
        /\ Begin(h, [op |-> "except", id |-> NoParent,
                     row |-> Exception(parent, original, times, TRUE)])
        /\ UNCHANGED calendarVars

CreateException(h) ==
    LET r == request[h]
    IN  /\ At(h, "except")
        /\ Insert(r.row)
        /\ IF r.id = NoParent THEN Done(h) ELSE Remind(h, r.id, r.lead)

(* The whole series: first its exceptions go, unless the statement fails,  *)
(* which is logged and no more; then the row is written.                   *)
UpdateAll(h, id, parent, times, lead) ==
    /\ Begin(h, [op |-> "series", id |-> id, parent |-> parent, times |-> times,
                 lead |-> lead])
    /\ DeleteRows({e \in Events : event[e].parent = parent}) \/ UNCHANGED event
    /\ UNCHANGED nextEvent

UpdateSeries(h) ==
    LET r == request[h]
    IN  /\ At(h, "series")
        /\ SetTimes(r.parent, r.times)
        /\ Remind(h, r.id, r.lead)
        /\ UNCHANGED nextEvent

(* The event, or of a series the row: its exceptions stay. *)
CalendarEventDelete(id, target) ==
    /\ event[id] # NoRow
    /\ DeleteRows({target})
    /\ UNCHANGED <<nextEvent, request>>

-----------------------------------------------------------------------------
(* What is shown. *)

Series(to) == {id \in Events : /\ event[id].rule # NoRule
                               /\ event[id].parent = NoParent
                               /\ event[id].start < to}

(* Of several exceptions for one start the last listed counts. *)
ExceptionOf(id, start) ==
    LET found == {e \in Events : event[e].parent = id /\ event[e].original = start}
    IN  IF found = {} THEN id ELSE Max(found)

ListByDateRange(from, to) ==
    {id \in Events : /\ event[id].rule = NoRule
                     /\ event[id].parent = NoParent
                     /\ event[id].start < to
                     /\ event[id].start + event[id].length > from}

(* Each entry is a row and the start it is shown for; entries of a series  *)
(* are given the starts of its occurrences.                                *)
EntriesOf(id, starts) ==
    {[row |-> ExceptionOf(id, t), at |-> t] :
        t \in {t \in starts : ~event[ExceptionOf(id, t)].cancelled}}

ExpandEvents(from, to) ==
    {[row |-> id, at |-> event[id].start] : id \in ListByDateRange(from, to)} \cup
    UNION {EntriesOf(id, Range(Expand(event[id].rule, event[id].start, event[id].length,
                                      from, to))) : id \in Series(to)}

(* What SQLite's datetime() makes of a start.  The driver writes a time as *)
(* its String does, "... +0000 UTC"; datetime() reads no such text and is  *)
(* NULL, which no comparison is true of.                                   *)
Null == -1
Datetime(start, lead) == Null

ListUpcomingWithReminders(from, to) ==
    {id \in Events : /\ event[id].lead # NoLead
                     /\ ~event[id].cancelled
                     /\ LET at == Datetime(event[id].start, event[id].lead)
                        IN  at # Null /\ at >= from /\ at < to}

-----------------------------------------------------------------------------
CONSTANTS
    Days,      \* days of occurrences that are edited
    Views      \* ranges that are looked at

ASSUME DaysAssumption == Days \subseteq Nat

(* The ranges end before the calendar does, and before next, which makes a *)
(* step a day at least, can have met its safety limit.                     *)
ASSUME ViewsAssumption ==
    \A v \in Views : /\ v[1] \in Nat /\ v[2] \in Nat
                     /\ v[2] <= Horizon * PerDay
                     /\ Day(v[2]) < MaxIterations

(* What a page offers to edit as a series, or did when it was loaded *)
Parents == {id \in IssuedEvents : event[id] # NoRow => event[id].rule # NoRule}
EditedTimes == {t \in Timings : t.rule = NoRule}

CalendarNext ==
    \/ \E times \in Timings : ApiEventCreate(times)
    \/ \E id \in IssuedEvents :
        \/ \E times \in Timings : ApiEventUpdate(id, times)
        \/ ApiEventDelete(id)
        \/ \E target \in IssuedEvents : CalendarEventDelete(id, target)
    \/ \E h \in Handlers :
        \/ \E times \in Timings, lead \in Leads \cup {NoLead} :
            \/ CalendarEventCreate(h, times, lead)
            \/ \E id \in IssuedEvents :
                \/ UpdateOne(h, id, times, lead)
                \/ \E parent \in Parents : UpdateAll(h, id, parent, times, lead)
        \/ \E id \in IssuedEvents, parent \in Parents, day \in Days :
            \/ DeleteSingle(h, id, parent, day)
            \/ \E times \in EditedTimes, lead \in Leads \cup {NoLead} :
                UpdateSingle(h, id, parent, day, times, lead)
        \/ SetReminderMinutes(h) \/ CreateException(h) \/ UpdateSeries(h)
        \/ Abandon(h) /\ UNCHANGED calendarVars

CalendarSpec == CalendarInit /\ [][CalendarNext]_<<calendarVars, request>>

-----------------------------------------------------------------------------
(* A page or an answer of the API shows each occurrence that the rule of a *)
(* series means, by the civil calendar, once: as the row that replaces it, *)
(* if there is one, and not at all if that was cancelled; and it shows no  *)
(* other (Expand, expandEventsForRange).  Rules that are not regular are   *)
(* left out: see Regular.                                                  *)
ViewsFollowRules ==
    \A v \in Views : \A id \in Series(v[2]) :
        LET e == event[id]
            meant == Meant(e.rule, e.start, v[1] - e.length, v[2])
            cancelled == {t \in meant : event[ExceptionOf(id, t)].cancelled}
            shown == {x \in ExpandEvents(v[1], v[2]) : x.row = id \/ event[x.row].parent = id}
        IN  Regular(e.rule, e.start) =>
            /\ IsInjective(Expand(e.rule, e.start, e.length, v[1], v[2]))
            /\ {x.at : x \in shown} = meant \ cancelled
            /\ \A t \in meant \ cancelled : Cardinality({x \in shown : x.at = t}) = 1

(* The comment on ListUpcomingWithReminders, calendar_event.go:261-262:    *)
(* what comes up are the events whose reminder is due in the window.  It   *)
(* is violated by the first event that is given a reminder.                *)
RemindersComeUp ==
    \A id \in Events :
        LET at == event[id].start - event[id].lead
        IN  event[id].lead # NoLead /\ ~event[id].cancelled =>
                id \in ListUpcomingWithReminders(at, at + 1)

(* Expanding a series ends.                                                *)
ViewsEnd ==
    \A v \in Views : \A id \in Series(v[2]) :
        ExpandReturns(event[id].rule, event[id].start, event[id].length, v[1], v[2])
=============================================================================
