--------------------------- MODULE PushScheduler ---------------------------
(***************************************************************************)
(* Push notifications: the scheduler that reminds of chores, the devices   *)
(* it sends to and the records of what was sent.                           *)
(*                                                                         *)
(* Source: internal/push/scheduler.go, internal/push/push.go,              *)
(* internal/store/push.go, internal/handler/push.go, the push settings of  *)
(* internal/handler/template.go and cmd/gamwich/main.go.                   *)
(*                                                                         *)
(* A minute is the scheduler's interval: its ticker has room for one tick, *)
(* which a busy scheduler takes late, and a second one is lost.  A tick    *)
(* looks after each household that has a device: it asks whether the day's *)
(* reminder was sent, reads the devices, sends to them one by one, records *)
(* it.  The push service is external: a send succeeds, fails, or says the  *)
(* device is gone.                                                         *)
(*                                                                         *)
(* Of reminders of events there is nothing: their query returns no row     *)
(* (ListUpcomingWithReminders in module Calendar), so all that the code    *)
(* has for them, checkCalendarReminders, does nothing.                     *)
(***************************************************************************)
EXTENDS Integers, FiniteSets, FiniteSetsExt, Functions

CONSTANTS
    Households,
    Members,             \* who signs in where: records of user and household
    Endpoints,           \* what a browser subscribes under
    DayMinutes, HourMinutes,
    Retention,           \* age at which the record of a send is dropped
    MaxNow, MaxCrashes   \* bounds

NoMember == [user |-> "nobody", household |-> "none"]

(* The code keeps the records for seven days. *)
ASSUME PushAssumption ==
    /\ {DayMinutes, HourMinutes, Retention, MaxNow, MaxCrashes} \subseteq Nat
    /\ HourMinutes > 0 /\ DayMinutes > 0 /\ Retention >= DayMinutes
    /\ NoMember \notin Members /\ \A m \in Members : m.household \in Households

VARIABLES
    now,
    device,        \* rows of push_subscriptions, by endpoint
    disabled,      \* rows of notification_preferences that say so
    sent,          \* rows of sent_notifications, with their time
    phase,         \* of the scheduler: "off", "on" or "stopping"
    ticker,        \* its channel holds a tick
    tick,          \* the tick in progress
    crashes,
    attempts,      \* history: sends of a reminder to an endpoint
    repeats        \* history: how often one may have lost its record

settingsVars == <<device, disabled>>
history == <<crashes, attempts, repeats>>
pushVars == <<now, device, disabled, sent, phase, ticker, tick, crashes, attempts, repeats>>

NoTick == [at |-> "rest"]
Types == {"calendar_reminder", "chore_due", "grocery_added"}

DayOf(minute) == minute \div DayMinutes

(* What sent_notifications identifies the day's reminder by *)
ChoreReminder(h) == [household |-> h, date |-> DayOf(now)]
Reminders == [household : Households, date : 0..DayOf(MaxNow)]

Ticks ==
    {NoTick} \cup [at : {"households"}, left : SUBSET Households]
             \cup [at : {"send"}, left : SUBSET Households, what : Reminders,
                   to : SUBSET (Endpoints \X Members), owed : SUBSET Endpoints]

PushTypeOK ==
    /\ now \in 0..MaxNow
    /\ device \in [Endpoints -> Members \cup {NoMember}]
    /\ disabled \subseteq Members \X Types
    /\ sent \subseteq [what : Reminders, time : 0..MaxNow]
    /\ phase \in {"off", "on", "stopping"}
    /\ ticker \in BOOLEAN
    /\ tick \in Ticks
    /\ attempts \in [Endpoints -> [Reminders -> Nat]]
    /\ repeats \in [Reminders -> Nat]

PushInit ==
    /\ now = 0
    /\ device = [d \in Endpoints |-> NoMember]
    /\ disabled = {}
    /\ sent = {}
    /\ phase = "off"
    /\ ticker = FALSE
    /\ tick = NoTick
    /\ crashes = 0
    /\ attempts = [d \in Endpoints |-> [n \in Reminders |-> 0]]
    /\ repeats = [n \in Reminders |-> 0]

Subscribed == {d \in Endpoints : device[d] # NoMember}

(* Fault: only records of this minute count. *)
WasSentNow(n) == \E r \in sent : r.what = n /\ r.time = now

WasSent(n) == \E r \in sent : r.what = n

IsPreferenceEnabled(m, type) == <<m, type>> \notin disabled

-----------------------------------------------------------------------------
(* Boot and shutdown.  main starts the scheduler if the license has push;  *)
(* Stop waits until the tick in progress has ended.                        *)

Boot ==
    /\ phase = "off"
    /\ phase' = "on" /\ ticker' = FALSE
    /\ UNCHANGED <<now, settingsVars, sent, tick, history>>

Stop ==
    /\ phase = "on"
    /\ phase' = "stopping"
    /\ UNCHANGED <<now, settingsVars, sent, ticker, tick, history>>

StopReturns ==
    /\ phase = "stopping" /\ tick = NoTick
    /\ phase' = "off" /\ ticker' = FALSE
    /\ UNCHANGED <<now, settingsVars, sent, tick, history>>

(* A crash may come after the sends and before their record. *)
Crash ==
    /\ phase # "off" /\ crashes < MaxCrashes
    /\ phase' = "off" /\ ticker' = FALSE /\ tick' = NoTick
    /\ crashes' = crashes + 1
    /\ repeats' = IF tick.at = "send" THEN [repeats EXCEPT ![tick.what] = @ + 1] ELSE repeats
    /\ UNCHANGED <<now, settingsVars, sent, attempts>>

MinutePasses ==
    /\ now < MaxNow
    /\ now' = now + 1
    /\ ticker' = (phase # "off")
    /\ UNCHANGED <<settingsVars, sent, phase, tick, history>>

-----------------------------------------------------------------------------
(* A tick.  "left" are the households to come; "owed", for a property      *)
(* below, are the devices that this reminder has yet to reach.             *)

tickRest == <<now, settingsVars, sent, phase, ticker, history>>

Visiting(left) == [at |-> "households", left |-> left]

(* The query for the households may fail. *)
TickBegin ==
    /\ phase # "off" /\ ticker /\ tick = NoTick
    /\ ticker' = FALSE
    /\ \/ UNCHANGED tick
       \/ tick' = Visiting({device[d].household : d \in Subscribed})
    /\ UNCHANGED <<now, settingsVars, sent, phase, history>>

Listed(h) == {d \in Subscribed : device[d].household = h}

(* The time is read anew for each household.  Without chores, and when a   *)
(* query fails, nothing is sent and nothing recorded.                      *)
CheckChoreDue(h) ==
    /\ tick.at = "households" /\ h \in tick.left
    /\ \/ tick' = Visiting(tick.left \ {h})
       \/ /\ now % HourMinutes = 0 /\ ~WasSent(ChoreReminder(h))
          /\ tick' = [at |-> "send", left |-> tick.left \ {h}, what |-> ChoreReminder(h),
                      to |-> {<<d, device[d]>> : d \in Listed(h)},
                      owed |-> {d \in Listed(h) : IsPreferenceEnabled(device[d], "chore_due")}]
    /\ UNCHANGED tickRest

TickEnd ==
    /\ tick.at = "households" /\ tick.left = {}
    /\ tick' = NoTick
    /\ UNCHANGED tickRest

(* What happens to a device or to a preference settles what is owed. *)
Settle(S) == IF tick.at = "send" THEN [tick EXCEPT !.owed = @ \ S] ELSE tick

(* A device that is gone at the push service loses its row. *)
Drop(d) == device' = [device EXCEPT ![d] = NoMember]

(* Fault: a device that wants none, or is gone, ends the loop. *)
NoneToSend(d, m, outcome) == IF outcome = "sent" THEN tick.to \ {<<d, m>>} ELSE {}

StillToSend(d, m, outcome) == tick.to \ {<<d, m>>}

(* The preference is that of the member the row named when it was read; if *)
(* its query fails, it counts as off.                                      *)
SendTo(d, m, outcome) ==
    LET on == IsPreferenceEnabled(m, "chore_due")
    IN  /\ tick.at = "send" /\ <<d, m>> \in tick.to
        /\ outcome = "off" => ~on
        /\ outcome \in {"sent", "gone"} => on
        /\ tick' = [tick EXCEPT !.to = StillToSend(d, m, outcome),
                                !.owed = IF outcome = "off" THEN @ ELSE @ \ {d}]
        /\ attempts' = IF outcome \in {"sent", "gone"}
                       THEN [attempts EXCEPT ![d][tick.what] = @ + 1] ELSE attempts
        /\ IF outcome = "gone" THEN Drop(d) ELSE UNCHANGED device
        /\ UNCHANGED <<now, disabled, sent, phase, ticker, crashes, repeats>>

Outcomes == {"sent", "gone", "off", "unasked"}

(* Whatever became of the sends *)
RecordSent ==
    /\ tick.at = "send" /\ tick.to = {}
    /\ sent' = sent \cup {[what |-> tick.what, time |-> now]}
    /\ tick' = Visiting(tick.left)
    /\ UNCHANGED <<now, settingsVars, phase, ticker, history>>

(* Its error is ignored. *)
RecordSentFails ==
    /\ tick.at = "send" /\ tick.to = {}
    /\ tick' = Visiting(tick.left)
    /\ repeats' = [repeats EXCEPT ![tick.what] = @ + 1]
    /\ UNCHANGED <<now, settingsVars, sent, phase, ticker, crashes, attempts>>

-----------------------------------------------------------------------------
(* Requests, and what else touches the tables. *)

steadyRest == <<now, sent, phase, ticker, history>>

(* An endpoint that has a row keeps its user and household. *)
Subscribe(m, d) ==
    /\ device' = IF d \in Subscribed THEN device ELSE [device EXCEPT ![d] = m]
    /\ UNCHANGED <<steadyRest, disabled, tick>>

Unsubscribe(d) ==
    /\ d \in Subscribed
    /\ Drop(d) /\ tick' = Settle({d})
    /\ UNCHANGED <<steadyRest, disabled>>

SetPreference(m, type, enabled) ==
    /\ disabled' = IF enabled THEN disabled \ {<<m, type>>} ELSE disabled \cup {<<m, type>>}
    /\ tick' = IF ~enabled /\ type = "chore_due"
               THEN Settle({d \in Subscribed : device[d] = m}) ELSE tick
    /\ UNCHANGED <<steadyRest, device>>

(* A goroutine for each item added sends to the others of the household;   *)
(* what is left of it is a device that turned out to be gone.              *)
SendGroceryNotification(adder, d) ==
    /\ d \in Listed(adder.household) /\ device[d].user # adder.user
    /\ IsPreferenceEnabled(device[d], "grocery_added")
    /\ Drop(d) /\ tick' = Settle({d})
    /\ UNCHANGED <<steadyRest, disabled>>

(* The hourly cleanup *)
CleanupSent ==
    LET old == {r \in sent : r.time < now - Retention}
    IN  /\ old # {}
        /\ sent' = sent \ old
        /\ UNCHANGED <<now, settingsVars, phase, ticker, tick, history>>

-----------------------------------------------------------------------------
TickNext ==
    \/ TickBegin \/ TickEnd
    \/ \E h \in Households : CheckChoreDue(h)
    \/ \E d \in Endpoints, m \in Members, outcome \in Outcomes : SendTo(d, m, outcome)
    \/ RecordSent \/ RecordSentFails

RequestNext ==
    \/ \E m \in Members :
        \/ \E d \in Endpoints : Subscribe(m, d) \/ SendGroceryNotification(m, d)
        \/ \E type \in Types, enabled \in BOOLEAN : SetPreference(m, type, enabled)
    \/ \E d \in Endpoints : Unsubscribe(d)

PushNext ==
    \/ Boot \/ Stop \/ StopReturns \/ Crash \/ MinutePasses
    \/ TickNext \/ RequestNext \/ CleanupSent

PushSpec == PushInit /\ [][PushNext]_pushVars

-----------------------------------------------------------------------------
(* A device is sent a household's reminder of a day once, and again only   *)
(* if a crash or a failing statement cost its record: however often the    *)
(* hour strikes on that day, ticks come late or twice in a minute, devices *)
(* come, go and come back, or records are cleaned up (WasSent, RecordSent, *)
(* CleanupSent).                                                           *)
RemindedOnce ==
    \A d \in Endpoints, n \in Reminders : attempts[d][n] <= 1 + repeats[n]

(* Before a reminder is recorded, which is the last there is of it, it was *)
(* sent to every device of the household that was subscribed when they     *)
(* were listed and stayed so, whose user wanted it all the time and could  *)
(* be asked: whatever became of other devices meanwhile (checkChoreDue).   *)
RemindersReachDevices == tick.at = "send" /\ tick.to = {} => tick.owed = {}
=============================================================================
