------------------------------ MODULE Chores ------------------------------
(***************************************************************************)
(* Chores, the areas they belong to and their completions, and the boards  *)
(* that show them.                                                         *)
(*                                                                         *)
(* Source: internal/handler/chore.go, the chore pages of                   *)
(* internal/handler/template.go, internal/store/chore.go and ComputeStatus *)
(* of internal/chore/status.go.                                            *)
(*                                                                         *)
(* No foreign key is enforced: the driver does not read _foreign_keys=on   *)
(* in database.Open's data source name (dev/architecture.md says so, and   *)
(* the store tests issue the PRAGMA themselves), so ON DELETE SET NULL and *)
(* ON DELETE CASCADE do nothing and a reference may outlive its row.       *)
(*                                                                         *)
(* A recurrence rule is the set of days it expands to, the empty set for a *)
(* chore without a rule.  Rows carry UTC, and a rule's days are days of    *)
(* UTC; the pages take their day from time.Now(), in the zone the server   *)
(* runs in, which has one offset here.  Two completions may carry the same *)
(* instant, so the last of them is any of them.                            *)
(***************************************************************************)
EXTENDS FamilyMembers, FiniteSetsExt

CONSTANTS
    AreaNames,      \* names an area may be given
    Points,         \* points a chore may be worth, negative ones too
    Rules,          \* recurrence rules, as sets of days
    MaxAreas,       \* bound on the areas ever created
    MaxChores,      \* bound on the chores ever created
    MaxCompletions, \* bound on the completions ever recorded
    DayLength,      \* ticks of a day
    Zone,           \* ticks the server's zone is ahead of UTC
    MaxDays,        \* bound on the days of rules
    MaxTime         \* bound on the ticks that pass

ASSUME ChoresAssumption ==
    /\ Points \subseteq Int
    /\ {MaxAreas, MaxChores, MaxCompletions, MaxDays, MaxTime} \subseteq Nat
    /\ DayLength \in Nat \ {0} /\ Zone \in Int /\ -DayLength < Zone /\ Zone < DayLength
    /\ Rules \subseteq SUBSET (0..MaxDays)

ASSUME AreaNamesAssumption == "" \notin AreaNames   \* "Area name is required"

VARIABLES
    area,           \* rows of chore_areas: their names
    nextArea,
    chore,          \* rows of chores
    nextChore,
    completion,     \* rows of chore_completions
    nextCompletion,
    now,            \* ticks since midnight UTC of day 0
    guessed         \* history: ids of members named before they were issued

choreVars == <<area, nextArea, chore, nextChore, completion, nextCompletion, now>>

AreaIDs == 1..MaxAreas
ChoreIDs == 1..MaxChores

ChoreRow == [area : 0..MaxAreas, points : Points, rule : Rules, assignedTo : 0..MaxMembers]
CompletionRow ==
    [id : 1..MaxCompletions, chore : ChoreIDs, by : 0..MaxMembers, points : Points,
     at : 0..MaxTime]

ChoresTypeOK ==
    /\ area \in [AreaIDs -> [name : AreaNames] \cup {NoRow}]
    /\ nextArea \in 1..(MaxAreas + 1)
    /\ chore \in [ChoreIDs -> ChoreRow \cup {NoRow}]
    /\ nextChore \in 1..(MaxChores + 1)
    /\ completion \in SUBSET CompletionRow
    /\ nextCompletion \in 1..(MaxCompletions + 1)
    /\ now \in 0..MaxTime

(* The migration seeds five areas; here there are none to begin with. *)
ChoresInit ==
    /\ area = [id \in AreaIDs |-> NoRow] /\ nextArea = 1
    /\ chore = [id \in ChoreIDs |-> NoRow] /\ nextChore = 1
    /\ completion = {} /\ nextCompletion = 1
    /\ now = 0
    /\ guessed = {}

TimePasses ==
    /\ now < MaxTime
    /\ now' = now + 1
    /\ UNCHANGED <<area, nextArea, chore, nextChore, completion, nextCompletion, request>>

-----------------------------------------------------------------------------
(* internal/store/chore.go. *)

Areas == {id \in AreaIDs : area[id] # NoRow}
ChoreRows == {id \in ChoreIDs : chore[id] # NoRow}

AreaNameTaken(name, except) == \E id \in Areas \ {except} : area[id].name = name

InsertChore(row) ==
    /\ nextChore \in ChoreIDs
    /\ chore' = [chore EXCEPT ![nextChore] = row]
    /\ nextChore' = nextChore + 1

UpdateChoreRow(id, row) ==
    chore' = IF chore[id] = NoRow THEN chore ELSE [chore EXCEPT ![id] = row]

DeleteChoreRow(id) == chore' = [chore EXCEPT ![id] = NoRow]

CreateCompletion(c, by, points) ==
    /\ nextCompletion <= MaxCompletions
    /\ completion' = completion \cup
          {[id |-> nextCompletion, chore |-> c, by |-> by, points |-> points, at |-> now]}
    /\ nextCompletion' = nextCompletion + 1

DeleteCompletion(id) == completion' = {r \in completion : r.id # id}

CompletionsOf(c) == {r \in completion : r.chore = c}

(* ORDER BY completed_at DESC LIMIT 1, which leaves ties open *)
LastCompletions(c) == {r \in CompletionsOf(c) : \A o \in CompletionsOf(c) : o.at <= r.at}

-----------------------------------------------------------------------------
(* Areas. *)

ChoreAreaCreate(name) ==
    /\ nextArea \in AreaIDs
    /\ ~AreaNameTaken(name, 0)
    /\ area' = [area EXCEPT ![nextArea] = [name |-> name]]
    /\ nextArea' = nextArea + 1
    /\ UNCHANGED <<chore, nextChore, completion, nextCompletion, now, request>>

(* The row is read for its sort order, and written by a later statement. *)
ChoreAreaUpdate(h, id, name) ==
    /\ area[id] # NoRow
    /\ Begin(h, [op |-> "areaName", id |-> id, name |-> name])
    /\ UNCHANGED choreVars

ChoreAreaUpdateWrite(h) ==
    LET id == request[h].id
        name == request[h].name
    IN  /\ At(h, "areaName")
        /\ ~AreaNameTaken(name, id)
        /\ area' = IF area[id] = NoRow THEN area ELSE [area EXCEPT ![id] = [name |-> name]]
        /\ Done(h)
        /\ UNCHANGED <<nextArea, chore, nextChore, completion, nextCompletion, now>>

ChoreAreaDelete(id) ==
    /\ area' = [area EXCEPT ![id] = NoRow]
    /\ UNCHANGED <<nextArea, chore, nextChore, completion, nextCompletion, now, request>>

-----------------------------------------------------------------------------
(* Chores.  The API asks whether the assignee exists when it creates a     *)
(* chore and not when it updates one; the pages never ask.                 *)

ApiChoreCreate(row) ==
    /\ row.assignedTo # Nobody => row.assignedTo \in Members
    /\ InsertChore(row)
    /\ UNCHANGED <<area, nextArea, completion, nextCompletion, now, request>>

ChoreCreate(row) ==
    /\ InsertChore(row)
    /\ UNCHANGED <<area, nextArea, completion, nextCompletion, now, request>>

ApiChoreUpdate(id, row) ==
    /\ chore[id] # NoRow
    /\ UpdateChoreRow(id, row)
    /\ UNCHANGED <<area, nextArea, nextChore, completion, nextCompletion, now, request>>

ChoreUpdate(id, row) ==
    /\ UpdateChoreRow(id, row)
    /\ UNCHANGED <<area, nextArea, nextChore, completion, nextCompletion, now, request>>

ApiChoreDelete(id) ==
    /\ chore[id] # NoRow
    /\ DeleteChoreRow(id)
    /\ UNCHANGED <<area, nextArea, nextChore, completion, nextCompletion, now, request>>

ChoreDelete(id) ==
    /\ DeleteChoreRow(id)
    /\ UNCHANGED <<area, nextArea, nextChore, completion, nextCompletion, now, request>>

-----------------------------------------------------------------------------
(* Completions.  The points are read with the chore and written with the   *)
(* completion, two statements.  The API takes who completed the chore from *)
(* the request, the page from the active-user cookie.                      *)

CompleteLookup(h, id, by) ==
    /\ chore[id] # NoRow
    /\ Begin(h, [op |-> "complete", chore |-> id, by |-> by, points |-> chore[id].points])
    /\ UNCHANGED choreVars

ApiChoreComplete(h, id, by) == CompleteLookup(h, id, by)

ChoreComplete(h, id, d) == CompleteLookup(h, id, activeUserFromCookie(d))

CompleteInsert(h) ==
    /\ At(h, "complete")
    /\ CreateCompletion(request[h].chore, request[h].by, request[h].points)
    /\ Done(h)
    /\ UNCHANGED <<area, nextArea, chore, nextChore, now>>

(* DELETE /api/chores/{id}/completions/{completion_id} takes any id. *)
ApiUndoComplete(r) ==
    /\ DeleteCompletion(r)
    /\ UNCHANGED <<area, nextArea, chore, nextChore, nextCompletion, now, request>>

ChoreUndoComplete(h, id) ==
    /\ \E r \in LastCompletions(id) :
          Begin(h, [op |-> "undo", chore |-> id, completion |-> r.id])
    /\ UNCHANGED choreVars

UndoDelete(h) ==
    /\ At(h, "undo")
    /\ DeleteCompletion(request[h].completion)
    /\ Done(h)
    /\ UNCHANGED <<area, nextArea, chore, nextChore, nextCompletion, now>>

-----------------------------------------------------------------------------
(* What the boards show. *)

UtcDay(time) == time \div DayLength
LocalDay(time) == (time + Zone) \div DayLength

(* startOfDay of time.Now(), as an instant *)
LocalMidnight == LocalDay(now) * DayLength - Zone

(* Fault: a completion on the due day itself comes too early. *)
ComputeStatusStrictly(row, last, today) ==
    LET due == {d \in row.rule : d * DayLength < today + DayLength}
    IN  IF row.rule = {} THEN IF last # {} THEN "completed" ELSE "pending"
        ELSE IF due = {} THEN "not_due"
        ELSE IF \E r \in last : UtcDay(r.at) > Max(due) THEN "completed"
        ELSE IF Max(due) * DayLength < today THEN "overdue" ELSE "pending"

(* internal/chore/status.go: the latest due day that begins before today   *)
(* is over decides.  Due days begin, and completions are taken to their    *)
(* day, in UTC; today begins in the server's zone.                         *)
ComputeStatus(row, last, today) ==
    LET due == {d \in row.rule : d * DayLength < today + DayLength}
    IN  IF row.rule = {} THEN IF last # {} THEN "completed" ELSE "pending"
        ELSE IF due = {} THEN "not_due"
        ELSE IF \E r \in last : UtcDay(r.at) >= Max(due) THEN "completed"
        ELSE IF Max(due) * DayLength < today THEN "overdue" ELSE "pending"

Status(c) == ComputeStatus(chore[c], LastCompletions(c), LocalMidnight)

OwnedBy(m) == {c \in ChoreRows : chore[c].assignedTo = m}
LyingIn(a) == {c \in ChoreRows : chore[c].area = a}

(* Fault: no group for NULL. *)
PersonGroupsOfMembers == [m \in {m \in Members : OwnedBy(m) # {}} |-> OwnedBy(m)]

(* The groups of buildChoreListData: a map keyed by assignee or area, read *)
(* out along the rows of the other table, and a group for NULL.            *)
PersonGroups ==
    [m \in {m \in Members \cup {Nobody} : OwnedBy(m) # {}} |-> OwnedBy(m)]

AreaGroups == [a \in {a \in Areas \cup {0} : LyingIn(a) # {}} |-> LyingIn(a)]

(* The dashboard widget counts on its own: total and done of each member   *)
(* who has chores.                                                         *)
ChoreSummary ==
    [m \in {chore[c].assignedTo : c \in ChoreRows} \cap Members |->
        [total |-> Cardinality(OwnedBy(m)),
         done |-> Cardinality({c \in OwnedBy(m) : Status(c) = "completed"})]]

(* The manage page lists every chore, with the names it can resolve. *)
ManagedChores ==
    [c \in ChoreRows |->
        [area |-> IF chore[c].area \in Areas THEN area[chore[c].area].name ELSE "",
         member |-> IF chore[c].assignedTo \in Members
                    THEN member[chore[c].assignedTo].name ELSE ""]]

-----------------------------------------------------------------------------
(* A request may name any area and member.  A member is named before its   *)
(* id is issued by a request that guesses.                                 *)
ChoreInputs ==
    [area : 0..MaxAreas, points : Points, rule : Rules, assignedTo : 0..MaxMembers]

Named(m) == guessed' = guessed \cup ({m} \ (Issued \cup {Nobody}))

AreaActions ==
    \/ \E name \in AreaNames : ChoreAreaCreate(name)
    \/ \E id \in 1..(nextArea - 1) :
        \/ ChoreAreaDelete(id)
        \/ \E h \in Handlers, name \in AreaNames : ChoreAreaUpdate(h, id, name)
    \/ \E h \in Handlers : ChoreAreaUpdateWrite(h)

ChoreActions ==
    \/ \E row \in ChoreInputs :
        /\ Named(row.assignedTo)
        /\ \/ ApiChoreCreate(row) \/ ChoreCreate(row)
           \/ \E id \in 1..(nextChore - 1) : ApiChoreUpdate(id, row) \/ ChoreUpdate(id, row)
    \/ /\ \E id \in 1..(nextChore - 1) : ApiChoreDelete(id) \/ ChoreDelete(id)
       /\ UNCHANGED guessed

Completing ==
    \E h \in Handlers :
        \/ \E id \in 1..(nextChore - 1) :
            \/ \E by \in 0..MaxMembers : Named(by) /\ ApiChoreComplete(h, id, by)
            \/ \E d \in Devices : ChoreComplete(h, id, d) /\ UNCHANGED guessed
        \/ CompleteInsert(h) /\ UNCHANGED guessed

Undoing ==
    \/ \E r \in 1..(nextCompletion - 1) : ApiUndoComplete(r)
    \/ \E h \in Handlers :
        \/ \E id \in 1..(nextChore - 1) : ChoreUndoComplete(h, id)
        \/ UndoDelete(h)

ChoresNext ==
    \/ ChoreActions \/ Completing
    \/ (AreaActions \/ Undoing \/ TimePasses) /\ UNCHANGED guessed
=============================================================================
