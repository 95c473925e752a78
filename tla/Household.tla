----------------------------- MODULE Household -----------------------------
(***************************************************************************)
(* The household board: family members, chores and rewards together, over  *)
(* one database and one set of requests.  Members complete chores, which   *)
(* earns points, and redeem rewards, which spends them.                    *)
(***************************************************************************)
EXTENDS Rewards

vars == <<familyVars, choreVars, rewardVars, ever, guessed, request>>

RequestTypes ==
    {Idle}
      \cup [op : {"memberOrder"}, name : Names]
      \cup [op : {"memberInsert"}, name : Names, order : 0..MaxMembers]
      \cup [op : {"memberName"}, id : MemberIDs, name : Names]
      \cup [op : {"pinClear"}, id : MemberIDs]
      \cup [op : {"areaName"}, id : AreaIDs, name : AreaNames]
      \cup [op : {"complete"}, chore : ChoreIDs, by : 0..MaxMembers, points : Points]
      \cup [op : {"undo"}, chore : ChoreIDs, completion : 1..MaxCompletions]
      \cup [op : {"redeem"}, reward : RewardIDs, by : 0..MaxMembers, cost : Costs]
      \cup [op : {"earned"}, reward : RewardIDs, by : MemberIDs, cost : Costs]
      \cup [op : {"spent"}, reward : RewardIDs, by : MemberIDs, cost : Costs, earned : Int]

TypeOK ==
    /\ FamilyTypeOK
    /\ ChoresTypeOK
    /\ RewardsTypeOK
    /\ guessed \subseteq MemberIDs
    /\ request \in [Handlers -> RequestTypes]

Init == FamilyInit /\ ChoresInit /\ RewardsInit /\ RequestsInit

Next ==
    /\ \/ FamilyNext /\ UNCHANGED <<choreVars, rewardVars, guessed>>
       \/ ChoresNext /\ UNCHANGED <<familyVars, rewardVars>>
       \/ RewardsNext /\ UNCHANGED <<familyVars, choreVars>>
       \/ /\ \E h \in Handlers : Abandon(h)
          /\ UNCHANGED <<familyVars, choreVars, rewardVars, guessed>>
    /\ RememberEarned

Spec == Init /\ [][Next]_vars

-----------------------------------------------------------------------------
(* Two members never have one name, though the name is looked up by one    *)
(* statement and written by another, and two requests may both have found  *)
(* it free (InsertMember, MemberRenameWrite).                              *)
NamesAreUnique ==
    \A m, n \in Members : member[m].name = member[n].name => m = n

(* A new member starts without chores, completions, redemptions, without a *)
(* device that acts for it and a request made in its name: rows, cookies   *)
(* and requests that refer to a deleted member, and there may be many,     *)
(* never come to refer to another one (InsertMember, FamilyMemberDelete),  *)
(* but for those of a request that named the id before it was issued.      *)
InTheNameOf == {"complete", "earned", "spent", "redeem"}

NewMemberStartsClean ==
    [][\A m \in MemberIDs \ guessed : (member[m] = NoRow /\ member'[m] # NoRow) =>
        /\ \A c \in ChoreRows : chore[c].assignedTo # m
        /\ \A r \in completion \cup redemption : r.by # m
        /\ \A d \in Devices : active[d] # m
        /\ \A h \in Handlers : request[h].op \in InTheNameOf => request[h].by # m]_vars

(* The board shows every chore, with the status its completions give it.   *)
(* A chore that the board by person shows nowhere was assigned to a member *)
(* who is gone or never was, one that the board by area shows nowhere was  *)
(* in an area that is gone or never was (buildChoreListData); a chore is   *)
(* shown as completed from a completion, unless undone, on its latest due  *)
(* day or later until it is due again, and as overdue when that day is     *)
(* over (ComputeStatus).  Due days count as they begin in UTC before the   *)
(* day of the server's zone ends, which west of Greenwich is a day early;  *)
(* and the widget of the dashboard, the board and the manage page, which   *)
(* look members and areas up each on its own, agree on whose a chore is.   *)
MissingOnlyIfOrphaned ==
    \A c \in ChoreRows :
        /\ c \notin UNION Range(PersonGroups) => chore[c].assignedTo \in MemberIDs \ Members
        /\ c \notin UNION Range(AreaGroups) => chore[c].area \in AreaIDs \ Areas

(* The day of UTC in which the day of the server's zone ends *)
BoardDay == LocalDay(now) + (IF Zone < 0 THEN 1 ELSE 0)

StatusFollowsCompletions ==
    \A c \in ChoreRows :
        LET due == {d \in chore[c].rule : d <= BoardDay}
            counts == {r \in CompletionsOf(c) : \A d \in due : UtcDay(r.at) >= d}
        IN  /\ (Status(c) = "completed") <=> (counts # {} /\ (chore[c].rule # {} => due # {}))
            /\ (Status(c) = "overdue") <=> (due # {} /\ counts = {} /\ BoardDay \notin due)

PagesAgree ==
    /\ DOMAIN ChoreSummary = DOMAIN PersonGroups \ {Nobody}
    /\ \A m \in DOMAIN ChoreSummary : ChoreSummary[m].total = Cardinality(PersonGroups[m])
    /\ \A c \in ChoreRows :
        /\ ManagedChores[c].member # "" <=>
              \E m \in DOMAIN ChoreSummary : c \in PersonGroups[m]
        /\ ManagedChores[c].area # "" <=>
              \E a \in DOMAIN AreaGroups \ {0} : c \in AreaGroups[a]

BoardIsTruthful == MissingOnlyIfOrphaned /\ StatusFollowsCompletions /\ PagesAgree

(* What status_test.go says of a daily chore (TestDailyCompleted): one     *)
(* that is due today and was completed today is completed.  The test has   *)
(* one zone; with another than UTC the pages violate it.                   *)
DoneTodayIsDone ==
    \A c \in ChoreRows :
        LET done == \E r \in CompletionsOf(c) : LocalDay(r.at) = LocalDay(now)
        IN  LocalDay(now) \in chore[c].rule /\ done => Status(c) = "completed"

(* A reference held in a row is NULL or the id of a row.                   *)
ReferencesResolve ==
    \A c \in ChoreRows :
        /\ chore[c].assignedTo \in Members \cup {Nobody}
        /\ chore[c].area \in Areas \cup {0}

-----------------------------------------------------------------------------
(* The points of each member as an account (module Ledger): its credit is  *)
(* what the member ever earned, so an undone completion does not lower it, *)
(* and a request is approved from the check of the balance to the insert.  *)
Approval(h) ==
    IF request[h].op = "redeem" /\ request[h].by # Nobody
    THEN [account |-> request[h].by, cost |-> request[h].cost]
    ELSE [for |-> "nothing"]

L == INSTANCE Ledger WITH
        Requests <- Handlers,
        Accounts <- MemberIDs,
        Earnings <- {p \in Points : p > 0},
        MaxCost <- Max(Costs \cup {0}),
        credit <- ever,
        debit <- [m \in MemberIDs |-> Spent(m)],
        approved <- [h \in Handlers |-> Approval(h)]

(* Redeeming keeps to the ledger: a redemption with a member is booked     *)
(* only after a check in which what the member ever earned, less what the  *)
(* member had spent by then, covered the cost that is booked.              *)
RedemptionsAreApproved == L!LedgerSpec

(* A member spends no more than was ever earned and what the other         *)
(* requests in flight spend when the last points go: undone completions    *)
(* and chores of negative worth apart, a balance goes no deeper below zero *)
(* (reward.go:182, reward.go:190).                                         *)
OverdraftIsBounded ==
    \A m \in MemberIDs :
        ever[m] - Spent(m) >= -((Cardinality(Handlers) - 1) * Max(Costs \cup {0}))
=============================================================================
