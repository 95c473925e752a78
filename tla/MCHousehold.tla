---------------------------- MODULE MCHousehold ----------------------------
(* The instance of Household that TLC checks.                              *)
EXTENDS Household

(* Four parts are looked at, each with all its interleavings: members that *)
(* come and go with their PINs; the board, with areas and chores of one    *)
(* member, whose id may have been guessed; the points of one member; and   *)
(* chores with a rule as time passes.  The bound cuts a behaviour that     *)
(* mixes more than that.                                                   *)
Busy(ops) == \A h \in Handlers : request[h].op \in ops \cup {"idle"}
NoPins == \A m \in Members : member[m].pin = Nobody
NoRules == \A c \in ChoreRows : chore[c].rule = {}

MembersPart ==
    nextReward = 1 /\ nextCompletion = 1 /\ nextArea = 1 /\ nextChore = 1 /\ now = 0

BoardPart ==
    /\ nextMember <= 2 /\ nextReward = 1 /\ nextCompletion = 1 /\ guessed \subseteq {1}
    /\ NoPins /\ NoRules /\ now = 0
    /\ Busy({"areaName", "memberInsert", "memberOrder"})

PointsPart ==
    /\ nextMember <= 2 /\ nextArea = 1 /\ now = 0 /\ NoPins /\ NoRules /\ guessed = {}
    /\ Busy({"complete", "undo", "earned", "spent", "redeem", "memberInsert", "memberOrder"})
    /\ \A m \in Members : member[m].order = 0
    /\ \A c \in ChoreRows : chore[c].assignedTo = Nobody /\ chore[c].area = 0

DaysPart ==
    /\ nextMember = 1 /\ nextArea = 1 /\ nextReward = 1 /\ guessed = {}
    /\ \A c \in ChoreRows : chore[c].area = 0

OnePart == MembersPart \/ BoardPart \/ PointsPart \/ DaysPart

(* The theorems about the ledger hold of the one of this instance. *)
ASSUME LedgerApplies == L!LedgerConstants

(* The server runs west of Greenwich. *)
West == -1

HandlerSymmetry == Permutations(Handlers)
=============================================================================
