------------------------------ MODULE Rewards ------------------------------
(***************************************************************************)
(* Rewards, their redemption and the points of each member.                *)
(*                                                                         *)
(* Source: internal/handler/reward.go, the reward pages of                 *)
(* internal/handler/template.go and internal/store/reward.go.  Points are  *)
(* nowhere stored: a balance is the sum of a member's completions less the *)
(* sum of the member's redemptions, two queries, and Redeem is a third     *)
(* statement after them.  The page takes any number as a cost, the API     *)
(* none below 0.                                                           *)
(***************************************************************************)
EXTENDS Chores

CONSTANTS
    Costs,          \* costs a reward may be given, negative ones too
    MaxRewards,     \* bound on the rewards ever created
    MaxRedemptions  \* bound on the redemptions ever recorded

ASSUME RewardsAssumption ==
    /\ IsFiniteSet(Costs)
    /\ Costs \subseteq Int
    /\ {MaxRewards, MaxRedemptions} \subseteq Nat

VARIABLES
    reward,         \* rows of rewards
    nextReward,
    redemption,     \* rows of reward_redemptions
    ever            \* history: points each member ever earned

rewardVars == <<reward, nextReward, redemption>>

RewardIDs == 1..MaxRewards
RewardRow == [cost : Costs, active : BOOLEAN]
RedemptionRow ==
    [id : 1..MaxRedemptions, reward : RewardIDs, by : 0..MaxMembers, spent : Costs]

RewardsTypeOK ==
    /\ reward \in [RewardIDs -> RewardRow \cup {NoRow}]
    /\ nextReward \in 1..(MaxRewards + 1)
    /\ redemption \in SUBSET RedemptionRow
    /\ ever \in [MemberIDs -> Nat]

RewardsInit ==
    /\ reward = [id \in RewardIDs |-> NoRow] /\ nextReward = 1
    /\ redemption = {}
    /\ ever = [m \in MemberIDs |-> 0]

-----------------------------------------------------------------------------
(* internal/store/reward.go. *)

InsertReward(row) ==
    /\ nextReward \in RewardIDs
    /\ reward' = [reward EXCEPT ![nextReward] = row]
    /\ nextReward' = nextReward + 1

UpdateRewardRow(id, row) ==
    reward' = IF reward[id] = NoRow THEN reward ELSE [reward EXCEPT ![id] = row]

DeleteRewardRow(id) == reward' = [reward EXCEPT ![id] = NoRow]

Redeem(id, by, cost) ==
    /\ Cardinality(redemption) < MaxRedemptions
    /\ redemption' = redemption \cup
          {[id |-> Cardinality(redemption) + 1, reward |-> id, by |-> by, spent |-> cost]}

PointsOf(m, rows) == MapThenSumSet(LAMBDA r : r.points, {r \in rows : r.by = m})
Earned(m) == PointsOf(m, completion)
Spent(m) == MapThenSumSet(LAMBDA r : r.spent, {r \in redemption : r.by = m})

(* GetAllPointBalances; the order of the leaderboard is left out. *)
Balances == [m \in Members |-> Earned(m) - Spent(m)]

-----------------------------------------------------------------------------
ApiRewardCreate(row) ==
    /\ row.cost >= 0
    /\ InsertReward(row)
    /\ UNCHANGED <<redemption, request>>

RewardCreate(row) ==
    /\ InsertReward(row)
    /\ UNCHANGED <<redemption, request>>

ApiRewardUpdate(id, row) ==
    /\ reward[id] # NoRow
    /\ row.cost >= 0
    /\ UpdateRewardRow(id, row)
    /\ UNCHANGED <<nextReward, redemption, request>>

RewardUpdate(id, row) ==
    /\ UpdateRewardRow(id, row)
    /\ UNCHANGED <<nextReward, redemption, request>>

ApiRewardDelete(id) ==
    /\ reward[id] # NoRow
    /\ DeleteRewardRow(id)
    /\ UNCHANGED <<nextReward, redemption, request>>

RewardDelete(id) ==
    /\ DeleteRewardRow(id)
    /\ UNCHANGED <<nextReward, redemption, request>>

(* Fault: the balance is never looked at. *)
RedeemLookupUnchecked(h, id, by) ==
    /\ reward[id] # NoRow
    /\ reward[id].active
    /\ Begin(h, [op |-> "redeem", reward |-> id, by |-> by, cost |-> reward[id].cost])
    /\ UNCHANGED rewardVars

(* The reward is read once: its cost is the one charged in the end.  No    *)
(* member, no balance to check.                                            *)
RedeemLookup(h, id, by) ==
    /\ reward[id] # NoRow
    /\ reward[id].active
    /\ Begin(h, [op |-> IF by = Nobody THEN "redeem" ELSE "earned",
                 reward |-> id, by |-> by, cost |-> reward[id].cost])
    /\ UNCHANGED rewardVars

ApiRedeem(h, id, by) == RedeemLookup(h, id, by)

RewardRedeem(h, id, d) == RedeemLookup(h, id, activeUserFromCookie(d))

BalanceEarned(h) ==
    LET r == request[h]
    IN  /\ At(h, "earned")
        /\ Continue(h, [op |-> "spent", reward |-> r.reward, by |-> r.by, cost |-> r.cost,
                        earned |-> Earned(r.by)])
        /\ UNCHANGED rewardVars

(* Fault: the comparison the wrong way round. *)
BalanceSpentReversed(h) ==
    LET r == request[h]
    IN  /\ At(h, "spent")
        /\ IF r.cost < r.earned - Spent(r.by)
           THEN Done(h)
           ELSE Continue(h, [op |-> "redeem", reward |-> r.reward, by |-> r.by,
                             cost |-> r.cost])
        /\ UNCHANGED rewardVars

BalanceSpent(h) ==
    LET r == request[h]
    IN  /\ At(h, "spent")
        /\ IF r.earned - Spent(r.by) < r.cost
           THEN Done(h)
           ELSE Continue(h, [op |-> "redeem", reward |-> r.reward, by |-> r.by,
                             cost |-> r.cost])
        /\ UNCHANGED rewardVars

RedeemInsert(h) ==
    /\ At(h, "redeem")
    /\ Redeem(request[h].reward, request[h].by, request[h].cost)
    /\ Done(h)
    /\ UNCHANGED <<reward, nextReward>>

-----------------------------------------------------------------------------
(* History, of no influence on the program: undoing a completion takes     *)
(* nothing away from it, and a chore of negative worth neither.            *)
RememberEarned ==
    LET new == {r \in completion' \ completion : r.points > 0}
    IN  ever' = IF new = {} THEN ever ELSE [m \in MemberIDs |-> ever[m] + PointsOf(m, new)]

RewardActions ==
    \/ \E row \in RewardRow : ApiRewardCreate(row) \/ RewardCreate(row)
    \/ \E id \in 1..(nextReward - 1) :
        \/ \E row \in RewardRow : ApiRewardUpdate(id, row) \/ RewardUpdate(id, row)
        \/ ApiRewardDelete(id) \/ RewardDelete(id)

Redeeming ==
    \E h \in Handlers :
        \/ \E id \in 1..(nextReward - 1) :
            \/ \E by \in 0..MaxMembers : Named(by) /\ ApiRedeem(h, id, by)
            \/ \E d \in Devices : RewardRedeem(h, id, d) /\ UNCHANGED guessed
        \/ (BalanceEarned(h) \/ BalanceSpent(h) \/ RedeemInsert(h)) /\ UNCHANGED guessed

RewardsNext == (RewardActions /\ UNCHANGED guessed) \/ Redeeming
=============================================================================
