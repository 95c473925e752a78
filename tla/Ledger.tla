------------------------------ MODULE Ledger ------------------------------
(***************************************************************************)
(* What redeeming rewards promises about points, without chores, rewards   *)
(* or statements.                                                          *)
(*                                                                         *)
(* A member's account has a credit side, which only grows, and a debit     *)
(* side.  A request is approved for a cost that the account covers at that *)
(* moment, and is booked later, or never.  Between the two the balance may *)
(* have been spent by another request approved meanwhile: the account can  *)
(* be overdrawn, and the question is by how much.  The code this abstracts *)
(* is the check and the insert of Redeem in internal/handler/reward.go and *)
(* of RewardRedeem in internal/handler/template.go.                        *)
(***************************************************************************)
EXTENDS Integers, FiniteSets

CONSTANTS
    Requests,      \* requests that may be in flight at once
    Accounts,      \* members
    Earnings,      \* points a chore earns
    Costs,         \* costs of rewards, negative ones too
    MaxCost        \* the highest of them

(* What the constants are, for the theorems of LedgerProofs *)
LedgerConstants ==
    /\ IsFiniteSet(Requests)
    /\ Requests # {}
    /\ Earnings \subseteq Nat
    /\ Costs \subseteq Int
    /\ MaxCost \in Nat
    /\ \A c \in Costs : c <= MaxCost

VARIABLES
    credit,        \* points of each account, ever
    debit,         \* points spent from each account
    approved       \* what each request has been approved for

ledgerVars == <<credit, debit, approved>>

Nothing == [for |-> "nothing"]
Approvals == [account : Accounts, cost : Costs]

LedgerTypeOK ==
    /\ credit \in [Accounts -> Int]
    /\ debit \in [Accounts -> Int]
    /\ approved \in [Requests -> Approvals \cup {Nothing}]

Balance(a) == credit[a] - debit[a]

LedgerInit ==
    /\ credit = [a \in Accounts |-> 0]
    /\ debit = [a \in Accounts |-> 0]
    /\ approved = [q \in Requests |-> Nothing]

Earn(a, points) ==
    /\ credit' = [credit EXCEPT ![a] = @ + points]
    /\ UNCHANGED <<debit, approved>>

Approve(q, a, cost) ==
    /\ approved[q] = Nothing
    /\ cost <= Balance(a)
    /\ approved' = [approved EXCEPT ![q] = [account |-> a, cost |-> cost]]
    /\ UNCHANGED <<credit, debit>>

Book(q) ==
    /\ approved[q] # Nothing
    /\ debit' = [debit EXCEPT ![approved[q].account] = @ + approved[q].cost]
    /\ approved' = [approved EXCEPT ![q] = Nothing]
    /\ UNCHANGED credit

Withdraw(q) ==
    /\ approved[q] # Nothing
    /\ approved' = [approved EXCEPT ![q] = Nothing]
    /\ UNCHANGED <<credit, debit>>

LedgerNext ==
    \/ \E a \in Accounts, points \in Earnings : Earn(a, points)
    \/ \E q \in Requests :
        \/ \E a \in Accounts, cost \in Costs : Approve(q, a, cost)
        \/ Book(q)
        \/ Withdraw(q)

LedgerSpec == LedgerInit /\ [][LedgerNext]_ledgerVars

-----------------------------------------------------------------------------
(* An account is overdrawn by less than one full round of requests: those  *)
(* in flight next to the one whose check still saw the points.             *)
OverdraftIsBounded ==
    \A a \in Accounts : Balance(a) >= -((Cardinality(Requests) - 1) * MaxCost)
=============================================================================
