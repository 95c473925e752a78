---------------------------- MODULE LedgerProofs ----------------------------
(***************************************************************************)
(* What is proved of the ledger: its types, and that an account is         *)
(* overdrawn by no more than what the other requests in flight can spend.  *)
(*                                                                         *)
(* The bound alone is not inductive: a state could meet it with as many    *)
(* approvals left to book as there are requests.  Covered is: either the   *)
(* balance covers one of the approvals, and the rest take MaxCost each, or *)
(* one request at least can no longer lower it.                            *)
(***************************************************************************)
EXTENDS Ledger, FiniteSetTheorems, TLAPS

(* The requests that are about to lower an account's balance *)
Pending(a) == {q \in Requests : /\ approved[q] # Nothing
                                /\ approved[q].account = a
                                /\ approved[q].cost > 0}

(* The balance an account has at least if n of its approvals are pending *)
Floor(n) == (n - Cardinality(Requests)) * MaxCost

CoveredAccount(a) ==
    \/ \E q \in Pending(a) :
          Balance(a) >= approved[q].cost + Floor(Cardinality(Pending(a)))
    \/ Balance(a) >= Floor(Cardinality(Pending(a)) + 1)

Covered == \A a \in Accounts : CoveredAccount(a)

-----------------------------------------------------------------------------
LEMMA TypesInit == ASSUME LedgerConstants PROVE LedgerInit => LedgerTypeOK
BY DEF LedgerConstants, LedgerInit, LedgerTypeOK

LEMMA TypesStep ==
    ASSUME LedgerConstants, LedgerTypeOK, [LedgerNext]_ledgerVars
    PROVE  LedgerTypeOK'
<1> USE DEF LedgerTypeOK
<1>1. CASE UNCHANGED ledgerVars
    BY <1>1 DEF ledgerVars
<1>2. ASSUME NEW a \in Accounts, NEW points \in Earnings, Earn(a, points)
      PROVE  LedgerTypeOK'
    BY <1>2 DEF Earn, LedgerConstants
<1>3. ASSUME NEW q \in Requests, NEW a \in Accounts, NEW cost \in Costs, Approve(q, a, cost)
      PROVE  LedgerTypeOK'
    BY <1>3 DEF Approve, Approvals
<1>4. ASSUME NEW q \in Requests, Book(q)
      PROVE  LedgerTypeOK'
    <2>1. approved[q] \in Approvals
        BY <1>4 DEF Book
    <2>2. approved[q].account \in Accounts /\ approved[q].cost \in Int
        BY <2>1 DEF Approvals, LedgerConstants
    <2>3. debit' \in [Accounts -> Int]
        BY <1>4, <2>2 DEF Book
    <2> QED
        BY <1>4, <2>3 DEF Book
<1>5. ASSUME NEW q \in Requests, Withdraw(q)
      PROVE  LedgerTypeOK'
    BY <1>5 DEF Withdraw
<1> QED
    BY <1>1, <1>2, <1>3, <1>4, <1>5 DEF LedgerNext

(* The ledger's variables keep their types.                                *)
THEOREM LedgerTypes == ASSUME LedgerConstants PROVE LedgerSpec => []LedgerTypeOK
<1>1. LedgerInit => LedgerTypeOK
    BY TypesInit
<1>2. LedgerTypeOK /\ [LedgerNext]_ledgerVars => LedgerTypeOK'
    BY TypesStep
<1> QED
    BY <1>1, <1>2, PTL DEF LedgerSpec

-----------------------------------------------------------------------------
(* Numbers.  A floor rises by MaxCost with each approval, and is not       *)
(* positive as long as there are no more of them than requests.            *)
LEMMA RequestCount ==
    ASSUME LedgerConstants
    PROVE  Cardinality(Requests) \in Nat \ {0}
BY FS_CardinalityType, FS_EmptySet DEF LedgerConstants

LEMMA FloorRises ==
    ASSUME LedgerConstants, NEW n \in Int
    PROVE  Floor(n) \in Int /\ Floor(n + 1) = Floor(n) + MaxCost
<1>1. Cardinality(Requests) \in Int /\ MaxCost \in Int
    BY RequestCount DEF LedgerConstants
<1>2. ASSUME NEW k \in Int, NEW m \in Int
      PROVE  /\ (n - k) * m \in Int
             /\ (n + 1 - k) * m = (n - k) * m + m
    OBVIOUS
<1> QED
    BY <1>1, <1>2 DEF Floor

LEMMA FloorOfAll ==
    ASSUME LedgerConstants, NEW n \in Nat, n <= Cardinality(Requests)
    PROVE  Floor(n) <= 0
<1>1. Cardinality(Requests) \in Nat /\ MaxCost \in Nat
    BY RequestCount DEF LedgerConstants
<1>2. ASSUME NEW k \in Nat, NEW m \in Nat, n <= k
      PROVE  (n - k) * m <= 0
    <2>1. k - n \in Nat
        BY <1>2
    <2>2. ASSUME NEW i \in Nat
          PROVE  i * m >= 0
        OBVIOUS
    <2>3. (k - n) * m >= 0
        BY <2>1, <2>2
    <2>4. (n - k) * m = -((k - n) * m)
        OBVIOUS
    <2> QED
        BY <2>3, <2>4
<1> QED
    BY <1>1, <1>2 DEF Floor

LEMMA FloorIsMonotone ==
    ASSUME LedgerConstants, NEW n \in Nat
    PROVE  Floor(n) >= Floor(0)
<1>1. Cardinality(Requests) \in Int /\ MaxCost \in Nat
    BY RequestCount DEF LedgerConstants
<1>2. ASSUME NEW k \in Int, NEW m \in Nat
      PROVE  (n - k) * m >= (0 - k) * m
    <2>1. n * m >= 0
        OBVIOUS
    <2>2. (n - k) * m = (0 - k) * m + n * m
        OBVIOUS
    <2> QED
        BY <2>1, <2>2
<1> QED
    BY <1>1, <1>2 DEF Floor

(* The pending approvals of an account are no more than the requests.      *)
LEMMA PendingCount ==
    ASSUME LedgerConstants, NEW a
    PROVE  /\ IsFiniteSet(Pending(a))
           /\ Cardinality(Pending(a)) \in Nat
           /\ Cardinality(Pending(a)) <= Cardinality(Requests)
<1>1. Pending(a) \subseteq Requests
    BY DEF Pending
<1> QED
    BY <1>1, FS_Subset, FS_CardinalityType DEF LedgerConstants

LEMMA PendingCosts ==
    ASSUME LedgerConstants, LedgerTypeOK, NEW a, NEW q \in Pending(a)
    PROVE  /\ approved[q].cost \in Int
           /\ approved[q].cost > 0
           /\ approved[q].cost <= MaxCost
           /\ MaxCost \in Nat
BY DEF Pending, LedgerTypeOK, Approvals, LedgerConstants

-----------------------------------------------------------------------------
LEMMA CoveredInit == ASSUME LedgerConstants PROVE LedgerInit => Covered
<1> SUFFICES ASSUME LedgerInit, NEW a \in Accounts
             PROVE  Balance(a) >= Floor(Cardinality(Pending(a)) + 1)
    BY DEF Covered, CoveredAccount
<1>1. Pending(a) = {}
    BY DEF Pending, LedgerInit
<1>2. Cardinality(Pending(a)) + 1 = 1 /\ Balance(a) = 0
    BY <1>1, FS_EmptySet DEF Balance, LedgerInit
<1>3. Floor(1) <= 0
    BY RequestCount, FloorOfAll
<1> QED
    BY <1>2, <1>3

(* An account is covered after a step if its balance did not sink and its  *)
(* pending approvals are the same.                                         *)
LEMMA CoveredStays ==
    ASSUME LedgerConstants, LedgerTypeOK, LedgerTypeOK', Covered, NEW a \in Accounts,
           Pending(a)' = Pending(a),
           \A q \in Pending(a) : approved'[q].cost = approved[q].cost,
           Balance(a)' >= Balance(a)
    PROVE  CoveredAccount(a)'
<1> DEFINE n == Cardinality(Pending(a))
<1>1. n \in Nat /\ Floor(n) \in Int /\ Floor(n + 1) \in Int
    BY PendingCount, FloorRises
<1>2. Balance(a) \in Int /\ Balance(a)' \in Int
    BY DEF Balance, LedgerTypeOK
<1>3. CASE \E q \in Pending(a) : Balance(a) >= approved[q].cost + Floor(n)
    <2>1. PICK q \in Pending(a) : Balance(a) >= approved[q].cost + Floor(n)
        BY <1>3
    <2>2. approved[q].cost \in Int
        BY PendingCosts
    <2>3. Balance(a)' >= approved'[q].cost + Floor(n)
        BY <1>1, <1>2, <2>1, <2>2
    <2> QED
        BY <2>1, <2>3 DEF CoveredAccount, Floor
<1>4. CASE Balance(a) >= Floor(n + 1)
    <2>1. Balance(a)' >= Floor(n + 1)
        BY <1>1, <1>2, <1>4
    <2> QED
        BY <2>1 DEF CoveredAccount, Floor
<1> QED
    BY <1>3, <1>4 DEF Covered, CoveredAccount

(* An account is covered after one of its pending approvals has gone, with *)
(* or without its cost.                                                    *)
LEMMA CoveredWithout ==
    ASSUME LedgerConstants, LedgerTypeOK, LedgerTypeOK', Covered, NEW a \in Accounts,
           NEW q \in Pending(a),
           Pending(a)' = Pending(a) \ {q},
           \A p \in Pending(a) \ {q} : approved'[p].cost = approved[p].cost,
           Balance(a)' >= Balance(a) - approved[q].cost
    PROVE  CoveredAccount(a)'
<1> DEFINE n == Cardinality(Pending(a))
           c == approved[q].cost
<1>1. n \in Nat /\ n - 1 \in Int /\ Cardinality(Pending(a))' = n - 1
    <2>1. IsFiniteSet(Pending(a)) /\ n \in Nat
        BY PendingCount
    <2>2. Cardinality(Pending(a) \ {q}) = n - 1
        BY <2>1, FS_RemoveElement
    <2> QED
        BY <2>1, <2>2
<1>2. /\ Floor(n) \in Int /\ Floor(n - 1) \in Int
      /\ Floor(n) = Floor(n - 1) + MaxCost
      /\ Floor(n + 1) = Floor(n) + MaxCost
    <2>1. (n - 1) + 1 = n
        BY <1>1
    <2> QED
        BY <1>1, <2>1, FloorRises
<1>3. Balance(a) \in Int /\ Balance(a)' \in Int
    BY DEF Balance, LedgerTypeOK
<1>4. c \in Int /\ c <= MaxCost /\ MaxCost \in Nat
    BY PendingCosts
<1>5. CASE \E p \in Pending(a) : Balance(a) >= approved[p].cost + Floor(n)
    <2>1. PICK p \in Pending(a) : Balance(a) >= approved[p].cost + Floor(n)
        BY <1>5
    <2>2. CASE p = q
        <3>1. Balance(a)' >= Floor(n)
            BY <1>2, <1>3, <1>4, <2>1, <2>2
        <3>2. Balance(a)' >= Floor(Cardinality(Pending(a))' + 1)
            BY <1>1, <3>1
        <3> QED
            BY <3>2 DEF CoveredAccount, Floor
    <2>3. CASE p # q
        <3>1. approved[p].cost \in Int /\ approved'[p].cost = approved[p].cost
            BY <2>3, PendingCosts
        <3>2. Balance(a)' >= approved'[p].cost + Floor(n - 1)
            BY <1>2, <1>3, <1>4, <2>1, <3>1
        <3>3. p \in Pending(a)'
            BY <2>3
        <3> QED
            BY <1>1, <3>2, <3>3 DEF CoveredAccount, Floor
    <2> QED
        BY <2>2, <2>3
<1>6. CASE Balance(a) >= Floor(n + 1)
    <2>1. Balance(a)' >= Floor(n)
        BY <1>2, <1>3, <1>4, <1>6
    <2>2. Balance(a)' >= Floor(Cardinality(Pending(a))' + 1)
        BY <1>1, <2>1
    <2> QED
        BY <2>2 DEF CoveredAccount, Floor
<1> QED
    BY <1>5, <1>6 DEF Covered, CoveredAccount

(* An account is covered after the balance has been found to cover the     *)
(* approval that is new.                                                   *)
LEMMA CoveredWith ==
    ASSUME LedgerConstants, LedgerTypeOK, LedgerTypeOK', NEW a \in Accounts,
           NEW q \in Pending(a)',
           Balance(a)' >= approved'[q].cost
    PROVE  CoveredAccount(a)'
<1> DEFINE n == Cardinality(Pending(a)')
<1>1. Pending(a)' \subseteq Requests
    BY DEF Pending
<1>2. n \in Nat /\ n <= Cardinality(Requests)
    BY <1>1, FS_Subset, FS_CardinalityType DEF LedgerConstants
<1>3. Floor(n) \in Int /\ Floor(n) <= 0
    BY <1>2, FloorRises, FloorOfAll
<1>4. Balance(a)' \in Int /\ approved'[q].cost \in Int
    <2>1. Balance(a)' \in Int
        BY DEF Balance, LedgerTypeOK
    <2>2. approved'[q] \in Approvals
        BY DEF Pending, LedgerTypeOK
    <2> QED
        BY <2>1, <2>2 DEF Approvals, LedgerConstants
<1>5. Balance(a)' >= approved'[q].cost + Floor(n)
    BY <1>3, <1>4
<1> QED
    BY <1>5 DEF CoveredAccount, Floor

-----------------------------------------------------------------------------
LEMMA CoveredStep ==
    ASSUME LedgerConstants, LedgerTypeOK, Covered, [LedgerNext]_ledgerVars
    PROVE  Covered'
<1>0. LedgerTypeOK'
    BY TypesStep
<1> SUFFICES ASSUME NEW a \in Accounts
             PROVE  CoveredAccount(a)'
    BY DEF Covered
<1> USE <1>0
<1>1. CASE UNCHANGED ledgerVars
    BY <1>1, CoveredStays DEF ledgerVars, Pending, Balance, LedgerTypeOK
<1>2. ASSUME NEW b \in Accounts, NEW points \in Earnings, Earn(b, points)
      PROVE  CoveredAccount(a)'
    <2>1. Pending(a)' = Pending(a)
        BY <1>2 DEF Pending, Earn
    <2>2. Balance(a)' >= Balance(a)
        BY <1>2 DEF Balance, Earn, LedgerTypeOK, LedgerConstants
    <2> QED
        BY <1>2, <2>1, <2>2, CoveredStays DEF Earn
<1>3. ASSUME NEW q \in Requests, NEW b \in Accounts, NEW cost \in Costs, Approve(q, b, cost)
      PROVE  CoveredAccount(a)'
    <2>1. /\ approved' = [approved EXCEPT ![q] = [account |-> b, cost |-> cost]]
          /\ q \notin Pending(a)
          /\ cost \in Int
        BY <1>3 DEF Approve, Pending, LedgerConstants
    <2>2. Balance(a)' = Balance(a) /\ Balance(a) \in Int
        BY <1>3 DEF Approve, Balance, LedgerTypeOK
    <2>3. CASE a = b /\ cost > 0
        <3>1. approved'[q] = [account |-> b, cost |-> cost]
            BY <2>1 DEF LedgerTypeOK
        <3>2. q \in Pending(a)'
            BY <2>3, <3>1 DEF Pending, Nothing
        <3> QED
            BY <1>3, <2>2, <2>3, <3>1, <3>2, CoveredWith DEF Approve
    <2>4. CASE ~(a = b /\ cost > 0)
        <3>1. Pending(a)' = Pending(a)
            BY <2>1, <2>4 DEF Pending, LedgerTypeOK
        <3>2. \A p \in Pending(a) : approved'[p].cost = approved[p].cost
            BY <2>1 DEF Pending, LedgerTypeOK
        <3> QED
            BY <2>2, <3>1, <3>2, CoveredStays
    <2> QED
        BY <2>3, <2>4
<1>4. ASSUME NEW q \in Requests, Book(q)
      PROVE  CoveredAccount(a)'
    <2>1. /\ approved' = [approved EXCEPT ![q] = Nothing]
          /\ approved[q] \in Approvals
          /\ approved[q].account \in Accounts
          /\ approved[q].cost \in Int
        BY <1>4 DEF Book, LedgerTypeOK, Approvals, LedgerConstants
    <2>2. Pending(a)' = Pending(a) \ {q}
        BY <2>1 DEF Pending, LedgerTypeOK
    <2>3. \A p \in Pending(a) \ {q} : approved'[p].cost = approved[p].cost
        BY <2>1 DEF Pending, LedgerTypeOK
    <2>4. Balance(a)' = IF a = approved[q].account THEN Balance(a) - approved[q].cost
                        ELSE Balance(a)
        BY <1>4, <2>1 DEF Book, Balance, LedgerTypeOK
    <2>5. Balance(a) \in Int
        BY DEF Balance, LedgerTypeOK
    <2>6. CASE q \in Pending(a)
        BY <2>1, <2>2, <2>3, <2>4, <2>5, <2>6, CoveredWithout DEF Pending
    <2>7. CASE q \notin Pending(a)
        <3>1. Balance(a)' >= Balance(a)
            BY <2>1, <2>4, <2>5, <2>7 DEF Pending, Approvals, Nothing
        <3> QED
            BY <2>2, <2>3, <2>7, <3>1, CoveredStays
    <2> QED
        BY <2>6, <2>7
<1>5. ASSUME NEW q \in Requests, Withdraw(q)
      PROVE  CoveredAccount(a)'
    <2>1. approved' = [approved EXCEPT ![q] = Nothing]
        BY <1>5 DEF Withdraw
    <2>2. Pending(a)' = Pending(a) \ {q}
        BY <2>1 DEF Pending, LedgerTypeOK
    <2>3. \A p \in Pending(a) \ {q} : approved'[p].cost = approved[p].cost
        BY <2>1 DEF Pending, LedgerTypeOK
    <2>4. Balance(a)' = Balance(a) /\ Balance(a) \in Int
        BY <1>5 DEF Withdraw, Balance, LedgerTypeOK
    <2>5. CASE q \in Pending(a)
        <3>1. Balance(a)' >= Balance(a) - approved[q].cost
            BY <2>4, <2>5, PendingCosts
        <3> QED
            BY <2>2, <2>3, <2>5, <3>1, CoveredWithout
    <2>6. CASE q \notin Pending(a)
        BY <2>2, <2>3, <2>4, <2>6, CoveredStays
    <2> QED
        BY <2>5, <2>6
<1> QED
    BY <1>1, <1>2, <1>3, <1>4, <1>5 DEF LedgerNext

LEMMA CoveredIsEnough ==
    ASSUME LedgerConstants, LedgerTypeOK, Covered
    PROVE  OverdraftIsBounded
<1> SUFFICES ASSUME NEW a \in Accounts
             PROVE  Balance(a) >= -((Cardinality(Requests) - 1) * MaxCost)
    BY DEF OverdraftIsBounded
<1> DEFINE n == Cardinality(Pending(a))
<1>1. n \in Nat /\ Floor(n) \in Int /\ Floor(n + 1) = Floor(n) + MaxCost
    BY PendingCount, FloorRises
<1>2. Balance(a) \in Int /\ MaxCost \in Nat
    BY DEF Balance, LedgerTypeOK, LedgerConstants
<1>3. Floor(1) \in Int /\ Floor(1) = -((Cardinality(Requests) - 1) * MaxCost)
    <2>1. Cardinality(Requests) \in Int /\ MaxCost \in Int
        BY RequestCount DEF LedgerConstants
    <2>2. ASSUME NEW k \in Int, NEW m \in Int
          PROVE  (1 - k) * m \in Int /\ (1 - k) * m = -((k - 1) * m)
        OBVIOUS
    <2> QED
        BY <2>1, <2>2 DEF Floor
<1>4. Floor(n + 1) >= Floor(1)
    <2>1. Floor(n) >= Floor(0) /\ Floor(0) \in Int /\ Floor(0 + 1) = Floor(0) + MaxCost
        BY <1>1, FloorIsMonotone, FloorRises
    <2>2. 0 + 1 = 1
        OBVIOUS
    <2> QED
        BY <1>1, <1>2, <1>3, <2>1, <2>2
<1>5. CASE \E q \in Pending(a) : Balance(a) >= approved[q].cost + Floor(n)
    <2>1. PICK q \in Pending(a) : Balance(a) >= approved[q].cost + Floor(n)
        BY <1>5
    <2>2. approved[q].cost \in Int /\ approved[q].cost > 0
        BY PendingCosts
    <2>3. n >= 1
        BY <1>1, PendingCount, FS_EmptySet
    <2>4. Floor(n) >= Floor(1)
        <3>1. n - 1 \in Nat /\ (n - 1) + 1 = n
            BY <1>1, <2>3
        <3>2. Floor(n - 1) >= Floor(0) /\ Floor(n - 1) \in Int /\ Floor(n) = Floor(n - 1) + MaxCost
            BY <3>1, FloorIsMonotone, FloorRises
        <3>3. Floor(0) \in Int /\ Floor(0 + 1) = Floor(0) + MaxCost /\ 0 + 1 = 1
            BY FloorRises
        <3> QED
            BY <1>2, <3>2, <3>3
    <2> QED
        BY <1>1, <1>2, <1>3, <2>1, <2>2, <2>4
<1>6. CASE Balance(a) >= Floor(n + 1)
    BY <1>1, <1>2, <1>3, <1>4, <1>6
<1> QED
    BY <1>5, <1>6 DEF Covered, CoveredAccount

(* An account is overdrawn by at most MaxCost for each request but one,    *)
(* however many requests, members and rewards there are: Redeem's check    *)
(* and insert (reward.go:182, reward.go:193) may overlap.                  *)
THEOREM OverdraftBound == ASSUME LedgerConstants PROVE LedgerSpec => []OverdraftIsBounded
<1> DEFINE IInv == LedgerTypeOK /\ Covered
<1>1. LedgerInit => IInv
    BY TypesInit, CoveredInit
<1>2. IInv /\ [LedgerNext]_ledgerVars => IInv'
    BY TypesStep, CoveredStep
<1>3. IInv => OverdraftIsBounded
    BY CoveredIsEnough
<1> QED
    BY <1>1, <1>2, <1>3, PTL DEF LedgerSpec
=============================================================================
