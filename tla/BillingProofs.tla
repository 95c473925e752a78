--------------------------- MODULE BillingProofs ---------------------------
(***************************************************************************)
(* What is proved of the billing service, and at the end of the license    *)
(* client that asks it.  Of the service: whatever Stripe's events do -     *)
(* lost, repeated, reordered, overlapping, failing in the middle - each    *)
(* key belongs to the account of its subscription, and that to the         *)
(* customer who checked out; whenever requests come, the limiter lets      *)
(* through no more than twice its limit in a window's length of time; and  *)
(* of a subscription whose events all arrived in order, one at a time, the *)
(* tables say what Stripe says.                                            *)
(*                                                                         *)
(* Rows are only added, each under the next id, and the account of a       *)
(* subscription and the email of an account never change.  So it is enough *)
(* to know of each delivery in flight whose account it holds (Holds) and,  *)
(* between the subscription's row and its key, that the row is its own.    *)
(*                                                                         *)
(* Of the limiter it is enough to know, of each client, how many requests  *)
(* were let through in the window of its entry and in a window's length    *)
(* before it (InTheWindow), or once that is over, in the last such length  *)
(* of time (AfterTheWindow).                                               *)
(*                                                                         *)
(* Of a subscription, each event says of what it is not about what the one *)
(* before it said (Tells).  So after the n-th the one row and the one key  *)
(* say what the n-th says, and between its statements what it says but for *)
(* those to come (Says, Stage).  A statement of another subscription's     *)
(* delivery writes another row and another key (Moves).                    *)
(*                                                                         *)
(* Of the license client, which shares no variable with the service, that  *)
(* no feature outlives its last confirmation by more than the grace period *)
(* (Backed), and that only the reasons OutageIsHarmless lists take one     *)
(* away.                                                                   *)
(***************************************************************************)
EXTENDS BillingService, LicenseClient, FiniteSetTheorems, TLAPS

(* The rows of a table are the first ids. *)
Dense(table) ==
    /\ DOMAIN table = RowIDs
    /\ \A i, j \in RowIDs : i < j /\ table[j] # NoRow => table[i] # NoRow

Known(s) == stripe[s] # None /\ "email" \in DOMAIN stripe[s]

StripeInv ==
    /\ DOMAIN stripe = Subscriptions
    /\ DOMAIN events = Subscriptions
    /\ \A s \in Subscriptions : stripe[s] # None => Known(s)
    /\ \A s \in Subscriptions : stripe[s] = None => events[s] = <<>>

(* The account of a customer *)
Of(a, s) == a \in RowIDs /\ account[a] # NoRow /\ account[a].email = stripe[s].email

AccountInv ==
    /\ Dense(account)
    /\ \A a \in RowIDs : account[a] # NoRow => "email" \in DOMAIN account[a]
    /\ \A a, b \in RowIDs :
        account[a] # NoRow /\ account[b] # NoRow /\ account[a].email = account[b].email => a = b

SubscriptionInv ==
    /\ Dense(subscription)
    /\ \A b \in RowIDs : subscription[b] # NoRow =>
        /\ {"account", "stripe", "status", "cancel"} \subseteq DOMAIN subscription[b]
        /\ subscription[b].account \in RowIDs
        /\ account[subscription[b].account] # NoRow
        /\ subscription[b].stripe # NoId =>
              /\ subscription[b].stripe \in Subscriptions
              /\ Known(subscription[b].stripe)
              /\ Of(subscription[b].account, subscription[b].stripe)

KeyInv ==
    /\ Dense(licenseKey)
    /\ \A k \in RowIDs : licenseKey[k] # NoRow =>
        /\ {"account", "subscription", "expires"} \subseteq DOMAIN licenseKey[k]
        /\ licenseKey[k].subscription \in RowIDs
        /\ subscription[licenseKey[k].subscription] # NoRow
        /\ licenseKey[k].account = subscription[licenseKey[k].subscription].account
    /\ \A k, l \in RowIDs :
        licenseKey[k] # NoRow /\ licenseKey[l] # NoRow
            /\ licenseKey[k].subscription = licenseKey[l].subscription => k = l

(* Between the insert of a subscription and that of its key *)
Making == {"stripeID", "key"}

NoKeyFor(b) == \A k \in RowIDs : licenseKey[k] # NoRow => licenseKey[k].subscription # b

(* What a delivery relies on *)
Holds(r) ==
    /\ {"op", "s", "event", "sub", "account"} \subseteq DOMAIN r
    /\ r.s \in Subscriptions /\ Known(r.s)
    /\ r.op \in {"customer", "subscription"} \cup Making => Of(r.account, r.s)
    /\ r.op \in Making =>
        /\ r.sub \in RowIDs /\ subscription[r.sub] # NoRow
        /\ subscription[r.sub].account = r.account
        /\ NoKeyFor(r.sub)

RequestInv ==
    /\ DOMAIN request = Handlers
    /\ \A h \in Handlers : request[h] = Idle \/ Holds(request[h])
    /\ \A g, h \in Handlers :
        request[g].op \in Making /\ request[h].op \in Making
            /\ request[g].sub = request[h].sub => g = h

TablesInv == StripeInv /\ AccountInv /\ SubscriptionInv /\ KeyInv

IInv == TablesInv /\ RequestInv

(* What no step undoes: who a customer, an account, a subscription is of *)
Grow ==
    /\ \A s \in Subscriptions :
        Known(s) => Known(s)' /\ stripe'[s].email = stripe[s].email
    /\ \A a \in RowIDs :
        account[a] # NoRow => account'[a] # NoRow /\ account'[a].email = account[a].email
    /\ \A b \in RowIDs :
        subscription[b] # NoRow =>
            subscription'[b] # NoRow /\ subscription'[b].account = subscription[b].account

-----------------------------------------------------------------------------
(* Ids.                                                                    *)

LEMMA NextIdIsFree ==
    ASSUME NEW table, Dense(table), NextId(table) \in RowIDs
    PROVE  /\ table[NextId(table)] = NoRow
           /\ \A i \in RowIDs : i < NextId(table) => table[i] # NoRow
<1> DEFINE S == {id \in RowIDs : table[id] # NoRow}
           n == Cardinality(S)
<1>1. IsFiniteSet(S) /\ n \in Nat
    <2>1. IsFiniteSet(RowIDs)
        BY FS_Interval, BillingAssumption DEF RowIDs
    <2>2. S \subseteq RowIDs
        OBVIOUS
    <2> QED
        BY <2>1, <2>2, FS_Subset, FS_CardinalityType
<1>2. NextId(table) = n + 1
    BY DEF NextId
<1>3. \A T : T \subseteq S => Cardinality(T) <= n
    BY <1>1, FS_Subset
<1>4. \A T : IsFiniteSet(T) /\ S \subseteq T => n <= Cardinality(T)
    BY FS_Subset
<1>5. \A id \in RowIDs : id \in S <=> table[id] # NoRow
    OBVIOUS
<1>6. \A m \in Nat : IsFiniteSet(1..m) /\ Cardinality(1..m) = m
    BY FS_Interval
<1>7. S \subseteq RowIDs
    OBVIOUS
<1> HIDE DEF S, n
<1>8. ASSUME table[n + 1] # NoRow
      PROVE  FALSE
    <2>1. 1..(n + 1) \subseteq S
        BY <1>1, <1>2, <1>5, <1>8, BillingAssumption DEF Dense, RowIDs
    <2>2. n + 1 <= n
        BY <1>1, <1>3, <1>6, <2>1
    <2> QED
        BY <1>1, <2>2
<1>9. ASSUME NEW i \in RowIDs, i < n + 1, table[i] = NoRow
      PROVE  FALSE
    <2>1. S \subseteq 1..(i - 1)
        BY <1>1, <1>5, <1>7, <1>9, BillingAssumption DEF Dense, RowIDs
    <2>2. i - 1 \in Nat
        BY BillingAssumption DEF RowIDs
    <2>3. n <= i - 1
        BY <1>4, <1>6, <2>1, <2>2
    <2> QED
        BY <1>1, <1>9, <2>3, BillingAssumption DEF RowIDs
<1> QED
    BY <1>2, <1>8, <1>9

LEMMA InsertKeepsDense ==
    ASSUME NEW table, NEW row, Dense(table), row # NoRow, NextId(table) \in RowIDs
    PROVE  /\ Dense(Insert(table, row))
           /\ \A i \in RowIDs :
                Insert(table, row)[i] = IF i = NextId(table) THEN row ELSE table[i]
<1>1. /\ table[NextId(table)] = NoRow
      /\ \A i \in RowIDs : i < NextId(table) => table[i] # NoRow
    BY NextIdIsFree
<1> DEFINE n == NextId(table)
<1>2. Insert(table, row) = [table EXCEPT ![n] = row]
    BY DEF Insert
<1> HIDE DEF n
<1>3. n \in RowIDs
    BY DEF n
<1> QED
    BY <1>1, <1>2, <1>3 DEF Dense, RowIDs, n

LEMMA NoRowHasNoField ==
    ASSUME NEW r, NEW f \in {"email", "account"}, f \in DOMAIN r
    PROVE  r # NoRow
BY DEF NoRow

-----------------------------------------------------------------------------
(* Requests.                                                               *)

LEMMA HoldsKept ==
    ASSUME NEW r, Holds(r), Grow, r.op \in Making => NoKeyFor(r.sub)'
    PROVE  Holds(r)'
BY DEF Holds, Grow, Of

LEMMA HoldsHere ==
    ASSUME NEW h, NEW r, request'[h] = r, Holds(r)'
    PROVE  Holds(request[h])'
BY DEF Holds, Of, Known, NoKeyFor

LEMMA NoKeyForKept ==
    ASSUME UNCHANGED licenseKey, NEW b, NoKeyFor(b)
    PROVE  NoKeyFor(b)'
BY DEF NoKeyFor

(* The next step of one request, for which the others are what they were. *)
LEMMA RequestKeeps ==
    ASSUME RequestInv, Grow, NEW h \in Handlers, NEW r,
           request' = [request EXCEPT ![h] = r],
           r = Idle \/ Holds(r)',
           \A g \in Handlers \ {h}, b \in RowIDs :
              request[g].op \in Making /\ b = request[g].sub =>
                 NoKeyFor(b)' /\ (r.op \in Making => b # r.sub)
    PROVE  RequestInv'
<1>1. DOMAIN request' = Handlers
    BY DEF RequestInv
<1>2. \A g \in Handlers : request'[g] = IF g = h THEN r ELSE request[g]
    BY DEF RequestInv
<1>3. ASSUME NEW g \in Handlers
      PROVE  (request[g] = Idle \/ Holds(request[g]))'
    <2>1. CASE g = h
        BY <1>2, <2>1, HoldsHere DEF Idle
    <2>2. CASE g # h
        <3>1. PICK x : x = request[g]
            OBVIOUS
        <3>2. x = Idle \/ Holds(x)
            BY <3>1 DEF RequestInv
        <3>3. x.op \in Making => NoKeyFor(x.sub)'
            BY <2>2, <3>1, <3>2 DEF Holds, Idle, Making
        <3>4. x = Idle \/ Holds(x)'
            BY <3>2, <3>3, HoldsKept
        <3>5. request'[g] = x
            BY <1>2, <2>2, <3>1
        <3> QED
            BY <3>4, <3>5, HoldsHere DEF Idle
    <2> QED
        BY <2>1, <2>2
<1>4. ASSUME NEW f \in Handlers, NEW g \in Handlers,
             request'[f].op \in Making, request'[g].op \in Making,
             request'[f].sub = request'[g].sub
      PROVE  f = g
    <2>1. ASSUME NEW e \in Handlers \ {h}, request[e].op \in Making
          PROVE  request[e].sub \in RowIDs
        BY <2>1 DEF RequestInv, Holds, Idle, Making
    <2> QED
        BY <1>2, <1>4, <2>1 DEF RequestInv
<1> QED
    BY <1>1, <1>3, <1>4 DEF RequestInv

(* A step that leaves the keys alone. *)
LEMMA RequestKeepsKeys ==
    ASSUME RequestInv, Grow, NEW h \in Handlers, NEW r,
           request' = [request EXCEPT ![h] = r],
           r = Idle \/ Holds(r)', UNCHANGED licenseKey,
           r.op \in Making =>
              \A g \in Handlers \ {h} : request[g].op \in Making => request[g].sub # r.sub
    PROVE  RequestInv'
<1>1. ASSUME NEW g \in Handlers, NEW b, request[g].op \in Making, b = request[g].sub
      PROVE  NoKeyFor(b)
    BY <1>1 DEF RequestInv, Holds, Idle, Making
<1>2. ASSUME NEW g \in Handlers, NEW b, request[g].op \in Making, b = request[g].sub
      PROVE  NoKeyFor(b)'
    BY <1>1, <1>2, NoKeyForKept
<1>3. \A g \in Handlers \ {h}, b \in RowIDs :
          request[g].op \in Making /\ b = request[g].sub =>
             NoKeyFor(b)' /\ (r.op \in Making => b # r.sub)
    BY <1>2
<1> QED
    BY <1>3, RequestKeeps

LEMMA RequestsKept ==
    ASSUME RequestInv, Grow, UNCHANGED <<licenseKey, request>>
    PROVE  RequestInv'
<1>1. ASSUME NEW h \in Handlers, NEW r, r = request[h], Holds(r)
      PROVE  Holds(r)'
    BY <1>1, NoKeyForKept, HoldsKept DEF Holds
<1>2. ASSUME NEW h \in Handlers
      PROVE  (request[h] = Idle \/ Holds(request[h]))'
    BY <1>1, <1>2, HoldsHere DEF RequestInv, Idle
<1> QED
    BY <1>2 DEF RequestInv

LEMMA NothingMoves ==
    ASSUME TablesInv, UNCHANGED <<rows, stripeVars>>
    PROVE  TablesInv' /\ Grow
BY DEF TablesInv, StripeInv, AccountInv, SubscriptionInv, KeyInv, Known, Of, Dense, Grow,
       rows, stripeVars

-----------------------------------------------------------------------------
(* The tables, one at a time.                                              *)

LEMMA StripeKeeps ==
    ASSUME IInv, Stripe
    PROVE  IInv'
<1> USE DEF IInv, TablesInv
<1>1. UNCHANGED <<rows, request>>
    BY DEF Stripe, StripeStart, StripeRenew, StripeFail, StripeSetCancel, StripeCancel,
           StripeChange, Send
<1>2. PICK s \in Subscriptions : \E r, es :
          /\ stripe' = [stripe EXCEPT ![s] = r]
          /\ events' = [events EXCEPT ![s] = es]
          /\ r # None /\ "email" \in DOMAIN r
          /\ stripe[s] = None \/ r.email = stripe[s].email
    <2>1. ASSUME NEW s \in Subscriptions, NEW email \in Emails, StripeStart(s, email)
          PROVE  \E r, es :
                    /\ stripe' = [stripe EXCEPT ![s] = r]
                    /\ events' = [events EXCEPT ![s] = es]
                    /\ r # None /\ "email" \in DOMAIN r
                    /\ stripe[s] = None \/ r.email = stripe[s].email
        <3> DEFINE r == [status |-> "active", begin |-> now, end |-> now + Period,
                         cancel |-> FALSE, since |-> now, email |-> email]
        <3>1. "email" \in DOMAIN r /\ "email" \notin DOMAIN None
            BY DEF None
        <3> QED
            BY <2>1, <3>1 DEF StripeStart, Send
    <2>2. ASSUME NEW s \in Subscriptions, NEW state, NEW begin, NEW cancel, NEW types,
                 stripe[s] # None, StripeChange(s, state, begin, cancel, types)
          PROVE  \E r, es :
                    /\ stripe' = [stripe EXCEPT ![s] = r]
                    /\ events' = [events EXCEPT ![s] = es]
                    /\ r # None /\ "email" \in DOMAIN r
                    /\ stripe[s] = None \/ r.email = stripe[s].email
        <3> DEFINE r == [stripe[s] EXCEPT !.status = state, !.begin = begin,
                                          !.end = begin + Period, !.cancel = cancel,
                                          !.since = now]
        <3>1. "email" \in DOMAIN r /\ r.email = stripe[s].email /\ "email" \notin DOMAIN None
            BY <2>2 DEF None, StripeInv, Known
        <3> QED
            BY <2>2, <3>1 DEF StripeChange, Send
    <2> QED
        BY <2>1, <2>2 DEF Stripe, StripeRenew, StripeFail, StripeSetCancel, StripeCancel
<1>3. PICK r, es :
          /\ stripe' = [stripe EXCEPT ![s] = r]
          /\ events' = [events EXCEPT ![s] = es]
          /\ r # None /\ "email" \in DOMAIN r
          /\ stripe[s] = None \/ r.email = stripe[s].email
    BY <1>2
<1>4. StripeInv'
    BY <1>3 DEF StripeInv, Known
<1>5. Grow
    BY <1>1, <1>3 DEF Grow, StripeInv, Known, rows
<1>6. AccountInv' /\ SubscriptionInv' /\ KeyInv'
    BY <1>1, <1>5 DEF AccountInv, SubscriptionInv, KeyInv, Dense, Of, Grow, rows
<1>7. RequestInv'
    BY <1>1, <1>5, RequestsKept DEF rows
<1> QED
    BY <1>4, <1>6, <1>7

(* An account is added, or a row keeps its email. *)
LEMMA AccountKept ==
    ASSUME TablesInv, AccountInv', Grow, UNCHANGED <<subscription, licenseKey, stripeVars>>
    PROVE  TablesInv'
BY DEF TablesInv, StripeInv, SubscriptionInv, KeyInv, Known, Dense, Of, Grow, stripeVars

LEMMA InsertAccountKeeps ==
    ASSUME TablesInv, NEW email, NextId(account) \in RowIDs, GetByEmail(email) = {},
           account' = Insert(account, [email |-> email, customer |-> FALSE]),
           UNCHANGED <<subscription, licenseKey, stripeVars>>
    PROVE  /\ TablesInv' /\ Grow
           /\ account'[NextId(account)] # NoRow
           /\ account'[NextId(account)].email = email
<1> DEFINE row == [email |-> email, customer |-> FALSE]
           n == NextId(account)
<1>1. "email" \in DOMAIN row /\ row.email = email /\ row # NoRow
    BY NoRowHasNoField
<1>2. account' = Insert(account, row)
    OBVIOUS
<1> HIDE DEF row
<1>3. Dense(account) /\ account[n] = NoRow
    BY NextIdIsFree DEF TablesInv, AccountInv
<1>4. Dense(account')
    BY <1>1, <1>2, <1>3, InsertKeepsDense
<1>5. \A i \in RowIDs : account'[i] = IF i = n THEN row ELSE account[i]
    BY <1>1, <1>2, <1>3, InsertKeepsDense
<1>6. \A i \in RowIDs : account[i] # NoRow => account[i].email # email
    BY DEF GetByEmail
<1>7. AccountInv'
    <2>1. \A i \in RowIDs : account'[i] # NoRow => "email" \in DOMAIN account'[i]
        BY <1>1, <1>5 DEF TablesInv, AccountInv
    <2>2. \A i, j \in RowIDs :
              account'[i] # NoRow /\ account'[j] # NoRow
                  /\ account'[i].email = account'[j].email => i = j
        <3> SUFFICES ASSUME NEW i \in RowIDs, NEW j \in RowIDs,
                            account'[i] # NoRow, account'[j] # NoRow,
                            account'[i].email = account'[j].email
                     PROVE  i = j
            OBVIOUS
        <3>1. CASE i = n
            BY <1>1, <1>5, <1>6, <3>1
        <3>2. CASE j = n
            BY <1>1, <1>5, <1>6, <3>2
        <3>3. CASE i # n /\ j # n
            BY <1>5, <3>3 DEF TablesInv, AccountInv
        <3> QED
            BY <3>1, <3>2, <3>3
    <2> QED
        BY <1>4, <2>1, <2>2 DEF AccountInv
<1>8. Grow
    BY <1>3, <1>5 DEF Grow, Known, stripeVars
<1> QED
    BY <1>1, <1>5, <1>7, <1>8, AccountKept

LEMMA CustomerKeeps ==
    ASSUME TablesInv, NEW a, account' = [account EXCEPT ![a].customer = TRUE],
           UNCHANGED <<subscription, licenseKey, stripeVars>>
    PROVE  TablesInv' /\ Grow
<1>1. \A i \in RowIDs : account[i] # NoRow =>
          "email" \in DOMAIN account[i] /\ "email" \in DOMAIN account'[i]
              /\ account'[i].email = account[i].email /\ account'[i] # NoRow
    BY NoRowHasNoField DEF TablesInv, AccountInv, Dense
<1>2. \A i \in RowIDs : account[i] = NoRow => account'[i] = NoRow
    <2>1. [NoRow EXCEPT !.customer = TRUE] = NoRow
        BY DEF NoRow
    <2> QED
        BY <2>1 DEF TablesInv, AccountInv, Dense
<1>3. DOMAIN account' = RowIDs
    BY DEF TablesInv, AccountInv, Dense
<1>4. AccountInv'
    BY <1>1, <1>2, <1>3 DEF TablesInv, AccountInv, Dense
<1>5. Grow
    BY <1>1 DEF Grow, Known, stripeVars
<1> QED
    BY <1>4, <1>5, AccountKept

LEMMA SubscriptionKept ==
    ASSUME TablesInv, SubscriptionInv', Grow, UNCHANGED <<account, licenseKey, stripeVars>>
    PROVE  TablesInv'
BY DEF TablesInv, StripeInv, AccountInv, KeyInv, Known, Dense, Grow, stripeVars

LEMMA InsertSubscriptionKeeps ==
    ASSUME TablesInv, NEW a \in RowIDs, account[a] # NoRow, NextId(subscription) \in RowIDs,
           subscription' = Insert(subscription,
              [account |-> a, stripe |-> NoId, status |-> "active", cancel |-> FALSE]),
           UNCHANGED <<account, licenseKey, stripeVars>>
    PROVE  /\ TablesInv' /\ Grow
           /\ subscription[NextId(subscription)] = NoRow
           /\ subscription'[NextId(subscription)] # NoRow
           /\ subscription'[NextId(subscription)].account = a
<1> DEFINE row == [account |-> a, stripe |-> NoId, status |-> "active", cancel |-> FALSE]
           n == NextId(subscription)
<1>1. /\ {"account", "stripe", "status", "cancel"} \subseteq DOMAIN row
      /\ row.account = a /\ row.stripe = NoId /\ row # NoRow
    BY NoRowHasNoField
<1>2. subscription' = Insert(subscription, row)
    OBVIOUS
<1> HIDE DEF row
<1>3. Dense(subscription) /\ subscription[n] = NoRow
    BY NextIdIsFree DEF TablesInv, SubscriptionInv
<1>4. Dense(subscription')
    BY <1>1, <1>2, <1>3, InsertKeepsDense
<1>5. \A i \in RowIDs : subscription'[i] = IF i = n THEN row ELSE subscription[i]
    BY <1>1, <1>2, <1>3, InsertKeepsDense
<1> HIDE DEF n
<1>6. SubscriptionInv'
    <2>1. \A i \in RowIDs : i = n => subscription'[i] = row /\ account[row.account] # NoRow
        BY <1>1, <1>5
    <2>2. \A i \in RowIDs : i # n => subscription'[i] = subscription[i]
        BY <1>5
    <2>3. ASSUME NEW i \in RowIDs, subscription'[i] # NoRow
          PROVE  /\ {"account", "stripe", "status", "cancel"} \subseteq DOMAIN subscription'[i]
                 /\ subscription'[i].account \in RowIDs
                 /\ account[subscription'[i].account] # NoRow
                 /\ subscription'[i].stripe # NoId =>
                       /\ subscription'[i].stripe \in Subscriptions
                       /\ Known(subscription'[i].stripe)
                       /\ Of(subscription'[i].account, subscription'[i].stripe)
        <3>1. CASE i = n
            BY <1>1, <2>1, <3>1
        <3>2. CASE i # n
            BY <2>2, <2>3, <3>2 DEF TablesInv, SubscriptionInv
        <3> QED
            BY <3>1, <3>2
    <2> QED
        BY <1>4, <2>3 DEF SubscriptionInv, Known, Of, stripeVars
<1>7. Grow
    BY <1>3, <1>5 DEF Grow, Known, stripeVars
<1> QED
    BY <1>1, <1>3, <1>5, <1>6, <1>7, SubscriptionKept DEF n

(* A column other than the account. *)
LEMMA UpdateSubscriptionKeeps ==
    ASSUME TablesInv, NEW b, NEW f \in {"stripe", "status", "cancel"}, NEW v,
           subscription' = [subscription EXCEPT ![b][f] = v],
           f = "stripe" /\ v # NoId => /\ v \in Subscriptions /\ Known(v)
                                      /\ Of(subscription[b].account, v),
           UNCHANGED <<account, licenseKey, stripeVars>>
    PROVE  TablesInv' /\ Grow
<1> USE DEF TablesInv, SubscriptionInv
<1>1. /\ DOMAIN subscription = RowIDs /\ DOMAIN subscription' = RowIDs
      /\ \A i \in RowIDs \ {b} : subscription'[i] = subscription[i]
    BY DEF Dense
<1>2. ASSUME NEW i \in RowIDs, subscription[i] = NoRow
      PROVE  subscription'[i] = NoRow
    <2>1. [NoRow EXCEPT ![f] = v] = NoRow
        BY DEF NoRow
    <2> QED
        BY <1>1, <1>2, <2>1
<1>3. ASSUME NEW i \in RowIDs, subscription[i] # NoRow
      PROVE  /\ DOMAIN subscription'[i] = DOMAIN subscription[i]
             /\ subscription'[i] # NoRow
             /\ subscription'[i].account = subscription[i].account
             /\ \/ subscription'[i].stripe = subscription[i].stripe
                \/ i = b /\ f = "stripe" /\ subscription'[i].stripe = v
    <2>1. DOMAIN subscription'[i] = DOMAIN subscription[i]
        BY <1>1, <1>3
    <2>2. subscription'[i] # NoRow
        BY <1>3, <2>1, NoRowHasNoField
    <2>3. subscription'[i].account = subscription[i].account
        BY <1>1, <1>3
    <2>4. \/ subscription'[i].stripe = subscription[i].stripe
          \/ i = b /\ f = "stripe" /\ subscription'[i].stripe = v
        BY <1>1, <1>3
    <2> QED
        BY <2>1, <2>2, <2>3, <2>4
<1>4. Dense(subscription')
    BY <1>1, <1>2, <1>3 DEF Dense
<1>5. Grow
    BY <1>3 DEF Grow, Known, stripeVars
<1>6. SubscriptionInv'
    BY <1>2, <1>3, <1>4 DEF Known, Of, stripeVars
<1> QED
    BY <1>5, <1>6, SubscriptionKept

LEMMA KeyKept ==
    ASSUME TablesInv, KeyInv', UNCHANGED <<account, subscription, stripeVars>>
    PROVE  TablesInv' /\ Grow
BY DEF TablesInv, StripeInv, AccountInv, SubscriptionInv, Known, Dense, Of, Grow, stripeVars

LEMMA InsertKeyKeeps ==
    ASSUME TablesInv, NEW b \in RowIDs, subscription[b] # NoRow, NoKeyFor(b),
           NextId(licenseKey) \in RowIDs,
           licenseKey' = Insert(licenseKey, [account |-> subscription[b].account,
                                             subscription |-> b, expires |-> NoTime]),
           UNCHANGED <<account, subscription, stripeVars>>
    PROVE  /\ TablesInv' /\ Grow
           /\ \A c : c # b /\ NoKeyFor(c) => NoKeyFor(c)'
<1> DEFINE row == [account |-> subscription[b].account, subscription |-> b,
                   expires |-> NoTime]
           n == NextId(licenseKey)
<1>1. /\ {"account", "subscription", "expires"} \subseteq DOMAIN row
      /\ row.account = subscription[b].account /\ row.subscription = b /\ row # NoRow
    BY NoRowHasNoField
<1>2. licenseKey' = Insert(licenseKey, row)
    OBVIOUS
<1> HIDE DEF row
<1>3. Dense(licenseKey) /\ licenseKey[n] = NoRow
    BY NextIdIsFree DEF TablesInv, KeyInv
<1>4. Dense(licenseKey')
    BY <1>1, <1>2, <1>3, InsertKeepsDense
<1>5. \A i \in RowIDs : licenseKey'[i] = IF i = n THEN row ELSE licenseKey[i]
    BY <1>1, <1>2, <1>3, InsertKeepsDense
<1> HIDE DEF n
<1>6. KeyInv'
    <2>1. \A k \in RowIDs : licenseKey'[k] # NoRow =>
              /\ {"account", "subscription", "expires"} \subseteq DOMAIN licenseKey'[k]
              /\ licenseKey'[k].subscription \in RowIDs
              /\ subscription'[licenseKey'[k].subscription] # NoRow
              /\ licenseKey'[k].account = subscription'[licenseKey'[k].subscription].account
        BY <1>1, <1>5 DEF TablesInv, KeyInv
    <2>2. \A k, l \in RowIDs :
              licenseKey'[k] # NoRow /\ licenseKey'[l] # NoRow
                  /\ licenseKey'[k].subscription = licenseKey'[l].subscription => k = l
        BY <1>1, <1>5 DEF TablesInv, KeyInv, NoKeyFor
    <2> QED
        BY <1>4, <2>1, <2>2 DEF KeyInv
<1>7. \A c : c # b /\ NoKeyFor(c) => NoKeyFor(c)'
    BY <1>1, <1>5 DEF NoKeyFor
<1> QED
    BY <1>6, <1>7, KeyKept

LEMMA UpdateKeyKeeps ==
    ASSUME TablesInv, NEW k, NEW time, licenseKey' = [licenseKey EXCEPT ![k].expires = time],
           UNCHANGED <<account, subscription, stripeVars>>
    PROVE  /\ TablesInv' /\ Grow
           /\ \A c : NoKeyFor(c) => NoKeyFor(c)'
<1> USE DEF TablesInv, KeyInv
<1>1. /\ DOMAIN licenseKey = RowIDs /\ DOMAIN licenseKey' = RowIDs
    BY DEF Dense
<1>2. ASSUME NEW i \in RowIDs, licenseKey[i] = NoRow
      PROVE  licenseKey'[i] = NoRow
    <2>1. [NoRow EXCEPT !.expires = time] = NoRow
        BY DEF NoRow
    <2> QED
        BY <1>1, <1>2, <2>1
<1>3. ASSUME NEW i \in RowIDs, licenseKey[i] # NoRow
      PROVE  /\ DOMAIN licenseKey'[i] = DOMAIN licenseKey[i]
             /\ licenseKey'[i] # NoRow
             /\ licenseKey'[i].account = licenseKey[i].account
             /\ licenseKey'[i].subscription = licenseKey[i].subscription
    BY <1>1, <1>3, NoRowHasNoField
<1>4. Dense(licenseKey')
    BY <1>1, <1>2, <1>3 DEF Dense
<1>5. KeyInv'
    BY <1>2, <1>3, <1>4
<1>6. \A c : NoKeyFor(c) => NoKeyFor(c)'
    BY <1>2, <1>3 DEF NoKeyFor
<1> QED
    BY <1>5, <1>6, KeyKept

-----------------------------------------------------------------------------
(* The steps of a delivery.                                                *)

LEMMA OtherStepKeeps ==
    ASSUME IInv, UNCHANGED <<rows, stripeVars, request>>
    PROVE  IInv'
BY NothingMoves, RequestsKept DEF IInv, rows

LEMMA RequestOnlyKeeps ==
    ASSUME IInv, UNCHANGED <<rows, stripeVars>>, NEW h \in Handlers, NEW r,
           request' = [request EXCEPT ![h] = r],
           r = Idle \/ Holds(r),
           r.op \in Making =>
              \A g \in Handlers \ {h} : request[g].op \in Making => request[g].sub # r.sub
    PROVE  IInv'
<1>1. TablesInv' /\ Grow
    BY NothingMoves DEF IInv
<1>2. UNCHANGED licenseKey
    BY DEF rows
<1>3. r = Idle \/ Holds(r)'
    BY <1>1, <1>2, HoldsKept, NoKeyForKept DEF Holds
<1>4. RequestInv'
    BY <1>1, <1>2, <1>3, RequestKeepsKeys DEF IInv
<1> QED
    BY <1>1, <1>4 DEF IInv

LEMMA DoneKeeps ==
    ASSUME IInv, UNCHANGED <<rows, stripeVars>>, NEW h \in Handlers, Done(h)
    PROVE  IInv'
BY RequestOnlyKeeps DEF Done, Idle, Making

LEMMA DeliveryKeeps ==
    ASSUME IInv, NEW h \in Handlers, NEW s \in Subscriptions, NEW i \in DOMAIN events[s],
           HandleStripeWebhook(h, s, i)
    PROVE  IInv'
<1>1. UNCHANGED <<rows, stripeVars>>
    BY DEF HandleStripeWebhook, CheckoutCompleted, SubscriptionEvent
<1>2. Known(s)
    BY DEF IInv, TablesInv, StripeInv
<1>3. CASE CheckoutCompleted(h, s, i)
    <2> DEFINE found == GetByEmail(stripe[s].email)
               a == CHOOSE a \in found : TRUE
               r == [op |-> IF found # {} THEN "customer" ELSE "account",
                     s |-> s, event |-> events[s][i], sub |-> NoId,
                     account |-> IF found # {} THEN a ELSE NoId]
    <2>1. request' = [request EXCEPT ![h] = r]
        BY <1>3 DEF CheckoutCompleted, Begin
    <2>2. found # {} => Of(a, s)
        BY DEF GetByEmail, Of
    <2> HIDE DEF found, a
    <2>3. Holds(r) /\ r.op \notin Making
        BY <1>2, <2>2 DEF Holds, Making
    <2> QED
        BY <1>1, <2>1, <2>3, RequestOnlyKeeps
<1>4. CASE SubscriptionEvent(h, s, i)
    <2>1. CASE UNCHANGED request
        BY <1>1, <2>1, OtherStepKeeps
    <2>2. CASE ~UNCHANGED request
        <3> DEFINE b == GetByStripeID(s)
                   r == [op |-> "status", s |-> s, event |-> events[s][i], sub |-> b,
                         account |-> subscription[b].account]
        <3>1. request' = [request EXCEPT ![h] = r]
            BY <1>4, <2>2 DEF SubscriptionEvent, Begin
        <3>2. Holds(r) /\ r.op \notin Making
            BY <1>2 DEF Holds, Making
        <3> QED
            BY <1>1, <3>1, <3>2, RequestOnlyKeeps
    <2> QED
        BY <2>1, <2>2
<1> QED
    BY <1>3, <1>4 DEF HandleStripeWebhook

LEMMA CreateAccountKeeps ==
    ASSUME IInv, NEW h \in Handlers, Holds(request[h]), CreateAccount(h), UNCHANGED stripeVars
    PROVE  IInv'
<1> USE DEF IInv
<1>1. CASE GetByEmail(stripe[request[h].s].email) # {}
    BY <1>1, DoneKeeps DEF CreateAccount, rows
<1>2. CASE GetByEmail(stripe[request[h].s].email) = {}
    <2> DEFINE n == NextId(account)
               r == [request[h] EXCEPT !.op = "customer", !.account = n]
    <2>1. TablesInv' /\ Grow /\ account'[n] # NoRow
          /\ account'[n].email = stripe[request[h].s].email /\ n \in RowIDs
        BY <1>2, InsertAccountKeeps DEF CreateAccount
    <2>2. request' = [request EXCEPT ![h] = r] /\ UNCHANGED licenseKey
        BY <1>2 DEF CreateAccount, Continue
    <2>3. /\ DOMAIN r = DOMAIN request[h]
          /\ r.op = "customer" /\ r.account = n /\ r.s = request[h].s
        BY DEF Holds
    <2> HIDE DEF n, r
    <2>4. PICK x : x = r
        OBVIOUS
    <2>5. Of(x.account, x.s)'
        BY <2>1, <2>3, <2>4 DEF Of, Holds, Grow
    <2>6. Holds(x)' /\ x.op \notin Making
        BY <2>1, <2>3, <2>4, <2>5 DEF Holds, Making, Grow
    <2>7. RequestInv'
        BY <2>1, <2>2, <2>4, <2>6, RequestKeepsKeys
    <2> QED
        BY <2>1, <2>7
<1> QED
    BY <1>1, <1>2

LEMMA ProceedKeeps ==
    ASSUME RequestInv, Grow, NEW h \in Handlers, Holds(request[h]), NEW op,
           op \in Making => request[h].op \in Making,
           op = "subscription" => request[h].op = "customer",
           op \notin {"customer", "account"},
           Proceed(h, op), UNCHANGED licenseKey
    PROVE  RequestInv'
<1>1. PICK x : x = request[h]
    OBVIOUS
<1>2. Holds(x)
    BY <1>1
<1> DEFINE r == [x EXCEPT !.op = op]
<1>3. request' = [request EXCEPT ![h] = r]
    BY <1>1 DEF Proceed, Continue
<1>4. DOMAIN r = DOMAIN x /\ {"op", "s", "event", "sub", "account"} \subseteq DOMAIN x
    BY <1>2 DEF Holds
<1>5. r.op = op /\ r.s = x.s /\ r.sub = x.sub /\ r.account = x.account
    BY <1>4
<1> HIDE DEF r
<1>6. Holds(r)
    BY <1>1, <1>2, <1>4, <1>5 DEF Holds, Making
<1>7. Holds(r)'
    BY <1>6, HoldsKept, NoKeyForKept DEF Holds
<1>8. r.op \in Making =>
          \A g \in Handlers \ {h} : request[g].op \in Making => request[g].sub # r.sub
    BY <1>1, <1>5 DEF RequestInv
<1> QED
    BY <1>3, <1>7, <1>8, RequestKeepsKeys

LEMMA UpdateCustomerKeeps ==
    ASSUME IInv, NEW h \in Handlers, Holds(request[h]), UpdateStripeCustomerID(h),
           UNCHANGED stripeVars
    PROVE  IInv'
<1>1. TablesInv' /\ Grow
    BY CustomerKeeps DEF IInv, UpdateStripeCustomerID
<1>2. RequestInv'
    BY <1>1, ProceedKeeps DEF IInv, UpdateStripeCustomerID, At, Making
<1> QED
    BY <1>1, <1>2 DEF IInv

LEMMA CreateSubscriptionKeeps ==
    ASSUME IInv, NEW h \in Handlers, Holds(request[h]), CreateSubscription(h),
           UNCHANGED stripeVars
    PROVE  IInv'
<1> USE DEF IInv
<1>1. PICK x : x = request[h]
    OBVIOUS
<1> DEFINE n == NextId(subscription)
           r == [x EXCEPT !.op = "stripeID", !.sub = n]
<1>2. Holds(x) /\ x.op = "subscription"
    BY <1>1 DEF CreateSubscription, At
<1>3. Of(x.account, x.s)
    BY <1>2 DEF Holds
<1>4. /\ TablesInv' /\ Grow
      /\ subscription[n] = NoRow /\ n \in RowIDs
      /\ subscription'[n] # NoRow /\ subscription'[n].account = x.account
    BY <1>1, <1>3, InsertSubscriptionKeeps DEF CreateSubscription, Of
<1>5. UNCHANGED licenseKey /\ request' = [request EXCEPT ![h] = r]
    BY <1>1 DEF CreateSubscription, Continue
<1>6. /\ DOMAIN r = DOMAIN x
      /\ r.op = "stripeID" /\ r.sub = n /\ r.s = x.s /\ r.account = x.account
    BY <1>2 DEF Holds
<1>7. NoKeyFor(n)
    BY <1>4 DEF NoKeyFor, TablesInv, KeyInv
<1>8. \A g \in Handlers : request[g].op \in Making => request[g].sub # n
    BY <1>4 DEF RequestInv, Holds, Idle, Making
<1> HIDE DEF n, r
<1>9. PICK y : y = r
    OBVIOUS
<1>10. NoKeyFor(y.sub)'
    <2>1. NoKeyFor(y.sub)
        BY <1>6, <1>7, <1>9
    <2> QED
        BY <1>5, <2>1, NoKeyForKept
<1>11. Holds(y)'
    <2>1. Of(x.account, x.s)'
        BY <1>2, <1>3, <1>4 DEF Of, Grow, Holds
    <2>2. Known(x.s)' /\ x.s \in Subscriptions
        BY <1>2, <1>4 DEF Grow, Holds
    <2>3. /\ y.sub \in RowIDs /\ subscription'[y.sub] # NoRow
          /\ subscription'[y.sub].account = y.account
          /\ y.s = x.s /\ y.account = x.account
        BY <1>4, <1>6, <1>9
    <2>4. {"op", "s", "event", "sub", "account"} \subseteq DOMAIN y
        BY <1>2, <1>6, <1>9 DEF Holds
    <2>5. Of(y.account, y.s)' /\ Known(y.s)' /\ y.s \in Subscriptions
        BY <2>1, <2>2, <2>3
    <2> QED
        BY <1>10, <2>3, <2>4, <2>5 DEF Holds
<1>12. RequestInv'
    BY <1>4, <1>5, <1>6, <1>8, <1>9, <1>11, RequestKeepsKeys
<1> QED
    BY <1>4, <1>12

LEMMA UpdateStripeIDKeeps ==
    ASSUME IInv, NEW h \in Handlers, Holds(request[h]), UpdateStripeID(h),
           UNCHANGED stripeVars
    PROVE  IInv'
<1>1. /\ request[h].s \in Subscriptions /\ Known(request[h].s)
      /\ Of(subscription[request[h].sub].account, request[h].s)
    BY DEF UpdateStripeID, At, Holds, Making
<1>2. TablesInv' /\ Grow
    BY <1>1, UpdateSubscriptionKeeps DEF IInv, UpdateStripeID
<1>3. RequestInv'
    BY <1>2, ProceedKeeps DEF IInv, UpdateStripeID, At, Making
<1> QED
    BY <1>2, <1>3 DEF IInv

LEMMA CreateLicenseKeyKeeps ==
    ASSUME IInv, NEW h \in Handlers, Holds(request[h]), CreateLicenseKey(h),
           UNCHANGED stripeVars
    PROVE  IInv'
<1> USE DEF IInv
<1>1. PICK b : b = request[h].sub
    OBVIOUS
<1>2. /\ request[h].op \in Making
      /\ b \in RowIDs /\ subscription[b] # NoRow /\ NoKeyFor(b)
      /\ subscription[b].account = request[h].account
    BY <1>1 DEF CreateLicenseKey, At, Holds, Making
<1>3. /\ TablesInv' /\ Grow
      /\ \A c : c # b /\ NoKeyFor(c) => NoKeyFor(c)'
    BY <1>1, <1>2, InsertKeyKeeps DEF CreateLicenseKey
<1>4. ASSUME NEW g \in Handlers \ {h}, NEW c \in RowIDs,
             request[g].op \in Making, c = request[g].sub
      PROVE  NoKeyFor(c)'
    <2>1. c # b
        BY <1>1, <1>2, <1>4 DEF RequestInv
    <2>2. NoKeyFor(c)
        BY <1>4 DEF RequestInv, Holds, Idle, Making
    <2> QED
        BY <1>3, <2>1, <2>2
<1>5. request' = [request EXCEPT ![h] = Idle] /\ Idle.op \notin Making
    BY DEF CreateLicenseKey, Done, Idle, Making
<1>6. RequestInv'
    BY <1>3, <1>4, <1>5, RequestKeeps
<1> QED
    BY <1>3, <1>6

LEMMA GoOnKeeps ==
    ASSUME RequestInv, Grow, NEW h \in Handlers, Holds(request[h]), GoOn(h),
           UNCHANGED licenseKey
    PROVE  RequestInv'
<1>1. CASE After(request[h].event) = "idle"
    BY <1>1, RequestKeepsKeys DEF GoOn, Done, Idle, Making
<1>2. CASE After(request[h].event) # "idle"
    BY <1>2, ProceedKeeps DEF GoOn, After, Making
<1> QED
    BY <1>1, <1>2

LEMMA UpdateStatusKeeps ==
    ASSUME IInv, NEW h \in Handlers, Holds(request[h]), UNCHANGED stripeVars,
           UpdateStatus(h) \/ SetCancelAtPeriodEnd(h)
    PROVE  IInv'
<1>1. TablesInv' /\ Grow
    BY UpdateSubscriptionKeeps DEF IInv, UpdateStatus, SetCancelAtPeriodEnd
<1>2. RequestInv'
    BY <1>1, GoOnKeeps, RequestKeepsKeys
       DEF IInv, UpdateStatus, SetCancelAtPeriodEnd, Done, Idle, Making
<1> QED
    BY <1>1, <1>2 DEF IInv

LEMMA UpdateExpiryKeeps ==
    ASSUME IInv, NEW h \in Handlers, UpdateExpiry(h), UNCHANGED stripeVars
    PROVE  IInv'
<1> USE DEF IInv
<1>1. CASE UNCHANGED licenseKey
    BY <1>1, DoneKeeps DEF UpdateExpiry, rows
<1>2. CASE ~UNCHANGED licenseKey
    <2>1. /\ TablesInv' /\ Grow
          /\ \A c : NoKeyFor(c) => NoKeyFor(c)'
        BY <1>2, UpdateKeyKeeps DEF UpdateExpiry
    <2>2. ASSUME NEW g \in Handlers \ {h}, NEW c \in RowIDs,
                 request[g].op \in Making, c = request[g].sub
          PROVE  NoKeyFor(c)'
        BY <2>1, <2>2 DEF RequestInv, Holds, Idle, Making
    <2>3. request' = [request EXCEPT ![h] = Idle] /\ Idle.op \notin Making
        BY DEF UpdateExpiry, Done, Idle, Making
    <2>4. RequestInv'
        BY <2>1, <2>2, <2>3, RequestKeeps
    <2> QED
        BY <2>1, <2>4
<1> QED
    BY <1>1, <1>2

LEMMA FailureKeeps ==
    ASSUME IInv, NEW h \in Handlers, Holds(request[h]), UNCHANGED stripeVars,
           StatementFails(h) \/ WebhookDies(h)
    PROVE  IInv'
<1>1. TablesInv' /\ Grow /\ UNCHANGED licenseKey
    BY NothingMoves DEF IInv, StatementFails, WebhookDies, rows
<1>2. CASE Done(h)
    BY <1>2, DoneKeeps DEF StatementFails, WebhookDies
<1>3. CASE GoOn(h)
    BY <1>1, <1>3, GoOnKeeps DEF IInv
<1>4. CASE request[h].op = "customer" /\ Proceed(h, "subscription")
    BY <1>1, <1>4, ProceedKeeps DEF IInv, Making
<1>5. CASE request[h].op = "stripeID" /\ Proceed(h, "key")
    BY <1>1, <1>5, ProceedKeeps DEF IInv, Making
<1> QED
    BY <1>2, <1>3, <1>4, <1>5 DEF StatementFails, WebhookDies, Abandon

LEMMA WebhookKeeps ==
    ASSUME IInv, Webhook
    PROVE  IInv'
<1>1. ASSUME NEW h \in Handlers, WebhookStep(h)
      PROVE  IInv'
    <2>1. Holds(request[h])
        BY <1>1 DEF WebhookStep, IInv, RequestInv, Idle
    <2>2. UNCHANGED stripeVars
        BY <1>1 DEF WebhookStep
    <2> QED
        BY <1>1, <2>1, <2>2, CreateAccountKeeps, UpdateCustomerKeeps, CreateSubscriptionKeeps,
           UpdateStripeIDKeeps, CreateLicenseKeyKeeps, UpdateStatusKeeps, UpdateExpiryKeeps,
           FailureKeeps
           DEF WebhookStep
<1> QED
    BY <1>1, DeliveryKeeps DEF Webhook

-----------------------------------------------------------------------------
(* The other requests.                                                     *)

LEMMA PeopleKeep ==
    ASSUME IInv, People
    PROVE  IInv'
<1> USE DEF IInv
<1>1. ASSUME NEW c \in Clients, NEW email \in Emails, Login(c, email)
      PROVE  IInv'
    <2>1. UNCHANGED <<subscription, licenseKey, stripeVars, request>>
        BY <1>1 DEF Login
    <2>2. CASE UNCHANGED account
        BY <2>1, <2>2, OtherStepKeeps DEF rows
    <2>3. CASE ~UNCHANGED account
        <3>1. /\ GetByEmail(email) = {} /\ NextId(account) \in RowIDs
              /\ account' = Insert(account, [email |-> email, customer |-> FALSE])
            BY <1>1, <2>3 DEF Login
        <3>2. TablesInv' /\ Grow
            BY <2>1, <3>1, InsertAccountKeeps
        <3> QED
            BY <2>1, <3>2, RequestsKept
    <2> QED
        BY <2>2, <2>3
<1>2. ASSUME NEW a \in sessions, CreateCheckoutSession(a)
      PROVE  IInv'
    <2>1. TablesInv' /\ Grow
        BY <1>2, CustomerKeeps DEF CreateCheckoutSession
    <2> QED
        BY <1>2, <2>1, RequestsKept DEF CreateCheckoutSession
<1>3. ASSUME (\E c \in Clients : Validate(c)) \/ \E a \in sessions : Logout(a)
      PROVE  IInv'
    BY <1>3, OtherStepKeeps DEF Validate, Logout
<1> QED
    BY <1>1, <1>2, <1>3 DEF People

LEMMA NextKeeps ==
    ASSUME IInv, [BillingNext]_vars
    PROVE  IInv'
<1>1. CASE CleanupTick \/ Time \/ UNCHANGED vars
    BY <1>1, OtherStepKeeps DEF CleanupTick, Time, vars, billingVars, rows, stripeVars
<1> QED
    BY <1>1, StripeKeeps, WebhookKeeps, PeopleKeep DEF BillingNext

LEMMA InitHolds ==
    ASSUME BillingInit
    PROVE  IInv
BY DEF BillingInit, RequestsInit, IInv, TablesInv, StripeInv, AccountInv, SubscriptionInv,
       KeyInv, RequestInv, Dense, Known, NoRow, None, Idle, Making

-----------------------------------------------------------------------------
LEMMA KeysFollow ==
    ASSUME IInv
    PROVE  KeysFollowCheckouts
<1> USE DEF IInv, TablesInv
<1>1. ASSUME NEW k \in RowIDs, licenseKey[k] # NoRow
      PROVE  LET b == licenseKey[k].subscription
             IN  /\ licenseKey[k].account = subscription[b].account
                 /\ subscription[b].stripe # NoId =>
                       account[licenseKey[k].account].email
                           = stripe[subscription[b].stripe].email
    BY <1>1 DEF KeyInv, SubscriptionInv, Of
<1>2. ASSUME NEW b \in RowIDs
      PROVE  Cardinality(GetBySubscriptionID(b)) <= 1
    <2>1. CASE GetBySubscriptionID(b) = {}
        BY <2>1, FS_EmptySet
    <2>2. CASE GetBySubscriptionID(b) # {}
        <3>1. PICK k : k \in GetBySubscriptionID(b)
            BY <2>2
        <3>2. \A l \in GetBySubscriptionID(b) : l = k
            BY <3>1 DEF GetBySubscriptionID, KeyInv
        <3>3. GetBySubscriptionID(b) = {k}
            BY <3>1, <3>2
        <3> QED
            BY <3>3, FS_Singleton
    <2> QED
        BY <2>1, <2>2
<1> QED
    BY <1>1, <1>2 DEF KeysFollowCheckouts, AccountInv

(* For any number of deliveries, customers, subscriptions and rows, and    *)
(* whatever of the events is lost, repeated, reordered, overlapping or     *)
(* breaks off in the middle: a key belongs to the account of its           *)
(* subscription and to the customer who checked out, a subscription's row  *)
(* has one key at most, and a customer one account                         *)
(* (handleCheckoutCompleted to handleSubscriptionDeleted).                 *)
THEOREM KeysGoToCustomers == BillingSpec => []KeysFollowCheckouts
<1>1. BillingInit => IInv
    BY InitHolds
<1>2. IInv /\ [BillingNext]_vars => IInv'
    BY NextKeeps
<1>3. IInv => KeysFollowCheckouts
    BY KeysFollow
<1> QED
    BY <1>1, <1>2, <1>3, PTL DEF BillingSpec

-----------------------------------------------------------------------------
(* The rate limiter.  A request counts from when it was let through, so    *)
(* one let through in the window of an entry is counted by the entry, and  *)
(* there were no more than Limit in the window's length before it.         *)

(* The requests of p let through from lo to hi *)
Within(p, lo, hi) == {i \in DOMAIN p : lo <= p[i] /\ p[i] <= hi}

Count(p, lo, hi) == Cardinality(Within(p, lo, hi))

Began(e) == e.windowAt - Window

InTheWindow(p, e) ==
    /\ Began(e) <= now
    /\ Count(p, Began(e), now) <= e.count
    /\ Count(p, Began(e), now) <= Limit
    /\ Count(p, Began(e) - Window, Began(e) - 1) <= Limit

AfterTheWindow(p) ==
    /\ \A i \in DOMAIN p : p[i] < now
    /\ Count(p, now - Window, now) <= Limit

ClientInv(p, e) ==
    /\ p \in Seq(Int)
    /\ e.count \in Nat /\ e.windowAt \in Int
    /\ \A i \in DOMAIN p : p[i] <= now
    /\ \A t \in Int : Count(p, t, t + Window) <= 2 * Limit
    /\ IF now > e.windowAt THEN AfterTheWindow(p) ELSE InTheWindow(p, e)

RateInv ==
    /\ now \in Nat
    /\ DOMAIN entries = Clients /\ DOMAIN passed = Clients
    /\ \A c \in Clients : ClientInv(passed[c], entries[c])

LEMMA WithinIsFinite ==
    ASSUME NEW p \in Seq(Int), NEW lo \in Int, NEW hi \in Int
    PROVE  /\ IsFiniteSet(Within(p, lo, hi))
           /\ Count(p, lo, hi) \in Nat
<1>1. DOMAIN p = 1..Len(p) /\ Len(p) \in Nat
    OBVIOUS
<1>2. IsFiniteSet(DOMAIN p)
    BY <1>1, FS_Interval
<1>3. Within(p, lo, hi) \subseteq DOMAIN p
    BY DEF Within
<1> QED
    BY <1>2, <1>3, FS_Subset, FS_CardinalityType DEF Count

LEMMA FewerWithin ==
    ASSUME NEW p \in Seq(Int), NEW lo \in Int, NEW hi \in Int, NEW lo2 \in Int, NEW hi2 \in Int,
           \A i \in DOMAIN p : lo2 <= p[i] /\ p[i] <= hi2 => lo <= p[i] /\ p[i] <= hi
    PROVE  Count(p, lo2, hi2) <= Count(p, lo, hi)
<1>1. Within(p, lo2, hi2) \subseteq Within(p, lo, hi)
    BY DEF Within
<1> QED
    BY <1>1, WithinIsFinite, FS_Subset DEF Count

LEMMA WithinIsSplit ==
    ASSUME NEW p \in Seq(Int), NEW lo \in Int, NEW mid \in Int, NEW hi \in Int,
           NEW lo2 \in Int, NEW hi2 \in Int,
           \A i \in DOMAIN p : lo2 <= p[i] /\ p[i] <= hi2 => lo <= p[i] /\ p[i] <= hi
    PROVE  Count(p, lo2, hi2) <= Count(p, lo, mid - 1) + Count(p, mid, hi)
<1> DEFINE A == Within(p, lo, mid - 1)
           B == Within(p, mid, hi)
           C == Within(p, lo2, hi2)
<1>1. C \subseteq A \cup B
    BY DEF Within
<1>2. /\ IsFiniteSet(A) /\ Cardinality(A) \in Nat
      /\ IsFiniteSet(B) /\ Cardinality(B) \in Nat
      /\ IsFiniteSet(C) /\ Cardinality(C) \in Nat
    BY WithinIsFinite, FS_CardinalityType
<1> HIDE DEF A, B, C
<1>3. /\ IsFiniteSet(A \cup B)
      /\ Cardinality(A \cup B) = Cardinality(A) + Cardinality(B) - Cardinality(A \cap B)
      /\ Cardinality(A \cap B) \in Nat
    BY <1>2, FS_Union, FS_Intersection, FS_CardinalityType
<1>4. Cardinality(C) <= Cardinality(A \cup B) /\ Cardinality(A \cup B) \in Nat
    BY <1>1, <1>3, FS_Subset, FS_CardinalityType
<1>5. Cardinality(C) <= Cardinality(A) + Cardinality(B)
    BY <1>2, <1>3, <1>4
<1> QED
    BY <1>5 DEF A, B, C, Count

LEMMA OneMoreWithin ==
    ASSUME NEW p \in Seq(Int), NEW v \in Int, NEW lo \in Int, NEW hi \in Int
    PROVE  /\ Append(p, v) \in Seq(Int)
           /\ \A i \in DOMAIN Append(p, v) :
                Append(p, v)[i] = v \/ (i \in DOMAIN p /\ Append(p, v)[i] = p[i])
           /\ Count(Append(p, v), lo, hi) \in Nat
           /\ Count(Append(p, v), lo, hi) <= Count(p, lo, hi) + 1
           /\ ~(lo <= v /\ v <= hi) => Count(Append(p, v), lo, hi) = Count(p, lo, hi)
<1> DEFINE q == Append(p, v)
           n == Len(p) + 1
           A == Within(p, lo, hi)
<1>1. /\ q \in Seq(Int) /\ DOMAIN q = 1..n /\ DOMAIN p = 1..Len(p) /\ Len(p) \in Nat
      /\ q[n] = v /\ \A i \in DOMAIN p : q[i] = p[i]
    OBVIOUS
<1>2. IsFiniteSet(A) /\ Cardinality(A) \in Nat
    BY WithinIsFinite, FS_CardinalityType
<1>3. Count(q, lo, hi) \in Nat
    BY <1>1, WithinIsFinite
<1> HIDE DEF q
<1>4. CASE lo <= v /\ v <= hi
    <2>1. Within(q, lo, hi) = A \cup {n}
        BY <1>1, <1>4 DEF Within
    <2>2. n \notin A
        BY <1>1 DEF Within
    <2>3. Cardinality(A \cup {n}) = Cardinality(A) + 1
        BY <1>2, <2>2, FS_AddElement
    <2> QED
        BY <1>1, <1>2, <1>4, <1>3, <2>1, <2>3 DEF q, Count
<1>5. CASE ~(lo <= v /\ v <= hi)
    <2>1. Within(q, lo, hi) = A
        BY <1>1, <1>5 DEF Within
    <2> QED
        BY <1>1, <1>2, <1>5, <1>3, <2>1 DEF q, Count
<1> QED
    BY <1>4, <1>5

(* Letting a request through, as the one client of it sees it *)
LEMMA FirstOfAWindow ==
    ASSUME now \in Nat, NEW p, NEW e, ClientInv(p, e), now > e.windowAt,
           NEW f, f = [count |-> 1, windowAt |-> now + Window]
    PROVE  ClientInv(Append(p, now), f)
<1> DEFINE q == Append(p, now)
<1>1. Window \in Nat /\ Limit \in Nat /\ Limit > 0 /\ now \in Nat
    BY RateLimiterAssumption, Zenon
<1>2. p \in Seq(Int) /\ now \in Int
    BY DEF ClientInv
<1>3. AfterTheWindow(p)
    BY DEF ClientInv
<1>4. \A t \in Int : Count(p, t, t + Window) <= 2 * Limit
    BY DEF ClientInv
<1>5. Count(p, now - Window, now) <= Limit
    BY <1>3 DEF AfterTheWindow
<1>6. ASSUME NEW lo \in Int, NEW hi \in Int
      PROVE  /\ Count(p, lo, hi) \in Nat
             /\ Count(q, lo, hi) \in Nat
             /\ Count(q, lo, hi) <= Count(p, lo, hi) + 1
             /\ ~(lo <= now /\ now <= hi) => Count(q, lo, hi) = Count(p, lo, hi)
    BY <1>2, OneMoreWithin, WithinIsFinite
<1>7. /\ q \in Seq(Int)
      /\ \A i \in DOMAIN q : q[i] = now \/ (i \in DOMAIN p /\ q[i] = p[i])
    BY <1>2, OneMoreWithin
<1>8. /\ f.count = 1 /\ f.windowAt = now + Window /\ Began(f) = now
    BY <1>1, <1>2 DEF Began
<1> HIDE DEF q
<1>9. \A lo, hi \in Int : lo >= now - Window =>
        Count(p, lo, hi) <= Limit
    <2>1. SUFFICES ASSUME NEW lo \in Int, NEW hi \in Int, lo >= now - Window
          PROVE  Count(p, lo, hi) <= Limit
        OBVIOUS
    <2>2. \A i \in DOMAIN p : p[i] \in Int /\ p[i] < now
        BY <1>2, <1>3 DEF AfterTheWindow
    <2>3. Count(p, lo, hi) <= Count(p, now - Window, now)
        BY <1>1, <1>2, <2>1, <2>2, FewerWithin
    <2>4. now - Window \in Int /\ now \in Int
        BY <1>1
    <2>5. Count(p, lo, hi) \in Nat /\ Count(p, now - Window, now) \in Nat
        <3>1. Count(p, lo, hi) \in Nat
            BY <1>6, <2>1
        <3>2. Count(p, now - Window, now) \in Nat
            BY <1>6, <2>4
        <3> QED
            BY <3>1, <3>2
    <2>6. Limit \in Nat
        BY <1>1
    <2> QED
        BY <1>5, <2>3, <2>5, <2>6
<1>10. ASSUME NEW t \in Int
       PROVE  Count(q, t, t + Window) <= 2 * Limit
    <2>1. PICK u \in Int : u = t + Window
        BY <1>1
    <2>2. /\ Count(p, t, u) \in Nat /\ Count(q, t, u) \in Nat
          /\ Count(q, t, u) <= Count(p, t, u) + 1
          /\ ~(t <= now /\ now <= u) => Count(q, t, u) = Count(p, t, u)
          /\ t >= now - Window => Count(p, t, u) <= Limit
          /\ Count(p, t, u) <= 2 * Limit
        BY <1>6, <1>9, <1>4, <2>1
    <2>3. CASE t <= now /\ now <= t + Window
        BY <1>1, <2>1, <2>2, <2>3
    <2>4. CASE ~(t <= now /\ now <= t + Window)
        BY <1>1, <2>1, <2>2, <2>4
    <2> QED
        BY <2>3, <2>4
<1>11. InTheWindow(q, f)
    <2>1. Count(p, now, now) = 0
        <3>1. \A i \in DOMAIN p : p[i] \in Int /\ p[i] < now
            BY <1>2, <1>3 DEF AfterTheWindow
        <3>2. Within(p, now, now) = {}
            BY <1>1, <3>1 DEF Within
        <3> QED
            BY <3>2, FS_EmptySet DEF Count
    <2>2. Count(q, now, now) <= 1
        BY <1>1, <1>6, <2>1
    <2>3. Count(q, now - Window, now - 1) <= Limit
        BY <1>1, <1>6, <1>9
    <2>4. Count(q, now, now) <= Limit
        BY <1>1, <1>6, <2>2
    <2> QED
        BY <1>2, <1>8, <2>2, <2>3, <2>4 DEF InTheWindow
<1>12. ~(now > f.windowAt)
    BY <1>1, <1>2, <1>8
<1>13. \A i \in DOMAIN q : q[i] <= now
    <2>1. \A i \in DOMAIN p : p[i] <= now
        BY DEF ClientInv
    <2>2. now <= now
        BY <1>2
    <2> QED
        BY <1>7, <2>1, <2>2, Zenon
<1>14. f.count \in Nat /\ f.windowAt \in Int
    BY <1>1, <1>2, <1>8
<1> QED
    BY <1>7, <1>10, <1>11, <1>12, <1>13, <1>14 DEF ClientInv, q

LEMMA NextOfAWindow ==
    ASSUME now \in Nat, NEW p, NEW e, ClientInv(p, e), ~(now > e.windowAt),
           NEW f, f.count = e.count + 1, f.windowAt = e.windowAt
    PROVE  /\ e.count < Limit => ClientInv(Append(p, now), f)
           /\ ClientInv(p, f)
<1> DEFINE q == Append(p, now)
           b == Began(e)
<1>1. Window \in Nat /\ Limit \in Nat
    BY RateLimiterAssumption, Zenon
<1>2. /\ Window \in Nat /\ Limit \in Nat /\ now \in Nat
      /\ e.count \in Nat /\ e.windowAt \in Int
    BY <1>1 DEF ClientInv
<1>3. p \in Seq(Int) /\ now \in Int
    BY DEF ClientInv
<1>4. \A t \in Int : Count(p, t, t + Window) <= 2 * Limit
    BY DEF ClientInv
<1>5. \A i \in DOMAIN p : p[i] <= now
    BY DEF ClientInv
<1>6. InTheWindow(p, e)
    BY DEF ClientInv
<1>7. ASSUME NEW lo \in Int, NEW hi \in Int
      PROVE  /\ Count(p, lo, hi) \in Nat
             /\ Count(q, lo, hi) \in Nat
             /\ Count(q, lo, hi) <= Count(p, lo, hi) + 1
             /\ ~(lo <= now /\ now <= hi) => Count(q, lo, hi) = Count(p, lo, hi)
    BY <1>3, OneMoreWithin, WithinIsFinite
<1>8. /\ q \in Seq(Int)
      /\ \A i \in DOMAIN q : q[i] = now \/ (i \in DOMAIN p /\ q[i] = p[i])
    BY <1>3, OneMoreWithin
<1>9. b \in Int /\ b = e.windowAt - Window /\ Began(f) = b
    BY <1>2 DEF Began
<1>10. /\ b <= now
       /\ Count(p, b, now) <= e.count
       /\ Count(p, b, now) <= Limit
       /\ Count(p, b - Window, b - 1) <= Limit
    BY <1>6 DEF InTheWindow
<1> HIDE DEF q, b
<1>11. /\ Count(p, b, now) \in Nat /\ Count(p, b - Window, b - 1) \in Nat
       /\ Count(q, b, now) \in Nat /\ Count(q, b, now) <= Count(p, b, now) + 1
       /\ Count(q, b - Window, b - 1) = Count(p, b - Window, b - 1)
    <2>1. PICK lo \in Int : lo = b - Window
        BY <1>2, <1>9
    <2>2. PICK hi \in Int : hi = b - 1
        BY <1>9
    <2>3. hi < now
        BY <1>2, <1>9, <1>10, <2>2
    <2>4. Count(p, lo, hi) \in Nat /\ Count(q, lo, hi) = Count(p, lo, hi)
        <3>1. /\ Count(p, lo, hi) \in Nat
              /\ ~(lo <= now /\ now <= hi) => Count(q, lo, hi) = Count(p, lo, hi)
            BY <1>7
        <3> QED
            BY <1>2, <2>3, <3>1
    <2>5. /\ Count(p, b, now) \in Nat
          /\ Count(q, b, now) \in Nat /\ Count(q, b, now) <= Count(p, b, now) + 1
        BY <1>3, <1>7, <1>9
    <2> QED
        BY <2>1, <2>2, <2>4, <2>5
<1>12. f.count \in Nat /\ f.windowAt \in Int /\ ~(now > f.windowAt)
    BY <1>2
<1>13. ClientInv(p, f)
    <2>1. InTheWindow(p, f)
        BY <1>2, <1>9, <1>10, <1>11 DEF InTheWindow
    <2> QED
        BY <1>12, <2>1 DEF ClientInv
<1>14. ASSUME e.count < Limit
       PROVE  ClientInv(q, f)
    <2>1. ASSUME NEW t \in Int
          PROVE  Count(q, t, t + Window) <= 2 * Limit
        <3>1. PICK u \in Int : u = t + Window
            BY <1>2
        <3>2. /\ Count(p, t, u) \in Nat /\ Count(q, t, u) \in Nat
              /\ Count(q, t, u) <= Count(p, t, u) + 1
              /\ ~(t <= now /\ now <= u) => Count(q, t, u) = Count(p, t, u)
              /\ Count(p, t, u) <= 2 * Limit
            BY <1>7, <1>4, <3>1
        <3>3. CASE t <= now /\ now <= t + Window
            <4>1. \A i \in DOMAIN p : p[i] \in Int /\ p[i] <= now
                BY <1>3, <1>5
            <4>2. Count(p, t, t + Window)
                     <= Count(p, b - Window, b - 1) + Count(p, b, now)
                <5>1. b - Window <= t
                    BY <1>2, <1>9, <1>10, <3>3
                <5>2. \A i \in DOMAIN p : t <= p[i] /\ p[i] <= t + Window =>
                          b - Window <= p[i] /\ p[i] <= now
                    BY <1>2, <1>9, <4>1, <5>1, <3>3
                <5>3. b - Window \in Int /\ t + Window \in Int
                    BY <1>2, <1>9
                <5> QED
                    BY <1>3, <1>9, <5>2, <5>3, WithinIsSplit
            <4> QED
                BY <1>2, <1>10, <1>11, <1>14, <3>1, <3>2, <4>2
        <3>4. CASE ~(t <= now /\ now <= t + Window)
            BY <1>2, <3>1, <3>2, <3>4
        <3> QED
            BY <3>3, <3>4
    <2>2. InTheWindow(q, f)
        BY <1>2, <1>9, <1>10, <1>11, <1>14 DEF InTheWindow
    <2>3. \A i \in DOMAIN q : q[i] <= now
        BY <1>2, <1>8, <1>5
    <2> QED
        BY <1>8, <1>12, <2>1, <2>2, <2>3 DEF ClientInv
<1> QED
    BY <1>13, <1>14 DEF q

LEMMA AllowKeeps ==
    ASSUME RateInv, NEW c \in Clients, Allow(c), UNCHANGED now
    PROVE  RateInv'
<1>1. PICK p : p = passed[c]
    OBVIOUS
<1>2. PICK e : e = entries[c]
    OBVIOUS
<1>3. ClientInv(p, e) /\ now \in Nat
    BY <1>1, <1>2 DEF RateInv
<1>4. PICK q : q = passed'[c]
    OBVIOUS
<1>5. PICK f : f = entries'[c]
    OBVIOUS
<1>6. /\ DOMAIN entries' = Clients /\ DOMAIN passed' = Clients
      /\ \A d \in Clients : d # c => entries'[d] = entries[d] /\ passed'[d] = passed[d]
    BY DEF RateInv, Allow
<1>7. q = IF now > e.windowAt \/ e.count < Limit THEN Append(p, now) ELSE p
    BY <1>1, <1>2, <1>4 DEF RateInv, Allow, Allowed, WindowOver
<1>8. DOMAIN entries = Clients
    BY DEF RateInv
<1>9. entries' = [entries EXCEPT ![c] = IF now > entries[c].windowAt
                                         THEN [count |-> 1, windowAt |-> now + Window]
                                         ELSE [entries[c] EXCEPT !.count = @ + 1]]
    BY DEF Allow, WindowOver
<1>10. entries'[c] = IF now > entries[c].windowAt THEN [count |-> 1, windowAt |-> now + Window]
                     ELSE [entries[c] EXCEPT !.count = @ + 1]
    BY <1>8, <1>9
<1>11. f = IF now > e.windowAt THEN [count |-> 1, windowAt |-> now + Window]
           ELSE [e EXCEPT !.count = @ + 1]
    BY <1>2, <1>5, <1>10
<1>12. ClientInv(q, f)
    <2>1. CASE now > e.windowAt
        BY <1>3, <1>7, <1>11, <2>1, FirstOfAWindow
    <2>2. CASE ~(now > e.windowAt)
        <3>1. f.count = e.count + 1 /\ f.windowAt = e.windowAt
            BY <1>11, <2>2
        <3> QED
            BY <1>3, <1>7, <2>2, <3>1, NextOfAWindow
    <2> QED
        BY <2>1, <2>2
<1>13. ASSUME NEW d \in Clients
       PROVE  ClientInv(passed'[d], entries'[d])
    <2>1. CASE d = c
        BY <1>4, <1>5, <1>12, <2>1
    <2>2. CASE d # c
        BY <1>6, <2>2 DEF RateInv
    <2> QED
        BY <2>1, <2>2
<1>14. ASSUME NEW d \in Clients
       PROVE  ClientInv(passed[d], entries[d])'
    BY <1>13 DEF ClientInv, AfterTheWindow, InTheWindow
<1> QED
    BY <1>3, <1>6, <1>14 DEF RateInv

LEMMA CleanupKeeps ==
    ASSUME RateInv, Cleanup, UNCHANGED now
    PROVE  RateInv'
<1>1. ASSUME NEW c \in Clients
      PROVE  ClientInv(passed[c], entries'[c])
    <2>1. ClientInv(passed[c], entries[c])
        BY DEF RateInv
    <2>2. entries'[c] = IF now > entries[c].windowAt THEN NoEntry ELSE entries[c]
        BY DEF Cleanup, WindowOver
    <2>3. NoEntry.count = 0 /\ NoEntry.windowAt = -1
        BY DEF NoEntry
    <2>4. now > NoEntry.windowAt
        BY <2>3 DEF RateInv
    <2>5. CASE now > entries[c].windowAt
        <3>1. entries'[c] = NoEntry
            BY <2>2, <2>5
        <3> QED
            BY <2>1, <2>3, <2>4, <2>5, <3>1 DEF ClientInv
    <2>6. CASE ~(now > entries[c].windowAt)
        BY <2>1, <2>2, <2>6
    <2> QED
        BY <2>5, <2>6
<1>2. ASSUME NEW c \in Clients
      PROVE  ClientInv(passed[c], entries[c])'
    BY <1>1 DEF ClientInv, AfterTheWindow, InTheWindow, Cleanup
<1> QED
    BY <1>2 DEF RateInv, Cleanup

LEMMA TimeKeeps ==
    ASSUME RateInv, now' = now + 1, UNCHANGED limiterVars
    PROVE  RateInv'
<1>1. Window \in Nat /\ Limit \in Nat
    BY RateLimiterAssumption, Zenon
<1>2. Window \in Nat /\ Limit \in Nat /\ now \in Nat
    BY <1>1 DEF RateInv
<1>3. ASSUME NEW c \in Clients
      PROVE  ClientInv(passed[c], entries[c])'
    <2>1. PICK p : p = passed[c]
        OBVIOUS
    <2>2. PICK e : e = entries[c]
        OBVIOUS
    <2>3. /\ p \in Seq(Int)
          /\ e.count \in Nat /\ e.windowAt \in Int
          /\ \A i \in DOMAIN p : p[i] <= now
          /\ \A t \in Int : Count(p, t, t + Window) <= 2 * Limit
          /\ IF now > e.windowAt THEN AfterTheWindow(p) ELSE InTheWindow(p, e)
        BY <2>1, <2>2 DEF RateInv, ClientInv
    <2>4. p \in Seq(Int)
        BY <2>3
    <2>5. e.count \in Nat /\ e.windowAt \in Int
        BY <2>3
    <2>6. \A i \in DOMAIN p : p[i] \in Int /\ p[i] <= now
        BY <2>3, <2>4
    <2>7. \A i \in DOMAIN p : p[i] \in Int /\ p[i] < now + 1 /\ p[i] <= now + 1
        BY <1>2, <2>6
    <2>8. IF now > e.windowAt THEN Count(p, now - Window, now) <= Limit
          ELSE /\ Began(e) <= now
               /\ Count(p, Began(e), now) <= e.count
               /\ Count(p, Began(e), now) <= Limit
               /\ Count(p, Began(e) - Window, Began(e) - 1) <= Limit
        BY <2>3 DEF AfterTheWindow, InTheWindow
    <2>9. Began(e) \in Int /\ Began(e) = e.windowAt - Window
        BY <1>2, <2>5 DEF Began
    <2>10. ASSUME NEW lo \in Int, NEW lo2 \in Int, NEW n \in Nat, lo <= lo2,
                  Count(p, lo, now) <= n
           PROVE  Count(p, lo2, now + 1) <= n
        <3>1. PICK hi \in Int : hi = now + 1
            BY <1>2
        <3>2. \A i \in DOMAIN p : lo2 <= p[i] /\ p[i] <= hi => lo <= p[i] /\ p[i] <= now
            BY <1>2, <2>6, <2>10, <3>1
        <3>3. Count(p, lo2, hi) <= Count(p, lo, now)
            BY <1>2, <2>4, <3>2, FewerWithin
        <3>4. Count(p, lo2, hi) \in Nat /\ Count(p, lo, now) \in Nat
            BY <1>2, <2>4, WithinIsFinite
        <3> QED
            BY <2>10, <3>1, <3>3, <3>4
    <2>11. IF now + 1 > e.windowAt
           THEN Count(p, now + 1 - Window, now + 1) <= Limit
           ELSE /\ Began(e) <= now + 1
                /\ Count(p, Began(e), now + 1) <= e.count
                /\ Count(p, Began(e), now + 1) <= Limit
                /\ Count(p, Began(e) - Window, Began(e) - 1) <= Limit
        <3>1. PICK lo \in Int : lo = now + 1 - Window
            BY <1>2
        <3>2. CASE now > e.windowAt
            <4>1. PICK m \in Int : m = now - Window
                BY <1>2
            <4>2. Count(p, m, now) <= Limit /\ m <= lo
                BY <1>2, <2>8, <3>1, <3>2, <4>1
            <4>3. Count(p, lo, now + 1) <= Limit
                BY <1>2, <2>10, <4>2
            <4> QED
                BY <1>2, <2>5, <3>1, <3>2, <4>3
        <3>3. CASE now = e.windowAt
            <4>1. Count(p, Began(e), now) <= Limit /\ Began(e) <= lo
                BY <1>2, <2>8, <2>9, <3>1, <3>3
            <4>2. Count(p, lo, now + 1) <= Limit
                BY <1>2, <2>9, <2>10, <4>1
            <4> QED
                BY <1>2, <2>5, <3>1, <3>3, <4>2
        <3>4. CASE now < e.windowAt
            <4>1. /\ Began(e) <= now
                  /\ Count(p, Began(e), now) <= e.count
                  /\ Count(p, Began(e), now) <= Limit
                  /\ Count(p, Began(e) - Window, Began(e) - 1) <= Limit
                BY <1>2, <2>5, <2>8, <3>4
            <4>2. Began(e) <= Began(e)
                BY <2>9
            <4>3. Count(p, Began(e), now + 1) <= e.count
                BY <2>5, <2>9, <2>10, <4>1, <4>2
            <4>4. Count(p, Began(e), now + 1) <= Limit
                BY <1>2, <2>9, <2>10, <4>1, <4>2
            <4> QED
                BY <1>2, <2>5, <2>9, <3>4, <4>1, <4>3, <4>4
        <3> QED
            BY <1>2, <2>5, <3>2, <3>3, <3>4
    <2>12. /\ p \in Seq(Int)
           /\ e.count \in Nat /\ e.windowAt \in Int
           /\ \A i \in DOMAIN p : p[i] <= now'
           /\ \A t \in Int : Count(p, t, t + Window) <= 2 * Limit
           /\ now' > e.windowAt =>
                 /\ \A i \in DOMAIN p : p[i] < now'
                 /\ Count(p, now' - Window, now') <= Limit
           /\ ~(now' > e.windowAt) =>
                 /\ Began(e) <= now'
                 /\ Count(p, Began(e), now') <= e.count
                 /\ Count(p, Began(e), now') <= Limit
                 /\ Count(p, Began(e) - Window, Began(e) - 1) <= Limit
        <3>1. \A i \in DOMAIN p : p[i] < now' /\ p[i] <= now'
            BY <2>7
        <3>2. \A t \in Int : Count(p, t, t + Window) <= 2 * Limit
            BY <2>3
        <3>3. now' > e.windowAt => Count(p, now' - Window, now') <= Limit
            <4>1. now' - Window = now + 1 - Window
                BY <1>2
            <4> QED
                BY <2>11, <4>1
        <3>4. ~(now' > e.windowAt) =>
                /\ Began(e) <= now'
                /\ Count(p, Began(e), now') <= e.count
                /\ Count(p, Began(e), now') <= Limit
                /\ Count(p, Began(e) - Window, Began(e) - 1) <= Limit
            BY <2>11
        <3> QED
            BY <2>4, <2>5, <3>1, <3>2, <3>3, <3>4
    <2>13. ClientInv(p, e)'
        BY <2>12 DEF ClientInv, AfterTheWindow, InTheWindow
    <2>14. passed'[c] = p /\ entries'[c] = e
        BY <2>1, <2>2 DEF limiterVars
    <2> QED
        BY <2>13, <2>14 DEF ClientInv, AfterTheWindow, InTheWindow
<1> QED
    BY <1>2, <1>3 DEF RateInv, limiterVars

LEMMA RateKept ==
    ASSUME RateInv, UNCHANGED <<limiterVars, now>>
    PROVE  RateInv'
BY DEF RateInv, ClientInv, AfterTheWindow, InTheWindow, limiterVars

LEMMA RateStarts ==
    ASSUME RateLimiterInit
    PROVE  RateInv
<1>1. Window \in Nat /\ Limit \in Nat
    BY RateLimiterAssumption, Zenon
<1>2. <<>> \in Seq(Int) /\ DOMAIN <<>> = {}
    OBVIOUS
<1>3. \A lo, hi \in Int : Count(<<>>, lo, hi) = 0
    BY <1>2, FS_EmptySet DEF Count, Within
<1>4. AfterTheWindow(<<>>)
    <2>1. now \in Int /\ now - Window \in Int
        BY <1>1 DEF RateLimiterInit
    <2> QED
        BY <1>1, <1>2, <1>3, <2>1 DEF AfterTheWindow
<1>5. \A t \in Int : Count(<<>>, t, t + Window) <= 2 * Limit
    <2>1. ASSUME NEW t \in Int PROVE t + Window \in Int
        BY <1>1
    <2> QED
        BY <1>1, <1>3, <2>1
<1>6. NoEntry.count = 0 /\ NoEntry.windowAt = -1
    BY DEF NoEntry
<1>7. ClientInv(<<>>, NoEntry)
    <2>1. now > NoEntry.windowAt
        BY <1>6 DEF RateLimiterInit
    <2> QED
        BY <1>2, <1>4, <1>5, <1>6, <2>1 DEF ClientInv
<1> QED
    BY <1>7 DEF RateInv, RateLimiterInit

LEMMA RateKeeps ==
    ASSUME RateInv, [BillingNext]_vars
    PROVE  RateInv'
<1>1. CASE Stripe
    BY <1>1, RateKept DEF Stripe, StripeStart, StripeRenew, StripeFail, StripeSetCancel,
       StripeCancel, StripeChange, Send
<1>2. CASE Webhook
    BY <1>2, RateKept DEF Webhook, HandleStripeWebhook, WebhookStep
<1>3. CASE People
    BY <1>3, RateKept, AllowKeeps DEF People, Validate, Login, Logout, CreateCheckoutSession
<1>4. CASE CleanupTick
    BY <1>4, CleanupKeeps DEF CleanupTick
<1>5. CASE Time
    BY <1>5, TimeKeeps DEF Time
<1>6. CASE UNCHANGED vars
    BY <1>6, RateKept DEF vars
<1> QED
    BY <1>1, <1>2, <1>3, <1>4, <1>5, <1>6 DEF BillingNext

(* For any limit, window and clients, and whenever the cleanup runs: no    *)
(* window's length of time sees more than twice as many requests let       *)
(* through as the limit (Allow, Cleanup).                                  *)
THEOREM RateLimited == BillingSpec => []RateIsLimited
<1>1. BillingInit => RateInv
    BY RateStarts DEF BillingInit
<1>2. RateInv /\ [BillingNext]_vars => RateInv'
    BY RateKeeps
<1>3. RateInv => RateIsLimited
    <2>1. SUFFICES ASSUME RateInv, NEW c \in Clients, NEW t \in 0..MaxNow
          PROVE  Cardinality({i \in DOMAIN passed[c] : passed[c][i] \in t..(t + Window)})
                    <= 2 * Limit
        BY DEF RateIsLimited
    <2>2. Window \in Nat /\ MaxNow \in Nat
        BY RateLimiterAssumption, Zenon
    <2>3. t \in Int /\ t + Window \in Int
        BY <2>2
    <2>4. passed[c] \in Seq(Int) /\ Count(passed[c], t, t + Window) <= 2 * Limit
        BY <2>1, <2>3 DEF RateInv, ClientInv
    <2>5. \A i \in DOMAIN passed[c] : passed[c][i] \in Int
        BY <2>4
    <2>6. {i \in DOMAIN passed[c] : passed[c][i] \in t..(t + Window)}
             = Within(passed[c], t, t + Window)
        BY <2>3, <2>5 DEF Within
    <2> QED
        BY <2>4, <2>6 DEF Count
<1> QED
    BY <1>1, <1>2, <1>3, PTL DEF BillingSpec

-----------------------------------------------------------------------------
(* The events of a subscription that are applied in order.                 *)

LEMMA StatusOfEvents ==
    \A e : /\ e.type = "paid" => StatusOf(e) = "active"
           /\ e.type = "failed" => StatusOf(e) = "past_due"
           /\ e.type = "updated" => StatusOf(e) = e.status
           /\ e.type = "deleted" => StatusOf(e) = "canceled"
BY DEF StatusOf

(* The beginning of the period an event tells of *)
Begins(e) == IF e.type = "paid" THEN e.at ELSE e.at - Period

(* The events of a subscription, in the order of what happened to it: the  *)
(* last one says what the record says, and each says of what it is not     *)
(* about what the one before it did.                                       *)
Tells(es, r) ==
    /\ es \in Seq(Event)
    /\ Len(es) >= 2
    /\ es[1].type = "checkout" /\ es[1].cancel = FALSE /\ es[2].type = "paid"
    /\ \A i \in 2..Len(es) :
        /\ es[i].type # "checkout"
        /\ es[i].type # "updated" => es[i].cancel = es[i - 1].cancel
        /\ es[i].type # "paid" => Begins(es[i]) = Begins(es[i - 1])
        /\ es[i].type = "deleted" => i = Len(es)
        /\ es[i].type = "updated" => es[i].status # "canceled"
    /\ StatusOf(es[Len(es)]) = r.status
    /\ es[Len(es)].cancel = r.cancel
    /\ Begins(es[Len(es)]) = r.begin

Record ==
    {r \in [status : Statuses, begin : 0..MaxNow, end : Nat, cancel : BOOLEAN,
            since : 0..MaxNow, email : Emails] :
        r.end = r.begin + Period}

EventsInv ==
    /\ now \in 0..MaxNow
    /\ \A s \in Subscriptions :
        /\ events[s] \in Seq(Event)
        /\ stripe[s] # None =>
            stripe[s] \in Record /\ stripe[s].since <= now /\ Tells(events[s], stripe[s])

LEMMA RecordFields ==
    ASSUME NEW r \in Record
    PROVE  /\ r.status \in Statuses /\ r.cancel \in BOOLEAN
           /\ r.begin \in 0..MaxNow /\ r.end = r.begin + Period
           /\ r.since \in 0..MaxNow /\ r.email \in Emails
BY DEF Record

LEMMA EventFields ==
    ASSUME NEW r \in Record, NEW type \in {"checkout", "paid", "failed", "updated", "deleted"}
    PROVE  /\ Sent(type, r) \in Event
           /\ Sent(type, r).type = type /\ Sent(type, r).status = r.status
           /\ Begins(Sent(type, r)) = r.begin /\ Sent(type, r).cancel = r.cancel
           /\ Sent(type, r).at \in Int
<1>1. PICK at : at = IF type = "paid" THEN r.begin ELSE r.end
    OBVIOUS
<1>2. /\ r.status \in Statuses /\ r.cancel \in BOOLEAN
      /\ r.begin \in 0..MaxNow /\ r.end = r.begin + Period /\ MaxNow \in Nat /\ Period \in Nat
    BY RecordFields, RateLimiterAssumption, BillingAssumption
<1>3. at \in 0..(MaxNow + Period) /\ at \in Int
    BY <1>1, <1>2
<1>4. Sent(type, r) = [type |-> type, status |-> r.status, at |-> at, cancel |-> r.cancel]
    BY <1>1 DEF Sent
<1>5. (IF type = "paid" THEN at ELSE at - Period) = r.begin
    BY <1>1, <1>2
<1> QED
    BY <1>2, <1>3, <1>4, <1>5 DEF Event, Begins

LEMMA OneMoreTold ==
    ASSUME NEW es, NEW r \in Record, Tells(es, r), r.status # "canceled",
           NEW q \in Record, NEW type \in {"paid", "failed", "updated", "deleted"},
           type = "paid" => q.status = "active" /\ q.cancel = r.cancel,
           type = "failed" => q.status = "past_due" /\ q.cancel = r.cancel /\ q.begin = r.begin,
           type = "updated" => q.status # "canceled" /\ q.begin = r.begin,
           type = "deleted" => q.status = "canceled" /\ q.cancel = r.cancel /\ q.begin = r.begin
    PROVE  Tells(Append(es, Sent(type, q)), q)
<1> DEFINE e == Sent(type, q)
           fs == Append(es, e)
           n == Len(es)
<1>1. /\ e \in Event /\ e.type = type /\ e.status = q.status
      /\ Begins(e) = q.begin /\ e.cancel = q.cancel
    BY EventFields
<1> HIDE DEF e
<1>2. es \in Seq(Event) /\ n \in Nat /\ n >= 2 /\ DOMAIN es = 1..n
    BY DEF Tells
<1>3. /\ fs \in Seq(Event) /\ Len(fs) = n + 1 /\ fs[n + 1] = e
      /\ \A i \in 1..n : fs[i] = es[i]
    BY <1>1, <1>2
<1> HIDE DEF fs
<1>4. StatusOf(e) = q.status
    BY <1>1, StatusOfEvents
<1>5. es[n].type # "deleted"
    BY StatusOfEvents DEF Tells
<1>6. /\ es[n].cancel = r.cancel /\ Begins(es[n]) = r.begin
      /\ es[1].type = "checkout" /\ es[1].cancel = FALSE /\ es[2].type = "paid"
    BY DEF Tells
<1> HIDE DEF n
<1>7. ASSUME NEW i \in 2..(n + 1)
      PROVE  /\ fs[i].type # "checkout"
             /\ fs[i].type # "updated" => fs[i].cancel = fs[i - 1].cancel
             /\ fs[i].type # "paid" => Begins(fs[i]) = Begins(fs[i - 1])
             /\ fs[i].type = "deleted" => i = n + 1
             /\ fs[i].type = "updated" => fs[i].status # "canceled"
    <2>1. CASE i = n + 1
        <3>1. fs[i] = e /\ fs[i - 1] = es[n]
            BY <1>2, <1>3, <2>1
        <3> QED
            BY <1>1, <1>6, <2>1, <3>1
    <2>2. CASE i # n + 1
        <3>1. i \in 2..n /\ i \in 1..n /\ i - 1 \in 1..n
            BY <1>2, <2>2
        <3>2. fs[i] = es[i] /\ fs[i - 1] = es[i - 1]
            BY <1>3, <3>1
        <3>3. /\ es[i].type # "checkout"
              /\ es[i].type # "updated" => es[i].cancel = es[i - 1].cancel
              /\ es[i].type # "paid" => Begins(es[i]) = Begins(es[i - 1])
              /\ es[i].type = "deleted" => i = n
              /\ es[i].type = "updated" => es[i].status # "canceled"
            BY <3>1 DEF Tells, n
        <3> QED
            BY <1>5, <3>2, <3>3
    <2> QED
        BY <2>1, <2>2
<1>8. /\ fs[1] = es[1] /\ fs[2] = es[2] /\ Len(fs) >= 2
    BY <1>2, <1>3
<1>9. Tells(fs, q)
    BY <1>1, <1>3, <1>4, <1>6, <1>7, <1>8 DEF Tells
<1> QED
    BY <1>9 DEF fs, e

LEMMA StartIsTold ==
    ASSUME NEW r \in Record, r.status = "active", r.cancel = FALSE
    PROVE  Tells(<<Sent("checkout", r), Sent("paid", r)>>, r)
<1>1. PICK a : a = Sent("checkout", r)
    OBVIOUS
<1>2. PICK b : b = Sent("paid", r)
    OBVIOUS
<1>3. a \in Event /\ a.type = "checkout" /\ Begins(a) = r.begin /\ a.cancel = r.cancel
    BY <1>1, EventFields
<1>4. b \in Event /\ b.type = "paid" /\ Begins(b) = r.begin /\ b.cancel = r.cancel
    BY <1>2, EventFields
<1>5. StatusOf(b) = r.status
    BY <1>4, StatusOfEvents
<1>6. PICK es : es = <<a, b>>
    OBVIOUS
<1>7. es \in Seq(Event) /\ Len(es) = 2 /\ es[1] = a /\ es[2] = b
    BY <1>3, <1>4, <1>6
<1>8. ASSUME NEW i \in 2..Len(es)
      PROVE  i = 2 /\ i - 1 = 1
    BY <1>7
<1>9. Tells(es, r)
    BY <1>3, <1>4, <1>5, <1>7, <1>8 DEF Tells
<1> QED
    BY <1>1, <1>2, <1>6, <1>9

LEMMA OneLonger ==
    ASSUME NEW es \in Seq(Event), NEW e \in Event, NEW fs, fs = Append(es, e)
    PROVE  /\ fs \in Seq(Event) /\ Len(fs) = Len(es) + 1 /\ Len(es) \in Nat
           /\ \A i \in 1..Len(es) : fs[i] = es[i]
OBVIOUS

(* Stripe changes its record of s and sends what it now says. *)
Told(s) ==
    \E q \in Record, fs \in Seq(Event) :
        /\ stripe' = [stripe EXCEPT ![s] = q]
        /\ events' = [events EXCEPT ![s] = fs]
        /\ q.since = now /\ Tells(fs, q)
        /\ stripe[s] # None => stripe[s].status # "canceled"
        /\ Len(fs) >= Len(events[s])
        /\ \A i \in 1..Len(events[s]) : fs[i] = events[s][i]

(* A step of Stripe sends one or two events. *)
LEMMA ChangeIsTold ==
    ASSUME NEW s \in Subscriptions, EventsInv, stripe[s] # None,
           NEW state \in {"active", "past_due", "canceled"},
           NEW begin, NEW cancel \in BOOLEAN, NEW types,
           StripeChange(s, state, begin, cancel, types),
           \/ /\ types = <<"paid", "updated">> /\ state = "active"
              /\ begin \in 0..MaxNow /\ cancel = stripe[s].cancel
           \/ /\ types = <<"failed", "updated">> /\ state = "past_due"
              /\ begin = stripe[s].begin /\ cancel = stripe[s].cancel
           \/ /\ types = <<"updated">> /\ state = stripe[s].status /\ begin = stripe[s].begin
           \/ /\ types = <<"deleted">> /\ state = "canceled"
              /\ begin = stripe[s].begin /\ cancel = stripe[s].cancel
    PROVE  Told(s)
<1> DEFINE q == [stripe[s] EXCEPT !.status = state, !.begin = begin,
                                  !.end = begin + Period, !.cancel = cancel, !.since = now]
           r == stripe[s]
           es == events[s]
           fs == es \o [i \in DOMAIN types |-> Sent(types[i], q)]
<1>1. r \in Record /\ Tells(es, r) /\ now \in 0..MaxNow /\ es \in Seq(Event)
    BY DEF EventsInv
<1>2. /\ stripe' = [stripe EXCEPT ![s] = q] /\ events' = [events EXCEPT ![s] = fs]
      /\ r.status # "canceled"
    BY DEF StripeChange, Send
<1>3. r.begin \in 0..MaxNow /\ r.cancel \in BOOLEAN /\ r.status \in Statuses
    BY <1>1, RecordFields
<1>4. /\ q \in Record /\ q.status = state /\ q.begin = begin /\ q.cancel = cancel
      /\ q.since = now
    <2>1. begin \in 0..MaxNow /\ begin + Period \in Nat
        BY <1>3, RateLimiterAssumption, BillingAssumption
    <2> QED
        BY <1>1, <1>3, <2>1 DEF Record, Statuses
<1> HIDE DEF q, r, es
<1>5. ASSUME types \in {<<"paid", "updated">>, <<"failed", "updated">>}
      PROVE  /\ fs \in Seq(Event) /\ Tells(fs, q) /\ Len(fs) >= Len(es)
             /\ \A i \in 1..Len(es) : fs[i] = es[i]
    <2>1. PICK t \in {"paid", "failed"} : types = <<t, "updated">>
        BY <1>5
    <2>2. fs = Append(Append(es, Sent(t, q)), Sent("updated", q))
        <3>1. PICK a : a = Sent(t, q)
            OBVIOUS
        <3>2. PICK b : b = Sent("updated", q)
            OBVIOUS
        <3>3. a \in Event /\ b \in Event
            BY <1>4, <3>1, <3>2, EventFields
        <3>4. [i \in DOMAIN types |-> Sent(types[i], q)] = <<a, b>>
            BY <2>1, <3>1, <3>2
        <3>5. es \o <<a, b>> = Append(Append(es, a), b)
            BY <1>1, <3>3
        <3> QED
            BY <3>1, <3>2, <3>4, <3>5
    <2>3. Tells(Append(es, Sent(t, q)), q)
        BY <1>1, <1>2, <1>4, <2>1, OneMoreTold DEF r
    <2>4. Tells(Append(Append(es, Sent(t, q)), Sent("updated", q)), q)
        <3>1. q.status # "canceled"
            BY <1>4, <2>1
        <3> QED
            BY <1>4, <2>3, <3>1, OneMoreTold
    <2>5. Sent(t, q) \in Event /\ Sent("updated", q) \in Event
        BY <1>4, EventFields
    <2> HIDE DEF fs
    <2>6. PICK gs : gs = Append(es, Sent(t, q))
        OBVIOUS
    <2>7. fs = Append(gs, Sent("updated", q))
        BY <2>2, <2>6
    <2>8. /\ gs \in Seq(Event) /\ Len(gs) = Len(es) + 1 /\ Len(es) \in Nat
          /\ \A i \in 1..Len(es) : gs[i] = es[i]
        BY <1>1, <2>5, <2>6, OneLonger
    <2>9. /\ fs \in Seq(Event) /\ Len(fs) = Len(gs) + 1
          /\ \A i \in 1..Len(gs) : fs[i] = gs[i]
        BY <2>5, <2>7, <2>8, OneLonger
    <2>10. /\ fs \in Seq(Event) /\ Len(fs) >= Len(es)
           /\ \A i \in 1..Len(es) : fs[i] = es[i]
        BY <2>8, <2>9
    <2>11. Tells(fs, q)
        BY <2>2, <2>4
    <2> QED
        BY <1>1, <1>4, <2>10, <2>11
<1>6. ASSUME types \in {<<"updated">>, <<"deleted">>}
      PROVE  /\ fs \in Seq(Event) /\ Tells(fs, q) /\ Len(fs) >= Len(es)
             /\ \A i \in 1..Len(es) : fs[i] = es[i]
    <2>1. PICK t \in {"updated", "deleted"} : types = <<t>>
        BY <1>6
    <2>2. fs = Append(es, Sent(t, q))
        <3>1. PICK a : a = Sent(t, q)
            OBVIOUS
        <3>2. a \in Event
            BY <1>4, <3>1, EventFields
        <3>3. [i \in DOMAIN types |-> Sent(types[i], q)] = <<a>>
            BY <2>1, <3>1
        <3>4. es \o <<a>> = Append(es, a)
            BY <1>1, <3>2
        <3> QED
            BY <3>1, <3>3, <3>4
    <2>3. Tells(Append(es, Sent(t, q)), q)
        BY <1>1, <1>2, <1>4, <2>1, OneMoreTold DEF r
    <2>4. Sent(t, q) \in Event
        BY <1>4, EventFields
    <2>5. /\ fs \in Seq(Event) /\ Len(fs) = Len(es) + 1
          /\ \A i \in 1..Len(es) : fs[i] = es[i]
        BY <1>1, <2>2, <2>4
    <2> HIDE DEF fs
    <2>6. Len(fs) >= Len(es)
        BY <1>1, <2>5
    <2> QED
        BY <1>1, <1>4, <2>2, <2>3, <2>5, <2>6
<1>7. q \in Record /\ fs \in Seq(Event) /\ Tells(fs, q) /\ Len(fs) >= Len(es)
      /\ \A i \in 1..Len(es) : fs[i] = es[i]
    BY <1>4, <1>5, <1>6
<1> HIDE DEF fs
<1> QED
    BY <1>2, <1>4, <1>7 DEF r, es, Told

-----------------------------------------------------------------------------
(* What the tables say of a subscription.                                  *)

Rows(s) == {b \in RowIDs : subscription[b] # NoRow /\ subscription[b].stripe = s}

Working(h, s) == request[h] # Idle /\ request[h].s = s

(* What the requests in flight know of the row they are about *)
RowOf(r) ==
    /\ r.op = "stripeID" => subscription[r.sub].stripe = NoId
    /\ r.op = "key" => subscription[r.sub].stripe \in {NoId, r.s}
    /\ r.op \in {"status", "cancel", "expiry"} =>
          r.sub \in RowIDs /\ subscription[r.sub] # NoRow /\ subscription[r.sub].stripe = r.s

RowInv == \A h \in Handlers : RowOf(request[h])

(* The status after the n-th event *)
StatusAfter(s, n) == IF n = 1 THEN "active" ELSE StatusOf(events[s][n])

(* A key lasts as the n-th event says. *)
Lasts(time, s, n) ==
    LET e == events[s][n]
    IN  n >= 2 =>
        IF e.type # "deleted" THEN time = Begins(e) + Buffer
        ELSE IF e.cancel THEN time = e.at
        ELSE time \in (stripe[s].since + Buffer)..(now + Buffer)

(* The one row b and its one key say what the events up to n say, but for  *)
(* what the statements from op on have yet to write.                       *)
Says(s, b, n, op) ==
    LET m == IF op = "idle" THEN n ELSE n - 1
    IN  /\ Rows(s) = {b}
        /\ op # "status" => subscription[b].status = StatusAfter(s, n)
        /\ subscription[b].cancel = events[s][m].cancel
        /\ \E k \in RowIDs : GetBySubscriptionID(b) = {k} /\ Lasts(licenseKey[k].expires, s, m)

Fresh(b) == subscription[b].status = "active" /\ subscription[b].cancel = FALSE

(* How far the delivery of the last event of s is *)
Stage(s, r) ==
    /\ applied[s] >= 1
    /\ r.event = events[s][applied[s]]
    /\ \/ r.op \in {"account", "customer", "subscription"} /\ applied[s] = 1 /\ Rows(s) = {}
       \/ r.op = "stripeID" /\ applied[s] = 1 /\ Rows(s) = {} /\ Fresh(r.sub)
       \/ r.op = "key" /\ applied[s] = 1 /\ Rows(s) = {r.sub} /\ Fresh(r.sub)
       \/ /\ r.op \in {"status", "cancel", "expiry"} /\ applied[s] >= 2
          /\ r.op # "status" => r.op = After(r.event)
          /\ Says(s, r.sub, applied[s], r.op)

(* A subscription of which every event so far was handled, one at a time *)
Orderly(s) ==
    /\ applied[s] \in 0..Len(events[s])
    /\ \A g, h \in Handlers : Working(g, s) /\ Working(h, s) => g = h
    /\ \A h \in Handlers : Working(h, s) => Stage(s, request[h])
    /\ (\A h \in Handlers : ~Working(h, s)) =>
          IF applied[s] = 0 THEN Rows(s) = {}
          ELSE \E b \in RowIDs : Says(s, b, applied[s], "idle")

AppliedInv ==
    /\ DOMAIN applied = Subscriptions
    /\ \A s \in Subscriptions : s \notin disturbed => Orderly(s)

DeliveryInv == IInv /\ EventsInv /\ RowInv /\ AppliedInv

-----------------------------------------------------------------------------
LEMMA LeastOf ==
    ASSUME NEW S, IsFiniteSet(S), S # {}, \A x \in S : x \in Int
    PROVE  Min(S) \in S
<1> DEFINE Upto(x) == {y \in S : y <= x}
           B == {Upto(x) : x \in S}
<1>1. IsWellFoundedOn(StrictSubsetOrdering(S), SUBSET S)
    BY FS_StrictSubsetOrderingWellFounded, FS_FiniteSubsetsOfFinite
<1>2. B \subseteq SUBSET S /\ B # {}
    OBVIOUS
<1>3. PICK U \in B : \A V \in B : ~ (<<V, U>> \in StrictSubsetOrdering(S))
    <2> HIDE DEF B
    <2> QED
        BY <1>1, <1>2, WFMin
<1>4. \A V \in B : V \subseteq U => V = U
    BY <1>2, <1>3 DEF StrictSubsetOrdering
<1>5. PICK x \in S : U = Upto(x)
    BY <1>3
<1>6. ASSUME NEW y \in S, ~(x <= y)
      PROVE  FALSE
    <2>1. Upto(y) \subseteq U /\ x \in U /\ x \notin Upto(y) /\ Upto(y) \in B
        BY <1>5, <1>6
    <2> QED
        BY <1>4, <2>1
<1>7. \E z \in S : \A y \in S : z <= y
    BY <1>6
<1> QED
    BY <1>7 DEF Min

LEMMA RowIDsAreFinite ==
    /\ IsFiniteSet(RowIDs) /\ NoId \notin RowIDs /\ Buffer \in Int
    /\ \A x \in RowIDs : x \in Int
<1>1. MaxRows \in Nat /\ Buffer \in Nat
    BY BillingAssumption, Zenon
<1> QED
    BY <1>1, FS_Interval DEF RowIDs, NoId

LEMMA FirstRow ==
    ASSUME NEW s \in Subscriptions
    PROVE  /\ Rows(s) = {} => GetByStripeID(s) = NoId
           /\ Rows(s) # {} => GetByStripeID(s) \in Rows(s) /\ GetByStripeID(s) # NoId
<1>1. Rows(s) \subseteq RowIDs
    BY DEF Rows
<1>2. IsFiniteSet(Rows(s)) /\ \A x \in Rows(s) : x \in Int
    BY <1>1, RowIDsAreFinite, FS_Subset
<1>3. Rows(s) # {} => Min(Rows(s)) \in Rows(s)
    BY <1>2, LeastOf
<1>4. GetByStripeID(s) = IF Rows(s) = {} THEN NoId ELSE Min(Rows(s))
    BY DEF GetByStripeID, Rows
<1> QED
    BY <1>1, <1>3, <1>4, RowIDsAreFinite

(* What is in flight, in the terms of the model and of the invariant *)
LEMMA InFlightWorks ==
    ASSUME RequestInv, NEW s
    PROVE  InFlight(s) = {h \in Handlers : Working(h, s)}
BY DEF InFlight, Working, RequestInv, Holds, Idle

LEMMA LastsStill ==
    ASSUME NEW s \in Subscriptions, NEW n \in Nat, NEW time,
           Lasts(time, s, n), now \in Int, now' \in Int, now <= now',
           events'[s][n] = events[s][n], stripe[s].since \in Int,
           stripe'[s].since = stripe[s].since \/ events[s][n].type # "deleted"
    PROVE  Lasts(time, s, n)'
<1>1. PICK e : e = events[s][n]
    OBVIOUS
<1>2. Buffer \in Int
    BY RowIDsAreFinite
<1>3. Lasts(time, s, n)' =
        (n >= 2 =>
            IF e.type # "deleted" THEN time = Begins(e) + Buffer
            ELSE IF e.cancel THEN time = e.at
            ELSE time \in (stripe'[s].since + Buffer)..(now' + Buffer))
    BY <1>1 DEF Lasts
<1>4. Lasts(time, s, n) =
        (n >= 2 =>
            IF e.type # "deleted" THEN time = Begins(e) + Buffer
            ELSE IF e.cancel THEN time = e.at
            ELSE time \in (stripe[s].since + Buffer)..(now + Buffer))
    BY <1>1 DEF Lasts
<1>5. now + Buffer <= now' + Buffer
    <2>1. \A a, b, c \in Int : a <= b => a + c <= b + c
        OBVIOUS
    <2> QED
        BY <1>2, <2>1, Zenon
<1>6. time \in (stripe[s].since + Buffer)..(now + Buffer) =>
        time \in (stripe[s].since + Buffer)..(now' + Buffer)
    <2>1. PICK a \in Int : a = stripe[s].since + Buffer
        BY <1>2
    <2>2. PICK b \in Int : b = now + Buffer
        BY <1>2
    <2>3. PICK c \in Int : c = now' + Buffer
        <3>1. PICK t \in Int : t = now'
            OBVIOUS
        <3>2. t + Buffer \in Int
            BY <1>2
        <3> QED
            BY <3>1, <3>2
    <2>4. time \in a..b => time \in a..c
        BY <1>5, <2>2, <2>3
    <2> QED
        BY <2>1, <2>2, <2>3, <2>4
<1> QED
    BY <1>1, <1>3, <1>4, <1>6

(* What a step leaves alone of a subscription *)
Still(s) ==
    /\ applied'[s] = applied[s]
    /\ now \in Int /\ now' \in Int /\ now <= now'
    /\ events[s] \in Seq(Event) /\ events'[s] \in Seq(Event)
    /\ Len(events[s]) <= Len(events'[s])
    /\ \A n \in 1..Len(events[s]) :
          /\ events'[s][n] = events[s][n]
          /\ stripe[s].since \in Int
          /\ stripe'[s].since = stripe[s].since \/ events[s][n].type # "deleted"
    /\ Rows(s)' = Rows(s)
    /\ \A b \in RowIDs : b \in Rows(s) =>
          /\ subscription'[b].status = subscription[b].status
          /\ subscription'[b].cancel = subscription[b].cancel
          /\ GetBySubscriptionID(b)' = GetBySubscriptionID(b)
          /\ \A k \in RowIDs : k \in GetBySubscriptionID(b) =>
                licenseKey'[k].expires = licenseKey[k].expires

LEMMA SaysStill ==
    ASSUME NEW s \in Subscriptions, Still(s), NEW b, NEW n \in 1..Len(events[s]), NEW op,
           op = "idle" \/ n >= 2, Says(s, b, n, op)
    PROVE  Says(s, b, n, op)'
<1>1. PICK m : m = IF op = "idle" THEN n ELSE n - 1
    OBVIOUS
<1>2. Len(events[s]) \in Nat
    BY DEF Still
<1>3. n \in Nat /\ n >= 1 /\ n <= Len(events[s])
    BY <1>2
<1>4. m \in Nat /\ m \in 1..Len(events[s])
    BY <1>1, <1>2, <1>3
<1>5. /\ Rows(s) = {b}
      /\ op # "status" => subscription[b].status = StatusAfter(s, n)
      /\ subscription[b].cancel = events[s][m].cancel
      /\ \E k \in RowIDs : GetBySubscriptionID(b) = {k} /\ Lasts(licenseKey[k].expires, s, m)
    BY <1>1 DEF Says
<1>6. b \in Rows(s) /\ b \in RowIDs
    BY <1>5 DEF Rows
<1>7. PICK k \in RowIDs :
          GetBySubscriptionID(b) = {k} /\ Lasts(licenseKey[k].expires, s, m)
    BY <1>5
<1>8. /\ subscription'[b].status = subscription[b].status
      /\ subscription'[b].cancel = subscription[b].cancel
      /\ GetBySubscriptionID(b)' = GetBySubscriptionID(b)
      /\ licenseKey'[k].expires = licenseKey[k].expires
    BY <1>6, <1>7 DEF Still
<1>9. /\ events'[s][n] = events[s][n]
      /\ events'[s][m] = events[s][m] /\ stripe[s].since \in Int
      /\ stripe'[s].since = stripe[s].since \/ events[s][m].type # "deleted"
      /\ now \in Int /\ now' \in Int /\ now <= now'
      /\ Rows(s)' = Rows(s)
    BY <1>4 DEF Still
<1>10. PICK time : time = licenseKey[k].expires
    OBVIOUS
<1>11. Lasts(time, s, m)'
    BY <1>4, <1>7, <1>9, <1>10, LastsStill
<1>12. Lasts(licenseKey[k].expires, s, m)'
    <2>1. licenseKey'[k].expires = time
        BY <1>8, <1>10
    <2> QED
        BY <1>11, <2>1 DEF Lasts
<1>13. StatusAfter(s, n)' = StatusAfter(s, n)
    BY <1>9 DEF StatusAfter
<1>14. (\E l \in RowIDs : GetBySubscriptionID(b) = {l} /\ Lasts(licenseKey[l].expires, s, m))'
    BY <1>7, <1>8, <1>12
<1> QED
    BY <1>1, <1>5, <1>8, <1>9, <1>13, <1>14 DEF Says

LEMMA StageStill ==
    ASSUME NEW s \in Subscriptions, Still(s), NEW r, Stage(s, r),
           applied[s] \in 0..Len(events[s]),
           r.op = "stripeID" => /\ subscription'[r.sub].status = subscription[r.sub].status
                                /\ subscription'[r.sub].cancel = subscription[r.sub].cancel
    PROVE  Stage(s, r)'
<1>1. PICK n : n = applied[s]
    OBVIOUS
<1>2. applied'[s] = n /\ n >= 1 /\ n \in Nat /\ Len(events[s]) \in Nat /\ n <= Len(events[s])
    BY <1>1 DEF Still, Stage
<1>3. n \in 1..Len(events[s])
    BY <1>2
<1>4. events'[s][n] = events[s][n] /\ Rows(s)' = Rows(s)
    BY <1>3 DEF Still
<1>5. r.event = events'[s][applied'[s]] /\ applied'[s] >= 1
    BY <1>1, <1>2, <1>4 DEF Stage
<1>6. CASE r.op \in {"account", "customer", "subscription"}
    BY <1>1, <1>2, <1>4, <1>5, <1>6 DEF Stage
<1>7. CASE r.op = "stripeID"
    BY <1>1, <1>2, <1>4, <1>5, <1>7 DEF Stage, Fresh
<1>8. CASE r.op = "key"
    <2>1. Rows(s) = {r.sub} /\ Fresh(r.sub) /\ applied[s] = 1
        BY <1>8 DEF Stage
    <2>2. r.sub \in RowIDs /\ r.sub \in Rows(s)
        BY <2>1 DEF Rows
    <2>3. Fresh(r.sub)'
        BY <2>1, <2>2 DEF Still, Fresh
    <2> QED
        BY <1>1, <1>2, <1>4, <1>5, <1>8, <2>1, <2>3 DEF Stage
<1>9. CASE r.op \in {"status", "cancel", "expiry"}
    <2>1. /\ n >= 2 /\ Says(s, r.sub, n, r.op)
          /\ r.op # "status" => r.op = After(r.event)
        BY <1>1, <1>9 DEF Stage
    <2>2. Says(s, r.sub, n, r.op)'
        BY <1>3, <2>1, SaysStill
    <2>3. Says(s, r.sub, applied[s], r.op)'
        BY <1>2, <2>2 DEF Says, StatusAfter, Lasts
    <2> QED
        BY <1>2, <1>5, <1>9, <2>1, <2>3 DEF Stage
<1> QED
    BY <1>6, <1>7, <1>8, <1>9 DEF Stage

(* A step that is not about s *)
LEMMA OrderlyStill ==
    ASSUME NEW s \in Subscriptions, Still(s), Orderly(s),
           \A h \in Handlers : Working(h, s)' <=> Working(h, s),
           \A h \in Handlers : Working(h, s) =>
              /\ request'[h] = request[h]
              /\ request[h].op = "stripeID" =>
                    LET b == request[h].sub
                    IN  /\ subscription'[b].status = subscription[b].status
                        /\ subscription'[b].cancel = subscription[b].cancel
    PROVE  Orderly(s)'
<1>1. applied[s] \in 0..Len(events[s]) /\ applied'[s] = applied[s]
    BY DEF Orderly, Still
<1>2. applied'[s] \in 0..Len(events'[s])
    BY <1>1 DEF Still
<1>3. (\A g, h \in Handlers : Working(g, s) /\ Working(h, s) => g = h)'
    BY DEF Orderly
<1>4. ASSUME NEW h \in Handlers, Working(h, s)'
      PROVE  Stage(s, request[h])'
    <2>1. PICK r : r = request[h]
        OBVIOUS
    <2>2. Stage(s, r) /\ request'[h] = r
        BY <1>4, <2>1 DEF Orderly
    <2>3. r.op = "stripeID" => /\ subscription'[r.sub].status = subscription[r.sub].status
                               /\ subscription'[r.sub].cancel = subscription[r.sub].cancel
        BY <1>4, <2>1
    <2>4. Stage(s, r)'
        BY <1>1, <2>2, <2>3, StageStill
    <2> QED
        BY <2>2, <2>4 DEF Stage, Says, Fresh
<1>5. ASSUME (\A h \in Handlers : ~Working(h, s))'
      PROVE  (IF applied[s] = 0 THEN Rows(s) = {}
              ELSE \E b \in RowIDs : Says(s, b, applied[s], "idle"))'
    <2>1. CASE applied[s] = 0
        BY <1>1, <1>5, <2>1 DEF Orderly, Still
    <2>2. CASE applied[s] # 0
        <3>1. PICK n : n = applied[s]
            OBVIOUS
        <3>2. PICK b \in RowIDs : Says(s, b, n, "idle")
            BY <1>5, <2>2, <3>1 DEF Orderly
        <3>3. n \in 1..Len(events[s])
            BY <1>1, <2>2, <3>1 DEF Still
        <3>4. Says(s, b, n, "idle")'
            BY <3>2, <3>3, SaysStill
        <3>5. Says(s, b, applied[s], "idle")'
            BY <1>1, <3>1, <3>4 DEF Says, StatusAfter, Lasts
        <3> QED
            BY <1>1, <2>2, <3>5
    <2> QED
        BY <2>1, <2>2
<1> QED
    BY <1>2, <1>3, <1>4, <1>5 DEF Orderly

(* Deliveries and their rows stay; Stripe or the clock goes on. *)
LEMMA NothingWritten ==
    ASSUME RowInv, AppliedInv, UNCHANGED <<subscription, licenseKey, request, history>>,
           now \in Int, now' \in Int, now <= now',
           \A s \in Subscriptions :
              /\ events[s] \in Seq(Event) /\ events'[s] \in Seq(Event)
              /\ Len(events[s]) <= Len(events'[s])
              /\ \A n \in 1..Len(events[s]) :
                    /\ events'[s][n] = events[s][n]
                    /\ stripe[s].since \in Int
                    /\ stripe'[s].since = stripe[s].since \/ events[s][n].type # "deleted"
    PROVE  RowInv' /\ AppliedInv'
<1>1. UNCHANGED <<applied, disturbed>>
    BY DEF history
<1>2. RowInv'
    BY DEF RowInv, RowOf
<1>3. ASSUME NEW s \in Subscriptions, s \notin disturbed'
      PROVE  Orderly(s)'
    <2>1. Orderly(s)
        BY <1>1, <1>3 DEF AppliedInv
    <2>2. Rows(s)' = Rows(s) /\ \A b : GetBySubscriptionID(b)' = GetBySubscriptionID(b)
        BY DEF Rows, GetBySubscriptionID
    <2>3. Still(s)
        BY <1>1, <2>2 DEF Still
    <2>4. \A h \in Handlers : Working(h, s)' <=> Working(h, s)
        BY DEF Working
    <2> QED
        BY <2>1, <2>3, <2>4, OrderlyStill
<1>4. AppliedInv'
    BY <1>1, <1>3 DEF AppliedInv
<1> QED
    BY <1>2, <1>4

LEMMA EventsTyped ==
    ASSUME IInv, EventsInv
    PROVE  /\ now \in Int /\ MaxNow \in Nat
           /\ \A s \in Subscriptions :
                /\ events[s] \in Seq(Event) /\ Len(events[s]) \in Nat
                /\ DOMAIN events[s] = 1..Len(events[s])
                /\ \A n \in 1..Len(events[s]) : stripe[s].since \in Int
<1>1. MaxNow \in Nat
    BY RateLimiterAssumption, Zenon
<1>2. now \in Int
    BY <1>1 DEF EventsInv
<1>3. ASSUME NEW s \in Subscriptions
      PROVE  /\ events[s] \in Seq(Event) /\ Len(events[s]) \in Nat
             /\ DOMAIN events[s] = 1..Len(events[s])
    BY DEF EventsInv
<1>4. ASSUME NEW s \in Subscriptions, NEW n \in 1..Len(events[s])
      PROVE  stripe[s].since \in Int
    <2>1. events[s] # <<>>
        BY <1>3, <1>4
    <2>2. stripe[s] \in Record
        BY <2>1 DEF EventsInv, IInv, TablesInv, StripeInv
    <2>3. stripe[s].since \in 0..MaxNow
        BY <2>2, RecordFields
    <2> QED
        BY <1>1, <2>3
<1> QED
    BY <1>1, <1>2, <1>3, <1>4

LEMMA EventsKept ==
    ASSUME EventsInv, UNCHANGED stripeVars, MaxNow \in Nat, now' \in 0..MaxNow, now <= now'
    PROVE  EventsInv'
<1>1. ASSUME NEW s \in Subscriptions, stripe[s] # None
      PROVE  stripe[s].since <= now'
    <2>1. stripe[s] \in Record /\ stripe[s].since <= now /\ now \in 0..MaxNow
        BY <1>1 DEF EventsInv
    <2>2. stripe[s].since \in 0..MaxNow
        BY <2>1, RecordFields
    <2> QED
        BY <2>1, <2>2
<1> QED
    BY <1>1 DEF EventsInv, stripeVars

(* What Stripe says next *)
LEMMA StripeTells ==
    ASSUME IInv, EventsInv, Stripe
    PROVE  \E s \in Subscriptions : Told(s)
<1>1. MaxNow \in Nat /\ now \in 0..MaxNow
    BY EventsTyped DEF EventsInv
<1>2. now + Period \in Nat
    BY <1>1, BillingAssumption
<1>3. ASSUME NEW s \in Subscriptions, NEW email \in Emails, StripeStart(s, email)
      PROVE  Told(s)
    <2>1. PICK q : q = [status |-> "active", begin |-> now, end |-> now + Period,
                        cancel |-> FALSE, since |-> now, email |-> email]
        OBVIOUS
    <2>2. q \in Record /\ q.status = "active" /\ q.cancel = FALSE /\ q.since = now
        BY <1>1, <1>2, <2>1 DEF Record, Statuses
    <2>3. PICK fs : fs = <<Sent("checkout", q), Sent("paid", q)>>
        OBVIOUS
    <2>4. Tells(fs, q)
        BY <2>2, <2>3, StartIsTold
    <2>5. stripe[s] = None /\ events[s] = <<>>
        BY <1>3 DEF StripeStart, IInv, TablesInv, StripeInv
    <2>6. fs \in Seq(Event) /\ Len(fs) >= 2
        BY <2>4 DEF Tells
    <2>7. stripe' = [stripe EXCEPT ![s] = q]
        BY <1>3, <2>1 DEF StripeStart
    <2>8. events' = [events EXCEPT ![s] = @ \o fs]
        BY <1>3, <2>1, <2>3 DEF StripeStart, Send
    <2>9. events[s] \o fs = fs
        BY <2>5, <2>6
    <2>10. events' = [events EXCEPT ![s] = fs]
        BY <2>8, <2>9
    <2>11. Len(fs) >= Len(events[s]) /\ \A i \in 1..Len(events[s]) : fs[i] = events[s][i]
        <3>1. Len(events[s]) = 0
            BY <2>5
        <3> QED
            BY <2>6, <3>1
    <2> QED
        BY <2>2, <2>4, <2>5, <2>6, <2>7, <2>10, <2>11, Zenon DEF Told
<1>4. ASSUME NEW s \in Subscriptions, stripe[s] # None,
             StripeRenew(s) \/ StripeFail(s) \/ StripeSetCancel(s) \/ StripeCancel(s)
      PROVE  Told(s)
    <2>1. /\ stripe[s].status \in Statuses /\ stripe[s].begin \in 0..MaxNow
          /\ stripe[s].cancel \in BOOLEAN
        BY <1>4, RecordFields DEF EventsInv
    <2>2. CASE StripeRenew(s)
        BY <1>1, <1>4, <2>1, <2>2, ChangeIsTold DEF StripeRenew
    <2>3. CASE StripeFail(s)
        BY <1>4, <2>1, <2>3, ChangeIsTold DEF StripeFail
    <2>4. CASE StripeSetCancel(s)
        <3>1. stripe[s].status \in {"active", "past_due", "canceled"}
            BY <2>1 DEF Statuses
        <3> QED
            BY <1>4, <2>1, <2>4, <3>1, ChangeIsTold DEF StripeSetCancel
    <2>5. CASE StripeCancel(s)
        BY <1>4, <2>1, <2>5, ChangeIsTold DEF StripeCancel
    <2> QED
        BY <1>4, <2>2, <2>3, <2>4, <2>5
<1> QED
    BY <1>3, <1>4 DEF Stripe

LEMMA StripeKeepsDeliveries ==
    ASSUME DeliveryInv, Stripe
    PROVE  EventsInv' /\ RowInv' /\ AppliedInv'
<1> USE DEF DeliveryInv
<1>1. UNCHANGED <<rows, history, request, now>>
    BY DEF Stripe, StripeStart, StripeRenew, StripeFail, StripeSetCancel, StripeCancel,
           StripeChange, Send
<1>2. PICK s \in Subscriptions, q \in Record, fs \in Seq(Event) :
          /\ stripe' = [stripe EXCEPT ![s] = q]
          /\ events' = [events EXCEPT ![s] = fs]
          /\ q.since = now /\ Tells(fs, q)
          /\ stripe[s] # None => stripe[s].status # "canceled"
          /\ Len(fs) >= Len(events[s])
          /\ \A i \in 1..Len(events[s]) : fs[i] = events[s][i]
    BY StripeTells DEF Told
<1>3. DOMAIN stripe = Subscriptions /\ DOMAIN events = Subscriptions
    BY DEF IInv, TablesInv, StripeInv
<1>4. /\ stripe'[s] = q /\ events'[s] = fs
      /\ \A t \in Subscriptions \ {s} : stripe'[t] = stripe[t] /\ events'[t] = events[t]
    BY <1>2, <1>3
<1>5. now \in Int /\ now <= now /\ MaxNow \in Nat
    BY EventsTyped
<1>6. ASSUME NEW t \in Subscriptions
      PROVE  /\ events'[t] \in Seq(Event)
             /\ stripe'[t] # None => stripe'[t] \in Record /\ stripe'[t].since <= now
                                        /\ Tells(events'[t], stripe'[t])
    <2>1. CASE t = s
        BY <1>2, <1>4, <1>5, <2>1
    <2>2. CASE t # s
        BY <1>4, <2>2 DEF EventsInv
    <2> QED
        BY <2>1, <2>2
<1>7. EventsInv'
    BY <1>1, <1>6 DEF EventsInv, Tells
<1>8. ASSUME NEW n \in 1..Len(events[s])
      PROVE  events[s][n].type # "deleted"
    <2>1. events[s] # <<>>
        BY EventsTyped
    <2>2. stripe[s] # None
        BY <2>1 DEF IInv, TablesInv, StripeInv
    <2>3. Tells(events[s], stripe[s]) /\ stripe[s].status # "canceled"
        BY <1>2, <2>2 DEF EventsInv
    <2>4. Len(events[s]) \in Nat
        BY EventsTyped
    <2>5. events[s][Len(events[s])].type # "deleted"
        BY <2>3, StatusOfEvents DEF Tells
    <2> QED
        BY <2>3, <2>4, <2>5 DEF Tells
<1>9. ASSUME NEW t \in Subscriptions
      PROVE  /\ events[t] \in Seq(Event) /\ events'[t] \in Seq(Event)
             /\ Len(events[t]) <= Len(events'[t])
             /\ \A n \in 1..Len(events[t]) :
                   /\ events'[t][n] = events[t][n]
                   /\ stripe[t].since \in Int
                   /\ stripe'[t].since = stripe[t].since \/ events[t][n].type # "deleted"
    <2>1. /\ events[t] \in Seq(Event) /\ Len(events[t]) \in Nat
          /\ \A n \in 1..Len(events[t]) : stripe[t].since \in Int
        BY EventsTyped
    <2>2. CASE t = s
        BY <1>2, <1>4, <1>8, <2>1, <2>2
    <2>3. CASE t # s
        BY <1>4, <2>1, <2>3
    <2> QED
        BY <2>2, <2>3
<1>10. RowInv' /\ AppliedInv'
    BY <1>1, <1>5, <1>9, NothingWritten DEF rows
<1> QED
    BY <1>7, <1>10

(* A step of others than the webhook, Stripe and the clock *)
LEMMA OtherKeepsDeliveries ==
    ASSUME DeliveryInv, now' \in 0..MaxNow, now <= now',
           UNCHANGED <<subscription, licenseKey, request, history, stripeVars>>
    PROVE  EventsInv' /\ RowInv' /\ AppliedInv'
<1> USE DEF DeliveryInv
<1>1. MaxNow \in Nat /\ now \in Int
    BY EventsTyped
<1>2. EventsInv'
    BY <1>1, EventsKept
<1>3. now' \in Int
    BY <1>1
<1>4. \A s \in Subscriptions :
              /\ events[s] \in Seq(Event) /\ events'[s] \in Seq(Event)
              /\ Len(events[s]) <= Len(events'[s])
              /\ \A n \in 1..Len(events[s]) :
                    /\ events'[s][n] = events[s][n]
                    /\ stripe[s].since \in Int
                    /\ stripe'[s].since = stripe[s].since \/ events[s][n].type # "deleted"
    BY EventsTyped DEF stripeVars
<1>5. RowInv' /\ AppliedInv'
    BY <1>1, <1>3, <1>4, NothingWritten
<1> QED
    BY <1>2, <1>5

(* A statement of the delivery h for t, which goes on with r, and touches  *)
(* no row but c and no key but that of c. *)
Moves(h, t, c, r) ==
    /\ request' = [request EXCEPT ![h] = r]
    /\ r = Idle \/ (r # Idle /\ r.s = t)
    /\ UNCHANGED <<stripeVars, applied, now>>
    /\ disturbed \subseteq disturbed'
    /\ \A b \in RowIDs : b # c => subscription'[b] = subscription[b]
    /\ c \in RowIDs =>
          /\ subscription'[c] # NoRow /\ subscription'[c].stripe \in {NoId, t}
          /\ \/ subscription[c] = NoRow
             \/ subscription[c].stripe = NoId
             \/ subscription[c].stripe = t /\ subscription'[c].stripe = t
    /\ \A g \in Handlers \ {h} : request[g].sub = c =>
          /\ request[g].op # "stripeID"
          /\ request[g].op = "key" => subscription'[c].stripe = subscription[c].stripe
    /\ \A k \in RowIDs :
          \/ licenseKey'[k] = licenseKey[k]
          \/ /\ licenseKey[k] = NoRow \/ licenseKey[k].subscription = c
             /\ licenseKey'[k] # NoRow /\ licenseKey'[k].subscription = c

LEMMA StripeIds ==
    NoId \notin Subscriptions /\ NoId \notin RowIDs
<1>1. 0 \notin Subscriptions
    BY BillingAssumption, Zenon
<1> QED
    BY <1>1, RowIDsAreFinite DEF NoId

LEMMA RequestsMove ==
    ASSUME DeliveryInv, NEW h \in Handlers, NEW r, request' = [request EXCEPT ![h] = r]
    PROVE  /\ request'[h] = r
           /\ \A g \in Handlers \ {h} : request'[g] = request[g]
BY DEF DeliveryInv, IInv, RequestInv

LEMMA MovesRows ==
    ASSUME DeliveryInv, NEW h \in Handlers, NEW t \in Subscriptions, NEW c, NEW r,
           Moves(h, t, c, r), RowOf(r)'
    PROVE  RowInv'
<1>1. /\ request'[h] = r
      /\ \A g \in Handlers \ {h} : request'[g] = request[g]
    BY RequestsMove DEF Moves
<1>2. ASSUME NEW g \in Handlers
      PROVE  RowOf(request[g])'
    <2>1. CASE g = h
        BY <1>1, <2>1 DEF RowOf
    <2>2. CASE g # h
        <3>1. PICK x : x = request[g]
            OBVIOUS
        <3>2. RowOf(x)
            BY <3>1 DEF DeliveryInv, RowInv, RowOf
        <3>3. x = Idle \/ Holds(x)
            BY <3>1 DEF DeliveryInv, IInv, RequestInv
        <3>4. x.op \in {"stripeID", "key", "status", "cancel", "expiry"} =>
                x.sub \in RowIDs /\ subscription[x.sub] # NoRow
            BY <3>2, <3>3 DEF RowOf, Holds, Making, Idle
        <3>5. /\ \A b \in RowIDs : b # c => subscription'[b] = subscription[b]
              /\ c \in RowIDs =>
                    /\ subscription'[c] # NoRow /\ subscription'[c].stripe \in {NoId, t}
                    /\ \/ subscription[c] = NoRow
                       \/ subscription[c].stripe = NoId
                       \/ subscription[c].stripe = t /\ subscription'[c].stripe = t
              /\ x.sub = c =>
                    /\ x.op # "stripeID"
                    /\ x.op = "key" => subscription'[c].stripe = subscription[c].stripe
            BY <2>2, <3>1 DEF Moves
        <3>6. x.op \in {"status", "cancel", "expiry"} => x.s # NoId
            BY <3>3, StripeIds DEF Holds, Idle
        <3>7. RowOf(x)'
            <4>1. CASE x.sub # c
                BY <3>2, <3>4, <3>5, <4>1 DEF RowOf
            <4>2. CASE x.sub = c
                BY <3>2, <3>4, <3>5, <3>6, <4>2 DEF RowOf
            <4> QED
                BY <4>1, <4>2
        <3>8. request'[g] = x
            BY <1>1, <2>2, <3>1
        <3> QED
            BY <3>7, <3>8 DEF RowOf
    <2> QED
        BY <2>1, <2>2
<1> QED
    BY <1>2 DEF RowInv, RowOf

LEMMA MovesApart ==
    ASSUME DeliveryInv, NEW h \in Handlers, NEW t \in Subscriptions, NEW c, NEW r,
           request[h] # Idle, request[h].s = t, Moves(h, t, c, r),
           NEW s \in Subscriptions, s # t, s \notin disturbed'
    PROVE  Orderly(s)'
<1>1. Orderly(s)
    BY DEF DeliveryInv, AppliedInv, Moves
<1>2. /\ request'[h] = r
      /\ \A g \in Handlers \ {h} : request'[g] = request[g]
    BY RequestsMove DEF Moves
<1>3. \A g \in Handlers : Working(g, s)' <=> Working(g, s)
    BY <1>2 DEF Working, Moves
<1>4. \A g \in Handlers : Working(g, s) => g # h
    BY DEF Working
<1>5. s # NoId
    BY StripeIds
<1>6. c \in RowIDs => c \notin Rows(s) /\ c \notin Rows(s)'
    BY <1>5 DEF Rows, Moves
<1>7. Rows(s)' = Rows(s)
    BY <1>6 DEF Rows, Moves
<1>8. ASSUME NEW b \in RowIDs, b \in Rows(s)
      PROVE  /\ subscription'[b] = subscription[b]
             /\ GetBySubscriptionID(b)' = GetBySubscriptionID(b)
             /\ \A k \in RowIDs : k \in GetBySubscriptionID(b) =>
                    licenseKey'[k] = licenseKey[k]
    <2>1. b # c
        BY <1>6, <1>8
    <2> QED
        BY <2>1 DEF Moves, GetBySubscriptionID
<1>9. Still(s)
    <2>1. /\ applied'[s] = applied[s] /\ now' = now /\ events' = events /\ stripe' = stripe
        BY DEF Moves, stripeVars
    <2>2. /\ now \in Int /\ events[s] \in Seq(Event) /\ Len(events[s]) \in Nat
          /\ \A n \in 1..Len(events[s]) : stripe[s].since \in Int
        BY EventsTyped DEF DeliveryInv
    <2> QED
        BY <1>7, <1>8, <2>1, <2>2 DEF Still
<1>10. ASSUME NEW g \in Handlers, Working(g, s)
       PROVE  /\ request'[g] = request[g]
              /\ request[g].op = "stripeID" =>
                    subscription'[request[g].sub] = subscription[request[g].sub]
    <2>1. g # h
        BY <1>4, <1>10
    <2>2. request[g] = Idle \/ Holds(request[g])
        BY DEF DeliveryInv, IInv, RequestInv
    <2>3. request[g].op = "stripeID" => request[g].sub \in RowIDs /\ request[g].sub # c
        BY <2>1, <2>2 DEF Holds, Making, Idle, Moves
    <2> QED
        BY <1>2, <2>1, <2>3 DEF Moves
<1> QED
    BY <1>1, <1>3, <1>9, <1>10, OrderlyStill

LEMMA MovesOwn ==
    ASSUME DeliveryInv, NEW h \in Handlers, NEW t \in Subscriptions, NEW c, NEW r,
           request[h] # Idle, request[h].s = t, Moves(h, t, c, r),
           t \notin disturbed,
           r # Idle => Stage(t, r)',
           r = Idle => \E b \in RowIDs : Says(t, b, applied[t], "idle")'
    PROVE  Orderly(t)'
<1>1. Orderly(t) /\ Working(h, t)
    BY DEF DeliveryInv, AppliedInv, Working
<1>2. /\ request'[h] = r
      /\ \A g \in Handlers \ {h} : request'[g] = request[g]
    BY RequestsMove DEF Moves
<1>3. /\ applied' = applied /\ events' = events
    BY DEF Moves, stripeVars
<1>4. applied[t] \in 0..Len(events[t]) /\ applied[t] # 0
    <2>1. Stage(t, request[h])
        BY <1>1 DEF Orderly
    <2>2. applied[t] \in 0..Len(events[t])
        BY <1>1 DEF Orderly
    <2> QED
        BY <2>1, <2>2 DEF Stage
<1>5. \A g \in Handlers \ {h} : ~Working(g, t)
    BY <1>1 DEF Orderly
<1>6. \A g \in Handlers \ {h} : ~Working(g, t)'
    BY <1>2, <1>5 DEF Working
<1>7. Working(h, t)' => r # Idle /\ Stage(t, request[h])'
    BY <1>2 DEF Working, Stage, Says, Fresh
<1>8. (\A g \in Handlers : ~Working(g, t))' => r = Idle
    BY <1>2 DEF Working, Moves
<1>9. (applied[t] \in 0..Len(events[t]))' /\ applied'[t] # 0
    BY <1>3, <1>4
<1>10. (\A f, g \in Handlers : Working(f, t) /\ Working(g, t) => f = g)'
    BY <1>6
<1>11. (\A g \in Handlers : Working(g, t) => Stage(t, request[g]))'
    BY <1>6, <1>7
<1>12. (\E b \in RowIDs : Says(t, b, applied[t], "idle"))' \/ r # Idle
    BY <1>3 DEF Says, StatusAfter, Lasts
<1> QED
    BY <1>8, <1>9, <1>10, <1>11, <1>12 DEF Orderly

LEMMA MovesKeep ==
    ASSUME DeliveryInv, NEW h \in Handlers, NEW t \in Subscriptions, NEW c, NEW r,
           request[h] # Idle, request[h].s = t, Moves(h, t, c, r), RowOf(r)',
           t \notin disturbed' /\ r # Idle => Stage(t, r)',
           t \notin disturbed' /\ r = Idle => \E b \in RowIDs : Says(t, b, applied[t], "idle")'
    PROVE  EventsInv' /\ RowInv' /\ AppliedInv'
<1>1. RowInv'
    BY MovesRows
<1>2. EventsInv'
    BY DEF DeliveryInv, EventsInv, Moves, stripeVars
<1>3. disturbed \subseteq disturbed' /\ applied' = applied
    BY DEF Moves
<1>4. t \notin disturbed' => Orderly(t)'
    BY <1>3, MovesOwn
<1>5. \A s \in Subscriptions : s # t /\ s \notin disturbed' => Orderly(s)'
    BY MovesApart
<1>6. AppliedInv'
    BY <1>3, <1>4, <1>5 DEF DeliveryInv, AppliedInv
<1> QED
    BY <1>1, <1>2, <1>6

(* What a delivery in flight is about *)
About(h, t) == request[h] # Idle /\ request[h].s = t /\ Holds(request[h])

(* No two requests hold the row that one of them is making. *)
LEMMA OthersHold ==
    ASSUME DeliveryInv, NEW h \in Handlers, request[h].op \in Making
    PROVE  \A g \in Handlers \ {h} : request[g].op \in Making => request[g].sub # request[h].sub
BY DEF DeliveryInv, IInv, RequestInv

LEMMA StageNow ==
    ASSUME DeliveryInv, NEW h \in Handlers, NEW t \in Subscriptions, About(h, t),
           t \notin disturbed
    PROVE  /\ Stage(t, request[h])
           /\ applied[t] \in 1..Len(events[t])
           /\ stripe[t] \in Record /\ Tells(events[t], stripe[t])
<1>1. Orderly(t) /\ Working(h, t)
    BY DEF About, DeliveryInv, AppliedInv, Working
<1>2. Stage(t, request[h]) /\ applied[t] \in 0..Len(events[t])
    BY <1>1 DEF Orderly
<1>3. Len(events[t]) \in Nat
    BY EventsTyped DEF DeliveryInv
<1>4. applied[t] \in 1..Len(events[t])
    BY <1>2, <1>3 DEF Stage
<1>5. stripe[t] # None
    BY DEF About, Holds, Known
<1> QED
    BY <1>2, <1>4, <1>5 DEF DeliveryInv, EventsInv

(* The tables are left to the other deliveries. *)
LEMMA TablesAlone ==
    ASSUME UNCHANGED <<subscription, licenseKey>>
    PROVE  /\ \A s : Rows(s)' = Rows(s)
           /\ \A b : GetBySubscriptionID(b)' = GetBySubscriptionID(b)
BY DEF Rows, GetBySubscriptionID

(* A statement that says nothing of subscriptions: the delivery goes on    *)
(* with what it is at, or gives up.                                        *)
LEMMA MovesNowhere ==
    ASSUME DeliveryInv, NEW h \in Handlers, NEW t \in Subscriptions, About(h, t), NEW r,
           request' = [request EXCEPT ![h] = r], r = Idle \/ (r # Idle /\ r.s = t),
           UNCHANGED <<subscription, licenseKey, stripeVars, applied, now>>,
           disturbed \subseteq disturbed', RowOf(r),
           t \in disturbed' \/ (r # Idle /\ Stage(t, r))
    PROVE  EventsInv' /\ RowInv' /\ AppliedInv'
<1>1. NoId \notin RowIDs
    BY StripeIds
<1>2. ASSUME NEW g \in Handlers, request[g].sub = NoId
      PROVE  request[g].op \notin {"stripeID", "key"}
    BY <1>1, <1>2 DEF DeliveryInv, IInv, RequestInv, Holds, Making, Idle
<1>3. Moves(h, t, NoId, r)
    BY <1>1, <1>2 DEF Moves
<1>4. RowOf(r)'
    BY DEF RowOf
<1>5. UNCHANGED <<events, stripe, applied, now>>
    BY DEF stripeVars
<1>6. Stage(t, r) => Stage(t, r)'
    BY <1>5, TablesAlone DEF Stage, Says, Fresh, StatusAfter, Lasts
<1> QED
    BY <1>3, <1>4, <1>6, MovesKeep DEF About

LEMMA AccountDelivers ==
    ASSUME DeliveryInv, NEW h \in Handlers, NEW t \in Subscriptions, About(h, t),
           CreateAccount(h) \/ UpdateStripeCustomerID(h), UNCHANGED <<stripeVars, applied, now>>
    PROVE  EventsInv' /\ RowInv' /\ AppliedInv'
<1>1. PICK x : x = request[h]
    OBVIOUS
<1>2. /\ {"op", "s", "event", "sub", "account"} \subseteq DOMAIN x /\ x.s = t
      /\ x.op \in {"account", "customer"}
    BY <1>1 DEF About, Holds, CreateAccount, UpdateStripeCustomerID, At
<1>3. ASSUME Done(h), Disturb(t), UNCHANGED <<subscription, licenseKey>>
      PROVE  EventsInv' /\ RowInv' /\ AppliedInv'
    <2>1. RowOf(Idle) /\ t \in disturbed' /\ disturbed \subseteq disturbed'
        BY <1>3 DEF RowOf, Idle, Disturb
    <2> QED
        BY <1>3, <2>1, MovesNowhere DEF Done
<1>4. ASSUME NEW r, request' = [request EXCEPT ![h] = r],
             r.s = t, r.op \in {"customer", "subscription"}, r.event = x.event,
             DOMAIN r = DOMAIN x,
             UNCHANGED <<subscription, licenseKey, disturbed>>
      PROVE  EventsInv' /\ RowInv' /\ AppliedInv'
    <2>1. r # Idle
        BY <1>2, <1>4 DEF Idle
    <2>2. RowOf(r)
        BY <1>4 DEF RowOf
    <2>3. t \notin disturbed => Stage(t, r)
        BY <1>1, <1>2, <1>4, StageNow DEF Stage
    <2> QED
        BY <1>4, <2>1, <2>2, <2>3, MovesNowhere
<1>5. CASE CreateAccount(h)
    <2>1. CASE GetByEmail(stripe[request[h].s].email) # {}
        BY <1>1, <1>2, <1>3, <1>5, <2>1 DEF CreateAccount
    <2>2. CASE GetByEmail(stripe[request[h].s].email) = {}
        <3>1. PICK r : r = [x EXCEPT !.op = "customer", !.account = NextId(account)]
            OBVIOUS
        <3>2. r.s = t /\ r.op = "customer" /\ r.event = x.event /\ DOMAIN r = DOMAIN x
            BY <1>2, <3>1
        <3>3. request' = [request EXCEPT ![h] = r]
              /\ UNCHANGED <<subscription, licenseKey, disturbed>>
            BY <1>1, <1>5, <2>2, <3>1 DEF CreateAccount, Continue
        <3> QED
            BY <1>4, <3>2, <3>3
    <2> QED
        BY <2>1, <2>2
<1>6. CASE UpdateStripeCustomerID(h)
    <2>1. PICK r : r = [x EXCEPT !.op = "subscription"]
        OBVIOUS
    <2>2. r.s = t /\ r.op = "subscription" /\ r.event = x.event /\ DOMAIN r = DOMAIN x
        BY <1>2, <2>1
    <2>3. request' = [request EXCEPT ![h] = r]
          /\ UNCHANGED <<subscription, licenseKey, disturbed>>
        BY <1>1, <1>6, <2>1 DEF UpdateStripeCustomerID, Proceed, Continue
    <2> QED
        BY <1>4, <2>2, <2>3
<1> QED
    BY <1>5, <1>6

LEMMA SubscriptionDelivers ==
    ASSUME DeliveryInv, NEW h \in Handlers, NEW t \in Subscriptions, About(h, t),
           CreateSubscription(h), UNCHANGED <<stripeVars, applied, now>>
    PROVE  EventsInv' /\ RowInv' /\ AppliedInv'
<1>1. PICK x : x = request[h]
    OBVIOUS
<1>2. /\ {"op", "s", "event", "sub", "account"} \subseteq DOMAIN x /\ x.s = t
      /\ x.op = "subscription"
    BY <1>1 DEF About, Holds, CreateSubscription, At
<1>3. PICK c : c = NextId(subscription)
    OBVIOUS
<1>4. PICK r : r = [x EXCEPT !.op = "stripeID", !.sub = c]
    OBVIOUS
<1>5. /\ r.op = "stripeID" /\ r.sub = c /\ r.s = t /\ r.event = x.event
      /\ DOMAIN r = DOMAIN x
    BY <1>2, <1>4
<1>6. PICK row : row = [account |-> x.account, stripe |-> NoId, status |-> "active",
                        cancel |-> FALSE]
    OBVIOUS
<1>7. row.stripe = NoId /\ row.status = "active" /\ row.cancel = FALSE /\ row # NoRow
    <2>1. "account" \in DOMAIN row
        BY <1>6
    <2> QED
        BY <1>6, <2>1, NoRowHasNoField
<1>8. /\ c \in RowIDs /\ subscription' = Insert(subscription, row)
      /\ request' = [request EXCEPT ![h] = r]
      /\ UNCHANGED <<licenseKey, disturbed>>
    BY <1>1, <1>3, <1>4, <1>6 DEF CreateSubscription, Continue
<1>9. Dense(subscription) /\ NextId(subscription) \in RowIDs
    BY <1>3, <1>8 DEF DeliveryInv, IInv, TablesInv, SubscriptionInv
<1>10. subscription[c] = NoRow
    BY <1>3, <1>9, NextIdIsFree
<1>11. \A b \in RowIDs : subscription'[b] = IF b = c THEN row ELSE subscription[b]
    BY <1>3, <1>7, <1>8, <1>9, InsertKeepsDense
<1>12. \A g \in Handlers : request[g].sub = c => request[g].op \notin {"stripeID", "key"}
    BY <1>10 DEF DeliveryInv, IInv, RequestInv, Holds, Making, Idle
<1>13. Moves(h, t, c, r)
    BY <1>5, <1>7, <1>8, <1>10, <1>11, <1>12 DEF Moves
<1>14. RowOf(r)'
    BY <1>5, <1>7, <1>8, <1>11 DEF RowOf
<1>15. Rows(t)' = Rows(t)
    <2>1. t # NoId
        BY StripeIds
    <2> QED
        BY <1>7, <1>10, <1>11, <2>1 DEF Rows
<1>16. t \notin disturbed => Stage(t, r)'
    <2>1. SUFFICES ASSUME t \notin disturbed PROVE Stage(t, r)'
        OBVIOUS
    <2>2. /\ applied[t] = 1 /\ Rows(t) = {} /\ x.event = events[t][applied[t]]
        BY <1>1, <1>2, <2>1, StageNow DEF Stage
    <2>3. Fresh(r.sub)'
        BY <1>5, <1>7, <1>8, <1>11 DEF Fresh
    <2> QED
        BY <1>5, <1>15, <2>2, <2>3 DEF Stage, stripeVars
<1>17. r # Idle
    BY <1>2, <1>5 DEF Idle
<1> QED
    BY <1>8, <1>13, <1>14, <1>16, <1>17, MovesKeep DEF About

Writes(c, column, v) == subscription' = [subscription EXCEPT ![c][column] = v]

LEMMA ColumnWritten ==
    ASSUME DeliveryInv, NEW c \in RowIDs, subscription[c] # NoRow,
           NEW f \in {"stripe", "status", "cancel"}, NEW v,
           Writes(c, f, v)
    PROVE  /\ \A b \in RowIDs : b # c => subscription'[b] = subscription[b]
           /\ subscription'[c] # NoRow
           /\ f = "stripe" => subscription'[c].stripe = v
           /\ f # "stripe" => subscription'[c].stripe = subscription[c].stripe
           /\ f = "status" => subscription'[c].status = v
           /\ f # "status" => subscription'[c].status = subscription[c].status
           /\ f = "cancel" => subscription'[c].cancel = v
           /\ f # "cancel" => subscription'[c].cancel = subscription[c].cancel
<1>1. /\ DOMAIN subscription = RowIDs
      /\ {"account", "stripe", "status", "cancel"} \subseteq DOMAIN subscription[c]
    BY DEF DeliveryInv, IInv, TablesInv, SubscriptionInv, Dense
<1>2. PICK row : row = [subscription[c] EXCEPT ![f] = v]
    OBVIOUS
<1>3. subscription'[c] = row /\ \A b \in RowIDs : b # c => subscription'[b] = subscription[b]
    BY <1>1, <1>2 DEF Writes
<1>4. DOMAIN row = DOMAIN subscription[c] /\ "account" \in DOMAIN row
    BY <1>1, <1>2
<1>5. row # NoRow
    BY <1>4, NoRowHasNoField
<1> QED
    BY <1>1, <1>2, <1>3, <1>5

LEMMA StripeIDDelivers ==
    ASSUME DeliveryInv, NEW h \in Handlers, NEW t \in Subscriptions, About(h, t),
           UpdateStripeID(h), UNCHANGED <<stripeVars, applied, now>>
    PROVE  EventsInv' /\ RowInv' /\ AppliedInv'
<1>1. PICK x : x = request[h]
    OBVIOUS
<1>2. /\ {"op", "s", "event", "sub", "account"} \subseteq DOMAIN x /\ x.s = t
      /\ x.op = "stripeID"
    BY <1>1 DEF About, Holds, UpdateStripeID, At
<1>3. PICK c : c = x.sub
    OBVIOUS
<1>4. /\ c \in RowIDs /\ subscription[c] # NoRow /\ subscription[c].stripe = NoId
    BY <1>1, <1>2, <1>3 DEF About, Holds, Making, DeliveryInv, RowInv, RowOf
<1>5. PICK r : r = [x EXCEPT !.op = "key"]
    OBVIOUS
<1>6. /\ r.op = "key" /\ r.sub = c /\ r.s = t /\ r.event = x.event
      /\ DOMAIN r = DOMAIN x
    BY <1>2, <1>3, <1>5
<1>7. /\ subscription' = [subscription EXCEPT ![c].stripe = t]
      /\ request' = [request EXCEPT ![h] = r]
      /\ UNCHANGED <<licenseKey, disturbed>>
    BY <1>1, <1>2, <1>3, <1>5 DEF UpdateStripeID, Proceed, Continue
<1>8. /\ \A b \in RowIDs : b # c => subscription'[b] = subscription[b]
      /\ subscription'[c] # NoRow /\ subscription'[c].stripe = t
      /\ subscription'[c].status = subscription[c].status
      /\ subscription'[c].cancel = subscription[c].cancel
    <2>1. Writes(c, "stripe", t)
        BY <1>7 DEF Writes
    <2> QED
        BY <1>4, <2>1, ColumnWritten
<1>9. \A g \in Handlers \ {h} : request[g].op \in Making => request[g].sub # c
    BY <1>1, <1>2, <1>3, OthersHold DEF Making
<1>10. Moves(h, t, c, r)
    <2>1. \A g \in Handlers \ {h} : request[g].sub = c =>
              request[g].op # "stripeID" /\ request[g].op # "key"
        BY <1>9 DEF Making
    <2>2. r # Idle
        BY <1>2, <1>6 DEF Idle
    <2> QED
        BY <1>4, <1>6, <1>7, <1>8, <2>1, <2>2 DEF Moves
<1>11. RowOf(r)'
    BY <1>6, <1>8 DEF RowOf
<1>12. t \notin disturbed => Stage(t, r)'
    <2>1. SUFFICES ASSUME t \notin disturbed PROVE Stage(t, r)'
        OBVIOUS
    <2>2. /\ applied[t] = 1 /\ Rows(t) = {} /\ x.event = events[t][applied[t]] /\ Fresh(c)
        BY <1>1, <1>2, <1>3, <2>1, StageNow DEF Stage
    <2>3. Fresh(r.sub)'
        BY <1>6, <1>8, <2>2 DEF Fresh
    <2>4. Rows(t)' = {c}
        BY <1>4, <1>8, <2>2 DEF Rows
    <2> QED
        BY <1>6, <2>2, <2>3, <2>4 DEF Stage, stripeVars
<1>13. r # Idle
    BY <1>2, <1>6 DEF Idle
<1> QED
    BY <1>7, <1>10, <1>11, <1>12, <1>13, MovesKeep DEF About

LEMMA IdleRow == RowOf(Idle)' /\ Idle.op = "idle"
BY DEF RowOf, Idle

LEMMA KeyDelivers ==
    ASSUME DeliveryInv, NEW h \in Handlers, NEW t \in Subscriptions, About(h, t),
           CreateLicenseKey(h), UNCHANGED <<stripeVars, applied, now>>
    PROVE  EventsInv' /\ RowInv' /\ AppliedInv'
<1>1. PICK x : x = request[h]
    OBVIOUS
<1>2. /\ {"op", "s", "event", "sub", "account"} \subseteq DOMAIN x /\ x.s = t
      /\ x.op = "key"
    BY <1>1 DEF About, Holds, CreateLicenseKey, At
<1>3. PICK c : c = x.sub
    OBVIOUS
<1>4. /\ c \in RowIDs /\ subscription[c] # NoRow /\ subscription[c].stripe \in {NoId, t}
      /\ NoKeyFor(c)
    BY <1>1, <1>2, <1>3 DEF About, Holds, Making, DeliveryInv, RowInv, RowOf
<1>5. PICK k : k = NextId(licenseKey)
    OBVIOUS
<1>6. PICK row : row = [account |-> x.account, subscription |-> c, expires |-> NoTime]
    OBVIOUS
<1>7. row # NoRow /\ row.subscription = c
    <2>1. "account" \in DOMAIN row
        BY <1>6
    <2> QED
        BY <1>6, <2>1, NoRowHasNoField
<1>8. /\ k \in RowIDs /\ licenseKey' = Insert(licenseKey, row)
      /\ request' = [request EXCEPT ![h] = Idle]
      /\ UNCHANGED <<subscription, disturbed>>
    BY <1>1, <1>3, <1>5, <1>6 DEF CreateLicenseKey, Done
<1>9. Dense(licenseKey) /\ NextId(licenseKey) \in RowIDs
    BY <1>5, <1>8 DEF DeliveryInv, IInv, TablesInv, KeyInv
<1>10. licenseKey[k] = NoRow
    BY <1>5, <1>9, NextIdIsFree
<1>11. \A i \in RowIDs : licenseKey'[i] = IF i = k THEN row ELSE licenseKey[i]
    BY <1>5, <1>7, <1>8, <1>9, InsertKeepsDense
<1>12. \A g \in Handlers \ {h} : request[g].op \in Making => request[g].sub # c
    BY <1>1, <1>2, <1>3, OthersHold DEF Making
<1>13. Moves(h, t, c, Idle)
    <2>1. \A g \in Handlers \ {h} : request[g].sub = c =>
              request[g].op # "stripeID" /\ request[g].op # "key"
        BY <1>12 DEF Making
    <2> QED
        BY <1>4, <1>7, <1>8, <1>10, <1>11, <2>1 DEF Moves
<1>14. t \notin disturbed => \E b \in RowIDs : Says(t, b, applied[t], "idle")'
    <2>1. SUFFICES ASSUME t \notin disturbed PROVE Says(t, c, applied[t], "idle")'
        BY <1>4
    <2>2. /\ applied[t] = 1 /\ Rows(t) = {c} /\ Fresh(c)
        BY <1>1, <1>2, <1>3, <2>1, StageNow DEF Stage
    <2>3. events[t][1].cancel = FALSE
        BY <2>1, StageNow DEF Tells
    <2>4. GetBySubscriptionID(c)' = {k}
        BY <1>4, <1>7, <1>8, <1>11 DEF GetBySubscriptionID, NoKeyFor
    <2>5. Rows(t)' = {c} /\ Fresh(c)'
        BY <1>8, <2>2 DEF Rows, Fresh
    <2>6. events' = events /\ applied' = applied
        BY DEF stripeVars
    <2>7. subscription'[c].cancel = events'[t][1].cancel
        BY <2>2, <2>3, <2>5, <2>6 DEF Fresh
    <2>8. Lasts(licenseKey[k].expires, t, 1)'
        BY DEF Lasts
    <2>9. Says(t, c, 1, "idle")'
        BY <1>8, <2>4, <2>5, <2>7, <2>8 DEF Says, StatusAfter, Fresh
    <2> QED
        BY <2>2, <2>9
<1> QED
    BY <1>8, <1>13, <1>14, IdleRow, MovesKeep DEF About

(* An event after the first, and the one before it *)
LEMMA EventBefore ==
    ASSUME DeliveryInv, NEW t \in Subscriptions, stripe[t] # None, NEW n \in 2..Len(events[t])
    PROVE  /\ n \in Nat /\ n - 1 \in Nat
           /\ events[t][n].type \in {"paid", "failed", "updated", "deleted"}
           /\ events[t][n - 1].type # "deleted"
           /\ events[t][n].type # "updated" => events[t][n].cancel = events[t][n - 1].cancel
           /\ events[t][n].type # "paid" => n - 1 >= 2 /\ Begins(events[t][n]) = Begins(events[t][n - 1])
<1>1. PICK es : es = events[t]
    OBVIOUS
<1>2. es \in Seq(Event) /\ Tells(es, stripe[t]) /\ Len(es) \in Nat
    BY <1>1 DEF DeliveryInv, EventsInv
<1>3. n \in Nat /\ n >= 2 /\ n <= Len(es) /\ n - 1 \in Nat
    BY <1>1, <1>2
<1>4. es[n] \in Event
    BY <1>2, <1>3
<1>5. es[n].type \in {"checkout", "paid", "failed", "updated", "deleted"}
    BY <1>4 DEF Event
<1>6. n \in 2..Len(es)
    BY <1>2, <1>3
<1>7. /\ es[n].type # "checkout"
      /\ es[n].type # "updated" => es[n].cancel = es[n - 1].cancel
      /\ es[n].type # "paid" => Begins(es[n]) = Begins(es[n - 1])
    BY <1>2, <1>6 DEF Tells
<1>8. es[n - 1].type # "deleted"
    <2>1. CASE n = 2
        <3>1. es[1].type = "checkout" /\ n - 1 = 1
            BY <1>2, <2>1 DEF Tells
        <3> QED
            BY <3>1
    <2>2. CASE n # 2
        <3>1. n - 1 \in 2..Len(es) /\ n - 1 # Len(es)
            BY <1>2, <1>3, <2>2
        <3> QED
            BY <1>2, <3>1 DEF Tells
    <2> QED
        BY <2>1, <2>2
<1>9. es[n].type # "paid" => n - 1 >= 2
    <2>1. CASE n = 2
        BY <1>2, <2>1 DEF Tells
    <2>2. CASE n # 2
        BY <1>3, <2>2
    <2> QED
        BY <2>1, <2>2
<1> QED
    BY <1>1, <1>3, <1>5, <1>7, <1>8, <1>9

(* An event that is not of payment or cancellation leaves the key be. *)
LEMMA LastsOn ==
    ASSUME DeliveryInv, NEW t \in Subscriptions, stripe[t] # None, NEW n \in 2..Len(events[t]),
           events[t][n].type \in {"failed", "updated"}, NEW time, Lasts(time, t, n - 1)
    PROVE  Lasts(time, t, n)
<1>1. /\ events[t][n - 1].type # "deleted" /\ n - 1 >= 2
      /\ Begins(events[t][n]) = Begins(events[t][n - 1])
    BY EventBefore
<1>2. time = Begins(events[t][n - 1]) + Buffer
    BY <1>1 DEF Lasts
<1> QED
    BY <1>1, <1>2 DEF Lasts

(* The statements of an event after the checkout *)
Later == {"status", "cancel", "expiry"}

(* Such a statement writes but its row or the key of it. *)
OnRow(h, t, c, r) ==
    /\ request' = [request EXCEPT ![h] = r]
    /\ r = Idle \/ (r # Idle /\ r.s = t)
    /\ UNCHANGED <<stripeVars, applied, now, disturbed>>
    /\ \A b \in RowIDs : b # c => subscription'[b] = subscription[b]
    /\ subscription'[c] # NoRow
    /\ subscription'[c].stripe = subscription[c].stripe
    /\ \A k \in RowIDs :
          \/ licenseKey'[k] = licenseKey[k]
          \/ /\ licenseKey[k] # NoRow /\ licenseKey[k].subscription = c
             /\ licenseKey'[k] # NoRow /\ licenseKey'[k].subscription = c

LEMMA MovesRow ==
    ASSUME DeliveryInv, NEW h \in Handlers, NEW t \in Subscriptions, About(h, t),
           request[h].op \in Later, NEW c, c = request[h].sub, NEW r, OnRow(h, t, c, r)
    PROVE  /\ Moves(h, t, c, r) /\ Rows(t)' = Rows(t)
           /\ \A b : GetBySubscriptionID(b)' = GetBySubscriptionID(b)
<1>1. c \in RowIDs /\ subscription[c] # NoRow /\ subscription[c].stripe = t
    BY DEF About, DeliveryInv, RowInv, RowOf, Later
<1>2. t # NoId
    BY StripeIds
<1>3. ASSUME NEW g \in Handlers \ {h}, request[g].sub = c
      PROVE  request[g].op # "stripeID"
    BY <1>1, <1>2, <1>3 DEF DeliveryInv, RowInv, RowOf
<1>4. Moves(h, t, c, r)
    BY <1>1, <1>3 DEF Moves, OnRow
<1>5. Rows(t)' = Rows(t)
    BY <1>1 DEF Rows, OnRow
<1>6. \A b : GetBySubscriptionID(b)' = GetBySubscriptionID(b)
    BY DEF GetBySubscriptionID, OnRow
<1> QED
    BY <1>4, <1>5, <1>6

(* What is known of a delivery of such an event *)
LEMMA LaterStage ==
    ASSUME DeliveryInv, NEW h \in Handlers, NEW t \in Subscriptions, About(h, t),
           request[h].op \in Later, t \notin disturbed, NEW n, n = applied[t]
    PROVE  /\ n \in 2..Len(events[t]) /\ stripe[t] # None
           /\ request[h].event = events[t][n]
           /\ request[h].op # "status" => request[h].op = After(events[t][n])
           /\ Says(t, request[h].sub, n, request[h].op)
<1>1. /\ Stage(t, request[h]) /\ n \in 1..Len(events[t])
      /\ stripe[t] \in Record
    BY StageNow
<1>2. Len(events[t]) \in Nat
    BY EventsTyped DEF DeliveryInv
<1>3. /\ n >= 2 /\ request[h].event = events[t][n]
      /\ request[h].op # "status" => request[h].op = After(events[t][n])
      /\ Says(t, request[h].sub, n, request[h].op)
    BY <1>1 DEF Stage, Later
<1>4. stripe[t] # None
    BY DEF About, Holds, Known
<1> QED
    BY <1>1, <1>2, <1>3, <1>4

LEMMA StatusDelivers ==
    ASSUME DeliveryInv, NEW h \in Handlers, NEW t \in Subscriptions, About(h, t),
           UpdateStatus(h), UNCHANGED <<stripeVars, applied, now>>
    PROVE  EventsInv' /\ RowInv' /\ AppliedInv'
<1>1. PICK x : x = request[h]
    OBVIOUS
<1>2. /\ {"op", "s", "event", "sub", "account"} \subseteq DOMAIN x /\ x.s = t
      /\ x.op = "status"
    BY <1>1 DEF About, Holds, UpdateStatus, At
<1>3. PICK c : c = x.sub
    OBVIOUS
<1>4. c \in RowIDs /\ subscription[c] # NoRow /\ subscription[c].stripe = t
    BY <1>1, <1>2, <1>3 DEF DeliveryInv, RowInv, RowOf
<1>5. PICK v : v = StatusOf(x.event)
    OBVIOUS
<1>6. PICK op : op = After(x.event)
    OBVIOUS
<1>7. PICK r : r = IF op = "idle" THEN Idle ELSE [x EXCEPT !.op = op]
    OBVIOUS
<1>8. /\ subscription' = [subscription EXCEPT ![c].status = v]
      /\ request' = [request EXCEPT ![h] = r]
      /\ UNCHANGED <<licenseKey, disturbed>>
    BY <1>1, <1>3, <1>5, <1>6, <1>7 DEF UpdateStatus, GoOn, Done, Proceed, Continue
<1>9. /\ \A b \in RowIDs : b # c => subscription'[b] = subscription[b]
      /\ subscription'[c] # NoRow /\ subscription'[c].stripe = subscription[c].stripe
      /\ subscription'[c].status = v
      /\ subscription'[c].cancel = subscription[c].cancel
    <2>1. Writes(c, "status", v)
        BY <1>8 DEF Writes
    <2> QED
        BY <1>4, <2>1, ColumnWritten
<1>10. op \in {"expiry", "cancel", "idle"}
    BY <1>6 DEF After
<1>11. op # "idle" => /\ r.op = op /\ r.s = t /\ r.sub = c /\ r.event = x.event
                      /\ r # Idle
    BY <1>2, <1>3, <1>7 DEF Idle
<1>12. /\ Moves(h, t, c, r) /\ Rows(t)' = Rows(t)
       /\ \A b : GetBySubscriptionID(b)' = GetBySubscriptionID(b)
    <2>1. r = Idle \/ (r # Idle /\ r.s = t)
        BY <1>7, <1>11
    <2>2. request[h].op \in Later /\ c = request[h].sub
        BY <1>1, <1>2, <1>3 DEF Later
    <2>3. \A k \in RowIDs :
              \/ licenseKey'[k] = licenseKey[k]
              \/ /\ licenseKey[k] # NoRow /\ licenseKey[k].subscription = c
                 /\ licenseKey'[k] # NoRow /\ licenseKey'[k].subscription = c
        BY <1>8
    <2>4. request' = [request EXCEPT ![h] = r]
        BY <1>8
    <2> QED
        <3>1. OnRow(h, t, c, r)
            BY <1>8, <1>9, <2>1, <2>3, <2>4 DEF OnRow
        <3> QED
            BY <2>2, <3>1, MovesRow
<1>13. RowOf(r)'
    BY <1>4, <1>7, <1>9, <1>10, <1>11, IdleRow DEF RowOf
<1>14. PICK n : n = applied[t]
    OBVIOUS
<1>15. ASSUME t \notin disturbed
       PROVE  /\ Says(t, c, n, op)'
              /\ n \in Nat /\ n >= 2 /\ x.event = events[t][n]
    <2>1. /\ n \in 2..Len(events[t]) /\ stripe[t] # None
          /\ x.event = events[t][n] /\ Says(t, c, n, "status")
        BY <1>1, <1>2, <1>3, <1>14, <1>15, LaterStage DEF Later
    <2>2. n \in Nat /\ n >= 2
        BY <2>1, EventBefore
    <2>3. PICK k \in RowIDs :
              GetBySubscriptionID(c) = {k} /\ Lasts(licenseKey[k].expires, t, n - 1)
        BY <2>1 DEF Says
    <2>4. Rows(t) = {c} /\ subscription[c].cancel = events[t][n - 1].cancel
        BY <2>1 DEF Says
    <2>5. PICK m : m = IF op = "idle" THEN n ELSE n - 1
        OBVIOUS
    <2>6. op = "idle" => events[t][n].type = "failed"
        BY <1>6, <2>1, EventBefore DEF After
    <2>7. subscription[c].cancel = events[t][m].cancel
        BY <2>1, <2>4, <2>5, <2>6, EventBefore
    <2>8. Lasts(licenseKey[k].expires, t, m)
        BY <2>1, <2>3, <2>5, <2>6, LastsOn
    <2>9. subscription'[c].status = StatusAfter(t, n)
        BY <1>5, <1>9, <2>1, <2>2 DEF StatusAfter
    <2>10. UNCHANGED <<events, stripe, now, licenseKey>>
        BY <1>8 DEF stripeVars
    <2>11. /\ Lasts(licenseKey[k].expires, t, m)' /\ StatusAfter(t, n)' = StatusAfter(t, n)
        BY <2>8, <2>10 DEF Lasts, StatusAfter
    <2>12. Says(t, c, n, op)'
        BY <1>9, <1>12, <2>3, <2>4, <2>5, <2>7, <2>9, <2>10, <2>11 DEF Says
    <2> QED
        BY <2>1, <2>2, <2>12
<1>16. t \notin disturbed /\ r # Idle => Stage(t, r)'
    <2>1. r # Idle => op # "idle"
        BY <1>7
    <2>2. applied' = applied /\ events' = events
        BY DEF stripeVars
    <2>3. SUFFICES ASSUME t \notin disturbed, r # Idle PROVE Stage(t, r)'
        OBVIOUS
    <2>4. /\ applied'[t] = n /\ r.sub = c /\ r.op = op /\ r.event = events'[t][n]
          /\ n \in Nat /\ n >= 2
        BY <1>11, <1>14, <1>15, <2>1, <2>2, <2>3
    <2>5. Says(t, r.sub, applied[t], r.op)'
        BY <1>15, <2>3, <2>4 DEF Says, StatusAfter, Lasts
    <2>6. r.op = After(r.event) /\ r.op \in {"expiry", "cancel"}
        BY <1>6, <1>10, <1>11, <2>1, <2>3
    <2>7. applied'[t] >= 1 /\ applied'[t] >= 2 /\ r.event = events'[t][applied'[t]]
        BY <1>14, <1>15, <2>3, <2>4
    <2> QED
        BY <2>5, <2>6, <2>7 DEF Stage
<1>17. t \notin disturbed /\ r = Idle => \E b \in RowIDs : Says(t, b, applied[t], "idle")'
    BY <1>4, <1>11, <1>14, <1>15
<1> QED
    BY <1>1, <1>2, <1>8, <1>12, <1>13, <1>16, <1>17, MovesKeep DEF About

LEMMA CancelDelivers ==
    ASSUME DeliveryInv, NEW h \in Handlers, NEW t \in Subscriptions, About(h, t),
           SetCancelAtPeriodEnd(h), UNCHANGED <<stripeVars, applied, now>>
    PROVE  EventsInv' /\ RowInv' /\ AppliedInv'
<1>1. PICK x : x = request[h]
    OBVIOUS
<1>2. x.s = t /\ x.op = "cancel"
    BY <1>1 DEF About, SetCancelAtPeriodEnd, At
<1>3. PICK c : c = x.sub
    OBVIOUS
<1>4. c \in RowIDs /\ subscription[c] # NoRow /\ subscription[c].stripe = t
    BY <1>1, <1>2, <1>3 DEF DeliveryInv, RowInv, RowOf
<1>5. PICK v : v = x.event.cancel
    OBVIOUS
<1>6. /\ subscription' = [subscription EXCEPT ![c].cancel = v]
      /\ request' = [request EXCEPT ![h] = Idle]
      /\ UNCHANGED <<licenseKey, disturbed>>
    BY <1>1, <1>3, <1>5 DEF SetCancelAtPeriodEnd, Done
<1>7. /\ \A b \in RowIDs : b # c => subscription'[b] = subscription[b]
      /\ subscription'[c] # NoRow /\ subscription'[c].stripe = subscription[c].stripe
      /\ subscription'[c].status = subscription[c].status
      /\ subscription'[c].cancel = v
    <2>1. Writes(c, "cancel", v)
        BY <1>6 DEF Writes
    <2> QED
        BY <1>4, <2>1, ColumnWritten
<1>8. request[h].op \in Later /\ c = request[h].sub
    BY <1>1, <1>2, <1>3 DEF Later
<1>9. /\ Moves(h, t, c, Idle) /\ Rows(t)' = Rows(t)
      /\ \A b : GetBySubscriptionID(b)' = GetBySubscriptionID(b)
    <2>1. \A k \in RowIDs :
              \/ licenseKey'[k] = licenseKey[k]
              \/ /\ licenseKey[k] # NoRow /\ licenseKey[k].subscription = c
                 /\ licenseKey'[k] # NoRow /\ licenseKey'[k].subscription = c
        BY <1>6
    <2>2. OnRow(h, t, c, Idle)
        BY <1>6, <1>7, <2>1 DEF OnRow
    <2> QED
        BY <1>8, <2>2, MovesRow
<1>10. ASSUME t \notin disturbed
       PROVE  Says(t, c, applied[t], "idle")'
    <2>1. PICK n : n = applied[t]
        OBVIOUS
    <2>2. /\ n \in 2..Len(events[t]) /\ stripe[t] # None
          /\ x.event = events[t][n] /\ Says(t, c, n, "cancel")
          /\ After(events[t][n]) = "cancel"
        BY <1>1, <1>2, <1>8, <1>10, <2>1, LaterStage
    <2>3. events[t][n].type = "updated"
        BY <2>2 DEF After
    <2>4. PICK k \in RowIDs :
              GetBySubscriptionID(c) = {k} /\ Lasts(licenseKey[k].expires, t, n - 1)
        BY <2>2 DEF Says
    <2>5. Rows(t) = {c} /\ subscription[c].status = StatusAfter(t, n)
        BY <2>2 DEF Says
    <2>6. Lasts(licenseKey[k].expires, t, n)
        BY <2>2, <2>3, <2>4, LastsOn
    <2>7. UNCHANGED <<events, stripe, now, licenseKey, applied>>
        BY <1>6 DEF stripeVars
    <2>8. Lasts(licenseKey[k].expires, t, n)' /\ StatusAfter(t, n)' = StatusAfter(t, n)
        BY <2>6, <2>7 DEF Lasts, StatusAfter
    <2>9. Says(t, c, n, "idle")'
        BY <1>5, <1>7, <1>9, <2>2, <2>4, <2>5, <2>7, <2>8 DEF Says
    <2> QED
        BY <2>1, <2>7, <2>9 DEF Says, StatusAfter, Lasts
<1> QED
    BY <1>4, <1>6, <1>9, <1>10, IdleRow, MovesKeep DEF About

(* The key of a row *)
LEMMA OneKey ==
    ASSUME DeliveryInv, NEW b, NEW k \in GetBySubscriptionID(b)
    PROVE  /\ GetBySubscriptionID(b) = {k} /\ Max(GetBySubscriptionID(b)) = k
           /\ k \in RowIDs /\ licenseKey[k] # NoRow /\ licenseKey[k].subscription = b
<1>1. k \in RowIDs /\ licenseKey[k] # NoRow /\ licenseKey[k].subscription = b
    BY DEF GetBySubscriptionID
<1>2. \A l \in GetBySubscriptionID(b) : l = k
    BY <1>1 DEF GetBySubscriptionID, DeliveryInv, IInv, TablesInv, KeyInv
<1>3. GetBySubscriptionID(b) = {k}
    BY <1>2
<1>4. k >= k
    BY <1>1, RowIDsAreFinite
<1>5. Max({k}) = k
    BY <1>4 DEF Max
<1> QED
    BY <1>1, <1>3, <1>5

LEMMA ExpiryWritten ==
    ASSUME DeliveryInv, NEW k \in RowIDs, licenseKey[k] # NoRow, NEW v,
           licenseKey' = [licenseKey EXCEPT ![k].expires = v]
    PROVE  /\ \A l \in RowIDs : l # k => licenseKey'[l] = licenseKey[l]
           /\ licenseKey'[k] # NoRow /\ licenseKey'[k].expires = v
           /\ licenseKey'[k].subscription = licenseKey[k].subscription
<1>1. /\ DOMAIN licenseKey = RowIDs
      /\ {"account", "subscription", "expires"} \subseteq DOMAIN licenseKey[k]
    BY DEF DeliveryInv, IInv, TablesInv, KeyInv, Dense
<1>2. PICK row : row = [licenseKey[k] EXCEPT !.expires = v]
    OBVIOUS
<1>3. licenseKey'[k] = row /\ \A l \in RowIDs : l # k => licenseKey'[l] = licenseKey[l]
    BY <1>1, <1>2
<1>4. DOMAIN row = DOMAIN licenseKey[k] /\ "account" \in DOMAIN row
    BY <1>1, <1>2
<1>5. row # NoRow
    BY <1>4, NoRowHasNoField
<1> QED
    BY <1>1, <1>2, <1>3, <1>5

(* What a payment or a cancellation makes of the key *)
LEMMA ExpiryLasts ==
    ASSUME DeliveryInv, NEW t \in Subscriptions, stripe[t] # None,
           NEW n \in 2..Len(events[t]), events[t][n].type \in {"paid", "deleted"}
    PROVE  Lasts(Expiry(events[t][n]), t, n)
<1>1. PICK e : e = events[t][n]
    OBVIOUS
<1>2. /\ now \in Int /\ Buffer \in Int /\ stripe[t] \in Record /\ stripe[t].since <= now
      /\ MaxNow \in Nat
    BY EventsTyped, RowIDsAreFinite DEF DeliveryInv, EventsInv
<1>3. stripe[t].since \in Int
    <2>1. stripe[t].since \in 0..MaxNow
        BY <1>2, RecordFields
    <2> QED
        BY <1>2, <2>1
<1>4. now + Buffer \in (stripe[t].since + Buffer)..(now + Buffer)
    BY <1>2, <1>3
<1>5. CASE e.type = "paid"
    BY <1>1, <1>5 DEF Lasts, Expiry, Begins
<1>6. CASE e.type = "deleted" /\ e.cancel
    BY <1>1, <1>6 DEF Lasts, Expiry
<1>7. CASE e.type = "deleted" /\ ~e.cancel
    BY <1>1, <1>4, <1>7 DEF Lasts, Expiry
<1> QED
    BY <1>1, <1>5, <1>6, <1>7

LEMMA ExpiryDelivers ==
    ASSUME DeliveryInv, NEW h \in Handlers, NEW t \in Subscriptions, About(h, t),
           UpdateExpiry(h), UNCHANGED <<stripeVars, applied, now>>
    PROVE  EventsInv' /\ RowInv' /\ AppliedInv'
<1>1. PICK x : x = request[h]
    OBVIOUS
<1>2. x.s = t /\ x.op = "expiry"
    BY <1>1 DEF About, UpdateExpiry, At
<1>3. PICK c : c = x.sub
    OBVIOUS
<1>4. c \in RowIDs /\ subscription[c] # NoRow /\ subscription[c].stripe = t
    BY <1>1, <1>2, <1>3 DEF DeliveryInv, RowInv, RowOf
<1>5. PICK v : v = Expiry(x.event)
    OBVIOUS
<1>6. PICK keys : keys = GetBySubscriptionID(c)
    OBVIOUS
<1>7. /\ licenseKey' = IF keys = {} THEN licenseKey
                       ELSE [licenseKey EXCEPT ![Max(keys)].expires = v]
      /\ request' = [request EXCEPT ![h] = Idle]
      /\ UNCHANGED <<subscription, disturbed>>
    BY <1>1, <1>3, <1>5, <1>6 DEF UpdateExpiry, Done
<1>8. ASSUME NEW k \in keys
      PROVE  /\ keys = {k} /\ k \in RowIDs
             /\ licenseKey[k] # NoRow /\ licenseKey[k].subscription = c
             /\ \A l \in RowIDs : l # k => licenseKey'[l] = licenseKey[l]
             /\ licenseKey'[k] # NoRow /\ licenseKey'[k].expires = v
             /\ licenseKey'[k].subscription = c
    <2>1. /\ keys = {k} /\ Max(keys) = k /\ k \in RowIDs
          /\ licenseKey[k] # NoRow /\ licenseKey[k].subscription = c
        BY <1>6, <1>8, OneKey
    <2>2. licenseKey' = [licenseKey EXCEPT ![k].expires = v]
        BY <1>7, <1>8, <2>1
    <2> QED
        BY <2>1, <2>2, ExpiryWritten
<1>9. \A k \in RowIDs :
          \/ licenseKey'[k] = licenseKey[k]
          \/ /\ licenseKey[k] # NoRow /\ licenseKey[k].subscription = c
             /\ licenseKey'[k] # NoRow /\ licenseKey'[k].subscription = c
    <2>1. CASE keys = {}
        BY <1>7, <2>1
    <2>2. CASE keys # {}
        BY <1>8, <2>2
    <2> QED
        BY <2>1, <2>2
<1>10. request[h].op \in Later /\ c = request[h].sub
    BY <1>1, <1>2, <1>3 DEF Later
<1>11. /\ Moves(h, t, c, Idle) /\ Rows(t)' = Rows(t)
       /\ \A b : GetBySubscriptionID(b)' = GetBySubscriptionID(b)
    <2>1. /\ subscription'[c] # NoRow /\ subscription'[c].stripe = subscription[c].stripe
          /\ \A b \in RowIDs : b # c => subscription'[b] = subscription[b]
        BY <1>4, <1>7
    <2>2. OnRow(h, t, c, Idle)
        BY <1>7, <1>9, <2>1 DEF OnRow
    <2> QED
        BY <1>10, <2>2, MovesRow
<1>12. ASSUME t \notin disturbed
       PROVE  Says(t, c, applied[t], "idle")'
    <2>1. PICK n : n = applied[t]
        OBVIOUS
    <2>2. /\ n \in 2..Len(events[t]) /\ stripe[t] # None
          /\ x.event = events[t][n] /\ Says(t, c, n, "expiry")
          /\ After(events[t][n]) = "expiry"
        BY <1>1, <1>2, <1>10, <1>12, <2>1, LaterStage
    <2>3. events[t][n].type \in {"paid", "deleted"}
        BY <2>2 DEF After
    <2>4. PICK k \in RowIDs : keys = {k}
        BY <1>6, <2>2 DEF Says
    <2>5. /\ Rows(t) = {c} /\ subscription[c].status = StatusAfter(t, n)
          /\ subscription[c].cancel = events[t][n - 1].cancel
        BY <2>2 DEF Says
    <2>6. subscription[c].cancel = events[t][n].cancel
        <3>1. events[t][n].type # "updated"
            BY <2>3
        <3> QED
            BY <2>2, <2>5, <3>1, EventBefore
    <2>7. licenseKey'[k].expires = v /\ Lasts(v, t, n)
        BY <1>5, <1>8, <2>2, <2>3, <2>4, ExpiryLasts
    <2>8. UNCHANGED <<events, stripe, now, applied, subscription>>
        BY <1>7 DEF stripeVars
    <2>9. Lasts(licenseKey[k].expires, t, n)' /\ StatusAfter(t, n)' = StatusAfter(t, n)
        BY <2>7, <2>8 DEF Lasts, StatusAfter
    <2>10. GetBySubscriptionID(c)' = {k}
        BY <1>6, <1>11, <2>4
    <2>11. Says(t, c, n, "idle")'
        BY <1>11, <2>5, <2>6, <2>8, <2>9, <2>10 DEF Says
    <2> QED
        BY <2>1, <2>8, <2>11 DEF Says, StatusAfter, Lasts
<1> QED
    BY <1>4, <1>7, <1>11, <1>12, IdleRow, MovesKeep DEF About

LEMMA FailureDelivers ==
    ASSUME DeliveryInv, NEW h \in Handlers, NEW t \in Subscriptions, About(h, t),
           StatementFails(h) \/ WebhookDies(h), UNCHANGED <<stripeVars, applied, now>>
    PROVE  EventsInv' /\ RowInv' /\ AppliedInv'
<1>1. PICK x : x = request[h]
    OBVIOUS
<1>2. {"op", "s", "event", "sub", "account"} \subseteq DOMAIN x /\ x.s = t
    BY <1>1 DEF About, Holds
<1>3. /\ t \in disturbed' /\ disturbed \subseteq disturbed'
      /\ UNCHANGED <<subscription, licenseKey>>
    BY <1>1, <1>2 DEF StatementFails, WebhookDies, Disturb, rows
<1>4. ASSUME Done(h)
      PROVE  EventsInv' /\ RowInv' /\ AppliedInv'
    BY <1>3, <1>4, MovesNowhere DEF Done, RowOf, Idle
<1>5. ASSUME NEW op, Proceed(h, op), RowOf([x EXCEPT !.op = op])
      PROVE  EventsInv' /\ RowInv' /\ AppliedInv'
    <2>1. PICK r : r = [x EXCEPT !.op = op]
        OBVIOUS
    <2>2. r.s = t /\ DOMAIN r = DOMAIN x
        BY <1>2, <2>1
    <2>3. r # Idle
        BY <1>2, <2>2 DEF Idle
    <2>4. request' = [request EXCEPT ![h] = r] /\ RowOf(r)
        BY <1>1, <1>5, <2>1 DEF Proceed, Continue
    <2> QED
        BY <1>3, <2>2, <2>3, <2>4, MovesNowhere
<1>6. RowOf(x)
    BY <1>1 DEF DeliveryInv, RowInv, RowOf
<1>7. ASSUME NEW op
      PROVE  LET r == [x EXCEPT !.op = op]
             IN  r.op = op /\ r.s = x.s /\ r.sub = x.sub
    BY <1>2
<1>8. ASSUME GoOn(h), x.op = "status"
      PROVE  EventsInv' /\ RowInv' /\ AppliedInv'
    <2>1. CASE After(x.event) = "idle"
        BY <1>1, <1>4, <1>8, <2>1 DEF GoOn
    <2>2. CASE After(x.event) # "idle"
        <3>1. After(x.event) \in {"expiry", "cancel"}
            BY <2>2 DEF After
        <3>2. RowOf([x EXCEPT !.op = After(x.event)])
            BY <1>6, <1>7, <1>8, <3>1 DEF RowOf
        <3> QED
            BY <1>1, <1>5, <1>8, <2>2, <3>2 DEF GoOn
    <2> QED
        BY <2>1, <2>2
<1>9. ASSUME Proceed(h, "subscription")
      PROVE  EventsInv' /\ RowInv' /\ AppliedInv'
    BY <1>5, <1>7, <1>9 DEF RowOf
<1>10. ASSUME Proceed(h, "key"), x.op = "stripeID"
       PROVE  EventsInv' /\ RowInv' /\ AppliedInv'
    <2>1. RowOf([x EXCEPT !.op = "key"])
        BY <1>6, <1>7, <1>10 DEF RowOf
    <2> QED
        BY <1>5, <1>10, <2>1
<1> QED
    BY <1>1, <1>4, <1>8, <1>9, <1>10 DEF StatementFails, WebhookDies, Abandon

(* An event arrives. *)
LEMMA Arrives ==
    ASSUME DeliveryInv, NEW h \in Handlers, NEW s \in Subscriptions, NEW i \in DOMAIN events[s],
           NEW r, request[h] = Idle, request' = [request EXCEPT ![h] = r],
           r # Idle, r.s = s, r.event = events[s][i],
           UNCHANGED <<subscription, licenseKey, stripe, events, now>>,
           Note(s, i), RowOf(r),
           s \notin disturbed /\ InOrder(s, i) =>
              \/ r.op \in {"account", "customer"} /\ i = 1 /\ Rows(s) = {}
              \/ r.op = "status" /\ i >= 2 /\ Says(s, r.sub, i, "status")
    PROVE  EventsInv' /\ RowInv' /\ AppliedInv'
<1> USE DEF DeliveryInv
<1>1. EventsInv'
    BY DEF EventsInv
<1>2. /\ request'[h] = r
      /\ \A g \in Handlers \ {h} : request'[g] = request[g]
    BY RequestsMove
<1>3. RowOf(r)'
    BY DEF RowOf
<1>4. RowInv'
    <2>1. ASSUME NEW g \in Handlers
          PROVE  RowOf(request[g])'
        <3>1. CASE g = h
            BY <1>2, <1>3, <3>1 DEF RowOf
        <3>2. CASE g # h
            BY <1>2, <3>2 DEF RowInv, RowOf
        <3> QED
            BY <3>1, <3>2
    <2> QED
        BY <2>1 DEF RowInv, RowOf
<1>5. /\ DOMAIN applied = Subscriptions /\ DOMAIN applied' = Subscriptions
      /\ \A t \in Subscriptions : t # s => applied'[t] = applied[t]
      /\ InOrder(s, i) => applied'[s] = i /\ disturbed' = disturbed
      /\ ~InOrder(s, i) => s \in disturbed'
      /\ disturbed \subseteq disturbed'
    BY DEF Note, AppliedInv
<1>6. Len(events[s]) \in Nat /\ i \in 1..Len(events[s]) /\ i \in Nat
    BY EventsTyped
<1>7. ASSUME NEW t \in Subscriptions, t # s, t \notin disturbed'
      PROVE  Orderly(t)'
    <2>1. Orderly(t)
        BY <1>5, <1>7 DEF AppliedInv
    <2>2. \A g \in Handlers : Working(g, t)' <=> Working(g, t)
        BY <1>2, <1>7 DEF Working
    <2>3. Still(t)
        <3>1. /\ now \in Int /\ events[t] \in Seq(Event) /\ Len(events[t]) \in Nat
              /\ \A n \in 1..Len(events[t]) : stripe[t].since \in Int
            BY EventsTyped
        <3> QED
            BY <1>5, <1>7, <3>1, TablesAlone DEF Still
    <2>4. \A g \in Handlers : Working(g, t) => request'[g] = request[g]
        BY <1>2, <1>7 DEF Working
    <2> QED
        BY <2>1, <2>2, <2>3, <2>4, OrderlyStill
<1>8. ASSUME s \notin disturbed'
      PROVE  Orderly(s)'
    <2>1. InOrder(s, i) /\ s \notin disturbed /\ applied'[s] = i
        BY <1>5, <1>8
    <2>2. \A g \in Handlers : ~Working(g, s)
        BY <2>1, InFlightWorks DEF InOrder, IInv
    <2>3. \A g \in Handlers \ {h} : ~Working(g, s)'
        BY <1>2, <2>2 DEF Working
    <2>4. Working(h, s)'
        BY <1>2 DEF Working
    <2>5. Rows(s)' = Rows(s) /\ r.event = events'[s][i]
        BY TablesAlone
    <2>6. Says(s, r.sub, i, "status") => Says(s, r.sub, i, "status")'
        BY <2>5, TablesAlone DEF Says, StatusAfter, Lasts
    <2>7. Stage(s, r)'
        <3>1. CASE r.op \in {"account", "customer"} /\ i = 1 /\ Rows(s) = {}
            BY <2>1, <2>5, <3>1 DEF Stage
        <3>2. CASE r.op = "status" /\ i >= 2 /\ Says(s, r.sub, i, "status")
            <4>1. Says(s, r.sub, applied[s], r.op)'
                BY <2>1, <2>6, <3>2 DEF Says, StatusAfter, Lasts
            <4>2. applied'[s] >= 1 /\ applied'[s] >= 2 /\ r.event = events'[s][applied'[s]]
                BY <1>6, <2>1, <2>5, <3>2
            <4> QED
                BY <3>2, <4>1, <4>2 DEF Stage
        <3> QED
            BY <2>1, <3>1, <3>2
    <2>8. Stage(s, request[h])'
        BY <1>2, <2>7 DEF Stage, Says, Fresh
    <2>9. (applied[s] \in 0..Len(events[s]))'
        BY <1>6, <2>1
    <2> QED
        BY <2>3, <2>4, <2>8, <2>9 DEF Orderly
<1>9. AppliedInv'
    BY <1>5, <1>7, <1>8 DEF AppliedInv
<1> QED
    BY <1>1, <1>4, <1>9

LEMMA ArrivalDelivers ==
    ASSUME DeliveryInv, NEW h \in Handlers, NEW s \in Subscriptions, NEW i \in DOMAIN events[s],
           HandleStripeWebhook(h, s, i)
    PROVE  EventsInv' /\ RowInv' /\ AppliedInv'
<1> USE DEF DeliveryInv
<1>1. UNCHANGED <<rows, stripeVars, now, subscription, licenseKey, stripe, events>>
    BY DEF HandleStripeWebhook, CheckoutCompleted, SubscriptionEvent, rows, stripeVars
<1>2. /\ events[s] \in Seq(Event) /\ Len(events[s]) \in Nat /\ i \in 1..Len(events[s])
    BY EventsTyped
<1>3. stripe[s] # None /\ Tells(events[s], stripe[s])
    <2>1. events[s] # <<>>
        BY <1>2
    <2>2. stripe[s] # None
        BY <2>1 DEF IInv, TablesInv, StripeInv
    <2> QED
        BY <2>2 DEF EventsInv
<1>4. events[s][i].type = "checkout" <=> i = 1
    BY <1>2, <1>3 DEF Tells
<1>5. ASSUME s \notin disturbed, InOrder(s, i)
      PROVE  /\ i = applied[s] + 1 /\ applied[s] \in Nat
             /\ applied[s] = 0 => Rows(s) = {}
             /\ applied[s] # 0 => \E b \in RowIDs : Says(s, b, applied[s], "idle")
    <2>1. Orderly(s)
        BY <1>5 DEF AppliedInv
    <2>2. \A g \in Handlers : ~Working(g, s)
        BY <1>5, InFlightWorks DEF InOrder, IInv
    <2> QED
        BY <1>2, <1>5, <2>1, <2>2 DEF Orderly, InOrder
<1>6. CASE CheckoutCompleted(h, s, i)
    <2>1. PICK op, a :
              /\ op = IF GetByEmail(stripe[s].email) # {} THEN "customer" ELSE "account"
              /\ a = IF GetByEmail(stripe[s].email) # {}
                     THEN CHOOSE z \in GetByEmail(stripe[s].email) : TRUE ELSE NoId
        OBVIOUS
    <2>2. PICK r : r = [op |-> op, s |-> s, event |-> events[s][i], sub |-> NoId,
                        account |-> a]
        OBVIOUS
    <2>3. request[h] = Idle /\ request' = [request EXCEPT ![h] = r] /\ Note(s, i)
        BY <1>6, <2>1, <2>2 DEF CheckoutCompleted, Begin
    <2>4. /\ "s" \in DOMAIN r /\ r.op = op /\ r.s = s /\ r.event = events[s][i]
          /\ op \in {"account", "customer"}
        BY <2>1, <2>2
    <2>5. r # Idle /\ RowOf(r)
        BY <2>4 DEF Idle, RowOf
    <2>6. i = 1
        BY <1>4, <1>6 DEF CheckoutCompleted
    <2>7. s \notin disturbed /\ InOrder(s, i) => i = 1 /\ Rows(s) = {}
        BY <1>5, <2>6
    <2> QED
        BY <1>1, <2>3, <2>4, <2>5, <2>7, Arrives
<1>7. CASE SubscriptionEvent(h, s, i) /\ GetByStripeID(s) = NoId
    <2>1. Disturb(s) /\ UNCHANGED <<applied, request>>
        BY <1>7 DEF SubscriptionEvent
    <2>2. EventsInv' /\ RowInv'
        BY <1>1, <2>1 DEF EventsInv, RowInv, RowOf
    <2>3. ASSUME NEW t \in Subscriptions, t \notin disturbed'
          PROVE  Orderly(t)'
        <3>1. Orderly(t)
            BY <2>1, <2>3 DEF AppliedInv, Disturb
        <3>2. \A g \in Handlers : Working(g, t)' <=> Working(g, t)
            BY <2>1 DEF Working
        <3>3. Still(t)
            <4>1. /\ now \in Int /\ events[t] \in Seq(Event) /\ Len(events[t]) \in Nat
                  /\ \A n \in 1..Len(events[t]) : stripe[t].since \in Int
                BY EventsTyped
            <4> QED
                BY <1>1, <2>1, <4>1, TablesAlone DEF Still
        <3> QED
            BY <1>1, <2>1, <3>1, <3>2, <3>3, OrderlyStill
    <2> QED
        BY <2>1, <2>2, <2>3 DEF AppliedInv
<1>8. CASE SubscriptionEvent(h, s, i) /\ GetByStripeID(s) # NoId
    <2>1. PICK b : b = GetByStripeID(s)
        OBVIOUS
    <2>2. PICK r : r = [op |-> "status", s |-> s, event |-> events[s][i], sub |-> b,
                        account |-> subscription[b].account]
        OBVIOUS
    <2>3. request[h] = Idle /\ request' = [request EXCEPT ![h] = r] /\ Note(s, i)
        BY <1>8, <2>1, <2>2 DEF SubscriptionEvent, Begin
    <2>4. /\ "s" \in DOMAIN r /\ r.op = "status" /\ r.s = s /\ r.event = events[s][i]
          /\ r.sub = b
        BY <2>2
    <2>5. b \in Rows(s)
        BY <1>8, <2>1, FirstRow
    <2>6. r # Idle /\ RowOf(r)
        BY <2>4, <2>5 DEF Idle, RowOf, Rows
    <2>7. i # 1
        BY <1>4, <1>8 DEF SubscriptionEvent
    <2>8. s \notin disturbed /\ InOrder(s, i) => i >= 2 /\ Says(s, b, i, "status")
        <3>1. SUFFICES ASSUME s \notin disturbed, InOrder(s, i)
              PROVE  i >= 2 /\ Says(s, b, i, "status")
            OBVIOUS
        <3>2. i \in Nat /\ i >= 2 /\ i - 1 = applied[s]
            BY <1>2, <1>5, <2>7, <3>1
        <3>3. PICK d \in RowIDs : Says(s, d, applied[s], "idle")
            BY <1>5, <3>1, <3>2
        <3>4. d = b
            BY <2>5, <3>3 DEF Says
        <3> QED
            BY <3>2, <3>3, <3>4 DEF Says
    <2> QED
        BY <1>1, <2>3, <2>4, <2>6, <2>8, Arrives
<1> QED
    BY <1>6, <1>7, <1>8 DEF HandleStripeWebhook

-----------------------------------------------------------------------------
LEMMA DeliveriesKeep ==
    ASSUME DeliveryInv, [BillingNext]_vars
    PROVE  DeliveryInv'
<1>1. IInv'
    BY NextKeeps DEF DeliveryInv
<1>2. CASE Stripe
    BY <1>1, <1>2, StripeKeepsDeliveries DEF DeliveryInv
<1>3. CASE Webhook
    <2>1. ASSUME NEW h \in Handlers, WebhookStep(h)
          PROVE  EventsInv' /\ RowInv' /\ AppliedInv'
        <3>1. request[h] # Idle /\ Holds(request[h])
            BY <2>1 DEF WebhookStep, DeliveryInv, IInv, RequestInv, Idle
        <3>2. PICK t \in Subscriptions : t = request[h].s
            BY <3>1 DEF Holds
        <3>3. About(h, t)
            BY <3>1, <3>2 DEF About
        <3>4. UNCHANGED <<stripeVars, applied, now>>
            BY <2>1 DEF WebhookStep
        <3> QED
            BY <2>1, <3>3, <3>4, AccountDelivers, SubscriptionDelivers, StripeIDDelivers,
               KeyDelivers, StatusDelivers, CancelDelivers, ExpiryDelivers, FailureDelivers
               DEF WebhookStep
    <2> QED
        BY <1>1, <1>3, <2>1, ArrivalDelivers DEF Webhook, DeliveryInv
<1>4. CASE People \/ CleanupTick \/ Time \/ UNCHANGED vars
    <2>1. UNCHANGED <<subscription, licenseKey, request, history, stripeVars>>
        BY <1>4 DEF People, Validate, Login, Logout, CreateCheckoutSession, CleanupTick, Time,
                    vars, billingVars, rows, history, stripeVars
    <2>2. now \in 0..MaxNow /\ MaxNow \in Nat
        BY EventsTyped DEF DeliveryInv, EventsInv
    <2>3. now' = now \/ (now < MaxNow /\ now' = now + 1)
        BY <1>4 DEF People, Validate, Login, Logout, CreateCheckoutSession, CleanupTick, Time,
                    vars
    <2>4. now' \in 0..MaxNow /\ now <= now'
        BY <2>2, <2>3
    <2> QED
        BY <1>1, <2>1, <2>4, OtherKeepsDeliveries DEF DeliveryInv
<1> QED
    BY <1>2, <1>3, <1>4 DEF BillingNext

LEMMA DeliveriesStart ==
    ASSUME BillingInit
    PROVE  DeliveryInv
<1>1. IInv
    BY InitHolds
<1>2. MaxNow \in Nat
    BY RateLimiterAssumption, Zenon
<1>3. EventsInv
    BY <1>2 DEF BillingInit, RateLimiterInit, EventsInv
<1>4. RowInv
    BY DEF BillingInit, RequestsInit, RowInv, RowOf, Idle
<1>5. AppliedInv
    <2>1. \A s \in Subscriptions : events[s] = <<>> /\ applied[s] = 0 /\ Rows(s) = {}
        BY DEF BillingInit, Rows
    <2>2. \A s \in Subscriptions, h \in Handlers : ~Working(h, s)
        BY DEF BillingInit, RequestsInit, Working
    <2> QED
        BY <2>1, <2>2 DEF AppliedInv, Orderly, BillingInit
<1> QED
    BY <1>1, <1>3, <1>4, <1>5 DEF DeliveryInv

LEMMA SettledIsApplied ==
    ASSUME DeliveryInv
    PROVE  EventsAreApplied
<1> USE DEF DeliveryInv
<1>1. SUFFICES ASSUME NEW s \in Subscriptions, Settled(s), NEW b, b = GetByStripeID(s),
                      NEW r, r = stripe[s]
      PROVE  /\ b # NoId
             /\ subscription[b].status = r.status
             /\ r.status # "canceled" => subscription[b].cancel = r.cancel
             /\ \E k \in RowIDs :
                 /\ GetBySubscriptionID(b) = {k}
                 /\ IF r.status # "canceled" THEN licenseKey[k].expires = r.begin + Buffer
                    ELSE IF r.cancel THEN licenseKey[k].expires = r.end
                    ELSE licenseKey[k].expires \in (r.since + Buffer)..(now + Buffer)
    BY DEF EventsAreApplied
<1>2. PICK es : es = events[s]
    OBVIOUS
<1>3. PICK n : n = Len(es)
    OBVIOUS
<1>4. Tells(es, r) /\ n \in Nat /\ n >= 2 /\ applied[s] = n
    BY <1>1, <1>2, <1>3 DEF Settled, EventsInv, Tells
<1>5. PICK c \in RowIDs : Says(s, c, n, "idle")
    <2>1. Orderly(s)
        BY <1>1 DEF Settled, AppliedInv
    <2>2. \A g \in Handlers : ~Working(g, s)
        BY <1>1, InFlightWorks DEF Settled, IInv
    <2> QED
        BY <1>4, <2>1, <2>2 DEF Orderly
<1>6. b = c /\ b # NoId
    BY <1>1, <1>5, FirstRow DEF Says
<1>7. es[n].cancel = r.cancel /\ Begins(es[n]) = r.begin /\ StatusOf(es[n]) = r.status
    BY <1>3, <1>4 DEF Tells
<1>8. es[n].type = "deleted" <=> r.status = "canceled"
    <2>1. n \in 2..Len(es) /\ es[n] \in Event
        BY <1>3, <1>4 DEF Tells
    <2>2. es[n].type \in {"paid", "failed", "updated", "deleted"}
          /\ (es[n].type = "updated" => es[n].status # "canceled")
        BY <1>4, <2>1 DEF Tells, Event
    <2> QED
        BY <1>7, <2>2, StatusOfEvents
<1>9. subscription[b].status = r.status /\ subscription[b].cancel = r.cancel
    BY <1>2, <1>4, <1>5, <1>6, <1>7 DEF Says, StatusAfter
<1>10. PICK k \in RowIDs : GetBySubscriptionID(b) = {k} /\ Lasts(licenseKey[k].expires, s, n)
    BY <1>5, <1>6 DEF Says
<1>11. IF r.status # "canceled" THEN licenseKey[k].expires = r.begin + Buffer
       ELSE IF r.cancel THEN licenseKey[k].expires = r.end
       ELSE licenseKey[k].expires \in (r.since + Buffer)..(now + Buffer)
    <2>1. CASE r.status # "canceled"
        BY <1>2, <1>4, <1>7, <1>8, <1>10, <2>1 DEF Lasts
    <2>2. CASE r.status = "canceled" /\ r.cancel
        <3>1. n \in 2..Len(es) /\ r \in Record
            BY <1>1, <1>2, <1>3, <1>4 DEF Settled, EventsInv
        <3>2. es[n] \in Event
            BY <1>4, <3>1 DEF Tells
        <3>3. es[n].at \in Int /\ Period \in Int
            BY <3>2, RateLimiterAssumption, BillingAssumption DEF Event
        <3>4. es[n].at - Period = r.begin
            BY <1>7, <1>8, <2>2 DEF Begins
        <3>5. es[n].at = r.end
            BY <3>1, <3>3, <3>4, RecordFields
        <3> QED
            BY <1>2, <1>4, <1>7, <1>8, <1>10, <2>2, <3>5 DEF Lasts
    <2>3. CASE r.status = "canceled" /\ ~r.cancel
        BY <1>1, <1>2, <1>4, <1>7, <1>8, <1>10, <2>3 DEF Lasts
    <2> QED
        BY <2>1, <2>2, <2>3
<1> QED
    BY <1>6, <1>9, <1>10, <1>11

(* For any number of subscriptions, events, deliveries and rows: of a      *)
(* subscription whose events all arrived once, in order, one at a time,    *)
(* and met no failure, the tables say what Stripe says, whatever the       *)
(* deliveries for other subscriptions and the requests of people did in    *)
(* between (handleCheckoutCompleted to handleSubscriptionDeleted).         *)
THEOREM OrderlyEventsApplied == BillingSpec => []EventsAreApplied
<1>1. BillingInit => DeliveryInv
    BY DeliveriesStart
<1>2. DeliveryInv /\ [BillingNext]_vars => DeliveryInv'
    BY DeliveriesKeep
<1>3. DeliveryInv => EventsAreApplied
    BY SettledIsApplied
<1> QED
    BY <1>1, <1>2, <1>3, PTL DEF BillingSpec
-----------------------------------------------------------------------------
(* The license client *)

(* What makes FeaturesAreGranted inductive: a status with features was     *)
(* checked at some time and is valid, no feature in it was granted longer  *)
(* ago than that, and a feature in an answer not yet written was granted   *)
(* just now, for no check interval passes while an answer waits.           *)
Backed ==
    /\ status.valid <=> status.features # {}
    /\ \A f \in status.features : status.age # Never /\ granted[f] <= status.age
    /\ \A v \in Validators : call[v].pc = "answered" =>
         \A f \in call[v].answer : granted[f] = 0

(* The call for a key is made with a key.                                  *)
Asking == \A v \in Validators : call[v].pc = "ask" => call[v].asked \in Keys

LicenseIInv == LicenseTypeOK /\ Asking /\ Backed

USE DEF Validators, AnyKey, Ages, LicenseStatuses, Pcs

LEMMA OlderType ==
    ASSUME NEW a \in Ages \cup {Never}
    PROVE  /\ Older(a) \in Ages \cup {Never}
           /\ a # Never => Older(a) \in Ages
           /\ Older(a) = Never <=> a = Never
BY LicenseAssumption, SMT DEF Older

LEMMA OlderMonotone ==
    ASSUME NEW a \in Ages, NEW b \in Ages, a <= b
    PROVE  Older(a) <= Older(b)
BY LicenseAssumption, SMT DEF Older

Locals == [pc : Pcs, want : AnyKey, asked : AnyKey, answer : SUBSET Features]

LEMMA AtType ==
    ASSUME NEW pc \in Pcs
    PROVE  AtPc(pc) \in Locals
BY DEF AtPc, Locals

LEMMA BootCallType == BootCall \in [Validators -> Locals]
BY AtType DEF BootCall

LEMMA LicenseStarts == LicenseInit => LicenseIInv
<1> SUFFICES ASSUME LicenseInit PROVE LicenseIInv
  OBVIOUS
<1>1. LicenseTypeOK
  <2>1. key \in AnyKey /\ stored \in AnyKey
    BY LicenseAssumption DEF LicenseInit, BootKeys
  <2>2. status \in LicenseStatuses
    BY DEF LicenseInit, Free
  <2>3. call \in [Validators -> [pc : Pcs, want : AnyKey, asked : AnyKey,
                                answer : SUBSET Features]]
    BY BootCallType DEF LicenseInit, Locals
  <2>4. granted \in [Features -> Ages]
    BY LicenseAssumption DEF LicenseInit
  <2> QED
    BY <2>1, <2>2, <2>3, <2>4 DEF LicenseInit, LicenseTypeOK
<1>2. Backed
  BY SMT DEF LicenseInit, Backed, BootCall, AtPc, Free
<1>3. Asking
  BY SMT DEF LicenseInit, Asking, BootCall, AtPc
<1> QED
  BY <1>1, <1>2, <1>3 DEF LicenseIInv
-----------------------------------------------------------------------------
(* One lemma for each step of a validator, then the rest. *)

Talking == {"ask", "answered"}

LEMMA ReturnType ==
    ASSUME LicenseTypeOK, NEW v \in Validators, Return(v)
    PROVE  /\ call' \in [Validators -> Locals]
           /\ \A u \in Validators : call'[u].pc \in Talking => call'[u] = call[u]
<1>1. [AtPc("save") EXCEPT !.want = call[v].want] \in Locals
  BY DEF LicenseTypeOK, AtPc, Locals
<1>2. AtPc("idle") \in Locals /\ AtPc("boot") \in Locals
  BY AtType
<1>3. call \in [Validators -> Locals]
  BY DEF LicenseTypeOK, Locals
<1>4. call' \in [Validators -> Locals]
  BY <1>1, <1>2, <1>3 DEF Return
<1>5. \A u \in Validators : u # v => call'[u] = call[u]
  BY <1>3 DEF Return
<1>6. call'[v].pc \notin Talking
  BY <1>3 DEF Return, AtPc, Talking
<1> QED
  BY <1>4, <1>5, <1>6

LEMMA GotoType ==
    ASSUME LicenseTypeOK, NEW v \in Validators, NEW pc \in Pcs, pc \notin Talking, Goto(v, pc)
    PROVE  /\ call' \in [Validators -> Locals]
           /\ \A u \in Validators : call'[u].pc \in Talking => call'[u] = call[u]
BY SMT DEF LicenseTypeOK, Locals, Goto, Talking

(* A step that touches neither the status nor the grants, and makes no     *)
(* answer, keeps the invariant.                                            *)
LEMMA LocalStep ==
    ASSUME LicenseIInv,
           call' \in [Validators -> Locals],
           \A u \in Validators : call'[u].pc \in Talking => call'[u] = call[u],
           status' = status, granted' = granted
    PROVE  Asking' /\ Backed'
BY SMT DEF LicenseIInv, Asking, Backed, LicenseTypeOK, Talking

LEMMA ValidateKeeps ==
    ASSUME LicenseIInv, NEW v \in Validators, ValidateKey(v)
    PROVE  LicenseIInv'
<1> USE DEF LicenseIInv
<1>1. CASE ReadKey(v)
  <2>1. CASE key = NoKey
    <3>1. /\ call' \in [Validators -> Locals]
          /\ \A u \in Validators : call'[u].pc \in Talking => call'[u] = call[u]
      BY <1>1, <2>1, GotoType DEF ReadKey, Talking
    <3>2. Asking' /\ Backed'
      BY <1>1, <3>1, LocalStep DEF ReadKey
    <3> QED
      BY <1>1, <3>1, <3>2 DEF ReadKey, LicenseTypeOK, Locals
  <2>2. CASE key # NoKey
    <3>1. call' = [call EXCEPT ![v].pc = "ask", ![v].asked = key] /\ key \in Keys
      BY <1>1, <2>2 DEF ReadKey, LicenseTypeOK
    <3>2. /\ call' \in [Validators -> Locals]
          /\ \A u \in Validators : u # v => call'[u] = call[u]
          /\ call'[v].pc = "ask" /\ call'[v].asked \in Keys
      BY <3>1 DEF LicenseTypeOK, Locals
    <3>3. Asking' /\ Backed'
      BY <1>1, <3>2 DEF ReadKey, Asking, Backed
    <3> QED
      BY <1>1, <3>2, <3>3 DEF ReadKey, LicenseTypeOK, Locals
  <2> QED
    BY <2>1, <2>2
<1>2. CASE WriteFree(v)
  <2>1. status' \in LicenseStatuses /\ status'.features = {} /\ ~status'.valid
    BY <1>2, LicenseAssumption DEF WriteFree, Free
  <2>2. Asking' /\ Backed'
    BY <1>2, <2>1, ReturnType DEF WriteFree, Asking, Backed, Talking
  <2> QED
    BY <1>2, <2>1, <2>2, ReturnType DEF WriteFree, LicenseTypeOK, Locals
<1>3. CASE Reply(v)
  <2> DEFINE F == grants[call[v].asked]
  <2>1. F \in SUBSET Features
    BY <1>3 DEF LicenseTypeOK, Reply, Asking
  <2>2. call' = [call EXCEPT ![v].pc = "answered", ![v].asked = NoKey, ![v].answer = F]
    BY <1>3 DEF Reply
  <2>3. /\ call' \in [Validators -> Locals]
        /\ \A u \in Validators : u # v => call'[u] = call[u]
        /\ call'[v].pc = "answered" /\ call'[v].answer = F
    BY <2>1, <2>2 DEF LicenseTypeOK, Locals
  <2>4. /\ granted' \in [Features -> Ages]
        /\ \A f \in Features : granted'[f] = IF f \in F THEN 0 ELSE granted[f]
    BY <1>3, LicenseAssumption DEF Reply, LicenseTypeOK
  <2>5. Asking'
    BY <2>3 DEF Asking
  <2>6. \A f \in Features : granted'[f] <= granted[f]
    BY <2>4, LicenseAssumption, SMT DEF LicenseTypeOK
  <2>7. \A f \in status.features : status.age # Never /\ granted'[f] <= status.age
    <3> SUFFICES ASSUME NEW f \in status.features
                 PROVE  status.age # Never /\ granted'[f] <= status.age
      OBVIOUS
    <3>1. f \in Features /\ status.age \in Ages
      BY DEF Backed, LicenseTypeOK
    <3>2. granted[f] <= status.age /\ granted[f] \in Int /\ granted'[f] \in Int
      BY <3>1, <2>4, LicenseAssumption, SMT DEF Backed, LicenseTypeOK
    <3> QED
      BY <3>1, <3>2, <2>6, LicenseAssumption, SMT
  <2>8. \A u \in Validators : call'[u].pc = "answered" =>
          \A f \in call'[u].answer : granted'[f] = 0
    BY <2>1, <2>3, <2>4 DEF Backed, LicenseTypeOK
  <2>9. Backed'
    BY <1>3, <2>7, <2>8 DEF Backed, Reply
  <2> QED
    BY <1>3, <2>3, <2>4, <2>5, <2>9 DEF Reply, LicenseTypeOK, Locals
<1>4. CASE CallFails(v)
  <2>1. /\ call' \in [Validators -> Locals]
        /\ \A u \in Validators : call'[u].pc \in Talking => call'[u] = call[u]
    BY <1>4, SMT DEF CallFails, LicenseTypeOK, Locals, Talking
  <2>2. Asking' /\ Backed'
    BY <1>4, <2>1, LocalStep DEF CallFails
  <2> QED
    BY <1>4, <2>1, <2>2 DEF CallFails, LicenseTypeOK, Locals
<1>5. CASE Garbled(v)
  <2>1. Asking' /\ Backed'
    BY <1>5, ReturnType, LocalStep DEF Garbled
  <2> QED
    BY <1>5, <2>1, ReturnType DEF Garbled, LicenseTypeOK, Locals
<1>6. CASE Accept(v)
  <2>1. call[v].answer \subseteq Features
    BY DEF LicenseTypeOK
  <2>2. status' \in LicenseStatuses
    BY <1>6, <2>1, LicenseAssumption DEF Accept
  <2>3. /\ status'.valid <=> status'.features # {}
        /\ \A f \in status'.features : status'.age # Never /\ granted[f] <= status'.age
    <3>1. /\ status'.valid <=> call[v].answer # {}
          /\ status'.features = call[v].answer /\ status'.age = 0
      BY <1>6 DEF Accept
    <3>2. \A f \in call[v].answer : granted[f] = 0
      BY <1>6 DEF Accept, Backed
    <3> QED
      BY <3>1, <3>2, LicenseAssumption, SMT
  <2>4. Asking' /\ Backed'
    BY <1>6, <2>3, ReturnType DEF Accept, Asking, Backed, Talking
  <2> QED
    BY <1>6, <2>2, <2>4, ReturnType DEF Accept, LicenseTypeOK, Locals
<1>7. CASE GoOffline(v)
  <2>1. /\ status' \in LicenseStatuses
        /\ status'.valid = status.valid /\ status'.features = status.features
        /\ status'.age = status.age
    BY <1>7 DEF GoOffline, LicenseTypeOK
  <2>2. Asking' /\ Backed'
    BY <1>7, <2>1, ReturnType DEF GoOffline, Asking, Backed, Talking
  <2> QED
    BY <1>7, <2>1, <2>2, ReturnType DEF GoOffline, LicenseTypeOK, Locals
<1> QED
  BY <1>1, <1>2, <1>3, <1>4, <1>5, <1>6, <1>7 DEF ValidateKey

LEMMA TickKeeps ==
    ASSUME LicenseIInv, Tick
    PROVE  LicenseIInv'
<1> USE DEF LicenseIInv
<1>1. /\ status' \in LicenseStatuses
      /\ status'.valid = status.valid /\ status'.features = status.features
      /\ status'.age = Older(status.age)
  BY OlderType DEF Tick, LicenseTypeOK
<1>2. /\ granted' \in [Features -> Ages]
      /\ \A f \in Features : granted'[f] = Older(granted[f])
  <2>1. \A f \in Features : Older(granted[f]) \in Ages
    BY OlderType, LicenseAssumption, SMT DEF LicenseTypeOK
  <2> QED
    BY <2>1 DEF Tick
<1>3. \A f \in status'.features : status'.age # Never /\ granted'[f] <= status'.age
  <2> SUFFICES ASSUME NEW f \in status.features
               PROVE  Older(status.age) # Never /\ Older(granted[f]) <= Older(status.age)
    BY <1>1, <1>2 DEF LicenseTypeOK
  <2>1. /\ f \in Features /\ status.age # Never
        /\ granted[f] \in Ages /\ status.age \in Ages /\ granted[f] <= status.age
    BY DEF Backed, LicenseTypeOK
  <2> QED
    BY <2>1, OlderType, OlderMonotone
<1>4. Backed'
  BY <1>1, <1>3 DEF Tick, Backed
<1> QED
  BY <1>1, <1>2, <1>4 DEF Tick, LicenseTypeOK, Asking

LEMMA LicenseStep ==
    ASSUME LicenseIInv, [LicenseNext]_licenseVars
    PROVE  LicenseIInv'
<1>1. CASE \E v \in Validators : ValidateKey(v)
  BY <1>1, ValidateKeeps
<1>2. CASE \E h \in Updaters : Request(h)
  <2> PICK h \in Updaters : Request(h)
    BY <1>2
  <2>1. /\ call' \in [Validators -> Locals]
        /\ \A u \in Validators : call'[u].pc \in Talking => call'[u] = call[u]
    BY SMT DEF LicenseIInv, LicenseTypeOK, Request, AtPc, Locals, Talking
  <2>2. Asking' /\ Backed'
    BY <2>1, LocalStep DEF Request
  <2> QED
    BY <2>1, <2>2 DEF LicenseIInv, LicenseTypeOK, Request, Locals
<1>3. CASE \E h \in Updaters : SetKey(h)
  <2> PICK h \in Updaters : SetKey(h)
    BY <1>3
  <2>1. /\ call' \in [Validators -> Locals]
        /\ \A u \in Validators : call'[u].pc \in Talking => call'[u] = call[u]
    BY GotoType DEF LicenseIInv, SetKey, Talking
  <2>2. key' \in AnyKey
    BY DEF LicenseIInv, LicenseTypeOK, SetKey
  <2>3. CASE key' = NoKey
    <3>0. status' = [valid |-> FALSE, features |-> {}, age |-> 0, offline |-> FALSE]
      BY <2>3 DEF SetKey, Free
    <3>1. status' \in LicenseStatuses /\ status'.features = {} /\ ~status'.valid
      BY <3>0, LicenseAssumption, SMT
    <3>2. Asking' /\ Backed'
      BY <2>1, <3>1 DEF LicenseIInv, SetKey, Asking, Backed, Talking
    <3> QED
      BY <2>1, <2>2, <3>1, <3>2 DEF LicenseIInv, LicenseTypeOK, SetKey, Locals
  <2>4. CASE key' # NoKey
    <3>1. Asking' /\ Backed'
      BY <2>1, <2>4, LocalStep DEF SetKey
    <3> QED
      BY <2>1, <2>2, <2>4, <3>1 DEF LicenseIInv, LicenseTypeOK, SetKey, Locals
  <2> QED
    BY <2>3, <2>4
<1>4. CASE \E h \in Updaters : SaveKey(h)
  <2> PICK h \in Updaters : SaveKey(h)
    BY <1>4
  <2>1. /\ call' \in [Validators -> Locals]
        /\ \A u \in Validators : call'[u].pc \in Talking => call'[u] = call[u]
    BY AtType, SMT DEF LicenseIInv, LicenseTypeOK, SaveKey, AtPc, Locals, Talking
  <2>2. Asking' /\ Backed'
    BY <2>1, LocalStep DEF SaveKey
  <2> QED
    BY <2>1, <2>2 DEF LicenseIInv, LicenseTypeOK, SaveKey, Locals
<1>5. CASE StartServices
  <2>1. /\ call' \in [Validators -> Locals]
        /\ \A u \in Validators : call'[u].pc \in Talking => call'[u] = call[u]
    BY <1>5, GotoType DEF LicenseIInv, StartServices, Talking
  <2>2. Asking' /\ Backed'
    BY <1>5, <2>1, LocalStep DEF StartServices
  <2> QED
    BY <1>5, <2>1, <2>2 DEF LicenseIInv, LicenseTypeOK, StartServices, Locals
<1>6. CASE Ticker
  <2>1. /\ call' \in [Validators -> Locals]
        /\ \A u \in Validators : call'[u].pc \in Talking => call'[u] = call[u]
    BY <1>6, GotoType DEF LicenseIInv, Ticker, Talking
  <2>2. Asking' /\ Backed'
    BY <1>6, <2>1, LocalStep DEF Ticker
  <2> QED
    BY <1>6, <2>1, <2>2 DEF LicenseIInv, LicenseTypeOK, Ticker, Locals
<1>7. CASE Tick
  BY <1>7, TickKeeps
<1>8. CASE Restart
  <2>1. status' \in LicenseStatuses /\ status'.features = {} /\ ~status'.valid
    BY <1>8, LicenseAssumption DEF Restart, Free
  <2>2. \A u \in Validators : call'[u].pc \notin Talking
    BY <1>8 DEF Restart, BootCall, AtPc, Talking
  <2>3. key' \in AnyKey
    BY <1>8, LicenseAssumption DEF LicenseIInv, LicenseTypeOK, Restart, BootKeys
  <2>4. Asking' /\ Backed'
    BY <1>8, <2>1, <2>2 DEF LicenseIInv, Restart, Asking, Backed, Talking
  <2> QED
    BY <1>8, <2>1, <2>3, <2>4, BootCallType DEF LicenseIInv, LicenseTypeOK, Restart, Locals
<1>9. CASE \E k \in Keys : Regrant(k)
  <2>1. PICK k \in Keys, F \in SUBSET Features :
          grants' = [grants EXCEPT ![k] = F]
    BY <1>9 DEF Regrant
  <2>2. grants' \in [Keys -> SUBSET Features]
    BY <2>1 DEF LicenseIInv, LicenseTypeOK
  <2>3. UNCHANGED <<key, status, stored, call, due, serving, services, granted, up>>
    BY <1>9 DEF Regrant
  <2> QED
    BY <2>2, <2>3 DEF LicenseIInv, LicenseTypeOK, Asking, Backed
<1>10. CASE Reachability
  BY <1>10 DEF LicenseIInv, LicenseTypeOK, Asking, Backed, Reachability
<1>11. CASE UNCHANGED licenseVars
  BY <1>11 DEF LicenseIInv, LicenseTypeOK, Asking, Backed, licenseVars
<1> QED
  BY <1>1, <1>2, <1>3, <1>4, <1>5, <1>6, <1>7, <1>8, <1>9, <1>10, <1>11 DEF LicenseNext

THEOREM LicenseInvariant == LicenseSpec => []LicenseIInv
BY LicenseStarts, LicenseStep, PTL DEF LicenseSpec

(* The client's variables keep their types: LastChecked is the zero time   *)
(* or an age, in whatever order checks, changes of key and restarts come.  *)
THEOREM LicenseTypes == LicenseSpec => []LicenseTypeOK
BY LicenseInvariant, PTL DEF LicenseIInv

(* A feature is on only if the billing service granted it within the grace *)
(* period: HasFeature never outlives the service's last word.              *)
THEOREM FeaturesNeedAGrant == LicenseSpec => []FeaturesAreGranted
<1>1. LicenseIInv => FeaturesAreGranted
  <2> SUFFICES ASSUME LicenseIInv, NEW f \in Features, HasFeature(f)
               PROVE  granted[f] <= Grace
    BY DEF FeaturesAreGranted
  <2>1. /\ f \in status.features /\ status.age \in Ages /\ status.age # Never
        /\ granted[f] <= status.age /\ granted[f] \in Ages
    BY DEF LicenseIInv, Backed, LicenseTypeOK, HasFeature
  <2>2. status.age <= Grace
    BY <2>1, LicenseAssumption, SMT DEF HasFeature
  <2> QED
    BY <2>1, <2>2, LicenseAssumption, SMT
<1> QED
  BY <1>1, LicenseInvariant, PTL

-----------------------------------------------------------------------------
(* OutageIsHarmless, step by step *)

Excused(f) ==
    \/ \E v \in Validators : call[v].pc = "answered" /\ f \notin call[v].answer
    \/ key' = NoKey \/ \E v \in Validators : call[v].pc = "free"
    \/ status.age = Grace
    \/ ~serving'

LEMMA SameStatus ==
    ASSUME NEW f \in Features, HasFeature(f), status' = status
    PROVE  HasFeature(f)'
BY DEF HasFeature

(* A feature that is on belongs to a valid status of some age.             *)
LEMMA OnIsValid ==
    ASSUME LicenseIInv, NEW f \in Features, HasFeature(f)
    PROVE  /\ f \in status.features /\ status.valid
           /\ status.age \in Ages /\ status.age # Never /\ status.age <= Grace
<1>1. f \in status.features /\ status.valid /\ status.age # Never
  BY DEF LicenseIInv, Backed, HasFeature
<1>2. status.age \in Ages
  BY <1>1 DEF LicenseIInv, LicenseTypeOK
<1> QED
  BY <1>1, <1>2 DEF HasFeature

LEMMA LossIsExcused ==
    ASSUME LicenseIInv, [LicenseNext]_licenseVars, NEW f \in Features, HasFeature(f), ~HasFeature(f)'
    PROVE  Excused(f)
<1>0. status' # status
  BY SameStatus
<1>1. CASE \E v \in Validators : ValidateKey(v)
  <2> PICK v \in Validators : ValidateKey(v)
    BY <1>1
  <2>1. CASE WriteFree(v)
    BY <2>1 DEF WriteFree, Excused
  <2>2. CASE Accept(v)
    <3>1. CASE f \in call[v].answer
      <4>1. f \in status'.features /\ status'.valid /\ status'.age = 0
        BY <2>2, <3>1 DEF Accept
      <4>2. 0 <= Grace
        BY LicenseAssumption, SMT
      <4>3. HasFeature(f)'
        BY <4>1, <4>2 DEF HasFeature
      <4> QED
        BY <4>3
    <3>2. CASE f \notin call[v].answer
      BY <2>2, <3>2 DEF Accept, Excused
    <3> QED
      BY <3>1, <3>2
  <2>3. CASE GoOffline(v)
    <3>1. /\ status'.valid = status.valid /\ status'.features = status.features
          /\ status'.age = status.age
      BY <2>3 DEF GoOffline, LicenseIInv, LicenseTypeOK
    <3> QED
      BY <3>1, OnIsValid DEF HasFeature
  <2>4. CASE ReadKey(v) \/ Reply(v) \/ CallFails(v) \/ Garbled(v)
    BY <1>0, <2>4 DEF ReadKey, Reply, CallFails, Garbled
  <2> QED
    BY <2>1, <2>2, <2>3, <2>4 DEF ValidateKey
<1>2. CASE \E h \in Updaters : SetKey(h)
  BY <1>0, <1>2 DEF SetKey, Excused
<1>3. CASE Tick
  <2>1. /\ status'.valid = status.valid /\ status'.features = status.features
        /\ status'.age = Older(status.age)
    BY <1>3 DEF Tick, LicenseIInv, LicenseTypeOK
  <2>2. status.age = Grace \/ status.age + 1 <= Grace
    BY OnIsValid, LicenseAssumption, SMT
  <2>3. CASE status.age = Grace
    BY <2>3 DEF Excused
  <2>4. CASE status.age + 1 <= Grace
    <3>1. Older(status.age) = status.age + 1 /\ status.age + 1 # Never
      BY <2>4, OnIsValid, LicenseAssumption, SMT DEF Older
    <3> QED
      BY <2>1, <2>4, <3>1, OnIsValid DEF HasFeature
  <2> QED
    BY <2>2, <2>3, <2>4
<1>4. CASE Restart
  BY <1>4 DEF Restart, Excused
<1>5. CASE \/ \E h \in Updaters : Request(h) \/ SaveKey(h)
           \/ StartServices \/ Ticker \/ Reachability
           \/ \E k \in Keys : Regrant(k)
           \/ UNCHANGED licenseVars
  BY <1>0, <1>5 DEF Request, SaveKey, StartServices, Ticker, Reachability,
                    Regrant, licenseVars
<1> QED
  BY <1>1, <1>2, <1>3, <1>4, <1>5 DEF LicenseNext

(* Failing calls, however many, take no feature away before the grace      *)
(* period is over.                                                         *)
THEOREM OutagesAreHarmless == LicenseSpec => OutageIsHarmless
<1>1. ASSUME LicenseIInv, [LicenseNext]_licenseVars
      PROVE  [\A f \in Features : HasFeature(f) /\ ~HasFeature(f)' => Excused(f)]_licenseVars
  BY <1>1, LossIsExcused
<1> QED
  BY <1>1, LicenseInvariant, PTL DEF LicenseSpec, OutageIsHarmless, Excused
=============================================================================
