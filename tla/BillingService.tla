--------------------------- MODULE BillingService ---------------------------
(***************************************************************************)
(* The billing service: what Stripe's webhook events make of accounts,     *)
(* subscriptions and license keys, and the requests that meet them.        *)
(*                                                                         *)
(* Source: internal/billing (handler, store, middleware, server) and       *)
(* cmd/billing/main.go.  The webhook answers 200 whatever became of its    *)
(* statements, each of which may fail on its own; Stripe sends an event    *)
(* again if no answer arrives, and keeps no order.  So any event sent may  *)
(* be delivered at any time, more than once and next to others.            *)
(*                                                                         *)
(* Stripe itself is modelled from the events the handlers read: start,     *)
(* renew, fail, cancel.  Features, plans and the key's text are data no    *)
(* property reads; a key is the id of its row.  Sessions are counted by    *)
(* the account they are for; their tokens are those of AuthFlow's kind and *)
(* not looked at again.                                                    *)
(***************************************************************************)
EXTENDS Requests, RateLimiter, FiniteSetsExt

CONSTANTS
    Emails,
    Subscriptions,   \* Stripe's subscription ids
    Period,          \* the time a payment is for, a month or a year
    Buffer,          \* the seven days added to the time of an event
    MaxRows,         \* bound on the rows of each table
    MaxEvents        \* bound on the events Stripe sends of one subscription

ASSUME BillingAssumption ==
    /\ {Period, Buffer, MaxRows, MaxEvents} \subseteq Nat
    /\ 0 \notin Subscriptions     \* NoId

VARIABLES
    stripe,          \* Stripe's record of each subscription
    events,          \* events Stripe sent of it, in order
    account,         \* rows of accounts
    subscription,    \* rows of subscriptions
    licenseKey,      \* rows of license_keys
    sessions,        \* accounts with a session
    applied,         \* history: how many events were applied in order
    disturbed        \* history: subscriptions of which one was not

stripeVars == <<stripe, events>>
rows == <<account, subscription, licenseKey>>
history == <<applied, disturbed>>
billingVars == <<stripe, events, account, subscription, licenseKey, sessions, applied, disturbed>>

NoId == 0
NoTime == -1           \* expires_at IS NULL
None == [status |-> "none"]
RowIDs == 1..MaxRows

Statuses == {"active", "past_due", "canceled"}
Event == [type : {"checkout", "paid", "failed", "updated", "deleted"},
          status : Statuses, at : 0..(MaxNow + Period), cancel : BOOLEAN]

BillingTypeOK ==
    /\ \A s \in Subscriptions : stripe[s] # None =>
        stripe[s] \in [status : Statuses, begin : Nat, end : Nat, cancel : BOOLEAN,
                       since : Nat, email : Emails]
    /\ events \in [Subscriptions -> Seq(Event)]
    /\ account \in [RowIDs -> [email : Emails, customer : BOOLEAN] \cup {NoRow}]
    /\ subscription \in [RowIDs ->
          [account : RowIDs, stripe : Subscriptions \cup {NoId}, status : Statuses,
           cancel : BOOLEAN] \cup {NoRow}]
    /\ licenseKey \in [RowIDs ->
          [account : RowIDs, subscription : RowIDs, expires : Int] \cup {NoRow}]
    /\ sessions \subseteq RowIDs
    /\ applied \in [Subscriptions -> 0..MaxEvents]
    /\ disturbed \subseteq Subscriptions

BillingInit ==
    /\ RateLimiterInit /\ RequestsInit
    /\ stripe = [s \in Subscriptions |-> None]
    /\ events = [s \in Subscriptions |-> <<>>]
    /\ account = [id \in RowIDs |-> NoRow]
    /\ subscription = [id \in RowIDs |-> NoRow]
    /\ licenseKey = [id \in RowIDs |-> NoRow]
    /\ sessions = {}
    /\ applied = [s \in Subscriptions |-> 0]
    /\ disturbed = {}

-----------------------------------------------------------------------------
(* Stripe. *)

Send(s, es) ==
    /\ Len(events[s]) + Len(es) <= MaxEvents
    /\ events' = [events EXCEPT ![s] = @ \o es]
    /\ UNCHANGED <<rows, sessions, history, limiterVars, now, request>>

(* The time an event's handler reads: period_end of an invoice, which      *)
(* looks back and is where the period it bills begins; cancel_at of a      *)
(* subscription, the end of its period.                                    *)
Sent(type, r) ==
    [type |-> type, status |-> r.status, at |-> IF type = "paid" THEN r.begin ELSE r.end,
     cancel |-> r.cancel]

StripeStart(s, email) ==
    LET r == [status |-> "active", begin |-> now, end |-> now + Period, cancel |-> FALSE,
              since |-> now, email |-> email]
    IN  /\ stripe[s] = None
        /\ stripe' = [stripe EXCEPT ![s] = r]
        /\ Send(s, <<Sent("checkout", r), Sent("paid", r)>>)

StripeChange(s, status, begin, cancel, types) ==
    LET r == [stripe[s] EXCEPT !.status = status, !.begin = begin, !.end = begin + Period,
                               !.cancel = cancel, !.since = now]
    IN  /\ stripe[s].status # "canceled"
        /\ stripe' = [stripe EXCEPT ![s] = r]
        /\ Send(s, [i \in DOMAIN types |-> Sent(types[i], r)])

StripeRenew(s) ==
    /\ now >= stripe[s].end
    /\ StripeChange(s, "active", now, stripe[s].cancel, <<"paid", "updated">>)
StripeFail(s) == StripeChange(s, "past_due", stripe[s].begin, stripe[s].cancel,
                              <<"failed", "updated">>)
StripeSetCancel(s) == StripeChange(s, stripe[s].status, stripe[s].begin, ~stripe[s].cancel,
                                   <<"updated">>)
(* cancel_at is the period's end if that was asked for, else it is not set *)
StripeCancel(s) == StripeChange(s, "canceled", stripe[s].begin, stripe[s].cancel, <<"deleted">>)

-----------------------------------------------------------------------------
(* Rows. *)

NextId(table) == Cardinality({id \in RowIDs : table[id] # NoRow}) + 1
Insert(table, row) == [table EXCEPT ![NextId(table)] = row]

GetByEmail(email) == {a \in RowIDs : account[a] # NoRow /\ account[a].email = email}

(* The first row with the id *)
GetByStripeID(s) ==
    LET found == {b \in RowIDs : subscription[b] # NoRow /\ subscription[b].stripe = s}
    IN  IF found = {} THEN NoId ELSE Min(found)

GetBySubscriptionID(b) ==
    {k \in RowIDs : licenseKey[k] # NoRow /\ licenseKey[k].subscription = b}

-----------------------------------------------------------------------------
(* The webhook.  A delivery is followed through its statements; "sub" and  *)
(* "account" are the ids it holds.                                         *)

InFlight(s) == {h \in Handlers : "s" \in DOMAIN request[h] /\ request[h].s = s}

Disturb(s) == disturbed' = disturbed \cup {s}

(* Applied in order: the one after the last, with no other in flight. *)
InOrder(s, i) == i = applied[s] + 1 /\ InFlight(s) = {}

Note(s, i) ==
    /\ applied' = IF InOrder(s, i) THEN [applied EXCEPT ![s] = i] ELSE applied
    /\ disturbed' = IF InOrder(s, i) THEN disturbed ELSE disturbed \cup {s}

Proceed(h, op) == Continue(h, [request[h] EXCEPT !.op = op])

CheckoutCompleted(h, s, i) ==
    LET found == GetByEmail(stripe[s].email)
        known == found # {}
    IN  /\ events[s][i].type = "checkout"
        /\ Begin(h, [op |-> IF known THEN "customer" ELSE "account",
                     s |-> s, event |-> events[s][i], sub |-> NoId,
                     account |-> IF known THEN CHOOSE a \in found : TRUE ELSE NoId])
        /\ Note(s, i)
        /\ UNCHANGED <<rows>>

(* The other events are for a subscription that is known, or for nobody. *)
SubscriptionEvent(h, s, i) ==
    LET b == GetByStripeID(s)
    IN  /\ events[s][i].type # "checkout"
        /\ IF b = NoId
           THEN request[h] = Idle /\ Disturb(s) /\ UNCHANGED <<applied, request>>
           ELSE /\ Begin(h, [op |-> "status", s |-> s, event |-> events[s][i], sub |-> b,
                             account |-> subscription[b].account])
                /\ Note(s, i)
        /\ UNCHANGED <<rows>>

HandleStripeWebhook(h, s, i) ==
    /\ CheckoutCompleted(h, s, i) \/ SubscriptionEvent(h, s, i)
    /\ UNCHANGED <<stripeVars, sessions, limiterVars, now>>

(* Fault: the lookup before is relied on, and the email is not UNIQUE. *)
CreateAccountUnchecked(h) ==
    LET r == request[h]
    IN  /\ At(h, "account")
        /\ NextId(account) \in RowIDs
        /\ Continue(h, [r EXCEPT !.op = "customer", !.account = NextId(account)])
        /\ account' = Insert(account, [email |-> stripe[r.s].email, customer |-> FALSE])
        /\ UNCHANGED <<disturbed, subscription, licenseKey>>

(* accounts.email is UNIQUE: an account that was created meanwhile makes   *)
(* the statement fail, and the handler gives up.                           *)
CreateAccount(h) ==
    LET r == request[h]
    IN  /\ At(h, "account")
        /\ IF GetByEmail(stripe[r.s].email) # {}
           THEN Done(h) /\ Disturb(r.s) /\ UNCHANGED account
           ELSE /\ NextId(account) \in RowIDs
                /\ Continue(h, [r EXCEPT !.op = "customer", !.account = NextId(account)])
                /\ account' = Insert(account, [email |-> stripe[r.s].email,
                                               customer |-> FALSE])
                /\ UNCHANGED disturbed
        /\ UNCHANGED <<subscription, licenseKey>>

UpdateStripeCustomerID(h) ==
    /\ At(h, "customer")
    /\ account' = [account EXCEPT ![request[h].account].customer = TRUE]
    /\ Proceed(h, "subscription")
    /\ UNCHANGED <<subscription, licenseKey, disturbed>>

CreateSubscription(h) ==
    /\ At(h, "subscription")
    /\ NextId(subscription) \in RowIDs
    /\ subscription' = Insert(subscription,
          [account |-> request[h].account, stripe |-> NoId, status |-> "active",
           cancel |-> FALSE])
    /\ Continue(h, [request[h] EXCEPT !.op = "stripeID", !.sub = NextId(subscription)])
    /\ UNCHANGED <<account, licenseKey, disturbed>>

UpdateStripeID(h) ==
    /\ At(h, "stripeID")
    /\ subscription' = [subscription EXCEPT ![request[h].sub].stripe = request[h].s]
    /\ Proceed(h, "key")
    /\ UNCHANGED <<account, licenseKey, disturbed>>

CreateLicenseKey(h) ==
    /\ At(h, "key")
    /\ NextId(licenseKey) \in RowIDs
    /\ licenseKey' = Insert(licenseKey,
          [account |-> request[h].account, subscription |-> request[h].sub,
           expires |-> NoTime])
    /\ Done(h)
    /\ UNCHANGED <<account, subscription, disturbed>>

StatusOf(e) ==
    CASE e.type = "paid" -> "active"
      [] e.type = "failed" -> "past_due"
      [] e.type = "updated" -> e.status
      [] e.type = "deleted" -> "canceled"

(* Fault: a cancellation leaves the key as it is. *)
AfterRenewal(e) ==
    CASE e.type = "paid" -> "expiry"
      [] e.type = "updated" -> "cancel"
      [] OTHER -> "idle"

(* What follows the status: the key's expiry, the cancel flag or nothing. *)
After(e) ==
    CASE e.type \in {"paid", "deleted"} -> "expiry"
      [] e.type = "updated" -> "cancel"
      [] OTHER -> "idle"

GoOn(h) == IF After(request[h].event) = "idle" THEN Done(h)
           ELSE Proceed(h, After(request[h].event))

UpdateStatus(h) ==
    /\ At(h, "status")
    /\ subscription' = [subscription EXCEPT ![request[h].sub].status =
                           StatusOf(request[h].event)]
    /\ GoOn(h)
    /\ UNCHANGED <<account, licenseKey, disturbed>>

SetCancelAtPeriodEnd(h) ==
    /\ At(h, "cancel")
    /\ subscription' = [subscription EXCEPT ![request[h].sub].cancel =
                           request[h].event.cancel]
    /\ Done(h)
    /\ UNCHANGED <<account, licenseKey, disturbed>>

(* A payment adds the buffer to the invoice's period_end; a cancellation   *)
(* ends the key at cancel_at, or a buffer from now.                        *)
Expiry(e) ==
    CASE e.type = "paid" -> e.at + Buffer
      [] e.type = "deleted" /\ e.cancel -> e.at
      [] OTHER -> now + Buffer

UpdateExpiry(h) ==
    LET keys == GetBySubscriptionID(request[h].sub)
    IN  /\ At(h, "expiry")
        /\ licenseKey' = IF keys = {} THEN licenseKey
                         ELSE [licenseKey EXCEPT ![Max(keys)].expires =
                                  Expiry(request[h].event)]
        /\ Done(h)
        /\ UNCHANGED <<account, subscription, disturbed>>

(* A failed statement is logged; the handler goes on after those that only *)
(* update, and stops after those that insert.                              *)
StatementFails(h) ==
    /\ InFlight(request[h].s) # {}
    /\ CASE request[h].op = "customer" -> Proceed(h, "subscription")
         [] request[h].op = "stripeID" -> Proceed(h, "key")
         [] request[h].op = "status" -> GoOn(h)
         [] OTHER -> Done(h)
    /\ Disturb(request[h].s)
    /\ UNCHANGED rows

(* The process dies: nothing answers Stripe, which sends the events again. *)
WebhookDies(h) ==
    /\ Abandon(h)
    /\ Disturb(request[h].s)
    /\ UNCHANGED rows

WebhookStep(h) ==
    /\ "s" \in DOMAIN request[h]
    /\ \/ CreateAccount(h) \/ UpdateStripeCustomerID(h) \/ CreateSubscription(h)
       \/ UpdateStripeID(h) \/ CreateLicenseKey(h) \/ UpdateStatus(h)
       \/ SetCancelAtPeriodEnd(h) \/ UpdateExpiry(h) \/ StatementFails(h) \/ WebhookDies(h)
    /\ UNCHANGED <<stripeVars, sessions, applied, limiterVars, now>>

-----------------------------------------------------------------------------
(* Requests of people and of the license client. *)

(* Looking the account up and creating it are one step here: one that was  *)
(* created in between is refused by UNIQUE, and the login shows an error.  *)
Login(c, email) ==
    /\ Allow(c)
    /\ IF Allowed(c)
       THEN LET found == GetByEmail(email)
                id == IF found = {} THEN NextId(account) ELSE CHOOSE a \in found : TRUE
            IN  /\ id \in RowIDs
                /\ account' = IF found = {}
                              THEN Insert(account, [email |-> email, customer |-> FALSE])
                              ELSE account
                /\ sessions' = sessions \cup {id}
       ELSE UNCHANGED <<account, sessions>>
    /\ UNCHANGED <<subscription, licenseKey, stripeVars, history, now, request>>

Logout(a) ==
    /\ sessions' = sessions \ {a}
    /\ UNCHANGED <<rows, stripeVars, history, limiterVars, now, request>>

(* A customer is created at Stripe for an account that has none. *)
CreateCheckoutSession(a) ==
    /\ a \in sessions
    /\ account' = [account EXCEPT ![a].customer = TRUE]
    /\ UNCHANGED <<subscription, licenseKey, stripeVars, sessions, history, limiterVars,
                   now, request>>

(* What the license client is told of a key. *)
Answer(k) ==
    IF licenseKey[k] = NoRow THEN "not_found"
    ELSE IF licenseKey[k].expires # NoTime /\ licenseKey[k].expires < now THEN "expired"
    ELSE "valid"

Validate(c) ==
    /\ Allow(c)
    /\ UNCHANGED <<rows, stripeVars, sessions, history, now, request>>

(* Hourly: expired sessions and entries of the limiter go. *)
CleanupTick ==
    /\ Cleanup
    /\ \E gone \in SUBSET sessions : sessions' = sessions \ gone
    /\ UNCHANGED <<rows, stripeVars, history, now, request>>

Time ==
    /\ now < MaxNow
    /\ now' = now + 1
    /\ UNCHANGED <<rows, stripeVars, sessions, history, limiterVars, request>>

-----------------------------------------------------------------------------
Stripe ==
    \E s \in Subscriptions :
        \/ \E email \in Emails : StripeStart(s, email)
        \/ /\ stripe[s] # None
           /\ \/ StripeRenew(s) \/ StripeFail(s) \/ StripeSetCancel(s) \/ StripeCancel(s)

Webhook ==
    \E h \in Handlers :
        \/ \E s \in Subscriptions : \E i \in DOMAIN events[s] : HandleStripeWebhook(h, s, i)
        \/ WebhookStep(h)

People ==
    \/ \E c \in Clients : Validate(c) \/ \E email \in Emails : Login(c, email)
    \/ \E a \in sessions : Logout(a) \/ CreateCheckoutSession(a)

BillingNext == Stripe \/ Webhook \/ People \/ CleanupTick \/ Time

vars == <<billingVars, limiterVars, now, request>>

BillingSpec == BillingInit /\ [][BillingNext]_vars

-----------------------------------------------------------------------------
(* Of a subscription whose events all arrived once, in order, one at a     *)
(* time, and met no failure, the tables say what Stripe says: one row with *)
(* its status and cancel flag, and one key, which lasts a buffer from the  *)
(* beginning of the period paid for, and after a cancellation until its    *)
(* date or a buffer from when it was handled (handleCheckoutCompleted to   *)
(* handleSubscriptionDeleted).                                             *)
Settled(s) ==
    /\ stripe[s] # None
    /\ s \notin disturbed
    /\ applied[s] = Len(events[s])
    /\ InFlight(s) = {}

EventsAreApplied ==
    \A s \in Subscriptions : Settled(s) =>
        LET b == GetByStripeID(s)
            r == stripe[s]
        IN  /\ b # NoId
            /\ subscription[b].status = r.status
            /\ r.status # "canceled" => subscription[b].cancel = r.cancel
            /\ \E k \in RowIDs :
                /\ GetBySubscriptionID(b) = {k}
                /\ IF r.status # "canceled" THEN licenseKey[k].expires = r.begin + Buffer
                   ELSE IF r.cancel THEN licenseKey[k].expires = r.end
                   ELSE licenseKey[k].expires \in (r.since + Buffer)..(now + Buffer)

(* The key of a subscription that is paid for lasts to the end of the      *)
(* period, which is what a buffer beyond the "period end" (webhook.go:164) *)
(* is for.  It does not: handleInvoicePaid takes the invoice's period_end. *)
KeysOutlastPeriods ==
    \A s \in Subscriptions : Settled(s) /\ stripe[s].status = "active" =>
        \A k \in GetBySubscriptionID(GetByStripeID(s)) :
            licenseKey[k].expires >= stripe[s].end

(* Whatever is lost, repeated, reordered or overlaps, a key belongs to the *)
(* account of its subscription, that account to the customer who checked   *)
(* out, no row of a subscription has two keys, and no customer two         *)
(* accounts, though the account is looked up and created by two statements *)
(* (handleCheckoutCompleted).                                              *)
KeysFollowCheckouts ==
    /\ \A k \in RowIDs : licenseKey[k] # NoRow =>
        LET b == licenseKey[k].subscription
        IN  /\ licenseKey[k].account = subscription[b].account
            /\ subscription[b].stripe # NoId =>
                  account[licenseKey[k].account].email = stripe[subscription[b].stripe].email
    /\ \A b \in RowIDs : Cardinality(GetBySubscriptionID(b)) <= 1
    /\ \A a, b \in RowIDs :
        account[a] # NoRow /\ account[b] # NoRow /\ account[a].email = account[b].email => a = b

(* In no window's length of time are more than twice as many requests let  *)
(* through as the limit, across the hourly cleanup too (Allow, Cleanup).   *)
RateIsLimited ==
    \A c \in Clients, t \in 0..MaxNow :
        Cardinality({i \in DOMAIN passed[c] : passed[c][i] \in t..(t + Window)}) <= 2 * Limit
=============================================================================
