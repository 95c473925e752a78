----------------------------- MODULE MCBilling -----------------------------
(* The instance of BillingService that TLC checks.                         *)
EXTENDS BillingService

Requested == {c \in Clients : passed[c] # <<>>}

(* Three parts are looked at: the limiter, while nothing is bought;        *)
(* subscriptions whose events arrive as they were sent, over several       *)
(* periods; and, on one day, deliveries that are lost, repeated, reordered *)
(* and next to each other, with a login among them.                        *)
LimiterPart ==
    /\ \A s \in Subscriptions : stripe[s] = None
    /\ account[2] = NoRow

OrderlyPart == disturbed = {} /\ Requested = {} /\ sessions = {}

DisturbedPart ==
    /\ now = 0
    /\ \A s \in Subscriptions : Len(events[s]) <= 3
    /\ \A c \in Clients : entries[c].count <= 1

OnePart == LimiterPart \/ OrderlyPart \/ DisturbedPart

Symmetry == Permutations(Handlers) \cup Permutations(Emails)
=============================================================================
