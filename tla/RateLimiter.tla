---------------------------- MODULE RateLimiter ----------------------------
(***************************************************************************)
(* The rate limiter of internal/middleware/ratelimit.go: for each client   *)
(* a count and the end of the window it counts in.  Its mutex makes every  *)
(* call one step.  A request is let through as long as the count is within *)
(* the limit; the first one after the window starts another window.        *)
(***************************************************************************)
EXTENDS Integers, Sequences

CONSTANTS
    Clients,      \* what RateLimit's keyFunc returns
    Limit,        \* requests let through per window
    Window,       \* its length
    MaxNow,       \* bound on the time
    MaxCount      \* bound on the requests counted in a window

ASSUME RateLimiterAssumption ==
    /\ {Limit, Window, MaxNow, MaxCount} \subseteq Nat
    /\ Limit > 0

VARIABLES
    now,
    entries,      \* the map, by client
    passed        \* history: when each client's requests were let through

limiterVars == <<entries, passed>>

NoEntry == [count |-> 0, windowAt |-> -1]

RateLimiterTypeOK ==
    /\ now \in 0..MaxNow
    /\ entries \in [Clients -> [count : 0..MaxCount, windowAt : -1..(MaxNow + Window)]]
    /\ passed \in [Clients -> Seq(0..MaxNow)]

RateLimiterInit ==
    /\ now = 0
    /\ entries = [c \in Clients |-> NoEntry]
    /\ passed = [c \in Clients |-> <<>>]

(* now.After(e.windowAt), true of an entry there is not *)
WindowOver(c) == now > entries[c].windowAt

Allowed(c) == WindowOver(c) \/ entries[c].count < Limit

(* RateLimit, around every handler it guards; Allowed says if that is run. *)
Allow(c) ==
    /\ entries[c].count < MaxCount \/ WindowOver(c)
    /\ entries' = [entries EXCEPT ![c] =
          IF WindowOver(c) THEN [count |-> 1, windowAt |-> now + Window]
          ELSE [entries[c] EXCEPT !.count = @ + 1]]
    /\ passed' = IF Allowed(c) THEN [passed EXCEPT ![c] = Append(@, now)] ELSE passed

(* Fault: every entry goes. *)
CleanupAll == entries' = [c \in Clients |-> NoEntry] /\ UNCHANGED passed

Cleanup ==
    /\ entries' = [c \in Clients |-> IF WindowOver(c) THEN NoEntry ELSE entries[c]]
    /\ UNCHANGED passed

=============================================================================
