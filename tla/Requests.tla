------------------------------ MODULE Requests ------------------------------
(***************************************************************************)
(* Requests in flight.  net/http runs each handler on a goroutine of its   *)
(* own, and a handler sends its statements to SQLite one at a time, each   *)
(* a transaction of its own: a handler that reads and later writes is      *)
(* several steps, with those of other requests between them, and "request" *)
(* holds what it carries from one to the next.  A handler whose write does *)
(* not depend on what it read is one step.                                 *)
(***************************************************************************)
EXTENDS Integers, FiniteSets, Sequences, SequencesExt

CONSTANT Handlers      \* requests that may be in flight at once

ASSUME RequestsAssumption == IsFiniteSet(Handlers) /\ Handlers # {}

VARIABLE request

Idle == [op |-> "idle"]
NoRow == [row |-> "none"]     \* an id without a row

RequestsInit == request = [h \in Handlers |-> Idle]

Begin(h, r) == request[h] = Idle /\ request' = [request EXCEPT ![h] = r]
At(h, op) == request[h].op = op
Continue(h, r) == request' = [request EXCEPT ![h] = r]
Done(h) == request' = [request EXCEPT ![h] = Idle]

(* A statement fails, the client goes away or the process dies: the steps  *)
(* taken so far stay.                                                      *)
Abandon(h) == request[h] # Idle /\ Done(h)
=============================================================================
