------------------------------- MODULE MCPush -------------------------------
(* The instance of PushScheduler that TLC checks: two users of one         *)
(* household, one of another; a day has three minutes and each is an hour. *)
EXTENDS PushScheduler, TLC

Account(u, h) == [user |-> u, household |-> h]
Accounts == {Account("ann", "1"), Account("bob", "1"), Account("cid", "2")}

(* In the first two minutes, one with a tick, there are two devices, of    *)
(* ann and bob; one preference of reminders is switched and the scheduler  *)
(* stopped.  Then there is one device, of ann or of cid, in the hour that  *)
(* is left of the day and on the second day, which lasts until the records *)
(* of the first are cleaned up.  One record is lost on the first day, by a *)
(* failing statement or a crash, and no crash comes at another time.       *)
Bounded ==
    /\ disabled \subseteq {<<Account("ann", "1"), "chore_due">>}
    /\ disabled # {} => now <= 1 /\ SumFunction(repeats) = 0
    /\ \A n \in Reminders : n.date > 0 => repeats[n] = 0
    /\ crashes <= SumFunction(repeats) /\ SumFunction(repeats) <= 1
    /\ phase = "stopping" => now <= 1 /\ disabled = {}
    /\ \A d \in Subscribed : device[d].user # (IF now <= 1 THEN "cid" ELSE "bob")
    /\ now > 1 => Cardinality(Subscribed) <= 1

EndpointSymmetry == Permutations(Endpoints)
=============================================================================
