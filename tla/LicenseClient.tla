--------------------------- MODULE LicenseClient ---------------------------
(***************************************************************************)
(* The license client: internal/license/client.go, with its callers, the   *)
(* settings handler LicenseKeyUpdate (internal/handler/template.go) and    *)
(* main, which validates at boot and starts the licensed services          *)
(* (cmd/gamwich/main.go).  The billing service is the environment: what it *)
(* grants to a key may change at any time, and it may be out of reach.     *)
(*                                                                         *)
(* Validate runs in the goroutine of Start (first in main's, at boot) and  *)
(* in the goroutine of every settings request; it holds c.mu only while it *)
(* reads the key and while it writes the status, not during the call.      *)
(*                                                                         *)
(* The clock is kept as ages, in units of CheckInterval; an age beyond the *)
(* grace period stays where it is, nothing tells it from a greater one.    *)
(***************************************************************************)
EXTENDS Integers

CONSTANTS
    Keys,     \* license keys
    NoKey,    \* the empty key: free tier
    EnvKey,   \* GAMWICH_LICENSE_KEY
    Features, \* what a license grants, and main and the pages ask for
    Updaters, \* goroutines serving PUT /partials/settings/license
    Loop,     \* the goroutine of Start, and main before it
    Grace,    \* GracePeriod, in CheckIntervals
    Never     \* the zero time of LastChecked

Validators == Updaters \cup {Loop}

ASSUME LicenseAssumption ==
    /\ NoKey \notin Keys
    /\ EnvKey \in Keys \cup {NoKey}
    /\ Loop \notin Updaters
    /\ Grace \in Nat \ {0}
    /\ Never \notin Nat

AnyKey == Keys \cup {NoKey}
Ages == 0..(Grace + 1)

(* Status: Plan, ExpiresAt and Warning follow Valid and are left out.      *)
LicenseStatuses == [valid : BOOLEAN, features : SUBSET Features,
                    age : Ages \cup {Never}, offline : BOOLEAN]

Pcs == {"idle",     \* no request; for Loop, waiting for the ticker
        "set",      \* in SetKey, before its lock
        "read",     \* in Validate, before it reads the key
        "free",     \* an empty key was read, the status is not yet written
        "ask",      \* the call is under way
        "answered", \* the answer has come, the status is not yet written
        "failed",   \* the call failed, the same
        "save",     \* the handler has yet to store the key
        "boot"}     \* main has validated and starts the services

VARIABLES
    key,      \* c.cfg.Key
    status,   \* c.status
    stored,   \* the license_key row
    call,     \* the locals of every validator
    due,      \* the ticker's channel holds a tick
    serving,  \* main has started the services and the server
    services, \* the features whose service main started
    grants,   \* the billing service: what each key is good for, {} if nothing
    up,       \* the billing service can be reached and answers
    granted   \* history: time since an answer last granted each feature

licenseVars == <<key, status, stored, call, due, serving, services, grants,
                 up, granted>>

LicenseTypeOK ==
    /\ key \in AnyKey
    /\ status \in LicenseStatuses
    /\ stored \in AnyKey
    /\ call \in [Validators -> [pc : Pcs, want : AnyKey, asked : AnyKey,
                                answer : SUBSET Features]]
    /\ due \in BOOLEAN
    /\ serving \in BOOLEAN
    /\ services \subseteq Features
    /\ grants \in [Keys -> SUBSET Features]
    /\ up \in BOOLEAN
    /\ granted \in [Features -> Ages]

Free(age) == [valid |-> FALSE, features |-> {}, age |-> age, offline |-> FALSE]

(* A validator at pc whose locals hold nothing.                            *)
AtPc(pc) == [pc |-> pc, want |-> NoKey, asked |-> NoKey, answer |-> {}]

(* NewClient, with the key main chooses: the row; the environment's when   *)
(* there is none or it cannot be read.                                     *)
BootKeys == {EnvKey} \cup ({stored} \ {NoKey})
BootCall == [v \in Validators |-> IF v = Loop THEN AtPc("read") ELSE AtPc("idle")]

LicenseInit ==
    /\ stored \in AnyKey
    /\ key \in BootKeys
    /\ status = Free(Never)
    /\ call = BootCall
    /\ due = FALSE
    /\ serving = FALSE
    /\ services = {}
    /\ grants \in [Keys -> SUBSET Features]
    /\ up \in BOOLEAN
    /\ granted = [f \in Features |-> Grace + 1]

(* HasFeature.  A status that is not valid keeps its features only while   *)
(* offline; both branches end with the grace period.                       *)
HasFeature(f) ==
    /\ f \in status.features
    /\ \/ ~status.valid /\ status.offline /\ status.age # Never
          /\ status.age < Grace
       \/ status.valid /\ (status.age = Never \/ status.age <= Grace)

-----------------------------------------------------------------------------
(* Validate *)

Goto(v, pc) == call' = [call EXCEPT ![v].pc = pc]

(* Validate returns to SetKey and its handler, to main, or to the loop.    *)
Return(v) ==
    call' = [call EXCEPT ![v] =
               IF v # Loop THEN [AtPc("save") EXCEPT !.want = call[v].want]
               ELSE IF serving THEN AtPc("idle") ELSE AtPc("boot")]

ReadKey(v) ==
    /\ call[v].pc = "read"
    /\ IF key = NoKey
       THEN Goto(v, "free")
       ELSE call' = [call EXCEPT ![v].pc = "ask", ![v].asked = key]
    /\ UNCHANGED <<key, status, stored, due, serving, services, grants, up,
                   granted>>

(* Fault: Validate returns at once for an empty key.                       *)
WriteFreeNothing(v) ==
    /\ call[v].pc = "free"
    /\ Return(v)
    /\ UNCHANGED <<key, status, stored, due, serving, services, grants, up,
                   granted>>

WriteFree(v) ==
    /\ call[v].pc = "free"
    /\ status' = Free(0)
    /\ Return(v)
    /\ UNCHANGED <<key, stored, due, serving, services, grants, up, granted>>

(* The billing service looks the key up and answers.                       *)
Reply(v) ==
    /\ call[v].pc = "ask"
    /\ up
    /\ call' = [call EXCEPT ![v].pc = "answered", ![v].asked = NoKey,
                            ![v].answer = grants[call[v].asked]]
    /\ granted' = [f \in Features |->
                     IF f \in grants[call[v].asked] THEN 0 ELSE granted[f]]
    /\ UNCHANGED <<key, status, stored, due, serving, services, grants, up>>

(* No connection, or a status other than 200.                              *)
CallFails(v) ==
    /\ call[v].pc = "ask"
    /\ ~up
    /\ call' = [call EXCEPT ![v].pc = "failed", ![v].asked = NoKey]
    /\ UNCHANGED <<key, status, stored, due, serving, services, grants, up,
                   granted>>

(* A body that does not decode: Validate returns, the status is untouched. *)
Garbled(v) ==
    /\ call[v].pc = "ask"
    /\ ~up
    /\ Return(v)
    /\ UNCHANGED <<key, status, stored, due, serving, services, grants, up,
                   granted>>

(* Fault: LastChecked is the service's time, and its clock is ahead.       *)
AcceptServerClock(v) ==
    /\ call[v].pc = "answered"
    /\ status' = [valid |-> call[v].answer # {}, features |-> call[v].answer,
                  age |-> -1, offline |-> FALSE]
    /\ Return(v)
    /\ UNCHANGED <<key, stored, due, serving, services, grants, up, granted>>

(* The answer becomes the status, whatever the key is by now.              *)
Accept(v) ==
    /\ call[v].pc = "answered"
    /\ status' = [valid |-> call[v].answer # {}, features |-> call[v].answer,
                  age |-> 0, offline |-> FALSE]
    /\ Return(v)
    /\ UNCHANGED <<key, stored, due, serving, services, grants, up, granted>>

(* Fault: a failed call counts as a check.                                 *)
GoOfflineChecked(v) ==
    /\ call[v].pc = "failed"
    /\ status' = [status EXCEPT !.offline = TRUE, !.age = 0]
    /\ Return(v)
    /\ UNCHANGED <<key, stored, due, serving, services, grants, up, granted>>

(* Fault: a failed call starts from an empty status.                       *)
GoOfflineEmpty(v) ==
    /\ call[v].pc = "failed"
    /\ status' = [Free(status.age) EXCEPT !.offline = TRUE]
    /\ Return(v)
    /\ UNCHANGED <<key, stored, due, serving, services, grants, up, granted>>

GoOffline(v) ==
    /\ call[v].pc = "failed"
    /\ status' = [status EXCEPT !.offline = TRUE]
    /\ Return(v)
    /\ UNCHANGED <<key, stored, due, serving, services, grants, up, granted>>

ValidateKey(v) ==
    ReadKey(v) \/ WriteFree(v) \/ Reply(v) \/ CallFails(v) \/ Garbled(v)
    \/ Accept(v) \/ GoOffline(v)

-----------------------------------------------------------------------------
(* LicenseKeyUpdate: SetKey, then the row *)

Request(h) ==
    /\ call[h].pc = "idle"
    /\ serving
    /\ \E k \in AnyKey : call' = [call EXCEPT ![h] = [AtPc("set") EXCEPT !.want = k]]
    /\ UNCHANGED <<key, status, stored, due, serving, services, grants, up,
                   granted>>

SetKey(h) ==
    /\ call[h].pc = "set"
    /\ key' = call[h].want
    /\ IF key' = NoKey
       THEN status' = Free(0) /\ Goto(h, "save")
       ELSE UNCHANGED status /\ Goto(h, "read")
    /\ UNCHANGED <<stored, due, serving, services, grants, up, granted>>

(* A Set that fails is ignored.                                            *)
SaveKey(h) ==
    /\ call[h].pc = "save"
    /\ stored' \in {stored, call[h].want}
    /\ call' = [call EXCEPT ![h] = AtPc("idle")]
    /\ UNCHANGED <<key, status, due, serving, services, grants, up, granted>>

-----------------------------------------------------------------------------
(* The loop, main and time *)

(* The services are started, or not, once: at boot.                        *)
StartServices ==
    /\ call[Loop].pc = "boot"
    /\ services' = {f \in Features : HasFeature(f)}
    /\ serving' = TRUE
    /\ Goto(Loop, "idle")
    /\ UNCHANGED <<key, status, stored, due, grants, up, granted>>

Ticker ==
    /\ call[Loop].pc = "idle"
    /\ due
    /\ due' = FALSE
    /\ Goto(Loop, "read")
    /\ UNCHANGED <<key, status, stored, serving, services, grants, up, granted>>

Older(age) == IF age = Never \/ age = Grace + 1 THEN age ELSE age + 1

(* A check interval passes.  A validation takes seconds: none spans one.   *)
Tick ==
    /\ \A v \in Validators : call[v].pc \in {"idle", "set", "read", "save"}
    /\ status' = [status EXCEPT !.age = Older(@)]
    /\ granted' = [f \in Features |-> Older(granted[f])]
    /\ due' = serving
    /\ UNCHANGED <<key, stored, call, serving, services, grants, up>>

(* The process ends at any point, and is started again.                    *)
Restart ==
    /\ key' \in BootKeys
    /\ status' = Free(Never)
    /\ call' = BootCall
    /\ due' = FALSE
    /\ serving' = FALSE
    /\ services' = {}
    /\ UNCHANGED <<stored, grants, up, granted>>

-----------------------------------------------------------------------------
(* The billing service *)

Regrant(k) ==
    /\ \E F \in SUBSET Features : grants' = [grants EXCEPT ![k] = F]
    /\ UNCHANGED <<key, status, stored, call, due, serving, services, up,
                   granted>>

Reachability ==
    /\ up' = ~up
    /\ UNCHANGED <<key, status, stored, call, due, serving, services, grants,
                   granted>>

-----------------------------------------------------------------------------

LicenseNext ==
    \/ \E v \in Validators : ValidateKey(v)
    \/ \E h \in Updaters : Request(h) \/ SetKey(h) \/ SaveKey(h)
    \/ StartServices \/ Ticker \/ Tick \/ Restart
    \/ \E k \in Keys : Regrant(k)
    \/ Reachability

LicenseSpec == LicenseInit /\ [][LicenseNext]_licenseVars

(* Goroutines that can go on do, an HTTP call ends within its ten seconds, *)
(* and time passes.                                                        *)
LicenseFairness ==
    /\ \A v \in Validators : WF_licenseVars(ValidateKey(v))
    /\ \A h \in Updaters : WF_licenseVars(SetKey(h) \/ SaveKey(h))
    /\ WF_licenseVars(StartServices) /\ WF_licenseVars(Ticker)
    /\ WF_licenseVars(Tick)

LicenseFairSpec == LicenseSpec /\ LicenseFairness

-----------------------------------------------------------------------------
(* Properties *)

(* No feature without the billing service's word: whatever calls fail, are *)
(* late or race with a change of key, a feature is on only if an answer    *)
(* granted it within the grace period.                                     *)
FeaturesAreGranted == \A f \in Features : HasFeature(f) => granted[f] <= Grace

(* "Features continue during grace period" (implementation-plan.md:393):   *)
(* until the program restarts, only an answer that does not grant it, an   *)
(* empty key, or the end of the grace period takes a feature away.         *)
OutageIsHarmless ==
    [][\A f \in Features : HasFeature(f) /\ ~HasFeature(f)' =>
         \/ \E v \in Validators : call[v].pc = "answered" /\ f \notin call[v].answer
         \/ key' = NoKey \/ \E v \in Validators : call[v].pc = "free"
         \/ status.age = Grace
         \/ ~serving']_licenseVars

(* The status settles: once neither the key nor what the service grants    *)
(* changes, and it can be reached, the status is what it says of the key,  *)
(* though an answer for an earlier key may have come last.                 *)
KeySettled ==
    status.features = IF key = NoKey THEN {} ELSE grants[key]

StatusSettles ==
    <>[]up /\ <>[][key' = key /\ grants' = grants /\ ~Restart]_licenseVars
        => <>[]KeySettled

(* "If subscription lapses, tunnel and backups stop"                       *)
(* (business-plan.md:225).                                                 *)
LapseStopsServices ==
    \A f \in Features :
        (f \in services /\ [](~HasFeature(f))) ~> f \notin services
=============================================================================
