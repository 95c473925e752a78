--------------------------- MODULE TunnelManager ---------------------------
(***************************************************************************)
(* The manager of the cloudflared subprocess: internal/tunnel/tunnel.go,   *)
(* with its callers, the settings handler (internal/handler/template.go,   *)
(* TunnelSettingsUpdate) and main (cmd/gamwich/main.go: Start at boot,     *)
(* Stop at shutdown).                                                      *)
(*                                                                         *)
(* Every goroutine runs one action per critical section of m.mu or per     *)
(* blocking step.  A run is one goroutine of run(); its identity also      *)
(* names the context and the done channel that Start made for it.          *)
(***************************************************************************)
EXTENDS Integers, FiniteSets

CONSTANTS
    Tokens,      \* tunnel tokens
    NoToken,     \* the empty token
    Handlers,    \* goroutines serving PUT /partials/settings/tunnel
    Main,        \* the goroutine of main
    Runs,        \* identities of run() goroutines
    NoRun,       \* nil
    MaxFailures, \* maxFailures in run()
    OneAtATime,  \* TRUE: a settings request starts after the previous ended
    SlowStops    \* the callers whose Stop may hit its 10 s limit

Callers == Handlers \cup {Main}

ASSUME TunnelAssumption ==
    /\ NoToken \notin Tokens
    /\ Main \notin Handlers
    /\ NoRun \notin Runs
    /\ MaxFailures \in Nat \ {0}
    /\ OneAtATime \in BOOLEAN
    /\ SlowStops \subseteq Callers

Configs == [token : Tokens \cup {NoToken}, enabled : BOOLEAN]

(* Locals of a goroutine that has ended hold a fixed value.                *)
NoConfig == [token |-> NoToken, enabled |-> FALSE]

States == {"disabled", "stopped", "connecting", "connected", "reconnecting",
           "error"}

RunPcs == {"free",    \* no such goroutine
           "top",     \* before the context check of the loop
           "begin",   \* in runOnce, before it reads the token
           "spawn",   \* token read, cloudflared not started
           "alive",   \* cloudflared runs
           "exited",  \* cloudflared ended, its log events may still come
           "after",   \* runOnce returned
           "fail",    \* context found live, failure not counted yet
           "backoff", \* waiting to retry
           "exit"}    \* in the deferred function

VARIABLES
    stored,       \* the tunnel_token and tunnel_enabled rows
    lost,         \* history: the rows that are not what was last asked for,
                  \* because the write, or the read at boot, failed
    cfg,          \* m.cfg
    status,       \* m.status.State
    failureCount, \* m.failureCount
    current,      \* the run whose cancel and done m holds: both fields are
                  \* always written together, under m.mu
    runPc, runToken,
    parent,       \* the parent of the run's context
    ctxDone,      \* the run's context is cancelled
    doneClosed,   \* the run's done channel is closed
    opPc,         \* where each caller is
    want,         \* the configuration a handler was given
    target        \* the run a caller waits for in Stop

mVars == <<cfg, status, failureCount, current>>
runVars == <<runPc, runToken, parent, ctxDone, doneClosed>>
opVars == <<opPc, want, target>>
settings == <<stored, lost>>
vars == <<settings, mVars, runVars, opVars>>

OpPcs == {"idle", "saved", "swap", "stop", "wait", "clear", "start",
          "boot", "serving", "down", "dead"}

TypeOK ==
    /\ stored \in Configs
    /\ lost \subseteq {"token", "enabled"}
    /\ cfg \in Configs
    /\ status \in States
    /\ failureCount \in Nat
    /\ current \in Runs \cup {NoRun}
    /\ runPc \in [Runs -> RunPcs]
    /\ runToken \in [Runs -> Tokens \cup {NoToken}]
    /\ parent \in [Runs -> {"main", "background"}]
    /\ ctxDone \in [Runs -> BOOLEAN]
    /\ doneClosed \in [Runs -> BOOLEAN]
    /\ opPc \in [Callers -> OpPcs]
    /\ want \in [Callers -> Configs]
    /\ target \in [Callers -> Runs \cup {NoRun}]

(* The test of UpdateConfig between its two branches. *)
Wanted(c) == c.enabled /\ c.token # NoToken

(* The server reads the rows before anything runs; if it cannot, it goes   *)
(* on with the empty configuration.                                        *)
Init ==
    /\ stored \in Configs
    /\ \/ cfg = stored /\ lost = {}
       \/ cfg = NoConfig /\ lost = {"token", "enabled"}
    /\ status = IF cfg.token = NoToken THEN "disabled" ELSE "stopped"
    /\ failureCount = 0
    /\ current = NoRun
    /\ runPc = [r \in Runs |-> "free"]
    /\ runToken = [r \in Runs |-> NoToken]
    /\ parent = [r \in Runs |-> "background"]
    /\ ctxDone = [r \in Runs |-> FALSE]
    /\ doneClosed = [r \in Runs |-> FALSE]
    /\ opPc = [c \in Callers |-> IF c = Main THEN "boot" ELSE "idle"]
    /\ want = [c \in Callers |-> NoConfig]
    /\ target = [c \in Callers |-> NoRun]

-----------------------------------------------------------------------------
(* Start, Stop and UpdateConfig *)

(* Goroutines and channels nobody refers to any more: a new run may take   *)
(* the identity of one.                                                    *)
FreshRuns == {r \in Runs : /\ runPc[r] = "free"
                           /\ r # current
                           /\ \A c \in Callers : target[c] # r}

(* Start, one critical section.  It looks at the token and never at        *)
(* cfg.enabled.                                                            *)
Start(from) ==
    \/ /\ current # NoRun
       /\ UNCHANGED <<mVars, runVars>>
    \/ /\ current = NoRun
       /\ cfg.token = NoToken
       /\ status' = "disabled"
       /\ UNCHANGED <<cfg, failureCount, current, runVars>>
    \/ /\ current = NoRun          \* cloudflared is not in PATH
       /\ cfg.token # NoToken
       /\ status' = "error"
       /\ UNCHANGED <<cfg, failureCount, current, runVars>>
    \/ /\ current = NoRun
       /\ cfg.token # NoToken
       /\ \E r \in FreshRuns :
            /\ current' = r
            /\ runPc' = [runPc EXCEPT ![r] = "top"]
            /\ parent' = [parent EXCEPT ![r] = from]
            /\ ctxDone' = [ctxDone EXCEPT ![r] = FALSE]
            /\ doneClosed' = [doneClosed EXCEPT ![r] = FALSE]
       /\ failureCount' = 0
       /\ status' = "connecting"
       /\ UNCHANGED <<cfg, runToken>>

(* Fault: Stop cancels the run and does not wait for it.                   *)
StopBeginNoWait(c, next) ==
    /\ opPc' = [opPc EXCEPT ![c] = next]
    /\ ctxDone' = IF current = NoRun THEN ctxDone
                  ELSE [ctxDone EXCEPT ![current] = TRUE]
    /\ UNCHANGED target

(* Stop up to its wait: reads cancel and done, cancels, and waits only if  *)
(* there was a run.                                                        *)
StopBegin(c, next) ==
    IF current = NoRun
    THEN /\ opPc' = [opPc EXCEPT ![c] = next]
         /\ UNCHANGED <<target, ctxDone>>
    ELSE /\ opPc' = [opPc EXCEPT ![c] = "wait"]
         /\ target' = [target EXCEPT ![c] = current]
         /\ ctxDone' = [ctxDone EXCEPT ![current] = TRUE]

(* The select of Stop: the channel is closed, or ten seconds have passed.  *)
StopEnd(c, next) ==
    /\ opPc[c] = "wait"
    /\ doneClosed[target[c]] \/ c \in SlowStops
    /\ opPc' = [opPc EXCEPT ![c] = next]
    /\ target' = [target EXCEPT ![c] = NoRun]
    /\ UNCHANGED <<settings, mVars, runVars, want>>

-----------------------------------------------------------------------------
(* A settings request: TunnelSettingsUpdate and the UpdateConfig it calls. *)
(* The handler looks at neither write's error: after a failed one it goes  *)
(* on to apply what it could not store.                                    *)

SaveToken(h) ==
    /\ opPc[h] = "idle"
    /\ opPc[Main] # "boot"
    /\ OneAtATime => \A g \in Handlers : opPc[g] = "idle"
    /\ \E w \in Configs :
         /\ want' = [want EXCEPT ![h] = w]
         /\ \/ /\ stored' = [stored EXCEPT !.token = w.token]
               /\ lost' = lost \ {"token"}
            \/ /\ lost' = lost \cup {"token"}
               /\ UNCHANGED stored
    /\ opPc' = [opPc EXCEPT ![h] = "saved"]
    /\ UNCHANGED <<mVars, runVars, target>>

SaveEnabled(h) ==
    /\ opPc[h] = "saved"
    /\ \/ /\ stored' = [stored EXCEPT !.enabled = want[h].enabled]
          /\ lost' = lost \ {"enabled"}
       \/ /\ lost' = lost \cup {"enabled"}
          /\ UNCHANGED stored
    /\ opPc' = [opPc EXCEPT ![h] = "swap"]
    /\ UNCHANGED <<mVars, runVars, want, target>>

(* Fault: a new token alone does not restart the tunnel.                   *)
MustRestartIgnoringToken(old, new) == old.token = NoToken \/ ~old.enabled

(* The restart test reads the configuration it replaces. *)
MustRestart(old, new) ==
    new.token # old.token \/ old.token = NoToken \/ ~old.enabled

SwapConfig(h) ==
    /\ opPc[h] = "swap"
    /\ cfg' = want[h]
    /\ opPc' = [opPc EXCEPT ![h] =
                  IF ~Wanted(want[h]) \/ MustRestart(cfg, want[h])
                  THEN "stop" ELSE "idle"]
    /\ want' = IF opPc'[h] = "idle" THEN [want EXCEPT ![h] = NoConfig] ELSE want
    /\ UNCHANGED <<settings, status, failureCount, current, runVars, target>>

HandlerStop(h) ==
    /\ opPc[h] = "stop"
    /\ StopBegin(h, "clear")
    /\ UNCHANGED <<settings, mVars, runPc, runToken, parent, doneClosed, want>>

HandlerStopped(h) == StopEnd(h, "clear")

(* After Stop, UpdateConfig forgets cancel and done whatever they hold by  *)
(* now; the branch that disables the tunnel also sets the status.          *)
ClearRun(h) ==
    /\ opPc[h] = "clear"
    /\ current' = NoRun
    /\ status' = IF Wanted(want[h]) THEN status
                 ELSE IF want[h].token = NoToken THEN "disabled"
                 ELSE "stopped"
    /\ opPc' = [opPc EXCEPT ![h] = IF Wanted(want[h]) THEN "start" ELSE "idle"]
    /\ want' = [want EXCEPT ![h] = NoConfig]
    /\ UNCHANGED <<settings, cfg, failureCount, runVars, target>>

HandlerStart(h) ==
    /\ opPc[h] = "start"
    /\ Start("background")
    /\ opPc' = [opPc EXCEPT ![h] = "idle"]
    /\ UNCHANGED <<settings, want, target>>

-----------------------------------------------------------------------------
(* main: Start at boot when the license has the feature; at shutdown       *)
(* tunnelCancel and Stop.  Requests are still served after that.           *)

BootStart ==
    /\ opPc[Main] = "boot"
    /\ opPc' = [opPc EXCEPT ![Main] = "serving"]
    /\ Start("main")
    /\ UNCHANGED <<settings, want, target>>

BootUnlicensed ==
    /\ opPc[Main] = "boot"
    /\ opPc' = [opPc EXCEPT ![Main] = "serving"]
    /\ UNCHANGED <<settings, mVars, runVars, want, target>>

TunnelCancel ==
    /\ opPc[Main] = "serving"
    /\ ctxDone' = [r \in Runs |-> ctxDone[r] \/ parent[r] = "main"]
    /\ opPc' = [opPc EXCEPT ![Main] = "stop"]
    /\ UNCHANGED <<settings, mVars, runPc, runToken, parent, doneClosed, want,
                   target>>

MainStop ==
    /\ opPc[Main] = "stop"
    /\ StopBegin(Main, "down")
    /\ UNCHANGED <<settings, mVars, runPc, runToken, parent, doneClosed, want>>

MainStopped == StopEnd(Main, "down")

-----------------------------------------------------------------------------
(* run: the retry loop *)

GoTo(r, pc) == runPc' = [runPc EXCEPT ![r] = pc]

(* The select on ctx.Done with a default, at the top of the loop and after *)
(* runOnce.                                                                *)
CheckContext(r, here, next) ==
    /\ runPc[r] = here
    /\ IF ctxDone[r]
       THEN GoTo(r, "exit") /\ status' = "stopped"
       ELSE GoTo(r, next) /\ UNCHANGED status
    /\ UNCHANGED <<settings, cfg, failureCount, current, runToken, parent,
                   ctxDone, doneClosed, opVars>>

RunTop(r) == CheckContext(r, "top", "begin")

RunAfter(r) == CheckContext(r, "after", "fail")

ReadToken(r) ==
    /\ runPc[r] = "begin"
    /\ runToken' = [runToken EXCEPT ![r] = cfg.token]
    /\ GoTo(r, "spawn")
    /\ UNCHANGED <<settings, mVars, parent, ctxDone, doneClosed, opVars>>

(* cmd.Start may fail, and always does under a context that is cancelled.  *)
Spawn(r) ==
    /\ runPc[r] = "spawn"
    /\ \/ ~ctxDone[r] /\ GoTo(r, "alive") /\ UNCHANGED runToken
       \/ GoTo(r, "after") /\ runToken' = [runToken EXCEPT ![r] = NoToken]
    /\ UNCHANGED <<settings, mVars, parent, ctxDone, doneClosed, opVars>>

(* Fault: every event, not only a connection, forgets the failures.        *)
LogEventForgetful(r, s) ==
    /\ runPc[r] \in {"alive", "exited"}
    /\ status' = s
    /\ failureCount' = 0
    /\ UNCHANGED <<settings, cfg, current, runVars, opVars>>

(* A log line of cloudflared, handled by the select of runOnce; buffered   *)
(* lines may still be handled after the process has ended, or be lost.     *)
LogEvent(r, s) ==
    /\ runPc[r] \in {"alive", "exited"}
    /\ status' = s
    /\ failureCount' = IF s = "connected" THEN 0 ELSE failureCount
    /\ UNCHANGED <<settings, cfg, current, runVars, opVars>>

(* cloudflared ends: by itself, or killed because the context is done.     *)
ProcessExit(r) ==
    /\ runPc[r] = "alive"
    /\ GoTo(r, "exited")
    /\ UNCHANGED <<settings, mVars, runToken, parent, ctxDone, doneClosed,
                   opVars>>

RunOnceReturns(r) ==
    /\ runPc[r] = "exited"
    /\ GoTo(r, "after")
    /\ runToken' = [runToken EXCEPT ![r] = NoToken]
    /\ UNCHANGED <<settings, mVars, parent, ctxDone, doneClosed, opVars>>

(* Fault: the count goes the wrong way.                                    *)
CountFailureDown(r) ==
    /\ runPc[r] = "fail"
    /\ failureCount' = failureCount - 1
    /\ GoTo(r, "backoff")
    /\ status' = "reconnecting"
    /\ UNCHANGED <<settings, cfg, current, runToken, parent, ctxDone,
                   doneClosed, opVars>>

CountFailure(r) ==
    /\ runPc[r] = "fail"
    /\ failureCount' = failureCount + 1
    /\ IF failureCount' >= MaxFailures
       THEN GoTo(r, "exit") /\ status' = "error"
       ELSE GoTo(r, "backoff") /\ status' = "reconnecting"
    /\ UNCHANGED <<settings, cfg, current, runToken, parent, ctxDone,
                   doneClosed, opVars>>

(* The last select: either arm when both are ready.                        *)
Backoff(r) ==
    /\ runPc[r] = "backoff"
    /\ \/ GoTo(r, "top") /\ UNCHANGED status
       \/ ctxDone[r] /\ GoTo(r, "exit") /\ status' = "stopped"
    /\ UNCHANGED <<settings, cfg, failureCount, current, runToken, parent,
                   ctxDone, doneClosed, opVars>>

(* Fault: the deferred function forgets the run and never closes done.     *)
RunExitSilent(r) ==
    /\ runPc[r] = "exit"
    /\ current' = NoRun
    /\ GoTo(r, "free")
    /\ parent' = [parent EXCEPT ![r] = "background"]
    /\ ctxDone' = [ctxDone EXCEPT ![r] = FALSE]
    /\ UNCHANGED <<doneClosed, settings, cfg, status, failureCount, runToken,
                   opVars>>

(* The deferred function closes the channel m.done holds by then, which is *)
(* this run's own only if nobody replaced it.  close of a nil or closed    *)
(* channel panics: every goroutine is gone with the program.               *)
RunExit(r) ==
    /\ runPc[r] = "exit"
    /\ IF current # NoRun /\ ~doneClosed[current]
       THEN /\ doneClosed' = [doneClosed EXCEPT ![current] = TRUE]
            /\ current' = NoRun
            /\ GoTo(r, "free")
            /\ parent' = [parent EXCEPT ![r] = "background"]
            /\ ctxDone' = [ctxDone EXCEPT ![r] = FALSE]
            /\ UNCHANGED opPc
       ELSE /\ runPc' = [q \in Runs |-> "free"]
            /\ opPc' = [c \in Callers |-> "dead"]
            /\ UNCHANGED <<current, parent, ctxDone, doneClosed>>
    /\ UNCHANGED <<settings, cfg, status, failureCount, runToken, want, target>>

-----------------------------------------------------------------------------

HandlerStep(h) ==
    \/ SaveEnabled(h) \/ SwapConfig(h) \/ HandlerStop(h) \/ HandlerStopped(h)
    \/ ClearRun(h) \/ HandlerStart(h)

MainStep ==
    \/ BootStart \/ BootUnlicensed \/ TunnelCancel \/ MainStop \/ MainStopped

(* The steps of a run that the scheduler owes it.                          *)
RunStep(r) ==
    \/ RunTop(r) \/ ReadToken(r) \/ Spawn(r) \/ RunOnceReturns(r)
    \/ RunAfter(r) \/ CountFailure(r) \/ Backoff(r) \/ RunExit(r)

Next ==
    \/ MainStep
    \/ \E h \in Handlers : SaveToken(h) \/ HandlerStep(h)
    \/ \E r \in Runs : RunStep(r) \/ ProcessExit(r)
    \/ \E r \in Runs, s \in {"connected", "reconnecting"} : LogEvent(r, s)

Spec == Init /\ [][Next]_vars

(* Goroutines that can go on do, and the kernel ends a killed process; a   *)
(* request, a log line, a process ending by itself and the shutdown signal *)
(* are owed by nobody.                                                     *)
Fairness ==
    /\ \A h \in Handlers : WF_vars(HandlerStep(h))
    /\ \A r \in Runs : /\ WF_vars(RunStep(r))
                       /\ WF_vars(ctxDone[r] /\ ProcessExit(r))
    /\ WF_vars(MainStop \/ MainStopped)

FairSpec == Spec /\ Fairness

-----------------------------------------------------------------------------
(* Properties *)

Live(r) == runPc[r] # "free"

(* No goroutine closes a nil or a closed channel: run's deferred close of  *)
(* m.done never brings the program down.                                   *)
NoPanic == opPc[Main] # "dead"

(* "Manager manages a cloudflared tunnel subprocess": never two of them.   *)
OneProcess ==
    \A r, q \in Runs : runPc[r] = "alive" /\ runPc[q] = "alive" => r = q

(* Every live run is the one m.cancel and m.done belong to, so that Stop   *)
(* reaches it: no run, hence no cloudflared, escapes the manager.          *)
RunsAreManaged == \A r \in Runs : Live(r) => current = r

(* When no settings request is under way, what is stored, what the manager *)
(* holds, what runs and what the status says agree: each row is the        *)
(* configuration in use unless the write that was to store it failed (or   *)
(* the read at boot did), cloudflared has the configured token, a disabled *)
(* tunnel has no run (main's, started at boot, excepted: Start does not    *)
(* look at enabled), and the status claims a tunnel only while a run lives.*)
SettingsApplied ==
    (opPc[Main] # "boot" /\ \A h \in Handlers : opPc[h] = "idle") =>
        /\ "token" \notin lost => stored.token = cfg.token
        /\ "enabled" \notin lost => stored.enabled = cfg.enabled
        /\ \A r \in Runs :
             /\ runPc[r] = "alive" => runToken[r] = cfg.token
             /\ Live(r) /\ ~Wanted(cfg) => parent[r] = "main"
        /\ status = "disabled" <=> cfg.token = NoToken
        /\ current = NoRun => status \in {"disabled", "stopped", "error"}

(* A tunnel that is switched off in the settings does not run: "No-op if   *)
(* already running or disabled" (tunnel.go:86) and "Start tunnel if        *)
(* enabled and licensed" (main.go:157).                                    *)
StartHonoursEnabled ==
    (\A h \in Handlers : opPc[h] = "idle") /\ ~cfg.enabled =>
        \A r \in Runs : ~Live(r)

(* Every settings request ends, though it waits for the old run to stop.   *)
UpdateReturns == \A h \in Handlers : opPc[h] # "idle" ~> opPc[h] = "idle"

(* A run does not retry for ever: if it backs off again and again, either  *)
(* a connection was registered again and again, or it ended in between.    *)
RetriesAreBounded ==
    \A r \in Runs : []<>(runPc[r] = "backoff") =>
        []<>(status = "connected") \/ []<>(runPc[r] = "free")
=============================================================================
