------------------------ MODULE TunnelManagerProofs ------------------------
(***************************************************************************)
(* Safety of the tunnel manager for any number of handlers, tokens and     *)
(* runs, when settings requests come one at a time and no handler's Stop   *)
(* hits its ten seconds.  Both conditions are needed: the run              *)
(* tunnel_concurrent shows what happens without the first, and a Stop that *)
(* gives up lets UpdateConfig forget a run that is still alive.            *)
(***************************************************************************)
EXTENDS TunnelManager, TLAPS

Serial == OneAtATime /\ SlowStops \subseteq {Main}

HandlerPcs == {"idle", "saved", "swap", "stop", "wait", "clear", "start"}

(* A handler has changed cfg and the old run is not known to be gone.      *)
Replacing == \E h \in Handlers : opPc[h] \in {"stop", "wait"}

(* Where the callers are: main is up, requests are served one at a time    *)
(* and not before boot, and a handler past Stop finds no run.              *)
CallersInv ==
    /\ opPc[Main] \in {"boot", "serving", "stop", "wait", "down"}
    /\ \A h \in Handlers : opPc[h] \in HandlerPcs
    /\ \A g, h \in Handlers : opPc[g] # "idle" /\ opPc[h] # "idle" => g = h
    /\ opPc[Main] = "boot" =>
         current = NoRun /\ \A h \in Handlers : opPc[h] = "idle"
    /\ \A h \in Handlers :
         /\ opPc[h] \in {"clear", "start"} => current = NoRun
         /\ opPc[h] = "wait" => current = NoRun \/ current = target[h]

(* The run m holds is alive and its channel is open; there is no other.    *)
CurrentInv ==
    /\ RunsAreManaged
    /\ current # NoRun => Live(current) /\ ~doneClosed[current]

(* What is stored, unless its write failed, what is in use and what the    *)
(* request under way wants.                                                *)
Kept(c) ==
    /\ "token" \notin lost => stored.token = c.token
    /\ "enabled" \notin lost => stored.enabled = c.enabled

StoredInv ==
    /\ (\A h \in Handlers : opPc[h] = "idle") => Kept(cfg)
    /\ \A h \in Handlers :
         /\ opPc[h] = "saved" /\ "token" \notin lost => stored.token = want[h].token
         /\ opPc[h] = "swap" => Kept(want[h])
         /\ opPc[h] \in {"stop", "wait", "clear"} => Kept(cfg) /\ cfg = want[h]
         /\ opPc[h] = "start" => Kept(cfg) /\ Wanted(cfg)

(* What runs, and what the status says of it.                              *)
RunningInv ==
    /\ \A r \in Runs : ~Replacing =>
         /\ runPc[r] \in {"spawn", "alive", "exited"} => runToken[r] = cfg.token
         /\ Live(r) /\ ~Wanted(cfg) => parent[r] = "main"
         /\ Live(r) => cfg.token # NoToken
    /\ \A r \in Runs :
         runPc[r] = "exit" => status \in {"disabled", "stopped", "error"}
    /\ current = NoRun => status \in {"disabled", "stopped", "error"}
    /\ (\A h \in Handlers : opPc[h] \in {"idle", "saved", "swap"}) =>
         (status = "disabled" <=> cfg.token = NoToken)

IInv == TypeOK /\ CallersInv /\ CurrentInv /\ StoredInv /\ RunningInv

-----------------------------------------------------------------------------
(* The initial states, then one lemma per part of the invariant; each has  *)
(* one step per action of Next.                                            *)

LEMMA InitEstablishes == Init => IInv
<1> SUFFICES ASSUME Init PROVE IInv
  OBVIOUS
<1> USE TunnelAssumption DEF Init, Callers, NoConfig
<1>1. TypeOK
  <2>1. stored \in Configs /\ lost \subseteq {"token", "enabled"} /\ cfg \in Configs
    <3>1. NoConfig \in Configs
      BY DEF Configs
    <3>2. CASE cfg = stored /\ lost = {}
      BY <3>2
    <3>3. CASE cfg = NoConfig /\ lost = {"token", "enabled"}
      BY <3>1, <3>3
    <3>. QED
      BY <3>2, <3>3
  <2>2. want \in [Callers -> Configs]
    BY DEF Configs
  <2>. QED
    BY <2>1, <2>2 DEF TypeOK, States, RunPcs, OpPcs
<1>2. CallersInv /\ CurrentInv
  BY DEF CallersInv, CurrentInv, HandlerPcs, RunsAreManaged, Live
<1>3. StoredInv
  BY DEF StoredInv, Kept
<1>4. RunningInv
  BY DEF RunningInv, Replacing, Live
<1>. QED
  BY <1>1, <1>2, <1>3, <1>4 DEF IInv

(* What Start and Stop do to the types, for any caller.                    *)
LEMMA StartTypes ==
    ASSUME TypeOK, NEW from \in {"main", "background"}, Start(from)
    PROVE  /\ cfg' = cfg /\ status' \in States /\ failureCount' \in Nat
           /\ current' \in Runs \cup {NoRun}
           /\ runPc' \in [Runs -> RunPcs] /\ runToken' = runToken
           /\ parent' \in [Runs -> {"main", "background"}]
           /\ ctxDone' \in [Runs -> BOOLEAN]
           /\ doneClosed' \in [Runs -> BOOLEAN]
<1> USE DEF TypeOK, States, RunPcs, mVars, runVars
<1>1. CASE UNCHANGED <<mVars, runVars>>
  BY <1>1
<1>2. CASE status' \in States /\ UNCHANGED <<cfg, failureCount, current, runVars>>
  BY <1>2
<1>3. ASSUME NEW r \in Runs,
             current' = r, runPc' = [runPc EXCEPT ![r] = "top"],
             parent' = [parent EXCEPT ![r] = from],
             ctxDone' = [ctxDone EXCEPT ![r] = FALSE],
             doneClosed' = [doneClosed EXCEPT ![r] = FALSE],
             failureCount' = 0, status' = "connecting",
             UNCHANGED <<cfg, runToken>>
      PROVE  /\ cfg' = cfg /\ status' \in States /\ failureCount' \in Nat
             /\ current' \in Runs \cup {NoRun}
             /\ runPc' \in [Runs -> RunPcs] /\ runToken' = runToken
             /\ parent' \in [Runs -> {"main", "background"}]
             /\ ctxDone' \in [Runs -> BOOLEAN]
             /\ doneClosed' \in [Runs -> BOOLEAN]
  BY <1>3
<1>. QED
  BY <1>1, <1>2, <1>3 DEF Start, FreshRuns

LEMMA StopTypes ==
    ASSUME TypeOK, NEW c \in Callers, NEW next \in OpPcs, StopBegin(c, next)
    PROVE  /\ opPc' \in [Callers -> OpPcs]
           /\ target' \in [Callers -> Runs \cup {NoRun}]
           /\ ctxDone' \in [Runs -> BOOLEAN]
<1>1. CASE current = NoRun
  BY <1>1 DEF StopBegin, TypeOK
<1>2. CASE current # NoRun
  BY <1>2 DEF StopBegin, TypeOK, OpPcs
<1>. QED
  BY <1>1, <1>2

LEMMA TypeStep == TypeOK /\ [Next]_vars => TypeOK'
<1> SUFFICES ASSUME TypeOK, [Next]_vars PROVE TypeOK'
  OBVIOUS
<1> USE TunnelAssumption DEF TypeOK, Callers, Configs, NoConfig, States, RunPcs,
        OpPcs, settings, mVars, runVars, opVars
<1>1. ASSUME NEW h \in Handlers, SaveToken(h)
      PROVE  TypeOK'
  BY <1>1 DEF SaveToken
<1>2. ASSUME NEW h \in Handlers, SaveEnabled(h)
      PROVE  TypeOK'
  BY <1>2 DEF SaveEnabled
<1>3. ASSUME NEW h \in Handlers, SwapConfig(h)
      PROVE  TypeOK'
  BY <1>3 DEF SwapConfig, MustRestart
<1>4. ASSUME NEW h \in Handlers, HandlerStop(h)
      PROVE  TypeOK'
  BY <1>4, StopTypes DEF HandlerStop
<1>5. ASSUME NEW h \in Handlers, HandlerStopped(h)
      PROVE  TypeOK'
  BY <1>5 DEF HandlerStopped, StopEnd
<1>6. ASSUME NEW h \in Handlers, ClearRun(h)
      PROVE  TypeOK'
  BY <1>6 DEF ClearRun
<1>7. ASSUME NEW h \in Handlers, HandlerStart(h)
      PROVE  TypeOK'
  BY <1>7, StartTypes DEF HandlerStart
<1>8. ASSUME BootStart
      PROVE  TypeOK'
  BY <1>8, StartTypes DEF BootStart
<1>9. ASSUME BootUnlicensed
      PROVE  TypeOK'
  BY <1>9 DEF BootUnlicensed
<1>10. ASSUME TunnelCancel
      PROVE  TypeOK'
  BY <1>10 DEF TunnelCancel
<1>11. ASSUME MainStop
      PROVE  TypeOK'
  BY <1>11, StopTypes DEF MainStop
<1>12. ASSUME MainStopped
      PROVE  TypeOK'
  BY <1>12 DEF MainStopped, StopEnd
<1>13. ASSUME NEW r \in Runs, RunTop(r)
      PROVE  TypeOK'
  BY <1>13 DEF RunTop, CheckContext, GoTo
<1>14. ASSUME NEW r \in Runs, ReadToken(r)
      PROVE  TypeOK'
  BY <1>14 DEF ReadToken, GoTo
<1>15. ASSUME NEW r \in Runs, Spawn(r)
      PROVE  TypeOK'
  BY <1>15 DEF Spawn, GoTo
<1>16. ASSUME NEW r \in Runs, RunOnceReturns(r)
      PROVE  TypeOK'
  BY <1>16 DEF RunOnceReturns, GoTo
<1>17. ASSUME NEW r \in Runs, RunAfter(r)
      PROVE  TypeOK'
  BY <1>17 DEF RunAfter, CheckContext, GoTo
<1>18. ASSUME NEW r \in Runs, CountFailure(r)
      PROVE  TypeOK'
  BY <1>18 DEF CountFailure, GoTo
<1>19. ASSUME NEW r \in Runs, Backoff(r)
      PROVE  TypeOK'
  BY <1>19 DEF Backoff, GoTo
<1>20. ASSUME NEW r \in Runs, RunExit(r)
      PROVE  TypeOK'
  <2>1. UNCHANGED <<settings, cfg, status, failureCount, runToken, want, target>>
    BY <1>20 DEF RunExit
  <2>2. CASE current # NoRun /\ ~doneClosed[current]
    <3>1. /\ runPc' \in [Runs -> RunPcs] /\ current' \in Runs \cup {NoRun}
          /\ parent' \in [Runs -> {"main", "background"}]
          /\ ctxDone' \in [Runs -> BOOLEAN]
      BY <1>20, <2>2 DEF RunExit, GoTo
    <3>2. doneClosed' \in [Runs -> BOOLEAN] /\ opPc' = opPc
      BY <1>20, <2>2 DEF RunExit
    <3>. QED
      BY <2>1, <3>1, <3>2
  <2>3. CASE ~(current # NoRun /\ ~doneClosed[current])
    BY <1>20, <2>1, <2>3 DEF RunExit
  <2>. QED
    BY <2>2, <2>3
<1>21. ASSUME NEW r \in Runs, ProcessExit(r)
      PROVE  TypeOK'
  BY <1>21 DEF ProcessExit, GoTo
<1>22. ASSUME NEW r \in Runs, NEW s \in {"connected", "reconnecting"},
             LogEvent(r, s)
      PROVE  TypeOK'
  BY <1>22 DEF LogEvent
<1>23. CASE UNCHANGED vars
  BY <1>23 DEF vars
<1>. QED
  BY <1>1, <1>2, <1>3, <1>4, <1>5, <1>6, <1>7, <1>8, <1>9, <1>10, <1>11, <1>12, <1>13, <1>14, <1>15, <1>16, <1>17, <1>18, <1>19, <1>20, <1>21, <1>22, <1>23
  DEF Next, MainStep, HandlerStep, RunStep

(* A handler that is past Stop finds no run: nobody else can start one.    *)
LEMMA CallersStep == Serial /\ TypeOK /\ CallersInv /\ CurrentInv /\ [Next]_vars => CallersInv'
<1> SUFFICES ASSUME Serial, TypeOK, CallersInv, CurrentInv, [Next]_vars PROVE CallersInv'
  OBVIOUS
<1> USE TunnelAssumption DEF TypeOK, Callers, settings, mVars, runVars, opVars,
        Serial, CallersInv, CurrentInv, HandlerPcs, RunsAreManaged, Live
<1>1. ASSUME NEW h \in Handlers, SaveToken(h)
      PROVE  CallersInv'
  BY <1>1 DEF SaveToken
<1>2. ASSUME NEW h \in Handlers, SaveEnabled(h)
      PROVE  CallersInv'
  BY <1>2 DEF SaveEnabled
<1>3. ASSUME NEW h \in Handlers, SwapConfig(h)
      PROVE  CallersInv'
  BY <1>3 DEF SwapConfig, MustRestart
<1>4. ASSUME NEW h \in Handlers, HandlerStop(h)
      PROVE  CallersInv'
  BY <1>4 DEF HandlerStop, StopBegin
<1>5. ASSUME NEW h \in Handlers, HandlerStopped(h)
      PROVE  CallersInv'
  BY <1>5 DEF HandlerStopped, StopEnd
<1>6. ASSUME NEW h \in Handlers, ClearRun(h)
      PROVE  CallersInv'
  BY <1>6 DEF ClearRun
<1>7. ASSUME NEW h \in Handlers, HandlerStart(h)
      PROVE  CallersInv'
  BY <1>7 DEF HandlerStart, Start, FreshRuns
<1>8. ASSUME BootStart
      PROVE  CallersInv'
  BY <1>8 DEF BootStart, Start, FreshRuns
<1>9. ASSUME BootUnlicensed
      PROVE  CallersInv'
  BY <1>9 DEF BootUnlicensed
<1>10. ASSUME TunnelCancel
      PROVE  CallersInv'
  BY <1>10 DEF TunnelCancel
<1>11. ASSUME MainStop
      PROVE  CallersInv'
  BY <1>11 DEF MainStop, StopBegin
<1>12. ASSUME MainStopped
      PROVE  CallersInv'
  BY <1>12 DEF MainStopped, StopEnd
<1>13. ASSUME NEW r \in Runs, RunTop(r)
      PROVE  CallersInv'
  BY <1>13 DEF RunTop, CheckContext, GoTo
<1>14. ASSUME NEW r \in Runs, ReadToken(r)
      PROVE  CallersInv'
  BY <1>14 DEF ReadToken, GoTo
<1>15. ASSUME NEW r \in Runs, Spawn(r)
      PROVE  CallersInv'
  BY <1>15 DEF Spawn, GoTo
<1>16. ASSUME NEW r \in Runs, RunOnceReturns(r)
      PROVE  CallersInv'
  BY <1>16 DEF RunOnceReturns, GoTo
<1>17. ASSUME NEW r \in Runs, RunAfter(r)
      PROVE  CallersInv'
  BY <1>17 DEF RunAfter, CheckContext, GoTo
<1>18. ASSUME NEW r \in Runs, CountFailure(r)
      PROVE  CallersInv'
  BY <1>18 DEF CountFailure, GoTo
<1>19. ASSUME NEW r \in Runs, Backoff(r)
      PROVE  CallersInv'
  BY <1>19 DEF Backoff, GoTo
<1>20. ASSUME NEW r \in Runs, RunExit(r)
      PROVE  CallersInv'
  BY <1>20 DEF RunExit, GoTo
<1>21. ASSUME NEW r \in Runs, ProcessExit(r)
      PROVE  CallersInv'
  BY <1>21 DEF ProcessExit, GoTo
<1>22. ASSUME NEW r \in Runs, NEW s \in {"connected", "reconnecting"},
             LogEvent(r, s)
      PROVE  CallersInv'
  BY <1>22 DEF LogEvent
<1>23. CASE UNCHANGED vars
  BY <1>23 DEF vars
<1>. QED
  BY <1>1, <1>2, <1>3, <1>4, <1>5, <1>6, <1>7, <1>8, <1>9, <1>10, <1>11, <1>12, <1>13, <1>14, <1>15, <1>16, <1>17, <1>18, <1>19, <1>20, <1>21, <1>22, <1>23
  DEF Next, MainStep, HandlerStep, RunStep

(* The run m holds changes only when there is none, or when it ends.       *)
LEMMA CurrentStep == Serial /\ TypeOK /\ CallersInv /\ CurrentInv /\ [Next]_vars => CurrentInv'
<1> SUFFICES ASSUME Serial, TypeOK, CallersInv, CurrentInv, [Next]_vars PROVE CurrentInv'
  OBVIOUS
<1> USE TunnelAssumption DEF TypeOK, Callers, settings, mVars, runVars, opVars,
        Serial, CallersInv, CurrentInv, RunsAreManaged, Live
<1>1. ASSUME NEW h \in Handlers, SaveToken(h)
      PROVE  CurrentInv'
  BY <1>1 DEF SaveToken
<1>2. ASSUME NEW h \in Handlers, SaveEnabled(h)
      PROVE  CurrentInv'
  BY <1>2 DEF SaveEnabled
<1>3. ASSUME NEW h \in Handlers, SwapConfig(h)
      PROVE  CurrentInv'
  BY <1>3 DEF SwapConfig, MustRestart
<1>4. ASSUME NEW h \in Handlers, HandlerStop(h)
      PROVE  CurrentInv'
  BY <1>4 DEF HandlerStop, StopBegin
<1>5. ASSUME NEW h \in Handlers, HandlerStopped(h)
      PROVE  CurrentInv'
  BY <1>5 DEF HandlerStopped, StopEnd
<1>6. ASSUME NEW h \in Handlers, ClearRun(h)
      PROVE  CurrentInv'
  BY <1>6 DEF ClearRun
<1>7. ASSUME NEW h \in Handlers, HandlerStart(h)
      PROVE  CurrentInv'
  BY <1>7 DEF HandlerStart, Start, FreshRuns
<1>8. ASSUME BootStart
      PROVE  CurrentInv'
  BY <1>8 DEF BootStart, Start, FreshRuns
<1>9. ASSUME BootUnlicensed
      PROVE  CurrentInv'
  BY <1>9 DEF BootUnlicensed
<1>10. ASSUME TunnelCancel
      PROVE  CurrentInv'
  BY <1>10 DEF TunnelCancel
<1>11. ASSUME MainStop
      PROVE  CurrentInv'
  BY <1>11 DEF MainStop, StopBegin
<1>12. ASSUME MainStopped
      PROVE  CurrentInv'
  BY <1>12 DEF MainStopped, StopEnd
<1>13. ASSUME NEW r \in Runs, RunTop(r)
      PROVE  CurrentInv'
  BY <1>13 DEF RunTop, CheckContext, GoTo
<1>14. ASSUME NEW r \in Runs, ReadToken(r)
      PROVE  CurrentInv'
  BY <1>14 DEF ReadToken, GoTo
<1>15. ASSUME NEW r \in Runs, Spawn(r)
      PROVE  CurrentInv'
  BY <1>15 DEF Spawn, GoTo
<1>16. ASSUME NEW r \in Runs, RunOnceReturns(r)
      PROVE  CurrentInv'
  BY <1>16 DEF RunOnceReturns, GoTo
<1>17. ASSUME NEW r \in Runs, RunAfter(r)
      PROVE  CurrentInv'
  BY <1>17 DEF RunAfter, CheckContext, GoTo
<1>18. ASSUME NEW r \in Runs, CountFailure(r)
      PROVE  CurrentInv'
  BY <1>18 DEF CountFailure, GoTo
<1>19. ASSUME NEW r \in Runs, Backoff(r)
      PROVE  CurrentInv'
  BY <1>19 DEF Backoff, GoTo
<1>20. ASSUME NEW r \in Runs, RunExit(r)
      PROVE  CurrentInv'
  BY <1>20 DEF RunExit, GoTo
<1>21. ASSUME NEW r \in Runs, ProcessExit(r)
      PROVE  CurrentInv'
  BY <1>21 DEF ProcessExit, GoTo
<1>22. ASSUME NEW r \in Runs, NEW s \in {"connected", "reconnecting"},
             LogEvent(r, s)
      PROVE  CurrentInv'
  BY <1>22 DEF LogEvent
<1>23. CASE UNCHANGED vars
  BY <1>23 DEF vars
<1>. QED
  BY <1>1, <1>2, <1>3, <1>4, <1>5, <1>6, <1>7, <1>8, <1>9, <1>10, <1>11, <1>12, <1>13, <1>14, <1>15, <1>16, <1>17, <1>18, <1>19, <1>20, <1>21, <1>22, <1>23
  DEF Next, MainStep, HandlerStep, RunStep

(* The rows are written before UpdateConfig takes the same values over.    *)
LEMMA StoredStep == Serial /\ TypeOK /\ CallersInv /\ StoredInv /\ [Next]_vars => StoredInv'
<1> SUFFICES ASSUME Serial, TypeOK, CallersInv, StoredInv, [Next]_vars PROVE StoredInv'
  OBVIOUS
<1> USE TunnelAssumption DEF TypeOK, Callers, settings, mVars, runVars, opVars,
        Serial, CallersInv, StoredInv, Kept, HandlerPcs, Wanted, Configs, NoConfig
<1>1. ASSUME NEW h \in Handlers, SaveToken(h)
      PROVE  StoredInv'
  BY <1>1 DEF SaveToken
<1>2. ASSUME NEW h \in Handlers, SaveEnabled(h)
      PROVE  StoredInv'
  BY <1>2 DEF SaveEnabled
<1>3. ASSUME NEW h \in Handlers, SwapConfig(h)
      PROVE  StoredInv'
  BY <1>3 DEF SwapConfig, MustRestart
<1>4. ASSUME NEW h \in Handlers, HandlerStop(h)
      PROVE  StoredInv'
  BY <1>4 DEF HandlerStop, StopBegin
<1>5. ASSUME NEW h \in Handlers, HandlerStopped(h)
      PROVE  StoredInv'
  BY <1>5 DEF HandlerStopped, StopEnd
<1>6. ASSUME NEW h \in Handlers, ClearRun(h)
      PROVE  StoredInv'
  BY <1>6 DEF ClearRun
<1>7. ASSUME NEW h \in Handlers, HandlerStart(h)
      PROVE  StoredInv'
  BY <1>7 DEF HandlerStart, Start, FreshRuns
<1>8. ASSUME BootStart
      PROVE  StoredInv'
  BY <1>8 DEF BootStart, Start, FreshRuns
<1>9. ASSUME BootUnlicensed
      PROVE  StoredInv'
  BY <1>9 DEF BootUnlicensed
<1>10. ASSUME TunnelCancel
      PROVE  StoredInv'
  BY <1>10 DEF TunnelCancel
<1>11. ASSUME MainStop
      PROVE  StoredInv'
  BY <1>11 DEF MainStop, StopBegin
<1>12. ASSUME MainStopped
      PROVE  StoredInv'
  BY <1>12 DEF MainStopped, StopEnd
<1>13. ASSUME NEW r \in Runs, RunTop(r)
      PROVE  StoredInv'
  BY <1>13 DEF RunTop, CheckContext, GoTo
<1>14. ASSUME NEW r \in Runs, ReadToken(r)
      PROVE  StoredInv'
  BY <1>14 DEF ReadToken, GoTo
<1>15. ASSUME NEW r \in Runs, Spawn(r)
      PROVE  StoredInv'
  BY <1>15 DEF Spawn, GoTo
<1>16. ASSUME NEW r \in Runs, RunOnceReturns(r)
      PROVE  StoredInv'
  BY <1>16 DEF RunOnceReturns, GoTo
<1>17. ASSUME NEW r \in Runs, RunAfter(r)
      PROVE  StoredInv'
  BY <1>17 DEF RunAfter, CheckContext, GoTo
<1>18. ASSUME NEW r \in Runs, CountFailure(r)
      PROVE  StoredInv'
  BY <1>18 DEF CountFailure, GoTo
<1>19. ASSUME NEW r \in Runs, Backoff(r)
      PROVE  StoredInv'
  BY <1>19 DEF Backoff, GoTo
<1>20. ASSUME NEW r \in Runs, RunExit(r)
      PROVE  StoredInv'
  BY <1>20 DEF RunExit, GoTo
<1>21. ASSUME NEW r \in Runs, ProcessExit(r)
      PROVE  StoredInv'
  BY <1>21 DEF ProcessExit, GoTo
<1>22. ASSUME NEW r \in Runs, NEW s \in {"connected", "reconnecting"},
             LogEvent(r, s)
      PROVE  StoredInv'
  BY <1>22 DEF LogEvent
<1>23. CASE UNCHANGED vars
  BY <1>23 DEF vars
<1>. QED
  BY <1>1, <1>2, <1>3, <1>4, <1>5, <1>6, <1>7, <1>8, <1>9, <1>10, <1>11, <1>12, <1>13, <1>14, <1>15, <1>16, <1>17, <1>18, <1>19, <1>20, <1>21, <1>22, <1>23
  DEF Next, MainStep, HandlerStep, RunStep

(* What runs fits the configuration unless a handler is replacing it.      *)
LEMMA RunningStep == Serial /\ TypeOK /\ CallersInv /\ CurrentInv /\ StoredInv /\ RunningInv /\ [Next]_vars => RunningInv'
<1> SUFFICES ASSUME Serial, TypeOK, CallersInv, CurrentInv, StoredInv, RunningInv, [Next]_vars PROVE RunningInv'
  OBVIOUS
<1> USE TunnelAssumption DEF TypeOK, Callers, settings, mVars, runVars, opVars,
        Serial, CallersInv, CurrentInv, RunsAreManaged, Live,
        StoredInv, RunningInv, Replacing, HandlerPcs, Wanted, Configs
<1>1. ASSUME NEW h \in Handlers, SaveToken(h)
      PROVE  RunningInv'
  BY <1>1 DEF SaveToken
<1>2. ASSUME NEW h \in Handlers, SaveEnabled(h)
      PROVE  RunningInv'
  BY <1>2 DEF SaveEnabled
<1>3. ASSUME NEW h \in Handlers, SwapConfig(h)
      PROVE  RunningInv'
  BY <1>3 DEF SwapConfig, MustRestart
<1>4. ASSUME NEW h \in Handlers, HandlerStop(h)
      PROVE  RunningInv'
  BY <1>4 DEF HandlerStop, StopBegin
<1>5. ASSUME NEW h \in Handlers, HandlerStopped(h)
      PROVE  RunningInv'
  BY <1>5 DEF HandlerStopped, StopEnd
<1>6. ASSUME NEW h \in Handlers, ClearRun(h)
      PROVE  RunningInv'
  BY <1>6 DEF ClearRun
<1>7. ASSUME NEW h \in Handlers, HandlerStart(h)
      PROVE  RunningInv'
  BY <1>7 DEF HandlerStart, Start, FreshRuns
<1>8. ASSUME BootStart
      PROVE  RunningInv'
  BY <1>8 DEF BootStart, Start, FreshRuns
<1>9. ASSUME BootUnlicensed
      PROVE  RunningInv'
  BY <1>9 DEF BootUnlicensed
<1>10. ASSUME TunnelCancel
      PROVE  RunningInv'
  BY <1>10 DEF TunnelCancel
<1>11. ASSUME MainStop
      PROVE  RunningInv'
  BY <1>11 DEF MainStop, StopBegin
<1>12. ASSUME MainStopped
      PROVE  RunningInv'
  BY <1>12 DEF MainStopped, StopEnd
<1>13. ASSUME NEW r \in Runs, RunTop(r)
      PROVE  RunningInv'
  BY <1>13 DEF RunTop, CheckContext, GoTo
<1>14. ASSUME NEW r \in Runs, ReadToken(r)
      PROVE  RunningInv'
  BY <1>14 DEF ReadToken, GoTo
<1>15. ASSUME NEW r \in Runs, Spawn(r)
      PROVE  RunningInv'
  BY <1>15 DEF Spawn, GoTo
<1>16. ASSUME NEW r \in Runs, RunOnceReturns(r)
      PROVE  RunningInv'
  BY <1>16 DEF RunOnceReturns, GoTo
<1>17. ASSUME NEW r \in Runs, RunAfter(r)
      PROVE  RunningInv'
  BY <1>17 DEF RunAfter, CheckContext, GoTo
<1>18. ASSUME NEW r \in Runs, CountFailure(r)
      PROVE  RunningInv'
  BY <1>18 DEF CountFailure, GoTo
<1>19. ASSUME NEW r \in Runs, Backoff(r)
      PROVE  RunningInv'
  BY <1>19 DEF Backoff, GoTo
<1>20. ASSUME NEW r \in Runs, RunExit(r)
      PROVE  RunningInv'
  BY <1>20 DEF RunExit, GoTo
<1>21. ASSUME NEW r \in Runs, ProcessExit(r)
      PROVE  RunningInv'
  BY <1>21 DEF ProcessExit, GoTo
<1>22. ASSUME NEW r \in Runs, NEW s \in {"connected", "reconnecting"},
             LogEvent(r, s)
      PROVE  RunningInv'
  BY <1>22 DEF LogEvent
<1>23. CASE UNCHANGED vars
  BY <1>23 DEF vars
<1>. QED
  BY <1>1, <1>2, <1>3, <1>4, <1>5, <1>6, <1>7, <1>8, <1>9, <1>10, <1>11, <1>12, <1>13, <1>14, <1>15, <1>16, <1>17, <1>18, <1>19, <1>20, <1>21, <1>22, <1>23
  DEF Next, MainStep, HandlerStep, RunStep

-----------------------------------------------------------------------------

(* Every variable keeps its type, whatever the handlers do.                *)
THEOREM TypeCorrect == Spec => []TypeOK
<1>1. Init => TypeOK
  BY InitEstablishes DEF IInv
<1>2. QED
  BY <1>1, TypeStep, PTL DEF Spec

LEMMA Inductive == ASSUME Serial PROVE Spec => []IInv
<1>1. IInv /\ [Next]_vars => IInv'
  BY TypeStep, CallersStep, CurrentStep, StoredStep, RunningStep DEF IInv
<1>2. QED
  BY <1>1, InitEstablishes, PTL DEF Spec

(* UpdateConfig, Start, Stop and run's deferred function never lose a run: *)
(* each live run is the one m.cancel belongs to.                           *)
THEOREM NoRunEscapes == ASSUME Serial PROVE Spec => []RunsAreManaged
<1>1. IInv => RunsAreManaged
  BY DEF IInv, CurrentInv
<1>2. QED
  BY <1>1, Inductive, PTL

(* The manager never runs two cloudflared processes.                       *)
THEOREM AtMostOneProcess == ASSUME Serial PROVE Spec => []OneProcess
<1>1. IInv => OneProcess
  BY DEF IInv, CurrentInv, RunsAreManaged, Live, OneProcess
<1>2. QED
  BY <1>1, Inductive, PTL

(* The close in run's deferred function never panics.                      *)
THEOREM NeverPanics == ASSUME Serial PROVE Spec => []NoPanic
<1>1. IInv => NoPanic
  BY DEF IInv, CallersInv, NoPanic
<1>2. QED
  BY <1>1, Inductive, PTL

(* Between requests the stored rows, those whose write failed excepted, the *)
(* configuration in use, the running process and the status agree.         *)
THEOREM SettingsTakeEffect == ASSUME Serial PROVE Spec => []SettingsApplied
<1>1. IInv => SettingsApplied
  BY DEF IInv, StoredInv, Kept, RunningInv, Replacing, SettingsApplied
<1>2. QED
  BY <1>1, Inductive, PTL
=============================================================================
