------------------------- MODULE WebSocketHubProofs -------------------------
(***************************************************************************)
(* Broadcast never sends on a closed channel, for any number of clients,   *)
(* senders and broadcasts and any buffer size.                             *)
(***************************************************************************)
EXTENDS WebSocketHub, TLAPS

(* A sender visits clients only while it holds the read lock, so nobody    *)
(* leaves under its feet; a channel is closed exactly when its client has  *)
(* left the map; and a client is in the map from Register to Unregister.   *)
HubInv ==
    /\ \A s \in Senders : visiting[s] # {} => s \in holds
    /\ \A s \in Senders : visiting[s] \subseteq clients
    /\ \A c \in Clients :
         c \in clients <=> runPc[c] \in {"registered", "reading", "unregister"}
    /\ \A c \in Clients : closed[c] => runPc[c] = "gone"

LEMMA HubInit == Init => TypeOK /\ HubInv
BY HubAssumption DEF Init, TypeOK, HubInv, RunPcs, PumpPcs, Messages

(* Types are kept by every step.                                           *)
LEMMA TypeStep == TypeOK /\ [Next]_vars => TypeOK'
<1> SUFFICES ASSUME TypeOK, [Next]_vars PROVE TypeOK'
  OBVIOUS
<1> USE HubAssumption DEF TypeOK, clientVars, pumpVars, senderVars, RunPcs, PumpPcs, Messages
<1>1. ASSUME NEW s \in Senders, BeginBroadcast(s)
      PROVE  TypeOK'
  <2>1. <<s, sent[s] + 1>> \in Messages
    OBVIOUS
  <2>2. due' \in [Clients -> SUBSET Messages]
    BY <1>1, <2>1 DEF BeginBroadcast
  <2>3. visiting' \in [Senders -> SUBSET Clients] /\ sent' \in [Senders -> Nat]
    BY <1>1 DEF BeginBroadcast
  <2>4. QED
    BY <1>1, <2>2, <2>3 DEF BeginBroadcast
<1>2. ASSUME NEW s \in Senders, EndBroadcast(s)
      PROVE  TypeOK'
  BY <1>2 DEF EndBroadcast
<1>3. ASSUME NEW s \in Senders, NEW c \in Clients, Visit(s, c)
      PROVE  TypeOK'
  <2>1. <<s, sent[s]>> \in Messages
    OBVIOUS
  <2>2. visiting' \in [Senders -> SUBSET Clients]
    BY <1>3 DEF Visit
  <2>3. CASE Len(queue[c]) < BufferSize
    <3> DEFINE longer == Append(queue[c], <<s, sent[s]>>)
    <3>1. longer \in Seq(Messages) /\ Len(longer) = Len(queue[c]) + 1
      BY <2>1
    <3>2. queue' = [queue EXCEPT ![c] = longer]
      BY <1>3, <2>3 DEF Visit
    <3> HIDE DEF longer
    <3>3. Len(queue[c]) \in Nat /\ Len(longer) <= BufferSize
      BY <2>3, <3>1
    <3>4. /\ queue' \in [Clients -> Seq(Messages)]
          /\ \A d \in Clients : Len(queue'[d]) <= BufferSize
      BY <3>1, <3>2, <3>3
    <3>5. UNCHANGED <<clientVars, pumpVars, holds, sent, due, dropped>>
      BY <1>3, <2>3 DEF Visit
    <3>6. QED
      BY <2>2, <3>4, <3>5
  <2>4. CASE ~(Len(queue[c]) < BufferSize)
    <3> DEFINE more == IF pump[c] = "ended" THEN dropped[c]
                       ELSE dropped[c] \cup {<<s, sent[s]>>}
    <3>1. more \in SUBSET Messages
      BY <2>1
    <3>2. queue' = queue /\ dropped' = [dropped EXCEPT ![c] = more]
      BY <1>3, <2>4 DEF Visit
    <3> HIDE DEF more
    <3>3. dropped' \in [Clients -> SUBSET Messages]
      BY <3>1, <3>2
    <3>4. QED
      BY <1>3, <2>2, <3>2, <3>3 DEF Visit
  <2>5. QED
    BY <2>3, <2>4
<1>4. ASSUME NEW c \in Clients, Accept(c)
      PROVE  TypeOK'
  BY <1>4 DEF Accept
<1>5. ASSUME NEW c \in Clients, Register(c)
      PROVE  TypeOK'
  BY <1>5 DEF Register
<1>6. ASSUME NEW c \in Clients, StartPumps(c)
      PROVE  TypeOK'
  BY <1>6 DEF StartPumps
<1>7. ASSUME NEW c \in Clients, ReadFails(c)
      PROVE  TypeOK'
  BY <1>7 DEF ReadFails
<1>8. ASSUME NEW c \in Clients, Unregister(c)
      PROVE  TypeOK'
  BY <1>8 DEF Unregister
<1>9. ASSUME NEW c \in Clients, Receive(c)
      PROVE  TypeOK'
  <2> DEFINE first == Head(queue[c])
             rest == Tail(queue[c])
  <2>1. queue[c] \in Seq(Messages) /\ queue[c] # <<>>
    BY <1>9 DEF Receive
  <2>2. /\ first \in Messages
        /\ rest \in Seq(Messages)
        /\ Len(rest) = Len(queue[c]) - 1
    BY <2>1
  <2>3. /\ queue' = [queue EXCEPT ![c] = rest]
        /\ writing' = [writing EXCEPT ![c] = {first}]
    BY <1>9 DEF Receive
  <2> HIDE DEF first, rest
  <2>4. Len(queue[c]) \in Nat /\ Len(rest) <= BufferSize
    BY <2>1, <2>2
  <2>5. /\ queue' \in [Clients -> Seq(Messages)]
        /\ \A d \in Clients : Len(queue'[d]) <= BufferSize
    BY <2>2, <2>3, <2>4
  <2>6. writing' \in [Clients -> SUBSET Messages]
    BY <2>2, <2>3
  <2>7. pump' \in [Clients -> PumpPcs]
    BY <1>9 DEF Receive
  <2>8. UNCHANGED <<clientVars, wire, senderVars, dropped>>
    BY <1>9 DEF Receive
  <2>9. QED
    BY <2>5, <2>6, <2>7, <2>8
<1>10. ASSUME NEW c \in Clients, WriteSucceeds(c)
      PROVE  TypeOK'
  <2>1. PICK m \in writing[c] : wire' = [wire EXCEPT ![c] = Append(@, m)]
    BY <1>10 DEF WriteSucceeds
  <2>2. wire' \in [Clients -> Seq(Messages)]
    <3>1. Append(wire[c], m) \in Seq(Messages)
      BY <2>1
    <3>2. QED
      BY <2>1, <3>1
  <2>3. QED
    BY <1>10, <2>2 DEF WriteSucceeds
<1>11. ASSUME NEW c \in Clients, BeginPing(c)
      PROVE  TypeOK'
  BY <1>11 DEF BeginPing
<1>12. ASSUME NEW c \in Clients, PingSucceeds(c)
      PROVE  TypeOK'
  BY <1>12 DEF PingSucceeds
<1>13. ASSUME NEW c \in Clients, PumpFails(c)
      PROVE  TypeOK'
  BY <1>13 DEF PumpFails, PumpEnds
<1>14. ASSUME NEW c \in Clients, PumpStops(c)
      PROVE  TypeOK'
  BY <1>14 DEF PumpStops, PumpEnds
<1>15. CASE UNCHANGED vars
  BY <1>15 DEF vars
<1>. QED
  BY <1>1, <1>2, <1>3, <1>4, <1>5, <1>6, <1>7, <1>8, <1>9, <1>10, <1>11, <1>12, <1>13, <1>14, <1>15 DEF Next

(* Register and Unregister wait for the read lock: no client leaves while a *)
(* broadcast still has to visit it.                                        *)
LEMMA HubStep == TypeOK /\ HubInv /\ [Next]_vars => HubInv'
<1> SUFFICES ASSUME TypeOK, HubInv, [Next]_vars PROVE HubInv'
  OBVIOUS
<1> USE HubAssumption DEF TypeOK, clientVars, pumpVars, senderVars, HubInv
<1>1. ASSUME NEW s \in Senders, BeginBroadcast(s)
      PROVE  HubInv'
  BY <1>1 DEF BeginBroadcast
<1>2. ASSUME NEW s \in Senders, EndBroadcast(s)
      PROVE  HubInv'
  BY <1>2 DEF EndBroadcast
<1>3. ASSUME NEW s \in Senders, NEW c \in Clients, Visit(s, c)
      PROVE  HubInv'
  <2>1. \A t \in Senders : visiting'[t] \subseteq visiting[t]
    BY <1>3 DEF Visit
  <2>2. UNCHANGED <<clients, runPc, closed, holds>>
    BY <1>3 DEF Visit
  <2>3. QED
    BY <2>1, <2>2
<1>4. ASSUME NEW c \in Clients, Accept(c)
      PROVE  HubInv'
  BY <1>4 DEF Accept
<1>5. ASSUME NEW c \in Clients, Register(c)
      PROVE  HubInv'
  <2>1. \A s \in Senders : visiting'[s] = {}
    BY <1>5 DEF Register
  <2>2. ~closed[c]
    BY <1>5 DEF Register
  <2>3. QED
    BY <1>5, <2>1, <2>2 DEF Register
<1>6. ASSUME NEW c \in Clients, StartPumps(c)
      PROVE  HubInv'
  BY <1>6 DEF StartPumps
<1>7. ASSUME NEW c \in Clients, ReadFails(c)
      PROVE  HubInv'
  BY <1>7 DEF ReadFails
<1>8. ASSUME NEW c \in Clients, Unregister(c)
      PROVE  HubInv'
  BY <1>8 DEF Unregister
<1>9. ASSUME NEW c \in Clients, Receive(c)
      PROVE  HubInv'
  BY <1>9 DEF Receive
<1>10. ASSUME NEW c \in Clients, WriteSucceeds(c)
      PROVE  HubInv'
  BY <1>10 DEF WriteSucceeds
<1>11. ASSUME NEW c \in Clients, BeginPing(c)
      PROVE  HubInv'
  BY <1>11 DEF BeginPing
<1>12. ASSUME NEW c \in Clients, PingSucceeds(c)
      PROVE  HubInv'
  BY <1>12 DEF PingSucceeds
<1>13. ASSUME NEW c \in Clients, PumpFails(c)
      PROVE  HubInv'
  BY <1>13 DEF PumpFails, PumpEnds
<1>14. ASSUME NEW c \in Clients, PumpStops(c)
      PROVE  HubInv'
  BY <1>14 DEF PumpStops, PumpEnds
<1>15. CASE UNCHANGED vars
  BY <1>15 DEF vars
<1>. QED
  BY <1>1, <1>2, <1>3, <1>4, <1>5, <1>6, <1>7, <1>8, <1>9, <1>10, <1>11, <1>12, <1>13, <1>14, <1>15 DEF Next

-----------------------------------------------------------------------------
(* Where the messages of a client are.  The pump holds one exactly while   *)
(* it writes, and is not started before the client is registered.          *)
Elements(q) == {q[i] : i \in 1..Len(q)}
Underway(c) == {<<s, sent[s]>> : s \in {t \in Senders : c \in visiting[t]}}

PumpInv ==
    \A c \in Clients :
        /\ runPc[c] \in {"new", "register", "registered"} => pump[c] = "none"
        /\ pump[c] = "writing" => \E m : writing[c] = {m}
        /\ pump[c] # "writing" => writing[c] = {}

LEMMA PumpStep == TypeOK /\ PumpInv /\ [Next]_vars => PumpInv'
<1> SUFFICES ASSUME TypeOK, PumpInv, [Next]_vars PROVE PumpInv'
  OBVIOUS
<1> USE DEF TypeOK, PumpInv, clientVars, pumpVars, senderVars
<1>1. CASE UNCHANGED <<runPc, pump, writing>>
  BY <1>1
<1>2. ASSUME NEW c \in Clients,
             Accept(c) \/ Register(c) \/ StartPumps(c) \/ ReadFails(c) \/ Unregister(c)
      PROVE  PumpInv'
  BY <1>2 DEF Accept, Register, StartPumps, ReadFails, Unregister
<1>3. ASSUME NEW c \in Clients, Receive(c)
      PROVE  PumpInv'
  BY <1>3 DEF Receive
<1>4. ASSUME NEW c \in Clients, WriteSucceeds(c) \/ BeginPing(c) \/ PingSucceeds(c)
      PROVE  PumpInv'
  BY <1>4 DEF WriteSucceeds, BeginPing, PingSucceeds
<1>5. ASSUME NEW c \in Clients, PumpFails(c) \/ PumpStops(c)
      PROVE  PumpInv'
  <2>1. runPc[c] \notin {"new", "register", "registered"}
    BY <1>5 DEF PumpFails, PumpStops
  <2>2. /\ pump' = [pump EXCEPT ![c] = "ended"]
        /\ writing' = [writing EXCEPT ![c] = {}]
        /\ UNCHANGED runPc
    BY <1>5 DEF PumpFails, PumpStops, PumpEnds
  <2>3. QED
    BY <2>1, <2>2
<1>. QED
  BY <1>1, <1>2, <1>3, <1>4, <1>5 DEF Next, vars, BeginBroadcast, EndBroadcast, Visit

LEMMA AppendElements ==
    ASSUME NEW S, NEW q \in Seq(S), NEW m \in S
    PROVE  Elements(Append(q, m)) = Elements(q) \cup {m}
<1>1. /\ Len(Append(q, m)) = Len(q) + 1
      /\ \A i \in 1..Len(q) : Append(q, m)[i] = q[i]
      /\ Append(q, m)[Len(q) + 1] = m
      /\ Len(q) \in Nat
  OBVIOUS
<1>2. 1..(Len(q) + 1) = (1..Len(q)) \cup {Len(q) + 1}
  BY <1>1
<1>3. QED
  BY <1>1, <1>2 DEF Elements

LEMMA TailElements ==
    ASSUME NEW S, NEW q \in Seq(S), q # <<>>
    PROVE  Elements(q) = {Head(q)} \cup Elements(Tail(q))
<1>1. /\ Len(q) \in Nat /\ Len(q) > 0
      /\ Len(Tail(q)) = Len(q) - 1
      /\ Head(q) = q[1]
      /\ \A i \in 1..(Len(q) - 1) : Tail(q)[i] = q[i + 1]
  OBVIOUS
<1>2. \A i \in 2..Len(q) : i - 1 \in 1..(Len(q) - 1) /\ (i - 1) + 1 = i
  BY <1>1
<1>3. \A i \in 2..Len(q) : q[i] = Tail(q)[i - 1]
  BY <1>1, <1>2
<1>4. 1..Len(q) = {1} \cup 2..Len(q)
  BY <1>1
<1>5. Elements(q) \subseteq {Head(q)} \cup Elements(Tail(q))
  <2>1. SUFFICES ASSUME NEW i \in 1..Len(q)
                 PROVE  q[i] \in {Head(q)} \cup Elements(Tail(q))
    BY DEF Elements
  <2>2. CASE i = 1
    BY <1>1, <2>2
  <2>3. CASE i # 1
    <3>1. i \in 2..Len(q)
      BY <1>1, <2>3
    <3>2. q[i] = Tail(q)[i - 1] /\ i - 1 \in 1..Len(Tail(q))
      BY <1>1, <1>2, <1>3, <3>1
    <3>3. QED
      BY <3>2 DEF Elements
  <2>4. QED
    BY <2>2, <2>3
<1>6. \A i \in 1..(Len(q) - 1) : i + 1 \in 1..Len(q)
  BY <1>1
<1>7. {Head(q)} \cup Elements(Tail(q)) \subseteq Elements(q)
  BY <1>1, <1>4, <1>6 DEF Elements
<1>8. QED
  BY <1>5, <1>7

(* What Accounted says of a client, with the sets above.                   *)
IsAccounted(c) ==
    pump[c] # "ended" =>
        due[c] = Underway(c) \cup Elements(queue[c]) \cup Elements(wire[c])
                     \cup writing[c] \cup dropped[c]

LEMMA AccountedStep ==
    TypeOK /\ HubInv /\ PumpInv /\ Accounted /\ [Next]_vars => Accounted'
<1> SUFFICES ASSUME TypeOK, HubInv, PumpInv, \A c \in Clients : IsAccounted(c),
                    [Next]_vars, NEW c \in Clients
             PROVE  IsAccounted(c)'
  BY DEF Accounted, IsAccounted, Underway, Elements
<1> USE DEF TypeOK, clientVars, pumpVars, senderVars
<1>0. ASSUME UNCHANGED <<pump, due, visiting, sent, queue, wire, writing, dropped>>
      PROVE  IsAccounted(c)'
  BY <1>0 DEF IsAccounted, Underway
<1>1. ASSUME NEW s \in Senders, BeginBroadcast(s)
      PROVE  IsAccounted(c)'
  <2>1. Underway(c)' = IF c \in clients THEN Underway(c) \cup {<<s, sent[s] + 1>>}
                       ELSE Underway(c)
    <3>1. visiting[s] = {}
      BY <1>1 DEF BeginBroadcast, HubInv
    <3>2. \A t \in Senders \ {s} : visiting'[t] = visiting[t] /\ sent'[t] = sent[t]
      BY <1>1 DEF BeginBroadcast
    <3>3. visiting'[s] = clients /\ sent'[s] = sent[s] + 1
      BY <1>1 DEF BeginBroadcast
    <3>4. QED
      BY <3>1, <3>2, <3>3 DEF Underway
  <2>2. due'[c] = IF c \in clients /\ pump[c] # "ended"
                  THEN due[c] \cup {<<s, sent[s] + 1>>} ELSE due[c]
    BY <1>1 DEF BeginBroadcast
  <2>3. QED
    BY <1>1, <2>1, <2>2 DEF BeginBroadcast, IsAccounted
<1>2. ASSUME NEW s \in Senders, NEW d \in Clients, Visit(s, d)
      PROVE  IsAccounted(c)'
  <2>1. /\ d \in visiting[s]
        /\ visiting' = [visiting EXCEPT ![s] = @ \ {d}]
        /\ UNCHANGED <<pump, writing, wire, sent, due>>
    BY <1>2 DEF Visit
  <2>2. CASE c # d
    <3>1. Underway(c)' = Underway(c)
      BY <2>1, <2>2 DEF Underway
    <3>2. queue'[c] = queue[c] /\ dropped'[c] = dropped[c]
      BY <1>2, <2>2 DEF Visit
    <3>3. QED
      BY <2>1, <3>1, <3>2 DEF IsAccounted
  <2>3. CASE c = d
    <3> DEFINE m == <<s, sent[s]>>
    <3>1. Underway(c) = Underway(c)' \cup {m}
      BY <2>1, <2>3 DEF Underway
    <3>2. m \in Messages
      BY DEF Messages
    <3>3. CASE Len(queue[c]) < BufferSize
      <4>1. /\ queue' = [queue EXCEPT ![c] = Append(queue[c], m)]
            /\ dropped' = dropped
        BY <1>2, <2>3, <3>3, HubAssumption DEF Visit
      <4> HIDE DEF m
      <4>2. Elements(queue'[c]) = Elements(queue[c]) \cup {m}
        <5>1. queue'[c] = Append(queue[c], m) /\ queue[c] \in Seq(Messages)
          BY <4>1
        <5>2. QED
          BY <3>2, <5>1, AppendElements
      <4>3. QED
        BY <2>1, <3>1, <4>1, <4>2 DEF IsAccounted
    <3>4. CASE ~(Len(queue[c]) < BufferSize)
      <4>1. /\ queue' = queue
            /\ pump[c] # "ended" => dropped'[c] = dropped[c] \cup {m}
        BY <1>2, <2>3, <3>4 DEF Visit
      <4> HIDE DEF m
      <4>2. QED
        BY <2>1, <3>1, <4>1 DEF IsAccounted
    <3>5. QED
      BY <3>3, <3>4
  <2>4. QED
    BY <2>2, <2>3
<1>3. ASSUME NEW d \in Clients, StartPumps(d)
      PROVE  IsAccounted(c)'
  <2>1. pump[d] = "none"
    BY <1>3 DEF StartPumps, PumpInv
  <2>2. QED
    BY <1>3, <2>1 DEF StartPumps, IsAccounted, Underway
<1>4. ASSUME NEW d \in Clients, Receive(d)
      PROVE  IsAccounted(c)'
  <2>1. CASE c # d
    BY <1>4, <2>1 DEF Receive, IsAccounted, Underway
  <2>2. CASE c = d
    <3>1. queue[c] \in Seq(Messages) /\ queue[c] # <<>> /\ writing[c] = {}
      BY <1>4, <2>2 DEF Receive, PumpInv
    <3>2. Elements(queue[c]) = {Head(queue[c])} \cup Elements(Tail(queue[c]))
      BY <3>1, TailElements
    <3>3. /\ queue'[c] = Tail(queue[c]) /\ writing'[c] = {Head(queue[c])}
          /\ pump[c] = "select"
          /\ UNCHANGED <<wire, visiting, sent, due, dropped>>
      BY <1>4, <2>2 DEF Receive
    <3>4. Underway(c)' = Underway(c)
      BY <3>3 DEF Underway
    <3>5. QED
      BY <3>1, <3>2, <3>3, <3>4 DEF IsAccounted
  <2>3. QED
    BY <2>1, <2>2
<1>5. ASSUME NEW d \in Clients, WriteSucceeds(d)
      PROVE  IsAccounted(c)'
  <2>1. CASE c # d
    BY <1>5, <2>1 DEF WriteSucceeds, IsAccounted, Underway
  <2>2. CASE c = d
    <3>1. PICK m : writing[c] = {m}
      BY <1>5, <2>2 DEF WriteSucceeds, PumpInv
    <3>2. /\ wire'[c] = Append(wire[c], m) /\ writing'[c] = {} /\ pump[c] = "writing"
          /\ UNCHANGED <<queue, visiting, sent, due, dropped>>
      BY <1>5, <2>2, <3>1 DEF WriteSucceeds
    <3>3. Elements(wire'[c]) = Elements(wire[c]) \cup {m}
      <4>1. m \in Messages /\ wire[c] \in Seq(Messages)
        BY <3>1
      <4>2. QED
        BY <3>2, <4>1, AppendElements
    <3>4. Underway(c)' = Underway(c)
      BY <3>2 DEF Underway
    <3>5. QED
      BY <3>1, <3>2, <3>3, <3>4 DEF IsAccounted
  <2>3. QED
    BY <2>1, <2>2
<1>6. ASSUME NEW d \in Clients, BeginPing(d) \/ PingSucceeds(d)
      PROVE  IsAccounted(c)'
  <2>1. pump'[c] # "ended" => pump[c] # "ended"
    BY <1>6 DEF BeginPing, PingSucceeds
  <2>2. QED
    BY <1>6, <2>1 DEF BeginPing, PingSucceeds, IsAccounted, Underway
<1>7. ASSUME NEW d \in Clients, PumpFails(d) \/ PumpStops(d)
      PROVE  IsAccounted(c)'
  <2>1. PumpEnds(d)
    BY <1>7 DEF PumpFails, PumpStops
  <2>2. CASE c = d
    BY <2>1, <2>2 DEF PumpEnds, IsAccounted
  <2>3. CASE c # d
    BY <2>1, <2>3 DEF PumpEnds, IsAccounted, Underway
  <2>4. QED
    BY <2>2, <2>3
<1>8. ASSUME NEW d \in Clients, Accept(d) \/ Register(d) \/ ReadFails(d) \/ Unregister(d)
      PROVE  IsAccounted(c)'
  BY <1>0, <1>8 DEF Accept, Register, ReadFails, Unregister
<1>9. ASSUME NEW s \in Senders, EndBroadcast(s)
      PROVE  IsAccounted(c)'
  BY <1>0, <1>9 DEF EndBroadcast
<1>10. CASE UNCHANGED vars
  BY <1>0, <1>10 DEF vars
<1>. QED
  BY <1>1, <1>2, <1>3, <1>4, <1>5, <1>6, <1>7, <1>8, <1>9, <1>10 DEF Next

-----------------------------------------------------------------------------

(* Every variable keeps its type; no buffer outgrows its capacity.         *)
THEOREM HubTypes == Spec => []TypeOK
<1>1. QED
  BY HubInit, TypeStep, PTL DEF Spec

(* No broadcast meets a closed channel: Broadcast cannot panic.            *)
THEOREM BroadcastIsSafe == Spec => []NoSendOnClosed
<1>1. TypeOK /\ HubInv /\ [Next]_vars => TypeOK' /\ HubInv'
  BY TypeStep, HubStep
<1>2. TypeOK /\ HubInv => NoSendOnClosed
  BY DEF TypeOK, HubInv, NoSendOnClosed
<1>3. QED
  BY <1>1, <1>2, HubInit, PTL DEF Spec

(* As long as a client's write pump lives, each message that found the     *)
(* client registered is on its way, queued, written or dropped.            *)
THEOREM MessagesAreAccounted == Spec => []Accounted
<1>1. Init => PumpInv /\ Accounted
  BY DEF Init, PumpInv, Accounted
<1>2. /\ TypeOK /\ HubInv /\ PumpInv /\ Accounted /\ [Next]_vars
      => TypeOK' /\ HubInv' /\ PumpInv' /\ Accounted'
  BY TypeStep, HubStep, PumpStep, AccountedStep
<1>3. QED
  BY <1>1, <1>2, HubInit, PTL DEF Spec
=============================================================================
