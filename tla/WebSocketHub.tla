---------------------------- MODULE WebSocketHub ----------------------------
(***************************************************************************)
(* Real-time notifications: internal/websocket/hub.go and client.go.       *)
(*                                                                         *)
(* A sender is any goroutine that calls Broadcast (a handler after a       *)
(* change, the callbacks of the tunnel and backup managers).  A client has *)
(* two goroutines: Run, which registers it, reads until the connection     *)
(* fails and unregisters it; and writePump, which writes what the hub put  *)
(* into the client's channel.  h.mu is a read-write lock: Broadcast holds  *)
(* it for reading over the whole map, Register and Unregister for writing, *)
(* and a waiting writer keeps new readers out.                             *)
(***************************************************************************)
EXTENDS Integers, Sequences, FiniteSets

CONSTANTS
    Clients,       \* connections, each with its Client
    Senders,       \* goroutines that broadcast
    BufferSize,    \* sendBufferSize
    MaxBroadcasts  \* bound: the broadcasts of one sender

ASSUME HubAssumption ==
    /\ BufferSize \in Nat \ {0}
    /\ MaxBroadcasts \in Nat

(* A message is the n-th broadcast of a sender.                            *)
Messages == Senders \X Nat

VARIABLES
    clients,    \* h.clients
    runPc,      \* where Run of each client is
    pump,       \* where writePump of each client is
    queue,      \* the buffer of c.send
    closed,     \* c.send is closed
    writing,    \* the messages writePump holds: none or one
    wire,       \* history: what was written to the connection
    visiting,   \* the clients a broadcast has yet to visit
    holds,      \* the senders inside Broadcast, holding the read lock
    sent,       \* the broadcasts each sender began
    due,        \* history: messages whose broadcast found the client registered
    dropped     \* history: messages that met a full buffer
                \* (a client's history is forgotten when its pump ends)

clientVars == <<clients, runPc, closed>>
pumpVars == <<pump, writing, wire>>
senderVars == <<visiting, holds, sent, due>>
vars == <<clientVars, pumpVars, queue, senderVars, dropped>>

RunPcs == {"new", "register", "registered", "reading", "unregister", "gone"}
PumpPcs == {"none", "select", "writing", "pinging", "ended"}

TypeOK ==
    /\ clients \subseteq Clients
    /\ runPc \in [Clients -> RunPcs]
    /\ pump \in [Clients -> PumpPcs]
    /\ queue \in [Clients -> Seq(Messages)]
    /\ \A c \in Clients : Len(queue[c]) <= BufferSize
    /\ closed \in [Clients -> BOOLEAN]
    /\ writing \in [Clients -> SUBSET Messages]
    /\ wire \in [Clients -> Seq(Messages)]
    /\ visiting \in [Senders -> SUBSET Clients]
    /\ holds \subseteq Senders
    /\ sent \in [Senders -> Nat]
    /\ due \in [Clients -> SUBSET Messages]
    /\ dropped \in [Clients -> SUBSET Messages]

Init ==
    /\ clients = {}
    /\ runPc = [c \in Clients |-> "new"]
    /\ pump = [c \in Clients |-> "none"]
    /\ queue = [c \in Clients |-> <<>>]
    /\ closed = [c \in Clients |-> FALSE]
    /\ writing = [c \in Clients |-> {}]
    /\ wire = [c \in Clients |-> <<>>]
    /\ visiting = [s \in Senders |-> {}]
    /\ holds = {}
    /\ sent = [s \in Senders |-> 0]
    /\ due = [c \in Clients |-> {}]
    /\ dropped = [c \in Clients |-> {}]

-----------------------------------------------------------------------------
(* Broadcast *)

(* RLock waits while a Lock is waiting.                                    *)
LockIsWanted == \E c \in Clients : runPc[c] \in {"register", "unregister"}

BeginBroadcast(s) ==
    /\ s \notin holds
    /\ ~LockIsWanted
    /\ sent[s] < MaxBroadcasts
    /\ holds' = holds \cup {s}
    /\ sent' = [sent EXCEPT ![s] = @ + 1]
    /\ visiting' = [visiting EXCEPT ![s] = clients]
    /\ due' = [c \in Clients |-> IF c \in clients /\ pump[c] # "ended"
                                 THEN due[c] \cup {<<s, sent[s] + 1>>}
                                 ELSE due[c]]
    /\ UNCHANGED <<clientVars, pumpVars, queue, dropped>>

(* Fault: the room test is off by one.                                     *)
VisitOverfull(s, c) ==
    /\ c \in visiting[s]
    /\ visiting' = [visiting EXCEPT ![s] = @ \ {c}]
    /\ Len(queue[c]) <= BufferSize
    /\ queue' = [queue EXCEPT ![c] = Append(@, <<s, sent[s]>>)]
    /\ UNCHANGED <<clientVars, pumpVars, holds, sent, due, dropped>>

(* Fault: the send has no default, and waits for room in the buffer.       *)
VisitBlocking(s, c) ==
    /\ c \in visiting[s]
    /\ visiting' = [visiting EXCEPT ![s] = @ \ {c}]
    /\ Len(queue[c]) < BufferSize
    /\ queue' = [queue EXCEPT ![c] = Append(@, <<s, sent[s]>>)]
    /\ UNCHANGED <<clientVars, pumpVars, holds, sent, due, dropped>>

(* Fault: a full buffer makes room by losing its oldest message.           *)
VisitEvicting(s, c) ==
    /\ c \in visiting[s]
    /\ visiting' = [visiting EXCEPT ![s] = @ \ {c}]
    /\ queue' = [queue EXCEPT ![c] =
                   Append(IF Len(@) < BufferSize THEN @ ELSE Tail(@),
                          <<s, sent[s]>>)]
    /\ UNCHANGED <<clientVars, pumpVars, holds, sent, due, dropped>>

(* One turn of the loop over the map, in the order Go picks: the send      *)
(* happens if the buffer has room, and default drops the message.          *)
Visit(s, c) ==
    /\ c \in visiting[s]
    /\ visiting' = [visiting EXCEPT ![s] = @ \ {c}]
    /\ \/ /\ Len(queue[c]) < BufferSize
          /\ queue' = [queue EXCEPT ![c] = Append(@, <<s, sent[s]>>)]
          /\ UNCHANGED dropped
       \/ /\ Len(queue[c]) >= BufferSize
          /\ dropped' = [dropped EXCEPT ![c] =
                           IF pump[c] = "ended" THEN @
                           ELSE @ \cup {<<s, sent[s]>>}]
          /\ UNCHANGED queue
    /\ UNCHANGED <<clientVars, pumpVars, holds, sent, due>>

EndBroadcast(s) ==
    /\ s \in holds
    /\ visiting[s] = {}
    /\ holds' = holds \ {s}
    /\ UNCHANGED <<clientVars, pumpVars, queue, visiting, sent, due, dropped>>

-----------------------------------------------------------------------------
(* Run: Register, the two pumps, cancel and Unregister *)

Accept(c) ==
    /\ runPc[c] = "new"
    /\ runPc' = [runPc EXCEPT ![c] = "register"]
    /\ UNCHANGED <<clients, closed, pumpVars, queue, senderVars, dropped>>

Register(c) ==
    /\ runPc[c] = "register"
    /\ holds = {}
    /\ clients' = clients \cup {c}
    /\ runPc' = [runPc EXCEPT ![c] = "registered"]
    /\ UNCHANGED <<closed, pumpVars, queue, senderVars, dropped>>

StartPumps(c) ==
    /\ runPc[c] = "registered"
    /\ runPc' = [runPc EXCEPT ![c] = "reading"]
    /\ pump' = [pump EXCEPT ![c] = "select"]
    /\ UNCHANGED <<clients, closed, writing, wire, queue, senderVars, dropped>>

(* readPump returns: the peer closed, the request ended or writePump found *)
(* the connection broken.  The deferred cancel and Unregister follow.      *)
ReadFails(c) ==
    /\ runPc[c] = "reading"
    /\ runPc' = [runPc EXCEPT ![c] = "unregister"]
    /\ UNCHANGED <<clients, closed, pumpVars, queue, senderVars, dropped>>

(* Fault: Unregister takes the read lock, and runs beside a broadcast.     *)
UnregisterUnlocked(c) ==
    /\ runPc[c] = "unregister"
    /\ clients' = clients \ {c}
    /\ closed' = [closed EXCEPT ![c] = closed[c] \/ c \in clients]
    /\ runPc' = [runPc EXCEPT ![c] = "gone"]
    /\ UNCHANGED <<pumpVars, queue, senderVars, dropped>>

(* Fault: Unregister gives up when the lock is taken.                      *)
UnregisterImpatient(c) ==
    /\ runPc[c] = "unregister"
    /\ clients' = IF holds = {} THEN clients \ {c} ELSE clients
    /\ closed' = [closed EXCEPT ![c] = closed[c] \/ (holds = {} /\ c \in clients)]
    /\ runPc' = [runPc EXCEPT ![c] = "gone"]
    /\ UNCHANGED <<pumpVars, queue, senderVars, dropped>>

Unregister(c) ==
    /\ runPc[c] = "unregister"
    /\ holds = {}
    /\ clients' = clients \ {c}
    /\ closed' = [closed EXCEPT ![c] = closed[c] \/ c \in clients]
    /\ runPc' = [runPc EXCEPT ![c] = "gone"]
    /\ UNCHANGED <<pumpVars, queue, senderVars, dropped>>

(* The context of the pumps is cancelled before Unregister.                *)
Cancelled(c) == runPc[c] \in {"unregister", "gone"}

-----------------------------------------------------------------------------
(* writePump *)

Receive(c) ==
    /\ pump[c] = "select"
    /\ queue[c] # <<>>
    /\ queue' = [queue EXCEPT ![c] = Tail(@)]
    /\ writing' = [writing EXCEPT ![c] = {Head(queue[c])}]
    /\ pump' = [pump EXCEPT ![c] = "writing"]
    /\ UNCHANGED <<clientVars, wire, senderVars, dropped>>

WriteSucceeds(c) ==
    /\ pump[c] = "writing"
    /\ \E m \in writing[c] : wire' = [wire EXCEPT ![c] = Append(@, m)]
    /\ writing' = [writing EXCEPT ![c] = {}]
    /\ pump' = [pump EXCEPT ![c] = "select"]
    /\ UNCHANGED <<clientVars, queue, senderVars, dropped>>

BeginPing(c) ==
    /\ pump[c] = "select"
    /\ pump' = [pump EXCEPT ![c] = "pinging"]
    /\ UNCHANGED <<clientVars, writing, wire, queue, senderVars, dropped>>

(* A pong came: nothing else ends a ping whose connection stays open.      *)
PingSucceeds(c) ==
    /\ pump[c] = "pinging"
    /\ pump' = [pump EXCEPT ![c] = "select"]
    /\ UNCHANGED <<clientVars, writing, wire, queue, senderVars, dropped>>

PumpEnds(c) ==
    /\ pump' = [pump EXCEPT ![c] = "ended"]
    /\ writing' = [writing EXCEPT ![c] = {}]
    /\ wire' = [wire EXCEPT ![c] = <<>>]
    /\ due' = [due EXCEPT ![c] = {}]
    /\ dropped' = [dropped EXCEPT ![c] = {}]
    /\ UNCHANGED <<clientVars, queue, visiting, holds, sent>>

(* A write or a ping fails: the connection is broken or the context done.  *)
PumpFails(c) ==
    /\ pump[c] \in {"writing", "pinging"}
    /\ PumpEnds(c)

(* The select finds the channel closed and drained, or the context done.   *)
PumpStops(c) ==
    /\ pump[c] = "select"
    /\ Cancelled(c) \/ (closed[c] /\ queue[c] = <<>>)
    /\ PumpEnds(c)

-----------------------------------------------------------------------------

Next ==
    \/ \E s \in Senders : BeginBroadcast(s) \/ EndBroadcast(s)
    \/ \E s \in Senders, c \in Clients : Visit(s, c)
    \/ \E c \in Clients :
         \/ Accept(c) \/ Register(c) \/ StartPumps(c) \/ ReadFails(c)
         \/ Unregister(c) \/ Receive(c) \/ WriteSucceeds(c) \/ BeginPing(c)
         \/ PingSucceeds(c) \/ PumpFails(c) \/ PumpStops(c)

Spec == Init /\ [][Next]_vars

(* Goroutines that can go on do; a cancelled write or ping returns, and a  *)
(* connection that writePump found broken fails to read.  A select with    *)
(* several ready arms picks one at random, hence SF for PumpStops.  A live *)
(* peer owes nothing: writes and pings may hang for ever.                  *)
Fairness ==
    /\ \A s \in Senders :
         WF_vars(EndBroadcast(s) \/ \E c \in Clients : Visit(s, c))
    /\ \A c \in Clients :
         /\ WF_vars(\/ Register(c) \/ StartPumps(c) \/ Unregister(c)
                    \/ pump[c] = "ended" /\ ReadFails(c))
         /\ SF_vars(PumpStops(c))
         /\ WF_vars(Cancelled(c) /\ PumpFails(c))

FairSpec == Spec /\ Fairness

-----------------------------------------------------------------------------
(* Properties *)

(* Broadcast never sends on a closed channel, which would panic: a client  *)
(* it has yet to visit stays registered, with its channel open, until the  *)
(* read lock is released.                                                  *)
NoSendOnClosed ==
    \A s \in Senders : \A c \in visiting[s] : c \in clients /\ ~closed[c]

(* A message whose broadcast found the client registered is on its way,    *)
(* delivered or dropped for want of room, as long as the write pump lives. *)
Accounted ==
    \A c \in Clients : pump[c] # "ended" =>
        due[c] = {<<s, sent[s]>> : s \in {t \in Senders : c \in visiting[t]}}
                 \cup {queue[c][i] : i \in 1..Len(queue[c])}
                 \cup {wire[c][i] : i \in 1..Len(wire[c])}
                 \cup writing[c] \cup dropped[c]

(* No client can hold Broadcast up, however long its peer is silent.       *)
BroadcastEnds == \A s \in Senders : s \in holds ~> s \notin holds

(* When a connection fails, on either side, the client leaves the hub and  *)
(* both its goroutines end.                                                *)
ClientsAreReleased ==
    \A c \in Clients :
        runPc[c] = "unregister" \/ pump[c] = "ended" ~>
            c \notin clients /\ runPc[c] = "gone" /\ pump[c] = "ended"
=============================================================================
