------------------------------ MODULE EventHub ------------------------------
(***************************************************************************)
(* The WebSocket hub (internal/ws/hub.go), a client's two pumps            *)
(* (internal/ws/client.go), the handler that connects it                   *)
(* (internal/api/server.go, handleWebSocket) and the services that         *)
(* broadcast while they hold their own lock.                               *)
(*                                                                         *)
(* One goroutine runs the hub and owns the client set.  A Client object    *)
(* serves one connection.  An event is its number in the order in which it *)
(* entered the broadcast channel; 0 is the snapshot the handler sends.     *)
(***************************************************************************)
EXTENDS Integers, Sequences, FiniteSets

CONSTANTS
    Clients,     \* connections
    Services,    \* services that broadcast, each with its own mutex
    SnapshotReads, \* the services the snapshot reads, in order
    Limits,      \* configured client limits; 0: none
    BusSize,     \* capacity of Hub.broadcast (256)
    SendSize,    \* capacity of Client.send (256)
    MaxEvents    \* bound on broadcasts

ASSUME SizeAssumption ==
    /\ BusSize \in Nat \ {0} /\ SendSize \in Nat \ {0}
    /\ Limits \subseteq Nat /\ MaxEvents \in Nat
    /\ SnapshotReads \in Seq(Services)

VARIABLES
    maxClients,  \* Hub.maxClients
    running,   \* the hub loop; FALSE after Stop
    bus,       \* Hub.broadcast
    clients,   \* Hub.clients
    send,      \* per client: what is in Client.send
    closed,    \* clients whose send channel is closed
    handler,   \* handleWebSocket: none, register (blocked), init, done, panic
    toRead,    \* handleWebSocket: the services it has still to read
    reader,    \* ReadPump: none, reading, leave (blocked in Unregister), gone
    writer,    \* WritePump: none, writing, gone
    up,        \* connections that are open
    locked,    \* services inside Broadcast, with their mutex held
    produced,  \* events put into the bus
    fanned,    \* events the hub has taken out of it
    joined, cut, got   \* history: let in at, cut off at, events written to the socket

vars == <<maxClients, running, bus, clients, send, closed, handler, toRead, reader,
          writer, up, locked, produced, fanned, joined, cut, got>>
hubState == <<maxClients, running, bus, clients, fanned>>
pumps == <<handler, toRead, reader, writer, up>>
history == <<joined, cut>>

Snapshot == 0
Frames == 0 .. MaxEvents

TypeOK ==
    /\ maxClients \in Limits /\ running \in BOOLEAN
    /\ bus \in Seq(1 .. MaxEvents) /\ Len(bus) <= BusSize
    /\ clients \subseteq Clients \ closed
    /\ maxClients > 0 => Cardinality(clients) <= maxClients
    /\ send \in [Clients -> Seq(Frames)] /\ \A c \in Clients : Len(send[c]) <= SendSize
    /\ closed \subseteq Clients /\ up \subseteq Clients /\ locked \subseteq Services
    /\ handler \in [Clients -> {"none", "register", "init", "done", "panic"}]
    /\ toRead \in [Clients -> Seq(Services)]
    /\ reader \in [Clients -> {"none", "reading", "leave", "gone"}]
    /\ writer \in [Clients -> {"none", "writing", "gone"}]
    /\ produced \in 0 .. MaxEvents /\ fanned \in Nat /\ fanned + Len(bus) = produced
    /\ joined \in [Clients -> -1 .. MaxEvents] /\ cut \in [Clients -> -1 .. MaxEvents]
    /\ got \in [Clients -> Seq(1 .. MaxEvents)]

Init ==
    /\ maxClients \in Limits /\ running = TRUE
    /\ bus = <<>> /\ clients = {} /\ closed = {} /\ up = {} /\ locked = {}
    /\ send = [c \in Clients |-> <<>>]
    /\ handler = [c \in Clients |-> "none"]
    /\ toRead = [c \in Clients |-> SnapshotReads]
    /\ reader = [c \in Clients |-> "none"]
    /\ writer = [c \in Clients |-> "none"]
    /\ produced = 0 /\ fanned = 0
    /\ joined = [c \in Clients |-> -1] /\ cut = [c \in Clients |-> -1]
    /\ got = [c \in Clients |-> <<>>]

-----------------------------------------------------------------------------
(* A service changes its state under its lock and calls Broadcast.         *)
Change(s) ==
    /\ s \notin locked
    /\ produced + Cardinality(locked) < MaxEvents
    /\ locked' = locked \cup {s}
    /\ UNCHANGED <<hubState, send, closed, pumps, produced, history, got>>

(* The send blocks while the channel is full; then the lock is released.   *)
Broadcast(s) ==
    /\ s \in locked
    /\ Len(bus) < BusSize
    /\ bus' = Append(bus, produced + 1) /\ produced' = produced + 1
    /\ locked' = locked \ {s}
    /\ UNCHANGED <<maxClients, running, clients, fanned, send, closed, pumps, history, got>>

-----------------------------------------------------------------------------
(* Hub.Run.                                                                *)

(* Mutant: the limit lets one client too many in.                          *)
FullByOne == maxClients > 0 /\ Cardinality(clients) > maxClients

Full == maxClients > 0 /\ Cardinality(clients) >= maxClients

HubRegister(c) ==
    /\ running /\ handler[c] = "register"
    /\ handler' = [handler EXCEPT ![c] = "init"]
    /\ IF Full
       THEN closed' = closed \cup {c} /\ UNCHANGED <<clients, joined>>
       ELSE clients' = clients \cup {c} /\ joined' = [joined EXCEPT ![c] = fanned] /\ UNCHANGED closed
    /\ UNCHANGED <<maxClients, running, bus, fanned, send, toRead, reader, writer, up, locked, produced, cut, got>>

HubUnregister(c) ==
    /\ running /\ reader[c] = "leave"
    /\ reader' = [reader EXCEPT ![c] = "gone"]
    /\ up' = up \ {c}
    /\ clients' = clients \ {c}
    /\ closed' = IF c \in clients THEN closed \cup {c} ELSE closed
    /\ cut' = IF c \in clients THEN [cut EXCEPT ![c] = fanned] ELSE cut
    /\ UNCHANGED <<maxClients, running, bus, fanned, send, handler, toRead, writer, locked, produced, joined, got>>

(* Mutant: a client whose buffer is full just misses the event.            *)
SlowDropped == {}

(* The clients whose buffer is full are disconnected.                      *)
Slow == {c \in clients : Len(send[c]) = SendSize}

HubBroadcast ==
    /\ running /\ bus # <<>>
    /\ bus' = Tail(bus) /\ fanned' = fanned + 1
    /\ send' = [c \in Clients |-> IF c \in clients /\ Len(send[c]) < SendSize
                                  THEN Append(send[c], Head(bus)) ELSE send[c]]
    /\ clients' = clients \ Slow
    /\ closed' = closed \cup Slow
    /\ cut' = [c \in Clients |-> IF c \in Slow THEN fanned ELSE cut[c]]
    /\ UNCHANGED <<maxClients, running, pumps, locked, produced, joined, got>>

(* Stop, from main's shutdown: nobody receives from the channels any more. *)
Stop ==
    /\ running
    /\ running' = FALSE
    /\ UNCHANGED <<maxClients, bus, clients, fanned, send, closed, pumps, locked, produced, history, got>>

-----------------------------------------------------------------------------
(* handleWebSocket: Register, then the snapshot, then the pumps.           *)

Connect(c) ==
    /\ handler[c] = "none"
    /\ handler' = [handler EXCEPT ![c] = "register"]
    /\ up' = up \cup {c}
    /\ UNCHANGED <<hubState, send, closed, toRead, reader, writer, locked, produced, history, got>>

(* The snapshot is read from one service after the other, each under the   *)
(* service's own lock.                                                     *)
ReadState(c) ==
    /\ handler[c] = "init" /\ toRead[c] # <<>>
    /\ Head(toRead[c]) \notin locked
    /\ toRead' = [toRead EXCEPT ![c] = Tail(@)]
    /\ UNCHANGED <<hubState, send, closed, handler, reader, writer, up, locked, produced, history, got>>

(* Client.Send drops the snapshot when the buffer is full; a channel that  *)
(* is closed by then panics, and the connection is left without pumps.     *)
SendInit(c) ==
    /\ handler[c] = "init" /\ toRead[c] = <<>>
    /\ IF c \in closed
       THEN handler' = [handler EXCEPT ![c] = "panic"] /\ UNCHANGED <<send, reader, writer>>
       ELSE /\ handler' = [handler EXCEPT ![c] = "done"]
            /\ send' = [send EXCEPT ![c] = IF Len(@) < SendSize THEN Append(@, Snapshot) ELSE @]
            /\ reader' = [reader EXCEPT ![c] = "reading"]
            /\ writer' = [writer EXCEPT ![c] = "writing"]
    /\ UNCHANGED <<hubState, closed, toRead, up, locked, produced, history, got>>

(* The peer goes away, or a pong is overdue.                               *)
ConnectionLost(c) ==
    /\ c \in up /\ handler[c] = "done"
    /\ up' = up \ {c}
    /\ UNCHANGED <<hubState, send, closed, handler, toRead, reader, writer, locked, produced, history, got>>

(* Mutant: the pump ends without telling the hub.                          *)
ReadEndsSilently(c) ==
    /\ reader[c] = "reading" /\ c \notin up
    /\ reader' = [reader EXCEPT ![c] = "gone"]
    /\ UNCHANGED <<hubState, send, closed, handler, toRead, writer, up, locked, produced, history, got>>

ReadEnds(c) ==
    /\ reader[c] = "reading" /\ c \notin up
    /\ reader' = [reader EXCEPT ![c] = "leave"]
    /\ UNCHANGED <<hubState, send, closed, handler, toRead, writer, up, locked, produced, history, got>>

(* A frame is written, or the write (or a ping) fails and the pump closes  *)
(* the connection.                                                         *)
Write(c) ==
    /\ writer[c] = "writing" /\ send[c] # <<>> /\ c \in up
    /\ send' = [send EXCEPT ![c] = Tail(@)]
    /\ got' = IF Head(send[c]) = Snapshot THEN got ELSE [got EXCEPT ![c] = Append(@, Head(send[c]))]
    /\ UNCHANGED <<hubState, closed, pumps, locked, produced, history>>

WriteFails(c) ==
    /\ writer[c] = "writing"
    /\ c \notin up \/ (send[c] = <<>> /\ c \in closed)
    /\ writer' = [writer EXCEPT ![c] = "gone"]
    /\ up' = up \ {c}
    /\ UNCHANGED <<hubState, send, closed, handler, toRead, reader, locked, produced, history, got>>

Pump(c) == ReadEnds(c) \/ Write(c) \/ WriteFails(c)

Next ==
    \/ \E s \in Services : Change(s) \/ Broadcast(s)
    \/ HubBroadcast \/ Stop
    \/ \E c \in Clients :
          \/ HubRegister(c) \/ HubUnregister(c)
          \/ Connect(c) \/ ReadState(c) \/ SendInit(c) \/ ConnectionLost(c) \/ Pump(c)

(* The hub's select takes every ready case in the end, and blocked senders *)
(* are served in turn; goroutines run.                                     *)
Spec ==
    /\ Init /\ [][Next]_vars
    /\ WF_vars(HubBroadcast)
    /\ \A s \in Services : WF_vars(Broadcast(s))
    /\ \A c \in Clients : WF_vars(HubUnregister(c)) /\ WF_vars(Pump(c))

-----------------------------------------------------------------------------
(* Properties.                                                             *)

Bus == INSTANCE FanOut WITH sent <- fanned, stream <- got

(* The hub implements the abstract fan-out: a client receives a gapless    *)
(* run of the events, in order, from the one after it was let in; a slow   *)
(* client is cut off rather than left with a hole, and neither a slow nor  *)
(* a leaving client costs another one an event.                            *)
GaplessStream == Bus!Spec

(* Broadcast is called with the services' locks held, so it must return    *)
(* whatever the clients do, and a client that is gone must leave the set,  *)
(* or its slot under the client limit is lost.  Both hold while the hub    *)
(* runs; after Stop nobody receives, and callers of Broadcast stay blocked.*)
HubServes ==
    /\ \A s \in Services : s \in locked ~> (s \notin locked \/ ~running)
    /\ \A c \in Clients : reader[c] = "reading" /\ c \notin up ~> (c \notin clients \/ ~running)
=============================================================================
