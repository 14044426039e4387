----------------------------- MODULE SerialLink -----------------------------
(***************************************************************************)
(* The connection lifecycle of serial.Manager (internal/serial/manager.go):*)
(* Start's reconnect loop with its backoff, the reader, Stop, WakeDevice   *)
(* and the HTTP handlers that call them.                                   *)
(*                                                                         *)
(* Start runs in a goroutine: one from main, and one more for each         *)
(* POST /serial/connect that finds the manager not connected.  The mutex   *)
(* protects port and connected, but the loops re-read the fields stopCh    *)
(* and port without it; every such read is a step of its own.  A read of   *)
(* port that finds nil is a nil dereference in a bare goroutine: it ends   *)
(* the process, and the container starts again.                            *)
(*                                                                         *)
(* serial.Open asks for the tty alone (TIOCEXCL).  That binds a process    *)
(* without CAP_SYS_ADMIN: while one handle is open on a device, every      *)
(* other open fails.  The container of docker-compose.yml is privileged,   *)
(* and there every open is one more handle.  Both are modelled.  A         *)
(* replugged device is a new one.                                          *)
(***************************************************************************)
EXTENDS Integers, FiniteSets

CONSTANTS
    Boot,         \* the Start goroutine of main
    Requests,     \* Start goroutines POST /serial/connect may start
    BaseDelay, MaxDelay, JitterPercent,          \* the reconnect configuration
    MaxStops, MaxWakes, MaxUnplugs,  \* bounds
    MaxHandles    \* handles on one device that the process can tell apart

ASSUME LoopsAssumption == Boot \notin Requests /\ IsFiniteSet(Requests)
ASSUME DelayAssumption ==
    BaseDelay \in Nat /\ MaxDelay \in Nat /\ JitterPercent \in 0 .. 100
ASSUME BoundAssumption == {MaxStops, MaxWakes, MaxUnplugs, MaxHandles} \subseteq Nat

Loops == {Boot} \cup Requests
NoDevice == 0
Devices == 1 .. MaxUnplugs + 1     \* incarnations of the device
Handle == [dev : Devices, id : 1 .. MaxHandles]
NoPort == [dev |-> NoDevice, id |-> 0]
Pcs == {"off", "top", "open", "assign", "park", "backoff", "check", "port", "read",
        "lost", "park_lost", "wait"}

VARIABLES
    loop,      \* per Start goroutine: where it is, the stop channel its select
               \* waits on, its delay, and the handle it has open or reads from
    stopCh,    \* Manager.stopCh: how often it was replaced
    closed,    \* is the current stop channel closed (Stop between its halves)?
    port,      \* Manager.port: a handle, or NoPort
    connected, \* Manager.connected
    exclusive, \* does TIOCEXCL bind the process?
    handles,   \* the open handles
    device,    \* the incarnation that is plugged in, or NoDevice
    wake,      \* a WakeDevice: idle, or with its own handle to open or close
    used       \* how often each kind of outside event happened

vars == <<loop, stopCh, closed, port, connected, exclusive, handles, device, wake, used>>

Off == [pc |-> "off", gen |-> 0, delay |-> BaseDelay, fd |-> NoPort]
Started == [Off EXCEPT !.pc = "top"]

(* The jitter of a delay, at most.                                         *)
Jitter(d) == (d * JitterPercent) \div 100

(* Where the delays stay.  Up to a third, the jitter takes away no more    *)
(* than the growth adds; beyond, unlucky delays shrink without a floor.    *)
Shortest == MaxDelay - Jitter(MaxDelay)
Longest == MaxDelay + Jitter(MaxDelay)
DelayFloor == IF JitterPercent > 33 THEN 0
              ELSE IF BaseDelay < Shortest THEN BaseDelay ELSE Shortest
DelayCap == IF BaseDelay > Longest THEN BaseDelay ELSE Longest

(* The types, and the bound on the delay: it stays between the configured  *)
(* base and the configured maximum with its jitter, however often it is    *)
(* grown, jittered and reset.                                              *)
TypeOK ==
    /\ loop \in [Loops -> [pc : Pcs, gen : 0 .. MaxStops, delay : DelayFloor .. DelayCap,
                           fd : Handle \cup {NoPort}]]
    /\ stopCh \in 0 .. MaxStops
    /\ closed \in BOOLEAN /\ connected \in BOOLEAN /\ exclusive \in BOOLEAN
    /\ port \in Handle \cup {NoPort}
    /\ handles \subseteq Handle
    /\ device \in Devices \cup {NoDevice}
    /\ wake \in [pc : {"idle", "open", "pulse"}, fd : Handle \cup {NoPort}]
    /\ used \in [{"stop", "wake", "unplug"} -> Nat]

Init ==
    /\ loop = [l \in Loops |-> IF l = Boot THEN Started ELSE Off]
    /\ stopCh = 0 /\ closed = FALSE
    /\ port = NoPort /\ connected = FALSE
    /\ exclusive \in BOOLEAN /\ handles = {} /\ device = 1
    /\ wake = [pc |-> "idle", fd |-> NoPort]
    /\ used = [e \in {"stop", "wake", "unplug"} |-> 0]

At(l, pc) == loop[l].pc = pc
Goto(l, pc) == loop' = [loop EXCEPT ![l].pc = pc]
Count(e) == used' = [used EXCEPT ![e] = @ + 1]
manager == <<stopCh, closed, port, connected>>
outside == <<device, wake, used, exclusive>>

(* A channel is closed when it is an old one, or the current one is.       *)
IsClosed(gen) == gen < stopCh \/ closed

(* serial.Open: a handle of its own on the device that is plugged in, if   *)
(* nobody keeps it out.                                                    *)
FreeHandles ==
    {h \in Handle : h.dev = device /\ h \notin handles /\ \A l \in Loops : loop[l].fd # h}
NewHandle == CHOOSE h \in FreeHandles : TRUE
CanOpen == FreeHandles # {} /\ (exclusive => \A h \in handles : h.dev # device)

-----------------------------------------------------------------------------
(* Start.                                                                  *)

Top(l) ==
    /\ At(l, "top")
    /\ loop' = [loop EXCEPT ![l] = IF closed THEN Off ELSE [@ EXCEPT !.pc = "open"]]
    /\ UNCHANGED <<manager, handles, outside>>

(* connect opens the device, and only then takes the lock.                 *)
OpenOk(l) ==
    /\ At(l, "open")
    /\ CanOpen
    /\ handles' = handles \cup {NewHandle}
    /\ loop' = [loop EXCEPT ![l].pc = "assign", ![l].fd = NewHandle]
    /\ UNCHANGED <<manager, outside>>

OpenFails(l) ==
    /\ At(l, "open")
    /\ ~CanOpen
    /\ Goto(l, "park")
    /\ UNCHANGED <<manager, handles, outside>>

Assign(l) ==
    /\ At(l, "assign")
    /\ port' = loop[l].fd /\ connected' = TRUE
    /\ loop' = [loop EXCEPT ![l].pc = "check", ![l].delay = BaseDelay, ![l].fd = NoPort]
    /\ UNCHANGED <<stopCh, closed, handles, outside>>

(* The two selects evaluate m.stopCh once, when they are entered.          *)
Park(l) ==
    /\ loop[l].pc \in {"park", "park_lost"}
    /\ loop' = [loop EXCEPT ![l].pc = IF At(l, "park") THEN "backoff" ELSE "wait",
                            ![l].gen = stopCh]
    /\ UNCHANGED <<manager, handles, outside>>

Grown(d) == IF (d * 3) \div 2 > MaxDelay THEN MaxDelay ELSE (d * 3) \div 2

(* Mutant: the cap is forgotten.                                           *)
JitteredUncapped(d) ==
    LET g == (d * 3) \div 2 IN {g - Jitter(g), g, g + Jitter(g)}

(* The jitter comes after the cap: its extremes and its middle.            *)
Jittered(d) ==
    {Grown(d) - Jitter(Grown(d)), Grown(d), Grown(d) + Jitter(Grown(d))}

BackoffElapsed(l) ==
    /\ At(l, "backoff")
    /\ \E d \in Jittered(loop[l].delay) :
          loop' = [loop EXCEPT ![l].pc = "top", ![l].delay = d]
    /\ UNCHANGED <<manager, handles, outside>>

WaitElapsed(l) ==
    /\ At(l, "wait")
    /\ loop' = [loop EXCEPT ![l].pc = "top", ![l].delay = Grown(@)]
    /\ UNCHANGED <<manager, handles, outside>>

StoppedWaiting(l) ==
    /\ loop[l].pc \in {"backoff", "wait"}
    /\ IsClosed(loop[l].gen)
    /\ loop' = [loop EXCEPT ![l] = Off]
    /\ UNCHANGED <<manager, handles, outside>>

-----------------------------------------------------------------------------
(* readLoopBinary.                                                         *)

ReadCheck(l) ==
    /\ At(l, "check")
    /\ Goto(l, IF closed THEN "lost" ELSE "port")
    /\ UNCHANGED <<manager, handles, outside>>

ReadPort(l) ==
    /\ At(l, "port")
    /\ port # NoPort
    /\ loop' = [loop EXCEPT ![l].pc = "read", ![l].fd = port]
    /\ UNCHANGED <<manager, handles, outside>>

(* m.port is nil: the process dies, and the container restarts it.         *)
NilPort(l) ==
    /\ At(l, "port")
    /\ port = NoPort
    /\ loop' = [k \in Loops |-> IF k = Boot THEN Started ELSE Off]
    /\ stopCh' = 0 /\ closed' = FALSE /\ port' = NoPort /\ connected' = FALSE
    /\ handles' = {} /\ wake' = [pc |-> "idle", fd |-> NoPort]
    /\ UNCHANGED <<device, used, exclusive>>

(* Data, or the read timeout with n = 0.                                   *)
ReadReturns(l) ==
    /\ At(l, "read")
    /\ loop[l].fd \in handles /\ loop[l].fd.dev = device
    /\ loop' = [loop EXCEPT ![l].pc = "check", ![l].fd = NoPort]
    /\ UNCHANGED <<manager, handles, outside>>

ReadFails(l) ==
    /\ At(l, "read")
    /\ loop[l].fd \notin handles \/ loop[l].fd.dev # device
    /\ loop' = [loop EXCEPT ![l].pc = "lost", ![l].fd = NoPort]
    /\ UNCHANGED <<manager, handles, outside>>

(* Under the lock: whatever port the manager has now is closed.            *)
ClosePort ==
    /\ handles' = handles \ {port}
    /\ port' = NoPort /\ connected' = FALSE

(* Mutant: the handle is closed and the field kept.                        *)
LostKeepsPort(l) ==
    /\ At(l, "lost")
    /\ handles' = handles \ {port}
    /\ connected' = FALSE
    /\ Goto(l, "park_lost")
    /\ UNCHANGED <<port, stopCh, closed, outside>>

(* Mutant: the loop gives up after a lost connection.                      *)
LostForGood(l) ==
    /\ At(l, "lost")
    /\ ClosePort
    /\ Goto(l, "off")
    /\ UNCHANGED <<stopCh, closed, outside>>

Lost(l) ==
    /\ At(l, "lost")
    /\ ClosePort
    /\ Goto(l, "park_lost")
    /\ UNCHANGED <<stopCh, closed, outside>>

-----------------------------------------------------------------------------
(* Stop, WakeDevice and POST /serial/connect.                              *)

(* close(m.stopCh) before the lock; the rest, with a new channel, under    *)
(* it.  A second Stop in between closes a closed channel: its handler      *)
(* panics, net/http recovers, and nothing changes.                         *)
StopClose ==
    /\ used.stop < MaxStops /\ ~closed
    /\ closed' = TRUE
    /\ Count("stop")
    /\ UNCHANGED <<loop, stopCh, port, connected, exclusive, handles, device, wake>>

StopRest ==
    /\ closed
    /\ ClosePort
    /\ stopCh' = stopCh + 1 /\ closed' = FALSE
    /\ UNCHANGED <<loop, outside>>

SerialConnect(l) ==
    /\ l \in Requests /\ At(l, "off")
    /\ ~connected
    /\ loop' = [loop EXCEPT ![l] = Started]
    /\ UNCHANGED <<manager, handles, outside>>

WakeClose ==
    /\ wake.pc = "idle" /\ used.wake < MaxWakes
    /\ ClosePort
    /\ wake' = [wake EXCEPT !.pc = "open"]
    /\ Count("wake")
    /\ UNCHANGED <<loop, stopCh, closed, device, exclusive>>

WakeOpen ==
    /\ wake.pc = "open"
    /\ IF CanOpen
       THEN /\ handles' = handles \cup {NewHandle}
            /\ wake' = [pc |-> "pulse", fd |-> NewHandle]
       ELSE /\ wake' = [pc |-> "idle", fd |-> NoPort]
            /\ UNCHANGED handles
    /\ UNCHANGED <<loop, manager, device, used, exclusive>>

WakeDone ==
    /\ wake.pc = "pulse"
    /\ handles' = handles \ {wake.fd}
    /\ wake' = [pc |-> "idle", fd |-> NoPort]
    /\ UNCHANGED <<loop, manager, device, used, exclusive>>

Unplug ==
    /\ device # NoDevice /\ used.unplug < MaxUnplugs
    /\ device' = NoDevice
    /\ Count("unplug")
    /\ UNCHANGED <<loop, manager, handles, wake, exclusive>>

Replug ==
    /\ device = NoDevice
    /\ device' = used.unplug + 1
    /\ UNCHANGED <<loop, manager, handles, wake, used, exclusive>>

-----------------------------------------------------------------------------
Reader(l) == ReadCheck(l) \/ ReadPort(l) \/ NilPort(l) \/ ReadReturns(l) \/ ReadFails(l) \/ Lost(l)
Connector(l) == Top(l) \/ OpenOk(l) \/ OpenFails(l) \/ Assign(l) \/ Park(l)
                    \/ BackoffElapsed(l) \/ WaitElapsed(l) \/ StoppedWaiting(l)

Next ==
    \/ \E l \in Loops : Connector(l) \/ Reader(l) \/ SerialConnect(l)
    \/ StopClose \/ StopRest
    \/ WakeClose \/ WakeOpen \/ WakeDone
    \/ Unplug \/ Replug

Spec == Init /\ [][Next]_vars

(* Goroutines run, delays elapse, a Stop or WakeDevice that has begun goes *)
(* on, and somebody plugs the device in again.                             *)
Fairness ==
    /\ \A l \in Loops : WF_vars(Connector(l)) /\ WF_vars(Reader(l))
    /\ WF_vars(StopRest) /\ WF_vars(WakeOpen) /\ WF_vars(WakeDone) /\ WF_vars(Replug)

FairSpec == Spec /\ Fairness

-----------------------------------------------------------------------------
(* Properties.                                                             *)

(* The manager never offers SendToRadio a handle that somebody has closed, *)
(* although Stop, WakeDevice and two loops close ports under each other.   *)
PortIsOpen == port # NoPort => port \in handles /\ connected

(* A handle on the plugged device that nobody can close any more: of two   *)
(* loops that opened it, the later assignment hides the earlier handle.    *)
(* Where TIOCEXCL binds (they opened before and after a replug) the device *)
(* stays busy until the process ends.                                      *)
Leaked ==
    /\ exclusive
    /\ \E h \in handles \ {port, wake.fd} :
          h.dev = device /\ \A l \in Loops : ~(At(l, "assign") /\ loop[l].fd = h)

(* WakeDevice and a lost connection "let the reconnect loop in Start()     *)
(* re-establish the session": unless somebody stops it, or a second loop   *)
(* has hidden an exclusive handle, the link comes back from every wake,    *)
(* unplug and crash.                                                       *)
Reconnects == (used.stop = 0 /\ ~connected) ~> (connected \/ used.stop > 0 \/ Leaked)
=============================================================================
