------------------------- MODULE SerialPath_proofs -------------------------
(***************************************************************************)
(* Proofs about what comes in over the serial line, from the port to the   *)
(* alerts; the three models share no name and no variable.                 *)
(*                                                                         *)
(* SerialLink: the bounds of the reconnect delay, for every configuration, *)
(* and that the manager's port is open, for every number of Start          *)
(* goroutines and every number of stops, wakes and unplugs.  LinkInv is    *)
(* inductive.  PortIsOpen alone is not: whoever closes a handle must not   *)
(* close the one the manager offers, so Handles says that every open       *)
(* handle somebody may still close has one owner.                          *)
(*                                                                         *)
(* MeshIngest: what a text brings the services, for any texts of any       *)
(* lines, repeats and expiries.  IngestInv is inductive: it counts a       *)
(* packet's deliveries by the dedup windows, and says that whatever made   *)
(* the filter's entry delivered all that the frame would.                  *)
(*                                                                         *)
(* Surveillance: alerts of fences and rules, for any drones, fences,       *)
(* rules, requests and faults.  RuleInv and StaysKnown are inductive: the  *)
(* reader inserts one event at a time, a row is never made for a rule that *)
(* is cached, and the geofence state is what the last fix said.            *)
(***************************************************************************)
EXTENDS SerialLink, MeshIngest, Surveillance, FiniteSetTheorems, TLAPS

(* The stop channels that were replaced or closed since the start of the   *)
(* process, and the devices that were unplugged, are within their bounds.  *)
Counts ==
    /\ stopCh + (IF closed THEN 1 ELSE 0) <= used.stop
    /\ used.stop <= MaxStops /\ used.unplug <= MaxUnplugs

(* A loop that has opened the device and not yet assigned it, and a        *)
(* WakeDevice that pulses it, hold open handles that nobody else has.      *)
LoopsOwn ==
    \A l \in Loops : At(l, "assign") =>
        /\ loop[l].fd \in handles /\ loop[l].fd # port
        /\ \A k \in Loops : At(k, "assign") /\ k # l => loop[k].fd # loop[l].fd

WakeOwns ==
    wake.pc = "pulse" =>
        /\ wake.fd \in handles /\ wake.fd # port
        /\ \A l \in Loops : At(l, "assign") => loop[l].fd # wake.fd

Handles == PortIsOpen /\ LoopsOwn /\ WakeOwns

LinkInv == TypeOK /\ Counts /\ Handles

-----------------------------------------------------------------------------
(* Arithmetic of the delays.                                               *)

(* The jitter is a part of the delay, grows with it, and below a third     *)
(* leaves two thirds of it.                                                *)
LEMMA JitterPart ==
    ASSUME NEW d \in Nat
    PROVE  /\ Jitter(d) \in Nat /\ Jitter(d) <= d
           /\ JitterPercent <= 33 => 100 * Jitter(d) <= 33 * d
<1>1. JitterPercent \in Nat /\ JitterPercent <= 100
  BY DelayAssumption
<1>2. d * JitterPercent \in Nat /\ d * JitterPercent <= d * 100
  BY <1>1
<1>3. JitterPercent <= 33 => d * JitterPercent <= d * 33
  BY <1>1
<1> DEFINE x == d * JitterPercent
<1> HIDE DEF x
<1>4. x \in Nat /\ x <= d * 100 /\ (JitterPercent <= 33 => x <= d * 33)
  BY <1>2, <1>3 DEF x
<1>5. x \div 100 \in Nat /\ 100 * (x \div 100) <= x
  BY <1>4
<1>6. Jitter(d) = x \div 100
  BY DEF Jitter, x
<1> QED BY <1>1, <1>4, <1>5, <1>6

LEMMA JitterMonotone ==
    ASSUME NEW d \in Nat, NEW e \in Nat, d <= e
    PROVE  Jitter(d) <= Jitter(e)
<1>1. JitterPercent \in Nat /\ JitterPercent <= 100
  BY DelayAssumption
<1> DEFINE x == d * JitterPercent
           y == e * JitterPercent
<1>2. x \in Nat /\ y \in Nat /\ x <= y
  BY <1>1
<1> HIDE DEF x, y
<1>3. x \div 100 <= y \div 100
  BY <1>2
<1> QED BY <1>3 DEF Jitter, x, y

(* Growth stops at the maximum, and does not shrink what is below it.      *)
LEMMA GrownBounds ==
    ASSUME NEW d \in Nat
    PROVE  /\ Grown(d) \in Nat /\ Grown(d) <= MaxDelay
           /\ Grown(d) = MaxDelay \/ 2 * Grown(d) >= 3 * d - 1
BY DelayAssumption DEF Grown

(* The base delay, a grown delay and a jittered one are within the bounds  *)
(* when the delay before was.                                              *)
LEMMA DelaysStay ==
    /\ DelayFloor \in Nat /\ DelayCap \in Nat
    /\ BaseDelay \in DelayFloor .. DelayCap
    /\ \A d \in DelayFloor .. DelayCap :
          /\ Grown(d) \in DelayFloor .. DelayCap
          /\ Jittered(d) \subseteq DelayFloor .. DelayCap
<1>1. /\ MaxDelay \in Nat /\ BaseDelay \in Nat /\ JitterPercent \in Nat
      /\ Jitter(MaxDelay) \in Nat /\ Jitter(MaxDelay) <= MaxDelay
  BY DelayAssumption, JitterPart
<1>2. /\ DelayFloor \in Nat /\ DelayCap \in Nat
      /\ DelayFloor <= BaseDelay /\ BaseDelay <= DelayCap
      /\ DelayFloor <= MaxDelay - Jitter(MaxDelay)
      /\ MaxDelay + Jitter(MaxDelay) <= DelayCap
      /\ JitterPercent > 33 => DelayFloor = 0
  BY <1>1 DEF DelayFloor, DelayCap, Shortest, Longest
<1>3. ASSUME NEW d \in DelayFloor .. DelayCap
      PROVE  /\ Grown(d) \in DelayFloor .. DelayCap
             /\ Jittered(d) \subseteq DelayFloor .. DelayCap
  <2> DEFINE g == Grown(d)
             j == Jitter(g)
  <2>1. d \in Nat
    BY <1>2
  <2>2. /\ g \in Nat /\ g <= MaxDelay
        /\ g = MaxDelay \/ 2 * g >= 3 * d - 1
    BY <2>1, GrownBounds
  <2> HIDE DEF g
  <2>3. /\ j \in Nat /\ j <= g /\ j <= Jitter(MaxDelay)
        /\ JitterPercent <= 33 => 100 * j <= 33 * g
    BY <1>1, <2>2, JitterPart, JitterMonotone
  <2>4. g = MaxDelay => j = Jitter(MaxDelay)
    OBVIOUS
  <2> HIDE DEF j
  <2>5. DelayFloor <= g - j /\ g + j <= DelayCap
    <3>1. CASE JitterPercent > 33
      BY <1>1, <1>2, <2>2, <2>3, <3>1
    <3>2. CASE g = MaxDelay
      BY <1>1, <1>2, <2>2, <2>3, <2>4, <3>2
    <3>3. CASE JitterPercent <= 33 /\ 2 * g >= 3 * d - 1
      BY <1>1, <1>2, <2>1, <2>2, <2>3, <3>3
    <3> QED BY <1>1, <2>2, <3>1, <3>2, <3>3
  <2>6. Jittered(d) = {g - j, g, g + j}
    BY DEF Jittered, g, j
  <2> QED BY <1>2, <2>2, <2>3, <2>5, <2>6 DEF g
<1> QED BY <1>1, <1>2, <1>3

-----------------------------------------------------------------------------
(* LinkInv holds in the initial states and is kept by every action.        *)

(* The records of the loops.                                               *)
LoopType == [pc : Pcs, gen : 0 .. MaxStops, delay : DelayFloor .. DelayCap,
             fd : Handle \cup {NoPort}]

(* A loop that has not started is well formed, and so is one that has.     *)
LEMMA OffStarted ==
    /\ Off \in LoopType /\ Off.pc = "off"
    /\ Started \in LoopType /\ Started.pc = "top"
<1>1. BaseDelay \in DelayFloor .. DelayCap /\ 0 \in 0 .. MaxStops
  BY DelaysStay, BoundAssumption
<1> QED BY <1>1 DEF Off, Started, LoopType, Pcs

(* Nobody owns a handle at the start of the process.                       *)
LEMMA FreshProcess ==
    ASSUME loop = [l \in Loops |-> IF l = Boot THEN Started ELSE Off],
           stopCh = 0, closed = FALSE, port = NoPort, connected = FALSE, handles = {},
           wake = [pc |-> "idle", fd |-> NoPort],
           device \in Devices \cup {NoDevice},
           used \in [{"stop", "wake", "unplug"} -> Nat],
           used.stop <= MaxStops, used.unplug <= MaxUnplugs, exclusive \in BOOLEAN
    PROVE  LinkInv
<1>1. loop \in [Loops -> LoopType] /\ \A l \in Loops : ~At(l, "assign")
  BY OffStarted DEF At
<1>2. TypeOK
  <2>1. stopCh \in 0 .. MaxStops /\ port \in Handle \cup {NoPort} /\ handles \subseteq Handle
    BY BoundAssumption
  <2>2. wake \in [pc : {"idle", "open", "pulse"}, fd : Handle \cup {NoPort}]
    OBVIOUS
  <2> QED BY <1>1, <2>1, <2>2 DEF TypeOK, LoopType
<1>3. used.stop \in Nat
  OBVIOUS
<1>4. Counts
  BY <1>3 DEF Counts
<1>5. Handles
  BY <1>1 DEF Handles, PortIsOpen, LoopsOwn, WakeOwns
<1> QED BY <1>2, <1>4, <1>5 DEF LinkInv

(* A loop that moves without opening or closing keeps the invariant.       *)
LEMMA QuietMove ==
    ASSUME LinkInv, NEW l \in Loops, loop' \in [Loops -> LoopType],
           \A k \in Loops : k # l => loop'[k] = loop[k],
           loop'[l].pc # "assign", UNCHANGED <<manager, handles, outside>>
    PROVE  LinkInv'
<1> USE DEF LinkInv, manager, outside
<1>1. TypeOK'
  BY DEF TypeOK, LoopType
<1>2. Counts'
  BY DEF Counts
<1>3. Handles'
  BY DEF Handles, PortIsOpen, LoopsOwn, WakeOwns, At
<1> QED BY <1>1, <1>2, <1>3

(* The moves of Start and of the reader that neither open nor close.       *)
LEMMA QuietKeeps ==
    ASSUME LinkInv, NEW l \in Loops,
           \/ Top(l) \/ OpenFails(l) \/ Park(l) \/ BackoffElapsed(l) \/ WaitElapsed(l)
           \/ StoppedWaiting(l) \/ ReadCheck(l) \/ ReadPort(l) \/ ReadReturns(l)
           \/ ReadFails(l) \/ SerialConnect(l)
    PROVE  LinkInv'
<1>1. /\ loop \in [Loops -> LoopType] /\ loop[l].delay \in DelayFloor .. DelayCap
      /\ stopCh \in 0 .. MaxStops /\ port \in Handle \cup {NoPort}
  BY DEF LinkInv, TypeOK, LoopType
<1>2. Grown(loop[l].delay) \in DelayFloor .. DelayCap
  BY <1>1, DelaysStay
<1>3. SUFFICES /\ loop' \in [Loops -> LoopType]
               /\ \A k \in Loops : k # l => loop'[k] = loop[k]
               /\ loop'[l].pc # "assign"
               /\ UNCHANGED <<manager, handles, outside>>
  BY QuietMove
<1> USE DEF LoopType, Pcs, Goto
<1>4. CASE Top(l)
  <2>1. CASE closed
    BY <1>1, <1>4, <2>1, OffStarted DEF Top
  <2>2. CASE ~closed
    BY <1>1, <1>4, <2>2 DEF Top
  <2> QED BY <2>1, <2>2
<1>5. CASE OpenFails(l)
  BY <1>1, <1>5 DEF OpenFails
<1>6. CASE Park(l)
  <2>1. PICK pc \in {"backoff", "wait"} :
            loop' = [loop EXCEPT ![l].pc = pc, ![l].gen = stopCh]
    BY <1>6 DEF Park
  <2>2. [loop[l] EXCEPT !.pc = pc, !.gen = stopCh] \in LoopType
    BY <1>1
  <2>3. loop' \in [Loops -> LoopType]
    <3> HIDE DEF LoopType
    <3> QED BY <1>1, <2>1, <2>2
  <2>4. loop'[l].pc = pc
    BY <1>1, <2>1
  <2> QED BY <1>1, <1>6, <2>1, <2>3, <2>4 DEF Park
<1>7. CASE BackoffElapsed(l)
  <2>1. PICK d \in Jittered(loop[l].delay) : loop' = [loop EXCEPT ![l].pc = "top", ![l].delay = d]
    BY <1>7 DEF BackoffElapsed
  <2>2. d \in DelayFloor .. DelayCap
    BY <1>1, DelaysStay
  <2> QED BY <1>1, <1>7, <2>1, <2>2 DEF BackoffElapsed
<1>8. CASE WaitElapsed(l)
  BY <1>1, <1>2, <1>8 DEF WaitElapsed
<1>9. CASE StoppedWaiting(l)
  BY <1>1, <1>9, OffStarted DEF StoppedWaiting
<1>10. CASE ReadCheck(l)
  BY <1>1, <1>10 DEF ReadCheck
<1>11. CASE ReadPort(l)
  BY <1>1, <1>11, ZenonT(60) DEF ReadPort
<1>12. CASE ReadReturns(l) \/ ReadFails(l)
  BY <1>1, <1>12 DEF ReadReturns, ReadFails
<1>13. CASE SerialConnect(l)
  BY <1>1, <1>13, OffStarted DEF SerialConnect
<1> QED BY <1>4, <1>5, <1>6, <1>7, <1>8, <1>9, <1>10, <1>11, <1>12, <1>13

(* A handle that is opened was nobody's.                                   *)
LEMMA OpensNew ==
    ASSUME CanOpen
    PROVE  NewHandle \in Handle /\ NewHandle \notin handles
BY Zenon DEF CanOpen, NewHandle, FreeHandles

(* No handle is the absent one.                                            *)
LEMMA NoPortIsNone == NoPort \notin Handle
BY DEF NoPort, Handle

(* connect's open gives the loop a handle that is its own.                 *)
LEMMA OpenOkKeeps ==
    ASSUME LinkInv, NEW l \in Loops, OpenOk(l)
    PROVE  LinkInv'
<1> USE DEF LinkInv, OpenOk, manager, outside
<1> DEFINE h == NewHandle
<1>1. h \in Handle /\ h \notin handles
  BY OpensNew
<1> HIDE DEF h
<1>0. handles' = handles \cup {h} /\ loop' = [loop EXCEPT ![l].pc = "assign", ![l].fd = h]
  BY DEF h
<1> HIDE DEF OpenOk
<1>9. UNCHANGED <<stopCh, closed, port, connected, device, wake, used, exclusive>>
  BY DEF OpenOk
<1>2. loop \in [Loops -> LoopType] /\ "assign" \in Pcs
  BY DEF TypeOK, LoopType, Pcs
<1>3. loop' \in [Loops -> LoopType]
  BY <1>0, <1>1, <1>2 DEF LoopType
<1>4. \A k \in Loops : loop'[k] = IF k = l THEN [loop[l] EXCEPT !.pc = "assign", !.fd = h]
                                  ELSE loop[k]
  BY <1>0, <1>2
<1>5. loop'[l].pc = "assign" /\ loop'[l].fd = h
  BY <1>2, <1>4 DEF LoopType
<1>6. TypeOK'
  BY <1>0, <1>1, <1>3, <1>9 DEF TypeOK, LoopType
<1>7. Counts'
  BY <1>9 DEF Counts
<1>8. Handles'
  <2>1. \A k \in Loops : k # l /\ At(k, "assign")' => At(k, "assign") /\ loop'[k].fd = loop[k].fd
    BY <1>4 DEF At
  <2>2. handles' = handles \cup {h} /\ UNCHANGED <<port, connected, wake>>
    BY <1>0, <1>9
  <2>3. LoopsOwn'
    BY <1>1, <1>5, <2>1, <2>2, NoPortIsNone DEF Handles, PortIsOpen, LoopsOwn
  <2>4. WakeOwns' /\ PortIsOpen'
    BY <1>1, <1>5, <2>1, <2>2 DEF Handles, PortIsOpen, WakeOwns
  <2> QED BY <2>3, <2>4 DEF Handles
<1> QED BY <1>6, <1>7, <1>8

(* The handle that is assigned is open and stays the manager's alone.      *)
LEMMA AssignKeeps ==
    ASSUME LinkInv, NEW l \in Loops, Assign(l)
    PROVE  LinkInv'
<1> USE DEF LinkInv, Assign, outside
<1>1. loop \in [Loops -> LoopType] /\ "check" \in Pcs /\ BaseDelay \in DelayFloor .. DelayCap
  BY DelaysStay DEF TypeOK, LoopType, Pcs
<1>2. loop' \in [Loops -> LoopType]
  BY <1>1 DEF LoopType
<1>3. \A k \in Loops : k # l => loop'[k] = loop[k]
  BY <1>1
<1>4. loop'[l].pc = "check"
  BY <1>1 DEF LoopType
<1>5. TypeOK'
  BY <1>1, <1>2 DEF TypeOK, LoopType
<1>6. Counts'
  BY DEF Counts
<1>7. Handles'
  <2>1. \A k \in Loops : At(k, "assign")' => k # l /\ At(k, "assign") /\ loop'[k].fd = loop[k].fd
    BY <1>3, <1>4 DEF At
  <2>2. At(l, "assign") /\ port' = loop[l].fd /\ connected' = TRUE /\ UNCHANGED <<handles, wake>>
    OBVIOUS
  <2> HIDE DEF Assign
  <2>3. LoopsOwn'
    BY <2>1, <2>2 DEF Handles, LoopsOwn
  <2>4. WakeOwns'
    BY <2>1, <2>2 DEF Handles, WakeOwns
  <2>5. PortIsOpen'
    BY <2>2 DEF Handles, LoopsOwn, PortIsOpen
  <2> QED BY <2>3, <2>4, <2>5 DEF Handles
<1> QED BY <1>5, <1>6, <1>7

(* Closing the manager's port closes nobody else's handle.                 *)
LEMMA PortClosed ==
    ASSUME LinkInv, ClosePort,
           \A l \in Loops : loop'[l] = loop[l] \/ ~At(l, "assign")',
           UNCHANGED wake \/ wake'.pc = "open"
    PROVE  Handles'
<1>1. NoPort \notin handles
  BY NoPortIsNone DEF LinkInv, TypeOK
<1>2. \A l \in Loops : At(l, "assign")' => At(l, "assign") /\ loop'[l].fd = loop[l].fd
  BY DEF At
<1>3. LoopsOwn'
  BY <1>1, <1>2 DEF LinkInv, Handles, LoopsOwn, ClosePort
<1>4. WakeOwns'
  BY <1>1, <1>2 DEF LinkInv, Handles, WakeOwns, ClosePort
<1> QED BY <1>3, <1>4 DEF ClosePort, Handles, PortIsOpen

(* The four places that close the manager's port.                          *)
LEMMA CloseKeeps ==
    ASSUME LinkInv, (\E l \in Loops : Lost(l)) \/ StopRest \/ WakeClose
    PROVE  LinkInv'
<1> USE DEF LinkInv
<1>1. CASE \E l \in Loops : Lost(l)
  <2>1. PICK l \in Loops : Lost(l)
    BY <1>1
  <2>2. loop \in [Loops -> LoopType] /\ "park_lost" \in Pcs
    BY DEF TypeOK, LoopType, Pcs
  <2>3. loop' \in [Loops -> LoopType] /\ loop'[l].pc = "park_lost"
    BY <2>1, <2>2 DEF Lost, Goto, LoopType
  <2>4. \A k \in Loops : loop'[k] = loop[k] \/ ~At(k, "assign")'
    BY <2>1, <2>2, <2>3 DEF Lost, Goto, At
  <2>5. TypeOK' /\ Counts'
    BY <2>1, <2>3 DEF TypeOK, Counts, Lost, ClosePort, outside, LoopType
  <2> QED BY <2>1, <2>4, <2>5, PortClosed DEF Lost, outside
<1>2. CASE StopRest
  <2>1. stopCh + 1 \in 0 .. MaxStops /\ stopCh + 1 <= used.stop
    BY <1>2, BoundAssumption DEF StopRest, TypeOK, Counts
  <2>2. TypeOK'
    BY <1>2, <2>1 DEF TypeOK, StopRest, ClosePort, outside
  <2>3. Counts'
    BY <1>2, <2>1 DEF TypeOK, Counts, StopRest, outside
  <2> QED BY <1>2, <2>2, <2>3, PortClosed DEF StopRest, outside
<1>3. CASE WakeClose
  <2>1. used' \in [{"stop", "wake", "unplug"} -> Nat]
        /\ used'.stop = used.stop /\ used'.unplug = used.unplug
    BY <1>3 DEF WakeClose, Count, TypeOK
  <2>2. wake' \in [pc : {"idle", "open", "pulse"}, fd : Handle \cup {NoPort}]
        /\ wake'.pc = "open"
    BY <1>3 DEF WakeClose, TypeOK
  <2>3. TypeOK'
    BY <1>3, <2>1, <2>2 DEF TypeOK, WakeClose, ClosePort
  <2>4. Counts'
    BY <1>3, <2>1 DEF Counts, WakeClose
  <2> QED BY <1>3, <2>2, <2>3, <2>4, PortClosed DEF WakeClose
<1> QED BY <1>1, <1>2, <1>3

(* A crash of the process closes everything.                               *)
LEMMA NilPortKeeps ==
    ASSUME LinkInv, NEW l \in Loops, NilPort(l)
    PROVE  LinkInv'
<1>1. /\ device' \in Devices \cup {NoDevice}
      /\ used' \in [{"stop", "wake", "unplug"} -> Nat]
      /\ used'.stop <= MaxStops /\ used'.unplug <= MaxUnplugs /\ exclusive' \in BOOLEAN
  BY DEF LinkInv, TypeOK, Counts, NilPort
<1>2. /\ loop' = [k \in Loops |-> IF k = Boot THEN Started ELSE Off]
      /\ stopCh' = 0 /\ closed' = FALSE /\ port' = NoPort /\ connected' = FALSE
      /\ handles' = {} /\ wake' = [pc |-> "idle", fd |-> NoPort]
  BY DEF NilPort
<1>3. loop' \in [Loops -> LoopType] /\ \A k \in Loops : ~At(k, "assign")'
  BY <1>2, OffStarted DEF At
<1>4. TypeOK'
  <2>1. stopCh' \in 0 .. MaxStops /\ port' \in Handle \cup {NoPort} /\ handles' \subseteq Handle
    BY <1>2, BoundAssumption
  <2>2. wake' \in [pc : {"idle", "open", "pulse"}, fd : Handle \cup {NoPort}]
    BY <1>2
  <2> QED BY <1>1, <1>2, <1>3, <2>1, <2>2 DEF TypeOK, LoopType
<1>5. Counts'
  BY <1>1, <1>2 DEF Counts
<1>6. Handles'
  BY <1>2, <1>3 DEF Handles, PortIsOpen, LoopsOwn, WakeOwns
<1> QED BY <1>4, <1>5, <1>6 DEF LinkInv

(* Stop's first half, the device and the end of a wake.                    *)
LEMMA OutsideKeeps ==
    ASSUME LinkInv, StopClose \/ WakeOpen \/ WakeDone \/ Unplug \/ Replug
    PROVE  LinkInv'
<1> USE DEF LinkInv, manager
<1>1. CASE StopClose
  <2>1. /\ used' \in [{"stop", "wake", "unplug"} -> Nat]
        /\ used'.stop = used.stop + 1 /\ used'.unplug = used.unplug
    BY <1>1 DEF StopClose, Count, TypeOK
  <2>2. TypeOK'
    BY <1>1, <2>1 DEF TypeOK, StopClose
  <2>3. stopCh \in Nat /\ used.stop \in Nat /\ used.stop < MaxStops /\ stopCh <= used.stop
    BY <1>1 DEF StopClose, Counts, TypeOK
  <2>4. Counts'
    BY <1>1, <2>1, <2>3, BoundAssumption DEF StopClose, Counts
  <2>5. Handles'
    BY <1>1 DEF StopClose, Handles, PortIsOpen, LoopsOwn, WakeOwns, At
  <2> QED BY <2>2, <2>4, <2>5
<1>2. CASE WakeOpen
  <2>1. CASE CanOpen
    <3> DEFINE h == NewHandle
    <3>1. /\ h \in Handle /\ h \notin handles
          /\ handles' = handles \cup {h} /\ wake' = [pc |-> "pulse", fd |-> h]
      BY <1>2, <2>1, OpensNew DEF WakeOpen
    <3> HIDE DEF h
    <3>2. TypeOK' /\ Counts'
      BY <1>2, <3>1 DEF WakeOpen, TypeOK, Counts
    <3>3. Handles'
      <4>1. UNCHANGED <<loop, port, connected>>
        BY <1>2 DEF WakeOpen
      <4>2. LoopsOwn' /\ PortIsOpen'
        BY <3>1, <4>1 DEF Handles, LoopsOwn, PortIsOpen, At
      <4>3. WakeOwns'
        BY <3>1, <4>1, NoPortIsNone DEF Handles, LoopsOwn, PortIsOpen, WakeOwns, At
      <4> QED BY <4>2, <4>3 DEF Handles
    <3> QED BY <3>2, <3>3
  <2>2. CASE ~CanOpen
    <3>1. TypeOK' /\ Counts'
      BY <1>2, <2>2 DEF WakeOpen, TypeOK, Counts
    <3>2. Handles'
      BY <1>2, <2>2 DEF WakeOpen, Handles, PortIsOpen, LoopsOwn, WakeOwns, At
    <3> QED BY <3>1, <3>2
  <2> QED BY <2>1, <2>2
<1>3. CASE WakeDone
  <2>1. TypeOK' /\ Counts'
    BY <1>3 DEF WakeDone, TypeOK, Counts
  <2>2. Handles'
    BY <1>3 DEF WakeDone, Handles, PortIsOpen, LoopsOwn, WakeOwns, At
  <2> QED BY <2>1, <2>2
<1>4. CASE Unplug
  <2>1. /\ used' \in [{"stop", "wake", "unplug"} -> Nat]
        /\ used'.stop = used.stop /\ used'.unplug = used.unplug + 1
    BY <1>4 DEF Unplug, Count, TypeOK
  <2>2. used.unplug \in Nat /\ used.unplug < MaxUnplugs /\ MaxUnplugs \in Nat
    BY <1>4, BoundAssumption DEF Unplug, TypeOK
  <2>3. TypeOK'
    BY <1>4, <2>1 DEF TypeOK, Unplug
  <2>4. Counts'
    BY <1>4, <2>1, <2>2 DEF Unplug, Counts
  <2>5. Handles'
    BY <1>4 DEF Unplug, Handles, PortIsOpen, LoopsOwn, WakeOwns, At
  <2> QED BY <2>3, <2>4, <2>5
<1>5. CASE Replug
  <2>1. used.unplug \in Nat /\ used.unplug <= MaxUnplugs /\ MaxUnplugs \in Nat
    BY BoundAssumption DEF TypeOK, Counts
  <2>2. device' \in Devices
    BY <1>5, <2>1 DEF Replug, Devices
  <2>3. TypeOK'
    BY <1>5, <2>2 DEF TypeOK, Replug
  <2>4. Counts' /\ Handles'
    BY <1>5 DEF Replug, Counts, Handles, PortIsOpen, LoopsOwn, WakeOwns, At
  <2> QED BY <2>3, <2>4
<1> QED BY <1>1, <1>2, <1>3, <1>4, <1>5

-----------------------------------------------------------------------------
(* The theorems.                                                           *)

(* LinkInv holds in every state.                                           *)
THEOREM Invariant == Spec => []LinkInv
<1>1. Init => LinkInv
  <2> SUFFICES ASSUME Init PROVE LinkInv
    OBVIOUS
  <2>1. /\ device \in Devices \cup {NoDevice}
        /\ used \in [{"stop", "wake", "unplug"} -> Nat]
        /\ used.stop = 0 /\ used.unplug = 0
    BY BoundAssumption DEF Init, Devices
  <2>2. used.stop <= MaxStops /\ used.unplug <= MaxUnplugs
    BY <2>1, BoundAssumption
  <2> QED BY <2>1, <2>2, FreshProcess DEF Init
<1>2. ASSUME LinkInv, [Next]_vars PROVE LinkInv'
  <2>1. CASE UNCHANGED vars
    BY <1>2, <2>1 DEF vars, LinkInv, TypeOK, Counts, Handles, PortIsOpen, LoopsOwn, WakeOwns, At
  <2>2. ASSUME NEW l \in Loops, Connector(l) PROVE LinkInv'
    BY <1>2, <2>2, QuietKeeps, OpenOkKeeps, AssignKeeps DEF Connector
  <2>3. ASSUME NEW l \in Loops, Reader(l) \/ SerialConnect(l) PROVE LinkInv'
    BY <1>2, <2>3, QuietKeeps, NilPortKeeps, CloseKeeps DEF Reader
  <2>4. CASE StopRest \/ WakeClose
    BY <1>2, <2>4, CloseKeeps
  <2>5. CASE StopClose \/ WakeOpen \/ WakeDone \/ Unplug \/ Replug
    BY <1>2, <2>5, OutsideKeeps
  <2> QED BY <1>2, <2>1, <2>2, <2>3, <2>4, <2>5 DEF Next
<1> QED BY <1>1, <1>2, PTL DEF Spec

(* The types of the link's state.  With them, for every configured base,   *)
(* maximum and jitter, the reconnect delay stays between its floor and its *)
(* cap: the growth by one half makes good for a jitter of up to a third.   *)
THEOREM TypeCorrect == Spec => []TypeOK
<1>1. LinkInv => TypeOK
  BY DEF LinkInv
<1> QED BY <1>1, Invariant, PTL

(* The port the manager offers is open and marked connected, however Stop, *)
(* WakeDevice, lost connections and any number of Start goroutines close   *)
(* and open ports under each other.                                        *)
THEOREM PortSafe == Spec => []PortIsOpen
<1>1. LinkInv => PortIsOpen
  BY DEF LinkInv, Handles
<1> QED BY <1>1, Invariant, PTL

-----------------------------------------------------------------------------
(* The texts: MeshIngest.                                                  *)

(* The kinds of events that parsing can yield.                             *)
Kinds == {"node-telemetry", "command-ack", "drone-telemetry", "target-detected", "alert", "ble-raw",
          "gate-codes", "i2c-scan", "ai-models", "tri-data", "tri-final", "tri-complete",
          "text-message", "raw"}

(* What one line yields: no event, one or two, none of them the chat's.    *)
FewEvents(events) ==
    /\ DOMAIN events \in {{}, 1 .. 1, 1 .. 2}
    /\ \A j \in DOMAIN events : events[j].kind \in Kinds

(* The dedup windows in which a packet has been delivered: those that have *)
(* passed, and the one its entry is in.                                    *)
Windows(p) == ages[p] + (IF dedup[p] = "fresh" THEN 1 ELSE 0)

(* A packet's first echo stands for all of it, or adds nothing to it.      *)
EchoHarmless(p) == Matched(heard[p].body[1]) \/ Len(heard[p].body) = 1

(* No text without a line.                                                 *)
TextsHaveLines == \A p \in DOMAIN heard : heard[p].body # <<>>

(* Nothing has been read of what was not heard.                            *)
HeardFirst ==
    /\ shown \subseteq (DOMAIN heard) \X Items
    /\ \A p \in Packets \ DOMAIN heard : dedup[p] = "none" /\ \A k \in Sinks : handled[p][k] = 0

(* The gated kinds, once in each window.                                   *)
OncePerWindow ==
    \A p \in DOMAIN heard : \A k \in GatedSinks : handled[p][k] <= Windows(p) * Expected(p)[k]

(* Whatever made the filter's entry has delivered the packet.              *)
EntryDelivered ==
    \A p \in DOMAIN heard :
        /\ <<p, "frame">> \in shown => dedup[p] # "none"
        /\ (dedup[p] # "none" /\ EchoHarmless(p)) => \A k \in Sinks : handled[p][k] >= Expected(p)[k]

IngestInv == IngestTypeOK /\ TextsHaveLines /\ HeardFirst /\ OncePerWindow /\ EntryDelivered

-----------------------------------------------------------------------------
(* What lines yield.                                                       *)

(* Results with no event, one and two.                                     *)
LEMMA Yields ==
    /\ FewEvents(<<>>)
    /\ \A d : d.kind \in Kinds => FewEvents(<<d>>)
    /\ \A d, e : d.kind \in Kinds /\ e.kind \in Kinds => FewEvents(<<d, e>>)
<1>1. FewEvents(<<>>)
  BY DEF FewEvents
<1>2. ASSUME NEW d, d.kind \in Kinds PROVE FewEvents(<<d>>)
  <2> DEFINE s == <<d>>
  <2>1. DOMAIN s = 1 .. 1 /\ s[1] = d
    OBVIOUS
  <2>2. \A j \in DOMAIN s : j = 1
    BY <2>1
  <2> HIDE DEF s
  <2> QED
    BY <1>2, <2>1, <2>2 DEF FewEvents
<1>3. ASSUME NEW d, NEW e, d.kind \in Kinds, e.kind \in Kinds PROVE FewEvents(<<d, e>>)
  <2> DEFINE s == <<d, e>>
  <2>1. DOMAIN s = 1 .. 2 /\ s[1] = d /\ s[2] = e
    OBVIOUS
  <2>2. \A j \in DOMAIN s : j = 1 \/ j = 2
    BY <2>1
  <2> HIDE DEF s
  <2> QED
    BY <1>3, <2>1, <2>2 DEF FewEvents
<1> QED BY <1>1, <1>2, <1>3

(* The events the handlers make.                                           *)
LEMMA EventKinds ==
    /\ \A tag, kind : Ev(kind, tag).kind = kind
    /\ \A tag : Alert(tag).kind \in Kinds /\ Ack(tag).kind \in Kinds
    /\ \A reading : Telemetry(reading).kind \in Kinds
    /\ Detected.kind \in Kinds
    /\ \A kind \in Kinds : Ev(kind, "").kind \in Kinds
  BY DEF Ev, Alert, Ack, Telemetry, Detected, Kinds

(* The kinds they name.                                                    *)
LEMMA NamedKinds ==
    {"drone-telemetry", "ble-raw", "tri-data", "tri-final", "tri-complete", "gate-codes", "i2c-scan",
     "ai-models", "text-message", "raw"} \subseteq Kinds
  BY DEF Kinds

(* The handlers of the first sixteen patterns.                             *)
LEMMA SensorYield ==
    ASSUME NEW l \in Lines, NEW f \in DOMAIN SensorForms(l)
    PROVE  FewEvents(SensorForms(l)[f])
<1>1. \A reading : FewEvents(handleStatus(reading)) /\ FewEvents(handleTarget(reading))
  BY Yields, EventKinds DEF handleStatus, handleTarget
<1>2. \A reading : FewEvents(handleGPSLock(reading)) /\ FewEvents(handleNodeHB(reading))
  BY Yields, EventKinds DEF handleGPSLock, handleNodeHB
<1>3. /\ FewEvents(handleDrone) /\ FewEvents(handleDevice) /\ FewEvents(handleGPSLost)
      /\ FewEvents(handleAttackLong) /\ FewEvents(handleAttackShort)
  BY Yields, EventKinds, NamedKinds
  DEF handleDrone, handleDevice, handleGPSLost, handleAttackLong, handleAttackShort
<1>4. FewEvents(handleTri("tri-data")) /\ FewEvents(handleTri("tri-final"))
      /\ FewEvents(handleTri("tri-complete"))
  BY Yields, EventKinds, NamedKinds DEF handleTri
<1>5. \A decodes : FewEvents(handleBLERaw(decodes))
  BY Yields, EventKinds, NamedKinds DEF handleBLERaw
<1> QED
  BY <1>1, <1>2, <1>3, <1>4, <1>5 DEF SensorForms

(* Those of the replies and reports.                                       *)
LEMMA ReplyYield ==
    ASSUME NEW l \in Lines, NEW f \in DOMAIN ReplyForms(l)
    PROVE  FewEvents(ReplyForms(l)[f])
<1>1. \A x : FewEvents(handleNodeHB(x)) /\ FewEvents(handleACK(x)) /\ FewEvents(handleCam(x))
  BY Yields, EventKinds DEF handleNodeHB, handleACK, handleCam
<1>2. FewEvents(handleCodes) /\ FewEvents(handleAIModels)
  BY Yields, EventKinds, NamedKinds DEF handleCodes, handleAIModels
<1>3. /\ FewEvents(handleGateTriggered) /\ FewEvents(handleProbeHit) /\ FewEvents(handleAnomaly)
      /\ FewEvents(handleStartup) /\ FewEvents(handleVibration) /\ FewEvents(handleTamper)
  BY Yields, EventKinds
  DEF handleGateTriggered, handleProbeHit, handleAnomaly, handleStartup, handleVibration, handleTamper
<1> QED
  BY <1>1, <1>2, <1>3 DEF ReplyForms

(* Those of the summaries.                                                 *)
LEMMA SummaryYield ==
    ASSUME NEW l \in Lines, NEW f \in DOMAIN SummaryForms(l)
    PROVE  FewEvents(SummaryForms(l)[f])
  BY Yields, EventKinds DEF SummaryForms, handleDoneSummaryWithAck

(* And those of the system messages.                                       *)
LEMMA SystemYield ==
    ASSUME NEW l \in Lines, NEW f \in DOMAIN SystemForms(l)
    PROVE  FewEvents(SystemForms(l)[f])
<1>1. \A x : FewEvents(handleI2cScan(x)) /\ FewEvents(handleBroadcastCommand(x))
  BY Yields, EventKinds, NamedKinds DEF handleI2cScan, handleBroadcastCommand
<1>2. /\ FewEvents(handleIdentity) /\ FewEvents(handleAttack) /\ FewEvents(handleSetupMode)
      /\ FewEvents(handleBatterySaverState) /\ FewEvents(handleEraseEvent)
      /\ FewEvents(handleEraseToken) /\ FewEvents(handleRTCSync)
  BY Yields, EventKinds DEF handleIdentity, handleAttack, handleSetupMode, handleBatterySaverState,
     handleEraseEvent, handleEraseToken, handleRTCSync
<1> QED
  BY <1>1, <1>2 DEF SystemForms

(* A line of any form yields at most two events, of the known kinds.       *)
LEMMA LineYields ==
    ASSUME NEW l \in Lines, NEW isMeshEcho \in BOOLEAN
    PROVE  FewEvents(ParseLine(l, isMeshEcho))
<1>1. CASE ~Matched(l)
  <2>1. Ev("text-message", "").kind \in Kinds /\ Ev("raw", "").kind \in Kinds
    BY EventKinds, NamedKinds
  <2> QED
    BY <1>1, <2>1, Yields DEF ParseLine
<1>2. CASE Matched(l)
  <2>1. \/ l.form \in DOMAIN SensorForms(l) \/ l.form \in DOMAIN ReplyForms(l)
        \/ l.form \in DOMAIN SummaryForms(l) \/ l.form \in DOMAIN SystemForms(l)
    <3>1. /\ DOMAIN SensorForms(EmptyLine) = DOMAIN SensorForms(l)
          /\ DOMAIN ReplyForms(EmptyLine) = DOMAIN ReplyForms(l)
          /\ DOMAIN SummaryAck = DOMAIN SummaryForms(l)
          /\ DOMAIN SystemForms(EmptyLine) = DOMAIN SystemForms(l)
      BY DEF SensorForms, ReplyForms, SummaryForms, SystemForms
    <3>2. l.form \in AllForms \ UnmatchedForms
      BY <1>2 DEF Matched, Lines
    <3> QED
      BY <3>1, <3>2 DEF AllForms
  <2>2. FewEvents(Handled(l))
    BY <2>1, SensorYield, ReplyYield, SummaryYield, SystemYield DEF Handled
  <2> QED
    BY <1>2, <2>2 DEF ParseLine
<1> QED BY <1>1, <1>2

-----------------------------------------------------------------------------
(* How many events reach a sink.                                           *)

(* What a place is.                                                        *)
LEMMA PlaceOf ==
    ASSUME NEW body, NEW isMeshEcho, NEW at \in Places(body, isMeshEcho)
    PROVE  at[1] \in DOMAIN body /\ at[2] \in DOMAIN ParseLine(body[at[1]], isMeshEcho)
  BY DEF Places

(* The places of a text's events: finitely many.                           *)
LEMMA PlacesFinite ==
    ASSUME NEW body \in Seq(Lines), NEW isMeshEcho \in BOOLEAN
    PROVE  /\ IsFiniteSet(Places(body, isMeshEcho))
           /\ \A at \in Places(body, isMeshEcho) :
                 ParseLine(body[at[1]], isMeshEcho)[at[2]].kind \in Kinds
<1>1. \A i \in DOMAIN body : FewEvents(ParseLine(body[i], isMeshEcho))
  BY LineYields
<1>2. Places(body, isMeshEcho) \subseteq (1 .. Len(body)) \X (1 .. 2)
  <2> SUFFICES ASSUME NEW i \in DOMAIN body, NEW j \in DOMAIN ParseLine(body[i], isMeshEcho)
               PROVE  i \in 1 .. Len(body) /\ j \in 1 .. 2
    BY DEF Places
  <2>1. DOMAIN ParseLine(body[i], isMeshEcho) \in {{}, 1 .. 1, 1 .. 2}
    BY <1>1 DEF FewEvents
  <2> QED
    BY <2>1
<1>3. IsFiniteSet((1 .. Len(body)) \X (1 .. 2))
  <2>1. \A n \in Nat : IsFiniteSet(1 .. n)
    BY FS_Interval
  <2> QED
    BY <2>1, Len(body) \in Nat, FS_Product
<1> QED
  BY <1>1, <1>2, <1>3, PlaceOf, FS_Subset DEF FewEvents

(* Every sink gets a number of events; those of a dropped kind, and the    *)
(* chat, which no line addresses, get none.                                *)
LEMMA DispatchedCounts ==
    ASSUME NEW body \in Seq(Lines), NEW isMeshEcho \in BOOLEAN, NEW hasFrom \in BOOLEAN, NEW dropped
    PROVE  /\ Dispatched(body, isMeshEcho, hasFrom, dropped) \in [Sinks -> Nat]
           /\ \A k \in Sinks : k \in dropped \/ k = "chat" =>
                 Dispatched(body, isMeshEcho, hasFrom, dropped)[k] = 0
<1> DEFINE event(at) == ParseLine(body[at[1]], isMeshEcho)[at[2]]
           passed == {at \in Places(body, isMeshEcho) :
                         event(at).kind \notin dropped /\ Reaches(event(at), hasFrom)}
           of(k) == {at \in passed : event(at).kind = k}
<1>1. Dispatched(body, isMeshEcho, hasFrom, dropped) = [k \in Sinks |-> Cardinality(of(k))]
  BY DEF Dispatched
<1>2. ASSUME NEW k \in Sinks
      PROVE  Cardinality(of(k)) \in Nat
  <2>1. of(k) \subseteq Places(body, isMeshEcho)
    OBVIOUS
  <2> HIDE DEF of
  <2> QED
    BY <2>1, PlacesFinite, FS_Subset, FS_CardinalityType
<1>3. ASSUME NEW k \in Sinks, k \in dropped \/ k = "chat"
      PROVE  Cardinality(of(k)) = 0
  <2>1. \A at \in Places(body, isMeshEcho) : event(at).kind \in Kinds
    BY PlacesFinite
  <2>2. "chat" \notin Kinds
    BY DEF Kinds
  <2>3. of(k) = {}
    BY <1>3, <2>1, <2>2
  <2> QED
    BY <2>3, FS_EmptySet
<1> HIDE DEF of
<1> QED
  BY <1>1, <1>2, <1>3

(* A text that no pattern matches brings its chat message and no more.     *)
LEMMA PlainText ==
    ASSUME NEW l \in Lines, ~Matched(l), NEW k \in Sinks
    PROVE  ProcessMeshText(<<l>>)[k] = 0
<1> DEFINE body == <<l>>
           event(at) == ParseLine(body[at[1]], FALSE)[at[2]]
           dropped == {"raw", "text-message"}
           passed == {at \in Places(body, FALSE) :
                         event(at).kind \notin dropped /\ Reaches(event(at), TRUE)}
<1>1. ParseLine(l, FALSE) = <<Ev("raw", "")>>
  BY DEF ParseLine
<1>2. \A at \in Places(body, FALSE) : event(at).kind = "raw"
  <2>1. DOMAIN body = {1} /\ body[1] = l
    OBVIOUS
  <2>2. DOMAIN <<Ev("raw", "")>> = {1} /\ <<Ev("raw", "")>>[1] = Ev("raw", "")
    OBVIOUS
  <2>3. ASSUME NEW at \in Places(body, FALSE) PROVE at[1] = 1 /\ at[2] = 1
    <3>1. at[1] \in DOMAIN body /\ at[2] \in DOMAIN ParseLine(body[at[1]], FALSE)
      BY PlaceOf
    <3> QED
      BY <1>1, <2>1, <2>2, <3>1
  <2>4. Ev("raw", "").kind = "raw"
    BY EventKinds
  <2> HIDE DEF body
  <2> QED
    BY <1>1, <2>1, <2>2, <2>3, <2>4
<1>3. passed = {}
  BY <1>2
<1>4. ProcessMeshText(body) = [q \in Sinks |-> Cardinality({at \in passed : event(at).kind = q})]
  BY DEF ProcessMeshText, Dispatched
<1>5. {at \in passed : event(at).kind = k} = {}
  BY <1>3
<1> QED
  BY <1>4, <1>5, FS_EmptySet

(* What one delivery brings, and what a further one adds.                  *)
LEMMA ExpectedCounts ==
    ASSUME NEW body \in Seq(Lines)
    PROVE  /\ ProcessMeshText(body) \in [Sinks -> Nat]
           /\ Plus(ProcessMeshText(body), OneChat) \in [Sinks -> Nat]
           /\ \A k \in Sinks : /\ Plus(ProcessMeshText(body), OneChat)[k]
                                     = ProcessMeshText(body)[k] + OneChat[k]
                               /\ OneChat[k] \in Nat
<1>1. ProcessMeshText(body) \in [Sinks -> Nat]
  BY DispatchedCounts DEF ProcessMeshText
<1>2. \A k \in Sinks : OneChat[k] \in Nat
  BY DEF OneChat
<1> QED
  BY <1>1, <1>2 DEF Plus

-----------------------------------------------------------------------------
(* The steps of the reader.                                                *)

(* What is known of a packet that was heard.                               *)
LEMMA HeardPacket ==
    ASSUME IngestInv, NEW p \in DOMAIN heard
    PROVE  /\ p \in Packets /\ heard[p].to \in {Broadcast, Direct}
           /\ heard[p].body \in Seq(Lines) /\ heard[p].body[1] \in Lines
           /\ <<heard[p].body[1]>> \in Seq(Lines) /\ Tail(heard[p].body) \in Seq(Lines)
           /\ Len(heard[p].body) = 1 => heard[p].body = <<heard[p].body[1]>>
           /\ Expected(p) \in [Sinks -> Nat]
           /\ \A k \in Sinks :
                 /\ Expected(p)[k] = ProcessMeshText(heard[p].body)[k] + OneChat[k]
                 /\ ProcessMeshText(heard[p].body)[k] \in Nat /\ OneChat[k] \in Nat
<1>1. heard[p] \in PacketType /\ p \in 1 .. Len(heard) /\ Len(heard) <= MaxTexts
  BY DEF IngestInv, IngestTypeOK
<1>2. p \in Packets
  BY <1>1, PacketAssumption DEF Packets
<1>3. heard[p].to \in {Broadcast, Direct} /\ heard[p].body \in Seq(Lines)
  BY <1>1 DEF PacketType
<1>4. heard[p].body # <<>>
  BY DEF IngestInv, TextsHaveLines
<1>5. /\ heard[p].body[1] \in Lines
      /\ <<heard[p].body[1]>> \in Seq(Lines) /\ Tail(heard[p].body) \in Seq(Lines)
      /\ Len(heard[p].body) = 1 => heard[p].body = <<heard[p].body[1]>>
  BY <1>3, <1>4
<1> QED
  BY <1>2, <1>3, <1>5, ExpectedCounts DEF Expected

(* The product in OncePerWindow.                                           *)
LEMMA NextWindow ==
    ASSUME NEW w \in Nat, NEW e \in Nat
    PROVE  w * e \in Nat /\ (w + 1) * e = w * e + e
  OBVIOUS

(* The windows of a packet are a number.                                   *)
LEMMA WindowsCount ==
    ASSUME IngestInv, NEW p \in Packets
    PROVE  Windows(p) \in Nat /\ ages[p] \in Nat /\ Windows(p) <= 1 + ages[p]
  BY DEF IngestInv, IngestTypeOK, Windows

(* Another packet: nothing about it has changed.                           *)
SameElse(p) ==
    \A q \in Packets : q # p => /\ dedup'[q] = dedup[q] /\ ages'[q] = ages[q]
                                /\ handled'[q] = handled[q]

(* A step on packet p keeps the parts about what was delivered when it     *)
(* keeps them for p.                                                       *)
LEMMA OnlyThisPacket ==
    ASSUME IngestInv, NEW p \in DOMAIN heard, heard' = heard, SameElse(p), NEW i \in Items,
           shown' \in {shown, shown \cup {<<p, i>>}},
           \A k \in GatedSinks : handled'[p][k] <= Windows(p)' * Expected(p)[k],
           <<p, "frame">> \in shown' => dedup'[p] # "none",
           (dedup'[p] # "none" /\ EchoHarmless(p)) =>
               \A k \in Sinks : handled'[p][k] >= Expected(p)[k]
    PROVE  TextsHaveLines' /\ HeardFirst' /\ OncePerWindow' /\ EntryDelivered'
<1>1. \A q \in DOMAIN heard : q \in Packets /\ Expected(q)' = Expected(q)
  BY HeardPacket DEF Expected
<1>2. TextsHaveLines'
  BY DEF IngestInv, TextsHaveLines
<1>3. HeardFirst'
  <2>1. shown' \subseteq (DOMAIN heard) \X Items
    BY DEF IngestInv, HeardFirst
  <2>2. ASSUME NEW q \in Packets \ DOMAIN heard
        PROVE  dedup'[q] = "none" /\ \A k \in Sinks : handled'[q][k] = 0
    <3>1. q # p
      OBVIOUS
    <3> QED
      BY <3>1 DEF IngestInv, HeardFirst, SameElse
  <2> QED
    BY <2>1, <2>2 DEF HeardFirst
<1>4. OncePerWindow'
  <2> SUFFICES ASSUME NEW q \in DOMAIN heard, NEW k \in GatedSinks
               PROVE  handled'[q][k] <= Windows(q)' * Expected(q)[k]
    BY <1>1 DEF OncePerWindow
  <2>1. CASE q # p
    <3>1. handled[q][k] <= Windows(q) * Expected(q)[k]
      BY DEF IngestInv, OncePerWindow
    <3>2. handled'[q] = handled[q] /\ Windows(q)' = Windows(q)
      BY <1>1, <2>1 DEF SameElse, Windows
    <3> QED
      BY <3>1, <3>2
  <2> QED
    BY <2>1
<1>5. EntryDelivered'
  <2> SUFFICES ASSUME NEW q \in DOMAIN heard
               PROVE  /\ <<q, "frame">> \in shown' => dedup'[q] # "none"
                      /\ (dedup'[q] # "none" /\ EchoHarmless(q)) =>
                            \A k \in Sinks : handled'[q][k] >= Expected(q)[k]
    BY <1>1 DEF EntryDelivered, EchoHarmless
  <2>1. CASE q # p
    <3>1. /\ <<q, "frame">> \in shown => dedup[q] # "none"
          /\ (dedup[q] # "none" /\ EchoHarmless(q)) =>
                \A k \in Sinks : handled[q][k] >= Expected(q)[k]
      BY DEF IngestInv, EntryDelivered
    <3>2. handled'[q] = handled[q] /\ dedup'[q] = dedup[q]
      BY <1>1, <2>1 DEF SameElse
    <3>3. <<q, "frame">> \in shown' => <<q, "frame">> \in shown
      BY <2>1
    <3> QED
      BY <3>1, <3>2, <3>3
  <2> QED
    BY <2>1
<1> QED
  BY <1>2, <1>3, <1>4, <1>5

(* What is known of a packet before a step.                                *)
LEMMA PacketBefore ==
    ASSUME IngestInv, NEW p \in DOMAIN heard
    PROVE  /\ dedup[p] \in {"none", "fresh", "old"}
           /\ handled[p] \in [Sinks -> Nat]
           /\ \A k \in GatedSinks : handled[p][k] <= Windows(p) * Expected(p)[k]
           /\ <<p, "frame">> \in shown => dedup[p] # "none"
           /\ (dedup[p] # "none" /\ EchoHarmless(p)) =>
                 \A k \in Sinks : handled[p][k] >= Expected(p)[k]
  BY HeardPacket DEF IngestInv, IngestTypeOK, OncePerWindow, EntryDelivered

(* The console path: events that no gated kind is among.                   *)
LEMMA ConsoleKeeps ==
    ASSUME IngestInv, NEW p \in DOMAIN heard, NEW add \in [Sinks -> Nat],
           \A k \in GatedSinks : add[k] = 0, NEW i \in {"echo", "rest"},
           handled' = [handled EXCEPT ![p] = Plus(@, add)], shown' = shown \cup {<<p, i>>},
           UNCHANGED <<heard, repeats, dedup, ages, pktCache, chatTo>>
    PROVE  IngestInv'
<1>1. p \in Packets
  BY HeardPacket
<1>2. /\ handled' \in [Packets -> [Sinks -> Nat]]
      /\ \A k \in Sinks : handled'[p][k] = handled[p][k] + add[k] /\ handled[p][k] \in Nat
  BY <1>1 DEF IngestInv, IngestTypeOK, Plus
<1>3. SameElse(p)
  BY <1>1 DEF IngestInv, IngestTypeOK, SameElse
<1>4. \A k \in GatedSinks : handled'[p][k] <= Windows(p)' * Expected(p)[k]
  <2>1. Windows(p)' = Windows(p) /\ GatedSinks \subseteq Sinks
    BY DEF Windows, Sinks
  <2>2. \A k \in GatedSinks : handled'[p][k] = handled[p][k]
    BY <1>2, <2>1
  <2> QED
    BY <2>1, <2>2, PacketBefore
<1>5. \A k \in Sinks : Expected(p)[k] \in Nat
  BY HeardPacket
<1>6. (dedup'[p] # "none" /\ EchoHarmless(p)) => \A k \in Sinks : handled'[p][k] >= Expected(p)[k]
  <2> SUFFICES ASSUME dedup[p] # "none", EchoHarmless(p), NEW k \in Sinks
               PROVE  handled'[p][k] >= Expected(p)[k]
    OBVIOUS
  <2>1. handled[p][k] >= Expected(p)[k]
    BY PacketBefore
  <2> QED
    BY <1>2, <1>5, <2>1
<1>7. <<p, "frame">> \in shown' => dedup'[p] # "none"
  BY PacketBefore
<1>8. TextsHaveLines' /\ HeardFirst' /\ OncePerWindow' /\ EntryDelivered'
  BY <1>3, <1>4, <1>6, <1>7, OnlyThisPacket DEF Items
<1>9. IngestTypeOK'
  <2>1. shown' \subseteq Packets \X Items
    BY <1>1 DEF IngestInv, IngestTypeOK, Items
  <2> QED
    BY <1>2, <2>1 DEF IngestInv, IngestTypeOK
<1> QED
  BY <1>8, <1>9 DEF IngestInv

(* A delivery by the dispatcher: of the text, or of a plain first line.    *)
LEMMA DeliveryKeeps ==
    ASSUME IngestInv, NEW p \in DOMAIN heard, NEW to \in {Broadcast, Direct}, NEW body \in Seq(Lines),
           \A k \in Sinks : ProcessMeshText(body)[k] <= ProcessMeshText(heard[p].body)[k],
           EchoHarmless(p) => body = heard[p].body, NEW i \in Items,
           HandleText(p, to, body), shown' \in {shown, shown \cup {<<p, i>>}},
           UNCHANGED <<heard, ages>>
    PROVE  /\ TextsHaveLines' /\ HeardFirst' /\ OncePerWindow' /\ EntryDelivered'
           /\ dedup' \in [Packets -> {"none", "fresh", "old"}]
           /\ handled' \in [Packets -> [Sinks -> Nat]]
           /\ chatTo' \in [Packets -> SUBSET {Broadcast, Direct}]
           /\ shown' \subseteq Packets \X Items
<1>1. p \in Packets /\ shown' \subseteq Packets \X Items
  BY HeardPacket DEF IngestInv, IngestTypeOK
<1>2. /\ dedup \in [Packets -> {"none", "fresh", "old"}]
      /\ handled \in [Packets -> [Sinks -> Nat]]
      /\ chatTo \in [Packets -> SUBSET {Broadcast, Direct}]
  BY DEF IngestInv, IngestTypeOK
<1>3. /\ Windows(p) \in Nat /\ GatedSinks \subseteq Sinks
      /\ \A k \in Sinks : Expected(p)[k] \in Nat
  BY <1>1, WindowsCount, HeardPacket DEF Sinks
<1>4. CASE isDuplicate(p)
  <2>1. dedup' = dedup /\ handled' = handled /\ chatTo' = chatTo /\ dedup[p] = "fresh"
    BY <1>4 DEF HandleText, isDuplicate
  <2>2. SameElse(p) /\ Windows(p)' = Windows(p)
    BY <2>1 DEF SameElse, Windows
  <2> QED
    BY <1>1, <1>2, <2>1, <2>2, PacketBefore, OnlyThisPacket
<1>5. CASE ~isDuplicate(p)
  <2>1. /\ dedup' = [dedup EXCEPT ![p] = "fresh"]
        /\ handled' = [handled EXCEPT ![p] = Plus(Plus(@, OneChat), ProcessMeshText(body))]
        /\ chatTo' = [chatTo EXCEPT ![p] = @ \cup {to}]
    BY <1>5 DEF HandleText
  <2>2. \A k \in Sinks : ProcessMeshText(body)[k] \in Nat /\ OneChat[k] \in Nat
    BY ExpectedCounts
  <2>3. /\ \A k \in Sinks : /\ handled[p][k] \in Nat
                            /\ handled'[p][k] = handled[p][k] + OneChat[k] + ProcessMeshText(body)[k]
        /\ handled' \in [Packets -> [Sinks -> Nat]]
    BY <1>1, <1>2, <2>1, <2>2 DEF Plus
  <2>4. SameElse(p)
    BY <1>1, <1>2, <2>1 DEF SameElse
  <2>5. Windows(p)' = Windows(p) + 1
    BY <1>1, <1>2, <1>5, <2>1 DEF Windows, isDuplicate, IngestInv, IngestTypeOK
  <2>6. \A k \in Sinks : handled'[p][k] <= handled[p][k] + Expected(p)[k]
    <3> SUFFICES ASSUME NEW k \in Sinks
                 PROVE  handled'[p][k] <= handled[p][k] + Expected(p)[k]
      OBVIOUS
    <3>1. /\ Expected(p)[k] = ProcessMeshText(heard[p].body)[k] + OneChat[k]
          /\ ProcessMeshText(heard[p].body)[k] \in Nat
          /\ ProcessMeshText(body)[k] <= ProcessMeshText(heard[p].body)[k]
      BY HeardPacket
    <3>2. /\ handled'[p][k] = handled[p][k] + OneChat[k] + ProcessMeshText(body)[k]
          /\ handled[p][k] \in Nat /\ ProcessMeshText(body)[k] \in Nat /\ OneChat[k] \in Nat
      BY <2>2, <2>3
    <3> QED
      BY <3>1, <3>2
  <2>7. \A k \in GatedSinks : handled'[p][k] <= Windows(p)' * Expected(p)[k]
    <3> SUFFICES ASSUME NEW k \in GatedSinks
                 PROVE  handled'[p][k] <= (Windows(p) + 1) * Expected(p)[k]
      BY <2>5
    <3>1. /\ k \in Sinks /\ handled[p][k] \in Nat /\ handled'[p][k] \in Nat
          /\ handled[p][k] <= Windows(p) * Expected(p)[k]
          /\ handled'[p][k] <= handled[p][k] + Expected(p)[k]
      BY <1>1, <1>3, <2>3, <2>6, PacketBefore
    <3>2. /\ Windows(p) * Expected(p)[k] \in Nat
          /\ (Windows(p) + 1) * Expected(p)[k] = Windows(p) * Expected(p)[k] + Expected(p)[k]
      BY <1>3, <3>1, NextWindow
    <3> QED
      BY <1>3, <3>1, <3>2
  <2>8. EchoHarmless(p) => \A k \in Sinks : handled'[p][k] >= Expected(p)[k]
    <3> SUFFICES ASSUME EchoHarmless(p), NEW k \in Sinks
                 PROVE  handled'[p][k] >= Expected(p)[k]
      OBVIOUS
    <3>1. Expected(p)[k] = ProcessMeshText(body)[k] + OneChat[k]
      BY HeardPacket
    <3>2. /\ handled'[p][k] = handled[p][k] + OneChat[k] + ProcessMeshText(body)[k]
          /\ handled[p][k] \in Nat /\ ProcessMeshText(body)[k] \in Nat /\ OneChat[k] \in Nat
      BY <2>2, <2>3
    <3> QED
      BY <3>1, <3>2
  <2>9. dedup'[p] = "fresh"
    BY <1>1, <1>2, <2>1
  <2>10. TextsHaveLines' /\ HeardFirst' /\ OncePerWindow' /\ EntryDelivered'
    BY <2>4, <2>7, <2>8, <2>9, OnlyThisPacket
  <2> QED
    BY <1>1, <1>2, <2>1, <2>3, <2>10
<1> QED
  BY <1>4, <1>5

(* A new packet: nothing has been read of it.                              *)
LEMMA HearKeeps ==
    ASSUME IngestInv, NEW n \in Senders \cup {Self}, NEW to \in {Broadcast, Direct}, NEW body,
           Hear(n, to, body)
    PROVE  IngestInv'
<1> DEFINE pkt == [from |-> n, to |-> to, body |-> body]
<1> PICK m : m = Len(heard) + 1
  OBVIOUS
<1>1. /\ heard \in Seq(PacketType) /\ Len(heard) < MaxTexts /\ heard' = Append(heard, pkt)
      /\ body \in Bodies[m]
  BY DEF IngestInv, IngestTypeOK, Hear
<1>2. m \in 1 .. MaxTexts /\ m \in Packets
  BY <1>1, PacketAssumption DEF Packets
<1>3. body \in Seq(Lines) /\ body # <<>>
  BY <1>1, <1>2, BodyAssumption
<1>4. pkt \in PacketType
  BY <1>3 DEF PacketType
<1>5. /\ heard' \in Seq(PacketType) /\ Len(heard') = m /\ DOMAIN heard' = (DOMAIN heard) \cup {m}
      /\ heard'[m] = pkt /\ m \notin DOMAIN heard
      /\ \A q \in DOMAIN heard : heard'[q] = heard[q]
  BY <1>1, <1>4
<1>6. IngestTypeOK'
  <2>1. Len(heard') <= MaxTexts
    BY <1>1, <1>5, PacketAssumption
  <2> QED
    BY <1>5, <2>1 DEF IngestInv, IngestTypeOK, Hear
<1>7. TextsHaveLines'
  BY <1>3, <1>5 DEF IngestInv, TextsHaveLines
<1>8. HeardFirst'
  BY <1>5 DEF IngestInv, HeardFirst, Hear
<1>9. \A q \in DOMAIN heard : /\ Expected(q)' = Expected(q) /\ Windows(q)' = Windows(q)
                              /\ EchoHarmless(q)' <=> EchoHarmless(q)
  BY <1>5 DEF Expected, Windows, EchoHarmless, Hear
<1>10. /\ dedup[m] = "none" /\ \A k \in Sinks : handled[m][k] = 0
       /\ \A i : <<m, i>> \notin shown
  BY <1>2, <1>5 DEF IngestInv, HeardFirst
<1>11. OncePerWindow'
  <2> SUFFICES ASSUME NEW q \in DOMAIN heard', NEW k \in GatedSinks
               PROVE  handled'[q][k] <= Windows(q)' * Expected(q)'[k]
    BY DEF OncePerWindow
  <2>1. handled' = handled /\ dedup' = dedup /\ ages' = ages
    BY DEF Hear
  <2>2. CASE q = m
    <3>1. Windows(m)' \in Nat
      BY <1>2, <2>1 DEF Windows, IngestInv, IngestTypeOK
    <3>2. k \in Sinks /\ Expected(m)'[k] \in Nat
      <4>1. Expected(m)' = Plus(ProcessMeshText(body), OneChat)
        BY <1>5 DEF Expected
      <4> QED
        BY <1>3, <4>1, ExpectedCounts DEF Sinks
    <3> QED
      BY <1>10, <2>1, <2>2, <3>1, <3>2, NextWindow
  <2>3. CASE q \in DOMAIN heard
    BY <1>9, <2>1, <2>3 DEF IngestInv, OncePerWindow
  <2> QED
    BY <1>5, <2>2, <2>3
<1>12. EntryDelivered'
  <2> SUFFICES ASSUME NEW q \in DOMAIN heard'
               PROVE  /\ <<q, "frame">> \in shown' => dedup'[q] # "none"
                      /\ (dedup'[q] # "none" /\ EchoHarmless(q)') =>
                            \A k \in Sinks : handled'[q][k] >= Expected(q)'[k]
    BY DEF EntryDelivered
  <2>1. handled' = handled /\ dedup' = dedup /\ shown' = shown
    BY DEF Hear
  <2>2. CASE q = m
    BY <1>10, <2>1, <2>2
  <2>3. CASE q \in DOMAIN heard
    BY <1>9, <2>1, <2>3 DEF IngestInv, EntryDelivered
  <2> QED
    BY <1>5, <2>2, <2>3
<1> QED
  BY <1>6, <1>7, <1>8, <1>11, <1>12 DEF IngestInv

(* A step that delivers nothing.                                           *)
LEMMA NothingDelivered ==
    ASSUME IngestInv, NEW p \in DOMAIN heard, NEW i \in {"meta", "echo"}, Read(p, i),
           UNCHANGED <<dedup, handled, chatTo>>,
           pktCache' \subseteq DOMAIN heard, Cardinality(pktCache') <= CacheMax
    PROVE  IngestInv'
<1>1. SameElse(p) /\ Windows(p)' = Windows(p) /\ p \in Packets
  BY HeardPacket DEF SameElse, Windows, Read
<1>2. /\ heard' = heard /\ shown' = shown \cup {<<p, i>>} /\ repeats' = repeats /\ ages' = ages
      /\ dedup' = dedup /\ handled' = handled /\ chatTo' = chatTo
  BY DEF Read
<1>3. <<p, "frame">> \in shown' => dedup'[p] # "none"
  BY <1>2, PacketBefore
<1>4. TextsHaveLines' /\ HeardFirst' /\ OncePerWindow' /\ EntryDelivered'
  BY <1>1, <1>2, <1>3, PacketBefore, OnlyThisPacket DEF Items
<1>5. IngestTypeOK'
  BY <1>1, <1>2 DEF IngestInv, IngestTypeOK, Items
<1> QED
  BY <1>4, <1>5 DEF IngestInv

(* The metadata cache: pruned when it grows over its limit.                *)
LEMMA MetaKeeps ==
    ASSUME IngestInv, NEW p, ReadMeta(p)
    PROVE  IngestInv'
<1>1. p \in DOMAIN heard /\ Read(p, "meta") /\ UNCHANGED <<dedup, handled, chatTo>>
  BY DEF ReadMeta, Read
<1> DEFINE all == pktCache \cup {p}
<1>2. /\ pktCache' \subseteq all
      /\ \/ Cardinality(pktCache') = CacheKeep
         \/ ~(Cardinality(all) > CacheMax) /\ pktCache' = all
  <2>1. CASE Cardinality(all) > CacheMax
    <3>1. PICK kept \in SUBSET all : Cardinality(kept) = CacheKeep /\ pktCache' = kept
      BY <2>1 DEF ReadMeta
    <3> QED
      BY <3>1
  <2>2. CASE ~(Cardinality(all) > CacheMax)
    BY <2>2 DEF ReadMeta
  <2> QED
    BY <2>1, <2>2
<1>3. all \subseteq DOMAIN heard
  BY <1>1 DEF IngestInv, IngestTypeOK
<1>4. Cardinality(all) \in Nat
  <2>1. DOMAIN heard = 1 .. Len(heard) /\ Len(heard) \in Nat
    BY DEF IngestInv, IngestTypeOK
  <2>2. IsFiniteSet(DOMAIN heard)
    BY <2>1, FS_Interval
  <2> QED
    BY <1>3, <2>2, FS_Subset, FS_CardinalityType
<1>5. Cardinality(pktCache') <= CacheMax
  BY <1>2, <1>4, CacheAssumption
<1> QED
  BY <1>1, <1>2, <1>3, <1>5, NothingDelivered

(* A structured first line on the console.                                 *)
LEMMA EchoSensorKeeps ==
    ASSUME IngestInv, NEW p, ReadEchoSensor(p)
    PROVE  IngestInv'
<1>1. /\ p \in DOMAIN heard /\ handled' = [handled EXCEPT ![p] = Plus(@, EchoEvents(p))]
      /\ shown' = shown \cup {<<p, "echo">>}
      /\ UNCHANGED <<heard, repeats, dedup, ages, pktCache, chatTo>>
  BY DEF ReadEchoSensor, Read
<1>2. \A k \in GatedSinks : k \in Sinks /\ (k \in Blocked \/ k = "chat")
  BY DEF GatedSinks, Sinks, Blocked
<1>3. EchoEvents(p) \in [Sinks -> Nat] /\ \A k \in GatedSinks : EchoEvents(p)[k] = 0
  BY <1>1, <1>2, HeardPacket, DispatchedCounts DEF EchoEvents
<1> QED
  BY <1>1, <1>3, ConsoleKeeps

(* The further lines on the console.                                       *)
LEMMA RestKeeps ==
    ASSUME IngestInv, NEW p, ReadRest(p)
    PROVE  IngestInv'
<1> DEFINE more == Dispatched(Tail(heard[p].body), FALSE, FALSE, Blocked)
<1>1. /\ p \in DOMAIN heard /\ handled' = [handled EXCEPT ![p] = Plus(@, more)]
      /\ shown' = shown \cup {<<p, "rest">>}
      /\ UNCHANGED <<heard, repeats, dedup, ages, pktCache, chatTo>>
  BY DEF ReadRest, Read
<1>2. \A k \in GatedSinks : k \in Sinks /\ (k \in Blocked \/ k = "chat")
  BY DEF GatedSinks, Sinks, Blocked
<1>3. more \in [Sinks -> Nat] /\ \A k \in GatedSinks : more[k] = 0
  BY <1>1, <1>2, HeardPacket, DispatchedCounts
<1> HIDE DEF more
<1> QED
  BY <1>1, <1>3, ConsoleKeeps

(* A plain first line: dropped if it is our own, otherwise delivered as if *)
(* it were the packet.                                                     *)
LEMMA EchoTextKeeps ==
    ASSUME IngestInv, NEW p, ReadEchoText(p)
    PROVE  IngestInv'
<1>1. /\ p \in DOMAIN heard /\ Read(p, "echo") /\ ~Matched(heard[p].body[1])
      /\ pktCache' = pktCache \ {p}
  BY DEF ReadEchoText, Read
<1>2. pktCache' \subseteq DOMAIN heard /\ Cardinality(pktCache') <= CacheMax
  <2>1. /\ pktCache \subseteq DOMAIN heard /\ Cardinality(pktCache) <= CacheMax
        /\ DOMAIN heard = 1 .. Len(heard) /\ Len(heard) \in Nat
    BY DEF IngestInv, IngestTypeOK
  <2>2. IsFiniteSet(DOMAIN heard)
    BY <2>1, FS_Interval
  <2>3. IsFiniteSet(pktCache)
    BY <2>1, <2>2, FS_Subset
  <2>4. pktCache' \in SUBSET pktCache
    BY <1>1
  <2>5. /\ Cardinality(pktCache') <= Cardinality(pktCache) /\ Cardinality(pktCache) \in Nat
        /\ Cardinality(pktCache') \in Nat
    BY <2>3, <2>4, FS_Subset, FS_CardinalityType
  <2> QED
    BY <1>1, <2>1, <2>5, CacheAssumption
<1>3. CASE heard[p].from = Self
  BY <1>1, <1>2, <1>3, NothingDelivered DEF ReadEchoText
<1>4. CASE heard[p].from # Self
  <2> DEFINE line == <<heard[p].body[1]>>
             to == IF p \in pktCache THEN heard[p].to ELSE Broadcast
  <2>1. HandleText(p, to, line) /\ to \in {Broadcast, Direct}
    BY <1>1, <1>4, HeardPacket DEF ReadEchoText
  <2>2. \A k \in Sinks : ProcessMeshText(line)[k] <= ProcessMeshText(heard[p].body)[k]
    BY <1>1, HeardPacket, PlainText
  <2>3. EchoHarmless(p) => line = heard[p].body
    BY <1>1, HeardPacket DEF EchoHarmless
  <2>4. line \in Seq(Lines) /\ "echo" \in Items
    BY <1>1, HeardPacket DEF Items
  <2>5. shown' = shown \cup {<<p, "echo">>} /\ heard' = heard /\ ages' = ages /\ repeats' = repeats
    BY <1>1 DEF Read
  <2> HIDE DEF line, to
  <2>6. /\ TextsHaveLines' /\ HeardFirst' /\ OncePerWindow' /\ EntryDelivered'
        /\ dedup' \in [Packets -> {"none", "fresh", "old"}]
        /\ handled' \in [Packets -> [Sinks -> Nat]]
        /\ chatTo' \in [Packets -> SUBSET {Broadcast, Direct}]
        /\ shown' \subseteq Packets \X Items
    BY <1>1, <2>1, <2>2, <2>3, <2>4, <2>5, DeliveryKeeps
  <2> QED
    BY <1>2, <2>5, <2>6 DEF IngestInv, IngestTypeOK
<1> QED
  BY <1>3, <1>4

(* A frame, the first or a repeat of it.                                   *)
LEMMA FrameKeeps ==
    ASSUME IngestInv, NEW p \in Packets, ReadFrame(p) \/ RepeatFrame(p)
    PROVE  IngestInv'
<1>1. p \in DOMAIN heard
  BY DEF ReadFrame, RepeatFrame, Read, IngestInv, HeardFirst
<1>2. /\ HandleText(p, heard[p].to, heard[p].body) /\ heard' = heard /\ ages' = ages
      /\ pktCache' = pktCache /\ shown' \in {shown, shown \cup {<<p, "frame">>}}
  BY DEF ReadFrame, RepeatFrame, Read
<1>3. repeats' \in [Packets -> 0 .. MaxRepeats]
  <2>1. repeats \in [Packets -> 0 .. MaxRepeats] /\ MaxRepeats \in Nat
    BY PacketAssumption DEF IngestInv, IngestTypeOK
  <2>2. CASE ReadFrame(p)
    BY <2>1, <2>2 DEF ReadFrame, Read
  <2>3. CASE RepeatFrame(p)
    <3>1. repeats[p] < MaxRepeats /\ repeats' = [repeats EXCEPT ![p] = repeats[p] + 1]
      BY <2>3 DEF RepeatFrame
    <3>2. repeats[p] + 1 \in 0 .. MaxRepeats
      BY <2>1, <3>1
    <3> QED
      BY <2>1, <3>1, <3>2
  <2> QED
    BY <2>2, <2>3
<1>4. \A k \in Sinks : ProcessMeshText(heard[p].body)[k] <= ProcessMeshText(heard[p].body)[k]
  BY <1>1, HeardPacket
<1>5. /\ heard[p].to \in {Broadcast, Direct} /\ heard[p].body \in Seq(Lines) /\ "frame" \in Items
  BY <1>1, HeardPacket DEF Items
<1>6. /\ TextsHaveLines' /\ HeardFirst' /\ OncePerWindow' /\ EntryDelivered'
      /\ dedup' \in [Packets -> {"none", "fresh", "old"}]
      /\ handled' \in [Packets -> [Sinks -> Nat]]
      /\ chatTo' \in [Packets -> SUBSET {Broadcast, Direct}]
      /\ shown' \subseteq Packets \X Items
  BY <1>1, <1>2, <1>4, <1>5, DeliveryKeeps
<1> QED
  BY <1>2, <1>3, <1>6 DEF IngestInv, IngestTypeOK

(* An entry runs out: its window counts as passed.                         *)
LEMMA AgeKeeps ==
    ASSUME IngestInv, NEW p \in Packets, Age(p)
    PROVE  IngestInv'
<1>1. /\ dedup[p] = "fresh" /\ dedup' = [dedup EXCEPT ![p] = "old"]
      /\ ages[p] < MaxAges /\ ages' = [ages EXCEPT ![p] = @ + 1]
      /\ UNCHANGED <<heard, shown, repeats, pktCache, handled, chatTo>>
  BY DEF Age
<1>2. p \in DOMAIN heard
  BY <1>1 DEF IngestInv, HeardFirst
<1>3. /\ dedup \in [Packets -> {"none", "fresh", "old"}] /\ ages \in [Packets -> 0 .. MaxAges]
  BY DEF IngestInv, IngestTypeOK
<1>4. /\ dedup'[p] = "old" /\ ages'[p] = ages[p] + 1
      /\ dedup' \in [Packets -> {"none", "fresh", "old"}] /\ ages' \in [Packets -> 0 .. MaxAges]
  BY <1>1, <1>3, PacketAssumption
<1>5. SameElse(p) /\ Windows(p)' = Windows(p)
  <2>1. SameElse(p)
    BY <1>1, <1>3 DEF SameElse
  <2> QED
    BY <1>1, <1>3, <1>4, <2>1 DEF Windows
<1>6. "frame" \in Items
  BY DEF Items
<1>7. TextsHaveLines' /\ HeardFirst' /\ OncePerWindow' /\ EntryDelivered'
  BY <1>1, <1>2, <1>4, <1>5, <1>6, PacketBefore, OnlyThisPacket
<1> QED
  BY <1>1, <1>4, <1>7 DEF IngestInv, IngestTypeOK

-----------------------------------------------------------------------------
(* Whatever the serial line shows of the packets, in whatever order, with  *)
(* frames repeated and filter entries running out, the bookkeeping of the  *)
(* filter is right.                                                        *)
THEOREM IngestInvariant == IngestSpec => []IngestInv
<1>1. IngestInit => IngestInv
  <2> SUFFICES ASSUME IngestInit PROVE IngestInv
    OBVIOUS
  <2>1. heard = <<>> /\ DOMAIN heard = {} /\ Len(heard) = 0
    BY DEF IngestInit
  <2>2. Cardinality(pktCache) <= CacheMax
    BY FS_EmptySet, CacheAssumption DEF IngestInit
  <2>3. IngestTypeOK
    BY <2>1, <2>2, PacketAssumption DEF IngestInit, IngestTypeOK
  <2> QED
    BY <2>1, <2>3 DEF IngestInit, IngestInv, TextsHaveLines, HeardFirst, OncePerWindow, EntryDelivered
<1>2. IngestInv /\ [IngestNext]_ingestVars => IngestInv'
  <2> SUFFICES ASSUME IngestInv, [IngestNext]_ingestVars PROVE IngestInv'
    OBVIOUS
  <2>1. CASE UNCHANGED ingestVars
    BY <2>1 DEF ingestVars, IngestInv, IngestTypeOK, TextsHaveLines, HeardFirst, OncePerWindow,
       EntryDelivered, Windows, Expected, EchoHarmless
  <2>2. CASE IngestNext
    BY <2>2, HearKeeps, MetaKeeps, EchoSensorKeeps, EchoTextKeeps, RestKeeps, FrameKeeps, AgeKeeps
    DEF IngestNext
  <2> QED
    BY <2>1, <2>2
<1> QED
  BY <1>1, <1>2, PTL DEF IngestSpec

(* The types of the ingest path; among them the bound on the metadata      *)
(* cache, which cachePacketMeta prunes in arbitrary order.                 *)
THEOREM IngestTypes == IngestSpec => []IngestTypeOK
<1>1. IngestInv => IngestTypeOK
  BY DEF IngestInv
<1> QED
  BY <1>1, IngestInvariant, PTL

(* The gated kinds reach their service at most once in each dedup window,  *)
(* for any packets, forms of lines, repeats and expiries: dispatchTextEvent *)
(* never gets from the console what the frame delivers too.                *)
THEOREM GatedKindsOnce == IngestSpec => []GatedOnce
<1>1. IngestInv => GatedOnce
  <2> SUFFICES ASSUME IngestInv, NEW p \in DOMAIN heard, NEW k \in GatedSinks
               PROVE  handled[p][k] <= (1 + ages[p]) * Expected(p)[k]
    BY DEF GatedOnce
  <2>1. /\ p \in Packets /\ k \in Sinks /\ Expected(p)[k] \in Nat /\ handled[p][k] \in Nat
        /\ Windows(p) \in Nat /\ ages[p] \in Nat
        /\ handled[p][k] <= Windows(p) * Expected(p)[k]
    BY HeardPacket, PacketBefore, WindowsCount DEF Sinks
  <2>2. Windows(p) = ages[p] \/ Windows(p) = ages[p] + 1
    BY <2>1 DEF Windows
  <2>3. /\ ages[p] * Expected(p)[k] \in Nat
        /\ (ages[p] + 1) * Expected(p)[k] = ages[p] * Expected(p)[k] + Expected(p)[k]
    BY <2>1, NextWindow
  <2>4. 1 + ages[p] = ages[p] + 1
    BY <2>1
  <2> QED
    BY <2>1, <2>2, <2>3, <2>4
<1> QED
  BY <1>1, IngestInvariant, PTL

(* A frame that was read has been delivered in full, whatever the console  *)
(* showed before it: an echo that takes the packet's place in the filter   *)
(* has brought all that the frame would.                                   *)
THEOREM FramesDelivered == IngestSpec => []FrameDelivered
<1>1. IngestInv => FrameDelivered
  BY DEF IngestInv, EntryDelivered, FrameDelivered, EchoHarmless
<1> QED
  BY <1>1, IngestInvariant, PTL

-----------------------------------------------------------------------------
(* Detections, fences and rules: Surveillance.                             *)

(* A fix is told from a position without one: of the two coordinates none  *)
(* is zero in a fix, and both are without one.  (evaluateGeofences takes   *)
(* a fix on the equator or on the zero meridian for none.)                 *)
FixesShow == \A pos \in Positions : Located(pos) <=> pos # NoFix

(* The geofence state is what the last fix said, whatever was removed or   *)
(* edited since.                                                           *)
StaysKnown == inside = wasIn /\ inside \in [Keys -> SUBSET FenceIds]

(* Fences and rules, their tables and the pending second halves of the     *)
(* requests about them.                                                    *)
ConfigOK ==
    /\ IsPartial(fences, FenceIds, FenceConfigs) /\ IsPartial(fenceRows, FenceIds, FenceConfigs)
    /\ IsPartial(rules, RuleIds, RuleRec) /\ IsPartial(ruleRows, RuleIds, RuleConfigs)
    /\ \A h \in halves : /\ h.do = "rule" => h.id \in RuleIds /\ h.cfg \subseteq RuleRec
                         /\ h.do = "fence" => h.id \in FenceIds /\ h.cfg \subseteq FenceConfigs

(* The reader inserts one event at a time; faults are counted.             *)
OneInsert ==
    /\ reader \in [todo : SUBSET RuleIds, cur : SUBSET RuleIds]
    /\ (\A q, r \in reader.cur : q = r) /\ faults \in Nat

RuleInv == ConfigOK /\ OneInsert /\ SilentAfterAlert

-----------------------------------------------------------------------------
(* Partial functions.                                                      *)

(* An entry is added or replaced.                                          *)
LEMMA WithEntry ==
    ASSUME NEW f, NEW x, NEW v
    PROVE  /\ DOMAIN With(f, x, v) = (DOMAIN f) \cup {x} /\ With(f, x, v)[x] = v
           /\ \A y \in DOMAIN f : y # x => With(f, x, v)[y] = f[y]
  BY DEF With

(* It stays a partial function.                                            *)
LEMMA WithPartial ==
    ASSUME NEW f, NEW D, NEW R, IsPartial(f, D, R), NEW x \in D, NEW v \in R
    PROVE  IsPartial(With(f, x, v), D, R) /\ IsPartial(Stored(f, x, v), D, R)
<1>1. IsPartial(With(f, x, v), D, R)
  BY DEF With, IsPartial
<1> QED
  BY <1>1 DEF Stored

(* Entries are deleted.                                                    *)
LEMMA WithoutEntries ==
    ASSUME NEW f, NEW gone
    PROVE  /\ DOMAIN Without(f, gone) = (DOMAIN f) \ gone
           /\ \A y \in (DOMAIN f) \ gone : Without(f, gone)[y] = f[y]
  BY DEF Without

(* What is left is a partial function.                                     *)
LEMMA WithoutPartial ==
    ASSUME NEW f, NEW D, NEW R, IsPartial(f, D, R), NEW gone
    PROVE  IsPartial(Without(f, gone), D, R)
  BY DEF Without, IsPartial

(* Storing a change of a known row makes no row.                           *)
LEMMA StoredRows ==
    ASSUME NEW f, NEW x, NEW v
    PROVE  DOMAIN Stored(f, x, v) = DOMAIN f
  BY DEF With, Stored

(* A cache entry for a rule.                                               *)
LEMMA RuleRecord ==
    ASSUME NEW cfg \in RuleConfigs, NEW cooling \in BOOLEAN
    PROVE  /\ [cfg |-> cfg, cooling |-> cooling] \in RuleRec
           /\ [cfg |-> cfg, cooling |-> cooling].cooling = cooling
  BY DEF RuleRec

-----------------------------------------------------------------------------
(* Rules and their alerts, step by step.                                   *)

(* What the second half of a request is.                                   *)
HalfOK(h) == /\ h.do = "rule" => h.id \in RuleIds /\ h.cfg \subseteq RuleRec
             /\ h.do = "fence" => h.id \in FenceIds /\ h.cfg \subseteq FenceConfigs

(* A new second half.                                                      *)
LEMMA HalfAdded ==
    ASSUME NEW do, NEW id, NEW cfg, \A h \in halves : HalfOK(h), Half(do, id, cfg),
           do = "rule" => id \in RuleIds /\ cfg \subseteq RuleRec,
           do = "fence" => id \in FenceIds /\ cfg \subseteq FenceConfigs
    PROVE  \A h \in halves' : HalfOK(h)
<1> DEFINE new == [do |-> do, id |-> id, cfg |-> cfg]
<1>1. halves' = halves \cup {new}
  BY DEF Half
<1>2. HalfOK(new)
  BY DEF HalfOK
<1> QED
  BY <1>1, <1>2

(* Steps that leave rules, requests and the insert alone.                  *)
LEMMA RulesAlone ==
    ASSUME RuleInv, UNCHANGED <<config, halves, cooldowns>>, reader'.cur = reader.cur,
           reader' \in [todo : SUBSET RuleIds, cur : SUBSET RuleIds],
           faults' = faults \/ faults' = faults + 1
    PROVE  RuleInv'
<1>1. ConfigOK'
  BY DEF RuleInv, ConfigOK, config
<1>2. OneInsert'
  BY DEF RuleInv, OneInsert
<1>3. SilentAfterAlert'
  BY DEF RuleInv, OneInsert, SilentAfterAlert, config, cooldowns
<1> QED
  BY <1>1, <1>2, <1>3 DEF RuleInv

(* The steps of detection, drones and persistence.                         *)
LEMMA DroneSteps ==
    ASSUME RuleInv,
           \/ \E k \in Keys, pos \in Positions : HandleDetection(k, pos)
           \/ \E evt \in DetectionEvents : TargetDetected(evt)
           \/ \E k \in Keys : DroneRequest(k)
           \/ FlushPersistQueue \/ Persist
    PROVE  RuleInv'
<1>1. CASE \/ \E k \in Keys, pos \in Positions : HandleDetection(k, pos)
           \/ \E evt \in DetectionEvents : TargetDetected(evt)
  <2>1. /\ reader = Idle /\ \E evt : reader' = [Idle EXCEPT !.todo = Evaluate(evt)]
        /\ UNCHANGED <<config, halves, faults, cooldowns>>
    BY <1>1 DEF HandleDetection, TargetDetected
  <2>2. \A evt : Evaluate(evt) \subseteq RuleIds
    BY DEF Evaluate, RuleInv, ConfigOK, IsPartial
  <2>3. reader'.cur = reader.cur /\ reader' \in [todo : SUBSET RuleIds, cur : SUBSET RuleIds]
    BY <2>1, <2>2 DEF Idle
  <2> QED
    BY <2>1, <2>3, RulesAlone
<1>2. CASE \E k \in Keys : DroneRequest(k)
  <2>1. UNCHANGED <<config, halves, reader, faults, cooldowns>>
    BY <1>2 DEF DroneRequest, Remove, UpdateStatus, history
  <2> QED
    BY <2>1, RulesAlone DEF RuleInv, OneInsert
<1>3. CASE FlushPersistQueue \/ Persist
  <2>1. /\ UNCHANGED <<config, halves, reader, cooldowns>>
        /\ faults' = faults \/ faults' = faults + 1
    BY <1>3 DEF FlushPersistQueue, Persist, PersistRead, PersistWrite, history, counters
  <2> QED
    BY <2>1, RulesAlone DEF RuleInv, OneInsert
<1> QED
  BY <1>1, <1>2, <1>3

(* Trigger: the cooldown starts, and the insert is due.                    *)
LEMMA TriggerKeeps ==
    ASSUME RuleInv, NEW r \in RuleIds, Trigger(r)
    PROVE  RuleInv'
<1>1. /\ reader.cur = {}
      /\ UNCHANGED <<fences, fenceRows, ruleRows, halves, faults>>
  BY DEF Trigger, counters
<1>2. CASE r \in DOMAIN rules /\ rules[r].cooling
  <2>1. /\ rules' = rules /\ reader'.cur = reader.cur /\ UNCHANGED cooldowns
        /\ reader' \in [todo : SUBSET RuleIds, cur : SUBSET RuleIds]
    BY <1>2 DEF Trigger, RuleInv, OneInsert
  <2> QED
    BY <1>1, <2>1, RulesAlone DEF config
<1>3. CASE ~(r \in DOMAIN rules /\ rules[r].cooling)
  <2>1. /\ reader' = [todo |-> reader.todo \ {r}, cur |-> {r}]
        /\ rules' = IF r \in DOMAIN rules THEN [rules EXCEPT ![r].cooling = TRUE] ELSE rules
        /\ alerted' = alerted \ {r} /\ asked' = asked \ {r}
    BY <1>3 DEF Trigger
  <2>2. \A q \in DOMAIN rules : q \in RuleIds /\ rules[q] \in RuleRec
    BY DEF RuleInv, ConfigOK, IsPartial
  <2>3. /\ DOMAIN rules' = DOMAIN rules
        /\ \A q \in DOMAIN rules : rules'[q] \in RuleRec /\ (q # r => rules'[q] = rules[q])
    BY <2>1, <2>2 DEF RuleRec
  <2>4. ConfigOK'
    BY <1>1, <2>2, <2>3 DEF RuleInv, ConfigOK, IsPartial
  <2>5. OneInsert'
    BY <1>1, <2>1 DEF RuleInv, OneInsert
  <2>6. SilentAfterAlert'
    BY <1>1, <2>1, <2>3 DEF RuleInv, SilentAfterAlert
  <2> QED
    BY <2>4, <2>5, <2>6 DEF RuleInv
<1> QED
  BY <1>2, <1>3

(* InsertEvent: the event is stored, or there is a reason why not.         *)
LEMMA InsertKeeps ==
    ASSUME RuleInv, NEW r \in RuleIds, InsertEvent(r)
    PROVE  RuleInv'
<1>1. /\ r \in reader.cur /\ reader'.cur = {}
      /\ reader' \in [todo : SUBSET RuleIds, cur : SUBSET RuleIds]
      /\ UNCHANGED <<config, halves, asked>>
      /\ \/ r \in DOMAIN ruleRows /\ alerted' = alerted \cup {r} /\ faults' = faults
         \/ r \notin DOMAIN ruleRows /\ alerted' = alerted /\ faults' = faults
         \/ faults' = faults + 1 /\ alerted' = alerted
  BY DEF InsertEvent, RuleInv, OneInsert
<1>2. \A q \in reader.cur : q = r
  BY <1>1 DEF RuleInv, OneInsert
<1>3. ConfigOK'
  BY <1>1 DEF RuleInv, ConfigOK, config
<1>4. OneInsert'
  BY <1>1 DEF RuleInv, OneInsert
<1>5. SilentAfterAlert'
  <2> SUFFICES ASSUME NEW q \in DOMAIN rules \cap DOMAIN ruleRows, rules[q].cooling, faults' = 0
               PROVE  q \in alerted' \cup asked'
    BY <1>1 DEF SilentAfterAlert, config
  <2>1. faults' = faults /\ faults = 0
    BY <1>1 DEF RuleInv, OneInsert
  <2>2. CASE q = r
    BY <1>1, <2>1, <2>2 DEF RuleInv, OneInsert
  <2>3. CASE q # r
    BY <1>1, <1>2, <2>1, <2>3 DEF RuleInv, SilentAfterAlert
  <2> QED
    BY <2>2, <2>3
<1> QED
  BY <1>3, <1>4, <1>5 DEF RuleInv

(* The cooldown passes, and with it the alert it followed.                 *)
LEMMA CooldownKeeps ==
    ASSUME RuleInv, NEW r \in RuleIds, CooldownPasses(r)
    PROVE  RuleInv'
<1>1. /\ r \in DOMAIN rules /\ rules' = [rules EXCEPT ![r].cooling = FALSE]
      /\ alerted' = alerted \ {r} /\ asked' = asked \ {r}
      /\ UNCHANGED <<fences, fenceRows, ruleRows, halves, reader, faults>>
  BY DEF CooldownPasses, counters
<1>2. \A q \in DOMAIN rules : q \in RuleIds /\ rules[q] \in RuleRec
  BY DEF RuleInv, ConfigOK, IsPartial
<1>3. /\ DOMAIN rules' = DOMAIN rules /\ ~rules'[r].cooling
      /\ \A q \in DOMAIN rules : rules'[q] \in RuleRec /\ (q # r => rules'[q] = rules[q])
  BY <1>1, <1>2 DEF RuleRec
<1>4. ConfigOK'
  BY <1>1, <1>2, <1>3 DEF RuleInv, ConfigOK, IsPartial
<1>5. OneInsert'
  BY <1>1 DEF RuleInv, OneInsert
<1>6. SilentAfterAlert'
  BY <1>1, <1>3 DEF RuleInv, SilentAfterAlert
<1> QED
  BY <1>4, <1>5, <1>6 DEF RuleInv

(* Requests, first half: a fence or a rule in its table.                   *)
LEMMA RequestKeeps ==
    ASSUME RuleInv,
           \/ \E f \in FenceIds : FenceRequest(f)
           \/ \E r \in RuleIds : RuleRequest(r)
           \/ ClearAll
    PROVE  RuleInv'
<1>1. /\ IsPartial(fences, FenceIds, FenceConfigs) /\ IsPartial(fenceRows, FenceIds, FenceConfigs)
      /\ IsPartial(rules, RuleIds, RuleRec) /\ IsPartial(ruleRows, RuleIds, RuleConfigs)
      /\ \A h \in halves : HalfOK(h)
  BY DEF RuleInv, ConfigOK, HalfOK
<1>2. CASE \E f \in FenceIds : FenceRequest(f)
  <2>1. PICK f \in FenceIds : FenceRequest(f)
    BY <1>2
  <2>2. UNCHANGED <<fences, rules, ruleRows, reader, faults, alerted, asked>>
    BY <2>1 DEF FenceRequest, DeleteFence, CreateFence, UpdateFence, history, cooldowns
  <2>3. IsPartial(fenceRows', FenceIds, FenceConfigs)
    <3>1. \A cfg \in FenceConfigs : /\ IsPartial(With(fenceRows, f, cfg), FenceIds, FenceConfigs)
                                  /\ IsPartial(Stored(fenceRows, f, cfg), FenceIds, FenceConfigs)
      BY <1>1, WithPartial
    <3>2. IsPartial(Without(fenceRows, {f}), FenceIds, FenceConfigs)
      BY <1>1, WithoutPartial
    <3> QED
      BY <2>1, <3>1, <3>2 DEF FenceRequest, DeleteFence, CreateFence, UpdateFence
  <2>4. \E cfg \in SUBSET FenceConfigs : Half("fence", f, cfg)
    BY <2>1 DEF FenceRequest, DeleteFence, CreateFence, UpdateFence
  <2>5. \A h \in halves' : HalfOK(h)
    BY <1>1, <2>4, HalfAdded
  <2> QED
    BY <1>1, <2>2, <2>3, <2>5 DEF RuleInv, ConfigOK, OneInsert, SilentAfterAlert, HalfOK
<1>3. CASE \E r \in RuleIds : RuleRequest(r)
  <2>1. PICK r \in RuleIds : RuleRequest(r)
    BY <1>3
  <2>2. UNCHANGED <<fences, fenceRows, rules, reader, faults, alerted, asked>>
    BY <2>1 DEF RuleRequest, DeleteRule, CreateRule, UpdateRule, history, cooldowns
  <2>3. IsPartial(ruleRows', RuleIds, RuleConfigs)
    <3>1. \A cfg \in RuleConfigs : /\ IsPartial(With(ruleRows, r, cfg), RuleIds, RuleConfigs)
                                 /\ IsPartial(Stored(ruleRows, r, cfg), RuleIds, RuleConfigs)
      BY <1>1, WithPartial
    <3>2. IsPartial(Without(ruleRows, {r}), RuleIds, RuleConfigs)
      BY <1>1, WithoutPartial
    <3> QED
      BY <2>1, <3>1, <3>2 DEF RuleRequest, DeleteRule, CreateRule, UpdateRule
  <2>4. \E new \in SUBSET RuleRec : Half("rule", r, new)
    BY <2>1, RuleRecord DEF RuleRequest, DeleteRule, CreateRule, UpdateRule
  <2>5. \A h \in halves' : HalfOK(h)
    BY <1>1, <2>4, HalfAdded
  <2>6. (DOMAIN rules) \cap DOMAIN ruleRows' \subseteq DOMAIN ruleRows
    <3>1. CASE DeleteRule(r)
      BY <3>1, WithoutEntries DEF DeleteRule
    <3>2. ASSUME NEW cfg, NEW cooling, UpdateRule(r, cfg, cooling)
          PROVE  DOMAIN ruleRows' = DOMAIN ruleRows
      BY <3>2, StoredRows DEF UpdateRule
    <3>3. ASSUME NEW cfg, NEW cooling, CreateRule(r, cfg, cooling)
          PROVE  r \notin DOMAIN rules /\ DOMAIN ruleRows' = (DOMAIN ruleRows) \cup {r}
      BY <3>3, WithEntry DEF CreateRule, Fresh
    <3> QED
      BY <2>1, <3>1, <3>2, <3>3 DEF RuleRequest
  <2>7. SilentAfterAlert'
    BY <2>2, <2>6 DEF RuleInv, SilentAfterAlert
  <2> QED
    BY <1>1, <2>2, <2>3, <2>5, <2>7 DEF RuleInv, ConfigOK, OneInsert, HalfOK
<1>4. CASE ClearAll
  <2>1. UNCHANGED <<fences, fenceRows, rules, ruleRows, reader, faults, alerted, asked>>
    BY <1>4 DEF ClearAll, config, history, cooldowns
  <2>2. Half("clear", "drones", {})
    BY <1>4 DEF ClearAll
  <2>3. \A h \in halves' : HalfOK(h)
    BY <1>1, <2>2, HalfAdded
  <2> QED
    BY <1>1, <2>1, <2>3 DEF RuleInv, ConfigOK, OneInsert, SilentAfterAlert, HalfOK
<1> QED
  BY <1>2, <1>3, <1>4

(* Second half: the cache.  A rule saved again has the request's cooldown. *)
LEMMA CacheKeeps ==
    ASSUME RuleInv, NEW h \in halves, CacheFence(h) \/ CacheRule(h) \/ ClearRows(h)
    PROVE  RuleInv'
<1>1. /\ IsPartial(fences, FenceIds, FenceConfigs) /\ IsPartial(fenceRows, FenceIds, FenceConfigs)
      /\ IsPartial(rules, RuleIds, RuleRec) /\ IsPartial(ruleRows, RuleIds, RuleConfigs)
      /\ \A g \in halves : HalfOK(g)
  BY DEF RuleInv, ConfigOK, HalfOK
<1>2. /\ halves' = halves \ {h}
      /\ \A g \in halves' : HalfOK(g)
  BY <1>1 DEF CacheFence, CacheRule, ClearRows
<1>3. CASE CacheFence(h)
  <2>1. UNCHANGED <<fenceRows, rules, ruleRows, reader, faults, alerted, asked>>
    BY <1>3 DEF CacheFence, counters, history, cooldowns
  <2>2. h.id \in FenceIds /\ h.cfg \subseteq FenceConfigs
    BY <1>1, <1>3 DEF CacheFence, HalfOK
  <2>3. IsPartial(fences', FenceIds, FenceConfigs)
    <3>1. \A cfg \in h.cfg : IsPartial(With(fences, h.id, cfg), FenceIds, FenceConfigs)
      BY <1>1, <2>2, WithPartial
    <3>2. IsPartial(Without(fences, {h.id}), FenceIds, FenceConfigs)
      BY <1>1, WithoutPartial
    <3> QED
      BY <1>3, <3>1, <3>2 DEF CacheFence
  <2> QED
    BY <1>1, <1>2, <2>1, <2>3 DEF RuleInv, ConfigOK, OneInsert, SilentAfterAlert, HalfOK
<1>4. CASE CacheRule(h)
  <2>1. UNCHANGED <<fences, fenceRows, ruleRows, reader, faults>> /\ alerted' = alerted \ {h.id}
    BY <1>4 DEF CacheRule, counters
  <2>2. h.id \in RuleIds /\ h.cfg \subseteq RuleRec
    BY <1>1, <1>4 DEF CacheRule, HalfOK
  <2>3. /\ IsPartial(rules', RuleIds, RuleRec)
        /\ \A q \in DOMAIN rules' : IF q = h.id THEN rules'[q].cooling => h.id \in asked'
                                    ELSE q \in DOMAIN rules /\ rules'[q] = rules[q]
        /\ asked \ {h.id} \subseteq asked'
    <3>1. ASSUME NEW rec \in h.cfg, rules' = With(rules, h.id, rec),
                 asked' = IF rec.cooling THEN asked \cup {h.id} ELSE asked \ {h.id}
          PROVE  /\ IsPartial(rules', RuleIds, RuleRec)
                 /\ \A q \in DOMAIN rules' : IF q = h.id THEN rules'[q].cooling => h.id \in asked'
                                             ELSE q \in DOMAIN rules /\ rules'[q] = rules[q]
                 /\ asked \ {h.id} \subseteq asked'
      <4>1. IsPartial(rules', RuleIds, RuleRec)
        BY <1>1, <2>2, <3>1, WithPartial
      <4>2. /\ DOMAIN rules' = (DOMAIN rules) \cup {h.id} /\ rules'[h.id] = rec
            /\ \A q \in DOMAIN rules : q # h.id => rules'[q] = rules[q]
        BY <3>1 DEF With
      <4> QED
        BY <3>1, <4>1, <4>2
    <3>2. CASE rules' = Without(rules, {h.id}) /\ asked' = asked \ {h.id}
      <4>1. IsPartial(rules', RuleIds, RuleRec)
        BY <1>1, <3>2, WithoutPartial
      <4>2. /\ DOMAIN rules' = (DOMAIN rules) \ {h.id}
            /\ \A q \in (DOMAIN rules) \ {h.id} : rules'[q] = rules[q]
        BY <3>2, WithoutEntries
      <4> QED
        BY <3>2, <4>1, <4>2
    <3> QED
      BY <1>4, <3>1, <3>2 DEF CacheRule
  <2>4. SilentAfterAlert'
    BY <2>1, <2>3 DEF RuleInv, SilentAfterAlert
  <2> QED
    BY <1>1, <1>2, <2>1, <2>3, <2>4 DEF RuleInv, ConfigOK, OneInsert, HalfOK
<1>5. CASE ClearRows(h)
  <2>1. UNCHANGED <<fences, fenceRows, rules, ruleRows, reader, faults, alerted, asked>>
    BY <1>5 DEF ClearRows, config, counters, history, cooldowns
  <2> QED
    BY <1>1, <1>2, <2>1 DEF RuleInv, ConfigOK, OneInsert, SilentAfterAlert, HalfOK
<1> QED
  BY <1>3, <1>4, <1>5

(* What Load reads from the tables.                                        *)
LEMMA Loaded ==
    ASSUME IsPartial(fenceRows, FenceIds, FenceConfigs), IsPartial(ruleRows, RuleIds, RuleConfigs)
    PROVE  /\ IsPartial(LoadedFences, FenceIds, FenceConfigs)
           /\ IsPartial(LoadedRules, RuleIds, RuleRec)
           /\ \A r \in DOMAIN LoadedRules : ~LoadedRules[r].cooling
<1>1. IsPartial(LoadedFences, FenceIds, FenceConfigs)
  BY DEF LoadedFences, IsPartial
<1>2. /\ DOMAIN LoadedRules = DOMAIN ruleRows
      /\ \A r \in DOMAIN ruleRows : LoadedRules[r] = [cfg |-> ruleRows[r], cooling |-> FALSE]
  BY DEF LoadedRules
<1>3. \A r \in DOMAIN ruleRows : r \in RuleIds /\ ruleRows[r] \in RuleConfigs
  BY DEF IsPartial
<1>4. \A r \in DOMAIN ruleRows : LoadedRules[r] \in RuleRec /\ ~LoadedRules[r].cooling
  BY <1>2, <1>3, RuleRecord
<1> QED
  BY <1>1, <1>2, <1>3, <1>4 DEF IsPartial

(* A reader that waits for detections.                                     *)
LEMMA IdleReader ==
    Idle \in [todo : SUBSET RuleIds, cur : SUBSET RuleIds] /\ Idle.cur = {}
  BY DEF Idle

(* A restart: no cooldown is left.                                         *)
LEMMA RestartKeeps ==
    ASSUME RuleInv, Restart
    PROVE  RuleInv'
<1>1. /\ rules' = LoadedRules /\ fences' = LoadedFences /\ halves' = {} /\ reader' = Idle
      /\ UNCHANGED <<fenceRows, ruleRows, faults>>
  BY DEF Restart
<1>2. IsPartial(fenceRows, FenceIds, FenceConfigs) /\ IsPartial(ruleRows, RuleIds, RuleConfigs)
  BY DEF RuleInv, ConfigOK
<1>3. ConfigOK'
  BY <1>1, <1>2, Loaded DEF ConfigOK
<1>4. OneInsert'
  BY <1>1, IdleReader DEF RuleInv, OneInsert
<1>5. SilentAfterAlert'
  BY <1>1, <1>2, Loaded DEF SilentAfterAlert
<1> QED
  BY <1>3, <1>4, <1>5 DEF RuleInv

(* Every step keeps what is known of the rules.                            *)
LEMMA RuleInvKept ==
    ASSUME RuleInv, [WatchNext]_watchVars
    PROVE  RuleInv'
<1>1. CASE UNCHANGED watchVars
  BY <1>1 DEF watchVars, RuleInv, ConfigOK, OneInsert, SilentAfterAlert
<1>2. CASE ReaderStep
  BY <1>2, DroneSteps, TriggerKeeps, InsertKeeps DEF ReaderStep
<1>3. CASE RequestStep
  BY <1>3, DroneSteps, RequestKeeps, CacheKeeps, RestartKeeps DEF RequestStep
<1>4. CASE FlushPersistQueue \/ Persist
  BY <1>4, DroneSteps
<1>5. CASE \E r \in RuleIds : CooldownPasses(r)
  BY <1>5, CooldownKeeps
<1> QED
  BY <1>1, <1>2, <1>3, <1>4, <1>5 DEF WatchNext

-----------------------------------------------------------------------------
(* Fences and drones.                                                      *)

(* Between detections the geofence state does not change but for a restart *)
(* that forgets it.                                                        *)
LEMMA StaysUntouched ==
    ASSUME WatchNext, ~\E k \in Keys, pos \in Positions : HandleDetection(k, pos),
           ~\E evt \in DetectionEvents : TargetDetected(evt)
    PROVE  /\ detections' = detections
           /\ \/ inside' = inside /\ wasIn' = wasIn
              \/ inside' = [k \in Keys |-> {}] /\ wasIn' = [k \in Keys |-> {}]
<1>1. CASE ReaderStep
  BY <1>1 DEF ReaderStep, Trigger, InsertEvent, droneState, counters, history
<1>2. CASE RequestStep
  <2>1. CASE \E f \in FenceIds : FenceRequest(f)
    BY <2>1 DEF FenceRequest, DeleteFence, CreateFence, UpdateFence, droneState, history
  <2>2. CASE \E r \in RuleIds : RuleRequest(r)
    BY <2>2 DEF RuleRequest, DeleteRule, CreateRule, UpdateRule, droneState, history
  <2>3. CASE \E h \in halves : CacheFence(h) \/ CacheRule(h) \/ ClearRows(h)
    BY <2>3 DEF CacheFence, CacheRule, ClearRows, droneState, counters, history
  <2>4. CASE \/ ClearAll
             \/ \E k \in Keys : DroneRequest(k)
    BY <2>4 DEF ClearAll, DroneRequest, Remove, UpdateStatus, history
  <2>5. CASE Restart
    BY <2>5 DEF Restart
  <2> QED
    BY <1>2, <2>1, <2>2, <2>3, <2>4, <2>5 DEF RequestStep
<1>3. CASE FlushPersistQueue \/ Persist
  BY <1>3 DEF FlushPersistQueue, Persist, PersistRead, PersistWrite, droneState, counters, history
<1>4. CASE \E r \in RuleIds : CooldownPasses(r)
  BY <1>4 DEF CooldownPasses, droneState, counters
<1> QED
  BY <1>1, <1>2, <1>3, <1>4 DEF WatchNext

(* A drone packet: geofence state and history move together, and what is   *)
(* reported is what is new in the history.                                 *)
LEMMA DetectionExact ==
    ASSUME RuleInv, StaysKnown, FixesShow, NEW k \in Keys, NEW pos \in Positions,
           HandleDetection(k, pos)
    PROVE  StaysKnown' /\ EntriesReported
<1>1. CheckPoint(pos) \subseteq FenceIds
  BY DEF CheckPoint, RuleInv, ConfigOK, IsPartial
<1>2. inside = wasIn /\ inside \in [Keys -> SUBSET FenceIds]
  BY DEF StaysKnown
<1>3. CASE Located(pos)
  <2>1. pos # NoFix
    BY <1>3 DEF FixesShow
  <2>2. /\ inside' = [inside EXCEPT ![k] = CheckPoint(pos)]
        /\ wasIn' = [wasIn EXCEPT ![k] = CheckPoint(pos)]
        /\ breaches' = {k} \X (CheckPoint(pos) \ inside[k])
    BY <1>3, <2>1 DEF HandleDetection
  <2>3. StaysKnown'
    BY <1>1, <1>2, <2>2 DEF StaysKnown
  <2>4. /\ wasIn'[k] = CheckPoint(pos)
        /\ \A q \in Keys : q # k => wasIn'[q] \ wasIn[q] = {}
    BY <1>2, <2>2
  <2>5. breaches' = {k} \X (wasIn'[k] \ wasIn[k])
    BY <1>2, <2>2, <2>4
  <2>6. \A q \in Keys : {f \in wasIn'[q] : <<q, f>> \in breaches'} = wasIn'[q] \ wasIn[q]
    BY <2>4, <2>5
  <2> QED
    BY <2>3, <2>6 DEF EntriesReported
<1>4. CASE ~Located(pos)
  <2>1. pos = NoFix
    BY <1>4 DEF FixesShow
  <2>2. inside' = inside /\ wasIn' = wasIn /\ breaches' = {}
    BY <1>4, <2>1 DEF HandleDetection
  <2> QED
    BY <1>2, <2>2 DEF StaysKnown, EntriesReported
<1> QED
  BY <1>3, <1>4

(* Every step keeps the geofence state right and reports exactly the       *)
(* entries.                                                                *)
LEMMA StaysKept ==
    ASSUME RuleInv, StaysKnown, FixesShow, WatchNext
    PROVE  StaysKnown' /\ EntriesReported
<1>1. CASE \E k \in Keys, pos \in Positions : HandleDetection(k, pos)
  BY <1>1, DetectionExact
<1>2. CASE \E evt \in DetectionEvents : TargetDetected(evt)
  <2>1. inside' = inside /\ wasIn' = wasIn /\ breaches' = {}
    BY <1>2 DEF TargetDetected, droneState
  <2> QED
    BY <2>1 DEF StaysKnown, EntriesReported
<1>3. CASE ~(\/ \E k \in Keys, pos \in Positions : HandleDetection(k, pos)
             \/ \E evt \in DetectionEvents : TargetDetected(evt))
  BY <1>3, StaysUntouched DEF StaysKnown, EntriesReported
<1> QED
  BY <1>1, <1>2, <1>3

-----------------------------------------------------------------------------
(* Rules and tables keep their shape, and a rule is silent only after an   *)
(* alert, wherever the drones are.                                         *)
THEOREM RulesInvariant == WatchSpec => []RuleInv
<1>1. WatchInit => RuleInv
  <2> SUFFICES ASSUME WatchInit PROVE RuleInv
    OBVIOUS
  <2>1. IsPartial(fenceRows, FenceIds, FenceConfigs) /\ IsPartial(ruleRows, RuleIds, RuleConfigs)
    BY DEF WatchInit, IsPartial
  <2>2. /\ rules = LoadedRules /\ fences = LoadedFences /\ halves = {} /\ reader = Idle /\ faults = 0
    BY DEF WatchInit
  <2>3. ConfigOK
    BY <2>1, <2>2, Loaded DEF ConfigOK
  <2>4. OneInsert
    BY <2>2, IdleReader DEF OneInsert
  <2>5. SilentAfterAlert
    BY <2>1, <2>2, Loaded DEF SilentAfterAlert
  <2> QED
    BY <2>3, <2>4, <2>5 DEF RuleInv
<1>2. RuleInv /\ [WatchNext]_watchVars => RuleInv'
  BY RuleInvKept
<1> QED
  BY <1>1, <1>2, PTL DEF WatchSpec

(* A rule is silent only after an alert that is in the table, or because   *)
(* a request said when it was last triggered, for any rules, detections,   *)
(* requests and interleavings of Evaluate, Trigger and the insert with     *)
(* them.                                                                   *)
THEOREM SilenceExplained == WatchSpec => []SilentAfterAlert
<1>1. RuleInv => SilentAfterAlert
  BY DEF RuleInv
<1> QED
  BY <1>1, RulesInvariant, PTL

(* evaluateGeofences reports each stay in a fence once, for any drones,    *)
(* fences, detections, requests and faults.  Under FixesShow: a drone      *)
(* flown onto a zero coordinate is not evaluated, so its stay would not    *)
(* end.                                                                    *)
THEOREM BreachesAreExact == ASSUME FixesShow PROVE WatchSpec => BreachesExact
<1>1. WatchInit => StaysKnown
  BY DEF WatchInit, StaysKnown
<1>2. RuleInv /\ StaysKnown /\ [WatchNext]_watchVars => StaysKnown' /\ [EntriesReported]_watchVars
  <2> SUFFICES ASSUME RuleInv, StaysKnown, [WatchNext]_watchVars
               PROVE  StaysKnown' /\ [EntriesReported]_watchVars
    OBVIOUS
  <2>1. CASE UNCHANGED watchVars
    BY <2>1 DEF watchVars, StaysKnown
  <2> QED
    BY <2>1, StaysKept
<1> QED
  BY <1>1, <1>2, RulesInvariant, PTL DEF WatchSpec, BreachesExact
=============================================================================
