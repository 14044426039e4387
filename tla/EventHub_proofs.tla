-------------------------- MODULE EventHub_proofs --------------------------
(***************************************************************************)
(* Proofs about the WebSocket hub: its type invariant, with the client     *)
(* limit, and that it implements FanOut, for every number of clients and   *)
(* services, every limit and every channel capacity.                       *)
(*                                                                         *)
(* HubInv is inductive.  Its heart is Streams: what a client has received, *)
(* then what is in its channel, is the run of the events from the one      *)
(* after it was let in to the last one fanned out to it, with at most one  *)
(* snapshot in between.                                                    *)
(***************************************************************************)
EXTENDS EventHub, FiniteSetTheorems, SequenceTheorems, TLAPS

(* The services that hold their lock have reserved their event.            *)
Reserved ==
    /\ IsFiniteSet(locked)
    /\ produced + Cardinality(locked) <= MaxEvents

(* The bus holds the events that follow the last one fanned out.           *)
BusInOrder == \A i \in 1 .. Len(bus) : bus[i] = fanned + i

(* The client set is who was let in and not cut off.                       *)
Membership ==
    /\ IsFiniteSet(clients)
    /\ \A c \in Clients :
          /\ c \in clients <=> joined[c] >= 0 /\ cut[c] = -1
          /\ joined[c] <= fanned /\ cut[c] <= fanned
          /\ cut[c] # -1 => joined[c] >= 0
          /\ joined[c] >= 0 /\ cut[c] # -1 => c \in closed

(* What the stages of a connection say about it.                           *)
Stages ==
    \A c \in Clients :
        /\ handler[c] \in {"none", "register"} => joined[c] = -1 /\ c \notin closed
        /\ handler[c] = "init" => joined[c] >= 0 \/ c \in closed
        /\ joined[c] = -1 => send[c] = <<>> /\ got[c] = <<>> /\ handler[c] # "done"
        /\ reader[c] # "none" \/ writer[c] # "none" => handler[c] = "done"

(* q holds the events b+1 .. e in order, and the snapshot at place p when  *)
(* p is not 0.                                                             *)
Run(q, b, e, p) ==
    /\ p <= Len(q)
    /\ b + Len(q) = IF p = 0 THEN e ELSE e + 1
    /\ \A i \in 1 .. Len(q) :
          q[i] = IF i = p THEN Snapshot ELSE IF p = 0 \/ i < p THEN b + i ELSE b + i - 1

(* The last event that is for c.                                           *)
Last(c) == IF cut[c] = -1 THEN fanned ELSE cut[c]

Streams ==
    \A c \in Clients : joined[c] >= 0 =>
        \E p \in Nat :
            /\ Run(send[c], joined[c] + Len(got[c]), Last(c), p)
            /\ handler[c] # "done" => p = 0

HubInv == TypeOK /\ Reserved /\ BusInOrder /\ Membership /\ Stages /\ Streams

-----------------------------------------------------------------------------
(* Facts about sequences and runs.                                         *)

(* What Append makes of a sequence.                                        *)
LEMMA Appended ==
    ASSUME NEW S, NEW q \in Seq(S), NEW x \in S
    PROVE  /\ Append(q, x) \in Seq(S) /\ Len(Append(q, x)) = Len(q) + 1
           /\ \A i \in 1 .. Len(q) : Append(q, x)[i] = q[i]
           /\ Append(q, x)[Len(q) + 1] = x
OBVIOUS

(* What Head and Tail make of one.                                         *)
LEMMA Popped ==
    ASSUME NEW S, NEW q \in Seq(S), q # <<>>
    PROVE  /\ Head(q) \in S /\ Tail(q) \in Seq(S)
           /\ Len(q) \in Nat \ {0} /\ Len(Tail(q)) = Len(q) - 1
           /\ Head(q) = q[1]
           /\ \A i \in 1 .. Len(q) - 1 : Tail(q)[i] = q[i + 1]
BY HeadTailProperties, EmptySeq

(* The next event extends a run.                                           *)
LEMMA RunNext ==
    ASSUME NEW q \in Seq(Nat), NEW b \in Nat, NEW e \in Nat, NEW p \in Nat,
           Run(q, b, e, p)
    PROVE  Run(Append(q, e + 1), b, e + 1, p)
<1> DEFINE r == Append(q, e + 1)
<1>1. /\ r \in Seq(Nat) /\ Len(r) = Len(q) + 1 /\ Len(q) \in Nat
      /\ \A i \in 1 .. Len(q) : r[i] = q[i]
      /\ r[Len(q) + 1] = e + 1
  BY Appended
<1> HIDE DEF r
<1>2. ASSUME NEW i \in 1 .. Len(r)
      PROVE  r[i] = IF i = p THEN Snapshot ELSE IF p = 0 \/ i < p THEN b + i ELSE b + i - 1
  <2>1. CASE i = Len(q) + 1
    BY <1>1, <2>1, SMTT(30) DEF Run
  <2>2. CASE i \in 1 .. Len(q)
    BY <1>1, <2>2 DEF Run
  <2> QED BY <1>1, <2>1, <2>2
<1>3. p <= Len(r) /\ b + Len(r) = IF p = 0 THEN e + 1 ELSE e + 1 + 1
  BY <1>1 DEF Run
<1> QED BY <1>2, <1>3 DEF Run, r

(* A run without a snapshot may get one.                                   *)
LEMMA RunSnapshot ==
    ASSUME NEW q \in Seq(Nat), NEW b \in Nat, NEW e \in Nat, Run(q, b, e, 0)
    PROVE  Run(Append(q, Snapshot), b, e, Len(q) + 1)
<1> DEFINE r == Append(q, Snapshot)
<1>1. /\ r \in Seq(Nat) /\ Len(r) = Len(q) + 1 /\ Len(q) \in Nat
      /\ \A i \in 1 .. Len(q) : r[i] = q[i]
      /\ r[Len(q) + 1] = Snapshot
  BY Appended DEF Snapshot
<1> HIDE DEF r
<1> QED BY <1>1 DEF Run, r

(* The first frame of a run is the snapshot, and what is left is the run   *)
(* of the same events, or it is the first event, and what is left is the   *)
(* run of the others.                                                      *)
LEMMA RunTail ==
    ASSUME NEW q \in Seq(Nat), NEW b \in Nat, NEW e \in Nat, NEW p \in Nat,
           Run(q, b, e, p), q # <<>>
    PROVE  \/ p = 1 /\ Head(q) = Snapshot /\ Run(Tail(q), b, e, 0)
           \/ /\ p # 1 /\ Head(q) # Snapshot /\ Head(q) = b + 1 /\ b + 1 <= e
              /\ Run(Tail(q), b + 1, e, IF p = 0 THEN 0 ELSE p - 1)
<1> DEFINE r == Tail(q)
<1>1. /\ Len(q) \in Nat \ {0} /\ Len(r) = Len(q) - 1 /\ Head(q) = q[1]
      /\ \A i \in 1 .. Len(r) : r[i] = q[i + 1] /\ i + 1 \in 1 .. Len(q)
  BY Popped
<1> HIDE DEF r
<1>2. CASE p = 1
  BY <1>1, <1>2 DEF Run, r, Snapshot
<1>3. CASE p # 1
  <2>1. Head(q) = b + 1 /\ Head(q) # Snapshot /\ b + 1 <= e
    BY <1>1, <1>3 DEF Run, Snapshot
  <2>2. CASE p = 0
    BY <1>1, <2>1, <2>2, <1>3 DEF Run, r, Snapshot
  <2>3. CASE p > 1
    BY <1>1, <2>1, <2>3 DEF Run, r, Snapshot
  <2> QED BY <1>3, <2>1, <2>2, <2>3
<1> QED BY <1>2, <1>3

-----------------------------------------------------------------------------
(* HubInv holds in the initial states and is kept by every action.         *)

(* The base of a client's run and its end are numbers.                     *)
LEMMA StreamTypes ==
    ASSUME HubInv, NEW c \in Clients, joined[c] >= 0
    PROVE  /\ joined[c] \in Nat /\ Len(got[c]) \in Nat /\ Last(c) \in Nat
           /\ joined[c] + Len(got[c]) \in Nat
           /\ send[c] \in Seq(Nat) /\ got[c] \in Seq(1 .. MaxEvents)
<1>1. send[c] \in Seq(Frames) /\ got[c] \in Seq(1 .. MaxEvents)
  BY DEF HubInv, TypeOK
<1>2. send[c] \in Seq(Nat)
  BY <1>1, SeqMonotonic, SizeAssumption DEF Frames
<1>3. joined[c] \in Nat /\ Last(c) \in Nat
  BY SizeAssumption DEF HubInv, TypeOK, Last, Membership
<1>4. Len(got[c]) \in Nat
  BY <1>1, LenProperties
<1> QED BY <1>1, <1>2, <1>3, <1>4

(* The hub starts with nobody and nothing.                                 *)
LEMMA InitHub == Init => HubInv
<1> SUFFICES ASSUME Init PROVE HubInv
  OBVIOUS
<1>1. IsFiniteSet({}) /\ Cardinality({}) = 0
  BY FS_EmptySet
<1>2. TypeOK
  BY <1>1, SizeAssumption DEF Init, TypeOK, Frames
<1>3. Reserved /\ BusInOrder /\ Membership /\ Stages /\ Streams
  BY <1>1, SizeAssumption DEF Init, Reserved, BusInOrder, Membership, Stages, Streams
<1> QED BY <1>2, <1>3 DEF HubInv

(* A service reserves an event with its lock.                              *)
LEMMA ChangeKeeps ==
    ASSUME HubInv, NEW s \in Services, Change(s)
    PROVE  HubInv'
<1> USE DEF HubInv, Change, hubState, pumps, history
<1>1. TypeOK'
  BY DEF TypeOK
<1>2. Reserved'
  <2>1. /\ IsFiniteSet(locked \cup {s})
        /\ Cardinality(locked \cup {s}) = Cardinality(locked) + 1
    BY FS_AddElement DEF Reserved
  <2>2. Cardinality(locked) \in Nat
    BY FS_CardinalityType DEF Reserved
  <2> QED BY <2>1, <2>2, SizeAssumption DEF Reserved, TypeOK
<1>3. BusInOrder' /\ Membership' /\ Stages' /\ Streams'
  BY DEF BusInOrder, Membership, Stages, Streams, Last
<1> QED BY <1>1, <1>2, <1>3

(* Broadcast puts the next number into the bus.                            *)
LEMMA BroadcastKeeps ==
    ASSUME HubInv, NEW s \in Services, Broadcast(s)
    PROVE  HubInv'
<1> USE DEF HubInv, Broadcast, hubState, pumps, history
<1>1. /\ IsFiniteSet(locked \ {s}) /\ Cardinality(locked \ {s}) = Cardinality(locked) - 1
      /\ Cardinality(locked) \in Nat /\ Cardinality(locked \ {s}) \in Nat
  BY FS_RemoveElement, FS_CardinalityType DEF Reserved
<1>2. produced + 1 \in 1 .. MaxEvents
  BY <1>1, SizeAssumption DEF Reserved, TypeOK
<1>3. /\ bus' \in Seq(1 .. MaxEvents) /\ Len(bus') = Len(bus) + 1 /\ Len(bus) \in Nat
      /\ \A i \in 1 .. Len(bus) : bus'[i] = bus[i]
      /\ bus'[Len(bus) + 1] = produced + 1
  <2>1. bus \in Seq(1 .. MaxEvents)
    BY DEF TypeOK
  <2> QED BY <1>2, <2>1, Appended, LenProperties
<1>4. TypeOK'
  <2>1. /\ Len(bus') <= BusSize /\ produced' \in 0 .. MaxEvents
        /\ fanned' \in Nat /\ fanned' + Len(bus') = produced'
    BY <1>2, <1>3, SizeAssumption DEF TypeOK
  <2> QED BY <1>3, <2>1 DEF TypeOK
<1>5. Reserved'
  BY <1>1, <1>2 DEF Reserved, TypeOK
<1>6. BusInOrder'
  BY <1>3 DEF BusInOrder, TypeOK
<1>7. Membership' /\ Stages' /\ Streams'
  BY DEF Membership, Stages, Streams, Last
<1> QED BY <1>4, <1>5, <1>6, <1>7

(* Stop changes nothing but the flag.                                      *)
LEMMA StopKeeps ==
    ASSUME HubInv, Stop
    PROVE  HubInv'
<1> USE DEF HubInv, Stop, pumps, history
<1>1. TypeOK'
  BY DEF TypeOK
<1>2. Reserved' /\ BusInOrder' /\ Membership'
  BY DEF Reserved, BusInOrder, Membership
<1>3. Stages' /\ Streams'
  BY DEF Stages, Streams, Last
<1> QED BY <1>1, <1>2, <1>3

(* A client is let in at the present event, or refused at the limit.       *)
LEMMA RegisterKeeps ==
    ASSUME HubInv, NEW c \in Clients, HubRegister(c)
    PROVE  HubInv'
<1> USE DEF HubInv, HubRegister
<1>1. joined[c] = -1 /\ c \notin closed /\ c \notin clients /\ cut[c] = -1
  BY DEF Stages, Membership, TypeOK
<1>2. send[c] = <<>> /\ got[c] = <<>>
  BY <1>1 DEF Stages
<1>3. fanned \in 0 .. MaxEvents
  BY SizeAssumption, LenProperties DEF TypeOK
<1>4. Reserved' /\ BusInOrder'
  BY DEF Reserved, BusInOrder
<1>5. CASE Full
  <2>1. TypeOK'
    BY <1>1, <1>5 DEF TypeOK
  <2>2. Membership' /\ Stages'
    BY <1>1, <1>5 DEF Membership, Stages, TypeOK
  <2>3. Streams'
    BY <1>5 DEF Streams, Last, TypeOK
  <2> QED BY <1>4, <2>1, <2>2, <2>3
<1>6. CASE ~Full
  <2>1. /\ IsFiniteSet(clients \cup {c})
        /\ Cardinality(clients \cup {c}) = Cardinality(clients) + 1
        /\ Cardinality(clients) \in Nat
    BY <1>1, FS_AddElement, FS_CardinalityType DEF Membership
  <2>2. /\ clients' = clients \cup {c} /\ closed' = closed
        /\ joined' = [joined EXCEPT ![c] = fanned]
    BY <1>6
  <2>3. TypeOK'
    <3>1. maxClients \in Nat /\ maxClients' = maxClients
      BY SizeAssumption DEF TypeOK
    <3>2. maxClients' > 0 => Cardinality(clients') <= maxClients'
      BY <1>6, <2>1, <2>2, <3>1 DEF Full
    <3>3. joined' \in [Clients -> -1 .. MaxEvents] /\ clients' \subseteq Clients \ closed'
      BY <1>1, <1>3, <2>2 DEF TypeOK
    <3> QED BY <2>2, <3>2, <3>3 DEF TypeOK
  <2>4. Membership' /\ Stages'
    <3>1. \A d \in Clients : joined'[d] = IF d = c THEN fanned ELSE joined[d]
      BY <2>2 DEF TypeOK
    <3>2. Membership'
      BY <1>1, <1>3, <2>1, <2>2, <3>1 DEF Membership
    <3>3. \A d \in Clients : handler'[d] = IF d = c THEN "init" ELSE handler[d]
      BY DEF TypeOK
    <3>4. Stages'
      BY <1>1, <1>3, <2>2, <3>1, <3>3 DEF Stages
    <3> QED BY <3>2, <3>4
  <2>5. Streams'
    <3>1. ASSUME NEW d \in Clients, joined'[d] >= 0
          PROVE  \E p \in Nat : /\ Run(send'[d], joined'[d] + Len(got'[d]), Last(d)', p)
                                /\ handler'[d] # "done" => p = 0
      <4>1. CASE d = c
        <5>1. Run(<<>>, fanned + Len(<<>>), fanned, 0)
          BY <1>3 DEF Run
        <5>2. joined'[d] = fanned /\ Last(d)' = fanned
          BY <1>1, <1>3, <1>6, <4>1 DEF TypeOK, Last
        <5> QED BY <1>2, <4>1, <5>1, <5>2
      <4>2. CASE d # c
        BY <1>6, <3>1, <4>2 DEF Streams, Last, TypeOK
      <4> QED BY <4>1, <4>2
    <3> QED BY <3>1 DEF Streams
  <2> QED BY <1>4, <2>3, <2>4, <2>5
<1> QED BY <1>5, <1>6

(* A client that leaves is cut off at the present event.                   *)
LEMMA UnregisterKeeps ==
    ASSUME HubInv, NEW c \in Clients, HubUnregister(c)
    PROVE  HubInv'
<1> USE DEF HubInv, HubUnregister
<1>1. fanned \in 0 .. MaxEvents /\ handler[c] = "done"
  BY SizeAssumption, LenProperties DEF TypeOK, Stages
<1>2. /\ IsFiniteSet(clients \ {c}) /\ Cardinality(clients \ {c}) <= Cardinality(clients)
      /\ Cardinality(clients) \in Nat /\ Cardinality(clients \ {c}) \in Nat
  BY FS_Subset, FS_CardinalityType, clients \ {c} \subseteq clients DEF Membership
<1>3. TypeOK'
  <2>1. maxClients' > 0 => Cardinality(clients') <= maxClients'
    BY <1>2, SizeAssumption DEF TypeOK
  <2> QED BY <1>1, <2>1 DEF TypeOK
<1>4. Reserved' /\ BusInOrder'
  BY DEF Reserved, BusInOrder
<1>5. Membership'
  BY <1>1, <1>2 DEF Membership, TypeOK
<1>6. Stages'
  BY <1>1 DEF Stages, TypeOK
<1>7. \A d \in Clients : Last(d)' = Last(d)
  BY <1>1 DEF Membership, Last, TypeOK
<1>8. Streams'
  BY <1>7 DEF Streams
<1> QED BY <1>3, <1>4, <1>5, <1>6, <1>8

(* The oldest event of the bus goes to every client with room, and cuts    *)
(* off the others at the event before it.                                  *)
LEMMA HubBroadcastKeeps ==
    ASSUME HubInv, HubBroadcast
    PROVE  HubInv'
<1> USE DEF HubInv, HubBroadcast, pumps
<1>1. /\ bus \in Seq(1 .. MaxEvents) /\ Len(bus) \in Nat \ {0}
      /\ bus' \in Seq(1 .. MaxEvents) /\ Len(bus') = Len(bus) - 1
      /\ \A i \in 1 .. Len(bus') : bus'[i] = bus[i + 1]
      /\ Head(bus) = bus[1] /\ Head(bus) \in 1 .. MaxEvents
  <2>1. bus \in Seq(1 .. MaxEvents) /\ bus # <<>> /\ bus' = Tail(bus)
    BY DEF TypeOK
  <2> HIDE DEF HubBroadcast
  <2> QED BY <2>1, Popped
<1>2. /\ fanned \in Nat /\ fanned + 1 \in 0 .. MaxEvents /\ fanned' = fanned + 1
      /\ Head(bus) = fanned + 1
  BY <1>1, SizeAssumption DEF TypeOK, BusInOrder
<1>3. ASSUME NEW c \in Clients
      PROVE  /\ send[c] \in Seq(Frames) /\ Len(send[c]) \in Nat /\ Len(send[c]) <= SendSize
             /\ Append(send[c], Head(bus)) \in Seq(Frames)
             /\ Len(Append(send[c], Head(bus))) = Len(send[c]) + 1
  <2>1. send[c] \in Seq(Frames) /\ Len(send[c]) <= SendSize
    BY DEF TypeOK
  <2>2. Head(bus) \in Frames
    BY <1>1, SizeAssumption DEF Frames
  <2> QED BY <2>1, <2>2, Appended, LenProperties
<1>4. /\ IsFiniteSet(clients \ Slow) /\ Cardinality(clients \ Slow) <= Cardinality(clients)
      /\ Cardinality(clients) \in Nat /\ Cardinality(clients \ Slow) \in Nat
  BY FS_Subset, FS_CardinalityType, clients \ Slow \subseteq clients DEF Membership
<1>5. TypeOK'
  <2>1. maxClients' > 0 => Cardinality(clients') <= maxClients'
    BY <1>4, SizeAssumption DEF TypeOK
  <2>2. /\ send' \in [Clients -> Seq(Frames)]
        /\ \A c \in Clients : Len(send'[c]) <= SendSize
    BY <1>3, SizeAssumption
  <2>3. cut' \in [Clients -> -1 .. MaxEvents]
    <3>1. fanned \in -1 .. MaxEvents
      BY <1>2, SizeAssumption
    <3> QED BY <3>1 DEF TypeOK
  <2>4. Len(bus') <= BusSize /\ fanned' \in Nat /\ fanned' + Len(bus') = produced'
    <3>1. Len(bus) <= BusSize /\ fanned + Len(bus) = produced /\ produced' = produced
      BY DEF TypeOK
    <3> HIDE DEF HubBroadcast
    <3> QED BY <1>1, <1>2, <3>1, SizeAssumption
  <2>5. clients' \subseteq Clients \ closed' /\ closed' \subseteq Clients
    BY DEF TypeOK, Slow
  <2> QED BY <1>1, <2>1, <2>2, <2>3, <2>4, <2>5 DEF TypeOK
<1>6. Reserved'
  BY DEF Reserved
<1>7. BusInOrder'
  BY <1>1, <1>2 DEF BusInOrder
<1>8. Slow \subseteq clients /\ clients \subseteq Clients
  BY DEF Slow, TypeOK
<1>9. Membership'
  <2>1. ASSUME NEW c \in Clients
        PROVE  /\ joined[c] \in Int /\ cut[c] \in Int
               /\ cut'[c] = IF c \in Slow THEN fanned ELSE cut[c]
    BY DEF TypeOK
  <2>2. \A c \in Slow : joined[c] >= 0 /\ c \in closed'
    BY <1>8 DEF Membership
  <2> QED BY <1>2, <1>4, <1>8, <2>1, <2>2 DEF Membership
<1>10. Stages'
  <2>1. ASSUME NEW c \in Clients, joined[c] = -1
        PROVE  c \notin clients /\ send'[c] = send[c]
    BY <2>1 DEF Membership
  <2>2. \A c \in Slow : joined[c] # -1
    BY <1>8 DEF Membership
  <2> QED BY <1>8, <2>1, <2>2 DEF Stages
<1>11. Streams'
  <2>1. ASSUME NEW c \in Clients, joined'[c] >= 0
        PROVE  \E p \in Nat : /\ Run(send'[c], joined'[c] + Len(got'[c]), Last(c)', p)
                              /\ handler'[c] # "done" => p = 0
    <3>1. PICK p \in Nat : /\ Run(send[c], joined[c] + Len(got[c]), Last(c), p)
                           /\ handler[c] # "done" => p = 0
      BY <2>1 DEF Streams
    <3>2. /\ joined[c] + Len(got[c]) \in Nat /\ Last(c) \in Nat /\ send[c] \in Seq(Nat)
      BY <2>1, StreamTypes
    <3>3. CASE c \in clients /\ c \notin Slow
      <4>1. send'[c] = Append(send[c], fanned + 1)
        BY <1>2, <1>3, <3>3, SizeAssumption DEF Slow
      <4>2. Last(c) = fanned /\ Last(c)' = fanned + 1
        BY <1>2, <3>3 DEF Last, Membership, TypeOK
      <4>3. Run(Append(send[c], fanned + 1), joined[c] + Len(got[c]), fanned + 1, p)
        BY <3>1, <3>2, <4>2, RunNext
      <4> QED BY <3>1, <4>1, <4>2, <4>3
    <3>4. CASE c \in Slow
      <4>1. send'[c] = send[c]
        BY <1>3, <3>4, SizeAssumption DEF Slow
      <4>2. Last(c) = fanned /\ Last(c)' = fanned
        BY <1>2, <1>8, <3>4 DEF Last, Membership, TypeOK
      <4> QED BY <3>1, <4>1, <4>2
    <3>5. CASE c \notin clients
      <4>1. send'[c] = send[c] /\ cut'[c] = cut[c] /\ cut[c] # -1
        BY <1>8, <2>1, <3>5 DEF Membership
      <4> QED BY <3>1, <4>1 DEF Last
    <3> QED BY <3>3, <3>4, <3>5
  <2> QED BY <2>1 DEF Streams
<1> QED BY <1>5, <1>6, <1>7, <1>9, <1>10, <1>11

(* A connection asks to be let in.                                         *)
LEMMA ConnectKeeps ==
    ASSUME HubInv, NEW c \in Clients, Connect(c)
    PROVE  HubInv'
<1> USE DEF HubInv, Connect, hubState, history
<1>1. TypeOK'
  BY DEF TypeOK
<1>2. Reserved' /\ BusInOrder' /\ Membership'
  BY DEF Reserved, BusInOrder, Membership
<1>3. Stages'
  BY DEF Stages, TypeOK
<1>4. Streams'
  BY DEF Streams, Last, Stages, TypeOK
<1> QED BY <1>1, <1>2, <1>3, <1>4

(* Reading the services touches nothing but the reads that are left.       *)
LEMMA ReadStateKeeps ==
    ASSUME HubInv, NEW c \in Clients, ReadState(c)
    PROVE  HubInv'
<1> USE DEF HubInv, ReadState, hubState, history
<1>1. TypeOK'
  <2>1. Tail(toRead[c]) \in Seq(Services)
    BY Popped DEF TypeOK
  <2>2. toRead' \in [Clients -> Seq(Services)]
    BY <2>1 DEF TypeOK
  <2> QED BY <2>2 DEF TypeOK
<1>2. Reserved' /\ BusInOrder' /\ Membership'
  BY DEF Reserved, BusInOrder, Membership
<1>3. Stages' /\ Streams'
  BY DEF Stages, Streams, Last
<1> QED BY <1>1, <1>2, <1>3

(* The snapshot goes behind the events the client already has.             *)
LEMMA SendInitKeeps ==
    ASSUME HubInv, NEW c \in Clients, SendInit(c)
    PROVE  HubInv'
<1> USE DEF HubInv, SendInit, hubState, history
<1>1. Reserved' /\ BusInOrder' /\ Membership'
  BY DEF Reserved, BusInOrder, Membership
<1>2. CASE c \in closed
  <2>1. TypeOK'
    BY <1>2 DEF TypeOK
  <2>2. Stages'
    BY <1>2 DEF Stages, TypeOK
  <2>3. Streams'
    BY <1>2 DEF Streams, Last, TypeOK
  <2> QED BY <1>1, <2>1, <2>2, <2>3
<1>3. CASE c \notin closed
  <2>1. joined[c] >= 0
    BY <1>3 DEF Stages
  <2>2. send[c] \in Seq(Frames) /\ Len(send[c]) \in Nat /\ Snapshot \in Frames
    BY SizeAssumption, LenProperties DEF TypeOK, Frames, Snapshot
  <2>3. /\ Append(send[c], Snapshot) \in Seq(Frames)
        /\ Len(Append(send[c], Snapshot)) = Len(send[c]) + 1
    BY <2>2, Appended
  <2>4. /\ send' = [send EXCEPT ![c] = IF Len(@) < SendSize THEN Append(@, Snapshot) ELSE @]
        /\ reader' = [reader EXCEPT ![c] = "reading"]
        /\ writer' = [writer EXCEPT ![c] = "writing"]
        /\ handler' = [handler EXCEPT ![c] = "done"]
    BY <1>3
  <2>5. TypeOK'
    <3>1. send' \in [Clients -> Seq(Frames)] /\ \A d \in Clients : Len(send'[d]) <= SendSize
      BY <2>2, <2>3, <2>4, SizeAssumption, SMTT(30) DEF TypeOK
    <3> QED BY <2>4, <3>1 DEF TypeOK
  <2>6. Stages'
    BY <2>1, <2>4 DEF Stages, TypeOK
  <2>7. Streams'
    <3>1. ASSUME NEW d \in Clients, joined'[d] >= 0
          PROVE  \E p \in Nat : /\ Run(send'[d], joined'[d] + Len(got'[d]), Last(d)', p)
                                /\ handler'[d] # "done" => p = 0
      <4>1. CASE d # c
        BY <2>4, <3>1, <4>1 DEF Streams, Last, TypeOK
      <4>2. CASE d = c
        <5>1. Run(send[c], joined[c] + Len(got[c]), Last(c), 0)
          BY <2>1 DEF Streams
        <5>2. /\ joined[c] + Len(got[c]) \in Nat /\ Last(c) \in Nat /\ send[c] \in Seq(Nat)
          BY <2>1, StreamTypes
        <5>3. Run(Append(send[c], Snapshot), joined[c] + Len(got[c]), Last(c), Len(send[c]) + 1)
          BY <5>1, <5>2, RunSnapshot
        <5>4. send'[c] = send[c] \/ send'[c] = Append(send[c], Snapshot)
          BY <2>4 DEF TypeOK
        <5>5. handler'[c] = "done" /\ Last(c)' = Last(c)
          BY <2>4 DEF TypeOK, Last
        <5>6. joined'[c] = joined[c] /\ got'[c] = got[c] /\ Len(send[c]) + 1 \in Nat
          BY <2>2
        <5> QED BY <4>2, <5>1, <5>3, <5>4, <5>5, <5>6
      <4> QED BY <4>1, <4>2
    <3> QED BY <3>1 DEF Streams
  <2> QED BY <1>1, <2>5, <2>6, <2>7
<1> QED BY <1>2, <1>3

(* The end of a connection, of its reader and of its writer touch neither  *)
(* the hub nor the channels.                                               *)
LEMMA EndsKeep ==
    ASSUME HubInv, NEW c \in Clients, ConnectionLost(c) \/ ReadEnds(c) \/ WriteFails(c)
    PROVE  HubInv'
<1> USE DEF HubInv, ConnectionLost, ReadEnds, WriteFails, hubState, history
<1>1. TypeOK'
  BY DEF TypeOK
<1>2. Reserved' /\ BusInOrder' /\ Membership'
  BY DEF Reserved, BusInOrder, Membership
<1>3. Stages'
  BY DEF Stages, TypeOK
<1>4. Streams'
  BY DEF Streams, Last
<1> QED BY <1>1, <1>2, <1>3, <1>4

(* A frame that is written moves from the channel to what was received.    *)
LEMMA WriteKeeps ==
    ASSUME HubInv, NEW c \in Clients, Write(c)
    PROVE  /\ HubInv'
           /\ joined[c] >= 0
           /\ Head(send[c]) # Snapshot =>
                 /\ Head(send[c]) = joined[c] + Len(got[c]) + 1
                 /\ joined[c] + Len(got[c]) + 1 <= Last(c)
<1> USE DEF HubInv, Write, hubState, pumps, history
<1>1. joined[c] >= 0
  BY DEF Stages, Membership, TypeOK
<1>2. /\ send[c] \in Seq(Frames) /\ Head(send[c]) \in Frames /\ Tail(send[c]) \in Seq(Frames)
      /\ Len(Tail(send[c])) = Len(send[c]) - 1 /\ Len(send[c]) \in Nat \ {0}
  BY Popped DEF TypeOK
<1>3. /\ joined[c] \in Nat /\ Len(got[c]) \in Nat
      /\ joined[c] + Len(got[c]) \in Nat /\ Last(c) \in Nat
      /\ send[c] \in Seq(Nat) /\ got[c] \in Seq(1 .. MaxEvents)
  BY <1>1, StreamTypes
<1>4. PICK p \in Nat : /\ Run(send[c], joined[c] + Len(got[c]), Last(c), p)
                       /\ handler[c] # "done" => p = 0
  BY <1>1 DEF Streams
<1>5. \/ /\ p = 1 /\ Head(send[c]) = Snapshot
         /\ Run(Tail(send[c]), joined[c] + Len(got[c]), Last(c), 0)
      \/ /\ Head(send[c]) # Snapshot /\ Head(send[c]) = joined[c] + Len(got[c]) + 1
         /\ joined[c] + Len(got[c]) + 1 <= Last(c)
         /\ Run(Tail(send[c]), joined[c] + Len(got[c]) + 1, Last(c), IF p = 0 THEN 0 ELSE p - 1)
  BY <1>3, <1>4, RunTail
<1>6. /\ \A d \in Clients : send'[d] = IF d = c THEN Tail(send[c]) ELSE send[d]
      /\ \A d \in Clients : Last(d)' = Last(d)
  BY DEF TypeOK, Last
<1>7. Reserved' /\ BusInOrder' /\ Membership'
  BY DEF Reserved, BusInOrder, Membership
<1>8. CASE Head(send[c]) = Snapshot
  <2>1. got' = got
    BY <1>8
  <2>2. TypeOK'
    <3>1. send' \in [Clients -> Seq(Frames)] /\ \A d \in Clients : Len(send'[d]) <= SendSize
      BY <1>2, SizeAssumption, SMTT(30) DEF TypeOK
    <3> QED BY <2>1, <3>1 DEF TypeOK
  <2>3. Stages'
    BY <1>1, <1>6, <2>1 DEF Stages
  <2>4. Streams'
    <3>1. Run(Tail(send[c]), joined[c] + Len(got[c]), Last(c), 0)
      BY <1>5, <1>8
    <3> QED BY <1>6, <2>1, <3>1 DEF Streams
  <2> QED BY <1>1, <1>7, <1>8, <2>2, <2>3, <2>4
<1>9. CASE Head(send[c]) # Snapshot
  <2>1. /\ got' = [got EXCEPT ![c] = Append(got[c], Head(send[c]))]
        /\ Head(send[c]) \in 1 .. MaxEvents
    BY <1>2, <1>9 DEF Frames, Snapshot
  <2>2. /\ Append(got[c], Head(send[c])) \in Seq(1 .. MaxEvents)
        /\ Len(Append(got[c], Head(send[c]))) = Len(got[c]) + 1
    BY <1>3, <2>1, Appended
  <2>3. \A d \in Clients : got'[d] = IF d = c THEN Append(got[c], Head(send[c])) ELSE got[d]
    BY <2>1 DEF TypeOK
  <2>4. TypeOK'
    <3>1. send' \in [Clients -> Seq(Frames)] /\ \A d \in Clients : Len(send'[d]) <= SendSize
      BY <1>2, SizeAssumption, SMTT(30) DEF TypeOK
    <3>2. got' \in [Clients -> Seq(1 .. MaxEvents)]
      BY <2>1, <2>2 DEF TypeOK
    <3> QED BY <3>1, <3>2 DEF TypeOK
  <2>5. Stages'
    BY <1>1, <1>6, <2>3 DEF Stages
  <2>6. Streams'
    <3>1. (IF p = 0 THEN 0 ELSE p - 1) \in Nat
      OBVIOUS
    <3>2. handler[c] = "done"
      BY DEF Stages
    <3>3. joined[c] + Len(got'[c]) = joined[c] + Len(got[c]) + 1
      <4>1. Len(got'[c]) = Len(got[c]) + 1
        BY <2>2, <2>3
      <4> HIDE DEF Write
      <4> QED BY <1>3, <4>1
    <3>4. Run(send'[c], joined[c] + Len(got'[c]), Last(c), IF p = 0 THEN 0 ELSE p - 1)
      BY <1>5, <1>6, <1>9, <3>3
    <3> QED BY <1>6, <2>3, <3>1, <3>2, <3>4 DEF Streams
  <2> QED BY <1>1, <1>5, <1>7, <1>9, <2>4, <2>5, <2>6
<1> QED BY <1>8, <1>9

-----------------------------------------------------------------------------
(* The theorems.                                                           *)

(* HubInv holds in every state of the hub.                                 *)
THEOREM Invariant == Spec => []HubInv
<1>1. Init => HubInv
  BY InitHub
<1>2. ASSUME HubInv, [Next]_vars PROVE HubInv'
  <2>1. CASE UNCHANGED vars
    <3> USE <1>2, <2>1 DEF HubInv, vars
    <3>1. TypeOK'
      BY DEF TypeOK
    <3>2. Reserved' /\ BusInOrder' /\ Membership'
      BY DEF Reserved, BusInOrder, Membership
    <3>3. Stages' /\ Streams'
      BY DEF Stages, Streams, Last
    <3> QED BY <3>1, <3>2, <3>3
  <2>2. ASSUME NEW s \in Services, Change(s) \/ Broadcast(s) PROVE HubInv'
    BY <1>2, <2>2, ChangeKeeps, BroadcastKeeps
  <2>3. CASE HubBroadcast
    BY <1>2, <2>3, HubBroadcastKeeps
  <2>4. CASE Stop
    BY <1>2, <2>4, StopKeeps
  <2>5. ASSUME NEW c \in Clients, HubRegister(c) \/ HubUnregister(c) PROVE HubInv'
    BY <1>2, <2>5, RegisterKeeps, UnregisterKeeps
  <2>6. ASSUME NEW c \in Clients, Connect(c) \/ ReadState(c) \/ SendInit(c) PROVE HubInv'
    BY <1>2, <2>6, ConnectKeeps, ReadStateKeeps, SendInitKeeps
  <2>7. ASSUME NEW c \in Clients, ConnectionLost(c) \/ Pump(c) PROVE HubInv'
    BY <1>2, <2>7, EndsKeep, WriteKeeps DEF Pump
  <2> QED BY <1>2, <2>1, <2>2, <2>3, <2>4, <2>5, <2>6, <2>7 DEF Next
<1> QED BY <1>1, <1>2, PTL DEF Spec

(* The types of the hub's state, the capacities of the channels and the    *)
(* client limit: no more clients than the limit are ever in the set, and   *)
(* none whose channel is closed.                                           *)
THEOREM TypeCorrect == Spec => []TypeOK
<1>1. HubInv => TypeOK
  BY DEF HubInv
<1> QED BY <1>1, Invariant, PTL

(* A step of the hub, of a handler or of a pump is a step of the abstract  *)
(* fan-out or leaves it alone.                                             *)
LEMMA StepRefines ==
    ASSUME HubInv, [Next]_vars
    PROVE  [Bus!Next]_(Bus!vars)
<1> USE DEF HubInv
<1>1. CASE UNCHANGED vars
  BY <1>1 DEF vars, Bus!vars
<1>2. ASSUME NEW s \in Services, Change(s) \/ Broadcast(s)
      PROVE  UNCHANGED Bus!vars
  BY <1>2 DEF Change, Broadcast, hubState, history, Bus!vars
<1>3. CASE HubBroadcast
  <2>1. Slow \in SUBSET Clients /\ \A c \in Slow : Bus!Inside(c)
    BY DEF Slow, Membership, TypeOK, Bus!Inside
  <2>2. Bus!Broadcast(Slow)
    BY <1>3, <2>1 DEF HubBroadcast, Bus!Broadcast
  <2> QED BY <2>1, <2>2 DEF Bus!Next
<1>4. CASE Stop
  BY <1>4 DEF Stop, history, Bus!vars
<1>5. ASSUME NEW c \in Clients, HubRegister(c)
      PROVE  [Bus!Next]_(Bus!vars)
  <2>1. CASE Full
    BY <1>5, <2>1 DEF HubRegister, Bus!vars
  <2>2. CASE ~Full
    <3>1. joined[c] = -1
      BY <1>5 DEF HubRegister, Stages
    <3>2. Bus!Join(c)
      BY <1>5, <2>2, <3>1 DEF HubRegister, Bus!Join
    <3> QED BY <3>2 DEF Bus!Next
  <2> QED BY <2>1, <2>2
<1>6. ASSUME NEW c \in Clients, HubUnregister(c)
      PROVE  [Bus!Next]_(Bus!vars)
  <2>1. CASE c \in clients
    <3>1. Bus!Inside(c)
      BY <2>1 DEF Membership, Bus!Inside
    <3>2. Bus!Leave(c)
      BY <1>6, <2>1, <3>1 DEF HubUnregister, Bus!Leave
    <3> QED BY <3>2 DEF Bus!Next
  <2>2. CASE c \notin clients
    BY <1>6, <2>2 DEF HubUnregister, Bus!vars
  <2> QED BY <2>1, <2>2
<1>7. ASSUME NEW c \in Clients, Connect(c) \/ ReadState(c) \/ SendInit(c) \/ ConnectionLost(c)
                                  \/ ReadEnds(c) \/ WriteFails(c)
      PROVE  UNCHANGED Bus!vars
  BY <1>7 DEF Connect, ReadState, SendInit, ConnectionLost, ReadEnds, WriteFails, hubState, history, Bus!vars
<1>8. ASSUME NEW c \in Clients, Write(c)
      PROVE  [Bus!Next]_(Bus!vars)
  <2>1. CASE Head(send[c]) = Snapshot
    BY <1>8, <2>1 DEF Write, hubState, history, Bus!vars
  <2>2. CASE Head(send[c]) # Snapshot
    <3>1. /\ joined[c] >= 0 /\ Head(send[c]) = joined[c] + Len(got[c]) + 1
          /\ joined[c] + Len(got[c]) + 1 <= Last(c)
      BY <1>8, <2>2, WriteKeeps
    <3>2. Bus!Receive(c)
      BY <1>8, <2>2, <3>1 DEF Write, hubState, history, Last, Bus!Receive
    <3> QED BY <3>2 DEF Bus!Next
  <2> QED BY <2>1, <2>2
<1> QED BY <1>1, <1>2, <1>3, <1>4, <1>5, <1>6, <1>7, <1>8 DEF Next, Pump

(* The hub implements the abstract fan-out: every client receives, in      *)
(* order and without a gap, the events from the one after it was let in,   *)
(* until it is cut off, whatever the capacities, the limit and the pace of *)
(* the others.                                                             *)
THEOREM Refinement == Spec => GaplessStream
<1>1. Init => Bus!Init
  BY DEF Init, Bus!Init
<1>2. HubInv /\ [Next]_vars => [Bus!Next]_(Bus!vars)
  BY StepRefines
<1> QED BY <1>1, <1>2, Invariant, PTL DEF Spec, GaplessStream, Bus!Spec
=============================================================================
