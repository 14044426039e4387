------------------------- MODULE StatusReply_proofs -------------------------
(***************************************************************************)
(* Proofs about the node registry under the dispatcher and the status      *)
(* broadcaster, for every set of nodes and any number of packets and       *)
(* restarts: the number that picks the local admin path is the one the     *)
(* radio gave, and a node recognised as a sensor stays one.                *)
(*                                                                         *)
(* RegistryInv is inductive: besides the types and LocalPinned it says     *)
(* that a goroutine which still has to read a record finds it in the map.  *)
(***************************************************************************)
EXTENDS StatusReply, SequenceTheorems, TLAPS

(* A persistNode goroutine that has not read yet reads a known record.     *)
WritersKnown == \A n \in Nodes : unread[n] > 0 => Known(n)

RegistryInv == StatusTypeOK /\ LocalPinned /\ WritersKnown

StatusTypes ==
    /\ {trigger, owed, enabled} \subseteq BOOLEAN
    /\ worker \in {"idle", "started", "query", "send"}
    /\ metrics \in {"none", "waiting", "answered"}

(* What SensorSticky says of one step.                                     *)
StickyStep ==
    boots' = boots =>
        \A n \in DOMAIN nodes \cap DOMAIN nodes' :
            nodes[n].type \in Sensors => nodes'[n].type = nodes[n].type \/ nodes'[n].local

RegistryOnly == TypeOK /\ LocalPinned /\ WritersKnown

CountsOK == packets \in 0 .. MaxPackets /\ requests \in 0 .. MaxRequests

-----------------------------------------------------------------------------
(* Facts about records and the map.                                        *)

(* The record an operation starts from.                                    *)
LEMMA RecOfType ==
    ASSUME TypeOK, NEW n
    PROVE  /\ RecOf(n) \in Rec /\ (Known(n) => nodes[n] = RecOf(n))
           /\ \A m \in DOMAIN nodes : m \in Nodes /\ nodes[m] \in Rec
<1>1. \A m \in DOMAIN nodes : m \in Nodes /\ nodes[m] \in Rec
  BY DEF TypeOK, IsPartial
<1>2. NewRec \in Rec
  BY DEF NewRec, Rec, Types, Names
<1> QED BY <1>1, <1>2 DEF RecOf, Known

(* What Put leaves in the map.                                             *)
LEMMA PutMap ==
    ASSUME TypeOK, NEW n \in Nodes, NEW r \in Rec, Put(n, r)
    PROVE  /\ DOMAIN nodes' = DOMAIN nodes \cup {n} /\ nodes'[n] = r
           /\ \A m \in DOMAIN nodes : m # n => nodes'[m] = nodes[m]
           /\ IsPartial(nodes', Rec)
<1>1. /\ DOMAIN nodes' = DOMAIN nodes \cup {n} /\ nodes'[n] = r
      /\ \A m \in DOMAIN nodes : m # n => nodes'[m] = nodes[m]
  BY DEF Put
<1>2. \A m \in DOMAIN nodes : m \in Nodes /\ nodes[m] \in Rec
  BY RecOfType
<1> QED BY <1>1, <1>2 DEF IsPartial

(* Persist counts up to two.                                               *)
LEMMA PersistType ==
    ASSUME unread \in [Nodes -> 0 .. 2], NEW n \in Nodes, Persist(n) \/ unread' = unread
    PROVE  unread' \in [Nodes -> 0 .. 2] /\ \A m \in Nodes : m # n => unread'[m] = unread[m]
BY DEF Persist

(* A packet or a request counts within its bound.                          *)
LEMMA Counted ==
    ASSUME TypeOK, Packet \/ Request \/ UNCHANGED counts
    PROVE  CountsOK' /\ boots' = boots
BY CountAssumption DEF TypeOK, Packet, Request, counts, CountsOK

(* The calls a packet leads to are calls.                                  *)
LEMMA CallTypes ==
    ASSUME NEW n \in Nodes
    PROVE  /\ \A op \in Simple : Call(op, n) \in Calls
           /\ \A type \in Types : Classify(n, type) \in Calls
BY DEF Call, Classify, Calls

(* A call that may be left out.                                            *)
LEMMA WhenType ==
    ASSUME NEW b, NEW c \in Calls
    PROVE  When(b, c) \in Seq(Calls)
<1>1. <<c>> \in Seq(Calls) /\ <<>> \in Seq(Calls)
  OBVIOUS
<1> QED BY <1>1, Zenon DEF When

(* The next call, and what is left after it.                               *)
LEMMA CallFacts ==
    ASSUME TypeOK, todo # <<>>
    PROVE  /\ Head(todo) \in Calls /\ Tail(todo) \in Seq(Calls) /\ Subject \in Nodes
           /\ Head(todo).op = "ClassifyNode" => Head(todo).arg \in Types
<1>1. Head(todo) \in Calls /\ Tail(todo) \in Seq(Calls)
  BY HeadTailProperties DEF TypeOK
<1> QED BY <1>1 DEF Calls, Subject, Simple

-----------------------------------------------------------------------------
(* Every operation keeps RegistryOnly and SensorSticky.                    *)

(* An operation that puts one record: the packet handlers, Metadata and    *)
(* the rename.                                                             *)
LEMMA PutKeeps ==
    ASSUME RegistryOnly, NEW n \in Nodes, NEW r \in Rec, CountsOK', Put(n, r),
           todo' \in Seq(Calls),
           Persist(n) \/ unread' = unread,
           RecOf(n).type \in Sensors => r.type = RecOf(n).type \/ r.local,
           rows' = rows, writes' = writes, clearing' = clearing, boots' = boots,
           pendingFw' \in BOOLEAN, localNum' \in Nodes \cup {NoNode}, told' \in Nodes \cup {NoNode},
           LocalPinned'
    PROVE  RegistryOnly' /\ StickyStep
<1>1. TypeOK /\ unread \in [Nodes -> 0 .. 2]
  BY DEF RegistryOnly, TypeOK
<1>2. /\ DOMAIN nodes' = DOMAIN nodes \cup {n} /\ nodes'[n] = r
      /\ \A m \in DOMAIN nodes : m # n => nodes'[m] = nodes[m]
      /\ IsPartial(nodes', Rec)
  BY <1>1, PutMap
<1>3. unread' \in [Nodes -> 0 .. 2] /\ \A m \in Nodes : m # n => unread'[m] = unread[m]
  BY <1>1, PersistType
<1>5. TypeOK'
  BY <1>1, <1>2, <1>3 DEF TypeOK, IsPartial, CountsOK
<1>6. WritersKnown'
  BY <1>2, <1>3 DEF RegistryOnly, WritersKnown, Known
<1>7. StickyStep
  <2>1. Known(n) => nodes[n] = RecOf(n)
    BY <1>1, RecOfType
  <2> QED BY <1>2, <2>1 DEF StickyStep, Known
<1> QED BY <1>5, <1>6, <1>7 DEF RegistryOnly

(* Records that leave the map: their unread writers read them on the way.  *)
LEMMA DetachKeeps ==
    ASSUME RegistryOnly, NEW gone \in SUBSET DOMAIN nodes, nodes' = Without(gone), Detach(gone),
           CountsOK', todo' = todo, rows' = rows, clearing' \in BOOLEAN, UNCHANGED dispatcher, boots' = boots
    PROVE  RegistryOnly' /\ StickyStep
<1>1. TypeOK /\ unread \in [Nodes -> 0 .. 2] /\ writes \in [Nodes -> SUBSET Rec]
  BY DEF RegistryOnly, TypeOK
<1>2. \A m \in DOMAIN nodes : m \in Nodes /\ nodes[m] \in Rec
  BY <1>1, RecOfType
<1>3. DOMAIN nodes' = DOMAIN nodes \ gone /\ \A m \in DOMAIN nodes' : nodes'[m] = nodes[m]
  BY DEF Without
<1>4. unread' \in [Nodes -> 0 .. 2]
      /\ \A m \in Nodes : unread'[m] = IF m \in gone THEN 0 ELSE unread[m]
  BY <1>1 DEF Detach
<1>5. writes' \in [Nodes -> SUBSET Rec]
  <2>1. \A m \in DOMAIN nodes : Row(nodes[m]) \in Rec
    BY <1>2 DEF Row, Rec
  <2> QED BY <1>1, <1>2, <2>1 DEF Detach
<1>7. IsPartial(nodes', Rec)
  BY <1>2, <1>3 DEF IsPartial
<1>8. TypeOK'
  BY <1>1, <1>4, <1>5, <1>7 DEF TypeOK, IsPartial, dispatcher, CountsOK
<1>9. WritersKnown'
  BY <1>3, <1>4 DEF RegistryOnly, WritersKnown, Known
<1>10. LocalPinned'
  BY DEF RegistryOnly, LocalPinned, dispatcher
<1>11. StickyStep
  BY <1>3 DEF StickyStep
<1> QED BY <1>8, <1>9, <1>10, <1>11 DEF RegistryOnly

(* Steps that leave the registry alone: reading a name, and everything of  *)
(* the broadcaster.                                                        *)
LEMMA RegistryStands ==
    ASSUME RegistryOnly, CountsOK', UNCHANGED <<registry, dispatcher, boots>>, todo' \in Seq(Calls)
    PROVE  RegistryOnly' /\ StickyStep
<1>1. /\ nodes' = nodes /\ rows' = rows /\ unread' = unread /\ writes' = writes
      /\ clearing' = clearing /\ boots' = boots
      /\ pendingFw' = pendingFw /\ localNum' = localNum /\ told' = told
  BY DEF dispatcher, registry
<1>2. TypeOK'
  BY <1>1 DEF RegistryOnly, TypeOK, IsPartial, CountsOK
<1> QED BY <1>1, <1>2 DEF RegistryOnly, LocalPinned, WritersKnown, Known, StickyStep

(* TouchNode puts the record that is there, or a new one.                  *)
LEMMA TouchKeeps ==
    ASSUME RegistryOnly, NEW n \in Nodes, CountsOK', TouchNode(n), todo' \in Seq(Calls),
           rows' = rows, writes' = writes, clearing' = clearing, boots' = boots,
           pendingFw' \in BOOLEAN, localNum' \in Nodes \cup {NoNode}, told' \in Nodes \cup {NoNode},
           LocalPinned'
    PROVE  RegistryOnly' /\ StickyStep
<1>1. RecOf(n) \in Rec
  BY RecOfType DEF RegistryOnly
<1>2. Put(n, RecOf(n)) /\ unread' = unread
  BY DEF TouchNode
<1> QED BY <1>1, <1>2, PutKeeps

(* Amend puts a record of a known node, or nothing.                        *)
LEMMA AmendKeeps ==
    ASSUME RegistryOnly, NEW n \in Nodes \cup {NoNode}, NEW r \in Rec, CountsOK',
           Amend(n, r) \/ UNCHANGED <<nodes, unread>>, todo' \in Seq(Calls),
           RecOf(n).type \in Sensors => r.type = RecOf(n).type \/ r.local,
           rows' = rows, writes' = writes, clearing' = clearing, boots' = boots,
           pendingFw' \in BOOLEAN, localNum' = localNum, told' = told
    PROVE  RegistryOnly' /\ StickyStep
<1>1. TypeOK /\ localNum \in Nodes \cup {NoNode} /\ told \in Nodes \cup {NoNode} /\ LocalPinned'
  BY DEF RegistryOnly, TypeOK, LocalPinned
<1>2. CASE Known(n) /\ Put(n, r) /\ Persist(n)
  <2>1. n \in Nodes
    BY <1>1, <1>2, RecOfType DEF Known
  <2> QED BY <1>1, <1>2, <2>1, PutKeeps
<1>3. CASE UNCHANGED <<nodes, unread>>
  <2>1. TypeOK'
    BY <1>1, <1>3 DEF TypeOK, IsPartial, CountsOK
  <2> QED BY <1>1, <1>3, <2>1 DEF RegistryOnly, WritersKnown, Known, StickyStep
<1> QED BY <1>2, <1>3 DEF Amend

(* MyInfo.                                                                 *)
LEMMA MyInfoKeeps ==
    ASSUME RegistryOnly, NEW n \in Nodes, MyInfo(n)
    PROVE  RegistryOnly' /\ StickyStep
<1>1. TypeOK /\ pendingFw \in BOOLEAN
  BY DEF RegistryOnly, TypeOK
<1>2. /\ Packet /\ TouchNode(n)
      /\ rows' = rows /\ writes' = writes /\ clearing' = clearing
      /\ pendingFw' = pendingFw /\ localNum' = n /\ told' = n
      /\ todo' = <<Classify(n, "gotailme"), Call("MarkLocal", n)>>
                 \o When(pendingFw, Call("SetFirmwareVersion", n))
  BY DEF MyInfo
<1>3. CountsOK' /\ boots' = boots
  BY <1>1, <1>2, Counted
<1>4. todo' \in Seq(Calls)
  <2>1. /\ Classify(n, "gotailme") \in Calls /\ Call("MarkLocal", n) \in Calls
        /\ Call("SetFirmwareVersion", n) \in Calls
    BY CallTypes DEF Simple, Types
  <2>3. When(pendingFw, Call("SetFirmwareVersion", n)) \in Seq(Calls)
    BY <2>1, WhenType
  <2>2. <<Classify(n, "gotailme"), Call("MarkLocal", n)>> \in Seq(Calls)
    BY <2>1
  <2> QED BY <1>2, <2>2, <2>3, ConcatProperties
<1>5. LocalPinned'
  BY <1>2 DEF LocalPinned
<1> QED BY <1>1, <1>2, <1>3, <1>4, <1>5, TouchKeeps

(* NodeInfo: the fallback pins the number only while the radio has not     *)
(* given it, for localNum is then still NoNode.                            *)
LEMMA NodeInfoKeeps ==
    ASSUME RegistryOnly, NEW n \in Nodes, NEW user \in Names \cup {NoUser}, NodeInfo(n, user)
    PROVE  RegistryOnly' /\ StickyStep
<1> DEFINE a == [RecOf(n) EXCEPT !.name = IF user = NoUser THEN @ ELSE user]
           b == [a EXCEPT !.type = NodeInfoType(@, a.name)]
<1>1. TypeOK /\ RecOf(n) \in Rec /\ pendingFw \in BOOLEAN
      /\ localNum \in Nodes \cup {NoNode} /\ told \in Nodes \cup {NoNode}
  BY RecOfType DEF RegistryOnly, TypeOK
<1>2. a \in Rec /\ a.type = RecOf(n).type
  BY <1>1 DEF Rec
<1>3. Put(n, b) /\ Persist(n) /\ Packet
      /\ rows' = rows /\ writes' = writes /\ clearing' = clearing
      /\ pendingFw' = pendingFw /\ told' = told
      /\ localNum' = IF FirstNodeInfo(n) THEN n ELSE localNum
  BY Zenon DEF NodeInfo, HandleNodeInfo
<1> HIDE DEF a
<1>4. /\ NodeInfoType(a.type, a.name) \in Types
      /\ a.type \in Sensors => NodeInfoType(a.type, a.name) = a.type
  <2>1. a.type \in Types
    BY <1>2 DEF Rec
  <2> QED BY <2>1 DEF NodeInfoType, Types
<1>5. b \in Rec /\ b.type = NodeInfoType(a.type, a.name)
  BY <1>2, <1>4 DEF Rec
<1> HIDE DEF b
<1>6. CountsOK' /\ boots' = boots
  BY <1>1, <1>3, Counted
<1>7. todo' \in Seq(Calls)
  <2>1. Call("MarkLocal", n) \in Calls /\ Call("SetFirmwareVersion", n) \in Calls
    BY CallTypes DEF Simple
  <2>2. PICK p \in Seq(Calls), q \in Seq(Calls) : todo' = p \o q
    <3>1. /\ When(localNum' = n, Call("MarkLocal", n)) \in Seq(Calls)
          /\ When(localNum' = n /\ pendingFw, Call("SetFirmwareVersion", n)) \in Seq(Calls)
      BY <2>1, WhenType, Zenon
    <3> QED BY <3>1, Zenon DEF NodeInfo
  <2> QED BY <2>2, ConcatProperties
<1>8. LocalPinned'
  BY <1>1, <1>3 DEF RegistryOnly, LocalPinned, FirstNodeInfo
<1>9. localNum' \in Nodes \cup {NoNode} /\ told' \in Nodes \cup {NoNode}
  BY <1>1, <1>3
<1>10. RecOf(n).type \in Sensors => b.type = RecOf(n).type
  BY <1>2, <1>4, <1>5
<1> QED BY <1>1, <1>3, <1>5, <1>6, <1>7, <1>8, <1>9, <1>10, PutKeeps

(* The firmware version of the attached radio.                             *)
LEMMA MetadataKeeps ==
    ASSUME RegistryOnly, Metadata
    PROVE  RegistryOnly' /\ StickyStep
<1>1. TypeOK /\ localNum \in Nodes \cup {NoNode} /\ RecOf(localNum) \in Rec /\ todo \in Seq(Calls)
  BY RecOfType DEF RegistryOnly, TypeOK
<1>2. /\ Packet /\ pendingFw' = TRUE /\ rows' = rows /\ writes' = writes /\ clearing' = clearing
      /\ localNum' = localNum /\ told' = told /\ todo' = todo
      /\ Amend(localNum, RecOf(localNum)) \/ UNCHANGED <<nodes, unread>>
  BY DEF Metadata, SetFirmwareVersion
<1>3. CountsOK' /\ boots' = boots
  BY <1>1, <1>2, Counted
<1> QED BY <1>1, <1>2, <1>3, AmendKeeps

(* The mesh packets: texts, detections, reports and the others.            *)
LEMMA TrafficKeeps ==
    ASSUME RegistryOnly, NEW n \in Nodes,
           \/ \E class \in TextClasses : TextPacket(n, class)
           \/ DetectionPacket(n) \/ OtherPacket(n)
           \/ \E op \in {"HandleTelemetry", "HandleEnvironment", "HandlePosition"} : Report(n, op)
    PROVE  RegistryOnly' /\ StickyStep
<1>1. /\ TypeOK /\ pendingFw \in BOOLEAN
      /\ localNum \in Nodes \cup {NoNode} /\ told \in Nodes \cup {NoNode}
  BY DEF RegistryOnly, TypeOK
<1>2. ASSUME NEW calls \in Seq(Calls), MeshPacket(n, calls)
      PROVE  RegistryOnly' /\ StickyStep
  <2>1. /\ Packet /\ TouchNode(n) /\ todo' = calls
        /\ rows' = rows /\ writes' = writes /\ clearing' = clearing
        /\ pendingFw' = pendingFw /\ localNum' = localNum /\ told' = told
    BY <1>2 DEF MeshPacket, dispatcher
  <2>2. CountsOK' /\ boots' = boots
    BY <1>1, <2>1, Counted
  <2>3. LocalPinned'
    BY <2>1 DEF RegistryOnly, LocalPinned
  <2> QED BY <1>1, <2>1, <2>2, <2>3, TouchKeeps
<1>4. ASSUME NEW class \in TextClasses, TextPacket(n, class)
      PROVE  RegistryOnly' /\ StickyStep
  <2> DEFINE output == class \in {"gate", "sensor"}
             first == CASE class = "gate" -> Classify(n, "gatesensor")
                        [] class \in {"sensor", "prefix"} -> Classify(n, "antihunter")
                        [] OTHER -> Call("GetLongName", n)
             second == When(class = "status", Call("HandleStatusRequest", n))
             third == When(class # "status", Call("HandleAntihunterHeartbeat", n))
             fourth == When(output, Call("SetLastMessage", n))
             fifth == When(output, Call("SetSensorShortID", n))
  <2>1. first \in Calls
    <3>1. /\ Classify(n, "gatesensor") \in Calls /\ Classify(n, "antihunter") \in Calls
          /\ Call("GetLongName", n) \in Calls
      BY CallTypes DEF Types, Sensors, Simple
    <3> QED BY <3>1
  <2>2. /\ second \in Seq(Calls) /\ third \in Seq(Calls)
        /\ fourth \in Seq(Calls) /\ fifth \in Seq(Calls)
    <3>1. /\ Call("HandleStatusRequest", n) \in Calls /\ Call("SetLastMessage", n) \in Calls
          /\ Call("HandleAntihunterHeartbeat", n) \in Calls /\ Call("SetSensorShortID", n) \in Calls
      BY CallTypes DEF Simple
    <3> QED BY <3>1, WhenType, Zenon
  <2>3. MeshPacket(n, <<first>> \o second \o third \o fourth \o fifth)
    BY <1>4 DEF TextPacket
  <2> HIDE DEF first, second, third, fourth, fifth
  <2>4. <<first>> \o second \in Seq(Calls)
    BY <2>1, <2>2, ConcatProperties
  <2>5. <<first>> \o second \o third \in Seq(Calls)
    BY <2>2, <2>4, ConcatProperties
  <2>6. <<first>> \o second \o third \o fourth \in Seq(Calls)
    BY <2>2, <2>5, ConcatProperties
  <2>7. <<first>> \o second \o third \o fourth \o fifth \in Seq(Calls)
    BY <2>2, <2>6, ConcatProperties
  <2> QED BY <1>2, <2>3, <2>7
<1>5. CASE DetectionPacket(n)
  <2>1. <<Classify(n, "antihunter")>> \in Seq(Calls)
    BY CallTypes DEF Types, Sensors
  <2> QED BY <1>2, <1>5, <2>1 DEF DetectionPacket
<1>6. CASE OtherPacket(n)
  <2>1. <<>> \in Seq(Calls)
    OBVIOUS
  <2> QED BY <1>2, <1>6, <2>1 DEF OtherPacket
<1>7. ASSUME NEW op \in {"HandleTelemetry", "HandleEnvironment", "HandlePosition"}, Report(n, op)
      PROVE  RegistryOnly' /\ StickyStep
  <2> DEFINE late == When(op = "HandleTelemetry" /\ n = localNum, Call("deliverMetricsResponse", n))
  <2>1. late \in Seq(Calls)
    <3>1. Call("deliverMetricsResponse", n) \in Calls
      BY CallTypes DEF Simple
    <3> QED BY <3>1, WhenType, Zenon
  <2>2. <<Call(op, n)>> \in Seq(Calls)
    BY CallTypes DEF Simple
  <2>3. MeshPacket(n, <<Call(op, n)>> \o late)
    BY <1>7 DEF Report
  <2> HIDE DEF late
  <2>4. <<Call(op, n)>> \o late \in Seq(Calls)
    BY <2>1, <2>2, ConcatProperties
  <2> QED BY <1>2, <2>3, <2>4
<1> QED BY <1>4, <1>5, <1>6, <1>7

(* A sensor keeps its type under ClassifyNode.                             *)
LEMMA ClassifiedType ==
    ASSUME NEW t \in Types, NEW target \in Types
    PROVE  Classified(t, target) \in Types /\ (t \in Sensors => Classified(t, target) = t)
BY DEF Classified

(* The calls that follow a packet's first one.                             *)
LEMMA CallKeeps ==
    ASSUME RegistryOnly, CallStep
    PROVE  RegistryOnly' /\ StickyStep
<1>1. /\ TypeOK /\ pendingFw \in BOOLEAN
      /\ localNum \in Nodes \cup {NoNode} /\ told \in Nodes \cup {NoNode}
  BY DEF RegistryOnly, TypeOK
<1>2. todo # <<>>
  BY DEF CallStep, HandlePosition, HandleTelemetry, HandleAntihunterHeartbeat, ClassifyNode,
         SetFirmware, MarkLocal, GetLongName, Calling
<1>3. /\ Subject \in Nodes /\ Tail(todo) \in Seq(Calls)
      /\ Head(todo).op = "ClassifyNode" => Head(todo).arg \in Types
  BY <1>1, <1>2, CallFacts
<1>4. RecOf(Subject) \in Rec /\ RecOf(Subject).type \in Types
  BY <1>1, RecOfType DEF Rec
<1>5. ASSUME Return
      PROVE  /\ todo' \in Seq(Calls) /\ CountsOK' /\ LocalPinned' /\ boots' = boots
             /\ rows' = rows /\ writes' = writes /\ clearing' = clearing
             /\ pendingFw' = pendingFw /\ localNum' = localNum /\ told' = told
  <2>1. UNCHANGED counts /\ todo' = Tail(todo)
        /\ rows' = rows /\ writes' = writes /\ clearing' = clearing
        /\ pendingFw' = pendingFw /\ localNum' = localNum /\ told' = told
    BY <1>5 DEF Return, dispatcher
  <2>2. CountsOK' /\ boots' = boots
    BY <1>1, <2>1, Counted
  <2> QED BY <1>3, <2>1, <2>2 DEF RegistryOnly, LocalPinned
<1>6. CASE HandlePosition
  BY <1>1, <1>3, <1>5, <1>6, TouchKeeps DEF HandlePosition
<1>7. CASE HandleTelemetry
  <2>1. Return /\ Put(Subject, RecOf(Subject)) /\ Persist(Subject)
    BY <1>7 DEF HandleTelemetry
  <2> QED BY <1>1, <1>3, <1>4, <1>5, <2>1, PutKeeps
<1>8. CASE HandleAntihunterHeartbeat
  <2>1. Return
    BY <1>8 DEF HandleAntihunterHeartbeat
  <2>2. CASE Put(Subject, RecOf(Subject)) /\ (Persist(Subject) \/ unread' = unread)
    BY <1>1, <1>3, <1>4, <1>5, <2>1, <2>2, PutKeeps
  <2>3. CASE UNCHANGED <<nodes, unread>>
    BY <1>1, <1>3, <1>4, <1>5, <2>1, <2>3, AmendKeeps
  <2> QED BY <1>8, <2>2, <2>3 DEF HandleAntihunterHeartbeat
<1>9. CASE ClassifyNode
  <2> DEFINE t == Classified(RecOf(Subject).type, Head(todo).arg)
             r == [RecOf(Subject) EXCEPT !.type = t]
  <2>1. Return /\ Head(todo).op = "ClassifyNode"
        /\ (Amend(Subject, r) \/ UNCHANGED <<nodes, unread>>)
    BY <1>9 DEF ClassifyNode, Calling
  <2>2. t \in Types /\ (RecOf(Subject).type \in Sensors => t = RecOf(Subject).type)
    BY <1>3, <1>4, <2>1, ClassifiedType
  <2> HIDE DEF t
  <2>3. r \in Rec /\ r.type = t
    BY <1>4, <2>2 DEF Rec
  <2> HIDE DEF r
  <2> QED BY <1>1, <1>3, <1>5, <2>1, <2>2, <2>3, AmendKeeps
<1>10. CASE SetFirmware
  <2>1. Return /\ (Amend(Subject, RecOf(Subject)) \/ UNCHANGED <<nodes, unread>>)
    BY <1>10 DEF SetFirmware, SetFirmwareVersion
  <2> QED BY <1>1, <1>3, <1>4, <1>5, <2>1, AmendKeeps
<1>11. CASE MarkLocal
  <2> DEFINE r == [RecOf(Subject) EXCEPT !.type = "gotailme", !.local = TRUE]
  <2>1. Return /\ Amend(Subject, r)
    BY <1>11 DEF MarkLocal
  <2>2. r \in Rec /\ r.local
    BY <1>4 DEF Rec, Types
  <2> HIDE DEF r
  <2> QED BY <1>1, <1>3, <1>5, <2>1, <2>2, AmendKeeps
<1>12. CASE GetLongName
  <2> DEFINE next == Classify(Subject, IF RecOf(Subject).name = "GoTailMe" THEN "gotailme" ELSE "operator")
  <2>1. next \in Calls
    BY <1>3, CallTypes DEF Types
  <2>2. todo' = <<next>> \o Tail(todo) /\ UNCHANGED <<registry, dispatcher, boots>> /\ UNCHANGED counts
    BY <1>12 DEF GetLongName, counts
  <2> HIDE DEF next
  <2>3. todo' \in Seq(Calls)
    BY <1>3, <2>1, <2>2, ConcatProperties
  <2>4. CountsOK'
    BY <1>1, <2>2, Counted
  <2> QED BY <2>2, <2>3, <2>4, RegistryStands
<1> QED BY <1>6, <1>7, <1>8, <1>9, <1>10, <1>11, <1>12 DEF CallStep

(* Rename, remove and clear.                                               *)
LEMMA OperatorKeeps ==
    ASSUME RegistryOnly, OperatorStep
    PROVE  RegistryOnly' /\ StickyStep
<1>1. TypeOK /\ pendingFw \in BOOLEAN /\ localNum \in Nodes \cup {NoNode}
      /\ told \in Nodes \cup {NoNode} /\ clearing \in BOOLEAN /\ todo \in Seq(Calls)
  BY DEF RegistryOnly, TypeOK
<1>2. ASSUME NEW n \in Nodes, NEW name \in Names \ {Blank}, UpdateLongName(n, name)
      PROVE  RegistryOnly' /\ StickyStep
  <2> DEFINE r == [nodes[n] EXCEPT !.name = name]
  <2>1. RecOf(n) \in Rec /\ nodes[n] = RecOf(n)
    BY <1>1, <1>2, RecOfType DEF UpdateLongName
  <2>2. r \in Rec /\ r.type = RecOf(n).type
    BY <2>1 DEF Rec
  <2>3. Put(n, r) /\ Request /\ Persist(n) /\ rows' = rows /\ writes' = writes
        /\ clearing' = clearing /\ todo' = todo
        /\ pendingFw' = pendingFw /\ localNum' = localNum /\ told' = told
    BY <1>2 DEF UpdateLongName, dispatcher
  <2> HIDE DEF r
  <2>5. CountsOK' /\ boots' = boots
    BY <1>1, <2>3, Counted
  <2>4. LocalPinned'
    BY <2>3 DEF RegistryOnly, LocalPinned
  <2> QED BY <1>1, <2>2, <2>3, <2>4, <2>5, PutKeeps
<1>3. ASSUME NEW n \in Nodes, Remove(n)
      PROVE  RegistryOnly' /\ StickyStep
  <2>1. /\ {n} \in SUBSET DOMAIN nodes /\ nodes' = Without({n}) /\ Detach({n}) /\ Request
        /\ rows' = rows /\ clearing' \in BOOLEAN /\ UNCHANGED dispatcher /\ todo' = todo
    BY <1>1, <1>3 DEF Remove, Known
  <2> QED BY <1>1, <2>1, Counted, DetachKeeps
<1>4. CASE ClearAll
  <2>1. /\ nodes' = Without(DOMAIN nodes) /\ Detach(DOMAIN nodes) /\ Request
        /\ rows' = rows /\ clearing' \in BOOLEAN /\ UNCHANGED dispatcher /\ todo' = todo
    BY <1>4 DEF ClearAll
  <2> QED BY <1>1, <2>1, Counted, DetachKeeps
<1>5. CASE ClearRows
  <2>1. /\ nodes' = nodes /\ unread' = unread /\ writes' = writes /\ packets' = packets /\ boots' = boots
        /\ requests' = requests /\ todo' = todo
        /\ pendingFw' = pendingFw /\ localNum' = localNum /\ told' = told
        /\ clearing' = FALSE /\ rows' = Nothing
    BY <1>5 DEF ClearRows, dispatcher, counts
  <2>2. IsPartial(Nothing, Rec)
    BY DEF IsPartial, Nothing
  <2>3. TypeOK'
    BY <1>1, <2>1, <2>2 DEF TypeOK, IsPartial
  <2> QED BY <2>1, <2>3 DEF RegistryOnly, LocalPinned, WritersKnown, Known, StickyStep
<1> QED BY <1>2, <1>3, <1>4, <1>5 DEF OperatorStep

(* The writers and the table.                                              *)
LEMMA StoreKeeps ==
    ASSUME RegistryOnly, StoreStep
    PROVE  RegistryOnly' /\ StickyStep
<1>1. /\ TypeOK /\ unread \in [Nodes -> 0 .. 2] /\ writes \in [Nodes -> SUBSET Rec]
      /\ IsPartial(rows, Rec)
  BY DEF RegistryOnly, TypeOK
<1>2. ASSUME NEW n \in Nodes, PersistRead(n)
      PROVE  RegistryOnly' /\ StickyStep
  <2>1. unread[n] > 0 /\ unread' = [unread EXCEPT ![n] = @ - 1]
        /\ writes' = [writes EXCEPT ![n] = @ \cup {Row(nodes[n])}]
        /\ nodes' = nodes /\ rows' = rows /\ clearing' = clearing /\ packets' = packets
        /\ requests' = requests /\ todo' = todo
        /\ boots' = boots /\ pendingFw' = pendingFw /\ localNum' = localNum /\ told' = told
    BY <1>2 DEF PersistRead, dispatcher, counts
  <2>2. Row(nodes[n]) \in Rec
    <3>1. nodes[n] \in Rec
      BY <1>1, <2>1, RecOfType DEF RegistryOnly, WritersKnown, Known
    <3> QED BY <3>1 DEF Row, Rec
  <2>3. unread' \in [Nodes -> 0 .. 2] /\ \A m \in Nodes : unread'[m] > 0 => unread[m] > 0
    BY <1>1, <2>1
  <2>4. writes' \in [Nodes -> SUBSET Rec]
    BY <1>1, <2>1, <2>2
  <2>5. TypeOK'
    BY <1>1, <2>1, <2>3, <2>4 DEF TypeOK, IsPartial
  <2> QED BY <2>1, <2>3, <2>5 DEF RegistryOnly, LocalPinned, WritersKnown, Known, StickyStep
<1>3. ASSUME NEW n \in Nodes, NEW r \in writes[n], PersistWrite(n, r)
      PROVE  RegistryOnly' /\ StickyStep
  <2> DEFINE u == Upsert(IF n \in DOMAIN rows THEN rows[n] ELSE NewRec, r)
  <2>1. writes' = [writes EXCEPT ![n] = @ \ {r}]
        /\ rows' = [m \in DOMAIN rows \cup {n} |-> IF m = n THEN u ELSE rows[m]]
        /\ nodes' = nodes /\ unread' = unread /\ clearing' = clearing /\ packets' = packets
        /\ requests' = requests /\ todo' = todo
        /\ boots' = boots /\ pendingFw' = pendingFw /\ localNum' = localNum /\ told' = told
    BY <1>3 DEF PersistWrite, dispatcher, counts
  <2>2. u \in Rec
    <3> DEFINE old == IF n \in DOMAIN rows THEN rows[n] ELSE NewRec
    <3>1. NewRec \in Rec
      BY DEF NewRec, Rec, Types, Names
    <3>2. old \in Rec /\ r \in Rec
      BY <1>1, <3>1 DEF IsPartial
    <3>3. u = Upsert(old, r)
      OBVIOUS
    <3> HIDE DEF old, u
    <3>4. /\ old.type \in Types /\ r.type \in Types /\ old.name \in Names /\ r.name \in Names
      BY <3>2 DEF Rec
    <3> QED BY <3>3, <3>4 DEF Upsert, Rec
  <2> HIDE DEF u
  <2>3. IsPartial(rows', Rec)
    BY <1>1, <2>1, <2>2 DEF IsPartial
  <2>4. writes' \in [Nodes -> SUBSET Rec]
    BY <1>1, <2>1
  <2>5. TypeOK'
    BY <1>1, <2>1, <2>3, <2>4 DEF TypeOK, IsPartial
  <2> QED BY <2>1, <2>5 DEF RegistryOnly, LocalPinned, WritersKnown, Known, StickyStep
<1> QED BY <1>2, <1>3 DEF StoreStep

(* Load after a restart: nothing is pinned and no writer is left.          *)
LEMMA RestartKeeps ==
    ASSUME RegistryOnly, Restart
    PROVE  RegistryOnly' /\ StickyStep
<1>1. TypeOK /\ boots \in 0 .. MaxRestarts /\ IsPartial(rows, Rec)
  BY DEF RegistryOnly, TypeOK
<1>2. /\ boots < MaxRestarts /\ boots' = boots + 1 /\ nodes' = rows /\ rows' = rows
      /\ unread' = [n \in Nodes |-> 0] /\ writes' = [n \in Nodes |-> {}] /\ clearing' = FALSE
      /\ localNum' = NoNode /\ pendingFw' = FALSE /\ told' = NoNode /\ packets' = packets
      /\ requests' = requests /\ todo' = <<>>
  BY DEF Restart
<1>3. boots' \in 0 .. MaxRestarts /\ boots' # boots
  BY <1>1, <1>2, CountAssumption
<1>4. unread' \in [Nodes -> 0 .. 2] /\ \A n \in Nodes : unread'[n] = 0
  BY <1>2
<1>5. writes' \in [Nodes -> SUBSET Rec]
  BY <1>2
<1>8. <<>> \in Seq(Calls)
  OBVIOUS
<1>6. TypeOK'
  BY <1>1, <1>2, <1>3, <1>4, <1>5, <1>8 DEF TypeOK, IsPartial
<1>7. WritersKnown' /\ LocalPinned'
  BY <1>2, <1>4 DEF WritersKnown, LocalPinned
<1> QED BY <1>3, <1>6, <1>7 DEF RegistryOnly, StickyStep

-----------------------------------------------------------------------------
(* One step of the whole: the registry and the broadcaster.                *)

(* The broadcaster's own variables.                                        *)
LEMMA StatusTypesKept ==
    ASSUME StatusTypes, [Next]_allVars
    PROVE  StatusTypes'
<1>1. /\ trigger \in BOOLEAN /\ owed \in BOOLEAN /\ enabled \in BOOLEAN
      /\ worker \in {"idle", "started", "query", "send"}
      /\ metrics \in {"none", "waiting", "answered"}
  BY DEF StatusTypes
<1>2. CASE UNCHANGED statusVars
  BY <1>1, <1>2 DEF statusVars, StatusTypes
<1>3. CASE RestartAll
  BY <1>1, <1>3 DEF RestartAll, StatusTypes
<1>4. CASE HandleStatusRequest \/ DeliverMetrics
  BY <1>1, <1>4 DEF HandleStatusRequest, DeliverMetrics, StatusTypes
<1>5. CASE TriggerBroadcast \/ ToggleReplies
  BY <1>1, <1>5 DEF TriggerBroadcast, ToggleReplies, StatusTypes
<1>6. CASE Worker
  BY <1>1, <1>6 DEF Worker, StartBroadcast, SkipBroadcast, QueryRadio, QueryDone, SendFrame, StatusTypes
<1>7. CASE UNCHANGED allVars
  BY <1>2, <1>7 DEF allVars
<1> QED BY <1>2, <1>3, <1>4, <1>5, <1>6, <1>7 DEF Next

(* The registry's part of every step.                                      *)
LEMMA RegistryKept ==
    ASSUME RegistryOnly, [Next]_allVars
    PROVE  RegistryOnly' /\ StickyStep
<1>1. CASE PacketStep
  BY <1>1, MyInfoKeeps, NodeInfoKeeps, MetadataKeeps, TrafficKeeps DEF PacketStep
<1>2. CASE CallStep
  BY <1>2, CallKeeps
<1>3. CASE OperatorStep
  BY <1>3, OperatorKeeps
<1>4. CASE StoreStep
  BY <1>4, StoreKeeps
<1>5. CASE RestartAll
  BY <1>5, RestartKeeps DEF RestartAll
<1>6. TypeOK /\ todo \in Seq(Calls)
  BY DEF RegistryOnly, TypeOK
<1>7. CASE HandleStatusRequest \/ DeliverMetrics
  <2>1. /\ todo # <<>> /\ todo' = Tail(todo) /\ UNCHANGED counts
        /\ UNCHANGED <<registry, dispatcher>>
    BY <1>7 DEF HandleStatusRequest, DeliverMetrics, Calling, Return, registry
  <2>2. todo' \in Seq(Calls) /\ CountsOK' /\ boots' = boots
    BY <1>6, <2>1, CallFacts, Counted
  <2> QED BY <2>1, <2>2, RegistryStands
<1>8. CASE TriggerBroadcast \/ ToggleReplies
  <2>1. Request /\ UNCHANGED <<registry, todo, dispatcher>>
    BY <1>8 DEF TriggerBroadcast, ToggleReplies
  <2>2. todo' \in Seq(Calls) /\ CountsOK' /\ boots' = boots
    BY <1>6, <2>1, Counted
  <2> QED BY <2>1, <2>2, RegistryStands
<1>9. CASE Worker \/ UNCHANGED allVars
  <2>1. UNCHANGED vars
    BY <1>9 DEF Worker, StartBroadcast, SkipBroadcast, QueryRadio, QueryDone, SendFrame, allVars
  <2>2. UNCHANGED <<registry, todo, dispatcher>> /\ UNCHANGED counts
    BY <2>1 DEF vars, registry, dispatcher, counts
  <2>3. todo' \in Seq(Calls) /\ CountsOK' /\ boots' = boots
    BY <1>6, <2>2, Counted
  <2> QED BY <2>2, <2>3, RegistryStands
<1> QED BY <1>1, <1>2, <1>3, <1>4, <1>5, <1>7, <1>8, <1>9 DEF Next

(* RegistryInv is the two parts.                                           *)
LEMMA Parts == RegistryInv <=> RegistryOnly /\ StatusTypes
BY DEF RegistryInv, RegistryOnly, StatusTypes, StatusTypeOK

-----------------------------------------------------------------------------
(* The theorems.                                                           *)

(* RegistryInv holds in every state.                                       *)
THEOREM Invariant == Spec => []RegistryInv
<1>1. StatusInit => RegistryInv
  <2> SUFFICES ASSUME StatusInit PROVE RegistryInv
    OBVIOUS
  <2>1. IsPartial(Nothing, Rec)
    BY DEF IsPartial, Nothing
  <2>2. /\ unread \in [Nodes -> 0 .. 2] /\ \A n \in Nodes : unread[n] = 0
        /\ writes \in [Nodes -> SUBSET Rec]
    BY DEF StatusInit, Init
  <2>3. TypeOK
    <3>1. /\ nodes = Nothing /\ rows = Nothing /\ clearing = FALSE /\ pendingFw = FALSE
          /\ localNum = NoNode /\ told = NoNode /\ packets = 0 /\ boots = 0
          /\ requests = 0 /\ todo = <<>>
      BY DEF StatusInit, Init
    <3>2. 0 \in 0 .. MaxPackets /\ 0 \in 0 .. MaxRequests /\ 0 \in 0 .. MaxRestarts
      BY CountAssumption
    <3>3. IsPartial(nodes, Rec) /\ IsPartial(rows, Rec)
      BY <2>1, <3>1
    <3>4. <<>> \in Seq(Calls)
      OBVIOUS
    <3> QED BY <2>2, <3>1, <3>2, <3>3, <3>4 DEF TypeOK
  <2>4. LocalPinned /\ WritersKnown
    BY <2>2 DEF StatusInit, Init, LocalPinned, WritersKnown
  <2>5. StatusTypes
    BY DEF StatusInit, StatusTypes
  <2> QED BY <2>3, <2>4, <2>5, Parts DEF RegistryOnly
<1>2. RegistryInv /\ [Next]_allVars => RegistryInv'
  <2> SUFFICES ASSUME RegistryInv, [Next]_allVars PROVE RegistryInv'
    OBVIOUS
  <2>1. RegistryOnly' /\ StatusTypes'
    BY Parts, RegistryKept, StatusTypesKept
  <2> QED BY <2>1 DEF RegistryInv, RegistryOnly, StatusTypes, StatusTypeOK
<1> QED BY <1>1, <1>2, PTL DEF Spec

(* Once the radio has given its number, no NodeInfo, removal, clear or     *)
(* status request makes the dispatcher take another node for it.           *)
THEOREM LocalNumberPinned == Spec => []LocalPinned
<1>1. RegistryInv => LocalPinned
  BY DEF RegistryInv
<1> QED BY <1>1, Invariant, PTL

(* A sensor stays a sensor under every step but a restart, unless it is    *)
(* marked as the local node.                                               *)
THEOREM SensorStays == Spec => SensorSticky
<1>1. RegistryInv /\ [Next]_allVars => [StickyStep]_vars
  BY Parts, RegistryKept
<1> QED BY <1>1, Invariant, PTL DEF Spec, SensorSticky, StickyStep
=============================================================================
