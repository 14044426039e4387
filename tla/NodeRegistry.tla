---------------------------- MODULE NodeRegistry ----------------------------
(***************************************************************************)
(* The node registry (internal/nodes/service.go) as the mesh dispatcher    *)
(* (internal/meshtastic/dispatcher.go) drives it, and its nodes table.     *)
(*                                                                         *)
(* One reader goroutine handles packets one at a time, each by a series    *)
(* of calls of the registry that take its lock one by one; HTTP handlers   *)
(* rename, remove and clear nodes between them.  Every change starts a     *)
(* goroutine that reads the live record without the lock and upserts it,   *)
(* in whatever order the database takes them.  A record that was removed   *)
(* from the map keeps the values its writers still have to read.           *)
(*                                                                         *)
(* Kept of a node: its type, its long name and whether it is marked local. *)
(* Short id, firmware, signal, position, telemetry and the online flag are *)
(* left out: a call that sets one of them finds it changed, or not.        *)
(***************************************************************************)
EXTENDS Integers, Sequences, FiniteSets

CONSTANTS
    Nodes,       \* mesh node numbers
    NoNode,      \* node number 0
    Blank,       \* the empty string
    MaxPackets,  \* bound on packets
    MaxRequests, \* bound on operator requests
    MaxRestarts  \* bound on restarts

ASSUME NodeAssumption == NoNode \notin Nodes /\ IsFiniteSet(Nodes) /\ Nodes # {}
ASSUME CountAssumption == {MaxPackets, MaxRequests, MaxRestarts} \subseteq Nat

Sensors == {"antihunter", "gatesensor"}
Types == Sensors \cup {Blank, "operator", "gotailme", "aicam"}
Names == {Blank, "aicam", "GoTailMe", "other"}
Rec == [type : Types, name : Names, local : BOOLEAN]
NewRec == [type |-> Blank, name |-> Blank, local |-> FALSE]

(* A call the reader still has to make: of a method of the registry, or of *)
(* the status broadcaster and the device metrics request (StatusReply).    *)
Simple == {"MarkLocal", "SetFirmwareVersion", "GetLongName", "SetLastMessage", "SetSensorShortID",
           "HandleTelemetry", "HandleEnvironment", "HandlePosition", "HandleAntihunterHeartbeat",
           "HandleStatusRequest", "deliverMetricsResponse"}
Calls == [op : Simple, node : Nodes, arg : {Blank}]
         \cup [op : {"ClassifyNode"}, node : Nodes, arg : Types]

NoUser == "no user"

VARIABLES
    nodes,       \* Service.nodes: the known nodes' records
    rows,        \* the nodes table
    unread,      \* per node, persistNode goroutines that have not read the record (2: or more)
    writes,      \* per node, the values that goroutines have read and not written
    clearing,    \* ClearAll between the map and the table
    todo,        \* the calls the reader has still to make for its packet
    localNum,    \* Dispatcher.localNodeNum
    pendingFw,   \* Dispatcher.pendingFirmware is set
    told,        \* the number in the last MyInfo since the start
    packets, requests, boots

vars == <<nodes, rows, unread, writes, clearing, todo, localNum, pendingFw, told, packets, requests, boots>>
dispatcher == <<localNum, pendingFw, told>>
counts == <<packets, requests, boots>>
registry == <<nodes, rows, unread, writes, clearing>>

IsPartial(f, R) == DOMAIN f \subseteq Nodes /\ \A n \in DOMAIN f : f[n] \in R

TypeOK ==
    /\ IsPartial(nodes, Rec) /\ IsPartial(rows, Rec)
    /\ unread \in [Nodes -> 0 .. 2]
    /\ writes \in [Nodes -> SUBSET Rec]
    /\ clearing \in BOOLEAN /\ pendingFw \in BOOLEAN /\ todo \in Seq(Calls)
    /\ localNum \in Nodes \cup {NoNode} /\ told \in Nodes \cup {NoNode}
    /\ packets \in 0 .. MaxPackets /\ requests \in 0 .. MaxRequests /\ boots \in 0 .. MaxRestarts

Nothing == [n \in {} |-> NewRec]

Init ==
    /\ nodes = Nothing /\ rows = Nothing
    /\ unread = [n \in Nodes |-> 0] /\ writes = [n \in Nodes |-> {}]
    /\ clearing = FALSE /\ todo = <<>>
    /\ localNum = NoNode /\ pendingFw = FALSE /\ told = NoNode
    /\ packets = 0 /\ requests = 0 /\ boots = 0

-----------------------------------------------------------------------------
Known(n) == n \in DOMAIN nodes
RecOf(n) == IF Known(n) THEN nodes[n] ELSE NewRec
Put(n, r) == nodes' = [m \in DOMAIN nodes \cup {n} |-> IF m = n THEN r ELSE nodes[m]]

(* go s.persistNode(node)                                                  *)
Persist(n) == unread' = [unread EXCEPT ![n] = IF @ < 2 THEN @ + 1 ELSE 2]

Packet == packets < MaxPackets /\ packets' = packets + 1 /\ UNCHANGED <<requests, boots>>
Request == requests < MaxRequests /\ requests' = requests + 1 /\ UNCHANGED <<packets, boots>>

(* Sensors and cameras are leaves, a gateway is never made an operator.    *)
Classified(t, target) ==
    IF t \in Sensors \cup {"aicam"} \/ (t = "gotailme" /\ target = "operator") THEN t ELSE target

(* Mutant: gate sensors are forgotten in the exception.                    *)
NodeInfoTypeNoGate(t, name) ==
    IF t = "antihunter" THEN t
    ELSE CASE name = "aicam" -> "aicam"
           [] name = "GoTailMe" -> "gotailme"
           [] OTHER -> IF t = Blank THEN "operator" ELSE t

(* HandleNodeInfo's classification by the long name.                       *)
NodeInfoType(t, name) ==
    IF t \in Sensors THEN t
    ELSE CASE name = "aicam" -> "aicam"
           [] name = "GoTailMe" -> "gotailme"
           [] OTHER -> IF t = Blank THEN "operator" ELSE t

-----------------------------------------------------------------------------
(* HandlePacket: the packet's first call of the registry, and the calls    *)
(* that follow, in the code's order.                                       *)

Call(op, n) == [op |-> op, node |-> n, arg |-> Blank]
Classify(n, type) == [op |-> "ClassifyNode", node |-> n, arg |-> type]
When(b, call) == IF b THEN <<call>> ELSE <<>>

(* TouchNode makes the node, in memory only.                               *)
TouchNode(n) == Put(n, RecOf(n)) /\ UNCHANGED unread

MyInfo(n) ==
    /\ todo = <<>> /\ Packet
    /\ localNum' = n /\ told' = n
    /\ TouchNode(n)
    /\ todo' = <<Classify(n, "gotailme"), Call("MarkLocal", n)>>
               \o When(pendingFw, Call("SetFirmwareVersion", n))
    /\ UNCHANGED <<rows, writes, clearing, pendingFw>>

(* Mutant: every NodeInfo may pin the number.                              *)
FirstNodeInfoAlways(n) == localNum # n

(* localNodeSeen is false: the fallback pins the number.                   *)
FirstNodeInfo(n) == localNum = NoNode

(* HandleNodeInfo: a User part brings the name, an empty one too.          *)
HandleNodeInfo(n, user) ==
    LET r == [RecOf(n) EXCEPT !.name = IF user = NoUser THEN @ ELSE user] IN
    Put(n, [r EXCEPT !.type = NodeInfoType(@, r.name)]) /\ Persist(n)

NodeInfo(n, user) ==
    /\ todo = <<>> /\ Packet
    /\ HandleNodeInfo(n, user)
    /\ localNum' = IF FirstNodeInfo(n) THEN n ELSE localNum
    /\ todo' = When(localNum' = n, Call("MarkLocal", n))
               \o When(localNum' = n /\ pendingFw, Call("SetFirmwareVersion", n))
    /\ UNCHANGED <<rows, writes, clearing, pendingFw, told>>

(* A change of a node that is still there; none, when it was removed.      *)
Amend(n, r) == IF Known(n) THEN Put(n, r) /\ Persist(n) ELSE UNCHANGED <<nodes, unread>>

(* Nothing, when the node has this version.                                *)
SetFirmwareVersion(n) == Amend(n, RecOf(n)) \/ UNCHANGED <<nodes, unread>>

Metadata ==
    /\ todo = <<>> /\ Packet
    /\ pendingFw' = TRUE
    /\ SetFirmwareVersion(localNum)
    /\ UNCHANGED <<rows, writes, clearing, todo, localNum, told>>

MeshPacket(n, calls) ==
    /\ todo = <<>> /\ Packet
    /\ TouchNode(n)
    /\ todo' = calls
    /\ UNCHANGED <<rows, writes, clearing, dispatcher>>

(* A text: what it looks like, or else the sender's name, decides the      *)
(* type; sensor output is stored as the last message.  The calls for a fix *)
(* or a temperature and for a short id are made when the text has one.     *)
TextClasses == {"gate", "sensor", "prefix", "status", "plain"}

TextPacket(n, class) ==
    LET output == class \in {"gate", "sensor"} IN
    MeshPacket(n,
        <<CASE class = "gate" -> Classify(n, "gatesensor")
            [] class \in {"sensor", "prefix"} -> Classify(n, "antihunter")
            [] OTHER -> Call("GetLongName", n)>>
        \o When(class = "status", Call("HandleStatusRequest", n))
        \o When(class # "status", Call("HandleAntihunterHeartbeat", n))
        \o When(output, Call("SetLastMessage", n)) \o When(output, Call("SetSensorShortID", n)))

DetectionPacket(n) == MeshPacket(n, <<Classify(n, "antihunter")>>)

(* A position, environment or device metrics; the latter of the attached   *)
(* radio also answer a request.                                            *)
Report(n, op) ==
    MeshPacket(n, <<Call(op, n)>>
                  \o When(op = "HandleTelemetry" /\ n = localNum, Call("deliverMetricsResponse", n)))

OtherPacket(n) == MeshPacket(n, <<>>)

-----------------------------------------------------------------------------
(* The calls: each takes the registry's lock once.                         *)

Calling(ops) == todo # <<>> /\ Head(todo).op \in ops
Subject == Head(todo).node
Return == todo' = Tail(todo) /\ UNCHANGED <<rows, writes, clearing, dispatcher, counts>>

HandlePosition ==
    /\ Calling({"HandlePosition"}) /\ Return
    /\ TouchNode(Subject)

(* These make the node and store it.                                       *)
HandleTelemetry ==
    /\ Calling({"HandleTelemetry", "HandleEnvironment", "SetLastMessage"}) /\ Return
    /\ Put(Subject, RecOf(Subject)) /\ Persist(Subject)

(* Made when the text gives a reason, these make the node, and store it    *)
(* when they have something new.                                           *)
HandleAntihunterHeartbeat ==
    /\ Calling({"HandleAntihunterHeartbeat", "SetSensorShortID"}) /\ Return
    /\ \/ Put(Subject, RecOf(Subject)) /\ (Persist(Subject) \/ UNCHANGED unread)
       \/ UNCHANGED <<nodes, unread>>

ClassifyNode ==
    LET t == Classified(RecOf(Subject).type, Head(todo).arg) IN
    /\ Calling({"ClassifyNode"}) /\ Return
    /\ IF t = RecOf(Subject).type THEN UNCHANGED <<nodes, unread>>
       ELSE Amend(Subject, [RecOf(Subject) EXCEPT !.type = t])

SetFirmware == Calling({"SetFirmwareVersion"}) /\ Return /\ SetFirmwareVersion(Subject)

MarkLocal ==
    /\ Calling({"MarkLocal"}) /\ Return
    /\ Amend(Subject, [RecOf(Subject) EXCEPT !.type = "gotailme", !.local = TRUE])

(* A plain text: the name that is known now decides.                       *)
GetLongName ==
    /\ Calling({"GetLongName"})
    /\ todo' = <<Classify(Subject, IF RecOf(Subject).name = "GoTailMe" THEN "gotailme" ELSE "operator")>>
               \o Tail(todo)
    /\ UNCHANGED <<registry, dispatcher, counts>>

-----------------------------------------------------------------------------
(* The HTTP handlers.                                                      *)

UpdateLongName(n, name) ==
    /\ Request /\ Known(n)
    /\ Put(n, [nodes[n] EXCEPT !.name = name])
    /\ Persist(n)
    /\ UNCHANGED <<rows, writes, clearing, todo, dispatcher>>

Without(gone) == [m \in DOMAIN nodes \ gone |-> nodes[m]]

(* The columns; is_local is none.                                          *)
Row(r) == [r EXCEPT !.local = FALSE]

(* What a writer will read of a record that has left the map.              *)
Detach(gone) ==
    /\ writes' = [m \in Nodes |-> IF m \in gone /\ unread[m] > 0
                                  THEN writes[m] \cup {Row(nodes[m])} ELSE writes[m]]
    /\ unread' = [m \in Nodes |-> IF m \in gone THEN 0 ELSE unread[m]]

(* Remove leaves the row: the node is back after the next restart.         *)
Remove(n) ==
    /\ Request /\ Known(n)
    /\ nodes' = Without({n}) /\ Detach({n})
    /\ UNCHANGED <<rows, clearing, todo, dispatcher>>

ClearAll ==
    /\ Request /\ ~clearing
    /\ nodes' = Without(DOMAIN nodes) /\ Detach(DOMAIN nodes)
    /\ clearing' = TRUE
    /\ UNCHANGED <<rows, todo, dispatcher>>

ClearRows ==
    /\ clearing
    /\ rows' = Nothing /\ clearing' = FALSE
    /\ UNCHANGED <<nodes, unread, writes, todo, dispatcher, counts>>

-----------------------------------------------------------------------------
(* persistNode and Load.                                                   *)

PersistRead(n) ==
    /\ unread[n] > 0
    /\ unread' = [unread EXCEPT ![n] = @ - 1]
    /\ writes' = [writes EXCEPT ![n] = @ \cup {Row(nodes[n])}]
    /\ UNCHANGED <<nodes, rows, clearing, todo, dispatcher, counts>>

(* Empty values do not overwrite.                                          *)
Upsert(old, r) ==
    [type |-> IF r.type = Blank THEN old.type ELSE r.type,
     name |-> IF r.name = Blank THEN old.name ELSE r.name,
     local |-> FALSE]

PersistWrite(n, r) ==
    /\ r \in writes[n]
    /\ writes' = [writes EXCEPT ![n] = @ \ {r}]
    /\ rows' = [m \in DOMAIN rows \cup {n} |->
                   IF m = n THEN Upsert(IF n \in DOMAIN rows THEN rows[n] ELSE NewRec, r) ELSE rows[m]]
    /\ UNCHANGED <<nodes, unread, clearing, todo, dispatcher, counts>>

(* The process ends and starts again: Load.                                *)
Restart ==
    /\ boots < MaxRestarts
    /\ boots' = boots + 1
    /\ nodes' = rows
    /\ unread' = [n \in Nodes |-> 0] /\ writes' = [n \in Nodes |-> {}]
    /\ clearing' = FALSE /\ todo' = <<>>
    /\ localNum' = NoNode /\ pendingFw' = FALSE /\ told' = NoNode
    /\ UNCHANGED <<rows, packets, requests>>

PacketStep ==
    \/ Metadata
    \/ \E n \in Nodes :
          \/ MyInfo(n) \/ DetectionPacket(n) \/ OtherPacket(n)
          \/ \E user \in Names \cup {NoUser} : NodeInfo(n, user)
          \/ \E class \in TextClasses : TextPacket(n, class)
          \/ \E op \in {"HandleTelemetry", "HandleEnvironment", "HandlePosition"} : Report(n, op)

CallStep ==
    \/ HandlePosition \/ HandleTelemetry \/ HandleAntihunterHeartbeat
    \/ ClassifyNode \/ SetFirmware \/ MarkLocal \/ GetLongName

OperatorStep ==
    \/ \E n \in Nodes : Remove(n) \/ \E name \in Names \ {Blank} : UpdateLongName(n, name)
    \/ ClearAll \/ ClearRows

StoreStep == \E n \in Nodes : PersistRead(n) \/ \E r \in writes[n] : PersistWrite(n, r)

-----------------------------------------------------------------------------
(* Properties.                                                             *)

(* A node recognised as a sensor stays one, whatever NodeInfo, chat text   *)
(* or detection arrives later, until it is removed, the process restarts   *)
(* or it is marked as the local node, by the radio's MyInfo or by the      *)
(* guess from the first NodeInfo: commands are addressed by type.          *)
SensorSticky ==
    [][boots' = boots =>
          \A n \in DOMAIN nodes \cap DOMAIN nodes' :
              nodes[n].type \in Sensors => nodes'[n].type = nodes[n].type \/ nodes'[n].local]_vars

(* "Pin localNodeNum here so a later NodeInfo arriving out-of-order can't  *)
(* be mis-identified as us" (dispatcher.go, MyInfo): the number that picks *)
(* the local admin path is the one the radio itself gave, in whatever      *)
(* order MyInfo, NodeInfo, removals and clears come.                       *)
LocalPinned == told # NoNode => localNum = told
=============================================================================
