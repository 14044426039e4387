----------------------------- MODULE MeshIngest -----------------------------
(***************************************************************************)
(* How a text packet that the radio hears reaches the services             *)
(* (internal/serial/manager.go, internal/meshtastic/dispatcher.go,         *)
(* internal/chat/service.go).                                              *)
(*                                                                         *)
(* The radio shows one packet several times on the same serial line: as a  *)
(* binary FromRadio frame, as a console echo of its first line, as plain   *)
(* console lines for the rest of it and, for its addressing, as a "Lora    *)
(* RX" line.  The order is the firmware's business, any of them may be     *)
(* missing (a console line that follows a frame in the text buffer is      *)
(* often thrown away as unprintable), and the mesh may repeat the packet.  *)
(* One reader goroutine handles what it reads to the end.                  *)
(***************************************************************************)
EXTENDS TextParser, Integers

CONSTANTS
    Senders,      \* senders
    Self,         \* node number 0: the echo of a message sent from here
    MaxTexts,     \* bound on packets
    Bodies,       \* for each packet, the bodies it may have: sequences of lines
    CacheMax, CacheKeep,  \* pktCache: pruned above the one, down to the other
    MaxRepeats,   \* bound on repeated frames per packet
    MaxAges       \* bound on how often a dedup entry runs out

ASSUME PacketAssumption == Self \notin Senders /\ {MaxTexts, MaxRepeats, MaxAges} \subseteq Nat
ASSUME BodyAssumption ==  \* even an empty text is a line
    /\ DOMAIN Bodies = 1 .. MaxTexts
    /\ \A p \in 1 .. MaxTexts : Bodies[p] \subseteq Seq(Lines) \ {<<>>}
ASSUME CacheAssumption == CacheMax \in Nat /\ CacheKeep \in 0 .. CacheMax

Packets == 1 .. MaxTexts
Broadcast == "broadcast"
Direct == "direct"

(* Mutant: alerts are left off the list.                                   *)
BlockedButAlerts == {"raw", "ble-raw", "target-detected", "tri-data", "tri-final", "tri-complete"}

(* The event kinds the reader drops on the console path because the binary *)
(* path delivers them too.                                                 *)
Blocked == {"raw", "ble-raw", "target-detected", "alert", "tri-data", "tri-final", "tri-complete"}

(* What reaches a service: the kinds with a callback, and the chat.        *)
GatedSinks == {"ble-raw", "target-detected", "alert", "tri-data", "tri-final", "tri-complete", "chat"}
Sinks == GatedSinks \cup {"drone-telemetry", "command-ack", "node-telemetry"}

VARIABLES
    heard,     \* the packets the radio has heard: sender, destination and body
    shown,     \* which of a packet's serial items the reader has read
    repeats,   \* how often a packet's frame was repeated
    dedup,     \* Dispatcher.dedup: is the packet's entry absent, fresh or older than 15 s?
    ages,      \* how often an entry ran out
    pktCache,  \* TextParser.pktCache: packets whose destination is cached
    handled,   \* how often each packet reached each sink
    chatTo     \* the destinations the chat recorded for each packet

ingestVars == <<heard, shown, repeats, dedup, ages, pktCache, handled, chatTo>>

Items == {"meta", "echo", "rest", "frame"}
PacketType == [from : Senders \cup {Self}, to : {Broadcast, Direct}, body : Seq(Lines)]

IngestTypeOK ==
    /\ heard \in Seq(PacketType) /\ Len(heard) <= MaxTexts
    /\ shown \subseteq Packets \X Items
    /\ repeats \in [Packets -> 0 .. MaxRepeats]
    /\ dedup \in [Packets -> {"none", "fresh", "old"}]
    /\ ages \in [Packets -> 0 .. MaxAges]
    /\ pktCache \subseteq DOMAIN heard /\ Cardinality(pktCache) <= CacheMax
    /\ handled \in [Packets -> [Sinks -> Nat]]
    /\ chatTo \in [Packets -> SUBSET {Broadcast, Direct}]

IngestInit ==
    /\ heard = <<>> /\ shown = {}
    /\ repeats = [p \in Packets |-> 0] /\ ages = [p \in Packets |-> 0]
    /\ dedup = [p \in Packets |-> "none"]
    /\ pktCache = {}
    /\ handled = [p \in Packets |-> [k \in Sinks |-> 0]]
    /\ chatTo = [p \in Packets |-> {}]

-----------------------------------------------------------------------------
(* dispatchTextEvent: which sink an event reaches.  hasFrom: is a mesh     *)
(* number known, from the packet or from "from=" on the console line?      *)
(* Telemetry needs one, and a reading.  Kinds without a consumer end here. *)
Reaches(e, hasFrom) ==
    IF e.kind = "node-telemetry" THEN hasFrom /\ e.tag = "reading" ELSE e.kind \in Sinks

(* The places of the events that parsing these lines yields: the line, and *)
(* the event's place among those of the line.                              *)
Places(body, isMeshEcho) ==
    UNION {{i} \X DOMAIN ParseLine(body[i], isMeshEcho) : i \in DOMAIN body}

(* How many events of each kind reach their sink when these lines are      *)
(* parsed and the kinds in "dropped" go no further.                        *)
Dispatched(body, isMeshEcho, hasFrom, dropped) ==
    LET event(at) == ParseLine(body[at[1]], isMeshEcho)[at[2]]
        passed == {at \in Places(body, isMeshEcho) :
                      event(at).kind \notin dropped /\ Reaches(event(at), hasFrom)} IN
    [k \in Sinks |-> Cardinality({at \in passed : event(at).kind = k})]

(* ProcessMeshText parses each line of a received text; a line that is     *)
(* only text, or matches nothing, goes no further.                         *)
ProcessMeshText(body) == Dispatched(body, FALSE, TRUE, {"raw", "text-message"})

Plus(counts, more) == [k \in Sinks |-> counts[k] + more[k]]
OneChat == [k \in Sinks |-> IF k = "chat" THEN 1 ELSE 0]

isDuplicate(p) == dedup[p] = "fresh"

(* handleMeshPacket for a text: the filter, the chat, the parser.          *)
HandleText(p, to, body) ==
    IF isDuplicate(p) THEN UNCHANGED <<dedup, handled, chatTo>>
    ELSE /\ dedup' = [dedup EXCEPT ![p] = "fresh"]
         /\ handled' = [handled EXCEPT ![p] = Plus(Plus(@, OneChat), ProcessMeshText(body))]
         /\ chatTo' = [chatTo EXCEPT ![p] = @ \cup {to}]

-----------------------------------------------------------------------------
Hear(n, to, body) ==
    /\ Len(heard) < MaxTexts /\ body \in Bodies[Len(heard) + 1]
    /\ heard' = Append(heard, [from |-> n, to |-> to, body |-> body])
    /\ UNCHANGED <<shown, repeats, dedup, ages, pktCache, handled, chatTo>>

Read(p, item) ==
    /\ p \in DOMAIN heard /\ <<p, item>> \notin shown
    /\ shown' = shown \cup {<<p, item>>}
    /\ UNCHANGED <<heard, repeats, ages>>

(* Mutant: nothing is pruned.                                              *)
ReadMetaUnpruned(p) ==
    /\ Read(p, "meta")
    /\ pktCache' = pktCache \cup {p}
    /\ UNCHANGED <<dedup, handled, chatTo>>

(* cachePacketMeta: above CacheMax entries, arbitrary ones are deleted     *)
(* until CacheKeep are left, perhaps the one just added.                   *)
ReadMeta(p) ==
    /\ Read(p, "meta")
    /\ LET all == pktCache \cup {p} IN
       IF Cardinality(all) > CacheMax
       THEN \E kept \in SUBSET all : Cardinality(kept) = CacheKeep /\ pktCache' = kept
       ELSE pktCache' = all
    /\ UNCHANGED <<dedup, handled, chatTo>>

(* A structured first line, on the console: what is not blocked.           *)
EchoEvents(p) == Dispatched(<<heard[p].body[1]>>, TRUE, heard[p].from # Self, Blocked)

(* Mutant: the echo of a sensor line takes its packet's dedup entry.       *)
ReadEchoSensorFilters(p) ==
    /\ Read(p, "echo")
    /\ Matched(heard[p].body[1])
    /\ handled' = [handled EXCEPT ![p] = Plus(@, EchoEvents(p))]
    /\ dedup' = [dedup EXCEPT ![p] = "fresh"]
    /\ UNCHANGED <<pktCache, chatTo>>

ReadEchoSensor(p) ==
    /\ Read(p, "echo")
    /\ Matched(heard[p].body[1])
    /\ handled' = [handled EXCEPT ![p] = Plus(@, EchoEvents(p))]
    /\ UNCHANGED <<dedup, pktCache, chatTo>>

(* A plain first line becomes a packet of its own, with the real packet    *)
(* id, the cached destination, and only that line.  The echo of our own    *)
(* message is dropped, after the lookup has consumed the cache entry.      *)
ReadEchoText(p) ==
    /\ Read(p, "echo")
    /\ ~Matched(heard[p].body[1])
    /\ pktCache' = pktCache \ {p}
    /\ IF heard[p].from = Self THEN UNCHANGED <<dedup, handled, chatTo>>
       ELSE HandleText(p, IF p \in pktCache THEN heard[p].to ELSE Broadcast, <<heard[p].body[1]>>)

(* The further lines come without "from=" and without the echo's marks.    *)
ReadRest(p) ==
    /\ Read(p, "rest")
    /\ Len(heard[p].body) > 1
    /\ handled' = [handled EXCEPT ![p] =
                      Plus(@, Dispatched(Tail(heard[p].body), FALSE, FALSE, Blocked))]
    /\ UNCHANGED <<dedup, pktCache, chatTo>>

ReadFrame(p) ==
    /\ Read(p, "frame")
    /\ heard[p].from # Self
    /\ HandleText(p, heard[p].to, heard[p].body)
    /\ UNCHANGED pktCache

RepeatFrame(p) ==
    /\ <<p, "frame">> \in shown /\ repeats[p] < MaxRepeats
    /\ repeats' = [repeats EXCEPT ![p] = @ + 1]
    /\ HandleText(p, heard[p].to, heard[p].body)
    /\ UNCHANGED <<heard, shown, ages, pktCache>>

(* Fifteen seconds pass: the entry no longer counts.                       *)
Age(p) ==
    /\ dedup[p] = "fresh" /\ ages[p] < MaxAges
    /\ dedup' = [dedup EXCEPT ![p] = "old"]
    /\ ages' = [ages EXCEPT ![p] = @ + 1]
    /\ UNCHANGED <<heard, shown, repeats, pktCache, handled, chatTo>>

IngestNext ==
    \/ \E n \in Senders \cup {Self}, to \in {Broadcast, Direct} :
          Len(heard) < MaxTexts /\ \E b \in Bodies[Len(heard) + 1] : Hear(n, to, b)
    \/ \E p \in Packets :
          \/ ReadMeta(p) \/ ReadEchoSensor(p) \/ ReadEchoText(p) \/ ReadRest(p)
          \/ ReadFrame(p) \/ RepeatFrame(p) \/ Age(p)

IngestSpec == IngestInit /\ [][IngestNext]_ingestVars

-----------------------------------------------------------------------------
(* Properties.                                                             *)

(* What one delivery of a packet ought to bring.                           *)
Expected(p) == Plus(ProcessMeshText(heard[p].body), OneChat)

(* The kinds the console path must not double, and the chat, reach their   *)
(* service at most once in each dedup window: neither the echo beside the  *)
(* frame, in either order, nor a repeat adds a second alert, detection,    *)
(* triangulation sample or chat message.                                   *)
GatedOnce ==
    \A p \in DOMAIN heard : LET expected == Expected(p) IN
        \A k \in GatedSinks : handled[p][k] <= (1 + ages[p]) * expected[k]

(* A frame that was read has been delivered in full: every structured      *)
(* event and the chat message, whatever the console showed before it.  The *)
(* exception is a text of several lines that begins with a plain one: the  *)
(* echo of its first line takes the packet's place in the filter.          *)
FrameDelivered ==
    \A p \in DOMAIN heard :
        /\ <<p, "frame">> \in shown
        /\ Matched(heard[p].body[1]) \/ Len(heard[p].body) = 1
        => LET expected == Expected(p) IN \A k \in Sinks : handled[p][k] >= expected[k]
=============================================================================
