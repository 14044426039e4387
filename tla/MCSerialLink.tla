---------------------------- MODULE MCSerialLink ----------------------------
(* SerialLink for TLC, and the protocol on the link checked on small       *)
(* messages: F's operators are functions, so TLC evaluates the assumptions *)
(* once.                                                                   *)
EXTENDS SerialLink, Sequences

F == INSTANCE Framing

Payloads == UNION {[1 .. n -> {0, F!Start1, F!Start2}] : n \in 0 .. 3}
Garbage == UNION {[1 .. n -> {1, F!Start1, F!Start2}] : n \in 0 .. 3}
Words == {<<0, 0, 0, 0>>, <<1, 2, 0, 0>>, F!BroadcastAddr}
Id == <<7, 0, 0, 0>>
Prefixes(s) == {SubSeq(s, 1, n) : n \in 0 .. Len(s)}

(* A decoder that waits for a start delivers an encoded frame unchanged,   *)
(* whatever came before and wherever the reads split it, and waits again;  *)
(* a payload may hold the start bytes.  An empty frame is dropped.         *)
ASSUME FrameAssumption ==
    \A g \in Garbage, p \in Payloads :
       LET before == F!Feed(F!NewFrameDecoder, g)
           after == F!Feed(before, F!EncodeFrame(p)) IN
       before.state = "start1"
          => /\ after.state = "start1"
             /\ after.frames = before.frames \o (IF p = <<>> THEN <<>> ELSE <<p>>)
             /\ \A part \in Prefixes(F!EncodeFrame(p)) :
                   F!Feed(F!Feed(before, part), F!Rest(F!EncodeFrame(p), Len(part))) = after

(* A stray first start byte costs the frame that follows it.               *)
ASSUME StrayStartAssumption ==
    \A p \in Payloads : F!Feed(F!NewFrameDecoder, <<F!Start1>> \o F!EncodeFrame(p)).frames = <<>>

(* Varints and zigzag numbers decode to what was encoded.                  *)
ASSUME NumberAssumption ==
    /\ \A v \in (0 .. 300) \cup {16383, 16384, 2097151, 2097152} :
          F!DecodeVarint(F!EncodeVarint(v) \o <<5>>) = [n |-> Len(F!EncodeVarint(v)), val |-> v]
    /\ \A v \in -9 .. 9 : F!DecodeZigzag(IF v >= 0 THEN 2 * v ELSE -2 * v - 1) = v

(* What goes out is read back: the packet of a ToRadio.                    *)
Packet(toRadio) == CHOOSE p \in F!Sub(F!DecodeMeshPacket, F!Fields(toRadio, F!AnyWire), 1) : TRUE
Config(toRadio) ==
    LET admin == F!Fields(Packet(toRadio).Data.Payload, F!AnyWire) IN
    CHOOSE c \in F!Sub(F!DecodeConfig, admin, 34) : TRUE

ASSUME RoundTripAssumption ==
    \A to \in Words, n \in {0, 1, 200} :
       /\ \A text \in Payloads :
             LET p == Packet(F!BuildTextMessage(to, text, Id)) IN
             /\ p.To = to /\ p.ID = Id /\ p.WantAck /\ p.HopLimit = 3
             /\ p.Data = [PortNum |-> 1, Payload |-> text, RequestID |-> 0]
       /\ F!DecodePositionPayload(Packet(F!BuildPosition(to, Id, n, Id)).Data.Payload)
             = [LatitudeI |-> to, LongitudeI |-> Id, Altitude |-> n, Time |-> 0, Sats |-> 0]
       /\ \A dm \in F!DecodeTelemetryPayload(Packet(F!BuildDeviceMetrics(n, Id, Id)).Data.Payload).device :
             dm.BatteryLevel = n /\ dm.Voltage = Id
       /\ Config(F!BuildAdminDisplayConfig(to, n, Id)).Display = {[ScreenOnSecs |-> n, FlipScreen |-> FALSE]}
       /\ Config(F!BuildAdminBluetoothConfig(to, n = 1, 2, n, Id)).Bluetooth
             = {[Enabled |-> n = 1, Mode |-> 2, FixedPin |-> n]}
       /\ \A c \in Config(F!BuildAdminPositionConfig(to, n, Id)).Position : c.GPSMode = n
       /\ Packet(F!BuildNodeInfoRequest(to, Id)).To = IF to = <<0, 0, 0, 0>> THEN F!BroadcastAddr ELSE to
       /\ \A b \in {F!BuildAdminShutdown(to, n, Id), F!BuildAdminReboot(to, n, Id),
                    F!BuildAdminNodedbReset(to, Id), F!BuildAdminSetFixedPosition(to, to, Id, n, Id, Id)} :
             Packet(b).To = to /\ Packet(b).Data.PortNum = 6
       /\ Packet(F!BuildTelemetryRequest(to, Id)).Data.Payload = <<>>

(* A truncated frame is refused or reads as a shorter one: no field of the *)
(* rest is made up.                                                        *)
FromRadio(n) ==
    F!LengthDelimited(4, F!VarintField(1, n) \o F!LengthDelimited(2, F!LengthDelimited(4, <<1, 2, 3, 4, 5, 6>>)
                            \o F!VarintField(6, 1)) \o F!LengthDelimited(6, F!VarintField(1, n)))
       \o F!VarintField(7, 1)

ASSUME TruncationAssumption ==
    \A n \in {0, 1, 200} : \A part \in Prefixes(FromRadio(n)) :
       LET all == F!Fields(FromRadio(n), F!AnyWire)  some == F!Fields(part, F!AnyWire) IN
       some = SubSeq(all, 1, Len(some))

ASSUME KindsAssumption ==
    \A n \in {0, 1, 200} :
       LET whole == F!DecodeFromRadio(FromRadio(n)) IN
       /\ ~whole.err /\ whole.Type = "ConfigComplete"
       /\ \A i \in whole.NodeInfo :
             /\ i.Num = n /\ {u.MacAddr : u \in i.User} = {<<1, 2, 3, 4, 5, 6>>}
             /\ {m.BatteryLevel : m \in i.DeviceMetrics} = {n}
       /\ Len(F!Fields(F!BuildHeartbeat \o F!BuildWantConfig, F!AnyWire)) = 2
       /\ F!DecodeFromRadio(F!LengthDelimited(13, F!LengthDelimited(1, <<9>>))).Type = "Metadata"
       /\ \A i \in F!DecodeFromRadio(F!LengthDelimited(3, F!VarintField(1, n))).MyInfo : i.MyNodeNum = n
=============================================================================
