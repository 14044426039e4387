------------------------------ MODULE Framing ------------------------------
(***************************************************************************)
(* The serial protocol of the radio: internal/serial/framing.go and        *)
(* encode.go, and the payload decoders of internal/meshtastic/dispatcher.go *)
(* that repeat its loop.  Bytes are numbers below 256, messages sequences  *)
(* of them; strings and payloads stay bytes, floats their four bytes.      *)
(*                                                                         *)
(* Every decoder in the code is one loop over tag, wire type and value     *)
(* that stops at the first thing it cannot read and returns what it has.   *)
(* The loop is Fields here; a decoder says which fields it keeps.          *)
(***************************************************************************)
EXTENDS Integers, Sequences, SequencesExt

Start1 == 148
Start2 == 195
MaxFrameLen == 512

-----------------------------------------------------------------------------
(* FrameDecoder.  A byte that is not the one waited for is dropped, with   *)
(* the start of a frame before it.                                         *)
NewFrameDecoder == [state |-> "start1", len |-> 0, buf |-> <<>>, frames |-> <<>>]

FeedByte(d, b) ==
    CASE d.state = "start1" ->
            IF b = Start1 THEN [d EXCEPT !.state = "start2"] ELSE d
      [] d.state = "start2" ->
            IF b = Start2 THEN [d EXCEPT !.state = "msb", !.buf = <<>>] ELSE [d EXCEPT !.state = "start1"]
      [] d.state = "msb" -> [d EXCEPT !.state = "lsb", !.len = 256 * b]
      [] d.state = "lsb" ->
            LET len == d.len + b IN
            [d EXCEPT !.len = len, !.state = IF len \in 1 .. MaxFrameLen THEN "payload" ELSE "start1"]
      [] d.state = "payload" ->
            LET buf == Append(d.buf, b) IN
            IF Len(buf) < d.len THEN [d EXCEPT !.buf = buf]
            ELSE [d EXCEPT !.state = "start1", !.buf = buf, !.frames = Append(@, buf)]

Feed(d, data) == FoldLeft(FeedByte, d, data)

(* nil for a payload that is too long.                                     *)
EncodeFrame(payload) ==
    IF Len(payload) > MaxFrameLen THEN <<>>
    ELSE <<Start1, Start2, Len(payload) \div 256, Len(payload) % 256>> \o payload

-----------------------------------------------------------------------------
(* Varints: seven bits a byte, the high bit on all but the last; at most   *)
(* ten bytes are read.  n is the number of bytes used, 0 for none.         *)
EncodeVarint(val) ==
    LET n == CHOOSE k \in 1 .. 5 : val < 128 ^ k /\ (k > 1 => val >= 128 ^ (k - 1)) IN
    [i \in 1 .. n |-> ((val \div 128 ^ (i - 1)) % 128) + (IF i < n THEN 128 ELSE 0)]

DecodeVarint(data) ==
    LET ends == {i \in DOMAIN data : i <= 10 /\ data[i] < 128}
        n == IF ends = {} THEN 0 ELSE CHOOSE i \in ends : \A j \in ends : i <= j IN
    [n |-> n, val |-> FoldRight(LAMBDA b, v : (b % 128) + 128 * v, SubSeq(data, 1, n), 0)]

(* sint32: 0, -1, 1, -2, ...                                               *)
DecodeZigzag(v) == IF v % 2 = 0 THEN v \div 2 ELSE -(v \div 2) - 1

Rest(data, n) == SubSeq(data, n + 1, Len(data))

(* One value: how many bytes it takes, and what it is.  Fixed 32 and 64    *)
(* are kept as bytes; a length past the end is truncated.  skipField reads *)
(* the same ranges; past the end, the loop that called it ends.            *)
Value(data, wire) ==
    LET v == DecodeVarint(data)
        upTo(k) == IF k <= Len(data) THEN k ELSE Len(data)
        fixed(k) == [ok |-> Len(data) >= k, n |-> k, val |-> SubSeq(data, 1, upTo(k))] IN
    CASE wire = 0 -> [ok |-> v.n > 0, n |-> v.n, val |-> <<v.val>>]
      [] wire = 2 -> [ok |-> v.n > 0 /\ Len(data) >= v.n + v.val, n |-> v.n + v.val,
                      val |-> SubSeq(data, v.n + 1, upTo(v.n + v.val))]
      [] wire = 5 -> fixed(4)
      [] wire = 1 -> fixed(8)
      [] OTHER -> [ok |-> FALSE, n |-> 0, val |-> <<>>]

(* The fields of a message up to the first that cannot be read; clean says *)
(* whether that is the end.                                                *)
RECURSIVE FieldsFrom(_, _, _)
FieldsFrom(data, wires, read) ==
    LET tag == DecodeVarint(data)
        wire == tag.val % 8
        v == Value(Rest(data, tag.n), wire) IN
    IF tag.n = 0 THEN [clean |-> TRUE, fields |-> read]
    ELSE IF wire \notin wires \/ ~v.ok THEN [clean |-> FALSE, fields |-> read]
    ELSE FieldsFrom(Rest(data, tag.n + v.n), wires,
                    Append(read, [num |-> tag.val \div 8, wire |-> wire, val |-> v.val]))

AnyWire == {0, 1, 2, 5}
Fields(data, wires) == FieldsFrom(data, wires, <<>>).fields

(* What a decoder keeps of its field num: the last value of one of the     *)
(* wire types, or nothing.                                                 *)
Kept(fs, num, wires) ==
    LET at == {i \in DOMAIN fs : fs[i].num = num /\ fs[i].wire \in wires} IN
    IF at = {} THEN <<>> ELSE fs[CHOOSE i \in at : \A j \in at : i >= j].val

(* A number: a varint or little endian fixed 32; absent is 0.              *)
Number(val) ==
    IF Len(val) = 1 THEN val[1] ELSE FoldRight(LAMBDA b, v : b + 256 * v, val, 0)
Varint(fs, num) == Number(Kept(fs, num, {0}))
Flag(fs, num) == Varint(fs, num) # 0
Bytes(fs, num) == Kept(fs, num, {2})
Fixed(fs, num) == Kept(fs, num, {5})

(* A sub-message: the last one, decoded, as a set of at most one.          *)
Sub(Decode(_), fs, num) ==
    {Decode(fs[i].val) : i \in {j \in DOMAIN fs : /\ fs[j].num = num /\ fs[j].wire = 2
                                                   /\ \A k \in j + 1 .. Len(fs) : fs[k].num # num \/ fs[k].wire # 2}}

-----------------------------------------------------------------------------
(* Decoders of framing.go.                                                 *)
DecodeMyInfo(data) ==
    LET fs == Fields(data, AnyWire) IN
    [MyNodeNum |-> Varint(fs, 1), RebootCount |-> Varint(fs, 8), MaxChannels |-> Varint(fs, 11)]

(* A MAC address of any other length than six is not taken, and does not   *)
(* replace one that was.                                                   *)
DecodeUserInfo(data) ==
    LET fs == Fields(data, AnyWire)
        sane == SelectSeq(fs, LAMBDA f : f.num = 4 => Len(f.val) = 6) IN
    [ID |-> Bytes(fs, 1), LongName |-> Bytes(fs, 2), ShortName |-> Bytes(fs, 3),
     MacAddr |-> Bytes(sane, 4), HWModel |-> Varint(fs, 5), IsLicensed |-> Flag(fs, 6), Role |-> Varint(fs, 7)]

DecodePosition(data) ==
    LET fs == Fields(data, AnyWire) IN
    [LatitudeI |-> Fixed(fs, 1), LongitudeI |-> Fixed(fs, 2),
     Altitude |-> Varint(fs, 3), Time |-> Varint(fs, 4), Sats |-> Varint(fs, 21)]

DecodeDeviceMetrics(data) ==
    LET fs == Fields(data, AnyWire) IN
    [BatteryLevel |-> Varint(fs, 1), UptimeSeconds |-> Varint(fs, 5), Voltage |-> Fixed(fs, 2),
     ChannelUtilization |-> Fixed(fs, 3), AirUtilTx |-> Fixed(fs, 4)]

(* Some numbers come as a varint or as fixed 32.                           *)
DecodeNodeInfo(data) ==
    LET fs == Fields(data, AnyWire) IN
    [Num |-> Number(Kept(fs, 1, {0, 5})), Channel |-> Varint(fs, 7), IsFavorite |-> Flag(fs, 10),
     SNR |-> Fixed(fs, 4), LastHeard |-> Number(Fixed(fs, 5)),
     User |-> Sub(DecodeUserInfo, fs, 2), Position |-> Sub(DecodePosition, fs, 3),
     DeviceMetrics |-> Sub(DecodeDeviceMetrics, fs, 6)]

DecodeDataPayload(data) ==
    LET fs == Fields(data, AnyWire) IN
    [PortNum |-> Varint(fs, 1), Payload |-> Bytes(fs, 2), RequestID |-> Number(Fixed(fs, 6))]

NoData == [PortNum |-> 0, Payload |-> <<>>, RequestID |-> 0]

(* The signal strength is zigzag as a varint, two's complement as fixed.   *)
RxRSSI(fs) ==
    LET val == Kept(fs, 9, {0, 5}) IN IF Len(val) = 1 THEN DecodeZigzag(val[1]) ELSE Number(val)

DecodeMeshPacket(data) ==
    LET fs == Fields(data, AnyWire)
        inner == Sub(DecodeDataPayload, fs, 4) IN
    [From |-> Kept(fs, 1, {0, 5}), To |-> Kept(fs, 2, {0, 5}), Channel |-> Varint(fs, 3),
     ID |-> Kept(fs, 6, {0, 5}), RxTime |-> Kept(fs, 7, {0, 5}), RxSNR |-> Fixed(fs, 8), RxRSSI |-> RxRSSI(fs),
     HopLimit |-> Varint(fs, 10), WantAck |-> Flag(fs, 11), Priority |-> Varint(fs, 12), HopStart |-> Varint(fs, 15),
     Data |-> IF inner = {} THEN NoData ELSE CHOOSE d \in inner : TRUE]

(* Config: the section is the last sub-message; it and most of its parts   *)
(* stop at a wire type they do not expect instead of skipping it.          *)
DecodeBluetoothConfig(data) ==
    LET fs == Fields(data, {0}) IN [Enabled |-> Flag(fs, 1), Mode |-> Varint(fs, 2), FixedPin |-> Varint(fs, 3)]

DecodePositionConfig(data) ==
    LET fs == Fields(data, {0}) IN
    [PositionBroadcastSecs |-> Varint(fs, 1), FixedPosition |-> Flag(fs, 3), GPSEnabled |-> Flag(fs, 4),
     GPSUpdateInterval |-> Varint(fs, 5), GPSMode |-> Varint(fs, 13)]

DecodeDisplayConfig(data) ==
    LET fs == Fields(data, {0}) IN [ScreenOnSecs |-> Varint(fs, 1), FlipScreen |-> Flag(fs, 5)]

DecodeLoRaConfig(data) ==
    LET fs == Fields(data, {0, 1, 5}) IN
    [UsePreset |-> Flag(fs, 1), Region |-> Varint(fs, 7), HopLimit |-> Varint(fs, 8),
     TxEnabled |-> Flag(fs, 9), TxPower |-> Varint(fs, 10)]

DecodePowerConfig(data) ==
    LET fs == Fields(data, {0, 5}) IN [IsPowerSaving |-> Flag(fs, 1), DeviceBatteryINAAddr |-> Varint(fs, 9)]

Sections == [position |-> 2, power |-> 3, display |-> 5, lora |-> 6, bluetooth |-> 7]

DecodeConfig(data) ==
    LET fs == Fields(data, {0, 2})
        subs == SelectSeq(fs, LAMBDA f : f.wire = 2) IN
    [Section |-> IF subs = <<>> THEN 0 ELSE subs[Len(subs)].num,
     Position |-> Sub(DecodePositionConfig, fs, Sections.position),
     Power |-> Sub(DecodePowerConfig, fs, Sections.power),
     Display |-> Sub(DecodeDisplayConfig, fs, Sections.display),
     LoRa |-> Sub(DecodeLoRaConfig, fs, Sections.lora),
     Bluetooth |-> Sub(DecodeBluetoothConfig, fs, Sections.bluetooth)]

DecodeMetadata(data) ==
    LET fs == Fields(data, AnyWire) IN
    [FirmwareVersion |-> Bytes(fs, 1), DeviceStateVersion |-> Varint(fs, 2),
     HasBluetooth |-> Flag(fs, 4), HasWifi |-> Flag(fs, 5), HasEthernet |-> Flag(fs, 6)]

(* DecodeFromRadio: the type is that of the last known field, every kind   *)
(* of part the last of its kind; a module's configuration is not decoded.  *)
(* An error for an empty or a truncated frame: the caller drops it.        *)
FromRadioType(f) ==
    CASE f.wire = 0 /\ f.num = 7 -> "ConfigComplete"
      [] f.wire = 0 /\ f.num = 8 -> "Rebooted"
      [] f.wire = 2 /\ f.num = 2 -> "MeshPacket"
      [] f.wire = 2 /\ f.num = 3 -> "MyInfo"
      [] f.wire = 2 /\ f.num = 4 -> "NodeInfo"
      [] f.wire = 2 /\ f.num \in {5, 9} -> "Config"
      [] f.wire = 2 /\ f.num = 10 -> "Channel"
      [] f.wire = 2 /\ f.num = 13 -> "Metadata"
      [] OTHER -> "Unknown"

DecodeFromRadio(data) ==
    LET all == FieldsFrom(data, AnyWire, <<>>)
        fs == all.fields
        known == SelectSeq(fs, LAMBDA f : FromRadioType(f) # "Unknown")
        configs == SelectSeq(fs, LAMBDA f : FromRadioType(f) = "Config")
        config == configs[Len(configs)] IN
    [err |-> data = <<>> \/ ~all.clean,
     Type |-> IF known = <<>> THEN "Unknown" ELSE FromRadioType(known[Len(known)]),
     MeshPacket |-> Sub(DecodeMeshPacket, fs, 2), MyInfo |-> Sub(DecodeMyInfo, fs, 3),
     NodeInfo |-> Sub(DecodeNodeInfo, fs, 4),
     Config |-> IF configs = <<>> THEN {} ELSE {DecodeConfig(IF config.num = 9 THEN <<>> ELSE config.val)},
     Metadata |-> Sub(DecodeMetadata, fs, 13)]

-----------------------------------------------------------------------------
(* Decoders of dispatcher.go, for the payload of a packet.                 *)
DecodePositionPayload(data) == DecodePosition(data)
DecodeDeviceMetricsPayload(data) == DecodeDeviceMetrics(data)

DecodeEnvironmentMetricsPayload(data) ==
    LET fs == Fields(data, AnyWire) IN
    [Temperature |-> Fixed(fs, 1), RelativeHumidity |-> Fixed(fs, 2), BarometricPressure |-> Fixed(fs, 3)]

DecodeTelemetryPayload(data) ==
    LET fs == Fields(data, AnyWire) IN
    [device |-> Sub(DecodeDeviceMetricsPayload, fs, 2), environment |-> Sub(DecodeEnvironmentMetricsPayload, fs, 3)]

-----------------------------------------------------------------------------
(* Builders of encode.go.  The packet id is any but 0.                     *)
VarintField(num, val) == EncodeVarint(8 * num) \o EncodeVarint(val)
LengthDelimited(num, data) == EncodeVarint(8 * num + 2) \o EncodeVarint(Len(data)) \o data
Fixed32Field(num, four) == EncodeVarint(8 * num + 5) \o four

Ports == [text |-> 1, position |-> 3, nodeinfo |-> 4, admin |-> 6, telemetry |-> 67]
BroadcastAddr == <<255, 255, 255, 255>>

BuildDataMessage(port, payload) == VarintField(1, port) \o LengthDelimited(2, payload)
BuildDataMessageWithResponse(port, payload) == BuildDataMessage(port, payload) \o VarintField(3, 1)

BuildMeshPacket(to, data, id) ==
    Fixed32Field(2, to) \o VarintField(3, 0) \o LengthDelimited(4, data) \o Fixed32Field(6, id)
       \o VarintField(10, 3) \o VarintField(11, 1)

BuildToRadio(packet) == LengthDelimited(1, packet)
BuildHeartbeat == LengthDelimited(7, <<>>)
BuildWantConfig == VarintField(3, 1)

BuildTextMessage(to, text, id) == BuildToRadio(BuildMeshPacket(to, BuildDataMessage(Ports.text, text), id))

PositionFields(lat, lon, altitude) ==
    Fixed32Field(1, lat) \o Fixed32Field(2, lon) \o IF altitude # 0 THEN VarintField(3, altitude) ELSE <<>>

BuildPosition(lat, lon, altitude, id) ==
    BuildToRadio(BuildMeshPacket(BroadcastAddr,
                    BuildDataMessage(Ports.position, PositionFields(lat, lon, altitude)), id))

BuildDeviceMetrics(battery, voltage, id) ==
    LET dm == (IF battery > 0 THEN VarintField(1, battery) ELSE <<>>)
                 \o (IF voltage # <<0, 0, 0, 0>> THEN Fixed32Field(2, voltage) ELSE <<>>) IN
    BuildToRadio(BuildMeshPacket(BroadcastAddr,
                    BuildDataMessage(Ports.telemetry, LengthDelimited(2, dm)), id))

BuildAdmin(node, message, id) == BuildToRadio(BuildMeshPacket(node, BuildDataMessage(Ports.admin, message), id))
SetConfig(section, config) == LengthDelimited(34, LengthDelimited(section, config))

BuildAdminShutdown(node, seconds, id) == BuildAdmin(node, VarintField(98, seconds), id)
BuildAdminReboot(node, seconds, id) == BuildAdmin(node, VarintField(97, seconds), id)
BuildAdminNodedbReset(node, id) == BuildAdmin(node, VarintField(100, 1), id)

BuildAdminDisplayConfig(node, secs, id) ==
    BuildAdmin(node, SetConfig(Sections.display, VarintField(1, secs)), id)

BuildAdminBluetoothConfig(node, enabled, mode, pin, id) ==
    BuildAdmin(node, SetConfig(Sections.bluetooth,
                  VarintField(1, IF enabled THEN 1 ELSE 0) \o VarintField(2, mode)
                     \o IF pin > 0 THEN VarintField(3, pin) ELSE <<>>), id)

BuildAdminPositionConfig(node, mode, id) ==
    BuildAdmin(node, SetConfig(Sections.position, VarintField(13, mode)), id)

BuildAdminSetFixedPosition(node, lat, lon, altitude, time, id) ==
    BuildAdmin(node, LengthDelimited(41, PositionFields(lat, lon, altitude)
                        \o IF time # <<0, 0, 0, 0>> THEN Fixed32Field(7, time) ELSE <<>>), id)

BuildTelemetryRequest(node, id) ==
    BuildToRadio(BuildMeshPacket(node, BuildDataMessageWithResponse(Ports.telemetry, <<>>), id))

BuildNodeInfoRequest(node, id) ==
    BuildToRadio(BuildMeshPacket(IF node = <<0, 0, 0, 0>> THEN BroadcastAddr ELSE node,
                    BuildDataMessageWithResponse(Ports.nodeinfo, <<>>), id))

=============================================================================
