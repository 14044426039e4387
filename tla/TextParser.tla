----------------------------- MODULE TextParser -----------------------------
(***************************************************************************)
(* The sensor text parser (internal/serial/textparser.go): which events a  *)
(* line yields, and in which order.                                        *)
(*                                                                         *)
(* A line is abstracted to the pattern it is written for (its form), the   *)
(* one optional part that changes what the handler returns (opt) and, for  *)
(* an acknowledgement, its kind (arg).  An event keeps its kind and the    *)
(* tag its consumer switches on: the alert category, the acknowledgement   *)
(* kind, whether telemetry holds a reading.  MAC addresses, positions and  *)
(* names are left out: they are copied, never tested.                      *)
(***************************************************************************)
EXTENDS Sequences, FiniteSets

Ev(kind, tag) == [kind |-> kind, tag |-> tag]
Alert(category) == Ev("alert", category)
Ack(ackType) == Ev("command-ack", ackType)
Detected == Ev("target-detected", "")
Telemetry(reading) == Ev("node-telemetry", IF reading THEN "reading" ELSE "zero")

-----------------------------------------------------------------------------
(* The handlers, one operator per result.                                  *)

(* A STATUS frame refreshes the node and closes a pending STATUS command.  *)
handleStatus(reading) == <<Telemetry(reading), Ack("STATUS_ACK")>>
handleDrone == <<Ev("drone-telemetry", "")>>

(* opt: the line carries a BLE fingerprint's target id.                    *)
handleTarget(tid) == <<Detected, Alert(IF tid THEN "ble-target-hit" ELSE "inventory")>>
handleDevice == <<Detected>>

(* opt: the payload is valid base64; otherwise both events are dropped.    *)
handleBLERaw(decodes) == IF decodes THEN <<Ev("ble-raw", ""), Detected>> ELSE <<>>

handleAttackLong == <<Alert("attack")>>
handleAttackShort == <<Alert("attack")>>
handleGPSLock(reading) == <<Telemetry(reading), Alert("gps")>>
handleGPSLost == <<Alert("gps")>>
handleNodeHB(reading) == <<Telemetry(reading), Alert("heartbeat")>>
handleACK(kind) == <<Ack(kind)>>

(* Replies without an acknowledgement of their own: one is synthesised.    *)
handleCodes == <<Ev("gate-codes", ""), Ack("CODE_LIST_ACK")>>
handleI2cScan(c5) == <<Ev("i2c-scan", ""), Ack(IF c5 THEN "C5_I2C_SCAN_ACK" ELSE "I2C_SCAN_ACK")>>
handleAIModels == <<Ev("ai-models", "camera"), Ack("MODEL_LIST_ACK")>>

handleGateTriggered == <<Alert("gate-triggered")>>
handleAnomaly == <<Alert("anomaly")>>
handleStartup == <<Alert("startup")>>
handleProbeHit == <<Detected, Alert("probe")>>
handleVibration == <<Alert("vibration")>>
handleTamper == <<Alert("tamper")>>
handleCam(category) == <<Alert(category)>>
handleTri(kind) == <<Ev(kind, "")>>
handleIdentity == <<Alert("identity")>>
handleAttack == <<Alert("attack")>>
handleSetupMode == <<Alert("setup-mode")>>
handleBatterySaverState == <<Alert("battery-saver")>>
handleEraseEvent == <<Alert("erase")>>
handleEraseToken == <<Alert("erase-token")>>
handleRTCSync == <<Alert("rtc-sync")>>
handleBroadcastCommand(category) == <<Alert("mesh-command:" \o category)>>
handleDoneSummaryWithAck(category, ackType) == <<Alert(category), Ack(ackType)>>

-----------------------------------------------------------------------------
(* initPatterns: what the first pattern that matches returns.  The forms   *)
(* are disjoint but for attack lines: with a channel they go to            *)
(* attack-short, whatever follows, and only those without to attack.       *)

SensorForms(l) ==
    [f \in {"status", "drone", "tri-target-data", "tri-final", "tri-complete", "target-type-first",
            "target-mac-first", "device", "device-short", "ble-raw", "ble-raw-short", "attack-long",
            "attack-short", "gps-lock", "gps-lost", "node-hb"} |->
        CASE f = "status" -> handleStatus(l.opt)
          [] f = "drone" -> handleDrone
          [] f = "tri-target-data" -> handleTri("tri-data")
          [] f \in {"tri-final", "tri-complete"} -> handleTri(f)
          [] f \in {"target-type-first", "target-mac-first"} -> handleTarget(l.opt)
          [] f \in {"device", "device-short"} -> handleDevice
          [] f \in {"ble-raw", "ble-raw-short"} -> handleBLERaw(l.opt)
          [] f = "attack-long" -> handleAttackLong
          [] f = "attack-short" -> handleAttackShort
          [] f = "gps-lock" -> handleGPSLock(l.opt)
          [] f = "gps-lost" -> handleGPSLost
          [] f = "node-hb" -> handleNodeHB(l.opt)]

ReplyForms(l) ==
    [f \in {"node-hb-saver", "node-hb-inline", "codes", "ai-models", "gate-triggered", "probe-hit",
            "ack", "anomaly", "cam-detection", "cam-face", "cam-plate", "startup", "vibration",
            "tamper"} |->
        CASE f \in {"node-hb-saver", "node-hb-inline"} -> handleNodeHB(l.opt)
          [] f = "codes" -> handleCodes
          [] f = "ai-models" -> handleAIModels
          [] f = "gate-triggered" -> handleGateTriggered
          [] f = "probe-hit" -> handleProbeHit
          [] f = "ack" -> handleACK(l.arg)
          [] f = "anomaly" -> handleAnomaly
          [] f = "cam-detection" -> handleCam("camera")
          [] f = "cam-face" -> handleCam("camera-face")
          [] f = "cam-plate" -> handleCam("camera-plate")
          [] f = "startup" -> handleStartup
          [] f = "vibration" -> handleVibration
          [] f = "tamper" -> handleTamper]

(* The summaries whose category is also the stem of their acknowledgement. *)
SummaryAck ==
    [f \in {"scan-done", "deauth-done", "list-scan-done", "drone-done", "randomization-done",
            "baseline-done", "baseline-status", "vibration-status", "raw-ble-status",
            "autoerase-status", "battery-saver-status"} |->
        CASE f = "scan-done" -> <<"scan", "SCAN_DONE_ACK">>
          [] f = "deauth-done" -> <<"deauth", "DEAUTH_DONE_ACK">>
          [] f = "list-scan-done" -> <<"list-scan", "LIST_SCAN_DONE_ACK">>
          [] f = "drone-done" -> <<"drone", "DRONE_DONE_ACK">>
          [] f = "randomization-done" -> <<"randomization", "RANDOMIZATION_DONE_ACK">>
          [] f = "baseline-done" -> <<"baseline", "BASELINE_DONE_ACK">>
          [] f = "baseline-status" -> <<"baseline-status", "BASELINE_STATUS_ACK">>
          [] f = "vibration-status" -> <<"vibration-status", "VIBRATION_STATUS_ACK">>
          [] f = "raw-ble-status" -> <<"raw-ble-status", "RAW_BLE_STATUS_ACK">>
          [] f = "autoerase-status" -> <<"autoerase-status", "AUTOERASE_STATUS_ACK">>
          [] f = "battery-saver-status" -> <<"battery-saver-status", "BATTERY_SAVER_STATUS_ACK">>]

SummaryForms(l) ==
    [f \in DOMAIN SummaryAck |-> handleDoneSummaryWithAck(SummaryAck[f][1], SummaryAck[f][2])]

SystemForms(l) ==
    [f \in {"i2c-scan", "identity", "attack", "setup-mode", "battery-saver-state", "erase-executing",
            "erase-complete", "erase-token", "rtc-sync", "bcast-triangulate-start",
            "bcast-tri-cycle-start", "bcast-triangulate-stop", "bcast-sync"} |->
        CASE f = "i2c-scan" -> handleI2cScan(l.opt)
          [] f = "identity" -> handleIdentity
          [] f = "attack" -> handleAttack
          [] f = "setup-mode" -> handleSetupMode
          [] f = "battery-saver-state" -> handleBatterySaverState
          [] f \in {"erase-executing", "erase-complete"} -> handleEraseEvent
          [] f = "erase-token" -> handleEraseToken
          [] f = "rtc-sync" -> handleRTCSync
          [] f = "bcast-triangulate-start" -> handleBroadcastCommand("triangulate-start")
          [] f = "bcast-tri-cycle-start" -> handleBroadcastCommand("tri-cycle-start")
          [] f = "bcast-triangulate-stop" -> handleBroadcastCommand("triangulate-stop")
          [] f = "bcast-sync" -> handleBroadcastCommand("sync")]

(* Forms no pattern matches: free text, and acknowledgements the ack       *)
(* pattern does not list (ERASE_ACK and AUTOERASE_ACK are two of them).    *)
UnmatchedForms == {"text", "unlisted-ack"}

Handled(l) ==
    CASE l.form \in DOMAIN SensorForms(l) -> SensorForms(l)[l.form]
      [] l.form \in DOMAIN ReplyForms(l) -> ReplyForms(l)[l.form]
      [] l.form \in DOMAIN SummaryForms(l) -> SummaryForms(l)[l.form]
      [] l.form \in DOMAIN SystemForms(l) -> SystemForms(l)[l.form]

Matched(l) == l.form \notin UnmatchedForms

(* ParseLine.  A matched line never yields the message itself; an          *)
(* unmatched one does when the console shows it as a received message.     *)
ParseLine(l, isMeshEcho) ==
    IF Matched(l) THEN Handled(l)
    ELSE IF isMeshEcho THEN <<Ev("text-message", "")>>
    ELSE <<Ev("raw", "")>>

EmptyLine == [form |-> "text", opt |-> FALSE, arg |-> ""]
AllForms == DOMAIN SensorForms(EmptyLine) \cup DOMAIN ReplyForms(EmptyLine)
                \cup DOMAIN SummaryAck \cup DOMAIN SystemForms(EmptyLine) \cup UnmatchedForms
Lines == [form : AllForms, opt : BOOLEAN, arg : {"", "SCAN_ACK", "PROBE_ACK"}]
=============================================================================
