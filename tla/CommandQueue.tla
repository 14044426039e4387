---------------------------- MODULE CommandQueue ----------------------------
(***************************************************************************)
(* The command queue (internal/commands/service.go): operators enqueue     *)
(* commands for sensor nodes, one goroutine per command hands the line to  *)
(* the serial port outside the lock, acknowledgements come back over the   *)
(* mesh and are matched to the newest open command, and a watchdog closes  *)
(* probe scans whose window has passed.                                    *)
(*                                                                         *)
(* Commands are numbered in the order of CreatedAt.  Names stand for the   *)
(* classes the code tells apart: a device scan with its automatic raw-mode *)
(* pair, probe scans, stops and one-shot commands.  The on-wire text, the  *)
(* per-device rows of a scan, the chat echo and the commands table are     *)
(* left out.  MaxRetries is 3 and nothing sends a command twice, so a      *)
(* failed send leaves the command pending.                                 *)
(***************************************************************************)
EXTENDS Integers, Sequences, FiniteSets

CONSTANTS
    Nodes,        \* sensor nodes
    All,          \* the target "@ALL"
    Issued,       \* the command names operators issue
    IssueTargets, \* the targets they issue them for
    MaxIssued,    \* bound on the commands operators issue
    MaxCommands   \* bound on commands, automatic ones included

ASSUME TargetAssumption == All \notin Nodes /\ IsFiniteSet(Nodes)

Names == {"DEVICE_SCAN_START", "PROBE_START", "PROBE_STOP", "STOP", "MODEL_SET",
          "RAW_BLE_ON", "RAW_BLE_OFF"}
ScanClass == {"DEVICE_SCAN_START", "PROBE_START"}

ASSUME IssuedAssumption == Issued \subseteq Names /\ IssueTargets \subseteq Nodes \cup {All}
ASSUME BoundAssumption == MaxCommands \in Nat /\ MaxIssued \in Nat

Statuses == {"PENDING", "SENT", "RUNNING", "OK", "ERROR"}
OpenStatuses == {"PENDING", "SENT", "RUNNING"}

VARIABLES
    cmds,      \* every command created, as the in-memory record
    pending,   \* Service.pending
    nodeRate,  \* was a command sent in the last two seconds?
    sender     \* per command, the goroutine that runs send()

vars == <<cmds, pending, nodeRate, sender>>

Targets == Nodes \cup {All}
NoNode == "no_node"

CommandType ==
    [name : Names, target : Targets, status : Statuses, ackNode : Nodes \cup {NoNode},
     sent : BOOLEAN, finished : BOOLEAN,
     auto : BOOLEAN]     \* history: attached by the service, not issued

(* ready: not yet running, or asleep for autoAttachDelay; calling: in      *)
(* sendFn, without the lock.                                               *)
SenderPcs == {"ready", "calling", "done"}

TypeOK ==
    /\ cmds \in Seq(CommandType)
    /\ pending \subseteq DOMAIN cmds
    /\ nodeRate \in BOOLEAN
    /\ sender \in [DOMAIN cmds -> SenderPcs]

Init == cmds = <<>> /\ pending = {} /\ nodeRate = FALSE /\ sender = <<>>

NewCommand(name, target, auto) ==
    [name |-> name, target |-> target, status |-> "PENDING", ackNode |-> NoNode,
     sent |-> FALSE, finished |-> FALSE, auto |-> auto]

-----------------------------------------------------------------------------
MayIssue(name) ==
    /\ name \in Issued
    /\ Cardinality({i \in DOMAIN cmds : ~cmds[i].auto}) < MaxIssued

(* Enqueue: refused within two seconds of the last successful send.        *)
(* Structured commands all carry TargetNode 0, so one rate slot serves     *)
(* them all.                                                               *)
Enqueue(name, target) ==
    /\ name # "DEVICE_SCAN_START" /\ MayIssue(name)
    /\ ~nodeRate
    /\ Len(cmds) < MaxCommands
    /\ cmds' = Append(cmds, NewCommand(name, target, FALSE))
    /\ pending' = pending \cup {Len(cmds) + 1}
    /\ sender' = Append(sender, "ready")
    /\ UNCHANGED nodeRate

(* A device scan brings RAW_BLE_ON with it: the scan is created first and  *)
(* sent by a goroutine that sleeps autoAttachDelay, which is no promise    *)
(* about the order of the two sends.                                       *)
EnqueueDeviceScan(target) ==
    /\ MayIssue("DEVICE_SCAN_START")
    /\ ~nodeRate
    /\ Len(cmds) + 2 <= MaxCommands
    /\ cmds' = cmds \o <<NewCommand("DEVICE_SCAN_START", target, FALSE), NewCommand("RAW_BLE_ON", target, TRUE)>>
    /\ pending' = pending \cup {Len(cmds) + 1, Len(cmds) + 2}
    /\ sender' = sender \o <<"ready", "ready">>
    /\ UNCHANGED nodeRate

SendCall(i) ==
    /\ sender[i] = "ready"
    /\ sender' = [sender EXCEPT ![i] = "calling"]
    /\ UNCHANGED <<cmds, pending, nodeRate>>

(* sendFn has returned nil, and send() has the lock again: the status is   *)
(* set whatever happened to the command in the meantime.                   *)
SendOk(i) ==
    /\ sender[i] = "calling"
    /\ cmds' = [cmds EXCEPT ![i].status = "SENT", ![i].sent = TRUE]
    /\ nodeRate' = TRUE
    /\ sender' = [sender EXCEPT ![i] = "done"]
    /\ UNCHANGED pending

(* RetryCount becomes 1, below MaxRetries: the status stays.               *)
SendFails(i) ==
    /\ sender[i] = "calling"
    /\ sender' = [sender EXCEPT ![i] = "done"]
    /\ UNCHANGED <<cmds, pending, nodeRate>>

RateExpires ==
    /\ nodeRate
    /\ nodeRate' = FALSE
    /\ UNCHANGED <<cmds, pending, sender>>

-----------------------------------------------------------------------------
(* Acknowledgements.  AckTokens are the frames the firmware sends.         *)

AckTokens ==
    {[kind |-> "DEVICE_SCAN_ACK", status |-> "STARTED"], [kind |-> "SCAN_DONE_ACK", status |-> "OK"],
     [kind |-> "RAW_BLE_ACK", status |-> "ON"], [kind |-> "RAW_BLE_ACK", status |-> "OFF"],
     [kind |-> "STOP_ACK", status |-> "OK"],
     [kind |-> "PROBE_ACK", status |-> "STARTED"], [kind |-> "PROBE_ACK", status |-> "STOPPED"],
     [kind |-> "PROBE_ACK", status |-> "BUSY"],
     [kind |-> "MODEL_SET_ACK", status |-> "OK"], [kind |-> "MODEL_SET_ACK", status |-> "ERROR"]}

(* ACKMap with the prefix and suffix rules: which names a frame may close. *)
AckedNames(kind) ==
    CASE kind \in {"DEVICE_SCAN_ACK", "SCAN_DONE_ACK"} -> {"DEVICE_SCAN_START"}
      [] kind = "RAW_BLE_ACK" -> {"RAW_BLE_ON", "RAW_BLE_OFF"}
      [] kind = "PROBE_ACK" -> {"PROBE_START", "PROBE_STOP"}
      [] kind = "STOP_ACK" -> {"STOP", "PROBE_STOP"}
      [] kind = "MODEL_SET_ACK" -> {"MODEL_SET"}

Candidates(kind) == {i \in pending : /\ cmds[i].name \in AckedNames(kind)
                                     /\ cmds[i].status \in OpenStatuses}

(* The newest candidate, whichever node the frame came from.               *)
AckMatch(kind, i) == i \in Candidates(kind) /\ \A j \in Candidates(kind) : j <= i

(* Mutant: an unknown token gets a status of its own.                      *)
AckStatusOfUnknown(status) ==
    CASE status = "STARTED" -> "RUNNING"
      [] status = "ERROR" -> "ERROR"
      [] status \in {"OK", "ON", "OFF", "STOPPED"} -> "OK"
      [] OTHER -> "UNKNOWN"

(* STARTED keeps the command open; a token the switch does not know (BUSY) *)
(* leaves SENT behind and still finishes the command.                      *)
AckStatusOf(status) ==
    CASE status = "STARTED" -> "RUNNING"
      [] status = "ERROR" -> "ERROR"
      [] status \in {"OK", "ON", "OFF", "STOPPED"} -> "OK"
      [] OTHER -> "SENT"

(* Running commands that a stop frame closes besides the one it matches.   *)
FanOut(token, m) ==
    {i \in pending \ {m} :
        /\ cmds[i].status = "RUNNING"
        /\ \/ /\ token = [kind |-> "PROBE_ACK", status |-> "STOPPED"]
              /\ cmds[i].name = "PROBE_START"
           \/ /\ token.kind = "STOP_ACK" /\ cmds[i].name \in ScanClass
              /\ cmds[m].target \in {All, cmds[i].target}}

(* Mutant: only the matched command brings a follow-on.                    *)
ClosedScansMatchOnly(m, fan) == {i \in {m} : cmds[i].name = "DEVICE_SCAN_START"}

ClosedScans(m, fan) == {i \in {m} \cup fan : cmds[i].name = "DEVICE_SCAN_START"}

(* Mutant: the matched command stays in pending.                           *)
CloseKeepsMatch(m, fan) == pending \ fan

Close(m, fan) == pending \ ({m} \cup fan)

(* enqueueRawBLEFollowonLocked, once for each closed device scan.  The map *)
(* iteration order decides which comes first; with equal names it shows    *)
(* only in the targets.                                                    *)
FollowOns(closed) ==
    {s \in [1 .. Cardinality(closed) -> {NewCommand("RAW_BLE_OFF", t, TRUE) : t \in Targets}] :
        \E f \in [1 .. Cardinality(closed) -> closed] :
            /\ \A a, b \in DOMAIN f : f[a] = f[b] => a = b
            /\ \A a \in DOMAIN f : s[a].target = cmds[f[a]].target}

HandleStructuredACK(token, node) ==
    \E m \in pending :
        LET final == AckStatusOf(token.status)
            running == final = "RUNNING"
            fan == FanOut(token, m)
            closed == IF running THEN {} ELSE ClosedScans(m, fan) IN
        /\ AckMatch(token.kind, m)
        /\ Len(cmds) + Cardinality(closed) <= MaxCommands
        /\ \E off \in FollowOns(closed) :
              /\ cmds' = [i \in DOMAIN cmds |->
                     IF i = m THEN [cmds[i] EXCEPT !.status = final, !.ackNode = node,
                                                   !.finished = ~running]
                     ELSE IF i \in fan THEN [cmds[i] EXCEPT !.status = "OK", !.finished = TRUE]
                     ELSE cmds[i]] \o off
              /\ pending' = (IF running THEN pending ELSE Close(m, fan))
                                \cup {Len(cmds) + k : k \in DOMAIN off}
              /\ sender' = sender \o [k \in DOMAIN off |-> "ready"]
        /\ UNCHANGED nodeRate

-----------------------------------------------------------------------------
(* Delete takes the command out of the queue; its goroutine lives on.      *)
Delete(i) ==
    /\ i \in pending
    /\ pending' = pending \ {i}
    /\ UNCHANGED <<cmds, nodeRate, sender>>

(* Mutant: the watchdog looks for the wrong status.                        *)
WindowElapsedSent(i) == cmds[i].status = "SENT" /\ cmds[i].sent

(* A running probe scan that was recorded as sent: its window may be over. *)
(* FOREVER scans, which the watchdog skips, are not among the commands.    *)
WindowElapsed(i) == cmds[i].status = "RUNNING" /\ cmds[i].sent

(* The watchdog's tick for one command whose window and grace have passed. *)
EnforceScanTimeouts(i) ==
    /\ i \in pending /\ cmds[i].name = "PROBE_START"
    /\ WindowElapsed(i)
    /\ cmds' = [cmds EXCEPT ![i].status = "OK", ![i].finished = TRUE]
    /\ pending' = pending \ {i}
    /\ UNCHANGED <<nodeRate, sender>>

Next ==
    \/ \E t \in IssueTargets :
          \/ \E name \in Issued : Enqueue(name, t)
          \/ EnqueueDeviceScan(t)
    \/ \E i \in DOMAIN cmds :
          \/ SendCall(i) \/ SendOk(i) \/ SendFails(i)
          \/ Delete(i) \/ EnforceScanTimeouts(i)
    \/ RateExpires
    \/ \E token \in AckTokens, n \in Nodes : HandleStructuredACK(token, n)

Spec == Init /\ [][Next]_vars

(* The watchdog's ticker fires.  One weak fairness for all commands is     *)
(* enough: each tick that closes something closes it for good.             *)
WatchdogTick == \E i \in DOMAIN cmds : EnforceScanTimeouts(i)

Fairness == WF_vars(WatchdogTick)

FairSpec == Spec /\ Fairness

-----------------------------------------------------------------------------
(* Properties.                                                             *)

(* Nothing that an acknowledgement has closed can be matched again: it has *)
(* left the queue, although send() may still rewrite its status.           *)
FinishedLeavesQueue == \A i \in pending : ~cmds[i].finished

(* Raw mode is switched off exactly once for each device scan that an      *)
(* acknowledgement closes, whether its own DONE frame, a stop frame's      *)
(* fan-out or both race for it; what operators do about it does not count. *)
RawOffOncePerScan ==
    Cardinality({i \in DOMAIN cmds : cmds[i].name = "RAW_BLE_OFF" /\ cmds[i].auto})
        = Cardinality({i \in DOMAIN cmds : cmds[i].name = "DEVICE_SCAN_START" /\ cmds[i].finished})

(* Every probe scan that is running and recorded as sent leaves the queue: *)
(* the firmware sends nothing when the window ends, the watchdog does it.  *)
ProbeScansEnd ==
    \A i \in 1 .. MaxCommands :
        (/\ i \in pending /\ cmds[i].name = "PROBE_START"
         /\ cmds[i].status = "RUNNING" /\ cmds[i].sent) ~> i \notin pending
=============================================================================
