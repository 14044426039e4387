---------------------------- MODULE StatusReply -----------------------------
(***************************************************************************)
(* The status broadcaster (internal/statusbroadcast/service.go) on top of  *)
(* the node registry: "@ALL STATUS" or "@<us> STATUS" queues one broadcast *)
(* in a channel of capacity one; the worker asks the radio for its battery *)
(* through the dispatcher's one-slot request, and sends the frame.         *)
(***************************************************************************)
EXTENDS NodeRegistry

VARIABLES
    trigger,   \* is a broadcast queued in triggerCh?
    worker,    \* the broadcaster loop: idle, started, querying the radio, ready to send
    metrics,   \* Dispatcher.metricsReqCh: none, waiting, answered
    owed,      \* a request was accepted and no broadcast has started since
    enabled    \* statusReplyEnabled

statusVars == <<trigger, worker, metrics, owed, enabled>>
allVars == <<vars, statusVars>>

StatusTypeOK ==
    /\ TypeOK
    /\ {trigger, owed, enabled} \subseteq BOOLEAN
    /\ worker \in {"idle", "started", "query", "send"}
    /\ metrics \in {"none", "waiting", "answered"}

StatusInit ==
    /\ Init
    /\ trigger = FALSE /\ worker = "idle" /\ metrics = "none" /\ owed = FALSE /\ enabled = TRUE

(* GetLocalNodeNum: any node that is marked local.                         *)
IsLocal(n) == Known(n) /\ nodes[n].local

(* A request of another node, addressed to us: the trigger coalesces.      *)
(* Ignored when replies are off, no local node is known or the sender is   *)
(* it, or when it names another node.                                      *)
HandleStatusRequest ==
    /\ Calling({"HandleStatusRequest"}) /\ Return
    /\ \/ /\ enabled
          /\ \E l \in Nodes : IsLocal(l) /\ l # Subject
          /\ trigger' = TRUE /\ owed' = TRUE
       \/ UNCHANGED <<trigger, owed>>
    /\ UNCHANGED <<nodes, unread, worker, metrics, enabled>>

(* POST /admin/status-broadcast/trigger, and the periodic timer.           *)
TriggerBroadcast ==
    /\ Request /\ ~trigger
    /\ trigger' = TRUE
    /\ UNCHANGED <<registry, todo, dispatcher, worker, metrics, owed, enabled>>

ToggleReplies ==
    /\ Request
    /\ enabled' = ~enabled
    /\ UNCHANGED <<registry, todo, dispatcher, trigger, worker, metrics, owed>>

StartBroadcast ==
    /\ worker = "idle" /\ trigger
    /\ trigger' = FALSE /\ owed' = FALSE
    /\ worker' = "started"
    /\ UNCHANGED <<vars, metrics, enabled>>

(* broadcast: nothing to say while no local node is known.                 *)
SkipBroadcast ==
    /\ worker = "started"
    /\ \A n \in Nodes : ~IsLocal(n)
    /\ worker' = "idle"
    /\ UNCHANGED <<vars, trigger, metrics, owed, enabled>>

(* RequestDeviceMetrics: refused without a number; the write may fail.     *)
QueryRadio ==
    /\ worker = "started"
    /\ \E n \in Nodes : IsLocal(n)
    /\ \/ localNum # NoNode /\ worker' = "query" /\ metrics' = "waiting"
       \/ worker' = "send" /\ UNCHANGED metrics
    /\ UNCHANGED <<vars, trigger, owed, enabled>>

(* Metrics of the attached radio: dropped when nobody waits, or one is     *)
(* there.                                                                  *)
DeliverMetrics ==
    /\ Calling({"deliverMetricsResponse"}) /\ Return
    /\ metrics' = IF metrics = "waiting" THEN "answered" ELSE metrics
    /\ UNCHANGED <<nodes, unread, trigger, worker, owed, enabled>>

(* The answer, or three seconds without one.                               *)
QueryDone ==
    /\ worker = "query"
    /\ metrics' = "none" /\ worker' = "send"
    /\ UNCHANGED <<vars, trigger, owed, enabled>>

(* Mutant: requests that came in the meantime count as answered.           *)
SendFrameDrains ==
    /\ worker = "send"
    /\ worker' = "idle" /\ trigger' = FALSE
    /\ UNCHANGED <<vars, metrics, owed, enabled>>

(* Sent, or logged as failed: the worker goes on.                          *)
SendFrame ==
    /\ worker = "send"
    /\ worker' = "idle"
    /\ UNCHANGED <<vars, trigger, metrics, owed, enabled>>

RestartAll ==
    /\ Restart
    /\ trigger' = FALSE /\ worker' = "idle" /\ metrics' = "none" /\ owed' = FALSE
    /\ UNCHANGED enabled

Worker == StartBroadcast \/ SkipBroadcast \/ QueryRadio \/ QueryDone \/ SendFrame

Next ==
    \/ (PacketStep \/ CallStep \/ OperatorStep \/ StoreStep) /\ UNCHANGED statusVars
    \/ RestartAll
    \/ HandleStatusRequest \/ DeliverMetrics
    \/ TriggerBroadcast \/ ToggleReplies \/ Worker

(* The broadcaster's goroutine runs, and its query has a timeout.          *)
Spec == StatusInit /\ [][Next]_allVars /\ WF_allVars(Worker)

-----------------------------------------------------------------------------
(* Properties.                                                             *)

(* Every accepted request is followed by a broadcast that starts after it, *)
(* also one that arrives while the previous frame is still being put       *)
(* together or waits for the radio: coalescing never loses the last one.   *)
StatusAnswered == owed ~> ~owed
=============================================================================
