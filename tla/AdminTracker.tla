---------------------------- MODULE AdminTracker ----------------------------
(***************************************************************************)
(* The admin transaction layer of fleetsec: Tracker (transactions.go)      *)
(* correlates the Routing acks and AdminMessage replies that the           *)
(* dispatcher hands it with the packets Service.send (service.go) has      *)
(* written to the radio, and Service keeps one session passkey per remote. *)
(*                                                                         *)
(* Processes: the callers of send, the dispatcher goroutine, one watcher   *)
(* goroutine per transaction (timeout or cancelled context), and the       *)
(* radios.  Removing an entry from the map and sending on its reply        *)
(* channel are two steps of the code and two steps here: the first is      *)
(* done under the tracker's mutex and the second is not.                   *)
(*                                                                         *)
(* randomPacketID gives every call a packet id of its own, so a call is    *)
(* named by that id.  The mesh may lose, delay, reorder and repeat what    *)
(* the radios send: a packet in "air" may be delivered any number of       *)
(* times, or never.                                                        *)
(***************************************************************************)
EXTENDS Naturals, Sequences, FiniteSets

CONSTANTS
    Ids,         \* packet ids of the calls
    Remotes,     \* remote nodes, addressed with PKC
    Local,       \* the radio on the serial port
    MaxSessions  \* bound: admin sessions a remote opens

ASSUME NodesAssumption == Local \notin Remotes
ASSUME SessionsAssumption == MaxSessions \in Nat \ {0}

Nodes == Remotes \cup {Local}
Keys == 0 .. MaxSessions     \* session passkeys of a remote; 0: none cached
NoPacket == [type |-> "no_packet"]

VARIABLES
    call,          \* per id: where its send() is, and what it returned
    transactions,  \* ids in Tracker.transactions
    reply,         \* per id: the reply channel (a sequence, capacity 1)
    watcher,       \* per id: the goroutine Begin starts
    dispatching,   \* the reply the dispatcher goroutine has yet to send
    air,           \* packets addressed to the local radio's host
    handled,       \* ids whose request the target has carried out
    session,       \* per remote: the passkey the firmware accepts now
    passkeys       \* Service.sessionPasskeys; 0: no entry

trackerVars == <<transactions, reply, watcher, dispatching>>
radioVars == <<air, handled, session>>
vars == <<call, transactions, reply, watcher, dispatching, air, handled,
          session, passkeys>>

RoutingErrors == {"none", "bad_session_key", "other", "garbled"}

Packets ==
    [type : {"ack"}, from : Nodes, id : Ids, error : RoutingErrors]
        \cup [type : {"admin"}, from : Nodes, id : Ids, key : Keys, ok : BOOLEAN]

Replies == Packets \cup {[type |-> "timeout"], [type |-> "cancelled"]}

(* A reply channel is empty or holds one reply.                            *)
Channel == {<<>>} \cup {<<r>> : r \in Replies}

Results == {"none", "acked", "admin", "nil_admin", "refused", "timeout",
            "cancelled", "send_error"}

TypeOK ==
    /\ call \in [Ids -> [pc : {"idle", "begun", "waiting", "returned"},
                         target : Nodes, get : BOOLEAN, key : Keys,
                         result : Results]]
    /\ transactions \subseteq Ids
    /\ reply \in [Ids -> Channel]
    /\ watcher \in [Ids -> {"none", "armed", "deadline", "cancel", "timeout",
                            "cancelled", "exited"}]
    /\ dispatching \in Packets \cup {NoPacket}
    /\ air \subseteq Packets
    /\ handled \subseteq Ids
    /\ session \in [Remotes -> Keys]
    /\ passkeys \in [Remotes -> Keys]

Init ==
    /\ call = [k \in Ids |-> [pc |-> "idle", target |-> Local, get |-> FALSE,
                              key |-> 0, result |-> "none"]]
    /\ transactions = {}
    /\ reply = [k \in Ids |-> <<>>]
    /\ watcher = [k \in Ids |-> "none"]
    /\ dispatching = NoPacket
    /\ air = {}
    /\ handled = {}
    /\ session = [n \in Remotes |-> 1]
    /\ passkeys = [n \in Remotes |-> 0]

-----------------------------------------------------------------------------
(* Service.send and its callers.                                           *)

(* adminLock(node): calls to one node are serialised by their callers.     *)
AdminLockFree(n) ==
    \A k \in Ids : call[k].target = n => call[k].pc \notin {"begun", "waiting"}

(* runLocalAdmin / runRemoteAdmin: a remote's request carries the cached   *)
(* session passkey, and only the target may answer it.                     *)
Request(n, get) ==
    [pc |-> "begun", target |-> n, get |-> get,
     key |-> IF n \in Remotes THEN passkeys[n] ELSE 0, result |-> "none"]

(* Tracker.Begin: register the transaction and start its watcher.          *)
Begin(k, n, get) ==
    /\ call[k].pc = "idle"
    /\ AdminLockFree(n)
    /\ call' = [call EXCEPT ![k] = Request(n, get)]
    /\ transactions' = transactions \cup {k}
    /\ watcher' = [watcher EXCEPT ![k] = "armed"]
    /\ UNCHANGED <<reply, dispatching, passkeys, radioVars>>

Return(k, res) == call' = [call EXCEPT ![k].pc = "returned", ![k].result = res]

(* SendToRadio: the frame is on its way (the radio tells the host so with  *)
(* a loopback ack from itself), or the write fails and send returns,       *)
(* leaving the transaction to its watcher.                                 *)
LoopbackAck(k) == [type |-> "ack", from |-> Local, id |-> k, error |-> "none"]

SendToRadio(k) ==
    /\ call[k].pc = "begun"
    /\ call' = [call EXCEPT ![k].pc = "waiting"]
    /\ air' = IF call[k].target = Local THEN air ELSE air \cup {LoopbackAck(k)}
    /\ UNCHANGED <<trackerVars, handled, session, passkeys>>

SendFails(k) ==
    /\ call[k].pc = "begun"
    /\ Return(k, "send_error")
    /\ UNCHANGED <<trackerVars, passkeys, radioVars>>

ReceiveTimeout(k) ==
    /\ reply[k][1].type \in {"timeout", "cancelled"}
    /\ Return(k, reply[k][1].type)
    /\ UNCHANGED passkeys

ReceiveAdminMsg(k) ==
    LET r == reply[k][1]
        n == call[k].target
    IN  /\ r.type = "admin"
        /\ Return(k, IF r.ok THEN "admin" ELSE "nil_admin")
        /\ passkeys' = IF n \in Remotes /\ r.ok /\ r.key # 0
                       THEN [passkeys EXCEPT ![n] = r.key]
                       ELSE passkeys

(* Mutant: the refused key stays in the cache.                             *)
ReceiveRoutingAckKeepKey(k) ==
    LET r == reply[k][1]
    IN  /\ r.type = "ack"
        /\ Return(k, IF r.error = "none" THEN "acked" ELSE "refused")
        /\ UNCHANGED passkeys

ReceiveRoutingAck(k) ==
    LET r == reply[k][1]
        n == call[k].target
    IN  /\ r.type = "ack"
        /\ Return(k, IF r.error = "none" THEN "acked" ELSE "refused")
        /\ passkeys' = IF r.error = "bad_session_key" /\ n \in Remotes
                       THEN [passkeys EXCEPT ![n] = 0]
                       ELSE passkeys

(* send's wait on the reply channel.                                       *)
Receive(k) ==
    /\ call[k].pc = "waiting"
    /\ reply[k] # <<>>
    /\ ReceiveTimeout(k) \/ ReceiveAdminMsg(k) \/ ReceiveRoutingAck(k)
    /\ UNCHANGED <<trackerVars, radioVars>>

-----------------------------------------------------------------------------
(* The watcher goroutine of Begin.                                         *)

(* The deadline passes, or the caller's context is cancelled, or the       *)
(* resolution of the transaction cancelled the derived context.            *)
WatcherWakes(k, why) ==
    /\ watcher[k] = "armed"
    /\ why \in {"deadline", "cancel"}
    /\ watcher' = [watcher EXCEPT ![k] = why]
    /\ UNCHANGED <<call, transactions, reply, dispatching, passkeys, radioVars>>

(* Mutant: the watcher does not look whether the entry is still there.     *)
WatcherRemovesBlindly(k) ==
    /\ watcher[k] \in {"deadline", "cancel"}
    /\ transactions' = transactions \ {k}
    /\ watcher' = [watcher EXCEPT ![k] =
                     IF @ = "deadline" THEN "timeout" ELSE "cancelled"]
    /\ UNCHANGED <<call, reply, dispatching, passkeys, radioVars>>

(* removeAndClose: whoever deletes the entry owns the channel.             *)
WatcherRemoves(k) ==
    /\ watcher[k] \in {"deadline", "cancel"}
    /\ transactions' = transactions \ {k}
    /\ watcher' = [watcher EXCEPT ![k] =
                     IF k \notin transactions THEN "exited"
                     ELSE IF @ = "deadline" THEN "timeout" ELSE "cancelled"]
    /\ UNCHANGED <<call, reply, dispatching, passkeys, radioVars>>

(* Mutant: a watcher whose context was cancelled exits without a word.     *)
WatcherDeliversTimeoutOnly(k) ==
    /\ watcher[k] \in {"timeout", "cancelled"}
    /\ reply' = IF watcher[k] = "timeout"
                THEN [reply EXCEPT ![k] = Append(@, [type |-> watcher[k]])]
                ELSE reply
    /\ watcher' = [watcher EXCEPT ![k] = "exited"]
    /\ UNCHANGED <<call, transactions, dispatching, passkeys, radioVars>>

WatcherDelivers(k) ==
    /\ watcher[k] \in {"timeout", "cancelled"}
    /\ reply' = [reply EXCEPT ![k] = Append(@, [type |-> watcher[k]])]
    /\ watcher' = [watcher EXCEPT ![k] = "exited"]
    /\ UNCHANGED <<call, transactions, dispatching, passkeys, radioVars>>

-----------------------------------------------------------------------------
(* The dispatcher goroutine: HandleRoutingAck and HandleAdminReply.         *)

(* Resolving deletes the entry and cancels the context its watcher waits   *)
(* for; the reply is sent afterwards, outside the mutex.                   *)
Resolve(p) ==
    /\ transactions' = transactions \ {p.id}
    /\ watcher' = [watcher EXCEPT ![p.id] = IF @ = "armed" THEN "cancel" ELSE @]
    /\ dispatching' = p
    /\ UNCHANGED <<call, reply, passkeys, radioVars>>

(* Mutants of the source filter and of the two-stage resolution of Gets.   *)
HandleRoutingAckAnyFrom(p) ==
    /\ p.type = "ack"
    /\ p.id \in transactions
    /\ ~(call[p.id].get /\ p.error = "none")
    /\ Resolve(p)

HandleRoutingAckFirstWins(p) ==
    /\ p.type = "ack"
    /\ p.id \in transactions
    /\ p.from = call[p.id].target
    /\ Resolve(p)

(* A packet that passes none of the filters is dropped.                    *)
HandleRoutingAck(p) ==
    /\ p.type = "ack"
    /\ p.id \in transactions
    /\ p.from = call[p.id].target
    /\ ~(call[p.id].get /\ p.error = "none")
    /\ Resolve(p)

HandleAdminReply(p) ==
    /\ p.type = "admin"
    /\ p.id \in transactions
    /\ p.from = call[p.id].target
    /\ Resolve(p)

Dispatch ==
    /\ dispatching = NoPacket
    /\ \E p \in air : HandleRoutingAck(p) \/ HandleAdminReply(p)

DispatchDelivers ==
    /\ dispatching # NoPacket
    /\ reply' = [reply EXCEPT ![dispatching.id] = Append(@, dispatching)]
    /\ dispatching' = NoPacket
    /\ UNCHANGED <<call, transactions, watcher, passkeys, radioVars>>

-----------------------------------------------------------------------------
(* The radios (external firmware, from how fleetsec relies on it).          *)

Sent(k) == call[k].pc \in {"waiting", "returned"} /\ call[k].result # "send_error"

Answer(k, err) == [type |-> "ack", from |-> call[k].target, id |-> k, error |-> err]
AdminMsg(k, key, ok) ==
    [type |-> "admin", from |-> call[k].target, id |-> k, key |-> key, ok |-> ok]

(* The target accepts the request: a Get needs no passkey and is answered  *)
(* with the session's, a Set needs the current one, local admin needs none.*)
Accepts(k) ==
    call[k].target \in Remotes /\ ~call[k].get => call[k].key = session[call[k].target]

RadioHandles(k) ==
    /\ Sent(k) /\ k \notin handled
    /\ Accepts(k)
    /\ handled' = handled \cup {k}
    /\ \E garbled \in BOOLEAN :
          LET key == IF call[k].target = Local THEN 0 ELSE session[call[k].target]
              ack == Answer(k, IF garbled THEN "garbled" ELSE "none")
          IN  air' = air \cup {ack}
                       \cup (IF call[k].get THEN {AdminMsg(k, key, ~garbled)} ELSE {})
    /\ UNCHANGED <<call, trackerVars, passkeys, session>>

RadioRefuses(k) ==
    /\ Sent(k) /\ k \notin handled
    /\ \E err \in {"bad_session_key", "other"} :
          /\ err = "bad_session_key" <=> ~Accepts(k)
          /\ air' = air \cup {Answer(k, err)}
    /\ UNCHANGED <<call, trackerVars, passkeys, handled, session>>

(* The session expires (300 s) or the remote reboots: a new passkey.       *)
SessionExpires(n) ==
    /\ session[n] < MaxSessions
    /\ session' = [session EXCEPT ![n] = @ + 1]
    /\ UNCHANGED <<call, trackerVars, passkeys, air, handled>>

Next ==
    \/ \E k \in Ids :
          \/ \E n \in Nodes, get \in BOOLEAN : Begin(k, n, get)
          \/ SendToRadio(k) \/ SendFails(k)
          \/ Receive(k)
          \/ \E why \in {"deadline", "cancel"} : WatcherWakes(k, why)
          \/ WatcherRemoves(k) \/ WatcherDelivers(k)
          \/ RadioHandles(k) \/ RadioRefuses(k)
    \/ Dispatch \/ DispatchDelivers
    \/ \E n \in Remotes : SessionExpires(n)

Spec == Init /\ [][Next]_vars

(* Contexts expire and every runnable goroutine runs; the radios and the   *)
(* mesh owe nothing.                                                       *)
Fairness ==
    /\ \A k \in Ids : /\ WF_vars(SendToRadio(k) \/ SendFails(k))
                      /\ WF_vars(Receive(k))
                      /\ WF_vars(WatcherWakes(k, "deadline"))
                      /\ WF_vars(WatcherRemoves(k))
                      /\ WF_vars(WatcherDelivers(k))
    /\ WF_vars(DispatchDelivers)

FairSpec == Spec /\ Fairness

-----------------------------------------------------------------------------
(* Properties.                                                             *)

Begun(k) == call[k].pc # "idle"

(* Who holds the right to send on the channel of k, or has used it.        *)
Claims(k) ==
    {c \in {"map", "dispatcher", "watcher", "channel"} :
        \/ c = "map" /\ k \in transactions
        \/ c = "dispatcher" /\ dispatching # NoPacket /\ dispatching.id = k
        \/ c = "watcher" /\ watcher[k] \in {"timeout", "cancelled"}
        \/ c = "channel" /\ reply[k] # <<>>}

(* "Reply is the message delivered on a transaction's reply channel        *)
(* exactly once", and "delivery never blocks the dispatcher"               *)
(* (transactions.go:40 and :84): from Begin on exactly one party may send  *)
(* or has sent, so the capacity-1 channel is empty whenever one sends.     *)
ExactlyOneReply ==
    \A k \in Ids : Begun(k) => \E c \in Claims(k) : Claims(k) = {c}

(* A call that returns success was carried out by its target: no loopback  *)
(* ack, late packet or timeout race makes an unreachable remote "succeed"  *)
(* (transactions.go:102-111).                                              *)
NoFalseSuccess ==
    \A k \in Ids : call[k].result \in {"acked", "admin"} => k \in handled

(* A Get never returns on the ack alone: the Routing ack that races the    *)
(* AdminMessage does not win (transactions.go:126-132).                    *)
GetReturnsData ==
    \A k \in Ids : call[k].get => call[k].result # "acked"

(* From the moment a call returns with its session key refused, the cache  *)
(* never holds that key again: the next Get starts afresh                  *)
(* (service.go:381-385), however late replies and expiries interleave.     *)
WasRefused(k) ==
    /\ call[k].pc = "returned"
    /\ call[k].target \in Remotes
    /\ call[k].key # 0
    /\ reply[k] # <<>>
    /\ reply[k][1].type = "ack"
    /\ reply[k][1].error = "bad_session_key"

RefusedKeyDropped ==
    \A k \in Ids : WasRefused(k) => passkeys[call[k].target] # call[k].key

(* Every call returns, and its entry leaves the map, even when the write   *)
(* failed or the mesh stays silent.                                        *)
CallsReturn ==
    \A k \in Ids :
        Begun(k) ~> (call[k].pc = "returned" /\ k \notin transactions)
=============================================================================
