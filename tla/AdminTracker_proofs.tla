------------------------ MODULE AdminTracker_proofs ------------------------
(***************************************************************************)
(* Proofs about the admin transactions.  AdminInv is inductive: each       *)
(* transaction has one owner (OneOwner), packets say the truth about what  *)
(* the target did (AirInv), everything past the tracker's filters came     *)
(* from the air (Dispatched, Replied), and a refused key stays below the   *)
(* session it was refused in (KeysInv).                                    *)
(***************************************************************************)
EXTENDS AdminTracker, TLAPS

Active(k) == call[k].pc \in {"begun", "waiting"}

(* The four places the right to reply can be.                              *)
InMap(k) == k \in transactions
InDispatcher(k) == dispatching # NoPacket /\ dispatching.id = k
InWatcher(k) == watcher[k] \in {"timeout", "cancelled"}
InChannel(k) == reply[k] # <<>>

OneOwner ==
    \A k \in Ids :
        /\ Begun(k) => /\ InMap(k) \/ InDispatcher(k) \/ InWatcher(k) \/ InChannel(k)
                       /\ InMap(k) => ~InDispatcher(k) /\ ~InWatcher(k) /\ ~InChannel(k)
                       /\ InDispatcher(k) => ~InWatcher(k) /\ ~InChannel(k)
                       /\ InWatcher(k) => ~InChannel(k)
        /\ ~Begun(k) => /\ watcher[k] = "none" /\ call[k].result = "none"
                        /\ ~InMap(k) /\ ~InDispatcher(k) /\ ~InChannel(k)

(* What a packet in the air says about its call.                           *)
Truthful(p) ==
    /\ call[p.id].pc \in {"waiting", "returned"} /\ call[p.id].result # "send_error"
    /\ (p.type = "ack" /\ p.from = call[p.id].target /\ p.error = "none")
           => p.id \in handled
    /\ p.type = "admin" => p.id \in handled
    /\ (p.type = "admin" /\ call[p.id].target \in Remotes)
           => p.key <= session[call[p.id].target]
    /\ (p.type = "ack" /\ p.error = "bad_session_key")
           => /\ call[p.id].target \in Remotes
              /\ call[p.id].key < session[call[p.id].target]

AirInv == \A p \in air : Truthful(p)

(* The tracker's filters let p pass.                                       *)
Passed(p) ==
    /\ p \in air
    /\ p.from = call[p.id].target
    /\ ~(p.type = "ack" /\ call[p.id].get /\ p.error = "none")

Dispatched == dispatching # NoPacket => Passed(dispatching)

Replied ==
    \A k \in Ids : reply[k] # <<>> =>
        \/ reply[k][1].type \in {"timeout", "cancelled"}
        \/ reply[k][1].id = k /\ Passed(reply[k][1])

Returned ==
    \A k \in Ids :
        /\ call[k].result # "none" => call[k].pc = "returned"
        /\ call[k].pc = "returned" => call[k].result = "send_error" \/ reply[k] # <<>>
        /\ call[k].result = "acked" => k \in handled /\ ~call[k].get
        /\ call[k].result = "admin" => k \in handled

(* adminLock: at most one call per node is in flight.                      *)
OneCallPerNode ==
    \A k, l \in Ids :
        Active(k) /\ Active(l) /\ call[k].target = call[l].target => k = l

KeysInv ==
    /\ \A n \in Remotes : passkeys[n] <= session[n]
    /\ \A k \in Ids : call[k].target \in Remotes => call[k].key <= session[call[k].target]

(* No answer to a call in flight carries a key that was refused before.    *)
NoRefusedKeyComes ==
    \A k \in Ids, p \in air :
        /\ WasRefused(k)
        /\ p.type = "admin" /\ Active(p.id) /\ call[p.id].target = call[k].target
        => p.key # call[k].key

AdminInv ==
    /\ TypeOK /\ OneOwner
    /\ AirInv /\ Dispatched /\ Replied /\ Returned

(* What the session cache needs on top.                                    *)
CacheInv == OneCallPerNode /\ KeysInv /\ NoRefusedKeyComes /\ RefusedKeyDropped

SessionInv == AdminInv /\ CacheInv

-----------------------------------------------------------------------------
(* Facts about data.                                                       *)

(* The fields of a packet, and that no packet is NoPacket.                 *)
LEMMA PacketFields ==
    ASSUME NEW p \in Packets
    PROVE  /\ p.id \in Ids /\ p.from \in Nodes
           /\ p.type = "ack" \/ p.type = "admin"
           /\ p.type = "ack" => p.error \in RoutingErrors
           /\ p.type = "admin" => p.key \in Keys /\ p.ok \in BOOLEAN
           /\ p # NoPacket
<1>1. CASE p \in [type : {"ack"}, from : Nodes, id : Ids, error : RoutingErrors]
  BY <1>1 DEF NoPacket
<1>2. CASE p \in [type : {"admin"}, from : Nodes, id : Ids, key : Keys, ok : BOOLEAN]
  BY <1>2 DEF NoPacket
<1> QED BY <1>1, <1>2 DEF Packets

(* Sending on an empty channel fills it with that reply.                   *)
LEMMA FirstReply ==
    ASSUME NEW r \in Replies
    PROVE  /\ Append(<<>>, r) = <<r>> /\ <<r>> \in Channel
           /\ <<r>> # <<>> /\ <<r>>[1] = r
BY DEF Channel

(* A channel that is not empty holds one reply.                            *)
LEMMA HeldReply ==
    ASSUME NEW c \in Channel, c # <<>>
    PROVE  c[1] \in Replies
BY DEF Channel

(* The records TypeOK gives to calls, and the two ways send moves one on.  *)
CallType == [pc : {"idle", "begun", "waiting", "returned"}, target : Nodes,
             get : BOOLEAN, key : Keys, result : Results]

LEMMA CallMoves ==
    ASSUME TypeOK, NEW k \in Ids
    PROVE  /\ call \in [Ids -> CallType]
           /\ [call EXCEPT ![k].pc = "waiting"] \in [Ids -> CallType]
           /\ \A res \in Results :
                 [call EXCEPT ![k].pc = "returned", ![k].result = res] \in [Ids -> CallType]
<1>1. call \in [Ids -> CallType]
  BY DEF TypeOK, CallType
<1>2. [call[k] EXCEPT !.pc = "waiting"] \in CallType
  BY <1>1 DEF CallType
<1>3. ASSUME NEW res \in Results
      PROVE  [[call[k] EXCEPT !.pc = "returned"] EXCEPT !.result = res] \in CallType
  BY <1>1 DEF CallType
<1> QED BY <1>1, <1>2, <1>3

LEMMA ReplyFields ==
    ASSUME NEW r \in Replies, r.type \notin {"timeout", "cancelled"}
    PROVE  r \in Packets
BY DEF Replies

-----------------------------------------------------------------------------
(* AdminInv is inductive.                                                  *)

LEMMA AdminInvInit == Init => AdminInv
<1> SUFFICES ASSUME Init PROVE AdminInv
  OBVIOUS
<1>1. TypeOK
  BY SessionsAssumption DEF Init, TypeOK, Channel, Nodes, Keys, Results, NoPacket
<1>2. OneOwner
  BY DEF Init, OneOwner, Begun, InMap, InDispatcher, InWatcher, InChannel
<1>3. AirInv /\ Dispatched /\ Replied
  BY DEF Init, AirInv, Dispatched, Replied
<1>4. Returned
  BY DEF Init, Returned
<1> QED BY <1>1, <1>2, <1>3, <1>4 DEF AdminInv

LEMMA BeginKeeps ==
    ASSUME AdminInv, NEW k \in Ids, NEW n \in Nodes, NEW get \in BOOLEAN, Begin(k, n, get)
    PROVE  AdminInv'
<1> USE DEF AdminInv, Begin, radioVars
<1>1. Request(n, get) \in CallType
  <2>1. (IF n \in Remotes THEN passkeys[n] ELSE 0) \in Keys
    BY SessionsAssumption DEF TypeOK, Keys
  <2> QED BY <2>1 DEF Request, CallType, Results
<1>2. TypeOK'
  BY <1>1 DEF TypeOK, CallType
<1>3. /\ call'[k].pc = "begun" /\ call'[k].result = "none"
      /\ \A l \in Ids \ {k} : call'[l] = call[l]
  BY DEF TypeOK, Request
<1>4. OneOwner'
  BY <1>3 DEF TypeOK, OneOwner, Begun, InMap, InDispatcher, InWatcher, InChannel
<1>5. \A p \in air : p \in Packets /\ p.id # k /\ p.id \in Ids /\ call'[p.id] = call[p.id]
  BY <1>3, PacketFields DEF TypeOK, AirInv, Truthful
<1>6. AirInv'
  BY <1>5 DEF AirInv, Truthful
<1>7. Dispatched'
  BY <1>5 DEF Dispatched, Passed
<1>8. Replied'
  BY <1>5 DEF Replied, Passed
<1>9. Returned'
  BY <1>3 DEF Returned
<1> QED BY <1>2, <1>4, <1>6, <1>7, <1>8, <1>9

(* A write that starts or fails: at most a loopback ack is added.          *)
LEMMA SendKeeps ==
    ASSUME AdminInv, NEW k \in Ids, SendToRadio(k) \/ SendFails(k)
    PROVE  AdminInv'
<1> USE DEF AdminInv
<1>1. /\ call[k].pc = "begun"
      /\ UNCHANGED <<trackerVars, handled, session, passkeys>>
      /\ \/ call' = [call EXCEPT ![k].pc = "waiting"]
         \/ call' = [call EXCEPT ![k].pc = "returned", ![k].result = "send_error"]
  BY DEF SendToRadio, SendFails, Return, radioVars
<1>2. /\ \A l \in Ids : call'[l].target = call[l].target /\ call'[l].get = call[l].get
                         /\ call'[l].key = call[l].key
      /\ \A l \in Ids \ {k} : call'[l] = call[l]
      /\ call'[k].pc # "idle"
      /\ \/ call'[k].pc = "waiting" /\ call'[k].result = call[k].result
         \/ call'[k].pc = "returned" /\ call'[k].result = "send_error"
  BY <1>1 DEF TypeOK
<1>3. \A p \in air : p \in Packets /\ p.id # k /\ p.id \in Ids /\ call'[p.id] = call[p.id]
  BY <1>1, <1>2, PacketFields DEF TypeOK, AirInv, Truthful
<1>4. \A p \in air' : p \in air \/ (p = LoopbackAck(k) /\ SendToRadio(k) /\ call[k].target # Local)
  BY DEF SendToRadio, SendFails, radioVars
<1>5. LoopbackAck(k) \in Packets
  BY DEF LoopbackAck, Packets, Nodes, RoutingErrors
<1>6. air \subseteq air'
  BY DEF SendToRadio, SendFails, radioVars
<1>7. TypeOK'
  <2>1. call' \in [Ids -> CallType]
    <3>1. "send_error" \in Results
      BY DEF Results
    <3>2. /\ [call EXCEPT ![k].pc = "waiting"] \in [Ids -> CallType]
          /\ [call EXCEPT ![k].pc = "returned", ![k].result = "send_error"] \in [Ids -> CallType]
      BY <3>1, CallMoves, Zenon
    <3> QED BY <1>1, <3>2, Zenon
  <2> QED BY <1>1, <1>4, <1>5, <2>1 DEF TypeOK, trackerVars, CallType
<1>8. OneOwner'
  BY <1>1, <1>2 DEF TypeOK, OneOwner, Begun, InMap, InDispatcher, InWatcher, InChannel, trackerVars
<1>9. AirInv'
  <2> SUFFICES ASSUME NEW p \in air' PROVE Truthful(p)'
    BY DEF AirInv
  <2>1. CASE p \in air
    BY <1>1, <1>3, <2>1 DEF AirInv, Truthful
  <2>2. CASE p = LoopbackAck(k) /\ SendToRadio(k) /\ call[k].target # Local
    <3>1. call'[k].pc = "waiting" /\ call'[k].result # "send_error"
      BY <1>1, <1>2, <2>2 DEF TypeOK, SendToRadio, Returned
    <3> QED BY <1>2, <2>2, <3>1 DEF Truthful, LoopbackAck
  <2> QED BY <1>4, <2>1, <2>2
<1>10. Dispatched'
  BY <1>1, <1>3, <1>6 DEF Dispatched, Passed, trackerVars
<1>11. Replied'
  BY <1>1, <1>3, <1>6 DEF Replied, Passed, trackerVars
<1>12. Returned'
  BY <1>1, <1>2 DEF Returned, trackerVars, TypeOK
<1> QED BY <1>7, <1>8, <1>9, <1>10, <1>11, <1>12

(* The reply a waiting call finds decides its result.                      *)
LEMMA ReceiveKeeps ==
    ASSUME AdminInv, NEW k \in Ids, Receive(k)
    PROVE  AdminInv'
<1> USE DEF AdminInv
<1> DEFINE r == reply[k][1]
<1>1. r \in Replies
  BY HeldReply DEF Receive, TypeOK
<1>2. /\ call[k].pc = "waiting" /\ reply[k] # <<>>
      /\ UNCHANGED <<trackerVars, radioVars>>
  BY DEF Receive
<1>3. ASSUME r.type \in {"ack", "admin"}
      PROVE  r \in Packets /\ r.id = k /\ Passed(r) /\ Truthful(r)
  BY <1>1, <1>2, <1>3, ReplyFields DEF Replied, AirInv, Passed
<1>4. PICK res \in Results :
         /\ Return(k, res)
         /\ res # "none" /\ res # "send_error"
         /\ res = "acked" => k \in handled /\ ~call[k].get
         /\ res = "admin" => k \in handled
  <2>1. CASE ReceiveTimeout(k)
    BY <2>1 DEF ReceiveTimeout, Results
  <2>2. CASE ReceiveAdminMsg(k)
    BY <1>3, <2>2 DEF ReceiveAdminMsg, Results, Truthful
  <2>3. CASE ReceiveRoutingAck(k)
    BY <1>3, <2>3 DEF ReceiveRoutingAck, Results, Truthful, Passed
  <2> QED BY <2>1, <2>2, <2>3 DEF Receive
<1>5. /\ \A l \in Ids : call'[l].target = call[l].target /\ call'[l].get = call[l].get
      /\ \A l \in Ids \ {k} : call'[l] = call[l]
      /\ call'[k].pc = "returned" /\ call'[k].result = res
      /\ \A l \in Ids : call'[l].key = call[l].key
  BY <1>4 DEF TypeOK, Return
<1>6. passkeys' \in [Remotes -> Keys]
  <2>1. CASE ReceiveTimeout(k)
    BY <2>1 DEF ReceiveTimeout, TypeOK
  <2>2. CASE ReceiveAdminMsg(k)
    BY <1>3, <2>2, PacketFields DEF ReceiveAdminMsg, TypeOK
  <2>3. CASE ReceiveRoutingAck(k)
    BY <2>3, SessionsAssumption DEF ReceiveRoutingAck, TypeOK, Keys
  <2> QED BY <2>1, <2>2, <2>3 DEF Receive
<1>7. TypeOK'
  <2>1. call' \in [Ids -> CallType]
    BY <1>4, CallMoves, Zenon DEF Return
  <2> QED BY <1>2, <1>6, <2>1 DEF TypeOK, CallType, trackerVars, radioVars
<1>8. OneOwner'
  BY <1>2, <1>5 DEF OneOwner, Begun, InMap, InDispatcher, InWatcher, InChannel, trackerVars
<1>9. \A p \in air : p \in Packets /\ p.id \in Ids
  BY PacketFields DEF TypeOK
<1>10. AirInv'
  BY <1>2, <1>4, <1>5, <1>9 DEF AirInv, Truthful, radioVars
<1>11. Dispatched'
  BY <1>2, <1>5, <1>9 DEF Dispatched, Passed, trackerVars, radioVars
<1>12. Replied'
  BY <1>2, <1>5, <1>9 DEF Replied, Passed, trackerVars, radioVars
<1>13. Returned'
  BY <1>2, <1>4, <1>5 DEF Returned, trackerVars, radioVars
<1> QED BY <1>7, <1>8, <1>10, <1>11, <1>12, <1>13

(* Waking a watcher, or removing the entry, moves no reply.                *)
LEMMA WatcherMovesKeep ==
    ASSUME AdminInv, NEW k \in Ids,
           (\E why \in {"deadline", "cancel"} : WatcherWakes(k, why)) \/ WatcherRemoves(k)
    PROVE  AdminInv'
<1> USE DEF AdminInv
<1>1. UNCHANGED <<call, reply, dispatching, passkeys, radioVars>>
  BY DEF WatcherWakes, WatcherRemoves
<1>2. TypeOK'
  BY <1>1 DEF TypeOK, WatcherWakes, WatcherRemoves, radioVars
<1>3. OneOwner'
  <2>1. CASE \E why \in {"deadline", "cancel"} : WatcherWakes(k, why)
    BY <2>1 DEF TypeOK, OneOwner, Begun, InMap, InDispatcher, InWatcher, InChannel, WatcherWakes
  <2>2. CASE WatcherRemoves(k)
    BY <2>2 DEF TypeOK, OneOwner, Begun, InMap, InDispatcher, InWatcher, InChannel, WatcherRemoves
  <2> QED BY <2>1, <2>2
<1>4. AirInv' /\ Dispatched' /\ Replied' /\ Returned'
  BY <1>1 DEF AirInv, Truthful, Dispatched, Passed, Replied, Returned, radioVars
<1> QED BY <1>2, <1>3, <1>4

(* A watcher that owns the transaction finds the channel empty.            *)
LEMMA WatcherDeliversKeeps ==
    ASSUME AdminInv, NEW k \in Ids, WatcherDelivers(k)
    PROVE  AdminInv'
<1> USE DEF AdminInv
<1>1. UNCHANGED <<call, transactions, dispatching, passkeys, radioVars>>
  BY DEF WatcherDelivers
<1> DEFINE r == [type |-> watcher[k]]
<1>2. r \in Replies /\ r.type \in {"timeout", "cancelled"}
  BY DEF Replies, WatcherDelivers
<1>3. Begun(k) /\ reply[k] = <<>> /\ k \notin transactions /\ ~InDispatcher(k)
  BY DEF WatcherDelivers, OneOwner, InWatcher, InChannel, InMap
<1>4. /\ reply' = [reply EXCEPT ![k] = <<r>>]
      /\ reply'[k] = <<r>> /\ reply'[k] # <<>> /\ reply'[k][1] = r
      /\ \A l \in Ids \ {k} : reply'[l] = reply[l]
  BY <1>2, <1>3, FirstReply DEF WatcherDelivers, TypeOK
<1>5. TypeOK'
  BY <1>1, <1>2, <1>4, FirstReply, ZenonT(60) DEF TypeOK, WatcherDelivers, radioVars
<1>6. OneOwner'
  BY <1>1, <1>3, <1>4 DEF TypeOK, OneOwner, Begun, InMap, InDispatcher, InWatcher, InChannel, WatcherDelivers
<1>7. AirInv' /\ Dispatched'
  BY <1>1 DEF AirInv, Truthful, Dispatched, Passed, radioVars
<1>8. Replied'
  BY <1>1, <1>2, <1>4 DEF Replied, Passed, radioVars
<1>9. Returned'
  BY <1>1, <1>4 DEF Returned, radioVars
<1> QED BY <1>5, <1>6, <1>7, <1>8, <1>9

(* A packet that passes the filters takes the right to reply from the map. *)
LEMMA DispatchKeeps ==
    ASSUME AdminInv, Dispatch
    PROVE  AdminInv'
<1> USE DEF AdminInv
<1>1. PICK p \in air : HandleRoutingAck(p) \/ HandleAdminReply(p)
  BY DEF Dispatch
<1>2. p \in Packets /\ p.id \in Ids /\ p # NoPacket
  BY PacketFields DEF TypeOK
<1>3. p.id \in transactions /\ Passed(p) /\ Resolve(p)
  BY <1>1 DEF HandleRoutingAck, HandleAdminReply, Passed
<1>4. TypeOK'
  BY <1>2, <1>3 DEF TypeOK, Resolve, radioVars
<1>5. OneOwner'
  BY <1>2, <1>3 DEF Dispatch, TypeOK, OneOwner, Begun, InMap, InDispatcher, InWatcher,
                    InChannel, Resolve
<1>6. AirInv' /\ Dispatched' /\ Replied' /\ Returned'
  BY <1>3 DEF AirInv, Truthful, Dispatched, Passed, Replied, Returned, Resolve, radioVars
<1> QED BY <1>4, <1>5, <1>6

(* The dispatcher's send finds the channel empty: it never blocks.         *)
LEMMA DispatchDeliversKeeps ==
    ASSUME AdminInv, DispatchDelivers
    PROVE  AdminInv'
<1> USE DEF AdminInv
<1> DEFINE p == dispatching
           k == p.id
<1>1. UNCHANGED <<call, transactions, watcher, passkeys, radioVars>> /\ p # NoPacket
  BY DEF DispatchDelivers
<1>2. p \in Packets /\ k \in Ids /\ p \in Replies /\ Passed(p)
  BY <1>1, PacketFields DEF TypeOK, Replies, Dispatched
<1>3. Begun(k) /\ reply[k] = <<>> /\ k \notin transactions /\ ~InWatcher(k)
  BY <1>1, <1>2 DEF OneOwner, InDispatcher, InChannel, InMap
<1>4. /\ reply' = [reply EXCEPT ![k] = <<p>>]
      /\ reply'[k] = <<p>> /\ reply'[k] # <<>> /\ reply'[k][1] = p
      /\ \A l \in Ids \ {k} : reply'[l] = reply[l]
  BY <1>2, <1>3, FirstReply DEF DispatchDelivers, TypeOK
<1>5. dispatching' = NoPacket
  BY DEF DispatchDelivers
<1>6. TypeOK'
  BY <1>1, <1>2, <1>4, <1>5, FirstReply DEF TypeOK, radioVars
<1>7. OneOwner'
  BY <1>1, <1>3, <1>4, <1>5 DEF OneOwner, Begun, InMap, InDispatcher, InWatcher, InChannel
<1>8. AirInv' /\ Dispatched'
  BY <1>1, <1>5 DEF AirInv, Truthful, Dispatched, radioVars
<1>9. Replied'
  BY <1>1, <1>2, <1>4 DEF Replied, Passed, radioVars
<1>10. Returned'
  BY <1>1, <1>4 DEF Returned, radioVars
<1> QED BY <1>6, <1>7, <1>8, <1>9, <1>10

(* The radios add packets that tell what they did.                         *)
LEMMA RadioHandlesKeeps ==
    ASSUME AdminInv, NEW k \in Ids, RadioHandles(k)
    PROVE  AdminInv'
<1> USE DEF AdminInv
<1> DEFINE n == call[k].target
           key == IF n = Local THEN 0 ELSE session[n]
<1>1. UNCHANGED <<call, trackerVars, passkeys, session>> /\ handled' = handled \cup {k}
  BY DEF RadioHandles
<1>2. n \in Nodes /\ key \in Keys /\ (n \in Remotes => key = session[n] /\ session[n] \in Nat)
  BY NodesAssumption, SessionsAssumption DEF TypeOK, Nodes, Keys
<1>3. PICK garbled \in BOOLEAN :
         air' = air \cup {Answer(k, IF garbled THEN "garbled" ELSE "none")}
                    \cup (IF call[k].get THEN {AdminMsg(k, key, ~garbled)} ELSE {})
  BY DEF RadioHandles
<1>4. Answer(k, IF garbled THEN "garbled" ELSE "none") \in Packets
  BY <1>2 DEF Answer, Packets, RoutingErrors
<1>5. AdminMsg(k, key, ~garbled) \in Packets
  BY <1>2 DEF AdminMsg, Packets
<1>6. Sent(k)
  BY DEF RadioHandles
<1>7. TypeOK'
  BY <1>1, <1>3, <1>4, <1>5 DEF TypeOK, trackerVars
<1>8. OneOwner' /\ Returned'
  BY <1>1 DEF OneOwner, Begun, InMap, InDispatcher, InWatcher, InChannel, Returned, trackerVars
<1>9. AirInv'
  <2> SUFFICES ASSUME NEW p \in air' PROVE Truthful(p)'
    BY DEF AirInv
  <2>1. CASE p \in air
    BY <1>1, <2>1 DEF AirInv, Truthful
  <2>2. CASE p = Answer(k, IF garbled THEN "garbled" ELSE "none")
    BY <1>1, <1>6, <2>2 DEF Truthful, Answer, Sent
  <2>3. CASE p = AdminMsg(k, key, ~garbled)
    BY <1>1, <1>2, <1>6, <2>3 DEF Truthful, AdminMsg, Sent
  <2> QED BY <1>3, <2>1, <2>2, <2>3
<1>10. Dispatched' /\ Replied'
  BY <1>1, <1>3 DEF Dispatched, Replied, Passed, trackerVars
<1> QED BY <1>7, <1>8, <1>9, <1>10

LEMMA RadioRefusesKeeps ==
    ASSUME AdminInv, KeysInv, NEW k \in Ids, RadioRefuses(k)
    PROVE  AdminInv'
<1> USE DEF AdminInv
<1> DEFINE n == call[k].target
<1>1. UNCHANGED <<call, trackerVars, passkeys, session, handled>> /\ Sent(k)
  BY DEF RadioRefuses
<1>2. PICK err \in {"bad_session_key", "other"} :
         /\ err = "bad_session_key" <=> ~Accepts(k)
         /\ air' = air \cup {Answer(k, err)}
  BY DEF RadioRefuses
<1>3. Answer(k, err) \in Packets
  BY DEF Answer, Packets, RoutingErrors, TypeOK
<1>4. err = "bad_session_key" => n \in Remotes /\ call[k].key < session[n]
  <2> SUFFICES ASSUME err = "bad_session_key"
               PROVE  n \in Remotes /\ call[k].key < session[n]
    OBVIOUS
  <2>1. n \in Remotes /\ call[k].key # session[n]
    BY <1>2 DEF Accepts
  <2>2. call[k].key \in Nat /\ session[n] \in Nat
    BY <2>1, SessionsAssumption DEF TypeOK, Keys
  <2> QED BY <2>1, <2>2 DEF KeysInv
<1>5. TypeOK'
  BY <1>1, <1>2, <1>3 DEF TypeOK, trackerVars
<1>6. OneOwner' /\ Returned'
  BY <1>1 DEF OneOwner, Begun, InMap, InDispatcher, InWatcher, InChannel, Returned, trackerVars
<1>7. AirInv'
  <2> SUFFICES ASSUME NEW p \in air' PROVE Truthful(p)'
    BY DEF AirInv
  <2>1. CASE p \in air
    BY <1>1, <2>1 DEF AirInv, Truthful
  <2>2. CASE p = Answer(k, err)
    BY <1>1, <1>4, <2>2 DEF Truthful, Answer, Sent
  <2> QED BY <1>2, <2>1, <2>2
<1>8. Dispatched' /\ Replied'
  BY <1>1, <1>2 DEF Dispatched, Replied, Passed, trackerVars
<1> QED BY <1>5, <1>6, <1>7, <1>8

LEMMA SessionExpiresKeeps ==
    ASSUME AdminInv, NEW n \in Remotes, SessionExpires(n)
    PROVE  AdminInv'
<1> USE DEF AdminInv
<1>1. UNCHANGED <<call, trackerVars, passkeys, air, handled>>
  BY DEF SessionExpires
<1>2. /\ session' \in [Remotes -> Keys]
      /\ \A m \in Remotes : session[m] \in Nat /\ session'[m] \in Nat /\ session[m] <= session'[m]
  BY SessionsAssumption DEF SessionExpires, TypeOK, Keys
<1>3. TypeOK'
  BY <1>1, <1>2 DEF TypeOK, trackerVars
<1>4. OneOwner' /\ Returned' /\ Dispatched' /\ Replied'
  BY <1>1 DEF OneOwner, Begun, InMap, InDispatcher, InWatcher, InChannel, Returned,
              Dispatched, Replied, Passed, trackerVars
<1>5. \A p \in air : /\ p.id \in Ids /\ call[p.id].key \in Nat
                     /\ p.type = "admin" => p.key \in Nat
  BY PacketFields DEF TypeOK, Keys
<1>6. AirInv'
  BY <1>1, <1>2, <1>5 DEF AirInv, Truthful
<1> QED BY <1>3, <1>4, <1>6

-----------------------------------------------------------------------------
(* CacheInv is inductive relative to AdminInv.                             *)

LEMMA CacheInvInit == Init => CacheInv
BY DEF Init, CacheInv, OneCallPerNode, Active, KeysInv, NoRefusedKeyComes,
       RefusedKeyDropped, WasRefused

(* A refused key lies below the session of its node.                       *)
LEMMA RefusedBelowSession ==
    ASSUME AdminInv, NEW k \in Ids, WasRefused(k)
    PROVE  call[k].key < session[call[k].target]
BY DEF AdminInv, WasRefused, Replied, Passed, AirInv, Truthful

(* Calls, passkeys, radios and the refused replies stay as they are.       *)
LEMMA CacheUntouched ==
    ASSUME CacheInv, UNCHANGED <<call, passkeys, radioVars>>,
           \A k \in Ids : WasRefused(k)' => WasRefused(k)
    PROVE  CacheInv'
BY DEF CacheInv, OneCallPerNode, Active, KeysInv, NoRefusedKeyComes, RefusedKeyDropped, radioVars

LEMMA BeginKeepsCache ==
    ASSUME SessionInv, NEW k \in Ids, NEW n \in Nodes, NEW get \in BOOLEAN, Begin(k, n, get)
    PROVE  CacheInv'
<1> USE DEF SessionInv, AdminInv, CacheInv, Begin, radioVars
<1>1. /\ call'[k].pc = "begun" /\ call'[k].target = n
      /\ n \in Remotes => call'[k].key = passkeys[n]
      /\ \A l \in Ids \ {k} : call'[l] = call[l]
  BY DEF TypeOK, Request
<1>2. OneCallPerNode'
  BY <1>1 DEF OneCallPerNode, Active, AdminLockFree
<1>3. KeysInv'
  BY <1>1 DEF KeysInv
<1>4. \A l \in Ids : WasRefused(l)' => l # k /\ WasRefused(l) /\ call'[l] = call[l]
  BY <1>1 DEF WasRefused
<1>5. \A p \in air : p.id \in Ids \ {k}
  BY PacketFields DEF TypeOK, AirInv, Truthful
<1>6. NoRefusedKeyComes'
  BY <1>1, <1>4, <1>5 DEF NoRefusedKeyComes, Active
<1>7. RefusedKeyDropped'
  BY <1>4 DEF RefusedKeyDropped
<1> QED BY <1>2, <1>3, <1>6, <1>7

LEMMA SendKeepsCache ==
    ASSUME SessionInv, NEW k \in Ids, SendToRadio(k) \/ SendFails(k)
    PROVE  CacheInv'
<1> USE DEF SessionInv, AdminInv, CacheInv
<1>1. /\ call[k].pc = "begun"
      /\ UNCHANGED <<trackerVars, handled, session, passkeys>>
      /\ \/ call' = [call EXCEPT ![k].pc = "waiting"]
         \/ call' = [call EXCEPT ![k].pc = "returned", ![k].result = "send_error"]
  BY DEF SendToRadio, SendFails, Return, radioVars
<1>2. /\ \A l \in Ids : call'[l].target = call[l].target /\ call'[l].key = call[l].key
      /\ \A l \in Ids \ {k} : call'[l] = call[l]
  BY <1>1 DEF TypeOK
<1>3. \A p \in air' : p.type = "admin" => p \in air
  BY DEF SendToRadio, SendFails, radioVars, LoopbackAck
<1>4. OneCallPerNode' /\ KeysInv'
  BY <1>1, <1>2 DEF OneCallPerNode, Active, KeysInv
<1>5. ~WasRefused(k)'
  <2> SUFFICES ASSUME WasRefused(k)' PROVE FALSE
    OBVIOUS
  <2>1. reply[k] # <<>> /\ reply[k][1].type = "ack"
    BY <1>1 DEF WasRefused, trackerVars
  <2>2. reply[k][1].id = k /\ reply[k][1] \in air
    BY <2>1 DEF Replied, Passed
  <2> QED BY <1>1, <2>2 DEF AirInv, Truthful
<1>6. \A l \in Ids : WasRefused(l)' => l # k /\ WasRefused(l)
  BY <1>1, <1>2, <1>5 DEF WasRefused, trackerVars
<1>7. RefusedKeyDropped'
  BY <1>1, <1>2, <1>6 DEF RefusedKeyDropped
<1>8. \A p \in air : p.id \in Ids \ {k}
  BY <1>1, PacketFields DEF TypeOK, AirInv, Truthful
<1>9. NoRefusedKeyComes'
  BY <1>2, <1>3, <1>6, <1>8 DEF NoRefusedKeyComes, Active
<1> QED BY <1>4, <1>7, <1>9

LEMMA ReceiveKeepsCache ==
    ASSUME SessionInv, NEW k \in Ids, Receive(k)
    PROVE  CacheInv'
<1> USE DEF SessionInv, AdminInv, CacheInv
<1> DEFINE r == reply[k][1]
           n == call[k].target
<1>1. /\ call[k].pc = "waiting" /\ reply[k] # <<>>
      /\ UNCHANGED <<trackerVars, radioVars>>
  BY DEF Receive
<1>2. /\ \A l \in Ids : call'[l].target = call[l].target /\ call'[l].key = call[l].key
      /\ \A l \in Ids \ {k} : call'[l] = call[l]
      /\ call'[k].pc = "returned"
  BY DEF Receive, ReceiveTimeout, ReceiveAdminMsg, ReceiveRoutingAck, Return, TypeOK
<1>3. r \in Replies
  BY <1>1, HeldReply DEF TypeOK
<1>4. ASSUME r.type \in {"ack", "admin"}
      PROVE  r \in Packets /\ r.id = k /\ r \in air /\ Truthful(r)
  BY <1>1, <1>3, <1>4, ReplyFields DEF Replied, AirInv, Passed
<1>5. OneCallPerNode'
  BY <1>2 DEF OneCallPerNode, Active
<1>6. /\ \A m \in Remotes \ {n} : passkeys'[m] = passkeys[m]
      /\ n \in Remotes =>
            \/ passkeys'[n] = passkeys[n] /\ ~(r.type = "ack" /\ r.error = "bad_session_key")
            \/ passkeys'[n] = 0
            \/ r.type = "admin" /\ passkeys'[n] = r.key
  BY DEF Receive, ReceiveTimeout, ReceiveAdminMsg, ReceiveRoutingAck, TypeOK
<1>7. KeysInv'
  <2>1. \A m \in Remotes : session[m] \in Nat
    BY SessionsAssumption DEF TypeOK, Keys
  <2>2. \A m \in Remotes : passkeys'[m] <= session[m]
    BY <1>4, <1>6, <2>1 DEF KeysInv, Truthful
  <2> QED BY <1>1, <1>2, <2>2 DEF KeysInv, radioVars
<1>8. \A l \in Ids : WasRefused(l)' => l = k \/ WasRefused(l)
  BY <1>1, <1>2 DEF WasRefused, trackerVars
<1>9. RefusedKeyDropped'
  <2> SUFFICES ASSUME NEW l \in Ids, WasRefused(l)'
               PROVE  passkeys'[call[l].target] # call[l].key
    BY <1>2 DEF RefusedKeyDropped
  <2>1. call[l].target \in Remotes /\ call[l].key # 0
    BY <1>2 DEF WasRefused
  <2>2. CASE l = k
    BY <1>1, <1>6, <2>1, <2>2 DEF WasRefused, trackerVars
  <2>3. CASE l # k /\ call[l].target # n
    BY <1>6, <1>8, <2>1, <2>3 DEF RefusedKeyDropped
  <2>4. CASE l # k /\ call[l].target = n
    <3>1. WasRefused(l) /\ passkeys[n] # call[l].key
      BY <1>8, <2>4 DEF RefusedKeyDropped
    <3>2. r.type = "admin" => r.key # call[l].key
      BY <1>1, <1>4, <2>4, <3>1 DEF NoRefusedKeyComes, Active
    <3> QED BY <1>6, <2>1, <2>4, <3>1, <3>2
  <2> QED BY <2>2, <2>3, <2>4
<1>10. NoRefusedKeyComes'
  <2> SUFFICES ASSUME NEW l \in Ids, NEW p \in air, WasRefused(l)', p.type = "admin",
                      Active(p.id)', call'[p.id].target = call'[l].target
               PROVE  p.key # call'[l].key
    BY <1>1 DEF NoRefusedKeyComes, radioVars
  <2>1. p.id \in Ids
    BY PacketFields DEF TypeOK
  <2>2. p.id # k /\ Active(p.id) /\ call[p.id].target = call[l].target
    BY <1>2, <2>1 DEF Active
  <2>3. l # k
    BY <1>1, <2>1, <2>2 DEF OneCallPerNode, Active
  <2> QED BY <1>2, <1>8, <2>2, <2>3 DEF NoRefusedKeyComes
<1> QED BY <1>5, <1>7, <1>9, <1>10

(* A delivered timeout refuses nothing, and a packet is delivered only     *)
(* while its call is still waiting.                                        *)
LEMMA DeliveryKeepsCache ==
    ASSUME SessionInv,
           (\E k \in Ids : WatcherDelivers(k)) \/ DispatchDelivers
    PROVE  CacheInv'
<1> USE DEF SessionInv, AdminInv
<1>1. CASE \E k \in Ids : WatcherDelivers(k)
  <2>1. PICK k \in Ids : WatcherDelivers(k)
    BY <1>1
  <2>2. reply[k] = <<>> /\ [type |-> watcher[k]] \in Replies
    BY <2>1 DEF WatcherDelivers, OneOwner, InWatcher, InChannel, Replies
  <2>3. /\ reply'[k][1].type \in {"timeout", "cancelled"}
        /\ \A l \in Ids \ {k} : reply'[l] = reply[l]
    BY <2>1, <2>2, FirstReply DEF WatcherDelivers, TypeOK
  <2>4. UNCHANGED <<call, passkeys, radioVars>>
    BY <2>1 DEF WatcherDelivers
  <2>5. \A l \in Ids : WasRefused(l)' => WasRefused(l)
    BY <2>3, <2>4 DEF WasRefused
  <2> QED BY <2>4, <2>5, CacheUntouched
<1>2. CASE DispatchDelivers
  <2> DEFINE k == dispatching.id
  <2>1. k \in Ids /\ dispatching \in air /\ InDispatcher(k)
    BY <1>2, PacketFields DEF DispatchDelivers, TypeOK, Dispatched, Passed, InDispatcher
  <2>2. call[k].pc # "returned"
    BY <2>1 DEF OneOwner, InChannel, Begun, Returned, AirInv, Truthful
  <2>3. UNCHANGED <<call, passkeys, radioVars>> /\ \A l \in Ids \ {k} : reply'[l] = reply[l]
    BY <1>2, <2>1 DEF DispatchDelivers, TypeOK
  <2>4. \A l \in Ids : WasRefused(l)' => WasRefused(l)
    BY <2>2, <2>3 DEF WasRefused
  <2> QED BY <2>3, <2>4, CacheUntouched
<1> QED BY <1>1, <1>2

LEMMA RadioKeepsCache ==
    ASSUME SessionInv, NEW k \in Ids, RadioHandles(k) \/ RadioRefuses(k)
    PROVE  CacheInv'
<1> USE DEF SessionInv, AdminInv, CacheInv
<1>1. UNCHANGED <<call, trackerVars, passkeys, session>>
  BY DEF RadioHandles, RadioRefuses
<1>2. \A p \in air' : p.type = "admin" =>
        \/ p \in air
        \/ p.id = k /\ (call[k].target \in Remotes => p.key = session[call[k].target])
  BY NodesAssumption DEF RadioHandles, RadioRefuses, Answer, AdminMsg
<1>3. OneCallPerNode' /\ KeysInv' /\ RefusedKeyDropped'
  BY <1>1 DEF OneCallPerNode, Active, KeysInv, RefusedKeyDropped, WasRefused, trackerVars
<1>4. \A l \in Ids : WasRefused(l)' =>
        /\ WasRefused(l) /\ call[l].target \in Remotes
        /\ call[l].key \in Nat /\ session[call[l].target] \in Nat
        /\ call[l].key < session[call[l].target]
  <2>1. \A l \in Ids : WasRefused(l)' => WasRefused(l)
    BY <1>1 DEF WasRefused, trackerVars
  <2>2. \A l \in Ids : WasRefused(l) => call[l].key < session[call[l].target]
    BY RefusedBelowSession
  <2> QED BY <2>1, <2>2, SessionsAssumption DEF WasRefused, TypeOK, Keys
<1>5. NoRefusedKeyComes'
  BY <1>1, <1>2, <1>4 DEF NoRefusedKeyComes, Active
<1> QED BY <1>3, <1>5

LEMMA SessionExpiresKeepsCache ==
    ASSUME SessionInv, NEW n \in Remotes, SessionExpires(n)
    PROVE  CacheInv'
<1> USE DEF SessionInv, AdminInv, CacheInv, SessionExpires
<1>1. \A m \in Remotes : /\ session[m] \in Nat /\ session'[m] \in Nat /\ passkeys[m] \in Nat
                         /\ session[m] <= session'[m]
  BY SessionsAssumption DEF TypeOK, Keys
<1>2. \A k \in Ids : call[k].key \in Nat
  BY SessionsAssumption DEF TypeOK, Keys
<1>3. KeysInv'
  BY <1>1, <1>2 DEF KeysInv
<1>4. OneCallPerNode' /\ NoRefusedKeyComes' /\ RefusedKeyDropped'
  BY DEF OneCallPerNode, Active, NoRefusedKeyComes, RefusedKeyDropped, WasRefused, trackerVars
<1> QED BY <1>3, <1>4

-----------------------------------------------------------------------------
(* The theorems.                                                           *)

(* SessionInv holds in every state of the admin transactions.              *)
THEOREM TransactionInvariant == Spec => []SessionInv
<1>1. Init => SessionInv
  BY AdminInvInit, CacheInvInit DEF SessionInv
<1>2. SessionInv /\ [Next]_vars => SessionInv'
  <2> SUFFICES ASSUME SessionInv, [Next]_vars PROVE SessionInv'
    OBVIOUS
  <2> AdminInv /\ CacheInv /\ KeysInv
    BY DEF SessionInv, CacheInv
  <2>1. ASSUME NEW k \in Ids, NEW n \in Nodes, NEW get \in BOOLEAN, Begin(k, n, get)
        PROVE  SessionInv'
    BY <2>1, BeginKeeps, BeginKeepsCache DEF SessionInv
  <2>2. ASSUME NEW k \in Ids, SendToRadio(k) \/ SendFails(k) PROVE SessionInv'
    BY <2>2, SendKeeps, SendKeepsCache DEF SessionInv
  <2>3. ASSUME NEW k \in Ids, Receive(k) PROVE SessionInv'
    BY <2>3, ReceiveKeeps, ReceiveKeepsCache DEF SessionInv
  <2>4. ASSUME NEW k \in Ids,
               (\E why \in {"deadline", "cancel"} : WatcherWakes(k, why)) \/ WatcherRemoves(k)
        PROVE  SessionInv'
    <3>1. AdminInv'
      BY <2>4, WatcherMovesKeep
    <3>2. UNCHANGED <<call, reply, passkeys, radioVars>>
      BY <2>4 DEF WatcherWakes, WatcherRemoves
    <3>3. CacheInv'
      BY <3>2, CacheUntouched DEF WasRefused
    <3> QED BY <3>1, <3>3 DEF SessionInv
  <2>5. ASSUME NEW k \in Ids, WatcherDelivers(k) PROVE SessionInv'
    BY <2>5, WatcherDeliversKeeps, DeliveryKeepsCache DEF SessionInv
  <2>6. CASE Dispatch
    <3>1. UNCHANGED <<call, reply, passkeys, radioVars>>
      BY <2>6 DEF Dispatch, HandleRoutingAck, HandleAdminReply, Resolve
    <3>2. CacheInv'
      BY <3>1, CacheUntouched DEF WasRefused
    <3> QED BY <2>6, <3>2, DispatchKeeps DEF SessionInv
  <2>7. CASE DispatchDelivers
    BY <2>7, DispatchDeliversKeeps, DeliveryKeepsCache DEF SessionInv
  <2>8. ASSUME NEW k \in Ids, RadioHandles(k) PROVE SessionInv'
    BY <2>8, RadioHandlesKeeps, RadioKeepsCache DEF SessionInv
  <2>9. ASSUME NEW k \in Ids, RadioRefuses(k) PROVE SessionInv'
    BY <2>9, RadioRefusesKeeps, RadioKeepsCache DEF SessionInv
  <2>10. ASSUME NEW n \in Remotes, SessionExpires(n) PROVE SessionInv'
    BY <2>10, SessionExpiresKeeps, SessionExpiresKeepsCache DEF SessionInv
  <2>11. CASE UNCHANGED vars
    BY <2>11 DEF vars, SessionInv, AdminInv, CacheInv, TypeOK, OneOwner, Begun, InMap,
         InDispatcher, InWatcher, InChannel, AirInv, Truthful, Dispatched, Passed, Replied,
         Returned, OneCallPerNode, Active, KeysInv, NoRefusedKeyComes, WasRefused,
         RefusedKeyDropped
  <2> QED BY <2>1, <2>2, <2>3, <2>4, <2>5, <2>6, <2>7, <2>8, <2>9, <2>10, <2>11 DEF Next
<1> QED BY <1>1, <1>2, PTL DEF Spec

(* The transaction layer keeps its types: no channel ever holds two        *)
(* replies.                                                                *)
THEOREM TypeCorrect == Spec => []TypeOK
<1>1. SessionInv => TypeOK
  BY DEF SessionInv, AdminInv
<1> QED BY <1>1, TransactionInvariant, PTL

(* From Begin on exactly one of the map, the dispatcher, the watcher and   *)
(* the channel holds a call's reply: sending never blocks and never        *)
(* happens twice.                                                          *)
THEOREM RepliesAreUnique == Spec => []ExactlyOneReply
<1>1. ASSUME SessionInv PROVE ExactlyOneReply
  <2> SUFFICES ASSUME NEW k \in Ids, Begun(k)
               PROVE  \E c \in Claims(k) : Claims(k) = {c}
    BY DEF ExactlyOneReply
  <2>1. /\ "map" \in Claims(k) <=> InMap(k)
        /\ "dispatcher" \in Claims(k) <=> InDispatcher(k)
        /\ "watcher" \in Claims(k) <=> InWatcher(k)
        /\ "channel" \in Claims(k) <=> InChannel(k)
        /\ Claims(k) \subseteq {"map", "dispatcher", "watcher", "channel"}
    BY DEF Claims, InMap, InDispatcher, InWatcher, InChannel
  <2>2. /\ InMap(k) \/ InDispatcher(k) \/ InWatcher(k) \/ InChannel(k)
        /\ InMap(k) => ~InDispatcher(k) /\ ~InWatcher(k) /\ ~InChannel(k)
        /\ InDispatcher(k) => ~InWatcher(k) /\ ~InChannel(k)
        /\ InWatcher(k) => ~InChannel(k)
    BY <1>1 DEF SessionInv, AdminInv, OneOwner
  <2> QED BY <2>1, <2>2
<1> QED BY <1>1, TransactionInvariant, PTL

(* No loopback ack, late packet or timeout race lets a call succeed that   *)
(* its target has not carried out.                                         *)
THEOREM SuccessIsReal == Spec => []NoFalseSuccess
<1>1. SessionInv => NoFalseSuccess
  BY DEF SessionInv, AdminInv, Returned, NoFalseSuccess
<1> QED BY <1>1, TransactionInvariant, PTL

(* A Get never returns on its Routing ack.                                 *)
THEOREM GetsReturnData == Spec => []GetReturnsData
<1>1. SessionInv => GetReturnsData
  BY DEF SessionInv, AdminInv, Returned, GetReturnsData
<1> QED BY <1>1, TransactionInvariant, PTL

(* A refused session key never comes back into the cache.                  *)
THEOREM RefusedKeysStayOut == Spec => []RefusedKeyDropped
<1>1. SessionInv => RefusedKeyDropped
  BY DEF SessionInv, CacheInv
<1> QED BY <1>1, TransactionInvariant, PTL
=============================================================================
