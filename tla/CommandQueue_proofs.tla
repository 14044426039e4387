------------------------ MODULE CommandQueue_proofs ------------------------
(***************************************************************************)
(* Proofs about the command queue: what an acknowledgement has closed is   *)
(* out of the queue, and each device scan that is closed switches raw mode *)
(* off once, for every set of nodes, of names that operators issue and of  *)
(* targets, and for every number of commands.                              *)
(*                                                                         *)
(* QueueInv is inductive: a scan is closed only while it is in the queue,  *)
(* so the scans one frame closes had not been finished before, and the     *)
(* service appends as many commands as there are such scans.               *)
(***************************************************************************)
EXTENDS CommandQueue, FiniteSetTheorems, SequenceTheorems, TLAPS

QueueInv == TypeOK /\ FinishedLeavesQueue /\ RawOffOncePerScan

(* The two sets that RawOffOncePerScan counts.                             *)
RawOffs(c) == {i \in DOMAIN c : c[i].name = "RAW_BLE_OFF" /\ c[i].auto}
DoneScans(c) == {i \in DOMAIN c : c[i].name = "DEVICE_SCAN_START" /\ c[i].finished}

-----------------------------------------------------------------------------
(* Facts about the list of commands and about acknowledgements.            *)

(* The commands and their senders are sequences of one length.             *)
LEMMA Lists ==
    ASSUME TypeOK
    PROVE  /\ cmds \in Seq(CommandType) /\ Len(cmds) \in Nat /\ DOMAIN cmds = 1 .. Len(cmds)
           /\ sender \in Seq(SenderPcs) /\ Len(sender) = Len(cmds)
           /\ \A i \in DOMAIN cmds : cmds[i] \in CommandType
<1>1. /\ cmds \in Seq(CommandType) /\ Len(cmds) \in Nat /\ DOMAIN cmds = 1 .. Len(cmds)
      /\ \A i \in DOMAIN cmds : cmds[i] \in CommandType
  BY LenProperties, ElementOfSeq DEF TypeOK
<1>2. sender \in [1 .. Len(cmds) -> SenderPcs]
  BY <1>1 DEF TypeOK
<1>3. sender \in Seq(SenderPcs)
  BY <1>1, <1>2, SeqDef
<1>4. DOMAIN sender = 1 .. Len(sender) /\ Len(sender) \in Nat
  BY <1>3, LenProperties
<1>5. Len(sender) = Len(cmds)
  BY <1>1, <1>2, <1>4
<1> QED BY <1>1, <1>3, <1>5

(* A list stays well typed when it grows: more commands behind, and as     *)
(* many senders.                                                           *)
LEMMA Grows ==
    ASSUME TypeOK, NEW c \in Seq(CommandType), Len(c) = Len(cmds),
           NEW more \in Seq(CommandType), NEW pcs \in Seq(SenderPcs), Len(pcs) = Len(more)
    PROVE  /\ c \o more \in Seq(CommandType) /\ Len(c \o more) = Len(cmds) + Len(more)
           /\ Len(more) \in Nat
           /\ DOMAIN (c \o more) = 1 .. Len(cmds) + Len(more)
           /\ \A i \in DOMAIN cmds : (c \o more)[i] = c[i]
           /\ \A k \in 1 .. Len(more) : (c \o more)[Len(cmds) + k] = more[k]
           /\ sender \o pcs \in [DOMAIN (c \o more) -> SenderPcs]
<1>1. /\ Len(cmds) \in Nat /\ DOMAIN cmds = 1 .. Len(cmds)
      /\ sender \in Seq(SenderPcs) /\ Len(sender) = Len(cmds)
  BY Lists
<1>2. Len(more) \in Nat
  BY LenProperties
<1>3. /\ c \o more \in Seq(CommandType) /\ Len(c \o more) = Len(cmds) + Len(more)
      /\ \A i \in 1 .. Len(cmds) + Len(more) :
            (c \o more)[i] = IF i <= Len(cmds) THEN c[i] ELSE more[i - Len(cmds)]
  <2>1. /\ c \o more \in Seq(CommandType) /\ Len(c \o more) = Len(c) + Len(more)
        /\ \A i \in 1 .. Len(c) + Len(more) :
              (c \o more)[i] = IF i <= Len(c) THEN c[i] ELSE more[i - Len(c)]
    BY ConcatProperties
  <2> DEFINE s == c \o more
  <2> HIDE DEF s
  <2>2. /\ s \in Seq(CommandType) /\ Len(s) = Len(c) + Len(more)
        /\ \A i \in 1 .. Len(c) + Len(more) : s[i] = IF i <= Len(c) THEN c[i] ELSE more[i - Len(c)]
    BY <2>1 DEF s
  <2>3. /\ s \in Seq(CommandType) /\ Len(s) = Len(cmds) + Len(more)
        /\ \A i \in 1 .. Len(cmds) + Len(more) :
              s[i] = IF i <= Len(cmds) THEN c[i] ELSE more[i - Len(cmds)]
    BY <2>2
  <2> QED BY <2>3 DEF s
<1>4. DOMAIN (c \o more) = 1 .. Len(cmds) + Len(more)
  <2> DEFINE s == c \o more
  <2>1. s \in Seq(CommandType) /\ Len(s) = Len(cmds) + Len(more)
    BY <1>3
  <2> HIDE DEF s
  <2>2. DOMAIN s = 1 .. Len(cmds) + Len(more)
    BY <2>1, LenProperties
  <2> QED BY <2>2 DEF s
<1>5. sender \o pcs \in [1 .. Len(cmds) + Len(more) -> SenderPcs]
  <2>1. sender \o pcs \in Seq(SenderPcs) /\ Len(sender \o pcs) = Len(cmds) + Len(more)
    <3>1. Len(sender \o pcs) = Len(sender) + Len(pcs) /\ sender \o pcs \in Seq(SenderPcs)
      BY <1>1, ConcatProperties
    <3> QED BY <1>1, <3>1
  <2> DEFINE s == sender \o pcs
  <2>2. s \in Seq(SenderPcs) /\ Len(s) = Len(cmds) + Len(more)
    BY <2>1
  <2> HIDE DEF s
  <2>3. s \in [1 .. Len(cmds) + Len(more) -> SenderPcs]
    BY <2>2, LenProperties
  <2> QED BY <2>3 DEF s
<1>6. \A i \in DOMAIN cmds : (c \o more)[i] = c[i]
  BY <1>1, <1>2, <1>3
<1>7. ASSUME NEW k \in 1 .. Len(more) PROVE (c \o more)[Len(cmds) + k] = more[k]
  <2>1. /\ Len(cmds) + k \in 1 .. Len(cmds) + Len(more) /\ ~(Len(cmds) + k <= Len(cmds))
        /\ Len(cmds) + k - Len(cmds) = k
    BY <1>1, <1>2
  <2> QED BY <1>3, <2>1
<1> QED BY <1>2, <1>3, <1>4, <1>5, <1>6, <1>7

(* A new command.                                                          *)
LEMMA NewCommandFields ==
    ASSUME NEW name \in Names, NEW target \in Targets, NEW auto \in BOOLEAN
    PROVE  /\ NewCommand(name, target, auto) \in CommandType
           /\ NewCommand(name, target, auto).name = name
           /\ NewCommand(name, target, auto).auto = auto
           /\ NewCommand(name, target, auto).finished = FALSE
BY DEF NewCommand, CommandType, Statuses

(* The status a frame sets is one of the statuses, and RUNNING only for    *)
(* STARTED.                                                                *)
LEMMA AckStatus ==
    ASSUME NEW status
    PROVE  /\ AckStatusOf(status) \in Statuses
           /\ AckStatusOf(status) = "RUNNING" => status = "STARTED"
BY DEF AckStatusOf, Statuses

(* A frame that starts something stops nothing.                            *)
LEMMA StartedStopsNothing ==
    ASSUME NEW token \in AckTokens, NEW m, token.status = "STARTED"
    PROVE  FanOut(token, m) = {}
<1>1. token.kind # "STOP_ACK" /\ token # [kind |-> "PROBE_ACK", status |-> "STOPPED"]
  BY DEF AckTokens
<1> QED BY <1>1 DEF FanOut

(* The numbers of the commands that are appended.                          *)
LEMMA AppendedNumbers ==
    ASSUME NEW n \in Nat, NEW k \in Nat
    PROVE  IsFiniteSet({n + i : i \in 1 .. k}) /\ Cardinality({n + i : i \in 1 .. k}) = k
<1>1. {n + i : i \in 1 .. k} = (n + 1) .. (n + k)
  <2>1. ASSUME NEW j \in (n + 1) .. (n + k) PROVE j \in {n + i : i \in 1 .. k}
    <3>1. j - n \in 1 .. k /\ j = n + (j - n)
      OBVIOUS
    <3> QED BY <3>1
  <2> QED BY <2>1
<1>2. /\ IsFiniteSet((n + 1) .. (n + k))
      /\ Cardinality((n + 1) .. (n + k)) = IF n + 1 > n + k THEN 0 ELSE (n + k) - (n + 1) + 1
  <2>1. n + 1 \in Int /\ n + k \in Int
    OBVIOUS
  <2> QED BY <2>1, FS_Interval
<1>3. (IF n + 1 > n + k THEN 0 ELSE (n + k) - (n + 1) + 1) = k
  OBVIOUS
<1> QED BY <1>1, <1>2, <1>3

(* The sets that are counted are finite.                                   *)
LEMMA CountedFinite ==
    ASSUME TypeOK
    PROVE  /\ IsFiniteSet(RawOffs(cmds)) /\ IsFiniteSet(DoneScans(cmds))
           /\ Cardinality(RawOffs(cmds)) \in Nat /\ Cardinality(DoneScans(cmds)) \in Nat
           /\ RawOffOncePerScan <=> Cardinality(RawOffs(cmds)) = Cardinality(DoneScans(cmds))
<1>1. IsFiniteSet(1 .. Len(cmds)) /\ DOMAIN cmds = 1 .. Len(cmds)
  BY Lists, FS_Interval
<1>2. RawOffs(cmds) \subseteq 1 .. Len(cmds) /\ DoneScans(cmds) \subseteq 1 .. Len(cmds)
  BY <1>1 DEF RawOffs, DoneScans
<1>3. IsFiniteSet(RawOffs(cmds)) /\ IsFiniteSet(DoneScans(cmds))
  BY <1>1, <1>2, FS_Subset
<1>4. RawOffOncePerScan <=> Cardinality(RawOffs(cmds)) = Cardinality(DoneScans(cmds))
  BY DEF RawOffOncePerScan, RawOffs, DoneScans
<1> QED BY <1>3, <1>4, FS_CardinalityType

(* Disjoint finite sets.                                                   *)
LEMMA DisjointCount ==
    ASSUME NEW S, IsFiniteSet(S), NEW T, IsFiniteSet(T), S \cap T = {}
    PROVE  Cardinality(S \cup T) = Cardinality(S) + Cardinality(T)
<1>1. Cardinality(S \cup T) = Cardinality(S) + Cardinality(T) - Cardinality(S \cap T)
  BY FS_Union
<1>2. Cardinality(S) \in Nat /\ Cardinality(T) \in Nat /\ Cardinality(S \cap T) = 0
  BY FS_CardinalityType, FS_EmptySet
<1> QED BY <1>1, <1>2

-----------------------------------------------------------------------------
(* Every action keeps QueueInv.                                            *)

(* New commands that are neither finished nor attached RAW_BLE_OFFs.       *)
LEMMA AddKeeps ==
    ASSUME QueueInv, NEW more \in Seq(CommandType),
           \A k \in 1 .. Len(more) : ~more[k].finished /\ ~(more[k].name = "RAW_BLE_OFF" /\ more[k].auto),
           NEW pcs \in Seq(SenderPcs), Len(pcs) = Len(more),
           cmds' = cmds \o more, pending' = pending \cup {Len(cmds) + k : k \in 1 .. Len(more)},
           sender' = sender \o pcs, nodeRate' \in BOOLEAN
    PROVE  QueueInv'
<1>1. TypeOK /\ cmds \in Seq(CommandType) /\ Len(cmds) \in Nat /\ DOMAIN cmds = 1 .. Len(cmds)
  BY Lists DEF QueueInv
<1>2. /\ cmds' \in Seq(CommandType) /\ Len(more) \in Nat
      /\ DOMAIN cmds' = 1 .. Len(cmds) + Len(more)
      /\ \A i \in DOMAIN cmds : cmds'[i] = cmds[i]
      /\ \A k \in 1 .. Len(more) : cmds'[Len(cmds) + k] = more[k]
      /\ sender' \in [DOMAIN cmds' -> SenderPcs]
  BY <1>1, Grows
<1>3. \A i \in DOMAIN cmds' : i \in DOMAIN cmds \/ \E k \in 1 .. Len(more) : i = Len(cmds) + k
  <2>1. ASSUME NEW i \in DOMAIN cmds', i \notin DOMAIN cmds
        PROVE  \E k \in 1 .. Len(more) : i = Len(cmds) + k
    <3>1. i - Len(cmds) \in 1 .. Len(more) /\ i = Len(cmds) + (i - Len(cmds))
      BY <1>1, <1>2, <2>1
    <3> QED BY <3>1
  <2> QED BY <2>1
<1>4. DOMAIN cmds \subseteq DOMAIN cmds' /\ pending' \subseteq DOMAIN cmds'
  BY <1>1, <1>2 DEF TypeOK
<1>5. TypeOK'
  BY <1>2, <1>4 DEF TypeOK
<1>6. FinishedLeavesQueue'
  BY <1>1, <1>2 DEF QueueInv, FinishedLeavesQueue, TypeOK
<1>7. RawOffs(cmds') = RawOffs(cmds) /\ DoneScans(cmds') = DoneScans(cmds)
  <2>1. \A i \in DOMAIN cmds' :
           \/ i \in DOMAIN cmds /\ cmds'[i] = cmds[i]
           \/ /\ ~cmds'[i].finished
              /\ ~(cmds'[i].name = "RAW_BLE_OFF" /\ cmds'[i].auto)
    BY <1>2, <1>3
  <2>2. \A i \in DOMAIN cmds : i \in DOMAIN cmds' /\ cmds'[i] = cmds[i]
    BY <1>2, <1>4
  <2>3. RawOffs(cmds') = RawOffs(cmds)
    <3>1. RawOffs(cmds') \subseteq RawOffs(cmds)
      BY <2>1 DEF RawOffs
    <3>2. RawOffs(cmds) \subseteq RawOffs(cmds')
      BY <2>2 DEF RawOffs
    <3> QED BY <3>1, <3>2
  <2>4. DoneScans(cmds') = DoneScans(cmds)
    <3>1. DoneScans(cmds') \subseteq DoneScans(cmds)
      BY <2>1 DEF DoneScans
    <3>2. DoneScans(cmds) \subseteq DoneScans(cmds')
      BY <2>2 DEF DoneScans
    <3> QED BY <3>1, <3>2
  <2> QED BY <2>3, <2>4
<1>8. RawOffOncePerScan'
  BY <1>7 DEF QueueInv, RawOffOncePerScan, RawOffs, DoneScans
<1> QED BY <1>5, <1>6, <1>8 DEF QueueInv

(* Operators' commands.                                                    *)
LEMMA EnqueueKeeps ==
    ASSUME QueueInv, NEW target \in IssueTargets,
           (\E name \in Issued : Enqueue(name, target)) \/ EnqueueDeviceScan(target)
    PROVE  QueueInv'
<1>1. target \in Targets /\ Issued \subseteq Names
  BY IssuedAssumption DEF Targets
<1>2. cmds \in Seq(CommandType) /\ sender \in Seq(SenderPcs) /\ nodeRate \in BOOLEAN
  BY Lists DEF QueueInv, TypeOK
<1>3. ASSUME NEW name \in Issued, Enqueue(name, target)
      PROVE  QueueInv'
  <2> DEFINE n == NewCommand(name, target, FALSE)
  <2>1. n \in CommandType /\ n.auto = FALSE /\ n.finished = FALSE
    BY <1>1, NewCommandFields
  <2> HIDE DEF n
  <2>2. cmds' = Append(cmds, n) /\ pending' = pending \cup {Len(cmds) + 1}
        /\ sender' = Append(sender, "ready") /\ nodeRate' = nodeRate
    BY <1>3 DEF Enqueue, n
  <2>3. <<n>> \in Seq(CommandType) /\ Len(<<n>>) = 1 /\ <<n>>[1] = n
        /\ <<"ready">> \in Seq(SenderPcs) /\ Len(<<"ready">>) = 1
    BY <2>1 DEF SenderPcs
  <2>4. cmds' = cmds \o <<n>> /\ sender' = sender \o <<"ready">>
    BY <1>2, <2>1, <2>2 DEF SenderPcs
  <2>5. {Len(cmds) + 1} = {Len(cmds) + k : k \in 1 .. Len(<<n>>)}
    BY <2>3
  <2>6. \A k \in 1 .. Len(<<n>>) : <<n>>[k] = n
    BY <2>3
  <2> QED BY <1>2, <2>1, <2>2, <2>3, <2>4, <2>5, <2>6, AddKeeps
<1>4. CASE EnqueueDeviceScan(target)
  <2> DEFINE a == NewCommand("DEVICE_SCAN_START", target, FALSE)
             b == NewCommand("RAW_BLE_ON", target, TRUE)
  <2>1. /\ a \in CommandType /\ a.auto = FALSE /\ a.finished = FALSE
        /\ b \in CommandType /\ b.name = "RAW_BLE_ON" /\ b.finished = FALSE
    BY <1>1, NewCommandFields DEF Names
  <2> HIDE DEF a, b
  <2>2. cmds' = cmds \o <<a, b>> /\ pending' = pending \cup {Len(cmds) + 1, Len(cmds) + 2}
        /\ sender' = sender \o <<"ready", "ready">> /\ nodeRate' = nodeRate
    BY <1>4 DEF EnqueueDeviceScan, a, b
  <2>3. <<a, b>> \in Seq(CommandType) /\ Len(<<a, b>>) = 2 /\ <<a, b>>[1] = a /\ <<a, b>>[2] = b
        /\ <<"ready", "ready">> \in Seq(SenderPcs) /\ Len(<<"ready", "ready">>) = 2
    BY <2>1 DEF SenderPcs
  <2>4. {Len(cmds) + 1, Len(cmds) + 2} = {Len(cmds) + k : k \in 1 .. Len(<<a, b>>)}
    BY <2>3
  <2>5. \A k \in 1 .. Len(<<a, b>>) : <<a, b>>[k] = a \/ <<a, b>>[k] = b
    BY <2>3
  <2> QED BY <1>2, <2>1, <2>2, <2>3, <2>4, <2>5, AddKeeps
<1> QED BY <1>3, <1>4

(* Commands that change without being added or closed, or leave the queue. *)
LEMMA SameCommands ==
    ASSUME QueueInv, cmds' \in Seq(CommandType), DOMAIN cmds' = DOMAIN cmds,
           \A i \in DOMAIN cmds : /\ cmds'[i].name = cmds[i].name /\ cmds'[i].auto = cmds[i].auto
                                  /\ \/ cmds'[i].finished = cmds[i].finished
                                     \/ i \notin pending' /\ cmds[i].name # "DEVICE_SCAN_START",
           pending' \subseteq pending, nodeRate' \in BOOLEAN,
           sender' \in [DOMAIN cmds -> SenderPcs]
    PROVE  QueueInv'
<1>1. TypeOK'
  BY DEF QueueInv, TypeOK
<1>2. FinishedLeavesQueue'
  BY DEF QueueInv, TypeOK, FinishedLeavesQueue
<1>3. RawOffs(cmds') = RawOffs(cmds) /\ DoneScans(cmds') = DoneScans(cmds)
  BY DEF RawOffs, DoneScans
<1>4. RawOffOncePerScan'
  BY <1>3 DEF QueueInv, RawOffOncePerScan, RawOffs, DoneScans
<1> QED BY <1>1, <1>2, <1>4 DEF QueueInv

(* The senders, a deletion, the watchdog and the rate slot.                *)
LEMMA StepKeeps ==
    ASSUME QueueInv, NEW i \in DOMAIN cmds,
           \/ SendCall(i) \/ SendOk(i) \/ SendFails(i) \/ Delete(i) \/ EnforceScanTimeouts(i)
           \/ RateExpires
    PROVE  QueueInv'
<1>1. /\ cmds \in Seq(CommandType) /\ DOMAIN cmds = 1 .. Len(cmds) /\ nodeRate \in BOOLEAN
      /\ cmds[i] \in CommandType /\ sender \in [DOMAIN cmds -> SenderPcs]
  BY Lists DEF QueueInv, TypeOK
<1>2. ASSUME NEW r \in CommandType, r.name = cmds[i].name, r.auto = cmds[i].auto,
             cmds' = [cmds EXCEPT ![i] = r]
      PROVE  /\ cmds' \in Seq(CommandType) /\ DOMAIN cmds' = DOMAIN cmds
             /\ \A j \in DOMAIN cmds : /\ cmds'[j].name = cmds[j].name /\ cmds'[j].auto = cmds[j].auto
                                       /\ cmds'[j].finished = cmds[j].finished \/ j = i
             /\ cmds'[i] = r
  <2>1. cmds' \in Seq(CommandType)
    BY <1>1, <1>2, ExceptSeq
  <2> QED BY <1>1, <1>2, <2>1
<1>3. CASE SendOk(i)
  <2> DEFINE r == [cmds[i] EXCEPT !.status = "SENT", !.sent = TRUE]
  <2>1. /\ r \in CommandType /\ r.name = cmds[i].name /\ r.auto = cmds[i].auto
        /\ r.finished = cmds[i].finished
    BY <1>1 DEF CommandType, Statuses
  <2>2. cmds' = [cmds EXCEPT ![i] = r]
    BY <1>3 DEF SendOk
  <2> HIDE DEF r
  <2>3. pending' = pending /\ nodeRate' \in BOOLEAN /\ sender' \in [DOMAIN cmds -> SenderPcs]
    BY <1>1, <1>3 DEF SendOk, SenderPcs
  <2>4. \A j \in DOMAIN cmds : cmds'[j].finished = cmds[j].finished
    BY <1>2, <2>1, <2>2
  <2>5. /\ cmds' \in Seq(CommandType) /\ DOMAIN cmds' = DOMAIN cmds
        /\ \A j \in DOMAIN cmds : cmds'[j].name = cmds[j].name /\ cmds'[j].auto = cmds[j].auto
    BY <1>2, <2>1, <2>2
  <2> QED BY <2>3, <2>4, <2>5, SameCommands
<1>4. CASE EnforceScanTimeouts(i)
  <2> DEFINE r == [cmds[i] EXCEPT !.status = "OK", !.finished = TRUE]
  <2>1. r \in CommandType /\ r.name = cmds[i].name /\ r.auto = cmds[i].auto
    BY <1>1 DEF CommandType, Statuses
  <2>2. cmds' = [cmds EXCEPT ![i] = r]
    BY <1>4 DEF EnforceScanTimeouts
  <2> HIDE DEF r
  <2>3. /\ pending' = pending \ {i} /\ nodeRate' = nodeRate /\ sender' = sender
        /\ cmds[i].name # "DEVICE_SCAN_START"
    BY <1>4 DEF EnforceScanTimeouts
  <2>4. /\ cmds' \in Seq(CommandType) /\ DOMAIN cmds' = DOMAIN cmds
        /\ \A j \in DOMAIN cmds : /\ cmds'[j].name = cmds[j].name /\ cmds'[j].auto = cmds[j].auto
                                  /\ cmds'[j].finished = cmds[j].finished \/ j = i
    BY <1>2, <2>1, <2>2
  <2> QED BY <1>1, <2>3, <2>4, SameCommands
<1>5. CASE SendCall(i) \/ SendFails(i) \/ Delete(i) \/ RateExpires
  <2>1. /\ cmds' = cmds /\ pending' \subseteq pending /\ nodeRate' \in BOOLEAN
        /\ sender' \in [DOMAIN cmds -> SenderPcs]
    BY <1>1, <1>5 DEF SendCall, SendFails, Delete, RateExpires, SenderPcs
  <2> QED BY <1>1, <2>1, SameCommands
<1> QED BY <1>3, <1>4, <1>5
(* What the service appends: unfinished RAW_BLE_OFFs of its own, as many   *)
(* as scans are closed.                                                    *)
LEMMA FollowOnFields ==
    ASSUME NEW closed, Cardinality(closed) \in Nat, NEW off \in FollowOns(closed)
    PROVE  /\ off \in Seq(CommandType) /\ Len(off) = Cardinality(closed)
           /\ DOMAIN off = 1 .. Cardinality(closed)
           /\ \A k \in DOMAIN off : /\ off[k].name = "RAW_BLE_OFF" /\ off[k].auto = TRUE
                                    /\ off[k].finished = FALSE
           /\ [k \in DOMAIN off |-> "ready"] \in Seq(SenderPcs)
           /\ Len([k \in DOMAIN off |-> "ready"]) = Len(off)
<1> DEFINE Off == {NewCommand("RAW_BLE_OFF", t, TRUE) : t \in Targets}
           n == Cardinality(closed)
           pcs == [k \in DOMAIN off |-> "ready"]
<1>1. \A r \in Off : /\ r \in CommandType /\ r.name = "RAW_BLE_OFF" /\ r.auto = TRUE
                     /\ r.finished = FALSE
  <2>1. ASSUME NEW t \in Targets
        PROVE  /\ NewCommand("RAW_BLE_OFF", t, TRUE) \in CommandType
               /\ NewCommand("RAW_BLE_OFF", t, TRUE).name = "RAW_BLE_OFF"
               /\ NewCommand("RAW_BLE_OFF", t, TRUE).auto = TRUE
               /\ NewCommand("RAW_BLE_OFF", t, TRUE).finished = FALSE
    <3>1. "RAW_BLE_OFF" \in Names
      BY DEF Names
    <3> QED BY <3>1, NewCommandFields
  <2> QED BY <2>1
<1>2. off \in [1 .. n -> Off]
  BY DEF FollowOns
<1> HIDE DEF Off
<1>3. off \in [1 .. n -> CommandType] /\ DOMAIN off = 1 .. n
      /\ \A k \in DOMAIN off : off[k] \in Off
  BY <1>1, <1>2
<1>4. off \in Seq(CommandType) /\ n \in Nat
  BY <1>3, SeqDef
<1>5. Len(off) = n
  <2>1. DOMAIN off = 1 .. Len(off) /\ Len(off) \in Nat
    BY <1>4, LenProperties
  <2> QED BY <1>3, <1>4, <2>1
<1>6. pcs \in [1 .. n -> SenderPcs] /\ DOMAIN pcs = 1 .. n
  BY <1>3 DEF SenderPcs
<1> HIDE DEF pcs
<1>7. pcs \in Seq(SenderPcs)
  BY <1>4, <1>6, SeqDef
<1>8. Len(pcs) = n
  <2>1. DOMAIN pcs = 1 .. Len(pcs) /\ Len(pcs) \in Nat
    BY <1>7, LenProperties
  <2> QED BY <1>4, <1>6, <2>1
<1> QED BY <1>1, <1>3, <1>4, <1>5, <1>7, <1>8 DEF pcs

(* An acknowledgement: the scans it closes were in the queue, hence not    *)
(* finished, and the list grows by one RAW_BLE_OFF for each.               *)
LEMMA AckKeeps ==
    ASSUME QueueInv, NEW token \in AckTokens, NEW node \in Nodes,
           HandleStructuredACK(token, node)
    PROVE  QueueInv'
<1> DEFINE final == AckStatusOf(token.status)
           running == final = "RUNNING"
<1>1. /\ TypeOK /\ cmds \in Seq(CommandType) /\ Len(cmds) \in Nat /\ DOMAIN cmds = 1 .. Len(cmds)
      /\ \A i \in DOMAIN cmds : cmds[i] \in CommandType
      /\ pending \subseteq DOMAIN cmds /\ \A i \in pending : ~cmds[i].finished
      /\ nodeRate \in BOOLEAN
  BY Lists DEF QueueInv, FinishedLeavesQueue, TypeOK
<1>2. PICK m \in pending :
        LET fan == FanOut(token, m)
            closed == IF running THEN {} ELSE ClosedScans(m, fan) IN
        \E off \in FollowOns(closed) :
            /\ cmds' = [i \in DOMAIN cmds |->
                   IF i = m THEN [cmds[i] EXCEPT !.status = final, !.ackNode = node,
                                                 !.finished = ~running]
                   ELSE IF i \in fan THEN [cmds[i] EXCEPT !.status = "OK", !.finished = TRUE]
                   ELSE cmds[i]] \o off
            /\ pending' = (IF running THEN pending ELSE Close(m, fan))
                              \cup {Len(cmds) + k : k \in DOMAIN off}
            /\ sender' = sender \o [k \in DOMAIN off |-> "ready"]
            /\ nodeRate' = nodeRate
  BY DEF HandleStructuredACK
<1> DEFINE fan == FanOut(token, m)
           closed == IF running THEN {} ELSE ClosedScans(m, fan)
           c == [i \in DOMAIN cmds |->
                   IF i = m THEN [cmds[i] EXCEPT !.status = final, !.ackNode = node,
                                                 !.finished = ~running]
                   ELSE IF i \in fan THEN [cmds[i] EXCEPT !.status = "OK", !.finished = TRUE]
                   ELSE cmds[i]]
<1>3. PICK off \in FollowOns(closed) :
        /\ cmds' = c \o off
        /\ pending' = (IF running THEN pending ELSE Close(m, fan)) \cup {Len(cmds) + k : k \in DOMAIN off}
        /\ sender' = sender \o [k \in DOMAIN off |-> "ready"]
        /\ nodeRate' = nodeRate
  BY <1>2
<1>4. final \in Statuses /\ (running => token.status = "STARTED")
  BY AckStatus
<1>5. fan \subseteq pending /\ m \notin fan /\ (running => fan = {})
  BY <1>4, StartedStopsNothing DEF FanOut
<1>6. closed \subseteq pending /\ closed = {i \in {m} \cup fan : ~running /\ cmds[i].name = "DEVICE_SCAN_START"}
  BY <1>5 DEF ClosedScans
<1> HIDE DEF final, running, fan, closed
<1>7. ASSUME NEW i \in DOMAIN cmds
      PROVE  /\ c[i] \in CommandType /\ c[i].name = cmds[i].name /\ c[i].auto = cmds[i].auto
             /\ c[i].finished = IF i = m THEN ~running ELSE i \in fan \/ cmds[i].finished
  <2>1. cmds[i] \in CommandType
    BY <1>1
  <2>2. CASE i = m
    <3>1. c[i] = [cmds[i] EXCEPT !.status = final, !.ackNode = node, !.finished = ~running]
      BY <2>2
    <3> HIDE DEF c
    <3> QED BY <1>4, <2>1, <2>2, <3>1 DEF CommandType, running
  <2>3. CASE i # m /\ i \in fan
    <3>1. c[i] = [cmds[i] EXCEPT !.status = "OK", !.finished = TRUE]
      BY <2>3
    <3> HIDE DEF c
    <3> QED BY <2>1, <2>3, <3>1 DEF CommandType, Statuses
  <2>4. CASE i # m /\ i \notin fan
    <3>1. c[i] = cmds[i]
      BY <2>4
    <3> HIDE DEF c
    <3> QED BY <2>1, <2>4, <3>1 DEF CommandType
  <2> QED BY <2>2, <2>3, <2>4
<1>8. c \in Seq(CommandType) /\ Len(c) = Len(cmds)
  <2>1. DOMAIN c = 1 .. Len(cmds) /\ c \in [1 .. Len(cmds) -> CommandType]
    <3>1. DOMAIN c = DOMAIN cmds /\ c = [i \in DOMAIN cmds |-> c[i]]
      OBVIOUS
    <3> HIDE DEF c
    <3> QED BY <1>1, <1>7, <3>1
  <2> HIDE DEF c
  <2>2. c \in Seq(CommandType)
    BY <1>1, <2>1, SeqDef
  <2>3. DOMAIN c = 1 .. Len(c) /\ Len(c) \in Nat
    BY <2>2, LenProperties
  <2> QED BY <1>1, <2>1, <2>2, <2>3
<1> HIDE DEF c
<1>9. IsFiniteSet(closed) /\ Cardinality(closed) \in Nat
  <2>1. IsFiniteSet(1 .. Len(cmds)) /\ closed \subseteq 1 .. Len(cmds)
    BY <1>1, <1>6, FS_Interval
  <2> QED BY <2>1, FS_Subset, FS_CardinalityType
<1> DEFINE n == Cardinality(closed)
           added == {Len(cmds) + k : k \in 1 .. n}
           pcs == [k \in DOMAIN off |-> "ready"]
<1>10. /\ off \in Seq(CommandType) /\ Len(off) = n /\ DOMAIN off = 1 .. n
       /\ \A k \in 1 .. n : off[k].name = "RAW_BLE_OFF" /\ off[k].auto /\ ~off[k].finished
       /\ pcs \in Seq(SenderPcs) /\ Len(pcs) = Len(off)
  BY <1>9, FollowOnFields
<1>11. n \in Nat
  BY <1>9
<1>12. sender' = sender \o pcs /\ pending' = (IF running THEN pending ELSE Close(m, fan)) \cup added
  BY <1>3, <1>10
<1> HIDE DEF n, pcs
<1>13. /\ c \o off \in Seq(CommandType) /\ DOMAIN (c \o off) = 1 .. Len(cmds) + Len(off)
       /\ \A i \in DOMAIN cmds : (c \o off)[i] = c[i]
       /\ \A k \in 1 .. Len(off) : (c \o off)[Len(cmds) + k] = off[k]
       /\ sender \o pcs \in [DOMAIN (c \o off) -> SenderPcs]
  BY <1>1, <1>8, <1>10, Grows
<1>14. /\ cmds' \in Seq(CommandType) /\ DOMAIN cmds' = 1 .. Len(cmds) + n
       /\ \A i \in DOMAIN cmds : cmds'[i] = c[i]
       /\ \A k \in 1 .. n : cmds'[Len(cmds) + k] = off[k]
       /\ sender' \in [DOMAIN cmds' -> SenderPcs]
  BY <1>3, <1>10, <1>12, <1>13
<1>15. /\ DOMAIN cmds' = DOMAIN cmds \cup added /\ DOMAIN cmds \cap added = {}
       /\ \A j \in added : /\ cmds'[j].name = "RAW_BLE_OFF" /\ cmds'[j].auto
                           /\ ~cmds'[j].finished
  <2>1. DOMAIN cmds \cap added = {} /\ DOMAIN cmds \cup added \subseteq DOMAIN cmds'
    BY <1>1, <1>11, <1>14
  <2>2. ASSUME NEW j \in DOMAIN cmds', j \notin DOMAIN cmds PROVE j \in added
    <3>1. j - Len(cmds) \in 1 .. n /\ j = Len(cmds) + (j - Len(cmds))
      BY <1>1, <1>11, <1>14, <2>2
    <3> QED BY <3>1
  <2> QED BY <1>10, <1>14, <2>1, <2>2
<1>16. IsFiniteSet(added) /\ Cardinality(added) = n
  BY <1>1, <1>11, AppendedNumbers
<1> HIDE DEF added
<1>17. ASSUME NEW i \in DOMAIN cmds
       PROVE  /\ cmds'[i].name = cmds[i].name /\ cmds'[i].auto = cmds[i].auto
              /\ cmds'[i].finished = IF i = m THEN ~running ELSE i \in fan \/ cmds[i].finished
  BY <1>7, <1>14
<1>18. pending' \ added = (IF running THEN pending ELSE pending \ ({m} \cup fan))
  BY <1>1, <1>12, <1>15 DEF Close
<1>19. TypeOK'
  BY <1>1, <1>3, <1>14, <1>15, <1>18 DEF TypeOK
<1>20. FinishedLeavesQueue'
  <2>1. ASSUME NEW i \in pending', i \notin added PROVE ~cmds'[i].finished
    BY <1>1, <1>5, <1>17, <1>18, <2>1
  <2> QED BY <1>15, <2>1 DEF FinishedLeavesQueue
<1>21. RawOffs(cmds') = RawOffs(cmds) \cup added
  BY <1>15, <1>17 DEF RawOffs
<1>22. DoneScans(cmds') = DoneScans(cmds) \cup closed
  <2>1. DoneScans(cmds') \subseteq DOMAIN cmds
    BY <1>15 DEF DoneScans
  <2>2. ASSUME NEW i \in DOMAIN cmds
        PROVE  i \in DoneScans(cmds') <=> i \in DoneScans(cmds) \cup closed
    <3>1. /\ i \in DoneScans(cmds') <=> cmds[i].name = "DEVICE_SCAN_START" /\ cmds'[i].finished
          /\ i \in DoneScans(cmds) <=> cmds[i].name = "DEVICE_SCAN_START" /\ cmds[i].finished
      BY <1>15, <1>17 DEF DoneScans
    <3>2. CASE i = m
      <4>1. ~cmds[i].finished /\ cmds'[i].finished = ~running
        BY <1>1, <1>17, <3>2
      <4> QED BY <1>6, <3>1, <3>2, <4>1
    <3>3. CASE i # m
      <4>1. cmds'[i].finished <=> i \in fan \/ cmds[i].finished
        BY <1>17, <3>3
      <4>2. i \in closed <=> i \in fan /\ cmds[i].name = "DEVICE_SCAN_START"
        BY <1>5, <1>6, <3>3
      <4> QED BY <3>1, <4>1, <4>2
    <3> QED BY <3>2, <3>3
  <2>3. DoneScans(cmds) \cup closed \subseteq DOMAIN cmds
    BY <1>1, <1>6 DEF DoneScans
  <2> QED BY <2>1, <2>2, <2>3
<1>23. RawOffs(cmds) \cap added = {} /\ DoneScans(cmds) \cap closed = {}
  BY <1>1, <1>6, <1>15 DEF RawOffs, DoneScans
<1>24. /\ IsFiniteSet(RawOffs(cmds)) /\ IsFiniteSet(DoneScans(cmds))
       /\ Cardinality(RawOffs(cmds)) = Cardinality(DoneScans(cmds))
  BY <1>1, CountedFinite DEF QueueInv
<1>25. Cardinality(RawOffs(cmds')) = Cardinality(DoneScans(cmds'))
  <2>1. Cardinality(RawOffs(cmds) \cup added) = Cardinality(RawOffs(cmds)) + n
    BY <1>16, <1>23, <1>24, DisjointCount
  <2>2. Cardinality(DoneScans(cmds) \cup closed) = Cardinality(DoneScans(cmds)) + n
    BY <1>9, <1>23, <1>24, DisjointCount DEF n
  <2> QED BY <1>21, <1>22, <1>24, <2>1, <2>2
<1>26. RawOffOncePerScan'
  BY <1>25 DEF RawOffOncePerScan, RawOffs, DoneScans
<1> QED BY <1>19, <1>20, <1>26 DEF QueueInv

-----------------------------------------------------------------------------
(* The theorems.                                                           *)

(* QueueInv holds in every state of the queue.                             *)
THEOREM Invariant == Spec => []QueueInv
<1>1. Init => QueueInv
  <2> SUFFICES ASSUME Init PROVE QueueInv
    OBVIOUS
  <2>1. cmds = <<>> /\ pending = {} /\ sender = <<>> /\ nodeRate = FALSE
    BY DEF Init
  <2>2. <<>> \in Seq(CommandType) /\ DOMAIN <<>> = {} /\ <<>> \in [{} -> SenderPcs]
    OBVIOUS
  <2>3. TypeOK
    BY <2>1, <2>2 DEF TypeOK
  <2>4. RawOffs(cmds) = {} /\ DoneScans(cmds) = {}
    BY <2>1, <2>2 DEF RawOffs, DoneScans
  <2>5. RawOffOncePerScan
    BY <2>3, <2>4, CountedFinite
  <2> QED BY <2>1, <2>3, <2>5 DEF QueueInv, FinishedLeavesQueue
<1>2. QueueInv /\ [Next]_vars => QueueInv'
  <2> SUFFICES ASSUME QueueInv, [Next]_vars PROVE QueueInv'
    OBVIOUS
  <2>1. CASE \E t \in IssueTargets : (\E name \in Issued : Enqueue(name, t)) \/ EnqueueDeviceScan(t)
    BY <2>1, EnqueueKeeps
  <2>2. CASE \E i \in DOMAIN cmds : \/ SendCall(i) \/ SendOk(i) \/ SendFails(i)
                                    \/ Delete(i) \/ EnforceScanTimeouts(i)
    BY <2>2, StepKeeps
  <2>3. CASE RateExpires
    <3>1. /\ cmds' = cmds /\ pending' = pending /\ nodeRate' \in BOOLEAN /\ sender' = sender
      BY <2>3 DEF RateExpires
    <3> QED BY <3>1, SameCommands DEF QueueInv, TypeOK
  <2>4. CASE \E token \in AckTokens, n \in Nodes : HandleStructuredACK(token, n)
    BY <2>4, AckKeeps
  <2>5. CASE UNCHANGED vars
    <3>1. /\ cmds' = cmds /\ pending' = pending /\ nodeRate' = nodeRate /\ sender' = sender
      BY <2>5 DEF vars
    <3> QED BY <3>1, SameCommands DEF QueueInv, TypeOK
  <2> QED BY <2>1, <2>2, <2>3, <2>4, <2>5 DEF Next
<1> QED BY <1>1, <1>2, PTL DEF Spec

(* The records, the queue and the senders keep their types: every command  *)
(* has a sender and everything in the queue is a command, whatever Delete, *)
(* acknowledgements and late sends do.                                     *)
THEOREM TypeCorrect == Spec => []TypeOK
<1>1. QueueInv => TypeOK
  BY DEF QueueInv
<1> QED BY <1>1, Invariant, PTL

(* What handleStructuredACK or the watchdog has closed is not matched      *)
(* again.                                                                  *)
THEOREM ClosedLeaves == Spec => []FinishedLeavesQueue
<1>1. QueueInv => FinishedLeavesQueue
  BY DEF QueueInv
<1> QED BY <1>1, Invariant, PTL

(* One RAW_BLE_OFF for each device scan that an acknowledgement closes,    *)
(* for any number of scans that one stop frame closes at once.             *)
THEOREM RawOffOnce == Spec => []RawOffOncePerScan
<1>1. QueueInv => RawOffOncePerScan
  BY DEF QueueInv
<1> QED BY <1>1, Invariant, PTL
=============================================================================
