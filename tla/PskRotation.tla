----------------------------- MODULE PskRotation -----------------------------
(***************************************************************************)
(* Fleet-wide PSK rotation (internal/fleetsec): the HTTP operations        *)
(* (channels.go, recovery_hook.go, trust.go), the job handlers Phase A,    *)
(* Phase B, Phase C and recover_stranded (job_handlers.go) run by the one  *)
(* worker of jobs.Loop, the tables they share (store.go,                   *)
(* recovery_store.go) and the radios they drive.                           *)
(*                                                                         *)
(*   Phase A  stage the new PSK on the Pi's radio as SECONDARY             *)
(*   Phase B  per remote: make the new PSK PRIMARY, wipe the old slot      *)
(*   Phase C  promote the new PSK on the Pi, keep the old one in a         *)
(*            recovery slot, flag the remotes left behind as stranded      *)
(*                                                                         *)
(* PSKs are numbered by the rotation that brings them (0: the factory      *)
(* one); RotatePSK refuses colliding channel hashes, so a hash names its   *)
(* PSK.  A handler reads the tables once and works from that snapshot; it  *)
(* is cut into steps wherever it touches a radio or where a crash between  *)
(* two writes can be told apart.  Radios leave requests unanswered, frames *)
(* get lost, the process crashes and the database fails: a fault of the    *)
(* database fails any of the statements of one step, and the handler logs  *)
(* it and goes on, or returns, as the code does at that line.  Progress    *)
(* events, audit rows, attempt counters and timestamps are left out.       *)
(***************************************************************************)
EXTENDS JobStore, FiniteSets, SequencesExt

CONSTANTS
    Nodes,            \* remote nodes
    Enrolled,         \* remotes whose trust row lists admin keys at the start
    RecoverySlots,    \* the Pi's recovery slots, a subset of 2 .. 7
    Overlap,          \* may a rotation start while another is open?
    MaxRotations, MaxRetries,                                \* bounds
    MaxLostFrames, MaxRadioFaults, MaxDbFaults, MaxCrashes,  \* bounds on faults
    MaxFaults         \* bound on faults of all kinds together

ASSUME NodesAssumption ==
    Nodes # {} /\ IsFiniteSet(Nodes) /\ Enrolled \subseteq Nodes
ASSUME SlotsAssumption == RecoverySlots \subseteq 2 .. 7 /\ RecoverySlots # {}
ASSUME EnvironmentAssumption == Overlap \in BOOLEAN
ASSUME BoundAssumption ==
    {MaxRotations, MaxRetries, MaxLostFrames, MaxRadioFaults, MaxDbFaults, MaxCrashes,
     MaxFaults} \subseteq Nat

NoPsk == -1
NoSlot == -1
Psks == 0 .. MaxRotations
Rotations == 1 .. MaxRotations
WorkSlots == {0, 1}
Slots == WorkSlots \cup RecoverySlots

Phases == {"pending", "phase_b_pushing", "on_new_psk", "failed_b"}
NotATarget == "not_a_target"

VARIABLES
    pi,        \* channel slots of the Pi's radio: role and PSK
    remote,    \* per node: slot and PSK of its PRIMARY channel
    rotation,  \* fleet_rotations
    trust,     \* fleet_node_trust
    channelFp, \* fleet_channels[0].psk_fingerprint
    cache,     \* fleet_recovery_psks, oldest added_at first
    hook,      \* recoveryDispatchHook.hashFP (in memory)
    jobs,      \* the pending rows of fleet_jobs
    worker,    \* the worker goroutine and the handler it runs
    retry,     \* a RetryRotation between its read and its write
    missed,    \* PSKs that Phase C left without a recovery slot, or retired
               \* without promoting them (history)
    budget     \* faults used up

vars == <<pi, remote, rotation, trust, channelFp, cache, hook, jobs, worker, retry, missed,
          budget>>
radios == <<pi, remote, missed>>
tables == <<rotation, trust, channelFp, cache>>

Done(phase) == phase = "on_new_psk"
Targets(r) == {n \in Nodes : rotation[r].target[n] # NotATarget}

RotationType ==
    [opened : BOOLEAN, stored : BOOLEAN, staging : WorkSlots \cup {NoSlot},
     piPhase : {"pending", "staging_added", "retired"}, piDone : BOOLEAN,
     target : [Nodes -> Phases \cup {NotATarget}]]

(* piDone: the Pi's own entry of the target list is on_new_psk.            *)
(* rot 0 and node NoNode mark fields that the kind does not use.           *)
NoNode == "no_node"
WorkType ==
    [kind : {"rotate_phase_a", "rotate_phase_b", "rotate_phase_c", "recover_stranded"},
     rot : 0 .. MaxRotations, node : Nodes \cup {NoNode},
     staging : WorkSlots \cup {NoSlot}, old : WorkSlots \cup {NoSlot},
     prev : Psks \cup {NoPsk}]

WorkerPcs == {"down", "idle", "start", "a_stage", "a_channel", "a_enqueue", "frames",
              "verify", "b_record", "b_stamp", "c_radio", "c_retire", "c_strand",
              "c_clear", "r_record", "close"}

WorkerType ==
    [pc : WorkerPcs, job : Nat, snap : [Nodes -> Phases \cup {NotATarget}],
     staging : WorkSlots \cup {NoSlot}, old : WorkSlots \cup {NoSlot},
     psk : Psks \cup {NoPsk}, prev : Psks \cup {NoPsk}, todo : SUBSET Nodes, ok : BOOLEAN]

NoSnap == [n \in Nodes |-> NotATarget]
Resting(pc) == [pc |-> pc, job |-> 0, snap |-> NoSnap, staging |-> NoSlot,
                old |-> NoSlot, psk |-> NoPsk, prev |-> NoPsk, todo |-> {}, ok |-> FALSE]
NoRetry == [rot |-> 0, snap |-> NoSnap, piDone |-> FALSE]

TypeOK ==
    /\ pi \in [Slots -> [role : {"primary", "secondary", "disabled"}, psk : Psks \cup {NoPsk}]]
    /\ remote \in [Nodes -> [slot : WorkSlots, psk : Psks \cup {NoPsk}]]
    /\ rotation \in [Rotations -> RotationType]
    /\ trust \in [Nodes -> [managed : BOOLEAN, fp : Psks \cup {NoPsk},
                            stranded : BOOLEAN, prev : Psks \cup {NoPsk}]]
    /\ channelFp \in Psks \cup {NoPsk}
    /\ cache \in Seq([slot : RecoverySlots, psk : Psks])
    /\ hook \subseteq Psks
    /\ jobs \in Seq(RowType(WorkType, Nat, 0 .. 1))
    /\ worker \in WorkerType
    /\ retry \in [rot : 0 .. MaxRotations, snap : [Nodes -> Phases \cup {NotATarget}],
                  piDone : BOOLEAN]
    /\ missed \subseteq Psks
    /\ budget \in [retries : 0 .. MaxRetries, frames : 0 .. MaxLostFrames,
                   radio : 0 .. MaxRadioFaults, db : 0 .. MaxDbFaults,
                   crashes : 0 .. MaxCrashes]

Init ==
    /\ pi = [s \in Slots |-> IF s = 0 THEN [role |-> "primary", psk |-> 0]
                                      ELSE [role |-> "disabled", psk |-> NoPsk]]
    /\ remote = [n \in Nodes |-> [slot |-> 0, psk |-> 0]]
    /\ rotation = [r \in Rotations |->
                     [opened |-> FALSE, stored |-> FALSE, staging |-> NoSlot,
                      piPhase |-> "pending", piDone |-> FALSE, target |-> NoSnap]]
    /\ trust = [n \in Nodes |-> [managed |-> n \in Enrolled, fp |-> NoPsk,
                                 stranded |-> FALSE, prev |-> NoPsk]]
    /\ channelFp = NoPsk
    /\ cache = <<>>
    /\ hook = {}
    /\ jobs = <<>>
    /\ worker = Resting("idle")
    /\ retry = NoRetry
    /\ missed = {}
    /\ budget = [retries |-> 0, frames |-> 0, radio |-> 0, db |-> 0, crashes |-> 0]

-----------------------------------------------------------------------------
(* The radios (external).  The Pi exchanges admin packets with a remote    *)
(* whose PRIMARY PSK one of its own channels holds.                        *)

PiKeys == {pi[s].psk : s \in {t \in Slots : pi[t].role # "disabled"}}
HasPrimary == \E s \in Slots : pi[s].role = "primary"
PrimarySlot == CHOOSE s \in Slots : pi[s].role = "primary"
PiPsk == pi[PrimarySlot].psk
Reachable(n) == remote[n].psk # NoPsk /\ remote[n].psk \in PiKeys

FaultsLeft == MaxFaults - (budget.frames + budget.radio + budget.db + budget.crashes)

SpendRadio == /\ budget.radio < MaxRadioFaults /\ FaultsLeft > 0
              /\ budget' = [budget EXCEPT !.radio = @ + 1]
SpendDb == /\ budget.db < MaxDbFaults /\ FaultsLeft > 0
           /\ budget' = [budget EXCEPT !.db = @ + 1]

Frames == {"begin", "promote", "disable", "commit"}

(* What a remote's firmware makes of the frames of one migration that      *)
(* reach it: edits between begin and commit take effect with the commit,   *)
(* edits without a begin at once.                                          *)
AfterFrames(chan, got, staging, old, psk) ==
    LET lost == "begin" \in got /\ "commit" \notin got
        promoted == IF "promote" \in got THEN [slot |-> staging, psk |-> psk] ELSE chan
        wiped == IF "disable" \in got /\ promoted.slot = old
                 THEN [promoted EXCEPT !.psk = NoPsk] ELSE promoted
    IN  IF lost THEN chan ELSE wiped

-----------------------------------------------------------------------------
(* The tables.                                                             *)

WriteTargets(r, snap) == [rotation EXCEPT ![r].target = snap]

Cached(psk) == \E i \in DOMAIN cache : cache[i].psk = psk
CachedPsks(c) == {c[i].psk : i \in DOMAIN c}

(* A PSK already cached is refreshed in its slot; otherwise the lowest     *)
(* free slot is taken, or the oldest entry is evicted.                     *)
AddRecoveryPSK(psk) ==
    LET own == CHOOSE i \in DOMAIN cache : cache[i].psk = psk
        free == RecoverySlots \ {cache[i].slot : i \in DOMAIN cache}
    IN  IF Cached(psk) THEN Append(RemoveAt(cache, own), cache[own])
        ELSE IF free # {}
        THEN Append(cache, [slot |-> CHOOSE s \in free : \A t \in free : s <= t, psk |-> psk])
        ELSE Append(Tail(cache), [slot |-> Head(cache).slot, psk |-> psk])

(* Work that a row of fleet_jobs describes.                                *)
PhaseAWork(r) == [kind |-> "rotate_phase_a", rot |-> r, node |-> NoNode,
                  staging |-> NoSlot, old |-> NoSlot, prev |-> NoPsk]
PhaseBWork(r, n, staging, old) ==
    [kind |-> "rotate_phase_b", rot |-> r, node |-> n,
     staging |-> staging, old |-> old, prev |-> NoPsk]
PhaseCWork(r, staging) ==
    [kind |-> "rotate_phase_c", rot |-> r, node |-> NoNode,
     staging |-> staging, old |-> NoSlot, prev |-> NoPsk]
RecoverWork(n, prev) ==
    [kind |-> "recover_stranded", rot |-> 0, node |-> n,
     staging |-> NoSlot, old |-> NoSlot, prev |-> prev]

PhaseCPending(r) ==
    \E j \in DOMAIN jobs : jobs[j].work.kind = "rotate_phase_c" /\ jobs[j].work.rot = r

ProcessUp == worker.pc # "down"

-----------------------------------------------------------------------------
(* HTTP operations and the dispatcher's hook.                              *)

AllRetiredBefore(r) == \A q \in 1 .. (r - 1) : rotation[q].piPhase = "retired"

(* RotatePSK: insert the rotation row with the raw PSK and enqueue Phase A; *)
(* if that fails, the row stays.  The code does not ask whether another    *)
(* rotation is open.                                                       *)
RotatePSK(r, T) ==
    /\ ProcessUp
    /\ ~rotation[r].opened /\ \A q \in 1 .. (r - 1) : rotation[q].opened
    /\ Overlap \/ AllRetiredBefore(r)
    /\ rotation' = [rotation EXCEPT
           ![r] = [opened |-> TRUE, stored |-> TRUE, staging |-> NoSlot,
                   piPhase |-> "pending", piDone |-> FALSE,
                   target |-> [n \in Nodes |-> IF n \in T THEN "pending" ELSE NotATarget]]]
    /\ \/ jobs' = EnqueueRow(jobs, PhaseAWork(r)) /\ UNCHANGED budget
       \/ jobs' = jobs /\ SpendDb
    /\ UNCHANGED <<radios, trust, channelFp, cache, hook, worker, retry>>

AllManagedNodesOnPSK(r) == \A n \in Nodes : trust[n].managed => trust[n].fp = r

RetireOldPSK(r) ==
    /\ ProcessUp
    /\ rotation[r].opened /\ rotation[r].piPhase = "staging_added"
    /\ rotation[r].staging # NoSlot
    /\ AllManagedNodesOnPSK(r)
    /\ ~PhaseCPending(r)
    /\ jobs' = EnqueueRow(jobs, PhaseCWork(r, rotation[r].staging))
    /\ UNCHANGED <<radios, tables, hook, worker, retry, budget>>

(* RetryRotation reads the row, resets the wanted targets W in its copy,   *)
(* writes the whole copy back and enqueues Phase A again.  The Pi's own    *)
(* target, pending until Phase C, may be among the wanted ones; a PSK that *)
(* is no longer stored can be supplied with the request.                   *)
RetryRead(r, W) ==
    /\ ProcessUp /\ retry = NoRetry
    /\ budget.retries < MaxRetries
    /\ rotation[r].opened
    /\ \/ ~rotation[r].piDone
       \/ \E n \in W \cap Targets(r) : ~Done(rotation[r].target[n])
    /\ retry' = [rot |-> r, piDone |-> rotation[r].piDone,
                 snap |-> [n \in Nodes |->
                     IF n \in W /\ rotation[r].target[n] \in {"failed_b", "phase_b_pushing"}
                     THEN "pending" ELSE rotation[r].target[n]]]
    /\ budget' = [budget EXCEPT !.retries = @ + 1]
    /\ UNCHANGED <<radios, tables, hook, jobs, worker>>

RetryWrite ==
    LET reset == [rotation EXCEPT ![retry.rot].target = retry.snap,
                                  ![retry.rot].piDone = retry.piDone] IN
    /\ ProcessUp /\ retry # NoRetry
    /\ \/ /\ rotation' = reset /\ jobs' = EnqueueRow(jobs, PhaseAWork(retry.rot))
          /\ UNCHANGED budget
       \/ rotation' \in {rotation, reset} /\ jobs' = jobs /\ SpendDb
    /\ retry' = NoRetry
    /\ UNCHANGED <<radios, trust, channelFp, cache, hook, worker>>

(* GetTrust: a successful PKC round-trip stamps the fingerprint recorded   *)
(* in fleet_channels, whatever PSK carried the packets.                    *)
VerifyTrust(n) ==
    /\ ProcessUp /\ Reachable(n)
    /\ \/ /\ trust' = [trust EXCEPT ![n].managed = TRUE,
                                    ![n].fp = IF channelFp # NoPsk THEN channelFp ELSE @]
          /\ UNCHANGED budget
       \/ trust' = [trust EXCEPT ![n].managed = TRUE] /\ SpendDb
    /\ UNCHANGED <<radios, rotation, channelFp, cache, hook, jobs, worker, retry>>

EnqueueRecovery(n, prev) ==
    /\ ~HasPendingFor(jobs, "recover_stranded", n)
    /\ jobs' = EnqueueRow(jobs, RecoverWork(n, prev))

(* A packet from n decrypts on a cached channel.  The 30 s cooldown only   *)
(* drops packets, and a silent node sends none: both are a step not taken. *)
ObserveInboundPacket(n) ==
    /\ ProcessUp /\ Reachable(n) /\ remote[n].psk \in hook
    /\ trust[n].stranded
    /\ EnqueueRecovery(n, IF trust[n].prev # NoPsk THEN trust[n].prev ELSE remote[n].psk)
    /\ UNCHANGED <<radios, tables, hook, worker, retry, budget>>

ForceRecoverStranded(n) ==
    /\ ProcessUp
    /\ trust[n].stranded /\ trust[n].prev # NoPsk
    /\ EnqueueRecovery(n, trust[n].prev)
    /\ UNCHANGED <<radios, tables, hook, worker, retry, budget>>

(* Two statements: the flag, then the PSK.                                 *)
CancelStranded(n) ==
    /\ ProcessUp
    /\ \/ /\ trust' = [trust EXCEPT ![n].stranded = FALSE, ![n].prev = NoPsk]
          /\ UNCHANGED budget
       \/ trust' = [trust EXCEPT ![n].stranded = FALSE] /\ SpendDb
    /\ UNCHANGED <<radios, rotation, channelFp, cache, hook, jobs, worker, retry>>

-----------------------------------------------------------------------------
(* The worker: lease a row, run its handler, close the row.                *)

work == jobs[worker.job].work

Lease ==
    /\ worker = Resting("idle")
    /\ \E j \in DOMAIN jobs :
          /\ IsNextQueued(jobs, j)
          /\ jobs' = LeaseRow(jobs, j)
          /\ worker' = [Resting("start") EXCEPT !.job = j]
    /\ UNCHANGED <<radios, tables, hook, retry, budget>>

At(pc) == worker.pc = pc
Running(pc, kind) == At(pc) /\ work.kind = kind
Goto(pc) == worker' = [worker EXCEPT !.pc = pc]

(* MarkDone or MarkFailed: the row is pending no more.  If the statement   *)
(* fails, the row stays in_progress.                                       *)
CloseJob ==
    /\ At("close")
    /\ \/ jobs' = RemoveAt(jobs, worker.job) /\ UNCHANGED budget
       \/ jobs' = jobs /\ SpendDb
    /\ worker' = Resting("idle")
    /\ UNCHANGED <<radios, tables, hook, retry>>

(* The handler returns before it has changed anything.                     *)
Return == Goto("close") /\ UNCHANGED <<radios, tables, hook, jobs, retry>>

-----------------------------------------------------------------------------
(* Phase A.                                                                *)

PhaseAFails ==
    /\ Running("start", "rotate_phase_a")
    /\ \/ ~(rotation[work.rot].stored /\ HasPrimary) /\ UNCHANGED budget
       \/ SpendRadio                       \* the probe is not answered
       \/ SpendDb                          \* the rotation cannot be read
    /\ Return

(* Mutants: always stage in slot 1; stage in the slot after the PRIMARY.   *)
StagingSlotFixed(r) == IF rotation[r].staging # NoSlot THEN rotation[r].staging ELSE 1
StagingSlotNext(r) ==
    IF rotation[r].staging # NoSlot THEN rotation[r].staging ELSE PrimarySlot + 1

(* A pinned slot, or the one of 0 and 1 that is not the Pi's PRIMARY.      *)
StagingSlot(r) ==
    IF rotation[r].staging # NoSlot THEN rotation[r].staging ELSE 1 - PrimarySlot

(* A slot that could not be pinned is used all the same.                   *)
PhaseAPick ==
    LET r == work.rot IN
    /\ Running("start", "rotate_phase_a")
    /\ rotation[r].stored /\ HasPrimary
    /\ \/ /\ rotation' = [rotation EXCEPT ![r].staging = StagingSlot(r)]
          /\ UNCHANGED budget
       \/ rotation[r].staging = NoSlot /\ rotation' = rotation /\ SpendDb
    /\ worker' = [worker EXCEPT
           !.pc = IF rotation[r].piPhase = "pending" THEN "a_stage" ELSE "a_channel",
           !.snap = rotation[r].target,
           !.staging = StagingSlot(r), !.old = PrimarySlot, !.psk = r,
           !.todo = {n \in Targets(r) : ~Done(rotation[r].target[n])}]
    /\ UNCHANGED <<radios, trust, channelFp, cache, hook, jobs, retry>>

StagedPi == [pi EXCEPT ![worker.staging] = [role |-> "secondary", psk |-> worker.psk]]

PhaseAStage ==
    /\ At("a_stage")
    /\ pi' = StagedPi
    /\ \/ /\ rotation' = [rotation EXCEPT ![work.rot].piPhase = "staging_added"]
          /\ UNCHANGED budget
       \/ rotation' = rotation /\ SpendDb
    /\ Goto("a_channel")
    /\ UNCHANGED <<remote, missed, trust, channelFp, cache, hook, jobs, retry>>

(* SetChannel times out, whether or not the radio applied it.              *)
PhaseAStageFails ==
    /\ At("a_stage")
    /\ SpendRadio
    /\ pi' \in {pi, StagedPi}
    /\ Goto("close")
    /\ UNCHANGED <<remote, missed, tables, hook, jobs, retry>>

PhaseAChannel ==
    /\ At("a_channel")
    /\ \/ channelFp' = worker.psk /\ UNCHANGED budget
       \/ channelFp' = channelFp /\ SpendDb
    /\ Goto(IF worker.todo = {} THEN "close" ELSE "a_enqueue")
    /\ UNCHANGED <<radios, rotation, trust, cache, hook, jobs, retry>>

(* Mutant: no debounce.                                                    *)
DebouncesNever(n) == FALSE

(* What the debounce check finds.                                          *)
Debounces(n) == HasPendingFor(jobs, "rotate_phase_b", n)

EnqueuePhaseB(n) == EnqueueRow(jobs, PhaseBWork(work.rot, n, worker.staging, worker.old))

(* One Phase B row per target not done, in the order of the target list,   *)
(* which is the operator's choice.  A check that fails is only logged, and *)
(* the row is inserted.                                                    *)
PhaseAEnqueue ==
    /\ At("a_enqueue")
    /\ \E n \in worker.todo :
          /\ \/ jobs' = (IF Debounces(n) THEN jobs ELSE EnqueuePhaseB(n)) /\ UNCHANGED budget
             \/ jobs' = EnqueuePhaseB(n) /\ SpendDb
          /\ worker' = [worker EXCEPT
                 !.todo = @ \ {n},
                 !.pc = IF worker.todo = {n} THEN "close" ELSE "a_enqueue"]
    /\ UNCHANGED <<radios, tables, hook, retry>>

(* A row that cannot be inserted ends the handler.                         *)
PhaseAEnqueueFails ==
    /\ At("a_enqueue")
    /\ \E n \in worker.todo : ~Debounces(n)
    /\ SpendDb
    /\ Return

-----------------------------------------------------------------------------
(* migrateRemoteAtomic, shared by Phase B and recover_stranded.            *)

RecordPc == IF work.kind = "rotate_phase_b" THEN "b_record" ELSE "r_record"

(* The session is established (the remote answers a read) and the four     *)
(* frames go out unacknowledged; some may be lost on the air.              *)
MigrateSend ==
    LET n == work.node IN
    /\ At("frames") /\ Reachable(n)
    /\ \E lost \in SUBSET Frames :
          /\ budget.frames + Cardinality(lost) <= MaxLostFrames
          /\ Cardinality(lost) <= FaultsLeft
          /\ budget' = [budget EXCEPT !.frames = @ + Cardinality(lost)]
          /\ remote' = [remote EXCEPT
                 ![n] = AfterFrames(@, Frames \ lost, worker.staging, worker.old, worker.psk)]
    /\ Goto("verify")
    /\ UNCHANGED <<pi, missed, tables, hook, jobs, retry>>

MigrateNoSession ==
    /\ At("frames")
    /\ (~Reachable(work.node) /\ UNCHANGED budget) \/ SpendRadio
    /\ worker' = [worker EXCEPT !.pc = RecordPc, !.ok = FALSE]
    /\ UNCHANGED <<radios, tables, hook, jobs, retry>>

(* Mutant: an answered probe is taken for success.                         *)
MigratedIfAnswered(n) == Reachable(n)

(* The probe of the staging slot: PRIMARY, with the new fingerprint.       *)
Migrated(n) == Reachable(n) /\ remote[n] = [slot |-> worker.staging, psk |-> worker.psk]

MigrateVerify ==
    /\ At("verify")
    /\ \/ worker' = [worker EXCEPT !.pc = RecordPc, !.ok = Migrated(work.node)]
          /\ UNCHANGED budget
       \/ worker' = [worker EXCEPT !.pc = RecordPc, !.ok = FALSE] /\ SpendRadio
    /\ UNCHANGED <<radios, tables, hook, jobs, retry>>

-----------------------------------------------------------------------------
(* Phase B.                                                                *)

PhaseBSkips ==
    /\ Running("start", "rotate_phase_b")
    /\ \/ /\ ~rotation[work.rot].stored \/ Done(rotation[work.rot].target[work.node])
          /\ UNCHANGED budget
       \/ SpendDb                          \* the rotation cannot be read
    /\ Return

(* transitionTarget writes the node's entry, then the handler's copy of    *)
(* all targets; its errors are logged.                                     *)
TransitionTarget(snap) ==
    LET r == work.rot n == work.node IN
    \/ rotation' = WriteTargets(r, snap) /\ UNCHANGED budget
    \/ rotation' \in {rotation, [rotation EXCEPT ![r].target[n] = snap[n]]} /\ SpendDb

PhaseBStart ==
    LET r == work.rot
        snap == [rotation[r].target EXCEPT ![work.node] = "phase_b_pushing"] IN
    /\ Running("start", "rotate_phase_b")
    /\ rotation[r].stored /\ ~Done(rotation[r].target[work.node])
    /\ TransitionTarget(snap)
    /\ worker' = [worker EXCEPT !.pc = "frames", !.snap = snap, !.psk = r,
                                !.staging = work.staging, !.old = work.old]
    /\ UNCHANGED <<radios, trust, channelFp, cache, hook, jobs, retry>>

PhaseBRecord ==
    LET snap == [worker.snap EXCEPT
                     ![work.node] = IF worker.ok THEN "on_new_psk" ELSE "failed_b"] IN
    /\ At("b_record")
    /\ TransitionTarget(snap)
    /\ worker' = [worker EXCEPT !.snap = snap, !.pc = IF worker.ok THEN "b_stamp" ELSE "close"]
    /\ UNCHANGED <<radios, trust, channelFp, cache, hook, jobs, retry>>

(* The last target done writes the copy once more, with completed_at.      *)
PhaseBStamp ==
    LET stamped == [trust EXCEPT ![work.node].fp = worker.psk]
        final == IF \A n \in Nodes : worker.snap[n] \in {NotATarget, "on_new_psk"}
                 THEN WriteTargets(work.rot, worker.snap) ELSE rotation IN
    /\ At("b_stamp")
    /\ \/ trust' = stamped /\ rotation' = final /\ UNCHANGED budget
       \/ trust' \in {trust, stamped} /\ rotation' \in {rotation, final} /\ SpendDb
    /\ Goto("close")
    /\ UNCHANGED <<radios, channelFp, cache, hook, jobs, retry>>

-----------------------------------------------------------------------------
(* Phase C.                                                                *)

(* Phase C's scan: no PRIMARY with another fingerprint.                    *)
PiPromoted(r) == HasPrimary => PiPsk = r

(* The scan finds nothing, because the Pi is on the new PSK or because its *)
(* radio left the read of the PRIMARY slot unanswered: retire and return.  *)
PhaseCNothingToMigrate ==
    LET r == work.rot IN
    /\ Running("start", "rotate_phase_c")
    /\ rotation[r].piPhase # "retired"
    /\ \/ PiPromoted(r) /\ UNCHANGED <<missed, budget>>
       \/ ~PiPromoted(r) /\ missed' = missed \cup {r} /\ SpendRadio
    /\ rotation' = [rotation EXCEPT ![r].piPhase = "retired"]
    /\ Goto("close")
    /\ UNCHANGED <<pi, remote, trust, channelFp, cache, hook, jobs, retry>>

PhaseCSkips ==
    LET r == work.rot IN
    /\ Running("start", "rotate_phase_c")
    /\ \/ /\ rotation[r].piPhase = "retired" \/ (~PiPromoted(r) /\ ~rotation[r].stored)
          /\ UNCHANGED budget
       \/ SpendDb               \* the rotation cannot be read, or not be retired
    /\ Return

(* ok records whether the old PSK has got a recovery slot: if              *)
(* AddRecoveryPSK fails, whether or not its commit was applied, the        *)
(* promotion goes on without one.                                          *)
PhaseCStart ==
    LET r == work.rot IN
    /\ Running("start", "rotate_phase_c")
    /\ rotation[r].piPhase # "retired" /\ ~PiPromoted(r) /\ rotation[r].stored
    /\ \E ok \in BOOLEAN :
          /\ \/ ok /\ cache' = AddRecoveryPSK(PiPsk) /\ UNCHANGED budget
             \/ ~ok /\ cache' \in {cache, AddRecoveryPSK(PiPsk)} /\ SpendDb
          /\ worker' = [worker EXCEPT !.pc = "c_radio", !.snap = rotation[r].target,
                                      !.staging = work.staging, !.old = PrimarySlot,
                                      !.psk = r, !.prev = PiPsk, !.ok = ok]
    /\ UNCHANGED <<radios, rotation, trust, channelFp, hook, jobs, retry>>

RecoverySlotOf(psk) == (CHOOSE e \in ToSet(cache) : e.psk = psk).slot

SwappedPi ==
    [pi EXCEPT ![worker.staging] = [role |-> "primary", psk |-> worker.psk],
               ![worker.old] = [role |-> "disabled", psk |-> NoPsk]]

(* Mutant: the old PSK is wiped and not kept.                              *)
PromotedPiNoRecovery == SwappedPi

(* migratePiAtomicWithRecovery: one transaction promotes the staging slot, *)
(* wipes the old one and keeps its PSK in the recovery slot, if it has one. *)
PromotedPi ==
    IF worker.ok
    THEN [SwappedPi EXCEPT ![RecoverySlotOf(worker.prev)] =
              [role |-> "secondary", psk |-> worker.prev]]
    ELSE SwappedPi

Promote ==
    /\ pi' = PromotedPi
    /\ missed' = IF worker.ok THEN missed ELSE missed \cup {worker.prev}

PhaseCPromote ==
    /\ At("c_radio")
    /\ Promote
    /\ Goto("c_retire")
    /\ UNCHANGED <<remote, tables, hook, jobs, retry, budget>>

(* A frame of the transaction is not acknowledged: without the commit the  *)
(* radio discards it, with the commit it has been applied.                 *)
PhaseCPromoteFails ==
    /\ At("c_radio")
    /\ SpendRadio
    /\ Promote \/ UNCHANGED <<pi, missed>>
    /\ Goto("close")
    /\ UNCHANGED <<remote, tables, hook, jobs, retry>>

PhaseCRetire ==
    /\ At("c_retire")
    /\ rotation' = [rotation EXCEPT ![work.rot].target = worker.snap, ![work.rot].piDone = TRUE,
                                    ![work.rot].piPhase = "retired"]
    /\ Goto("c_strand")
    /\ UNCHANGED <<radios, trust, channelFp, cache, hook, jobs, retry, budget>>

(* A failed write of the targets is logged; a failed MarkRotationRetired,  *)
(* whether or not it was applied, ends the handler.                        *)
PhaseCRetireFails ==
    LET r == work.rot IN
    /\ At("c_retire")
    /\ SpendDb
    /\ \E written, retired, answered \in BOOLEAN :
          /\ answered => retired /\ ~written
          /\ rotation' = [rotation EXCEPT
                 ![r].target = IF written THEN worker.snap ELSE @,
                 ![r].piDone = IF written THEN TRUE ELSE @,
                 ![r].piPhase = IF retired THEN "retired" ELSE @]
          /\ Goto(IF answered THEN "c_strand" ELSE "close")
    /\ UNCHANGED <<radios, trust, channelFp, cache, hook, jobs, retry>>

StrandedBy(F, prev) ==
    [n \in Nodes |-> IF n \in F \/ worker.snap[n] \in {NotATarget, "on_new_psk"} THEN trust[n]
                     ELSE [trust[n] EXCEPT !.stranded = TRUE, !.prev = prev]]

(* Mutant: the new fingerprint is recorded instead of the old one.         *)
PhaseCMarkStrandedNewFp ==
    /\ At("c_strand")
    /\ trust' = StrandedBy({}, worker.psk)
    /\ Goto("c_clear")
    /\ UNCHANGED <<radios, rotation, channelFp, cache, hook, jobs, retry, budget>>

(* Every remote target not on the new PSK is flagged, with the PSK the Pi  *)
(* has just left; a flag that cannot be written is logged.                 *)
PhaseCMarkStranded ==
    /\ At("c_strand")
    /\ \/ trust' = StrandedBy({}, worker.prev) /\ UNCHANGED budget
       \/ \E F \in SUBSET Nodes : trust' = StrandedBy(F, worker.prev) /\ SpendDb
    /\ Goto("c_clear")
    /\ UNCHANGED <<radios, rotation, channelFp, cache, hook, jobs, retry>>

(* ClearRotationPSK, then rebuildRecoveryHook.                             *)
PhaseCClear ==
    LET cleared == [rotation EXCEPT ![work.rot].stored = FALSE] IN
    /\ At("c_clear")
    /\ \/ rotation' = cleared /\ hook' = CachedPsks(cache) /\ UNCHANGED budget
       \/ rotation' \in {rotation, cleared} /\ hook' \in {hook, CachedPsks(cache)} /\ SpendDb
    /\ Goto("close")
    /\ UNCHANGED <<radios, trust, channelFp, cache, jobs, retry>>

-----------------------------------------------------------------------------
(* recover_stranded.                                                       *)

(* The PSK has been evicted from the cache or cannot be read, or the probe *)
(* of the Pi fails.                                                        *)
RecoverFails ==
    /\ Running("start", "recover_stranded")
    /\ \/ ~(Cached(work.prev) /\ HasPrimary) /\ UNCHANGED budget
       \/ SpendRadio
       \/ SpendDb
    /\ Return

ClearStranded(n) == [trust EXCEPT ![n].stranded = FALSE]

(* A Pi that is back on the node's PSK ends the job: the flag is cleared.  *)
RecoverStart ==
    /\ Running("start", "recover_stranded")
    /\ Cached(work.prev) /\ HasPrimary
    /\ IF PiPsk = work.prev
       THEN /\ \/ trust' = ClearStranded(work.node) /\ UNCHANGED budget
               \/ trust' = trust /\ SpendDb
            /\ Goto("close")
       ELSE /\ UNCHANGED <<trust, budget>>
            /\ worker' = [worker EXCEPT !.pc = "frames", !.psk = PiPsk,
                                        !.staging = 1 - PrimarySlot, !.old = PrimarySlot]
    /\ UNCHANGED <<radios, rotation, channelFp, cache, hook, jobs, retry>>

RecoverRecord ==
    LET n == work.node
        stamped == [trust EXCEPT ![n].fp = worker.psk] IN
    /\ At("r_record")
    /\ \/ /\ trust' = IF worker.ok THEN [stamped EXCEPT ![n].stranded = FALSE] ELSE trust
          /\ UNCHANGED budget
       \/ /\ worker.ok /\ SpendDb
          /\ trust' \in {trust, stamped, ClearStranded(n)}
    /\ Goto("close")
    /\ UNCHANGED <<radios, rotation, channelFp, cache, hook, jobs, retry>>

-----------------------------------------------------------------------------
(* The process dies: its memory goes, tables and radios stay.              *)
Crash ==
    /\ ProcessUp
    /\ budget.crashes < MaxCrashes /\ FaultsLeft > 0
    /\ budget' = [budget EXCEPT !.crashes = @ + 1]
    /\ worker' = Resting("down")
    /\ hook' = {}
    /\ retry' = NoRetry
    /\ UNCHANGED <<radios, tables, jobs>>

(* Start-up after less (quick) or more than the stale-lease threshold.     *)
Restart(quick) ==
    /\ At("down")
    /\ jobs' = IF quick THEN jobs ELSE ResumeStaleLeases(AgeRows(jobs, 1), 0)
    /\ \/ hook' = CachedPsks(cache) /\ UNCHANGED budget
       \/ hook' = {} /\ SpendDb
    /\ worker' = Resting("idle")
    /\ UNCHANGED <<radios, tables, retry>>

Operator ==
    \/ \E r \in Rotations :
          \/ \E T \in SUBSET Nodes : RotatePSK(r, T)
          \/ RetireOldPSK(r)
          \/ \E W \in SUBSET Nodes : RetryRead(r, W)
    \/ RetryWrite
    \/ \E n \in Nodes : VerifyTrust(n) \/ ForceRecoverStranded(n) \/ CancelStranded(n)

Handler ==
    \/ PhaseAFails \/ PhaseAPick \/ PhaseAStage \/ PhaseAStageFails
    \/ PhaseAChannel \/ PhaseAEnqueue \/ PhaseAEnqueueFails
    \/ MigrateSend \/ MigrateNoSession \/ MigrateVerify
    \/ PhaseBSkips \/ PhaseBStart \/ PhaseBRecord \/ PhaseBStamp
    \/ PhaseCNothingToMigrate \/ PhaseCSkips \/ PhaseCStart
    \/ PhaseCPromote \/ PhaseCPromoteFails
    \/ PhaseCRetire \/ PhaseCRetireFails \/ PhaseCMarkStranded \/ PhaseCClear
    \/ RecoverFails \/ RecoverStart \/ RecoverRecord

Next ==
    \/ Operator
    \/ \E n \in Nodes : ObserveInboundPacket(n)
    \/ Lease \/ Handler \/ CloseJob
    \/ Crash \/ \E quick \in BOOLEAN : Restart(quick)

Spec == Init /\ [][Next]_vars

-----------------------------------------------------------------------------
(* Properties.                                                             *)

(* The Pi can talk to every remote that is at most as many rotations       *)
(* behind as there are recovery slots, at every moment of a rotation:      *)
(* "after this returns the Pi can decrypt traffic on EITHER the existing   *)
(* PRIMARY or the staging slot" (applyLocalStagingChannel), and the        *)
(* recovery slots keep retired PSKs.  Two kinds of remote are left out:    *)
(* those on a PSK that Phase C itself missed (it says so: "rotation will   *)
(* retire without cache entry", or it retired a PSK without promoting it), *)
(* and those that lost the promote frame but not the wipe of their old     *)
(* slot, which have no PSK at all.                                         *)
PiHearsFleet ==
    \A n \in Nodes :
        (/\ remote[n].psk # NoPsk /\ remote[n].psk \notin missed
         /\ remote[n].psk + Cardinality(RecoverySlots) >= PiPsk) => Reachable(n)

(* "Only called ... after every fleet member is confirmed on the new PSK"  *)
(* (MarkRotationRetired): the Pi never moves past a managed remote.        *)
NoManagedNodeLeftBehind ==
    \A n \in Nodes :
        trust[n].managed => remote[n].psk = NoPsk \/ remote[n].psk >= PiPsk

(* A migration is recorded as done only on proof: until its last write the *)
(* remote's PRIMARY is the PSK, in the slot, that the handler records,     *)
(* whatever frames or answers were lost.                                   *)
DoneOnProof ==
    (worker.pc \in {"b_record", "b_stamp", "r_record"} /\ worker.ok)
        => remote[work.node] = [slot |-> worker.staging, psk |-> worker.psk]

PhaseBRows(n) == {j \in DOMAIN jobs : /\ jobs[j].work.kind = "rotate_phase_b"
                                      /\ jobs[j].work.node = n}

(* Phase A debounces Phase B rows across retries, re-leases and rotations: *)
(* a node has one pending row, and one more for every debounce check that  *)
(* failed and was only logged ("phase B debounce check").                  *)
OnePhaseBPerNode == \A n \in Nodes : Cardinality(PhaseBRows(n)) <= 1 + budget.db

(* A stranded remote can be brought back without USB access until later    *)
(* rotations have used up the recovery slots: the PSK its trust row names  *)
(* is cached, and the Pi's radio holds it, unless Phase C gave it no slot  *)
(* ("rotation will retire without cache entry").  Phase C evicts before it *)
(* touches the radio: from AddRecoveryPSK on, the coming PSK counts, even  *)
(* if the transaction then fails.                                          *)
StrandedRecoverable ==
    LET coming == IF Cached(PiPsk) THEN PiPsk + 1 ELSE PiPsk IN
    \A n \in Nodes :
        LET prev == trust[n].prev IN
        (/\ trust[n].stranded /\ prev \notin missed
         /\ prev + Cardinality(RecoverySlots) >= coming)
            => Cached(prev) /\ prev \in PiKeys

(* The Pi's radio always has exactly one PRIMARY channel, in slot 0 or 1,  *)
(* where probeSlotsLocal and the staging pick expect it.                   *)
PiCanonical ==
    \E s \in WorkSlots : {t \in Slots : pi[t].role = "primary"} = {s}

(* A rotation marked retired has been promoted on the Pi: "Pi already on   *)
(* new PSK as PRIMARY (previous Phase C succeeded firmware-side but lost   *)
(* the reply)" is Phase C's reason to retire without migrating.            *)
RetiredMeansPromoted ==
    \A r \in Rotations : rotation[r].piPhase = "retired" => PiPsk >= r
=============================================================================
