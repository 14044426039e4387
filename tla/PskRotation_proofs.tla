------------------------- MODULE PskRotation_proofs -------------------------
(***************************************************************************)
(* Proofs about PSK rotation and recovery, for every set of remotes and    *)
(* recovery slots and any number of rotations, retries and faults.         *)
(*                                                                         *)
(* CoreInv is inductive without any assumption on the operator: rotations  *)
(* may overlap.  A handler runs on a row that stays where it is, because   *)
(* only the worker removes rows; so what it found out about the row's node *)
(* stays about that node.                                                  *)
(*                                                                         *)
(* OrderInv is inductive where an operator finishes one rotation before    *)
(* the next: then at most one rotation is not retired, and the slot it     *)
(* stages in is not the Pi's PRIMARY until the Pi has been promoted.       *)
(*                                                                         *)
(* HistoryInv is inductive under the same assumption: the Pi's PSK only    *)
(* grows, so the cache and the recovery slots hold the PSKs it has left,   *)
(* as many as there are slots, and no remote has a PSK that the Pi has     *)
(* never held.  The PSKs that Phase C missed are excepted: the one it left *)
(* when AddRecoveryPSK failed, and the one it retired without promoting it *)
(* because the radio did not answer.                                       *)
(***************************************************************************)
EXTENDS PskRotation, FiniteSetTheorems, SequenceTheorems, TLAPS

JobRow == RowType(WorkType, Nat, 0 .. 1)

(* What the fields of a row's work are for its kind.                       *)
Fits(w) ==
    /\ w.kind # "recover_stranded" => w.rot \in Rotations
    /\ w.kind \in {"rotate_phase_b", "recover_stranded"} => w.node \in Nodes
    /\ w.kind \in {"rotate_phase_b", "rotate_phase_c"} => w.staging \in WorkSlots

JobsOK(rows) ==
    /\ rows \in Seq(JobRow)
    /\ \A j \in DOMAIN rows : rows[j].state \in PendingStates /\ Fits(rows[j].work)

(* The steps of each handler, and what it has decided by then.             *)
Stage(v, w) ==
    /\ v.pc \in {"a_stage", "a_channel", "a_enqueue"} => w.kind = "rotate_phase_a"
    /\ v.pc \in {"frames", "verify"} => w.kind \in {"rotate_phase_b", "recover_stranded"}
    /\ v.pc \in {"b_record", "b_stamp"} => w.kind = "rotate_phase_b"
    /\ v.pc = "r_record" => w.kind = "recover_stranded"
    /\ v.pc \in {"c_radio", "c_retire", "c_strand", "c_clear"} => w.kind = "rotate_phase_c"
    /\ v.pc \in {"a_stage", "a_channel", "a_enqueue", "frames", "verify", "c_radio"}
          => v.staging \in WorkSlots
    /\ v.pc = "c_radio" => v.old \in WorkSlots /\ v.prev \in Psks /\ v.psk \in Psks

Resting0 == {"down", "idle"}

HandlerOK ==
    /\ worker.pc \notin Resting0 => worker.job \in DOMAIN jobs /\ Stage(worker, work)
    /\ worker.pc = "c_radio" /\ worker.ok => Cached(worker.prev)

(* The Pi's radio has at most one PRIMARY, in a work slot, with a PSK.     *)
PrimaryOK(p) ==
    /\ \A s \in Slots : p[s].role = "primary" => s \in WorkSlots /\ p[s].psk \in Psks
    /\ \A s, t \in Slots : p[s].role = "primary" /\ p[t].role = "primary" => s = t

RetryOK == retry = NoRetry \/ retry.rot \in Rotations

CoreInv == TypeOK /\ JobsOK(jobs) /\ HandlerOK /\ PrimaryOK(pi) /\ RetryOK /\ DoneOnProof

-----------------------------------------------------------------------------
(* One rotation after the other.                                           *)

Pending(r) == rotation[r].piPhase = "pending"
Retired(r) == rotation[r].piPhase = "retired"

(* All rotations before an opened one are retired.                         *)
InTurn ==
    /\ \A q, r \in Rotations : q < r /\ rotation[r].opened => rotation[q].opened /\ Retired(q)
    /\ \A r \in Rotations : ~rotation[r].opened => Pending(r) /\ rotation[r].staging = NoSlot

(* The staging slot of the open rotation is not the PRIMARY's before the   *)
(* Pi is promoted.                                                         *)
StagesBeside ==
    /\ HasPrimary
    /\ \A r \in Rotations : Pending(r) => PiPsk # r
    /\ \A r \in Rotations :
          (~Retired(r) /\ rotation[r].staging # NoSlot /\ PiPsk # r)
              => rotation[r].staging # PrimarySlot

(* Rows are about opened rotations, and a Phase C row about a staged one.  *)
RowInTurn(table, w) ==
    /\ w.kind \in {"rotate_phase_a", "rotate_phase_c"} => table[w.rot].opened
    /\ w.kind = "rotate_phase_c" => /\ table[w.rot].piPhase # "pending"
                                    /\ w.staging = table[w.rot].staging

RowsInTurn ==
    /\ \A j \in DOMAIN jobs : RowInTurn(rotation, jobs[j].work)
    /\ retry # NoRetry => rotation[retry.rot].opened

(* What the worker has read is still so.                                   *)
WorkerInTurn ==
    /\ worker.pc = "a_stage" => Pending(work.rot) /\ worker.staging # PrimarySlot
    /\ worker.pc = "c_radio" => /\ rotation[work.rot].piPhase = "staging_added"
                                /\ worker.staging = rotation[work.rot].staging
                                /\ worker.old = PrimarySlot /\ worker.psk = work.rot
                                /\ PiPsk # work.rot
    /\ worker.pc = "c_retire" => PiPsk = work.rot

(* A retired rotation was promoted, or Phase C missed it.                  *)
RetiredOrMissed == \A r \in Rotations : Retired(r) => PiPsk >= r \/ r \in missed

OrderInv == InTurn /\ StagesBeside /\ RowsInTurn /\ WorkerInTurn /\ RetiredOrMissed

-----------------------------------------------------------------------------
(* What the Pi keeps of the PSKs it has left.  A cache, a radio, the Pi's  *)
(* PSK and the missed ones are parameters: Phase C changes them one at a   *)
(* time.                                                                   *)

Recoverable == Cardinality(RecoverySlots)
Staged(r) == rotation[r].piPhase = "staging_added"
Spare(k) == [role |-> "secondary", psk |-> k]

(* The cache lists PSKs up to the Pi's own in their order, each in a slot  *)
(* of its own.                                                             *)
CacheRuns(c, own) ==
    /\ \A i, j \in DOMAIN c : i <= j => c[i].psk + (j - i) <= c[j].psk
    /\ \A i \in DOMAIN c : c[i].psk <= own
    /\ \A i, j \in DOMAIN c : c[i].slot = c[j].slot => i = j

(* The radio holds the PSKs before the Pi's, as many as there are slots:   *)
(* in the slot the cache names, or, if it is the one that the coming       *)
(* promotion overwrites, in the slot of the cache's newest entry.          *)
RadioRuns(p, c, own, lost) ==
    \A k \in Psks \ lost : (k < own /\ k + Recoverable >= own) =>
        \/ \E i \in DOMAIN c : c[i].psk = k /\ p[c[i].slot] = Spare(k)
        \/ /\ k + Recoverable = own /\ own \in CachedPsks(c)
           /\ p[c[Len(c)].slot] = Spare(k)

(* A PSK that a remote may have been given: one the Pi has held, holds in  *)
(* its staging slot, or has missed.                                        *)
Given(k, own, p, lost) ==
    k <= own \/ k \in lost \/ \E s \in WorkSlots : p[s] = Spare(k)
OnAir(k) == Given(k, PiPsk, pi, missed)

(* A PSK staged beside the Pi's newer than it is the open rotation's.      *)
SparesKnown ==
    \A s \in WorkSlots, k \in Psks : pi[s] = Spare(k) =>
        \/ k <= PiPsk \/ k \in missed
        \/ k \in Rotations /\ rotation[k].opened /\ ~Retired(k)

(* The open rotation's PSK is on the radio from Phase A to Phase C.        *)
StagedHeld == \A r \in Rotations : Staged(r) => OnAir(r)
RemotesGiven == \A n \in Nodes : OnAir(remote[n].psk)

(* Phase B rows are about rotations that have been staged.                 *)
RowStaged(own, p, lost, w) == w.kind = "rotate_phase_b" => Given(w.rot, own, p, lost)
RowsStaged == \A j \in DOMAIN jobs : RowStaged(PiPsk, pi, missed, jobs[j].work)

(* Stranded rows name a PSK that the Pi has left.                          *)
Left(k, own) == k \in Psks /\ k < own
StrandedLeft == \A n \in Nodes : trust[n].stranded => Left(trust[n].prev, PiPsk)

(* What the worker knows of the PSKs it handles.                           *)
WorkerKnows ==
    /\ worker.pc = "a_stage" => worker.psk = work.rot
    /\ worker.pc \in {"a_channel", "a_enqueue"} => OnAir(work.rot)
    /\ worker.pc = "frames" => OnAir(worker.psk)
    /\ worker.pc = "c_radio" => worker.prev = PiPsk
    /\ worker.pc \in {"c_retire", "c_strand"} => Left(worker.prev, PiPsk)

HistoryInv ==
    /\ CacheRuns(cache, PiPsk) /\ RadioRuns(pi, cache, PiPsk, missed)
    /\ SparesKnown /\ StagedHeld /\ RemotesGiven /\ RowsStaged
    /\ StrandedLeft /\ WorkerKnows
-----------------------------------------------------------------------------
(* The job table: what its statements do to a table in JobsOK.             *)

(* Every old row is still there, with its work.                            *)
Kept(rows, new) ==
    \A j \in DOMAIN rows : j \in DOMAIN new /\ new[j].work = rows[j].work

(* A table is a function on its row numbers.                               *)
LEMMA TableShape ==
    ASSUME NEW Row, NEW rows \in Seq(Row)
    PROVE  /\ Len(rows) \in Nat
           /\ DOMAIN rows = 1 .. Len(rows)
           /\ \A j \in DOMAIN rows : rows[j] \in Row
  BY LenProperties, ElementOfSeq

(* INSERT adds a row at the end, and keeps JobsOK when the new row's       *)
(* fields fit its kind.                                                    *)
LEMMA JobsGrow ==
    ASSUME NEW rows, JobsOK(rows), NEW w \in WorkType, Fits(w)
    PROVE  LET new == EnqueueRow(rows, w)
           IN  /\ JobsOK(new) /\ Kept(rows, new)
               /\ DOMAIN new = DOMAIN rows \cup {Len(rows) + 1}
               /\ new[Len(rows) + 1].work = w
  <1> DEFINE row == [work |-> w, state |-> "queued", attempts |-> 0, age |-> 0]
             new == Append(rows, row)
             k == Len(rows) + 1
  <1>1. rows \in Seq(JobRow)
    BY DEF JobsOK
  <1>2. row \in JobRow
    BY DEF JobRow, RowType, JobStates
  <1>3. row.work = w /\ row.state \in PendingStates
    BY DEF PendingStates
  <1> HIDE DEF row
  <1>4. Len(rows) \in Nat /\ DOMAIN rows = 1 .. Len(rows)
    BY <1>1, TableShape
  <1>5. /\ new \in Seq(JobRow) /\ Len(new) = Len(rows) + 1
        /\ \A j \in 1 .. Len(rows) : new[j] = rows[j]
        /\ new[Len(rows) + 1] = row
    BY <1>1, <1>2, AppendProperties
  <1>6. DOMAIN new = 1 .. Len(rows) + 1
    BY <1>5, LenProperties
  <1> HIDE DEF new
  <1>7. /\ DOMAIN new = DOMAIN rows \cup {k} /\ k \notin DOMAIN rows
        /\ \A j \in DOMAIN rows : new[j] = rows[j]
        /\ new[k] = row
    BY <1>4, <1>5, <1>6
  <1> HIDE DEF k
  <1>8. \A j \in DOMAIN rows : rows[j].state \in PendingStates /\ Fits(rows[j].work)
    BY DEF JobsOK
  <1>9. \A j \in DOMAIN new : new[j].state \in PendingStates /\ Fits(new[j].work)
    BY <1>3, <1>7, <1>8
  <1>10. EnqueueRow(rows, w) = new
    BY DEF EnqueueRow, new, row
  <1> QED
    BY <1>3, <1>5, <1>7, <1>9, <1>10 DEF JobsOK, Kept, k

(* A statement that rewrites rows in place and leaves their work alone     *)
(* keeps JobsOK.                                                           *)
LEMMA JobsRewritten ==
    ASSUME NEW rows, JobsOK(rows), NEW new,
           new = [j \in DOMAIN rows |-> new[j]],
           \A j \in DOMAIN rows : /\ new[j] \in JobRow /\ new[j].state \in PendingStates
                                  /\ new[j].work = rows[j].work
    PROVE  JobsOK(new) /\ Kept(rows, new) /\ DOMAIN new = DOMAIN rows
  <1>1. Len(rows) \in Nat /\ DOMAIN rows = 1 .. Len(rows)
    BY TableShape DEF JobsOK
  <1>2. new \in [1 .. Len(rows) -> JobRow]
    BY <1>1
  <1>3. new \in Seq(JobRow)
    BY <1>1, <1>2, SeqDef
  <1>4. DOMAIN new = DOMAIN rows
    BY <1>1, <1>2
  <1> QED
    BY <1>3, <1>4 DEF JobsOK, Kept

(* A lease changes one row's state, attempts and clock.                    *)
LEMMA JobsLeased ==
    ASSUME NEW rows, JobsOK(rows), NEW j \in DOMAIN rows
    PROVE  /\ JobsOK(LeaseRow(rows, j)) /\ Kept(rows, LeaseRow(rows, j))
           /\ DOMAIN LeaseRow(rows, j) = DOMAIN rows
  <1> DEFINE new == LeaseRow(rows, j)
  <1>1. \A i \in DOMAIN rows : rows[i] \in JobRow /\ rows[i].state \in PendingStates
    BY TableShape DEF JobsOK
  <1>2. /\ new = [i \in DOMAIN rows |-> new[i]]
        /\ \A i \in DOMAIN rows : i # j => new[i] = rows[i]
    BY DEF LeaseRow
  <1> PICK r \in JobRow : r = rows[j]
    BY <1>1
  <1> PICK a \in Nat : a = r.attempts + 1
    BY DEF JobRow, RowType
  <1>3. new[j] = [r EXCEPT !.state = "in_progress", !.attempts = a, !.age = 0]
    BY Zenon DEF LeaseRow
  <1> HIDE DEF new
  <1>4. new[j] \in JobRow /\ new[j].state \in PendingStates /\ new[j].work = rows[j].work
    <2>1. new[j].work = rows[j].work /\ new[j].state = "in_progress"
      BY <1>3 DEF JobRow, RowType
    <2>2. 0 \in 0 .. 1 /\ "in_progress" \in JobStates
      BY DEF JobStates
    <2>3. new[j] \in JobRow
      BY <1>3, <2>2, Zenon DEF JobRow, RowType
    <2> QED
      BY <2>1, <2>3 DEF PendingStates
  <1>5. \A i \in DOMAIN rows : /\ new[i] \in JobRow /\ new[i].state \in PendingStates
                               /\ new[i].work = rows[i].work
    BY <1>1, <1>2, <1>4
  <1> QED
    BY <1>2, <1>5, JobsRewritten DEF new

(* The clock and the stale-lease scan change states and ages only.         *)
LEMMA JobsResumed ==
    ASSUME NEW rows, JobsOK(rows)
    PROVE  LET new == ResumeStaleLeases(AgeRows(rows, 1), 0)
           IN  JobsOK(new) /\ Kept(rows, new) /\ DOMAIN new = DOMAIN rows
  <1> DEFINE aged == AgeRows(rows, 1)
             new == ResumeStaleLeases(aged, 0)
  <1>1. \A i \in DOMAIN rows : rows[i] \in JobRow /\ rows[i].state \in PendingStates
    BY TableShape DEF JobsOK
  <1>2. /\ aged = [i \in DOMAIN rows |-> aged[i]]
        /\ \A i \in DOMAIN rows :
              \/ aged[i] = rows[i]
              \/ rows[i].age < 1 /\ aged[i] = [rows[i] EXCEPT !.age = @ + 1]
    BY DEF AgeRows
  <1>3. \A i \in DOMAIN rows : /\ aged[i] \in JobRow /\ aged[i].state \in PendingStates
                               /\ aged[i].work = rows[i].work
    <2> SUFFICES ASSUME NEW i \in DOMAIN rows
                 PROVE  /\ aged[i] \in JobRow /\ aged[i].state \in PendingStates
                        /\ aged[i].work = rows[i].work
      OBVIOUS
    <2> PICK r \in JobRow : r = rows[i] /\ r.state \in PendingStates
      BY <1>1
    <2>1. r.age < 1 => r.age + 1 \in 0 .. 1
      BY DEF JobRow, RowType
    <2>2. aged[i] = r \/ (r.age + 1 \in 0 .. 1 /\ aged[i] = [r EXCEPT !.age = r.age + 1])
      BY <1>2, <2>1
    <2> HIDE DEF aged
    <2> QED
      BY <2>2 DEF JobRow, RowType
  <1> HIDE DEF aged
  <1>4. JobsOK(aged) /\ Kept(rows, aged) /\ DOMAIN aged = DOMAIN rows
    BY <1>2, <1>3, JobsRewritten
  <1>5. /\ new = [i \in DOMAIN aged |-> new[i]]
        /\ \A i \in DOMAIN aged :
              new[i] = aged[i] \/ new[i] = [aged[i] EXCEPT !.state = "queued"]
    BY DEF ResumeStaleLeases
  <1> HIDE DEF new
  <1>6. \A i \in DOMAIN aged : /\ new[i] \in JobRow /\ new[i].state \in PendingStates
                               /\ new[i].work = aged[i].work
    BY <1>3, <1>4, <1>5 DEF JobRow, RowType, JobStates, PendingStates
  <1>7. JobsOK(new) /\ Kept(aged, new) /\ DOMAIN new = DOMAIN aged
    BY <1>4, <1>5, <1>6, JobsRewritten
  <1>8. Kept(rows, new)
    BY <1>4, <1>7 DEF Kept
  <1> QED
    BY <1>4, <1>7, <1>8 DEF new, aged

(* A removed row leaves the others, in their order.                        *)
LEMMA RemoveAtLemma ==
    ASSUME NEW S, NEW s \in Seq(S), NEW k \in DOMAIN s
    PROVE  LET new == RemoveAt(s, k)
           IN  /\ new \in Seq(S) /\ DOMAIN new = 1 .. Len(s) - 1
               /\ \A i \in DOMAIN new : new[i] = IF i < k THEN s[i] ELSE s[i + 1]
  <1> DEFINE left == SubSeq(s, 1, k - 1)
             right == SubSeq(s, k + 1, Len(s))
             new == left \o right
  <1>1. Len(s) \in Nat /\ DOMAIN s = 1 .. Len(s) /\ \A i \in 1 .. Len(s) : s[i] \in S
    BY TableShape
  <1> PICK n \in Nat : n = Len(s)
    BY <1>1
  <1>2. k \in 1 .. n
    BY <1>1
  <1>3. /\ left \in Seq(S) /\ Len(left) = k - 1
        /\ \A i \in 1 .. k - 1 : left[i] = s[i]
    <2>1. \A i \in 1 .. k - 1 : s[i] \in S
      BY <1>1, <1>2
    <2>2. /\ left \in Seq(S) /\ Len(left) = IF 1 <= k - 1 THEN k - 1 - 1 + 1 ELSE 0
          /\ \A i \in 1 .. k - 1 - 1 + 1 : left[i] = s[1 + i - 1]
      BY <1>2, <2>1, SubSeqProperties
    <2> HIDE DEF left
    <2> QED
      BY <1>2, <2>2
  <1>4. /\ right \in Seq(S) /\ Len(right) = n - k
        /\ \A i \in 1 .. n - k : right[i] = s[k + i]
    <2>1. \A i \in k + 1 .. n : s[i] \in S
      BY <1>1, <1>2
    <2>2. /\ right \in Seq(S) /\ Len(right) = IF k + 1 <= n THEN n - (k + 1) + 1 ELSE 0
          /\ \A i \in 1 .. n - (k + 1) + 1 : right[i] = s[(k + 1) + i - 1]
      BY <1>2, <2>1, SubSeqProperties
    <2> HIDE DEF right
    <2>3. n - (k + 1) + 1 = n - k /\ \A i \in 1 .. n - k : (k + 1) + i - 1 = k + i
      BY <1>2
    <2>4. Len(right) = n - k
      BY <1>2, <2>2
    <2>5. \A i \in 1 .. n - k : right[i] = s[k + i]
      BY ONLY <2>2, <2>3
    <2> QED
      BY <2>2, <2>4, <2>5
  <1> HIDE DEF left, right
  <1>5. /\ new \in Seq(S) /\ Len(new) = (k - 1) + (n - k)
        /\ \A i \in 1 .. (k - 1) + (n - k) :
              new[i] = IF i <= k - 1 THEN left[i] ELSE right[i - (k - 1)]
    BY <1>3, <1>4, ConcatProperties
  <1>6. DOMAIN new = 1 .. Len(new)
    BY <1>5, LenProperties
  <1> HIDE DEF new
  <1>7. DOMAIN new = 1 .. n - 1
    BY <1>2, <1>5, <1>6
  <1>8. \A i \in 1 .. n - 1 : new[i] = IF i < k THEN s[i] ELSE s[i + 1]
    <2> SUFFICES ASSUME NEW i \in 1 .. n - 1
                 PROVE  new[i] = IF i < k THEN s[i] ELSE s[i + 1]
      OBVIOUS
    <2>1. CASE i < k
      BY <1>2, <1>3, <1>5, <2>1
    <2>2. CASE ~(i < k)
      <3>1. new[i] = right[i - (k - 1)] /\ i - (k - 1) \in 1 .. n - k
        BY <1>2, <1>5, <2>2
      <3>2. k + (i - (k - 1)) = i + 1
        BY <1>2
      <3> QED
        BY <1>4, <2>2, <3>1, <3>2
    <2> QED
      BY <2>1, <2>2
  <1>9. RemoveAt(s, k) = new
    BY DEF RemoveAt, new, left, right
  <1> QED
    BY <1>5, <1>7, <1>8, <1>9

(* Closing a row keeps JobsOK; was names a remaining row's old number.     *)
LEMMA JobsShrink ==
    ASSUME NEW rows, JobsOK(rows), NEW k \in DOMAIN rows
    PROVE  LET new == RemoveAt(rows, k)
               was(i) == IF i < k THEN i ELSE i + 1
           IN  /\ JobsOK(new)
               /\ \A i \in DOMAIN new : was(i) \in DOMAIN rows /\ new[i] = rows[was(i)]
               /\ \A i, j \in DOMAIN new : was(i) = was(j) => i = j
  <1> DEFINE new == RemoveAt(rows, k)
             was(i) == IF i < k THEN i ELSE i + 1
  <1>1. rows \in Seq(JobRow)
    BY DEF JobsOK
  <1>2. Len(rows) \in Nat /\ DOMAIN rows = 1 .. Len(rows)
    BY <1>1, TableShape
  <1>3. /\ new \in Seq(JobRow) /\ DOMAIN new = 1 .. Len(rows) - 1
        /\ \A i \in DOMAIN new : new[i] = IF i < k THEN rows[i] ELSE rows[i + 1]
    BY <1>1, RemoveAtLemma
  <1> HIDE DEF new
  <1>4. \A i \in DOMAIN new : was(i) \in DOMAIN rows /\ new[i] = rows[was(i)]
    BY <1>2, <1>3
  <1>5. \A i, j \in DOMAIN new : was(i) = was(j) => i = j
    BY <1>2, <1>3
  <1> HIDE DEF was
  <1>6. \A j \in DOMAIN new : new[j].state \in PendingStates /\ Fits(new[j].work)
    BY <1>4 DEF JobsOK
  <1>7. JobsOK(new)
    BY <1>3, <1>6 DEF JobsOK
  <1> QED
    BY <1>4, <1>5, <1>7 DEF new, was

-----------------------------------------------------------------------------
(* The recovery cache and the Pi's radio.                                  *)

CacheRow == [slot : RecoverySlots, psk : Psks]

(* A set of slots has a lowest one.                                        *)
LEMMA LowestSlot ==
    ASSUME NEW F, F \subseteq 2 .. 7, F # {}
    PROVE  \E s \in F : \A t \in F : s <= t
  <1>1. F \subseteq {2, 3, 4, 5, 6, 7}
    OBVIOUS
  <1>2. CASE 2 \in F
    BY <1>1, <1>2
  <1>3. CASE 2 \notin F /\ 3 \in F
    BY <1>1, <1>3
  <1>4. CASE 2 \notin F /\ 3 \notin F /\ 4 \in F
    BY <1>1, <1>4
  <1>5. CASE 2 \notin F /\ 3 \notin F /\ 4 \notin F /\ 5 \in F
    BY <1>1, <1>5
  <1>6. CASE F \subseteq {6, 7} /\ 6 \in F
    BY <1>6
  <1>7. CASE F = {7}
    BY <1>7
  <1> QED
    BY <1>1, <1>2, <1>3, <1>4, <1>5, <1>6, <1>7

(* AddRecoveryPSK returns a cache that holds the PSK it was given,         *)
(* whether it refreshed an entry, took a free slot or evicted the oldest.  *)
LEMMA AddedIsCached ==
    ASSUME cache \in Seq(CacheRow), NEW psk \in Psks
    PROVE  LET new == AddRecoveryPSK(psk)
           IN  new \in Seq(CacheRow) /\ \E i \in DOMAIN new : new[i].psk = psk
  <1> DEFINE free == RecoverySlots \ {cache[i].slot : i \in DOMAIN cache}
             own == CHOOSE i \in DOMAIN cache : cache[i].psk = psk
             low == CHOOSE s \in free : \A t \in free : s <= t
  <1>1. DOMAIN cache = 1 .. Len(cache) /\ \A i \in DOMAIN cache : cache[i] \in CacheRow
    BY TableShape
  <1>2. ASSUME NEW c \in Seq(CacheRow), NEW e \in CacheRow, e.psk = psk
        PROVE  /\ Append(c, e) \in Seq(CacheRow)
               /\ \E i \in DOMAIN Append(c, e) : Append(c, e)[i].psk = psk
    <2>1. /\ Append(c, e) \in Seq(CacheRow) /\ Len(Append(c, e)) = Len(c) + 1
          /\ Append(c, e)[Len(c) + 1] = e
      BY <1>2, AppendProperties
    <2>2. Len(c) \in Nat /\ DOMAIN Append(c, e) = 1 .. Len(Append(c, e))
      BY <1>2, <2>1, LenProperties
    <2>3. Len(c) + 1 \in DOMAIN Append(c, e)
      BY <2>1, <2>2
    <2> QED
      BY <1>2, <2>1, <2>3
  <1>3. CASE Cached(psk)
    <2>1. own \in DOMAIN cache /\ cache[own].psk = psk
      BY <1>3, Zenon DEF Cached
    <2>2. AddRecoveryPSK(psk) = Append(RemoveAt(cache, own), cache[own])
      BY <1>3, Zenon DEF AddRecoveryPSK
    <2> HIDE DEF own
    <2>3. RemoveAt(cache, own) \in Seq(CacheRow)
      BY <2>1, RemoveAtLemma
    <2> QED
      BY <1>1, <1>2, <2>1, <2>2, <2>3
  <1>4. CASE ~Cached(psk) /\ free # {}
    <2>1. low \in free
      BY <1>4, LowestSlot, SlotsAssumption
    <2>2. AddRecoveryPSK(psk) = Append(cache, [slot |-> low, psk |-> psk])
      BY <1>4, Zenon DEF AddRecoveryPSK
    <2> HIDE DEF low
    <2>3. [slot |-> low, psk |-> psk] \in CacheRow
      BY <2>1 DEF CacheRow
    <2> QED
      BY <1>2, <2>2, <2>3
  <1>5. CASE ~Cached(psk) /\ free = {}
    <2>1. cache # <<>>
      BY <1>1, <1>5, SlotsAssumption
    <2>2. Head(cache) \in CacheRow /\ Tail(cache) \in Seq(CacheRow)
      BY <2>1, HeadTailProperties
    <2>3. [slot |-> Head(cache).slot, psk |-> psk] \in CacheRow
      BY <2>2 DEF CacheRow
    <2>4. AddRecoveryPSK(psk) = Append(Tail(cache), [slot |-> Head(cache).slot, psk |-> psk])
      BY <1>5, Zenon DEF AddRecoveryPSK
    <2> QED
      BY <1>2, <2>2, <2>3, <2>4
  <1> QED
    BY <1>3, <1>4, <1>5

(* The recovery slot of a cached PSK is one of the Pi's recovery slots.    *)
LEMMA RecoverySlotExists ==
    ASSUME cache \in Seq(CacheRow), NEW psk, Cached(psk)
    PROVE  RecoverySlotOf(psk) \in RecoverySlots
  <1>1. \A i \in DOMAIN cache : cache[i] \in CacheRow
    BY TableShape
  <1>2. ToSet(cache) = {cache[i] : i \in DOMAIN cache}
    BY DEF ToSet
  <1>3. \E e \in ToSet(cache) : e.psk = psk
    BY <1>2 DEF Cached
  <1>4. (CHOOSE e \in ToSet(cache) : e.psk = psk) \in CacheRow
    BY <1>1, <1>2, <1>3
  <1> QED
    BY <1>4 DEF RecoverySlotOf, CacheRow

(* rebuildRecoveryHook loads PSKs.                                         *)
LEMMA HookOfCache ==
    ASSUME cache \in Seq(CacheRow)
    PROVE  CachedPsks(cache) \subseteq Psks
  <1>1. \A i \in DOMAIN cache : cache[i] \in CacheRow
    BY TableShape
  <1> QED
    BY <1>1 DEF CachedPsks, CacheRow

PiType == [Slots -> [role : {"primary", "secondary", "disabled"}, psk : Psks \cup {NoPsk}]]

(* A radio's PRIMARY is where its role says.                               *)
LEMMA PrimaryAt ==
    ASSUME NEW p, PrimaryOK(p), NEW s \in Slots, p[s].role = "primary"
    PROVE  (CHOOSE t \in Slots : p[t].role = "primary") = s
  BY DEF PrimaryOK

(* The slot and the PSK that a probe of the Pi finds.                      *)
LEMMA PrimaryFound ==
    ASSUME PrimaryOK(pi), HasPrimary
    PROVE  /\ PrimarySlot \in WorkSlots /\ PrimarySlot \in Slots
           /\ pi[PrimarySlot].role = "primary"
           /\ PiPsk \in Psks /\ 1 - PrimarySlot \in WorkSlots
  <1>1. PrimarySlot \in Slots /\ pi[PrimarySlot].role = "primary"
    BY DEF HasPrimary, PrimarySlot
  <1>2. PrimarySlot \in WorkSlots /\ PiPsk \in Psks
    BY <1>1 DEF PrimaryOK, PiPsk
  <1>3. 1 - PrimarySlot \in WorkSlots
    BY <1>2 DEF WorkSlots
  <1> QED
    BY <1>1, <1>2, <1>3

(* Staging a SECONDARY leaves at most one PRIMARY.                         *)
LEMMA StagedPrimary ==
    ASSUME pi \in PiType, PrimaryOK(pi), worker \in WorkerType, worker.staging \in WorkSlots
    PROVE  StagedPi \in PiType /\ PrimaryOK(StagedPi)
  <1> DEFINE x == [role |-> "secondary", psk |-> worker.psk]
             new == StagedPi
  <1>1. x \in [role : {"primary", "secondary", "disabled"}, psk : Psks \cup {NoPsk}]
    BY DEF WorkerType
  <1>2. x.role = "secondary"
    OBVIOUS
  <1> HIDE DEF x
  <1>3. worker.staging \in Slots
    BY DEF Slots
  <1>4. new = [pi EXCEPT ![worker.staging] = x]
    BY DEF StagedPi, x
  <1> HIDE DEF new
  <1>5. new \in PiType
    BY <1>1, <1>3, <1>4 DEF PiType
  <1>6. \A s \in Slots : new[s].role = "primary" => new[s] = pi[s]
    BY <1>2, <1>3, <1>4 DEF PiType
  <1> QED
    BY <1>5, <1>6 DEF PrimaryOK, new

(* Promotion makes the staging slot PRIMARY, and no other slot.            *)
LEMMA PromotedPrimary ==
    ASSUME pi \in PiType, PrimaryOK(pi), cache \in Seq(CacheRow),
           worker.ok => Cached(worker.prev),
           worker.staging \in WorkSlots, worker.old \in WorkSlots,
           worker.prev \in Psks, worker.psk \in Psks
    PROVE  /\ PromotedPi \in PiType /\ PrimaryOK(PromotedPi)
           /\ worker.staging # worker.old =>
                /\ PromotedPi[worker.staging].role = "primary"
                /\ PromotedPi[worker.staging].psk = worker.psk
  <1> DEFINE a == worker.staging
             b == worker.old
             c == RecoverySlotOf(worker.prev)
             x == [role |-> "primary", psk |-> worker.psk]
             y == [role |-> "disabled", psk |-> NoPsk]
             z == [role |-> "secondary", psk |-> worker.prev]
             swapped == [pi EXCEPT ![a] = x, ![b] = y]
             new == PromotedPi
  <1>1. worker.ok => c \in RecoverySlots
    BY RecoverySlotExists
  <1>2. a \in {0, 1} /\ b \in {0, 1}
    BY DEF WorkSlots
  <1>3. /\ {a, b} \subseteq Slots
        /\ worker.ok => c \notin {0, 1} /\ c \in Slots
    BY <1>1, <1>2, SlotsAssumption DEF Slots, WorkSlots
  <1>4. {x, y, z} \subseteq [role : {"primary", "secondary", "disabled"}, psk : Psks \cup {NoPsk}]
    OBVIOUS
  <1>5. /\ x.role = "primary" /\ x.psk = worker.psk
        /\ y.role = "disabled" /\ z.role = "secondary"
    OBVIOUS
  <1>6. new = IF worker.ok THEN [swapped EXCEPT ![c] = z] ELSE swapped
    BY DEF PromotedPi, SwappedPi
  <1> HIDE DEF a, b, c, x, y, z, new
  <1>7. /\ swapped \in PiType
        /\ a # b => swapped[a] = x
        /\ swapped[b] = y
        /\ \A s \in Slots : s \notin {a, b} => swapped[s] = pi[s]
    BY <1>2, <1>3, <1>4 DEF PiType
  <1> HIDE DEF swapped
  <1>8. /\ new \in PiType
        /\ a # b => new[a] = x
        /\ new[b] = y
        /\ \A s \in Slots : s \notin {a, b} => new[s] = pi[s] \/ new[s] = z
    BY <1>2, <1>3, <1>4, <1>6, <1>7 DEF PiType
  <1>9. \A s \in Slots : new[s].role = "primary" => s \in WorkSlots /\ new[s].psk \in Psks
    <2> SUFFICES ASSUME NEW s \in Slots, new[s].role = "primary"
                 PROVE  s \in WorkSlots /\ new[s].psk \in Psks
      OBVIOUS
    <2>1. CASE s = a
      <3>1. a # b
        BY <1>5, <1>8, <2>1
      <3> QED
        BY <1>5, <1>8, <2>1, <3>1 DEF a
    <2>2. CASE s # a
      <3>1. s \notin {a, b} /\ new[s] = pi[s]
        BY <1>5, <1>8, <2>2
      <3> QED
        BY <3>1 DEF PrimaryOK
    <2> QED
      BY <2>1, <2>2
  <1>10. \A s, t \in Slots : new[s].role = "primary" /\ new[t].role = "primary" => s = t
    <2> SUFFICES ASSUME NEW s \in Slots, NEW t \in Slots, s # t,
                        new[s].role = "primary", new[t].role = "primary"
                 PROVE  FALSE
      OBVIOUS
    <2>1. s \in {0, 1} /\ t \in {0, 1}
      BY <1>9 DEF WorkSlots
    <2>2. b \notin {s, t}
      BY <1>5, <1>8
    <2> QED
      BY <1>2, <2>1, <2>2
  <1> QED
    BY <1>5, <1>8, <1>9, <1>10 DEF PrimaryOK, a, b, new

-----------------------------------------------------------------------------
(* CoreInv, action by action.                                              *)

Snaps == [Nodes -> Phases \cup {NotATarget}]

(* A step of someone else: the running handler's row is still there, so    *)
(* what the handler knows of it still holds.                               *)
LEMMA WorkerStands ==
    ASSUME HandlerOK, DoneOnProof, worker' = worker, remote' = remote, cache' = cache,
           Kept(jobs, jobs')
    PROVE  HandlerOK' /\ DoneOnProof'
  <1>1. worker.pc \notin Resting0 =>
           worker.job \in DOMAIN jobs' /\ jobs'[worker.job].work = jobs[worker.job].work
    BY DEF HandlerOK, Kept
  <1>2. HandlerOK'
    BY <1>1 DEF HandlerOK, work, Cached
  <1>3. DoneOnProof'
    BY <1>1 DEF DoneOnProof, work, Resting0
  <1> QED
    BY <1>2, <1>3

(* A step of the handler stays on its row.                                 *)
LEMMA SameRow ==
    ASSUME HandlerOK, worker.pc \notin Resting0, worker'.job = worker.job, Kept(jobs, jobs')
    PROVE  worker'.job \in DOMAIN jobs' /\ work' = work /\ worker.job \in DOMAIN jobs
  BY DEF HandlerOK, Kept, work

(* A table keeps its own rows.                                             *)
LEMMA KeptItself == Kept(jobs, jobs)
  BY DEF Kept

(* What the running handler's row says.                                    *)
LEMMA WorkFits ==
    ASSUME JobsOK(jobs), HandlerOK, worker.pc \notin Resting0
    PROVE  work \in WorkType /\ Fits(work) /\ Stage(worker, work)
  <1>1. worker.job \in DOMAIN jobs /\ Stage(worker, work)
    BY DEF HandlerOK
  <1>2. jobs[worker.job] \in JobRow /\ Fits(jobs[worker.job].work)
    BY <1>1, TableShape DEF JobsOK
  <1> QED
    BY <1>1, <1>2 DEF work, JobRow, RowType

BudgetType == [retries : 0 .. MaxRetries, frames : 0 .. MaxLostFrames,
               radio : 0 .. MaxRadioFaults, db : 0 .. MaxDbFaults, crashes : 0 .. MaxCrashes]

(* A counter below its bound can be counted up.                            *)
LEMMA CountUp ==
    ASSUME NEW m \in Nat, NEW k \in 0 .. m, k < m
    PROVE  k + 1 \in 0 .. m
  OBVIOUS

(* A fault or a retry that the bounds allow keeps the counters in bounds.  *)
LEMMA BudgetSpent ==
    ASSUME budget \in BudgetType
    PROVE  /\ budget.retries < MaxRetries => [budget EXCEPT !.retries = @ + 1] \in BudgetType
           /\ budget.crashes < MaxCrashes => [budget EXCEPT !.crashes = @ + 1] \in BudgetType
           /\ SpendRadio \/ SpendDb \/ UNCHANGED budget => budget' \in BudgetType
  <1>1. /\ budget.retries \in 0 .. MaxRetries /\ budget.crashes \in 0 .. MaxCrashes
        /\ budget.radio \in 0 .. MaxRadioFaults /\ budget.db \in 0 .. MaxDbFaults
    BY DEF BudgetType
  <1>2. MaxRetries \in Nat /\ MaxRadioFaults \in Nat /\ MaxDbFaults \in Nat /\ MaxCrashes \in Nat
    BY BoundAssumption
  <1>3. /\ budget.retries < MaxRetries => budget.retries + 1 \in 0 .. MaxRetries
        /\ budget.crashes < MaxCrashes => budget.crashes + 1 \in 0 .. MaxCrashes
        /\ budget.radio < MaxRadioFaults => budget.radio + 1 \in 0 .. MaxRadioFaults
        /\ budget.db < MaxDbFaults => budget.db + 1 \in 0 .. MaxDbFaults
    BY <1>1, <1>2, CountUp
  <1>4. budget.retries < MaxRetries => [budget EXCEPT !.retries = @ + 1] \in BudgetType
    BY <1>3, Zenon DEF BudgetType
  <1>5. budget.crashes < MaxCrashes => [budget EXCEPT !.crashes = @ + 1] \in BudgetType
    BY <1>3, Zenon DEF BudgetType
  <1>6. SpendRadio => budget' \in BudgetType
    BY <1>3, Zenon DEF BudgetType, SpendRadio
  <1>7. SpendDb => budget' \in BudgetType
    BY <1>3, Zenon DEF BudgetType, SpendDb
  <1> QED
    BY <1>4, <1>5, <1>6, <1>7

(* A step with or without a fault keeps the counters in bounds.            *)
LEMMA BudgetKept ==
    ASSUME CoreInv, SpendRadio \/ SpendDb \/ UNCHANGED budget
    PROVE  budget' \in BudgetType
  BY BudgetSpent DEF CoreInv, TypeOK, BudgetType

RotationTable == [Rotations -> RotationType]

(* An update of a rotation row writes a row.                               *)
LEMMA RotationWritten ==
    ASSUME rotation \in RotationTable, NEW r \in Rotations, NEW snap \in Snaps
    PROVE  /\ [rotation EXCEPT ![r].target = snap] \in RotationTable
           /\ \A done \in BOOLEAN :
                 [rotation EXCEPT ![r].target = snap, ![r].piDone = done] \in RotationTable
           /\ [rotation EXCEPT ![r].target = snap, ![r].piDone = TRUE,
                                ![r].piPhase = "retired"] \in RotationTable
           /\ \A s \in WorkSlots : [rotation EXCEPT ![r].staging = s] \in RotationTable
           /\ \A p \in {"staging_added", "retired"} :
                 [rotation EXCEPT ![r].piPhase = p] \in RotationTable
           /\ [rotation EXCEPT ![r].stored = FALSE] \in RotationTable
  <1>1. PICK row \in RotationType : row = rotation[r]
    BY DEF RotationTable
  <1>2. ASSUME NEW new \in RotationType
        PROVE  [rotation EXCEPT ![r] = new] \in RotationTable
    BY <1>2 DEF RotationTable
  <1>3. [row EXCEPT !.target = snap] \in RotationType
    BY <1>1 DEF RotationType, Snaps
  <1>4. ASSUME NEW done \in BOOLEAN
        PROVE  [row EXCEPT !.target = snap, !.piDone = done] \in RotationType
    BY <1>1, <1>4 DEF RotationType, Snaps
  <1>5. [row EXCEPT !.target = snap, !.piDone = TRUE, !.piPhase = "retired"] \in RotationType
    BY <1>1 DEF RotationType, Snaps
  <1>6. ASSUME NEW s \in WorkSlots
        PROVE  [row EXCEPT !.staging = s] \in RotationType
    BY <1>1, <1>6 DEF RotationType, Snaps
  <1>7. ASSUME NEW p \in {"staging_added", "retired"}
        PROVE  [row EXCEPT !.piPhase = p] \in RotationType
    BY <1>1, <1>7 DEF RotationType, Snaps
  <1>8. [row EXCEPT !.stored = FALSE] \in RotationType
    BY <1>1 DEF RotationType, Snaps
  <1>9. [rotation EXCEPT ![r].target = snap] \in RotationTable
    BY <1>1, <1>2, <1>3, Zenon
  <1>10. ASSUME NEW done \in BOOLEAN
         PROVE  [rotation EXCEPT ![r].target = snap, ![r].piDone = done] \in RotationTable
    <2>1. [rotation EXCEPT ![r].target = snap, ![r].piDone = done]
            = [rotation EXCEPT ![r] = [row EXCEPT !.target = snap, !.piDone = done]]
      BY <1>1 DEF RotationTable
    <2> QED
      BY <1>2, <1>4, <2>1, Zenon
  <1>11. [rotation EXCEPT ![r].target = snap, ![r].piDone = TRUE, ![r].piPhase = "retired"]
            \in RotationTable
    <2>1. [rotation EXCEPT ![r].target = snap, ![r].piDone = TRUE, ![r].piPhase = "retired"]
            = [rotation EXCEPT ![r] =
                   [row EXCEPT !.target = snap, !.piDone = TRUE, !.piPhase = "retired"]]
      BY <1>1 DEF RotationTable
    <2> QED
      BY <1>2, <1>5, <2>1, Zenon
  <1>12. ASSUME NEW s \in WorkSlots
         PROVE  [rotation EXCEPT ![r].staging = s] \in RotationTable
    BY <1>1, <1>2, <1>6, Zenon
  <1>13. ASSUME NEW p \in {"staging_added", "retired"}
         PROVE  [rotation EXCEPT ![r].piPhase = p] \in RotationTable
    BY <1>1, <1>2, <1>7, <1>13, Zenon
  <1>14. [rotation EXCEPT ![r].stored = FALSE] \in RotationTable
    BY <1>1, <1>2, <1>8, Zenon
  <1> QED
    BY <1>9, <1>10, <1>11, <1>12, <1>13, <1>14

(* So does the update of one entry of its target list.                     *)
LEMMA EntryWritten ==
    ASSUME rotation \in RotationTable, NEW r \in Rotations, NEW snap \in Snaps, NEW n \in Nodes
    PROVE  [rotation EXCEPT ![r].target[n] = snap[n]] \in RotationTable
  <1> PICK row \in RotationType : row = rotation[r]
    BY DEF RotationTable
  <1> PICK old \in Snaps : old = row.target
    BY DEF RotationType, Snaps
  <1> DEFINE new == [old EXCEPT ![n] = snap[n]]
             next == [row EXCEPT !.target = new]
  <1>1. new \in Snaps
    BY DEF Snaps
  <1>2. [rotation EXCEPT ![r].target[n] = snap[n]] = [rotation EXCEPT ![r] = next]
    BY Zenon
  <1> HIDE DEF new
  <1>3. next \in RotationType
    BY <1>1 DEF RotationType, Snaps
  <1> HIDE DEF next
  <1>4. [rotation EXCEPT ![r] = next] \in RotationTable
    BY <1>3 DEF RotationTable
  <1> QED
    BY <1>2, <1>4, Zenon

(* RotatePSK.                                                              *)
LEMMA RotatePSKKeeps ==
    ASSUME CoreInv, NEW r \in Rotations, NEW T \in SUBSET Nodes, RotatePSK(r, T)
    PROVE  CoreInv'
  <1> DEFINE t == [n \in Nodes |-> IF n \in T THEN "pending" ELSE NotATarget]
             row == [opened |-> TRUE, stored |-> TRUE, staging |-> NoSlot,
                     piPhase |-> "pending", piDone |-> FALSE, target |-> t]
  <1>1. rotation' = [rotation EXCEPT ![r] = row]
    BY DEF RotatePSK
  <1>2. t \in Snaps
    BY DEF Snaps, Phases
  <1> HIDE DEF t
  <1>3. row \in RotationType
    BY <1>2 DEF RotationType, Snaps
  <1> HIDE DEF row
  <1>4. rotation' \in [Rotations -> RotationType]
    BY <1>1, <1>3 DEF CoreInv, TypeOK
  <1>5. PhaseAWork(r) \in WorkType /\ Fits(PhaseAWork(r))
    BY DEF PhaseAWork, WorkType, Fits, Rotations
  <1>6. JobsOK(jobs') /\ Kept(jobs, jobs')
    BY <1>5, JobsGrow, KeptItself DEF RotatePSK, CoreInv
  <1>7. HandlerOK' /\ DoneOnProof'
    BY <1>6, WorkerStands DEF RotatePSK, CoreInv, radios
  <1>8. budget' \in BudgetType
    BY BudgetKept DEF RotatePSK
  <1>9. TypeOK'
    BY <1>4, <1>6, <1>8 DEF RotatePSK, CoreInv, TypeOK, radios, JobsOK, JobRow, BudgetType
  <1> QED
    BY <1>6, <1>7, <1>9 DEF RotatePSK, CoreInv, RetryOK, radios

(* RetireOldPSK enqueues Phase C with the pinned staging slot.             *)
LEMMA RetireOldPSKKeeps ==
    ASSUME CoreInv, NEW r \in Rotations, RetireOldPSK(r)
    PROVE  CoreInv'
  <1> DEFINE w == PhaseCWork(r, rotation[r].staging)
  <1>1. rotation[r].staging \in WorkSlots
    BY DEF RetireOldPSK, CoreInv, TypeOK, RotationType
  <1>2. w \in WorkType /\ Fits(w)
    BY <1>1 DEF PhaseCWork, WorkType, Fits, Rotations
  <1> HIDE DEF w
  <1>3. jobs' = EnqueueRow(jobs, w)
    BY DEF RetireOldPSK, w
  <1>4. JobsOK(jobs') /\ Kept(jobs, jobs')
    BY <1>2, <1>3, JobsGrow DEF CoreInv
  <1>5. HandlerOK' /\ DoneOnProof'
    BY <1>4, WorkerStands DEF RetireOldPSK, CoreInv, radios, tables
  <1>6. TypeOK'
    BY <1>4 DEF RetireOldPSK, CoreInv, TypeOK, radios, tables, JobsOK, JobRow
  <1> QED
    BY <1>4, <1>5, <1>6 DEF RetireOldPSK, CoreInv, RetryOK, radios

(* RetryRotation: the read, then the write of the copy with Phase A again. *)
LEMMA RetryReadKeeps ==
    ASSUME CoreInv, NEW r \in Rotations, NEW W \in SUBSET Nodes, RetryRead(r, W)
    PROVE  CoreInv'
  <1> DEFINE snap == [n \in Nodes |->
                IF n \in W /\ rotation[r].target[n] \in {"failed_b", "phase_b_pushing"}
                THEN "pending" ELSE rotation[r].target[n]]
  <1>1. rotation[r].target \in Snaps /\ rotation[r].piDone \in BOOLEAN
    BY DEF CoreInv, TypeOK, RotationType, Snaps
  <1>2. snap \in Snaps
    BY <1>1 DEF Snaps, Phases
  <1>3. retry' = [rot |-> r, piDone |-> rotation[r].piDone, snap |-> snap]
    BY DEF RetryRead
  <1> HIDE DEF snap
  <1>4. /\ retry' \in [rot : 0 .. MaxRotations, snap : Snaps, piDone : BOOLEAN]
        /\ retry'.rot \in Rotations
    BY <1>1, <1>2, <1>3 DEF Rotations
  <1>5. budget' \in BudgetType
    BY BudgetSpent DEF RetryRead, CoreInv, TypeOK, BudgetType
  <1>6. HandlerOK' /\ DoneOnProof' /\ JobsOK(jobs')
    BY WorkerStands, KeptItself DEF RetryRead, CoreInv, radios, tables
  <1>7. TypeOK'
    BY <1>4, <1>5 DEF RetryRead, CoreInv, TypeOK, radios, tables, Snaps, BudgetType
  <1> QED
    BY <1>4, <1>6, <1>7 DEF RetryRead, CoreInv, RetryOK, radios

(* The write of RetryRotation puts back a typed copy.                      *)
LEMMA RetryWriteKeeps ==
    ASSUME CoreInv, RetryWrite
    PROVE  CoreInv'
  <1> DEFINE r == retry.rot
  <1>1. r \in Rotations /\ retry.snap \in Snaps /\ retry.piDone \in BOOLEAN
    BY DEF RetryWrite, CoreInv, RetryOK, TypeOK, Snaps
  <1>2. rotation' \in [Rotations -> RotationType]
    <2>1. rotation' \in {rotation, [rotation EXCEPT ![r].target = retry.snap,
                                                  ![r].piDone = retry.piDone]}
      BY Zenon DEF RetryWrite
    <2>2. rotation \in RotationTable
      BY DEF CoreInv, TypeOK, RotationTable
    <2>3. [rotation EXCEPT ![r].target = retry.snap, ![r].piDone = retry.piDone] \in RotationTable
      BY <1>1, <2>2, RotationWritten, Zenon
    <2> QED
      BY <2>1, <2>2, <2>3, Zenon DEF RotationTable
  <1>3. PhaseAWork(r) \in WorkType /\ Fits(PhaseAWork(r))
    BY <1>1 DEF PhaseAWork, WorkType, Fits, Rotations
  <1>4. JobsOK(jobs') /\ Kept(jobs, jobs')
    <2>1. jobs' = jobs \/ jobs' = EnqueueRow(jobs, PhaseAWork(r))
      BY Zenon DEF RetryWrite
    <2> QED
      BY <1>3, <2>1, JobsGrow, KeptItself DEF CoreInv
  <1>5. HandlerOK' /\ DoneOnProof'
    BY <1>4, WorkerStands DEF RetryWrite, CoreInv, radios
  <1>6. NoSnap \in Snaps
    BY DEF NoSnap, Snaps
  <1>7. retry' = NoRetry /\ NoRetry \in [rot : 0 .. MaxRotations, snap : Snaps, piDone : BOOLEAN]
    BY <1>6, BoundAssumption DEF RetryWrite, NoRetry
  <1>8. budget' \in BudgetType
    BY BudgetKept DEF RetryWrite
  <1>9. TypeOK'
    BY <1>2, <1>4, <1>7, <1>8
       DEF RetryWrite, CoreInv, TypeOK, radios, JobsOK, JobRow, Snaps, BudgetType
  <1> QED
    BY <1>4, <1>5, <1>7, <1>9 DEF RetryWrite, CoreInv, RetryOK, radios

TrustRow == [managed : BOOLEAN, fp : Psks \cup {NoPsk},
             stranded : BOOLEAN, prev : Psks \cup {NoPsk}]

(* A handler of the HTTP API that writes the trust table only.             *)
LEMMA TrustWriteKeeps ==
    ASSUME CoreInv, trust' \in [Nodes -> TrustRow],
           SpendRadio \/ SpendDb \/ UNCHANGED budget,
           UNCHANGED <<radios, rotation, channelFp, cache, hook, jobs, worker, retry>>
    PROVE  CoreInv'
  <1>1. HandlerOK' /\ DoneOnProof' /\ JobsOK(jobs')
    BY WorkerStands, KeptItself DEF CoreInv, radios
  <1>2. TypeOK'
    BY BudgetKept DEF CoreInv, TypeOK, radios, TrustRow, BudgetType
  <1> QED
    BY <1>1, <1>2 DEF CoreInv, RetryOK, radios

(* GetTrust stamps a PSK of the channel table, or none.                    *)
LEMMA VerifyTrustKeeps ==
    ASSUME CoreInv, NEW n \in Nodes, VerifyTrust(n)
    PROVE  CoreInv'
  <1> PICK row \in TrustRow : row = trust[n]
    BY DEF CoreInv, TypeOK, TrustRow
  <1> DEFINE new == [row EXCEPT !.managed = TRUE, !.fp = IF channelFp # NoPsk THEN channelFp ELSE @]
             half == [row EXCEPT !.managed = TRUE]
  <1>1. trust' \in [Nodes -> TrustRow]
    <2>1. new \in TrustRow /\ half \in TrustRow
      BY DEF CoreInv, TypeOK, TrustRow
    <2>2. trust' \in {[trust EXCEPT ![n] = new], [trust EXCEPT ![n] = half]}
      BY DEF VerifyTrust, CoreInv, TypeOK
    <2> HIDE DEF new, half
    <2> QED
      BY <2>1, <2>2 DEF CoreInv, TypeOK, TrustRow
  <1> QED
    BY <1>1, TrustWriteKeeps DEF VerifyTrust

(* CancelStranded clears the flag and the PSK.                             *)
LEMMA CancelStrandedKeeps ==
    ASSUME CoreInv, NEW n \in Nodes, CancelStranded(n)
    PROVE  CoreInv'
  <1> PICK row \in TrustRow : row = trust[n]
    BY DEF CoreInv, TypeOK, TrustRow
  <1> DEFINE new == [row EXCEPT !.stranded = FALSE, !.prev = NoPsk]
             half == [row EXCEPT !.stranded = FALSE]
  <1>1. trust' \in [Nodes -> TrustRow]
    <2>1. new \in TrustRow /\ half \in TrustRow
      BY DEF CoreInv, TypeOK, TrustRow
    <2>2. trust' \in {[trust EXCEPT ![n] = new], [trust EXCEPT ![n] = half]}
      BY DEF CancelStranded, CoreInv, TypeOK
    <2> HIDE DEF new, half
    <2> QED
      BY <2>1, <2>2 DEF CoreInv, TypeOK, TrustRow
  <1> QED
    BY <1>1, TrustWriteKeeps DEF CancelStranded

(* The hook and ForceRecoverStranded enqueue a recovery.                   *)
LEMMA EnqueueRecoveryKeeps ==
    ASSUME CoreInv, NEW n \in Nodes, NEW prev \in Psks \cup {NoPsk}, EnqueueRecovery(n, prev),
           UNCHANGED <<radios, tables, hook, worker, retry, budget>>
    PROVE  CoreInv'
  <1> DEFINE w == RecoverWork(n, prev)
  <1>1. w \in WorkType /\ Fits(w)
    BY BoundAssumption DEF RecoverWork, WorkType, Fits
  <1> HIDE DEF w
  <1>2. jobs' = EnqueueRow(jobs, w)
    BY DEF EnqueueRecovery, w
  <1>3. JobsOK(jobs') /\ Kept(jobs, jobs')
    BY <1>1, <1>2, JobsGrow DEF CoreInv
  <1>4. HandlerOK' /\ DoneOnProof'
    BY <1>3, WorkerStands DEF CoreInv, radios, tables
  <1>5. TypeOK'
    BY <1>3 DEF CoreInv, TypeOK, radios, tables, JobsOK, JobRow
  <1> QED
    BY <1>3, <1>4, <1>5 DEF CoreInv, RetryOK, radios

(* The hook and the operator hand a PSK of the tables or the air on.       *)
LEMMA ObserveKeeps ==
    ASSUME CoreInv, NEW n \in Nodes, ObserveInboundPacket(n) \/ ForceRecoverStranded(n)
    PROVE  CoreInv'
  <1>1. trust[n].prev \in Psks \cup {NoPsk} /\ remote[n].psk \in Psks \cup {NoPsk}
    BY DEF CoreInv, TypeOK
  <1>2. \E prev \in Psks \cup {NoPsk} : EnqueueRecovery(n, prev)
    BY <1>1 DEF ObserveInboundPacket, ForceRecoverStranded
  <1> QED
    BY <1>2, EnqueueRecoveryKeeps DEF ObserveInboundPacket, ForceRecoverStranded

(* What Goto does to the worker.                                           *)
LEMMA GotoTyped ==
    ASSUME worker \in WorkerType, NEW pc \in WorkerPcs, Goto(pc)
    PROVE  /\ worker' \in WorkerType /\ worker'.pc = pc /\ worker'.job = worker.job
           /\ worker'.staging = worker.staging /\ worker'.ok = worker.ok
           /\ worker'.psk = worker.psk /\ worker'.prev = worker.prev
           /\ worker'.old = worker.old
  <1>1. worker' = [worker EXCEPT !.pc = pc]
    BY DEF Goto
  <1> QED
    BY <1>1 DEF WorkerType

(* A handler that returns leaves its row to be closed.                     *)
LEMMA HandlerReturns ==
    ASSUME HandlerOK, worker \in WorkerType, worker.pc \notin Resting0, Goto("close"),
           jobs' = jobs
    PROVE  worker' \in WorkerType /\ HandlerOK' /\ DoneOnProof'
  <1>1. "close" \in WorkerPcs
    BY DEF WorkerPcs
  <1>2. worker' \in WorkerType /\ worker'.pc = "close" /\ worker'.job = worker.job
    BY <1>1, GotoTyped
  <1>3. worker'.job \in DOMAIN jobs'
    BY <1>2, KeptItself, SameRow
  <1>4. HandlerOK'
    BY <1>2, <1>3 DEF HandlerOK, Stage
  <1>5. DoneOnProof'
    BY <1>2 DEF DoneOnProof
  <1> QED
    BY <1>2, <1>4, <1>5

(* Return, with or without a fault,       changes the worker only.         *)
LEMMA ReturnKeeps ==
    ASSUME CoreInv, worker.pc \notin Resting0, Return,
           SpendRadio \/ SpendDb \/ UNCHANGED budget
    PROVE  CoreInv'
  <1>1. worker' \in WorkerType /\ HandlerOK' /\ DoneOnProof'
    BY HandlerReturns DEF CoreInv, TypeOK, Return
  <1>2. budget' \in BudgetType
    BY BudgetKept
  <1>3. TypeOK'
    BY <1>1, <1>2 DEF CoreInv, TypeOK, Return, radios, tables, BudgetType
  <1> QED
    BY <1>1, <1>3 DEF CoreInv, RetryOK, Return, radios

(* A worker without a handler.                                             *)
LEMMA AtRest ==
    ASSUME NEW pc \in Resting0, worker' = Resting(pc)
    PROVE  worker' \in WorkerType /\ HandlerOK' /\ DoneOnProof'
  <1>1. NoSnap \in Snaps
    BY DEF NoSnap, Snaps
  <1>2. worker' \in WorkerType /\ worker'.pc \in Resting0
    BY <1>1 DEF Resting, WorkerType, Resting0, WorkerPcs, Snaps
  <1> QED
    BY <1>2 DEF HandlerOK, DoneOnProof, Resting0

(* A lease starts a handler on a row that is there.                        *)
LEMMA LeaseKeeps ==
    ASSUME CoreInv, Lease
    PROVE  CoreInv'
  <1>1. PICK j \in DOMAIN jobs :
           jobs' = LeaseRow(jobs, j) /\ worker' = [Resting("start") EXCEPT !.job = j]
    BY DEF Lease
  <1>2. JobsOK(jobs') /\ DOMAIN jobs' = DOMAIN jobs
    BY <1>1, JobsLeased DEF CoreInv
  <1>3. j \in Nat
    <2>1. DOMAIN jobs = 1 .. Len(jobs) /\ Len(jobs) \in Nat
      BY TableShape DEF CoreInv, JobsOK
    <2> QED
      BY <2>1
  <1>4. NoSnap \in Snaps
    BY DEF NoSnap, Snaps
  <1>5. worker' \in WorkerType /\ worker'.pc = "start" /\ worker'.job = j
    BY <1>1, <1>3, <1>4 DEF Resting, WorkerType, WorkerPcs, Snaps
  <1>6. HandlerOK' /\ DoneOnProof'
    BY <1>2, <1>5 DEF HandlerOK, Stage, DoneOnProof
  <1>7. TypeOK'
    BY <1>2, <1>5 DEF Lease, CoreInv, TypeOK, radios, tables, JobsOK, JobRow
  <1> QED
    BY <1>2, <1>6, <1>7 DEF Lease, CoreInv, RetryOK, radios

(* The worker is at rest once its row is gone.                             *)
LEMMA CloseJobKeeps ==
    ASSUME CoreInv, CloseJob
    PROVE  CoreInv'
  <1>1. worker.job \in DOMAIN jobs
    BY DEF CoreInv, HandlerOK, CloseJob, At, Resting0
  <1>2. JobsOK(jobs')
    BY <1>1, JobsShrink DEF CoreInv, CloseJob
  <1>3. worker' \in WorkerType /\ HandlerOK' /\ DoneOnProof'
    BY AtRest DEF CloseJob, Resting0
  <1>4. budget' \in BudgetType
    BY BudgetKept DEF CloseJob
  <1>5. TypeOK'
    BY <1>2, <1>3, <1>4
       DEF CloseJob, CoreInv, TypeOK, radios, tables, JobsOK, JobRow, BudgetType
  <1> QED
    BY <1>2, <1>3, <1>5 DEF CloseJob, CoreInv, RetryOK, radios

(* A crash leaves tables and radios alone.                                 *)
LEMMA CrashKeeps ==
    ASSUME CoreInv, Crash
    PROVE  CoreInv'
  <1>1. worker' \in WorkerType /\ HandlerOK' /\ DoneOnProof'
    BY AtRest DEF Crash, Resting0
  <1>2. budget' \in BudgetType
    BY BudgetSpent DEF CoreInv, TypeOK, BudgetType, Crash
  <1>3. NoSnap \in Snaps
    BY DEF NoSnap, Snaps
  <1>4. retry' = NoRetry /\ NoRetry \in [rot : 0 .. MaxRotations, snap : Snaps, piDone : BOOLEAN]
    BY <1>3, BoundAssumption DEF Crash, NoRetry
  <1>5. TypeOK'
    BY <1>1, <1>2, <1>4 DEF Crash, CoreInv, TypeOK, radios, tables, Snaps, BudgetType
  <1> QED
    BY <1>1, <1>4, <1>5 DEF Crash, CoreInv, RetryOK, radios

(* A restart resumes rows and rebuilds the hook.                           *)
LEMMA RestartKeeps ==
    ASSUME CoreInv, NEW quick \in BOOLEAN, Restart(quick)
    PROVE  CoreInv'
  <1>1. worker' \in WorkerType /\ HandlerOK' /\ DoneOnProof'
    BY AtRest DEF Restart, Resting0
  <1>2. JobsOK(jobs')
    BY JobsResumed DEF Restart, CoreInv
  <1>3. hook' \subseteq Psks
    BY HookOfCache DEF Restart, CoreInv, TypeOK, CacheRow
  <1>4. budget' \in BudgetType
    BY BudgetKept DEF Restart
  <1>5. TypeOK'
    BY <1>1, <1>2, <1>3, <1>4
       DEF Restart, CoreInv, TypeOK, radios, tables, JobsOK, JobRow, BudgetType
  <1> QED
    BY <1>1, <1>2, <1>5 DEF Restart, CoreInv, RetryOK, radios

-----------------------------------------------------------------------------
(* Phase A.                                                                *)

(* Phase A picks a work slot for the rotation of its row.                  *)
LEMMA PhaseAPickKeeps ==
    ASSUME CoreInv, PhaseAPick
    PROVE  CoreInv'
  <1> DEFINE r == work.rot
             todo == {n \in Targets(r) : ~Done(rotation[r].target[n])}
             pc == IF rotation[r].piPhase = "pending" THEN "a_stage" ELSE "a_channel"
  <1>1. worker.pc \notin Resting0 /\ work.kind = "rotate_phase_a"
    BY DEF PhaseAPick, Running, At, Resting0
  <1>2. r \in Rotations
    BY <1>1, WorkFits DEF CoreInv, Fits
  <1>3. rotation[r] \in RotationType /\ rotation[r].target \in Snaps /\ r \in Psks
    BY <1>2 DEF CoreInv, TypeOK, RotationType, Snaps, Rotations, Psks
  <1>4. PrimarySlot \in WorkSlots /\ 1 - PrimarySlot \in WorkSlots
    BY PrimaryFound DEF CoreInv, PhaseAPick
  <1>5. StagingSlot(r) \in WorkSlots
    BY <1>3, <1>4 DEF StagingSlot, RotationType
  <1>6. rotation' \in RotationTable
    <2>1. rotation \in RotationTable
      BY DEF CoreInv, TypeOK, RotationTable
    <2>2. [rotation EXCEPT ![r].staging = StagingSlot(r)] \in RotationTable
      BY <1>2, <1>3, <1>5, <2>1, RotationWritten, Zenon
    <2> QED
      BY <2>1, <2>2, Zenon DEF PhaseAPick
  <1>7. todo \in SUBSET Nodes
    BY DEF Targets
  <1>8. worker' = [worker EXCEPT !.pc = pc, !.snap = rotation[r].target,
                       !.staging = StagingSlot(r), !.old = PrimarySlot, !.psk = r, !.todo = todo]
    BY DEF PhaseAPick
  <1>9. pc \in {"a_stage", "a_channel"} /\ pc \in WorkerPcs
    BY DEF WorkerPcs
  <1> HIDE DEF r, todo, pc
  <1>10. worker' \in WorkerType
    BY <1>3, <1>4, <1>5, <1>7, <1>8, <1>9 DEF CoreInv, TypeOK, WorkerType, Snaps
  <1>11. /\ worker'.pc \in {"a_stage", "a_channel"} /\ worker'.job = worker.job
         /\ worker'.staging = StagingSlot(r)
    BY <1>8, <1>9 DEF CoreInv, TypeOK, WorkerType
  <1>12. worker'.job \in DOMAIN jobs' /\ work' = work
    BY <1>1, <1>11, SameRow, KeptItself DEF CoreInv, PhaseAPick
  <1>13. HandlerOK' /\ DoneOnProof'
    BY <1>1, <1>5, <1>11, <1>12 DEF HandlerOK, Stage, DoneOnProof
  <1>14. budget' \in BudgetType
    BY BudgetKept DEF PhaseAPick
  <1>15. TypeOK'
    BY <1>6, <1>10, <1>14
       DEF PhaseAPick, CoreInv, TypeOK, radios, RotationTable, BudgetType
  <1> QED
    BY <1>13, <1>15 DEF PhaseAPick, CoreInv, RetryOK, radios

(* Phase A stages a SECONDARY and marks the row staging_added.             *)
LEMMA PhaseAStageKeeps ==
    ASSUME CoreInv, PhaseAStage
    PROVE  CoreInv'
  <1>1. worker.pc = "a_stage" /\ worker.pc \notin Resting0
    BY DEF PhaseAStage, At, Resting0
  <1>2. /\ work.kind = "rotate_phase_a" /\ work.rot \in Rotations
        /\ worker.staging \in WorkSlots
    BY <1>1, WorkFits DEF CoreInv, Fits, Stage
  <1>3. pi' \in PiType /\ PrimaryOK(pi')
    BY <1>2, StagedPrimary DEF CoreInv, TypeOK, PiType, PhaseAStage
  <1>4. rotation' \in RotationTable
    <2>1. NoSnap \in Snaps
      BY DEF NoSnap, Snaps
    <2>2. rotation \in RotationTable
      BY DEF CoreInv, TypeOK, RotationTable
    <2>3. [rotation EXCEPT ![work.rot].piPhase = "staging_added"] \in RotationTable
      BY <1>2, <2>1, <2>2, RotationWritten, Zenon
    <2> QED
      BY <2>2, <2>3, Zenon DEF PhaseAStage
  <1>5. /\ worker' \in WorkerType /\ worker'.pc = "a_channel" /\ worker'.job = worker.job
        /\ worker'.staging = worker.staging
    BY GotoTyped DEF PhaseAStage, CoreInv, TypeOK, WorkerPcs
  <1>6. worker'.job \in DOMAIN jobs' /\ work' = work
    BY <1>1, <1>5, SameRow, KeptItself DEF CoreInv, PhaseAStage
  <1>7. HandlerOK' /\ DoneOnProof'
    BY <1>2, <1>5, <1>6 DEF HandlerOK, Stage, DoneOnProof
  <1>8. budget' \in BudgetType
    BY BudgetKept DEF PhaseAStage
  <1>9. TypeOK'
    BY <1>3, <1>4, <1>5, <1>8
       DEF PhaseAStage, CoreInv, TypeOK, RotationTable, PiType, BudgetType
  <1> QED
    BY <1>3, <1>7, <1>9 DEF PhaseAStage, CoreInv, RetryOK

(* A timeout of SetChannel, applied or not.                                *)
LEMMA PhaseAStageFailsKeeps ==
    ASSUME CoreInv, PhaseAStageFails
    PROVE  CoreInv'
  <1>1. worker.pc = "a_stage" /\ worker.pc \notin Resting0
    BY DEF PhaseAStageFails, At, Resting0
  <1>2. worker.staging \in WorkSlots
    BY <1>1, WorkFits DEF CoreInv, Stage
  <1>3. pi' \in PiType /\ PrimaryOK(pi')
    BY <1>2, StagedPrimary DEF CoreInv, TypeOK, PiType, PhaseAStageFails
  <1>4. worker' \in WorkerType /\ HandlerOK' /\ DoneOnProof'
    BY <1>1, HandlerReturns DEF CoreInv, TypeOK, PhaseAStageFails
  <1>5. budget' \in BudgetType
    BY BudgetSpent DEF CoreInv, TypeOK, BudgetType, PhaseAStageFails
  <1>6. TypeOK'
    BY <1>3, <1>4, <1>5 DEF PhaseAStageFails, CoreInv, TypeOK, tables, PiType, BudgetType
  <1> QED
    BY <1>3, <1>4, <1>6 DEF PhaseAStageFails, CoreInv, RetryOK

(* Phase A records the fingerprint in fleet_channels.                      *)
LEMMA PhaseAChannelKeeps ==
    ASSUME CoreInv, PhaseAChannel
    PROVE  CoreInv'
  <1>1. worker.pc = "a_channel" /\ worker.pc \notin Resting0
    BY DEF PhaseAChannel, At, Resting0
  <1>2. work.kind = "rotate_phase_a" /\ worker.staging \in WorkSlots
    BY <1>1, WorkFits DEF CoreInv, Stage
  <1>3. channelFp' \in Psks \cup {NoPsk}
    BY DEF PhaseAChannel, CoreInv, TypeOK, WorkerType
  <1>4. PICK pc \in {"close", "a_enqueue"} : Goto(pc)
    BY DEF PhaseAChannel
  <1>5. pc \in WorkerPcs
    BY DEF WorkerPcs
  <1>6. /\ worker' \in WorkerType /\ worker'.pc = pc /\ worker'.job = worker.job
        /\ worker'.staging = worker.staging
    BY <1>4, <1>5, GotoTyped DEF CoreInv, TypeOK
  <1>7. worker'.job \in DOMAIN jobs' /\ work' = work
    BY <1>1, <1>6, SameRow, KeptItself DEF CoreInv, PhaseAChannel
  <1>8. HandlerOK' /\ DoneOnProof'
    BY <1>2, <1>4, <1>6, <1>7 DEF HandlerOK, Stage, DoneOnProof
  <1>9. budget' \in BudgetType
    BY BudgetKept DEF PhaseAChannel
  <1>10. TypeOK'
    BY <1>3, <1>6, <1>9
       DEF PhaseAChannel, CoreInv, TypeOK, radios, BudgetType
  <1> QED
    BY <1>8, <1>10 DEF PhaseAChannel, CoreInv, RetryOK, radios

(* A step of the enqueue loop handles one target.                          *)
LEMMA EnqueuesOne ==
    ASSUME PhaseAEnqueue
    PROVE  \E n \in worker.todo, pc \in {"close", "a_enqueue"} :
              /\ jobs' = jobs \/ jobs' = EnqueuePhaseB(n)
              /\ worker' = [worker EXCEPT !.todo = @ \ {n}, !.pc = pc]
  <1>1. PICK n \in worker.todo :
           /\ \/ jobs' = (IF Debounces(n) THEN jobs ELSE EnqueuePhaseB(n)) /\ UNCHANGED budget
              \/ jobs' = EnqueuePhaseB(n) /\ SpendDb
           /\ worker' = [worker EXCEPT
                  !.todo = @ \ {n},
                  !.pc = IF worker.todo = {n} THEN "close" ELSE "a_enqueue"]
    BY Zenon DEF PhaseAEnqueue
  <1> DEFINE pc == IF worker.todo = {n} THEN "close" ELSE "a_enqueue"
  <1>2. pc \in {"close", "a_enqueue"} /\ worker' = [worker EXCEPT !.todo = @ \ {n}, !.pc = pc]
    BY <1>1
  <1>3. jobs' = jobs \/ jobs' = EnqueuePhaseB(n)
    BY <1>1, Zenon
  <1> HIDE DEF pc
  <1> QED
    BY <1>2, <1>3

(* Phase A enqueues with the slots it has picked.                          *)
LEMMA PhaseAEnqueueKeeps ==
    ASSUME CoreInv, PhaseAEnqueue
    PROVE  CoreInv'
  <1>1. worker.pc = "a_enqueue" /\ worker.pc \notin Resting0
    BY DEF PhaseAEnqueue, At, Resting0
  <1>2. /\ work.kind = "rotate_phase_a" /\ work.rot \in Rotations
        /\ worker.staging \in WorkSlots
    BY <1>1, WorkFits DEF CoreInv, Stage, Fits
  <1>3. PICK n \in worker.todo, pc \in {"close", "a_enqueue"} :
           /\ jobs' = jobs \/ jobs' = EnqueuePhaseB(n)
           /\ worker' = [worker EXCEPT !.todo = @ \ {n}, !.pc = pc]
    BY EnqueuesOne
  <1>4. n \in Nodes /\ worker.old \in WorkSlots \cup {NoSlot}
    BY DEF CoreInv, TypeOK, WorkerType
  <1> DEFINE w == PhaseBWork(work.rot, n, worker.staging, worker.old)
  <1>5. w \in WorkType /\ Fits(w) /\ w.node = n
    BY <1>2, <1>4 DEF PhaseBWork, WorkType, Fits, Rotations
  <1> HIDE DEF w
  <1>6. JobsOK(jobs') /\ Kept(jobs, jobs')
    BY <1>3, <1>5, JobsGrow, KeptItself DEF CoreInv, EnqueuePhaseB, w
  <1>7. /\ worker' \in WorkerType /\ worker'.pc \in {"close", "a_enqueue"}
        /\ worker'.job = worker.job /\ worker'.staging = worker.staging
    BY <1>3 DEF CoreInv, TypeOK, WorkerType, WorkerPcs
  <1>8. worker'.job \in DOMAIN jobs' /\ work' = work
    BY <1>1, <1>6, <1>7, SameRow DEF CoreInv
  <1>9. HandlerOK' /\ DoneOnProof'
    BY <1>2, <1>7, <1>8 DEF HandlerOK, Stage, DoneOnProof
  <1>10. budget' \in BudgetType
    BY BudgetKept DEF PhaseAEnqueue
  <1>11. TypeOK'
    BY <1>6, <1>7, <1>10
       DEF PhaseAEnqueue, CoreInv, TypeOK, radios, tables, JobsOK, JobRow, BudgetType
  <1> QED
    BY <1>6, <1>9, <1>11 DEF PhaseAEnqueue, CoreInv, RetryOK, radios

-----------------------------------------------------------------------------
(* The migration of a remote.                                              *)

RemoteType == [Nodes -> [slot : WorkSlots, psk : Psks \cup {NoPsk}]]

(* The number of lost frames is a number.                                  *)
LEMMA LostFrames ==
    ASSUME NEW lost \in SUBSET Frames
    PROVE  Cardinality(lost) \in Nat
  <1> DEFINE F == ((({} \cup {"begin"}) \cup {"promote"}) \cup {"disable"}) \cup {"commit"}
  <1>1. IsFiniteSet({} \cup {"begin"})
    BY FS_EmptySet, FS_AddElement, Zenon
  <1>2. IsFiniteSet(({} \cup {"begin"}) \cup {"promote"})
    BY <1>1, FS_AddElement, Zenon
  <1>3. IsFiniteSet((({} \cup {"begin"}) \cup {"promote"}) \cup {"disable"})
    BY <1>2, FS_AddElement, Zenon
  <1>4. IsFiniteSet(F)
    BY <1>3, FS_AddElement, Zenon
  <1>5. Frames = F
    BY DEF Frames
  <1> QED
    BY <1>4, <1>5, FS_Subset, FS_CardinalityType, Zenon

(* A remote that got some of the frames has a PRIMARY slot and PSK still.  *)
LEMMA AfterFramesTyped ==
    ASSUME NEW chan \in [slot : WorkSlots, psk : Psks \cup {NoPsk}], NEW got,
           NEW staging \in WorkSlots, NEW old, NEW psk \in Psks \cup {NoPsk}
    PROVE  AfterFrames(chan, got, staging, old, psk) \in [slot : WorkSlots, psk : Psks \cup {NoPsk}]
  <1> DEFINE promoted == IF "promote" \in got THEN [slot |-> staging, psk |-> psk] ELSE chan
             wiped == IF "disable" \in got /\ promoted.slot = old
                      THEN [promoted EXCEPT !.psk = NoPsk] ELSE promoted
  <1>1. promoted \in [slot : WorkSlots, psk : Psks \cup {NoPsk}]
    OBVIOUS
  <1> HIDE DEF promoted
  <1>2. wiped \in [slot : WorkSlots, psk : Psks \cup {NoPsk}]
    BY <1>1
  <1>3. AfterFrames(chan, got, staging, old, psk) \in {chan, wiped}
    BY Zenon DEF AfterFrames, promoted
  <1> HIDE DEF wiped
  <1> QED
    BY <1>2, <1>3

(* The frames of a migration, whichever are lost.                          *)
LEMMA MigrateSendKeeps ==
    ASSUME CoreInv, MigrateSend
    PROVE  CoreInv'
  <1> DEFINE n == work.node
  <1>1. worker.pc = "frames" /\ worker.pc \notin Resting0
    BY DEF MigrateSend, At, Resting0
  <1>2. /\ work.kind \in {"rotate_phase_b", "recover_stranded"} /\ n \in Nodes
        /\ worker.staging \in WorkSlots
    BY <1>1, WorkFits DEF CoreInv, Stage, Fits
  <1>3. PICK lost \in SUBSET Frames :
           /\ budget.frames + Cardinality(lost) <= MaxLostFrames
           /\ budget' = [budget EXCEPT !.frames = @ + Cardinality(lost)]
           /\ remote' = [remote EXCEPT
                 ![n] = AfterFrames(@, Frames \ lost, worker.staging, worker.old, worker.psk)]
    BY DEF MigrateSend
  <1>4. budget' \in BudgetType
    <2> PICK b \in BudgetType : b = budget
      BY DEF CoreInv, TypeOK, BudgetType
    <2>1. b.frames \in Nat /\ MaxLostFrames \in Nat /\ Cardinality(lost) \in Nat
      BY BoundAssumption, LostFrames DEF BudgetType
    <2>2. b.frames + Cardinality(lost) \in 0 .. MaxLostFrames
      BY <1>3, <2>1
    <2> QED
      BY <1>3, <2>2, Zenon DEF BudgetType
  <1>5. remote' \in RemoteType
    <2> DEFINE chan == AfterFrames(remote[n], Frames \ lost, worker.staging, worker.old, worker.psk)
    <2>1. /\ remote[n] \in [slot : WorkSlots, psk : Psks \cup {NoPsk}]
          /\ worker.psk \in Psks \cup {NoPsk}
      BY <1>2 DEF CoreInv, TypeOK, WorkerType
    <2>2. chan \in [slot : WorkSlots, psk : Psks \cup {NoPsk}]
      BY <1>2, <2>1, AfterFramesTyped
    <2>3. remote' = [remote EXCEPT ![n] = chan]
      BY <1>3
    <2> HIDE DEF chan
    <2> QED
      BY <2>2, <2>3 DEF CoreInv, TypeOK, RemoteType
  <1>6. /\ worker' \in WorkerType /\ worker'.pc = "verify" /\ worker'.job = worker.job
        /\ worker'.staging = worker.staging
    BY GotoTyped DEF MigrateSend, CoreInv, TypeOK, WorkerPcs
  <1>7. worker'.job \in DOMAIN jobs' /\ work' = work
    BY <1>1, <1>6, SameRow, KeptItself DEF CoreInv, MigrateSend
  <1>8. HandlerOK' /\ DoneOnProof'
    BY <1>2, <1>6, <1>7 DEF HandlerOK, Stage, DoneOnProof
  <1>9. TypeOK'
    BY <1>4, <1>5, <1>6 DEF MigrateSend, CoreInv, TypeOK, tables, BudgetType, RemoteType
  <1> QED
    BY <1>8, <1>9 DEF MigrateSend, CoreInv, RetryOK

(* Without a session or an answer the migration is recorded as failed;     *)
(* with one it is recorded as what the probe has seen.                     *)
LEMMA MigrateEndKeeps ==
    ASSUME CoreInv, MigrateNoSession \/ MigrateVerify
    PROVE  CoreInv'
  <1>1. worker.pc \in {"frames", "verify"} /\ worker.pc \notin Resting0
    BY DEF MigrateNoSession, MigrateVerify, At, Resting0
  <1>2. work.kind \in {"rotate_phase_b", "recover_stranded"}
    BY <1>1, WorkFits DEF CoreInv, Stage
  <1>3. PICK ok \in BOOLEAN :
           /\ worker' = [worker EXCEPT !.pc = RecordPc, !.ok = ok]
           /\ ok => Migrated(work.node)
    <2>1. CASE MigrateNoSession
      BY <2>1 DEF MigrateNoSession
    <2>2. CASE MigrateVerify
      <3>1. Migrated(work.node) \in BOOLEAN
        BY DEF Migrated, Reachable
      <3> QED
        BY <2>2, <3>1 DEF MigrateVerify
    <2> QED
      BY <2>1, <2>2
  <1>4. RecordPc \in {"b_record", "r_record"} /\ RecordPc \in WorkerPcs
    BY DEF RecordPc, WorkerPcs
  <1>5. /\ worker' \in WorkerType /\ worker'.pc = RecordPc /\ worker'.job = worker.job
        /\ worker'.staging = worker.staging /\ worker'.psk = worker.psk /\ worker'.ok = ok
    BY <1>3, <1>4 DEF CoreInv, TypeOK, WorkerType
  <1>6. jobs' = jobs /\ remote' = remote
    BY DEF MigrateNoSession, MigrateVerify, radios
  <1>7. worker'.job \in DOMAIN jobs' /\ work' = work
    BY <1>1, <1>5, <1>6, SameRow, KeptItself DEF CoreInv
  <1>8. HandlerOK'
    BY <1>2, <1>5, <1>7 DEF HandlerOK, Stage, RecordPc
  <1>9. DoneOnProof'
    BY <1>3, <1>5, <1>6, <1>7 DEF DoneOnProof, Migrated
  <1>10. budget' \in BudgetType
    BY BudgetSpent DEF MigrateNoSession, MigrateVerify, CoreInv, TypeOK, BudgetType
  <1>11. TypeOK'
    BY <1>5, <1>10 DEF MigrateNoSession, MigrateVerify, CoreInv, TypeOK, radios, tables, BudgetType
  <1> QED
    BY <1>8, <1>9, <1>11 DEF MigrateNoSession, MigrateVerify, CoreInv, RetryOK, radios

-----------------------------------------------------------------------------
(* Phase B.                                                                *)

(* Phase B takes slot and node from its row.                               *)
LEMMA PhaseBStartKeeps ==
    ASSUME CoreInv, PhaseBStart
    PROVE  CoreInv'
  <1> DEFINE r == work.rot
             snap == [rotation[r].target EXCEPT ![work.node] = "phase_b_pushing"]
  <1>1. worker.pc \notin Resting0 /\ work.kind = "rotate_phase_b"
    BY DEF PhaseBStart, Running, At, Resting0
  <1>2. /\ r \in Rotations /\ work.staging \in WorkSlots
        /\ work.old \in WorkSlots \cup {NoSlot} /\ work.node \in Nodes
    BY <1>1, WorkFits DEF CoreInv, Fits, WorkType
  <1>3. rotation[r].target \in Snaps /\ r \in Psks
    BY <1>2 DEF CoreInv, TypeOK, RotationType, Snaps, Rotations, Psks
  <1>4. snap \in Snaps
    BY <1>2, <1>3 DEF Snaps, Phases
  <1>5. /\ rotation' \in {rotation, [rotation EXCEPT ![r].target = snap],
                           [rotation EXCEPT ![r].target[work.node] = snap[work.node]]}
        /\ worker' = [worker EXCEPT !.pc = "frames", !.snap = snap, !.psk = r,
                                    !.staging = work.staging, !.old = work.old]
    BY DEF PhaseBStart, TransitionTarget, WriteTargets
  <1> HIDE DEF r, snap
  <1>6. rotation' \in RotationTable
    <2>1. rotation \in RotationTable
      BY DEF CoreInv, TypeOK, RotationTable
    <2>2. [rotation EXCEPT ![r].target = snap] \in RotationTable
      BY <1>2, <1>4, <2>1, RotationWritten, Zenon
    <2>3. [rotation EXCEPT ![r].target[work.node] = snap[work.node]] \in RotationTable
      BY <1>2, <1>4, <2>1, EntryWritten, Zenon
    <2> QED
      BY <1>5, <2>1, <2>2, <2>3, Zenon
  <1>7. /\ worker' \in WorkerType /\ worker'.pc = "frames" /\ worker'.job = worker.job
        /\ worker'.staging = work.staging
    BY <1>2, <1>3, <1>4, <1>5 DEF CoreInv, TypeOK, WorkerType, WorkerPcs, Snaps
  <1>8. worker'.job \in DOMAIN jobs' /\ work' = work
    BY <1>1, <1>7, SameRow, KeptItself DEF CoreInv, PhaseBStart
  <1>9. HandlerOK' /\ DoneOnProof'
    BY <1>1, <1>2, <1>7, <1>8 DEF HandlerOK, Stage, DoneOnProof
  <1>10. budget' \in BudgetType
    BY BudgetKept DEF PhaseBStart, TransitionTarget
  <1>11. TypeOK'
    BY <1>6, <1>7, <1>10
       DEF PhaseBStart, CoreInv, TypeOK, radios, RotationTable, BudgetType
  <1> QED
    BY <1>9, <1>11 DEF PhaseBStart, CoreInv, RetryOK, radios

(* Phase B records what the probe has seen.                                *)
LEMMA PhaseBRecordKeeps ==
    ASSUME CoreInv, PhaseBRecord
    PROVE  CoreInv'
  <1> DEFINE p == IF worker.ok THEN "on_new_psk" ELSE "failed_b"
             snap == [worker.snap EXCEPT ![work.node] = p]
             pc == IF worker.ok THEN "b_stamp" ELSE "close"
  <1>1. worker.pc = "b_record" /\ worker.pc \notin Resting0
    BY DEF PhaseBRecord, At, Resting0
  <1>2. work.kind = "rotate_phase_b" /\ work.rot \in Rotations /\ work.node \in Nodes
    BY <1>1, WorkFits DEF CoreInv, Fits, Stage
  <1>3. worker.snap \in Snaps /\ p \in Phases
    BY DEF CoreInv, TypeOK, WorkerType, Snaps, Phases
  <1>4. snap \in Snaps
    BY <1>2, <1>3 DEF Snaps
  <1>5. /\ rotation' \in {rotation, [rotation EXCEPT ![work.rot].target = snap],
                           [rotation EXCEPT ![work.rot].target[work.node] = snap[work.node]]}
        /\ worker' = [worker EXCEPT !.snap = snap, !.pc = pc]
    BY DEF PhaseBRecord, TransitionTarget, WriteTargets
  <1>6. pc \in {"b_stamp", "close"} /\ pc \in WorkerPcs
    BY DEF WorkerPcs
  <1> HIDE DEF p, snap, pc
  <1>7. rotation' \in RotationTable
    <2>1. rotation \in RotationTable
      BY DEF CoreInv, TypeOK, RotationTable
    <2>2. [rotation EXCEPT ![work.rot].target = snap] \in RotationTable
      BY <1>2, <1>4, <2>1, RotationWritten, Zenon
    <2>3. [rotation EXCEPT ![work.rot].target[work.node] = snap[work.node]] \in RotationTable
      BY <1>2, <1>4, <2>1, EntryWritten, Zenon
    <2> QED
      BY <1>5, <2>1, <2>2, <2>3, Zenon
  <1>8. /\ worker' \in WorkerType /\ worker'.pc = pc /\ worker'.job = worker.job
        /\ worker'.staging = worker.staging /\ worker'.psk = worker.psk /\ worker'.ok = worker.ok
    BY <1>4, <1>5, <1>6 DEF CoreInv, TypeOK, WorkerType, Snaps
  <1>9. worker'.job \in DOMAIN jobs' /\ work' = work
    BY <1>1, <1>8, SameRow, KeptItself DEF CoreInv, PhaseBRecord
  <1>10. HandlerOK'
    BY <1>2, <1>6, <1>8, <1>9 DEF HandlerOK, Stage
  <1>11. DoneOnProof'
    BY <1>1, <1>8, <1>9 DEF DoneOnProof, CoreInv, PhaseBRecord, radios
  <1>12. budget' \in BudgetType
    BY BudgetKept DEF PhaseBRecord, TransitionTarget
  <1>13. TypeOK'
    BY <1>7, <1>8, <1>12
       DEF PhaseBRecord, CoreInv, TypeOK, radios, RotationTable, BudgetType
  <1> QED
    BY <1>10, <1>11, <1>13 DEF PhaseBRecord, CoreInv, RetryOK, radios

(* Phase B stamps the node and, at the last target, the rotation.          *)
LEMMA PhaseBStampKeeps ==
    ASSUME CoreInv, PhaseBStamp
    PROVE  CoreInv'
  <1>1. worker.pc = "b_stamp" /\ worker.pc \notin Resting0
    BY DEF PhaseBStamp, At, Resting0
  <1>2. work.rot \in Rotations /\ work.node \in Nodes
    BY <1>1, WorkFits DEF CoreInv, Fits, Stage
  <1>3. worker.snap \in Snaps /\ worker.psk \in Psks \cup {NoPsk}
    BY DEF CoreInv, TypeOK, WorkerType, Snaps
  <1>4. rotation' \in RotationTable
    <2>1. rotation \in RotationTable
      BY DEF CoreInv, TypeOK, RotationTable
    <2>2. WriteTargets(work.rot, worker.snap) \in RotationTable
      BY <1>2, <1>3, <2>1, RotationWritten, Zenon DEF WriteTargets
    <2>3. rotation' \in {rotation, WriteTargets(work.rot, worker.snap)}
      BY DEF PhaseBStamp
    <2> QED
      BY <2>1, <2>2, <2>3, Zenon
  <1>5. trust' \in [Nodes -> TrustRow]
    <2>1. [trust EXCEPT ![work.node].fp = worker.psk] \in [Nodes -> TrustRow]
      BY <1>2, <1>3 DEF CoreInv, TypeOK, TrustRow
    <2> QED
      BY <2>1 DEF PhaseBStamp, CoreInv, TypeOK, TrustRow
  <1>6. worker' \in WorkerType /\ HandlerOK' /\ DoneOnProof'
    BY <1>1, HandlerReturns DEF CoreInv, TypeOK, PhaseBStamp
  <1>7. budget' \in BudgetType
    BY BudgetKept DEF PhaseBStamp
  <1>8. TypeOK'
    BY <1>4, <1>5, <1>6, <1>7
       DEF PhaseBStamp, CoreInv, TypeOK, radios, RotationTable, TrustRow, BudgetType
  <1> QED
    BY <1>6, <1>8 DEF PhaseBStamp, CoreInv, RetryOK, radios

-----------------------------------------------------------------------------
(* Phase C.                                                                *)

(* Phase C retires a rotation with nothing to migrate.                     *)
LEMMA PhaseCNothingToMigrateKeeps ==
    ASSUME CoreInv, PhaseCNothingToMigrate
    PROVE  CoreInv'
  <1>1. worker.pc \notin Resting0 /\ work.kind = "rotate_phase_c"
    BY DEF PhaseCNothingToMigrate, Running, At, Resting0
  <1>2. work.rot \in Rotations
    BY <1>1, WorkFits DEF CoreInv, Fits
  <1>3. NoSnap \in Snaps
    BY DEF NoSnap, Snaps
  <1>4. rotation' \in RotationTable
    BY <1>2, <1>3, RotationWritten DEF PhaseCNothingToMigrate, CoreInv, TypeOK, RotationTable
  <1>5. worker' \in WorkerType /\ HandlerOK' /\ DoneOnProof'
    BY <1>1, HandlerReturns DEF CoreInv, TypeOK, PhaseCNothingToMigrate
  <1>6. budget' \in BudgetType
    BY BudgetKept DEF PhaseCNothingToMigrate
  <1>8. missed' \subseteq Psks
    BY <1>2 DEF PhaseCNothingToMigrate, CoreInv, TypeOK, Rotations, Psks
  <1>9. TypeOK'
    BY <1>4, <1>5, <1>6, <1>8
       DEF PhaseCNothingToMigrate, CoreInv, TypeOK, RotationTable, BudgetType
  <1> QED
    BY <1>5, <1>9 DEF PhaseCNothingToMigrate, CoreInv, RetryOK

(* Phase C caches the PSK that the Pi is about to leave.                   *)
LEMMA PhaseCStartKeeps ==
    ASSUME CoreInv, PhaseCStart
    PROVE  CoreInv'
  <1> DEFINE r == work.rot
  <1>1. worker.pc \notin Resting0 /\ work.kind = "rotate_phase_c"
    BY DEF PhaseCStart, Running, At, Resting0
  <1>2. r \in Rotations /\ work.staging \in WorkSlots
    BY <1>1, WorkFits DEF CoreInv, Fits
  <1>3. rotation[r].target \in Snaps /\ r \in Psks
    BY <1>2 DEF CoreInv, TypeOK, RotationType, Snaps, Rotations, Psks
  <1>4. PrimarySlot \in WorkSlots /\ PiPsk \in Psks
    BY PrimaryFound DEF CoreInv, PhaseCStart, PiPromoted
  <1>5. PICK ok \in BOOLEAN :
           /\ cache' = AddRecoveryPSK(PiPsk) \/ (~ok /\ cache' = cache)
           /\ worker' = [worker EXCEPT !.pc = "c_radio", !.snap = rotation[r].target,
                                       !.staging = work.staging, !.old = PrimarySlot,
                                       !.psk = r, !.prev = PiPsk, !.ok = ok]
    BY Zenon DEF PhaseCStart
  <1>6. cache' \in Seq(CacheRow) /\ (ok => \E i \in DOMAIN cache' : cache'[i].psk = PiPsk)
    <2>1. cache \in Seq(CacheRow)
      BY DEF CoreInv, TypeOK, CacheRow
    <2>2. /\ AddRecoveryPSK(PiPsk) \in Seq(CacheRow)
          /\ \E i \in DOMAIN AddRecoveryPSK(PiPsk) : AddRecoveryPSK(PiPsk)[i].psk = PiPsk
      BY <1>4, <2>1, AddedIsCached
    <2> QED
      BY <1>5, <2>1, <2>2, Zenon
  <1> HIDE DEF r
  <1>7. worker' \in WorkerType
    BY <1>2, <1>3, <1>4, <1>5 DEF CoreInv, TypeOK, WorkerType, WorkerPcs, Snaps
  <1>8. /\ worker'.pc = "c_radio" /\ worker'.job = worker.job /\ worker'.staging = work.staging
        /\ worker'.old = PrimarySlot /\ worker'.psk = r /\ worker'.prev = PiPsk
        /\ worker'.ok = ok
    BY <1>5 DEF CoreInv, TypeOK, WorkerType
  <1>9. worker'.job \in DOMAIN jobs' /\ work' = work
    BY <1>1, <1>8, SameRow, KeptItself DEF CoreInv, PhaseCStart
  <1>10. Stage(worker', work)
    BY <1>1, <1>2, <1>3, <1>4, <1>8 DEF Stage
  <1>11. HandlerOK' /\ DoneOnProof'
    BY <1>6, <1>8, <1>9, <1>10 DEF HandlerOK, DoneOnProof, Cached
  <1>12. budget' \in BudgetType
    BY BudgetKept DEF PhaseCStart
  <1>13. TypeOK'
    BY <1>6, <1>7, <1>12
       DEF PhaseCStart, CoreInv, TypeOK, radios, CacheRow, BudgetType
  <1> QED
    BY <1>11, <1>13 DEF PhaseCStart, CoreInv, RetryOK, radios

(* The promoted radio, at c_radio.                                         *)
LEMMA PromotedAtRadio ==
    ASSUME CoreInv, worker.pc = "c_radio"
    PROVE  /\ PromotedPi \in PiType /\ PrimaryOK(PromotedPi)
           /\ worker.staging # worker.old =>
                /\ PromotedPi[worker.staging].role = "primary"
                /\ PromotedPi[worker.staging].psk = worker.psk
  <1>1. worker.pc \notin Resting0
    BY DEF Resting0
  <1>2. /\ worker.staging \in WorkSlots /\ worker.old \in WorkSlots
        /\ worker.prev \in Psks /\ worker.psk \in Psks
    BY <1>1, WorkFits DEF CoreInv, Stage
  <1>3. worker.ok => Cached(worker.prev)
    BY DEF CoreInv, HandlerOK
  <1> QED
    BY <1>2, <1>3, PromotedPrimary DEF CoreInv, TypeOK, PiType, CacheRow

(* The promotion, acknowledged.                                            *)
LEMMA PhaseCPromoteKeeps ==
    ASSUME CoreInv, PhaseCPromote
    PROVE  CoreInv'
  <1>1. worker.pc = "c_radio" /\ worker.pc \notin Resting0
    BY DEF PhaseCPromote, At, Resting0
  <1>2. work.kind = "rotate_phase_c"
    BY <1>1, WorkFits DEF CoreInv, Stage
  <1>3. pi' \in PiType /\ PrimaryOK(pi')
    BY <1>1, PromotedAtRadio DEF PhaseCPromote, Promote
  <1>4. worker' \in WorkerType /\ worker'.pc = "c_retire" /\ worker'.job = worker.job
    BY GotoTyped DEF PhaseCPromote, CoreInv, TypeOK, WorkerPcs
  <1>5. worker'.job \in DOMAIN jobs' /\ work' = work
    BY <1>1, <1>4, SameRow, KeptItself DEF CoreInv, PhaseCPromote
  <1>6. HandlerOK' /\ DoneOnProof'
    BY <1>2, <1>4, <1>5 DEF HandlerOK, Stage, DoneOnProof
  <1>7. TypeOK'
    <2>1. missed' \subseteq Psks
      BY <1>1, WorkFits DEF PhaseCPromote, Promote, CoreInv, TypeOK, Stage
    <2> QED
      BY <1>3, <1>4, <2>1 DEF PhaseCPromote, CoreInv, TypeOK, tables, PiType
  <1> QED
    BY <1>3, <1>6, <1>7 DEF PhaseCPromote, CoreInv, RetryOK

(* The promotion, not acknowledged: discarded or applied.                  *)
LEMMA PhaseCPromoteFailsKeeps ==
    ASSUME CoreInv, PhaseCPromoteFails
    PROVE  CoreInv'
  <1>1. worker.pc = "c_radio" /\ worker.pc \notin Resting0
    BY DEF PhaseCPromoteFails, At, Resting0
  <1>2. pi' \in PiType /\ PrimaryOK(pi')
    BY <1>1, PromotedAtRadio DEF PhaseCPromoteFails, Promote, CoreInv, TypeOK, PiType
  <1>3. worker' \in WorkerType /\ HandlerOK' /\ DoneOnProof'
    BY <1>1, HandlerReturns DEF CoreInv, TypeOK, PhaseCPromoteFails
  <1>4. budget' \in BudgetType
    BY BudgetSpent DEF CoreInv, TypeOK, BudgetType, PhaseCPromoteFails
  <1>5. TypeOK'
    <2>1. missed' \subseteq Psks
      BY <1>1, WorkFits DEF PhaseCPromoteFails, Promote, CoreInv, TypeOK, Stage
    <2> QED
      BY <1>2, <1>3, <1>4, <2>1 DEF PhaseCPromoteFails, CoreInv, TypeOK, tables, PiType, BudgetType
  <1> QED
    BY <1>2, <1>3, <1>5 DEF PhaseCPromoteFails, CoreInv, RetryOK

(* The table writes after the promotion.                                   *)
LEMMA PhaseCRetireKeeps ==
    ASSUME CoreInv, PhaseCRetire
    PROVE  CoreInv'
  <1>1. worker.pc = "c_retire" /\ worker.pc \notin Resting0
    BY DEF PhaseCRetire, At, Resting0
  <1>2. work.kind = "rotate_phase_c" /\ work.rot \in Rotations /\ worker.snap \in Snaps
    BY <1>1, WorkFits DEF CoreInv, Stage, Fits, TypeOK, WorkerType, Snaps
  <1>3. rotation' \in RotationTable
    BY <1>2, RotationWritten DEF PhaseCRetire, CoreInv, TypeOK, RotationTable
  <1>4. worker' \in WorkerType /\ worker'.pc = "c_strand" /\ worker'.job = worker.job
    BY GotoTyped DEF PhaseCRetire, CoreInv, TypeOK, WorkerPcs
  <1>5. worker'.job \in DOMAIN jobs' /\ work' = work
    BY <1>1, <1>4, SameRow, KeptItself DEF CoreInv, PhaseCRetire
  <1>6. HandlerOK' /\ DoneOnProof'
    BY <1>2, <1>4, <1>5 DEF HandlerOK, Stage, DoneOnProof
  <1>7. TypeOK'
    BY <1>3, <1>4 DEF PhaseCRetire, CoreInv, TypeOK, radios, RotationTable
  <1> QED
    BY <1>6, <1>7 DEF PhaseCRetire, CoreInv, RetryOK, radios

(* The same writes, some of which fail.                                    *)
LEMMA PhaseCRetireFailsKeeps ==
    ASSUME CoreInv, PhaseCRetireFails
    PROVE  CoreInv'
  <1> DEFINE r == work.rot
  <1>1. worker.pc = "c_retire" /\ worker.pc \notin Resting0
    BY DEF PhaseCRetireFails, At, Resting0
  <1>2. work.kind = "rotate_phase_c" /\ r \in Rotations /\ worker.snap \in Snaps
    BY <1>1, WorkFits DEF CoreInv, Stage, Fits, TypeOK, WorkerType, Snaps
  <1>3. PICK written \in BOOLEAN, retired \in BOOLEAN, pc \in {"c_strand", "close"} :
           /\ rotation' = [rotation EXCEPT
                  ![r].target = IF written THEN worker.snap ELSE @,
                  ![r].piDone = IF written THEN TRUE ELSE @,
                  ![r].piPhase = IF retired THEN "retired" ELSE @]
           /\ Goto(pc)
    <2>1. PICK written, retired, answered \in BOOLEAN :
             /\ rotation' = [rotation EXCEPT
                    ![r].target = IF written THEN worker.snap ELSE @,
                    ![r].piDone = IF written THEN TRUE ELSE @,
                    ![r].piPhase = IF retired THEN "retired" ELSE @]
             /\ Goto(IF answered THEN "c_strand" ELSE "close")
      BY Zenon DEF PhaseCRetireFails
    <2>2. \E pc \in {"c_strand", "close"} : Goto(pc)
      BY <2>1
    <2> QED
      BY <2>1, <2>2, Zenon
  <1>4. rotation' \in RotationTable
    <2> PICK row \in RotationType : row = rotation[r]
      BY <1>2 DEF CoreInv, TypeOK
    <2> DEFINE new == [row EXCEPT !.target = IF written THEN worker.snap ELSE @,
                                  !.piDone = IF written THEN TRUE ELSE @,
                                  !.piPhase = IF retired THEN "retired" ELSE @]
    <2>1. new \in RotationType
      BY <1>2 DEF RotationType, Snaps
    <2>2. rotation' = [rotation EXCEPT ![r] = new]
      BY <1>2, <1>3 DEF CoreInv, TypeOK
    <2> HIDE DEF new
    <2> QED
      BY <1>2, <2>1, <2>2 DEF CoreInv, TypeOK, RotationTable
  <1>5. pc \in WorkerPcs
    BY DEF WorkerPcs
  <1>6. worker' \in WorkerType /\ worker'.pc = pc /\ worker'.job = worker.job
    BY <1>3, <1>5, GotoTyped DEF CoreInv, TypeOK
  <1>7. worker'.job \in DOMAIN jobs' /\ work' = work
    BY <1>1, <1>6, SameRow, KeptItself DEF CoreInv, PhaseCRetireFails
  <1>8. HandlerOK' /\ DoneOnProof'
    BY <1>2, <1>6, <1>7 DEF HandlerOK, Stage, DoneOnProof
  <1>9. budget' \in BudgetType
    BY BudgetKept DEF PhaseCRetireFails
  <1>10. TypeOK'
    BY <1>4, <1>6, <1>9 DEF PhaseCRetireFails, CoreInv, TypeOK, radios, RotationTable, BudgetType
  <1> QED
    BY <1>8, <1>10 DEF PhaseCRetireFails, CoreInv, RetryOK, radios

(* The stranded flags name the PSK the Pi has left.                        *)
LEMMA PhaseCMarkStrandedKeeps ==
    ASSUME CoreInv, PhaseCMarkStranded
    PROVE  CoreInv'
  <1>1. worker.pc = "c_strand" /\ worker.pc \notin Resting0
    BY DEF PhaseCMarkStranded, At, Resting0
  <1>2. work.kind = "rotate_phase_c" /\ worker.prev \in Psks \cup {NoPsk}
    BY <1>1, WorkFits DEF CoreInv, Stage, TypeOK, WorkerType
  <1>3. \A n \in Nodes :
           /\ trust[n] \in TrustRow
           /\ [trust[n] EXCEPT !.stranded = TRUE, !.prev = worker.prev] \in TrustRow
    <2> TAKE n \in Nodes
    <2> PICK row \in TrustRow : row = trust[n]
      BY DEF CoreInv, TypeOK, TrustRow
    <2>1. [row EXCEPT !.stranded = TRUE, !.prev = worker.prev] \in TrustRow
      BY <1>2 DEF TrustRow
    <2> QED
      BY <2>1
  <1>4. trust' \in [Nodes -> TrustRow]
    <2>1. PICK F : trust' = StrandedBy(F, worker.prev)
      BY Zenon DEF PhaseCMarkStranded
    <2> QED
      BY <1>3, <2>1 DEF StrandedBy
  <1>5. worker' \in WorkerType /\ worker'.pc = "c_clear" /\ worker'.job = worker.job
    BY GotoTyped DEF PhaseCMarkStranded, CoreInv, TypeOK, WorkerPcs
  <1>6. worker'.job \in DOMAIN jobs' /\ work' = work
    BY <1>1, <1>5, SameRow, KeptItself DEF CoreInv, PhaseCMarkStranded
  <1>7. HandlerOK' /\ DoneOnProof'
    BY <1>2, <1>5, <1>6 DEF HandlerOK, Stage, DoneOnProof
  <1>8. budget' \in BudgetType
    BY BudgetKept DEF PhaseCMarkStranded
  <1>9. TypeOK'
    BY <1>4, <1>5, <1>8
       DEF PhaseCMarkStranded, CoreInv, TypeOK, radios, TrustRow, BudgetType
  <1> QED
    BY <1>7, <1>9 DEF PhaseCMarkStranded, CoreInv, RetryOK, radios

(* The raw PSK is cleared and the hook rebuilt.                            *)
LEMMA PhaseCClearKeeps ==
    ASSUME CoreInv, PhaseCClear
    PROVE  CoreInv'
  <1>1. worker.pc = "c_clear" /\ worker.pc \notin Resting0
    BY DEF PhaseCClear, At, Resting0
  <1>2. work.rot \in Rotations
    BY <1>1, WorkFits DEF CoreInv, Stage, Fits
  <1>3. NoSnap \in Snaps
    BY DEF NoSnap, Snaps
  <1>4. rotation' \in RotationTable
    <2>1. rotation \in RotationTable
      BY DEF CoreInv, TypeOK, RotationTable
    <2>2. [rotation EXCEPT ![work.rot].stored = FALSE] \in RotationTable
      BY <1>2, <1>3, <2>1, RotationWritten, Zenon
    <2> QED
      BY <2>1, <2>2, Zenon DEF PhaseCClear
  <1>5. hook' \subseteq Psks
    BY HookOfCache DEF PhaseCClear, CoreInv, TypeOK, CacheRow
  <1>6. worker' \in WorkerType /\ HandlerOK' /\ DoneOnProof'
    BY <1>1, HandlerReturns DEF CoreInv, TypeOK, PhaseCClear
  <1>7. budget' \in BudgetType
    BY BudgetKept DEF PhaseCClear
  <1>8. TypeOK'
    BY <1>4, <1>5, <1>6, <1>7
       DEF PhaseCClear, CoreInv, TypeOK, radios, RotationTable, BudgetType
  <1> QED
    BY <1>6, <1>8 DEF PhaseCClear, CoreInv, RetryOK, radios

-----------------------------------------------------------------------------
(* recover_stranded.                                                       *)

(* Recovery ends at once or migrates to the Pi's PSK.                      *)
LEMMA RecoverStartKeeps ==
    ASSUME CoreInv, RecoverStart
    PROVE  CoreInv'
  <1>1. worker.pc \notin Resting0 /\ work.kind = "recover_stranded"
    BY DEF RecoverStart, Running, At, Resting0
  <1>2. work.node \in Nodes
    BY <1>1, WorkFits DEF CoreInv, Fits
  <1>3. PrimarySlot \in WorkSlots /\ 1 - PrimarySlot \in WorkSlots /\ PiPsk \in Psks
    BY PrimaryFound DEF CoreInv, RecoverStart
  <1>4. CASE PiPsk = work.prev
    <2>1. trust' \in [Nodes -> TrustRow]
      <3> PICK row \in TrustRow : row = trust[work.node]
        BY <1>2 DEF CoreInv, TypeOK, TrustRow
      <3> DEFINE new == [row EXCEPT !.stranded = FALSE]
      <3>1. new \in TrustRow
        BY DEF TrustRow
      <3>2. trust' \in {trust, [trust EXCEPT ![work.node] = new]}
        BY <1>4, Zenon DEF RecoverStart, ClearStranded
      <3> HIDE DEF new
      <3> QED
        BY <1>2, <3>1, <3>2 DEF CoreInv, TypeOK, TrustRow
    <2>2. worker' \in WorkerType /\ HandlerOK' /\ DoneOnProof'
      BY <1>1, <1>4, HandlerReturns DEF CoreInv, TypeOK, RecoverStart
    <2>3. budget' \in BudgetType
      BY <1>4, BudgetKept DEF RecoverStart
    <2>4. TypeOK'
      BY <2>1, <2>2, <2>3 DEF RecoverStart, CoreInv, TypeOK, radios, TrustRow, BudgetType
    <2> QED
      BY <2>2, <2>4 DEF RecoverStart, CoreInv, RetryOK, radios
  <1>5. CASE PiPsk # work.prev
    <2>1. /\ trust' = trust /\ budget' = budget
          /\ worker' = [worker EXCEPT !.pc = "frames", !.psk = PiPsk,
                                      !.staging = 1 - PrimarySlot, !.old = PrimarySlot]
      BY <1>5 DEF RecoverStart
    <2>2. /\ worker' \in WorkerType /\ worker'.pc = "frames" /\ worker'.job = worker.job
          /\ worker'.staging = 1 - PrimarySlot
      BY <1>3, <2>1 DEF CoreInv, TypeOK, WorkerType, WorkerPcs
    <2>3. worker'.job \in DOMAIN jobs' /\ work' = work
      BY <1>1, <2>2, SameRow, KeptItself DEF CoreInv, RecoverStart
    <2>4. HandlerOK' /\ DoneOnProof'
      BY <1>1, <1>3, <2>2, <2>3 DEF HandlerOK, Stage, DoneOnProof
    <2>5. TypeOK'
      BY <2>1, <2>2 DEF RecoverStart, CoreInv, TypeOK, radios
    <2> QED
      BY <2>4, <2>5 DEF RecoverStart, CoreInv, RetryOK, radios
  <1> QED
    BY <1>4, <1>5

(* Recovery clears the flag on success.                                    *)
LEMMA RecoverRecordKeeps ==
    ASSUME CoreInv, RecoverRecord
    PROVE  CoreInv'
  <1> DEFINE n == work.node
  <1>1. worker.pc = "r_record" /\ worker.pc \notin Resting0
    BY DEF RecoverRecord, At, Resting0
  <1>2. n \in Nodes /\ worker.psk \in Psks \cup {NoPsk}
    BY <1>1, WorkFits DEF CoreInv, Stage, Fits, TypeOK, WorkerType
  <1> PICK row \in TrustRow : row = trust[n]
    BY <1>2 DEF CoreInv, TypeOK, TrustRow
  <1>3. trust' \in [Nodes -> TrustRow]
    <2> DEFINE new == [row EXCEPT !.fp = worker.psk, !.stranded = FALSE]
               stamped == [row EXCEPT !.fp = worker.psk]
               cleared == [row EXCEPT !.stranded = FALSE]
    <2>1. {new, stamped, cleared} \subseteq TrustRow
      BY <1>2 DEF TrustRow
    <2>2. trust' \in {trust, [trust EXCEPT ![n] = new], [trust EXCEPT ![n] = stamped],
                      [trust EXCEPT ![n] = cleared]}
      BY <1>2 DEF RecoverRecord, ClearStranded, CoreInv, TypeOK
    <2> HIDE DEF new, stamped, cleared
    <2> QED
      BY <1>2, <2>1, <2>2 DEF CoreInv, TypeOK, TrustRow
  <1>4. worker' \in WorkerType /\ HandlerOK' /\ DoneOnProof'
    BY <1>1, HandlerReturns DEF CoreInv, TypeOK, RecoverRecord
  <1>5. budget' \in BudgetType
    BY BudgetKept DEF RecoverRecord
  <1>6. TypeOK'
    BY <1>3, <1>4, <1>5
       DEF RecoverRecord, CoreInv, TypeOK, radios, TrustRow, BudgetType
  <1> QED
    BY <1>4, <1>6 DEF RecoverRecord, CoreInv, RetryOK, radios

-----------------------------------------------------------------------------
(* CoreInv is an invariant, whatever the operator does.                    *)

(* CoreInv holds at the start ...                                          *)
LEMMA InitCore == Init => CoreInv
  <1> SUFFICES ASSUME Init PROVE CoreInv
    OBVIOUS
  <1>1. NoSnap \in Snaps
    BY DEF NoSnap, Snaps
  <1>2. /\ pi \in PiType /\ PrimaryOK(pi)
    <2>1. 0 \in Psks
      BY BoundAssumption DEF Psks
    <2>2. pi \in PiType
      BY <2>1 DEF Init, PiType
    <2>3. \A s \in Slots : pi[s].role = "primary" => s = 0 /\ pi[s].psk = 0
      BY DEF Init
    <2> QED
      BY <2>1, <2>2, <2>3 DEF PrimaryOK, WorkSlots
  <1>3. remote \in RemoteType /\ rotation \in RotationTable /\ trust \in [Nodes -> TrustRow]
    <2>1. 0 \in Psks
      BY BoundAssumption DEF Psks
    <2>2. remote \in RemoteType
      BY <2>1 DEF Init, RemoteType, WorkSlots
    <2>3. rotation \in RotationTable
      BY <1>1 DEF Init, RotationTable, RotationType, Snaps
    <2>4. trust \in [Nodes -> TrustRow]
      BY DEF Init, TrustRow
    <2> QED
      BY <2>2, <2>3, <2>4
  <1>4. worker \in WorkerType /\ worker.pc = "idle"
    BY <1>1 DEF Init, Resting, WorkerType, WorkerPcs, Snaps
  <1>5. JobsOK(jobs)
    BY DEF Init, JobsOK
  <1>6. retry \in [rot : 0 .. MaxRotations, snap : Snaps, piDone : BOOLEAN]
    BY <1>1, BoundAssumption DEF Init, NoRetry
  <1>7. budget \in BudgetType
    BY BoundAssumption DEF Init, BudgetType
  <1>8. /\ cache \in Seq(CacheRow) /\ hook \subseteq Psks /\ missed \subseteq Psks
        /\ channelFp \in Psks \cup {NoPsk}
    BY DEF Init
  <1>9. TypeOK
    BY <1>2, <1>3, <1>4, <1>5, <1>6, <1>7, <1>8
       DEF TypeOK, PiType, RemoteType, RotationTable, TrustRow, JobsOK, JobRow, Snaps,
           BudgetType, CacheRow
  <1>10. HandlerOK /\ DoneOnProof
    BY <1>4 DEF HandlerOK, DoneOnProof, Resting0
  <1> QED
    BY <1>2, <1>5, <1>9, <1>10 DEF CoreInv, RetryOK, Init

(* ... and after every step ...                                            *)
LEMMA NextCore == CoreInv /\ [Next]_vars => CoreInv'
  <1> SUFFICES ASSUME CoreInv, [Next]_vars PROVE CoreInv'
    OBVIOUS
  <1>1. CASE Operator
    BY <1>1, RotatePSKKeeps, RetireOldPSKKeeps, RetryReadKeeps, RetryWriteKeeps,
       VerifyTrustKeeps, ObserveKeeps, CancelStrandedKeeps DEF Operator
  <1>2. CASE \E n \in Nodes : ObserveInboundPacket(n)
    BY <1>2, ObserveKeeps
  <1>3. CASE Lease \/ CloseJob \/ Crash \/ \E quick \in BOOLEAN : Restart(quick)
    BY <1>3, LeaseKeeps, CloseJobKeeps, CrashKeeps, RestartKeeps
  <1>4. CASE PhaseAFails \/ PhaseAEnqueueFails \/ PhaseBSkips \/ PhaseCSkips \/ RecoverFails
    <2>1. /\ worker.pc \notin Resting0 /\ Return
          /\ SpendRadio \/ SpendDb \/ UNCHANGED budget
      BY <1>4 DEF PhaseAFails, PhaseAEnqueueFails, PhaseBSkips, PhaseCSkips, RecoverFails,
                  Running, At, Resting0
    <2> QED
      BY <2>1, ReturnKeeps
  <1>5. CASE \/ PhaseAPick \/ PhaseAStage \/ PhaseAStageFails \/ PhaseAChannel \/ PhaseAEnqueue
             \/ MigrateSend \/ MigrateNoSession \/ MigrateVerify
    BY <1>5, PhaseAPickKeeps, PhaseAStageKeeps, PhaseAStageFailsKeeps, PhaseAChannelKeeps,
       PhaseAEnqueueKeeps, MigrateSendKeeps, MigrateEndKeeps
  <1>6. CASE \/ PhaseBStart \/ PhaseBRecord \/ PhaseBStamp
             \/ PhaseCNothingToMigrate \/ PhaseCStart \/ PhaseCPromote \/ PhaseCPromoteFails
    BY <1>6, PhaseBStartKeeps, PhaseBRecordKeeps, PhaseBStampKeeps,
       PhaseCNothingToMigrateKeeps, PhaseCStartKeeps, PhaseCPromoteKeeps, PhaseCPromoteFailsKeeps
  <1>7. CASE \/ PhaseCRetire \/ PhaseCRetireFails \/ PhaseCMarkStranded \/ PhaseCClear
             \/ RecoverStart \/ RecoverRecord
    BY <1>7, PhaseCRetireKeeps, PhaseCRetireFailsKeeps, PhaseCMarkStrandedKeeps, PhaseCClearKeeps, RecoverStartKeeps,
       RecoverRecordKeeps
  <1>8. CASE UNCHANGED vars
    <2>1. HandlerOK' /\ DoneOnProof' /\ JobsOK(jobs')
      BY <1>8, WorkerStands, KeptItself DEF CoreInv, vars
    <2>2. TypeOK'
      BY <1>8 DEF CoreInv, TypeOK, vars
    <2> QED
      BY <1>8, <2>1, <2>2 DEF CoreInv, RetryOK, vars
  <1> QED
    BY <1>1, <1>2, <1>3, <1>4, <1>5, <1>6, <1>7, <1>8 DEF Next, Handler

(* ... hence always.                                                       *)
LEMMA Core == Spec => []CoreInv
  BY InitCore, NextCore, PTL DEF Spec

(* The tables, the radios and the worker keep their types.                 *)
THEOREM TypeCorrect == Spec => []TypeOK
  <1>1. CoreInv => TypeOK
    BY DEF CoreInv
  <1> QED
    BY <1>1, Core, PTL

(* Whatever frames and answers are lost and whoever writes the tables in   *)
(* between, migrateRemoteAtomic's success is recorded for the node of the  *)
(* row that runs, and that node is on the recorded PSK and slot until the  *)
(* record is complete.                                                     *)
THEOREM DoneProof == Spec => []DoneOnProof
  <1>1. CoreInv => DoneOnProof
    BY DEF CoreInv
  <1> QED
    BY <1>1, Core, PTL

-----------------------------------------------------------------------------
(* How many Phase B rows a node has.                                       *)

(* A node's pending rows can be counted.                                   *)
LEMMA RowsCounted ==
    ASSUME CoreInv, NEW n
    PROVE  IsFiniteSet(PhaseBRows(n)) /\ Cardinality(PhaseBRows(n)) \in Nat
  <1>1. Len(jobs) \in Nat /\ DOMAIN jobs = 1 .. Len(jobs)
    BY TableShape DEF CoreInv, JobsOK
  <1>2. IsFiniteSet(DOMAIN jobs)
    BY <1>1, FS_Interval
  <1>3. PhaseBRows(n) \in SUBSET DOMAIN jobs
    BY DEF PhaseBRows
  <1> QED
    BY <1>2, <1>3, FS_Subset, FS_CardinalityType

(* Failed database statements are counted up, never down.                  *)
FaultsGrow == budget.db \in Nat /\ budget'.db \in Nat /\ budget.db <= budget'.db

(* Any step of the budget counts faults.                                   *)
LEMMA FaultsCounted ==
    ASSUME CoreInv, [Next]_vars
    PROVE  FaultsGrow /\ (SpendDb => budget'.db = budget.db + 1)
  <1> PICK b \in BudgetType : b = budget
    BY DEF CoreInv, TypeOK, BudgetType
  <1>1. b.db \in Nat
    BY BoundAssumption DEF BudgetType
  <1>2. \/ UNCHANGED budget \/ SpendRadio \/ SpendDb
        \/ \E x : \/ budget' = [budget EXCEPT !.retries = x]
                  \/ budget' = [budget EXCEPT !.frames = x]
                  \/ budget' = [budget EXCEPT !.crashes = x]
    <2>1. CASE Operator \/ \E n \in Nodes : ObserveInboundPacket(n)
      BY <2>1, Zenon DEF Operator, RotatePSK, RetireOldPSK, RetryRead, RetryWrite, VerifyTrust,
         ForceRecoverStranded, CancelStranded, ObserveInboundPacket
    <2>2. CASE Lease \/ CloseJob \/ Crash \/ \E quick \in BOOLEAN : Restart(quick)
      BY <2>2, Zenon DEF Lease, CloseJob, Crash, Restart
    <2>3. CASE \/ PhaseAFails \/ PhaseAPick \/ PhaseAStage \/ PhaseAStageFails
               \/ PhaseAChannel \/ PhaseAEnqueue \/ PhaseAEnqueueFails
      BY <2>3, Zenon DEF PhaseAFails, PhaseAPick, PhaseAStage, PhaseAStageFails,
         PhaseAChannel, PhaseAEnqueue, PhaseAEnqueueFails
    <2>4. CASE MigrateSend \/ MigrateNoSession \/ MigrateVerify
      BY <2>4, Zenon DEF MigrateSend, MigrateNoSession, MigrateVerify
    <2>5. CASE PhaseBSkips \/ PhaseBStart \/ PhaseBRecord \/ PhaseBStamp
      BY <2>5, Zenon DEF PhaseBSkips, PhaseBStart, PhaseBRecord, PhaseBStamp, TransitionTarget
    <2>6. CASE \/ PhaseCNothingToMigrate \/ PhaseCSkips \/ PhaseCStart \/ PhaseCPromote
               \/ PhaseCPromoteFails \/ PhaseCRetire \/ PhaseCRetireFails
               \/ PhaseCMarkStranded \/ PhaseCClear
      BY <2>6, Zenon DEF PhaseCNothingToMigrate, PhaseCSkips, PhaseCStart, PhaseCPromote,
         PhaseCPromoteFails, PhaseCRetire, PhaseCRetireFails, PhaseCMarkStranded, PhaseCClear
    <2>7. CASE RecoverFails \/ RecoverStart \/ RecoverRecord
      BY <2>7, Zenon DEF RecoverFails, RecoverStart, RecoverRecord
    <2>8. CASE UNCHANGED vars
      BY <2>8 DEF vars
    <2> QED
      BY <2>1, <2>2, <2>3, <2>4, <2>5, <2>6, <2>7, <2>8 DEF Next, Handler
  <1>3. SpendDb => budget'.db = b.db + 1
    BY DEF SpendDb, BudgetType
  <1>4. budget'.db = b.db \/ SpendDb
    BY <1>2 DEF SpendRadio, BudgetType
  <1> QED
    BY <1>1, <1>3, <1>4 DEF FaultsGrow

(* The rows that a step leaves as they are, as to their work.              *)
SameWork == DOMAIN jobs' = DOMAIN jobs /\ \A j \in DOMAIN jobs : jobs'[j].work = jobs[j].work

(* Apart from Phase A, a step inserts no Phase B row.                      *)
LEMMA OtherSteps ==
    ASSUME CoreInv, [Next]_vars
    PROVE  \/ SameWork \/ PhaseAEnqueue
           \/ \E w \in WorkType : /\ Fits(w) /\ w.kind # "rotate_phase_b"
                                  /\ jobs' = EnqueueRow(jobs, w)
           \/ worker.job \in DOMAIN jobs /\ jobs' = RemoveAt(jobs, worker.job)
  <1>0. jobs' = jobs => SameWork
    BY DEF SameWork
  <1>1. ASSUME NEW r \in Rotations, NEW T \in SUBSET Nodes, RotatePSK(r, T)
        PROVE  \/ SameWork
               \/ \E w \in WorkType : /\ Fits(w) /\ w.kind # "rotate_phase_b"
                                      /\ jobs' = EnqueueRow(jobs, w)
    <2>1. PhaseAWork(r) \in WorkType /\ Fits(PhaseAWork(r)) /\ PhaseAWork(r).kind # "rotate_phase_b"
      BY DEF PhaseAWork, WorkType, Fits, Rotations
    <2>2. jobs' = jobs \/ jobs' = EnqueueRow(jobs, PhaseAWork(r))
      BY <1>1, Zenon DEF RotatePSK
    <2> QED
      BY <1>0, <2>1, <2>2, Zenon
  <1>2. ASSUME NEW r \in Rotations, RetireOldPSK(r)
        PROVE  \E w \in WorkType : /\ Fits(w) /\ w.kind # "rotate_phase_b"
                                   /\ jobs' = EnqueueRow(jobs, w)
    <2> DEFINE w == PhaseCWork(r, rotation[r].staging)
    <2>1. rotation[r].staging \in WorkSlots
      BY <1>2 DEF RetireOldPSK, CoreInv, TypeOK, RotationType
    <2>2. w \in WorkType /\ Fits(w) /\ w.kind # "rotate_phase_b"
      BY <2>1 DEF PhaseCWork, WorkType, Fits, Rotations
    <2>3. jobs' = EnqueueRow(jobs, w)
      BY <1>2, Zenon DEF RetireOldPSK
    <2> QED
      BY <2>2, <2>3, Zenon
  <1>3. ASSUME RetryWrite
        PROVE  \/ SameWork
               \/ \E w \in WorkType : /\ Fits(w) /\ w.kind # "rotate_phase_b"
                                      /\ jobs' = EnqueueRow(jobs, w)
    <2> DEFINE r == retry.rot
    <2>1. r \in Rotations
      BY <1>3 DEF RetryWrite, CoreInv, RetryOK
    <2>2. PhaseAWork(r) \in WorkType /\ Fits(PhaseAWork(r)) /\ PhaseAWork(r).kind # "rotate_phase_b"
      BY <2>1 DEF PhaseAWork, WorkType, Fits, Rotations
    <2>3. jobs' = jobs \/ jobs' = EnqueueRow(jobs, PhaseAWork(r))
      BY <1>3, Zenon DEF RetryWrite
    <2> QED
      BY <1>0, <2>2, <2>3, Zenon
  <1>4. ASSUME NEW n \in Nodes, ForceRecoverStranded(n) \/ ObserveInboundPacket(n)
        PROVE  \E w \in WorkType : /\ Fits(w) /\ w.kind # "rotate_phase_b"
                                   /\ jobs' = EnqueueRow(jobs, w)
    <2>1. trust[n].prev \in Psks \cup {NoPsk} /\ remote[n].psk \in Psks \cup {NoPsk}
      BY DEF CoreInv, TypeOK
    <2>2. PICK prev \in Psks \cup {NoPsk} : EnqueueRecovery(n, prev)
      BY <1>4, <2>1 DEF ObserveInboundPacket, ForceRecoverStranded
    <2> DEFINE w == RecoverWork(n, prev)
    <2>3. w \in WorkType /\ Fits(w) /\ w.kind # "rotate_phase_b"
      BY BoundAssumption DEF RecoverWork, WorkType, Fits
    <2>4. jobs' = EnqueueRow(jobs, w)
      BY <2>2, Zenon DEF EnqueueRecovery
    <2> QED
      BY <2>3, <2>4, Zenon
  <1>5. CASE Lease
    <2>1. PICK j \in DOMAIN jobs : jobs' = LeaseRow(jobs, j)
      BY <1>5 DEF Lease
    <2> QED
      BY <2>1, JobsLeased DEF CoreInv, SameWork, Kept
  <1>6. CASE CloseJob
    <2>1. worker.job \in DOMAIN jobs
      BY <1>6 DEF CoreInv, HandlerOK, CloseJob, At, Resting0
    <2> QED
      BY <1>0, <1>6, <2>1, Zenon DEF CloseJob
  <1>7. ASSUME NEW quick \in BOOLEAN, Restart(quick)
        PROVE  SameWork
    <2> DEFINE new == ResumeStaleLeases(AgeRows(jobs, 1), 0)
    <2>1. Kept(jobs, new) /\ DOMAIN new = DOMAIN jobs
      BY JobsResumed DEF CoreInv
    <2> HIDE DEF new
    <2>2. jobs' = jobs \/ jobs' = new
      BY <1>7 DEF Restart, new
    <2> QED
      BY <1>0, <2>1, <2>2 DEF SameWork, Kept
  <1>8. CASE Crash \/ UNCHANGED vars \/ (Handler /\ ~PhaseAEnqueue)
    BY <1>0, <1>8, Zenon
       DEF Crash, vars, Handler, Return, PhaseAFails, PhaseAPick, PhaseAStage, PhaseAStageFails,
           PhaseAChannel, PhaseAEnqueueFails, MigrateSend, MigrateNoSession, MigrateVerify,
           PhaseBSkips, PhaseBStart, PhaseBRecord, PhaseBStamp, PhaseCNothingToMigrate,
           PhaseCSkips, PhaseCStart, PhaseCPromote, PhaseCPromoteFails, PhaseCRetire,
           PhaseCRetireFails, PhaseCMarkStranded, PhaseCClear, RecoverFails, RecoverStart,
           RecoverRecord
  <1>9. CASE Operator
    <2>1. ASSUME \E r \in Rotations, W \in SUBSET Nodes : RetryRead(r, W)
          PROVE  SameWork
      BY <1>0, <2>1 DEF RetryRead
    <2>2. ASSUME \E n \in Nodes : VerifyTrust(n) \/ CancelStranded(n)
          PROVE  SameWork
      BY <1>0, <2>2 DEF VerifyTrust, CancelStranded
    <2> QED
      BY <1>1, <1>2, <1>3, <1>4, <1>9, <2>1, <2>2, Zenon DEF Operator
  <1> QED
    BY <1>4, <1>5, <1>6, <1>7, <1>8, <1>9, Zenon DEF Next

(* Phase A's insert adds one row, to a node that has none or against a     *)
(* failed check.                                                           *)
LEMMA PhaseAEnqueueRows ==
    ASSUME CoreInv, OnePhaseBPerNode, [Next]_vars, PhaseAEnqueue, NEW n \in Nodes
    PROVE  Cardinality(PhaseBRows(n)') <= 1 + budget'.db
  <1>1. worker.pc = "a_enqueue" /\ worker.pc \notin Resting0
    BY DEF PhaseAEnqueue, At, Resting0
  <1>2. work.rot \in Rotations /\ worker.staging \in WorkSlots
    BY <1>1, WorkFits DEF CoreInv, Stage, Fits
  <1>3. /\ Cardinality(PhaseBRows(n)) <= 1 + budget.db /\ FaultsGrow
        /\ IsFiniteSet(PhaseBRows(n)) /\ Cardinality(PhaseBRows(n)) \in Nat
    BY FaultsCounted, RowsCounted DEF OnePhaseBPerNode
  <1>4. PICK m \in worker.todo :
           \/ jobs' = (IF Debounces(m) THEN jobs ELSE EnqueuePhaseB(m))
           \/ jobs' = EnqueuePhaseB(m) /\ SpendDb
    BY Zenon DEF PhaseAEnqueue
  <1>5. CASE jobs' = jobs
    <2>1. PhaseBRows(n)' = PhaseBRows(n)
      BY <1>5 DEF PhaseBRows
    <2> QED
      BY <1>3, <2>1 DEF FaultsGrow
  <1>6. CASE jobs' = EnqueuePhaseB(m) /\ (~Debounces(m) \/ SpendDb)
    <2> DEFINE w == PhaseBWork(work.rot, m, worker.staging, worker.old)
               k == Len(jobs) + 1
    <2>1. m \in Nodes /\ worker.old \in WorkSlots \cup {NoSlot}
      BY DEF CoreInv, TypeOK, WorkerType
    <2>2. w \in WorkType /\ Fits(w) /\ w.node = m /\ w.kind = "rotate_phase_b"
      BY <1>2, <2>1 DEF PhaseBWork, WorkType, Fits, Rotations
    <2>3. jobs' = EnqueueRow(jobs, w)
      BY <1>6 DEF EnqueuePhaseB
    <2> HIDE DEF w
    <2>4. /\ DOMAIN jobs' = DOMAIN jobs \cup {k} /\ jobs'[k].work = w
          /\ \A j \in DOMAIN jobs : jobs'[j].work = jobs[j].work
      BY <2>2, <2>3, JobsGrow DEF CoreInv, Kept
    <2> HIDE DEF k
    <2>5. CASE n # m
      <3>1. PhaseBRows(n)' \subseteq PhaseBRows(n)
        BY <2>2, <2>4, <2>5 DEF PhaseBRows
      <3>2. Cardinality(PhaseBRows(n)') <= Cardinality(PhaseBRows(n))
        BY <1>3, <3>1, FS_Subset
      <3>3. IsFiniteSet(PhaseBRows(n)')
        BY <1>3, <3>1, FS_Subset
      <3>4. Cardinality(PhaseBRows(n)') \in Nat
        BY <3>3, FS_CardinalityType
      <3> QED
        BY <1>3, <3>2, <3>4 DEF FaultsGrow
    <2>6. CASE n = m
      <3>1. PhaseBRows(n)' \subseteq PhaseBRows(n) \cup {k}
        BY <2>4 DEF PhaseBRows
      <3>2. /\ IsFiniteSet(PhaseBRows(n) \cup {k})
            /\ Cardinality(PhaseBRows(n) \cup {k}) <= Cardinality(PhaseBRows(n)) + 1
        <4>1. /\ IsFiniteSet(PhaseBRows(n) \cup {k})
              /\ Cardinality(PhaseBRows(n) \cup {k}) =
                    IF k \in PhaseBRows(n) THEN Cardinality(PhaseBRows(n))
                    ELSE Cardinality(PhaseBRows(n)) + 1
          BY <1>3, FS_AddElement
        <4> QED
          BY <1>3, <4>1
      <3>3. /\ Cardinality(PhaseBRows(n)') <= Cardinality(PhaseBRows(n) \cup {k})
            /\ IsFiniteSet(PhaseBRows(n)')
        BY <3>1, <3>2, FS_Subset
      <3>4. /\ Cardinality(PhaseBRows(n)') \in Nat
            /\ Cardinality(PhaseBRows(n) \cup {k}) \in Nat
        BY <3>2, <3>3, FS_CardinalityType
      <3>5. CASE SpendDb
        <4>1. budget'.db = budget.db + 1
          BY <3>5, FaultsCounted
        <4> QED
          BY <1>3, <3>2, <3>3, <3>4, <4>1 DEF FaultsGrow
      <3>6. CASE ~Debounces(m)
        <4>1. \A j \in DOMAIN jobs : jobs[j].state \in PendingStates
          BY DEF CoreInv, JobsOK
        <4>2. PhaseBRows(n) = {}
          BY <2>6, <3>6, <4>1 DEF Debounces, HasPendingFor, PhaseBRows
        <4>3. Cardinality(PhaseBRows(n)) = 0
          BY <4>2, FS_EmptySet
        <4> QED
          BY <1>3, <3>2, <3>3, <3>4, <4>3 DEF FaultsGrow
      <3> QED
        BY <1>6, <3>5, <3>6
    <2> QED
      BY <2>5, <2>6
  <1> QED
    BY <1>4, <1>5, <1>6

(* A step keeps the bound.                                                 *)
LEMMA RowsStep ==
    ASSUME CoreInv, OnePhaseBPerNode, [Next]_vars
    PROVE  OnePhaseBPerNode'
  <1> SUFFICES ASSUME NEW n \in Nodes
               PROVE  Cardinality(PhaseBRows(n)') <= 1 + budget'.db
    BY DEF OnePhaseBPerNode
  <1>1. /\ Cardinality(PhaseBRows(n)) <= 1 + budget.db /\ FaultsGrow
        /\ IsFiniteSet(PhaseBRows(n)) /\ Cardinality(PhaseBRows(n)) \in Nat
    BY FaultsCounted, RowsCounted DEF OnePhaseBPerNode
  <1>2. ASSUME NEW f \in Injection(PhaseBRows(n)', PhaseBRows(n))
        PROVE  Cardinality(PhaseBRows(n)') <= 1 + budget'.db
    <2>1. /\ IsFiniteSet(PhaseBRows(n)')
          /\ Cardinality(PhaseBRows(n)') <= Cardinality(PhaseBRows(n))
      BY <1>1, FS_Injection
    <2>2. Cardinality(PhaseBRows(n)') \in Nat
      BY <2>1, FS_CardinalityType
    <2> QED
      BY <1>1, <2>1, <2>2 DEF FaultsGrow
  <1>3. ASSUME PhaseBRows(n)' \subseteq PhaseBRows(n)
        PROVE  Cardinality(PhaseBRows(n)') <= 1 + budget'.db
    <2> DEFINE f == [j \in PhaseBRows(n)' |-> j]
    <2>1. f \in Injection(PhaseBRows(n)', PhaseBRows(n))
      BY <1>3 DEF Injection, IsInjective
    <2> QED
      BY <1>2, <2>1
  <1>4. CASE SameWork
    <2>1. PhaseBRows(n)' \subseteq PhaseBRows(n)
      BY <1>4 DEF SameWork, PhaseBRows
    <2> QED
      BY <1>3, <2>1
  <1>5. ASSUME NEW w \in WorkType, Fits(w), w.kind # "rotate_phase_b", jobs' = EnqueueRow(jobs, w)
        PROVE  Cardinality(PhaseBRows(n)') <= 1 + budget'.db
    <2>1. /\ DOMAIN jobs' = DOMAIN jobs \cup {Len(jobs) + 1} /\ jobs'[Len(jobs) + 1].work = w
          /\ \A j \in DOMAIN jobs : jobs'[j].work = jobs[j].work
      BY <1>5, JobsGrow DEF CoreInv, Kept
    <2>2. PhaseBRows(n)' \subseteq PhaseBRows(n)
      BY <1>5, <2>1 DEF PhaseBRows
    <2> QED
      BY <1>3, <2>2
  <1>6. CASE worker.job \in DOMAIN jobs /\ jobs' = RemoveAt(jobs, worker.job)
    <2> DEFINE was(i) == IF i < worker.job THEN i ELSE i + 1
               f == [j \in PhaseBRows(n)' |-> was(j)]
    <2>1. /\ \A i \in DOMAIN jobs' : was(i) \in DOMAIN jobs /\ jobs'[i] = jobs[was(i)]
          /\ \A i, j \in DOMAIN jobs' : was(i) = was(j) => i = j
      BY <1>6, JobsShrink DEF CoreInv
    <2> HIDE DEF was
    <2>2. f \in Injection(PhaseBRows(n)', PhaseBRows(n))
      BY <2>1 DEF Injection, IsInjective, PhaseBRows
    <2> QED
      BY <1>2, <2>2
  <1> QED
    BY <1>4, <1>5, <1>6, OtherSteps, PhaseAEnqueueRows

(* However retries, re-leases after crashes and overlapping rotations      *)
(* interleave, HasPendingFor's debounce in Phase A leaves a node one       *)
(* pending Phase B row, and one more for each check that the database      *)
(* failed and handlePhaseA only logged.                                    *)
THEOREM OnePhaseB == Spec => []OnePhaseBPerNode
  <1>1. Init => OnePhaseBPerNode
    <2> SUFFICES ASSUME Init, NEW n \in Nodes
                 PROVE  Cardinality(PhaseBRows(n)) <= 1 + budget.db
      BY DEF OnePhaseBPerNode
    <2>1. PhaseBRows(n) = {} /\ budget.db = 0
      BY DEF Init, PhaseBRows
    <2> QED
      BY <2>1, FS_EmptySet
  <1>2. CoreInv /\ OnePhaseBPerNode /\ [Next]_vars => OnePhaseBPerNode'
    BY RowsStep
  <1> QED
    BY <1>1, <1>2, Core, PTL DEF Spec

-----------------------------------------------------------------------------
(* OrderInv, where one rotation follows the other.                         *)

(* What the rotations' course is made of stays the same.                   *)
SameCourse ==
    \A r \in Rotations : /\ rotation'[r].opened = rotation[r].opened
                         /\ rotation'[r].staging = rotation[r].staging
                         /\ rotation'[r].piPhase = rotation[r].piPhase

(* Rotations advance: a staging slot, once picked, is pinned.              *)
Advances ==
    \A r \in Rotations : /\ rotation[r].opened => rotation'[r].opened
                         /\ ~Pending(r) => ~Pending(r)'
                         /\ rotation[r].staging # NoSlot
                               => rotation'[r].staging = rotation[r].staging

(* No row is new.                                                          *)
OldRows == \A j \in DOMAIN jobs' : \E i \in DOMAIN jobs : jobs'[j].work = jobs[i].work

(* Every row is an old one or in turn.                                     *)
RowsFollow ==
    \A j \in DOMAIN jobs' : \/ \E i \in DOMAIN jobs : jobs'[j].work = jobs[i].work
                            \/ RowInTurn(rotation', jobs'[j].work)

(* Where the worker relies on what it has read of the rotation or the Pi.  *)
Watching == {"a_stage", "c_radio", "c_retire"}

(* An untouched radio has its PRIMARY where it was.                        *)
LEMMA SamePrimary ==
    ASSUME pi' = pi
    PROVE  PrimarySlot' = PrimarySlot /\ PiPsk' = PiPsk /\ (HasPrimary => HasPrimary')
  <1>1. PrimarySlot' = PrimarySlot
    BY Zenon DEF PrimarySlot
  <1> QED
    BY <1>1 DEF PiPsk, HasPrimary

(* A touched radio has it where its roles say.                             *)
LEMMA NewPrimary ==
    ASSUME PrimaryOK(pi'), NEW s \in Slots, pi'[s].role = "primary"
    PROVE  HasPrimary' /\ PrimarySlot' = s /\ PiPsk' = pi'[s].psk
  <1>1. PrimarySlot' = s
    BY PrimaryAt, Zenon DEF PrimarySlot
  <1> QED
    BY <1>1 DEF PiPsk, HasPrimary

(* A rotation that is open and not retired is the last one.                *)
LEMMA OnlyOpen ==
    ASSUME CoreInv, InTurn, NEW r \in Rotations, rotation[r].opened, ~Retired(r)
    PROVE  \A q \in Rotations :
              /\ Retired(q) => q < r
              /\ q # r => Retired(q) \/ (Pending(q) /\ rotation[q].staging = NoSlot)
  <1> SUFFICES ASSUME NEW q \in Rotations
               PROVE  /\ Retired(q) => q < r
                      /\ q # r => Retired(q) \/ (Pending(q) /\ rotation[q].staging = NoSlot)
    OBVIOUS
  <1>1. q \in Int /\ r \in Int
    BY DEF Rotations
  <1>2. Retired(q) => rotation[q].opened
    BY DEF InTurn, Retired, Pending
  <1>3. r < q => ~rotation[q].opened
    BY DEF InTurn
  <1>4. q < r => Retired(q)
    BY DEF InTurn
  <1>5. ~rotation[q].opened => Pending(q) /\ rotation[q].staging = NoSlot
    BY DEF InTurn
  <1>6. q < r \/ q = r \/ r < q
    BY <1>1
  <1> QED
    BY <1>2, <1>3, <1>4, <1>5, <1>6

(* Rows stay in turn while rotations advance.                              *)
LEMMA RowsAdvance ==
    ASSUME CoreInv, RowsInTurn, Advances,
           RowsFollow,
           \/ retry' = retry \/ retry' = NoRetry
           \/ rotation'[retry'.rot].opened
    PROVE  RowsInTurn'
  <1>1. ASSUME NEW i \in DOMAIN jobs, NEW w, w = jobs[i].work
        PROVE  RowInTurn(rotation', w)
    <2>1. Fits(w) /\ RowInTurn(rotation, w)
      BY <1>1 DEF CoreInv, JobsOK, RowsInTurn
    <2>2. CASE w.kind \in {"rotate_phase_a", "rotate_phase_c"}
      <3>1. w.rot \in Rotations
        BY <2>1, <2>2 DEF Fits
      <3>2. rotation'[w.rot].opened
        BY <2>1, <2>2, <3>1 DEF RowInTurn, Advances
      <3>3. w.kind = "rotate_phase_c" => /\ rotation'[w.rot].piPhase # "pending"
                                         /\ w.staging = rotation'[w.rot].staging
        <4> HAVE w.kind = "rotate_phase_c"
        <4>1. w.staging \in WorkSlots /\ ~Pending(w.rot) /\ w.staging = rotation[w.rot].staging
          BY <2>1 DEF Fits, RowInTurn, Pending
        <4>2. w.staging # NoSlot
          BY <4>1 DEF WorkSlots, NoSlot
        <4> QED
          BY <3>1, <4>1, <4>2 DEF Advances, Pending
      <3> QED
        BY <3>2, <3>3 DEF RowInTurn
    <2>3. CASE w.kind \notin {"rotate_phase_a", "rotate_phase_c"}
      BY <2>3 DEF RowInTurn
    <2> QED
      BY <2>2, <2>3
  <1>2. \A j \in DOMAIN jobs' : RowInTurn(rotation', jobs'[j].work)
    <2> TAKE j \in DOMAIN jobs'
    <2>1. CASE \E i \in DOMAIN jobs : jobs'[j].work = jobs[i].work
      <3> PICK i \in DOMAIN jobs : jobs'[j].work = jobs[i].work
        BY <2>1
      <3>1. RowInTurn(rotation', jobs[i].work)
        BY <1>1
      <3> QED
        BY <3>1
    <2> QED
      BY <2>1 DEF RowsFollow
  <1>3. retry' # NoRetry => rotation'[retry'.rot].opened
    <2>1. retry # NoRetry => rotation'[retry.rot].opened
      BY DEF RowsInTurn, CoreInv, RetryOK, Advances
    <2> QED
      BY <2>1
  <1> QED
    BY <1>2, <1>3 DEF RowsInTurn

(* A step that leaves the Pi's PRIMARY and the rotations' course alone.    *)
LEMMA CourseKept ==
    ASSUME CoreInv, OrderInv, SameCourse,
           pi' = pi \/ (PrimarySlot' = PrimarySlot /\ PiPsk' = PiPsk /\ HasPrimary'),
           RowsFollow,
           \/ retry' = retry \/ retry' = NoRetry
           \/ rotation'[retry'.rot].opened,
           worker'.pc \notin Watching \/ (worker' = worker /\ Kept(jobs, jobs')),
           missed \subseteq missed'
    PROVE  OrderInv'
  <1>1. PrimarySlot' = PrimarySlot /\ PiPsk' = PiPsk /\ (HasPrimary => HasPrimary')
    BY SamePrimary
  <1>2. \A r \in Rotations : Pending(r)' = Pending(r) /\ Retired(r)' = Retired(r)
    BY DEF SameCourse, Pending, Retired
  <1>3. InTurn'
    BY <1>2 DEF OrderInv, InTurn, SameCourse
  <1>4. StagesBeside'
    BY <1>1, <1>2 DEF OrderInv, StagesBeside, SameCourse
  <1>5. Advances
    BY <1>2 DEF Advances, SameCourse
  <1>6. RowsInTurn'
    BY <1>5, RowsAdvance DEF OrderInv
  <1>7. WorkerInTurn'
    <2>1. CASE worker'.pc \notin Watching
      BY <2>1 DEF WorkerInTurn, Watching
    <2>2. CASE worker' = worker /\ Kept(jobs, jobs') /\ worker.pc \in Watching
      <3>1. worker.pc \notin Resting0
        BY <2>2 DEF Watching, Resting0
      <3>2. work' = work
        BY <2>2, <3>1, SameRow DEF CoreInv
      <3>3. work.rot \in Rotations
        BY <2>2, <3>1, WorkFits DEF CoreInv, Stage, Fits, Watching
      <3>4. /\ rotation'[work.rot].staging = rotation[work.rot].staging
            /\ rotation'[work.rot].piPhase = rotation[work.rot].piPhase
        BY <3>3 DEF SameCourse
      <3> QED
        BY <1>1, <2>2, <3>2, <3>4 DEF OrderInv, WorkerInTurn, Pending
    <2> QED
      BY <2>1, <2>2
  <1>8. RetiredOrMissed'
    BY <1>1, <1>2 DEF OrderInv, RetiredOrMissed
  <1> QED
    BY <1>3, <1>4, <1>6, <1>7, <1>8 DEF OrderInv

(* RetryRotation writes targets.                                           *)
LEMMA RetryCourse ==
    ASSUME CoreInv, RetryWrite
    PROVE  SameCourse
  <1> DEFINE r == retry.rot
             new == [rotation[r] EXCEPT !.target = retry.snap, !.piDone = retry.piDone]
  <1>1. rotation' \in {rotation, [rotation EXCEPT ![r].target = retry.snap,
                                                 ![r].piDone = retry.piDone]}
    BY Zenon DEF RetryWrite
  <1>2. r \in Rotations
    BY DEF RetryWrite, CoreInv, RetryOK
  <1>3. rotation \in RotationTable /\ rotation[r] \in RotationType
    BY <1>2 DEF CoreInv, TypeOK, RotationTable
  <1>4. /\ new.opened = rotation[r].opened /\ new.staging = rotation[r].staging
        /\ new.piPhase = rotation[r].piPhase
    BY <1>3 DEF RotationType
  <1>5. rotation' = rotation \/ rotation' = [rotation EXCEPT ![r] = new]
    BY <1>1, <1>2, <1>3 DEF RotationTable
  <1> HIDE DEF new, r
  <1> QED
    BY <1>2, <1>3, <1>4, <1>5 DEF SameCourse, RotationTable

(* The operations beside the worker.                                       *)
LEMMA OperatorOrder ==
    ASSUME CoreInv, OrderInv,
           \/ \E r \in Rotations : RetireOldPSK(r) \/ \E W \in SUBSET Nodes : RetryRead(r, W)
           \/ RetryWrite
           \/ \E n \in Nodes : \/ VerifyTrust(n) \/ ForceRecoverStranded(n)
                               \/ CancelStranded(n) \/ ObserveInboundPacket(n)
    PROVE  OrderInv'
  <1>0. jobs \in Seq(JobRow)
    BY DEF CoreInv, JobsOK
  <1>1. ASSUME NEW w, jobs' = EnqueueRow(jobs, w), w \in WorkType, Fits(w),
               RowInTurn(rotation', w)
        PROVE  Kept(jobs, jobs') /\ RowsFollow
    <2> DEFINE row == [work |-> w, state |-> "queued", attempts |-> 0, age |-> 0]
    <2>1. Kept(jobs, jobs')
      BY <1>1, JobsGrow DEF CoreInv
    <2>2. row \in JobRow /\ row.work = w
      BY <1>1 DEF JobRow, RowType, JobStates
    <2>3. jobs' = Append(jobs, row)
      BY <1>1 DEF EnqueueRow
    <2> HIDE DEF row
    <2>4. Len(jobs) \in Nat /\ DOMAIN jobs = 1 .. Len(jobs)
      BY <1>0, TableShape
    <2>5. /\ jobs' \in Seq(JobRow) /\ Len(jobs') = Len(jobs) + 1
          /\ \A j \in 1 .. Len(jobs) : jobs'[j] = jobs[j]
          /\ jobs'[Len(jobs) + 1] = row
      BY <1>0, <2>2, <2>3, AppendProperties
    <2>6. DOMAIN jobs' = 1 .. Len(jobs) + 1
      BY <2>5, LenProperties
    <2>7. \A j \in DOMAIN jobs' : j \in DOMAIN jobs \/ j = Len(jobs) + 1
      BY <2>4, <2>6
    <2> QED
      BY <1>1, <2>1, <2>2, <2>4, <2>5, <2>7 DEF RowsFollow
  <1>2. ASSUME jobs' = jobs
        PROVE  Kept(jobs, jobs') /\ OldRows /\ RowsFollow
    BY <1>2 DEF Kept, OldRows, RowsFollow
  <1>3. ASSUME NEW r \in Rotations, RetireOldPSK(r)
        PROVE  OrderInv'
    <2> DEFINE w == PhaseCWork(r, rotation[r].staging)
    <2>1. rotation[r].staging \in WorkSlots
      BY <1>3 DEF RetireOldPSK, CoreInv, TypeOK, RotationType
    <2>2. w \in WorkType /\ Fits(w)
      BY <2>1 DEF PhaseCWork, WorkType, Fits, Rotations
    <2>3. RowInTurn(rotation', w)
      BY <1>3 DEF PhaseCWork, RowInTurn, RetireOldPSK, tables
    <2>4. jobs' = EnqueueRow(jobs, w)
      BY <1>3 DEF RetireOldPSK
    <2> HIDE DEF w
    <2>5. Kept(jobs, jobs') /\ RowsFollow
      BY <1>1, <2>2, <2>3, <2>4
    <2>6. SameCourse /\ pi' = pi /\ worker' = worker /\ retry' = retry /\ missed' = missed
      BY <1>3 DEF SameCourse, RetireOldPSK, radios, tables
    <2> QED
      BY <2>5, <2>6, CourseKept
  <1>4. ASSUME NEW r \in Rotations, NEW W \in SUBSET Nodes, RetryRead(r, W)
        PROVE  OrderInv'
    <2>1. Kept(jobs, jobs') /\ OldRows
      BY <1>2, <1>4 DEF RetryRead
    <2>2. SameCourse /\ pi' = pi /\ worker' = worker /\ missed' = missed
      BY <1>4 DEF SameCourse, RetryRead, radios, tables
    <2>3. rotation'[retry'.rot].opened
      BY <1>4 DEF RetryRead, tables
    <2> QED
      BY <2>1, <2>2, <2>3, CourseKept DEF OldRows, RowsFollow
  <1>5. ASSUME RetryWrite
        PROVE  OrderInv'
    <2> DEFINE r == retry.rot
    <2>1. r \in Rotations /\ rotation[r].opened
      BY <1>5 DEF RetryWrite, CoreInv, RetryOK, OrderInv, RowsInTurn
    <2>2. SameCourse
      BY <1>5, RetryCourse
    <2>3. PhaseAWork(r) \in WorkType /\ Fits(PhaseAWork(r))
      BY <2>1 DEF PhaseAWork, WorkType, Fits, Rotations
    <2>4. RowInTurn(rotation', PhaseAWork(r))
      BY <2>1, <2>2 DEF RowInTurn, PhaseAWork, SameCourse
    <2>5. jobs' = jobs \/ jobs' = EnqueueRow(jobs, PhaseAWork(r))
      BY <1>5, Zenon DEF RetryWrite
    <2>6. Kept(jobs, jobs') /\ RowsFollow
      BY <1>1, <1>2, <2>3, <2>4, <2>5
    <2>7. pi' = pi /\ worker' = worker /\ retry' = NoRetry /\ missed' = missed
      BY <1>5 DEF RetryWrite, radios
    <2> QED
      BY <2>2, <2>6, <2>7, CourseKept
  <1>6. ASSUME NEW n \in Nodes, VerifyTrust(n) \/ CancelStranded(n)
        PROVE  OrderInv'
    <2>1. Kept(jobs, jobs') /\ OldRows
      BY <1>2, <1>6 DEF VerifyTrust, CancelStranded
    <2>2. SameCourse /\ pi' = pi /\ worker' = worker /\ retry' = retry /\ missed' = missed
      BY <1>6 DEF SameCourse, VerifyTrust, CancelStranded, radios
    <2> QED
      BY <2>1, <2>2, CourseKept DEF OldRows, RowsFollow
  <1>7. ASSUME NEW n \in Nodes, ForceRecoverStranded(n) \/ ObserveInboundPacket(n)
        PROVE  OrderInv'
    <2>1. trust[n].prev \in Psks \cup {NoPsk} /\ remote[n].psk \in Psks \cup {NoPsk}
      BY DEF CoreInv, TypeOK
    <2>2. PICK prev \in Psks \cup {NoPsk} : EnqueueRecovery(n, prev)
      BY <1>7, <2>1 DEF ObserveInboundPacket, ForceRecoverStranded
    <2> DEFINE w == RecoverWork(n, prev)
    <2>3. w \in WorkType /\ Fits(w) /\ RowInTurn(rotation', w)
      BY BoundAssumption DEF RecoverWork, WorkType, Fits, RowInTurn
    <2>4. jobs' = EnqueueRow(jobs, w)
      BY <2>2 DEF EnqueueRecovery
    <2> HIDE DEF w
    <2>5. Kept(jobs, jobs') /\ RowsFollow
      BY <1>1, <2>3, <2>4
    <2>6. SameCourse /\ pi' = pi /\ worker' = worker /\ retry' = retry /\ missed' = missed
      BY <1>7 DEF SameCourse, ForceRecoverStranded, ObserveInboundPacket, radios, tables
    <2> QED
      BY <2>5, <2>6, CourseKept
  <1> QED
    BY <1>3, <1>4, <1>5, <1>6, <1>7

(* The worker's life: rows are leased, closed and resumed, never changed   *)
(* in their work.                                                          *)
LEMMA LoopOrder ==
    ASSUME CoreInv, OrderInv,
           Lease \/ CloseJob \/ Crash \/ \E quick \in BOOLEAN : Restart(quick)
    PROVE  OrderInv'
  <1>1. ASSUME NEW new, DOMAIN new = DOMAIN jobs, Kept(jobs, new), jobs' = new
        PROVE  OldRows
    BY <1>1 DEF Kept, OldRows
  <1>2. CASE Lease
    <2>1. PICK j \in DOMAIN jobs :
             jobs' = LeaseRow(jobs, j) /\ worker' = [Resting("start") EXCEPT !.job = j]
      BY <1>2 DEF Lease
    <2>2. OldRows
      BY <1>1, <2>1, JobsLeased DEF CoreInv
    <2>3. worker'.pc \notin Watching
      BY <2>1 DEF Resting, Watching
    <2>4. SameCourse /\ pi' = pi /\ retry' = retry /\ missed' = missed
      BY <1>2 DEF SameCourse, Lease, radios, tables
    <2> QED
      BY <2>2, <2>3, <2>4, CourseKept DEF OldRows, RowsFollow
  <1>3. CASE CloseJob
    <2>1. worker.job \in DOMAIN jobs
      BY <1>3 DEF CoreInv, HandlerOK, CloseJob, At, Resting0
    <2>2. OldRows
      <3>1. \A i \in DOMAIN RemoveAt(jobs, worker.job) :
               \E j \in DOMAIN jobs : RemoveAt(jobs, worker.job)[i] = jobs[j]
        BY <2>1, JobsShrink DEF CoreInv
      <3>2. jobs' = jobs \/ jobs' = RemoveAt(jobs, worker.job)
        BY <1>3, Zenon DEF CloseJob
      <3> QED
        BY <3>1, <3>2 DEF OldRows
    <2>3. worker'.pc \notin Watching
      BY <1>3 DEF Resting, Watching, CloseJob
    <2>4. SameCourse /\ pi' = pi /\ retry' = retry /\ missed' = missed
      BY <1>3 DEF SameCourse, CloseJob, radios, tables
    <2> QED
      BY <2>2, <2>3, <2>4, CourseKept DEF OldRows, RowsFollow
  <1>4. CASE Crash
    <2>1. OldRows /\ SameCourse /\ pi' = pi /\ retry' = NoRetry /\ missed' = missed
      BY <1>4 DEF OldRows, SameCourse, Crash, radios, tables
    <2>2. worker'.pc \notin Watching
      BY <1>4 DEF Resting, Watching, Crash
    <2> QED
      BY <2>1, <2>2, CourseKept DEF OldRows, RowsFollow
  <1>5. ASSUME NEW quick \in BOOLEAN, Restart(quick)
        PROVE  OrderInv'
    <2>1. OldRows
      <3> DEFINE new == ResumeStaleLeases(AgeRows(jobs, 1), 0)
      <3>1. Kept(jobs, new) /\ DOMAIN new = DOMAIN jobs
        BY JobsResumed DEF CoreInv
      <3> HIDE DEF new
      <3>3. jobs' = jobs \/ jobs' = new
        BY <1>5 DEF Restart, new
      <3> QED
        BY <1>1, <3>1, <3>3 DEF OldRows
    <2>2. SameCourse /\ pi' = pi /\ retry' = retry /\ missed' = missed
      BY <1>5 DEF SameCourse, Restart, radios, tables
    <2>3. worker'.pc \notin Watching
      BY <1>5 DEF Resting, Watching, Restart
    <2> QED
      BY <2>1, <2>2, <2>3, CourseKept DEF OldRows, RowsFollow
  <1> QED
    BY <1>2, <1>3, <1>4, <1>5

(* The steps of a handler that read or write other columns.                *)
LEMMA HandlerOrder ==
    ASSUME CoreInv, OrderInv, worker'.pc \notin Watching, jobs' = jobs, retry' = retry, SameCourse,
           missed \subseteq missed',
           pi' = pi \/ (PrimarySlot' = PrimarySlot /\ PiPsk' = PiPsk /\ HasPrimary')
    PROVE  OrderInv'
  <1>1. OldRows
    BY DEF OldRows
  <1> QED
    BY <1>1, CourseKept DEF OldRows, RowsFollow

(* Handler steps that leave radio, rotations and rows alone.               *)
LEMMA QuietOrder ==
    ASSUME CoreInv, OrderInv,
           \/ Return \/ PhaseAChannel
           \/ MigrateSend \/ MigrateNoSession \/ MigrateVerify
           \/ PhaseCMarkStranded \/ RecoverStart \/ RecoverRecord
    PROVE  OrderInv'
  <1>1. /\ pi' = pi /\ jobs' = jobs /\ retry' = retry /\ rotation' = rotation
        /\ missed' = missed
    BY Zenon DEF Return, PhaseAChannel, MigrateSend, MigrateNoSession, MigrateVerify,
           PhaseCMarkStranded, RecoverStart, RecoverRecord, radios, tables
  <1>2. worker'.pc \notin Watching
    <2>0. worker \in WorkerType
      BY DEF CoreInv, TypeOK
    <2>1. CASE Return \/ RecoverRecord
      BY <2>0, <2>1 DEF Return, RecoverRecord, Goto, Watching, WorkerType
    <2>2. CASE PhaseAChannel
      BY <2>0, <2>2 DEF PhaseAChannel, Goto, Watching, WorkerType
    <2>3. CASE MigrateSend \/ PhaseCMarkStranded
      BY <2>0, <2>3 DEF MigrateSend, PhaseCMarkStranded, Goto, Watching, WorkerType
    <2>4. CASE MigrateNoSession \/ MigrateVerify
      <3>1. RecordPc \in {"b_record", "r_record"}
        BY DEF RecordPc
      <3>2. worker'.pc = RecordPc
        BY <2>0, <2>4 DEF MigrateNoSession, MigrateVerify, WorkerType
      <3> QED
        BY <3>1, <3>2 DEF Watching
    <2>5. CASE RecoverStart
      <3>1. \/ worker' = [worker EXCEPT !.pc = "close"]
            \/ worker' = [worker EXCEPT !.pc = "frames", !.psk = PiPsk,
                                        !.staging = 1 - PrimarySlot, !.old = PrimarySlot]
        BY <2>5, Zenon DEF RecoverStart, Goto
      <3> QED
        BY <2>0, <3>1 DEF Watching, WorkerType
    <2> QED
      BY <2>1, <2>2, <2>3, <2>4, <2>5
  <1>3. SameCourse
    BY <1>1 DEF SameCourse
  <1> QED
    BY <1>1, <1>2, <1>3, HandlerOrder

(* A target's entry is no part of a rotation's course.                     *)
LEMMA EntryCourse ==
    ASSUME rotation \in RotationTable, NEW r \in Rotations, NEW n, NEW phase
    PROVE  LET new == [rotation EXCEPT ![r].target[n] = phase]
           IN  \A q \in Rotations : /\ new[q].opened = rotation[q].opened
                                    /\ new[q].staging = rotation[q].staging
                                    /\ new[q].piPhase = rotation[q].piPhase
  <1> DEFINE t == [rotation[r].target EXCEPT ![n] = phase]
             new == [rotation EXCEPT ![r].target = t]
  <1>1. [rotation EXCEPT ![r].target[n] = phase] = new
    BY Zenon
  <1> HIDE DEF t
  <1>2. \A q \in Rotations : /\ new[q].opened = rotation[q].opened
                              /\ new[q].staging = rotation[q].staging
                              /\ new[q].piPhase = rotation[q].piPhase
    BY DEF RotationTable, RotationType
  <1> QED
    BY <1>1, <1>2, Zenon

(* Phase B and ClearRotationPSK write targets and the raw PSK only.        *)
LEMMA TargetCourse ==
    ASSUME CoreInv, PhaseBStart \/ PhaseBRecord \/ PhaseBStamp \/ PhaseCClear
    PROVE  SameCourse
  <1>0. worker.pc \notin Resting0
    BY DEF PhaseBStart, PhaseBRecord, PhaseBStamp, PhaseCClear, Running, At, Resting0
  <1>1. work.rot \in Rotations
    BY <1>0, WorkFits DEF CoreInv, Stage, Fits, PhaseBStart, PhaseBRecord, PhaseBStamp,
                          PhaseCClear, Running, At
  <1>2. rotation \in RotationTable
    BY DEF CoreInv, TypeOK, RotationTable
  <1>3. CASE PhaseCClear
    <2>1. rotation' \in {rotation, [rotation EXCEPT ![work.rot].stored = FALSE]}
      BY <1>3, Zenon DEF PhaseCClear
    <2> QED
      BY <1>1, <1>2, <2>1 DEF SameCourse, RotationTable, RotationType
  <1>4. ASSUME NEW snap, TransitionTarget(snap)
        PROVE  SameCourse
    <2>1. \/ rotation' = rotation \/ rotation' = [rotation EXCEPT ![work.rot].target = snap]
          \/ rotation' = [rotation EXCEPT ![work.rot].target[work.node] = snap[work.node]]
      BY <1>4, Zenon DEF TransitionTarget, WriteTargets
    <2>2. CASE rotation' = [rotation EXCEPT ![work.rot].target[work.node] = snap[work.node]]
      BY <1>1, <1>2, <2>2, EntryCourse DEF SameCourse
    <2> QED
      BY <1>1, <1>2, <2>1, <2>2 DEF SameCourse, RotationTable, RotationType
  <1>5. CASE PhaseBStart \/ PhaseBRecord
    <2>1. \E snap : TransitionTarget(snap)
      BY <1>5, Zenon DEF PhaseBStart, PhaseBRecord
    <2> QED
      BY <1>4, <2>1
  <1>6. CASE PhaseBStamp
    <2>1. rotation' \in {rotation, [rotation EXCEPT ![work.rot].target = worker.snap]}
      BY <1>6, Zenon DEF PhaseBStamp, WriteTargets
    <2> QED
      BY <1>1, <1>2, <2>1 DEF SameCourse, RotationTable, RotationType
  <1> QED
    BY <1>3, <1>5, <1>6

(* They leave the order of rotations as it is.                             *)
LEMMA TargetWritesOrder ==
    ASSUME CoreInv, OrderInv, PhaseBStart \/ PhaseBRecord \/ PhaseBStamp \/ PhaseCClear
    PROVE  OrderInv'
  <1>1. pi' = pi /\ jobs' = jobs /\ retry' = retry /\ missed' = missed
    BY Zenon DEF PhaseBStart, PhaseBRecord, PhaseBStamp, PhaseCClear, radios
  <1>2. SameCourse
    BY TargetCourse
  <1>3. worker'.pc \notin Watching
    BY DEF PhaseBStart, PhaseBRecord, PhaseBStamp, PhaseCClear, Goto, Watching, CoreInv, TypeOK,
           WorkerType
  <1> QED
    BY <1>1, <1>2, <1>3, HandlerOrder

(* Phase B rows do not bear on the order of rotations.                     *)
LEMMA PhaseAEnqueueOrder ==
    ASSUME CoreInv, OrderInv, PhaseAEnqueue
    PROVE  OrderInv'
  <1>1. worker.pc = "a_enqueue" /\ worker.pc \notin Resting0
    BY DEF PhaseAEnqueue, At, Resting0
  <1>2. PICK n \in worker.todo, pc \in {"close", "a_enqueue"} :
           /\ jobs' = jobs \/ jobs' = EnqueuePhaseB(n)
           /\ worker' = [worker EXCEPT !.todo = @ \ {n}, !.pc = pc]
    BY EnqueuesOne
  <1> DEFINE w == PhaseBWork(work.rot, n, worker.staging, worker.old)
             row == [work |-> w, state |-> "queued", attempts |-> 0, age |-> 0]
  <1>3. row.work = w /\ RowInTurn(rotation', w)
    BY DEF PhaseBWork, RowInTurn
  <1>4. jobs' = jobs \/ jobs' = Append(jobs, row)
    BY <1>2 DEF EnqueuePhaseB, EnqueueRow
  <1> HIDE DEF row, w
  <1>5. RowsFollow
    <2>1. CASE jobs' = jobs
      BY <2>1 DEF RowsFollow
    <2>2. CASE jobs' = Append(jobs, row)
      <3>1. Len(jobs) \in Nat /\ DOMAIN jobs = 1 .. Len(jobs)
        BY TableShape DEF CoreInv, JobsOK
      <3>2. \A j \in DOMAIN jobs' : IF j \in DOMAIN jobs THEN jobs'[j] = jobs[j] ELSE jobs'[j] = row
        BY <2>2, <3>1
      <3> QED
        BY <1>3, <3>2 DEF RowsFollow
    <2> QED
      BY <1>4, <2>1, <2>2
  <1>6. worker'.pc \notin Watching
    BY <1>2 DEF CoreInv, TypeOK, WorkerType, Watching
  <1>7. SameCourse /\ pi' = pi /\ retry' = retry /\ missed' = missed
    BY DEF SameCourse, PhaseAEnqueue, radios, tables
  <1> QED
    BY <1>5, <1>6, <1>7, CourseKept

-----------------------------------------------------------------------------
(* The steps that move a rotation or the Pi's radio.                       *)

(* RotatePSK opens the next rotation when the others are retired.          *)
LEMMA RotatePSKOrder ==
    ASSUME ~Overlap, CoreInv, OrderInv, NEW r \in Rotations, NEW T \in SUBSET Nodes, RotatePSK(r, T)
    PROVE  OrderInv'
  <1>1. ~rotation[r].opened /\ Pending(r) /\ rotation[r].staging = NoSlot
    BY DEF RotatePSK, OrderInv, InTurn
  <1>2. \A q \in Rotations :
           /\ rotation'[q].opened = (rotation[q].opened \/ q = r)
           /\ rotation'[q].staging = rotation[q].staging
           /\ rotation'[q].piPhase = rotation[q].piPhase
    <2>1. rotation'[r].opened /\ rotation'[r].staging = NoSlot /\ rotation'[r].piPhase = "pending"
      BY DEF RotatePSK, CoreInv, TypeOK
    <2>2. \A q \in Rotations : q # r => rotation'[q] = rotation[q]
      BY DEF RotatePSK, CoreInv, TypeOK
    <2>3. \A q \in Rotations : rotation[q].opened \in BOOLEAN
      BY DEF CoreInv, TypeOK, RotationType
    <2> QED
      BY <1>1, <2>1, <2>2, <2>3 DEF Pending
  <1>3. \A q \in Rotations : Pending(q)' = Pending(q) /\ Retired(q)' = Retired(q)
    BY <1>2 DEF Pending, Retired
  <1>4. \A q \in Rotations : q < r => rotation[q].opened /\ Retired(q)
    BY DEF RotatePSK, AllRetiredBefore, Retired, Rotations
  <1>5. \A q \in Rotations : r < q => ~rotation[q].opened
    BY <1>1 DEF OrderInv, InTurn
  <1>6. InTurn'
    <2>1. ASSUME NEW q \in Rotations, NEW p \in Rotations, q < p, rotation'[p].opened
          PROVE  rotation'[q].opened /\ Retired(q)'
      <3>1. CASE p = r
        BY <1>2, <1>3, <1>4, <2>1, <3>1
      <3>2. CASE p # r
        <4>1. rotation[p].opened
          BY <1>2, <2>1, <3>2
        <4> QED
          BY <1>2, <1>3, <2>1, <4>1 DEF OrderInv, InTurn
      <3> QED
        BY <3>1, <3>2
    <2>2. \A q \in Rotations : ~rotation'[q].opened => Pending(q)' /\ rotation'[q].staging = NoSlot
      BY <1>2, <1>3 DEF OrderInv, InTurn
    <2> QED
      BY <2>1, <2>2 DEF InTurn
  <1>7. pi' = pi /\ worker' = worker /\ retry' = retry /\ missed' = missed
    BY DEF RotatePSK, radios
  <1>8. PrimarySlot' = PrimarySlot /\ PiPsk' = PiPsk /\ (HasPrimary => HasPrimary')
    BY <1>7, SamePrimary
  <1>9. StagesBeside'
    BY <1>2, <1>3, <1>8 DEF OrderInv, StagesBeside
  <1>10. Advances
    BY <1>2, <1>3 DEF Advances
  <1> DEFINE w == PhaseAWork(r)
             row == [work |-> w, state |-> "queued", attempts |-> 0, age |-> 0]
  <1>11. row.work = w /\ RowInTurn(rotation', w)
    BY <1>2 DEF PhaseAWork, RowInTurn
  <1>12. w \in WorkType /\ Fits(w)
    BY DEF PhaseAWork, WorkType, Fits, Rotations
  <1>13. jobs' = jobs \/ (jobs' = EnqueueRow(jobs, w) /\ jobs' = Append(jobs, row))
    BY DEF RotatePSK, EnqueueRow
  <1> HIDE DEF row, w
  <1>14. Kept(jobs, jobs')
    BY <1>12, <1>13, JobsGrow, KeptItself DEF CoreInv
  <1>15. RowsFollow
    <2>1. Len(jobs) \in Nat /\ DOMAIN jobs = 1 .. Len(jobs)
      BY TableShape DEF CoreInv, JobsOK
    <2>2. \A j \in DOMAIN jobs' : IF j \in DOMAIN jobs THEN jobs'[j] = jobs[j] ELSE jobs'[j] = row
      BY <1>13, <2>1
    <2> QED
      BY <1>11, <2>2 DEF RowsFollow
  <1>16. RowsInTurn'
    BY <1>7, <1>10, <1>15, RowsAdvance DEF OrderInv
  <1>17. WorkerInTurn'
    <2>1. CASE worker.pc \notin Watching
      BY <1>7, <2>1 DEF WorkerInTurn, Watching
    <2>2. CASE worker.pc \in Watching
      <3>1. worker.pc \notin Resting0
        BY <2>2 DEF Watching, Resting0
      <3>2. work' = work
        BY <1>7, <1>14, <3>1, SameRow DEF CoreInv
      <3>3. work.rot \in Rotations
        BY <2>2, <3>1, WorkFits DEF CoreInv, Stage, Fits, Watching
      <3> QED
        BY <1>2, <1>3, <1>7, <1>8, <3>2, <3>3 DEF OrderInv, WorkerInTurn
    <2> QED
      BY <2>1, <2>2
  <1>18. RetiredOrMissed'
    BY <1>3, <1>7, <1>8 DEF OrderInv, RetiredOrMissed
  <1> QED
    BY <1>6, <1>9, <1>16, <1>17, <1>18 DEF OrderInv

(* A step of the handler after which rotation r alone has advanced and the *)
(* Pi's PRIMARY is as before.                                              *)
LEMMA RotationOrder ==
    ASSUME CoreInv, OrderInv, NEW r \in Rotations, rotation[r].opened,
           \A q \in Rotations : q # r => rotation'[q] = rotation[q],
           rotation'[r].opened, Advances, jobs' = jobs, retry' = retry,
           pi' = pi \/ (PrimarySlot' = PrimarySlot /\ PiPsk' = PiPsk /\ HasPrimary'),
           Retired(r) => Retired(r)', Pending(r)' => Pending(r),
           (~Retired(r)' /\ rotation'[r].staging # NoSlot /\ PiPsk # r)
               => rotation'[r].staging # PrimarySlot,
           missed \subseteq missed', Retired(r)' => PiPsk >= r \/ r \in missed'
    PROVE  InTurn' /\ StagesBeside' /\ RowsInTurn' /\ RetiredOrMissed'
  <1>1. \A q \in Rotations : q # r =>
           /\ rotation'[q].opened = rotation[q].opened
           /\ Pending(q)' = Pending(q) /\ Retired(q)' = Retired(q)
    BY DEF Pending, Retired
  <1>2. InTurn'
    <2>1. ASSUME NEW q \in Rotations, NEW p \in Rotations, q < p, rotation'[p].opened
          PROVE  rotation'[q].opened /\ Retired(q)'
      <3>1. rotation[p].opened
        BY <1>1, <2>1
      <3>2. rotation[q].opened /\ Retired(q)
        BY <2>1, <3>1 DEF OrderInv, InTurn
      <3> QED
        BY <1>1, <3>2
    <2>2. \A q \in Rotations : ~rotation'[q].opened => Pending(q)' /\ rotation'[q].staging = NoSlot
      BY <1>1 DEF OrderInv, InTurn
    <2> QED
      BY <2>1, <2>2 DEF InTurn
  <1>3. PrimarySlot' = PrimarySlot /\ PiPsk' = PiPsk /\ (HasPrimary => HasPrimary')
    BY SamePrimary
  <1>4. StagesBeside'
    BY <1>1, <1>3 DEF OrderInv, StagesBeside
  <1>5. RowsInTurn'
    <2>1. RowsFollow
      BY DEF RowsFollow
    <2> QED
      BY <2>1, RowsAdvance DEF OrderInv
  <1>6. RetiredOrMissed'
    BY <1>1, <1>3 DEF OrderInv, RetiredOrMissed
  <1> QED
    BY <1>2, <1>4, <1>5, <1>6

(* Phase A pins the slot that is not the Pi's PRIMARY.                     *)
LEMMA PhaseAPickOrder ==
    ASSUME CoreInv, OrderInv, PhaseAPick
    PROVE  OrderInv'
  <1> DEFINE r == work.rot
  <1>1. worker.pc \notin Resting0 /\ work.kind = "rotate_phase_a"
    BY DEF PhaseAPick, Running, At, Resting0
  <1>2. r \in Rotations /\ worker.job \in DOMAIN jobs
    BY <1>1, WorkFits DEF CoreInv, Fits, HandlerOK
  <1>3. rotation[r].opened
    BY <1>1, <1>2 DEF OrderInv, RowsInTurn, RowInTurn, work
  <1>4. rotation \in RotationTable
    BY DEF CoreInv, TypeOK, RotationTable
  <1>5. /\ \A q \in Rotations : q # r => rotation'[q] = rotation[q]
        /\ rotation'[r].opened = rotation[r].opened
        /\ rotation'[r].piPhase = rotation[r].piPhase
        /\ rotation'[r].staging \in {rotation[r].staging, StagingSlot(r)}
    <2>1. rotation' \in {rotation, [rotation EXCEPT ![r].staging = StagingSlot(r)]}
      BY Zenon DEF PhaseAPick
    <2> QED
      BY <1>2, <1>4, <2>1 DEF RotationTable, RotationType
  <1>6. PrimarySlot \in WorkSlots /\ 1 - PrimarySlot # PrimarySlot
    <2>1. PrimarySlot \in WorkSlots
      BY PrimaryFound DEF CoreInv, PhaseAPick
    <2> QED
      BY <2>1 DEF WorkSlots
  <1>7. Advances
    BY <1>2, <1>5 DEF Advances, Pending, StagingSlot
  <1>8. (~Retired(r) /\ PiPsk # r) => StagingSlot(r) # PrimarySlot
    BY <1>2, <1>6 DEF StagingSlot, OrderInv, StagesBeside
  <1>9. pi' = pi /\ jobs' = jobs /\ retry' = retry /\ missed' = missed
    BY DEF PhaseAPick, radios
  <1>10. Retired(r) => PiPsk >= r \/ r \in missed
    BY <1>2 DEF OrderInv, RetiredOrMissed
  <1>11. InTurn' /\ StagesBeside' /\ RowsInTurn' /\ RetiredOrMissed'
    <2> PICK q \in Rotations : q = r
      BY <1>2
    <2>1. (Retired(q)' <=> Retired(q)) /\ (Pending(q)' <=> Pending(q))
      BY <1>5 DEF Retired, Pending
    <2>2. (~Retired(q)' /\ rotation'[q].staging # NoSlot /\ PiPsk # q)
              => rotation'[q].staging # PrimarySlot
      BY <1>5, <1>8, <2>1 DEF OrderInv, StagesBeside
    <2> HIDE DEF r
    <2> QED
      BY <1>3, <1>5, <1>7, <1>9, <1>10, <2>1, <2>2, RotationOrder
  <1>12. WorkerInTurn'
    <2>1. /\ worker'.pc = IF rotation[r].piPhase = "pending" THEN "a_stage" ELSE "a_channel"
          /\ worker'.staging = StagingSlot(r) /\ worker'.job = worker.job
      BY DEF PhaseAPick, CoreInv, TypeOK, WorkerType
    <2>2. work' = work
      BY <1>1, <1>9, <2>1, SameRow, KeptItself DEF CoreInv
    <2>3. PrimarySlot' = PrimarySlot
      BY <1>9, SamePrimary
    <2>4. Pending(r) => StagingSlot(r) # PrimarySlot
      BY <1>2, <1>8 DEF Pending, Retired, OrderInv, StagesBeside
    <2> QED
      BY <1>5, <2>1, <2>2, <2>3, <2>4 DEF WorkerInTurn, Pending
  <1> QED
    BY <1>11, <1>12 DEF OrderInv

(* Where Phase A stages the new PSK the PRIMARY is not.                    *)
LEMMA StagedBeside ==
    ASSUME CoreInv, OrderInv, worker.pc = "a_stage"
    PROVE  /\ work.rot \in Rotations /\ rotation[work.rot].opened /\ Pending(work.rot)
           /\ worker.staging # PrimarySlot
           /\ pi' = StagedPi /\ PrimaryOK(pi') =>
                 PrimarySlot' = PrimarySlot /\ PiPsk' = PiPsk /\ HasPrimary'
  <1>1. worker.pc \notin Resting0
    BY DEF Resting0
  <1>2. /\ work.kind = "rotate_phase_a" /\ work.rot \in Rotations /\ worker.job \in DOMAIN jobs
        /\ worker.staging \in WorkSlots
    BY <1>1, WorkFits DEF CoreInv, Fits, Stage, HandlerOK
  <1>3. rotation[work.rot].opened
    BY <1>2 DEF OrderInv, RowsInTurn, RowInTurn, work
  <1>4. Pending(work.rot) /\ worker.staging # PrimarySlot
    BY DEF OrderInv, WorkerInTurn
  <1>8. ASSUME pi' = StagedPi, PrimaryOK(pi')
        PROVE  PrimarySlot' = PrimarySlot /\ PiPsk' = PiPsk /\ HasPrimary'
    <2>1. PrimarySlot \in Slots /\ pi[PrimarySlot].role = "primary"
      BY PrimaryFound DEF CoreInv, OrderInv, StagesBeside
    <2>2. pi'[PrimarySlot] = pi[PrimarySlot]
      BY <1>4, <1>8, <2>1 DEF StagedPi, CoreInv, TypeOK
    <2>3. HasPrimary' /\ PrimarySlot' = PrimarySlot /\ PiPsk' = pi'[PrimarySlot].psk
      BY <1>8, <2>1, <2>2, NewPrimary
    <2> QED
      BY <2>2, <2>3 DEF PiPsk
  <1> QED
    BY <1>2, <1>3, <1>4, <1>8

(* Phase A stages beside the PRIMARY ...                                   *)
LEMMA PhaseAStageOrder ==
    ASSUME CoreInv, CoreInv', OrderInv, PhaseAStage
    PROVE  OrderInv'
  <1> DEFINE r == work.rot
  <1>1. worker.pc = "a_stage"
    BY DEF PhaseAStage, At
  <1>2. r \in Rotations /\ rotation[r].opened /\ Pending(r)
    BY <1>1, StagedBeside
  <1>3. PrimarySlot' = PrimarySlot /\ PiPsk' = PiPsk /\ HasPrimary'
    BY <1>1, StagedBeside DEF PhaseAStage, CoreInv
  <1>4. rotation \in RotationTable
    BY DEF CoreInv, TypeOK, RotationTable
  <1>5. /\ \A q \in Rotations : q # r => rotation'[q] = rotation[q]
        /\ rotation'[r].opened = rotation[r].opened
        /\ rotation'[r].piPhase \in {rotation[r].piPhase, "staging_added"}
        /\ rotation'[r].staging = rotation[r].staging
    <2>1. rotation' \in {rotation, [rotation EXCEPT ![r].piPhase = "staging_added"]}
      BY Zenon DEF PhaseAStage
    <2>2. CASE rotation' = [rotation EXCEPT ![r].piPhase = "staging_added"]
      BY <1>2, <1>4, <2>2 DEF RotationTable, RotationType
    <2>3. CASE rotation' = rotation
      BY <2>3
    <2> QED
      BY <2>1, <2>2, <2>3
  <1>6. Advances
    BY <1>2, <1>5 DEF Advances, Pending
  <1>7. jobs' = jobs /\ retry' = retry /\ missed' = missed
    BY DEF PhaseAStage
  <1>8. InTurn' /\ StagesBeside' /\ RowsInTurn' /\ RetiredOrMissed'
    <2> PICK q \in Rotations : q = r
      BY <1>2
    <2>1. ~Retired(q)' /\ Pending(q) /\ ~Retired(q)
      BY <1>2, <1>5 DEF Retired, Pending
    <2>2. (rotation'[q].staging # NoSlot /\ PiPsk # q) => rotation'[q].staging # PrimarySlot
      BY <1>5, <2>1 DEF OrderInv, StagesBeside
    <2> HIDE DEF r
    <2> QED
      BY <1>2, <1>3, <1>5, <1>6, <1>7, <2>1, <2>2, RotationOrder
  <1>9. WorkerInTurn'
    <2>1. worker'.pc = "a_channel"
      BY DEF PhaseAStage, Goto, CoreInv, TypeOK, WorkerType
    <2> QED
      BY <2>1 DEF WorkerInTurn
  <1> QED
    BY <1>8, <1>9 DEF OrderInv

(* ... even when SetChannel times out.                                     *)
LEMMA PhaseAStageFailsOrder ==
    ASSUME CoreInv, CoreInv', OrderInv, PhaseAStageFails
    PROVE  OrderInv'
  <1>1. worker.pc = "a_stage"
    BY DEF PhaseAStageFails, At
  <1>2. pi' = pi \/ (PrimarySlot' = PrimarySlot /\ PiPsk' = PiPsk /\ HasPrimary')
    BY <1>1, StagedBeside DEF PhaseAStageFails, CoreInv
  <1>3. worker'.pc \notin Watching
    BY DEF PhaseAStageFails, Goto, CoreInv, TypeOK, WorkerType, Watching
  <1>4. jobs' = jobs /\ retry' = retry /\ SameCourse /\ missed' = missed
    BY DEF PhaseAStageFails, tables, SameCourse
  <1> QED
    BY <1>2, <1>3, <1>4, HandlerOrder

(* A Phase C row is about an opened, staged rotation, pinned to its slot.  *)
LEMMA PhaseCRow ==
    ASSUME CoreInv, OrderInv, worker.pc \notin Resting0, work.kind = "rotate_phase_c"
    PROVE  /\ work.rot \in Rotations /\ rotation[work.rot].opened /\ ~Pending(work.rot)
           /\ work.staging = rotation[work.rot].staging /\ work.staging \in WorkSlots
  <1>1. worker.job \in DOMAIN jobs /\ Fits(work)
    BY WorkFits DEF CoreInv, HandlerOK
  <1>2. RowInTurn(rotation, work)
    BY <1>1 DEF OrderInv, RowsInTurn, work
  <1> QED
    BY <1>1, <1>2 DEF Fits, RowInTurn, Pending

(* What Phase C reads of the Pi is so while it prepares.                   *)
LEMMA PhaseCStartOrder ==
    ASSUME CoreInv, OrderInv, PhaseCStart
    PROVE  OrderInv'
  <1>1. worker.pc \notin Resting0 /\ work.kind = "rotate_phase_c"
    BY DEF PhaseCStart, Running, At, Resting0
  <1>2. /\ pi' = pi /\ jobs' = jobs /\ retry' = retry /\ rotation' = rotation
        /\ missed' = missed
    BY Zenon DEF PhaseCStart, radios
  <1>3. PrimarySlot' = PrimarySlot /\ PiPsk' = PiPsk /\ (HasPrimary => HasPrimary')
    BY <1>2, SamePrimary
  <1>4. /\ worker'.pc = "c_radio" /\ worker'.job = worker.job /\ worker'.staging = work.staging
        /\ worker'.old = PrimarySlot /\ worker'.psk = work.rot
    <2>1. PICK ok \in BOOLEAN :
             worker' = [worker EXCEPT !.pc = "c_radio", !.snap = rotation[work.rot].target,
                                      !.staging = work.staging, !.old = PrimarySlot,
                                      !.psk = work.rot, !.prev = PiPsk, !.ok = ok]
      BY Zenon DEF PhaseCStart
    <2> QED
      BY <2>1 DEF CoreInv, TypeOK, WorkerType
  <1>5. work' = work
    BY <1>1, <1>2, <1>4, SameRow, KeptItself DEF CoreInv
  <1>6. rotation[work.rot].piPhase = "staging_added"
    BY <1>1, PhaseCRow DEF PhaseCStart, CoreInv, TypeOK, RotationType, Pending
  <1>7. PiPsk # work.rot
    BY DEF PhaseCStart, PiPromoted
  <1>8. WorkerInTurn'
    BY <1>1, <1>2, <1>3, <1>4, <1>5, <1>6, <1>7, PhaseCRow DEF WorkerInTurn
  <1>9. InTurn' /\ StagesBeside' /\ RowsInTurn' /\ RetiredOrMissed'
    <2>1. \A q \in Rotations : Pending(q)' = Pending(q) /\ Retired(q)' = Retired(q)
      BY <1>2 DEF Pending, Retired
    <2>2. InTurn'
      BY <1>2, <2>1 DEF OrderInv, InTurn
    <2>3. StagesBeside'
      BY <1>2, <1>3, <2>1 DEF OrderInv, StagesBeside
    <2>4. RowsInTurn'
      BY <1>2 DEF OrderInv, RowsInTurn
    <2>5. RetiredOrMissed'
      BY <1>2, <1>3, <2>1 DEF OrderInv, RetiredOrMissed
    <2> QED
      BY <2>2, <2>3, <2>4, <2>5
  <1> QED
    BY <1>8, <1>9 DEF OrderInv

(* The promotion of the open rotation on the Pi.                           *)
LEMMA PromotedInTurn ==
    ASSUME CoreInv, CoreInv', OrderInv, worker.pc = "c_radio", pi' = PromotedPi,
           rotation' = rotation, jobs' = jobs, retry' = retry
    PROVE  /\ InTurn' /\ StagesBeside' /\ RowsInTurn' /\ RetiredOrMissed'
           /\ PiPsk' = work.rot
  <1>1. worker.pc \notin Resting0
    BY DEF Resting0
  <1>2. work.kind = "rotate_phase_c"
    BY <1>1, WorkFits DEF CoreInv, Stage
  <1> PICK r \in Rotations : r = work.rot
    BY <1>1, <1>2, PhaseCRow
  <1>3. /\ rotation[r].opened /\ rotation[r].piPhase = "staging_added"
        /\ worker.staging = rotation[r].staging /\ worker.staging \in WorkSlots
        /\ worker.old = PrimarySlot /\ worker.psk = r /\ PiPsk # r
    BY <1>1, <1>2, PhaseCRow DEF OrderInv, WorkerInTurn
  <1>4. worker.staging # NoSlot /\ ~Retired(r) /\ ~Pending(r)
    BY <1>3 DEF WorkSlots, NoSlot, Retired, Pending
  <1>5. worker.staging # worker.old
    BY <1>3, <1>4 DEF OrderInv, StagesBeside
  <1>6. pi'[worker.staging].role = "primary" /\ pi'[worker.staging].psk = r
    BY <1>3, <1>5, PromotedAtRadio
  <1>7. worker.staging \in Slots
    BY <1>3 DEF Slots
  <1>8. HasPrimary' /\ PrimarySlot' = worker.staging /\ PiPsk' = r
    BY <1>6, <1>7, NewPrimary DEF CoreInv
  <1>9. \A q \in Rotations :
           /\ Retired(q) => q < r
           /\ q # r => Retired(q) \/ (Pending(q) /\ rotation[q].staging = NoSlot)
    BY <1>3, <1>4, OnlyOpen DEF OrderInv
  <1>10. \A q \in Rotations : Pending(q)' = Pending(q) /\ Retired(q)' = Retired(q)
    BY DEF Pending, Retired
  <1>11. InTurn'
    BY <1>10 DEF OrderInv, InTurn
  <1>12. StagesBeside'
    <2>1. \A q \in Rotations : Pending(q)' => PiPsk' # q
      BY <1>4, <1>8, <1>10
    <2>2. \A q \in Rotations :
             (~Retired(q)' /\ rotation'[q].staging # NoSlot /\ PiPsk' # q)
                 => rotation'[q].staging # PrimarySlot'
      BY <1>8, <1>9, <1>10
    <2> QED
      BY <1>8, <2>1, <2>2 DEF StagesBeside
  <1>13. RowsInTurn'
    BY DEF OrderInv, RowsInTurn
  <1>14. RetiredOrMissed'
    <2>1. r \in Int /\ \A q \in Rotations : q \in Int
      BY DEF Rotations
    <2>2. \A q \in Rotations : Retired(q)' => PiPsk' >= q
      BY <1>8, <1>9, <1>10, <2>1
    <2> QED
      BY <2>2 DEF RetiredOrMissed
  <1> QED
    BY <1>8, <1>11, <1>12, <1>13, <1>14

(* Acknowledged, the promotion leads to the retirement ...                 *)
LEMMA PhaseCPromoteOrder ==
    ASSUME CoreInv, CoreInv', OrderInv, PhaseCPromote
    PROVE  OrderInv'
  <1>1. worker.pc = "c_radio" /\ worker.pc \notin Resting0
    BY DEF PhaseCPromote, At, Resting0
  <1>2. rotation' = rotation /\ jobs' = jobs /\ retry' = retry /\ pi' = PromotedPi
    BY DEF PhaseCPromote, Promote, tables
  <1>3. worker'.pc = "c_retire" /\ worker'.job = worker.job
    BY DEF PhaseCPromote, Goto, CoreInv, TypeOK, WorkerType
  <1>4. work' = work
    BY <1>1, <1>2, <1>3, SameRow, KeptItself DEF CoreInv
  <1>5. /\ InTurn' /\ StagesBeside' /\ RowsInTurn' /\ RetiredOrMissed'
        /\ PiPsk' = work.rot
    BY <1>1, <1>2, PromotedInTurn
  <1>6. WorkerInTurn'
    BY <1>3, <1>4, <1>5 DEF WorkerInTurn
  <1> QED
    BY <1>5, <1>6 DEF OrderInv

(* ... and not acknowledged it may still have happened.                    *)
LEMMA PhaseCPromoteFailsOrder ==
    ASSUME CoreInv, CoreInv', OrderInv, PhaseCPromoteFails
    PROVE  OrderInv'
  <1>1. worker.pc = "c_radio"
    BY DEF PhaseCPromoteFails, At
  <1>2. /\ rotation' = rotation /\ jobs' = jobs /\ retry' = retry
        /\ (pi' = pi /\ missed' = missed) \/ pi' = PromotedPi
    BY DEF PhaseCPromoteFails, Promote, tables
  <1>3. worker'.pc = "close"
    BY DEF PhaseCPromoteFails, Goto, CoreInv, TypeOK, WorkerType
  <1>4. CASE pi' = pi /\ missed' = missed
    <2>1. worker'.pc \notin Watching /\ SameCourse
      BY <1>2, <1>3 DEF Watching, SameCourse
    <2> QED
      BY <1>2, <1>4, <2>1, HandlerOrder
  <1>5. CASE pi' = PromotedPi
    <2>1. InTurn' /\ StagesBeside' /\ RowsInTurn' /\ RetiredOrMissed'
      BY <1>1, <1>2, <1>5, PromotedInTurn
    <2>2. WorkerInTurn'
      BY <1>3 DEF WorkerInTurn
    <2> QED
      BY <2>1, <2>2 DEF OrderInv
  <1> QED
    BY <1>2, <1>4, <1>5

(* What Phase C writes of its rotation when it retires it.                 *)
LEMMA RetireWrites ==
    ASSUME rotation \in RotationTable, work.rot \in Rotations, PhaseCRetire \/ PhaseCRetireFails
    PROVE  \E snap, done : \E phase \in {rotation[work.rot].piPhase, "retired"} :
              rotation' = [rotation EXCEPT ![work.rot].target = snap, ![work.rot].piDone = done,
                                           ![work.rot].piPhase = phase]
  <1> DEFINE r == work.rot
  <1>1. CASE PhaseCRetire
    BY <1>1, Zenon DEF PhaseCRetire
  <1>2. CASE PhaseCRetireFails
    <2>1. PICK written, retired \in BOOLEAN :
             rotation' = [rotation EXCEPT
                 ![r].target = IF written THEN worker.snap ELSE @,
                 ![r].piDone = IF written THEN TRUE ELSE @,
                 ![r].piPhase = IF retired THEN "retired" ELSE @]
      BY <1>2, Zenon DEF PhaseCRetireFails
    <2> QED
      BY <2>1
  <1> QED
    BY <1>1, <1>2

(* A rotation is retired on the Pi's word that it has been promoted, or    *)
(* missed.                                                                 *)
LEMMA RetireStep ==
    ASSUME CoreInv, OrderInv, PhaseCNothingToMigrate \/ PhaseCRetire \/ PhaseCRetireFails
    PROVE  /\ work.rot \in Rotations /\ rotation[work.rot].opened /\ ~Pending(work.rot)
           /\ \A q \in Rotations : q # work.rot => rotation'[q] = rotation[q]
           /\ rotation'[work.rot].opened = rotation[work.rot].opened
           /\ rotation'[work.rot].piPhase \in {rotation[work.rot].piPhase, "retired"}
           /\ rotation'[work.rot].staging = rotation[work.rot].staging
           /\ PiPsk = work.rot \/ work.rot \in missed'
  <1> DEFINE r == work.rot
  <1>1. worker.pc \notin Resting0
    BY Zenon DEF PhaseCNothingToMigrate, PhaseCRetire, PhaseCRetireFails, Running, At, Resting0
  <1>2. work.kind = "rotate_phase_c"
    <2>1. worker.pc = "c_retire" \/ work.kind = "rotate_phase_c"
      BY Zenon DEF PhaseCNothingToMigrate, PhaseCRetire, PhaseCRetireFails, Running, At
    <2> QED
      BY <1>1, <2>1, WorkFits DEF CoreInv, Stage
  <1>3. r \in Rotations /\ rotation[r].opened /\ ~Pending(r)
    BY <1>1, <1>2, PhaseCRow
  <1>4. rotation \in RotationTable
    BY DEF CoreInv, TypeOK, RotationTable
  <1>5. /\ \A q \in Rotations : q # r => rotation'[q] = rotation[q]
        /\ rotation'[r].opened = rotation[r].opened
        /\ rotation'[r].piPhase \in {rotation[r].piPhase, "retired"}
        /\ rotation'[r].staging = rotation[r].staging
    <2>1. CASE PhaseCNothingToMigrate
      BY <1>3, <1>4, <2>1 DEF PhaseCNothingToMigrate, RotationTable, RotationType
    <2>2. CASE PhaseCRetire \/ PhaseCRetireFails
      <3>0. PICK snap, done : \E phase \in {rotation[r].piPhase, "retired"} :
               rotation' = [rotation EXCEPT ![r].target = snap, ![r].piDone = done,
                                            ![r].piPhase = phase]
        BY <1>3, <1>4, <2>2, RetireWrites, Zenon
      <3>1. PICK phase \in {rotation[r].piPhase, "retired"} :
               rotation' = [rotation EXCEPT ![r].target = snap, ![r].piDone = done,
                                            ![r].piPhase = phase]
        BY <3>0, Zenon
      <3> DEFINE new == [rotation[r] EXCEPT !.target = snap, !.piDone = done, !.piPhase = phase]
      <3>2. rotation[r] \in RotationType
        BY <1>3, <1>4 DEF RotationTable
      <3>3. /\ new.opened = rotation[r].opened /\ new.staging = rotation[r].staging
            /\ new.piPhase = phase
        BY <3>2 DEF RotationType
      <3>4. rotation' = [rotation EXCEPT ![r] = new]
        BY <1>3, <1>4, <3>1 DEF RotationTable
      <3> HIDE DEF new, r
      <3> QED
        BY <1>3, <1>4, <3>3, <3>4 DEF RotationTable
    <2> QED
      BY <2>1, <2>2
  <1>6. PiPsk = r \/ r \in missed'
    <2>1. PiPromoted(r) \/ worker.pc = "c_retire" \/ missed' = missed \cup {r}
      BY Zenon DEF PhaseCNothingToMigrate, PhaseCRetire, PhaseCRetireFails, At
    <2> QED
      BY <2>1 DEF PiPromoted, OrderInv, StagesBeside, WorkerInTurn
  <1> QED
    BY <1>3, <1>5, <1>6

(* Retirement leaves the order of rotations as it is.                      *)
LEMMA RetireOrder ==
    ASSUME CoreInv, OrderInv, PhaseCNothingToMigrate \/ PhaseCRetire \/ PhaseCRetireFails
    PROVE  OrderInv'
  <1> DEFINE r == work.rot
  <1>1. /\ r \in Rotations /\ rotation[r].opened /\ ~Pending(r)
        /\ \A q \in Rotations : q # r => rotation'[q] = rotation[q]
        /\ rotation'[r].opened = rotation[r].opened
        /\ rotation'[r].piPhase \in {rotation[r].piPhase, "retired"}
        /\ rotation'[r].staging = rotation[r].staging
        /\ PiPsk = r \/ r \in missed'
    BY RetireStep
  <1>2. Advances
    BY <1>1 DEF Advances, Pending
  <1>3. /\ pi' = pi /\ jobs' = jobs /\ retry' = retry
        /\ missed' = missed \/ missed' = missed \cup {r}
    BY Zenon DEF PhaseCNothingToMigrate, PhaseCRetire, PhaseCRetireFails, radios
  <1>4. InTurn' /\ StagesBeside' /\ RowsInTurn' /\ RetiredOrMissed'
    <2> PICK q \in Rotations : q = r
      BY <1>1
    <2>1. (Retired(q) => Retired(q)') /\ ~Pending(q)'
      BY <1>1 DEF Retired, Pending
    <2>2. PiPsk >= q \/ q \in missed'
      BY <1>1 DEF Rotations
    <2>3. (~Retired(q)' /\ rotation'[q].staging # NoSlot /\ PiPsk # q)
              => rotation'[q].staging # PrimarySlot
      BY <1>1, <2>1 DEF OrderInv, StagesBeside
    <2> HIDE DEF r
    <2> QED
      BY <1>1, <1>2, <1>3, <2>1, <2>2, <2>3, RotationOrder
  <1>5. WorkerInTurn'
    <2>1. worker'.pc \in {"close", "c_strand"}
      <3>1. \E pc \in {"close", "c_strand"} : Goto(pc)
        BY Zenon DEF PhaseCNothingToMigrate, PhaseCRetire, PhaseCRetireFails
      <3> QED
        BY <3>1 DEF Goto, CoreInv, TypeOK, WorkerType
    <2> QED
      BY <2>1 DEF WorkerInTurn
  <1> QED
    BY <1>4, <1>5 DEF OrderInv

-----------------------------------------------------------------------------
(* OrderInv is an invariant where rotations do not overlap.                *)

(* OrderInv holds at the start ...                                         *)
LEMMA InitOrder == Init => OrderInv
  <1> SUFFICES ASSUME Init PROVE OrderInv
    OBVIOUS
  <1>1. \A r \in Rotations : /\ ~rotation[r].opened /\ Pending(r) /\ ~Retired(r)
                             /\ rotation[r].staging = NoSlot
    BY DEF Init, Pending, Retired
  <1>2. 0 \in Slots /\ pi[0] = [role |-> "primary", psk |-> 0]
    BY DEF Init, Slots, WorkSlots
  <1>3. PrimarySlot = 0
    BY <1>2, InitCore, PrimaryAt DEF PrimarySlot, CoreInv
  <1>4. PiPsk = 0 /\ HasPrimary
    BY <1>2, <1>3 DEF PiPsk, HasPrimary
  <1>5. InTurn /\ StagesBeside
    BY <1>1, <1>4 DEF InTurn, StagesBeside, Rotations
  <1>6. RowsInTurn
    BY DEF Init, RowsInTurn
  <1>7. WorkerInTurn
    BY DEF Init, WorkerInTurn, Resting
  <1>8. RetiredOrMissed
    BY <1>1 DEF RetiredOrMissed
  <1> QED
    BY <1>5, <1>6, <1>7, <1>8 DEF OrderInv

(* ... and after every step ...                                            *)
LEMMA NextOrder ==
    ASSUME ~Overlap, CoreInv, CoreInv', OrderInv, [Next]_vars
    PROVE  OrderInv'
  <1>1. CASE Operator
    BY <1>1, RotatePSKOrder, OperatorOrder DEF Operator
  <1>2. CASE \E n \in Nodes : ObserveInboundPacket(n)
    BY <1>2, OperatorOrder
  <1>3. CASE Lease \/ CloseJob \/ Crash \/ \E quick \in BOOLEAN : Restart(quick)
    BY <1>3, LoopOrder
  <1>4. CASE PhaseAFails \/ PhaseAEnqueueFails \/ PhaseBSkips \/ PhaseCSkips \/ RecoverFails
    <2>1. Return
      BY <1>4, Zenon DEF PhaseAFails, PhaseAEnqueueFails, PhaseBSkips, PhaseCSkips, RecoverFails
    <2> QED
      BY <2>1, QuietOrder
  <1>5. CASE \/ PhaseAChannel \/ MigrateSend \/ MigrateNoSession \/ MigrateVerify
             \/ PhaseCMarkStranded \/ RecoverStart \/ RecoverRecord
    BY <1>5, QuietOrder
  <1>6. CASE PhaseBStart \/ PhaseBRecord \/ PhaseBStamp \/ PhaseCClear
    BY <1>6, TargetWritesOrder
  <1>7. CASE PhaseAPick \/ PhaseAStage \/ PhaseAStageFails \/ PhaseAEnqueue
    BY <1>7, PhaseAPickOrder, PhaseAStageOrder, PhaseAStageFailsOrder, PhaseAEnqueueOrder
  <1>8. CASE \/ PhaseCNothingToMigrate \/ PhaseCStart \/ PhaseCPromote \/ PhaseCPromoteFails
             \/ PhaseCRetire \/ PhaseCRetireFails
    BY <1>8, RetireOrder, PhaseCStartOrder, PhaseCPromoteOrder, PhaseCPromoteFailsOrder
  <1>9. CASE UNCHANGED vars
    <2>1. pi' = pi /\ retry' = retry /\ worker' = worker /\ Kept(jobs, jobs') /\ missed' = missed
      BY <1>9, KeptItself DEF vars
    <2>2. SameCourse /\ OldRows
      BY <1>9 DEF vars, SameCourse, OldRows
    <2> QED
      BY <2>1, <2>2, CourseKept DEF OldRows, RowsFollow
  <1> QED
    BY <1>1, <1>2, <1>3, <1>4, <1>5, <1>6, <1>7, <1>8, <1>9 DEF Next, Handler

(* ... hence always.                                                       *)
LEMMA Order == ASSUME ~Overlap PROVE Spec => []OrderInv
  <1>1. CoreInv /\ CoreInv' /\ OrderInv /\ [Next]_vars => OrderInv'
    BY NextOrder
  <1> QED
    BY <1>1, InitOrder, Core, PTL DEF Spec

(* Where the operator finishes a rotation before the next, the Pi's radio  *)
(* keeps exactly one PRIMARY channel, in slot 0 or 1, through every        *)
(* staging, promotion, timeout and crash: no step of Phase A overwrites    *)
(* it and no transaction of Phase C leaves two or none.                    *)
THEOREM OnePrimary == ASSUME ~Overlap PROVE Spec => []PiCanonical
  <1>1. CoreInv /\ OrderInv => PiCanonical
    <2> SUFFICES ASSUME CoreInv, OrderInv PROVE PiCanonical
      OBVIOUS
    <2>1. PrimarySlot \in WorkSlots /\ PrimarySlot \in Slots /\ pi[PrimarySlot].role = "primary"
      BY PrimaryFound DEF CoreInv, OrderInv, StagesBeside
    <2>2. \A t \in Slots : pi[t].role = "primary" => t = PrimarySlot
      BY <2>1 DEF CoreInv, PrimaryOK
    <2>3. {t \in Slots : pi[t].role = "primary"} = {PrimarySlot}
      BY <2>1, <2>2
    <2> QED
      BY <2>1, <2>3 DEF PiCanonical
  <1> QED
    BY <1>1, Core, Order, PTL

(* And a rotation that MarkRotationRetired closed has been promoted on the *)
(* Pi, however often Phase C ran, failed or was cut off, unless Phase C    *)
(* retired it blindly, after a read of the PRIMARY slot that the radio     *)
(* left unanswered: the one way to retire a rotation too soon.             *)
THEOREM RetiredPromoted == ASSUME ~Overlap PROVE Spec => []RetiredOrMissed
  <1>1. OrderInv => RetiredOrMissed
    BY DEF OrderInv
  <1> QED
    BY <1>1, Order, PTL

-----------------------------------------------------------------------------
(* HistoryInv: the cache and the recovery slots.                           *)

(* There is a recovery slot, and their number is a number.                 *)
LEMMA SlotNumber ==
    IsFiniteSet(RecoverySlots) /\ Recoverable \in Nat /\ Recoverable >= 1
  <1>1. IsFiniteSet(2 .. 7)
    <2>1. 2 \in Int /\ 7 \in Int
      OBVIOUS
    <2> QED
      BY <2>1, FS_Interval, Zenon
  <1>2. IsFiniteSet(RecoverySlots)
    BY <1>1, SlotsAssumption, FS_Subset
  <1>3. Recoverable \in Nat /\ Recoverable # 0
    BY <1>2, SlotsAssumption, FS_CardinalityType, FS_EmptySet DEF Recoverable
  <1> QED
    BY <1>2, <1>3

(* Entries in slots of their own: no more than slots, and as many only     *)
(* when no slot is free.                                                   *)
LEMMA SlotsCounted ==
    ASSUME NEW c \in Seq(CacheRow),
           \A i, j \in DOMAIN c : c[i].slot = c[j].slot => i = j
    PROVE  Len(c) = Recoverable <=> RecoverySlots \ {c[i].slot : i \in DOMAIN c} = {}
  <1> DEFINE D == 1 .. Len(c)
             f == [i \in D |-> c[i].slot]
  <1>1. Len(c) \in Nat /\ DOMAIN c = D /\ \A i \in D : c[i].slot \in RecoverySlots
    <2>1. Len(c) \in Nat /\ DOMAIN c = D /\ \A i \in D : c[i] \in CacheRow
      BY TableShape
    <2> QED
      BY <2>1 DEF CacheRow
  <1>2. f \in [D -> RecoverySlots]
    BY <1>1
  <1>3. f \in Injection(D, RecoverySlots)
    BY <1>1, <1>2 DEF Injection, IsInjective
  <1>4. Cardinality(D) = Len(c)
    BY <1>1, FS_Interval
  <1>5. Len(c) = Recoverable <=> f \in Surjection(D, RecoverySlots)
    <2>1. Cardinality(D) = Cardinality(RecoverySlots) <=> f \in Surjection(D, RecoverySlots)
      <3> HIDE DEF D, f
      <3> QED
        BY <1>3, SlotNumber, FS_Injection
    <2> QED
      BY <1>4, <2>1 DEF Recoverable
  <1>6. f \in Surjection(D, RecoverySlots) <=> \A s \in RecoverySlots : \E i \in D : c[i].slot = s
    BY <1>2 DEF Surjection
  <1> QED
    BY <1>1, <1>5, <1>6

(* The cache's PSKs are numbers, and its slots recovery slots.             *)
LEMMA CachedNumbers ==
    ASSUME NEW c \in Seq(CacheRow)
    PROVE  \A i \in DOMAIN c : c[i].psk \in Psks /\ c[i].psk \in Int /\ c[i].slot \in RecoverySlots
  <1>1. \A i \in DOMAIN c : c[i] \in CacheRow
    BY TableShape
  <1> QED
    BY <1>1 DEF CacheRow, Psks

(* The cache lists each PSK once, and the Pi's own, if at all, last.       *)
LEMMA NewestLast ==
    ASSUME NEW c \in Seq(CacheRow), NEW own \in Psks, CacheRuns(c, own)
    PROVE  /\ \A i \in DOMAIN c : c[i].psk <= own /\ (c[i].psk = own => i = Len(c))
           /\ own \in CachedPsks(c) => Len(c) \in DOMAIN c /\ c[Len(c)].psk = own
           /\ \A i, j \in DOMAIN c : c[i].psk = c[j].psk => i = j
  <1>1. Len(c) \in Nat /\ DOMAIN c = 1 .. Len(c)
    BY TableShape
  <1>2. own \in Int /\ \A i \in DOMAIN c : c[i].psk \in Int
    BY CachedNumbers DEF Psks
  <1>3. \A i, j \in DOMAIN c : i <= j => c[i].psk + (j - i) <= c[j].psk
    BY DEF CacheRuns
  <1>4. \A i \in DOMAIN c : c[i].psk <= own
    BY DEF CacheRuns
  <1>5. \A i \in DOMAIN c : c[i].psk <= own /\ (c[i].psk = own => i = Len(c))
    <2> TAKE i \in DOMAIN c
    <2>1. Len(c) \in DOMAIN c /\ i <= Len(c)
      BY <1>1
    <2>2. c[i].psk + (Len(c) - i) <= c[Len(c)].psk /\ c[Len(c)].psk <= own
      BY <1>3, <1>4, <2>1
    <2> QED
      BY <1>1, <1>2, <1>4, <2>1, <2>2
  <1>6. own \in CachedPsks(c) => Len(c) \in DOMAIN c /\ c[Len(c)].psk = own
    BY <1>5 DEF CachedPsks
  <1>7. \A i, j \in DOMAIN c : c[i].psk = c[j].psk => i = j
    <2> SUFFICES ASSUME NEW i \in DOMAIN c, NEW j \in DOMAIN c, c[i].psk = c[j].psk
                 PROVE  i = j
      OBVIOUS
    <2>1. i <= j => c[i].psk + (j - i) <= c[j].psk
      BY <1>3
    <2>2. j <= i => c[j].psk + (i - j) <= c[i].psk
      BY <1>3
    <2> QED
      BY <1>1, <1>2, <2>1, <2>2
  <1> QED
    BY <1>5, <1>6, <1>7

(* AddRecoveryPSK of the Pi's PSK continues the list: the entry is there   *)
(* already, or it goes to a free slot, or the oldest entry gives way.      *)
LEMMA AddedRuns ==
    ASSUME cache \in Seq(CacheRow), NEW own \in Psks, NEW p, NEW lost,
           CacheRuns(cache, own), RadioRuns(p, cache, own, lost)
    PROVE  CacheRuns(AddRecoveryPSK(own), own) /\ RadioRuns(p, AddRecoveryPSK(own), own, lost)
  <1>1. Len(cache) \in Nat /\ DOMAIN cache = 1 .. Len(cache)
    BY TableShape
  <1> PICK n \in Nat : n = Len(cache)
    BY <1>1, Zenon
  <1> DEFINE free == RecoverySlots \ {cache[i].slot : i \in DOMAIN cache}
             last == CHOOSE i \in DOMAIN cache : cache[i].psk = own
             low == CHOOSE s \in free : \A t \in free : s <= t
             new == AddRecoveryPSK(own)
  <1>2. own \in Int /\ Recoverable \in Nat /\ Recoverable >= 1
    BY SlotNumber DEF Psks
  <1>3. Cached(own) <=> own \in CachedPsks(cache)
    BY DEF Cached, CachedPsks
  <1>4. new \in Seq(CacheRow)
    BY AddedIsCached
  <1>5. CASE Cached(own)
    <2>1. last \in DOMAIN cache /\ cache[last].psk = own
      BY <1>5, Zenon DEF Cached
    <2>2. new = Append(RemoveAt(cache, last), cache[last])
      BY <1>5, Zenon DEF AddRecoveryPSK
    <2> HIDE DEF last, new
    <2>3. last = n /\ n \in 1 .. n
      BY <1>1, <2>1, NewestLast
    <2> PICK rest : rest = RemoveAt(cache, last)
      OBVIOUS
    <2>4. /\ rest \in Seq(CacheRow) /\ DOMAIN rest = 1 .. n - 1
          /\ \A i \in DOMAIN rest : rest[i] = IF i < last THEN cache[i] ELSE cache[i + 1]
      BY <2>1, RemoveAtLemma
    <2>5. Len(rest) = n - 1
      BY <2>3, <2>4, LenProperties
    <2>6. cache[last] \in CacheRow
      BY <2>1, TableShape
    <2>7. /\ Len(new) = n /\ new[n] = cache[n]
          /\ \A i \in 1 .. n - 1 : new[i] = rest[i]
      BY <2>2, <2>3, <2>4, <2>5, <2>6, AppendProperties
    <2>8. \A i \in 1 .. n : new[i] = cache[i]
      BY <2>3, <2>4, <2>7
    <2>9. new = cache
      BY <1>4, <2>7, <2>8, SeqEqual
    <2> QED
      BY <2>9 DEF new
  <1>6. CASE ~Cached(own)
    <2>1. /\ \A i, j \in DOMAIN cache : i <= j => cache[i].psk + (j - i) <= cache[j].psk
          /\ \A i, j \in DOMAIN cache : cache[i].slot = cache[j].slot => i = j
      BY DEF CacheRuns
    <2>2. \A i \in DOMAIN cache : cache[i].psk \in Int /\ cache[i].psk + 1 <= own
      <3>1. \A i \in DOMAIN cache : cache[i].psk <= own /\ cache[i].psk # own
        BY <1>6 DEF CacheRuns, Cached
      <3> QED
        BY <1>2, <3>1, CachedNumbers
    <2>3. \A k \in Psks \ lost : (k < own /\ k + Recoverable >= own) =>
             \E i \in DOMAIN cache : cache[i].psk = k /\ p[cache[i].slot] = Spare(k)
      BY <1>3, <1>6 DEF RadioRuns
    <2>4. n = Recoverable <=> free = {}
      BY <2>1, SlotsCounted
    <2>0. \A i \in DOMAIN cache : cache[i].psk + (n + 1 - i) <= own
      <3> TAKE i \in DOMAIN cache
      <3>1. n \in DOMAIN cache /\ i <= n
        BY <1>1
      <3>2. cache[i].psk + (n - i) <= cache[n].psk /\ cache[n].psk + 1 <= own
        BY <2>1, <2>2, <3>1
      <3>3. i \in Int /\ cache[i].psk \in Int /\ cache[n].psk \in Int
        BY <1>1, <2>2, <3>1
      <3> QED
        BY <1>2, <3>2, <3>3
    <2>5. CASE free # {}
      <3>1. low \in free
        BY <2>5, LowestSlot, SlotsAssumption
      <3>2. new = Append(cache, [slot |-> low, psk |-> own])
        BY <1>6, <2>5, Zenon DEF AddRecoveryPSK
      <3> HIDE DEF low, new
      <3> PICK e \in CacheRow : e = [slot |-> low, psk |-> own]
        BY <3>1 DEF CacheRow
      <3>3. /\ Len(new) = n + 1 /\ new[n + 1] = e
            /\ \A i \in 1 .. n : new[i] = cache[i]
        BY <3>2, AppendProperties
      <3>4. DOMAIN new = 1 .. n + 1
        BY <1>4, <3>3, TableShape
      <3>5. \A i \in DOMAIN new : i \in DOMAIN cache \/ i = n + 1
        BY <1>1, <3>4
      <3>6. \A i, j \in DOMAIN new : i <= j => new[i].psk + (j - i) <= new[j].psk
        <4> SUFFICES ASSUME NEW i \in DOMAIN new, NEW j \in DOMAIN new, i <= j
                     PROVE  new[i].psk + (j - i) <= new[j].psk
          OBVIOUS
        <4>1. CASE j \in DOMAIN cache
          <5>1. i \in DOMAIN cache /\ new[i] = cache[i] /\ new[j] = cache[j]
            BY <1>1, <3>3, <3>4, <4>1
          <5>2. cache[i].psk + (j - i) <= cache[j].psk
            BY <2>1, <5>1, <4>1
          <5> QED
            BY <5>1, <5>2
        <4>2. CASE j = n + 1 /\ i \in DOMAIN cache
          <5>1. new[i] = cache[i] /\ new[j].psk = own
            BY <1>1, <3>3, <4>2
          <5> QED
            BY <2>0, <4>2, <5>1
        <4>3. CASE j = n + 1 /\ i = n + 1
          BY <1>2, <3>3, <4>3
        <4> QED
          BY <3>5, <4>1, <4>2, <4>3
      <3>7. \A i \in DOMAIN new : new[i].psk <= own
        BY <1>1, <1>2, <2>2, <3>3, <3>5
      <3>8. \A i, j \in DOMAIN new : new[i].slot = new[j].slot => i = j
        <4>1. \A i \in 1 .. n : new[i].slot # e.slot
          BY <1>1, <3>1, <3>3
        <4> QED
          BY <1>1, <2>1, <3>3, <3>4, <4>1
      <3>9. RadioRuns(p, new, own, lost)
        BY <1>1, <2>3, <3>3, <3>4 DEF RadioRuns
      <3> QED
        BY <3>6, <3>7, <3>8, <3>9 DEF CacheRuns, new
    <2>6. CASE free = {}
      <3>1. new = Append(Tail(cache), [slot |-> Head(cache).slot, psk |-> own])
        BY <1>6, <2>6, Zenon DEF AddRecoveryPSK
      <3> HIDE DEF new
      <3>2. n = Recoverable /\ n >= 1
        BY <1>2, <2>4, <2>6
      <3>3. cache # <<>> /\ Head(cache) = cache[1] /\ cache[1] \in CacheRow
        BY <1>1, <3>2, TableShape
      <3> PICK rest \in Seq(CacheRow) : rest = Tail(cache)
        BY <3>3, HeadTailProperties
      <3>4. Len(rest) = n - 1 /\ \A i \in 1 .. n - 1 : rest[i] = cache[i + 1]
        BY <3>3, HeadTailProperties
      <3> PICK e \in CacheRow : e = [slot |-> cache[1].slot, psk |-> own]
        BY <3>3 DEF CacheRow
      <3>5. /\ Len(new) = n /\ new[n] = e
            /\ \A i \in 1 .. n - 1 : new[i] = cache[i + 1]
        BY <3>1, <3>2, <3>3, <3>4, AppendProperties
      <3>6. DOMAIN new = 1 .. n
        BY <1>4, <3>5, TableShape
      <3>7. own \in CachedPsks(new)
        BY <3>2, <3>5, <3>6 DEF CachedPsks
      <3>11. \A i \in DOMAIN new : i = n \/ (i \in 1 .. n - 1 /\ i + 1 \in DOMAIN cache)
        BY <1>1, <3>6
      <3>8. /\ \A i, j \in DOMAIN new : i <= j => new[i].psk + (j - i) <= new[j].psk
            /\ \A i \in DOMAIN new : new[i].psk <= own
        <4>1. ASSUME NEW i \in 1 .. n - 1
              PROVE  new[i].psk \in Int /\ new[i].psk + (n - i) <= own
          <5>1. i + 1 \in DOMAIN cache /\ new[i] = cache[i + 1]
            BY <1>1, <3>5
          <5>2. cache[i + 1].psk \in Int /\ cache[i + 1].psk + (n + 1 - (i + 1)) <= own
            BY <2>0, <2>2, <5>1
          <5> QED
            BY <1>2, <5>1, <5>2
        <4>2. ASSUME NEW i \in 1 .. n - 1, NEW j \in 1 .. n - 1, i <= j
              PROVE  new[i].psk + (j - i) <= new[j].psk
          <5>1. /\ i + 1 \in DOMAIN cache /\ new[i] = cache[i + 1]
                /\ j + 1 \in DOMAIN cache /\ new[j] = cache[j + 1] /\ i + 1 <= j + 1
            BY <1>1, <3>5, <4>2
          <5>2. cache[i + 1].psk + ((j + 1) - (i + 1)) <= cache[j + 1].psk
            BY <2>1, <5>1
          <5> QED
            BY <2>2, <5>1, <5>2
        <4>3. new[n].psk = own
          BY <3>5
        <4>4. \A i \in DOMAIN new : new[i].psk <= own
          BY <1>2, <3>11, <4>1, <4>3
        <4>5. ASSUME NEW i \in DOMAIN new, NEW j \in DOMAIN new, i <= j
              PROVE  new[i].psk + (j - i) <= new[j].psk
          <5>1. CASE i \in 1 .. n - 1 /\ j \in 1 .. n - 1
            BY <4>2, <4>5, <5>1
          <5>2. CASE i \in 1 .. n - 1 /\ j = n
            BY <4>1, <4>3, <5>2
          <5>3. CASE i = n /\ j = n
            BY <1>2, <4>3, <5>3
          <5> QED
            BY <3>11, <4>5, <5>1, <5>2, <5>3
        <4> QED
          BY <4>4, <4>5
      <3>9. \A i, j \in DOMAIN new : new[i].slot = new[j].slot => i = j
        <4>1. \A i \in 1 .. n - 1 : i + 1 \in DOMAIN cache /\ 1 \in DOMAIN cache /\ i + 1 # 1
          BY <1>1
        <4>2. \A i \in 1 .. n - 1 : new[i].slot # e.slot
          <5> TAKE i \in 1 .. n - 1
          <5>1. new[i].slot = cache[i + 1].slot /\ e.slot = cache[1].slot
            BY <3>5
          <5> QED
            BY <2>1, <4>1, <5>1
        <4>3. \A i, j \in 1 .. n - 1 : new[i].slot = new[j].slot => i = j
          <5> SUFFICES ASSUME NEW i \in 1 .. n - 1, NEW j \in 1 .. n - 1,
                              new[i].slot = new[j].slot
                       PROVE  i = j
            OBVIOUS
          <5>1. cache[i + 1].slot = cache[j + 1].slot
            BY <3>5
          <5>2. i + 1 = j + 1
            BY <2>1, <4>1, <5>1
          <5> QED
            BY <5>2
        <4> QED
          BY <3>5, <3>6, <4>2, <4>3
      <3>10. RadioRuns(p, new, own, lost)
        <4> SUFFICES ASSUME NEW k \in Psks \ lost, k < own, k + Recoverable >= own
                     PROVE  \/ \E i \in DOMAIN new : new[i].psk = k /\ p[new[i].slot] = Spare(k)
                            \/ /\ k + Recoverable = own /\ own \in CachedPsks(new)
                               /\ p[new[Len(new)].slot] = Spare(k)
          BY DEF RadioRuns
        <4> PICK i \in DOMAIN cache : cache[i].psk = k /\ p[cache[i].slot] = Spare(k)
          BY <2>3
        <4>1. i \in 1 .. n /\ k \in Int
          BY <1>1 DEF Psks
        <4>2. CASE i = 1
          <5>1. k + (n + 1 - 1) <= own
            BY <2>0, <4>2
          <5>2. k + Recoverable = own
            BY <1>2, <3>2, <4>1, <5>1
          <5> QED
            BY <3>5, <3>7, <4>2, <5>2
        <4>3. CASE i # 1
          <5>1. i - 1 \in 1 .. n - 1 /\ i - 1 \in DOMAIN new /\ (i - 1) + 1 = i
            BY <3>6, <4>1, <4>3
          <5>2. new[i - 1] = cache[i]
            BY <3>5, <5>1
          <5> QED
            BY <5>1, <5>2
        <4> QED
          BY <4>2, <4>3
      <3> QED
        BY <3>8, <3>9, <3>10 DEF CacheRuns, new
    <2> QED
      BY <2>5, <2>6
  <1> QED
    BY <1>5, <1>6

(* The recovery slot of the Pi's own PSK is that of the last entry.        *)
LEMMA NewestSlot ==
    ASSUME cache \in Seq(CacheRow), NEW own \in Psks, CacheRuns(cache, own), Cached(own)
    PROVE  /\ Len(cache) \in DOMAIN cache /\ cache[Len(cache)].psk = own
           /\ RecoverySlotOf(own) = cache[Len(cache)].slot
  <1> DEFINE e == CHOOSE x \in ToSet(cache) : x.psk = own
  <1>1. ToSet(cache) = {cache[i] : i \in DOMAIN cache}
    BY DEF ToSet
  <1>2. e \in ToSet(cache) /\ e.psk = own
    BY <1>1, Zenon DEF Cached
  <1>3. RecoverySlotOf(own) = e.slot
    BY DEF RecoverySlotOf
  <1> HIDE DEF e
  <1>4. PICK i \in DOMAIN cache : e = cache[i]
    BY <1>1, <1>2
  <1>5. i = Len(cache)
    BY <1>2, <1>4, NewestLast
  <1> QED
    BY <1>2, <1>3, <1>4, <1>5

(* The promotion past own fills the last entry's slot with it, and no      *)
(* other recovery slot; or it fills none, and own is missed.               *)
LEMMA PromotedRuns ==
    ASSUME cache \in Seq(CacheRow), NEW own \in Psks, NEW next \in Psks, own < next,
           NEW p, NEW q, NEW lost, NEW found,
           CacheRuns(cache, own), RadioRuns(p, cache, own, lost), lost \subseteq found,
           \A k \in Psks : own < k /\ k < next => k \in found,
           \/ /\ Cached(own) /\ q[RecoverySlotOf(own)] = Spare(own)
              /\ \A s \in RecoverySlots : s # RecoverySlotOf(own) => q[s] = p[s]
           \/ own \in found /\ \A s \in RecoverySlots : q[s] = p[s]
    PROVE  CacheRuns(cache, next) /\ RadioRuns(q, cache, next, found)
  <1> DEFINE n == Len(cache)
  <1>1. own \in Int /\ next \in Int /\ Recoverable \in Nat
    BY SlotNumber DEF Psks
  <1>2. Cached(own) =>
           n \in DOMAIN cache /\ cache[n].psk = own /\ RecoverySlotOf(own) = cache[n].slot
    BY NewestSlot
  <1>3. \A i \in DOMAIN cache : cache[i].psk \in Int /\ cache[i].slot \in RecoverySlots
    BY CachedNumbers
  <1>4. CacheRuns(cache, next)
    <2>1. \A i \in DOMAIN cache : cache[i].psk <= next
      BY <1>1, <1>3 DEF CacheRuns
    <2> QED
      BY <2>1 DEF CacheRuns
  <1>5. RadioRuns(q, cache, next, found)
    <2> SUFFICES ASSUME NEW k \in Psks \ found, k < next, k + Recoverable >= next
                 PROVE  \E i \in DOMAIN cache : cache[i].psk = k /\ q[cache[i].slot] = Spare(k)
      BY DEF RadioRuns
    <2>1. k \in Int /\ k \in Psks \ lost /\ k <= own
      BY <1>1 DEF Psks
    <2>2. CASE k = own
      BY <1>2, <2>2
    <2>3. CASE k # own
      <3>1. k < own /\ k + Recoverable >= own /\ k + Recoverable # own
        BY <1>1, <2>1, <2>3
      <3> PICK i \in DOMAIN cache : cache[i].psk = k /\ p[cache[i].slot] = Spare(k)
        BY <2>1, <3>1 DEF RadioRuns
      <3>2. Cached(own) => cache[i].slot # RecoverySlotOf(own)
        BY <1>2, <2>3 DEF CacheRuns
      <3>3. q[cache[i].slot] = p[cache[i].slot]
        BY <1>3, <3>2
      <3> QED
        BY <3>3
    <2> QED
      BY <2>2, <2>3
  <1> QED
    BY <1>4, <1>5

(* A step that leaves cache and recovery slots alone.                      *)
LEMMA RunsKept ==
    ASSUME cache \in Seq(CacheRow), NEW own, NEW p, NEW q, NEW lost, NEW found,
           RadioRuns(p, cache, own, lost), own \in Psks, CacheRuns(cache, own),
           lost \subseteq found, \A s \in RecoverySlots : q[s] = p[s]
    PROVE  RadioRuns(q, cache, own, found)
  <1>1. \A i \in DOMAIN cache : q[cache[i].slot] = p[cache[i].slot]
    BY CachedNumbers
  <1>2. own \in CachedPsks(cache) => Len(cache) \in DOMAIN cache
    BY NewestLast
  <1> QED
    BY <1>1, <1>2 DEF RadioRuns

-----------------------------------------------------------------------------
(* HistoryInv, action by action.                                           *)

(* No rotation is staged, and one is retired on a promoted Pi only, or     *)
(* missed.                                                                 *)
Onward ==
    \A r \in Rotations :
        /\ Staged(r)' => Staged(r)
        /\ rotation[r].opened /\ ~Retired(r) =>
              \/ rotation'[r].opened /\ ~Retired(r)'
              \/ r <= PiPsk \/ r \in missed'

(* Every row is an old one or about a staged rotation.                     *)
StagedRowsFollow ==
    \A j \in DOMAIN jobs' : \/ \E i \in DOMAIN jobs : jobs'[j].work = jobs[i].work
                            \/ RowStaged(PiPsk, pi, missed, jobs'[j].work)

(* A node that is stranded was so before, or is by a PSK the Pi has left.  *)
TrustFollows ==
    \A n \in Nodes : trust'[n].stranded =>
        \/ trust[n].stranded /\ trust'[n].prev = trust[n].prev
        \/ Left(trust'[n].prev, PiPsk)

(* Where the worker relies on what it knows of a PSK.                      *)
Knowing == {"a_stage", "a_channel", "a_enqueue", "frames", "c_radio", "c_retire", "c_strand"}

(* The Pi's PSK is a number, that of its PRIMARY channel.                  *)
LEMMA PiNumber ==
    ASSUME CoreInv, OrderInv
    PROVE  /\ PiPsk \in Psks /\ PiPsk \in Int /\ 0 <= PiPsk
           /\ PrimarySlot \in Slots /\ pi[PrimarySlot].role = "primary"
  <1>1. /\ PiPsk \in Psks
        /\ PrimarySlot \in Slots /\ pi[PrimarySlot].role = "primary"
    BY PrimaryFound DEF CoreInv, OrderInv, StagesBeside
  <1> QED
    BY <1>1 DEF Psks

(* The Pi is behind the open rotation until it is promoted, and has missed *)
(* the ones between.                                                       *)
LEMMA Behind ==
    ASSUME CoreInv, OrderInv, NEW r \in Rotations, rotation[r].opened, ~Retired(r), PiPsk # r
    PROVE  PiPsk < r /\ \A k \in Psks : PiPsk < k /\ k < r => k \in missed
  <1>1. PiPsk \in Psks /\ PiPsk \in Int /\ 0 <= PiPsk /\ r \in Int /\ 1 <= r
    BY PiNumber DEF Rotations
  <1>2. \A q \in Rotations :
           /\ Retired(q) => q < r
           /\ q # r => Retired(q) \/ Pending(q)
    BY OnlyOpen DEF OrderInv
  <1>3. ~(PiPsk > r)
    <2> SUFFICES ASSUME PiPsk > r PROVE FALSE
      OBVIOUS
    <2> PICK q \in Rotations : q = PiPsk
      BY <1>1 DEF Psks, Rotations
    <2>1. ~Retired(q) /\ q # r
      BY <1>1, <1>2
    <2>2. ~Pending(q)
      BY DEF OrderInv, StagesBeside
    <2> QED
      BY <1>2, <2>1, <2>2
  <1>4. ASSUME NEW k \in Psks, PiPsk < k, k < r
        PROVE  k \in missed
    <2>1. k \in Int
      BY DEF Psks
    <2> PICK q \in Rotations : q = k
      BY <1>1, <1>4, <2>1 DEF Psks, Rotations
    <2>2. Retired(q)
      BY <1>4 DEF OrderInv, InTurn
    <2> QED
      BY <1>1, <1>4, <2>1, <2>2 DEF OrderInv, RetiredOrMissed
  <1> QED
    BY <1>1, <1>3, <1>4

(* What has been given stays given while the Pi's radio is left alone.     *)
LEMMA StillGiven ==
    ASSUME pi' = pi, missed \subseteq missed', NEW k, OnAir(k)
    PROVE  Given(k, PiPsk', pi', missed')
  <1>1. PiPsk' = PiPsk
    BY SamePrimary
  <1> QED
    BY <1>1 DEF OnAir, Given

(* A worker that does not move still knows what it knew.                   *)
LEMMA StillKnows ==
    ASSUME CoreInv, OrderInv, WorkerKnows, pi' = pi, missed \subseteq missed', worker' = worker,
           Kept(jobs, jobs')
    PROVE  WorkerKnows'
  <1>0. PiPsk' = PiPsk
    BY SamePrimary
  <1>1. CASE worker.pc \notin Knowing
    BY <1>1 DEF WorkerKnows, Knowing
  <1>2. CASE worker.pc \in Knowing
    <2>1. worker.pc \notin Resting0
      BY <1>2 DEF Knowing, Resting0
    <2>2. work' = work
      BY <2>1, SameRow DEF CoreInv
    <2>3. worker.pc \in {"a_channel", "a_enqueue"} => Given(work.rot, PiPsk', pi', missed')
      BY StillGiven DEF WorkerKnows
    <2>4. worker.pc = "frames" => Given(worker.psk, PiPsk', pi', missed')
      BY StillGiven DEF WorkerKnows
    <2> QED
      BY <1>0, <2>2, <2>3, <2>4 DEF WorkerKnows, OnAir
  <1> QED
    BY <1>1, <1>2

(* A step that leaves the Pi's radio and the cache alone.                  *)
LEMMA HistoryKept ==
    ASSUME CoreInv, OrderInv, HistoryInv, pi' = pi, cache' = cache, missed \subseteq missed',
           Onward, \A n \in Nodes : OnAir(remote'[n].psk),
           StagedRowsFollow, TrustFollows, WorkerKnows'
    PROVE  HistoryInv'
  <1>1. PiPsk' = PiPsk
    BY SamePrimary
  <1>2. CacheRuns(cache, PiPsk)' /\ RadioRuns(pi, cache, PiPsk, missed)'
    <2>1. cache \in Seq(CacheRow) /\ PiPsk \in Psks
      BY PiNumber DEF CoreInv, TypeOK, CacheRow
    <2>2. CacheRuns(cache, PiPsk) /\ RadioRuns(pi, cache, PiPsk, missed)
      BY DEF HistoryInv
    <2>3. RadioRuns(pi, cache, PiPsk, missed')
      BY <2>1, <2>2, RunsKept
    <2>4. CacheRuns(cache', PiPsk') /\ RadioRuns(pi', cache', PiPsk', missed')
      BY <1>1, <2>2, <2>3
    <2> QED
      BY <2>4
  <1>3. SparesKnown' /\ StagedHeld'
    <2>1. ASSUME NEW s \in WorkSlots, NEW k \in Psks, pi'[s] = Spare(k)
          PROVE  \/ k <= PiPsk \/ k \in missed'
                 \/ k \in Rotations /\ rotation'[k].opened /\ ~Retired(k)'
      <3>1. \/ k <= PiPsk \/ k \in missed
            \/ k \in Rotations /\ rotation[k].opened /\ ~Retired(k)
        BY <2>1 DEF HistoryInv, SparesKnown
      <3> QED
        BY <3>1 DEF Onward
    <2>2. \A r \in Rotations : Staged(r)' => Given(r, PiPsk', pi', missed')
      BY StillGiven DEF HistoryInv, StagedHeld, Onward
    <2> QED
      BY <1>1, <2>1, <2>2 DEF SparesKnown, StagedHeld, OnAir
  <1>4. RemotesGiven'
    <2>1. \A n \in Nodes : Given(remote'[n].psk, PiPsk', pi', missed')
      BY StillGiven
    <2> QED
      BY <2>1 DEF RemotesGiven, OnAir
  <1>5. RowsStaged'
    <2>1. ASSUME NEW w, RowStaged(PiPsk, pi, missed, w)
          PROVE  RowStaged(PiPsk', pi', missed', w)
      BY <2>1, StillGiven DEF RowStaged, OnAir
    <2>2. \A i \in DOMAIN jobs : RowStaged(PiPsk, pi, missed, jobs[i].work)
      BY DEF HistoryInv, RowsStaged
    <2>3. \A j \in DOMAIN jobs' : RowStaged(PiPsk', pi', missed', jobs'[j].work)
      BY <2>1, <2>2 DEF StagedRowsFollow
    <2> QED
      BY <2>3 DEF RowsStaged
  <1>6. StrandedLeft'
    <2>1. \A n \in Nodes : trust'[n].stranded => Left(trust'[n].prev, PiPsk')
      BY <1>1 DEF TrustFollows, HistoryInv, StrandedLeft
    <2> QED
      BY <2>1 DEF StrandedLeft
  <1> QED
    BY <1>2, <1>3, <1>4, <1>5, <1>6 DEF HistoryInv

(* Rotations that keep their course go onward.                             *)
LEMMA SameOnward ==
    ASSUME SameCourse
    PROVE  Onward
  BY DEF SameCourse, Onward, Staged, Retired

(* INSERT: the old rows and the new one.                                   *)
LEMMA Enqueued ==
    ASSUME JobsOK(jobs), NEW w, jobs' = EnqueueRow(jobs, w)
    PROVE  /\ Kept(jobs, jobs')
           /\ \A j \in DOMAIN jobs' : \/ \E i \in DOMAIN jobs : jobs'[j].work = jobs[i].work
                                      \/ jobs'[j].work = w
  <1> DEFINE row == [work |-> w, state |-> "queued", attempts |-> 0, age |-> 0]
  <1>1. jobs' = Append(jobs, row)
    BY DEF EnqueueRow
  <1>2. row.work = w
    OBVIOUS
  <1> HIDE DEF row
  <1>3. Len(jobs) \in Nat /\ DOMAIN jobs = 1 .. Len(jobs)
    BY TableShape DEF JobsOK
  <1>4. /\ \A j \in DOMAIN jobs : j \in DOMAIN jobs' /\ jobs'[j] = jobs[j]
        /\ \A j \in DOMAIN jobs' : j \in DOMAIN jobs \/ jobs'[j] = row
    BY <1>1, <1>3
  <1> QED
    BY <1>2, <1>4 DEF Kept

(* The operations beside the worker add no Phase B row, strand no node and *)
(* stage no rotation.                                                      *)
LEMMA OperatorHistory ==
    ASSUME ~Overlap, CoreInv, OrderInv, HistoryInv,
           Operator \/ \E n \in Nodes : ObserveInboundPacket(n)
    PROVE  HistoryInv'
  <1>1. /\ pi' = pi /\ remote' = remote /\ cache' = cache /\ worker' = worker
        /\ missed' = missed
    BY Zenon DEF Operator, RotatePSK, RetireOldPSK, RetryRead, RetryWrite, VerifyTrust,
           ForceRecoverStranded, CancelStranded, ObserveInboundPacket, radios, tables
  <1>2. ASSUME NEW w, jobs' = EnqueueRow(jobs, w), w.kind # "rotate_phase_b"
        PROVE  Kept(jobs, jobs') /\ StagedRowsFollow
    <2>1. RowStaged(PiPsk, pi, missed, w)
      BY <1>2 DEF RowStaged
    <2> QED
      BY <1>2, <2>1, Enqueued DEF CoreInv, StagedRowsFollow
  <1>3. ASSUME jobs' = jobs
        PROVE  Kept(jobs, jobs') /\ StagedRowsFollow
    BY <1>3 DEF Kept, StagedRowsFollow
  <1>4. ASSUME trust' = trust
        PROVE  TrustFollows
    BY <1>4 DEF TrustFollows
  <1>5. ASSUME rotation' = rotation
        PROVE  Onward
    BY <1>5 DEF Onward, Staged, Retired
  <1>6. Kept(jobs, jobs') /\ StagedRowsFollow /\ TrustFollows /\ Onward
    <2>1. ASSUME NEW r \in Rotations, NEW T \in SUBSET Nodes, RotatePSK(r, T)
          PROVE  Kept(jobs, jobs') /\ StagedRowsFollow /\ TrustFollows /\ Onward
      <3>1. Pending(r)
        BY <2>1 DEF RotatePSK, OrderInv, InTurn
      <3>2. /\ rotation'[r].piPhase = "pending" /\ rotation'[r].opened
            /\ \A q \in Rotations : q # r => rotation'[q] = rotation[q]
        BY <2>1 DEF RotatePSK, CoreInv, TypeOK
      <3>3. Onward
        BY <3>1, <3>2 DEF Onward, Staged, Retired
      <3>4. PhaseAWork(r).kind # "rotate_phase_b"
        BY DEF PhaseAWork
      <3>5. (jobs' = jobs \/ jobs' = EnqueueRow(jobs, PhaseAWork(r))) /\ trust' = trust
        BY <2>1, Zenon DEF RotatePSK
      <3> QED
        BY <1>2, <1>3, <1>4, <3>3, <3>4, <3>5
    <2>2. ASSUME NEW r \in Rotations, RetireOldPSK(r)
          PROVE  Kept(jobs, jobs') /\ StagedRowsFollow /\ TrustFollows /\ Onward
      <3>1. PhaseCWork(r, rotation[r].staging).kind # "rotate_phase_b"
        BY DEF PhaseCWork
      <3>2. /\ jobs' = EnqueueRow(jobs, PhaseCWork(r, rotation[r].staging))
            /\ trust' = trust /\ rotation' = rotation
        BY <2>2 DEF RetireOldPSK, tables
      <3> QED
        BY <1>2, <1>4, <1>5, <3>1, <3>2
    <2>3. ASSUME NEW r \in Rotations, NEW W \in SUBSET Nodes, RetryRead(r, W)
          PROVE  Kept(jobs, jobs') /\ StagedRowsFollow /\ TrustFollows /\ Onward
      BY <1>3, <1>4, <1>5, <2>3 DEF RetryRead, tables
    <2>4. ASSUME RetryWrite
          PROVE  Kept(jobs, jobs') /\ StagedRowsFollow /\ TrustFollows /\ Onward
      <3>1. PhaseAWork(retry.rot).kind # "rotate_phase_b"
        BY DEF PhaseAWork
      <3>2. (jobs' = jobs \/ jobs' = EnqueueRow(jobs, PhaseAWork(retry.rot))) /\ trust' = trust
        BY <2>4, Zenon DEF RetryWrite
      <3>3. SameCourse
        BY <2>4, RetryCourse
      <3> QED
        BY <1>2, <1>3, <1>4, <3>1, <3>2, <3>3, SameOnward
    <2>5. ASSUME NEW n \in Nodes, VerifyTrust(n) \/ CancelStranded(n)
          PROVE  Kept(jobs, jobs') /\ StagedRowsFollow /\ TrustFollows /\ Onward
      <3>1. jobs' = jobs /\ rotation' = rotation
        BY <2>5 DEF VerifyTrust, CancelStranded
      <3>2. \A m \in Nodes : trust'[m].stranded =>
               trust[m].stranded /\ trust'[m].prev = trust[m].prev
        <4>0. trust \in [Nodes -> TrustRow]
          BY DEF CoreInv, TypeOK, TrustRow
        <4>1. CASE VerifyTrust(n)
          BY <4>0, <4>1 DEF VerifyTrust, TrustRow
        <4>2. CASE CancelStranded(n)
          <5>1. trust' \in {[trust EXCEPT ![n].stranded = FALSE, ![n].prev = NoPsk],
                            [trust EXCEPT ![n].stranded = FALSE]}
            BY <4>2, Zenon DEF CancelStranded
          <5> QED
            BY <4>0, <5>1 DEF TrustRow
        <4> QED
          BY <2>5, <4>1, <4>2
      <3>3. TrustFollows
        BY <3>2 DEF TrustFollows
      <3> QED
        BY <1>3, <1>5, <3>1, <3>3
    <2>6. ASSUME NEW n \in Nodes, ForceRecoverStranded(n) \/ ObserveInboundPacket(n)
          PROVE  Kept(jobs, jobs') /\ StagedRowsFollow /\ TrustFollows /\ Onward
      <3>1. PICK prev : jobs' = EnqueueRow(jobs, RecoverWork(n, prev))
        BY <2>6 DEF ObserveInboundPacket, ForceRecoverStranded, EnqueueRecovery
      <3>2. RecoverWork(n, prev).kind # "rotate_phase_b"
        BY DEF RecoverWork
      <3>3. trust' = trust /\ rotation' = rotation
        BY <2>6 DEF ObserveInboundPacket, ForceRecoverStranded, tables
      <3> QED
        BY <1>2, <1>4, <1>5, <3>1, <3>2, <3>3
    <2> QED
      BY <2>1, <2>2, <2>3, <2>4, <2>5, <2>6 DEF Operator
  <1>7. WorkerKnows'
    BY <1>1, <1>6, StillKnows DEF HistoryInv
  <1>8. \A n \in Nodes : OnAir(remote'[n].psk)
    BY <1>1 DEF HistoryInv, RemotesGiven
  <1> QED
    BY <1>1, <1>6, <1>7, <1>8, HistoryKept

(* A handler step, or the end of a handler, with what it leaves alone.     *)
LEMMA HandlerHistory ==
    ASSUME CoreInv, OrderInv, HistoryInv, pi' = pi, cache' = cache, remote' = remote, Onward,
           missed \subseteq missed', jobs' = jobs, TrustFollows, WorkerKnows' \/ worker'.pc \notin Knowing
    PROVE  HistoryInv'
  <1>1. StagedRowsFollow
    BY DEF StagedRowsFollow
  <1>2. WorkerKnows'
    BY DEF WorkerKnows, Knowing
  <1>3. \A n \in Nodes : OnAir(remote'[n].psk)
    BY DEF HistoryInv, RemotesGiven
  <1> QED
    BY <1>1, <1>2, <1>3, HistoryKept

(* The worker's life: rows are leased, closed and resumed.                 *)
LEMMA LoopHistory ==
    ASSUME CoreInv, OrderInv, HistoryInv,
           Lease \/ CloseJob \/ Crash \/ \E quick \in BOOLEAN : Restart(quick)
    PROVE  HistoryInv'
  <1>1. /\ pi' = pi /\ remote' = remote /\ cache' = cache
        /\ rotation' = rotation /\ trust' = trust /\ missed' = missed
    BY DEF Lease, CloseJob, Crash, Restart, radios, tables
  <1>2. Onward /\ TrustFollows
    BY <1>1 DEF Onward, Staged, Retired, TrustFollows
  <1>3. worker'.pc \in {"start", "idle", "down"}
    BY DEF Lease, CloseJob, Crash, Restart, Resting
  <1>4. WorkerKnows'
    BY <1>3 DEF WorkerKnows
  <1>5. StagedRowsFollow
    <2>1. ASSUME NEW new, DOMAIN new = DOMAIN jobs, Kept(jobs, new), jobs' = new
          PROVE  StagedRowsFollow
      BY <2>1 DEF Kept, StagedRowsFollow
    <2>2. CASE Lease
      <3>1. PICK j \in DOMAIN jobs : jobs' = LeaseRow(jobs, j)
        BY <2>2 DEF Lease
      <3> QED
        BY <2>1, <3>1, JobsLeased DEF CoreInv
    <2>3. CASE CloseJob
      <3>1. worker.job \in DOMAIN jobs
        BY <2>3 DEF CoreInv, HandlerOK, CloseJob, At, Resting0
      <3>2. \A i \in DOMAIN RemoveAt(jobs, worker.job) :
               \E j \in DOMAIN jobs : RemoveAt(jobs, worker.job)[i] = jobs[j]
        BY <3>1, JobsShrink DEF CoreInv
      <3>3. jobs' = jobs \/ jobs' = RemoveAt(jobs, worker.job)
        BY <2>3, Zenon DEF CloseJob
      <3> QED
        BY <3>2, <3>3 DEF StagedRowsFollow
    <2>4. CASE Crash
      BY <2>4 DEF Crash, StagedRowsFollow
    <2>5. ASSUME NEW quick \in BOOLEAN, Restart(quick)
          PROVE  StagedRowsFollow
      <3> DEFINE new == ResumeStaleLeases(AgeRows(jobs, 1), 0)
      <3>1. Kept(jobs, new) /\ DOMAIN new = DOMAIN jobs
        BY JobsResumed DEF CoreInv
      <3> HIDE DEF new
      <3>3. jobs' = jobs \/ jobs' = new
        BY <2>5 DEF Restart, new
      <3> QED
        BY <2>1, <3>1, <3>3 DEF StagedRowsFollow
    <2> QED
      BY <2>2, <2>3, <2>4, <2>5
  <1>6. \A n \in Nodes : OnAir(remote'[n].psk)
    BY <1>1 DEF HistoryInv, RemotesGiven
  <1> QED
    BY <1>1, <1>2, <1>4, <1>5, <1>6, HistoryKept

(* Handler steps that leave radios, rotations and stranded flags alone,    *)
(* and after which the worker knows nothing.                               *)
LEMMA QuietHistory ==
    ASSUME CoreInv, OrderInv, HistoryInv,
           Return \/ MigrateNoSession \/ MigrateVerify
    PROVE  HistoryInv'
  <1>1. /\ pi' = pi /\ remote' = remote /\ cache' = cache /\ jobs' = jobs
        /\ rotation' = rotation /\ trust' = trust /\ missed' = missed
    BY DEF Return, MigrateNoSession, MigrateVerify, radios, tables
  <1>2. Onward /\ TrustFollows
    BY <1>1 DEF Onward, Staged, Retired, TrustFollows
  <1>3. worker'.pc \notin Knowing
    <2>0. worker \in WorkerType
      BY DEF CoreInv, TypeOK
    <2>1. CASE Return
      BY <2>0, <2>1 DEF Return, Goto, Knowing, WorkerType
    <2>2. CASE MigrateNoSession \/ MigrateVerify
      <3>1. RecordPc \in {"b_record", "r_record"}
        BY DEF RecordPc
      <3>2. worker'.pc = RecordPc
        BY <2>0, <2>2 DEF MigrateNoSession, MigrateVerify, WorkerType
      <3> QED
        BY <3>1, <3>2 DEF Knowing
    <2> QED
      BY <2>1, <2>2
  <1> QED
    BY <1>1, <1>2, <1>3, HandlerHistory

(* A remote keeps its PSK, loses it or gets the one that it is sent.       *)
LEMMA AfterFramesPsk ==
    ASSUME NEW chan \in [slot : WorkSlots, psk : Psks \cup {NoPsk}], NEW got,
           NEW staging \in WorkSlots, NEW old, NEW psk \in Psks \cup {NoPsk}
    PROVE  AfterFrames(chan, got, staging, old, psk).psk \in {chan.psk, NoPsk, psk}
  <1> DEFINE promoted == IF "promote" \in got THEN [slot |-> staging, psk |-> psk] ELSE chan
             wiped == IF "disable" \in got /\ promoted.slot = old
                      THEN [promoted EXCEPT !.psk = NoPsk] ELSE promoted
  <1>1. /\ promoted \in [slot : WorkSlots, psk : Psks \cup {NoPsk}]
        /\ promoted.psk \in {chan.psk, psk}
    OBVIOUS
  <1> HIDE DEF promoted
  <1>2. wiped.psk \in {promoted.psk, NoPsk}
    BY <1>1
  <1>3. AfterFrames(chan, got, staging, old, psk) \in {chan, wiped}
    BY Zenon DEF AfterFrames, promoted
  <1> HIDE DEF wiped
  <1> QED
    BY <1>1, <1>2, <1>3

(* A migration hands out PSKs that have been given before.                 *)
LEMMA MigrateSendHistory ==
    ASSUME CoreInv, OrderInv, HistoryInv, MigrateSend
    PROVE  HistoryInv'
  <1> DEFINE m == work.node
  <1>1. /\ pi' = pi /\ cache' = cache /\ jobs' = jobs
        /\ rotation' = rotation /\ trust' = trust /\ missed' = missed
    BY DEF MigrateSend, tables
  <1>2. Onward /\ TrustFollows /\ StagedRowsFollow
    BY <1>1 DEF Onward, Staged, Retired, TrustFollows, StagedRowsFollow
  <1>3. WorkerKnows'
    <2>1. worker'.pc = "verify"
      BY DEF MigrateSend, Goto, CoreInv, TypeOK, WorkerType
    <2> QED
      BY <2>1 DEF WorkerKnows
  <1>4. worker.pc = "frames" /\ worker.pc \notin Resting0
    BY DEF MigrateSend, At, Resting0
  <1>5. m \in Nodes /\ worker.staging \in WorkSlots /\ worker.psk \in Psks \cup {NoPsk}
    BY <1>4, WorkFits DEF CoreInv, Stage, Fits, TypeOK, WorkerType
  <1>6. PICK got :
           remote' = [remote EXCEPT
               ![m] = AfterFrames(@, got, worker.staging, worker.old, worker.psk)]
    BY DEF MigrateSend
  <1>7. remote \in RemoteType
    BY DEF CoreInv, TypeOK, RemoteType
  <1> DEFINE chan == AfterFrames(remote[m], got, worker.staging, worker.old, worker.psk)
  <1>8. chan.psk \in {remote[m].psk, NoPsk, worker.psk}
    BY <1>5, <1>7, AfterFramesPsk DEF RemoteType
  <1>9. remote' = [remote EXCEPT ![m] = chan]
    BY <1>6
  <1> HIDE DEF chan, m
  <1>10. remote'[m] = chan /\ \A n \in Nodes : n # m => remote'[n] = remote[n]
    BY <1>5, <1>7, <1>9 DEF RemoteType
  <1>11. OnAir(NoPsk)
    <2>1. PiPsk \in Int /\ 0 <= PiPsk
      BY PiNumber
    <2> QED
      BY <2>1 DEF OnAir, Given, NoPsk
  <1>12. OnAir(worker.psk) /\ \A n \in Nodes : OnAir(remote[n].psk)
    BY <1>4 DEF HistoryInv, WorkerKnows, RemotesGiven
  <1>13. \A n \in Nodes : OnAir(remote'[n].psk)
    BY <1>5, <1>8, <1>10, <1>11, <1>12
  <1> QED
    BY <1>1, <1>2, <1>3, <1>13, HistoryKept

(* A rotation that is past pending has been on the air.                    *)
LEMMA PastPending ==
    ASSUME CoreInv, OrderInv, HistoryInv, NEW r \in Rotations, ~Pending(r)
    PROVE  OnAir(r)
  <1>1. Staged(r) \/ Retired(r)
    BY DEF Staged, Retired, Pending, CoreInv, TypeOK, RotationType
  <1>2. PiPsk \in Int /\ r \in Int
    BY PiNumber DEF Rotations
  <1>3. CASE Staged(r)
    BY <1>3 DEF HistoryInv, StagedHeld
  <1>4. CASE Retired(r)
    BY <1>2, <1>4 DEF OrderInv, RetiredOrMissed, OnAir, Given
  <1> QED
    BY <1>1, <1>3, <1>4

(* Phase A picks a slot ...                                                *)
LEMMA PhaseAPickHistory ==
    ASSUME CoreInv, OrderInv, HistoryInv, PhaseAPick
    PROVE  HistoryInv'
  <1> DEFINE r == work.rot
  <1>1. worker.pc \notin Resting0 /\ work.kind = "rotate_phase_a"
    BY DEF PhaseAPick, Running, At, Resting0
  <1>2. r \in Rotations
    BY <1>1, WorkFits DEF CoreInv, Fits
  <1>3. rotation \in RotationTable
    BY DEF CoreInv, TypeOK, RotationTable
  <1>4. \A q \in Rotations : /\ rotation'[q].piPhase = rotation[q].piPhase
                             /\ rotation'[q].opened = rotation[q].opened
    <2>1. rotation' \in {rotation, [rotation EXCEPT ![r].staging = StagingSlot(r)]}
      BY Zenon DEF PhaseAPick
    <2> QED
      BY <1>2, <1>3, <2>1 DEF RotationTable, RotationType
  <1>5. Onward
    BY <1>4 DEF Onward, Staged, Retired
  <1>6. /\ pi' = pi /\ remote' = remote /\ cache' = cache /\ jobs' = jobs /\ trust' = trust
        /\ missed' = missed
    BY DEF PhaseAPick, radios
  <1>7. TrustFollows
    BY <1>6 DEF TrustFollows
  <1>8. WorkerKnows'
    <2>1. /\ worker'.pc = IF rotation[r].piPhase = "pending" THEN "a_stage" ELSE "a_channel"
          /\ worker'.psk = r /\ worker'.job = worker.job
      BY DEF PhaseAPick, CoreInv, TypeOK, WorkerType
    <2>2. work' = work
      BY <1>1, <1>6, <2>1, SameRow, KeptItself DEF CoreInv
    <2>3. rotation[r].piPhase # "pending" => Given(r, PiPsk', pi', missed')
      <3> HAVE rotation[r].piPhase # "pending"
      <3>1. OnAir(r)
        BY <1>2, PastPending DEF Pending
      <3> QED
        BY <1>6, <3>1, StillGiven
    <2> QED
      BY <2>1, <2>2, <2>3 DEF WorkerKnows, OnAir
  <1> QED
    BY <1>5, <1>6, <1>7, <1>8, HandlerHistory

(* ... records the channel ...                                             *)
LEMMA PhaseAChannelHistory ==
    ASSUME CoreInv, OrderInv, HistoryInv, PhaseAChannel
    PROVE  HistoryInv'
  <1>1. /\ pi' = pi /\ remote' = remote /\ cache' = cache /\ rotation' = rotation
        /\ trust' = trust /\ jobs' = jobs /\ missed' = missed
    BY DEF PhaseAChannel, radios
  <1>2. Onward /\ TrustFollows
    BY <1>1 DEF Onward, Staged, Retired, TrustFollows
  <1>3. worker.pc = "a_channel" /\ worker.pc \notin Resting0
    BY DEF PhaseAChannel, At, Resting0
  <1>4. worker'.pc \in {"close", "a_enqueue"} /\ worker'.job = worker.job
    BY DEF PhaseAChannel, Goto, CoreInv, TypeOK, WorkerType
  <1>5. WorkerKnows'
    <2>1. work' = work
      BY <1>1, <1>3, <1>4, SameRow, KeptItself DEF CoreInv
    <2>2. Given(work.rot, PiPsk', pi', missed')
      BY <1>1, <1>3, StillGiven DEF HistoryInv, WorkerKnows
    <2> QED
      BY <1>4, <2>1, <2>2 DEF WorkerKnows, OnAir
  <1> QED
    BY <1>1, <1>2, <1>5, HandlerHistory

(* ... and enqueues Phase B for a rotation that it knows to be staged.     *)
LEMMA PhaseAEnqueueHistory ==
    ASSUME CoreInv, OrderInv, HistoryInv, PhaseAEnqueue
    PROVE  HistoryInv'
  <1>1. /\ pi' = pi /\ remote' = remote /\ cache' = cache /\ rotation' = rotation
        /\ trust' = trust /\ missed' = missed
    BY DEF PhaseAEnqueue, radios, tables
  <1>2. Onward /\ TrustFollows
    BY <1>1 DEF Onward, Staged, Retired, TrustFollows
  <1>3. worker.pc = "a_enqueue" /\ worker.pc \notin Resting0
    BY DEF PhaseAEnqueue, At, Resting0
  <1>4. PICK n \in worker.todo, pc \in {"close", "a_enqueue"} :
           /\ jobs' = jobs \/ jobs' = EnqueuePhaseB(n)
           /\ worker' = [worker EXCEPT !.todo = @ \ {n}, !.pc = pc]
    BY EnqueuesOne
  <1>5. worker'.pc \in {"close", "a_enqueue"} /\ worker'.job = worker.job
    BY <1>4 DEF CoreInv, TypeOK, WorkerType
  <1>6. OnAir(work.rot)
    BY <1>3 DEF HistoryInv, WorkerKnows
  <1>7. Kept(jobs, jobs') /\ StagedRowsFollow
    <2> DEFINE w == PhaseBWork(work.rot, n, worker.staging, worker.old)
    <2>1. RowStaged(PiPsk, pi, missed, w)
      BY <1>6 DEF RowStaged, PhaseBWork, OnAir
    <2>2. jobs' = jobs \/ jobs' = EnqueueRow(jobs, w)
      BY <1>4 DEF EnqueuePhaseB
    <2> HIDE DEF w
    <2>3. CASE jobs' = jobs
      BY <2>3 DEF Kept, StagedRowsFollow
    <2>4. CASE jobs' = EnqueueRow(jobs, w)
      BY <2>1, <2>4, Enqueued DEF CoreInv, StagedRowsFollow
    <2> QED
      BY <2>2, <2>3, <2>4
  <1>8. WorkerKnows'
    <2>1. work' = work
      BY <1>3, <1>5, <1>7, SameRow DEF CoreInv
    <2>2. Given(work.rot, PiPsk', pi', missed')
      BY <1>1, <1>6, StillGiven
    <2> QED
      BY <1>5, <2>1, <2>2 DEF WorkerKnows, OnAir
  <1>9. \A m \in Nodes : OnAir(remote'[m].psk)
    BY <1>1 DEF HistoryInv, RemotesGiven
  <1> QED
    BY <1>1, <1>2, <1>7, <1>8, <1>9, HistoryKept

(* Phase B migrates to the PSK of a staged or retired rotation, recovery   *)
(* to the Pi's own.                                                        *)
LEMMA MigrateStartHistory ==
    ASSUME CoreInv, OrderInv, HistoryInv, PhaseBStart \/ RecoverStart
    PROVE  HistoryInv'
  <1>1. /\ pi' = pi /\ remote' = remote /\ cache' = cache /\ jobs' = jobs
        /\ missed' = missed
    BY Zenon DEF PhaseBStart, RecoverStart, radios
  <1>2. worker.pc \notin Resting0
    BY DEF PhaseBStart, RecoverStart, Running, At, Resting0
  <1>3. CASE PhaseBStart
    <2>1. work.kind = "rotate_phase_b" /\ worker.job \in DOMAIN jobs
      BY <1>2, <1>3 DEF PhaseBStart, Running, CoreInv, HandlerOK
    <2>2. OnAir(work.rot)
      BY <2>1 DEF HistoryInv, RowsStaged, RowStaged, work, OnAir
    <2>3. Onward
      BY <1>3, TargetCourse, SameOnward
    <2>4. WorkerKnows'
      <3>1. worker'.pc = "frames" /\ worker'.psk = work.rot
        BY <1>3 DEF PhaseBStart, CoreInv, TypeOK, WorkerType
      <3>2. Given(work.rot, PiPsk', pi', missed')
        BY <1>1, <2>2, StillGiven
      <3> QED
        BY <3>1, <3>2 DEF WorkerKnows, OnAir
    <2>5. TrustFollows
      BY <1>3 DEF PhaseBStart, TrustFollows
    <2> QED
      BY <1>1, <2>3, <2>4, <2>5, HandlerHistory
  <1>4. CASE RecoverStart
    <2>1. rotation' = rotation
      BY <1>4, Zenon DEF RecoverStart
    <2>2. Onward
      BY <2>1 DEF Onward, Staged, Retired
    <2>3. work.node \in Nodes
      BY <1>2, <1>4, WorkFits DEF RecoverStart, Running, CoreInv, Fits
    <2>4. TrustFollows
      <3>1. trust \in [Nodes -> TrustRow]
        BY DEF CoreInv, TypeOK, TrustRow
      <3>2. trust' \in {trust, [trust EXCEPT ![work.node].stranded = FALSE]}
        BY <1>4, Zenon DEF RecoverStart, ClearStranded
      <3> QED
        BY <2>3, <3>1, <3>2 DEF TrustFollows, TrustRow
    <2>5. PiPsk \in Int /\ PiPsk' = PiPsk
      BY <1>1, PiNumber, SamePrimary
    <2>6. \/ worker'.pc = "close"
          \/ worker'.pc = "frames" /\ worker'.psk = PiPsk
      <3>1. \/ worker' = [worker EXCEPT !.pc = "close"]
            \/ worker' = [worker EXCEPT !.pc = "frames", !.psk = PiPsk,
                                        !.staging = 1 - PrimarySlot, !.old = PrimarySlot]
        BY <1>4, Zenon DEF RecoverStart, Goto
      <3> QED
        BY <3>1 DEF CoreInv, TypeOK, WorkerType
    <2>7. WorkerKnows'
      BY <2>5, <2>6 DEF WorkerKnows, OnAir, Given
    <2> QED
      BY <1>1, <2>2, <2>4, <2>7, HandlerHistory
  <1> QED
    BY <1>3, <1>4

(* The records of a migration, ClearRotationPSK and the flag of a          *)
(* recovered node.                                                         *)
LEMMA RecordHistory ==
    ASSUME CoreInv, OrderInv, HistoryInv,
           PhaseBRecord \/ PhaseBStamp \/ PhaseCClear \/ RecoverRecord
    PROVE  HistoryInv'
  <1>1. /\ pi' = pi /\ remote' = remote /\ cache' = cache /\ jobs' = jobs
        /\ missed' = missed
    BY Zenon DEF PhaseBRecord, PhaseBStamp, PhaseCClear, RecoverRecord, radios
  <1>2. worker'.pc \notin Knowing
    <2>0. worker \in WorkerType
      BY DEF CoreInv, TypeOK
    <2>1. CASE PhaseBRecord
      BY <2>0, <2>1 DEF PhaseBRecord, Knowing, WorkerType
    <2>2. CASE PhaseBStamp \/ PhaseCClear \/ RecoverRecord
      <3>1. Goto("close")
        BY <2>2, Zenon DEF PhaseBStamp, PhaseCClear, RecoverRecord
      <3> QED
        BY <2>0, <3>1 DEF Goto, Knowing, WorkerType
    <2> QED
      BY <2>1, <2>2
  <1>3. SameCourse
    <2>1. CASE RecoverRecord
      BY <2>1 DEF RecoverRecord, SameCourse
    <2> QED
      BY <2>1, TargetCourse
  <1>4. TrustFollows
    <2>1. trust \in [Nodes -> TrustRow]
      BY DEF CoreInv, TypeOK, TrustRow
    <2>2. CASE PhaseBRecord \/ PhaseCClear
      BY <2>2 DEF PhaseBRecord, PhaseCClear, TrustFollows
    <2> DEFINE n == work.node
               stamped == [trust EXCEPT ![n].fp = worker.psk]
    <2>3. CASE PhaseBStamp
      <3>1. trust' \in {trust, stamped}
        BY <2>3, Zenon DEF PhaseBStamp
      <3> QED
        BY <2>1, <3>1 DEF TrustFollows, TrustRow
    <2>4. CASE RecoverRecord
      <3>1. \/ trust' \in {trust, stamped, [trust EXCEPT ![n].stranded = FALSE]}
            \/ trust' = [stamped EXCEPT ![n].stranded = FALSE]
        BY <2>4, Zenon DEF RecoverRecord, ClearStranded
      <3> QED
        BY <2>1, <3>1 DEF TrustFollows, TrustRow
    <2> QED
      BY <2>2, <2>3, <2>4
  <1> QED
    BY <1>1, <1>2, <1>3, <1>4, SameOnward, HandlerHistory

(* A rotation is retired when the Pi is on its PSK, or missed ...          *)
LEMMA RetireHistory ==
    ASSUME CoreInv, OrderInv, HistoryInv,
           PhaseCNothingToMigrate \/ PhaseCRetire \/ PhaseCRetireFails
    PROVE  HistoryInv'
  <1> DEFINE r == work.rot
  <1>1. /\ pi' = pi /\ remote' = remote /\ cache' = cache /\ jobs' = jobs /\ trust' = trust
        /\ missed' = missed \/ missed' = missed \cup {r}
    BY Zenon DEF PhaseCNothingToMigrate, PhaseCRetire, PhaseCRetireFails, radios
  <1>2. /\ r \in Rotations /\ r \in Int /\ ~Pending(r)
        /\ \A q \in Rotations : q # r => rotation'[q] = rotation[q]
        /\ rotation'[r].opened = rotation[r].opened
        /\ rotation'[r].piPhase \in {rotation[r].piPhase, "retired"}
        /\ PiPsk = r \/ r \in missed'
    BY RetireStep DEF Rotations
  <1>3. Onward
    <2> PICK q \in Rotations : q = r
      BY <1>2
    <2>1. rotation[q].opened /\ ~Retired(q) =>
             (rotation'[q].opened /\ ~Retired(q)') \/ q <= PiPsk \/ q \in missed'
      BY <1>2
    <2>2. Staged(q)' => Staged(q)
      BY <1>2 DEF Staged
    <2> HIDE DEF r
    <2> QED
      BY <1>2, <2>1, <2>2 DEF Onward, Staged, Retired
  <1>4. TrustFollows
    BY <1>1 DEF TrustFollows
  <1>5. WorkerKnows'
    <2>1. \/ worker'.pc = "close"
          \/ worker.pc = "c_retire" /\ worker'.pc = "c_strand" /\ worker'.prev = worker.prev
      <3>1. Goto("close") \/ (worker.pc = "c_retire" /\ Goto("c_strand"))
        BY Zenon DEF PhaseCNothingToMigrate, PhaseCRetire, PhaseCRetireFails, At
      <3> QED
        BY <3>1 DEF Goto, CoreInv, TypeOK, WorkerType
    <2>2. PiPsk' = PiPsk
      BY <1>1, SamePrimary
    <2> QED
      BY <2>1, <2>2 DEF HistoryInv, WorkerKnows
  <1> QED
    BY <1>1, <1>3, <1>4, <1>5, HandlerHistory

(* ... and the nodes that it strands are on one the Pi has left.           *)
LEMMA MarkStrandedHistory ==
    ASSUME CoreInv, OrderInv, HistoryInv, PhaseCMarkStranded
    PROVE  HistoryInv'
  <1>1. /\ pi' = pi /\ remote' = remote /\ cache' = cache /\ jobs' = jobs
        /\ rotation' = rotation /\ missed' = missed
    BY Zenon DEF PhaseCMarkStranded, radios
  <1>2. Onward
    BY <1>1 DEF Onward, Staged, Retired
  <1>3. worker.pc = "c_strand"
    BY Zenon DEF PhaseCMarkStranded, At
  <1>4. Left(worker.prev, PiPsk)
    BY <1>3 DEF HistoryInv, WorkerKnows
  <1>5. TrustFollows
    <2>1. trust \in [Nodes -> TrustRow]
      BY DEF CoreInv, TypeOK, TrustRow
    <2>0. PICK F : trust' = StrandedBy(F, worker.prev)
      BY Zenon DEF PhaseCMarkStranded
    <2>2. \A n \in Nodes : trust'[n] = trust[n] \/ trust'[n].prev = worker.prev
      <3> TAKE n \in Nodes
      <3> PICK row \in TrustRow : row = trust[n]
        BY <2>1
      <3> DEFINE flagged == [row EXCEPT !.stranded = TRUE, !.prev = worker.prev]
      <3>1. flagged.prev = worker.prev
        BY DEF TrustRow
      <3>2. trust'[n] \in {row, flagged}
        BY <2>0, Zenon DEF StrandedBy
      <3> HIDE DEF flagged
      <3> QED
        BY <3>1, <3>2
    <2> QED
      BY <1>4, <2>2 DEF TrustFollows
  <1>6. worker'.pc \notin Knowing
    <2>1. Goto("c_clear")
      BY Zenon DEF PhaseCMarkStranded
    <2> QED
      BY <2>1 DEF Goto, Knowing, CoreInv, TypeOK, WorkerType
  <1> QED
    BY <1>1, <1>2, <1>5, <1>6, HandlerHistory

-----------------------------------------------------------------------------
(* The steps that move the Pi's radio or the cache.                        *)

(* What has been given stays given.                                        *)
StaysOnAir == \A k \in Int : OnAir(k) => Given(k, PiPsk', pi', missed')

(* They leave remotes, rows and flags alone, and take no PSK back.         *)
LEMMA RadioStepKeeps ==
    ASSUME CoreInv, OrderInv, HistoryInv, NEW own \in Int, PiPsk' = own, PiPsk <= own, StaysOnAir,
           remote' = remote, trust' = trust, jobs' = jobs
    PROVE  RemotesGiven' /\ RowsStaged' /\ StrandedLeft'
  <1>1. PiPsk \in Int
    BY PiNumber
  <1>2. \A n \in Nodes : Given(remote'[n].psk, PiPsk', pi', missed')
    <2> TAKE n \in Nodes
    <2>1. remote[n].psk \in Int
      BY DEF CoreInv, TypeOK, Psks, NoPsk
    <2>2. OnAir(remote[n].psk)
      BY DEF HistoryInv, RemotesGiven
    <2> QED
      BY <2>1, <2>2 DEF StaysOnAir
  <1>3. \A j \in DOMAIN jobs' : RowStaged(PiPsk', pi', missed', jobs'[j].work)
    <2> TAKE j \in DOMAIN jobs'
    <2>1. Fits(jobs[j].work) /\ RowStaged(PiPsk, pi, missed, jobs[j].work)
      BY DEF CoreInv, JobsOK, HistoryInv, RowsStaged
    <2>2. jobs[j].work.kind = "rotate_phase_b" => jobs[j].work.rot \in Int
      BY <2>1 DEF Fits, Rotations
    <2> QED
      BY <2>1, <2>2 DEF RowStaged, StaysOnAir, OnAir
  <1>4. \A n \in Nodes : trust'[n].stranded => Left(trust'[n].prev, own)
    <2> TAKE n \in Nodes
    <2>1. trust[n].stranded => Left(trust[n].prev, PiPsk)
      BY DEF HistoryInv, StrandedLeft
    <2> QED
      BY <1>1, <2>1 DEF Left, Psks
  <1> QED
    BY <1>2, <1>3, <1>4 DEF RemotesGiven, RowsStaged, StrandedLeft, OnAir

(* A PSK staged beside the Pi's is that of the one open rotation.          *)
LEMMA SpareOfOpen ==
    ASSUME CoreInv, OrderInv, HistoryInv, NEW r \in Rotations, rotation[r].opened, ~Retired(r),
           NEW s \in WorkSlots, NEW k \in Psks, pi[s] = Spare(k)
    PROVE  k <= PiPsk \/ k \in missed \/ k = r
  <1>1. \/ k <= PiPsk \/ k \in missed
        \/ k \in Rotations /\ rotation[k].opened /\ ~Retired(k)
    BY DEF HistoryInv, SparesKnown
  <1>2. ASSUME k \in Rotations, rotation[k].opened, ~Retired(k)
        PROVE  k = r
    <2>1. k \in Int /\ r \in Int
      BY <1>2 DEF Rotations
    <2>2. ~(k < r) /\ ~(r < k)
      BY <1>2 DEF OrderInv, InTurn
    <2> QED
      BY <2>1, <2>2
  <1> QED
    BY <1>1, <1>2

(* Staging replaces a PSK that is not on the air, or is there otherwise,   *)
(* and leaves the recovery slots alone.                                    *)
LEMMA StagedRadio ==
    ASSUME CoreInv, CoreInv', OrderInv, HistoryInv, worker.pc = "a_stage", pi' = StagedPi,
           cache' = cache, missed' = missed,
           \A q \in Rotations : /\ rotation'[q].opened = rotation[q].opened
                                /\ Retired(q)' = Retired(q)
                                /\ q # work.rot => Staged(q)' = Staged(q)
    PROVE  /\ PiPsk' = PiPsk /\ StaysOnAir
           /\ CacheRuns(cache, PiPsk)' /\ RadioRuns(pi, cache, PiPsk, missed)'
           /\ Given(work.rot, PiPsk', pi', missed') /\ SparesKnown' /\ StagedHeld'
  <1>1. PiPsk' = PiPsk /\ PrimarySlot' = PrimarySlot
    BY StagedBeside DEF CoreInv
  <1>2. worker.pc \notin Resting0
    BY DEF Resting0
  <1>3. worker.staging \in WorkSlots /\ worker.staging \in Slots
    BY <1>2, WorkFits DEF CoreInv, Stage, Slots
  <1> PICK r \in Rotations : r = work.rot
    BY StagedBeside
  <1>4. /\ worker.psk = r /\ rotation[r].opened /\ ~Retired(r)
        /\ worker.staging # PrimarySlot
    BY StagedBeside DEF HistoryInv, WorkerKnows, Pending, Retired
  <1>5. /\ pi'[worker.staging] = Spare(r)
        /\ \A s \in Slots : s # worker.staging => pi'[s] = pi[s]
    BY <1>3, <1>4 DEF StagedPi, CoreInv, TypeOK, Spare
  <1>6. \A s \in RecoverySlots : s \in Slots /\ s # worker.staging
    BY <1>3, SlotsAssumption DEF Slots, WorkSlots
  <1>7. cache \in Seq(CacheRow) /\ PiPsk \in Psks
    BY PiNumber DEF CoreInv, TypeOK, CacheRow
  <1>8. CacheRuns(cache, PiPsk) /\ RadioRuns(pi, cache, PiPsk, missed)
    BY DEF HistoryInv
  <1>9. RadioRuns(pi', cache, PiPsk, missed')
    <2>1. \A s \in RecoverySlots : pi'[s] = pi[s]
      BY <1>5, <1>6
    <2> QED
      BY <1>7, <1>8, <2>1, RunsKept
  <1>10. CacheRuns(cache, PiPsk)' /\ RadioRuns(pi, cache, PiPsk, missed)'
    BY <1>1, <1>8, <1>9
  <1>12. Given(r, PiPsk', pi', missed')
    BY <1>3, <1>5 DEF Given
  <1>13. \A s \in WorkSlots, k \in Psks : pi[s] = Spare(k) =>
            k <= PiPsk \/ k \in missed \/ k = r
    BY <1>4, SpareOfOpen
  <1>14. StaysOnAir
    <2> SUFFICES ASSUME NEW k \in Int, OnAir(k) PROVE Given(k, PiPsk', pi', missed')
      BY DEF StaysOnAir
    <2>1. CASE k <= PiPsk \/ k \in missed
      BY <1>1, <2>1 DEF Given
    <2>2. ASSUME NEW s \in WorkSlots, pi[s] = Spare(k)
          PROVE  Given(k, PiPsk', pi', missed')
      <3>1. CASE s = worker.staging
        <4>1. k \in Psks \/ k = NoPsk
          <5>1. s \in Slots /\ pi[s].psk \in Psks \cup {NoPsk}
            BY DEF CoreInv, TypeOK, Slots
          <5> QED
            BY <2>2, <5>1 DEF Spare
        <4>2. k = NoPsk => k <= PiPsk
          BY PiNumber DEF NoPsk
        <4> QED
          BY <1>1, <1>12, <1>13, <2>2, <4>1, <4>2 DEF Given
      <3>2. CASE s # worker.staging
        <4>1. pi'[s] = Spare(k)
          BY <1>5, <2>2, <3>2 DEF Slots
        <4> QED
          BY <4>1 DEF Given
      <3> QED
        BY <3>1, <3>2
    <2> QED
      BY <2>1, <2>2 DEF OnAir, Given
  <1>15. SparesKnown'
    <2>1. ASSUME NEW s \in WorkSlots, NEW k \in Psks, pi'[s] = Spare(k)
          PROVE  \/ k <= PiPsk' \/ k \in missed'
                 \/ k \in Rotations /\ rotation'[k].opened /\ ~Retired(k)'
      <3>1. CASE s = worker.staging
        <4>1. k = r
          BY <1>5, <2>1, <3>1 DEF Spare
        <4> QED
          BY <1>4, <4>1
      <3>2. CASE s # worker.staging
        <4>1. pi[s] = Spare(k)
          BY <1>5, <2>1, <3>2 DEF Slots
        <4>2. \/ k <= PiPsk \/ k \in missed
              \/ k \in Rotations /\ rotation[k].opened /\ ~Retired(k)
          BY <4>1 DEF HistoryInv, SparesKnown
        <4> QED
          BY <1>1, <4>2
      <3> QED
        BY <3>1, <3>2
    <2> QED
      BY <2>1 DEF SparesKnown
  <1>16. StagedHeld'
    <2>1. ASSUME NEW q \in Rotations, Staged(q)'
          PROVE  Given(q, PiPsk', pi', missed')
      <3>1. CASE q = r
        BY <1>12, <3>1
      <3>2. CASE q # r
        <4>1. Staged(q)
          BY <2>1, <3>2
        <4>2. OnAir(q) /\ q \in Int
          BY <4>1 DEF HistoryInv, StagedHeld, Rotations
        <4> QED
          BY <1>14, <4>2 DEF StaysOnAir
      <3> QED
        BY <3>1, <3>2
    <2> QED
      BY <2>1 DEF StagedHeld, OnAir
  <1> QED
    BY <1>1, <1>10, <1>12, <1>14, <1>15, <1>16

(* Phase A stages the PSK, whether or not the rotation comes to say so ... *)
LEMMA PhaseAStageHistory ==
    ASSUME CoreInv, CoreInv', OrderInv, HistoryInv, PhaseAStage
    PROVE  HistoryInv'
  <1>1. worker.pc = "a_stage" /\ worker.pc \notin Resting0
    BY DEF PhaseAStage, At, Resting0
  <1> PICK r \in Rotations : r = work.rot
    BY <1>1, StagedBeside
  <1>2. /\ pi' = StagedPi /\ remote' = remote /\ trust' = trust /\ cache' = cache /\ jobs' = jobs
        /\ missed' = missed
    BY DEF PhaseAStage
  <1>3. rotation \in RotationTable /\ Pending(r)
    BY <1>1, StagedBeside DEF CoreInv, TypeOK, RotationTable
  <1>4. \A q \in Rotations : /\ rotation'[q].opened = rotation[q].opened
                             /\ Retired(q)' = Retired(q)
                             /\ q # work.rot => Staged(q)' = Staged(q)
    <2>1. rotation' \in {rotation, [rotation EXCEPT ![r].piPhase = "staging_added"]}
      BY Zenon DEF PhaseAStage
    <2>2. CASE rotation' = [rotation EXCEPT ![r].piPhase = "staging_added"]
      <3>1. /\ \A q \in Rotations : q # r => rotation'[q] = rotation[q]
            /\ rotation'[r].opened = rotation[r].opened
            /\ rotation'[r].piPhase = "staging_added"
        BY <1>3, <2>2 DEF RotationTable, RotationType
      <3> QED
        BY <1>3, <3>1 DEF Retired, Staged, Pending
    <2>3. CASE rotation' = rotation
      BY <2>3 DEF Retired, Staged
    <2> QED
      BY <2>1, <2>2, <2>3
  <1>5. /\ PiPsk' = PiPsk /\ StaysOnAir
        /\ CacheRuns(cache, PiPsk)' /\ RadioRuns(pi, cache, PiPsk, missed)'
        /\ Given(r, PiPsk', pi', missed') /\ SparesKnown' /\ StagedHeld'
    BY <1>1, <1>2, <1>4, StagedRadio
  <1>6. RemotesGiven' /\ RowsStaged' /\ StrandedLeft'
    <2>1. PiPsk \in Int /\ PiPsk <= PiPsk
      BY PiNumber
    <2> QED
      BY <1>2, <1>5, <2>1, RadioStepKeeps
  <1>7. WorkerKnows'
    <2>1. worker'.pc = "a_channel" /\ worker'.job = worker.job
      BY DEF PhaseAStage, Goto, CoreInv, TypeOK, WorkerType
    <2>2. work' = work
      BY <1>1, <1>2, <2>1, SameRow, KeptItself DEF CoreInv
    <2> QED
      BY <1>5, <2>1, <2>2 DEF WorkerKnows, OnAir
  <1> QED
    BY <1>5, <1>6, <1>7 DEF HistoryInv

(* ... and it may be there when SetChannel times out.                      *)
LEMMA PhaseAStageFailsHistory ==
    ASSUME CoreInv, CoreInv', OrderInv, HistoryInv, PhaseAStageFails
    PROVE  HistoryInv'
  <1>1. worker.pc = "a_stage"
    BY DEF PhaseAStageFails, At
  <1>2. /\ pi' \in {pi, StagedPi} /\ remote' = remote /\ trust' = trust /\ cache' = cache
        /\ jobs' = jobs /\ rotation' = rotation /\ missed' = missed
    BY DEF PhaseAStageFails, tables
  <1>3. worker'.pc = "close"
    BY DEF PhaseAStageFails, Goto, CoreInv, TypeOK, WorkerType
  <1>4. CASE pi' = pi
    <2>1. Onward /\ TrustFollows
      BY <1>2 DEF Onward, Staged, Retired, TrustFollows
    <2>2. worker'.pc \notin Knowing
      BY <1>3 DEF Knowing
    <2> QED
      BY <1>2, <1>4, <2>1, <2>2, HandlerHistory
  <1>5. CASE pi' = StagedPi
    <2>1. /\ PiPsk' = PiPsk /\ StaysOnAir
          /\ CacheRuns(cache, PiPsk)' /\ RadioRuns(pi, cache, PiPsk, missed)'
          /\ SparesKnown' /\ StagedHeld'
      <3>1. \A q \in Rotations : /\ rotation'[q].opened = rotation[q].opened
                                 /\ Retired(q)' = Retired(q)
                                 /\ q # work.rot => Staged(q)' = Staged(q)
        BY <1>2 DEF Retired, Staged
      <3> QED
        BY <1>1, <1>2, <1>5, <3>1, StagedRadio
    <2>2. RemotesGiven' /\ RowsStaged' /\ StrandedLeft'
      <3>1. PiPsk \in Int /\ PiPsk <= PiPsk
        BY PiNumber
      <3> QED
        BY <1>2, <2>1, <3>1, RadioStepKeeps
    <2>3. WorkerKnows'
      BY <1>3 DEF WorkerKnows
    <2> QED
      BY <2>1, <2>2, <2>3 DEF HistoryInv
  <1> QED
    BY <1>2, <1>4, <1>5

(* Phase C caches the Pi's PSK before it touches the radio, or fails to.   *)
LEMMA PhaseCStartHistory ==
    ASSUME CoreInv, OrderInv, HistoryInv, PhaseCStart
    PROVE  HistoryInv'
  <1>1. /\ pi' = pi /\ remote' = remote /\ trust' = trust /\ jobs' = jobs
        /\ rotation' = rotation /\ missed' = missed
        /\ cache' \in {cache, AddRecoveryPSK(PiPsk)}
    BY Zenon DEF PhaseCStart, radios
  <1>2. PiPsk' = PiPsk
    BY <1>1, SamePrimary
  <1>3. PiPsk \in Psks /\ PiPsk \in Int /\ PiPsk <= PiPsk
    BY PiNumber
  <1>4. CacheRuns(cache, PiPsk)' /\ RadioRuns(pi, cache, PiPsk, missed)'
    <2>1. cache \in Seq(CacheRow) /\ CacheRuns(cache, PiPsk) /\ RadioRuns(pi, cache, PiPsk, missed)
      BY DEF CoreInv, TypeOK, CacheRow, HistoryInv
    <2>2. CacheRuns(cache', PiPsk) /\ RadioRuns(pi, cache', PiPsk, missed)
      BY <1>1, <1>3, <2>1, AddedRuns
    <2> QED
      BY <1>1, <1>2, <2>2
  <1>5. SparesKnown' /\ StagedHeld'
    <2>1. \A q \in Rotations : (Staged(q)' = Staged(q)) /\ (Retired(q)' = Retired(q))
      BY <1>1 DEF Staged, Retired
    <2>2. SparesKnown'
      BY <1>1, <1>2, <2>1 DEF HistoryInv, SparesKnown
    <2>3. StagedHeld'
      BY <1>1, <1>2, <2>1 DEF HistoryInv, StagedHeld, OnAir
    <2> QED
      BY <2>2, <2>3
  <1>6. RemotesGiven' /\ RowsStaged' /\ StrandedLeft'
    <2>1. StaysOnAir
      BY <1>1, StillGiven DEF StaysOnAir
    <2> QED
      BY <1>1, <1>2, <1>3, <2>1, RadioStepKeeps
  <1>7. WorkerKnows'
    <2>1. worker'.pc = "c_radio" /\ worker'.prev = PiPsk
      <3>1. PICK ok \in BOOLEAN :
               worker' = [worker EXCEPT !.pc = "c_radio", !.snap = rotation[work.rot].target,
                                        !.staging = work.staging, !.old = PrimarySlot,
                                        !.psk = work.rot, !.prev = PiPsk, !.ok = ok]
        BY Zenon DEF PhaseCStart
      <3> QED
        BY <3>1 DEF CoreInv, TypeOK, WorkerType
    <2> QED
      BY <1>2, <2>1 DEF WorkerKnows
  <1> QED
    BY <1>4, <1>5, <1>6, <1>7 DEF HistoryInv

(* The transaction writes at most one recovery slot, and leaves no PSK     *)
(* staged.                                                                 *)
LEMMA PromotedSlots ==
    ASSUME CoreInv, worker.pc = "c_radio"
    PROVE  /\ worker.ok => /\ PromotedPi[RecoverySlotOf(worker.prev)] = Spare(worker.prev)
                           /\ \A s \in RecoverySlots :
                                 s # RecoverySlotOf(worker.prev) => PromotedPi[s] = pi[s]
           /\ ~worker.ok => \A s \in RecoverySlots : PromotedPi[s] = pi[s]
           /\ worker.staging # worker.old =>
                 \A s \in WorkSlots : PromotedPi[s].role # "secondary"
  <1> DEFINE a == worker.staging
             b == worker.old
             c == RecoverySlotOf(worker.prev)
             x == [role |-> "primary", psk |-> worker.psk]
             y == [role |-> "disabled", psk |-> NoPsk]
             z == Spare(worker.prev)
             swapped == [pi EXCEPT ![a] = x, ![b] = y]
             new == PromotedPi
  <1>1. worker.pc \notin Resting0
    BY DEF Resting0
  <1>2. a \in {0, 1} /\ b \in {0, 1}
    BY <1>1, WorkFits DEF CoreInv, Stage, WorkSlots
  <1>3. worker.ok => Cached(worker.prev)
    BY DEF CoreInv, HandlerOK
  <1>4. worker.ok => c \in RecoverySlots
    BY <1>3, RecoverySlotExists DEF CoreInv, TypeOK, CacheRow
  <1>5. /\ \A s \in RecoverySlots : s \in Slots /\ s # a /\ s # b
        /\ {a, b} \subseteq Slots /\ WorkSlots = {0, 1} /\ {0, 1} \subseteq Slots
        /\ 0 \notin RecoverySlots /\ 1 \notin RecoverySlots
    BY <1>2, SlotsAssumption DEF Slots, WorkSlots
  <1>6. new = IF worker.ok THEN [swapped EXCEPT ![c] = z] ELSE swapped
    BY DEF PromotedPi, SwappedPi, Spare
  <1>7. DOMAIN pi = Slots
    BY DEF CoreInv, TypeOK
  <1>8. x.role = "primary" /\ y.role = "disabled"
    OBVIOUS
  <1> HIDE DEF a, b, c, x, y, z, new
  <1>9. /\ DOMAIN swapped = Slots
        /\ a # b => swapped[a] = x
        /\ swapped[b] = y
        /\ \A s \in RecoverySlots : swapped[s] = pi[s]
    BY <1>2, <1>5, <1>7
  <1> HIDE DEF swapped
  <1>10. worker.ok => new[c] = z /\ \A s \in RecoverySlots : s # c => new[s] = pi[s]
    BY <1>4, <1>5, <1>6, <1>9
  <1>11. ~worker.ok => \A s \in RecoverySlots : new[s] = pi[s]
    BY <1>6, <1>9
  <1>12. a # b => new[a] = x /\ new[b] = y
    BY <1>2, <1>4, <1>5, <1>6, <1>9
  <1>13. a # b => \A s \in WorkSlots : s = a \/ s = b
    BY <1>2, <1>5
  <1>14. a # b => \A s \in WorkSlots : new[s].role # "secondary"
    BY <1>8, <1>12, <1>13
  <1> QED
    BY <1>10, <1>11, <1>14 DEF a, b, c, z, new

(* The Pi moves on to a newer PSK and keeps the one it leaves, if that one *)
(* has a recovery slot.                                                    *)
LEMMA PromotedHistory ==
    ASSUME CoreInv, CoreInv', OrderInv, HistoryInv, worker.pc = "c_radio", Promote,
           rotation' = rotation, jobs' = jobs, retry' = retry, cache' = cache,
           remote' = remote, trust' = trust
    PROVE  /\ CacheRuns(cache, PiPsk)' /\ RadioRuns(pi, cache, PiPsk, missed)'
           /\ SparesKnown' /\ StagedHeld'
           /\ RemotesGiven' /\ RowsStaged' /\ StrandedLeft'
           /\ PiPsk < PiPsk' /\ Left(worker.prev, PiPsk')
           /\ \A k \in Psks : PiPsk < k /\ k < PiPsk' => k \in missed
           /\ Staged(PiPsk') /\ (Cached(PiPsk) \/ PiPsk \in missed')
  <1>1. worker.pc \notin Resting0
    BY DEF Resting0
  <1>2. work.kind = "rotate_phase_c"
    BY <1>1, WorkFits DEF CoreInv, Stage
  <1> PICK r \in Rotations : r = work.rot
    BY <1>1, <1>2, PhaseCRow
  <1>3. /\ rotation[r].opened /\ Staged(r) /\ ~Retired(r) /\ PiPsk # r
        /\ worker.staging = rotation[r].staging /\ worker.old = PrimarySlot
        /\ worker.staging \in WorkSlots
    BY <1>1, <1>2, PhaseCRow DEF OrderInv, WorkerInTurn, Staged, Retired
  <1>4. worker.staging # worker.old
    <2>1. rotation[r].staging # NoSlot
      BY <1>3 DEF WorkSlots, NoSlot
    <2> QED
      BY <1>3, <2>1 DEF OrderInv, StagesBeside
  <1> PICK own \in Psks : own = PiPsk
    BY PiNumber
  <1>5. own < r /\ \A k \in Psks : own < k /\ k < r => k \in missed
    BY <1>3, Behind
  <1>6. r \in Psks /\ r \in Int /\ own \in Int
    BY DEF Psks, Rotations
  <1>7. pi' = PromotedPi /\ missed' = IF worker.ok THEN missed ELSE missed \cup {own}
    <2>1. worker.prev = own
      BY DEF HistoryInv, WorkerKnows
    <2> QED
      BY <2>1, Zenon DEF Promote
  <1>8. missed \subseteq missed' /\ (~worker.ok => own \in missed')
    BY <1>7
  <1>9. PiPsk' = r
    BY <1>7, PromotedInTurn
  <1>10. worker.prev = own /\ (worker.ok => Cached(own))
    BY DEF HistoryInv, WorkerKnows, CoreInv, HandlerOK
  <1>11. \/ /\ Cached(own) /\ pi'[RecoverySlotOf(own)] = Spare(own)
            /\ \A s \in RecoverySlots : s # RecoverySlotOf(own) => pi'[s] = pi[s]
         \/ own \in missed' /\ \A s \in RecoverySlots : pi'[s] = pi[s]
    <2>1. CASE worker.ok
      BY <1>7, <1>10, <2>1, PromotedSlots
    <2>2. CASE ~worker.ok
      BY <1>7, <1>8, <2>2, PromotedSlots
    <2> QED
      BY <2>1, <2>2
  <1>12. CacheRuns(cache, PiPsk)' /\ RadioRuns(pi, cache, PiPsk, missed)'
    <2>1. cache \in Seq(CacheRow) /\ CacheRuns(cache, own) /\ RadioRuns(pi, cache, own, missed)
      BY DEF CoreInv, TypeOK, CacheRow, HistoryInv
    <2>2. \A k \in Psks : own < k /\ k < r => k \in missed'
      BY <1>5, <1>8
    <2>3. CacheRuns(cache, r) /\ RadioRuns(pi', cache, r, missed')
      BY <1>5, <1>6, <1>8, <1>11, <2>1, <2>2, PromotedRuns
    <2> QED
      BY <1>9, <2>3
  <1>13. \A s \in WorkSlots : pi'[s].role # "secondary"
    BY <1>4, <1>7, PromotedSlots
  <1>14. SparesKnown'
    <2>1. \A s \in WorkSlots, k \in Psks : pi'[s] # Spare(k)
      BY <1>13 DEF Spare
    <2> QED
      BY <2>1 DEF SparesKnown
  <1>15. StaysOnAir
    <2> SUFFICES ASSUME NEW k \in Int, OnAir(k) PROVE k <= r \/ k \in missed'
      BY <1>9 DEF StaysOnAir, Given
    <2>1. k <= own \/ k \in missed => k <= r \/ k \in missed'
      BY <1>5, <1>6, <1>8
    <2>2. ASSUME NEW s \in WorkSlots, pi[s] = Spare(k)
          PROVE  k <= own \/ k \in missed \/ k = r
      <3>1. k \in Psks \/ k = NoPsk
        <4>1. s \in Slots /\ pi[s].psk \in Psks \cup {NoPsk}
          BY DEF CoreInv, TypeOK, Slots
        <4> QED
          BY <2>2, <4>1 DEF Spare
      <3>2. k = NoPsk => k <= own
        BY PiNumber DEF NoPsk
      <3> QED
        BY <1>3, <2>2, <3>1, <3>2, SpareOfOpen
    <2> QED
      BY <1>6, <2>1, <2>2 DEF OnAir, Given
  <1>16. StagedHeld'
    <2> SUFFICES ASSUME NEW q \in Rotations, Staged(q)'
                 PROVE  Given(q, PiPsk', pi', missed')
      BY DEF StagedHeld, OnAir
    <2>1. Staged(q) /\ q \in Int
      BY DEF Staged, Rotations
    <2>2. OnAir(q)
      BY <2>1 DEF HistoryInv, StagedHeld
    <2> QED
      BY <1>15, <2>1, <2>2 DEF StaysOnAir
  <1>17. RemotesGiven' /\ RowsStaged' /\ StrandedLeft'
    <2>1. PiPsk <= r
      BY <1>5, <1>6
    <2> QED
      BY <1>6, <1>9, <1>15, <2>1, RadioStepKeeps
  <1>18. /\ PiPsk < PiPsk' /\ Left(worker.prev, PiPsk')
         /\ \A k \in Psks : PiPsk < k /\ k < PiPsk' => k \in missed
    BY <1>5, <1>9, <1>10 DEF Left
  <1>19. Staged(PiPsk') /\ (Cached(PiPsk) \/ PiPsk \in missed')
    BY <1>3, <1>8, <1>9, <1>10
  <1> QED
    BY <1>12, <1>14, <1>16, <1>17, <1>18, <1>19

(* Acknowledged or not, the transaction has been applied or discarded.     *)
LEMMA PromoteHistory ==
    ASSUME CoreInv, CoreInv', OrderInv, HistoryInv, PhaseCPromote \/ PhaseCPromoteFails
    PROVE  HistoryInv'
  <1>1. worker.pc = "c_radio"
    BY DEF PhaseCPromote, PhaseCPromoteFails, At
  <1>2. /\ rotation' = rotation /\ jobs' = jobs /\ retry' = retry /\ cache' = cache
        /\ remote' = remote /\ trust' = trust
    BY DEF PhaseCPromote, PhaseCPromoteFails, tables
  <1>3. /\ Promote \/ (pi' = pi /\ missed' = missed /\ worker'.pc = "close")
        /\ \/ worker'.pc = "close"
           \/ worker'.pc = "c_retire" /\ worker'.prev = worker.prev
    BY DEF PhaseCPromote, PhaseCPromoteFails, Goto, CoreInv, TypeOK, WorkerType
  <1>4. CASE Promote
    <2>1. /\ CacheRuns(cache, PiPsk)' /\ RadioRuns(pi, cache, PiPsk, missed)'
          /\ SparesKnown' /\ StagedHeld'
          /\ RemotesGiven' /\ RowsStaged' /\ StrandedLeft' /\ Left(worker.prev, PiPsk')
      BY <1>1, <1>2, <1>4, PromotedHistory
    <2>2. WorkerKnows'
      BY <1>3, <2>1 DEF WorkerKnows
    <2> QED
      BY <2>1, <2>2 DEF HistoryInv
  <1>5. CASE pi' = pi /\ missed' = missed /\ worker'.pc = "close"
    <2>1. Onward /\ TrustFollows
      BY <1>2 DEF Onward, Staged, Retired, TrustFollows
    <2>2. worker'.pc \notin Knowing
      BY <1>5 DEF Knowing
    <2> QED
      BY <1>2, <1>5, <2>1, <2>2, HandlerHistory
  <1> QED
    BY <1>3, <1>4, <1>5

-----------------------------------------------------------------------------
(* HistoryInv is an invariant where rotations do not overlap.              *)

(* HistoryInv holds at the start ...                                       *)
LEMMA InitHistory == Init => HistoryInv
  <1> SUFFICES ASSUME Init PROVE HistoryInv
    OBVIOUS
  <1>1. 0 \in Slots /\ pi[0] = [role |-> "primary", psk |-> 0]
    BY DEF Init, Slots, WorkSlots
  <1>2. PrimarySlot = 0
    BY <1>1, InitCore, PrimaryAt DEF PrimarySlot, CoreInv
  <1>3. PiPsk = 0
    BY <1>1, <1>2 DEF PiPsk
  <1>4. cache = <<>> /\ DOMAIN cache = {}
    BY DEF Init
  <1>5. CacheRuns(cache, PiPsk)
    BY <1>4 DEF CacheRuns
  <1>6. RadioRuns(pi, cache, PiPsk, missed)
    BY <1>3 DEF RadioRuns, Psks
  <1>7. SparesKnown
    <2>1. \A s \in WorkSlots : pi[s].role # "secondary"
      BY DEF Init, Slots
    <2>2. \A s \in WorkSlots, k \in Psks : pi[s] # Spare(k)
      BY <2>1 DEF Spare
    <2> QED
      BY <2>2 DEF SparesKnown
  <1>8. StagedHeld
    BY DEF Init, StagedHeld, Staged
  <1>9. RemotesGiven
    BY <1>3 DEF Init, RemotesGiven, OnAir, Given
  <1>10. RowsStaged /\ StrandedLeft
    BY DEF Init, RowsStaged, StrandedLeft
  <1>11. WorkerKnows
    BY DEF Init, WorkerKnows, Resting
  <1> QED
    BY <1>5, <1>6, <1>7, <1>8, <1>9, <1>10, <1>11 DEF HistoryInv

(* ... and after every step ...                                            *)
LEMMA NextHistory ==
    ASSUME ~Overlap, CoreInv, CoreInv', OrderInv, HistoryInv, [Next]_vars
    PROVE  HistoryInv'
  <1>1. CASE Operator \/ \E n \in Nodes : ObserveInboundPacket(n)
    BY <1>1, OperatorHistory
  <1>2. CASE Lease \/ CloseJob \/ Crash \/ \E quick \in BOOLEAN : Restart(quick)
    BY <1>2, LoopHistory
  <1>3. CASE PhaseAFails \/ PhaseAEnqueueFails \/ PhaseBSkips \/ PhaseCSkips \/ RecoverFails
    <2>1. Return
      BY <1>3, Zenon DEF PhaseAFails, PhaseAEnqueueFails, PhaseBSkips, PhaseCSkips, RecoverFails
    <2> QED
      BY <2>1, QuietHistory
  <1>4. CASE MigrateSend \/ MigrateNoSession \/ MigrateVerify
    BY <1>4, QuietHistory, MigrateSendHistory
  <1>5. CASE PhaseAPick \/ PhaseAStage \/ PhaseAStageFails \/ PhaseAChannel \/ PhaseAEnqueue
    BY <1>5, PhaseAPickHistory, PhaseAStageHistory, PhaseAStageFailsHistory,
       PhaseAChannelHistory, PhaseAEnqueueHistory
  <1>6. CASE PhaseBStart \/ RecoverStart
    BY <1>6, MigrateStartHistory
  <1>7. CASE PhaseBRecord \/ PhaseBStamp \/ PhaseCClear \/ RecoverRecord
    BY <1>7, RecordHistory
  <1>8. CASE \/ PhaseCNothingToMigrate \/ PhaseCStart \/ PhaseCPromote \/ PhaseCPromoteFails
             \/ PhaseCRetire \/ PhaseCRetireFails \/ PhaseCMarkStranded
    BY <1>8, RetireHistory, PhaseCStartHistory, PromoteHistory, MarkStrandedHistory
  <1>9. CASE UNCHANGED vars
    <2>1. /\ pi' = pi /\ remote' = remote /\ cache' = cache /\ jobs' = jobs /\ missed' = missed
          /\ worker' = worker /\ rotation' = rotation /\ trust' = trust
      BY <1>9 DEF vars
    <2>2. Onward /\ TrustFollows /\ Kept(jobs, jobs')
      BY <2>1 DEF Onward, Staged, Retired, TrustFollows, Kept
    <2>3. WorkerKnows'
      BY <2>1, <2>2, SamePrimary, StillKnows DEF HistoryInv
    <2> QED
      BY <2>1, <2>2, <2>3, HandlerHistory
  <1> QED
    BY <1>1, <1>2, <1>3, <1>4, <1>5, <1>6, <1>7, <1>8, <1>9 DEF Next, Handler

(* ... hence always.                                                       *)
LEMMA History == ASSUME ~Overlap PROVE Spec => []HistoryInv
  <1>1. CoreInv /\ CoreInv' /\ OrderInv /\ HistoryInv /\ [Next]_vars => HistoryInv'
    BY NextHistory
  <1> QED
    BY <1>1, InitHistory, Core, Order, PTL DEF Spec

(* A PSK that a channel of the Pi holds is one of its keys.                *)
LEMMA HeldKey ==
    ASSUME NEW s \in Slots, NEW k, pi[s].psk = k, pi[s].role # "disabled"
    PROVE  k \in PiKeys
  BY DEF PiKeys

(* A PSK in the run is cached and on the radio, unless the coming          *)
(* promotion has already claimed its place in the cache.                   *)
LEMMA RunHeld ==
    ASSUME CoreInv, OrderInv, HistoryInv, NEW k \in Psks, k \notin missed,
           k < PiPsk, k + Recoverable >= PiPsk
    PROVE  /\ k \in PiKeys
           /\ Cached(k) \/ (k + Recoverable = PiPsk /\ Cached(PiPsk))
  <1>1. cache \in Seq(CacheRow) /\ PiPsk \in Psks /\ CacheRuns(cache, PiPsk)
    BY PiNumber DEF CoreInv, TypeOK, CacheRow, HistoryInv
  <1>2. \A i \in DOMAIN cache : cache[i].slot \in Slots
    <2>1. \A i \in DOMAIN cache : cache[i] \in CacheRow
      BY <1>1, TableShape
    <2> QED
      BY <2>1 DEF CacheRow, Slots
  <1>3. Spare(k).role # "disabled" /\ Spare(k).psk = k
    BY DEF Spare
  <1>4. ASSUME NEW i \in DOMAIN cache, cache[i].psk = k, pi[cache[i].slot] = Spare(k)
        PROVE  k \in PiKeys /\ Cached(k)
    BY <1>2, <1>3, <1>4, HeldKey DEF Cached
  <1>5. ASSUME PiPsk \in CachedPsks(cache), pi[cache[Len(cache)].slot] = Spare(k)
        PROVE  k \in PiKeys /\ Cached(PiPsk)
    <2>1. Len(cache) \in DOMAIN cache
      BY <1>1, <1>5, NewestLast
    <2>2. Cached(PiPsk)
      BY <1>5 DEF Cached, CachedPsks
    <2> QED
      BY <1>2, <1>3, <1>5, <2>1, <2>2, HeldKey
  <1> QED
    BY <1>4, <1>5 DEF HistoryInv, RadioRuns

(* Where rotations follow one another, the Pi can talk to every remote     *)
(* that is on its own PSK, on the staged one or at most as many rotations  *)
(* behind as there are recovery slots, whatever frames, acknowledgements,  *)
(* statements or processes were lost on the way; except on a PSK that      *)
(* Phase C left without a recovery slot, because AddRecoveryPSK failed, or *)
(* retired unpromoted, because its radio did not answer.                   *)
THEOREM FleetHeard == ASSUME ~Overlap PROVE Spec => []PiHearsFleet
  <1>1. CoreInv /\ OrderInv /\ HistoryInv => PiHearsFleet
    <2> SUFFICES ASSUME CoreInv, OrderInv, HistoryInv, NEW n \in Nodes,
                        remote[n].psk # NoPsk, remote[n].psk \notin missed,
                        remote[n].psk + Cardinality(RecoverySlots) >= PiPsk
                 PROVE  Reachable(n)
      BY DEF PiHearsFleet
    <2> PICK k \in Psks : k = remote[n].psk
      BY DEF CoreInv, TypeOK
    <2>1. PiPsk \in Int /\ k \in Int
      BY PiNumber DEF Psks
    <2>2. OnAir(k)
      BY DEF HistoryInv, RemotesGiven
    <2>3. CASE k = PiPsk
      <3>1. PrimarySlot \in Slots /\ pi[PrimarySlot].role # "disabled"
        BY PiNumber
      <3>2. PiPsk \in PiKeys
        BY <3>1, HeldKey DEF PiPsk
      <3> QED
        BY <2>3, <3>2 DEF Reachable
    <2>4. CASE k < PiPsk
      BY <2>4, RunHeld DEF Recoverable, Reachable
    <2>5. CASE k > PiPsk
      <3>1. PICK s \in WorkSlots : pi[s] = Spare(k)
        BY <2>1, <2>2, <2>5 DEF OnAir, Given
      <3>2. s \in Slots /\ pi[s].psk = k /\ pi[s].role # "disabled"
        BY <3>1 DEF Slots, Spare
      <3>3. k \in PiKeys
        BY <3>2, HeldKey
      <3> QED
        BY <3>3 DEF Reachable
    <2> QED
      BY <2>1, <2>3, <2>4, <2>5
  <1> QED
    BY <1>1, Core, Order, History, PTL

(* And a node flagged as stranded can be recovered over the air until      *)
(* later rotations have used up the recovery slots: its PSK is cached for  *)
(* recover_stranded and held by the Pi's radio, unless AddRecoveryPSK      *)
(* failed when the Pi left that PSK.                                       *)
THEOREM RecoverableStranded == ASSUME ~Overlap PROVE Spec => []StrandedRecoverable
  <1>1. CoreInv /\ OrderInv /\ HistoryInv => StrandedRecoverable
    <2> DEFINE coming == IF Cached(PiPsk) THEN PiPsk + 1 ELSE PiPsk
    <2> SUFFICES ASSUME CoreInv, OrderInv, HistoryInv, NEW n \in Nodes, trust[n].stranded,
                        trust[n].prev \notin missed,
                        trust[n].prev + Cardinality(RecoverySlots) >= coming
                 PROVE  Cached(trust[n].prev) /\ trust[n].prev \in PiKeys
      BY DEF StrandedRecoverable
    <2>1. Left(trust[n].prev, PiPsk)
      BY DEF HistoryInv, StrandedLeft
    <2> PICK k \in Psks : k = trust[n].prev /\ k < PiPsk
      BY <2>1 DEF Left
    <2>2. PiPsk \in Int /\ k \in Int /\ Recoverable \in Nat
      BY PiNumber, SlotNumber DEF Psks
    <2>3. k + Recoverable >= coming
      BY DEF Recoverable
    <2>4. k + Recoverable >= PiPsk /\ (Cached(PiPsk) => k + Recoverable # PiPsk)
      BY <2>2, <2>3
    <2>5. k \in PiKeys /\ Cached(k)
      BY <2>4, RunHeld
    <2> QED
      BY <2>5
  <1> QED
    BY <1>1, Core, Order, History, PTL

(* The Pi changes its PSK only to a newer one, which Phase A has staged;   *)
(* the ones it skips and the one it leaves are either cached or among      *)
(* those Phase C is known to have missed.                                  *)
PromotesInTurn ==
    PiPsk' # PiPsk =>
        /\ PiPsk' > PiPsk /\ Staged(PiPsk')
        /\ \A k \in Psks : PiPsk < k /\ k < PiPsk' => k \in missed
        /\ Cached(PiPsk) \/ PiPsk \in missed'

(* Through crashes, timeouts, failed statements and retries of Phase C the *)
(* Pi never goes back to an older PSK; it goes only to one that Phase A    *)
(* has staged, past no PSK but those Phase C retired while the radio did   *)
(* not answer, and leaves its own uncached only when AddRecoveryPSK failed *)
(* ("rotation will retire without cache entry").                           *)
THEOREM PskInTurn == ASSUME ~Overlap PROVE Spec => [][PromotesInTurn]_vars
  <1>1. CoreInv /\ CoreInv' /\ OrderInv /\ HistoryInv /\ [Next]_vars => [PromotesInTurn]_vars
    <2> SUFFICES ASSUME CoreInv, CoreInv', OrderInv, HistoryInv, Next
                 PROVE  PromotesInTurn
      OBVIOUS
    <2>1. CASE pi' = pi
      BY <2>1, SamePrimary DEF PromotesInTurn
    <2>2. CASE PhaseAStage \/ PhaseAStageFails
      <3>1. worker.pc = "a_stage" /\ pi' \in {pi, StagedPi}
        BY <2>2 DEF PhaseAStage, PhaseAStageFails, At
      <3> QED
        BY <2>1, <3>1, StagedBeside DEF CoreInv, PromotesInTurn
    <2>3. CASE PhaseCPromote \/ PhaseCPromoteFails
      <3>1. worker.pc = "c_radio" /\ (pi' = pi \/ Promote)
        BY <2>3 DEF PhaseCPromote, PhaseCPromoteFails, At
      <3>2. /\ rotation' = rotation /\ jobs' = jobs /\ retry' = retry /\ cache' = cache
            /\ remote' = remote /\ trust' = trust
        BY <2>3 DEF PhaseCPromote, PhaseCPromoteFails, tables
      <3>3. CASE Promote
        <4>1. PiPsk < PiPsk' /\ Staged(PiPsk') /\ (Cached(PiPsk) \/ PiPsk \in missed')
          BY <3>1, <3>2, <3>3, PromotedHistory
        <4>2. \A k \in Psks : PiPsk < k /\ k < PiPsk' => k \in missed
          BY <3>1, <3>2, <3>3, PromotedHistory
        <4> QED
          BY <4>1, <4>2 DEF PromotesInTurn
      <3> QED
        BY <2>1, <3>1, <3>3
    <2>4. \/ pi' = pi
          \/ PhaseAStage \/ PhaseAStageFails \/ PhaseCPromote \/ PhaseCPromoteFails
      <3>1. CASE Operator \/ \E n \in Nodes : ObserveInboundPacket(n)
        BY <3>1 DEF Operator, RotatePSK, RetireOldPSK, RetryRead, RetryWrite, VerifyTrust,
                    ForceRecoverStranded, CancelStranded, ObserveInboundPacket, radios
      <3>2. CASE Lease \/ CloseJob \/ Crash \/ \E quick \in BOOLEAN : Restart(quick)
        BY <3>2 DEF Lease, CloseJob, Crash, Restart, radios
      <3>3. CASE PhaseAFails \/ PhaseAEnqueueFails \/ PhaseBSkips \/ PhaseCSkips \/ RecoverFails
        BY <3>3, Zenon DEF PhaseAFails, PhaseAEnqueueFails, PhaseBSkips, PhaseCSkips,
              RecoverFails, Return, radios
      <3>4. CASE PhaseAPick \/ PhaseAChannel \/ PhaseAEnqueue
        BY <3>4, Zenon DEF PhaseAPick, PhaseAChannel, PhaseAEnqueue, radios
      <3>5. CASE \/ MigrateSend \/ MigrateNoSession \/ MigrateVerify
                 \/ PhaseBStart \/ PhaseBRecord \/ PhaseBStamp \/ RecoverStart \/ RecoverRecord
        BY <3>5, Zenon DEF MigrateSend, MigrateNoSession, MigrateVerify, PhaseBStart,
              PhaseBRecord, PhaseBStamp, RecoverStart, RecoverRecord, radios
      <3>6. CASE \/ PhaseCNothingToMigrate \/ PhaseCStart \/ PhaseCRetire \/ PhaseCRetireFails
                 \/ PhaseCMarkStranded \/ PhaseCClear
        BY <3>6, Zenon DEF PhaseCNothingToMigrate, PhaseCStart, PhaseCRetire, PhaseCRetireFails,
              PhaseCMarkStranded, PhaseCClear, radios
      <3> QED
        BY <3>1, <3>2, <3>3, <3>4, <3>5, <3>6 DEF Next, Handler
    <2> QED
      BY <2>1, <2>2, <2>3, <2>4
  <1> QED
    BY <1>1, Core, Order, History, PTL DEF Spec
=============================================================================
