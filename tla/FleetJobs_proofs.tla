--------------------------- MODULE FleetJobs_proofs ---------------------------
(***************************************************************************)
(* Proofs about the durable job queue, for any number of jobs, callers,    *)
(* crashes and lost answers.                                               *)
(*                                                                         *)
(* The argument: a row that is queued has been leased at most once per     *)
(* crash, because the only way back to queued is the scan of Loop.Start    *)
(* and Start follows a crash; a row that the worker runs is in_progress    *)
(* and young, because only the worker's own lease restarts its clock and   *)
(* a handler ends with its context; and it is older than everything that   *)
(* waits, because rows are inserted at the end.                            *)
(***************************************************************************)
EXTENDS FleetJobs, FiniteSetTheorems, SequenceTheorems, TLAPS

-----------------------------------------------------------------------------
(* What the statements of jobs.Store do to a table, for tables of every    *)
(* length.                                                                 *)

(* A table is a function on its row numbers.                               *)
LEMMA TableShape ==
    ASSUME NEW Row, NEW rows \in Seq(Row)
    PROVE  /\ Len(rows) \in Nat
           /\ DOMAIN rows = 1 .. Len(rows)
           /\ \A j \in DOMAIN rows : rows[j] \in Row
  BY LenProperties, ElementOfSeq

(* A statement that rewrites rows in place keeps the row numbers.          *)
LEMMA RewriteShape ==
    ASSUME NEW Row, NEW rows \in Seq(Row), NEW new,
           new = [j \in DOMAIN rows |-> new[j]],
           \A j \in DOMAIN rows : new[j] \in Row
    PROVE  /\ new \in Seq(Row)
           /\ DOMAIN new = DOMAIN rows
           /\ Len(new) = Len(rows)
  <1>1. Len(rows) \in Nat /\ DOMAIN rows = 1 .. Len(rows)
    BY LenProperties
  <1>2. new \in [1 .. Len(rows) -> Row]
    BY <1>1
  <1>3. new \in Seq(Row)
    BY <1>1, <1>2, SeqDef
  <1>4. DOMAIN new = 1 .. Len(new) /\ Len(new) \in Nat
    BY <1>3, LenProperties
  <1>5. DOMAIN new = DOMAIN rows
    BY <1>2, <1>1
  <1>6. Len(new) = Len(rows)
    BY <1>1, <1>3, <1>4, <1>5
  <1> QED
    BY <1>3, <1>5, <1>6

(* Enqueue adds one row behind all the others and changes none.            *)
LEMMA AppendRowLemma ==
    ASSUME NEW Row, NEW rows \in Seq(Row), NEW row \in Row
    PROVE  LET new == Append(rows, row)
               n == Len(rows) + 1
           IN  /\ new \in Seq(Row)
               /\ Len(rows) \in Nat /\ n \notin DOMAIN rows
               /\ DOMAIN new = DOMAIN rows \cup {n}
               /\ \A j \in DOMAIN rows : j < n /\ new[j] = rows[j]
               /\ new[n] = row
  <1> DEFINE new == Append(rows, row)
  <1>1. Len(rows) \in Nat /\ DOMAIN rows = 1 .. Len(rows)
    BY LenProperties
  <1>2. /\ new \in Seq(Row) /\ Len(new) = Len(rows) + 1
        /\ \A j \in 1 .. Len(rows) : new[j] = rows[j]
        /\ new[Len(rows) + 1] = row
    BY AppendProperties
  <1>3. DOMAIN new = 1 .. Len(rows) + 1
    BY <1>2, LenProperties
  <1> HIDE DEF new
  <1>4. DOMAIN new = DOMAIN rows \cup {Len(rows) + 1}
    BY <1>1, <1>3
  <1>5. Len(rows) + 1 \notin DOMAIN rows /\ \A j \in DOMAIN rows : j < Len(rows) + 1
    BY <1>1
  <1> QED
    BY <1>1, <1>2, <1>4, <1>5 DEF new

(* A lease marks one row, counts the attempt and restarts its clock.       *)
LEMMA LeaseRowLemma ==
    ASSUME NEW W, NEW Ages, 0 \in Ages,
           NEW rows \in Seq(RowType(W, Nat, Ages)), NEW j \in DOMAIN rows
    PROVE  LET new == LeaseRow(rows, j)
           IN  /\ new \in Seq(RowType(W, Nat, Ages))
               /\ DOMAIN new = DOMAIN rows
               /\ \A i \in DOMAIN rows : i # j => new[i] = rows[i]
               /\ new[j].state = "in_progress" /\ new[j].age = 0
               /\ new[j].attempts = rows[j].attempts + 1
               /\ new[j].work = rows[j].work
  <1> DEFINE Row == RowType(W, Nat, Ages)
             new == LeaseRow(rows, j)
  <1>1. \A i \in DOMAIN rows : rows[i] \in Row
    BY TableShape
  <1>2. /\ new = [i \in DOMAIN rows |-> new[i]]
        /\ \A i \in DOMAIN rows : i # j => new[i] = rows[i]
    BY DEF LeaseRow
  <1> PICK r \in Row : r = rows[j]
    BY <1>1
  <1>3. /\ new[j] \in Row
        /\ new[j].state = "in_progress" /\ new[j].age = 0
        /\ new[j].attempts = rows[j].attempts + 1
        /\ new[j].work = rows[j].work
    <2> PICK a \in Nat : a = r.attempts + 1
      BY DEF RowType
    <2>1. new[j] = [r EXCEPT !.state = "in_progress", !.attempts = a, !.age = 0]
      BY Zenon DEF LeaseRow
    <2> HIDE DEF new
    <2> QED
      BY <2>1 DEF RowType, JobStates
  <1>4. \A i \in DOMAIN rows : new[i] \in Row
    BY <1>1, <1>2, <1>3
  <1> HIDE DEF new, Row
  <1>5. new \in Seq(Row) /\ DOMAIN new = DOMAIN rows
    BY <1>2, <1>4, RewriteShape DEF Row
  <1> QED
    BY <1>2, <1>3, <1>5 DEF new, Row

(* MarkDone, MarkFailed and Cancel change one row's state and nothing else.*)
LEMMA SetRowStateLemma ==
    ASSUME NEW W, NEW Ages, NEW st \in JobStates,
           NEW rows \in Seq(RowType(W, Nat, Ages)), NEW j \in DOMAIN rows
    PROVE  LET new == SetRowState(rows, j, st)
           IN  /\ new \in Seq(RowType(W, Nat, Ages))
               /\ DOMAIN new = DOMAIN rows
               /\ \A i \in DOMAIN rows : i # j => new[i] = rows[i]
               /\ new[j].state = st
               /\ new[j].attempts = rows[j].attempts
               /\ new[j].age = rows[j].age
               /\ new[j].work = rows[j].work
  <1> DEFINE Row == RowType(W, Nat, Ages)
             new == SetRowState(rows, j, st)
  <1>1. \A i \in DOMAIN rows : rows[i] \in Row
    BY TableShape
  <1>2. /\ new = [i \in DOMAIN rows |-> new[i]]
        /\ \A i \in DOMAIN rows : i # j => new[i] = rows[i]
        /\ new[j] = [rows[j] EXCEPT !.state = st]
    BY DEF SetRowState
  <1>3. /\ new[j] \in Row
        /\ new[j].state = st /\ new[j].age = rows[j].age
        /\ new[j].attempts = rows[j].attempts
        /\ new[j].work = rows[j].work
    BY <1>1, <1>2 DEF RowType, JobStates
  <1>4. \A i \in DOMAIN rows : new[i] \in Row
    BY <1>1, <1>2, <1>3
  <1> HIDE DEF new, Row
  <1>5. new \in Seq(Row) /\ DOMAIN new = DOMAIN rows
    BY <1>2, <1>4, RewriteShape DEF Row
  <1> QED
    BY <1>2, <1>3, <1>5 DEF new, Row

(* The stale-lease scan re-queues in_progress rows and touches no other    *)
(* column and no other row.                                                *)
LEMMA ResumeStaleLeasesLemma ==
    ASSUME NEW W, NEW Ages, NEW threshold,
           NEW rows \in Seq(RowType(W, Nat, Ages))
    PROVE  LET new == ResumeStaleLeases(rows, threshold)
           IN  /\ new \in Seq(RowType(W, Nat, Ages))
               /\ DOMAIN new = DOMAIN rows
               /\ \A j \in DOMAIN rows :
                     /\ new[j].work = rows[j].work
                     /\ new[j].attempts = rows[j].attempts
                     /\ new[j].age = rows[j].age
                     /\ \/ new[j].state = rows[j].state
                        \/ rows[j].state = "in_progress" /\ new[j].state = "queued"
  <1> DEFINE Row == RowType(W, Nat, Ages)
             new == ResumeStaleLeases(rows, threshold)
  <1>1. \A j \in DOMAIN rows : rows[j] \in Row
    BY TableShape
  <1>2. /\ new = [j \in DOMAIN rows |-> new[j]]
        /\ \A j \in DOMAIN rows :
              \/ new[j] = rows[j]
              \/ rows[j].state = "in_progress" /\ new[j] = [rows[j] EXCEPT !.state = "queued"]
    BY DEF ResumeStaleLeases, IsStale
  <1>3. \A j \in DOMAIN rows :
              /\ new[j] \in Row
              /\ new[j].work = rows[j].work
              /\ new[j].attempts = rows[j].attempts
              /\ new[j].age = rows[j].age
              /\ \/ new[j].state = rows[j].state
                 \/ rows[j].state = "in_progress" /\ new[j].state = "queued"
    <2> HIDE DEF new
    <2> QED BY <1>1, <1>2 DEF RowType, JobStates
  <1> HIDE DEF new, Row
  <1>4. new \in Seq(Row) /\ DOMAIN new = DOMAIN rows
    BY <1>2, <1>3, RewriteShape DEF Row
  <1> QED
    BY <1>3, <1>4 DEF new, Row

(* The clock moves the ages of leased rows by at most one, within the cap. *)
LEMMA AgeRowsLemma ==
    ASSUME NEW W, NEW cap \in Nat,
           NEW rows \in Seq(RowType(W, Nat, 0 .. cap))
    PROVE  LET new == AgeRows(rows, cap)
           IN  /\ new \in Seq(RowType(W, Nat, 0 .. cap))
               /\ DOMAIN new = DOMAIN rows
               /\ \A j \in DOMAIN rows :
                     /\ new[j].work = rows[j].work
                     /\ new[j].attempts = rows[j].attempts
                     /\ new[j].state = rows[j].state
                     /\ new[j].age \in {rows[j].age, rows[j].age + 1}
  <1> DEFINE Row == RowType(W, Nat, 0 .. cap)
             new == AgeRows(rows, cap)
  <1>1. \A j \in DOMAIN rows : rows[j] \in Row
    BY TableShape
  <1>2. /\ new = [j \in DOMAIN rows |-> new[j]]
        /\ \A j \in DOMAIN rows :
              \/ new[j] = rows[j]
              \/ rows[j].age < cap /\ new[j] = [rows[j] EXCEPT !.age = @ + 1]
    BY DEF AgeRows
  <1>3. \A j \in DOMAIN rows :
              /\ new[j] \in Row
              /\ new[j].work = rows[j].work
              /\ new[j].attempts = rows[j].attempts
              /\ new[j].state = rows[j].state
              /\ new[j].age \in {rows[j].age, rows[j].age + 1}
    <2> SUFFICES ASSUME NEW j \in DOMAIN rows
                 PROVE  /\ new[j] \in Row
                        /\ new[j].work = rows[j].work
                        /\ new[j].attempts = rows[j].attempts
                        /\ new[j].state = rows[j].state
                        /\ new[j].age \in {rows[j].age, rows[j].age + 1}
      OBVIOUS
    <2>1. rows[j] \in Row
      BY <1>1
    <2>2. rows[j].age < cap => rows[j].age + 1 \in 0 .. cap
      BY <2>1 DEF RowType
    <2>3. CASE new[j] = rows[j]
      BY <2>1, <2>3
    <2>4. CASE rows[j].age < cap /\ new[j] = [rows[j] EXCEPT !.age = @ + 1]
      <3> PICK r \in Row : r = rows[j]
        BY <2>1
      <3> PICK t \in 0 .. cap : t = r.age + 1
        BY <2>2, <2>4
      <3>1. new[j] = [r EXCEPT !.age = t]
        BY <2>4, Zenon
      <3> HIDE DEF new
      <3> QED
        BY <3>1 DEF RowType, JobStates
    <2> QED
      BY <1>2, <2>3, <2>4
  <1> HIDE DEF new, Row
  <1>4. new \in Seq(Row) /\ DOMAIN new = DOMAIN rows
    BY <1>2, <1>3, RewriteShape DEF Row
  <1> QED
    BY <1>3, <1>4 DEF new, Row

-----------------------------------------------------------------------------
(* The queue.                                                              *)

Row == RowType(Work, Nat, 0 .. AgeCap)

(* Leases so far, against crashes so far.                                  *)
LeaseCount ==
    \A j \in DOMAIN fleetJobs :
        /\ fleetJobs[j].attempts <= crashes + 1
        /\ fleetJobs[j].state = "queued" \/ loop.pc = "stopped"
              => fleetJobs[j].attempts <= crashes

(* The row under the worker is leased, within the handler's time.          *)
RunningRow ==
    loop.pc = "running" =>
        /\ loop.job \in DOMAIN fleetJobs
        /\ fleetJobs[loop.job].state = "in_progress"
        /\ fleetJobs[loop.job].age <= JobTimeout

(* The inductive invariant of the queue.                                   *)
QueueInv ==
    /\ TypeOK
    /\ LeaseCount
    /\ RunningRow
    /\ FifoOrder

USE DEF Row

LEMMA AgeFacts == AgeCap \in Nat /\ 0 \in 0 .. AgeCap
  BY TimeAssumption DEF AgeCap

LEMMA RowFacts ==
    ASSUME TypeOK
    PROVE  /\ fleetJobs \in Seq(Row)
           /\ DOMAIN fleetJobs = 1 .. Len(fleetJobs)
           /\ Len(fleetJobs) \in Nat
           /\ \A j \in DOMAIN fleetJobs :
                 /\ fleetJobs[j] \in Row
                 /\ fleetJobs[j].attempts \in Nat
                 /\ fleetJobs[j].age \in 0 .. AgeCap
                 /\ fleetJobs[j].state \in JobStates
  <1>1. fleetJobs \in Seq(Row)
    BY DEF TypeOK
  <1>2. \A j \in DOMAIN fleetJobs : fleetJobs[j] \in Row
    BY <1>1, TableShape
  <1>3. \A r \in Row : r.attempts \in Nat /\ r.age \in 0 .. AgeCap /\ r.state \in JobStates
    BY DEF RowType
  <1> QED
    BY <1>1, <1>2, <1>3, TableShape

(* What an insert does to the table.                                       *)
LEMMA InsertFacts ==
    ASSUME TypeOK, NEW w \in Work
    PROVE  LET new == EnqueueRow(fleetJobs, w)
               n == Len(fleetJobs) + 1
           IN  /\ new \in Seq(Row)
               /\ n \notin DOMAIN fleetJobs
               /\ DOMAIN new = DOMAIN fleetJobs \cup {n}
               /\ \A j \in DOMAIN fleetJobs : j < n /\ new[j] = fleetJobs[j]
               /\ new[n].work = w /\ new[n].state = "queued" /\ new[n].attempts = 0
  <1> DEFINE row == [work |-> w, state |-> "queued", attempts |-> 0, age |-> 0]
  <1>1. fleetJobs \in Seq(Row)
    BY DEF TypeOK
  <1>2. row \in Row
    BY AgeFacts DEF RowType, JobStates
  <1>3. row.work = w /\ row.state = "queued" /\ row.attempts = 0
    OBVIOUS
  <1>4. EnqueueRow(fleetJobs, w) = Append(fleetJobs, row)
    BY DEF EnqueueRow
  <1> HIDE DEF row, Row
  <1> QED
    BY <1>1, <1>2, <1>3, <1>4, AppendRowLemma

LEMMA InitQueueInv == Init => QueueInv
  <1> SUFFICES ASSUME Init PROVE QueueInv
    OBVIOUS
  <1>1. DOMAIN fleetJobs = {}
    BY DEF Init
  <1>2. <<>> \in Seq(Row)
    BY EmptySeq
  <1>3. TypeOK
    BY <1>2 DEF Init, TypeOK, Stopped
  <1>4. loop.pc # "running"
    BY DEF Init, Stopped
  <1> QED
    BY <1>1, <1>3, <1>4 DEF QueueInv, LeaseCount, RunningRow, FifoOrder

(* The two ways to insert a row.                                           *)
LEMMA EnqueueKeepsQueueInv ==
    ASSUME QueueInv, NEW w \in Work,
           fleetJobs' = EnqueueRow(fleetJobs, w), loop' = loop, crashes' = crashes,
           caller' \in [Callers -> DebouncedWork \cup {NoWork}], dbFaults' = dbFaults,
           ProcessUp
    PROVE  QueueInv'
  <1> DEFINE n == Len(fleetJobs) + 1
  <1>1. TypeOK /\ LeaseCount /\ RunningRow /\ FifoOrder
    BY DEF QueueInv
  <1>2. /\ fleetJobs' \in Seq(Row)
        /\ Len(fleetJobs) \in Nat
        /\ DOMAIN fleetJobs' = DOMAIN fleetJobs \cup {n}
        /\ \A j \in DOMAIN fleetJobs : j < n /\ fleetJobs'[j] = fleetJobs[j]
        /\ fleetJobs'[n].state = "queued" /\ fleetJobs'[n].attempts = 0
    BY <1>1, RowFacts, InsertFacts
  <1>3. TypeOK'
    BY <1>1, <1>2 DEF TypeOK
  <1>4. LeaseCount'
    BY <1>1, <1>2 DEF LeaseCount, TypeOK
  <1>5. RunningRow'
    BY <1>1, <1>2 DEF RunningRow
  <1>6. FifoOrder'
    BY <1>1, <1>2 DEF FifoOrder, RunningRow, InState
  <1> QED
    BY <1>3, <1>4, <1>5, <1>6 DEF QueueInv

(* Cancel, MarkDone and MarkFailed: one row gets a terminal state, and the *)
(* worker is not left with that row.                                       *)
LEMMA CloseKeepsQueueInv ==
    ASSUME QueueInv, NEW j \in DOMAIN fleetJobs, NEW st \in TerminalStates,
           fleetJobs' = SetRowState(fleetJobs, j, st),
           crashes' = crashes, caller' = caller, dbFaults' = dbFaults,
           \/ loop' = Idle
           \/ loop' = loop /\ ProcessUp /\ fleetJobs[j].state = "queued"
    PROVE  QueueInv'
  <1>1. TypeOK /\ LeaseCount /\ RunningRow /\ FifoOrder
    BY DEF QueueInv
  <1>2. st \in JobStates /\ st # "queued" /\ st # "in_progress"
    BY DEF TerminalStates, JobStates, PendingStates
  <1>3. /\ fleetJobs' \in Seq(Row)
        /\ DOMAIN fleetJobs' = DOMAIN fleetJobs
        /\ \A i \in DOMAIN fleetJobs : i # j => fleetJobs'[i] = fleetJobs[i]
        /\ fleetJobs'[j].state = st
        /\ fleetJobs'[j].attempts = fleetJobs[j].attempts
    BY <1>1, <1>2, RowFacts, SetRowStateLemma
  <1>4. TypeOK'
    BY <1>1, <1>3 DEF TypeOK, Idle
  <1>5. loop'.pc # "stopped"
    BY DEF Idle, ProcessUp
  <1>6. LeaseCount'
    BY <1>1, <1>2, <1>3, <1>5 DEF LeaseCount
  <1>7. RunningRow'
    BY <1>1, <1>3 DEF RunningRow, Idle
  <1>8. FifoOrder'
    BY <1>1, <1>2, <1>3 DEF FifoOrder, InState, Idle
  <1> QED
    BY <1>4, <1>6, <1>7, <1>8 DEF QueueInv

(* Lease and LeaseAnswerLost.                                              *)
LEMMA LeaseKeepsQueueInv ==
    ASSUME QueueInv, NEW j \in DOMAIN fleetJobs, loop = Idle,
           IsNextQueued(fleetJobs, j), fleetJobs' = LeaseRow(fleetJobs, j),
           loop' = Running(j) \/ loop' = loop,
           crashes' = crashes, caller' = caller, dbFaults' \in Nat
    PROVE  QueueInv'
  <1>1. TypeOK /\ LeaseCount /\ RunningRow /\ FifoOrder
    BY DEF QueueInv
  <1>2. /\ fleetJobs' \in Seq(Row)
        /\ DOMAIN fleetJobs' = DOMAIN fleetJobs
        /\ \A i \in DOMAIN fleetJobs : i # j => fleetJobs'[i] = fleetJobs[i]
        /\ fleetJobs'[j].state = "in_progress" /\ fleetJobs'[j].age = 0
        /\ fleetJobs'[j].attempts = fleetJobs[j].attempts + 1
    BY <1>1, RowFacts, AgeFacts, LeaseRowLemma
  <1>3. fleetJobs[j].state = "queued"
    BY DEF IsNextQueued, InState
  <1>4. TypeOK'
    BY <1>1, <1>2, RowFacts DEF TypeOK, Running
  <1>5. loop'.pc # "stopped"
    BY DEF Idle, Running
  <1>6. LeaseCount'
    BY <1>1, <1>2, <1>3, <1>5, RowFacts DEF LeaseCount, TypeOK
  <1>7. RunningRow'
    BY <1>2, TimeAssumption DEF RunningRow, Idle, Running
  <1>8. FifoOrder'
    <2> SUFFICES ASSUME loop'.pc = "running", NEW i \in InState(fleetJobs', "queued")
                 PROVE  loop'.job < i
      BY DEF FifoOrder
    <2>1. loop'.job = j
      BY DEF Idle, Running
    <2>2. i # j /\ i \in InState(fleetJobs, "queued")
      BY <1>2 DEF InState
    <2>3. j <= i /\ i \in Nat /\ j \in Nat
      BY <1>1, <2>2, RowFacts DEF IsNextQueued, InState
    <2> QED
      BY <2>1, <2>2, <2>3
  <1> QED
    BY <1>4, <1>6, <1>7, <1>8 DEF QueueInv

(* Loop.Start: every row that the scan re-queues was leased before the     *)
(* last crash.                                                             *)
LEMMA StartKeepsQueueInv == QueueInv /\ Start => QueueInv'
  <1> SUFFICES ASSUME QueueInv, Start PROVE QueueInv'
    OBVIOUS
  <1>1. TypeOK /\ LeaseCount
    BY DEF QueueInv
  <1>2. /\ fleetJobs' \in Seq(Row)
        /\ DOMAIN fleetJobs' = DOMAIN fleetJobs
        /\ \A j \in DOMAIN fleetJobs : fleetJobs'[j].attempts = fleetJobs[j].attempts
    BY <1>1, RowFacts, ResumeStaleLeasesLemma DEF Start
  <1>3. TypeOK'
    BY <1>1, <1>2 DEF TypeOK, Start, Idle
  <1>4. LeaseCount'
    BY <1>1, <1>2 DEF LeaseCount, Start, Stopped
  <1>5. RunningRow' /\ FifoOrder'
    BY DEF RunningRow, FifoOrder, Start, Idle
  <1> QED
    BY <1>3, <1>4, <1>5 DEF QueueInv

LEMMA TickKeepsQueueInv == QueueInv /\ Tick => QueueInv'
  <1> SUFFICES ASSUME QueueInv, Tick PROVE QueueInv'
    OBVIOUS
  <1>1. TypeOK /\ LeaseCount /\ RunningRow /\ FifoOrder
    BY DEF QueueInv
  <1>2. /\ fleetJobs' \in Seq(Row)
        /\ DOMAIN fleetJobs' = DOMAIN fleetJobs
        /\ \A j \in DOMAIN fleetJobs :
              /\ fleetJobs'[j].attempts = fleetJobs[j].attempts
              /\ fleetJobs'[j].state = fleetJobs[j].state
              /\ fleetJobs'[j].age \in {fleetJobs[j].age, fleetJobs[j].age + 1}
    BY <1>1, RowFacts, AgeFacts, AgeRowsLemma DEF Tick
  <1>3. TypeOK'
    BY <1>1, <1>2 DEF TypeOK, Tick
  <1>4. LeaseCount'
    BY <1>1, <1>2 DEF LeaseCount, Tick
  <1>5. RunningRow'
    <2> SUFFICES ASSUME loop.pc = "running"
                 PROVE  /\ loop.job \in DOMAIN fleetJobs'
                        /\ fleetJobs'[loop.job].state = "in_progress"
                        /\ fleetJobs'[loop.job].age <= JobTimeout
      BY DEF RunningRow, Tick
    <2>1. /\ loop.job \in DOMAIN fleetJobs
          /\ fleetJobs[loop.job].state = "in_progress"
          /\ fleetJobs[loop.job].age < JobTimeout
      BY <1>1 DEF RunningRow, Tick
    <2>2. fleetJobs[loop.job].age \in Nat
      BY <1>1, <2>1, RowFacts, AgeFacts
    <2> QED
      BY <1>2, <2>1, <2>2, TimeAssumption
  <1>6. FifoOrder'
    BY <1>1, <1>2 DEF FifoOrder, InState, Tick
  <1> QED
    BY <1>3, <1>4, <1>5, <1>6 DEF QueueInv

(* The table does not change and the worker does not pick up a row.        *)
LEMMA TableUntouched ==
    ASSUME QueueInv, fleetJobs' = fleetJobs,
           \/ loop' = loop /\ crashes' = crashes
           \/ loop' = Idle /\ crashes' = crashes
           \/ loop' = Stopped /\ crashes' = crashes + 1,
           caller' \in [Callers -> DebouncedWork \cup {NoWork}], dbFaults' \in Nat
    PROVE  QueueInv'
  <1>1. TypeOK /\ LeaseCount /\ RunningRow /\ FifoOrder
    BY DEF QueueInv
  <1>2. TypeOK'
    BY <1>1 DEF TypeOK, Idle, Stopped
  <1>3. LeaseCount'
    <2> SUFFICES ASSUME NEW j \in DOMAIN fleetJobs
                 PROVE  /\ fleetJobs[j].attempts <= crashes' + 1
                        /\ fleetJobs[j].state = "queued" \/ loop'.pc = "stopped"
                              => fleetJobs[j].attempts <= crashes'
      BY DEF LeaseCount
    <2>1. fleetJobs[j].attempts \in Nat /\ crashes \in Nat
      BY <1>1, RowFacts DEF TypeOK
    <2> QED
      BY <1>1, <2>1 DEF LeaseCount, Idle, Stopped
  <1>4. RunningRow' /\ FifoOrder'
    BY <1>1 DEF RunningRow, FifoOrder, Idle, Stopped
  <1> QED
    BY <1>2, <1>3, <1>4 DEF QueueInv

LEMMA NextQueueInv == QueueInv /\ [Next]_vars => QueueInv'
  <1> SUFFICES ASSUME QueueInv, [Next]_vars PROVE QueueInv'
    OBVIOUS
  <1>0. /\ TypeOK /\ RunningRow
        /\ caller \in [Callers -> DebouncedWork \cup {NoWork}]
        /\ dbFaults \in Nat /\ crashes \in Nat
    BY DEF QueueInv, TypeOK
  <1>1. ASSUME NEW c \in Callers, NEW w \in DebouncedWork, CheckPending(c, w) PROVE QueueInv'
    BY <1>0, <1>1, TableUntouched DEF CheckPending
  <1>2. ASSUME NEW c \in Callers, EnqueueDebounced(c) PROVE QueueInv'
    <2>1. caller[c] \in Work
      BY <1>0, <1>2 DEF EnqueueDebounced, Work
    <2> QED
      BY <1>0, <1>2, <2>1, EnqueueKeepsQueueInv DEF EnqueueDebounced
  <1>3. ASSUME NEW c \in Callers, EnqueueFails(c) PROVE QueueInv'
    BY <1>0, <1>3, TableUntouched DEF EnqueueFails
  <1>4. ASSUME NEW w \in DirectWork, EnqueueDirect(w) PROVE QueueInv'
    BY <1>0, <1>4, EnqueueKeepsQueueInv DEF EnqueueDirect, Work
  <1>5. ASSUME NEW j \in DOMAIN fleetJobs, Cancel(j) PROVE QueueInv'
    <2>1. "cancelled" \in TerminalStates
      BY DEF TerminalStates, JobStates, PendingStates
    <2> QED
      BY <1>5, <2>1, CloseKeepsQueueInv DEF Cancel, CanCancel, CancelRow
  <1>6. CASE Start
    BY <1>6, StartKeepsQueueInv
  <1>7. CASE StartWithoutScan
    BY <1>0, <1>7, TableUntouched DEF StartWithoutScan
  <1>8. CASE Lease
    BY <1>0, <1>8, LeaseKeepsQueueInv DEF Lease
  <1>9. CASE LeaseAnswerLost
    BY <1>0, <1>9, LeaseKeepsQueueInv DEF LeaseAnswerLost
  <1>10. CASE FinishDone \/ FinishFailed
    <2>1. "done" \in TerminalStates /\ "failed" \in TerminalStates
      BY DEF TerminalStates, JobStates, PendingStates
    <2>2. loop.job \in DOMAIN fleetJobs
      BY <1>0, <1>10 DEF RunningRow, FinishDone, FinishFailed
    <2> QED
      BY <1>10, <2>1, <2>2, CloseKeepsQueueInv DEF FinishDone, FinishFailed, MarkDone, MarkFailed
  <1>11. CASE FinishNotRecorded
    BY <1>0, <1>11, TableUntouched DEF FinishNotRecorded
  <1>12. CASE Crash
    BY <1>0, <1>12, TableUntouched DEF Crash
  <1>13. CASE Tick
    BY <1>13, TickKeepsQueueInv
  <1>14. CASE UNCHANGED vars
    BY <1>0, <1>14, TableUntouched DEF vars
  <1> QED
    BY <1>1, <1>2, <1>3, <1>4, <1>5, <1>6, <1>7, <1>8, <1>9, <1>10, <1>11, <1>12,
       <1>13, <1>14 DEF Next

(* The queue invariant holds in every reachable state.                     *)
THEOREM QueueInvariant == Spec => []QueueInv
  BY InitQueueInv, NextQueueInv, PTL DEF Spec

(* Types of the table, the worker and the callers.                         *)
THEOREM TypeCorrect == Spec => []TypeOK
  <1>1. QueueInv => TypeOK
    BY DEF QueueInv
  <1> QED
    BY <1>1, QueueInvariant, PTL

(* A handler never loses its row to the stale-lease scan or to Cancel.     *)
THEOREM LeaseIsHeld == Spec => []LeaseHeld
  <1>1. QueueInv => LeaseHeld
    <2> SUFFICES ASSUME QueueInv, loop.pc = "running"
                 PROVE  /\ loop.job \in InState(fleetJobs, "in_progress")
                        /\ ~IsStale(fleetJobs[loop.job], StaleThreshold)
      BY DEF LeaseHeld
    <2>1. /\ loop.job \in DOMAIN fleetJobs
          /\ fleetJobs[loop.job].state = "in_progress"
          /\ fleetJobs[loop.job].age <= JobTimeout
      BY DEF QueueInv, RunningRow
    <2>2. fleetJobs[loop.job].age \in Nat
      BY <2>1, RowFacts, AgeFacts DEF QueueInv
    <2> QED
      BY <2>1, <2>2, TimeAssumption DEF InState, IsStale
  <1> QED
    BY <1>1, QueueInvariant, PTL

(* The worker runs rows in the order in which they were inserted.          *)
THEOREM FifoOrderHolds == Spec => []FifoOrder
  <1>1. QueueInv => FifoOrder
    BY DEF QueueInv
  <1> QED
    BY <1>1, QueueInvariant, PTL

(* A row is leased at most once more than the process has died.            *)
THEOREM RerunsAreBounded == Spec => []RerunOnlyAfterCrash
  <1>1. QueueInv => RerunOnlyAfterCrash
    BY DEF QueueInv, LeaseCount, RerunOnlyAfterCrash
  <1> QED
    BY <1>1, QueueInvariant, PTL

-----------------------------------------------------------------------------
(* No step of the queue opens a closed row again.                          *)
LEMMA ClosedRowsStay ==
    ASSUME QueueInv, [Next]_vars, NEW j \in DOMAIN fleetJobs,
           fleetJobs[j].state \in TerminalStates
    PROVE  fleetJobs'[j].state = fleetJobs[j].state
  <1>0. /\ TypeOK /\ RunningRow /\ fleetJobs \in Seq(RowType(Work, Nat, 0 .. AgeCap))
        /\ caller \in [Callers -> DebouncedWork \cup {NoWork}]
    BY DEF QueueInv, TypeOK
  <1>1. fleetJobs[j].state # "queued" /\ fleetJobs[j].state # "in_progress"
    BY DEF TerminalStates, PendingStates
  <1>2. ASSUME NEW w \in Work, fleetJobs' = EnqueueRow(fleetJobs, w)
        PROVE  fleetJobs'[j] = fleetJobs[j]
    BY <1>0, <1>2, InsertFacts
  <1>3. ASSUME NEW i \in DOMAIN fleetJobs, NEW st \in JobStates,
               fleetJobs' = SetRowState(fleetJobs, i, st),
               fleetJobs[i].state \in PendingStates
        PROVE  fleetJobs'[j] = fleetJobs[j]
    <2>1. i # j
      BY <1>1, <1>3 DEF PendingStates
    <2> QED
      BY <1>0, <1>3, <2>1, SetRowStateLemma
  <1>4. ASSUME NEW i \in DOMAIN fleetJobs, IsNextQueued(fleetJobs, i),
               fleetJobs' = LeaseRow(fleetJobs, i)
        PROVE  fleetJobs'[j] = fleetJobs[j]
    <2>1. i # j
      BY <1>1, <1>4 DEF IsNextQueued, InState
    <2> QED
      BY <1>0, <1>4, <2>1, AgeFacts, LeaseRowLemma
  <1>5. ASSUME NEW c \in Callers, EnqueueDebounced(c) PROVE fleetJobs'[j] = fleetJobs[j]
    BY <1>0, <1>2, <1>5 DEF EnqueueDebounced, Work
  <1>6. ASSUME NEW w \in DirectWork, EnqueueDirect(w) PROVE fleetJobs'[j] = fleetJobs[j]
    BY <1>2, <1>6 DEF EnqueueDirect, Work
  <1>7. ASSUME NEW i \in DOMAIN fleetJobs, Cancel(i) PROVE fleetJobs'[j] = fleetJobs[j]
    BY <1>3, <1>7 DEF Cancel, CanCancel, CancelRow, JobStates, PendingStates
  <1>8. CASE Start
    BY <1>0, <1>1, <1>8, ResumeStaleLeasesLemma DEF Start
  <1>9. CASE Lease \/ LeaseAnswerLost
    BY <1>4, <1>9 DEF Lease, LeaseAnswerLost
  <1>10. CASE FinishDone \/ FinishFailed
    <2>1. loop.job \in DOMAIN fleetJobs /\ fleetJobs[loop.job].state \in PendingStates
      BY <1>0, <1>10 DEF RunningRow, FinishDone, FinishFailed, PendingStates
    <2> QED
      BY <1>3, <1>10, <2>1 DEF FinishDone, FinishFailed, MarkDone, MarkFailed, JobStates
  <1>11. CASE Tick
    BY <1>0, <1>11, AgeFacts, AgeRowsLemma DEF Tick
  <1>12. CASE fleetJobs' = fleetJobs
    BY <1>12
  <1> QED
    BY <1>5, <1>6, <1>7, <1>8, <1>9, <1>10, <1>11, <1>12
    DEF Next, vars, CheckPending, EnqueueFails, StartWithoutScan, FinishNotRecorded, Crash

(* Done, failed and cancelled are final, across restarts and races.        *)
THEOREM TerminalStatesAreFinal == Spec => TerminalIsFinal
  <1> DEFINE A == \A j \in DOMAIN fleetJobs :
                     fleetJobs[j].state \in TerminalStates =>
                         fleetJobs'[j].state = fleetJobs[j].state
  <1>1. QueueInv /\ [Next]_vars => [A]_vars
    BY ClosedRowsStay
  <1> QED
    BY <1>1, QueueInvariant, PTL DEF Spec, TerminalIsFinal

-----------------------------------------------------------------------------
(* How far the check-then-insert race of the debounced callers can go.     *)

CallersWith(w) == {c \in Callers : caller[c] = w}

(* Both counts are of finite sets.                                         *)
LEMMA DebounceSetsFinite ==
    ASSUME TypeOK, NEW w
    PROVE  /\ IsFiniteSet(PendingRows(w)) /\ Cardinality(PendingRows(w)) \in Nat
           /\ IsFiniteSet(CallersWith(w)) /\ Cardinality(CallersWith(w)) \in Nat
           /\ Cardinality(Callers) \in Nat
           /\ Cardinality(CallersWith(w)) <= Cardinality(Callers)
  <1>1. IsFiniteSet(DOMAIN fleetJobs)
    BY RowFacts, FS_Interval
  <1>2. PendingRows(w) \subseteq DOMAIN fleetJobs /\ CallersWith(w) \subseteq Callers
    BY DEF PendingRows, CallersWith
  <1> QED
    BY <1>1, <1>2, WorkAssumption, FS_Subset, FS_CardinalityType

(* A step that takes rows out of the pending states and callers out of     *)
(* the race keeps the bound.                                               *)
LEMMA FewerPending ==
    ASSUME TypeOK, TypeOK', NEW w,
           Cardinality(PendingRows(w)) + Cardinality(CallersWith(w)) <= Cardinality(Callers),
           PendingRows(w)' \subseteq PendingRows(w),
           CallersWith(w)' \subseteq CallersWith(w)
    PROVE  Cardinality(PendingRows(w)') + Cardinality(CallersWith(w)') <= Cardinality(Callers)
  <1>1. /\ Cardinality(PendingRows(w)') <= Cardinality(PendingRows(w))
        /\ Cardinality(CallersWith(w)') <= Cardinality(CallersWith(w))
    BY DebounceSetsFinite, FS_Subset
  <1>2. /\ Cardinality(PendingRows(w)') \in Nat /\ Cardinality(PendingRows(w)) \in Nat
        /\ Cardinality(CallersWith(w)') \in Nat /\ Cardinality(CallersWith(w)) \in Nat
        /\ Cardinality(Callers) \in Nat
    BY DebounceSetsFinite, FS_Subset, FS_CardinalityType
  <1> QED
    BY <1>1, <1>2

(* Insert by a debounced caller: it leaves the race, its row enters.       *)
LEMMA InsertKeepsBound ==
    ASSUME QueueInv, NEW w \in DebouncedWork, NEW c \in Callers, EnqueueDebounced(c),
           Cardinality(PendingRows(w)) + Cardinality(CallersWith(w)) <= Cardinality(Callers),
           TypeOK'
    PROVE  Cardinality(PendingRows(w)') + Cardinality(CallersWith(w)') <= Cardinality(Callers)
  <1> DEFINE n == Len(fleetJobs) + 1
  <1>0. TypeOK /\ caller \in [Callers -> DebouncedWork \cup {NoWork}]
    BY DEF QueueInv, TypeOK
  <1>1. caller[c] \in Work /\ caller[c] # NoWork
    BY <1>0 DEF EnqueueDebounced, Work
  <1>2. /\ n \notin DOMAIN fleetJobs
        /\ DOMAIN fleetJobs' = DOMAIN fleetJobs \cup {n}
        /\ \A j \in DOMAIN fleetJobs : fleetJobs'[j] = fleetJobs[j]
        /\ fleetJobs'[n].work = caller[c] /\ fleetJobs'[n].state = "queued"
    BY <1>0, <1>1, InsertFacts DEF EnqueueDebounced
  <1>3. caller' = [caller EXCEPT ![c] = NoWork]
    BY DEF EnqueueDebounced
  <1>4. CASE caller[c] = w
    <2>1. PendingRows(w)' = PendingRows(w) \cup {n} /\ n \notin PendingRows(w)
      BY <1>2, <1>4 DEF PendingRows, PendingStates
    <2>2. CallersWith(w)' = CallersWith(w) \ {c} /\ c \in CallersWith(w)
      BY <1>0, <1>3, <1>4, WorkAssumption DEF CallersWith
    <2>3. /\ IsFiniteSet(PendingRows(w)) /\ Cardinality(PendingRows(w)) \in Nat
          /\ IsFiniteSet(CallersWith(w)) /\ Cardinality(CallersWith(w)) \in Nat
          /\ Cardinality(Callers) \in Nat
      BY <1>0, DebounceSetsFinite
    <2>4. Cardinality(PendingRows(w)') = Cardinality(PendingRows(w)) + 1
      BY <2>1, <2>3, FS_AddElement
    <2>5. Cardinality(CallersWith(w)') = Cardinality(CallersWith(w)) - 1
      BY <2>2, <2>3, FS_RemoveElement
    <2> QED
      BY <2>3, <2>4, <2>5
  <1>5. CASE caller[c] # w
    <2>1. PendingRows(w)' \subseteq PendingRows(w)
      BY <1>2, <1>5 DEF PendingRows
    <2>2. CallersWith(w)' \subseteq CallersWith(w)
      BY <1>0, <1>3, WorkAssumption DEF CallersWith
    <2> QED
      BY <1>0, <2>1, <2>2, FewerPending
  <1> QED
    BY <1>4, <1>5

(* A caller that passed the check: nothing was pending, so at most the     *)
(* callers themselves are in the race.                                     *)
LEMMA CheckKeepsBound ==
    ASSUME QueueInv, NEW w \in DebouncedWork, NEW c \in Callers, NEW v \in DebouncedWork,
           CheckPending(c, v),
           Cardinality(PendingRows(w)) + Cardinality(CallersWith(w)) <= Cardinality(Callers),
           TypeOK'
    PROVE  Cardinality(PendingRows(w)') + Cardinality(CallersWith(w)') <= Cardinality(Callers)
  <1>0. TypeOK /\ caller \in [Callers -> DebouncedWork \cup {NoWork}]
    BY DEF QueueInv, TypeOK
  <1>1. fleetJobs' = fleetJobs /\ caller' = [caller EXCEPT ![c] = v]
    BY DEF CheckPending
  <1>2. PendingRows(w)' = PendingRows(w)
    BY <1>1 DEF PendingRows
  <1>3. CASE v = w
    <2>1. PendingRows(w) = {}
      BY <1>3 DEF CheckPending, HasPendingFor, PendingRows
    <2>2. Cardinality(PendingRows(w)') = 0
      BY <1>2, <2>1, FS_EmptySet
    <2>3. CallersWith(w)' \subseteq Callers
      BY DEF CallersWith
    <2>4. /\ Cardinality(CallersWith(w)') <= Cardinality(Callers)
          /\ Cardinality(CallersWith(w)') \in Nat
      BY <2>3, WorkAssumption, FS_Subset, FS_CardinalityType
    <2> QED
      BY <2>2, <2>4
  <1>4. CASE v # w
    <2>1. CallersWith(w)' \subseteq CallersWith(w)
      BY <1>0, <1>1, <1>4 DEF CallersWith
    <2> QED
      BY <1>0, <1>2, <2>1, FewerPending
  <1> QED
    BY <1>3, <1>4

(* Every other step: rows leave the pending states, callers leave the      *)
(* race, and work of the direct enqueuers is never debounced work.         *)
LEMMA OtherStepsOnlyShrink ==
    ASSUME QueueInv, NEW w \in DebouncedWork, [Next]_vars,
           ~ \E c \in Callers : EnqueueDebounced(c),
           ~ \E c \in Callers, v \in DebouncedWork : CheckPending(c, v)
    PROVE  /\ PendingRows(w)' \subseteq PendingRows(w)
           /\ CallersWith(w)' \subseteq CallersWith(w)
  <1>0. /\ TypeOK /\ RunningRow /\ fleetJobs \in Seq(RowType(Work, Nat, 0 .. AgeCap))
        /\ caller \in [Callers -> DebouncedWork \cup {NoWork}]
        /\ w # NoWork
    BY WorkAssumption DEF QueueInv, TypeOK
  <1>1. CallersWith(w)' \subseteq CallersWith(w)
    <2>1. \/ caller' = caller \/ caller' = [c \in Callers |-> NoWork]
          \/ \E c \in Callers : caller' = [caller EXCEPT ![c] = NoWork]
      BY DEF Next, vars, EnqueueFails, EnqueueDirect, Cancel, Start, StartWithoutScan, Lease,
             LeaseAnswerLost, FinishDone, FinishFailed, FinishNotRecorded, Crash, Tick
    <2> QED
      BY <1>0, <2>1 DEF CallersWith
  <1> SUFFICES PendingRows(w)' \subseteq PendingRows(w)
    BY <1>1
  <1>2. ASSUME fleetJobs' = fleetJobs PROVE PendingRows(w)' \subseteq PendingRows(w)
    BY <1>2 DEF PendingRows
  <1>3. ASSUME NEW v \in DirectWork, EnqueueDirect(v)
        PROVE  PendingRows(w)' \subseteq PendingRows(w)
    <2>1. v \in Work /\ v # w
      BY WorkAssumption DEF Work
    <2> QED
      BY <1>0, <1>3, <2>1, InsertFacts DEF EnqueueDirect, PendingRows
  <1>4. ASSUME DOMAIN fleetJobs' = DOMAIN fleetJobs,
               \A j \in DOMAIN fleetJobs :
                  /\ fleetJobs'[j].work = fleetJobs[j].work
                  /\ fleetJobs'[j].state \in PendingStates => fleetJobs[j].state \in PendingStates
        PROVE  PendingRows(w)' \subseteq PendingRows(w)
    BY <1>4 DEF PendingRows
  <1>5. ASSUME NEW j \in DOMAIN fleetJobs, NEW st \in TerminalStates,
               fleetJobs' = SetRowState(fleetJobs, j, st)
        PROVE  PendingRows(w)' \subseteq PendingRows(w)
    <2>1. st \in JobStates /\ st \notin PendingStates
      BY DEF TerminalStates
    <2>2. /\ DOMAIN fleetJobs' = DOMAIN fleetJobs
          /\ \A i \in DOMAIN fleetJobs : i # j => fleetJobs'[i] = fleetJobs[i]
          /\ fleetJobs'[j].state = st /\ fleetJobs'[j].work = fleetJobs[j].work
      BY <1>0, <1>5, <2>1, SetRowStateLemma
    <2> QED
      BY <1>4, <2>1, <2>2
  <1>6. ASSUME NEW j \in DOMAIN fleetJobs, Cancel(j)
        PROVE  PendingRows(w)' \subseteq PendingRows(w)
    BY <1>5, <1>6 DEF Cancel, CancelRow, TerminalStates, JobStates, PendingStates
  <1>7. CASE Start
    <2>1. /\ DOMAIN fleetJobs' = DOMAIN fleetJobs
          /\ \A j \in DOMAIN fleetJobs :
                /\ fleetJobs'[j].work = fleetJobs[j].work
                /\ \/ fleetJobs'[j].state = fleetJobs[j].state
                   \/ fleetJobs[j].state = "in_progress" /\ fleetJobs'[j].state = "queued"
      BY <1>0, <1>7, ResumeStaleLeasesLemma DEF Start
    <2> QED
      BY <1>4, <2>1 DEF PendingStates
  <1>8. CASE Lease \/ LeaseAnswerLost
    <2>1. PICK j \in DOMAIN fleetJobs :
             IsNextQueued(fleetJobs, j) /\ fleetJobs' = LeaseRow(fleetJobs, j)
      BY <1>8 DEF Lease, LeaseAnswerLost
    <2>2. fleetJobs[j].state \in PendingStates
      BY <2>1 DEF IsNextQueued, InState, PendingStates
    <2>3. /\ DOMAIN fleetJobs' = DOMAIN fleetJobs
          /\ \A i \in DOMAIN fleetJobs : i # j => fleetJobs'[i] = fleetJobs[i]
          /\ fleetJobs'[j].work = fleetJobs[j].work
      BY <1>0, <2>1, AgeFacts, LeaseRowLemma
    <2> QED
      BY <1>4, <2>2, <2>3
  <1>9. CASE FinishDone \/ FinishFailed
    <2>1. "done" \in TerminalStates /\ "failed" \in TerminalStates
      BY DEF TerminalStates, JobStates, PendingStates
    <2>2. loop.job \in DOMAIN fleetJobs
      BY <1>0, <1>9 DEF RunningRow, FinishDone, FinishFailed
    <2> QED
      BY <1>5, <1>9, <2>1, <2>2 DEF FinishDone, FinishFailed, MarkDone, MarkFailed
  <1>10. CASE Tick
    <2>1. /\ DOMAIN fleetJobs' = DOMAIN fleetJobs
          /\ \A j \in DOMAIN fleetJobs :
                /\ fleetJobs'[j].work = fleetJobs[j].work
                /\ fleetJobs'[j].state = fleetJobs[j].state
      BY <1>0, <1>10, AgeFacts, AgeRowsLemma DEF Tick
    <2> QED
      BY <1>4, <2>1
  <1> QED
    BY <1>2, <1>3, <1>6, <1>7, <1>8, <1>9, <1>10
    DEF Next, vars, EnqueueFails, StartWithoutScan, FinishNotRecorded, Crash

(* Rows that wait or run, and callers between check and insert: never more *)
(* than callers, for each debounced kind and node.                         *)
THEOREM DebounceIsBounded == Spec => []DebounceBound
  <1>1. Init => DebounceBound
    <2> SUFFICES ASSUME Init, NEW w \in DebouncedWork
                 PROVE  Cardinality(PendingRows(w)) + Cardinality(CallersWith(w))
                            <= Cardinality(Callers)
      BY DEF DebounceBound, CallersWith
    <2>1. PendingRows(w) = {} /\ CallersWith(w) = {}
      BY WorkAssumption DEF Init, PendingRows, CallersWith
    <2> QED
      BY <2>1, WorkAssumption, FS_EmptySet, FS_CardinalityType
  <1>2. QueueInv /\ QueueInv' /\ DebounceBound /\ [Next]_vars => DebounceBound'
    <2> SUFFICES ASSUME QueueInv, TypeOK, TypeOK', DebounceBound, [Next]_vars,
                        NEW w \in DebouncedWork
                 PROVE  Cardinality(PendingRows(w)') + Cardinality(CallersWith(w)')
                            <= Cardinality(Callers)
      BY DEF DebounceBound, CallersWith, QueueInv
    <2>1. Cardinality(PendingRows(w)) + Cardinality(CallersWith(w)) <= Cardinality(Callers)
      BY DEF DebounceBound, CallersWith
    <2>2. CASE \E c \in Callers : EnqueueDebounced(c)
      BY <2>1, <2>2, InsertKeepsBound
    <2>3. CASE \E c \in Callers, v \in DebouncedWork : CheckPending(c, v)
      BY <2>1, <2>3, CheckKeepsBound
    <2>4. CASE /\ ~ \E c \in Callers : EnqueueDebounced(c)
               /\ ~ \E c \in Callers, v \in DebouncedWork : CheckPending(c, v)
      BY <2>1, <2>4, OtherStepsOnlyShrink, FewerPending
    <2> QED
      BY <2>2, <2>3, <2>4
  <1> QED
    BY <1>1, <1>2, QueueInvariant, PTL DEF Spec
=============================================================================
