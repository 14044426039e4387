------------------------------ MODULE JobStore ------------------------------
(***************************************************************************)
(* The table fleet_jobs and the SQL statements of jobs.Store               *)
(* (internal/fleetsec/jobs/jobs.go), as operators from table to table.     *)
(*                                                                         *)
(* A table is a sequence of rows.  Rows are only ever inserted, and        *)
(* enqueued_at never changes, so the index of a row is its id and the      *)
(* order of the indices is ORDER BY enqueued_at ASC.  A row keeps "age",   *)
(* the time since started_at (in units chosen by the user of the module),  *)
(* instead of the timestamp itself: no statement reads started_at but the  *)
(* stale-lease scan, which compares it with now.  A row's work is a record *)
(* with at least the fields kind and node.                                 *)
(***************************************************************************)
EXTENDS Integers, Sequences

JobStates == {"queued", "in_progress", "done", "failed", "cancelled"}
PendingStates == {"queued", "in_progress"}
TerminalStates == JobStates \ PendingStates

RowType(Work, Attempts, Ages) ==
    [work : Work, state : JobStates, attempts : Attempts, age : Ages]

(* INSERT: state defaults to 'queued' and attempts to 0 (migration 000029). *)
EnqueueRow(rows, w) ==
    Append(rows, [work |-> w, state |-> "queued", attempts |-> 0, age |-> 0])

InState(rows, st) == {j \in DOMAIN rows : rows[j].state = st}

(* Mutants of the SELECT: no ORDER BY; in_progress rows not excluded.      *)
IsAnyQueued(rows, j) == j \in InState(rows, "queued")

IsNextPending(rows, j) ==
    LET pending == InState(rows, "queued") \cup InState(rows, "in_progress")
    IN  j \in pending /\ \A i \in pending : j <= i

(* SELECT ... WHERE state = 'queued' ORDER BY enqueued_at ASC LIMIT 1.      *)
IsNextQueued(rows, j) ==
    /\ j \in InState(rows, "queued")
    /\ \A i \in InState(rows, "queued") : j <= i

LeaseRow(rows, j) ==
    [rows EXCEPT ![j].state = "in_progress", ![j].attempts = @ + 1, ![j].age = 0]

SetRowState(rows, j, st) == [rows EXCEPT ![j].state = st]

(* Mutant: a state the table's CHECK constraint does not know.             *)
MarkFailedUnknownState(rows, j) == SetRowState(rows, j, "error")

(* MarkDone and MarkFailed are unconditional updates by id.                *)
MarkDone(rows, j) == SetRowState(rows, j, "done")
MarkFailed(rows, j) == SetRowState(rows, j, "failed")

(* Cancel touches the row only WHERE state = 'queued'.                      *)
CanCancel(rows, j) == rows[j].state = "queued"
CancelRow(rows, j) == SetRowState(rows, j, "cancelled")

(* Mutant: a leased row is forgotten.                                      *)
HasQueuedFor(rows, kind, node) ==
    \E j \in DOMAIN rows : /\ rows[j].work.kind = kind
                           /\ rows[j].work.node = node
                           /\ rows[j].state = "queued"

(* COUNT over kind, node and the pending states: the rotation a row        *)
(* belongs to is not part of the question.                                 *)
HasPendingFor(rows, kind, node) ==
    \E j \in DOMAIN rows : /\ rows[j].work.kind = kind
                           /\ rows[j].work.node = node
                           /\ rows[j].state \in PendingStates

(* Mutant: the scan looks at the timestamp alone.                          *)
IsOld(row, threshold) == row.age > threshold

(* in_progress rows whose started_at lies before now - threshold go back   *)
(* to queued; attempts and enqueued_at are kept.                           *)
IsStale(row, threshold) == row.state = "in_progress" /\ row.age > threshold

ResumeStaleLeases(rows, threshold) ==
    [j \in DOMAIN rows |->
        IF IsStale(rows[j], threshold)
        THEN [rows[j] EXCEPT !.state = "queued"]
        ELSE rows[j]]

(* Time passes for the leased rows, up to the cap beyond which no          *)
(* statement can tell two ages apart.                                      *)
AgeRows(rows, cap) ==
    [j \in DOMAIN rows |->
        IF rows[j].state = "in_progress" /\ rows[j].age < cap
        THEN [rows[j] EXCEPT !.age = @ + 1]
        ELSE rows[j]]
=============================================================================
