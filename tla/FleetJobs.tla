------------------------------ MODULE FleetJobs ------------------------------
(***************************************************************************)
(* The durable job queue of the fleet-security service: jobs.Store over    *)
(* the table fleet_jobs, jobs.Loop (the one polling worker) and the        *)
(* callers that enqueue work, across container restarts.                   *)
(*                                                                         *)
(* Processes: the worker goroutine (loop), and the callers that debounce   *)
(* with HasPendingFor before they Enqueue (the dispatcher hook, the HTTP   *)
(* handlers).  A check and the insert that follows it are two statements,  *)
(* so they are two steps here.  The table survives a crash; the worker     *)
(* and the callers do not.                                                 *)
(***************************************************************************)
EXTENDS JobStore, FiniteSets

CONSTANTS
    DebouncedWork,   \* work enqueued only after HasPendingFor said no
    DirectWork,      \* work enqueued unconditionally (Phase A, Phase C)
    Callers,         \* concurrent debounced callers
    NoWork,          \* a caller that is not between check and insert
    JobTimeout,      \* Loop.jobTimeout, in ticks (8 min)
    StaleThreshold,  \* threshold Loop.Start gives the scan, in ticks (10 min)
    MaxJobs, MaxCrashes, MaxDbFaults   \* bounds

ASSUME WorkAssumption ==
    /\ NoWork \notin DebouncedWork
    /\ DebouncedWork \cap DirectWork = {}
    /\ IsFiniteSet(Callers)

ASSUME TimeAssumption ==
    /\ JobTimeout \in Nat /\ StaleThreshold \in Nat
    /\ JobTimeout <= StaleThreshold

ASSUME BoundAssumption ==
    MaxJobs \in Nat /\ MaxCrashes \in Nat /\ MaxDbFaults \in Nat

VARIABLES
    fleetJobs,  \* the table
    loop,       \* the worker: stopped, idle (polling) or running a leased row
    caller,     \* the work a caller found not pending, or NoWork
    crashes,    \* how often the process died
    dbFaults    \* how often a statement's answer was lost

vars == <<fleetJobs, loop, caller, crashes, dbFaults>>

Work == DebouncedWork \cup DirectWork
AgeCap == StaleThreshold + 1

TypeOK ==
    /\ fleetJobs \in Seq(RowType(Work, Nat, 0 .. AgeCap))
    /\ loop \in [pc : {"stopped", "idle", "running"}, job : Nat]
    /\ caller \in [Callers -> DebouncedWork \cup {NoWork}]
    /\ crashes \in Nat
    /\ dbFaults \in Nat

Stopped == [pc |-> "stopped", job |-> 0]
Idle == [pc |-> "idle", job |-> 0]
Running(j) == [pc |-> "running", job |-> j]

Init ==
    /\ fleetJobs = <<>>
    /\ loop = Stopped
    /\ caller = [c \in Callers |-> NoWork]
    /\ crashes = 0
    /\ dbFaults = 0

ProcessUp == loop.pc # "stopped"

-----------------------------------------------------------------------------
(* Callers.                                                                *)

(* The check half of "HasPendingFor, then Enqueue": a caller that is told  *)
(* "pending" returns, one that is not goes on to insert.                   *)
CheckPending(c, w) ==
    /\ ProcessUp
    /\ caller[c] = NoWork
    /\ ~HasPendingFor(fleetJobs, w.kind, w.node)
    /\ caller' = [caller EXCEPT ![c] = w]
    /\ UNCHANGED <<fleetJobs, loop, crashes, dbFaults>>

EnqueueDebounced(c) ==
    /\ ProcessUp
    /\ caller[c] # NoWork
    /\ Len(fleetJobs) < MaxJobs
    /\ fleetJobs' = EnqueueRow(fleetJobs, caller[c])
    /\ caller' = [caller EXCEPT ![c] = NoWork]
    /\ UNCHANGED <<loop, crashes, dbFaults>>

(* The insert fails: the caller gives up.                                  *)
EnqueueFails(c) ==
    /\ caller[c] # NoWork
    /\ dbFaults < MaxDbFaults
    /\ dbFaults' = dbFaults + 1
    /\ caller' = [caller EXCEPT ![c] = NoWork]
    /\ UNCHANGED <<fleetJobs, loop, crashes>>

EnqueueDirect(w) ==
    /\ ProcessUp
    /\ Len(fleetJobs) < MaxJobs
    /\ fleetJobs' = EnqueueRow(fleetJobs, w)
    /\ UNCHANGED <<loop, caller, crashes, dbFaults>>

(* Mutant: an in-progress row is cancelled too.                            *)
CancelAnyPending(j) ==
    /\ ProcessUp
    /\ fleetJobs[j].state \in PendingStates
    /\ fleetJobs' = CancelRow(fleetJobs, j)
    /\ UNCHANGED <<loop, caller, crashes, dbFaults>>

Cancel(j) ==
    /\ ProcessUp
    /\ CanCancel(fleetJobs, j)
    /\ fleetJobs' = CancelRow(fleetJobs, j)
    /\ UNCHANGED <<loop, caller, crashes, dbFaults>>

-----------------------------------------------------------------------------
(* The worker.                                                             *)

(* Loop.Start: one stale-lease scan, then the goroutine.                   *)
Start ==
    /\ loop = Stopped
    /\ fleetJobs' = ResumeStaleLeases(fleetJobs, StaleThreshold)
    /\ loop' = Idle
    /\ UNCHANGED <<caller, crashes, dbFaults>>

(* The scan fails: logged, and the goroutine starts all the same.          *)
StartWithoutScan ==
    /\ loop = Stopped
    /\ dbFaults < MaxDbFaults
    /\ dbFaults' = dbFaults + 1
    /\ loop' = Idle
    /\ UNCHANGED <<fleetJobs, caller, crashes>>

(* Mutant: the worker waits until nothing is marked in progress.           *)
LeaseWhenNoneInProgress ==
    /\ loop = Idle
    /\ InState(fleetJobs, "in_progress") = {}
    /\ \E j \in DOMAIN fleetJobs :
          /\ IsNextQueued(fleetJobs, j)
          /\ fleetJobs' = LeaseRow(fleetJobs, j)
          /\ loop' = Running(j)
    /\ UNCHANGED <<caller, crashes, dbFaults>>

(* Loop.run: LeaseNext, and dispatch calls the handler.  A tick with no    *)
(* queued row, or a LeaseNext that fails, changes nothing.                 *)
Lease ==
    /\ loop = Idle
    /\ \E j \in DOMAIN fleetJobs :
          /\ IsNextQueued(fleetJobs, j)
          /\ fleetJobs' = LeaseRow(fleetJobs, j)
          /\ loop' = Running(j)
    /\ UNCHANGED <<caller, crashes, dbFaults>>

(* The lease commits, and the answer to the COMMIT is lost: LeaseNext      *)
(* returns an error and nobody runs the row.                               *)
LeaseAnswerLost ==
    /\ loop = Idle
    /\ dbFaults < MaxDbFaults
    /\ dbFaults' = dbFaults + 1
    /\ \E j \in DOMAIN fleetJobs :
          /\ IsNextQueued(fleetJobs, j)
          /\ fleetJobs' = LeaseRow(fleetJobs, j)
    /\ UNCHANGED <<loop, caller, crashes>>

(* The handler returns nil, or an error (no handler for the kind, the      *)
(* handler's own error, or the expiry of jobTimeout).                      *)
FinishDone ==
    /\ loop.pc = "running"
    /\ fleetJobs' = MarkDone(fleetJobs, loop.job)
    /\ loop' = Idle
    /\ UNCHANGED <<caller, crashes, dbFaults>>

FinishFailed ==
    /\ loop.pc = "running"
    /\ fleetJobs' = MarkFailed(fleetJobs, loop.job)
    /\ loop' = Idle
    /\ UNCHANGED <<caller, crashes, dbFaults>>

(* MarkDone or MarkFailed fails: dispatch drops the error and goes on.     *)
FinishNotRecorded ==
    /\ loop.pc = "running"
    /\ dbFaults < MaxDbFaults
    /\ dbFaults' = dbFaults + 1
    /\ loop' = Idle
    /\ UNCHANGED <<fleetJobs, caller, crashes>>

(* The process dies, or Loop.Stop cancels the worker's context: the        *)
(* handler returns, and the MarkFailed that follows is given the context   *)
(* that has just been cancelled, so the row keeps its state either way.    *)
Crash ==
    /\ ProcessUp
    /\ crashes < MaxCrashes
    /\ crashes' = crashes + 1
    /\ loop' = Stopped
    /\ caller' = [c \in Callers |-> NoWork]
    /\ UNCHANGED <<fleetJobs, dbFaults>>

(* A handler's waits all end with its context, so it has returned by       *)
(* jobTimeout.                                                             *)
Tick ==
    /\ loop.pc = "running" => fleetJobs[loop.job].age < JobTimeout
    /\ fleetJobs' = AgeRows(fleetJobs, AgeCap)
    /\ UNCHANGED <<loop, caller, crashes, dbFaults>>

Finish == FinishDone \/ FinishFailed

Next ==
    \/ \E c \in Callers :
          \/ \E w \in DebouncedWork : CheckPending(c, w)
          \/ EnqueueDebounced(c)
          \/ EnqueueFails(c)
    \/ \E w \in DirectWork : EnqueueDirect(w)
    \/ \E j \in DOMAIN fleetJobs : Cancel(j)
    \/ Start \/ StartWithoutScan
    \/ Lease \/ LeaseAnswerLost
    \/ FinishDone \/ FinishFailed \/ FinishNotRecorded
    \/ Crash
    \/ Tick

Spec == Init /\ [][Next]_vars

(* The supervisor restarts the container, the worker polls, and handlers   *)
(* return: each of these steps is taken unless something else disables it. *)
Fairness == WF_vars(Start) /\ WF_vars(Lease) /\ WF_vars(Finish)

FairSpec == Spec /\ Fairness

-----------------------------------------------------------------------------
(* Properties.                                                             *)

(* The row the worker runs is leased and its lease is younger than the     *)
(* stale threshold: no scan and no cancel takes it away under a running    *)
(* handler (ResumeStaleLeases' comment on picking the threshold).          *)
LeaseHeld ==
    loop.pc = "running" =>
        /\ loop.job \in InState(fleetJobs, "in_progress")
        /\ ~IsStale(fleetJobs[loop.job], StaleThreshold)

(* "Sequential: single in-process worker, FIFO": while a row runs no older *)
(* row waits, whatever was re-queued, cancelled or lost in between.        *)
FifoOrder ==
    loop.pc = "running" =>
        \A i \in InState(fleetJobs, "queued") : loop.job < i

(* A row is run again only after the process died: a handler's effects on  *)
(* the radios are repeated at most once for each crash.                    *)
RerunOnlyAfterCrash ==
    \A j \in DOMAIN fleetJobs : fleetJobs[j].attempts <= crashes + 1

(* Check-then-insert is not atomic, but it bounds the damage: at most one  *)
(* pending row per concurrent caller for the same kind and node.           *)
PendingRows(w) == {j \in DOMAIN fleetJobs : /\ fleetJobs[j].work = w
                                            /\ fleetJobs[j].state \in PendingStates}

DebounceBound ==
    \A w \in DebouncedWork :
        Cardinality(PendingRows(w)) + Cardinality({c \in Callers : caller[c] = w})
            <= Cardinality(Callers)

(* A closed row is never opened again, although MarkDone, MarkFailed and   *)
(* the scan run concurrently with Cancel and across restarts.              *)
TerminalIsFinal ==
    [][\A j \in DOMAIN fleetJobs :
          fleetJobs[j].state \in TerminalStates =>
              fleetJobs'[j].state = fleetJobs[j].state]_vars

(* Every queued row is eventually leased or cancelled: the queue never     *)
(* wedges, whatever crashes and lost answers happen on the way.            *)
QueuedIsTaken ==
    \A j \in 1 .. MaxJobs :
        (j \in InState(fleetJobs, "queued")) ~> (j \notin InState(fleetJobs, "queued"))
=============================================================================
