# TLA+ models of diginode-cc

diginode-cc is a Go server that sits beside a Meshtastic radio on a serial port
(the "Pi's radio"). It tracks sensor nodes and drones, queues commands for the
nodes, and manages the keys of the fleet over the mesh. This directory holds
TLA+ models of its stateful core, the TLC configurations that check them on
small instances, and TLAPS proofs. `PROJECT.json` maps every definition to the
lines it models and lists components, runs, hazards, findings and theorems.

    tlc -workers 2 -config MCFleetJobs.cfg MCFleetJobs
    tlc -workers 2 -config MCSerialLink.cfg MCSerialLink
    tlapm FleetJobs_proofs.tla
    tlapm EventHub_proofs.tla

## 1. Inventory

| Part (src/internal/...) | State | Operations | Interacts with | Hard part | What makes it correct |
|---|---|---|---|---|---|
| fleetsec/jobs: job queue | table `fleet_jobs`; worker goroutine | Enqueue, LeaseNext, MarkDone/Failed, Cancel, HasPendingFor, ResumeStaleLeases; Loop.Start/Stop/run/dispatch | called by HTTP handlers and the dispatcher hook; runs the fleetsec handlers | restart between lease and close, lost database answers, check-then-insert | FIFO, no lease taken from a running handler, bounded reruns, closed rows final, queue does not wedge |
| fleetsec/transactions + service: admin calls | map of transactions, one channel of capacity one each; session passkeys; per-node locks | Begin, HandleRoutingAck, HandleAdminMessage, watcher timeout, send | dispatcher goroutine, serial port, radios | timeout racing an answer, loopback acks, Get's two answers, expired sessions | one reply per call, no false success, no caller hangs |
| fleetsec: PSK rotation, stranded recovery | tables `fleet_rotations`, `fleet_node_trust`, `fleet_channels`, `fleet_recovery_psks`; the hook's hash map; radios' channel slots | RotatePSK, RetryRotation, RetireOldPSK, Phase A/B/C, recover_stranded, the dispatcher hook | job queue, admin calls | unacknowledged radio frames, crashes between radio and table, recovery slots running out, retries over swapped slots | no remote is cut off, "done" means done |
| commands: command queue | `pending` map, rate slots, commands table | Enqueue, send, HandleStructuredACK, Delete, EnforceScanTimeouts | serial port, text parser, hub | send runs outside the lock, acks match by name, fan-out of stops | a closed command stays closed, raw mode goes off again, scans end |
| serial/manager: the link | port, stop channel, connected, delay | Start, Stop, WakeDevice, read loop, POST /serial/connect | dispatcher, commands, fleetsec | Stop, WakeDevice and a second Start against the reader's unlocked reads | nobody writes to a closed port, the link comes back |
| serial/framing, encode | decoder state | Feed, the decoders, the builders | manager, dispatcher | split reads, stray bytes, truncation | a frame arrives once and unchanged; what is built is read back |
| serial/textparser, manager's dispatch, meshtastic/dispatcher | metadata cache, duplicate filter | ParseLine, ProcessMeshText, HandlePacket | chat, alerts, targets, commands | one packet shown several times in any order | each event is delivered, and stored once |
| nodes: registry | map, table `nodes`, local number, pending firmware | HandleNodeInfo, TouchNode, ClassifyNode, MarkLocal, texts and telemetry, rename, Remove, ClearAll, Load | dispatcher, HTTP | out-of-order MyInfo/NodeInfo, unordered persistence goroutines | the local number is the radio's own, a sensor stays a sensor |
| statusbroadcast | trigger channel, metrics request slot | Trigger, HandleStatusRequest, broadcast, readBattery | dispatcher, registry, radio | coalescing while a frame is being built | every accepted request is answered |
| drones, geofences, alerts | maps with tables behind them, geofence state, persist queue, cooldowns | HandleDetection, UpdateStatus, Remove, ClearAll, CRUD of fences and rules, Evaluate, Trigger | dispatcher, hub, main's callbacks | edits in two halves against the reader, debounced goroutines, state kept after removal | each stay in a fence is reported once, a silent rule has alerted, drones reach the table |
| targets | cache, tables `targets` and `target_hits`, tracking states | Create, Update, Delete, Resolve, ClearAll, EnsureTargetExists, RecordHit, ApplyTrackingEstimate, Load | main's callbacks, HTTP | table-first requests against a cache-first clear and the reader | the cache shows the newest hit, no row is hidden |
| ws: hub and clients | client set, broadcast channel, send buffers | Register, Unregister, Broadcast, Run, Stop, both pumps | every service, with its lock held | full buffers, the client limit, a client cut off before its snapshot | an ordered stream without gaps, callers do not block |
| fleetsec: trust, identity, keys, wizard | trust rows, key file, wizard session | Get/Set/VerifyTrust, import/export, wizard steps | admin calls, a second serial port | partial sequences over USB | an enrolled node stays administrable |
| inventory, probes, webhooks, MQTT, TAK, ADS-B, ACARS | caches of what was read | upserts, forwards, polls | external services | none of their own | — |
| auth, users, permissions, ratelimit, firewall, api, config, exports, tiles, updates, database, frontend | — | request handling and I/O | — | — | — |

## 2. Modules

| Module | Models | Variables and the code's state |
|---|---|---|
| `JobStore` | the SQL statements of `jobs.Store`, as operators from table to table | a table is a sequence of rows; a row's index is its place in `ORDER BY enqueued_at`; `age` is the time since `started_at` |
| `FleetJobs` | `jobs.Store` + `jobs.Loop` + callers, over `JobStore` | `fleetJobs` the table, `loop` the worker, `caller` who is between check and insert |
| `AdminTracker` | `Tracker`, `Service.send`, the passkey cache | `transactions` the map, `reply` the channels, `watcher` the timeout goroutines, `dispatching` what the dispatcher has removed but not delivered, `air` packets that may arrive at any time, repeatedly or never, `session`/`passkeys` the firmware's and the server's key |
| `PskRotation` | rotation and recovery over `JobStore` | `pi`, `remote` the radios' slots; `rotation`, `trust`, `channelFp`, `cache` the tables; `hook` the in-memory hash map; `jobs`, `worker` the queue and the handler; `retry` a RetryRotation between its read and its write; `missed` (history) the PSKs that Phase C left uncached or retired without promoting |
| `CommandQueue` | `commands.Service` | `cmds` the records, `pending` the map, `sender` the goroutines inside send, `nodeRate` the rate slot |
| `SerialLink` | `serial.Manager`'s lifecycle | `loop` per Start goroutine its place, delay, handle and the stop channel its select waits on; `stopCh`/`closed`, `port`, `connected` the fields; `handles`, `device`, `exclusive` the tty and whether it can be opened twice; `wake` a WakeDevice |
| `Framing` | framing.go, encode.go and the payload decoders of dispatcher.go, as functions on byte sequences | — |
| `TextParser` | textparser.go: what each form of line yields | — |
| `MeshIngest` | reader, duplicate filter, parser and chat for text packets, over `TextParser` | `heard` the packets, `shown` what of each was read, `dedup` the filter, `pktCache` the metadata cache, `handled`/`chatTo` what reached the services |
| `NodeRegistry` | `nodes.Service` and the dispatcher's handlers that drive it | `nodes`, `rows` map and table; `unread`, `writes` persistence goroutines before and after they read the record; `todo` the registry calls the reader still has to make for its packet; `localNum`, `pendingFw` the dispatcher's fields |
| `StatusReply` | `statusbroadcast.Service` composed with `NodeRegistry` | `trigger` the channel of capacity one, `worker` the loop, `metrics` the dispatcher's request slot |
| `EventHub` | `ws.Hub`, `ws.Client`, the connect handler and the services' locks | `bus`, `send`, `clients` the channels and the set; `handler`, `reader`, `writer` a connection's goroutines; `toRead` the services whose GetAll its snapshot still waits for; `locked` services inside Broadcast |
| `FanOut` | what the hub promises, without channels and goroutines | `sent`, `joined`, `cut`, `stream` |
| `Surveillance` | `drones`, `geofences`, `alerts`, wired as in main | caches and tables of fences, rules and drones; `inside` the geofence state; `queue`, `timer`, `unread`, `writes` persistence; `halves` requests between table and cache; `reader` the rules still to trigger; `asked`, `wasIn` history: the rules saved with a running cooldown, the last fix |
| `TargetTracking` | `targets`, with main's callbacks | `cache`, `rows`, `hits`; `reader` where the reader goroutine is; `estimates` position updates between cache and row; `halves` as above |
| `FleetJobs_proofs`, `AdminTracker_proofs`, `PskRotation_proofs`, `EventHub_proofs`, `SerialPath_proofs` (link, texts, alerts), `TargetTracking_proofs`, `CommandQueue_proofs`, `StatusReply_proofs` | theorems | — |
| `MC*` | instances for TLC | — |

`PskRotation` composes the table operators of `JobStore` with the handlers; it
uses the same lease, stale-scan and debounce operators `FleetJobs` is proved
about, and adds what `FleetJobs` leaves open: what the handlers do when one of
their own statements fails. `MeshIngest` composes parser, reader and filter; `StatusReply` extends `NodeRegistry`; `EventHub` implements
`FanOut` (`INSTANCE FanOut WITH sent <- fanned, stream <- got`): `GaplessStream`
is the abstract specification.

**Where the code is cut into steps.** One action is what a goroutine does
between two points at which another can be observed: under one mutex, in one SQL
statement, or up to the next radio exchange. So `HasPendingFor` and `Enqueue`
are two actions; removing a transaction and sending on its channel are two;
`send`'s call of `sendFn` is entered and left in two; a rotation handler works
from the snapshot it read at its start; a CRUD request changes the table in one
step and the cache in another; a goroutine that reads a live record without the
lock reads it in one step and writes the row in another; each unlocked read of
`m.stopCh` and `m.port` is a step; a packet's calls of the registry, and a
snapshot's calls of the services, take their locks one after the other.

**Abstractions.** PSKs are numbered by the rotation that brings them; RotatePSK
refuses a key whose channel hash collides with one in use, so a hash names its
PSK. Admin packets keep type, sender, request id and error. Command names stand
for the classes the code treats differently. A line of sensor text is the
pattern it is written for and the optional part that changes the result. A node
is its type, its name and what is known about it; a drone the number of its last
detection; a target its MAC, its status and its newest hit. Integer grid points
stand for positions. Audit rows, progress events, attempt counters for display,
wording and timestamps (beyond "older than the threshold") are left out.

## 3. Runs

| Run | Bounds | Shows |
|---|---|---|
| `fleet_jobs` | 2 debounced callers, 1 direct enqueuer, 3 rows, 2 crashes, 1 database fault | LeaseHeld, FifoOrder, RerunOnlyAfterCrash, DebounceBound, TerminalIsFinal, QueuedIsTaken |
| `admin_tracker` | 2 calls, 1 remote and the local radio, 2 sessions | ExactlyOneReply, NoFalseSuccess, GetReturnsData, RefusedKeyDropped, CallsReturn |
| `psk_rotation` | 1 remote, 2 rotations over 1 recovery slot, 1 retry, 1 fault of any kind | PiCanonical, PiHearsFleet, StrandedRecoverable, OnePhaseBPerNode, DoneOnProof |
| `psk_blind` (violation) | 1 remote, 1 rotation, 1 unanswered read | Phase C retires a rotation the Pi is not on (section 5) |
| `psk_gate` (violation) | 2 remotes, 1 rotation, no fault | the retirement gate opens for a remote that was only verified (section 5) |
| `commands` | 2 operator commands of any class, 4 in all, 1 node | FinishedLeavesQueue, RawOffOncePerScan, ProbeScansEnd |
| `serial_link` | 2 loops, 1 Stop, 1 WakeDevice, 1 unplug, a tty that is exclusive or not; base delay 2, maximum 4, 25 % jitter | the delay stays in its bounds (TypeOK), PortIsOpen, Reconnects; the framing assumptions below |
| `mesh_ingest` | 2 packets, the first of every form and option and some of two lines, 1 repeat, 1 expiry, a metadata cache of 1 | the cache stays bounded (IngestTypeOK), GatedOnce, FrameDelivered |
| `status_reply` | 2 nodes, 2 packets of any kind, 1 operator request, 1 restart | LocalPinned, SensorSticky, StatusAnswered |
| `event_hub` | 2 clients, 2 services, 3 events, buffers of 1, no limit or a limit of 1 | the client limit holds (TypeOK), GaplessStream (the refinement of FanOut), HubServes |
| `surveillance` | 1 drone, 1 fence, 1 rule, 3 detections, 2 requests, 1 fault | BreachesExact, SilentAfterAlert, DronePersisted |
| `targets` | 2 targets, 1 MAC or none, 2 frames, 3 requests, 1 fault | HitFallback, NoHiddenTarget |

**Why these bounds.** Two callers and two crashes are the least that make a
duplicate insert and a second rerun possible; three rows let an old re-queued
row, a newer queued row and a lost one coexist. Two calls on one remote share
the passkey cache, and race once the first has returned and its late packets
are still in the air; each call has its own watcher. Two rotations over one
recovery slot fill the cache and evict from it. Two operator commands with their automatic
RAW_BLE_ON/OFF give two open commands of one class and a stop that fans out.
In `PskRotation` the fault kinds share one budget (`MaxFaults`): one fault at
every place where one can happen, over both rotations. Larger instances of the
same properties were checked once and are not kept as runs, for their time: two
remotes with one rotation and two faults or with two rotations, one remote with
two faults, or with three rotations over one slot and over two. The proofs
(section 4) have no bound on any of these.

Two reconnect loops are what Stop followed by POST /serial/connect can leave
behind; one unplug gives two incarnations of the device, so that a loop can hold
a handle on the old one. `MaxHandles = 7` is more than the process can have on
one device in this instance, so an open never fails for it. The delays 2 and 4
are scaled from the defaults and make growth, cap and jitter happen. In `MeshIngest` packets interact only
through the metadata cache and its pruning, which a second packet and a cache of
one reach; the parser has no state, so one line of each form suffices. Two
packets are enough for MyInfo and a late NodeInfo, or for a sensor text and a
NodeInfo with another name, and a request or a restart can come between any two
of their calls. Buffers of one fill at once: every send can
meet a full channel, and a client can be cut off before its snapshot. Three
detections are an entry, one without GPS and the next fix; two requests overlap
each other and the reader; an id that is deleted in the table can still be in
the cache. Two targets let a placeholder appear beside a target that is being
cleared.

`Overlap = FALSE` in the rotation runs: a rotation is started only when the
earlier ones are retired. The code does not check this (see the hazard at
channels.go:205), so what these runs show holds for an operator who finishes
one rotation before starting the next. Every other way to fail is in the model:
a lost frame, a radio that leaves a command or a read unanswered, a crash, and a
statement that fails, at each of which the handler logs and goes on, or returns,
as the code does there. Where it goes on the properties name the price: a failed
debounce check (job_handlers.go:162-170) allows one more Phase B row, a failed
AddRecoveryPSK (383-387) leaves the PSK out of cache and radio, and a PRIMARY
slot that could not be read (336-338) retires a PSK that is never promoted. The
last two are what `missed` collects. Remotes that lost the promote frame but not
the wipe of their old slot have no PSK at all, and `PiHearsFleet` is not about
them either.

**Framing.** `MCSerialLink` states, as assumptions that TLC evaluates once, what
the functions of `Framing` compute, over payloads and garbage of up to three
bytes with the start bytes among them: a frame is delivered whatever came before
and wherever the reads split it; a stray start byte costs one frame; varints and
zigzag numbers are read back; every builder's packet is decoded to what went in;
a truncated message yields a prefix of its fields. `MCSurveillance` does the same
for the polygon test, against half planes, and for rule matching.

**Deadlock** is not checked: a queue with no work, a fleet without a rotation, a
stopped hub and a spent bound are legitimate ends.

**Fairness.** `FleetJobs`: the supervisor restarts the container
(`restart: unless-stopped`), the worker polls on a ticker, and every wait of a
handler ends with its context, so a handler returns. Tick, Crash and the callers
owe nothing. `AdminTracker`: runnable goroutines run and contexts expire; the
radios and the mesh owe nothing. `CommandQueue`: the watchdog's ticker fires.
`SerialLink`: loops and readers run, delays elapse, a begun Stop or WakeDevice
goes on, and an unplugged device is plugged in again; nobody has to stop, wake
or connect. `StatusReply`: the broadcaster's goroutine runs and its query times
out; packets owe nothing. `EventHub`: the hub's select takes a case that stays
ready, blocked senders are served, pumps run; clients and services owe nothing.
`Surveillance`: the debounce timer fires in the end (detections that keep coming
within 200 ms postpone it; the detections of the instance are finite) and the
goroutines run, with the database answering or failing. `PskRotation`,
`MeshIngest` and `TargetTracking` state safety only.

## 4. Proofs

`FleetJobs_proofs` proves, for any work, callers, thresholds and bounds,
`TypeOK`, `LeaseHeld`, `FifoOrder`, `RerunOnlyAfterCrash` and `DebounceBound`
as invariants and `TerminalIsFinal` as an action property of `Spec`. It assumes
what the module assumes: no work is both debounced and direct and the callers
are finite (`WorkAssumption`), the job timeout does not exceed the stale
threshold (`TimeAssumption`; 8 and 10 minutes in the code), bounds are naturals.

The inductive invariant is
`QueueInv == TypeOK /\ LeaseCount /\ RunningRow /\ FifoOrder`.
None of the properties is inductive alone. `RunningRow` says that the worker's
row is leased and its age at most the job timeout: `LeaseHeld` follows with
`TimeAssumption`, and a running handler can neither be cancelled nor scanned
away. `LeaseCount` bounds a row's leases by the crashes before, with a strict
bound for queued rows: re-queuing happens only in `Start`, after a crash, and
leasing only from queued, so the strict bound pays for the next lease.
`FifoOrder` needs that no row becomes queued while another runs except at the
end of the table. `DebounceBound` is a counting argument with its own
induction: pending rows of a kind and node, and callers about to insert one,
are finite sets that grow by one only when `HasPendingFor` found none.
The lemmas on what each statement does to each row stand at its head.

`AdminTracker_proofs` proves, for any set of calls, remotes and number of
sessions, `TypeOK`, `ExactlyOneReply`, `NoFalseSuccess`, `GetReturnsData` and
`RefusedKeyDropped`, from `NodesAssumption` (the local radio is not a remote)
and `SessionsAssumption`. The inductive invariant `SessionInv` has two halves.
`AdminInv`: every begun call has one owner among map, dispatcher, watcher and
channel (`OneOwner`; without it a second send could meet a full channel);
packets tell the truth about what their target did (`AirInv`; the loopback ack
is the exception the source filter is for); and what the dispatcher carries or
a channel holds came from the air through the filters (`Dispatched`, `Replied`),
so a result rests on a truthful packet (`Returned`). `CacheInv`: calls to a node
exclude each other, cached and used keys never exceed the session's, a refused
key is strictly older than the session, and so no answer to a later call can
bring it back.

`PskRotation_proofs` works with three invariants. `CoreInv`, inductive without any
assumption on the operator (`Overlap` is free), proves `TypeOK` and
`DoneOnProof`, and with it `OnePhaseBPerNode`, for any remotes, recovery slots,
rotations, retries and faults. It adds to them: rows whose fields fit their kind
(`JobsOK`), a handler whose step fits its row (`HandlerOK`), at most one PRIMARY
on the Pi, in a work slot and with a PSK (`PrimaryOK`). The point is that the row
a handler runs on stays where it is: everybody inserts at the end and only the
worker removes, so what the handler found out is still about that row's node
(`WorkerStands`). `CoreInv` says at most one PRIMARY, because with overlapping
rotations the last one can be overwritten: Phase A and recovery return an error
then, as `probeSlotsLocal` does.

`OrderInv` is inductive under `~Overlap` and proves `PiCanonical`, and that a
retired rotation is promoted on the Pi or was retired blindly
(`RetiredOrMissed`): the way of `psk_blind` is the only one there is. It says that all rotations before
an opened one are retired (`InTurn`), so the one a Phase C row is about is the
only one not retired; that its staging slot is not the PRIMARY's until the Pi has
been promoted (`StagesBeside`), so staging cannot overwrite the PRIMARY and the
transaction does not wipe the slot it promotes; that rows are about opened and,
for Phase C, staged rotations (`RowsInTurn`), and that what the worker has read
of rotation and Pi is still so when it acts on it (`WorkerInTurn`). The
assumption is on the operator, as in the runs; section 5 says what happens
without it.

`HistoryInv`, inductive on top of both under the same assumption, is about
the PSKs of rotations long past, and proves `PiHearsFleet` and
`StrandedRecoverable` for any number of remotes, rotations and recovery slots.
Neither is inductive: which slot a promotion overwrites depends on what all
earlier ones put there. The argument is that the Pi's PSK only counts up, and
that each promotion first caches the PSK it leaves, evicting the oldest when no
slot is free, and then writes it to the slot the cache names. So the cache holds
PSKs up to the Pi's in their order, each in a slot of its own, with gaps only
where AddRecoveryPSK failed or a PSK was never promoted (`CacheRuns`: an entry's
distance to the newest is at most the difference of the two PSKs, so a gap makes
entries last longer, never shorter); the radio holds the same PSKs, as many
rotations back as there are slots, except that between the cache's row and the
promotion the newest entry's slot still has the PSK that was evicted for it
(`RadioRuns`). The staged PSK is on
the radio from Phase A to Phase C (`StagedHeld`); a remote has only been given
PSKs the Pi has held or has staged (`RemotesGiven`), and stranded rows name one
that the Pi has left (`StrandedLeft`). Cardinalities are avoided: that
distinct entries have distinct slots bounds their number (`SlotsCounted`).
From the same invariant comes the action property `PromotesInTurn`: through
crashes, timeouts, failed statements and retries the Pi's PSK never goes back;
it changes only to one that is staged, skips none but those retired blindly, and
leaves its own uncached only when AddRecoveryPSK failed.

`EventHub_proofs` proves, for any clients, services, buffer sizes, client limit
and number of events, `TypeOK` and the refinement `Spec => GaplessStream`: every
step of the hub, the pumps, the connect handlers and the services is a step of
`FanOut` or a stutter, with what the clients have read as the abstract streams.
The inductive invariant `HubInv` adds to the types: `Reserved` (a service
that holds its lock has room for its event), `BusInOrder` (the channel holds the events after
`fanned`, in order), `Membership` (who is in the set has been joined and not
cut), `Stages` (where a connection's goroutines are fits what was done for it)
and `Streams`. The last one is the heart: what a client has read, then what its
buffer holds, is a run of consecutive events from `joined` to `fanned`, or to
`cut` once it was dropped, with the snapshot at most once in between. Neither
half says this alone, because an event moves from buffer to client in a step
that the abstract specification does not see coming.

`SerialPath_proofs` is about what comes in over the serial line; its three parts
share no variable. For `SerialLink` it proves `TypeOK` and `PortIsOpen` for any
number of loops, stops, wakes and replugs. `LinkInv == TypeOK /\ Counts /\ Handles`: `Counts`
ties the generations of stop channels and devices to their bounds; `Handles`
says that the manager's port is open, and that a loop between open and
assignment and a WakeDevice in its pulse hold open handles of their own, which
nobody else closes. `PortIsOpen` alone is not inductive: whoever closes a handle
must not close the one the manager offers. It holds whether the tty is exclusive
or not, because an open yields a handle that nobody has (`OpensNew`).
`TypeOK` carries the bounds of the reconnect delay. The proof found that the
lower bound stated before did not follow from `BaseDelay <= MaxDelay`, which the
code does not check either: with base = maximum one negative jitter goes under
both. `DelayAssumption` now only says that the two delays are naturals and the
jitter is at most 100 % (a share of the delay; the environment variables are not
validated, and a larger one would make `time.After` return at once), and the bounds are what holds then: at most
`max(BaseDelay, MaxDelay + jitter)`, and at least
`min(BaseDelay, MaxDelay - jitter)` as long as the jitter is at most 33 %, where
growth by 1.5 makes up for it; above that repeated negative jitter can shrink
the delay without a floor but 0.

For `MeshIngest` it proves `IngestTypeOK`, `GatedOnce` and `FrameDelivered` for
any senders, texts of any lines, repeats and expiries. Below it are the lemmas
about the parser, one per group of patterns, that end in `LineYields`: a line
yields at most two events, of known kinds, the chat's not among them; so what a
text brings is countable, and the console path brings nothing of a gated kind.
`IngestInv` strengthens `GatedOnce`, which allows a delivery too many in the
window after an expiry, to one per window that is over or open
(`OncePerWindow`), and `FrameDelivered` to the filter's entry: whatever made it,
echo or frame, delivered the whole packet, or the packet is one of the exceptions
(`EntryDelivered`). `BodyAssumption` says that texts are made of the forms the
parser knows and have a line.

For `Surveillance` it proves `SilentAfterAlert` and `BreachesExact` for any
drones, fences, rules, requests and faults. Rules (`RuleInv`): the reader inserts
one event at a time, so the rule whose cooldown has just started is the one being
inserted; a row is made only for an id that is in no cache, so a cooldown never
meets a row that came after it; and a save brings the cooldown of its request,
which is then a reason for silence of its own. Fences (`StaysKnown`): the
geofence state is what the last fix said, which removal, clearing and a lost
signal leave alone. `BreachesExact` needs `FixesShow`, that no fix has a
coordinate of exactly zero (section 5); of exits it says nothing.

`TargetTracking_proofs` proves `TypeOK`, `HitFallback` and `NoHiddenTarget` for
any targets, MACs and bounds. `TargetInv == TypeOK /\ FixWaits /\ CacheInv`.
`CacheInv` says which targets wait for their entry in the cache: such a target
is new and has no hit (`Fresh`), its entry is made once (`MadeOnce`), what a
delete is about to drop has no row (`Dropped`), a row that is not cached waits
for its entry or for a clear, unless the database failed (`Visible`), and cached
records show the newest hit except the one the reader is about to update
(`HitsShown`). `FixWaits`: the reader waits for the one position fix it applies
itself.

`CommandQueue_proofs` proves `TypeOK`, `FinishedLeavesQueue` and
`RawOffOncePerScan` for any nodes, issued names, targets and number of commands;
their conjunction is inductive. The counting step: the scans a frame closes are
in the queue and so had not been finished, a frame that starts a scan fans out
to nothing, and the list grows by one RAW_BLE_OFF per closed scan. Proving it for
every `Issued` showed that the property has to tell the service's RAW_BLE_OFF
from an operator's: commands carry the history field `auto` for it, and
RAW_BLE_OFF is among the names that the run issues.

`StatusReply_proofs` proves `LocalPinned` as an invariant and `SensorSticky` as
an action property of registry and broadcaster, for any nodes, packets and
restarts. `RegistryInv` is the types, `LocalPinned`, and `WritersKnown`: a
persistence goroutine that has not read its record yet finds it in the map,
because Remove and ClearAll hand the record to those goroutines.

The assumptions on constants are the `ASSUME`s of the modules: disjoint or
finite sets, bounds in Nat, and the few named above.

Every safety property of the passing runs is thereby a theorem. Only
model-checked: liveness (`QueuedIsTaken`, `CallsReturn`, `ProbeScansEnd`,
`Reconnects`, `StatusAnswered`, `HubServes`, `DronePersisted`), which is out of
this prover's reach, and what `Framing`'s recursive operators compute, for which
the installed provers have no induction.

## 5. Findings and observations

**Findings.** Run `psk_gate`: verifying a node during a rotation stamps it with
the new fingerprint although it is still on the old PSK; the retirement gate
opens, although store.go:466-468 says retirement comes "after every fleet member
is confirmed on the new PSK". Run `psk_blind`: Phase C takes a radio that leaves
the read of its PRIMARY slot unanswered for one that is already migrated and
retires the rotation; the remotes that were migrated are on a PSK that the Pi
never promotes, although job_handlers.go:354-355 gives as the reason for retiring
"Pi already on new PSK as PRIMARY".

**Observations** made while modelling. The models take these steps; the
properties are stated so that they hold beside them.

Fleet security and commands:
- A row leased less than ten minutes before a restart stays `in_progress`:
  stale leases are looked for once, at start-up (jobs.go:378; jobs.go:4 says
  jobs survive a restart).
- A failed debounce check is logged and Phase A enqueues a second Phase B row
  (job_handlers.go:162-170). A failed AddRecoveryPSK is logged and Phase C
  promotes without a recovery slot (383-387): the old PSK is gone from the radio,
  and the nodes it then flags as stranded cannot be recovered over the air.
- A remote that loses the promote frame and gets the wipe has no PSK left
  (channels.go:410-421 waits for no answer between them).
- RotatePSK does not ask whether another rotation is open (channels.go:205). Two
  open rotations pin the same staging slot; once the first is promoted, Phase C
  of the second promotes and wipes one slot, and the Pi has no PRIMARY.
- A retry after a lost commit acknowledgement of Phase C gives Phase B one slot
  as both staging and old slot (job_handlers.go:93).
- A stranded flag outlives a later migration, and recovery moves the node back
  to the older PSK (job_handlers.go:258).
- Acknowledgements match commands by name, not by target (commands/service.go:365;
  the comment at 362 says "name + target").
- The acknowledgement table knows ERASE_ACK and AUTOERASE_ACK (builder.go:260),
  the parser's pattern does not list them (textparser.go:301).

Serial link and mesh input:
- A reader that finds `m.port` nil dereferences it and ends the process; after
  Stop a loop can miss the close and run on beside the next Start
  (manager.go:240 says the manager can be restarted). Of two loops that open
  around a replug, the later assignment hides the earlier handle: with an
  exclusive tty nobody can open the device again (`Leaked`), and without (a
  process with CAP_SYS_ADMIN, as in the privileged container of
  docker-compose.yml:85) two readers share the port, and the bytes of a frame
  are split between two decoders.
- An acknowledgement or a node reading is handled on both paths, echo and frame:
  those kinds are not gated (manager.go:413-420 calls them text-only sources).
- A text of several lines that begins with a plain one: the echo of its first
  line takes the packet's place in the duplicate filter, and the frame is
  dropped with the other lines. An echo read before its "Lora RX" line is filed
  as a broadcast.
- The duplicate filter is not bounded: above 512 entries only those older than
  15 seconds go ("keep max 512", dispatcher.go:499).
- A stray first start byte costs the frame that follows it.

Registry, surveillance, targets:
- `persistNode` and `persistDrone` goroutines may write an older value last, or
  bring back a cleared row; Remove leaves the row, so that the node is back
  after a restart. Nothing unmarks a node that the NodeInfo fallback marked local.
- Geofence exits are logged, never notified (the comment on evaluateGeofences
  says enter/exit), and the fences' entry and exit switches are not read.
- A position with one coordinate of exactly zero counts as none
  (drones/service.go:302): a fix on the equator or the zero meridian neither
  enters nor leaves a fence.
- A drone's status never reaches an existing row: the upsert does not write it
  (drones/service.go:471-483), although UpdateStatus queues the drone for it.
  UpdateStatus by UUID queues a key the flush does not find; drones without a MAC
  share one row.
- A rule that is saved with the lastTriggered it was read with, as AlertsPage.tsx
  does, has its cooldown set by the client (alerts/service.go:279-281), with or
  without an alert. A failed insert consumes a cooldown, a restart forgets it.
  Update of an unknown fence or rule makes a cache-only entry. The event of a drone packet
  carries only its node id, so no rule matches it (dispatcher.go:652).
- A position estimate in flight makes a resolved target active again. ClearAll
  racing a placeholder leaves a cached target without a row; a failed DELETE in
  ClearAll hides the rows until the next restart.

Hub:
- The snapshot of a client that was rejected or cut off goes to a closed channel:
  the handler panics and the connection stays without pumps. After Hub.Stop,
  Broadcast and Register block for ever.

## 6. Not modelled

Not modelled, and why: the regular expressions and the captured values (strings
are out of TLC's reach); floating-point geometry and the weighted centroid; key
files, their encryption and the USB recovery wizard; text formatting of commands;
the commands table, which nothing reads back into the queue; the FAA lookup and
history rows; inventory, probes and BLE classification (single upserts and static
tables); webhooks, MQTT, TAK, ADS-B, ACARS and mail (external services); accounts
and request gatekeeping; configuration, exports, tiles, updates, migrations and
the browser frontend (I/O).
