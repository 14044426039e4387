---------------------------- MODULE Surveillance ----------------------------
(***************************************************************************)
(* What happens to a drone detection: the drone service                    *)
(* (internal/drones/service.go), the geofences (internal/geofences) and    *)
(* the alert rules (internal/alerts), wired as in cmd/diginode-cc/main.go. *)
(*                                                                         *)
(* One reader goroutine delivers detections.  HTTP handlers edit fences,   *)
(* rules and drones beside it: a fence or rule is changed in the table     *)
(* first and in the cache later, a clear the other way round.  Drones are  *)
(* stored by goroutines that a debounced timer starts and that read the    *)
(* record without the lock.                                                *)
(*                                                                         *)
(* Kept of a drone: the number of its last detection and its status.  The  *)
(* registry (FAA) lookups are left out.  Positions are grid points.        *)
(***************************************************************************)
EXTENDS Integers, Sequences, FiniteSets

CONSTANTS
    Keys,         \* the MACs, which DroneDetection.Key prefers and the table is keyed by
    ById,         \* a queue entry that is the UUID of a drone
    FenceIds, FenceConfigs,  \* geofence ids; [enabled, applies (alarmed, and to drones), polygon]
    RuleIds, RuleConfigs,    \* alert rule ids; [enabled, mode, wants]
    Positions,    \* grid points, NoFix among them
    NoFix,        \* latitude and longitude 0: no GPS
    Statuses, StatusUnknown, \* drones.Status; that of a new drone
    DetectionEvents, \* alerts.DetectionEvent of a Target: frame: per field its value
    NoDetails,    \* the event of a drone packet: a node id and nothing a rule asks for
    MaxDetections, MaxRequests, MaxFaults  \* bounds

ASSUME StatusAssumption == StatusUnknown \in Statuses
ASSUME WatchBounds == {MaxDetections, MaxRequests, MaxFaults} \subseteq Nat

-----------------------------------------------------------------------------
(* Pure parts.                                                             *)

(* pointInPolygon: ray casting.  The edge from b to a is crossed when the  *)
(* point is between their latitudes and left of the edge; the division by  *)
(* the height of the edge is written as a product.                         *)
Crosses(pt, a, b) ==
    /\ (a.lat > pt.lat) # (b.lat > pt.lat)
    /\ LET h == b.lat - a.lat
           run == (b.lng - a.lng) * (pt.lat - a.lat) IN
       IF h > 0 THEN (pt.lng - a.lng) * h < run ELSE (pt.lng - a.lng) * h > run

PointInPolygon(pt, polygon) ==
    LET n == Len(polygon)
        crossed == {i \in 1 .. n : Crosses(pt, polygon[i], polygon[IF i = 1 THEN n ELSE i - 1])} IN
    n >= 3 /\ Cardinality(crossed) % 2 = 1

(* matchesRule: one check per condition the rule sets; none, no match.     *)
(* A signal bound is not checked for an event without a signal strength.   *)
MatchesRule(cfg, evt) ==
    LET stated == {f \in DOMAIN cfg.wants : f = "rssi" => evt.rssi # 0}
        met == {f \in stated : evt[f] \in cfg.wants[f]} IN
    met # {} /\ (cfg.mode = "ALL" => met = stated)

-----------------------------------------------------------------------------
Drone == [seen : 1 .. MaxDetections, status : Statuses]
RuleRec == [cfg : RuleConfigs, cooling : BOOLEAN]  \* LastTriggered is within the cooldown

VARIABLES
    fences, fenceRows,   \* geofences: cache and table
    rules, ruleRows,     \* alert rules: cache (with the cooldown) and table
    drones, rows,        \* tracked drones and their table
    inside,              \* geofenceState
    queue, timer,        \* persistQueue, persistTimer
    unread, writes,      \* persistDrone goroutines: not yet read; values read
    halves,              \* the second halves of requests
    reader,              \* the reader goroutine: matched rules to trigger, the one it inserts for
    detections, requests, faults,
    wasIn, breaches,     \* history: fences at the last fix, the last breach alerts,
    alerted, asked       \* rules whose cooldown follows a stored alert, came with a request

watchVars == <<fences, fenceRows, rules, ruleRows, drones, rows, inside, queue, timer, unread,
               writes, halves, reader, detections, requests, faults, wasIn, breaches,
               alerted, asked>>
config == <<fences, fenceRows, rules, ruleRows>>
droneState == <<drones, inside, queue, timer>>
store == <<rows, unread, writes>>
cooldowns == <<alerted, asked>>
history == <<wasIn, breaches, cooldowns>>
counters == <<detections, requests, faults>>

Idle == [todo |-> {}, cur |-> {}]
IsPartial(f, D, R) == DOMAIN f \subseteq D /\ \A x \in DOMAIN f : f[x] \in R
Nothing == [x \in {} |-> x]

WatchTypeOK ==
    /\ IsPartial(fences, FenceIds, FenceConfigs) /\ IsPartial(fenceRows, FenceIds, FenceConfigs)
    /\ IsPartial(rules, RuleIds, RuleRec)
    /\ IsPartial(ruleRows, RuleIds, RuleConfigs)
    /\ IsPartial(drones, Keys, Drone) /\ IsPartial(rows, Keys, Drone)
    /\ inside \in [Keys -> SUBSET FenceIds]
    /\ queue \subseteq Keys \cup {ById} /\ timer \in BOOLEAN
    /\ queue # {} => timer
    /\ unread \subseteq DOMAIN drones /\ writes \in [Keys -> SUBSET Drone]
    /\ reader.todo \subseteq RuleIds /\ reader.cur \subseteq RuleIds
    /\ breaches \subseteq Keys \X FenceIds
    /\ alerted \subseteq RuleIds /\ asked \subseteq RuleIds

(* Load at the start: all rules, but only the enabled fences.  No          *)
(* statement ever writes last_triggered.                                   *)
LoadedFences == [f \in {g \in DOMAIN fenceRows : fenceRows[g].enabled} |-> fenceRows[f]]
LoadedRules == [r \in DOMAIN ruleRows |-> [cfg |-> ruleRows[r], cooling |-> FALSE]]

WatchInit ==
    /\ fenceRows \in UNION {[ids -> FenceConfigs] : ids \in SUBSET FenceIds}
    /\ ruleRows \in UNION {[ids -> RuleConfigs] : ids \in SUBSET RuleIds}
    /\ fences = LoadedFences /\ rules = LoadedRules
    /\ drones = Nothing /\ rows = Nothing
    /\ inside = [k \in Keys |-> {}]
    /\ queue = {} /\ timer = FALSE
    /\ unread = {} /\ writes = [k \in Keys |-> {}]
    /\ halves = {}
    /\ reader = Idle
    /\ detections = 0 /\ requests = 0 /\ faults = 0
    /\ wasIn = [k \in Keys |-> {}]
    /\ breaches = {}
    /\ alerted = {} /\ asked = {}

With(f, x, v) == [y \in DOMAIN f \cup {x} |-> IF y = x THEN v ELSE f[y]]
Without(f, gone) == [y \in DOMAIN f \ gone |-> f[y]]

-----------------------------------------------------------------------------
(* CheckPoint for drones.                                                  *)
CheckPoint(pos) ==
    {f \in DOMAIN fences : /\ fences[f].enabled /\ fences[f].applies
                           /\ PointInPolygon(pos, fences[f].polygon)}

(* Mutant: a detection without GPS counts as one outside every fence.      *)
LocatedAlways(pos) == TRUE

Located(pos) == pos.lat # 0 /\ pos.lng # 0

Enqueue(k) == queue' = queue \cup {k} /\ timer' = TRUE

(* Evaluate copies the enabled rules under their lock and matches them.    *)
Evaluate(evt) == {r \in DOMAIN rules : rules[r].cfg.enabled /\ MatchesRule(rules[r].cfg, evt)}

(* A new drone is unknown; a known one keeps its status.                   *)
StatusOf(k) == IF k \in DOMAIN drones THEN drones[k].status ELSE StatusUnknown

(* A drone packet: HandleDetection, with the lock held throughout: the     *)
(* record, the geofence transitions with their breach alerts, the persist  *)
(* queue.  Every entry is reported, an exit is only logged.  The           *)
(* dispatcher then evaluates the rules.                                    *)
HandleDetection(k, pos) ==
    /\ reader = Idle /\ detections < MaxDetections
    /\ detections' = detections + 1
    /\ drones' = With(drones, k, [seen |-> detections', status |-> StatusOf(k)])
    /\ LET now == CheckPoint(pos) IN
       /\ inside' = IF Located(pos) THEN [inside EXCEPT ![k] = now] ELSE inside
       /\ breaches' = IF Located(pos) THEN {k} \X (now \ inside[k]) ELSE {}
       /\ wasIn' = IF pos = NoFix THEN wasIn ELSE [wasIn EXCEPT ![k] = now]
    /\ Enqueue(k)
    /\ reader' = [Idle EXCEPT !.todo = Evaluate(NoDetails)]
    /\ UNCHANGED <<config, store, halves, requests, faults, cooldowns>>

(* A Target: frame of a sensor: the rules are evaluated.                   *)
TargetDetected(evt) ==
    /\ reader = Idle /\ detections < MaxDetections
    /\ detections' = detections + 1
    /\ breaches' = {}
    /\ reader' = [Idle EXCEPT !.todo = Evaluate(evt)]
    /\ UNCHANGED <<config, droneState, store, halves, requests, faults, wasIn, cooldowns>>

(* Mutant: LastTriggered is stamped before it is compared.                 *)
TriggerStampsFirst(r) ==
    /\ reader.cur = {} /\ r \in reader.todo
    /\ reader' = [reader EXCEPT !.todo = @ \ {r}]
    /\ rules' = IF r \in DOMAIN rules THEN [rules EXCEPT ![r].cooling = TRUE] ELSE rules
    /\ UNCHANGED <<fences, fenceRows, ruleRows, droneState, store, halves, counters, history>>

(* Trigger looks the rule up again.  The cooldown starts here; a rule that *)
(* was deleted meanwhile has none.                                         *)
Trigger(r) ==
    /\ reader.cur = {} /\ r \in reader.todo
    /\ IF r \in DOMAIN rules /\ rules[r].cooling
       THEN reader' = [reader EXCEPT !.todo = @ \ {r}] /\ UNCHANGED <<rules, cooldowns>>
       ELSE /\ reader' = [todo |-> reader.todo \ {r}, cur |-> {r}]
            /\ rules' = IF r \in DOMAIN rules THEN [rules EXCEPT ![r].cooling = TRUE] ELSE rules
            /\ alerted' = alerted \ {r} /\ asked' = asked \ {r}
    /\ UNCHANGED <<fences, fenceRows, ruleRows, droneState, store, halves, counters, wasIn,
                   breaches>>

(* The event is stored and broadcast.  The foreign key refuses one of a    *)
(* deleted rule; then, and when the database fails, there is no alert.     *)
InsertEvent(r) ==
    /\ r \in reader.cur
    /\ \/ r \in DOMAIN ruleRows /\ alerted' = alerted \cup {r} /\ UNCHANGED faults
       \/ r \notin DOMAIN ruleRows /\ UNCHANGED <<alerted, faults>>
       \/ faults < MaxFaults /\ faults' = faults + 1 /\ UNCHANGED alerted
    /\ reader' = [reader EXCEPT !.cur = {}]
    /\ UNCHANGED <<config, droneState, store, halves, detections, requests, wasIn, breaches,
                   asked>>

CooldownPasses(r) ==
    /\ r \in DOMAIN rules /\ rules[r].cooling
    /\ rules' = [rules EXCEPT ![r].cooling = FALSE]
    /\ alerted' = alerted \ {r} /\ asked' = asked \ {r}
    /\ UNCHANGED <<fences, fenceRows, ruleRows, droneState, store, halves, reader, counters, wasIn, breaches>>

-----------------------------------------------------------------------------
(* Requests.                                                               *)
Request == requests < MaxRequests /\ requests' = requests + 1

(* Create, Update and Delete of a fence or a rule: the table, then the     *)
(* cache.  Update does not ask whether the id exists: the row of an        *)
(* unknown id is not made, its cache entry is.  A rule comes with the      *)
(* request's lastTriggered, which only the cache takes: a running cooldown *)
(* (cooling) or none, as the client says.                                  *)
Stored(table, id, cfg) == IF id \in DOMAIN table THEN With(table, id, cfg) ELSE table
Half(do, id, cfg) == halves' = halves \cup {[do |-> do, id |-> id, cfg |-> cfg]}
Fresh(id, cache, table) == id \notin DOMAIN cache \cup DOMAIN table \cup {h.id : h \in halves}

CreateFence(f, cfg) ==
    /\ Request /\ Fresh(f, fences, fenceRows)
    /\ fenceRows' = With(fenceRows, f, cfg)
    /\ Half("fence", f, {cfg})
    /\ UNCHANGED <<fences, rules, ruleRows, droneState, store, reader, detections, faults, history>>

UpdateFence(f, cfg) ==
    /\ Request
    /\ fenceRows' = Stored(fenceRows, f, cfg)
    /\ Half("fence", f, {cfg})
    /\ UNCHANGED <<fences, rules, ruleRows, droneState, store, reader, detections, faults, history>>

DeleteFence(f) ==
    /\ Request
    /\ fenceRows' = Without(fenceRows, {f})
    /\ Half("fence", f, {})
    /\ UNCHANGED <<fences, rules, ruleRows, droneState, store, reader, detections, faults, history>>

CreateRule(r, cfg, cooling) ==
    /\ Request /\ Fresh(r, rules, ruleRows)
    /\ ruleRows' = With(ruleRows, r, cfg)
    /\ Half("rule", r, {[cfg |-> cfg, cooling |-> cooling]})
    /\ UNCHANGED <<fences, fenceRows, rules, droneState, store, reader, detections, faults, history>>

UpdateRule(r, cfg, cooling) ==
    /\ Request
    /\ ruleRows' = Stored(ruleRows, r, cfg)
    /\ Half("rule", r, {[cfg |-> cfg, cooling |-> cooling]})
    /\ UNCHANGED <<fences, fenceRows, rules, droneState, store, reader, detections, faults, history>>

DeleteRule(r) ==
    /\ Request
    /\ ruleRows' = Without(ruleRows, {r})
    /\ Half("rule", r, {})
    /\ UNCHANGED <<fences, fenceRows, rules, droneState, store, reader, detections, faults, history>>

CacheFence(h) ==
    /\ h \in halves /\ h.do = "fence"
    /\ halves' = halves \ {h}
    /\ \/ \E cfg \in h.cfg : fences' = With(fences, h.id, cfg)
       \/ h.cfg = {} /\ fences' = Without(fences, {h.id})
    /\ UNCHANGED <<fenceRows, rules, ruleRows, droneState, store, reader, counters, history>>

(* The cached rule is the request's: its LastTriggered too.                *)
CacheRule(h) ==
    /\ h \in halves /\ h.do = "rule"
    /\ halves' = halves \ {h}
    /\ \/ \E rule \in h.cfg :
             /\ rules' = With(rules, h.id, rule)
             /\ asked' = IF rule.cooling THEN asked \cup {h.id} ELSE asked \ {h.id}
       \/ h.cfg = {} /\ rules' = Without(rules, {h.id}) /\ asked' = asked \ {h.id}
    /\ alerted' = alerted \ {h.id}
    /\ UNCHANGED <<fences, fenceRows, ruleRows, droneState, store, reader, counters, wasIn, breaches>>

(* UpdateStatus by key or by UUID; the queue gets what the caller passed.  *)
UpdateStatus(k, id, status) ==
    /\ Request /\ k \in DOMAIN drones
    /\ drones' = [drones EXCEPT ![k].status = status]
    /\ Enqueue(id)
    /\ UNCHANGED <<config, inside, store, halves, reader, detections, faults, history>>

(* What a goroutine that has not read the record will find in it.          *)
Detach(gone) ==
    /\ drones' = Without(drones, gone)
    /\ writes' = [k \in Keys |-> IF k \in gone \cap unread THEN writes[k] \cup {drones[k]} ELSE writes[k]]
    /\ unread' = unread \ gone

(* Remove and ClearAll leave geofenceState, and Remove the row.            *)
Remove(k) ==
    /\ Request /\ k \in DOMAIN drones
    /\ Detach({k})
    /\ UNCHANGED <<config, inside, queue, timer, rows, halves, reader, detections, faults, history>>

ClearAll ==
    /\ Request
    /\ Detach(DOMAIN drones)
    /\ Half("clear", "drones", {})
    /\ UNCHANGED <<config, inside, queue, timer, rows, reader, detections, faults, history>>

ClearRows(h) ==
    /\ h \in halves /\ h.do = "clear"
    /\ halves' = halves \ {h}
    /\ rows' = Nothing
    /\ UNCHANGED <<config, droneState, unread, writes, reader, counters, history>>

-----------------------------------------------------------------------------
(* Background goroutines.                                                  *)

(* Mutant: the queue is replaced before it is copied.                      *)
FlushedFirst == {}

(* The keys a flush takes.                                                 *)
Flushed == queue \cap DOMAIN drones

(* flushPersistQueue, 200 ms after the last change.                        *)
FlushPersistQueue ==
    /\ timer
    /\ timer' = FALSE /\ queue' = {}
    /\ unread' = unread \cup Flushed
    /\ UNCHANGED <<config, drones, inside, rows, writes, halves, reader, counters, history>>

PersistRead(k) ==
    /\ k \in unread
    /\ unread' = unread \ {k}
    /\ writes' = [writes EXCEPT ![k] = @ \cup {drones[k]}]
    /\ UNCHANGED <<config, droneState, rows, halves, reader, counters, history>>

(* persistDrone inserts the whole record; a row that exists gets the       *)
(* columns of the detection, and keeps the status it was inserted with.    *)
Upserted(k, d) == IF k \in DOMAIN rows THEN [rows[k] EXCEPT !.seen = d.seen] ELSE d

PersistWrite(k, d) ==
    /\ d \in writes[k]
    /\ writes' = [writes EXCEPT ![k] = @ \ {d}]
    /\ \/ rows' = With(rows, k, Upserted(k, d)) /\ UNCHANGED faults
       \/ faults < MaxFaults /\ faults' = faults + 1 /\ UNCHANGED rows
    /\ UNCHANGED <<config, droneState, unread, halves, reader, detections, requests, history>>

(* A restart loads fences and rules again, and no drones.                  *)
Restart ==
    /\ Request
    /\ fences' = LoadedFences /\ rules' = LoadedRules
    /\ drones' = Nothing /\ inside' = [k \in Keys |-> {}] /\ wasIn' = [k \in Keys |-> {}]
    /\ queue' = {} /\ timer' = FALSE /\ halves' = {} /\ reader' = Idle
    /\ alerted' = {} /\ asked' = {}
    /\ unread' = {} /\ writes' = [k \in Keys |-> {}]
    /\ UNCHANGED <<fenceRows, ruleRows, rows, detections, faults, breaches>>

ReaderStep ==
    \/ \E k \in Keys, pos \in Positions : HandleDetection(k, pos)
    \/ \E evt \in DetectionEvents : TargetDetected(evt)
    \/ \E r \in RuleIds : Trigger(r) \/ InsertEvent(r)

FenceRequest(f) ==
    DeleteFence(f) \/ \E cfg \in FenceConfigs : CreateFence(f, cfg) \/ UpdateFence(f, cfg)

RuleRequest(r) ==
    \/ DeleteRule(r)
    \/ \E cfg \in RuleConfigs, cooling \in BOOLEAN :
          CreateRule(r, cfg, cooling) \/ UpdateRule(r, cfg, cooling)

DroneRequest(k) ==
    Remove(k) \/ \E id \in {k, ById}, status \in Statuses : UpdateStatus(k, id, status)

RequestStep ==
    \/ \E f \in FenceIds : FenceRequest(f)
    \/ \E r \in RuleIds : RuleRequest(r)
    \/ \E h \in halves : CacheFence(h) \/ CacheRule(h) \/ ClearRows(h)
    \/ \E k \in Keys : DroneRequest(k)
    \/ ClearAll \/ Restart

Persist == \E k \in Keys : PersistRead(k) \/ \E d \in writes[k] : PersistWrite(k, d)

WatchNext ==
    \/ ReaderStep \/ RequestStep \/ FlushPersistQueue \/ Persist
    \/ \E r \in RuleIds : CooldownPasses(r)

(* The timer fires and every goroutine runs; the database answers or       *)
(* fails.                                                                  *)
WatchSpec ==
    /\ WatchInit /\ [][WatchNext]_watchVars /\ WF_watchVars(FlushPersistQueue)
    /\ \A k \in Keys : /\ WF_watchVars(PersistRead(k))
                      /\ \A d \in Drone : WF_watchVars(PersistWrite(k, d))

-----------------------------------------------------------------------------
(* Properties.                                                             *)

(* Once the detections pause, the row of a drone with a queued change      *)
(* catches up with its last detection, although each detection restarts    *)
(* the debounce timer and the goroutines that store it run in any order;   *)
(* unless the drone is removed first or the database fails.  (It may fall  *)
(* behind again: an older write may still follow, and a ClearAll deletes   *)
(* the rows after new detections may have been stored.  The status is not  *)
(* part of it: the upsert of an existing row does not write it.)           *)
DronePersisted ==
    \A k \in Keys :
       (k \in queue) ~> \/ k \notin DOMAIN drones
                        \/ k \in DOMAIN rows /\ rows[k].seen = drones[k].seen
                        \/ faults > 0

(* Of the fences a drone is in, a detection reports those it was not in    *)
(* at the last fix.                                                        *)
EntriesReported ==
    detections' # detections =>
        \A k \in Keys : {f \in wasIn'[k] : <<k, f>> \in breaches'} = wasIn'[k] \ wasIn[k]

(* Breach alerts are neither repeated nor swallowed: a drone is reported   *)
(* once for each stay in a fence (evaluateGeofences), at the first fix     *)
(* inside, and not again while fixes stay inside, however often the signal *)
(* loses its GPS, the drone is removed or cleared, or the fence is saved   *)
(* again in between; and no entry goes unreported.                         *)
BreachesExact == [][EntriesReported]_watchVars

(* A rule is silent only after an alert, or because a client said so:      *)
(* while its cooldown runs, the alert that started it is in the table, or  *)
(* the cooldown came with the lastTriggered of the request that saved the  *)
(* rule; whatever requests ran between Evaluate's copy of the rules,       *)
(* Trigger's second look and the insert, unless the database failed or the *)
(* rule's row is gone.                                                     *)
SilentAfterAlert ==
    \A r \in DOMAIN rules \cap DOMAIN ruleRows :
        (rules[r].cooling /\ r \notin reader.cur /\ faults = 0) => r \in alerted \cup asked

=============================================================================
