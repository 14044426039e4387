--------------------------- MODULE TargetTracking ---------------------------
(***************************************************************************)
(* Targets: internal/targets/service.go and tracking.go, with the serial   *)
(* callbacks of cmd/diginode-cc/main.go that feed them and the handlers of *)
(* internal/api/handlers_targets.go and handlers_admin.go.                 *)
(*                                                                         *)
(* The service keeps a cache of the targets table.  The reader goroutine   *)
(* records hits (Target: frames) and triangulation detections (T_D) and    *)
(* fixes (T_F).  Requests change the table first and the cache later; a    *)
(* clear does it the other way round.  A position estimate changes the     *)
(* cache under the lock and the row afterwards.                            *)
(*                                                                         *)
(* Kept of a target: its MAC, its status, the newest hit with a position   *)
(* (a stamp, 0 for none).  Left out: names, fingerprints, coordinates, the *)
(* centroid arithmetic (the confidence is any of three classes).           *)
(***************************************************************************)
EXTENDS Integers, FiniteSets

CONSTANTS
    Ids,          \* target UUIDs, each given out once
    Macs, NoMac,  \* MACs; a BLE fingerprint target has none and is known by its short id
    MaxFrames, MaxRequests, MaxFaults   \* bounds

ASSUME TargetAssumption == /\ NoMac \notin Macs
                           /\ {MaxFrames, MaxRequests, MaxFaults} \subseteq Nat

VARIABLES
    cache,      \* Service.targets
    rows, hits, \* the tables: targets, and per target its newest geocoded hit
    used,       \* ids given out so far
    tracked,    \* MACs whose TrackingState is bootstrapped
    reader,     \* the reader goroutine: pc, the target or MAC it works on, whether the hit has a position
    estimates,  \* ApplyTrackingEstimate calls: what each got from the cache, {} before that
    halves,     \* the second halves of requests
    frames, requests, faults

vars == <<cache, rows, hits, used, tracked, reader, estimates, halves, frames, requests, faults>>
tables == <<rows, hits, used>>
counters == <<frames, requests, faults>>

Status == {"triangulating", "active", "resolved"}
Confidence == {"low", "fair", "high"}   \* below 0.25, up to 0.5, above
Target == [mac : Macs \cup {NoMac}, status : Status, hit : 0 .. MaxFrames]
Nothing == [x \in {} |-> x]
With(f, x, v) == [y \in DOMAIN f \cup {x} |-> IF y = x THEN v ELSE f[y]]
Without(f, gone) == [y \in DOMAIN f \ gone |-> f[y]]
Idle == [pc |-> "idle", ids |-> {}, mac |-> NoMac, geo |-> FALSE]

TypeOK ==
    /\ DOMAIN cache \subseteq used /\ \A t \in DOMAIN cache : cache[t] \in Target
    /\ DOMAIN rows \subseteq used /\ \A t \in DOMAIN rows : rows[t] \in [mac : Macs \cup {NoMac}, status : Status]
    /\ hits \in [Ids -> 0 .. MaxFrames] /\ used \subseteq Ids
    /\ \A t \in Ids \ DOMAIN rows : hits[t] = 0
    /\ tracked \subseteq Macs
    /\ reader \in [pc : {"idle", "insert", "hitcache", "create", "cache", "add", "fix"},
                   ids : SUBSET used, mac : Macs \cup {NoMac}, geo : BOOLEAN]
    /\ reader.pc \in {"create", "cache", "add"} => reader.mac \in Macs
    /\ estimates \subseteq [mac : Macs, conf : Confidence, sync : BOOLEAN, got : SUBSET (used \X Status)]
    /\ halves \subseteq [do : {"put", "edit", "drop", "clear", "hits"}, ids : SUBSET used,
                        macs : SUBSET (Macs \cup {NoMac}), statuses : SUBSET Status]
    /\ \A h \in halves : h.do = "edit" => h.statuses # {}
    /\ frames \in 0 .. MaxFrames /\ requests \in 0 .. MaxRequests /\ faults \in 0 .. MaxFaults

Init ==
    /\ cache = Nothing /\ rows = Nothing /\ hits = [t \in Ids |-> 0] /\ used = {}
    /\ tracked = {} /\ reader = Idle /\ estimates = {} /\ halves = {}
    /\ frames = 0 /\ requests = 0 /\ faults = 0

Fault == faults < MaxFaults /\ faults' = faults + 1
Frame == reader = Idle /\ frames < MaxFrames /\ frames' = frames + 1

(* FindByMAC, FindByBLEShortID and the loops over the map: any match, none *)
(* if the set is empty.                                                    *)
Found(mac) == {t \in DOMAIN cache : cache[t].mac = mac}

-----------------------------------------------------------------------------
(* The reader goroutine.                                                   *)

(* A Target: frame: the hit belongs to the target its short id names, or   *)
(* to one with its MAC; one of neither is only in the inventory.           *)
TargetDetected(t, geo) ==
    /\ Frame
    /\ t \in DOMAIN cache
    /\ reader' = [Idle EXCEPT !.pc = "insert", !.ids = {t}, !.geo = geo]
    /\ UNCHANGED <<cache, tables, tracked, estimates, halves, requests, faults>>

(* RecordHit: the row, which the foreign key refuses for a target without  *)
(* one, and then the cached position.                                      *)
InsertHit(t) ==
    /\ reader.pc = "insert" /\ t \in reader.ids
    /\ \/ /\ t \in DOMAIN rows
          /\ hits' = IF reader.geo THEN [hits EXCEPT ![t] = frames] ELSE hits
          /\ reader' = IF reader.geo THEN [reader EXCEPT !.pc = "hitcache"] ELSE Idle
          /\ UNCHANGED faults
       \/ t \notin DOMAIN rows /\ reader' = Idle /\ UNCHANGED <<hits, faults>>
       \/ Fault /\ reader' = Idle /\ UNCHANGED hits
    /\ UNCHANGED <<cache, rows, used, tracked, estimates, halves, frames, requests>>

(* Mutant: only a target that is not resolved gets the new position.       *)
ShowsUnresolved(t) == t \in DOMAIN cache /\ cache[t].status # "resolved"

Shows(t) == t \in DOMAIN cache

CacheHit(t) ==
    /\ reader.pc = "hitcache" /\ t \in reader.ids
    /\ reader' = Idle
    /\ cache' = IF Shows(t) THEN [cache EXCEPT ![t].hit = frames] ELSE cache
    /\ UNCHANGED <<tables, tracked, estimates, halves, counters>>

(* T_D: EnsureTargetExists looks for the MAC in the cache.                 *)
TriangulationData(mac) ==
    /\ Frame
    /\ reader' = [Idle EXCEPT !.pc = IF Found(mac) # {} THEN "add" ELSE "create", !.mac = mac]
    /\ UNCHANGED <<cache, tables, tracked, estimates, halves, requests, faults>>

(* It makes a placeholder: Create inserts the row ...                      *)
InsertPlaceholder(t) ==
    /\ reader.pc = "create"
    /\ \/ /\ t \notin used /\ used' = used \cup {t}
          /\ rows' = With(rows, t, [mac |-> reader.mac, status |-> "triangulating"])
          /\ reader' = [reader EXCEPT !.pc = "cache", !.ids = {t}]
          /\ UNCHANGED faults
       \/ Fault /\ reader' = [reader EXCEPT !.pc = "add"] /\ UNCHANGED <<rows, used>>
    /\ UNCHANGED <<cache, hits, tracked, estimates, halves, frames, requests>>

(* ... and then caches it.                                                 *)
CachePlaceholder(t) ==
    /\ reader.pc = "cache" /\ t \in reader.ids
    /\ cache' = With(cache, t, [mac |-> reader.mac, status |-> "triangulating", hit |-> 0])
    /\ reader' = [reader EXCEPT !.pc = "add", !.ids = {}]
    /\ UNCHANGED <<tables, tracked, estimates, halves, counters>>

(* AddDetection: nothing without a position; the first estimate is applied *)
(* from a confidence of 0.25 on, a later one after enough time or distance *)
(* (any may be), by a goroutine.                                           *)
Due(mac, conf, moved) == IF mac \in tracked THEN moved ELSE conf # "low"
Estimate(mac, conf, sync) == estimates' = estimates \cup {[mac |-> mac, conf |-> conf, sync |-> sync, got |-> {}]}

AddDetection(located, conf, moved) ==
    /\ reader.pc = "add" /\ reader' = Idle
    /\ IF located /\ Due(reader.mac, conf, moved)
       THEN tracked' = tracked \cup {reader.mac} /\ Estimate(reader.mac, conf, FALSE)
       ELSE UNCHANGED <<tracked, estimates>>
    /\ UNCHANGED <<cache, tables, halves, counters>>

(* T_F: the reader applies the firmware's fix itself.                      *)
TriangulationFix(mac, conf) ==
    /\ Frame
    /\ reader' = [Idle EXCEPT !.pc = "fix"]
    /\ Estimate(mac, conf, TRUE)
    /\ UNCHANGED <<cache, tables, tracked, halves, requests, faults>>

-----------------------------------------------------------------------------
(* ApplyTrackingEstimate: the cache under the lock; then the row, with the *)
(* status read without it.                                                 *)
Applied(e) == reader' = IF e.sync THEN Idle ELSE reader

EstimateCache(e) ==
    /\ e \in estimates /\ e.got = {}
    /\ \/ \E t \in Found(e.mac) :
             /\ cache' = IF e.conf = "high" THEN [cache EXCEPT ![t].status = "active"] ELSE cache
             /\ estimates' = (estimates \ {e}) \cup {[e EXCEPT !.got = {<<t, cache'[t].status>>}]}
             /\ UNCHANGED reader
       \/ Found(e.mac) = {} /\ estimates' = estimates \ {e} /\ Applied(e) /\ UNCHANGED cache
    /\ UNCHANGED <<tables, tracked, halves, counters>>

EstimateRow(e, t, status) ==
    /\ e \in estimates /\ <<t, status>> \in e.got
    /\ estimates' = estimates \ {e} /\ Applied(e)
    /\ \/ /\ t \in DOMAIN rows
          /\ \E s \in {status} \cup {cache[x].status : x \in {t} \cap DOMAIN cache} :
                rows' = [rows EXCEPT ![t].status = s]
          /\ UNCHANGED faults
       \/ t \notin DOMAIN rows /\ UNCHANGED <<rows, faults>>
       \/ Fault /\ UNCHANGED rows
    /\ UNCHANGED <<cache, hits, used, tracked, halves, frames, requests>>

-----------------------------------------------------------------------------
(* Requests; each leaves its second half to be done.                       *)
Request == requests < MaxRequests /\ requests' = requests + 1
Later(do, ids, macs, statuses) == [do |-> do, ids |-> ids, macs |-> macs, statuses |-> statuses]

(* Create, from the form or an inventory row, and CreateBLETarget.         *)
Create(t, mac) ==
    /\ Request /\ t \notin used /\ used' = used \cup {t}
    /\ rows' = With(rows, t, [mac |-> mac, status |-> "active"])
    /\ halves' = halves \cup {Later("put", {t}, {mac}, {"active"})}
    /\ UNCHANGED <<cache, hits, tracked, reader, estimates, frames, faults>>

(* Update; Resolve and Reactivate, which leave the MAC alone.  None asks   *)
(* whether the target exists.                                              *)
Edited(rec, macs, statuses) ==
    [rec EXCEPT !.mac = IF macs = {} THEN @ ELSE CHOOSE m \in macs : TRUE,
                !.status = CHOOSE s \in statuses : TRUE]

Edit(t, macs, status) ==
    /\ Request /\ t \in used
    /\ rows' = IF t \in DOMAIN rows THEN [rows EXCEPT ![t] = Edited(@, macs, {status})] ELSE rows
    /\ halves' = halves \cup {Later("edit", {t}, macs, {status})}
    /\ UNCHANGED <<cache, hits, used, tracked, reader, estimates, frames, faults>>

Delete(t) ==
    /\ Request /\ t \in used
    /\ rows' = Without(rows, {t}) /\ hits' = [hits EXCEPT ![t] = 0]
    /\ halves' = halves \cup {Later("drop", {t}, {}, {})}
    /\ UNCHANGED <<cache, used, tracked, reader, estimates, frames, faults>>

CachePut(h, t, mac) ==
    /\ h.do = "put" /\ t \in h.ids /\ mac \in h.macs
    /\ cache' = With(cache, t, [mac |-> mac, status |-> "active", hit |-> 0])

CacheEdit(h) ==
    /\ h.do = "edit"
    /\ cache' = [t \in DOMAIN cache |-> IF t \in h.ids THEN Edited(cache[t], h.macs, h.statuses) ELSE cache[t]]

CacheDrop(h) == h.do = "drop" /\ cache' = Without(cache, h.ids)

SecondHalf(h) ==
    /\ h \in halves /\ halves' = halves \ {h}
    /\ (\E t \in Ids, mac \in Macs \cup {NoMac} : CachePut(h, t, mac)) \/ CacheEdit(h) \/ CacheDrop(h)
    /\ UNCHANGED <<tables, tracked, reader, estimates, counters>>

(* ClearAll: the cache, then the table (hits go with their targets).       *)
ClearCache == cache' = Nothing /\ UNCHANGED <<rows, hits>>
ClearTable == rows' = Nothing /\ hits' = [t \in Ids |-> 0] /\ UNCHANGED cache

(* Mutant: the table is cleared before the cache.                          *)
CacheFirstSwapped == FALSE

CacheFirst == TRUE

ClearAll ==
    /\ Request
    /\ IF CacheFirst THEN ClearCache ELSE ClearTable
    /\ halves' = halves \cup {Later("clear", {}, {}, {})}
    /\ UNCHANGED <<used, tracked, reader, estimates, frames, faults>>

(* The admin's clear of detection data also deletes all hits, afterwards.  *)
ClearRest(h, admin) ==
    /\ h \in halves /\ h.do = "clear"
    /\ halves' = (halves \ {h}) \cup IF admin THEN {Later("hits", {}, {}, {})} ELSE {}
    /\ \/ (IF CacheFirst THEN ClearTable ELSE ClearCache) /\ UNCHANGED faults
       \/ Fault /\ UNCHANGED <<cache, rows, hits>>
    /\ UNCHANGED <<used, tracked, reader, estimates, frames, requests>>

DeleteHits(h) ==
    /\ h \in halves /\ h.do = "hits"
    /\ halves' = halves \ {h}
    /\ hits' = [t \in Ids |-> 0]
    /\ UNCHANGED <<cache, rows, used, tracked, reader, estimates, counters>>

(* A restart: Load.                                                        *)
Restart ==
    /\ Request
    /\ cache' = [t \in DOMAIN rows |-> [mac |-> rows[t].mac, status |-> rows[t].status, hit |-> hits[t]]]
    /\ tracked' = {} /\ reader' = Idle /\ estimates' = {} /\ halves' = {}
    /\ UNCHANGED <<tables, frames, faults>>

-----------------------------------------------------------------------------
ReaderStep ==
    \/ \E t \in Ids : \/ InsertHit(t) \/ CacheHit(t) \/ InsertPlaceholder(t) \/ CachePlaceholder(t)
                      \/ \E geo \in BOOLEAN : TargetDetected(t, geo)
    \/ \E mac \in Macs : TriangulationData(mac) \/ \E conf \in Confidence : TriangulationFix(mac, conf)
    \/ \E located \in BOOLEAN, conf \in Confidence, moved \in BOOLEAN : AddDetection(located, conf, moved)

EstimateStep ==
    \E e \in estimates : EstimateCache(e) \/ \E g \in e.got : EstimateRow(e, g[1], g[2])

RequestStep ==
    \/ \E t \in Ids : \/ Delete(t)
                      \/ \E mac \in Macs \cup {NoMac} : Create(t, mac)
                      \/ \E macs \in {{}} \cup {{m} : m \in Macs}, status \in {"active", "resolved"} :
                            Edit(t, macs, status)
    \/ \E h \in halves : SecondHalf(h) \/ DeleteHits(h) \/ \E admin \in BOOLEAN : ClearRest(h, admin)
    \/ ClearAll \/ Restart

Next == ReaderStep \/ EstimateStep \/ RequestStep

Spec == Init /\ [][Next]_vars

-----------------------------------------------------------------------------
(* Properties.                                                             *)

(* The position the targets page falls back to is the newest hit's: a      *)
(* cached target with geocoded hits in the table shows the newest of them, *)
(* whichever requests ran between the hit's lookup, its row and the cache, *)
(* and after a restart.                                                    *)
HitFallback ==
    reader.pc # "hitcache"
       => \A t \in DOMAIN cache : hits[t] # 0 => cache[t].hit = hits[t]

(* No hidden target: when no request is half done and the reader is not    *)
(* creating one, every row of the table is in the cache, so that the       *)
(* operator can see and delete it, although clears, deletes and the        *)
(* reader's placeholders overlap; unless the database failed.              *)
NoHiddenTarget ==
    (halves = {} /\ reader.pc # "cache" /\ faults = 0) => DOMAIN rows \subseteq DOMAIN cache

=============================================================================
