----------------------- MODULE TargetTracking_proofs -----------------------
(***************************************************************************)
(* Proofs about the targets: the fallback position is the newest hit's and *)
(* no row is hidden from the operator, for every set of targets and MACs   *)
(* and however many frames, requests and faults there are.                 *)
(*                                                                         *)
(* TargetInv is inductive.  Both properties need to know which targets     *)
(* wait for their entry in the cache: such a target is new (Fresh), its    *)
(* entry is made once (MadeOnce), and a row that is not in the cache waits *)
(* for its entry or for a clear (Visible).  HitsShown says of the hits what*)
(* HitFallback says, in the middle of RecordHit too.                       *)
(***************************************************************************)
EXTENDS TargetTracking, TLAPS

Puts(h, t) == h.do = "put" /\ t \in h.ids
Makes(t) == reader.pc = "cache" /\ t \in reader.ids
Waits(t) == Makes(t) \/ \E h \in halves : Puts(h, t)

(* A target that waits for its cache entry has had no hit yet.             *)
Fresh ==
    \A t \in used : Waits(t) =>
        /\ t \notin DOMAIN cache /\ hits[t] = 0
        /\ reader.pc \in {"insert", "hitcache"} => t \notin reader.ids

MadeOnce ==
    /\ \A h, g \in halves, t \in used : Puts(h, t) /\ Puts(g, t) => h = g
    /\ \A h \in halves, t \in used : Puts(h, t) => ~Makes(t)
    /\ \A h \in halves, t, u \in used : Puts(h, t) /\ Puts(h, u) => t = u
    /\ reader.pc \in {"insert", "hitcache", "cache"} =>
          \A t, u \in reader.ids : t = u

(* What is to be dropped from the cache has no row.                        *)
Dropped == \A h \in halves : h.do = "drop" => h.ids \cap DOMAIN rows = {}

Visible ==
    faults = 0 =>
        \A t \in DOMAIN rows :
            t \in DOMAIN cache \/ Waits(t) \/ \E h \in halves : h.do = "clear"

(* The cached hit is the newest, except of the target whose hit RecordHit  *)
(* has inserted and not cached: that one's is the frame it works on.       *)
HitsShown ==
    /\ \A t \in DOMAIN cache :
          hits[t] # 0 /\ ~(reader.pc = "hitcache" /\ t \in reader.ids)
             => cache[t].hit = hits[t]
    /\ reader.pc = "hitcache" => \A t \in reader.ids : hits[t] \in {0, frames}

(* The reader waits for the one fix it applies itself.                     *)
FixWaits ==
    \A e \in estimates : e.sync =>
        reader.pc = "fix" /\ \A f \in estimates : f.sync => f = e

CacheInv == Fresh /\ MadeOnce /\ Dropped /\ Visible /\ HitsShown

TargetInv == TypeOK /\ FixWaits /\ CacheInv

-----------------------------------------------------------------------------
(* The types of the records, and facts about the functions.                *)

RowType == [mac : Macs \cup {NoMac}, status : Status]
ReaderType(ids) == [pc : {"idle", "insert", "hitcache", "create", "cache", "add", "fix"},
                    ids : SUBSET ids, mac : Macs \cup {NoMac}, geo : BOOLEAN]
EstimateType(ids) == [mac : Macs, conf : Confidence, sync : BOOLEAN, got : SUBSET (ids \X Status)]
HalfType(ids) == [do : {"put", "edit", "drop", "clear", "hits"}, ids : SUBSET ids,
                  macs : SUBSET (Macs \cup {NoMac}), statuses : SUBSET Status]

(* The parts of TypeOK.                                                    *)
Stored(c, r, h, u) ==
    /\ DOMAIN c \subseteq u /\ \A t \in DOMAIN c : c[t] \in Target
    /\ DOMAIN r \subseteq u /\ \A t \in DOMAIN r : r[t] \in RowType
    /\ h \in [Ids -> 0 .. MaxFrames] /\ u \subseteq Ids
    /\ \A t \in Ids \ DOMAIN r : h[t] = 0
Running(rd, es, tr, u) ==
    /\ tr \subseteq Macs /\ rd \in ReaderType(u)
    /\ rd.pc \in {"create", "cache", "add"} => rd.mac \in Macs
    /\ es \subseteq EstimateType(u)
Asked(hs, u) == hs \subseteq HalfType(u) /\ \A h \in hs : h.do = "edit" => h.statuses # {}
Counted(f, r, n) == f \in 0 .. MaxFrames /\ r \in 0 .. MaxRequests /\ n \in 0 .. MaxFaults

LEMMA TypeParts ==
    TypeOK <=> /\ Stored(cache, rows, hits, used) /\ Running(reader, estimates, tracked, used)
               /\ Asked(halves, used) /\ Counted(frames, requests, faults)
BY DEF TypeOK, Stored, Running, Asked, Counted, RowType, ReaderType, EstimateType, HalfType

(* The same in the next state.                                             *)
LEMMA TypePartsNext ==
    ASSUME Stored(cache', rows', hits', used'), Running(reader', estimates', tracked', used'),
           Asked(halves', used'), Counted(frames', requests', faults')
    PROVE  TypeOK'
BY DEF TypeOK, Stored, Running, Asked, Counted, RowType, ReaderType, EstimateType, HalfType

(* More ids can only widen the types.                                      *)
LEMMA MoreIds ==
    ASSUME NEW u, NEW v, u \subseteq v
    PROVE  /\ \A rd, es, tr : Running(rd, es, tr, u) => Running(rd, es, tr, v)
           /\ \A hs : Asked(hs, u) => Asked(hs, v)
<1>1. ReaderType(u) \subseteq ReaderType(v)
  BY DEF ReaderType
<1>2. EstimateType(u) \subseteq EstimateType(v)
  BY DEF EstimateType
<1>3. HalfType(u) \subseteq HalfType(v)
  BY DEF HalfType
<1> QED BY <1>1, <1>2, <1>3 DEF Running, Asked

(* A counter below its bound can go up.                                    *)
LEMMA Counters ==
    ASSUME Counted(frames, requests, faults)
    PROVE  /\ Frame => Counted(frames', requests, faults) /\ frames' = frames + 1
           /\ Request => Counted(frames, requests', faults)
           /\ Fault => Counted(frames, requests, faults') /\ faults' # 0
<1>1. MaxFrames \in Nat /\ MaxRequests \in Nat /\ MaxFaults \in Nat
  BY TargetAssumption
<1> QED BY <1>1 DEF Counted, Frame, Request, Fault

(* The reader at rest.                                                     *)
LEMMA IdleReader ==
    /\ Idle.pc = "idle" /\ Idle.ids = {}
    /\ \A u : Idle \in ReaderType(u)
BY DEF Idle, ReaderType

(* A step that keeps the keys of the tables, the hits and the halves, and  *)
(* leaves the reader alone or moves it from and to a step that owes the    *)
(* cache nothing, keeps CacheInv.                                          *)
LEMMA QuietStep ==
    ASSUME CacheInv,
           DOMAIN cache' = DOMAIN cache, \A t \in DOMAIN cache : cache'[t].hit = cache[t].hit,
           DOMAIN rows' = DOMAIN rows, UNCHANGED <<hits, used, halves>>,
           faults' = 0 => faults = 0,
           \/ UNCHANGED <<reader, frames>>
           \/ /\ reader.pc \notin {"cache", "hitcache"}
              /\ \/ reader'.pc \notin {"insert", "hitcache", "cache"}
                 \/ reader'.pc = "insert" /\ \E t \in DOMAIN cache : reader'.ids = {t}
    PROVE  CacheInv'
<1> USE DEF CacheInv
<1>1. \A t : Makes(t)' <=> Makes(t)
  BY DEF Makes
<1>2. \A t : Waits(t)' <=> Waits(t)
  BY <1>1 DEF Waits, Puts
<1>3. Fresh'
  <2>1. CASE UNCHANGED <<reader, frames>>
    BY <1>2, <2>1 DEF Fresh
  <2>2. CASE reader'.pc \notin {"insert", "hitcache", "cache"}
    BY <1>2, <2>2 DEF Fresh
  <2>3. CASE reader'.pc = "insert" /\ \E t \in DOMAIN cache : reader'.ids = {t}
    BY <1>2, <2>3 DEF Fresh
  <2> QED BY <2>1, <2>2, <2>3
<1>4. MadeOnce'
  BY <1>1 DEF MadeOnce, Puts
<1>5. Dropped'
  BY DEF Dropped
<1>6. Visible'
  BY <1>2 DEF Visible
<1>7. HitsShown'
  BY DEF HitsShown
<1> QED BY <1>3, <1>4, <1>5, <1>6, <1>7

-----------------------------------------------------------------------------
(* The reader's steps.                                                     *)

(* What TypeOK says, in parts.                                             *)
LEMMA Types ==
    ASSUME TargetInv
    PROVE  /\ Stored(cache, rows, hits, used) /\ Running(reader, estimates, tracked, used)
           /\ Asked(halves, used) /\ Counted(frames, requests, faults)
           /\ reader \in ReaderType(used) /\ FixWaits /\ CacheInv
BY TypeParts DEF TargetInv, Running

(* A frame that only moves the reader on: a hit's lookup, a detection's.   *)
LEMMA FrameKeeps ==
    ASSUME TargetInv,
           \/ \E t \in Ids, geo \in BOOLEAN : TargetDetected(t, geo)
           \/ \E mac \in Macs : TriangulationData(mac)
    PROVE  TargetInv'
<1>1. /\ Frame /\ UNCHANGED <<cache, tables, tracked, estimates, halves, requests, faults>>
      /\ reader'.pc \in {"insert", "add", "create"} /\ reader' \in ReaderType(used)
      /\ reader'.pc \in {"add", "create"} => reader'.mac \in Macs
      /\ reader'.pc = "insert" => \E t \in DOMAIN cache : reader'.ids = {t}
  <2>1. CASE \E t \in Ids, geo \in BOOLEAN : TargetDetected(t, geo)
    <3>1. PICK t \in Ids, geo \in BOOLEAN : TargetDetected(t, geo)
      BY <2>1
    <3>2. t \in used
      BY <3>1, Types DEF TargetDetected, Stored
    <3> QED BY <3>1, <3>2 DEF TargetDetected, Idle, ReaderType
  <2>2. CASE \E mac \in Macs : TriangulationData(mac)
    <3>1. PICK mac \in Macs : TriangulationData(mac)
      BY <2>2
    <3>2. PICK pc \in {"add", "create"} : reader' = [Idle EXCEPT !.pc = pc, !.mac = mac]
      BY <3>1 DEF TriangulationData
    <3> QED BY <3>1, <3>2 DEF TriangulationData, Idle, ReaderType
  <2> QED BY <2>1, <2>2
<1>2. reader.pc = "idle"
  BY <1>1, IdleReader DEF Frame
<1>3. TypeOK'
  BY <1>1, Types, Counters, TypePartsNext DEF Running, tables
<1>4. FixWaits'
  BY <1>1, <1>2, Types DEF FixWaits
<1>5. CacheInv'
  BY <1>1, <1>2, Types, QuietStep DEF tables
<1> QED BY <1>3, <1>4, <1>5 DEF TargetInv

(* RecordHit's row: from now on the cached hit is late.                    *)
LEMMA InsertHitKeeps ==
    ASSUME TargetInv, NEW t \in Ids, InsertHit(t)
    PROVE  TargetInv'
<1> USE Types
<1>1. /\ reader.pc = "insert" /\ t \in reader.ids /\ t \in used
      /\ UNCHANGED <<cache, rows, used, tracked, estimates, halves, frames, requests>>
  BY DEF InsertHit, Running, ReaderType
<1>2. FixWaits'
  BY <1>1 DEF FixWaits
<1>3. CASE reader' = Idle /\ UNCHANGED hits /\ (UNCHANGED faults \/ Fault)
  <2>1. Counted(frames', requests', faults') /\ (faults' = 0 => faults = 0)
    BY <1>1, <1>3, Counters
  <2>2. TypeOK'
    BY <1>1, <1>3, <2>1, IdleReader, TypePartsNext DEF Running
  <2>3. CacheInv'
    BY <1>1, <1>3, <2>1, IdleReader, QuietStep
  <2> QED BY <1>2, <2>2, <2>3 DEF TargetInv
<1>4. CASE /\ t \in DOMAIN rows /\ hits' = [hits EXCEPT ![t] = frames]
           /\ reader' = [reader EXCEPT !.pc = "hitcache"] /\ UNCHANGED faults
  <2>1. reader' \in ReaderType(used) /\ reader'.pc = "hitcache" /\ reader'.ids = reader.ids
    BY <1>4 DEF ReaderType
  <2>2. frames \in 0 .. MaxFrames /\ hits \in [Ids -> 0 .. MaxFrames]
    BY DEF Counted, Stored
  <2>3. hits' \in [Ids -> 0 .. MaxFrames]
        /\ \A u \in Ids : hits'[u] = IF u = t THEN frames ELSE hits[u]
    BY <1>4, <2>2
  <2>4. TypeOK'
    <3>1. Stored(cache', rows', hits', used')
      BY <1>1, <1>4, <2>3 DEF Stored
    <3> QED BY <1>1, <1>4, <2>1, <3>1, TypePartsNext DEF Running
  <2>5. \A u \in used : u \in Ids /\ (Waits(u)' <=> Waits(u))
    BY <1>1, <2>1 DEF Waits, Makes, Puts, Stored
  <2>6. Fresh'
    BY <1>1, <2>1, <2>3, <2>5 DEF CacheInv, Fresh
  <2>7. MadeOnce'
    BY <1>1, <2>1 DEF CacheInv, MadeOnce, Makes, Puts
  <2>8. Dropped' /\ Visible'
    BY <1>1, <1>4, <2>5 DEF CacheInv, Dropped, Visible, Stored
  <2>9. HitsShown'
    <3>1. ASSUME NEW u \in DOMAIN cache, u \notin reader.ids PROVE hits'[u] = hits[u]
      BY <1>1, <2>3, <3>1 DEF Stored
    <3>2. \A u \in reader.ids : u = t
      BY <1>1 DEF CacheInv, MadeOnce
    <3> QED BY <1>1, <2>1, <2>3, <3>1, <3>2 DEF CacheInv, HitsShown
  <2> QED BY <1>2, <2>4, <2>6, <2>7, <2>8, <2>9 DEF TargetInv, CacheInv
<1> QED BY <1>1, <1>3, <1>4 DEF InsertHit

(* RecordHit's cached position.                                            *)
LEMMA CacheHitKeeps ==
    ASSUME TargetInv, NEW t \in Ids, CacheHit(t)
    PROVE  TargetInv'
<1> USE Types
<1>1. /\ reader.pc = "hitcache" /\ t \in reader.ids /\ reader' = Idle
      /\ UNCHANGED <<rows, hits, used, tracked, estimates, halves, frames, requests, faults>>
  BY DEF CacheHit, tables, counters
<1>2. /\ DOMAIN cache' = DOMAIN cache
      /\ \A u \in DOMAIN cache : u # t => cache'[u] = cache[u]
      /\ t \in DOMAIN cache => cache'[t] = [cache[t] EXCEPT !.hit = frames]
  BY DEF CacheHit, Shows
<1>3. \A u \in DOMAIN cache : cache'[u] \in Target
  BY <1>2 DEF Stored, Counted, Target
<1>4. t \in DOMAIN cache => cache'[t].hit = frames
  BY <1>2 DEF Stored, Target
<1>5. TypeOK'
  <2>1. Stored(cache', rows', hits', used')
    BY <1>1, <1>2, <1>3 DEF Stored
  <2> QED BY <1>1, <2>1, IdleReader, TypePartsNext DEF Running
<1>6. FixWaits'
  BY <1>1 DEF FixWaits
<1>7. \A u : Waits(u)' <=> Waits(u)
  BY <1>1, IdleReader DEF Waits, Makes, Puts
<1>8. Fresh' /\ Dropped' /\ Visible'
  BY <1>1, <1>2, <1>7, IdleReader DEF CacheInv, Fresh, Dropped, Visible
<1>9. MadeOnce'
  BY <1>1, IdleReader DEF CacheInv, MadeOnce, Makes, Puts
<1>10. HitsShown'
  <2>1. \A u \in reader.ids : u = t
    BY <1>1 DEF CacheInv, MadeOnce
  <2>2. hits[t] \in {0, frames}
    BY <1>1 DEF CacheInv, HitsShown
  <2> QED BY <1>1, <1>2, <1>4, <2>1, <2>2, IdleReader DEF CacheInv, HitsShown
<1> QED BY <1>5, <1>6, <1>8, <1>9, <1>10 DEF TargetInv, CacheInv

(* A target that is inserted is new to everything.                         *)
LEMMA NewTarget ==
    ASSUME TargetInv, NEW t \in Ids \ used, NEW r \in RowType
    PROVE  /\ t \notin DOMAIN cache /\ hits[t] = 0 /\ t \notin reader.ids
           /\ \A h \in halves : t \notin h.ids
           /\ DOMAIN With(rows, t, r) = DOMAIN rows \cup {t}
           /\ Stored(cache, With(rows, t, r), hits, used \cup {t})
<1> USE Types
<1>1. t \notin DOMAIN cache /\ t \notin DOMAIN rows /\ hits[t] = 0
  BY DEF Stored
<1>2. t \notin reader.ids /\ \A h \in halves : t \notin h.ids
  BY DEF ReaderType, Asked, HalfType
<1>3. DOMAIN With(rows, t, r) = DOMAIN rows \cup {t}
  BY DEF With
<1>4. Stored(cache, With(rows, t, r), hits, used \cup {t})
  BY <1>1 DEF Stored, With
<1> QED BY <1>1, <1>2, <1>3, <1>4

(* The placeholder's row: the target waits for the reader.                 *)
LEMMA InsertPlaceholderKeeps ==
    ASSUME TargetInv, NEW t \in Ids, InsertPlaceholder(t)
    PROVE  TargetInv'
<1> USE Types
<1>1. /\ reader.pc = "create" /\ reader.mac \in Macs
      /\ UNCHANGED <<cache, hits, tracked, estimates, halves, frames, requests>>
  BY DEF InsertPlaceholder, Running
<1>2. FixWaits'
  BY <1>1 DEF FixWaits
<1>3. CASE Fault /\ reader' = [reader EXCEPT !.pc = "add"] /\ UNCHANGED <<rows, used>>
  <2>1. Counted(frames', requests', faults') /\ (faults' = 0 => faults = 0)
    BY <1>1, <1>3, Counters
  <2>2. reader' \in ReaderType(used) /\ reader'.pc = "add" /\ reader'.mac = reader.mac
    BY <1>3 DEF ReaderType
  <2>3. TypeOK'
    BY <1>1, <1>3, <2>1, <2>2, TypePartsNext DEF Running
  <2>4. CacheInv'
    BY <1>1, <1>3, <2>1, <2>2, QuietStep
  <2> QED BY <1>2, <2>3, <2>4 DEF TargetInv
<1>4. CASE /\ t \notin used /\ used' = used \cup {t}
           /\ rows' = With(rows, t, [mac |-> reader.mac, status |-> "triangulating"])
           /\ reader' = [reader EXCEPT !.pc = "cache", !.ids = {t}]
           /\ UNCHANGED faults
  <2>1. [mac |-> reader.mac, status |-> "triangulating"] \in RowType
    BY <1>1 DEF RowType, Status
  <2>2. /\ t \notin DOMAIN cache /\ hits[t] = 0 /\ \A h \in halves : t \notin h.ids
        /\ DOMAIN rows' = DOMAIN rows \cup {t} /\ Stored(cache', rows', hits', used')
    BY <1>1, <1>4, <2>1, NewTarget
  <2>3. /\ reader' \in ReaderType(used \cup {t})
        /\ reader'.pc = "cache" /\ reader'.ids = {t} /\ reader'.mac = reader.mac
    BY <1>4 DEF ReaderType
  <2>4. TypeOK'
    <3>1. Running(reader', estimates', tracked', used')
      <4>1. Running(reader, estimates, tracked, used \cup {t})
        BY MoreIds, used \subseteq used \cup {t}
      <4> QED BY <1>1, <1>4, <2>3, <4>1 DEF Running
    <3>2. Asked(halves', used')
      BY <1>1, <1>4, MoreIds
    <3> QED BY <1>1, <1>4, <2>2, <3>1, <3>2, TypePartsNext
  <2>5. \A u : Waits(u)' <=> u = t \/ Waits(u)
    BY <1>1, <2>3 DEF Waits, Makes, Puts
  <2>6. \A u : Makes(u)' <=> u = t
    BY <2>3 DEF Makes
  <2>7. Fresh'
    BY <1>1, <1>4, <2>2, <2>3, <2>5 DEF CacheInv, Fresh
  <2>8. MadeOnce'
    BY <1>1, <1>4, <2>2, <2>3, <2>6 DEF CacheInv, MadeOnce, Puts
  <2>9. Dropped' /\ Visible'
    BY <1>1, <1>4, <2>2, <2>5 DEF CacheInv, Dropped, Visible
  <2>10. HitsShown'
    BY <1>1, <2>3 DEF CacheInv, HitsShown
  <2> QED BY <1>2, <2>4, <2>7, <2>8, <2>9, <2>10 DEF TargetInv, CacheInv
<1> QED BY <1>1, <1>3, <1>4 DEF InsertPlaceholder

(* The placeholder's entry.                                                *)
LEMMA CachePlaceholderKeeps ==
    ASSUME TargetInv, NEW t \in Ids, CachePlaceholder(t)
    PROVE  TargetInv'
<1> USE Types
<1>1. /\ reader.pc = "cache" /\ t \in reader.ids /\ t \in used /\ reader.mac \in Macs
      /\ reader' = [reader EXCEPT !.pc = "add", !.ids = {}]
      /\ UNCHANGED <<rows, hits, used, tracked, estimates, halves, frames, requests, faults>>
  BY DEF CachePlaceholder, tables, counters, Running, ReaderType
<1>2. reader' \in ReaderType(used) /\ reader'.pc = "add" /\ reader'.mac = reader.mac
  BY <1>1 DEF ReaderType
<1>3. /\ DOMAIN cache' = DOMAIN cache \cup {t}
      /\ \A u \in DOMAIN cache : u # t => cache'[u] = cache[u]
      /\ cache'[t] = [mac |-> reader.mac, status |-> "triangulating", hit |-> 0]
  BY DEF CachePlaceholder, With
<1>4. cache'[t] \in Target
  BY <1>1, <1>3, TargetAssumption DEF Target, Status
<1>5. TypeOK'
  <2>1. Stored(cache', rows', hits', used')
    BY <1>1, <1>3, <1>4 DEF Stored
  <2> QED BY <1>1, <1>2, <2>1, TypePartsNext DEF Running
<1>6. FixWaits'
  BY <1>1 DEF FixWaits
<1>7. Makes(t) /\ Waits(t) /\ hits[t] = 0 /\ ~\E h \in halves : Puts(h, t)
  BY <1>1 DEF Makes, Waits, CacheInv, Fresh, MadeOnce
<1>8. \A u \in used : (Waits(u)' => Waits(u) /\ u # t) /\ (Waits(u) => u = t \/ Waits(u)')
  <2>1. \A u \in reader.ids : u = t
    BY <1>1 DEF CacheInv, MadeOnce
  <2> QED BY <1>1, <1>2, <1>7, <2>1 DEF Waits, Makes, Puts
<1>9. Fresh' /\ Dropped' /\ Visible'
  BY <1>1, <1>2, <1>3, <1>8 DEF CacheInv, Fresh, Dropped, Visible, Stored
<1>10. MadeOnce'
  BY <1>1, <1>2 DEF CacheInv, MadeOnce, Makes, Puts
<1>11. HitsShown'
  BY <1>1, <1>2, <1>3, <1>7 DEF CacheInv, HitsShown
<1> QED BY <1>5, <1>6, <1>9, <1>10, <1>11 DEF TargetInv, CacheInv

(* AddDetection hands an estimate to a goroutine.                          *)
LEMMA AddDetectionKeeps ==
    ASSUME TargetInv, NEW located \in BOOLEAN, NEW conf \in Confidence, NEW moved \in BOOLEAN,
           AddDetection(located, conf, moved)
    PROVE  TargetInv'
<1> USE Types
<1>1. /\ reader.pc = "add" /\ reader.mac \in Macs /\ reader' = Idle
      /\ UNCHANGED <<cache, rows, hits, used, halves, frames, requests, faults>>
  BY DEF AddDetection, Running, tables, counters
<1>2. /\ tracked' \subseteq Macs /\ estimates' \subseteq EstimateType(used)
      /\ \A e \in estimates' : e.sync => e \in estimates
  <2>1. CASE UNCHANGED <<tracked, estimates>>
    BY <2>1 DEF Running
  <2>2. CASE tracked' = tracked \cup {reader.mac} /\ Estimate(reader.mac, conf, FALSE)
    <3> DEFINE e == [mac |-> reader.mac, conf |-> conf, sync |-> FALSE, got |-> {}]
    <3>1. e \in EstimateType(used) /\ ~e.sync
      BY <1>1 DEF EstimateType
    <3> QED BY <1>1, <2>2, <3>1 DEF Estimate, Running
  <2> QED BY <2>1, <2>2 DEF AddDetection
<1>3. TypeOK'
  BY <1>1, <1>2, IdleReader, TypePartsNext DEF Running
<1>4. FixWaits'
  BY <1>1, <1>2 DEF FixWaits
<1>5. CacheInv'
  BY <1>1, IdleReader, QuietStep
<1> QED BY <1>3, <1>4, <1>5 DEF TargetInv

(* The reader applies a fix itself and waits for it.                       *)
LEMMA TriangulationFixKeeps ==
    ASSUME TargetInv, NEW mac \in Macs, NEW conf \in Confidence, TriangulationFix(mac, conf)
    PROVE  TargetInv'
<1> USE Types
<1> DEFINE e == [mac |-> mac, conf |-> conf, sync |-> TRUE, got |-> {}]
<1>1. /\ Frame /\ estimates' = estimates \cup {e} /\ reader' = [Idle EXCEPT !.pc = "fix"]
      /\ UNCHANGED <<cache, rows, hits, used, tracked, halves, requests, faults>>
  BY DEF TriangulationFix, Estimate, tables
<1>2. reader.pc = "idle" /\ reader'.pc = "fix" /\ reader' \in ReaderType(used)
  BY <1>1, IdleReader DEF Frame, Idle, ReaderType
<1>3. e \in EstimateType(used)
  BY DEF EstimateType
<1>4. TypeOK'
  BY <1>1, <1>2, <1>3, Counters, TypePartsNext DEF Running
<1>5. FixWaits'
  BY <1>1, <1>2 DEF FixWaits
<1>6. CacheInv'
  BY <1>1, <1>2, QuietStep
<1> QED BY <1>4, <1>5, <1>6 DEF TargetInv

-----------------------------------------------------------------------------
(* The estimates.                                                          *)

(* The end of an estimate moves the reader only if it waits for this one.  *)
LEMMA AppliedReader ==
    ASSUME TargetInv, NEW e \in estimates, Applied(e), estimates' = estimates \ {e}
    PROVE  /\ reader' \in ReaderType(used) /\ FixWaits'
           /\ reader'.pc \in {"create", "cache", "add"} => reader'.mac \in Macs
           /\ UNCHANGED reader \/ (reader.pc = "fix" /\ reader'.pc = "idle")
<1> USE Types
<1>1. CASE e.sync
  BY <1>1, IdleReader DEF Applied, FixWaits
<1>2. CASE ~e.sync
  BY <1>2 DEF Applied, FixWaits, Running
<1> QED BY <1>1, <1>2

(* The cache under the lock: a status, never a key or a hit.               *)
LEMMA EstimateCacheKeeps ==
    ASSUME TargetInv, NEW e \in estimates, EstimateCache(e)
    PROVE  TargetInv'
<1> USE Types
<1>1. UNCHANGED <<rows, hits, used, tracked, halves, frames, requests, faults>>
  BY DEF EstimateCache, tables, counters
<1>2. CASE estimates' = estimates \ {e} /\ Applied(e) /\ UNCHANGED cache
  <2>1. TypeOK'
    BY <1>1, <1>2, AppliedReader, TypePartsNext DEF Running
  <2>2. CacheInv'
    BY <1>1, <1>2, AppliedReader, QuietStep
  <2> QED BY <1>2, <2>1, <2>2, AppliedReader DEF TargetInv
<1>3. ASSUME NEW t \in Found(e.mac), UNCHANGED reader,
             cache' = IF e.conf = "high" THEN [cache EXCEPT ![t].status = "active"] ELSE cache,
             estimates' = (estimates \ {e}) \cup {[e EXCEPT !.got = {<<t, cache'[t].status>>}]}
      PROVE  TargetInv'
  <2>1. t \in DOMAIN cache /\ t \in used
    BY DEF Found, Stored
  <2>2. /\ DOMAIN cache' = DOMAIN cache
        /\ \A u \in DOMAIN cache : cache'[u] \in Target /\ cache'[u].hit = cache[u].hit
    <3>1. CASE e.conf = "high"
      BY <1>3, <2>1, <3>1 DEF Stored, Target, Status
    <3>2. CASE e.conf # "high"
      BY <1>3, <3>2 DEF Stored
    <3> QED BY <3>1, <3>2
  <2>3. <<t, cache'[t].status>> \in used \X Status
    BY <2>1, <2>2 DEF Target
  <2> DEFINE f == [e EXCEPT !.got = {<<t, cache'[t].status>>}]
  <2>4. e \in EstimateType(used) /\ f \in EstimateType(used) /\ f.sync = e.sync
    BY <2>3 DEF Running, EstimateType
  <2>5. TypeOK'
    <3>1. Stored(cache', rows', hits', used')
      BY <1>1, <2>2 DEF Stored
    <3>2. Running(reader', estimates', tracked', used')
      BY <1>1, <1>3, <2>4 DEF Running
    <3> QED BY <1>1, <3>1, <3>2, TypePartsNext
  <2>6. FixWaits'
    BY <1>3, <2>4 DEF FixWaits
  <2>7. CacheInv'
    BY <1>1, <1>3, <2>2, QuietStep
  <2> QED BY <2>5, <2>6, <2>7 DEF TargetInv
<1> QED BY <1>2, <1>3 DEF EstimateCache

(* The row after the lock: a status again.                                 *)
LEMMA EstimateRowKeeps ==
    ASSUME TargetInv, NEW e \in estimates, NEW t, NEW status, EstimateRow(e, t, status)
    PROVE  TargetInv'
<1> USE Types
<1>1. /\ <<t, status>> \in e.got /\ estimates' = estimates \ {e} /\ Applied(e)
      /\ UNCHANGED <<cache, hits, used, tracked, halves, frames, requests>>
  BY DEF EstimateRow
<1>2. <<t, status>> \in used \X Status
  BY <1>1 DEF Running, EstimateType
<1>3. /\ DOMAIN rows' = DOMAIN rows /\ \A u \in DOMAIN rows : rows'[u] \in RowType
      /\ UNCHANGED faults \/ Fault
  <2>1. CASE UNCHANGED rows /\ (UNCHANGED faults \/ Fault)
    BY <2>1 DEF Stored
  <2>2. CASE /\ t \in DOMAIN rows /\ UNCHANGED faults
             /\ \E s \in {status} \cup {cache[x].status : x \in {t} \cap DOMAIN cache} :
                   rows' = [rows EXCEPT ![t].status = s]
    <3>1. PICK s \in {status} \cup {cache[x].status : x \in {t} \cap DOMAIN cache} :
              rows' = [rows EXCEPT ![t].status = s]
      BY <2>2
    <3>2. s \in Status
      BY <1>2 DEF Stored, Target
    <3> QED BY <2>2, <3>1, <3>2 DEF Stored, RowType
  <2> QED BY <2>1, <2>2 DEF EstimateRow
<1>4. Counted(frames', requests', faults') /\ (faults' = 0 => faults = 0)
  BY <1>1, <1>3, Counters
<1>5. TypeOK'
  <2>1. Stored(cache', rows', hits', used')
    BY <1>1, <1>3 DEF Stored
  <2>2. Running(reader', estimates', tracked', used')
    BY <1>1, AppliedReader DEF Running
  <2> QED BY <1>1, <1>4, <2>1, <2>2, TypePartsNext
<1>6. CacheInv'
  BY <1>1, <1>3, <1>4, AppliedReader, QuietStep
<1> QED BY <1>1, <1>5, <1>6, AppliedReader DEF TargetInv

-----------------------------------------------------------------------------
(* The requests.                                                           *)

(* The second half of a request, as Later makes it.                        *)
LEMMA LaterFields ==
    ASSUME NEW do, NEW ids, NEW macs, NEW statuses
    PROVE  /\ Later(do, ids, macs, statuses).do = do /\ Later(do, ids, macs, statuses).ids = ids
           /\ Later(do, ids, macs, statuses).macs = macs
           /\ Later(do, ids, macs, statuses).statuses = statuses
           /\ \A u : /\ do \in {"put", "edit", "drop", "clear", "hits"} /\ ids \subseteq u
                     /\ macs \subseteq Macs \cup {NoMac} /\ statuses \subseteq Status
                     => Later(do, ids, macs, statuses) \in HalfType(u)
BY DEF Later, HalfType

(* An edited record keeps its type and its hit.                            *)
LEMMA EditedRecord ==
    ASSUME NEW macs \in SUBSET (Macs \cup {NoMac}), NEW statuses \in SUBSET Status, statuses # {}
    PROVE  /\ \A r \in RowType : Edited(r, macs, statuses) \in RowType
           /\ \A r \in Target : /\ Edited(r, macs, statuses) \in Target
                                /\ Edited(r, macs, statuses).hit = r.hit
<1> DEFINE s == CHOOSE x \in statuses : TRUE
           m == CHOOSE x \in macs : TRUE
<1>1. s \in Status
  OBVIOUS
<1>2. macs # {} => m \in Macs \cup {NoMac}
  OBVIOUS
<1> HIDE DEF s, m
<1>3. \A r : Edited(r, macs, statuses) = [r EXCEPT !.mac = IF macs = {} THEN r.mac ELSE m,
                                                   !.status = s]
  BY DEF Edited, s, m
<1>4. ASSUME NEW r, r.mac \in Macs \cup {NoMac}
      PROVE  \E n \in Macs \cup {NoMac} :
                Edited(r, macs, statuses) = [r EXCEPT !.mac = n, !.status = s]
  BY <1>2, <1>3, <1>4
<1>5. ASSUME NEW r \in RowType PROVE Edited(r, macs, statuses) \in RowType
  <2>1. PICK n \in Macs \cup {NoMac} : Edited(r, macs, statuses) = [r EXCEPT !.mac = n, !.status = s]
    BY <1>4 DEF RowType
  <2> QED BY <1>1, <2>1 DEF RowType
<1>6. ASSUME NEW r \in Target
      PROVE  Edited(r, macs, statuses) \in Target /\ Edited(r, macs, statuses).hit = r.hit
  <2>1. PICK n \in Macs \cup {NoMac} : Edited(r, macs, statuses) = [r EXCEPT !.mac = n, !.status = s]
    BY <1>4 DEF Target
  <2> QED BY <1>1, <2>1 DEF Target
<1> QED BY <1>5, <1>6

(* A created target waits for its entry.                                   *)
LEMMA CreateKeeps ==
    ASSUME TargetInv, NEW t \in Ids, NEW mac \in Macs \cup {NoMac}, Create(t, mac)
    PROVE  TargetInv'
<1> USE Types
<1> DEFINE h == Later("put", {t}, {mac}, {"active"})
<1>1. /\ Request /\ t \notin used /\ used' = used \cup {t}
      /\ rows' = With(rows, t, [mac |-> mac, status |-> "active"])
      /\ halves' = halves \cup {h}
      /\ UNCHANGED <<cache, hits, tracked, reader, estimates, frames, faults>>
  BY DEF Create
<1>2. [mac |-> mac, status |-> "active"] \in RowType
  BY DEF RowType, Status
<1>3. /\ t \notin DOMAIN cache /\ hits[t] = 0 /\ t \notin reader.ids
      /\ \A g \in halves : t \notin g.ids
      /\ DOMAIN rows' = DOMAIN rows \cup {t} /\ Stored(cache', rows', hits', used')
  BY <1>1, <1>2, NewTarget
<1>4. h.do = "put" /\ h.ids = {t} /\ h \in HalfType(used \cup {t})
  BY LaterFields DEF Status
<1> HIDE DEF h
<1>5. TypeOK'
  <2>1. Running(reader', estimates', tracked', used')
    BY <1>1, MoreIds, used \subseteq used \cup {t}
  <2>2. Asked(halves, used \cup {t})
    BY MoreIds, used \subseteq used \cup {t}
  <2>3. Asked(halves', used')
    BY <1>1, <1>4, <2>2 DEF Asked
  <2> QED BY <1>1, <1>3, <2>1, <2>3, Counters, TypePartsNext
<1>6. FixWaits'
  BY <1>1 DEF FixWaits
<1>7. \A g, u : Puts(g, u)' <=> Puts(g, u)
  BY DEF Puts
<1>8. \A u : (Waits(u)' <=> u = t \/ Waits(u)) /\ (Makes(u)' <=> Makes(u))
  BY <1>1, <1>4 DEF Waits, Makes, Puts
<1>9. Fresh'
  BY <1>1, <1>3, <1>8 DEF CacheInv, Fresh
<1>10. MadeOnce'
  BY <1>1, <1>3, <1>4, <1>7, <1>8 DEF CacheInv, MadeOnce, Makes, Puts
<1>11. Dropped' /\ Visible'
  BY <1>1, <1>3, <1>4, <1>8 DEF CacheInv, Dropped, Visible
<1>12. HitsShown'
  BY <1>1 DEF CacheInv, HitsShown
<1> QED BY <1>5, <1>6, <1>9, <1>10, <1>11, <1>12 DEF TargetInv, CacheInv

(* Update, Resolve and Reactivate.                                         *)
LEMMA EditKeeps ==
    ASSUME TargetInv, NEW t \in Ids, NEW macs \in SUBSET Macs, NEW status \in Status,
           Edit(t, macs, status)
    PROVE  TargetInv'
<1> USE Types
<1> DEFINE h == Later("edit", {t}, macs, {status})
<1>1. /\ Request /\ t \in used /\ halves' = halves \cup {h}
      /\ rows' = IF t \in DOMAIN rows THEN [rows EXCEPT ![t] = Edited(rows[t], macs, {status})] ELSE rows
      /\ UNCHANGED <<cache, hits, used, tracked, reader, estimates, frames, faults>>
  BY DEF Edit
<1>2. h.do = "edit" /\ h \in HalfType(used) /\ h.statuses # {}
  BY <1>1, LaterFields
<1> HIDE DEF h
<1>3. DOMAIN rows' = DOMAIN rows /\ \A u \in DOMAIN rows : rows'[u] \in RowType
  BY <1>1, EditedRecord DEF Stored
<1>4. TypeOK'
  <2>1. Stored(cache', rows', hits', used')
    BY <1>1, <1>3 DEF Stored
  <2>2. Asked(halves', used')
    BY <1>1, <1>2 DEF Asked
  <2> QED BY <1>1, <2>1, <2>2, Counters, TypePartsNext
<1>5. FixWaits'
  BY <1>1 DEF FixWaits
<1>6. \A u : ~Puts(h, u) /\ (Waits(u)' <=> Waits(u)) /\ (Makes(u)' <=> Makes(u))
  BY <1>1, <1>2 DEF Waits, Makes, Puts
<1>7. Fresh' /\ HitsShown'
  BY <1>1, <1>6 DEF CacheInv, Fresh, HitsShown
<1>8. MadeOnce'
  BY <1>1, <1>6 DEF CacheInv, MadeOnce, Puts
<1>9. Dropped' /\ Visible'
  BY <1>1, <1>2, <1>3, <1>6 DEF CacheInv, Dropped, Visible
<1> QED BY <1>4, <1>5, <1>7, <1>8, <1>9 DEF TargetInv, CacheInv

(* Delete: the row and its hits go first.                                  *)
LEMMA DeleteKeeps ==
    ASSUME TargetInv, NEW t \in Ids, Delete(t)
    PROVE  TargetInv'
<1> USE Types
<1> DEFINE h == Later("drop", {t}, {}, {})
<1>1. /\ Request /\ t \in used /\ halves' = halves \cup {h}
      /\ rows' = Without(rows, {t}) /\ hits' = [hits EXCEPT ![t] = 0]
      /\ UNCHANGED <<cache, used, tracked, reader, estimates, frames, faults>>
  BY DEF Delete
<1>2. h.do = "drop" /\ h.ids = {t} /\ h \in HalfType(used)
  BY <1>1, LaterFields
<1> HIDE DEF h
<1>3. DOMAIN rows' = DOMAIN rows \ {t} /\ \A u \in DOMAIN rows' : rows'[u] = rows[u]
  BY <1>1 DEF Without
<1>4. /\ hits' \in [Ids -> 0 .. MaxFrames]
      /\ \A u \in Ids : hits'[u] = IF u = t THEN 0 ELSE hits[u]
  BY <1>1, TargetAssumption DEF Stored
<1>5. TypeOK'
  <2>1. Stored(cache', rows', hits', used')
    BY <1>1, <1>3, <1>4 DEF Stored
  <2>2. Asked(halves', used')
    BY <1>1, <1>2 DEF Asked
  <2> QED BY <1>1, <2>1, <2>2, Counters, TypePartsNext
<1>6. FixWaits'
  BY <1>1 DEF FixWaits
<1>7. \A u : ~Puts(h, u) /\ (Waits(u)' <=> Waits(u)) /\ (Makes(u)' <=> Makes(u))
  BY <1>1, <1>2 DEF Waits, Makes, Puts
<1>8. Fresh'
  BY <1>1, <1>4, <1>7 DEF CacheInv, Fresh, Stored
<1>9. MadeOnce'
  BY <1>1, <1>7 DEF CacheInv, MadeOnce, Puts
<1>10. Dropped' /\ Visible'
  BY <1>1, <1>2, <1>3, <1>7 DEF CacheInv, Dropped, Visible
<1>11. HitsShown'
  <2>1. DOMAIN cache \subseteq Ids /\ reader.ids \subseteq Ids
    BY DEF Stored, ReaderType
  <2> QED BY <1>1, <1>4, <2>1 DEF CacheInv, HitsShown
<1> QED BY <1>5, <1>6, <1>8, <1>9, <1>10, <1>11 DEF TargetInv, CacheInv

(* The entry of a created target.                                          *)
LEMMA PutKeeps ==
    ASSUME TargetInv, NEW h \in halves, NEW t \in Ids, NEW mac \in Macs \cup {NoMac},
           CachePut(h, t, mac), halves' = halves \ {h},
           UNCHANGED <<tables, tracked, reader, estimates, counters>>
    PROVE  TargetInv'
<1> USE Types
<1>1. /\ Puts(h, t) /\ t \in used
      /\ UNCHANGED <<rows, hits, used, tracked, reader, estimates, frames, requests, faults>>
  BY DEF CachePut, Puts, Asked, HalfType, tables, counters
<1>2. /\ DOMAIN cache' = DOMAIN cache \cup {t}
      /\ \A u \in DOMAIN cache : u # t => cache'[u] = cache[u]
      /\ cache'[t] = [mac |-> mac, status |-> "active", hit |-> 0]
  BY DEF CachePut, With
<1>3. cache'[t] \in Target
  BY <1>2, TargetAssumption DEF Target, Status
<1>4. TypeOK'
  <2>1. Stored(cache', rows', hits', used')
    BY <1>1, <1>2, <1>3 DEF Stored
  <2>2. Asked(halves', used')
    BY <1>1 DEF Asked
  <2> QED BY <1>1, <2>1, <2>2, TypePartsNext
<1>5. FixWaits'
  BY <1>1 DEF FixWaits
<1>6. /\ hits[t] = 0 /\ \A u \in used : Puts(h, u) <=> u = t
      /\ \A g \in halves : Puts(g, t) => g = h
      /\ ~Makes(t)
  BY <1>1 DEF Waits, CacheInv, Fresh, MadeOnce
<1>7. \A u \in used : (Waits(u)' => Waits(u) /\ u # t) /\ (Waits(u) => u = t \/ Waits(u)')
  BY <1>1, <1>6 DEF Waits, Makes, Puts
<1>8. Fresh'
  BY <1>1, <1>2, <1>7 DEF CacheInv, Fresh
<1>9. MadeOnce'
  BY <1>1 DEF CacheInv, MadeOnce, Makes, Puts
<1>10. Dropped' /\ Visible'
  BY <1>1, <1>2, <1>7 DEF CacheInv, Dropped, Visible, Stored, Puts
<1>11. HitsShown'
  BY <1>1, <1>2, <1>6 DEF CacheInv, HitsShown
<1> QED BY <1>4, <1>5, <1>8, <1>9, <1>10, <1>11 DEF TargetInv, CacheInv

(* The other second halves of requests for one target.                     *)
LEMMA SecondHalfKeeps ==
    ASSUME TargetInv, NEW h \in halves, SecondHalf(h)
    PROVE  TargetInv'
<1> USE Types
<1>1. /\ halves' = halves \ {h}
      /\ UNCHANGED <<rows, hits, used, tracked, reader, estimates, frames, requests, faults>>
  BY DEF SecondHalf, tables, counters
<1>2. CASE \E t \in Ids, mac \in Macs \cup {NoMac} : CachePut(h, t, mac)
  BY <1>1, <1>2, PutKeeps DEF SecondHalf
<1>3. CASE CacheEdit(h) \/ CacheDrop(h)
  <2>1. /\ DOMAIN cache' \subseteq DOMAIN cache
        /\ \A t \in DOMAIN cache' : cache'[t] \in Target /\ cache'[t].hit = cache[t].hit
        /\ \A t \in DOMAIN rows : t \in DOMAIN cache => t \in DOMAIN cache'
    <3>1. CASE CacheEdit(h)
      <4>1. h.statuses # {} /\ h.macs \in SUBSET (Macs \cup {NoMac}) /\ h.statuses \in SUBSET Status
        BY <3>1 DEF CacheEdit, Asked, HalfType
      <4> QED BY <3>1, <4>1, EditedRecord DEF CacheEdit, Stored
    <3>2. CASE CacheDrop(h)
      BY <3>2 DEF CacheDrop, Without, Stored, CacheInv, Dropped
    <3> QED BY <1>3, <3>1, <3>2
  <2>2. h.do \in {"edit", "drop"}
    BY <1>3 DEF CacheEdit, CacheDrop
  <2>3. TypeOK'
    <3>1. Stored(cache', rows', hits', used')
      BY <1>1, <2>1 DEF Stored
    <3>2. Asked(halves', used')
      BY <1>1 DEF Asked
    <3> QED BY <1>1, <3>1, <3>2, TypePartsNext
  <2>4. FixWaits'
    BY <1>1 DEF FixWaits
  <2>5. \A u : (Waits(u)' <=> Waits(u)) /\ (Makes(u)' <=> Makes(u))
    BY <1>1, <2>2 DEF Waits, Makes, Puts
  <2>6. Fresh' /\ HitsShown'
    BY <1>1, <2>1, <2>5 DEF CacheInv, Fresh, HitsShown
  <2>7. MadeOnce'
    BY <1>1, <2>5 DEF CacheInv, MadeOnce, Puts
  <2>8. Dropped' /\ Visible'
    BY <1>1, <2>1, <2>2, <2>5 DEF CacheInv, Dropped, Visible
  <2> QED BY <2>3, <2>4, <2>6, <2>7, <2>8 DEF TargetInv, CacheInv
<1> QED BY <1>2, <1>3 DEF SecondHalf

(* No target: an empty table or cache.                                     *)
LEMMA NothingThere == DOMAIN Nothing = {}
BY DEF Nothing

(* ClearAll's first half: the cache, and everything waits for the table.   *)
LEMMA ClearAllKeeps ==
    ASSUME TargetInv, ClearAll
    PROVE  TargetInv'
<1> USE Types
<1> DEFINE h == Later("clear", {}, {}, {})
<1>1. /\ Request /\ cache' = Nothing /\ halves' = halves \cup {h}
      /\ UNCHANGED <<rows, hits, used, tracked, reader, estimates, frames, faults>>
  BY DEF ClearAll, CacheFirst, ClearCache
<1>2. h.do = "clear" /\ h \in HalfType(used)
  BY LaterFields
<1> HIDE DEF h
<1>3. TypeOK'
  <2>1. Stored(cache', rows', hits', used')
    BY <1>1, NothingThere DEF Stored
  <2>2. Asked(halves', used')
    BY <1>1, <1>2 DEF Asked
  <2> QED BY <1>1, <2>1, <2>2, Counters, TypePartsNext
<1>4. FixWaits'
  BY <1>1 DEF FixWaits
<1>5. \A u : ~Puts(h, u) /\ (Waits(u)' <=> Waits(u)) /\ (Makes(u)' <=> Makes(u))
  BY <1>1, <1>2 DEF Waits, Makes, Puts
<1>6. Fresh' /\ HitsShown'
  BY <1>1, <1>5, NothingThere DEF CacheInv, Fresh, HitsShown
<1>7. MadeOnce'
  BY <1>1, <1>5 DEF CacheInv, MadeOnce, Puts
<1>8. Dropped' /\ Visible'
  BY <1>1, <1>2 DEF CacheInv, Dropped, Visible
<1> QED BY <1>3, <1>4, <1>6, <1>7, <1>8 DEF TargetInv, CacheInv

(* The table, or an error that leaves it; and the admin's clear of hits.   *)
LEMMA ClearRestKeeps ==
    ASSUME TargetInv, NEW h \in halves,
           (\E admin \in BOOLEAN : ClearRest(h, admin)) \/ DeleteHits(h)
    PROVE  TargetInv'
<1> USE Types
<1> DEFINE g == Later("hits", {}, {}, {})
<1>1. /\ h.do \in {"clear", "hits"} /\ halves' \subseteq (halves \ {h}) \cup {g}
      /\ halves \ {h} \subseteq halves'
      /\ UNCHANGED <<cache, used, tracked, reader, estimates, frames, requests>>
      /\ \/ /\ rows' = Nothing /\ hits' = [t \in Ids |-> 0] /\ UNCHANGED faults
         \/ UNCHANGED <<rows, hits>> /\ Fault
         \/ h.do = "hits" /\ UNCHANGED <<rows, faults>> /\ hits' = [t \in Ids |-> 0]
  <2>1. CASE \E admin \in BOOLEAN : ClearRest(h, admin)
    <3>1. PICK admin \in BOOLEAN : ClearRest(h, admin)
      BY <2>1
    <3>2. CASE admin
      BY <3>1, <3>2 DEF ClearRest, CacheFirst, ClearTable
    <3>3. CASE ~admin
      BY <3>1, <3>3 DEF ClearRest, CacheFirst, ClearTable
    <3> QED BY <3>2, <3>3
  <2>2. CASE DeleteHits(h)
    BY <2>2 DEF DeleteHits, counters
  <2> QED BY <2>1, <2>2
<1>2. g.do = "hits" /\ g \in HalfType(used)
  BY LaterFields
<1> HIDE DEF g
<1>3. Counted(frames', requests', faults') /\ (Fault => faults' # 0)
  BY <1>1, Counters
<1>4. /\ DOMAIN rows' \subseteq DOMAIN rows /\ \A t \in DOMAIN rows' : rows'[t] = rows[t]
      /\ hits' \in [Ids -> 0 .. MaxFrames] /\ \A t \in Ids : hits'[t] = 0 \/ hits'[t] = hits[t]
      /\ \A t \in Ids \ DOMAIN rows' : hits'[t] = 0
      /\ h.do = "clear" => DOMAIN rows' = {} \/ faults' # 0
      /\ faults' = 0 => faults = 0
  <2>1. 0 \in 0 .. MaxFrames
    BY TargetAssumption
  <2> QED BY <1>1, <1>3, <2>1, NothingThere DEF Stored
<1>5. TypeOK'
  <2>1. Stored(cache', rows', hits', used')
    BY <1>1, <1>4 DEF Stored
  <2>2. Asked(halves', used')
    BY <1>1, <1>2 DEF Asked
  <2> QED BY <1>1, <1>3, <2>1, <2>2, TypePartsNext
<1>6. FixWaits'
  BY <1>1 DEF FixWaits
<1>7. \A u : ~Puts(h, u) /\ ~Puts(g, u) /\ (Waits(u)' <=> Waits(u)) /\ (Makes(u)' <=> Makes(u))
  BY <1>1, <1>2 DEF Waits, Makes, Puts
<1>8. DOMAIN cache \subseteq Ids /\ used \subseteq Ids /\ reader.ids \subseteq Ids
  BY DEF Stored, ReaderType
<1>9. Fresh'
  BY <1>1, <1>4, <1>7, <1>8 DEF CacheInv, Fresh
<1>10. HitsShown'
  BY <1>1, <1>4, <1>8 DEF CacheInv, HitsShown
<1>11. MadeOnce'
  BY <1>1, <1>7 DEF CacheInv, MadeOnce, Puts
<1>12. Dropped'
  BY <1>1, <1>2, <1>4 DEF CacheInv, Dropped
<1>13. Visible'
  BY <1>1, <1>4, <1>7 DEF CacheInv, Visible
<1> QED BY <1>5, <1>6, <1>9, <1>10, <1>11, <1>12, <1>13 DEF TargetInv, CacheInv

(* A restart loads the table and forgets what was half done.               *)
LEMMA RestartKeeps ==
    ASSUME TargetInv, Restart
    PROVE  TargetInv'
<1> USE Types
<1>1. /\ Request /\ tracked' = {} /\ reader' = Idle /\ estimates' = {} /\ halves' = {}
      /\ UNCHANGED <<rows, hits, used, frames, faults>>
  BY DEF Restart, tables
<1>2. /\ DOMAIN cache' = DOMAIN rows
      /\ \A t \in DOMAIN rows :
            cache'[t] = [mac |-> rows[t].mac, status |-> rows[t].status, hit |-> hits[t]]
  BY DEF Restart
<1>3. \A t \in DOMAIN rows : cache'[t] \in Target /\ cache'[t].hit = hits[t]
  BY <1>2 DEF Stored, RowType, Target
<1>4. TypeOK'
  <2>1. Stored(cache', rows', hits', used')
    BY <1>1, <1>2, <1>3 DEF Stored
  <2>2. Running(reader', estimates', tracked', used') /\ Asked(halves', used')
    BY <1>1, IdleReader DEF Running, Asked
  <2> QED BY <1>1, <2>1, <2>2, Counters, TypePartsNext
<1>5. FixWaits'
  BY <1>1 DEF FixWaits
<1>6. CacheInv'
  BY <1>1, <1>2, <1>3, IdleReader DEF CacheInv, Fresh, MadeOnce, Dropped, Visible, HitsShown,
     Waits, Makes
<1> QED BY <1>4, <1>5, <1>6 DEF TargetInv

-----------------------------------------------------------------------------
(* The theorems.                                                           *)

(* TargetInv holds in every state.                                         *)
THEOREM Invariant == Spec => []TargetInv
<1>1. Init => TargetInv
  <2> SUFFICES ASSUME Init PROVE TargetInv
    OBVIOUS
  <2>1. /\ MaxFrames \in Nat /\ MaxRequests \in Nat /\ MaxFaults \in Nat
        /\ DOMAIN cache = {} /\ DOMAIN rows = {}
    BY TargetAssumption, NothingThere DEF Init
  <2>2. TypeOK
    <3>1. Stored(cache, rows, hits, used)
      BY <2>1 DEF Init, Stored
    <3>2. Running(reader, estimates, tracked, used) /\ Asked(halves, used)
      BY IdleReader DEF Init, Running, Asked
    <3>3. Counted(frames, requests, faults)
      BY <2>1 DEF Init, Counted
    <3> QED BY <3>1, <3>2, <3>3, TypeParts
  <2>3. FixWaits /\ CacheInv
    BY <2>1, IdleReader DEF Init, FixWaits, CacheInv, Fresh, MadeOnce, Dropped, Visible,
       HitsShown, Waits, Makes
  <2> QED BY <2>2, <2>3 DEF TargetInv
<1>2. ASSUME TargetInv, [Next]_vars PROVE TargetInv'
  <2>1. CASE UNCHANGED vars
    <3> USE <2>1, Types, <1>2 DEF vars
    <3>1. TypeOK'
      BY TypePartsNext
    <3>2. FixWaits' /\ CacheInv'
      BY QuietStep DEF FixWaits
    <3> QED BY <3>1, <3>2 DEF TargetInv
  <2>2. CASE ReaderStep
    BY <1>2, <2>2, FrameKeeps, InsertHitKeeps, CacheHitKeeps, InsertPlaceholderKeeps,
       CachePlaceholderKeeps, AddDetectionKeeps, TriangulationFixKeeps DEF ReaderStep
  <2>3. CASE EstimateStep
    BY <1>2, <2>3, EstimateCacheKeeps, EstimateRowKeeps DEF EstimateStep
  <2>4. CASE RequestStep
    <3>1. ASSUME NEW t \in Ids, NEW macs \in {{}} \cup {{m} : m \in Macs},
                 NEW status \in {"active", "resolved"}, Edit(t, macs, status)
          PROVE  TargetInv'
      <4>1. macs \in SUBSET Macs /\ status \in Status
        BY DEF Status
      <4> QED BY <1>2, <3>1, <4>1, EditKeeps
    <3> QED BY <1>2, <2>4, <3>1, CreateKeeps, DeleteKeeps, SecondHalfKeeps, ClearAllKeeps,
               ClearRestKeeps, RestartKeeps DEF RequestStep
  <2> QED BY <1>2, <2>1, <2>2, <2>3, <2>4 DEF Next
<1> QED BY <1>1, <1>2, PTL DEF Spec

(* The types of the service's cache, its tables and the work in progress.  *)
THEOREM TypeCorrect == Spec => []TypeOK
<1>1. TargetInv => TypeOK
  BY DEF TargetInv
<1> QED BY <1>1, Invariant, PTL

(* The page's fallback position is the newest hit's, whichever requests    *)
(* run between RecordHit's lookup, its row and its cache entry.            *)
THEOREM HitFallbackHolds == Spec => []HitFallback
<1>1. TargetInv => HitFallback
  BY DEF TargetInv, CacheInv, HitsShown, HitFallback
<1> QED BY <1>1, Invariant, PTL

(* While no request is half done and no write has failed, no row is hidden *)
(* from the operator.                                                      *)
THEOREM NoneHidden == Spec => []NoHiddenTarget
<1>1. TargetInv => NoHiddenTarget
  BY DEF TargetInv, CacheInv, Visible, Waits, Makes, NoHiddenTarget
<1> QED BY <1>1, Invariant, PTL
=============================================================================
