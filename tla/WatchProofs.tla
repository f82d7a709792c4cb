----------------------------- MODULE WatchProofs -----------------------------
(***************************************************************************)
(* What ZonePublishing's steps do to single objects, to what the caches    *)
(* show of them, and to the worker's zone file: lemmas that the proofs of  *)
(* several properties need.                                                *)
(***************************************************************************)
EXTENDS ZonePublishingProofs

-----------------------------------------------------------------------------
(* Objects of any kind and the watch.                                      *)

(* The cache and the feed hold older versions than the API server, and the *)
(* feed newer ones than the cache.                                         *)
Lags(obj, feed, cache) ==
  /\ \A v \in feed \cup {cache} : v.rv <= obj.rv /\ (v.rv = obj.rv => v = obj)
  /\ \A v \in feed : cache.rv <= v.rv

(* What a step does to one object: nothing, a write, a delivery, a refill. *)
Moves(old, new, feed, feed1, cache, cache1) ==
  \/ new = old /\ feed1 = feed /\ cache1 = cache
  \/ new.rv = old.rv + 1 /\ feed1 = feed \cup {new} /\ cache1 = cache
  \/ /\ new = old /\ cache1 \in feed /\ feed1 = feed \ {cache1}
     /\ \A w \in feed : cache1.rv <= w.rv
  \/ new = old /\ feed1 = {} /\ cache1 = old

LEMMA MovesKeepLags ==
  ASSUME NEW Kind, \A k \in Kind : k.rv \in Nat,
         NEW old \in Kind, NEW new \in Kind, NEW feed \in SUBSET Kind,
         NEW feed1 \in SUBSET Kind, NEW cache \in Kind, NEW cache1 \in Kind,
         Lags(old, feed, cache), Moves(old, new, feed, feed1, cache, cache1)
  PROVE  /\ Lags(new, feed1, cache1) /\ cache.rv <= cache1.rv
         /\ new = old \/ new.rv = old.rv + 1
         /\ feed1 \cup {cache1} \subseteq feed \cup {cache, old, new}
  <1>1. CASE new = old /\ feed1 = feed /\ cache1 = cache
    BY <1>1 DEF Lags
  <1>2. CASE new.rv = old.rv + 1 /\ feed1 = feed \cup {new} /\ cache1 = cache
    <2>1. \A v \in feed \cup {cache} : v.rv \in Nat /\ v.rv < new.rv
      BY <1>2 DEF Lags
    <2>2. old.rv \in Nat /\ new.rv \in Nat
      OBVIOUS
    <2> QED
      BY <1>2, <2>1, <2>2 DEF Lags
  <1>3. CASE /\ new = old /\ cache1 \in feed /\ feed1 = feed \ {cache1}
             /\ \A w \in feed : cache1.rv <= w.rv
    BY <1>3 DEF Lags
  <1>4. CASE new = old /\ feed1 = {} /\ cache1 = old
    BY <1>4 DEF Lags
  <1> QED
    BY <1>1, <1>2, <1>3, <1>4 DEF Moves

LEMMA RecordMoves ==
  ASSUME RecordTypes, RecordStep, NEW r \in Record
  PROVE  Moves(recs[r], recs'[r], recFeed[r], recFeed'[r], recCache[r], recCache'[r])
  <1>1. CASE UNCHANGED <<recs, recFeed, recCache>>
    BY <1>1 DEF Moves
  <1>2. CASE RecordWrite
    <2>1. PICK q \in Record, new \in RecordObj : PutRecord(q, new) /\ UNCHANGED recCache
      BY <1>2 DEF RecordWrite
    <2> DEFINE obj == Stored(recs[q], new)
    <2>2. /\ recs' = [recs EXCEPT ![q] = obj]
          /\ recFeed' = IF obj = recs[q] THEN recFeed
                        ELSE [recFeed EXCEPT ![q] = @ \cup {obj}]
      BY <2>1 DEF PutRecord
    <2>3. obj # recs[q] => obj.rv = recs[q].rv + 1
      BY StoredRecord DEF RecordTypes
    <2> HIDE DEF obj
    <2> QED
      BY <2>1, <2>2, <2>3 DEF RecordTypes, Moves
  <1>3. CASE RecordDelivery
    BY <1>3 DEF RecordDelivery, TakeRecord, Oldest, RecordTypes, Moves
  <1>4. CASE RecordRefill
    BY <1>4 DEF RecordRefill, Moves
  <1> QED
    BY <1>1, <1>2, <1>3, <1>4 DEF RecordStep

LEMMA ZoneMoves ==
  ASSUME ZoneTypes, ZoneStep, NEW z \in Zone
  PROVE  Moves(zones[z], zones'[z], zoneFeed[z], zoneFeed'[z], zoneCache[z], zoneCache'[z])
  <1>1. CASE UNCHANGED <<zones, zoneFeed, zoneCache>>
    BY <1>1 DEF Moves
  <1>2. CASE ZoneWrite
    <2>1. PICK q \in Zone, new \in ZoneObj : PutZone(q, new) /\ UNCHANGED zoneCache
      BY <1>2 DEF ZoneWrite
    <2> DEFINE obj == Stored(zones[q], new)
    <2>2. /\ zones' = [zones EXCEPT ![q] = obj]
          /\ zoneFeed' = IF obj = zones[q] THEN zoneFeed
                         ELSE [zoneFeed EXCEPT ![q] = @ \cup {obj}]
      BY <2>1 DEF PutZone
    <2>3. obj # zones[q] => obj.rv = zones[q].rv + 1
      BY StoredZone DEF ZoneTypes
    <2> HIDE DEF obj
    <2> QED
      BY <2>1, <2>2, <2>3 DEF ZoneTypes, Moves
  <1>3. CASE ZoneLabel
    <2>1. PICK q \in Zone : LabelZone(q)
      BY <1>3 DEF ZoneLabel
    <2> DEFINE obj == [zones[q] EXCEPT !.rv = @ + 1]
    <2>2. /\ zones' = [zones EXCEPT ![q] = obj]
          /\ zoneFeed' = [zoneFeed EXCEPT ![q] = @ \cup {obj}]
          /\ zoneCache' = zoneCache
      BY <2>1 DEF LabelZone, User, cacheVars, ZoneTypes
    <2>3. obj.rv = zones[q].rv + 1
      BY DEF ZoneTypes, ZoneObj
    <2> HIDE DEF obj
    <2> QED
      BY <2>2, <2>3 DEF ZoneTypes, Moves
  <1>4. CASE ZoneDelivery
    BY <1>4 DEF ZoneDelivery, TakeZone, Oldest, ZoneTypes, Moves
  <1>5. CASE ZoneRefill
    BY <1>5 DEF ZoneRefill, Moves
  <1> QED
    BY <1>1, <1>2, <1>3, <1>4, <1>5 DEF ZoneStep

LEMMA CMMoves ==
  ASSUME CMTypes, CMStep, NEW n \in CMName
  PROVE  Moves(cms[n], cms'[n], cmFeed[n], cmFeed'[n], cmCache[n], cmCache'[n])
  <1>1. CASE UNCHANGED <<cms, cmFeed, cmCache>>
    BY <1>1 DEF Moves
  <1>2. CASE CMWrite
    <2>1. PICK q \in CMName, new \in CMObj : PutCM(q, new) /\ UNCHANGED cmCache
      BY <1>2 DEF CMWrite
    <2> DEFINE obj == Stored(cms[q], new)
    <2>2. /\ cms' = [cms EXCEPT ![q] = obj]
          /\ cmFeed' = IF obj = cms[q] THEN cmFeed
                       ELSE [cmFeed EXCEPT ![q] = @ \cup {obj}]
      BY <2>1 DEF PutCM
    <2>3. obj # cms[q] => obj.rv = cms[q].rv + 1
      BY StoredCM DEF CMTypes
    <2> HIDE DEF obj
    <2> QED
      BY <2>1, <2>2, <2>3 DEF CMTypes, Moves
  <1>3. CASE CMDelivery
    BY <1>3 DEF CMDelivery, TakeCM, Oldest, CMTypes, Moves
  <1>4. CASE CMRefill
    BY <1>4 DEF CMRefill, Moves
  <1> QED
    BY <1>1, <1>2, <1>3, <1>4 DEF CMStep

(* The caches of the config maps lag.                                      *)
CMsHeld == \A n \in CMName : Lags(cms[n], cmFeed[n], cmCache[n])

LEMMA CMsStepKeeps ==
  ASSUME Inv, CMsHeld, CMStep
  PROVE  CMsHeld'
  <1>1. CMTypes /\ CMTypes'
    BY CMStepKeeps DEF Inv
  <1> SUFFICES ASSUME NEW n \in CMName PROVE Lags(cms'[n], cmFeed'[n], cmCache'[n])
    BY DEF CMsHeld
  <1>2. /\ cms[n] \in CMObj /\ cms'[n] \in CMObj
        /\ cmFeed[n] \in SUBSET CMObj /\ cmFeed'[n] \in SUBSET CMObj
        /\ cmCache[n] \in CMObj /\ cmCache'[n] \in CMObj
    BY <1>1 DEF CMTypes
  <1>3. \A v \in CMObj : v.rv \in Nat
    BY DEF CMObj
  <1> QED
    BY <1>1, <1>2, <1>3, CMMoves, MovesKeepLags DEF CMsHeld

-----------------------------------------------------------------------------
(* What a step does to the worker's zone file and to the config maps.      *)

(* A config map is marked, or goes away; its file stays.                   *)
CMTouched ==
  /\ UNCHANGED <<recs, zones>>
  /\ \E n \in CMName, obj \in CMObj : /\ cms[n].exists /\ obj.file = cms[n].file
                                      /\ cms' = [cms EXCEPT ![n] = obj]

(* No file is baked and none is written.                                   *)
KeepStep == /\ zw' = zw \/ ~Baking(zw')
            /\ zw' = zw \/ UNCHANGED cms \/ ~Baking(zw)
            /\ UNCHANGED cms \/ CMTouched

StartStep == \E z \in Zone : ZoneStartUpdate(z)
WriteStep == ZoneCreateCM \/ ZoneUpdateCM

LEMMA LoopHoldsNoFile ==
  ASSUME NEW pc \in {"join", "unjoin"}, NEW key, NEW todo, NEW after \in {"idle", "zonefin"}
  PROVE  ~Baking(Loop(pc, key, todo, after))
  <1>1. /\ [Idle EXCEPT !.pc = pc, !.key = key, !.todo = todo].pc = pc
        /\ [Idle EXCEPT !.pc = "zonefin", !.key = key].pc = "zonefin"
        /\ Idle.pc = "idle"
    BY DEF Idle
  <1> QED
    BY <1>1 DEF Loop, Baking

LEMMA IdleHoldsNoFile == ~Baking(Idle)
  BY DEF Baking, Idle

(* The finalizer is written back over the version it was read from.        *)
LEMMA FinalizerTouches ==
  ASSUME Inv, CMsHeld, NEW n \in CMName, NEW fin \in BOOLEAN, UNCHANGED <<recs, zones>>,
         Accepts(cmCache[n], cms[n]), PutCM(n, [cmCache[n] EXCEPT !.fin = fin])
  PROVE  CMTouched
  <1>1. cms[n] \in CMObj /\ cmCache[n] = cms[n] /\ cms[n].exists
    BY DEF Inv, CMTypes, CMsHeld, Lags, Accepts
  <1> DEFINE new == [cmCache[n] EXCEPT !.fin = fin]
  <1>2. new \in CMObj /\ new.file = cms[n].file
    BY <1>1 DEF CMObj
  <1>3. cms' = [cms EXCEPT ![n] = Stored(cms[n], new)]
    BY DEF PutCM
  <1> HIDE DEF new
  <1>4. Stored(cms[n], new) \in CMObj /\ Stored(cms[n], new).file = cms[n].file
    BY <1>1, <1>2, StoredCM
  <1> QED
    BY <1>1, <1>3, <1>4 DEF CMTouched

LEMMA DeletionTouches ==
  ASSUME Inv, NEW n \in CMName, UNCHANGED <<recs, zones>>, cms[n].exists,
         PutCM(n, Deleted(cms[n]))
  PROVE  CMTouched
  <1>1. cms[n] \in CMObj
    BY DEF Inv, CMTypes
  <1>2. Deleted(cms[n]) \in CMObj /\ Deleted(cms[n]).file = cms[n].file
    BY <1>1 DEF CMObj, Deleted
  <1>3. cms' = [cms EXCEPT ![n] = Stored(cms[n], Deleted(cms[n]))]
    BY DEF PutCM
  <1>4. /\ Stored(cms[n], Deleted(cms[n])) \in CMObj
        /\ Stored(cms[n], Deleted(cms[n])).file = cms[n].file
    BY <1>1, <1>2, StoredCM
  <1> QED
    BY <1>3, <1>4 DEF CMTouched

LEMMA WorkerKinds ==
  ASSUME Inv, CMsHeld, ZoneWork \/ ZoneFault
  PROVE  KeepStep \/ WriteStep
  <1>1. zw \in Worker
    BY DEF Inv, WorkTypes
  <1>2. CASE ZoneInvalid \/ ZonePublish
    <2>1. ~Baking(Joining) /\ ~Baking([zw EXCEPT !.pc = "cmfin"])
      BY <1>1, LoopHoldsNoFile DEF Joining, Baking, Worker
    <2>2. UNCHANGED cms /\ ~Baking(zw')
      BY <1>2, <2>1, IdleHoldsNoFile
      DEF ZoneInvalid, ZonePublish, WriteZoneStatus, Succeed, Fail, ApiRest, cmVars
    <2> QED
      BY <2>2 DEF KeepStep
  <1>3. CASE ZoneAddCMFinalizer
    <2> DEFINE n == CMOf(zw.key, zw.copy.spec)
    <2>1. n \in CMName
      BY WorkerFields
    <2>2. ~Baking(zw) /\ ~Baking(zw')
      BY <1>3, LoopHoldsNoFile, IdleHoldsNoFile
      DEF ZoneAddCMFinalizer, At, Baking, Joining, Succeed, Fail
    <2>3. \/ UNCHANGED cms
          \/ /\ UNCHANGED <<recs, zones>> /\ Accepts(cmCache[n], cms[n])
             /\ PutCM(n, [cmCache[n] EXCEPT !.fin = TRUE])
      BY <1>3 DEF ZoneAddCMFinalizer, ApiRest, recordVars, zoneVars, cmVars
    <2> HIDE DEF n
    <2> QED
      BY <2>1, <2>2, <2>3, FinalizerTouches DEF KeepStep
  <1>4. CASE ZoneRemoveFinalizer \/ ZoneFault
    <2>1. UNCHANGED cms /\ zw' = Idle
      BY <1>4 DEF ZoneRemoveFinalizer, ZoneFault, Succeed, Fail, ApiRest, cmVars
    <2> QED
      BY <2>1, IdleHoldsNoFile DEF KeepStep
  <1>5. CASE \E r \in Record : ZoneJoin(r) \/ ZoneUnjoin(r)
    <2>1. UNCHANGED cms /\ ~Baking(zw')
      BY <1>5, LoopHoldsNoFile, IdleHoldsNoFile
      DEF ZoneJoin, ZoneUnjoin, NotifyRecord, Succeed, Fail, ApiRest, cmVars
    <2> QED
      BY <2>1 DEF KeepStep
  <1> QED
    BY <1>2, <1>3, <1>4, <1>5 DEF ZoneWork, WriteStep

LEMMA BeginKinds ==
  ASSUME Inv, CMsHeld, NEW z \in Zone, ZoneBegin(z)
  PROVE  KeepStep \/ StartStep
  <1>1. CASE ZoneNotFound(z) \/ ZoneAddFinalizer(z)
    BY <1>1 DEF ZoneNotFound, ZoneAddFinalizer, ApiRest, cmVars, KeepStep
  <1>2. CASE ZoneStartDelete(z)
    <2> DEFINE n == CMOf(z, zoneCache[z].spec)
    <2>1. n \in CMName
      BY DEF CMOf, CMName, Inv, ZoneTypes, ZoneObj, ZoneSpec
    <2>2. ~Baking(zw) /\ ~Baking(zw')
      BY <1>2, LoopHoldsNoFile DEF ZoneStartDelete, At, Baking
    <2>3. \/ UNCHANGED cms
          \/ /\ UNCHANGED <<recs, zones>> /\ Accepts(cmCache[n], cms[n])
             /\ PutCM(n, [cmCache[n] EXCEPT !.fin = FALSE])
      BY <1>2 DEF ZoneStartDelete, recordVars, zoneVars, cmVars
    <2> HIDE DEF n
    <2> QED
      BY <2>1, <2>2, <2>3, FinalizerTouches DEF KeepStep
  <1> QED
    BY <1>1, <1>2 DEF ZoneBegin, StartStep

LEMMA Kinds ==
  ASSUME Inv, CMsHeld, [Next]_vars
  PROVE  KeepStep \/ StartStep \/ WriteStep
  <1> USE DEF clusterVars, apiVars, feedVars, cmVars, zoneCtlVars
  <1>1. CASE RecordCtl
    BY <1>1 DEF RecordCtl, RecordReconcile, RecordNotFound, RecordAddFinalizer,
                RecordDelete, RecordValidate, RecordRest, KeepStep
  <1>2. CASE ZoneCtl
    BY <1>2, BeginKinds, WorkerKinds DEF ZoneCtl
  <1>3. CASE Delay \/ Deliver
    BY <1>3 DEF Delay, DelayExpires, Deliver, DeliverRecord, DeliverZone, DeliverCM, KeepStep
  <1>4. CASE Environment
    <2>1. zw' = zw
      BY <1>4 DEF Environment, Tick
    <2>2. CASE \E n \in CMName : DeleteCM(n) \/ GarbageCollect(n)
      <3>1. CMTouched
        BY <2>2, DeletionTouches DEF DeleteCM, GarbageCollect, recordVars, zoneVars
      <3> QED
        BY <2>1, <3>1 DEF KeepStep
    <2>3. CASE UNCHANGED cms
      BY <2>1, <2>3 DEF KeepStep
    <2> QED
      BY <1>4, <2>2, <2>3 DEF Environment, UserStep, CreateRecord, EditRecord, DeleteRecord,
         CreateZone, EditZone, LabelZone, DeleteZone, ConnectorNotify, Tick
  <1>5. CASE Restart
    BY <1>5, IdleHoldsNoFile DEF Restart, KeepStep
  <1>6. CASE UNCHANGED vars
    BY <1>6 DEF vars, KeepStep
  <1> QED
    BY <1>1, <1>2, <1>3, <1>4, <1>5, <1>6 DEF Next, Operator

(* What a write of the worker does: it fails, or stores the worker's file. *)
Failed == zw' = Idle /\ UNCHANGED cms
Stores(n, obj) ==
  /\ obj \in CMObj /\ obj.file = zw.file /\ cms' = [cms EXCEPT ![n] = obj]
  /\ zw' # zw /\ zw'.key = zw.key /\ zw'.copy = zw.copy /\ zw'.file = zw.file

LEMMA WriteEffect ==
  ASSUME Inv, WriteStep
  PROVE  /\ Baking(zw) /\ UNCHANGED <<recs, zones, recCache, zoneCache>>
         /\ Failed \/ \E obj \in CMObj : Stores(CMOf(zw.key, zw.copy.spec), obj)
  <1> DEFINE n == CMOf(zw.key, zw.copy.spec)
             up == Upcoming(cms[n])
             new == [up EXCEPT !.deleting = FALSE]
  <1>1. zw \in Worker /\ cms[n] \in CMObj
    BY WorkerFields DEF Inv, WorkTypes, CMTypes
  <1>2. up \in CMObj /\ up.file = zw.file
    BY <1>1, UpcomingType DEF Upcoming
  <1> HIDE DEF up
  <1>3. new \in CMObj /\ new.file = zw.file
    BY <1>2 DEF CMObj
  <1> HIDE DEF new
  <1>4. /\ Stored(cms[n], up) \in CMObj /\ Stored(cms[n], up).file = zw.file
        /\ Stored(cms[n], new) \in CMObj /\ Stored(cms[n], new).file = zw.file
    BY <1>1, <1>2, <1>3, StoredCM
  <1>5. CASE ZoneCreateCM
    <2>1. Baking(zw) /\ UNCHANGED <<recs, zones, recCache, zoneCache>>
      BY <1>5 DEF ZoneCreateCM, At, Baking, ZoneRest, cacheVars, ApiRest, recordVars, zoneVars
    <2>2. CASE PutCM(n, new) /\ Succeed([zw EXCEPT !.pc = "update", !.cmrv = cms[n].rv + 1])
      <3>1. cms' = [cms EXCEPT ![n] = Stored(cms[n], new)]
        BY <2>2 DEF PutCM
      <3>2. zw.pc = "create"
        BY <1>5 DEF ZoneCreateCM, At
      <3>3. zw' # zw /\ zw'.key = zw.key /\ zw'.copy = zw.copy /\ zw'.file = zw.file
        BY <1>1, <2>2, <3>2 DEF Succeed, Worker
      <3> QED
        BY <1>4, <2>1, <3>1, <3>3 DEF Stores
    <2>3. CASE Fail /\ ApiRest
      BY <2>1, <2>3 DEF Fail, ApiRest, cmVars, Failed
    <2> QED
      BY <1>5, <2>2, <2>3 DEF ZoneCreateCM, new, up
  <1>6. CASE ZoneUpdateCM
    <2>1. Baking(zw) /\ UNCHANGED <<recs, zones, recCache, zoneCache>>
      BY <1>6 DEF ZoneUpdateCM, At, Baking, ZoneRest, cacheVars, ApiRest, recordVars, zoneVars
    <2>2. CASE PutCM(n, up) /\ Succeed([zw EXCEPT !.pc = "status", !.cmrv = 0])
      <3>1. cms' = [cms EXCEPT ![n] = Stored(cms[n], up)]
        BY <2>2 DEF PutCM
      <3>2. zw.pc = "update"
        BY <1>6 DEF ZoneUpdateCM, At
      <3>3. zw' # zw /\ zw'.key = zw.key /\ zw'.copy = zw.copy /\ zw'.file = zw.file
        BY <1>1, <2>2, <3>2 DEF Succeed, Worker
      <3> QED
        BY <1>4, <2>1, <3>1, <3>3 DEF Stores
    <2>3. CASE Fail /\ ApiRest
      BY <2>1, <2>3 DEF Fail, ApiRest, cmVars, Failed
    <2> QED
      BY <1>6, <2>2, <2>3 DEF ZoneUpdateCM, up
  <1> QED
    BY <1>5, <1>6 DEF WriteStep

=============================================================================
