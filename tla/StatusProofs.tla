---------------------------- MODULE StatusProofs ----------------------------
(***************************************************************************)
(* What the status of a zone says of its config map, for every value of    *)
(* the constants of ZonePublishing: StatusDescribesFile, as long as the    *)
(* connector does not write the status, and CheckpointHasFile, as long as  *)
(* nobody deletes a config map or creates a zone a second time.            *)
(***************************************************************************)
EXTENDS WatchProofs

-----------------------------------------------------------------------------
(* What a step does to one zone.                                           *)

(* The objects a and b differ in nothing but version, existence and        *)
(* finalizer.                                                              *)
SameZone(a, b) == /\ a.gen = b.gen /\ a.uid = b.uid /\ a.deleting = b.deleting
                  /\ a.spec = b.spec /\ a.status = b.status

LEMMA StoredZoneSame ==
  ASSUME NEW old \in ZoneObj, NEW new \in ZoneObj
  PROVE  SameZone(Stored(old, new), new)
  <1> DEFINE kept == [new EXCEPT !.exists = ~(new.deleting /\ ~new.fin)]
             same == [kept EXCEPT !.rv = old.rv]
             next == [kept EXCEPT !.rv = old.rv + 1]
  <1>1. kept \in ZoneObj /\ SameZone(kept, new)
    BY DEF ZoneObj, SameZone
  <1> HIDE DEF kept
  <1>2. SameZone(same, kept) /\ SameZone(next, kept)
    BY <1>1 DEF ZoneObj, SameZone
  <1>3. Stored(old, new) = IF same = old THEN old ELSE next
    BY DEF Stored, kept
  <1> HIDE DEF same, next
  <1> QED
    BY <1>1, <1>2, <1>3 DEF SameZone

(* A write of one zone leaves the others alone.                            *)
LEMMA ZonePut ==
  ASSUME Inv, NEW q \in Zone, NEW new \in ZoneObj, PutZone(q, new), NEW z \in Zone
  PROVE  zones'[z] = zones[z] \/ (z = q /\ SameZone(zones'[z], new))
  <1> DEFINE obj == Stored(zones[q], new)
  <1>1. zones \in [Zone -> ZoneObj]
    BY DEF Inv, ZoneTypes
  <1>2. SameZone(obj, new)
    BY <1>1, StoredZoneSame
  <1>3. zones' = [zones EXCEPT ![q] = obj]
    BY DEF PutZone
  <1> HIDE DEF obj
  <1> QED
    BY <1>1, <1>2, <1>3

(* The status the worker writes, and that of the connector.                *)
Invalidates(z, st) ==
  /\ At("invalid") /\ zw.key = z /\ Accepts(zw.copy, zones[z])
  /\ st = [zw.copy.status EXCEPT !.passed = FALSE, !.cond = "UpdateError", !.ogen = zw.copy.gen]
Publishes(z, st) ==
  /\ At("status") /\ zw.key = z /\ Accepts(zw.copy, zones[z])
  /\ st = [passed |-> TRUE, checkpoint |-> TRUE, serial |-> zw.serial,
           prefix |-> zw.copy.spec.prefix, cond |-> "Pending", ogen |-> zw.copy.gen]
Notifies(z, st) ==
  /\ "notify" \in UserOp /\ Accepts(zoneCache[z], zones[z])
  /\ zones[z].status.passed /\ st.passed /\ st.cond \in {"Active", "Pending"}
  /\ st.checkpoint = zones[z].status.checkpoint /\ st.prefix = zones[z].status.prefix

Recreated(new) == "createZone" \in UserOp /\ new.status.cond = "None" /\ new.status.ogen = 0
                  /\ new.gen = 1
Edited(z, new) == /\ new.status = zones[z].status
                  /\ \/ new.gen = zones[z].gen + 1
                     \/ /\ new.gen = zones[z].gen /\ new.spec = zones[z].spec
                        /\ new.deleting = zones[z].deleting
Reported(z, new) == /\ new.gen = zones[z].gen /\ new.spec = zones[z].spec
                    /\ new.deleting = zones[z].deleting
                    /\ \/ Invalidates(z, new.status)
                       \/ Publishes(z, new.status)
                       \/ Notifies(z, new.status)

Written(z, new) ==
  \/ ~zones[z].exists /\ Recreated(new)
  \/ /\ zones[z].exists /\ new.uid = zones[z].uid /\ (zones[z].deleting => new.deleting)
     /\ Edited(z, new) \/ Reported(z, new)

Changed(z, new) == new = zones[z] \/ Written(z, new)

(* What is written decides, not what the API server makes of it.           *)
LEMMA WrittenChanged ==
  ASSUME Inv, NEW q \in Zone, NEW new \in ZoneObj, PutZone(q, new), Written(q, new)
  PROVE  \A z \in Zone : Changed(z, zones'[z])
  <1> TAKE z \in Zone
  <1>1. CASE zones'[z] = zones[z]
    BY <1>1 DEF Changed
  <1>2. CASE z = q /\ SameZone(zones'[z], new)
    <2>1. PICK obj : obj = zones'[z]
      OBVIOUS
    <2>2. Written(z, obj)
      BY <1>2, <2>1 DEF Written, SameZone, Recreated, Edited, Reported
    <2> QED
      BY <2>1, <2>2 DEF Changed
  <1> QED
    BY <1>1, <1>2, ZonePut

(* Every step changes a zone in one of these ways.                         *)
LEMMA FinalizerWritten ==
  ASSUME Inv, NEW z \in Zone, NEW fin \in BOOLEAN,
         Accepts(zoneCache[z], zones[z]), PutZone(z, [zoneCache[z] EXCEPT !.fin = fin])
  PROVE  \A q \in Zone : Changed(q, zones'[q])
  <1>1. zones[z] \in ZoneObj /\ zoneCache[z] = zones[z] /\ zones[z].exists
    BY AcceptedZone DEF Inv, ZoneTypes, Accepts
  <1> DEFINE new == [zones[z] EXCEPT !.fin = fin]
  <1>2. new \in ZoneObj /\ SameZone(new, zones[z])
    BY <1>1 DEF ZoneObj, SameZone
  <1>3. PutZone(z, new)
    BY <1>1
  <1> HIDE DEF new
  <1>4. Written(z, new)
    BY <1>1, <1>2 DEF Written, SameZone, Edited
  <1> QED
    BY <1>2, <1>3, <1>4, WrittenChanged

LEMMA StatusWritten ==
  ASSUME Inv, NEW z \in Zone, NEW st \in ZoneStatus, zones[z].exists,
         Invalidates(z, st) \/ Publishes(z, st) \/ Notifies(z, st),
         PutZone(z, [zones[z] EXCEPT !.status = st])
  PROVE  \A q \in Zone : Changed(q, zones'[q])
  <1> DEFINE new == [zones[z] EXCEPT !.status = st]
  <1>1. zones[z] \in ZoneObj
    BY DEF Inv, ZoneTypes
  <1>2. /\ new \in ZoneObj /\ new.status = st /\ new.gen = zones[z].gen
        /\ new.spec = zones[z].spec /\ new.uid = zones[z].uid
        /\ new.deleting = zones[z].deleting
    BY <1>1 DEF ZoneObj
  <1> HIDE DEF new
  <1>3. Written(z, new)
    BY <1>2 DEF Written, Reported
  <1> QED
    BY <1>2, <1>3, WrittenChanged DEF new

LEMMA UserWritten ==
  ASSUME Inv, NEW z \in Zone, CreateZone(z) \/ EditZone(z) \/ DeleteZone(z)
  PROVE  \A q \in Zone : Changed(q, zones'[q])
  <1>1. zones[z] \in ZoneObj
    BY DEF Inv, ZoneTypes
  <1>2. CASE CreateZone(z)
    <2>1. PICK s \in ZoneSpec :
            PutZone(z, [NewZone(s) EXCEPT !.rv = zones[z].rv, !.uid = zones[z].rv + 1])
      BY <1>2 DEF CreateZone
    <2> DEFINE new == [NewZone(s) EXCEPT !.rv = zones[z].rv, !.uid = zones[z].rv + 1]
    <2>2. new \in ZoneObj
      BY <1>1, NewObjects, RecreatedZone DEF ZoneObj
    <2>3. new.status = NoZoneStatus(s) /\ new.gen = 1
      BY DEF NewZone
    <2>4. PutZone(z, new)
      BY <2>1
    <2>5. "createZone" \in UserOp /\ ~zones[z].exists
      BY <1>2 DEF CreateZone, User
    <2> HIDE DEF new
    <2>6. Written(z, new)
      BY <2>3, <2>5 DEF Written, Recreated, NoZoneStatus
    <2> QED
      BY <2>2, <2>4, <2>6, WrittenChanged
  <1>3. CASE EditZone(z)
    <2>1. PICK s \in ZoneSpec : PutZone(z, [zones[z] EXCEPT !.spec = s, !.gen = @ + 1])
      BY <1>3 DEF EditZone
    <2> DEFINE new == [zones[z] EXCEPT !.spec = s, !.gen = @ + 1]
    <2>2. new \in ZoneObj
      BY <1>1, EditedZone
    <2>3. /\ new.status = zones[z].status /\ new.gen = zones[z].gen + 1
          /\ new.uid = zones[z].uid /\ new.deleting = zones[z].deleting
      BY <1>1, Zenon DEF ZoneObj
    <2>4. PutZone(z, new) /\ zones[z].exists
      BY <1>3, <2>1 DEF EditZone
    <2> HIDE DEF new
    <2>5. Written(z, new)
      BY <2>3, <2>4 DEF Written, Edited
    <2> QED
      BY <2>2, <2>4, <2>5, WrittenChanged
  <1>4. CASE DeleteZone(z)
    <2> DEFINE new == DeletedCR(zones[z])
    <2>1. new \in ZoneObj
      BY <1>1, EditedZone
    <2>2. /\ new.status = zones[z].status /\ new.gen = zones[z].gen + 1
          /\ new.uid = zones[z].uid /\ new.deleting
      BY <1>1, Zenon DEF ZoneObj, DeletedCR
    <2>3. PutZone(z, new) /\ zones[z].exists
      BY <1>4 DEF DeleteZone
    <2> HIDE DEF new
    <2>4. Written(z, new)
      BY <2>2, <2>3 DEF Written, Edited
    <2> QED
      BY <2>1, <2>3, <2>4, WrittenChanged
  <1> QED
    BY <1>2, <1>3, <1>4

LEMMA LabelChanged ==
  ASSUME Inv, NEW z \in Zone, LabelZone(z)
  PROVE  \A q \in Zone : Changed(q, zones'[q])
  <1> TAKE q \in Zone
  <1>1. zones \in [Zone -> ZoneObj]
    BY DEF Inv, ZoneTypes
  <1> DEFINE new == [zones[z] EXCEPT !.rv = @ + 1]
  <1>2. zones' = [zones EXCEPT ![z] = new] /\ zones[z].exists
    BY <1>1 DEF LabelZone
  <1>3. SameZone(new, zones[z])
    BY <1>1 DEF ZoneObj, SameZone
  <1> HIDE DEF new
  <1>4. zones'[q] = zones[q] \/ (q = z /\ zones'[q] = new)
    BY <1>1, <1>2
  <1> QED
    BY <1>2, <1>3, <1>4 DEF Changed, Written, Edited, SameZone

LEMMA NotifyChanged ==
  ASSUME Inv, NEW z \in Zone, NEW c \in {"Active", "Pending"}, ConnectorNotify(z, c)
  PROVE  \A q \in Zone : Changed(q, zones'[q])
  <1> DEFINE st == [zones[z].status EXCEPT !.cond = c, !.ogen = zoneCache[z].gen]
             new == [zones[z] EXCEPT !.status.cond = c, !.status.ogen = zoneCache[z].gen]
  <1>1. zones[z] \in ZoneObj /\ zones[z].status \in ZoneStatus /\ zoneCache[z].gen \in Nat
    BY DEF Inv, ZoneTypes, ZoneObj
  <1>2. /\ st \in ZoneStatus /\ st.checkpoint = zones[z].status.checkpoint
        /\ st.prefix = zones[z].status.prefix /\ st.passed = zones[z].status.passed
        /\ st.cond \in {"Active", "Pending"}
    BY <1>1 DEF ZoneStatus, ZoneCond
  <1>3. new = [zones[z] EXCEPT !.status = st]
    BY <1>1 DEF ZoneObj, ZoneStatus
  <1>4. PutZone(z, new) /\ "notify" \in UserOp /\ Accepts(zoneCache[z], zones[z])
    BY DEF ConnectorNotify
  <1>5. zones[z].status.passed
    BY AcceptedZone DEF ConnectorNotify, Inv
  <1> HIDE DEF st, new
  <1> QED
    BY <1>2, <1>3, <1>4, <1>5, StatusWritten DEF Notifies, Accepts

LEMMA WorkerChanged ==
  ASSUME Inv, ZoneInvalid \/ ZonePublish \/ ZoneRemoveFinalizer
  PROVE  \A q \in Zone : Changed(q, zones'[q])
  <1>1. ASSUME UNCHANGED zones
        PROVE  \A q \in Zone : Changed(q, zones'[q])
    BY <1>1 DEF Changed
  <1>2. CASE ZoneInvalid
    <2> DEFINE st == [zw.copy.status EXCEPT !.passed = FALSE, !.cond = "UpdateError",
                                            !.ogen = zw.copy.gen]
    <2>1. st \in ZoneStatus
      BY WorkerFields DEF ZoneStatus, ZoneCond
    <2>2. \/ UNCHANGED zones
          \/ /\ Accepts(zw.copy, zones[zw.key])
             /\ PutZone(zw.key, [zones[zw.key] EXCEPT !.status = st])
      BY <1>2 DEF ZoneInvalid, WriteZoneStatus, ApiRest, zoneVars
    <2>3. At("invalid")
      BY <1>2 DEF ZoneInvalid
    <2> QED
      BY <1>1, <2>1, <2>2, <2>3, WorkerFields, StatusWritten DEF Invalidates, Accepts
  <1>3. CASE ZonePublish
    <2> DEFINE st == [passed |-> TRUE, checkpoint |-> TRUE, serial |-> zw.serial,
                      prefix |-> zw.copy.spec.prefix, cond |-> "Pending",
                      ogen |-> zw.copy.gen]
    <2>1. st \in ZoneStatus
      BY WorkerFields DEF ZoneStatus, ZoneCond
    <2>2. \/ UNCHANGED zones
          \/ /\ Accepts(zw.copy, zones[zw.key])
             /\ PutZone(zw.key, [zones[zw.key] EXCEPT !.status = st])
      BY <1>3 DEF ZonePublish, WriteZoneStatus, ApiRest, zoneVars
    <2>3. At("status")
      BY <1>3 DEF ZonePublish
    <2> QED
      BY <1>1, <2>1, <2>2, <2>3, WorkerFields, StatusWritten DEF Publishes, Accepts
  <1>4. CASE ZoneRemoveFinalizer
    <2>1. \/ UNCHANGED zones
          \/ /\ Accepts(zoneCache[zw.key], zones[zw.key])
             /\ PutZone(zw.key, [zoneCache[zw.key] EXCEPT !.fin = FALSE])
      BY <1>4 DEF ZoneRemoveFinalizer, ApiRest, zoneVars
    <2> QED
      BY <1>1, <2>1, WorkerFields, FinalizerWritten
  <1> QED
    BY <1>2, <1>3, <1>4

LEMMA ZoneChanges ==
  ASSUME Inv, [Next]_vars
  PROVE  \A z \in Zone : Changed(z, zones'[z])
  <1> USE DEF zoneVars, apiVars, clusterVars
  <1>1. ASSUME UNCHANGED zones
        PROVE  \A z \in Zone : Changed(z, zones'[z])
    BY <1>1 DEF Changed
  <1>2. CASE ZoneCtl
    <2>1. CASE \E z \in Zone : ZoneAddFinalizer(z)
      BY <2>1, FinalizerWritten DEF ZoneAddFinalizer
    <2>2. CASE ZoneInvalid \/ ZonePublish \/ ZoneRemoveFinalizer
      BY <2>2, WorkerChanged
    <2>3. CASE UNCHANGED zones
      BY <1>1, <2>3
    <2> QED
      BY <1>2, <2>1, <2>2, <2>3
      DEF ZoneCtl, ZoneBegin, ZoneNotFound, ZoneStartDelete, ZoneStartUpdate, ZoneWork, ZoneCreateCM,
          ZoneUpdateCM, ZoneAddCMFinalizer, ZoneJoin, ZoneUnjoin, NotifyRecord, ZoneFault, ApiRest
  <1>3. CASE Environment
    <2>1. CASE \E z \in Zone : LabelZone(z)
      BY <2>1, LabelChanged
    <2>2. CASE \E z \in Zone : CreateZone(z) \/ EditZone(z) \/ DeleteZone(z)
      BY <2>2, UserWritten
    <2>3. CASE \E z \in Zone, c \in {"Active", "Pending"} : ConnectorNotify(z, c)
      BY <2>3, NotifyChanged
    <2>4. CASE UNCHANGED zones
      BY <1>1, <2>4
    <2> QED
      BY <1>3, <2>1, <2>2, <2>3, <2>4 DEF Environment, UserStep, CreateRecord, EditRecord,
         DeleteRecord, DeleteCM, GarbageCollect, Tick
  <1>4. CASE RecordCtl \/ Delay \/ Deliver \/ Restart \/ UNCHANGED vars
    <2>1. UNCHANGED zones
      BY <1>4 DEF RecordCtl, RecordReconcile, RecordNotFound, RecordAddFinalizer, RecordDelete,
         RecordValidate, RecordRest, Delay, DelayExpires, Deliver, DeliverRecord, DeliverZone,
         DeliverCM, Restart, vars
    <2> QED
      BY <1>1, <2>1
  <1> QED
    BY <1>2, <1>3, <1>4 DEF Next, Operator

-----------------------------------------------------------------------------
(* What a step does to the worker's copy.                                  *)

(* It is dropped, taken from the cache, or goes on to the next write.      *)
HoldsCopy(w) == w.pc \in {"invalid", "create", "update", "status"}

Drops == zw'.copy = Idle.copy /\ ~HoldsCopy(zw')
Reads == /\ \E z \in Zone : /\ zw'.key = z /\ zw'.copy = zoneCache[z]
                            /\ zw'.file = BakedFile(z)
         /\ zw'.pc \in {"invalid", "create", "update"}
         /\ UNCHANGED <<zones, zoneFeed, zoneCache, cms>>
Proceeds == /\ zw'.key = zw.key /\ zw'.copy = zw.copy /\ zw'.file = zw.file
            /\ \/ At("create") /\ zw'.pc = "update"
               \/ /\ At("update") /\ zw'.pc = "status"
                  /\ ZoneUpdateCM /\ cms[CMOf(zw.key, zw.copy.spec)].exists
               \/ At("status") /\ zw'.pc = "cmfin"
WorkerMoves == zw' = zw \/ Drops \/ Reads \/ Proceeds

LEMMA IdleDrops == zw' = Idle => Drops
  BY DEF Drops, Idle, HoldsCopy

LEMMA LoopDrops ==
  ASSUME NEW pc \in {"join", "unjoin"}, NEW key, NEW todo, NEW after \in {"idle", "zonefin"},
         zw' = Loop(pc, key, todo, after)
  PROVE  Drops
  <1>1. /\ [Idle EXCEPT !.pc = pc, !.key = key, !.todo = todo].pc = pc
        /\ [Idle EXCEPT !.pc = pc, !.key = key, !.todo = todo].copy = Idle.copy
        /\ [Idle EXCEPT !.pc = "zonefin", !.key = key].pc = "zonefin"
        /\ [Idle EXCEPT !.pc = "zonefin", !.key = key].copy = Idle.copy
        /\ Idle.pc = "idle"
    BY DEF Idle
  <1> QED
    BY <1>1 DEF Loop, Drops, HoldsCopy

LEMMA WorkMoves ==
  ASSUME Inv, ZoneWork \/ ZoneFault
  PROVE  Drops \/ Proceeds
  <1>1. zw \in Worker
    BY DEF Inv, WorkTypes
  <1>2. zw' = Joining => Drops
    BY LoopDrops DEF Joining
  <1>3. Fail => Drops
    BY IdleDrops DEF Fail
  <1>4. CASE ZoneInvalid
    BY <1>2, <1>3, <1>4 DEF ZoneInvalid, WriteZoneStatus, Succeed
  <1>5. CASE ZoneCreateCM
    <2> DEFINE n == CMOf(zw.key, zw.copy.spec)
    <2>1. zw' = [zw EXCEPT !.pc = "update", !.cmrv = cms[n].rv + 1] \/ Fail
      BY <1>5 DEF ZoneCreateCM, Succeed
    <2>2. At("create")
      BY <1>5 DEF ZoneCreateCM
    <2> HIDE DEF n
    <2> QED
      BY <1>1, <1>3, <2>1, <2>2 DEF Worker, Proceeds
  <1>6. CASE ZoneUpdateCM
    <2> DEFINE n == CMOf(zw.key, zw.copy.spec)
    <2>1. (zw' = [zw EXCEPT !.pc = "status", !.cmrv = 0] /\ cms[n].exists) \/ Fail
      BY <1>6 DEF ZoneUpdateCM, Succeed
    <2>2. At("update")
      BY <1>6 DEF ZoneUpdateCM
    <2> QED
      BY <1>1, <1>3, <1>6, <2>1, <2>2 DEF Worker, Proceeds
  <1>7. CASE ZonePublish
    <2>1. zw' = [zw EXCEPT !.pc = "cmfin"] \/ Fail
      BY <1>7 DEF ZonePublish, WriteZoneStatus, Succeed
    <2>2. At("status")
      BY <1>7 DEF ZonePublish
    <2> QED
      BY <1>1, <1>3, <2>1, <2>2 DEF Worker, Proceeds
  <1>8. CASE ZoneAddCMFinalizer
    BY <1>2, <1>3, <1>8 DEF ZoneAddCMFinalizer, Succeed
  <1>9. CASE ZoneRemoveFinalizer \/ ZoneFault
    BY <1>3, <1>9, IdleDrops DEF ZoneRemoveFinalizer, ZoneFault, Succeed
  <1>10. CASE \E r \in Record : ZoneJoin(r) \/ ZoneUnjoin(r)
    BY <1>3, <1>10, LoopDrops DEF ZoneJoin, ZoneUnjoin, NotifyRecord, Succeed
  <1> QED
    BY <1>4, <1>5, <1>6, <1>7, <1>8, <1>9, <1>10 DEF ZoneWork

LEMMA BeginMoves ==
  ASSUME Inv, NEW z \in Zone, ZoneBegin(z)
  PROVE  zw' = zw \/ Drops \/ Reads
  <1>1. CASE ZoneNotFound(z) \/ ZoneAddFinalizer(z)
    BY <1>1 DEF ZoneNotFound, ZoneAddFinalizer
  <1>2. CASE ZoneStartDelete(z)
    <2>1. zw' = Loop("unjoin", z, GoodRecords(z), "zonefin")
      BY <1>2 DEF ZoneStartDelete
    <2> QED
      BY <2>1, LoopDrops
  <1>3. CASE ZoneStartUpdate(z)
    <2> DEFINE file == BakedFile(z)
               pc == IF ~ValidFile(file) THEN "invalid"
                     ELSE IF cmCache[CMOf(z, zoneCache[z].spec)].exists THEN "update" ELSE "create"
               start == [pc |-> pc, key |-> z, copy |-> zoneCache[z], file |-> file,
                         serial |-> clock, cmrv |-> 0, todo |-> GoodRecords(z)]
    <2>1. zw' = Loop("join", z, GoodRecords(z), "idle") \/ zw' = start
      BY <1>3, Zenon DEF ZoneStartUpdate
    <2>2. UNCHANGED <<zones, zoneFeed, zoneCache, cms>>
      BY <1>3 DEF ZoneStartUpdate, ApiRest, ZoneRest, zoneVars, cmVars, cacheVars
    <2>3. pc \in {"invalid", "create", "update"}
      OBVIOUS
    <2>4. /\ start.pc = pc /\ start.key = z /\ start.copy = zoneCache[z]
          /\ start.file = BakedFile(z)
      OBVIOUS
    <2> HIDE DEF pc, start
    <2> QED
      BY <2>1, <2>2, <2>3, <2>4, LoopDrops DEF Reads
  <1> QED
    BY <1>1, <1>2, <1>3 DEF ZoneBegin

LEMMA Moving ==
  ASSUME Inv, [Next]_vars
  PROVE  WorkerMoves
  <1>1. CASE ZoneCtl
    BY <1>1, BeginMoves, WorkMoves DEF ZoneCtl, WorkerMoves
  <1>2. CASE Restart
    BY <1>2, IdleDrops DEF Restart, WorkerMoves
  <1> USE DEF zoneCtlVars
  <1>3. CASE Environment
    BY <1>3 DEF Environment, Tick, WorkerMoves
  <1>4. CASE RecordCtl \/ Delay \/ Deliver \/ UNCHANGED vars
    BY <1>4 DEF RecordCtl, Delay, DelayExpires, Deliver, DeliverRecord, DeliverZone, DeliverCM,
                vars, WorkerMoves
  <1> QED
    BY <1>1, <1>2, <1>3, <1>4 DEF Next, Operator

(* What becomes of the file of a config map: it stays, unless the worker   *)
(* writes its own.                                                         *)
LEMMA FileChanges ==
  ASSUME Inv, CMsHeld, [Next]_vars, NEW n \in CMName
  PROVE  \/ cms'[n].exists => cms[n].exists /\ cms'[n].file = cms[n].file
         \/ /\ Baking(zw) /\ n = CMOf(zw.key, zw.copy.spec)
            /\ cms'[n].file = zw.file
  <1>1. cms \in [CMName -> CMObj]
    BY DEF Inv, CMTypes
  <1>2. CASE KeepStep \/ StartStep
    <2>1. UNCHANGED cms \/ CMTouched
      BY <1>2 DEF KeepStep, StartStep, ZoneStartUpdate, ApiRest, cmVars
    <2> QED
      BY <1>1, <2>1 DEF CMTouched
  <1>3. CASE WriteStep
    <2>1. /\ Baking(zw)
          /\ Failed \/ \E obj \in CMObj : Stores(CMOf(zw.key, zw.copy.spec), obj)
      BY <1>3, WriteEffect
    <2> QED
      BY <1>1, <2>1 DEF Failed, Stores
  <1> QED
    BY <1>2, <1>3, Kinds

(* The caches of the zones lag.                                            *)
ZonesLag == \A z \in Zone : Lags(zones[z], zoneFeed[z], zoneCache[z])

(* All that is left of the versions of a zone.                             *)
Versions(z) == zoneFeed[z] \cup {zoneCache[z], zones[z]}

LEMMA ZonesLagStep ==
  ASSUME Inv, ZonesLag, ZoneStep
  PROVE  /\ ZonesLag'
         /\ \A z \in Zone : /\ zoneCache[z].rv <= zoneCache'[z].rv
                            /\ zones'[z] = zones[z] \/ zones'[z].rv = zones[z].rv + 1
                            /\ Versions(z)' \subseteq Versions(z) \cup {zones'[z]}
  <1>0. ZoneTypes
    BY DEF Inv
  <1>1. ZoneTypes'
    BY <1>0, ZoneStepKeeps DEF Inv
  <1>2. \A v \in ZoneObj : v.rv \in Nat
    BY DEF ZoneObj
  <1> SUFFICES ASSUME NEW z \in Zone
               PROVE  /\ Lags(zones'[z], zoneFeed'[z], zoneCache'[z])
                      /\ zoneCache[z].rv <= zoneCache'[z].rv
                      /\ zones'[z] = zones[z] \/ zones'[z].rv = zones[z].rv + 1
                      /\ Versions(z)' \subseteq Versions(z) \cup {zones'[z]}
    BY DEF ZonesLag
  <1>3. /\ zones[z] \in ZoneObj /\ zones'[z] \in ZoneObj
        /\ zoneFeed[z] \in SUBSET ZoneObj /\ zoneFeed'[z] \in SUBSET ZoneObj
        /\ zoneCache[z] \in ZoneObj /\ zoneCache'[z] \in ZoneObj
    BY <1>0, <1>1 DEF ZoneTypes
  <1>4. Moves(zones[z], zones'[z], zoneFeed[z], zoneFeed'[z], zoneCache[z], zoneCache'[z])
    BY <1>0, ZoneMoves
  <1>5. /\ Lags(zones'[z], zoneFeed'[z], zoneCache'[z]) /\ zoneCache[z].rv <= zoneCache'[z].rv
        /\ zones'[z] = zones[z] \/ zones'[z].rv = zones[z].rv + 1
        /\ zoneFeed'[z] \cup {zoneCache'[z]}
             \subseteq zoneFeed[z] \cup {zoneCache[z], zones[z], zones'[z]}
    BY <1>2, <1>3, <1>4, MovesKeepLags DEF ZonesLag
  <1> QED
    BY <1>5 DEF Versions

-----------------------------------------------------------------------------
(* The status describes the file.                                          *)

(* A status vouches for the present spec of its zone.                      *)
Vouched(z) == LET st == zones[z].status
              IN  zones[z].exists /\ st.cond = "Pending" /\ st.ogen = zones[z].gen

(* No status is about a generation to come.                                *)
ReportsPast == \A z \in Zone : zones[z].status.ogen <= zones[z].gen

(* What is vouched for is what the caches, the worker and the file show.   *)
VouchedAlike ==
  \A z \in Zone : Vouched(z) =>
    /\ zones[z].status.prefix = zones[z].spec.prefix
    /\ \A v \in Versions(z) : v.spec = zones[z].spec
    /\ HoldsCopy(zw) /\ zw.key = z => zw.copy.spec = zones[z].spec
VouchedFile ==
  \A z \in Zone : Vouched(z) =>
    LET cm == cms[CMOf(z, zones[z].spec)]
    IN  cm.exists => cm.file.hdr = zones[z].spec.hdr

(* The worker's copy was read from the cache.                              *)
CopyHeld == HoldsCopy(zw) =>
              /\ zw.copy.rv <= zoneCache[zw.key].rv
              /\ zw.copy.rv <= zones[zw.key].rv
              /\ zw.copy.rv = zones[zw.key].rv => zw.copy = zones[zw.key]
FileOfCopy == zw.pc \in {"create", "update", "status"} => zw.file.hdr = zw.copy.spec.hdr

(* From the write of the file to that of the status it stays in place.     *)
FileInPlace == At("status") =>
                 LET cm == cms[CMOf(zw.key, zw.copy.spec)]
                 IN  cm.exists => cm.file = zw.file

WorkerTrue == CopyHeld /\ FileOfCopy /\ FileInPlace
StatusInv == /\ Inv /\ CMsHeld /\ ZonesLag /\ ReportsPast /\ VouchedAlike /\ VouchedFile
             /\ WorkerTrue

LEMMA CopyHeldStep ==
  ASSUME Inv, ZonesLag, CopyHeld, [Next]_vars
  PROVE  CopyHeld'
  <1>1. /\ zones \in [Zone -> ZoneObj] /\ zoneCache \in [Zone -> ZoneObj] /\ zw \in Worker
        /\ zw.key \in Zone /\ zw.copy \in ZoneObj
    BY WorkerFields DEF Inv, ZoneTypes, WorkTypes
  <1>2. Inv'
    BY NextInv
  <1>3. CASE zw'.copy = zw.copy /\ zw'.key = zw.key /\ (HoldsCopy(zw') => HoldsCopy(zw))
    <2>1. /\ zoneCache[zw.key].rv <= zoneCache'[zw.key].rv
          /\ zones'[zw.key] = zones[zw.key] \/ zones'[zw.key].rv = zones[zw.key].rv + 1
      BY <1>1, ZoneSteps, ZonesLagStep
    <2>2. /\ zw.copy.rv \in Nat /\ zones[zw.key].rv \in Nat
          /\ zoneCache[zw.key].rv \in Nat /\ zoneCache'[zw.key].rv \in Nat
      BY <1>1, <1>2 DEF ZoneObj, Inv, ZoneTypes
    <2> QED
      BY <1>3, <2>1, <2>2 DEF CopyHeld
  <1>4. CASE Drops
    BY <1>4 DEF Drops, CopyHeld
  <1>5. CASE Reads
    BY <1>1, <1>5 DEF Reads, CopyHeld, ZonesLag, Lags, ZoneObj
  <1> QED
    BY <1>3, <1>4, <1>5, Moving DEF WorkerMoves, Proceeds, HoldsCopy, At

LEMMA FileOfCopyStep ==
  ASSUME Inv, FileOfCopy, [Next]_vars
  PROVE  FileOfCopy'
  <1>1. CASE Reads
    BY <1>1 DEF Reads, BakedFile, FileOfCopy
  <1> QED
    BY <1>1, Moving DEF WorkerMoves, Drops, Proceeds, HoldsCopy, At, FileOfCopy

LEMMA FileInPlaceStep ==
  ASSUME Inv, CMsHeld, FileInPlace, [Next]_vars
  PROVE  FileInPlace'
  <1> SUFFICES ASSUME zw'.pc = "status", cms'[CMOf(zw'.key, zw'.copy.spec)].exists
               PROVE  cms'[CMOf(zw'.key, zw'.copy.spec)].file = zw'.file
    BY DEF FileInPlace, At
  <1> DEFINE n == CMOf(zw.key, zw.copy.spec)
  <1>1. n \in CMName
    BY WorkerFields DEF CMOf, CMName
  <1>2. CASE zw' = zw
    BY <1>1, <1>2, FileChanges DEF FileInPlace, At, Baking
  <1>3. CASE Proceeds
    <2>1. ZoneUpdateCM
      BY <1>3 DEF Proceeds
    <2>2. Failed \/ \E obj \in CMObj : Stores(n, obj)
      BY <2>1, WriteEffect DEF WriteStep
    <2>3. ~Failed
      BY DEF Failed, Idle
    <2>4. cms \in [CMName -> CMObj]
      BY DEF Inv, CMTypes
    <2> QED
      BY <1>1, <2>2, <2>3, <2>4 DEF Stores
  <1> QED
    BY <1>2, <1>3, Moving DEF WorkerMoves, Drops, Reads, HoldsCopy

(* A status that is accepted was written from the stored zone, and no      *)
(* cache shows another.                                                    *)
LEMMA AcceptedCopy ==
  ASSUME Inv, ZonesLag, CopyHeld, HoldsCopy(zw), Accepts(zw.copy, zones[zw.key])
  PROVE  zw.copy = zones[zw.key] /\ \A v \in Versions(zw.key) : v = zones[zw.key]
  <1>1. /\ zw.key \in Zone /\ zones[zw.key] \in ZoneObj /\ zoneCache[zw.key] \in ZoneObj
        /\ zoneFeed[zw.key] \subseteq ZoneObj
    BY WorkerFields DEF Inv, ZoneTypes
  <1>2. \A v \in ZoneObj : v.rv \in Nat
    BY DEF ZoneObj
  <1>3. zw.copy = zones[zw.key] /\ zones[zw.key].rv <= zoneCache[zw.key].rv
    BY DEF CopyHeld, Accepts
  <1>4. \A v \in zoneFeed[zw.key] : zones[zw.key].rv <= v.rv
    BY <1>1, <1>2, <1>3 DEF ZonesLag, Lags
  <1> QED
    BY <1>1, <1>2, <1>3, <1>4 DEF ZonesLag, Lags, Versions

(* Where a vouched status comes from, if the connector writes none.        *)
LEMMA VouchedSource ==
  ASSUME "notify" \notin UserOp, Inv, ZonesLag, ReportsPast, CopyHeld, [Next]_vars,
         NEW z \in Zone
  PROVE  /\ zones'[z].status.ogen <= zones'[z].gen
         /\ Vouched(z)' =>
              /\ zones'[z].spec = zones[z].spec
              /\ \/ Vouched(z) /\ zones'[z].status = zones[z].status
                 \/ Publishes(z, zones'[z].status) /\ zw.copy = zones[z]
  <1>1. zones[z] \in ZoneObj /\ zones[z].gen \in Nat /\ zones[z].status.ogen \in Nat
    BY DEF Inv, ZoneTypes, ZoneObj, ZoneStatus
  <1>2. zones[z].status.ogen <= zones[z].gen
    BY DEF ReportsPast
  <1>3. PICK new : new = zones'[z]
    OBVIOUS
  <1>4. Changed(z, new)
    BY <1>3, ZoneChanges
  <1>5. CASE new = zones[z]
    BY <1>2, <1>3, <1>5 DEF Vouched
  <1>6. CASE Recreated(new)
    BY <1>3, <1>6 DEF Recreated, Vouched
  <1>7. CASE zones[z].exists /\ Edited(z, new)
    BY <1>1, <1>2, <1>3, <1>7 DEF Edited, Vouched
  <1>8. CASE Reported(z, new)
    <2>1. CASE Invalidates(z, new.status)
      <3>1. zw.copy = zones[z]
        BY <2>1, AcceptedCopy DEF Invalidates, At, HoldsCopy
      <3>2. zw.copy.status \in ZoneStatus
        BY WorkerFields
      <3>3. new.status.cond = "UpdateError" /\ new.status.ogen = zones[z].gen
        BY <2>1, <3>1, <3>2 DEF Invalidates, ZoneStatus
      <3> QED
        BY <1>1, <1>3, <1>8, <3>3 DEF Vouched, Reported
    <2>2. CASE Publishes(z, new.status)
      <3>1. zw.copy = zones[z]
        BY <2>2, AcceptedCopy DEF Publishes, At, HoldsCopy
      <3>2. new.status.ogen = zones[z].gen
        BY <2>2, <3>1 DEF Publishes
      <3> QED
        BY <1>1, <1>3, <1>8, <2>2, <3>1, <3>2 DEF Reported
    <2> QED
      BY <1>8, <2>1, <2>2 DEF Reported, Notifies
  <1> QED
    BY <1>4, <1>5, <1>6, <1>7, <1>8 DEF Changed, Written

LEMMA VouchedAlikeStep ==
  ASSUME "notify" \notin UserOp, StatusInv, [Next]_vars
  PROVE  VouchedAlike'
  <1> USE DEF StatusInv, WorkerTrue
  <1> SUFFICES ASSUME NEW z \in Zone, Vouched(z)'
               PROVE  /\ zones'[z].status.prefix = zones'[z].spec.prefix
                      /\ \A v \in Versions(z)' : v.spec = zones'[z].spec
                      /\ HoldsCopy(zw') /\ zw'.key = z => zw'.copy.spec = zones'[z].spec
    BY DEF VouchedAlike
  <1>1. /\ zones'[z].spec = zones[z].spec
        /\ \/ Vouched(z) /\ zones'[z].status = zones[z].status
           \/ Publishes(z, zones'[z].status) /\ zw.copy = zones[z]
    BY VouchedSource
  <1>2. /\ zones'[z].status.prefix = zones[z].spec.prefix
        /\ \A v \in Versions(z) : v.spec = zones[z].spec
        /\ HoldsCopy(zw) /\ zw.key = z => zw.copy.spec = zones[z].spec
    <2>1. CASE Vouched(z) /\ zones'[z].status = zones[z].status
      BY <2>1 DEF VouchedAlike
    <2>2. CASE Publishes(z, zones'[z].status) /\ zw.copy = zones[z]
      <3>1. HoldsCopy(zw) /\ zw.key = z /\ Accepts(zw.copy, zones[z])
        BY <2>2 DEF Publishes, At, HoldsCopy
      <3>2. zones'[z].status.prefix = zw.copy.spec.prefix
        BY <2>2 DEF Publishes
      <3> QED
        BY <2>2, <3>1, <3>2, AcceptedCopy
    <2> QED
      BY <1>1, <2>1, <2>2
  <1>3. Versions(z)' \subseteq Versions(z) \cup {zones'[z]}
    BY ZoneSteps, ZonesLagStep
  <1>4. HoldsCopy(zw') /\ zw'.key = z => zw'.copy.spec = zones[z].spec
    <2>1. zoneCache[z].spec = zones[z].spec
      BY <1>2 DEF Versions
    <2> QED
      BY <1>2, <2>1, Moving DEF WorkerMoves, Drops, Reads, Proceeds, At, HoldsCopy
  <1> QED
    BY <1>1, <1>2, <1>3, <1>4

LEMMA VouchedFileStep ==
  ASSUME "notify" \notin UserOp, StatusInv, [Next]_vars
  PROVE  VouchedFile'
  <1> USE DEF StatusInv, WorkerTrue
  <1> SUFFICES ASSUME NEW z \in Zone, Vouched(z)', cms'[CMOf(z, zones'[z].spec)].exists
               PROVE  cms'[CMOf(z, zones'[z].spec)].file.hdr = zones'[z].spec.hdr
    BY DEF VouchedFile
  <1> DEFINE n == CMOf(z, zones[z].spec)
  <1>1. /\ zones'[z].spec = zones[z].spec
        /\ \/ Vouched(z) /\ zones'[z].status = zones[z].status
           \/ Publishes(z, zones'[z].status) /\ zw.copy = zones[z]
    BY VouchedSource
  <1>2. n \in CMName
    BY DEF CMOf, CMName, Inv, ZoneTypes, ZoneObj, ZoneSpec
  <1>3. cms'[n].exists
    BY <1>1
  <1>4. cms[n].exists => cms[n].file.hdr = zones[z].spec.hdr
    <2>1. CASE Vouched(z)
      BY <2>1 DEF VouchedFile
    <2>2. CASE Publishes(z, zones'[z].status) /\ zw.copy = zones[z]
      BY <2>2 DEF Publishes, FileInPlace, FileOfCopy, At
    <2> QED
      BY <1>1, <2>1, <2>2
  <1>5. CASE cms[n].exists /\ cms'[n].file = cms[n].file
    BY <1>1, <1>4, <1>5
  <1>6. CASE Baking(zw) /\ n = CMOf(zw.key, zw.copy.spec) /\ cms'[n].file = zw.file
    <2>1. zw.key = z /\ HoldsCopy(zw) /\ ~At("status")
      BY <1>6 DEF CMOf, Baking, HoldsCopy, At
    <2>2. Vouched(z)
      BY <1>1, <2>1 DEF Publishes
    <2>3. zw.copy.spec = zones[z].spec
      BY <2>1, <2>2 DEF VouchedAlike
    <2>4. zw.file.hdr = zw.copy.spec.hdr
      BY <1>6 DEF FileOfCopy, Baking
    <2> QED
      BY <1>1, <1>6, <2>3, <2>4
  <1> QED
    BY <1>2, <1>3, <1>5, <1>6, FileChanges

(* The caches start out full.                                              *)
LEMMA InitLags == Init => CMsHeld /\ ZonesLag
  <1> SUFFICES ASSUME Init PROVE CMsHeld /\ ZonesLag
    OBVIOUS
  <1>1. ZoneTypes /\ CMTypes
    BY InitInv DEF Inv
  <1>2. /\ \A n \in CMName : cmFeed[n] = {} /\ cmCache[n] = cms[n] /\ cms[n].rv \in Nat
        /\ \A z \in Zone : zoneFeed[z] = {} /\ zoneCache[z] = zones[z] /\ zones[z].rv \in Nat
    BY <1>1 DEF Init, ZoneTypes, ZoneObj, CMTypes, CMObj
  <1> QED
    BY <1>2 DEF CMsHeld, ZonesLag, Lags

LEMMA InitStatus == Init => StatusInv
  <1> SUFFICES ASSUME Init PROVE StatusInv
    OBVIOUS
  <1>1. PICK s \in [Zone -> InitZoneSpec] : zones = [z \in Zone |-> NewZone(s[z])]
    BY DEF Init
  <1>2. \A z \in Zone : /\ zones[z].status.cond = "None" /\ zones[z].status.ogen = 0
                        /\ zones[z].gen = 1
    BY <1>1 DEF NewZone, NoZoneStatus
  <1>3. zw.pc = "idle"
    BY DEF Init, Idle
  <1>4. ReportsPast /\ VouchedAlike /\ VouchedFile
    BY <1>2 DEF ReportsPast, VouchedAlike, VouchedFile, Vouched
  <1> QED
    BY <1>3, <1>4, InitInv, InitLags
    DEF StatusInv, WorkerTrue, CopyHeld, FileOfCopy, FileInPlace, HoldsCopy, At

(* ZonePublish and the steps before it: a status that reports a zone as    *)
(* built from its present spec tells the truth about the config map it     *)
(* names, for any lag, conflict, failed call and restart.                  *)
THEOREM StatusTrue ==
  ASSUME "notify" \notin UserOp
  PROVE  Spec => []StatusDescribesFile
  <1>1. StatusInv /\ [Next]_vars => StatusInv'
    <2> SUFFICES ASSUME StatusInv, [Next]_vars PROVE StatusInv'
      OBVIOUS
    <2>1. Inv' /\ CMsHeld' /\ ZonesLag'
      BY NextInv, CMSteps, CMsStepKeeps, ZoneSteps, ZonesLagStep DEF StatusInv
    <2>2. ReportsPast'
      BY VouchedSource DEF StatusInv, WorkerTrue, ReportsPast
    <2>3. VouchedAlike' /\ VouchedFile'
      BY VouchedAlikeStep, VouchedFileStep
    <2>4. WorkerTrue'
      BY CopyHeldStep, FileOfCopyStep, FileInPlaceStep DEF StatusInv, WorkerTrue
    <2> QED
      BY <2>1, <2>2, <2>3, <2>4 DEF StatusInv
  <1>2. StatusInv => StatusDescribesFile
    BY DEF StatusInv, StatusDescribesFile, VouchedAlike, VouchedFile, Vouched, CMOf
  <1> QED
    BY <1>1, <1>2, InitStatus, PTL DEF Spec

-----------------------------------------------------------------------------
(* A checkpoint has its file.                                              *)

Living(z) == zones[z].exists /\ ~zones[z].deleting

(* No zone has been created a second time.                                 *)
OneIncarnation == /\ \A z \in Zone : \A v \in Versions(z) : v.uid = 1
                  /\ zw.copy.uid = 1

(* The garbage collector has no reason to delete what a living zone owns.  *)
LivingCMsOwned ==
  \A n \in CMName :
    Living(n[2]) /\ cms[n].exists => cms[n].owner = 1 /\ ~cms[n].deleting

(* Not only the stored status: the worker writes "checkpoint" back from    *)
(* its copy.                                                               *)
HasFile(z, status) == status.checkpoint => cms[<<status.prefix, z>>].exists
CheckpointsHaveFile ==
  \A z \in Zone : Living(z) => \A v \in Versions(z) : HasFile(z, v.status)
WorkerHasFile ==
  Living(zw.key) => /\ HasFile(zw.key, zw.copy.status)
                    /\ At("status") => cms[CMOf(zw.key, zw.copy.spec)].exists

CheckpointInv == /\ Inv /\ CMsHeld /\ ZonesLag
                 /\ OneIncarnation /\ LivingCMsOwned /\ CheckpointsHaveFile /\ WorkerHasFile

(* A config map a living zone owns, as written.                            *)
SameCM(a, b) == /\ a.exists = b.exists /\ a.owner = b.owner /\ a.deleting = b.deleting

LEMMA StoredCMSame ==
  ASSUME NEW old \in CMObj, NEW new \in CMObj, new.exists, ~new.deleting
  PROVE  SameCM(Stored(old, new), new)
  <1> DEFINE kept == [new EXCEPT !.exists = ~(new.deleting /\ ~new.fin)]
             same == [kept EXCEPT !.rv = old.rv]
             next == [kept EXCEPT !.rv = old.rv + 1]
  <1>1. kept \in CMObj /\ SameCM(kept, new)
    BY DEF CMObj, SameCM
  <1> HIDE DEF kept
  <1>2. SameCM(same, kept) /\ SameCM(next, kept)
    BY <1>1 DEF CMObj, SameCM
  <1>3. Stored(old, new) = IF same = old THEN old ELSE next
    BY DEF Stored, kept
  <1> HIDE DEF same, next
  <1> QED
    BY <1>1, <1>2, <1>3 DEF SameCM

(* A config map that is there and kept, or may yet be created.             *)
Owned(cm) == cm.exists => cm.owner = 1 /\ ~cm.deleting
StaysOwned(n) == (cms[n].exists => cms'[n].exists) /\ Owned(cms'[n])

LEMMA OwnedPut ==
  ASSUME Inv, NEW q \in CMName, NEW new \in CMObj, PutCM(q, new),
         NEW n \in CMName, Owned(cms[n]),
         n = q => new.exists /\ ~new.deleting /\ new.owner = 1
  PROVE  StaysOwned(n)
  <1> DEFINE obj == Stored(cms[q], new)
  <1>1. cms \in [CMName -> CMObj]
    BY DEF Inv, CMTypes
  <1>2. n = q => SameCM(obj, new)
    BY <1>1, StoredCMSame
  <1>3. cms' = [cms EXCEPT ![q] = obj]
    BY DEF PutCM
  <1> HIDE DEF obj
  <1> QED
    BY <1>1, <1>2, <1>3 DEF SameCM, Owned, StaysOwned

LEMMA OwnedFinalizer ==
  ASSUME Inv, CMsHeld, NEW q \in CMName, NEW fin \in BOOLEAN,
         Accepts(cmCache[q], cms[q]), PutCM(q, [cmCache[q] EXCEPT !.fin = fin]),
         NEW n \in CMName, Owned(cms[n])
  PROVE  StaysOwned(n)
  <1> DEFINE new == [cms[q] EXCEPT !.fin = fin]
  <1>1. cms[q] \in CMObj /\ cmCache[q] = cms[q] /\ cms[q].exists
    BY DEF Inv, CMTypes, CMsHeld, Lags, Accepts
  <1>2. new \in CMObj /\ SameCM(new, cms[q])
    BY <1>1 DEF CMObj, SameCM
  <1>3. PutCM(q, new)
    BY <1>1
  <1> HIDE DEF new
  <1>4. n = q => new.exists /\ ~new.deleting /\ new.owner = 1
    BY <1>1, <1>2 DEF SameCM, Owned
  <1> QED
    BY <1>2, <1>3, <1>4, OwnedPut

LEMMA OwnedWrite ==
  ASSUME Inv, OneIncarnation, WriteStep, NEW n \in CMName, Owned(cms[n])
  PROVE  StaysOwned(n)
  <1> DEFINE q == CMOf(zw.key, zw.copy.spec)
             up == Upcoming(cms[q])
             new == [up EXCEPT !.deleting = FALSE]
  <1>1. q \in CMName /\ cms[q] \in CMObj
    BY WorkerFields DEF CMOf, CMName, Inv, CMTypes
  <1>2. /\ up \in CMObj /\ up.exists /\ up.owner = 1 /\ up.deleting = cms[q].deleting
    BY <1>1, UpcomingType DEF Upcoming, OneIncarnation
  <1> HIDE DEF up
  <1>3. new \in CMObj /\ new.exists /\ ~new.deleting /\ new.owner = 1
    BY <1>2 DEF CMObj
  <1> HIDE DEF new
  <1>4. \/ UNCHANGED cms
        \/ PutCM(q, new)
        \/ PutCM(q, up) /\ cms[q].exists
    BY DEF WriteStep, ZoneCreateCM, ZoneUpdateCM, ApiRest, cmVars, new, up
  <1>5. cms[q].exists /\ n = q => ~up.deleting
    BY <1>2 DEF Owned
  <1> HIDE DEF q
  <1>6. UNCHANGED cms => StaysOwned(n)
    BY DEF StaysOwned
  <1>7. PutCM(q, new) => StaysOwned(n)
    BY <1>1, <1>3, OwnedPut
  <1>8. PutCM(q, up) /\ cms[q].exists => StaysOwned(n)
    BY <1>1, <1>2, <1>5, OwnedPut
  <1> QED
    BY <1>4, <1>6, <1>7, <1>8

(* No step takes the config map of a living zone away.                     *)
LEMMA OwnedStays ==
  ASSUME "deleteCM" \notin UserOp, Inv, CMsHeld, OneIncarnation, LivingCMsOwned, [Next]_vars,
         NEW n \in CMName, Living(n[2])
  PROVE  StaysOwned(n)
  <1> USE DEF clusterVars, apiVars, cmVars
  <1>1. Owned(cms[n])
    BY DEF LivingCMsOwned, Owned
  <1>2. ASSUME UNCHANGED cms PROVE StaysOwned(n)
    BY <1>1, <1>2 DEF StaysOwned
  <1>3. CASE ZoneCtl
    <2>1. CASE WriteStep
      BY <1>1, <2>1, OwnedWrite
    <2>2. CASE ZoneAddCMFinalizer
      <3> DEFINE q == CMOf(zw.key, zw.copy.spec)
      <3>1. q \in CMName
        BY WorkerFields DEF CMOf, CMName
      <3>2. \/ UNCHANGED cms
            \/ Accepts(cmCache[q], cms[q]) /\ PutCM(q, [cmCache[q] EXCEPT !.fin = TRUE])
        BY <2>2 DEF ZoneAddCMFinalizer, ApiRest
      <3> HIDE DEF q
      <3> QED
        BY <1>1, <1>2, <3>1, <3>2, OwnedFinalizer
    <2>3. ASSUME NEW z \in Zone, ZoneStartDelete(z) PROVE StaysOwned(n)
      <3> DEFINE q == CMOf(z, zoneCache[z].spec)
      <3>1. q \in CMName
        BY DEF CMOf, CMName, Inv, ZoneTypes, ZoneObj, ZoneSpec
      <3>2. \/ UNCHANGED cms
            \/ Accepts(cmCache[q], cms[q]) /\ PutCM(q, [cmCache[q] EXCEPT !.fin = FALSE])
        BY <2>3 DEF ZoneStartDelete
      <3> HIDE DEF q
      <3> QED
        BY <1>1, <1>2, <3>1, <3>2, OwnedFinalizer
    <2>4. CASE UNCHANGED cms
      BY <1>2, <2>4
    <2> QED
      BY <1>3, <2>1, <2>2, <2>3, <2>4
      DEF ZoneCtl, ZoneBegin, ZoneNotFound, ZoneAddFinalizer, ZoneStartUpdate, ZoneWork, WriteStep,
          ZoneInvalid, ZonePublish, WriteZoneStatus, ZoneRemoveFinalizer, ZoneJoin, ZoneUnjoin,
          NotifyRecord, ZoneFault, ApiRest
  <1>4. CASE Environment
    <2>1. ASSUME NEW q \in CMName, GarbageCollect(q) PROVE StaysOwned(n)
      <3>1. cms[q] \in CMObj /\ Deleted(cms[q]) \in CMObj
        BY DEF Inv, CMTypes, CMObj, Deleted
      <3>2. zones[n[2]].exists /\ zones[n[2]].uid = 1
        <4>1. n[2] \in Zone
          BY DEF CMName
        <4> QED
          BY <4>1 DEF Living, OneIncarnation, Versions
      <3>3. n # q /\ PutCM(q, Deleted(cms[q]))
        BY <1>1, <2>1, <3>2 DEF GarbageCollect, Owned
      <3> QED
        BY <1>1, <3>1, <3>3, OwnedPut
    <2>2. CASE UNCHANGED cms
      BY <1>2, <2>2
    <2> QED
      BY <1>4, <2>1, <2>2 DEF Environment, UserStep, CreateRecord, EditRecord, DeleteRecord,
         CreateZone, EditZone, LabelZone, DeleteZone, DeleteCM, User, ConnectorNotify, Tick
  <1>5. CASE RecordCtl \/ Delay \/ Deliver \/ Restart \/ UNCHANGED vars
    <2>1. UNCHANGED cms
      BY <1>5 DEF RecordCtl, RecordReconcile, RecordNotFound, RecordAddFinalizer, RecordDelete,
         RecordValidate, RecordRest, Delay, DelayExpires, Deliver, DeliverRecord, DeliverZone,
         DeliverCM, Restart, vars
    <2> QED
      BY <1>2, <2>1
  <1> QED
    BY <1>3, <1>4, <1>5 DEF Next, Operator

LEMMA LivingStays ==
  ASSUME "createZone" \notin UserOp, Inv, [Next]_vars, NEW z \in Zone
  PROVE  (Living(z)' => Living(z)) /\ zones'[z].uid = zones[z].uid
  BY ZoneChanges DEF Changed, Written, Recreated, Living

LEMMA OneIncarnationStep ==
  ASSUME "createZone" \notin UserOp, Inv, ZonesLag, OneIncarnation, [Next]_vars
  PROVE  OneIncarnation'
  <1>1. ASSUME NEW z \in Zone, NEW v \in Versions(z)' PROVE v.uid = 1
    <2>1. v \in Versions(z) \cup {zones'[z]}
      BY <1>1, ZoneSteps, ZonesLagStep
    <2>2. zones'[z].uid = zones[z].uid
      BY LivingStays
    <2> QED
      BY <2>1, <2>2 DEF OneIncarnation, Versions
  <1>2. Idle.copy.uid = 1
    BY DEF Idle, NewZone
  <1>3. zw'.copy.uid = 1
    BY <1>2, Moving DEF WorkerMoves, Drops, Reads, Proceeds, OneIncarnation, Versions
  <1> QED
    BY <1>1, <1>3 DEF OneIncarnation

(* Living and HasFile after the step, for a zone and a status that do not  *)
(* change in it.                                                           *)
WillLive(z) == zones'[z].exists /\ ~zones'[z].deleting
WillHaveFile(z, status) == status.checkpoint => cms'[<<status.prefix, z>>].exists

LEMMA FileRemains ==
  ASSUME "deleteCM" \notin UserOp, CheckpointInv, [Next]_vars,
         NEW z \in Zone, Living(z), NEW status \in ZoneStatus, HasFile(z, status)
  PROVE  WillHaveFile(z, status)
  <1> DEFINE n == <<status.prefix, z>>
  <1>1. n \in CMName /\ n[2] = z
    BY DEF CMName, ZoneStatus
  <1>2. cms[n].exists => cms'[n].exists
    BY <1>1, OwnedStays DEF StaysOwned, CheckpointInv
  <1> QED
    BY <1>2 DEF HasFile, WillHaveFile

LEMMA CheckpointsStep ==
  ASSUME "deleteCM" \notin UserOp, "createZone" \notin UserOp, CheckpointInv, [Next]_vars
  PROVE  CheckpointsHaveFile'
  <1> USE DEF CheckpointInv
  <1> SUFFICES ASSUME NEW z \in Zone, Living(z)', NEW v \in Versions(z)'
               PROVE  WillHaveFile(z, v.status)
    BY DEF CheckpointsHaveFile, HasFile, WillHaveFile
  <1>1. Living(z)
    BY LivingStays
  <1>2. ZoneTypes /\ ZoneTypes'
    BY NextInv DEF Inv
  <1>3. v.status \in ZoneStatus
    BY <1>2 DEF Versions, ZoneTypes, ZoneObj
  <1>4. CASE v \in Versions(z)
    BY <1>1, <1>3, <1>4, FileRemains DEF CheckpointsHaveFile
  <1>5. CASE v = zones'[z] /\ v # zones[z]
    <2>1. Changed(z, v)
      BY <1>5, ZoneChanges
    <2>2. HasFile(z, zones[z].status)
      BY <1>1 DEF CheckpointsHaveFile, Versions
    <2>3. CASE v.status = zones[z].status
      BY <1>1, <1>3, <2>2, <2>3, FileRemains
    <2>4. CASE Invalidates(z, v.status)
      <3>1. zw.copy.status \in ZoneStatus
        BY WorkerFields
      <3>2. /\ v.status.checkpoint = zw.copy.status.checkpoint
            /\ v.status.prefix = zw.copy.status.prefix
        BY <2>4, <3>1 DEF Invalidates, ZoneStatus
      <3>3. HasFile(z, v.status)
        BY <1>1, <2>4, <3>2 DEF Invalidates, WorkerHasFile, HasFile
      <3> QED
        BY <1>1, <1>3, <3>3, FileRemains
    <2>5. CASE Publishes(z, v.status)
      <3>1. HasFile(z, v.status)
        BY <1>1, <2>5 DEF Publishes, WorkerHasFile, HasFile, CMOf
      <3> QED
        BY <1>1, <1>3, <3>1, FileRemains
    <2>6. CASE Notifies(z, v.status)
      <3>1. HasFile(z, v.status)
        BY <2>2, <2>6 DEF Notifies, HasFile
      <3> QED
        BY <1>1, <1>3, <3>1, FileRemains
    <2> QED
      BY <1>5, <2>1, <2>3, <2>4, <2>5, <2>6
      DEF Changed, Written, Recreated, Edited, Reported
  <1>6. v \in Versions(z) \cup {zones'[z]} /\ zones[z] \in Versions(z)
    BY ZoneSteps, ZonesLagStep DEF Versions
  <1> QED
    BY <1>4, <1>5, <1>6

LEMMA WorkerHasFileStep ==
  ASSUME "deleteCM" \notin UserOp, "createZone" \notin UserOp, CheckpointInv, [Next]_vars
  PROVE  WorkerHasFile'
  <1> USE DEF CheckpointInv
  <1> SUFFICES ASSUME WillLive(zw'.key)
               PROVE  /\ WillHaveFile(zw'.key, zw'.copy.status)
                      /\ zw'.pc = "status" => cms'[CMOf(zw'.key, zw'.copy.spec)].exists
    BY DEF WorkerHasFile, HasFile, WillHaveFile, WillLive, Living, At
  <1> DEFINE n == CMOf(zw.key, zw.copy.spec)
  <1>1. /\ zw.key \in Zone /\ zw.copy.status \in ZoneStatus /\ n \in CMName /\ n[2] = zw.key
    BY WorkerFields DEF CMOf, CMName
  <1>2. WillLive(zw.key) => Living(zw.key)
    BY <1>1, LivingStays DEF WillLive, Living
  <1>3. Living(zw.key) => WillHaveFile(zw.key, zw.copy.status)
    BY <1>1, FileRemains DEF WorkerHasFile
  <1>4. Living(zw.key) /\ cms[n].exists => cms'[n].exists
    BY <1>1, OwnedStays DEF StaysOwned
  <1>5. CASE zw' = zw
    BY <1>2, <1>3, <1>4, <1>5 DEF WorkerHasFile, At
  <1>6. CASE Drops
    BY <1>6 DEF Drops, HoldsCopy, Idle, NewZone, NoZoneStatus, WillHaveFile
  <1>7. CASE Reads
    <2>1. PICK z \in Zone : zw'.key = z /\ zw'.copy = zoneCache[z]
      BY <1>7 DEF Reads
    <2>2. HasFile(z, zoneCache[z].status)
      BY <1>7, <2>1 DEF Reads, WillLive, Living, CheckpointsHaveFile, Versions
    <2> QED
      BY <1>7, <2>1, <2>2 DEF Reads, HasFile, WillHaveFile
  <1>8. CASE Proceeds
    BY <1>2, <1>3, <1>4, <1>8 DEF Proceeds, At
  <1> QED
    BY <1>5, <1>6, <1>7, <1>8, Moving DEF WorkerMoves

LEMMA InitCheckpoint == Init => CheckpointInv
  <1> SUFFICES ASSUME Init PROVE CheckpointInv
    OBVIOUS
  <1>1. PICK s \in [Zone -> InitZoneSpec] : zones = [z \in Zone |-> NewZone(s[z])]
    BY DEF Init
  <1>2. \A z \in Zone : zones[z].uid = 1 /\ ~zones[z].status.checkpoint
    BY <1>1 DEF NewZone, NoZoneStatus
  <1>3. \A z \in Zone : Versions(z) = {zones[z]}
    BY DEF Init, Versions
  <1>4. zw.copy.uid = 1 /\ ~zw.copy.status.checkpoint /\ ~At("status")
    BY DEF Init, Idle, At, NewZone, NoZoneStatus
  <1>5. LivingCMsOwned
    BY DEF Init, NoCM, LivingCMsOwned
  <1> QED
    BY <1>2, <1>3, <1>4, <1>5, InitInv, InitLags
    DEF CheckpointInv, OneIncarnation, CheckpointsHaveFile, WorkerHasFile, HasFile

LEMMA NextCheckpoint ==
  ASSUME "deleteCM" \notin UserOp, "createZone" \notin UserOp, CheckpointInv, [Next]_vars
  PROVE  CheckpointInv'
  <1>1. Inv' /\ CMsHeld' /\ ZonesLag' /\ OneIncarnation'
    BY NextInv, CMSteps, CMsStepKeeps, ZoneSteps, ZonesLagStep, OneIncarnationStep DEF CheckpointInv
  <1>2. LivingCMsOwned'
    <2> SUFFICES ASSUME NEW n \in CMName, Living(n[2])', cms'[n].exists
                 PROVE  cms'[n].owner = 1 /\ ~cms'[n].deleting
      BY DEF LivingCMsOwned
    <2>1. n[2] \in Zone
      BY DEF CMName
    <2>2. Living(n[2])
      BY <2>1, LivingStays DEF CheckpointInv
    <2> QED
      BY <2>2, OwnedStays DEF StaysOwned, Owned, CheckpointInv
  <1>3. CheckpointsHaveFile' /\ WorkerHasFile'
    BY CheckpointsStep, WorkerHasFileStep
  <1> QED
    BY <1>1, <1>2, <1>3 DEF CheckpointInv

LEMMA CheckpointFiles == CheckpointInv => CheckpointHasFile
  <1> SUFFICES ASSUME CheckpointInv, NEW z \in Zone, Living(z), zones[z].status.checkpoint
               PROVE  LET cm == cms[<<zones[z].status.prefix, z>>]
                      IN  cm.exists /\ ValidFile(cm.file)
    BY DEF CheckpointHasFile, Living
  <1> DEFINE n == <<zones[z].status.prefix, z>>
  <1>1. n \in CMName
    BY DEF CheckpointInv, Inv, ZoneTypes, ZoneObj, ZoneStatus, CMName
  <1>2. cms[n].exists
    BY DEF CheckpointInv, CheckpointsHaveFile, Versions, HasFile
  <1> QED
    BY <1>1, <1>2 DEF CheckpointInv, Inv, FilesValid

(* ZonePublish and ZoneInvalid, which keeps "checkpoint" for a zone that   *)
(* no longer parses: the connector finds the good file it goes on with,    *)
(* whatever prefixes the zone has had, as long as nobody deletes config    *)
(* maps by hand or creates a zone anew before the old one's are gone.      *)
THEOREM CheckpointKept ==
  ASSUME "deleteCM" \notin UserOp, "createZone" \notin UserOp
  PROVE  Spec => []CheckpointHasFile
  <1>1. CheckpointInv /\ [Next]_vars => CheckpointInv'
    BY NextCheckpoint
  <1> QED
    BY <1>1, InitCheckpoint, CheckpointFiles, PTL DEF Spec

=============================================================================
