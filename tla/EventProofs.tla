---------------------------- MODULE EventProofs ----------------------------
(***************************************************************************)
(* No event is lost between a record, the two controllers and the zone     *)
(* file: QuiescentFilesRight, for every value of the constants of          *)
(* ZonePublishing, if config maps reach the cache and the sleep over a     *)
(* record's event outlasts its validation (Timely), and if config maps     *)
(* are not deleted by hand and zones not created a second time.            *)
(***************************************************************************)
EXTENDS StatusProofs

-----------------------------------------------------------------------------
(* The inductive invariant.                                                *)

(* The watch of an object leaves out no version and ends with the stored   *)
(* one.                                                                    *)
Gapless(obj, feed, cache) ==
  LET left == feed \cup {cache}
  IN  /\ Lags(obj, feed, cache)
      /\ obj \in left
      /\ \A u, v \in left : u.rv = v.rv => u = v
      /\ \A v \in feed : \E u \in left : v.rv = u.rv + 1

AllGapless == /\ \A r \in Record : Gapless(recs[r], recFeed[r], recCache[r])
              /\ \A z \in Zone : Gapless(zones[z], zoneFeed[z], zoneCache[z])
              /\ \A n \in CMName : Gapless(cms[n], cmFeed[n], cmCache[n])

RecordVersions(r) == recFeed[r] \cup {recCache[r]}

(* The status of a record states the verdict on its spec.                  *)
Right(v) == v.exists => /\ v.status.passed = ValidData(v.spec.data)
                        /\ v.status.entry = v.spec.data
                        /\ v.status.ogen = v.gen
(* What passed is valid, even if it is not the present data.               *)
Sound(v) == v.status.passed => ValidData(v.status.entry)
(* A verdict is on no generation still to come, and none is given on a     *)
(* version that is marked for deletion.                                    *)
Marked(v) == v.exists /\ v.deleting
Timed(v) == /\ v.status.ogen <= v.gen
            /\ Marked(v) /\ v.status.ogen = v.gen => v.status.cond # "Degraded"

(* A write that is no event changes nothing a zone file is made of, leaves *)
(* the mark of deletion as it is, and undoes no verdict.                   *)
Kept(u, v) == u.spec = v.spec /\ u.deleting = v.deleting /\ (Right(u) => Right(v))
RecordHistory ==
  \A r \in Record :
    /\ \A v \in RecordVersions(r) : Sound(v) /\ Timed(v)
    /\ \A u, v \in RecordVersions(r) : v.rv = u.rv + 1 => IsEvent(u, v) \/ Kept(u, v)

(* A verdict is due or under way.                                          *)
RecordsAttended == \A r \in Record : r \in recQ \/ \E v \in RecordVersions(r) : Right(v)

(* A map function sleeps over an event of r for z.                         *)
Waits(r, z) == \E e \in delayed : e[1] = r /\ e[2] = z
(* It sleeps until the verdict is there.                                   *)
VerdictAwaited ==
  \A r \in Record : Right(recCache[r]) \/ Waits(r, recCache[r].spec.ref)

(* The versions of a zone that is there differ by their generations.       *)
ZoneHistory ==
  \A z \in Zone :
    /\ Living(z) => \A v \in Versions(z) : v.exists /\ ~v.deleting
    /\ \A v \in Versions(z) : v.gen <= zones[z].gen
    /\ \A u, v \in Versions(z) : u.gen = v.gen => u.spec = v.spec

(* What the file f has of the record r, and what the version v of it asks  *)
(* for.                                                                    *)
Lines(f, r) == {e \in f.entries : e[1] = r}
LinesOf(r, v, z) ==
  IF v.exists /\ v.spec.ref = z /\ ValidData(v.spec.data) THEN {<<r, v.spec.data>>} ELSE {}

(* The file is the one for what the caches show, but for records whose     *)
(* events have yet to reach the zone.                                      *)
FileCurrent(z, f) ==
  /\ f.hdr = zoneCache[z].spec.hdr
  /\ \A r \in Record : Lines(f, r) = LinesOf(r, recCache[r], z) \/ Waits(r, z)

(* A zone is queued, or the worker is about to write the file it needs, or *)
(* the config map has it.                                                  *)
Wanted(z) == Living(z) /\ zoneCache[z].spec.hdr \notin BadHeader
Writes(z) == Baking(zw) /\ zw.key = z
ZoneServed(z) ==
  IF Writes(z) THEN zw.copy.spec = zoneCache[z].spec /\ FileCurrent(z, zw.file)
  ELSE LET cm == cms[CMOf(z, zoneCache[z].spec)]
       IN  cm.exists /\ FileCurrent(z, cm.file)
ZonesAttended == \A z \in Zone : Wanted(z) => z \in zoneQ \/ ZoneServed(z)

EventInv == /\ CheckpointInv /\ AllGapless
            /\ RecordHistory /\ RecordsAttended /\ VerdictAwaited
            /\ ZoneHistory /\ ZonesAttended
-----------------------------------------------------------------------------
(* The watch.                                                              *)

LEMMA MovesKeepGapless ==
  ASSUME NEW Kind, \A k \in Kind : k.rv \in Nat,
         NEW old \in Kind, NEW new \in Kind, NEW feed \in SUBSET Kind,
         NEW feed1 \in SUBSET Kind, NEW cache \in Kind, NEW cache1 \in Kind,
         Gapless(old, feed, cache), Moves(old, new, feed, feed1, cache, cache1)
  PROVE  Gapless(new, feed1, cache1)
  <1>1. Lags(new, feed1, cache1)
    BY MovesKeepLags DEF Gapless
  <1>2. CASE new = old /\ feed1 = feed /\ cache1 = cache
    BY <1>2 DEF Gapless
  <1>3. CASE new.rv = old.rv + 1 /\ feed1 = feed \cup {new} /\ cache1 = cache
    <2>1. \A v \in feed \cup {cache} : v.rv # new.rv
      BY <1>3 DEF Gapless, Lags
    <2> QED
      BY <1>1, <1>3, <2>1 DEF Gapless
  <1>4. CASE /\ new = old /\ cache1 \in feed /\ feed1 = feed \ {cache1}
             /\ \A w \in feed : cache1.rv <= w.rv
    <2>1. feed1 \cup {cache1} = feed
      BY <1>4
    <2>2. old \in feed
      BY <1>4 DEF Gapless, Lags
    <2>3. \A v \in feed : cache1.rv < v.rv \/ v = cache1
      BY <1>4 DEF Gapless
    <2>4. ASSUME NEW v \in feed1 PROVE \E u \in feed : v.rv = u.rv + 1
      <3>1. PICK u \in feed \cup {cache} : v.rv = u.rv + 1
        BY <2>1 DEF Gapless
      <3>2. CASE u = cache
        BY <1>4, <2>1, <2>3, <3>1, <3>2 DEF Gapless, Lags
      <3> QED
        BY <3>1, <3>2
    <2> QED
      BY <1>1, <1>4, <2>1, <2>2, <2>4 DEF Gapless
  <1>5. CASE new = old /\ feed1 = {} /\ cache1 = old
    BY <1>1, <1>5 DEF Gapless
  <1> QED
    BY <1>2, <1>3, <1>4, <1>5 DEF Moves

(* What is delivered follows what the cache shows.                         *)
LEMMA DeliveredNext ==
  ASSUME NEW Kind, \A k \in Kind : k.rv \in Nat,
         NEW obj, NEW feed \in SUBSET Kind, NEW cache \in Kind,
         Gapless(obj, feed, cache), NEW v, Oldest(feed, v)
  PROVE  v.rv = cache.rv + 1
  <1>1. PICK u \in feed \cup {cache} : v.rv = u.rv + 1
    BY DEF Gapless, Oldest
  <1> QED
    BY <1>1 DEF Oldest

LEMMA GaplessStep ==
  ASSUME Inv, AllGapless, [Next]_vars
  PROVE  AllGapless'
  <1>1. RecordStep /\ ZoneStep /\ CMStep
    BY RecordSteps, ZoneSteps, CMSteps
  <1>2. Inv'
    BY NextInv
  <1>3. ASSUME NEW r \in Record PROVE Gapless(recs'[r], recFeed'[r], recCache'[r])
    <2>1. /\ recs[r] \in RecordObj /\ recs'[r] \in RecordObj
          /\ recFeed[r] \in SUBSET RecordObj /\ recFeed'[r] \in SUBSET RecordObj
          /\ recCache[r] \in RecordObj /\ recCache'[r] \in RecordObj
      BY <1>2 DEF Inv, RecordTypes
    <2>2. \A v \in RecordObj : v.rv \in Nat
      BY DEF RecordObj
    <2>3. Moves(recs[r], recs'[r], recFeed[r], recFeed'[r], recCache[r], recCache'[r])
      BY <1>1, RecordMoves DEF Inv
    <2> QED
      BY <2>1, <2>2, <2>3, MovesKeepGapless DEF AllGapless
  <1>4. ASSUME NEW z \in Zone PROVE Gapless(zones'[z], zoneFeed'[z], zoneCache'[z])
    <2>1. /\ zones[z] \in ZoneObj /\ zones'[z] \in ZoneObj
          /\ zoneFeed[z] \in SUBSET ZoneObj /\ zoneFeed'[z] \in SUBSET ZoneObj
          /\ zoneCache[z] \in ZoneObj /\ zoneCache'[z] \in ZoneObj
      BY <1>2 DEF Inv, ZoneTypes
    <2>2. \A v \in ZoneObj : v.rv \in Nat
      BY DEF ZoneObj
    <2>3. Moves(zones[z], zones'[z], zoneFeed[z], zoneFeed'[z], zoneCache[z], zoneCache'[z])
      BY <1>1, ZoneMoves DEF Inv
    <2> QED
      BY <2>1, <2>2, <2>3, MovesKeepGapless DEF AllGapless
  <1>5. ASSUME NEW n \in CMName PROVE Gapless(cms'[n], cmFeed'[n], cmCache'[n])
    <2>1. /\ cms[n] \in CMObj /\ cms'[n] \in CMObj
          /\ cmFeed[n] \in SUBSET CMObj /\ cmFeed'[n] \in SUBSET CMObj
          /\ cmCache[n] \in CMObj /\ cmCache'[n] \in CMObj
      BY <1>2 DEF Inv, CMTypes
    <2>2. \A v \in CMObj : v.rv \in Nat
      BY DEF CMObj
    <2>3. Moves(cms[n], cms'[n], cmFeed[n], cmFeed'[n], cmCache[n], cmCache'[n])
      BY <1>1, CMMoves DEF Inv
    <2> QED
      BY <2>1, <2>2, <2>3, MovesKeepGapless DEF AllGapless
  <1> QED
    BY <1>3, <1>4, <1>5 DEF AllGapless

(* With an empty feed the cache shows what is stored.                      *)
LEMMA NothingLeft ==
  ASSUME NEW obj, NEW cache, Gapless(obj, {}, cache)
  PROVE  cache = obj
  BY DEF Gapless

-----------------------------------------------------------------------------
(* What a step does to one record.                                         *)

RecordChange(u, v) == /\ (Sound(u) => Sound(v)) /\ (Timed(u) => Timed(v))
                      /\ IsEvent(u, v) \/ Kept(u, v)

LEMMA StoredRecordSame ==
  ASSUME NEW old \in RecordObj, NEW new \in RecordObj
  PROVE  LET obj == Stored(old, new)
         IN  /\ obj.gen = new.gen /\ obj.spec = new.spec /\ obj.status = new.status
             /\ obj.deleting = new.deleting /\ obj.exists = ~(new.deleting /\ ~new.fin)
  <1> DEFINE kept == [new EXCEPT !.exists = ~(new.deleting /\ ~new.fin)]
             same == [kept EXCEPT !.rv = old.rv]
             next == [kept EXCEPT !.rv = old.rv + 1]
             Same(v) == /\ v.gen = new.gen /\ v.spec = new.spec /\ v.status = new.status
                        /\ v.deleting = new.deleting /\ v.exists = ~(new.deleting /\ ~new.fin)
  <1>1. kept \in RecordObj /\ Same(kept)
    BY Zenon DEF RecordObj
  <1>2. Same(same) /\ Same(next)
    BY <1>1 DEF RecordObj
  <1>3. Stored(old, new) = IF same = old THEN old ELSE next
    BY DEF Stored
  <1> HIDE DEF same, next
  <1> QED
    BY <1>2, <1>3

(* What is written decides, not what the API server makes of it.           *)
LEMMA WrittenRecord ==
  ASSUME Inv, NEW q \in Record, NEW new \in RecordObj, new.exists,
         PutRecord(q, new), RecordChange(recs[q], new)
  PROVE  \A r \in Record : RecordChange(recs[r], recs'[r])
  <1> DEFINE obj == Stored(recs[q], new)
  <1>1. recs \in [Record -> RecordObj]
    BY DEF Inv, RecordTypes
  <1>2. /\ obj.gen = new.gen /\ obj.spec = new.spec /\ obj.status = new.status
        /\ obj.deleting = new.deleting
    BY <1>1, StoredRecordSame
  <1>3. recs' = [recs EXCEPT ![q] = obj]
    BY DEF PutRecord
  <1> HIDE DEF obj
  <1>4. RecordChange(recs[q], obj)
    BY <1>2 DEF RecordChange, Sound, Timed, Marked, IsEvent, Kept, Right
  <1>5. \A v : RecordChange(v, v)
    BY DEF RecordChange, Kept
  <1> QED
    BY <1>1, <1>3, <1>4, <1>5

(* Only a creation or a new generation changes the spec of a record, and   *)
(* no verdict is taken back without one.                                   *)
LEMMA UserRecordChanges ==
  ASSUME Inv, NEW q \in Record, CreateRecord(q) \/ EditRecord(q) \/ DeleteRecord(q)
  PROVE  \A r \in Record : RecordChange(recs[r], recs'[r])
  <1>1. recs[q] \in RecordObj /\ recs[q].gen \in Nat /\ recs[q].status.ogen \in Nat
    BY DEF Inv, RecordTypes, RecordObj, RecordStatus
  <1>2. CASE CreateRecord(q)
    <2>1. PICK s \in RecordSpec : PutRecord(q, [NewRecord(s) EXCEPT !.rv = recs[q].rv])
      BY <1>2 DEF CreateRecord
    <2> DEFINE new == [NewRecord(s) EXCEPT !.rv = recs[q].rv]
    <2>2. /\ new \in RecordObj /\ new.exists /\ ~new.status.passed
          /\ ~new.deleting /\ new.gen = 1 /\ new.status.ogen = 0
      BY <1>1, NewObjects DEF RecordObj, NewRecord, NoRecordStatus
    <2>3. RecordChange(recs[q], new)
      BY <1>2, <2>2 DEF CreateRecord, RecordChange, Sound, Timed, Marked, IsEvent
    <2> QED
      BY <2>1, <2>2, <2>3, WrittenRecord
  <1>3. CASE EditRecord(q)
    <2>1. PICK s \in RecordSpec : PutRecord(q, [recs[q] EXCEPT !.spec = s, !.gen = @ + 1])
      BY <1>3 DEF EditRecord
    <2> DEFINE new == [recs[q] EXCEPT !.spec = s, !.gen = @ + 1]
    <2>2. new \in RecordObj
      BY <1>1, EditedRecord
    <2>3. new.exists /\ new.gen = recs[q].gen + 1 /\ new.status = recs[q].status
      BY <1>1, <1>3 DEF RecordObj, EditRecord
    <2> HIDE DEF new
    <2>4. RecordChange(recs[q], new)
      BY <1>1, <2>3 DEF RecordChange, Sound, Timed, IsEvent
    <2> QED
      BY <2>1, <2>2, <2>3, <2>4, WrittenRecord DEF new
  <1>4. CASE DeleteRecord(q)
    <2> DEFINE new == DeletedCR(recs[q])
    <2>1. new \in RecordObj
      BY <1>1, EditedRecord
    <2>2. new.exists /\ new.gen = recs[q].gen + 1 /\ new.status = recs[q].status
      BY <1>1, <1>4 DEF RecordObj, DeleteRecord, DeletedCR
    <2>3. PutRecord(q, new)
      BY <1>4 DEF DeleteRecord
    <2> HIDE DEF new
    <2>4. RecordChange(recs[q], new)
      BY <1>1, <2>2 DEF RecordChange, Sound, Timed, IsEvent
    <2> QED
      BY <2>1, <2>2, <2>3, <2>4, WrittenRecord
  <1> QED
    BY <1>2, <1>3, <1>4

LEMMA NotifiedRecordChanges ==
  ASSUME Inv, NEW q \in Record, ZoneJoin(q) \/ ZoneUnjoin(q)
  PROVE  \A r \in Record : RecordChange(recs[r], recs'[r])
  <1>1. PICK cond \in {"Ready", "ZoneRemoved"} :
          \/ UNCHANGED recordVars
          \/ /\ recs[q].exists /\ Accepts(recCache[q], recs[q])
             /\ PutRecord(q, [recs[q] EXCEPT !.status.cond = cond,
                                             !.status.ogen = recCache[q].gen])
    BY DEF ZoneJoin, ZoneUnjoin, NotifyRecord, ApiRest, Accepts
  <1> DEFINE new == [recs[q] EXCEPT !.status.cond = cond, !.status.ogen = recCache[q].gen]
  <1>2. recs[q] \in RecordObj /\ recCache[q].gen \in Nat
    BY DEF Inv, RecordTypes, RecordObj
  <1>3. new \in RecordObj
    BY <1>2 DEF RecordObj, RecordStatus, RecordCond
  <1>4. /\ new.exists = recs[q].exists /\ new.spec = recs[q].spec
        /\ new.gen = recs[q].gen /\ new.deleting = recs[q].deleting
        /\ new.status.passed = recs[q].status.passed
        /\ new.status.entry = recs[q].status.entry
        /\ new.status.ogen = recCache[q].gen /\ new.status.cond = cond
    BY <1>2 DEF RecordObj, RecordStatus
  <1> HIDE DEF new
  <1>5. CASE UNCHANGED recordVars
    BY <1>5 DEF recordVars, RecordChange, Kept
  <1>6. CASE recs[q].exists /\ Accepts(recCache[q], recs[q]) /\ PutRecord(q, new)
    <2>1. recCache[q].gen = recs[q].gen
      BY <1>6, AcceptedRecord DEF Inv
    <2>2. RecordChange(recs[q], new)
      BY <1>2, <1>4, <2>1 DEF RecordChange, Sound, Timed, Kept, Right
    <2> QED
      BY <1>3, <1>4, <1>6, <2>2, WrittenRecord
  <1> QED
    BY <1>1, <1>5, <1>6 DEF new

(* The reconciler writes the finalizer of the stored record, or a verdict. *)
LEMMA FinalizerRecordChanges ==
  ASSUME Inv, NEW q \in Record, NEW fin \in BOOLEAN, Accepts(recCache[q], recs[q]),
         PutRecord(q, [recCache[q] EXCEPT !.fin = fin])
  PROVE  \A r \in Record : RecordChange(recs[r], recs'[r])
  <1> DEFINE new == [recCache[q] EXCEPT !.fin = fin]
  <1>1. recCache[q] = recs[q] /\ recs[q].exists /\ recs[q] \in RecordObj
    BY AcceptedRecord DEF Inv, RecordTypes
  <1>2. /\ new \in RecordObj /\ new.exists /\ new.gen = recs[q].gen
        /\ new.spec = recs[q].spec /\ new.status = recs[q].status
        /\ new.deleting = recs[q].deleting
    BY <1>1 DEF RecordObj
  <1> HIDE DEF new
  <1>3. RecordChange(recs[q], new)
    BY <1>1, <1>2 DEF RecordChange, Sound, Timed, Marked, Kept, Right
  <1> QED
    BY <1>2, <1>3, WrittenRecord DEF new

LEMMA VerdictIsRight ==
  ASSUME NEW copy \in RecordObj, NEW v, v.spec = copy.spec, v.gen = copy.gen,
         v.status = CheckedStatus(copy)
  PROVE  Right(v) /\ Sound(v)
  BY DEF Right, Sound, CheckedStatus

LEMMA ReconciledRecordChanges ==
  ASSUME Inv, NEW q \in Record, RecordReconcile(q)
  PROVE  \A r \in Record : RecordChange(recs[r], recs'[r])
  <1>1. recs[q] \in RecordObj /\ recCache[q] \in RecordObj
    BY DEF Inv, RecordTypes
  <1>2. CASE RecordNotFound(q) \/ UNCHANGED recs
    BY <1>2 DEF RecordNotFound, clusterVars, apiVars, RecordChange, Kept
  <1>3. CASE RecordAddFinalizer(q)
    BY <1>3, FinalizerRecordChanges DEF RecordAddFinalizer
  <1>4. CASE RecordDelete(q)
    BY <1>4, FinalizerRecordChanges DEF RecordDelete
  <1>5. CASE RecordValidate(q)
    <2> DEFINE new == [recs[q] EXCEPT !.status = CheckedStatus(recCache[q])]
    <2>1. CASE Accepts(recCache[q], recs[q]) /\ PutRecord(q, new)
      <3>1. recCache[q] = recs[q] /\ recs[q].exists
        BY <2>1, AcceptedRecord DEF Inv
      <3>2. /\ new \in RecordObj /\ new.exists /\ new.gen = recs[q].gen
            /\ new.spec = recs[q].spec /\ new.status = CheckedStatus(recCache[q])
            /\ new.deleting = recs[q].deleting
        BY <1>1, <3>1, CheckedStatusType DEF RecordObj
      <3> HIDE DEF new
      <3>3. Right(new) /\ Sound(new) /\ Timed(new)
        <4>1. ~new.deleting /\ new.status.ogen = new.gen /\ new.gen \in Nat
          BY <1>1, <1>5, <3>1, <3>2 DEF RecordValidate, CheckedStatus, RecordObj
        <4> QED
          BY <1>1, <3>1, <3>2, <4>1, VerdictIsRight DEF Timed, Marked
      <3> QED
        BY <2>1, <3>2, <3>3, WrittenRecord DEF RecordChange, Kept
    <2> QED
      BY <1>2, <1>5, <2>1 DEF RecordValidate, recordVars
  <1> QED
    BY <1>2, <1>3, <1>4, <1>5 DEF RecordReconcile

(* The steps that do not touch the records leave what the record           *)
(* controller knows of them alone, but for the delivery and the restart.   *)
RecordsUntouched == UNCHANGED <<recs, recFeed, recCache, recQ>>
RecordsWritten == /\ UNCHANGED <<recCache, recQ>>
                  /\ \A r \in Record : RecordChange(recs[r], recs'[r])

LEMMA RecordKinds ==
  ASSUME Inv, [Next]_vars
  PROVE  \/ RecordsUntouched \/ RecordsWritten
         \/ \E r \in Record : RecordReconcile(r) \/ DeliverRecord(r)
         \/ Restart
  <1> USE DEF recordVars, cacheVars, clusterVars, apiVars, feedVars, zoneCtlVars, RecordsUntouched
  <1>1. CASE RecordCtl
    BY <1>1 DEF RecordCtl
  <1>2. CASE ZoneCtl
    <2>1. UNCHANGED <<recQ, recCache>>
      BY <1>2 DEF ZoneCtl, ZoneBegin, ZoneNotFound, ZoneAddFinalizer, ZoneStartDelete,
                  ZoneStartUpdate, ZoneWork, ZoneInvalid, ZonePublish, ZoneRemoveFinalizer,
                  ZoneCreateCM, ZoneUpdateCM, ZoneAddCMFinalizer, ZoneJoin, ZoneUnjoin,
                  ZoneFault, ZoneRest
    <2>2. CASE \E z \in Zone : ZoneBegin(z)
      BY <2>1, <2>2 DEF ZoneBegin, ZoneNotFound, ZoneAddFinalizer, ZoneStartDelete,
                  ZoneStartUpdate, ApiRest
    <2>3. CASE \E r \in Record : ZoneJoin(r) \/ ZoneUnjoin(r)
      BY <2>1, <2>3, NotifiedRecordChanges DEF RecordsWritten
    <2>4. CASE ZoneInvalid \/ ZonePublish \/ ZoneRemoveFinalizer
      BY <2>1, <2>4 DEF ZoneInvalid, ZonePublish, WriteZoneStatus, ZoneRemoveFinalizer, ApiRest
    <2>5. CASE ZoneCreateCM \/ ZoneUpdateCM \/ ZoneAddCMFinalizer \/ ZoneFault
      BY <2>1, <2>5 DEF ZoneCreateCM, ZoneUpdateCM, ZoneAddCMFinalizer, ZoneFault, ApiRest
    <2> QED
      BY <1>2, <2>2, <2>3, <2>4, <2>5 DEF ZoneCtl, ZoneWork
  <1>3. CASE Delay
    BY <1>3 DEF Delay, DelayExpires
  <1>4. CASE Deliver
    BY <1>4 DEF Deliver, DeliverZone, DeliverCM
  <1>5. CASE Environment
    <2>1. CASE \E r \in Record : CreateRecord(r) \/ EditRecord(r) \/ DeleteRecord(r)
      <3>1. UNCHANGED <<recCache, recQ>>
        BY <1>5, <2>1 DEF Environment, Tick, CreateRecord, EditRecord, DeleteRecord, User
      <3> QED
        BY <2>1, <3>1, UserRecordChanges DEF RecordsWritten
    <2>2. CASE ~\E r \in Record : CreateRecord(r) \/ EditRecord(r) \/ DeleteRecord(r)
      BY <1>5, <2>2 DEF Environment, Tick, UserStep, CreateZone, EditZone, LabelZone, DeleteZone,
                        DeleteCM, GarbageCollect, ConnectorNotify, User
    <2> QED
      BY <2>1, <2>2
  <1>6. CASE UNCHANGED vars
    BY <1>6 DEF vars
  <1> QED
    BY <1>1, <1>2, <1>3, <1>4, <1>5, <1>6 DEF Next, Operator

LEMMA RecordChanges ==
  ASSUME Inv, [Next]_vars
  PROVE  \A r \in Record : RecordChange(recs[r], recs'[r])
  <1>1. UNCHANGED recs => \A r \in Record : RecordChange(recs[r], recs'[r])
    BY DEF RecordChange, Kept
  <1>2. CASE RecordsUntouched \/ Restart
    BY <1>1, <1>2 DEF RecordsUntouched, Restart, apiVars
  <1>3. CASE \E r \in Record : DeliverRecord(r)
    BY <1>1, <1>3 DEF DeliverRecord, apiVars
  <1> QED
    BY <1>2, <1>3, RecordKinds, ReconciledRecordChanges DEF RecordsWritten

-----------------------------------------------------------------------------
(* The history of a record, and the verdicts.                              *)

LEMMA RecordHistoryStep ==
  ASSUME Inv, AllGapless, RecordHistory, [Next]_vars
  PROVE  RecordHistory'
  <1>1. RecordStep /\ Inv'
    BY RecordSteps, NextInv
  <1> SUFFICES ASSUME NEW r \in Record
               PROVE  LET now == recFeed'[r] \cup {recCache'[r]}
                      IN  /\ \A v \in now : Sound(v) /\ Timed(v)
                          /\ \A u, v \in now : v.rv = u.rv + 1 => IsEvent(u, v) \/ Kept(u, v)
    BY DEF RecordHistory, RecordVersions
  <1> DEFINE old == recFeed[r] \cup {recCache[r]}
             now == recFeed'[r] \cup {recCache'[r]}
  <1>2. Moves(recs[r], recs'[r], recFeed[r], recFeed'[r], recCache[r], recCache'[r])
    BY <1>1, RecordMoves DEF Inv
  <1>3. /\ recs[r] \in old /\ \A v \in old : v.rv <= recs[r].rv
        /\ \A v \in old : v.rv = recs[r].rv => v = recs[r]
    BY DEF AllGapless, Gapless, Lags
  <1>4. RecordChange(recs[r], recs'[r])
    BY RecordChanges
  <1>5. /\ \A v \in old : Sound(v) /\ Timed(v)
        /\ \A u, v \in old : v.rv = u.rv + 1 => IsEvent(u, v) \/ Kept(u, v)
    BY DEF RecordHistory, RecordVersions
  <1>6. CASE now \subseteq old
    BY <1>5, <1>6
  <1>7. CASE recs'[r].rv = recs[r].rv + 1 /\ now = old \cup {recs'[r]}
    <2>1. \A v \in old : v.rv \in Nat /\ recs[r].rv \in Nat
      BY <1>3 DEF Inv, RecordTypes, RecordObj
    <2>2. Sound(recs'[r]) /\ Timed(recs'[r])
      BY <1>3, <1>4, <1>5 DEF RecordChange
    <2>3. \A u \in old : recs'[r].rv = u.rv + 1 => IsEvent(u, recs'[r]) \/ Kept(u, recs'[r])
      BY <1>3, <1>4, <1>7, <2>1 DEF RecordChange
    <2>4. \A v \in old : v.rv # recs'[r].rv + 1
      BY <1>3, <1>7, <2>1
    <2> QED
      BY <1>5, <1>7, <2>1, <2>2, <2>3, <2>4
  <1> HIDE DEF now
  <1>8. now \subseteq old \/ (recs'[r].rv = recs[r].rv + 1 /\ now = old \cup {recs'[r]})
    BY <1>2, <1>3 DEF Moves, now
  <1> QED
    BY <1>6, <1>7, <1>8 DEF now

(* What is delivered is an event, or keeps what the cache has.             *)
LEMMA DeliveredKeeps ==
  ASSUME Inv, AllGapless, RecordHistory, NEW r \in Record, NEW v, Oldest(recFeed[r], v)
  PROVE  IsEvent(recCache[r], v) \/ Kept(recCache[r], v)
  <1>1. /\ recFeed[r] \in SUBSET RecordObj /\ recCache[r] \in RecordObj
        /\ \A k \in RecordObj : k.rv \in Nat
    BY DEF Inv, RecordTypes, RecordObj
  <1>2. v.rv = recCache[r].rv + 1
    BY <1>1, DeliveredNext DEF AllGapless
  <1> QED
    BY <1>2 DEF RecordHistory, RecordVersions, Oldest

(* An object whose cache does not move loses no version.                   *)
LEMMA UnmovedLosesNothing ==
  ASSUME NEW Kind, \A k \in Kind : k.rv \in Nat,
         NEW old \in Kind, NEW new, NEW feed \in SUBSET Kind, NEW feed1, NEW cache \in Kind,
         Gapless(old, feed, cache), Moves(old, new, feed, feed1, cache, cache)
  PROVE  feed \subseteq feed1
  <1>1. \A v \in feed : cache.rv <= v.rv /\ v.rv <= old.rv
    BY DEF Gapless, Lags
  <1>2. ASSUME NEW v \in feed, cache.rv = v.rv PROVE FALSE
    <2>1. v = cache
      BY <1>2 DEF Gapless
    <2>2. PICK u \in feed \cup {cache} : v.rv = u.rv + 1
      BY DEF Gapless
    <2> QED
      BY <1>1, <1>2, <2>1, <2>2
  <1>3. cache = old => feed = {}
    BY <1>1, <1>2
  <1> QED
    BY <1>1, <1>2, <1>3 DEF Moves

LEMMA NothingTaken ==
  ASSUME Inv, AllGapless, [Next]_vars, NEW r \in Record, recCache'[r] = recCache[r]
  PROVE  recFeed[r] \subseteq recFeed'[r] /\ recs'[r] \in recFeed'[r] \cup {recCache'[r]}
  <1>1. Moves(recs[r], recs'[r], recFeed[r], recFeed'[r], recCache[r], recCache'[r])
    BY RecordSteps, RecordMoves DEF Inv
  <1>2. AllGapless'
    BY GaplessStep
  <1>3. /\ recs[r] \in RecordObj /\ recCache[r] \in RecordObj
        /\ recFeed[r] \in SUBSET RecordObj /\ \A k \in RecordObj : k.rv \in Nat
    BY DEF Inv, RecordTypes, RecordObj
  <1> QED
    BY <1>1, <1>2, <1>3, UnmovedLosesNothing DEF AllGapless, Gapless

LEMMA ReconcileAttends ==
  ASSUME Inv, AllGapless, [Next]_vars, NEW r \in Record, RecordReconcile(r)
  PROVE  r \in recQ' \/ \E v \in recFeed'[r] \cup {recCache'[r]} : Right(v)
  <1>1. recCache' = recCache
    BY DEF RecordReconcile, RecordNotFound, RecordAddFinalizer, RecordDelete, RecordValidate,
           RecordRest, clusterVars, cacheVars
  <1>2. recs'[r] \in recFeed'[r] \cup {recCache'[r]}
    BY <1>1, NothingTaken
  <1>3. recs[r] \in RecordObj /\ recCache[r] \in RecordObj /\ recs \in [Record -> RecordObj]
    BY DEF Inv, RecordTypes
  <1>4. CASE RecordNotFound(r)
    BY <1>1, <1>4 DEF RecordNotFound, Right
  <1>5. CASE RecordAddFinalizer(r)
    BY <1>5 DEF RecordAddFinalizer, Reconcilable
  <1>6. CASE RecordDelete(r)
    <2> DEFINE new == [recCache[r] EXCEPT !.fin = FALSE]
    <2>1. new \in RecordObj /\ new.deleting /\ ~new.fin
      BY <1>3, <1>6 DEF RecordDelete, RecordObj
    <2>2. recs'[r] = Stored(recs[r], new)
      BY <1>3, <1>6 DEF RecordDelete, PutRecord
    <2> HIDE DEF new
    <2>3. ~recs'[r].exists
      BY <1>3, <2>1, <2>2, StoredRecordSame
    <2> QED
      BY <1>2, <2>3 DEF Right
  <1>7. CASE RecordValidate(r)
    <2> DEFINE new == [recs[r] EXCEPT !.status = CheckedStatus(recCache[r])]
    <2>1. CASE CheckedStatus(recCache[r]) = recCache[r].status
      BY <1>1, <1>3, <2>1, VerdictIsRight
    <2>2. CASE Accepts(recCache[r], recs[r]) /\ PutRecord(r, new)
      <3>1. recCache[r] = recs[r]
        BY <2>2, AcceptedRecord DEF Inv
      <3>2. /\ new \in RecordObj /\ new.gen = recCache[r].gen
            /\ new.spec = recCache[r].spec /\ new.status = CheckedStatus(recCache[r])
        BY <1>3, <3>1, CheckedStatusType DEF RecordObj
      <3>3. recs'[r] = Stored(recs[r], new)
        BY <1>3, <2>2 DEF PutRecord
      <3> HIDE DEF new
      <3>4. /\ recs'[r].gen = new.gen /\ recs'[r].spec = new.spec
            /\ recs'[r].status = new.status
        BY <1>3, <3>2, <3>3, StoredRecordSame
      <3> QED
        BY <1>2, <1>3, <3>2, <3>4, VerdictIsRight
    <2> QED
      BY <1>7, <2>1, <2>2 DEF RecordValidate
  <1> QED
    BY <1>4, <1>5, <1>6, <1>7 DEF RecordReconcile

LEMMA RecordsAttendedStep ==
  ASSUME Inv, AllGapless, RecordHistory, RecordsAttended, [Next]_vars
  PROVE  RecordsAttended'
  <1> SUFFICES ASSUME NEW r \in Record
               PROVE  r \in recQ' \/ \E v \in recFeed'[r] \cup {recCache'[r]} : Right(v)
    BY DEF RecordsAttended, RecordVersions
  <1>1. r \in recQ \/ \E v \in recFeed[r] \cup {recCache[r]} : Right(v)
    BY DEF RecordsAttended, RecordVersions
  <1>2. CASE recCache'[r] = recCache[r] /\ (r \in recQ => r \in recQ')
    BY <1>1, <1>2, NothingTaken
  <1>3. ASSUME NEW q \in Record, RecordReconcile(q)
        PROVE  r \in recQ' \/ \E v \in recFeed'[r] \cup {recCache'[r]} : Right(v)
    <2>1. recCache' = recCache /\ recQ \ {q} \subseteq recQ'
      BY <1>3 DEF RecordReconcile, RecordNotFound, RecordAddFinalizer, RecordDelete,
                  RecordValidate, RecordRest, clusterVars, cacheVars
    <2>2. CASE q = r
      BY <1>3, <2>2, ReconcileAttends
    <2> QED
      BY <1>2, <2>1, <2>2
  <1>4. ASSUME NEW q \in Record, DeliverRecord(q)
        PROVE  r \in recQ' \/ \E v \in recFeed'[r] \cup {recCache'[r]} : Right(v)
    <2>1. PICK w \in recFeed[q] : TakeRecord(q, w) /\ RecordEvent(q, w)
      BY <1>4 DEF DeliverRecord
    <2>2. /\ Oldest(recFeed[q], w)
          /\ recCache' = [recCache EXCEPT ![q] = w]
          /\ recFeed' = [recFeed EXCEPT ![q] = @ \ {w}]
          /\ recQ \subseteq recQ' /\ (IsEvent(recCache[q], w) => q \in recQ')
      BY <2>1 DEF TakeRecord, RecordEvent
    <2>3. recCache \in [Record -> RecordObj] /\ recFeed \in [Record -> SUBSET RecordObj]
      BY DEF Inv, RecordTypes
    <2>4. CASE q = r /\ Kept(recCache[r], w)
      <3>1. recFeed'[r] \cup {recCache'[r]} = recFeed[r] \cup {w}
        BY <2>2, <2>3, <2>4
      <3> QED
        BY <1>1, <2>2, <2>4, <3>1 DEF Kept
    <2>5. CASE q # r
      BY <1>2, <2>2, <2>3, <2>5
    <2> QED
      BY <2>2, <2>4, <2>5, DeliveredKeeps
  <1>5. CASE Restart
    BY <1>5 DEF Restart, Right
  <1> QED
    BY <1>2, <1>3, <1>4, <1>5, RecordKinds DEF RecordsUntouched, RecordsWritten

-----------------------------------------------------------------------------
(* The sleep over the events of a record.                                  *)

WillWait(r, z) == \E e \in delayed' : e[1] = r /\ e[2] = z

(* A record that is settled has its verdict.                               *)
LEMMA SettledIsRight ==
  ASSUME Inv, RecordsAttended, NEW r \in Record, RecordSettled(r)
  PROVE  Right(recCache[r])
  <1>1. recCache[r] \in RecordObj
    BY DEF Inv, RecordTypes
  <1> QED
    BY <1>1, VerdictIsRight DEF RecordsAttended, RecordVersions, RecordSettled

LEMMA DelayKinds ==
  ASSUME "delay" \in Timely, Inv, [Next]_vars
  PROVE  \/ UNCHANGED <<delayed, recCache>>
         \/ \E r \in Record : DeliverRecord(r)
         \/ \E r \in Record, z \in Zone :
              RecordSettled(r) /\ DelayExpires(r, z) /\ UNCHANGED recCache
         \/ Restart
  <1> USE DEF recordVars, cacheVars, clusterVars, apiVars, feedVars, zoneCtlVars
  <1>1. CASE RecordCtl
    BY <1>1 DEF RecordCtl, RecordReconcile, RecordNotFound, RecordAddFinalizer, RecordDelete,
                RecordValidate, RecordRest
  <1>2. CASE ZoneCtl
    BY <1>2 DEF ZoneCtl, ZoneBegin, ZoneNotFound, ZoneAddFinalizer, ZoneStartDelete,
                ZoneStartUpdate, ZoneWork, ZoneInvalid, ZonePublish, ZoneRemoveFinalizer,
                ZoneCreateCM, ZoneUpdateCM, ZoneAddCMFinalizer, ZoneJoin, ZoneUnjoin,
                ZoneFault, ZoneRest
  <1>3. CASE Delay
    BY <1>3 DEF Delay, DelayExpires
  <1>4. CASE Deliver
    BY <1>4 DEF Deliver, DeliverZone, DeliverCM
  <1>5. CASE Environment
    BY <1>5 DEF Environment, Tick, UserStep, CreateRecord, EditRecord, DeleteRecord, CreateZone,
                EditZone, LabelZone, DeleteZone, DeleteCM, GarbageCollect, ConnectorNotify, User
  <1>6. CASE UNCHANGED vars
    BY <1>6 DEF vars
  <1> QED
    BY <1>1, <1>2, <1>3, <1>4, <1>5, <1>6 DEF Next, Operator

(* What the delivery of a version changes: if it is an event, the zones of *)
(* the old and of the new version are waited for; if not, the cache shows  *)
(* the same spec and no less of a verdict.                                 *)
LEMMA RecordDelivered ==
  ASSUME Inv, AllGapless, RecordHistory, NEW q \in Record, DeliverRecord(q)
  PROVE  /\ delayed \subseteq delayed'
         /\ \A r \in Record \ {q} : recCache'[r] = recCache[r]
         /\ \/ Kept(recCache[q], recCache'[q]) /\ recCache[q].exists = recCache'[q].exists
            \/ /\ WillWait(q, recCache'[q].spec.ref)
               /\ recCache[q].exists => WillWait(q, recCache[q].spec.ref)
  <1>1. PICK w \in recFeed[q] : TakeRecord(q, w) /\ RecordEventForZones(q, w)
    BY DEF DeliverRecord
  <1>2. recCache' = [recCache EXCEPT ![q] = w] /\ recCache \in [Record -> RecordObj]
    BY <1>1 DEF TakeRecord, Inv, RecordTypes
  <1>3. CASE IsEvent(recCache[q], w)
    <2> DEFINE refs == {w.spec.ref} \cup
                         (IF recCache[q].exists THEN {recCache[q].spec.ref} ELSE {})
    <2>1. delayed' = delayed \cup {<<q, z, w.rv>> : z \in refs}
      BY <1>1, <1>3 DEF RecordEventForZones
    <2>2. \A z \in refs : WillWait(q, z)
      <3> SUFFICES ASSUME NEW z \in refs PROVE WillWait(q, z)
        OBVIOUS
      <3>1. <<q, z, w.rv>> \in delayed'
        BY <2>1
      <3> QED
        BY <3>1 DEF WillWait
    <2> QED
      BY <1>2, <2>1, <2>2
  <1>4. CASE ~IsEvent(recCache[q], w)
    <2>1. delayed' = delayed
      BY <1>1, <1>4 DEF RecordEventForZones
    <2>2. Kept(recCache[q], w) /\ recCache[q].exists /\ w.exists
      BY <1>1, <1>4, DeliveredKeeps DEF TakeRecord, IsEvent
    <2> QED
      BY <1>2, <2>1, <2>2
  <1> QED
    BY <1>3, <1>4

LEMMA VerdictAwaitedStep ==
  ASSUME "delay" \in Timely, Inv, AllGapless, RecordHistory, RecordsAttended, VerdictAwaited,
         [Next]_vars
  PROVE  VerdictAwaited'
  <1> SUFFICES ASSUME NEW r \in Record
               PROVE  Right(recCache'[r]) \/ WillWait(r, recCache'[r].spec.ref)
    BY DEF VerdictAwaited, Waits, WillWait
  <1>1. Right(recCache[r]) \/ \E e \in delayed : e[1] = r /\ e[2] = recCache[r].spec.ref
    BY DEF VerdictAwaited, Waits
  <1>2. CASE recCache'[r] = recCache[r] /\ delayed \subseteq delayed'
    BY <1>1, <1>2 DEF WillWait
  <1>3. ASSUME NEW q \in Record, DeliverRecord(q)
        PROVE  Right(recCache'[r]) \/ WillWait(r, recCache'[r].spec.ref)
    <2>1. CASE q = r
      BY <1>1, <1>3, <2>1, RecordDelivered DEF Kept, WillWait
    <2> QED
      BY <1>2, <1>3, <2>1, RecordDelivered
  <1>4. ASSUME NEW q \in Record, NEW z \in Zone,
               RecordSettled(q), DelayExpires(q, z), UNCHANGED recCache
        PROVE  Right(recCache'[r]) \/ WillWait(r, recCache'[r].spec.ref)
    <2>1. CASE q = r
      BY <1>4, <2>1, SettledIsRight
    <2>2. PICK d \in delayed : d[1] = q /\ delayed' = delayed \ {d}
      BY <1>4 DEF DelayExpires
    <2> QED
      BY <1>1, <1>4, <2>1, <2>2 DEF WillWait
  <1>5. CASE Restart
    <2>1. CASE recs[r].exists
      <3>1. <<r, recs[r].spec.ref, recs[r].rv>> \in delayed'
        BY <1>5, <2>1 DEF Restart
      <3> QED
        BY <1>5, <3>1 DEF Restart, WillWait
    <2>2. CASE ~recs[r].exists
      BY <1>5, <2>2 DEF Restart, Right
    <2> QED
      BY <2>1, <2>2
  <1> QED
    BY <1>2, <1>3, <1>4, <1>5, DelayKinds

-----------------------------------------------------------------------------
(* The history of a zone.                                                  *)

LEMMA ZoneHistoryStep ==
  ASSUME "createZone" \notin UserOp, Inv, ZonesLag, ZoneHistory, [Next]_vars
  PROVE  ZoneHistory'
  <1>1. Inv' /\ ZoneStep
    BY NextInv, ZoneSteps
  <1> SUFFICES ASSUME NEW z \in Zone
               PROVE  LET now == zoneFeed'[z] \cup {zoneCache'[z], zones'[z]}
                      IN  /\ WillLive(z) => \A v \in now : v.exists /\ ~v.deleting
                          /\ \A v \in now : v.gen <= zones'[z].gen
                          /\ \A u, v \in now : u.gen = v.gen => u.spec = v.spec
    BY DEF ZoneHistory, Versions, Living, WillLive
  <1> DEFINE old == Versions(z)
             now == zoneFeed'[z] \cup {zoneCache'[z], zones'[z]}
  <1>2. now \subseteq old \cup {zones'[z]}
    BY <1>1, ZonesLagStep DEF Versions
  <1>3. /\ Living(z) => \A v \in old : v.exists /\ ~v.deleting
        /\ \A v \in old : v.gen <= zones[z].gen
        /\ \A u, v \in old : u.gen = v.gen => u.spec = v.spec
        /\ zones[z] \in old
    BY DEF ZoneHistory, Versions
  <1>4. WillLive(z) => Living(z)
    BY LivingStays DEF WillLive, Living
  <1>5. \/ zones'[z].gen = zones[z].gen + 1
        \/ zones'[z].gen = zones[z].gen /\ zones'[z].spec = zones[z].spec
    BY ZoneChanges DEF Changed, Written, Recreated, Edited, Reported
  <1>6. zones[z].gen \in Nat /\ \A v \in old : v.gen \in Nat
    BY DEF Inv, ZoneTypes, ZoneObj, Versions
  <1> HIDE DEF old, now
  <1> QED
    BY <1>2, <1>3, <1>4, <1>5, <1>6 DEF now, WillLive

(* What is delivered of a zone that is there is an event, or has the spec  *)
(* the cache shows.                                                        *)
LEMMA ZoneDelivered ==
  ASSUME Inv, ZoneHistory, NEW z \in Zone, Living(z), NEW v \in zoneFeed[z]
  PROVE  IsEvent(zoneCache[z], v) \/ v.spec = zoneCache[z].spec
  BY DEF ZoneHistory, Versions, IsEvent

-----------------------------------------------------------------------------
(* The zone file.                                                          *)

(* The file baked now is the one for what the caches show, but for records *)
(* that are waited for.                                                    *)
LEMMA BakedIsCurrent ==
  ASSUME Inv, VerdictAwaited, NEW z \in Zone
  PROVE  FileCurrent(z, BakedFile(z))
  <1> SUFFICES ASSUME NEW r \in Record
               PROVE  Lines(BakedFile(z), r) = LinesOf(r, recCache[r], z) \/ Waits(r, z)
    BY DEF FileCurrent, BakedFile
  <1> DEFINE v == recCache[r]
             baked == {<<q, recCache[q].status.entry>> : q \in GoodRecords(z)}
  <1>1. Lines(BakedFile(z), r) = {e \in baked : e[1] = r}
    BY DEF Lines, BakedFile
  <1>2. Lines(BakedFile(z), r) = IF r \in GoodRecords(z) THEN {<<r, v.status.entry>>} ELSE {}
    BY <1>1 DEF GoodRecords
  <1>3. CASE Right(v)
    BY <1>2, <1>3 DEF GoodRecords, LinesOf, Right
  <1>4. CASE v.spec.ref = z
    BY <1>3, <1>4 DEF VerdictAwaited
  <1>5. CASE v.spec.ref # z
    BY <1>2, <1>5 DEF GoodRecords, LinesOf
  <1> QED
    BY <1>4, <1>5

(* It is valid if the header of the zone is.                               *)
LEMMA BakedIsValid ==
  ASSUME RecordHistory, NEW z \in Zone, zoneCache[z].spec.hdr \notin BadHeader
  PROVE  ValidFile(BakedFile(z))
  BY DEF RecordHistory, RecordVersions, Sound, ValidData, ValidFile, BakedFile, GoodRecords

(* It stays current while the zone is not queued.                          *)
WillBeCurrent(z, f) ==
  /\ f.hdr = zoneCache'[z].spec.hdr
  /\ \A r \in Record : Lines(f, r) = LinesOf(r, recCache'[r], z) \/ WillWait(r, z)

LEMMA FileStaysCurrent ==
  ASSUME "delay" \in Timely, Inv, AllGapless, RecordHistory, [Next]_vars,
         NEW z \in Zone, zones[z].exists, z \notin zoneQ',
         zoneCache'[z].spec = zoneCache[z].spec,
         NEW f, FileCurrent(z, f)
  PROVE  WillBeCurrent(z, f)
  <1> SUFFICES ASSUME NEW r \in Record
               PROVE  Lines(f, r) = LinesOf(r, recCache'[r], z) \/ WillWait(r, z)
    BY DEF WillBeCurrent, FileCurrent
  <1>1. Lines(f, r) = LinesOf(r, recCache[r], z) \/ \E e \in delayed : e[1] = r /\ e[2] = z
    BY DEF FileCurrent, Waits
  <1>2. CASE recCache'[r] = recCache[r] /\ delayed \subseteq delayed'
    BY <1>1, <1>2 DEF WillWait
  <1>3. ASSUME NEW q \in Record, DeliverRecord(q)
        PROVE  Lines(f, r) = LinesOf(r, recCache'[r], z) \/ WillWait(r, z)
    <2>1. CASE r = q
      <3>1. CASE /\ recCache[q].spec = recCache'[q].spec
                 /\ recCache[q].exists = recCache'[q].exists
        BY <1>1, <1>3, <2>1, <3>1, RecordDelivered DEF LinesOf, WillWait
      <3>2. CASE ~WillWait(r, z) /\ WillWait(q, recCache'[q].spec.ref)
                 /\ (recCache[q].exists => WillWait(q, recCache[q].spec.ref))
        <4>1. LinesOf(r, recCache[r], z) = {} /\ LinesOf(r, recCache'[r], z) = {}
          BY <2>1, <3>2 DEF LinesOf
        <4>2. delayed \subseteq delayed'
          BY <1>3, RecordDelivered
        <4> QED
          BY <1>1, <3>2, <4>1, <4>2 DEF WillWait
      <3> QED
        BY <1>3, <3>1, <3>2, RecordDelivered DEF Kept
    <2> QED
      BY <1>2, <1>3, <2>1, RecordDelivered
  <1>4. ASSUME NEW q \in Record, NEW y \in Zone, DelayExpires(q, y), UNCHANGED recCache
        PROVE  Lines(f, r) = LinesOf(r, recCache'[r], z) \/ WillWait(r, z)
    <2>1. PICK d \in delayed : d[2] = y /\ delayed' = delayed \ {d}
      BY <1>4 DEF DelayExpires
    <2>2. y # z
      BY <1>4 DEF DelayExpires
    <2> QED
      BY <1>1, <1>4, <2>1, <2>2 DEF WillWait
  <1>5. CASE Restart
    BY <1>5 DEF Restart
  <1> QED
    BY <1>2, <1>3, <1>4, <1>5, DelayKinds

-----------------------------------------------------------------------------
(* The zones.                                                              *)

(* The cache of a zone that is there shows another spec only after an      *)
(* event, which puts the zone in the queue.                                *)
LEMMA SpecStays ==
  ASSUME Inv, ZoneHistory, [Next]_vars, NEW z \in Zone, Living(z), z \notin zoneQ'
  PROVE  zoneCache'[z].spec = zoneCache[z].spec
  <1> USE DEF cacheVars, clusterVars, zoneCtlVars
  <1>1. CASE UNCHANGED zoneCache
    BY <1>1
  <1>2. CASE \E q \in Zone : DeliverZone(q)
    <2> PICK q \in Zone : DeliverZone(q)
      BY <1>2
    <2>1. PICK w \in zoneFeed[q] : TakeZone(q, w) /\ ZoneEvent(q, w)
      BY DEF DeliverZone
    <2>2. zoneCache' = [zoneCache EXCEPT ![q] = w] /\ zoneCache \in [Zone -> ZoneObj]
      BY <2>1 DEF TakeZone, Inv, ZoneTypes
    <2>3. CASE q = z
      <3>1. ~IsEvent(zoneCache[z], w)
        BY <2>1, <2>3 DEF ZoneEvent
      <3>2. w.spec = zoneCache[z].spec
        BY <2>1, <2>3, <3>1, ZoneDelivered
      <3> QED
        BY <2>2, <2>3, <3>2
    <2> QED
      BY <2>2, <2>3
  <1>3. CASE Restart
    BY <1>3 DEF Restart, Living
  <1>4. CASE RecordCtl \/ Delay \/ UNCHANGED vars
    BY <1>1, <1>4 DEF RecordCtl, RecordReconcile, RecordNotFound, RecordAddFinalizer,
       RecordDelete, RecordValidate, RecordRest, Delay, DelayExpires, vars
  <1>5. CASE ZoneCtl
    BY <1>1, <1>5 DEF ZoneCtl, ZoneBegin, ZoneNotFound, ZoneAddFinalizer, ZoneStartDelete,
       ZoneStartUpdate, ZoneWork, ZoneInvalid, ZonePublish, ZoneRemoveFinalizer, ZoneCreateCM,
       ZoneUpdateCM, ZoneAddCMFinalizer, ZoneJoin, ZoneUnjoin, ZoneFault, ZoneRest
  <1>6. CASE Environment
    BY <1>1, <1>6 DEF Environment, Tick, UserStep, CreateRecord, EditRecord, DeleteRecord,
       CreateZone, EditZone, LabelZone, DeleteZone, DeleteCM, GarbageCollect, ConnectorNotify, User
  <1>7. CASE Deliver
    BY <1>1, <1>2, <1>7 DEF Deliver, DeliverRecord, DeliverCM
  <1> QED
    BY <1>3, <1>4, <1>5, <1>6, <1>7 DEF Next, Operator

(* The queue gives a zone that the cache shows to the worker, and to       *)
(* nobody else.                                                            *)
LEMMA LeavesQueue ==
  ASSUME Inv, [Next]_vars, NEW z \in Zone, z \in zoneQ, z \notin zoneQ', zoneCache[z].exists
  PROVE  \/ ZoneStartUpdate(z) \/ (Restart /\ ~zones[z].exists)
         \/ zoneCache[z].deleting /\ ZoneStartDelete(z)
  <1> USE DEF clusterVars, zoneCtlVars
  <1>2. CASE ZoneCtl
    <2>1. CASE \E q \in Zone : ZoneBegin(q)
      BY <2>1 DEF ZoneBegin, ZoneNotFound, ZoneAddFinalizer, ZoneStartDelete,
                   ZoneStartUpdate
    <2>2. CASE ZoneWork \/ ZoneFault
      BY <2>2 DEF ZoneWork, ZoneInvalid, ZonePublish, WriteZoneStatus, ZoneRemoveFinalizer,
           ZoneCreateCM, ZoneUpdateCM, ZoneAddCMFinalizer, ZoneJoin, ZoneUnjoin, NotifyRecord,
           ZoneFault, Succeed, Fail
    <2> QED
      BY <1>2, <2>1, <2>2 DEF ZoneCtl
  <1>3. CASE RecordCtl \/ Environment \/ UNCHANGED vars
    BY <1>3 DEF RecordCtl, Environment, Tick, vars
  <1>4. CASE Delay \/ Deliver
    BY <1>4 DEF Delay, DelayExpires, Deliver, DeliverRecord, DeliverZone, ZoneEvent, DeliverCM
  <1>5. CASE Restart
    BY <1>5 DEF Restart
  <1> QED
    BY <1>2, <1>3, <1>4, <1>5 DEF Next, Operator

(* The worker finishes writing a zone file, or the zone is queued again.   *)
LEMMA WriterGoesOn ==
  ASSUME Inv, [Next]_vars, Baking(zw), zones[zw.key].exists, zw.key \notin zoneQ'
  PROVE  zw' = zw \/ (Proceeds /\ WriteStep)
  <1> USE DEF zoneCtlVars
  <1>1. CASE ZoneCtl
    <2>1. ~\E z \in Zone : ZoneBegin(z)
      BY DEF Baking, ZoneBegin, ZoneNotFound, ZoneAddFinalizer, ZoneStartDelete, ZoneStartUpdate, At
    <2>2. ZoneWork \/ ZoneFault
      BY <1>1, <2>1 DEF ZoneCtl
    <2>3. ~ZoneFault /\ ~Fail
      BY DEF ZoneFault, Fail
    <2>4. WriteStep
      BY <2>2, <2>3 DEF Baking, ZoneWork, ZoneInvalid, ZonePublish, ZoneRemoveFinalizer,
         ZoneAddCMFinalizer, ZoneJoin, ZoneUnjoin, At, WriteStep
    <2>5. Drops \/ Proceeds
      BY <2>2, WorkMoves
    <2>6. ~Drops
      <3>1. zw'.pc \in {"update", "status"}
        <4>1. zw \in Worker
          BY DEF Inv, WorkTypes
        <4> QED
          BY <2>3, <2>4, <4>1 DEF WriteStep, ZoneCreateCM, ZoneUpdateCM, Succeed, Worker
      <3> QED
        BY <3>1 DEF Drops, HoldsCopy
    <2> QED
      BY <2>4, <2>5, <2>6
  <1>2. CASE RecordCtl \/ Delay \/ Deliver \/ Environment \/ UNCHANGED vars
    BY <1>2 DEF RecordCtl, Delay, DelayExpires, Deliver, DeliverRecord, DeliverZone, DeliverCM,
                Environment, Tick, vars
  <1>3. CASE Restart
    <2>1. zw.key \in Zone
      BY WorkerFields
    <2> QED
      BY <1>3, <2>1 DEF Restart
  <1> QED
    BY <1>1, <1>2, <1>3 DEF Next, Operator

WillWrite(z) == Baking(zw') /\ zw'.key = z
WillBeServed(z) ==
  IF WillWrite(z) THEN zw'.copy.spec = zoneCache'[z].spec /\ WillBeCurrent(z, zw'.file)
  ELSE LET cm == cms'[CMOf(z, zoneCache'[z].spec)]
       IN  cm.exists /\ WillBeCurrent(z, cm.file)

(* The config map of a zone that nobody writes keeps its file.             *)
LEMMA ServedStays ==
  ASSUME "deleteCM" \notin UserOp, CheckpointInv, [Next]_vars,
         NEW z \in Zone, Living(z), ~Writes(z),
         NEW n \in CMName, n[2] = z, cms[n].exists
  PROVE  cms'[n].exists /\ cms'[n].file = cms[n].file
  <1>1. cms'[n].exists
    BY OwnedStays DEF CheckpointInv, StaysOwned
  <1>2. ~(Baking(zw) /\ n = CMOf(zw.key, zw.copy.spec))
    BY DEF Writes, CMOf
  <1> QED
    BY <1>1, <1>2, FileChanges DEF CheckpointInv

(* A reconciliation that starts finds the file in the config map, or holds *)
(* the one to write.                                                       *)
LEMMA StartServes ==
  ASSUME "cm" \in Timely, Inv, AllGapless, RecordHistory, VerdictAwaited,
         NEW z \in Zone, ZoneStartUpdate(z), zoneCache[z].spec.hdr \notin BadHeader
  PROVE  LET n == CMOf(z, zoneCache[z].spec)
         IN  \/ /\ Baking(zw') /\ zw'.key = z
                /\ zw'.copy.spec = zoneCache[z].spec /\ zw'.file = BakedFile(z)
             \/ /\ ~Baking(zw') /\ cms' = cms
                /\ cms[n].exists /\ cms[n].file = BakedFile(z)
  <1> DEFINE n == CMOf(z, zoneCache[z].spec)
             file == BakedFile(z)
  <1>1. ValidFile(file)
    BY BakedIsValid
  <1>2. n \in CMName
    BY DEF CMOf, CMName, Inv, ZoneTypes, ZoneObj, ZoneSpec
  <1>3. cmFeed[n] = {} /\ UNCHANGED cms
    BY DEF ZoneStartUpdate, ApiRest, cmVars
  <1>4. cmCache[n] = cms[n]
    BY <1>2, <1>3, NothingLeft DEF AllGapless
  <1>5. CASE SameZonefile(cmCache[n], file)
    <2>1. zw' = Loop("join", z, GoodRecords(z), "idle")
      BY <1>1, <1>5 DEF ZoneStartUpdate
    <2>2. ~Baking(zw')
      BY <2>1, LoopHoldsNoFile
    <2> QED
      BY <1>3, <1>4, <1>5, <2>2 DEF SameZonefile
  <1>6. CASE ~SameZonefile(cmCache[n], file)
    <2>1. zw' = [pc |-> IF cmCache[n].exists THEN "update" ELSE "create",
                 key |-> z, copy |-> zoneCache[z], file |-> file, serial |-> clock,
                 cmrv |-> 0, todo |-> GoodRecords(z)]
      BY <1>1, <1>6 DEF ZoneStartUpdate
    <2> HIDE DEF n, file
    <2>2. zw'.key = z /\ zw'.copy = zoneCache[z] /\ zw'.file = file /\ Baking(zw')
      BY <2>1 DEF Baking
    <2> QED
      BY <2>2 DEF file
  <1> QED
    BY <1>5, <1>6

(* The worker's write.                                                     *)
LEMMA WriteServes ==
  ASSUME "deleteCM" \notin UserOp, CheckpointInv, [Next]_vars,
         Writes(zw.key), Living(zw.key), zw.key \notin zoneQ'
  PROVE  \/ /\ Baking(zw') /\ zw'.key = zw.key /\ zw'.copy = zw.copy /\ zw'.file = zw.file
         \/ LET n == CMOf(zw.key, zw.copy.spec)
            IN  ~Baking(zw') /\ cms'[n].exists /\ cms'[n].file = zw.file
  <1> DEFINE n == CMOf(zw.key, zw.copy.spec)
  <1>0. Inv
    BY DEF CheckpointInv
  <1>1. zw' = zw \/ (Proceeds /\ WriteStep)
    BY <1>0, WriterGoesOn DEF Writes, Living
  <1>2. n \in CMName /\ n[2] = zw.key /\ cms \in [CMName -> CMObj]
    BY <1>0, WorkerFields DEF CMOf, Inv, CMTypes
  <1>3. CASE zw' = zw
    BY <1>3 DEF Writes
  <1>4. CASE Proceeds /\ WriteStep /\ zw'.pc = "update"
    BY <1>4 DEF Proceeds, Baking
  <1>5. CASE Proceeds /\ WriteStep /\ At("update") /\ zw'.pc = "status" /\ cms[n].exists
    <2>1. ~Baking(zw') /\ zw' # Idle
      BY <1>5 DEF Baking, Idle
    <2>2. \E obj \in CMObj : Stores(n, obj)
      BY <1>0, <1>5, <2>1, WriteEffect DEF Failed
    <2>3. cms'[n].file = zw.file
      BY <1>2, <2>2 DEF Stores
    <2>4. cms'[n].exists
      BY <1>2, <1>5, OwnedStays DEF CheckpointInv, StaysOwned
    <2> QED
      BY <2>1, <2>3, <2>4
  <1> QED
    BY <1>1, <1>3, <1>4, <1>5 DEF Proceeds, Writes, Baking, At

LEMMA ZonesAttendedStep ==
  ASSUME "cm" \in Timely, "delay" \in Timely, "deleteCM" \notin UserOp, "createZone" \notin UserOp,
         EventInv, [Next]_vars
  PROVE  ZonesAttended'
  <1> SUFFICES ASSUME NEW z \in Zone, WillLive(z), zoneCache'[z].spec.hdr \notin BadHeader,
                      z \notin zoneQ'
               PROVE  WillBeServed(z)
    BY DEF ZonesAttended, Wanted, Living, WillLive, ZoneServed, Writes, WillBeServed, WillWrite,
           FileCurrent, WillBeCurrent, Waits, WillWait
  <1> USE DEF EventInv
  <1>0. Inv
    BY DEF CheckpointInv
  <1>1. Living(z)
    BY <1>0, LivingStays DEF WillLive, Living
  <1>2. zoneCache'[z].spec = zoneCache[z].spec
    BY <1>0, <1>1, SpecStays
  <1>3. \A f : FileCurrent(z, f) => WillBeCurrent(z, f)
    BY <1>0, <1>1, <1>2, FileStaysCurrent DEF Living
  <1>4. FileCurrent(z, BakedFile(z))
    BY <1>0, BakedIsCurrent
  <1> DEFINE n == CMOf(z, zoneCache[z].spec)
  <1>5. n \in CMName /\ n[2] = z
    BY <1>0 DEF CMOf, CMName, Inv, ZoneTypes, ZoneObj, ZoneSpec
  <1>6. CASE z \in zoneQ
    <2>1. \/ /\ Baking(zw') /\ zw'.key = z
             /\ zw'.copy.spec = zoneCache[z].spec /\ zw'.file = BakedFile(z)
          \/ ~Baking(zw') /\ cms' = cms /\ cms[n].exists /\ cms[n].file = BakedFile(z)
      <3>1. zoneCache[z].exists /\ ~zoneCache[z].deleting
        BY <1>1 DEF ZoneHistory, Versions
      <3>2. ZoneStartUpdate(z)
        BY <1>0, <1>1, <1>6, <3>1, LeavesQueue DEF Living
      <3> QED
        BY <1>0, <1>1, <1>2, <3>2, StartServes
    <2> QED
      BY <1>2, <1>3, <1>4, <2>1 DEF WillBeServed, WillWrite
  <1>7. CASE z \notin zoneQ /\ Writes(z)
    <2>1. zw.copy.spec = zoneCache[z].spec /\ FileCurrent(z, zw.file)
      BY <1>1, <1>2, <1>7 DEF ZonesAttended, Wanted, ZoneServed
    <2>2. \/ /\ Baking(zw') /\ zw'.key = z /\ zw'.copy = zw.copy /\ zw'.file = zw.file
          \/ ~Baking(zw') /\ cms'[n].exists /\ cms'[n].file = zw.file
      BY <1>1, <1>7, <2>1, WriteServes DEF Writes, CMOf
    <2> QED
      BY <1>2, <1>3, <2>1, <2>2 DEF WillBeServed, WillWrite
  <1>8. CASE z \notin zoneQ /\ ~Writes(z)
    <2>1. cms[n].exists /\ FileCurrent(z, cms[n].file)
      BY <1>1, <1>2, <1>8 DEF ZonesAttended, Wanted, ZoneServed
    <2>2. cms'[n].exists /\ cms'[n].file = cms[n].file
      BY <1>1, <1>5, <1>8, <2>1, ServedStays
    <2>3. CASE WillWrite(z)
      <3>1. zw'.copy = zoneCache[z] /\ zw'.file = BakedFile(z)
        <4>1. WorkerMoves
          BY <1>0, Moving
        <4> QED
          BY <1>8, <2>3, <4>1 DEF WillWrite, Writes, Baking, WorkerMoves, Drops, HoldsCopy,
                                  Reads, Proceeds, At
      <3> QED
        BY <1>2, <1>3, <1>4, <2>3, <3>1 DEF WillBeServed
    <2>4. CASE ~WillWrite(z)
      BY <1>2, <1>3, <2>1, <2>2, <2>4 DEF WillBeServed
    <2> QED
      BY <2>3, <2>4
  <1> QED
    BY <1>6, <1>7, <1>8

-----------------------------------------------------------------------------
(* The theorem.                                                            *)

LEMMA InitEvents == Init => EventInv
  <1> SUFFICES ASSUME Init PROVE EventInv
    OBVIOUS
  <1>1. CheckpointInv
    BY InitCheckpoint
  <1>2. Inv
    BY <1>1 DEF CheckpointInv
  <1>3. /\ \A r \in Record : recFeed[r] = {} /\ recCache[r] = recs[r]
        /\ \A z \in Zone : zoneFeed[z] = {} /\ zoneCache[z] = zones[z]
        /\ \A n \in CMName : cmFeed[n] = {} /\ cmCache[n] = cms[n]
    BY DEF Init
  <1>4. /\ \A r \in Record : recs[r].rv \in Nat /\ ~recs[r].status.passed
        /\ \A z \in Zone : zones[z].rv \in Nat /\ zones[z].gen \in Nat
        /\ \A n \in CMName : cms[n].rv \in Nat
    <2>1. \A r \in Record : ~recs[r].status.passed
      BY DEF Init, NewRecord, NoRecordStatus
    <2> QED
      BY <1>2, <2>1 DEF Inv, RecordTypes, RecordObj, ZoneTypes, ZoneObj, CMTypes, CMObj
  <1>5. AllGapless
    BY <1>3, <1>4 DEF AllGapless, Gapless, Lags
  <1>6. RecordHistory
    <2>1. \A r \in Record : ~recs[r].deleting /\ recs[r].gen = 1 /\ recs[r].status.ogen = 0
      BY DEF Init, NewRecord, NoRecordStatus
    <2> QED
      BY <1>3, <1>4, <2>1 DEF RecordHistory, RecordVersions, Sound, Timed, Marked
  <1>7. RecordsAttended /\ ZonesAttended
    BY DEF Init, RecordsAttended, ZonesAttended
  <1>8. VerdictAwaited
    <2> SUFFICES ASSUME NEW r \in Record PROVE Waits(r, recCache[r].spec.ref)
      BY DEF VerdictAwaited
    <2>1. <<r, recs[r].spec.ref, recs[r].rv>> \in delayed
      BY DEF Init
    <2> QED
      BY <1>3, <2>1 DEF Waits
  <1>9. ZoneHistory
    BY <1>3, <1>4 DEF ZoneHistory, Versions, Living
  <1> QED
    BY <1>1, <1>5, <1>6, <1>7, <1>8, <1>9 DEF EventInv

LEMMA NextEvents ==
  ASSUME "cm" \in Timely, "delay" \in Timely, "deleteCM" \notin UserOp, "createZone" \notin UserOp,
         EventInv, [Next]_vars
  PROVE  EventInv'
  <1>1. CheckpointInv' /\ Inv /\ ZonesLag
    BY NextCheckpoint DEF EventInv, CheckpointInv
  <1>2. AllGapless' /\ RecordHistory' /\ RecordsAttended'
    BY <1>1, GaplessStep, RecordHistoryStep, RecordsAttendedStep DEF EventInv
  <1>3. VerdictAwaited' /\ ZoneHistory' /\ ZonesAttended'
    BY <1>1, VerdictAwaitedStep, ZoneHistoryStep, ZonesAttendedStep DEF EventInv
  <1> QED
    BY <1>1, <1>2, <1>3 DEF EventInv

(* With nothing left to do, what the caches show is what is stored.        *)
LEMMA QuietIsRight == EventInv => QuiescentFilesRight
  <1> SUFFICES ASSUME EventInv, Quiescent, NEW z \in Zone, Publishable(z)
               PROVE  LET cm == cms[CMOf(z, zones[z].spec)]
                      IN  cm.exists /\ cm.file = DesiredFile(z)
    BY DEF QuiescentFilesRight
  <1> DEFINE cm == cms[CMOf(z, zones[z].spec)]
  <1>1. zoneCache[z] = zones[z] /\ \A r \in Record : recCache[r] = recs[r]
    <2>1. Gapless(zones[z], {}, zoneCache[z])
      BY DEF EventInv, AllGapless, Quiescent
    <2>2. \A r \in Record : Gapless(recs[r], {}, recCache[r])
      BY DEF EventInv, AllGapless, Quiescent, RecordSettled
    <2> QED
      BY <2>1, <2>2, NothingLeft
  <1>2. Wanted(z) /\ z \notin zoneQ /\ ~Writes(z)
    BY <1>1 DEF Quiescent, Publishable, Wanted, Living, Writes, Baking, Idle
  <1>3. cm.exists /\ FileCurrent(z, cm.file)
    BY <1>1, <1>2 DEF EventInv, ZonesAttended, ZoneServed
  <1>4. \A r \in Record : Lines(cm.file, r) = LinesOf(r, recs[r], z)
    BY <1>1, <1>3 DEF FileCurrent, Waits, Quiescent
  <1>5. cm.file \in File
    BY DEF EventInv, CheckpointInv, Inv, CMTypes, CMObj, CMName, CMOf, Publishable, ZoneTypes,
           ZoneObj, ZoneSpec
  <1>6. cm.file.hdr = zones[z].spec.hdr
    BY <1>1, <1>3 DEF FileCurrent
  <1> DEFINE good == {q \in Record : /\ recs[q].exists
                                     /\ recs[q].spec.ref = z
                                     /\ ValidData(recs[q].spec.data)}
             desired == {<<r, recs[r].spec.data>> : r \in good}
  <1> HIDE DEF cm
  <1>7. cm.file.entries = desired
    <2>1. ASSUME NEW e \in cm.file.entries PROVE e \in desired
      <3>1. e[1] \in Record /\ e \in Lines(cm.file, e[1])
        BY <1>5 DEF File, Lines
      <3>2. e \in LinesOf(e[1], recs[e[1]], z)
        BY <1>4, <3>1
      <3> QED
        BY <3>1, <3>2 DEF LinesOf
    <2>2. ASSUME NEW r \in good PROVE <<r, recs[r].spec.data>> \in cm.file.entries
      <3>1. <<r, recs[r].spec.data>> \in Lines(cm.file, r)
        BY <1>4 DEF LinesOf
      <3> QED
        BY <3>1 DEF Lines
    <2> QED
      BY <2>1, <2>2
  <1>8. cm.file = DesiredFile(z)
    BY <1>5, <1>6, <1>7 DEF File, DesiredFile
  <1> QED
    BY <1>3, <1>8 DEF cm

(* An operator with nothing left to do has published what users asked for. *)
(* No event is lost from a record through two controllers to the zone      *)
(* file, for any number of records and zones, edits, conflicts, failed     *)
(* calls and restarts.  The sleep over a record's event and the lag of     *)
(* config maps must be what their names in Timely say; a config map that   *)
(* is deleted by hand is not missed, and a zone that is created again may  *)
(* lose its predecessor's to the garbage collector.                        *)
THEOREM NoEventLost ==
  ASSUME "cm" \in Timely, "delay" \in Timely, "deleteCM" \notin UserOp, "createZone" \notin UserOp
  PROVE  Spec => []QuiescentFilesRight
  <1>1. EventInv /\ [Next]_vars => EventInv'
    BY NextEvents
  <1> QED
    BY <1>1, InitEvents, QuietIsRight, PTL DEF Spec

-----------------------------------------------------------------------------
(* No verdict and no notification is lost: what a record is told.          *)

(* A mark of deletion stays as long as the zone, and comes with an event.  *)
MarkKept(u, v) == /\ u.exists /\ u.deleting => v.deleting
                  /\ IsEvent(u, v) \/ u.deleting = v.deleting
MarksStay ==
  \A z \in Zone : \A u, v \in Versions(z) : v.rv = u.rv + 1 => MarkKept(u, v)

(* The cache will show another generation of r, or none, and the operator  *)
(* will be told.                                                           *)
EventAhead(r) == \E v \in recFeed[r] : IsEvent(recCache[r], v)

(* A bad record stays in the queue, and is tried again and again.          *)
BadRecordsQueued ==
  \A r \in Record : recCache[r].exists /\ ~ValidData(recCache[r].spec.data)
                      => r \in recQ \/ EventAhead(r)

(* While a good record is in the queue, its zone waits for it.             *)
QueuedRecordsAwaited ==
  \A r \in Record : r \in recQ /\ recCache[r].exists /\ ValidData(recCache[r].spec.data)
                      => Waits(r, recCache[r].spec.ref)

(* The zone of a good record is there, as far as the caches show.          *)
Joinable(r) == LET z == recCache[r].spec.ref
             IN  /\ recCache[r].exists /\ ValidData(recCache[r].spec.data)
                 /\ zoneCache[z].exists /\ ~zoneCache[z].deleting
ZoneCalled(r) == LET z == recCache[r].spec.ref IN Waits(r, z) \/ z \in zoneQ

(* The worker is on its way to tell r that it joined z.                    *)
Tells(w, r, z) == /\ w.key = z /\ r \in w.todo
                  /\ w.pc \in {"invalid", "create", "update", "status", "cmfin", "join"}

(* Each good record of a zone was told that it joined, or will be.         *)
JoinsAwaited ==
  \A r \in Record : Joinable(r) =>
    \/ EventAhead(r) \/ ZoneCalled(r) \/ Tells(zw, r, recCache[r].spec.ref)
    \/ recs[r].status.cond = "Ready"

(* The end of a zone takes back "Ready" only from a record that is told    *)
(* again.                                                                  *)
UnjoinsAwaited ==
  At("unjoin") => \A r \in zw.todo : Joinable(r) => ZoneCalled(r)

JoinInv == /\ Inv /\ AllGapless /\ MarksStay
           /\ RecordHistory /\ RecordsAttended /\ VerdictAwaited
           /\ BadRecordsQueued /\ QueuedRecordsAwaited /\ JoinsAwaited /\ UnjoinsAwaited

(* What consecutive versions of a zone have in common outlasts a step that *)
(* extends the versions by one.                                            *)
LEMMA MarksStayOver ==
  ASSUME Inv, AllGapless, MarksStay, ZoneStep,
         \A z \in Zone : zones'[z] = zones[z] \/ MarkKept(zones[z], zones'[z])
  PROVE  MarksStay'
  <1> SUFFICES ASSUME NEW z \in Zone
               PROVE  LET now == zoneFeed'[z] \cup {zoneCache'[z], zones'[z]}
                      IN  \A u, v \in now : v.rv = u.rv + 1 => MarkKept(u, v)
    BY DEF MarksStay, Versions
  <1> DEFINE old == zoneFeed[z] \cup {zoneCache[z], zones[z]}
             now == zoneFeed'[z] \cup {zoneCache'[z], zones'[z]}
  <1>1. ZonesLag
    BY DEF AllGapless, Gapless, ZonesLag
  <1>2. /\ zones'[z] = zones[z] \/ zones'[z].rv = zones[z].rv + 1
        /\ now \subseteq old \cup {zones'[z]}
    BY <1>1, ZonesLagStep DEF Versions
  <1>3. /\ zones[z] \in old /\ \A v \in old : v.rv \in Nat /\ v.rv <= zones[z].rv
        /\ \A v \in old : v.rv = zones[z].rv => v = zones[z]
    BY DEF AllGapless, Gapless, Lags, Inv, ZoneTypes, ZoneObj
  <1>4. \A u, v \in old : v.rv = u.rv + 1 => MarkKept(u, v)
    BY DEF MarksStay, Versions
  <1> HIDE DEF old, now
  <1>5. CASE now \subseteq old
    BY <1>4, <1>5 DEF now
  <1>6. CASE zones'[z].rv = zones[z].rv + 1
    <2>1. \A u \in old : zones'[z].rv = u.rv + 1 => u = zones[z]
      BY <1>3, <1>6
    <2>2. \A v \in old : v.rv # zones'[z].rv + 1
      BY <1>3, <1>6
    <2>3. MarkKept(zones[z], zones'[z])
      BY <1>3, <1>6
    <2>4. zones'[z].rv # zones'[z].rv + 1
      BY <1>3, <1>6
    <2> QED
      BY <1>2, <1>4, <2>1, <2>2, <2>3, <2>4 DEF now
  <1> QED
    BY <1>2, <1>3, <1>5, <1>6 DEF now

LEMMA MarksStayStep ==
  ASSUME Inv, AllGapless, MarksStay, [Next]_vars
  PROVE  MarksStay'
  <1>1. \A z \in Zone : zones[z].gen \in Nat
    BY DEF Inv, ZoneTypes, ZoneObj
  <1>2. ASSUME NEW z \in Zone PROVE zones'[z] = zones[z] \/ MarkKept(zones[z], zones'[z])
    BY <1>1, ZoneChanges DEF Changed, Written, Edited, Reported, MarkKept, IsEvent
  <1> QED
    BY <1>2, MarksStayOver, ZoneSteps

(* An event that is ahead stays ahead until it is delivered.               *)
LEMMA EventsStayAhead ==
  ASSUME Inv, AllGapless, RecordHistory, [Next]_vars, NEW r \in Record, EventAhead(r)
  PROVE  \/ \E v \in recFeed'[r] : IsEvent(recCache'[r], v)
         \/ \E v \in recFeed[r] : DeliverRecord(r) /\ recCache'[r] = v /\ IsEvent(recCache[r], v)
         \/ Restart
  <1>1. PICK w \in recFeed[r] : IsEvent(recCache[r], w)
    BY DEF EventAhead
  <1>2. CASE recCache'[r] = recCache[r]
    BY <1>1, <1>2, NothingTaken
  <1>3. ASSUME NEW q \in Record, DeliverRecord(q), recCache'[r] # recCache[r]
        PROVE  \/ \E v \in recFeed'[r] : IsEvent(recCache'[r], v)
               \/ \E v \in recFeed[r] :
                    DeliverRecord(r) /\ recCache'[r] = v /\ IsEvent(recCache[r], v)
    <2>1. PICK v \in recFeed[q] : TakeRecord(q, v)
      BY <1>3 DEF DeliverRecord
    <2>2. /\ recCache' = [recCache EXCEPT ![q] = v]
          /\ recFeed' = [recFeed EXCEPT ![q] = @ \ {v}]
      BY <2>1 DEF TakeRecord
    <2>3. recCache \in [Record -> RecordObj] /\ recFeed \in [Record -> SUBSET RecordObj]
      BY DEF Inv, RecordTypes
    <2>4. q = r /\ recCache'[r] = v /\ recFeed'[r] = recFeed[r] \ {v}
      BY <1>3, <2>2, <2>3
    <2>5. CASE ~IsEvent(recCache[r], v)
      <3>1. w \in recFeed'[r] /\ IsEvent(v, w)
        BY <1>1, <2>4, <2>5 DEF IsEvent
      <3> QED
        BY <2>4, <3>1
    <2> QED
      BY <1>3, <2>1, <2>4, <2>5
  <1>4. CASE UNCHANGED recCache
    BY <1>2, <1>4
  <1>5. ASSUME NEW q \in Record, RecordReconcile(q)
        PROVE  UNCHANGED recCache
    BY <1>5 DEF RecordReconcile, RecordNotFound, RecordAddFinalizer, RecordDelete, RecordValidate,
                RecordRest, clusterVars, cacheVars
  <1> QED
    BY <1>2, <1>3, <1>4, <1>5, RecordKinds DEF RecordsUntouched, RecordsWritten

WillTell(r, z) == Tells(zw', r, z)
EventWillBeAhead(r) == \E v \in recFeed'[r] : IsEvent(recCache'[r], v)

(* What both controllers make of a version that is delivered.              *)
LEMMA DeliveredIsTold ==
  ASSUME Inv, NEW q \in Record, DeliverRecord(q)
  PROVE  /\ recQ \subseteq recQ' /\ \A r \in Record \ {q} : recCache'[r] = recCache[r]
         /\ recQ' \subseteq recQ \cup {q}
         /\ IF IsEvent(recCache[q], recCache'[q])
              THEN q \in recQ' /\ WillWait(q, recCache'[q].spec.ref)
              ELSE recQ' = recQ
  <1>1. PICK w \in recFeed[q] : /\ TakeRecord(q, w) /\ RecordEvent(q, w)
                                /\ RecordEventForZones(q, w)
    BY DEF DeliverRecord
  <1>2. /\ recCache' = [recCache EXCEPT ![q] = w] /\ recCache \in [Record -> RecordObj]
        /\ recCache'[q] = w
    BY <1>1 DEF TakeRecord, Inv, RecordTypes
  <1>3. CASE IsEvent(recCache[q], w)
    <2> DEFINE refs == {w.spec.ref} \cup
                         (IF recCache[q].exists THEN {recCache[q].spec.ref} ELSE {})
    <2>1. delayed' = delayed \cup {<<q, z, w.rv>> : z \in refs} /\ recQ' = recQ \cup {q}
      BY <1>1, <1>3 DEF RecordEventForZones, RecordEvent
    <2>2. <<q, w.spec.ref, w.rv>> \in delayed'
      BY <2>1
    <2>3. WillWait(q, w.spec.ref)
      BY <2>2 DEF WillWait
    <2> QED
      BY <1>2, <1>3, <2>1, <2>3
  <1>4. CASE ~IsEvent(recCache[q], w)
    BY <1>1, <1>2, <1>4 DEF RecordEvent
  <1> QED
    BY <1>3, <1>4

LEMMA ReconcilerReadsOnly ==
  ASSUME NEW q \in Record, RecordReconcile(q)
  PROVE  recCache' = recCache /\ recQ' \subseteq recQ /\ recQ \ {q} \subseteq recQ'
  BY DEF RecordReconcile, RecordNotFound, RecordAddFinalizer, RecordDelete, RecordValidate,
         RecordRest, clusterVars, cacheVars

(* Without the delivery of an event and without a restart, the cache shows *)
(* the same spec of a record, and the same mark.                           *)
LEMMA CachedSpecStays ==
  ASSUME Inv, AllGapless, RecordHistory, [Next]_vars, NEW r \in Record
  PROVE  \/ /\ recCache'[r].spec = recCache[r].spec
            /\ recCache'[r].exists = recCache[r].exists
            /\ recCache'[r].deleting = recCache[r].deleting
            /\ r \in recQ' => r \in recQ
         \/ r \in recQ' /\ WillWait(r, recCache'[r].spec.ref)
         \/ Restart
  <1>1. ASSUME NEW q \in Record, DeliverRecord(q)
        PROVE  \/ /\ recCache'[r].spec = recCache[r].spec
                  /\ recCache'[r].exists = recCache[r].exists
                  /\ recCache'[r].deleting = recCache[r].deleting
                  /\ r \in recQ' => r \in recQ
               \/ r \in recQ' /\ WillWait(r, recCache'[r].spec.ref)
    <2>1. CASE q = r
      <3>1. PICK w \in recFeed[q] : TakeRecord(q, w)
        BY <1>1 DEF DeliverRecord
      <3>2. recCache'[q] = w
        BY <3>1 DEF TakeRecord, Inv, RecordTypes
      <3>3. IsEvent(recCache[q], w) \/ Kept(recCache[q], w)
        BY <3>1, DeliveredKeeps DEF TakeRecord
      <3>4. IF IsEvent(recCache[q], recCache'[q])
              THEN q \in recQ' /\ WillWait(q, recCache'[q].spec.ref)
              ELSE recQ' = recQ
        BY <1>1, DeliveredIsTold
      <3>5. CASE IsEvent(recCache[q], recCache'[q])
        BY <2>1, <3>4, <3>5
      <3>6. CASE ~IsEvent(recCache[q], recCache'[q])
        <4>1. recCache'[q].exists = recCache[q].exists
          BY <3>2, <3>6 DEF IsEvent, Inv, RecordTypes, RecordObj
        <4> QED
          BY <2>1, <3>2, <3>3, <3>4, <3>6, <4>1 DEF Kept
      <3> QED
        BY <3>5, <3>6
    <2> QED
      BY <1>1, <2>1, DeliveredIsTold
  <1>2. CASE \E q \in Record : RecordReconcile(q)
    BY <1>2, ReconcilerReadsOnly
  <1> QED
    BY <1>1, <1>2, RecordKinds DEF RecordsUntouched, RecordsWritten

LEMMA DeletedRecordGone ==
  ASSUME Inv, NEW r \in Record, RecordDelete(r)
  PROVE  ~recs'[r].exists
  <1> DEFINE new == [recCache[r] EXCEPT !.fin = FALSE]
  <1>1. recs[r] \in RecordObj /\ recCache[r] \in RecordObj /\ recs \in [Record -> RecordObj]
    BY DEF Inv, RecordTypes
  <1>2. new \in RecordObj /\ new.deleting /\ ~new.fin
    BY <1>1 DEF RecordDelete, RecordObj
  <1>3. recs'[r] = Stored(recs[r], new)
    BY <1>1 DEF RecordDelete, PutRecord
  <1> HIDE DEF new
  <1> QED
    BY <1>1, <1>2, <1>3, StoredRecordSame

LEMMA BadRecordsQueuedStep ==
  ASSUME Inv, AllGapless, RecordHistory, BadRecordsQueued, [Next]_vars
  PROVE  BadRecordsQueued'
  <1> SUFFICES ASSUME NEW r \in Record, recCache'[r].exists,
                      ~ValidData(recCache'[r].spec.data), r \notin recQ', ~Restart
               PROVE  EventWillBeAhead(r)
    BY DEF BadRecordsQueued, EventAhead, EventWillBeAhead, Restart
  <1>1. /\ recCache'[r].spec = recCache[r].spec /\ recCache[r].exists
        /\ ~ValidData(recCache[r].spec.data)
    BY CachedSpecStays
  <1>2. CASE r \in recQ
    <2>1. RecordReconcile(r)
      BY <1>2, RecordKinds, ReconcilerReadsOnly, DeliveredIsTold
         DEF RecordsUntouched, RecordsWritten
    <2>2. RecordDelete(r)
      BY <1>1, <1>2, <2>1 DEF RecordReconcile, RecordNotFound, RecordAddFinalizer, RecordValidate
    <2>3. recCache'[r] = recCache[r]
      BY <2>1, ReconcilerReadsOnly
    <2>4. recs'[r] \in recFeed'[r]
      BY <1>1, <2>2, <2>3, DeletedRecordGone, NothingTaken
    <2> QED
      BY <2>2, <2>4, DeletedRecordGone DEF EventWillBeAhead, IsEvent
  <1>3. CASE r \notin recQ
    <2>1. EventAhead(r)
      BY <1>1, <1>3 DEF BadRecordsQueued
    <2> QED
      BY <2>1, EventsStayAhead, DeliveredIsTold DEF EventWillBeAhead
  <1> QED
    BY <1>2, <1>3

LEMMA QueuedRecordsAwaitedStep ==
  ASSUME "delay" \in Timely, Inv, AllGapless, RecordHistory, QueuedRecordsAwaited, [Next]_vars
  PROVE  QueuedRecordsAwaited'
  <1> SUFFICES ASSUME NEW r \in Record, r \in recQ', recCache'[r].exists,
                      ValidData(recCache'[r].spec.data)
               PROVE  WillWait(r, recCache'[r].spec.ref)
    BY DEF QueuedRecordsAwaited, Waits, WillWait
  <1>1. CASE Restart
    <2>1. <<r, recs[r].spec.ref, recs[r].rv>> \in delayed'
      BY <1>1 DEF Restart
    <2> QED
      BY <1>1, <2>1 DEF Restart, WillWait
  <1>2. CASE /\ recCache'[r].spec = recCache[r].spec
             /\ recCache'[r].exists = recCache[r].exists
             /\ r \in recQ
    <2>1. Waits(r, recCache[r].spec.ref) /\ ~RecordSettled(r)
      BY <1>2 DEF QueuedRecordsAwaited, RecordSettled
    <2>2. CASE delayed \subseteq delayed'
      BY <1>2, <2>1, <2>2 DEF Waits, WillWait
    <2>3. ASSUME NEW q \in Record, NEW z \in Zone, RecordSettled(q), DelayExpires(q, z)
          PROVE  WillWait(r, recCache'[r].spec.ref)
      <3>1. PICK d \in delayed : d[1] = q /\ delayed' = delayed \ {d}
        BY <2>3 DEF DelayExpires
      <3>2. q # r
        BY <2>1, <2>3
      <3> QED
        BY <1>2, <2>1, <3>1, <3>2 DEF Waits, WillWait
    <2> QED
      BY <1>1, <2>2, <2>3, DelayKinds, RecordDelivered
  <1> QED
    BY <1>1, <1>2, CachedSpecStays

-----------------------------------------------------------------------------
(* Who writes the condition of a record.                                   *)

LEMMA RecordPut ==
  ASSUME Inv, NEW q \in Record, NEW new \in RecordObj, PutRecord(q, new), NEW r \in Record
  PROVE  recs'[r].status = IF r = q THEN new.status ELSE recs[r].status
  <1>1. recs \in [Record -> RecordObj] /\ recs' = [recs EXCEPT ![q] = Stored(recs[q], new)]
    BY DEF Inv, RecordTypes, PutRecord
  <1>2. Stored(recs[q], new).status = new.status
    BY <1>1, StoredRecordSame
  <1> QED
    BY <1>1, <1>2

LEMMA NotifiedCond ==
  ASSUME Inv, NEW q \in Record, NEW cond \in RecordCond, NEW next, NEW r \in Record,
         NotifyRecord(q, cond, next)
  PROVE  \/ Fail /\ UNCHANGED recs
         \/ /\ zw' = next
            /\ recs'[r].status.cond = IF r = q THEN cond ELSE recs[r].status.cond
  <1> DEFINE new == [recs[q] EXCEPT !.status.cond = cond, !.status.ogen = recCache[q].gen]
  <1>1. recs[q] \in RecordObj /\ recCache[q].gen \in Nat
    BY DEF Inv, RecordTypes, RecordObj
  <1>2. new \in RecordObj /\ new.status.cond = cond
    BY <1>1 DEF RecordObj, RecordStatus
  <1> HIDE DEF new
  <1>3. CASE PutRecord(q, new)
    <2>1. recs'[r].status = IF r = q THEN new.status ELSE recs[r].status
      BY <1>2, <1>3, RecordPut
    <2>2. recs'[r].status.cond = IF r = q THEN cond ELSE recs[r].status.cond
      BY <1>2, <2>1
    <2>3. zw' = next \/ (Fail /\ UNCHANGED recs)
      BY DEF NotifyRecord, Succeed, ApiRest, recordVars
    <2> QED
      BY <2>2, <2>3
  <1> QED
    BY <1>3 DEF NotifyRecord, new, ApiRest, recordVars

LEMMA UserKeepsCond ==
  ASSUME Inv, NEW q \in Record, EditRecord(q) \/ DeleteRecord(q), NEW r \in Record
  PROVE  recs'[r].status = recs[r].status
  <1>1. recs[q] \in RecordObj
    BY DEF Inv, RecordTypes
  <1>2. CASE EditRecord(q)
    <2>1. PICK s \in RecordSpec : PutRecord(q, [recs[q] EXCEPT !.spec = s, !.gen = @ + 1])
      BY <1>2 DEF EditRecord
    <2> DEFINE new == [recs[q] EXCEPT !.spec = s, !.gen = @ + 1]
    <2>2. new \in RecordObj
      BY <1>1, EditedRecord
    <2>3. new.status = recs[q].status
      BY <1>1 DEF RecordObj
    <2> HIDE DEF new
    <2> QED
      BY <2>1, <2>2, <2>3, RecordPut DEF new
  <1>3. CASE DeleteRecord(q)
    <2> DEFINE new == DeletedCR(recs[q])
    <2>1. new \in RecordObj
      BY <1>1, EditedRecord
    <2>2. new.status = recs[q].status
      BY <1>1 DEF RecordObj, DeletedCR
    <2> HIDE DEF new
    <2> QED
      BY <1>3, <2>1, <2>2, RecordPut DEF new, DeleteRecord
  <1> QED
    BY <1>2, <1>3

LEMMA FinalizerKeepsCond ==
  ASSUME Inv, NEW q \in Record, NEW fin \in BOOLEAN, Accepts(recCache[q], recs[q]),
         PutRecord(q, [recCache[q] EXCEPT !.fin = fin]), NEW r \in Record
  PROVE  recs'[r].status = recs[r].status
  <1> DEFINE new == [recCache[q] EXCEPT !.fin = fin]
  <1>1. recCache[q] = recs[q] /\ recs[q] \in RecordObj
    BY AcceptedRecord DEF Inv, RecordTypes
  <1>2. new \in RecordObj /\ new.status = recs[q].status
    BY <1>1 DEF RecordObj
  <1> HIDE DEF new
  <1> QED
    BY <1>2, RecordPut DEF new

(* "Ready" is taken back by the record's reconciliation, by the end of a   *)
(* zone, or by the user who creates the record again.                      *)
LEMMA CondChanges ==
  ASSUME Inv, [Next]_vars, NEW r \in Record, recs[r].exists
  PROVE  \/ recs'[r].status.cond \in {recs[r].status.cond, "Ready"}
         \/ RecordValidate(r) /\ UNCHANGED delayed
         \/ ZoneUnjoin(r)
  <1> USE DEF recordVars, cacheVars, clusterVars, apiVars, feedVars, zoneCtlVars
  <1>1. CASE UNCHANGED recs
    BY <1>1
  <1>2. CASE RecordCtl
    <2>1. PICK q \in Record : RecordReconcile(q) /\ UNCHANGED delayed
      BY <1>2 DEF RecordCtl
    <2>2. CASE RecordNotFound(q)
      BY <1>1, <2>2 DEF RecordNotFound
    <2>3. CASE RecordAddFinalizer(q) \/ RecordDelete(q)
      BY <2>3, FinalizerKeepsCond DEF RecordAddFinalizer, RecordDelete
    <2>4. CASE RecordValidate(q) /\ q # r
      <3>1. recs'[r] = recs[r]
        BY <2>4 DEF RecordValidate, PutRecord, Inv, RecordTypes
      <3> QED
        BY <3>1
    <2> QED
      BY <2>1, <2>2, <2>3, <2>4 DEF RecordReconcile
  <1>3. CASE ZoneCtl
    <2>1. CASE \E z \in Zone : ZoneBegin(z)
      BY <1>1, <2>1 DEF ZoneBegin, ZoneNotFound, ZoneAddFinalizer, ZoneStartDelete,
                  ZoneStartUpdate, ApiRest
    <2>2. CASE \E q \in Record : ZoneJoin(q)
      <3>1. PICK q \in Record : ZoneJoin(q)
        BY <2>2
      <3>2. NotifyRecord(q, "Ready", Loop("join", zw.key, zw.todo \ {q}, "idle"))
        BY <3>1 DEF ZoneJoin
      <3> QED
        BY <1>1, <3>2, NotifiedCond DEF RecordCond
    <2>3. ASSUME NEW q \in Record, ZoneUnjoin(q), q # r
          PROVE  recs'[r].status.cond = recs[r].status.cond
      <3>1. NotifyRecord(q, "ZoneRemoved", Loop("unjoin", zw.key, zw.todo \ {q}, "zonefin"))
        BY <2>3 DEF ZoneUnjoin
      <3> QED
        BY <1>1, <2>3, <3>1, NotifiedCond DEF RecordCond
    <2>4. CASE ZoneInvalid \/ ZonePublish \/ ZoneRemoveFinalizer
      BY <1>1, <2>4 DEF ZoneInvalid, ZonePublish, WriteZoneStatus, ZoneRemoveFinalizer, ApiRest
    <2>5. CASE ZoneCreateCM \/ ZoneUpdateCM \/ ZoneAddCMFinalizer \/ ZoneFault
      BY <1>1, <2>5 DEF ZoneCreateCM, ZoneUpdateCM, ZoneAddCMFinalizer, ZoneFault, ApiRest
    <2> QED
      BY <1>3, <2>1, <2>2, <2>3, <2>4, <2>5 DEF ZoneCtl, ZoneWork
  <1>4. CASE Delay \/ Deliver \/ Restart \/ UNCHANGED vars
    BY <1>1, <1>4 DEF Delay, DelayExpires, Deliver, DeliverRecord, DeliverZone, DeliverCM,
                      Restart, vars
  <1>5. CASE Environment
    <2>1. ASSUME NEW q \in Record, EditRecord(q) \/ DeleteRecord(q)
          PROVE  recs'[r].status = recs[r].status
      BY <2>1, UserKeepsCond
    <2>2. ASSUME NEW q \in Record, CreateRecord(q)
          PROVE  recs'[r] = recs[r]
      BY <2>2 DEF CreateRecord, PutRecord, Inv, RecordTypes
    <2>3. CASE ~\E q \in Record : CreateRecord(q) \/ EditRecord(q) \/ DeleteRecord(q)
      BY <1>1, <1>5, <2>3 DEF Environment, Tick, UserStep, CreateZone, EditZone, LabelZone,
                      DeleteZone, DeleteCM, GarbageCollect, ConnectorNotify, User
    <2> QED
      BY <2>1, <2>2, <2>3
  <1> QED
    BY <1>2, <1>3, <1>4, <1>5 DEF Next, Operator

-----------------------------------------------------------------------------
(* The worker and what it has to tell.                                     *)

LEMMA LoopTells ==
  ASSUME NEW pc \in {"join", "unjoin"}, NEW key, NEW todo, NEW after \in {"idle", "zonefin"}
  PROVE  LET w == Loop(pc, key, todo, after)
         IN  /\ todo # {} => w.pc = pc /\ w.key = key /\ w.todo = todo
             /\ todo = {} => w.pc = after /\ (after = "zonefin" => w.key = key)
  BY DEF Loop, Idle

(* What the worker has to tell a record, it tells, or the zone is queued.  *)
LEMMA WorkTells ==
  ASSUME Inv, ZoneWork, NEW r \in Record, NEW z \in Zone, Tells(zw, r, z)
  PROVE  WillTell(r, z) \/ z \in zoneQ' \/ recs'[r].status.cond = "Ready"
  <1>1. zw \in Worker /\ zw.key = z /\ r \in zw.todo
    BY DEF Inv, WorkTypes, Tells
  <1>2. Fail => z \in zoneQ'
    BY <1>1 DEF Fail
  <1>3. zw' = Joining => WillTell(r, z)
    <2>1. LET w == Joining IN w.pc = "join" /\ w.key = zw.key /\ w.todo = zw.todo
      BY <1>1, LoopTells DEF Joining
    <2> QED
      BY <1>1, <2>1 DEF WillTell, Tells
  <1>4. CASE ZoneCreateCM \/ ZoneUpdateCM
    <2>1. \/ Fail
          \/ zw'.pc \in {"update", "status"} /\ zw'.key = zw.key /\ zw'.todo = zw.todo
      BY <1>1, <1>4 DEF ZoneCreateCM, ZoneUpdateCM, Succeed, Worker
    <2> QED
      BY <1>1, <1>2, <2>1 DEF WillTell, Tells
  <1>5. CASE ZonePublish
    <2>1. Fail \/ zw' = [zw EXCEPT !.pc = "cmfin"]
      BY <1>5 DEF ZonePublish, WriteZoneStatus, Succeed
    <2>2. Fail \/ (zw'.pc = "cmfin" /\ zw'.key = zw.key /\ zw'.todo = zw.todo)
      BY <1>1, <2>1 DEF Worker
    <2> QED
      BY <1>1, <1>2, <2>2 DEF WillTell, Tells
  <1>6. CASE ZoneInvalid \/ ZoneAddCMFinalizer
    BY <1>2, <1>3, <1>6 DEF ZoneInvalid, WriteZoneStatus, ZoneAddCMFinalizer, Succeed
  <1>7. ASSUME NEW q \in Record, ZoneJoin(q)
        PROVE  WillTell(r, z) \/ z \in zoneQ' \/ recs'[r].status.cond = "Ready"
    <2> DEFINE next == Loop("join", zw.key, zw.todo \ {q}, "idle")
    <2>1. NotifyRecord(q, "Ready", next)
      BY <1>7 DEF ZoneJoin
    <2>2. Fail \/ (zw' = next /\ (r = q => recs'[r].status.cond = "Ready"))
      BY <2>1, NotifiedCond DEF RecordCond
    <2>3. q # r => next.pc = "join" /\ next.key = z /\ r \in next.todo
      BY <1>1, LoopTells
    <2> HIDE DEF next
    <2> QED
      BY <1>2, <2>2, <2>3 DEF WillTell, Tells
  <1>8. ~ZoneRemoveFinalizer /\ \A q \in Record : ~ZoneUnjoin(q)
    BY DEF Tells, ZoneRemoveFinalizer, ZoneUnjoin, At
  <1> QED
    BY <1>4, <1>5, <1>6, <1>7, <1>8 DEF ZoneWork

LEMMA WorkerTells ==
  ASSUME Inv, [Next]_vars, NEW r \in Record, NEW z \in Zone, Tells(zw, r, z)
  PROVE  WillTell(r, z) \/ z \in zoneQ' \/ recs'[r].status.cond = "Ready" \/ Restart
  <1> USE DEF zoneCtlVars
  <1>1. CASE zw' = zw
    BY <1>1 DEF WillTell
  <1>2. CASE ZoneCtl
    <2>1. \A y \in Zone : ~ZoneBegin(y)
      BY DEF Tells, ZoneBegin, ZoneNotFound, ZoneAddFinalizer, ZoneStartDelete,
             ZoneStartUpdate, At
    <2>2. ZoneFault => z \in zoneQ'
      BY DEF ZoneFault, Tells
    <2> QED
      BY <1>2, <2>1, <2>2, WorkTells DEF ZoneCtl
  <1>3. CASE RecordCtl \/ Delay \/ Deliver \/ Environment \/ UNCHANGED vars
    BY <1>1, <1>3 DEF RecordCtl, Delay, DelayExpires, Deliver, DeliverRecord, DeliverZone,
                      DeliverCM, Environment, Tick, vars
  <1> QED
    BY <1>2, <1>3 DEF Next, Operator

(* A reconciliation that starts has the zone's good records to tell.       *)
LEMMA StartTells ==
  ASSUME NEW z \in Zone, ZoneStartUpdate(z), NEW r \in GoodRecords(z)
  PROVE  WillTell(r, z)
  <1> DEFINE todo == GoodRecords(z)
             next == Loop("join", z, todo, "idle")
  <1>1. next.pc = "join" /\ next.key = z /\ next.todo = todo
    BY LoopTells
  <1>2. CASE zw' = next
    BY <1>1, <1>2 DEF WillTell, Tells
  <1>3. CASE zw' # next
    <2>1. zw'.key = z /\ zw'.todo = todo /\ zw'.pc \in {"invalid", "create", "update"}
      BY <1>3 DEF ZoneStartUpdate
    <2> QED
      BY <2>1 DEF WillTell, Tells
  <1> QED
    BY <1>2, <1>3

(* The loop that takes back "Ready" goes over the records of a zone that   *)
(* the cache shows with its mark.                                          *)
LEMMA UnjoinKinds ==
  ASSUME Inv, [Next]_vars, zw'.pc = "unjoin", NEW r \in Record, r \in zw'.todo
  PROVE  \/ At("unjoin") /\ r \in zw.todo
         \/ \E y \in Zone : ZoneStartDelete(y) /\ r \in GoodRecords(y)
  <1> USE DEF zoneCtlVars
  <1>0. zw' # Idle /\ zw \in Worker
    BY DEF Idle, Inv, WorkTypes
  <1>1. CASE zw' = zw
    BY <1>1 DEF At
  <1>2. ASSUME NEW z \in Zone, ZoneBegin(z)
        PROVE  zw' = zw \/ (ZoneStartDelete(z) /\ r \in GoodRecords(z))
    <2>1. CASE ZoneNotFound(z) \/ ZoneAddFinalizer(z)
      BY <2>1 DEF ZoneNotFound, ZoneAddFinalizer
    <2>2. CASE ZoneStartDelete(z)
      <3>1. zw' = Loop("unjoin", z, GoodRecords(z), "zonefin")
        BY <2>2 DEF ZoneStartDelete
      <3> QED
        BY <2>2, <3>1, LoopTells
    <2>3. ~ZoneStartUpdate(z)
      <3>1. Loop("join", z, GoodRecords(z), "idle").pc # "unjoin"
        BY LoopTells
      <3> QED
        BY <3>1 DEF ZoneStartUpdate
    <2> QED
      BY <1>2, <2>1, <2>2, <2>3 DEF ZoneBegin
  <1>3. CASE ZoneWork
    <2>1. Joining.pc # "unjoin"
      BY LoopTells DEF Joining
    <2>2. ~(ZoneCreateCM \/ ZoneUpdateCM)
      <3>1. ZoneCreateCM \/ ZoneUpdateCM => Fail \/ zw'.pc \in {"update", "status"}
        BY <1>0 DEF ZoneCreateCM, ZoneUpdateCM, Succeed, Worker
      <3> QED
        BY <1>0, <3>1 DEF Fail
    <2>3. ~(ZonePublish \/ ZoneInvalid)
      BY <1>0, <2>1 DEF ZonePublish, ZoneInvalid, WriteZoneStatus, Succeed, Fail, Worker
    <2>4. ~(ZoneAddCMFinalizer \/ ZoneRemoveFinalizer)
      BY <1>0, <2>1 DEF ZoneAddCMFinalizer, ZoneRemoveFinalizer, Succeed, Fail
    <2>5. ASSUME NEW q \in Record PROVE ~ZoneJoin(q)
      <3>1. Loop("join", zw.key, zw.todo \ {q}, "idle").pc # "unjoin"
        BY LoopTells
      <3> QED
        BY <1>0, <3>1 DEF ZoneJoin, NotifyRecord, Succeed, Fail
    <2>6. ASSUME NEW q \in Record, ZoneUnjoin(q)
          PROVE  At("unjoin") /\ r \in zw.todo
      <3>1. LET next == Loop("unjoin", zw.key, zw.todo \ {q}, "zonefin")
            IN  next.pc = "unjoin" => next.todo = zw.todo \ {q}
        BY LoopTells
      <3> QED
        BY <1>0, <2>6, <3>1 DEF ZoneUnjoin, NotifyRecord, Succeed, Fail
    <2> QED
      BY <1>3, <2>2, <2>3, <2>4, <2>5, <2>6 DEF ZoneWork
  <1>4. ~ZoneFault /\ ~Restart
    BY <1>0 DEF ZoneFault, Restart
  <1>5. CASE RecordCtl \/ Delay \/ Deliver \/ Environment \/ UNCHANGED vars
    BY <1>1, <1>5 DEF RecordCtl, Delay, DelayExpires, Deliver, DeliverRecord, DeliverZone,
                      DeliverCM, Environment, Tick, vars
  <1> QED
    BY <1>1, <1>2, <1>3, <1>4, <1>5 DEF Next, Operator, ZoneCtl

-----------------------------------------------------------------------------
(* What a record is told.                                                  *)

WillBeCalled(r) == LET z == recCache'[r].spec.ref IN WillWait(r, z) \/ z \in zoneQ'
WillBeJoinable(r) == LET z == recCache'[r].spec.ref
                IN  /\ recCache'[r].exists /\ ValidData(recCache'[r].spec.data)
                    /\ zoneCache'[z].exists /\ ~zoneCache'[z].deleting

(* The caches show a zone that is there with the mark it had, but for an   *)
(* event, which queues the zone.                                           *)
LEMMA CachedZoneStays ==
  ASSUME Inv, AllGapless, MarksStay, [Next]_vars, NEW z \in Zone, z \notin zoneQ',
         zoneCache'[z].exists
  PROVE  zoneCache[z].exists /\ zoneCache'[z].deleting = zoneCache[z].deleting /\ ~Restart
  <1> USE DEF cacheVars, clusterVars, zoneCtlVars
  <1>1. ~Restart
    BY DEF Restart
  <1>2. CASE UNCHANGED zoneCache
    BY <1>1, <1>2
  <1>3. ASSUME NEW q \in Zone, DeliverZone(q)
        PROVE  zoneCache[z].exists /\ zoneCache'[z].deleting = zoneCache[z].deleting
    <2>1. PICK w \in zoneFeed[q] : TakeZone(q, w) /\ ZoneEvent(q, w)
      BY <1>3 DEF DeliverZone
    <2>2. zoneCache' = [zoneCache EXCEPT ![q] = w] /\ zoneCache \in [Zone -> ZoneObj]
      BY <2>1 DEF TakeZone, Inv, ZoneTypes
    <2>3. CASE q = z
      <3>1. ~IsEvent(zoneCache[z], w) /\ zoneCache'[z] = w
        BY <2>1, <2>2, <2>3 DEF ZoneEvent
      <3>2. w.rv = zoneCache[z].rv + 1
        <4>1. /\ zoneFeed[z] \in SUBSET ZoneObj /\ zoneCache[z] \in ZoneObj
              /\ \A k \in ZoneObj : k.rv \in Nat
          BY DEF Inv, ZoneTypes, ZoneObj
        <4>2. Oldest(zoneFeed[z], w)
          BY <2>1, <2>3 DEF TakeZone
        <4> QED
          BY <4>1, <4>2, DeliveredNext DEF AllGapless
      <3>3. zoneCache[z].exists
        BY <3>1 DEF IsEvent
      <3>4. zoneCache[z].deleting = w.deleting
        BY <2>1, <2>3, <3>1, <3>2 DEF MarksStay, MarkKept, Versions
      <3> QED
        BY <3>1, <3>3, <3>4
    <2> QED
      BY <2>2, <2>3
  <1>4. CASE RecordCtl \/ Delay \/ UNCHANGED vars
    BY <1>2, <1>4 DEF RecordCtl, RecordReconcile, RecordNotFound, RecordAddFinalizer,
       RecordDelete, RecordValidate, RecordRest, Delay, DelayExpires, vars
  <1>5. CASE ZoneCtl
    BY <1>2, <1>5 DEF ZoneCtl, ZoneBegin, ZoneNotFound, ZoneAddFinalizer, ZoneStartDelete,
       ZoneStartUpdate, ZoneWork, ZoneInvalid, ZonePublish, ZoneRemoveFinalizer, ZoneCreateCM,
       ZoneUpdateCM, ZoneAddCMFinalizer, ZoneJoin, ZoneUnjoin, ZoneFault, ZoneRest
  <1>6. CASE Environment
    BY <1>2, <1>6 DEF Environment, Tick, UserStep, CreateRecord, EditRecord, DeleteRecord,
       CreateZone, EditZone, LabelZone, DeleteZone, DeleteCM, GarbageCollect, ConnectorNotify, User
  <1>7. CASE Deliver
    BY <1>1, <1>2, <1>3, <1>7 DEF Deliver, DeliverRecord, DeliverCM
  <1> QED
    BY <1>1, <1>4, <1>5, <1>6, <1>7 DEF Next, Operator

(* A record that is served and not called was served before.               *)
LEMMA JoinableBefore ==
  ASSUME Inv, AllGapless, RecordHistory, MarksStay, [Next]_vars,
         NEW r \in Record, WillBeJoinable(r), ~WillBeCalled(r)
  PROVE  Joinable(r) /\ recCache'[r].spec = recCache[r].spec /\ ~Restart
  <1>1. recCache'[r].spec.ref \in Zone
    <2>1. Inv'
      BY NextInv
    <2> QED
      BY <2>1 DEF Inv, RecordTypes, RecordObj, RecordSpec
  <1> DEFINE z == recCache'[r].spec.ref
  <1>2. zoneCache[z].exists /\ ~zoneCache[z].deleting /\ ~Restart
    BY <1>1, CachedZoneStays DEF WillBeJoinable, WillBeCalled
  <1>3. recCache'[r].spec = recCache[r].spec /\ recCache'[r].exists = recCache[r].exists
    BY <1>2, CachedSpecStays DEF WillBeCalled
  <1> QED
    BY <1>2, <1>3 DEF Joinable, WillBeJoinable

(* A call lasts until the worker starts on the zone.                       *)
LEMMA CallStays ==
  ASSUME "delay" \in Timely, Inv, AllGapless, RecordHistory, [Next]_vars, ~Restart,
         NEW r \in Record, Joinable(r), ZoneCalled(r), recCache'[r].spec = recCache[r].spec
  PROVE  \/ WillBeCalled(r)
         \/ ZoneStartUpdate(recCache[r].spec.ref) /\ UNCHANGED <<delayed, recCache>>
  <1> DEFINE z == recCache[r].spec.ref
  <1>1. z \in Zone
    BY DEF Inv, RecordTypes, RecordObj, RecordSpec
  <1>2. CASE Waits(r, z)
    <2>1. CASE delayed \subseteq delayed'
      BY <1>2, <2>1 DEF Waits, WillWait, WillBeCalled
    <2>2. ASSUME NEW q \in Record, NEW y \in Zone, DelayExpires(q, y)
          PROVE  WillBeCalled(r)
      <3>1. PICK d \in delayed : d[2] = y /\ delayed' = delayed \ {d} /\ y \in zoneQ'
        BY <2>2 DEF DelayExpires
      <3> QED
        BY <1>2, <3>1 DEF Waits, WillWait, WillBeCalled
    <2> QED
      BY <2>1, <2>2, DelayKinds, RecordDelivered
  <1>3. CASE z \in zoneQ /\ z \notin zoneQ'
    <2>1. ZoneStartUpdate(z)
      BY <1>1, <1>3, LeavesQueue DEF Joinable
    <2> QED
      BY <2>1 DEF ZoneStartUpdate, ZoneRest, cacheVars
  <1> QED
    BY <1>2, <1>3 DEF ZoneCalled, WillBeCalled

LEMMA JoinsAwaitedStep ==
  ASSUME "delay" \in Timely, JoinInv, [Next]_vars
  PROVE  JoinsAwaited'
  <1> USE DEF JoinInv
  <1> SUFFICES ASSUME NEW r \in Record, WillBeJoinable(r), ~WillBeCalled(r),
                      ~EventWillBeAhead(r), recs'[r].status.cond # "Ready"
               PROVE  WillTell(r, recCache'[r].spec.ref)
    BY DEF JoinsAwaited, Joinable, WillBeJoinable, ZoneCalled, WillBeCalled, Waits, WillWait,
           EventAhead, EventWillBeAhead, WillTell, Tells
  <1> DEFINE z == recCache[r].spec.ref
  <1>1. Joinable(r) /\ recCache'[r].spec = recCache[r].spec /\ ~Restart
    BY JoinableBefore
  <1>2. z \in Zone
    BY DEF Inv, RecordTypes, RecordObj, RecordSpec
  <1>3. CASE EventAhead(r)
    BY <1>1, <1>3, EventsStayAhead, DeliveredIsTold DEF EventWillBeAhead, WillBeCalled
  <1>4. CASE ZoneCalled(r)
    <2>1. ZoneStartUpdate(z) /\ UNCHANGED <<delayed, recCache>>
      BY <1>1, <1>4, CallStays
    <2>2. ~Waits(r, z)
      BY <1>1, <2>1 DEF Waits, WillWait, WillBeCalled
    <2>3. r \in GoodRecords(z)
      BY <1>1, <2>2 DEF VerdictAwaited, Right, Joinable, GoodRecords
    <2> QED
      BY <1>1, <1>2, <2>1, <2>3, StartTells
  <1>5. CASE Tells(zw, r, z)
    BY <1>1, <1>2, <1>5, WorkerTells DEF WillBeCalled
  <1>6. CASE recs[r].status.cond = "Ready" /\ ~EventAhead(r)
    <2>1. recs[r].exists
      <3>1. recs[r] \in recFeed[r] \cup {recCache[r]}
        BY DEF AllGapless, Gapless
      <3> QED
        BY <1>1, <1>6, <3>1 DEF EventAhead, IsEvent, Joinable
    <2>2. CASE RecordValidate(r) /\ UNCHANGED delayed
      <3>1. Waits(r, z)
        BY <1>1, <2>2 DEF RecordValidate, Reconcilable, QueuedRecordsAwaited, Joinable
      <3> QED
        BY <1>1, <2>2, <3>1 DEF Waits, WillWait, WillBeCalled
    <2>3. CASE ZoneUnjoin(r)
      <3>1. ZoneCalled(r)
        BY <1>1, <2>3 DEF UnjoinsAwaited, ZoneUnjoin
      <3> QED
        BY <1>4, <3>1
    <2> QED
      BY <1>6, <2>1, <2>2, <2>3, CondChanges
  <1> QED
    BY <1>1, <1>3, <1>4, <1>5, <1>6 DEF JoinsAwaited

LEMMA UnjoinsAwaitedStep ==
  ASSUME "delay" \in Timely, JoinInv, [Next]_vars
  PROVE  UnjoinsAwaited'
  <1> USE DEF JoinInv
  <1> SUFFICES ASSUME NEW r \in Record, zw'.pc = "unjoin", r \in zw'.todo, WillBeJoinable(r),
                      ~WillBeCalled(r)
               PROVE  FALSE
    <2>1. zw'.todo \subseteq Record
      <3>1. Inv'
        BY NextInv
      <3> QED
        BY <3>1 DEF Inv, WorkTypes, Worker
    <2> QED
      BY <2>1 DEF UnjoinsAwaited, At, Joinable, WillBeJoinable, ZoneCalled, WillBeCalled, Waits, WillWait
  <1>1. Joinable(r) /\ recCache'[r].spec = recCache[r].spec /\ ~Restart
    BY JoinableBefore
  <1>2. ASSUME NEW y \in Zone, ZoneStartDelete(y), r \in GoodRecords(y) PROVE FALSE
    BY <1>1, <1>2 DEF ZoneStartDelete, GoodRecords, Joinable
  <1>3. CASE At("unjoin") /\ r \in zw.todo
    <2>1. ZoneCalled(r)
      BY <1>1, <1>3 DEF UnjoinsAwaited
    <2>2. ZoneStartUpdate(recCache[r].spec.ref)
      BY <1>1, <2>1, CallStays
    <2> QED
      BY <1>3, <2>2 DEF ZoneStartUpdate, At
  <1> QED
    BY <1>2, <1>3, UnjoinKinds

LEMMA InitJoins == Init => JoinInv
  <1> SUFFICES ASSUME Init PROVE JoinInv
    OBVIOUS
  <1>1. EventInv
    BY InitEvents
  <1>2. Inv /\ AllGapless /\ RecordHistory /\ RecordsAttended /\ VerdictAwaited
    BY <1>1 DEF EventInv, CheckpointInv
  <1>3. /\ \A r \in Record : recCache[r] = recs[r]
        /\ \A z \in Zone : Versions(z) = {zones[z]}
    BY DEF Init, Versions
  <1>4. \A r \in Record : Waits(r, recCache[r].spec.ref)
    <2> SUFFICES ASSUME NEW r \in Record PROVE Waits(r, recs[r].spec.ref)
      BY <1>3
    <2>1. <<r, recs[r].spec.ref, recs[r].rv>> \in delayed
      BY DEF Init
    <2> QED
      BY <2>1 DEF Waits
  <1>5. MarksStay
    BY <1>2, <1>3 DEF MarksStay, MarkKept, Inv, ZoneTypes, ZoneObj
  <1>6. BadRecordsQueued /\ QueuedRecordsAwaited /\ JoinsAwaited
    BY <1>4 DEF Init, BadRecordsQueued, QueuedRecordsAwaited, JoinsAwaited, ZoneCalled
  <1>7. UnjoinsAwaited
    BY <1>4 DEF UnjoinsAwaited, ZoneCalled, Init, Idle, At
  <1> QED
    BY <1>2, <1>5, <1>6, <1>7 DEF JoinInv

LEMMA NextJoins ==
  ASSUME "delay" \in Timely, JoinInv, [Next]_vars
  PROVE  JoinInv'
  <1>1. Inv' /\ AllGapless' /\ MarksStay'
    BY NextInv, GaplessStep, MarksStayStep DEF JoinInv
  <1>2. RecordHistory' /\ RecordsAttended' /\ VerdictAwaited'
    BY RecordHistoryStep, RecordsAttendedStep, VerdictAwaitedStep DEF JoinInv
  <1>3. BadRecordsQueued' /\ QueuedRecordsAwaited'
    BY BadRecordsQueuedStep, QueuedRecordsAwaitedStep DEF JoinInv
  <1>4. JoinsAwaited' /\ UnjoinsAwaited'
    BY JoinsAwaitedStep, UnjoinsAwaitedStep
  <1> QED
    BY <1>1, <1>2, <1>3, <1>4 DEF JoinInv

LEMMA QuietIsTold == JoinInv => QuiescentRecordsRight
  <1> SUFFICES ASSUME JoinInv, Quiescent, NEW r \in Record, recs[r].exists
               PROVE  LET st == recs[r].status
                          zone == zones[recs[r].spec.ref]
                          good == ValidData(recs[r].spec.data)
                      IN  /\ st.passed = good /\ st.entry = recs[r].spec.data
                          /\ st.ogen = recs[r].gen
                          /\ ~good => st.cond = "Degraded"
                          /\ good /\ zone.exists /\ ~zone.deleting => st.cond = "Ready"
    BY DEF QuiescentRecordsRight
  <1> USE DEF JoinInv
  <1>1. RecordSettled(r) /\ recFeed[r] = {}
    BY DEF Quiescent, RecordSettled
  <1>2. recCache[r] = recs[r] /\ \A z \in Zone : zoneCache[z] = zones[z]
    <2>1. Gapless(recs[r], {}, recCache[r])
      BY <1>1 DEF AllGapless
    <2>2. \A z \in Zone : Gapless(zones[z], {}, zoneCache[z])
      BY DEF AllGapless, Quiescent
    <2> QED
      BY <2>1, <2>2, NothingLeft
  <1>3. ~EventAhead(r) /\ ~ZoneCalled(r)
    BY <1>1 DEF EventAhead, ZoneCalled, Waits, Quiescent
  <1>4. Right(recs[r])
    BY <1>1, <1>2, SettledIsRight
  <1>5. CASE ~ValidData(recs[r].spec.data)
    <2>1. r \in recQ
      BY <1>2, <1>3, <1>5 DEF BadRecordsQueued
    <2>2. recs[r].status = CheckedStatus(recs[r])
      BY <1>1, <1>2, <2>1 DEF RecordSettled
    <2> QED
      BY <1>4, <1>5, <2>2 DEF Right, CheckedStatus
  <1>6. CASE ValidData(recs[r].spec.data)
    <2>1. recs[r].spec.ref \in Zone
      BY DEF Inv, RecordTypes, RecordObj, RecordSpec
    <2>2. ~Tells(zw, r, recs[r].spec.ref)
      BY DEF Quiescent, Tells, Idle
    <2>3. Joinable(r) => recs[r].status.cond = "Ready"
      BY <1>2, <1>3, <2>2 DEF JoinsAwaited
    <2> QED
      BY <1>2, <1>4, <1>6, <2>1, <2>3 DEF Right, Joinable
  <1> QED
    BY <1>5, <1>6

(* An operator with nothing left to do has told every record how it is:    *)
(* the status has the verdict on the present spec, a bad record is         *)
(* Degraded, and a good one whose zone is there is Ready.  No verdict is   *)
(* lost between the record's reconciler and the watch, and no notification *)
(* between the two writers of the condition, whatever fails, conflicts,    *)
(* is edited, deleted, created again or restarted, for any number of       *)
(* records and zones.  Only the sleep over a record's event must outlast   *)
(* its validation.                                                         *)
THEOREM NoJoinLost ==
  ASSUME "delay" \in Timely
  PROVE  Spec => []QuiescentRecordsRight
  <1>1. JoinInv /\ [Next]_vars => JoinInv'
    BY NextJoins
  <1> QED
    BY <1>1, InitJoins, QuietIsTold, PTL DEF Spec

-----------------------------------------------------------------------------
(* No mark of deletion is overlooked.                                      *)

(* The cache will show another generation of z, or none, and the worker    *)
(* will be told.                                                           *)
ZoneEventAhead(z) == \E v \in zoneFeed[z] : IsEvent(zoneCache[z], v)

(* An object that is marked is there for the sake of its finalizer.        *)
MarkedHeld == \A z \in Zone : \A v \in Versions(z) : Marked(v) => v.fin

(* The record controller is told of a mark until the record goes away.     *)
MarkedRecordsQueued ==
  \A r \in Record : Marked(recCache[r]) => r \in recQ \/ EventAhead(r)

(* The zone's worker is told of a mark, or works on it.                    *)
MarkedZonesQueued ==
  \A z \in Zone : Marked(zoneCache[z]) =>
    \/ z \in zoneQ \/ ZoneEventAhead(z)
    \/ zw.key = z /\ zw.pc \in {"unjoin", "zonefin"}

HeldInv == /\ Inv /\ AllGapless /\ MarksStay /\ RecordHistory
           /\ MarkedHeld /\ MarkedRecordsQueued /\ MarkedZonesQueued

LEMMA MarkedRecordsQueuedStep ==
  ASSUME Inv, AllGapless, RecordHistory, MarkedRecordsQueued, [Next]_vars
  PROVE  MarkedRecordsQueued'
  <1> SUFFICES ASSUME NEW r \in Record, Marked(recCache'[r]), r \notin recQ', ~Restart
               PROVE  EventWillBeAhead(r)
    BY DEF MarkedRecordsQueued, EventAhead, EventWillBeAhead, Restart, Marked
  <1>1. Marked(recCache[r])
    BY CachedSpecStays DEF Marked
  <1>2. CASE r \in recQ
    <2>1. RecordReconcile(r)
      BY <1>2, RecordKinds, ReconcilerReadsOnly, DeliveredIsTold
         DEF RecordsUntouched, RecordsWritten
    <2>2. RecordDelete(r)
      BY <1>1, <1>2, <2>1 DEF RecordReconcile, RecordNotFound, RecordAddFinalizer,
                              RecordValidate, Marked
    <2>3. recCache'[r] = recCache[r]
      BY <2>1, ReconcilerReadsOnly
    <2>4. recs'[r] \in recFeed'[r]
      BY <1>1, <2>2, <2>3, DeletedRecordGone, NothingTaken DEF Marked
    <2> QED
      BY <2>2, <2>4, DeletedRecordGone DEF EventWillBeAhead, IsEvent
  <1>3. CASE r \notin recQ
    <2>1. EventAhead(r)
      BY <1>1, <1>3 DEF MarkedRecordsQueued
    <2> QED
      BY <2>1, EventsStayAhead, DeliveredIsTold DEF EventWillBeAhead
  <1> QED
    BY <1>2, <1>3

(* The API server removes a marked object with its last finalizer.         *)
LEMMA StoredIsHeld ==
  ASSUME NEW old \in ZoneObj, NEW new \in ZoneObj, Marked(old) => old.fin
  PROVE  Marked(Stored(old, new)) => Stored(old, new).fin
  <1> DEFINE kept == [new EXCEPT !.exists = ~(new.deleting /\ ~new.fin)]
             same == [kept EXCEPT !.rv = old.rv]
             next == [kept EXCEPT !.rv = old.rv + 1]
  <1>1. kept \in ZoneObj /\ (Marked(kept) => kept.fin)
    BY DEF ZoneObj, Marked
  <1> HIDE DEF kept
  <1>2. Marked(next) => next.fin
    BY <1>1 DEF ZoneObj, Marked
  <1>3. Stored(old, new) = IF same = old THEN old ELSE next
    BY DEF Stored, kept
  <1> HIDE DEF same, next
  <1> QED
    BY <1>2, <1>3

LEMMA MarkedHeldStep ==
  ASSUME Inv, ZonesLag, ZoneStep, MarkedHeld
  PROVE  MarkedHeld'
  <1> SUFFICES ASSUME NEW z \in Zone PROVE Marked(zones'[z]) => zones'[z].fin
    BY ZonesLagStep DEF MarkedHeld
  <1>1. zones \in [Zone -> ZoneObj] /\ (Marked(zones[z]) => zones[z].fin)
    BY DEF Inv, ZoneTypes, MarkedHeld, Versions
  <1>2. CASE UNCHANGED zones
    BY <1>1, <1>2
  <1>3. CASE ZoneWrite
    <2>1. PICK q \in Zone, new \in ZoneObj : PutZone(q, new)
      BY <1>3 DEF ZoneWrite
    <2>2. zones' = [zones EXCEPT ![q] = Stored(zones[q], new)]
      BY <2>1 DEF PutZone
    <2>3. q = z => (Marked(Stored(zones[q], new)) => Stored(zones[q], new).fin)
      BY <1>1, StoredIsHeld
    <2> QED
      BY <1>1, <2>2, <2>3
  <1>4. CASE ZoneLabel
    <2>1. PICK q \in Zone : LabelZone(q)
      BY <1>4 DEF ZoneLabel
    <2> DEFINE obj == [zones[q] EXCEPT !.rv = @ + 1]
    <2>2. zones' = [zones EXCEPT ![q] = obj]
      BY <1>1, <2>1 DEF LabelZone
    <2>3. Marked(obj) = Marked(zones[q]) /\ obj.fin = zones[q].fin
      BY <1>1 DEF ZoneObj, Marked
    <2> HIDE DEF obj
    <2> QED
      BY <1>1, <2>2, <2>3
  <1> QED
    BY <1>2, <1>3, <1>4 DEF ZoneStep, ZoneDelivery, ZoneRefill

LEMMA ZoneUnmoved ==
  ASSUME Inv, AllGapless, ZoneStep, NEW z \in Zone, zoneCache'[z] = zoneCache[z]
  PROVE  zoneFeed[z] \subseteq zoneFeed'[z]
  <1>1. Moves(zones[z], zones'[z], zoneFeed[z], zoneFeed'[z], zoneCache[z], zoneCache'[z])
    BY ZoneMoves DEF Inv
  <1>2. /\ zones[z] \in ZoneObj /\ zoneCache[z] \in ZoneObj
        /\ zoneFeed[z] \in SUBSET ZoneObj /\ \A k \in ZoneObj : k.rv \in Nat
    BY DEF Inv, ZoneTypes, ZoneObj
  <1> QED
    BY <1>1, <1>2, UnmovedLosesNothing DEF AllGapless

ZoneEventWillBeAhead(z) == \E v \in zoneFeed'[z] : IsEvent(zoneCache'[z], v)

(* An event of a zone that is ahead stays ahead until it is delivered,     *)
(* which queues the zone.                                                  *)
LEMMA ZoneEventsStayAhead ==
  ASSUME Inv, AllGapless, [Next]_vars, ~Restart, NEW z \in Zone, ZoneEventAhead(z)
  PROVE  ZoneEventWillBeAhead(z) \/ z \in zoneQ'
  <1> USE DEF cacheVars, clusterVars, zoneCtlVars
  <1>1. PICK w \in zoneFeed[z] : IsEvent(zoneCache[z], w)
    BY DEF ZoneEventAhead
  <1>2. CASE zoneCache'[z] = zoneCache[z]
    BY <1>1, <1>2, ZoneUnmoved, ZoneSteps DEF ZoneEventWillBeAhead
  <1>3. ASSUME NEW q \in Zone, DeliverZone(q)
        PROVE  ZoneEventWillBeAhead(z) \/ z \in zoneQ'
    <2>1. PICK v \in zoneFeed[q] : TakeZone(q, v) /\ ZoneEvent(q, v)
      BY <1>3 DEF DeliverZone
    <2>2. /\ zoneCache' = [zoneCache EXCEPT ![q] = v]
          /\ zoneFeed' = [zoneFeed EXCEPT ![q] = @ \ {v}]
          /\ zoneCache \in [Zone -> ZoneObj] /\ zoneFeed \in [Zone -> SUBSET ZoneObj]
      BY <2>1 DEF TakeZone, Inv, ZoneTypes
    <2>3. CASE q = z /\ ~IsEvent(zoneCache[z], v)
      <3>1. w \in zoneFeed'[z] /\ IsEvent(v, w) /\ zoneCache'[z] = v
        BY <1>1, <2>2, <2>3 DEF IsEvent
      <3> QED
        BY <3>1 DEF ZoneEventWillBeAhead
    <2>4. CASE q = z /\ IsEvent(zoneCache[z], v)
      BY <2>1, <2>4 DEF ZoneEvent
    <2>5. CASE q # z
      BY <1>2, <2>2, <2>5
    <2> QED
      BY <2>3, <2>4, <2>5
  <1>4. CASE RecordCtl \/ Delay \/ UNCHANGED vars
    BY <1>2, <1>4 DEF RecordCtl, RecordReconcile, RecordNotFound, RecordAddFinalizer,
       RecordDelete, RecordValidate, RecordRest, Delay, DelayExpires, vars
  <1>5. CASE ZoneCtl
    BY <1>2, <1>5 DEF ZoneCtl, ZoneBegin, ZoneNotFound, ZoneAddFinalizer, ZoneStartDelete,
       ZoneStartUpdate, ZoneWork, ZoneInvalid, ZonePublish, ZoneRemoveFinalizer, ZoneCreateCM,
       ZoneUpdateCM, ZoneAddCMFinalizer, ZoneJoin, ZoneUnjoin, ZoneFault, ZoneRest
  <1>6. CASE Environment
    BY <1>2, <1>6 DEF Environment, Tick, UserStep, CreateRecord, EditRecord, DeleteRecord,
       CreateZone, EditZone, LabelZone, DeleteZone, DeleteCM, GarbageCollect, ConnectorNotify, User
  <1>7. CASE Deliver
    BY <1>2, <1>3, <1>7 DEF Deliver, DeliverRecord, DeliverCM
  <1> QED
    BY <1>4, <1>5, <1>6, <1>7 DEF Next, Operator

(* The end of a zone goes on, fails and is queued again, or removes the    *)
(* finalizer it finds.                                                     *)
LEMMA EndGoesOn ==
  ASSUME Inv, [Next]_vars, ~Restart, zw.pc \in {"unjoin", "zonefin"}, zw.key \notin zoneQ'
  PROVE  \/ zw'.key = zw.key /\ zw'.pc \in {"unjoin", "zonefin"}
         \/ /\ ZoneRemoveFinalizer /\ UNCHANGED zoneCache
            /\ \/ zoneCache[zw.key].exists /\ ~zoneCache[zw.key].fin
               \/ PutZone(zw.key, [zoneCache[zw.key] EXCEPT !.fin = FALSE])
  <1> USE DEF zoneCtlVars
  <1>1. ~\E z \in Zone : ZoneBegin(z)
    BY DEF ZoneBegin, ZoneNotFound, ZoneAddFinalizer, ZoneStartDelete, ZoneStartUpdate, At
  <1>2. ~ZoneFault /\ ~Fail
    BY DEF ZoneFault, Fail
  <1>3. CASE ZoneRemoveFinalizer
    BY <1>2, <1>3 DEF ZoneRemoveFinalizer, ZoneRest, cacheVars
  <1>4. ASSUME NEW r \in Record, ZoneUnjoin(r)
        PROVE  zw'.key = zw.key /\ zw'.pc \in {"unjoin", "zonefin"}
    <2>1. zw' = Loop("unjoin", zw.key, zw.todo \ {r}, "zonefin")
      BY <1>2, <1>4 DEF ZoneUnjoin, NotifyRecord, Succeed
    <2> QED
      BY <2>1, LoopTells
  <1>5. CASE ZoneWork
    BY <1>3, <1>4, <1>5 DEF ZoneWork, ZoneInvalid, ZonePublish, ZoneCreateCM, ZoneUpdateCM,
       ZoneAddCMFinalizer, ZoneJoin, At
  <1>6. CASE RecordCtl \/ Delay \/ Deliver \/ Environment \/ UNCHANGED vars
    BY <1>6 DEF RecordCtl, Delay, DelayExpires, Deliver, DeliverRecord, DeliverZone, DeliverCM,
                Environment, Tick, vars
  <1> QED
    BY <1>1, <1>2, <1>5, <1>6 DEF Next, Operator, ZoneCtl

LEMMA ReleasedZoneGone ==
  ASSUME Inv, NEW z \in Zone, Marked(zoneCache[z]),
         PutZone(z, [zoneCache[z] EXCEPT !.fin = FALSE])
  PROVE  ~zones'[z].exists
  <1> DEFINE new == [zoneCache[z] EXCEPT !.fin = FALSE]
             kept == [new EXCEPT !.exists = ~(new.deleting /\ ~new.fin)]
             next == [kept EXCEPT !.rv = zones[z].rv + 1]
             same == [kept EXCEPT !.rv = zones[z].rv]
  <1>1. zones[z] \in ZoneObj /\ zoneCache[z] \in ZoneObj /\ zones \in [Zone -> ZoneObj]
    BY DEF Inv, ZoneTypes
  <1>2. new \in ZoneObj /\ new.deleting /\ ~new.fin
    BY <1>1 DEF ZoneObj, Marked
  <1>3. zones'[z] = Stored(zones[z], new)
    BY <1>1 DEF PutZone
  <1> HIDE DEF new
  <1>4. kept \in ZoneObj /\ ~kept.exists
    BY <1>2 DEF ZoneObj
  <1>5. Stored(zones[z], new) = IF same = zones[z] THEN zones[z] ELSE next
    BY DEF Stored
  <1> HIDE DEF kept
  <1>6. ~next.exists /\ ~same.exists
    BY <1>4 DEF ZoneObj
  <1> HIDE DEF next, same
  <1> QED
    BY <1>3, <1>5, <1>6

LEMMA MarkedZonesQueuedStep ==
  ASSUME Inv, AllGapless, MarksStay, MarkedHeld, MarkedZonesQueued, [Next]_vars
  PROVE  MarkedZonesQueued'
  <1> SUFFICES ASSUME NEW z \in Zone, Marked(zoneCache'[z]), z \notin zoneQ',
                      ~ZoneEventWillBeAhead(z)
               PROVE  zw'.key = z /\ zw'.pc \in {"unjoin", "zonefin"}
    BY DEF MarkedZonesQueued, ZoneEventAhead, ZoneEventWillBeAhead
  <1>1. Marked(zoneCache[z]) /\ ~Restart
    BY CachedZoneStays DEF Marked
  <1>2. CASE z \in zoneQ
    <2>1. ZoneStartDelete(z)
      BY <1>1, <1>2, LeavesQueue DEF Marked, ZoneStartUpdate
    <2>2. zw' = Loop("unjoin", z, GoodRecords(z), "zonefin")
      BY <2>1 DEF ZoneStartDelete
    <2> QED
      BY <2>2, LoopTells
  <1>3. CASE ZoneEventAhead(z)
    BY <1>1, <1>3, ZoneEventsStayAhead
  <1>4. CASE zw.key = z /\ zw.pc \in {"unjoin", "zonefin"}
    <2>1. ASSUME UNCHANGED zoneCache, zoneCache[z].exists, ~zoneCache[z].fin
          PROVE  FALSE
      BY <1>1, <2>1 DEF MarkedHeld, Versions
    <2>2. ASSUME UNCHANGED zoneCache, PutZone(z, [zoneCache[z] EXCEPT !.fin = FALSE])
          PROVE  FALSE
      <3>1. ~zones'[z].exists
        BY <1>1, <2>2, ReleasedZoneGone
      <3>2. AllGapless'
        BY GaplessStep
      <3>3. zones'[z] \in zoneFeed'[z]
        BY <1>1, <2>2, <3>1, <3>2 DEF AllGapless, Gapless, Marked
      <3> QED
        BY <3>1, <3>3 DEF ZoneEventWillBeAhead, IsEvent
    <2> QED
      BY <1>1, <1>4, <2>1, <2>2, EndGoesOn
  <1> QED
    BY <1>1, <1>2, <1>3, <1>4 DEF MarkedZonesQueued

LEMMA InitHeld == Init => HeldInv
  <1> SUFFICES ASSUME Init PROVE HeldInv
    OBVIOUS
  <1>1. JoinInv
    BY InitJoins
  <1>2. /\ \A r \in Record : recCache[r] = recs[r] /\ ~recs[r].deleting
        /\ \A z \in Zone : ~zones[z].deleting /\ Versions(z) = {zones[z]}
        /\ zoneCache = zones
    BY DEF Init, NewRecord, NewZone, Versions
  <1>3. MarkedHeld /\ MarkedRecordsQueued /\ MarkedZonesQueued
    BY <1>2 DEF MarkedHeld, MarkedRecordsQueued, MarkedZonesQueued, Marked
  <1> QED
    BY <1>1, <1>3 DEF JoinInv, HeldInv

LEMMA NextHeld ==
  ASSUME HeldInv, [Next]_vars
  PROVE  HeldInv'
  <1>1. Inv' /\ AllGapless' /\ MarksStay' /\ RecordHistory'
    BY NextInv, GaplessStep, MarksStayStep, RecordHistoryStep DEF HeldInv
  <1>2. MarkedRecordsQueued' /\ MarkedZonesQueued'
    BY MarkedRecordsQueuedStep, MarkedZonesQueuedStep DEF HeldInv
  <1>3. MarkedHeld'
    <2>1. ZonesLag
      BY DEF HeldInv, AllGapless, Gapless, ZonesLag
    <2> QED
      BY <2>1, ZoneSteps, MarkedHeldStep DEF HeldInv
  <1> QED
    BY <1>1, <1>2, <1>3 DEF HeldInv

LEMMA QuietHoldsNothing == HeldInv => RestingNothingHeld
  <1> SUFFICES ASSUME HeldInv, Quiescent
               PROVE  /\ \A r \in Record : ~Marked(recs[r])
                      /\ \A z \in Zone : ~Marked(zones[z])
    BY DEF RestingNothingHeld, Marked
  <1> USE DEF HeldInv
  <1>1. ASSUME NEW r \in Record, Marked(recs[r]) PROVE FALSE
    <2>1. RecordSettled(r) /\ recFeed[r] = {}
      BY DEF Quiescent, RecordSettled
    <2>2. Gapless(recs[r], {}, recCache[r])
      BY <2>1 DEF AllGapless
    <2>3. recCache[r] = recs[r]
      BY <2>2, NothingLeft
    <2>4. r \in recQ
      BY <1>1, <2>1, <2>3 DEF MarkedRecordsQueued, EventAhead
    <2>5. recs[r].status.ogen = recs[r].gen /\ recs[r].status.cond = "Degraded"
      BY <2>1, <2>3, <2>4 DEF RecordSettled, CheckedStatus
    <2> QED
      BY <1>1, <2>3, <2>5 DEF RecordHistory, RecordVersions, Timed
  <1>2. ASSUME NEW z \in Zone, Marked(zones[z]) PROVE FALSE
    <2>1. zoneFeed[z] = {} /\ zoneQ = {} /\ zw.pc = "idle"
      BY DEF Quiescent, Idle
    <2>2. Gapless(zones[z], {}, zoneCache[z])
      BY <2>1 DEF AllGapless
    <2>3. zoneCache[z] = zones[z]
      BY <2>2, NothingLeft
    <2> QED
      BY <1>2, <2>1, <2>3 DEF MarkedZonesQueued, ZoneEventAhead
  <1> QED
    BY <1>1, <1>2

(* An operator with nothing left to do holds no record and no zone that    *)
(* was deleted: reconcileDelete is retried until its last write, the one   *)
(* that removes the finalizer, is made, whatever the caches show meanwhile *)
(* and however often it conflicts, fails, or is cut short by a restart.    *)
(* Nothing is assumed of timing, nor of what users do.                     *)
THEOREM NoMarkOverlooked == Spec => []RestingNothingHeld
  <1>1. HeldInv /\ [Next]_vars => HeldInv'
    BY NextHeld
  <1> QED
    BY <1>1, InitHeld, QuietHoldsNothing, PTL DEF Spec

=============================================================================
