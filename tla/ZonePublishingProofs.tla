------------------------ MODULE ZonePublishingProofs ------------------------
(***************************************************************************)
(* Theorems about ZonePublishing, for every value of its constants.        *)
(*                                                                         *)
(* One inductive invariant, Inv, carries all of them.  A step of the       *)
(* system is first reduced to what it does to the objects of one kind      *)
(* (RecordSteps, ZoneSteps, CMSteps) and to the operator's own state       *)
(* (WorkSteps); that such steps keep Inv is shown once per kind.           *)
(***************************************************************************)
EXTENDS ZonePublishing, TLAPS

-----------------------------------------------------------------------------
(* The values the model builds have their types.                           *)

(* The file of a config map that was never written is a valid file.        *)
LEMMA EmptyFileType == EmptyFile \in File /\ ValidFile(EmptyFile)
  BY GoodHeaderAssumption DEF EmptyFile, File, ValidFile

(* What the API server stores of a write is typed, counts its version and  *)
(* keeps the spec and the deletion of what was written.                    *)
LEMMA StoredRecord ==
  ASSUME NEW old \in RecordObj, NEW new \in RecordObj
  PROVE  /\ Stored(old, new) \in RecordObj
         /\ Stored(old, new) # old => Stored(old, new).rv = old.rv + 1
         /\ Stored(old, new).spec = new.spec
         /\ Stored(old, new).deleting = new.deleting
  <1> DEFINE kept == [new EXCEPT !.exists = ~(new.deleting /\ ~new.fin)]
             same == [kept EXCEPT !.rv = old.rv]
             next == [kept EXCEPT !.rv = old.rv + 1]
  <1>1. kept \in RecordObj /\ kept.spec = new.spec /\ kept.deleting = new.deleting
    BY DEF RecordObj
  <1> HIDE DEF kept
  <1>2. same.spec = kept.spec /\ same.deleting = kept.deleting
    BY <1>1 DEF RecordObj
  <1>3. /\ next \in RecordObj /\ next.rv = old.rv + 1
        /\ next.spec = kept.spec /\ next.deleting = kept.deleting
    BY <1>1 DEF RecordObj
  <1>4. Stored(old, new) = IF same = old THEN old ELSE next
    BY DEF Stored, kept
  <1> HIDE DEF same, next
  <1> QED
    BY <1>1, <1>2, <1>3, <1>4

(* The same for zones.                                                     *)
LEMMA StoredZone ==
  ASSUME NEW old \in ZoneObj, NEW new \in ZoneObj
  PROVE  /\ Stored(old, new) \in ZoneObj
         /\ Stored(old, new) # old => Stored(old, new).rv = old.rv + 1
         /\ Stored(old, new).spec = new.spec
         /\ Stored(old, new).deleting = new.deleting
  <1> DEFINE kept == [new EXCEPT !.exists = ~(new.deleting /\ ~new.fin)]
             same == [kept EXCEPT !.rv = old.rv]
             next == [kept EXCEPT !.rv = old.rv + 1]
  <1>1. kept \in ZoneObj /\ kept.spec = new.spec /\ kept.deleting = new.deleting
    BY DEF ZoneObj
  <1> HIDE DEF kept
  <1>2. same.spec = kept.spec /\ same.deleting = kept.deleting
    BY <1>1 DEF ZoneObj
  <1>3. /\ next \in ZoneObj /\ next.rv = old.rv + 1
        /\ next.spec = kept.spec /\ next.deleting = kept.deleting
    BY <1>1 DEF ZoneObj
  <1>4. Stored(old, new) = IF same = old THEN old ELSE next
    BY DEF Stored, kept
  <1> HIDE DEF same, next
  <1> QED
    BY <1>1, <1>2, <1>3, <1>4

(* The same for config maps: the stored file is the one written.           *)
LEMMA StoredCM ==
  ASSUME NEW old \in CMObj, NEW new \in CMObj
  PROVE  /\ Stored(old, new) \in CMObj
         /\ Stored(old, new) # old => Stored(old, new).rv = old.rv + 1
         /\ Stored(old, new).file = new.file
  <1> DEFINE kept == [new EXCEPT !.exists = ~(new.deleting /\ ~new.fin)]
             same == [kept EXCEPT !.rv = old.rv]
             next == [kept EXCEPT !.rv = old.rv + 1]
  <1>1. kept \in CMObj /\ kept.file = new.file
    BY DEF CMObj
  <1> HIDE DEF kept
  <1>2. same.file = kept.file
    BY <1>1 DEF CMObj
  <1>3. /\ next \in CMObj /\ next.rv = old.rv + 1
        /\ next.file = kept.file
    BY <1>1 DEF CMObj
  <1>4. Stored(old, new) = IF same = old THEN old ELSE next
    BY DEF Stored, kept
  <1> HIDE DEF same, next
  <1> QED
    BY <1>1, <1>2, <1>3, <1>4

(* Objects as users create them, and a config map that does not exist, are *)
(* typed.                                                                  *)
LEMMA NewObjects ==
  /\ \A s \in RecordSpec : NewRecord(s) \in RecordObj
  /\ \A s \in ZoneSpec : NewZone(s) \in ZoneObj
  /\ NoCM \in CMObj
  <1>1. \A s \in RecordSpec : NewRecord(s) \in RecordObj
    BY DEF NewRecord, RecordObj, RecordSpec, NoRecordStatus, RecordStatus, RecordCond
  <1>2. \A s \in ZoneSpec : NewZone(s) \in ZoneObj
    BY DEF NewZone, ZoneObj, ZoneSpec, NoZoneStatus, ZoneStatus, ZoneCond
  <1>3. NoCM \in CMObj
    BY EmptyFileType DEF NoCM, CMObj
  <1> QED BY <1>1, <1>2, <1>3

(* The worker at rest is typed.                                            *)
LEMMA IdleType == Idle \in Worker
  <1>1. (CHOOSE z \in Zone : TRUE) \in Zone
    BY NonEmptyAssumption
  <1>2. [hdr |-> EmptyFile.hdr, prefix |-> CHOOSE p \in Prefix : TRUE] \in ZoneSpec
    BY NonEmptyAssumption, EmptyFileType DEF ZoneSpec, File
  <1> QED
    BY <1>1, <1>2, EmptyFileType, NewObjects DEF Idle, Worker

-----------------------------------------------------------------------------
(* The inductive invariant.                                                *)

RecordTypes == /\ recs \in [Record -> RecordObj]
               /\ recCache \in [Record -> RecordObj]
               /\ recFeed \in [Record -> SUBSET RecordObj]

ZoneTypes == /\ zones \in [Zone -> ZoneObj]
             /\ zoneCache \in [Zone -> ZoneObj]
             /\ zoneFeed \in [Zone -> SUBSET ZoneObj]

CMTypes == /\ cms \in [CMName -> CMObj]
           /\ cmCache \in [CMName -> CMObj]
           /\ cmFeed \in [CMName -> SUBSET CMObj]

WorkTypes == /\ recQ \subseteq Record /\ zoneQ \subseteq Zone
             /\ delayed \subseteq Record \X Zone \X Nat
             /\ zw \in Worker
             /\ clock \in Nat /\ edits \in Nat /\ faults \in Nat /\ crashes \in Nat

(* The caches lag behind the API server and never lead it, and a resource  *)
(* version stands for one version of an object.                            *)
RecordsAligned ==
  \A r \in Record : \A v \in recFeed[r] \cup {recCache[r]} :
    v.rv <= recs[r].rv /\ (v.rv = recs[r].rv => v = recs[r])

ZonesAligned ==
  \A z \in Zone : \A v \in zoneFeed[z] \cup {zoneCache[z]} :
    v.rv <= zones[z].rv /\ (v.rv = zones[z].rv => v = zones[z])

(* Every version of a config map holds a valid file, those the cache will  *)
(* show included: the finalizer steps write them back.                     *)
FilesValid ==
  \A n \in CMName : \A v \in cmFeed[n] \cup {cmCache[n], cms[n]} : ValidFile(v.file)

(* So does the worker, from the validation to the write.                   *)
WorkerFileValid == zw.pc \in {"create", "update"} => ValidFile(zw.file)

Inv == /\ RecordTypes /\ ZoneTypes /\ CMTypes /\ WorkTypes
       /\ RecordsAligned /\ ZonesAligned
       /\ FilesValid /\ WorkerFileValid

(* The type invariant by kind of state.                                    *)
LEMMA TypesAgree == TypeOK <=> RecordTypes /\ ZoneTypes /\ CMTypes /\ WorkTypes
  BY DEF TypeOK, RecordTypes, ZoneTypes, CMTypes, WorkTypes

-----------------------------------------------------------------------------
(* What a step does to the objects of one kind: nothing, a write, the      *)
(* delivery of a version, or the filling of the cache at a restart.        *)

RecordIntent(r, new) ==
  edits' = edits => new.spec = recs[r].spec /\ (recs[r].deleting => new.deleting)

RecordWrite == \E r \in Record, new \in RecordObj :
                 PutRecord(r, new) /\ RecordIntent(r, new) /\ UNCHANGED recCache
RecordDelivery == \E r \in Record, v \in RecordObj : TakeRecord(r, v) /\ UNCHANGED recs
RecordRefill == recCache' = recs /\ recFeed' = [r \in Record |-> {}] /\ UNCHANGED recs
RecordStep == \/ UNCHANGED <<recs, recFeed, recCache>>
              \/ RecordWrite \/ RecordDelivery \/ RecordRefill

ZoneIntent(z, new) ==
  edits' = edits => new.spec = zones[z].spec /\ (zones[z].deleting => new.deleting)

ZoneWrite == \E z \in Zone, new \in ZoneObj :
               PutZone(z, new) /\ ZoneIntent(z, new) /\ UNCHANGED zoneCache
ZoneLabel == \E z \in Zone : LabelZone(z)
ZoneDelivery == \E z \in Zone, v \in ZoneObj : TakeZone(z, v) /\ UNCHANGED zones
ZoneRefill == zoneCache' = zones /\ zoneFeed' = [z \in Zone |-> {}] /\ UNCHANGED zones
ZoneStep == \/ UNCHANGED <<zones, zoneFeed, zoneCache>>
            \/ ZoneWrite \/ ZoneLabel \/ ZoneDelivery \/ ZoneRefill

CMWrite == \E n \in CMName, new \in CMObj :
             PutCM(n, new) /\ ValidFile(new.file) /\ UNCHANGED cmCache
CMDelivery == \E n \in CMName, v \in CMObj : TakeCM(n, v) /\ UNCHANGED cms
CMRefill == cmCache' = cms /\ cmFeed' = [n \in CMName |-> {}] /\ UNCHANGED cms
CMStep == \/ UNCHANGED <<cms, cmFeed, cmCache>>
          \/ CMWrite \/ CMDelivery \/ CMRefill

-----------------------------------------------------------------------------
(* Such steps preserve the invariant.                                      *)

(* Any such step on records keeps their types and the alignment of their   *)
(* cache.                                                                  *)
LEMMA RecordStepKeeps ==
  ASSUME RecordTypes, RecordsAligned, RecordStep
  PROVE  RecordTypes' /\ RecordsAligned'
  <1>1. CASE UNCHANGED <<recs, recFeed, recCache>>
    BY <1>1 DEF RecordTypes, RecordsAligned
  <1>2. CASE RecordWrite
    <2>1. PICK r \in Record, new \in RecordObj : PutRecord(r, new) /\ UNCHANGED recCache
      BY <1>2 DEF RecordWrite
    <2> DEFINE obj == Stored(recs[r], new)
    <2>2. /\ recs' = [recs EXCEPT ![r] = obj]
          /\ recFeed' = IF obj = recs[r] THEN recFeed
                        ELSE [recFeed EXCEPT ![r] = @ \cup {obj}]
      BY <2>1 DEF PutRecord
    <2>3. obj \in RecordObj /\ (obj # recs[r] => obj.rv = recs[r].rv + 1)
      BY StoredRecord DEF RecordTypes
    <2> HIDE DEF obj
    <2>4. RecordTypes'
      BY <2>1, <2>2, <2>3 DEF RecordTypes
    <2>5. CASE obj = recs[r]
      BY <2>1, <2>2, <2>5 DEF RecordTypes, RecordsAligned
    <2>6. CASE obj # recs[r]
      <3> SUFFICES ASSUME NEW q \in Record, NEW v \in recFeed'[q] \cup {recCache'[q]}
                   PROVE  v.rv <= recs'[q].rv /\ (v.rv = recs'[q].rv => v = recs'[q])
        BY <2>4 DEF RecordsAligned
      <3>1. CASE q # r
        BY <2>1, <2>2, <2>6, <3>1 DEF RecordTypes, RecordsAligned
      <3>2. CASE q = r /\ v = obj
        BY <2>2, <2>3, <3>2 DEF RecordTypes, RecordObj
      <3>3. CASE q = r /\ v # obj
        <4>1. v \in recFeed[q] \cup {recCache[q]} /\ v \in RecordObj
          BY <2>1, <2>2, <2>6, <3>3 DEF RecordTypes
        <4>2. v.rv <= recs[q].rv /\ v.rv \in Nat /\ recs[q].rv \in Nat
          BY <4>1 DEF RecordsAligned, RecordTypes, RecordObj
        <4>3. recs'[q].rv = recs[q].rv + 1
          BY <2>2, <2>3, <2>6, <3>3 DEF RecordTypes
        <4> QED
          BY <4>2, <4>3
      <3> QED
        BY <3>1, <3>2, <3>3
    <2> QED
      BY <2>4, <2>5, <2>6
  <1>3. CASE RecordDelivery
    <2>1. PICK r \in Record, v \in RecordObj : TakeRecord(r, v) /\ UNCHANGED recs
      BY <1>3 DEF RecordDelivery
    <2>2. /\ v \in recFeed[r]
          /\ recCache' = [recCache EXCEPT ![r] = v]
          /\ recFeed' = [recFeed EXCEPT ![r] = @ \ {v}]
      BY <2>1 DEF TakeRecord, Oldest
    <2>3. RecordTypes'
      BY <2>1, <2>2 DEF RecordTypes
    <2>4. \A q \in Record : recFeed'[q] \cup {recCache'[q]} \subseteq recFeed[q] \cup {recCache[q]}
      BY <2>2 DEF RecordTypes
    <2> QED
      BY <2>1, <2>3, <2>4 DEF RecordsAligned
  <1>4. CASE RecordRefill
    BY <1>4 DEF RecordRefill, RecordTypes, RecordsAligned, RecordObj
  <1> QED
    BY <1>1, <1>2, <1>3, <1>4 DEF RecordStep

(* The same for zones, whose labels users may change too.                  *)
LEMMA ZoneStepKeeps ==
  ASSUME ZoneTypes, ZonesAligned, ZoneStep
  PROVE  ZoneTypes' /\ ZonesAligned'
  <1>1. CASE UNCHANGED <<zones, zoneFeed, zoneCache>>
    BY <1>1 DEF ZoneTypes, ZonesAligned
  <1>2. CASE ZoneWrite
    <2>1. PICK z \in Zone, new \in ZoneObj : PutZone(z, new) /\ UNCHANGED zoneCache
      BY <1>2 DEF ZoneWrite
    <2> DEFINE obj == Stored(zones[z], new)
    <2>2. /\ zones' = [zones EXCEPT ![z] = obj]
          /\ zoneFeed' = IF obj = zones[z] THEN zoneFeed
                        ELSE [zoneFeed EXCEPT ![z] = @ \cup {obj}]
      BY <2>1 DEF PutZone
    <2>3. obj \in ZoneObj /\ (obj # zones[z] => obj.rv = zones[z].rv + 1)
      BY StoredZone DEF ZoneTypes
    <2> HIDE DEF obj
    <2>4. ZoneTypes'
      BY <2>1, <2>2, <2>3 DEF ZoneTypes
    <2>5. CASE obj = zones[z]
      BY <2>1, <2>2, <2>5 DEF ZoneTypes, ZonesAligned
    <2>6. CASE obj # zones[z]
      <3> SUFFICES ASSUME NEW q \in Zone, NEW v \in zoneFeed'[q] \cup {zoneCache'[q]}
                   PROVE  v.rv <= zones'[q].rv /\ (v.rv = zones'[q].rv => v = zones'[q])
        BY <2>4 DEF ZonesAligned
      <3>1. CASE q # z
        BY <2>1, <2>2, <2>6, <3>1 DEF ZoneTypes, ZonesAligned
      <3>2. CASE q = z /\ v = obj
        BY <2>2, <2>3, <3>2 DEF ZoneTypes, ZoneObj
      <3>3. CASE q = z /\ v # obj
        <4>1. v \in zoneFeed[q] \cup {zoneCache[q]} /\ v \in ZoneObj
          BY <2>1, <2>2, <2>6, <3>3 DEF ZoneTypes
        <4>2. v.rv <= zones[q].rv /\ v.rv \in Nat /\ zones[q].rv \in Nat
          BY <4>1 DEF ZonesAligned, ZoneTypes, ZoneObj
        <4>3. zones'[q].rv = zones[q].rv + 1
          BY <2>2, <2>3, <2>6, <3>3 DEF ZoneTypes
        <4> QED
          BY <4>2, <4>3
      <3> QED
        BY <3>1, <3>2, <3>3
    <2> QED
      BY <2>4, <2>5, <2>6
  <1>3. CASE ZoneDelivery
    <2>1. PICK z \in Zone, v \in ZoneObj : TakeZone(z, v) /\ UNCHANGED zones
      BY <1>3 DEF ZoneDelivery
    <2>2. /\ v \in zoneFeed[z]
          /\ zoneCache' = [zoneCache EXCEPT ![z] = v]
          /\ zoneFeed' = [zoneFeed EXCEPT ![z] = @ \ {v}]
      BY <2>1 DEF TakeZone, Oldest
    <2>3. ZoneTypes'
      BY <2>1, <2>2 DEF ZoneTypes
    <2>4. \A q \in Zone : zoneFeed'[q] \cup {zoneCache'[q]} \subseteq zoneFeed[q] \cup {zoneCache[q]}
      BY <2>2 DEF ZoneTypes
    <2> QED
      BY <2>1, <2>3, <2>4 DEF ZonesAligned
  <1>4. CASE ZoneRefill
    BY <1>4 DEF ZoneRefill, ZoneTypes, ZonesAligned, ZoneObj
  <1>5. CASE ZoneLabel
    <2>1. PICK z \in Zone : LabelZone(z)
      BY <1>5 DEF ZoneLabel
    <2> DEFINE obj == [zones[z] EXCEPT !.rv = @ + 1]
    <2>2. /\ zones' = [zones EXCEPT ![z] = obj]
          /\ zoneFeed' = [zoneFeed EXCEPT ![z] = @ \cup {obj}]
          /\ zoneCache' = zoneCache
      BY <2>1 DEF LabelZone, User, cacheVars, ZoneTypes
    <2>3. obj \in ZoneObj /\ obj.rv = zones[z].rv + 1
      BY DEF ZoneTypes, ZoneObj
    <2> HIDE DEF obj
    <2>4. ZoneTypes'
      BY <2>2, <2>3 DEF ZoneTypes
    <2> SUFFICES ASSUME NEW q \in Zone, NEW v \in zoneFeed'[q] \cup {zoneCache'[q]}
                 PROVE  v.rv <= zones'[q].rv /\ (v.rv = zones'[q].rv => v = zones'[q])
      BY <2>4 DEF ZonesAligned
    <2>5. CASE q # z
      BY <2>2, <2>5 DEF ZoneTypes, ZonesAligned
    <2>6. CASE q = z /\ v = obj
      BY <2>2, <2>3, <2>6 DEF ZoneTypes, ZoneObj
    <2>7. CASE q = z /\ v # obj
      <3>1. v \in zoneFeed[q] \cup {zoneCache[q]}
        BY <2>2, <2>7 DEF ZoneTypes
      <3>2. v.rv <= zones[q].rv /\ v.rv \in Nat /\ zones[q].rv \in Nat
        BY <3>1 DEF ZonesAligned, ZoneTypes, ZoneObj
      <3>3. zones'[q].rv = zones[q].rv + 1
        BY <2>2, <2>3, <2>7 DEF ZoneTypes
      <3> QED
        BY <3>2, <3>3
    <2> QED
      BY <2>5, <2>6, <2>7
  <1> QED
    BY <1>1, <1>2, <1>3, <1>4, <1>5 DEF ZoneStep

(* Any such step on config maps keeps every version of them valid.         *)
LEMMA CMStepKeeps ==
  ASSUME CMTypes, FilesValid, CMStep
  PROVE  CMTypes' /\ FilesValid'
  <1>1. CASE UNCHANGED <<cms, cmFeed, cmCache>>
    BY <1>1 DEF CMTypes, FilesValid
  <1>2. CASE CMWrite
    <2>1. PICK n \in CMName, new \in CMObj :
            PutCM(n, new) /\ ValidFile(new.file) /\ UNCHANGED cmCache
      BY <1>2 DEF CMWrite
    <2> DEFINE obj == Stored(cms[n], new)
    <2>2. /\ cms' = [cms EXCEPT ![n] = obj]
          /\ cmFeed' = IF obj = cms[n] THEN cmFeed
                       ELSE [cmFeed EXCEPT ![n] = @ \cup {obj}]
      BY <2>1 DEF PutCM
    <2>3. obj \in CMObj /\ ValidFile(obj.file)
      BY <2>1, StoredCM DEF CMTypes
    <2> HIDE DEF obj
    <2> QED
      BY <2>1, <2>2, <2>3 DEF CMTypes, FilesValid
  <1>3. CASE CMDelivery
    <2>1. PICK n \in CMName, v \in CMObj : TakeCM(n, v) /\ UNCHANGED cms
      BY <1>3 DEF CMDelivery
    <2> QED
      BY <2>1 DEF CMTypes, FilesValid, TakeCM, Oldest
  <1>4. CASE CMRefill
    BY <1>4 DEF CMRefill, CMTypes, FilesValid
  <1> QED
    BY <1>1, <1>2, <1>3, <1>4 DEF CMStep

-----------------------------------------------------------------------------
(* Every step of the system is such a step on the records.                 *)

(* A write the API server accepts was made from the stored version.        *)
LEMMA AcceptedRecord ==
  ASSUME RecordsAligned, NEW r \in Record, Accepts(recCache[r], recs[r])
  PROVE  recCache[r] = recs[r] /\ recs[r].exists
  BY DEF RecordsAligned, Accepts

(* The status handleGenericRecord computes is typed.                       *)
LEMMA CheckedStatusType ==
  ASSUME NEW copy \in RecordObj
  PROVE  CheckedStatus(copy) \in RecordStatus
  BY DEF CheckedStatus, ValidData, RecordObj, RecordSpec, RecordStatus, RecordCond

(* A record edited or marked for deletion is typed.                        *)
LEMMA EditedRecord ==
  ASSUME NEW obj \in RecordObj
  PROVE  /\ \A s \in RecordSpec : [obj EXCEPT !.spec = s, !.gen = @ + 1] \in RecordObj
         /\ DeletedCR(obj) \in RecordObj
  <1> DEFINE next == [obj EXCEPT !.gen = @ + 1]
  <1>1. next \in RecordObj
    BY DEF RecordObj
  <1>2. /\ \A s \in RecordSpec :
             [obj EXCEPT !.spec = s, !.gen = @ + 1] = [next EXCEPT !.spec = s]
        /\ DeletedCR(obj) = [next EXCEPT !.deleting = TRUE]
    BY DEF RecordObj, DeletedCR
  <1> HIDE DEF next
  <1> QED
    BY <1>1, <1>2 DEF RecordObj

(* Users write records, and their writes count as edits.                   *)
LEMMA UserRecordSteps ==
  ASSUME Inv, NEW r \in Record, CreateRecord(r) \/ EditRecord(r) \/ DeleteRecord(r)
  PROVE  RecordWrite
  <1>1. edits' # edits /\ UNCHANGED recCache
    <2>1. edits \in Nat
      BY DEF Inv, WorkTypes
    <2>2. edits' = edits + 1 /\ UNCHANGED recCache
      BY DEF CreateRecord, EditRecord, DeleteRecord, User, cacheVars
    <2> QED
      BY <2>1, <2>2
  <1>2. recs[r] \in RecordObj
    BY DEF Inv, RecordTypes
  <1>3. CASE CreateRecord(r)
    <2>1. PICK s \in RecordSpec : PutRecord(r, [NewRecord(s) EXCEPT !.rv = recs[r].rv])
      BY <1>3 DEF CreateRecord
    <2>2. [NewRecord(s) EXCEPT !.rv = recs[r].rv] \in RecordObj
      BY <1>2, NewObjects DEF RecordObj
    <2> QED
      BY <1>1, <2>1, <2>2 DEF RecordWrite, RecordIntent
  <1>4. CASE EditRecord(r)
    <2>1. PICK s \in RecordSpec :
            PutRecord(r, [recs[r] EXCEPT !.spec = s, !.gen = @ + 1])
      BY <1>4 DEF EditRecord
    <2>2. [recs[r] EXCEPT !.spec = s, !.gen = @ + 1] \in RecordObj
      BY <1>2, EditedRecord
    <2> QED
      BY <1>1, <2>1, <2>2 DEF RecordWrite, RecordIntent
  <1>5. CASE DeleteRecord(r)
    <2>1. DeletedCR(recs[r]) \in RecordObj
      BY <1>2, EditedRecord
    <2> QED
      BY <1>1, <1>5, <2>1 DEF DeleteRecord, RecordWrite, RecordIntent
  <1> QED
    BY <1>3, <1>4, <1>5

(* The record controller writes records back as they are, but for the      *)
(* finalizer or the status.                                                *)
LEMMA RecordReconcileSteps ==
  ASSUME Inv, NEW r \in Record, RecordReconcile(r)
  PROVE  RecordStep
  <1> USE DEF Inv, RecordTypes
  <1> DEFINE copy == recCache[r]
  <1>1. copy \in RecordObj /\ recs[r] \in RecordObj
    OBVIOUS
  <1>2. CASE RecordNotFound(r)
    BY <1>2 DEF RecordNotFound, RecordStep, clusterVars, apiVars, feedVars, cacheVars
  <1>3. CASE RecordAddFinalizer(r)
    <2>1. copy = recs[r]
      BY <1>3, AcceptedRecord DEF RecordAddFinalizer
    <2>2. [copy EXCEPT !.fin = TRUE] \in RecordObj
      BY <1>1 DEF RecordObj
    <2>3. RecordIntent(r, [copy EXCEPT !.fin = TRUE])
      BY <1>1, <2>1 DEF RecordIntent, RecordObj
    <2> QED
      BY <1>3, <2>2, <2>3
      DEF RecordAddFinalizer, RecordRest, cacheVars, RecordStep, RecordWrite
  <1>4. CASE RecordDelete(r)
    <2>1. copy = recs[r]
      BY <1>4, AcceptedRecord DEF RecordDelete
    <2>2. [copy EXCEPT !.fin = FALSE] \in RecordObj
      BY <1>1 DEF RecordObj
    <2>3. RecordIntent(r, [copy EXCEPT !.fin = FALSE])
      BY <1>1, <2>1 DEF RecordIntent, RecordObj
    <2> QED
      BY <1>4, <2>2, <2>3 DEF RecordDelete, RecordRest, cacheVars, RecordStep, RecordWrite
  <1>5. CASE RecordValidate(r)
    <2> DEFINE new == [recs[r] EXCEPT !.status = CheckedStatus(copy)]
    <2>1. new \in RecordObj /\ RecordIntent(r, new)
      BY <1>1, CheckedStatusType DEF RecordObj, RecordIntent
    <2>2. UNCHANGED recordVars \/ PutRecord(r, new)
      BY <1>5 DEF RecordValidate
    <2>3. UNCHANGED recCache
      BY <1>5 DEF RecordValidate, RecordRest, cacheVars
    <2> QED
      BY <2>1, <2>2, <2>3 DEF RecordStep, RecordWrite, recordVars
  <1> QED
    BY <1>2, <1>3, <1>4, <1>5 DEF RecordReconcile

(* The zone controller's notifications change the status of a record only. *)
LEMMA NotifySteps ==
  ASSUME Inv, NEW r \in Record, ZoneJoin(r) \/ ZoneUnjoin(r)
  PROVE  RecordStep
  <1> USE DEF Inv, RecordTypes
  <1>1. UNCHANGED recCache
    BY DEF ZoneJoin, ZoneUnjoin, ZoneRest, cacheVars
  <1>2. PICK cond \in RecordCond :
          \/ UNCHANGED recordVars
          \/ PutRecord(r, [recs[r] EXCEPT !.status.cond = cond,
                                          !.status.ogen = recCache[r].gen])
    BY DEF ZoneJoin, ZoneUnjoin, NotifyRecord, ApiRest, RecordCond
  <1> DEFINE new == [recs[r] EXCEPT !.status.cond = cond, !.status.ogen = recCache[r].gen]
  <1>3. recs[r] \in RecordObj /\ recCache[r].gen \in Nat
    BY DEF RecordObj
  <1>4. new \in RecordObj /\ RecordIntent(r, new)
    BY <1>3 DEF RecordObj, RecordStatus, RecordIntent
  <1> QED
    BY <1>1, <1>2, <1>4 DEF RecordStep, RecordWrite, recordVars

(* Every step does to the records one of the four things above.            *)
LEMMA RecordSteps ==
  ASSUME Inv, [Next]_vars
  PROVE  RecordStep
  <1> USE DEF recordVars, cacheVars, clusterVars, apiVars, feedVars
  <1>1. CASE RecordCtl
    BY <1>1, RecordReconcileSteps DEF RecordCtl
  <1>2. CASE ZoneCtl
    <2>1. CASE \E z \in Zone : ZoneBegin(z)
      BY <2>1 DEF ZoneBegin, ZoneNotFound, ZoneAddFinalizer, ZoneStartDelete,
                  ZoneStartUpdate, ApiRest, ZoneRest, RecordStep
    <2>2. CASE \E r \in Record : ZoneJoin(r) \/ ZoneUnjoin(r)
      BY <2>2, NotifySteps
    <2>3. CASE ZoneInvalid \/ ZonePublish \/ ZoneRemoveFinalizer
      BY <2>3 DEF ZoneInvalid, ZonePublish, WriteZoneStatus, ZoneRemoveFinalizer,
                  ApiRest, ZoneRest, RecordStep
    <2>4. CASE ZoneCreateCM \/ ZoneUpdateCM \/ ZoneAddCMFinalizer
      BY <2>4 DEF ZoneCreateCM, ZoneUpdateCM, ZoneAddCMFinalizer, ApiRest, ZoneRest,
                  RecordStep
    <2>5. CASE ZoneFault
      BY <2>5 DEF ZoneFault, ApiRest, ZoneRest, RecordStep
    <2> QED
      BY <1>2, <2>1, <2>2, <2>3, <2>4, <2>5 DEF ZoneCtl, ZoneWork
  <1>3. CASE Delay
    BY <1>3 DEF Delay, DelayExpires, RecordStep
  <1>4. CASE Deliver
    <2>1. CASE \E r \in Record : DeliverRecord(r)
      <3>1. PICK r \in Record : \E v \in recFeed[r] : TakeRecord(r, v) /\ UNCHANGED recs
        BY <2>1 DEF DeliverRecord
      <3>2. recFeed[r] \subseteq RecordObj
        BY DEF Inv, RecordTypes
      <3> QED
        BY <3>1, <3>2 DEF RecordStep, RecordDelivery
    <2>2. CASE \E z \in Zone : DeliverZone(z)
      BY <2>2 DEF DeliverZone, RecordStep
    <2>3. CASE \E n \in CMName : DeliverCM(n)
      BY <2>3 DEF DeliverCM, RecordStep
    <2> QED
      BY <1>4, <2>1, <2>2, <2>3 DEF Deliver
  <1>5. CASE Environment
    <2>1. CASE \E r \in Record : CreateRecord(r) \/ EditRecord(r) \/ DeleteRecord(r)
      BY <2>1, UserRecordSteps DEF RecordStep
    <2>2. CASE \E z \in Zone : CreateZone(z) \/ EditZone(z) \/ LabelZone(z) \/ DeleteZone(z)
      BY <2>2 DEF CreateZone, EditZone, LabelZone, DeleteZone, User, RecordStep
    <2>3. CASE \E n \in CMName : DeleteCM(n) \/ GarbageCollect(n)
      BY <2>3 DEF DeleteCM, GarbageCollect, User, RecordStep
    <2>4. CASE \E z \in Zone, c \in {"Active", "Pending"} : ConnectorNotify(z, c)
      BY <2>4 DEF ConnectorNotify, RecordStep
    <2>5. CASE Tick
      BY <2>5 DEF Tick, RecordStep
    <2> QED
      BY <1>5, <2>1, <2>2, <2>3, <2>4, <2>5 DEF Environment, UserStep
  <1>6. CASE Restart
    BY <1>6 DEF Restart, RecordStep, RecordRefill
  <1>7. CASE UNCHANGED vars
    BY <1>7 DEF vars, RecordStep
  <1> QED
    BY <1>1, <1>2, <1>3, <1>4, <1>5, <1>6, <1>7 DEF Next, Operator

-----------------------------------------------------------------------------
(* Every step of the system is such a step on the zones.                   *)

(* The same for zones.                                                     *)
LEMMA AcceptedZone ==
  ASSUME ZonesAligned, NEW z \in Zone, Accepts(zoneCache[z], zones[z])
  PROVE  zoneCache[z] = zones[z]
  BY DEF ZonesAligned, Accepts

(* A zone edited or marked for deletion is typed.                          *)
LEMMA EditedZone ==
  ASSUME NEW obj \in ZoneObj
  PROVE  /\ \A s \in ZoneSpec : [obj EXCEPT !.spec = s, !.gen = @ + 1] \in ZoneObj
         /\ DeletedCR(obj) \in ZoneObj
  <1> DEFINE next == [obj EXCEPT !.gen = @ + 1]
  <1>1. next \in ZoneObj
    BY DEF ZoneObj
  <1>2. /\ \A s \in ZoneSpec :
             [obj EXCEPT !.spec = s, !.gen = @ + 1] = [next EXCEPT !.spec = s]
        /\ DeletedCR(obj) = [next EXCEPT !.deleting = TRUE]
    BY DEF ZoneObj, DeletedCR
  <1> HIDE DEF next
  <1> QED
    BY <1>1, <1>2 DEF ZoneObj

(* A zone created under a name used before is typed.                       *)
LEMMA RecreatedZone ==
  ASSUME NEW obj \in ZoneObj, NEW n \in Nat
  PROVE  [obj EXCEPT !.rv = n, !.uid = n + 1] \in ZoneObj
  <1> DEFINE next == [obj EXCEPT !.uid = n + 1]
  <1>1. next \in ZoneObj
    BY DEF ZoneObj
  <1>2. [obj EXCEPT !.rv = n, !.uid = n + 1] = [next EXCEPT !.rv = n]
    BY DEF ZoneObj
  <1> HIDE DEF next
  <1> QED
    BY <1>1, <1>2 DEF ZoneObj

(* The fields of the worker are typed, and the config map it works on has  *)
(* a name.                                                                 *)
LEMMA WorkerFields ==
  ASSUME Inv
  PROVE  /\ zw.key \in Zone /\ zw.copy \in ZoneObj /\ zw.file \in File
         /\ zw.serial \in Nat /\ zw.cmrv \in Nat /\ zw.todo \subseteq Record
         /\ zw.copy.status \in ZoneStatus /\ zw.copy.spec \in ZoneSpec
         /\ zw.copy.gen \in Nat /\ zw.copy.uid \in Nat
         /\ zw.copy.spec.prefix \in Prefix
         /\ CMOf(zw.key, zw.copy.spec) \in CMName
  <1>1. zw \in Worker
    BY DEF Inv, WorkTypes
  <1>2. /\ zw.key \in Zone /\ zw.copy \in ZoneObj /\ zw.file \in File
        /\ zw.serial \in Nat /\ zw.cmrv \in Nat /\ zw.todo \subseteq Record
    BY <1>1 DEF Worker
  <1>3. /\ zw.copy.status \in ZoneStatus /\ zw.copy.spec \in ZoneSpec
        /\ zw.copy.gen \in Nat /\ zw.copy.uid \in Nat
    BY <1>2 DEF ZoneObj
  <1>4. zw.copy.spec.prefix \in Prefix
    BY <1>3 DEF ZoneSpec
  <1> QED
    BY <1>2, <1>3, <1>4 DEF CMOf, CMName

(* Users write zones, and their writes count as edits.                     *)
LEMMA UserZoneSteps ==
  ASSUME Inv, NEW z \in Zone, CreateZone(z) \/ EditZone(z) \/ DeleteZone(z)
  PROVE  ZoneWrite
  <1>1. edits' # edits /\ UNCHANGED zoneCache
    <2>1. edits \in Nat
      BY DEF Inv, WorkTypes
    <2>2. edits' = edits + 1 /\ UNCHANGED zoneCache
      BY DEF CreateZone, EditZone, DeleteZone, User, cacheVars
    <2> QED
      BY <2>1, <2>2
  <1>2. zones[z] \in ZoneObj
    BY DEF Inv, ZoneTypes
  <1>3. CASE CreateZone(z)
    <2>1. PICK s \in ZoneSpec :
            PutZone(z, [NewZone(s) EXCEPT !.rv = zones[z].rv, !.uid = zones[z].rv + 1])
      BY <1>3 DEF CreateZone
    <2>2. [NewZone(s) EXCEPT !.rv = zones[z].rv, !.uid = zones[z].rv + 1] \in ZoneObj
      BY <1>2, NewObjects, RecreatedZone DEF ZoneObj
    <2> QED
      BY <1>1, <2>1, <2>2 DEF ZoneWrite, ZoneIntent
  <1>4. CASE EditZone(z)
    <2>1. PICK s \in ZoneSpec :
            PutZone(z, [zones[z] EXCEPT !.spec = s, !.gen = @ + 1])
      BY <1>4 DEF EditZone
    <2>2. [zones[z] EXCEPT !.spec = s, !.gen = @ + 1] \in ZoneObj
      BY <1>2, EditedZone
    <2> QED
      BY <1>1, <2>1, <2>2 DEF ZoneWrite, ZoneIntent
  <1>5. CASE DeleteZone(z)
    <2>1. DeletedCR(zones[z]) \in ZoneObj
      BY <1>2, EditedZone
    <2> QED
      BY <1>1, <1>5, <2>1 DEF DeleteZone, ZoneWrite, ZoneIntent
  <1> QED
    BY <1>3, <1>4, <1>5

(* A write of the status leaves spec and deletion alone, whoever makes it. *)
LEMMA ZoneStatusWrite ==
  ASSUME Inv, NEW z \in Zone, NEW status \in ZoneStatus, UNCHANGED zoneCache,
         PutZone(z, [zones[z] EXCEPT !.status = status])
  PROVE  ZoneStep
  <1>1. zones[z] \in ZoneObj
    BY DEF Inv, ZoneTypes
  <1>2. /\ [zones[z] EXCEPT !.status = status] \in ZoneObj
        /\ ZoneIntent(z, [zones[z] EXCEPT !.status = status])
    BY <1>1 DEF ZoneObj, ZoneIntent
  <1> QED
    BY <1>2 DEF ZoneStep, ZoneWrite

(* A write of the finalizer, made from the cached zone and accepted, keeps *)
(* the spec and the deletion of the stored one.                            *)
LEMMA ZoneFinalizerWrite ==
  ASSUME Inv, NEW z \in Zone, NEW fin \in BOOLEAN, UNCHANGED zoneCache,
         Accepts(zoneCache[z], zones[z]),
         PutZone(z, [zoneCache[z] EXCEPT !.fin = fin])
  PROVE  ZoneStep
  <1>1. zones[z] \in ZoneObj /\ zoneCache[z] = zones[z]
    BY AcceptedZone DEF Inv, ZoneTypes
  <1>2. /\ [zoneCache[z] EXCEPT !.fin = fin] \in ZoneObj
        /\ ZoneIntent(z, [zoneCache[z] EXCEPT !.fin = fin])
    BY <1>1 DEF ZoneObj, ZoneIntent
  <1> QED
    BY <1>2 DEF ZoneStep, ZoneWrite

(* The worker's writes of zones are of these two kinds.                    *)
LEMMA WorkerZoneSteps ==
  ASSUME Inv, ZoneInvalid \/ ZonePublish \/ ZoneRemoveFinalizer
  PROVE  ZoneStep
  <1>1. UNCHANGED zoneCache
    BY DEF ZoneInvalid, ZonePublish, ZoneRemoveFinalizer, ZoneRest, cacheVars
  <1>2. CASE ZoneInvalid
    <2> DEFINE status == [zw.copy.status EXCEPT !.passed = FALSE, !.cond = "UpdateError",
                                                !.ogen = zw.copy.gen]
    <2>1. status \in ZoneStatus
      BY WorkerFields DEF ZoneStatus, ZoneCond
    <2>2. UNCHANGED zoneVars \/ PutZone(zw.key, [zones[zw.key] EXCEPT !.status = status])
      BY <1>2 DEF ZoneInvalid, WriteZoneStatus, ApiRest
    <2> QED
      BY <1>1, <2>1, <2>2, WorkerFields, ZoneStatusWrite DEF ZoneStep, zoneVars
  <1>3. CASE ZonePublish
    <2> DEFINE status == [passed |-> TRUE, checkpoint |-> TRUE, serial |-> zw.serial,
                          prefix |-> zw.copy.spec.prefix, cond |-> "Pending",
                          ogen |-> zw.copy.gen]
    <2>1. status \in ZoneStatus
      BY WorkerFields DEF ZoneStatus, ZoneCond
    <2>2. UNCHANGED zoneVars \/ PutZone(zw.key, [zones[zw.key] EXCEPT !.status = status])
      BY <1>3 DEF ZonePublish, WriteZoneStatus, ApiRest
    <2> QED
      BY <1>1, <2>1, <2>2, WorkerFields, ZoneStatusWrite DEF ZoneStep, zoneVars
  <1>4. CASE ZoneRemoveFinalizer
    <2>1. \/ UNCHANGED zoneVars
          \/ /\ Accepts(zoneCache[zw.key], zones[zw.key])
             /\ PutZone(zw.key, [zoneCache[zw.key] EXCEPT !.fin = FALSE])
      BY <1>4 DEF ZoneRemoveFinalizer, ApiRest
    <2> QED
      BY <1>1, <2>1, WorkerFields, ZoneFinalizerWrite DEF ZoneStep, zoneVars
  <1> QED
    BY <1>2, <1>3, <1>4

(* So are those made when the worker takes a key.                          *)
LEMMA BeginZoneSteps ==
  ASSUME Inv, NEW z \in Zone, ZoneBegin(z)
  PROVE  ZoneStep
  <1>1. CASE ZoneAddFinalizer(z)
    BY <1>1, ZoneFinalizerWrite DEF ZoneAddFinalizer, ZoneRest, cacheVars
  <1>2. CASE ZoneNotFound(z) \/ ZoneStartDelete(z) \/ ZoneStartUpdate(z)
    BY <1>2 DEF ZoneNotFound, ZoneStartDelete, ZoneStartUpdate, ApiRest, ZoneRest,
                zoneVars, cacheVars, ZoneStep
  <1> QED
    BY <1>1, <1>2 DEF ZoneBegin

(* The connector's report changes the status of a zone only.               *)
LEMMA ConnectorZoneSteps ==
  ASSUME Inv, NEW z \in Zone, NEW c \in {"Active", "Pending"}, ConnectorNotify(z, c)
  PROVE  ZoneStep
  <1> DEFINE new == [zones[z] EXCEPT !.status.cond = c, !.status.ogen = zoneCache[z].gen]
  <1>1. zones[z] \in ZoneObj /\ zoneCache[z].gen \in Nat
    BY DEF Inv, ZoneTypes, ZoneObj
  <1>2. new \in ZoneObj /\ ZoneIntent(z, new)
    BY <1>1 DEF ZoneObj, ZoneStatus, ZoneCond, ZoneIntent
  <1> QED
    BY <1>2 DEF ConnectorNotify, cacheVars, ZoneStep, ZoneWrite

(* Every step does to the zones one of the five things above.              *)
LEMMA ZoneSteps ==
  ASSUME Inv, [Next]_vars
  PROVE  ZoneStep
  <1> USE DEF zoneVars, cacheVars, clusterVars, apiVars, feedVars
  <1>1. CASE RecordCtl
    BY <1>1 DEF RecordCtl, RecordReconcile, RecordNotFound, RecordAddFinalizer,
                RecordDelete, RecordValidate, RecordRest, ZoneStep
  <1>2. CASE ZoneCtl
    <2>1. CASE \E z \in Zone : ZoneBegin(z)
      BY <2>1, BeginZoneSteps
    <2>2. CASE \E r \in Record : ZoneJoin(r) \/ ZoneUnjoin(r)
      BY <2>2 DEF ZoneJoin, ZoneUnjoin, NotifyRecord, ApiRest, ZoneRest, ZoneStep
    <2>3. CASE ZoneInvalid \/ ZonePublish \/ ZoneRemoveFinalizer
      BY <2>3, WorkerZoneSteps
    <2>4. CASE ZoneCreateCM \/ ZoneUpdateCM \/ ZoneAddCMFinalizer
      BY <2>4 DEF ZoneCreateCM, ZoneUpdateCM, ZoneAddCMFinalizer, ApiRest, ZoneRest,
                  ZoneStep
    <2>5. CASE ZoneFault
      BY <2>5 DEF ZoneFault, ApiRest, ZoneRest, ZoneStep
    <2> QED
      BY <1>2, <2>1, <2>2, <2>3, <2>4, <2>5 DEF ZoneCtl, ZoneWork
  <1>3. CASE Delay
    BY <1>3 DEF Delay, DelayExpires, ZoneStep
  <1>4. CASE Deliver
    <2>1. CASE \E z \in Zone : DeliverZone(z)
      <3>1. PICK z \in Zone : \E v \in zoneFeed[z] : TakeZone(z, v) /\ UNCHANGED zones
        BY <2>1 DEF DeliverZone
      <3>2. zoneFeed[z] \subseteq ZoneObj
        BY DEF Inv, ZoneTypes
      <3> QED
        BY <3>1, <3>2 DEF ZoneStep, ZoneDelivery
    <2>2. CASE \E r \in Record : DeliverRecord(r)
      BY <2>2 DEF DeliverRecord, ZoneStep
    <2>3. CASE \E n \in CMName : DeliverCM(n)
      BY <2>3 DEF DeliverCM, ZoneStep
    <2> QED
      BY <1>4, <2>1, <2>2, <2>3 DEF Deliver
  <1>5. CASE Environment
    <2>1. CASE \E r \in Record : CreateRecord(r) \/ EditRecord(r) \/ DeleteRecord(r)
      BY <2>1 DEF CreateRecord, EditRecord, DeleteRecord, User, ZoneStep
    <2>2. CASE \E z \in Zone : CreateZone(z) \/ EditZone(z) \/ DeleteZone(z)
      BY <2>2, UserZoneSteps DEF ZoneStep
    <2>3. CASE \E z \in Zone : LabelZone(z)
      BY <2>3 DEF ZoneStep, ZoneLabel
    <2>4. CASE \E n \in CMName : DeleteCM(n) \/ GarbageCollect(n)
      BY <2>4 DEF DeleteCM, GarbageCollect, User, ZoneStep
    <2>5. CASE \E z \in Zone, c \in {"Active", "Pending"} : ConnectorNotify(z, c)
      BY <2>5, ConnectorZoneSteps
    <2>6. CASE Tick
      BY <2>6 DEF Tick, ZoneStep
    <2> QED
      BY <1>5, <2>1, <2>2, <2>3, <2>4, <2>5, <2>6 DEF Environment, UserStep
  <1>6. CASE Restart
    BY <1>6 DEF Restart, ZoneStep, ZoneRefill
  <1>7. CASE UNCHANGED vars
    BY <1>7 DEF vars, ZoneStep
  <1> QED
    BY <1>1, <1>2, <1>3, <1>4, <1>5, <1>6, <1>7 DEF Next, Operator

-----------------------------------------------------------------------------
(* Every step of the system is such a step on the config maps.             *)

(* Adding or removing the finalizer writes the cached file back.           *)
LEMMA CMFinalizerWrite ==
  ASSUME Inv, NEW n \in CMName, NEW fin \in BOOLEAN, UNCHANGED cmCache,
         PutCM(n, [cmCache[n] EXCEPT !.fin = fin])
  PROVE  CMStep
  <1>1. cmCache[n] \in CMObj /\ ValidFile(cmCache[n].file)
    BY DEF Inv, CMTypes, FilesValid
  <1>2. [cmCache[n] EXCEPT !.fin = fin] \in CMObj
    BY <1>1 DEF CMObj
  <1>3. [cmCache[n] EXCEPT !.fin = fin].file = cmCache[n].file
    BY <1>1 DEF CMObj
  <1> QED
    BY <1>1, <1>2, <1>3 DEF CMStep, CMWrite

(* A deletion, by a user or the garbage collector, keeps the file.         *)
LEMMA CMDeletion ==
  ASSUME Inv, NEW n \in CMName, UNCHANGED cmCache, PutCM(n, Deleted(cms[n]))
  PROVE  CMStep
  <1>1. cms[n] \in CMObj /\ ValidFile(cms[n].file)
    BY DEF Inv, CMTypes, FilesValid
  <1>2. Deleted(cms[n]) \in CMObj /\ Deleted(cms[n]).file = cms[n].file
    BY <1>1 DEF CMObj, Deleted
  <1> QED
    BY <1>1, <1>2 DEF CMStep, CMWrite

(* The config map the worker sends is typed and holds the worker's file.   *)
LEMMA UpcomingType ==
  ASSUME Inv, NEW cm \in CMObj
  PROVE  Upcoming(cm) \in CMObj /\ Upcoming(cm).file = zw.file
  BY WorkerFields DEF Upcoming, CMObj

(* The worker writes a file only after its validation.                     *)
LEMMA WorkerCMSteps ==
  ASSUME Inv, ZoneCreateCM \/ ZoneUpdateCM \/ ZoneAddCMFinalizer
  PROVE  CMStep
  <1> DEFINE n == CMOf(zw.key, zw.copy.spec)
  <1>1. n \in CMName /\ cms[n] \in CMObj
    BY WorkerFields DEF Inv, CMTypes
  <1> HIDE DEF n
  <1>2. UNCHANGED cmCache
    BY DEF ZoneCreateCM, ZoneUpdateCM, ZoneAddCMFinalizer, ZoneRest, cacheVars
  <1>3. CASE ZoneCreateCM
    <2> DEFINE new == [Upcoming(cms[n]) EXCEPT !.deleting = FALSE]
    <2>1. new \in CMObj /\ new.file = zw.file
      BY <1>1, UpcomingType DEF CMObj
    <2>2. ValidFile(zw.file)
      BY <1>3 DEF ZoneCreateCM, At, Inv, WorkerFileValid
    <2>3. UNCHANGED cmVars \/ PutCM(n, new)
      BY <1>3 DEF ZoneCreateCM, ApiRest, n
    <2> HIDE DEF new
    <2> QED
      BY <1>1, <1>2, <2>1, <2>2, <2>3 DEF CMStep, CMWrite, cmVars
  <1>4. CASE ZoneUpdateCM
    <2>1. Upcoming(cms[n]) \in CMObj /\ Upcoming(cms[n]).file = zw.file
      BY <1>1, UpcomingType
    <2>2. ValidFile(zw.file)
      BY <1>4 DEF ZoneUpdateCM, At, Inv, WorkerFileValid
    <2>3. UNCHANGED cmVars \/ PutCM(n, Upcoming(cms[n]))
      BY <1>4 DEF ZoneUpdateCM, ApiRest, n
    <2> QED
      BY <1>1, <1>2, <2>1, <2>2, <2>3 DEF CMStep, CMWrite, cmVars
  <1>5. CASE ZoneAddCMFinalizer
    <2>1. UNCHANGED cmVars \/ PutCM(n, [cmCache[n] EXCEPT !.fin = TRUE])
      BY <1>5 DEF ZoneAddCMFinalizer, ApiRest, n
    <2> QED
      BY <1>1, <1>2, <2>1, CMFinalizerWrite DEF CMStep, cmVars
  <1> QED
    BY <1>3, <1>4, <1>5

(* The deletion of a zone writes the cached config map back without its    *)
(* finalizer.                                                              *)
LEMMA BeginCMSteps ==
  ASSUME Inv, NEW z \in Zone, ZoneBegin(z)
  PROVE  CMStep
  <1>1. CASE ZoneStartDelete(z)
    <2> DEFINE n == CMOf(z, zoneCache[z].spec)
    <2>1. n \in CMName
      BY DEF CMOf, CMName, Inv, ZoneTypes, ZoneObj, ZoneSpec
    <2>2. /\ UNCHANGED cmCache
          /\ UNCHANGED cmVars \/ PutCM(n, [cmCache[n] EXCEPT !.fin = FALSE])
      BY <1>1 DEF ZoneStartDelete, ZoneRest, cacheVars
    <2> HIDE DEF n
    <2> QED
      BY <2>1, <2>2, CMFinalizerWrite DEF CMStep, cmVars
  <1>2. CASE ZoneNotFound(z) \/ ZoneAddFinalizer(z) \/ ZoneStartUpdate(z)
    BY <1>2 DEF ZoneNotFound, ZoneAddFinalizer, ZoneStartUpdate, ApiRest, ZoneRest,
                cmVars, cacheVars, CMStep
  <1> QED
    BY <1>1, <1>2 DEF ZoneBegin

(* Every step does to the config maps one of the four things above.        *)
LEMMA CMSteps ==
  ASSUME Inv, [Next]_vars
  PROVE  CMStep
  <1> USE DEF cmVars, cacheVars, clusterVars, apiVars, feedVars
  <1>1. CASE RecordCtl
    BY <1>1 DEF RecordCtl, RecordReconcile, RecordNotFound, RecordAddFinalizer,
                RecordDelete, RecordValidate, RecordRest, CMStep
  <1>2. CASE ZoneCtl
    <2>1. CASE \E z \in Zone : ZoneBegin(z)
      BY <2>1, BeginCMSteps
    <2>2. CASE \E r \in Record : ZoneJoin(r) \/ ZoneUnjoin(r)
      BY <2>2 DEF ZoneJoin, ZoneUnjoin, NotifyRecord, ApiRest, ZoneRest, CMStep
    <2>3. CASE ZoneInvalid \/ ZonePublish \/ ZoneRemoveFinalizer
      BY <2>3 DEF ZoneInvalid, ZonePublish, WriteZoneStatus, ZoneRemoveFinalizer,
                  ApiRest, ZoneRest, CMStep
    <2>4. CASE ZoneCreateCM \/ ZoneUpdateCM \/ ZoneAddCMFinalizer
      BY <2>4, WorkerCMSteps
    <2>5. CASE ZoneFault
      BY <2>5 DEF ZoneFault, ApiRest, ZoneRest, CMStep
    <2> QED
      BY <1>2, <2>1, <2>2, <2>3, <2>4, <2>5 DEF ZoneCtl, ZoneWork
  <1>3. CASE Delay
    BY <1>3 DEF Delay, DelayExpires, CMStep
  <1>4. CASE Deliver
    <2>1. CASE \E n \in CMName : DeliverCM(n)
      <3>1. PICK n \in CMName : \E v \in cmFeed[n] : TakeCM(n, v) /\ UNCHANGED cms
        BY <2>1 DEF DeliverCM
      <3>2. cmFeed[n] \subseteq CMObj
        BY DEF Inv, CMTypes
      <3> QED
        BY <3>1, <3>2 DEF CMStep, CMDelivery
    <2>2. CASE \E r \in Record : DeliverRecord(r)
      BY <2>2 DEF DeliverRecord, CMStep
    <2>3. CASE \E z \in Zone : DeliverZone(z)
      BY <2>3 DEF DeliverZone, CMStep
    <2> QED
      BY <1>4, <2>1, <2>2, <2>3 DEF Deliver
  <1>5. CASE Environment
    <2>1. CASE \E r \in Record : CreateRecord(r) \/ EditRecord(r) \/ DeleteRecord(r)
      BY <2>1 DEF CreateRecord, EditRecord, DeleteRecord, User, CMStep
    <2>2. CASE \E z \in Zone : CreateZone(z) \/ EditZone(z) \/ LabelZone(z) \/ DeleteZone(z)
      BY <2>2 DEF CreateZone, EditZone, LabelZone, DeleteZone, User, CMStep
    <2>3. CASE \E n \in CMName : DeleteCM(n) \/ GarbageCollect(n)
      BY <2>3, CMDeletion DEF DeleteCM, GarbageCollect, User
    <2>4. CASE \E z \in Zone, c \in {"Active", "Pending"} : ConnectorNotify(z, c)
      BY <2>4 DEF ConnectorNotify, CMStep
    <2>5. CASE Tick
      BY <2>5 DEF Tick, CMStep
    <2> QED
      BY <1>5, <2>1, <2>2, <2>3, <2>4, <2>5 DEF Environment, UserStep
  <1>6. CASE Restart
    BY <1>6 DEF Restart, CMStep, CMRefill
  <1>7. CASE UNCHANGED vars
    BY <1>7 DEF vars, CMStep
  <1> QED
    BY <1>1, <1>2, <1>3, <1>4, <1>5, <1>6, <1>7 DEF Next, Operator

-----------------------------------------------------------------------------
(* Queues, timers, counters and the worker.                                *)

WorkerOK(w) == w \in Worker /\ (w.pc \in {"create", "update"} => ValidFile(w.file))

(* The worker at rest holds nothing it could write.                        *)
LEMMA IdleOK == WorkerOK(Idle)
  BY IdleType DEF WorkerOK, Idle

(* Nor does it in the loops over the records.                              *)
LEMMA LoopOK ==
  ASSUME NEW pc \in {"join", "unjoin"}, NEW key \in Zone, NEW todo \in SUBSET Record,
         NEW after \in {"idle", "zonefin"}
  PROVE  WorkerOK(Loop(pc, key, todo, after))
  <1>1. \A t \in SUBSET Record : WorkerOK([Idle EXCEPT !.pc = pc, !.key = key, !.todo = t])
    <2> SUFFICES ASSUME NEW t \in SUBSET Record
                 PROVE  WorkerOK([Idle EXCEPT !.pc = pc, !.key = key, !.todo = t])
      OBVIOUS
    <2> DEFINE keyed == [Idle EXCEPT !.key = key]
               listed == [keyed EXCEPT !.todo = t]
    <2>1. keyed \in Worker
      BY IdleType DEF Worker
    <2>2. [Idle EXCEPT !.pc = pc, !.key = key, !.todo = t] = [listed EXCEPT !.pc = pc]
      BY IdleType DEF Worker
    <2> HIDE DEF keyed
    <2>3. listed \in Worker
      BY <2>1 DEF Worker
    <2> HIDE DEF listed
    <2> QED
      BY <2>2, <2>3 DEF WorkerOK, Worker, UpdatePC, DeletePC
  <1>2. WorkerOK([Idle EXCEPT !.pc = "zonefin", !.key = key])
    <2> DEFINE keyed == [Idle EXCEPT !.key = key]
    <2>1. keyed \in Worker
      BY IdleType DEF Worker
    <2>2. [Idle EXCEPT !.pc = "zonefin", !.key = key] = [keyed EXCEPT !.pc = "zonefin"]
      BY IdleType DEF Worker
    <2> HIDE DEF keyed
    <2> QED
      BY <2>1, <2>2 DEF WorkerOK, Worker, UpdatePC, DeletePC
  <1> QED
    BY <1>1, <1>2, IdleOK DEF Loop

(* Nor in the loop that follows the publication.                           *)
LEMMA JoiningOK ==
  ASSUME Inv
  PROVE  WorkerOK(Joining)
  BY WorkerFields, LoopOK DEF Joining

(* constructZoneFile builds a zone file.                                   *)
LEMMA BakedFileType ==
  ASSUME Inv, NEW z \in Zone
  PROVE  BakedFile(z) \in File
  <1>1. zoneCache[z].spec.hdr \in Header
    BY DEF Inv, ZoneTypes, ZoneObj, ZoneSpec
  <1>2. \A r \in Record : recCache[r].status.entry \in Data
    BY DEF Inv, RecordTypes, RecordObj, RecordStatus
  <1> QED
    BY <1>1, <1>2 DEF BakedFile, File, GoodRecords

(* The worker starts to write a config map with a validated file only.     *)
LEMMA BeginWork ==
  ASSUME Inv, NEW z \in Zone, ZoneBegin(z)
  PROVE  (zw' = zw \/ WorkerOK(zw')) /\ zoneQ' \subseteq Zone
  <1>1. GoodRecords(z) \subseteq Record /\ zoneQ \subseteq Zone
    BY DEF GoodRecords, Inv, WorkTypes
  <1>2. CASE ZoneNotFound(z) \/ ZoneAddFinalizer(z)
    BY <1>1, <1>2 DEF ZoneNotFound, ZoneAddFinalizer
  <1>3. CASE ZoneStartDelete(z)
    BY <1>1, <1>3, LoopOK DEF ZoneStartDelete
  <1>4. CASE ZoneStartUpdate(z)
    <2> DEFINE file == BakedFile(z)
               start == [pc |-> IF ~ValidFile(file) THEN "invalid"
                                ELSE IF cmCache[CMOf(z, zoneCache[z].spec)].exists
                                       THEN "update" ELSE "create",
                         key |-> z, copy |-> zoneCache[z], file |-> file,
                         serial |-> clock, cmrv |-> 0, todo |-> GoodRecords(z)]
    <2>1. zoneCache[z] \in ZoneObj /\ clock \in Nat /\ file \in File
      BY BakedFileType DEF Inv, ZoneTypes, WorkTypes
    <2> HIDE DEF file
    <2>2. WorkerOK(start)
      BY <1>1, <2>1 DEF WorkerOK, Worker, UpdatePC
    <2>3. zw' = start \/ zw' = Loop("join", z, GoodRecords(z), "idle")
      BY <1>4 DEF ZoneStartUpdate, file
    <2>4. zoneQ' \subseteq Zone
      BY <1>1, <1>4 DEF ZoneStartUpdate
    <2> HIDE DEF start
    <2> QED
      BY <1>1, <2>2, <2>3, <2>4, LoopOK
  <1> QED
    BY <1>2, <1>3, <1>4 DEF ZoneBegin

(* From the validation to the write the file stays the same.               *)
LEMMA WorkerWork ==
  ASSUME Inv, ZoneWork \/ ZoneFault
  PROVE  WorkerOK(zw') /\ zoneQ' \subseteq Zone /\ faults' \in Nat
  <1>1. /\ zw \in Worker /\ zoneQ \subseteq Zone /\ faults \in Nat
        /\ At("create") => ValidFile(zw.file)
    BY DEF Inv, WorkTypes, WorkerFileValid, At
  <1>2. zoneQ' \in {zoneQ, zoneQ \cup {zw.key}} /\ faults' \in {faults, faults + 1}
    <2>1. CASE ZoneInvalid \/ ZonePublish
      BY <2>1 DEF ZoneInvalid, ZonePublish, WriteZoneStatus, Succeed, Fail
    <2>2. CASE ZoneCreateCM \/ ZoneUpdateCM \/ ZoneAddCMFinalizer
      BY <2>2 DEF ZoneCreateCM, ZoneUpdateCM, ZoneAddCMFinalizer, Succeed, Fail
    <2>3. CASE ZoneRemoveFinalizer \/ ZoneFault
      BY <2>3 DEF ZoneRemoveFinalizer, ZoneFault, Succeed, Fail
    <2>4. CASE \E r \in Record : ZoneJoin(r) \/ ZoneUnjoin(r)
      BY <2>4 DEF ZoneJoin, ZoneUnjoin, NotifyRecord, Succeed, Fail
    <2> QED
      BY <2>1, <2>2, <2>3, <2>4 DEF ZoneWork
  <1>3. CASE ZoneInvalid \/ ZoneAddCMFinalizer
    BY <1>1, <1>2, <1>3, WorkerFields, JoiningOK, IdleOK
    DEF ZoneInvalid, ZoneAddCMFinalizer, WriteZoneStatus, Succeed, Fail
  <1>4. CASE ZoneCreateCM
    <2> DEFINE n == CMOf(zw.key, zw.copy.spec)
    <2>1. cms[n].rv + 1 \in Nat
      BY WorkerFields DEF Inv, CMTypes, CMObj
    <2> HIDE DEF n
    <2> DEFINE next == [zw EXCEPT !.pc = "update", !.cmrv = cms[n].rv + 1]
               step == [zw EXCEPT !.cmrv = cms[n].rv + 1]
    <2>2. step \in Worker /\ step.file = zw.file
      BY <1>1, <2>1 DEF Worker
    <2>3. next = [step EXCEPT !.pc = "update"]
      BY <1>1 DEF Worker
    <2> HIDE DEF step
    <2>4. next \in Worker /\ next.file = zw.file
      BY <2>2, <2>3 DEF Worker, UpdatePC
    <2>5. ValidFile(zw.file) /\ (zw' = next \/ zw' = Idle)
      BY <1>1, <1>4 DEF ZoneCreateCM, Succeed, Fail, n
    <2> HIDE DEF next
    <2>6. WorkerOK(zw')
      BY <2>4, <2>5, IdleOK DEF WorkerOK
    <2> QED
      BY <1>1, <1>2, <2>6, WorkerFields
  <1>5. CASE ZoneUpdateCM \/ ZonePublish
    <2> DEFINE next == [zw EXCEPT !.pc = "status", !.cmrv = 0]
               last == [zw EXCEPT !.pc = "cmfin"]
    <2>1. next = [[zw EXCEPT !.cmrv = 0] EXCEPT !.pc = "status"]
      BY <1>1 DEF Worker
    <2>2. [zw EXCEPT !.cmrv = 0] \in Worker
      BY <1>1 DEF Worker
    <2>3. WorkerOK(next)
      BY <2>1, <2>2 DEF WorkerOK, Worker, UpdatePC
    <2>4. WorkerOK(last)
      BY <1>1 DEF WorkerOK, Worker, UpdatePC
    <2>5. zw' = next \/ zw' = last \/ zw' = Idle
      BY <1>5 DEF ZoneUpdateCM, ZonePublish, WriteZoneStatus, Succeed, Fail
    <2> HIDE DEF next, last
    <2> QED
      BY <1>1, <1>2, <2>3, <2>4, <2>5, IdleOK, WorkerFields
  <1>6. CASE ZoneRemoveFinalizer \/ ZoneFault
    BY <1>1, <1>2, <1>6, IdleOK, WorkerFields DEF ZoneRemoveFinalizer, ZoneFault, Succeed, Fail
  <1>7. CASE \E r \in Record : ZoneJoin(r) \/ ZoneUnjoin(r)
    <2>1. PICK r \in Record :
            \/ zw' = Idle
            \/ zw' = Loop("join", zw.key, zw.todo \ {r}, "idle")
            \/ zw' = Loop("unjoin", zw.key, zw.todo \ {r}, "zonefin")
      BY <1>7 DEF ZoneJoin, ZoneUnjoin, NotifyRecord, Succeed, Fail
    <2>2. zw.todo \ {r} \in SUBSET Record
      BY WorkerFields
    <2>3. WorkerOK(zw')
      BY <2>1, <2>2, WorkerFields, LoopOK, IdleOK
    <2> QED
      BY <1>1, <1>2, <2>3, WorkerFields
  <1> QED
    BY <1>3, <1>4, <1>5, <1>6, <1>7 DEF ZoneWork

(* The event of a record reaches queues and timers of known names.         *)
LEMMA DeliveryWork ==
  ASSUME Inv, NEW r \in Record, DeliverRecord(r)
  PROVE  recQ' \subseteq Record /\ delayed' \subseteq Record \X Zone \X Nat
  <1>1. PICK v \in recFeed[r] : RecordEvent(r, v) /\ RecordEventForZones(r, v)
    BY DEF DeliverRecord
  <1>2. /\ v \in RecordObj /\ recCache[r] \in RecordObj
        /\ recQ \subseteq Record /\ delayed \subseteq Record \X Zone \X Nat
    BY DEF Inv, RecordTypes, WorkTypes
  <1>3. v.rv \in Nat /\ v.spec.ref \in Zone /\ recCache[r].spec.ref \in Zone
    BY <1>2 DEF RecordObj, RecordSpec
  <1>4. recQ' \subseteq Record
    BY <1>1, <1>2 DEF RecordEvent
  <1>5. delayed' \subseteq Record \X Zone \X Nat
    BY <1>1, <1>2, <1>3 DEF RecordEventForZones
  <1> QED
    BY <1>4, <1>5

(* Every step keeps the operator's own state typed and its file validated. *)
LEMMA WorkSteps ==
  ASSUME Inv, [Next]_vars
  PROVE  WorkTypes' /\ WorkerFileValid'
  <1> USE DEF WorkTypes, WorkerFileValid
  <1>0. WorkTypes /\ WorkerFileValid
    BY DEF Inv
  <1>1. CASE RecordCtl
    BY <1>0, <1>1 DEF RecordCtl, RecordReconcile, RecordNotFound, RecordAddFinalizer,
                RecordDelete, RecordValidate, RecordRest, zoneCtlVars, clusterVars
  <1>2. CASE ZoneCtl
    <2>1. /\ zw' = zw \/ WorkerOK(zw')
          /\ zoneQ' \subseteq Zone /\ faults' \in Nat
      <3>1. CASE \E z \in Zone : ZoneBegin(z)
        BY <1>0, <3>1, BeginWork
        DEF ZoneBegin, ZoneNotFound, ZoneAddFinalizer, ZoneStartDelete, ZoneStartUpdate
      <3>2. CASE ZoneWork \/ ZoneFault
        BY <3>2, WorkerWork
      <3> QED
        BY <1>2, <3>1, <3>2 DEF ZoneCtl
    <2>2. ZoneRest /\ UNCHANGED <<recQ, crashes>>
      BY <1>2 DEF ZoneCtl, ZoneBegin, ZoneNotFound, ZoneAddFinalizer, ZoneStartDelete,
                  ZoneStartUpdate, ZoneWork, ZoneInvalid, ZoneCreateCM, ZoneUpdateCM,
                  ZonePublish, ZoneAddCMFinalizer, ZoneRemoveFinalizer, ZoneJoin,
                  ZoneUnjoin, ZoneFault
    <2> QED
      BY <1>0, <2>1, <2>2 DEF ZoneRest, WorkerOK
  <1>3. CASE Delay
    BY <1>0, <1>3 DEF Delay, DelayExpires, clusterVars
  <1>4. CASE Deliver
    <2>1. CASE \E r \in Record : DeliverRecord(r)
      BY <1>0, <2>1, DeliveryWork DEF DeliverRecord
    <2>2. CASE \E z \in Zone : DeliverZone(z)
      BY <1>0, <2>2 DEF DeliverZone, ZoneEvent
    <2>3. CASE \E n \in CMName : DeliverCM(n)
      BY <1>0, <2>3 DEF DeliverCM, zoneCtlVars
    <2> QED
      BY <1>4, <2>1, <2>2, <2>3 DEF Deliver
  <1>5. CASE Environment
    <2>1. edits' \in {edits, edits + 1}
      BY <1>5 DEF Environment, UserStep, CreateRecord, EditRecord, DeleteRecord,
                  CreateZone, EditZone, LabelZone, DeleteZone, DeleteCM, User,
                  ConnectorNotify, GarbageCollect, Tick, clusterVars
    <2>2. clock' \in {clock, clock + 1}
      BY <1>5 DEF Environment, Tick, zoneCtlVars
    <2>3. UNCHANGED <<recQ, delayed, zoneQ, zw, faults, crashes>>
      BY <1>5 DEF Environment, Tick, zoneCtlVars
    <2> QED
      BY <1>0, <2>1, <2>2, <2>3
  <1>6. CASE Restart
    <2>1. /\ zw' = Idle /\ recQ' \subseteq Record /\ zoneQ' \subseteq Zone
          /\ crashes' = crashes + 1 /\ UNCHANGED <<edits, clock, faults>>
      BY <1>6 DEF Restart
    <2>2. delayed' \subseteq Record \X Zone \X Nat
      BY <1>6 DEF Restart, Inv, RecordTypes, RecordObj, RecordSpec
    <2> QED
      BY <1>0, <2>1, <2>2, IdleOK DEF WorkerOK
  <1>7. CASE UNCHANGED vars
    BY <1>0, <1>7 DEF vars, clusterVars, zoneCtlVars
  <1> QED
    BY <1>1, <1>2, <1>3, <1>4, <1>5, <1>6, <1>7 DEF Next, Operator

-----------------------------------------------------------------------------
(* The theorems.                                                           *)

(* A started operator satisfies the invariant.                             *)
LEMMA InitInv == Init => Inv
  <1> SUFFICES ASSUME Init PROVE Inv
    OBVIOUS
  <1>1. RecordTypes /\ RecordsAligned
    <2>1. PICK s \in [Record -> InitRecordSpec] : recs = [r \in Record |-> NewRecord(s[r])]
      BY DEF Init
    <2>2. recs \in [Record -> RecordObj]
      BY <2>1, NewObjects, InitAssumption
    <2> QED
      BY <2>2 DEF Init, RecordTypes, RecordsAligned, RecordObj
  <1>2. ZoneTypes /\ ZonesAligned
    <2>1. PICK s \in [Zone -> InitZoneSpec] : zones = [z \in Zone |-> NewZone(s[z])]
      BY DEF Init
    <2>2. zones \in [Zone -> ZoneObj]
      BY <2>1, NewObjects, InitAssumption
    <2> QED
      BY <2>2 DEF Init, ZoneTypes, ZonesAligned, ZoneObj
  <1>3. CMTypes /\ FilesValid
    <2>1. NoCM \in CMObj /\ ValidFile(NoCM.file)
      BY NewObjects, EmptyFileType DEF NoCM
    <2>2. /\ cms = [n \in CMName |-> NoCM] /\ cmCache = cms
          /\ cmFeed = [n \in CMName |-> {}]
      BY DEF Init
    <2> QED
      BY <2>1, <2>2 DEF CMTypes, FilesValid
  <1>4. WorkTypes /\ WorkerFileValid
    <2>1. delayed \subseteq Record \X Zone \X Nat
      BY <1>1 DEF Init, RecordTypes, RecordObj, RecordSpec
    <2> QED
      BY <2>1, IdleOK DEF Init, WorkTypes, WorkerFileValid, WorkerOK
  <1> QED
    BY <1>1, <1>2, <1>3, <1>4 DEF Inv

(* Every step keeps it.                                                    *)
LEMMA NextInv == Inv /\ [Next]_vars => Inv'
  <1> SUFFICES ASSUME Inv, [Next]_vars PROVE Inv'
    OBVIOUS
  <1>1. RecordTypes' /\ RecordsAligned'
    BY RecordSteps, RecordStepKeeps DEF Inv
  <1>2. ZoneTypes' /\ ZonesAligned'
    BY ZoneSteps, ZoneStepKeeps DEF Inv
  <1>3. CMTypes' /\ FilesValid'
    BY CMSteps, CMStepKeeps DEF Inv
  <1>4. WorkTypes' /\ WorkerFileValid'
    BY WorkSteps
  <1> QED
    BY <1>1, <1>2, <1>3, <1>4 DEF Inv

(* Every reachable state satisfies the inductive invariant: the caches     *)
(* never lead the API server, and every version of a config map, stored,   *)
(* cached or on its way, holds a file that passed validateRecords.         *)
THEOREM Invariance == Spec => []Inv
  BY InitInv, NextInv, PTL DEF Spec

(* The state of the controllers, of their caches and of the objects they   *)
(* write keeps its type, for any number of records and zones, any edits,   *)
(* faults and restarts.                                                    *)
THEOREM TypeCorrect == Spec => []TypeOK
  <1>1. Inv => TypeOK
    BY TypesAgree DEF Inv
  <1> QED
    BY <1>1, Invariance, PTL

(* createOrUpdateZoneCM and the finalizer helpers, which write config maps *)
(* back from a lagging cache, never publish a zone file that fails         *)
(* validation.                                                             *)
THEOREM OnlyValidFilesPublished == Spec => []PublishedFilesParse
  <1>1. Inv => PublishedFilesParse
    BY DEF Inv, FilesValid, PublishedFilesParse
  <1> QED
    BY <1>1, Invariance, PTL

(* A step that is no edit leaves specs and deletions of records alone.     *)
LEMMA RecordIntentKept ==
  ASSUME Inv, [Next]_vars, edits' = edits, NEW r \in Record
  PROVE  recs'[r].spec = recs[r].spec /\ (recs[r].deleting => recs'[r].deleting)
  <1>1. recs \in [Record -> RecordObj]
    BY DEF Inv, RecordTypes
  <1>2. UNCHANGED recs \/ RecordWrite
    BY RecordSteps DEF RecordStep, RecordDelivery, RecordRefill
  <1>3. CASE RecordWrite
    <2>1. PICK q \in Record, new \in RecordObj : PutRecord(q, new) /\ RecordIntent(q, new)
      BY <1>3 DEF RecordWrite
    <2>2. recs' = [recs EXCEPT ![q] = Stored(recs[q], new)]
      BY <2>1 DEF PutRecord
    <2>3. /\ Stored(recs[q], new).spec = new.spec
          /\ Stored(recs[q], new).deleting = new.deleting
      BY <1>1, StoredRecord
    <2>4. new.spec = recs[q].spec /\ (recs[q].deleting => new.deleting)
      BY <2>1 DEF RecordIntent
    <2> QED
      BY <1>1, <2>2, <2>3, <2>4
  <1> QED
    BY <1>2, <1>3

(* The same for zones.                                                     *)
LEMMA ZoneIntentKept ==
  ASSUME Inv, [Next]_vars, edits' = edits, NEW z \in Zone
  PROVE  zones'[z].spec = zones[z].spec /\ (zones[z].deleting => zones'[z].deleting)
  <1>1. zones \in [Zone -> ZoneObj] /\ edits \in Nat
    BY DEF Inv, ZoneTypes, WorkTypes
  <1>2. ~ZoneLabel
    BY <1>1 DEF ZoneLabel, LabelZone, User
  <1>3. UNCHANGED zones \/ ZoneWrite
    BY <1>2, ZoneSteps DEF ZoneStep, ZoneDelivery, ZoneRefill
  <1>4. CASE ZoneWrite
    <2>1. PICK q \in Zone, new \in ZoneObj : PutZone(q, new) /\ ZoneIntent(q, new)
      BY <1>4 DEF ZoneWrite
    <2>2. zones' = [zones EXCEPT ![q] = Stored(zones[q], new)]
      BY <2>1 DEF PutZone
    <2>3. /\ Stored(zones[q], new).spec = new.spec
          /\ Stored(zones[q], new).deleting = new.deleting
      BY <1>1, StoredZone
    <2>4. new.spec = zones[q].spec /\ (zones[q].deleting => new.deleting)
      BY <2>1 DEF ZoneIntent
    <2> QED
      BY <1>1, <2>2, <2>3, <2>4
  <1> QED
    BY <1>3, <1>4

(* addFinalizer, removeFinalizer and the status writes of all three        *)
(* reconcilers never revert a user's edit of a spec and never take back a  *)
(* deletion, whatever the caches show when they write.                     *)
THEOREM OperatorKeepsUserIntent == Spec => UserIntentKept
  <1> DEFINE Kept ==
        edits' = edits =>
          /\ \A r \in Record : /\ recs'[r].spec = recs[r].spec
                               /\ recs[r].deleting => recs'[r].deleting
          /\ \A z \in Zone : /\ zones'[z].spec = zones[z].spec
                             /\ zones[z].deleting => zones'[z].deleting
  <1>1. Inv /\ [Next]_vars => [Kept]_vars
    BY RecordIntentKept, ZoneIntentKept
  <1>2. UserIntentKept <=> [][Kept]_vars
    BY DEF UserIntentKept
  <1> HIDE DEF Kept
  <1> QED
    BY <1>1, <1>2, Invariance, PTL DEF Spec
=============================================================================
