--------------------------- MODULE ConnectorProofs ---------------------------
(***************************************************************************)
(* Theorems about the whole operator, for every value of its constants:    *)
(* what ZonePublishingProofs shows of two controllers holds with the third *)
(* one writing zones, and the connector keeps the Corefile safe.           *)
(*                                                                         *)
(* ConInv is the inductive invariant: the types, and ConSafe, six facts    *)
(* about what the worker's position and the caches say of the Corefile,    *)
(* its backup and the connector's finalizer.                               *)
(***************************************************************************)
EXTENDS DNSOperator, EventProofs, LayoutProofs

-----------------------------------------------------------------------------
(* The invariant of records, zones and config maps.                        *)

(* A step that leaves records, config maps and the zone controller alone,  *)
(* and may write a zone, keeps Inv.                                        *)
LEMMA FrameInv ==
  ASSUME Inv, ZoneStep, edits' \in Nat, faults' \in Nat,
         UNCHANGED <<recs, recFeed, recCache, cms, cmFeed, cmCache,
                     recQ, delayed, zoneQ, zw, clock, crashes>>
  PROVE  Inv'
  <1>1. RecordTypes' /\ RecordsAligned'
    BY RecordStepKeeps DEF Inv, RecordStep
  <1>2. ZoneTypes' /\ ZonesAligned'
    BY ZoneStepKeeps DEF Inv
  <1>3. CMTypes' /\ FilesValid'
    BY CMStepKeeps DEF Inv, CMStep
  <1>4. WorkTypes' /\ WorkerFileValid'
    BY DEF Inv, WorkTypes, WorkerFileValid
  <1> QED
    BY <1>1, <1>2, <1>3, <1>4 DEF Inv

(* The connector tells a zone: a write of its status.                      *)
LEMMA TellZoneStep ==
  ASSUME Inv, NEW z \in Zone, NEW cond \in ZoneCond, NEW next,
         ConTellZone(z, cond, next), UNCHANGED <<zoneCache, edits>>
  PROVE  ZoneStep /\ faults' = faults
  <1> DEFINE new == [zones[z] EXCEPT !.status.cond = cond, !.status.ogen = zoneCache[z].gen]
  <1>1. faults' = faults
    BY DEF ConTellZone, ConGoes, ConFail
  <1>2. UNCHANGED zoneVars \/ PutZone(z, new)
    BY DEF ConTellZone
  <1>3. CASE UNCHANGED zoneVars
    BY <1>1, <1>3 DEF zoneVars, ZoneStep
  <1>4. CASE PutZone(z, new)
    <2>1. zones[z] \in ZoneObj /\ zoneCache[z] \in ZoneObj
      BY DEF Inv, ZoneTypes
    <2>2. new \in ZoneObj /\ new.spec = zones[z].spec /\ new.deleting = zones[z].deleting
      <3>1. [zones[z].status EXCEPT !.cond = cond, !.ogen = zoneCache[z].gen] \in ZoneStatus
        BY <2>1 DEF ZoneObj, ZoneStatus
      <3>2. new = [zones[z] EXCEPT !.status = [zones[z].status EXCEPT
                                                 !.cond = cond, !.ogen = zoneCache[z].gen]]
        BY <2>1 DEF ZoneObj, ZoneStatus
      <3> QED
        BY <2>1, <3>1, <3>2 DEF ZoneObj
    <2> HIDE DEF new
    <2> QED
      BY <1>1, <1>4, <2>2 DEF ZoneStep, ZoneWrite, ZoneIntent
  <1> QED
    BY <1>2, <1>3, <1>4

(* The connector writes nothing but zone statuses that Inv speaks of.      *)
LEMMA ConCtlInv ==
  ASSUME Inv, ConCtl
  PROVE  Inv'
  <1>1. /\ UNCHANGED <<recs, recFeed, recCache, cms, cmFeed, cmCache, zoneCache, edits>>
        /\ UNCHANGED <<recQ, delayed, zoneQ, zw, clock, crashes>>
    BY DEF ConCtl, ConRestOfOperator, ConBegin, ConNotFound, ConAddFinalizer, ConBackup,
           ConRestore, ConWork, ConAttach, ConWriteCorefile, ConUpdating, ConHealthy, ConTimeout,
           ConActive, ConReport, ConRelease, ConNotify, ConUnnotify, ConFault,
           ConRest, recordVars, cmVars, cacheVars
  <1>2. edits \in Nat /\ faults \in Nat
    BY DEF Inv, WorkTypes
  <1>3. ZoneStep /\ faults' \in Nat
    <2>1. CASE \E z \in Zone : ConNotify(z) \/ ConUnnotify(z)
      BY <1>1, <1>2, <2>1, TellZoneStep DEF ConNotify, ConUnnotify, ZoneCond
    <2>2. CASE ConBegin
      BY <1>1, <1>2, <2>2 DEF ConBegin, ConNotFound, ConAddFinalizer, ConBackup, ConRestore,
         zoneVars, ZoneStep
    <2>3. CASE ConFault
      BY <1>1, <1>2, <2>3 DEF ConFault, zoneVars, ZoneStep
    <2>4. CASE ConAttach \/ ConWriteCorefile
      BY <1>1, <1>2, <2>4 DEF ConAttach, ConWriteCorefile, ConGoes, ConFail, Applied,
         zoneVars, ZoneStep
    <2>5. CASE ConUpdating \/ ConReport \/ ConActive
      BY <1>1, <1>2, <2>5 DEF ConUpdating, ConReport, ConActive, WriteConStatus, ConGoes, ConFail,
         zoneVars, ZoneStep
    <2>6. CASE ConHealthy \/ ConTimeout \/ ConRelease
      BY <1>1, <1>2, <2>6 DEF ConHealthy, ConTimeout, ConRelease, ConGoes, ConFail,
         zoneVars, ZoneStep
    <2> QED
      BY <2>1, <2>2, <2>3, <2>4, <2>5, <2>6 DEF ConCtl, ConWork
  <1> QED
    BY <1>1, <1>2, <1>3, FrameInv

(* Every step of the whole operator keeps Inv.                             *)
LEMMA OpNextInv ==
  ASSUME Inv, [OpNext]_opVars
  PROVE  Inv'
  <1>1. CASE [Next]_vars
    BY <1>1, NextInv
  <1>2. CASE ConCtl
    BY <1>2, ConCtlInv
  <1>3. CASE CreateConnector \/ EditConnector \/ DeleteConnector \/ EditCorefile
    <2>1. UNCHANGED <<recs, recFeed, recCache, cms, cmFeed, cmCache, zones, zoneFeed, zoneCache,
                      recQ, delayed, zoneQ, zw, clock, faults, crashes>>
      BY <1>3 DEF CreateConnector, EditConnector, DeleteConnector, EditCorefile, ConUser, User,
         apiVars, feedVars, cacheVars, zoneCtlVars
    <2>2. edits \in Nat /\ faults \in Nat
      BY DEF Inv, WorkTypes
    <2>3. edits' = edits + 1
      BY <1>3 DEF CreateConnector, EditConnector, DeleteConnector, EditCorefile, ConUser, User
    <2>4. edits' \in Nat
      BY <2>2, <2>3
    <2> QED
      BY <2>1, <2>2, <2>3, <2>4, FrameInv DEF ZoneStep
  <1>4. CASE UNCHANGED pubVars
    BY <1>4, NextInv DEF pubVars, vars
  <1> QED
    BY <1>1, <1>2, <1>3, <1>4 DEF OpNext, OpStep, opVars, Publishing, DeliverZoneToAll, RestartAll,
       DeliverCon, DeliverCore, DeliverDep, ConDelayExpires, CoreDNS, RolloutBegins, RolloutEnds,
       Reload, CoreDNSRest, Next, Deliver

(* The invariant of the two controllers is one of the whole operator.      *)
THEOREM OpInvariance == OpSpec => []Inv
  <1>1. OpInit => Inv
    BY InitInv DEF OpInit
  <1>2. Inv /\ [OpNext]_opVars => Inv'
    BY OpNextInv
  <1> QED
    BY <1>1, <1>2, PTL DEF OpSpec

(* Every variable of the two controllers keeps its type, and every zone    *)
(* file in a config map parses, also while a connector writes the zones.   *)
THEOREM OpPublishesValidFiles == OpSpec => [](TypeOK /\ PublishedFilesParse)
  <1>1. Inv => TypeOK /\ PublishedFilesParse
    BY TypesAgree DEF Inv, FilesValid, PublishedFilesParse, ValidFile
  <1> QED
    BY <1>1, OpInvariance, PTL

-----------------------------------------------------------------------------
(* Checkpoints, which the connector reads and writes back.                 *)

(* A step that may change the condition of a zone that passed, and no      *)
(* config map.                                                             *)
Told(z, st) ==
  /\ zones[z].exists /\ zones[z].status.passed /\ st.passed /\ st.cond \in {"Active", "Pending"}
  /\ SameZone(zones'[z], [zones[z] EXCEPT !.status = st])

TellStep ==
  /\ ZoneStep /\ UNCHANGED <<cms, cmFeed, cmCache, zw>>
  /\ \A z \in Zone : \E st \in ZoneStatus :
       /\ st.checkpoint = zones[z].status.checkpoint /\ st.prefix = zones[z].status.prefix
       /\ zones'[z] = zones[z] \/ Told(z, st)

LEMMA UntoldStep ==
  ASSUME Inv, ZoneStep, UNCHANGED <<zones, cms, cmFeed, cmCache, zw>>
  PROVE  TellStep
  BY DEF Inv, ZoneTypes, ZoneObj, TellStep

LEMMA ConCtlTells ==
  ASSUME Inv, ConCtl
  PROVE  TellStep
  <1>1. UNCHANGED <<cms, cmFeed, cmCache, zw, zoneCache, edits>>
    BY DEF ConCtl, ConRestOfOperator, ConBegin, ConNotFound, ConAddFinalizer, ConBackup,
           ConRestore, ConWork, ConAttach, ConWriteCorefile, ConUpdating, ConHealthy, ConTimeout,
           ConActive, ConReport, ConRelease, ConNotify, ConUnnotify, ConFault,
           ConRest, cmVars, cacheVars
  <1>2. CASE UNCHANGED <<zones, zoneFeed>>
    BY <1>1, <1>2, UntoldStep DEF ZoneStep
  <1>3. ASSUME NEW z \in Zone, ConNotify(z) \/ ConUnnotify(z)
        PROVE  TellStep
    <2>0. Accepts(zoneCache[z], zones[z]) => zoneCache[z] = zones[z]
      BY AcceptedZone DEF Inv
    <2>1. PICK cond \in {"Active", "Pending"} :
            \/ UNCHANGED zoneVars
            \/ /\ zones[z].exists /\ zones[z].status.passed
               /\ PutZone(z, [zones[z] EXCEPT !.status.cond = cond,
                                              !.status.ogen = zoneCache[z].gen])
      BY <1>3, <2>0 DEF ConNotify, ConUnnotify, ConTellZone, Accepts
    <2> DEFINE st == [zones[z].status EXCEPT !.cond = cond, !.ogen = zoneCache[z].gen]
               new == [zones[z] EXCEPT !.status.cond = cond, !.status.ogen = zoneCache[z].gen]
    <2>2. zones[z] \in ZoneObj /\ zones[z].status \in ZoneStatus /\ zoneCache[z].gen \in Nat
      BY DEF Inv, ZoneTypes, ZoneObj
    <2>3. /\ st \in ZoneStatus /\ st.checkpoint = zones[z].status.checkpoint
          /\ st.prefix = zones[z].status.prefix /\ st.passed = zones[z].status.passed
          /\ st.cond \in {"Active", "Pending"}
      BY <2>2 DEF ZoneStatus, ZoneCond
    <2>4. new = [zones[z] EXCEPT !.status = st] /\ new \in ZoneObj
      BY <2>2, <2>3 DEF ZoneObj, ZoneStatus
    <2>5. \/ UNCHANGED zoneVars
          \/ zones[z].exists /\ zones[z].status.passed /\ PutZone(z, new)
      BY <2>1
    <2>6. ZoneStep
      BY <1>1, <1>3, TellZoneStep DEF ConNotify, ConUnnotify, ZoneCond
    <2> HIDE DEF st, new
    <2>7. CASE zones[z].exists /\ zones[z].status.passed /\ PutZone(z, new)
      <3>1. \A q \in Zone : zones'[q] = zones[q] \/ (q = z /\ SameZone(zones'[q], new))
        BY <2>4, <2>7, ZonePut
      <3>2. \A q \in Zone : zones[q].status \in ZoneStatus
        BY DEF Inv, ZoneTypes, ZoneObj
      <3>3. ASSUME NEW q \in Zone
            PROVE  \E t \in ZoneStatus :
              /\ t.checkpoint = zones[q].status.checkpoint /\ t.prefix = zones[q].status.prefix
              /\ zones'[q] = zones[q] \/ Told(q, t)
        <4>1. CASE zones'[q] = zones[q]
          BY <3>2, <4>1
        <4>2. CASE q = z /\ SameZone(zones'[q], new)
          <5>1. SameZone(zones'[q], [zones[q] EXCEPT !.status = st])
            BY <2>4, <4>2
          <5> QED
            BY <2>3, <2>7, <4>2, <5>1 DEF Told
        <4> QED
          BY <3>1, <4>1, <4>2
      <3> QED
        BY <1>1, <2>6, <3>3 DEF TellStep
    <2> QED
      BY <1>2, <2>5, <2>7 DEF zoneVars
  <1>4. CASE ConBegin
    BY <1>2, <1>4 DEF ConBegin, ConNotFound, ConAddFinalizer, ConBackup, ConRestore, zoneVars
  <1>5. CASE ConFault \/ ConAttach \/ ConWriteCorefile \/ ConUpdating \/ ConReport \/ ConActive
             \/ ConHealthy \/ ConTimeout \/ ConRelease
    BY <1>2, <1>5 DEF ConFault, ConAttach, ConWriteCorefile, ConUpdating, ConReport, ConActive,
       ConHealthy, ConTimeout, ConRelease, zoneVars
  <1> QED
    BY <1>3, <1>4, <1>5 DEF ConCtl, ConWork

(* A step of the whole operator is one of the two controllers, or at most  *)
(* tells a zone.                                                           *)
LEMMA OpKinds ==
  ASSUME Inv, [OpNext]_opVars
  PROVE  \/ [Next]_vars
         \/ /\ TellStep
            /\ UNCHANGED <<recs, recFeed, recCache, recQ>> /\ UNCHANGED <<delayed, zoneQ, zoneCache>>
  <1>1. CASE ConCtl
    <2>1. UNCHANGED <<recs, recFeed, recCache, recQ>> /\ UNCHANGED <<delayed, zoneQ, zoneCache>>
      BY <1>1 DEF ConCtl, ConRestOfOperator, ConBegin, ConNotFound, ConAddFinalizer, ConBackup,
         ConRestore, ConWork, ConAttach, ConWriteCorefile, ConUpdating, ConHealthy, ConTimeout,
         ConActive, ConReport, ConRelease, ConNotify, ConUnnotify, ConFault,
         ConRest, recordVars, cacheVars
    <2> QED
      BY <1>1, <2>1, ConCtlTells
  <1>2. CASE /\ UNCHANGED <<recs, recFeed, recCache, recQ>>
             /\ UNCHANGED <<delayed, zoneQ, zoneCache>>
             /\ UNCHANGED <<zones, zoneFeed, cms, cmFeed, cmCache, zw>>
    BY <1>2, UntoldStep DEF ZoneStep
  <1> QED
    BY <1>1, <1>2 DEF OpNext, OpStep, opVars, Publishing, DeliverZoneToAll, RestartAll,
       DeliverCon, DeliverCore, DeliverDep, ConDelayExpires, CoreDNS, RolloutBegins, RolloutEnds,
       Reload, CoreDNSRest, Next, Deliver, CreateConnector, EditConnector, DeleteConnector,
       EditCorefile, ConUser, User, pubVars, vars, clusterVars, apiVars, feedVars, cacheVars,
       zoneCtlVars

LEMMA TellCheckpoint ==
  ASSUME CheckpointInv, TellStep, Inv'
  PROVE  CheckpointInv'
  <1> USE DEF CheckpointInv
  <1>1. ZonesLag' /\ CMsHeld'
    BY ZonesLagStep DEF TellStep, CMsHeld
  <1>2. ASSUME NEW z \in Zone
        PROVE  /\ zones'[z].uid = zones[z].uid /\ (Living(z)' => Living(z))
               /\ zones'[z].status.checkpoint = zones[z].status.checkpoint
               /\ zones'[z].status.prefix = zones[z].status.prefix
    <2>1. PICK st \in ZoneStatus :
            /\ st.checkpoint = zones[z].status.checkpoint /\ st.prefix = zones[z].status.prefix
            /\ zones'[z] = zones[z] \/ Told(z, st)
      BY DEF TellStep
    <2>2. zones[z] \in ZoneObj
      BY DEF Inv, ZoneTypes
    <2> DEFINE new == [zones[z] EXCEPT !.status = st]
    <2>3. /\ new.uid = zones[z].uid /\ new.deleting = zones[z].deleting /\ new.status = st
      BY <2>2 DEF ZoneObj
    <2> HIDE DEF new
    <2> QED
      BY <2>1, <2>3 DEF Told, SameZone, Living, new
  <1>3. ASSUME NEW z \in Zone, NEW v \in Versions(z)'
        PROVE  v \in Versions(z) \/ v = zones'[z]
    BY ZonesLagStep DEF TellStep
  <1>4. zw.key \in Zone /\ \A z \in Zone : zones[z] \in Versions(z)
    BY WorkerFields DEF Versions
  <1>5. UNCHANGED <<cms, zw>>
    BY DEF TellStep
  <1>6. OneIncarnation'
    BY <1>2, <1>3, <1>4, <1>5 DEF OneIncarnation
  <1>7. LivingCMsOwned'
    <2>1. \A n \in CMName : n[2] \in Zone
      BY DEF CMName
    <2> QED
      BY <1>2, <1>5, <2>1 DEF LivingCMsOwned, Living
  <1>8. CheckpointsHaveFile'
    BY <1>2, <1>3, <1>4, <1>5 DEF CheckpointsHaveFile, HasFile
  <1>9. WorkerHasFile'
    BY <1>2, <1>4, <1>5 DEF WorkerHasFile, HasFile, Living, At
  <1> QED
    BY <1>1, <1>6, <1>7, <1>8, <1>9

(* The connector's reports are written over a zone's whole status: they    *)
(* leave "checkpoint" and the prefix as they are stored, so that the file  *)
(* a checkpoint stands for is there also beside the connector.             *)
THEOREM OpCheckpointKept ==
  ASSUME "deleteCM" \notin UserOp, "createZone" \notin UserOp
  PROVE  OpSpec => []CheckpointHasFile
  <1>1. CheckpointInv /\ [OpNext]_opVars => CheckpointInv'
    <2> SUFFICES ASSUME CheckpointInv, [OpNext]_opVars PROVE CheckpointInv'
      OBVIOUS
    <2>1. Inv /\ Inv'
      BY OpNextInv DEF CheckpointInv
    <2> QED
      BY <2>1, OpKinds, NextCheckpoint, TellCheckpoint
  <1>2. OpInit => CheckpointInv
    BY InitCheckpoint DEF OpInit
  <1> QED
    BY <1>1, <1>2, CheckpointFiles, PTL DEF OpSpec

LEMMA TellGapless ==
  ASSUME Inv, Inv', AllGapless, TellStep, UNCHANGED <<recs, recFeed, recCache>>
  PROVE  AllGapless'
  <1>1. ASSUME NEW z \in Zone PROVE Gapless(zones'[z], zoneFeed'[z], zoneCache'[z])
    <2>1. /\ zones[z] \in ZoneObj /\ zones'[z] \in ZoneObj
          /\ zoneFeed[z] \in SUBSET ZoneObj /\ zoneFeed'[z] \in SUBSET ZoneObj
          /\ zoneCache[z] \in ZoneObj /\ zoneCache'[z] \in ZoneObj
          /\ \A v \in ZoneObj : v.rv \in Nat
      BY DEF Inv, ZoneTypes, ZoneObj
    <2>2. Moves(zones[z], zones'[z], zoneFeed[z], zoneFeed'[z], zoneCache[z], zoneCache'[z])
      BY ZoneMoves DEF Inv, TellStep
    <2> QED
      BY <2>1, <2>2, MovesKeepGapless DEF AllGapless
  <1> QED
    BY <1>1 DEF AllGapless, TellStep

(* The same steps lose no event either: a report changes no generation and *)
(* no spec, and leaves queues, timers and the records alone.               *)
LEMMA TellEvents ==
  ASSUME EventInv, TellStep, CheckpointInv', UNCHANGED <<recs, recFeed, recCache, recQ>>,
         UNCHANGED <<delayed, zoneQ, zoneCache>>
  PROVE  EventInv'
  <1>0. Inv /\ Inv' /\ ZonesLag /\ UNCHANGED <<cms, cmFeed, cmCache, zw>> /\ ZoneStep
    BY DEF EventInv, CheckpointInv, TellStep
  <1>1. ASSUME NEW z \in Zone
        PROVE  /\ zones'[z].gen = zones[z].gen /\ zones'[z].spec = zones[z].spec
               /\ WillLive(z) => Living(z)
    <2>1. PICK st \in ZoneStatus :
            zones'[z] = zones[z] \/ Told(z, st)
      BY DEF TellStep
    <2>2. zones[z] \in ZoneObj
      BY <1>0 DEF Inv, ZoneTypes
    <2> DEFINE new == [zones[z] EXCEPT !.status = st]
    <2>3. /\ new.gen = zones[z].gen /\ new.spec = zones[z].spec
          /\ new.deleting = zones[z].deleting
      BY <2>2 DEF ZoneObj
    <2> HIDE DEF new
    <2> QED
      BY <2>1, <2>3 DEF Told, SameZone, Living, WillLive, new
  <1>2. AllGapless'
    BY <1>0, TellGapless DEF EventInv
  <1>3. RecordHistory' /\ RecordsAttended' /\ VerdictAwaited'
    BY DEF EventInv, RecordHistory, RecordVersions, RecordsAttended, VerdictAwaited, Waits
  <1>4. ZoneHistory'
    <2> SUFFICES ASSUME NEW z \in Zone
                 PROVE  LET now == zoneFeed'[z] \cup {zoneCache'[z], zones'[z]}
                        IN  /\ WillLive(z) => \A v \in now : v.exists /\ ~v.deleting
                            /\ \A v \in now : v.gen <= zones'[z].gen
                            /\ \A u, v \in now : u.gen = v.gen => u.spec = v.spec
      BY DEF ZoneHistory, Versions, Living, WillLive
    <2> DEFINE old == Versions(z)
               now == zoneFeed'[z] \cup {zoneCache'[z], zones'[z]}
    <2>1. now \subseteq old \cup {zones'[z]} /\ zones[z] \in old
      BY <1>0, ZonesLagStep DEF Versions
    <2>2. /\ Living(z) => \A v \in old : v.exists /\ ~v.deleting
          /\ \A v \in old : v.gen <= zones[z].gen
          /\ \A u, v \in old : u.gen = v.gen => u.spec = v.spec
      BY DEF EventInv, ZoneHistory
    <2>3. zones[z].gen \in Nat
      BY <1>0 DEF Inv, ZoneTypes, ZoneObj
    <2> HIDE DEF old, now
    <2> QED
      BY <1>1, <2>1, <2>2, <2>3 DEF now, WillLive
  <1>5. ZonesAttended'
    BY <1>0, <1>1 DEF EventInv, ZonesAttended, Wanted, Living, WillLive, ZoneServed, Writes,
                      FileCurrent, Waits
  <1> QED
    BY <1>2, <1>3, <1>4, <1>5 DEF EventInv

(* Beside the connector, too, what is published in the end is what users   *)
(* asked for.                                                              *)
THEOREM OpNoEventLost ==
  ASSUME "cm" \in Timely, "delay" \in Timely, "deleteCM" \notin UserOp, "createZone" \notin UserOp
  PROVE  OpSpec => []QuiescentFilesRight
  <1>1. EventInv /\ [OpNext]_opVars => EventInv'
    <2> SUFFICES ASSUME EventInv, [OpNext]_opVars PROVE EventInv'
      OBVIOUS
    <2>1. CheckpointInv /\ Inv /\ Inv'
      BY OpNextInv DEF EventInv, CheckpointInv
    <2>2. TellStep => CheckpointInv'
      BY <2>1, TellCheckpoint
    <2> QED
      BY <2>1, <2>2, OpKinds, NextEvents, TellEvents
  <1>2. OpInit => EventInv
    BY InitEvents DEF OpInit
  <1> QED
    BY <1>1, <1>2, QuietIsRight, PTL DEF OpSpec

(* Telling a zone touches nothing that users decide.                       *)
LEMMA TellKeepsIntent ==
  ASSUME Inv, TellStep, NEW z \in Zone
  PROVE  /\ zones'[z].spec = zones[z].spec /\ zones'[z].gen = zones[z].gen
         /\ zones'[z].deleting = zones[z].deleting
  <1>1. PICK st \in ZoneStatus : zones'[z] = zones[z] \/ Told(z, st)
    BY DEF TellStep
  <1> DEFINE new == [zones[z] EXCEPT !.status = st]
  <1>2. new.spec = zones[z].spec /\ new.gen = zones[z].gen /\ new.deleting = zones[z].deleting
    BY DEF Inv, ZoneTypes, ZoneObj
  <1> HIDE DEF new
  <1> QED
    BY <1>1, <1>2 DEF Told, SameZone, new

LEMMA TellKeepsMarks ==
  ASSUME Inv, AllGapless, MarksStay, TellStep
  PROVE  MarksStay'
  BY TellKeepsIntent, MarksStayOver DEF TellStep, MarkKept

(* Nor is a record told less.                                              *)
LEMMA TellJoins ==
  ASSUME JoinInv, Inv', TellStep, UNCHANGED <<recs, recFeed, recCache, recQ>>,
         UNCHANGED <<delayed, zoneQ, zoneCache>>
  PROVE  JoinInv'
  <1>1. Inv /\ ZoneStep /\ UNCHANGED zw /\ AllGapless'
    BY TellGapless DEF JoinInv, TellStep
  <1>2. MarksStay'
    BY TellKeepsMarks DEF JoinInv
  <1>3. RecordHistory' /\ RecordsAttended' /\ VerdictAwaited'
    BY DEF JoinInv, RecordHistory, RecordVersions, RecordsAttended, VerdictAwaited, Waits
  <1>4. BadRecordsQueued' /\ QueuedRecordsAwaited'
    BY DEF JoinInv, BadRecordsQueued, EventAhead, QueuedRecordsAwaited, Waits
  <1>5. JoinsAwaited' /\ UnjoinsAwaited'
    BY <1>1 DEF JoinInv, JoinsAwaited, UnjoinsAwaited, Joinable, EventAhead, ZoneCalled, Waits,
                Tells, At
  <1> QED
    BY <1>1, <1>2, <1>3, <1>4, <1>5 DEF JoinInv

(* Beside the connector, too, every record is told in the end how it is.   *)
THEOREM OpNoJoinLost ==
  ASSUME "delay" \in Timely
  PROVE  OpSpec => []QuiescentRecordsRight
  <1>1. JoinInv /\ [OpNext]_opVars => JoinInv'
    <2> SUFFICES ASSUME JoinInv, [OpNext]_opVars PROVE JoinInv'
      OBVIOUS
    <2>1. Inv /\ Inv'
      BY OpNextInv DEF JoinInv
    <2> QED
      BY <2>1, OpKinds, NextJoins, TellJoins
  <1>2. OpInit => JoinInv
    BY InitJoins DEF OpInit
  <1> QED
    BY <1>1, <1>2, QuietIsTold, PTL DEF OpSpec

(* The connector writes the status of zones from copies it read some time  *)
(* ago: beside it, too, no edit of a record or a zone by a user is ever    *)
(* reverted and no deletion taken back.                                    *)
THEOREM OpKeepsUserIntent == OpSpec => UserIntentKept
  <1> DEFINE IntentKept ==
        edits' = edits =>
          /\ \A r \in Record : /\ recs'[r].spec = recs[r].spec
                               /\ recs[r].deleting => recs'[r].deleting
          /\ \A z \in Zone : /\ zones'[z].spec = zones[z].spec
                             /\ zones[z].deleting => zones'[z].deleting
  <1>1. Inv /\ [OpNext]_opVars => [IntentKept]_vars
    <2> SUFFICES ASSUME Inv, [OpNext]_opVars, edits' = edits PROVE IntentKept
      OBVIOUS
    <2>1. CASE [Next]_vars
      BY <2>1, RecordIntentKept, ZoneIntentKept
    <2>2. CASE TellStep /\ UNCHANGED recs
      BY <2>2, TellKeepsIntent
    <2> QED
      BY <2>1, <2>2, OpKinds
  <1>2. UserIntentKept <=> [][IntentKept]_vars
    BY DEF UserIntentKept
  <1> HIDE DEF IntentKept
  <1> QED
    BY <1>1, <1>2, OpInvariance, PTL DEF OpSpec

(* Nor is a mark of deletion overlooked because a zone is told.            *)
LEMMA TellHeld ==
  ASSUME HeldInv, Inv', TellStep, UNCHANGED <<recs, recFeed, recCache, recQ>>,
         UNCHANGED <<delayed, zoneQ, zoneCache>>
  PROVE  HeldInv'
  <1> USE DEF HeldInv
  <1>1. ZoneStep /\ UNCHANGED zw /\ AllGapless' /\ MarksStay' /\ ZonesLag
    BY TellGapless, TellKeepsMarks DEF TellStep, AllGapless, Gapless, ZonesLag
  <1>2. RecordHistory' /\ MarkedRecordsQueued'
    BY DEF RecordHistory, RecordVersions, MarkedRecordsQueued, EventAhead
  <1>3. MarkedHeld'
    BY <1>1, MarkedHeldStep
  <1>4. MarkedZonesQueued'
    BY <1>1, ZoneUnmoved DEF MarkedZonesQueued, ZoneEventAhead
  <1> QED
    BY <1>1, <1>2, <1>3, <1>4

(* The connector, which writes the zones while they are being deleted,     *)
(* makes no deletion hang: at rest no record and no zone is left marked.   *)
THEOREM OpNoMarkOverlooked == OpSpec => []RestingNothingHeld
  <1>1. HeldInv /\ [OpNext]_opVars => HeldInv'
    <2> SUFFICES ASSUME HeldInv, [OpNext]_opVars PROVE HeldInv'
      OBVIOUS
    <2>1. Inv /\ Inv'
      BY OpNextInv DEF HeldInv
    <2> QED
      BY <2>1, OpKinds, NextHeld, TellHeld
  <1>2. OpInit => HeldInv
    BY InitHeld DEF OpInit
  <1> QED
    BY <1>1, <1>2, QuietHoldsNothing, PTL DEF OpSpec

-----------------------------------------------------------------------------
(* The values the connector builds have their types.                       *)

(* What happens to a watched object keeps its kind.                        *)
LEMMA WatchedSteps ==
  ASSUME NEW Kind, NEW o \in Watched(Kind), NEW new \in Kind
  PROVE  /\ Put(o, new) \in Watched(Kind) /\ Synced(new) \in Watched(Kind)
         /\ Read(o) \in Watched(Kind) /\ CaughtUp(o) \in Watched(Kind)
  BY DEF Watched, Put, Synced, Read, CaughtUp

LEMMA SyncedType ==
  ASSUME NEW Kind, NEW new \in Kind
  PROVE  Synced(new) \in Watched(Kind)
  BY DEF Watched, Synced

(* Values that a CHOOSE stands for.                                        *)
LEMMA ChosenValues ==
  /\ (CHOOSE t \in CoreText : TRUE) \in CoreText
  /\ AnyConSpec \in ConSpec
  BY CoreDNSAssumption DEF AnyConSpec, ConSpec

LEMMA NewConType ==
  ASSUME NEW s \in ConSpec
  PROVE  NewCon(s) \in ConObj
  BY DEF NewCon, ConObj, ConStatus, ConCond

LEMMA ConIdleType == ConIdle \in ConWorker
  <1>1. NewCon(AnyConSpec) \in ConObj /\ NewCon(AnyConSpec).status \in ConStatus
    BY ChosenValues, NewConType DEF ConObj
  <1> QED
    BY <1>1, ChosenValues DEF ConIdle, ConWorker, ConPC

(* A report of the worker has its type.                                    *)
LEMMA ReportType ==
  ASSUME cw \in ConWorker, NEW c \in ConCond
  PROVE  WithCond(c) \in ConStatus /\ Reporting(c) \in ConWorker
  <1>1. cw.copy \in ConObj /\ cw.status \in ConStatus
    BY DEF ConWorker
  <1>2. WithCond(c) \in ConStatus
    BY <1>1 DEF WithCond, ConStatus, ConObj
  <1> QED
    BY <1>2 DEF Reporting, ConWorker, ConPC

(* A write of the connector stores a connector.                            *)
LEMMA PutConType ==
  ASSUME con \in Watched(ConObj), NEW new \in ConObj, PutCon(new)
  PROVE  con' \in Watched(ConObj)
  <1> DEFINE obj == [new EXCEPT !.exists = ~(new.deleting /\ ~new.fin)]
  <1>1. obj \in ConObj
    BY DEF ConObj
  <1> QED
    BY <1>1, WatchedSteps DEF PutCon

LEMMA StatusType ==
  ASSUME con \in Watched(ConObj), NEW s \in ConStatus, StoreConStatus(s)
  PROVE  con' \in Watched(ConObj)
  <1>1. [con.now EXCEPT !.status = s] \in ConObj
    BY DEF Watched, ConObj
  <1> QED
    BY <1>1 DEF StoreConStatus, Watched

(* The worker's next state and the queue after an operation.               *)
ConWorkTypes == cw \in ConWorker /\ conQ \in BOOLEAN

LEMMA FailTypes == ConFail => ConWorkTypes'
  BY ConIdleType DEF ConFail, ConWorkTypes

(* A reconciliation begins with a copy of what the cache shows, and leads  *)
(* on with the Corefile backed up, or to a report.                         *)
LEMMA BackupEffect ==
  ASSUME ConTypeOK, ConBackup
  PROVE  /\ con.cache.exists /\ con.cache.fin /\ ~con.cache.deleting /\ con' = Read(con)
         /\ cw' \in ConWorker /\ cw'.copy = con.cache /\ bkp' \in Backup
         /\ \/ /\ core' = Read(core) /\ cw'.pc = "attach" /\ cw'.text = core.cache.text
               /\ \/ bkp.exists /\ bkp' = bkp
                  \/ ~bkp.exists /\ bkp'.exists /\ ~bkp'.seen /\ bkp'.file = core.cache
            \/ cw'.pc = "report" /\ UNCHANGED <<core, bkp>>
  <1> DEFINE start == [ConIdle EXCEPT !.copy = con.cache, !.status = con.cache.status]
             report(c) == [start EXCEPT !.pc = "report", !.status.cond = c,
                                        !.status.ogen = con.cache.gen]
             attach == [start EXCEPT !.pc = "attach", !.text = core.cache.text]
             saved == [exists |-> TRUE, seen |-> FALSE, file |-> core.cache]
  <1>1. /\ con.cache \in ConObj /\ con.cache.status \in ConStatus /\ con.cache.gen \in Nat
        /\ core.cache \in Corefile /\ core.cache.text \in CoreText /\ bkp \in Backup
    BY DEF ConTypeOK, Watched, ConObj, Corefile
  <1>2. start \in ConWorker /\ start.copy = con.cache
    BY <1>1, ConIdleType DEF ConWorker
  <1>3. /\ attach \in ConWorker /\ attach.copy = con.cache /\ attach.pc = "attach"
        /\ attach.text = core.cache.text
    <2> HIDE DEF start
    <2> QED
      BY <1>1, <1>2 DEF ConWorker, ConPC
  <1>4. ASSUME NEW c \in ConCond
        PROVE  report(c) \in ConWorker /\ report(c).copy = con.cache /\ report(c).pc = "report"
    <2> HIDE DEF start
    <2>1. [start.status EXCEPT !.cond = c, !.ogen = con.cache.gen] \in ConStatus
      BY <1>1, <1>2 DEF ConWorker, ConStatus
    <2>2. report(c) = [start EXCEPT !.pc = "report",
                         !.status = [start.status EXCEPT !.cond = c, !.ogen = con.cache.gen]]
      BY <1>2 DEF ConWorker, ConStatus
    <2> QED
      BY <1>2, <2>1, <2>2 DEF ConWorker, ConPC
  <1>5. saved \in Backup /\ saved.exists /\ ~saved.seen /\ saved.file = core.cache
    BY <1>1 DEF Backup
  <1>6. con.cache.exists /\ con.cache.fin /\ ~con.cache.deleting /\ con' = Read(con)
    BY DEF ConBackup
  <1>7. \/ core' = Read(core) /\ bkp' = (IF bkp.exists THEN bkp ELSE saved) /\ cw' = attach
        \/ UNCHANGED <<core, bkp>> /\ cw' \in {report("NoBackup"), report("NoCorefile")}
    BY Zenon DEF ConBackup
  <1> HIDE DEF start, report, attach, saved
  <1>8. CASE core' = Read(core) /\ bkp' = (IF bkp.exists THEN bkp ELSE saved) /\ cw' = attach
    BY <1>1, <1>3, <1>5, <1>6, <1>8
  <1>9. CASE UNCHANGED <<core, bkp>> /\ cw' \in {report("NoBackup"), report("NoCorefile")}
    <2>1. cw' \in ConWorker /\ cw'.copy = con.cache /\ cw'.pc = "report"
      BY <1>4, <1>9 DEF ConCond
    <2> QED
      BY <1>1, <1>6, <1>9, <2>1
  <1> QED
    BY <1>7, <1>8, <1>9

(* What the backup's cache does leaves the backup alone.                   *)
LEMMA SameBackup ==
  ASSUME ConTypeOK, DeliverCore \/ RestartAll
  PROVE  /\ bkp' \in Backup /\ bkp'.exists = bkp.exists /\ bkp'.file = bkp.file
         /\ bkp'.seen => bkp.seen \/ bkp.exists
         /\ core' \in {core, CaughtUp(core), Synced(core.now)}
  <1>1. bkp \in Backup
    BY DEF ConTypeOK
  <1> QED
    BY <1>1 DEF DeliverCore, RestartAll, Backup

-----------------------------------------------------------------------------
(* Every step keeps the types.                                             *)

(* What the worker does when it takes the key.                             *)
LEMMA ConBeginTypes ==
  ASSUME ConTypeOK, ConBegin
  PROVE  ConTypeOK'
  <1> USE DEF ConTypeOK
  <1>1. con.now \in ConObj /\ con.cache \in ConObj /\ core.cache \in Corefile /\ bkp.file \in Corefile
    BY DEF Watched, Backup
  <1>2. con.cache.status \in ConStatus /\ con.cache.gen \in Nat
    BY <1>1 DEF ConObj
  <1>3. CASE ConNotFound
    BY <1>3 DEF ConNotFound, ConRest
  <1>4. CASE ConAddFinalizer
    <2>1. [con.now EXCEPT !.fin = TRUE] \in ConObj
      BY <1>1 DEF ConObj
    <2>2. con' \in Watched(ConObj)
      BY <1>4, <2>1, PutConType DEF ConAddFinalizer
    <2> QED
      BY <1>4, <2>2 DEF ConAddFinalizer, ConRest
  <1>5. CASE ConBackup
    <2>1. con' \in Watched(ConObj) /\ core' \in Watched(Corefile)
      <3>1. core.now \in Corefile
        BY DEF Watched
      <3> QED
        BY <1>1, <1>5, <3>1, BackupEffect, WatchedSteps
    <2> QED
      BY <1>5, <2>1, BackupEffect DEF ConBackup, ConRest
  <1>6. CASE ConRestore
    <2>1. [ConIdle EXCEPT !.pc = "release", !.copy = con.cache] \in ConWorker
      BY <1>1, ConIdleType DEF ConWorker, ConPC
    <2>2. core' \in Watched(Corefile)
      BY <1>1, <1>6, WatchedSteps DEF ConRestore
    <2> QED
      BY <1>6, <2>1, <2>2 DEF ConRestore, ConRest
  <1> QED
    BY <1>3, <1>4, <1>5, <1>6 DEF ConBegin

(* The workload and the worker's lists after the attach.                   *)
LEMMA ConAttachTypes ==
  ASSUME Inv, ConTypeOK, ConAttach
  PROVE  dep' \in Watched(Workload) /\ ConWorkTypes'
  <1> DEFINE file(z) == cmCache[ZoneCM(z)].file
             files == {[cm |-> ZoneCM(z), key |-> DomainOf[file(z).hdr]] : z \in GoodZones}
             desired == DesiredVolumes(files)
             new == [vols   |-> AttachedVolumes(dep.now.vols, desired),
                     mounts |-> AttachedMounts(dep.now.mounts, desired),
                     phase  |-> IF "roll" \in Timely THEN "rolling" ELSE "changed"]
             next == [cw EXCEPT !.pc = "corefile", !.todo = GoodZones,
                                !.domains = {DomainOf[file(z).hdr] : z \in GoodZones},
                                !.serials = {<<z, cmCache[ZoneCM(z)].serial>> : z \in GoodZones}]
  <1>1. cw \in ConWorker /\ dep \in Watched(Workload) /\ dep.now \in Workload
    BY DEF ConTypeOK, Watched
  <1>2. GoodZones \subseteq Zone
    BY DEF GoodZones
  <1>3. ASSUME NEW z \in Zone
        PROVE  /\ ZoneCM(z) \in CMName /\ DomainOf[file(z).hdr] \in Domain
               /\ cmCache[ZoneCM(z)].serial \in Nat
    <2>1. zoneCache[z] \in ZoneObj
      BY DEF Inv, ZoneTypes
    <2>2. ZoneCM(z) \in CMName
      BY <2>1 DEF ZoneCM, CMName, ZoneObj, ZoneStatus
    <2>3. cmCache[ZoneCM(z)] \in CMObj
      BY <2>2 DEF Inv, CMTypes
    <2> QED
      BY <2>2, <2>3, DomainAssumption DEF CMObj, File
  <1>4. desired \subseteq Volume
    <2>1. \A f \in files : f.cm \in CMName /\ f.key \in Domain
      BY <1>2, <1>3
    <2> HIDE DEF files
    <2> SUFFICES ASSUME NEW v \in desired PROVE v \in Volume
      OBVIOUS
    <2>2. PICK f \in files : v = [name |-> VolumeOf[f.key], cm |-> f.cm, key |-> f.key]
      BY DesiredIsFile
    <2> QED
      BY <2>1, <2>2 DEF Volume
  <1>5. new \in Workload
    <2> HIDE DEF desired
    <2>1. AttachedVolumes(dep.now.vols, desired) \subseteq Volume
      BY <1>1, <1>4 DEF AttachedVolumes, Workload
    <2>2. AttachedMounts(dep.now.mounts, desired) \subseteq Mount
      BY <1>1, <1>4 DEF AttachedMounts, Workload, Volume, Mount
    <2> QED
      BY <2>1, <2>2 DEF Workload
  <1>6. next \in ConWorker
    <2>1. {DomainOf[file(z).hdr] : z \in GoodZones} \subseteq Domain
      BY <1>2, <1>3
    <2>2. {<<z, cmCache[ZoneCM(z)].serial>> : z \in GoodZones} \subseteq Zone \X Nat
      BY <1>2, <1>3
    <2> HIDE DEF file
    <2> QED
      BY <1>1, <1>2, <2>1, <2>2 DEF ConWorker, ConPC
  <1>7. Reporting("NoWorkload") \in ConWorker /\ Reporting("NotAttached") \in ConWorker
    BY <1>1, ReportType DEF ConCond
  <1>8. Put(dep, new) \in Watched(Workload)
    BY <1>1, <1>5, WatchedSteps
  <1> HIDE DEF new, next
  <1>9. conQ \in BOOLEAN
    BY DEF ConTypeOK
  <1> QED
    BY <1>1, <1>6, <1>7, <1>8, <1>9, FailTypes
    DEF ConAttach, new, next, ConGoes, Applied, ConWorkTypes

(* The rest of a reconciliation, and the rest of a deletion.               *)
LEMMA ConWorkStepTypes ==
  ASSUME Inv, ConTypeOK, ConWork \/ ConFault
  PROVE  ConTypeOK'
  <1>1. /\ cw \in ConWorker /\ con \in Watched(ConObj) /\ core \in Watched(Corefile)
        /\ dep \in Watched(Workload) /\ bkp \in Backup
        /\ pods \in [files : SUBSET [key : Domain, file : File, serial : Nat], core : Corefile]
        /\ conQ \in BOOLEAN /\ conDelay \in BOOLEAN
    BY DEF ConTypeOK
  <1>2. /\ con.now \in ConObj /\ core.now \in Corefile
        /\ cw.status \in ConStatus /\ cw.copy \in ConObj /\ cw.text \in CoreText
        /\ cw.domains \in SUBSET Domain /\ cw.serials \in SUBSET (Zone \X Nat)
        /\ cw.todo \in SUBSET Zone
    BY <1>1 DEF Watched, ConWorker
  <1>3. GoodZones \in SUBSET Zone
    BY DEF GoodZones
  <1>4. \A c \in ConCond : WithCond(c) \in ConStatus /\ Reporting(c) \in ConWorker
    BY <1>1, ReportType
  <1>5. CASE ConAttach
    <2>1. dep' \in Watched(Workload) /\ ConWorkTypes'
      BY <1>5, ConAttachTypes
    <2>2. UNCHANGED <<con, core, bkp, pods, conDelay>>
      BY <1>5 DEF ConAttach, ConRest
    <2> QED
      BY <1>1, <2>1, <2>2 DEF ConTypeOK, ConWorkTypes
  <1>6. CASE ConWriteCorefile
    <2>1. GeneratedCorefile(cw.text, cw.domains, cw.copy.spec.plugins) \in Corefile
      BY <1>2 DEF GeneratedCorefile, Corefile, ConObj, ConSpec
    <2>2. core' \in Watched(Corefile)
      BY <1>1, <1>6, <2>1, WatchedSteps DEF ConWriteCorefile
    <2>3. [cw EXCEPT !.pc = "updating"] \in ConWorker
      BY <1>1 DEF ConWorker, ConPC
    <2>4. cw' \in ConWorker /\ conQ' = conQ
      BY <1>4, <1>6, <2>3 DEF ConWriteCorefile, Applied, ConGoes, ConCond
    <2> QED
      BY <1>1, <1>6, <2>2, <2>4 DEF ConWriteCorefile, ConRest, ConTypeOK
  <1>7. CASE ConUpdating \/ ConReport \/ ConActive
    <2>1. ConWorkTypes'
      <3>1. [cw EXCEPT !.pc = "wait", !.status = WithCond("Updating")] \in ConWorker
        BY <1>1, <1>4 DEF ConWorker, ConPC, ConCond
      <3> QED
        BY <1>1, <1>7, <3>1, FailTypes, ConIdleType DEF ConUpdating, ConReport, ConActive,
           WriteConStatus, ConGoes, ConWorkTypes
    <2>2. con' \in Watched(ConObj)
      <3>1. [cond |-> "Active", ogen |-> cw.copy.gen, zones |-> cw.serials] \in ConStatus
        BY <1>2 DEF ConStatus, ConCond, ConObj
      <3>2. WithCond("Updating") \in ConStatus
        BY <1>4 DEF ConCond
      <3>3. CASE UNCHANGED con
        BY <1>1, <3>3
      <3>4. CASE \E s \in ConStatus : StoreConStatus(s)
        BY <1>1, <3>4, StatusType
      <3> QED
        BY <1>2, <1>7, <3>1, <3>2, <3>3, <3>4
        DEF ConUpdating, ConReport, ConActive, WriteConStatus
    <2>3. UNCHANGED <<core, dep, bkp, pods, conDelay>>
      BY <1>7 DEF ConUpdating, ConReport, ConActive, ConRest
    <2> QED
      BY <1>1, <2>1, <2>2, <2>3 DEF ConTypeOK, ConWorkTypes
  <1>8. CASE ConHealthy \/ ConTimeout
    <2>1. [cw EXCEPT !.pc = IF cw.todo = {} THEN "active" ELSE "notify"] \in ConWorker
      BY <1>1 DEF ConWorker, ConPC
    <2>2. cw' \in ConWorker /\ conQ' = conQ
      BY <1>4, <1>8, <2>1 DEF ConHealthy, ConTimeout, ConGoes, ConCond
    <2> QED
      BY <1>1, <1>8, <2>2 DEF ConHealthy, ConTimeout, ConRest, ConTypeOK
  <1>9. CASE ConRelease
    <2>1. [con.now EXCEPT !.fin = FALSE] \in ConObj
      BY <1>2 DEF ConObj
    <2>2. con' \in Watched(ConObj)
      BY <1>1, <1>9, <2>1, PutConType DEF ConRelease
    <2>3. [ConIdle EXCEPT !.pc = "unnotify", !.todo = GoodZones] \in ConWorker
      BY <1>3, ConIdleType DEF ConWorker, ConPC
    <2>4. ConWorkTypes'
      BY <1>1, <1>9, <2>3, FailTypes, ConIdleType DEF ConRelease, ConGoes, ConWorkTypes
    <2> QED
      BY <1>1, <1>9, <2>2, <2>4 DEF ConRelease, ConRest, ConTypeOK, ConWorkTypes
  <1>10. CASE \E z \in Zone : ConNotify(z) \/ ConUnnotify(z)
    <2>1. PICK z \in Zone : ConNotify(z) \/ ConUnnotify(z)
      BY <1>10
    <2>2. /\ [cw EXCEPT !.todo = @ \ {z}, !.pc = IF cw.todo = {z} THEN "active" ELSE @] \in ConWorker
          /\ [cw EXCEPT !.todo = @ \ {z}] \in ConWorker
      BY <1>1 DEF ConWorker, ConPC
    <2>3. ConWorkTypes'
      BY <1>1, <2>1, <2>2, FailTypes, ConIdleType
      DEF ConNotify, ConUnnotify, ConTellZone, ConGoes, ConWorkTypes
    <2> QED
      BY <1>1, <2>1, <2>3 DEF ConNotify, ConUnnotify, ConRest, ConTypeOK, ConWorkTypes
  <1>11. CASE ConFault
    <2>1. ConWorkTypes'
      BY <1>1, <1>4, <1>11, ConIdleType DEF ConFault, ConWorkTypes, ConCond
    <2> QED
      BY <1>1, <1>11, <2>1 DEF ConFault, ConRest, ConTypeOK, ConWorkTypes
  <1> QED
    BY <1>5, <1>6, <1>7, <1>8, <1>9, <1>10, <1>11 DEF ConWork

LEMMA EditedCon ==
  ASSUME NEW obj \in ConObj, NEW s \in ConSpec
  PROVE  /\ [obj EXCEPT !.spec = s, !.gen = @ + 1] \in ConObj
         /\ [obj EXCEPT !.deleting = TRUE, !.gen = @ + 1] \in ConObj
  <1> DEFINE g == obj.gen + 1
  <1>1. g \in Nat
    BY DEF ConObj
  <1> HIDE DEF g
  <1>2. /\ [obj EXCEPT !.spec = s, !.gen = g] \in ConObj
        /\ [obj EXCEPT !.deleting = TRUE, !.gen = g] \in ConObj
    BY <1>1 DEF ConObj
  <1>3. /\ [obj EXCEPT !.spec = s, !.gen = @ + 1] = [obj EXCEPT !.spec = s, !.gen = g]
        /\ [obj EXCEPT !.deleting = TRUE, !.gen = @ + 1] = [obj EXCEPT !.deleting = TRUE, !.gen = g]
    BY Zenon DEF g
  <1> QED
    BY <1>2, <1>3

(* The users' edits of the connector and of the Corefile.                  *)
LEMMA ConUserTypes ==
  ASSUME ConTypeOK, CreateConnector \/ EditConnector \/ DeleteConnector \/ EditCorefile
  PROVE  ConTypeOK'
  <1>1. con \in Watched(ConObj) /\ con.now \in ConObj /\ core \in Watched(Corefile)
        /\ core.now \in Corefile
    BY DEF ConTypeOK, Watched
  <1>2. con' \in Watched(ConObj)
    <2>1. CASE CreateConnector
      <3>1. PICK s \in ConSpec : con' = Put(con, [NewCon(s) EXCEPT !.gen = con.now.gen + 1])
        BY <2>1 DEF CreateConnector
      <3>2. NewCon(s) \in ConObj /\ con.now.gen + 1 \in Nat
        BY <1>1, NewConType DEF ConObj
      <3>3. [NewCon(s) EXCEPT !.gen = con.now.gen + 1] \in ConObj
        BY <3>2 DEF ConObj
      <3> QED
        BY <1>1, <3>1, <3>3, WatchedSteps
    <2>2. CASE EditConnector
      <3>1. PICK s \in ConSpec : con' = Put(con, [con.now EXCEPT !.spec = s, !.gen = @ + 1])
        BY <2>2 DEF EditConnector
      <3>2. [con.now EXCEPT !.spec = s, !.gen = @ + 1] \in ConObj
        BY <1>1, EditedCon
      <3> QED
        BY <1>1, <3>1, <3>2, WatchedSteps
    <2>3. CASE DeleteConnector
      <3>1. DeletedCR(con.now) \in ConObj
        BY <1>1, EditedCon, ChosenValues DEF DeletedCR
      <3> QED
        BY <1>1, <2>3, <3>1, PutConType DEF DeleteConnector
    <2>4. CASE EditCorefile
      BY <1>1, <2>4 DEF EditCorefile
    <2> QED
      BY <2>1, <2>2, <2>3, <2>4
  <1>3. core' \in Watched(Corefile)
    <2>1. CASE EditCorefile
      <3>1. PICK t \in CoreText : core' = Put(core, [core.now EXCEPT !.text = t])
        BY <2>1 DEF EditCorefile
      <3>2. [core.now EXCEPT !.text = t] \in Corefile
        BY <1>1 DEF Corefile
      <3> QED
        BY <1>1, <3>1, <3>2, WatchedSteps
    <2>2. CASE CreateConnector \/ EditConnector \/ DeleteConnector
      BY <1>1, <2>2 DEF CreateConnector, EditConnector, DeleteConnector
    <2> QED
      BY <2>1, <2>2
  <1>4. UNCHANGED <<dep, bkp, pods, conQ, conDelay, cw>>
    BY DEF CreateConnector, EditConnector, DeleteConnector, EditCorefile, ConUser
  <1> QED
    BY <1>2, <1>3, <1>4 DEF ConTypeOK

(* A rollout ends with files of the config maps in the pods.               *)
LEMMA RolloutTypes ==
  ASSUME Inv, ConTypeOK, RolloutEnds
  PROVE  ConTypeOK'
  <1>1. dep \in Watched(Workload) /\ dep.now \in Workload /\ core.now \in Corefile
    BY DEF ConTypeOK, Watched
  <1>2. MountedFiles \subseteq [key : Domain, file : File, serial : Nat]
    <2> SUFFICES ASSUME NEW m \in dep.now.mounts
                 PROVE  LET v == CHOOSE w \in dep.now.vols : w.name = m.name
                        IN  [key |-> m.key, file |-> cms[v.cm].file, serial |-> cms[v.cm].serial]
                              \in [key : Domain, file : File, serial : Nat]
      BY DEF MountedFiles
    <2> DEFINE v == CHOOSE w \in dep.now.vols : w.name = m.name
    <2>1. \E w \in dep.now.vols : w.name = m.name
      BY DEF RolloutEnds, CanStart
    <2>2. v \in dep.now.vols
      BY <2>1
    <2> HIDE DEF v
    <2>3. v.cm \in CMName /\ m.key \in Domain
      BY <1>1, <2>2 DEF Workload, Volume, Mount
    <2>4. cms[v.cm] \in CMObj
      BY <2>3 DEF Inv, CMTypes
    <2>5. cms[v.cm].file \in File /\ cms[v.cm].serial \in Nat
      BY <2>4 DEF CMObj
    <2> QED
      BY <2>3, <2>5 DEF v
  <1>3. pods' \in [files : SUBSET [key : Domain, file : File, serial : Nat], core : Corefile]
    BY <1>1, <1>2 DEF RolloutEnds
  <1>4. [dep.now EXCEPT !.phase = "done"] \in Workload
    BY <1>1 DEF Workload
  <1>5. dep' \in Watched(Workload)
    BY <1>1, <1>4, WatchedSteps DEF RolloutEnds
  <1> QED
    BY <1>3, <1>5 DEF RolloutEnds, CoreDNSRest, ConTypeOK

(* Events, CoreDNS's other steps, and restarts.                            *)
LEMMA ConEventTypes ==
  ASSUME ConTypeOK,
         \/ \E z \in Zone : DeliverZoneToAll(z)
         \/ DeliverCon \/ DeliverCore \/ DeliverDep \/ ConDelayExpires
         \/ RolloutBegins \/ Reload \/ RestartAll
  PROVE  ConTypeOK'
  <1> USE DEF ConTypeOK
  <1>1. /\ con.now \in ConObj /\ core.now \in Corefile /\ dep.now \in Workload
        /\ con.now.exists \in BOOLEAN
    BY DEF Watched, ConObj
  <1>2. CASE \E z \in Zone : DeliverZoneToAll(z)
    BY <1>2 DEF DeliverZoneToAll
  <1>3. CASE DeliverCon
    <2>1. con' \in Watched(ConObj)
      BY <1>1, <1>3, WatchedSteps DEF DeliverCon
    <2> QED
      BY <1>3, <2>1 DEF DeliverCon
  <1>4. CASE DeliverCore
    <2>1. core' \in Watched(Corefile)
      BY <1>1, <1>4, WatchedSteps DEF DeliverCore
    <2> QED
      BY <1>4, <2>1, SameBackup DEF DeliverCore
  <1>5. CASE DeliverDep
    <2>1. dep' \in Watched(Workload)
      BY <1>1, <1>5, WatchedSteps DEF DeliverDep
    <2> QED
      BY <1>5, <2>1 DEF DeliverDep
  <1>6. CASE ConDelayExpires
    BY <1>6 DEF ConDelayExpires
  <1>7. CASE RolloutBegins
    <2>1. [dep.now EXCEPT !.phase = "rolling"] \in Workload
      BY <1>1 DEF Workload
    <2>2. dep' \in Watched(Workload)
      BY <1>7, <2>1, WatchedSteps DEF RolloutBegins
    <2> QED
      BY <1>7, <2>2 DEF RolloutBegins, CoreDNSRest
  <1>8. CASE Reload
    <2>1. pods' \in [files : SUBSET [key : Domain, file : File, serial : Nat], core : Corefile]
      BY <1>1, <1>8 DEF Reload
    <2> QED
      BY <1>8, <2>1 DEF Reload, CoreDNSRest
  <1>9. CASE RestartAll
    <2>1. con' \in Watched(ConObj) /\ core' \in Watched(Corefile) /\ dep' \in Watched(Workload)
      BY <1>1, <1>9, WatchedSteps DEF RestartAll
    <2>2. conQ' \in BOOLEAN /\ conDelay' \in BOOLEAN /\ cw' \in ConWorker
      BY <1>1, <1>9, ConIdleType DEF RestartAll
    <2>3. bkp' \in Backup /\ UNCHANGED pods
      BY <1>9, SameBackup DEF RestartAll
    <2> QED
      BY <2>1, <2>2, <2>3
  <1> QED
    BY <1>2, <1>3, <1>4, <1>5, <1>6, <1>7, <1>8, <1>9

(* Every step of the whole operator keeps the connector's types.           *)
LEMMA OpNextTypes ==
  ASSUME Inv, ConTypeOK, [OpNext]_opVars
  PROVE  ConTypeOK'
  <1>1. CASE UNCHANGED conVars
    BY <1>1 DEF conVars, ConTypeOK
  <1>2. CASE ConCtl
    BY <1>2, ConBeginTypes, ConWorkStepTypes DEF ConCtl
  <1> QED
    BY <1>1, <1>2, ConUserTypes, RolloutTypes, ConEventTypes
    DEF OpNext, OpStep, opVars, CoreDNS

LEMMA ConInitTypes ==
  ASSUME ConInit
  PROVE  ConTypeOK
  <1>1. PICK s \in InitConSpec : con = Synced(NewCon(s))
    BY DEF ConInit
  <1>2. con \in Watched(ConObj)
    BY <1>1, InitConAssumption, NewConType, SyncedType
  <1> DEFINE file == [text |-> CHOOSE t \in CoreText : TRUE, blocks |-> {}]
             work == [vols |-> {}, mounts |-> {}, phase |-> "done"]
  <1>3. file \in Corefile /\ work \in Workload
    BY ChosenValues DEF Corefile, Workload
  <1>4. core = Synced(file) /\ dep = Synced(work) /\ core.now = file
    BY DEF ConInit, Synced
  <1> HIDE DEF file, work
  <1>5. core \in Watched(Corefile) /\ dep \in Watched(Workload)
    BY <1>3, <1>4, SyncedType
  <1>6. bkp \in Backup
    BY <1>3, <1>4 DEF ConInit, Backup
  <1> QED
    BY <1>2, <1>3, <1>4, <1>5, <1>6, ConIdleType DEF ConInit, ConTypeOK

(* Every variable of the connector keeps its type, whatever users, the     *)
(* other controllers and CoreDNS do: no reason is set that is not known.   *)
THEOREM OpTypeCorrect == OpSpec => []ConTypeOK
  <1>1. OpInit => Inv /\ ConTypeOK
    BY InitInv, ConInitTypes DEF OpInit
  <1>2. Inv /\ ConTypeOK /\ [OpNext]_opVars => Inv' /\ ConTypeOK'
    BY OpNextInv, OpNextTypes
  <1> QED
    BY <1>1, <1>2, PTL DEF OpSpec

-----------------------------------------------------------------------------
(* The Corefile, its backup and the finalizer.                             *)

(* The stored connector holds its finalizer.                               *)
ConOwns == con.now.exists /\ con.now.fin
Writing == {"attach", "corefile"}

(* Whoever is said to have seen an object's version has it.                *)
CacheSeen == /\ "cache" \in con.seen => con.cache = con.now
             /\ "cache" \in core.seen => core.cache = core.now

(* The backup is the Corefile without blocks, and none is written before   *)
(* there is a backup.  The cache has no backup that does not exist.        *)
BackupOriginal ==
  IF bkp.exists THEN bkp.file.blocks = {}
  ELSE core.now.blocks = {} /\ core.cache.blocks = {} /\ cw.pc \notin Writing /\ ~bkp.seen

(* Without the finalizer there are no blocks, and none are on their way.   *)
FinalizerGuards == ~ConOwns => core.now.blocks = {} /\ cw.pc \notin Writing

(* A connector that the cache shows with a finalizer still has it, unless  *)
(* it was being deleted.                                                   *)
CacheTruthful ==
  con.cache.exists /\ con.cache.fin =>
    IF con.cache.deleting THEN ConOwns => con.now.deleting ELSE ConOwns

(* The finalizer is released after the blocks are gone, and only under     *)
(* deletion.                                                               *)
ReleaseReady == cw.pc = "release" => core.now.blocks = {} /\ (ConOwns => con.now.deleting)

(* The text that goes into the Corefile is the one that is there, or the   *)
(* write will be refused.                                                  *)
TextRead == "worker" \in core.seen /\ cw.pc \in Writing => cw.text = core.now.text

ConSafe == /\ CacheSeen /\ BackupOriginal /\ FinalizerGuards
           /\ CacheTruthful /\ ReleaseReady /\ TextRead

(* Each block that goes into the Corefile has its mount.                   *)
MountsReady ==
  cw.pc = "corefile" => \A d \in cw.domains : \E m \in dep.now.mounts : m.key = d

-----------------------------------------------------------------------------
(* Most steps leave the Corefile, its backup, the mounts and the           *)
(* connector's spec and finalizer alone and lead the worker to no write.   *)

SameCon == /\ con'.now.exists = con.now.exists /\ con'.now.fin = con.now.fin
           /\ con'.now.deleting = con.now.deleting /\ con'.now.spec = con.now.spec
           /\ con'.cache = con.cache
           /\ "cache" \in con'.seen => "cache" \in con.seen /\ con'.now = con.now

QuietStep == /\ SameCon
             /\ UNCHANGED <<core, bkp>> /\ dep'.now.mounts = dep.now.mounts
             /\ cw' = cw \/ cw'.pc \notin Writing \cup {"release"}

(* The steps that are not quiet.                                           *)
LoudStep == \/ ConAddFinalizer \/ ConBackup \/ ConRestore
            \/ ConAttach \/ ConWriteCorefile \/ ConRelease
            \/ CreateConnector \/ EditConnector \/ DeleteConnector \/ EditCorefile
            \/ DeliverCon \/ DeliverCore \/ RestartAll

LEMMA SameConSteps ==
  ASSUME con \in Watched(ConObj)
  PROVE  /\ UNCHANGED con => SameCon
         /\ \A s : StoreConStatus(s) => SameCon
  <1>1. UNCHANGED con => SameCon
    BY DEF SameCon
  <1>2. ASSUME NEW s, StoreConStatus(s) PROVE SameCon
    <2>1. con.now \in ConObj
      BY DEF Watched
    <2>2. /\ con'.now = [con.now EXCEPT !.status = s] /\ con'.cache = con.cache
          /\ con'.seen = {"worker"}
      BY <1>2 DEF StoreConStatus
    <2> QED
      BY <2>1, <2>2 DEF SameCon, ConObj
  <1> QED
    BY <1>1, <1>2

LEMMA FailQuiet == ConFail => cw'.pc = "idle"
  BY DEF ConFail, ConIdle

LEMMA QuietWork ==
  ASSUME ConTypeOK,
         \/ ConNotFound \/ ConUpdating \/ ConHealthy \/ ConTimeout \/ ConActive \/ ConReport
         \/ \E z \in Zone : ConNotify(z) \/ ConUnnotify(z)
         \/ ConFault
  PROVE  QuietStep
  <1>1. cw \in ConWorker /\ con \in Watched(ConObj)
    BY DEF ConTypeOK
  <1>2. \A c : Reporting(c).pc = "report"
    BY <1>1 DEF Reporting, ConWorker
  <1>3. UNCHANGED <<core, bkp>> /\ dep'.now.mounts = dep.now.mounts
    BY DEF ConNotFound, ConUpdating, ConHealthy, ConTimeout, ConActive, ConReport,
       ConNotify, ConUnnotify, ConFault
  <1>4. SameCon
    <2>1. UNCHANGED con \/ \E s : StoreConStatus(s)
      BY DEF ConNotFound, ConUpdating, ConHealthy, ConTimeout, ConActive, ConReport,
         ConNotify, ConUnnotify, ConFault, WriteConStatus
    <2> QED
      BY <1>1, <2>1, SameConSteps
  <1>5. cw' = cw \/ cw'.pc \notin Writing \cup {"release"}
    <2> USE DEF Writing
    <2>1. CASE ConNotFound
      BY <2>1 DEF ConNotFound
    <2>2. CASE ConUpdating \/ ConReport \/ ConActive
      <3>1. [cw EXCEPT !.pc = "wait", !.status = WithCond("Updating")].pc = "wait"
        BY <1>1 DEF ConWorker
      <3>2. ConIdle.pc = "idle"
        BY DEF ConIdle
      <3> QED
        BY <2>2, <3>1, <3>2, FailQuiet DEF ConUpdating, ConReport, ConActive, WriteConStatus, ConGoes
    <2>3. CASE ConHealthy \/ ConTimeout
      BY <1>1, <1>2, <2>3 DEF ConHealthy, ConTimeout, ConGoes, ConWorker
    <2>4. CASE \E z \in Zone : ConNotify(z) \/ ConUnnotify(z)
      <3>1. PICK z \in Zone : ConNotify(z) \/ ConUnnotify(z)
        BY <2>4
      <3>2. /\ [cw EXCEPT !.todo = @ \ {z}, !.pc = IF cw.todo = {z} THEN "active" ELSE @].pc
                 \in {"active", cw.pc}
            /\ [cw EXCEPT !.todo = @ \ {z}].pc = cw.pc
            /\ ConIdle.pc = "idle"
        BY <1>1 DEF ConWorker, ConIdle
      <3>3. cw.pc \in {"notify", "unnotify"}
        BY <3>1 DEF ConNotify, ConUnnotify, ConAt
      <3>4. cw'.pc \in {"active", "idle", cw.pc}
        BY <3>1, <3>2, FailQuiet DEF ConNotify, ConUnnotify, ConTellZone, ConGoes
      <3> QED
        BY <3>3, <3>4
    <2>5. CASE ConFault
      BY <1>2, <2>5 DEF ConFault, ConIdle
    <2> QED
      BY <2>1, <2>2, <2>3, <2>4, <2>5
  <1> QED
    BY <1>3, <1>4, <1>5 DEF QuietStep

LEMMA StepKinds ==
  ASSUME ConTypeOK, [OpNext]_opVars
  PROVE  QuietStep \/ LoudStep
  <1>1. con \in Watched(ConObj) /\ dep \in Watched(Workload)
    BY DEF ConTypeOK
  <1>2. UNCHANGED con => SameCon
    BY <1>1, SameConSteps
  <1>3. CASE UNCHANGED conVars
    BY <1>2, <1>3 DEF conVars, QuietStep
  <1>4. CASE ConCtl
    BY <1>4, QuietWork DEF ConCtl, ConBegin, ConWork, LoudStep
  <1>5. CASE DeliverDep \/ RolloutBegins \/ RolloutEnds
    <2>1. dep'.now.mounts = dep.now.mounts
      <3>1. /\ [dep.now EXCEPT !.phase = "rolling"].mounts = dep.now.mounts
            /\ [dep.now EXCEPT !.phase = "done"].mounts = dep.now.mounts
        BY <1>1 DEF Watched, Workload
      <3>2. \A new : Put(dep, new).now = new
        BY <1>1 DEF Watched, Put
      <3>3. CaughtUp(dep).now = dep.now
        BY <1>1 DEF Watched, CaughtUp
      <3> QED
        BY <1>5, <3>1, <3>2, <3>3 DEF DeliverDep, RolloutBegins, RolloutEnds
    <2> QED
      BY <1>2, <1>5, <2>1 DEF DeliverDep, RolloutBegins, RolloutEnds, CoreDNSRest, QuietStep
  <1>6. CASE Reload \/ ConDelayExpires \/ \E z \in Zone : DeliverZoneToAll(z)
    BY <1>2, <1>6 DEF Reload, ConDelayExpires, DeliverZoneToAll, CoreDNSRest, QuietStep
  <1> QED
    BY <1>3, <1>4, <1>5, <1>6 DEF OpNext, OpStep, opVars, CoreDNS, LoudStep

-----------------------------------------------------------------------------
(* Every step keeps the connector safe.                                    *)

LEMMA QuietSafe == ConSafe /\ QuietStep => ConSafe'
  BY DEF ConSafe, QuietStep, SameCon, Writing, ConOwns, CacheSeen, BackupOriginal, FinalizerGuards,
     CacheTruthful, ReleaseReady, TextRead

(* The parts of a watched object after a step.                             *)
LEMMA WatchedParts ==
  ASSUME NEW Kind, NEW o \in Watched(Kind)
  PROVE  /\ \A new : /\ Put(o, new).now = new /\ Put(o, new).cache = o.cache
                     /\ Put(o, new).seen = {}
         /\ \A new : Synced(new) = [now |-> new, cache |-> new, seen |-> {"cache"}]
         /\ CaughtUp(o).now = o.now /\ CaughtUp(o).cache = o.now
         /\ CaughtUp(o).seen = o.seen \cup {"cache"}
         /\ Read(o).now = o.now /\ Read(o).cache = o.cache
         /\ "cache" \in Read(o).seen <=> "cache" \in o.seen
         /\ "worker" \in Read(o).seen <=> "cache" \in o.seen
  BY DEF Watched, Put, Synced, CaughtUp, Read

(* A write of the connector stores what was written, and the object goes   *)
(* away if it is under deletion without the finalizer.                     *)
LEMMA PutConParts ==
  ASSUME con \in Watched(ConObj), NEW new \in ConObj, PutCon(new)
  PROVE  /\ con'.now.exists = ~(new.deleting /\ ~new.fin)
         /\ con'.now.fin = new.fin /\ con'.now.deleting = new.deleting
         /\ con'.now.spec = new.spec /\ con'.now.gen = new.gen
         /\ con'.now.status = new.status /\ con'.cache = con.cache
         /\ con' = con \/ con'.seen = {}
  <1> DEFINE obj == [new EXCEPT !.exists = ~(new.deleting /\ ~new.fin)]
  <1>1. /\ obj.exists = ~(new.deleting /\ ~new.fin) /\ obj.fin = new.fin
        /\ obj.deleting = new.deleting /\ obj.spec = new.spec /\ obj.gen = new.gen
        /\ obj.status = new.status
    BY DEF ConObj
  <1> HIDE DEF obj
  <1>2. con' = IF obj = con.now THEN con ELSE Put(con, obj)
    BY DEF PutCon, obj
  <1> QED
    BY <1>1, <1>2, WatchedParts

LEMMA LoudSafe ==
  ASSUME ConTypeOK, ConSafe, LoudStep
  PROVE  ConSafe'
  <1>1. /\ con \in Watched(ConObj) /\ core \in Watched(Corefile) /\ cw \in ConWorker
        /\ con.now \in ConObj /\ con.cache \in ConObj /\ core.now \in Corefile
        /\ core.cache \in Corefile /\ bkp \in Backup
    BY DEF ConTypeOK, Watched
  <1> USE DEF ConSafe, Writing, ConOwns, CacheSeen, BackupOriginal, FinalizerGuards,
      CacheTruthful, ReleaseReady, TextRead
  <1>2. CASE ConAddFinalizer
    <2> DEFINE new == [con.now EXCEPT !.fin = TRUE]
    <2>1. new \in ConObj /\ new.fin /\ new.deleting = con.now.deleting
      BY <1>1 DEF ConObj
    <2>2. /\ con'.now.exists /\ con'.now.fin /\ con'.now.deleting = con.now.deleting
          /\ con'.cache = con.cache /\ (con' = con \/ con'.seen = {})
      <3> HIDE DEF new
      <3>1. PutCon(new)
        BY <1>2 DEF ConAddFinalizer, new
      <3> QED
        BY <1>1, <2>1, <3>1, PutConParts
    <2>3. UNCHANGED <<core, bkp, cw>> /\ cw.pc = "idle" /\ con.cache.exists /\ ~con.cache.fin
      BY <1>2 DEF ConAddFinalizer, ConTakes, ConAt
    <2> QED
      BY <2>2, <2>3
  <1>3. CASE ConBackup
    <2>1. con.cache.exists /\ con.cache.fin /\ ~con.cache.deleting /\ con' = Read(con)
      BY <1>3, BackupEffect
    <2>2. CASE cw'.pc = "report" /\ UNCHANGED <<core, bkp>>
      BY <1>1, <2>1, <2>2, WatchedParts
    <2>3. CASE /\ core' = Read(core) /\ cw'.pc = "attach" /\ cw'.text = core.cache.text
               /\ \/ bkp.exists /\ bkp' = bkp
                  \/ ~bkp.exists /\ bkp'.exists /\ ~bkp'.seen /\ bkp'.file = core.cache
      BY <1>1, <2>1, <2>3, WatchedParts
    <2> QED
      BY <1>3, <2>2, <2>3, BackupEffect
  <1>4. CASE ConRestore
    <2>1. /\ con.cache.exists /\ con.cache.fin /\ con.cache.deleting /\ bkp.exists
          /\ core' = IF core.now = bkp.file THEN core ELSE Put(core, bkp.file)
          /\ UNCHANGED <<con, bkp>>
      BY <1>4 DEF ConRestore, CanRestore
    <2>2. cw'.pc = "release"
      BY <1>4, ConIdleType DEF ConRestore, ConWorker
    <2> QED
      BY <1>1, <2>1, <2>2, WatchedParts
  <1>5. CASE ConAttach
    <2>1. UNCHANGED <<con, core, bkp>> /\ cw.pc = "attach"
      BY <1>5 DEF ConAttach, ConAt
    <2>2. cw'.pc \in {"report", "idle"} \/ (cw'.pc = "corefile" /\ cw'.text = cw.text)
      BY <1>1, <1>5, FailQuiet DEF ConAttach, Applied, ConGoes, Reporting, ConWorker
    <2> QED
      BY <2>1, <2>2
  <1>6. CASE ConWriteCorefile
    <2>1. UNCHANGED <<con, bkp>> /\ cw.pc = "corefile"
      BY <1>6 DEF ConWriteCorefile, ConAt
    <2>2. cw'.pc \in {"updating", "report"}
      BY <1>1, <1>6 DEF ConWriteCorefile, Applied, ConGoes, Reporting, ConWorker
    <2>3. core' = core \/ (core'.seen = {} /\ core'.cache = core.cache)
      BY <1>1, <1>6, WatchedParts DEF ConWriteCorefile
    <2> QED
      BY <2>1, <2>2, <2>3
  <1>7. CASE ConRelease
    <2>1. UNCHANGED <<core, bkp>> /\ cw.pc = "release"
      BY <1>7 DEF ConRelease, ConAt
    <2>2. cw'.pc \in {"idle", "unnotify"}
      <3>1. /\ ConIdle.pc = "idle"
            /\ [ConIdle EXCEPT !.pc = "unnotify", !.todo = GoodZones].pc = "unnotify"
        BY DEF ConIdle
      <3> QED
        BY <1>7, <3>1, FailQuiet DEF ConRelease, ConGoes
    <2>3. CASE UNCHANGED con
      BY <2>1, <2>2, <2>3
    <2>4. CASE con.cache.exists /\ "cache" \in con.seen /\ PutCon([con.now EXCEPT !.fin = FALSE])
      <3> DEFINE new == [con.now EXCEPT !.fin = FALSE]
      <3>1. new \in ConObj /\ ~new.fin /\ new.deleting = con.now.deleting
        BY <1>1 DEF ConObj
      <3>2. /\ ~con'.now.fin /\ con'.now.deleting = con.now.deleting
            /\ con'.cache = con.cache /\ (con' = con \/ con'.seen = {})
        <4> HIDE DEF new
        <4>1. PutCon(new)
          BY <2>4 DEF new
        <4> QED
          BY <1>1, <3>1, <4>1, PutConParts
      <3> QED
        BY <2>1, <2>2, <2>4, <3>2
    <2> QED
      BY <1>7, <2>3, <2>4 DEF ConRelease
  <1>8. CASE CreateConnector
    <2>1. PICK s \in ConSpec : con' = Put(con, [NewCon(s) EXCEPT !.gen = con.now.gen + 1])
      BY <1>8 DEF CreateConnector
    <2>2. ~con.now.exists /\ UNCHANGED <<core, bkp, cw>>
      BY <1>8 DEF CreateConnector, ConUser
    <2>3. ~con'.now.fin /\ con'.cache = con.cache /\ con'.seen = {}
      <3> DEFINE new == [NewCon(s) EXCEPT !.gen = con.now.gen + 1]
      <3>1. ~new.fin
        BY DEF NewCon
      <3> HIDE DEF new
      <3>2. con' = Put(con, new)
        BY <2>1, Zenon DEF new
      <3> QED
        BY <1>1, <3>1, <3>2, WatchedParts
    <2> QED
      BY <2>2, <2>3
  <1>9. CASE EditConnector
    <2>1. PICK s \in ConSpec : con' = Put(con, [con.now EXCEPT !.spec = s, !.gen = @ + 1])
      BY <1>9 DEF EditConnector
    <2>2. UNCHANGED <<core, bkp, cw>>
      BY <1>9 DEF EditConnector, ConUser
    <2>3. /\ con'.now.exists = con.now.exists /\ con'.now.fin = con.now.fin
          /\ con'.now.deleting = con.now.deleting /\ con'.cache = con.cache /\ con'.seen = {}
      <3> DEFINE g == con.now.gen + 1
                 new == [con.now EXCEPT !.spec = s, !.gen = g]
      <3>1. con' = Put(con, new)
        BY <2>1, Zenon
      <3> HIDE DEF g
      <3>2. /\ new.exists = con.now.exists /\ new.fin = con.now.fin
            /\ new.deleting = con.now.deleting
        BY <1>1 DEF ConObj
      <3> HIDE DEF new
      <3> QED
        BY <1>1, <3>1, <3>2, WatchedParts
    <2> QED
      BY <2>2, <2>3
  <1>10. CASE DeleteConnector
    <2>1. DeletedCR(con.now) \in ConObj
      BY <1>1, EditedCon, ChosenValues DEF DeletedCR
    <2>2. DeletedCR(con.now).deleting /\ DeletedCR(con.now).fin = con.now.fin
      <3> DEFINE g == con.now.gen + 1
                 new == [con.now EXCEPT !.deleting = TRUE, !.gen = g]
      <3>1. DeletedCR(con.now) = new
        BY Zenon DEF DeletedCR
      <3> HIDE DEF g
      <3>2. new.deleting /\ new.fin = con.now.fin
        BY <1>1 DEF ConObj
      <3> QED
        BY <3>1, <3>2
    <2>3. /\ con.now.exists /\ UNCHANGED <<core, bkp, cw>> /\ PutCon(DeletedCR(con.now))
      BY <1>10 DEF DeleteConnector, ConUser
    <2>4. /\ con'.now.exists = con.now.fin /\ con'.now.fin = con.now.fin
          /\ con'.now.deleting /\ con'.cache = con.cache /\ (con' = con \/ con'.seen = {})
      <3>1. con.now.fin \in BOOLEAN
        BY <1>1 DEF ConObj
      <3> QED
        BY <1>1, <2>1, <2>2, <2>3, <3>1, PutConParts
    <2> QED
      BY <2>3, <2>4
  <1>11. CASE EditCorefile
    <2>1. PICK t \in CoreText : core' = Put(core, [core.now EXCEPT !.text = t])
      BY <1>11 DEF EditCorefile
    <2>2. UNCHANGED <<con, bkp, cw>>
      BY <1>11 DEF EditCorefile, ConUser
    <2>3. core'.now.blocks = core.now.blocks /\ core'.cache = core.cache /\ core'.seen = {}
      BY <1>1, <2>1, WatchedParts DEF Corefile
    <2> QED
      BY <2>2, <2>3
  <1>12. CASE DeliverCon
    <2>1. con' = CaughtUp(con) /\ UNCHANGED <<core, bkp, cw>>
      BY <1>12 DEF DeliverCon
    <2> QED
      BY <1>1, <2>1, WatchedParts
  <1>13. CASE DeliverCore
    <2>1. core' \in {core, CaughtUp(core)} /\ UNCHANGED <<con, cw>>
      BY <1>13 DEF DeliverCore
    <2>2. /\ core'.now = core.now /\ core'.cache \in {core.cache, core.now}
          /\ "cache" \in core'.seen => core'.cache = core.now
          /\ "worker" \in core'.seen => "worker" \in core.seen
      BY <1>1, <2>1, WatchedParts
    <2> QED
      BY <1>13, <2>1, <2>2, SameBackup
  <1>14. CASE RestartAll
    <2>1. con' = Synced(con.now) /\ core' = Synced(core.now) /\ cw'.pc = "idle"
      BY <1>14 DEF RestartAll, ConIdle
    <2> QED
      BY <1>1, <1>14, <2>1, SameBackup, WatchedParts
  <1> QED
    BY <1>2, <1>3, <1>4, <1>5, <1>6, <1>7, <1>8, <1>9, <1>10, <1>11, <1>12, <1>13, <1>14
    DEF LoudStep

(* What the worker collects from the good zones: files to mount, domains,  *)
(* serials.                                                                *)
Collected(z) == cmCache[ZoneCM(z)]
CollectedFiles == {[cm |-> ZoneCM(z), key |-> DomainOf[Collected(z).file.hdr]] : z \in GoodZones}
CollectedDomains == {DomainOf[Collected(z).file.hdr] : z \in GoodZones}
CollectedSerials == {<<z, Collected(z).serial>> : z \in GoodZones}

LEMMA AttachEffect ==
  ASSUME ConTypeOK, ConAttach, cw'.pc = "corefile"
  PROVE  /\ \A z \in GoodZones : Collected(z).exists
         /\ cw'.domains = CollectedDomains /\ cw'.serials = CollectedSerials
         /\ cw'.copy = cw.copy /\ cw'.status = cw.status
         /\ dep'.now.vols = AttachedVolumes(dep.now.vols, DesiredVolumes(CollectedFiles))
         /\ dep'.now.mounts = AttachedMounts(dep.now.mounts, DesiredVolumes(CollectedFiles))
         /\ dep'.now.phase # "done"
         /\ UNCHANGED <<con, core>>
  <1>1. cw \in ConWorker /\ dep \in Watched(Workload)
    BY DEF ConTypeOK
  <1> DEFINE new == [vols   |-> AttachedVolumes(dep.now.vols, DesiredVolumes(CollectedFiles)),
                     mounts |-> AttachedMounts(dep.now.mounts, DesiredVolumes(CollectedFiles)),
                     phase  |-> IF "roll" \in Timely THEN "rolling" ELSE "changed"]
             next == [cw EXCEPT !.pc = "corefile", !.todo = GoodZones,
                                !.domains = CollectedDomains, !.serials = CollectedSerials]
  <1>2. \A c : Reporting(c).pc = "report"
    BY <1>1 DEF Reporting, ConWorker
  <1>3. "cache" \in dep.seen /\ \A z \in GoodZones : Collected(z).exists
    BY <1>2, FailQuiet DEF ConAttach, Applied, ConGoes, Collected
  <1>4. cw' = next /\ dep' = Put(dep, new)
    BY <1>2, <1>3, FailQuiet DEF ConAttach, Applied, ConGoes, Collected, CollectedFiles,
       CollectedDomains, CollectedSerials
  <1>5. /\ next.domains = CollectedDomains /\ next.serials = CollectedSerials
        /\ next.copy = cw.copy /\ next.status = cw.status
    BY <1>1 DEF ConWorker
  <1>6. Put(dep, new).now = new
    BY <1>1, WatchedParts
  <1>7. UNCHANGED <<con, core>>
    BY DEF ConAttach
  <1>8. new.phase # "done"
    OBVIOUS
  <1> HIDE DEF next
  <1> QED
    BY <1>3, <1>4, <1>5, <1>6, <1>7, <1>8

(* The config map a good zone names, and the domain of what it holds.      *)
LEMMA CollectedTypes ==
  ASSUME Inv, NEW z \in GoodZones
  PROVE  /\ z \in Zone /\ ZoneCM(z) \in CMName /\ ZoneCM(z)[2] = z
         /\ Collected(z) \in CMObj /\ DomainOf[Collected(z).file.hdr] \in Domain
  <1>1. z \in Zone /\ zoneCache[z] \in ZoneObj
    BY DEF GoodZones, Inv, ZoneTypes
  <1>2. ZoneCM(z) \in CMName /\ ZoneCM(z)[2] = z
    BY <1>1 DEF ZoneCM, CMName, ZoneObj, ZoneStatus
  <1>3. Collected(z) \in CMObj
    BY <1>2 DEF Collected, Inv, CMTypes
  <1> QED
    BY <1>1, <1>2, <1>3, DomainAssumption DEF CMObj, File

(* The workload has the mounts of the blocks the worker is about to write. *)
LEMMA AttachedReady ==
  ASSUME OwnVolume(Domain), Inv, ConTypeOK, ConAttach
  PROVE  MountsReady'
  <1>1. CASE cw'.pc # "corefile"
    BY <1>1 DEF MountsReady
  <1>2. CASE cw'.pc = "corefile"
    <2> DEFINE mounts == AttachedMounts(dep.now.mounts, DesiredVolumes(CollectedFiles))
    <2>1. cw'.domains = CollectedDomains /\ dep'.now.mounts = mounts
      BY <1>2, AttachEffect
    <2>2. \A d \in CollectedDomains : \E m \in mounts : m.key = d
      <3> SUFFICES ASSUME NEW z \in GoodZones
                   PROVE  \E m \in mounts : m.key = DomainOf[Collected(z).file.hdr]
        BY DEF CollectedDomains
      <3> DEFINE f == [cm |-> ZoneCM(z), key |-> DomainOf[Collected(z).file.hdr]]
      <3>1. (\A g \in CollectedFiles : g.key \in Domain) /\ f \in CollectedFiles
        BY CollectedTypes DEF CollectedFiles
      <3> HIDE DEF f
      <3>2. \E m \in mounts : m.key = f.key
        BY <3>1, EveryFileMounted
      <3> QED
        BY <3>2 DEF f
    <2> QED
      BY <2>1, <2>2 DEF MountsReady
  <1> QED
    BY <1>1, <1>2

(* The worker comes to the write of the Corefile from nowhere else.        *)
LEMMA CorefileEntered ==
  ASSUME ConTypeOK, [OpNext]_opVars, cw'.pc = "corefile"
  PROVE  ConAttach \/ cw' = cw
  <1>1. cw \in ConWorker
    BY DEF ConTypeOK
  <1>2. CASE QuietStep
    BY <1>2 DEF QuietStep, Writing
  <1>3. CASE ConWriteCorefile
    BY <1>1, <1>3 DEF ConWriteCorefile, Applied, ConGoes, Reporting, ConWorker
  <1>4. CASE ConBackup
    BY <1>4, BackupEffect
  <1>5. CASE ConRestore \/ RestartAll
    <2>1. [ConIdle EXCEPT !.pc = "release", !.copy = con.cache].pc = "release"
          /\ ConIdle.pc = "idle"
      BY DEF ConIdle
    <2> QED
      BY <1>5, <2>1 DEF ConRestore, RestartAll
  <1>6. CASE ConRelease
    <2>1. /\ ConIdle.pc = "idle"
          /\ [ConIdle EXCEPT !.pc = "unnotify", !.todo = GoodZones].pc = "unnotify"
      BY DEF ConIdle
    <2> QED
      BY <1>6, <2>1, FailQuiet DEF ConRelease, ConGoes
  <1>7. CASE ConAddFinalizer \/ DeliverCon \/ DeliverCore
    BY <1>7 DEF ConAddFinalizer, DeliverCon, DeliverCore
  <1>8. CASE CreateConnector \/ EditConnector \/ DeleteConnector \/ EditCorefile
    BY <1>8 DEF CreateConnector, EditConnector, DeleteConnector, EditCorefile, ConUser
  <1> QED
    BY <1>2, <1>3, <1>4, <1>5, <1>6, <1>7, <1>8, StepKinds DEF LoudStep

(* Nothing else changes the volumes and mounts of the workload.            *)
LEMMA MountSteps ==
  ASSUME ConTypeOK, [OpNext]_opVars
  PROVE  \/ ConAttach
         \/ dep'.now.mounts = dep.now.mounts /\ dep'.now.vols = dep.now.vols
  <1>1. dep \in Watched(Workload) /\ dep.now \in Workload
    BY DEF ConTypeOK, Watched
  <1>2. CASE UNCHANGED dep
    BY <1>2
  <1>3. CASE RolloutBegins \/ RolloutEnds
    <2>1. PICK phase : dep' = Put(dep, [dep.now EXCEPT !.phase = phase])
      BY <1>3 DEF RolloutBegins, RolloutEnds
    <2> QED
      BY <1>1, <2>1, WatchedParts DEF Workload
  <1>4. CASE DeliverDep \/ RestartAll
    <2>1. dep' = CaughtUp(dep) \/ dep' = Synced(dep.now)
      BY <1>4 DEF DeliverDep, RestartAll
    <2> QED
      BY <1>1, <2>1, WatchedParts
  <1>5. CASE ConCtl
    BY <1>2, <1>5 DEF ConCtl, ConBegin, ConNotFound, ConAddFinalizer, ConBackup,
       ConRestore, ConWork, ConWriteCorefile, ConUpdating, ConHealthy, ConTimeout,
       ConActive, ConReport, ConRelease, ConNotify, ConUnnotify, ConFault
  <1> QED
    BY <1>2, <1>3, <1>4, <1>5 DEF OpNext, OpStep, opVars, conVars, DeliverZoneToAll, DeliverCon,
       DeliverCore, ConDelayExpires, CoreDNS, Reload, CoreDNSRest, CreateConnector, EditConnector,
       DeleteConnector, EditCorefile, ConUser

LEMMA MountsReadyStep ==
  ASSUME OwnVolume(Domain), Inv, ConTypeOK, MountsReady, [OpNext]_opVars
  PROVE  MountsReady'
  <1>1. CASE ConAttach
    BY <1>1, AttachedReady
  <1>2. CASE cw'.pc = "corefile" /\ ~ConAttach
    BY <1>2, CorefileEntered, MountSteps DEF MountsReady
  <1> QED
    BY <1>1, <1>2 DEF MountsReady

-----------------------------------------------------------------------------
(* Theorems.                                                               *)

ConInv == Inv /\ ConTypeOK /\ ConSafe

(* Every reachable state satisfies it: without the connector's finalizer   *)
(* there are no blocks and none are on their way, and the backup holds the *)
(* Corefile as it was before the operator touched it.                      *)
THEOREM ConInvariance == OpSpec => []ConInv
  <1>1. OpInit => ConInv
    <2> SUFFICES ASSUME OpInit PROVE ConInv
      OBVIOUS
    <2>1. Inv /\ ConTypeOK
      BY InitInv, ConInitTypes DEF OpInit
    <2>2. ConSafe
      <3>1. PICK s \in InitConSpec : con = Synced(NewCon(s))
        BY DEF OpInit, ConInit
      <3>2. con.now = con.cache /\ ~con.now.fin
        BY <3>1 DEF Synced, NewCon
      <3>3. core.now = core.cache /\ core.now.blocks = {} /\ "worker" \notin core.seen
        BY DEF OpInit, ConInit, Synced
      <3>4. ~bkp.exists /\ ~bkp.seen /\ cw.pc = "idle"
        BY DEF OpInit, ConInit, ConIdle
      <3> QED
        BY <3>2, <3>3, <3>4 DEF ConSafe, Writing, ConOwns, CacheSeen, BackupOriginal,
           FinalizerGuards, CacheTruthful, ReleaseReady, TextRead
    <2> QED
      BY <2>1, <2>2 DEF ConInv
  <1>2. ConInv /\ [OpNext]_opVars => ConInv'
    <2>1. Inv /\ ConTypeOK /\ [OpNext]_opVars => Inv' /\ ConTypeOK'
      BY OpNextInv, OpNextTypes
    <2>2. ConTypeOK /\ ConSafe /\ [OpNext]_opVars => ConSafe'
      BY StepKinds, QuietSafe, LoudSafe
    <2> QED
      BY <2>1, <2>2 DEF ConInv
  <1> QED
    BY <1>1, <1>2, PTL DEF OpSpec

(* No connector leaves its blocks behind: whatever was interrupted and     *)
(* however stale the caches, the Corefile is restored before the finalizer *)
(* goes.                                                                   *)
THEOREM NoBlocksLeft == OpSpec => []NoBlocksWithoutConnector
  <1>1. ConInv => NoBlocksWithoutConnector
    BY DEF ConInv, ConSafe, FinalizerGuards, ConOwns, NoBlocksWithoutConnector
  <1> QED
    BY <1>1, ConInvariance, PTL

(* The blocks of a new Corefile are those of the domains it is made for.   *)
LEMMA GeneratedDomains ==
  ASSUME NEW text, NEW domains, NEW plugins
  PROVE  BlockDomains(GeneratedCorefile(text, domains, plugins)) = domains
  <1> DEFINE new == GeneratedCorefile(text, domains, plugins)
  <1>1. new.blocks = domains \X {plugins}
    BY DEF GeneratedCorefile
  <1> HIDE DEF new
  <1>2. BlockDomains(new) \subseteq domains
    BY <1>1 DEF BlockDomains
  <1>3. ASSUME NEW d \in domains PROVE d \in BlockDomains(new)
    <2>1. <<d, plugins>> \in new.blocks /\ <<d, plugins>>[1] = d
      BY <1>1
    <2> QED
      BY <2>1, Zenon DEF BlockDomains
  <1> QED
    BY <1>2, <1>3 DEF new

(* The domains in the Corefile change by a write of those the worker       *)
(* collected, or by the restore, which takes all of them out.              *)
LEMMA BlockSteps ==
  ASSUME ConTypeOK, ConSafe, [OpNext]_opVars
  PROVE  \/ BlockDomains(core'.now) = BlockDomains(core.now)
         \/ cw.pc = "corefile" /\ BlockDomains(core'.now) = cw.domains
         \/ ConRestore /\ BlockDomains(core'.now) = {}
  <1>1. /\ core \in Watched(Corefile) /\ core.now \in Corefile
        /\ con \in Watched(ConObj) /\ bkp \in Backup
    BY DEF ConTypeOK, Watched
  <1>2. core'.now.blocks = core.now.blocks => BlockDomains(core'.now) = BlockDomains(core.now)
    BY DEF BlockDomains
  <1>3. CASE ConWriteCorefile
    <2> DEFINE new == GeneratedCorefile(cw.text, cw.domains, cw.copy.spec.plugins)
    <2>1. cw.pc = "corefile" /\ (core' = Put(core, new) \/ core' = core)
      BY <1>3 DEF ConWriteCorefile, ConAt
    <2>2. BlockDomains(new) = cw.domains
      BY GeneratedDomains
    <2>3. core'.now = new \/ core' = core
      <3> HIDE DEF new
      <3> QED
        BY <1>1, <2>1, WatchedParts
    <2> HIDE DEF new
    <2> QED
      BY <2>1, <2>2, <2>3
  <1>4. CASE ConRestore
    <2>1. bkp.file.blocks = {}
      BY <1>4 DEF ConRestore, CanRestore, ConSafe, BackupOriginal
    <2>2. core'.now = core.now \/ core'.now = bkp.file
      BY <1>1, <1>4, WatchedParts DEF ConRestore
    <2> QED
      BY <1>4, <2>1, <2>2 DEF BlockDomains
  <1>5. CASE EditCorefile
    <2>1. PICK t \in CoreText : core' = Put(core, [core.now EXCEPT !.text = t])
      BY <1>5 DEF EditCorefile
    <2>2. core'.now.blocks = core.now.blocks
      BY <1>1, <2>1, WatchedParts DEF Corefile
    <2> QED
      BY <1>2, <2>2
  <1>6. CASE ConBackup \/ DeliverCore \/ RestartAll
    <2>1. core' \in {core, Read(core), CaughtUp(core), Synced(core.now)}
      BY <1>6, BackupEffect, SameBackup
    <2>2. core'.now = core.now
      BY <1>1, <2>1, WatchedParts
    <2> QED
      BY <1>2, <2>2
  <1>7. CASE QuietStep \/ ConAddFinalizer \/ ConAttach \/ ConRelease \/ CreateConnector
             \/ EditConnector \/ DeleteConnector \/ DeliverCon
    <2>1. core' = core
      BY <1>7 DEF QuietStep, ConAddFinalizer, ConAttach, ConRelease, CreateConnector,
         EditConnector, DeleteConnector, DeliverCon
    <2> QED
      BY <1>2, <2>1
  <1> QED
    BY <1>3, <1>4, <1>5, <1>6, <1>7, StepKinds DEF LoudStep

(* If no two domains share a volume name, CoreDNS is never told to serve a *)
(* zone file for which its workload has no mount.                          *)
THEOREM BlocksHaveMounts ==
  ASSUME OwnVolume(Domain)
  PROVE  OpSpec => BlockAfterMount
  <1>1. OpInit => MountsReady
    BY DEF OpInit, ConInit, ConIdle, MountsReady
  <1>2. ConInv /\ MountsReady /\ [OpNext]_opVars => MountsReady'
    BY MountsReadyStep DEF ConInv
  <1>3. ConInv /\ MountsReady /\ [OpNext]_opVars =>
          \A d \in BlockDomains(core'.now) \ BlockDomains(core.now) :
            \E m \in dep.now.mounts : m.key = d
    BY BlockSteps DEF ConInv, MountsReady
  <1> QED
    BY <1>1, <1>2, <1>3, ConInvariance, PTL DEF OpSpec, BlockAfterMount

(* What the users wrote stays: the operator writes neither the spec of the *)
(* connector nor, but for the restore, the text of the Corefile, and a     *)
(* deletion is not taken back, whatever version a write was made from.     *)
LEMMA ConIntentStep ==
  ASSUME ConInv, [OpNext]_opVars, edits' = edits
  PROVE  /\ con'.now.spec = con.now.spec
         /\ con.now.deleting => con'.now.deleting
         /\ core'.now.text # core.now.text => con.cache.deleting
  <1>1. /\ con \in Watched(ConObj) /\ core \in Watched(Corefile) /\ con.now \in ConObj
        /\ edits \in Nat
    BY DEF ConInv, Inv, WorkTypes, ConTypeOK, Watched
  <1>2. CASE QuietStep
    BY <1>2 DEF QuietStep, SameCon
  <1>3. CASE CreateConnector \/ EditConnector \/ DeleteConnector \/ EditCorefile
    <2>1. edits' = edits + 1
      BY <1>3 DEF CreateConnector, EditConnector, DeleteConnector, EditCorefile, ConUser, User
    <2> QED
      BY <1>1, <2>1
  <1>4. CASE ConAddFinalizer \/ ConRelease
    <2>1. core' = core
      BY <1>4 DEF ConAddFinalizer, ConRelease
    <2>2. CASE UNCHANGED con
      BY <2>1, <2>2
    <2>3. ASSUME NEW fin \in BOOLEAN, PutCon([con.now EXCEPT !.fin = fin])
          PROVE  con'.now.spec = con.now.spec /\ con'.now.deleting = con.now.deleting
      <3> DEFINE new == [con.now EXCEPT !.fin = fin]
      <3>1. new \in ConObj /\ new.spec = con.now.spec /\ new.deleting = con.now.deleting
        BY <1>1 DEF ConObj
      <3> HIDE DEF new
      <3>2. PutCon(new)
        BY <2>3 DEF new
      <3> QED
        BY <1>1, <3>1, <3>2, PutConParts
    <2> QED
      BY <1>4, <2>1, <2>2, <2>3 DEF ConAddFinalizer, ConRelease
  <1>5. CASE ConBackup \/ DeliverCon \/ DeliverCore \/ RestartAll
    <2>1. /\ con' \in {con, Read(con), CaughtUp(con), Synced(con.now)}
          /\ core' \in {core, Read(core), CaughtUp(core), Synced(core.now)}
      BY <1>5 DEF ConBackup, DeliverCon, DeliverCore, RestartAll
    <2>2. con'.now = con.now /\ core'.now = core.now
      BY <1>1, <2>1, WatchedParts
    <2> QED
      BY <2>2
  <1>6. CASE ConAttach
    BY <1>6 DEF ConAttach
  <1>7. CASE ConRestore
    BY <1>7 DEF ConRestore
  <1>8. CASE ConWriteCorefile
    <2> DEFINE new == GeneratedCorefile(cw.text, cw.domains, cw.copy.spec.plugins)
    <2>1. /\ UNCHANGED con
          /\ core' = core \/ ("worker" \in core.seen /\ core' = Put(core, new))
      BY <1>8 DEF ConWriteCorefile
    <2>2. "worker" \in core.seen => cw.text = core.now.text
      BY <1>8 DEF ConWriteCorefile, ConAt, ConInv, ConSafe, TextRead, Writing
    <2>3. new.text = cw.text
      BY DEF GeneratedCorefile
    <2> HIDE DEF new
    <2> QED
      BY <1>1, <2>1, <2>2, <2>3, WatchedParts
  <1> QED
    BY <1>2, <1>3, <1>4, <1>5, <1>6, <1>7, <1>8, StepKinds DEF LoudStep, ConInv

(* No write of the operator reverts a user's edit of the connector or      *)
(* takes its deletion back, and none overwrites a user's edit of the       *)
(* Corefile but the restoration for a connector seen deleted.              *)
THEOREM ConKeepsUserIntent == OpSpec => ConnectorIntentKept
  <1>1. ConInv /\ [OpNext]_opVars =>
          (edits' = edits =>
             /\ con'.now.spec = con.now.spec
             /\ con.now.deleting => con'.now.deleting
             /\ core'.now.text # core.now.text => con.cache.deleting)
    BY ConIntentStep
  <1> QED
    BY <1>1, ConInvariance, PTL DEF OpSpec, ConnectorIntentKept

-----------------------------------------------------------------------------
(* What is served once stays served, for zones that keep their domain.     *)

(* Zones keep to domains of their own, in all they were and are written.   *)
OwnDomains(dom) == \A y, z \in Zone : y # z => dom[y] # dom[z]
ZonesKeepDomain(dom) == \A z \in Zone : DomainOf[zones[z].spec.hdr] = dom[z]

HeadersOwn(dom) == \A z \in Zone : \A v \in Versions(z) : DomainOf[v.spec.hdr] = dom[z]

(* So do the file the worker is about to write and those in config maps.   *)
CMVersions(n) == cmFeed[n] \cup {cmCache[n], cms[n]}
FilesOwn(dom) ==
  /\ Baking(zw) => DomainOf[zw.file.hdr] = dom[zw.key]
  /\ \A n \in CMName : \A v \in CMVersions(n) : v.exists => DomainOf[v.file.hdr] = dom[n[2]]

(* A checkpoint is set when a zone passes, and never taken back.           *)
Formed(v) == /\ v.status.passed \/ v.status.cond = "Active" => v.status.checkpoint
             /\ v.status.checkpoint => v.status.cond # "None"
CheckpointsStay ==
  \A z \in Zone :
    /\ \A v \in Versions(z) : Formed(v) /\ (zones[z].exists => v.exists)
    /\ \A v, w \in Versions(z) : v.status.checkpoint /\ v.rv <= w.rv => w.status.checkpoint

(* A zone in the Corefile has its checkpoint in the cache, and the worker  *)
(* has collected it.                                                       *)
BlocksGood(dom) ==
  \A z \in Zone : zones[z].exists /\ dom[z] \in BlockDomains(core.now)
                    => zoneCache[z].status.checkpoint
WorkerCollects(dom) ==
  cw.pc = "corefile" =>
    \A z \in Zone : zones[z].exists =>
      /\ dom[z] \in BlockDomains(core.now) => dom[z] \in cw.domains
      /\ dom[z] \in cw.domains => zoneCache[z].status.checkpoint

ServeInv(dom) ==
  /\ ConInv /\ CMsHeld /\ ZonesLag /\ CopyHeld
  /\ HeadersOwn(dom) /\ FilesOwn(dom) /\ CheckpointsStay
  /\ BlocksGood(dom) /\ WorkerCollects(dom)

(* A step of one of the two controllers, or one that tells a zone.         *)
ZonesStep == [Next]_vars \/ TellStep

LEMMA ZonesStepKinds ==
  ASSUME Inv, ZonesStep
  PROVE  ZoneStep
  BY ZoneSteps DEF ZonesStep, TellStep, Inv

LEMMA WatchesStep ==
  ASSUME Inv, CMsHeld, ZonesLag, CopyHeld, ZonesStep, Inv'
  PROVE  CMsHeld' /\ ZonesLag' /\ CopyHeld'
  <1>1. CMsHeld'
    BY CMSteps, CMsStepKeeps DEF ZonesStep, TellStep, CMsHeld
  <1>2. ZonesLag'
    BY ZonesStepKinds, ZonesLagStep
  <1>3. CASE [Next]_vars
    BY <1>1, <1>2, <1>3, CopyHeldStep
  <1>4. CASE TellStep
    <2>1. /\ zoneCache[zw.key].rv <= zoneCache'[zw.key].rv
          /\ zones'[zw.key] = zones[zw.key] \/ zones'[zw.key].rv = zones[zw.key].rv + 1
      BY <1>4, ZonesStepKinds, ZonesLagStep, WorkerFields DEF ZonesStep
    <2>2. /\ zw.copy.rv \in Nat /\ zones[zw.key].rv \in Nat
          /\ zoneCache[zw.key].rv \in Nat /\ zoneCache'[zw.key].rv \in Nat
      BY WorkerFields DEF ZoneObj, Inv, ZoneTypes
    <2> QED
      BY <1>1, <1>2, <1>4, <2>1, <2>2 DEF TellStep, CopyHeld
  <1> QED
    BY <1>3, <1>4 DEF ZonesStep

(* What a step makes of a zone.                                            *)
LEMMA ZoneFate ==
  ASSUME "createZone" \notin UserOp, Inv, ZonesLag, CopyHeld, CheckpointsStay, ZonesStep,
         NEW z \in Zone
  PROVE  /\ zones'[z].exists => zones[z].exists
         /\ zones[z].status.checkpoint => zones'[z].status.checkpoint
         /\ Formed(zones'[z])
  <1>1. Formed(zones[z]) /\ zones[z] \in ZoneObj
    BY DEF CheckpointsStay, Versions, Inv, ZoneTypes
  <1>2. PICK new : new = zones'[z]
    OBVIOUS
  <1>3. CASE new = zones[z]
    BY <1>1, <1>2, <1>3
  <1>4. CASE [Next]_vars /\ new # zones[z]
    <2>1. zones[z].exists /\ (Edited(z, new) \/ Reported(z, new))
      BY <1>2, <1>4, ZoneChanges DEF Changed, Written, Recreated
    <2>2. CASE Edited(z, new)
      BY <1>1, <1>2, <2>1, <2>2 DEF Edited, Formed
    <2>3. CASE Invalidates(z, new.status)
      <3>1. zw.copy = zones[z]
        BY <2>3, AcceptedCopy DEF Invalidates, At, HoldsCopy
      <3>2. zones[z].status \in ZoneStatus
        BY <1>1 DEF ZoneObj
      <3>3. /\ new.status.checkpoint = zones[z].status.checkpoint
            /\ ~new.status.passed /\ new.status.cond = "UpdateError"
        BY <2>3, <3>1, <3>2 DEF Invalidates, ZoneStatus
      <3> QED
        BY <1>2, <2>1, <3>3 DEF Formed
    <2>4. CASE Publishes(z, new.status)
      BY <1>2, <2>1, <2>4 DEF Publishes, Formed
    <2>5. CASE Notifies(z, new.status)
      BY <1>1, <1>2, <2>1, <2>5 DEF Notifies, Formed
    <2> QED
      BY <2>1, <2>2, <2>3, <2>4, <2>5 DEF Reported
  <1>5. CASE TellStep /\ new # zones[z]
    <2>1. PICK st \in ZoneStatus :
            /\ st.checkpoint = zones[z].status.checkpoint /\ st.prefix = zones[z].status.prefix
            /\ zones'[z] = zones[z] \/ Told(z, st)
      BY <1>5 DEF TellStep
    <2>2. [zones[z] EXCEPT !.status = st].status = st
      BY <1>1 DEF ZoneObj
    <2>3. zones'[z].status = st /\ Told(z, st)
      BY <1>2, <1>5, <2>1, <2>2 DEF Told, SameZone
    <2> QED
      BY <1>1, <2>1, <2>3 DEF Told, Formed
  <1> QED
    BY <1>3, <1>4, <1>5 DEF ZonesStep

LEMMA CheckpointsStayStep ==
  ASSUME "createZone" \notin UserOp, Inv, ZonesLag, CopyHeld, CheckpointsStay, ZonesStep, Inv',
         NEW z \in Zone
  PROVE  /\ \A v \in Versions(z)' : Formed(v) /\ (zones'[z].exists => v.exists)
         /\ \A v, w \in Versions(z)' : v.status.checkpoint /\ v.rv <= w.rv => w.status.checkpoint
         /\ zoneCache[z].status.checkpoint => zoneCache'[z].status.checkpoint
  <1> DEFINE old == Versions(z)
             new == Versions(z)'
  <1>1. /\ zones'[z].exists => zones[z].exists
        /\ zones[z].status.checkpoint => zones'[z].status.checkpoint
        /\ Formed(zones'[z])
    BY ZoneFate
  <1>2. /\ \A v \in old : Formed(v) /\ (zones[z].exists => v.exists)
        /\ \A v, w \in old : v.status.checkpoint /\ v.rv <= w.rv => w.status.checkpoint
    BY DEF CheckpointsStay
  <1>3. /\ new \subseteq old \cup {zones'[z]} /\ zoneCache[z].rv <= zoneCache'[z].rv
        /\ zones'[z] = zones[z] \/ zones'[z].rv = zones[z].rv + 1
    BY ZonesStepKinds, ZonesLagStep
  <1>4. \A v \in old : v.rv \in Nat /\ v.rv <= zones[z].rv
    BY DEF Versions, ZonesLag, Lags, Inv, ZoneTypes, ZoneObj
  <1>5. zones[z] \in old /\ zoneCache[z] \in old /\ zoneCache'[z] \in new /\ zones'[z].rv \in Nat
    BY DEF Versions, Inv, ZoneTypes, ZoneObj
  <1> HIDE DEF old, new
  <1>6. \A v \in new : Formed(v) /\ (zones'[z].exists => v.exists)
    BY <1>1, <1>2, <1>3
  <1>7. \A v \in old : v.status.checkpoint => zones'[z].status.checkpoint
    BY <1>1, <1>2, <1>4, <1>5
  <1>8. \A v, w \in new : v.status.checkpoint /\ v.rv <= w.rv => w.status.checkpoint
    <2> SUFFICES ASSUME NEW v \in new, NEW w \in new, v.status.checkpoint, v.rv <= w.rv
                 PROVE  w.status.checkpoint
      OBVIOUS
    <2>1. CASE w = zones'[z]
      BY <1>3, <1>7, <2>1
    <2>2. CASE w \in old /\ v \in old
      BY <1>2, <2>2
    <2>3. CASE w \in old /\ v = zones'[z] /\ v # zones[z]
      BY <1>3, <1>4, <1>5, <2>3
    <2> QED
      BY <1>3, <1>5, <2>1, <2>2, <2>3
  <1>9. zoneCache[z].status.checkpoint => zoneCache'[z].status.checkpoint
    BY <1>2, <1>3, <1>5, <1>7
  <1> QED
    BY <1>6, <1>8, <1>9 DEF new

LEMMA HeadersOwnStep ==
  ASSUME Inv, ZonesLag, ZonesStep, NEW dom, HeadersOwn(dom), ZonesKeepDomain(dom)'
  PROVE  HeadersOwn(dom)'
  <1> SUFFICES ASSUME NEW z \in Zone, NEW v \in Versions(z)' PROVE DomainOf[v.spec.hdr] = dom[z]
    BY DEF HeadersOwn
  <1>1. v \in Versions(z) \/ v = zones'[z]
    BY ZonesStepKinds, ZonesLagStep
  <1> QED
    BY <1>1 DEF HeadersOwn, ZonesKeepDomain

(* The file is baked with the header the cache shows, and what config maps *)
(* hold comes from the worker.                                             *)
LEMMA FilesOwnStep ==
  ASSUME Inv, CMsHeld, ZonesStep, Inv', NEW dom, HeadersOwn(dom), FilesOwn(dom)
  PROVE  FilesOwn(dom)'
  <1>1. Baking(zw') => DomainOf[zw'.file.hdr] = dom[zw'.key]
    <2>1. CASE [Next]_vars
      <3>1. CASE Reads
        <4>1. PICK z \in Zone : zw'.key = z /\ zw'.file = BakedFile(z)
          BY <3>1 DEF Reads
        <4>2. DomainOf[zoneCache[z].spec.hdr] = dom[z]
          BY DEF HeadersOwn, Versions
        <4> QED
          BY <4>1, <4>2 DEF BakedFile
      <3> QED
        BY <2>1, <3>1, Moving DEF WorkerMoves, Drops, Proceeds, HoldsCopy, Baking, At, FilesOwn
    <2>2. CASE TellStep
      BY <2>2 DEF TellStep, FilesOwn, Baking
    <2> QED
      BY <2>1, <2>2 DEF ZonesStep
  <1>2. ASSUME NEW n \in CMName, cms'[n].exists
        PROVE  DomainOf[cms'[n].file.hdr] = dom[n[2]]
    <2>1. cms[n].exists => DomainOf[cms[n].file.hdr] = dom[n[2]]
      BY DEF FilesOwn, CMVersions
    <2>2. CASE Baking(zw) /\ n = CMOf(zw.key, zw.copy.spec) /\ cms'[n].file = zw.file
      <3>1. n[2] = zw.key
        BY <2>2 DEF CMOf
      <3> QED
        BY <2>2, <3>1 DEF FilesOwn
    <2> QED
      BY <1>2, <2>1, <2>2, FileChanges DEF ZonesStep, TellStep
  <1>3. ASSUME NEW n \in CMName, NEW v \in CMVersions(n)', v.exists
        PROVE  DomainOf[v.file.hdr] = dom[n[2]]
    <2>1. CMTypes /\ CMTypes' /\ CMStep
      BY CMSteps DEF Inv, ZonesStep, TellStep, CMStep
    <2>2. Moves(cms[n], cms'[n], cmFeed[n], cmFeed'[n], cmCache[n], cmCache'[n])
      BY <2>1, CMMoves
    <2>3. CMVersions(n)' \subseteq CMVersions(n) \cup {cms'[n]}
      BY <2>2 DEF Moves, CMVersions
    <2> QED
      BY <1>2, <1>3, <2>3 DEF FilesOwn
  <1> QED
    BY <1>1, <1>3 DEF FilesOwn

(* A zone whose domain the worker collects is a good one.                  *)
LEMMA CollectsOwn ==
  ASSUME Inv, NEW dom, OwnDomains(dom), FilesOwn(dom), \A y \in GoodZones : Collected(y).exists
  PROVE  \A z \in Zone : dom[z] \in CollectedDomains <=> z \in GoodZones
  <1>1. ASSUME NEW y \in GoodZones
        PROVE  y \in Zone /\ DomainOf[Collected(y).file.hdr] = dom[y]
    <2>1. ZoneCM(y) \in CMName /\ ZoneCM(y)[2] = y /\ y \in Zone
      BY CollectedTypes
    <2> QED
      BY <2>1 DEF FilesOwn, CMVersions, Collected
  <1> QED
    BY <1>1 DEF CollectedDomains, OwnDomains

LEMMA GoodIsCheckpoint ==
  ASSUME CheckpointsStay, NEW z \in Zone, zones[z].exists
  PROVE  z \in GoodZones <=> zoneCache[z].status.checkpoint
  BY DEF CheckpointsStay, Formed, Versions, GoodZones

LEMMA WorkerCollectsStep ==
  ASSUME "createZone" \notin UserOp, NEW dom, OwnDomains(dom), ServeInv(dom), [OpNext]_opVars,
         ZonesStep, Inv'
  PROVE  WorkerCollects(dom)'
  <1> USE DEF ServeInv, ConInv
  <1> SUFFICES ASSUME cw'.pc = "corefile", NEW z \in Zone, zones'[z].exists
               PROVE  /\ dom[z] \in BlockDomains(core'.now) => dom[z] \in cw'.domains
                      /\ dom[z] \in cw'.domains => zoneCache'[z].status.checkpoint
    BY DEF WorkerCollects
  <1>1. zones[z].exists
    BY ZoneFate
  <1>2. zoneCache[z].status.checkpoint => zoneCache'[z].status.checkpoint
    BY CheckpointsStayStep
  <1>3. CASE cw' = cw
    <2>1. /\ dom[z] \in BlockDomains(core.now) => dom[z] \in cw.domains
          /\ dom[z] \in cw.domains => zoneCache[z].status.checkpoint
      BY <1>1, <1>3 DEF WorkerCollects
    <2> QED
      BY <1>2, <1>3, <2>1, BlockSteps
  <1>4. CASE ConAttach
    <2>1. cw'.domains = CollectedDomains /\ core' = core
          /\ \A y \in GoodZones : Collected(y).exists
      BY <1>4, AttachEffect
    <2>2. dom[z] \in CollectedDomains <=> zoneCache[z].status.checkpoint
      BY <1>1, <2>1, CollectsOwn, GoodIsCheckpoint
    <2>3. dom[z] \in BlockDomains(core.now) => zoneCache[z].status.checkpoint
      BY <1>1 DEF BlocksGood
    <2> QED
      BY <1>2, <2>1, <2>2, <2>3
  <1> QED
    BY <1>3, <1>4, CorefileEntered

LEMMA BlocksGoodStep ==
  ASSUME "createZone" \notin UserOp, NEW dom, ServeInv(dom), [OpNext]_opVars, ZonesStep, Inv'
  PROVE  BlocksGood(dom)'
  <1> USE DEF ServeInv, ConInv
  <1> SUFFICES ASSUME NEW z \in Zone, zones'[z].exists, dom[z] \in BlockDomains(core'.now)
               PROVE  zoneCache'[z].status.checkpoint
    BY DEF BlocksGood
  <1>1. zones[z].exists
    BY ZoneFate
  <1>2. zoneCache[z].status.checkpoint => zoneCache'[z].status.checkpoint
    BY CheckpointsStayStep
  <1>3. dom[z] \in BlockDomains(core.now) \/ (cw.pc = "corefile" /\ dom[z] \in cw.domains)
    BY BlockSteps
  <1> QED
    BY <1>1, <1>2, <1>3 DEF BlocksGood, WorkerCollects

LEMMA ConInvNext ==
  ASSUME ConInv, [OpNext]_opVars
  PROVE  ConInv'
  BY OpNextInv, OpNextTypes, StepKinds, QuietSafe, LoudSafe DEF ConInv

LEMMA ServeInvStep ==
  ASSUME "createZone" \notin UserOp, NEW dom, OwnDomains(dom), ServeInv(dom), [OpNext]_opVars,
         ZonesKeepDomain(dom)'
  PROVE  ServeInv(dom)'
  <1>1. ConInv' /\ Inv' /\ Inv /\ ZonesStep
    BY ConInvNext, OpKinds DEF ServeInv, ConInv, ZonesStep
  <1>2. CMsHeld' /\ ZonesLag' /\ CopyHeld'
    BY <1>1, WatchesStep DEF ServeInv
  <1>3. HeadersOwn(dom)' /\ FilesOwn(dom)'
    BY <1>1, HeadersOwnStep, FilesOwnStep DEF ServeInv
  <1>4. CheckpointsStay'
    BY <1>1, CheckpointsStayStep DEF ServeInv, CheckpointsStay
  <1>5. BlocksGood(dom)' /\ WorkerCollects(dom)'
    BY <1>1, BlocksGoodStep, WorkerCollectsStep
  <1> QED
    BY <1>1, <1>2, <1>3, <1>4, <1>5 DEF ServeInv

LEMMA InitServe ==
  ASSUME OpInit, NEW dom, ZonesKeepDomain(dom)
  PROVE  CMsHeld /\ ZonesLag /\ CopyHeld /\ HeadersOwn(dom) /\ FilesOwn(dom)
         /\ CheckpointsStay /\ BlocksGood(dom) /\ WorkerCollects(dom)
  <1>1. PICK s \in [Zone -> InitZoneSpec] : zones = [z \in Zone |-> NewZone(s[z])]
    BY DEF OpInit, Init
  <1>2. /\ \A z \in Zone : Versions(z) = {zones[z]} /\ Formed(zones[z])
        /\ \A n \in CMName : CMVersions(n) = {NoCM}
    BY <1>1 DEF OpInit, Init, Versions, CMVersions, NewZone, NoZoneStatus, Formed
  <1>3. ~NoCM.exists
    BY DEF NoCM
  <1>4. zw.pc = "idle" /\ cw.pc = "idle" /\ BlockDomains(core.now) = {}
    BY DEF OpInit, Init, Idle, ConInit, ConIdle, Synced, BlockDomains
  <1>5. CMsHeld /\ ZonesLag
    BY InitLags DEF OpInit
  <1> QED
    BY <1>2, <1>3, <1>4, <1>5 DEF CopyHeld, HoldsCopy, HeadersOwn, ZonesKeepDomain, FilesOwn,
       Baking, CheckpointsStay, BlocksGood, WorkerCollects

(* What a step takes out of the Corefile had no promise.                   *)
LEMMA PromiseKept ==
  ASSUME NEW dom, ServeInv(dom), [OpNext]_opVars, NEW z \in Zone,
         zones[z].exists, con.now.exists, ~con.now.deleting, dom[z] \in BlockDomains(core.now)
  PROVE  dom[z] \in BlockDomains(core'.now)
  <1>1. core.now.blocks # {}
    BY DEF BlockDomains
  <1>2. ~ConRestore
    BY <1>1 DEF ServeInv, ConInv, ConSafe, CacheTruthful, FinalizerGuards, ConOwns, ConRestore
  <1>3. cw.pc = "corefile" => dom[z] \in cw.domains
    BY DEF ServeInv, WorkerCollects
  <1> QED
    BY <1>2, <1>3, BlockSteps DEF ServeInv, ConInv

(* A zone that once passed stays in the Corefile: whatever fails or lags   *)
(* and however bad its spec becomes, the connector goes on to list the     *)
(* domain of its last good file.  It takes that zones keep domains of      *)
(* their own and that a zone's name is not used again.                     *)
THEOREM GoodZonesStayServed ==
  ASSUME NEW dom \in [Zone -> Domain], OwnDomains(dom), "createZone" \notin UserOp
  PROVE  OpSpec /\ []ZonesKeepDomain(dom) => KeepsServing
  <1>1. OpInit /\ ConInv /\ ZonesKeepDomain(dom) => ServeInv(dom)
    BY InitServe DEF ServeInv
  <1>2. ServeInv(dom) /\ [OpNext]_opVars /\ ZonesKeepDomain(dom)' => ServeInv(dom)'
    BY ServeInvStep
  <1>3. ServeInv(dom) /\ [OpNext]_opVars =>
          \A z \in Zone :
            LET cm == cms[<<zones[z].status.prefix, z>>]
                promised == /\ zones[z].exists /\ zones[z].status.checkpoint /\ cm.exists
                            /\ con.now.exists /\ ~con.now.deleting
                d == DomainOf[cm.file.hdr]
            IN  promised /\ d \in BlockDomains(core.now) => d \in BlockDomains(core'.now)
    <2> SUFFICES ASSUME ServeInv(dom), [OpNext]_opVars, NEW z \in Zone,
                        zones[z].exists, cms[<<zones[z].status.prefix, z>>].exists,
                        con.now.exists, ~con.now.deleting,
                        DomainOf[cms[<<zones[z].status.prefix, z>>].file.hdr]
                          \in BlockDomains(core.now)
                 PROVE  DomainOf[cms[<<zones[z].status.prefix, z>>].file.hdr]
                          \in BlockDomains(core'.now)
      OBVIOUS
    <2> DEFINE n == <<zones[z].status.prefix, z>>
    <2>1. n \in CMName /\ n[2] = z
      BY DEF ServeInv, ConInv, Inv, ZoneTypes, ZoneObj, ZoneStatus, CMName
    <2>2. DomainOf[cms[n].file.hdr] = dom[z]
      BY <2>1 DEF ServeInv, FilesOwn, CMVersions
    <2> QED
      BY <2>2, PromiseKept
  <1> QED
    BY <1>1, <1>2, <1>3, ConInvariance, PTL DEF OpSpec, KeepsServing

-----------------------------------------------------------------------------
(* At rest everything is served.                                           *)

Round == {"attach", "corefile", "updating", "wait", "notify", "active", "report"}
Middle == {"updating", "wait", "notify", "active"}

(* The cache shows the present generation of a connector that stays.       *)
Steady == con.now.exists /\ ~con.now.deleting /\ con.cache.gen = con.now.gen
Called == conQ \/ conDelay
Lists(serials, z) == \E e \in serials : e[1] = z

(* A generation stands for a spec and for the mark of deletion; a status   *)
(* is written for the generation it was computed from.                     *)
ConHistory ==
  /\ con.cache.gen <= con.now.gen
  /\ con.cache.gen = con.now.gen
       => /\ con.now.exists => con.cache.exists
          /\ con.cache.deleting = con.now.deleting
CopySeen == cw.pc \in Round /\ "worker" \in con.seen => cw.copy.gen = con.now.gen

(* The present spec is reported on, or will be.                            *)
SpecAttended ==
  Steady => \/ Called \/ cw.pc \in Round
            \/ con.now.status.cond = "Active" /\ con.now.status.ogen = con.now.gen

(* So is a zone with a checkpoint: the connector will look for it, or has  *)
(* found it and carries it along, or has it in the Corefile and in its     *)
(* status.                                                                 *)
ZonesAwaited(dom) ==
  \A z \in Zone : Steady /\ zones[z].exists /\ zoneCache[z].status.checkpoint =>
    \/ Called \/ cw.pc \in {"attach", "report"}
    \/ cw.pc = "corefile" /\ dom[z] \in cw.domains /\ Lists(cw.serials, z)
    \/ cw.pc \in Middle /\ dom[z] \in BlockDomains(core.now) /\ Lists(cw.serials, z)
    \/ /\ cw.pc \notin Round
       /\ dom[z] \in BlockDomains(core.now) /\ Lists(con.now.status.zones, z)

(* Blocks have mounts, mounts and volumes the name of their domain, and    *)
(* after a rollout the pods have the file of every mount.                  *)
BlocksMounted(dom) ==
  \A z \in Zone : zones[z].exists /\ dom[z] \in BlockDomains(core.now)
                    => \E m \in dep.now.mounts : m.key = dom[z]
NamesFit == \A v \in dep.now.vols \cup dep.now.mounts : v.name = VolumeOf[v.key]
PodsHaveFiles ==
  /\ dep.now.phase = "done" => \A m \in dep.now.mounts : \E f \in pods.files : f.key = m.key
  /\ \A f \in pods.files : ValidFile(f.file) /\ DomainOf[f.file.hdr] = f.key

(* What a step makes of the stored connector: a write of the operator      *)
(* keeps the generation, users raise it.                                   *)
KeepsGen == /\ con'.now.gen = con.now.gen /\ con'.now.deleting = con.now.deleting
            /\ con'.cache = con.cache
            /\ con'.now.exists => con.now.exists
Rewritten == /\ KeepsGen
             /\ "worker" \in con'.seen => "worker" \in con.seen
RaisesGen == con'.now.gen = con.now.gen + 1 /\ con'.cache = con.cache /\ con'.seen = {}

LEMMA UsersRaiseGen ==
  ASSUME ConTypeOK, CreateConnector \/ EditConnector \/ DeleteConnector
  PROVE  RaisesGen /\ UNCHANGED <<conQ, conDelay, cw>>
  <1>0. con \in Watched(ConObj) /\ con.now \in ConObj
    BY DEF ConTypeOK, Watched
  <1> DEFINE g == con.now.gen + 1
  <1>1. g \in Nat /\ g # con.now.gen
    BY <1>0 DEF ConObj
  <1>2. UNCHANGED <<conQ, conDelay, cw>>
    BY DEF CreateConnector, EditConnector, DeleteConnector, ConUser
  <1>3. CASE CreateConnector
    <2>1. PICK s \in ConSpec : con' = Put(con, [NewCon(s) EXCEPT !.gen = g])
      BY <1>3 DEF CreateConnector
    <2>2. [NewCon(s) EXCEPT !.gen = g].gen = g
      BY DEF NewCon
    <2> HIDE DEF g
    <2>3. con'.now.gen = g /\ con'.cache = con.cache /\ con'.seen = {}
      BY <1>0, <2>1, <2>2, WatchedParts
    <2> QED
      BY <1>2, <2>3 DEF g, RaisesGen
  <1>4. CASE EditConnector
    <2>1. PICK s \in ConSpec : con' = Put(con, [con.now EXCEPT !.spec = s, !.gen = @ + 1])
      BY <1>4 DEF EditConnector
    <2> DEFINE new == [con.now EXCEPT !.spec = s, !.gen = @ + 1]
    <2>2. new.gen = g
      <3>1. new = [con.now EXCEPT !.spec = s, !.gen = g]
        BY Zenon
      <3> HIDE DEF new, g
      <3> QED
        BY <1>0, <3>1 DEF ConObj
    <2>3. con' = Put(con, new)
      BY <2>1
    <2> HIDE DEF new, g
    <2>4. con'.now.gen = g /\ con'.cache = con.cache /\ con'.seen = {}
      BY <1>0, <2>2, <2>3, WatchedParts
    <2> QED
      BY <1>2, <2>4 DEF g, RaisesGen
  <1>5. CASE DeleteConnector
    <2> DEFINE new == DeletedCR(con.now)
    <2>1. new \in ConObj /\ new.gen = g
      BY <1>0, EditedCon, ChosenValues DEF DeletedCR, ConObj
    <2>2. PutCon(new)
      BY <1>5 DEF DeleteConnector
    <2> HIDE DEF new, g
    <2>3. con'.now.gen = g /\ con'.cache = con.cache /\ (con' = con \/ con'.seen = {})
      BY <1>0, <2>1, <2>2, PutConParts
    <2>4. con' # con
      BY <1>1, <2>3
    <2> QED
      BY <1>2, <2>3, <2>4 DEF g, RaisesGen
  <1> QED
    BY <1>3, <1>4, <1>5

LEMMA ConMoves ==
  ASSUME ConTypeOK, ConSafe, [OpNext]_opVars
  PROVE  \/ Rewritten
         \/ RaisesGen /\ UNCHANGED <<conQ, conDelay, cw>>
         \/ ConBackup \/ DeliverCon \/ RestartAll
  <1>1. con \in Watched(ConObj) /\ con.now \in ConObj /\ con.cache \in ConObj
    BY DEF ConTypeOK, Watched
  <1>2. UNCHANGED con => Rewritten
    BY DEF Rewritten, KeepsGen
  <1>3. ASSUME NEW s, StoreConStatus(s) PROVE Rewritten
    <2>1. /\ con'.now = [con.now EXCEPT !.status = s] /\ con'.cache = con.cache
          /\ "worker" \in con.seen
      BY <1>3 DEF StoreConStatus
    <2> QED
      BY <1>1, <2>1 DEF Rewritten, KeepsGen, ConObj
  <1>4. ASSUME NEW b \in BOOLEAN, "cache" \in con.seen, con.cache.exists,
               PutCon([con.now EXCEPT !.fin = b])
        PROVE  Rewritten
    <2> DEFINE new == [con.now EXCEPT !.fin = b]
    <2>1. new \in ConObj /\ new.gen = con.now.gen /\ new.deleting = con.now.deleting
      BY <1>1 DEF ConObj
    <2>2. con.now.exists
      BY <1>4 DEF ConSafe, CacheSeen
    <2> HIDE DEF new
    <2>3. PutCon(new)
      BY <1>4 DEF new
    <2> QED
      BY <1>1, <2>1, <2>2, <2>3, PutConParts DEF Rewritten, KeepsGen
  <1>5. CASE ConCtl
    <2>1. CASE \/ ConUpdating \/ ConActive \/ ConReport
      BY <1>2, <1>3, <2>1 DEF ConUpdating, ConActive, ConReport, WriteConStatus
    <2>2. CASE ConAddFinalizer \/ ConRelease
      BY <1>2, <1>4, <2>2 DEF ConAddFinalizer, ConRelease
    <2> QED
      BY <1>2, <1>5, <2>1, <2>2 DEF ConCtl, ConBegin, ConNotFound, ConRestore, ConWork, ConAttach,
         ConWriteCorefile, ConHealthy, ConTimeout, ConNotify, ConUnnotify, ConFault
  <1>6. CASE CreateConnector \/ EditConnector \/ DeleteConnector
    BY <1>6, UsersRaiseGen
  <1> QED
    BY <1>2, <1>5, <1>6 DEF OpNext, OpStep, opVars, conVars, DeliverZoneToAll,
       DeliverCore, DeliverDep, ConDelayExpires, CoreDNS, RolloutBegins, RolloutEnds, Reload,
       CoreDNSRest, EditCorefile

LEMMA ConHistoryStep ==
  ASSUME ConTypeOK, ConSafe, ConHistory, [OpNext]_opVars
  PROVE  ConHistory'
  <1>1. con \in Watched(ConObj) /\ con.now.gen \in Nat /\ con.cache.gen \in Nat
    BY DEF ConTypeOK, Watched, ConObj
  <1>2. CASE Rewritten
    BY <1>2 DEF Rewritten, KeepsGen, ConHistory
  <1>3. CASE RaisesGen
    BY <1>1, <1>3 DEF RaisesGen, ConHistory
  <1>4. CASE ConBackup \/ DeliverCon \/ RestartAll
    <2>1. con' \in {Read(con), CaughtUp(con), Synced(con.now)}
      BY <1>4 DEF ConBackup, DeliverCon, RestartAll
    <2>2. con'.now = con.now /\ con'.cache \in {con.cache, con.now}
      BY <1>1, <2>1, WatchedParts
    <2> QED
      BY <1>1, <2>2 DEF ConHistory
  <1> QED
    BY <1>2, <1>3, <1>4, ConMoves

(* The cache comes to show the present generation by an event.             *)
LEMMA SteadyBefore ==
  ASSUME ConTypeOK, ConSafe, ConHistory, [OpNext]_opVars, Steady', ~Called'
  PROVE  Steady /\ con'.now.gen = con.now.gen /\ ~RestartAll
  <1>1. con \in Watched(ConObj) /\ con.now.gen \in Nat /\ con.cache.gen \in Nat
    BY DEF ConTypeOK, Watched, ConObj
  <1>2. ~RestartAll
    <2>1. RestartAll => con' = Synced(con.now) /\ conQ' = con.now.exists
      BY DEF RestartAll
    <2> QED
      BY <1>1, <2>1, WatchedParts DEF Steady, Called
  <1>3. CASE Rewritten
    BY <1>2, <1>3 DEF Rewritten, KeepsGen, Steady
  <1>4. ~RaisesGen
    BY <1>1 DEF RaisesGen, ConHistory, Steady
  <1>5. CASE ConBackup
    <2>1. con' = Read(con)
      BY <1>5 DEF ConBackup
    <2>2. con'.now = con.now /\ con'.cache = con.cache
      BY <1>1, <2>1, WatchedParts
    <2> QED
      BY <1>2, <2>2 DEF Steady
  <1>6. CASE DeliverCon
    <2>1. con' = CaughtUp(con) /\ con.cache.gen = con.now.gen
      BY <1>6 DEF DeliverCon, Called, IsEvent
    <2>2. con'.now = con.now
      BY <1>1, <2>1, WatchedParts
    <2> QED
      BY <1>2, <2>1, <2>2 DEF Steady
  <1> QED
    BY <1>2, <1>4, <1>5, <1>6, <1>3, ConMoves

(* The zone controllers' own steps bring nothing into the zones' cache.    *)
LEMMA PublishingKeepsCache == Publishing => zoneCache' = zoneCache
  <1>1. RecordCtl \/ ZoneCtl => zoneCache' = zoneCache
    BY DEF RecordCtl, RecordReconcile, RecordNotFound, RecordAddFinalizer, RecordDelete,
       RecordValidate, RecordRest, clusterVars,
       ZoneCtl, ZoneBegin, ZoneNotFound, ZoneAddFinalizer, ZoneStartDelete, ZoneStartUpdate,
       ZoneWork, ZoneInvalid, ZoneCreateCM, ZoneUpdateCM, ZonePublish, ZoneAddCMFinalizer,
       ZoneRemoveFinalizer, ZoneJoin, ZoneUnjoin, ZoneFault, ZoneRest, cacheVars
  <1>2. Environment => zoneCache' = zoneCache
    BY DEF Environment, UserStep, CreateRecord, EditRecord, DeleteRecord, CreateZone, EditZone,
       LabelZone, DeleteZone, DeleteCM, User, ConnectorNotify, GarbageCollect, Tick, cacheVars,
       clusterVars
  <1> QED
    BY <1>1, <1>2 DEF Publishing, Operator, Delay, DelayExpires, DeliverRecord, DeliverCM, cacheVars,
       clusterVars

(* What becomes of a round of the worker while the connector is steady and *)
(* nothing calls it: it starts, has collected, writes the Corefile,        *)
(* carries on, or ends with its report; or the step is none of the round.  *)
Starts == cw'.pc \in {"attach", "report"}
Collects == ConAttach /\ cw'.pc = "corefile"
WritesBlocks == /\ ~Called /\ cw.pc = "corefile" /\ cw'.pc = "updating"
                /\ cw'.serials = cw.serials /\ BlockDomains(core'.now) = cw.domains
CarriesOn == /\ ~Called /\ cw.pc \in Middle /\ cw'.pc \in Middle
             /\ cw'.serials = cw.serials /\ core' = core
Finishes == /\ ~Called /\ cw.pc = "active" /\ cw'.pc = "idle" /\ core' = core
            /\ con'.now.status = [cond |-> "Active", ogen |-> con.now.gen, zones |-> cw.serials]
Idles == /\ ~Called
         /\ cw' = cw \/ (cw.pc \notin Round /\ cw'.pc \notin Round)
         /\ con'.now.status = con.now.status
         /\ BlockDomains(core'.now) = BlockDomains(core.now)
RoundStep == Starts \/ Collects \/ WritesBlocks \/ CarriesOn \/ Finishes \/ Idles

LEMMA WorkRound ==
  ASSUME ConTypeOK, CopySeen, ConWork, ~Called'
  PROVE  RoundStep
  <1>1. /\ con \in Watched(ConObj) /\ con.now \in ConObj /\ core \in Watched(Corefile)
        /\ cw \in ConWorker
    BY DEF ConTypeOK, Watched
  <1>2. conDelay' = conDelay /\ ~ConFail
    BY DEF ConWork, ConAttach, ConWriteCorefile, ConUpdating, ConHealthy, ConTimeout, ConActive,
       ConReport, ConRelease, ConNotify, ConUnnotify, ConRest, Called, ConFail
  <1>3. (\A w : ConGoes(w) => cw' = w /\ ~Called) /\ \A c : Reporting(c).pc = "report"
    BY <1>1, <1>2 DEF ConGoes, Called, Reporting, ConWorker
  <1> USE DEF RoundStep
  <1>4. CASE ConAttach
    <2> DEFINE next == [cw EXCEPT !.pc = "corefile", !.todo = GoodZones,
                                  !.domains = CollectedDomains, !.serials = CollectedSerials]
    <2>1. next.pc = "corefile"
      BY <1>1 DEF ConWorker
    <2>2. (\E c : cw' = Reporting(c)) \/ cw' = next
      BY <1>2, <1>4 DEF ConAttach, Applied, ConGoes, Collected, CollectedDomains, CollectedSerials
    <2> HIDE DEF next
    <2> QED
      BY <1>3, <1>4, <2>1, <2>2 DEF Starts, Collects
  <1>5. CASE ConWriteCorefile
    <2> DEFINE next == [cw EXCEPT !.pc = "updating"]
               new == GeneratedCorefile(cw.text, cw.domains, cw.copy.spec.plugins)
    <2>1. next.pc = "updating" /\ next.serials = cw.serials
      BY <1>1 DEF ConWorker
    <2>2. (\E c : cw' = Reporting(c)) \/ (cw' = next /\ core' = Put(core, new) /\ ~Called)
      BY <1>3, <1>5 DEF ConWriteCorefile, Applied, ConGoes
    <2>3. BlockDomains(new) = cw.domains
      BY GeneratedDomains
    <2> HIDE DEF next, new
    <2>4. cw.pc = "corefile" /\ Put(core, new).now = new
      BY <1>1, <1>5, WatchedParts DEF ConWriteCorefile, ConAt
    <2> QED
      BY <1>3, <2>1, <2>2, <2>3, <2>4 DEF Starts, WritesBlocks
  <1>6. CASE ConUpdating \/ ConHealthy
    <2> DEFINE waits == [cw EXCEPT !.pc = "wait", !.status = WithCond("Updating")]
               moves(pc) == [cw EXCEPT !.pc = pc]
    <2>1. /\ waits.pc = "wait" /\ waits.serials = cw.serials
          /\ \A pc : moves(pc).pc = pc /\ moves(pc).serials = cw.serials
      BY <1>1 DEF ConWorker
    <2>2. /\ ConUpdating => ConGoes(waits) /\ cw.pc = "updating" /\ core' = core
          /\ ConHealthy => /\ ConGoes(moves(IF cw.todo = {} THEN "active" ELSE "notify"))
                           /\ cw.pc = "wait" /\ core' = core
      BY <1>2 DEF ConUpdating, ConHealthy, WriteConStatus, ConAt
    <2> HIDE DEF waits, moves
    <2> QED
      BY <1>3, <1>6, <2>1, <2>2 DEF Middle, CarriesOn
  <1>7. CASE ConTimeout \/ ConReport
    BY <1>2, <1>3, <1>7 DEF ConTimeout, ConReport, WriteConStatus, Starts
  <1>8. CASE ConActive
    <2>1. StoreConStatus([cond |-> "Active", ogen |-> cw.copy.gen, zones |-> cw.serials])
      BY <1>2, <1>8 DEF ConActive
    <2>2. cw' = ConIdle /\ ~Called /\ cw.pc = "active" /\ core' = core
      BY <1>2, <1>3, <1>8 DEF ConActive, ConAt
    <2>3. cw.copy.gen = con.now.gen
      BY <2>1, <2>2 DEF StoreConStatus, CopySeen, Round
    <2>4. con'.now.status = [cond |-> "Active", ogen |-> con.now.gen, zones |-> cw.serials]
      BY <1>1, <2>1, <2>3 DEF StoreConStatus, ConObj
    <2> QED
      BY <2>2, <2>4 DEF ConIdle, Finishes
  <1>9. CASE ConRelease
    <2> DEFINE new == [con.now EXCEPT !.fin = FALSE]
               tells == [ConIdle EXCEPT !.pc = "unnotify", !.todo = GoodZones]
    <2>1. ConIdle.pc = "idle" /\ tells.pc = "unnotify"
      BY DEF ConIdle
    <2>2. /\ cw.pc = "release" /\ core' = core /\ (PutCon(new) \/ UNCHANGED con)
          /\ ConGoes(IF GoodZones = {} THEN ConIdle ELSE tells)
      BY <1>2, <1>9 DEF ConRelease, ConAt
    <2>3. new \in ConObj /\ new.status = con.now.status
      BY <1>1 DEF ConObj
    <2> HIDE DEF new, tells
    <2>4. con'.now.status = con.now.status
      BY <1>1, <2>2, <2>3, PutConParts
    <2> QED
      BY <1>3, <2>1, <2>2, <2>4 DEF Round, Idles
  <1>10. ASSUME NEW z \in Zone, ConNotify(z) \/ ConUnnotify(z)
         PROVE  RoundStep
    <2> DEFINE tells == [cw EXCEPT !.todo = @ \ {z}, !.pc = IF cw.todo = {z} THEN "active" ELSE @]
               untells == [cw EXCEPT !.todo = @ \ {z}]
    <2>1. /\ tells.pc \in {"active", cw.pc} /\ tells.serials = cw.serials
          /\ untells.pc = cw.pc /\ ConIdle.pc = "idle"
      BY <1>1 DEF ConWorker, ConIdle
    <2>2. /\ UNCHANGED <<con, core>>
          /\ ConNotify(z) => ConGoes(tells) /\ cw.pc = "notify"
          /\ ConUnnotify(z) => /\ ConGoes(IF cw.todo = {z} THEN ConIdle ELSE untells)
                               /\ cw.pc = "unnotify"
      BY <1>2, <1>10 DEF ConNotify, ConUnnotify, ConTellZone, ConAt
    <2> HIDE DEF tells, untells
    <2>3. CASE ConNotify(z)
      BY <1>3, <2>1, <2>2, <2>3 DEF Middle, CarriesOn
    <2>4. CASE ConUnnotify(z)
      BY <1>3, <2>1, <2>2, <2>4 DEF Round, Idles
    <2> QED
      BY <1>10, <2>3, <2>4
  <1> QED
    BY <1>4, <1>5, <1>6, <1>7, <1>8, <1>9, <1>10 DEF ConWork

LEMMA OpRound ==
  ASSUME ConTypeOK, ConSafe, ConHistory, CopySeen, [OpNext]_opVars, Steady', ~Called'
  PROVE  RoundStep /\ zoneCache' = zoneCache
  <1>1. /\ con \in Watched(ConObj) /\ core \in Watched(Corefile) /\ core.now \in Corefile
        /\ cw \in ConWorker /\ con.now.gen \in Nat
    BY DEF ConTypeOK, Watched, ConObj
  <1>2. Steady /\ con'.now.gen = con.now.gen /\ ~RestartAll
    BY SteadyBefore
  <1>3. con.cache.exists /\ ~con.cache.deleting
    BY <1>2 DEF Steady, ConHistory
  <1>4. ~ConDelayExpires /\ \A z \in Zone : ~DeliverZoneToAll(z)
    BY DEF ConDelayExpires, DeliverZoneToAll, Called
  <1>5. ~(CreateConnector \/ EditConnector \/ DeleteConnector)
    BY <1>1, <1>2, UsersRaiseGen DEF RaisesGen
  <1>6. zoneCache' = zoneCache
    <2>1. ConCtl \/ EditCorefile => zoneCache' = zoneCache
      BY DEF ConCtl, ConBegin, ConNotFound, ConAddFinalizer, ConBackup, ConRestore, ConWork,
         ConAttach, ConWriteCorefile, ConUpdating, ConHealthy, ConTimeout, ConActive, ConReport,
         ConRelease, ConNotify, ConUnnotify, ConFault, ConRest, cacheVars,
         EditCorefile, ConUser, User
    <2> QED
      BY <1>2, <1>4, <1>5, <2>1, PublishingKeepsCache DEF OpNext, OpStep, opVars, vars, DeliverCon,
         DeliverCore, DeliverDep, CoreDNS, RolloutBegins, RolloutEnds, Reload, CoreDNSRest, pubVars,
         clusterVars, cacheVars
  <1>7. ASSUME UNCHANGED <<conQ, conDelay, cw>>, con'.now = con.now,
               core'.now.blocks = core.now.blocks
        PROVE  RoundStep
    BY <1>7 DEF RoundStep, Idles, Called, BlockDomains
  <1>8. CASE ConCtl
    <2>1. ~ConNotFound /\ ~ConAddFinalizer /\ ~ConRestore
      BY <1>3 DEF ConNotFound, ConAddFinalizer, ConRestore, Called, ConTakes
    <2>2. CASE ConBackup
      <3>1. cw'.pc \in {"attach", "report"}
        BY <2>2, BackupEffect
      <3> QED
        BY <1>6, <3>1 DEF RoundStep, Starts
    <2>3. CASE ConFault
      <3>1. \A c : Reporting(c).pc = "report"
        BY <1>1 DEF Reporting, ConWorker
      <3> QED
        BY <1>6, <2>3, <3>1 DEF ConFault, Called, RoundStep, Starts
    <2> QED
      BY <1>6, <1>8, <2>1, <2>2, <2>3, WorkRound DEF ConCtl, ConBegin
  <1>9. CASE DeliverCon \/ DeliverCore \/ EditCorefile
    <2>1. CASE DeliverCon
      <3>1. con' = CaughtUp(con) /\ UNCHANGED <<core, conDelay, cw>> /\ (conQ => conQ')
        BY <2>1 DEF DeliverCon
      <3>2. ~conQ /\ ~conQ' /\ conQ \in BOOLEAN /\ conQ' \in BOOLEAN
        BY <2>1, <3>1 DEF Called, ConTypeOK, DeliverCon, IsEvent
      <3> QED
        BY <1>1, <1>6, <3>1, <3>2, WatchedParts DEF RoundStep, Idles, Called
    <2>2. CASE DeliverCore
      <3>1. core' \in {core, CaughtUp(core)} /\ UNCHANGED <<con, conQ, conDelay, cw>>
        BY <2>2 DEF DeliverCore
      <3>2. core'.now = core.now
        BY <1>1, <3>1, WatchedParts
      <3> QED
        BY <1>6, <1>7, <3>1, <3>2
    <2>3. CASE EditCorefile
      <3>1. PICK t \in CoreText : core' = Put(core, [core.now EXCEPT !.text = t])
        BY <2>3 DEF EditCorefile
      <3>2. core'.now.blocks = core.now.blocks
        BY <1>1, <3>1, WatchedParts DEF Corefile
      <3> QED
        BY <1>6, <1>7, <2>3, <3>2 DEF EditCorefile, ConUser
    <2> QED
      BY <1>9, <2>1, <2>2, <2>3
  <1> QED
    BY <1>2, <1>4, <1>5, <1>6, <1>7, <1>8, <1>9 DEF OpNext, OpStep, opVars, conVars, DeliverDep,
       CoreDNS, RolloutBegins, RolloutEnds, Reload, CoreDNSRest

(* A round goes on with the copy of the connector it began with.           *)
LEMMA CopyKept ==
  ASSUME ConTypeOK, [OpNext]_opVars, cw'.pc \in Round
  PROVE  ConBackup \/ (cw.pc \in Round /\ cw'.copy = cw.copy)
  <1> USE DEF Round
  <1>1. cw \in ConWorker
    BY DEF ConTypeOK
  <1>2. /\ \A c : Reporting(c).copy = cw.copy
        /\ ConFail => cw'.pc = "idle"
        /\ ConIdle.pc = "idle"
    BY <1>1, FailQuiet DEF Reporting, ConWorker, ConIdle
  <1>3. CASE ConNotFound \/ ConAddFinalizer
    BY <1>3 DEF ConNotFound, ConAddFinalizer
  <1>4. ~ConRestore /\ ~RestartAll
    <2>1. [ConIdle EXCEPT !.pc = "release", !.copy = con.cache].pc = "release"
      BY DEF ConIdle
    <2> QED
      BY <1>2, <2>1 DEF ConRestore, RestartAll
  <1>5. CASE ConAttach
    <2> DEFINE next == [cw EXCEPT !.pc = "corefile", !.todo = GoodZones,
                                  !.domains = CollectedDomains, !.serials = CollectedSerials]
    <2>1. next.copy = cw.copy
      BY <1>1 DEF ConWorker
    <2>2. cw.pc = "attach" /\ ((\E c : cw' = Reporting(c)) \/ cw' = next)
      BY <1>2, <1>5 DEF ConAttach, ConAt, Applied, ConGoes, Collected, CollectedDomains,
         CollectedSerials
    <2> HIDE DEF next
    <2> QED
      BY <1>2, <2>1, <2>2
  <1>6. CASE ConWriteCorefile \/ ConUpdating \/ ConHealthy \/ ConTimeout
    <2>1. /\ [cw EXCEPT !.pc = "wait", !.status = WithCond("Updating")].copy = cw.copy
          /\ \A pc : [cw EXCEPT !.pc = pc].copy = cw.copy
      BY <1>1 DEF ConWorker
    <2> QED
      BY <1>2, <1>6, <2>1 DEF ConWriteCorefile, ConUpdating, ConHealthy, ConTimeout, ConAt, Applied,
         ConGoes, WriteConStatus
  <1>7. ~ConActive /\ ~ConReport
    BY <1>2 DEF ConActive, ConReport, WriteConStatus, ConGoes
  <1>8. ~ConRelease
    <2>1. [ConIdle EXCEPT !.pc = "unnotify", !.todo = GoodZones].pc = "unnotify"
      BY DEF ConIdle
    <2> QED
      BY <1>2, <2>1 DEF ConRelease, ConGoes
  <1>9. CASE \E z \in Zone : ConNotify(z) \/ ConUnnotify(z)
    <2>1. PICK z \in Zone : ConNotify(z) \/ ConUnnotify(z)
      BY <1>9
    <2> DEFINE tells == [cw EXCEPT !.todo = @ \ {z}, !.pc = IF cw.todo = {z} THEN "active" ELSE @]
               untells == [cw EXCEPT !.todo = @ \ {z}]
    <2>2. tells.copy = cw.copy /\ untells.pc = cw.pc
      BY <1>1 DEF ConWorker
    <2>3. /\ ConNotify(z) => (ConGoes(tells) \/ ConFail) /\ cw.pc = "notify"
          /\ ConUnnotify(z) => /\ ConGoes(IF cw.todo = {z} THEN ConIdle ELSE untells) \/ ConFail
                               /\ cw.pc = "unnotify"
      BY DEF ConNotify, ConUnnotify, ConTellZone, ConAt
    <2> HIDE DEF tells, untells
    <2> QED
      BY <1>2, <2>1, <2>2, <2>3 DEF ConGoes
  <1>10. CASE ConFault
    BY <1>2, <1>10 DEF ConFault
  <1> QED
    BY <1>3, <1>4, <1>5, <1>6, <1>7, <1>8, <1>9, <1>10 DEF OpNext, OpStep, opVars, conVars, ConCtl,
       ConBegin, ConWork, DeliverZoneToAll, DeliverCon, DeliverCore, DeliverDep, ConDelayExpires,
       CoreDNS, RolloutBegins, RolloutEnds, Reload, CoreDNSRest, CreateConnector, EditConnector,
       DeleteConnector, EditCorefile, ConUser

LEMMA CopySeenStep ==
  ASSUME ConTypeOK, ConSafe, CopySeen, [OpNext]_opVars
  PROVE  CopySeen'
  <1> SUFFICES ASSUME cw'.pc \in Round, "worker" \in con'.seen
               PROVE  cw'.copy.gen = con'.now.gen
    BY DEF CopySeen
  <1>1. con \in Watched(ConObj)
    BY DEF ConTypeOK
  <1>2. CASE ConBackup
    <2>1. cw'.copy = con.cache /\ con' = Read(con)
      BY <1>2, BackupEffect
    <2>2. con'.now = con.now /\ "cache" \in con.seen
      BY <1>1, <2>1, WatchedParts
    <2> QED
      BY <2>1, <2>2 DEF ConSafe, CacheSeen
  <1>3. CASE cw.pc \in Round /\ cw'.copy = cw.copy /\ ~ConBackup
    <2>1. CASE Rewritten
      BY <1>3, <2>1 DEF Rewritten, KeepsGen, CopySeen
    <2>2. CASE DeliverCon
      <3>1. con' = CaughtUp(con)
        BY <2>2 DEF DeliverCon
      <3>2. con'.now = con.now /\ con'.seen = con.seen \cup {"cache"}
        BY <1>1, <3>1, WatchedParts
      <3> QED
        BY <1>3, <3>2 DEF CopySeen
    <2>3. ~RestartAll
      <3>1. ConIdle.pc \notin Round
        BY DEF ConIdle, Round
      <3> QED
        BY <3>1 DEF RestartAll
    <2>4. ~RaisesGen
      BY DEF RaisesGen
    <2> QED
      BY <1>3, <2>1, <2>2, <2>3, <2>4, ConMoves
  <1> QED
    BY <1>2, <1>3, CopyKept

LEMMA SpecAttendedStep ==
  ASSUME ConTypeOK, ConSafe, ConHistory, CopySeen, SpecAttended, [OpNext]_opVars
  PROVE  SpecAttended'
  <1> SUFFICES ASSUME Steady', ~Called', cw'.pc \notin Round
               PROVE  /\ con'.now.status.cond = "Active"
                      /\ con'.now.status.ogen = con'.now.gen
    BY DEF SpecAttended
  <1>1. Steady /\ con'.now.gen = con.now.gen /\ RoundStep
    BY SteadyBefore, OpRound
  <1>2. Finishes \/ Idles
    BY <1>1 DEF RoundStep, Starts, Collects, WritesBlocks, CarriesOn, Round, Middle
  <1>3. CASE Finishes
    <2>1. con'.now.status = [cond |-> "Active", ogen |-> con.now.gen, zones |-> cw.serials]
      BY <1>3 DEF Finishes
    <2> QED
      BY <1>1, <2>1
  <1>4. CASE Idles
    BY <1>1, <1>4 DEF Idles, SpecAttended
  <1> QED
    BY <1>2, <1>3, <1>4

LEMMA ZonesAwaitedStep ==
  ASSUME "createZone" \notin UserOp, NEW dom, OwnDomains(dom), ServeInv(dom), ConHistory, CopySeen,
         ZonesAwaited(dom), [OpNext]_opVars, ZonesStep
  PROVE  ZonesAwaited(dom)'
  <1> SUFFICES ASSUME NEW z \in Zone, Steady', zones'[z].exists, zoneCache'[z].status.checkpoint,
                      ~Called', cw'.pc \notin {"attach", "report"}
               PROVE  \/ /\ cw'.pc = "corefile" /\ dom[z] \in cw'.domains
                         /\ Lists(cw'.serials, z)
                      \/ /\ cw'.pc \in Middle /\ dom[z] \in BlockDomains(core'.now)
                         /\ Lists(cw'.serials, z)
                      \/ /\ cw'.pc \notin Round
                         /\ dom[z] \in BlockDomains(core'.now)
                         /\ Lists(con'.now.status.zones, z)
    BY DEF ZonesAwaited
  <1> USE DEF ServeInv, ConInv
  <1>1. Steady /\ RoundStep /\ zoneCache' = zoneCache
    BY SteadyBefore, OpRound
  <1>2. zones[z].exists /\ zoneCache[z].status.checkpoint
    BY <1>1, ZoneFate
  <1>3. CASE Collects
    <2>1. /\ cw'.domains = CollectedDomains /\ cw'.serials = CollectedSerials
          /\ \A y \in GoodZones : Collected(y).exists
      BY <1>3, AttachEffect DEF Collects
    <2>2. z \in GoodZones
      BY <1>2, GoodIsCheckpoint
    <2>3. dom[z] \in CollectedDomains
      BY <2>1, <2>2, CollectsOwn
    <2>4. <<z, Collected(z).serial>> \in CollectedSerials /\ <<z, Collected(z).serial>>[1] = z
      BY <2>2 DEF CollectedSerials
    <2>5. Lists(CollectedSerials, z)
      BY <2>4, Zenon DEF Lists
    <2> QED
      BY <1>3, <2>1, <2>3, <2>5 DEF Collects
  <1>4. CASE ~Called
    <2>1. \/ cw.pc \in {"attach", "report"}
          \/ cw.pc = "corefile" /\ dom[z] \in cw.domains /\ Lists(cw.serials, z)
          \/ cw.pc \in Middle /\ dom[z] \in BlockDomains(core.now) /\ Lists(cw.serials, z)
          \/ /\ cw.pc \notin Round
             /\ dom[z] \in BlockDomains(core.now) /\ Lists(con.now.status.zones, z)
      BY <1>1, <1>2, <1>4 DEF ZonesAwaited
    <2>2. CASE WritesBlocks
      BY <2>1, <2>2 DEF WritesBlocks, Middle, Round
    <2>3. CASE CarriesOn
      BY <2>1, <2>3 DEF CarriesOn, Middle, Round
    <2>4. CASE Finishes
      <3>1. con'.now.status = [cond |-> "Active", ogen |-> con.now.gen, zones |-> cw.serials]
        BY <2>4 DEF Finishes
      <3>2. con'.now.status.zones = cw.serials
        BY <3>1
      <3> QED
        BY <2>1, <2>4, <3>2 DEF Finishes, Middle, Round
    <2>5. CASE Idles
      BY <2>1, <2>5 DEF Idles, Middle, Round
    <2> QED
      BY <1>1, <1>3, <2>2, <2>3, <2>4, <2>5 DEF RoundStep, Starts
  <1> QED
    BY <1>1, <1>3, <1>4 DEF RoundStep, Starts, WritesBlocks, CarriesOn, Finishes, Idles

(* If the worker does not come to the Corefile the workload is as it was.  *)
LEMMA NotAttached ==
  ASSUME ConTypeOK, ConAttach, cw'.pc # "corefile"
  PROVE  UNCHANGED dep
  <1>1. [cw EXCEPT !.pc = "corefile", !.todo = GoodZones,
                   !.domains = CollectedDomains, !.serials = CollectedSerials].pc = "corefile"
    BY DEF ConTypeOK, ConWorker
  <1> QED
    BY <1>1 DEF ConAttach, Applied, ConGoes, Collected, CollectedDomains, CollectedSerials

LEMMA BlocksMountedStep ==
  ASSUME "createZone" \notin UserOp, OwnVolume(Domain), NEW dom, OwnDomains(dom), ServeInv(dom),
         MountsReady, BlocksMounted(dom), [OpNext]_opVars, ZonesStep
  PROVE  BlocksMounted(dom)'
  <1> SUFFICES ASSUME NEW z \in Zone, zones'[z].exists, dom[z] \in BlockDomains(core'.now)
               PROVE  \E m \in dep'.now.mounts : m.key = dom[z]
    BY DEF BlocksMounted
  <1> USE DEF ServeInv, ConInv
  <1>1. zones[z].exists
    BY ZoneFate
  <1>2. CASE ConAttach /\ cw'.pc = "corefile"
    <2>1. /\ cw'.domains = CollectedDomains /\ UNCHANGED core
          /\ \A y \in GoodZones : Collected(y).exists
      BY <1>2, AttachEffect
    <2>2. z \in GoodZones
      BY <1>1, <2>1, GoodIsCheckpoint DEF BlocksGood
    <2>3. dom[z] \in cw'.domains
      BY <2>1, <2>2, CollectsOwn
    <2>4. MountsReady'
      BY <1>2, AttachedReady
    <2> QED
      BY <1>2, <2>3, <2>4 DEF MountsReady
  <1>3. CASE dep'.now.mounts = dep.now.mounts
    BY <1>1, <1>3, BlockSteps DEF BlocksMounted, MountsReady
  <1> QED
    BY <1>2, <1>3, MountSteps, NotAttached

LEMMA NamesFitStep ==
  ASSUME ConTypeOK, NamesFit, [OpNext]_opVars
  PROVE  NamesFit'
  <1>1. CASE ConAttach /\ cw'.pc = "corefile"
    <2> DEFINE desired == DesiredVolumes(CollectedFiles)
               vols == AttachedVolumes(dep.now.vols, desired)
               mounts == AttachedMounts(dep.now.mounts, desired)
    <2>1. dep'.now.vols = vols /\ dep'.now.mounts = mounts
      BY <1>1, AttachEffect
    <2>2. \A v \in desired : v.name = VolumeOf[v.key]
      BY DesiredIsFile
    <2> HIDE DEF desired
    <2>3. (\A v \in vols : v.name = VolumeOf[v.key]) /\ (\A m \in mounts : m.name = VolumeOf[m.key])
      BY <2>2 DEF NamesFit, AttachedVolumes, AttachedMounts
    <2> QED
      BY <2>1, <2>3 DEF NamesFit
  <1> QED
    BY <1>1, MountSteps, NotAttached DEF NamesFit

LEMMA PodsHaveFilesStep ==
  ASSUME OwnVolume(Domain), Inv, ConTypeOK, NamesFit, PodsHaveFiles, [OpNext]_opVars
  PROVE  PodsHaveFiles'
  <1>1. dep \in Watched(Workload) /\ dep.now \in Workload
    BY DEF ConTypeOK, Watched
  <1>2. CASE RolloutEnds
    <2>1. pods'.files = MountedFiles /\ CanStart /\ UNCHANGED cms
      BY <1>2 DEF RolloutEnds, CoreDNSRest, pubVars, clusterVars, apiVars
    <2>2. dep'.now.mounts = dep.now.mounts
      <3>1. [dep.now EXCEPT !.phase = "done"].mounts = dep.now.mounts
        BY <1>1 DEF Workload
      <3> QED
        BY <1>1, <1>2, <3>1, WatchedParts DEF RolloutEnds
    <2> DEFINE vol(m) == CHOOSE w \in dep.now.vols : w.name = m.name
               run(m) == [key |-> m.key, file |-> cms[vol(m).cm].file, serial |-> cms[vol(m).cm].serial]
    <2>3. MountedFiles = {run(m) : m \in dep.now.mounts}
      BY DEF MountedFiles
    <2>4. ASSUME NEW m \in dep.now.mounts
          PROVE  ValidFile(run(m).file) /\ DomainOf[run(m).file.hdr] = m.key
      <3>1. PICK v \in dep.now.vols : v.name = m.name /\ v.key = m.key
        BY <2>1 DEF CanStart
      <3>2. PICK w : w = vol(m)
        OBVIOUS
      <3>3. w \in dep.now.vols /\ w.name = m.name
        BY <3>1, <3>2
      <3>4. w.key = m.key
        <4>1. VolumeOf[w.key] = VolumeOf[m.key] /\ w.key \in Domain /\ m.key \in Domain
          BY <1>1, <3>3 DEF NamesFit, Workload, Volume, Mount
        <4> QED
          BY <4>1 DEF OwnVolume
      <3>5. w.cm \in CMName /\ DomainOf[cms[w.cm].file.hdr] = w.key
        BY <1>1, <2>1, <3>3 DEF CanStart, Workload, Volume
      <3>6. ValidFile(cms[w.cm].file)
        BY <3>5 DEF Inv, FilesValid
      <3>7. run(m).file = cms[w.cm].file
        BY <3>2
      <3> QED
        BY <3>4, <3>5, <3>6, <3>7
    <2>5. \A m : run(m).key = m.key
      OBVIOUS
    <2> HIDE DEF run
    <2> QED
      BY <2>1, <2>2, <2>3, <2>4, <2>5 DEF PodsHaveFiles
  <1>3. CASE ~RolloutEnds
    <2>1. pods'.files = pods.files
      <3>1. CASE Reload
        BY <3>1 DEF Reload, ConTypeOK
      <3> QED
        BY <1>3, <3>1 DEF OpNext, OpStep, opVars, conVars, ConCtl, ConBegin, ConNotFound,
           ConAddFinalizer, ConBackup, ConRestore, ConWork, ConAttach, ConWriteCorefile, ConUpdating,
           ConHealthy, ConTimeout, ConActive, ConReport, ConRelease, ConNotify, ConUnnotify, ConFault,
           ConRest, DeliverZoneToAll, DeliverCon, DeliverCore, DeliverDep, ConDelayExpires, CoreDNS,
           RolloutBegins, CreateConnector, EditConnector, DeleteConnector, EditCorefile, ConUser,
           RestartAll
    <2>2. dep'.now.phase = "done" => dep.now.phase = "done" /\ dep'.now.mounts = dep.now.mounts
      <3>1. CASE ConAttach
        BY <3>1, AttachEffect, NotAttached
      <3>2. CASE RolloutBegins
        <4>1. [dep.now EXCEPT !.phase = "rolling"].phase = "rolling"
          BY <1>1 DEF Workload
        <4> QED
          BY <1>1, <3>2, <4>1, WatchedParts DEF RolloutBegins
      <3>3. CASE DeliverDep \/ RestartAll
        <4>1. dep' = CaughtUp(dep) \/ dep' = Synced(dep.now)
          BY <3>3 DEF DeliverDep, RestartAll
        <4> QED
          BY <1>1, <4>1, WatchedParts
      <3> QED
        BY <1>3, <3>1, <3>2, <3>3 DEF OpNext, OpStep, opVars, conVars, ConCtl, ConBegin, ConNotFound,
           ConAddFinalizer, ConBackup, ConRestore, ConWork, ConWriteCorefile, ConUpdating,
           ConHealthy, ConTimeout, ConActive, ConReport, ConRelease, ConNotify, ConUnnotify, ConFault,
           DeliverZoneToAll, DeliverCon, DeliverCore, ConDelayExpires, CoreDNS, Reload,
           CoreDNSRest, CreateConnector, EditConnector, DeleteConnector, EditCorefile, ConUser
    <2> QED
      BY <2>1, <2>2 DEF PodsHaveFiles
  <1> QED
    BY <1>2, <1>3

RestInv(dom) ==
  /\ ServeInv(dom) /\ MountsReady
  /\ \A z \in Zone : Gapless(zones[z], zoneFeed[z], zoneCache[z])
  /\ ConHistory /\ CopySeen /\ SpecAttended /\ ZonesAwaited(dom)
  /\ BlocksMounted(dom) /\ NamesFit /\ PodsHaveFiles

LEMMA RestInvStep ==
  ASSUME "createZone" \notin UserOp, OwnVolume(Domain), NEW dom, OwnDomains(dom), RestInv(dom),
         [OpNext]_opVars, ZonesKeepDomain(dom)'
  PROVE  RestInv(dom)'
  <1> USE DEF RestInv
  <1>1. ConTypeOK /\ ConSafe /\ Inv /\ ServeInv(dom)' /\ Inv' /\ ZonesStep
    BY ServeInvStep, OpKinds DEF ServeInv, ConInv, ZonesStep
  <1>2. ASSUME NEW z \in Zone PROVE Gapless(zones'[z], zoneFeed'[z], zoneCache'[z])
    <2>1. /\ zones[z] \in ZoneObj /\ zones'[z] \in ZoneObj
          /\ zoneFeed[z] \in SUBSET ZoneObj /\ zoneFeed'[z] \in SUBSET ZoneObj
          /\ zoneCache[z] \in ZoneObj /\ zoneCache'[z] \in ZoneObj
          /\ \A v \in ZoneObj : v.rv \in Nat
      BY <1>1 DEF Inv, ZoneTypes, ZoneObj
    <2>2. Moves(zones[z], zones'[z], zoneFeed[z], zoneFeed'[z], zoneCache[z], zoneCache'[z])
      BY <1>1, ZonesStepKinds, ZoneMoves DEF Inv
    <2> QED
      BY <2>1, <2>2, MovesKeepGapless
  <1>3. MountsReady' /\ ConHistory' /\ CopySeen' /\ SpecAttended'
    BY <1>1, MountsReadyStep, ConHistoryStep, CopySeenStep, SpecAttendedStep
  <1>4. ZonesAwaited(dom)' /\ BlocksMounted(dom)'
    BY <1>1, ZonesAwaitedStep, BlocksMountedStep
  <1>5. NamesFit' /\ PodsHaveFiles'
    BY <1>1, NamesFitStep, PodsHaveFilesStep
  <1> QED
    BY <1>1, <1>2, <1>3, <1>4, <1>5

LEMMA InitRest ==
  ASSUME OpInit, NEW dom, ConInv, ZonesKeepDomain(dom)
  PROVE  RestInv(dom)
  <1>1. ServeInv(dom)
    BY InitServe DEF ServeInv
  <1>2. ASSUME NEW z \in Zone PROVE Gapless(zones[z], zoneFeed[z], zoneCache[z])
    <2>1. zoneCache[z] = zones[z] /\ zoneFeed[z] = {} /\ zones[z].rv \in Nat
      BY DEF OpInit, Init, ConInv, Inv, ZoneTypes, ZoneObj
    <2> QED
      BY <2>1 DEF Gapless, Lags
  <1>3. PICK s \in InitConSpec : con = Synced(NewCon(s))
    BY DEF OpInit, ConInit
  <1>4. con.cache = con.now /\ conQ /\ cw.pc = "idle" /\ core.now.blocks = {}
    BY <1>3 DEF OpInit, ConInit, ConIdle, Synced
  <1>5. ConHistory
    <2>1. con.now.gen \in Nat
      BY DEF ConInv, ConTypeOK, Watched, ConObj
    <2> QED
      BY <1>4, <2>1 DEF ConHistory
  <1>6. MountsReady /\ CopySeen /\ SpecAttended /\ ZonesAwaited(dom)
    BY <1>4 DEF MountsReady, CopySeen, SpecAttended, ZonesAwaited, Called, Round
  <1>7. BlocksMounted(dom)
    BY <1>4 DEF BlocksMounted, BlockDomains
  <1>8. NamesFit /\ PodsHaveFiles
    BY DEF OpInit, ConInit, Synced, NamesFit, PodsHaveFiles
  <1> QED
    BY <1>1, <1>2, <1>5, <1>6, <1>7, <1>8 DEF RestInv

LEMMA RestServes ==
  ASSUME NEW dom, RestInv(dom)
  PROVE  RestingServesAll
  <1> SUFFICES ASSUME ConAtRest, ~conDelay, \A z \in Zone : zoneFeed[z] = {},
                      con.now.exists, ~con.now.deleting
               PROVE  /\ con.now.status.cond = "Active" /\ con.now.status.ogen = con.now.gen
                      /\ \A z \in Zone :
                           LET cm == cms[<<zones[z].status.prefix, z>>]
                               d == DomainOf[cm.file.hdr]
                           IN  zones[z].exists /\ zones[z].status.checkpoint /\ cm.exists
                                 => /\ d \in BlockDomains(pods.core)
                                    /\ \E f \in pods.files : f.key = d /\ DomainOf[f.file.hdr] = d
                                                            /\ ValidFile(f.file)
                                    /\ \E e \in con.now.status.zones : e[1] = z
    BY DEF RestingServesAll
  <1> USE DEF RestInv, ServeInv, ConInv
  <1>1. Steady /\ ~Called /\ cw.pc \notin Round
    BY DEF ConAtRest, ConSafe, CacheSeen, Steady, Called, ConIdle, Round
  <1>2. con.now.status.cond = "Active" /\ con.now.status.ogen = con.now.gen
    BY <1>1 DEF SpecAttended
  <1>3. ASSUME NEW z \in Zone, zones[z].exists, zones[z].status.checkpoint,
               cms[<<zones[z].status.prefix, z>>].exists
        PROVE  LET d == DomainOf[cms[<<zones[z].status.prefix, z>>].file.hdr]
               IN  /\ d \in BlockDomains(pods.core)
                   /\ \E f \in pods.files : f.key = d /\ DomainOf[f.file.hdr] = d
                                           /\ ValidFile(f.file)
                   /\ \E e \in con.now.status.zones : e[1] = z
    <2> DEFINE n == <<zones[z].status.prefix, z>>
    <2>1. n \in CMName /\ n[2] = z
      BY DEF Inv, ZoneTypes, ZoneObj, ZoneStatus, CMName
    <2>2. DomainOf[cms[n].file.hdr] = dom[z]
      BY <1>3, <2>1 DEF FilesOwn, CMVersions
    <2>3. zoneCache[z] = zones[z]
      BY DEF Gapless
    <2>4. dom[z] \in BlockDomains(core.now) /\ Lists(con.now.status.zones, z)
      BY <1>1, <1>3, <2>3 DEF ZonesAwaited, Round, Middle
    <2>5. PICK m \in dep.now.mounts : m.key = dom[z]
      BY <1>3, <2>4 DEF BlocksMounted
    <2>6. PICK f \in pods.files : f.key = m.key
      BY DEF ConAtRest, PodsHaveFiles
    <2>7. ValidFile(f.file) /\ DomainOf[f.file.hdr] = f.key
      BY DEF PodsHaveFiles
    <2> QED
      BY <2>2, <2>4, <2>5, <2>6, <2>7 DEF Lists, ConAtRest
  <1> QED
    BY <1>2, <1>3

(* A connector that has come to rest, whatever failed, restarted or was    *)
(* edited on the way, has served all: it is Active for its present spec,   *)
(* and of every zone that ever passed CoreDNS has the domain in its        *)
(* Corefile and a valid file.  No event was lost and no refused update     *)
(* forgotten.                                                              *)
THEOREM RestIsServed ==
  ASSUME NEW dom \in [Zone -> Domain], OwnDomains(dom), OwnVolume(Domain), "createZone" \notin UserOp
  PROVE  OpSpec /\ []ZonesKeepDomain(dom) => []RestingServesAll
  <1>1. OpInit /\ ConInv /\ ZonesKeepDomain(dom) => RestInv(dom)
    BY InitRest
  <1>2. RestInv(dom) /\ [OpNext]_opVars /\ ZonesKeepDomain(dom)' => RestInv(dom)'
    BY RestInvStep
  <1>3. RestInv(dom) => RestingServesAll
    BY RestServes
  <1> QED
    BY <1>1, <1>2, <1>3, ConInvariance, PTL DEF OpSpec

-----------------------------------------------------------------------------
(* The connector keeps custody of the Corefile.                            *)

(* A connector under deletion that is still there has its finalizer.       *)
MarkedOwned == con.now.exists /\ con.now.deleting => con.now.fin

(* Most steps change nothing of it.                                        *)
LEMMA QuietCustody ==
  ASSUME QuietStep, MarkedOwned
  PROVE  MarkedOwned' /\ UNCHANGED Custody!custody
  BY DEF QuietStep, SameCon, MarkedOwned, Custody!custody

(* The operator writes the connector to take the Corefile and to let go.   *)
LEMMA ConWriteCustody ==
  ASSUME ConTypeOK, ConTypeOK', ConSafe, MarkedOwned, ConAddFinalizer \/ ConRelease
  PROVE  MarkedOwned' /\ [Custody!Next]_(Custody!custody)
  <1>1. con \in Watched(ConObj) /\ con.now \in ConObj /\ con'.now \in ConObj
    BY DEF ConTypeOK, Watched
  <1>2. UNCHANGED con /\ UNCHANGED <<core, dep, bkp>> => UNCHANGED Custody!custody /\ MarkedOwned'
    BY DEF MarkedOwned, Custody!custody
  <1>3. UNCHANGED <<core, dep, bkp>>
    BY DEF ConAddFinalizer, ConRelease
  <1>4. CASE ConAddFinalizer
    <2> DEFINE new == [con.now EXCEPT !.fin = TRUE]
    <2>1. new \in ConObj /\ new.fin /\ new.deleting = con.now.deleting
      BY <1>1 DEF ConObj
    <2>2. con.cache = con.now /\ con.now.exists /\ ~con.now.fin /\ PutCon(new)
      BY <1>4 DEF ConAddFinalizer, ConSafe, CacheSeen
    <2> HIDE DEF new
    <2>3. con'.now.exists /\ con'.now.fin /\ con'.now.deleting = con.now.deleting
      BY <1>1, <2>1, <2>2, PutConParts
    <2>4. Custody!Take
      BY <1>3, <2>2, <2>3 DEF Custody!Take, MarkedOwned
    <2> QED
      BY <2>3, <2>4 DEF Custody!Next, MarkedOwned
  <1>5. CASE ConRelease /\ ~UNCHANGED con
    <2> DEFINE new == [con.now EXCEPT !.fin = FALSE]
    <2>1. new \in ConObj /\ ~new.fin /\ new.deleting = con.now.deleting
      BY <1>1 DEF ConObj
    <2>2. con.cache = con.now /\ con.now.exists /\ PutCon(new)
      BY <1>5 DEF ConRelease, ConSafe, CacheSeen
    <2>3. cw.pc = "release"
      BY <1>5 DEF ConRelease, ConAt
    <2>4. con.now.fin
      <3> SUFFICES ASSUME ~con.now.fin PROVE FALSE
        OBVIOUS
      <3>1. ~con.now.deleting
        BY <2>2 DEF MarkedOwned
      <3>2. [new EXCEPT !.exists = ~(new.deleting /\ ~new.fin)] = con.now
        BY <1>1, <2>2, <3>1 DEF ConObj
      <3> QED
        BY <1>5, <2>2, <3>2 DEF PutCon
    <2>5. con.now.deleting /\ core.now.blocks = {}
      BY <2>2, <2>3, <2>4 DEF ConSafe, ReleaseReady, ConOwns
    <2> HIDE DEF new
    <2>6. ~con'.now.exists
      BY <1>1, <2>1, <2>2, <2>5, PutConParts
    <2>7. Custody!Release
      BY <1>3, <2>2, <2>4, <2>5, <2>6 DEF Custody!Release
    <2> QED
      BY <2>6, <2>7 DEF Custody!Next, MarkedOwned
  <1> QED
    BY <1>2, <1>3, <1>4, <1>5

(* Users write the connector to delete it.                                 *)
LEMMA UserCustody ==
  ASSUME ConTypeOK, MarkedOwned,
         CreateConnector \/ EditConnector \/ DeleteConnector \/ EditCorefile
  PROVE  MarkedOwned' /\ [Custody!Next]_(Custody!custody)
  <1>1. /\ con \in Watched(ConObj) /\ con.now \in ConObj /\ core \in Watched(Corefile)
        /\ con.now.fin \in BOOLEAN /\ con.now.deleting \in BOOLEAN
    BY DEF ConTypeOK, Watched, ConObj
  <1>2. UNCHANGED <<dep, bkp>>
    BY DEF CreateConnector, EditConnector, DeleteConnector, EditCorefile, ConUser
  <1>3. CASE CreateConnector
    <2>1. PICK s \in ConSpec : con' = Put(con, [NewCon(s) EXCEPT !.gen = con.now.gen + 1])
      BY <1>3 DEF CreateConnector
    <2> DEFINE new == [NewCon(s) EXCEPT !.gen = con.now.gen + 1]
    <2>2. ~new.fin /\ ~new.deleting
      BY DEF NewCon
    <2>3. con' = Put(con, new)
      BY <2>1, Zenon
    <2> HIDE DEF new
    <2>4. ~con'.now.fin /\ ~con'.now.deleting
      BY <1>1, <2>2, <2>3, WatchedParts
    <2>5. ~con.now.exists /\ UNCHANGED core
      BY <1>3 DEF CreateConnector
    <2> QED
      BY <1>2, <2>4, <2>5 DEF Custody!custody, MarkedOwned
  <1>4. CASE EditConnector
    <2>1. PICK s \in ConSpec : con' = Put(con, [con.now EXCEPT !.spec = s, !.gen = @ + 1])
      BY <1>4 DEF EditConnector
    <2> DEFINE g == con.now.gen + 1
               new == [con.now EXCEPT !.spec = s, !.gen = g]
    <2>2. con' = Put(con, new)
      BY <2>1, Zenon
    <2> HIDE DEF g
    <2>3. /\ new.exists = con.now.exists /\ new.fin = con.now.fin
          /\ new.deleting = con.now.deleting
      BY <1>1 DEF ConObj
    <2> HIDE DEF new
    <2>4. /\ con'.now.exists = con.now.exists /\ con'.now.fin = con.now.fin
          /\ con'.now.deleting = con.now.deleting
      BY <1>1, <2>2, <2>3, WatchedParts
    <2>5. UNCHANGED core
      BY <1>4 DEF EditConnector
    <2> QED
      BY <1>2, <2>4, <2>5 DEF Custody!custody, MarkedOwned
  <1>5. CASE DeleteConnector
    <2> DEFINE new == DeletedCR(con.now)
    <2>1. new \in ConObj
      BY <1>1, EditedCon, ChosenValues DEF DeletedCR
    <2>2. new.deleting /\ new.fin = con.now.fin
      <3> DEFINE g == con.now.gen + 1
                 obj == [con.now EXCEPT !.deleting = TRUE, !.gen = g]
      <3>1. new = obj
        BY Zenon DEF DeletedCR
      <3> HIDE DEF g, new
      <3>2. obj.deleting /\ obj.fin = con.now.fin
        BY <1>1 DEF ConObj
      <3> QED
        BY <3>1, <3>2
    <2>3. con.now.exists /\ ~con.now.deleting /\ UNCHANGED core /\ PutCon(new)
      BY <1>5 DEF DeleteConnector
    <2> HIDE DEF new
    <2>4. con'.now.exists = con.now.fin /\ con'.now.fin = con.now.fin /\ con'.now.deleting
      BY <1>1, <2>1, <2>2, <2>3, PutConParts
    <2>5. CASE con.now.fin
      <3>1. Custody!Mark
        BY <1>2, <2>3, <2>4, <2>5 DEF Custody!Mark
      <3> QED
        BY <2>4, <2>5, <3>1 DEF Custody!Next, MarkedOwned
    <2>6. CASE ~con.now.fin
      BY <1>2, <2>3, <2>4, <2>6 DEF Custody!custody, MarkedOwned
    <2> QED
      BY <1>1, <2>5, <2>6
  <1>6. CASE EditCorefile
    <2>1. PICK t \in CoreText : core' = Put(core, [core.now EXCEPT !.text = t])
      BY <1>6 DEF EditCorefile
    <2>2. core'.now = [core.now EXCEPT !.text = t]
      BY <1>1, <2>1, WatchedParts
    <2>3. UNCHANGED con
      BY <1>6 DEF EditCorefile
    <2>4. Custody!Edit
      BY <1>2, <2>2, <2>3 DEF Custody!Edit
    <2> QED
      BY <2>3, <2>4 DEF Custody!Next, MarkedOwned
  <1> QED
    BY <1>3, <1>4, <1>5, <1>6

(* The worker saves the Corefile, gives the pods their files, writes the   *)
(* blocks and puts back what was saved.                                    *)
LEMMA CoreCustody ==
  ASSUME ConTypeOK, ConTypeOK', ConSafe, MarkedOwned, MountsReady,
         ConBackup \/ ConRestore \/ ConAttach \/ ConWriteCorefile
  PROVE  MarkedOwned' /\ [Custody!Next]_(Custody!custody)
  <1>1. /\ con \in Watched(ConObj) /\ core \in Watched(Corefile) /\ dep \in Watched(Workload)
        /\ core.now \in Corefile /\ core.cache \in Corefile /\ dep'.now \in Workload
        /\ bkp \in Backup /\ cw \in ConWorker
    BY DEF ConTypeOK, Watched
  <1>2. con'.now = con.now
    BY <1>1, WatchedParts DEF ConBackup, ConRestore, ConAttach, ConWriteCorefile
  <1>3. MarkedOwned'
    BY <1>2 DEF MarkedOwned
  <1>4. CASE ConBackup
    <2>1. con.cache.exists /\ con.cache.fin /\ ~con.cache.deleting /\ UNCHANGED dep
      BY <1>4, BackupEffect DEF ConBackup
    <2>2. ConOwns
      BY <2>1 DEF ConSafe, CacheTruthful
    <2>3. core' = core \/ core' = Read(core)
      BY <1>4, BackupEffect
    <2>4. core'.now = core.now
      BY <1>1, <2>3, WatchedParts
    <2>5. bkp' = bkp \/ (~bkp.exists /\ bkp'.exists /\ bkp'.file = core.cache)
      BY <1>4, BackupEffect
    <2>6. CASE bkp' = bkp
      BY <1>2, <1>3, <2>1, <2>4, <2>6 DEF Custody!custody
    <2>7. CASE ~bkp.exists /\ bkp'.exists /\ bkp'.file = core.cache
      <3>1. core.now.blocks = {} /\ core.cache.blocks = {}
        BY <2>7 DEF ConSafe, BackupOriginal
      <3>2. core.cache \in Custody!Plain
        BY <1>1, <3>1 DEF Corefile, Custody!Plain
      <3>3. Custody!Save
        BY <1>2, <2>1, <2>2, <2>4, <2>7, <3>1, <3>2 DEF Custody!Save, ConOwns
      <3> QED
        BY <1>3, <3>3 DEF Custody!Next
    <2> QED
      BY <2>5, <2>6, <2>7
  <1>5. CASE ConRestore
    <2>1. /\ con.cache.exists /\ con.cache.fin /\ con.cache.deleting /\ bkp.exists
          /\ core' = IF core.now = bkp.file THEN core ELSE Put(core, bkp.file)
          /\ UNCHANGED <<dep, bkp>>
      BY <1>5 DEF ConRestore, CanRestore, ConSafe, BackupOriginal
    <2>2. core'.now = bkp.file
      BY <1>1, <2>1, WatchedParts
    <2>3. ConOwns => con.now.deleting
      BY <2>1 DEF ConSafe, CacheTruthful
    <2>4. Custody!Restore
      BY <1>2, <2>1, <2>2, <2>3 DEF Custody!Restore, ConOwns
    <2> QED
      BY <1>3, <2>4 DEF Custody!Next
  <1>6. CASE ConAttach
    <2>1. UNCHANGED <<con, core, bkp>> /\ cw.pc = "attach"
      BY <1>6 DEF ConAttach, ConAt
    <2>2. ConOwns
      BY <2>1 DEF ConSafe, FinalizerGuards, Writing
    <2>3. \A m \in dep'.now.mounts : m.key \in Domain
      BY <1>1 DEF Workload, Mount
    <2>4. Custody!Mount
      BY <2>1, <2>2, <2>3 DEF Custody!Mount, ConOwns
    <2> QED
      BY <1>3, <2>4 DEF Custody!Next
  <1>7. CASE ConWriteCorefile
    <2>1. UNCHANGED <<con, dep, bkp>> /\ cw.pc = "corefile"
      BY <1>7 DEF ConWriteCorefile, ConAt
    <2>2. ConOwns /\ bkp.exists
      BY <2>1 DEF ConSafe, FinalizerGuards, BackupOriginal, Writing
    <2>3. CASE core' = core
      BY <1>3, <2>1, <2>3 DEF Custody!custody
    <2>4. CASE core' # core
      <3> DEFINE p == cw.copy.spec.plugins
                 ds == cw.domains
      <3>1. "worker" \in core.seen /\ core' = Put(core, GeneratedCorefile(cw.text, ds, p))
        BY <1>7, <2>4 DEF ConWriteCorefile
      <3>2. cw.text = core.now.text
        BY <2>1, <3>1 DEF ConSafe, TextRead, Writing
      <3>3. p \in Plugins
        BY <1>1 DEF ConWorker, ConObj, ConSpec
      <3>4. \A d \in ds : \E m \in dep.now.mounts : m.key = d
        BY <2>1 DEF MountsReady
      <3>5. ds \in SUBSET {m.key : m \in dep.now.mounts}
        BY <3>4
      <3> HIDE DEF p, ds
      <3>6. core'.now = GeneratedCorefile(core.now.text, ds, p)
        BY <1>1, <3>1, <3>2, WatchedParts
      <3>7. core'.now = [core.now EXCEPT !.blocks = ds \X {p}]
        <4> DEFINE bs == ds \X {p}
        <4>1. core'.now = [text |-> core.now.text, blocks |-> bs]
          BY <3>6 DEF GeneratedCorefile
        <4> HIDE DEF bs
        <4>2. core'.now = [core.now EXCEPT !.blocks = bs]
          BY <1>1, <4>1 DEF Corefile
        <4> QED
          BY <4>2 DEF bs
      <3>8. \E bs \in SUBSET {m.key : m \in dep.now.mounts}, q \in Plugins :
              core'.now = [core.now EXCEPT !.blocks = bs \X {q}]
        <4> USE <3>3, <3>5
        <4> WITNESS ds \in SUBSET {m.key : m \in dep.now.mounts}, p \in Plugins
        <4> QED
          BY <3>7
      <3>9. (IF bkp.exists THEN {bkp.file} ELSE {}) # {}
        BY <2>2
      <3>10. Custody!Serve
        BY <2>1, <2>2, <3>8, <3>9 DEF Custody!Serve, ConOwns
      <3> QED
        BY <1>3, <3>10 DEF Custody!Next
    <2> QED
      BY <2>3, <2>4
  <1> QED
    BY <1>4, <1>5, <1>6, <1>7

(* Each step of the operator, of its users and of CoreDNS is a step of     *)
(* Custody, or changes nothing there.                                      *)
LEMMA CustodyStep ==
  ASSUME ConInv, ConInv', MarkedOwned, MountsReady, [OpNext]_opVars
  PROVE  MarkedOwned' /\ [Custody!Next]_(Custody!custody)
  <1>1. ConTypeOK /\ ConTypeOK' /\ ConSafe
    BY DEF ConInv
  <1>2. CASE DeliverCon \/ DeliverCore \/ RestartAll
    <2>1. /\ con \in Watched(ConObj) /\ core \in Watched(Corefile) /\ dep \in Watched(Workload)
          /\ bkp'.exists = bkp.exists /\ bkp'.file = bkp.file
      BY <1>1, <1>2, SameBackup DEF ConTypeOK, DeliverCon
    <2>2. /\ con' \in {con, CaughtUp(con), Synced(con.now)}
          /\ core' \in {core, CaughtUp(core), Synced(core.now)}
          /\ dep' \in {dep, Synced(dep.now)}
      BY <1>2 DEF DeliverCon, DeliverCore, RestartAll
    <2>3. con'.now = con.now /\ core'.now = core.now /\ dep'.now = dep.now
      BY <2>1, <2>2, WatchedParts
    <2> QED
      BY <2>1, <2>3 DEF MarkedOwned, Custody!custody
  <1> QED
    BY <1>1, <1>2, StepKinds, QuietCustody, ConWriteCustody, UserCustody, CoreCustody DEF LoudStep

(* The operator implements CorefileCustody, whatever users do, however the *)
(* caches lag and wherever writes are refused or the operator stops: it    *)
(* saves before it serves, serves only what is mounted, never writes the   *)
(* owner's text, and lets go of the Corefile it has put back.              *)
THEOREM CustodyKept ==
  ASSUME OwnVolume(Domain)
  PROVE  OpSpec => ImplementsCustody
  <1>1. OpInit /\ ConInv => Custody!Init /\ MarkedOwned /\ MountsReady
    <2> SUFFICES ASSUME OpInit, ConInv PROVE Custody!Init /\ MarkedOwned /\ MountsReady
      OBVIOUS
    <2>1. PICK s \in InitConSpec : con = Synced(NewCon(s))
      BY DEF OpInit, ConInit
    <2>2. ~con.now.fin /\ ~con.now.deleting
      BY <2>1 DEF Synced, NewCon
    <2>3. /\ core.now.blocks = {} /\ core.now \in Corefile
          /\ ~bkp.exists /\ dep.now.mounts = {} /\ cw.pc = "idle"
      BY DEF OpInit, ConInit, Synced, ConIdle, ConInv, ConTypeOK, Watched
    <2>4. core.now \in Custody!Plain
      BY <2>3 DEF Corefile, Custody!Plain
    <2> QED
      BY <2>2, <2>3, <2>4 DEF Custody!Init, MarkedOwned, MountsReady
  <1>2. ConInv /\ MountsReady /\ [OpNext]_opVars => MountsReady'
    BY MountsReadyStep DEF ConInv
  <1>3. ConInv /\ ConInv' /\ MarkedOwned /\ MountsReady /\ [OpNext]_opVars
          => MarkedOwned' /\ [Custody!Next]_(Custody!custody)
    BY CustodyStep
  <1> QED
    BY <1>1, <1>2, <1>3, ConInvariance, PTL DEF OpSpec, ImplementsCustody, Custody!Spec

-----------------------------------------------------------------------------
(* No mark of the connector's deletion is overlooked.                      *)

(* A mark that the cache shows is in the queue or in the worker's hands.   *)
MarkAttended ==
  con.now.exists /\ con.now.deleting /\ con.cache.gen = con.now.gen
    => con.cache.fin /\ (conQ \/ cw.pc = "release")

(* The finalizer of a connector under deletion is kept while it exists.    *)
LEMMA MarkedOwnedStep ==
  ASSUME ConTypeOK, ConTypeOK', ConSafe, MarkedOwned, [OpNext]_opVars
  PROVE  MarkedOwned'
  <1>1. con \in Watched(ConObj)
    BY DEF ConTypeOK
  <1>2. CASE ConBackup \/ DeliverCon \/ RestartAll
    <2>1. con' \in {Read(con), CaughtUp(con), Synced(con.now)}
      BY <1>2 DEF ConBackup, DeliverCon, RestartAll
    <2>2. con'.now = con.now
      BY <1>1, <2>1, WatchedParts
    <2> QED
      BY <2>2 DEF MarkedOwned
  <1>3. CASE UNCHANGED con
    BY <1>3 DEF MarkedOwned
  <1>4. UNCHANGED con \/ ~(ConRestore \/ ConAttach \/ ConWriteCorefile \/ DeliverCore)
    BY DEF ConRestore, ConAttach, ConWriteCorefile, DeliverCore
  <1> QED
    BY <1>2, <1>3, <1>4, StepKinds, QuietCustody, ConWriteCustody, UserCustody DEF LoudStep

(* The cache comes to show a mark by an event, and a restart queues it.    *)
LEMMA MarkBefore ==
  ASSUME ConTypeOK, ConSafe, ConHistory, [OpNext]_opVars,
         con'.now.exists, con'.now.deleting, con'.cache.gen = con'.now.gen, ~conQ'
  PROVE  /\ con.now.exists /\ con.now.deleting /\ con.cache.gen = con.now.gen
         /\ con.cache.exists /\ con.cache.deleting /\ ~RestartAll
  <1>1. con \in Watched(ConObj) /\ con.now.gen \in Nat /\ con.cache.gen \in Nat
    BY DEF ConTypeOK, Watched, ConObj
  <1>2. ~RestartAll
    <2>1. RestartAll => con' = Synced(con.now) /\ conQ' = con.now.exists
      BY DEF RestartAll
    <2> QED
      BY <1>1, <2>1, WatchedParts
  <1>3. ~RaisesGen
    BY <1>1 DEF RaisesGen, ConHistory
  <1>4. con.now.exists /\ con.now.deleting /\ con.cache.gen = con.now.gen
    <2>1. CASE Rewritten
      BY <2>1 DEF Rewritten, KeepsGen
    <2>2. CASE ConBackup
      <3>1. con' = Read(con)
        BY <2>2 DEF ConBackup
      <3>2. con'.now = con.now /\ con'.cache = con.cache
        BY <1>1, <3>1, WatchedParts
      <3> QED
        BY <3>2
    <2>3. CASE DeliverCon
      <3>1. con' = CaughtUp(con) /\ con.cache.gen = con.now.gen
        BY <2>3 DEF DeliverCon, IsEvent
      <3>2. con'.now = con.now
        BY <1>1, <3>1, WatchedParts
      <3> QED
        BY <3>1, <3>2
    <2> QED
      BY <1>2, <1>3, <2>1, <2>2, <2>3, ConMoves
  <1> QED
    BY <1>2, <1>4 DEF ConHistory

(* A cache that shows the mark shows the finalizer, too.                   *)
LEMMA MarkSeenStep ==
  ASSUME ConTypeOK, ConSafe, ConHistory, MarkedOwned, MarkAttended, [OpNext]_opVars,
         con'.now.exists, con'.now.deleting, con'.cache.gen = con'.now.gen
  PROVE  con'.cache.fin
  <1>1. con \in Watched(ConObj) /\ con.now.gen \in Nat /\ con.cache.gen \in Nat
    BY DEF ConTypeOK, Watched, ConObj
  <1>2. ~RaisesGen
    BY <1>1 DEF RaisesGen, ConHistory
  <1>3. CASE Rewritten
    BY <1>3 DEF Rewritten, KeepsGen, MarkAttended
  <1>4. CASE ConBackup \/ DeliverCon \/ RestartAll
    <2>1. con' \in {Read(con), CaughtUp(con), Synced(con.now)}
      BY <1>4 DEF ConBackup, DeliverCon, RestartAll
    <2>2. con'.now = con.now /\ con'.cache \in {con.cache, con.now}
      BY <1>1, <2>1, WatchedParts
    <2> QED
      BY <2>2 DEF MarkedOwned, MarkAttended
  <1> QED
    BY <1>2, <1>3, <1>4, ConMoves

LEMMA MarkAttendedStep ==
  ASSUME ConTypeOK, ConSafe, ConHistory, MarkedOwned, MarkAttended, [OpNext]_opVars
  PROVE  MarkAttended'
  <1> SUFFICES ASSUME con'.now.exists, con'.now.deleting, con'.cache.gen = con'.now.gen, ~conQ'
               PROVE  cw'.pc = "release"
    BY MarkSeenStep DEF MarkAttended
  <1>1. con \in Watched(ConObj) /\ con.now \in ConObj
    BY DEF ConTypeOK, Watched
  <1>2. /\ con.now.deleting /\ con.cache.exists /\ con.cache.deleting /\ ~RestartAll
        /\ con.cache.fin /\ (conQ \/ cw.pc = "release")
    BY MarkBefore DEF MarkAttended
  <1>3. ~ConFail
    BY DEF ConFail
  <1>4. CASE ConBegin
    <2>1. ~ConNotFound /\ ~ConBackup
      BY <1>2 DEF ConNotFound, ConBackup
    <2>2. ~ConAddFinalizer
      BY <1>2 DEF ConAddFinalizer, ConTakes
    <2>3. CASE ConRestore
      <3>1. [ConIdle EXCEPT !.pc = "release", !.copy = con.cache].pc = "release"
        BY DEF ConIdle
      <3> QED
        BY <2>3, <3>1 DEF ConRestore
    <2> QED
      BY <1>4, <2>1, <2>2, <2>3 DEF ConBegin
  <1>5. ~ConRelease
    <2> SUFFICES ASSUME ConRelease PROVE FALSE
      OBVIOUS
    <2> DEFINE new == [con.now EXCEPT !.fin = FALSE]
    <2>1. new \in ConObj /\ new.deleting /\ ~new.fin
      BY <1>1, <1>2 DEF ConObj
    <2>2. PutCon(new)
      BY <1>2, <1>3 DEF ConRelease
    <2> HIDE DEF new
    <2> QED
      BY <1>1, <2>1, <2>2, PutConParts
  <1>6. ~ConWork /\ ~ConFault
    <2>1. CASE ConWork
      <3>1. cw.pc # "release" /\ conQ' = conQ
        BY <1>3, <1>5, <2>1 DEF ConWork, ConAttach, ConWriteCorefile, ConUpdating, ConHealthy,
           ConTimeout, ConActive, ConReport, ConNotify, ConUnnotify, ConTellZone, WriteConStatus,
           Applied, ConGoes, ConAt
      <3> QED
        BY <1>2, <3>1
    <2>2. CASE ConFault
      BY <1>2, <2>2 DEF ConFault
    <2> QED
      BY <2>1, <2>2
  <1>7. CASE UNCHANGED cw /\ (conQ => conQ')
    BY <1>2, <1>7
  <1> QED
    BY <1>2, <1>4, <1>6, <1>7, UsersRaiseGen DEF OpNext, OpStep, opVars, conVars, ConCtl,
       DeliverZoneToAll, DeliverCon, DeliverCore, DeliverDep, ConDelayExpires, CoreDNS,
       RolloutBegins, RolloutEnds, Reload, CoreDNSRest, EditCorefile, ConUser

(* Whatever failed, restarted or was edited on the way, at rest no         *)
(* connector is still under deletion, and without a connector CoreDNS runs *)
(* with a Corefile without blocks: what is safety in ConnectorGoesAway.    *)
THEOREM OpNoConnectorLeft == OpSpec => []RestingConnectorGone
  <1>1. OpInit /\ ConInv => ConHistory /\ MarkedOwned /\ MarkAttended
    <2> SUFFICES ASSUME OpInit, ConInv PROVE ConHistory /\ MarkedOwned /\ MarkAttended
      OBVIOUS
    <2>1. PICK s \in InitConSpec : con = Synced(NewCon(s))
      BY DEF OpInit, ConInit
    <2>2. con.cache = con.now /\ ~con.now.deleting
      BY <2>1 DEF Synced, NewCon
    <2>3. con.now.gen \in Nat
      BY DEF ConInv, ConTypeOK, Watched, ConObj
    <2> QED
      BY <2>2, <2>3 DEF ConHistory, MarkedOwned, MarkAttended
  <1>2. ConInv /\ ConInv' /\ ConHistory /\ MarkedOwned /\ MarkAttended /\ [OpNext]_opVars
          => (ConHistory /\ MarkedOwned /\ MarkAttended)'
    BY ConHistoryStep, MarkedOwnedStep, MarkAttendedStep DEF ConInv
  <1>3. ConInv /\ MarkAttended => RestingConnectorGone
    <2> SUFFICES ASSUME ConInv, MarkAttended, ConAtRest PROVE RestingConnectorGone
      BY DEF RestingConnectorGone
    <2>1. con.cache = con.now /\ cw.pc = "idle" /\ ~conQ /\ pods.core = core.now
      BY DEF ConAtRest, ConInv, ConSafe, CacheSeen, ConIdle
    <2>2. ~con.now.exists => core.now.blocks = {}
      BY DEF ConInv, ConSafe, FinalizerGuards, ConOwns
    <2> QED
      BY <2>1, <2>2 DEF MarkAttended, RestingConnectorGone
  <1> QED
    BY <1>1, <1>2, <1>3, ConInvariance, PTL DEF OpSpec

=============================================================================
