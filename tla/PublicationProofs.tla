-------------------------- MODULE PublicationProofs --------------------------
(***************************************************************************)
(* ZonePublishing implements Publication, for every value of the           *)
(* constants: each step of the two controllers, their caches, their users  *)
(* and their restarts is a step of Publication, or changes nothing there.  *)
(*                                                                         *)
(* HInv adds to Inv what the history is for: the caches move forward, and  *)
(* the worker's zone file is the bake of versions no older than those the  *)
(* config map it goes to was baked from.                                   *)
(***************************************************************************)
EXTENDS PublicationRefinement, WatchProofs

-----------------------------------------------------------------------------
(* The invariant.                                                          *)

RecordsHeld ==
  /\ recLog \in [Record -> SUBSET Pub!RecordVersions]
  /\ \A r \in Record :
       /\ Lags(recs[r], recFeed[r], recCache[r])
       /\ \A v \in recFeed[r] \cup {recCache[r], recs[r]} : RecordVersion(v) \in recLog[r]
       /\ \A w \in recLog[r] : w.rv <= recs[r].rv

ZonesHeld ==
  /\ zoneLog \in [Zone -> SUBSET Pub!ZoneVersions]
  /\ \A z \in Zone :
       /\ Lags(zones[z], zoneFeed[z], zoneCache[z])
       /\ \A v \in zoneFeed[z] \cup {zoneCache[z], zones[z]} : ZoneVersion(v) \in zoneLog[z]
       /\ \A w \in zoneLog[z] : w.rv <= zones[z].rv

(* What was published is no newer than what the caches show.               *)
FromHeld ==
  /\ from \in [CMName -> [zone : Nat, recs : [Record -> Nat]]]
  /\ \A n \in CMName : /\ from[n].zone <= zoneCache[n[2]].rv
                       /\ \A r \in Record : from[n].recs[r] <= recCache[r].rv

(* The versions of the records that the worker's file was baked from.      *)
BakedFrom(rvs) ==
  /\ \A r \in Record : rvs[r] \in recLog[r] /\ rvs[r].rv = read[r]
  /\ zw.file = Pub!Baked(ZoneVersion(zw.copy), rvs, zw.key)

BakeHeld ==
  /\ read \in [Record -> Nat]
  /\ Baking(zw) =>
       LET n == CMOf(zw.key, zw.copy.spec)
       IN  /\ zw.copy.exists /\ ~zw.copy.deleting
           /\ ZoneVersion(zw.copy) \in zoneLog[zw.key]
           /\ from[n].zone <= zw.copy.rv /\ zw.copy.rv <= zoneCache[zw.key].rv
           /\ \A r \in Record : from[n].recs[r] <= read[r] /\ read[r] <= recCache[r].rv
           /\ \E rvs \in [Record -> UNION {recLog[r] : r \in Record}] : BakedFrom(rvs)

HInv == Inv /\ RecordsHeld /\ ZonesHeld /\ CMsHeld /\ FromHeld /\ BakeHeld

-----------------------------------------------------------------------------
(* The logs grow, and caches move forward.                                 *)

LEMMA RecordHistory ==
  ASSUME Inv, RecordsHeld, RecordStep,
         recLog' = [r \in Record |-> recLog[r] \cup {RecordVersion(recs'[r])}]
  PROVE  /\ RecordsHeld'
         /\ \A r \in Record : /\ Pub!Extends(recLog[r], recLog'[r])
                              /\ recCache[r].rv <= recCache'[r].rv
  <1>1. RecordTypes /\ RecordTypes'
    BY RecordStepKeeps DEF Inv
  <1>2. \A v \in RecordObj : RecordVersion(v) \in Pub!RecordVersions /\ RecordVersion(v).rv = v.rv
    <2> SUFFICES ASSUME NEW v \in RecordObj
                 PROVE  RecordVersion(v) \in Pub!RecordVersions /\ RecordVersion(v).rv = v.rv
      OBVIOUS
    <2> DEFINE lines == IF v.exists /\ v.status.passed THEN {<<v.spec.ref, v.status.entry>>} ELSE {}
    <2>1. v.rv \in Nat /\ v.spec.ref \in Zone /\ v.status.entry \in Data
      BY DEF RecordObj, RecordSpec, RecordStatus
    <2>2. lines \in SUBSET (Zone \X Data)
      BY <2>1
    <2>3. RecordVersion(v) = [rv |-> v.rv, lines |-> lines]
      BY DEF RecordVersion
    <2> HIDE DEF lines
    <2> QED
      BY <2>1, <2>2, <2>3 DEF Pub!RecordVersions
  <1>3. recLog' \in [Record -> SUBSET Pub!RecordVersions]
    BY <1>1, <1>2 DEF RecordsHeld, RecordTypes
  <1>4. ASSUME NEW r \in Record
        PROVE  /\ Lags(recs'[r], recFeed'[r], recCache'[r])
               /\ recCache[r].rv <= recCache'[r].rv
               /\ \A v \in recFeed'[r] \cup {recCache'[r], recs'[r]} : RecordVersion(v) \in recLog'[r]
               /\ \A w \in recLog'[r] : w.rv <= recs'[r].rv
               /\ Pub!Extends(recLog[r], recLog'[r])
    <2>1. /\ recs[r] \in RecordObj /\ recs'[r] \in RecordObj
          /\ recFeed[r] \in SUBSET RecordObj /\ recFeed'[r] \in SUBSET RecordObj
          /\ recCache[r] \in RecordObj /\ recCache'[r] \in RecordObj
      BY <1>1 DEF RecordTypes
    <2>2. \A v \in RecordObj : v.rv \in Nat
      BY DEF RecordObj
    <2>3. /\ Lags(recs[r], recFeed[r], recCache[r])
          /\ \A v \in recFeed[r] \cup {recCache[r], recs[r]} : RecordVersion(v) \in recLog[r]
          /\ \A w \in recLog[r] : w.rv \in Nat /\ w.rv <= recs[r].rv
      BY DEF RecordsHeld, Pub!RecordVersions
    <2>4. /\ Lags(recs'[r], recFeed'[r], recCache'[r]) /\ recCache[r].rv <= recCache'[r].rv
          /\ recs'[r] = recs[r] \/ recs'[r].rv = recs[r].rv + 1
          /\ recFeed'[r] \cup {recCache'[r]} \subseteq recFeed[r] \cup {recCache[r], recs[r], recs'[r]}
      BY <1>1, <2>1, <2>2, <2>3, RecordMoves, MovesKeepLags
    <2>5. recLog'[r] = recLog[r] \cup {RecordVersion(recs'[r])}
      OBVIOUS
    <2>6. RecordVersion(recs'[r]).rv = recs'[r].rv
      BY <1>2, <2>1
    <2>7. \A v \in recFeed'[r] \cup {recCache'[r], recs'[r]} : RecordVersion(v) \in recLog'[r]
      BY <2>3, <2>4, <2>5
    <2>8. recs[r].rv \in Nat /\ recs'[r].rv \in Nat /\ recs[r].rv <= recs'[r].rv
      BY <2>1, <2>2, <2>4
    <2>9. \A w \in recLog'[r] : w.rv <= recs'[r].rv
      BY <2>3, <2>5, <2>6, <2>8
    <2>10. Pub!Extends(recLog[r], recLog'[r])
      <3>1. CASE recs'[r] = recs[r]
        BY <2>3, <2>5, <3>1 DEF Pub!Extends
      <3>2. CASE recs'[r].rv = recs[r].rv + 1
        BY <2>3, <2>5, <2>6, <2>8, <3>2 DEF Pub!Extends
      <3> QED
        BY <2>4, <3>1, <3>2
    <2> QED
      BY <2>4, <2>7, <2>9, <2>10
  <1> QED
    BY <1>3, <1>4 DEF RecordsHeld

LEMMA ZoneHistory ==
  ASSUME Inv, ZonesHeld, ZoneStep,
         zoneLog' = [z \in Zone |-> zoneLog[z] \cup {ZoneVersion(zones'[z])}]
  PROVE  /\ ZonesHeld'
         /\ \A z \in Zone : /\ Pub!Extends(zoneLog[z], zoneLog'[z])
                            /\ zoneCache[z].rv <= zoneCache'[z].rv
  <1>1. ZoneTypes /\ ZoneTypes'
    BY ZoneStepKeeps DEF Inv
  <1>2. \A v \in ZoneObj : ZoneVersion(v) \in Pub!ZoneVersions /\ ZoneVersion(v).rv = v.rv
    BY DEF ZoneObj, ZoneSpec, ZoneVersion, Pub!ZoneVersions
  <1>3. zoneLog' \in [Zone -> SUBSET Pub!ZoneVersions]
    BY <1>1, <1>2 DEF ZonesHeld, ZoneTypes
  <1>4. ASSUME NEW z \in Zone
        PROVE  /\ Lags(zones'[z], zoneFeed'[z], zoneCache'[z])
               /\ zoneCache[z].rv <= zoneCache'[z].rv
               /\ \A v \in zoneFeed'[z] \cup {zoneCache'[z], zones'[z]} : ZoneVersion(v) \in zoneLog'[z]
               /\ \A w \in zoneLog'[z] : w.rv <= zones'[z].rv
               /\ Pub!Extends(zoneLog[z], zoneLog'[z])
    <2>1. /\ zones[z] \in ZoneObj /\ zones'[z] \in ZoneObj
          /\ zoneFeed[z] \in SUBSET ZoneObj /\ zoneFeed'[z] \in SUBSET ZoneObj
          /\ zoneCache[z] \in ZoneObj /\ zoneCache'[z] \in ZoneObj
      BY <1>1 DEF ZoneTypes
    <2>2. \A v \in ZoneObj : v.rv \in Nat
      BY DEF ZoneObj
    <2>3. /\ Lags(zones[z], zoneFeed[z], zoneCache[z])
          /\ \A v \in zoneFeed[z] \cup {zoneCache[z], zones[z]} : ZoneVersion(v) \in zoneLog[z]
          /\ \A w \in zoneLog[z] : w.rv \in Nat /\ w.rv <= zones[z].rv
      BY DEF ZonesHeld, Pub!ZoneVersions
    <2>4. /\ Lags(zones'[z], zoneFeed'[z], zoneCache'[z]) /\ zoneCache[z].rv <= zoneCache'[z].rv
          /\ zones'[z] = zones[z] \/ zones'[z].rv = zones[z].rv + 1
          /\ zoneFeed'[z] \cup {zoneCache'[z]} \subseteq zoneFeed[z] \cup {zoneCache[z], zones[z], zones'[z]}
      BY <1>1, <2>1, <2>2, <2>3, ZoneMoves, MovesKeepLags
    <2>5. zoneLog'[z] = zoneLog[z] \cup {ZoneVersion(zones'[z])}
      OBVIOUS
    <2>6. ZoneVersion(zones'[z]).rv = zones'[z].rv
      BY <1>2, <2>1
    <2>7. \A v \in zoneFeed'[z] \cup {zoneCache'[z], zones'[z]} : ZoneVersion(v) \in zoneLog'[z]
      BY <2>3, <2>4, <2>5
    <2>8. zones[z].rv \in Nat /\ zones'[z].rv \in Nat /\ zones[z].rv <= zones'[z].rv
      BY <2>1, <2>2, <2>4
    <2>9. \A w \in zoneLog'[z] : w.rv <= zones'[z].rv
      BY <2>3, <2>5, <2>6, <2>8
    <2>10. Pub!Extends(zoneLog[z], zoneLog'[z])
      <3>1. CASE zones'[z] = zones[z]
        BY <2>3, <2>5, <3>1 DEF Pub!Extends
      <3>2. CASE zones'[z].rv = zones[z].rv + 1
        BY <2>3, <2>5, <2>6, <2>8, <3>2 DEF Pub!Extends
      <3> QED
        BY <2>4, <3>1, <3>2
    <2> QED
      BY <2>4, <2>7, <2>9, <2>10
  <1> QED
    BY <1>3, <1>4 DEF ZonesHeld

-----------------------------------------------------------------------------
(* The versions the worker and the config maps were given.                 *)

(* What a step does to the versions: they grow, and caches move forward.   *)
Forward ==
  /\ \A z \in Zone : /\ Pub!Extends(zoneLog[z], zoneLog'[z])
                     /\ zoneCache[z].rv <= zoneCache'[z].rv
  /\ \A r \in Record : /\ Pub!Extends(recLog[r], recLog'[r])
                       /\ recCache[r].rv <= recCache'[r].rv

(* The versions of what the worker is about to write.                      *)
Origin == [zone |-> zw.copy.rv, recs |-> read]

(* A step that writes no file leaves the origin of the files alone.        *)
LEMMA NoWriteKeepsFrom ==
  ASSUME HInv, KeepHistory, KeepStep \/ StartStep
  PROVE  from' = from
  <1>1. \A n \in CMName : ~Writes(n)
    <2>1. CASE KeepStep
      BY <2>1 DEF KeepStep, Writes
    <2>2. CASE StartStep
      BY <2>2 DEF StartStep, ZoneStartUpdate, At, Writes, Baking
    <2> QED
      BY <2>1, <2>2
  <1> QED
    BY <1>1 DEF KeepHistory, HInv, FromHeld

LEMMA ForwardKeepsFrom ==
  ASSUME HInv, Inv', Forward, from' = from
  PROVE  FromHeld'
  <1>1. \A n \in CMName : n[2] \in Zone
    BY DEF CMName
  <1>2. /\ \A z \in Zone : zoneCache[z].rv \in Nat /\ zoneCache'[z].rv \in Nat
        /\ \A r \in Record : recCache[r].rv \in Nat /\ recCache'[r].rv \in Nat
    BY DEF HInv, Inv, ZoneTypes, RecordTypes, ZoneObj, RecordObj
  <1>3. /\ from \in [CMName -> [zone : Nat, recs : [Record -> Nat]]]
        /\ \A n \in CMName : /\ from[n].zone <= zoneCache[n[2]].rv
                             /\ \A r \in Record : from[n].recs[r] <= recCache[r].rv
    BY DEF HInv, FromHeld
  <1>4. \A n \in CMName : from[n].zone \in Nat /\ \A r \in Record : from[n].recs[r] \in Nat
    BY <1>3
  <1>5. \A n \in CMName : /\ from[n].zone <= zoneCache'[n[2]].rv
                          /\ \A r \in Record : from[n].recs[r] <= recCache'[r].rv
    BY <1>1, <1>2, <1>3, <1>4 DEF Forward
  <1> QED
    BY <1>3, <1>5 DEF FromHeld

(* A worker that goes on holding its file still holds such a file.         *)
LEMMA ForwardKeepsBake ==
  ASSUME HInv, Inv', Forward, Baking(zw), read' = read,
         zw'.key = zw.key, zw'.copy = zw.copy, zw'.file = zw.file,
         from'[CMOf(zw.key, zw.copy.spec)] \in {from[CMOf(zw.key, zw.copy.spec)], Origin}
  PROVE  BakeHeld'
  <1> DEFINE n == CMOf(zw.key, zw.copy.spec)
  <1>1. /\ zw.key \in Zone /\ n \in CMName /\ zw.copy.rv \in Nat
    BY WorkerFields DEF HInv, ZoneObj
  <1>2. /\ read \in [Record -> Nat]
        /\ zw.copy.exists /\ ~zw.copy.deleting
        /\ ZoneVersion(zw.copy) \in zoneLog[zw.key]
        /\ from[n].zone <= zw.copy.rv /\ zw.copy.rv <= zoneCache[zw.key].rv
        /\ \A r \in Record : from[n].recs[r] <= read[r] /\ read[r] <= recCache[r].rv
    BY DEF HInv, BakeHeld
  <1>3. PICK rvs \in [Record -> UNION {recLog[r] : r \in Record}] : BakedFrom(rvs)
    BY DEF HInv, BakeHeld
  <1>4. /\ \A z \in Zone : zoneCache[z].rv \in Nat /\ zoneCache'[z].rv \in Nat
        /\ \A r \in Record : recCache[r].rv \in Nat /\ recCache'[r].rv \in Nat
    BY DEF HInv, Inv, ZoneTypes, RecordTypes, ZoneObj, RecordObj
  <1>5. /\ ZoneVersion(zw.copy) \in zoneLog'[zw.key]
        /\ zw.copy.rv <= zoneCache'[zw.key].rv
    BY <1>1, <1>2, <1>4 DEF Forward, Pub!Extends
  <1>6. \A r \in Record : read[r] <= recCache'[r].rv
    BY <1>2, <1>4 DEF Forward
  <1>7. \A r \in Record : rvs[r] \in recLog'[r] /\ rvs[r].rv = read[r]
    BY <1>3 DEF BakedFrom, Forward, Pub!Extends
  <1>8. rvs \in [Record -> UNION {recLog'[r] : r \in Record}]
    BY <1>3, <1>7
  <1>9. zw.file = Pub!Baked(ZoneVersion(zw.copy), rvs, zw.key)
    BY <1>3 DEF BakedFrom
  <1>10. /\ from'[n].zone <= zw.copy.rv
         /\ \A r \in Record : from'[n].recs[r] <= read[r]
    BY <1>1, <1>2 DEF Origin
  <1>11. CMOf(zw'.key, zw'.copy.spec) = n
    OBVIOUS
  <1> HIDE DEF n
  <1> QED
    BY <1>2, <1>5, <1>6, <1>7, <1>8, <1>9, <1>10, <1>11 DEF BakeHeld, BakedFrom

LEMMA IdleKeepsBake ==
  ASSUME HInv, KeepHistory, ~Baking(zw')
  PROVE  BakeHeld'
  BY DEF KeepHistory, BakeHeld, Baking

LEMMA KeepHeld ==
  ASSUME HInv, Inv', Forward, KeepHistory, KeepStep
  PROVE  from' = from /\ FromHeld' /\ BakeHeld'
  <1>1. from' = from /\ FromHeld'
    BY NoWriteKeepsFrom, ForwardKeepsFrom
  <1>2. CASE Baking(zw') /\ zw' = zw
    <2>1. read' = read /\ Baking(zw)
      BY <1>2 DEF KeepHistory
    <2> QED
      BY <1>1, <1>2, <2>1, ForwardKeepsBake
  <1>3. CASE ~Baking(zw')
    BY <1>1, <1>3, IdleKeepsBake
  <1> QED
    BY <1>1, <1>2, <1>3 DEF KeepStep

(* The file of a new reconciliation is baked from what the caches show.    *)
LEMMA StartHeld ==
  ASSUME HInv, Inv', Forward, KeepHistory, StartStep
  PROVE  from' = from /\ FromHeld' /\ BakeHeld'
  <1>1. from' = from /\ FromHeld'
    BY NoWriteKeepsFrom, ForwardKeepsFrom
  <1>2. PICK z \in Zone : ZoneStartUpdate(z)
    BY DEF StartStep
  <1>3. CASE ~Baking(zw')
    BY <1>1, <1>3, IdleKeepsBake
  <1>4. CASE Baking(zw')
    <2> DEFINE n == CMOf(z, zoneCache[z].spec)
               rvs == [r \in Record |-> RecordVersion(recCache[r])]
    <2>1. ~Baking(zw) /\ zoneCache[z].exists /\ ~zoneCache[z].deleting
      BY <1>2 DEF ZoneStartUpdate, At, Baking
    <2>2. UNCHANGED <<recCache, zoneCache>>
      BY <1>2 DEF ZoneStartUpdate, ZoneRest, cacheVars
    <2>3. zw'.key = z /\ zw'.copy = zoneCache[z] /\ zw'.file = BakedFile(z)
      <3>1. ~Baking(Loop("join", z, GoodRecords(z), "idle"))
        BY LoopHoldsNoFile
      <3> QED
        BY <1>2, <1>4, <3>1 DEF ZoneStartUpdate
    <2>4. read' = [r \in Record |-> recCache[r].rv]
      BY <1>4, <2>1 DEF KeepHistory
    <2>5. /\ zoneCache[z] \in ZoneObj /\ zoneCache[z].rv \in Nat /\ n \in CMName /\ n[2] = z
          /\ \A r \in Record : recCache[r].rv \in Nat
      BY DEF HInv, Inv, ZoneTypes, RecordTypes, ZoneObj, ZoneSpec, RecordObj, CMOf, CMName
    <2>6. ZoneVersion(zoneCache[z]) \in zoneLog'[z]
      BY DEF HInv, ZonesHeld, Forward, Pub!Extends
    <2>7. /\ from'[n].zone <= zoneCache[z].rv
          /\ \A r \in Record : from'[n].recs[r] <= recCache[r].rv
      BY <1>1, <2>5 DEF HInv, FromHeld
    <2>8. \A r \in Record : rvs[r] \in recLog'[r] /\ rvs[r].rv = recCache[r].rv
      BY DEF HInv, RecordsHeld, Forward, Pub!Extends, RecordVersion
    <2>9. rvs \in [Record -> UNION {recLog'[r] : r \in Record}]
      BY <2>8
    <2>10. BakedFile(z) = Pub!Baked(ZoneVersion(zoneCache[z]), rvs, z)
      <3> DEFINE E == {<<r, recCache[r].status.entry>> : r \in GoodRecords(z)}
                 F == {e \in Record \X Data : <<z, e[2]>> \in rvs[e[1]].lines}
      <3>1. \A r \in Record : /\ recCache[r].status.entry \in Data
                              /\ recCache[r].exists \in BOOLEAN
        BY DEF HInv, Inv, RecordTypes, RecordObj, RecordStatus
      <3>2. \A r \in Record : rvs[r].lines =
              IF recCache[r].exists /\ recCache[r].status.passed
                THEN {<<recCache[r].spec.ref, recCache[r].status.entry>>} ELSE {}
        BY DEF RecordVersion
      <3> HIDE DEF rvs
      <3>3. ASSUME NEW e \in E PROVE e \in F
        <4>1. PICK r \in GoodRecords(z) : e = <<r, recCache[r].status.entry>>
          OBVIOUS
        <4>2. r \in Record /\ recCache[r].exists /\ recCache[r].spec.ref = z /\ recCache[r].status.passed
          BY DEF GoodRecords
        <4> QED
          BY <3>1, <3>2, <4>1, <4>2
      <3>4. ASSUME NEW e \in F PROVE e \in E
        <4>1. PICK r \in Record, d \in Data : e = <<r, d>>
          OBVIOUS
        <4>2. <<z, d>> \in rvs[r].lines
          BY <4>1
        <4>3. /\ recCache[r].exists /\ recCache[r].status.passed
              /\ recCache[r].spec.ref = z /\ recCache[r].status.entry = d
          <5>1. CASE ~(recCache[r].exists /\ recCache[r].status.passed)
            BY <3>2, <4>2, <5>1
          <5>2. CASE recCache[r].exists /\ recCache[r].status.passed
            <6>1. <<z, d>> \in {<<recCache[r].spec.ref, recCache[r].status.entry>>}
              BY <3>2, <4>2, <5>2
            <6> QED
              BY <5>2, <6>1
          <5> QED
            BY <5>1, <5>2
        <4> QED
          BY <4>1, <4>3 DEF GoodRecords
      <3>5. E = F
        BY <3>3, <3>4
      <3> QED
        BY <3>5 DEF BakedFile, Pub!Baked, ZoneVersion
    <2> HIDE DEF rvs
    <2>11. PICK made \in [Record -> UNION {recLog'[r] : r \in Record}] : made = rvs
      BY <2>9
    <2>12. /\ \A r \in Record : made[r] \in recLog'[r] /\ made[r].rv = read'[r]
           /\ zw'.file = Pub!Baked(ZoneVersion(zw'.copy), made, zw'.key)
      BY <2>3, <2>4, <2>8, <2>10, <2>11
    <2>13. read' \in [Record -> Nat]
      BY <2>4, <2>5
    <2>14. \A r \in Record : from'[n].recs[r] <= read'[r] /\ read'[r] <= recCache'[r].rv
      BY <2>2, <2>4, <2>5, <2>7
    <2>15. zw'.copy.rv <= zoneCache'[z].rv /\ CMOf(zw'.key, zw'.copy.spec) = n
      BY <2>2, <2>3, <2>5
    <2> QED
      BY <1>1, <1>4, <2>1, <2>3, <2>6, <2>7, <2>13, <2>14, <2>15, <2>12
      DEF BakeHeld, BakedFrom
  <1> QED
    BY <1>3, <1>4

(* The history of the files follows.                                       *)
LEMMA WriteFrom ==
  ASSUME HInv, KeepHistory, Baking(zw), NEW n \in CMName, NEW obj, Stores(n, obj)
  PROVE  from' = IF obj # cms[n] /\ obj.exists THEN [from EXCEPT ![n] = Origin] ELSE from
  <1>1. cms \in [CMName -> CMObj] /\ from = [m \in CMName |-> from[m]]
    BY DEF HInv, Inv, CMTypes, FromHeld
  <1>2. \A m \in CMName : Writes(m) <=> m = n /\ obj # cms[n] /\ obj.exists
    BY <1>1 DEF Stores, Writes
  <1>3. from' = [m \in CMName |-> IF Writes(m) THEN Origin ELSE from[m]]
    BY DEF KeepHistory, Origin
  <1>4. from' = [m \in CMName |-> IF m = n /\ obj # cms[n] /\ obj.exists THEN Origin ELSE from[m]]
    BY <1>2, <1>3
  <1> QED
    BY <1>1, <1>4

LEMMA WriteHeld ==
  ASSUME HInv, Inv', Forward, KeepHistory, WriteStep
  PROVE  FromHeld' /\ BakeHeld'
  <1>1. Baking(zw)
    BY WriteEffect DEF HInv
  <1>2. CASE Failed
    <2>1. from' = from
      BY <1>2 DEF Failed, KeepHistory, Writes, HInv, FromHeld
    <2>2. ~Baking(zw')
      BY <1>2, IdleHoldsNoFile DEF Failed
    <2> QED
      BY <2>1, <2>2, ForwardKeepsFrom, IdleKeepsBake
  <1>3. ASSUME NEW obj \in CMObj, Stores(CMOf(zw.key, zw.copy.spec), obj)
        PROVE  FromHeld' /\ BakeHeld'
    <2> DEFINE n == CMOf(zw.key, zw.copy.spec)
    <2>1. /\ n \in CMName /\ n[2] = zw.key /\ zw.key \in Zone
          /\ zw.copy.rv \in Nat /\ read \in [Record -> Nat]
      BY WorkerFields DEF HInv, BakeHeld, CMOf, ZoneObj
    <2>2. from' = from \/ from' = [from EXCEPT ![n] = Origin]
      BY <1>1, <1>3, <2>1, WriteFrom
    <2>3. FromHeld'
      <3>1. CASE from' = from
        BY <3>1, ForwardKeepsFrom
      <3>2. CASE from' = [from EXCEPT ![n] = Origin]
        <4>1. /\ Origin \in [zone : Nat, recs : [Record -> Nat]]
              /\ Origin.zone <= zoneCache[zw.key].rv
              /\ \A r \in Record : Origin.recs[r] <= recCache[r].rv
          BY <1>1, <2>1 DEF Origin, HInv, BakeHeld
        <4>2. /\ from \in [CMName -> [zone : Nat, recs : [Record -> Nat]]]
              /\ \A m \in CMName : /\ from[m].zone <= zoneCache[m[2]].rv
                                   /\ \A r \in Record : from[m].recs[r] <= recCache[r].rv
          BY DEF HInv, FromHeld
        <4>3. UNCHANGED <<recCache, zoneCache>>
          BY WriteEffect DEF HInv
        <4> HIDE DEF n
        <4>4. \A m \in CMName : from'[m] = IF m = n THEN Origin ELSE from[m]
          BY <2>1, <3>2, <4>2
        <4>5. from' \in [CMName -> [zone : Nat, recs : [Record -> Nat]]]
          BY <2>1, <3>2, <4>1, <4>2
        <4>6. \A m \in CMName : /\ from'[m].zone <= zoneCache'[m[2]].rv
                                /\ \A r \in Record : from'[m].recs[r] <= recCache'[r].rv
          BY <2>1, <4>1, <4>2, <4>3, <4>4
        <4> QED
          BY <4>5, <4>6 DEF FromHeld
      <3> QED
        BY <2>2, <3>1, <3>2
    <2>4. CASE Baking(zw')
      <3>1. read' = read
        BY <1>1, <2>4 DEF KeepHistory
      <3>2. from'[n] \in {from[n], Origin}
        BY <2>1, <2>2 DEF HInv, FromHeld
      <3> QED
        BY <1>1, <1>3, <2>3, <3>1, <3>2, ForwardKeepsBake DEF Stores
    <2>5. CASE ~Baking(zw')
      BY <2>3, <2>5, IdleKeepsBake
    <2> QED
      BY <2>4, <2>5
  <1> QED
    BY <1>2, <1>3, WriteEffect DEF HInv

-----------------------------------------------------------------------------
(* The invariant holds.                                                    *)

LEMMA HInitInv == HInit => HInv
  <1> SUFFICES ASSUME HInit PROVE HInv
    OBVIOUS
  <1>1. Inv
    BY InitInv DEF HInit
  <1>2. /\ recCache = recs /\ recFeed = [r \in Record |-> {}]
        /\ zoneCache = zones /\ zoneFeed = [z \in Zone |-> {}]
        /\ cmCache = cms /\ cmFeed = [n \in CMName |-> {}] /\ zw = Idle
    BY DEF HInit, Init
  <1>3. RecordsHeld
    <2>1. \A r \in Record : recs[r] \in RecordObj /\ recs[r].rv \in Nat
      BY <1>1 DEF Inv, RecordTypes, RecordObj
    <2>2. recLog \in [Record -> SUBSET Pub!RecordVersions]
      <3> SUFFICES ASSUME NEW r \in Record PROVE RecordVersion(recs[r]) \in Pub!RecordVersions
        BY DEF HInit
      <3>1. /\ recs[r].spec.ref \in Zone /\ recs[r].status.entry \in Data
        BY <2>1 DEF RecordObj, RecordSpec, RecordStatus
      <3> DEFINE lines == IF recs[r].exists /\ recs[r].status.passed
                            THEN {<<recs[r].spec.ref, recs[r].status.entry>>} ELSE {}
      <3>2. lines \in SUBSET (Zone \X Data)
        BY <3>1
      <3>3. RecordVersion(recs[r]) = [rv |-> recs[r].rv, lines |-> lines]
        BY DEF RecordVersion
      <3> HIDE DEF lines
      <3> QED
        BY <2>1, <3>2, <3>3 DEF Pub!RecordVersions
    <2>3. \A r \in Record : recLog[r] = {RecordVersion(recs[r])} /\ RecordVersion(recs[r]).rv = recs[r].rv
      BY DEF HInit, RecordVersion
    <2> QED
      BY <1>2, <2>1, <2>2, <2>3 DEF RecordsHeld, Lags
  <1>4. ZonesHeld
    <2>1. \A z \in Zone : zones[z] \in ZoneObj /\ zones[z].rv \in Nat
      BY <1>1 DEF Inv, ZoneTypes, ZoneObj
    <2>2. \A z \in Zone : /\ ZoneVersion(zones[z]) \in Pub!ZoneVersions
                          /\ ZoneVersion(zones[z]).rv = zones[z].rv
      BY <2>1 DEF ZoneObj, ZoneSpec, ZoneVersion, Pub!ZoneVersions
    <2>3. zoneLog \in [Zone -> SUBSET Pub!ZoneVersions]
      BY <2>2 DEF HInit
    <2>4. \A z \in Zone : zoneLog[z] = {ZoneVersion(zones[z])}
      BY DEF HInit
    <2> QED
      BY <1>2, <2>1, <2>2, <2>3, <2>4 DEF ZonesHeld, Lags
  <1>5. CMsHeld
    BY <1>1, <1>2 DEF Inv, CMTypes, CMObj, CMsHeld, Lags
  <1>6. FromHeld
    <2>1. /\ \A z \in Zone : zoneCache[z].rv \in Nat
          /\ \A r \in Record : recCache[r].rv \in Nat
          /\ \A n \in CMName : n[2] \in Zone
      BY <1>1 DEF Inv, ZoneTypes, RecordTypes, ZoneObj, RecordObj, CMName
    <2> QED
      BY <2>1 DEF HInit, Pub!NoVersion, FromHeld
  <1>7. BakeHeld
    BY <1>2, IdleHoldsNoFile DEF HInit, BakeHeld
  <1> QED
    BY <1>1, <1>3, <1>4, <1>5, <1>6, <1>7 DEF HInv

LEMMA HNextForward ==
  ASSUME HInv, HNext
  PROVE  Inv' /\ RecordsHeld' /\ ZonesHeld' /\ CMsHeld' /\ Forward
  <1>1. Inv /\ RecordsHeld /\ ZonesHeld /\ CMsHeld /\ Next /\ KeepHistory
    BY DEF HInv, HNext
  <1>2. Inv' /\ RecordStep /\ ZoneStep /\ CMStep
    BY <1>1, NextInv, RecordSteps, ZoneSteps, CMSteps
  <1> QED
    BY <1>1, <1>2, RecordHistory, ZoneHistory, CMsStepKeeps DEF KeepHistory, Forward

LEMMA HNextInv == HInv /\ [HNext]_<<vars, history>> => HInv'
  <1> SUFFICES ASSUME HInv, [HNext]_<<vars, history>> PROVE HInv'
    OBVIOUS
  <1>1. CASE HNext
    <2>1. Inv' /\ RecordsHeld' /\ ZonesHeld' /\ CMsHeld' /\ Forward /\ KeepHistory
      BY <1>1, HNextForward DEF HNext
    <2>2. KeepStep \/ StartStep \/ WriteStep
      BY <1>1, Kinds DEF HInv, HNext
    <2>3. FromHeld' /\ BakeHeld'
      BY <2>1, <2>2, KeepHeld, StartHeld, WriteHeld
    <2> QED
      BY <2>1, <2>3 DEF HInv
  <1>2. CASE UNCHANGED <<vars, history>>
    <2>1. Inv'
      BY <1>2, NextInv DEF HInv
    <2>2. RecordsHeld' /\ ZonesHeld' /\ CMsHeld' /\ FromHeld' /\ BakeHeld'
      BY <1>2 DEF HInv, vars, history, clusterVars, apiVars, feedVars, cacheVars, zoneCtlVars,
                  RecordsHeld, ZonesHeld, CMsHeld, FromHeld, BakeHeld, BakedFrom
    <2> QED
      BY <2>1, <2>2 DEF HInv
  <1> QED
    BY <1>1, <1>2

-----------------------------------------------------------------------------
(* Each step is a step of Publication.                                     *)

(* A step that changes no file lets the versions grow.                     *)
LEMMA SameFilesGrow ==
  ASSUME Forward, Published' = Published, from' = from
  PROVE  Pub!Grow
  BY DEF Pub!Grow, Forward

(* Versions in use are in the logs already.                                *)
LEMMA LogsKept ==
  ASSUME HInv, KeepHistory, UNCHANGED <<recs, zones>>
  PROVE  zoneLog' = zoneLog /\ recLog' = recLog
  BY DEF HInv, RecordsHeld, ZonesHeld, KeepHistory

(* What a change of one config map does to the published files.            *)
LEMMA OneFile ==
  ASSUME HInv, NEW n \in CMName, NEW obj \in CMObj, cms' = [cms EXCEPT ![n] = obj]
  PROVE  Published' = [Published EXCEPT ![n] = IF obj.exists THEN {obj.file} ELSE {}]
  BY DEF HInv, Inv, CMTypes, Published

LEMMA KeepSimulates ==
  ASSUME HInv, HNext, Forward, KeepStep, from' = from
  PROVE  Pub!Next
  <1>1. CASE UNCHANGED cms
    <2>1. Published' = Published
      BY <1>1 DEF Published
    <2> QED
      BY <2>1, SameFilesGrow DEF Pub!Next
  <1>2. CASE CMTouched
    <2>1. PICK n \in CMName, obj \in CMObj :
            /\ cms[n].exists /\ obj.file = cms[n].file
            /\ cms' = [cms EXCEPT ![n] = obj]
      BY <1>2 DEF CMTouched
    <2>2. Published' = [Published EXCEPT ![n] = IF obj.exists THEN {obj.file} ELSE {}]
      BY <2>1, OneFile
    <2>3. CASE obj.exists
      <3>1. Published' = Published
        BY <2>1, <2>2, <2>3 DEF Published
      <3> QED
        BY <3>1, SameFilesGrow DEF Pub!Next
    <2>4. CASE ~obj.exists
      <3>1. zoneLog' = zoneLog /\ recLog' = recLog
        BY <1>2, LogsKept DEF CMTouched, HNext
      <3>2. Pub!Withdraw(n)
        BY <2>2, <2>4, <3>1 DEF Pub!Withdraw
      <3> QED
        BY <3>2 DEF Pub!Next, Pub!Name, CMName
    <2> QED
      BY <2>3, <2>4
  <1> QED
    BY <1>1, <1>2 DEF KeepStep

LEMMA StartSimulates ==
  ASSUME HInv, HNext, Forward, StartStep, from' = from
  PROVE  Pub!Next
  <1>1. UNCHANGED cms
    BY DEF StartStep, ZoneStartUpdate, ApiRest, cmVars
  <1>2. Published' = Published
    BY <1>1 DEF Published
  <1> QED
    BY <1>2, SameFilesGrow DEF Pub!Next

LEMMA WriteSimulates ==
  ASSUME HInv, HNext, Forward, WriteStep
  PROVE  Pub!Next
  <1> DEFINE n == CMOf(zw.key, zw.copy.spec)
  <1>1. Baking(zw) /\ UNCHANGED <<recs, zones>>
    BY WriteEffect DEF HInv
  <1>2. zoneLog' = zoneLog /\ recLog' = recLog /\ KeepHistory
    BY <1>1, LogsKept DEF HNext
  <1>3. /\ n \in CMName /\ n[2] = zw.key /\ n[1] = zw.copy.spec.prefix
    BY WorkerFields DEF HInv, CMOf
  <1>4. CASE Failed
    <2>1. Published' = Published /\ from' = from
      BY <1>2, <1>4 DEF Failed, Published, KeepHistory, Writes, HInv, FromHeld
    <2> QED
      BY <2>1, SameFilesGrow DEF Pub!Next
  <1>5. ASSUME NEW obj \in CMObj, Stores(n, obj)
        PROVE  Pub!Next
    <2>1. Published' = [Published EXCEPT ![n] = IF obj.exists THEN {zw.file} ELSE {}]
      BY <1>3, <1>5, OneFile DEF Stores
    <2>2. from' = IF obj # cms[n] /\ obj.exists THEN [from EXCEPT ![n] = Origin] ELSE from
      BY <1>1, <1>2, <1>3, <1>5, WriteFrom
    <2>3. CASE ~obj.exists
      <3>1. Pub!Withdraw(n)
        BY <1>2, <2>1, <2>2, <2>3 DEF Pub!Withdraw
      <3> QED
        BY <1>3, <3>1 DEF Pub!Next, Pub!Name, CMName
    <2>4. CASE obj = cms[n]
      <3>1. cms' = cms
        BY <1>3, <1>5, <2>4 DEF Stores, HInv, Inv, CMTypes
      <3>2. Published' = Published /\ from' = from
        BY <2>2, <2>4, <3>1 DEF Published
      <3> QED
        BY <3>2, SameFilesGrow DEF Pub!Next
    <2>5. CASE obj # cms[n] /\ obj.exists
      <3> DEFINE zv == ZoneVersion(zw.copy)
      <3>1. PICK rvs \in [Record -> UNION {recLog[r] : r \in Record}] : BakedFrom(rvs)
        BY <1>1 DEF HInv, BakeHeld
      <3>2. /\ \A r \in Record : rvs[r] \in recLog[r] /\ rvs[r].rv = read[r]
            /\ zw.file = Pub!Baked(zv, rvs, n[2])
        BY <1>3, <3>1 DEF BakedFrom
      <3>3. /\ zv \in zoneLog[n[2]] /\ zv.live /\ zv.prefix = n[1] /\ zv.rv = zw.copy.rv
            /\ from[n].zone <= zw.copy.rv
            /\ \A r \in Record : from[n].recs[r] <= read[r]
        BY <1>1, <1>3 DEF HInv, BakeHeld, ZoneVersion
      <3>4. Pub!Parses(zw.file)
        BY <1>1 DEF HInv, Inv, WorkerFileValid, Baking, ValidFile, Pub!Parses
      <3>5. Origin = [zone |-> zv.rv, recs |-> [r \in Record |-> rvs[r].rv]]
        BY <3>2, <3>3 DEF Origin, HInv, BakeHeld
      <3>6. /\ Published' = [Published EXCEPT ![n] = {Pub!Baked(zv, rvs, n[2])}]
            /\ from' = [from EXCEPT ![n] = Origin]
            /\ Pub!Parses(Pub!Baked(zv, rvs, n[2]))
        BY <2>1, <2>2, <2>5, <3>2, <3>4
      <3>7. /\ from[n].zone <= zv.rv
            /\ \A r \in Record : from[n].recs[r] <= rvs[r].rv
        BY <3>2, <3>3
      <3> HIDE DEF zv
      <3>8. Pub!Publish(n)
        BY <1>2, <3>1, <3>2, <3>3, <3>5, <3>6, <3>7 DEF Pub!Publish
      <3> QED
        BY <1>3, <3>8 DEF Pub!Next, Pub!Name, CMName
    <2> QED
      BY <2>3, <2>4, <2>5
  <1> QED
    BY <1>4, <1>5, WriteEffect DEF HInv

LEMMA InitSimulates == HInit => Pub!Init
  <1> SUFFICES ASSUME HInit PROVE Pub!Init
    OBVIOUS
  <1>1. zoneLog \in [Zone -> SUBSET Pub!ZoneVersions] /\ recLog \in [Record -> SUBSET Pub!RecordVersions]
    BY HInitInv DEF HInv, RecordsHeld, ZonesHeld
  <1>2. Published = [n \in Pub!Name |-> {}]
    BY DEF HInit, Init, NoCM, Published, Pub!Name, CMName
  <1>3. from = [n \in Pub!Name |-> Pub!NoVersion]
    BY DEF HInit, Pub!Name, CMName
  <1> QED
    BY <1>1, <1>2, <1>3 DEF Pub!Init

LEMMA NextSimulates == HInv /\ [HNext]_<<vars, history>> => [Pub!Next]_(Pub!pubvars)
  <1> SUFFICES ASSUME HInv, [HNext]_<<vars, history>> PROVE [Pub!Next]_(Pub!pubvars)
    OBVIOUS
  <1>1. CASE HNext
    <2>1. Inv' /\ Forward /\ KeepHistory
      BY <1>1, HNextForward DEF HNext
    <2>2. KeepStep \/ StartStep \/ WriteStep
      BY <1>1, Kinds DEF HInv, HNext
    <2> QED
      BY <1>1, <2>1, <2>2, KeepHeld, StartHeld, KeepSimulates, StartSimulates, WriteSimulates
  <1>2. CASE UNCHANGED <<vars, history>>
    BY <1>2 DEF vars, history, clusterVars, apiVars, Published, Pub!pubvars
  <1> QED
    BY <1>1, <1>2

(* The two controllers implement Publication: whatever users do, however   *)
(* the caches lag, wherever writes are refused and whenever the operator   *)
(* stops, each config map is written only with files that were baked from  *)
(* one version of its zone and one of each record, that parse, and that    *)
(* are never baked from older versions than the file before.               *)
THEOREM OperatorImplementsPublication == HSpec => ImplementsPublication
  BY HInitInv, HNextInv, InitSimulates, NextSimulates, PTL
  DEF HSpec, ImplementsPublication, Pub!Spec

=============================================================================
