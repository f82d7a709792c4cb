--------------------------- MODULE ZoneController ---------------------------
(***************************************************************************)
(* DNSZoneReconciler: it bakes the good records of a zone into a zone file,*)
(* validates the file, keeps it in a config map, reports in the status of  *)
(* the zone, and tells the records that they joined or lost their zone.    *)
(*                                                                         *)
(* One worker reconciles one zone at a time (zw).  Every API write is a    *)
(* step of its own, so that users, the record controller and the caches    *)
(* move in between; the copy of the zone, the zone file and the list of    *)
(* records are those of the start.  Fail is every "return err": the work   *)
(* queue takes the key back.  A reconciliation refused at its first write  *)
(* keeps its key and changes nothing: a stutter.                           *)
(***************************************************************************)
EXTENDS Cluster

CONSTANTS
  MaxClock,   \* bound: how often the wall clock, the serial, advances
  MaxFaults,  \* bound: how many API calls of the worker fail
  Timely      \* which lags are short: "cm", "delay" (see README)

ASSUME ZoneBoundsAssumption == MaxClock \in Nat /\ MaxFaults \in Nat

VARIABLES
  delayed,  \* record events whose map function is still in time.Sleep
  zoneQ,    \* keys in the controller's work queue
  zw,       \* what the worker is doing
  clock,    \* the serial DNSZoneGenerateSerial returns now
  faults    \* API calls of the worker that have failed

zoneCtlVars == <<delayed, zoneQ, zw, clock, faults>>

UpdatePC == {"invalid", "create", "update", "status", "cmfin", "join"}
DeletePC == {"unjoin", "zonefin"}

(* The worker: what it does next, for which zone, the copy of the zone it  *)
(* read, the zone file and serial it built, the version its update of the  *)
(* config map demands (0: any), and the records it has yet to notify.      *)
Worker == [pc : {"idle"} \cup UpdatePC \cup DeletePC, key : Zone, copy : ZoneObj,
           file : File, serial : Nat, cmrv : Nat, todo : SUBSET Record]

(* What is not in use has a fixed value.                                   *)
Idle ==
  [pc |-> "idle", key |-> CHOOSE z \in Zone : TRUE,
   copy |-> NewZone([hdr |-> EmptyFile.hdr, prefix |-> CHOOSE p \in Prefix : TRUE]),
   file |-> EmptyFile, serial |-> 0, cmrv |-> 0, todo |-> {}]

(* A worker that holds a zone file it is about to write.                   *)
Baking(w) == w.pc \in {"create", "update"}

-----------------------------------------------------------------------------
(* Zone files.                                                             *)

(* validateRecords on a whole zone file                                    *)
ValidFile(f) == /\ f.hdr \notin BadHeader
                /\ \A e \in f.entries : e[2] \notin BadData

(* The config map of a zone: cmPrefix + name.                              *)
CMOf(z, spec) == <<spec.prefix, z>>

(* Mutant: one bad record spoils the list.                                 *)
GoodRecordsOrNone(z) ==
  LET all == {r \in Record : recCache[r].exists /\ recCache[r].spec.ref = z}
  IN  IF \A r \in all : recCache[r].status.passed THEN all ELSE {}

(* getGoodDnsRecords: the records of a zone that passed validation.        *)
GoodRecords(z) == {r \in Record : /\ recCache[r].exists
                                  /\ recCache[r].spec.ref = z
                                  /\ recCache[r].status.passed}

(* constructZoneFile over bakeRecords                                      *)
BakedFile(z) == [hdr |-> zoneCache[z].spec.hdr,
                 entries |-> {<<r, recCache[r].status.entry>> : r \in GoodRecords(z)}]

(* Mutant: the comparison leaves out the header.                           *)
SameEntries(cm, file) == cm.exists /\ cm.file.entries = file.entries

(* compareZonefileConfigMaps: equal but for the serial.                    *)
SameZonefile(cm, file) == cm.exists /\ cm.file = file

-----------------------------------------------------------------------------
(* Helpers for the worker's steps.                                         *)

ApiRest == UNCHANGED <<recordVars, zoneVars, cmVars>>
ZoneRest == UNCHANGED <<cacheVars, edits, delayed, clock>>

At(pc) == zw.pc = pc
Succeed(w) == zw' = w /\ UNCHANGED <<zoneQ, faults>>

Fail == zw' = Idle /\ zoneQ' = zoneQ \cup {zw.key} /\ UNCHANGED faults

(* A loop over records, at pc, or what follows it when none is left.       *)
Loop(pc, key, todo, after) ==
  IF todo # {} THEN [Idle EXCEPT !.pc = pc, !.key = key, !.todo = todo]
  ELSE IF after = "idle" THEN Idle
  ELSE [Idle EXCEPT !.pc = after, !.key = key]

Joining == Loop("join", zw.key, zw.todo, "idle")

(* dnsZoneUpdateStatus: a status that differs from the copy's is written,  *)
(* if the copy is still the stored version.                                *)
WriteZoneStatus(status, next) ==
  \/ /\ status = zw.copy.status
     /\ Succeed(next)
     /\ ApiRest
  \/ /\ status # zw.copy.status
     /\ Accepts(zw.copy, zones[zw.key])
     /\ PutZone(zw.key, [zones[zw.key] EXCEPT !.status = status])
     /\ Succeed(next)
     /\ UNCHANGED <<recordVars, cmVars>>
  \/ /\ status # zw.copy.status
     /\ ~Accepts(zw.copy, zones[zw.key])
     /\ Fail
     /\ ApiRest

(* The status of a record is read afresh, changed and written; next holds  *)
(* the records that remain.                                                *)
NotifyRecord(r, cond, next) ==
  \/ /\ recCache[r].exists /\ Accepts(recCache[r], recs[r])
     /\ PutRecord(r, [recs[r] EXCEPT !.status.cond = cond,
                                     !.status.ogen = recCache[r].gen])
     /\ Succeed(next)
     /\ UNCHANGED <<zoneVars, cmVars>>
  \/ /\ ~(recCache[r].exists /\ Accepts(recCache[r], recs[r]))
     /\ Fail
     /\ ApiRest

-----------------------------------------------------------------------------
(* Reconcile: the worker takes a key.                                      *)

ZoneNotFound(z) ==
  /\ At("idle") /\ z \in zoneQ
  /\ ~zoneCache[z].exists
  /\ zoneQ' = zoneQ \ {z}
  /\ UNCHANGED <<zw, faults>>
  /\ ApiRest /\ ZoneRest

(* Mutant: the write does not name the version it was made from.           *)
ZoneAddFinalizerForced(z) ==
  /\ At("idle") /\ z \in zoneQ
  /\ zoneCache[z].exists /\ ~zoneCache[z].fin
  /\ zones[z].exists
  /\ PutZone(z, [zoneCache[z] EXCEPT !.fin = TRUE])
  /\ UNCHANGED <<zoneQ, zw, faults, recordVars, cmVars>>
  /\ ZoneRest

(* addFinalizer, then Requeue: the key stays.                              *)
ZoneAddFinalizer(z) ==
  /\ At("idle") /\ z \in zoneQ
  /\ zoneCache[z].exists /\ ~zoneCache[z].fin
  /\ Accepts(zoneCache[z], zones[z])
  /\ PutZone(z, [zoneCache[z] EXCEPT !.fin = TRUE])
  /\ UNCHANGED <<zoneQ, zw, faults, recordVars, cmVars>>
  /\ ZoneRest

(* Mutant: the config map is left to the garbage collector.                *)
ZoneStartDeleteNoCM(z) ==
  /\ At("idle") /\ z \in zoneQ
  /\ zoneCache[z].exists /\ zoneCache[z].fin /\ zoneCache[z].deleting
  /\ zw' = Loop("unjoin", z, GoodRecords(z), "zonefin")
  /\ zoneQ' = zoneQ \ {z}
  /\ UNCHANGED faults
  /\ ApiRest /\ ZoneRest

(* Mutant: the zone goes away before its records are listed.               *)
ZoneStartDeleteSilent(z) ==
  LET n == CMOf(z, zoneCache[z].spec)
      cm == cmCache[n]
  IN  /\ At("idle") /\ z \in zoneQ
      /\ zoneCache[z].exists /\ zoneCache[z].fin /\ zoneCache[z].deleting
      /\ "cm" \in Timely => cmFeed[n] = {}
      /\ \/ ~(cm.exists /\ cm.fin) /\ UNCHANGED cmVars
         \/ /\ cm.exists /\ cm.fin
            /\ Accepts(cm, cms[n])
            /\ PutCM(n, [cm EXCEPT !.fin = FALSE])
      /\ zw' = Loop("unjoin", z, {}, "zonefin")
      /\ zoneQ' = zoneQ \ {z}
      /\ UNCHANGED <<faults, recordVars, zoneVars>>
      /\ ZoneRest

(* reconcileDelete, up to the list of records: the finalizer of the config *)
(* map is removed if the cache shows the config map with it.               *)
ZoneStartDelete(z) ==
  LET n == CMOf(z, zoneCache[z].spec)
      cm == cmCache[n]
  IN  /\ At("idle") /\ z \in zoneQ
      /\ zoneCache[z].exists /\ zoneCache[z].fin /\ zoneCache[z].deleting
      /\ "cm" \in Timely => cmFeed[n] = {}
      /\ \/ ~(cm.exists /\ cm.fin) /\ UNCHANGED cmVars
         \/ /\ cm.exists /\ cm.fin
            /\ Accepts(cm, cms[n])
            /\ PutCM(n, [cm EXCEPT !.fin = FALSE])
      /\ zw' = Loop("unjoin", z, GoodRecords(z), "zonefin")
      /\ zoneQ' = zoneQ \ {z}
      /\ UNCHANGED <<faults, recordVars, zoneVars>>
      /\ ZoneRest

(* Mutant: an unchanged zone file ends the reconciliation at once.         *)
ZoneStartUpdateNoJoin(z) ==
  LET n == CMOf(z, zoneCache[z].spec)
      file == BakedFile(z)
      start == [pc |-> IF ~ValidFile(file) THEN "invalid"
                       ELSE IF cmCache[n].exists THEN "update" ELSE "create",
                key |-> z, copy |-> zoneCache[z], file |-> file, serial |-> clock,
                cmrv |-> 0, todo |-> GoodRecords(z)]
  IN  /\ At("idle") /\ z \in zoneQ
      /\ zoneCache[z].exists /\ zoneCache[z].fin /\ ~zoneCache[z].deleting
      /\ "cm" \in Timely => cmFeed[n] = {}
      /\ zw' = IF ValidFile(file) /\ SameZonefile(cmCache[n], file) THEN Idle ELSE start
      /\ zoneQ' = zoneQ \ {z}
      /\ UNCHANGED faults
      /\ ApiRest /\ ZoneRest

(* reconcileCreateOrUpdate up to its first write: the records are listed   *)
(* and baked, the file is validated and compared with the config map the   *)
(* cache shows.                                                            *)
ZoneStartUpdate(z) ==
  LET n == CMOf(z, zoneCache[z].spec)
      file == BakedFile(z)
      start == [pc |-> IF ~ValidFile(file) THEN "invalid"
                       ELSE IF cmCache[n].exists THEN "update" ELSE "create",
                key |-> z, copy |-> zoneCache[z], file |-> file, serial |-> clock,
                cmrv |-> 0, todo |-> GoodRecords(z)]
  IN  /\ At("idle") /\ z \in zoneQ
      /\ zoneCache[z].exists /\ zoneCache[z].fin /\ ~zoneCache[z].deleting
      /\ "cm" \in Timely => cmFeed[n] = {}
      /\ zw' = IF ValidFile(file) /\ SameZonefile(cmCache[n], file)
                 THEN Loop("join", z, GoodRecords(z), "idle")
                 ELSE start
      /\ zoneQ' = zoneQ \ {z}
      /\ UNCHANGED faults
      /\ ApiRest /\ ZoneRest

ZoneBegin(z) ==
  ZoneNotFound(z) \/ ZoneAddFinalizer(z) \/ ZoneStartDelete(z) \/ ZoneStartUpdate(z)

-----------------------------------------------------------------------------
(* createOrUpdateZoneCM.                                                   *)

(* Mutant: the return after the status is missing.                         *)
ZoneInvalidGoesOn ==
  /\ At("invalid")
  /\ WriteZoneStatus([zw.copy.status EXCEPT !.passed = FALSE, !.cond = "UpdateError",
                                            !.ogen = zw.copy.gen],
                     [zw EXCEPT !.pc = "create"])
  /\ ZoneRest

(* The zone does not parse: the status says so, the config map stays, and  *)
(* the caller is told that all went well.                                  *)
ZoneInvalid ==
  /\ At("invalid")
  /\ WriteZoneStatus([zw.copy.status EXCEPT !.passed = FALSE, !.cond = "UpdateError",
                                            !.ogen = zw.copy.gen],
                     Joining)
  /\ ZoneRest

(* Mutant: the file is baked again at the write, after its validation.     *)
UpcomingRebaked(cm) ==
  [exists |-> TRUE, rv |-> cm.rv, deleting |-> cm.deleting, fin |-> FALSE,
   owner |-> zw.copy.uid, file |-> BakedFile(zw.key), serial |-> zw.serial]

(* constructZoneConfigMap: what the worker sends, over what is stored; it  *)
(* names no finalizer.                                                     *)
Upcoming(cm) ==
  [exists |-> TRUE, rv |-> cm.rv, deleting |-> cm.deleting, fin |-> FALSE,
   owner |-> zw.copy.uid, file |-> zw.file, serial |-> zw.serial]

ZoneCreateCM ==
  LET n == CMOf(zw.key, zw.copy.spec)
  IN  /\ At("create")
      /\ \/ /\ ~cms[n].exists
            /\ PutCM(n, [Upcoming(cms[n]) EXCEPT !.deleting = FALSE])
            /\ Succeed([zw EXCEPT !.pc = "update", !.cmrv = cms[n].rv + 1])
            /\ UNCHANGED <<recordVars, zoneVars>>
         \/ cms[n].exists /\ Fail /\ ApiRest
      /\ ZoneRest

(* The update replaces whatever version is stored, except right after the  *)
(* creation, whose answer filled in the version.                           *)
ZoneUpdateCM ==
  LET n == CMOf(zw.key, zw.copy.spec)
      accepted == cms[n].exists /\ zw.cmrv \in {0, cms[n].rv}
  IN  /\ At("update")
      /\ \/ /\ accepted
            /\ PutCM(n, Upcoming(cms[n]))
            /\ Succeed([zw EXCEPT !.pc = "status", !.cmrv = 0])
            /\ UNCHANGED <<recordVars, zoneVars>>
         \/ ~accepted /\ Fail /\ ApiRest
      /\ ZoneRest

(* Mutant: the refreshed zone is the one whose status is written.          *)
ZonePublishRefreshed ==
  LET copy == zoneCache[zw.key]
  IN  /\ At("status")
      /\ \/ /\ Accepts(copy, zones[zw.key])
            /\ PutZone(zw.key, [zones[zw.key] EXCEPT !.status =
                 [passed |-> TRUE, checkpoint |-> TRUE, serial |-> zw.serial,
                  prefix |-> zw.copy.spec.prefix, cond |-> "Pending", ogen |-> copy.gen]])
            /\ Succeed([zw EXCEPT !.pc = "cmfin"])
            /\ UNCHANGED <<recordVars, cmVars>>
         \/ ~Accepts(copy, zones[zw.key]) /\ Fail /\ ApiRest
      /\ ZoneRest

(* The status of a zone whose file is in the config map.  It is written    *)
(* over the copy of the start: refreshDNSZoneResource drops what it reads. *)
ZonePublish ==
  /\ At("status")
  /\ WriteZoneStatus([passed |-> TRUE, checkpoint |-> TRUE, serial |-> zw.serial,
                      prefix |-> zw.copy.spec.prefix, cond |-> "Pending",
                      ogen |-> zw.copy.gen],
                     [zw EXCEPT !.pc = "cmfin"])
  /\ ZoneRest

(* Mutant: the write does not name the version it was made from.           *)
ZoneAddCMFinalizerForced ==
  LET n == CMOf(zw.key, zw.copy.spec)
      cm == cmCache[n]
  IN  /\ At("cmfin")
      /\ \/ cm.exists /\ cm.fin /\ Succeed(Joining) /\ ApiRest
         \/ /\ cm.exists /\ ~cm.fin /\ cms[n].exists
            /\ PutCM(n, [cm EXCEPT !.fin = TRUE])
            /\ Succeed(Joining)
            /\ UNCHANGED <<recordVars, zoneVars>>
         \/ (~cm.exists \/ ~cms[n].exists) /\ Fail /\ ApiRest
      /\ ZoneRest

(* addFinalizer on the config map the cache shows by now.                  *)
ZoneAddCMFinalizer ==
  LET n == CMOf(zw.key, zw.copy.spec)
      cm == cmCache[n]
  IN  /\ At("cmfin")
      /\ \/ cm.exists /\ cm.fin /\ Succeed(Joining) /\ ApiRest
         \/ /\ cm.exists /\ ~cm.fin /\ Accepts(cm, cms[n])
            /\ PutCM(n, [cm EXCEPT !.fin = TRUE])
            /\ Succeed(Joining)
            /\ UNCHANGED <<recordVars, zoneVars>>
         \/ /\ ~cm.exists \/ (~cm.fin /\ ~Accepts(cm, cms[n]))
            /\ Fail
            /\ ApiRest
      /\ ZoneRest

-----------------------------------------------------------------------------
(* The loops over the records, and the end of a deletion.                  *)

ZoneJoin(r) ==
  /\ At("join") /\ r \in zw.todo
  /\ NotifyRecord(r, "Ready", Loop("join", zw.key, zw.todo \ {r}, "idle"))
  /\ ZoneRest

ZoneUnjoin(r) ==
  /\ At("unjoin") /\ r \in zw.todo
  /\ NotifyRecord(r, "ZoneRemoved", Loop("unjoin", zw.key, zw.todo \ {r}, "zonefin"))
  /\ ZoneRest

(* removeFinalizer on the zone the cache shows by now.                     *)
ZoneRemoveFinalizer ==
  LET copy == zoneCache[zw.key]
  IN  /\ At("zonefin")
      /\ \/ copy.exists /\ ~copy.fin /\ Succeed(Idle) /\ ApiRest
         \/ /\ copy.exists /\ copy.fin /\ Accepts(copy, zones[zw.key])
            /\ PutZone(zw.key, [copy EXCEPT !.fin = FALSE])
            /\ Succeed(Idle)
            /\ UNCHANGED <<recordVars, cmVars>>
         \/ /\ ~copy.exists \/ (copy.fin /\ ~Accepts(copy, zones[zw.key]))
            /\ Fail
            /\ ApiRest
      /\ ZoneRest

ZoneWork ==
  \/ ZoneInvalid \/ ZoneCreateCM \/ ZoneUpdateCM \/ ZonePublish
  \/ ZoneAddCMFinalizer \/ ZoneRemoveFinalizer
  \/ \E r \in Record : ZoneJoin(r) \/ ZoneUnjoin(r)

(* Mutant: an error that ends the loop over the records is logged only.    *)
ZoneFaultUntold ==
  /\ zw.pc # "idle"
  /\ faults < MaxFaults
  /\ faults' = faults + 1
  /\ zw' = Idle
  /\ zoneQ' = IF zw.pc \in {"join", "unjoin"} THEN zoneQ ELSE zoneQ \cup {zw.key}
  /\ ApiRest /\ ZoneRest

(* Any API call of the worker may fail, or its answer may be lost.         *)
ZoneFault ==
  /\ zw.pc # "idle"
  /\ faults < MaxFaults
  /\ faults' = faults + 1
  /\ zw' = Idle
  /\ zoneQ' = zoneQ \cup {zw.key}
  /\ ApiRest /\ ZoneRest

-----------------------------------------------------------------------------
(* Events and time.                                                        *)

(* SetupWithManager: the zone's own events are queued at once.             *)
ZoneEvent(z, v) == zoneQ' = IF IsEvent(zoneCache[z], v) THEN zoneQ \cup {z} ELSE zoneQ

(* Mutant: only the zone the new version names is told.                    *)
RecordEventForNewZone(r, v) ==
  delayed' = IF IsEvent(recCache[r], v) THEN delayed \cup {<<r, v.spec.ref, v.rv>>}
                                         ELSE delayed

(* dnsRecordChangedReconcileRequest sleeps on the event of a record, once  *)
(* for each zone that the old and the new version name.                    *)
RecordEventForZones(r, v) ==
  LET old == recCache[r]
      refs == {v.spec.ref} \cup (IF old.exists THEN {old.spec.ref} ELSE {})
  IN  delayed' = IF IsEvent(old, v)
                   THEN delayed \cup {<<r, z, v.rv>> : z \in refs}
                   ELSE delayed

(* The sleep over the oldest event of r for z ends.                        *)
DelayExpires(r, z) ==
  /\ \E e \in delayed :
       /\ e[1] = r /\ e[2] = z
       /\ \A f \in delayed : f[1] = r => e[3] <= f[3]
       /\ delayed' = delayed \ {e}
  /\ zoneQ' = zoneQ \cup {z}
  /\ UNCHANGED <<zw, clock, faults, clusterVars>>

Tick == /\ clock < MaxClock
        /\ clock' = clock + 1
        /\ UNCHANGED <<delayed, zoneQ, zw, faults, clusterVars>>

=============================================================================
