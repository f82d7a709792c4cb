------------------------------ MODULE Connector ------------------------------
(***************************************************************************)
(* DNSConnectorReconciler: it mounts the zone files of all good zones into *)
(* CoreDNS, lists their domains in the Corefile, waits for CoreDNS, and    *)
(* reports to the zones and in its own status.  On deletion it restores    *)
(* the Corefile it found.                                                  *)
(*                                                                         *)
(* There is one connector and every zone names it.  The connector, the     *)
(* config map with the Corefile and the CoreDNS workload are watched       *)
(* objects: what is stored, what the cache shows, and who has seen the     *)
(* stored version (a write needs that).  A failing reconciliation is tried *)
(* for ever, so versions are not counted; a cache catches up in one step.  *)
(* The worker makes one API write per step, as in ZoneController.          *)
(***************************************************************************)
EXTENDS ZoneController, Layout

CONSTANTS
  Domain, DomainOf,     \* domains, and the domain of each zone header
  Plugins, BadPlugins,  \* plugin lists, and those CoreDNS does not start with
  CoreText,             \* what users write in the Corefile
  Surge                 \* a rollout leaves as many replicas ready as are asked for

ASSUME DomainAssumption == DomainOf \in [Header -> Domain] /\ DOMAIN VolumeOf = Domain
ASSUME CoreDNSAssumption ==
  BadPlugins \subseteq Plugins /\ Plugins # {} /\ CoreText # {} /\ Surge \in BOOLEAN

VARIABLES
  con, core, dep,  \* watched objects: connector, Corefile config map, workload
  bkp,             \* the backup of the Corefile config map
  pods,            \* the zone files and the Corefile that CoreDNS runs with
  conQ,            \* the connector's key is in the work queue
  conDelay,        \* a zone event is in the map function's time.Sleep
  cw               \* what the worker is doing

conVars == <<con, core, dep, bkp, pods, conQ, conDelay, cw>>

-----------------------------------------------------------------------------
(* Objects.                                                                *)

(* Whether corednsCM names the config map with the Corefile and its key,   *)
(* that config map and no key of it, or no config map; and whether         *)
(* corednsDeployment names a workload that exists.                         *)
ConSpec == [corefile : {"found", "noKey", "noMap"}, workload : BOOLEAN, plugins : Plugins]
(* Reason and message: three errors of reason Error (no Corefile, no       *)
(* backup, no workload), three of reason UpdateError.                      *)
ConCond == {"None", "NoCorefile", "NoBackup", "NoWorkload", "NotAttached", "NotWritten",
            "Updating", "Unhealthy", "Active"}
ConStatus == [cond : ConCond, ogen : Nat, zones : SUBSET (Zone \X Nat)]
ConObj == [exists : BOOLEAN, gen : Nat, deleting : BOOLEAN, fin : BOOLEAN,
           spec : ConSpec, status : ConStatus]
Corefile == [text : CoreText, blocks : SUBSET (Domain \X Plugins)]
(* The backup is written once: its cache has it (seen) or lacks it.        *)
Backup == [exists : BOOLEAN, seen : BOOLEAN, file : Corefile]
Volume == [name : {VolumeOf[d] : d \in Domain}, cm : CMName, key : Domain]
Mount == [name : {VolumeOf[d] : d \in Domain}, key : Domain]
Workload == [vols : SUBSET Volume, mounts : SUBSET Mount,
             phase : {"changed", "rolling", "done"}]

NewCon(s) == [exists |-> TRUE, gen |-> 1, deleting |-> FALSE, fin |-> FALSE, spec |-> s,
              status |-> [cond |-> "None", ogen |-> 0, zones |-> {}]]

Watched(Kind) == [now : Kind, cache : Kind, seen : SUBSET {"cache", "worker"}]
Synced(obj) == [now |-> obj, cache |-> obj, seen |-> {"cache"}]
Put(o, new) == [o EXCEPT !.now = new, !.seen = {}]
CaughtUp(o) == [o EXCEPT !.cache = o.now, !.seen = @ \cup {"cache"}]
(* The worker keeps a copy of what the cache shows.                        *)
Read(o) == [o EXCEPT !.seen = IF "cache" \in @ THEN @ \cup {"worker"} ELSE @ \ {"worker"}]

(* A connector under deletion goes away with its finalizer.                *)
PutCon(new) ==
  LET obj == [new EXCEPT !.exists = ~(new.deleting /\ ~new.fin)]
  IN  con' = IF obj = con.now THEN con ELSE Put(con, obj)

-----------------------------------------------------------------------------
(* The worker: its copy of the connector, the status it computes, the text *)
(* of the Corefile it read, the domains and serials it collected, and the  *)
(* zones it has yet to notify.                                             *)
ConPC == {"idle", "attach", "corefile", "updating", "wait", "notify", "active",
          "report", "release", "unnotify"}
ConWorker == [pc : ConPC, copy : ConObj, status : ConStatus, text : CoreText,
              domains : SUBSET Domain, serials : SUBSET (Zone \X Nat), todo : SUBSET Zone]

AnyConSpec == [corefile |-> "found", workload |-> TRUE, plugins |-> CHOOSE p \in Plugins : TRUE]
ConIdle == [pc |-> "idle", copy |-> NewCon(AnyConSpec), status |-> NewCon(AnyConSpec).status,
            text |-> CHOOSE t \in CoreText : TRUE, domains |-> {}, serials |-> {}, todo |-> {}]

ConRest == UNCHANGED <<recordVars, cmVars, cacheVars, edits, pods, conDelay>>

ConAt(pc) == cw.pc = pc
ConGoes(w) == cw' = w /\ UNCHANGED <<conQ, faults>>

(* Mutant: a failed reconciliation is logged and not tried again.          *)
ConFailForgotten == cw' = ConIdle /\ UNCHANGED <<conQ, faults>>

ConFail == cw' = ConIdle /\ conQ' = TRUE /\ UNCHANGED faults

(* Mutant: a failed health check has a reason no one knows.                *)
WithCondUnknown(c) ==
  [cw.status EXCEPT !.cond = IF c = "Unhealthy" THEN "Unknown" ELSE c, !.ogen = cw.copy.gen]

(* setDnsConnectorCondition                                                *)
WithCond(c) == [cw.status EXCEPT !.cond = c, !.ogen = cw.copy.gen]
(* An error that the status reports before it is returned.                 *)
Reporting(c) == [cw EXCEPT !.pc = "report", !.status = WithCond(c)]

StoreConStatus(status) ==
  /\ "worker" \in con.seen
  /\ con' = [now |-> [con.now EXCEPT !.status = status], cache |-> con.cache,
             seen |-> {"worker"}]

(* Mutant: a refused update is logged and taken for done.                  *)
AppliedAnyway(accepted, c, next) == ConGoes(next)

(* An update of CoreDNS's objects: accepted, or reported as refused.       *)
Applied(accepted, c, next) == ConGoes(IF accepted THEN next ELSE Reporting(c))

(* dnsConnectorUpdateStatus: written if it differs from the status at the  *)
(* start, which need not be the one stored by now.                         *)
WriteConStatus(status, next) ==
  \/ status = cw.copy.status /\ UNCHANGED con /\ next
  \/ status # cw.copy.status /\ StoreConStatus(status) /\ next
  \/ /\ status # cw.copy.status /\ "worker" \notin con.seen
     /\ UNCHANGED con
     /\ ConFail

(* Mutant: only zones whose last validation passed.                        *)
GoodZonesPassed == {z \in Zone : zoneCache[z].exists /\ zoneCache[z].status.passed}

(* fetchGoodZones: validated now or, by their checkpoint, before.          *)
GoodZones == {z \in Zone : LET st == zoneCache[z].status
                           IN  /\ zoneCache[z].exists
                               /\ st.cond = "Active" \/ (st.cond # "None" /\ st.checkpoint)}

(* The config map that the status of a zone names.                         *)
ZoneCM(z) == <<zoneCache[z].status.prefix, z>>

-----------------------------------------------------------------------------
(* Reconcile: the worker takes the key.                                    *)

ConTakes ==
  /\ ConAt("idle") /\ conQ
  /\ "watch" \in Timely => \A o \in {con.seen, core.seen, dep.seen} : "cache" \in o

ConNotFound ==
  /\ ConTakes /\ ~con.cache.exists
  /\ conQ' = FALSE
  /\ UNCHANGED <<con, core, dep, bkp, cw, faults, zoneVars>>
  /\ ConRest

ConAddFinalizer ==
  /\ ConTakes /\ con.cache.exists /\ ~con.cache.fin
  /\ "cache" \in con.seen
  /\ PutCon([con.now EXCEPT !.fin = TRUE])
  /\ UNCHANGED <<core, dep, bkp, conQ, cw, faults, zoneVars>>
  /\ ConRest

(* Mutant: the backup is renewed by every reconciliation.                  *)
ConBackupRenewed ==
  /\ ConTakes /\ con.cache.exists /\ con.cache.fin /\ ~con.cache.deleting
  /\ con.cache.spec.corefile = "found"
  /\ conQ' = FALSE
  /\ con' = Read(con) /\ core' = Read(core)
  /\ bkp' = [bkp EXCEPT !.exists = TRUE, !.file = core.cache]
  /\ cw' = [ConIdle EXCEPT !.pc = "attach", !.copy = con.cache, !.status = con.cache.status,
                           !.text = core.cache.text]
  /\ UNCHANGED <<dep, faults, zoneVars>>
  /\ ConRest

(* reconcileDNSConnector up to its first write, backupOriginalCorefileCM:  *)
(* the Corefile the cache shows is backed up unless the cache shows a      *)
(* backup.  The creation fails if there is one that the cache lacks, or if *)
(* the call fails.                                                         *)
ConBackup ==
  LET start == [ConIdle EXCEPT !.copy = con.cache, !.status = con.cache.status]
      report(c) == [start EXCEPT !.pc = "report", !.status.cond = c,
                                 !.status.ogen = con.cache.gen]
      found == con.cache.spec.corefile = "found"
  IN  /\ ConTakes /\ con.cache.exists /\ con.cache.fin /\ ~con.cache.deleting
      /\ conQ' = FALSE
      /\ con' = Read(con)
      /\ \/ /\ found /\ bkp.exists = bkp.seen
            /\ core' = Read(core)
            /\ bkp' = IF bkp.exists THEN bkp
                      ELSE [exists |-> TRUE, seen |-> FALSE, file |-> core.cache]
            /\ cw' = [start EXCEPT !.pc = "attach", !.text = core.cache.text]
            /\ UNCHANGED faults
         \/ /\ found /\ ~bkp.seen
            /\ \/ bkp.exists /\ UNCHANGED faults
               \/ ~bkp.exists /\ faults < MaxFaults /\ faults' = faults + 1
            /\ cw' = report("NoBackup")
            /\ UNCHANGED <<core, bkp>>
         \/ /\ ~found
            /\ cw' = report("NoCorefile")
            /\ UNCHANGED <<core, bkp, faults>>
      /\ UNCHANGED <<dep, zoneVars>>
      /\ ConRest

(* restoreOriginalCorefileCM looks both config maps up by the name in the  *)
(* spec of the connector as it is by now.                                  *)
CanRestore(obj) == bkp.seen /\ obj.spec.corefile # "noMap"

(* Mutant: only a connector that is Active restores the Corefile.          *)
ConRestoreActive ==
  /\ ConTakes /\ con.cache.exists /\ con.cache.fin /\ con.cache.deleting
  /\ CanRestore(con.cache)
  /\ core' = IF core.now = bkp.file \/ con.cache.status.cond # "Active" THEN core
             ELSE Put(core, bkp.file)
  /\ cw' = [ConIdle EXCEPT !.pc = "release", !.copy = con.cache]
  /\ conQ' = FALSE
  /\ UNCHANGED <<con, dep, bkp, faults, zoneVars>>
  /\ ConRest

(* Mutant: a Corefile that is restored already ends the deletion.          *)
ConRestoreDone ==
  /\ ConTakes /\ con.cache.exists /\ con.cache.fin /\ con.cache.deleting
  /\ CanRestore(con.cache)
  /\ core' = IF core.now = bkp.file THEN core ELSE Put(core, bkp.file)
  /\ cw' = IF core.now = bkp.file THEN cw
           ELSE [ConIdle EXCEPT !.pc = "release", !.copy = con.cache]
  /\ conQ' = FALSE
  /\ UNCHANGED <<con, dep, bkp, faults, zoneVars>>
  /\ ConRest

(* reconcileDelete, restoreOriginalCorefileCM: whatever the Corefile is by *)
(* now is replaced, whichever version that is.  If one of the config maps  *)
(* is not found the deletion fails and is tried again: nothing changes.    *)
ConRestore ==
  /\ ConTakes /\ con.cache.exists /\ con.cache.fin /\ con.cache.deleting
  /\ CanRestore(con.cache)
  /\ core' = IF core.now = bkp.file THEN core ELSE Put(core, bkp.file)
  /\ cw' = [ConIdle EXCEPT !.pc = "release", !.copy = con.cache]
  /\ conQ' = FALSE
  /\ UNCHANGED <<con, dep, bkp, faults, zoneVars>>
  /\ ConRest

ConBegin == ConNotFound \/ ConAddFinalizer \/ ConBackup \/ ConRestore

-----------------------------------------------------------------------------
(* reconcileDNSConnector.                                                  *)

(* fetchGoodZonefileCM, setZoneFileConifgMaps and the update of the        *)
(* workload, whose new annotation starts a rollout in any case.  A config  *)
(* map that the cache lacks ends the reconciliation without a report.      *)
ConAttach ==
  LET zs == GoodZones
      file(z) == cmCache[ZoneCM(z)].file
      desired == DesiredVolumes({[cm |-> ZoneCM(z), key |-> DomainOf[file(z).hdr]] : z \in zs})
      found == \A z \in zs : cmCache[ZoneCM(z)].exists
      current == "cache" \in dep.seen
  IN  /\ ConAt("attach")
      /\ \/ /\ ~cw.copy.spec.workload
            /\ ConGoes(Reporting("NoWorkload"))
            /\ UNCHANGED dep
         \/ /\ cw.copy.spec.workload /\ ~found
            /\ ConFail
            /\ UNCHANGED dep
         \/ /\ cw.copy.spec.workload /\ found
            /\ dep' = IF ~current THEN dep
                      ELSE Put(dep, [vols   |-> AttachedVolumes(dep.now.vols, desired),
                                     mounts |-> AttachedMounts(dep.now.mounts, desired),
                                     phase  |-> IF "roll" \in Timely THEN "rolling"
                                                                      ELSE "changed"])
            /\ Applied(current, "NotAttached",
                       [cw EXCEPT !.pc = "corefile", !.todo = zs,
                                  !.domains = {DomainOf[file(z).hdr] : z \in zs},
                                  !.serials = {<<z, cmCache[ZoneCM(z)].serial>> : z \in zs}])
      /\ UNCHANGED <<con, core, bkp, zoneVars>>
      /\ ConRest

(* Mutant: the update does not name the version it was made from.          *)
ConWriteCorefileForced ==
  /\ ConAt("corefile")
  /\ core' = Put(core, GeneratedCorefile(cw.text, cw.domains, cw.copy.spec.plugins))
  /\ ConGoes([cw EXCEPT !.pc = "updating"])
  /\ UNCHANGED <<con, dep, bkp, zoneVars>>
  /\ ConRest

ConWriteCorefile ==
  LET current == "worker" \in core.seen
      new == GeneratedCorefile(cw.text, cw.domains, cw.copy.spec.plugins)
  IN  /\ ConAt("corefile")
      /\ core' = IF current THEN Put(core, new) ELSE core
      /\ Applied(current, "NotWritten", [cw EXCEPT !.pc = "updating"])
      /\ UNCHANGED <<con, dep, bkp, zoneVars>>
      /\ ConRest

ConUpdating ==
  /\ ConAt("updating")
  /\ WriteConStatus(WithCond("Updating"),
                    ConGoes([cw EXCEPT !.pc = "wait", !.status = WithCond("Updating")]))
  /\ UNCHANGED <<core, dep, bkp, zoneVars>>
  /\ ConRest

(* CoreDNS can start: every volume has its config map and key, every mount *)
(* its path in its volume, and the Corefile is accepted.                   *)
Parses(file) == \A b \in file.blocks : b[2] \notin BadPlugins
CanStart ==
  /\ \A v \in dep.now.vols : cms[v.cm].exists /\ DomainOf[cms[v.cm].file.hdr] = v.key
  /\ \A m \in dep.now.mounts : \E v \in dep.now.vols : v.name = m.name /\ v.key = m.key
  /\ Parses(core.now)

(* corednsIsHealthy: ready replicas are counted in the cached workload,    *)
(* after a delay that is meant to let the rollout begin.                   *)
ConHealthy ==
  /\ ConAt("wait")
  /\ Surge \/ dep.cache.phase # "rolling"
  /\ "roll" \in Timely => "cache" \in dep.seen
  /\ ConGoes([cw EXCEPT !.pc = IF cw.todo = {} THEN "active" ELSE "notify"])
  /\ UNCHANGED <<con, core, dep, bkp, zoneVars>>
  /\ ConRest

ConTimeout ==
  /\ ConAt("wait")
  /\ ~Surge /\ dep.cache.phase = "rolling"
  /\ "roll" \in Timely => ~CanStart
  /\ ConGoes(Reporting("Unhealthy"))
  /\ UNCHANGED <<con, core, dep, bkp, zoneVars>>
  /\ ConRest

(* notifyGoodDNSZones: a zone is read afresh, and told if it passed.       *)
ConTellZone(z, cond, next) ==
  LET copy == zoneCache[z]
  IN  \/ copy.exists /\ ~copy.status.passed /\ ConGoes(next) /\ UNCHANGED zoneVars
      \/ /\ copy.exists /\ copy.status.passed /\ Accepts(copy, zones[z])
         /\ PutZone(z, [zones[z] EXCEPT !.status.cond = cond, !.status.ogen = copy.gen])
         /\ ConGoes(next)
      \/ /\ ~copy.exists \/ (copy.status.passed /\ ~Accepts(copy, zones[z]))
         /\ ConFail
         /\ UNCHANGED zoneVars

ConNotify(z) ==
  /\ ConAt("notify") /\ z \in cw.todo
  /\ ConTellZone(z, "Active", [cw EXCEPT !.todo = @ \ {z},
                                        !.pc = IF cw.todo = {z} THEN "active" ELSE @])
  /\ UNCHANGED <<con, core, dep, bkp>>
  /\ ConRest

(* The final status is always written: its transition time is new.         *)
ConActive ==
  /\ ConAt("active")
  /\ \/ /\ StoreConStatus([cond |-> "Active", ogen |-> cw.copy.gen, zones |-> cw.serials])
        /\ ConGoes(ConIdle)
     \/ "worker" \notin con.seen /\ UNCHANGED con /\ ConFail
  /\ UNCHANGED <<core, dep, bkp, zoneVars>>
  /\ ConRest

(* The status tells the error, then the error is returned.                 *)
ConReport ==
  /\ ConAt("report")
  /\ WriteConStatus(cw.status, ConFail)
  /\ UNCHANGED <<core, dep, bkp, zoneVars>>
  /\ ConRest

-----------------------------------------------------------------------------
(* reconcileDelete, after the Corefile.                                    *)

(* removeFinalizer on the connector the cache shows by now, unless that    *)
(* has none, then the list of the zones to tell.                           *)
ConRelease ==
  LET zs == GoodZones
      copy == con.cache
      next == IF zs = {} THEN ConIdle ELSE [ConIdle EXCEPT !.pc = "unnotify", !.todo = zs]
  IN  /\ ConAt("release")
      /\ \/ /\ copy.exists /\ copy.fin /\ "cache" \in con.seen
            /\ PutCon([con.now EXCEPT !.fin = FALSE])
            /\ ConGoes(next)
         \/ /\ copy.exists /\ ~copy.fin
            /\ UNCHANGED con
            /\ ConGoes(next)
         \/ /\ ~copy.exists \/ (copy.fin /\ "cache" \notin con.seen)
            /\ UNCHANGED con
            /\ ConFail
      /\ UNCHANGED <<core, dep, bkp, zoneVars>>
      /\ ConRest

ConUnnotify(z) ==
  /\ ConAt("unnotify") /\ z \in cw.todo
  /\ ConTellZone(z, "Pending", IF cw.todo = {z} THEN ConIdle ELSE [cw EXCEPT !.todo = @ \ {z}])
  /\ UNCHANGED <<con, core, dep, bkp>>
  /\ ConRest

ConWork ==
  \/ ConAttach \/ ConWriteCorefile \/ ConUpdating \/ ConHealthy \/ ConTimeout
  \/ ConActive \/ ConReport \/ ConRelease
  \/ \E z \in Zone : ConNotify(z) \/ ConUnnotify(z)

(* An API call fails: the two updates of CoreDNS and the health check are  *)
(* reported, the others just returned.                                     *)
ConFault ==
  /\ ~ConAt("idle")
  /\ faults < MaxFaults
  /\ faults' = faults + 1
  /\ \/ cw.pc = "attach" /\ cw' = Reporting("NotAttached") /\ UNCHANGED conQ
     \/ cw.pc = "corefile" /\ cw' = Reporting("NotWritten") /\ UNCHANGED conQ
     \/ cw.pc = "wait" /\ cw' = Reporting("Unhealthy") /\ UNCHANGED conQ
     \/ cw.pc \notin {"attach", "corefile", "wait"} /\ cw' = ConIdle /\ conQ' = TRUE
  /\ UNCHANGED <<con, core, dep, bkp, zoneVars>>
  /\ ConRest

=============================================================================
