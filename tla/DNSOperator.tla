----------------------------- MODULE DNSOperator -----------------------------
(***************************************************************************)
(* The whole operator: ZonePublishing's two controllers and the connector, *)
(* over one API server, with CoreDNS and its rollouts as environment.      *)
(***************************************************************************)
EXTENDS ZonePublishing, Connector

CONSTANT InitConSpec  \* what users applied before the operator started

ASSUME InitConAssumption == InitConSpec \subseteq ConSpec

opVars == <<vars, conVars>>
pubVars == <<clusterVars, recQ, zoneCtlVars, crashes>>

ConInit ==
  /\ \E s \in InitConSpec : con = Synced(NewCon(s))
  /\ core = Synced([text |-> CHOOSE t \in CoreText : TRUE, blocks |-> {}])
  /\ bkp = [exists |-> FALSE, seen |-> FALSE, file |-> core.now]
  /\ dep = Synced([vols |-> {}, mounts |-> {}, phase |-> "done"])
  /\ pods = [files |-> {}, core |-> core.now]
  /\ conQ = TRUE /\ conDelay = TRUE
  /\ cw = ConIdle

(* Zones are not given the domain of another zone.                         *)
DistinctDomains ==
  \A y, z \in Zone : y # z /\ zones[y].exists /\ zones[z].exists
    => DomainOf[zones[y].spec.hdr] # DomainOf[zones[z].spec.hdr]

OpInit == Init /\ ConInit /\ ("calm" \in Timely => DistinctDomains)

-----------------------------------------------------------------------------
(* Users.                                                                  *)

ConUser(op) == User(op) /\ UNCHANGED <<apiVars, feedVars, recQ, zoneCtlVars, crashes,
                                       dep, bkp, pods, conQ, conDelay, cw>>

CreateConnector ==
  /\ ConUser("createConnector")
  /\ ~con.now.exists
  /\ \E s \in ConSpec : con' = Put(con, [NewCon(s) EXCEPT !.gen = con.now.gen + 1])
  /\ UNCHANGED core

EditConnector ==
  /\ ConUser("editConnector")
  /\ con.now.exists
  /\ \E s \in ConSpec \ {con.now.spec} :
       con' = Put(con, [con.now EXCEPT !.spec = s, !.gen = @ + 1])
  /\ UNCHANGED core

DeleteConnector ==
  /\ ConUser("deleteConnector")
  /\ con.now.exists /\ ~con.now.deleting
  /\ PutCon(DeletedCR(con.now))
  /\ UNCHANGED core

EditCorefile ==
  /\ ConUser("editCorefile")
  /\ \E t \in CoreText \ {core.now.text} : core' = Put(core, [core.now EXCEPT !.text = t])
  /\ UNCHANGED con

-----------------------------------------------------------------------------
(* CoreDNS (external): the workload's controller, the pods, and the reload *)
(* plugin.                                                                 *)

CoreDNSRest == UNCHANGED <<pubVars, con, core, bkp, conQ, conDelay, cw>>

RolloutBegins ==
  /\ dep.now.phase = "changed"
  /\ dep' = Put(dep, [dep.now EXCEPT !.phase = "rolling"])
  /\ UNCHANGED pods
  /\ CoreDNSRest

(* A zone file is mounted with subPath: a pod keeps the file it started    *)
(* with.                                                                   *)
MountedFiles ==
  {LET v == CHOOSE w \in dep.now.vols : w.name = m.name
   IN  [key |-> m.key, file |-> cms[v.cm].file, serial |-> cms[v.cm].serial] :
     m \in dep.now.mounts}

RolloutEnds ==
  /\ dep.now.phase = "rolling"
  /\ CanStart
  /\ "roll" \in Timely => ~ConAt("corefile")
  /\ dep' = Put(dep, [dep.now EXCEPT !.phase = "done"])
  /\ pods' = [files |-> MountedFiles, core |-> core.now]
  /\ CoreDNSRest

Reload ==
  /\ pods.core # core.now /\ Parses(core.now)
  /\ pods' = [pods EXCEPT !.core = core.now]
  /\ UNCHANGED dep
  /\ CoreDNSRest

CoreDNS == RolloutBegins \/ RolloutEnds \/ Reload

-----------------------------------------------------------------------------
(* Events.                                                                 *)

DeliverCon ==
  /\ "cache" \notin con.seen
  /\ con' = CaughtUp(con)
  /\ conQ' = (conQ \/ IsEvent(con.cache, con.now))
  /\ UNCHANGED <<pubVars, core, dep, bkp, pods, conDelay, cw>>

(* The Corefile or its backup reaches the cache.                           *)
DeliverCore ==
  /\ \/ "cache" \notin core.seen /\ core' = CaughtUp(core) /\ UNCHANGED bkp
     \/ bkp.exists /\ ~bkp.seen /\ bkp' = [bkp EXCEPT !.seen = TRUE] /\ UNCHANGED core
  /\ UNCHANGED <<pubVars, con, dep, pods, conQ, conDelay, cw>>

DeliverDep ==
  /\ "cache" \notin dep.seen
  /\ dep' = CaughtUp(dep)
  /\ UNCHANGED <<pubVars, con, core, bkp, pods, conQ, conDelay, cw>>

(* Any new version of a zone sends its connector an event; the map         *)
(* function sleeps on it.                                                  *)
DeliverZoneToAll(z) ==
  /\ DeliverZone(z)
  /\ conDelay' = TRUE
  /\ UNCHANGED <<con, core, dep, bkp, pods, conQ, cw>>

(* dnsZoneChangedReconcileRequest, after its sleep                         *)
ConDelayExpires ==
  /\ conDelay
  /\ "con" \in Timely => zw = Idle /\ zoneQ = {} /\ \A n \in CMName : cmFeed[n] = {}
  /\ conDelay' = FALSE
  /\ conQ' = TRUE
  /\ UNCHANGED <<pubVars, con, core, dep, bkp, pods, cw>>

(* The connector's part of a restart of the operator.                      *)
RestartAll ==
  /\ Restart
  /\ con' = Synced(con.now) /\ core' = Synced(core.now) /\ dep' = Synced(dep.now)
  /\ bkp' = [bkp EXCEPT !.seen = bkp.exists]
  /\ conQ' = con.now.exists
  /\ conDelay' = (\E z \in Zone : zones[z].exists)
  /\ cw' = ConIdle
  /\ UNCHANGED pods

-----------------------------------------------------------------------------
ConRestOfOperator == UNCHANGED <<recQ, delayed, zoneQ, zw, clock, crashes>>

ConCtl == (ConBegin \/ ConWork \/ ConFault) /\ ConRestOfOperator

Publishing ==
  \/ Operator \/ Delay \/ Environment
  \/ \E r \in Record : DeliverRecord(r)
  \/ \E n \in CMName : DeliverCM(n)

(* The connector is done, and CoreDNS runs with what it was given.         *)
ConAtRest ==
  /\ \A o \in {con.seen, core.seen, dep.seen} : "cache" \in o
  /\ cw = ConIdle /\ ~conQ
  /\ dep.now.phase = "done" /\ pods.core = core.now

(* Or it reports that its present spec fails, or fails to restore the      *)
(* Corefile, and tries again and again.                                    *)
ConSettled ==
  \/ ConAtRest
  \/ /\ con.cache = con.now /\ con.now.exists /\ con.now.deleting
     /\ bkp.exists = bkp.seen /\ ~CanRestore(con.now) /\ cw = ConIdle
  \/ /\ con.now.status.cond \in {"NoCorefile", "NoWorkload", "Unhealthy"}
     /\ con.now.status.ogen = con.now.gen

(* Nothing is left to do for the operator and for CoreDNS.                 *)
OpQuiescent == Quiescent /\ ~conDelay /\ ConSettled

OpStep ==
  \/ Publishing /\ UNCHANGED conVars
  \/ \E z \in Zone : DeliverZoneToAll(z)
  \/ ConCtl
  \/ DeliverCon \/ DeliverCore \/ DeliverDep \/ ConDelayExpires
  \/ CoreDNS
  \/ CreateConnector \/ EditConnector \/ DeleteConnector \/ EditCorefile
  \/ RestartAll

(* A calm cluster: users do one thing at a time and wait until all is      *)
(* reconciled, and failures and restarts find the zone controller at rest. *)
Calm == "calm" \in Timely =>
  /\ edits' # edits => OpQuiescent
  /\ faults' # faults \/ crashes' # crashes => zw = Idle /\ zoneQ = {}
  /\ DistinctDomains'

OpNext == OpStep /\ Calm

OpSpec == OpInit /\ [][OpNext]_opVars

(* On top of ZonePublishing's: the connector's watch, queue, timer and     *)
(* worker, and CoreDNS's rollouts and reloads, make progress.              *)
OpFairness ==
  /\ Fairness
  /\ WF_opVars(DeliverCon) /\ WF_opVars(DeliverCore) /\ WF_opVars(DeliverDep)
  /\ WF_opVars(ConDelayExpires)
  /\ WF_opVars((ConBegin \/ ConWork) /\ ConRestOfOperator)
  /\ WF_opVars(CoreDNS)

OpFairSpec == OpSpec /\ OpFairness

-----------------------------------------------------------------------------
(* Properties.                                                             *)

BlockDomains(file) == {b[1] : b \in file.blocks}

(* Every variable of the connector has its type.                           *)
ConTypeOK ==
  /\ con \in Watched(ConObj) /\ core \in Watched(Corefile) /\ dep \in Watched(Workload)
  /\ bkp \in Backup
  /\ pods \in [files : SUBSET [key : Domain, file : File, serial : Nat], core : Corefile]
  /\ conQ \in BOOLEAN /\ conDelay \in BOOLEAN
  /\ cw \in ConWorker

(* The Corefile is given a domain only after the workload was given a      *)
(* mount for its zone file, whatever fails or restarts in between: CoreDNS *)
(* is never told to serve a file that no pod will have.                    *)
BlockAfterMount ==
  [][\A d \in BlockDomains(core'.now) \ BlockDomains(core.now) :
       \E m \in dep.now.mounts : m.key = d]_opVars

(* A connector that is gone has taken all its blocks out of the Corefile.  *)
NoBlocksWithoutConnector == con.now.exists \/ core.now.blocks = {}

(* The operator never reverts a user's edit of the connector, takes back   *)
(* its deletion, or overwrites a user's edit of the Corefile, except when  *)
(* it restores the Corefile for a connector it sees deleted.               *)
ConnectorIntentKept ==
  [][edits' = edits =>
       /\ con'.now.spec = con.now.spec
       /\ con.now.deleting => con'.now.deleting
       /\ core'.now.text # core.now.text => con.cache.deleting]_opVars

(* A zone that once passed is served from its last good version: whatever  *)
(* becomes of other zones or of its own spec, the domain of its file stays *)
(* in the Corefile as long as zone, file and connector exist (for headers  *)
(* of one domain; a zone may not move to another domain meanwhile).        *)
KeepsServing ==
  [][\A z \in Zone :
       LET cm == cms[<<zones[z].status.prefix, z>>]
           promised == /\ zones[z].exists /\ zones[z].status.checkpoint /\ cm.exists
                       /\ con.now.exists /\ ~con.now.deleting
           d == DomainOf[cm.file.hdr]
       IN  promised /\ d \in BlockDomains(core.now) => d \in BlockDomains(core'.now)]_opVars

(* A connector at rest has done its work: it says Active for its present   *)
(* spec, and every zone that ever passed, be its spec good or bad by now,  *)
(* is in the Corefile and in the status, and CoreDNS has a file for it     *)
(* that parses.  No zone event was lost on the way, whatever failed.       *)
RestingServesAll ==
  /\ ConAtRest /\ ~conDelay /\ \A z \in Zone : zoneFeed[z] = {}
  /\ con.now.exists /\ ~con.now.deleting
  => /\ con.now.status.cond = "Active" /\ con.now.status.ogen = con.now.gen
     /\ \A z \in Zone :
          LET cm == cms[<<zones[z].status.prefix, z>>]
              d == DomainOf[cm.file.hdr]
          IN  zones[z].exists /\ zones[z].status.checkpoint /\ cm.exists
                => /\ d \in BlockDomains(pods.core)
                   /\ \E f \in pods.files : f.key = d /\ DomainOf[f.file.hdr] = d
                                           /\ ValidFile(f.file)
                   /\ \E e \in con.now.status.zones : e[1] = z

(* At rest no connector waits for its deletion, and when it is gone        *)
(* CoreDNS runs without its blocks: no mark of deletion is overlooked,     *)
(* whatever failed, restarted or was edited between the restoring of the   *)
(* Corefile and the removal of the finalizer.                              *)
RestingConnectorGone ==
  ConAtRest => IF con.now.exists THEN ~con.now.deleting ELSE pods.core.blocks = {}

(* What the owner of the Corefile is promised: Custody's variables are the *)
(* stored connector, Corefile, backup and workload.                        *)
Custody == INSTANCE CorefileCustody WITH
  held <- con.now.exists /\ con.now.fin,
  marked <- con.now.exists /\ con.now.deleting,
  corefile <- core.now,
  saved <- IF bkp.exists THEN {bkp.file} ELSE {},
  mounted <- {m.key : m \in dep.now.mounts}

(* Whatever users do, however the caches lag and wherever the operator     *)
(* stops: the Corefile is taken, saved, served from, restored and released *)
(* in this order, and its owner's text is never written by the way.        *)
ImplementsCustody == Custody!Spec

(* CoreDNS answers for a zone from its desired file.                       *)
Served(z) ==
  LET d == DomainOf[zones[z].spec.hdr]
  IN  /\ d \in BlockDomains(pods.core)
      /\ \E f \in pods.files : /\ f.key = d
                              /\ f.file = DesiredFile(z)
                              /\ <<z, f.serial>> \in con.now.status.zones

UsableCon == /\ con.now.exists /\ ~con.now.deleting
             /\ con.now.spec.corefile = "found" /\ con.now.spec.workload
             /\ con.now.spec.plugins \notin BadPlugins

(* Once users stop, CoreDNS serves every zone as its spec and its records  *)
(* ask, the connector is Active and lists the serials that are served.     *)
ServedInTheEnd ==
  <>[](UsableCon => /\ con.now.status.cond = "Active"
                    /\ con.now.status.ogen = con.now.gen
                    /\ \A z \in Zone : Publishable(z) => Served(z))

(* A deleted connector goes away, and CoreDNS returns to a Corefile        *)
(* without its blocks, unless the deletion lacks what it looks up by the   *)
(* name in the spec: a Corefile that was backed up, and a config map of    *)
(* the name that the spec has by then.                                     *)
ConnectorGoesAway ==
  <>[](con.now.deleting =>
         IF con.now.exists THEN ~bkp.exists \/ con.now.spec.corefile = "noMap"
                           ELSE pods.core.blocks = {})

-----------------------------------------------------------------------------
(* What the documentation says and the code does not do.                   *)

(* docs/dnsconnector.md: Active means up to date with the latest changes.  *)
ActiveMeansServed ==
  <>[](con.now.status.cond = "Active" => \A z \in Zone : Publishable(z) => Served(z))

(* docs/qa/dev-manual-qa-guide.md: the zones of a removed connector become *)
(* Pending.                                                                *)
ZonesLearnOfRemoval ==
  <>[](~con.now.exists => \A z \in Zone : zones[z].exists => zones[z].status.cond # "Active")

=============================================================================
