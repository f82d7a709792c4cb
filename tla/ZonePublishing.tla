--------------------------- MODULE ZonePublishing ---------------------------
(***************************************************************************)
(* The record and the zone controller together, over one API server: how a *)
(* DNSRecord and a DNSZone become a zone file in a config map.             *)
(***************************************************************************)
EXTENDS RecordController, ZoneController

CONSTANTS
  InitRecordSpec,  \* what users applied before the operator started
  InitZoneSpec,
  MaxCrashes       \* bound: how often the operator restarts

ASSUME InitAssumption == /\ InitRecordSpec \subseteq RecordSpec
                         /\ InitZoneSpec \subseteq ZoneSpec
                         /\ MaxCrashes \in Nat

VARIABLE crashes

vars == <<clusterVars, recQ, zoneCtlVars, crashes>>

(* Everything but the queues and the worker of a started operator.         *)
Init ==
  /\ \E s \in [Record -> InitRecordSpec] : recs = [r \in Record |-> NewRecord(s[r])]
  /\ \E s \in [Zone -> InitZoneSpec] : zones = [z \in Zone |-> NewZone(s[z])]
  /\ cms = [n \in CMName |-> NoCM]
  /\ recFeed = [r \in Record |-> {}]
  /\ zoneFeed = [z \in Zone |-> {}]
  /\ cmFeed = [n \in CMName |-> {}]
  /\ recCache = recs
  /\ zoneCache = zones
  /\ cmCache = cms
  /\ recQ = Record
  /\ zoneQ = Zone
  /\ delayed = {<<r, recs[r].spec.ref, recs[r].rv>> : r \in Record}
  /\ zw = Idle
  /\ clock = 1
  /\ edits = 0 /\ faults = 0 /\ crashes = 0

(* The operator stops and starts again (or another replica takes the       *)
(* lease): caches are filled and every object is an event.                 *)
Restart ==
  LET existing == {r \in Record : recs[r].exists}
  IN  /\ crashes < MaxCrashes
      /\ crashes' = crashes + 1
      /\ recFeed' = [r \in Record |-> {}]
      /\ zoneFeed' = [z \in Zone |-> {}]
      /\ cmFeed' = [n \in CMName |-> {}]
      /\ recCache' = recs
      /\ zoneCache' = zones
      /\ cmCache' = cms
      /\ recQ' = existing
      /\ zoneQ' = {z \in Zone : zones[z].exists}
      /\ delayed' = {<<r, recs[r].spec.ref, recs[r].rv>> : r \in existing}
      /\ zw' = Idle
      /\ UNCHANGED <<apiVars, edits, clock, faults>>

(* The watch hands an event to both controllers.                           *)
DeliverRecord(r) ==
  /\ \E v \in recFeed[r] :
       TakeRecord(r, v) /\ RecordEvent(r, v) /\ RecordEventForZones(r, v)
  /\ UNCHANGED <<apiVars, zoneFeed, cmFeed, zoneCache, cmCache, edits,
                 zoneQ, zw, clock, faults, crashes>>

DeliverZone(z) ==
  /\ \E v \in zoneFeed[z] : TakeZone(z, v) /\ ZoneEvent(z, v)
  /\ UNCHANGED <<apiVars, recFeed, cmFeed, recCache, cmCache, edits,
                 recQ, delayed, zw, clock, faults, crashes>>

(* Config maps are cached but their events reach no controller.            *)
DeliverCM(n) ==
  /\ \E v \in cmFeed[n] : TakeCM(n, v)
  /\ UNCHANGED <<apiVars, recFeed, zoneFeed, recCache, zoneCache, edits,
                 recQ, zoneCtlVars, crashes>>

(* The record controller is done with the version the cache shows.         *)
RecordSettled(r) == /\ recFeed[r] = {}
                    /\ r \in recQ => /\ recCache[r].exists
                                     /\ ~ValidData(recCache[r].spec.data)
                                     /\ recCache[r].status = CheckedStatus(recCache[r])

(* notifyGoodDNSZones: the connector reports on a zone that passed.        *)
ConnectorNotify(z, cond) ==
  LET copy == zoneCache[z]
  IN  /\ "notify" \in UserOp /\ edits < MaxEdits
      /\ edits' = edits + 1
      /\ copy.exists /\ copy.status.passed
      /\ Accepts(copy, zones[z])
      /\ PutZone(z, [zones[z] EXCEPT !.status.cond = cond, !.status.ogen = copy.gen])
      /\ UNCHANGED <<recordVars, cmVars, cacheVars>>

RecordCtl == \E r \in Record : RecordReconcile(r) /\ UNCHANGED <<zoneCtlVars, crashes>>

ZoneCtl == ((\E z \in Zone : ZoneBegin(z)) \/ ZoneWork \/ ZoneFault)
           /\ UNCHANGED <<recQ, crashes>>

Delay == \E r \in Record, z \in Zone :
           /\ "delay" \in Timely => RecordSettled(r)
           /\ DelayExpires(r, z)
           /\ UNCHANGED <<recQ, crashes>>

Deliver == \/ \E r \in Record : DeliverRecord(r)
           \/ \E z \in Zone : DeliverZone(z)
           \/ \E n \in CMName : DeliverCM(n)

Operator == RecordCtl \/ ZoneCtl

Environment ==
  \/ (UserStep \/ (\E z \in Zone, c \in {"Active", "Pending"} : ConnectorNotify(z, c))
               \/ (\E n \in CMName : GarbageCollect(n)))
     /\ UNCHANGED <<recQ, zoneCtlVars, crashes>>
  \/ Tick /\ UNCHANGED <<recQ, crashes>>

Next == Operator \/ Delay \/ Deliver \/ Environment \/ Restart

Spec == Init /\ [][Next]_vars

(* The API server's watch, the work queues and the timers all make         *)
(* progress; a work queue is first in, first out, so no zone is passed     *)
(* over for ever.  Users, faults, restarts and the clock owe nothing.      *)
Fairness ==
  /\ \A r \in Record :
       /\ WF_vars(DeliverRecord(r))
       /\ WF_vars(RecordReconcile(r) /\ UNCHANGED <<zoneCtlVars, crashes>>)
  /\ \A z \in Zone :
       /\ WF_vars(DeliverZone(z))
       /\ SF_vars(ZoneBegin(z) /\ UNCHANGED <<recQ, crashes>>)
  /\ \A n \in CMName :
       /\ WF_vars(DeliverCM(n))
       /\ WF_vars(GarbageCollect(n) /\ UNCHANGED <<recQ, zoneCtlVars, crashes>>)
  /\ WF_vars(ZoneWork /\ UNCHANGED <<recQ, crashes>>)
  /\ WF_vars(Delay)

FairSpec == Spec /\ Fairness

-----------------------------------------------------------------------------
(* Properties.                                                             *)

(* Every variable has its type.                                            *)
TypeOK ==
  /\ recs \in [Record -> RecordObj] /\ recCache \in [Record -> RecordObj]
  /\ zones \in [Zone -> ZoneObj] /\ zoneCache \in [Zone -> ZoneObj]
  /\ cms \in [CMName -> CMObj] /\ cmCache \in [CMName -> CMObj]
  /\ recFeed \in [Record -> SUBSET RecordObj]
  /\ zoneFeed \in [Zone -> SUBSET ZoneObj]
  /\ cmFeed \in [CMName -> SUBSET CMObj]
  /\ recQ \subseteq Record /\ zoneQ \subseteq Zone
  /\ delayed \subseteq Record \X Zone \X Nat
  /\ zw \in Worker
  /\ clock \in Nat /\ edits \in Nat /\ faults \in Nat /\ crashes \in Nat

(* A zone file in a config map parses, whatever users write and however    *)
(* the caches lag: CoreDNS is never handed a file that fails validation.   *)
PublishedFilesParse == \A n \in CMName : cms[n].exists => ValidFile(cms[n].file)

(* The operator, which writes whole objects back from cached copies, never *)
(* reverts a user's edit of a spec and never takes back a deletion.        *)
UserIntentKept ==
  [][edits' = edits =>
       /\ \A r \in Record : /\ recs'[r].spec = recs[r].spec
                            /\ recs[r].deleting => recs'[r].deleting
       /\ \A z \in Zone : /\ zones'[z].spec = zones[z].spec
                          /\ zones[z].deleting => zones'[z].deleting]_vars

(* A status that reports a zone as built from the present spec tells the   *)
(* truth: the config map it names holds a file with that spec's header.    *)
StatusDescribesFile ==
  \A z \in Zone :
    LET st == zones[z].status
        cm == cms[<<st.prefix, z>>]
    IN  zones[z].exists /\ st.cond = "Pending" /\ st.ogen = zones[z].gen /\ cm.exists
          => /\ st.prefix = zones[z].spec.prefix
             /\ cm.file.hdr = zones[z].spec.hdr

(* "checkpoint" tells the connector that a good version of the zone is     *)
(* there to go on with: its config map exists and parses.                  *)
CheckpointHasFile ==
  \A z \in Zone :
    zones[z].exists /\ ~zones[z].deleting /\ zones[z].status.checkpoint
      => LET cm == cms[<<zones[z].status.prefix, z>>]
         IN  cm.exists /\ ValidFile(cm.file)

(* A zone that should be served, and the file it should be served from.    *)
Publishable(z) == zones[z].exists /\ ~zones[z].deleting /\ zones[z].spec.hdr \notin BadHeader

DesiredFile(z) ==
  [hdr |-> zones[z].spec.hdr,
   entries |-> {<<r, recs[r].spec.data>> :
                  r \in {q \in Record : /\ recs[q].exists
                                        /\ recs[q].spec.ref = z
                                        /\ ValidData(recs[q].spec.data)}}]

(* Once users stop, the config map of every zone that parses holds exactly *)
(* its present header and its present good records.                        *)
FilesConverge ==
  <>[](\A z \in Zone : Publishable(z) =>
         LET cm == cms[CMOf(z, zones[z].spec)]
         IN  cm.exists /\ cm.file = DesiredFile(z))

(* Once users stop, the status of every record states the verdict on its   *)
(* present spec, and a good record of a zone that is served is Ready.      *)
RecordStatusConverges ==
  <>[](\A r \in Record : recs[r].exists =>
         LET st == recs[r].status
             good == ValidData(recs[r].spec.data)
         IN  /\ st.passed = good /\ st.entry = recs[r].spec.data
             /\ st.ogen = recs[r].gen
             /\ ~good => st.cond = "Degraded"
             /\ good /\ Publishable(recs[r].spec.ref) => st.cond = "Ready")

(* Nothing is left to do: no event, no key, no running reconciliation.     *)
Quiescent ==
  /\ \A r \in Record : RecordSettled(r)
  /\ \A z \in Zone : zoneFeed[z] = {}
  /\ \A n \in CMName : cmFeed[n] = {}
  /\ delayed = {} /\ zoneQ = {} /\ zw = Idle

(* The same as FilesConverge, as an invariant: an operator with nothing    *)
(* left to do has published what users asked for.  No event was lost on    *)
(* the way from a record, through two controllers, to the zone file.       *)
QuiescentFilesRight ==
  Quiescent => \A z \in Zone : Publishable(z) =>
                 LET cm == cms[CMOf(z, zones[z].spec)]
                 IN  cm.exists /\ cm.file = DesiredFile(z)

(* The same for the statuses of records: nothing is left to do only when   *)
(* each states the verdict on the present spec, and each good record of a  *)
(* zone that is there was told that it joined, although both controllers   *)
(* write the condition and the loop over the records may fail in between.  *)
QuiescentRecordsRight ==
  Quiescent => \A r \in Record : recs[r].exists =>
    LET st == recs[r].status
        zone == zones[recs[r].spec.ref]
        good == ValidData(recs[r].spec.data)
    IN  /\ st.passed = good /\ st.entry = recs[r].spec.data
        /\ st.ogen = recs[r].gen
        /\ ~good => st.cond = "Degraded"
        /\ good /\ zone.exists /\ ~zone.deleting => st.cond = "Ready"

(* Deletions of records and of zones complete: no finalizer is held for    *)
(* ever.                                                                   *)
DeletionsComplete ==
  <>[](/\ \A r \in Record : recs[r].exists => ~recs[r].deleting
       /\ \A z \in Zone : zones[z].exists => ~zones[z].deleting)

(* The same as an invariant: nothing is left to do only when no object     *)
(* that is marked for deletion is there any more.  No finalizer is held by *)
(* a mark that came while its controller was busy, by a write that         *)
(* conflicted or by a loop over the records that failed half way.          *)
RestingNothingHeld ==
  Quiescent => /\ \A r \in Record : recs[r].exists => ~recs[r].deleting
               /\ \A z \in Zone : zones[z].exists => ~zones[z].deleting

(* Once users stop, no record of a zone that is gone is left Ready.  It is *)
(* checked where records stay with their zone: one that moves to a zone    *)
(* that is gone while the loop at the end of the old zone's reconciliation *)
(* runs is set Ready for good.                                             *)
NoReadyWithoutZone ==
  <>[](\A r \in Record : recs[r].exists /\ ~zones[recs[r].spec.ref].exists
                           => recs[r].status.cond # "Ready")

(* With a zone whose prefix never changed its config map disappears: the   *)
(* finalizers of both and the garbage collector let it go.                 *)
CMsGoWithZone ==
  <>[](\A z \in Zone : ~zones[z].exists =>
         \A p \in Prefix : ~cms[<<p, z>>].exists)

-----------------------------------------------------------------------------
(* What the documentation says and the code does not do.                   *)

(* docs/dnsrecords.md: a Ready record has been added to the zone file.     *)
ReadyMeansJoined ==
  \A r \in Record :
    recs[r].exists /\ recs[r].status.cond = "Ready"
      => \E p \in Prefix : LET cm == cms[<<p, recs[r].spec.ref>>]
                           IN  cm.exists /\ <<r, recs[r].status.entry>> \in cm.file.entries

(* docs/qa/dev-manual-qa-guide.md: the serial in the status of a zone is   *)
(* the serial of the file that is served.                                  *)
SerialsAgree ==
  <>[](\A z \in Zone : Publishable(z) =>
         zones[z].status.serial = cms[CMOf(z, zones[z].spec)].serial)

(* docs/qa/dev-manual-qa-guide.md: a bad zone that is fixed is reconciled  *)
(* and served again.                                                       *)
FixedZoneRecovers ==
  <>[](\A z \in Zone : Publishable(z) => zones[z].status.passed)

=============================================================================
