# Verification of the CoreDNS manager operator

TLA+ models, TLC runs and TLAPS proofs for the operator under `src/`: three
Kubernetes controllers in one process that turn `DNSRecord` and `DNSZone`
objects into zone files, and hang the zone files into a CoreDNS deployment.

* [The system](#the-system): components, state and hazards
* [The modules](#the-modules): what models what, and how state and steps correspond
* [Abstractions](#abstractions): what is merged, left out or bounded, and why that is sound
* [Runs](#runs), [Fairness and timing](#fairness-and-timing), [Findings](#findings)
* [The refinement](#the-refinement) and the [Proofs](#proofs)
* [Not modelled](#not-modelled)

## The system

| component | source | state it keeps | operations |
|---|---|---|---|
| DNSRecord controller | `internal/controller/dnsrecord_controller.go`, `dnsrecord_construction.go` | work queue; `DNSRecord.status` (rendered entry, verdict, condition), record finalizer | add finalizer; render and validate a record; release a deleted record |
| DNSZone controller | `internal/controller/dnszone_controller.go`, `dnszone_construction.go` | work queue; sleeping record events; `DNSZone.status` (verdict, checkpoint, serial, config map name, condition), zone finalizer; the zone's config map and its finalizer; the condition of records | bake the good records into a zone file, validate, create or update the config map, report, notify records; on deletion release the config map, notify records, release the zone |
| DNSConnector controller | `internal/controller/dnsconnector_controller.go` | work queue; `DNSConnector.status`; the Corefile config map, its backup, the CoreDNS workload; the condition of zones | back up the Corefile, generate it anew, mount zone config maps, wait for health, notify zones; on deletion restore the Corefile |
| Corefile and volumes | `internal/controller/dnsconnector_construction.go` | none (pure) | generate the Corefile's managed blocks; compute volumes and mounts |
| Finalizers and lookup | `finalizers.go`, `obj_lookup.go` | none | read an object from the cache, add or remove a finalizer, write the whole object |
| API types | `api/v1alpha1/*_types.go` | none | specs and statuses; serial generation; FQDN handling |
| Manager | `cmd/main.go` | the shared watch cache | start the controllers; leader election |
| API server, watch cache, garbage collector | external | all objects, with resource versions and finalizers | optimistic concurrency, ordered watch, background deletion of orphans |

**How they interact.** The controllers never call each other. They share the
API objects, which they read from one lagging cache and write directly:

    user -> DNSRecord.spec -> [record controller] -> DNSRecord.status
                 |                                        |
                 +--- event, 3 s sleep --> [zone controller] <-- DNSZone.spec <- user
                                             |   |   |
              config map with zone file <----+   |   +--> DNSRecord.status.conditions
                                                 +------> DNSZone.status
                                                              |
                                    [connector controller] <--+ event, 3 s sleep

A record reaches its zone file through two controllers that are woken by the
same event. `GenerationChangedPredicate` hides status updates from both, so the
verdict of the record controller wakes nobody: the zone controller counts on a
fixed sleep to see it.

**What is hard here.** Every reconciliation is a sequence of API writes made
from copies that may be stale by then, and may stop after any of them. Three
actors (the record controller, the zone controller, the connector) write the
same status fields. The connector changes two objects of CoreDNS, one after the
other, and must then tell from outside whether CoreDNS came up with both. Objects are written back whole, so a lost conflict check
would revert users' edits. The next attempt decides what to do by comparing
with the cache, which may not show the last attempt's writes. Deletions run
through finalizers on three kinds of objects. `PROJECT.json` lists these hazards
one by one with their source lines.

**What makes each component correct.**

* Record controller: the status ends up stating the verdict on the present
  spec, and a good record of a zone that is there ends up Ready (`RecordStatusConverges`,
  `QuiescentRecordsRight`); deletions complete (`DeletionsComplete`,
  `RestingNothingHeld`).
* Zone controller: only files that parse are published (`PublishedFilesParse`);
  the file of a zone ends up with its header and exactly its good records
  (`FilesConverge`, `QuiescentFilesRight`); a status never claims a file that is not there
  (`StatusDescribesFile`, `CheckpointHasFile`); zones go away, take their
  config map along and leave no record Ready (`DeletionsComplete`, `RestingNothingHeld`,
  `CMsGoWithZone`, `NoReadyWithoutZone`).
* Finalizer helpers: no edit and no deletion by a user is ever undone
  (`UserIntentKept`).
* Both together: what is published is a bake of one version of the zone and one of each
  record, and never goes back to older versions (`ImplementsPublication`).
* Connector: no domain enters the Corefile before its file is mounted (`BlockAfterMount`),
  none is dropped while its zone has a good version (`KeepsServing`), none is left by a
  connector that is gone (`NoBlocksWithoutConnector`), users' edits of the connector and of
  the Corefile survive (`ConnectorIntentKept`), and a connector that comes to rest has forgotten
  no zone and no refused update (`RestingServesAll`), nor its own deletion (`RestingConnectorGone`).
  Its dealings with the Corefile are those of a custodian (`ImplementsCustody`).
* The whole operator: CoreDNS ends up serving every zone from its desired file, and the
  connector says so (`ServedInTheEnd`); a deleted connector that has what its deletion looks up
  goes away and CoreDNS runs without its blocks (`ConnectorGoesAway`).

## The modules

| module | models |
|---|---|
| `Cluster` | API server, watch cache, users, garbage collector |
| `RecordController` | `DNSRecordReconciler` |
| `ZoneController` | `DNSZoneReconciler` |
| `ZonePublishing` | both controllers over one cluster: start, restart, event delivery; the specification and its properties |
| `Layout` | `dnsconnector_construction.go`: Corefile blocks, volumes, mounts |
| `Connector` | `DNSConnectorReconciler` |
| `DNSOperator` | the three controllers together, with CoreDNS; the specification and its properties |
| `ZoneSerial` | `DNSZoneGenerateSerial` and the order of serials, with its theorems |
| `Publication` | abstract: what the record and the zone controller promise |
| `PublicationRefinement` | history variables and the mapping from `ZonePublishing` to `Publication` |
| `CorefileCustody` | abstract: what the connector promises to the owner of the Corefile |
| `MCZonePublishing`, `MCPublication`, `MCOperator` | constants for TLC |
| `ZonePublishingProofs`, `WatchProofs`, `StatusProofs`, `EventProofs`, `PublicationProofs`, `LayoutProofs`, `ConnectorProofs` | theorems, lemmas and their proofs |

### Cluster

`recs`, `zones`, `cms` map names to stored objects; a name whose object does not
exist keeps its resource version, so versions are never reused. `PutRecord`,
`PutZone` and `PutCM` are API writes: a write that changes nothing makes no
version, any other increments `rv` and appends the version to the object's feed
(`recFeed`, ...); an object marked for deletion goes away when a write leaves it
without a finalizer. `Accepts` is the conflict check of
`Update` and `Status().Update`. `TakeRecord` and its siblings move the oldest
undelivered version of an object into the cache (`recCache`, ...), which is what
every `r.Get` and `r.List` of the operator reads. `IsEvent` is
`GenerationChangedPredicate`. The user operations are those of `UserStep`;
`CONSTANT UserOp` says which an instance allows, `MaxEdits` how many.

The API server is not under `src/`. It is modelled from how the
controllers use it, and marked external in the map.

### RecordController

One reconciliation is one step (`RecordReconcile`): not found, add the finalizer,
delete, or validate. Its single write is made from the cached copy and accepted
only if that is current. The key stays in `recQ` after an error and after
`Requeue: true`.

### ZoneController

One worker (`MaxConcurrentReconciles` is 1) with the state `zw`. `zw.pc` names
the next API write; everything between two writes belongs to one step.

| `zw.pc` | step | code |
|---|---|---|
| idle | `ZoneNotFound`, `ZoneAddFinalizer`, `ZoneStartDelete`, `ZoneStartUpdate` | `Reconcile`; up to the first write of the two branches |
| invalid | `ZoneInvalid` | the status of a zone that fails validation; returns nil |
| create, update | `ZoneCreateCM`, `ZoneUpdateCM` | `r.Create`, `r.Update` of the config map |
| status | `ZonePublish` | the status write at the end of `createOrUpdateZoneCM` |
| cmfin | `ZoneAddCMFinalizer` | `addFinalizer` on the config map |
| join | `ZoneJoin` | the loop that tells records they joined |
| unjoin, zonefin | `ZoneUnjoin`, `ZoneRemoveFinalizer` | the loop and the end of `reconcileDelete` |

`zw.copy`, `zw.file` and `zw.todo` are the copy of the zone, the zone file and the
list of records of the start: that they grow stale is the point. `Fail` is every
`return err`. `delayed` holds the record events whose map function is in its
`time.Sleep`. `ZoneFault` lets any API call of the worker fail.

### ZonePublishing

`Next` interleaves both controllers, the ends of sleeps, the delivery of
versions, users, the connector's reports on zones (`ConnectorNotify`), the
garbage collector, the clock and `Restart`. A restart drops the queues, the timers
and the worker, fills the caches and queues every object that exists; a change
of the leader is the same.

### Layout and Connector

`Layout` holds the three pure functions: the desired volumes, the volumes and
mounts that result from attaching them to a workload that has some already, and the
Corefile with one block per domain.

The connector, the Corefile config map and the CoreDNS workload are *watched objects*:
a record of what is stored (`now`), what the cache shows (`cache`), and who has seen the
stored version (`seen`, a set of "cache" and "worker"). Any write empties `seen`, except that the
worker keeps its own; a write whose author is not in it conflicts. Resource versions are
therefore not counted, and a connector that fails for ever, each time with another
status, has finitely many states. `bkp` is the backup, which is written once and so needs no more than
whether it exists and whether the cache has it; `pods` is what CoreDNS runs with.
One worker with the state `cw`; its copy of the connector, the text of the Corefile and the collected domains
are those of the start.

| `cw.pc` | step | code |
|---|---|---|
| idle | `ConNotFound`, `ConAddFinalizer`, `ConBackup`, `ConRestore` | `Reconcile`; `backupOriginalCorefileCM`; `restoreOriginalCorefileCM` |
| attach | `ConAttach` | `fetchGoodZones`, `fetchGoodZonefileCM`, `setZoneFileConifgMaps`, the update of the workload |
| corefile | `ConWriteCorefile` | `generateCorefileCM` and its update |
| updating | `ConUpdating` | the status Updating |
| wait | `ConHealthy`, `ConTimeout` | `corednsIsHealthy` |
| notify | `ConNotify` | `notifyGoodDNSZones`, "Active" |
| active | `ConActive` | the final status with the serials |
| report | `ConReport` | the status of an error, before it is returned |
| release, unnotify | `ConRelease`, `ConUnnotify` | the end of `reconcileDelete`: `removeFinalizer`, then "Pending" |

`ConFault` lets any API call of the worker fail; a failure of the calls whose error is reported
leads to `report`.

### DNSOperator

`OpStep` interleaves the steps of `ZonePublishing` with those of the connector, its watches
and its timer, users of the connector and the Corefile, and CoreDNS. Any new version of a zone
starts the connector's sleep (`conDelay`), as its map function has no event filter. CoreDNS is external: an update of
the workload starts a rollout (`RolloutBegins`), which ends when the pods can start (`CanStart`:
each volume has its config map with the key, each mount its volume, the Corefile is accepted); pods keep the files they
started with, since they are mounted with `subPath`, and reload the Corefile (`Reload`). A zone
file therefore reaches CoreDNS by a rollout only, and that is why the code changes an annotation
of the workload in every round.

## Abstractions

* **Data.** A rendered record is a member of `Data`, some of which do not parse
  (`BadData`); the values of a zone's header form a member of `Header`
  likewise. A record's text and its verdict depend on its own spec only, and every
  record renders lines of its own, so a zone file is its header and a
  set of (record, data) pairs; it parses when its parts do. The order of the lines
  (sorted by name) does not matter.
* **Left out.** Log output, condition messages except where they tell apart what the reason
  does not ("ZoneRemoved" is the reason Pending with the message that the zone is gone),
  transition times, `recordCount`, annotations other than the serial.
* **Condition.** Type and status follow from the reason, so `cond` is the reason alone;
  `ogen` is its observed generation.
* **Atomicity.** A record's reconciliation is one step because it writes at most once,
  from one copy: whatever the cache takes in between either makes the write
  conflict or is read by the next reconciliation. The same argument merges each read of
  the zone controller with the write that follows it. `refresh*Resource` reads into
  a copy it drops; it changes nothing.
* **Watch order.** The model orders the versions of one object and not those of different
  objects. Real watches order all objects of one kind: the model has more
  behaviours, so its invariants hold for the code.
* **Loops over records** run in any order, which includes the sorted one.
* **Lost answers.** A lost answer to a write is `ZoneFault` at the step after the write. A failed
  call of the record controller, or of the zone worker's first write, keeps the key and
  changes nothing; such steps are stutters and are not written down.
* **Finalizers** are removed by the operator only. Users who strip them by hand are not
  modelled.
* **Serial.** `clock` stands for `DNSZoneGenerateSerial`: it only rises, and may stay
  the same from one update to the next. `ZoneSerial` proves that this is the order of serials within one
  calendar year, and only there.
* **One connector**, named by every zone, and one Corefile config map. `workload` in the connector's spec says
  whether it names a workload that exists; `corefile`, whether `corednsCM` names the config map and its key ("found"), the config map
  and no key of it ("noKey"), or no config map ("noMap"). The last two take the same path in a reconciliation
  and not in the deletion, which looks up the config map and its backup by the present name and no key (`CanRestore`).
  A second config map that exists is not modelled.
* **Domains** are a function of the zone's header (`DomainOf`), as the data key of a zone's
  config map is. Volume names are a function of the domain (`VolumeOf`), which need not be one-to-one.
* **Caught up in one step.** The cache of a watched object skips versions. Of the versions in between
  only the last decides what the controller does; events merge in the queue in any case.
* **The backup** has its cache: a reconciliation that does not see it tries to create it, fails if it exists, and reports that;
  a deletion that does not see it fails. `AlreadyExists` and a failed call are reported alike ("NoBackup").
* **Annotation.** The code's hash and time stamp differ in every round, so each accepted update of
  the workload is a change.
* **Start.** Users have applied objects before the operator starts: its caches are
  filled and every object is queued.

## Runs

`CHECK_DEADLOCK FALSE` everywhere: once users stop and everything is reconciled, the
operator has nothing to do and waits.

| run | instance | checks | states |
|---|---|---|---|
| `publish_safety` | 1 record, 1 zone, good and bad data and headers; 2 operations out of all, the connector's reports included; no timing assumption | `TypeOK`, `PublishedFilesParse`, `RestingNothingHeld`, `UserIntentKept`, `ImplementsPublication` | 2.0 M |
| `status_truth` | 2 prefixes; 2 edits; 1 restart; no timing assumption | `StatusDescribesFile`, `CheckpointHasFile` | 1.5 M |
| `convergence` | 1 good and 1 bad value of data, 2 good and 1 bad header; 2 edits, creations or deletions; 1 failed call | `FilesConverge`, `RecordStatusConverges`, `DeletionsComplete`, `CMsGoWithZone`, `NoReadyWithoutZone` | 573 k |
| `two_zones` | 2 zones, 1 record that is edited or moves; 1 restart | `QuiescentFilesRight`, `QuiescentRecordsRight` | 4.0 M |
| `two_records` | 2 records of one zone, one edit, one tick of the serial; 1 failed call | `QuiescentFilesRight`, `QuiescentRecordsRight` | 2.4 M |
| `connector_safety` | 1 zone, good and bad headers; 1 operation on zone, connector or Corefile, 1 failed call, 1 restart, anywhere | `ConTypeOK`, `NoBlocksWithoutConnector`, `RestingServesAll`, `RestingConnectorGone`, `BlockAfterMount`, `ConnectorIntentKept`, `KeepsServing`, `ImplementsCustody` | 2.9 M |
| `connector_serves` | 1 zone, 2 domains, a bad header, good and bad plugins; 2 operations on zone and connector, one after the other, 1 restart | `ServedInTheEnd`, `ConnectorGoesAway` | 595 k |

**Bounds.** `MaxEdits`, `MaxFaults`, `MaxCrashes` and `MaxClock` bound what the
environment does, never what the operator does: reconciliations, retries and
deliveries are unbounded, and the operations may come at any moment, the middle of
a reconciliation included. Two edits are the least that change something and
change it back (the interesting case for comparisons with a cache) or that
meet a reconciliation twice. One record and one zone show every
interleaving of two writers on one object; the two-zone and two-record runs add
what only shows with more: an object that changes sides, and one loop over
several records. In the connector's runs `Record` is empty: records reach it only through
the zone file, of which it sees the domain and the serial. A property that holds in these instances could still
fail in larger ones; those that are proved cannot.

What the bounds leave out, so that nobody takes a passing run for more than it shows: `convergence` has a failed call and no restart
(with one it takes too long; `two_zones` restarts, with the properties that need no fairness). `connector_serves` is calm, so no edit
falls into the connector's wait for CoreDNS, and no call fails in it; `connector_safety` has both, without fairness. The connector's runs have one
zone, so they do not show that one zone's missing config map ends the round of all. Their domains have volume names of their own.
Headers in `two_zones` and `two_records` are good. Corefile blocks are a set, which cannot hold one twice.

**Mutants.** For every property of these runs `PROJECT.json` names a plausible bug
in the code's place, written beside the definition it replaces, under
which the property fails: a return that is missing, a conflict that is swallowed, a comparison
that leaves out the header, a forced write, a backup that is renewed, and so on.

**`QuiescentFilesRight`** says of states what `FilesConverge` says of behaviours: when no
event, key, sleep or reconciliation is left, the files are right; **`QuiescentRecordsRight`** does so for
`RecordStatusConverges`, and **`RestingNothingHeld`** for `DeletionsComplete`. They need no
fairness and are cheaper, so the larger instances check them. **`RestingServesAll`** does the same for the
connector, which need not be slept over or timed well for it: whenever its queue, worker, watches and CoreDNS are
at rest (`ConAtRest`), every zone that ever passed is in CoreDNS and in the connector's status. **`RestingConnectorGone`** does it for `ConnectorGoesAway`.

## Fairness and timing

`FairSpec` assumes weak fairness of every delivery, of every record's reconciliation,
of the worker's steps, of the sleeps and of the garbage collector: these are goroutines
that run, and a work queue hands out its keys. It assumes strong fairness
of the start of a zone's reconciliation, because `ZoneBegin(z)` is disabled
whenever the worker is busy with another zone; the work queue is first in, first out, so a
key is not passed over for ever. `OpFairSpec` adds weak fairness of the connector's watches, its sleep
and its worker, and of CoreDNS: rollouts that can end do, and the reload plugin looks again and again.
Nothing is assumed of users, faults, restarts or
the clock. A failed reconciliation is retried for ever, with a delay the model does not need.

The code relies on some lags being short. `Timely` names those an instance assumes:

* `"delay"`: a sleep over a record's event ends only when the record controller has
  dealt with the version in question and the cache shows it. The code bets three seconds on
  this. Without it `FilesConverge` fails: the zone is baked
  with the old verdict, the verdict's update is no event, and nobody is woken again.
* `"cm"`: when a reconciliation compares with the cached config map, the cache shows the
  operator's own last write. Without it `FilesConverge` fails: a header that
  is changed and changed back compares equal to the old cached config map, and the intermediate
  version stays published.
* `"con"`: the connector's sleep over a zone's event ends when the zone controller is done and the
  cache shows its config maps. The code bets another three seconds on it; no event of a config map wakes the connector.
* `"watch"`: a reconciliation of the connector starts from caches that show its own last writes. Without
  it each retry may conflict once more, without end.
* `"roll"`: a rollout has begun, and the cache shows it, when the wait for health starts to count replicas (the code
  sleeps six seconds before), lasts longer than the write of the Corefile that follows at once, and ends
  within `waitForUpdateTimeout` if it can end at all.
* `"calm"` (`connector_serves`, `stale_volume`): users do one thing at a time and wait until it is
  reconciled, domains are not given away while in use, and failures and restarts of the operator find the zone controller at
  rest. `serial_lost` shows why: an interrupted zone may never publish its status, and then no connector
  picks it up.

`publish_safety` and `status_truth` assume none of these, nor do the proofs, but for "cm" and "delay" in `NoEventLost` and `OpNoEventLost`
and "delay" in `NoJoinLost` and `OpNoJoinLost`. `connector_safety` takes all but
"calm", for the sake of its size; the theorems about its properties hold without any.

The convergence run leaves out three user operations, because the code does not converge after them:
`deleteCM` (no event of a config map reaches a controller, so nothing is
recreated until the next edit), `createZone` after `deleteZone` (the new zone finds its
predecessor's config map unchanged, does not take it over, and the garbage
collector then deletes it), and a change of the prefix before the deletion.

## Findings

Five runs check what the documentation says and find that the code does otherwise.

* `ready_unjoined` (`ReadyMeansJoined`): a record becomes Ready, "has joined", though the zone file
  failed validation and was not written. `createOrUpdateZoneCM` returns nil for an
  invalid zone, and its caller goes on.
* `serial_lost` (`SerialsAgree`): the config map is written before the status. If the status write
  conflicts, the retry finds the config map unchanged and returns early; serial, checkpoint and config map
  name in the status are never written. A label put on the zone at the wrong moment is enough.
  For a new zone this means no checkpoint, so the connector does not pick it up.
* `fixed_zone_stuck` (`FixedZoneRecovers`): a zone that is broken and then fixed back to its former spec
  compares equal to its config map, and the early return leaves `validationPassed: false` and the condition
  UpdateError for good.
* `zones_left_active` (`ZonesLearnOfRemoval`): `reconcileDelete` removes the finalizer, and with it the connector, before it tells
  the zones. If one of those writes conflicts, the retry finds no connector and ends; the zones stay Active.
* `stale_volume` (`ActiveMeansServed`): a volume that exists under a wanted name is kept whatever config map it
  refers to, and the name depends on the domain only. After a change of `cmPrefix` CoreDNS goes on
  mounting the former config map, and the connector reports Active with the new serial.

Seen while modelling, without a run of their own:

* The loop that tells records they have joined reads each of them again (`dnszone_controller.go:199`), and sets it
  Ready without looking whether it still refers to this zone. A record that has meanwhile moved to a zone that is gone is
  Ready for good; `docs/dnsrecords.md:212` shows such a record as Pending. `NoReadyWithoutZone` is therefore checked where records stay with
  their zone. The cause is that of `ready_unjoined`: the loop does not look at what was joined.
* Each update of a zone's config map strips its finalizer; `addFinalizer` then looks at the cache, may
  still see it there, and adds nothing. A reconciled config map can be unprotected, though `docs/qa/dev-manual-qa-guide.md:125`
  has the finalizer prevent its deletion.
* After a change of `cmPrefix` the deletion of the zone releases the config map of the present prefix only; the
  former one keeps its finalizer and stays, marked for deletion, for ever.
* A connector that never made a backup, because its Corefile does not exist, cannot be deleted: `restoreOriginalCorefileCM` fails.
  Nor can one whose `corednsCM.name` was changed, after it wrote its blocks, to a name that does not exist: the edit is reported, the deletion
  looks for that name and its backup, and the blocks stay. `docs/dnsconnector.md:108` and the QA guide (lines 235, 281) have the original
  config map restored after a deletion. `ConnectorGoesAway` excepts both cases, so it holds with the name edited and then the
  connector deleted, in that order or the other.
* `docs/dnsconnector.md:35` and `dnsconnector_types.go:73` speak of a rollback when CoreDNS does not come
  up; the code has none.
* With a rolling update that surges, replicas count as ready before the new pods start
  (`Surge = TRUE`): a connector can be Active for a CoreDNS that never came up.
* `KeepsServing` fails if a zone's header moves it to another domain and then breaks.

## The refinements

`Publication` is what two controllers, three caches, conflicts, retries and finalizers amount to: a set of versions of each
zone and record that only grows, and a register per config map that is empty or holds a file. A file is
published only if it parses and is the bake of one live version of its zone and one version of each record,
none older than those of the file before. Withdrawals are free.

`PublicationRefinement` adds history variables to `ZonePublishing`: the versions the API server has stored
(`zoneLog`, `recLog`), the versions the worker has read (`read`), and those each config map was
written from (`from`). `KeepHistory` only assigns them, so `HSpec` has the behaviours of `Spec`. A step of the worker that writes
a config map is `Publish`, one after which a config map is gone is `Withdraw`, all others are `Grow`, which
includes doing nothing.

What could break it is the mixture of writers: the worker's update names no version (`r.Update` of an object
built from scratch), and the finalizer steps write back whole cached versions of the config map. The mutant
that drops the conflict check of the latter publishes an old file again, and the run finds it.

`CorefileCustody` is what the connector's ten worker states, three caches, status reports and CoreDNS's rollouts amount to for the
owner of the Corefile: the Corefile is taken (`Take`, the finalizer), saved once (`Save`), and from then on served from; before each write of
blocks (`Serve`) the pods have been given the files (`Mount`); after a deletion (`Mark`) it is put back (`Restore`) and let go (`Release`).
The owner edits the text at any time (`Edit`), and nothing but `Restore` writes it. `DNSOperator` instantiates it on the
stored connector, Corefile, backup and mounts (`Custody`); no history variable is needed, and each step of the operator is one step there or none.
Two things are left open because the code leaves them open: which version of the text is saved (the cache may lag), and that `Restore` may
still come when the connector is gone already, from a cache that shows it.

## Proofs

For every number of records, zones, prefixes, domains, edits, faults and restarts, and, but for the four theorems on
lost events and lost notifications, with no assumption on timing:

| theorem | statement |
|---|---|
| `ZonePublishingProofs`: `Invariance` | `Spec => []Inv` |
| `TypeCorrect`, `OnlyValidFilesPublished`, `OperatorKeepsUserIntent` | `Spec => []TypeOK`, `[]PublishedFilesParse`, `UserIntentKept` |
| `PublicationProofs`: `OperatorImplementsPublication` | `HSpec => ImplementsPublication` |
| `StatusProofs`: `StatusTrue` | `Spec => []StatusDescribesFile`, without `notify` |
| `CheckpointKept` | `Spec => []CheckpointHasFile`, without `deleteCM` and `createZone` |
| `EventProofs`: `NoEventLost` | `Spec => []QuiescentFilesRight`, with both lags in `Timely`, without `deleteCM` and `createZone` |
| `NoJoinLost` | `Spec => []QuiescentRecordsRight`, with "delay" in `Timely` |
| `NoMarkOverlooked` | `Spec => []RestingNothingHeld` |
| `ConnectorProofs`: `OpInvariance`, `OpPublishesValidFiles` | `OpSpec => []Inv`, `[](TypeOK /\ PublishedFilesParse)` |
| `OpTypeCorrect`, `ConInvariance` | `OpSpec => []ConTypeOK`, `[]ConInv` |
| `NoBlocksLeft`, `ConKeepsUserIntent` | `OpSpec => []NoBlocksWithoutConnector`, `ConnectorIntentKept` |
| `OpCheckpointKept` | `OpSpec => []CheckpointHasFile`, without `deleteCM` and `createZone` |
| `OpNoEventLost` | `OpSpec => []QuiescentFilesRight`, under the assumptions of `NoEventLost` |
| `OpNoJoinLost` | `OpSpec => []QuiescentRecordsRight`, under that of `NoJoinLost` |
| `OpNoMarkOverlooked`, `OpKeepsUserIntent` | `OpSpec => []RestingNothingHeld`, `UserIntentKept` |
| `OpNoConnectorLeft` | `OpSpec => []RestingConnectorGone` |
| `CustodyKept` | `OpSpec => ImplementsCustody`, if no two domains share a volume name |
| `BlocksHaveMounts` | `OpSpec => BlockAfterMount`, if no two domains share a volume name |
| `GoodZonesStayServed` | `OpSpec => KeepsServing`, while each zone keeps a domain of its own, without `createZone` |
| `RestIsServed` | `OpSpec => []RestingServesAll`, under the assumptions of the two theorems before |
| `LayoutProofs`: `EveryFileMounted`, `VolumesAsWanted`, `MountsHaveVolumes`, `AttachingIsIdempotent` | what attaching does to any workload |
| `ZoneSerial`: `SerialFits`, `SerialOrder` | serials fit 32 bits; newer by RFC 1982 is later in the year |

The assumptions are those declared in the modules: bad
values are values, some header is good, there is a zone, a prefix, a value of data, a text of a Corefile, a plugin list, bounds are natural
numbers, and initial specs are specs. TLC evaluates them in every run. `BlocksHaveMounts`, `CustodyKept`, `RestIsServed` and `EveryFileMounted` assume in addition
that volume names do not collide (`OwnVolume`): the code replaces dots by dashes, so `a.b` and `a-b` do.
`GoodZonesStayServed` and `RestIsServed` are about behaviours in which every header a user gives a zone has the zone's domain and no two zones
share one (`[]ZonesKeepDomain(dom)` for an injective `dom`): `spec.domain` is the zone's identity to its users, and without that
`KeepsServing` is false (see Findings). They exclude `createZone` because a zone that is created again
while its predecessor's config map is still there has a promise to keep before the connector has read it. The theorems
about the status and about lost events exclude user operations, and are false with them: `notify` stands for the connector, which reports a zone with the
generation of its cached copy, whether or not its config map is that far (`serial_lost` shows the window); a config map that is deleted by hand is not
missed; and a zone that is created again meets its predecessor's config map, which the garbage collector then takes away.

*Why an inductive invariant is needed.* `PublishedFilesParse` speaks of stored config maps. But the finalizer
steps write back a version from the cache, which came from the feed; and the
worker writes a file it validated some steps ago. So `Inv` says that *every* version of a config map,
stored, cached or on its way, holds a valid file (`FilesValid`), and that the worker's file
is valid from the validation to the write (`WorkerFileValid`). `UserIntentKept` needs that a copy with the stored
resource version *is* the stored object; `RecordsAligned` and `ZonesAligned` say so, together with
the fact that no cache is ahead of the server, without which a later write could reuse a version.

*How the proof goes.* A step is reduced to what it does to the objects of each kind: nothing, a write of
a typed object with the right contents, the delivery of one version, or the filling of the cache
(`RecordSteps`, `ZoneSteps`, `CMSteps`: one case per action). That such steps keep `Inv` is shown once per
kind (`RecordStepKeeps`, ...). `WorkSteps` treats queues, timers, counters and the worker. `ConnectorProofs` reuses all of it: a
step of the connector is such a step on zones, or none.

*The refinement.* `HInv` adds to `Inv` that feeds are ordered and caches move forward (`RecordsHeld`, `ZonesHeld`, `CMsHeld`), that no
config map was written from versions newer than the caches show (`FromHeld`), and that the worker's file is the
bake of the versions in `read`, none older than those its config map was written from (`BakeHeld`). A
step is one of three kinds (`WatchProofs`: `Kinds`): it leaves the worker's file and the published files alone but for finalizers and
deletions, it starts a reconciliation, or it is the worker's write. The finalizer steps are where `CMsHeld` is
needed: a cached version that the API server accepts is the stored one, so its file is put back onto itself.

*The status.* `StatusInv` follows a report to the file. No status names a generation still to come (`ReportsPast`), so that an
edit ends what the status vouches for. While it vouches, every version of the zone that is left in feed or cache, and the worker's copy,
show the present spec (`VouchedAlike`), and the config map under its prefix, if there, has that spec's header (`VouchedFile`): whatever the worker writes
next agrees with the report. The report itself comes from the worker, whose copy was read from the
cache and is the stored zone if the versions agree (`CopyHeld`), whose file has the copy's header (`FileOfCopy`), and is still in place
when the status is written (`FileInPlace`). `CMsHeld` is needed again for the finalizer steps, which put cached versions back.
`CheckpointInv` says that every version of a living zone with a checkpoint, also the one the worker's copy came from, names
a config map that exists (`CheckpointsHaveFile`, `WorkerHasFile`), and that it is owned by that zone and unmarked
(`LivingCMsOwned`), as there was never an earlier zone of that name (`OneIncarnation`): so neither the garbage collector nor the
finalizer steps remove it. The connector's status writes keep this (`OpCheckpointKept`).

*No event is lost.* `EventInv` compares every zone file with what the caches show, never with what is stored; at rest
the two agree, because a watch skips no version (`Gapless`). A file is *current* (`FileCurrent`) if it has the header the
cache shows and, for each record, the line the cached spec asks for, unless a map function sleeps over an event of that record for that zone. So users
and the other writers do not disturb it, only deliveries do, and a delivery is either an event, over which both the old and
the new zone's map function sleeps, or changes neither spec nor existence and undoes no verdict (`RecordHistory`, `ZoneHistory`). A file baked now is current, although it is
made of statuses and not of specs: a record whose cached status is not the verdict on its cached spec is still slept over (`VerdictAwaited`), since the sleep
ends only when the record is settled, and a settled record has its verdict (`RecordsAttended`). Finally a zone that is to be served is queued, or the
worker is about to write a current file for it, or its config map has one (`ZonesAttended`). The three moments that could break this are the
start of a reconciliation (which compares with the cached config map, hence "cm" in `Timely`), the worker's write, and its failure, which
queues the zone again. `CheckpointInv` is part of it: the config map has to stay.

*No notification is lost.* A record becomes Ready when the worker tells it so, and the worker learns of a record by an event
of its spec. `JoinInv` follows a good record of a zone that is there: it has an event ahead, or is called for (an event slept over, or the zone's key queued), or is
in the list the worker is telling, or is Ready (`JoinsAwaited`). "Ready" is taken back in three ways only: by the validation of a changed spec, which is
still slept over (`QueuedRecordsAwaited`, with "delay"), by a re-creation, which is an event, and by the end of a zone (`UnjoinsAwaited`). A bad record is
queued or refused (`BadRecordsQueued`), and an object once marked for deletion stays so (`MarksStay`). Unlike `NoEventLost` this
needs neither the config map nor its cache, so it holds with `deleteCM`, `createZone` and without "cm".

*No mark of deletion is overlooked.* A mark is never taken back (`MarksStay`) and raises the generation, so it is an event. `HeldInv` follows it: a marked
record is queued or has an event ahead (`MarkedRecordsQueued`) until `RecordDelete` makes it go, which is an event too; a marked zone is queued, has an
event ahead, or the worker is in its deletion, in the loop over its records or before its finalizer (`MarkedZonesQueued`). A reconciliation that finds
no finalizer ends without a further try, but a marked object always has one (`MarkedHeld`), and the worker's copy of a zone says nothing of a
mark that came later, which is why the mark's own event counts (`ZoneEventAhead`). Neither needs any timing, any order of the caches, or the config map.

*The connector.* `ConSafe` has six parts. The chain behind `NoBlocksWithoutConnector` is: blocks exist only under the
connector's finalizer (`FinalizerGuards`); the finalizer is released only after a restoration (`ReleaseReady`); the
backup has no blocks because none are written before there is one (`BackupOriginal`); and since a reconciliation decides on
a cached connector, a cache that shows one with a finalizer must not be out of date in the one way that would
hurt (`CacheTruthful`). `CacheSeen` and `TextRead` say that a Corefile write that is accepted was made from the stored text.

`OpNoConnectorLeft` adds one part (`MarkAttended`): a deletion mark that the cache shows is in the queue or in the hands of the worker between
`ConRestore` and `ConRelease`; one that the cache does not show yet is an event to come (`ConHistory`). `ConRelease` passes over a connector that the
cache shows without the finalizer; a cache that shows the mark shows the finalizer, too, because a marked one that is still there has it (`MarkedOwned`). A restoration that finds nothing left to do must go
on to the release all the same: the mutant that returns there violates it after a restart.

*Custody.* `CustodyKept` needs nothing but these parts: `Take` is for a connector without a mark (`MarkedOwned`: a marked one that is still there has its
finalizer), `Save` finds no blocks because of `BackupOriginal`, `Mount` and `Serve` happen under the finalizer by `FinalizerGuards`, `Serve` writes over the stored
text by `TextRead` and only mounted domains by `MountsReady` (hence `OwnVolume`), `Restore` is for a connector that is marked or not taken by `CacheTruthful`, and
`Release` leaves no blocks by `ReleaseReady`. All other steps change nothing there.

*A good zone stays.* A round of the connector writes blocks for the zones it collected at its start, so `KeepsServing` asks that what was
collected then covers what is promised at the write. Checkpoints are never taken back from a zone that exists (`CheckpointsStay`), config maps
of such zones are only ever written with headers of the zone's domain (`HeadersOwn` for all versions and the worker's copy,
`FilesOwn` for all files), and the zones the caches show lag behind the stored ones but never skip a deletion (`ZonesLag`). So if a block is
there (`BlocksGood`: it is the domain of a zone with a checkpoint) the round that could drop it has collected that zone (`WorkerCollects`),
or the zone was gone from the cache, and with it the promise.

*Rest is served.* `RestInv` says of every piece of work that it is called for, under way, or done.
`SpecAttended`: the present generation of the connector is queued (or its event is on the way), being worked on, or the one its status calls Active.
`ZonesAwaited`: a zone whose checkpoint the cache shows is called for (its event is slept over or the key is queued), is about to be collected, is
among those the running round has collected, or is in the Corefile and in the status. A zone whose checkpoint the cache does not show yet has
an event on the way, since a watch skips no version (`Gapless`). The round's view of the connector is tied to the stored one by `ConHistory` (equal
generations, equal deletion marks) and `CopySeen` (a copy the server would accept is of the present generation). Failures
(`ConFail`) put the key back into the queue and restarts queue everything, which is why the invariant survives them; the mutant that does
not put it back violates the property. At rest nothing is called for or under way, so only the last case is left. Each block of a zone has
a mount (`BlocksMounted`), mounts and volumes have the names of their domains (`NamesFit`), and after a rollout the pods have a valid
file for every mount (`PodsHaveFiles`, from `Inv`).

*Only model-checked:* what needs fairness, which is out of the prover's reach: `FilesConverge`, `RecordStatusConverges`, `DeletionsComplete`,
`CMsGoWithZone`, `NoReadyWithoutZone`, `ServedInTheEnd` and `ConnectorGoesAway`. `QuiescentFilesRight`, `QuiescentRecordsRight`, `RestingNothingHeld`, `RestingServesAll` and `RestingConnectorGone` are what can be
proved of the first three and the last two: whenever the system stops, it stops in the right place.

## Not modelled

* Generated deep copies and scheme registration: generated code without decisions.
* Flags, metrics, probes and leader election of the manager: wiring around the library; a change of leader is `Restart`.
* Manifests, Dockerfile, Makefile, samples and the test environment's set-up.
* Text: templates, the syntax of records and of the Corefile, FQDN normalisation, log and event texts. The models take the outcome of
  rendering and parsing as given for each value.
* Several connectors, and zones that change from one to another: the controllers treat each connector alone, and a
  zone that names none is not picked up by any.
