------------------------------ MODULE Cluster ------------------------------
(***************************************************************************)
(* The Kubernetes API server as the operator's controllers see it, and the *)
(* people who edit the objects.  Every kind of object is stored with a     *)
(* resource version; a write the operator makes from an older version is   *)
(* refused.  Reads come from a watch cache that lags behind: each accepted *)
(* write of an object puts its new version in the object's feed, and the   *)
(* cache takes the versions of one object in the order of the writes.      *)
(*                                                                         *)
(* The API server is not under src/: it is modelled from how the           *)
(* controllers use it (finalizers.go, obj_lookup.go and the Get, List,     *)
(* Create, Update and Status().Update calls of the three reconcilers).     *)
(***************************************************************************)
EXTENDS Naturals, FiniteSets

CONSTANTS
  Record, Zone,     \* names of DNSRecord and DNSZone objects
  Prefix,           \* values of DNSZone.spec.cmPrefix
  Data, BadData,    \* rendered record lines, and those that do not parse
  Header, BadHeader,\* rendered zone headers, and those that do not parse
  UserOp,           \* which operations users perform in this instance
  MaxEdits          \* bound: how many of them they perform

ASSUME BadAssumption == BadData \subseteq Data /\ BadHeader \subseteq Header
ASSUME GoodHeaderAssumption == \E h \in Header : h \notin BadHeader
ASSUME NonEmptyAssumption == Data # {} /\ Prefix # {} /\ Zone # {}
ASSUME MaxEditsAssumption == MaxEdits \in Nat

VARIABLES
  recs, zones, cms,             \* what the API server stores
  recFeed, zoneFeed, cmFeed,    \* versions the caches have not taken yet
  recCache, zoneCache, cmCache, \* what the operator's client reads
  edits                         \* operations users have performed

apiVars == <<recs, zones, cms>>
feedVars == <<recFeed, zoneFeed, cmFeed>>
cacheVars == <<recCache, zoneCache, cmCache>>
recordVars == <<recs, recFeed>>
zoneVars == <<zones, zoneFeed>>
cmVars == <<cms, cmFeed>>
clusterVars == <<apiVars, feedVars, cacheVars, edits>>

-----------------------------------------------------------------------------
(* Objects.  An object that does not exist keeps its last value and its    *)
(* resource version, so that versions are never reused for a name.         *)

RecordSpec == [data : Data, ref : Zone]
RecordCond == {"None", "Pending", "ZoneRemoved", "Ready", "Degraded"}
RecordStatus == [passed : BOOLEAN, entry : Data, cond : RecordCond, ogen : Nat]
RecordObj == [exists : BOOLEAN, rv : Nat, gen : Nat, deleting : BOOLEAN,
              fin : BOOLEAN, spec : RecordSpec, status : RecordStatus]

ZoneSpec == [hdr : Header, prefix : Prefix]
CMName == Prefix \X Zone
ZoneCond == {"None", "Pending", "Active", "UpdateError"}
ZoneStatus == [passed : BOOLEAN, checkpoint : BOOLEAN, serial : Nat,
               prefix : Prefix, cond : ZoneCond, ogen : Nat]
ZoneObj == [exists : BOOLEAN, rv : Nat, gen : Nat, uid : Nat, deleting : BOOLEAN,
            fin : BOOLEAN, spec : ZoneSpec, status : ZoneStatus]

File == [hdr : Header, entries : SUBSET (Record \X Data)]
CMObj == [exists : BOOLEAN, rv : Nat, deleting : BOOLEAN, fin : BOOLEAN,
          owner : Nat, file : File, serial : Nat]

(* The status of an object nobody has reconciled; the entry and the prefix *)
(* are not read before passed, respectively checkpoint, is set.            *)
NoRecordStatus(s) == [passed |-> FALSE, entry |-> s.data, cond |-> "None", ogen |-> 0]
NoZoneStatus(s) == [passed |-> FALSE, checkpoint |-> FALSE, serial |-> 0,
                    prefix |-> s.prefix, cond |-> "None", ogen |-> 0]

NewRecord(s) == [exists |-> TRUE, rv |-> 1, gen |-> 1, deleting |-> FALSE,
                 fin |-> FALSE, spec |-> s, status |-> NoRecordStatus(s)]
NewZone(s) == [exists |-> TRUE, rv |-> 1, gen |-> 1, uid |-> 1, deleting |-> FALSE,
               fin |-> FALSE, spec |-> s, status |-> NoZoneStatus(s)]

EmptyFile == [hdr |-> CHOOSE h \in Header : h \notin BadHeader, entries |-> {}]
NoCM == [exists |-> FALSE, rv |-> 0, deleting |-> FALSE, fin |-> FALSE,
         owner |-> 0, file |-> EmptyFile, serial |-> 0]

-----------------------------------------------------------------------------
(* Writes.                                                                 *)

(* Optimistic concurrency: a write made from the version copy is accepted  *)
(* only if that is still the stored version.                               *)
Accepts(copy, obj) == obj.exists /\ copy.rv = obj.rv

(* What is stored when old is replaced by new: nothing when nothing        *)
(* changes, and a deleted object goes away with its last finalizer.        *)
Stored(old, new) ==
  LET kept == [new EXCEPT !.exists = ~(new.deleting /\ ~new.fin)]
  IN  IF [kept EXCEPT !.rv = old.rv] = old
        THEN old
        ELSE [kept EXCEPT !.rv = old.rv + 1]

PutRecord(r, new) ==
  LET obj == Stored(recs[r], new)
  IN  /\ recs' = [recs EXCEPT ![r] = obj]
      /\ recFeed' = IF obj = recs[r] THEN recFeed
                    ELSE [recFeed EXCEPT ![r] = @ \cup {obj}]

PutZone(z, new) ==
  LET obj == Stored(zones[z], new)
  IN  /\ zones' = [zones EXCEPT ![z] = obj]
      /\ zoneFeed' = IF obj = zones[z] THEN zoneFeed
                     ELSE [zoneFeed EXCEPT ![z] = @ \cup {obj}]

PutCM(n, new) ==
  LET obj == Stored(cms[n], new)
  IN  /\ cms' = [cms EXCEPT ![n] = obj]
      /\ cmFeed' = IF obj = cms[n] THEN cmFeed
                   ELSE [cmFeed EXCEPT ![n] = @ \cup {obj}]

(* DELETE of an object: marked if it has a finalizer, gone otherwise.      *)
Deleted(obj) == [obj EXCEPT !.deleting = TRUE]
(* The same for the kinds whose generation the deletion mark increments.   *)
DeletedCR(obj) == [obj EXCEPT !.deleting = TRUE, !.gen = @ + 1]

-----------------------------------------------------------------------------
(* The watch: the oldest version in a feed reaches the cache.              *)

Oldest(feed, v) == v \in feed /\ \A w \in feed : v.rv <= w.rv

TakeRecord(r, v) ==
  /\ Oldest(recFeed[r], v)
  /\ recCache' = [recCache EXCEPT ![r] = v]
  /\ recFeed' = [recFeed EXCEPT ![r] = @ \ {v}]

TakeZone(z, v) ==
  /\ Oldest(zoneFeed[z], v)
  /\ zoneCache' = [zoneCache EXCEPT ![z] = v]
  /\ zoneFeed' = [zoneFeed EXCEPT ![z] = @ \ {v}]

TakeCM(n, v) ==
  /\ Oldest(cmFeed[n], v)
  /\ cmCache' = [cmCache EXCEPT ![n] = v]
  /\ cmFeed' = [cmFeed EXCEPT ![n] = @ \ {v}]

(* Which consecutive versions of an object GenerationChangedPredicate lets *)
(* through as an event: creation, removal and a change of the generation.  *)
IsEvent(old, new) == ~old.exists \/ ~new.exists \/ old.gen # new.gen

-----------------------------------------------------------------------------
(* Users: kubectl apply, edit, label and delete.                           *)

User(op) == /\ op \in UserOp
            /\ edits < MaxEdits
            /\ edits' = edits + 1
            /\ UNCHANGED cacheVars

CreateRecord(r) ==
  /\ User("createRecord")
  /\ ~recs[r].exists
  /\ \E s \in RecordSpec : PutRecord(r, [NewRecord(s) EXCEPT !.rv = recs[r].rv])
  /\ UNCHANGED <<zoneVars, cmVars>>

EditRecord(r) ==
  /\ User("editRecord")
  /\ recs[r].exists
  /\ \E s \in RecordSpec \ {recs[r].spec} :
       PutRecord(r, [recs[r] EXCEPT !.spec = s, !.gen = @ + 1])
  /\ UNCHANGED <<zoneVars, cmVars>>

DeleteRecord(r) ==
  /\ User("deleteRecord")
  /\ recs[r].exists /\ ~recs[r].deleting
  /\ PutRecord(r, DeletedCR(recs[r]))
  /\ UNCHANGED <<zoneVars, cmVars>>

CreateZone(z) ==
  /\ User("createZone")
  /\ ~zones[z].exists
  /\ \E s \in ZoneSpec :
       PutZone(z, [NewZone(s) EXCEPT !.rv = zones[z].rv, !.uid = zones[z].rv + 1])
  /\ UNCHANGED <<recordVars, cmVars>>

EditZone(z) ==
  /\ User("editZone")
  /\ zones[z].exists
  /\ \E s \in ZoneSpec \ {zones[z].spec} :
       PutZone(z, [zones[z] EXCEPT !.spec = s, !.gen = @ + 1])
  /\ UNCHANGED <<recordVars, cmVars>>

(* A change of the metadata only: a new resource version, same generation. *)
LabelZone(z) ==
  /\ User("labelZone")
  /\ zones[z].exists
  /\ zones' = [zones EXCEPT ![z].rv = @ + 1]
  /\ zoneFeed' = [zoneFeed EXCEPT ![z] = @ \cup {zones'[z]}]
  /\ UNCHANGED <<recordVars, cmVars>>

DeleteZone(z) ==
  /\ User("deleteZone")
  /\ zones[z].exists /\ ~zones[z].deleting
  /\ PutZone(z, DeletedCR(zones[z]))
  /\ UNCHANGED <<recordVars, cmVars>>

DeleteCM(n) ==
  /\ User("deleteCM")
  /\ cms[n].exists /\ ~cms[n].deleting
  /\ PutCM(n, Deleted(cms[n]))
  /\ UNCHANGED <<recordVars, zoneVars>>

UserStep ==
  \/ \E r \in Record : CreateRecord(r) \/ EditRecord(r) \/ DeleteRecord(r)
  \/ \E z \in Zone : CreateZone(z) \/ EditZone(z) \/ LabelZone(z) \/ DeleteZone(z)
  \/ \E n \in CMName : DeleteCM(n)

(* The garbage collector deletes a config map whose owner is gone.         *)
GarbageCollect(n) ==
  /\ cms[n].exists /\ ~cms[n].deleting
  /\ ~(zones[n[2]].exists /\ zones[n[2]].uid = cms[n].owner)
  /\ PutCM(n, Deleted(cms[n]))
  /\ UNCHANGED <<recordVars, zoneVars, cacheVars, edits>>

=============================================================================
