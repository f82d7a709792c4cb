---------------------------- MODULE Publication ----------------------------
(***************************************************************************)
(* What the record and the zone controller promise together: every zone    *)
(* file in a config map was baked from one version of its zone and one     *)
(* version of each record, parses, and never follows a file baked from     *)
(* newer versions.  When and how often files are baked is left open, and   *)
(* so are conflicts, retries, caches, finalizers and restarts.             *)
(***************************************************************************)
EXTENDS Naturals

CONSTANTS Record, Zone, Prefix, Data, BadData, Header, BadHeader

VARIABLES
  zoneLog, recLog,  \* the versions of zones and records there have been
  file,             \* config map -> {} or {zone file}
  from              \* config map -> the versions its last file was baked from

pubvars == <<zoneLog, recLog, file, from>>

(* A version of a zone says whether it may be served, under which prefix   *)
(* and header; a version of a record, which lines it has in which zones.   *)
ZoneVersions == [rv : Nat, live : BOOLEAN, prefix : Prefix, hdr : Header]
RecordVersions == [rv : Nat, lines : SUBSET (Zone \X Data)]

Name == Prefix \X Zone
NoVersion == [zone |-> 0, recs |-> [r \in Record |-> 0]]

Parses(f) == f.hdr \notin BadHeader /\ \A e \in f.entries : e[2] \notin BadData

Baked(zv, rvs, z) ==
  [hdr |-> zv.hdr,
   entries |-> {e \in Record \X Data : <<z, e[2]>> \in rvs[e[1]].lines}]

Init == /\ zoneLog \in [Zone -> SUBSET ZoneVersions]
        /\ recLog \in [Record -> SUBSET RecordVersions]
        /\ file = [n \in Name |-> {}]
        /\ from = [n \in Name |-> NoVersion]

Extends(old, new) == /\ old \subseteq new
                     /\ \A v \in old, w \in new \ old : v.rv < w.rv

(* Users and controllers make new versions of zones and records.           *)
Grow == /\ \A z \in Zone : Extends(zoneLog[z], zoneLog'[z])
        /\ \A r \in Record : Extends(recLog[r], recLog'[r])
        /\ UNCHANGED <<file, from>>

(* A file is baked and put into the config map of the zone.                *)
Publish(n) ==
  \E zv \in zoneLog[n[2]], rvs \in [Record -> UNION {recLog[r] : r \in Record}] :
    /\ zv.live /\ zv.prefix = n[1]
    /\ \A r \in Record : rvs[r] \in recLog[r]
    /\ from[n].zone <= zv.rv
    /\ \A r \in Record : from[n].recs[r] <= rvs[r].rv
    /\ Parses(Baked(zv, rvs, n[2]))
    /\ file' = [file EXCEPT ![n] = {Baked(zv, rvs, n[2])}]
    /\ from' = [from EXCEPT ![n] = [zone |-> zv.rv, recs |-> [r \in Record |-> rvs[r].rv]]]
    /\ UNCHANGED <<zoneLog, recLog>>

(* A config map is deleted.                                                *)
Withdraw(n) == /\ file' = [file EXCEPT ![n] = {}]
               /\ UNCHANGED <<zoneLog, recLog, from>>

Next == Grow \/ \E n \in Name : Publish(n) \/ Withdraw(n)

Spec == Init /\ [][Next]_pubvars

=============================================================================
