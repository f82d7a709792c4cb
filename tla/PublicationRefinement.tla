------------------------ MODULE PublicationRefinement ------------------------
(***************************************************************************)
(* ZonePublishing implements Publication.  History variables keep the      *)
(* versions of the objects and those the worker and the config maps were   *)
(* given; they do not influence the operator.                              *)
(***************************************************************************)
EXTENDS ZonePublishing

VARIABLES
  zoneLog, recLog,  \* versions the API server has stored
  read,             \* versions of the records in the worker's zone file
  from              \* versions in the file of each config map

history == <<zoneLog, recLog, read, from>>

ZoneVersion(obj) ==
  [rv |-> obj.rv, live |-> obj.exists /\ ~obj.deleting,
   prefix |-> obj.spec.prefix, hdr |-> obj.spec.hdr]

(* The line the zone controller takes from a record: what the last         *)
(* validation rendered, for the zone named by now.                         *)
RecordVersion(obj) ==
  [rv |-> obj.rv,
   lines |-> IF obj.exists /\ obj.status.passed THEN {<<obj.spec.ref, obj.status.entry>>}
                                                ELSE {}]

(* The zone file of each config map that exists.                           *)
Published == [n \in CMName |-> IF cms[n].exists THEN {cms[n].file} ELSE {}]

Pub == INSTANCE Publication WITH file <- Published

HInit == /\ Init
         /\ zoneLog = [z \in Zone |-> {ZoneVersion(zones[z])}]
         /\ recLog = [r \in Record |-> {RecordVersion(recs[r])}]
         /\ read = [r \in Record |-> 0]
         /\ from = [n \in CMName |-> Pub!NoVersion]

(* The worker's write of a zone file into n.                               *)
Writes(n) == /\ Baking(zw) /\ zw' # zw
             /\ cms'[n] # cms[n] /\ cms'[n].exists

KeepHistory ==
  /\ zoneLog' = [z \in Zone |-> zoneLog[z] \cup {ZoneVersion(zones'[z])}]
  /\ recLog' = [r \in Record |-> recLog[r] \cup {RecordVersion(recs'[r])}]
  /\ read' = IF ~Baking(zw') THEN [r \in Record |-> 0]
             ELSE IF Baking(zw) THEN read
             ELSE [r \in Record |-> recCache[r].rv]
  /\ from' = [n \in CMName |-> IF Writes(n) THEN [zone |-> zw.copy.rv, recs |-> read]
                                            ELSE from[n]]

HNext == Next /\ KeepHistory

HSpec == HInit /\ [][HNext]_<<vars, history>>

(* Whatever users do, however the caches lag and wherever the operator     *)
(* stops: a published file is the bake of one version of the zone and one  *)
(* of each record, it parses, and config maps never go back to a bake of   *)
(* older versions.                                                         *)
ImplementsPublication == Pub!Spec

=============================================================================
