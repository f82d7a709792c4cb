-------------------------- MODULE RecordController --------------------------
(***************************************************************************)
(* DNSRecordReconciler: it renders a record, checks its syntax and         *)
(* publishes the result in the status, from which DNSZoneReconciler bakes  *)
(* the zone file.                                                          *)
(*                                                                         *)
(* One reconciliation reads the object from the cache and makes at most    *)
(* one write.  It is one step here: what the cache takes in between either *)
(* does not matter or makes the write conflict.  A reconciliation that     *)
(* fails, on a conflict or because the record is bad, returns the error,   *)
(* and the work queue keeps the key; failing without a write is a stutter. *)
(***************************************************************************)
EXTENDS Cluster

VARIABLE recQ  \* keys in the controller's work queue

(* validateRecords on one rendered record *)
ValidData(d) == d \notin BadData

(* A reconciliation needs the record in the cache, and write access.       *)
Reconcilable(r) == r \in recQ /\ recCache[r].exists

RecordRest == UNCHANGED <<zoneVars, cmVars, cacheVars, edits>>

RecordNotFound(r) ==
  /\ r \in recQ
  /\ ~recCache[r].exists
  /\ recQ' = recQ \ {r}
  /\ UNCHANGED clusterVars

(* addFinalizer, then Requeue: the key stays.                              *)
RecordAddFinalizer(r) ==
  /\ Reconcilable(r)
  /\ ~recCache[r].fin
  /\ Accepts(recCache[r], recs[r])
  /\ PutRecord(r, [recCache[r] EXCEPT !.fin = TRUE])
  /\ UNCHANGED recQ
  /\ RecordRest

(* Mutant: a conflict on the last write is taken for success.              *)
RecordDeleteOnce(r) ==
  LET copy == recCache[r]
  IN  /\ Reconcilable(r)
      /\ copy.fin /\ copy.deleting
      /\ IF Accepts(copy, recs[r]) THEN PutRecord(r, [copy EXCEPT !.fin = FALSE])
                                   ELSE UNCHANGED recordVars
      /\ recQ' = recQ \ {r}
      /\ RecordRest

(* reconcileDelete: the record goes away with its finalizer.               *)
RecordDelete(r) ==
  /\ Reconcilable(r)
  /\ recCache[r].fin /\ recCache[r].deleting
  /\ Accepts(recCache[r], recs[r])
  /\ PutRecord(r, [recCache[r] EXCEPT !.fin = FALSE])
  /\ recQ' = recQ \ {r}
  /\ RecordRest

(* Mutant: a bad record gets a condition no one knows.                     *)
CheckedStatusUnknown(copy) ==
  [passed |-> ValidData(copy.spec.data),
   entry  |-> copy.spec.data,
   cond   |-> IF ValidData(copy.spec.data) THEN "Pending" ELSE "Unknown",
   ogen   |-> copy.gen]

(* The status handleGenericRecord computes from the copy it read.          *)
CheckedStatus(copy) ==
  [passed |-> ValidData(copy.spec.data),
   entry  |-> copy.spec.data,
   cond   |-> IF ValidData(copy.spec.data) THEN "Pending" ELSE "Degraded",
   ogen   |-> copy.gen]

(* handleGenericRecord.  A status that would not change is not written; a  *)
(* bad record is an error even then, so its key stays in the queue.        *)
RecordValidate(r) ==
  LET copy == recCache[r]
      status == CheckedStatus(copy)
  IN  /\ Reconcilable(r)
      /\ copy.fin /\ ~copy.deleting
      /\ \/ status = copy.status /\ UNCHANGED recordVars
         \/ /\ status # copy.status
            /\ Accepts(copy, recs[r])
            /\ PutRecord(r, [recs[r] EXCEPT !.status = status])
      /\ recQ' = IF ValidData(copy.spec.data) THEN recQ \ {r} ELSE recQ
      /\ RecordRest

RecordReconcile(r) ==
  RecordNotFound(r) \/ RecordAddFinalizer(r) \/ RecordDelete(r) \/ RecordValidate(r)

(* SetupWithManager: the controller's own event filter.                    *)
RecordEvent(r, v) == recQ' = IF IsEvent(recCache[r], v) THEN recQ \cup {r} ELSE recQ

=============================================================================
