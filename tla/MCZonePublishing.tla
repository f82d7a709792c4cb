-------------------------- MODULE MCZonePublishing --------------------------
(***************************************************************************)
(* Small instances of ZonePublishing for TLC.                              *)
(***************************************************************************)
EXTENDS ZonePublishing

CONSTANTS r1, r2, z1, z2, p1, p2, d1, d2, dBad, h1, h2, hBad

(* One record that starts out good, in the first zone. *)
GoodRecordSpec == {[data |-> d1, ref |-> z1]}
AnyRecordSpec == {[data |-> d, ref |-> z1] : d \in Data}

(* Zones that start out with one header and one prefix. *)
GoodZoneSpec == {[hdr |-> h1, prefix |-> p1]}
BadZoneSpec == {[hdr |-> hBad, prefix |-> p1]}
=============================================================================
