----------------------------- MODULE MCOperator -----------------------------
(***************************************************************************)
(* Small instances of DNSOperator for TLC.                                 *)
(***************************************************************************)
EXTENDS DNSOperator, TLC

CONSTANTS r1, r2, z1, z2, p1, p2, d1, d2, dBad, h1, h2, hBad, e1, e2, v1, v2, g1, gBad, t1, t2

(* A domain per good header; the bad header keeps the first domain. *)
Domains == h1 :> e1 @@ h2 :> e2 @@ hBad :> e1
DomainOfHeader == [h \in Header |-> Domains[h]]
(* Headers that all keep their domain. *)
OneDomain == [h \in Header |-> e1]
Volumes == [e \in {e1, e2} |-> IF e = e1 THEN v1 ELSE v2]

GoodRecordSpec == {[data |-> d1, ref |-> z1]}
GoodZoneSpec == {[hdr |-> h1, prefix |-> p1]}
TwoZoneSpecs == {[hdr |-> h, prefix |-> p1] : h \in {h1, h2}}
GoodConSpec == {[corefile |-> "found", workload |-> TRUE, plugins |-> g1]}
=============================================================================
