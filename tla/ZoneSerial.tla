----------------------------- MODULE ZoneSerial -----------------------------
(***************************************************************************)
(* The serial number of a zone file: the operator's wall clock, printed as *)
(* MMDDHHMMSS without the year, and the order in which DNS servers compare *)
(* serials (RFC 1982).  ZoneController's clock, which only rises, stands   *)
(* for the serials of one calendar year; this module says how far that     *)
(* goes.                                                                   *)
(***************************************************************************)
EXTENDS Integers, TLAPS

Instant == [month : 1..12, day : 1..31, hour : 0..23, minute : 0..59, second : 0..59]

(* DNSZoneGenerateSerial, read as the number that a SOA record holds.      *)
MMDDHHMMSS(mo, d, h, mi, s) == 100000000 * mo + 1000000 * d + 10000 * h + 100 * mi + s
DNSZoneGenerateSerial(t) == MMDDHHMMSS(t.month, t.day, t.hour, t.minute, t.second)

(* Earlier on the wall clock, the year left out.                           *)
Before(mo, d, h, mi, s, no, e, i, ni, r) ==
  \/ mo < no
  \/ /\ mo = no
     /\ \/ d < e
        \/ /\ d = e
           /\ \/ h < i
              \/ h = i /\ (mi < ni \/ (mi = ni /\ s < r))
Earlier(t, u) == Before(t.month, t.day, t.hour, t.minute, t.second,
                        u.month, u.day, u.hour, u.minute, u.second)

Half == 2147483648  \* 2^31

(* RFC 1982: serial b is newer than serial a.                              *)
Newer(a, b) == (a < b /\ b - a < Half) \/ (a > b /\ a - b > Half)

-----------------------------------------------------------------------------
(* The digits of a date and time, as one number, stay below 2^31.          *)
LEMMA DigitsFit ==
  ASSUME NEW mo \in 1..12, NEW d \in 1..31, NEW h \in 0..23, NEW mi \in 0..59, NEW s \in 0..59
  PROVE  MMDDHHMMSS(mo, d, h, mi, s) \in Nat /\ MMDDHHMMSS(mo, d, h, mi, s) < Half
BY SMT DEF MMDDHHMMSS, Half

(* Numbers made of digits compare as the digits do.                        *)
LEMMA DigitsOrder ==
  ASSUME NEW mo \in 1..12, NEW d \in 1..31, NEW h \in 0..23, NEW mi \in 0..59, NEW s \in 0..59,
         NEW no \in 1..12, NEW e \in 1..31, NEW i \in 0..23, NEW ni \in 0..59, NEW r \in 0..59
  PROVE  MMDDHHMMSS(mo, d, h, mi, s) < MMDDHHMMSS(no, e, i, ni, r) <=>
           Before(mo, d, h, mi, s, no, e, i, ni, r)
BY SMT DEF MMDDHHMMSS, Before

(* The fields of a date and time have their ranges.                        *)
LEMMA InstantFields ==
  ASSUME NEW t \in Instant
  PROVE  /\ t.month \in 1..12 /\ t.day \in 1..31 /\ t.hour \in 0..23
         /\ t.minute \in 0..59 /\ t.second \in 0..59
BY SMT DEF Instant

(* Serials stay below 2^31: they fit the 32 bits of a SOA record, and two  *)
(* of them are never too far apart to be compared.                         *)
THEOREM SerialFits ==
  ASSUME NEW t \in Instant
  PROVE  DNSZoneGenerateSerial(t) \in Nat /\ DNSZoneGenerateSerial(t) < Half
BY Zenon, InstantFields, DigitsFit DEF DNSZoneGenerateSerial

(* A serial is newer exactly if its wall clock time is later, the year     *)
(* left out.  So updates a second or more apart raise the serial, within   *)
(* one year and while clocks are not set back; and the first updates of a  *)
(* new year are older, to every secondary, than those of the old one.      *)
THEOREM SerialOrder ==
  ASSUME NEW t \in Instant, NEW u \in Instant
  PROVE  Newer(DNSZoneGenerateSerial(t), DNSZoneGenerateSerial(u)) <=> Earlier(t, u)
<1> DEFINE a == DNSZoneGenerateSerial(t)
           b == DNSZoneGenerateSerial(u)
<1>1. a \in Nat /\ a < Half /\ b \in Nat /\ b < Half
  BY Zenon, SerialFits
<1>2. Newer(a, b) <=> a < b
  <2> HIDE DEF a, b
  <2> QED BY SMT, <1>1 DEF Newer, Half
<1>3. a < b <=> Earlier(t, u)
  BY Zenon, InstantFields, DigitsOrder DEF DNSZoneGenerateSerial, Earlier
<1> QED BY Zenon, <1>2, <1>3

=============================================================================
