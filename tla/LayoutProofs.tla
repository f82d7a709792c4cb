---------------------------- MODULE LayoutProofs ----------------------------
(***************************************************************************)
(* Theorems about the volumes and mounts that setZoneFileConifgMaps gives  *)
(* the CoreDNS workload, for any zone files and whatever was there before. *)
(***************************************************************************)
EXTENDS Layout, TLAPS

(* Domains whose volumes have names of their own.                          *)
OwnVolume(domains) == \A d, e \in domains : VolumeOf[d] = VolumeOf[e] => d = e

(* A desired volume is that of one of the files.                           *)
LEMMA DesiredIsFile ==
  ASSUME NEW files, NEW v \in DesiredVolumes(files)
  PROVE  \E f \in files : v = [name |-> VolumeOf[f.key], cm |-> f.cm, key |-> f.key]
  <1>1. PICK n \in {VolumeOf[g.key] : g \in files} :
          LET f == CHOOSE g \in files : VolumeOf[g.key] = n
          IN  v = [name |-> n, cm |-> f.cm, key |-> f.key]
    BY DEF DesiredVolumes
  <1> DEFINE f == CHOOSE g \in files : VolumeOf[g.key] = n
  <1>2. f \in files /\ VolumeOf[f.key] = n
    OBVIOUS
  <1> QED
    BY <1>1, <1>2

(* Every file has a desired volume under its name.                         *)
LEMMA FileIsDesired ==
  ASSUME NEW files, NEW f \in files
  PROVE  \E v \in DesiredVolumes(files) : v.name = VolumeOf[f.key]
  <1> DEFINE n == VolumeOf[f.key]
             g == CHOOSE h \in files : VolumeOf[h.key] = n
             v == [name |-> n, cm |-> g.cm, key |-> g.key]
  <1>1. v \in DesiredVolumes(files)
    BY DEF DesiredVolumes
  <1> QED
    BY <1>1

(* Without collisions of names, each file is mounted under its own path,   *)
(* whatever mounts the workload had before: the pods will find the file    *)
(* that a block of the Corefile names.                                     *)
THEOREM EveryFileMounted ==
  ASSUME NEW files, NEW old, NEW domains, OwnVolume(domains),
         \A g \in files : g.key \in domains, NEW f \in files
  PROVE  \E m \in AttachedMounts(old, DesiredVolumes(files)) : m.key = f.key
  <1> DEFINE desired == DesiredVolumes(files)
             kept == {m \in old : m.name \in Named(desired)}
             new == {w \in desired : \A m \in kept : m.key # w.key}
  <1>1. PICK v \in desired : v.name = VolumeOf[f.key]
    BY FileIsDesired
  <1>2. PICK g \in files : v = [name |-> VolumeOf[g.key], cm |-> g.cm, key |-> g.key]
    BY DesiredIsFile
  <1>3. v.key = f.key
    BY <1>1, <1>2 DEF OwnVolume
  <1>4. AttachedMounts(old, desired) = kept \cup {[name |-> w.name, key |-> w.key] : w \in new}
    BY DEF AttachedMounts
  <1>5. CASE v \in new
    <2>1. [name |-> v.name, key |-> v.key] \in AttachedMounts(old, desired)
      BY <1>4, <1>5
    <2> QED
      BY <1>3, <2>1
  <1>6. CASE v \notin new
    BY <1>3, <1>4, <1>6
  <1> QED
    BY <1>5, <1>6

(* Every wanted volume is there afterwards, and no other one.              *)
THEOREM VolumesAsWanted ==
  ASSUME NEW old, NEW desired
  PROVE  Named(AttachedVolumes(old, desired)) = Named(desired)
  BY DEF Named, AttachedVolumes

(* No mount refers to a volume that is not there.                          *)
THEOREM MountsHaveVolumes ==
  ASSUME NEW old, NEW mounts, NEW desired
  PROVE  Named(AttachedMounts(mounts, desired)) \subseteq Named(AttachedVolumes(old, desired))
  <1>1. \A m \in AttachedMounts(mounts, desired) : m.name \in Named(desired)
    BY DEF Named, AttachedMounts
  <1>2. Named(AttachedMounts(mounts, desired)) \subseteq Named(desired)
    BY <1>1 DEF Named
  <1> QED
    BY <1>2, VolumesAsWanted

(* Attaching the same files again changes nothing, so the retries of an    *)
(* interrupted reconciliation add no volume and no mount twice.            *)
THEOREM AttachingIsIdempotent ==
  ASSUME NEW old, NEW desired
  PROVE  /\ LET new == AttachedVolumes(old, desired)
            IN  AttachedVolumes(new, desired) = new
         /\ LET new == AttachedMounts(old, desired)
            IN  AttachedMounts(new, desired) = new
  <1>1. ASSUME NEW new, new = AttachedVolumes(old, desired)
        PROVE  AttachedVolumes(new, desired) = new
    <2>1. Named(new) = Named(desired)
      BY <1>1, VolumesAsWanted
    <2>2. {v \in new : v.name \in Named(desired)} = new
      BY <2>1 DEF Named
    <2>3. {v \in desired : v.name \notin Named(new)} = {}
      BY <2>1 DEF Named
    <2> QED
      BY <2>2, <2>3 DEF AttachedVolumes
  <1>2. ASSUME NEW new, new = AttachedMounts(old, desired)
        PROVE  AttachedMounts(new, desired) = new
    <2> DEFINE kept == {m \in old : m.name \in Named(desired)}
               missing(mounts) == {w \in desired : \A m \in mounts : m.key # w.key}
    <2>1. new = kept \cup {[name |-> w.name, key |-> w.key] : w \in missing(kept)}
      BY <1>2 DEF AttachedMounts
    <2>2. {m \in new : m.name \in Named(desired)} = new
      BY <2>1 DEF Named
    <2>3. missing(new) = {}
      <3> SUFFICES ASSUME NEW w \in desired PROVE \E m \in new : m.key = w.key
        OBVIOUS
      <3>1. CASE w \in missing(kept)
        <4>1. [name |-> w.name, key |-> w.key] \in new
          BY <2>1, <3>1
        <4> QED
          BY <4>1
      <3>2. CASE w \notin missing(kept)
        BY <2>1, <3>2
      <3> QED
        BY <3>1, <3>2
    <2> QED
      BY <2>2, <2>3 DEF AttachedMounts
  <1> QED
    BY <1>1, <1>2

=============================================================================
