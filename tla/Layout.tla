------------------------------- MODULE Layout -------------------------------
(***************************************************************************)
(* What dnsconnector_construction.go computes: the managed blocks of the   *)
(* Corefile, and the volumes and mounts that bring zone files from config  *)
(* maps into the CoreDNS pods.                                             *)
(*                                                                         *)
(* A zone file offered to CoreDNS is a record [cm, key]: a config map and  *)
(* its one data key, which the domain determines.  The path of a mount is  *)
(* the mount directory followed by the key, so the key stands for it.      *)
(***************************************************************************)

CONSTANT VolumeOf  \* domain -> "dnszone-" + the domain with dashes for dots

(* getDesiredVolumes: one volume per name.  Of several files with one name *)
(* the last one wins, in the order of the config maps; it does not matter  *)
(* here which one that is.                                                 *)
DesiredVolumes(files) ==
  {LET f == CHOOSE g \in files : VolumeOf[g.key] = n
   IN  [name |-> n, cm |-> f.cm, key |-> f.key] : n \in {VolumeOf[g.key] : g \in files}}

Named(things) == {t.name : t \in things}

(* Mutant: a volume that is no longer wanted is kept.                      *)
AttachedVolumesAll(old, desired) ==
  old \cup {v \in desired : v.name \notin Named(old)}

(* setZoneFileConifgMaps: a volume that exists under a wanted name stays   *)
(* as it is, whatever config map it refers to.                             *)
AttachedVolumes(old, desired) ==
  LET kept == {v \in old : v.name \in Named(desired)}
  IN  kept \cup {v \in desired : v.name \notin Named(kept)}

(* The same for mounts, which are kept by name and added by path.          *)
AttachedMounts(old, desired) ==
  LET kept == {m \in old : m.name \in Named(desired)}
  IN  kept \cup {[name |-> v.name, key |-> v.key] :
                   v \in {w \in desired : \A m \in kept : m.key # w.key}}

(* generateCorefileCM: all managed blocks are dropped and one is appended  *)
(* per domain, with the connector's plugins; other text stays.             *)
GeneratedCorefile(text, domains, plugins) == [text |-> text, blocks |-> domains \X {plugins}]

=============================================================================
