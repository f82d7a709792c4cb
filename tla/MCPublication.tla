---------------------------- MODULE MCPublication ----------------------------
(***************************************************************************)
(* Small instances of PublicationRefinement for TLC.                       *)
(***************************************************************************)
EXTENDS MCZonePublishing, PublicationRefinement
=============================================================================
