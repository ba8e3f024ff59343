--------------------------- MODULE MCOverrideRaces ---------------------------
(* Instances of OverrideRaces for TLC. *)
EXTENDS OverrideRaces, MCMetadataOverrides
==============================================================================
