---------------------------- MODULE MC_FlagScope ----------------------------
(***************************************************************************)
(* Three targets read in the order a, b, c, each declaring one or both of *)
(* the configurations Default and Release, with 'make' or                 *)
(* 'make BUILDTYPE=...'.                                                  *)
(***************************************************************************)
EXTENDS FlagScope

CONSTANTS a, b, c

MCTargets == {a, b, c}
MCTargetList == <<a, b, c>>
MCConfigs == {"Default", "Release"}
=============================================================================
