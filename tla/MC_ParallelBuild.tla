-------------------------- MODULE MC_ParallelBuild --------------------------
(***************************************************************************)
(* Two targets handed over in the order a, b, so b may depend on a; make  *)
(* runs two recipes at a time.                                            *)
(***************************************************************************)
EXTENDS ParallelBuild

CONSTANTS a, b

MCTargets == {a, b}
MCTargetList == <<a, b>>
MCTypes == {"executable", "static_library", "shared_library", "none", "settings"}
=============================================================================
