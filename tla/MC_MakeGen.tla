---------------------------- MODULE MC_MakeGen ----------------------------
(***************************************************************************)
(* Instances of MakeGen for TLC: four targets in two .gyp directories,    *)
(* five of the six types, and every dependency graph the front end can hand over.   *)
(***************************************************************************)
EXTENDS MakeGen

CONSTANTS t1, t2, t3, t4

MCTargets == {t1, t2, t3, t4}
MCTargetList == <<t1, t2, t3, t4>>

\* Distinct names, one action and one rule: no command-name collision.
MCTargetName == (t1 :> "base" @@ t2 :> "util" @@ t3 :> "net" @@ t4 :> "app")
MCGypDir == (t1 :> "base" @@ t2 :> "base" @@ t3 :> "net" @@ t4 :> "app")
MCActionNames == (t1 :> {} @@ t2 :> {"gen"} @@ t3 :> {} @@ t4 :> {})
MCRuleNames == (t1 :> {} @@ t2 :> {} @@ t3 :> {"idl"} @@ t4 :> {})
MCHasObjs == (t1 :> TRUE @@ t2 :> FALSE @@ t3 :> TRUE @@ t4 :> TRUE)

\* Every type but loadable_module, which takes the solink path of
\* shared_library and, like executable, publishes no link set (341-347).
MCPassTypes == AllTypes \ {"loadable_module"}
\* Fewer types for the runs that look for one counterexample.
MCLinkTypes == {"static_library", "shared_library", "executable"}
=============================================================================
