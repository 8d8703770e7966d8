---------------------------- MODULE MC_Translate ----------------------------
(***************************************************************************)
(* One target in directory "base" with one C source, at most one action,  *)
(* one rule and one copy group, each listing up to two paths.             *)
(***************************************************************************)
EXTENDS Translate

P(root, dir, name, ext) == [root |-> root, dir |-> dir, name |-> name, ext |-> ext]

MCUserSources == <<P("rel", "", "main", "c")>>

\* Action outputs: a C file next to the .gyp, a generated .cc under
\* $(INTERMEDIATE_DIR) and a header declared with the .bogus hack.
MCActionPaths == {P("rel", "", "gen", "c"), P("obj", "geni", "gen", "cc"),
                  P("rel", "", "res", "bogus")}

\* Two .idl files with different stems, one in a subdirectory.
MCRuleSourcePaths == {P("rel", "", "x", "idl"), P("rel", "sub", "y", "idl")}

\* Templates under $(SHARED_INTERMEDIATE_DIR), as gyp files write them.
MCRuleTemplates == {[root |-> "obj", dir |-> "gen", ext |-> "cc"],
                    [root |-> "obj", dir |-> "gen", ext |-> "h"]}

MCCopyFiles == {P("rel", "", "data", "txt"), P("rel", "sub", "conf", "txt")}
MCCopyDests == {[root |-> "builddir", dir |-> ""]}
=============================================================================
