-------------------------- MODULE MC_MakeRebuild --------------------------
(***************************************************************************)
(* One target as make.py writes it: an action generating gen.h from      *)
(* gen.in, main.c compiled by the .c suffix rule (it includes util.h and  *)
(* the generated gen.h, which only its .d file tells make about), and    *)
(* the executable linked from main.o.                                     *)
(***************************************************************************)
EXTENDS MakeRebuild, TLC

CONSTANTS main_c, util_h, gen_in, main_o, gen_h, gen_x, app, cc, action, link, c1, c2

MCSources == {main_c, util_h, gen_in}
MCOutputs == {main_o, gen_h, app}
MCRules == {cc, action, link}
MCOut == (cc :> {main_o} @@ action :> {gen_h} @@ link :> {app})
MCPrimary == (cc :> main_o @@ action :> gen_h @@ link :> app)
MCIns == (cc :> {main_c} @@ action :> {gen_in} @@ link :> {main_o})
MCHidden == (cc :> {util_h, gen_h} @@ action :> {} @@ link :> {})
MCKind == (cc :> "forced" @@ action :> "docmd" @@ link :> "docmd")
MCDepInfo == (cc :> TRUE @@ action :> FALSE @@ link :> FALSE)
MCOrder == <<action, cc, link>>

\* The action also writes a second file, gen_x, that nothing reads: the
\* rule is 'gen_h: gen_in | FORCE_DO_CMD' plus 'gen_x: gen_h' (733-744).
MCOutputsMulti == MCOutputs \cup {gen_x}
MCOutMulti == [MCOut EXCEPT ![action] = {gen_h, gen_x}]
=============================================================================
