------------------------------ MODULE MakeGen ------------------------------
(***************************************************************************)
(* The generation pass of gyp's Make generator (pylib/gyp/generator/      *)
(* make.py): GenerateOutput visits the qualified targets in the order the *)
(* front end hands them over and, for each, MakefileWriter.Write writes   *)
(* one <target>.mk fragment, then publishes the target's output path and  *)
(* link set into the process-wide tables target_outputs and               *)
(* target_link_deps, which later targets read in ComputeDeps.  The root   *)
(* Makefile gets a header first, one include line per finished fragment, *)
(* and the footer last.  Any exception (a write failure, or the KeyError  *)
(* of ComputeDeps on a dependency not yet published) ends the run.        *)
(*                                                                         *)
(* Paths are abstracted to records [dir, file]; the objects of a target   *)
(* are not individual files but the one $(OBJS) list the fragment uses.   *)
(***************************************************************************)
EXTENDS Naturals, Sequences, FiniteSets, SequencesExt

LOCAL R == INSTANCE Relation

CONSTANTS
  Targets,       \* qualified targets
  TargetList,    \* the order GenerateOutput visits them (flat_list)
  TargetName,    \* [Targets -> STRING]: spec['target_name']
  GypDir,        \* [Targets -> STRING]: self.path, the .gyp file's directory
  ActionNames,   \* [Targets -> SUBSET STRING]: action_name of spec['actions']
  RuleNames,     \* [Targets -> SUBSET STRING]: rule_name of spec['rules']
  HasObjs,       \* [Targets -> BOOLEAN]: some source is Compilable
  Types,         \* the values spec['type'] may take in this model
  Topological,   \* TRUE: the front end's list is a topological sort
  NoOutput,      \* ComputeOutput's None (type 'settings')
  Unpublished    \* no entry in a table, fragment or command variable yet

ASSUME TargetList \in Seq(Targets) /\ ToSet(TargetList) = Targets
ASSUME Len(TargetList) = Cardinality(Targets)

AllTypes == {"executable", "static_library", "shared_library",
             "loadable_module", "none", "settings"}
\* "unknown" stands for any other value of spec['type'].
ASSUME Types \subseteq AllTypes \cup {"unknown"}

VARIABLES
  type,             \* spec['type'] of each target (input, never changes)
  deps,             \* spec['dependencies'] of each target (input)
  phase,            \* "start", "targets", "done" or "aborted"
  next,             \* index in TargetList of the target being written
  target_outputs,   \* make.py target_outputs
  target_link_deps, \* make.py target_link_deps
  mk,               \* state on disk of each <target>.mk
  frag,             \* what each finished fragment declares
  root,             \* the root Makefile on disk
  cmd_def           \* which action/rule each cmd_<name> variable runs

vars == <<type, deps, phase, next, target_outputs, target_link_deps,
          mk, frag, root, cmd_def>>

(***************************************************************************)
(* ComputeOutput (make.py 565-589): the output path by type.               *)
(***************************************************************************)
FileName(t) ==
  CASE type[t] = "static_library" -> "lib" \o TargetName[t] \o ".a"
    [] type[t] \in {"loadable_module", "shared_library"} ->
                                     "lib" \o TargetName[t] \o ".so"
    [] type[t] = "none"            -> TargetName[t] \o ".stamp"
    [] type[t] = "executable"      -> TargetName[t]
    [] OTHER                       -> TargetName[t]  \* printed ERROR (584)

ComputeOutput(t) ==
  IF type[t] = "settings" THEN NoOutput
  ELSE [dir |-> GypDir[t], file |-> FileName(t)]

Outputs ==
  UNION {{[dir |-> GypDir[t], file |-> f] :
            f \in {"lib" \o TargetName[t] \o ".a", "lib" \o TargetName[t] \o ".so",
                   TargetName[t] \o ".stamp", TargetName[t]}} : t \in Targets}

(***************************************************************************)
(* ComputeDeps (make.py 592-611).  Both results are Python sets turned    *)
(* into lists, so their order is the set's iteration order, not the order *)
(* of spec['dependencies']: any order of the set is a possible result.    *)
(***************************************************************************)
DepsPublished(t) == \A d \in ToSet(deps[t]) : target_outputs[d] # Unpublished

LinkDepSet(t) ==
  UNION {ToSet(target_link_deps[d]) :
           d \in {e \in ToSet(deps[t]) : target_link_deps[e] # Unpublished}}

\* Mutant: the build-order set without deps.update(link_deps) (607).
DepSetWithoutLinkDeps(t) ==
  {target_outputs[d] : d \in {e \in ToSet(deps[t]) : target_outputs[e] # NoOutput}}

DepSet(t) ==
  {target_outputs[d] : d \in {e \in ToSet(deps[t]) : target_outputs[e] # NoOutput}}
    \cup LinkDepSet(t)

(***************************************************************************)
(* The cmd_<name> variables a fragment defines: WriteActions (362) and    *)
(* WriteRules (422) both name theirs target_name + '_' + action/rule name, *)
(* and rules are written after actions.                                   *)
(***************************************************************************)
Defs(t) == {<<t, "action", a>> : a \in ActionNames[t]}
             \cup {<<t, "rule", r>> : r \in RuleNames[t]}

CmdName(d) == TargetName[d[1]] \o "_" \o d[3]

CmdNames == {CmdName(d) : d \in UNION {Defs(t) : t \in Targets}}

LastDef(t, n) ==
  LET ds == {d \in Defs(t) : CmdName(d) = n}
  IN IF \E d \in ds : d[2] = "rule" THEN CHOOSE d \in ds : d[2] = "rule"
     ELSE CHOOSE d \in ds : TRUE

WrittenCmdNames(t) == {CmdName(d) : d \in Defs(t)}

(***************************************************************************)
(* The dependency lists the front end can hand over: each lists distinct  *)
(* other targets; with Topological, only targets earlier in TargetList.   *)
(***************************************************************************)
Earlier(t) ==
  {TargetList[j] : j \in {i \in 1..Len(TargetList) : \E k \in 1..Len(TargetList) :
                            TargetList[k] = t /\ i < k}}

DepChoices(t) ==
  SetToAllKPermutations(IF Topological THEN Earlier(t) ELSE Targets \ {t})

RECURSIVE DepGraphs(_)
DepGraphs(S) ==
  IF S = {} THEN {<<>>}
  ELSE LET t == CHOOSE x \in S : TRUE
       IN {(t :> l) @@ f : f \in DepGraphs(S \ {t}), l \in DepChoices(t)}

DependsOn == [x, y \in Targets |-> y \in ToSet(deps[x])]

-----------------------------------------------------------------------------
Init ==
  /\ deps \in DepGraphs(Targets)
  /\ Topological \/ ~\E t \in Targets : R!TransitiveClosure(DependsOn, Targets)[t, t]
  /\ type \in [Targets -> Types]
  /\ phase = "start"
  /\ next = 1
  /\ target_outputs = [t \in Targets |-> Unpublished]
  /\ target_link_deps = [t \in Targets |-> Unpublished]
  /\ mk = [t \in Targets |-> "old"]
  /\ frag = [t \in Targets |-> Unpublished]
  /\ root = [state |-> "old", includes |-> <<>>, footer |-> TRUE]
  /\ cmd_def = [n \in CmdNames |-> Unpublished]

(***************************************************************************)
(* GenerateOutput (766-788): open the root Makefile, which truncates the  *)
(* one a previous run left, and write the shared header.                   *)
(***************************************************************************)
OpenRoot ==
  /\ phase = "start"
  /\ root' = [state |-> "new", includes |-> <<>>, footer |-> FALSE]
  /\ phase' = "targets"
  /\ UNCHANGED <<type, deps, next, target_outputs, target_link_deps,
                 mk, frag, cmd_def>>

(***************************************************************************)
(* open() of the root Makefile fails: nothing has been written yet.       *)
(***************************************************************************)
OpenRootFails ==
  /\ phase = "start"
  /\ phase' = "aborted"
  /\ UNCHANGED <<type, deps, next, target_outputs, target_link_deps,
                 mk, frag, root, cmd_def>>

(***************************************************************************)
(* One iteration of the loop of GenerateOutput (790-804): Write for the   *)
(* next target, then the root's include line for its fragment.  Write     *)
(* (296-349) computes deps and link deps, the output, writes the actions, *)
(* rules, copies, sources and final rule, then publishes the tables.      *)
(***************************************************************************)
FinalRule(t) ==
  CASE type[t] = "executable"                           -> "link"
    [] type[t] = "static_library"                       -> "alink"
    [] type[t] \in {"loadable_module", "shared_library"} -> "solink"
    [] type[t] = "none"                                 -> "touch"
    [] type[t] = "settings"                             -> "none"
    [] OTHER                                            -> "none"  \* WARNING (650)

\* Mutant: a static library re-publishes its dependencies' link deps.
PublishedLinkDepsStaticTransitive(t, link_deps) ==
  CASE type[t] \in {"static_library", "shared_library"} ->
                                    <<ComputeOutput(t)>> \o link_deps
    [] OTHER                      -> target_link_deps[t]

\* Mutant: the link set is built from target_outputs before this target's
\* entry is written (the two updates of 338-347 swapped).
PublishedLinkDepsBeforeOutput(t, link_deps) ==
  CASE type[t] = "static_library" -> <<target_outputs[t]>>
    [] type[t] = "shared_library" -> <<target_outputs[t]>> \o link_deps
    [] OTHER                      -> target_link_deps[t]

PublishedLinkDeps(t, link_deps) ==
  CASE type[t] = "static_library" -> <<ComputeOutput(t)>>
    [] type[t] = "shared_library" -> <<ComputeOutput(t)>> \o link_deps
    [] OTHER                      -> target_link_deps[t]

Write(t) ==
  /\ phase = "targets"
  /\ next <= Len(TargetList)
  /\ t = TargetList[next]
  /\ DepsPublished(t)
  /\ \E link_deps \in SetToSeqs(LinkDepSet(t)), dep_list \in SetToSeqs(DepSet(t)) :
       /\ frag' = [frag EXCEPT ![t] =
             [objDeps |-> IF HasObjs[t] THEN DepSet(t) ELSE {},
              rule    |-> FinalRule(t),
              ins     |-> IF FinalRule(t) = "touch" THEN dep_list ELSE link_deps]]
       /\ target_link_deps' = [target_link_deps EXCEPT
                                 ![t] = PublishedLinkDeps(t, link_deps)]
  /\ target_outputs' = [target_outputs EXCEPT ![t] = ComputeOutput(t)]
  /\ cmd_def' = [n \in CmdNames |->
                   IF n \in WrittenCmdNames(t) THEN LastDef(t, n) ELSE cmd_def[n]]
  /\ mk' = [mk EXCEPT ![t] = "complete"]
  /\ root' = [root EXCEPT !.includes = Append(@, t)]
  /\ next' = next + 1
  /\ UNCHANGED <<type, deps, phase>>

(***************************************************************************)
(* An exception inside Write: the KeyError of ComputeDeps (602) when a    *)
(* dependency is not yet published, or a failed write.  The fragment was  *)
(* already opened for writing (298); the run ends with the root Makefile  *)
(* as written so far.                                                      *)
(***************************************************************************)
\* Mutant: the root's include line is written before writer.Write.
WriteFailsAfterInclude(t) ==
  /\ phase = "targets"
  /\ next <= Len(TargetList)
  /\ t = TargetList[next]
  /\ mk' = [mk EXCEPT ![t] = "partial"]
  /\ root' = [root EXCEPT !.includes = Append(@, t)]
  /\ phase' = "aborted"
  /\ UNCHANGED <<type, deps, next, target_outputs, target_link_deps,
                 frag, cmd_def>>

WriteFails(t) ==
  /\ phase = "targets"
  /\ next <= Len(TargetList)
  /\ t = TargetList[next]
  /\ mk' = [mk EXCEPT ![t] = "partial"]
  /\ phase' = "aborted"
  /\ UNCHANGED <<type, deps, next, target_outputs, target_link_deps,
                 frag, root, cmd_def>>

(***************************************************************************)
(* After the loop: the shared footer, and close (806-808).                *)
(***************************************************************************)
WriteFooter ==
  /\ phase = "targets"
  /\ next > Len(TargetList)
  /\ root' = [root EXCEPT !.footer = TRUE]
  /\ phase' = "done"
  /\ UNCHANGED <<type, deps, next, target_outputs, target_link_deps,
                 mk, frag, cmd_def>>

Terminated ==
  /\ phase \in {"done", "aborted"}
  /\ UNCHANGED vars

Next ==
  \/ OpenRoot
  \/ OpenRootFails
  \/ \E t \in Targets : Write(t) \/ WriteFails(t)
  \/ WriteFooter
  \/ Terminated

Spec == Init /\ [][Next]_vars

-----------------------------------------------------------------------------
(***************************************************************************)
(* Properties                                                              *)
(***************************************************************************)
Done(t) == mk[t] = "complete"

Fragments == [objDeps : SUBSET (Outputs \cup {NoOutput}),
              rule : {"link", "alink", "solink", "touch", "none"},
              ins : Seq(Outputs)]

\* Every variable keeps the shape the code gives it.
TypeOK ==
  /\ phase \in {"start", "targets", "done", "aborted"}
  /\ next \in 1..Len(TargetList) + 1
  /\ target_outputs \in [Targets -> Outputs \cup {NoOutput, Unpublished}]
  /\ \A t \in Targets :
       target_link_deps[t] = Unpublished \/ target_link_deps[t] \in Seq(Outputs)
  /\ mk \in [Targets -> {"old", "partial", "complete"}]
  /\ \A t \in Targets : frag[t] = Unpublished \/ frag[t] \in Fragments
  /\ root.state \in {"old", "new"} /\ root.includes \in Seq(Targets)
  /\ cmd_def \in [CmdNames -> UNION {Defs(t) : t \in Targets} \cup {Unpublished}]

(***************************************************************************)
(* The link closure the design fixes (spec 4.1): a static library links   *)
(* as itself alone; a shared library as itself plus the link closures of  *)
(* its dependencies; nothing else contributes to a link line.             *)
(***************************************************************************)
RECURSIVE LinkClosure(_)
LinkClosure(t) ==
  CASE type[t] = "static_library" -> {t}
    [] type[t] = "shared_library" ->
          {t} \cup UNION {LinkClosure(d) : d \in ToSet(deps[t])}
    [] OTHER -> {}

OutputsOf(ts) == {ComputeOutput(x) : x \in ts}

LinkInputs(t) == OutputsOf(UNION {LinkClosure(d) : d \in ToSet(deps[t])})

\* Write publishes and links exactly the transitive link closure: the
\* link/solink/alink rule of every finished fragment lists the outputs of
\* the link closures of its dependencies, and every finished library's
\* target_link_deps entry is its own closure, though each target only sees
\* what its direct dependencies published (Write, ComputeDeps).
LinkSetsAreClosures ==
  \A t \in Targets : Done(t) =>
     /\ frag[t].rule \in {"link", "alink", "solink"} =>
          ToSet(frag[t].ins) = LinkInputs(t)
     /\ type[t] \in {"static_library", "shared_library"} =>
          ToSet(target_link_deps[t]) = OutputsOf(LinkClosure(t))

\* Every object of a finished fragment, and the stamp of a 'none' target,
\* is ordered after the outputs of all its dependencies that have one and
\* after everything on its link line (ComputeDeps, WriteSources 534-539,
\* WriteTarget 643-645): the build-order set includes the link-order set.
BuildOrderCoversDeps ==
  \A t \in Targets : Done(t) =>
     LET need == OutputsOf({d \in ToSet(deps[t]) : type[d] # "settings"})
                   \cup LinkInputs(t)
     IN /\ HasObjs[t] => need \subseteq frag[t].objDeps
        /\ frag[t].rule = "touch" => need \subseteq ToSet(frag[t].ins)

\* The root Makefile includes only fragments that were written completely,
\* and once its footer is written it includes every target's fragment once,
\* in the order of TargetList (GenerateOutput 790-806).
RootIncludesWholeFragments ==
  /\ \A i \in 1..Len(root.includes) : Done(root.includes[i])
  /\ (root.state = "new" /\ root.footer) => root.includes = TargetList

(***************************************************************************)
(* Claims of the design that the code does not keep (violation runs).      *)
(***************************************************************************)

\* Spec 7: a fatal error aborts generation with no partial output
\* committed: an aborted run leaves the previous root Makefile and
\* fragments as they were.
AbortLeavesNoPartialOutput ==
  phase = "aborted" => (root.state = "old" /\ \A t \in Targets : mk[t] = "old")

=============================================================================
