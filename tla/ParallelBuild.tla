--------------------------- MODULE ParallelBuild ---------------------------
(***************************************************************************)
(* A clean `make -j` over the rules the generator writes for a small      *)
(* graph of targets.  The rules are the ones of make.py:                  *)
(*   - the do_cmd rule of each action (WriteActions 398-401);             *)
(*   - $(OBJS) with its order-only rules on the build-order set and on    *)
(*     the action aggregates (WriteSources 525-551);                      *)
(*   - the final rule, and the order-only rule of the final output on     *)
(*     the aggregates (WriteTarget 624-645);                              *)
(*   - the copy to $(builddir), the alias and 'all' of executables and    *)
(*     loadable modules (WriteTarget 652-667);                            *)
(*   - 'all: $(all_targets)' of the footer (239), over what WriteDoCmd    *)
(*     and WriteSources add to all_targets.                               *)
(* No generated file exists yet, so every rule make reaches runs its      *)
(* recipe.  make updates every prerequisite of a file, normal or          *)
(* order-only, before it starts the file's recipe, and runs at most Jobs  *)
(* recipes at a time, in any order its job server allows.                 *)
(*                                                                         *)
(* A file is a pair <<kind, target>>: the outputs of the target's actions *)
(* ("act", the aggregate; a multi-output action is made when its first    *)
(* output is, 744), its objects ("obj", the one $(OBJS) list), its output *)
(* ("out") and its copy in $(builddir) ("bin").  Sources exist and are    *)
(* not files of the model.                                                *)
(***************************************************************************)
EXTENDS Naturals, FiniteSets, Sequences, SequencesExt

CONSTANTS
  Targets,      \* qualified targets
  TargetList,   \* flat_list: a topological order of Targets
  Types,        \* the values spec['type'] takes in this model
  Jobs          \* make -j Jobs

ASSUME TargetList \in Seq(Targets) /\ ToSet(TargetList) = Targets
ASSUME Types \subseteq {"executable", "static_library", "shared_library",
                        "loadable_module", "none", "settings"}
ASSUME Jobs \in Nat \ {0}

VARIABLES
  type,        \* spec['type'] (input)
  deps,        \* spec['dependencies'] (input)
  hasAction,   \* spec['actions'] is not empty (input)
  hasSources,  \* some source is Compilable (input)
  goal,        \* what make was asked for: <<"all">> or an alias <<"alias", t>>
  needed,      \* the files make must update for the goal
  status       \* each file: "absent", "running" (its recipe) or "made"

vars == <<type, deps, hasAction, hasSources, goal, needed, status>>

Kinds == {"act", "obj", "out", "bin"}
Files == Kinds \X Targets

Index(t) == CHOOSE i \in DOMAIN TargetList : TargetList[i] = t

\* ComputeOutput returns None for 'settings' only (579-580).
HasOutput(t) == type[t] # "settings"

\* Executables and loadable modules are installed and aliased (656).
Installable(t) == type[t] \in {"executable", "loadable_module"}

(***************************************************************************)
(* ComputeDeps (599-611) over the tables Write publishes (341-347).       *)
(***************************************************************************)
RECURSIVE LinkDeps(_), ComputeLinkDeps(_)

\* target_link_deps[t]: no entry ({}) unless t is a library.
LinkDeps(t) ==
  CASE type[t] = "static_library" -> {<<"out", t>>}
    [] type[t] = "shared_library" -> {<<"out", t>>} \cup ComputeLinkDeps(t)
    [] OTHER                      -> {}

\* link_deps: the union of the dependencies' entries.
ComputeLinkDeps(t) == UNION {LinkDeps(d) : d \in deps[t]}

\* deps: the dependencies' outputs, skipping None, and link_deps.
DepSet(t) ==
  {<<"out", d>> : d \in {e \in deps[t] : HasOutput(e)}} \cup ComputeLinkDeps(t)

\* extra_outputs: the $(action_*_outputs) aggregates (403-407).
ExtraOutputs(t) == IF hasAction[t] THEN {<<"act", t>>} ELSE {}

\* extra_link_deps: $(OBJS) when there are objects (525-527, 550-551).
Objs(t) == IF hasSources[t] THEN {<<"obj", t>>} ELSE {}

\* The files a fragment writes a rule for (Write 321-336, WriteTarget 656-661).
HasRule(f) ==
  CASE f[1] = "act" -> hasAction[f[2]]
    [] f[1] = "obj" -> hasSources[f[2]]
    [] f[1] = "out" -> HasOutput(f[2])
    [] f[1] = "bin" -> Installable(f[2])

(***************************************************************************)
(* The prerequisites of each rule.                                         *)
(***************************************************************************)
\* Normal prerequisites that are generated files: the final rule's inputs
\* (637-645: link_deps, or deps for the stamp of 'none') and the copy of
\* the output to $(builddir) (657-661).  Actions and objects have only
\* sources (and FORCE_DO_CMD) as normal prerequisites.
Prereqs(f) ==
  LET t == f[2] IN
  CASE f[1] = "out" /\ type[t] = "none" -> DepSet(t)
    [] f[1] = "out"                     -> Objs(t) \cup ComputeLinkDeps(t)
    [] f[1] = "bin"                     -> {<<"out", t>>}
    [] OTHER                            -> {}

\* Mutant: WriteTarget without 'output: | extra_outputs' (624-627).
TargetOrderOnlyDropped(t) == {}

\* 'output: | extra_outputs' (624-627): the output waits for the actions.
TargetOrderOnly(t) == ExtraOutputs(t)

\* '$(OBJS): | deps' and '$(OBJS): | extra_outputs' (534-548).
OrderOnly(f) ==
  CASE f[1] = "obj" -> DepSet(f[2]) \cup ExtraOutputs(f[2])
    [] f[1] = "out" -> TargetOrderOnly(f[2])
    [] OTHER        -> {}

Pre(f) == Prereqs(f) \cup OrderOnly(f)

\* Mutant: WriteDoCmd without 'all_targets += outputs' (694-695): only
\* $(OBJS) (531) is registered.
AllTargetsObjsOnly == {f \in Files : f[1] = "obj" /\ HasRule(f)}

\* all_targets: every do_cmd output (695) and $(OBJS) (531).
AllTargets == {f \in Files : HasRule(f)}

\* The prerequisites of a goal: 'all: $(all_targets)' (239) and
\* 'all: binpath' (665-667); the alias 'filename: binpath' (662-664).
GoalPrereqs(g) ==
  IF g = <<"all">> THEN AllTargets \cup {<<"bin", t>> : t \in {u \in Targets : Installable(u)}}
  ELSE {<<"bin", g[2]>>}

\* What make must update for the goal: its prerequisites, theirs, and so on.
RECURSIVE Closure(_)
Closure(S) ==
  LET N == S \cup UNION {Pre(f) : f \in S}
  IN IF N = S THEN S ELSE Closure(N)

Running == {f \in Files : status[f] = "running"}

-----------------------------------------------------------------------------
Init ==
  /\ type \in [Targets -> Types]
  /\ deps \in {g \in [Targets -> SUBSET Targets] :
                 \A t \in Targets : \A d \in g[t] : Index(d) < Index(t)}
  /\ hasAction \in [Targets -> BOOLEAN]
  /\ hasSources \in [Targets -> BOOLEAN]
  /\ goal \in {<<"all">>} \cup {<<"alias", t>> : t \in {u \in Targets : Installable(u)}}
  /\ needed = Closure(GoalPrereqs(goal))
  /\ status = [f \in Files |-> "absent"]

\* make starts the recipe of a needed file once all its prerequisites are
\* up to date and a job slot is free.
Start(f) ==
  /\ f \in needed
  /\ HasRule(f)
  /\ status[f] = "absent"
  /\ \A p \in Pre(f) : status[p] = "made"
  /\ Cardinality(Running) < Jobs
  /\ status' = [status EXCEPT ![f] = "running"]
  /\ UNCHANGED <<type, deps, hasAction, hasSources, goal, needed>>

\* The recipe (do_cmd: mkdir, the command, the record) completes.
Finish(f) ==
  /\ status[f] = "running"
  /\ status' = [status EXCEPT ![f] = "made"]
  /\ UNCHANGED <<type, deps, hasAction, hasSources, goal, needed>>

\* Everything the goal needs is made: make exits.
Exit ==
  /\ \A f \in needed : status[f] = "made"
  /\ UNCHANGED vars

Next == (\E f \in Files : Start(f) \/ Finish(f)) \/ Exit

\* make's job server starts a runnable recipe whenever a slot is free, and
\* every recipe ends.
Fairness ==
  /\ WF_vars(\E f \in Files : Start(f))
  /\ \A f \in Files : WF_vars(Finish(f))

Spec == Init /\ [][Next]_vars /\ Fairness

-----------------------------------------------------------------------------
Artifacts ==
  {<<"out", t>> : t \in {u \in Targets : HasOutput(u)}}
    \cup {<<"act", t>> : t \in {u \in Targets : hasAction[u]}}
    \cup {<<"bin", t>> : t \in {u \in Targets : Installable(u)}}

\* Spec 4.3 (a) and (b), under make -j: no object of a target is compiled
\* before the target's own actions have run, nor before every dependency
\* that has an output is built, together with that dependency's actions
\* (whose generated headers the objects may include).  The second part
\* holds only through the dependency's own rule 'output: | extra_outputs'.
GeneratedFilesBeforeCompile ==
  \A t \in Targets :
    status[<<"obj", t>>] # "absent" =>
      \A f \in ExtraOutputs(t) \cup
               UNION {ExtraOutputs(d) \cup {<<"out", d>>} : d \in {e \in deps[t] : HasOutput(e)}} :
        status[f] = "made"

\* 'make' builds the output of every target, every action's outputs and
\* every installed copy, whatever order -j runs recipes in; 'make <name>'
\* builds that executable's copy in $(builddir).
GoalBuilt ==
  <>(\A f \in (IF goal = <<"all">> THEN Artifacts ELSE {<<"bin", goal[2]>>}) :
       status[f] = "made")
=============================================================================
