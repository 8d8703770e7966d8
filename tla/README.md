# TLA+ models of gyp's Make generator

This directory holds TLA+ specifications of the Make backend of gyp
(`src/trunk/tools/gyp/pylib/gyp/generator/make.py`) and of the driver that
invokes it (`src/trunk/tools/gyp/pylib/gyp/__init__.py`). It also holds the TLC
configurations that check those specifications against what the design
(`spec.md`) and the code's own comments promise.

## The system

`gyp/__init__.py`'s `main` (101-284) is run first. It resolves the list of
formats, the build files, `--depth`, the variables (`GYP_DEFINES`, `-D`), the
includes and the generator flags (`GYP_GENERATOR_FLAGS`, `-G`,
`--msvs-version`). Then, for each distinct format, it calls `Load` and the
generator's `GenerateOutput`, and returns 0.

`make.py` turns a resolved target graph into GNU Makefiles. It has two halves
that interact only through the files it writes.

1. **Generation** (Python, one process, sequential).
   - `GenerateOutput` (766-808) opens the root `Makefile`. Opening truncates it.
     It then writes `SHARED_HEADER` and visits the qualified targets in the
     front end's `flat_list` order.
   - For each target, `MakefileWriter.Write` (296-349) opens `<target>.mk`. It
     then calls, in order:
     - `ComputeDeps` (592-611): reads the process-wide tables `target_outputs`
       and `target_link_deps` for the target's dependencies. A missing key is
       a `KeyError` that ends the run.
     - `ComputeOutput` (565-589)
     - `WriteActions`, `WriteRules`, `WriteCopies`, `WriteSources` and
       `WriteTarget`
   - Write then publishes the target's output, and its link set (libraries
     only), into the two tables.
   - `GenerateOutput` appends one `include` line per finished fragment, and
     writes `SHARED_FOOTER` after the loop.
   - Every `cmd_<target>_<name>` variable of every fragment lands in one global
     make namespace.
2. **Rebuild** (make, run by the user, repeatedly).
   - Every command runs through `do_cmd` (158-189). `do_cmd` runs the command
     if `command_changed` or `prereq_changed`. It then records the command in
     `$@.d` with `echo ... >` and, for C/C++, appends the header list with
     `fixup_dep` (109-117).
   - The footer includes the `.d` files of outputs that exist.
   - Whether make reaches `do_cmd` at all depends on where `FORCE_DO_CMD`
     appears:
     - a normal prerequisite in the suffix rules (202-219) and in `WriteRules`
       (452);
     - an order-only one in `WriteDoCmd`/`WriteMakeRule(force=True)`
       (684-726). These are actions, copies, link, alink, solink and touch.
   - `make -j` runs recipes in parallel. A recipe starts only once every
     prerequisite, normal or order-only, is up to date. The order between
     targets therefore rests on the order-only rules `$(OBJS): | deps`,
     `$(OBJS): | extra_outputs` (534-548) and `output: | extra_outputs`
     (624-627). `make` with no goal builds `all`, which depends on
     `$(all_targets)` (239): every output `WriteDoCmd` writes (695) and
     every `$(OBJS)` (531).
   - Flags are per configuration. Each fragment writes `CFLAGS_<config>`
     (with `DEFS_`, `INCS_`, ...) and `LDFLAGS_<config>` for the target's own
     configurations (510-523, 629-632). These are global make variables.
     The fragment then binds `$(OBJS): CFLAGS := $(CFLAGS_$(BUILDTYPE))` and
     `<output>: LDFLAGS := $(LDFLAGS_$(BUILDTYPE))` (555-560, 634). The
     header sets `BUILDTYPE ?=` to a default chosen from the target list
     (775-781). `make BUILDTYPE=...` overrides it.

## Inventory

| Component | Code | State | Operations | Module |
|---|---|---|---|---|
| Root assembler | `GenerateOutput` | root Makefile on disk, loop index, default `BUILDTYPE` | open/truncate, per-target include, footer, abort | MakeGen, FlagScope |
| Dependency resolver | `ComputeDeps`, tables at 283-287 | `target_outputs`, `target_link_deps` | lookup (KeyError), set union, `list(set)` | MakeGen |
| Action/rule/copy translator | `WriteActions`, `WriteRules`, `WriteCopies` | `cmd_*` variables, make rules and their outputs, `extra_sources`, `extra_outputs` | define command names, write rules, collect aggregates | MakeGen (names), Translate |
| Source emitter | `WriteSources` | `$(OBJS)` and its order-only prerequisites, `CFLAGS_<config>` | write objDeps, list objects, flag blocks and binding | MakeGen (ordering), Translate (objects), ParallelBuild (-j), FlagScope (flags) |
| Target finalizer | `ComputeOutput`, `WriteTarget` | output path, final rule and its inputs, copy to `$(builddir)`, alias, `all` | choose link/alink/solink/touch, install, `LDFLAGS` blocks and binding | MakeGen, ParallelBuild, FlagScope |
| Rule writer | `WriteDoCmd`, `WriteMakeRule` | placement of `FORCE_DO_CMD`, order-only and phony rules, `all_targets` | normal vs order-only, registration | MakeRebuild, ParallelBuild |
| Rebuild protocol | `SHARED_HEADER`, `fixup_dep`, `SHARED_FOOTER` | files' mtimes, `$@.d` (command, header list), make's position | run, record, fixup, skip, fail, kill | MakeRebuild |
| Driver | `gyp/__init__.py` `main`, `NameValueListToDict`, `FindBuildFiles` | formats, build files, depth, variables, includes, generator flags, formats left | resolve each option, the per-format loop, the exception paths | Driver (`gyp.input.Load` is not under `src/`; its result is MakeGen's Init) |
| Test harness | `test/**` | | | not modelled (test driver) |

Hard behaviours the code meets:
- an exception half-way through generation;
- a non-topological target list;
- set iteration order;
- name collisions in a global namespace;
- make killed between recipe lines;
- a failing command;
- a command change with no file change;
- a deleted output;
- headers known only through a `.d` file;
- `make -j` running recipes of several targets at once;
- global make variables that later fragments overwrite.

## Modules

### MakeGen.tla: generation

- **Constants:** the targets, `TargetList` (the order `GenerateOutput`
  visits), names, directories, action and rule names, whether a target has
  compilable sources, the admitted `Types`, and `Topological` (whether
  `TargetList` is a topological order).
- **Init:**
  - `deps` ranges over every dependency list the front end can hand over, built
    by the recursive `DepGraphs`. Each list is a sequence of distinct targets.
    With `Topological`, only earlier targets appear in it. Without it, any
    acyclic graph.
  - `type` ranges over `[Targets -> Types]`. `"unknown"` stands for any
    type the code does not recognize: a bare-name path and no final rule.
- **Actions:**
  - `OpenRoot` and `OpenRootFails`.
  - `Write(t)`: the whole of `Write` plus the include line of the loop body.
    It is guarded by `DepsPublished`; otherwise `ComputeDeps` raises.
    `\E link_deps, dep_list \in SetToSeqs(...)` is `list(set)` in any order.
  - `WriteFails(t)`: the `KeyError`, or a failed write after the fragment was
    opened.
  - `WriteFooter` and `Terminated`.
- **Abstractions:**
  - Paths are records `[dir, file]`.
  - The object files of a target are one `$(OBJS)` set.
  - A fragment records only what the properties need: the order-only
    prerequisites of its objects, its final rule, and that rule's inputs.
  - `cmd_def` records which action or rule each `cmd_*` name runs after all
    fragments are included. A rule's `cmd_` line comes after the actions' lines
    in a fragment, so it wins (`LastDef`).

### Translate.tla: actions, rules, copies and objects of one target

- **What it is:** one target's `WriteActions`, `WriteRules`, `WriteCopies` and
  the `$(OBJS)` part of `WriteSources`, in the order `Write` calls them.
- **Paths:** records with a root:
  - `rel`: relative to the `.gyp` file;
  - `src`: relative to the source root, where make runs;
  - `obj`: `$(obj)/...`;
  - `builddir`: `$(builddir)/...`.
  `Absolutify`, `Target` and `Objectify` are modelled by what they do to that
  record. A path written into the Makefile without `Absolutify` is read by
  make from the root (`AsWritten`).
- **Init:** at most one action, one rule and one copy group, each listing up
  to two paths from small sets (`MaxList = 2`).
- **Actions:** `WriteActions`, `WriteRules`, `WriteCopies` and `WriteSources`,
  each a whole call, followed by `Done`.
- **make's side:** `CompiledFrom` picks the first suffix rule of
  `SHARED_HEADER` (201-219) whose source exists or has a rule.

### MakeRebuild.tla: rebuild

- **Constants:** a fixed set of rules (outputs, `Primary` = `outputs[0]`,
  declared inputs, headers the compiler reads, `forced`/`docmd` kind, whether
  `fixup_dep` runs) and the order serial make visits them.
- **File contents:** identified by modification time. `built[o]` records the
  command and the input contents that produced output `o`.
- **`.d` file:** `rec` is its `cmd_$@` line; `dlist` is whether it carries the
  header list.
- **Between runs, the user may:**
  - edit a source (`EditSource`);
  - regenerate with a different command (`Regenerate`);
  - delete any output, a secondary one of a multi-output rule included
    (`DeleteOutput`).
- **A make run:**
  - `StartMake`;
  - per rule: `SkipRule` (make's or `do_cmd`'s test says no), `RunCommand`,
    `CommandFails`, `RecordCommand` (the echo) and `FixupDep`;
  - `FinishMake`, or `KillMake` between any two recipe lines.
- **Make's decision:** `NormalPrereqs`, `NewerPrereqs` (`$?`; a missing
  secondary output counts as remade, since its rule `outputs[1:]:
  outputs[0]` has no recipe),
  `OrderOnlyPrereqs` (`$|`) and `MakeRunsRecipe`, followed by `do_cmd`'s
  `command_changed`/`prereq_changed`.
- **Bounds:** `MaxRuns` and `MaxEdits` cap the runs and the user's changes.
  `BoundsReached` is the final stuttering step.

### CommandCompare.tla: the text of the command comparison

- **What it is:** one `do_cmd` rule seen as text. `cmd` is what
  `$(cmd_$(1))` expands to in the current Makefile; `rec` is the `cmd_$@`
  value read back from `$@.d` (or `NoRecord` before the first run).
- **Operators, each a recursive function over sequences:**
  - `subst`: GNU make's `$(subst from,to,text)`, including the empty-pattern
    case, which appends `to`.
  - `command_changed`: the double substitution of make.py 167-168.
  - `escape_quotes` and `EchoArg`: the argument of the recording `echo`.
  - `Unquote`: the shell's reading of that word; `Echo`: bash's echo (as is)
    or dash's (turns `\\` into `\`).
  - `MakeExpand`: the `:=` expansion when the footer includes `$@.d`
    (`$$` is `$`, `$c` the empty variable `c`, a final `$` kept).
- **Init:** `/bin/sh` is bash or dash, fixed once; any command text.
- **Actions:** `Make` (a `do_cmd` visit: record `Recorded(shell, cmd)` if the
  command changed) and `Regenerate` (gyp writes a different command).
- **Alphabet:** one plain character, `$`, a quote and a backslash. These are
  the characters one of the stages treats specially.

### ParallelBuild.tla: the rules under make -j

- **What it is:** a clean `make -j Jobs` over the rules the fragments of a
  small target graph write. A file is a pair `<<kind, target>>`:
  - `act` is the action aggregate;
  - `obj` is `$(OBJS)`;
  - `out` is the output;
  - `bin` is the copy in `$(builddir)`.
- **Inputs (Init):** every type, every acyclic dependency graph over the
  list, with and without actions and compilable sources. The goal is `all`
  or the alias of an installable target.
- **Rules:**
  - `DepSet` and `ComputeLinkDeps` are `ComputeDeps`, with `settings`
    skipped. `LinkDeps` is what `Write` publishes.
  - `Prereqs` holds the normal prerequisites of the final rule and of the
    copy. `OrderOnly` and `TargetOrderOnly` hold the order-only rules.
  - `AllTargets` is `all_targets`. `GoalPrereqs` is `all` or the alias.
  - `needed` is everything make must update for the goal, fixed at start.
- **Actions:**
  - `Start(f)`: make starts a recipe whose prerequisites are all made, when
    a job slot is free.
  - `Finish(f)`: the recipe ends.
  - `Exit`: everything needed is made.
- **Fairness:** `WF` on starting some runnable recipe, and on each recipe's
  end.

### Driver.tla: gyp's main

- **What it is:** `main` of `gyp/__init__.py` as a sequence of steps, with a
  program counter `pc` naming the block that runs next. The parser's
  results and the environment are inputs, chosen with `\E` in the step that
  reads them. Strings are sequences of tokens, so `re.split('[\s,]')`
  (`Fields`, which keeps empty fields), `shlex.split` (`ShlexSplit`) and
  `split('=', 1)` (`ItemName`, `ItemValue`) act on them as the code does.
- **State:** `formats`, `buildFiles`, `depth`, `variables` (the dict
  `NameValueListToDict` builds), `includes`, `generatorFlags`, the formats
  left to visit (`todo`), those generated so far (`generated`), and `exit`
  (`"0"`, `"1"` or `"exception"`).
- **Actions:** `ResolveFormats` (161-175), `ResolveBuildFiles` (177-182),
  `ResolveDepth` (195-215, the Chromium `src` search in `FindDepth` and
  `SrcPrefix`), `ResolveDefines` (217-226), `ResolveIncludes` (228-240),
  `ResolveGeneratorFlags` (242-258), `StartLoop` (`set(formats)` in any
  order), `Generate` (one format: `Load` and `GenerateOutput`, each of which
  may raise), `Return` and the final `Done`. `Raise` ends `main` with an
  uncaught exception: the `KeyError` of the platform table, the `TypeError` of
  `str += list`, the failed depth search, and a failed import or generation.

### FlagScope.tla: the flag variables as make reads them

- **What it is:** make reading the header and then the fragments in
  include order. A flag list is a token `<<t, c>>`: the flags target `t`
  declares for configuration `c`.
- **Inputs (Init):** per target, a non-empty set of configurations (`Default`,
  `Release`) and a default among them. Also per target: no `sources`, sources
  none of which compile, or objects; and whether the type links. Finally,
  `BUILDTYPE` is either absent from make's command line or given there.
  `buildtype` is `DefaultConfiguration` (775-781) unless the command line
  gives one.
- **State:** `var` holds the global `CFLAGS_<c>` and `LDFLAGS_<c>`.
  `objFlags` and `outFlags` hold each target's bindings.
- **Actions:** `ReadFragment` (the variable blocks `CflagsWritten` and
  `LdflagsWritten`, then the two `:=` bindings, expanded on the spot) and
  `Read` (every fragment read).

## Runs

| Run | Expect | What it shows |
|---|---|---|
| `makegen` | pass | **TypeOK**. **LinkSetsAreClosures**: every link line, and every published link set, is the transitive link closure, though each target sees only its direct dependencies' tables. **BuildOrderCoversDeps**: objects and stamps are ordered after all dependency outputs and everything on the link line. **RootIncludesWholeFragments**: the root never includes a partial fragment, and with its footer it includes all of them in order. 4 targets, 5 types (all but `loadable_module`), every topological dependency graph, every `list(set)` order, failures anywhere. |
| `makegen_abort` | violation | `AbortLeavesNoPartialOutput` (spec 5, 7): an abort leaves the truncated root and a partial fragment. |
| `translate` | pass | **TypeOK** (no written path keeps `.bogus`). **GeneratedSourcesCompiled**: every generated source marked for compilation is in `$(OBJS)`; every object has a suffix rule that compiles it from the file it was listed for; generated files come before any object. The run enumerates action outputs next to the `.gyp` file or in `$(obj)`, and rule templates in `$(obj)`. |
| `makerebuild` | pass | **HeaderListsKnownAfterBuild**: after a finished make, the footer of the next make includes the header list of every object compiled with `fixup_dep`, even after a kill between the echo that truncates `$@.d` and `fixup_dep`. **InputsFreshAfterBuild**: after any history of edits, regenerations, deletions, kills and failures, a finished make leaves every output built from the current contents of everything it reads, headers included. **ForcedRulesUpToDateAfterBuild**: objects are also built by their current command. 3 rules (action → generated header → object → executable), 2 commands, 3 runs, 2 user changes. |
| `makerebuild_cmdchange` | violation | `CommandChangeRebuilds` (spec 4.5(b), the `do_cmd` comment): after a regeneration changes the action's command, the action never re-runs. |
| `makerebuild_multiout` | violation | `InputsFreshAfterBuild` with a two-output action (`gen_h`, `gen_x`): after the user deletes `gen_x`, the next make finishes without rebuilding it, because `gen_x: gen_h` has no recipe (make.py:744). |
| `commandcompare` | pass | **TypeOK** (every record is a text). **CommandChangedIsInequality**: for every pair of texts of up to 3 characters, and for a missing record, `command_changed` is exactly string inequality. The kernel's `filter-out` check, which the comment rejects, would fail this. |
| `parallelbuild` | pass | **GeneratedFilesBeforeCompile** (spec 4.3 (a), (b)): under `make -j`, no object compiles before its target's actions have run, nor before each dependency with an output is built together with that dependency's actions. The dependency's actions are reached only through the dependency's own `output: \| extra_outputs` rule. **GoalBuilt** (liveness): `make` builds every output, action output and installed copy, and `make <alias>` builds the copy, in any order `-j` picks. 2 targets, 5 types, `-j2`, both goals. |
| `flags_leak` | violation | `FlagsStayInTarget` (spec 4.3, Scenario D): a target that lacks the active configuration is compiled or linked with the `CFLAGS_`/`LDFLAGS_` of an earlier fragment (make.py:556, 634). 3 targets, 2 configurations, with and without `BUILDTYPE` on the command line. |
| `driver` | pass | **TypeOK** (`main` returns 0 only with no format left). **CommandLineOverridesEnvironment**: every `-D` item wins over `GYP_DEFINES`, and every `-G` item (and `--msvs-version`) over `GYP_GENERATOR_FLAGS`; the rest of the environment survives. **DepthIsInnermostSrc**: without `--depth`, the depth is the path up to the last `src` component of the first build file under one. 107,466 states over every combination of the inputs listed under Bounds. |
| `commandcompare_stable` | violation | `RecordedCommandIsStable` (the `do_cmd` comment): the command `$x` is recorded as empty, so it compares as changed on every make. |

Each property of a passing run has a mutant in `PROJECT.json`. A mutant is a
plausible bug in the mapped code that TLC shows the property catches:
- the link set read from `target_outputs` before it is written;
- a static library re-publishing its dependencies;
- `deps.update(link_deps)` dropped;
- the include line written before `Write`;
- `filter-out` with swapped arguments;
- `command_changed` with one substitution only;
- the `.bogus` rewrite bound to the loop variable;
- `extra_sources` rebound instead of extended in `WriteActions`;
- `escape_quotes` writing `'\\''` (a doubled backslash);
- `WriteTarget` without `output: | extra_outputs`. A dependency of type
  `none` with an action but no sources then stamps before its action runs,
  and a dependent compiles before the generated header exists;
- `WriteDoCmd` not adding its outputs to `all_targets`. A static library
  nothing depends on is then never built by `make`;
- `-D` items placed before `GYP_DEFINES` in the concatenation;
- the `src` search starting one component too early (`components_len - 1`
  read as an index of the 1-based sequence), which misses a build file
  directly in `src`;
- `main` returning 0 before the loop has finished;
- `@$(if $(2),$(fixup_dep))` written before the echo line, whose `>` then
  truncates the header list;
- `FORCE_DO_CMD` filtered out of `$?`. This one breaks header tracking after a
  kill between the echo and `fixup_dep`, which is why the code's "always
  rebuild" in fact hides that crash window.

## Findings

Each of these is shown by a violation run:
1. **Command changes are ignored** for everything written by `WriteDoCmd`
   (make.py:723). Changed flags of a link or an action take effect only when
   some input also changes. This is a code bug, against the `do_cmd` comment.
2. **An abort leaves partial output** (make.py:783, 298).
3. **Commands with `$` always rebuild** (make.py:186). The recorded command is
   expanded again by `:=` when `$@.d` is read back. Under dash, `echo` also
   collapses `\\`. Such a command never equals its record. TLC's trace is
   the command `$x`, recorded as the empty text. A `$` that ends the line
   is kept, as in make 3.82 and later; make 3.81 also dropped it.
4. **A deleted secondary output is never rebuilt** (make.py:744).
5. **Flags leak between targets** (make.py:556, 634, 775). A target that does
   not declare the configuration `$(BUILDTYPE)` names does not get empty
   flags. It gets those of the last earlier fragment that declared that
   configuration. One way to reach this is `make BUILDTYPE=Release` with a
   target that has only `Default`. Another is a default taken from a target
   that has `Release`. The TODO at 771-773 says no check prevents it.

The models also reproduce the following, but no run checks them (see the
hazards in `PROJECT.json`):
- **Objects always rebuild** (make.py:202): `FORCE_DO_CMD` is always in `$?`.
  MakeRebuild's `NoNeedlessRebuild` (spec 9) is violated after one clean
  build. Any second `make` shows it.
- **The driver raises on ordinary inputs** (`__init__.py`). Driver reaches
  each of these states:
  - `GYP_DEFINES=""` together with `-D` raises `TypeError`: the empty string
    is falsy, so it is not split, and `str += list` fails (225). The same
    happens with `GYP_GENERATOR_FLAGS=""` and `-G` (248).
  - `GYP_GENERATORS="make, scons"` yields an empty format, because
    `re.split` keeps the empty field between `,` and ` ` (165). Its import
    fails, possibly after the other format has been generated.
  - With no format given, a `sys.platform` outside the table, such as
    `linux3`, raises `KeyError` (175).
- **Command names collide across targets** (make.py:360, 421). Spec 7(3)
  already names this as an open question. MakeGen's `cmd_def` reproduces it
  for targets `net` (action `base_gen`) and `net_base` (rule `gen`).
- **A `settings` dependency's actions race its dependents under `make -j`**
  (make.py:603). `ComputeDeps` drops dependencies with no output, so no
  order-only rule reaches their actions. Serial make is safe only because
  `all_targets` lists fragments in topological order. Spec 4.1 allows it.
  With `settings` dependencies counted in `GeneratedFilesBeforeCompile`,
  ParallelBuild finds the race with two targets.
- **Link order is hash order** (make.py:611). It is fixed per Python 2 build,
  and `--start-group` hides it for `link` and `solink`.
- **An unknown type yields an output nothing builds** (make.py:584, 650).
  Spec 7 already names this weakness.
- **Generated `.c` files under `$(obj)` cannot be compiled** (make.py:215).
  Only `.cc` and `.cpp` have suffix rules there. With a generated `gen.c`
  under `$(obj)/geni` among the action outputs, Translate violates
  `GeneratedSourcesCompiled`. make stops at once with "No rule to make
  target", so an ordinary build finds it.
- **Rule outputs are not absolutified** (make.py:452). A rule template
  relative to the `.gyp` file names one file in the make rule and another in
  `$(OBJS)`. gyp files put rule outputs under `$(INTERMEDIATE_DIR)` or
  `$(SHARED_INTERMEDIATE_DIR)`.
- **Rule outputs collide on equal stems** (make.py:433). Copies collide the
  same way on equal base names.

## Bounds and why they suffice

- **MakeGen, four targets.** This is the smallest count with a chain
  executable → shared → static → static. That chain exercises both
  publication cases, and a link set inherited two levels down. Two targets
  share a `.gyp` directory. One target has no sources. There is one action and
  one rule. Every type but `loadable_module` is enumerated: it shares `solink` with `shared_library` and, like `executable`, publishes no link set (341-347).
- **Translate.** One of each list holds every case that decides a path:
  a relative path against a variable one, `.bogus`, a compilable extension
  against a header, and two entries with one stem. The pass run has 63,875
  states.
- **MakeRebuild.** One rule of each shape (forced with `fixup_dep`, `docmd`
  action, `docmd` link). The forced rule reads a header produced by the
  action. Three make runs allow build, kill, rebuild. Two changes allow an edit
  plus a regeneration or deletion.

- **ParallelBuild, two targets and two job slots.** One dependency edge is
  enough for every ordering rule: the dependent's objects against the
  dependency's output and actions. Two slots let two recipes race. Every
  type but `loadable_module` is enumerated; it is installed and aliased
  exactly like `executable`. Three targets pass the safety properties too,
  in about three minutes with 5.9 million states. The liveness check at that
  size does not fit the run budget.

- **FlagScope, three targets and two configurations.** Two targets are
  enough for a leak. The third lets a leaked value pass over a target
  that does not link or has no sources, and lets the default come from
  a target other than the first. Every input combination is enumerated
  (41,472 initial states).

- **Driver.** The inputs cover:
  - every branch of each step: given, from the environment, defaulted,
    absent, unset and empty;
  - `GYP_GENERATORS` with a separator pair (an empty field) and a format the
    generators lack;
  - two platforms, one of them outside the table;
  - build files with no `src` component, with `src` last, and under two
    nested `src` components;
  - one build file and two of them;
  - a defined and an undefined name in `GYP_DEFINES`;
  - the integer, string and flag forms of a `-D` item;
  - `msvs_version` given in the environment, with `-G` and with
    `--msvs-version`;
  - a duplicated `-f`.

  Each step reads its input once, so larger inputs only repeat these cases.

## Fairness

`MakeGen` has no fairness and no liveness property. Generation is a finite
loop of one Python process that always ends, done or aborted, so a
property that it ends would hold whatever the code did. `ParallelBuild` has weak fairness on starting some runnable recipe, and
on the end of each running recipe. GNU make's job server starts a recipe
whenever one is runnable and a slot is free, and a recipe is a finite
command. `Driver` has no fairness and no liveness property: it is a straight-line
sequence that ends in `Done`, which TLC's deadlock check covers. `MakeRebuild` has no fairness, because the user may
stop at any time and make may be killed.

## Not modelled, and the plan

Most important first:
1. `#` in a recorded command. It starts a comment in the included `$@.d`, and
   CommandCompare's alphabet does not hold it.
2. **Incremental builds under make -j.** ParallelBuild covers a clean
   `make -j`. MakeRebuild covers incremental builds with serial make. Every
   piece of state `do_cmd` touches (the outputs and `$@.d`) belongs to one
   rule, and `-j` starts a rule only after its prerequisites finish. The
   per-rule properties therefore hold under `-j` exactly when they hold
   under a serial topological order. An action that reads a dependency's
   output it does not declare (399) needs a model of undeclared reads, which
   gyp input does not carry.
3. **An abstract specification of the link and ordering edges** each
   fragment promises. An abstract spec of the order of the fragments alone
   was tried and dropped: its guards were images of `Write`'s guards, so
   the refinement held whatever the code did. A useful one would state
   the published tables, which `LinkSetsAreClosures` already checks as an
   invariant.
4. `LIBS` (633, 635) is written and bound in the same fragment, so it is
   always the target's own, and FlagScope leaves it out. The contents of the
   flag lists are tokens. Executables whose `product_dir` is `$(builddir)`
   (so no copy rule) are not modelled.
5. In the driver, `gyp.input.Load` (the front end, not under `src/`) is
   modelled only by its result. Its output, the target list, is MakeGen's
   Init. `Generate` lets it raise or succeed. Debug output, `--help` and
   `GYP_GENERATOR_OUTPUT` are not modelled: they do not decide any property.
   The home-directory lookup for includes is abstracted to one default
   include.
