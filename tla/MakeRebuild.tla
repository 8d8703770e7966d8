---------------------------- MODULE MakeRebuild ----------------------------
(***************************************************************************)
(* The incremental rebuild protocol of the Makefiles gyp's make.py        *)
(* generates, as GNU make executes them.  Every command runs through      *)
(* do_cmd (SHARED_HEADER, make.py 158-189): the recipe runs the command   *)
(* only if command_changed (the command differs from the cmd_$@ recorded  *)
(* in $@.d) or prereq_changed ($? minus the order-only $|); after the     *)
(* command it records the command in $@.d with echo, then, for C/C++      *)
(* (second argument), fixup_dep appends the headers the compiler          *)
(* reported.  The footer (236-251) includes the .d files of the outputs   *)
(* that exist.  Rules come in two shapes: the suffix rules (202-219) and  *)
(* WriteRules (452) list FORCE_DO_CMD as a normal prerequisite ("forced"), *)
(* WriteDoCmd (684-693) through WriteMakeRule (718-726) as an order-only  *)
(* one ("docmd": actions, copies, link, alink, solink, touch).            *)
(*                                                                         *)
(* A make run visits the rules in a topological order of the generated    *)
(* graph (serial make).  Between runs the user edits sources, regenerates *)
(* with a different command (flags), or deletes an output; a run can be  *)
(* killed between two lines of a recipe, or stop on a failing command.    *)
(* File contents are identified by their modification time: every write   *)
(* is a new content, and "built" records which command and which input    *)
(* contents produced each output.                                          *)
(***************************************************************************)
EXTENDS Naturals, Sequences, FiniteSets

CONSTANTS
  Sources,       \* files only the user writes
  Outputs,       \* files rules write
  Rules,         \* the generated rules
  Out,           \* [Rules -> SUBSET Outputs]: the outputs a command writes
  Primary,       \* [Rules -> Outputs]: outputs[0], the rule's $@
  Ins,           \* [Rules -> SUBSET Files]: the normal prerequisites written
  Hidden,        \* [Rules -> SUBSET Files]: headers the compiler reads
  Kind,          \* [Rules -> {"forced", "docmd"}]
  DepInfo,       \* [Rules -> BOOLEAN]: do_cmd's second argument (fixup_dep)
  Order,         \* the order serial make considers the rules in
  Commands,      \* the command texts a regeneration can produce
  InitCmd,       \* the command every rule starts with
  NoRecord,      \* no .d file / no content
  FORCE_DO_CMD,  \* the phony target
  MaxRuns,       \* make invocations
  MaxEdits       \* edits, regenerations and deletions

Files == Sources \cup Outputs

ASSUME /\ Sources \cap Outputs = {}
       /\ \A r \in Rules : Primary[r] \in Out[r] /\ Ins[r] \subseteq Files
       /\ Order \in Seq(Rules) /\ Len(Order) = Cardinality(Rules)
       /\ InitCmd \in Commands
       /\ MaxRuns \in Nat /\ MaxEdits \in Nat

VARIABLES
  now,     \* the clock: the last modification time handed out
  mtime,   \* [Files -> Nat], 0 when the file does not exist
  built,   \* what produced each output's content
  cmd,     \* the command the current Makefile gives each rule (cmd_foo)
  rec,     \* the cmd_$@ line of the rule's $@.d
  dlist,   \* whether $@.d carries the header list fixup_dep appends
  mphase,  \* "idle", "run", "cmd_done" (command ran), "recorded" (echo ran)
  pos,     \* index in Order of the rule make is at
  runs,    \* make invocations so far
  edits,   \* user changes so far
  clean    \* the last make run finished and nothing changed since

vars == <<now, mtime, built, cmd, rec, dlist, mphase, pos, runs, edits, clean>>

Reads(r) == Ins[r] \cup Hidden[r]

Exists(f) == mtime[f] > 0

(***************************************************************************)
(* The footer includes $@.d only for outputs that exist (245-250).        *)
(***************************************************************************)
IncludedRec(r) == IF Exists(Primary[r]) THEN rec[r] ELSE NoRecord

IncludedDeps(r) == Exists(Primary[r]) /\ dlist[r]

(***************************************************************************)
(* GNU make's view of a rule: its normal prerequisites, the ones newer   *)
(* than $@ ($?, every one when $@ is missing), the order-only ones ($|). *)
(* A phony normal prerequisite is always remade, so it is always in $?    *)
(* and always makes make run the recipe.                                  *)
(***************************************************************************)
NormalPrereqs(r) ==
  Ins[r] \cup (IF IncludedDeps(r) THEN Hidden[r] ELSE {})
         \cup (IF Kind[r] = "forced" THEN {FORCE_DO_CMD} ELSE {})

(* A missing output among them is remade by its own rule; for a secondary *)
(* output that is 'outputs[1:]: outputs[0]' (740-744), which has no       *)
(* recipe, so make counts it as updated, and newer, without writing it.   *)
NewerPrereqs(r) ==
  {f \in NormalPrereqs(r) :
     \/ f = FORCE_DO_CMD \/ mtime[f] > mtime[Primary[r]]
     \/ ~Exists(Primary[r]) \/ (f \in Outputs /\ ~Exists(f))}

OrderOnlyPrereqs(r) == IF Kind[r] = "docmd" THEN {FORCE_DO_CMD} ELSE {}

MakeRunsRecipe(r) == NewerPrereqs(r) # {} \/ ~Exists(Primary[r])

(***************************************************************************)
(* do_cmd's test (168-176, 182): command_changed, which compares the two  *)
(* texts by substituting each into the other (checked equal to string     *)
(* equality in CommandCompare), or prereq_changed = $(filter-out $|,$?).  *)
(***************************************************************************)
command_changed(r) == IncludedRec(r) # cmd[r]

\* Mutant: $(filter-out $?,$|), the arguments swapped.
prereq_changed_swapped(r) == OrderOnlyPrereqs(r) \ NewerPrereqs(r)

\* Mutant: FORCE_DO_CMD filtered out of $? as well.
prereq_changed_without_force(r) ==
  NewerPrereqs(r) \ (OrderOnlyPrereqs(r) \cup {FORCE_DO_CMD})

prereq_changed(r) == NewerPrereqs(r) \ OrderOnlyPrereqs(r)

DoCmdRuns(r) ==
  /\ MakeRunsRecipe(r)
  /\ command_changed(r) \/ prereq_changed(r) # {}

-----------------------------------------------------------------------------
Init ==
  /\ now = 1
  /\ mtime = [f \in Files |-> IF f \in Sources THEN 1 ELSE 0]
  /\ built = [o \in Outputs |-> NoRecord]
  /\ cmd = [r \in Rules |-> InitCmd]
  /\ rec = [r \in Rules |-> NoRecord]
  /\ dlist = [r \in Rules |-> FALSE]
  /\ mphase = "idle"
  /\ pos = 1
  /\ runs = 0
  /\ edits = 0
  /\ clean = FALSE

(***************************************************************************)
(* The user, between make runs.                                            *)
(***************************************************************************)
EditSource(s) ==
  /\ mphase = "idle" /\ edits < MaxEdits
  /\ now' = now + 1
  /\ mtime' = [mtime EXCEPT ![s] = now + 1]
  /\ edits' = edits + 1
  /\ clean' = FALSE
  /\ UNCHANGED <<built, cmd, rec, dlist, mphase, pos, runs>>

\* gyp is rerun with other flags: the .mk files define a new cmd_foo text
\* (or new CFLAGS_$(BUILDTYPE)); no output is touched.
Regenerate(r, c) ==
  /\ mphase = "idle" /\ edits < MaxEdits
  /\ c # cmd[r]
  /\ cmd' = [cmd EXCEPT ![r] = c]
  /\ edits' = edits + 1
  /\ clean' = FALSE
  /\ UNCHANGED <<now, mtime, built, rec, dlist, mphase, pos, runs>>

\* rm of any output, outputs[1:] of a multi-output rule included.
DeleteOutput(o) ==
  /\ mphase = "idle" /\ edits < MaxEdits
  /\ Exists(o)
  /\ mtime' = [mtime EXCEPT ![o] = 0]
  /\ edits' = edits + 1
  /\ clean' = FALSE
  /\ UNCHANGED <<now, built, cmd, rec, dlist, mphase, pos, runs>>

(***************************************************************************)
(* make, one rule at a time.                                               *)
(***************************************************************************)
StartMake ==
  /\ mphase = "idle" /\ runs < MaxRuns
  /\ mphase' = "run"
  /\ pos' = 1
  /\ runs' = runs + 1
  /\ clean' = FALSE
  /\ UNCHANGED <<now, mtime, built, cmd, rec, dlist, edits>>

AtRule(r) == mphase = "run" /\ pos <= Len(Order) /\ Order[pos] = r

\* make decides the target is up to date, or do_cmd's $(if ...) is empty.
SkipRule(r) ==
  /\ AtRule(r)
  /\ ~DoCmdRuns(r)
  /\ pos' = pos + 1
  /\ UNCHANGED <<now, mtime, built, cmd, rec, dlist, mphase, runs, edits, clean>>

\* @$(cmd_$(1)): the command writes all of the rule's outputs.  It can
\* only succeed when every file it reads exists.
RunCommand(r) ==
  /\ AtRule(r)
  /\ DoCmdRuns(r) /\ \A f \in Reads(r) : Exists(f)
  /\ now' = now + 1
  /\ mtime' = [f \in Files |-> IF f \in Out[r] THEN now + 1 ELSE mtime[f]]
  /\ built' = [o \in Outputs |->
                IF o \in Out[r]
                THEN [cmd |-> cmd[r], from |-> [f \in Reads(r) |-> mtime[f]]]
                ELSE built[o]]
  /\ mphase' = "cmd_done"
  /\ UNCHANGED <<cmd, rec, dlist, pos, runs, edits, clean>>

\* The command exits non-zero (a missing input, or any error) without
\* writing its outputs: make stops.
CommandFails(r) ==
  /\ AtRule(r)
  /\ DoCmdRuns(r)
  /\ mphase' = "idle"
  /\ UNCHANGED <<now, mtime, built, cmd, rec, dlist, pos, runs, edits, clean>>

\* @echo 'cmd_$@ := ...' > $(depfile): overwrites the whole .d file.
RecordCommand(r) ==
  /\ mphase = "cmd_done" /\ Order[pos] = r
  /\ rec' = [rec EXCEPT ![r] = cmd[r]]
  /\ dlist' = [dlist EXCEPT ![r] = FALSE]
  /\ mphase' = "recorded"
  /\ UNCHANGED <<now, mtime, built, cmd, pos, runs, edits, clean>>

\* Mutant: '@$(if $(2),$(fixup_dep))' written before the echo line, whose
\* '>' then truncates the header list fixup_dep appended.
FixupDepBeforeEcho(r) ==
  /\ mphase = "recorded" /\ Order[pos] = r
  /\ mphase' = "run"
  /\ pos' = pos + 1
  /\ UNCHANGED <<now, mtime, built, cmd, rec, dlist, runs, edits, clean>>

\* @$(if $(2),$(fixup_dep)): appends the compiler's header list.
FixupDep(r) ==
  /\ mphase = "recorded" /\ Order[pos] = r
  /\ dlist' = [dlist EXCEPT ![r] = DepInfo[r]]
  /\ mphase' = "run"
  /\ pos' = pos + 1
  /\ UNCHANGED <<now, mtime, built, cmd, rec, runs, edits, clean>>

FinishMake ==
  /\ mphase = "run" /\ pos > Len(Order)
  /\ mphase' = "idle"
  /\ clean' = TRUE
  /\ UNCHANGED <<now, mtime, built, cmd, rec, dlist, pos, runs, edits>>

\* make is killed (SIGKILL, power loss) between two recipe lines: no
\* cleanup, the run is over.
KillMake ==
  /\ mphase \in {"run", "cmd_done", "recorded"}
  /\ mphase' = "idle"
  /\ UNCHANGED <<now, mtime, built, cmd, rec, dlist, pos, runs, edits, clean>>

\* Every bound is spent.
BoundsReached ==
  /\ mphase = "idle" /\ runs = MaxRuns /\ edits = MaxEdits
  /\ UNCHANGED vars

Next ==
  \/ \E s \in Sources : EditSource(s)
  \/ \E r \in Rules, c \in Commands : Regenerate(r, c)
  \/ \E o \in Outputs : DeleteOutput(o)
  \/ StartMake
  \/ \E r \in Rules : SkipRule(r) \/ RunCommand(r) \/ CommandFails(r)
                      \/ RecordCommand(r) \/ FixupDep(r)
  \/ FinishMake
  \/ KillMake
  \/ BoundsReached

Spec == Init /\ [][Next]_vars

-----------------------------------------------------------------------------
(***************************************************************************)
(* Properties                                                              *)
(***************************************************************************)
\* The output exists and was produced from the current contents of every
\* file its command reads, declared or not.
InputsFresh(r, o) ==
  /\ Exists(o) /\ built[o] # NoRecord
  /\ built[o].from = [f \in Reads(r) |-> mtime[f]]

\* The output was produced by the command the Makefile now gives the rule.
CommandFresh(r, o) == built[o] # NoRecord /\ built[o].cmd = cmd[r]

UpToDate(r) == \A o \in Out[r] : InputsFresh(r, o) /\ CommandFresh(r, o)

\* After a make run that finished, every output of every rule exists and
\* was built from the current contents of its inputs, headers included,
\* whatever edits, deletions, kills between recipe lines and failed
\* commands came before (do_cmd, fixup_dep, the footer's .d inclusion).
InputsFreshAfterBuild ==
  clean => \A r \in Rules : \A o \in Out[r] : InputsFresh(r, o)

\* After a make run that finished, every output of a rule that lists
\* FORCE_DO_CMD as a normal prerequisite (the object suffix rules and
\* WriteRules) is up to date with its inputs and with its command, even
\* when a kill between the command and its echo left a stale record.
ForcedRulesUpToDateAfterBuild ==
  clean => \A r \in Rules : Kind[r] = "forced" => UpToDate(r)

\* After a make run that finished, the footer of the next make includes
\* the header list of every object compiled with dependency munging
\* (do_cmd's second argument): a kill between the echo that truncates
\* $@.d and fixup_dep never leaves make blind to the headers for good
\* (do_cmd 186-187, fixup_dep 95-117, the footer's include 246-250).
HeaderListsKnownAfterBuild ==
  clean => \A r \in Rules : DepInfo[r] => IncludedDeps(r)

(***************************************************************************)
(* Claims of the design that the code does not keep (violation runs).      *)
(***************************************************************************)

\* Spec 4.5 (b): a rule whose command line changed is re-run even if no
\* input changed, so after a finished make run every output was built by
\* its current command.
CommandChangeRebuilds ==
  clean => \A r \in Rules : \A o \in Out[r] : CommandFresh(r, o)

\* Spec 9: a rule is rebuilt iff an input changed or its command changed:
\* make never rewrites an output that is up to date with its inputs and
\* command and whose last run recorded that command in $@.d.
NoNeedlessRebuild ==
  [][\A r \in Rules :
       (mtime'[Primary[r]] > mtime[Primary[r]] /\ mphase = "run")
          => ~(UpToDate(r) /\ rec[r] = cmd[r])]_vars
=============================================================================
