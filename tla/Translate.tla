----------------------------- MODULE Translate -----------------------------
(***************************************************************************)
(* The part of MakefileWriter.Write (make.py 296-349) that turns one      *)
(* target's actions, rules, copies and sources into make rules:           *)
(* WriteActions (352-410), WriteRules (413-473), WriteCopies (476-495)    *)
(* and the $(OBJS) part of WriteSources (498-562), in that order.  The    *)
(* first three fill the lists extra_sources (generated files to compile)  *)
(* and extra_outputs (what $(OBJS) must wait for); the make rules they    *)
(* write are recorded by their outputs.  Objects are compiled by the      *)
(* suffix rules of SHARED_HEADER (201-219).                               *)
(*                                                                         *)
(* A path is a record: root "rel" (relative to the .gyp file's directory, *)
(* as written in the .gyp), "src" (relative to the source root, where     *)
(* make runs), "obj" ($(obj)/...) or "builddir" ($(builddir)/...), a      *)
(* directory, a base name and an extension.                               *)
(***************************************************************************)
EXTENDS Naturals, Sequences, SequencesExt

CONSTANTS
  GypDir,          \* self.path: the .gyp file's directory, from the root
  UserSources,     \* spec['sources']
  ActionPaths,     \* paths an action may list as outputs
  RuleSourcePaths, \* paths a rule may match (rule_sources)
  RuleTemplates,   \* output templates [root, dir, ext]; the name is INPUT_ROOT
  CopyFiles,       \* files a copy group may list
  CopyDests,       \* copy destinations [root, dir]
  MaxList,         \* the longest list in a .gyp entry
  NoRule           \* no suffix rule applies

Join(a, b) == IF b = "" THEN a ELSE a \o "/" \o b

\* Absolutify (753-757): paths holding '$(' are kept, others joined to
\* self.path.
Absolutify(p) == IF p.root = "rel" THEN [p EXCEPT !.root = "src", !.dir = Join(GypDir, p.dir)] ELSE p

\* A path written into the Makefile as it is: make reads it from the root.
AsWritten(p) == IF p.root = "rel" THEN [p EXCEPT !.root = "src"] ELSE p

Compilable(p) == p.ext \in {"c", "cc", "cpp", "cxx", "s"}

Target(p) == [p EXCEPT !.ext = "o"]

Objectify(p) == IF p.root = "src" THEN [p EXCEPT !.root = "obj"] ELSE p

\* Mutant: out = out[:-len('.bogus')] + '.h', rebinding the loop variable
\* instead of assigning outputs[i]: the list keeps the .bogus name.
RewriteLoopVar(p) == p

\* The .bogus hack of WriteActions (372-379).
Rewrite(p) == IF p.ext = "bogus" THEN [p EXCEPT !.ext = "h"] ELSE p

ActionOutputs(a) == [i \in DOMAIN a.outputs |-> Rewrite(a.outputs[i])]

\* One matched source of a rule: every template with INPUT_ROOT replaced.
RuleOutputs(r, s) ==
  [j \in DOMAIN r.templates |->
     [root |-> r.templates[j].root, dir |-> r.templates[j].dir,
      name |-> s.name, ext |-> r.templates[j].ext]]

CopyOutput(c, f) == [root |-> c.dest.root, dir |-> c.dest.dir, name |-> f.name, ext |-> f.ext]

Lists(S) == SeqOf(S, MaxList) \ {<<>>}

MapSeq(F(_), s) == [i \in DOMAIN s |-> F(s[i])]

VARIABLES
  actions, rules, copies,  \* spec['actions'], spec['rules'], spec['copies']
  step,           \* the Write* call that runs next
  extra_sources,  \* generated files to compile, as the .gyp names them
  extra_outputs,  \* contents of the $(action_*/rule_*/*_copies) aggregates
  mkrules,        \* the outputs of each make rule written, in order
  objs,           \* $(OBJS)
  objOrder        \* order-only prerequisites of $(OBJS) on extra_outputs

vars == <<actions, rules, copies, step, extra_sources, extra_outputs,
          mkrules, objs, objOrder>>

Init ==
  /\ actions \in SeqOf([outputs : Lists(ActionPaths), asSources : BOOLEAN], 1)
  /\ rules \in SeqOf([sources : Lists(RuleSourcePaths), templates : Lists(RuleTemplates),
                      asSources : BOOLEAN], 1)
  /\ copies \in SeqOf([dest : CopyDests, files : Lists(CopyFiles)], 1)
  /\ step = "actions"
  /\ extra_sources = <<>>
  /\ extra_outputs = {}
  /\ mkrules = <<>>
  /\ objs = {}
  /\ objOrder = {}

\* Mutant: extra_sources = extra_sources + outputs, which rebinds the
\* parameter: the caller's list is left as it was.
WriteActionsRebinding ==
  /\ step = "actions"
  /\ mkrules' = mkrules \o [k \in DOMAIN actions |-> MapSeq(Absolutify, ActionOutputs(actions[k]))]
  /\ extra_outputs' = extra_outputs \cup
        {Absolutify(o) : o \in UNION {ToSet(ActionOutputs(a)) : a \in ToSet(actions)}}
  /\ step' = "rules"
  /\ UNCHANGED <<actions, rules, copies, extra_sources, objs, objOrder>>

\* Each action: its rewritten outputs become sources if asked (extra_sources
\* += outputs, before they are absolutified), its rule is written for the
\* absolutified outputs, which the aggregate collects.
WriteActions ==
  /\ step = "actions"
  /\ extra_sources' = extra_sources \o
        FlattenSeq([k \in DOMAIN actions |->
          IF actions[k].asSources THEN ActionOutputs(actions[k]) ELSE <<>>])
  /\ mkrules' = mkrules \o [k \in DOMAIN actions |-> MapSeq(Absolutify, ActionOutputs(actions[k]))]
  /\ extra_outputs' = extra_outputs \cup
        {Absolutify(o) : o \in UNION {ToSet(ActionOutputs(a)) : a \in ToSet(actions)}}
  /\ step' = "rules"
  /\ UNCHANGED <<actions, rules, copies, objs, objOrder>>

\* Each rule, each matched source: one make rule for that source's outputs,
\* written as the templates give them; the outputs become sources if
\* asked, and the rule's aggregate collects them all.
WriteRules ==
  /\ step = "rules"
  /\ LET subs == FlattenSeq([k \in DOMAIN rules |->
                   [i \in DOMAIN rules[k].sources |-> <<k, rules[k].sources[i]>>]])
         outs(x) == RuleOutputs(rules[x[1]], x[2])
     IN /\ extra_sources' = extra_sources \o
              FlattenSeq([i \in DOMAIN subs |->
                IF rules[subs[i][1]].asSources THEN outs(subs[i]) ELSE <<>>])
        /\ mkrules' = mkrules \o [i \in DOMAIN subs |-> MapSeq(AsWritten, outs(subs[i]))]
        /\ extra_outputs' = extra_outputs \cup
              {AsWritten(o) : o \in UNION {ToSet(outs(subs[i])) : i \in DOMAIN subs}}
  /\ step' = "copies"
  /\ UNCHANGED <<actions, rules, copies, objs, objOrder>>

\* Each file of each copy group: a copy rule to destination/basename.
WriteCopies ==
  /\ step = "copies"
  /\ LET outs == FlattenSeq([k \in DOMAIN copies |->
                   [i \in DOMAIN copies[k].files |-> CopyOutput(copies[k], copies[k].files[i])]])
     IN /\ mkrules' = mkrules \o [i \in DOMAIN outs |-> <<AsWritten(outs[i])>>]
        /\ extra_outputs' = extra_outputs \cup {AsWritten(o) : o \in ToSet(outs)}
  /\ step' = "sources"
  /\ UNCHANGED <<actions, rules, copies, extra_sources, objs, objOrder>>

\* OBJS from the compilable sources, and '$(OBJS): | extra_outputs'.
WriteSources ==
  /\ step = "sources"
  /\ objs' = {Objectify(Absolutify(Target(s))) :
                s \in {x \in ToSet(UserSources \o extra_sources) : Compilable(x)}}
  /\ objOrder' = extra_outputs
  /\ step' = "done"
  /\ UNCHANGED <<actions, rules, copies, extra_sources, extra_outputs, mkrules>>

Done == step = "done" /\ UNCHANGED vars

Next == WriteActions \/ WriteRules \/ WriteCopies \/ WriteSources \/ Done

Spec == Init /\ [][Next]_vars

-----------------------------------------------------------------------------
(***************************************************************************)
(* make's side: the suffix rules $(obj)/%.o: %.X (X = c, s, cpp, cc, cxx)  *)
(* and, for generated sources, $(obj)/%.o: $(obj)/%.X (X = cc, cpp), in   *)
(* the order written.  make compiles an object from the first candidate    *)
(* that exists or has a rule.                                              *)
(***************************************************************************)
SuffixRules ==
  <<[root |-> "src", ext |-> "c"], [root |-> "src", ext |-> "s"],
    [root |-> "src", ext |-> "cpp"], [root |-> "src", ext |-> "cc"],
    [root |-> "src", ext |-> "cxx"],
    [root |-> "obj", ext |-> "cc"], [root |-> "obj", ext |-> "cpp"]>>

Made == UNION {ToSet(mkrules[i]) : i \in DOMAIN mkrules}

Exists(f) == f \in Made \/ f \in {Absolutify(s) : s \in ToSet(UserSources)}

Candidate(o, r) == [root |-> r.root, dir |-> o.dir, name |-> o.name, ext |-> r.ext]

CompiledFrom(o) ==
  LET i == SelectInSeq(SuffixRules, LAMBDA r : o.root = "obj" /\ Exists(Candidate(o, r)))
  IN IF i = 0 THEN NoRule ELSE Candidate(o, SuffixRules[i])

CompiledSources == {Absolutify(s) : s \in {x \in ToSet(UserSources \o extra_sources) : Compilable(x)}}

\* Spec 4.2: the outputs of actions (rewritten) and rules marked as
\* sources, as the files their make rules write.
AsSourceOutputs ==
  {Absolutify(Rewrite(o)) : o \in UNION {ToSet(a.outputs) : a \in {x \in ToSet(actions) : x.asSources}}}
  \cup {AsWritten(o) : o \in UNION {UNION {ToSet(RuleOutputs(r, s)) : s \in ToSet(r.sources)} :
                                      r \in {x \in ToSet(rules) : x.asSources}}}

-----------------------------------------------------------------------------
\* Every variable keeps the shape the code gives it.
TypeOK ==
  /\ step \in {"actions", "rules", "copies", "sources", "done"}
  /\ \A i \in DOMAIN extra_sources : extra_sources[i].root \in {"rel", "obj", "builddir"}
  /\ \A f \in Made \cup extra_outputs \cup objOrder :
       f.root \in {"src", "obj", "builddir"} /\ f.ext # "bogus"
  /\ \A o \in objs : o.ext = "o"

\* Spec 4.2 and 4.3: every compilable file an action or rule generates as a
\* source is compiled into $(OBJS); every object is compiled, by a suffix
\* rule, from the file it was listed for; and a generated one is made
\* before any object through the order-only rule on the aggregates.
GeneratedSourcesCompiled ==
  step = "done" =>
    /\ \A o \in AsSourceOutputs : Compilable(o) => o \in CompiledSources
    /\ \A s \in CompiledSources :
         /\ CompiledFrom(Objectify(Target(s))) = s
         /\ s \in Made => s \in objOrder
=============================================================================
