----------------------------- MODULE FlagScope -----------------------------
(***************************************************************************)
(* How make binds the compile and link flags of each target when it reads *)
(* the root Makefile.  GenerateOutput (774-788) writes                     *)
(* 'BUILDTYPE ?= <default_configuration>' into the header (67); the       *)
(* fragments are then read in include order.  Each one writes, for every  *)
(* configuration of its target, the global variables CFLAGS_<config>      *)
(* (WriteSources 511-523: DEFS_, CFLAGS_, CFLAGS_C_, CFLAGS_CC_, INCS_,   *)
(* abstracted to one) and LDFLAGS_<config> (WriteTarget 629-632), then    *)
(* binds its objects and its output to the active configuration with      *)
(* target-specific ':=' assignments (555-560, 634), which make expands    *)
(* while reading the line.                                                *)
(*                                                                         *)
(* A flag list is a token <<t, c>>: the flags target t declares for       *)
(* configuration c.  An undefined variable expands to Empty.              *)
(***************************************************************************)
EXTENDS Naturals, Sequences, SequencesExt

CONSTANTS
  Targets,      \* qualified targets
  TargetList,   \* flat_list
  Configs,      \* configuration names, "Default" among them
  Empty,        \* the expansion of an undefined variable
  NoBinding,    \* no target-specific binding written
  NoOverride    \* BUILDTYPE not given on make's command line

ASSUME TargetList \in Seq(Targets) /\ ToSet(TargetList) = Targets
ASSUME "Default" \in Configs

VARIABLES
  configs,      \* spec['configurations'] keys (input)
  default,      \* spec['default_configuration'] (input)
  sources,      \* "absent" (no WriteSources), "none" (no Compilable
                \* source) or "some" (input)
  links,        \* type is not 'settings' or 'none' (input)
  cmdline,      \* BUILDTYPE=... on make's command line, or NoOverride
  buildtype,    \* $(BUILDTYPE) once the header is read
  pos,          \* fragments read so far
  var,          \* the global variables CFLAGS_<c> and LDFLAGS_<c>
  objFlags,     \* the '$(OBJS): CFLAGS := ...' binding of each target
  outFlags      \* the '<output>: LDFLAGS := ...' binding of each target

vars == <<configs, default, sources, links, cmdline, buildtype, pos, var,
          objFlags, outFlags>>

VarNames == {"CFLAGS", "LDFLAGS"} \X Configs

\* The first target whose default is not 'Default', else 'Default'
\* (GenerateOutput 774-781).
DefaultConfiguration ==
  LET i == SelectInSeq(TargetList, LAMBDA t : default[t] # "Default")
  IN IF i = 0 THEN "Default" ELSE default[TargetList[i]]

Init ==
  /\ configs \in [Targets -> SUBSET Configs \ {{}}]
  /\ default \in {d \in [Targets -> Configs] : \A t \in Targets : d[t] \in configs[t]}
  /\ sources \in [Targets -> {"absent", "none", "some"}]
  /\ links \in [Targets -> BOOLEAN]
  /\ cmdline \in Configs \cup {NoOverride}
  \* 'BUILDTYPE ?= ...' (67) yields to the command line.
  /\ buildtype = IF cmdline = NoOverride THEN DefaultConfiguration ELSE cmdline
  /\ pos = 0
  /\ var = [n \in VarNames |-> Empty]
  /\ objFlags = [t \in Targets |-> NoBinding]
  /\ outFlags = [t \in Targets |-> NoBinding]

\* WriteSources, when it runs (331), writes CFLAGS_<c> := ... (and the
\* DEFS_, CFLAGS_C_, CFLAGS_CC_, INCS_ it stands for) for every
\* configuration of the target, whatever the sources (510-523).
CflagsWritten(t) ==
  {<<"CFLAGS", c>> : c \in IF sources[t] # "absent" THEN configs[t] ELSE {}}

\* WriteTarget writes LDFLAGS_<c> := ... for a type that links (629-632).
LdflagsWritten(t) ==
  {<<"LDFLAGS", c>> : c \in IF links[t] THEN configs[t] ELSE {}}

\* make reads the next included fragment (803): its variable blocks, then
\* '$(OBJS): CFLAGS := $(CFLAGS_$(BUILDTYPE))' when there are objects
\* (550-560) and '<output>: LDFLAGS := $(LDFLAGS_$(BUILDTYPE))' when the
\* type links (634).  ':=' expands the right side as the line is read.
ReadFragment ==
  /\ pos < Len(TargetList)
  /\ LET t == TargetList[pos + 1]
         var1 == [n \in VarNames |->
                    IF n \in CflagsWritten(t) \cup LdflagsWritten(t)
                    THEN <<t, n[2]>> ELSE var[n]]
     IN /\ var' = var1
        /\ objFlags' = IF sources[t] = "some"
                       THEN [objFlags EXCEPT ![t] = var1[<<"CFLAGS", buildtype>>]]
                       ELSE objFlags
        /\ outFlags' = IF links[t]
                       THEN [outFlags EXCEPT ![t] = var1[<<"LDFLAGS", buildtype>>]]
                       ELSE outFlags
  /\ pos' = pos + 1
  /\ UNCHANGED <<configs, default, sources, links, cmdline, buildtype>>

\* Every fragment read: make starts building.
Read ==
  /\ pos = Len(TargetList)
  /\ UNCHANGED vars

Next == ReadFragment \/ Read

Spec == Init /\ [][Next]_vars

-----------------------------------------------------------------------------
\* Every variable keeps its shape.
TypeOK ==
  /\ buildtype \in Configs
  /\ pos \in 0..Len(TargetList)
  /\ var \in [VarNames -> (Targets \X Configs) \cup {Empty}]
  /\ objFlags \in [Targets -> (Targets \X Configs) \cup {Empty, NoBinding}]
  /\ outFlags \in [Targets -> (Targets \X Configs) \cup {Empty, NoBinding}]

\* Spec 4.3 and Scenario D: the flags bound to a target's objects and to
\* its link step are that target's own flags for the active configuration,
\* selected by $(BUILDTYPE); no other target's flags leak in.  A target
\* that lacks the active configuration may get none.
FlagsStayInTarget ==
  \A t \in Targets :
    \A b \in {objFlags[t], outFlags[t]} \ {NoBinding} :
      b = IF buildtype \in configs[t] THEN <<t, buildtype>> ELSE Empty
=============================================================================
