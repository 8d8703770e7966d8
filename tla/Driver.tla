------------------------------- MODULE Driver -------------------------------
(***************************************************************************)
(* gyp's main (gyp/__init__.py 101-284): the order in which it settles the *)
(* formats, the build files, the depth, the -D variables, the includes and *)
(* the generator flags, from the command line and the environment, and the *)
(* loop that loads and generates each format.  main is one sequential     *)
(* Python function; pc names the block it is about to run.                *)
(*                                                                         *)
(* Every string is a sequence of tokens: an environment variable's text,  *)
(* a -D item, a format name.  shlex.split, re.split('[\s,]'), split('=',1) *)
(* and int() are modelled by what they do to those sequences.  Quoting,   *)
(* signs and whitespace inside int() are outside the token alphabet.      *)
(***************************************************************************)
EXTENDS Naturals, Sequences, SequencesExt, Functions, TLC

CONSTANTS
  KnownFormats,  \* the formats with a module gyp.generator.<format>
  PlatformFormat,\* the dict of 170-175: sys.platform -> format
  Platforms,     \* the values sys.platform may have
  Cwd,           \* the current directory, as path components
  CmdFormats,    \* the -f lists the command line may hold
  EnvGenerators, \* the values GYP_GENERATORS may have
  CmdBuildFiles, \* the build-file lists the command line may hold
  EnvDefines,    \* the values GYP_DEFINES may have
  CmdDefines,    \* the -D lists the command line may hold
  EnvFlags,      \* the values GYP_GENERATOR_FLAGS may have
  CmdFlags,      \* the -G lists the command line may hold
  MsvsVersions,  \* the --msvs-version values the command line may hold
  CmdIncludes,   \* the -I lists the command line may hold
  DefaultInclude,\* ~/.gyp/include.gypi
  GivenDepth,    \* the --depth value, when given
  Unset,         \* an environment variable that is not set
  NoValue        \* an option not given

VARIABLES
  pc,            \* the next block of main
  exit,          \* main's return value ("0", "1"), or "exception"
  formats,       \* options.formats
  buildFiles,    \* build_files, each as the components of its directory
  depth,         \* options.depth
  envDefines,    \* GYP_DEFINES, as read at 221
  cmdDefines,    \* options.defines
  variables,     \* cmdline_default_variables
  includes,      \* includes
  envFlags,      \* GYP_GENERATOR_FLAGS, as read at 244
  cmdFlags,      \* options.generator_flags
  msvsVersion,   \* options.msvs_version
  generatorFlags,\* generator_flags
  todo,          \* the formats the loop at 262 has still to visit
  generated      \* the formats GenerateOutput has run for, in order

vars == <<pc, exit, formats, buildFiles, depth, envDefines, cmdDefines,
          variables, includes, envFlags, cmdFlags, msvsVersion,
          generatorFlags, todo, generated>>

-----------------------------------------------------------------------------
(***************************************************************************)
(* The string operations main uses.                                        *)
(***************************************************************************)
\* An environment variable is falsy when unset or the empty string.
Truthy(env) == env # Unset /\ env # <<>>

\* The fields of text between separators, empty fields kept:
\* re.split('[\s,]', text) (165).
RECURSIVE Fields(_, _)
Fields(text, seps) ==
  LET i == SelectInSeq(text, LAMBDA c : c \in seps) IN
  IF i = 0 THEN <<text>>
  ELSE <<SubSeq(text, 1, i - 1)>> \o Fields(SubSeq(text, i + 1, Len(text)), seps)

\* shlex.split(text) (223, 246): words between blanks, empty ones dropped.
ShlexSplit(text) == SelectSeq(Fields(text, {" "}), LAMBDA w : w # <<>>)

\* int(text) succeeds for a non-empty string of digits (91).
DigitValue(d) == CHOOSE v \in 0..9 : ToString(v) = d
IsInt(text) ==
  text # <<>> /\ \A i \in DOMAIN text : text[i] \in {ToString(v) : v \in 0..9}
IntOf(text) == FoldLeft(LAMBDA n, d : 10 * n + DigitValue(d), 0, text)

\* NameValueListToDict (79-99): item.split('=', 1), then int() or the
\* string, or True for a bare name; a later item overwrites an earlier one.
ItemName(item) ==
  LET i == SelectInSeq(item, LAMBDA c : c = "=") IN
  IF i = 0 THEN item ELSE SubSeq(item, 1, i - 1)
ItemValue(item) ==
  LET i == SelectInSeq(item, LAMBDA c : c = "=")
      text == SubSeq(item, i + 1, Len(item))
  IN CASE i = 0        -> [bool |-> TRUE]
       [] IsInt(text)  -> [int |-> IntOf(text)]
       [] OTHER        -> [str |-> text]
NameValueListToDict(list) ==
  FoldLeft(LAMBDA d, item : (ItemName(item) :> ItemValue(item)) @@ d,
           <<>>, list)

\* Mutant: the environment's items appended after the command line's.
ConcatDefinesSwapped(env, cmd) ==
  cmd \o (IF env = Unset THEN <<>> ELSE ShlexSplit(env))

\* 'defines += options.defines' (225, 248): a list from shlex.split, or the
\* unset default [], extends; the string "" raises TypeError.
ConcatDefines(env, cmd) ==
  (IF env = Unset THEN <<>> ELSE ShlexSplit(env)) \o cmd
CanConcat(env, cmd) == ~(env = <<>> /\ cmd # <<>>)

-----------------------------------------------------------------------------
(***************************************************************************)
(* The Chromium depth search (195-215).                                   *)
(***************************************************************************)
\* Mutant: the inner loop starting one component short of the end.
StartIndexOffByOne(comps) == Len(comps) - 1

\* 'for index in xrange(components_len - 1, -1, -1)' (199-200).
StartIndex(comps) == Len(comps)

\* The inner loop: from index down, the components up to the first "src"
\* met, or <<>> when the loop runs out ('del' shortens the list, 204).
RECURSIVE SrcPrefix(_, _)
SrcPrefix(comps, index) ==
  IF index < 1 THEN <<>>
  ELSE IF comps[index] = "src" THEN SubSeq(comps, 1, index)
  ELSE SrcPrefix(comps, index - 1)

\* abspath splits into "" (the root) and the directory's components (198).
Components(dir) == <<"">> \o dir

\* The outer loop: the first build file whose directory yields a depth.
RECURSIVE FindDepth(_)
FindDepth(bfs) ==
  IF bfs = <<>> THEN <<>>
  ELSE LET c == Components(Head(bfs))
           d == SrcPrefix(c, StartIndex(c))
       IN IF d # <<>> THEN d ELSE FindDepth(Tail(bfs))

\* 'for format in set(options.formats)' (262): each distinct format once,
\* in an order Python's hashing picks.
LoopOrders(fs) ==
  {s \in [1..Cardinality(ToSet(fs)) -> ToSet(fs)] : IsInjective(s)}

-----------------------------------------------------------------------------
Init ==
  /\ pc = "formats"
  /\ exit = NoValue
  /\ formats = <<>>
  /\ buildFiles = <<>>
  /\ depth = NoValue
  /\ envDefines = Unset /\ cmdDefines = <<>> /\ variables = <<>>
  /\ includes = <<>>
  /\ envFlags = Unset /\ cmdFlags = <<>> /\ msvsVersion = NoValue
  /\ generatorFlags = <<>>
  /\ todo = <<>>
  /\ generated = <<>>

\* An uncaught exception ends main.
Raise == /\ pc' = "done" /\ exit' = "exception"

\* 161-175: -f, else GYP_GENERATORS split, else the platform's default,
\* whose dict lookup raises KeyError for any other sys.platform.
ResolveFormats ==
  /\ pc = "formats"
  /\ \E cmd \in CmdFormats, env \in EnvGenerators, platform \in Platforms :
       CASE cmd # <<>> ->
              formats' = cmd /\ pc' = "buildfiles" /\ UNCHANGED exit
         [] Truthy(env) ->
              formats' = Fields(env, {" ", ","}) /\ pc' = "buildfiles" /\ UNCHANGED exit
         [] platform \in DOMAIN PlatformFormat ->
              formats' = <<PlatformFormat[platform]>> /\ pc' = "buildfiles" /\ UNCHANGED exit
         [] OTHER -> Raise /\ UNCHANGED formats
  /\ UNCHANGED <<buildFiles, depth, envDefines, cmdDefines, variables, includes,
                 envFlags, cmdFlags, msvsVersion, generatorFlags, todo, generated>>

\* 177-182: the command line's build files, else the .gyp files of the
\* current directory (FindBuildFiles 22-29); none is a usage error.
ResolveBuildFiles ==
  /\ pc = "buildfiles"
  /\ \E cmd \in CmdBuildFiles, found \in {<<>>, <<Cwd>>} :
       LET bfs == IF cmd # <<>> THEN cmd ELSE found IN
       /\ buildFiles' = bfs
       /\ IF bfs = <<>> THEN pc' = "done" /\ exit' = "1"
          ELSE pc' = "depth" /\ UNCHANGED exit
  /\ UNCHANGED <<formats, depth, envDefines, cmdDefines, variables, includes,
                 envFlags, cmdFlags, msvsVersion, generatorFlags, todo, generated>>

\* 195-215: --depth, else the search; no "src" anywhere raises.
ResolveDepth ==
  /\ pc = "depth"
  /\ \E given \in BOOLEAN :
       LET d == IF given THEN GivenDepth ELSE FindDepth(buildFiles) IN
       IF d = <<>> THEN Raise /\ UNCHANGED depth
       ELSE depth' = d /\ pc' = "defines" /\ UNCHANGED exit
  /\ UNCHANGED <<formats, buildFiles, envDefines, cmdDefines, variables, includes,
                 envFlags, cmdFlags, msvsVersion, generatorFlags, todo, generated>>

\* 220-226: GYP_DEFINES, then -D, into cmdline_default_variables.
ResolveDefines ==
  /\ pc = "defines"
  /\ \E env \in EnvDefines, cmd \in CmdDefines :
       /\ envDefines' = env /\ cmdDefines' = cmd
       /\ IF CanConcat(env, cmd)
          THEN /\ variables' = NameValueListToDict(ConcatDefines(env, cmd))
               /\ pc' = "includes" /\ UNCHANGED exit
          ELSE Raise /\ UNCHANGED variables
  /\ UNCHANGED <<formats, buildFiles, depth, includes, envFlags, cmdFlags,
                 msvsVersion, generatorFlags, todo, generated>>

\* 229-240: ~/.gyp/include.gypi when it exists, then the -I files.
ResolveIncludes ==
  /\ pc = "includes"
  /\ \E home \in BOOLEAN, cmd \in CmdIncludes :
       includes' = (IF home THEN <<DefaultInclude>> ELSE <<>>) \o cmd
  /\ pc' = "genflags"
  /\ UNCHANGED <<exit, formats, buildFiles, depth, envDefines, cmdDefines,
                 variables, envFlags, cmdFlags, msvsVersion, generatorFlags,
                 todo, generated>>

\* 244-258: GYP_GENERATOR_FLAGS, then -G, then --msvs-version, which
\* overwrites generator_flags['msvs_version'] with the raw string.
ResolveGeneratorFlags ==
  /\ pc = "genflags"
  /\ \E env \in EnvFlags, cmd \in CmdFlags, msvs \in MsvsVersions :
       /\ envFlags' = env /\ cmdFlags' = cmd /\ msvsVersion' = msvs
       /\ IF CanConcat(env, cmd)
          THEN LET gf == NameValueListToDict(ConcatDefines(env, cmd)) IN
               /\ generatorFlags' =
                    IF msvs = NoValue THEN gf
                    ELSE (<<"msvs_version">> :> [str |-> msvs]) @@ gf
               /\ pc' = "loop" /\ UNCHANGED exit
          ELSE Raise /\ UNCHANGED generatorFlags
  /\ UNCHANGED <<formats, buildFiles, depth, envDefines, cmdDefines, variables,
                 includes, todo, generated>>

\* 262: the loop visits set(options.formats).
StartLoop ==
  /\ pc = "loop"
  /\ \E order \in LoopOrders(formats) : todo' = order
  /\ pc' = "generate"
  /\ UNCHANGED <<exit, formats, buildFiles, depth, envDefines, cmdDefines,
                 variables, includes, envFlags, cmdFlags, msvsVersion,
                 generatorFlags, generated>>

\* 269-281: Load imports gyp.generator.<format> (an unknown or empty name
\* raises) and reads the .gyp files; GenerateOutput writes the files.
\* Either may raise on bad input.
Generate ==
  /\ pc = "generate"
  /\ todo # <<>>
  /\ LET f == Head(todo) IN
     \/ /\ f \in KnownFormats
        /\ generated' = Append(generated, f)
        /\ todo' = Tail(todo)
        /\ UNCHANGED <<pc, exit>>
     \/ Raise /\ UNCHANGED <<generated, todo>>
  /\ UNCHANGED <<formats, buildFiles, depth, envDefines, cmdDefines, variables,
                 includes, envFlags, cmdFlags, msvsVersion, generatorFlags>>

\* Mutant: main returning 0 while formats are left to generate.
ReturnEarly ==
  /\ pc = "generate"
  /\ pc' = "done" /\ exit' = "0"
  /\ UNCHANGED <<formats, buildFiles, depth, envDefines, cmdDefines, variables,
                 includes, envFlags, cmdFlags, msvsVersion, generatorFlags,
                 todo, generated>>

\* 284: every format done.
Return ==
  /\ pc = "generate"
  /\ todo = <<>>
  /\ pc' = "done" /\ exit' = "0"
  /\ UNCHANGED <<formats, buildFiles, depth, envDefines, cmdDefines, variables,
                 includes, envFlags, cmdFlags, msvsVersion, generatorFlags,
                 todo, generated>>

\* main has returned or raised.
Done == pc = "done" /\ UNCHANGED vars

Next ==
  \/ ResolveFormats \/ ResolveBuildFiles \/ ResolveDepth \/ ResolveDefines
  \/ ResolveIncludes \/ ResolveGeneratorFlags \/ StartLoop \/ Generate
  \/ Return \/ Done

Spec == Init /\ [][Next]_vars

-----------------------------------------------------------------------------
\* Every variable keeps its shape; main has an outcome exactly when it is
\* done, and returns 0 only with nothing left to generate.
TypeOK ==
  /\ (exit # NoValue) = (pc = "done")
  /\ exit = "0" => todo = <<>>
  /\ pc \in {"formats", "buildfiles", "depth", "defines", "includes",
             "genflags", "loop", "generate", "done"}
  /\ exit \in {NoValue, "0", "1", "exception"}
  /\ \A seq \in {formats, todo, generated} :
       \A i \in DOMAIN seq : \A j \in DOMAIN seq[i] : seq[i][j] \in STRING

\* The variables a list of NAME=VALUE items from the environment and one
\* from the command line should give: a name the command line sets takes
\* the value of its last item there, whatever the environment says; any
\* other name the value of its last item in the environment.
Overrides(env, cmd, dict) ==
  LET envItems == IF env = Unset THEN <<>> ELSE ShlexSplit(env)
      Named(list) == {ItemName(list[i]) : i \in DOMAIN list}
      LastItem(list, n) == list[SelectLastInSeq(list, LAMBDA it : ItemName(it) = n)]
  IN /\ DOMAIN dict = Named(envItems) \cup Named(cmd)
     /\ \A n \in Named(cmd) : dict[n] = ItemValue(LastItem(cmd, n))
     /\ \A n \in Named(envItems) \ Named(cmd) :
          dict[n] = ItemValue(LastItem(envItems, n))

\* The comment at 217-219: -D on the command line sets the defaults of
\* gyp variables, over GYP_DEFINES; likewise -G over GYP_GENERATOR_FLAGS,
\* and --msvs-version over both (253-258).  Holds in every state in which
\* main got past the concatenation.
CommandLineOverridesEnvironment ==
  /\ CanConcat(envDefines, cmdDefines) =>
       Overrides(envDefines, cmdDefines, variables)
  /\ CanConcat(envFlags, cmdFlags) =>
       IF msvsVersion = NoValue
       THEN Overrides(envFlags, cmdFlags, generatorFlags)
       ELSE /\ generatorFlags[<<"msvs_version">>] = [str |-> msvsVersion]
            /\ LET rest == [n \in DOMAIN generatorFlags \ {<<"msvs_version">>} |->
                              generatorFlags[n]]
               IN \E d \in {NameValueListToDict(ConcatDefines(envFlags, cmdFlags))} :
                    /\ Overrides(envFlags, cmdFlags, d)
                    /\ rest = [n \in DOMAIN d \ {<<"msvs_version">>} |-> d[n]]

\* The Chromium hack (189-194): with no --depth, the depth is the
\* directory of the first build file that lies under a "src" directory,
\* cut after the innermost "src" component of that path.
DepthIsInnermostSrc ==
  depth \notin {NoValue, GivenDepth} =>
    LET i == SelectInSeq(buildFiles, LAMBDA d : \E k \in DOMAIN d : d[k] = "src")
        c == Components(buildFiles[i])
    IN /\ i # 0
       /\ depth = SubSeq(c, 1, SelectLastInSeq(c, LAMBDA x : x = "src"))
=============================================================================
