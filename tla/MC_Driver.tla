----------------------------- MODULE MC_Driver -----------------------------
(***************************************************************************)
(* Command lines and environments for gyp's main.  Tokens: the format     *)
(* names, " " and "," as separators, variable names, "=", digits and a    *)
(* letter.                                                                *)
(***************************************************************************)
EXTENDS Driver

CONSTANTS Unset_, NoValue_

MCKnownFormats == {<<"make">>, <<"scons">>}
\* Python < 2.7.3 reports 'linux3' on Linux 3.x kernels.
MCPlatforms == {"linux2", "linux3"}
MCPlatformFormat == [p \in {"linux2", "darwin"} |->
                       IF p = "linux2" THEN <<"scons">> ELSE <<"xcode">>]

\* No -f, or 'make' requested twice.
MCCmdFormats == {<<>>, <<<<"make">>, <<"make">>>>}
\* Unset, '', 'make', 'make, scons' (comma and blank: an empty field).
MCEnvGenerators == {Unset_, <<>>, <<"make">>, <<"make", ",", " ", "scons">>}

\* Build-file directories: one under no "src", one under "src", one under
\* two nested "src" directories.
D1 == <<"home", "a">>
D2 == <<"src", "a">>
D3 == <<"src", "b", "src">>
MCCmdBuildFiles == {<<>>, <<D1>>, <<D1, D2>>, <<D3>>}

\* Unset, '', ' ', 'x=1', 'x=a y'.
MCEnvDefines == {Unset_, <<>>, <<" ">>, <<"x", "=", "1">>,
                 <<"x", "=", "a", " ", "y">>}
\* No -D, -Dx=01, -Dx=.
MCCmdDefines == {<<>>, <<<<"x", "=", "0", "1">>>>, <<<<"x", "=">>>>}

\* Unset, '', 'msvs_version=1'.
MCEnvFlags == {Unset_, <<>>, <<"msvs_version", "=", "1">>}
\* No -G, -G msvs_version=a.
MCCmdFlags == {<<>>, <<<<"msvs_version", "=", "a">>>>}
MCMsvsVersions == {NoValue_, <<"0", "1">>}
MCGivenDepth == <<"", "opt">>
MCCmdIncludes == {<<>>, <<"common.gypi">>}
=============================================================================
