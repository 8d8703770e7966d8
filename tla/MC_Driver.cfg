CONSTANTS
  Unset_ = Unset_
  NoValue_ = NoValue_
  Unset <- Unset_
  NoValue <- NoValue_
  KnownFormats <- MCKnownFormats
  PlatformFormat <- MCPlatformFormat
  Platforms <- MCPlatforms
  Cwd <- D3
  CmdFormats <- MCCmdFormats
  EnvGenerators <- MCEnvGenerators
  CmdBuildFiles <- MCCmdBuildFiles
  EnvDefines <- MCEnvDefines
  CmdDefines <- MCCmdDefines
  EnvFlags <- MCEnvFlags
  CmdFlags <- MCCmdFlags
  MsvsVersions <- MCMsvsVersions
  CmdIncludes <- MCCmdIncludes
  DefaultInclude = "include.gypi"
  GivenDepth <- MCGivenDepth
SPECIFICATION Spec
INVARIANTS
  TypeOK
  CommandLineOverridesEnvironment
  DepthIsInnermostSrc
