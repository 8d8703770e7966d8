CONSTANTS
  a = a
  b = b
  c = c
  Empty = Empty
  NoBinding = NoBinding
  NoOverride = NoOverride
  Targets <- MCTargets
  TargetList <- MCTargetList
  Configs <- MCConfigs
SPECIFICATION Spec
INVARIANT
  FlagsStayInTarget
