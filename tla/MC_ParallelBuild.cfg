CONSTANTS
  a = a
  b = b
  Jobs = 2
  Targets <- MCTargets
  TargetList <- MCTargetList
  Types <- MCTypes
SPECIFICATION Spec
INVARIANTS
  GeneratedFilesBeforeCompile
PROPERTIES
  GoalBuilt
