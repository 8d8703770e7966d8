CONSTANTS
  t1 = t1
  t2 = t2
  t3 = t3
  t4 = t4
  NoOutput = NoOutput
  Unpublished = Unpublished
  Targets <- MCTargets
  TargetList <- MCTargetList
  TargetName <- MCTargetName
  GypDir <- MCGypDir
  ActionNames <- MCActionNames
  RuleNames <- MCRuleNames
  HasObjs <- MCHasObjs
  Types <- MCLinkTypes
  Topological = FALSE
SPECIFICATION Spec
INVARIANT AbortLeavesNoPartialOutput
