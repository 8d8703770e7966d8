CONSTANTS
  main_c = main_c
  util_h = util_h
  gen_in = gen_in
  main_o = main_o
  gen_h = gen_h
  gen_x = gen_x
  app = app
  cc = cc
  action = action
  link = link
  c1 = c1
  c2 = c2
  NoRecord = NoRecord
  FORCE_DO_CMD = FORCE_DO_CMD
  Sources <- MCSources
  Outputs <- MCOutputs
  Rules <- MCRules
  Out <- MCOut
  Primary <- MCPrimary
  Ins <- MCIns
  Hidden <- MCHidden
  Kind <- MCKind
  DepInfo <- MCDepInfo
  Order <- MCOrder
  Commands = {c1, c2}
  InitCmd = c1
  MaxRuns = 3
  MaxEdits = 2
SPECIFICATION Spec
INVARIANTS
  HeaderListsKnownAfterBuild
  InputsFreshAfterBuild
  ForcedRulesUpToDateAfterBuild
