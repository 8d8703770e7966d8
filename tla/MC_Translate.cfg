CONSTANTS
  GypDir = "base"
  MaxList = 2
  NoRule = NoRule
  UserSources <- MCUserSources
  CopyFiles <- MCCopyFiles
  CopyDests <- MCCopyDests
  ActionPaths <- MCActionPaths
  RuleSourcePaths <- MCRuleSourcePaths
  RuleTemplates <- MCRuleTemplates
SPECIFICATION Spec
INVARIANTS
  TypeOK
  GeneratedSourcesCompiled
