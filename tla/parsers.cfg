SPECIFICATION Spec
CHECK_DEADLOCK FALSE
CONSTANTS
  Grammars = {"requirements", "rank", "vm_template", "host_template", "vm_var"}
  MaxTokens <- MCMaxTokens
  YYMAXDEPTH <- MCDepth
  HostTemplate <- MCHostTemplate
  Texts = {"CPU", "1*"}
  Numbers = {1}
  Matches <- MCMatches
  Names = {"a", "A", "B"}
  Upper <- MCUpper
  Values = {"red", "blue"}
  VarNames = {"a", "B"}
  VarValues = {"2"}
  VmIds = {1, 2}
  VmTemplate <- MCVmTemplate
  VmContexts <- MCVmContexts
INVARIANT RequirementsRead
INVARIANT RankRead
INVARIANT TemplatesRead
INVARIANT VariablesRead
