SPECIFICATION ToolsSpec
CONSTANTS
  c1 = c1
  c2 = c2
  read = read
  git = git
  note = note
  s1 = s1
  s2 = s2
  m1 = m1
  m2 = m2
  safe = safe
  risky = risky
  Conv = {c1}
  Arg = {safe, risky}
  Tool = {read, git, note}
  Builtin = {read, git}
  Shell = {git}
  Server = {m1, m2}
  BaseTools = {read}
  Skill = {s1, s2}
  NoPolicy = NoPolicy
  NoSkill = NoSkill
  NoCall = NoCall
  MaxRestarts = 2
  Provides <- MCProvides
  SkillTools <- MCSkillTools
  ToolPolicy <- MCToolPolicy
  AgentPolicies <- MCAgentPolicies
INVARIANTS
  ToolsTypeOK
  NoUngatedCall
  SkillBoundary
  ApprovedToolIsThere
  RegistryIsComplete
  NoChildLeftRunning
PROPERTY ToolCallsEnd
CHECK_DEADLOCK FALSE
