SPECIFICATION SetupSpec
CONSTANTS
  anthropic = anthropic
  custom = custom
  ollama = ollama
  Provider = {anthropic, custom, ollama}
  Keyed = {anthropic}
  Creatable = {anthropic, custom}
  Configs <- MCConfigs
  Defaults <- MCDefaults
  MaxTasks = 2
  MaxEdits = 2
INVARIANT FlatFileIsRead
CHECK_DEADLOCK FALSE
