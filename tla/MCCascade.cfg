CONSTANTS
  ScriptTimeout <- MCScriptTimeout
  UpstreamTimeout <- MCUpstreamTimeout
  PollRequestTimeout <- MCPollRequestTimeout
  PollInterval <- MCPollInterval
  PollTimeout <- MCPollTimeout
  PollMaxAttempts <- MCPollMaxAttempts
  Emits <- MCEmits
  Bodies <- MCBodies
  Configs <- MCConfigs
  Cascades <- MCCascades
  MaxStages = 3
  MaxEmitTimeout = 3
  MaxGap = 1
  Horizon = 2
SPECIFICATION Spec
INVARIANTS
  TypeOK
  BudgetHolds
  ArtefactChain
  DegradedKeepsEarlierArtefact
  DoneIsComplete
PROPERTIES
  EveryCascadeEnds
