CONSTANTS
  ScriptTimeout <- MCScriptTimeout
  UpstreamTimeout <- MCUpstreamTimeout
  PollRequestTimeout <- MCPollRequestTimeout
  PollInterval <- MCPollInterval
  PollTimeout <- MCPollTimeout
  PollMaxAttempts <- MCPollMaxAttempts
  Emits <- MCEmits
  Bodies <- MCBodies
  Configs <- MCConfigs
  MaxEmitTimeout = 3
  MaxGap = 1
  Horizon = 2
SPECIFICATION Spec
INVARIANTS
  TypeOK
  BilledAtMostOnce
  BoundedInTime
PROPERTIES
  ImplementsGeneration
  EveryRequestEnds
