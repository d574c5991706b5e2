CONSTANTS
  Inputs <- MCInputs
  Headers <- MCHeaders
  Aliases <- MCAliases
  Digests <- MCDigests
  Size <- MCSize
  Edited <- MCEdited
  Original <- MCOriginal
  Compiles <- MCCompiles
  Declares <- MCDeclares
  Fallbacks <- MCFallbacks
  Bypass <- MCBypass
  DefaultOptions <- MCDefaultOptions
  Deliveries <- MCDeliveries
  DefaultProxy = "http"
  MaxBody = 2
  MaxRequests = 2
  Texts = {"t1", "t2", "t3"}
  Allowlist = {}
  Versions = {"v1", "v2", "edge"}
  Depth = 2
  PinDigests = TRUE
  MaxAliasDepth = 8
  MaxCached = 1
  MaxCompiled = 1
  MaxEdits = 2
  MaxStages = 2
  DefaultTimeout = 5
  AllowInline = TRUE
  AllowRemote = TRUE
  MaxInlineSize = 1
  MaxScriptSize = 2
SPECIFICATION Spec
INVARIANTS
  TruncatesLikeChat
