CONSTANTS
  Workers = {w1, w2}
  Accounts = {a1, a2}
  Requests = {r1, r2}
  HasIdentityUrl = TRUE
  Fingerprint = "none"
  Lifetime = 2
  Margin = 1
  MinHold = 1
  RetryCooldown = 1
  WallCooldown = 1
  MinInterval = 1
  X5secCooldown = 1
  WafCooldown = 1
  Horizon = 1
  MaxTokens = 2
  MaxFaults = 1
  FlakyCache = FALSE
SPECIFICATION MCSpec
SYMMETRY Symmetry
INVARIANTS
  SingleFlight
  SessionsAreWhole
  OneIdentityPerRequest
  AnswersOwnChat
