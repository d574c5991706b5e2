CONSTANTS
  Workers = {w1, w2}
  Turns = {r1, r2, r3}
  Callers = {c1, c2}
  CounterKeys <- MCCounterKeys
  CounterTTL = 1
  TurnTTL = 1
  RetryAfter = 1
  Limit = 1
  Window = 1
  MaxLocal = 1
  MaxResends = 1
  Horizon = 1
  MaxFaults = 1
SPECIFICATION Spec
SYMMETRY Symmetry
INVARIANTS
  AdmittedWithinCounters
  RejectedForOwnRequests
  ChainHolds
