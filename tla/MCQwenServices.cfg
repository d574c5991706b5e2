CONSTANTS
  Target = 2
  MaxUses = 2
  Ttl = 1
  WarmUp = 1
  WarmUpTime = 1
  Horizon = 1
  MaxFaults = 1
  Callers = {c1, c2}
  Accounts = {a1}
  Unknown = a0
  TokenTtl = 1
SPECIFICATION ServicesSpec
CHECK_DEADLOCK FALSE
INVARIANTS
  MintedOnce
PROPERTIES
  SpentInTurn
  ServicesCarryOn
