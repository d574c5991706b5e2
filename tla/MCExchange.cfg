CONSTANTS
  s1 = s1
  s2 = s2
  Slots = {s1, s2}
  Channel <- MCChannels
  Bodies <- MCBodies
  MaxImages = 2
  PerImage = 2
  PocketMax = 2
  Width = 2
  MaxRequests <- MCMaxRequests
  MaxItems = 2
SYMMETRY Symmetric
SPECIFICATION Spec
INVARIANTS
  ReplyAsAsked
  PocketCleared
  ServedLikeALoop
  FailsLikeALoop
