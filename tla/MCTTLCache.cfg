CONSTANTS
  f1 = f1
  f2 = f2
  Keys <- MCKeys
  Values <- MCValues
  Size <- MCSize
  MaxEntries = 2
  MaxBytes = 3
  TTLs <- MCTTLs
  Urls <- MCUrls
  Fetchers = {f1, f2}
  Kept <- MCKept
  Images <- MCImages
  MaxAsset = 4
  CacheTTL = 1
  Timeout = 1
SYMMETRY Symmetric
SPECIFICATION DownloadSpec
INVARIANTS
  BytesAreAccounted
  WithinLimits
  NeverStale
  FreshAndBounded
PROPERTIES
  EvictsLeastRecent
