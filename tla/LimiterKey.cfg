SPECIFICATION FairSpec
CONSTANTS
  c1 = c1
  c2 = c2
  c3 = c3
  c4 = c4
  c5 = c5
  Calls <- FiveCalls
  Reserving = {c1, c2, c3}
  Tokens <- MixedTokens
  Window = 3
  RpmLimit = 3
  TpmLimit = 4
  ConcurrencyLimit = 2
  SlotTTL = 2
  CallTimeout = 2
  ReleaseDelay = 1
INVARIANTS RpmBound TpmBound RetryAfterIsExact SlotsCoverCalls
PROPERTIES LeakNeverBlocks
