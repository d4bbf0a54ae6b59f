CONSTANTS
  r1 = r1
  r2 = r2
  r3 = r3
  Reqs = {r1, r2, r3}
  NoReq = NoReq
  InputLen <- SmallInput
  MaxNewTokens <- SmallNew
  ClipEstimate = 3
  MaxTotal = 10
  ChunkSize = 2
  MaxRunning = 3
  RetractSteps = 1
  Ratios = {1, 7}
  Aborts = {r2}
SPECIFICATION Spec
INVARIANTS
  TypeOK
  MemoryFits
  NoRequestLost
  HoldsItsTokens
PROPERTY EveryRequestFinishes
