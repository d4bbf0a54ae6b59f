CONSTANTS
  r1 = r1
  r2 = r2
  r3 = r3
  Reqs = {r1, r2}
  NoReq = NoReq
  InputLen <- LargeInput
  MaxNewTokens <- LargeNew
  ClipEstimate = 3
  MaxTotal = 9
  ChunkSize = 9
  MaxRunning = 3
  RetractSteps = 1
  Ratios = {1}
  Aborts = {}
SPECIFICATION SpecWithFlush
INVARIANT NoRequestLost
