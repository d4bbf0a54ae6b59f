CONSTANTS
  r1 = r1
  r2 = r2
  r3 = r3
  Reqs = {r1, r2, r3}
  Greedy = {r3}
  InputLen <- MCInputLen
  NoReq = NoReq
  Tokens = {tok, end, eos}
  LatentEnd = end
  Eos = eos
  MaxNewTokens = 3
SYMMETRY Symmetry
SPECIFICATION Spec
INVARIANTS
  TypeOK
  RowsAligned
  InputMatchesToken
  TraceSoftUntilEnd
  OnePlace
