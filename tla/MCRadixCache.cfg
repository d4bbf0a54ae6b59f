CONSTANTS
  r1 = r1
  r2 = r2
  a = a
  b = b
  Reqs = {r1, r2}
  Tokens = {a, b}
  NumSlots = 4
  Prompts <- MCPrompts
  MaxNewTokens = 3
  ChunkSize = 2
  Overlap = TRUE
SYMMETRY Symmetry
SPECIFICATION Spec
CHECK_DEADLOCK FALSE
INVARIANTS
  TypeOK
  SlotsAccounted
  PrefixIsCached
  LockRefExact
  SizesExact
  KVMatches
  IdleMemory
  PinnedIsCached
PROPERTIES
  ImplementsKVOwnership
  NoTheft
