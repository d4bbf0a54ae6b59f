CONSTANTS
  Workers = {w1, w2}
  NumExamples = 11
  RoundSize = 7
  BatchSize = 2
  MaxInFlight = 3
  ChunkSize = 4
SPECIFICATION Spec
CHECK_DEADLOCK FALSE
INVARIANTS
  TypeOK
  PendingExact
PROPERTIES
  GenReturns
  ImplementsSoftLabelJob
