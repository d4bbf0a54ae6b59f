CONSTANTS
  GpuLists <- MCGpuLists
  NumSamples = 4
  NumRuns = 2
  MaxFaults = 2
  MaxRestarts = 2
SPECIFICATION Spec
CHECK_DEADLOCK FALSE
INVARIANTS
  TypeOK
  RunsAreExact
PROPERTIES
  SavedRunsStay
  EvalEnds
