CONSTANTS
  Batches <- MCTrainingBatches
SPECIFICATION Spec
CHECK_DEADLOCK FALSE
INVARIANT
  TrainedIsLabelled
