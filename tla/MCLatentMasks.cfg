CONSTANTS
  Batches <- MCBatches
SPECIFICATION Spec
CHECK_DEADLOCK FALSE
INVARIANTS
  TypeOK
  LabelSourcesExact
  OnlyThroughLatents
  PaddingIrrelevant
  StagesAgree
  KLTargetsAligned
