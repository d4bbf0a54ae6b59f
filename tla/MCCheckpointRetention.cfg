CONSTANTS
  MaxStep = 5
  Accuracies = {1, 2, 3}
  NoMetric = None
  BestLimit = 2
  RecentLimit = 1
  Restarts = {"newest"}
SPECIFICATION Spec
INVARIANTS
  TypeOK
  LastSaveResumable
  KeptAreWhole
PROPERTY KeepsBestShown
