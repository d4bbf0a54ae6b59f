CONSTANTS
  MaxStep = 3
  Accuracies = {1, 2, 3}
  NoMetric = None
  BestLimit = 1
  RecentLimit = 1
  Restarts = {"newest"}
SPECIFICATION Spec
PROPERTY KeepsBestMeasured
