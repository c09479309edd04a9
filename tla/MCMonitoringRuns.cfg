SPECIFICATION Spec
CONSTANTS
  w1 = w1
  w2 = w2
  s1 = s1
  NoWorker = NoWorker
  Workers = {w1, w2}
  Sources = {s1}
  Requests <- MCRequests
  MaxRuns = 2
  MaxUnits = 2
SYMMETRY WorkerSymmetry
INVARIANTS
  TypeOK
  LiveWorkersApart
  CompletedMeansWhole
  CheckpointNamesGoodRun
  FencedWithinOneUnit
PROPERTIES
  ImplementsLedger
