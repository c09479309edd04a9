SPECIFICATION FairSpec
CONSTANTS
  w1 = w1
  w2 = w2
  s1 = s1
  NoWorker = NoWorker
  Workers = {w1, w2}
  Sources = {s1}
  Requests <- DerivedRequests
  MaxRuns = 2
  MaxUnits = 0
PROPERTIES
  RunsEnd
