SPECIFICATION FairSpec
CONSTANTS
  s1 = s1
  s2 = s2
  Sources = {}
  Requests <- EndingRequests
  MaxRuns = 2
PROPERTIES
  EverythingEnds
