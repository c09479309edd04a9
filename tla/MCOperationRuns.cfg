SPECIFICATION Spec
CONSTANTS
  s1 = s1
  s2 = s2
  Sources = {s1}
  Requests <- LoadChain
  MaxRuns = 2
INVARIANTS
  StoppedChainEnds
  ChainStepsApart
PROPERTIES
  EndedRowsFrozen
