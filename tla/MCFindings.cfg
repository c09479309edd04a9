SPECIFICATION Spec
CONSTANTS
  r1 = r1
  r2 = r2
  p1 = p1
  p2 = p2
  anna = anna
  vera = vera
  Runs <- TwoRuns
  People <- TwoPeople
  Names <- TwoNames
  Lists <- TwoLists
  Settle = 3
  Longest = 1
  Working = 1
  MaxTime = 4
  MaxChanges = 1
  MaxTroubles = 1
SYMMETRY Alike
CHECK_DEADLOCK FALSE
INVARIANTS StaleIsPending FindingsOfOneEvaluation
PROPERTY OneRunIsEnough
