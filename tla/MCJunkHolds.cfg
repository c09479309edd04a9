SPECIFICATION JunkFairSpec
CONSTANTS
  p1 = p1
  p2 = p2
  Articles = {1, 2, 3}
  Old = {3}
  CaseLike = {1, 2}
  Purges = {p1}
  BatchSize = 2
  Screened = TRUE
  Beside = {"junk", "release", "again"}
  MaxVersion = 2
  MaxStops = 1
INVARIANTS
  ModelsEventIsReleased
PROPERTIES
  OnlyOvertakenIsPurged
  WordIsCarriedOut
