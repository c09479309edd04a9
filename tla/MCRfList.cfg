SPECIFICATION FairSpec
CONSTANTS
  k1 = k1
  k2 = k2
  A = A
  B = B
  cut = cut
  p = p
  Checks <- TwoChecks
  Contents <- TwoPages
  Cut = cut
  Count <- Entries
  Listed <- Followed
  MaxTime = 2
  MaxBad = 1
  MaxTroubles = 1
INVARIANT MatchedIsWhole
PROPERTIES ListNeverGoesBack EstablishedDayStays ChangedListIsMatched
