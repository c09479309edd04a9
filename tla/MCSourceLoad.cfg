SPECIFICATION LoadFairSpec
CONSTANTS
  PageSize = 2
  Limit = 5
  FirstLimit = 3
  StopAfterOlder = 1
  Sources <- ThreeSources
  NoText <- Third
  Undated <- Second
  MaxPosts = 6
  MaxShift = 1
  MaxBacklog = 3
INVARIANTS LoadedWithoutHoles
PROPERTIES PeriodIsLoaded PublishedIsRead
