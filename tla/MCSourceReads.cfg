SPECIFICATION FairSpec
CONSTANTS
  h1 = h1
  h2 = h2
  References = 5
  Hosts <- TwoHosts
  Host <- AllButOne
  Workers = 2
  MaxConcurrency = 2
  DomainLimit <- OneAtOnce
  MaxAttempts = 2
  BaseDelay = 1
  Jitter = 100
  MaxDelay = 2
  RetryAfters <- Pauses
INVARIANTS RequestsWithinLimits BudgetIsNotSpentWaiting NoReadGoesOnUnseen
PROPERTY EverythingIsRead
CHECK_DEADLOCK FALSE
