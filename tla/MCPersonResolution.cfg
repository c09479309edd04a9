SPECIFICATION FairSpec
CONSTANTS
  none = none
  w1 = w1
  w2 = w2
  h1 = h1
  h2 = h2
  ai1 = ai1
  Mentions = {1, 2, 3, 4}
  NoOne = none
  NameOf <- OddOneOut
  RunOf <- TwoOfTwo
  KeysOf <- OneBlock
  Alike <- NoneAlike
  Complete <- AllComplete
  Workers = {w1, w2}
  People = {h1, h2}
  Ai = {ai1}
  MaxAborts = 1
INVARIANTS
  MergesLeadToActive
PROPERTIES
  NoDuplicate
  ImplementsRegister
  MergeTakesEveryMention
  EveryMentionIsDecided
CHECK_DEADLOCK FALSE
