SPECIFICATION FairSpec
CONSTANTS
  Keys = {1, 2, 3}
  Nobody = 0
  NoRegion = "-"
  WordsIn <- MCWordsIn
  Stem <- MCStem
  Region <- MCRegion
  Alike <- MCAlike
  Mentions = {1, 2, 3}
  Early = {1, 2}
  Ruled = {1, 2}
  RuleKey <- MCRuleKey
  ModelKey <- MCModelKey
  Titled = {3}
  Listed = {2}
  Possible = {1}
  RoleAnswers = {"figurant"}
  VerdictAnswers = {"political"}
  Says = {"pair","reset","name","remove","restore","role","verdict","mark"}
  RoleWords = {"mentioned"}
  NameWords = {1}
  VerdictWords = {"criminal"}
  MaxWords = 2
  MaxBeside = 1
INVARIANTS
  EveryMentionOnce
  NobodyWithoutRole
PROPERTIES
  AfterwardsAsSaid
  EverybodyIsJudged
