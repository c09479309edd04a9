SPECIFICATION FairSpec
CONSTANTS
  p1 = p1
  p2 = p2
  t1 = t1
  t2 = t2
  f1 = f1
  NoProc = NoProc
  Procs <- TwoProcs
  Tasks <- TwoTasks
  Follow <- OneFollow
  Local <- OneTask
  Slots = 2
  Ceiling = 3
  Asked = {2}
  MaxRounds = 1
  Mishaps <- CrashesOrOther
INVARIANT SearchesWithinSlots
PROPERTIES ClaimsEnd SearchesMadeOnce
CHECK_DEADLOCK FALSE
