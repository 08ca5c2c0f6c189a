SPECIFICATION FairSpec
CONSTANTS
  Dates = {1, 2}
  MaxEntries = 2
  MaxSteps = 2
  FreeCount = 1
  MaxCalls = 2
  MaxSaid = 2
INVARIANT AnswersAreGrounded
INVARIANT ReplayAgrees
PROPERTY EveryRunEnds
CHECK_DEADLOCK FALSE
