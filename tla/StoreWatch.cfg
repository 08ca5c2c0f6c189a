SPECIFICATION FairSpec
CONSTANTS
  Threads = {t1, t2}
  Writers = {t1}
  NoOne = NoOne
  CheckpointCommits = 2
  MaxClock = 2
  MaxOutside = 2
  MaxCommits = 2
INVARIANT ServesTheFile
INVARIANT WatchIsSparing
PROPERTY RestoredIsServed
