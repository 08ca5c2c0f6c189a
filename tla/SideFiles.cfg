SPECIFICATION FairSpec
CONSTANTS
  Processes = {p1, p2}
  Pages = {1, 2}
  Damaged = Damaged
  WalCap = 1
  MaxTries = 1
  MaxCommits = 2
  MaxStops = 1
  MaxDamages = 1
INVARIANT NothingIsLost
PROPERTY LeftAsFound
PROPERTY DamageIsPlaced
PROPERTY CloseEnds
