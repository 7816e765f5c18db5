SPECIFICATION FairSpec
INVARIANTS
  TypeOK
  MutualExclusion
  RateMatches
PROPERTIES
  RatesStable
  CatchesUp
CONSTANTS
  Updaters = {u1, u2}
  Block = 3
  Expiry = 6
  Starts <- MCStarts
  MaxTime = 13
  MaxFaults = 2
