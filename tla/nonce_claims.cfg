SPECIFICATION FairSpec
INVARIANTS
  TypeOK
  ExclusiveWhileTimely
  ReusedWhenLost
  NoGap
PROPERTIES
  ClaimsGoOn
CONSTANTS
  Senders = {s1, s2}
  MaxStamps = 4
  MaxCrashes = 1
  MaxLost = 2
