SPECIFICATION Spec
INVARIANTS
  MutualExclusion
CONSTANTS
  Senders = {s1, s2}
  MaxStamps = 3
  MaxCrashes = 0
  MaxLost = 0
