SPECIFICATION FairSpec
INVARIANTS
  TypeOK
  TakenOnce
PROPERTIES
  UbersInOrder
  
CONSTANTS
  u = u
  v = v
  Arrivals = {1, 2}
  Mailings <- MCMailings
  MaxMishaps = 1
  MaxOverrides = 1
