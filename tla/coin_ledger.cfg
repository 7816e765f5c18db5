SPECIFICATION FairSpec
INVARIANTS
  TypeOK
  TotalMatches
  PendingAttached
  RequestsOnce
PROPERTIES
  PromisesKept
  DuePaid
CONSTANTS
  Treasury = broker
  Broker = broker
  Clients = {client}
  Accounts = {client, broker}
  Suspects = {client}
  Freezes = {0, 4}
  MaxTime = 5
  Price <- MCPrice
  Scale = 2
  Rounding = 1
  MaxFiat = 2
  MaxSupply = 2
  MaxFee = 1
  MaxPlugins = 2
