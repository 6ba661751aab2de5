SPECIFICATION PoolSpec
CONSTANTS
  Accounts = {provider, resolver}
  NoAccount = nobody
  Resolver = resolver
  Cooldown = 1
  LossAbsorptionPct = 80
  Amounts <- MCAmounts
  Deficits <- MCDeficits
  MaxBalance = 3
  MaxClaims = 4
  MaxTime = 3
PROPERTIES
  JuniorBearsItsLosses
CHECK_DEADLOCK FALSE
