SPECIFICATION Spec
CONSTANTS
  Accounts <- MCAccounts
  Deployer = 2
  Provers = {p1}
  MaxQuorum = 2
  Assets <- MCAssets
  Messages <- MCMessages
  Submissions <- MCSubmissions
  QueryIds <- MCQueryIds
  Certificates <- MCCertificates
  MaxReports = 2
  MaxCertificates = 0
  MaxTime = 2
  DisputePeriod = 1
  ChallengerBond = 2
  MinOracleStake = 2
  StakeAmounts <- MCStakes
  BondAmounts <- MCBonds
  MaxBalance = 6
CONSTRAINT FixedRoles
INVARIANTS
  TypeOK
  EtherIsAccountedFor
  DisputesAreSound
PROPERTIES
  FinalityIsStable
  BondIsSettledOnce
  PausedIntake
  ImplementsOptimisticFinality
