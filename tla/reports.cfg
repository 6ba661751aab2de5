SPECIFICATION LendingSpec
CONSTANTS
  Accounts <- MarketAccounts
  Deployer = 2
  Provers = {p1}
  MaxQuorum = 2
  Assets <- MCAssets
  Messages <- MarketMessages
  Submissions <- MCSubmissions
  QueryIds <- MCQueryIds
  Certificates <- MCCertificates
  MaxReports = 2
  MaxCertificates = 1
  MaxTime = 2
  Lender = 3
  CollateralAmounts <- MCAmountsNamed
  MaxLoans = 2
CONSTRAINT Explored
INVARIANTS
  RegistryAgrees
  ProofsBackOneReport
  LoansFollowLatestReport
  LoansMatchTheQuote
PROPERTIES
  AppendOnly
  QuorumOfDistinctOracles
  EveryReportAttested
  PullOracleIsAtomic
