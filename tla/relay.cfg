SPECIFICATION RelaySpec
CONSTANTS
  Accounts <- MCAccounts
  Deployer = 1
  Provers = {p1}
  MaxQuorum = 2
  Assets <- MCAssets
  Messages <- MCMessages
  Submissions = {}
  QueryIds = {}
  Certificates = {}
  MaxReports = 4
  MaxCertificates = 0
  MaxTime = 2
  Requests = {1, 2, 3}
  RequestOf <- MCRequestOf
  MaxRequests = 2
  Endpoints <- MCEndpoints
  Measurements <- MCMeasurements
  Removable = {10}
  MinQuorum = 2
  Relayer = 1
  Cooldown = 1
  Expiry = 1
INVARIANTS
  RequestRecordsOnce
  AnswersMatchTheChain
  OneTransactionInFlight
PROPERTIES
  SignedQuorumIsRecorded
  EveryRequestIsAnswered
