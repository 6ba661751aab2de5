SPECIFICATION RepositorySpec
CONSTANTS
  Accounts <- MCAccounts
  Deployer = 2
  Provers = {p1}
  MaxQuorum = 2
  Assets <- MCAssets
  Messages <- MCMessages
  Submissions <- MCSubmissions
  QueryIds <- MCQueryIds
  Certificates <- MCCertificates
  MaxReports = 2
  MaxCertificates = 1
  MaxTime = 0
INVARIANTS
  SignatureRecordsOneReport
