SPECIFICATION WebSpec
CONSTANTS
    Clients = {"ip"}
    Routes = {"record", "nodes", "waitlist"}
    OwnKey = {"record"}
    Shared = "shared"
    LimitOf <- LimitOfDef
    Window = 2
    CleanupInterval = 2
    MaxTime = 4
    Addresses <- AddressesDef
    NoEntry = NoEntry
    Replies <- RepliesDef
    D2s <- D2sDef
    Cvars <- CvarsDef
    Symbols = {"ETH"}
    Callers = {"first", "second"}
    Ttl = 3
    Timeout = 1
    Horizon = 5
    Steps <- StepsDef
    Requests = {1, 2}
    Box = {"", "a", "b"}
    Empty = ""
    Flows = {1, 2}
    Reports = {"A", "B"}
    MaxPolls = 2
    NoHash = NoHash
    Digest = Digest
    Nodes <- NodesDef
    Local <- LocalDef
    Others = {9}
    Messages = {"m", "n"}
    Computed = {"n", "o"}
    Quorums <- QuorumsDef
    MaxListed = 2
    Assets = {"a", "b"}
    Batches <- BatchesDef
    MaxRetries = 1
    MaxReports = 2
    Missing = Missing
    Subjects = {"a", "b"}
    Fetches = {1, 2}
    Polls = {1}
    Checks = {1, 2}
    SourceTxs = {"t", "u"}
    Null = Null
    MaxOnChain = 2
    Forms = {"p"}
    Emails = {"x", "y", "z"}
    NoEmail = NoEmail
    MaxSubmissions = 2
    MaxSent = 3
    MaxLosses = 1
INVARIANTS
    DistributedQuorumIsOverTheScores
CHECK_DEADLOCK FALSE
