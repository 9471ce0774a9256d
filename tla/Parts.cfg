SPECIFICATION Spec
CONSTANTS
    Explored = {"blobs", "paths", "indexes", "generations", "reads", "costs", "runs"}
    MaxTrouble = 2
    MaxErrors = 1
    MaxLog = 2
    Puts = {"p1", "p2", "p3"}
    Digests = {"d", "e"}
    DigestOf <- MCDigestOf
    Shards = {"ab"}
    ShardOf <- MCShardOf
    Backends = {"local", "s3"}
    Openers = {"a", "b"}
    Converters = {"c2", "c3"}
    Format <- MCFormat
    Calls = {"s", "t", "u"}
    Instances = {"i", "j"}
    InstanceOf <- MCInstanceOf
    FileOf <- MCFileOf
    Clients = {"a", "b"}
    ClientOf <- MCClientOf
    Threshold = 2
    Framework = {"u"}
    Tokens <- MCTokens
    Cost <- MCCost
    Cap = 4
    Limit = 2
    Window = 2
    Deadline = 3
    MaxUnknown = 2
    MaxTime = 3
    Nodes = {"a", "b"}
    Length = 3
    Amendments = {"p", "q", "r", "s"}
    SubjectOf <- MCSubjectOf
    TargetOf <- MCTargetOf
    Readers = {"x", "y"}
    Requests <- MCRequests
    MaxHops = 3
    MaxTotal = 3
    MaxChanges = 1
    Trials <- MCTrials
    CaseOf <- MCCaseOf
    ModelCalls = {"c", "d"}
    TrialOf <- MCTrialOf
    Slots = 2
INVARIANTS
    NeverTorn
    ReturnedIsReadable
    OneWorkspace
    OpensUnlessRefused
    StagingOutlivesCopy
    IndexExact
    SearchIsFresh
    HitsAreCurrent
    GenerationsWhole
    ReadsAreEffective
    BytesAccounted
    LiabilitiesCovered
    FilesCoverBill
    WindowHolds
    ReportCoversCalls
    ReportIsTrue
PROPERTIES
    NothingAfterStop
CHECK_DEADLOCK FALSE
