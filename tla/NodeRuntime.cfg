SPECIFICATION MCSpec
CONSTANTS
    nodeA = nodeA
    nodeB = nodeB
    nodeC = nodeC
    None = None
    Parts = {"seeds", "tree"}
    Nodes = {nodeA, nodeB}
    Seeds = {nodeA, nodeB}
    MaxInvocations = 3
    MaxModelCalls = 7
    MaxReaderCalls = 6
    Spent = 1
    MaxOperations = 7
    MaxSteps = 2
    MaxDepth = 0
    MaxConcurrency = 2
INVARIANTS
    CallsReserved
    OwnedUntilClosed
    CitesDelivered
    NoSilentFailure
SYMMETRY Interchangeable
CHECK_DEADLOCK FALSE
