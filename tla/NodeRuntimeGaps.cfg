SPECIFICATION MCSpec
CONSTANTS
    nodeA = nodeA
    nodeB = nodeB
    nodeC = nodeC
    None = None
    Parts = {"seeds"}
    Nodes = {nodeA, nodeB}
    Seeds = {nodeA}
    MaxInvocations = 2
    MaxModelCalls = 6
    MaxReaderCalls = 5
    Spent = 0
    MaxOperations = 8
    MaxSteps = 2
    MaxDepth = 1
    MaxConcurrency = 1
INVARIANTS
    GapsReachAnswer
CHECK_DEADLOCK FALSE
