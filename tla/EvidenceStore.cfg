SPECIFICATION Spec
CONSTANTS
    c1 = c1
    c2 = c2
    i1 = i1
    i2 = i2
    k1 = k1
    k2 = k2
    chat = chat
    note = note
    fresh1 = fresh1
    fresh2 = fresh2
    x = x
    y = y
    z = z
    None = None
    Nodes <- MCNodes
    ImportIds <- MCImportIds
    Conversations = {chat}
    Contents <- MCContents
    Keys <- MCKeys
    Requests <- MCRequests
    Calls <- MCCalls
    Instances <- MCInstances
    InstanceOf <- MCInstanceOf
    MaxCalls = 3
    MaxTrouble = 1
INVARIANTS
    VisibleBlobsDurable
    AnswersHold
    ChangeLogComplete
PROPERTIES
    LogSpec
CHECK_DEADLOCK FALSE
