SPECIFICATION Spec
CONSTANTS
    n1 = n1
    k1 = k1
    env = env
    prod = prod
    test = test
    span = span
    v1 = v1
    v2 = v2
    None = None
    Subjects = {span}
    Values = {v1, v2}
    ScopeKeys = {env}
    ScopeValues = {prod, test}
    Instants = {0, 1}
    Nodes = {n1}
    Keys = {k1}
    Requests <- MCRequests
    MaxEntries = 4
INVARIANTS
    OperationalExact
    CompactionSound
    RetractionUndoes
    CallersAgree
PROPERTIES
    AppendIsLocal
CHECK_DEADLOCK FALSE
