SPECIFICATION Spec
CONSTANTS
    a = a
    b = b
    c = c
    always = always
    prod = prod
    span = span
    other = other
    m1 = m1
    m2 = m2
    ann = ann
    host = host
    k1 = k1
    p1 = p1
    p2 = p2
    None = None
    Nodes = {a, b, c}
    Scopes = {always, prod}
    Supports = {span, other}
    Models = {m1, m2}
    Users = {ann}
    Host = host
    Keys = {k1}
    UserRequests <- MCUserRequests
    Passes = {p1, p2}
    Selections <- MCSelections
    Proposals <- MCProposals
    ModeOf <- MCModeOf
    MaxLinks = 1
    MaxEdges = 3
INVARIANTS
    PublishedOnce
    ReceiptsAgree
    FailureIsWhole
PROPERTIES
    WithdrawalFinal
SYMMETRY Interchangeable
CHECK_DEADLOCK FALSE
