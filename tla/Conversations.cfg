SPECIFICATION MCSpec
CONSTANTS
    ask1 = ask1
    ask2 = ask2
    imp = imp
    look = look
    ask = ask
    key = key
    again = again
    other = other
    k1 = k1
    app1 = app1
    app2 = app2
    chat = chat
    n1 = n1
    n2 = n2
    n3 = n3
    base = base
    u1 = u1
    u2 = u2
    u3 = u3
    a1 = a1
    a2 = a2
    None = None
    Nodes <- MCNodes
    ImportIds = {}
    Conversations = {chat}
    Contents <- MCContents
    Keys = {k1}
    Requests <- MCRequests
    Tasks <- MCTasks
    Kind <- MCKind
    ConvOf <- MCConvOf
    KeyOf <- MCKeyOf
    UserText <- MCUserText
    ReplyText <- MCReplyText
    Base = base
    Apps = {app1, app2}
    AppOf <- MCAppOf
    RoutingMode = "auto"
    MaxAbandoned = 1
    MaxTrouble = 1
INVARIANTS
    RoutedUnlessAbandoned
    AdjacentUnlessAbandoned
    StoredInTopic
    KeyedOnce
    RememberedIsKept
CHECK_DEADLOCK FALSE
