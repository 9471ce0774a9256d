SPECIFICATION FairSpec
CONSTANTS
    None = None
    Parts = {"queue", "calls", "branches"}
PROPERTIES
    EverythingEnds
CHECK_DEADLOCK FALSE
