CONSTANTS
    Int64Max = 15
    VersionSpan = 16
    Calls <- MCCalls
    Replies <- MCReplies
    Garbage = 5
SPECIFICATION Spec
INVARIANTS
    LiveVariablesInStorage
    FrameHeld
PROPERTIES
    ImplementsMeaning
CHECK_DEADLOCK FALSE
