SPECIFICATION FairSpec
CONSTANTS
    Handlers = {h1, h2}
    MaxActions = 2
    MaxMessages = 3
    Width = 10
INVARIANTS
    TypeOK
    MessagesAccountedFor
    ErrorsAccountedFor
PROPERTY
    HandlingEnds
CHECK_DEADLOCK FALSE
