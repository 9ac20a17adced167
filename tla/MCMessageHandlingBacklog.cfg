SPECIFICATION Spec
CONSTANTS
    Handlers = {h1}
    MaxActions = 2
    MaxMessages = 3
    Width = 10
INVARIANT
    BacklogIsUnprocessed
CHECK_DEADLOCK FALSE
