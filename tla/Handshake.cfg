SPECIFICATION Spec
CONSTANTS
    Clients = {c1, c2}
    JobQueue = 1
    MaxRetries = 1
INVARIANT ConnectRetriesBackOff
CHECK_DEADLOCK FALSE
