SPECIFICATION Spec
CONSTANTS
    Workers = {w1, w2}
    MaxCalls = 2
    MaxWindows = 3
    LoadFailures = TRUE
    TaskFailures = TRUE
    CallbackFailures = TRUE
INVARIANTS OneTokenPerWorker OutputIsOwn VadStateIsChained
PROPERTIES ImplementsPromise CallsReturn PoolCloses
CHECK_DEADLOCK FALSE
