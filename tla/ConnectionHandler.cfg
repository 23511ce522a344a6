SPECIFICATION Spec
CONSTANTS
    N = 4
    InCap = 1
    Protocols = {"Ordered", "Unordered", "Unsupported"}
    IdleTimeout = TRUE
INVARIANTS
    PendingExact
PROPERTIES
    ImplementsRequestStream
    TasksEnd
