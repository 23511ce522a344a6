SPECIFICATION Spec
CONSTANTS
    b1 = b1
    b2 = b2
    Brokers <- MCBrokers
    Control = Control
    Kinds <- MCKinds
    MaxParts = 2
    Scram = TRUE
    Pipelined = FALSE
    MaxLookups = 1
    MaxRefetches = 1
    MaxFaults = 1
INVARIANTS
    IndexExact
    ReturnedInOrder
PROPERTY
    EveryRequestReturned
