SPECIFICATION Spec
CONSTANTS
    n1 = n1
    n2 = n2
    none = none
    Nodes = {n1, n2}
    NoNode = none
    RackOf <- MCRackOf
    TokensAt <- MCTokensAt
    local_rack = "r1"
    contact_points = {n1, n2}
    Keyspace <- MCKeyspace
    KeyToken = 1
    Hash <- MCHash
    Batches <- MCBatches
    StreamIds <- MCStreamIds
    MaxMessages = 4
    MayStop = {n1}
    MaxFaults = 1
INVARIANTS OneRequestPerStream AccountedFor OneViewOfTheCluster ExtraResponsesCombined
