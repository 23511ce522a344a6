CONSTANTS
    Clients = {c1, c2}
    Brokers = {1, 2}
    Rack <- MCRack
    Self <- MCSelf
    Shotovers <- MCShotovers
    Ops = {"Produce", "FetchById", "JoinGroup", "OffsetCommit", "EndTxn", "CreateTopics", "Metadata", "FindGroup"}
    Initially = {{1}, {1, 2}}
    MaxMoves = 1
    MaxCalls = 0
    MaxFails = 4
SPECIFICATION Spec
SYMMETRY ClientSymmetry
INVARIANTS NodesSortedAndUnique RoutesHeal
