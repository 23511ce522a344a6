CONSTANTS
    Hash <- MCHash
    Execute <- MCExecute
SPECIFICATION Spec
INVARIANTS
    SplitThenCombine
    BroadcastExactlyOnce
    ClientSeesOnlyShotover
    ReplicasAreNearest
    TokensReportedOnce
    
