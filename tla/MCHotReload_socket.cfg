SPECIFICATION Spec
CONSTANTS
    Processes <- MCProcesses
    Ports <- MCPorts
    SourcesOf <- MCSourcesOf
    Patience = 2
    MaxFaults = 0
INVARIANTS
    SocketFileStays
CHECK_DEADLOCK FALSE
