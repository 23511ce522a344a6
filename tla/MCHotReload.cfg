SPECIFICATION Spec
CONSTANTS
    Processes <- MCProcesses
    Ports <- MCPorts
    SourcesOf <- MCSourcesOf
    Patience = 2
    MaxFaults = 1
INVARIANTS
    PortStaysOpen
PROPERTIES
    DrainedByReady
    StartSettles
CHECK_DEADLOCK FALSE
