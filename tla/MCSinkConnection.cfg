SPECIFICATION Spec
CONSTANTS
  Workloads <- MCWorkloads
  Modes <- MCModes
  InCap = 1
  ReadTimeout = TRUE
INVARIANTS
  NoPanic
  InRequestOrder
  NoStrandedResponse
PROPERTIES
  EveryRequestSettles
  TasksEnd
