SPECIFICATION Spec
CONSTANTS
  Configurations <- CoalesceAboveCluster
  BufferSize = 2
  Parallelism = 2
  OtherRequests = 2
PROPERTY
  ReturnedEventually
