CONSTANTS
  Hosts = {1, 2, 3}
  Ports = {1}
  DataNodes <- MCDataNodes
  MaxNum = 1
  Nums = {1}
  MaxWriteFailures = 1
  MaxCrashes = 2
  MaxSuspicions = 1
SPECIFICATION JoinedSpec
INVARIANT TypeOK
INVARIANT ReplicasetPreserved
PROPERTY EpochIncrementsByOne
