CONSTANTS
  Hosts = {1, 2, 3}
  Ports = {1}
  DataNodes <- MCDataNodes
  MaxNum = 1
  Nums = {1}
  MaxWriteFailures = 1
  MaxCrashes = 0
  MaxSuspicions = 0
SPECIFICATION JoinedSpec
INVARIANT TableMatchesPartitionNum
