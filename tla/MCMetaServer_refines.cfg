CONSTANTS
  Hosts = {1, 2, 3}
  Ports = {1}
  DataNodes <- MCDataNodes
  MaxNum = 2
  Nums = {1, 2}
  MaxWriteFailures = 0
  MaxCrashes = 2
  MaxSuspicions = 1
SPECIFICATION JoinedSpec
PROPERTY PartitionTableRefined
INVARIANT NoOrphanWithUpSlave
