CONSTANTS
  Hosts = {1, 2, 3}
  Ports = {1}
  DataNodes <- MCDataNodes
  MaxNum = 2
  Nums = {2}
  MaxWriteFailures = 0
  MaxCrashes = 1
  MaxSuspicions = 0
SPECIFICATION Spec
INVARIANT MasterIsUp
