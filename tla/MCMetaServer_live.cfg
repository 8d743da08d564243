CONSTANTS
  Hosts = {1, 2, 3}
  Ports = {1}
  DataNodes <- MCDataNodes2
  MaxNum = 1
  Nums = {1}
  MaxWriteFailures = 0
  MaxCrashes = 1
  MaxSuspicions = 1
SPECIFICATION FairSpec
PROPERTY RunningNodeEventuallyServed
