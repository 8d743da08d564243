CONSTANTS
  Peers = {p1, p2, p3}
  NoPeer = NoPeer
  MaxLeaderChanges = 2
  MaxConnectFailures = 1
  MaxRedirectFailures = 1
  MaxReadFailures = 1
  MaxWrites = 2
  ReadMissingNotFound = TRUE
SPECIFICATION FairSpec
PROPERTY LifecycleSettles
CHECK_DEADLOCK FALSE
