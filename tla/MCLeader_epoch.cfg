CONSTANTS
  Peers = {p1, p2, p3}
  NoPeer = NoPeer
  MaxLeaderChanges = 2
  MaxConnectFailures = 1
  MaxRedirectFailures = 1
  MaxReadFailures = 1
  MaxWrites = 2
  ReadMissingNotFound = FALSE
SPECIFICATION Spec
PROPERTY EpochAcrossLeaders
