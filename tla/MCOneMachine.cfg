SPECIFICATION FairSpec
CONSTANTS
  v = v
  w = w
  Machines <- OneMachine
  Nodes = {1, 2, 3, 4, 5, 6, 7}
  NoNode = 0
  MaxFaults = 2
INVARIANTS TypeOK KnownNodes AllDeleted DeployedIsTrue
PROPERTY RetryConverges
