SPECIFICATION Spec
CONSTANTS
  v = v
  w = w
  Machines <- TwoMachines
  Nodes = {1, 2, 3, 4, 5, 6, 7, 8}
  NoNode = 0
  MaxFaults = 0
INVARIANT DeployedIsTrue
