SPECIFICATION FairSpec
CONSTANTS
  Descriptions <- Services
  Keys <- AllKeys
  Gateways = {g1, g2}
  Frontend = front
  None = None
  MaxFaults = 2
  g1 = g1
  g2 = g2
  front = front
  a = a
  b = b
  c = c
  a1 = a1
  old = old
  new = new
INVARIANTS TypeOK Served NothingStale SharesRight
PROPERTIES RedeployRepairs
