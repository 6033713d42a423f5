SPECIFICATION FairSpec
CONSTANTS
  Machines <- Two
  Names <- Three
  NamesOf <- Renamed
  StartsWith <- Prefixes
  Instances = {i1, i2}
  None = None
  Default = Default
  MaxFaults = 1
  m1 = m1
  m2 = m2
  web = web
  web1 = web1
  web2 = web2
INVARIANTS TypeOK OwnGroup NothingLeft RecordsRight
PROPERTIES KeepsProvider UndeployConverges
CHECK_DEADLOCK FALSE
