SPECIFICATION FairSpec
CONSTANTS
  Actions <- RecreateActions
  Groups <- RecreateGroups
  Top = "app"
  Children <- RecreateChildren
  Requires <- RecreateRequires
  Awaits <- RecreateAwaits
  Above <- RecreateAbove
  Downstream <- RecreateDownstream
  Coordinators = {c1}
PROPERTY AwaitingIsDecided
CHECK_DEADLOCK FALSE
