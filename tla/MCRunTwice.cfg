SPECIFICATION FairSpec
CONSTANTS
  Actions <- DeleteActions
  Groups <- DeleteGroups
  Top = "app"
  Children <- DeleteChildren
  Requires <- DeleteRequires
  Awaits <- DeleteAwaits
  Above <- DeleteAbove
  Downstream <- DeleteDownstream
  Coordinators = {c1, c2}
INVARIANT RunsOncePerCoordinator
PROPERTY Completes
CHECK_DEADLOCK FALSE
