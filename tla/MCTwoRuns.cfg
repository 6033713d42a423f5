SPECIFICATION Spec
CONSTANTS
  Actions <- DeleteActions
  Groups <- DeleteGroups
  Top = "app"
  Children <- DeleteChildren
  Requires <- DeleteRequires
  Awaits <- DeleteAwaits
  Above <- DeleteAbove
  Downstream <- DeleteDownstream
  Coordinators = {c1, c2}
INVARIANT NoInvalidState
CHECK_DEADLOCK FALSE
