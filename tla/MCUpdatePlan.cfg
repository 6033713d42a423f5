SPECIFICATION FairSpec
CONSTANTS
  Actions <- UpdateActions
  Groups <- UpdateGroups
  Top = "app"
  Children <- UpdateChildren
  Requires <- UpdateRequires
  Awaits <- UpdateAwaits
  Above <- UpdateAbove
  Downstream <- UpdateDownstream
  Coordinators = {c1}
INVARIANTS TypeOK StartsInOrder RunsAtMostOnce ReportIsFaithful NeverStuck
PROPERTIES StatusAdvances Completes ExecutesPlan
CHECK_DEADLOCK FALSE
