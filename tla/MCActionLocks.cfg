SPECIFICATION FairSpec
CONSTANTS
  Actions <- UpdateActions
  Groups <- UpdateGroups
  Top = "update"
  Children <- UpdateChildren
  Requires <- UpdateRequires
  Coordinator = "coordinator"
  Pages = {"page"}
PROPERTY FollowersAreGivenUp
CHECK_DEADLOCK FALSE
