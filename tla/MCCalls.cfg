SPECIFICATION FairSpec
CONSTANTS
  l1 = l1
  l2 = l2
  r1 = r1
  r2 = r2
  Calls <- MixedCalls
  Remote = {r1}
  Threads = 3
  MaxEvents <- MixedEvents
  MaxRestarts = 1
  Nobody = nobody
INVARIANTS TypeOK NothingKept
PROPERTIES KeepsContract Answered
CHECK_DEADLOCK FALSE
