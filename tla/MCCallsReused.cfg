SPECIFICATION Spec
CONSTANTS
  l1 = l1
  l2 = l2
  r1 = r1
  r2 = r2
  Calls <- RemoteCalls
  Remote = {r1, r2}
  Threads = 2
  MaxEvents <- RemoteEvents
  MaxRestarts = 1
  Nobody = nobody
INVARIANT OwnOutcome
CHECK_DEADLOCK FALSE
