SPECIFICATION FairSpec
CONSTANTS
  p1 = p1
  p2 = p2
  a = a
  b = b
  c = c
  d = d
  NoTask = NoTask
  NoHolder = NoHolder
  Pods = {p1, p2}
  Tasks = {a, b, c, d}
  PodOf <- MCPodOf
  FreshTasks = {d}
  Lease = 1
  HeartbeatGap = 2
  Rounds = 1
  MaxClock = 3
  MaxCrashes = 1
  MaxAborts = 1
INVARIANT AtMostOneRunnerPerPod
PROPERTIES
  LiveClaimIsUntouched
  DeadClaimExpires
  EveryCallReturns
CHECK_DEADLOCK FALSE
