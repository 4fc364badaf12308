SPECIFICATION Spec
CONSTANTS
  p1 = p1
  p2 = p2
  a = a
  b = b
  c = c
  d = d
  NoTask = NoTask
  NoHolder = NoHolder
  Pods = {p1, p2}
  Tasks = {a, b, c}
  PodOf <- MCPodOf
  FreshTasks = {}
  Lease = 2
  HeartbeatGap = 2
  Rounds = 2
  MaxClock = 6
  MaxCrashes = 1
  MaxAborts = 0
INVARIANTS
  AtMostOneRunner
