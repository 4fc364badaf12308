SPECIFICATION Spec
CONSTANTS
  g1 = g1
  g2 = g2
  a = a
  b = b
  t = t
  r1 = r1
  r2 = r2
  NoCall = NoCall
  Gates = {g1}
  Calls = {a, r1}
  Replays = {r1}
  TieBreaks = {}
  GateOf <- OneGate
  Total = 3
  Amounts = {1, 2}
  Usages = {0, 1, 2, 3}
  MaxInterrupts = 1
CHECK_DEADLOCK FALSE
INVARIANT ResumeIsAdmitted
