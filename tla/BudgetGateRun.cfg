SPECIFICATION FairSpec
CONSTANTS
  g1 = g1
  g2 = g2
  a = a
  b = b
  t = t
  r1 = r1
  r2 = r2
  NoCall = NoCall
  Gates = {g1, g2}
  Calls = {a, b, t, r1, r2}
  Replays = {r1, r2}
  TieBreaks = {t}
  GateOf <- TwoGates
  Total = 3
  Amounts = {1, 2}
  Usages = {0, 1, 3}
  MaxInterrupts = 1
CHECK_DEADLOCK FALSE
INVARIANTS
  CommittedWithinBudget
  GateMirrorsStore
  LedgerExplainsGate
PROPERTIES
  ImplementsCell
  EveryCallEnds
