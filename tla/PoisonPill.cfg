SPECIFICATION WorkerSpec
CONSTANTS
  p1 = p1
  p2 = p2
  e1 = e1
  m1 = m1
  x1 = x1
  r1 = r1
  r2 = r2
  Partition = {p1, p2}
  Event = {e1, m1, x1}
  TwoStep = {m1}
  Log <- LogPoison
  Replica = {r1}
  Nobody = Nobody
  Nothing = Nothing
  BatchSize = 2
  NeoFaults = FALSE
  CommitFaults = FALSE
  MaxStops = 0
  MaxRebalances = 0
CHECK_DEADLOCK FALSE
INVARIANT LoopSurvivesMessages
