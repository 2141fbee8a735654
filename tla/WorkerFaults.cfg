SPECIFICATION WorkerSpec
CONSTANTS
  p1 = p1
  p2 = p2
  e1 = e1
  m1 = m1
  x1 = x1
  r1 = r1
  r2 = r2
  Partition = {p1, p2}
  Event = {e1, m1, x1}
  TwoStep = {m1}
  Log <- LogFaults
  Replica = {r1, r2}
  Nobody = Nobody
  Nothing = Nothing
  BatchSize = 2
  NeoFaults = TRUE
  CommitFaults = TRUE
  MaxStops = 1
  MaxRebalances = 1
\* Every loop may end, and then nothing moves.
CHECK_DEADLOCK FALSE
SYMMETRY AnyReplica
INVARIANTS
  WorkerTypeOK
  MarkedImpliesWritten
  CommitCoversOnlySettled
  FetchedIsHeldOrSettled
PROPERTY KeepsPromise
