SPECIFICATION FairSyncSpec
CONSTANTS
  parent = parent
  branch = branch
  m1 = m1
  p1 = p1
  p2 = p2
  r1 = r1
  r2 = r2
  Null = Null
  Absent = Absent
  Conversation = {parent, branch}
  Message = {m1}
  User <- MCUser
  Title <- MCTitle
  Status <- MCStatus
  CreatedEvents <- OneCreated
  DeletedEvents <- None
  UpdatedEvents <- None
  MessageEvents <- OneMessage
  SoftDeleteEnabled = TRUE
  Now = {2}
  Partition = {p1, p2}
  Log <- MCLog
  Replica = {r1, r2}
  Nobody = Nobody
  Nothing = Nothing
  NoEvent = NoEvent
  BatchSize = 1
  NeoFaults = TRUE
  CommitFaults = FALSE
  MaxStops = 1
  MaxRebalances = 1
INVARIANTS
  GraphIsWhatWasWritten
  CommittedIsVisible
PROPERTY SyncConverges
