SPECIFICATION Spec
CONSTANTS
  parent = parent
  branch = branch
  m1 = m1
  Null = Null
  Absent = Absent
  Conversation = {parent, branch}
  Message = {m1}
  User <- MCUser
  Title <- MCTitle
  Status <- MCStatus
  CreatedEvents <- CreatedUnstamped
  DeletedEvents <- DeletedBoth
  UpdatedEvents <- UpdatedMixed
  MessageEvents <- MessageInParent
  SoftDeleteEnabled = FALSE
  Now = {2, 4}
INVARIANTS
  LatestWriteWins
  OwnedNodeComplete
  LineageConsistent
  MessagesConsistent
