SPECIFICATION Spec
CONSTANTS
  parent = parent
  branch = branch
  m1 = m1
  Null = Null
  Absent = Absent
  Conversation = {parent, branch}
  Message = {m1}
  User <- MCUser
  Title <- MCTitle
  Status <- MCStatus
  CreatedEvents <- CreatedAlone
  DeletedEvents <- None
  UpdatedEvents <- None
  MessageEvents <- MessageInParent
  SoftDeleteEnabled = TRUE
  Now = {4}
INVARIANT MessageFirstIsSafe
