SPECIFICATION WireSpec
CONSTANTS
  c1 = c1
  m1 = m1
  Null = Null
  Absent = Absent
  Conversation <- MCConversation
  Message = {m1}
  User <- MCUser
  Title <- MCTitle
  Status <- MCStatus
  LastSecond = 2
  LastFraction = 1
  Wire <- MCWire
  CreatedEvents <- MCCreated
  DeletedEvents <- MCDeleted
  UpdatedEvents <- MCUpdated
  MessageEvents <- MCMessage
  SoftDeleteEnabled = TRUE
  Now <- MCNow
INVARIANTS
  NeverASecondBehind
  OwnClockIsExact
  BlankComesFromUpdates
PROPERTY FormatsAgree
