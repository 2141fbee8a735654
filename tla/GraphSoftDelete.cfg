SPECIFICATION Spec
CONSTANTS
  parent = parent
  branch = branch
  m1 = m1
  Null = Null
  Absent = Absent
  Conversation = {parent, branch}
  Message = {m1}
  User <- MCUser
  Title <- MCTitle
  Status <- MCStatus
  CreatedEvents <- CreatedTree
  DeletedEvents <- DeletedParent
  UpdatedEvents <- UpdatedApart
  MessageEvents <- MessageInParent
  SoftDeleteEnabled = TRUE
  Now = {2, 4}
INVARIANTS
  TypeOK
  LatestWriteWins
  OwnedNodeComplete
  LineageConsistent
  HandledIsWired
PROPERTIES
  UpdatedNeverRegresses
  OwnerAndOriginImmutable
  ChildLeavesKnownParentAlone
  ReplayIsNoOp
  KeepsLineage
