SPECIFICATION PagingSpec
CONSTANTS
  root = root
  middle = middle
  leaf = leaf
  side = side
  m1 = m1
  Null = Null
  Absent = Absent
  None = None
  Conversation = {root, middle, leaf, side}
  Message = {m1}
  User <- MCUser
  Title <- MCTitle
  Status <- MCStatus
  CreatedEvents <- CreatedFamily
  DeletedEvents <- DeletedMiddle
  UpdatedEvents <- Nothing
  MessageEvents <- MessageInMiddle
  SoftDeleteEnabled = TRUE
  Now = {5}
  IdOrder <- MCIdOrder
  Callers = {"alice", "bob"}
  Skips = {1}
  Limits = {1}
  Pageable <- MCPageable
  MaxPages = 3
  MaxNodes = {0, 2}
  MaxDepths = {0, 1}
  DefaultNodes = 3
  NodesCap = 3
  DepthCap = 3
  IdLists <- MCIdLists
  MaxNodeIds = 2
INVARIANTS
  AdmittedStaysOwned
  AnswersAreTheCallers
  ContextNamesNobodyTwice
  ContextFollowsLineage
  NavigationAgrees
  MemoryIsTheLineage
  NobodyIsPassedOver
  NobodyComesTwice
