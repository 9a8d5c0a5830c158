SPECIFICATION FairSpec
CONSTANTS
  qa1 = qa1
  qa2 = qa2
  w1 = w1
  w2 = w2
  m1 = m1
  m2 = m2
  NoUser = NoUser
  Users = {qa1, w1, w2, m1, m2}
  Staff <- MCStaff
  Managed = {}
  NewRoles = {}
  Items = {i1}
  Data = {d1, d2}
  Handlers = {h1}
  Offered <- AllOperations
  MaxHistory = 8
  MaxCrashes = 0
INVARIANTS
  ApprovalIsOfThisSubmission
  HistoryChains
  HeldByTheRightRole
PROPERTIES
  ImplementsLifecycle
  EditsRespectLock
  EveryRequestEnds
  SubmissionsAreAnnounced
