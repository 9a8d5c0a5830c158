SPECIFICATION Spec
CONSTANTS
  qa1 = qa1
  qa2 = qa2
  w1 = w1
  w2 = w2
  m1 = m1
  m2 = m2
  NoUser = NoUser
  Users = {qa1, w1, m1}
  Staff <- MCStaff
  Managed = {w1}
  NewRoles = {"WRITER"}
  Items = {i1}
  Data = {d1}
  Handlers = {h1, h2}
  Offered <- RacingOperations
  MaxHistory = 6
  MaxCrashes = 1
SYMMETRY HandlerSymmetry
INVARIANTS
  StatusIsLastRow
  NothingSkipped
  SubmissionWasApproved
  OpenTenderHasOwner
  RejectionHasReason
  NoticesAreBacked
