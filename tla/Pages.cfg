SPECIFICATION Spec
CONSTANTS
  qa1 = qa1
  qa2 = qa2
  writer = writer
  manager = manager
  Users = {qa1, writer, manager}
  NoUser = NoUser
  Staff <- StaffOf
  Write = {w1}
  Missing = Missing
  acked = acked
  slipped = slipped
  MaxOthers = 1
INVARIANTS
  TypeOK
  OffersMatch
  SomebodyIsAsked
  OwnWritesAreShown
