SPECIFICATION Spec
CONSTANTS
  ali = ali
  mona = mona
  User = {ali, mona}
  NoUser = NoUser
  Missing = Missing
  RECENT_LIMIT = 1
  MaxNotes = 2
INVARIANTS
  TypeOK
  ReadStaysRead
  ShownIsMine
PROPERTY CatchesUp
