SPECIFICATION Spec
CONSTANTS
  User = {qa1}
  Name = {n1, n2}
  NoUser = NoUser
  Empty = Empty
  Url = {url}
  NoUrl = NoUrl
  Req = {r1, r2}
  NoReq = NoReq
  MaxTenders = 2
SYMMETRY Interchangeable
INVARIANTS
  DuplicatesAreKnown
  ForceFollowsWarning
