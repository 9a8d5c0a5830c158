SPECIFICATION Spec
CONSTANTS
  Limiter = {"global", "login"}
  limit <- LimitOf
  windowMs = 2
  Instance = {i1}
  MaxSignals = 2
  Req = {r1, r2}
  MaxFailures = 1
INVARIANTS
  AtMostTwoWindows
  NoRequestCut
PROPERTIES
  ShutdownEnds
  LimitedIsServedAgain
