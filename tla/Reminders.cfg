SPECIFICATION ReminderSpec
CONSTANTS
  Instances = {a1, a2}
  None = None
  Tenders = {t1, t2}
  HasRedis = TRUE
  LastDay = 2
  Windows = {2}
  MaxFailures = 1
  MaxOverruns = 1
SYMMETRY Interchangeable
INVARIANTS
  LockIsMine
  OneReminderEach
  NoneMissed
