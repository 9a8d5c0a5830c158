SPECIFICATION Spec
CONSTANTS
  User = {a, b}
  Roles = {ADMIN, WRITER}
  Admin = ADMIN
  Req = {r1, r2}
  loginMaxFailedAttempts = 2
  BASE_LOCK_MS = 2
  MaxLockMs = 3
  JwtLife = 1
  MaxNow = 3
  MaxTokens = 1
  MaxChanges = 1
  MaxFailures = 1
SYMMETRY Interchangeable
INVARIANTS
  LockIsEarned
  LogoutIsFinal
  RoleIsCurrent
  AuditKeepsUp
PROPERTY
  LocksOutlast
