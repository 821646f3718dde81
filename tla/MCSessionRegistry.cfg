SPECIFICATION Spec
CONSTANTS
  s1 = s1
  s2 = s2
  s3 = s3
  w1 = w1
  w2 = w2
  nil_uuid = nil_uuid
  Sessions <- TwoSessions
  Threads <- TwoThreads
  UseAuthorization = TRUE
  AllowDelayedAuthorization = TRUE
  MaxTexts = 1
  MaxPrivate = 1
  MaxParams = 1
INVARIANTS
  TypeOK
  RegisteredIsAlive
  JoinedIsRegistered
  LeaveAfterJoin
  LeaveIsTold
SYMMETRY Symmetry
CHECK_DEADLOCK FALSE
