SPECIFICATION Spec
CONSTANTS
  s1 = s1
  s2 = s2
  s3 = s3
  w1 = w1
  w2 = w2
  nil_uuid = nil_uuid
  Sessions <- TwoSessions
  Threads <- OneThread
  UseAuthorization = TRUE
  AllowDelayedAuthorization = TRUE
  MaxTexts = 1
  MaxPrivate = 0
  MaxParams = 1
PROPERTIES
  LostIsDestroyed
  DeadLineEnforced
CHECK_DEADLOCK FALSE
