\* Two users, a session of each, one HTTP request, one failing statement.
SPECIFICATION Spec
CONSTANTS
  s1 = s1  s2 = s2  u1 = u1  u2 = u2  u3 = u3
  Sessions = {s1, s2}
  Requests = {r1}
  Users = {u1, u2, u3}
  InitialRows <- MCInitialRows
  UserOf <- MCUserOf
  Certified = {u2, u3}
  nil = nil
  channel = channel
  UseAuthorization = TRUE
  AllowIdentificationByWINSID = TRUE
  AllowHistoryMessages = TRUE
  MaxMessages = 2
  MaxWrites = 1
  MaxId = 3
  MaxFailures = 1
INVARIANTS  FoundByBoth  StoredIsShown LeftByAbandonedOnly
CHECK_DEADLOCK FALSE
