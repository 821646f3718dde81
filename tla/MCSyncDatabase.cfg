\* Two handlers and the scheduler on one connection, one failing statement.
SPECIFICATION Spec
CONSTANTS
  h1 = h1  h2 = h2  r1 = r1  r2 = r2  d1 = d1  d2 = d2
  Handlers = {h1, h2}
  Cleaner = cleaner
  Refs = {r1, r2}
  Devices = {d1}
  DeviceOf <- MCDeviceOf
  Users = {u1, u2}
  NoOne = NoOne
  MaxBatch = 2
  MaxVersion = 2
  MaxCommands = 3
  MaxFailures = 1
INVARIANTS WholeDocuments AloneIsKept OneTransaction
 
SYMMETRY MCSymmetry
CHECK_DEADLOCK FALSE
