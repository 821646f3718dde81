SPECIFICATION Spec
CONSTANTS
  k1 = k1
  k2 = k2
  k3 = k3
  r1 = r1
  r2 = r2
  nullptr = nullptr
  Connections <- TwoConnections
  Reconnects <- TwoReconnects
  SlowAttempts = FALSE
  MaxOpens = 1
  MaxCloses = 1
  MaxDrops = 1
PROPERTY ClosedStaysClosed
CHECK_DEADLOCK FALSE
