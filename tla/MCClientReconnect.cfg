SPECIFICATION Spec
CONSTANTS
  k1 = k1
  k2 = k2
  k3 = k3
  r1 = r1
  r2 = r2
  nullptr = nullptr
  Connections <- ThreeConnections
  Reconnects <- TwoReconnects
  SlowAttempts = FALSE
  MaxOpens = 1
  MaxCloses = 2
  MaxDrops = 3
INVARIANTS
  TypeOK
  
  
PROPERTIES
  CleanCloseIsFinal
  
CHECK_DEADLOCK FALSE
