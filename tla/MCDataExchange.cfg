SPECIFICATION Spec
CONSTANTS
  o1 = o1
  o2 = o2
  b1 = b1
  Objects <- TwoObjects
  Barcodes <- OneBarcode
  Owner <- OwnerOfAll
  BatchSize = 1
  ChunkSize = 2
  MaxContent = 2
  MaxFailures = 1
  MaxSyncs = 1
INVARIANTS
  
  UnloadedIsRegistered
  
PROPERTIES
  BackwardsOnlyIfOvertaken
  RegisteredIsLoaded
CHECK_DEADLOCK FALSE
