SPECIFICATION Spec
CONSTANTS
  m1 = m1
  m2 = m2
  a = a
  b = b
  Messages <- MCMessages
  Chunks <- MCChunks
  MaxPosts = 3
  MaxPieces = 3
INVARIANTS
  WriteExclusive
  WriteOutstanding
  NoLossNoReorder
PROPERTIES
  IntactWhenUndisturbed
  FifoSpec
CHECK_DEADLOCK FALSE
