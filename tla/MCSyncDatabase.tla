--------------------------- MODULE MCSyncDatabase ---------------------------
EXTENDS SyncDatabase, TLC

CONSTANTS h1, h2, r1, r2, d1, d2

MCDeviceOf == (r1 :> d1) @@ (r2 :> d2)

MCSymmetry == Permutations(Handlers)

=============================================================================
