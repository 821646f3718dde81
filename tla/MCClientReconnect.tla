--------------------------- MODULE MCClientReconnect ---------------------------
(* Names for the threads of one client: as many as are ever alive at once.  *)
EXTENDS ClientReconnect

CONSTANTS k1, k2, k3, r1, r2

TwoConnections   == {k1, k2}
ThreeConnections == {k1, k2, k3}
TwoReconnects    == {r1, r2}
=============================================================================
