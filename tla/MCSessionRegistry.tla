--------------------------- MODULE MCSessionRegistry ---------------------------
(* Two or three sessions on one or two threads.  Threads and sessions are    *)
(* interchangeable; the symmetry is used by the safety runs only.            *)
EXTENDS SessionRegistry, TLC

CONSTANTS s1, s2, s3, w1, w2

TwoSessions   == {s1, s2}
ThreeSessions == {s1, s2, s3}
OneThread     == {w1}
TwoThreads    == {w1, w2}

Symmetry == Permutations(Sessions) \cup Permutations(Threads)
=============================================================================
