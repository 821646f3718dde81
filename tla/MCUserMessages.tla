--------------------------- MODULE MCUserMessages ---------------------------
EXTENDS UserMessages, TLC

CONSTANTS s1, s2, u1, u2, u3

MCUserOf == (s1 :> u1) @@ (s2 :> u2)

MCInitialRows ==
  [u \in Users |-> CASE u = u2 -> [id |-> 1, hash |-> 1] [] u = u1 -> [id |-> 2, hash |-> 1]
                     [] OTHER -> [id |-> 0, hash |-> 0]]

=============================================================================
