------------------------- MODULE MCWebsocketSession -------------------------
(* One session: three posts of two texts, messages of up to three pieces.   *)
EXTENDS WebsocketSession

CONSTANTS m1, m2, a, b

MCMessages == {m1, m2}
MCChunks   == {a, b}
=============================================================================
