---------------------------- MODULE FifoChannel ----------------------------
(***************************************************************************)
(* What a websocket session promises to everybody who calls send() on it:  *)
(* messages leave in the order in which they were accepted, each at most   *)
(* once, and each eventually unless the connection breaks.                 *)
(***************************************************************************)
EXTENDS Naturals, Sequences

CONSTANT Messages

VARIABLES
  accepted,   \* every message handed to the channel, in order
  written,    \* the ones that left the socket, in order
  broken      \* a write failed: the channel is dead

fifoVars == <<accepted, written, broken>>

FifoInit == accepted = <<>> /\ written = <<>> /\ broken = FALSE

Accept(m) ==
  /\ accepted' = Append(accepted, m)
  /\ UNCHANGED <<written, broken>>

Write ==
  /\ ~broken
  /\ Len(written) < Len(accepted)
  /\ written' = Append(written, accepted[Len(written) + 1])
  /\ UNCHANGED <<accepted, broken>>

\* Only a write can fail.
Break ==
  /\ ~broken
  /\ Len(written) < Len(accepted)
  /\ broken' = TRUE
  /\ UNCHANGED <<accepted, written>>

FifoNext == (\E m \in Messages : Accept(m)) \/ Write \/ Break

FifoSafe == FifoInit /\ [][FifoNext]_fifoVars

FifoSpec == FifoSafe /\ WF_fifoVars(Write \/ Break)
=============================================================================
