------------------------- MODULE ClientReconnectProofs -------------------------
(***************************************************************************)
(* For any number of closes, losses and refused attempts: a clean close() is *)
(* final; and if the user opens once and no attempt outlasts the timer,      *)
(* there is one connection and one timer.                                    *)
(***************************************************************************)
EXTENDS ClientReconnect, TLAPS

\* The 60 seconds of the timer suffice for an attempt, and the user calls open()
\* once.  With a second open(), or slow attempts, two connections are possible.
Timely == MaxOpens <= 1 /\ ~SlowAttempts

-----------------------------------------------------------------------------
(* The types.                                                               *)

LEMMA TypeInit == Init => TypeOK
<1> SUFFICES ASSUME Init PROVE TypeOK
  OBVIOUS
<1>1. 0 \in 0..MaxOpens /\ 0 \in 0..MaxCloses /\ 0 \in 0..MaxDrops
  BY ReconnectAssumption
<1>2. /\ closing \in [Connections -> BOOLEAN]
      /\ \A c \in Connections : closing[c] => start[c] = "connected"
  BY DEF Init
<1> QED
  BY <1>1, <1>2 DEF Init, TypeOK

LEMMA TypeNext == TypeOK /\ [Next]_vars => TypeOK'
<1> SUFFICES ASSUME TypeOK, [Next]_vars PROVE TypeOK'
  OBVIOUS
<1> USE ReconnectAssumption
<1>1. CASE UNCHANGED vars
  BY <1>1 DEF vars, flags, bounds, said, TypeOK
<1>2. ASSUME NEW c \in Connections, StartStep(c) \/ Attempt(c) \/ dropped(c)
      PROVE  TypeOK'
  <2>1. CASE start_begins(c)
    BY <2>1 DEF start_begins, At, Go, TypeOK, flags, bounds, said
  <2>2. CASE make_state(c)
    BY <2>2 DEF make_state, At, Go, TypeOK, flags, bounds, said
  <2>3. CASE closed(c)
    BY <2>3 DEF closed, At, Go, TypeOK, flags, bounds, said
  <2>4. CASE clear_state(c)
    BY <2>4 DEF clear_state, At, Go, TypeOK, flags, bounds, said
  <2>5. CASE on_status_changed(c)
    BY <2>5 DEF on_status_changed, At, Go, Timer, Turn, TypeOK, flags, bounds, said
  <2>6. CASE connected(c)
    BY <2>6 DEF connected, At, Go, TypeOK, flags, bounds, said
  <2>7. CASE refused(c)
    BY <2>7 DEF refused, At, Go, TypeOK, flags, bounds, said
  <2>8. CASE dropped(c)
    BY <2>8 DEF dropped, At, Go, TypeOK, flags, bounds, said
  <2> QED
    BY <1>2, <2>1, <2>2, <2>3, <2>4, <2>5, <2>6, <2>7, <2>8 DEF StartStep, Attempt
<1>3. ASSUME NEW t \in Reconnects, ReconnectStep(t)
      PROVE  TypeOK'
  <2>1. CASE start_reconnect(t) \/ arm(t) \/ check_connection(t) \/ stop(t)
    BY <2>1 DEF start_reconnect, arm, check_connection, stop, Timer, Turn, TypeOK,
       flags, bounds, said
  <2>2. CASE reopen(t)
    BY <2>2 DEF reopen, Open, Go, Timer, Turn, TypeOK, flags, bounds, said
  <2> QED
    BY <1>3, <2>1, <2>2 DEF ReconnectStep
<1>4. CASE user_open
  <2>1. opens' \in 0..MaxOpens
    BY <1>4 DEF user_open, TypeOK
  <2>2. wanted' \in BOOLEAN /\ clean' \in BOOLEAN
    BY <1>4 DEF user_open
  <2>3. UNCHANGED <<state_, flags, closing, reconnect, user, down, closes, drops>>
    BY <1>4 DEF user_open
  <2>4. PICK c \in Connections : start[c] = "none" /\ start' = [start EXCEPT ![c] = "spawned"]
    BY <1>4 DEF user_open, Open, Go
  <2> QED
    BY <2>1, <2>2, <2>3, <2>4 DEF TypeOK, flags
<1>5. CASE user_close
  BY <1>5 DEF user_close, TypeOK, flags, said
<1>6. ASSUME NEW disable \in BOOLEAN, close(disable)
      PROVE  TypeOK'
  <2>1. clean' \in BOOLEAN
    BY <1>6 DEF close, OnlyConnected
  <2>2. closing' \in [Connections -> BOOLEAN]
        /\ \A c \in Connections : closing'[c] => start[c] = "connected"
    BY <1>6 DEF close, TypeOK, started
  <2> QED
    BY <1>6, <2>1, <2>2 DEF close, TypeOK, bounds
<1> QED
  BY <1>1, <1>2, <1>3, <1>4, <1>5, <1>6 DEF Next

\* The client's members and threads keep their types.
THEOREM TypeCorrect == Safe => []TypeOK
BY TypeInit, TypeNext, PTL DEF Safe

-----------------------------------------------------------------------------
(* A clean close is final.                                                  *)

\* After it nothing runs but the connection that is being closed.
Quiet ==
  clean => /\ closed_by_user /\ ~timer_is_run
           /\ \A t \in Reconnects : reconnect[t] = "none"
           /\ \A c \in Connections : start[c] \notin {"spawned", "begun"}

LEMMA QuietInit == Init => Quiet
BY DEF Init, Quiet

LEMMA QuietNext == TypeOK /\ Quiet /\ [Next]_vars => Quiet'
<1> SUFFICES ASSUME TypeOK, Quiet, [Next]_vars PROVE Quiet'
  OBVIOUS
<1> USE ReconnectAssumption
<1>1. CASE UNCHANGED vars
  BY <1>1 DEF vars, flags, bounds, said, Quiet
<1>2. ASSUME NEW c \in Connections, StartStep(c) \/ Attempt(c) \/ dropped(c)
      PROVE  Quiet'
  <2>1. CASE start_begins(c) \/ make_state(c)
    BY <2>1 DEF start_begins, make_state, At, Go, Quiet, said
  <2>2. CASE closed(c) \/ clear_state(c) \/ Attempt(c) \/ dropped(c)
    BY <2>2 DEF closed, clear_state, connected, refused, dropped, Attempt, At, Go, Quiet,
       TypeOK, said, flags
  <2>3. CASE on_status_changed(c)
    BY <2>3 DEF on_status_changed, Reconnecting, At, Go, Quiet, TypeOK, said, flags
  <2> QED
    BY <1>2, <2>1, <2>2, <2>3 DEF StartStep
<1>3. ASSUME NEW t \in Reconnects, ReconnectStep(t)
      PROVE  Quiet'
  BY <1>3 DEF ReconnectStep, start_reconnect, arm, check_connection, reopen, stop, Timer,
     Quiet, said
<1>4. CASE user_open
  BY <1>4 DEF user_open, Quiet
<1>5. CASE user_close
  BY <1>5 DEF user_close, Quiet, said, flags
<1>6. ASSUME NEW disable \in BOOLEAN, close(disable)
      PROVE  Quiet'
  <2>1. clean' => OnlyConnected
    BY <1>6 DEF close
  <2>2. closed_by_user' /\ UNCHANGED <<timer_is_run, start, reconnect>>
    BY <1>6 DEF close
  <2>3. clean' => \A c \in Connections : start[c] \notin {"spawned", "begun"}
    <3> SUFFICES ASSUME clean', NEW c \in Connections
                 PROVE  start[c] = "none" \/ start[c] = "connected"
      OBVIOUS
    <3> QED
      BY <2>1 DEF OnlyConnected
  <2> QED
    BY <2>1, <2>2, <2>3 DEF Quiet, OnlyConnected
<1> QED
  BY <1>1, <1>2, <1>3, <1>4, <1>5, <1>6 DEF Next

LEMMA OpensForTheUser ==
  TypeOK /\ Quiet /\ [Next]_vars
    => \A c \in Connections : clean /\ Opened(c) => wanted'
<1> SUFFICES ASSUME TypeOK, Quiet, [Next]_vars, clean, NEW c \in Connections, Opened(c)
             PROVE  wanted'
  OBVIOUS
<1>1. ~UNCHANGED start
  BY DEF Opened
<1>2. ASSUME NEW d \in Connections, StartStep(d) \/ Attempt(d) \/ dropped(d)
      PROVE  FALSE
  BY <1>2 DEF StartStep, Attempt, start_begins, make_state, closed, clear_state,
     on_status_changed, connected, refused, dropped, At, Go, Opened, TypeOK
<1>3. ASSUME NEW t \in Reconnects, ReconnectStep(t)
      PROVE  FALSE
  BY <1>1, <1>3 DEF ReconnectStep, start_reconnect, arm, check_connection, reopen, stop,
     Timer, Quiet
<1>4. user_open => wanted'
  BY DEF user_open
<1> QED
  BY <1>1, <1>2, <1>3, <1>4 DEF Next, vars, user_close, close

\* Nothing but the user's open() starts a thread that connects after a clean
\* close(), whatever the old connection does on its way out.
THEOREM CloseFinal == Safe => CleanCloseIsFinal
<1>1. TypeOK /\ Quiet /\ [Next]_vars
        => [\A c \in Connections : clean /\ Opened(c) => wanted']_vars
  BY OpensForTheUser
<1> QED
  BY TypeInit, TypeNext, QuietInit, QuietNext, <1>1, PTL DEF Safe, CleanCloseIsFinal

-----------------------------------------------------------------------------
(* One connection, one timer.                                               *)

Alive(c) == start[c] # "none"
Waiting(t) == reconnect[t] \in {"armed", "reopen", "stop"}

\* One thread of each kind at most.  The timer is started when the connection is
\* gone, and starts a connection when there is none.
OneOfEach ==
  /\ \A c, d \in Connections : Alive(c) /\ Alive(d) => c = d
  /\ \A t, u \in Reconnects : reconnect[t] # "none" /\ reconnect[u] # "none" => t = u
  /\ \A c \in Connections :
       start[c] \in {"connecting", "connected", "finished"} => state_ = c
  /\ \A c \in Connections, t \in Reconnects :
       reconnect[t] \in {"spawned", "claim", "reopen"} => ~Alive(c)
  /\ \A t \in Reconnects : Waiting(t) => timer_is_run
  /\ timer_is_run => \E t \in Reconnects : Waiting(t)
  /\ opens = 0 => /\ \A c \in Connections : ~Alive(c)
                  /\ \A t \in Reconnects : reconnect[t] = "none"

LEMMA OneInit == Init => OneOfEach
BY DEF Init, OneOfEach, Alive, Waiting

LEMMA OneNext ==
  ASSUME Timely
  PROVE  TypeOK /\ OneOfEach /\ [Next]_vars => OneOfEach'
<1> SUFFICES ASSUME TypeOK, OneOfEach, [Next]_vars PROVE OneOfEach'
  OBVIOUS
<1> USE ReconnectAssumption
<1>1. CASE UNCHANGED vars
  BY <1>1 DEF vars, flags, bounds, said, OneOfEach, Alive, Waiting
<1>2. ASSUME NEW c \in Connections, StartStep(c) \/ Attempt(c) \/ dropped(c)
      PROVE  OneOfEach'
  <2>1. CASE start_begins(c) \/ make_state(c)
    BY <2>1 DEF start_begins, make_state, At, Go, OneOfEach, Alive, Waiting, TypeOK,
       flags, bounds
  <2>2. CASE closed(c) \/ clear_state(c)
    BY <2>2 DEF closed, clear_state, At, Go, OneOfEach, Alive, Waiting, TypeOK, flags, bounds
  <2>3. CASE Attempt(c) \/ dropped(c)
    BY <2>3 DEF Attempt, connected, refused, dropped, At, Go, OneOfEach, Alive, Waiting,
       TypeOK, flags, bounds
  <2>4. CASE on_status_changed(c)
    <3>1. /\ start' = [start EXCEPT ![c] = "none"] /\ Alive(c) /\ start[c] = "cleared"
          /\ UNCHANGED <<state_, timer_is_run, opens>>
      BY <2>4 DEF on_status_changed, At, Go, Alive, flags, bounds
    <3>2. \A d \in Connections : ~Alive(d)'
      BY <3>1 DEF OneOfEach, Alive, TypeOK
    <3>3. CASE UNCHANGED reconnect
      BY <3>1, <3>2, <3>3 DEF OneOfEach, Alive, Waiting
    <3>4. CASE ~UNCHANGED reconnect
      <4>1. PICK t \in Reconnects :
              ~timer_is_run /\ reconnect' = [reconnect EXCEPT ![t] = "spawned"]
        BY <2>4, <3>4 DEF on_status_changed, Reconnecting, Turn
      <4>2. \A u \in Reconnects : reconnect[u] = "none"
        BY <3>1, <4>1 DEF OneOfEach, Waiting, TypeOK
      <4> QED
        BY <3>1, <3>2, <4>1, <4>2 DEF OneOfEach, Alive, Waiting, TypeOK
    <3> QED
      BY <3>3, <3>4
  <2> QED
    BY <1>2, <2>1, <2>2, <2>3, <2>4 DEF StartStep
<1>3. ASSUME NEW t \in Reconnects, ReconnectStep(t)
      PROVE  OneOfEach'
  <2>1. CASE start_reconnect(t) \/ arm(t) \/ stop(t)
    BY <2>1 DEF start_reconnect, arm, stop, Timer, Turn, OneOfEach, Alive, Waiting, TypeOK,
       flags, bounds
  <2>2. CASE check_connection(t)
    <3>1. /\ reconnect[t] = "armed" /\ UNCHANGED <<state_, timer_is_run, start, opens>>
          /\ reconnect' = [reconnect EXCEPT ![t] = IF started THEN "stop" ELSE "reopen"]
          /\ \A c \in Connections : start[c] \in {"none", "connected"}
      BY <2>2 DEF check_connection, Timer, Turn, Settled, Timely, flags, bounds
    <3>2. ~started => \A c \in Connections : ~Alive(c)
      BY <3>1 DEF started, OneOfEach, Alive
    <3> QED
      BY <3>1, <3>2 DEF OneOfEach, Alive, Waiting, TypeOK
  <2>3. CASE reopen(t)
    BY <2>3 DEF reopen, Open, Go, Timer, Turn, OneOfEach, Alive, Waiting, TypeOK, flags, bounds
  <2> QED
    BY <1>3, <2>1, <2>2, <2>3 DEF ReconnectStep
<1>4. CASE user_open
  <2>1. opens = 0 /\ opens' = 1
    BY <1>4 DEF user_open, Timely, TypeOK
  <2> QED
    BY <1>4, <2>1 DEF user_open, Open, Go, OneOfEach, Alive, Waiting, TypeOK, flags
<1>5. CASE user_close
  BY <1>5 DEF user_close, OneOfEach, Alive, Waiting, flags
<1>6. ASSUME NEW disable \in BOOLEAN, close(disable)
      PROVE  OneOfEach'
  BY <1>6 DEF close, OneOfEach, Alive, Waiting, bounds
<1> QED
  BY <1>1, <1>2, <1>3, <1>4, <1>5, <1>6 DEF Next

\* The client that its user opens once never holds two connections, though it
\* reconnects any number of times.
THEOREM Single ==
  ASSUME Timely
  PROVE  Safe => []SingleConnection
<1>1. OneOfEach => SingleConnection
  BY DEF OneOfEach, SingleConnection, Alive
<1>2. TypeOK /\ OneOfEach /\ [Next]_vars => OneOfEach'
  BY OneNext
<1> QED
  BY TypeInit, TypeNext, OneInit, <1>1, <1>2, PTL DEF Safe

\* ... and never two threads that wait on the reconnection timer.
THEOREM OneWaits ==
  ASSUME Timely
  PROVE  Safe => []OneTimer
<1>1. OneOfEach => OneTimer
  BY DEF OneOfEach, OneTimer, Waiting
<1>2. TypeOK /\ OneOfEach /\ [Next]_vars => OneOfEach'
  BY OneNext
<1> QED
  BY TypeInit, TypeNext, OneInit, <1>1, <1>2, PTL DEF Safe

-----------------------------------------------------------------------------
(* When the client gives up.                                                *)

\* Something still runs that may connect the client.
Lively ==
  \/ \E c \in Connections : Alive(c)
  \/ \E t \in Reconnects : reconnect[t] # "none"

\* A user who opened once and did not close wants to be notified.
Wants ==
  /\ wanted => opens = 1
  /\ wanted \/ opens = 0 => ~closed_by_user /\ ~disable_notify
  /\ opens = 0 => user = "idle" /\ state_ = nullptr

\* A client that its user wants connected stops trying in one place only: where
\* the timer's thread, having seen a connection that is lost meanwhile, resets
\* timer_is_run.
GivesUpAtStop == [][wanted /\ Lively /\ ~Lively' => \E t \in Reconnects : stop(t)]_vars

LEMMA WantsInit == Init => Wants
BY DEF Init, Wants

LEMMA WantsNext ==
  ASSUME Timely
  PROVE  TypeOK /\ OneOfEach /\ Wants /\ [Next]_vars => Wants'
<1> SUFFICES ASSUME TypeOK, OneOfEach, Wants, [Next]_vars PROVE Wants'
  OBVIOUS
<1>1. CASE UNCHANGED vars
  BY <1>1 DEF vars, flags, bounds, said, Wants
<1>2. ASSUME NEW c \in Connections, StartStep(c) \/ Attempt(c) \/ dropped(c)
      PROVE  Wants'
  BY <1>2 DEF StartStep, Attempt, start_begins, make_state, closed, clear_state,
     on_status_changed, connected, refused, dropped, At, flags, bounds, said, Wants,
     OneOfEach, Alive
<1>3. ASSUME NEW t \in Reconnects, ReconnectStep(t)
      PROVE  Wants'
  BY <1>3 DEF ReconnectStep, start_reconnect, arm, check_connection, reopen, stop,
     flags, bounds, said, Wants
<1>4. CASE user_open
  <2>1. opens = 0 /\ opens' = 1
    BY <1>4, ReconnectAssumption DEF user_open, Timely, TypeOK
  <2> QED
    BY <1>4, <2>1 DEF user_open, Wants, flags
<1>5. CASE user_close
  BY <1>5 DEF user_close, started, Wants, said, flags
<1>6. ASSUME NEW disable \in BOOLEAN, close(disable)
      PROVE  Wants'
  BY <1>6 DEF close, Wants, bounds
<1> QED
  BY <1>1, <1>2, <1>3, <1>4, <1>5, <1>6 DEF Next

LEMMA StopsLast ==
  TypeOK /\ OneOfEach /\ Wants /\ [Next]_vars
    => (wanted /\ Lively /\ ~Lively' => \E t \in Reconnects : stop(t))
<1> SUFFICES ASSUME TypeOK, OneOfEach, Wants, [Next]_vars, wanted, Lively, ~Lively'
             PROVE  \E t \in Reconnects : stop(t)
  OBVIOUS
<1>1. ASSUME NEW c \in Connections, on_status_changed(c) PROVE FALSE
  <2>1. ~closed_by_user /\ ~disable_notify
    BY DEF Wants
  <2>2. CASE timer_is_run
    <3>1. PICK t \in Reconnects : Waiting(t)
      BY <2>2 DEF OneOfEach
    <3>2. reconnect' = reconnect
      BY <1>1, <2>2 DEF on_status_changed, Reconnecting
    <3> QED
      BY <3>1, <3>2 DEF Lively, Waiting
  <2>3. CASE ~timer_is_run
    <3>1. PICK t \in Reconnects : Turn(t, "spawned")
      BY <1>1, <2>1, <2>3 DEF on_status_changed, Reconnecting
    <3>2. reconnect'[t] = "spawned"
      BY <3>1 DEF Turn, TypeOK
    <3> QED
      BY <3>2 DEF Lively
  <2> QED
    BY <2>2, <2>3
<1>2. ASSUME NEW c \in Connections,
             \/ start_begins(c) \/ make_state(c) \/ closed(c) \/ clear_state(c)
             \/ Attempt(c) \/ dropped(c)
      PROVE  FALSE
  <2>1. start'[c] # "none"
    BY <1>2 DEF Attempt, start_begins, make_state, closed, clear_state, connected, refused,
       dropped, Go, TypeOK
  <2> QED
    BY <2>1 DEF Lively, Alive
<1>3. ASSUME NEW t \in Reconnects, start_reconnect(t) PROVE FALSE
  <2>1. ~timer_is_run
    <3> SUFFICES ASSUME timer_is_run PROVE FALSE
      OBVIOUS
    <3>1. PICK u \in Reconnects : Waiting(u)
      BY DEF OneOfEach
    <3>2. u = t
      BY <1>3, <3>1 DEF OneOfEach, Waiting, start_reconnect, Timer
    <3> QED
      BY <1>3, <3>1, <3>2 DEF Waiting, start_reconnect, Timer
  <2>2. reconnect'[t] = "claim"
    BY <1>3, <2>1 DEF start_reconnect, Turn, TypeOK
  <2> QED
    BY <2>2 DEF Lively
<1>4. ASSUME NEW t \in Reconnects, arm(t) \/ check_connection(t) \/ reopen(t) PROVE FALSE
  <2>1. reconnect'[t] # "none"
    BY <1>4 DEF arm, check_connection, reopen, Turn, TypeOK
  <2> QED
    BY <2>1 DEF Lively
<1>5. CASE user_open \/ user_close \/ (\E disable \in BOOLEAN : close(disable)) \/ UNCHANGED vars
  <2>1. reconnect' = reconnect /\ \A c \in Connections : Alive(c) => Alive(c)'
    BY <1>5 DEF user_open, user_close, close, vars, Open, Go, Alive, TypeOK
  <2> QED
    BY <2>1 DEF Lively
<1> QED
  BY <1>1, <1>2, <1>3, <1>4, <1>5 DEF Next, StartStep, ReconnectStep

\* One open() and attempts shorter than the timer: the client goes on trying as
\* long as its user wants it, but for the race with the end of the timer.
THEOREM GivesUpOnce ==
  ASSUME Timely
  PROVE  Safe => GivesUpAtStop
<1>1. TypeOK /\ OneOfEach /\ [Next]_vars => OneOfEach'
  BY OneNext
<1>2. TypeOK /\ OneOfEach /\ Wants /\ [Next]_vars => Wants'
  BY WantsNext
<1>3. TypeOK /\ OneOfEach /\ Wants /\ [Next]_vars
        => [wanted /\ Lively /\ ~Lively' => \E t \in Reconnects : stop(t)]_vars
  BY StopsLast
<1> QED
  BY TypeInit, TypeNext, OneInit, WantsInit, <1>1, <1>2, <1>3, PTL DEF Safe, GivesUpAtStop
=============================================================================
