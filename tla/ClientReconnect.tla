---------------------------- MODULE ClientReconnect ----------------------------
(***************************************************************************)
(* websocket_client: opening, closing and automatic reconnection.  open()    *)
(* runs start() in a detached thread that lives as long as its connection;   *)
(* on_status_changed(false) runs start_reconnect() in another, which tries   *)
(* again every 60 seconds.  All of them and the user's thread share the      *)
(* members of the client without a lock.                                     *)
(***************************************************************************)
EXTENDS Naturals, FiniteSets

CONSTANTS
  Connections,   \* names for the threads of start(), a bound on those alive
  Reconnects,    \* names for the threads of start_reconnect(), another
  nullptr,
  SlowAttempts,  \* a connection attempt may last longer than 60 seconds
  MaxOpens,      \* bound: open() by the user
  MaxCloses,     \* bound: close() by the user
  MaxDrops       \* bound: connections lost

ASSUME ReconnectAssumption ==
  /\ IsFiniteSet(Connections) /\ IsFiniteSet(Reconnects)
  /\ nullptr \notin Connections
  /\ SlowAttempts \in BOOLEAN
  /\ MaxOpens \in Nat /\ MaxCloses \in Nat /\ MaxDrops \in Nat

VARIABLES
  state_,          \* websocket_client::state_, named by the thread that made it
  closed_by_user, timer_is_run, disable_notify, \* members of the client
  start,           \* where each thread of start() is
  closing,         \* the session of each connection is being closed
  reconnect,       \* where each thread of start_reconnect() is
  user,            \* where the user's thread is in close()
  down,            \* a null state_ was used: the process is gone
  wanted,          \* history: the user's last word was open()
  clean,           \* history: ... or a close() of a connection, no timer running
  opens, closes, drops

flags  == <<closed_by_user, timer_is_run, disable_notify>>
bounds == <<opens, closes, drops>>
said   == <<wanted, clean>>
vars == <<state_, flags, start, closing, reconnect, user, down, said, bounds>>

Init ==
  /\ state_ = nullptr
  /\ closed_by_user = FALSE /\ timer_is_run = FALSE /\ disable_notify = FALSE
  /\ start = [c \in Connections |-> "none"]
  /\ closing = [c \in Connections |-> FALSE]
  /\ reconnect = [t \in Reconnects |-> "none"]
  /\ user = "idle" /\ down = FALSE
  /\ wanted = FALSE /\ clean = FALSE
  /\ opens = 0 /\ closes = 0 /\ drops = 0

started == state_ # nullptr

At(c, here) == ~down /\ start[c] = here
Go(c, there) == start' = [start EXCEPT ![c] = there]
Timer(t, here) == ~down /\ reconnect[t] = here
Turn(t, there) == reconnect' = [reconnect EXCEPT ![t] = there]

\* boost::thread(...).detach(): a new thread begins.
Open(c) == start[c] = "none" /\ Go(c, "spawned")

-----------------------------------------------------------------------------
(* start()                                                                  *)

start_begins(c) ==
  /\ At(c, "spawned")
  /\ closed_by_user' = FALSE
  /\ Go(c, "begun")
  /\ UNCHANGED <<state_, timer_is_run, disable_notify, closing, reconnect, user, down, said, bounds>>

make_state(c) ==
  /\ At(c, "begun")
  /\ state_' = c
  /\ Go(c, "connecting")
  /\ UNCHANGED <<flags, closing, reconnect, user, down, said, bounds>>

\* The handshake succeeds: the session is known to state_, on_connect() and
\* on_status_changed(true) run, which touch none of this.
connected(c) ==
  /\ At(c, "connecting")
  /\ Go(c, "connected")
  /\ UNCHANGED <<state_, flags, closing, reconnect, user, down, said, bounds>>

\* Resolving, connecting or a handshake fails: ioc.run() runs out of work.
refused(c) ==
  /\ At(c, "connecting")
  /\ Go(c, "finished")
  /\ UNCHANGED <<state_, flags, closing, reconnect, user, down, said, bounds>>

\* The server or the network ends the connection.
dropped(c) ==
  /\ At(c, "connected") /\ ~closing[c]
  /\ drops < MaxDrops /\ drops' = drops + 1
  /\ Go(c, "finished")
  /\ UNCHANGED <<state_, flags, closing, reconnect, user, down, said, opens, closes>>

\* async_close() completes.
closed(c) ==
  /\ At(c, "connected") /\ closing[c]
  /\ closing' = [closing EXCEPT ![c] = FALSE]
  /\ Go(c, "finished")
  /\ UNCHANGED <<state_, flags, reconnect, user, down, said, bounds>>

\* ioc.run() has returned: state_ = nullptr, whoever's it is.
clear_state(c) ==
  /\ At(c, "finished")
  /\ state_' = nullptr
  /\ Go(c, "cleared")
  /\ UNCHANGED <<flags, closing, reconnect, user, down, said, bounds>>

\* A mutant of Reconnecting: a loss is not followed up.
ReconnectingNever == FALSE

Reconnecting == ~timer_is_run /\ ~closed_by_user

\* on_status_changed(false), unless notifications are disabled; auto_reconnect_
\* is set.
on_status_changed(c) ==
  /\ At(c, "cleared")
  /\ Go(c, "none")
  /\ IF ~disable_notify /\ Reconnecting
     THEN \E t \in Reconnects : Timer(t, "none") /\ Turn(t, "spawned")
     ELSE UNCHANGED reconnect
  /\ UNCHANGED <<state_, flags, closing, user, down, said, bounds>>

-----------------------------------------------------------------------------
(* start_reconnect() and check_connection()                                 *)

start_reconnect(t) ==
  /\ Timer(t, "spawned")
  /\ Turn(t, IF timer_is_run THEN "none" ELSE "claim")
  /\ UNCHANGED <<state_, flags, start, closing, user, down, said, bounds>>

\* A mutant of arm: is_run is not set.
arm_unmarked(t) ==
  /\ Timer(t, "claim")
  /\ Turn(t, "armed")
  /\ UNCHANGED <<state_, flags, start, closing, user, down, said, bounds>>

arm(t) ==
  /\ Timer(t, "claim")
  /\ timer_is_run' = TRUE
  /\ Turn(t, "armed")
  /\ UNCHANGED <<state_, closed_by_user, disable_notify, start, closing, user, down, said, bounds>>

\* 60 seconds after the last event a thread of start() has begun; unless
\* attempts are slow it has connected, or given up and returned.
Settled(c) == \/ start[c] \in {"none", "connected"}
              \/ SlowAttempts /\ start[c] \notin {"spawned", "begun"}

\* A mutant of check_connection: started() is not asked.
check_connection_blindly(t) ==
  /\ Timer(t, "armed")
  /\ \A c \in Connections : Settled(c)
  /\ Turn(t, "reopen")
  /\ UNCHANGED <<state_, flags, start, closing, user, down, said, bounds>>

\* The timer expires: started() decides.
check_connection(t) ==
  /\ Timer(t, "armed")
  /\ \A c \in Connections : Settled(c)
  /\ Turn(t, IF started THEN "stop" ELSE "reopen")
  /\ UNCHANGED <<state_, flags, start, closing, user, down, said, bounds>>

\* The timer is armed again and open() is called.
reopen(t) ==
  /\ Timer(t, "reopen")
  /\ \E c \in Connections : Open(c)
  /\ Turn(t, "armed")
  /\ UNCHANGED <<state_, flags, closing, user, down, said, bounds>>

\* ioc_parent.run() has returned.
stop(t) ==
  /\ Timer(t, "stop")
  /\ timer_is_run' = FALSE
  /\ Turn(t, "none")
  /\ UNCHANGED <<state_, closed_by_user, disable_notify, start, closing, user, down, said, bounds>>

-----------------------------------------------------------------------------
(* The user: WebCore::open() and WebCore::close() of the add-in.            *)

user_open ==
  /\ ~down /\ user = "idle" /\ opens < MaxOpens
  /\ ~started
  /\ opens' = opens + 1
  /\ wanted' = TRUE /\ clean' = FALSE
  /\ \E c \in Connections : Open(c)
  /\ UNCHANGED <<state_, flags, closing, reconnect, user, down, closes, drops>>

user_close ==
  /\ ~down /\ user = "idle" /\ closes < MaxCloses
  /\ started
  /\ closes' = closes + 1
  /\ user' = "close"
  /\ UNCHANGED <<state_, flags, start, closing, reconnect, down, said, opens, drops>>

\* The connection of state_ is up, and nothing else runs.
OnlyConnected ==
  /\ started /\ ~timer_is_run /\ start[state_] = "connected"
  /\ \A c \in Connections : c # state_ => start[c] = "none"
  /\ \A t \in Reconnects : reconnect[t] = "none"

\* A mutant of close: closed_by_user is not set.
close_unmarked(disable) ==
  /\ ~down /\ user = "close"
  /\ user' = "idle"
  /\ wanted' = FALSE
  /\ clean' = OnlyConnected
  /\ disable_notify' = disable
  /\ IF ~started THEN down' = TRUE /\ UNCHANGED closing
     ELSE /\ UNCHANGED down
          /\ closing' = [closing EXCEPT ![state_] = start[state_] = "connected"]
  /\ UNCHANGED <<state_, closed_by_user, timer_is_run, start, reconnect, bounds>>

\* A mutant of close: the session's started_ is not tested.
close_unconnected(disable) ==
  /\ ~down /\ user = "close"
  /\ user' = "idle"
  /\ wanted' = FALSE /\ clean' = FALSE
  /\ disable_notify' = disable /\ closed_by_user' = TRUE
  /\ IF ~started THEN down' = TRUE /\ UNCHANGED closing
     ELSE /\ UNCHANGED down
          /\ closing' = [closing EXCEPT ![state_] = TRUE]
  /\ UNCHANGED <<state_, timer_is_run, start, reconnect, bounds>>

\* close() past its test of state_: the flags, then state_->close(), which
\* does nothing before the session has connected.
close(disable) ==
  /\ ~down /\ user = "close"
  /\ user' = "idle"
  /\ wanted' = FALSE
  /\ clean' = OnlyConnected
  /\ disable_notify' = disable /\ closed_by_user' = TRUE
  /\ IF ~started THEN down' = TRUE /\ UNCHANGED closing
     ELSE /\ UNCHANGED down
          /\ closing' = [closing EXCEPT ![state_] = start[state_] = "connected"]
  /\ UNCHANGED <<state_, timer_is_run, start, reconnect, bounds>>

-----------------------------------------------------------------------------
\* What the thread of c does by itself.
StartStep(c) ==
  start_begins(c) \/ make_state(c) \/ closed(c) \/ clear_state(c) \/ on_status_changed(c)

ReconnectStep(t) ==
  start_reconnect(t) \/ arm(t) \/ check_connection(t) \/ reopen(t) \/ stop(t)

Attempt(c) == connected(c) \/ refused(c)

Next ==
  \/ \E c \in Connections : StartStep(c) \/ Attempt(c) \/ dropped(c)
  \/ \E t \in Reconnects : ReconnectStep(t)
  \/ user_open \/ user_close \/ \E disable \in BOOLEAN : close(disable)

\* Threads run, timers expire, an attempt comes to an end, and close() returns.
\* A server that accepts connections again and again accepts one of ours.
Fairness ==
  /\ \A c \in Connections :
       WF_vars(StartStep(c)) /\ WF_vars(Attempt(c)) /\ SF_vars(connected(c))
  /\ \A t \in Reconnects : WF_vars(ReconnectStep(t))
  /\ WF_vars(\E disable \in BOOLEAN : close(disable))

Safe == Init /\ [][Next]_vars
Spec == Safe /\ Fairness

-----------------------------------------------------------------------------
TypeOK ==
  /\ state_ \in Connections \cup {nullptr}
  /\ closed_by_user \in BOOLEAN /\ timer_is_run \in BOOLEAN /\ disable_notify \in BOOLEAN
  /\ start \in [Connections -> {"none", "spawned", "begun", "connecting",
                                "connected", "finished", "cleared"}]
  /\ closing \in [Connections -> BOOLEAN]
  /\ \A c \in Connections : closing[c] => start[c] = "connected"
  /\ reconnect \in [Reconnects -> {"none", "spawned", "claim", "armed", "reopen", "stop"}]
  /\ user \in {"idle", "close"} /\ down \in BOOLEAN
  /\ wanted \in BOOLEAN /\ clean \in BOOLEAN
  /\ opens \in 0..MaxOpens /\ closes \in 0..MaxCloses /\ drops \in 0..MaxDrops

\* The client holds at most one connection: "the client is already running".
SingleConnection ==
  \A c, d \in Connections :
    start[c] \in {"connecting", "connected"} /\ start[d] \in {"connecting", "connected"}
      => c = d

\* At most one thread waits on the reconnection timer, and timer_is_run, which
\* on_status_changed() goes by, is set while it does.
OneTimer ==
  \A t, u \in Reconnects :
    /\ reconnect[t] \in {"armed", "reopen"} /\ reconnect[u] \in {"armed", "reopen"} => t = u
    /\ reconnect[t] \in {"armed", "reopen"} => timer_is_run

\* The end of an attempt or of a connection is followed up until the client is
\* connected again or closed by the user, unless it falls in the moment in which
\* the timer's thread, having seen the connection, is about to reset
\* timer_is_run: then nobody repairs it.
LossIsRepaired ==
  (/\ wanted
   /\ \E c \in Connections : start[c] = "finished"
   /\ \A t \in Reconnects : reconnect[t] # "stop")
    ~> (~wanted \/ \E c \in Connections : start[c] = "connected")

Opened(c) == start[c] = "none" /\ start'[c] = "spawned"

\* A user's close() of an established connection, when nothing else runs, is
\* final: only the user's next open() starts a thread that connects.
CleanCloseIsFinal ==
  [][\A c \in Connections : clean /\ Opened(c) => wanted']_vars

\* "Do not start the timer if the socket is closed by the user": what the
\* timer does, it does for a user who wants to be connected.
ClosedStaysClosed ==
  [][\A c \in Connections : Opened(c) => wanted']_vars
=============================================================================
