---------------------------- MODULE SessionRegistry ----------------------------
(***************************************************************************)
(* The websocket sessions of the server and shared_state::sessions_, the map *)
(* of raw pointers through which they reach each other.                      *)
(*                                                                          *)
(* A pool of threads runs the handlers.  The handlers of one session share a *)
(* strand, so they never overlap; those of two sessions do.  A session lives *)
(* as long as something refers to it: an outstanding operation, a posted     *)
(* message, a running handler or a pointer a broadcast has locked.  Its      *)
(* destructor runs in whichever thread drops the last reference.             *)
(*                                                                          *)
(* What a thread has left to do is a sequence of operations, and each access *)
(* to sessions_ is a step of its own.                                        *)
(***************************************************************************)
EXTENDS Naturals, FiniteSets, SequencesExt

CONSTANTS
  Sessions,           \* the websocket sessions that may be created
  Threads,            \* the threads that call ioc.run()
  nil_uuid,           \* what uuid_session() is until on_accept()
  UseAuthorization,   \* sett.UseAuthorization
  AllowDelayedAuthorization, \* sett.AllowDelayedAuthorization
  MaxTexts,           \* bound: broadcast or rejected messages
  MaxPrivate,         \* bound: private messages
  MaxParams           \* bound: SetClientParam commands

ASSUME RegistryAssumption ==
  /\ IsFiniteSet(Sessions) /\ nil_uuid \notin Sessions
  /\ Threads # {}
  /\ UseAuthorization \in BOOLEAN /\ AllowDelayedAuthorization \in BOOLEAN
  /\ MaxTexts \in Nat /\ MaxPrivate \in Nat /\ MaxParams \in Nat

VARIABLES
  registered,  \* the keys of sessions_
  phase,       \* "none", "live" from construction on, "gone" once destroyed
  uuid,        \* uuid_session() of each session
  authorized_, \* subscriber::authorized_
  pending,     \* outstanding operations of each session
  posts,       \* on_send() handlers posted to each session's strand
  link,        \* the connection of each session is up
  told,        \* history: joins and leaves posted to each session, in order
  todo,        \* what each thread has left to do, the next operation first
  down,        \* an exception has escaped ioc.run(): the process is terminated
  texts, privates, params  \* messages received so far, for the bounds

bounds == <<texts, privates, params>>
object == <<phase, uuid, authorized_>>
vars == <<registered, object, pending, posts, link, told, todo, down, bounds>>

Operations == {"accept", "read", "wait", "close"}

Join(s)  == [kind |-> "join", of |-> s]
Leave(s) == [kind |-> "leave", of |-> uuid[s]]
Text     == [kind |-> "text", of |-> nil_uuid]
Notices  == {Text} \cup [kind : {"join", "leave"}, of : Sessions \cup {nil_uuid}]

\* Operations on a session, and those that carry a notice to a session or to
\* every session but `s'.
Do(op, s) == [op |-> op, s |-> s]
Say(op, s, m) == [op |-> op, s |-> s, m |-> m]

Init ==
  /\ registered = {} /\ down = FALSE
  /\ phase = [s \in Sessions |-> "none"]
  /\ uuid = [s \in Sessions |-> nil_uuid]
  /\ authorized_ = [s \in Sessions |-> FALSE]
  /\ pending = [s \in Sessions |-> [o \in Operations |-> 0]]
  /\ posts = [s \in Sessions |-> 0]
  /\ link = [s \in Sessions |-> FALSE]
  /\ told = [s \in Sessions |-> <<>>]
  /\ todo = [th \in Threads |-> <<>>]
  /\ texts = 0 /\ privates = 0 /\ params = 0

-----------------------------------------------------------------------------
(* Programs.                                                                *)

\* A mutant of Arrival: the handler keeps no reference while it notifies.
ArrivalUnreferenced(s) ==
  <<Do("insert", s), Do("listen", s), Do("end", s), Say("notify", s, Join(s))>>

\* on_accept(): join(), its notification, the dead line, the first read.
Arrival(s) ==
  <<Do("insert", s)>>
    \o (IF UseAuthorization THEN <<Say("notify", s, Join(s))>> ELSE <<>>)
    \o <<Do("listen", s), Do("end", s)>>

\* A mutant of Departure: only the leave of an authorized session is announced.
DepartureIfAuthorized(s) ==
  <<Do("erase", s)>>
    \o (IF authorized_[s] THEN <<Say("notify", nil_uuid, Leave(s))>> ELSE <<>>)
    \o <<Do("freed", s)>>

\* ~websocket_session(): leave() and its notification, then the object is gone.
Departure(s) ==
  <<Do("erase", s), Say("notify", nil_uuid, Leave(s)), Do("freed", s)>>

\* The rest of on_read() after deliver().
Again(s) == <<Do("read", s), Do("end", s)>>

Held(s, work) ==
  \E th \in Threads : \E i \in 1..Len(work[th]) :
    work[th][i] \in {Do("end", s), Do("drop", s)}

\* Something refers to s, so that its weak pointer can be locked.
Referenced(s) ==
  \/ \E o \in Operations : pending[s][o] > 0
  \/ posts[s] > 0
  \/ Held(s, todo)

\* A handler of s is running: its strand is taken.
Running(s) ==
  \E th \in Threads : \E i \in 1..Len(todo[th]) : todo[th][i] = Do("end", s)

Idle(th) == ~down /\ todo[th] = <<>>

\* Thread th is at operation op of session s.
At(th, op, s) == ~down /\ todo[th] # <<>> /\ Head(todo[th]).op = op
                   /\ Head(todo[th]).s = s

\* Thread th goes on with `first' and then what it had left.
Continue(th, first) == todo' = [todo EXCEPT ![th] = first \o Tail(@)]

Run(th, program) == todo' = [todo EXCEPT ![th] = program]

Expect(s, o) == pending' = [pending EXCEPT ![s][o] = @ + 1]
Complete(s, o) == pending[s][o] > 0 /\ pending' = [pending EXCEPT ![s][o] = @ - 1]

-----------------------------------------------------------------------------
(* Operations of a thread.                                                  *)

\* A mutant of insert: join() before set_uuid_session(), so that the key is nil.
insert_before_uuid(th, s) ==
  /\ At(th, "insert", s)
  /\ registered' = IF registered = {} THEN {s} ELSE registered
  /\ uuid' = [uuid EXCEPT ![s] = s]
  /\ Continue(th, <<>>)
  /\ UNCHANGED <<phase, authorized_, pending, posts, link, told, down, bounds>>

\* set_uuid_session() and sessions_.insert().
insert(th, s) ==
  /\ At(th, "insert", s)
  /\ uuid' = [uuid EXCEPT ![s] = s]
  /\ registered' = registered \cup {s}
  /\ Continue(th, <<>>)
  /\ UNCHANGED <<phase, authorized_, pending, posts, link, told, down, bounds>>

\* A mutant of erase: the entry stays.
erase_nothing(th, s) ==
  /\ At(th, "erase", s)
  /\ Continue(th, <<>>)
  /\ UNCHANGED <<registered, object, pending, posts, link, told, down, bounds>>

\* leave(): sessions_.find() and erase(), a session that never joined has none.
erase(th, s) ==
  /\ At(th, "erase", s)
  /\ registered' = registered \ {s}
  /\ Continue(th, <<>>)
  /\ UNCHANGED <<object, pending, posts, link, told, down, bounds>>

\* The destructor is over.
freed(th, s) ==
  /\ At(th, "freed", s)
  /\ phase' = [phase EXCEPT ![s] = "gone"]
  /\ Continue(th, <<>>)
  /\ UNCHANGED <<registered, uuid, authorized_, pending, posts, link, told, down, bounds>>

\* send<T>(): under mutex_, weak pointers to all registered sessions but one.
notify(th, skip) ==
  /\ At(th, "notify", skip)
  /\ \E order \in SetToSeqs(registered \ {skip}) :
       Continue(th, [i \in DOMAIN order |-> Say("post", order[i], Head(todo[th]).m)])
  /\ UNCHANGED <<registered, object, pending, posts, link, told, down, bounds>>

Post(s, m) ==
  /\ posts' = [posts EXCEPT ![s] = @ + 1]
  /\ told' = IF m.kind = "text" THEN told ELSE [told EXCEPT ![s] = Append(@, m)]

\* send<T>() again: lock the weak pointer, and post unless s is being destroyed.
post(th, s) ==
  /\ At(th, "post", s)
  /\ IF Referenced(s)
     THEN Post(s, Head(todo[th]).m) /\ Continue(th, <<Do("drop", s)>>)
     ELSE Continue(th, <<>>) /\ UNCHANGED <<posts, told>>
  /\ UNCHANGED <<registered, object, pending, link, down, bounds>>

\* A mutant of listen: the dead line is not armed.
listen_without_deadline(th, s) ==
  /\ At(th, "listen", s)
  /\ Expect(s, "read")
  /\ Continue(th, <<>>)
  /\ UNCHANGED <<registered, object, posts, link, told, down, bounds>>

\* on_accept(): the 60 s dead line of an unauthorized session, and do_read().
listen(th, s) ==
  /\ At(th, "listen", s)
  /\ LET deadline == UseAuthorization /\ ~authorized_[s] /\ AllowDelayedAuthorization
     IN  pending' = [pending EXCEPT ![s]["read"] = @ + 1,
                                    ![s]["wait"] = IF deadline THEN @ + 1 ELSE @]
  /\ Continue(th, <<>>)
  /\ UNCHANGED <<registered, object, posts, link, told, down, bounds>>

\* do_read() at the end of on_read().
read(th, s) ==
  /\ At(th, "read", s)
  /\ Expect(s, "read")
  /\ Continue(th, <<>>)
  /\ UNCHANGED <<registered, object, posts, link, told, down, bounds>>

\* A handler or a locked pointer is over.  The last reference runs the
\* destructor, on the spot.
release(th, s) ==
  /\ At(th, "end", s) \/ At(th, "drop", s)
  /\ LET rest == [todo EXCEPT ![th] = Tail(@)]
         last == /\ \A o \in Operations : pending[s][o] = 0
                 /\ posts[s] = 0 /\ ~Held(s, rest)
     IN  Continue(th, IF last THEN Departure(s) ELSE <<>>)
  /\ UNCHANGED <<registered, object, pending, posts, link, told, down, bounds>>

\* forward_message(): find the receiver's sessions (none, when only the database
\* knows it) and keep raw pointers to them and to the sender, while the message
\* is written to the database.  An unknown receiver ends it.
search(th, s) ==
  /\ At(th, "search", s)
  /\ \/ \E found \in SUBSET registered : \E order \in SetToSeqs(found) :
          Continue(th, [i \in DOMAIN order |-> Do("raw", order[i])] \o <<Do("raw", s)>>)
     \/ Continue(th, <<>>)
  /\ UNCHANGED <<registered, object, pending, posts, link, told, down, bounds>>

\* itr->send(ss): shared_from_this() throws when r is being destroyed, which
\* nobody catches; when r is freed anything may happen, that too.
raw(th, r) ==
  /\ At(th, "raw", r)
  /\ IF Referenced(r)
     THEN Post(r, Text) /\ UNCHANGED down
     ELSE /\ down' = TRUE \/ (phase[r] = "gone" /\ down' = down)
          /\ UNCHANGED <<posts, told>>
  /\ Continue(th, <<>>)
  /\ UNCHANGED <<registered, object, pending, link, bounds>>

\* SetClientParam with good credentials: set_authorized(true).  The pending
\* wait is cancelled, and completes like an expired one.
authorize(th, s) ==
  /\ At(th, "authorize", s)
  /\ authorized_' = [authorized_ EXCEPT ![s] = TRUE]
  /\ Continue(th, <<>>)
  /\ UNCHANGED <<registered, phase, uuid, pending, posts, link, told, down, bounds>>

\* SetClientParam otherwise: the session is looked up and nothing is checked, or
\* the authorization fails.
look_up(th, s) ==
  /\ At(th, "look_up", s)
  /\ Continue(th, <<>>)
  /\ UNCHANGED <<registered, object, pending, posts, link, told, down, bounds>>

-----------------------------------------------------------------------------
(* Handlers that start on an idle thread.                                   *)

\* make_websocket_session(), with the verdict of verify_connection(); run()
\* rejects the session or starts the handshake.
make_websocket_session(th, s, ok) ==
  /\ Idle(th) /\ phase[s] = "none"
  /\ phase' = [phase EXCEPT ![s] = "live"]
  /\ authorized_' = [authorized_ EXCEPT ![s] = ok]
  /\ link' = [link EXCEPT ![s] = TRUE]
  /\ IF UseAuthorization /\ ~AllowDelayedAuthorization /\ ~ok
     THEN UNCHANGED pending ELSE Expect(s, "accept")
  /\ Run(th, <<Do("drop", s)>>)
  /\ UNCHANGED <<registered, uuid, posts, told, down, bounds>>

on_accept(th, s) ==
  /\ Idle(th) /\ ~Running(s)
  /\ Complete(s, "accept")
  /\ \/ link[s] /\ Run(th, Arrival(s))
     \/ ~link[s] /\ Run(th, <<Do("end", s)>>)
  /\ UNCHANGED <<registered, object, posts, link, told, down, bounds>>

Allowed(s) == authorized_[s] \/ ~UseAuthorization

\* A message that is neither a command nor a private one is sent to everybody;
\* from an unauthorized session it is dropped.
on_text(th, s) ==
  /\ Idle(th) /\ ~Running(s) /\ link[s]
  /\ texts < MaxTexts /\ texts' = texts + 1
  /\ Complete(s, "read")
  /\ Run(th, (IF Allowed(s) THEN <<Say("notify", nil_uuid, Text)>> ELSE <<>>) \o Again(s))
  /\ UNCHANGED <<registered, object, posts, link, told, down, privates, params>>

on_private(th, s) ==
  /\ Idle(th) /\ ~Running(s) /\ link[s] /\ Allowed(s)
  /\ privates < MaxPrivate /\ privates' = privates + 1
  /\ Complete(s, "read")
  /\ Run(th, <<Do("search", s)>> \o Again(s))
  /\ UNCHANGED <<registered, object, posts, link, told, down, texts, params>>

\* SetClientParam, the one command an unauthorized session may send: the
\* answer is sent to the session itself.
on_client_param(th, s, good) ==
  /\ Idle(th) /\ ~Running(s) /\ link[s]
  /\ params < MaxParams /\ params' = params + 1
  /\ Complete(s, "read")
  /\ Run(th, <<Do(IF good /\ ~Allowed(s) THEN "authorize" ELSE "look_up", s),
               Do("raw", s)>> \o Again(s))
  /\ UNCHANGED <<registered, object, posts, link, told, down, texts, privates>>

\* end of file, error or closed: on_read() returns without reading again.
on_read_failed(th, s) ==
  /\ Idle(th) /\ ~Running(s) /\ ~link[s]
  /\ Complete(s, "read")
  /\ Run(th, <<Do("end", s)>>)
  /\ UNCHANGED <<registered, object, posts, link, told, down, bounds>>

\* A mutant of check_dead_line: it sleeps again after async_close().
check_dead_line_forever(th, s) ==
  /\ Idle(th) /\ ~Running(s)
  /\ pending[s]["wait"] > 0
  /\ pending' = [pending EXCEPT ![s]["close"] = IF authorized_[s] THEN @ ELSE 1,
                                ![s]["wait"] = IF authorized_[s] THEN 0 ELSE @]
  /\ Run(th, <<Do("end", s)>>)
  /\ UNCHANGED <<registered, object, posts, link, told, down, bounds>>

\* A mutant of check_dead_line: another async_close each time.
check_dead_line_recloses(th, s) ==
  /\ Idle(th) /\ ~Running(s)
  /\ pending[s]["wait"] > 0 /\ pending[s]["close"] < 2
  /\ pending' = [pending EXCEPT ![s]["close"] = IF authorized_[s] THEN @ ELSE @ + 1,
                                ![s]["wait"] = IF authorized_[s] THEN 0 ELSE @]
  /\ Run(th, <<Do("end", s)>>)
  /\ UNCHANGED <<registered, object, posts, link, told, down, bounds>>

\* The dead line has expired or was cancelled by the authorization.
check_dead_line(th, s) ==
  /\ Idle(th) /\ ~Running(s)
  /\ pending[s]["wait"] > 0
  /\ pending' = [pending EXCEPT ![s]["wait"] = @ - 1,
                                ![s]["close"] = IF authorized_[s] THEN @ ELSE @ + 1]
  /\ Run(th, <<Do("end", s)>>)
  /\ UNCHANGED <<registered, object, posts, link, told, down, bounds>>

\* The closing handshake is over, or the websocket timeout has ended it.
on_close(th, s) ==
  /\ Idle(th) /\ ~Running(s)
  /\ Complete(s, "close")
  /\ link' = [link EXCEPT ![s] = FALSE]
  /\ Run(th, <<Do("end", s)>>)
  /\ UNCHANGED <<registered, object, posts, told, down, bounds>>

\* on_send() and the writing of the message, which keeps the same reference.
on_send(th, s) ==
  /\ Idle(th) /\ ~Running(s)
  /\ posts[s] > 0
  /\ posts' = [posts EXCEPT ![s] = @ - 1]
  /\ Run(th, <<Do("end", s)>>)
  /\ UNCHANGED <<registered, object, pending, link, told, down, bounds>>

\* The client goes away.
disconnect(s) ==
  /\ ~down /\ link[s]
  /\ link' = [link EXCEPT ![s] = FALSE]
  /\ UNCHANGED <<registered, object, pending, posts, told, todo, down, bounds>>

-----------------------------------------------------------------------------
Step(th) ==
  \/ \E s \in Sessions :
       \/ insert(th, s) \/ erase(th, s) \/ freed(th, s) \/ post(th, s)
       \/ listen(th, s) \/ read(th, s) \/ release(th, s)
       \/ search(th, s) \/ raw(th, s) \/ authorize(th, s) \/ look_up(th, s)
  \/ \E s \in Sessions \cup {nil_uuid} : notify(th, s)

\* Completions the I/O service owes to session s, whatever its client does.
Due(s) == \E th \in Threads :
  \/ on_accept(th, s) \/ on_read_failed(th, s) \/ check_dead_line(th, s)
  \/ on_close(th, s) \/ on_send(th, s)

Client(s) ==
  \/ disconnect(s)
  \/ \E th \in Threads : \/ \E ok \in BOOLEAN : make_websocket_session(th, s, ok)
                         \/ on_text(th, s) \/ on_private(th, s)
                         \/ \E good \in BOOLEAN : on_client_param(th, s, good)

Next ==
  \/ \E th \in Threads : Step(th)
  \/ \E s \in Sessions : Due(s) \/ Client(s)

\* Threads run the handlers they have started, and what has completed is given
\* to a thread in the end.  Clients owe nothing.
Fairness ==
  /\ \A th \in Threads : WF_vars(Step(th))
  /\ \A s \in Sessions : WF_vars(Due(s))

Safe == Init /\ [][Next]_vars
Spec == Safe /\ Fairness

-----------------------------------------------------------------------------
Ops == [op : {"insert", "erase", "freed", "listen", "read", "end", "drop",
              "search", "raw", "authorize", "look_up"}, s : Sessions]
         \cup [op : {"notify", "post"}, s : Sessions \cup {nil_uuid}, m : Notices]

TypeOK ==
  /\ registered \subseteq Sessions
  /\ phase \in [Sessions -> {"none", "live", "gone"}]
  /\ \A s \in Sessions : uuid[s] \in {s, nil_uuid}
  /\ authorized_ \in [Sessions -> BOOLEAN] /\ link \in [Sessions -> BOOLEAN]
  /\ pending \in [Sessions -> [Operations -> 0..1]]
  /\ posts \in [Sessions -> Nat]
  /\ told \in [Sessions -> Seq(Notices)]
  /\ todo \in [Threads -> Seq(Ops)]
  /\ down \in BOOLEAN
  /\ texts \in 0..MaxTexts /\ privates \in 0..MaxPrivate /\ params \in 0..MaxParams

Doing(s, op) == \E th \in Threads : \E i \in 1..Len(todo[th]) :
                  todo[th][i].op = op /\ todo[th][i].s = s

\* sessions_ holds raw pointers: none of them is to a destroyed session.
RegisteredIsAlive == \A s \in registered : phase[s] = "live"

\* A session that has joined stays reachable until its destructor runs,
\* whoever joins or leaves meanwhile.
JoinedIsRegistered ==
  \A s \in Sessions :
    uuid[s] # nil_uuid /\ phase[s] = "live"
      => s \in registered \/ (Doing(s, "freed") /\ ~Referenced(s))

\* No session is told that s has left before it is told that s has joined,
\* and it is told each at most once.
LeaveAfterJoin ==
  \A r, s \in Sessions : \A i, j \in 1..Len(told[r]) :
    /\ told[r][i] = Join(s) /\ told[r][j] = [kind |-> "leave", of |-> s] => i < j
    /\ told[r][i].of = s /\ told[r][i] = told[r][j] => i = j

\* Whoever was told that s has joined, and is still there when s is gone, has
\* been told that s has left.
LeaveIsTold ==
  \A r, s \in Sessions :
    (phase[s] = "gone" /\ Referenced(r) /\ \E i \in 1..Len(told[r]) : told[r][i] = Join(s))
      => \E i \in 1..Len(told[r]) : told[r][i] = [kind |-> "leave", of |-> s]

\* A session whose connection is lost is destroyed in the end: nothing, the
\* dead line included, refers to it for ever, unless the process is terminated.
LostIsDestroyed ==
  \A s \in Sessions : (phase[s] = "live" /\ ~link[s]) ~> (phase[s] = "gone" \/ down)

\* A session that joined without authorization gets it or is closed.
DeadLineEnforced ==
  UseAuthorization =>
    \A s \in Sessions :
      (s \in registered /\ ~authorized_[s])
        ~> (authorized_[s] \/ s \notin registered \/ down)
=============================================================================
