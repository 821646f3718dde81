----------------------------- MODULE UserMessages -----------------------------
(***************************************************************************)
(* Private and channel messages of shared_state: who a session is, whom      *)
(* forward_message() finds, what it stores in Messages and what it sends,    *)
(* and the temporary sessions of HTTP requests it meets in sessions_.        *)
(*                                                                          *)
(* The handlers of one session follow one another on its strand; each access *)
(* to the database or to the other sessions is a step.  A session does not   *)
(* leave while a handler holds a pointer to it: SessionRegistry has those    *)
(* pointers, and what is left when an exception ends the process.            *)
(***************************************************************************)
EXTENDS Integers

CONSTANTS
  Sessions,     \* websocket sessions
  Requests,     \* HTTP requests
  Users,
  UserOf,       \* the user whose name, hash and uuid the client of a session has
  InitialRows,  \* Users at the start: _id, 0 for none, and hash
  Certified,    \* users who are in CertUsers, once they are in Users
  nil,          \* the nil uuid, and no channel, user or session
  channel,      \* SHARED_CHANNEL_UUID, or a group of CertUsers
  UseAuthorization,              \* sett.UseAuthorization
  AllowIdentificationByWINSID,   \* sett.AllowIdentificationByWINSID
  AllowHistoryMessages,          \* sett.AllowHistoryMessages
  MaxMessages,  \* bound: messages sent
  MaxWrites,    \* bound: writes of a user
  MaxId,        \* bound: values of Users._id
  MaxFailures   \* bound: statements that fail

Subscribers == Sessions \cup Requests

ASSUME MessagesAssumption ==
  /\ UserOf \in [Sessions -> Users]
  /\ InitialRows \in [Users -> [id : 0..MaxId, hash : 0..2]]
  /\ \A u, v \in Users : InitialRows[u].id = InitialRows[v].id => u = v \/ InitialRows[u].id = 0
  /\ Sessions \cap Requests = {} /\ Subscribers \cap Users = {}
  /\ {nil, channel} \cap (Subscribers \cup Users) = {} /\ nil # channel
  /\ \A b \in {UseAuthorization, AllowIdentificationByWINSID,
               AllowHistoryMessages} : b \in BOOLEAN
  /\ \A n \in {MaxMessages, MaxWrites, MaxId, MaxFailures} : n \in Nat

VARIABLES
  registered,   \* the keys of sessions_
  gone,         \* sessions that have left
  self,         \* authorized_, _user_uuid and whether _user_name is not empty
  rows,         \* the table Users: _id, 0 for none, and hash
  call,         \* what the handler of each session is doing
  request,      \* how far each HTTP request is
  history,      \* the table Messages
  inbox,        \* history: the messages each session was sent
  unsaved,      \* history: messages whose insert has failed
  down,         \* an exception or a wild pointer has ended the process
  sent, writes, failures

people == <<registered, gone, self>>
tables == <<rows, history>>
bounds == <<sent, writes, failures>>
vars == <<people, tables, call, request, inbox, unsaved, down, bounds>>

-----------------------------------------------------------------------------
(* Data.                                                                    *)

Ids == 1..MaxMessages
Hashes == 1..2   \* of the password a user had at first, and later
Receivers == Sessions \cup Users \cup {nil, channel}

Person == [authorized : BOOLEAN, user : Users \cup {nil}, named : BOOLEAN]
Unknown == [authorized |-> FALSE, user |-> nil, named |-> TRUE]  \* "Unknown user"

Messages == [id : Ids \cup {0}, sender : Sessions \cup {nil},
             from : Users \cup {nil}, to : Users \cup {nil, channel}, text : BOOLEAN]
NoMessage == [id |-> 0, sender |-> nil, from |-> nil, to |-> nil, text |-> FALSE]

\* The hash of two uuids, of one, or "error".
Error == <<>>
Tokens == {Error, <<channel>>} \cup (Users \X Users)

Calls == [pc : {"idle", "verify", "sid", "info", "find", "token", "insert", "send"},
          hash : Hashes \cup {0}, to : Receivers, msg : Messages,
          token : Tokens, subs : SUBSET Subscribers]
Idle == [pc |-> "idle", hash |-> 0, to |-> nil, msg |-> NoMessage,
         token |-> Error, subs |-> {}]

InUsers(u) == u \in Users /\ rows[u].id # 0

\* A mutant of Token: the uuids are hashed in the order of the arguments.
TokenOfArguments(first, second) ==
  IF channel \in {first, second} THEN <<channel>>
  ELSE IF first # second /\ InUsers(first) /\ InUsers(second)
  THEN <<first, second>> ELSE Error

\* get_channel_token(): the two uuids in the order of their rows.
Token(first, second) ==
  IF channel \in {first, second} THEN <<channel>>
  ELSE IF first # second /\ InUsers(first) /\ InUsers(second)
  THEN IF rows[first].id < rows[second].id THEN <<first, second>> ELSE <<second, first>>
  ELSE Error

\* get_messages(), asked for the messages of sender and recipient.
get_messages(sender, recipient) ==
  {m.id : m \in {x \in history : x.token = Token(sender, recipient)}}

Init ==
  /\ registered = {} /\ gone = {}
  /\ self = [s \in Subscribers |-> Unknown]
  /\ rows = InitialRows
  /\ call = [s \in Sessions |-> Idle]
  /\ request = [r \in Requests |-> "none"]
  /\ history = {} /\ inbox = [s \in Sessions |-> {}] /\ unsaved = {}
  /\ down = FALSE /\ sent = 0 /\ writes = 0 /\ failures = 0

At(s, pc) == ~down /\ call[s].pc = pc
Goto(s, pc) == call' = [call EXCEPT ![s].pc = pc]
Return(s) == call' = [call EXCEPT ![s] = Idle]

-----------------------------------------------------------------------------
(* Sessions.                                                                *)

HasHash(u, h) == rows[u].id # 0 /\ rows[u].hash = h

\* join(), with the verdict of verify_connection() on what the upgrade carried.
join(s) ==
  /\ At(s, "idle") /\ s \notin registered \cup gone
  /\ registered' = registered \cup {s}
  /\ \E ok \in {FALSE} \cup {HasHash(UserOf[s], h) : h \in Hashes} :
       self' = [self EXCEPT ![s].authorized = ok]
  /\ UNCHANGED <<gone, tables, call, request, inbox, unsaved, down, bounds>>

\* The session is destroyed, and what it knew with it.
leave(s) ==
  /\ At(s, "idle") /\ s \in registered
  /\ \A q \in Sessions : s \notin call[q].subs
  /\ registered' = registered \ {s} /\ gone' = gone \cup {s}
  /\ self' = [self EXCEPT ![s] = Unknown]
  /\ UNCHANGED <<tables, call, request, inbox, unsaved, down, bounds>>

\* set_client_param(): the name and the uuid the client gives, then who it is.
set_client_param(s) ==
  /\ At(s, "idle") /\ s \in registered
  /\ \E hash \in Hashes \cup {0}, known \in BOOLEAN :
       /\ self' = [self EXCEPT ![s].user = IF known THEN UserOf[s] ELSE @,
                               ![s].named = @ \/ known]
       /\ IF UseAuthorization /\ ~self[s].authorized
          THEN call' = [call EXCEPT ![s].pc = IF hash = 0 THEN "sid" ELSE "verify",
                                    ![s].hash = hash]
          ELSE UNCHANGED call
  /\ UNCHANGED <<registered, gone, tables, request, inbox, unsaved, down, bounds>>

verify_auth_from_hash(s) ==
  /\ At(s, "verify")
  /\ IF HasHash(UserOf[s], call[s].hash)
     THEN self' = [self EXCEPT ![s].authorized = TRUE] /\ Goto(s, "info")
     ELSE Goto(s, "sid") /\ UNCHANGED self
  /\ UNCHANGED <<registered, gone, tables, request, inbox, unsaved, down, bounds>>

\* The name and the role of the row, but not its uuid.
verify_auth_from_sid(s) ==
  /\ At(s, "sid") /\ Return(s)
  /\ IF AllowIdentificationByWINSID /\ UserOf[s] \in Certified /\ InUsers(UserOf[s])
     THEN self' = [self EXCEPT ![s].authorized = TRUE, ![s].named = TRUE]
     ELSE UNCHANGED self
  /\ UNCHANGED <<registered, gone, tables, request, inbox, unsaved, down, bounds>>

\* get_user_info() and set_session_info(): a user whose hash has changed since
\* is not found, and the session gets an empty name and the nil uuid.
get_user_info(s) ==
  /\ At(s, "info") /\ Return(s)
  /\ self' = [self EXCEPT ![s] =
       [authorized |-> TRUE, named |-> HasHash(UserOf[s], call[s].hash),
        user |-> IF HasHash(UserOf[s], call[s].hash) THEN UserOf[s] ELSE nil]]
  /\ UNCHANGED <<registered, gone, tables, request, inbox, unsaved, down, bounds>>

Newest(id) == \A v \in Users : rows[v].id < id

Write(u, row) ==
  /\ ~down /\ rows[u].hash # row.hash
  /\ writes < MaxWrites /\ writes' = writes + 1
  /\ rows' = [rows EXCEPT ![u] = row]
  /\ UNCHANGED <<people, history, call, request, inbox, unsaved, down, sent, failures>>

\* A mutant of insert_or_update_user: the row is written anew, with a new _id.
insert_user(u, h) ==
  \E id \in 1..MaxId : Newest(id) /\ Write(u, [id |-> id, hash |-> h])

\* InsertOrUpdateUser, in one step: SyncDatabase has its statements.
insert_or_update_user(u, h) ==
  \E id \in 1..MaxId :
    /\ IF rows[u].id # 0 THEN id = rows[u].id ELSE Newest(id)
    /\ Write(u, [id |-> id, hash |-> h])

-----------------------------------------------------------------------------
(* Messages.                                                                *)

Allowed(s) == ~UseAuthorization \/ self[s].authorized

\* Temporary sessions of HTTP requests, and pointers to those of requests that
\* have ended.
Temporary == registered \cap Requests
Wild == {r \in Temporary : request[r] # "running"}

\* deliver() and the start of forward_message().
forward_message(s, to) ==
  /\ At(s, "idle") /\ s \in registered /\ Allowed(s)
  /\ sent < MaxMessages /\ sent' = sent + 1
  /\ call' = [call EXCEPT
       ![s] = [pc |-> IF to = channel THEN "token" ELSE "find", hash |-> 0, to |-> to,
               token |-> Error, subs |-> {},
               msg |-> [id |-> sent + 1, sender |-> s, from |-> self[s].user,
                        to |-> IF to = channel THEN channel ELSE nil, text |-> FALSE]]]
  /\ UNCHANGED <<people, tables, request, inbox, unsaved, down, writes, failures>>

Found(to) == IF to \in registered THEN {to} ELSE {q \in registered : self[q].user = to}

\* The name of the last one found decides whether the receiver is known.
Search(s, found) ==
  /\ \/ \E last \in found :
          IF self[last].named
          THEN call' = [call EXCEPT ![s].pc = "token", ![s].subs = found,
                                    ![s].msg.to = self[last].user]
          ELSE Return(s)
     \/ /\ found = {}
        /\ IF InUsers(call[s].to) /\ call[s].to \in Certified
           THEN call' = [call EXCEPT ![s].pc = "token", ![s].msg.to = call[s].to]
           ELSE Return(s)
  /\ UNCHANGED <<people, tables, request, inbox, unsaved, down, bounds>>

\* The session of that uuid, or those of the user; else the name of a user who
\* is away.  The sender is added for the echo, when the receivers are served.
find_receivers(s) ==
  /\ At(s, "find")
  /\ Search(s, Found(call[s].to))

\* The iteration over sessions_ meets what is not a session any more.
find_wild(s) ==
  /\ At(s, "find") /\ call[s].to \notin registered /\ Wild # {}
  /\ down' = TRUE
  /\ UNCHANGED <<people, tables, call, request, inbox, unsaved, bounds>>

\* msg_struct: from whom it is, and the token of the conversation.
get_channel_token(s) ==
  LET m == [call[s].msg EXCEPT !.from = self[s].user, !.text = TRUE]
      token == Token(m.from, m.to)
  IN /\ At(s, "token")
     /\ IF token = Error THEN Return(s)
        ELSE call' = [call EXCEPT ![s].msg = m, ![s].token = token,
                        ![s].pc = IF AllowHistoryMessages THEN "insert" ELSE "send"]
     /\ UNCHANGED <<people, tables, request, inbox, unsaved, down, bounds>>

Row(s) == LET m == call[s].msg
          IN [id |-> m.id, first |-> m.from, second |-> m.to, token |-> call[s].token]

\* A mutant of insert_message: the message is sent, and not stored.
insert_nothing(s) ==
  /\ At(s, "insert") /\ Goto(s, "send")
  /\ UNCHANGED <<people, tables, request, inbox, unsaved, down, bounds>>

insert_message(s) ==
  /\ At(s, "insert") /\ Goto(s, "send")
  /\ history' = history \cup {Row(s)}
  /\ UNCHANGED <<people, rows, request, inbox, unsaved, down, bounds>>

Put(q, m) == inbox' = IF q \in Sessions THEN [inbox EXCEPT ![q] = @ \cup {m}] ELSE inbox

\* A mutant of send_private: the sender gets no echo.
send_private_unechoed(s) ==
  LET m == call[s].msg
  IN /\ At(s, "send") /\ m.to # channel
     /\ \/ \E q \in call[s].subs :
             /\ Put(q, m) /\ call' = [call EXCEPT ![s].subs = @ \ {q}]
        \/ call[s].subs = {} /\ Return(s) /\ UNCHANGED inbox
     /\ UNCHANGED <<people, tables, request, unsaved, down, bounds>>

\* A mutant of send_private: a private text goes to all sessions, as one to the
\* channel does.
send_private_to_all(s) ==
  /\ At(s, "send") /\ call[s].msg.to # channel /\ Return(s)
  /\ inbox' = [q \in Sessions |->
       IF q \in registered THEN inbox[q] \cup {call[s].msg} ELSE inbox[q]]
  /\ UNCHANGED <<people, tables, request, unsaved, down, bounds>>

\* The receivers, and the sender last.
send_private(s) ==
  LET m == call[s].msg
  IN /\ At(s, "send") /\ m.to # channel
     /\ \/ \E q \in call[s].subs :
             /\ Put(q, m) /\ call' = [call EXCEPT ![s].subs = @ \ {q}]
             /\ down' \in IF q \in Sessions \/ request[q] = "running" THEN {FALSE} ELSE BOOLEAN
        \/ call[s].subs = {} /\ Put(s, m) /\ Return(s) /\ UNCHANGED down
     /\ UNCHANGED <<people, tables, request, unsaved, bounds>>

\* send(): every session.  A temporary session in the map is cast to what it is
\* not, which anything may follow.
send_channel(s) ==
  /\ At(s, "send") /\ call[s].msg.to = channel /\ Return(s)
  /\ inbox' = [q \in Sessions |->
       IF q \in registered THEN inbox[q] \cup {call[s].msg} ELSE inbox[q]]
  /\ down' \in IF Temporary = {} THEN {FALSE} ELSE BOOLEAN
  /\ UNCHANGED <<people, tables, request, unsaved, bounds>>

\* A statement of the handler of s fails.  Outside of every try the exception
\* ends the process; get_user_info() returns an empty user; is_channel() within
\* get_channel_token() leaves the message without its text; get_channel_token()
\* catches its own; after a failed insert the message is sent all the same.
statement_fails(s) ==
  /\ ~At(s, "idle") /\ ~At(s, "send") /\ ~down
  /\ failures < MaxFailures /\ failures' = failures + 1
  /\ \/ At(s, "find") /\ down' = TRUE /\ UNCHANGED <<self, call, unsaved>>
     \/ At(s, "verify") /\ Goto(s, "sid") /\ UNCHANGED <<self, unsaved, down>>
     \/ At(s, "sid") /\ Return(s) /\ UNCHANGED <<self, unsaved, down>>
     \/ /\ At(s, "info") /\ Return(s) /\ UNCHANGED <<unsaved, down>>
        /\ self' = [self EXCEPT ![s].user = nil, ![s].named = FALSE]
     \/ At(s, "token") /\ Goto(s, "send") /\ UNCHANGED <<self, unsaved, down>>
     \/ At(s, "token") /\ Return(s) /\ UNCHANGED <<self, unsaved, down>>
     \/ /\ At(s, "insert") /\ Goto(s, "send") /\ UNCHANGED <<self, down>>
        /\ unsaved' = unsaved \cup {call[s].msg.id}
  /\ UNCHANGED <<registered, gone, tables, request, inbox, sent, writes>>

-----------------------------------------------------------------------------
(* HTTP requests: shared_state::handle_request().                            *)

\* A mutant of begin_request: the session is registered before it is refused.
begin_request_registered(r) ==
  /\ ~down /\ request[r] = "none"
  /\ \E state \in {"answered", "running"} : request' = [request EXCEPT ![r] = state]
  /\ registered' = registered \cup {r}
  /\ UNCHANGED <<gone, self, tables, call, inbox, unsaved, down, bounds>>

\* A header of authorization that is none is refused; else the row with the
\* hash, if there is one, gives the session its name and its role, but no uuid.
begin_request(r) ==
  /\ ~down /\ request[r] = "none"
  /\ \/ /\ request' = [request EXCEPT ![r] = "answered"]
        /\ UNCHANGED registered
     \/ /\ request' = [request EXCEPT ![r] = "running"]
        /\ registered' = registered \cup {r}
  /\ UNCHANGED <<gone, self, tables, call, inbox, unsaved, down, bounds>>

\* The exception of the parser, or a sender without a session: the request is
\* answered, and its session stays in sessions_.
abandon_request(r) ==
  /\ ~down /\ request[r] = "running"
  /\ request' = [request EXCEPT ![r] = "abandoned"]
  /\ UNCHANGED <<people, tables, call, inbox, unsaved, down, bounds>>

\* The command is executed and the session erased.  The answer is what was sent
\* to that session: a command that is not known, or that was executed for the
\* session of a sender, has sent it nothing, and a null pointer is used.
\* CommandToClient is answered "OK".
end_request(r) ==
  /\ ~down /\ request[r] = "running"
  /\ request' = [request EXCEPT ![r] = "answered"]
  /\ registered' = registered \ {r}
  /\ down' \in BOOLEAN
  /\ UNCHANGED <<gone, self, tables, call, inbox, unsaved, bounds>>

-----------------------------------------------------------------------------
Handler(s) ==
  \/ join(s) \/ leave(s) \/ set_client_param(s) \/ verify_auth_from_hash(s)
  \/ verify_auth_from_sid(s) \/ get_user_info(s)
  \/ (\E to \in Receivers : forward_message(s, to))
  \/ find_receivers(s) \/ find_wild(s) \/ get_channel_token(s) \/ insert_message(s)
  \/ send_private(s) \/ send_channel(s) \/ statement_fails(s)

Next ==
  \/ \E s \in Sessions : Handler(s)
  \/ \E r \in Requests : begin_request(r) \/ abandon_request(r) \/ end_request(r)
  \/ \E u \in Users, h \in Hashes : insert_or_update_user(u, h)

Spec == Init /\ [][Next]_vars

-----------------------------------------------------------------------------
(* Properties.                                                              *)

\* Type invariant of the sessions, the tables and the handlers.
TypeOK ==
  /\ registered \subseteq Subscribers /\ gone \subseteq Sessions
  /\ self \in [Subscribers -> Person]
  /\ rows \in [Users -> [id : 0..MaxId, hash : Hashes \cup {0}]]
  /\ call \in [Sessions -> Calls]
  /\ request \in [Requests -> {"none", "running", "abandoned", "answered"}]
  /\ history \subseteq [id : Ids, first : Users \cup {nil},
                         second : Users \cup {channel}, token : Tokens]
  /\ inbox \in [Sessions -> SUBSET Messages]
  /\ unsaved \subseteq Ids /\ down \in BOOLEAN
  /\ sent \in 0..MaxMessages /\ writes \in 0..MaxWrites /\ failures \in 0..MaxFailures

\* A text that anybody has seen is in the history, unless its insert has failed:
\* storing precedes sending.
SeenIsStored ==
  AllowHistoryMessages =>
    \A s \in Sessions : \A m \in inbox[s] :
      m.text => m.id \in unsaved \/ \E row \in history : row.id = m.id

\* What is stored is found by get_messages() for ten days, whichever of the two
\* asks, also after users have been added and renamed since; and by no other pair.
FoundByBoth ==
  \A row \in history :
    \A a, b \in Users \cup {channel} :
      row.id \in get_messages(a, b) <=>
        \/ {a, b} = {row.first, row.second}
        \/ channel \in {a, b} /\ row.second = channel

\* A private text reaches sessions of the user it is addressed to, and the
\* session that has sent it, though sessions say who they are at any time.
OnlyParticipants ==
  \A s \in Sessions : \A m \in inbox[s] :
    m.text => s = m.sender \/ m.to \in {UserOf[s], channel}

\* What is stored, its sender is shown, once forward_message() has ended.
StoredIsShown ==
  \A row \in history :
    \/ \E s \in Sessions : call[s].msg.id = row.id
    \/ \E s \in Sessions : \E m \in inbox[s] : m.id = row.id /\ m.sender = s

\* The temporary session of a request that was refused, or answered after its
\* command, is not left in sessions_: only an abandoned one is.
LeftByAbandonedOnly ==
  \A r \in Requests \cap registered : request[r] \in {"running", "abandoned"}

=============================================================================
