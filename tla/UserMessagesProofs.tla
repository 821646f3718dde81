-------------------------- MODULE UserMessagesProofs --------------------------
(***************************************************************************)
(* For any sessions, requests and users, and any number of messages, writes  *)
(* and failures: what is seen is stored, what is stored is found by the two  *)
(* it is between and is shown to its sender, a private text stays between    *)
(* them, and no temporary session is left but that of an abandoned request.  *)
(***************************************************************************)
EXTENDS UserMessages, Sequences, TLAPS

-----------------------------------------------------------------------------
(* The inductive invariant.                                                 *)

\* A session says no other user than its client's, and a temporary one none.
Identity ==
  /\ \A s \in Sessions : self[s].user \in {nil, UserOf[s]}
  /\ \A r \in Requests : self[r] = Unknown

\* _id of Users is UNIQUE.
UniqueIds ==
  \A u, v \in Users : rows[u].id = rows[v].id => u = v \/ rows[u].id = 0

Delivering == {"find", "token", "insert", "send"}

InHistory(id) == \E row \in history : row.id = id

\* What the handler of a session holds of its message.
Handled(s) ==
  LET m == call[s].msg
      pc == call[s].pc
  IN /\ pc \in Delivering =>
          s \in registered /\ m.sender = s /\ m.id \in 1..sent /\ m.from # channel
     /\ pc \notin Delivering => m = NoMessage /\ call[s].subs = {}
     /\ pc = "find" => call[s].subs = {}
     /\ pc \in {"find", "token", "insert"} => ~InHistory(m.id)
     /\ pc \in {"find", "token"} => ~m.text
     /\ pc = "insert" =>
          /\ m.text /\ m.to # nil
          /\ call[s].token = Token(m.from, m.to) /\ call[s].token # Error
     /\ pc = "send" /\ m.text /\ AllowHistoryMessages =>
          m.id \in unsaved \/ InHistory(m.id)
     /\ m.text => m.to # nil
     /\ \A q \in call[s].subs \cap Sessions : m.to \in {nil, UserOf[q]}

OwnMessages ==
  \A s, q \in Sessions : call[s].msg.id = call[q].msg.id => s = q \/ call[s].msg.id = 0

\* A row keeps the token it was stored with.
Rows ==
  /\ \A row \in history :
       row.id \in 1..sent /\ row.token = Token(row.first, row.second) /\ row.token # Error
  /\ \A x, y \in history : x.id = y.id => x = y

IInv ==
  /\ TypeOK /\ Identity /\ UniqueIds
  /\ \A s \in Sessions : Handled(s)
  /\ OwnMessages /\ Rows
  /\ SeenIsStored /\ OnlyParticipants /\ StoredIsShown /\ LeftByAbandonedOnly

-----------------------------------------------------------------------------
(* Tokens.                                                                  *)

IdsKept == \A v \in Users : rows[v].id # 0 => rows'[v].id = rows[v].id

LEMMA Apart == nil # channel /\ nil \notin Users /\ channel \notin Users
BY MessagesAssumption DEF Subscribers

LEMMA TokenIsToken ==
  ASSUME NEW a, NEW b
  PROVE  Token(a, b) \in Tokens
BY DEF Token, Tokens, InUsers

\* There is no conversation with nobody.
LEMMA TokenOfNil ==
  ASSUME NEW a \in Users \cup {nil}, Token(a, nil) # Error
  PROVE  FALSE
BY Apart DEF Token, InUsers

LEMMA TokenKept ==
  ASSUME TypeOK, IdsKept, NEW a, NEW b, Token(a, b) # Error
  PROVE  Token(a, b)' = Token(a, b)
BY DEF Token, InUsers, IdsKept, TypeOK

-----------------------------------------------------------------------------
(* Handlers.                                                                *)

\* A handler that does nothing keeps what it holds.
LEMMA HandledKept ==
  ASSUME TypeOK, NEW q \in Sessions, Handled(q), IdsKept,
         call'[q] = call[q],
         q \in registered => q \in registered',
         sent' \in Nat, sent <= sent', unsaved \subseteq unsaved',
         history \subseteq history',
         \A row \in history' \ history : row.id = call[q].msg.id => call[q].pc = "send"
  PROVE  Handled(q)'
<1> DEFINE m == call[q].msg
           pc == call[q].pc
<1>1. InHistory(m.id) => InHistory(m.id)'
  BY DEF InHistory
<1>2. pc # "send" /\ InHistory(m.id)' => InHistory(m.id)
  BY DEF InHistory
<1>3. call[q].token = Token(m.from, m.to) /\ call[q].token # Error
      => call[q].token = Token(m.from, m.to)'
  BY TokenKept
<1>4. m.id \in 1..sent => m.id \in 1..sent'
  BY DEF TypeOK
<1> QED
  BY <1>1, <1>2, <1>3, <1>4 DEF Handled, InHistory

-----------------------------------------------------------------------------
(* Steps that touch no message.                                             *)

LEMMA QuietStep ==
  ASSUME IInv, TypeOK', Identity', UniqueIds', LeftByAbandonedOnly', IdsKept,
         UNCHANGED <<history, inbox, unsaved, sent>>,
         \A q \in Sessions :
           \/ call'[q] = call[q] /\ (q \in registered => q \in registered')
           \/ /\ call'[q] = call[q] /\ call[q].pc \notin Delivering
           \/ /\ call[q].pc \notin Delivering /\ call'[q].pc \notin Delivering
              /\ call'[q].msg = NoMessage /\ call'[q].subs = {}
  PROVE  IInv'
<1>1. TypeOK /\ sent \in Nat
  BY DEF IInv, TypeOK
<1>2. NoMessage.id = 0 /\ ~NoMessage.text /\ NoMessage.to = nil
  BY DEF NoMessage
<1>3. ASSUME NEW q \in Sessions
      PROVE  Handled(q)' /\ (call'[q].msg = call[q].msg \/ call'[q].msg = NoMessage)
                         /\ (call[q].pc \in Delivering => call'[q] = call[q])
  <2>1. Handled(q)
    BY DEF IInv
  <2>2. CASE call'[q] = call[q] /\ (q \in registered => q \in registered')
    BY <1>1, <2>1, <2>2, HandledKept
  <2>3. CASE call[q].pc \notin Delivering /\ call'[q].pc \notin Delivering
             /\ call'[q].msg = NoMessage /\ call'[q].subs = {}
    BY <1>2, <2>1, <2>3 DEF Handled, Delivering
  <2>4. CASE call'[q] = call[q] /\ call[q].pc \notin Delivering
    <3>1. call'[q].pc \notin Delivering /\ call'[q].msg = NoMessage /\ call'[q].subs = {}
      BY <2>1, <2>4 DEF Handled
    <3> QED
      BY <2>3, <2>4, <3>1
  <2> QED
    BY <2>2, <2>3, <2>4
<1>4. OwnMessages'
  BY <1>2, <1>3 DEF IInv, OwnMessages
<1>5. Rows'
  <2> SUFFICES ASSUME NEW row \in history
               PROVE  row.token = Token(row.first, row.second)'
    BY DEF IInv, Rows
  <2> QED
    BY <1>1, TokenKept DEF IInv, Rows
<1>6. SeenIsStored' /\ OnlyParticipants'
  BY DEF IInv, SeenIsStored, OnlyParticipants
<1>7. StoredIsShown'
  <2> SUFFICES ASSUME NEW row \in history
               PROVE  \/ \E q \in Sessions : call'[q].msg.id = row.id
                      \/ \E q \in Sessions : \E m \in inbox[q] :
                           m.id = row.id /\ m.sender = q
    BY DEF StoredIsShown
  <2>1. CASE \E q \in Sessions : call[q].msg.id = row.id
    <3>1. PICK q \in Sessions : call[q].msg.id = row.id
      BY <2>1
    <3>2. row.id # 0
      BY <1>1 DEF IInv, Rows
    <3>3. call[q].pc \in Delivering
      BY <1>2, <3>1, <3>2 DEF IInv, Handled
    <3> QED
      BY <1>3, <3>1, <3>3
  <2> QED
    BY <2>1 DEF IInv, StoredIsShown
<1> QED
  BY <1>3, <1>4, <1>5, <1>6, <1>7 DEF IInv

LEMMA IdleFacts ==
  /\ Idle \in Calls /\ Idle.pc = "idle" /\ Idle.msg = NoMessage /\ Idle.subs = {}
  /\ NoMessage \in Messages /\ "idle" \notin Delivering
BY DEF Idle, Calls, NoMessage, Messages, Receivers, Tokens, Delivering

Others(s) == \A q \in Sessions \ {s} : call'[q] = call[q]

LEMMA GotoCall ==
  ASSUME TypeOK, NEW s \in Sessions, NEW pc \in {"info", "sid", "send"}, Goto(s, pc)
  PROVE  /\ call' \in [Sessions -> Calls] /\ Others(s)
         /\ call'[s].pc = pc
         /\ call'[s].msg = call[s].msg /\ call'[s].subs = call[s].subs
<1>1. call \in [Sessions -> Calls] /\ call[s] \in Calls
  BY DEF TypeOK
<1>2. call' = [call EXCEPT ![s] = [call[s] EXCEPT !.pc = pc]]
  BY DEF Goto
<1>3. [call[s] EXCEPT !.pc = pc] \in Calls
  BY <1>1 DEF Calls
<1> QED
  BY <1>1, <1>2, <1>3 DEF Others, Calls

LEMMA ReturnCall ==
  ASSUME TypeOK, NEW s \in Sessions, Return(s)
  PROVE  /\ call' \in [Sessions -> Calls] /\ Others(s)
         /\ call'[s].pc = "idle" /\ call'[s].msg = NoMessage /\ call'[s].subs = {}
BY IdleFacts DEF TypeOK, Return, Others

\* A step of the handler of s that holds no message yet, or no more.
LEMMA SelfStep ==
  ASSUME IInv, TypeOK', Identity', NEW s \in Sessions,
         call[s].pc \notin Delivering,
         \/ UNCHANGED call
         \/ /\ Others(s) /\ call'[s].pc \notin Delivering
            /\ call'[s].msg = NoMessage /\ call'[s].subs = {},
         registered \subseteq registered' \cup {s},
         registered' \subseteq registered \cup {s},
         UNCHANGED <<rows, request, history, inbox, unsaved, sent>>
  PROVE  IInv'
<1>1. UniqueIds' /\ IdsKept
  BY DEF IInv, UniqueIds, IdsKept
<1>2. LeftByAbandonedOnly'
  BY MessagesAssumption DEF IInv, LeftByAbandonedOnly
<1>3. ASSUME NEW q \in Sessions \ {s}
      PROVE  call'[q] = call[q] /\ (q \in registered => q \in registered')
  BY DEF Others
<1>4. \/ call'[s] = call[s]
      \/ call'[s].pc \notin Delivering /\ call'[s].msg = NoMessage /\ call'[s].subs = {}
  OBVIOUS
<1> QED
  BY <1>1, <1>2, <1>3, <1>4, QuietStep

-----------------------------------------------------------------------------
(* Who a session is.                                                        *)

LEMMA UserOfIsUser == ASSUME NEW s \in Sessions PROVE UserOf[s] \in Users
BY MessagesAssumption

\* The session s becomes p.
LEMMA SelfBecomes ==
  ASSUME TypeOK, Identity, NEW s \in Sessions, NEW p \in Person,
         p.user \in {nil, UserOf[s]}, self' = [self EXCEPT ![s] = p]
  PROVE  self' \in [Subscribers -> Person] /\ Identity'
<1>1. self' \in [Subscribers -> Person]
  BY DEF TypeOK, Subscribers
<1>2. s \notin Requests
  BY MessagesAssumption
<1>3. \A q \in Subscribers : self'[q] = IF q = s THEN p ELSE self[q]
  BY DEF TypeOK
<1> QED
  BY <1>1, <1>2, <1>3 DEF Identity, Subscribers

LEMMA PersonFields ==
  ASSUME NEW p \in Person, NEW a \in BOOLEAN, NEW n \in BOOLEAN
  PROVE  /\ [p EXCEPT !.authorized = a] \in Person
         /\ [p EXCEPT !.authorized = a].user = p.user
         /\ [p EXCEPT !.authorized = a, !.named = n] \in Person
         /\ [p EXCEPT !.authorized = a, !.named = n].user = p.user
BY DEF Person

LEMMA SelfFacts ==
  ASSUME IInv, NEW s \in Sessions
  PROVE  /\ self \in [Subscribers -> Person] /\ s \in Subscribers /\ self[s] \in Person
         /\ self[s].user \in {nil, UserOf[s]} /\ UserOf[s] \in Users
BY UserOfIsUser DEF IInv, TypeOK, Identity, Subscribers

LEMMA JoinLeave ==
  ASSUME IInv, NEW s \in Sessions, join(s) \/ leave(s)
  PROVE  IInv'
<1>1. "idle" \notin Delivering /\ call[s].pc = "idle"
  BY DEF join, leave, At, Delivering
<1>2. /\ UNCHANGED <<rows, request, history, inbox, unsaved, sent, call>>
      /\ UNCHANGED <<down, writes, failures>>
      /\ registered \subseteq registered' \cup {s} /\ registered' \subseteq registered \cup {s}
      /\ gone' \subseteq gone \cup {s}
  BY DEF join, leave, tables, bounds
<1>3. \E p \in Person : p.user \in {nil, UserOf[s]} /\ self' = [self EXCEPT ![s] = p]
  <2>1. CASE join(s)
    <3>1. PICK ok \in BOOLEAN : self' = [self EXCEPT ![s].authorized = ok]
      BY <2>1 DEF join, HasHash
    <3>2. self' = [self EXCEPT ![s] = [self[s] EXCEPT !.authorized = ok]]
      BY <3>1
    <3>3. [self[s] EXCEPT !.authorized = ok] \in Person
          /\ [self[s] EXCEPT !.authorized = ok].user = self[s].user
      BY SelfFacts DEF Person
    <3> QED
      BY <3>2, <3>3, SelfFacts
  <2>2. CASE leave(s)
    BY <2>2 DEF leave, Unknown, Person
  <2> QED
    BY <2>1, <2>2
<1>4. self' \in [Subscribers -> Person] /\ Identity'
  BY <1>3, SelfBecomes DEF IInv
<1>5. TypeOK'
  BY <1>2, <1>4 DEF IInv, TypeOK, Subscribers
<1> QED
  BY <1>1, <1>2, <1>4, <1>5, SelfStep

LEMMA SetClientParam ==
  ASSUME IInv, NEW s \in Sessions, set_client_param(s)
  PROVE  IInv'
<1>1. /\ UNCHANGED <<rows, request, history, inbox, unsaved, sent, registered>>
      /\ UNCHANGED <<gone, down, writes, failures>>
      /\ call[s].pc = "idle" /\ call[s] \in Calls
  BY DEF set_client_param, tables, bounds, At, IInv, TypeOK
<1>2. call[s].pc \notin Delivering /\ call[s].msg = NoMessage /\ call[s].subs = {}
  BY <1>1 DEF IInv, Handled, Delivering
<1>3. PICK hash \in Hashes \cup {0}, known \in BOOLEAN :
        /\ self' = [self EXCEPT ![s].user = IF known THEN UserOf[s] ELSE @,
                                ![s].named = @ \/ known]
        /\ \/ call' = [call EXCEPT ![s].pc = IF hash = 0 THEN "sid" ELSE "verify",
                                   ![s].hash = hash]
           \/ UNCHANGED call
  BY DEF set_client_param
<1> DEFINE p == [self[s] EXCEPT !.user = IF known THEN UserOf[s] ELSE @,
                                !.named = @ \/ known]
           c == [call[s] EXCEPT !.pc = IF hash = 0 THEN "sid" ELSE "verify", !.hash = hash]
<1>4. self' = [self EXCEPT ![s] = p]
  BY <1>3
<1>5. p \in Person /\ p.user \in {nil, UserOf[s]}
  BY SelfFacts DEF Person
<1>6. self' \in [Subscribers -> Person] /\ Identity'
  BY <1>4, <1>5, SelfBecomes DEF IInv
<1>7. \/ call' = [call EXCEPT ![s] = c]
      \/ UNCHANGED call
  BY <1>3
<1>8. /\ c \in Calls /\ c.pc \notin Delivering
      /\ c.msg = NoMessage /\ c.subs = {}
  BY <1>1, <1>2 DEF Calls, Delivering
<1>9. /\ call' \in [Sessions -> Calls]
      /\ \/ UNCHANGED call
         \/ Others(s) /\ call'[s] = c
  BY <1>7, <1>8 DEF IInv, TypeOK, Others
<1>10. TypeOK'
  BY <1>1, <1>6, <1>9 DEF IInv, TypeOK
<1> QED
  BY <1>1, <1>2, <1>6, <1>8, <1>9, <1>10, SelfStep

LEMMA Authorization ==
  ASSUME IInv, NEW s \in Sessions,
         \/ verify_auth_from_hash(s) \/ verify_auth_from_sid(s) \/ get_user_info(s)
         \/ statement_fails(s) /\ call[s].pc \in {"verify", "sid", "info"}
  PROVE  IInv'
<1>1. /\ UNCHANGED <<rows, request, history, inbox, sent, registered>>
      /\ UNCHANGED <<gone, writes>>
      /\ failures' \in 0..MaxFailures
      /\ call[s].pc \in {"verify", "sid", "info"}
  BY MessagesAssumption DEF verify_auth_from_hash, verify_auth_from_sid, get_user_info,
     statement_fails, tables, bounds, At, IInv, TypeOK
<1>2. /\ UNCHANGED <<unsaved, down>>
      /\ Goto(s, "info") \/ Goto(s, "sid") \/ Return(s)
  BY <1>1 DEF verify_auth_from_hash, verify_auth_from_sid, get_user_info,
     statement_fails, At
<1>3. call[s].pc \notin Delivering /\ call[s].msg = NoMessage /\ call[s].subs = {}
  BY <1>1 DEF IInv, Handled, Delivering
<1>4. call' \in [Sessions -> Calls] /\ Others(s) /\ call'[s].pc \in {"info", "sid", "idle"}
      /\ call'[s].msg = NoMessage /\ call'[s].subs = {}
  <2>1. CASE Return(s)
    BY <2>1, ReturnCall DEF IInv
  <2>2. CASE Goto(s, "info") \/ Goto(s, "sid")
    <3>1. PICK pc \in {"info", "sid"} : Goto(s, pc)
      BY <2>2
    <3> QED
      BY <1>3, <3>1, GotoCall DEF IInv
  <2> QED
    BY <1>2, <2>1, <2>2
<1>5. \/ UNCHANGED self
      \/ \E p \in Person : p.user \in {nil, UserOf[s]} /\ self' = [self EXCEPT ![s] = p]
  <2>1. CASE verify_auth_from_hash(s)
    <3>1. \/ UNCHANGED self
          \/ self' = [self EXCEPT ![s] = [self[s] EXCEPT !.authorized = TRUE]]
      BY <2>1 DEF verify_auth_from_hash
    <3> QED
      BY <3>1, SelfFacts, PersonFields
  <2>2. CASE verify_auth_from_sid(s)
    <3>1. \/ UNCHANGED self
          \/ self' = [self EXCEPT ![s] = [self[s] EXCEPT !.authorized = TRUE, !.named = TRUE]]
      BY <2>2 DEF verify_auth_from_sid
    <3> QED
      BY <3>1, SelfFacts, PersonFields
  <2>3. CASE get_user_info(s)
    <3> DEFINE ok == HasHash(UserOf[s], call[s].hash)
               p == [authorized |-> TRUE, named |-> ok,
                     user |-> IF ok THEN UserOf[s] ELSE nil]
    <3>1. self' = [self EXCEPT ![s] = p]
      BY <2>3 DEF get_user_info
    <3>2. p \in Person /\ p.user \in {nil, UserOf[s]}
      BY SelfFacts DEF Person, HasHash
    <3> QED
      BY <3>1, <3>2
  <2>4. CASE statement_fails(s)
    <3>1. \/ UNCHANGED self
          \/ self' = [self EXCEPT ![s] = [self[s] EXCEPT !.user = nil, !.named = FALSE]]
      BY <2>4 DEF statement_fails
    <3>2. /\ [self[s] EXCEPT !.user = nil, !.named = FALSE] \in Person
          /\ [self[s] EXCEPT !.user = nil, !.named = FALSE].user = nil
      BY SelfFacts DEF Person
    <3> QED
      BY <3>1, <3>2
  <2> QED
    BY <2>1, <2>2, <2>3, <2>4
<1>6. self' \in [Subscribers -> Person] /\ Identity'
  BY <1>5, SelfBecomes DEF IInv, TypeOK, Identity
<1>7. TypeOK'
  BY <1>1, <1>2, <1>4, <1>6 DEF IInv, TypeOK
<1>8. {"info", "sid", "idle"} \cap Delivering = {}
  BY DEF Delivering
<1> QED
  BY <1>1, <1>2, <1>3, <1>4, <1>6, <1>7, <1>8, SelfStep

-----------------------------------------------------------------------------
(* The table of users and the HTTP requests.                                *)

LEMMA UserWritten ==
  ASSUME IInv, NEW u \in Users, NEW h \in Hashes, insert_or_update_user(u, h)
  PROVE  IInv'
<1>1. PICK id \in 1..MaxId :
        /\ IF rows[u].id # 0 THEN id = rows[u].id ELSE Newest(id)
        /\ Write(u, [id |-> id, hash |-> h])
  BY DEF insert_or_update_user
<1>2. /\ UNCHANGED <<registered, gone, self, history, call, request, inbox, unsaved, down>>
      /\ UNCHANGED <<sent, failures>> /\ writes' \in 0..MaxWrites
      /\ rows' = [rows EXCEPT ![u] = [id |-> id, hash |-> h]]
  BY <1>1, MessagesAssumption DEF Write, people, IInv, TypeOK
<1>3. /\ \A v \in Users : rows[v].id \in Nat
      /\ \A v \in Users : rows'[v].id = IF v = u THEN id ELSE rows[v].id
  BY <1>2 DEF IInv, TypeOK
<1>4. IdsKept
  BY <1>1, <1>3 DEF IdsKept
<1>5. UniqueIds'
  <2>1. ASSUME NEW v \in Users \ {u} PROVE rows[v].id # id
    <3>1. CASE rows[u].id # 0
      BY <1>1, <3>1 DEF IInv, UniqueIds
    <3>2. CASE rows[u].id = 0
      BY <1>1, <1>3, <3>2 DEF Newest
    <3> QED
      BY <3>1, <3>2
  <2> QED
    BY <1>3, <2>1 DEF IInv, UniqueIds
<1>6. TypeOK'
  BY <1>1, <1>2 DEF IInv, TypeOK
<1>7. Identity' /\ LeftByAbandonedOnly'
  BY <1>2 DEF IInv, Identity, LeftByAbandonedOnly
<1> QED
  BY <1>2, <1>4, <1>5, <1>6, <1>7, QuietStep

LEMMA RequestStep ==
  ASSUME IInv, NEW r \in Requests,
         begin_request(r) \/ abandon_request(r) \/ end_request(r)
  PROVE  IInv'
<1>1. /\ UNCHANGED <<gone, self, rows, history, call, inbox, unsaved>>
      /\ UNCHANGED <<sent, writes, failures>> /\ down' \in BOOLEAN
      /\ registered \subseteq registered' \cup {r} /\ registered' \subseteq registered \cup {r}
      /\ request' = [request EXCEPT ![r] = request'[r]]
      /\ request'[r] \in {"running", "abandoned", "answered"}
      /\ r \in registered' => request'[r] \in {"running", "abandoned"}
  <2>1. request \in [Requests -> {"none", "running", "abandoned", "answered"}]
    BY DEF IInv, TypeOK
  <2>2. r \in registered => request[r] \in {"running", "abandoned"}
    BY DEF IInv, LeftByAbandonedOnly
  <2>3. down \in BOOLEAN
    BY DEF IInv, TypeOK
  <2>4. CASE begin_request(r)
    BY <2>1, <2>2, <2>3, <2>4 DEF begin_request, people, tables, bounds
  <2>5. CASE abandon_request(r)
    BY <2>1, <2>2, <2>3, <2>5 DEF abandon_request, people, tables, bounds
  <2>6. CASE end_request(r)
    BY <2>1, <2>2, <2>3, <2>6 DEF end_request, people, tables, bounds
  <2> QED
    BY <2>4, <2>5, <2>6
<1>2. UniqueIds' /\ IdsKept /\ Identity'
  BY <1>1 DEF IInv, UniqueIds, IdsKept, Identity
<1>3. TypeOK'
  BY <1>1 DEF IInv, TypeOK, Subscribers
<1>4. LeftByAbandonedOnly'
  BY <1>1 DEF IInv, TypeOK, LeftByAbandonedOnly
<1>5. \A q \in Sessions : call'[q] = call[q] /\ (q \in registered => q \in registered')
  BY <1>1, MessagesAssumption
<1> QED
  BY <1>1, <1>2, <1>3, <1>4, <1>5, QuietStep

\* The process ends: what is left stays as it is.
LEMMA Ended ==
  ASSUME IInv, UNCHANGED <<people, rows, history, call, request, inbox, unsaved, sent, writes>>,
         down' \in BOOLEAN, failures' \in 0..MaxFailures
  PROVE  IInv'
<1>1. UniqueIds' /\ IdsKept /\ Identity' /\ LeftByAbandonedOnly'
  BY DEF people, IInv, UniqueIds, IdsKept, Identity, LeftByAbandonedOnly
<1>2. TypeOK'
  BY DEF people, IInv, TypeOK
<1>3. \A q \in Sessions : call'[q] = call[q] /\ (q \in registered => q \in registered')
  BY DEF people
<1> QED
  BY <1>1, <1>2, <1>3, QuietStep

-----------------------------------------------------------------------------
(* Steps of a message.                                                      *)

\* What a step of forward_message() of s may do with its own message.
Sends(s) ==
  LET m == call[s].msg
  IN /\ Others(s)
     /\ UNCHANGED <<people, rows, request>>
     /\ unsaved \subseteq unsaved'
     /\ \/ sent' = sent /\ call'[s].msg.id \in {0, m.id}
        \/ sent' = sent + 1 /\ call'[s].msg.id = sent' /\ call[s].pc = "idle"
     /\ \/ history' = history
        \/ /\ call[s].pc = "insert" /\ history' = history \cup {Row(s)}
           /\ call'[s].msg = m
     /\ \A q \in Sessions : inbox[q] \subseteq inbox'[q]
     /\ \A q \in Sessions : \A x \in inbox'[q] \ inbox[q] :
          /\ x = m /\ call[s].pc = "send"
          /\ x.text => q = s \/ x.to \in {UserOf[q], channel}
     /\ call'[s].msg.id = m.id \/ ~InHistory(m.id) \/ m \in inbox'[s]

LEMMA MessageStep ==
  ASSUME IInv, TypeOK', NEW s \in Sessions, Handled(s)', Sends(s)
  PROVE  IInv'
<1> DEFINE m == call[s].msg
<1>1. TypeOK /\ sent \in Nat /\ sent' \in Nat /\ sent <= sent'
  BY DEF IInv, TypeOK, Sends
<1>2. /\ UNCHANGED <<registered, gone, self, rows, request>>
      /\ unsaved \subseteq unsaved' /\ history \subseteq history'
      /\ \A q \in Sessions \ {s} : call'[q] = call[q]
  BY DEF Sends, people, Others
<1>3. UniqueIds' /\ IdsKept /\ Identity' /\ LeftByAbandonedOnly'
  BY <1>2 DEF IInv, UniqueIds, IdsKept, Identity, LeftByAbandonedOnly
<1>4. NoMessage.id = 0
  BY DEF NoMessage
<1>5. \A q \in Sessions : /\ Handled(q)
                          /\ call[q].msg.id \in 0..sent
                          /\ call[q].msg.id = 0 => call[q].pc \notin Delivering
  BY <1>1, <1>4 DEF IInv, Handled
<1>6. ASSUME NEW row \in history' \ history
      PROVE  /\ row = Row(s) /\ row.id = m.id /\ call[s].pc = "insert" /\ m.id # 0
             /\ call'[s].msg = m /\ ~InHistory(m.id) /\ history' = history \cup {Row(s)}
  <2>1. row = Row(s) /\ call[s].pc = "insert" /\ call'[s].msg = m
        /\ history' = history \cup {Row(s)}
    BY DEF Sends
  <2>2. row.id = m.id
    BY <2>1 DEF Row
  <2>3. "insert" \in Delivering
    BY DEF Delivering
  <2> QED
    BY <1>5, <2>1, <2>2, <2>3 DEF Handled
<1>7. ASSUME NEW q \in Sessions PROVE Handled(q)'
  <2>1. CASE q = s
    BY <2>1
  <2>2. CASE q # s
    <3>1. \A row \in history' \ history : row.id # call[q].msg.id
      BY <1>6, <2>2 DEF IInv, OwnMessages
    <3> QED
      BY <1>1, <1>2, <1>3, <1>5, <2>2, <3>1, HandledKept
  <2> QED
    BY <2>1, <2>2
<1>8. OwnMessages'
  <2>1. \A q \in Sessions \ {s} : call'[s].msg.id = call[q].msg.id => call'[s].msg.id = 0
    BY <1>1, <1>5 DEF IInv, OwnMessages, Sends
  <2> QED
    BY <1>2, <2>1 DEF IInv, OwnMessages
<1>9. Rows'
  <2>1. \A a, b \in Users \cup {nil, channel} : Token(a, b)' = Token(a, b)
    BY <1>2 DEF Token, InUsers
  <2>2. ASSUME NEW row \in history'
        PROVE  row.id \in 1..sent' /\ row.token = Token(row.first, row.second)' /\ row.token # Error
    <3>1. row.first \in Users \cup {nil} /\ row.second \in Users \cup {channel}
      BY DEF TypeOK
    <3>2. CASE row \in history
      BY <1>1, <2>1, <3>1, <3>2 DEF IInv, Rows
    <3>3. CASE row \notin history
      <4>1. row = Row(s) /\ m.id # 0 /\ call[s].pc = "insert"
        BY <1>6, <3>3
      <4>2. /\ row.first = m.from /\ row.second = m.to /\ row.token = call[s].token
            /\ row.id = m.id
        BY <4>1 DEF Row
      <4>3. call[s].token = Token(m.from, m.to) /\ call[s].token # Error
        BY <1>5, <4>1 DEF Handled
      <4> QED
        BY <1>1, <1>5, <2>1, <3>1, <4>1, <4>2, <4>3
    <3> QED
      BY <3>2, <3>3
  <2>3. \A x, y \in history' : x.id = y.id => x = y
    BY <1>6 DEF IInv, Rows, InHistory
  <2> QED
    BY <2>2, <2>3 DEF Rows
<1>10. SeenIsStored'
  <2> SUFFICES ASSUME AllowHistoryMessages, NEW q \in Sessions, NEW x \in inbox'[q], x.text
               PROVE  x.id \in unsaved' \/ \E row \in history' : row.id = x.id
    BY DEF SeenIsStored
  <2>1. x.id \in unsaved \/ \E row \in history : row.id = x.id
    <3>1. CASE x \in inbox[q]
      BY <3>1 DEF IInv, SeenIsStored
    <3>2. CASE x \notin inbox[q]
      BY <1>5, <3>2 DEF Sends, Handled, InHistory
    <3> QED
      BY <3>1, <3>2
  <2> QED
    BY <1>2, <2>1
<1>11. OnlyParticipants'
  <2> SUFFICES ASSUME NEW q \in Sessions, NEW x \in inbox'[q], x.text
               PROVE  q = x.sender \/ x.to \in {UserOf[q], channel}
    BY DEF OnlyParticipants
  <2>1. CASE x \in inbox[q]
    BY <2>1 DEF IInv, OnlyParticipants
  <2>2. CASE x \notin inbox[q]
    <3>1. x = m /\ call[s].pc = "send" /\ (q = s \/ x.to \in {UserOf[q], channel})
      BY <2>2 DEF Sends
    <3>2. m.sender = s
      BY <1>5, <3>1 DEF Handled, Delivering
    <3> QED
      BY <3>1, <3>2
  <2> QED
    BY <2>1, <2>2
<1>12. StoredIsShown'
  <2> SUFFICES ASSUME NEW row \in history'
               PROVE  \/ \E q \in Sessions : call'[q].msg.id = row.id
                      \/ \E q \in Sessions : \E x \in inbox'[q] : x.id = row.id /\ x.sender = q
    BY DEF StoredIsShown
  <2>1. CASE row \notin history
    BY <1>6, <2>1
  <2>2. CASE row \in history /\ \E q \in Sessions : call[q].msg.id = row.id
    <3>1. PICK q \in Sessions : call[q].msg.id = row.id
      BY <2>2
    <3>2. CASE q # s
      BY <1>2, <3>1, <3>2
    <3>3. CASE q = s
      <4>1. InHistory(m.id)
        BY <2>2, <3>1, <3>3 DEF InHistory
      <4>2. row.id # 0
        BY <1>1, <2>2 DEF IInv, Rows
      <4>3. m.sender = s
        BY <1>4, <1>5, <3>1, <3>3, <4>2 DEF Handled
      <4> QED
        BY <3>1, <3>3, <4>1, <4>3 DEF Sends
    <3> QED
      BY <3>2, <3>3
  <2>3. CASE row \in history /\ \E q \in Sessions : \E x \in inbox[q] : x.id = row.id /\ x.sender = q
    BY <2>3 DEF Sends
  <2> QED
    BY <2>1, <2>2, <2>3 DEF IInv, StoredIsShown
<1> QED
  BY <1>3, <1>7, <1>8, <1>9, <1>10, <1>11, <1>12 DEF IInv

-----------------------------------------------------------------------------
(* forward_message(), step by step.                                         *)

LEMMA CallFacts ==
  ASSUME IInv, NEW s \in Sessions
  PROVE  /\ call \in [Sessions -> Calls] /\ call[s] \in Calls /\ call[s].msg \in Messages
         /\ Handled(s) /\ sent \in Nat
         /\ self[s].user \in Users \cup {nil}
         /\ NoMessage.id = 0 /\ ~NoMessage.text /\ NoMessage.to = nil
BY SelfFacts DEF IInv, TypeOK, Calls, NoMessage

LEMMA ForwardMessage ==
  ASSUME IInv, NEW s \in Sessions, NEW to \in Receivers, forward_message(s, to)
  PROVE  IInv'
<1> DEFINE m == [id |-> sent + 1, sender |-> s, from |-> self[s].user,
                 to |-> IF to = channel THEN channel ELSE nil, text |-> FALSE]
           c == [pc |-> IF to = channel THEN "token" ELSE "find", hash |-> 0, to |-> to,
                 token |-> Error, subs |-> {}, msg |-> m]
<1>1. /\ call' = [call EXCEPT ![s] = c] /\ s \in registered
      /\ call[s].pc = "idle" /\ sent' = sent + 1 /\ sent' \in 1..MaxMessages
      /\ UNCHANGED <<people, rows, history, request, inbox, unsaved, down, writes, failures>>
  BY MessagesAssumption DEF forward_message, At, tables, IInv, TypeOK
<1>2. m \in Messages
  BY <1>1, CallFacts DEF Messages, Ids
<1>3. c \in Calls
  BY <1>2 DEF Calls, Tokens
<1>4. call' \in [Sessions -> Calls] /\ Others(s) /\ call'[s] = c
  BY <1>1, <1>3 DEF IInv, TypeOK, Others
<1>5. TypeOK'
  BY <1>1, <1>4 DEF IInv, TypeOK, people
<1>6. call[s].msg.id = 0 /\ sent \in Nat
  BY <1>1, CallFacts DEF Handled, Delivering
<1>7. (\A row \in history' : row.id # sent + 1) /\ ~InHistory(0)
  BY <1>1, <1>6 DEF IInv, Rows, InHistory
<1>8. Sends(s)
  BY <1>1, <1>4, <1>6, <1>7 DEF Sends
<1>9. Handled(s)'
  <2>1. c.msg = m /\ m.id = sent + 1 /\ m.sender = s /\ m.from = self[s].user /\ ~m.text
        /\ c.subs = {} /\ c.pc \in {"find", "token"}
    OBVIOUS
  <2>2. self[s].user # channel
    BY CallFacts, Apart
  <2>3. s \in registered' /\ sent' = sent + 1
    BY <1>1 DEF people
  <2>4. m.id \in 1..sent'
    BY <1>6, <2>1, <2>3
  <2> QED
    BY <1>4, <1>7, <2>1, <2>2, <2>3, <2>4 DEF Handled, Delivering, InHistory
<1> QED
  BY <1>5, <1>8, <1>9, MessageStep

\* A handler that returns before its message is stored.
LEMMA Dropped ==
  ASSUME IInv, NEW s \in Sessions, call[s].pc \in {"find", "token"}, Return(s),
         UNCHANGED <<people, rows, history, request, inbox, unsaved, down, sent, writes>>,
         failures' \in 0..MaxFailures
  PROVE  IInv'
<1>1. /\ call' \in [Sessions -> Calls] /\ Others(s)
      /\ call'[s].pc = "idle" /\ call'[s].msg = NoMessage /\ call'[s].subs = {}
  BY ReturnCall DEF IInv
<1>2. TypeOK'
  BY <1>1 DEF IInv, TypeOK, people
<1>3. Handled(s)'
  BY <1>1, CallFacts DEF Handled, Delivering
<1>4. ~InHistory(call[s].msg.id)
  BY CallFacts DEF Handled
<1>5. Sends(s)
  BY <1>1, <1>4, CallFacts DEF Sends
<1> QED
  BY <1>2, <1>3, <1>5, MessageStep

LEMMA FindReceivers ==
  ASSUME IInv, NEW s \in Sessions, find_receivers(s)
  PROVE  IInv'
<1> DEFINE found == Found(call[s].to)
           c(subs, to) == [call[s] EXCEPT !.pc = "token", !.subs = subs,
                                          !.msg = [call[s].msg EXCEPT !.to = to]]
<1>1. /\ call[s].pc = "find" /\ Search(s, found)
      /\ UNCHANGED <<people, rows, history, request, inbox, unsaved, down, sent, writes>>
      /\ failures' \in 0..MaxFailures
  BY DEF find_receivers, Search, At, tables, bounds, IInv, TypeOK
<1>2. ~call[s].msg.text /\ call[s].subs = {} /\ ~InHistory(call[s].msg.id)
  BY <1>1, CallFacts DEF Handled
<1>3. CASE Return(s)
  BY <1>1, <1>3, Dropped
<1>4. ASSUME NEW subs \in SUBSET Subscribers, NEW to \in Users \cup {nil, channel},
             call' = [call EXCEPT ![s] = c(subs, to)],
             \A q \in subs \cap Sessions : to \in {nil, UserOf[q]}
      PROVE  IInv'
  <2> DEFINE m == [call[s].msg EXCEPT !.to = to]
  <2>1. m \in Messages /\ m.to = to /\ m.id = call[s].msg.id /\ m.text = call[s].msg.text
        /\ m.sender = call[s].msg.sender /\ m.from = call[s].msg.from
    BY CallFacts DEF Messages
  <2>2. c(subs, to) \in Calls /\ c(subs, to).pc = "token" /\ c(subs, to).msg = m
        /\ c(subs, to).subs = subs
    BY <2>1, CallFacts DEF Calls
  <2>4. call' \in [Sessions -> Calls] /\ Others(s) /\ call'[s] = c(subs, to)
    BY <1>4, <2>2, CallFacts DEF Others
  <2>5. TypeOK'
    BY <1>1, <2>4 DEF IInv, TypeOK, people
  <2>6. Handled(s)'
    <3>1. /\ UNCHANGED <<registered, sent, history>>
          /\ s \in registered /\ call[s].msg.sender = s
          /\ call[s].msg.id \in 1..sent /\ call[s].msg.from # channel
      BY <1>1, CallFacts DEF people, Handled, Delivering
    <3>2. \A row \in history' : row.id # m.id
      BY <1>2, <2>1, <3>1 DEF InHistory
    <3> QED
      BY <1>2, <1>4, <2>1, <2>2, <2>4, <3>1, <3>2 DEF Handled, Delivering, InHistory
  <2>7. Sends(s)
    BY <1>1, <2>1, <2>2, <2>4 DEF Sends
  <2> QED
    BY <2>5, <2>6, <2>7, MessageStep
<1>5. CASE found # {} /\ ~Return(s)
  <2>1. PICK last \in found :
          call' = [call EXCEPT ![s].pc = "token", ![s].subs = found, ![s].msg.to = self[last].user]
    BY <1>1, <1>5 DEF Search
  <2>2. registered \subseteq Subscribers /\ self \in [Subscribers -> Person]
    BY DEF IInv, TypeOK
  <2>3. found \in SUBSET Subscribers
    BY <2>2 DEF Found
  <2>4. self[last].user \in Users \cup {nil, channel}
    BY <2>2, <2>3 DEF Person
  <2>5. \A q \in found : self[q].user = self[last].user
    BY DEF Found
  <2>6. \A q \in found \cap Sessions : self[last].user \in {nil, UserOf[q]}
    BY <2>5 DEF IInv, Identity
  <2>7. call' = [call EXCEPT ![s] = c(found, self[last].user)]
    BY <2>1
  <2> HIDE DEF c
  <2> QED
    BY <1>4, <2>3, <2>4, <2>6, <2>7
<1>6. CASE found = {} /\ ~Return(s)
  <2>1. /\ call' = [call EXCEPT ![s].pc = "token", ![s].msg.to = call[s].to]
        /\ InUsers(call[s].to)
    BY <1>1, <1>6 DEF Search
  <2>2. call[s].to \in Users
    BY <2>1 DEF InUsers
  <2>3. c({}, call[s].to) = [call[s] EXCEPT !.pc = "token",
                                            !.msg = [call[s].msg EXCEPT !.to = call[s].to]]
    BY <1>2, CallFacts DEF Calls
  <2>4. call' = [call EXCEPT ![s] = c({}, call[s].to)]
    BY <2>1, <2>3
  <2>5. {} \in SUBSET Subscribers /\ \A q \in {} \cap Sessions : call[s].to \in {nil, UserOf[q]}
    OBVIOUS
  <2> HIDE DEF c
  <2> QED
    BY <1>4, <2>2, <2>4, <2>5
<1> QED
  BY <1>3, <1>5, <1>6

LEMMA GetChannelToken ==
  ASSUME IInv, NEW s \in Sessions, get_channel_token(s)
  PROVE  IInv'
<1> DEFINE m == [call[s].msg EXCEPT !.from = self[s].user, !.text = TRUE]
           token == Token(m.from, m.to)
           pc == IF AllowHistoryMessages THEN "insert" ELSE "send"
           c == [call[s] EXCEPT !.msg = m, !.token = token, !.pc = pc]
<1>1. /\ call[s].pc = "token"
      /\ UNCHANGED <<people, rows, history, request, inbox, unsaved, down, sent, writes>>
      /\ failures' \in 0..MaxFailures
  BY DEF get_channel_token, At, tables, bounds, IInv, TypeOK
<1>2. m \in Messages /\ m.from = self[s].user /\ m.to = call[s].msg.to /\ m.text
      /\ m.id = call[s].msg.id /\ m.sender = call[s].msg.sender
  BY CallFacts DEF Messages
<1>3. CASE token = Error
  <2>1. Return(s)
    BY <1>3 DEF get_channel_token
  <2> QED
    BY <1>1, <2>1, Dropped
<1>4. CASE token # Error
  <2>1. call' = [call EXCEPT ![s] = c]
    BY <1>4 DEF get_channel_token
  <2>2. c \in Calls /\ c.pc = pc /\ c.msg = m /\ c.subs = call[s].subs /\ c.token = token
    BY <1>2, TokenIsToken, CallFacts DEF Calls
  <2>3. call' \in [Sessions -> Calls] /\ Others(s) /\ call'[s] = c
    BY <2>1, <2>2, CallFacts DEF Others
  <2>4. TypeOK'
    BY <1>1, <2>3 DEF IInv, TypeOK, people
  <2>5. Sends(s)
    BY <1>1, <1>2, <2>2, <2>3 DEF Sends
  <2>6. m.from # channel /\ m.to # nil
    BY <1>2, <1>4, CallFacts, Apart, TokenOfNil
  <2>8. Handled(s)'
    <3>1. /\ UNCHANGED <<registered, sent, history>>
          /\ s \in registered /\ m.sender = s /\ m.id \in 1..sent
          /\ ~InHistory(m.id)
          /\ \A q \in call[s].subs \cap Sessions : m.to \in {nil, UserOf[q]}
      BY <1>1, <1>2, CallFacts DEF people, Handled, Delivering
    <3>2. pc = "insert" \/ (pc = "send" /\ ~AllowHistoryMessages)
      OBVIOUS
    <3>3. \A row \in history' : row.id # m.id
      BY <3>1 DEF InHistory
    <3>4. call'[s].token = Token(call[s].msg.from, call[s].msg.to)'
      <4>1. call'[s].token = token /\ call'[s].msg = m /\ rows' = rows
        BY <1>1, <2>2, <2>3
      <4> QED
        BY <4>1 DEF Token, InUsers
    <3>5. call'[s].pc = pc /\ call'[s].msg = m /\ call'[s].subs = call[s].subs
          /\ call'[s].token # Error
      BY <1>4, <2>2, <2>3
    <3>6. pc \in Delivering /\ pc # "find" /\ pc # "token"
      BY <3>2 DEF Delivering
    <3>7. pc = "insert" => m.text /\ m.to # nil
      BY <1>2, <2>6
    <3>8. ~(pc = "send" /\ AllowHistoryMessages)
      BY <3>2
    <3> HIDE DEF pc, m, token, c
    <3> QED
      BY <1>2, <2>6, <3>1, <3>3, <3>4, <3>5, <3>6, <3>7, <3>8 DEF Handled, InHistory
  <2> QED
    BY <2>4, <2>5, <2>8, MessageStep
<1> QED
  BY <1>3, <1>4

\* The message goes on to be sent: stored, or its insert, or its token, has failed.
LEMMA GoesOn ==
  ASSUME IInv, NEW s \in Sessions, Goto(s, "send"),
         UNCHANGED <<people, rows, request, inbox, down, sent, writes>>,
         failures' \in 0..MaxFailures,
         \/ call[s].pc = "token" /\ UNCHANGED <<history, unsaved>>
         \/ /\ call[s].pc = "insert"
            /\ \/ history' = history \cup {Row(s)} /\ UNCHANGED unsaved
               \/ unsaved' = unsaved \cup {call[s].msg.id} /\ UNCHANGED history
  PROVE  IInv'
<1> DEFINE m == call[s].msg
<1>1. /\ call' \in [Sessions -> Calls] /\ Others(s)
      /\ call'[s].pc = "send" /\ call'[s].msg = m /\ call'[s].subs = call[s].subs
  BY GotoCall DEF IInv
<1>2. /\ s \in registered /\ m.sender = s /\ m.id \in 1..sent /\ m.from # channel
      /\ m.text => m.to # nil
      /\ \A q \in call[s].subs \cap Sessions : m.to \in {nil, UserOf[q]}
      /\ call[s].pc = "token" => ~m.text
      /\ call[s].pc = "insert" => m.to # nil
  BY CallFacts DEF Handled, Delivering
<1>3. m.id \in Ids
  BY <1>2, MessagesAssumption DEF Ids, IInv, TypeOK
<1>4. call[s].pc = "insert" => Row(s) \in [id : Ids, first : Users \cup {nil},
                                           second : Users \cup {channel}, token : Tokens]
  <2>1. m \in Messages /\ call[s].token \in Tokens
    BY CallFacts DEF Calls
  <2> QED
    BY <1>2, <1>3, <2>1 DEF Row, Messages
<1>5. TypeOK'
  <2>1. unsaved' \subseteq Ids
    BY <1>3 DEF IInv, TypeOK
  <2>2. history' \subseteq [id : Ids, first : Users \cup {nil},
                            second : Users \cup {channel}, token : Tokens]
    BY <1>4 DEF IInv, TypeOK
  <2> QED
    BY <1>1, <2>1, <2>2 DEF IInv, TypeOK, people
<1>6. Sends(s)
  BY <1>1 DEF Sends
<1>7. Row(s).id = m.id
  BY DEF Row
<1>8. Handled(s)'
  <2>1. call[s].pc = "insert" => m.id \in unsaved' \/ \E row \in history' : row.id = m.id
    BY <1>7
  <2>2. registered' = registered /\ sent' = sent
    BY DEF people
  <2> QED
    BY <1>1, <1>2, <2>1, <2>2 DEF Handled, Delivering, InHistory
<1> QED
  BY <1>5, <1>6, <1>8, MessageStep

LEMMA SendPrivate ==
  ASSUME IInv, NEW s \in Sessions, send_private(s)
  PROVE  IInv'
<1> DEFINE m == call[s].msg
<1>1. /\ call[s].pc = "send" /\ m.to # channel
      /\ UNCHANGED <<people, rows, history, request, unsaved, sent, writes, failures>>
  BY DEF send_private, At, tables, bounds
<1>2. /\ s \in registered /\ m.sender = s /\ m.id \in 1..sent /\ m.from # channel
      /\ m.text => m.to # nil
      /\ \A q \in call[s].subs \cap Sessions : m.to \in {nil, UserOf[q]}
  BY <1>1, CallFacts DEF Handled, Delivering
<1>3. inbox \in [Sessions -> SUBSET Messages] /\ m \in Messages
  BY CallFacts DEF IInv, TypeOK
<1>4. ASSUME NEW q \in call[s].subs, Put(q, m),
             call' = [call EXCEPT ![s].subs = @ \ {q}],
             down' \in BOOLEAN
      PROVE  IInv'
  <2> DEFINE c == [call[s] EXCEPT !.subs = call[s].subs \ {q}]
  <2>1. call' = [call EXCEPT ![s] = c]
    BY <1>4
  <2>2. c \in Calls /\ c.pc = call[s].pc /\ c.msg = m /\ c.subs = call[s].subs \ {q}
    BY CallFacts DEF Calls
  <2>3. call' \in [Sessions -> Calls] /\ Others(s) /\ call'[s] = c
    BY <2>1, <2>2, CallFacts DEF Others
  <2>4. /\ inbox' \in [Sessions -> SUBSET Messages]
        /\ \A p \in Sessions : inbox[p] \subseteq inbox'[p]
        /\ \A p \in Sessions : \A x \in inbox'[p] \ inbox[p] : x = m /\ p = q
    BY <1>3, <1>4 DEF Put
  <2>5. TypeOK'
    BY <1>1, <1>4, <2>3, <2>4 DEF IInv, TypeOK, people
  <2>6. Sends(s)
    BY <1>1, <1>2, <2>2, <2>3, <2>4 DEF Sends
  <2>7. Handled(s)'
    <3>1. UNCHANGED <<registered, sent, history, unsaved>>
      BY <1>1 DEF people
    <3>2. AllowHistoryMessages /\ m.text => m.id \in unsaved \/ \E row \in history : row.id = m.id
      BY <1>1, CallFacts DEF Handled, InHistory
    <3> QED
      BY <1>1, <1>2, <2>2, <2>3, <3>1, <3>2 DEF Handled, Delivering, InHistory
  <2> QED
    BY <2>5, <2>6, <2>7, MessageStep
<1>5. CASE call[s].subs = {} /\ Put(s, m) /\ Return(s) /\ UNCHANGED down
  <2>1. /\ call' \in [Sessions -> Calls] /\ Others(s)
        /\ call'[s].pc = "idle" /\ call'[s].msg = NoMessage /\ call'[s].subs = {}
    BY <1>5, ReturnCall DEF IInv
  <2>2. /\ inbox' \in [Sessions -> SUBSET Messages] /\ m \in inbox'[s]
        /\ \A p \in Sessions : inbox[p] \subseteq inbox'[p]
        /\ \A p \in Sessions : \A x \in inbox'[p] \ inbox[p] : x = m /\ p = s
    BY <1>3, <1>5 DEF Put
  <2>3. TypeOK'
    BY <1>1, <1>5, <2>1, <2>2 DEF IInv, TypeOK, people
  <2>4. Sends(s)
    BY <1>1, <2>1, <2>2, CallFacts DEF Sends
  <2>5. Handled(s)'
    BY <2>1, CallFacts DEF Handled, Delivering
  <2> QED
    BY <2>3, <2>4, <2>5, MessageStep
<1> QED
  <2>1. down' \in BOOLEAN
    BY DEF send_private, IInv, TypeOK
  <2> QED
    BY <1>4, <1>5, <2>1 DEF send_private

LEMMA SendChannel ==
  ASSUME IInv, NEW s \in Sessions, send_channel(s)
  PROVE  IInv'
<1> DEFINE m == call[s].msg
<1>1. /\ call[s].pc = "send" /\ m.to = channel /\ Return(s) /\ down' \in BOOLEAN
      /\ UNCHANGED <<people, rows, history, request, unsaved, sent, writes, failures>>
      /\ inbox' = [q \in Sessions |-> IF q \in registered THEN inbox[q] \cup {m} ELSE inbox[q]]
  BY DEF send_channel, At, tables, bounds
<1>2. s \in registered
  BY <1>1, CallFacts DEF Handled, Delivering
<1>3. /\ inbox' \in [Sessions -> SUBSET Messages] /\ m \in inbox'[s]
      /\ \A p \in Sessions : inbox[p] \subseteq inbox'[p]
      /\ \A p \in Sessions : \A x \in inbox'[p] \ inbox[p] : x = m
  BY <1>1, <1>2, CallFacts DEF IInv, TypeOK
<1>4. /\ call' \in [Sessions -> Calls] /\ Others(s)
      /\ call'[s].pc = "idle" /\ call'[s].msg = NoMessage /\ call'[s].subs = {}
  BY <1>1, ReturnCall DEF IInv
<1>5. TypeOK'
  BY <1>1, <1>3, <1>4 DEF IInv, TypeOK, people
<1>6. Sends(s)
  BY <1>1, <1>3, <1>4, CallFacts DEF Sends
<1>7. Handled(s)'
  BY <1>4, CallFacts DEF Handled, Delivering
<1> QED
  BY <1>5, <1>6, <1>7, MessageStep

LEMMA StatementFails ==
  ASSUME IInv, NEW s \in Sessions, statement_fails(s)
  PROVE  IInv'
<1>1. UNCHANGED <<registered, gone, rows, history, request, inbox, sent, writes>>
      /\ failures' \in 0..MaxFailures
  BY MessagesAssumption DEF statement_fails, IInv, TypeOK, tables
<1>2. CASE call[s].pc \in {"verify", "sid", "info"}
  BY <1>2, Authorization
<1>3. CASE call[s].pc = "find"
  <2>1. down' \in BOOLEAN /\ UNCHANGED <<call, unsaved, self>>
    BY <1>3 DEF statement_fails, At
  <2> QED
    BY <1>1, <2>1, Ended DEF people
<1>4. CASE call[s].pc = "token"
  <2>1. UNCHANGED <<self, unsaved, down>> /\ (Goto(s, "send") \/ Return(s))
    BY <1>4 DEF statement_fails, At
  <2> QED
    BY <1>1, <1>4, <2>1, GoesOn, Dropped DEF people
<1>5. CASE call[s].pc = "insert"
  <2>1. UNCHANGED <<self, down>> /\ Goto(s, "send") /\ unsaved' = unsaved \cup {call[s].msg.id}
    BY <1>5 DEF statement_fails, At
  <2> QED
    BY <1>1, <1>5, <2>1, GoesOn DEF people
<1> QED
  BY <1>2, <1>3, <1>4, <1>5 DEF statement_fails, At

-----------------------------------------------------------------------------
(* The theorems.                                                            *)

LEMMA Initially == Init => IInv
<1> SUFFICES ASSUME Init PROVE IInv
  OBVIOUS
<1>1. TypeOK
  <2>1. InitialRows \in [Users -> [id : 0..MaxId, hash : Hashes \cup {0}]]
    BY MessagesAssumption DEF Hashes
  <2>2. Unknown \in Person
    BY DEF Unknown, Person
  <2>3. 0 \in 0..MaxMessages /\ 0 \in 0..MaxWrites /\ 0 \in 0..MaxFailures
    BY MessagesAssumption
  <2> QED
    BY <2>1, <2>2, <2>3, IdleFacts DEF Init, TypeOK
<1>2. Identity /\ UniqueIds
  BY MessagesAssumption DEF Init, Identity, UniqueIds, Unknown, Subscribers
<1>3. \A s \in Sessions : Handled(s)
  <2>1. TAKE s \in Sessions
  <2>2. /\ call[s].pc = "idle" /\ call[s].msg = NoMessage /\ call[s].subs = {}
        /\ ~NoMessage.text
    BY IdleFacts DEF Init, NoMessage
  <2> QED
    BY <2>2 DEF Handled, Delivering
<1>4. OwnMessages /\ Rows
  BY IdleFacts DEF Init, OwnMessages, Rows, NoMessage
<1>5. SeenIsStored /\ OnlyParticipants /\ StoredIsShown /\ LeftByAbandonedOnly
  BY DEF Init, SeenIsStored, OnlyParticipants, StoredIsShown, LeftByAbandonedOnly
<1> QED
  BY <1>1, <1>2, <1>3, <1>4, <1>5 DEF IInv

LEMMA Inductive == IInv /\ [Next]_vars => IInv'
<1> SUFFICES ASSUME IInv, [Next]_vars PROVE IInv'
  OBVIOUS
<1>1. CASE UNCHANGED vars
  <2>1. UNCHANGED <<people, rows, history, call, request, inbox, unsaved, sent, writes>>
        /\ down' \in BOOLEAN /\ failures' \in 0..MaxFailures
    BY <1>1 DEF vars, people, tables, bounds, IInv, TypeOK
  <2> QED
    BY <2>1, Ended
<1>2. ASSUME NEW s \in Sessions, Handler(s)
      PROVE  IInv'
  <2>1. CASE join(s) \/ leave(s)
    BY <2>1, JoinLeave
  <2>2. CASE set_client_param(s)
    BY <2>2, SetClientParam
  <2>3. CASE verify_auth_from_hash(s) \/ verify_auth_from_sid(s) \/ get_user_info(s)
    BY <2>3, Authorization
  <2>4. CASE \E to \in Receivers : forward_message(s, to)
    BY <2>4, ForwardMessage
  <2>5. CASE find_receivers(s)
    BY <2>5, FindReceivers
  <2>6. CASE find_wild(s)
    <3>1. UNCHANGED <<people, rows, history, call, request, inbox, unsaved, sent, writes>>
          /\ down' \in BOOLEAN /\ failures' \in 0..MaxFailures
      BY <2>6 DEF find_wild, people, tables, bounds, IInv, TypeOK
    <3> QED
      BY <3>1, Ended
  <2>7. CASE get_channel_token(s)
    BY <2>7, GetChannelToken
  <2>8. CASE insert_message(s)
    <3>1. /\ UNCHANGED <<people, rows, request, inbox, unsaved, down, sent, writes>>
          /\ failures' \in 0..MaxFailures /\ Goto(s, "send")
          /\ call[s].pc = "insert" /\ history' = history \cup {Row(s)}
      BY <2>8 DEF insert_message, At, bounds, IInv, TypeOK
    <3> QED
      BY <3>1, GoesOn
  <2>9. CASE send_private(s)
    BY <2>9, SendPrivate
  <2>10. CASE send_channel(s)
    BY <2>10, SendChannel
  <2>11. CASE statement_fails(s)
    BY <2>11, StatementFails
  <2> QED
    BY <1>2, <2>1, <2>2, <2>3, <2>4, <2>5, <2>6, <2>7, <2>8, <2>9, <2>10, <2>11 DEF Handler
<1>3. ASSUME NEW r \in Requests, begin_request(r) \/ abandon_request(r) \/ end_request(r)
      PROVE  IInv'
  BY <1>3, RequestStep
<1>4. ASSUME NEW u \in Users, NEW h \in Hashes, insert_or_update_user(u, h)
      PROVE  IInv'
  BY <1>4, UserWritten
<1> QED
  BY <1>1, <1>2, <1>3, <1>4 DEF Next

\* The inductive invariant of the sessions, the tables and the handlers.
THEOREM Invariance == Spec => []IInv
BY Initially, Inductive, PTL DEF Spec

\* Sessions, tables and handlers keep their types.
THEOREM TypeCorrect == Spec => []TypeOK
BY Invariance, PTL DEF IInv

\* forward_message() stores before it sends, whatever fails.
THEOREM Stored == Spec => []SeenIsStored
BY Invariance, PTL DEF IInv

\* A private text stays between the two users it is between.
THEOREM Private == Spec => []OnlyParticipants
BY Invariance, PTL DEF IInv

\* The sender is shown what is stored.
THEOREM Shown == Spec => []StoredIsShown
BY Invariance, PTL DEF IInv

\* Only an abandoned request leaves its session behind.
THEOREM LeftBehind == Spec => []LeftByAbandonedOnly
BY Invariance, PTL DEF IInv

\* The token of a row is the token of its two users, in either order, and of no
\* other pair: an _id does not change, and no two users share one.
LEMMA TokensTell == IInv => FoundByBoth
<1> SUFFICES ASSUME IInv, NEW row \in history,
                    NEW a \in Users \cup {channel}, NEW b \in Users \cup {channel}
             PROVE  row.id \in get_messages(a, b) <=>
                      \/ {a, b} = {row.first, row.second}
                      \/ channel \in {a, b} /\ row.second = channel
  BY DEF FoundByBoth
<1>1. row.id \in get_messages(a, b) <=> row.token = Token(a, b)
  BY DEF get_messages, IInv, Rows
<1>2. /\ row.token = Token(row.first, row.second) /\ row.token # Error
      /\ row.first \in Users \cup {nil} /\ row.second \in Users \cup {channel}
  BY DEF IInv, Rows, TypeOK
<1>3. \A u, v \in Users : rows[u].id \in Nat /\ rows[v].id \in Nat
        /\ (InUsers(u) /\ InUsers(v) /\ rows[u].id = rows[v].id => u = v)
  BY DEF IInv, TypeOK, UniqueIds, InUsers
<1>4. CASE row.second = channel
  <2>1. row.token = <<channel>>
    BY <1>2, <1>4 DEF Token
  <2>2. channel \in {a, b} => Token(a, b) = <<channel>>
    BY DEF Token
  <2>3. channel \notin {a, b} => Token(a, b) # <<channel>>
    <3>1. \A x, y : <<x, y>> # <<channel>> /\ Error # <<channel>>
      <4>1. \A x, y : Len(<<x, y>>) = 2 /\ Len(<<channel>>) = 1 /\ Len(<<>>) = 0
        OBVIOUS
      <4> QED
        BY <4>1 DEF Error
    <3> QED
      BY <3>1 DEF Token
  <2> QED
    BY <1>1, <1>2, <1>4, <2>1, <2>2, <2>3
<1>5. CASE row.second # channel
  <2>1. /\ row.first \in Users /\ row.second \in Users /\ row.first # row.second
        /\ InUsers(row.first) /\ InUsers(row.second)
        /\ row.token \in {<<row.first, row.second>>, <<row.second, row.first>>}
        /\ row.token = IF rows[row.first].id < rows[row.second].id
                       THEN <<row.first, row.second>> ELSE <<row.second, row.first>>
    BY <1>2, <1>5, Apart DEF Token, InUsers
  <2>2. CASE channel \in {a, b}
    <3>1. Token(a, b) = <<channel>>
      BY <2>2 DEF Token
    <3> QED
      BY <1>1, <1>5, <2>1, <2>2, <3>1, Apart
  <2>3. CASE channel \notin {a, b}
    <3>1. a \in Users /\ b \in Users
      BY <2>3
    <3>2. CASE a # b /\ InUsers(a) /\ InUsers(b)
      <4>1. Token(a, b) = IF rows[a].id < rows[b].id THEN <<a, b>> ELSE <<b, a>>
        BY <2>3, <3>2 DEF Token
      <4>2. row.token = Token(a, b) => {a, b} = {row.first, row.second}
        BY <2>1, <4>1
      <4>3. a = row.first /\ b = row.second => row.token = Token(a, b)
        BY <1>2
      <4>4. a = row.second /\ b = row.first => row.token = Token(a, b)
        BY <1>3, <2>1, <3>1, <3>2, <4>1
      <4>5. {a, b} = {row.first, row.second} =>
              (a = row.first /\ b = row.second) \/ (a = row.second /\ b = row.first)
        BY <2>1, <3>2
      <4> QED
        BY <1>1, <1>5, <2>3, <4>2, <4>3, <4>4, <4>5
    <3>3. CASE ~(a # b /\ InUsers(a) /\ InUsers(b))
      <4>1. Token(a, b) = Error
        BY <2>3, <3>3 DEF Token
      <4>2. {a, b} # {row.first, row.second}
        BY <2>1, <3>3
      <4> QED
        BY <1>1, <1>2, <1>5, <2>3, <4>1, <4>2
    <3> QED
      BY <3>2, <3>3
  <2> QED
    BY <2>2, <2>3
<1> QED
  BY <1>4, <1>5

\* What is stored is found by both, and by no other pair.
THEOREM FoundAgain == Spec => []FoundByBoth
BY Invariance, TokensTell, PTL
=============================================================================
