------------------------- MODULE SessionRegistryProofs -------------------------
(***************************************************************************)
(* For any sessions, threads and bounds: sessions_ holds no pointer to a     *)
(* destroyed session, and holds every session that has joined until its      *)
(* destructor runs; and a session is told of the others in the right order,  *)
(* of each join and each leave once, and of the leave of whoever it knows.   *)
(* No session is leaked, none that is not authorized is without a dead line, *)
(* and only a private message terminates the server.                         *)
(***************************************************************************)
EXTENDS SessionRegistry, FiniteSetTheorems, SequenceTheorems, TLAPS

-----------------------------------------------------------------------------
(* The inductive invariant.                                                 *)

Mentions(q, x) == \E i \in 1..Len(q) : q[i] = x

\* What a handler does to its session, it does before it lets go of it.
Ends(q) ==
  \A i \in 1..Len(q) : q[i].op \in {"insert", "listen", "read"}
    => \E j \in (i + 1)..Len(q) : q[j] = Do("end", q[i].s)

\* A destructor that has still to leave has still to free.
Frees(q) ==
  \A i \in 1..Len(q) : q[i].op = "erase"
    => \E j \in (i + 1)..Len(q) : q[j] = Do("freed", q[i].s)

\* The destructor of s leaves before it frees.
Leaves(q, s) ==
  \A i \in 1..Len(q) : q[i] = Do("freed", s) => \E j \in 1..(i - 1) : q[j] = Do("erase", s)

Typed ==
  /\ registered \subseteq Sessions
  /\ phase \in [Sessions -> {"none", "live", "gone"}]
  /\ uuid \in [Sessions -> Sessions \cup {nil_uuid}]
  /\ \A s \in Sessions : uuid[s] \in {s, nil_uuid}
  /\ authorized_ \in [Sessions -> BOOLEAN] /\ link \in [Sessions -> BOOLEAN]
  /\ pending \in [Sessions -> [Operations -> Nat]]
  /\ posts \in [Sessions -> Nat]
  /\ told \in [Sessions -> Seq(Notices)]
  /\ todo \in [Threads -> Seq(Ops)]
  /\ down \in BOOLEAN
  /\ texts \in 0..MaxTexts /\ privates \in 0..MaxPrivate /\ params \in 0..MaxParams

\* A thread in the destructor of s is alone with it.
Dying ==
  \A th \in Threads, s \in Sessions :
    Mentions(todo[th], Do("freed", s)) =>
      /\ ~Referenced(s) /\ phase[s] # "none"
      /\ s \notin registered \/ Leaves(todo[th], s)

IInv ==
  /\ Typed
  /\ \A th \in Threads : Ends(todo[th]) /\ Frees(todo[th])
  /\ Dying
  /\ \A s \in Sessions : Referenced(s) => phase[s] = "live"
  /\ \A s \in Sessions : phase[s] = "none" => uuid[s] = nil_uuid
  /\ \A s \in Sessions : uuid[s] # nil_uuid /\ phase[s] = "live"
       => s \in registered \/ \E th \in Threads : Mentions(todo[th], Do("freed", s))
  /\ RegisteredIsAlive

-----------------------------------------------------------------------------
(* Programs.                                                                *)

LEMMA Plain ==
  ASSUME NEW x \in Ops, x.op \notin {"notify", "post"}
  PROVE  x.s \in Sessions /\ x = Do(x.op, x.s)
BY DEF Ops, Do

LEMMA Carried ==
  ASSUME NEW x \in Ops, x.op \in {"notify", "post"}
  PROVE  x.s \in Sessions \cup {nil_uuid} /\ x.m \in Notices
BY DEF Ops

LEMMA Steps ==
  ASSUME NEW s \in Sessions,
         NEW op \in {"insert", "erase", "freed", "listen", "read", "end", "drop",
                     "search", "raw", "authorize", "look_up"}
  PROVE  Do(op, s) \in Ops /\ Do(op, s).op = op /\ Do(op, s).s = s
BY DEF Ops, Do

LEMMA Notes ==
  ASSUME NEW s \in Sessions \cup {nil_uuid}, NEW op \in {"notify", "post"}, NEW m \in Notices
  PROVE  Say(op, s, m) \in Ops /\ Say(op, s, m).op = op
BY DEF Ops, Say

LEMMA Joined ==
  ASSUME NEW first \in Seq(Ops), NEW q \in Seq(Ops), q # <<>>
  PROVE  /\ first \o Tail(q) \in Seq(Ops)
         /\ Len(first \o Tail(q)) = Len(first) + Len(q) - 1
         /\ \A i \in 1..Len(first) : (first \o Tail(q))[i] = first[i]
         /\ \A i \in 2..Len(q) : (first \o Tail(q))[i + Len(first) - 1] = q[i]
         /\ \A i \in 1..Len(first \o Tail(q)) :
              \/ i \in 1..Len(first)
              \/ i - Len(first) + 1 \in 2..Len(q)
                 /\ (first \o Tail(q))[i] = q[i - Len(first) + 1]
<1>1. Tail(q) \in Seq(Ops) /\ Len(Tail(q)) = Len(q) - 1 /\ Len(q) \in Nat \ {0}
  OBVIOUS
<1>2. \A i \in 1..Len(Tail(q)) : Tail(q)[i] = q[i + 1]
  OBVIOUS
<1>3. first \o Tail(q) \in Seq(Ops) /\ Len(first \o Tail(q)) = Len(first) + Len(q) - 1
  BY <1>1
<1>4. \A i \in 1..Len(first) : (first \o Tail(q))[i] = first[i]
  BY <1>1
<1>5. \A i \in 2..Len(q) : (first \o Tail(q))[i + Len(first) - 1] = q[i]
  <2> TAKE i \in 2..Len(q)
  <2>1. (first \o Tail(q))[(i - 1) + Len(first)] = Tail(q)[i - 1]
    BY <1>1
  <2> QED
    BY <2>1, <1>1, <1>2
<1>6. ASSUME NEW i \in 1..Len(first \o Tail(q)), i \notin 1..Len(first)
      PROVE  i - Len(first) + 1 \in 2..Len(q)
             /\ (first \o Tail(q))[i] = q[i - Len(first) + 1]
  <2>1. i - Len(first) + 1 \in 2..Len(q)
    BY <1>1, <1>3, <1>6
  <2>2. (i - Len(first) + 1) + Len(first) - 1 = i
    BY <1>3
  <2> QED
    BY <2>1, <2>2, <1>5
<1> QED
  BY <1>3, <1>4, <1>5, <1>6

LEMMA MentionsJoined ==
  ASSUME NEW first \in Seq(Ops), NEW q \in Seq(Ops), q # <<>>, NEW x
  PROVE  /\ Mentions(first, x) => Mentions(first \o Tail(q), x)
         /\ Mentions(first \o Tail(q), x) => Mentions(first, x) \/ Mentions(Tail(q), x)
         /\ Mentions(Tail(q), x) => Mentions(first \o Tail(q), x) /\ Mentions(q, x)
         /\ Mentions(q, x) => Head(q) = x \/ Mentions(Tail(q), x)
         /\ Mentions(q, Head(q))
<1> DEFINE p == first \o Tail(q)
<1>1. /\ Tail(q) \in Seq(Ops) /\ Len(Tail(q)) = Len(q) - 1 /\ Len(q) \in Nat \ {0}
      /\ Head(q) = q[1] /\ \A i \in 1..Len(Tail(q)) : Tail(q)[i] = q[i + 1]
  OBVIOUS
<1>2. \A i \in 2..Len(q) : Tail(q)[i - 1] = q[i] /\ i - 1 \in 1..Len(Tail(q))
  BY <1>1
<1>3. Mentions(first, x) => Mentions(p, x)
  BY <1>1, Joined DEF Mentions
<1>4. Mentions(p, x) => Mentions(first, x) \/ Mentions(Tail(q), x)
  <2> SUFFICES ASSUME NEW i \in 1..Len(p), p[i] = x
               PROVE  Mentions(first, x) \/ Mentions(Tail(q), x)
    BY DEF Mentions
  <2> HIDE DEF p
  <2>1. CASE i \in 1..Len(first)
    BY <2>1, Joined DEF p, Mentions
  <2>2. CASE i - Len(first) + 1 \in 2..Len(q) /\ p[i] = q[i - Len(first) + 1]
    BY <2>2, <1>2 DEF Mentions
  <2> QED
    BY <2>1, <2>2, Joined DEF p
<1>5. Mentions(Tail(q), x) => Mentions(p, x) /\ Mentions(q, x)
  <2> SUFFICES ASSUME NEW i \in 1..Len(Tail(q)), Tail(q)[i] = x
               PROVE  Mentions(p, x) /\ Mentions(q, x)
    BY DEF Mentions
  <2>1. i + 1 \in 2..Len(q) /\ q[i + 1] = x
    BY <1>1
  <2>2. p[i + 1 + Len(first) - 1] = x /\ i + 1 + Len(first) - 1 \in 1..Len(p)
    BY <2>1, Joined
  <2>3. Mentions(p, x)
    <3> HIDE DEF p
    <3> QED  BY <2>2 DEF Mentions
  <2>4. Mentions(q, x)
    BY <2>1 DEF Mentions
  <2> QED
    BY <2>3, <2>4
<1>6. Mentions(q, x) => Head(q) = x \/ Mentions(Tail(q), x)
  <2> SUFFICES ASSUME NEW i \in 1..Len(q), q[i] = x, i # 1
               PROVE  Mentions(Tail(q), x)
    BY <1>1 DEF Mentions
  <2>1. i \in 2..Len(q)
    BY <1>1
  <2>2. Tail(q)[i - 1] = x /\ i - 1 \in 1..Len(Tail(q))
    BY <1>2, <2>1
  <2> QED
    BY <2>2 DEF Mentions
<1>7. Mentions(q, Head(q))
  BY <1>1 DEF Mentions
<1> QED
  BY <1>3, <1>4, <1>5, <1>6, <1>7

\* Every operation of q that is in ops has op of its session after it.
Leads(q, ops, op) ==
  \A i \in 1..Len(q) : q[i].op \in ops => \E j \in (i + 1)..Len(q) : q[j] = Do(op, q[i].s)

LEMMA LeadsJoined ==
  ASSUME NEW first \in Seq(Ops), NEW q \in Seq(Ops), q # <<>>, NEW ops, NEW op,
         Leads(first, ops, op), Leads(q, ops, op)
  PROVE  Leads(first \o Tail(q), ops, op)
<1> DEFINE p == first \o Tail(q)
<1> SUFFICES ASSUME NEW i \in 1..Len(p), p[i].op \in ops
             PROVE  \E j \in (i + 1)..Len(p) : p[j] = Do(op, p[i].s)
  BY DEF Leads
<1> HIDE DEF p
<1>1. CASE i \in 1..Len(first)
  <2>1. first[i] = p[i]
    BY <1>1, Joined DEF p
  <2>2. PICK j \in (i + 1)..Len(first) : first[j] = Do(op, first[i].s)
    BY <1>1, <2>1 DEF Leads
  <2>3. p[j] = first[j] /\ j \in (i + 1)..Len(p)
    BY <1>1, Joined DEF p
  <2> QED
    BY <2>1, <2>2, <2>3
<1>2. CASE i - Len(first) + 1 \in 2..Len(q) /\ p[i] = q[i - Len(first) + 1]
  <2> DEFINE k == i - Len(first) + 1
  <2>0. k \in 1..Len(q) /\ p[i] = q[k] /\ k + 1 = i - Len(first) + 2
    BY <1>2
  <2>1. PICK j \in (i - Len(first) + 2)..Len(q) : q[j] = Do(op, p[i].s)
    <3> HIDE DEF k
    <3> QED  BY <2>0 DEF Leads
  <2>2. p[j + Len(first) - 1] = q[j] /\ j + Len(first) - 1 \in (i + 1)..Len(p)
    BY <2>1, <1>2, Joined DEF p
  <2> QED
    BY <2>1, <2>2
<1> QED
  BY <1>1, <1>2, Joined DEF p

LEMMA EndsJoined ==
  ASSUME NEW first \in Seq(Ops), NEW q \in Seq(Ops), q # <<>>, Ends(first), Ends(q)
  PROVE  Ends(first \o Tail(q))
<1> DEFINE ops == {"insert", "listen", "read"}
<1>1. Leads(first, ops, "end") /\ Leads(q, ops, "end")
  BY DEF Ends, Leads
<1> HIDE DEF ops
<1>2. Leads(first \o Tail(q), ops, "end")
  BY <1>1, LeadsJoined
<1> QED
  BY <1>2 DEF Ends, Leads, ops

LEMMA FreesJoined ==
  ASSUME NEW first \in Seq(Ops), NEW q \in Seq(Ops), q # <<>>, Frees(first), Frees(q)
  PROVE  Frees(first \o Tail(q))
<1>1. Leads(first, {"erase"}, "freed") /\ Leads(q, {"erase"}, "freed")
  BY DEF Frees, Leads
<1>2. Leads(first \o Tail(q), {"erase"}, "freed")
  BY <1>1, LeadsJoined
<1> QED
  BY <1>2 DEF Frees, Leads

LEMMA LeavesJoined ==
  ASSUME NEW first \in Seq(Ops), NEW q \in Seq(Ops), q # <<>>, NEW s \in Sessions,
         Leaves(first, s), Leaves(q, s), Head(q) # Do("erase", s)
  PROVE  Leaves(first \o Tail(q), s)
<1> DEFINE p == first \o Tail(q)
<1> SUFFICES ASSUME NEW i \in 1..Len(p), p[i] = Do("freed", s)
             PROVE  \E j \in 1..(i - 1) : p[j] = Do("erase", s)
  BY DEF Leaves
<1> HIDE DEF p
<1>1. CASE i \in 1..Len(first)
  <2>1. PICK j \in 1..(i - 1) : first[j] = Do("erase", s)
    BY <1>1, Joined DEF Leaves, p
  <2> QED
    BY <2>1, <1>1, Joined DEF p
<1>2. CASE i - Len(first) + 1 \in 2..Len(q) /\ p[i] = q[i - Len(first) + 1]
  <2>1. PICK j \in 1..(i - Len(first)) : q[j] = Do("erase", s)
    BY <1>2 DEF Leaves
  <2>2. j # 1
    BY <2>1
  <2>3. p[j + Len(first) - 1] = q[j] /\ j + Len(first) - 1 \in 1..(i - 1)
    BY <2>1, <2>2, <1>2, Joined DEF p
  <2> QED
    BY <2>1, <2>3
<1> QED
  BY <1>1, <1>2, Joined DEF p

LEMMA HeldMentions ==
  ASSUME NEW s, NEW work
  PROVE  Held(s, work) <=>
           \E th \in Threads : \/ Mentions(work[th], Do("end", s))
                               \/ Mentions(work[th], Do("drop", s))
BY DEF Held, Mentions

-----------------------------------------------------------------------------
(* What one thread's step does to what is left to do.                       *)

\* Thread th has `first' to do instead of the operation it has done.
Becomes(th, first) ==
  /\ todo' \in [Threads -> Seq(Ops)]
  /\ \A t \in Threads : t # th => todo'[t] = todo[t]
  /\ Ends(first) => Ends(todo'[th])
  /\ Frees(first) => Frees(todo'[th])
  /\ \A x : Mentions(first, x) => Mentions(todo'[th], x)
  /\ \A x : Mentions(todo'[th], x) => Mentions(first, x) \/ Mentions(todo[th], x)
  /\ \A x : Mentions(todo[th], x)
              => Mentions(todo'[th], x) \/ (todo[th] # <<>> /\ x = Head(todo[th]))
  /\ \A s \in Sessions :
       Leaves(first, s) /\ Leaves(todo[th], s)
         /\ (todo[th] = <<>> \/ Head(todo[th]) # Do("erase", s)) => Leaves(todo'[th], s)

LEMMA ContinueBecomes ==
  ASSUME Typed, NEW th \in Threads, todo[th] # <<>>, Ends(todo[th]), Frees(todo[th]),
         NEW first \in Seq(Ops), Continue(th, first)
  PROVE  Becomes(th, first)
<1> DEFINE q == todo[th]
<1>1. q \in Seq(Ops) /\ q # <<>> /\ Ends(q) /\ Frees(q)
  BY DEF Typed
<1>2. todo'[th] = first \o Tail(q) /\ \A t \in Threads : t # th => todo'[t] = todo[t]
  BY DEF Typed, Continue
<1>3. first \o Tail(q) \in Seq(Ops)
  BY <1>1, Joined
<1>4. todo' \in [Threads -> Seq(Ops)]
  BY <1>2, <1>3 DEF Typed, Continue
<1> HIDE DEF q
<1>5. (Ends(first) => Ends(todo'[th])) /\ (Frees(first) => Frees(todo'[th]))
  BY <1>1, <1>2, EndsJoined, FreesJoined
<1>6. ASSUME NEW x
      PROVE  /\ Mentions(first, x) => Mentions(todo'[th], x)
             /\ Mentions(todo'[th], x) => Mentions(first, x) \/ Mentions(q, x)
             /\ Mentions(q, x) => Mentions(todo'[th], x) \/ x = Head(q)
  BY <1>1, <1>2, MentionsJoined
<1>7. ASSUME NEW s \in Sessions, Leaves(first, s), Leaves(q, s), Head(q) # Do("erase", s)
      PROVE  Leaves(todo'[th], s)
  BY <1>1, <1>2, <1>7, LeavesJoined
<1> QED
  BY <1>1, <1>2, <1>4, <1>5, <1>6, <1>7 DEF Becomes, q

LEMMA RunBecomes ==
  ASSUME Typed, NEW th \in Threads, todo[th] = <<>>,
         NEW program \in Seq(Ops), Run(th, program)
  PROVE  Becomes(th, program)
<1>1. todo'[th] = program /\ todo' \in [Threads -> Seq(Ops)]
      /\ \A t \in Threads : t # th => todo'[t] = todo[t]
  BY DEF Typed, Run
<1>2. \A x : ~Mentions(todo[th], x)
  BY DEF Mentions
<1> QED
  BY <1>1, <1>2 DEF Becomes

\* Operation op of s is next.
LEMMA AtDo ==
  ASSUME Typed, NEW th \in Threads, NEW op, op \notin {"notify", "post"},
         NEW s, At(th, op, s)
  PROVE  /\ todo[th] # <<>> /\ Head(todo[th]) = Do(op, s) /\ s \in Sessions
         /\ Mentions(todo[th], Do(op, s))
<1>1. todo[th] \in Seq(Ops) /\ todo[th] # <<>>
  BY DEF Typed, At
<1>2. Head(todo[th]) \in Ops /\ Head(todo[th]).op = op /\ Head(todo[th]).s = s
  BY <1>1 DEF At
<1>3. Head(todo[th]) = Do(op, s) /\ s \in Sessions
  BY <1>2, Plain
<1> QED
  BY <1>1, <1>3, MentionsJoined

\* A thread that has still to arm, to read or to insert keeps its session.
LEMMA Keeps ==
  ASSUME IInv, NEW th \in Threads, NEW op \in {"insert", "listen", "read", "end", "drop"},
         NEW s, At(th, op, s)
  PROVE  Referenced(s) /\ phase[s] = "live"
<1>1. todo[th] # <<>> /\ Head(todo[th]) = Do(op, s) /\ s \in Sessions
      /\ Mentions(todo[th], Do(op, s)) /\ todo[th] \in Seq(Ops)
  BY AtDo DEF IInv, Typed
<1>2. Mentions(todo[th], Do("end", s)) \/ Mentions(todo[th], Do("drop", s))
  <2>1. CASE op \in {"end", "drop"}
    BY <1>1, <2>1
  <2>2. CASE op \in {"insert", "listen", "read"}
    <3>1. Len(todo[th]) \in Nat \ {0} /\ todo[th][1] = Do(op, s)
      BY <1>1
    <3>2. todo[th][1].op \in {"insert", "listen", "read"} /\ todo[th][1].s = s
      BY <3>1, <2>2 DEF Do
    <3>3. PICK j \in (1 + 1)..Len(todo[th]) : todo[th][j] = Do("end", todo[th][1].s)
      BY <3>1, <3>2 DEF IInv, Ends
    <3> QED
      BY <3>1, <3>2, <3>3 DEF Mentions
  <2> QED
    BY <2>1, <2>2
<1> QED
  BY <1>1, <1>2, HeldMentions DEF Referenced, IInv

Holds(first, s) == Mentions(first, Do("end", s)) \/ Mentions(first, Do("drop", s))

\* A step that adds references only to a session that has one adds none.
LEMMA NoNewReference ==
  ASSUME NEW th \in Threads, NEW first, NEW r, Becomes(th, first),
         \A s \in Sessions : s = r \/ (/\ pending'[s] = pending[s] /\ posts'[s] = posts[s]
                                       /\ ~Holds(first, s)),
         Referenced(r)
  PROVE  \A s \in Sessions : Referenced(s)' => Referenced(s)
<1> SUFFICES ASSUME NEW s \in Sessions, s # r, Referenced(s)' PROVE Referenced(s)
  OBVIOUS
<1>1. pending'[s] = pending[s] /\ posts'[s] = posts[s] /\ ~Holds(first, s)
  OBVIOUS
<1>2. Held(s, todo') => Held(s, todo)
  <2> SUFFICES ASSUME NEW t \in Threads, NEW x \in {Do("end", s), Do("drop", s)},
                      Mentions(todo'[t], x)
               PROVE  Mentions(todo[t], x)
    BY HeldMentions
  <2>1. ~Mentions(first, x)
    BY <1>1 DEF Holds
  <2> QED
    BY <2>1 DEF Becomes
<1> QED
  BY <1>1, <1>2 DEF Referenced

LEMMA SameReferences ==
  ASSUME NEW th \in Threads, NEW first, Becomes(th, first),
         \A s \in Sessions : ~Holds(first, s), UNCHANGED <<pending, posts>>
  PROVE  \A s \in Sessions : Referenced(s)' => Referenced(s)
<1> SUFFICES ASSUME NEW s \in Sessions, Held(s, todo') PROVE Held(s, todo)
  BY DEF Referenced
<1> SUFFICES ASSUME NEW t \in Threads, NEW x \in {Do("end", s), Do("drop", s)},
                    Mentions(todo'[t], x)
             PROVE  Mentions(todo[t], x)
  BY HeldMentions
<1>1. ~Mentions(first, x)
  BY DEF Holds
<1> QED
  BY <1>1 DEF Becomes

\* A program of a handler.
Harmless(first) ==
  /\ Ends(first) /\ Frees(first)
  /\ \A s \in Sessions : ~Mentions(first, Do("freed", s))

LEMMA HarmlessLeaves ==
  ASSUME NEW first, Harmless(first), NEW s \in Sessions
  PROVE  Leaves(first, s)
BY DEF Harmless, Leaves, Mentions

\* A step that neither registers nor destroys a session.
LEMMA OtherNext ==
  ASSUME IInv, Typed', NEW th \in Threads, NEW first, Becomes(th, first), Harmless(first),
         todo[th] = <<>> \/ Head(todo[th]).op \notin {"erase", "freed"},
         UNCHANGED <<registered, phase, uuid>>,
         \A s \in Sessions : Referenced(s)' => Referenced(s)
  PROVE  IInv'
<1>1. \A t \in Threads : Ends(todo'[t]) /\ Frees(todo'[t])
  BY DEF IInv, Becomes, Harmless
<1>2. \A s \in Sessions : todo[th] = <<>> \/ /\ Head(todo[th]) # Do("erase", s)
                                             /\ Head(todo[th]) # Do("freed", s)
  BY DEF Do
<1>3. Dying'
  <2> SUFFICES ASSUME NEW t \in Threads, NEW s \in Sessions,
                      Mentions(todo'[t], Do("freed", s))
               PROVE  /\ ~Referenced(s)' /\ phase'[s] # "none"
                      /\ s \notin registered' \/ Leaves(todo'[t], s)
    BY DEF Dying
  <2>1. Mentions(todo[t], Do("freed", s))
    BY DEF Becomes, Harmless
  <2>2. ~Referenced(s) /\ phase[s] # "none" /\ (s \notin registered \/ Leaves(todo[t], s))
    BY <2>1 DEF IInv, Dying
  <2>3. Leaves(todo[t], s) => Leaves(todo'[t], s)
    BY <1>2, HarmlessLeaves DEF Becomes
  <2> QED
    BY <2>2, <2>3
<1>4. \A s \in Sessions : uuid'[s] # nil_uuid /\ phase'[s] = "live"
        => s \in registered' \/ \E t \in Threads : Mentions(todo'[t], Do("freed", s))
  <2> SUFFICES ASSUME NEW s \in Sessions, uuid[s] # nil_uuid, phase[s] = "live",
                      s \notin registered
               PROVE  \E t \in Threads : Mentions(todo'[t], Do("freed", s))
    OBVIOUS
  <2>1. PICK t \in Threads : Mentions(todo[t], Do("freed", s))
    BY DEF IInv
  <2>2. Mentions(todo'[t], Do("freed", s))
    BY <2>1, <1>2 DEF Becomes
  <2> QED
    BY <2>2
<1> QED
  BY <1>1, <1>3, <1>4 DEF IInv, RegisteredIsAlive

-----------------------------------------------------------------------------
(* The programs of the handlers.                                            *)

\* Operations after which nothing of their session is owed.
Free == {"notify", "post", "search", "raw", "authorize", "look_up"}

LEMMA Appended ==
  ASSUME NEW p \in Seq(Ops), NEW q \in Seq(Ops), NEW u \in Seq(Ops),
         Len(u) = Len(p) + Len(q),
         \A i \in 1..Len(p) : u[i] = p[i],
         \A i \in 1..Len(u) : i > Len(p) => u[i] = q[i - Len(p)]
  PROVE  p \o q = u
<1>1. p \o q \in Seq(Ops) /\ Len(p \o q) = Len(u)
  BY ConcatProperties
<1>2. \A i \in 1..Len(p \o q) : (p \o q)[i] = u[i]
  BY <1>1, ConcatProperties
<1> QED
  BY <1>1, <1>2, SeqEqual

LEMMA Two ==
  ASSUME NEW a \in Ops, NEW b \in Ops
  PROVE  <<a>> \o <<b>> = <<a, b>>
<1> DEFINE p == <<a>>  q == <<b>>  u == <<a, b>>
<1>1. /\ p \in Seq(Ops) /\ q \in Seq(Ops) /\ u \in Seq(Ops)
      /\ Len(p) = 1 /\ Len(q) = 1 /\ Len(u) = 2
      /\ p[1] = a /\ q[1] = b /\ u[1] = a /\ u[2] = b
  OBVIOUS
<1> HIDE DEF p, q, u
<1>2. \A i \in 1..Len(p) : u[i] = p[i]
  BY <1>1
<1>3. \A i \in 1..Len(u) : i > Len(p) => u[i] = q[i - Len(p)]
  BY <1>1
<1>4. Len(u) = Len(p) + Len(q)
  BY <1>1
<1>5. p \o q = u
  BY <1>1, <1>2, <1>3, <1>4, Appended
<1> QED
  BY <1>5 DEF p, q, u

LEMMA Three ==
  ASSUME NEW a \in Ops, NEW c \in Ops, NEW d \in Ops
  PROVE  <<a>> \o <<c, d>> = <<a, c, d>>
<1> DEFINE p == <<a>>  q == <<c, d>>  u == <<a, c, d>>
<1>1. /\ p \in Seq(Ops) /\ q \in Seq(Ops) /\ u \in Seq(Ops)
      /\ Len(p) = 1 /\ Len(q) = 2 /\ Len(u) = 3
      /\ p[1] = a /\ q[1] = c /\ q[2] = d /\ u[1] = a /\ u[2] = c /\ u[3] = d
  OBVIOUS
<1> HIDE DEF p, q, u
<1>2. \A i \in 1..Len(p) : u[i] = p[i]
  BY <1>1
<1>3. \A i \in 1..Len(u) : i > Len(p) => u[i] = q[i - Len(p)]
  BY <1>1
<1>4. Len(u) = Len(p) + Len(q)
  BY <1>1
<1>5. p \o q = u
  BY <1>1, <1>2, <1>3, <1>4, Appended
<1> QED
  BY <1>5 DEF p, q, u

LEMMA Four ==
  ASSUME NEW a \in Ops, NEW b \in Ops, NEW c \in Ops, NEW d \in Ops
  PROVE  <<a, b>> \o <<c, d>> = <<a, b, c, d>>
<1> DEFINE p == <<a, b>>  q == <<c, d>>  u == <<a, b, c, d>>
<1>1. /\ p \in Seq(Ops) /\ q \in Seq(Ops) /\ u \in Seq(Ops)
      /\ Len(p) = 2 /\ Len(q) = 2 /\ Len(u) = 4
      /\ p[1] = a /\ p[2] = b /\ q[1] = c /\ q[2] = d
      /\ u[1] = a /\ u[2] = b /\ u[3] = c /\ u[4] = d
  OBVIOUS
<1> HIDE DEF p, q, u
<1>2. \A i \in 1..Len(p) : u[i] = p[i]
  BY <1>1
<1>3. \A i \in 1..Len(u) : i > Len(p) => u[i] = q[i - Len(p)]
  BY <1>1
<1>4. Len(u) = Len(p) + Len(q)
  BY <1>1
<1>5. p \o q = u
  BY <1>1, <1>2, <1>3, <1>4, Appended
<1> QED
  BY <1>5 DEF p, q, u

LEMMA FreeProgram ==
  ASSUME NEW first, \A i \in 1..Len(first) : first[i].op \in Free
  PROVE  Harmless(first) /\ \A s : ~Holds(first, s)
BY DEF Harmless, Ends, Frees, Holds, Mentions, Free, Do

LEMMA LetGo ==
  ASSUME NEW s \in Sessions, NEW op \in {"end", "drop"}
  PROVE  LET first == <<Do(op, s)>>
         IN  /\ first \in Seq(Ops) /\ Harmless(first)
             /\ \A r \in Sessions : r # s => ~Holds(first, r)
<1> DEFINE first == <<Do(op, s)>>
<1>1. first \in Seq(Ops) /\ Len(first) = 1 /\ first[1].op = op /\ first[1].s = s
  BY Steps
<1> HIDE DEF first
<1>2. Harmless(first) /\ \A r \in Sessions : r # s => ~Holds(first, r)
  BY <1>1 DEF Harmless, Ends, Frees, Holds, Mentions, Do
<1> QED
  BY <1>1, <1>2 DEF first

\* One operation, the next read, the end.
LEMMA OneMore ==
  ASSUME NEW s \in Sessions, NEW x \in Ops, x.op \in Free
  PROVE  LET first == <<x, Do("read", s), Do("end", s)>>
         IN  /\ first \in Seq(Ops) /\ Harmless(first)
             /\ \A r \in Sessions : r # s => ~Holds(first, r)
<1> DEFINE first == <<x, Do("read", s), Do("end", s)>>
<1>1. /\ first \in Seq(Ops) /\ Len(first) = 3 /\ first[1] = x
      /\ first[2].op = "read" /\ first[2].s = s /\ first[3] = Do("end", s)
      /\ first[3].op = "end" /\ first[3].s = s
  BY Steps
<1>2. 1..Len(first) = {1, 2, 3} /\ 2 + 1 = 3 /\ 3 \in 3..3
  BY <1>1
<1> HIDE DEF first
<1>3. Ends(first) /\ Frees(first)
  BY <1>1, <1>2 DEF Ends, Frees, Free
<1>4. ASSUME NEW r \in Sessions, NEW i \in 1..Len(first)
      PROVE  /\ first[i] # Do("freed", r) /\ first[i] # Do("drop", r)
             /\ r # s => first[i] # Do("end", r)
  BY <1>1, <1>2 DEF Do, Free
<1> QED
  BY <1>1, <1>3, <1>4 DEF first, Harmless, Holds, Mentions

LEMMA TwoMore ==
  ASSUME NEW s \in Sessions, NEW x \in Ops, x.op \in Free, NEW y \in Ops, y.op \in Free
  PROVE  LET first == <<x, y, Do("read", s), Do("end", s)>>
         IN  /\ first \in Seq(Ops) /\ Harmless(first)
             /\ \A r \in Sessions : r # s => ~Holds(first, r)
<1> DEFINE first == <<x, y, Do("read", s), Do("end", s)>>
<1>1. /\ first \in Seq(Ops) /\ Len(first) = 4 /\ first[1] = x /\ first[2] = y
      /\ first[3].op = "read" /\ first[3].s = s /\ first[4] = Do("end", s)
      /\ first[4].op = "end" /\ first[4].s = s
  BY Steps
<1>2. 1..Len(first) = {1, 2, 3, 4} /\ 3 + 1 = 4 /\ 4 \in 4..4
  BY <1>1
<1> HIDE DEF first
<1>3. Ends(first) /\ Frees(first)
  BY <1>1, <1>2 DEF Ends, Frees, Free
<1>4. ASSUME NEW r \in Sessions, NEW i \in 1..Len(first)
      PROVE  /\ first[i] # Do("freed", r) /\ first[i] # Do("drop", r)
             /\ r # s => first[i] # Do("end", r)
  BY <1>1, <1>2 DEF Do, Free
<1> QED
  BY <1>1, <1>3, <1>4 DEF first, Harmless, Holds, Mentions

LEMMA NothingElse ==
  ASSUME NEW s \in Sessions
  PROVE  LET first == Again(s)
         IN  /\ first \in Seq(Ops) /\ Harmless(first)
             /\ \A r \in Sessions : r # s => ~Holds(first, r)
<1> DEFINE first == <<Do("read", s), Do("end", s)>>
<1>1. /\ first \in Seq(Ops) /\ Len(first) = 2
      /\ first[1].op = "read" /\ first[1].s = s /\ first[2] = Do("end", s)
      /\ first[2].op = "end" /\ first[2].s = s
  BY Steps
<1>2. 1..Len(first) = {1, 2} /\ 1 + 1 = 2 /\ 2 \in 2..2
  BY <1>1
<1> HIDE DEF first
<1>3. Ends(first) /\ Frees(first)
  BY <1>1, <1>2 DEF Ends, Frees
<1>4. ASSUME NEW r \in Sessions, NEW i \in 1..Len(first)
      PROVE  /\ first[i] # Do("freed", r) /\ first[i] # Do("drop", r)
             /\ r # s => first[i] # Do("end", r)
  BY <1>1, <1>2 DEF Do
<1> QED
  BY <1>1, <1>3, <1>4 DEF first, Again, Harmless, Holds, Mentions

\* The program of a session that is accepted, written out.
LEMMA ArrivalIs ==
  ASSUME NEW s \in Sessions
  PROVE  \/ Arrival(s) = <<Do("insert", s), Say("notify", s, Join(s)), Do("listen", s), Do("end", s)>>
         \/ Arrival(s) = <<Do("insert", s), Do("listen", s), Do("end", s)>>
<1> DEFINE a == Do("insert", s)  b == Say("notify", s, Join(s))
           c == Do("listen", s)  d == Do("end", s)
<1>1. Join(s) \in Notices
  BY DEF Join, Notices
<1>2. a \in Ops /\ b \in Ops /\ c \in Ops /\ d \in Ops
  BY <1>1, Steps, Notes
<1>3. Arrival(s) = (<<a>> \o (IF UseAuthorization THEN <<b>> ELSE <<>>)) \o <<c, d>>
  BY DEF Arrival
<1> SUFFICES Arrival(s) = <<a, b, c, d>> \/ Arrival(s) = <<a, c, d>>
  OBVIOUS
<1> HIDE DEF a, b, c, d
<1>4. CASE UseAuthorization
  <2>1. <<a>> \o <<b>> = <<a, b>>
    BY <1>2, Two, Zenon
  <2>2. <<a, b>> \o <<c, d>> = <<a, b, c, d>>
    BY <1>2, Four
  <2> QED
    BY <1>3, <1>4, <2>1, <2>2, Zenon
<1>5. CASE ~UseAuthorization
  <2>1. <<a>> \o <<>> = <<a>>
    <3>1. <<a>> \in Seq(Ops)
      BY <1>2
    <3> QED
      BY <3>1, ConcatEmptySeq, Zenon
  <2>2. <<a>> \o <<c, d>> = <<a, c, d>>
    BY <1>2, Three, Zenon
  <2> QED
    BY <1>3, <1>5, <2>1, <2>2, Zenon
<1> QED
  BY <1>4, <1>5

LEMMA Arrives ==
  ASSUME NEW s \in Sessions
  PROVE  LET first == Arrival(s)
         IN  /\ first \in Seq(Ops) /\ Harmless(first)
             /\ \A r \in Sessions : r # s => ~Holds(first, r)
<1> DEFINE long  == <<Do("insert", s), Say("notify", s, Join(s)), Do("listen", s), Do("end", s)>>
           short == <<Do("insert", s), Do("listen", s), Do("end", s)>>
<1>1. Join(s) \in Notices
  BY DEF Join, Notices
<1>2. /\ long \in Seq(Ops) /\ Len(long) = 4
      /\ long[1].op = "insert" /\ long[1].s = s /\ long[2].op = "notify"
      /\ long[3].op = "listen" /\ long[3].s = s /\ long[4] = Do("end", s)
      /\ long[4].op = "end" /\ long[4].s = s
  BY <1>1, Steps, Notes
<1>3. /\ short \in Seq(Ops) /\ Len(short) = 3
      /\ short[1].op = "insert" /\ short[1].s = s
      /\ short[2].op = "listen" /\ short[2].s = s /\ short[3] = Do("end", s)
      /\ short[3].op = "end" /\ short[3].s = s
  BY Steps
<1>4. Arrival(s) = long \/ Arrival(s) = short
  BY ArrivalIs
<1> HIDE DEF long, short
<1>5. 1..Len(long) = {1, 2, 3, 4} /\ 4 \in (1 + 1)..Len(long) /\ 4 \in (3 + 1)..Len(long)
  BY <1>2
<1>6. 1..Len(short) = {1, 2, 3} /\ 3 \in (1 + 1)..Len(short) /\ 3 \in (2 + 1)..Len(short)
  BY <1>3
<1>7. Ends(long) /\ Frees(long)
  BY <1>2, <1>5 DEF Ends, Frees
<1>8. Ends(short) /\ Frees(short)
  BY <1>3, <1>6 DEF Ends, Frees
<1>9. ASSUME NEW r \in Sessions, NEW i \in 1..Len(long)
      PROVE  /\ long[i] # Do("freed", r) /\ long[i] # Do("drop", r)
             /\ r # s => long[i] # Do("end", r)
  BY <1>2, <1>5 DEF Do
<1>10. ASSUME NEW r \in Sessions, NEW i \in 1..Len(short)
       PROVE  /\ short[i] # Do("freed", r) /\ short[i] # Do("drop", r)
              /\ r # s => short[i] # Do("end", r)
  BY <1>3, <1>6 DEF Do
<1> QED
  BY <1>2, <1>3, <1>4, <1>7, <1>8, <1>9, <1>10 DEF Harmless, Holds, Mentions

LEMMA Departs ==
  ASSUME NEW s \in Sessions, uuid[s] \in {s, nil_uuid}
  PROVE  /\ Departure(s) \in Seq(Ops)
         /\ Ends(Departure(s)) /\ Frees(Departure(s)) /\ Leaves(Departure(s), s)
         /\ \A r \in Sessions : ~Holds(Departure(s), r)
         /\ Mentions(Departure(s), Do("freed", s))
         /\ \A r \in Sessions : r # s => ~Mentions(Departure(s), Do("freed", r))
<1> DEFINE first == <<Do("erase", s), Say("notify", nil_uuid, Leave(s)), Do("freed", s)>>
<1>1. Leave(s) \in Notices
  BY DEF Leave, Notices
<1>2. /\ first \in Seq(Ops) /\ Len(first) = 3
      /\ first[1] = Do("erase", s) /\ first[1].op = "erase" /\ first[1].s = s
      /\ first[2].op = "notify"
      /\ first[3] = Do("freed", s) /\ first[3].op = "freed" /\ first[3].s = s
  BY <1>1, Steps, Notes
<1> HIDE DEF first
<1>3. 1..Len(first) = {1, 2, 3} /\ 3 \in (1 + 1)..Len(first) /\ 1 \in 1..(3 - 1)
  BY <1>2
<1>4. Ends(first) /\ Frees(first)
  BY <1>2, <1>3 DEF Ends, Frees
<1>5. Leaves(first, s)
  <2> SUFFICES ASSUME NEW i \in 1..Len(first), first[i] = Do("freed", s)
               PROVE  i = 3
    BY <1>2, <1>3 DEF Leaves
  <2> QED
    BY <1>2, <1>3 DEF Do
<1>6. Mentions(first, Do("freed", s))
  BY <1>2, <1>3 DEF Mentions
<1>7. ASSUME NEW r \in Sessions, NEW i \in 1..Len(first)
      PROVE  /\ first[i] # Do("end", r) /\ first[i] # Do("drop", r)
             /\ r # s => first[i] # Do("freed", r)
  BY <1>2, <1>3 DEF Do
<1> QED
  BY <1>2, <1>4, <1>5, <1>6, <1>7 DEF first, Departure, Holds, Mentions

-----------------------------------------------------------------------------
(* The steps that register and destroy.                                     *)

LEMMA Empty == <<>> \in Seq(Ops) /\ Harmless(<<>>) /\ \A s : ~Holds(<<>>, s)
BY DEF Harmless, Ends, Frees, Holds, Mentions

LEMMA InsertNext ==
  ASSUME IInv, Typed', NEW th \in Threads, NEW s \in Sessions, insert(th, s)
  PROVE  IInv'
<1>1. Referenced(s) /\ phase[s] = "live"
  BY Keeps DEF insert
<1>2. todo[th] # <<>> /\ Head(todo[th]) = Do("insert", s)
  BY AtDo DEF insert, IInv
<1>3. Becomes(th, <<>>)
  BY <1>2, ContinueBecomes, Empty DEF insert, IInv
<1>4. /\ registered' = registered \cup {s} /\ uuid' = [uuid EXCEPT ![s] = s]
      /\ UNCHANGED <<phase, pending, posts>>
  BY DEF insert
<1>5. \A r \in Sessions : Referenced(r)' => Referenced(r)
  BY <1>3, <1>4, Empty, SameReferences
<1>6. \A t \in Threads : Ends(todo'[t]) /\ Frees(todo'[t])
  BY <1>3, Empty DEF IInv, Becomes, Harmless
<1>7. \A t \in Threads, r \in Sessions :
        Mentions(todo'[t], Do("freed", r)) => Mentions(todo[t], Do("freed", r))
  BY <1>3, Empty DEF Becomes, Harmless
<1>8. \A t \in Threads, r \in Sessions :
        Mentions(todo[t], Do("freed", r)) => Mentions(todo'[t], Do("freed", r))
  BY <1>2, <1>3 DEF Becomes, Do
<1>9. Dying'
  <2> SUFFICES ASSUME NEW t \in Threads, NEW r \in Sessions,
                      Mentions(todo'[t], Do("freed", r))
               PROVE  /\ ~Referenced(r)' /\ phase'[r] # "none"
                      /\ r \notin registered' \/ Leaves(todo'[t], r)
    BY DEF Dying
  <2>1. ~Referenced(r) /\ phase[r] # "none" /\ (r \notin registered \/ Leaves(todo[t], r))
    BY <1>7 DEF IInv, Dying
  <2>2. Leaves(todo[t], r) => Leaves(todo'[t], r)
    <3>1. Head(todo[th]) # Do("erase", r)
      BY <1>2 DEF Do
    <3> QED
      BY <1>3, <3>1, Empty, HarmlessLeaves DEF Becomes
  <2>3. r # s
    BY <1>1, <2>1
  <2> QED
    BY <1>4, <1>5, <2>1, <2>2, <2>3
<1> QED
  BY <1>1, <1>4, <1>5, <1>6, <1>8, <1>9 DEF IInv, RegisteredIsAlive, Typed

LEMMA EraseNext ==
  ASSUME IInv, Typed', NEW th \in Threads, NEW s \in Sessions, erase(th, s)
  PROVE  IInv'
<1>1. todo[th] # <<>> /\ Head(todo[th]) = Do("erase", s) /\ todo[th] \in Seq(Ops)
  BY AtDo DEF erase, IInv, Typed
<1>2. Becomes(th, <<>>)
  BY <1>1, ContinueBecomes, Empty DEF erase, IInv
<1>3. registered' = registered \ {s} /\ UNCHANGED <<phase, uuid, pending, posts>>
  BY DEF erase, object
<1>4. \A r \in Sessions : Referenced(r)' => Referenced(r)
  BY <1>2, <1>3, Empty, SameReferences
<1>5. \A t \in Threads : Ends(todo'[t]) /\ Frees(todo'[t])
  BY <1>2, Empty DEF IInv, Becomes, Harmless
<1>6. \A t \in Threads, r \in Sessions :
        Mentions(todo'[t], Do("freed", r)) => Mentions(todo[t], Do("freed", r))
  BY <1>2, Empty DEF Becomes, Harmless
<1>7. \A t \in Threads, r \in Sessions :
        Mentions(todo[t], Do("freed", r)) => Mentions(todo'[t], Do("freed", r))
  BY <1>1, <1>2 DEF Becomes, Do
<1>8. Dying'
  <2> SUFFICES ASSUME NEW t \in Threads, NEW r \in Sessions,
                      Mentions(todo'[t], Do("freed", r))
               PROVE  /\ ~Referenced(r)' /\ phase'[r] # "none"
                      /\ r \notin registered' \/ Leaves(todo'[t], r)
    BY DEF Dying
  <2>1. ~Referenced(r) /\ phase[r] # "none" /\ (r \notin registered \/ Leaves(todo[t], r))
    BY <1>6 DEF IInv, Dying
  <2>2. CASE r = s
    BY <1>3, <1>4, <2>1, <2>2
  <2>3. CASE r # s
    <3>1. Head(todo[th]) # Do("erase", r)
      BY <1>1, <2>3 DEF Do
    <3>2. Leaves(todo[t], r) => Leaves(todo'[t], r)
      BY <1>2, <3>1, Empty, HarmlessLeaves DEF Becomes
    <3> QED
      BY <1>3, <1>4, <2>1, <3>2
  <2> QED
    BY <2>2, <2>3
<1>9. Mentions(todo[th], Do("freed", s))
  <2>1. 1 \in 1..Len(todo[th]) /\ todo[th][1].op = "erase" /\ todo[th][1].s = s
    BY <1>1 DEF Do
  <2>2. PICK j \in (1 + 1)..Len(todo[th]) : todo[th][j] = Do("freed", s)
    BY <2>1 DEF IInv, Frees
  <2> QED
    BY <2>1, <2>2 DEF Mentions
<1> QED
  BY <1>3, <1>4, <1>5, <1>7, <1>8, <1>9 DEF IInv, RegisteredIsAlive

LEMMA FreedNext ==
  ASSUME IInv, Typed', NEW th \in Threads, NEW s \in Sessions, freed(th, s)
  PROVE  IInv'
<1>1. /\ todo[th] # <<>> /\ Head(todo[th]) = Do("freed", s) /\ todo[th] \in Seq(Ops)
      /\ Mentions(todo[th], Do("freed", s))
  BY AtDo DEF freed, IInv, Typed
<1>2. Becomes(th, <<>>)
  BY <1>1, ContinueBecomes, Empty DEF freed, IInv
<1>3. phase' = [phase EXCEPT ![s] = "gone"] /\ UNCHANGED <<registered, uuid, pending, posts>>
  BY DEF freed
<1>4. \A r \in Sessions : Referenced(r)' => Referenced(r)
  BY <1>2, <1>3, Empty, SameReferences
<1>5. \A t \in Threads : Ends(todo'[t]) /\ Frees(todo'[t])
  BY <1>2, Empty DEF IInv, Becomes, Harmless
<1>6. \A t \in Threads, r \in Sessions :
        Mentions(todo'[t], Do("freed", r)) => Mentions(todo[t], Do("freed", r))
  BY <1>2, Empty DEF Becomes, Harmless
<1>7. \A t \in Threads, r \in Sessions :
        r # s /\ Mentions(todo[t], Do("freed", r)) => Mentions(todo'[t], Do("freed", r))
  BY <1>1, <1>2 DEF Becomes, Do
<1>8. Dying'
  <2> SUFFICES ASSUME NEW t \in Threads, NEW r \in Sessions,
                      Mentions(todo'[t], Do("freed", r))
               PROVE  /\ ~Referenced(r)' /\ phase'[r] # "none"
                      /\ r \notin registered' \/ Leaves(todo'[t], r)
    BY DEF Dying
  <2>1. ~Referenced(r) /\ phase[r] # "none" /\ (r \notin registered \/ Leaves(todo[t], r))
    BY <1>6 DEF IInv, Dying
  <2>2. Head(todo[th]) # Do("erase", r)
    BY <1>1 DEF Do
  <2>3. Leaves(todo[t], r) => Leaves(todo'[t], r)
    BY <1>2, <2>2, Empty, HarmlessLeaves DEF Becomes
  <2> QED
    BY <1>3, <1>4, <2>1, <2>3 DEF IInv, Typed
<1>9. ~Referenced(s) /\ s \notin registered
  <2>1. ~Leaves(todo[th], s)
    BY <1>1 DEF Leaves
  <2> QED
    BY <1>1, <2>1 DEF IInv, Dying
<1>10. \A r \in Sessions : phase'[r] = IF r = s THEN "gone" ELSE phase[r]
  BY <1>3 DEF IInv, Typed
<1> QED
  BY <1>3, <1>4, <1>5, <1>7, <1>8, <1>9, <1>10 DEF IInv, RegisteredIsAlive, Typed

LEMMA ReleaseNext ==
  ASSUME IInv, Typed', NEW th \in Threads, NEW s \in Sessions, release(th, s)
  PROVE  IInv'
<1> DEFINE rest == [todo EXCEPT ![th] = Tail(@)]
           last == /\ \A o \in Operations : pending[s][o] = 0
                   /\ posts[s] = 0 /\ ~Held(s, rest)
<1>1. PICK op \in {"end", "drop"} : At(th, op, s)
  BY DEF release
<1>2. /\ todo[th] # <<>> /\ Head(todo[th]) = Do(op, s) /\ todo[th] \in Seq(Ops)
      /\ Referenced(s) /\ phase[s] = "live"
  <2>1. Referenced(s) /\ phase[s] = "live"
    BY <1>1, Keeps
  <2>2. op \notin {"notify", "post"} /\ Typed
    BY DEF IInv
  <2>3. todo[th] # <<>> /\ Head(todo[th]) = Do(op, s)
    BY <1>1, <2>2, AtDo
  <2> QED
    BY <2>1, <2>3 DEF IInv, Typed
<1>3. UNCHANGED <<registered, phase, uuid, pending, posts>>
  BY DEF release, object
<1>4. CASE ~last
  <2>1. Becomes(th, <<>>)
    BY <1>2, <1>4, ContinueBecomes, Empty DEF release, IInv
  <2>2. Head(todo[th]).op \notin {"erase", "freed"}
    BY <1>2 DEF Do
  <2> QED
    BY <1>3, <2>1, <2>2, Empty, SameReferences, OtherNext
<1>5. CASE last
  <2> DEFINE first == Departure(s)
  <2>1. /\ first \in Seq(Ops) /\ Ends(first) /\ Frees(first) /\ Leaves(first, s)
        /\ \A r \in Sessions : ~Holds(first, r)
        /\ Mentions(first, Do("freed", s))
        /\ \A r \in Sessions : r # s => ~Mentions(first, Do("freed", r))
    BY Departs DEF IInv, Typed
  <2>2. Continue(th, first)
    BY <1>5 DEF release
  <2> HIDE DEF first
  <2>3. Becomes(th, first)
    BY <1>2, <2>1, <2>2, ContinueBecomes DEF IInv
  <2>4. \A r \in Sessions : Referenced(r)' => Referenced(r)
    BY <1>3, <2>1, <2>3, SameReferences
  <2>5. ~Referenced(s)'
    <3>1. ~Held(s, todo')
      <4> SUFFICES ASSUME NEW t \in Threads, NEW x \in {Do("end", s), Do("drop", s)},
                          Mentions(todo'[t], x)
                   PROVE  Mentions(rest[t], x)
        BY <1>5, HeldMentions
      <4>1. CASE t = th
        <5>1. todo'[th] = first \o Tail(todo[th]) /\ rest[th] = Tail(todo[th])
          BY <2>2 DEF Continue, IInv, Typed
        <5>2. ~Mentions(first, x)
          BY <2>1 DEF Holds
        <5> QED
          BY <1>2, <2>1, <4>1, <5>1, <5>2, MentionsJoined
      <4>2. CASE t # th
        BY <2>2, <4>2 DEF Continue, IInv, Typed
      <4> QED
        BY <4>1, <4>2
    <3> QED
      BY <1>3, <1>5, <3>1 DEF Referenced, IInv, Typed
  <2>6. \A t \in Threads : Ends(todo'[t]) /\ Frees(todo'[t])
    BY <2>1, <2>3 DEF IInv, Becomes
  <2>7. \A t \in Threads, r \in Sessions :
          Mentions(todo[t], Do("freed", r)) => Mentions(todo'[t], Do("freed", r))
    <3> TAKE t \in Threads, r \in Sessions
    <3>1. Do("freed", r) # Head(todo[th])
      BY <1>2 DEF Do
    <3>2. CASE t = th
      BY <2>3, <3>1, <3>2 DEF Becomes
    <3>3. CASE t # th
      BY <2>3, <3>3 DEF Becomes
    <3> QED
      BY <3>2, <3>3
  <2>8. Dying'
    <3> SUFFICES ASSUME NEW t \in Threads, NEW r \in Sessions,
                        Mentions(todo'[t], Do("freed", r))
                 PROVE  /\ ~Referenced(r)' /\ phase'[r] # "none"
                        /\ r \notin registered' \/ Leaves(todo'[t], r)
      BY DEF Dying
    <3>1. Head(todo[th]) # Do("erase", r)
      BY <1>2 DEF Do
    <3>2. CASE r = s
      <4>1. ~Mentions(todo[t], Do("freed", s)) /\ ~Mentions(todo[th], Do("freed", s))
        BY <1>2 DEF IInv, Dying
      <4>2. t = th
        BY <2>3, <3>2, <4>1 DEF Becomes
      <4>3. Leaves(todo[th], s)
        BY <4>1 DEF Leaves, Mentions
      <4>4. Leaves(todo'[th], s)
        BY <2>1, <2>3, <3>1, <3>2, <4>3 DEF Becomes
      <4> QED
        BY <1>2, <1>3, <2>5, <3>2, <4>2, <4>4
    <3>3. CASE r # s
      <4>1. Mentions(todo[t], Do("freed", r)) /\ ~Mentions(first, Do("freed", r))
        BY <2>1, <2>3, <3>3 DEF Becomes
      <4>2. ~Referenced(r) /\ phase[r] # "none" /\ (r \notin registered \/ Leaves(todo[t], r))
        BY <4>1 DEF IInv, Dying
      <4>3. Leaves(first, r)
        BY <4>1 DEF Leaves, Mentions
      <4>4. Leaves(todo[t], r) => Leaves(todo'[t], r)
        BY <2>3, <3>1, <4>3 DEF Becomes
      <4> QED
        BY <1>3, <2>4, <4>2, <4>4
    <3> QED
      BY <3>2, <3>3
  <2> QED
    BY <1>3, <2>4, <2>6, <2>7, <2>8 DEF IInv, RegisteredIsAlive
<1> QED
  BY <1>4, <1>5

LEMMA MakeNext ==
  ASSUME IInv, Typed', NEW th \in Threads, NEW s \in Sessions, NEW ok \in BOOLEAN,
         make_websocket_session(th, s, ok)
  PROVE  IInv'
<1> DEFINE first == <<Do("drop", s)>>
<1>1. /\ first \in Seq(Ops) /\ Harmless(first)
      /\ \A r \in Sessions : r # s => ~Holds(first, r)
  BY LetGo
<1>2. /\ todo[th] = <<>> /\ Run(th, first) /\ phase[s] = "none"
      /\ phase' = [phase EXCEPT ![s] = "live"] /\ UNCHANGED <<registered, uuid, posts>>
      /\ \A r \in Sessions : r # s => pending'[r] = pending[r]
  <2>1. \A r \in Sessions : r # s => pending'[r] = pending[r]
    <3>1. CASE pending' = pending
      BY <3>1
    <3>2. CASE Expect(s, "accept")
      BY <3>2 DEF Expect, IInv, Typed
    <3> QED
      BY <3>1, <3>2 DEF make_websocket_session
  <2> QED
    BY <2>1 DEF make_websocket_session, Idle
<1> HIDE DEF first
<1>3. Becomes(th, first)
  BY <1>1, <1>2, RunBecomes DEF IInv
<1>4. \A r \in Sessions : phase'[r] = IF r = s THEN "live" ELSE phase[r]
  BY <1>2 DEF IInv, Typed
<1>5. \A t \in Threads : Ends(todo'[t]) /\ Frees(todo'[t])
  BY <1>1, <1>3 DEF IInv, Becomes, Harmless
<1>6. \A t \in Threads, r \in Sessions :
        Mentions(todo'[t], Do("freed", r)) <=> Mentions(todo[t], Do("freed", r))
  BY <1>1, <1>2, <1>3 DEF Becomes, Harmless
<1>7. ASSUME NEW r \in Sessions, r # s, Referenced(r)' PROVE Referenced(r)
  <2>1. Held(r, todo') => Held(r, todo)
    <3> SUFFICES ASSUME NEW t \in Threads, NEW x \in {Do("end", r), Do("drop", r)},
                        Mentions(todo'[t], x)
                 PROVE  Mentions(todo[t], x)
      BY HeldMentions
    <3>1. ~Mentions(first, x)
      BY <1>1, <1>7 DEF Holds
    <3> QED
      BY <1>3, <3>1 DEF Becomes
  <2> QED
    BY <1>2, <1>7, <2>1 DEF Referenced
<1>8. Dying'
  <2> SUFFICES ASSUME NEW t \in Threads, NEW r \in Sessions,
                      Mentions(todo'[t], Do("freed", r))
               PROVE  /\ ~Referenced(r)' /\ phase'[r] # "none"
                      /\ r \notin registered' \/ Leaves(todo'[t], r)
    BY DEF Dying
  <2>1. ~Referenced(r) /\ phase[r] # "none" /\ (r \notin registered \/ Leaves(todo[t], r))
    BY <1>6 DEF IInv, Dying
  <2>2. r # s
    BY <1>2, <2>1
  <2>3. Leaves(todo[t], r) => Leaves(todo'[t], r)
    BY <1>1, <1>2, <1>3, HarmlessLeaves DEF Becomes
  <2> QED
    BY <1>2, <1>4, <1>7, <2>1, <2>2, <2>3
<1> QED
  BY <1>2, <1>4, <1>5, <1>6, <1>7, <1>8 DEF IInv, RegisteredIsAlive

-----------------------------------------------------------------------------
(* Types.                                                                   *)

LEMMA Orders ==
  ASSUME NEW S, S \subseteq Sessions, NEW order \in SetToSeqs(S)
  PROVE  order \in Seq(Sessions) /\ \A i \in 1..Len(order) : order[i] \in S
<1>1. IsFiniteSet(S)
  BY RegistryAssumption, FS_Subset
<1>2. Cardinality(S) \in Nat
  BY <1>1, FS_CardinalityType
<1>3. order \in [1..Cardinality(S) -> S]
  BY DEF SetToSeqs
<1> QED
  BY <1>2, <1>3

\* The program a broadcast leaves.
LEMMA Posts ==
  ASSUME NEW order \in Seq(Sessions), NEW m \in Notices
  PROVE  LET first == [i \in DOMAIN order |-> Say("post", order[i], m)]
         IN  /\ first \in Seq(Ops)
             /\ \A i \in 1..Len(first) : first[i].op \in Free
<1> DEFINE first == [i \in DOMAIN order |-> Say("post", order[i], m)]
<1>1. \A i \in 1..Len(order) : Say("post", order[i], m) \in Ops
  BY Notes
<1>2. first \in [1..Len(order) -> Ops]
  BY <1>1
<1>3. first \in Seq(Ops) /\ Len(first) = Len(order)
  BY <1>2
<1>4. \A i \in 1..Len(first) : first[i].op = "post"
  BY <1>3 DEF Say
<1> QED
  BY <1>3, <1>4 DEF Free

\* The messages kept for the database.
LEMMA Raws ==
  ASSUME NEW order \in Seq(Sessions), NEW s \in Sessions
  PROVE  LET first == [i \in DOMAIN order |-> Do("raw", order[i])] \o <<Do("raw", s)>>
         IN  /\ first \in Seq(Ops)
             /\ \A i \in 1..Len(first) : first[i].op \in Free
<1> DEFINE p == [i \in DOMAIN order |-> Do("raw", order[i])]
           q == <<Do("raw", s)>>
<1>1. \A i \in 1..Len(order) : Do("raw", order[i]) \in Ops
  BY Steps
<1>2. p \in [1..Len(order) -> Ops]
  BY <1>1
<1>3. p \in Seq(Ops) /\ Len(p) = Len(order)
  BY <1>2
<1>4. \A i \in 1..Len(p) : p[i].op = "raw"
  BY <1>3 DEF Do
<1>5. q \in Seq(Ops) /\ Len(q) = 1 /\ q[1].op = "raw"
  BY Steps
<1> HIDE DEF p, q
<1>6. p \o q \in Seq(Ops) /\ Len(p \o q) = Len(p) + 1
  <2>1. p \o q \in Seq(Ops) /\ Len(p \o q) = Len(p) + Len(q)
    BY <1>3, <1>5, ConcatProperties
  <2> QED
    BY <1>3, <1>5, <2>1
<1>7. ASSUME NEW i \in 1..Len(p \o q) PROVE (p \o q)[i].op = "raw"
  <2>1. (p \o q)[i] = IF i <= Len(p) THEN p[i] ELSE q[i - Len(p)]
    BY <1>3, <1>5, <1>6, ConcatProperties
  <2>2. CASE i <= Len(p)
    BY <1>3, <1>4, <2>1, <2>2
  <2>3. CASE ~(i <= Len(p))
    <3>1. i - Len(p) = 1
      BY <1>3, <1>6, <2>3
    <3> QED
      BY <1>5, <2>1, <2>3, <3>1
  <2> QED
    BY <2>2, <2>3
<1> QED
  BY <1>6, <1>7 DEF p, q, Free

LEMMA TypedInit == Init => Typed
<1> SUFFICES ASSUME Init PROVE Typed
  OBVIOUS
<1>1. /\ pending \in [Sessions -> [Operations -> Nat]] /\ posts \in [Sessions -> Nat]
      /\ told \in [Sessions -> Seq(Notices)] /\ todo \in [Threads -> Seq(Ops)]
  BY DEF Init
<1>2. uuid \in [Sessions -> Sessions \cup {nil_uuid}] /\ \A s \in Sessions : uuid[s] = nil_uuid
  BY DEF Init
<1>3. texts \in 0..MaxTexts /\ privates \in 0..MaxPrivate /\ params \in 0..MaxParams
  BY RegistryAssumption DEF Init
<1>4. /\ registered \subseteq Sessions /\ phase \in [Sessions -> {"none", "live", "gone"}]
      /\ authorized_ \in [Sessions -> BOOLEAN] /\ link \in [Sessions -> BOOLEAN]
      /\ down \in BOOLEAN
  BY DEF Init
<1> QED
  BY <1>1, <1>2, <1>3, <1>4 DEF Typed

\* The handlers' programs, with what on_read() does first.
LEMMA Handlers ==
  ASSUME Typed, NEW s \in Sessions
  PROVE  /\ LET first == (IF Allowed(s) THEN <<Say("notify", nil_uuid, Text)>> ELSE <<>>)
                           \o Again(s)
            IN  /\ first \in Seq(Ops) /\ Harmless(first)
                /\ \A r \in Sessions : r # s => ~Holds(first, r)
         /\ LET first == <<Do("search", s)>> \o Again(s)
            IN  /\ first \in Seq(Ops) /\ Harmless(first)
                /\ \A r \in Sessions : r # s => ~Holds(first, r)
         /\ \A op \in {"authorize", "look_up"} :
              LET first == <<Do(op, s), Do("raw", s)>> \o Again(s)
              IN  /\ first \in Seq(Ops) /\ Harmless(first)
                  /\ \A r \in Sessions : r # s => ~Holds(first, r)
<1> DEFINE Fine(first) == /\ first \in Seq(Ops) /\ Harmless(first)
                          /\ \A r \in Sessions : r # s => ~Holds(first, r)
           c == Do("read", s)
           d == Do("end", s)
<1>1. c \in Ops /\ d \in Ops /\ Again(s) = <<c, d>> /\ Fine(<<c, d>>)
  BY Steps, NothingElse DEF Again
<1>a. c \in Ops /\ d \in Ops
  BY <1>1
<1>2. ASSUME NEW x \in Ops, x.op \in Free PROVE Fine(<<x>> \o <<c, d>>)
  <2>1. Fine(<<x, c, d>>)
    BY <1>2, OneMore
  <2> HIDE DEF Fine, c, d
  <2>2. <<x>> \o <<c, d>> = <<x, c, d>>
    BY <1>a, Three, Zenon
  <2> QED
    BY <2>1, <2>2, Zenon
<1>3. ASSUME NEW x \in Ops, x.op \in Free, NEW y \in Ops, y.op \in Free
      PROVE  Fine(<<x, y>> \o <<c, d>>)
  <2>1. Fine(<<x, y, c, d>>)
    BY <1>3, TwoMore
  <2> HIDE DEF Fine, c, d
  <2>2. <<x, y>> \o <<c, d>> = <<x, y, c, d>>
    <3>1. x \in Ops /\ y \in Ops /\ c \in Ops /\ d \in Ops
      BY <1>a, Zenon
    <3> QED
      BY <3>1, Four, ZenonT(60)
  <2> QED
    BY <2>1, <2>2, Zenon
<1>4. Fine(<<>> \o <<c, d>>)
  <2>1. <<c, d>> \in Seq(Ops)
    BY <1>1
  <2> HIDE DEF Fine, c, d
  <2>2. <<>> \o <<c, d>> = <<c, d>>
    BY <2>1, ConcatEmptySeq, Zenon
  <2> QED
    BY <1>1, <2>2, Zenon
<1>5. /\ Say("notify", nil_uuid, Text) \in Ops /\ Say("notify", nil_uuid, Text).op \in Free
      /\ \A op \in {"search", "raw", "authorize", "look_up"} :
           Do(op, s) \in Ops /\ Do(op, s).op \in Free
  <2>1. Text \in Notices
    BY DEF Notices
  <2> QED
    BY <2>1, Steps, Notes DEF Free
<1> HIDE DEF Fine, c, d
<1>6. Fine(<<Do("search", s)>> \o Again(s))
  BY <1>1, <1>2, <1>5
<1>7. \A op \in {"authorize", "look_up"} : Fine(<<Do(op, s), Do("raw", s)>> \o Again(s))
  BY <1>1, <1>3, <1>5
<1>8. Fine((IF Allowed(s) THEN <<Say("notify", nil_uuid, Text)>> ELSE <<>>) \o Again(s))
  <2>1. CASE Allowed(s)
    BY <1>1, <1>2, <1>5, <2>1
  <2>2. CASE ~Allowed(s)
    BY <1>1, <1>4, <2>2
  <2> QED
    BY <2>1, <2>2
<1> QED
  BY <1>6, <1>7, <1>8 DEF Fine

-----------------------------------------------------------------------------
(* Every step.                                                              *)

LEMMA Counts ==
  ASSUME Typed, NEW s \in Sessions, NEW o \in Operations
  PROVE  /\ Expect(s, o) \/ Complete(s, o) =>
              /\ pending' \in [Sessions -> [Operations -> Nat]]
              /\ \A r \in Sessions : r # s => pending'[r] = pending[r]
         /\ Complete(s, o) => Referenced(s)
<1>0. pending[s] \in [Operations -> Nat] /\ pending[s][o] \in Nat
  BY DEF Typed
<1>1. ASSUME Expect(s, o)
      PROVE  /\ pending' \in [Sessions -> [Operations -> Nat]]
             /\ \A r \in Sessions : r # s => pending'[r] = pending[r]
  <2> DEFINE new == [pending[s] EXCEPT ![o] = pending[s][o] + 1]
  <2>1. new \in [Operations -> Nat]
    BY <1>0
  <2>2. pending' = [pending EXCEPT ![s] = new]
    BY <1>1 DEF Expect
  <2> HIDE DEF new
  <2> QED
    BY <2>1, <2>2 DEF Typed
<1>2. ASSUME Complete(s, o)
      PROVE  /\ pending' \in [Sessions -> [Operations -> Nat]]
             /\ \A r \in Sessions : r # s => pending'[r] = pending[r]
  <2> DEFINE new == [pending[s] EXCEPT ![o] = pending[s][o] - 1]
  <2>1. new \in [Operations -> Nat]
    BY <1>0, <1>2 DEF Complete
  <2>2. pending' = [pending EXCEPT ![s] = new]
    BY <1>2 DEF Complete
  <2> HIDE DEF new
  <2> QED
    BY <2>1, <2>2 DEF Typed
<1>3. Complete(s, o) => Referenced(s)
  BY DEF Complete, Referenced
<1> QED
  BY <1>1, <1>2, <1>3

LEMMA PostCounts ==
  ASSUME Typed, NEW s \in Sessions, NEW m \in Notices, Post(s, m)
  PROVE  /\ posts' \in [Sessions -> Nat] /\ told' \in [Sessions -> Seq(Notices)]
         /\ \A r \in Sessions : r # s => posts'[r] = posts[r]
<1>1. posts' \in [Sessions -> Nat] /\ \A r \in Sessions : r # s => posts'[r] = posts[r]
  BY DEF Post, Typed
<1>2. told' \in [Sessions -> Seq(Notices)]
  BY DEF Post, Typed
<1> QED
  BY <1>1, <1>2

\* A step of a thread that says nothing of any session.
LEMMA PlainNext ==
  ASSUME IInv, NEW th \in Threads, todo[th] # <<>>,
         Head(todo[th]).op \notin {"erase", "freed"},
         NEW first \in Seq(Ops), \A i \in 1..Len(first) : first[i].op \in Free,
         Continue(th, first),
         UNCHANGED <<registered, phase, uuid, pending, posts, link, told, down, bounds>>,
         authorized_' \in [Sessions -> BOOLEAN]
  PROVE  IInv'
<1>1. Becomes(th, first)
  BY ContinueBecomes DEF IInv
<1>2. Harmless(first) /\ \A s : ~Holds(first, s)
  BY FreeProgram
<1>3. Typed'
  BY <1>1 DEF IInv, Typed, Becomes, bounds
<1>4. \A s \in Sessions : Referenced(s)' => Referenced(s)
  BY <1>1, <1>2, SameReferences
<1> QED
  BY <1>1, <1>2, <1>3, <1>4, OtherNext

\* A step of a thread that counts something for a session with a reference.
LEMMA CountNext ==
  ASSUME IInv, NEW th \in Threads, todo[th] # <<>>,
         Head(todo[th]).op \notin {"erase", "freed"},
         NEW first \in Seq(Ops), Harmless(first), Continue(th, first),
         NEW s \in Sessions, Referenced(s),
         \A r \in Sessions : r # s => ~Holds(first, r),
         \A r \in Sessions : r # s => pending'[r] = pending[r] /\ posts'[r] = posts[r],
         pending' \in [Sessions -> [Operations -> Nat]],
         posts' \in [Sessions -> Nat], told' \in [Sessions -> Seq(Notices)],
         UNCHANGED <<registered, object, link, down, bounds>>
  PROVE  IInv'
<1>1. Becomes(th, first)
  BY ContinueBecomes DEF IInv
<1>2. Typed'
  BY <1>1 DEF IInv, Typed, Becomes, bounds, object
<1>3. \A r \in Sessions : Referenced(r)' => Referenced(r)
  BY <1>1, NoNewReference
<1> QED
  BY <1>1, <1>2, <1>3, OtherNext DEF object

\* A handler starts on an idle thread.
LEMMA HandlerNext ==
  ASSUME IInv, NEW th \in Threads, todo[th] = <<>>,
         NEW first \in Seq(Ops), Harmless(first), Run(th, first),
         NEW s \in Sessions, Referenced(s),
         \A r \in Sessions : r # s => ~Holds(first, r),
         \A r \in Sessions : r # s => pending'[r] = pending[r] /\ posts'[r] = posts[r],
         pending' \in [Sessions -> [Operations -> Nat]],
         posts' \in [Sessions -> Nat], link' \in [Sessions -> BOOLEAN],
         texts' \in 0..MaxTexts, privates' \in 0..MaxPrivate, params' \in 0..MaxParams,
         UNCHANGED <<registered, object, told, down>>
  PROVE  IInv'
<1>1. Becomes(th, first)
  BY RunBecomes DEF IInv
<1>2. Typed'
  BY <1>1 DEF IInv, Typed, Becomes, object
<1>3. \A r \in Sessions : Referenced(r)' => Referenced(r)
  BY <1>1, NoNewReference
<1> QED
  BY <1>1, <1>2, <1>3, OtherNext DEF object

LEMMA NotifyNext ==
  ASSUME IInv, NEW th \in Threads, NEW skip \in Sessions \cup {nil_uuid}, notify(th, skip)
  PROVE  IInv'
<1> DEFINE m == Head(todo[th]).m
<1>1. PICK order \in SetToSeqs(registered \ {skip}) :
        Continue(th, [i \in DOMAIN order |-> Say("post", order[i], m)])
  BY DEF notify
<1>2. todo[th] # <<>> /\ todo[th] \in Seq(Ops) /\ Head(todo[th]).op = "notify"
  BY DEF notify, At, IInv, Typed
<1>3. m \in Notices
  BY <1>2, Carried
<1>4. order \in Seq(Sessions)
  BY Orders DEF IInv, Typed
<1> DEFINE first == [i \in DOMAIN order |-> Say("post", order[i], m)]
<1>5. first \in Seq(Ops) /\ \A i \in 1..Len(first) : first[i].op \in Free
  BY <1>3, <1>4, Posts
<1>6. Continue(th, first)
  BY <1>1
<1> HIDE DEF first
<1> QED
  BY <1>2, <1>5, <1>6, PlainNext DEF notify, object, IInv, Typed

LEMMA PostNext ==
  ASSUME IInv, NEW th \in Threads, NEW s \in Sessions, post(th, s)
  PROVE  IInv'
<1>1. todo[th] # <<>> /\ todo[th] \in Seq(Ops) /\ Head(todo[th]).op = "post"
  BY DEF post, At, IInv, Typed
<1>2. Head(todo[th]).m \in Notices
  BY <1>1, Carried
<1>3. CASE Referenced(s)
  <2> DEFINE first == <<Do("drop", s)>>
  <2>1. /\ first \in Seq(Ops) /\ Harmless(first)
        /\ \A r \in Sessions : r # s => ~Holds(first, r)
    BY LetGo
  <2>2. Post(s, Head(todo[th]).m) /\ Continue(th, first)
        /\ UNCHANGED <<registered, object, pending, link, down, bounds>>
    BY <1>3 DEF post
  <2> HIDE DEF first
  <2>3. /\ posts' \in [Sessions -> Nat] /\ told' \in [Sessions -> Seq(Notices)]
        /\ \A r \in Sessions : r # s => posts'[r] = posts[r]
    BY <1>2, <2>2, PostCounts DEF IInv
  <2>4. pending' \in [Sessions -> [Operations -> Nat]]
    BY <2>2 DEF IInv, Typed
  <2> QED
    BY <1>1, <1>3, <2>1, <2>2, <2>3, <2>4, CountNext
<1>4. CASE ~Referenced(s)
  <2>1. Continue(th, <<>>)
    BY <1>4 DEF post
  <2>2. UNCHANGED <<registered, phase, uuid, authorized_, pending, posts, link, told, down, bounds>>
    BY <1>4 DEF post, object
  <2>3. <<>> \in Seq(Ops) /\ \A i \in 1..Len(<<>>) : <<>>[i].op \in Free
    OBVIOUS
  <2>4. authorized_' \in [Sessions -> BOOLEAN]
    BY <2>2 DEF IInv, Typed
  <2> QED
    BY <1>1, <2>1, <2>2, <2>3, <2>4, PlainNext
<1> QED
  BY <1>3, <1>4

\* The operations of a handler on its own session.
LEMMA OwnNext ==
  ASSUME IInv, NEW th \in Threads, NEW s \in Sessions,
         listen(th, s) \/ read(th, s) \/ authorize(th, s) \/ look_up(th, s)
  PROVE  IInv'
<1>1. /\ <<>> \in Seq(Ops) /\ Harmless(<<>>) /\ \A r \in Sessions : r # s => ~Holds(<<>>, r)
      /\ \A i \in 1..Len(<<>>) : <<>>[i].op \in Free
  BY Empty
<1>2. CASE listen(th, s)
  <2>1. Referenced(s) /\ todo[th] # <<>> /\ Head(todo[th]).op = "listen"
    BY <1>2, Keeps DEF listen, At
  <2>2. /\ pending' \in [Sessions -> [Operations -> Nat]]
        /\ \A r \in Sessions : r # s => pending'[r] = pending[r]
    <3> DEFINE armed == UseAuthorization /\ ~authorized_[s] /\ AllowDelayedAuthorization
               new == [pending[s] EXCEPT !["read"] = @ + 1,
                                         !["wait"] = IF armed THEN @ + 1 ELSE @]
    <3>1. pending[s] \in [Operations -> Nat] /\ "read" \in Operations /\ "wait" \in Operations
      BY DEF IInv, Typed, Operations
    <3>2. new \in [Operations -> Nat]
      <4>1. pending[s]["read"] \in Nat /\ pending[s]["wait"] \in Nat
        BY <3>1
      <4>2. \A o \in Operations : new[o] \in Nat
        BY <3>1, <4>1
      <4>3. DOMAIN new = Operations
        BY <3>1
      <4> QED
        BY <3>1, <4>1
    <3>3. pending' = [pending EXCEPT ![s] = new]
      BY <1>2 DEF listen, IInv, Typed
    <3> HIDE DEF new
    <3> QED
      BY <3>2, <3>3 DEF IInv, Typed
  <2>3. /\ posts' \in [Sessions -> Nat] /\ told' \in [Sessions -> Seq(Notices)]
        /\ \A r \in Sessions : posts'[r] = posts[r]
    BY <1>2 DEF listen, IInv, Typed
  <2>4. Continue(th, <<>>) /\ UNCHANGED <<registered, object, link, down, bounds>>
    BY <1>2 DEF listen
  <2> QED
    BY <1>1, <2>1, <2>2, <2>3, <2>4, CountNext
<1>3. CASE read(th, s)
  <2>1. Referenced(s) /\ todo[th] # <<>> /\ Head(todo[th]).op = "read"
    BY <1>3, Keeps DEF read, At
  <2>2. /\ pending' \in [Sessions -> [Operations -> Nat]]
        /\ \A r \in Sessions : r # s => pending'[r] = pending[r]
    <3>1. Expect(s, "read") /\ "read" \in Operations
      BY <1>3 DEF read, Operations
    <3> QED
      BY <3>1, Counts DEF IInv
  <2>3. /\ posts' \in [Sessions -> Nat] /\ told' \in [Sessions -> Seq(Notices)]
        /\ \A r \in Sessions : posts'[r] = posts[r]
    BY <1>3 DEF read, IInv, Typed
  <2>4. Continue(th, <<>>) /\ UNCHANGED <<registered, object, link, down, bounds>>
    BY <1>3 DEF read
  <2> QED
    BY <1>1, <2>1, <2>2, <2>3, <2>4, CountNext
<1>4. CASE authorize(th, s)
  <2>1. todo[th] # <<>> /\ Head(todo[th]).op = "authorize" /\ Continue(th, <<>>)
        /\ UNCHANGED <<registered, phase, uuid, pending, posts, link, told, down, bounds>>
    BY <1>4 DEF authorize, At
  <2>2. authorized_' \in [Sessions -> BOOLEAN]
    BY <1>4 DEF authorize, IInv, Typed
  <2> QED
    BY <1>1, <2>1, <2>2, PlainNext
<1>5. CASE look_up(th, s)
  <2>1. todo[th] # <<>> /\ Head(todo[th]).op = "look_up" /\ Continue(th, <<>>)
        /\ UNCHANGED <<registered, object, pending, posts, link, told, down, bounds>>
    BY <1>5 DEF look_up, At
  <2>2. authorized_' \in [Sessions -> BOOLEAN]
    BY <2>1 DEF object, IInv, Typed
  <2> QED
    BY <1>1, <2>1, <2>2, PlainNext DEF object
<1> QED
  BY <1>2, <1>3, <1>4, <1>5

\* Private messages.
LEMMA PrivateNext ==
  ASSUME IInv, NEW th \in Threads, NEW s \in Sessions, search(th, s) \/ raw(th, s)
  PROVE  IInv'
<1>1. /\ <<>> \in Seq(Ops) /\ Harmless(<<>>) /\ \A r \in Sessions : ~Holds(<<>>, r)
      /\ \A i \in 1..Len(<<>>) : <<>>[i].op \in Free
  BY Empty
<1>2. CASE search(th, s)
  <2>1. todo[th] # <<>> /\ Head(todo[th]).op = "search"
        /\ UNCHANGED <<registered, object, pending, posts, link, told, down, bounds>>
    BY <1>2 DEF search, At
  <2>2. authorized_' \in [Sessions -> BOOLEAN]
    BY <2>1 DEF object, IInv, Typed
  <2>3. PICK first \in Seq(Ops) :
          Continue(th, first) /\ \A i \in 1..Len(first) : first[i].op \in Free
    <3>1. CASE Continue(th, <<>>)
      BY <1>1, <3>1
    <3>2. ASSUME NEW found \in SUBSET registered, NEW order \in SetToSeqs(found),
                 Continue(th, [i \in DOMAIN order |-> Do("raw", order[i])] \o <<Do("raw", s)>>)
          PROVE  \E first \in Seq(Ops) :
                   Continue(th, first) /\ \A i \in 1..Len(first) : first[i].op \in Free
      <4> DEFINE first == [i \in DOMAIN order |-> Do("raw", order[i])] \o <<Do("raw", s)>>
      <4>1. found \subseteq Sessions
        BY DEF IInv, Typed
      <4>2. order \in Seq(Sessions)
        BY <4>1, Orders
      <4>3. first \in Seq(Ops) /\ \A i \in 1..Len(first) : first[i].op \in Free
        BY <4>2, Raws
      <4>4. Continue(th, first)
        BY <3>2
      <4> HIDE DEF first
      <4> QED
        BY <4>3, <4>4
    <3> QED
      BY <1>2, <3>1, <3>2 DEF search
  <2> QED
    BY <2>1, <2>2, <2>3, PlainNext DEF object
<1>3. CASE raw(th, s)
  <2>1. todo[th] # <<>> /\ Head(todo[th]).op = "raw" /\ Continue(th, <<>>)
        /\ UNCHANGED <<registered, object, pending, link, bounds>>
    BY <1>3 DEF raw, At
  <2>2. CASE Referenced(s)
    <3>1. Text \in Notices
      BY DEF Notices
    <3>2. Post(s, Text) /\ UNCHANGED down
      BY <1>3, <2>2 DEF raw
    <3>3. /\ posts' \in [Sessions -> Nat] /\ told' \in [Sessions -> Seq(Notices)]
          /\ \A r \in Sessions : r # s => posts'[r] = posts[r]
      BY <3>1, <3>2, PostCounts DEF IInv
    <3>4. pending' \in [Sessions -> [Operations -> Nat]]
      BY <2>1 DEF IInv, Typed
    <3> QED
      BY <1>1, <2>1, <2>2, <3>2, <3>3, <3>4, CountNext
  <2>3. CASE ~Referenced(s)
    <3>1. down' \in BOOLEAN /\ UNCHANGED <<posts, told>>
      BY <1>3, <2>3 DEF raw, IInv, Typed
    <3>2. Becomes(th, <<>>)
      BY <1>1, <2>1, ContinueBecomes DEF IInv
    <3>3. Typed'
      BY <2>1, <3>1, <3>2 DEF IInv, Typed, Becomes, object, bounds
    <3>4. \A r \in Sessions : Referenced(r)' => Referenced(r)
      BY <1>1, <2>1, <3>1, <3>2, SameReferences
    <3> QED
      BY <1>1, <2>1, <3>2, <3>3, <3>4, OtherNext DEF object
  <2> QED
    BY <2>2, <2>3
<1> QED
  BY <1>2, <1>3

LEMMA ThreadNext ==
  ASSUME IInv, NEW th \in Threads, Step(th)
  PROVE  IInv'
<1>1. ASSUME NEW s \in Sessions, insert(th, s) \/ erase(th, s) \/ freed(th, s) \/ release(th, s)
      PROVE  Typed'
  <2>1. todo' \in [Threads -> Seq(Ops)]
    <3>1. todo[th] # <<>>
      BY <1>1 DEF insert, erase, freed, release, At
    <3>2. PICK first \in Seq(Ops) : Continue(th, first)
      <4>1. Departure(s) \in Seq(Ops) /\ <<>> \in Seq(Ops)
        BY Departs DEF IInv, Typed
      <4> QED
        BY <1>1, <4>1 DEF insert, erase, freed, release
    <3> QED
      BY <3>1, <3>2, ContinueBecomes DEF IInv, Becomes
  <2>2. /\ registered' \subseteq Sessions /\ phase' \in [Sessions -> {"none", "live", "gone"}]
        /\ uuid' \in [Sessions -> Sessions \cup {nil_uuid}]
        /\ \A r \in Sessions : uuid'[r] \in {r, nil_uuid}
    <3>0. /\ registered \subseteq Sessions /\ phase \in [Sessions -> {"none", "live", "gone"}]
          /\ uuid \in [Sessions -> Sessions \cup {nil_uuid}]
          /\ \A r \in Sessions : uuid[r] \in {r, nil_uuid}
      BY DEF IInv, Typed
    <3>1. CASE insert(th, s)
      BY <3>0, <3>1 DEF insert
    <3>2. CASE erase(th, s)
      BY <3>0, <3>2 DEF erase, object
    <3>3. CASE freed(th, s)
      BY <3>0, <3>3 DEF freed
    <3>4. CASE release(th, s)
      BY <3>0, <3>4 DEF release, object
    <3> QED
      BY <1>1, <3>1, <3>2, <3>3, <3>4
  <2>3. UNCHANGED <<authorized_, pending, posts, link, told, down, bounds>>
    BY <1>1 DEF insert, erase, freed, release, object
  <2> QED
    BY <2>1, <2>2, <2>3 DEF IInv, Typed, bounds
<1>2. ASSUME NEW s \in Sessions, insert(th, s) PROVE IInv'
  BY <1>1, <1>2, InsertNext
<1>3. ASSUME NEW s \in Sessions, erase(th, s) PROVE IInv'
  BY <1>1, <1>3, EraseNext
<1>4. ASSUME NEW s \in Sessions, freed(th, s) PROVE IInv'
  BY <1>1, <1>4, FreedNext
<1>5. ASSUME NEW s \in Sessions, release(th, s) PROVE IInv'
  BY <1>1, <1>5, ReleaseNext
<1>6. ASSUME NEW s \in Sessions,
             post(th, s) \/ listen(th, s) \/ read(th, s) \/ search(th, s) \/ raw(th, s)
               \/ authorize(th, s) \/ look_up(th, s)
      PROVE  IInv'
  BY <1>6, PostNext, OwnNext, PrivateNext
<1>7. ASSUME NEW s \in Sessions \cup {nil_uuid}, notify(th, s) PROVE IInv'
  BY <1>7, NotifyNext
<1> QED
  BY <1>2, <1>3, <1>4, <1>5, <1>6, <1>7 DEF Step

\* Completions.
LEMMA DueNext ==
  ASSUME IInv, NEW s \in Sessions, Due(s)
  PROVE  IInv'
<1> DEFINE Fine(first) == /\ first \in Seq(Ops) /\ Harmless(first)
                          /\ \A r \in Sessions : r # s => ~Holds(first, r)
           last == <<Do("end", s)>>
<1>1. Fine(last) /\ Fine(Arrival(s))
  BY LetGo, Arrives
<1> HIDE DEF last
<1>2. /\ "accept" \in Operations /\ "read" \in Operations /\ "wait" \in Operations
      /\ "close" \in Operations
  BY DEF Operations
<1>3. /\ posts \in [Sessions -> Nat] /\ link \in [Sessions -> BOOLEAN]
      /\ pending \in [Sessions -> [Operations -> Nat]] /\ Typed
      /\ texts \in 0..MaxTexts /\ privates \in 0..MaxPrivate /\ params \in 0..MaxParams
  BY DEF IInv, Typed
<1>4. PICK th \in Threads :
        \/ on_accept(th, s) \/ on_read_failed(th, s) \/ check_dead_line(th, s)
        \/ on_close(th, s) \/ on_send(th, s)
  BY DEF Due
<1>5. todo[th] = <<>>
  BY <1>4 DEF on_accept, on_read_failed, check_dead_line, on_close, on_send, Idle
<1>6. PICK first : Fine(first) /\ Run(th, first)
  BY <1>1, <1>4 DEF on_accept, on_read_failed, check_dead_line, on_close, on_send, last
<1>7. /\ UNCHANGED <<registered, object, told, down>>
      /\ UNCHANGED <<texts, privates, params>>
  BY <1>4 DEF on_accept, on_read_failed, check_dead_line, on_close, on_send, bounds
<1>8. /\ Referenced(s) /\ link' \in [Sessions -> BOOLEAN]
      /\ posts' \in [Sessions -> Nat] /\ pending' \in [Sessions -> [Operations -> Nat]]
      /\ \A r \in Sessions : r # s => pending'[r] = pending[r] /\ posts'[r] = posts[r]
  <2>1. CASE on_accept(th, s)
    BY <1>2, <1>3, <2>1, Counts DEF on_accept
  <2>2. CASE on_read_failed(th, s)
    BY <1>2, <1>3, <2>2, Counts DEF on_read_failed
  <2>3. CASE check_dead_line(th, s)
    <3> DEFINE new == [pending[s] EXCEPT !["wait"] = @ - 1,
                                         !["close"] = IF authorized_[s] THEN @ ELSE @ + 1]
    <3>1. pending[s]["wait"] \in Nat /\ pending[s]["close"] \in Nat /\ pending[s]["wait"] > 0
      BY <1>2, <1>3, <2>3 DEF check_dead_line
    <3>2. new \in [Operations -> Nat]
      BY <1>2, <1>3, <3>1
    <3>3. pending' = [pending EXCEPT ![s] = new]
      BY <1>3, <2>3 DEF check_dead_line
    <3> HIDE DEF new
    <3>4. Referenced(s)
      BY <1>2, <3>1 DEF Referenced
    <3>5. posts' = posts /\ link' = link
      BY <2>3 DEF check_dead_line
    <3> QED
      BY <1>3, <3>2, <3>3, <3>4, <3>5
  <2>4. CASE on_close(th, s)
    BY <1>2, <1>3, <2>4, Counts DEF on_close
  <2>5. CASE on_send(th, s)
    <3>1. posts[s] > 0 /\ Referenced(s)
      BY <2>5 DEF on_send, Referenced
    <3>2. posts' = [posts EXCEPT ![s] = @ - 1] /\ pending' = pending /\ link' = link
      BY <2>5 DEF on_send
    <3> QED
      BY <1>3, <3>1, <3>2
  <2> QED
    BY <1>4, <2>1, <2>2, <2>3, <2>4, <2>5
<1> QED
  BY <1>3, <1>5, <1>6, <1>7, <1>8, HandlerNext

LEMMA ClientNext ==
  ASSUME IInv, NEW s \in Sessions, Client(s)
  PROVE  IInv'
<1> DEFINE Fine(first) == /\ first \in Seq(Ops) /\ Harmless(first)
                          /\ \A r \in Sessions : r # s => ~Holds(first, r)
<1>1. CASE disconnect(s)
  <2>1. UNCHANGED <<registered, object, pending, posts, told, todo, down, bounds>>
        /\ link' \in [Sessions -> BOOLEAN]
    BY <1>1 DEF disconnect, IInv, Typed
  <2>2. Typed'
    BY <2>1 DEF IInv, Typed, object, bounds
  <2> QED
    BY <2>1, <2>2 DEF IInv, Dying, Referenced, RegisteredIsAlive, object
<1>2. ASSUME NEW th \in Threads, NEW ok \in BOOLEAN, make_websocket_session(th, s, ok)
      PROVE  IInv'
  <2> DEFINE first == <<Do("drop", s)>>
  <2>1. first \in Seq(Ops) /\ todo[th] = <<>> /\ Run(th, first)
    BY <1>2, LetGo DEF make_websocket_session, Idle
  <2> HIDE DEF first
  <2>2. todo' \in [Threads -> Seq(Ops)]
    BY <2>1, RunBecomes DEF IInv, Becomes
  <2>3. pending' \in [Sessions -> [Operations -> Nat]]
    <3>1. "accept" \in Operations
      BY DEF Operations
    <3> QED
      BY <1>2, <3>1, Counts DEF make_websocket_session, IInv, Typed
  <2>4. /\ phase' \in [Sessions -> {"none", "live", "gone"}]
        /\ authorized_' \in [Sessions -> BOOLEAN] /\ link' \in [Sessions -> BOOLEAN]
        /\ UNCHANGED <<registered, uuid, posts, told, down, bounds>>
    BY <1>2 DEF make_websocket_session, IInv, Typed
  <2>5. Typed'
    BY <2>2, <2>3, <2>4 DEF IInv, Typed, bounds
  <2> QED
    BY <1>2, <2>5, MakeNext
<1>3. ASSUME NEW th \in Threads,
             \/ on_text(th, s) \/ on_private(th, s)
             \/ \E good \in BOOLEAN : on_client_param(th, s, good)
      PROVE  IInv'
  <2>1. todo[th] = <<>> /\ Complete(s, "read") /\ UNCHANGED <<registered, object, told, down>>
        /\ posts' = posts /\ link' = link
    BY <1>3 DEF on_text, on_private, on_client_param, Idle
  <2>2. /\ texts' \in 0..MaxTexts /\ privates' \in 0..MaxPrivate
        /\ params' \in 0..MaxParams
    <3>0. /\ texts \in 0..MaxTexts /\ privates \in 0..MaxPrivate /\ params \in 0..MaxParams
          /\ MaxTexts \in Nat /\ MaxPrivate \in Nat /\ MaxParams \in Nat
      BY RegistryAssumption DEF IInv, Typed
    <3>1. CASE on_text(th, s)
      BY <3>0, <3>1 DEF on_text
    <3>2. CASE on_private(th, s)
      BY <3>0, <3>2 DEF on_private
    <3>3. CASE \E good \in BOOLEAN : on_client_param(th, s, good)
      BY <3>0, <3>3 DEF on_client_param
    <3> QED
      BY <1>3, <3>1, <3>2, <3>3
  <2>3. PICK first : Fine(first) /\ Run(th, first)
    <3>1. CASE on_text(th, s)
      BY <3>1, Handlers DEF on_text, IInv
    <3>2. CASE on_private(th, s)
      BY <3>2, Handlers DEF on_private, IInv
    <3>3. ASSUME NEW good \in BOOLEAN, on_client_param(th, s, good)
          PROVE  \E first : Fine(first) /\ Run(th, first)
      <4>1. PICK op \in {"authorize", "look_up"} :
              Run(th, <<Do(op, s), Do("raw", s)>> \o Again(s))
        BY <3>3 DEF on_client_param
      <4>2. Fine(<<Do(op, s), Do("raw", s)>> \o Again(s))
        BY Handlers DEF IInv
      <4> HIDE DEF Fine
      <4> QED
        BY <4>1, <4>2
    <3> QED
      BY <1>3, <3>1, <3>2, <3>3
  <2>4. /\ Referenced(s) /\ pending' \in [Sessions -> [Operations -> Nat]]
        /\ \A r \in Sessions : r # s => pending'[r] = pending[r]
    <3>1. "read" \in Operations
      BY DEF Operations
    <3> QED
      BY <2>1, <3>1, Counts DEF IInv
  <2>5. /\ posts' \in [Sessions -> Nat] /\ link' \in [Sessions -> BOOLEAN]
        /\ \A r \in Sessions : posts'[r] = posts[r]
    BY <2>1 DEF IInv, Typed
  <2> QED
    BY <2>1, <2>2, <2>3, <2>4, <2>5, HandlerNext
<1> QED
  BY <1>1, <1>2, <1>3 DEF Client

LEMMA IInvInit == Init => IInv
<1> SUFFICES ASSUME Init PROVE IInv
  OBVIOUS
<1>1. Typed
  BY TypedInit
<1>2. \A th \in Threads : todo[th] = <<>>
  BY DEF Init
<1>3. /\ \A th \in Threads : Ends(todo[th]) /\ Frees(todo[th])
      /\ \A th \in Threads, x \in Ops : ~Mentions(todo[th], x)
  BY <1>2 DEF Ends, Frees, Mentions
<1>4. \A s \in Sessions : ~Referenced(s)
  BY <1>2, HeldMentions DEF Referenced, Mentions, Init
<1>5. Dying
  BY <1>3, Steps DEF Dying
<1> QED
  BY <1>1, <1>3, <1>4, <1>5 DEF IInv, Init, RegisteredIsAlive

LEMMA IInvNext == IInv /\ [Next]_vars => IInv'
<1> SUFFICES ASSUME IInv, [Next]_vars PROVE IInv'
  OBVIOUS
<1>1. CASE UNCHANGED vars
  BY <1>1 DEF vars, object, bounds, IInv, Typed, Dying, Referenced, RegisteredIsAlive
<1>2. CASE Next
  BY <1>2, ThreadNext, DueNext, ClientNext DEF Next
<1> QED
  BY <1>1, <1>2

THEOREM Invariant == Spec => []IInv
BY IInvInit, IInvNext, PTL DEF Spec, Safe

-----------------------------------------------------------------------------
(* The types: what a session waits for, it waits for once.                  *)

\* The next operation of a session is started just before its handler ends.
Adjoins(q) ==
  \A i \in 1..Len(q) : q[i].op \in {"listen", "read"}
    => i + 1 \in 1..Len(q) /\ q[i + 1] = Do("end", q[i].s)

EndsOnce(q, s) ==
  \A i, j \in 1..Len(q) : q[i] = Do("end", s) /\ q[j] = Do("end", s) => i = j

\* The strand: one handler of a session at a time.
Strands ==
  /\ \A th \in Threads : Adjoins(todo[th]) /\ \A s \in Sessions : EndsOnce(todo[th], s)
  /\ \A s \in Sessions, t, u \in Threads :
       Mentions(todo[t], Do("end", s)) /\ Mentions(todo[u], Do("end", s)) => t = u

\* The accept comes before everything else, and the close after the dead line.
Quota(s) ==
  /\ \A o \in Operations : pending[s][o] \in 0..1
  /\ pending[s]["accept"] = 1 => \A o \in Operations : o # "accept" => pending[s][o] = 0
  /\ \A th \in Threads : Mentions(todo[th], Do("listen", s))
       => \A o \in Operations : pending[s][o] = 0
  /\ \A th \in Threads : Mentions(todo[th], Do("read", s))
       => pending[s]["accept"] = 0 /\ pending[s]["read"] = 0
  /\ pending[s]["wait"] = 1 => pending[s]["close"] = 0

Counted == Strands /\ \A s \in Sessions : Quota(s)

\* Operations that neither end a handler nor start an operation.
Silent(first) == \A i \in 1..Len(first) : first[i].op \notin {"end", "listen", "read"}

LEMMA AdjoinsJoined ==
  ASSUME NEW first \in Seq(Ops), NEW q \in Seq(Ops), q # <<>>, Silent(first), Adjoins(q)
  PROVE  Adjoins(first \o Tail(q))
<1> DEFINE p == first \o Tail(q)
<1> SUFFICES ASSUME NEW i \in 1..Len(p), p[i].op \in {"listen", "read"}
             PROVE  i + 1 \in 1..Len(p) /\ p[i + 1] = Do("end", p[i].s)
  BY DEF Adjoins
<1> HIDE DEF p
<1> DEFINE k == i - Len(first) + 1
<1>1. k \in 2..Len(q) /\ p[i] = q[k]
  <2>1. i \notin 1..Len(first)
    BY Joined DEF p, Silent
  <2> QED
    BY <2>1, Joined DEF p
<1>2. k \in 1..Len(q) /\ k + Len(first) - 1 = i
  BY <1>1
<1>3. k + 1 \in 2..Len(q) /\ q[k + 1] = Do("end", p[i].s)
  <2> HIDE DEF k
  <2> QED  BY <1>1, <1>2 DEF Adjoins
<1>4. p[k + 1 + Len(first) - 1] = q[k + 1] /\ k + 1 + Len(first) - 1 \in 1..Len(p)
  <2> DEFINE n == k + 1
  <2>1. n \in 2..Len(q) /\ Len(first) \in Nat /\ Len(q) \in Nat
    BY <1>3
  <2> HIDE DEF n, k
  <2>2. p[n + Len(first) - 1] = q[n]
    BY <2>1, Joined DEF p
  <2>3. Len(p) = Len(first) + Len(q) - 1
    BY Joined DEF p
  <2>4. n + Len(first) - 1 \in 1..Len(p)
    BY <2>1, <2>3
  <2> QED
    BY <2>2, <2>4 DEF n
<1>5. k + 1 + Len(first) - 1 = i + 1
  BY <1>2
<1> QED
  BY <1>3, <1>4, <1>5

LEMMA EndsOnceJoined ==
  ASSUME NEW first \in Seq(Ops), NEW q \in Seq(Ops), q # <<>>, Silent(first),
         NEW s \in Sessions, EndsOnce(q, s)
  PROVE  EndsOnce(first \o Tail(q), s)
<1> DEFINE p == first \o Tail(q)
<1> SUFFICES ASSUME NEW i \in 1..Len(p), NEW j \in 1..Len(p),
                    p[i] = Do("end", s), p[j] = Do("end", s)
             PROVE  i = j
  BY DEF EndsOnce
<1> HIDE DEF p
<1>1. Do("end", s).op = "end"
  BY DEF Do
<1>2. /\ i - Len(first) + 1 \in 2..Len(q) /\ q[i - Len(first) + 1] = Do("end", s)
      /\ j - Len(first) + 1 \in 2..Len(q) /\ q[j - Len(first) + 1] = Do("end", s)
  <2>1. i \notin 1..Len(first) /\ j \notin 1..Len(first)
    BY <1>1, Joined DEF p, Silent
  <2> QED
    BY <2>1, Joined DEF p
<1> DEFINE k == i - Len(first) + 1
           l == j - Len(first) + 1
<1>3. k = l
  <2>1. k \in 1..Len(q) /\ l \in 1..Len(q) /\ q[k] = Do("end", s) /\ q[l] = Do("end", s)
    BY <1>2
  <2> HIDE DEF k, l
  <2> QED
    BY <2>1 DEF EndsOnce
<1> QED
  BY <1>3

LEMMA SilentMentions ==
  ASSUME NEW first, Silent(first), NEW s, NEW op \in {"end", "listen", "read"}
  PROVE  ~Mentions(first, Do(op, s))
BY DEF Silent, Mentions, Do

\* A step of a thread that starts no operation.
LEMMA SilentStrands ==
  ASSUME IInv, Counted, NEW th \in Threads, todo[th] # <<>>,
         NEW first \in Seq(Ops), Silent(first), Continue(th, first)
  PROVE  /\ Strands'
         /\ \A t \in Threads, s \in Sessions, op \in {"end", "listen", "read"} :
              Mentions(todo'[t], Do(op, s)) => Mentions(todo[t], Do(op, s))
<1>1. Becomes(th, first)
  BY ContinueBecomes DEF IInv
<1>2. todo'[th] = first \o Tail(todo[th]) /\ todo[th] \in Seq(Ops)
  BY DEF Continue, IInv, Typed
<1>3. Adjoins(todo'[th]) /\ \A s \in Sessions : EndsOnce(todo'[th], s)
  BY <1>2, AdjoinsJoined, EndsOnceJoined DEF Counted, Strands
<1>4. \A t \in Threads, s \in Sessions, op \in {"end", "listen", "read"} :
        Mentions(todo'[t], Do(op, s)) => Mentions(todo[t], Do(op, s))
  BY <1>1, SilentMentions DEF Becomes
<1> QED
  BY <1>1, <1>3, <1>4 DEF Counted, Strands, Becomes

LEMMA SilentNext ==
  ASSUME IInv, Counted, NEW th \in Threads, todo[th] # <<>>,
         NEW first \in Seq(Ops), Silent(first), Continue(th, first), UNCHANGED pending
  PROVE  Counted'
<1>1. /\ Strands'
      /\ \A t \in Threads, s \in Sessions, op \in {"end", "listen", "read"} :
           Mentions(todo'[t], Do(op, s)) => Mentions(todo[t], Do(op, s))
  BY SilentStrands
<1>2. ASSUME NEW s \in Sessions PROVE Quota(s)'
  BY <1>1 DEF Counted, Quota
<1> QED
  BY <1>1, <1>2 DEF Counted

\* Once a handler has started its session's next operation, nobody else does.
LEMMA StartedOnce ==
  ASSUME IInv, Counted, NEW th \in Threads, NEW s \in Sessions,
         NEW op \in {"listen", "read"}, At(th, op, s), Continue(th, <<>>)
  PROVE  \A t \in Threads : /\ ~Mentions(todo'[t], Do("listen", s))
                            /\ ~Mentions(todo'[t], Do("read", s))
<1> SUFFICES ASSUME NEW t \in Threads, NEW po \in {"listen", "read"},
                    Mentions(todo'[t], Do(po, s))
             PROVE  FALSE
  OBVIOUS
<1> DEFINE q == todo[th]
<1>1. q \in Seq(Ops) /\ q # <<>> /\ Head(q) = Do(op, s) /\ todo'[th] = Tail(q)
  <2>1. op \notin {"notify", "post"} /\ Typed
    BY DEF IInv
  <2>2. q # <<>> /\ Head(q) = Do(op, s)
    BY <2>1, AtDo
  <2>3. todo'[th] = <<>> \o Tail(q) /\ q \in Seq(Ops)
    BY <2>1 DEF Continue, Typed
  <2>4. Tail(q) \in Seq(Ops)
    BY <2>2, <2>3
  <2> QED
    BY <2>2, <2>3, <2>4, ConcatEmptySeq
<1>2. Adjoins(q) /\ EndsOnce(q, s)
  BY DEF Counted, Strands
<1>3. 2 \in 1..Len(q) /\ q[2] = Do("end", s)
  <2>1. 1 \in 1..Len(q) /\ q[1].op \in {"listen", "read"} /\ q[1].s = s
    BY <1>1 DEF Do
  <2> QED
    BY <1>2, <2>1 DEF Adjoins
<1>4. CASE t = th
  <2>1. PICK i \in 1..Len(Tail(q)) : Tail(q)[i] = Do(po, s)
    BY <1>1, <1>4 DEF Mentions
  <2>2. i + 1 \in 1..Len(q) /\ q[i + 1] = Do(po, s) /\ i \in Nat \ {0}
    BY <1>1, <2>1
  <2>3. q[i + 1].op \in {"listen", "read"} /\ q[i + 1].s = s
    BY <2>2 DEF Do
  <2>4. i + 1 + 1 \in 1..Len(q) /\ q[i + 1 + 1] = Do("end", s)
    BY <1>2, <2>2, <2>3 DEF Adjoins
  <2>5. i + 1 + 1 = 2
    BY <1>2, <1>3, <2>4 DEF EndsOnce
  <2> QED
    BY <2>2, <2>5
<1>5. CASE t # th
  <2>1. todo'[t] = todo[t] /\ Ends(todo[t])
    BY <1>5 DEF Continue, IInv, Typed
  <2>2. PICK i \in 1..Len(todo[t]) : todo[t][i] = Do(po, s)
    BY <2>1 DEF Mentions
  <2>3. todo[t][i].op \in {"insert", "listen", "read"} /\ todo[t][i].s = s
    BY <2>2 DEF Do
  <2>4. Mentions(todo[t], Do("end", s))
    BY <2>1, <2>2, <2>3 DEF Ends, Mentions, IInv, Typed
  <2>5. Mentions(q, Do("end", s))
    BY <1>3 DEF Mentions
  <2> QED
    BY <1>5, <2>4, <2>5 DEF Counted, Strands
<1> QED
  BY <1>4, <1>5

LEMMA ListenCounted ==
  ASSUME IInv, Counted, NEW th \in Threads, NEW s \in Sessions, listen(th, s)
  PROVE  Counted'
<1>1. At(th, "listen", s) /\ Continue(th, <<>>)
  BY DEF listen
<1>2. todo[th] # <<>> /\ Mentions(todo[th], Do("listen", s))
  BY <1>1, AtDo DEF IInv
<1>3. Silent(<<>>) /\ <<>> \in Seq(Ops)
  BY DEF Silent
<1>4. /\ Strands'
      /\ \A t \in Threads, r \in Sessions, op \in {"end", "listen", "read"} :
           Mentions(todo'[t], Do(op, r)) => Mentions(todo[t], Do(op, r))
  BY <1>1, <1>2, <1>3, SilentStrands
<1>5. \A t \in Threads : /\ ~Mentions(todo'[t], Do("listen", s))
                         /\ ~Mentions(todo'[t], Do("read", s))
  BY <1>1, StartedOnce
<1>6. /\ \A o \in Operations : pending[s][o] = 0
      /\ pending \in [Sessions -> [Operations -> Nat]]
      /\ Operations = {"accept", "read", "wait", "close"}
  BY <1>2 DEF Counted, Quota, IInv, Typed, Operations
<1>7. /\ pending'[s]["read"] = 1 /\ pending'[s]["wait"] \in 0..1
      /\ pending'[s]["accept"] = 0 /\ pending'[s]["close"] = 0
      /\ \A r \in Sessions : r # s => pending'[r] = pending[r]
  <2> DEFINE armed == UseAuthorization /\ ~authorized_[s] /\ AllowDelayedAuthorization
             new == [pending[s] EXCEPT !["read"] = @ + 1,
                                       !["wait"] = IF armed THEN @ + 1 ELSE @]
  <2>1. /\ new["read"] = 1 /\ new["wait"] \in 0..1 /\ new["accept"] = 0 /\ new["close"] = 0
    BY <1>6
  <2>2. pending' = [pending EXCEPT ![s] = new]
    BY <1>6 DEF listen
  <2> HIDE DEF new
  <2> QED
    BY <1>6, <2>1, <2>2
<1>8. Quota(s)'
  BY <1>5, <1>6, <1>7 DEF Quota
<1>9. ASSUME NEW r \in Sessions, r # s PROVE Quota(r)'
  BY <1>4, <1>7, <1>9 DEF Quota, Counted
<1> QED
  BY <1>4, <1>8, <1>9 DEF Counted

LEMMA ReadCounted ==
  ASSUME IInv, Counted, NEW th \in Threads, NEW s \in Sessions, read(th, s)
  PROVE  Counted'
<1>1. At(th, "read", s) /\ Continue(th, <<>>) /\ Expect(s, "read")
  BY DEF read
<1>2. todo[th] # <<>> /\ Mentions(todo[th], Do("read", s))
  BY <1>1, AtDo DEF IInv
<1>3. Silent(<<>>) /\ <<>> \in Seq(Ops)
  BY DEF Silent
<1>4. /\ Strands'
      /\ \A t \in Threads, r \in Sessions, op \in {"end", "listen", "read"} :
           Mentions(todo'[t], Do(op, r)) => Mentions(todo[t], Do(op, r))
  BY <1>1, <1>2, <1>3, SilentStrands
<1>5. \A t \in Threads : /\ ~Mentions(todo'[t], Do("listen", s))
                         /\ ~Mentions(todo'[t], Do("read", s))
  BY <1>1, StartedOnce
<1>6. /\ pending[s]["accept"] = 0 /\ pending[s]["read"] = 0
      /\ pending \in [Sessions -> [Operations -> Nat]]
      /\ Operations = {"accept", "read", "wait", "close"}
      /\ \A o \in Operations : pending[s][o] \in 0..1
      /\ pending[s]["wait"] = 1 => pending[s]["close"] = 0
  BY <1>2 DEF Counted, Quota, IInv, Typed, Operations
<1>7. /\ pending'[s]["read"] = 1 /\ pending'[s]["wait"] = pending[s]["wait"]
      /\ pending'[s]["accept"] = 0 /\ pending'[s]["close"] = pending[s]["close"]
      /\ \A r \in Sessions : r # s => pending'[r] = pending[r]
  <2> DEFINE new == [pending[s] EXCEPT !["read"] = pending[s]["read"] + 1]
  <2>1. /\ new["read"] = 1 /\ new["wait"] = pending[s]["wait"]
        /\ new["accept"] = 0 /\ new["close"] = pending[s]["close"]
    BY <1>6
  <2>2. pending' = [pending EXCEPT ![s] = new]
    BY <1>1 DEF Expect
  <2> HIDE DEF new
  <2> QED
    BY <1>6, <2>1, <2>2
<1>8. Quota(s)'
  BY <1>5, <1>6, <1>7 DEF Quota
<1>9. ASSUME NEW r \in Sessions, r # s PROVE Quota(r)'
  BY <1>4, <1>7, <1>9 DEF Quota, Counted
<1> QED
  BY <1>4, <1>8, <1>9 DEF Counted

\* A handler's program ends with its end, and what it starts it starts before.
Closes(first, s, starts) ==
  /\ Len(first) \in Nat \ {0} /\ first[Len(first)] = Do("end", s)
  /\ \A i \in 1..Len(first) : i < Len(first) =>
       /\ first[i].op # "end"
       /\ first[i].op \in {"listen", "read"} =>
            i + 1 = Len(first) /\ first[i].op \in starts /\ first[i].s = s

LEMMA ClosesOnce ==
  ASSUME NEW first, NEW s \in Sessions, NEW starts, Closes(first, s, starts)
  PROVE  /\ Adjoins(first) /\ \A r \in Sessions : EndsOnce(first, r)
         /\ \A r \in Sessions, op \in {"end", "listen", "read"} :
              Mentions(first, Do(op, r)) => r = s /\ (op = "end" \/ op \in starts)
<1>1. \A r \in Sessions, op \in {"end", "listen", "read"} :
        Do(op, r).op = op /\ Do(op, r).s = r
  BY DEF Do
<1>2. Len(first) \in Nat \ {0} /\ first[Len(first)] = Do("end", s)
      /\ first[Len(first)].op = "end" /\ first[Len(first)].s = s
  BY <1>1 DEF Closes
<1>3. \A i \in 1..Len(first) : i # Len(first) =>
        /\ i < Len(first) /\ first[i].op # "end"
        /\ first[i].op \in {"listen", "read"} =>
             i + 1 = Len(first) /\ first[i].op \in starts /\ first[i].s = s
  BY <1>2 DEF Closes
<1>4. Adjoins(first)
  BY <1>2, <1>3 DEF Adjoins
<1>5. \A r \in Sessions : EndsOnce(first, r)
  BY <1>1, <1>2, <1>3 DEF EndsOnce
<1>6. ASSUME NEW r \in Sessions, NEW op \in {"end", "listen", "read"},
             NEW i \in 1..Len(first), first[i] = Do(op, r)
      PROVE  r = s /\ (op = "end" \/ op \in starts)
  BY <1>1, <1>2, <1>3, <1>6
<1> QED
  BY <1>4, <1>5, <1>6 DEF Mentions

\* A handler of s starts, when none runs.
LEMMA HandlerCounted ==
  ASSUME IInv, Counted, NEW th \in Threads, todo[th] = <<>>, NEW s \in Sessions,
         NEW first \in Seq(Ops), NEW starts, Closes(first, s, starts), Run(th, first),
         ~Running(s),
         \A r \in Sessions : r # s => pending'[r] = pending[r],
         \A o \in Operations : pending'[s][o] \in 0..1,
         pending'[s]["accept"] = 1
           => \A o \in Operations : o # "accept" => pending'[s][o] = 0,
         "listen" \in starts => \A o \in Operations : pending'[s][o] = 0,
         "read" \in starts => pending'[s]["accept"] = 0 /\ pending'[s]["read"] = 0,
         pending'[s]["wait"] = 1 => pending'[s]["close"] = 0
  PROVE  Counted'
<1>1. /\ Adjoins(first) /\ \A r \in Sessions : EndsOnce(first, r)
      /\ \A r \in Sessions, op \in {"end", "listen", "read"} :
           Mentions(first, Do(op, r)) => r = s /\ (op = "end" \/ op \in starts)
  BY ClosesOnce
<1>2. todo'[th] = first /\ \A t \in Threads : t # th => todo'[t] = todo[t]
  BY DEF Run, IInv, Typed
<1>3. \A t \in Threads : ~Mentions(todo[t], Do("end", s))
  BY DEF Running, Mentions
<1>4. Strands'
  BY <1>1, <1>2, <1>3 DEF Counted, Strands
<1>5. \A t \in Threads, op \in {"listen", "read"} : ~Mentions(todo[t], Do(op, s))
  <2> SUFFICES ASSUME NEW t \in Threads, NEW op \in {"listen", "read"},
                      NEW i \in 1..Len(todo[t]), todo[t][i] = Do(op, s)
               PROVE  Mentions(todo[t], Do("end", s))
    BY <1>3 DEF Mentions
  <2>1. todo[t][i].op \in {"listen", "read"} /\ todo[t][i].s = s
    BY DEF Do
  <2> QED
    BY <2>1 DEF Counted, Strands, Adjoins, Mentions
<1>6. Quota(s)'
  <2>1. \A t \in Threads : Mentions(todo'[t], Do("listen", s)) => "listen" \in starts
    BY <1>1, <1>2, <1>5
  <2>2. \A t \in Threads : Mentions(todo'[t], Do("read", s)) => "read" \in starts
    BY <1>1, <1>2, <1>5
  <2> QED
    BY <2>1, <2>2 DEF Quota
<1>7. ASSUME NEW r \in Sessions, r # s PROVE Quota(r)'
  <2>1. \A t \in Threads, op \in {"end", "listen", "read"} :
          Mentions(todo'[t], Do(op, r)) => Mentions(todo[t], Do(op, r))
    BY <1>1, <1>2, <1>7
  <2> QED
    BY <1>7, <2>1 DEF Quota, Counted
<1> QED
  BY <1>4, <1>6, <1>7 DEF Counted

LEMMA StartsLast ==
  ASSUME NEW p \in Seq(Ops), Silent(p), NEW s \in Sessions, NEW op \in {"listen", "read"}
  PROVE  /\ p \o <<Do(op, s), Do("end", s)>> \in Seq(Ops)
         /\ Closes(p \o <<Do(op, s), Do("end", s)>>, s, {op})
<1> DEFINE q == <<Do(op, s), Do("end", s)>>
           u == p \o q
<1>1. /\ q \in Seq(Ops) /\ Len(q) = 2 /\ q[1] = Do(op, s) /\ q[2] = Do("end", s)
      /\ q[1].op = op /\ q[1].s = s
  BY Steps
<1> HIDE DEF q
<1>2. /\ u \in Seq(Ops) /\ Len(u) = Len(p) + Len(q)
      /\ \A i \in 1..Len(p) + Len(q) : u[i] = IF i <= Len(p) THEN p[i] ELSE q[i - Len(p)]
  BY <1>1, ConcatProperties
<1>3. Len(p) \in Nat /\ Len(u) = Len(p) + 2
  BY <1>1, <1>2
<1> HIDE DEF u
<1>4. u[Len(p) + 1] = Do(op, s) /\ u[Len(p) + 2] = Do("end", s)
  <2>1. /\ Len(p) + 1 \in 1..Len(p) + Len(q) /\ ~(Len(p) + 1 <= Len(p))
        /\ Len(p) + 1 - Len(p) = 1
    BY <1>1, <1>3
  <2>2. /\ Len(p) + 2 \in 1..Len(p) + Len(q) /\ ~(Len(p) + 2 <= Len(p))
        /\ Len(p) + 2 - Len(p) = 2
    BY <1>1, <1>3
  <2>3. u[Len(p) + 1] = q[Len(p) + 1 - Len(p)] /\ u[Len(p) + 2] = q[Len(p) + 2 - Len(p)]
    BY <1>2, <2>1, <2>2
  <2> QED
    BY <1>1, <2>1, <2>2, <2>3
<1>5. ASSUME NEW i \in 1..Len(u), i < Len(u)
      PROVE  /\ u[i].op # "end"
             /\ u[i].op \in {"listen", "read"} =>
                  i + 1 = Len(u) /\ u[i].op \in {op} /\ u[i].s = s
  <2>1. CASE i <= Len(p)
    <3>1. i \in 1..Len(p) /\ u[i] = p[i]
      BY <1>1, <1>2, <1>3, <2>1
    <3> QED
      BY <3>1 DEF Silent
  <2>2. CASE i = Len(p) + 1
    BY <1>3, <1>4, <2>2 DEF Do
  <2> QED
    BY <1>3, <1>5, <2>1, <2>2
<1>6. Closes(u, s, {op})
  BY <1>3, <1>4, <1>5 DEF Closes
<1> QED
  BY <1>2, <1>6 DEF u, q

LEMMA SilentPrograms ==
  ASSUME NEW s \in Sessions
  PROVE  /\ <<>> \in Seq(Ops) /\ Silent(<<>>)
         /\ \A op \in {"insert", "search"} :
              <<Do(op, s)>> \in Seq(Ops) /\ Silent(<<Do(op, s)>>)
         /\ <<Say("notify", nil_uuid, Text)>> \in Seq(Ops)
         /\ Silent(<<Say("notify", nil_uuid, Text)>>)
         /\ \A op \in {"authorize", "look_up"} :
              <<Do(op, s), Do("raw", s)>> \in Seq(Ops) /\ Silent(<<Do(op, s), Do("raw", s)>>)
         /\ <<Do("insert", s), Say("notify", s, Join(s))>> \in Seq(Ops)
         /\ Silent(<<Do("insert", s), Say("notify", s, Join(s))>>)
<1>1. Text \in Notices /\ Join(s) \in Notices
  BY DEF Notices, Join
<1>2. /\ Say("notify", nil_uuid, Text) \in Ops /\ Say("notify", nil_uuid, Text).op = "notify"
      /\ Say("notify", s, Join(s)) \in Ops /\ Say("notify", s, Join(s)).op = "notify"
  BY <1>1, Notes
<1>3. \A op \in {"insert", "search", "authorize", "look_up", "raw"} :
        Do(op, s) \in Ops /\ Do(op, s).op = op
  BY Steps
<1>4. <<>> \in Seq(Ops) /\ Silent(<<>>)
  BY DEF Silent
<1>5. ASSUME NEW x \in Ops, x.op \notin {"end", "listen", "read"}
      PROVE  <<x>> \in Seq(Ops) /\ Silent(<<x>>)
  BY <1>5 DEF Silent
<1>6. ASSUME NEW x \in Ops, x.op \notin {"end", "listen", "read"},
             NEW y \in Ops, y.op \notin {"end", "listen", "read"}
      PROVE  <<x, y>> \in Seq(Ops) /\ Silent(<<x, y>>)
  BY <1>6 DEF Silent
<1> QED
  BY <1>2, <1>3, <1>4, <1>5, <1>6

LEMMA EndCloses ==
  ASSUME NEW s \in Sessions
  PROVE  <<Do("end", s)>> \in Seq(Ops) /\ Closes(<<Do("end", s)>>, s, {})
<1> DEFINE u == <<Do("end", s)>>
<1>1. u \in Seq(Ops) /\ Len(u) = 1 /\ u[1] = Do("end", s)
  BY Steps
<1> HIDE DEF u
<1>2. Closes(u, s, {})
  BY <1>1 DEF Closes
<1> QED
  BY <1>1, <1>2 DEF u

LEMMA ArrivalCloses ==
  ASSUME NEW s \in Sessions
  PROVE  Arrival(s) \in Seq(Ops) /\ Closes(Arrival(s), s, {"listen"})
<1> DEFINE a == Do("insert", s)
           b == Say("notify", s, Join(s))
           q == <<Do("listen", s), Do("end", s)>>
<1>1. a \in Ops /\ b \in Ops
  <2>1. Join(s) \in Notices
    BY DEF Notices, Join
  <2> QED
    BY <2>1, Steps, Notes
<1>2. <<a>> \in Seq(Ops) /\ Silent(<<a>>) /\ <<a, b>> \in Seq(Ops) /\ Silent(<<a, b>>)
  BY SilentPrograms
<1>3. Arrival(s) = (<<a>> \o (IF UseAuthorization THEN <<b>> ELSE <<>>)) \o q
  BY DEF Arrival
<1>4. /\ Closes(<<a>> \o q, s, {"listen"}) /\ <<a>> \o q \in Seq(Ops)
      /\ Closes(<<a, b>> \o q, s, {"listen"}) /\ <<a, b>> \o q \in Seq(Ops)
  <2> HIDE DEF a, b
  <2> QED  BY <1>2, StartsLast
<1> HIDE DEF a, b, q
<1>5. CASE UseAuthorization
  <2>1. <<a>> \o <<b>> = <<a, b>>
    BY <1>1, Two, Zenon
  <2>2. Arrival(s) = <<a, b>> \o q
    BY <1>3, <1>5, <2>1, Zenon
  <2> QED
    BY <1>4, <2>2, Zenon
<1>6. CASE ~UseAuthorization
  <2>1. <<a>> \o <<>> = <<a>>
    BY <1>2, ConcatEmptySeq, Zenon
  <2>2. Arrival(s) = <<a>> \o q
    BY <1>3, <1>6, <2>1, Zenon
  <2> QED
    BY <1>4, <2>2, Zenon
<1> QED
  BY <1>5, <1>6

\* One operation less.
LEMMA Less ==
  ASSUME IInv, Counted, NEW s \in Sessions, NEW o \in Operations, Complete(s, o)
  PROVE  /\ pending[s][o] = 1 /\ pending'[s][o] = 0
         /\ \A x \in Operations : x # o => pending'[s][x] = pending[s][x]
         /\ \A r \in Sessions : r # s => pending'[r] = pending[r]
<1>1. /\ pending \in [Sessions -> [Operations -> Nat]] /\ pending[s] \in [Operations -> Nat]
      /\ pending[s][o] \in 0..1 /\ pending[s][o] > 0
  BY DEF Complete, IInv, Typed, Counted, Quota
<1> DEFINE new == [pending[s] EXCEPT ![o] = pending[s][o] - 1]
<1>2. new[o] = 0 /\ \A x \in Operations : x # o => new[x] = pending[s][x]
  BY <1>1
<1>3. pending' = [pending EXCEPT ![s] = new]
  BY DEF Complete
<1> HIDE DEF new
<1> QED
  BY <1>1, <1>2, <1>3

LEMMA DueCounted ==
  ASSUME IInv, Counted, NEW s \in Sessions, Due(s)
  PROVE  Counted'
<1>0. Operations = {"accept", "read", "wait", "close"}
  BY DEF Operations
<1> DEFINE last == <<Do("end", s)>>
           none == {}
<1>1. /\ last \in Seq(Ops) /\ Closes(last, s, none)
      /\ Arrival(s) \in Seq(Ops) /\ Closes(Arrival(s), s, {"listen"})
      /\ "listen" \notin none /\ "read" \notin none
  BY EndCloses, ArrivalCloses
<1>2. Quota(s)
  BY DEF Counted
<1>3. ~Running(s) => \A t \in Threads : ~Mentions(todo[t], Do("end", s))
  BY DEF Running, Mentions
<1> HIDE DEF none
<1>4. ASSUME NEW th \in Threads, on_accept(th, s) PROVE Counted'
  <2>1. todo[th] = <<>> /\ ~Running(s) /\ Complete(s, "accept")
    BY <1>4 DEF on_accept, Idle
  <2>2. PICK first \in Seq(Ops), starts \in {none, {"listen"}} :
          Closes(first, s, starts) /\ Run(th, first)
    BY <1>1, <1>4 DEF on_accept
  <2>3. /\ pending[s]["accept"] = 1 /\ pending'[s]["accept"] = 0
        /\ \A x \in Operations : x # "accept" => pending'[s][x] = pending[s][x]
        /\ \A r \in Sessions : r # s => pending'[r] = pending[r]
    BY <1>0, <2>1, Less
  <2>4. \A o \in Operations : pending'[s][o] = 0
    BY <1>0, <1>2, <2>3 DEF Quota
  <2>5. pending'[s]["read"] = 0 /\ pending'[s]["wait"] = 0 /\ pending'[s]["close"] = 0
    BY <1>0, <2>4
  <2> QED
    BY <2>1, <2>2, <2>3, <2>4, <2>5, HandlerCounted
<1>5. ASSUME NEW th \in Threads, on_read_failed(th, s) \/ on_close(th, s) PROVE Counted'
  <2>1. PICK o \in {"read", "close"} : Complete(s, o)
    BY <1>5 DEF on_read_failed, on_close
  <2>2. todo[th] = <<>> /\ ~Running(s) /\ Run(th, last)
    BY <1>5 DEF on_read_failed, on_close, Idle
  <2> HIDE DEF last
  <2>3. /\ pending[s][o] = 1 /\ pending'[s][o] = 0
        /\ \A x \in Operations : x # o => pending'[s][x] = pending[s][x]
        /\ \A r \in Sessions : r # s => pending'[r] = pending[r]
    BY <1>0, <2>1, Less
  <2>4. /\ \A x \in Operations : pending'[s][x] \in 0..1
        /\ pending'[s]["accept"] = 0
        /\ pending'[s]["wait"] = 1 => pending'[s]["close"] = 0
    <3>1. pending[s]["accept"] = 0 /\ \A x \in Operations : pending[s][x] \in 0..1
      BY <1>0, <1>2, <2>3 DEF Quota
    <3>2. \A x \in Operations : pending'[s][x] \in 0..1
      BY <2>3, <3>1
    <3>3. pending'[s]["wait"] = 1 => pending[s]["wait"] = 1 /\ pending[s]["close"] = 0
      BY <1>0, <1>2, <2>3 DEF Quota
    <3>4. pending'[s]["wait"] = 1 => pending'[s]["close"] = 0
      BY <1>0, <2>3, <3>3
    <3> QED
      BY <1>0, <2>3, <3>1, <3>2, <3>4
  <2>5. pending'[s]["accept"] # 1
    BY <2>4
  <2> QED
    BY <1>1, <2>2, <2>3, <2>4, <2>5, HandlerCounted
<1>6. ASSUME NEW th \in Threads, check_dead_line(th, s) PROVE Counted'
  <2>1. /\ todo[th] = <<>> /\ ~Running(s) /\ Run(th, last)
        /\ pending[s]["wait"] > 0
    BY <1>6 DEF check_dead_line, Idle
  <2> HIDE DEF last
  <2>2. /\ pending[s]["wait"] = 1 /\ pending[s]["close"] = 0 /\ pending[s]["accept"] = 0
        /\ pending[s]["read"] \in 0..1 /\ pending[s] \in [Operations -> Nat]
        /\ pending \in [Sessions -> [Operations -> Nat]]
    BY <1>0, <1>2, <2>1 DEF Quota, IInv, Typed
  <2> DEFINE new == [pending[s] EXCEPT !["wait"] = @ - 1,
                                       !["close"] = IF authorized_[s] THEN @ ELSE @ + 1]
  <2>3. /\ new["wait"] = 0 /\ new["close"] \in 0..1 /\ new["accept"] = 0
        /\ new["read"] \in 0..1
    BY <1>0, <2>2
  <2>4. pending' = [pending EXCEPT ![s] = new]
    BY <1>6, <2>2 DEF check_dead_line
  <2> HIDE DEF new
  <2>5. pending'[s] = new /\ \A r \in Sessions : r # s => pending'[r] = pending[r]
    BY <2>2, <2>4
  <2>6. /\ \A x \in Operations : pending'[s][x] \in 0..1
        /\ pending'[s]["accept"] # 1 /\ pending'[s]["wait"] # 1
    BY <1>0, <2>3, <2>5
  <2> QED
    BY <1>1, <2>1, <2>5, <2>6, HandlerCounted
<1>7. ASSUME NEW th \in Threads, on_send(th, s) PROVE Counted'
  <2>1. /\ todo[th] = <<>> /\ ~Running(s) /\ Run(th, last) /\ pending' = pending
        /\ posts[s] > 0
    BY <1>7 DEF on_send, Idle
  <2> HIDE DEF last
  <2>2. Quota(s) /\ \A x \in Operations : pending'[s][x] = pending[s][x]
    BY <1>2, <2>1
  <2>3. /\ \A x \in Operations : pending'[s][x] \in 0..1
        /\ pending'[s]["accept"] = 1
             => \A x \in Operations : x # "accept" => pending'[s][x] = 0
        /\ pending'[s]["wait"] = 1 => pending'[s]["close"] = 0
    BY <1>0, <2>2 DEF Quota
  <2>4. \A r \in Sessions : r # s => pending'[r] = pending[r]
    BY <2>1
  <2> QED
    BY <1>1, <2>1, <2>3, <2>4, HandlerCounted
<1> QED
  BY <1>4, <1>5, <1>6, <1>7 DEF Due

LEMMA ClientCounted ==
  ASSUME IInv, Counted, NEW s \in Sessions, Client(s)
  PROVE  Counted'
<1>0. Operations = {"accept", "read", "wait", "close"}
  BY DEF Operations
<1>1. CASE disconnect(s)
  BY <1>1 DEF disconnect, Counted, Strands, Quota
<1>2. ASSUME NEW th \in Threads, NEW ok \in BOOLEAN, make_websocket_session(th, s, ok)
      PROVE  Counted'
  <2> DEFINE first == <<Do("drop", s)>>
  <2>1. first \in Seq(Ops) /\ todo[th] = <<>> /\ Run(th, first) /\ phase[s] = "none"
    BY <1>2, LetGo DEF make_websocket_session, Idle
  <2>2. Len(first) = 1 /\ first[1].op = "drop"
    BY DEF Do
  <2> HIDE DEF first
  <2>3. /\ Adjoins(first) /\ \A r \in Sessions : EndsOnce(first, r)
        /\ \A r \in Sessions, op \in {"end", "listen", "read"} : ~Mentions(first, Do(op, r))
    BY <2>2 DEF Adjoins, EndsOnce, Mentions, Do
  <2>4. todo'[th] = first /\ \A t \in Threads : t # th => todo'[t] = todo[t]
    BY <2>1 DEF Run, IInv, Typed
  <2>5. \A t \in Threads, r \in Sessions, op \in {"end", "listen", "read"} :
          Mentions(todo'[t], Do(op, r)) => Mentions(todo[t], Do(op, r))
    BY <2>3, <2>4
  <2>6. Strands'
    BY <2>3, <2>4, <2>5 DEF Counted, Strands
  <2>7. ~Referenced(s) /\ pending \in [Sessions -> [Operations -> Nat]]
    BY <2>1 DEF IInv, Typed
  <2>8. /\ \A o \in Operations : pending[s][o] = 0
        /\ \A t \in Threads, op \in {"listen", "read"} : ~Mentions(todo[t], Do(op, s))
    <3>1. \A o \in Operations : pending[s][o] = 0
      BY <2>7 DEF Referenced
    <3>2. ASSUME NEW t \in Threads, NEW op \in {"listen", "read"}, NEW i \in 1..Len(todo[t]),
                 todo[t][i] = Do(op, s)
          PROVE  FALSE
      <4>1. todo[t][i].op \in {"listen", "read"} /\ todo[t][i].s = s
        BY <3>2 DEF Do
      <4>2. Mentions(todo[t], Do("end", s))
        BY <4>1 DEF Counted, Strands, Adjoins, Mentions
      <4> QED
        BY <2>7, <4>2, HeldMentions DEF Referenced
    <3> QED
      BY <3>1, <3>2 DEF Mentions
  <2>9. /\ pending'[s]["accept"] \in 0..1
        /\ \A o \in Operations : o # "accept" => pending'[s][o] = 0
        /\ \A r \in Sessions : r # s => pending'[r] = pending[r]
    <3>1. CASE pending' = pending
      BY <1>0, <2>8, <3>1
    <3>2. CASE Expect(s, "accept")
      <4> DEFINE new == [pending[s] EXCEPT !["accept"] = pending[s]["accept"] + 1]
      <4>1. new["accept"] = 1 /\ \A o \in Operations : o # "accept" => new[o] = 0
        BY <1>0, <2>7, <2>8
      <4>2. pending' = [pending EXCEPT ![s] = new]
        BY <3>2 DEF Expect
      <4> HIDE DEF new
      <4> QED
        BY <2>7, <4>1, <4>2
    <3> QED
      BY <1>2, <3>1, <3>2 DEF make_websocket_session
  <2>10. Quota(s)'
    BY <1>0, <2>5, <2>8, <2>9 DEF Quota
  <2>11. ASSUME NEW r \in Sessions, r # s PROVE Quota(r)'
    BY <2>5, <2>9, <2>11 DEF Quota, Counted
  <2> QED
    BY <2>6, <2>10, <2>11 DEF Counted
<1>3. ASSUME NEW th \in Threads,
             \/ on_text(th, s) \/ on_private(th, s)
             \/ \E good \in BOOLEAN : on_client_param(th, s, good)
      PROVE  Counted'
  <2> DEFINE q == <<Do("read", s), Do("end", s)>>
  <2>1. todo[th] = <<>> /\ ~Running(s) /\ Complete(s, "read")
    BY <1>3 DEF on_text, on_private, on_client_param, Idle
  <2>2. PICK p \in Seq(Ops) : Silent(p) /\ Run(th, p \o q)
    <3>1. CASE on_text(th, s)
      <4>1. PICK p \in {<<Say("notify", nil_uuid, Text)>>, <<>>} : Run(th, p \o q)
        BY <3>1 DEF on_text, Again
      <4> HIDE DEF q
      <4> QED
        BY <4>1, SilentPrograms
    <3>2. CASE on_private(th, s)
      <4> DEFINE p == <<Do("search", s)>>
      <4>1. Run(th, p \o q) /\ p \in Seq(Ops) /\ Silent(p)
        BY <3>2, SilentPrograms DEF on_private, Again
      <4> HIDE DEF p, q
      <4> QED
        BY <4>1
    <3>3. ASSUME NEW good \in BOOLEAN, on_client_param(th, s, good)
          PROVE  \E p \in Seq(Ops) : Silent(p) /\ Run(th, p \o q)
      <4>1. PICK op \in {"authorize", "look_up"} : Run(th, <<Do(op, s), Do("raw", s)>> \o q)
        BY <3>3 DEF on_client_param, Again
      <4> DEFINE p == <<Do(op, s), Do("raw", s)>>
      <4>2. Run(th, p \o q) /\ p \in Seq(Ops) /\ Silent(p)
        BY <4>1, SilentPrograms
      <4> HIDE DEF p, q
      <4> QED
        BY <4>2
    <3> QED
      BY <1>3, <3>1, <3>2, <3>3
  <2>3. p \o q \in Seq(Ops) /\ Closes(p \o q, s, {"read"})
    BY <2>2, StartsLast
  <2>4. /\ pending[s]["read"] = 1 /\ pending'[s]["read"] = 0
        /\ \A x \in Operations : x # "read" => pending'[s][x] = pending[s][x]
        /\ \A r \in Sessions : r # s => pending'[r] = pending[r]
    BY <1>0, <2>1, Less
  <2>5. Quota(s)
    BY DEF Counted
  <2>6. pending'[s]["accept"] = 0
    BY <1>0, <2>4, <2>5 DEF Quota
  <2>7. /\ \A x \in Operations : pending'[s][x] \in 0..1
        /\ pending'[s]["wait"] = 1 => pending'[s]["close"] = 0
    BY <1>0, <2>4, <2>5 DEF Quota
  <2> HIDE DEF q
  <2> DEFINE first == p \o q
  <2>8. first \in Seq(Ops) /\ Closes(first, s, {"read"}) /\ Run(th, first)
    BY <2>2, <2>3
  <2> HIDE DEF first
  <2>9. pending'[s]["accept"] # 1 /\ "listen" \notin {"read"}
    BY <2>6
  <2> QED
    BY <2>1, <2>4, <2>6, <2>7, <2>8, <2>9, HandlerCounted
<1> QED
  BY <1>1, <1>2, <1>3 DEF Client

LEMMA ThreadCounted ==
  ASSUME IInv, Counted, NEW th \in Threads, Step(th)
  PROVE  Counted'
<1>1. <<>> \in Seq(Ops) /\ Silent(<<>>)
  BY DEF Silent
<1>2. ASSUME NEW s \in Sessions, listen(th, s) \/ read(th, s) PROVE Counted'
  BY <1>2, ListenCounted, ReadCounted
<1>3. ASSUME NEW s \in Sessions,
             insert(th, s) \/ erase(th, s) \/ freed(th, s) \/ authorize(th, s) \/ look_up(th, s)
               \/ raw(th, s)
      PROVE  Counted'
  <2>1. todo[th] # <<>> /\ Continue(th, <<>>) /\ pending' = pending
    BY <1>3 DEF insert, erase, freed, authorize, look_up, raw, At
  <2> QED
    BY <1>1, <2>1, SilentNext
<1>4. ASSUME NEW s \in Sessions, post(th, s) PROVE Counted'
  <2>1. todo[th] # <<>> /\ pending' = pending
    BY <1>4 DEF post, At
  <2>2. PICK first \in Seq(Ops) : Silent(first) /\ Continue(th, first)
    <3> DEFINE p == <<Do("drop", s)>>
    <3>1. p \in Seq(Ops) /\ Silent(p)
      <4>1. p \in Seq(Ops) /\ Len(p) = 1 /\ p[1].op = "drop"
        BY Steps
      <4> HIDE DEF p
      <4> QED
        BY <4>1 DEF Silent
    <3>2. Continue(th, p) \/ Continue(th, <<>>)
      BY <1>4 DEF post
    <3> HIDE DEF p
    <3> QED
      BY <1>1, <3>1, <3>2
  <2> QED
    BY <2>1, <2>2, SilentNext
<1>5. ASSUME NEW s \in Sessions, release(th, s) PROVE Counted'
  <2>1. todo[th] # <<>> /\ pending' = pending
    BY <1>5 DEF release, At
  <2>2. PICK first \in Seq(Ops) : Silent(first) /\ Continue(th, first)
    <3>1. Departure(s) \in Seq(Ops)
      BY Departs DEF IInv, Typed
    <3>2. Silent(Departure(s))
      <4> DEFINE p == <<Do("erase", s), Say("notify", nil_uuid, Leave(s)), Do("freed", s)>>
      <4>1. Len(p) = 3 /\ p[1].op = "erase" /\ p[2].op = "notify" /\ p[3].op = "freed"
        BY DEF Do, Say
      <4> HIDE DEF p
      <4>2. Silent(p)
        BY <4>1 DEF Silent
      <4> QED
        BY <4>2 DEF p, Departure
    <3> QED
      BY <1>1, <1>5, <3>1, <3>2 DEF release
  <2> QED
    BY <2>1, <2>2, SilentNext
<1>6. ASSUME NEW s \in Sessions, search(th, s) PROVE Counted'
  <2>1. todo[th] # <<>> /\ pending' = pending
    BY <1>6 DEF search, At
  <2>2. PICK first \in Seq(Ops) : Silent(first) /\ Continue(th, first)
    <3>1. CASE Continue(th, <<>>)
      BY <1>1, <3>1
    <3>2. ASSUME NEW found \in SUBSET registered, NEW order \in SetToSeqs(found),
                 Continue(th, [i \in DOMAIN order |-> Do("raw", order[i])] \o <<Do("raw", s)>>)
          PROVE  \E first \in Seq(Ops) : Silent(first) /\ Continue(th, first)
      <4> DEFINE p == [i \in DOMAIN order |-> Do("raw", order[i])] \o <<Do("raw", s)>>
      <4>1. found \subseteq Sessions
        BY DEF IInv, Typed
      <4>2. order \in Seq(Sessions)
        BY <4>1, Orders
      <4>3. p \in Seq(Ops) /\ \A i \in 1..Len(p) : p[i].op \in Free
        BY <4>2, Raws
      <4>4. Continue(th, p)
        BY <3>2
      <4> HIDE DEF p
      <4>5. Silent(p)
        BY <4>3 DEF Silent, Free
      <4> QED
        BY <4>3, <4>4, <4>5
    <3> QED
      BY <1>6, <3>1, <3>2 DEF search
  <2> QED
    BY <2>1, <2>2, SilentNext
<1>7. ASSUME NEW s \in Sessions \cup {nil_uuid}, notify(th, s) PROVE Counted'
  <2> DEFINE m == Head(todo[th]).m
  <2>1. todo[th] # <<>> /\ todo[th] \in Seq(Ops) /\ Head(todo[th]).op = "notify"
        /\ pending' = pending
    BY <1>7 DEF notify, At, IInv, Typed
  <2>2. m \in Notices
    BY <2>1, Carried
  <2>3. PICK order \in SetToSeqs(registered \ {s}) :
          Continue(th, [i \in DOMAIN order |-> Say("post", order[i], m)])
    BY <1>7 DEF notify
  <2>4. order \in Seq(Sessions)
    BY Orders DEF IInv, Typed
  <2> DEFINE first == [i \in DOMAIN order |-> Say("post", order[i], m)]
  <2>5. first \in Seq(Ops) /\ \A i \in 1..Len(first) : first[i].op \in Free
    BY <2>2, <2>4, Posts
  <2>6. Continue(th, first)
    BY <2>3
  <2> HIDE DEF first
  <2>7. Silent(first)
    BY <2>5 DEF Silent, Free
  <2> QED
    BY <2>1, <2>5, <2>6, <2>7, SilentNext
<1> QED
  BY <1>2, <1>3, <1>4, <1>5, <1>6, <1>7 DEF Step

LEMMA CountedInit == Init => Counted
<1> SUFFICES ASSUME Init PROVE Counted
  OBVIOUS
<1>1. \A th \in Threads : todo[th] = <<>>
  BY DEF Init
<1>2. Strands /\ \A th \in Threads : \A x : ~Mentions(todo[th], x)
  BY <1>1 DEF Strands, Adjoins, EndsOnce, Mentions
<1>3. \A s \in Sessions, o \in Operations : pending[s][o] = 0
  BY DEF Init
<1>4. ASSUME NEW s \in Sessions PROVE Quota(s)
  <2>1. "accept" \in Operations /\ "wait" \in Operations
    BY DEF Operations
  <2> QED
    BY <1>2, <1>3, <2>1 DEF Quota
<1> QED
  BY <1>2, <1>4 DEF Counted

LEMMA CountedNext == IInv /\ Counted /\ [Next]_vars => Counted'
<1> SUFFICES ASSUME IInv, Counted, [Next]_vars PROVE Counted'
  OBVIOUS
<1>1. CASE UNCHANGED vars
  BY <1>1 DEF vars, Counted, Strands, Quota
<1>2. CASE Next
  BY <1>2, ThreadCounted, DueCounted, ClientCounted DEF Next
<1> QED
  BY <1>1, <1>2

\* A session never waits twice for the same: one accept, one read, one dead
\* line, one close.
THEOREM TypeCorrect == Spec => []TypeOK
<1>1. IInv /\ Counted => TypeOK
  <2> SUFFICES ASSUME IInv, Counted PROVE TypeOK
    OBVIOUS
  <2>1. pending \in [Sessions -> [Operations -> 0..1]]
    BY DEF IInv, Typed, Counted, Quota
  <2> QED
    BY <2>1 DEF IInv, Typed, TypeOK
<1> QED
  BY <1>1, Invariant, CountedInit, CountedNext, PTL DEF Spec, Safe

-----------------------------------------------------------------------------
\* sessions_ holds raw pointers: none of them is ever to a destroyed session.
THEOREM Alive == Spec => []RegisteredIsAlive
<1>1. IInv => RegisteredIsAlive
  BY DEF IInv
<1> QED
  BY <1>1, Invariant, PTL

\* A session that has joined is in sessions_ until its destructor runs, when
\* nothing refers to it.
THEOREM Reachable == Spec => []JoinedIsRegistered
<1>1. IInv => JoinedIsRegistered
  <2> SUFFICES ASSUME IInv, NEW s \in Sessions, uuid[s] # nil_uuid, phase[s] = "live",
                      s \notin registered
               PROVE  Doing(s, "freed") /\ ~Referenced(s)
    BY DEF JoinedIsRegistered
  <2>1. PICK th \in Threads : Mentions(todo[th], Do("freed", s))
    BY DEF IInv
  <2>2. ~Referenced(s)
    BY <2>1 DEF IInv, Dying
  <2>3. Doing(s, "freed")
    BY <2>1 DEF Doing, Mentions, Do
  <2> QED
    BY <2>2, <2>3
<1> QED
  BY <1>1, Invariant, PTL

-----------------------------------------------------------------------------
(* What the sessions are told.                                              *)

News == [kind : {"join", "leave"}, of : Sessions]
Left(s) == [kind |-> "leave", of |-> s]

\* Who announces a notice, and what its announcer does only when it is over.
Source(m) == Say("notify", IF m.kind = "join" THEN m.of ELSE nil_uuid, m)
Keeper(m) == Do(IF m.kind = "join" THEN "end" ELSE "freed", m.of)
Tell(r, m) == Say("post", r, m)

Carries(x, m) == x.op \in {"notify", "post"} /\ x.m = m
Said(x) == \E th \in Threads : Mentions(todo[th], x)
Knows(r, m) == Mentions(told[r], m)
Abroad(m) == Said(Source(m)) \/ \E r \in Sessions : Said(Tell(r, m)) \/ Knows(r, m)

Once(q, x) == \A i, j \in 1..Len(q) : q[i] = x /\ q[j] = x => i = j

Sole(x) ==
  /\ \A th \in Threads : Once(todo[th], x)
  /\ \A t, u \in Threads : Mentions(todo[t], x) /\ Mentions(todo[u], x) => t = u

Followed(q, m, y) ==
  \A i \in 1..Len(q) : Carries(q[i], m) => \E j \in (i + 1)..Len(q) : q[j] = y

Preceded(q, x, y) ==
  \A i \in 1..Len(q) : q[i] = x => \E j \in 1..(i - 1) : q[j] = y

Carriers(q, m) ==
  \A i \in 1..Len(q) : Carries(q[i], m) =>
    q[i] = Source(m) \/ \E r \in Sessions : q[i] = Tell(r, m)

\* How a notice goes round: its source becomes one message for each session,
\* which becomes an entry of what that session was told.
Passes(m) ==
  /\ \A th \in Threads : Carriers(todo[th], m) /\ Followed(todo[th], m, Keeper(m))
  /\ Sole(Source(m))
  /\ \A r \in Sessions :
       /\ Sole(Tell(r, m)) /\ Once(told[r], m)
       /\ Said(Source(m)) => ~Said(Tell(r, m)) /\ ~Knows(r, m)
       /\ Said(Tell(r, m)) => ~Knows(r, m)
       /\ Said(Tell(r, m)) \/ Knows(r, m) => uuid[r] = r

\* A join is announced by a session that was accepted and has set its uuid.
Joins(s) ==
  /\ Abroad(Join(s)) => phase[s] # "none" /\ pending[s]["accept"] = 0
  /\ uuid[s] = s \/ \A th \in Threads : Preceded(todo[th], Source(Join(s)), Do("insert", s))
  /\ \A r \in Sessions : Said(Tell(r, Join(s))) \/ Knows(r, Join(s)) => uuid[s] = s

\* A leave is announced by the only destructor of its session.
Parts(s) ==
  /\ Sole(Do("freed", s))
  /\ Abroad(Left(s)) => Said(Do("freed", s)) \/ phase[s] = "gone"
  /\ phase[s] = "gone" => ~Said(Do("freed", s))

InOrder(r, s) ==
  \A i, j \in 1..Len(told[r]) : told[r][i] = Join(s) /\ told[r][j] = Left(s) => i < j

\* Whoever was told of a join is owed the leave.
Owed(r, s) ==
  Referenced(r) /\ Knows(r, Join(s)) =>
    \/ phase[s] = "live" /\ ~Said(Do("freed", s))
    \/ Said(Source(Left(s))) \/ Said(Tell(r, Left(s))) \/ Knows(r, Left(s))

Told ==
  /\ \A r \in registered : uuid[r] = r
  /\ \A m \in News : Passes(m)
  /\ \A s \in Sessions : Joins(s) /\ Parts(s)
  /\ \A r, s \in Sessions : InOrder(r, s) /\ Owed(r, s)

-----------------------------------------------------------------------------
(* Programs and notices.                                                    *)

LEMMA OnceJoined ==
  ASSUME NEW first \in Seq(Ops), NEW q \in Seq(Ops), q # <<>>, NEW x, Once(q, x),
         ~Mentions(first, x) \/ (Once(first, x) /\ ~Mentions(q, x))
  PROVE  Once(first \o Tail(q), x)
<1> DEFINE p == first \o Tail(q)
<1> SUFFICES ASSUME NEW i \in 1..Len(p), NEW j \in 1..Len(p), p[i] = x, p[j] = x
             PROVE  i = j
  BY DEF Once
<1>1. \A k \in 1..Len(p) :
        \/ k \in 1..Len(first) /\ p[k] = first[k]
        \/ k - Len(first) + 1 \in 2..Len(q) /\ p[k] = q[k - Len(first) + 1]
  BY Joined
<1> HIDE DEF p
<1>2. CASE ~Mentions(first, x)
  <2>1. ASSUME NEW k \in 1..Len(p), p[k] = x
        PROVE  k - Len(first) + 1 \in 1..Len(q) /\ q[k - Len(first) + 1] = x
    <3>1. ~(k \in 1..Len(first) /\ first[k] = x)
      BY <1>2 DEF Mentions
    <3>2. k - Len(first) + 1 \in 2..Len(q) /\ q[k - Len(first) + 1] = x
      BY <1>1, <2>1, <3>1
    <3> QED
      BY <3>2
  <2>2. i - Len(first) + 1 = j - Len(first) + 1
    BY <2>1 DEF Once
  <2> QED
    BY <2>2
<1>3. CASE Once(first, x) /\ ~Mentions(q, x)
  <2>1. ASSUME NEW k \in 1..Len(p), p[k] = x PROVE k \in 1..Len(first) /\ first[k] = x
    <3>1. \A n \in 1..Len(q) : q[n] # x
      BY <1>3 DEF Mentions
    <3>2. k - Len(first) + 1 \in 2..Len(q) => k - Len(first) + 1 \in 1..Len(q)
      OBVIOUS
    <3> QED
      BY <1>1, <2>1, <3>1, <3>2
  <2> QED
    BY <1>3, <2>1 DEF Once
<1> QED
  BY <1>2, <1>3

LEMMA OnceHead ==
  ASSUME NEW q \in Seq(Ops), q # <<>>, Once(q, Head(q))
  PROVE  ~Mentions(Tail(q), Head(q))
<1> SUFFICES ASSUME NEW i \in 1..Len(Tail(q)), Tail(q)[i] = Head(q) PROVE FALSE
  BY DEF Mentions
<1>1. 1 \in 1..Len(q) /\ i + 1 \in 1..Len(q) /\ q[1] = Head(q) /\ q[i + 1] = Head(q)
  OBVIOUS
<1>2. 1 = i + 1
  BY <1>1 DEF Once
<1> QED
  BY <1>2

\* A program goes on with what it keeps for the end, or adds it.
LEMMA FollowedJoined ==
  ASSUME NEW first \in Seq(Ops), NEW q \in Seq(Ops), q # <<>>, NEW m, NEW y,
         Followed(q, m, y), Followed(first, m, y) \/ Carries(Head(q), m)
  PROVE  Followed(first \o Tail(q), m, y)
<1> DEFINE p == first \o Tail(q)
<1> SUFFICES ASSUME NEW i \in 1..Len(p), Carries(p[i], m)
             PROVE  \E j \in (i + 1)..Len(p) : p[j] = y
  BY DEF Followed
<1> HIDE DEF p
<1>0. Len(p) = Len(first) + Len(q) - 1 /\ Len(q) \in Nat \ {0} /\ Head(q) = q[1]
      /\ Len(first) \in Nat
  BY Joined DEF p
<1>1. CASE i \in 1..Len(first) /\ Followed(first, m, y)
  <2>1. first[i] = p[i]
    BY <1>1, Joined DEF p
  <2>2. PICK j \in (i + 1)..Len(first) : first[j] = y
    BY <1>1, <2>1 DEF Followed
  <2>3. p[j] = first[j] /\ j \in (i + 1)..Len(p)
    BY <1>0, <1>1, Joined DEF p
  <2> QED
    BY <2>2, <2>3
<1>2. CASE i \in 1..Len(first) /\ Carries(Head(q), m)
  <2>1. PICK j \in (1 + 1)..Len(q) : q[j] = y
    BY <1>0, <1>2 DEF Followed
  <2>2. p[j + Len(first) - 1] = q[j]
    BY <2>1, Joined DEF p
  <2>3. j + Len(first) - 1 \in (i + 1)..Len(p)
    BY <1>0, <1>2, <2>1
  <2> QED
    BY <2>1, <2>2, <2>3
<1>3. CASE i - Len(first) + 1 \in 2..Len(q) /\ p[i] = q[i - Len(first) + 1]
  <2> DEFINE k == i - Len(first) + 1
  <2>0. k \in 1..Len(q) /\ p[i] = q[k] /\ k + 1 = i - Len(first) + 2
    BY <1>3
  <2>1. PICK j \in (i - Len(first) + 2)..Len(q) : q[j] = y
    <3> HIDE DEF k
    <3> QED  BY <2>0 DEF Followed
  <2>2. p[j + Len(first) - 1] = q[j] /\ j + Len(first) - 1 \in (i + 1)..Len(p)
    BY <2>1, <1>3, Joined DEF p
  <2> QED
    BY <2>1, <2>2
<1> QED
  BY <1>1, <1>2, <1>3, Joined DEF p

LEMMA PrecededJoined ==
  ASSUME NEW first \in Seq(Ops), NEW q \in Seq(Ops), q # <<>>, NEW x, NEW y,
         Preceded(first, x, y), Preceded(q, x, y), Head(q) # y
  PROVE  Preceded(first \o Tail(q), x, y)
<1> DEFINE p == first \o Tail(q)
<1> SUFFICES ASSUME NEW i \in 1..Len(p), p[i] = x
             PROVE  \E j \in 1..(i - 1) : p[j] = y
  BY DEF Preceded
<1> HIDE DEF p
<1>1. CASE i \in 1..Len(first)
  <2>1. PICK j \in 1..(i - 1) : first[j] = y
    BY <1>1, Joined DEF Preceded, p
  <2> QED
    BY <2>1, <1>1, Joined DEF p
<1>2. CASE i - Len(first) + 1 \in 2..Len(q) /\ p[i] = q[i - Len(first) + 1]
  <2>1. PICK j \in 1..(i - Len(first)) : q[j] = y
    BY <1>2 DEF Preceded
  <2>2. j # 1
    BY <2>1
  <2>3. p[j + Len(first) - 1] = q[j] /\ j + Len(first) - 1 \in 1..(i - 1)
    BY <2>1, <2>2, <1>2, Joined DEF p
  <2> QED
    BY <2>1, <2>3
<1> QED
  BY <1>1, <1>2, Joined DEF p

LEMMA CarriersJoined ==
  ASSUME NEW first \in Seq(Ops), NEW q \in Seq(Ops), q # <<>>, NEW m,
         Carriers(first, m), Carriers(q, m)
  PROVE  Carriers(first \o Tail(q), m)
<1> DEFINE p == first \o Tail(q)
<1> SUFFICES ASSUME NEW i \in 1..Len(p), Carries(p[i], m)
             PROVE  p[i] = Source(m) \/ \E r \in Sessions : p[i] = Tell(r, m)
  BY DEF Carriers
<1>1. \/ i \in 1..Len(first) /\ p[i] = first[i]
      \/ i - Len(first) + 1 \in 1..Len(q) /\ p[i] = q[i - Len(first) + 1]
  BY Joined
<1> HIDE DEF p
<1> QED
  BY <1>1 DEF Carriers

\* Thread th has `first' to do instead of the operation it has done, if any.
Moves(th, first) ==
  /\ Becomes(th, first)
  /\ \A x : Once(todo[th], x)
              /\ (~Mentions(first, x) \/ (Once(first, x) /\ ~Mentions(todo[th], x)))
            => Once(todo'[th], x)
  /\ \A x : todo[th] # <<>> /\ x = Head(todo[th]) /\ Once(todo[th], x) /\ ~Mentions(first, x)
            => ~Mentions(todo'[th], x)
  /\ \A m, y : /\ Followed(todo[th], m, y)
               /\ Followed(first, m, y) \/ (todo[th] # <<>> /\ Carries(Head(todo[th]), m))
               => Followed(todo'[th], m, y)
  /\ \A x, y : /\ Preceded(first, x, y) /\ Preceded(todo[th], x, y)
               /\ todo[th] = <<>> \/ Head(todo[th]) # y
               => Preceded(todo'[th], x, y)
  /\ \A m : Carriers(first, m) /\ Carriers(todo[th], m) => Carriers(todo'[th], m)

LEMMA ContinueMoves ==
  ASSUME Typed, NEW th \in Threads, todo[th] # <<>>, Ends(todo[th]), Frees(todo[th]),
         NEW first \in Seq(Ops), Continue(th, first)
  PROVE  Moves(th, first)
<1> DEFINE q == todo[th]
<1>1. q \in Seq(Ops) /\ q # <<>>
  BY DEF Typed
<1>2. todo'[th] = first \o Tail(q)
  BY DEF Typed, Continue
<1>3. Becomes(th, first)
  BY ContinueBecomes
<1> HIDE DEF q
<1>4. ASSUME NEW x, Once(q, x),
             ~Mentions(first, x) \/ (Once(first, x) /\ ~Mentions(q, x))
      PROVE  Once(todo'[th], x)
  BY <1>1, <1>2, <1>4, OnceJoined
<1>5. ASSUME NEW x, x = Head(q), Once(q, x), ~Mentions(first, x)
      PROVE  ~Mentions(todo'[th], x)
  BY <1>1, <1>2, <1>5, OnceHead, MentionsJoined
<1>6. ASSUME NEW m, NEW y, Followed(q, m, y), Followed(first, m, y) \/ Carries(Head(q), m)
      PROVE  Followed(todo'[th], m, y)
  BY <1>1, <1>2, <1>6, FollowedJoined
<1>7. ASSUME NEW x, NEW y, Preceded(first, x, y), Preceded(q, x, y), Head(q) # y
      PROVE  Preceded(todo'[th], x, y)
  BY <1>1, <1>2, <1>7, PrecededJoined
<1>8. ASSUME NEW m, Carriers(first, m), Carriers(q, m)
      PROVE  Carriers(todo'[th], m)
  BY <1>1, <1>2, <1>8, CarriersJoined
<1> QED
  BY <1>1, <1>3, <1>4, <1>5, <1>6, <1>7, <1>8 DEF Moves, q

LEMMA RunMoves ==
  ASSUME Typed, NEW th \in Threads, todo[th] = <<>>,
         NEW program \in Seq(Ops), Run(th, program)
  PROVE  Moves(th, program)
<1>1. todo'[th] = program
  BY DEF Typed, Run
<1>2. Becomes(th, program)
  BY RunBecomes
<1>3. \A x : ~Mentions(program, x) => Once(program, x)
  BY DEF Mentions, Once
<1> QED
  BY <1>1, <1>2, <1>3 DEF Moves

\* Nothing of `first' is about m.
Mute(first, m) == \A i \in 1..Len(first) : ~Carries(first[i], m)

LEMMA Newses ==
  ASSUME NEW m \in News
  PROVE  /\ m \in Notices /\ m.kind \in {"join", "leave"} /\ m.of \in Sessions /\ m # Text
         /\ Source(m) \in Ops /\ Source(m).op = "notify" /\ Carries(Source(m), m)
         /\ \A r \in Sessions : Tell(r, m) \in Ops /\ Carries(Tell(r, m), m)
                                /\ Tell(r, m).op = "post" /\ Tell(r, m).s = r
         /\ \A r \in Sessions : Source(m) # Tell(r, m)
         /\ \A op, s : Source(m) # Do(op, s)
         /\ \A op, s, r : Tell(r, m) # Do(op, s)
         /\ Keeper(m) \in Ops /\ Keeper(m).op \in {"end", "freed"} /\ Keeper(m).s = m.of
<1>1. m \in Notices /\ m.kind \in {"join", "leave"} /\ m.of \in Sessions
  BY DEF News, Notices
<1>2. m # Text
  BY <1>1 DEF Text
<1>3. Source(m) \in Ops /\ Source(m).op = "notify" /\ Carries(Source(m), m)
  BY <1>1, Notes DEF Source, Carries, Say
<1>4. \A r \in Sessions : Tell(r, m) \in Ops /\ Carries(Tell(r, m), m)
                          /\ Tell(r, m).op = "post" /\ Tell(r, m).s = r
  BY <1>1, Notes DEF Tell, Carries, Say
<1>5. ASSUME NEW op, NEW s, NEW r PROVE Source(m) # Do(op, s) /\ Tell(r, m) # Do(op, s)
  <2>1. \A po, t : DOMAIN Say(po, t, m) = {"op", "s", "m"}
    BY DEF Say
  <2>2. DOMAIN Do(op, s) = {"op", "s"}
    BY DEF Do
  <2>3. "m" \notin {"op", "s"}
    OBVIOUS
  <2> QED
    BY <2>1, <2>2, <2>3 DEF Source, Tell
<1>6. Keeper(m) \in Ops /\ Keeper(m).op \in {"end", "freed"} /\ Keeper(m).s = m.of
  BY <1>1, Steps DEF Keeper
<1>7. \A r \in Sessions : Source(m) # Tell(r, m)
  BY <1>3, <1>4
<1> QED
  BY <1>1, <1>2, <1>3, <1>4, <1>5, <1>6, <1>7

LEMMA JoinAndLeave ==
  ASSUME NEW s \in Sessions
  PROVE  /\ Join(s) \in News /\ Left(s) \in News
         /\ Join(s).kind = "join" /\ Left(s).kind = "leave" /\ Join(s).of = s /\ Left(s).of = s
         /\ Source(Join(s)) = Say("notify", s, Join(s))
         /\ Source(Left(s)) = Say("notify", nil_uuid, Left(s))
         /\ Keeper(Join(s)) = Do("end", s) /\ Keeper(Left(s)) = Do("freed", s)
         /\ \A r \in Sessions : /\ Join(s) # Left(r)
                                /\ Join(s) = Join(r) => s = r
                                /\ Left(s) = Left(r) => s = r
<1>1. Join(s).kind = "join" /\ Left(s).kind = "leave" /\ Join(s).of = s /\ Left(s).of = s
  BY DEF Join, Left
<1>2. Join(s) \in News /\ Left(s) \in News
  BY DEF Join, Left, News
<1>3. ASSUME NEW r \in Sessions
      PROVE  /\ Join(s) # Left(r)
             /\ Join(s) = Join(r) => s = r
             /\ Left(s) = Left(r) => s = r
  <2>1. Join(r).of = r /\ Left(r).of = r /\ Left(r).kind = "leave"
    BY DEF Join, Left
  <2> QED
    BY <1>1, <2>1
<1> QED
  BY <1>1, <1>2, <1>3 DEF Source, Keeper

LEMMA NewsOf ==
  ASSUME NEW m \in News
  PROVE  m = Join(m.of) \/ m = Left(m.of)
BY DEF News, Join, Left

LEMMA Muted ==
  ASSUME NEW m \in News, NEW first, Mute(first, m)
  PROVE  /\ ~Mentions(first, Source(m)) /\ \A r \in Sessions : ~Mentions(first, Tell(r, m))
         /\ Carriers(first, m) /\ \A y : Followed(first, m, y)
BY Newses DEF Mute, Mentions, Carriers, Followed

LEMMA SaidKept ==
  ASSUME NEW th \in Threads, NEW first, Moves(th, first), NEW x, Said(x),
         todo[th] = <<>> \/ Head(todo[th]) # x
  PROVE  Said(x)'
BY DEF Moves, Becomes, Said

LEMMA SaidBefore ==
  ASSUME NEW th \in Threads, NEW first, Moves(th, first), NEW x,
         ~Mentions(first, x)
  PROVE  Said(x)' => Said(x)
BY DEF Moves, Becomes, Said

LEMMA SoleKept ==
  ASSUME NEW th \in Threads, NEW first, Moves(th, first), NEW x, Sole(x),
         ~Mentions(first, x)
  PROVE  Sole(x)'
<1>1. \A t \in Threads : Once(todo'[t], x)
  BY DEF Moves, Becomes, Sole
<1>2. \A t \in Threads : Mentions(todo'[t], x) => Mentions(todo[t], x)
  BY DEF Moves, Becomes
<1> QED
  BY <1>1, <1>2 DEF Sole

LEMMA SoleDone ==
  ASSUME NEW th \in Threads, NEW first, Moves(th, first), NEW x, Sole(x),
         todo[th] # <<>>, todo[th] \in Seq(Ops), Head(todo[th]) = x, ~Mentions(first, x)
  PROVE  ~Said(x)'
<1>1. Mentions(todo[th], x)
  BY DEF Mentions
<1>2. \A t \in Threads : t # th => ~Mentions(todo'[t], x)
  BY <1>1 DEF Moves, Becomes, Sole
<1>3. ~Mentions(todo'[th], x)
  BY DEF Moves, Sole
<1> QED
  BY <1>2, <1>3 DEF Said

LEMMA SoleStarts ==
  ASSUME NEW th \in Threads, NEW first, Moves(th, first), NEW x, ~Said(x), Once(first, x)
  PROVE  Sole(x)'
<1>1. \A t \in Threads : ~Mentions(todo[t], x) /\ Once(todo[t], x)
  BY DEF Said, Mentions, Once
<1>2. \A t \in Threads : Once(todo'[t], x)
  BY <1>1 DEF Moves, Becomes
<1>3. \A t \in Threads : t # th => ~Mentions(todo'[t], x)
  BY <1>1 DEF Moves, Becomes
<1> QED
  BY <1>2, <1>3 DEF Sole

\* One more entry of what a session was told.
LEMMA OneMoreTold ==
  ASSUME NEW q \in Seq(Notices), NEW n \in Notices, NEW m
  PROVE  /\ Mentions(Append(q, n), m) <=> Mentions(q, m) \/ m = n
         /\ Once(q, m) /\ (m # n \/ ~Mentions(q, m)) => Once(Append(q, n), m)
<1> DEFINE p == Append(q, n)
<1>1. /\ Len(p) = Len(q) + 1 /\ Len(q) \in Nat /\ p[Len(q) + 1] = n
      /\ \A i \in 1..Len(q) : p[i] = q[i]
  OBVIOUS
<1> HIDE DEF p
<1>2. Mentions(p, m) <=> Mentions(q, m) \/ m = n
  <2>1. Mentions(q, m) => Mentions(p, m)
    BY <1>1 DEF Mentions
  <2>2. m = n => Mentions(p, m)
    <3>1. Len(q) + 1 \in 1..Len(p)
      BY <1>1
    <3> QED
      BY <1>1, <3>1 DEF Mentions
  <2>3. Mentions(p, m) => Mentions(q, m) \/ m = n
    <3>1. \A i \in 1..Len(p) : i \in 1..Len(q) \/ i = Len(q) + 1
      BY <1>1
    <3> QED
      BY <1>1, <3>1 DEF Mentions
  <2> QED
    BY <2>1, <2>2, <2>3
<1>3. ASSUME Once(q, m), m # n \/ ~Mentions(q, m) PROVE Once(p, m)
  <2> SUFFICES ASSUME NEW i \in 1..Len(p), NEW j \in 1..Len(p), p[i] = m, p[j] = m
               PROVE  i = j
    BY DEF Once
  <2>1. \A k \in 1..Len(p) : k \in 1..Len(q) \/ k = Len(q) + 1
    BY <1>1
  <2>2. CASE m # n
    <3>1. i \in 1..Len(q) /\ j \in 1..Len(q) /\ q[i] = m /\ q[j] = m
      BY <1>1, <2>1, <2>2
    <3> QED
      BY <1>3, <3>1 DEF Once
  <2>3. CASE ~Mentions(q, m)
    <3>1. \A k \in 1..Len(q) : q[k] # m
      BY <2>3 DEF Mentions
    <3>2. i = Len(q) + 1 /\ j = Len(q) + 1
      BY <1>1, <2>1, <3>1
    <3> QED
      BY <3>2
  <2> QED
    BY <1>3, <2>2, <2>3
<1> QED
  BY <1>2, <1>3 DEF p

\* A step that says nothing more of m.
LEMMA PassesKept ==
  ASSUME NEW th \in Threads, NEW first, Moves(th, first), NEW m \in News, Passes(m),
         Mute(first, m),
         \A r \in Sessions : Once(told'[r], m) /\ (Knows(r, m)' => Knows(r, m)),
         \A r \in Sessions : uuid[r] = r => uuid'[r] = r
  PROVE  Passes(m)' /\ (Abroad(m)' => Abroad(m))
<1>1. /\ ~Mentions(first, Source(m)) /\ \A r \in Sessions : ~Mentions(first, Tell(r, m))
      /\ Carriers(first, m) /\ \A y : Followed(first, m, y)
  BY Muted
<1>2. \A t \in Threads : (Carriers(todo[t], m) /\ Followed(todo[t], m, Keeper(m)))'
  BY <1>1 DEF Moves, Becomes, Passes
<1>3. Sole(Source(m))' /\ \A r \in Sessions : Sole(Tell(r, m))'
  BY <1>1, SoleKept DEF Passes
<1>4. /\ Said(Source(m))' => Said(Source(m))
      /\ \A r \in Sessions : Said(Tell(r, m))' => Said(Tell(r, m))
  BY <1>1, SaidBefore
<1> QED
  BY <1>2, <1>3, <1>4 DEF Passes, Abroad

\* A handler or a destructor is about to announce m.
LEMMA PassesStarts ==
  ASSUME NEW th \in Threads, NEW first, Moves(th, first), NEW m \in News, Passes(m),
         ~Abroad(m), Once(first, Source(m)), Followed(first, m, Keeper(m)),
         \A i \in 1..Len(first) : Carries(first[i], m) => first[i] = Source(m),
         told' = told
  PROVE  Passes(m)'
<1>1. /\ Carriers(first, m) /\ \A r \in Sessions : ~Mentions(first, Tell(r, m))
  BY Newses DEF Carriers, Mentions
<1>2. \A t \in Threads : (Carriers(todo[t], m) /\ Followed(todo[t], m, Keeper(m)))'
  BY <1>1 DEF Moves, Becomes, Passes
<1>3. Sole(Source(m))'
  BY SoleStarts DEF Abroad
<1>4. \A r \in Sessions : Sole(Tell(r, m))' /\ ~Said(Tell(r, m))'
  BY <1>1, SoleKept, SaidBefore DEF Passes, Abroad
<1>5. \A r \in Sessions : ~Knows(r, m)' /\ Once(told[r], m)'
  BY DEF Abroad, Knows, Passes
<1> QED
  BY <1>2, <1>3, <1>4, <1>5 DEF Passes

\* send<T>(): a message of m for each registered session but one.
LEMMA PassesSpread ==
  ASSUME NEW th \in Threads, NEW first, Moves(th, first), NEW m \in News, Passes(m),
         todo[th] # <<>>, todo[th] \in Seq(Ops), Head(todo[th]) = Source(m),
         \A i \in 1..Len(first) : \E r \in Sessions : first[i] = Tell(r, m) /\ uuid[r] = r,
         \A r \in Sessions : Once(first, Tell(r, m)),
         told' = told, uuid' = uuid
  PROVE  Passes(m)' /\ ~Said(Source(m))' /\ Abroad(m)
<1>1. /\ Carriers(first, m) /\ ~Mentions(first, Source(m)) /\ Carries(Head(todo[th]), m)
  BY Newses DEF Carriers, Mentions
<1>2. \A t \in Threads : (Carriers(todo[t], m) /\ Followed(todo[t], m, Keeper(m)))'
  BY <1>1 DEF Moves, Becomes, Passes
<1>3. Said(Source(m))
  BY DEF Said, Mentions
<1>4. Sole(Source(m))' /\ ~Said(Source(m))'
  BY <1>1, SoleKept, SoleDone DEF Passes
<1>5. \A r \in Sessions : ~Said(Tell(r, m)) /\ ~Knows(r, m)
  BY <1>3 DEF Passes
<1>6. ASSUME NEW r \in Sessions
      PROVE  Sole(Tell(r, m))' /\ (Said(Tell(r, m))' => uuid[r] = r)
  <2>1. Sole(Tell(r, m))'
    BY <1>5, SoleStarts
  <2>2. Mentions(first, Tell(r, m)) => uuid[r] = r
    BY Newses DEF Mentions
  <2>3. Said(Tell(r, m))' => Mentions(first, Tell(r, m))
    BY <1>5, SaidBefore
  <2> QED
    BY <2>1, <2>2, <2>3
<1>7. \A r \in Sessions : ~Knows(r, m)' /\ Once(told[r], m)'
  BY <1>5 DEF Knows, Passes
<1> QED
  BY <1>2, <1>3, <1>4, <1>6, <1>7 DEF Passes, Abroad

\* A message of m is posted to its session.
LEMMA PassesTold ==
  ASSUME Typed, NEW th \in Threads, NEW first, Moves(th, first), NEW m \in News, Passes(m),
         todo[th] # <<>>, todo[th] \in Seq(Ops),
         NEW r \in Sessions, Head(todo[th]) = Tell(r, m), Mute(first, m),
         told' = [told EXCEPT ![r] = Append(@, m)], uuid' = uuid
  PROVE  Passes(m)' /\ ~Knows(r, m) /\ (Abroad(m)' => Abroad(m)) /\ Abroad(m)
<1>1. /\ ~Mentions(first, Source(m)) /\ \A t \in Sessions : ~Mentions(first, Tell(t, m))
      /\ Carriers(first, m) /\ \A y : Followed(first, m, y)
  BY Muted
<1>2. \A t \in Threads : (Carriers(todo[t], m) /\ Followed(todo[t], m, Keeper(m)))'
  BY <1>1 DEF Moves, Becomes, Passes
<1>3. Said(Tell(r, m))
  BY DEF Said, Mentions
<1>4. ~Knows(r, m) /\ ~Said(Source(m)) /\ uuid[r] = r
  BY <1>3 DEF Passes
<1>5. Sole(Source(m))' /\ \A t \in Sessions : Sole(Tell(t, m))'
  BY <1>1, SoleKept DEF Passes
<1>6. /\ ~Said(Source(m))'
      /\ \A t \in Sessions : Said(Tell(t, m))' => Said(Tell(t, m))
  BY <1>1, <1>4, SaidBefore
<1>7. ~Said(Tell(r, m))'
  BY <1>1, SoleDone DEF Passes
<1>8. /\ Once(told'[r], m)
      /\ \A t \in Sessions : t # r => told'[t] = told[t]
  <2>1. /\ told[r] \in Seq(Notices) /\ m \in Notices /\ told'[r] = Append(told[r], m)
        /\ \A t \in Sessions : t # r => told'[t] = told[t]
    BY Newses DEF Typed
  <2> QED
    BY <1>4, <2>1, OneMoreTold DEF Knows, Passes
<1>9. ASSUME NEW t \in Sessions, t # r
      PROVE  Once(told'[t], m) /\ (Knows(t, m)' <=> Knows(t, m))
  BY <1>8, <1>9 DEF Knows, Passes
<1>10. ASSUME NEW t \in Sessions
       PROVE  /\ Once(told[t], m)'
              /\ Said(Tell(t, m))' => ~Knows(t, m)'
              /\ Said(Tell(t, m))' \/ Knows(t, m)' => uuid'[t] = t
  <2>1. CASE t = r
    BY <1>4, <1>7, <1>8, <2>1
  <2>2. CASE t # r
    BY <1>6, <1>9, <2>2 DEF Passes
  <2> QED
    BY <2>1, <2>2
<1> QED
  BY <1>2, <1>3, <1>4, <1>5, <1>6, <1>10 DEF Passes, Abroad

HeadIs(th, x) == todo[th] # <<>> /\ Head(todo[th]) = x

\* What a step of thread th does to the sessions.
Lives(th) ==
  \A s \in Sessions :
    /\ uuid[s] = s \/ HeadIs(th, Do("insert", s)) => uuid'[s] = s
    /\ phase[s] = "none" => phase'[s] \in {"none", "live"}
    /\ phase[s] = "live" => phase'[s] = "live" \/ HeadIs(th, Do("freed", s))
    /\ phase[s] = "gone" \/ HeadIs(th, Do("freed", s)) => phase'[s] = "gone"
    /\ phase[s] # "none" /\ pending[s]["accept"] = 0 => pending'[s]["accept"] = 0
    /\ s \in registered' => s \in registered \/ uuid'[s] = s
    /\ Referenced(s)' => Referenced(s) \/ phase[s] = "none"

LEMMA RegisteredKept ==
  ASSUME IInv', Told, NEW th \in Threads, Lives(th)
  PROVE  \A r \in registered' : uuid'[r] = r
BY DEF IInv, Typed, Told, Lives

LEMMA JoinsKept ==
  ASSUME IInv, NEW th \in Threads, NEW first, Moves(th, first), Lives(th),
         NEW s \in Sessions, Joins(s), ~Mentions(first, Source(Join(s))),
         Abroad(Join(s))' => Abroad(Join(s)),
         \A r \in Sessions : Said(Tell(r, Join(s)))' \/ Knows(r, Join(s))' => uuid'[s] = s
  PROVE  Joins(s)'
<1>1. Abroad(Join(s))' => phase'[s] # "none" /\ pending'[s]["accept"] = 0
  BY DEF Joins, Lives, IInv, Typed
<1>2. uuid'[s] = s \/ \A t \in Threads : Preceded(todo'[t], Source(Join(s)), Do("insert", s))
  <2>1. CASE uuid'[s] = s
    BY <2>1
  <2>2. CASE uuid'[s] # s
    <3>1. /\ uuid[s] # s /\ (todo[th] = <<>> \/ Head(todo[th]) # Do("insert", s))
      BY <2>2 DEF Lives, HeadIs
    <3>2. Preceded(first, Source(Join(s)), Do("insert", s))
      BY DEF Preceded, Mentions
    <3> QED
      BY <3>1, <3>2 DEF Joins, Moves, Becomes
  <2> QED
    BY <2>1, <2>2
<1>3. Join(s)' = Join(s)
  BY DEF Join
<1> QED
  BY <1>1, <1>2, <1>3 DEF Joins

LEMMA PartsKept ==
  ASSUME IInv, NEW th \in Threads, NEW first, Moves(th, first), Lives(th),
         NEW s \in Sessions, Parts(s), ~Mentions(first, Do("freed", s)),
         Abroad(Left(s))' => Abroad(Left(s))
  PROVE  Parts(s)' /\ (~Said(Do("freed", s)) => ~Said(Do("freed", s))')
<1>1. Sole(Do("freed", s))'
  BY SoleKept DEF Parts
<1>2. Said(Do("freed", s))' => Said(Do("freed", s))
  BY SaidBefore
<1>3. Abroad(Left(s))' => Said(Do("freed", s))' \/ phase'[s] = "gone"
  <2>1. CASE HeadIs(th, Do("freed", s))
    BY <2>1 DEF Lives
  <2>2. CASE ~HeadIs(th, Do("freed", s))
    <3>1. Said(Do("freed", s)) => Said(Do("freed", s))'
      BY <2>2, SaidKept DEF HeadIs
    <3> QED
      BY <3>1 DEF Parts, Lives
  <2> QED
    BY <2>1, <2>2
<1>4. phase'[s] = "gone" => ~Said(Do("freed", s))'
  <2>1. CASE HeadIs(th, Do("freed", s))
    <3>1. todo[th] \in Seq(Ops)
      BY DEF IInv, Typed
    <3> QED
      BY <2>1, <3>1, SoleDone DEF HeadIs, Parts
  <2>2. CASE ~HeadIs(th, Do("freed", s))
    <3>1. phase'[s] = "gone" => phase[s] = "gone"
      BY <2>2 DEF Lives, IInv, Typed
    <3> QED
      BY <1>2, <3>1 DEF Parts
  <2> QED
    BY <2>1, <2>2
<1> QED
  BY <1>1, <1>2, <1>3, <1>4 DEF Parts, Left

\* A reader of the join was there before the step.
LEMMA ReaderKept ==
  ASSUME IInv, Told, NEW th \in Threads, Lives(th), NEW r \in Sessions, NEW m \in News,
         Knows(r, m), Referenced(r)'
  PROVE  Referenced(r)
<1>1. uuid[r] = r
  BY DEF Told, Passes
<1>2. phase[r] # "none"
  BY <1>1, RegistryAssumption DEF IInv
<1> QED
  BY <1>2 DEF Lives

LEMMA OwedKept ==
  ASSUME IInv, Told, NEW th \in Threads, NEW first, Moves(th, first), Lives(th),
         NEW r \in Sessions, NEW s \in Sessions,
         ~Mentions(first, Do("freed", s)),
         Knows(r, Join(s))' => Knows(r, Join(s)),
         Knows(r, Left(s)) => Knows(r, Left(s))',
         ~HeadIs(th, Source(Left(s))), ~HeadIs(th, Tell(r, Left(s)))
  PROVE  Owed(r, s)'
<1>0. Join(s)' = Join(s) /\ Left(s)' = Left(s) /\ Join(s) \in News
  BY JoinAndLeave DEF Join, Left
<1> SUFFICES ASSUME Referenced(r)', Knows(r, Join(s))'
             PROVE  \/ phase'[s] = "live" /\ ~Said(Do("freed", s))'
                    \/ Said(Source(Left(s)))' \/ Said(Tell(r, Left(s)))' \/ Knows(r, Left(s))'
  BY <1>0 DEF Owed
<1>1. Referenced(r) /\ Knows(r, Join(s))
  BY <1>0, ReaderKept
<1>2. CASE phase[s] = "live" /\ ~Said(Do("freed", s))
  <2>1. ~HeadIs(th, Do("freed", s))
    <3>1. todo[th] \in Seq(Ops)
      BY DEF IInv, Typed
    <3>2. HeadIs(th, Do("freed", s)) => Mentions(todo[th], Do("freed", s))
      BY <3>1, MentionsJoined DEF HeadIs
    <3> QED
      BY <1>2, <3>2 DEF Said
  <2>2. ~Said(Do("freed", s))'
    BY <1>2, SaidBefore
  <2> QED
    BY <1>2, <2>1, <2>2 DEF Lives
<1>3. CASE Said(Source(Left(s)))
  BY <1>3, SaidKept DEF HeadIs
<1>4. CASE Said(Tell(r, Left(s)))
  BY <1>4, SaidKept DEF HeadIs
<1> QED
  BY <1>1, <1>2, <1>3, <1>4 DEF Told, Owed

\* What is told in a step is not news.
Overheard ==
  \A r \in Sessions :
    told'[r] = told[r] \/ \E n \in Notices : n \notin News /\ told'[r] = Append(told[r], n)

LEMMA OrderKept ==
  ASSUME IInv, Told, Overheard
  PROVE  /\ \A m \in News, r \in Sessions : Once(told'[r], m) /\ (Knows(r, m)' <=> Knows(r, m))
         /\ \A r, s \in Sessions : InOrder(r, s)' /\ (Knows(r, Join(s))' <=> Knows(r, Join(s)))
                                   /\ (Knows(r, Left(s))' <=> Knows(r, Left(s)))
<1>0. told \in [Sessions -> Seq(Notices)]
  BY DEF IInv, Typed
<1>1. ASSUME NEW m \in News, NEW r \in Sessions
      PROVE  Once(told'[r], m) /\ (Knows(r, m)' <=> Knows(r, m))
  <2>1. Once(told[r], m)
    BY DEF Told, Passes
  <2>2. CASE told'[r] = told[r]
    BY <2>1, <2>2 DEF Knows
  <2>3. ASSUME NEW n \in Notices, n \notin News, told'[r] = Append(told[r], n)
        PROVE  Once(told'[r], m) /\ (Knows(r, m)' <=> Knows(r, m))
    <3>1. /\ Mentions(Append(told[r], n), m) <=> Mentions(told[r], m)
          /\ Once(Append(told[r], n), m)
      BY <1>0, <2>1, <2>3, OneMoreTold
    <3> QED
      BY <2>3, <3>1 DEF Knows
  <2> QED
    BY <2>2, <2>3 DEF Overheard
<1>2. ASSUME NEW r \in Sessions, NEW s \in Sessions
      PROVE  InOrder(r, s)' /\ (Knows(r, Join(s))' <=> Knows(r, Join(s)))
             /\ (Knows(r, Left(s))' <=> Knows(r, Left(s)))
  <2>0. /\ Join(s)' = Join(s) /\ Left(s)' = Left(s) /\ Join(s) \in News /\ Left(s) \in News
    BY JoinAndLeave DEF Join, Left
  <2>1. InOrder(r, s)
    BY DEF Told
  <2>2. ASSUME told'[r] = told[r] PROVE InOrder(r, s)'
    BY <2>0, <2>1, <2>2 DEF InOrder
  <2>3. ASSUME NEW n \in Notices, n \notin News, told'[r] = Append(told[r], n)
        PROVE  InOrder(r, s)'
    <3>1. /\ Len(told'[r]) = Len(told[r]) + 1 /\ told'[r][Len(told[r]) + 1] = n
          /\ \A k \in 1..Len(told[r]) : told'[r][k] = told[r][k]
          /\ Len(told[r]) \in Nat
      BY <1>0, <2>3
    <3>2. \A k \in 1..Len(told'[r]) : told'[r][k] = Join(s) \/ told'[r][k] = Left(s)
                                       => k \in 1..Len(told[r])
      BY <2>0, <2>3, <3>1
    <3> QED
      BY <2>0, <2>1, <3>1, <3>2 DEF InOrder
  <2>4. InOrder(r, s)'
    BY <2>2, <2>3 DEF Overheard
  <2> QED
    BY <1>1, <2>0, <2>4
<1> QED
  BY <1>1, <1>2

\* A step that tells nobody anything, and announces nothing.
LEMMA QuietTold ==
  ASSUME IInv, IInv', Told, NEW th \in Threads, NEW first, Moves(th, first), Lives(th),
         \A m \in News : Mute(first, m) /\ ~(todo[th] # <<>> /\ Carries(Head(todo[th]), m)),
         \A s \in Sessions : ~Mentions(first, Do("freed", s)),
         Overheard
  PROVE  Told'
<1>1. \A r \in registered' : uuid'[r] = r
  BY RegisteredKept
<1>2. ASSUME NEW m \in News PROVE Passes(m)' /\ (Abroad(m)' => Abroad(m))
  <2>1. \A r \in Sessions : Once(told'[r], m) /\ (Knows(r, m)' => Knows(r, m))
    BY OrderKept
  <2>2. \A r \in Sessions : uuid[r] = r => uuid'[r] = r
    BY DEF Lives
  <2> QED
    BY <2>1, <2>2, PassesKept DEF Told
<1>3. \A r, s \in Sessions : InOrder(r, s)' /\ (Knows(r, Join(s))' <=> Knows(r, Join(s)))
                             /\ (Knows(r, Left(s))' <=> Knows(r, Left(s)))
  BY OrderKept
<1>4. ASSUME NEW s \in Sessions PROVE Joins(s)' /\ Parts(s)'
  <2>1. Join(s) \in News /\ Left(s) \in News
    BY JoinAndLeave
  <2>2. ~Mentions(first, Source(Join(s))) /\ \A r \in Sessions : ~Mentions(first, Tell(r, Join(s)))
    BY <2>1, Muted
  <2>3. Joins(s)'
    <3>1. \A r \in Sessions : Said(Tell(r, Join(s)))' \/ Knows(r, Join(s))' => uuid'[s] = s
      BY <1>3, <2>2, SaidBefore DEF Told, Joins, Lives
    <3> QED
      BY <1>2, <2>1, <2>2, <3>1, JoinsKept DEF Told
  <2> QED
    BY <1>2, <2>1, <2>3, PartsKept DEF Told
<1>5. ASSUME NEW r \in Sessions, NEW s \in Sessions PROVE Owed(r, s)'
  <2>1. ~HeadIs(th, Source(Left(s))) /\ ~HeadIs(th, Tell(r, Left(s)))
    BY JoinAndLeave, Newses DEF HeadIs
  <2> QED
    BY <1>3, <2>1, OwedKept
<1> QED
  BY <1>1, <1>2, <1>3, <1>4, <1>5 DEF Told

\* A step of thread th that concerns no notice but n.
LEMMA OthersTold ==
  ASSUME IInv, Told, NEW th \in Threads, NEW first, Moves(th, first), Lives(th),
         NEW n \in News,
         \A m \in News : m # n =>
           /\ Mute(first, m)
           /\ \A r \in Sessions : Once(told'[r], m) /\ (Knows(r, m)' <=> Knows(r, m))
  PROVE  /\ \A m \in News : m # n => Passes(m)' /\ (Abroad(m)' => Abroad(m))
         /\ \A s \in Sessions : Join(s) # n => Joins(s)'
<1>1. \A r \in Sessions : uuid[r] = r => uuid'[r] = r
  BY DEF Lives
<1>2. \A m \in News : m # n => Passes(m)' /\ (Abroad(m)' => Abroad(m))
  BY <1>1, PassesKept DEF Told
<1>3. ASSUME NEW s \in Sessions, Join(s) # n PROVE Joins(s)'
  <2>1. Join(s) \in News
    BY JoinAndLeave
  <2>2. ~Mentions(first, Source(Join(s))) /\ \A r \in Sessions : ~Mentions(first, Tell(r, Join(s)))
    BY <1>3, <2>1, Muted
  <2>3. \A r \in Sessions : Said(Tell(r, Join(s)))' \/ Knows(r, Join(s))' => uuid'[s] = s
    BY <1>3, <2>1, <2>2, SaidBefore DEF Told, Joins, Lives
  <2> QED
    BY <1>2, <1>3, <2>1, <2>2, <2>3, JoinsKept DEF Told
<1> QED
  BY <1>2, <1>3

\* on_accept(): the session will announce its join.
LEMMA HelloTold ==
  ASSUME IInv, IInv', Told, NEW th \in Threads, NEW first, Moves(th, first), Lives(th),
         todo[th] = <<>>, NEW s \in Sessions,
         pending[s]["accept"] # 0, pending'[s]["accept"] = 0, phase[s] = "live",
         \A m \in News : m # Join(s) => Mute(first, m),
         \A i \in 1..Len(first) : Carries(first[i], Join(s)) => first[i] = Source(Join(s)),
         Once(first, Source(Join(s))), Followed(first, Join(s), Do("end", s)),
         Preceded(first, Source(Join(s)), Do("insert", s)),
         \A r \in Sessions : ~Mentions(first, Do("freed", r)),
         told' = told
  PROVE  Told'
<1> DEFINE n == Join(s)
<1>0. n \in News /\ Keeper(n) = Do("end", s) /\ \A r \in Sessions : Left(r) # n /\ Left(r) \in News
      /\ ~HeadIs(th, Source(Left(r))) /\ \A t \in Sessions : ~HeadIs(th, Tell(t, Left(r)))
  BY JoinAndLeave DEF HeadIs
<1>1. \A r \in registered' : uuid'[r] = r
  BY RegisteredKept
<1>2. ~Abroad(n)
  BY DEF Told, Joins
<1>3. Passes(n)'
  BY <1>0, <1>2, PassesStarts DEF Told
<1>4. \A r, t \in Sessions : InOrder(r, t)' /\ (Knows(r, Join(t))' <=> Knows(r, Join(t)))
                             /\ (Knows(r, Left(t))' <=> Knows(r, Left(t)))
  BY OrderKept DEF Overheard
<1>5. /\ \A m \in News : m # n => Passes(m)' /\ (Abroad(m)' => Abroad(m))
      /\ \A t \in Sessions : Join(t) # n => Joins(t)'
  <2>1. \A m \in News, r \in Sessions : Once(told'[r], m) /\ (Knows(r, m)' <=> Knows(r, m))
    BY DEF Knows, Told, Passes
  <2> QED
    BY <1>0, <2>1, OthersTold
<1>6. Joins(s)'
  <2>1. phase'[s] # "none" /\ pending'[s]["accept"] = 0
    BY DEF Lives, HeadIs
  <2>2. uuid'[s] = s \/ \A t \in Threads : Preceded(todo'[t], Source(n), Do("insert", s))
    <3>1. CASE uuid[s] = s
      BY <3>1 DEF Lives
    <3>2. CASE uuid[s] # s
      BY <3>2 DEF Told, Joins, Moves, Becomes
    <3> QED
      BY <3>1, <3>2
  <2>3. \A r \in Sessions : ~Said(Tell(r, n))' /\ ~Knows(r, n)'
    <3>1. \A r \in Sessions : ~Mentions(first, Tell(r, n))
      BY <1>0, Newses DEF Mentions
    <3> QED
      BY <1>2, <1>4, <3>1, SaidBefore DEF Abroad
  <2>4. Join(s)' = Join(s)
    BY DEF Join
  <2> QED
    BY <2>1, <2>2, <2>3, <2>4 DEF Joins
<1>7. \A t \in Sessions : Parts(t)'
  BY <1>0, <1>5, PartsKept DEF Told
<1>8. \A r, t \in Sessions : Owed(r, t)'
  BY <1>0, <1>4, OwedKept
<1>9. \A t \in Sessions : Joins(t)'
  BY <1>5, <1>6, JoinAndLeave
<1> QED
  BY <1>1, <1>3, <1>4, <1>5, <1>7, <1>8, <1>9 DEF Told

\* The destructor of s starts: it will announce that s has left.
LEMMA GoodbyeTold ==
  ASSUME IInv, IInv', Told, NEW th \in Threads, NEW first, Moves(th, first), Lives(th),
         \A m \in News : ~(todo[th] # <<>> /\ Carries(Head(todo[th]), m)),
         NEW s \in Sessions, Referenced(s), phase'[s] = "live",
         \A m \in News : m # Left(s) => Mute(first, m),
         \A i \in 1..Len(first) : Carries(first[i], Left(s)) => first[i] = Source(Left(s)),
         uuid[s] = s => Mentions(first, Source(Left(s))),
         Once(first, Source(Left(s))), Followed(first, Left(s), Do("freed", s)),
         Mentions(first, Do("freed", s)), Once(first, Do("freed", s)),
         \A r \in Sessions : r # s => ~Mentions(first, Do("freed", r)),
         told' = told
  PROVE  Told'
<1> DEFINE n == Left(s)
<1>0. n \in News /\ Keeper(n) = Do("freed", s) /\ \A r \in Sessions : Join(r) # n
      /\ Left(r) \in News /\ (Left(r) = n => r = s)
      /\ ~HeadIs(th, Source(Left(r))) /\ \A t \in Sessions : ~HeadIs(th, Tell(t, Left(r)))
  BY JoinAndLeave, Newses DEF HeadIs
<1>1. \A r \in registered' : uuid'[r] = r
  BY RegisteredKept
<1>2. ~Said(Do("freed", s)) /\ ~Abroad(n)
  <2>1. ~Said(Do("freed", s)) /\ phase[s] = "live"
    BY DEF IInv, Dying, Said
  <2> QED
    BY <2>1 DEF Told, Parts
<1>3. Passes(n)'
  BY <1>0, <1>2, PassesStarts DEF Told
<1>4. \A r, t \in Sessions : InOrder(r, t)' /\ (Knows(r, Join(t))' <=> Knows(r, Join(t)))
                             /\ (Knows(r, Left(t))' <=> Knows(r, Left(t)))
  BY OrderKept DEF Overheard
<1>5. /\ \A m \in News : m # n => Passes(m)' /\ (Abroad(m)' => Abroad(m))
      /\ \A t \in Sessions : Joins(t)'
  <2>1. \A m \in News, r \in Sessions : Once(told'[r], m) /\ (Knows(r, m)' <=> Knows(r, m))
    BY DEF Knows, Told, Passes
  <2> QED
    BY <1>0, <2>1, OthersTold
<1>6. Parts(s)'
  <2>1. Sole(Do("freed", s))'
    BY <1>2, SoleStarts
  <2>2. Said(Do("freed", s))'
    BY DEF Moves, Becomes, Said
  <2> QED
    BY <2>1, <2>2 DEF Parts, Left
<1>7. \A t \in Sessions : Parts(t)'
  <2>1. ASSUME NEW t \in Sessions, t # s PROVE Parts(t)'
    BY <1>0, <1>5, <2>1, PartsKept DEF Told
  <2> QED
    BY <1>6, <2>1
<1>8. ASSUME NEW r \in Sessions, NEW t \in Sessions PROVE Owed(r, t)'
  <2>1. CASE t # s
    BY <1>0, <1>4, <2>1, OwedKept
  <2>2. CASE t = s
    <3>1. ASSUME Knows(r, Join(s))' PROVE Said(Source(Left(s)))'
      <4>1. uuid[s] = s
        BY <1>4, <3>1 DEF Told, Joins
      <4> QED
        BY <4>1 DEF Moves, Becomes, Said
    <3>2. Source(Left(s))' = Source(Left(s)) /\ Join(s)' = Join(s) /\ Left(s)' = Left(s)
      BY DEF Source, Left, Join, Say
    <3> QED
      BY <2>2, <3>1, <3>2 DEF Owed
  <2> QED
    BY <2>1, <2>2
<1> QED
  BY <1>1, <1>3, <1>4, <1>5, <1>7, <1>8 DEF Told

\* A session that can be referred to, and has set its uuid, is in sessions_.
LEMMA ReachableNow ==
  ASSUME IInv, NEW r \in Sessions, Referenced(r), uuid[r] = r
  PROVE  r \in registered
BY RegistryAssumption DEF IInv, Dying

\* send<T>() of a notice n: a message for each registered session but one.
LEMMA SpreadTold ==
  ASSUME IInv, IInv', Told, NEW th \in Threads, NEW first, Moves(th, first), Lives(th),
         NEW n \in News, todo[th] # <<>>, Head(todo[th]) = Source(n),
         \A i \in 1..Len(first) : \E r \in registered : first[i] = Tell(r, n),
         \A r \in Sessions : Once(first, Tell(r, n)),
         n.kind = "leave" => \A r \in registered : Mentions(first, Tell(r, n)),
         told' = told, uuid' = uuid
  PROVE  Told'
<1>0. /\ registered \subseteq Sessions /\ todo[th] \in Seq(Ops)
      /\ \A r \in registered : uuid[r] = r
  BY DEF IInv, Typed, Told
<1>1. \A r \in registered' : uuid'[r] = r
  BY RegisteredKept
<1>2. Passes(n)' /\ ~Said(Source(n))' /\ Abroad(n)
  <2>1. \A i \in 1..Len(first) : \E r \in Sessions : first[i] = Tell(r, n) /\ uuid[r] = r
    BY <1>0
  <2> QED
    BY <1>0, <2>1, PassesSpread DEF Told
<1>3. \A m \in News : m # n => Mute(first, m)
  BY <1>0, Newses DEF Mute, Carries
<1>4. \A r, t \in Sessions : InOrder(r, t)' /\ (Knows(r, Join(t))' <=> Knows(r, Join(t)))
                             /\ (Knows(r, Left(t))' <=> Knows(r, Left(t)))
  BY OrderKept DEF Overheard
<1>5. /\ \A m \in News : Passes(m)' /\ (Abroad(m)' => Abroad(m))
      /\ \A t \in Sessions : Join(t) # n => Joins(t)'
  <2>1. \A m \in News, r \in Sessions : Once(told'[r], m) /\ (Knows(r, m)' <=> Knows(r, m))
    BY DEF Knows, Told, Passes
  <2> QED
    BY <1>2, <1>3, <2>1, OthersTold
<1>6. ASSUME NEW t \in Sessions, Join(t) = n PROVE Joins(t)'
  <2>1. uuid[t] = t
    <3>1. 1 \in 1..Len(todo[th]) /\ todo[th][1] = Source(Join(t))
      BY <1>0, <1>6
    <3>2. ~Preceded(todo[th], Source(Join(t)), Do("insert", t))
      BY <3>1 DEF Preceded
    <3> QED
      BY <3>2 DEF Told, Joins
  <2>2. ~Mentions(first, Source(Join(t)))
    BY <1>0, <1>6, Newses DEF Mentions
  <2> QED
    BY <1>5, <1>6, <2>1, <2>2, JoinsKept DEF Told
<1>7. \A t \in Sessions : ~Mentions(first, Do("freed", t))
  BY <1>0, Newses DEF Mentions
<1>8. \A t \in Sessions : Parts(t)'
  BY <1>5, <1>7, JoinAndLeave, PartsKept DEF Told
<1>9. ASSUME NEW r \in Sessions, NEW t \in Sessions PROVE Owed(r, t)'
  <2>0. \A x \in Sessions : Left(t) \in News /\ ~HeadIs(th, Tell(x, Left(t)))
    BY JoinAndLeave, Newses DEF HeadIs
  <2>1. CASE Left(t) # n
    <3>1. ~HeadIs(th, Source(Left(t)))
      BY <2>0, <2>1, Newses DEF HeadIs, Carries
    <3> QED
      BY <1>4, <1>7, <2>0, <3>1, OwedKept
  <2>2. CASE Left(t) = n
    <3>0. /\ Join(t)' = Join(t) /\ Left(t)' = Left(t) /\ n.kind = "leave" /\ Join(t) \in News
      BY <2>2, JoinAndLeave DEF Join, Left
    <3>1. ASSUME Referenced(r)', Knows(r, Join(t))' PROVE Said(Tell(r, Left(t)))'
      <4>1. Referenced(r) /\ Knows(r, Join(t))
        BY <1>4, <3>0, <3>1, ReaderKept
      <4>2. uuid[r] = r
        BY <3>0, <4>1 DEF Told, Passes
      <4>3. Mentions(first, Tell(r, Left(t)))
        BY <2>2, <3>0, <4>1, <4>2, ReachableNow
      <4> QED
        BY <4>3 DEF Moves, Becomes, Said
    <3>2. Tell(r, Left(t))' = Tell(r, Left(t))
      BY DEF Tell, Left, Say
    <3> QED
      BY <3>0, <3>1, <3>2 DEF Owed
  <2> QED
    BY <2>1, <2>2
<1>10. \A t \in Sessions : Joins(t)'
  BY <1>5, <1>6
<1> QED
  BY <1>1, <1>4, <1>5, <1>8, <1>9, <1>10 DEF Told

\* Whoever carries a join keeps its session, whose leave nobody has announced.
LEMMA JoinFirst ==
  ASSUME IInv, Told, NEW th \in Threads, NEW s \in Sessions, todo[th] # <<>>,
         Carries(Head(todo[th]), Join(s))
  PROVE  Referenced(s) /\ phase[s] = "live" /\ ~Said(Do("freed", s)) /\ ~Abroad(Left(s))
<1>0. /\ Join(s) \in News /\ Keeper(Join(s)) = Do("end", s)
      /\ todo[th] \in Seq(Ops) /\ Len(todo[th]) \in Nat \ {0} /\ Head(todo[th]) = todo[th][1]
  BY JoinAndLeave DEF IInv, Typed
<1>1. Followed(todo[th], Join(s), Do("end", s))
  BY <1>0 DEF Told, Passes
<1>2. PICK j \in (1 + 1)..Len(todo[th]) : todo[th][j] = Do("end", s)
  BY <1>0, <1>1 DEF Followed
<1>3. Mentions(todo[th], Do("end", s))
  BY <1>0, <1>2 DEF Mentions
<1>4. Referenced(s) /\ phase[s] = "live"
  BY <1>3, HeldMentions DEF Referenced, IInv
<1>5. ~Said(Do("freed", s))
  BY <1>4 DEF IInv, Dying, Said
<1> QED
  BY <1>4, <1>5 DEF Told, Parts

LEMMA HeadSaid ==
  ASSUME NEW th \in Threads, todo[th] # <<>>, todo[th] \in Seq(Ops)
  PROVE  Said(Head(todo[th]))
BY DEF Said, Mentions

\* send<T>() of a notice n to the weak pointer of session x.
LEMMA PostedTold ==
  ASSUME IInv, IInv', Told, NEW th \in Threads, NEW first, Moves(th, first), Lives(th),
         NEW n \in News, NEW x \in Sessions, todo[th] # <<>>, Head(todo[th]) = Tell(x, n),
         \A m \in News : Mute(first, m),
         \A s \in Sessions : ~Mentions(first, Do("freed", s)),
         uuid' = uuid,
         IF Referenced(x) THEN told' = [told EXCEPT ![x] = Append(@, n)] ELSE told' = told
  PROVE  Told'
<1>0. /\ todo[th] \in Seq(Ops) /\ told \in [Sessions -> Seq(Notices)] /\ n \in Notices
      /\ Carries(Head(todo[th]), n)
  BY Newses DEF IInv, Typed
<1>a. Said(Tell(x, n))
  BY <1>0, HeadSaid
<1>b. \A r \in Sessions : told'[r] = told[r] \/ told'[r] = Append(told[r], n)
  BY <1>0
<1>1. \A r \in registered' : uuid'[r] = r
  BY RegisteredKept
<1>2. ASSUME NEW m \in News, m # n, NEW r \in Sessions
      PROVE  Once(told'[r], m) /\ (Knows(r, m)' <=> Knows(r, m))
  <2>1. CASE told'[r] = told[r]
    BY <2>1 DEF Knows, Told, Passes
  <2>2. CASE told'[r] = Append(told[r], n)
    BY <1>0, <1>2, <2>2, OneMoreTold DEF Knows, Told, Passes
  <2> QED
    BY <1>0, <2>1, <2>2
<1>3. Passes(n)' /\ (Abroad(n)' => Abroad(n)) /\ Abroad(n)
  <2>1. CASE Referenced(x)
    BY <1>0, <2>1, PassesTold DEF Told, IInv
  <2>2. CASE ~Referenced(x)
    <3>1. \A r \in Sessions : Once(told'[r], n) /\ (Knows(r, n)' => Knows(r, n))
      BY <2>2 DEF Knows, Told, Passes
    <3> QED
      BY <1>a, <3>1, PassesKept DEF Told, Abroad
  <2> QED
    BY <2>1, <2>2
<1>4. /\ \A m \in News : Passes(m)' /\ (Abroad(m)' => Abroad(m))
      /\ \A t \in Sessions : Join(t) # n => Joins(t)'
  BY <1>2, <1>3, OthersTold
<1>5. ASSUME NEW t \in Sessions, Join(t) = n PROVE Joins(t)'
  <2>1. uuid[t] = t
    <3>1. Joins(t)
      BY DEF Told
    <3> QED
      BY <1>a, <1>5, <3>1 DEF Joins
  <2>2. ~Mentions(first, Source(Join(t)))
    BY <1>5, Muted
  <2> QED
    BY <1>4, <1>5, <2>1, <2>2, JoinsKept DEF Told
<1>6. \A t \in Sessions : Joins(t)' /\ Parts(t)'
  <2>1. \A t \in Sessions : Parts(t)'
    BY <1>4, JoinAndLeave, PartsKept DEF Told
  <2> QED
    BY <1>4, <1>5, <2>1
<1>7. ASSUME NEW r \in Sessions, NEW t \in Sessions PROVE InOrder(r, t)'
  <2>0. Join(t)' = Join(t) /\ Left(t)' = Left(t) /\ Join(t) # Left(t)
    BY JoinAndLeave DEF Join, Left
  <2>1. CASE told'[r] = told[r]
    BY <2>0, <2>1 DEF InOrder, Told
  <2>2. CASE told'[r] = Append(told[r], n) /\ Left(t) # n /\ Join(t) # n
    BY <1>0, <2>0, <2>2 DEF InOrder, Told
  <2>3. CASE told'[r] = Append(told[r], n) /\ Left(t) = n
    <3>1. ASSUME NEW i \in 1..Len(told'[r]), NEW j \in 1..Len(told'[r]),
                 told'[r][i] = Join(t), told'[r][j] = Left(t)
          PROVE  i < j
      <4>1. /\ Len(told'[r]) = Len(told[r]) + 1 /\ told'[r][Len(told[r]) + 1] = Left(t)
            /\ \A k \in 1..Len(told[r]) : told'[r][k] = told[r][k]
            /\ Len(told[r]) \in Nat
        BY <1>0, <2>3
      <4>2. i \in 1..Len(told[r]) /\ told[r][i] = Join(t)
        BY <2>0, <3>1, <4>1
      <4>3. CASE j = Len(told[r]) + 1
        BY <4>2, <4>3
      <4>4. CASE j \in 1..Len(told[r])
        BY <3>1, <4>1, <4>2, <4>4 DEF InOrder, Told
      <4> QED
        BY <4>1, <4>3, <4>4
    <3> QED
      BY <2>0, <3>1 DEF InOrder
  <2>4. CASE told'[r] = Append(told[r], n) /\ Join(t) = n
    <3>1. ~Knows(r, Left(t))
      BY <1>0, <2>4, JoinFirst DEF Abroad
    <3>2. ~Mentions(told'[r], Left(t))
      BY <1>0, <2>0, <2>4, <3>1, OneMoreTold DEF Knows
    <3> QED
      BY <2>0, <3>2 DEF InOrder, Mentions
  <2> QED
    BY <1>0, <2>1, <2>2, <2>3, <2>4
<1>8. ASSUME NEW r \in Sessions, NEW t \in Sessions PROVE Owed(r, t)'
  <2>a. /\ Join(t) \in News /\ Left(t) \in News /\ Join(t)' = Join(t) /\ Left(t)' = Left(t)
    BY JoinAndLeave DEF Join, Left
  <2>b. Tell(r, Left(t)) = Tell(x, n) => x = r /\ n = Left(t)
    BY DEF Tell, Say
  <2>c. Source(Left(t)) # Tell(x, n)
    BY <2>a, Newses
  <2>0. /\ Join(t) \in News /\ Left(t) \in News /\ Join(t)' = Join(t) /\ Left(t)' = Left(t)
        /\ Tell(r, Left(t)) = Tell(x, n) => x = r /\ n = Left(t)
        /\ Source(Left(t)) # Tell(x, n)
    BY <2>a, <2>b, <2>c
  <2>1. ~HeadIs(th, Source(Left(t)))
    BY <2>0 DEF HeadIs
  <2>2. Knows(r, Left(t)) => Knows(r, Left(t))'
    <3>1. CASE told'[r] = told[r]
      BY <2>0, <3>1 DEF Knows
    <3>2. CASE told'[r] = Append(told[r], n)
      BY <1>0, <2>0, <3>2, OneMoreTold DEF Knows
    <3> QED
      BY <1>b, <3>1, <3>2
  <2>3. CASE x # r \/ Left(t) # n
    <3>1. ~HeadIs(th, Tell(r, Left(t)))
      BY <2>0, <2>3 DEF HeadIs
    <3>2. CASE Knows(r, Join(t))' => Knows(r, Join(t))
      BY <2>1, <2>2, <3>1, <3>2, OwedKept
    <3>3. CASE Join(t) = n
      <4>1. phase[t] = "live" /\ ~Said(Do("freed", t))
        BY <1>0, <3>3, JoinFirst
      <4>2. ~HeadIs(th, Do("freed", t)) /\ ~Said(Do("freed", t))'
        BY <2>0, <4>1, Newses, SaidBefore DEF HeadIs
      <4>3. phase'[t] = "live"
        BY <4>1, <4>2 DEF Lives
      <4> QED
        BY <4>2, <4>3 DEF Owed
    <3> QED
      BY <1>2, <2>0, <3>2, <3>3
  <2>4. CASE x = r /\ Left(t) = n
    <3> SUFFICES ASSUME Referenced(r)', Knows(r, Join(t))' PROVE Knows(r, Left(t))'
      BY <2>0 DEF Owed
    <3>1. Referenced(r)
      <4>1. Join(t) # n
        BY <2>4, JoinAndLeave
      <4> QED
        BY <1>2, <2>0, <4>1, ReaderKept
    <3>2. told'[r] = Append(told[r], n)
      BY <1>0, <2>4, <3>1
    <3> QED
      BY <1>0, <2>0, <2>4, <3>2, OneMoreTold DEF Knows
  <2> QED
    BY <2>3, <2>4
<1> QED
  BY <1>1, <1>4, <1>6, <1>7, <1>8 DEF Told

-----------------------------------------------------------------------------
(* Every step, and what it tells.                                           *)

\* A program that carries no news.
Discreet(first) ==
  \A i \in 1..Len(first) : first[i].op \in {"notify", "post"} => first[i].m \notin News

LEMMA DiscreetMute ==
  ASSUME NEW first, Discreet(first), NEW m \in News
  PROVE  Mute(first, m)
BY DEF Discreet, Mute, Carries

LEMMA DiscreetPrograms ==
  /\ Discreet(<<>>)
  /\ \A op, s : op \notin {"notify", "post"} => Discreet(<<Do(op, s)>>)
  /\ Discreet(<<Say("notify", nil_uuid, Text)>>)
  /\ \A op, po, s : op \notin {"notify", "post"} /\ po \notin {"notify", "post"}
       => Discreet(<<Do(op, s), Do(po, s)>>)
<1>1. Discreet(<<>>)
  BY DEF Discreet
<1>2. ASSUME NEW op, NEW s, op \notin {"notify", "post"} PROVE Discreet(<<Do(op, s)>>)
  BY <1>2 DEF Discreet, Do
<1>3. Discreet(<<Say("notify", nil_uuid, Text)>>)
  <2>1. Text \notin News
    BY Newses
  <2>2. Say("notify", nil_uuid, Text).m = Text
    BY DEF Say
  <2> DEFINE p == <<Say("notify", nil_uuid, Text)>>
  <2>3. Len(p) = 1 /\ p[1].m \notin News
    BY <2>1, <2>2
  <2> HIDE DEF p
  <2>4. Discreet(p)
    BY <2>3 DEF Discreet
  <2> QED
    BY <2>4 DEF p
<1>4. ASSUME NEW op, NEW po, NEW s, op \notin {"notify", "post"}, po \notin {"notify", "post"}
      PROVE  Discreet(<<Do(op, s), Do(po, s)>>)
  <2> DEFINE p == <<Do(op, s), Do(po, s)>>
  <2>1. Len(p) = 2 /\ p[1].op = op /\ p[2].op = po
    BY DEF Do
  <2> HIDE DEF p
  <2>2. Discreet(p)
    BY <1>4, <2>1 DEF Discreet
  <2> QED
    BY <2>2 DEF p
<1> QED
  BY <1>1, <1>2, <1>3, <1>4

LEMMA DiscreetJoined ==
  ASSUME NEW p \in Seq(Ops), NEW q \in Seq(Ops), Discreet(p), Discreet(q)
  PROVE  Discreet(p \o q)
<1> DEFINE u == p \o q
<1>1. /\ Len(u) = Len(p) + Len(q) /\ Len(p) \in Nat /\ Len(q) \in Nat
      /\ \A i \in 1..Len(p) + Len(q) : u[i] = IF i <= Len(p) THEN p[i] ELSE q[i - Len(p)]
  BY ConcatProperties
<1> HIDE DEF u
<1>2. ASSUME NEW i \in 1..Len(u), u[i].op \in {"notify", "post"} PROVE u[i].m \notin News
  <2>1. CASE i <= Len(p)
    <3>1. i \in 1..Len(p) /\ u[i] = p[i]
      BY <1>1, <2>1
    <3> QED
      BY <1>2, <3>1 DEF Discreet
  <2>2. CASE ~(i <= Len(p))
    <3>1. i - Len(p) \in 1..Len(q) /\ u[i] = q[i - Len(p)]
      BY <1>1, <2>2
    <3> QED
      BY <1>2, <3>1 DEF Discreet
  <2> QED
    BY <2>1, <2>2
<1>3. Discreet(u)
  BY <1>2 DEF Discreet
<1> QED
  BY <1>3 DEF u

\* A step that neither sets an uuid, nor constructs or destroys a session.
LEMMA Lively ==
  ASSUME IInv, NEW th \in Threads,
         todo[th] = <<>> \/ Head(todo[th]).op \notin {"insert", "freed"},
         registered' \subseteq registered, UNCHANGED <<phase, uuid>>,
         \A s \in Sessions : pending[s]["accept"] = 0 => pending'[s]["accept"] = 0,
         \A s \in Sessions : Referenced(s)' => Referenced(s)
  PROVE  Lives(th)
<1>1. \A s \in Sessions : ~HeadIs(th, Do("insert", s)) /\ ~HeadIs(th, Do("freed", s))
  BY DEF HeadIs, Do
<1> QED
  BY <1>1 DEF Lives, IInv, Typed

\* A thread goes on, and tells nobody anything.
LEMMA QuietStep ==
  ASSUME IInv, IInv', Told, NEW th \in Threads, todo[th] # <<>>,
         Head(todo[th]).op \in {"notify", "post"} => Head(todo[th]).m \notin News,
         NEW first \in Seq(Ops), Discreet(first), Continue(th, first), Lives(th),
         \A s \in Sessions : ~Mentions(first, Do("freed", s)), Overheard
  PROVE  Told'
<1>1. Moves(th, first)
  BY ContinueMoves DEF IInv
<1>2. \A m \in News : Mute(first, m) /\ ~(todo[th] # <<>> /\ Carries(Head(todo[th]), m))
  BY DiscreetMute DEF Carries
<1> QED
  BY <1>1, <1>2, QuietTold

\* A handler starts, and tells nobody anything.
LEMMA QuietHandler ==
  ASSUME IInv, IInv', Told, NEW th \in Threads, todo[th] = <<>>,
         NEW first \in Seq(Ops), Discreet(first), Harmless(first), Run(th, first), Lives(th),
         told' = told
  PROVE  Told'
<1>1. Moves(th, first)
  BY RunMoves DEF IInv
<1>2. \A m \in News : Mute(first, m) /\ ~(todo[th] # <<>> /\ Carries(Head(todo[th]), m))
  BY DiscreetMute
<1>3. \A s \in Sessions : ~Mentions(first, Do("freed", s))
  BY DEF Harmless
<1>4. Overheard
  BY DEF Overheard
<1> QED
  BY <1>1, <1>2, <1>3, <1>4, QuietTold

\* The steps of a thread that change what a session is.
LEMMA ObjectTold ==
  ASSUME IInv, IInv', Told, NEW th \in Threads, NEW s \in Sessions,
         insert(th, s) \/ erase(th, s) \/ freed(th, s)
  PROVE  Told'
<1>1. <<>> \in Seq(Ops) /\ Harmless(<<>>) /\ (\A r \in Sessions : ~Holds(<<>>, r)) /\ Discreet(<<>>)
      /\ \A r \in Sessions : ~Mentions(<<>>, Do("freed", r))
  BY Empty, DiscreetPrograms DEF Harmless
<1>2. PICK op \in {"insert", "erase", "freed"} :
        /\ At(th, op, s) /\ Continue(th, <<>>) /\ UNCHANGED <<pending, posts, told>>
        /\ op = "insert" => insert(th, s)
        /\ op = "erase" => erase(th, s)
        /\ op = "freed" => freed(th, s)
  BY DEF insert, erase, freed
<1>3. /\ todo[th] # <<>> /\ Head(todo[th]) = Do(op, s) /\ Mentions(todo[th], Do(op, s))
      /\ Head(todo[th]).op = op
  BY <1>2, AtDo DEF IInv, At
<1>4. Becomes(th, <<>>)
  BY <1>1, <1>2, <1>3, ContinueBecomes DEF IInv
<1>5. \A r \in Sessions : Referenced(r)' => Referenced(r)
  BY <1>1, <1>2, <1>4, SameReferences
<1>6. Overheard
  BY <1>2 DEF Overheard
<1>7. Lives(th)
  <2>1. CASE op = "insert"
    <3>1. /\ uuid' = [uuid EXCEPT ![s] = s] /\ registered' = registered \cup {s}
          /\ phase' = phase
      BY <1>2, <2>1 DEF insert
    <3>2. \A r \in Sessions : (HeadIs(th, Do("insert", r)) => r = s) /\ ~HeadIs(th, Do("freed", r))
      BY <1>3, <2>1 DEF HeadIs, Do
    <3>3. \A r \in Sessions : uuid'[r] = IF r = s THEN s ELSE uuid[r]
      BY <3>1 DEF IInv, Typed
    <3> QED
      BY <1>2, <1>5, <3>1, <3>2, <3>3 DEF Lives, IInv, Typed
  <2>2. CASE op = "erase"
    <3>1. registered' \subseteq registered /\ UNCHANGED <<phase, uuid>>
      BY <1>2, <2>2 DEF erase, object
    <3> QED
      BY <1>2, <1>3, <1>5, <2>2, <3>1, Lively
  <2>3. CASE op = "freed"
    <3>1. phase' = [phase EXCEPT ![s] = "gone"] /\ UNCHANGED <<registered, uuid>>
      BY <1>2, <2>3 DEF freed
    <3>2. \A r \in Sessions : (HeadIs(th, Do("freed", r)) <=> r = s) /\ ~HeadIs(th, Do("insert", r))
      BY <1>3, <2>3 DEF HeadIs, Do
    <3>3. \A r \in Sessions : phase'[r] = IF r = s THEN "gone" ELSE phase[r]
      BY <3>1 DEF IInv, Typed
    <3>4. phase[s] # "none"
      BY <1>3, <2>3 DEF IInv, Dying
    <3> QED
      BY <1>2, <1>5, <3>1, <3>2, <3>3, <3>4 DEF Lives, IInv, Typed
  <2> QED
    BY <2>1, <2>2, <2>3
<1> QED
  BY <1>1, <1>2, <1>3, <1>6, <1>7, QuietStep

\* The steps of a thread that only count, or only answer.
LEMMA OwnTold ==
  ASSUME IInv, IInv', Told, NEW th \in Threads, NEW s \in Sessions,
         listen(th, s) \/ read(th, s) \/ authorize(th, s) \/ look_up(th, s) \/ raw(th, s)
  PROVE  Told'
<1>1. <<>> \in Seq(Ops) /\ (\A r \in Sessions : ~Holds(<<>>, r)) /\ Discreet(<<>>)
      /\ \A r \in Sessions : ~Mentions(<<>>, Do("freed", r))
  BY Empty, DiscreetPrograms DEF Harmless
<1>2. /\ todo[th] # <<>> /\ Head(todo[th]).op \in {"listen", "read", "authorize", "look_up", "raw"}
      /\ Continue(th, <<>>) /\ UNCHANGED <<registered, phase, uuid>>
  BY DEF listen, read, authorize, look_up, raw, At, object
<1>3. Becomes(th, <<>>)
  BY <1>1, <1>2, ContinueBecomes DEF IInv
<1>4. /\ pending \in [Sessions -> [Operations -> Nat]] /\ posts \in [Sessions -> Nat]
      /\ Operations = {"accept", "read", "wait", "close"}
  BY DEF IInv, Typed, Operations
<1>5. /\ \A r \in Sessions : pending[r]["accept"] = 0 => pending'[r]["accept"] = 0
      /\ \A r \in Sessions : Referenced(r)' => Referenced(r)
      /\ told' = told
  <2>1. CASE listen(th, s) \/ read(th, s)
    <3>1. Referenced(s)
      BY <2>1, Keeps DEF listen, read
    <3>2. posts' = posts /\ told' = told
      BY <2>1 DEF listen, read
    <3>3. PICK new : /\ pending' = [pending EXCEPT ![s] = new]
                     /\ new["accept"] = pending[s]["accept"]
      <4>1. CASE listen(th, s)
        <5> DEFINE armed == UseAuthorization /\ ~authorized_[s] /\ AllowDelayedAuthorization
                   new == [pending[s] EXCEPT !["read"] = @ + 1,
                                             !["wait"] = IF armed THEN @ + 1 ELSE @]
        <5>1. new["accept"] = pending[s]["accept"]
          BY <1>4
        <5>2. pending' = [pending EXCEPT ![s] = new]
          BY <1>4, <4>1 DEF listen
        <5> HIDE DEF new
        <5> QED
          BY <5>1, <5>2
      <4>2. CASE read(th, s)
        <5> DEFINE new == [pending[s] EXCEPT !["read"] = pending[s]["read"] + 1]
        <5>1. new["accept"] = pending[s]["accept"]
          BY <1>4
        <5>2. pending' = [pending EXCEPT ![s] = new]
          BY <4>2 DEF read, Expect
        <5> HIDE DEF new
        <5> QED
          BY <5>1, <5>2
      <4> QED
        BY <2>1, <4>1, <4>2
    <3>4. /\ \A r \in Sessions : r # s => pending'[r] = pending[r]
          /\ pending'[s]["accept"] = pending[s]["accept"]
      BY <1>4, <3>3
    <3>5. \A r \in Sessions : Referenced(r)' => Referenced(r)
      BY <1>1, <1>3, <3>1, <3>2, <3>4, NoNewReference
    <3> QED
      BY <3>2, <3>4, <3>5
  <2>2. CASE authorize(th, s) \/ look_up(th, s)
    <3>1. UNCHANGED <<pending, posts, told>>
      BY <2>2 DEF authorize, look_up
    <3> QED
      BY <1>1, <1>3, <3>1, SameReferences
  <2>3. CASE raw(th, s) /\ Referenced(s)
    <3>1. pending' = pending /\ told' = told /\ \A r \in Sessions : r # s => posts'[r] = posts[r]
      BY <1>4, <2>3 DEF raw, Post, Text
    <3>2. \A r \in Sessions : Referenced(r)' => Referenced(r)
      BY <1>1, <1>3, <2>3, <3>1, NoNewReference
    <3> QED
      BY <3>1, <3>2
  <2>4. CASE raw(th, s) /\ ~Referenced(s)
    <3>1. UNCHANGED <<pending, posts, told>>
      BY <2>4 DEF raw
    <3> QED
      BY <1>1, <1>3, <3>1, SameReferences
  <2> QED
    BY <2>1, <2>2, <2>3, <2>4
<1>6. Lives(th)
  BY <1>2, <1>5, Lively
<1>7. Overheard
  BY <1>5 DEF Overheard
<1> QED
  BY <1>1, <1>2, <1>6, <1>7, QuietStep

LEMMA SearchTold ==
  ASSUME IInv, IInv', Told, NEW th \in Threads, NEW s \in Sessions, search(th, s)
  PROVE  Told'
<1>1. /\ todo[th] # <<>> /\ Head(todo[th]).op = "search"
      /\ UNCHANGED <<registered, phase, uuid, pending, posts, told>>
  BY DEF search, At, object
<1>2. PICK first \in Seq(Ops) :
        /\ Continue(th, first) /\ Discreet(first)
        /\ \A i \in 1..Len(first) : first[i].op \in Free
  <2>1. CASE Continue(th, <<>>)
    <3>1. <<>> \in Seq(Ops) /\ Discreet(<<>>) /\ \A i \in 1..Len(<<>>) : <<>>[i].op \in Free
      BY DiscreetPrograms
    <3> QED
      BY <2>1, <3>1
  <2>2. ASSUME NEW found \in SUBSET registered, NEW order \in SetToSeqs(found),
               Continue(th, [i \in DOMAIN order |-> Do("raw", order[i])] \o <<Do("raw", s)>>)
        PROVE  \E first \in Seq(Ops) :
                 /\ Continue(th, first) /\ Discreet(first)
                 /\ \A i \in 1..Len(first) : first[i].op \in Free
    <3> DEFINE p == [i \in DOMAIN order |-> Do("raw", order[i])]
               q == <<Do("raw", s)>>
    <3>1. order \in Seq(Sessions)
      BY Orders DEF IInv, Typed
    <3>2. p \in Seq(Ops) /\ Discreet(p)
      <4>1. \A i \in 1..Len(order) : Do("raw", order[i]) \in Ops
        BY <3>1, Steps
      <4>2. p \in [1..Len(order) -> Ops]
        BY <3>1, <4>1
      <4>3. p \in Seq(Ops) /\ Len(p) = Len(order)
        BY <3>1, <4>2
      <4>4. \A i \in 1..Len(p) : p[i].op = "raw"
        BY <4>3 DEF Do
      <4> QED
        BY <4>3, <4>4 DEF Discreet
    <3>3. q \in Seq(Ops) /\ Discreet(q)
      BY Steps, DiscreetPrograms
    <3>4. p \o q \in Seq(Ops) /\ \A i \in 1..Len(p \o q) : (p \o q)[i].op \in Free
      BY <3>1, Raws
    <3>5. Continue(th, p \o q)
      BY <2>2
    <3> HIDE DEF p, q
    <3>6. Discreet(p \o q)
      BY <3>2, <3>3, DiscreetJoined
    <3> QED
      BY <3>4, <3>5, <3>6
  <2> QED
    BY <2>1, <2>2 DEF search
<1>3. Harmless(first) /\ \A r \in Sessions : ~Holds(first, r)
  BY <1>2, FreeProgram
<1>4. Becomes(th, first)
  BY <1>1, <1>2, ContinueBecomes DEF IInv
<1>5. \A r \in Sessions : Referenced(r)' => Referenced(r)
  BY <1>1, <1>3, <1>4, SameReferences
<1>6. Lives(th) /\ Overheard
  BY <1>1, <1>5, Lively DEF Overheard
<1> QED
  BY <1>1, <1>2, <1>3, <1>6, QuietStep DEF Harmless

\* An order of a set has each of its members, once.
LEMMA OrdersAll ==
  ASSUME NEW S, S \subseteq Sessions, NEW order \in SetToSeqs(S)
  PROVE  /\ \A i, j \in 1..Len(order) : order[i] = order[j] => i = j
         /\ \A r \in S : \E i \in 1..Len(order) : order[i] = r
<1>1. IsFiniteSet(S) /\ Cardinality(S) \in Nat
  BY RegistryAssumption, FS_Subset, FS_CardinalityType
<1>2. /\ order \in [1..Cardinality(S) -> S] /\ Len(order) = Cardinality(S)
      /\ \A i, j \in 1..Cardinality(S) : order[i] = order[j] => i = j
  BY <1>1 DEF SetToSeqs
<1>3. \A r \in S : \E i \in 1..Cardinality(S) : order[i] = r
  <2> DEFINE D == 1..Cardinality(S)
             N == Cardinality(S)
  <2>1. IsFiniteSet(D) /\ Cardinality(D) = N
    BY <1>1, FS_Interval
  <2>2. order \in Injection(D, S)
    BY <1>2 DEF Injection, IsInjective
  <2> HIDE DEF D
  <2>3. order \in Surjection(D, S)
    BY <1>1, <2>1, <2>2, FS_Injection
  <2> QED
    BY <2>3 DEF Surjection, D
<1> QED
  BY <1>2, <1>3

\* send<T>(), whatever it sends.
LEMMA NotifyTold ==
  ASSUME IInv, IInv', Told, NEW th \in Threads, NEW skip \in Sessions \cup {nil_uuid},
         notify(th, skip)
  PROVE  Told'
<1> DEFINE m == Head(todo[th]).m
<1>1. /\ todo[th] # <<>> /\ todo[th] \in Seq(Ops) /\ Head(todo[th]) \in Ops
      /\ Head(todo[th]).op = "notify" /\ Head(todo[th]).s = skip
      /\ UNCHANGED <<registered, phase, uuid, pending, posts, told>>
      /\ registered \subseteq Sessions
  BY DEF notify, At, object, IInv, Typed
<1>2. m \in Notices
  BY <1>1, Carried
<1>3. PICK order \in SetToSeqs(registered \ {skip}) :
        Continue(th, [i \in DOMAIN order |-> Say("post", order[i], m)])
  BY DEF notify
<1>4. /\ order \in Seq(Sessions) /\ \A i \in 1..Len(order) : order[i] \in registered \ {skip}
      /\ \A i, j \in 1..Len(order) : order[i] = order[j] => i = j
      /\ \A r \in registered \ {skip} : \E i \in 1..Len(order) : order[i] = r
  <2>1. registered \ {skip} \subseteq Sessions
    BY <1>1
  <2> QED
    BY <2>1, Orders, OrdersAll
<1> DEFINE first == [i \in DOMAIN order |-> Say("post", order[i], m)]
<1>5. first \in Seq(Ops) /\ \A i \in 1..Len(first) : first[i].op \in Free
  BY <1>2, <1>4, Posts
<1>6. /\ Len(first) = Len(order)
      /\ \A i \in 1..Len(first) : first[i] = Tell(order[i], m) /\ first[i].m = m
                                  /\ first[i].s = order[i]
  BY <1>4 DEF Tell, Say
<1>7. Continue(th, first)
  BY <1>3
<1> HIDE DEF first, m
<1>8. Harmless(first) /\ \A r \in Sessions : ~Holds(first, r)
  BY <1>5, FreeProgram
<1>9. Moves(th, first) /\ Becomes(th, first)
  BY <1>1, <1>5, <1>7, ContinueMoves DEF IInv, Moves
<1>10. \A r \in Sessions : Referenced(r)' => Referenced(r)
  BY <1>1, <1>8, <1>9, SameReferences
<1>11. Lives(th) /\ Overheard
  BY <1>1, <1>10, Lively DEF Overheard
<1>12. CASE m \notin News
  <2>1. Discreet(first)
    BY <1>6, <1>12 DEF Discreet
  <2> QED
    BY <1>1, <1>5, <1>7, <1>8, <1>11, <1>12, <2>1, QuietStep DEF Harmless, m
<1>13. CASE m \in News
  <2>1. Head(todo[th]) = Source(m)
    <3>1. 1 \in 1..Len(todo[th]) /\ todo[th][1] = Head(todo[th]) /\ Carries(todo[th][1], m)
      BY <1>1 DEF Carries, m
    <3>2. Carriers(todo[th], m)
      BY <1>13 DEF Told, Passes
    <3>3. \A r \in Sessions : Head(todo[th]) # Tell(r, m)
      BY <1>1, <1>13, Newses
    <3> QED
      BY <3>1, <3>2, <3>3 DEF Carriers
  <2>2. \A i \in 1..Len(first) : \E r \in registered : first[i] = Tell(r, m)
    BY <1>4, <1>6
  <2>3. \A r \in Sessions : Once(first, Tell(r, m))
    <3> SUFFICES ASSUME NEW r \in Sessions, NEW i \in 1..Len(first), NEW j \in 1..Len(first),
                        first[i] = Tell(r, m), first[j] = Tell(r, m)
                 PROVE  i = j
      BY DEF Once
    <3>1. order[i] = r /\ order[j] = r
      BY <1>6, <1>13, Newses
    <3> QED
      BY <1>4, <1>6, <3>1
  <2>4. ASSUME m.kind = "leave", NEW r \in registered PROVE Mentions(first, Tell(r, m))
    <3>1. skip = nil_uuid
      BY <1>1, <2>1, <2>4 DEF Source, Say
    <3>2. r \in registered \ {skip}
      BY <1>1, <3>1, RegistryAssumption
    <3> QED
      BY <1>4, <1>6, <3>2 DEF Mentions
  <2>5. told' = told /\ uuid' = uuid
    BY <1>1
  <2> QED
    BY <1>1, <1>9, <1>11, <1>13, <2>1, <2>2, <2>3, <2>4, <2>5, SpreadTold
<1> QED
  BY <1>12, <1>13

\* send<T>() to one session, whatever it sends.
LEMMA PostTold ==
  ASSUME IInv, IInv', Told, NEW th \in Threads, NEW s \in Sessions, post(th, s)
  PROVE  Told'
<1> DEFINE n == Head(todo[th]).m
<1>1. /\ todo[th] # <<>> /\ todo[th] \in Seq(Ops) /\ Head(todo[th]) \in Ops
      /\ Head(todo[th]).op = "post" /\ Head(todo[th]).s = s
      /\ UNCHANGED <<registered, phase, uuid, pending>>
      /\ posts \in [Sessions -> Nat] /\ told \in [Sessions -> Seq(Notices)]
  <2>1. /\ todo[th] \in Seq(Ops) /\ posts \in [Sessions -> Nat]
        /\ told \in [Sessions -> Seq(Notices)]
    BY DEF IInv, Typed
  <2>2. /\ todo[th] # <<>> /\ Head(todo[th]).op = "post" /\ Head(todo[th]).s = s
        /\ UNCHANGED <<registered, phase, uuid, pending>>
    BY DEF post, At, object
  <2> QED
    BY <2>1, <2>2
<1>2. n \in Notices
  BY <1>1, Carried
<1>3. PICK first \in Seq(Ops) :
        /\ Continue(th, first) /\ Harmless(first) /\ Discreet(first)
        /\ \A r \in Sessions : r # s => ~Holds(first, r)
        /\ \/ Referenced(s) /\ Post(s, n)
           \/ ~Referenced(s) /\ UNCHANGED <<posts, told>> /\ ~Holds(first, s)
  <2>1. CASE Referenced(s)
    <3> DEFINE p == <<Do("drop", s)>>
    <3>1. /\ p \in Seq(Ops) /\ Harmless(p) /\ Discreet(p)
          /\ \A r \in Sessions : r # s => ~Holds(p, r)
      BY LetGo, DiscreetPrograms
    <3>2. Continue(th, p) /\ Post(s, n)
      BY <2>1 DEF post
    <3> HIDE DEF p, n
    <3> QED
      BY <2>1, <3>1, <3>2
  <2>2. CASE ~Referenced(s)
    <3>1. Continue(th, <<>>) /\ UNCHANGED <<posts, told>>
      BY <2>2 DEF post
    <3> HIDE DEF n
    <3> QED
      BY <2>2, <3>1, Empty, DiscreetPrograms
  <2> QED
    BY <2>1, <2>2
<1> HIDE DEF n
<1>4. Moves(th, first) /\ Becomes(th, first)
  BY <1>1, <1>3, ContinueMoves DEF IInv, Moves
<1>5. \A r \in Sessions : Referenced(r)' => Referenced(r)
  <2>1. CASE Referenced(s) /\ Post(s, n)
    <3>1. \A r \in Sessions : r # s => posts'[r] = posts[r] /\ pending'[r] = pending[r]
      BY <1>1, <2>1 DEF Post
    <3> QED
      BY <1>3, <1>4, <2>1, <3>1, NoNewReference
  <2>2. CASE ~Referenced(s) /\ UNCHANGED <<posts, told>> /\ ~Holds(first, s)
    BY <1>1, <1>3, <1>4, <2>2, SameReferences
  <2> QED
    BY <1>3, <2>1, <2>2
<1>6. Lives(th)
  BY <1>1, <1>5, Lively
<1>7. IF Referenced(s) /\ n.kind # "text"
      THEN told' = [told EXCEPT ![s] = Append(@, n)] ELSE told' = told
  BY <1>3 DEF Post
<1>8. CASE n \notin News
  <2>1. Overheard
    BY <1>1, <1>2, <1>7, <1>8 DEF Overheard
  <2> QED
    BY <1>1, <1>3, <1>6, <1>8, <2>1, QuietStep DEF Harmless, n
<1>9. CASE n \in News
  <2>1. Head(todo[th]) = Tell(s, n)
    <3>1. 1 \in 1..Len(todo[th]) /\ todo[th][1] = Head(todo[th]) /\ Carries(todo[th][1], n)
      BY <1>1 DEF Carries, n
    <3>2. Carriers(todo[th], n)
      BY <1>9 DEF Told, Passes
    <3>3. Head(todo[th]) # Source(n)
      BY <1>1, <1>9, Newses
    <3>4. PICK r \in Sessions : Head(todo[th]) = Tell(r, n)
      BY <3>1, <3>2, <3>3 DEF Carriers
    <3>5. r = s
      BY <1>1, <1>9, <3>4, Newses
    <3> QED
      BY <3>4, <3>5
  <2>2. n.kind # "text"
    BY <1>9 DEF News
  <2>3. \A m \in News : Mute(first, m)
    BY <1>3, DiscreetMute
  <2>4. IF Referenced(s) THEN told' = [told EXCEPT ![s] = Append(@, n)] ELSE told' = told
    BY <1>7, <2>2
  <2>5. uuid' = uuid /\ \A r \in Sessions : ~Mentions(first, Do("freed", r))
    BY <1>1, <1>3 DEF Harmless
  <2> QED
    BY <1>1, <1>4, <1>6, <1>9, <2>1, <2>3, <2>4, <2>5, PostedTold
<1> QED
  BY <1>8, <1>9

\* What the destructor of s has to do, and what it says.
LEMMA DepartureSays ==
  ASSUME NEW s \in Sessions, uuid[s] \in {s, nil_uuid}
  PROVE  LET first == Departure(s)
         IN  /\ \A m \in News : m # Left(s) => Mute(first, m)
             /\ \A i \in 1..Len(first) : Carries(first[i], Left(s)) => first[i] = Source(Left(s))
             /\ uuid[s] = s => Mentions(first, Source(Left(s)))
             /\ Once(first, Source(Left(s))) /\ Followed(first, Left(s), Do("freed", s))
             /\ Once(first, Do("freed", s))
<1> DEFINE first == <<Do("erase", s), Say("notify", nil_uuid, Leave(s)), Do("freed", s)>>
<1>1. /\ Len(first) = 3 /\ first[1].op = "erase" /\ first[3] = Do("freed", s)
      /\ first[2] = Say("notify", nil_uuid, Leave(s)) /\ first[3].op = "freed"
      /\ first[2].op = "notify" /\ first[2].m = Leave(s)
  BY DEF Do, Say
<1> HIDE DEF first
<1>2. 1..Len(first) = {1, 2, 3} /\ 3 \in (2 + 1)..Len(first)
  BY <1>1
<1>3. \A m \in News : m = Leave(s) => m = Left(s) /\ uuid[s] = s
  <2>1. \A m \in News : m.of \in Sessions
    BY DEF News
  <2> QED
    BY <2>1, RegistryAssumption DEF Leave, Left
<1>4. uuid[s] = s => Leave(s) = Left(s)
  BY DEF Leave, Left
<1>5. Left(s) \in News /\ Source(Left(s)) = Say("notify", nil_uuid, Left(s))
      /\ Source(Left(s)).op = "notify"
  BY JoinAndLeave, Newses
<1>6. \A m \in News : \A i \in 1..Len(first) : Carries(first[i], m) => i = 2 /\ m = Leave(s)
  BY <1>1, <1>2 DEF Carries
<1>7. /\ \A m \in News : m # Left(s) => Mute(first, m)
      /\ \A i \in 1..Len(first) : Carries(first[i], Left(s)) => first[i] = Source(Left(s))
  BY <1>1, <1>3, <1>5, <1>6 DEF Mute
<1>8. uuid[s] = s => Mentions(first, Source(Left(s)))
  BY <1>1, <1>2, <1>4, <1>5 DEF Mentions
<1>9. Once(first, Source(Left(s))) /\ Once(first, Do("freed", s))
  <2>1. \A i \in 1..Len(first) : first[i] = Source(Left(s)) => i = 2
    BY <1>1, <1>2, <1>5
  <2>2. \A i \in 1..Len(first) : first[i] = Do("freed", s) => i = 3
    BY <1>1, <1>2 DEF Do
  <2> QED
    BY <2>1, <2>2 DEF Once
<1>10. Followed(first, Left(s), Do("freed", s))
  BY <1>1, <1>2, <1>5, <1>6 DEF Followed
<1> QED
  BY <1>7, <1>8, <1>9, <1>10 DEF first, Departure

\* A handler or a locked pointer is over, and with the last reference the session.
LEMMA ReleaseTold ==
  ASSUME IInv, IInv', Told, NEW th \in Threads, NEW s \in Sessions, release(th, s)
  PROVE  Told'
<1>1. PICK op \in {"end", "drop"} : At(th, op, s)
  BY DEF release
<1>2. /\ todo[th] # <<>> /\ Head(todo[th]) = Do(op, s) /\ Head(todo[th]).op = op
      /\ Referenced(s) /\ phase[s] = "live" /\ uuid[s] \in {s, nil_uuid}
  <2>1. Referenced(s) /\ phase[s] = "live"
    BY <1>1, Keeps
  <2>2. op \notin {"notify", "post"} /\ Typed
    BY DEF IInv
  <2>3. todo[th] # <<>> /\ Head(todo[th]) = Do(op, s)
    BY <1>1, <2>2, AtDo
  <2> QED
    BY <2>1, <2>3 DEF IInv, Typed, Do
<1>3. UNCHANGED <<registered, phase, uuid, pending, posts, told>>
  BY DEF release, object
<1>4. Overheard
  BY <1>3 DEF Overheard
<1>5. PICK first \in {Departure(s), <<>>} : Continue(th, first)
  BY DEF release
<1>6. first \in Seq(Ops) /\ \A r \in Sessions : ~Holds(first, r)
  BY <1>2, <1>5, Departs, Empty
<1>7. Moves(th, first) /\ Becomes(th, first)
  BY <1>2, <1>5, <1>6, ContinueMoves DEF IInv, Moves
<1>8. Lives(th)
  <2>1. \A r \in Sessions : Referenced(r)' => Referenced(r)
    BY <1>3, <1>6, <1>7, SameReferences
  <2> QED
    BY <1>2, <1>3, <2>1, Lively
<1>9. CASE first = <<>>
  <2>1. Discreet(first) /\ \A r \in Sessions : ~Mentions(first, Do("freed", r))
    BY <1>9, Empty, DiscreetPrograms DEF Harmless
  <2> QED
    BY <1>2, <1>4, <1>5, <1>6, <1>8, <2>1, QuietStep
<1>10. CASE first = Departure(s)
  <2>1. /\ Mentions(first, Do("freed", s))
        /\ \A r \in Sessions : r # s => ~Mentions(first, Do("freed", r))
    BY <1>2, <1>10, Departs
  <2>2. /\ \A m \in News : m # Left(s) => Mute(first, m)
        /\ \A i \in 1..Len(first) : Carries(first[i], Left(s)) => first[i] = Source(Left(s))
        /\ uuid[s] = s => Mentions(first, Source(Left(s)))
        /\ Once(first, Source(Left(s))) /\ Followed(first, Left(s), Do("freed", s))
        /\ Once(first, Do("freed", s))
    BY <1>2, <1>10, DepartureSays
  <2>3. \A m \in News : ~(todo[th] # <<>> /\ Carries(Head(todo[th]), m))
    BY <1>2 DEF Carries
  <2>4. phase'[s] = "live" /\ told' = told
    BY <1>2, <1>3
  <2> QED
    BY <1>2, <1>7, <1>8, <2>1, <2>2, <2>3, <2>4, GoodbyeTold
<1> QED
  BY <1>5, <1>9, <1>10

LEMMA ThreadTold ==
  ASSUME IInv, IInv', Told, NEW th \in Threads, Step(th)
  PROVE  Told'
<1>1. CASE \E s \in Sessions : insert(th, s) \/ erase(th, s) \/ freed(th, s)
  BY <1>1, ObjectTold
<1>2. CASE \E s \in Sessions :
             listen(th, s) \/ read(th, s) \/ authorize(th, s) \/ look_up(th, s) \/ raw(th, s)
  BY <1>2, OwnTold
<1>3. CASE \E s \in Sessions : search(th, s) \/ post(th, s) \/ release(th, s)
  BY <1>3, SearchTold, PostTold, ReleaseTold
<1>4. CASE \E s \in Sessions \cup {nil_uuid} : notify(th, s)
  BY <1>4, NotifyTold
<1> QED
  BY <1>1, <1>2, <1>3, <1>4 DEF Step

\* What a session that is accepted says.
LEMMA ArrivalSays ==
  ASSUME NEW s \in Sessions
  PROVE  LET first == Arrival(s)
         IN  /\ \A m \in News : m # Join(s) => Mute(first, m)
             /\ \A i \in 1..Len(first) : Carries(first[i], Join(s)) => first[i] = Source(Join(s))
             /\ Once(first, Source(Join(s))) /\ Followed(first, Join(s), Do("end", s))
             /\ Preceded(first, Source(Join(s)), Do("insert", s))
<1> DEFINE long  == <<Do("insert", s), Say("notify", s, Join(s)), Do("listen", s), Do("end", s)>>
           short == <<Do("insert", s), Do("listen", s), Do("end", s)>>
           Fine(first) ==
             /\ \A m \in News : m # Join(s) => Mute(first, m)
             /\ \A i \in 1..Len(first) : Carries(first[i], Join(s)) => first[i] = Source(Join(s))
             /\ Once(first, Source(Join(s))) /\ Followed(first, Join(s), Do("end", s))
             /\ Preceded(first, Source(Join(s)), Do("insert", s))
<1>1. /\ Len(long) = 4 /\ long[1] = Do("insert", s) /\ long[1].op = "insert"
      /\ long[2] = Say("notify", s, Join(s)) /\ long[2].m = Join(s)
      /\ long[3].op = "listen" /\ long[4].op = "end" /\ long[4] = Do("end", s)
  BY DEF Do, Say
<1>2. Len(short) = 3 /\ short[1].op = "insert" /\ short[2].op = "listen" /\ short[3].op = "end"
  BY DEF Do
<1>3. /\ Join(s) \in News /\ Source(Join(s)) = Say("notify", s, Join(s))
      /\ Source(Join(s)).op = "notify"
  BY JoinAndLeave, Newses
<1> HIDE DEF long, short
<1>4. Fine(long)
  <2>1. 1..Len(long) = {1, 2, 3, 4} /\ 4 \in (2 + 1)..Len(long) /\ 1 \in 1..(2 - 1)
    BY <1>1
  <2>2. \A m \in News : \A i \in 1..Len(long) : Carries(long[i], m) => i = 2 /\ m = Join(s)
    BY <1>1, <2>1 DEF Carries
  <2>3. \A i \in 1..Len(long) : long[i] = Source(Join(s)) => i = 2
    BY <1>1, <1>3, <2>1
  <2>4. \A m \in News : m # Join(s) => Mute(long, m)
    BY <2>2 DEF Mute
  <2>5. \A i \in 1..Len(long) : Carries(long[i], Join(s)) => long[i] = Source(Join(s))
    BY <1>1, <1>3, <2>2
  <2>6. Once(long, Source(Join(s)))
    BY <2>3 DEF Once
  <2>7. Followed(long, Join(s), Do("end", s))
    BY <1>1, <1>3, <2>1, <2>2 DEF Followed
  <2>8. Preceded(long, Source(Join(s)), Do("insert", s))
    BY <1>1, <2>1, <2>3 DEF Preceded
  <2> QED
    BY <2>4, <2>5, <2>6, <2>7, <2>8
<1>5. Fine(short)
  <2>1. 1..Len(short) = {1, 2, 3}
    BY <1>2
  <2>2. \A i \in 1..Len(short) : short[i].op # "notify" /\ short[i].op # "post"
    BY <1>2, <2>1
  <2>3. \A m : Mute(short, m)
    BY <2>2 DEF Mute, Carries
  <2>4. \A i \in 1..Len(short) : short[i] # Source(Join(s))
    BY <1>3, <2>2
  <2> QED
    BY <2>3, <2>4 DEF Mute, Once, Followed, Preceded
<1>6. Arrival(s) = long \/ Arrival(s) = short
  BY ArrivalIs DEF long, short
<1> QED
  BY <1>4, <1>5, <1>6

LEMMA DueTold ==
  ASSUME IInv, IInv', Counted, Told, NEW s \in Sessions, Due(s)
  PROVE  Told'
<1>0. /\ Operations = {"accept", "read", "wait", "close"}
      /\ pending \in [Sessions -> [Operations -> Nat]] /\ posts \in [Sessions -> Nat]
  BY DEF Operations, IInv, Typed
<1> DEFINE last == <<Do("end", s)>>
<1>1. /\ last \in Seq(Ops) /\ Harmless(last) /\ Discreet(last)
      /\ \A r \in Sessions : r # s => ~Holds(last, r)
      /\ Arrival(s) \in Seq(Ops) /\ Harmless(Arrival(s))
      /\ \A r \in Sessions : r # s => ~Holds(Arrival(s), r)
  BY LetGo, Arrives, DiscreetPrograms
<1> HIDE DEF last
<1>2. PICK th \in Threads :
        \/ on_accept(th, s) \/ on_read_failed(th, s) \/ check_dead_line(th, s)
        \/ on_close(th, s) \/ on_send(th, s)
  BY DEF Due
<1>3. /\ todo[th] = <<>> /\ UNCHANGED <<registered, phase, uuid, told>>
  BY <1>2 DEF on_accept, on_read_failed, check_dead_line, on_close, on_send, Idle, object
<1>4. PICK first : /\ first \in Seq(Ops) /\ Harmless(first) /\ Run(th, first)
                   /\ \A r \in Sessions : r # s => ~Holds(first, r)
                   /\ \/ first = last
                      \/ first = Arrival(s) /\ on_accept(th, s)
  BY <1>1, <1>2 DEF on_accept, on_read_failed, check_dead_line, on_close, on_send, last
<1>5. Moves(th, first) /\ Becomes(th, first)
  BY <1>3, <1>4, RunMoves DEF IInv, Moves
<1>6. /\ Referenced(s)
      /\ \A r \in Sessions : r # s => pending'[r] = pending[r] /\ posts'[r] = posts[r]
      /\ pending[s]["accept"] = 0 => pending'[s]["accept"] = 0
  <2>1. ASSUME NEW o \in {"accept", "read", "close"}, Complete(s, o), posts' = posts
        PROVE  /\ Referenced(s)
               /\ \A r \in Sessions : r # s => pending'[r] = pending[r] /\ posts'[r] = posts[r]
               /\ pending[s]["accept"] = 0 => pending'[s]["accept"] = 0
    <3>1. o \in Operations /\ "accept" \in Operations
      BY <1>0
    <3>2. /\ pending'[s][o] = 0 /\ \A x \in Operations : x # o => pending'[s][x] = pending[s][x]
          /\ \A r \in Sessions : r # s => pending'[r] = pending[r]
      BY <2>1, <3>1, Less
    <3>3. Referenced(s)
      BY <2>1, <3>1 DEF Complete, Referenced
    <3> QED
      BY <2>1, <3>1, <3>2, <3>3
  <2>2. CASE check_dead_line(th, s)
    <3> DEFINE new == [pending[s] EXCEPT !["wait"] = @ - 1,
                                         !["close"] = IF authorized_[s] THEN @ ELSE @ + 1]
    <3>1. new["accept"] = pending[s]["accept"]
      BY <1>0
    <3>2. pending' = [pending EXCEPT ![s] = new] /\ posts' = posts
      BY <1>0, <2>2 DEF check_dead_line
    <3>3. "wait" \in Operations /\ pending[s]["wait"] > 0
      BY <1>0, <2>2 DEF check_dead_line
    <3>4. Referenced(s)
      BY <3>3 DEF Referenced
    <3> HIDE DEF new
    <3> QED
      BY <1>0, <3>1, <3>2, <3>4
  <2>3. CASE on_send(th, s)
    <3>1. posts[s] > 0 /\ posts' = [posts EXCEPT ![s] = @ - 1] /\ pending' = pending
      BY <2>3 DEF on_send
    <3>2. Referenced(s)
      BY <3>1 DEF Referenced
    <3> QED
      BY <1>0, <3>1, <3>2
  <2>4. CASE on_accept(th, s) \/ on_read_failed(th, s) \/ on_close(th, s)
    BY <2>1, <2>4 DEF on_accept, on_read_failed, on_close
  <2> QED
    BY <1>2, <2>2, <2>3, <2>4
<1>7. \A r \in Sessions : Referenced(r)' => Referenced(r)
  BY <1>4, <1>5, <1>6, NoNewReference
<1>8. Lives(th)
  <2>1. \A r \in Sessions : pending[r]["accept"] = 0 => pending'[r]["accept"] = 0
    BY <1>6
  <2> QED
    BY <1>3, <1>7, <2>1, Lively
<1>9. CASE first = last
  BY <1>1, <1>3, <1>4, <1>8, <1>9, QuietHandler
<1>10. CASE first = Arrival(s) /\ on_accept(th, s)
  <2>1. pending[s]["accept"] # 0 /\ pending'[s]["accept"] = 0
    <3>1. "accept" \in Operations /\ Complete(s, "accept")
      BY <1>0, <1>10 DEF on_accept
    <3>2. pending[s]["accept"] = 1 /\ pending'[s]["accept"] = 0
      BY <3>1, Less
    <3> QED
      BY <3>2
  <2>2. phase[s] = "live"
    BY <1>6 DEF IInv
  <2>3. \A r \in Sessions : ~Mentions(first, Do("freed", r))
    BY <1>4 DEF Harmless
  <2>4. /\ \A m \in News : m # Join(s) => Mute(first, m)
        /\ \A i \in 1..Len(first) : Carries(first[i], Join(s)) => first[i] = Source(Join(s))
        /\ Once(first, Source(Join(s))) /\ Followed(first, Join(s), Do("end", s))
        /\ Preceded(first, Source(Join(s)), Do("insert", s))
    BY <1>10, ArrivalSays
  <2>5. told' = told
    BY <1>3
  <2> QED
    BY <1>3, <1>5, <1>8, <2>1, <2>2, <2>3, <2>4, <2>5, HelloTold
<1> QED
  BY <1>4, <1>9, <1>10

-----------------------------------------------------------------------------
(* The clients, and the theorems.                                           *)

LEMMA StillTold ==
  ASSUME Told, UNCHANGED <<registered, phase, uuid, pending, posts, told, todo>>
  PROVE  Told'
<1>1. \A x : Said(x)' <=> Said(x)
  BY DEF Said
<1>2. \A r, m : Knows(r, m)' <=> Knows(r, m)
  BY DEF Knows
<1>3. \A r \in Sessions : Referenced(r)' <=> Referenced(r)
  BY DEF Referenced
<1>4. ASSUME NEW m \in News PROVE Passes(m)'
  <2>1. Passes(m)
    BY DEF Told
  <2> QED
    BY <1>1, <1>2, <2>1 DEF Passes, Sole
<1>5. ASSUME NEW s \in Sessions PROVE Joins(s)' /\ Parts(s)'
  <2>1. Joins(s) /\ Parts(s)
    BY DEF Told
  <2>2. /\ Abroad(Join(s))' <=> Abroad(Join(s))
        /\ Abroad(Left(s))' <=> Abroad(Left(s))
    BY <1>1, <1>2 DEF Abroad
  <2>3. Joins(s)'
    BY <1>1, <1>2, <2>1, <2>2 DEF Joins
  <2>4. Parts(s)'
    BY <1>1, <2>1, <2>2 DEF Parts, Sole
  <2> QED
    BY <2>3, <2>4
<1>6. ASSUME NEW r \in Sessions, NEW s \in Sessions PROVE InOrder(r, s)' /\ Owed(r, s)'
  <2>1. InOrder(r, s) /\ Owed(r, s)
    BY DEF Told
  <2>2. InOrder(r, s)'
    BY <2>1 DEF InOrder
  <2>3. Owed(r, s)'
    BY <1>1, <1>2, <1>3, <2>1 DEF Owed
  <2> QED
    BY <2>2, <2>3
<1>7. \A r \in registered' : uuid'[r] = r
  BY DEF Told
<1> QED
  BY <1>4, <1>5, <1>6, <1>7 DEF Told

\* A session is constructed, and nobody has heard of it.
LEMMA MakeTold ==
  ASSUME IInv, IInv', Told, NEW th \in Threads, NEW s \in Sessions, NEW ok \in BOOLEAN,
         make_websocket_session(th, s, ok)
  PROVE  Told'
<1> DEFINE first == <<Do("drop", s)>>
<1>1. /\ first \in Seq(Ops) /\ Harmless(first) /\ Discreet(first)
      /\ \A r \in Sessions : r # s => ~Holds(first, r)
  BY LetGo, DiscreetPrograms
<1>2. /\ todo[th] = <<>> /\ Run(th, first) /\ phase[s] = "none" /\ told' = told
      /\ phase' = [phase EXCEPT ![s] = "live"] /\ UNCHANGED <<registered, uuid, posts>>
      /\ \A r \in Sessions : r # s => pending'[r] = pending[r]
  <2>1. \A r \in Sessions : r # s => pending'[r] = pending[r]
    <3>1. CASE pending' = pending
      BY <3>1
    <3>2. CASE Expect(s, "accept")
      BY <3>2 DEF Expect, IInv, Typed
    <3> QED
      BY <3>1, <3>2 DEF make_websocket_session
  <2> QED
    BY <2>1 DEF make_websocket_session, Idle
<1> HIDE DEF first
<1>3. Becomes(th, first)
  BY <1>1, <1>2, RunBecomes DEF IInv
<1>4. ASSUME NEW r \in Sessions, r # s, Referenced(r)' PROVE Referenced(r)
  <2>1. Held(r, todo') => Held(r, todo)
    <3> SUFFICES ASSUME NEW t \in Threads, NEW x \in {Do("end", r), Do("drop", r)},
                        Mentions(todo'[t], x)
                 PROVE  Mentions(todo[t], x)
      BY HeldMentions
    <3>1. ~Mentions(first, x)
      BY <1>1, <1>4 DEF Holds
    <3> QED
      BY <1>3, <3>1 DEF Becomes
  <2> QED
    BY <1>2, <1>4, <2>1 DEF Referenced
<1>5. \A r \in Sessions : phase'[r] = IF r = s THEN "live" ELSE phase[r]
  BY <1>2 DEF IInv, Typed
<1>6. \A op, r : ~HeadIs(th, Do(op, r))
  BY <1>2 DEF HeadIs
<1>7. Lives(th)
  BY <1>2, <1>4, <1>5, <1>6 DEF Lives
<1> QED
  BY <1>1, <1>2, <1>7, QuietHandler

\* The rest of a reading handler carries no news, whatever it starts with.
LEMMA AgainDiscreet ==
  ASSUME NEW s \in Sessions, NEW p \in Seq(Ops), Discreet(p)
  PROVE  Discreet(p \o Again(s))
<1> DEFINE q == <<Do("read", s), Do("end", s)>>
<1>1. q \in Seq(Ops) /\ Discreet(q)
  BY Steps, DiscreetPrograms
<1> HIDE DEF q
<1>2. Discreet(p \o q)
  BY <1>1, DiscreetJoined
<1> QED
  BY <1>2 DEF Again, q

LEMMA ClientTold ==
  ASSUME IInv, IInv', Counted, Told, NEW s \in Sessions, Client(s)
  PROVE  Told'
<1> DEFINE Fine(first) == /\ first \in Seq(Ops) /\ Harmless(first) /\ Discreet(first)
                          /\ \A r \in Sessions : r # s => ~Holds(first, r)
<1>1. CASE disconnect(s)
  BY <1>1, StillTold DEF disconnect, object
<1>2. ASSUME NEW th \in Threads, NEW ok \in BOOLEAN, make_websocket_session(th, s, ok)
      PROVE  Told'
  BY <1>2, MakeTold
<1>3. ASSUME NEW th \in Threads,
             \/ on_text(th, s) \/ on_private(th, s)
             \/ \E good \in BOOLEAN : on_client_param(th, s, good)
      PROVE  Told'
  <2>1. todo[th] = <<>> /\ Complete(s, "read") /\ UNCHANGED <<registered, phase, uuid, posts, told>>
    BY <1>3 DEF on_text, on_private, on_client_param, Idle, object
  <2>2. PICK first : Fine(first) /\ Run(th, first)
    <3>1. CASE on_text(th, s)
      <4> DEFINE p == IF Allowed(s) THEN <<Say("notify", nil_uuid, Text)>> ELSE <<>>
      <4>1. p \in Seq(Ops) /\ Discreet(p)
        BY SilentPrograms, DiscreetPrograms
      <4>2. Discreet(p \o Again(s))
        BY <4>1, AgainDiscreet
      <4> QED
        BY <3>1, <4>2, Handlers DEF on_text, IInv
    <3>2. CASE on_private(th, s)
      <4>1. <<Do("search", s)>> \in Seq(Ops) /\ Discreet(<<Do("search", s)>>)
        BY SilentPrograms, DiscreetPrograms
      <4>2. Discreet(<<Do("search", s)>> \o Again(s))
        BY <4>1, AgainDiscreet
      <4> QED
        BY <3>2, <4>2, Handlers DEF on_private, IInv
    <3>3. ASSUME NEW good \in BOOLEAN, on_client_param(th, s, good)
          PROVE  \E first : Fine(first) /\ Run(th, first)
      <4>1. PICK op \in {"authorize", "look_up"} :
              Run(th, <<Do(op, s), Do("raw", s)>> \o Again(s))
        BY <3>3 DEF on_client_param
      <4>2. <<Do(op, s), Do("raw", s)>> \in Seq(Ops) /\ Discreet(<<Do(op, s), Do("raw", s)>>)
        BY SilentPrograms, DiscreetPrograms
      <4>3. Discreet(<<Do(op, s), Do("raw", s)>> \o Again(s))
        BY <4>2, AgainDiscreet
      <4>4. Fine(<<Do(op, s), Do("raw", s)>> \o Again(s))
        BY <4>3, Handlers DEF IInv
      <4> HIDE DEF Fine
      <4> QED
        BY <4>1, <4>4
    <3> QED
      BY <1>3, <3>1, <3>2, <3>3
  <2>3. Becomes(th, first)
    BY <2>1, <2>2, RunBecomes DEF IInv
  <2>4. /\ Referenced(s) /\ \A r \in Sessions : r # s => pending'[r] = pending[r]
        /\ \A r \in Sessions : pending[r]["accept"] = 0 => pending'[r]["accept"] = 0
    <3>1. "read" \in Operations /\ "accept" \in Operations
      BY DEF Operations
    <3> QED
      BY <2>1, <3>1, Counts, Less DEF IInv
  <2>5. \A r \in Sessions : Referenced(r)' => Referenced(r)
    BY <2>1, <2>2, <2>3, <2>4, NoNewReference
  <2>6. Lives(th)
    BY <2>1, <2>4, <2>5, Lively
  <2> QED
    BY <2>1, <2>2, <2>6, QuietHandler
<1> QED
  BY <1>1, <1>2, <1>3 DEF Client

LEMMA ToldInit == Init => Told
<1> SUFFICES ASSUME Init PROVE Told
  OBVIOUS
<1>1. /\ registered = {} /\ \A th \in Threads : todo[th] = <<>>
      /\ \A r \in Sessions : told[r] = <<>> /\ phase[r] = "none"
  BY DEF Init
<1>2. \A x : ~Said(x) /\ Sole(x)
  BY <1>1 DEF Said, Sole, Once, Mentions
<1>3. \A r \in Sessions : \A m : ~Knows(r, m) /\ Once(told[r], m)
  BY <1>1 DEF Knows, Once, Mentions
<1>4. \A th \in Threads : \A m, x, y : /\ Carriers(todo[th], m) /\ Followed(todo[th], m, y)
                                       /\ Preceded(todo[th], x, y)
  BY <1>1 DEF Carriers, Followed, Preceded
<1>5. \A m \in News : Passes(m)
  BY <1>2, <1>3, <1>4 DEF Passes
<1>6. \A s \in Sessions : Joins(s) /\ Parts(s)
  BY <1>1, <1>2, <1>3, <1>4 DEF Joins, Parts, Abroad
<1>7. \A r, s \in Sessions : InOrder(r, s) /\ Owed(r, s)
  BY <1>1, <1>3 DEF InOrder, Owed
<1> QED
  BY <1>1, <1>5, <1>6, <1>7 DEF Told

LEMMA ToldNext == IInv /\ IInv' /\ Counted /\ Told /\ [Next]_vars => Told'
<1> SUFFICES ASSUME IInv, IInv', Counted, Told, [Next]_vars PROVE Told'
  OBVIOUS
<1>1. CASE UNCHANGED vars
  BY <1>1, StillTold DEF vars, object
<1>2. CASE Next
  BY <1>2, ThreadTold, DueTold, ClientTold DEF Next
<1> QED
  BY <1>1, <1>2

LEMMA ToldAlways == Spec => []Told
BY Invariant, IInvInit, IInvNext, CountedInit, CountedNext, ToldInit, ToldNext, PTL DEF Spec, Safe

\* A session is told of a join before the leave, and of each at most once, in
\* spite of broadcasts that run in several threads.
THEOREM JoinBeforeLeave == Spec => []LeaveAfterJoin
<1>1. IInv /\ Told => LeaveAfterJoin
  <2> SUFFICES ASSUME IInv, Told, NEW r \in Sessions, NEW s \in Sessions,
                      NEW i \in 1..Len(told[r]), NEW j \in 1..Len(told[r])
               PROVE  /\ told[r][i] = Join(s) /\ told[r][j] = Left(s) => i < j
                      /\ told[r][i].of = s /\ told[r][i] = told[r][j] => i = j
    BY DEF LeaveAfterJoin, Left
  <2>1. told[r][i] = Join(s) /\ told[r][j] = Left(s) => i < j
    BY DEF Told, InOrder
  <2>2. ASSUME told[r][i].of = s, told[r][i] = told[r][j] PROVE i = j
    <3>1. told[r][i] \in Notices
      BY DEF IInv, Typed
    <3>2. told[r][i] # Text
      BY <2>2, RegistryAssumption DEF Text
    <3>3. told[r][i] \in News
      BY <2>2, <3>1, <3>2 DEF Notices, News
    <3> QED
      BY <2>2, <3>3 DEF Told, Passes, Once
  <2> QED
    BY <2>1, <2>2
<1> QED
  BY <1>1, Invariant, ToldAlways, PTL

\* Whoever was told of a session, and is still there when it is gone, has been
\* told that it left.
THEOREM GoneIsTold == Spec => []LeaveIsTold
<1>1. Told => LeaveIsTold
  <2> SUFFICES ASSUME Told, NEW r \in Sessions, NEW s \in Sessions, phase[s] = "gone",
                      Referenced(r), Knows(r, Join(s))
               PROVE  Knows(r, Left(s))
    BY DEF LeaveIsTold, Left, Knows, Mentions
  <2>1. ~Said(Do("freed", s))
    BY DEF Told, Parts
  <2>2. Left(s) \in News /\ Keeper(Left(s)) = Do("freed", s)
    BY JoinAndLeave
  <2>3. ASSUME NEW x, Carries(x, Left(s)) PROVE ~Said(x)
    <3> SUFFICES ASSUME NEW th \in Threads, Mentions(todo[th], x) PROVE FALSE
      BY DEF Said
    <3>1. PICK i \in 1..Len(todo[th]) : Carries(todo[th][i], Left(s))
      BY <2>3 DEF Mentions
    <3>2. Followed(todo[th], Left(s), Do("freed", s))
      BY <2>2 DEF Told, Passes
    <3>3. PICK j \in (i + 1)..Len(todo[th]) : todo[th][j] = Do("freed", s)
      BY <3>1, <3>2 DEF Followed
    <3>4. Mentions(todo[th], Do("freed", s))
      BY <3>3 DEF Mentions
    <3> QED
      BY <2>1, <3>4 DEF Said
  <2>4. ~Said(Source(Left(s))) /\ ~Said(Tell(r, Left(s)))
    BY <2>2, <2>3, Newses
  <2> QED
    BY <2>4 DEF Told, Owed
<1> QED
  BY <1>1, ToldAlways, PTL

-----------------------------------------------------------------------------
(* No session is forgotten.                                                 *)

\* A session that lives is referred to, or in its destructor: in whatever order
\* and in whatever threads its references go, the last one destroys it.
NoneLeaked ==
  \A s \in Sessions : phase[s] = "live" => Referenced(s) \/ Said(Do("freed", s))

\* Nothing that s waits for comes to an end, unless the handler it starts holds s.
Retains(first, s) ==
  \/ Holds(first, s)
  \/ /\ \A o \in Operations : pending[s][o] > 0 => pending'[s][o] > 0
     /\ posts[s] > 0 => posts'[s] > 0

LEMMA ReferenceKept ==
  ASSUME NEW th \in Threads, NEW first, Becomes(th, first), NEW s \in Sessions,
         todo[th] = <<>> \/ Head(todo[th]) \notin {Do("end", s), Do("drop", s)},
         Retains(first, s), Referenced(s)
  PROVE  Referenced(s)'
<1>1. ASSUME NEW t \in Threads, NEW x \in {Do("end", s), Do("drop", s)}, Mentions(todo'[t], x)
      PROVE  Referenced(s)'
  <2>1. Held(s, todo')
    BY <1>1, HeldMentions
  <2> QED
    BY <2>1 DEF Referenced
<1>2. CASE Holds(first, s)
  BY <1>1, <1>2 DEF Holds, Becomes
<1>3. CASE ~Holds(first, s)
  <2>1. CASE Held(s, todo)
    <3>1. PICK t \in Threads, x \in {Do("end", s), Do("drop", s)} : Mentions(todo[t], x)
      BY <2>1, HeldMentions
    <3>2. Mentions(todo'[t], x)
      BY <3>1 DEF Becomes
    <3> QED
      BY <1>1, <3>2
  <2>2. CASE ~Held(s, todo)
    BY <1>3, <2>2 DEF Referenced, Retains
  <2> QED
    BY <2>1, <2>2
<1> QED
  BY <1>2, <1>3

\* A step of a thread that lets go of nothing.
LEMMA StepKeeps ==
  ASSUME NoneLeaked, NEW th \in Threads, NEW first, Becomes(th, first), phase' = phase,
         todo[th] = <<>> \/ Head(todo[th]).op \notin {"freed", "end", "drop"},
         \A s \in Sessions : Retains(first, s)
  PROVE  NoneLeaked'
<1> SUFFICES ASSUME NEW s \in Sessions, phase[s] = "live"
             PROVE  Referenced(s)' \/ Said(Do("freed", s))'
  BY DEF NoneLeaked
<1>1. todo[th] = <<>> \/ Head(todo[th]) \notin {Do("end", s), Do("drop", s), Do("freed", s)}
  BY DEF Do
<1>2. CASE Referenced(s)
  BY <1>1, <1>2, ReferenceKept
<1>3. CASE Said(Do("freed", s))
  BY <1>1, <1>3 DEF Said, Becomes
<1> QED
  BY <1>2, <1>3 DEF NoneLeaked

LEMMA ThreadKeeps ==
  ASSUME IInv, NoneLeaked, NEW th \in Threads, NEW s \in Sessions,
         \/ insert(th, s) \/ erase(th, s) \/ post(th, s) \/ listen(th, s) \/ read(th, s)
         \/ search(th, s) \/ raw(th, s) \/ authorize(th, s) \/ look_up(th, s)
  PROVE  NoneLeaked'
<1>0. /\ Operations = {"accept", "read", "wait", "close"}
      /\ pending \in [Sessions -> [Operations -> Nat]] /\ posts \in [Sessions -> Nat] /\ Typed
  BY DEF Operations, IInv, Typed
<1>1. /\ todo[th] # <<>> /\ phase' = phase
      /\ Head(todo[th]).op \notin {"freed", "end", "drop"}
  BY DEF insert, erase, post, listen, read, search, raw, authorize, look_up, At, object
<1>2. \E first \in Seq(Ops) : Continue(th, first)
  <2>1. <<>> \in Seq(Ops) /\ <<Do("drop", s)>> \in Seq(Ops)
    BY Empty, LetGo
  <2>2. ASSUME NEW found \in SUBSET registered, NEW order \in SetToSeqs(found)
        PROVE  [i \in DOMAIN order |-> Do("raw", order[i])] \o <<Do("raw", s)>> \in Seq(Ops)
    <3>1. order \in Seq(Sessions)
      BY <1>0, Orders DEF Typed
    <3> QED
      BY <3>1, Raws
  <2> QED
    BY <2>1, <2>2 DEF insert, erase, post, listen, read, search, raw, authorize, look_up
<1>3. \A r \in Sessions : /\ \A o \in Operations : pending[r][o] > 0 => pending'[r][o] > 0
                          /\ posts[r] > 0 => posts'[r] > 0
  <2>1. CASE listen(th, s)
    <3> DEFINE armed == UseAuthorization /\ ~authorized_[s] /\ AllowDelayedAuthorization
               new == [pending[s] EXCEPT !["read"] = @ + 1,
                                         !["wait"] = IF armed THEN @ + 1 ELSE @]
    <3>1. pending' = [pending EXCEPT ![s] = new] /\ posts' = posts
      BY <1>0, <2>1 DEF listen
    <3>2. \A o \in Operations : pending[s][o] \in Nat
      BY <1>0
    <3>3. \A o \in Operations : pending[s][o] > 0 => new[o] > 0
      BY <1>0, <3>2
    <3> HIDE DEF new
    <3> QED
      BY <1>0, <3>1, <3>3
  <2>2. CASE read(th, s)
    BY <1>0, <2>2 DEF read, Expect
  <2>3. CASE pending' = pending /\ posts' = posts
    BY <2>3
  <2>4. CASE pending' = pending /\ \E m : Post(s, m)
    BY <1>0, <2>4 DEF Post
  <2> QED
    BY <2>1, <2>2, <2>3, <2>4 DEF insert, erase, post, search, raw, authorize, look_up
<1> QED
  BY <1>0, <1>1, <1>2, <1>3, ContinueBecomes, StepKeeps DEF IInv, Retains

\* The last reference is gone: the destructor runs.
LEMMA ReleaseKeeps ==
  ASSUME IInv, NoneLeaked, NEW th \in Threads, NEW s \in Sessions, release(th, s)
  PROVE  NoneLeaked'
<1> DEFINE rest == [todo EXCEPT ![th] = Tail(@)]
           last == /\ \A o \in Operations : pending[s][o] = 0
                   /\ posts[s] = 0 /\ ~Held(s, rest)
<1>1. PICK op \in {"end", "drop"} : At(th, op, s)
  BY DEF release
<1>2. /\ todo[th] # <<>> /\ Head(todo[th]) = Do(op, s) /\ todo[th] \in Seq(Ops)
  <2>1. op \notin {"notify", "post"} /\ Typed
    BY DEF IInv
  <2> QED
    BY <1>1, <2>1, AtDo DEF Typed
<1>3. UNCHANGED <<phase, pending, posts>>
  BY DEF release, object
<1>4. PICK first \in Seq(Ops) : Continue(th, first) /\ (last => first = Departure(s))
                                                    /\ (~last => first = <<>>)
  BY Departs, Empty DEF release, IInv, Typed
<1>5. Becomes(th, first)
  BY <1>2, <1>4, ContinueBecomes DEF IInv
<1> SUFFICES ASSUME NEW r \in Sessions, phase[r] = "live"
             PROVE  Referenced(r)' \/ Said(Do("freed", r))'
  BY <1>3 DEF NoneLeaked
<1>6. CASE Said(Do("freed", r))
  <2>1. Head(todo[th]) # Do("freed", r)
    BY <1>2 DEF Do
  <2> QED
    BY <1>5, <1>6, <2>1 DEF Said, Becomes
<1>7. CASE Referenced(r) /\ r # s
  <2>1. Head(todo[th]) \notin {Do("end", r), Do("drop", r)}
    BY <1>2, <1>7 DEF Do
  <2> QED
    BY <1>3, <1>5, <1>7, <2>1, ReferenceKept DEF Retains
<1>8. CASE r = s /\ last
  <2>1. Mentions(first, Do("freed", s))
    BY <1>4, <1>8, Departs DEF IInv, Typed
  <2> QED
    BY <1>5, <1>8, <2>1 DEF Said, Becomes
<1>9. CASE r = s /\ ~last
  <2>1. todo' = rest
    <3>1. <<>> \o Tail(todo[th]) = Tail(todo[th])
      BY <1>2
    <3> QED
      BY <1>4, <1>9, <3>1 DEF Continue
  <2>2. \A o \in Operations : pending[s][o] # 0 => pending[s][o] > 0
    BY DEF IInv, Typed
  <2>3. posts[s] # 0 => posts[s] > 0
    BY DEF IInv, Typed
  <2> QED
    BY <1>3, <1>9, <2>1, <2>2, <2>3 DEF Referenced
<1> QED
  BY <1>6, <1>7, <1>8, <1>9 DEF NoneLeaked

LEMMA FreedKeeps ==
  ASSUME IInv, NoneLeaked, NEW th \in Threads, NEW s \in Sessions, freed(th, s)
  PROVE  NoneLeaked'
<1>1. todo[th] # <<>> /\ Head(todo[th]) = Do("freed", s)
  BY AtDo DEF freed, IInv
<1>2. Becomes(th, <<>>)
  BY <1>1, Empty, ContinueBecomes DEF freed, IInv
<1>3. /\ UNCHANGED <<pending, posts>>
      /\ \A r \in Sessions : phase'[r] = IF r = s THEN "gone" ELSE phase[r]
  BY DEF freed, IInv, Typed
<1> SUFFICES ASSUME NEW r \in Sessions, r # s, phase[r] = "live"
             PROVE  Referenced(r)' \/ Said(Do("freed", r))'
  BY <1>3 DEF NoneLeaked
<1>4. Head(todo[th]) \notin {Do("end", r), Do("drop", r), Do("freed", r)}
  BY <1>1 DEF Do
<1>5. CASE Referenced(r)
  BY <1>2, <1>3, <1>4, <1>5, ReferenceKept DEF Retains
<1>6. CASE Said(Do("freed", r))
  BY <1>2, <1>4, <1>6 DEF Said, Becomes
<1> QED
  BY <1>5, <1>6 DEF NoneLeaked

LEMMA NotifyKeeps ==
  ASSUME IInv, NoneLeaked, NEW th \in Threads, NEW skip \in Sessions \cup {nil_uuid},
         notify(th, skip)
  PROVE  NoneLeaked'
<1>1. /\ todo[th] # <<>> /\ todo[th] \in Seq(Ops) /\ Head(todo[th]).op = "notify"
      /\ UNCHANGED <<phase, pending, posts>>
  BY DEF notify, At, object, IInv, Typed
<1>2. \E first \in Seq(Ops) : Continue(th, first)
  <2>1. Head(todo[th]).m \in Notices
    BY <1>1, Carried
  <2>2. \A order \in SetToSeqs(registered \ {skip}) : order \in Seq(Sessions)
    BY Orders DEF IInv, Typed
  <2> QED
    BY <2>1, <2>2, Posts DEF notify
<1> QED
  BY <1>1, <1>2, ContinueBecomes, StepKeeps DEF IInv, Retains

\* A handler holds the session it runs for.
LEMMA Holding ==
  ASSUME NEW s \in Sessions
  PROVE  /\ Holds(<<Do("end", s)>>, s) /\ Holds(<<Do("drop", s)>>, s)
         /\ Holds(Arrival(s), s)
         /\ \A p \in Seq(Ops) : Holds(p \o Again(s), s)
<1>1. ASSUME NEW op \in {"end", "drop"} PROVE Mentions(<<Do(op, s)>>, Do(op, s))
  <2> DEFINE q == <<Do(op, s)>>
  <2>1. 1 \in 1..Len(q) /\ q[1] = Do(op, s)
    OBVIOUS
  <2> HIDE DEF q
  <2>2. Mentions(q, Do(op, s))
    BY <2>1 DEF Mentions
  <2> QED
    BY <2>2 DEF q
<1>2. Mentions(Arrival(s), Do("end", s))
  <2> DEFINE p == <<Do("insert", s), Say("notify", s, Join(s)), Do("listen", s), Do("end", s)>>
             q == <<Do("insert", s), Do("listen", s), Do("end", s)>>
  <2>1. 4 \in 1..Len(p) /\ p[4] = Do("end", s) /\ 3 \in 1..Len(q) /\ q[3] = Do("end", s)
    OBVIOUS
  <2>2. Arrival(s) = p \/ Arrival(s) = q
    BY ArrivalIs
  <2> HIDE DEF p, q
  <2> QED
    BY <2>1, <2>2 DEF Mentions
<1>3. ASSUME NEW p \in Seq(Ops) PROVE Mentions(p \o Again(s), Do("end", s))
  <2> DEFINE q == <<Do("read", s), Do("end", s)>>
             u == p \o q
  <2>1. q \in Seq(Ops) /\ Len(q) = 2 /\ q[2] = Do("end", s)
    BY Steps
  <2> HIDE DEF q
  <2>2. Len(p) \in Nat /\ Len(u) = Len(p) + 2 /\ u[Len(p) + 2] = q[2]
    <3>1. /\ Len(u) = Len(p) + Len(q) /\ Len(p) \in Nat
          /\ \A i \in 1..Len(p) + Len(q) : u[i] = IF i <= Len(p) THEN p[i] ELSE q[i - Len(p)]
      <4>1. p \in Seq(Ops) /\ q \in Seq(Ops)
        BY <1>3, <2>1
      <4> QED
        BY <4>1, ConcatProperties
    <3> QED
      BY <2>1, <3>1
  <2> HIDE DEF u
  <2>3. Mentions(u, Do("end", s))
    BY <2>1, <2>2 DEF Mentions
  <2> QED
    BY <2>3 DEF u, q, Again
<1> QED
  BY <1>1, <1>2, <1>3 DEF Holds

LEMMA HandlerKeeps ==
  ASSUME IInv, NoneLeaked, NEW s \in Sessions, Due(s) \/ Client(s)
  PROVE  NoneLeaked'
<1>0. /\ Operations = {"accept", "read", "wait", "close"}
      /\ pending \in [Sessions -> [Operations -> Nat]] /\ posts \in [Sessions -> Nat] /\ Typed
  BY DEF Operations, IInv, Typed
<1>1. CASE disconnect(s)
  BY <1>1 DEF disconnect, object, NoneLeaked, Referenced, Said
<1>2. ASSUME NEW th \in Threads,
             \/ on_accept(th, s) \/ on_read_failed(th, s) \/ check_dead_line(th, s)
             \/ on_close(th, s) \/ on_send(th, s) \/ on_text(th, s) \/ on_private(th, s)
             \/ \E good \in BOOLEAN : on_client_param(th, s, good)
      PROVE  NoneLeaked'
  <2>1. /\ todo[th] = <<>> /\ phase' = phase
        /\ \A r \in Sessions : r # s => pending'[r] = pending[r] /\ posts'[r] = posts[r]
    BY <1>0, <1>2 DEF on_accept, on_read_failed, check_dead_line, on_close, on_send, on_text,
       on_private, on_client_param, Idle, object, Complete
  <2>2. \E first \in Seq(Ops) : Run(th, first) /\ Holds(first, s)
    <3>1. ASSUME NEW p \in Seq(Ops) PROVE p \o Again(s) \in Seq(Ops) /\ Holds(p \o Again(s), s)
      <4>1. Again(s) \in Seq(Ops)
        BY NothingElse
      <4>2. p \o Again(s) \in Seq(Ops)
        BY <4>1, ConcatProperties
      <4>3. Holds(p \o Again(s), s)
        BY Holding
      <4> QED
        BY <4>2, <4>3
    <3>2. <<Do("end", s)>> \in Seq(Ops) /\ Arrival(s) \in Seq(Ops)
      BY LetGo, Arrives
    <3>3. /\ <<Say("notify", nil_uuid, Text)>> \in Seq(Ops) /\ <<>> \in Seq(Ops)
          /\ <<Do("search", s)>> \in Seq(Ops)
          /\ \A op \in {"authorize", "look_up"} : <<Do(op, s), Do("raw", s)>> \in Seq(Ops)
      BY SilentPrograms, Empty
    <3> QED
      BY <1>2, <3>1, <3>2, <3>3, Holding DEF on_accept, on_read_failed, check_dead_line,
         on_close, on_send, on_text, on_private, on_client_param
  <2> QED
    BY <1>0, <2>1, <2>2, RunBecomes, StepKeeps DEF Retains
<1>3. ASSUME NEW th \in Threads, NEW ok \in BOOLEAN, make_websocket_session(th, s, ok)
      PROVE  NoneLeaked'
  <2> DEFINE first == <<Do("drop", s)>>
  <2>1. first \in Seq(Ops) /\ Holds(first, s)
    BY LetGo, Holding
  <2>2. /\ todo[th] = <<>> /\ Run(th, first) /\ posts' = posts /\ phase[s] = "none"
        /\ \A r \in Sessions : r # s => pending'[r] = pending[r] /\ phase'[r] = phase[r]
    BY <1>0, <1>3 DEF make_websocket_session, Idle, Expect, Typed
  <2> HIDE DEF first
  <2>3. Becomes(th, first)
    BY <1>0, <2>1, <2>2, RunBecomes
  <2>4. Referenced(s)'
    <3>1. PICK x \in {Do("end", s), Do("drop", s)} : Mentions(first, x)
      BY <2>1 DEF Holds
    <3>2. Held(s, todo')
      BY <2>3, <3>1, HeldMentions DEF Becomes
    <3> QED
      BY <3>2 DEF Referenced
  <2>5. ASSUME NEW r \in Sessions, r # s, phase[r] = "live"
        PROVE  Referenced(r)' \/ Said(Do("freed", r))'
    <3>1. CASE Referenced(r)
      BY <2>2, <2>3, <2>5, <3>1, ReferenceKept DEF Retains
    <3>2. CASE Said(Do("freed", r))
      <4>1. PICK t \in Threads : Mentions(todo[t], Do("freed", r))
        BY <3>2 DEF Said
      <4>2. t # th
        BY <2>2, <4>1 DEF Mentions
      <4> QED
        BY <2>3, <4>1, <4>2 DEF Said, Becomes
    <3> QED
      BY <2>5, <3>1, <3>2 DEF NoneLeaked
  <2> QED
    BY <2>2, <2>4, <2>5 DEF NoneLeaked
<1> QED
  BY <1>1, <1>2, <1>3 DEF Due, Client

LEMMA NoneLeakedNext == IInv /\ NoneLeaked /\ [Next]_vars => NoneLeaked'
<1> SUFFICES ASSUME IInv, NoneLeaked, [Next]_vars PROVE NoneLeaked'
  OBVIOUS
<1>1. CASE UNCHANGED vars
  BY <1>1 DEF vars, object, NoneLeaked, Referenced, Said
<1>2. CASE Next
  BY <1>2, ThreadKeeps, ReleaseKeeps, FreedKeeps, NotifyKeeps, HandlerKeeps DEF Next, Step
<1> QED
  BY <1>1, <1>2

\* What LostIsDestroyed rests on: no session is kept in memory by nothing.
THEOREM NoLeak == Spec => []NoneLeaked
<1>1. Init => NoneLeaked
  BY DEF Init, NoneLeaked
<1> QED
  BY <1>1, Invariant, IInvInit, IInvNext, NoneLeakedNext, PTL DEF Spec, Safe

-----------------------------------------------------------------------------
(* What may terminate the server.                                           *)

\* The answer of a command is given while its handler holds the session: only
\* forward_message() uses a pointer it does not hold.
Courteous(q) == Leads(q, {"raw"}, "end") /\ \A i \in 1..Len(q) : q[i].op # "search"

\* An exception that nobody catches takes a private message: no broadcast, join,
\* leave or SetClientParam, in whatever order, terminates the server.
OnlyPrivateKills == down => privates > 0

Polite == privates = 0 => ~down /\ \A th \in Threads : Courteous(todo[th])

\* The programs that contain neither.
Meek(first) == \A i \in 1..Len(first) : first[i].op \notin {"raw", "search"}

LEMMA MeekIsCourteous ==
  ASSUME NEW first, Meek(first)
  PROVE  Courteous(first)
BY DEF Meek, Courteous, Leads

LEMMA CourteousJoined ==
  ASSUME NEW first \in Seq(Ops), NEW q \in Seq(Ops), q # <<>>, Courteous(first), Courteous(q)
  PROVE  Courteous(first \o Tail(q))
<1> DEFINE p == first \o Tail(q)
<1>1. Leads(p, {"raw"}, "end")
  BY LeadsJoined DEF Courteous
<1>2. ASSUME NEW i \in 1..Len(p) PROVE p[i].op # "search"
  <2>1. CASE i \in 1..Len(first)
    BY <2>1, Joined DEF Courteous
  <2>2. CASE i - Len(first) + 1 \in 2..Len(q) /\ p[i] = q[i - Len(first) + 1]
    <3> DEFINE k == i - Len(first) + 1
    <3>1. k \in 1..Len(q) /\ p[i] = q[k]
      BY <2>2
    <3> HIDE DEF k, p
    <3> QED
      BY <3>1 DEF Courteous
  <2> QED
    BY <2>1, <2>2, Joined
<1> QED
  BY <1>1, <1>2 DEF Courteous

LEMMA MeekPrograms ==
  ASSUME NEW s \in Sessions
  PROVE  /\ Meek(<<>>) /\ Meek(<<Do("end", s)>>) /\ Meek(<<Do("drop", s)>>)
         /\ Meek(Arrival(s)) /\ Meek(Departure(s))
<1>1. Meek(<<>>)
  BY DEF Meek
<1>2. ASSUME NEW op \in {"end", "drop"} PROVE Meek(<<Do(op, s)>>)
  <2> DEFINE q == <<Do(op, s)>>
  <2>1. Len(q) = 1 /\ q[1].op = op
    BY DEF Do
  <2> HIDE DEF q
  <2>2. Meek(q)
    BY <2>1 DEF Meek
  <2> QED
    BY <2>2 DEF q
<1>3. Meek(Arrival(s))
  <2> DEFINE p == <<Do("insert", s), Say("notify", s, Join(s)), Do("listen", s), Do("end", s)>>
             q == <<Do("insert", s), Do("listen", s), Do("end", s)>>
  <2>1. /\ Len(p) = 4 /\ p[1].op = "insert" /\ p[2].op = "notify" /\ p[3].op = "listen"
        /\ p[4].op = "end"
        /\ Len(q) = 3 /\ q[1].op = "insert" /\ q[2].op = "listen" /\ q[3].op = "end"
    BY DEF Do, Say
  <2>2. Arrival(s) = p \/ Arrival(s) = q
    BY ArrivalIs
  <2> HIDE DEF p, q
  <2>3. 1..Len(p) = {1, 2, 3, 4} /\ 1..Len(q) = {1, 2, 3}
    BY <2>1
  <2> QED
    BY <2>1, <2>2, <2>3 DEF Meek
<1>4. Meek(Departure(s))
  <2> DEFINE q == <<Do("erase", s), Say("notify", nil_uuid, Leave(s)), Do("freed", s)>>
  <2>1. Len(q) = 3 /\ q[1].op = "erase" /\ q[2].op = "notify" /\ q[3].op = "freed"
    BY DEF Do, Say
  <2> HIDE DEF q
  <2>2. 1..Len(q) = {1, 2, 3}
    BY <2>1
  <2>3. Meek(q)
    BY <2>1, <2>2 DEF Meek
  <2> QED
    BY <2>3 DEF q, Departure
<1> QED
  BY <1>1, <1>2, <1>3, <1>4

\* The answer to a command, with the rest of its handler.
LEMMA AnswerIsCourteous ==
  ASSUME NEW s \in Sessions, NEW p \in Seq(Ops),
         \A i \in 1..Len(p) : p[i].op # "search" /\ (p[i].op = "raw" => p[i].s = s)
  PROVE  Courteous(p \o Again(s))
<1> DEFINE q == <<Do("read", s), Do("end", s)>>
           u == p \o q
<1>1. /\ q \in Seq(Ops) /\ Len(q) = 2 /\ q[1].op = "read" /\ q[2] = Do("end", s)
      /\ q[2].op = "end"
  BY Steps
<1> HIDE DEF q
<1>2. /\ Len(p) \in Nat /\ Len(u) = Len(p) + 2 /\ u[Len(p) + 2] = Do("end", s)
      /\ \A i \in 1..Len(u) : u[i] = IF i <= Len(p) THEN p[i] ELSE q[i - Len(p)]
  <2>1. p \in Seq(Ops) /\ q \in Seq(Ops)
    BY <1>1
  <2>2. /\ Len(u) = Len(p) + Len(q) /\ Len(p) \in Nat
        /\ \A i \in 1..Len(p) + Len(q) : u[i] = IF i <= Len(p) THEN p[i] ELSE q[i - Len(p)]
    BY <2>1, ConcatProperties
  <2> QED
    BY <1>1, <2>2
<1> HIDE DEF u
<1>3. ASSUME NEW i \in 1..Len(u)
      PROVE  /\ u[i].op # "search"
             /\ u[i].op = "raw" => \E j \in (i + 1)..Len(u) : u[j] = Do("end", u[i].s)
  <2>1. CASE i <= Len(p)
    <3>1. i \in 1..Len(p) /\ u[i] = p[i] /\ Len(p) + 2 \in (i + 1)..Len(u)
      BY <1>2, <2>1
    <3> QED
      BY <1>2, <3>1
  <2>2. CASE ~(i <= Len(p))
    <3>1. u[i] = q[i - Len(p)] /\ i - Len(p) \in {1, 2}
      BY <1>2, <2>2
    <3> QED
      BY <1>1, <3>1
  <2> QED
    BY <2>1, <2>2
<1>4. Courteous(u)
  BY <1>3 DEF Courteous, Leads
<1> QED
  BY <1>4 DEF u, q, Again

\* A step that keeps a thread courteous.
LEMMA PoliteStep ==
  ASSUME IInv, Polite, NEW th \in Threads, NEW first \in Seq(Ops),
         privates = 0 => Courteous(first),
         \/ todo[th] # <<>> /\ Continue(th, first)
         \/ todo[th] = <<>> /\ Run(th, first),
         privates' = privates, privates = 0 => ~down'
  PROVE  Polite'
<1>1. todo[th] \in Seq(Ops)
  BY DEF IInv, Typed
<1>2. \A t \in Threads : t # th => todo'[t] = todo[t]
  BY DEF Continue, Run, IInv, Typed
<1>3. privates = 0 => Courteous(todo'[th])
  <2>1. CASE todo[th] # <<>> /\ Continue(th, first)
    <3>1. todo'[th] = first \o Tail(todo[th])
      BY <2>1 DEF Continue, IInv, Typed
    <3> QED
      BY <1>1, <2>1, <3>1, CourteousJoined DEF Polite
  <2>2. CASE todo[th] = <<>> /\ Run(th, first)
    <3>1. todo'[th] = first
      BY <2>2 DEF Run, IInv, Typed
    <3> QED
      BY <3>1
  <2> QED
    BY <2>1, <2>2
<1> QED
  BY <1>2, <1>3 DEF Polite

LEMMA PoliteThread ==
  ASSUME IInv, Polite, NEW th \in Threads, Step(th)
  PROVE  Polite'
<1>0. todo[th] \in Seq(Ops)
  BY DEF IInv, Typed
<1>1. ASSUME NEW s \in Sessions,
             \/ insert(th, s) \/ erase(th, s) \/ freed(th, s) \/ listen(th, s) \/ read(th, s)
             \/ authorize(th, s) \/ look_up(th, s) \/ post(th, s) \/ release(th, s)
      PROVE  Polite'
  <2>1. /\ todo[th] # <<>> /\ privates' = privates /\ down' = down
    BY <1>1 DEF insert, erase, freed, listen, read, authorize, look_up, post, release, At, bounds
  <2>2. /\ <<>> \in Seq(Ops) /\ <<Do("drop", s)>> \in Seq(Ops) /\ Departure(s) \in Seq(Ops)
        /\ Courteous(<<>>) /\ Courteous(<<Do("drop", s)>>) /\ Courteous(Departure(s))
    BY Empty, LetGo, Departs, MeekPrograms, MeekIsCourteous DEF IInv, Typed
  <2>3. \E first \in Seq(Ops) : Courteous(first) /\ Continue(th, first)
    BY <1>1, <2>2 DEF insert, erase, freed, listen, read, authorize, look_up, post, release
  <2> QED
    BY <2>1, <2>3, PoliteStep DEF Polite
<1>2. ASSUME NEW s \in Sessions, search(th, s) PROVE Polite'
  <2>1. 1 \in 1..Len(todo[th]) /\ todo[th][1].op = "search" /\ privates' = privates
    BY <1>0, <1>2 DEF search, At, bounds
  <2>2. privates # 0
    BY <2>1 DEF Polite, Courteous
  <2> QED
    BY <2>1, <2>2 DEF Polite
<1>3. ASSUME NEW s \in Sessions, raw(th, s) PROVE Polite'
  <2>1. /\ todo[th] # <<>> /\ privates' = privates /\ Continue(th, <<>>)
        /\ Referenced(s) => down' = down
    BY <1>3 DEF raw, At, bounds
  <2>2. privates = 0 => Referenced(s)
    <3> SUFFICES ASSUME privates = 0 PROVE Referenced(s)
      OBVIOUS
    <3>1. 1 \in 1..Len(todo[th]) /\ todo[th][1].op = "raw" /\ todo[th][1].s = s
      BY <1>0, <1>3 DEF raw, At
    <3>2. PICK j \in (1 + 1)..Len(todo[th]) : todo[th][j] = Do("end", s)
      BY <3>1 DEF Polite, Courteous, Leads
    <3>3. Mentions(todo[th], Do("end", s))
      BY <3>2 DEF Mentions
    <3> QED
      BY <3>3, HeldMentions DEF Referenced
  <2>3. <<>> \in Seq(Ops) /\ Courteous(<<>>)
    BY Empty, MeekPrograms, MeekIsCourteous
  <2>4. privates = 0 => ~down'
    BY <2>1, <2>2 DEF Polite
  <2> QED
    BY <2>1, <2>3, <2>4, PoliteStep
<1>4. ASSUME NEW skip \in Sessions \cup {nil_uuid}, notify(th, skip) PROVE Polite'
  <2> DEFINE m == Head(todo[th]).m
  <2>1. PICK order \in SetToSeqs(registered \ {skip}) :
          Continue(th, [i \in DOMAIN order |-> Say("post", order[i], m)])
    BY <1>4 DEF notify
  <2>2. /\ todo[th] # <<>> /\ Head(todo[th]).op = "notify" /\ privates' = privates /\ down' = down
    BY <1>4 DEF notify, At, bounds
  <2>3. order \in Seq(Sessions) /\ m \in Notices
    <3>1. Head(todo[th]) \in Ops
      BY <1>0, <2>2
    <3>2. m \in Notices
      BY <2>2, <3>1, Carried
    <3>3. registered \ {skip} \subseteq Sessions
      BY DEF IInv, Typed
    <3>4. order \in Seq(Sessions)
      BY <2>1, <3>3, Orders
    <3> QED
      BY <3>2, <3>4
  <2> DEFINE first == [i \in DOMAIN order |-> Say("post", order[i], m)]
  <2>4. first \in Seq(Ops)
    BY <2>3, Posts
  <2>5. Meek(first)
    BY <2>3 DEF Meek, Say
  <2>6. Continue(th, first)
    BY <2>1
  <2> HIDE DEF first
  <2> QED
    BY <2>2, <2>4, <2>5, <2>6, MeekIsCourteous, PoliteStep DEF Polite
<1> QED
  BY <1>1, <1>2, <1>3, <1>4 DEF Step

LEMMA PoliteHandler ==
  ASSUME IInv, Polite, NEW s \in Sessions, Due(s) \/ Client(s)
  PROVE  Polite'
<1>1. CASE disconnect(s)
  BY <1>1 DEF disconnect, bounds, Polite
<1>2. ASSUME NEW th \in Threads, on_private(th, s) PROVE Polite'
  BY <1>2 DEF on_private, Polite, IInv, Typed
<1>3. ASSUME NEW th \in Threads,
             \/ on_accept(th, s) \/ on_read_failed(th, s) \/ check_dead_line(th, s)
             \/ on_close(th, s) \/ on_send(th, s)
             \/ \E ok \in BOOLEAN : make_websocket_session(th, s, ok)
      PROVE  Polite'
  <2>1. todo[th] = <<>> /\ privates' = privates /\ down' = down
    BY <1>3 DEF on_accept, on_read_failed, check_dead_line, on_close, on_send,
       make_websocket_session, Idle, bounds
  <2>2. /\ <<Do("end", s)>> \in Seq(Ops) /\ <<Do("drop", s)>> \in Seq(Ops)
        /\ Arrival(s) \in Seq(Ops) /\ Courteous(<<Do("end", s)>>)
        /\ Courteous(<<Do("drop", s)>>) /\ Courteous(Arrival(s))
    BY LetGo, Arrives, MeekPrograms, MeekIsCourteous
  <2>3. \E first \in Seq(Ops) : Courteous(first) /\ Run(th, first)
    BY <1>3, <2>2 DEF on_accept, on_read_failed, check_dead_line, on_close, on_send,
       make_websocket_session
  <2> QED
    BY <2>1, <2>3, PoliteStep DEF Polite
<1>4. ASSUME NEW th \in Threads,
             on_text(th, s) \/ \E good \in BOOLEAN : on_client_param(th, s, good)
      PROVE  Polite'
  <2>1. todo[th] = <<>> /\ privates' = privates /\ down' = down
    BY <1>4 DEF on_text, on_client_param, Idle
  <2>2. PICK p \in Seq(Ops) :
          /\ Run(th, p \o Again(s))
          /\ \A i \in 1..Len(p) : p[i].op # "search" /\ (p[i].op = "raw" => p[i].s = s)
    <3>1. CASE on_text(th, s)
      <4> DEFINE p == IF Allowed(s) THEN <<Say("notify", nil_uuid, Text)>> ELSE <<>>
      <4>1. p \in Seq(Ops) /\ \A i \in 1..Len(p) : p[i].op = "notify"
        <5>1. CASE Allowed(s)
          <6>1. p \in Seq(Ops) /\ Len(p) = 1 /\ p[1].op = "notify"
            BY <5>1, SilentPrograms DEF Say
          <6> HIDE DEF p
          <6> QED
            BY <6>1
        <5>2. CASE ~Allowed(s)
          BY <5>2, Empty
        <5> QED
          BY <5>1, <5>2
      <4>2. Run(th, p \o Again(s))
        BY <3>1 DEF on_text
      <4> HIDE DEF p
      <4> QED
        BY <4>1, <4>2
    <3>2. ASSUME NEW op \in {"authorize", "look_up"},
                 Run(th, <<Do(op, s), Do("raw", s)>> \o Again(s))
          PROVE  \E p \in Seq(Ops) :
                   /\ Run(th, p \o Again(s))
                   /\ \A i \in 1..Len(p) : p[i].op # "search" /\ (p[i].op = "raw" => p[i].s = s)
      <4> DEFINE p == <<Do(op, s), Do("raw", s)>>
      <4>1. p \in Seq(Ops) /\ Len(p) = 2 /\ p[1].op = op /\ p[2].op = "raw" /\ p[2].s = s
        BY SilentPrograms DEF Do
      <4>2. Run(th, p \o Again(s))
        BY <3>2
      <4> HIDE DEF p
      <4> QED
        BY <4>1, <4>2
    <3>3. ASSUME NEW good \in BOOLEAN, on_client_param(th, s, good)
          PROVE  \E op \in {"authorize", "look_up"} :
                   Run(th, <<Do(op, s), Do("raw", s)>> \o Again(s))
      BY <3>3 DEF on_client_param
    <3> QED
      BY <1>4, <3>1, <3>2, <3>3
  <2>3. p \o Again(s) \in Seq(Ops)
    <3>1. Again(s) \in Seq(Ops)
      BY NothingElse
    <3> QED
      BY <3>1, ConcatProperties
  <2>4. Courteous(p \o Again(s))
    BY <2>2, AnswerIsCourteous
  <2> QED
    BY <2>1, <2>2, <2>3, <2>4, PoliteStep DEF Polite
<1> QED
  BY <1>1, <1>2, <1>3, <1>4 DEF Due, Client

\* Only forward_message() can terminate the server.
THEOREM Terminates == Spec => []OnlyPrivateKills
<1>1. Init => Polite
  BY DEF Init, Polite, Courteous, Leads
<1>2. IInv /\ Polite /\ [Next]_vars => Polite'
  <2> SUFFICES ASSUME IInv, Polite, [Next]_vars PROVE Polite'
    OBVIOUS
  <2>1. CASE UNCHANGED vars
    BY <2>1 DEF vars, bounds, Polite
  <2>2. CASE Next
    BY <2>2, PoliteThread, PoliteHandler DEF Next
  <2> QED
    BY <2>1, <2>2
<1>3. IInv /\ Polite => OnlyPrivateKills
  BY DEF IInv, Typed, Polite, OnlyPrivateKills
<1> QED
  BY <1>1, <1>2, <1>3, Invariant, IInvInit, IInvNext, PTL DEF Spec, Safe

-----------------------------------------------------------------------------
(* The dead line of a session that is not authorized.                       *)

\* A session that is not authorized and is still connected has its dead line
\* before it, or is being closed; or its thread has still to set the dead line.
DeadLineIsSet ==
  UseAuthorization =>
    \A s \in registered :
      \/ authorized_[s] \/ ~link[s]
      \/ pending[s]["wait"] > 0 \/ pending[s]["close"] > 0
      \/ Said(Do("listen", s))

\* Without a delay, a session that is not authorized gets nowhere.
Refused(s) ==
  ~authorized_[s] =>
    /\ pending[s]["accept"] = 0 /\ s \notin registered
    /\ ~Said(Do("insert", s)) /\ ~Said(Do("listen", s))

Watched ==
  /\ DeadLineIsSet
  /\ \A th \in Threads : Leads(todo[th], {"insert"}, "listen")
  /\ UseAuthorization /\ ~AllowDelayedAuthorization => \A s \in Sessions : Refused(s)

\* The programs that begin and register no session.
Settled(first) == \A i \in 1..Len(first) : first[i].op \notin {"insert", "listen"}

LEMMA SettledSays ==
  ASSUME NEW first, Settled(first), NEW s, NEW op \in {"insert", "listen"}
  PROVE  ~Mentions(first, Do(op, s))
BY DEF Settled, Mentions, Do

LEMMA LeadsContinued ==
  ASSUME IInv, NEW th \in Threads, NEW first \in Seq(Ops),
         \/ todo[th] # <<>> /\ Continue(th, first)
         \/ todo[th] = <<>> /\ Run(th, first),
         Leads(first, {"insert"}, "listen"),
         \A t \in Threads : Leads(todo[t], {"insert"}, "listen")
  PROVE  \A t \in Threads : Leads(todo'[t], {"insert"}, "listen")
<1>1. \A t \in Threads : t # th => todo'[t] = todo[t]
  BY DEF Continue, Run, IInv, Typed
<1>2. CASE todo[th] # <<>> /\ Continue(th, first)
  <2>1. todo'[th] = first \o Tail(todo[th]) /\ todo[th] \in Seq(Ops)
    BY <1>2 DEF Continue, IInv, Typed
  <2>2. Leads(todo'[th], {"insert"}, "listen")
    BY <1>2, <2>1, LeadsJoined
  <2> QED
    BY <1>1, <2>2
<1>3. CASE todo[th] = <<>> /\ Run(th, first)
  <2>1. todo'[th] = first
    BY <1>3 DEF Run, IInv, Typed
  <2> QED
    BY <1>1, <2>1
<1> QED
  BY <1>2, <1>3

\* Whatever changes in r, it keeps what watches over it.
Guarded(r) ==
  /\ authorized_[r] => authorized_'[r]
  /\ ~link[r] => ~link'[r]
  /\ pending[r]["accept"] = 0 => pending'[r]["accept"] = 0
  /\ pending[r]["wait"] > 0 \/ pending[r]["close"] > 0
       => \/ authorized_'[r] \/ ~link'[r]
          \/ pending'[r]["wait"] > 0 \/ pending'[r]["close"] > 0

\* A step that neither inserts a session nor begins to listen to it.
LEMMA WatchedStep ==
  ASSUME IInv, Watched, NEW th \in Threads, NEW first \in Seq(Ops), Settled(first),
         \/ todo[th] # <<>> /\ Continue(th, first)
         \/ todo[th] = <<>> /\ Run(th, first),
         todo[th] = <<>> \/ Head(todo[th]).op \notin {"insert", "listen"},
         registered' \subseteq registered, \A r \in Sessions : Guarded(r)
  PROVE  Watched'
<1>1. Becomes(th, first)
  BY ContinueBecomes, RunBecomes DEF IInv
<1>2. \A r \in Sessions, op \in {"insert", "listen"} : Said(Do(op, r))' <=> Said(Do(op, r))
  <2> TAKE r \in Sessions, op \in {"insert", "listen"}
  <2>1. todo[th] = <<>> \/ Head(todo[th]) # Do(op, r)
    BY DEF Do
  <2>2. ~Mentions(first, Do(op, r))
    BY SettledSays
  <2> QED
    BY <1>1, <2>1, <2>2 DEF Said, Becomes
<1>3. DeadLineIsSet'
  <2> SUFFICES ASSUME UseAuthorization, NEW r \in registered'
               PROVE  \/ authorized_'[r] \/ ~link'[r]
                      \/ pending'[r]["wait"] > 0 \/ pending'[r]["close"] > 0
                      \/ Said(Do("listen", r))'
    BY DEF DeadLineIsSet
  <2>1. r \in registered /\ r \in Sessions
    BY DEF IInv, Typed
  <2> QED
    BY <1>2, <2>1 DEF Watched, DeadLineIsSet, Guarded
<1>4. Leads(first, {"insert"}, "listen")
  BY DEF Settled, Leads
<1>5. \A r \in Sessions : Refused(r) => Refused(r)'
  BY <1>2 DEF Refused, Guarded, IInv, Typed
<1> QED
  BY <1>3, <1>4, <1>5, LeadsContinued DEF Watched

LEMMA SettledPrograms ==
  ASSUME NEW s \in Sessions
  PROVE  /\ Settled(<<>>) /\ Settled(<<Do("end", s)>>) /\ Settled(<<Do("drop", s)>>)
         /\ Settled(Departure(s))
         /\ \A p \in Seq(Ops) : Settled(p) => Settled(p \o Again(s))
         /\ \A p \in Seq(Ops) : (\A i \in 1..Len(p) : p[i].op \in Free) => Settled(p)
<1>1. Settled(<<>>)
  BY DEF Settled
<1>2. ASSUME NEW op \in {"end", "drop"} PROVE Settled(<<Do(op, s)>>)
  <2> DEFINE q == <<Do(op, s)>>
  <2>1. Len(q) = 1 /\ q[1].op = op
    BY DEF Do
  <2> HIDE DEF q
  <2>2. Settled(q)
    BY <2>1 DEF Settled
  <2> QED
    BY <2>2 DEF q
<1>3. Settled(Departure(s))
  <2> DEFINE q == <<Do("erase", s), Say("notify", nil_uuid, Leave(s)), Do("freed", s)>>
  <2>1. Len(q) = 3 /\ q[1].op = "erase" /\ q[2].op = "notify" /\ q[3].op = "freed"
    BY DEF Do, Say
  <2> HIDE DEF q
  <2>2. 1..Len(q) = {1, 2, 3}
    BY <2>1
  <2>3. Settled(q)
    BY <2>1, <2>2 DEF Settled
  <2> QED
    BY <2>3 DEF q, Departure
<1>4. ASSUME NEW p \in Seq(Ops), Settled(p) PROVE Settled(p \o Again(s))
  <2> DEFINE q == <<Do("read", s), Do("end", s)>>
             u == p \o q
  <2>1. q \in Seq(Ops) /\ Len(q) = 2 /\ q[1].op = "read" /\ q[2].op = "end"
    BY Steps
  <2> HIDE DEF q
  <2>2. /\ Len(u) = Len(p) + Len(q) /\ Len(p) \in Nat
        /\ \A i \in 1..Len(p) + Len(q) : u[i] = IF i <= Len(p) THEN p[i] ELSE q[i - Len(p)]
    <3>1. p \in Seq(Ops) /\ q \in Seq(Ops)
      BY <1>4, <2>1
    <3> QED
      BY <3>1, ConcatProperties
  <2> HIDE DEF u
  <2>3. ASSUME NEW i \in 1..Len(u) PROVE u[i].op \notin {"insert", "listen"}
    <3>1. CASE i <= Len(p)
      <4>1. i \in 1..Len(p) /\ u[i] = p[i]
        BY <2>1, <2>2, <3>1
      <4> QED
        BY <1>4, <4>1 DEF Settled
    <3>2. CASE ~(i <= Len(p))
      <4>1. u[i] = q[i - Len(p)] /\ i - Len(p) \in {1, 2}
        BY <2>1, <2>2, <3>2
      <4> QED
        BY <2>1, <4>1
    <3> QED
      BY <3>1, <3>2
  <2>4. Settled(u)
    BY <2>3 DEF Settled
  <2> QED
    BY <2>4 DEF u, q, Again
<1>5. ASSUME NEW p \in Seq(Ops), \A i \in 1..Len(p) : p[i].op \in Free PROVE Settled(p)
  BY <1>5 DEF Settled, Free
<1> QED
  BY <1>1, <1>2, <1>3, <1>4, <1>5

LEMMA InsertWatched ==
  ASSUME IInv, Watched, NEW th \in Threads, NEW s \in Sessions, insert(th, s)
  PROVE  Watched'
<1>1. /\ todo[th] # <<>> /\ Head(todo[th]) = Do("insert", s) /\ todo[th] \in Seq(Ops)
      /\ Mentions(todo[th], Do("insert", s))
  BY AtDo DEF insert, IInv, Typed
<1>2. /\ registered' = registered \cup {s} /\ Continue(th, <<>>) /\ <<>> \in Seq(Ops)
      /\ UNCHANGED <<authorized_, link, pending>>
  BY Empty DEF insert
<1>3. Becomes(th, <<>>)
  BY <1>1, <1>2, ContinueBecomes DEF IInv
<1>4. \A r \in Sessions : Said(Do("listen", r))' <=> Said(Do("listen", r))
  <2>1. \A r \in Sessions : Head(todo[th]) # Do("listen", r) /\ ~Mentions(<<>>, Do("listen", r))
    BY <1>1 DEF Do, Mentions
  <2> QED
    BY <1>3, <2>1 DEF Said, Becomes
<1>5. Said(Do("listen", s))
  <2>1. 1 \in 1..Len(todo[th]) /\ todo[th][1].op = "insert" /\ todo[th][1].s = s
    BY <1>1 DEF Do
  <2>2. PICK j \in (1 + 1)..Len(todo[th]) : todo[th][j] = Do("listen", s)
    BY <2>1 DEF Watched, Leads
  <2> QED
    BY <2>2 DEF Said, Mentions
<1>6. DeadLineIsSet'
  BY <1>2, <1>4, <1>5 DEF Watched, DeadLineIsSet, IInv, Typed
<1>7. \A t \in Threads : Leads(todo'[t], {"insert"}, "listen")
  <2>1. Leads(<<>>, {"insert"}, "listen")
    BY DEF Leads
  <2> QED
    BY <1>1, <1>2, <2>1, LeadsContinued DEF Watched
<1>8. \A r \in Sessions : Refused(r) => Refused(r)'
  <2>1. Said(Do("insert", s))
    BY <1>1 DEF Said
  <2>2. \A r \in Sessions : Said(Do("insert", r))' => Said(Do("insert", r))
    <3>1. \A x : ~Mentions(<<>>, x)
      BY DEF Mentions
    <3> QED
      BY <1>3, <3>1 DEF Said, Becomes
  <2> QED
    BY <1>2, <1>4, <2>1, <2>2 DEF Refused
<1> QED
  BY <1>6, <1>7, <1>8 DEF Watched

LEMMA ListenWatched ==
  ASSUME IInv, Watched, NEW th \in Threads, NEW s \in Sessions, listen(th, s)
  PROVE  Watched'
<1>0. /\ Operations = {"accept", "read", "wait", "close"}
      /\ pending \in [Sessions -> [Operations -> Nat]]
  BY DEF Operations, IInv, Typed
<1>1. /\ todo[th] # <<>> /\ Head(todo[th]) = Do("listen", s) /\ todo[th] \in Seq(Ops)
      /\ Mentions(todo[th], Do("listen", s))
  BY AtDo DEF listen, IInv, Typed
<1>2. /\ Continue(th, <<>>) /\ <<>> \in Seq(Ops) /\ UNCHANGED <<registered, authorized_, link>>
  BY Empty DEF listen, object
<1>3. Becomes(th, <<>>)
  BY <1>1, <1>2, ContinueBecomes DEF IInv
<1>4. \A x : Said(x)' => Said(x)
  <2>1. \A x : ~Mentions(<<>>, x)
    BY DEF Mentions
  <2> QED
    BY <1>3, <2>1 DEF Said, Becomes
<1>5. \A r \in Sessions : r # s /\ Said(Do("listen", r)) => Said(Do("listen", r))'
  <2>1. \A r \in Sessions : r # s => Head(todo[th]) # Do("listen", r)
    BY <1>1 DEF Do
  <2> QED
    BY <1>3, <2>1 DEF Said, Becomes
<1> DEFINE armed == UseAuthorization /\ ~authorized_[s] /\ AllowDelayedAuthorization
           new == [pending[s] EXCEPT !["read"] = @ + 1,
                                     !["wait"] = IF armed THEN @ + 1 ELSE @]
<1>6. pending' = [pending EXCEPT ![s] = new]
  BY <1>0 DEF listen
<1>7. /\ new["accept"] = pending[s]["accept"]
      /\ new["wait"] = IF armed THEN pending[s]["wait"] + 1 ELSE pending[s]["wait"]
      /\ pending[s]["wait"] \in Nat
  BY <1>0
<1> HIDE DEF new
<1>8. /\ \A r \in Sessions : r # s => pending'[r] = pending[r]
      /\ pending'[s]["accept"] = pending[s]["accept"]
      /\ armed => pending'[s]["wait"] > 0
  BY <1>0, <1>6, <1>7
<1>9. UseAuthorization => authorized_[s] \/ armed
  <2>1. Said(Do("listen", s))
    BY <1>1 DEF Said
  <2> QED
    BY <2>1 DEF Watched, Refused
<1>10. DeadLineIsSet'
  <2> SUFFICES ASSUME UseAuthorization, NEW r \in registered
               PROVE  \/ authorized_[r] \/ ~link[r]
                      \/ pending'[r]["wait"] > 0 \/ pending'[r]["close"] > 0
                      \/ Said(Do("listen", r))'
    BY <1>2 DEF DeadLineIsSet
  <2>1. CASE r = s
    BY <1>8, <1>9, <2>1
  <2>2. CASE r # s
    BY <1>5, <1>8, <2>2 DEF Watched, DeadLineIsSet, IInv, Typed
  <2> QED
    BY <2>1, <2>2
<1>11. \A t \in Threads : Leads(todo'[t], {"insert"}, "listen")
  <2>1. Leads(<<>>, {"insert"}, "listen")
    BY DEF Leads
  <2> QED
    BY <1>1, <1>2, <2>1, LeadsContinued DEF Watched
<1>12. \A r \in Sessions : Refused(r) => Refused(r)'
  BY <1>2, <1>4, <1>8 DEF Refused
<1> QED
  BY <1>10, <1>11, <1>12 DEF Watched

LEMMA ThreadWatched ==
  ASSUME IInv, Watched, NEW th \in Threads, Step(th)
  PROVE  Watched'
<1>0. /\ Operations = {"accept", "read", "wait", "close"}
      /\ pending \in [Sessions -> [Operations -> Nat]] /\ todo[th] \in Seq(Ops)
  BY DEF Operations, IInv, Typed
<1>1. ASSUME NEW s \in Sessions,
             \/ erase(th, s) \/ freed(th, s) \/ read(th, s) \/ post(th, s) \/ release(th, s)
             \/ search(th, s) \/ raw(th, s) \/ authorize(th, s) \/ look_up(th, s)
      PROVE  Watched'
  <2>1. /\ todo[th] # <<>> /\ Head(todo[th]).op \notin {"insert", "listen"}
        /\ registered' \subseteq registered /\ link' = link
    BY <1>1 DEF erase, freed, read, post, release, search, raw, authorize, look_up, At
  <2>2. \E first \in Seq(Ops) : Settled(first) /\ Continue(th, first)
    <3>1. ASSUME NEW found \in SUBSET registered, NEW order \in SetToSeqs(found)
          PROVE  LET first == [i \in DOMAIN order |-> Do("raw", order[i])] \o <<Do("raw", s)>>
                 IN  first \in Seq(Ops) /\ Settled(first)
      <4>1. found \subseteq Sessions
        BY DEF IInv, Typed
      <4>2. order \in Seq(Sessions)
        BY <4>1, Orders
      <4> DEFINE first == [i \in DOMAIN order |-> Do("raw", order[i])] \o <<Do("raw", s)>>
      <4>3. first \in Seq(Ops) /\ \A i \in 1..Len(first) : first[i].op \in Free
        BY <4>2, Raws
      <4> HIDE DEF first
      <4>4. Settled(first)
        BY <4>3, SettledPrograms
      <4> QED
        BY <4>3, <4>4 DEF first
    <3>2. /\ <<>> \in Seq(Ops) /\ <<Do("drop", s)>> \in Seq(Ops) /\ Departure(s) \in Seq(Ops)
          /\ Settled(<<>>) /\ Settled(<<Do("drop", s)>>) /\ Settled(Departure(s))
      BY Empty, LetGo, Departs, SettledPrograms DEF IInv, Typed
    <3> QED
      BY <1>1, <3>1, <3>2 DEF erase, freed, read, post, release, search, raw, authorize, look_up
  <2>3. \A r \in Sessions : Guarded(r)
    <3>1. CASE authorize(th, s)
      BY <3>1 DEF authorize, Guarded, IInv, Typed
    <3>2. CASE read(th, s)
      <4> DEFINE new == [pending[s] EXCEPT !["read"] = pending[s]["read"] + 1]
      <4>1. /\ new["accept"] = pending[s]["accept"] /\ new["wait"] = pending[s]["wait"]
            /\ new["close"] = pending[s]["close"]
        BY <1>0
      <4>2. pending' = [pending EXCEPT ![s] = new] /\ UNCHANGED <<authorized_, link>>
        BY <3>2 DEF read, Expect, object
      <4> HIDE DEF new
      <4> QED
        BY <1>0, <4>1, <4>2 DEF Guarded
    <3>3. CASE UNCHANGED <<authorized_, link, pending>>
      BY <3>3 DEF Guarded
    <3> QED
      BY <1>1, <3>1, <3>2, <3>3 DEF erase, freed, post, release, search, raw, look_up, object
  <2> QED
    BY <2>1, <2>2, <2>3, WatchedStep
<1>2. ASSUME NEW skip \in Sessions \cup {nil_uuid}, notify(th, skip) PROVE Watched'
  <2> DEFINE m == Head(todo[th]).m
  <2>1. PICK order \in SetToSeqs(registered \ {skip}) :
          Continue(th, [i \in DOMAIN order |-> Say("post", order[i], m)])
    BY <1>2 DEF notify
  <2>2. /\ todo[th] # <<>> /\ Head(todo[th]).op = "notify"
        /\ UNCHANGED <<registered, authorized_, link, pending>>
    BY <1>2 DEF notify, At, object
  <2>3. order \in Seq(Sessions) /\ m \in Notices
    <3>1. Head(todo[th]) \in Ops
      BY <1>0, <2>2
    <3>2. m \in Notices
      BY <2>2, <3>1, Carried
    <3>3. registered \ {skip} \subseteq Sessions
      BY DEF IInv, Typed
    <3>4. order \in Seq(Sessions)
      BY <2>1, <3>3, Orders
    <3> QED
      BY <3>2, <3>4
  <2> DEFINE first == [i \in DOMAIN order |-> Say("post", order[i], m)]
  <2>4. first \in Seq(Ops) /\ \A i \in 1..Len(first) : first[i].op \in Free
    BY <2>3, Posts
  <2>5. Continue(th, first)
    BY <2>1
  <2>6. \A r \in Sessions : Guarded(r)
    BY <2>2 DEF Guarded
  <2> HIDE DEF first
  <2>7. Settled(first)
    BY <2>4 DEF Settled, Free
  <2> QED
    BY <2>2, <2>4, <2>5, <2>6, <2>7, WatchedStep
<1> QED
  BY <1>1, <1>2, InsertWatched, ListenWatched DEF Step

\* A session that is accepted: its program sets the dead line it needs.
LEMMA AcceptWatched ==
  ASSUME IInv, Watched, NEW th \in Threads, NEW s \in Sessions,
         on_accept(th, s), Run(th, Arrival(s))
  PROVE  Watched'
<1>0. /\ Operations = {"accept", "read", "wait", "close"} /\ Typed
  BY DEF Operations, IInv
<1>1. /\ todo[th] = <<>> /\ UNCHANGED <<registered, authorized_, link>> /\ Complete(s, "accept")
      /\ Arrival(s) \in Seq(Ops)
  BY Arrives DEF on_accept, Idle, object
<1>2. /\ \A r \in Sessions : r # s => pending'[r] = pending[r]
      /\ pending'[s]["wait"] = pending[s]["wait"] /\ pending'[s]["close"] = pending[s]["close"]
  <2> DEFINE new == [pending[s] EXCEPT !["accept"] = pending[s]["accept"] - 1]
  <2>1. new["wait"] = pending[s]["wait"] /\ new["close"] = pending[s]["close"]
    BY <1>0 DEF Typed
  <2>2. pending' = [pending EXCEPT ![s] = new]
    BY <1>1 DEF Complete
  <2> HIDE DEF new
  <2> QED
    BY <1>0, <2>1, <2>2 DEF Typed
<1>3. Becomes(th, Arrival(s))
  BY <1>0, <1>1, RunBecomes
<1>4. \A r \in Sessions : Said(Do("listen", r)) => Said(Do("listen", r))'
  BY <1>1, <1>3 DEF Said, Becomes
<1>5. DeadLineIsSet'
  BY <1>1, <1>2, <1>4 DEF Watched, DeadLineIsSet, IInv, Typed
<1>6. /\ Leads(Arrival(s), {"insert"}, "listen")
      /\ \A r \in Sessions, op \in {"insert", "listen"} :
           r # s => ~Mentions(Arrival(s), Do(op, r))
  <2> DEFINE p == <<Do("insert", s), Say("notify", s, Join(s)), Do("listen", s), Do("end", s)>>
             q == <<Do("insert", s), Do("listen", s), Do("end", s)>>
  <2>1. /\ Len(p) = 4 /\ p[1].op = "insert" /\ p[1].s = s /\ p[2].op = "notify"
        /\ p[3] = Do("listen", s) /\ p[3].op = "listen" /\ p[3].s = s /\ p[4].op = "end"
        /\ Len(q) = 3 /\ q[1].op = "insert" /\ q[1].s = s
        /\ q[2] = Do("listen", s) /\ q[2].op = "listen" /\ q[2].s = s /\ q[3].op = "end"
    BY DEF Do, Say
  <2>2. Arrival(s) = p \/ Arrival(s) = q
    BY ArrivalIs
  <2> HIDE DEF p, q
  <2>3. /\ 1..Len(p) = {1, 2, 3, 4} /\ 3 \in (1 + 1)..Len(p)
        /\ 1..Len(q) = {1, 2, 3} /\ 2 \in (1 + 1)..Len(q)
    BY <2>1
  <2>4. Leads(p, {"insert"}, "listen") /\ Leads(q, {"insert"}, "listen")
    BY <2>1, <2>3 DEF Leads
  <2>5. \A r \in Sessions, op \in {"insert", "listen"} :
          r # s => ~Mentions(p, Do(op, r)) /\ ~Mentions(q, Do(op, r))
    BY <2>1, <2>3 DEF Mentions, Do
  <2> QED
    BY <2>2, <2>4, <2>5
<1>7. \A t \in Threads : Leads(todo'[t], {"insert"}, "listen")
  BY <1>1, <1>6, LeadsContinued DEF Watched
<1>8. \A r \in Sessions : Refused(r) => Refused(r)'
  <2>1. pending[s]["accept"] # 0
    BY <1>0, <1>1 DEF Complete, Typed
  <2>2. \A r \in Sessions, op \in {"insert", "listen"} :
          r # s /\ Said(Do(op, r))' => Said(Do(op, r))
    BY <1>3, <1>6 DEF Said, Becomes
  <2> QED
    BY <1>1, <1>2, <2>1, <2>2 DEF Refused
<1> QED
  BY <1>5, <1>7, <1>8 DEF Watched

LEMMA DueWatched ==
  ASSUME IInv, Watched, NEW s \in Sessions, Due(s)
  PROVE  Watched'
<1>0. /\ Operations = {"accept", "read", "wait", "close"} /\ Typed
  BY DEF Operations, IInv
<1>1. PICK th \in Threads :
        \/ on_accept(th, s) \/ on_read_failed(th, s) \/ check_dead_line(th, s)
        \/ on_close(th, s) \/ on_send(th, s)
  BY DEF Due
<1>2. /\ todo[th] = <<>> /\ UNCHANGED <<registered, authorized_>>
      /\ <<Do("end", s)>> \in Seq(Ops) /\ Settled(<<Do("end", s)>>)
  BY <1>1, LetGo, SettledPrograms DEF on_accept, on_read_failed, check_dead_line, on_close,
     on_send, Idle, object
<1>3. ASSUME NEW o \in Operations, Complete(s, o)
      PROVE  /\ \A r \in Sessions : r # s => pending'[r] = pending[r]
             /\ \A x \in Operations : x # o => pending'[s][x] = pending[s][x]
             /\ pending[s][o] > 0
  <2> DEFINE new == [pending[s] EXCEPT ![o] = pending[s][o] - 1]
  <2>1. \A x \in Operations : x # o => new[x] = pending[s][x]
    BY <1>0 DEF Typed
  <2>2. pending' = [pending EXCEPT ![s] = new] /\ pending[s][o] > 0
    BY <1>3 DEF Complete
  <2> HIDE DEF new
  <2> QED
    BY <1>0, <2>1, <2>2 DEF Typed
<1>4. CASE on_accept(th, s) /\ Run(th, Arrival(s))
  BY <1>4, AcceptWatched
<1>5. CASE /\ Run(th, <<Do("end", s)>>)
           /\ \/ on_accept(th, s) \/ on_read_failed(th, s) \/ check_dead_line(th, s)
              \/ on_close(th, s) \/ on_send(th, s)
  <2>1. \A r \in Sessions : Guarded(r)
    <3>1. CASE on_accept(th, s)
      <4>1. Complete(s, "accept") /\ UNCHANGED <<authorized_, link>> /\ "accept" \in Operations
        BY <1>0, <3>1 DEF on_accept, object
      <4> QED
        BY <1>0, <1>3, <4>1 DEF Guarded
    <3>2. CASE on_read_failed(th, s)
      <4>1. Complete(s, "read") /\ UNCHANGED <<authorized_, link>> /\ "read" \in Operations
        BY <1>0, <3>2 DEF on_read_failed, object
      <4> QED
        BY <1>0, <1>3, <4>1 DEF Guarded
    <3>3. CASE check_dead_line(th, s)
      <4> DEFINE new == [pending[s] EXCEPT !["wait"] = @ - 1,
                                           !["close"] = IF authorized_[s] THEN @ ELSE @ + 1]
      <4>1. pending' = [pending EXCEPT ![s] = new] /\ UNCHANGED <<authorized_, link>>
        BY <1>0, <3>3 DEF check_dead_line, object, Typed
      <4>2. /\ new["accept"] = pending[s]["accept"] /\ pending[s]["close"] \in Nat
            /\ new["close"] = IF authorized_[s] THEN pending[s]["close"] ELSE pending[s]["close"] + 1
        BY <1>0 DEF Typed
      <4> HIDE DEF new
      <4>3. /\ \A r \in Sessions : r # s => pending'[r] = pending[r]
            /\ pending'[s]["accept"] = pending[s]["accept"]
            /\ authorized_[s] \/ pending'[s]["close"] > 0
        BY <1>0, <4>1, <4>2 DEF Typed
      <4> QED
        BY <4>1, <4>3 DEF Guarded
    <3>4. CASE on_close(th, s)
      <4>1. /\ Complete(s, "close") /\ authorized_' = authorized_ /\ "close" \in Operations
            /\ \A r \in Sessions : link'[r] = IF r = s THEN FALSE ELSE link[r]
        BY <1>0, <3>4 DEF on_close, object, Typed
      <4> QED
        BY <1>0, <1>3, <4>1 DEF Guarded
    <3>5. CASE on_send(th, s)
      BY <3>5 DEF on_send, object, Guarded
    <3> QED
      BY <1>5, <3>1, <3>2, <3>3, <3>4, <3>5
  <2> QED
    BY <1>2, <1>5, <2>1, WatchedStep
<1> QED
  BY <1>1, <1>4, <1>5 DEF on_accept, on_read_failed, check_dead_line, on_close, on_send

\* A session that does not exist has no program.
LEMMA Unbegun ==
  ASSUME IInv, NEW s \in Sessions, phase[s] = "none", NEW op \in {"insert", "listen"}
  PROVE  ~Said(Do(op, s))
<1> SUFFICES ASSUME NEW th \in Threads, Mentions(todo[th], Do(op, s)) PROVE FALSE
  BY DEF Said
<1>1. PICK i \in 1..Len(todo[th]) : todo[th][i].op = op /\ todo[th][i].s = s
  BY DEF Mentions, Do
<1>2. PICK j \in (i + 1)..Len(todo[th]) : todo[th][j] = Do("end", s)
  BY <1>1 DEF IInv, Ends
<1>3. Mentions(todo[th], Do("end", s))
  <2>1. j \in 1..Len(todo[th])
    BY <1>2
  <2> QED
    BY <1>2, <2>1 DEF Mentions
<1> QED
  BY <1>3, HeldMentions DEF Referenced, IInv

LEMMA MakeWatched ==
  ASSUME IInv, Watched, NEW th \in Threads, NEW s \in Sessions, NEW ok \in BOOLEAN,
         make_websocket_session(th, s, ok)
  PROVE  Watched'
<1>0. /\ Operations = {"accept", "read", "wait", "close"} /\ Typed
  BY DEF Operations, IInv
<1> DEFINE first == <<Do("drop", s)>>
<1>1. /\ first \in Seq(Ops) /\ Settled(first) /\ Leads(first, {"insert"}, "listen")
  <2>1. first \in Seq(Ops) /\ Settled(first)
    BY LetGo, SettledPrograms
  <2> HIDE DEF first
  <2> QED
    BY <2>1 DEF Settled, Leads
<1>2. /\ todo[th] = <<>> /\ Run(th, first) /\ phase[s] = "none" /\ registered' = registered
      /\ authorized_' = [authorized_ EXCEPT ![s] = ok] /\ link' = [link EXCEPT ![s] = TRUE]
      /\ \A r \in Sessions : r # s => pending'[r] = pending[r]
      /\ UseAuthorization /\ ~AllowDelayedAuthorization /\ ~ok => pending' = pending
  BY <1>0 DEF make_websocket_session, Idle, Expect, Typed
<1> HIDE DEF first
<1>3. Becomes(th, first)
  BY <1>0, <1>1, <1>2, RunBecomes
<1>4. \A r \in Sessions, op \in {"insert", "listen"} : Said(Do(op, r))' <=> Said(Do(op, r))
  BY <1>1, <1>2, <1>3, SettledSays DEF Said, Becomes
<1>5. s \notin registered /\ ~Referenced(s)
  BY <1>2 DEF IInv, RegisteredIsAlive
<1>6. ~Said(Do("insert", s)) /\ ~Said(Do("listen", s))
  BY <1>2, Unbegun
<1>7. DeadLineIsSet'
  <2> SUFFICES ASSUME UseAuthorization, NEW r \in registered
               PROVE  \/ authorized_'[r] \/ ~link'[r]
                      \/ pending'[r]["wait"] > 0 \/ pending'[r]["close"] > 0
                      \/ Said(Do("listen", r))'
    BY <1>2 DEF DeadLineIsSet
  <2>1. r \in Sessions /\ r # s
    BY <1>5 DEF IInv, Typed
  <2>2. authorized_'[r] = authorized_[r] /\ link'[r] = link[r] /\ pending'[r] = pending[r]
    BY <1>0, <1>2, <2>1 DEF Typed
  <2> QED
    BY <1>4, <2>1, <2>2 DEF Watched, DeadLineIsSet
<1>8. \A t \in Threads : Leads(todo'[t], {"insert"}, "listen")
  BY <1>1, <1>2, LeadsContinued DEF Watched
<1>9. ASSUME UseAuthorization, ~AllowDelayedAuthorization, NEW r \in Sessions
      PROVE  Refused(r)'
  <2>1. CASE r = s
    <3>1. authorized_'[s] = ok
      BY <1>0, <1>2 DEF Typed
    <3>2. pending[s]["accept"] = 0
      BY <1>0, <1>5 DEF Referenced, Typed
    <3> QED
      BY <1>2, <1>4, <1>5, <1>6, <1>9, <2>1, <3>1, <3>2 DEF Refused
  <2>2. CASE r # s
    <3>1. authorized_'[r] = authorized_[r] /\ pending'[r] = pending[r]
      BY <1>0, <1>2, <2>2 DEF Typed
    <3> QED
      BY <1>2, <1>4, <1>9, <3>1 DEF Watched, Refused
  <2> QED
    BY <2>1, <2>2
<1> QED
  BY <1>7, <1>8, <1>9 DEF Watched

LEMMA ClientWatched ==
  ASSUME IInv, Watched, NEW s \in Sessions, Client(s)
  PROVE  Watched'
<1>0. /\ Operations = {"accept", "read", "wait", "close"} /\ Typed
  BY DEF Operations, IInv
<1>1. CASE disconnect(s)
  BY <1>0, <1>1 DEF disconnect, object, Watched, DeadLineIsSet, Refused, Said, Typed
<1>2. ASSUME NEW th \in Threads, NEW ok \in BOOLEAN, make_websocket_session(th, s, ok)
      PROVE  Watched'
  BY <1>2, MakeWatched
<1>3. ASSUME NEW th \in Threads,
             \/ on_text(th, s) \/ on_private(th, s)
             \/ \E good \in BOOLEAN : on_client_param(th, s, good)
      PROVE  Watched'
  <2>1. todo[th] = <<>> /\ Complete(s, "read") /\ UNCHANGED <<registered, authorized_, link>>
    BY <1>3 DEF on_text, on_private, on_client_param, Idle, object
  <2>2. \A r \in Sessions : Guarded(r)
    <3> DEFINE new == [pending[s] EXCEPT !["read"] = pending[s]["read"] - 1]
    <3>1. /\ new["accept"] = pending[s]["accept"] /\ new["wait"] = pending[s]["wait"]
          /\ new["close"] = pending[s]["close"]
      BY <1>0 DEF Typed
    <3>2. pending' = [pending EXCEPT ![s] = new]
      BY <2>1 DEF Complete
    <3> HIDE DEF new
    <3> QED
      BY <1>0, <2>1, <3>1, <3>2 DEF Guarded, Typed
  <2>3. PICK p \in Seq(Ops) : Run(th, p \o Again(s)) /\ \A i \in 1..Len(p) : p[i].op \in Free
    <3>1. CASE on_text(th, s)
      <4> DEFINE p == IF Allowed(s) THEN <<Say("notify", nil_uuid, Text)>> ELSE <<>>
      <4>1. p \in Seq(Ops) /\ \A i \in 1..Len(p) : p[i].op = "notify"
        <5>1. CASE Allowed(s)
          <6>1. p \in Seq(Ops) /\ Len(p) = 1 /\ p[1].op = "notify"
            BY <5>1, SilentPrograms DEF Say
          <6> HIDE DEF p
          <6> QED
            BY <6>1
        <5>2. CASE ~Allowed(s)
          BY <5>2, Empty
        <5> QED
          BY <5>1, <5>2
      <4>2. Run(th, p \o Again(s))
        BY <3>1 DEF on_text
      <4> HIDE DEF p
      <4> QED
        BY <4>1, <4>2 DEF Free
    <3>2. CASE on_private(th, s)
      <4> DEFINE p == <<Do("search", s)>>
      <4>1. p \in Seq(Ops) /\ Len(p) = 1 /\ p[1].op = "search"
        BY SilentPrograms DEF Do
      <4>2. Run(th, p \o Again(s))
        BY <3>2 DEF on_private
      <4> HIDE DEF p
      <4> QED
        BY <4>1, <4>2 DEF Free
    <3>3. ASSUME NEW op \in {"authorize", "look_up"},
                 Run(th, <<Do(op, s), Do("raw", s)>> \o Again(s))
          PROVE  \E p \in Seq(Ops) :
                   Run(th, p \o Again(s)) /\ \A i \in 1..Len(p) : p[i].op \in Free
      <4> DEFINE p == <<Do(op, s), Do("raw", s)>>
      <4>1. p \in Seq(Ops) /\ Len(p) = 2 /\ p[1].op = op /\ p[2].op = "raw"
        BY SilentPrograms DEF Do
      <4>2. Run(th, p \o Again(s))
        BY <3>3
      <4> HIDE DEF p
      <4> QED
        BY <4>1, <4>2 DEF Free
    <3>4. ASSUME NEW good \in BOOLEAN, on_client_param(th, s, good)
          PROVE  \E op \in {"authorize", "look_up"} :
                   Run(th, <<Do(op, s), Do("raw", s)>> \o Again(s))
      BY <3>4 DEF on_client_param
    <3> QED
      BY <1>3, <3>1, <3>2, <3>3, <3>4
  <2>4. p \o Again(s) \in Seq(Ops)
    <3>1. Again(s) \in Seq(Ops)
      BY NothingElse
    <3> QED
      BY <3>1, ConcatProperties
  <2>5. Settled(p \o Again(s))
    BY <2>3, SettledPrograms
  <2> QED
    BY <2>1, <2>2, <2>3, <2>4, <2>5, WatchedStep
<1> QED
  BY <1>1, <1>2, <1>3 DEF Client

LEMMA WatchedNext == IInv /\ Watched /\ [Next]_vars => Watched'
<1> SUFFICES ASSUME IInv, Watched, [Next]_vars PROVE Watched'
  OBVIOUS
<1>1. CASE UNCHANGED vars
  BY <1>1 DEF vars, object, Watched, DeadLineIsSet, Refused, Said
<1>2. CASE Next
  BY <1>2, ThreadWatched, DueWatched, ClientWatched DEF Next
<1> QED
  BY <1>1, <1>2

\* What DeadLineEnforced rests on: the dead line is always before a session that
\* joined without authorization.
THEOREM DeadLine == Spec => []DeadLineIsSet
<1>1. Init => Watched
  BY DEF Init, Watched, DeadLineIsSet, Refused, Said, Mentions, Leads, Operations
<1>2. Watched => DeadLineIsSet
  BY DEF Watched
<1> QED
  BY <1>1, <1>2, Invariant, IInvInit, IInvNext, WatchedNext, PTL DEF Spec, Safe

\* With authorization, and without a delay for it, only authorized sessions join.
OnlyAuthorizedJoin ==
  UseAuthorization /\ ~AllowDelayedAuthorization => \A s \in registered : authorized_[s]

\* ... although verify_connection() decides in one thread, and join() is called
\* in another.
THEOREM Admission == Spec => []OnlyAuthorizedJoin
<1>1. Init => Watched
  BY DEF Init, Watched, DeadLineIsSet, Refused, Said, Mentions, Leads, Operations
<1>2. IInv /\ Watched => OnlyAuthorizedJoin
  BY DEF Watched, Refused, OnlyAuthorizedJoin, IInv, Typed
<1> QED
  BY <1>1, <1>2, Invariant, IInvInit, IInvNext, WatchedNext, PTL DEF Spec, Safe

================================================================================
