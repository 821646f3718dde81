------------------------- MODULE SyncDatabaseProofs -------------------------
(***************************************************************************)
(* For any threads, documents, versions and users, and any number of         *)
(* commands, failures and ends of the process: at most one command is in a    *)
(* transaction, what is committed is whole, users written on their own or     *)
(* imported stay, and only marked documents are erased.                      *)
(***************************************************************************)
EXTENDS SyncDatabase, TLAPS

-----------------------------------------------------------------------------
(* The inductive invariant: how far the open transaction has got.            *)

Named ==
  \A t \in Threads :
    /\ \/ job[t].pc \in {"head", "clear", "rows"}
       \/ job[t].pc = "begin" /\ job[t].kind = "put"
       => job[t].of \in Refs
    /\ job[t].pc \in {"head", "clear", "rows"} => job[t].kind = "put"
    /\ job[t].kind = "put" => job[t].ver \in Versions
    /\ job[t].pc \in {"count user", "write user"} => job[t].of \in Users
    /\ job[t].pc = "read refs" => job[t].kind = "import"

\* All is whole but the document at which the transaction of t is.
Progress(t) ==
  LET r == job[t].of
      pc == job[t].pc
  IN /\ pc \in {"head", "create", "fill", "batch", "erase rows", "commit"} =>
          \A q \in Refs : Whole(view, q)
     /\ pc \in {"clear", "rows"} =>
          /\ \A q \in Refs \ {r} : Whole(view, q)
          /\ Stored(view, r) => view.head[r].ver = job[t].ver
     /\ pc = "rows" => view.rows[r] = {} /\ view.marked[r] = {}
     /\ pc = "erase heads" =>
          \A q \in Refs : ~Marked(view, q) => Whole(view, q)
     /\ pc \in {"erase rows", "erase heads"} => view.head = store.head

\* The open transaction has removed marked documents at most, and no user.
Ahead ==
  /\ tx = NoOne => view = store
  /\ store.users \subseteq view.users
  /\ \A r \in Refs :
       Stored(store, r) /\ ~Stored(view, r) => store.head[r].mark

IInv ==
  /\ TypeOK /\ OneTransaction /\ Named /\ Ahead
  /\ \A t \in Threads : tx = t => Progress(t)
  /\ WholeDocuments /\ AloneIsKept

-----------------------------------------------------------------------------
(* Steps of a thread, and what they change in its job.                       *)

Others(t) == \A u \in Threads \ {t} : job'[u] = job[u]

LEMMA IdleIsJob == Idle \in Jobs /\ Idle.pc = "idle" /\ Idle.kind = "none"
BY SyncAssumption DEF Idle, Jobs, Steps, VersionOrNone

\* A number of rows to be written is put into a job.
LEMMA SizedJob ==
  ASSUME NEW j \in Jobs, NEW n \in 0..MaxBatch, NEW rows \in SUBSET Users,
         NEW pc \in Steps
  PROVE  /\ [j EXCEPT !.pc = pc, !.kind = "import", !.left = rows, !.size = n] \in Jobs
         /\ [j EXCEPT !.pc = pc, !.left = rows, !.batch = {}, !.size = n] \in Jobs
<1> DEFINE sizes == 0..MaxBatch
<1>1. n \in sizes
  OBVIOUS
<1>2. Jobs =
        [pc : Steps, kind : {"none", "put", "get", "user", "import", "clean"},
         refs : SUBSET Refs, ver : VersionOrNone, mark : BOOLEAN, exists : BOOLEAN,
         mine : SUBSET (Refs \X Versions), found : SUBSET Comparison,
         left : SUBSET Users, known : SUBSET Users, batch : SUBSET Users,
         size : sizes, of : Refs \cup Devices \cup Users \cup {NoOne}]
  BY DEF Jobs
<1> HIDE DEF sizes
<1> QED
  BY <1>1, <1>2

LEMMA GotoJob ==
  ASSUME TypeOK, NEW t \in Threads, NEW pc \in Steps, Goto(t, pc)
  PROVE  /\ job' \in [Threads -> Jobs] /\ Others(t)
         /\ job'[t].pc = pc /\ job'[t].kind = job[t].kind
         /\ job'[t].of = job[t].of /\ job'[t].ver = job[t].ver
<1>1. job \in [Threads -> Jobs] /\ job[t] \in Jobs
  BY DEF TypeOK
<1>2. job' = [job EXCEPT ![t] = [job[t] EXCEPT !.pc = pc]]
  BY DEF Goto
<1>3. [job[t] EXCEPT !.pc = pc] \in Jobs
  BY <1>1 DEF Jobs
<1> QED
  BY <1>1, <1>2, <1>3 DEF Others, Jobs

LEMMA ReturnJob ==
  ASSUME TypeOK, NEW t \in Threads, Return(t)
  PROVE  /\ job' \in [Threads -> Jobs] /\ Others(t)
         /\ job'[t].pc = "idle" /\ job'[t].kind = "none"
BY IdleIsJob DEF TypeOK, Return, Others

-----------------------------------------------------------------------------
(* What every command does with the connection.                              *)

LEMMA NoOneIsNoThread == NoOne \notin Threads
BY SyncAssumption

LEMMA InTransactionSteps == InTransaction \subseteq Steps /\ "idle" \notin InTransaction
BY DEF InTransaction, Steps

LEMMA KeepProgress ==
  ASSUME NEW u, Progress(u), view' = view, store' = store, job'[u] = job[u]
  PROVE  Progress(u)'
<1>1. \A q \in Refs : /\ Whole(view, q)' = Whole(view, q)
                      /\ Marked(view, q)' = Marked(view, q)
  BY DEF Whole, Stored, Marked
<1>2. \A q : Stored(view, q)' = Stored(view, q)
  BY DEF Stored
<1> QED
  BY <1>1, <1>2 DEF Progress

\* An exception leaves a command: its transaction, if it has one, is undone.
LEMMA Abandon ==
  ASSUME IInv, NEW t \in Threads, RollBack(t), Return(t), UNCHANGED alone,
         commands' \in 0..MaxCommands, failures' \in 0..MaxFailures
  PROVE  IInv'
<1> USE NoOneIsNoThread DEF IInv
<1>1. /\ job' \in [Threads -> Jobs] /\ Others(t)
      /\ job'[t].pc = "idle" /\ job'[t].kind = "none"
  BY ReturnJob
<1>2. TypeOK'
  BY <1>1 DEF TypeOK, RollBack
<1>3. OneTransaction'
  BY <1>1 DEF OneTransaction, RollBack, Others, InTransaction
<1>4. Named'
  <2>1. job'[t].pc = "idle" /\ job'[t].kind = "none" /\ Named
    BY <1>1
  <2>2. \A u \in Threads \ {t} : job'[u] = job[u]
    BY <1>1 DEF Others
  <2> QED
    BY <2>1, <2>2 DEF Named
<1>5. store' = store
  BY DEF RollBack
<1>6. Ahead'
  BY <1>5 DEF Ahead, RollBack, Stored
<1>7. \A u \in Threads : tx' = u => Progress(u)'
  <2> SUFFICES ASSUME NEW u \in Threads, tx' = u PROVE Progress(u)'
    OBVIOUS
  <2>1. u # t /\ tx = u /\ view' = view
    BY DEF RollBack
  <2>2. job'[u] = job[u] /\ Progress(u)
    BY <2>1, <1>1 DEF Others
  <2> QED
    BY <2>1, <2>2, <1>5, KeepProgress
<1>8. WholeDocuments' /\ AloneIsKept'
  BY <1>5 DEF WholeDocuments, AloneIsKept, Whole, Stored
<1> QED
  BY <1>2, <1>3, <1>4, <1>6, <1>7, <1>8

\* The process ends: what is committed is what the new one finds.
LEMMA Restarts ==
  ASSUME IInv, Restart, UNCHANGED alone,
         commands' \in 0..MaxCommands, failures' \in 0..MaxFailures
  PROVE  IInv'
<1> USE NoOneIsNoThread DEF IInv
<1>1. /\ view' = store' /\ tx' = NoOne
      /\ \A t \in Threads : job'[t] = Idle
      /\ job' \in [Threads -> Jobs]
  BY IdleIsJob DEF Restart
<1>2. /\ store' \in Contents /\ store'.head = store.head /\ store'.rows = store.rows
      /\ store'.marked = store.marked /\ store'.users = store.users
  BY DEF Restart, TypeOK, Contents
<1>3. TypeOK'
  BY <1>1, <1>2 DEF TypeOK
<1>4. OneTransaction'
  BY <1>1, IdleIsJob, InTransactionSteps DEF OneTransaction
<1>5. Named'
  BY <1>1, IdleIsJob DEF Named
<1>6. Ahead'
  BY <1>1 DEF Ahead, Stored
<1>7. WholeDocuments'
  BY <1>2 DEF WholeDocuments, Whole, Stored
<1>8. AloneIsKept'
  BY <1>2 DEF AloneIsKept
<1> QED
  BY <1>1, <1>3, <1>4, <1>5, <1>6, <1>7, <1>8

LEMMA Throws ==
  ASSUME IInv, NEW t \in Threads, Throw(t), UNCHANGED alone,
         commands' \in 0..MaxCommands, failures' \in 0..MaxFailures
  PROVE  IInv'
BY Abandon, Restarts DEF Throw

\* A step that leaves the database and the transaction alone.
LEMMA Aside ==
  ASSUME IInv, NEW t \in Threads, UNCHANGED <<store, view, tx, alone>>,
         job' \in [Threads -> Jobs], Others(t),
         job[t].pc \notin InTransaction, job'[t].pc \notin InTransaction,
         job'[t].pc = "begin" /\ job'[t].kind = "put" => job'[t].of \in Refs,
         job'[t].kind = "put" => job'[t].ver \in Versions,
         job'[t].pc \in {"count user", "write user"} => job'[t].of \in Users,
         job'[t].pc = "read refs" => job'[t].kind = "import",
         commands' \in 0..MaxCommands, failures' \in 0..MaxFailures
  PROVE  IInv'
<1> USE NoOneIsNoThread DEF IInv
<1>1. TypeOK'
  BY DEF TypeOK
<1>2. OneTransaction'
  BY DEF OneTransaction, Others
<1>3. Named'
  <2>1. job'[t].pc \notin {"head", "clear", "rows"}
    BY DEF InTransaction
  <2>2. Named
    OBVIOUS
  <2> SUFFICES ASSUME NEW u \in Threads
               PROVE  /\ \/ job'[u].pc \in {"head", "clear", "rows"}
                         \/ job'[u].pc = "begin" /\ job'[u].kind = "put"
                         => job'[u].of \in Refs
                      /\ job'[u].pc \in {"head", "clear", "rows"} => job'[u].kind = "put"
                      /\ job'[u].kind = "put" => job'[u].ver \in Versions
                      /\ job'[u].pc \in {"count user", "write user"} => job'[u].of \in Users
                      /\ job'[u].pc = "read refs" => job'[u].kind = "import"
    BY DEF Named
  <2>3. CASE u = t
    BY <2>1, <2>3
  <2>4. CASE u # t
    <3>1. job'[u] = job[u]
      BY <2>4 DEF Others
    <3> QED
      BY <3>1, <2>2 DEF Named
  <2> QED
    BY <2>3, <2>4
<1>4. Ahead'
  BY DEF Ahead, Stored
<1>5. \A u \in Threads : tx' = u => Progress(u)'
  <2> SUFFICES ASSUME NEW u \in Threads, tx' = u PROVE Progress(u)'
    OBVIOUS
  <2>1. u # t
    BY DEF OneTransaction
  <2>2. job'[u] = job[u] /\ Progress(u)
    BY <2>1 DEF Others
  <2> QED
    BY <2>2, KeepProgress
<1>6. WholeDocuments' /\ AloneIsKept'
  BY DEF WholeDocuments, AloneIsKept, Whole, Stored
<1> QED
  BY <1>1, <1>2, <1>3, <1>4, <1>5, <1>6

\* The transaction of t is opened: all the connection sees is committed.
LEMMA Opens ==
  ASSUME IInv, NEW t \in Threads,
         NEW pc \in {"head", "create", "batch", "erase rows"},
         Begin(t, pc), At(t, "begin"),
         pc = "head" => job[t].kind = "put",
         UNCHANGED <<alone, commands, failures>>
  PROVE  IInv'
<1> USE NoOneIsNoThread DEF IInv
<1>1. CASE tx # NoOne
  <2>1. Throw(t)
    BY <1>1 DEF Begin
  <2> QED
    BY <2>1, Throws DEF TypeOK
<1>2. CASE tx = NoOne
  <2>1. tx' = t /\ Goto(t, pc) /\ view = store /\ UNCHANGED <<store, view>>
    BY <1>2 DEF Begin, Ahead
  <2>2. pc \in Steps /\ pc \in InTransaction
    BY DEF Steps, InTransaction
  <2>3. /\ job' \in [Threads -> Jobs] /\ Others(t) /\ job'[t].pc = pc
        /\ job'[t].of = job[t].of /\ job'[t].kind = job[t].kind
        /\ job'[t].ver = job[t].ver
    BY <2>1, <2>2, GotoJob
  <2>4. TypeOK'
    BY <2>1, <2>3 DEF TypeOK
  <2>5. OneTransaction'
    BY <1>2, <2>1, <2>2, <2>3 DEF OneTransaction, Others
  <2>6. Named'
    BY <2>3 DEF Named, Others, At
  <2>7. Ahead'
    BY <2>1 DEF Ahead, Stored
  <2>8. Progress(t)'
    BY <2>1, <2>3 DEF Progress, WholeDocuments, Whole, Stored, Marked
  <2>9. WholeDocuments' /\ AloneIsKept'
    BY <2>1 DEF WholeDocuments, AloneIsKept, Whole, Stored
  <2> QED
    BY <2>1, <2>4, <2>5, <2>6, <2>7, <2>8, <2>9
<1> QED
  BY <1>1, <1>2

\* The transaction of t is committed: all the connection sees is whole.
LEMMA Closes ==
  ASSUME IInv, NEW t \in Threads, Commit(t), At(t, "commit"),
         job' \in [Threads -> Jobs], Others(t),
         job'[t].pc \in {"idle", "count", "select", "begin"},
         job'[t].pc = "begin" => job'[t].kind # "put",
         job'[t].kind = "put" => job'[t].ver \in Versions,
         alone' \subseteq alone \cup view.users,
         UNCHANGED <<commands, failures>>
  PROVE  IInv'
<1> USE NoOneIsNoThread DEF IInv
<1>1. /\ tx = t /\ tx' = NoOne /\ store' = view /\ view' = view
  BY DEF OneTransaction, Commit, At, InTransaction
<1>2. \A r \in Refs : Whole(view, r)
  BY <1>1 DEF Progress, At
<1>3. TypeOK'
  <2>1. view.users \subseteq Users
    BY DEF TypeOK, Contents
  <2> QED
    BY <1>1, <2>1 DEF TypeOK
<1>4. OneTransaction'
  BY <1>1 DEF OneTransaction, Others, InTransaction
<1>5. Named'
  BY DEF Named, Others
<1>6. Ahead'
  BY <1>1 DEF Ahead, Stored
<1>7. WholeDocuments'
  BY <1>1, <1>2 DEF WholeDocuments, Whole, Stored
<1>8. AloneIsKept'
  BY <1>1 DEF AloneIsKept, Ahead
<1> QED
  BY <1>1, <1>3, <1>4, <1>5, <1>6, <1>7, <1>8

\* A statement inside the transaction of t.
LEMMA WorksOn ==
  ASSUME IInv, NEW t \in Threads, NEW pc \in InTransaction, tx = t,
         UNCHANGED <<store, tx, alone, commands, failures>>,
         job' \in [Threads -> Jobs], Others(t), job'[t].pc = pc,
         job'[t].of = job[t].of, job'[t].kind = job[t].kind,
         job'[t].ver = job[t].ver,
         pc \in {"clear", "rows"} => job[t].of \in Refs /\ job[t].kind = "put",
         view' \in Contents, view.users \subseteq view'.users,
         \A r \in Refs : Stored(store, r) /\ ~Stored(view', r) => store.head[r].mark,
         Progress(t)', pc # "head"
  PROVE  IInv'
<1> USE NoOneIsNoThread DEF IInv
<1>1. TypeOK'
  BY DEF TypeOK
<1>2. OneTransaction'
  BY DEF OneTransaction, Others
<1>3. Named'
  <2>1. pc \notin {"begin", "count user", "write user", "read refs"}
    BY DEF InTransaction
  <2> QED
    BY <2>1 DEF Named, Others
<1>4. Ahead'
  BY DEF Ahead, Stored
<1>5. WholeDocuments' /\ AloneIsKept'
  BY DEF WholeDocuments, AloneIsKept, Whole, Stored
<1> QED
  BY <1>1, <1>2, <1>3, <1>4, <1>5

LEMMA Works ==
  ASSUME IInv, NEW t \in Threads, NEW pc \in InTransaction, tx = t,
         UNCHANGED <<store, tx, alone, commands, failures>>,
         Goto(t, pc),
         pc \in {"clear", "rows"} => job[t].of \in Refs /\ job[t].kind = "put",
         view' \in Contents, view.users \subseteq view'.users,
         \A r \in Refs : Stored(store, r) /\ ~Stored(view', r) => store.head[r].mark,
         Progress(t)', pc # "head"
  PROVE  IInv'
<1>1. TypeOK
  BY DEF IInv
<1>2. /\ job' \in [Threads -> Jobs] /\ Others(t) /\ job'[t].pc = pc
      /\ job'[t].of = job[t].of /\ job'[t].kind = job[t].kind
      /\ job'[t].ver = job[t].ver
  BY <1>1, InTransactionSteps, GotoJob
<1> QED
  BY <1>2, WorksOn

\* A statement outside of a transaction of its own, on no document: it falls
\* into the transaction of another thread, or is committed at once.
LEMMA Joins ==
  ASSUME IInv, NEW t \in Threads, job[t].pc \notin InTransaction,
         NEW c \in Contents, Write(c), Return(t),
         c.head = view.head, c.rows = view.rows, c.marked = view.marked,
         view.users \subseteq c.users,
         \/ alone' = alone
         \/ tx = NoOne /\ alone' \subseteq c.users,
         UNCHANGED <<tx, commands, failures>>
  PROVE  IInv'
<1> USE NoOneIsNoThread DEF IInv
<1>1. /\ job' \in [Threads -> Jobs] /\ Others(t)
      /\ job'[t].pc = "idle" /\ job'[t].kind = "none"
  BY ReturnJob
<1>2. /\ view' = c
      /\ tx = NoOne => view = store /\ store' = c
      /\ tx # NoOne => store' = store
  BY DEF Write, Ahead
<1>3. store'.head = store.head /\ store'.rows = store.rows /\ store'.marked = store.marked
  BY <1>2
<1>4. TypeOK'
  <2>1. c.users \subseteq Users
    BY DEF Contents
  <2> QED
    BY <1>1, <1>2, <2>1 DEF TypeOK
<1>5. OneTransaction'
  BY <1>1, InTransactionSteps DEF OneTransaction, Others
<1>6. Named'
  BY <1>1 DEF Named, Others
<1>7. Ahead'
  BY <1>2, <1>3 DEF Ahead, Stored
<1>8. \A u \in Threads : tx' = u => Progress(u)'
  <2> SUFFICES ASSUME NEW u \in Threads, tx' = u PROVE Progress(u)'
    OBVIOUS
  <2>1. /\ u # t /\ tx = u /\ store' = store /\ view' = c
    BY <1>2 DEF OneTransaction
  <2>2. job'[u] = job[u] /\ Progress(u)
    BY <2>1, <1>1 DEF Others
  <2>3. \A q \in Refs : /\ Whole(view, q) => Whole(c, q)
                        /\ Marked(view, q) <=> Marked(c, q)
    BY DEF Whole, Stored, Marked
  <2>4. \A q : Stored(view, q) <=> Stored(c, q)
    BY DEF Stored
  <2> QED
    BY <2>1, <2>2, <2>3, <2>4 DEF Progress
<1>9. WholeDocuments'
  BY <1>3 DEF WholeDocuments, Whole, Stored
<1>10. AloneIsKept'
  <2>1. store.users \subseteq store'.users
    BY <1>2
  <2> QED
    BY <2>1, <1>2 DEF AloneIsKept
<1> QED
  BY <1>4, <1>5, <1>6, <1>7, <1>8, <1>9, <1>10

-----------------------------------------------------------------------------
(* The commands: what each step does, in the terms of the lemmas above.      *)

LEMMA StartJob ==
  ASSUME TypeOK, NEW t \in Threads, NEW j \in Jobs, Start(t, j)
  PROVE  /\ job' \in [Threads -> Jobs] /\ Others(t) /\ job'[t] = j
         /\ job[t].pc = "idle"
         /\ UNCHANGED <<store, view, tx, alone>>
         /\ commands' \in 0..MaxCommands /\ failures' \in 0..MaxFailures
<1>1. commands' \in 0..MaxCommands
  BY SyncAssumption DEF Start, TypeOK
<1> QED
  BY <1>1 DEF Start, TypeOK, Others, At

LEMMA PutIsJob ==
  ASSUME NEW objects \in SUBSET Refs, NEW v \in Versions, NEW m \in BOOLEAN
  PROVE  [Idle EXCEPT !.pc = "count", !.kind = "put",
                      !.refs = objects, !.ver = v, !.mark = m] \in Jobs
BY IdleIsJob DEF Jobs, Steps, VersionOrNone

LEMMA StartPut ==
  ASSUME IInv, NEW t \in Threads, NEW objects \in SUBSET Refs,
         NEW v \in Versions, NEW m \in BOOLEAN,
         Start(t, [Idle EXCEPT !.pc = "count", !.kind = "put",
                               !.refs = objects, !.ver = v, !.mark = m])
  PROVE  IInv'
<1> DEFINE j == [Idle EXCEPT !.pc = "count", !.kind = "put",
                             !.refs = objects, !.ver = v, !.mark = m]
<1>1. j \in Jobs
  BY PutIsJob
<1>2. j.pc = "count" /\ j.ver = v
  BY DEF Idle
<1> HIDE DEF j
<1>3. Start(t, j)
  BY DEF j
<1>4. TypeOK
  BY DEF IInv
<1>5. /\ job' \in [Threads -> Jobs] /\ Others(t) /\ job'[t] = j
      /\ job[t].pc = "idle"
      /\ UNCHANGED <<store, view, tx, alone>>
      /\ commands' \in 0..MaxCommands /\ failures' \in 0..MaxFailures
  BY <1>1, <1>3, <1>4, StartJob
<1>6. "idle" \notin InTransaction /\ "count" \notin InTransaction
  BY DEF InTransaction
<1> QED
  BY <1>2, <1>5, <1>6, Aside

LEMMA TableIsOfVersions ==
  ASSUME NEW d \in Devices, NEW mine, mine \in Tables(d)
  PROVE  mine \subseteq Refs \X Versions
<1>1. PICK s \in SUBSET {r \in Refs : DeviceOf[r] = d} :
        mine \in {{<<r, f[r]>> : r \in s} : f \in [s -> Versions]}
  BY DEF Tables
<1>2. PICK f \in [s -> Versions] : mine = {<<r, f[r]>> : r \in s}
  BY <1>1
<1> QED
  BY <1>2

LEMMA StartOther ==
  ASSUME IInv, NEW t \in Threads,
         SyncGet(t) \/ InsertOrUpdateUser(t) \/ ImportFile(t) \/ Clean(t)
  PROVE  IInv'
<1>1. PICK j \in Jobs : /\ Start(t, j) /\ j.kind # "put"
                        /\ j.pc \in {"begin", "count user", "read refs"}
                        /\ j.pc = "count user" => j.of \in Users
                        /\ j.pc = "read refs" => j.kind = "import"
  <2>1. CASE SyncGet(t)
    <3> PICK d \in Devices : \E mine \in Tables(d) :
          Start(t, [Idle EXCEPT !.pc = "begin", !.kind = "get", !.of = d,
                                !.mine = mine])
      BY <2>1 DEF SyncGet
    <3>1. PICK mine \in Tables(d) :
            Start(t, [Idle EXCEPT !.pc = "begin", !.kind = "get", !.of = d,
                                  !.mine = mine])
      OBVIOUS
    <3>2. mine \subseteq Refs \X Versions
      BY TableIsOfVersions
    <3>3. [Idle EXCEPT !.pc = "begin", !.kind = "get", !.of = d,
                       !.mine = mine] \in Jobs
      BY <3>2, IdleIsJob DEF Jobs, Steps, VersionOrNone
    <3>4. /\ [Idle EXCEPT !.pc = "begin", !.kind = "get", !.of = d,
                          !.mine = mine].pc = "begin"
          /\ [Idle EXCEPT !.pc = "begin", !.kind = "get", !.of = d,
                          !.mine = mine].kind = "get"
      BY DEF Idle
    <3> QED
      BY <3>1, <3>3, <3>4
  <2>2. CASE InsertOrUpdateUser(t)
    <3>1. PICK u \in Users :
            Start(t, [Idle EXCEPT !.pc = "count user", !.kind = "user", !.of = u])
      BY <2>2 DEF InsertOrUpdateUser
    <3>2. [Idle EXCEPT !.pc = "count user", !.kind = "user", !.of = u] \in Jobs
      BY IdleIsJob DEF Jobs, Steps, VersionOrNone
    <3>3. /\ [Idle EXCEPT !.pc = "count user", !.kind = "user", !.of = u].pc = "count user"
          /\ [Idle EXCEPT !.pc = "count user", !.kind = "user", !.of = u].kind = "user"
          /\ [Idle EXCEPT !.pc = "count user", !.kind = "user", !.of = u].of = u
      BY DEF Idle
    <3> QED
      BY <3>1, <3>2, <3>3
  <2>3. CASE Clean(t)
    <3>1. Start(t, [Idle EXCEPT !.pc = "begin", !.kind = "clean"])
      BY <2>3 DEF Clean
    <3>2. [Idle EXCEPT !.pc = "begin", !.kind = "clean"] \in Jobs
      BY IdleIsJob DEF Jobs, Steps, VersionOrNone
    <3>3. /\ [Idle EXCEPT !.pc = "begin", !.kind = "clean"].pc = "begin"
          /\ [Idle EXCEPT !.pc = "begin", !.kind = "clean"].kind = "clean"
      BY DEF Idle
    <3> QED
      BY <3>1, <3>2, <3>3
  <2>4. CASE ImportFile(t)
    <3>1. PICK file \in SUBSET Users :
            Start(t, [Idle EXCEPT !.pc = "read refs", !.kind = "import",
                                  !.left = file, !.size = MaxBatch - 1])
      BY <2>4 DEF ImportFile
    <3>2. [Idle EXCEPT !.pc = "read refs", !.kind = "import",
                       !.left = file, !.size = MaxBatch - 1] \in Jobs
      <4>1. MaxBatch - 1 \in 0..MaxBatch
        BY SyncAssumption
      <4> QED
        BY <4>1, IdleIsJob, SizedJob DEF Steps
    <3>3. /\ [Idle EXCEPT !.pc = "read refs", !.kind = "import",
                          !.left = file, !.size = MaxBatch - 1].pc = "read refs"
          /\ [Idle EXCEPT !.pc = "read refs", !.kind = "import",
                          !.left = file, !.size = MaxBatch - 1].kind = "import"
      BY DEF Idle
    <3> QED
      BY <3>1, <3>2, <3>3
  <2> QED
    BY <2>1, <2>2, <2>3, <2>4
<1>2. TypeOK
  BY DEF IInv
<1>3. /\ job' \in [Threads -> Jobs] /\ Others(t) /\ job'[t] = j
      /\ job[t].pc = "idle"
      /\ UNCHANGED <<store, view, tx, alone>>
      /\ commands' \in 0..MaxCommands /\ failures' \in 0..MaxFailures
  BY <1>1, <1>2, StartJob
<1>4. InTransaction \cap {"idle", "begin", "count user", "read refs"} = {}
  BY DEF InTransaction
<1> QED
  BY <1>1, <1>3, <1>4, Aside

LEMMA Counts ==
  ASSUME IInv, NEW t \in Threads, CountObject(t) \/ CountUser(t)
  PROVE  IInv'
<1> USE DEF IInv
<1>1. job[t] \in Jobs /\ job \in [Threads -> Jobs]
  BY DEF TypeOK
<1>2. InTransaction \cap {"begin", "count", "count user", "write user"} = {}
  BY DEF InTransaction
<1>3. commands' \in 0..MaxCommands /\ failures' \in 0..MaxFailures
  BY DEF CountObject, CountUser, TypeOK
<1>4. CASE CountObject(t)
  <2>1. PICK r \in job[t].refs :
          job' = [job EXCEPT ![t].pc = "begin", ![t].of = r,
                             ![t].exists = Stored(view, r)]
    BY <1>4 DEF CountObject
  <2>2. r \in Refs /\ Stored(view, r) \in BOOLEAN
    BY <1>1 DEF Jobs, Stored
  <2>3. job' = [job EXCEPT ![t] = [job[t] EXCEPT !.pc = "begin", !.of = r,
                                                 !.exists = Stored(view, r)]]
    BY <2>1
  <2>4. [job[t] EXCEPT !.pc = "begin", !.of = r, !.exists = Stored(view, r)] \in Jobs
    BY <1>1, <2>2 DEF Jobs, Steps
  <2>5. /\ job' \in [Threads -> Jobs] /\ Others(t)
        /\ job'[t].pc = "begin" /\ job'[t].of = r
        /\ job'[t].kind = job[t].kind /\ job'[t].ver = job[t].ver
    BY <1>1, <2>3, <2>4 DEF Others, Jobs
  <2>6. job[t].pc = "count" /\ UNCHANGED <<store, view, tx, alone>>
    BY <1>4 DEF CountObject, At
  <2> QED
    BY <1>2, <1>3, <2>2, <2>5, <2>6, Aside DEF Named
<1>5. CASE CountUser(t)
  <2> DEFINE e == job[t].of \in view.users
  <2>0. job' = [job EXCEPT ![t].pc = "write user", ![t].exists = e]
    BY <1>5 DEF CountUser
  <2>b. e \in BOOLEAN
    OBVIOUS
  <2> HIDE DEF e
  <2>1. /\ job' = [job EXCEPT ![t] = [job[t] EXCEPT !.pc = "write user", !.exists = e]]
        /\ e \in BOOLEAN
    BY <2>0, <2>b
  <2>2. [job[t] EXCEPT !.pc = "write user", !.exists = e] \in Jobs
    BY <1>1, <2>1 DEF Jobs, Steps
  <2>3. /\ job' \in [Threads -> Jobs] /\ Others(t)
        /\ job'[t].pc = "write user" /\ job'[t].of = job[t].of
        /\ job'[t].kind = job[t].kind /\ job'[t].ver = job[t].ver
    BY <1>1, <2>1, <2>2 DEF Others, Jobs
  <2>4. job[t].pc = "count user" /\ UNCHANGED <<store, view, tx, alone>>
    BY <1>5 DEF CountUser, At
  <2> QED
    BY <1>2, <1>3, <2>3, <2>4, Aside DEF Named
<1> QED
  BY <1>4, <1>5

LEMMA Begins ==
  ASSUME IInv, NEW t \in Threads,
         BeginObject(t) \/ BeginTable(t) \/ BeginBatch(t) \/ BeginErase(t)
  PROVE  IInv'
<1>1. CASE BeginObject(t)
  BY <1>1, Opens DEF BeginObject, At
<1>2. CASE BeginTable(t)
  BY <1>2, Opens DEF BeginTable, At
<1>3. CASE BeginErase(t)
  BY <1>3, Opens DEF BeginErase, At
<1>4. CASE BeginBatch(t)
  BY <1>4, Opens DEF BeginBatch, At
<1> QED
  BY <1>1, <1>2, <1>3, <1>4

LEMMA Reads ==
  ASSUME IInv, NEW t \in Threads, SelectDiscrepancy(t) \/ ReadObject(t)
  PROVE  IInv'
<1> USE DEF IInv
<1>1. job[t] \in Jobs /\ job \in [Threads -> Jobs]
  BY DEF TypeOK
<1>2. InTransaction \cap {"select", "objects", "drop", "idle"} = {}
  BY DEF InTransaction
<1>3. /\ commands' \in 0..MaxCommands /\ failures' \in 0..MaxFailures
      /\ UNCHANGED <<store, view, tx, alone>>
      /\ job[t].pc \in {"select", "objects"}
  BY DEF SelectDiscrepancy, ReadObject, TypeOK, At
<1>4. CASE Return(t)
  BY <1>2, <1>3, <1>4, ReturnJob, Aside
<1>5. CASE ~Return(t)
  <2>1. PICK j \in Jobs : /\ job' = [job EXCEPT ![t] = j]
                          /\ j.pc \in {"objects", "drop"}
                          /\ j.kind = job[t].kind /\ j.ver = job[t].ver
    <3>1. CASE SelectDiscrepancy(t)
      <4> DEFINE found == Discrepancy(view, job[t].of)
                 refs == {c.ref : c \in {x \in found : x.ver1 > x.ver2}}
      <4>1. found \subseteq Comparison
        BY DEF Discrepancy
      <4>2. refs \subseteq Refs
        BY <4>1 DEF Comparison
      <4>3. job' = [job EXCEPT ![t] = [job[t] EXCEPT !.pc = "objects", !.found = found,
                                                     !.refs = refs]]
        BY <1>5, <3>1 DEF SelectDiscrepancy
      <4> HIDE DEF found, refs
      <4>4. [job[t] EXCEPT !.pc = "objects", !.found = found, !.refs = refs] \in Jobs
        BY <1>1, <4>1, <4>2 DEF Jobs, Steps
      <4> QED
        BY <1>1, <4>3, <4>4 DEF Jobs
    <3>2. CASE ReadObject(t) /\ job[t].refs = {}
      <4>1. job' = [job EXCEPT ![t] = [job[t] EXCEPT !.pc = "drop"]]
        BY <3>2 DEF ReadObject, Goto
      <4>2. [job[t] EXCEPT !.pc = "drop"] \in Jobs
        BY <1>1 DEF Jobs, Steps
      <4> QED
        BY <1>1, <4>1, <4>2 DEF Jobs
    <3>3. CASE ReadObject(t) /\ job[t].refs # {}
      <4>1. PICK r \in job[t].refs :
              job' = [job EXCEPT ![t] = [job[t] EXCEPT !.refs = job[t].refs \ {r}]]
        BY <3>3 DEF ReadObject
      <4>2. [job[t] EXCEPT !.refs = job[t].refs \ {r}] \in Jobs
        BY <1>1 DEF Jobs
      <4>3. job[t].pc = "objects"
        BY <3>3 DEF ReadObject, At
      <4> QED
        BY <1>1, <4>1, <4>2, <4>3 DEF Jobs
    <3> QED
      BY <3>1, <3>2, <3>3
  <2>2. job' \in [Threads -> Jobs] /\ Others(t) /\ job'[t] = j
    BY <1>1, <2>1 DEF Others
  <2>3. job'[t].kind = "put" => job'[t].ver \in Versions
    BY <2>1, <2>2 DEF Named
  <2> QED
    BY <1>2, <1>3, <2>1, <2>2, <2>3, Aside
<1> QED
  BY <1>4, <1>5

LEMMA ReadRefsStep ==
  ASSUME IInv, NEW t \in Threads, ReadRefs(t)
  PROVE  IInv'
<1> USE DEF IInv
<1>1. job[t] \in Jobs /\ job \in [Threads -> Jobs] /\ view.users \in SUBSET Users
  BY DEF TypeOK, Contents
<1>2. InTransaction \cap {"read refs", "begin"} = {}
  BY DEF InTransaction
<1>3. /\ commands' \in 0..MaxCommands /\ failures' \in 0..MaxFailures
      /\ UNCHANGED <<store, view, tx, alone>> /\ job[t].pc = "read refs"
  BY DEF ReadRefs, TypeOK, At
<1>4. job' = [job EXCEPT ![t] = [job[t] EXCEPT !.pc = "begin", !.known = view.users]]
  BY DEF ReadRefs
<1>5. [job[t] EXCEPT !.pc = "begin", !.known = view.users] \in Jobs
  BY <1>1 DEF Jobs, Steps
<1>6. /\ job' \in [Threads -> Jobs] /\ Others(t)
      /\ job'[t].pc = "begin" /\ job'[t].kind = job[t].kind
      /\ job'[t].ver = job[t].ver
  BY <1>1, <1>4, <1>5 DEF Others, Jobs
<1>7. job[t].kind # "put"
  BY <1>3 DEF Named
<1> QED
  BY <1>2, <1>3, <1>6, <1>7, Aside

LEMMA WorksGoto ==
  ASSUME IInv, NEW t \in Threads, NEW pc \in InTransaction, Goto(t, pc)
  PROVE  /\ job'[t].pc = pc /\ job'[t].of = job[t].of
         /\ job'[t].ver = job[t].ver
BY InTransactionSteps, GotoJob DEF IInv

LEMMA WriteHeadStep ==
  ASSUME IInv, NEW t \in Threads, WriteHead(t)
  PROVE  IInv'
<1> PICK r : r = job[t].of
  OBVIOUS
<1> DEFINE h == [ver |-> job[t].ver, mark |-> job[t].mark]
<1> USE NoOneIsNoThread DEF IInv
<1>1. /\ job[t].pc = "head" /\ UNCHANGED <<alone, commands, failures>>
      /\ tx = t /\ Progress(t)
  BY DEF WriteHead, At, OneTransaction, InTransaction
<1>2. r \in Refs /\ job[t].ver \in Versions /\ h \in Heads /\ job[t].kind = "put"
  BY <1>1 DEF Named, TypeOK, Jobs, Heads
<1>3. \A q \in Refs : Whole(view, q)
  BY <1>1 DEF Progress
<1>4. "clear" \in InTransaction
  BY DEF InTransaction
<1>5. CASE RollBack(t) /\ Return(t)
  BY <1>1, <1>5, Abandon DEF TypeOK
<1>6. CASE /\ Goto(t, "clear") /\ UNCHANGED <<store, tx>>
           /\ \/ view' = view /\ ~Stored(view, r)
              \/ view' = [view EXCEPT !.head[r] = h]
  <2>1. /\ job'[t].pc = "clear" /\ job'[t].of = r
        /\ job'[t].ver = job[t].ver
    BY <1>4, <1>6, WorksGoto
  <2>2. view \in Contents
    BY DEF TypeOK
  <2>3. /\ view' \in Contents /\ view'.users = view.users
        /\ view'.rows = view.rows /\ view'.marked = view.marked
        /\ \A q \in Refs \ {r} : view'.head[q] = view.head[q]
        /\ Stored(view', r) => view'.head[r] = h
    BY <1>2, <1>6, <2>2 DEF Contents, Stored
  <2>4. Stored(view, r) => Stored(view', r)
    BY <1>2, <1>6, <2>2 DEF Contents, Stored, Absent, NoVersion, Versions
  <2>5. Progress(t)'
    <3>1. \A q \in Refs \ {r} : Whole(view, q)'
      BY <1>3, <2>3 DEF Whole, Stored
    <3>2. Stored(view, r)' => view'.head[r].ver = job[t].ver
      BY <2>3 DEF Stored
    <3> QED
      BY <2>1, <3>1, <3>2 DEF Progress
  <2>6. \A q \in Refs : Stored(store, q) /\ ~Stored(view', q) => store.head[q].mark
    <3>1. \A q \in Refs : Stored(view, q) => Stored(view', q)
      BY <2>3, <2>4 DEF Stored
    <3> QED
      BY <3>1 DEF Ahead
  <2> QED
    BY <1>1, <1>2, <1>4, <1>6, <2>3, <2>5, <2>6, Works
<1> QED
  BY <1>1, <1>5, <1>6 DEF WriteHead, Write

LEMMA ClearRowsStep ==
  ASSUME IInv, NEW t \in Threads, ClearRows(t)
  PROVE  IInv'
<1> PICK r : r = job[t].of
  OBVIOUS
<1> USE NoOneIsNoThread DEF IInv
<1>1. /\ job[t].pc = "clear" /\ UNCHANGED <<store, tx, alone, commands, failures>>
      /\ Goto(t, "rows") /\ tx = t /\ Progress(t)
      /\ view' = [view EXCEPT !.rows[r] = {}, !.marked[r] = {}]
  BY DEF ClearRows, At, OneTransaction, InTransaction, Write
<1>2. r \in Refs /\ job[t].kind = "put" /\ view \in Contents
  BY <1>1 DEF Named, TypeOK
<1>3. "rows" \in InTransaction
  BY DEF InTransaction
<1>4. /\ job'[t].pc = "rows" /\ job'[t].of = r /\ job'[t].ver = job[t].ver
  BY <1>1, <1>3, WorksGoto
<1>5. /\ view' \in Contents /\ view'.users = view.users /\ view'.head = view.head
      /\ view'.rows[r] = {} /\ view'.marked[r] = {}
      /\ \A q \in Refs \ {r} : /\ view'.rows[q] = view.rows[q]
                               /\ view'.marked[q] = view.marked[q]
  BY <1>1, <1>2 DEF Contents
<1>6. Progress(t)'
  <2> HIDE DEF IInv
  <2>0. /\ \A q \in Refs \ {r} : Whole(view, q)
        /\ Stored(view, r) => view.head[r].ver = job[t].ver
    BY <1>1 DEF Progress
  <2>1. \A q \in Refs \ {r} : Whole(view, q)'
    BY <2>0, <1>5 DEF Whole, Stored
  <2>2. Stored(view, r)' => view'.head[r].ver = job[t].ver
    BY <2>0, <1>5 DEF Stored
  <2> QED
    BY <1>4, <1>5, <2>1, <2>2 DEF Progress
<1>7. \A q \in Refs : Stored(store, q) /\ ~Stored(view', q) => store.head[q].mark
  BY <1>5 DEF Ahead, Stored
<1> QED
  BY <1>1, <1>2, <1>3, <1>5, <1>6, <1>7, Works

LEMMA InsertRowsStep ==
  ASSUME IInv, NEW t \in Threads, InsertRows(t)
  PROVE  IInv'
<1> PICK r : r = job[t].of
  OBVIOUS
<1> USE NoOneIsNoThread DEF IInv
<1>1. /\ job[t].pc = "rows" /\ UNCHANGED <<store, tx, alone, commands, failures>>
      /\ Goto(t, "commit") /\ tx = t /\ Progress(t)
      /\ view' = [view EXCEPT !.rows[r] = @ \cup {job[t].ver},
                              !.marked[r] = @ \cup {job[t].ver}]
  BY DEF InsertRows, At, OneTransaction, InTransaction, Write
<1>2. /\ r \in Refs /\ job[t].kind = "put" /\ job[t].ver \in Versions
      /\ view \in Contents
  BY <1>1 DEF Named, TypeOK
<1>3. "commit" \in InTransaction
  BY DEF InTransaction
<1>4. job'[t].pc = "commit"
  BY <1>1, <1>3, WorksGoto
<1>5. view.rows[r] = {} /\ view.marked[r] = {}
  BY <1>1 DEF Progress
<1>6. /\ view' \in Contents /\ view'.users = view.users /\ view'.head = view.head
      /\ view'.rows[r] = {job[t].ver} /\ view'.marked[r] = {job[t].ver}
      /\ \A q \in Refs \ {r} : /\ view'.rows[q] = view.rows[q]
                               /\ view'.marked[q] = view.marked[q]
  BY <1>1, <1>2, <1>5 DEF Contents
<1>7. Progress(t)'
  <2> HIDE DEF IInv
  <2>0. /\ \A q \in Refs \ {r} : Whole(view, q)
        /\ Stored(view, r) => view.head[r].ver = job[t].ver
    BY <1>1 DEF Progress
  <2>1. \A q \in Refs \ {r} : Whole(view, q)'
    BY <2>0, <1>6 DEF Whole, Stored
  <2>2. Whole(view, r)'
    BY <2>0, <1>6 DEF Whole, Stored
  <2> QED
    BY <1>4, <2>1, <2>2 DEF Progress
<1>8. \A q \in Refs : Stored(store, q) /\ ~Stored(view', q) => store.head[q].mark
  BY <1>6 DEF Ahead, Stored
<1> QED
  BY <1>1, <1>3, <1>6, <1>7, <1>8, Works

LEMMA CreateTableStep ==
  ASSUME IInv, NEW t \in Threads, CreateTable(t)
  PROVE  IInv'
<1> USE NoOneIsNoThread DEF IInv
<1>1. /\ job[t].pc = "create" /\ UNCHANGED <<store, tx, alone, commands, failures>>
      /\ Goto(t, "fill") /\ tx = t /\ Progress(t) /\ view \in Contents
      /\ view' = [view EXCEPT !.temp = TRUE]
  BY DEF CreateTable, At, OneTransaction, InTransaction, Write, TypeOK
<1>2. "fill" \in InTransaction
  BY DEF InTransaction
<1>3. /\ view' \in Contents /\ view'.users = view.users /\ view'.head = view.head
      /\ view'.rows = view.rows /\ view'.marked = view.marked
  BY <1>1 DEF Contents
<1>4. Progress(t)'
  <2> HIDE DEF IInv
  <2>1. \A q \in Refs : Whole(view, q)
    BY <1>1 DEF Progress
  <2>2. \A q \in Refs : Whole(view, q)'
    BY <2>1, <1>3 DEF Whole, Stored
  <2>3. job'[t].pc = "fill"
    BY <1>1, <1>2, WorksGoto
  <2> QED
    BY <2>2, <2>3 DEF Progress
<1>5. \A q \in Refs : Stored(store, q) /\ ~Stored(view', q) => store.head[q].mark
  BY <1>3 DEF Ahead, Stored
<1> QED
  BY <1>1, <1>2, <1>3, <1>4, <1>5, Works

LEMMA FillTableStep ==
  ASSUME IInv, NEW t \in Threads, FillTable(t)
  PROVE  IInv'
<1> USE NoOneIsNoThread DEF IInv
<1>1. /\ job[t].pc = "fill" /\ UNCHANGED <<alone, commands, failures>>
      /\ tx = t /\ Progress(t) /\ view \in Contents
      /\ job[t].mine \subseteq Refs \X Versions
  BY DEF FillTable, At, OneTransaction, InTransaction, TypeOK, Jobs
<1>2. CASE RollBack(t) /\ Return(t)
  BY <1>1, <1>2, Abandon DEF TypeOK
<1>3. CASE /\ Goto(t, "commit") /\ UNCHANGED <<store, tx>>
           /\ view' = [view EXCEPT !.tempRows = @ \cup job[t].mine]
  <2>1. "commit" \in InTransaction
    BY DEF InTransaction
  <2>2. /\ view' \in Contents /\ view'.users = view.users /\ view'.head = view.head
        /\ view'.rows = view.rows /\ view'.marked = view.marked
    BY <1>1, <1>3 DEF Contents
  <2>3. Progress(t)'
    <3> HIDE DEF IInv
    <3>1. \A q \in Refs : Whole(view, q)
      BY <1>1 DEF Progress
    <3>2. \A q \in Refs : Whole(view, q)'
      BY <3>1, <2>2 DEF Whole, Stored
    <3>3. job'[t].pc = "commit"
      BY <1>3, <2>1, WorksGoto
    <3> QED
      BY <3>2, <3>3 DEF Progress
  <2>4. \A q \in Refs : Stored(store, q) /\ ~Stored(view', q) => store.head[q].mark
    BY <2>2 DEF Ahead, Stored
  <2> QED
    BY <1>1, <1>3, <2>1, <2>2, <2>3, <2>4, Works
<1> QED
  BY <1>1, <1>2, <1>3 DEF FillTable, Write

LEMMA WriteBatchStep ==
  ASSUME IInv, NEW t \in Threads, WriteBatch(t)
  PROVE  IInv'
<1> USE NoOneIsNoThread DEF IInv
<1>1. /\ job[t].pc = "batch" /\ UNCHANGED <<alone, commands, failures>>
      /\ tx = t /\ Progress(t) /\ view \in Contents
      /\ job[t] \in Jobs /\ job \in [Threads -> Jobs]
  BY DEF WriteBatch, At, OneTransaction, InTransaction, TypeOK
<1>2. CASE Throw(t)
  BY <1>1, <1>2, Throws DEF TypeOK
<1>3. ASSUME NEW b \in SUBSET job[t].left,
             Write([view EXCEPT !.users = @ \cup (b \ job[t].known)]),
             job' = [job EXCEPT ![t].pc = "commit", ![t].batch = b],
             UNCHANGED tx
      PROVE  IInv'
  <2>1. b \in SUBSET Users /\ "commit" \in InTransaction /\ "commit" \in Steps
    BY <1>1 DEF Jobs, InTransaction, Steps
  <2>2. job' = [job EXCEPT ![t] = [job[t] EXCEPT !.pc = "commit", !.batch = b]]
    BY <1>3
  <2>3. [job[t] EXCEPT !.pc = "commit", !.batch = b] \in Jobs
    BY <1>1, <2>1 DEF Jobs
  <2>4. /\ job' \in [Threads -> Jobs] /\ Others(t) /\ job'[t].pc = "commit"
        /\ job'[t].of = job[t].of /\ job'[t].kind = job[t].kind
        /\ job'[t].ver = job[t].ver
    BY <1>1, <2>2, <2>3 DEF Others, Jobs
  <2>5. store' = store /\ view' = [view EXCEPT !.users = @ \cup (b \ job[t].known)]
    BY <1>1, <1>3 DEF Write
  <2>6. /\ view' \in Contents /\ view.users \subseteq view'.users
        /\ view'.head = view.head /\ view'.rows = view.rows
        /\ view'.marked = view.marked
    BY <1>1, <2>1, <2>5 DEF Contents
  <2>7. Progress(t)'
    <3> HIDE DEF IInv
    <3>1. \A q \in Refs : Whole(view, q)
      BY <1>1 DEF Progress
    <3>2. \A q \in Refs : Whole(view, q)'
      BY <3>1, <2>6 DEF Whole, Stored
    <3> QED
      BY <3>2, <2>4 DEF Progress
  <2>8. \A q \in Refs : Stored(store, q) /\ ~Stored(view', q) => store.head[q].mark
    BY <2>6 DEF Ahead, Stored
  <2> QED
    BY <1>1, <1>3, <2>1, <2>4, <2>5, <2>6, <2>7, <2>8, WorksOn
<1> QED
  BY <1>2, <1>3 DEF WriteBatch

LEMMA EraseRowsStep ==
  ASSUME IInv, NEW t \in Threads, EraseRows(t)
  PROVE  IInv'
<1> USE NoOneIsNoThread DEF IInv
<1>1. /\ job[t].pc = "erase rows" /\ UNCHANGED <<store, tx, alone, commands, failures>>
      /\ Goto(t, "erase heads") /\ tx = t /\ Progress(t) /\ view \in Contents
      /\ view' = [view EXCEPT !.rows =
                    [r \in Refs |-> IF Marked(view, r) THEN {} ELSE view.rows[r]]]
  BY DEF EraseRows, At, OneTransaction, InTransaction, Write, TypeOK
<1>2. "erase heads" \in InTransaction
  BY DEF InTransaction
<1>3. /\ view' \in Contents /\ view'.users = view.users /\ view'.head = view.head
      /\ view'.marked = view.marked
      /\ \A q \in Refs : ~Marked(view, q) => view'.rows[q] = view.rows[q]
  BY <1>1 DEF Contents
<1>4. Progress(t)'
  <2> HIDE DEF IInv
  <2>1. (\A q \in Refs : Whole(view, q)) /\ view.head = store.head
    BY <1>1 DEF Progress
  <2>2. \A q \in Refs : ~Marked(view, q)' => Whole(view, q)'
    BY <2>1, <1>3 DEF Whole, Stored, Marked
  <2>3. job'[t].pc = "erase heads"
    BY <1>1, <1>2, WorksGoto
  <2>4. view'.head = store'.head
    BY <1>1, <1>3, <2>1
  <2> QED
    BY <2>2, <2>3, <2>4 DEF Progress
<1>5. \A q \in Refs : Stored(store, q) /\ ~Stored(view', q) => store.head[q].mark
  BY <1>3 DEF Ahead, Stored
<1> QED
  BY <1>1, <1>2, <1>3, <1>4, <1>5, Works

LEMMA EraseHeadsStep ==
  ASSUME IInv, NEW t \in Threads, EraseHeads(t)
  PROVE  IInv'
<1> USE NoOneIsNoThread DEF IInv
<1>1. /\ job[t].pc = "erase heads" /\ UNCHANGED <<store, tx, alone, commands, failures>>
      /\ Goto(t, "commit") /\ tx = t /\ Progress(t) /\ view \in Contents
      /\ view' = [view EXCEPT !.head =
                    [r \in Refs |-> IF Marked(view, r) THEN Absent ELSE view.head[r]]]
  BY DEF EraseHeads, At, OneTransaction, InTransaction, Write, TypeOK
<1>2. "commit" \in InTransaction
  BY DEF InTransaction
<1>3. /\ view' \in Contents /\ view'.users = view.users /\ view'.rows = view.rows
      /\ view'.marked = view.marked
      /\ \A q \in Refs : /\ Marked(view, q) => view'.head[q] = Absent
                         /\ ~Marked(view, q) => view'.head[q] = view.head[q]
  BY <1>1 DEF Contents, Heads
<1>4. (\A q \in Refs : ~Marked(view, q) => Whole(view, q)) /\ view.head = store.head
  <2> HIDE DEF IInv
  <2> QED
    BY <1>1 DEF Progress
<1>5. Progress(t)'
  <2> HIDE DEF IInv
  <2>1. ASSUME NEW q \in Refs PROVE Whole(view, q)'
    <3>1. CASE Marked(view, q)
      <4>1. view'.head[q] = Absent
        BY <1>3, <3>1
      <4>2. ~Stored(view, q)'
        BY <4>1 DEF Stored
      <4> QED
        BY <4>2 DEF Whole
    <3>2. CASE ~Marked(view, q)
      <4>1. Whole(view, q) /\ view'.head[q] = view.head[q]
        BY <1>3, <1>4, <3>2
      <4> QED
        BY <1>3, <4>1 DEF Whole, Stored
    <3> QED
      BY <3>1, <3>2
  <2>2. job'[t].pc = "commit"
    BY <1>1, <1>2, WorksGoto
  <2> QED
    BY <2>1, <2>2 DEF Progress
<1>6. \A q \in Refs : Stored(store, q) /\ ~Stored(view', q) => store.head[q].mark
  <2> HIDE DEF IInv
  <2> QED
    BY <1>3, <1>4 DEF Stored, Marked
<1> QED
  BY <1>1, <1>2, <1>3, <1>5, <1>6, Works

LEMMA Commits ==
  ASSUME IInv, NEW t \in Threads,
         CommitObject(t) \/ CommitTable(t) \/ CommitBatch(t) \/ CommitErase(t)
  PROVE  IInv'
<1> USE DEF IInv
<1>1. TypeOK /\ job[t] \in Jobs /\ job \in [Threads -> Jobs]
  BY DEF TypeOK
<1>2. /\ Commit(t) /\ At(t, "commit") /\ alone' \subseteq alone \cup view.users
      /\ UNCHANGED <<commands, failures>>
  BY DEF CommitObject, CommitTable, CommitBatch, CommitErase
<1>3. CASE Return(t)
  BY <1>1, <1>2, <1>3, ReturnJob, Closes
<1>4. CASE CommitTable(t)
  <2>1. Goto(t, "select") /\ job[t].kind = "get" /\ "select" \in Steps
    BY <1>4 DEF CommitTable, Steps
  <2>2. /\ job' \in [Threads -> Jobs] /\ Others(t)
        /\ job'[t].pc = "select" /\ job'[t].kind = "get"
    BY <1>1, <2>1, GotoJob
  <2> QED
    BY <1>2, <2>2, Closes
<1>5. CASE CommitObject(t) /\ ~Return(t)
  <2>1. /\ job[t].kind = "put"
        /\ job' = [job EXCEPT ![t] = [job[t] EXCEPT !.pc = "count",
                     !.refs = job[t].refs \ {job[t].of}, !.of = NoOne]]
    BY <1>5 DEF CommitObject
  <2>2. [job[t] EXCEPT !.pc = "count", !.refs = job[t].refs \ {job[t].of},
                       !.of = NoOne] \in Jobs
    BY <1>1 DEF Jobs, Steps
  <2>3. /\ job' \in [Threads -> Jobs] /\ Others(t)
        /\ job'[t].pc = "count" /\ job'[t].ver = job[t].ver
    BY <1>1, <2>1, <2>2 DEF Others, Jobs
  <2>4. job[t].ver \in Versions
    BY <2>1 DEF Named
  <2> QED
    BY <1>2, <2>3, <2>4, Closes
<1>6. CASE CommitBatch(t) /\ ~Return(t)
  <2>1. /\ job[t].kind = "import"
        /\ job' = [job EXCEPT ![t] = [job[t] EXCEPT !.pc = "begin",
                     !.left = job[t].left \ job[t].batch, !.batch = {},
                     !.size = MaxBatch]]
    BY <1>6 DEF CommitBatch
  <2>2. [job[t] EXCEPT !.pc = "begin", !.left = job[t].left \ job[t].batch,
                       !.batch = {}, !.size = MaxBatch] \in Jobs
    <3>1. MaxBatch \in 0..MaxBatch
      BY SyncAssumption
    <3>2. job[t].left \ job[t].batch \in SUBSET Users /\ "begin" \in Steps
      BY <1>1 DEF Jobs, Steps
    <3> QED
      BY <1>1, <3>1, <3>2, SizedJob
  <2>3. /\ job' \in [Threads -> Jobs] /\ Others(t)
        /\ job'[t].pc = "begin" /\ job'[t].kind = "import"
    BY <1>1, <2>1, <2>2 DEF Others, Jobs
  <2> QED
    BY <1>2, <2>3, Closes
<1> QED
  BY <1>3, <1>4, <1>5, <1>6 DEF CommitErase

LEMMA Drops ==
  ASSUME IInv, NEW t \in Threads, DropTable(t) \/ WriteUser(t)
  PROVE  IInv'
<1> USE DEF IInv
<1>1. /\ TypeOK /\ Return(t) /\ UNCHANGED <<tx, commands, failures>>
      /\ commands' \in 0..MaxCommands /\ failures' \in 0..MaxFailures
      /\ job[t].pc \in {"drop", "write user"} /\ view \in Contents
  BY DEF DropTable, WriteUser, At, TypeOK
<1>2. /\ job' \in [Threads -> Jobs] /\ Others(t)
      /\ job'[t].pc = "idle" /\ job'[t].kind = "none"
  BY <1>1, ReturnJob
<1>3. InTransaction \cap {"idle", "drop", "write user"} = {}
  BY DEF InTransaction
<1>4. CASE UNCHANGED <<store, view, alone>>
  BY <1>1, <1>2, <1>3, <1>4, Aside
<1>5. CASE DropTable(t) /\ Write([view EXCEPT !.temp = FALSE, !.tempRows = {}])
  <2> DEFINE c == [view EXCEPT !.temp = FALSE, !.tempRows = {}]
  <2>1. /\ c \in Contents /\ c.users = view.users /\ c.head = view.head
        /\ c.rows = view.rows /\ c.marked = view.marked
    BY <1>1 DEF Contents
  <2>2. Write(c) /\ alone' = alone
    BY <1>5 DEF DropTable
  <2> HIDE DEF c
  <2> QED
    BY <1>1, <1>3, <2>1, <2>2, Joins
<1>6. CASE WriteUser(t) /\ Write([view EXCEPT !.users = @ \cup {job[t].of}])
  <2> DEFINE c == [view EXCEPT !.users = @ \cup {job[t].of}]
  <2>1. job[t].of \in Users
    BY <1>6 DEF WriteUser, At, Named
  <2>2. /\ c \in Contents /\ c.users = view.users \cup {job[t].of}
        /\ c.head = view.head /\ c.rows = view.rows /\ c.marked = view.marked
    BY <1>1, <2>1 DEF Contents
  <2>3. \/ UNCHANGED <<store, view, alone>>
        \/ alone' = IF tx = NoOne THEN alone \cup {job[t].of} ELSE alone
    BY <1>6 DEF WriteUser
  <2>4. tx = NoOne => alone \subseteq view.users
    BY DEF AloneIsKept, Ahead
  <2>5. Write(c)
    BY <1>6
  <2> HIDE DEF c
  <2> QED
    BY <1>1, <1>3, <1>4, <2>2, <2>3, <2>4, <2>5, Joins
<1> QED
  BY <1>4, <1>5, <1>6 DEF DropTable, WriteUser

-----------------------------------------------------------------------------
(* The theorems.                                                             *)

LEMMA Initial == Init => IInv
<1> SUFFICES ASSUME Init PROVE IInv
  OBVIOUS
<1>1. store \in Contents /\ view = store
  BY DEF Init, Contents, Heads
<1>2. TypeOK
  BY <1>1, IdleIsJob, SyncAssumption DEF Init, TypeOK
<1>3. \A t \in Threads : job[t].pc = "idle" /\ job[t].kind = "none"
  BY IdleIsJob DEF Init
<1>4. OneTransaction
  BY <1>3, InTransactionSteps, NoOneIsNoThread DEF Init, OneTransaction
<1>5. Named
  BY <1>3 DEF Named
<1>6. Ahead /\ AloneIsKept
  BY DEF Init, Ahead, AloneIsKept
<1>7. WholeDocuments
  BY DEF Init, WholeDocuments, Whole, Stored
<1>8. \A t \in Threads : tx # t
  BY NoOneIsNoThread DEF Init
<1> QED
  BY <1>2, <1>4, <1>5, <1>6, <1>7, <1>8 DEF IInv

LEMMA Step == IInv /\ [Next]_vars => IInv'
<1> SUFFICES ASSUME IInv, [Next]_vars PROVE IInv'
  OBVIOUS
<1>1. CASE UNCHANGED vars
  <2>1. UNCHANGED <<store, view, tx, job, alone, commands, failures>>
    BY <1>1 DEF vars
  <2>2. TypeOK' /\ OneTransaction' /\ Named' /\ AloneIsKept'
    BY <2>1 DEF IInv, TypeOK, OneTransaction, Named, AloneIsKept
  <2>3. Ahead' /\ WholeDocuments'
    BY <2>1 DEF IInv, Ahead, WholeDocuments, Whole, Stored
  <2>4. \A t \in Threads : tx' = t => Progress(t)'
    BY <2>1, KeepProgress DEF IInv
  <2> QED
    BY <2>2, <2>3, <2>4 DEF IInv
<1>2. ASSUME NEW t \in Handlers, Command(t) PROVE IInv'
  <2> t \in Threads
    BY DEF Threads
  <2>1. CASE SyncUpdate(t)
    BY <2>1, StartPut DEF SyncUpdate
  <2>2. CASE ObjectSet(t)
    <3>1. PICK r \in Refs, v \in Versions, m \in BOOLEAN :
            Start(t, [Idle EXCEPT !.pc = "count", !.kind = "put",
                                  !.refs = {r}, !.ver = v, !.mark = m])
      BY <2>2 DEF ObjectSet
    <3>2. {r} \in SUBSET Refs
      OBVIOUS
    <3> QED
      BY <3>1, <3>2, StartPut
  <2> QED
    BY <1>2, <2>1, <2>2, StartOther DEF Command
<1>3. CASE Clean(Cleaner)
  BY <1>3, StartOther DEF Threads
<1>4. ASSUME NEW t \in Threads, Statement(t) PROVE IInv'
  BY <1>4, Counts, Begins, Reads, WriteHeadStep, ClearRowsStep, InsertRowsStep,
     CreateTableStep, FillTableStep, ReadRefsStep, WriteBatchStep, EraseRowsStep, EraseHeadsStep, Commits, Drops
  DEF Statement
<1>5. ASSUME NEW t \in Threads, StatementFails(t) PROVE IInv'
  <2>1. /\ Throw(t) /\ UNCHANGED <<alone, commands>>
        /\ failures < MaxFailures /\ failures' = failures + 1
    BY <1>5 DEF StatementFails
  <2>2. commands' \in 0..MaxCommands /\ failures' \in 0..MaxFailures
    BY <2>1, SyncAssumption DEF IInv, TypeOK
  <2> QED
    BY <2>1, <2>2, Throws
<1>6. CASE ProcessEnds
  <2>1. /\ Restart /\ UNCHANGED <<alone, commands>>
        /\ failures < MaxFailures /\ failures' = failures + 1
    BY <1>6 DEF ProcessEnds
  <2>2. commands' \in 0..MaxCommands /\ failures' \in 0..MaxFailures
    BY <2>1, SyncAssumption DEF IInv, TypeOK
  <2> QED
    BY <2>1, <2>2, Restarts
<1> QED
  BY <1>1, <1>2, <1>3, <1>4, <1>5, <1>6 DEF Next

\* The open transaction is somewhere between its first statement and its last.
THEOREM Invariance == Spec => []IInv
BY Initial, Step, PTL DEF Spec

\* Every variable keeps its type, for any bounds.
THEOREM TypeCorrect == Spec => []TypeOK
<1>1. IInv => TypeOK
  BY DEF IInv
<1> QED
  BY <1>1, Invariance, PTL

\* Documents are committed whole, with the rows of their own version.
THEOREM DocumentsWhole == Spec => []WholeDocuments
<1>1. IInv => WholeDocuments
  BY DEF IInv
<1> QED
  BY <1>1, Invariance, PTL

\* A write outside of every transaction, or of a committed batch, is not lost.
THEOREM AloneKept == Spec => []AloneIsKept
<1>1. IInv => AloneIsKept
  BY DEF IInv
<1> QED
  BY <1>1, Invariance, PTL

\* The transaction that is open is that of the one command which is inside its own.
THEOREM Transactions == Spec => []OneTransaction
<1>1. IInv => OneTransaction
  BY DEF IInv
<1> QED
  BY <1>1, Invariance, PTL

\* The documents change at a commit only, if at all.
LEMMA HeadsCommitted ==
  ASSUME IInv, Next
  PROVE  store'.head = store.head \/ store'.head = view.head
<1> USE NoOneIsNoThread
<1>a. Restart => store'.head = store.head
  BY DEF Restart, IInv, TypeOK, Contents
<1>b. ASSUME NEW t \in Threads, Throw(t) PROVE store'.head = store.head
  BY <1>a, <1>b DEF Throw, RollBack
<1>c. ASSUME NEW t \in Threads, NEW next, Begin(t, next)
      PROVE  store'.head = store.head
  BY <1>b, <1>c DEF Begin
<1>1. ASSUME NEW t \in Threads, Statement(t)
      PROVE  store'.head = store.head \/ store'.head = view.head
  <2>1. CASE job[t].pc \in InTransaction /\ ~At(t, "commit")
    <3>1. tx # NoOne
      BY <2>1 DEF IInv, OneTransaction
    <3>2. CASE WriteBatch(t)
      BY <1>b, <3>1, <3>2 DEF WriteBatch, Write
    <3> QED
      BY <1>1, <2>1, <3>1, <3>2 DEF Statement, CountObject, BeginObject, WriteHead,
         ClearRows, InsertRows, CommitObject, BeginTable, CreateTable, FillTable,
         CommitTable, SelectDiscrepancy, ReadObject, DropTable, CountUser, WriteUser,
         ReadRefs, BeginBatch, CommitBatch, BeginErase, EraseRows, EraseHeads,
         CommitErase, At, InTransaction, Write, RollBack
  <2>2. CASE At(t, "commit")
    BY <1>1, <2>2 DEF Statement, CountObject, BeginObject, WriteHead, ClearRows,
       InsertRows, CommitObject, BeginTable, CreateTable, FillTable, CommitTable,
       SelectDiscrepancy, ReadObject, DropTable, CountUser, WriteUser, ReadRefs,
       BeginBatch, WriteBatch, CommitBatch, BeginErase, EraseRows, EraseHeads,
       CommitErase, At, Commit
  <2>3. CASE DropTable(t) \/ WriteUser(t)
    <3>1. view \in Contents
      BY DEF IInv, TypeOK
    <3> QED
      BY <2>3, <3>1 DEF DropTable, WriteUser, Write, Contents
  <2>4. CASE BeginObject(t) \/ BeginTable(t) \/ BeginBatch(t) \/ BeginErase(t)
    BY <1>c, <2>4 DEF BeginObject, BeginTable, BeginBatch, BeginErase
  <2>5. CASE /\ ~At(t, "commit") /\ job[t].pc \notin InTransaction
             /\ ~DropTable(t) /\ ~WriteUser(t) /\ ~BeginObject(t)
             /\ ~BeginTable(t) /\ ~BeginBatch(t) /\ ~BeginErase(t)
    BY <1>1, <2>5 DEF Statement, CountObject, WriteHead, ClearRows,
       InsertRows, CommitObject, CreateTable, FillTable, CommitTable,
       SelectDiscrepancy, ReadObject, CountUser, ReadRefs, WriteBatch, CommitBatch,
       EraseRows, EraseHeads, CommitErase, At, InTransaction
  <2> QED
    BY <2>1, <2>2, <2>3, <2>4, <2>5
<1>2. ASSUME NEW t \in Threads,
             Command(t) \/ Clean(t) \/ StatementFails(t) \/ ProcessEnds
      PROVE  store'.head = store.head
  <2>1. CASE Command(t) \/ Clean(t)
    BY <2>1 DEF Command, Clean, SyncUpdate, ObjectSet, SyncGet, InsertOrUpdateUser,
       ImportFile, Start
  <2> QED
    BY <1>2, <1>a, <1>b, <2>1 DEF StatementFails, ProcessEnds
<1>3. Handlers \subseteq Threads /\ Cleaner \in Threads
  BY DEF Threads
<1> QED
  BY <1>1, <1>2, <1>3 DEF Next

\* Only a document whose committed mark is set is ever erased.
THEOREM ErasedMarked == Spec => ErasedOnlyIfMarked
<1>1. IInv /\ [Next]_vars =>
        [\A r \in Refs : Stored(store, r) /\ ~Stored(store', r) => store.head[r].mark]_vars
  <2> SUFFICES ASSUME IInv, Next,
                      NEW r \in Refs, Stored(store, r), ~Stored(store', r)
               PROVE  store.head[r].mark
    OBVIOUS
  <2>1. ~Stored(view, r)
    BY HeadsCommitted DEF Stored
  <2> QED
    BY <2>1 DEF IInv, Ahead
<1> QED
  BY <1>1, Invariance, PTL DEF Spec, ErasedOnlyIfMarked

=============================================================================
