---------------------------- MODULE SyncDatabase ----------------------------
(***************************************************************************)
(* The commands that keep documents on the database: synchronisation of a    *)
(* device (SyncGetDiscrepancyInData, SyncUpdateDataOnTheServer), the write   *)
(* of a user (InsertOrUpdateUser), the import of a file (FileToDatabase), and *)
(* the erasure of marked documents by a task of the scheduler.                *)
(*                                                                          *)
(* All of them run on the one soci::session that soci_initialize() returns,  *)
(* in the threads of the handlers and of the scheduler: a statement of one   *)
(* command may fall into the transaction of another.  Each statement is a    *)
(* step.  SQLite refuses a transaction within a transaction, and applies a   *)
(* statement outside of any transaction at once.  An exception ends a command *)
(* of a session, but in the threads of the task and of the import nothing     *)
(* catches it: the process ends, and what is not committed is gone.          *)
(***************************************************************************)
EXTENDS Integers, FiniteSets

CONSTANTS
  Handlers,     \* threads that execute the commands of the sessions
  Cleaner,      \* the thread of the scheduler
  Refs,         \* documents
  Devices,      \* registered devices: others are refused a comparison
  DeviceOf,     \* the device a document belongs to: its device_id
  Users,        \* rows of the table Users
  NoOne,        \* no thread
  MaxBatch,     \* statements of one transaction of an import (10000)
  MaxVersion,   \* bound: versions of a document
  MaxCommands,  \* bound: commands and tasks executed
  MaxFailures   \* bound: statements that fail, and ends of the process

Threads == Handlers \cup {Cleaner}

ASSUME SyncAssumption ==
  /\ Cleaner \notin Handlers /\ NoOne \notin Threads
  /\ Refs \subseteq DOMAIN DeviceOf
  /\ MaxBatch \in Nat \ {0, 1}
  /\ MaxVersion \in Nat /\ MaxCommands \in Nat /\ MaxFailures \in Nat

Versions == 1..MaxVersion
NoVersion == -1
VersionOrNone == Versions \cup {NoVersion}

VARIABLES
  store,     \* what is committed
  view,      \* what the shared connection sees
  tx,        \* the thread whose transaction is open on the connection
  job,       \* what each thread executes
  alone,     \* history: users written outside of a transaction, or imported
  commands, failures

vars == <<store, view, tx, job, alone, commands, failures>>

-----------------------------------------------------------------------------
(* Data.                                                                    *)

Absent == [ver |-> NoVersion, mark |-> FALSE]
Heads == {Absent} \cup [ver : Versions, mark : BOOLEAN]

\* Documents; the versions of which DocumentsTables and DocumentsMarkedTables
\* hold rows; Users; and Documents_temp, which belongs to the connection.
Contents ==
  [head : [Refs -> Heads], rows : [Refs -> SUBSET Versions],
   marked : [Refs -> SUBSET Versions], users : SUBSET Users,
   temp : BOOLEAN, tempRows : SUBSET (Refs \X Versions)]

Stored(c, r) == c.head[r] # Absent

\* A row of the comparison_table of an answer.
Comparison == [ref : Refs, ver1 : VersionOrNone, ver2 : VersionOrNone]

Steps == {"idle", "count", "begin", "head", "clear", "rows", "commit",
          "create", "fill", "select", "objects", "drop",
          "count user", "write user", "read refs", "batch",
          "erase rows", "erase heads"}

Jobs ==
  [pc : Steps, kind : {"none", "put", "get", "user", "import", "clean"},
   refs : SUBSET Refs, ver : VersionOrNone, mark : BOOLEAN, exists : BOOLEAN,
   mine : SUBSET (Refs \X Versions), found : SUBSET Comparison,
   left : SUBSET Users, known : SUBSET Users, batch : SUBSET Users,
   size : 0..MaxBatch,
   of : Refs \cup Devices \cup Users \cup {NoOne}]

Idle ==
  [pc |-> "idle", kind |-> "none", refs |-> {}, ver |-> NoVersion,
   mark |-> FALSE, exists |-> FALSE, mine |-> {}, found |-> {},
   left |-> {}, known |-> {}, batch |-> {}, size |-> 0, of |-> NoOne]

Init ==
  /\ store = [head |-> [r \in Refs |-> Absent],
              rows |-> [r \in Refs |-> {}], marked |-> [r \in Refs |-> {}],
              users |-> {}, temp |-> FALSE, tempRows |-> {}]
  /\ view = store /\ tx = NoOne
  /\ job = [t \in Threads |-> Idle]
  /\ alone = {} /\ commands = 0 /\ failures = 0

-----------------------------------------------------------------------------
(* The connection.                                                          *)

At(t, pc) == job[t].pc = pc
Goto(t, pc) == job' = [job EXCEPT ![t].pc = pc]
Return(t) == job' = [job EXCEPT ![t] = Idle]

\* A statement has changed the contents to c.
Write(c) ==
  /\ view' = c
  /\ store' = IF tx = NoOne THEN c ELSE store

\* ~transaction() of a command that leaves by an exception.
RollBack(t) ==
  IF tx = t THEN view' = store /\ tx' = NoOne /\ UNCHANGED store
            ELSE UNCHANGED <<store, view, tx>>

\* The process ends, whoever is in the middle of what, and is started again on
\* what is committed; the temporary table goes with the connection.
Restart ==
  /\ store' = [store EXCEPT !.temp = FALSE, !.tempRows = {}]
  /\ view' = store' /\ tx' = NoOne
  /\ job' = [t \in Threads |-> Idle]

\* An exception leaves t.  execute_command_handler() catches it, but it is on the
\* stack neither of the scheduler's thread nor of the thread of an import.
Throw(t) ==
  IF t \in Handlers /\ job[t].kind # "import" THEN RollBack(t) /\ Return(t)
                                              ELSE Restart

\* A mutant of Begin: a transaction within a transaction is not refused.
BeginNested(t, next) == tx' = t /\ Goto(t, next) /\ UNCHANGED <<store, view>>

Begin(t, next) ==
  \/ tx = NoOne /\ tx' = t /\ Goto(t, next) /\ UNCHANGED <<store, view>>
  \/ tx # NoOne /\ Throw(t)

Commit(t) == store' = view /\ tx' = NoOne /\ UNCHANGED view

-----------------------------------------------------------------------------
(* SyncUpdateDataOnTheServer: data_synchronization_set_object() for each of   *)
(* the objects the device has sent.                                          *)

Start(t, j) ==
  /\ At(t, "idle") /\ commands < MaxCommands
  /\ job' = [job EXCEPT ![t] = j]
  /\ commands' = commands + 1
  /\ UNCHANGED <<store, view, tx, alone, failures>>

\* The objects left, all of one version and mark: `of' is the one in work.
SyncUpdate(t) ==
  \E objects \in SUBSET Refs \ {{}}, v \in Versions, m \in BOOLEAN :
    Start(t, [Idle EXCEPT !.pc = "count", !.kind = "put",
                          !.refs = objects, !.ver = v, !.mark = m])

\* ObjectSetToDatabase: one object, by the same function.
ObjectSet(t) ==
  \E r \in Refs, v \in Versions, m \in BOOLEAN :
    Start(t, [Idle EXCEPT !.pc = "count", !.kind = "put",
                          !.refs = {r}, !.ver = v, !.mark = m])

CountObject(t) ==
  /\ At(t, "count")
  /\ \E r \in job[t].refs :
       job' = [job EXCEPT ![t].pc = "begin", ![t].of = r,
                          ![t].exists = Stored(view, r)]
  /\ UNCHANGED <<store, view, tx, alone, commands, failures>>

\* A mutant of BeginObject: the object is written without a transaction.
BeginObjectWithout(t) ==
  /\ At(t, "begin") /\ job[t].kind = "put" /\ Goto(t, "head")
  /\ UNCHANGED <<store, view, tx, alone, commands, failures>>

BeginObject(t) ==
  /\ At(t, "begin") /\ job[t].kind = "put"
  /\ Begin(t, "head")
  /\ UNCHANGED <<alone, commands, failures>>

\* The count decides between update and insert.  An update of a row that is
\* gone changes nothing; an insert of a ref that exists fails, ref is UNIQUE.
WriteHead(t) ==
  LET r == job[t].of
      h == [ver |-> job[t].ver, mark |-> job[t].mark]
  IN /\ At(t, "head")
     /\ \/ /\ job[t].exists = Stored(view, r)
           /\ Write([view EXCEPT !.head[r] = h])
           /\ Goto(t, "clear") /\ UNCHANGED tx
        \/ /\ job[t].exists /\ ~Stored(view, r)
           /\ Goto(t, "clear") /\ UNCHANGED <<store, view, tx>>
        \/ /\ ~job[t].exists /\ Stored(view, r)
           /\ RollBack(t) /\ Return(t)
     /\ UNCHANGED <<alone, commands, failures>>

\* A mutant of ClearRows: the marked rows of the old version are left.
ClearRowsOnly(t) ==
  /\ At(t, "clear")
  /\ Write([view EXCEPT !.rows[job[t].of] = {}])
  /\ Goto(t, "rows")
  /\ UNCHANGED <<tx, alone, commands, failures>>

ClearRows(t) ==
  /\ At(t, "clear")
  /\ Write([view EXCEPT !.rows[job[t].of] = {}, !.marked[job[t].of] = {}])
  /\ Goto(t, "rows")
  /\ UNCHANGED <<tx, alone, commands, failures>>

InsertRows(t) ==
  /\ At(t, "rows")
  /\ Write([view EXCEPT !.rows[job[t].of] = @ \cup {job[t].ver},
                        !.marked[job[t].of] = @ \cup {job[t].ver}])
  /\ Goto(t, "commit")
  /\ UNCHANGED <<tx, alone, commands, failures>>

\* tr.commit(), and on to the next object or to the answer "success".
CommitObject(t) ==
  /\ At(t, "commit") /\ job[t].kind = "put"
  /\ Commit(t)
  /\ IF job[t].refs = {job[t].of} THEN Return(t)
     ELSE job' = [job EXCEPT ![t].pc = "count", ![t].refs = @ \ {job[t].of},
                             ![t].of = NoOne]
  /\ UNCHANGED <<alone, commands, failures>>

-----------------------------------------------------------------------------
(* SyncGetDiscrepancyInData: the versions of the device are put into a        *)
(* temporary table, joined to the documents, and the table is dropped.       *)

\* The device's table: its own documents, each with the version it has.
Tables(d) ==
  UNION {{{<<r, f[r]>> : r \in s} : f \in [s -> Versions]} :
           s \in SUBSET {r \in Refs : DeviceOf[r] = d}}

SyncGet(t) ==
  \E d \in Devices : \E mine \in Tables(d) :
    Start(t, [Idle EXCEPT !.pc = "begin", !.kind = "get", !.of = d,
                          !.mine = mine])

BeginTable(t) ==
  /\ At(t, "begin") /\ job[t].kind = "get"
  /\ Begin(t, "create")
  /\ UNCHANGED <<alone, commands, failures>>

\* CREATE TEMP TABLE IF NOT EXISTS
CreateTable(t) ==
  /\ At(t, "create")
  /\ Write([view EXCEPT !.temp = TRUE])
  /\ Goto(t, "fill")
  /\ UNCHANGED <<tx, alone, commands, failures>>

\* The inserts of the device's rows, and the commit.  A table that another
\* command has dropped in between refuses them: the exception is caught, and
\* the transaction rolled back when the command returns.
FillTable(t) ==
  /\ At(t, "fill")
  /\ IF view.temp \/ job[t].mine = {}
     THEN /\ Write([view EXCEPT !.tempRows = @ \cup job[t].mine])
          /\ Goto(t, "commit") /\ UNCHANGED tx
     ELSE RollBack(t) /\ Return(t)
  /\ UNCHANGED <<alone, commands, failures>>

CommitTable(t) ==
  /\ At(t, "commit") /\ job[t].kind = "get"
  /\ Commit(t) /\ Goto(t, "select")
  /\ UNCHANGED <<alone, commands, failures>>

\* max(version) of a side of the union; a side without the ref counts as -1.
IsLatest(v, versions) ==
  v \in versions \cup {NoVersion} /\ \A w \in versions : w <= v

Of(r, rows) == {row[2] : row \in {x \in rows : x[1] = r}}

\* The documents of the device that are not marked, and every row of the table.
Visible(c, d) ==
  {r \in Refs : Stored(c, r) /\ ~c.head[r].mark /\ DeviceOf[r] = d}

Discrepancy(c, d) ==
  {x \in Comparison :
     /\ x.ref \in Visible(c, d) \cup {row[1] : row \in c.tempRows}
     /\ x.ver1 = IF x.ref \in Visible(c, d) THEN c.head[x.ref].ver ELSE NoVersion
     /\ IsLatest(x.ver2, Of(x.ref, c.tempRows))}

\* The select, and the objects to be read for the device.
SelectDiscrepancy(t) ==
  /\ At(t, "select")
  /\ IF view.temp
     THEN LET found == Discrepancy(view, job[t].of)
          IN job' = [job EXCEPT ![t].pc = "objects", ![t].found = found,
                       ![t].refs = {c.ref : c \in {x \in found : x.ver1 > x.ver2}}]
     ELSE Return(t)
  /\ UNCHANGED <<store, view, tx, alone, commands, failures>>

\* data_synchronization_get_object(), of which only the order is kept.
ReadObject(t) ==
  /\ At(t, "objects")
  /\ IF job[t].refs = {} THEN Goto(t, "drop")
     ELSE \E r \in job[t].refs : job' = [job EXCEPT ![t].refs = @ \ {r}]
  /\ UNCHANGED <<store, view, tx, alone, commands, failures>>

\* DROP TABLE, and the answer; a table that is gone is an error.
DropTable(t) ==
  /\ At(t, "drop") /\ Return(t)
  /\ IF view.temp THEN Write([view EXCEPT !.temp = FALSE, !.tempRows = {}])
                  ELSE UNCHANGED <<store, view>>
  /\ UNCHANGED <<tx, alone, commands, failures>>

-----------------------------------------------------------------------------
(* InsertOrUpdateUser: a count and a write, without a transaction.           *)

InsertOrUpdateUser(t) ==
  \E u \in Users : Start(t, [Idle EXCEPT !.pc = "count user", !.kind = "user",
                                         !.of = u])

CountUser(t) ==
  /\ At(t, "count user")
  /\ job' = [job EXCEPT ![t].pc = "write user",
                        ![t].exists = job[t].of \in view.users]
  /\ UNCHANGED <<store, view, tx, alone, commands, failures>>

\* A mutant of WriteUser: the row is written in a transaction never committed.
WriteUserUncommitted(t) ==
  /\ At(t, "write user") /\ Return(t)
  /\ view' = [view EXCEPT !.users = @ \cup {job[t].of}]
  /\ alone' = IF tx = NoOne THEN alone \cup {job[t].of} ELSE alone
  /\ tx' = IF tx = NoOne THEN t ELSE tx
  /\ UNCHANGED <<store, commands, failures>>

\* The insert of a user who exists by now fails, ref is UNIQUE; the update of one
\* who is gone, rolled back since the count, changes nothing.
WriteUser(t) ==
  LET u == job[t].of
  IN /\ At(t, "write user") /\ Return(t)
     /\ IF job[t].exists = (u \in view.users)
        THEN /\ Write([view EXCEPT !.users = @ \cup {u}])
             /\ alone' = IF tx = NoOne THEN alone \cup {u} ELSE alone
        ELSE UNCHANGED <<store, view, alone>>
     /\ UNCHANGED <<tx, commands, failures>>

-----------------------------------------------------------------------------
(* FileToDatabase: the rows of a file, inserted or updated in transactions of *)
(* a limited size by a thread of its own, which the command waits for.        *)

ImportFile(t) ==
  \E file \in SUBSET Users \ {{}} :
    Start(t, [Idle EXCEPT !.pc = "read refs", !.kind = "import",
                          !.left = file, !.size = MaxBatch - 1])

\* The rows there are: they decide between insert and update for the whole file.
ReadRefs(t) ==
  /\ At(t, "read refs")
  /\ job' = [job EXCEPT ![t].pc = "begin", ![t].known = view.users]
  /\ UNCHANGED <<store, view, tx, alone, commands, failures>>

BeginBatch(t) ==
  /\ At(t, "begin") /\ job[t].kind = "import"
  /\ Begin(t, "batch")
  /\ UNCHANGED <<alone, commands, failures>>

\* The first batch is one short of the others, the last is what is left.
IsBatch(t, b) ==
  \/ b = job[t].left /\ Cardinality(b) <= job[t].size
  \/ Cardinality(b) = job[t].size

\* The insert of a row that is there by now fails.
WriteBatch(t) ==
  /\ At(t, "batch")
  /\ \E b \in SUBSET job[t].left :
       /\ IsBatch(t, b)
       /\ IF (b \ job[t].known) \cap view.users = {}
          THEN /\ Write([view EXCEPT !.users = @ \cup (b \ job[t].known)])
               /\ job' = [job EXCEPT ![t].pc = "commit", ![t].batch = b]
               /\ UNCHANGED tx
          ELSE Throw(t)
  /\ UNCHANGED <<alone, commands, failures>>

\* On to the next batch, or to the answer.
CommitBatch(t) ==
  /\ At(t, "commit") /\ job[t].kind = "import"
  /\ Commit(t)
  /\ alone' = alone \cup (job[t].batch \cap view.users)
  /\ IF job[t].left = job[t].batch THEN Return(t)
     ELSE job' = [job EXCEPT ![t].pc = "begin", ![t].left = @ \ job[t].batch,
                             ![t].batch = {}, ![t].size = MaxBatch]
  /\ UNCHANGED <<commands, failures>>

-----------------------------------------------------------------------------
(* EraseDeletedMarkObjects, a task of the scheduler.                         *)

Clean(t) == Start(t, [Idle EXCEPT !.pc = "begin", !.kind = "clean"])

BeginErase(t) ==
  /\ At(t, "begin") /\ job[t].kind = "clean"
  /\ Begin(t, "erase rows")
  /\ UNCHANGED <<alone, commands, failures>>

\* A mutant of Marked: the query forgets the condition on deletion_mark.
MarkedOrNot(c, r) == Stored(c, r)

Marked(c, r) == Stored(c, r) /\ c.head[r].mark

\* The rows of DocumentsTables; those of DocumentsMarkedTables stay.
EraseRows(t) ==
  /\ At(t, "erase rows")
  /\ Write([view EXCEPT !.rows =
               [r \in Refs |-> IF Marked(view, r) THEN {} ELSE view.rows[r]]])
  /\ Goto(t, "erase heads")
  /\ UNCHANGED <<tx, alone, commands, failures>>

EraseHeads(t) ==
  /\ At(t, "erase heads")
  /\ Write([view EXCEPT !.head =
               [r \in Refs |-> IF Marked(view, r) THEN Absent ELSE view.head[r]]])
  /\ Goto(t, "commit")
  /\ UNCHANGED <<tx, alone, commands, failures>>

CommitErase(t) ==
  /\ At(t, "commit") /\ job[t].kind = "clean"
  /\ Commit(t) /\ Return(t)
  /\ UNCHANGED <<alone, commands, failures>>

-----------------------------------------------------------------------------

\* A statement fails, the database being locked by another connection: the
\* exception leaves the command, which is answered "error", or ends the process.
StatementFails(t) ==
  /\ ~At(t, "idle") /\ failures < MaxFailures
  /\ failures' = failures + 1
  /\ Throw(t)
  /\ UNCHANGED <<alone, commands>>

\* The process is ended from outside.
ProcessEnds ==
  /\ failures < MaxFailures
  /\ failures' = failures + 1
  /\ Restart
  /\ UNCHANGED <<alone, commands>>

Command(t) ==
  \/ SyncUpdate(t) \/ ObjectSet(t) \/ SyncGet(t)
  \/ InsertOrUpdateUser(t) \/ ImportFile(t)

Statement(t) ==
  \/ CountObject(t) \/ BeginObject(t) \/ WriteHead(t) \/ ClearRows(t)
  \/ InsertRows(t) \/ CommitObject(t)
  \/ BeginTable(t) \/ CreateTable(t) \/ FillTable(t) \/ CommitTable(t)
  \/ SelectDiscrepancy(t) \/ ReadObject(t) \/ DropTable(t)
  \/ CountUser(t) \/ WriteUser(t)
  \/ ReadRefs(t) \/ BeginBatch(t) \/ WriteBatch(t) \/ CommitBatch(t)
  \/ BeginErase(t) \/ EraseRows(t) \/ EraseHeads(t) \/ CommitErase(t)

Next ==
  \/ \E t \in Handlers : Command(t)
  \/ Clean(Cleaner)
  \/ ProcessEnds
  \/ \E t \in Threads : Statement(t) \/ StatementFails(t)

Spec == Init /\ [][Next]_vars

-----------------------------------------------------------------------------
(* Properties.                                                              *)

\* Type invariant of the database, the connection and the commands.
TypeOK ==
  /\ store \in Contents /\ view \in Contents
  /\ tx \in Threads \cup {NoOne}
  /\ job \in [Threads -> Jobs]
  /\ alone \subseteq Users
  /\ commands \in 0..MaxCommands /\ failures \in 0..MaxFailures

Whole(c, r) ==
  Stored(c, r) => /\ c.rows[r] = {c.head[r].ver}
                  /\ c.marked[r] = {c.head[r].ver}

\* Whatever is committed, a document has the rows of its own version and of no
\* other, though its statements run between those of other commands on one
\* connection, and any of them may fail and the process end at any of them.
WholeDocuments == \A r \in Refs : Whole(store, r)

\* A user written while no transaction was open, or by a batch of an import that
\* is committed, is never lost, whoever rolls back afterwards and whatever ends the
\* process.  (One written into the transaction of another command is.)
AloneIsKept == alone \subseteq store.users

\* The erasure removes marked documents only, and a command none at all, also
\* when a device stores a document unmarked while the erasure is running.
ErasedOnlyIfMarked ==
  [][\A r \in Refs : Stored(store, r) /\ ~Stored(store', r) => store.head[r].mark]_vars

InTransaction == {"head", "clear", "rows", "create", "fill", "batch",
                  "erase rows", "erase heads", "commit"}

\* No command, however it ends, leaves the connection in a transaction, in which
\* every later one would be refused; and while one is open no other command is
\* inside its own, although all of them share the connection.
OneTransaction == \A t \in Threads : job[t].pc \in InTransaction <=> tx = t

=============================================================================
