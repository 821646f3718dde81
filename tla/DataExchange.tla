----------------------------- MODULE DataExchange -----------------------------
(***************************************************************************)
(* The exchange with 1C: scheduled_operations::perform_data_exchange(), run  *)
(* by the task ExchangePlan, and the command SyncUpdateBarcode, which writes *)
(* the same tables from another thread over another SQL session.  What 1C    *)
(* does is external: it registers every change of an object or of a barcode, *)
(* lists what is registered, gives contents, and clears the registration.    *)
(* Contents are numbered by the change that made them.                       *)
(***************************************************************************)
EXTENDS Naturals, Sequences, Functions

CONSTANTS
  Objects,     \* references of catalog objects
  Barcodes,    \* barcodes, whose records come with the list itself
  Owner,       \* the object a barcode belongs to
  BatchSize,   \* max_objects (1000)
  ChunkSize,   \* statements of one transaction (10000)
  MaxContent,  \* bound: contents of one key
  MaxFailures, \* bound: requests, answers or statements that fail
  MaxSyncs     \* bound: commands SyncUpdateBarcode

Keys == Objects \cup Barcodes

ASSUME ExchangeAssumption ==
  /\ Objects \cap Barcodes = {}
  /\ Owner \in [Barcodes -> Objects]
  /\ BatchSize \in Nat \ {0} /\ ChunkSize \in Nat \ {0}
  /\ MaxContent \in Nat \ {0}
  /\ MaxFailures \in Nat /\ MaxSyncs \in Nat

VARIABLES
  content,        \* 1C: the content of each key
  registered,     \* 1C: the changes registered in the exchange plan
  rows,           \* the contents of the rows with this key, oldest row first
  pc,             \* of perform_data_exchange(): the two loops, or not running
  todo,           \* what is left of the list of registered changes
  batch,          \* obj_info, the references of the next request
  count,          \* int count
  answer,         \* obj_result, what is left of it
  queries,        \* transaction_arr
  sync_answer,    \* SyncUpdateBarcode: what is left of http_result
  sync_queries,   \* and its queryas
  failures, syncs,
  overtaken,      \* history: changed (or skipped) behind the running exchange
  sync_overtaken, \* history: changed while SyncUpdateBarcode holds a copy
  lost            \* history: keys whose last change may not have been loaded

service == <<content, registered>>
loading == <<pc, todo, batch, count, answer, queries>>
syncing == <<sync_answer, sync_queries, syncs>>
history == <<overtaken, sync_overtaken, lost>>
vars == <<service, rows, loading, syncing, failures, history>>

Contents == 1..MaxContent
Copy == [key : Keys, content : Contents]
\* `at': the row to update, 0 to insert one.
Query == [key : Keys, content : Contents, at : Nat]

\* The first exchange: everything is registered, the tables are empty.
Init ==
  /\ content = [k \in Keys |-> 1] /\ registered = Keys
  /\ rows = [k \in Keys |-> <<>>]
  /\ pc = "idle" /\ todo = {} /\ batch = <<>> /\ count = 0
  /\ answer = <<>> /\ queries = <<>>
  /\ sync_answer = <<>> /\ sync_queries = <<>> /\ syncs = 0 /\ failures = 0
  /\ overtaken = {} /\ sync_overtaken = {} /\ lost = {}

KeysOf(s) == {x.key : x \in s}
CopyOf(k) == [key |-> k, content |-> content[k]]

-----------------------------------------------------------------------------
(* Statements.                                                              *)

\* A mutant of QueryFor: nobody looks.
QueryAlwaysInserting(c) == [key |-> c.key, content |-> c.content, at |-> 0]

\* "select ... where ref/barcode", then update of the last row found or insert.
QueryFor(c) == [key |-> c.key, content |-> c.content, at |-> Len(rows[c.key])]

\* A mutant of Conflict: the column is not UNIQUE.
ConflictNever(qs) == FALSE

\* The tables of objects have "ref UNIQUE"; rows of barcodes get random ones.
Conflict(qs) ==
  \E q \in Range(qs) : q.key \in Objects /\ q.at = 0 /\ rows[q.key] # <<>>

\* What a statement does to the rows of its key.
Written(r, q) == IF q.at = 0 THEN Append(r, q.content)
                 ELSE [r EXCEPT ![q.at] = q.content]

\* One transaction.  No key has two queries: no list names a key twice.
Execute(qs) ==
  [k \in Keys |->
     IF k \in KeysOf(Range(qs))
     THEN Written(rows[k], CHOOSE q \in Range(qs) : q.key = k)
     ELSE rows[k]]

-----------------------------------------------------------------------------
(* perform_data_exchange().                                                 *)

\* A mutant of Leave: transaction_arr survives, as a member would.
LeaveKeepingQueries ==
  /\ pc' = "idle" /\ todo' = {} /\ batch' = <<>> /\ count' = 0
  /\ answer' = <<>> /\ UNCHANGED queries

\* An exception leaves the function; its vectors and its SQL session go with
\* it, and exec_server_task() carries on.
Leave == /\ pc' = "idle" /\ todo' = {} /\ batch' = <<>> /\ count' = 0
         /\ answer' = <<>> /\ queries' = <<>>

\* ExchangePlanGetChange is answered.  (Any other answer ends the exchange.)
exchange ==
  /\ pc = "idle"
  /\ pc' = "collect" /\ todo' = {CopyOf(k) : k \in registered}
  /\ overtaken' = {}
  /\ UNCHANGED <<service, rows, batch, count, answer, queries, syncing,
                 failures, sync_overtaken, lost>>

\* count > max_objects: a request is due before the next element.
Due == count > BatchSize

Collecting == pc = "collect" /\ answer = <<>> /\ ~Due

\* A record of InformationRegisterRecord.Штрихкоды is complete as listed.
add_information_register_record ==
  /\ Collecting
  /\ \E c \in todo :
       /\ c.key \in Barcodes
       /\ todo' = todo \ {c}
       /\ queries' = Append(queries, QueryFor(c))
  /\ UNCHANGED <<service, rows, pc, batch, count, answer, syncing, failures, history>>

\* Of an object the list has only the reference.
collect ==
  /\ Collecting
  /\ \E c \in todo :
       /\ c.key \in Objects
       /\ todo' = todo \ {c}
       /\ batch' = Append(batch, c.key)
       /\ count' = count + 1
  /\ UNCHANGED <<service, rows, pc, answer, queries, syncing, failures, history>>

\* A mutant of Sent: obj_info is not cleared.
SentAgain == /\ UNCHANGED batch
             /\ count' = IF Due THEN 1 ELSE 0
             /\ pc' = IF Due THEN "collect" ELSE "load"

\* A full batch is sent from within the loop; the rest, even if it is empty,
\* behind it.
Sent == /\ batch' = <<>>
        /\ count' = IF Due THEN 1 ELSE 0
        /\ pc' = IF Due THEN "collect" ELSE "load"

\* ExchangePlanGetObjects is answered by an array ...
GetObjects ==
  /\ pc = "collect" /\ answer = <<>>
  /\ Due \/ todo = {}
  /\ answer' = [i \in 1..Len(batch) |-> CopyOf(batch[i])]
  /\ Sent
  /\ UNCHANGED <<service, rows, todo, queries, syncing, failures, history>>

\* ... or by something else: the batch is passed over.
GetObjects_not_array ==
  /\ pc = "collect" /\ answer = <<>>
  /\ Due \/ todo = {}
  /\ failures < MaxFailures /\ failures' = failures + 1
  /\ overtaken' = overtaken \cup Range(batch)
  /\ Sent
  /\ UNCHANGED <<service, rows, todo, answer, queries, syncing, sync_overtaken, lost>>

\* One object of the answer.
add_requests ==
  /\ answer # <<>>
  /\ answer' = Tail(answer)
  /\ queries' = Append(queries, QueryFor(Head(answer)))
  /\ UNCHANGED <<service, rows, pc, todo, batch, count, syncing, failures, history>>

\* "current_queries" of at most 10000 statements.
Chunk == SubSeq(queries, 1, IF Len(queries) < ChunkSize THEN Len(queries) ELSE ChunkSize)

Loading == pc = "load" /\ answer = <<>>

commit ==
  /\ Loading /\ queries # <<>>
  /\ ~Conflict(Chunk)
  /\ rows' = Execute(Chunk)
  /\ queries' = SubSeq(queries, Len(Chunk) + 1, Len(queries))
  /\ UNCHANGED <<service, pc, todo, batch, count, answer, syncing, failures, history>>

\* The row has been inserted since the query was made: ~transaction() rolls
\* the chunk back, earlier chunks stay.
commit_conflict ==
  /\ Loading /\ queries # <<>>
  /\ Conflict(Chunk)
  /\ Leave
  /\ UNCHANGED <<service, rows, syncing, failures, history>>

\* A mutant of EraseChange: the registration is cleared before the commits.
EraseAtOnce ==
  /\ Loading
  /\ registered' = {}
  /\ lost' = lost \cup overtaken
  /\ Leave
  /\ UNCHANGED <<content, rows, syncing, failures, overtaken, sync_overtaken>>

\* ExchangePlanEraseChange names the plan only, so 1C clears all of it.  The
\* answer is not looked at; that it does not come changes nothing any more.
EraseChange ==
  /\ Loading /\ queries = <<>>
  /\ registered' = {}
  /\ lost' = lost \cup overtaken
  /\ Leave
  /\ UNCHANGED <<content, rows, syncing, failures, overtaken, sync_overtaken>>

\* An exception of a request or of a statement (connection, authorization,
\* "error", a locked table), caught by synchronize_objects_from_1c(), or the
\* end of the process.
fail ==
  /\ pc # "idle"
  /\ failures < MaxFailures /\ failures' = failures + 1
  /\ Leave
  /\ UNCHANGED <<service, rows, syncing, history>>

-----------------------------------------------------------------------------
(* SyncUpdateBarcode, for one barcode.                                      *)

Idle == sync_answer = <<>> /\ sync_queries = <<>>

\* get_barcode_information.bsl gives the barcode and its nomenclature.
sync_update_barcode ==
  /\ Idle /\ syncs < MaxSyncs /\ syncs' = syncs + 1
  /\ \E b \in Barcodes : sync_answer' = <<CopyOf(b), CopyOf(Owner[b])>>
  /\ sync_overtaken' = {}
  /\ UNCHANGED <<service, rows, loading, sync_queries, failures, overtaken, lost>>

sync_look ==
  /\ sync_answer # <<>>
  /\ sync_answer' = Tail(sync_answer)
  /\ sync_queries' = Append(sync_queries, QueryFor(Head(sync_answer)))
  /\ UNCHANGED <<service, rows, loading, syncs, failures, history>>

sync_commit ==
  /\ sync_answer = <<>> /\ sync_queries # <<>>
  /\ ~Conflict(sync_queries)
  /\ rows' = Execute(sync_queries)
  /\ sync_queries' = <<>>
  /\ lost' = lost \cup sync_overtaken
  /\ UNCHANGED <<service, loading, sync_answer, syncs, failures, overtaken, sync_overtaken>>

\* Any exception: a statement fails, or there is a second barcode, which is
\* looked up in Nomenclature (table_name is not set back) and not found.
sync_give_up ==
  /\ ~Idle
  /\ sync_answer' = <<>> /\ sync_queries' = <<>>
  /\ UNCHANGED <<service, rows, loading, syncs, failures, history>>

-----------------------------------------------------------------------------
(* 1C.                                                                      *)

\* The running exchange will not fetch k any more.
Behind(k) == pc # "idle" /\ k \notin Range(batch)
               /\ ~(k \in Objects /\ k \in KeysOf(todo))

HeldBySync(k) == ~Idle /\ k \in KeysOf(Range(sync_answer) \cup Range(sync_queries))

\* Somebody edits k: the plan registers the change.
RegisterChange(k) ==
  /\ content[k] < MaxContent
  /\ content' = [content EXCEPT ![k] = @ + 1]
  /\ registered' = registered \cup {k}
  /\ overtaken' = IF Behind(k) THEN overtaken \cup {k} ELSE overtaken
  /\ sync_overtaken' = IF HeldBySync(k) THEN sync_overtaken \cup {k} ELSE sync_overtaken
  /\ lost' = lost \ {k}
  /\ UNCHANGED <<rows, loading, syncing, failures>>

-----------------------------------------------------------------------------
Exchange == exchange \/ add_information_register_record \/ collect \/ GetObjects
              \/ add_requests \/ commit \/ commit_conflict \/ EraseChange

Sync == sync_update_barcode \/ sync_look \/ sync_commit \/ sync_give_up

Next == Exchange \/ GetObjects_not_array \/ fail \/ Sync
          \/ \E k \in Keys : RegisterChange(k)

\* The task recurs (EachTaskRecurs of TaskScheduler) and blocking calls return.
Fairness == WF_vars(Exchange)

Safe == Init /\ [][Next]_vars
Spec == Safe /\ Fairness

-----------------------------------------------------------------------------
TypeOK ==
  /\ content \in [Keys -> Contents] /\ registered \subseteq Keys
  /\ rows \in [Keys -> Seq(Contents)]
  /\ pc \in {"idle", "collect", "load"}
  /\ todo \subseteq Copy /\ batch \in Seq(Objects) /\ count \in Nat
  /\ answer \in Seq(Copy) /\ queries \in Seq(Query)
  /\ sync_answer \in Seq(Copy) /\ sync_queries \in Seq(Query)
  /\ syncs \in 0..MaxSyncs /\ failures \in 0..MaxFailures
  /\ overtaken \subseteq Keys /\ sync_overtaken \subseteq Keys /\ lost \subseteq Keys

\* The number of objects in a request: the first may have one more than the
\* 1000 of max_objects, no other.
RequestSize == Len(batch) <= count /\ count <= BatchSize + 1

Latest(k) == rows[k] # <<>> /\ rows[k][Len(rows[k])] = content[k]

\* A change that is not in the database is still registered, whatever failed
\* and whenever -- unless the exchange that cleared the registration was
\* overtaken by the change or was not given the object, or a command wrote an
\* older copy.
UnloadedIsRegistered == \A k \in Keys : Latest(k) \/ k \in registered \cup lost

\* Two writers who look before either writes can give a barcode two rows, but
\* however often exchange and commands repeat, never a third; and an object one.
RowsBounded == \A k \in Keys : Len(rows[k]) <= IF k \in Objects THEN 1 ELSE 2

-----------------------------------------------------------------------------
(* What makes these inductive.                                              *)

\* What each phase of the function has left behind.
Shape ==
  /\ pc = "idle" => todo = {} /\ batch = <<>> /\ answer = <<>> /\ queries = <<>>
  /\ pc = "load" => todo = {} /\ batch = <<>>
  /\ answer # <<>> => batch = <<>>

OnceByKey(s) == \A i, j \in 1..Len(s) : s[i].key = s[j].key => i = j

\* A listed key is in one place of the four only, and there once.
Distinct ==
  /\ \A c, d \in todo : c.key = d.key => c = d
  /\ \A i, j \in 1..Len(batch) : batch[i] = batch[j] => i = j
  /\ OnceByKey(answer) /\ OnceByKey(queries)
  /\ KeysOf(todo) \cap Range(batch) = {}
  /\ KeysOf(Range(answer)) \cap KeysOf(Range(queries)) = {}
  /\ (KeysOf(todo) \cup Range(batch))
       \cap (KeysOf(Range(answer)) \cup KeysOf(Range(queries))) = {}

Underway == KeysOf(todo) \cup Range(batch) \cup KeysOf(Range(answer))
              \cup KeysOf(Range(queries))

\* What the exchange deals with stays registered until the end ...
Listed == pc # "idle" => Underway \cup overtaken \subseteq registered

\* ... and what is registered is dealt with, if it was not overtaken.
Accounted ==
  pc # "idle" =>
    \A k \in registered : k \in Underway \cup overtaken \cup lost \/ Latest(k)

UpToDate(c, behind) == c.key \in behind \/ c.content = content[c.key]

\* A copy that was not overtaken is the content in 1C.
Fresh ==
  /\ \A c \in Range(answer) \cup Range(queries) : UpToDate(c, overtaken)
  /\ \A c \in todo : c.key \in Barcodes => UpToDate(c, overtaken)
  /\ \A c \in Range(sync_answer) \cup Range(sync_queries) : UpToDate(c, sync_overtaken)

\* The row an update was made for is still the last one, or a later one has
\* been inserted by the command, and with the content in 1C.
Targets ==
  /\ \A q \in Range(queries) :
       /\ q.at <= Len(rows[q.key])
       /\ q.key \in overtaken \cup lost \/ q.at \in {0, Len(rows[q.key])} \/ Latest(q.key)
  /\ \A q \in Range(sync_queries) : q.at <= Len(rows[q.key])

Inserting(qs, k) == \E q \in Range(qs) : q.key = k /\ q.at = 0

\* An insert was decided on when there was no row.
RowsAccounted ==
  \A k \in Barcodes :
    /\ Inserting(queries, k) /\ Inserting(sync_queries, k) => rows[k] = <<>>
    /\ Inserting(queries, k) \/ Inserting(sync_queries, k) => Len(rows[k]) <= 1

\* Nobody knows a content that 1C has not had.
Past ==
  /\ \A k \in Keys : \A i \in 1..Len(rows[k]) : rows[k][i] <= content[k]
  /\ \A c \in todo \cup Range(answer) \cup Range(queries)
                \cup Range(sync_answer) \cup Range(sync_queries) :
       c.content <= content[c.key]

IInv == /\ TypeOK /\ RequestSize /\ UnloadedIsRegistered /\ RowsBounded
        /\ Shape /\ Distinct /\ Listed /\ Accounted /\ Fresh /\ Targets
        /\ RowsAccounted /\ Past

-----------------------------------------------------------------------------
\* A row is replaced by an older content only if 1C has changed it while one
\* of the two writers held a copy.
BackwardsOnlyIfOvertaken ==
  [][\A k \in Keys :
       rows[k] # <<>> /\ rows'[k][Len(rows'[k])] < rows[k][Len(rows[k])]
         => k \in overtaken \cup sync_overtaken]_vars

\* What is registered is loaded in the end, although exchanges fail and
\* although inserts collide with those of the command.
RegisteredIsLoaded ==
  \A k \in Keys : (k \in registered) ~> (Latest(k) \/ k \in lost)
=============================================================================
