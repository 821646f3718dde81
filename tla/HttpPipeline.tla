----------------------------- MODULE HttpPipeline -----------------------------
(***************************************************************************)
(* http_session<Derived>: one HTTP connection of the server, with the        *)
(* bounded queue of pipelined responses.  Its handlers run on one strand, so *)
(* each is a single step; what interleaves is the order in which the         *)
(* outstanding read and the outstanding write complete.                      *)
(***************************************************************************)
EXTENDS Naturals, Sequences

CONSTANTS
  Requests,         \* the requests a client may send, a subset of Request
  UseAuthorization, \* shared_state::use_authorization()
  Limit,            \* http_session::queue::limit (8)
  MaxRequests       \* bound: requests on one connection

Methods == {"get", "head", "post", "other"}
Targets == {"root", "files", "favicon", "api", "page"}

\* What on_read() looks at.  `auth': verify_connection() accepts the header;
\* `blob': a multipart GET that names a file; `close': Connection: close.
Request == [method : Methods, target : Targets, auth : BOOLEAN, blob : BOOLEAN,
            close : BOOLEAN, upgrade : BOOLEAN]

ASSUME PipelineAssumption ==
  /\ Requests \subseteq Request
  /\ UseAuthorization \in BOOLEAN
  /\ Limit \in Nat \ {0}
  /\ MaxRequests \in Nat

VARIABLES
  items,    \* queue::items_, the responses not yet written
  reads,    \* outstanding async_reads
  writes,   \* outstanding async_writes
  doomed,   \* the outstanding write was started on a shut or moved-from stream
  shut,     \* do_eof() has shut the sending side down
  released, \* release_stream(): a websocket_session owns the socket
  failed,   \* history: a read or a write has failed
  received, \* history: requests read
  wire      \* history: responses written

vars == <<items, reads, writes, doomed, shut, released, failed, received, wire>>

Statuses == {"ok", "bad_request", "not_found", "server_error", "unauthorized"}

Response == [id : Nat, req : Request, status : Statuses, close : BOOLEAN]

\* run() calls do_read().
Init ==
  /\ items = <<>> /\ reads = 1 /\ writes = 0 /\ doomed = FALSE
  /\ shut = FALSE /\ released = FALSE /\ failed = FALSE
  /\ received = 0 /\ wire = <<>>

-----------------------------------------------------------------------------
(* The queue.  Every name that ends in a mutation is used by no action.     *)

IsFullLate(q) == Len(q) > Limit
IsFull(q) == Len(q) >= Limit

StartAlways(q) == TRUE
\* operator(): "If there was no previous work, start this one".
StartNow(q) == Len(q) = 1

WithoutLast(q) == SubSeq(q, 1, Len(q) - 1)
\* on_write(): items_.erase(items_.begin()).
Erase(q) == Tail(q)

NextForgotten(q) == FALSE
\* on_write(): start the next response, if there is one.
StartNext(q) == q # <<>>

ReadIfStillFull(q) == IsFull(Erase(q))
\* on_write() returns was_full: the queue before the erasure.
ReadAgain(q) == IsFull(q)

One(b) == IF b THEN 1 ELSE 0

-----------------------------------------------------------------------------
(* What is answered to a request.                                           *)

Authorized(r) == UseAuthorization /\ r.auth

Reply(r, status) == [req |-> r, status |-> status, close |-> r.close]

\* handle_request() of http.hpp: a POST falls off its end unanswered.
Document(r) ==
  CASE r.method \in {"get", "head"} ->
         {<<Reply(r, s)>> : s \in {"ok", "not_found", "server_error"}}
    [] r.method = "other" -> {<<Reply(r, "bad_request")>>}
    [] r.method = "post"  -> {<<>>}

\* The same after parser_->release() was called before: the message has been
\* moved from, its target is empty and its fields, Connection too, are gone.
MovedFrom(r) ==
  {<<[req |-> r, status |-> "bad_request", close |-> FALSE]>>}

\* The requests served to anybody from the document root, before release().
Public(r) == UseAuthorization /\ ~r.auth /\ r.target \in {"root", "files"}

\* The branches of on_read(): possible answers, and whether the handler goes
\* on to its last statement, the read of the next request.
Answer(r, replies, more) ==
  \/ Public(r) /\ replies \in Document(r) /\ ~more
  \/ /\ ~Authorized(r) /\ ~Public(r) /\ ~more
     /\ \/ r.target \in {"root", "favicon"} /\ replies \in MovedFrom(r)
        \/ r.target = "api" /\ r.method = "get" /\ replies = <<Reply(r, "ok")>>
        \/ /\ r.target \notin {"root", "favicon"}
           /\ ~(r.target = "api" /\ r.method = "get")
           /\ replies = <<Reply(r, "unauthorized")>>
  \/ /\ Authorized(r)
     /\ r.method = "post" \/ (r.method = "get" /\ r.blob)
     /\ \/ replies = <<Reply(r, "ok")>> /\ more
        \/ replies = <<Reply(r, "bad_request")>> /\ ~more
  \/ /\ Authorized(r)
     /\ ~(r.method = "post" \/ (r.method = "get" /\ r.blob))
     /\ replies \in MovedFrom(r) /\ more

-----------------------------------------------------------------------------
\* queue_(msg): store the response, and start it if it is alone.
Push(replies) ==
  LET stamped == [i \in DOMAIN replies |->
                    [id |-> received + 1, req |-> replies[i].req,
                     status |-> replies[i].status, close |-> replies[i].close]]
      start == replies # <<>> /\ StartNow(items \o stamped)
  IN  /\ items' = items \o stamped
      /\ writes' = writes + One(start)
      /\ doomed' = IF start THEN shut \/ released ELSE doomed

on_read(r) ==
  /\ reads > 0 /\ received < MaxRequests
  /\ received' = received + 1
  /\ ~r.upgrade
  /\ \E more \in BOOLEAN, replies \in Document(r) \cup MovedFrom(r)
                             \cup {<<Reply(r, s)>> : s \in Statuses} :
       /\ Answer(r, replies, more)
       /\ Push(replies)
       /\ reads' = reads - 1 + One(more /\ ~IsFull(items'))
  /\ UNCHANGED <<shut, released, failed, wire>>

\* The upgrade gives the stream away, whatever the queue is still writing.
on_upgrade(r) ==
  /\ reads > 0 /\ received < MaxRequests
  /\ r.upgrade
  /\ received' = received + 1
  /\ reads' = reads - 1
  /\ released' = TRUE
  /\ UNCHANGED <<items, writes, doomed, shut, failed, wire>>

\* end_of_stream: the client has closed its side.
on_end_of_stream ==
  /\ reads > 0
  /\ reads' = reads - 1
  /\ shut' = TRUE
  /\ UNCHANGED <<items, writes, doomed, released, failed, received, wire>>

\* An error or the 30 s timeout.
on_read_failed ==
  /\ reads > 0
  /\ reads' = reads - 1
  /\ failed' = TRUE
  /\ UNCHANGED <<items, writes, doomed, shut, released, received, wire>>

\* A mutant of on_write: it goes on after do_eof().
on_write_after_eof ==
  /\ writes > 0 /\ ~doomed
  /\ wire' = Append(wire, Head(items))
  /\ items' = Erase(items)
  /\ writes' = writes - 1 + One(StartNext(items'))
  /\ reads' = reads + One(ReadAgain(items))
  /\ UNCHANGED <<doomed, shut, released, failed, received>>

\* A response has been written.  One that needs the end of the stream shuts it
\* down and stays at the head of the queue: nothing behind it is ever started.
on_write ==
  /\ writes > 0 /\ ~doomed
  /\ wire' = Append(wire, Head(items))
  /\ IF Head(items).close
     THEN /\ shut' = TRUE
          /\ writes' = writes - 1
          /\ UNCHANGED <<items, reads, doomed>>
     ELSE /\ items' = Erase(items)
          /\ writes' = writes - 1 + One(StartNext(items'))
          /\ doomed' = (StartNext(items') /\ (shut \/ released))
          /\ reads' = reads + One(ReadAgain(items))
          /\ UNCHANGED shut
  /\ UNCHANGED <<released, failed, received>>

on_write_failed ==
  /\ writes > 0
  /\ writes' = writes - 1
  /\ failed' = TRUE
  /\ UNCHANGED <<items, reads, doomed, shut, released, received, wire>>

Next ==
  \/ \E r \in Requests : on_read(r) \/ on_upgrade(r)
  \/ on_end_of_stream \/ on_read_failed
  \/ on_write \/ on_write_failed

\* A write completes: the peer takes it, or an error or the timeout ends it.
\* Nobody is obliged to send a request.
Fairness == WF_vars(on_write \/ on_write_failed)

Safe == Init /\ [][Next]_vars
Spec == Safe /\ Fairness

-----------------------------------------------------------------------------
TypeOK ==
  /\ items \in Seq(Response) /\ wire \in Seq(Response)
  /\ reads \in 0..1 /\ writes \in 0..1
  /\ doomed \in BOOLEAN /\ shut \in BOOLEAN
  /\ released \in BOOLEAN /\ failed \in BOOLEAN
  /\ received \in 0..MaxRequests

\* The connection is being closed, has failed or is a websocket now.
Cut == shut \/ failed \/ released

\* "Maximum number of responses we will queue": never more, although the
\* test of on_read() and the resumption by on_write() are far apart.
LimitRespected == Len(items) <= Limit

\* Beast allows one read and one write of a stream at a time: a read resumed
\* by on_write() never joins one that on_read() has started, and a response
\* is never started while another is being written.
OneOperationEach ==
  /\ reads <= 1 /\ writes <= 1
  /\ writes = 1 => items # <<>>
  /\ reads = 1 => ~IsFull(items)

\* A response that closes the connection has been written.
Closed == \E i \in 1..Len(wire) : wire[i].close

\* The response that closes the connection stays in the queue when written.
Unwritten == IF Closed /\ items # <<>> THEN Tail(items) ELSE items

Ordered(all, last) ==
  /\ \A i, j \in 1..Len(all) : i < j => all[i].id < all[j].id
  /\ \A i \in 1..Len(all) : all[i].id <= last

\* Responses leave in the order of their requests, each at most once.
InOrder == Ordered(wire \o Unwritten, received)

\* Nothing is written behind the response that announced the end of the
\* connection, however many requests were pipelined behind it.
NothingAfterClose == [][wire' # wire => ~Closed]_vars

\* Why nothing follows: the response that closed holds the front of the queue.
ClosedIsSilent == Closed => writes = 0 /\ items # <<>>

\* The invariant that is inductive.
IInv == TypeOK /\ LimitRespected /\ OneOperationEach /\ ClosedIsSilent /\ InOrder

\* Every queued response is written in the end, unless the connection is cut.
QueuedIsWritten ==
  \A n \in 1..MaxRequests :
    (\E i \in 1..Len(items) : items[i].id = n)
      ~> (Cut \/ \E i \in 1..Len(wire) : wire[i].id = n)

\* A connection whose queue has been full reads requests again.
FullReadsAgain == IsFull(items) ~> (Cut \/ reads = 1)
=============================================================================
