-------------------------- MODULE WebsocketSession --------------------------
(***************************************************************************)
(* One server-side websocket_session<Derived>: its outgoing queue_ and its  *)
(* read buffer_, as the handlers on the session's strand change them.       *)
(*                                                                          *)
(* Any thread may call send_message(), which posts on_send() to the strand; *)
(* the handlers themselves never overlap.  async_read is a composed         *)
(* operation: every piece of a message is read by a step of its own, and    *)
(* other handlers of the strand run between two pieces.                     *)
(***************************************************************************)
EXTENDS Naturals, Sequences

CONSTANTS
  Messages,    \* outgoing texts
  Chunks,      \* what a piece of an incoming message may hold
  MaxPosts,    \* bound: calls of send_message
  MaxPieces    \* bound: pieces an incoming message arrives in

ASSUME SessionAssumption ==
  /\ MaxPosts \in Nat
  /\ MaxPieces \in Nat \ {0}

VARIABLES
  sent,        \* history: the messages of all send_message() calls, in order
  strand,      \* posted on_send() handlers that have not run yet
  queue_,      \* websocket_session::queue_
  inflight,    \* async_write operations whose handler has not run yet
  wire,        \* history: messages whose async_write succeeded
  write_error, \* on_write() was called with an error
  reading,     \* an async_read is outstanding
  store,       \* memory behind the flat_buffer buffer_, one cell per piece
  readable,    \* buffer_.size(): pieces between its in_ and out_ pointers
  prepared,    \* cell that buffer_.prepare() gave to the outstanding read
  incoming,    \* history: pieces of the message being read, as sent
  delivered    \* history: last deliver(): the text, and what the peer sent

writeVars == <<sent, strand, queue_, inflight, wire, write_error>>
readVars  == <<reading, store, readable, prepared, incoming, delivered>>
vars == <<writeVars, readVars>>

Nothing == [text |-> <<>>, sent |-> <<>>]

\* The first read of on_accept() is outstanding.
Init ==
  /\ sent = <<>> /\ strand = <<>> /\ queue_ = <<>> /\ inflight = <<>>
  /\ wire = <<>> /\ write_error = FALSE
  /\ reading = TRUE
  /\ store \in [1..MaxPieces -> Chunks]
  /\ readable = 0 /\ prepared = 1
  /\ incoming = <<>> /\ delivered = Nothing

-----------------------------------------------------------------------------
(* Writing.                                                                *)

\* Any thread: post on_send(ss) to the strand.
send_message(m) ==
  /\ Len(sent) < MaxPosts
  /\ sent' = Append(sent, m)
  /\ strand' = Append(strand, m)
  /\ UNCHANGED <<queue_, inflight, wire, write_error, readVars>>

NeverWriting(q) == FALSE   \* mutant: the test is lost

\* "Are we already writing?", asked after the push_back.
AlreadyWriting(q) == Len(q) > 1

Replace(q, m) == <<m>>   \* mutant: the queue is cleared first

\* "Always add to queue".
Enqueue(q, m) == Append(q, m)

on_send ==
  /\ strand # <<>>
  /\ strand' = Tail(strand)
  /\ queue_' = Enqueue(queue_, Head(strand))
  /\ inflight' = IF AlreadyWriting(queue_') THEN inflight
                                            ELSE Append(inflight, Head(queue_'))
  /\ UNCHANGED <<sent, wire, write_error, readVars>>

NextWriteForgotten(q) == <<>>   \* mutant: do_write() only erases

\* The async_write that do_write() starts, if the queue has a message left.
NextWrite(q) == IF q = <<>> THEN <<>> ELSE <<Head(q)>>

\* on_write() without error, do_write() included.  "Clear the buffer"
\* consumes the READ buffer: the outstanding read keeps its prepared cell.
on_write ==
  /\ inflight # <<>>
  /\ wire' = Append(wire, Head(inflight))
  /\ queue_' = Tail(queue_)
  /\ inflight' = Tail(inflight) \o NextWrite(queue_')
  /\ readable' = 0
  /\ UNCHANGED <<sent, strand, write_error>>
  /\ UNCHANGED <<reading, store, prepared, incoming, delivered>>

\* on_write() with an error returns at once: the front stays in queue_.
on_write_failed ==
  /\ inflight # <<>>
  /\ inflight' = Tail(inflight)
  /\ write_error' = TRUE
  /\ UNCHANGED <<sent, strand, queue_, wire, readVars>>

-----------------------------------------------------------------------------
(* Reading.  The bytes of a piece land in the prepared cell; commit() then  *)
(* makes one more cell readable.                                            *)

\* Mutant: prepare() hands out the same cell again.
read_some_in_place(c) ==
  /\ reading
  /\ Len(incoming) + 1 < MaxPieces
  /\ incoming' = Append(incoming, c)
  /\ store' = [store EXCEPT ![prepared] = c]
  /\ readable' = readable + 1
  /\ UNCHANGED <<prepared, reading, delivered, writeVars>>

\* A piece that does not end the message: prepare() reserves the next cell.
read_some(c) ==
  /\ reading
  /\ Len(incoming) + 1 < MaxPieces
  /\ incoming' = Append(incoming, c)
  /\ store' = [store EXCEPT ![prepared] = c]
  /\ readable' = readable + 1
  /\ prepared' = readable + 2
  /\ UNCHANGED <<reading, delivered, writeVars>>

\* What buffer_.consume(buffer_.size()) leaves readable of n pieces.
Consume(n) == 0

\* The last piece: on_read() delivers buffer_.data(), consumes the buffer
\* and reads again.
on_read(c) ==
  /\ reading
  /\ Len(incoming) < MaxPieces
  /\ store' = [store EXCEPT ![prepared] = c]
  /\ delivered' = [text |-> SubSeq(store', 1, readable + 1),
                   sent |-> Append(incoming, c)]
  /\ readable' = Consume(readable + 1)
  /\ prepared' = readable' + 1
  /\ incoming' = <<>>
  /\ UNCHANGED <<reading, writeVars>>

\* eof, closed or any other error: no further read is started.
on_read_failed ==
  /\ reading
  /\ reading' = FALSE
  /\ UNCHANGED <<store, readable, prepared, incoming, delivered, writeVars>>

-----------------------------------------------------------------------------
Next ==
  \/ \E m \in Messages : send_message(m)
  \/ on_send
  \/ on_write
  \/ on_write_failed
  \/ \E c \in Chunks : read_some(c) \/ on_read(c)
  \/ on_read_failed

\* The io_context threads run every handler that is ready, and the timeouts
\* of the websocket stream end every write, with success or an error.
Fairness == WF_vars(on_send) /\ WF_vars(on_write \/ on_write_failed)

Safe == Init /\ [][Next]_vars
Spec == Safe /\ Fairness

-----------------------------------------------------------------------------
TypeOK ==
  /\ sent \in Seq(Messages) /\ strand \in Seq(Messages)
  /\ queue_ \in Seq(Messages) /\ inflight \in Seq(Messages)
  /\ wire \in Seq(Messages) /\ write_error \in BOOLEAN
  /\ reading \in BOOLEAN
  /\ store \in [1..MaxPieces -> Chunks]
  /\ readable \in 0..MaxPieces - 1 /\ prepared \in 1..MaxPieces
  /\ incoming \in Seq(Chunks)
  /\ delivered \in [text : Seq(Chunks), sent : Seq(Chunks)]

\* At most one async_write is outstanding, and the buffer it reads from is
\* kept alive by the front of queue_ (what the stream requires of on_send()
\* and do_write() between them).
WriteExclusive ==
  /\ Len(inflight) <= 1
  /\ inflight # <<>> => queue_ # <<>> /\ Head(inflight) = Head(queue_)

\* A write is outstanding exactly while there is something to write and no
\* write has failed: a session never sits on a queue nobody is writing.
WriteOutstanding == (inflight # <<>>) = (queue_ # <<>> /\ ~write_error)

\* Whatever the interleaving of posts and handlers, each message is on the
\* wire, queued or posted, once, and in the order of the send_message() calls.
NoLossNoReorder == sent = wire \o queue_ \o strand

\* The early return of on_write() leaves the failed message at the front, so
\* that no later on_send() writes to a stream whose last frame is cut short.
NoWriteAfterError == [][write_error => inflight' = <<>>]_vars

\* A message during which no write completed is delivered as it was sent,
\* however many pieces it came in and whatever was read before it.
IntactWhenUndisturbed ==
  [][readable = Len(incoming) /\ delivered' # delivered
       => delivered'.text = delivered'.sent]_vars

\* Why the above hold: the outstanding write is determined by the queue, and
\* a disturbed message never catches up with the pieces it has lost.
WriteState ==
  /\ inflight = IF write_error THEN <<>> ELSE NextWrite(queue_)
  /\ write_error => queue_ # <<>>

ReadState ==
  /\ Len(incoming) < MaxPieces
  /\ readable <= Len(incoming) /\ prepared <= Len(incoming) + 1
  /\ readable = Len(incoming) =>
       /\ prepared = readable + 1
       /\ \A i \in 1..readable : store[i] = incoming[i]

IInv == TypeOK /\ WriteState /\ ReadState /\ NoLossNoReorder

\* Every message is delivered as the peer sent it ("Read a message into our
\* buffer").  on_write() breaks it between two pieces of a message.
MessageIntact == delivered.text = delivered.sent

\* The outgoing half implements the abstract channel: order, no duplicate,
\* and, under Fairness, every message written unless a write fails.
Fifo == INSTANCE FifoChannel
          WITH accepted <- sent, written <- wire, broken <- write_error
FifoSpec == Fifo!FifoSpec

=============================================================================
