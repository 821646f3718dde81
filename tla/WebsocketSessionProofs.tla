----------------------- MODULE WebsocketSessionProofs -----------------------
(***************************************************************************)
(* IInv is inductive, whatever the texts, the number of posts and the       *)
(* number of pieces; the safety properties of WebsocketSession follow, and  *)
(* its outgoing half implements FifoChannel.                                *)
(***************************************************************************)
EXTENDS WebsocketSession, SequenceTheorems, TLAPS

-----------------------------------------------------------------------------
(* Sequences.                                                              *)

\* A queue is its head followed by its tail (do_write() erases the front).
LEMMA HeadThenTail ==
  ASSUME NEW S, NEW q \in Seq(S), q # <<>>
  PROVE  /\ Head(q) \in S /\ Tail(q) \in Seq(S)
         /\ q = <<Head(q)>> \o Tail(q)
OBVIOUS

\* on_write() moves the head of the queue to the end of the wire.
LEMMA ShiftLeft ==
  ASSUME NEW S, NEW p \in Seq(S), NEW q \in Seq(S), NEW r \in Seq(S), q # <<>>
  PROVE  Append(p, Head(q)) \o Tail(q) \o r = p \o q \o r
<1>1. Append(p, Head(q)) = p \o <<Head(q)>>
  OBVIOUS
<1> QED
  BY <1>1, HeadThenTail

\* on_send() moves the head of the strand to the end of the queue.
LEMMA ShiftMiddle ==
  ASSUME NEW S, NEW p \in Seq(S), NEW q \in Seq(S), NEW r \in Seq(S), r # <<>>
  PROVE  p \o Append(q, Head(r)) \o Tail(r) = p \o q \o r
<1>1. Append(q, Head(r)) = q \o <<Head(r)>>
  OBVIOUS
<1>2. r = <<Head(r)>> \o Tail(r) /\ <<Head(r)>> \in Seq(S) /\ Tail(r) \in Seq(S)
  BY HeadThenTail
<1>3. p \o (q \o <<Head(r)>>) = (p \o q) \o <<Head(r)>>
  BY <1>2, ConcatAssociative
<1>4. p \o q \in Seq(S)
  OBVIOUS
<1>5. ((p \o q) \o <<Head(r)>>) \o Tail(r) = (p \o q) \o (<<Head(r)>> \o Tail(r))
  BY <1>2, <1>4, ConcatAssociative
<1> QED
  BY <1>1, <1>2, <1>3, <1>5

\* send_message() appends to the strand, the last of the three parts.
LEMMA AppendLast ==
  ASSUME NEW S, NEW p \in Seq(S), NEW q \in Seq(S), NEW r \in Seq(S), NEW m \in S
  PROVE  p \o q \o Append(r, m) = Append(p \o q \o r, m)
<1>1. p \o q \in Seq(S)
  OBVIOUS
<1> QED
  BY <1>1

-----------------------------------------------------------------------------
(* The inductive invariant.                                                *)

\* Initially nothing is queued or read.
LEMMA InitIInv == Init => IInv
<1> SUFFICES ASSUME Init PROVE IInv
  OBVIOUS
<1> USE SessionAssumption DEF SessionAssumption, Init
<1>1. TypeOK
  <2>1. delivered \in [text : Seq(Chunks), sent : Seq(Chunks)]
    BY DEF Nothing
  <2>2. readable \in 0..MaxPieces - 1 /\ prepared \in 1..MaxPieces
    OBVIOUS
  <2> QED
    BY <2>1, <2>2, EmptySeq DEF TypeOK
<1>2. WriteState
  BY DEF WriteState, NextWrite
<1>3. ReadState
  BY DEF ReadState
<1>4. NoLossNoReorder
  BY DEF NoLossNoReorder
<1> QED
  BY <1>1, <1>2, <1>3, <1>4 DEF IInv

\* No step of Next leaves the types.
LEMMA TypeStep == IInv /\ [Next]_vars => TypeOK'
<1> SUFFICES ASSUME IInv, [Next]_vars PROVE TypeOK'
  OBVIOUS
<1> USE SessionAssumption DEF SessionAssumption, IInv, TypeOK, readVars, writeVars
<1>1. ASSUME NEW m \in Messages, send_message(m) PROVE TypeOK'
  BY <1>1 DEF send_message
<1>2. CASE on_send
  BY <1>2, HeadThenTail DEF on_send, Enqueue
<1>3. CASE on_write
  <2>1. inflight = <<Head(queue_)>> /\ queue_ # <<>> /\ Head(inflight) = Head(queue_)
    BY <1>3 DEF on_write, WriteState, NextWrite
  <2>2. Head(queue_) \in Messages /\ Tail(queue_) \in Seq(Messages)
    BY <2>1, HeadThenTail
  <2>3. NextWrite(Tail(queue_)) \in Seq(Messages)
    <3>1. CASE Tail(queue_) = <<>>
      BY <3>1 DEF NextWrite
    <3>2. CASE Tail(queue_) # <<>>
      BY <2>2, <3>2, HeadThenTail DEF NextWrite
    <3> QED
      BY <3>1, <3>2
  <2> QED
    BY <1>3, <2>1, <2>2, <2>3 DEF on_write
<1>4. CASE on_write_failed
  BY <1>4, HeadThenTail DEF on_write_failed
<1>5. ASSUME NEW c \in Chunks, read_some(c) PROVE TypeOK'
  BY <1>5 DEF read_some, ReadState
<1>6. ASSUME NEW c \in Chunks, on_read(c) PROVE TypeOK'
  <2>1. store' \in [1..MaxPieces -> Chunks]
    BY <1>6 DEF on_read
  <2>2. readable + 1 \in 1..MaxPieces
    OBVIOUS
  <2>3. SubSeq(store', 1, readable + 1) \in Seq(Chunks)
    BY <2>1, <2>2
  <2>4. delivered' \in [text : Seq(Chunks), sent : Seq(Chunks)]
    BY <1>6, <2>3 DEF on_read
  <2> QED
    BY <1>6, <2>1, <2>4 DEF on_read, Consume
<1>7. CASE on_read_failed
  BY <1>7 DEF on_read_failed
<1>8. CASE UNCHANGED vars
  BY <1>8 DEF vars
<1> QED
  BY <1>1, <1>2, <1>3, <1>4, <1>5, <1>6, <1>7, <1>8 DEF Next

\* The outstanding write stays the one the queue calls for.
LEMMA WriteStep == IInv /\ [Next]_vars => WriteState'
<1> SUFFICES ASSUME IInv, [Next]_vars PROVE WriteState'
  OBVIOUS
<1> USE DEF IInv, TypeOK, WriteState, NextWrite, readVars, writeVars
<1>1. CASE on_send
  <2> DEFINE m == Head(strand)
  <2>1. m \in Messages /\ queue_' = Append(queue_, m) /\ write_error' = write_error
    BY <1>1, HeadThenTail DEF on_send, Enqueue
  <2>2. inflight' = IF Len(queue_') > 1 THEN inflight
                                        ELSE Append(inflight, Head(queue_'))
    BY <1>1 DEF on_send, AlreadyWriting
  <2> HIDE DEF m
  <2>3. CASE queue_ = <<>>
    <3>1. queue_' = <<m>> /\ inflight = <<>> /\ ~write_error
      BY <2>1, <2>3
    <3>2. inflight' = <<m>> /\ Head(queue_') = m /\ queue_' # <<>>
      <4>1. /\ Len(<<m>>) = 1 /\ Head(<<m>>) = m /\ <<m>> # <<>>
            /\ Append(<<>>, m) = <<m>>
        OBVIOUS
      <4> QED
        BY ONLY <2>2, <3>1, <4>1
    <3> QED
      BY <2>1, <3>1, <3>2
  <2>4. CASE queue_ # <<>>
    <3>1. Len(queue_') > 1 /\ Head(queue_') = Head(queue_) /\ queue_' # <<>>
      <4>1. queue_ \in Seq(Messages) /\ Len(queue_) > 0
        BY <2>4
      <4>2. Len(queue_') = Len(queue_) + 1 /\ queue_'[1] = queue_[1]
        BY <2>1, <4>1
      <4> QED
        BY <2>1, <4>1, <4>2
    <3> QED
      BY <2>1, <2>2, <2>4, <3>1
  <2> QED
    BY <2>3, <2>4
<1>2. CASE on_write
  <2>1. ~write_error /\ queue_ # <<>> /\ inflight = <<Head(queue_)>>
    BY <1>2 DEF on_write
  <2>2. ~write_error' /\ inflight' = <<>> \o NextWrite(queue_')
    BY <1>2, <2>1 DEF on_write
  <2>3. queue_' \in Seq(Messages)
    BY <1>2, <2>1, HeadThenTail DEF on_write
  <2> QED
    BY <2>2, <2>3, HeadThenTail
<1>3. CASE on_write_failed
  BY <1>3 DEF on_write_failed
<1>4. CASE UNCHANGED <<queue_, inflight, write_error>>
  BY <1>4
<1> QED
  BY <1>1, <1>2, <1>3, <1>4
  DEF Next, vars, send_message, read_some, on_read, on_read_failed

\* A message no write disturbed is in the buffer, piece for piece.
LEMMA ReadStep == IInv /\ [Next]_vars => ReadState'
<1> SUFFICES ASSUME IInv, [Next]_vars PROVE ReadState'
  OBVIOUS
<1> USE SessionAssumption
    DEF SessionAssumption, IInv, TypeOK, ReadState, readVars, writeVars
<1>1. CASE on_write
  <2>1. readable' = 0 /\ UNCHANGED <<store, prepared, incoming>>
    BY <1>1 DEF on_write
  <2>2. CASE Len(incoming) = 0
    BY <2>1, <2>2
  <2>3. CASE Len(incoming) # 0
    BY <2>1, <2>3
  <2> QED
    BY <2>2, <2>3
<1>2. ASSUME NEW c \in Chunks, read_some(c) PROVE ReadState'
  BY <1>2 DEF read_some
<1>3. ASSUME NEW c \in Chunks, on_read(c) PROVE ReadState'
  BY <1>3 DEF on_read, Consume
<1>4. CASE UNCHANGED <<store, readable, prepared, incoming>>
  BY <1>4
<1> QED
  BY <1>1, <1>2, <1>3, <1>4
  DEF Next, vars, send_message, on_send, on_write_failed, on_read_failed

\* Messages only move from one part to the next, in order.
LEMMA OrderStep == IInv /\ [Next]_vars => NoLossNoReorder'
<1> SUFFICES ASSUME IInv, [Next]_vars PROVE NoLossNoReorder'
  OBVIOUS
<1> USE DEF IInv, TypeOK, NoLossNoReorder
<1> DEFINE M == Messages
<1>0. wire \in Seq(M) /\ queue_ \in Seq(M) /\ strand \in Seq(M)
  OBVIOUS
<1>1. ASSUME NEW m \in Messages, send_message(m) PROVE NoLossNoReorder'
  <2>1. wire \o queue_ \o Append(strand, m) = Append(wire \o queue_ \o strand, m)
    <3>1. m \in M
      OBVIOUS
    <3> HIDE DEF M, IInv, TypeOK
    <3> QED
      BY ONLY <1>0, <3>1, AppendLast
  <2> QED
    BY <1>1, <2>1 DEF send_message
<1>2. CASE on_send
  <2>1. wire \o Append(queue_, Head(strand)) \o Tail(strand) = wire \o queue_ \o strand
    <3>1. strand # <<>>
      BY <1>2 DEF on_send
    <3> HIDE DEF M, IInv, TypeOK
    <3>2. \A p \in Seq(M), q \in Seq(M), r \in Seq(M) :
             r # <<>> => p \o Append(q, Head(r)) \o Tail(r) = p \o q \o r
      BY ONLY ShiftMiddle
    <3> QED
      BY ONLY <1>0, <3>1, <3>2
  <2> QED
    BY <1>2, <2>1 DEF on_send, Enqueue
<1>3. CASE on_write
  <2>1. queue_ # <<>> /\ Head(inflight) = Head(queue_)
    BY <1>3 DEF on_write, WriteState, NextWrite
  <2> QED
    <3>1. Append(wire, Head(queue_)) \o Tail(queue_) \o strand = wire \o queue_ \o strand
      <4> HIDE DEF M, IInv, TypeOK
      <4> QED
        BY ONLY <1>0, <2>1, ShiftLeft
    <3> QED
      BY <1>3, <2>1, <3>1 DEF on_write
<1>4. CASE UNCHANGED <<sent, wire, queue_, strand>>
  BY <1>4
<1> QED
  BY <1>1, <1>2, <1>3, <1>4
  DEF Next, vars, writeVars, on_write_failed, read_some, on_read, on_read_failed

\* Every step preserves the inductive invariant.
LEMMA NextIInv == IInv /\ [Next]_vars => IInv'
BY TypeStep, WriteStep, ReadStep, OrderStep DEF IInv

-----------------------------------------------------------------------------
(* The theorems.                                                           *)

\* The inductive invariant, and with it TypeOK, holds of every session.
THEOREM Invariance == Safe => []IInv
<1> QED
  BY InitIInv, NextIInv, PTL DEF Safe

\* Types of a websocket_session's queue_, buffer_ and pending operations.
THEOREM TypeCorrect == Safe => []TypeOK
<1>1. IInv => TypeOK
  BY DEF IInv
<1> QED
  BY <1>1, Invariance, PTL

\* on_send() and do_write() never overlap two async_writes, and the text being
\* written is kept alive by the front of queue_.
THEOREM Exclusive == Safe => []WriteExclusive
<1>1. IInv => WriteExclusive
  BY DEF IInv, TypeOK, WriteState, NextWrite, WriteExclusive
<1> QED
  BY <1>1, Invariance, PTL

\* A queue with something in it is being written, unless a write failed.
THEOREM Outstanding == Safe => []WriteOutstanding
<1>1. IInv => WriteOutstanding
  BY DEF IInv, TypeOK, WriteState, NextWrite, WriteOutstanding
<1> QED
  BY <1>1, Invariance, PTL

\* No send_message() is lost, doubled or overtaken before it is on the wire.
THEOREM InOrder == Safe => []NoLossNoReorder
<1>1. IInv => NoLossNoReorder
  BY DEF IInv
<1> QED
  BY <1>1, Invariance, PTL

\* on_write()'s early return on error leaves the queue blocked for good.
THEOREM ErrorIsFinal == Safe => NoWriteAfterError
<1>1. IInv /\ IInv' /\ [Next]_vars => [write_error => inflight' = <<>>]_vars
  <2> SUFFICES ASSUME IInv', [Next]_vars, write_error
               PROVE  inflight' = <<>> \/ UNCHANGED vars
    OBVIOUS
  <2>1. write_error' \/ UNCHANGED vars
    BY DEF Next, vars, writeVars, readVars, send_message, on_send, on_write,
           on_write_failed, read_some, on_read, on_read_failed
  <2> QED
    BY <2>1 DEF IInv, WriteState
<1> QED
  BY <1>1, Invariance, PTL DEF Safe, NoWriteAfterError

\* A message that no completed write disturbed reaches deliver() as sent.
THEOREM Intact == Safe => IntactWhenUndisturbed
<1> DEFINE Delivery == readable = Len(incoming) /\ delivered' # delivered
                         => delivered'.text = delivered'.sent
<1>1. IInv /\ [Next]_vars => [Delivery]_vars
  <2> SUFFICES ASSUME IInv, [Next]_vars, readable = Len(incoming),
                      delivered' # delivered
               PROVE  delivered'.text = delivered'.sent
    OBVIOUS
  <2> USE SessionAssumption DEF SessionAssumption, IInv, TypeOK, ReadState
  <2>1. PICK c \in Chunks : on_read(c)
    BY DEF Next, vars, writeVars, readVars, send_message, on_send, on_write,
           on_write_failed, read_some, on_read_failed
  <2> DEFINE n == readable + 1
  <2>2. /\ n \in 1..MaxPieces /\ prepared = n /\ Len(incoming) = readable
        /\ store' = [store EXCEPT ![n] = c]
        /\ delivered'.text = SubSeq(store', 1, n)
        /\ delivered'.sent = Append(incoming, c)
    BY <2>1 DEF on_read
  <2>3. \A i \in 1..n : store'[i] = Append(incoming, c)[i]
    BY <2>2
  <2>4. store' \in [1..MaxPieces -> Chunks]
    BY <2>2
  <2>5. SubSeq(store', 1, n) = [i \in 1..n |-> store'[i]]
    BY <2>2, <2>4
  <2>6. /\ Append(incoming, c) \in Seq(Chunks) /\ Len(Append(incoming, c)) = n
        /\ SubSeq(store', 1, n) \in Seq(Chunks) /\ Len(SubSeq(store', 1, n)) = n
    BY <2>2, <2>4, <2>5
  <2>7. \A i \in 1..n : SubSeq(store', 1, n)[i] = Append(incoming, c)[i]
    BY <2>3, <2>5
  <2>8. SubSeq(store', 1, n) = Append(incoming, c)
    BY ONLY <2>6, <2>7, SeqEqual
  <2> QED
    BY <2>2, <2>8
<1> QED
  BY <1>1, Invariance, PTL DEF Safe, IntactWhenUndisturbed

\* Seen from outside, a session's outgoing half is the FIFO channel.
THEOREM ImplementsFifo == Safe => Fifo!FifoSafe
<1> USE DEF Fifo!FifoInit, Fifo!fifoVars
<1>1. Init => Fifo!FifoInit
  BY DEF Init
<1>2. IInv /\ [Next]_vars => [Fifo!FifoNext]_(Fifo!fifoVars)
  <2> SUFFICES ASSUME IInv, [Next]_vars
               PROVE  Fifo!FifoNext \/ UNCHANGED <<sent, wire, write_error>>
    OBVIOUS
  <2> USE DEF Fifo!FifoNext
  <2>1. ASSUME NEW m \in Messages, send_message(m) PROVE Fifo!FifoNext
    BY <2>1 DEF send_message, Fifo!Accept
  <2>2. CASE on_write
    <3>1. ~write_error /\ queue_ # <<>> /\ Head(inflight) = Head(queue_)
      BY <2>2 DEF on_write, IInv, WriteState, NextWrite
    <3>2. Len(wire) < Len(sent) /\ sent[Len(wire) + 1] = Head(queue_)
      BY <3>1 DEF IInv, TypeOK, NoLossNoReorder
    <3> QED
      BY <2>2, <3>1, <3>2 DEF on_write, Fifo!Write
  <2>3. CASE on_write_failed
    <3>1. ~write_error /\ queue_ # <<>>
      BY <2>3 DEF on_write_failed, IInv, WriteState, NextWrite
    <3>2. Len(wire) < Len(sent)
      BY <3>1 DEF IInv, TypeOK, NoLossNoReorder
    <3> QED
      BY <2>3, <3>1, <3>2 DEF on_write_failed, Fifo!Break
  <2> QED
    BY <2>1, <2>2, <2>3
    DEF Next, vars, writeVars, readVars, on_send, read_some, on_read,
        on_read_failed
<1> QED
  BY <1>1, <1>2, Invariance, PTL DEF Safe, Fifo!FifoSafe
=============================================================================
