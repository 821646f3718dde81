-------------------------- MODULE HttpPipelineProofs --------------------------
(***************************************************************************)
(* IInv is inductive for any set of requests, any limit of the queue and    *)
(* any number of pipelined requests.  From it: the limit, one operation at  *)
(* a time, the order of the responses and the silence after a closing one.  *)
(***************************************************************************)
EXTENDS HttpPipeline, SequenceTheorems, TLAPS

Unstamped == [req : Request, status : Statuses, close : BOOLEAN]

-----------------------------------------------------------------------------
(* What a handler pushes.                                                  *)

\* A request is answered at most once.
LEMMA AtMostOneReply ==
  ASSUME NEW r \in Request,
         NEW replies \in Document(r) \cup MovedFrom(r) \cup {<<Reply(r, s)>> : s \in Statuses}
  PROVE  replies = <<>> \/ \E y \in Unstamped : replies = <<y>>
<1>1. \A s \in Statuses : Reply(r, s) \in Unstamped
  BY DEF Reply, Unstamped, Request
<1>2. CASE replies \in Document(r)
  <2>1. r.method \in Methods
    BY DEF Request
  <2>2. replies = <<>> \/ \E s \in Statuses : replies = <<Reply(r, s)>>
    BY <1>2, <2>1 DEF Document, Methods, Statuses
  <2> QED
    BY <1>1, <2>2
<1>3. CASE replies \in MovedFrom(r)
  <2>1. [req |-> r, status |-> "bad_request", close |-> FALSE] \in Unstamped
    BY DEF Unstamped, Statuses
  <2> QED
    BY <1>3, <2>1 DEF MovedFrom
<1>4. CASE replies \in {<<Reply(r, s)>> : s \in Statuses}
  BY <1>1, <1>4
<1> QED
  BY <1>2, <1>3, <1>4

\* The queue of one response more.
LEMMA AppendAsConcat ==
  ASSUME NEW S, NEW q \in Seq(S), NEW y \in S
  PROVE  /\ q \o <<y>> = Append(q, y)
         /\ Len(Append(q, y)) = Len(q) + 1
         /\ Len(Append(q, y)) = 1 <=> q = <<>>
OBVIOUS

\* queue_(msg) stores at most one response, numbered after its request, and
\* starts it if and only if the queue was empty.
LEMMA PushEffect ==
  ASSUME TypeOK, NEW replies, replies = <<>> \/ \E y \in Unstamped : replies = <<y>>,
         Push(replies)
  PROVE  /\ doomed' \in BOOLEAN
         /\ \/ items' = items /\ writes' = writes
            \/ \E y \in Response :
                 /\ y.id = received + 1
                 /\ items' = Append(items, y)
                 /\ writes' = writes + One(items = <<>>)
<1> USE DEF TypeOK
<1> DEFINE Stamp(x) == [id |-> received + 1, req |-> x.req,
                        status |-> x.status, close |-> x.close]
           stamped == [i \in DOMAIN replies |-> Stamp(replies[i])]
<1>1. /\ items' = items \o stamped
      /\ writes' = writes + One(replies # <<>> /\ StartNow(items \o stamped))
      /\ doomed' = IF replies # <<>> /\ StartNow(items \o stamped)
                   THEN shut \/ released ELSE doomed
  BY DEF Push
<1>2. CASE replies = <<>>
  <2>1. stamped = <<>>
    BY <1>2
  <2>2. items' = items /\ writes' = writes
    BY <1>1, <1>2, <2>1 DEF One
  <2> QED
    BY <1>1, <1>2, <2>2
<1>3. ASSUME NEW x \in Unstamped, replies = <<x>>
      PROVE  \E y \in Response :
               /\ y.id = received + 1
               /\ items' = Append(items, y)
               /\ writes' = writes + One(items = <<>>)
  <2>1. Stamp(x) \in Response /\ Stamp(x).id = received + 1
    BY DEF Response, Unstamped
  <2>2. stamped = <<Stamp(x)>>
    BY <1>3
  <2> HIDE DEF Stamp, stamped
  <2>3. items \o stamped = Append(items, Stamp(x))
    BY <2>1, <2>2
  <2>4. StartNow(items \o stamped) <=> items = <<>>
    BY <2>1, <2>3, AppendAsConcat DEF StartNow
  <2> QED
    BY <1>1, <1>3, <2>1, <2>3, <2>4 DEF One
<1> QED
  BY <1>1, <1>2, <1>3

-----------------------------------------------------------------------------
(* What the two handlers that move responses do, given IInv.               *)

\* on_read() with a request: at most one response more, and the next read is
\* started only if the queue still has room.
LEMMA ReadEffect ==
  ASSUME IInv, NEW r \in Requests, on_read(r)
  PROVE  /\ reads = 1 /\ Len(items) < Limit
         /\ received' = received + 1 /\ received' \in 0..MaxRequests
         /\ UNCHANGED <<shut, released, failed, wire>> /\ doomed' \in BOOLEAN
         /\ reads' \in 0..1 /\ (reads' = 1 => ~IsFull(items'))
         /\ \/ items' = items /\ writes' = writes
            \/ \E y \in Response :
                 /\ y.id = received + 1
                 /\ items' = Append(items, y)
                 /\ writes' = writes + One(items = <<>>)
<1> USE PipelineAssumption DEF PipelineAssumption
<1>1. TypeOK /\ r \in Request
  BY DEF IInv
<1>2. reads = 1
  BY <1>1 DEF on_read, TypeOK
<1>3. Len(items) < Limit
  BY <1>1, <1>2 DEF IInv, TypeOK, OneOperationEach, IsFull
<1>4. received' = received + 1 /\ received' \in 0..MaxRequests
  BY <1>1 DEF on_read, TypeOK
<1>5. PICK more \in BOOLEAN,
           replies \in Document(r) \cup MovedFrom(r) \cup {<<Reply(r, s)>> : s \in Statuses} :
         Push(replies) /\ reads' = reads - 1 + One(more /\ ~IsFull(items'))
  BY DEF on_read
<1>6. replies = <<>> \/ \E y \in Unstamped : replies = <<y>>
  BY <1>1, AtMostOneReply
<1>7. reads' \in 0..1 /\ (reads' = 1 => ~IsFull(items'))
  <2>1. CASE more /\ ~IsFull(items')
    BY <1>2, <1>5, <2>1 DEF One
  <2>2. CASE ~(more /\ ~IsFull(items'))
    BY <1>2, <1>5, <2>2 DEF One
  <2> QED
    BY <2>1, <2>2
<1>8. /\ doomed' \in BOOLEAN
      /\ \/ items' = items /\ writes' = writes
         \/ \E y \in Response :
              /\ y.id = received + 1
              /\ items' = Append(items, y)
              /\ writes' = writes + One(items = <<>>)
  BY <1>1, <1>5, <1>6, PushEffect
<1>9. UNCHANGED <<shut, released, failed, wire>>
  BY DEF on_read
<1> QED
  BY <1>2, <1>3, <1>4, <1>7, <1>8, <1>9

\* on_write() without error: the front is on the wire, and either it closes the
\* connection or the next response is started and a full queue reads again.
LEMMA WriteEffect ==
  ASSUME IInv, on_write
  PROVE  /\ writes = 1 /\ items # <<>> /\ ~Closed
         /\ Head(items) \in Response /\ Tail(items) \in Seq(Response)
         /\ Len(Tail(items)) = Len(items) - 1
         /\ wire' = Append(wire, Head(items))
         /\ UNCHANGED <<released, failed, received>>
         /\ \/ /\ Head(items).close /\ items' = items /\ writes' = 0
               /\ reads' = reads /\ doomed' = doomed /\ shut' = TRUE
            \/ /\ ~Head(items).close /\ items' = Tail(items) /\ shut' = shut
               /\ writes' = One(items' # <<>>)
               /\ reads' = reads + One(IsFull(items)) /\ doomed' \in BOOLEAN
<1>1. writes = 1 /\ items # <<>> /\ items \in Seq(Response)
  BY DEF IInv, TypeOK, OneOperationEach, on_write
<1>2. ~Closed
  BY <1>1 DEF IInv, ClosedIsSilent
<1>3. /\ Head(items) \in Response /\ Tail(items) \in Seq(Response)
      /\ Len(Tail(items)) = Len(items) - 1
  BY <1>1
<1>4. CASE Head(items).close
  <2>1. /\ wire' = Append(wire, Head(items)) /\ shut' = TRUE /\ writes' = 0
        /\ UNCHANGED <<items, reads, doomed, released, failed, received>>
    BY <1>1, <1>4 DEF on_write
  <2> QED
    BY <1>1, <1>2, <1>3, <1>4, <2>1
<1>5. CASE ~Head(items).close
  <2>1. writes' = One(items' # <<>>)
    BY <1>1, <1>5 DEF on_write, StartNext, One
  <2> QED
    BY <1>1, <1>2, <1>3, <1>5, <2>1 DEF on_write, Erase, ReadAgain
<1> QED
  BY <1>4, <1>5

-----------------------------------------------------------------------------
(* The inductive invariant.                                                *)

\* The constructor's run() starts the first read of an empty queue.
LEMMA InitIInv == Init => IInv
<1> SUFFICES ASSUME Init PROVE IInv
  OBVIOUS
<1> USE PipelineAssumption DEF PipelineAssumption, Init
<1>1. TypeOK
  <2>1. items \in Seq(Response) /\ wire \in Seq(Response)
    BY EmptySeq
  <2>2. reads \in 0..1 /\ writes \in 0..1 /\ received \in 0..MaxRequests
    OBVIOUS
  <2>3. /\ doomed \in BOOLEAN /\ shut \in BOOLEAN
        /\ released \in BOOLEAN /\ failed \in BOOLEAN
    OBVIOUS
  <2> QED
    BY ONLY <2>1, <2>2, <2>3 DEF TypeOK
<1>2. LimitRespected /\ OneOperationEach /\ ClosedIsSilent
  BY DEF LimitRespected, OneOperationEach, ClosedIsSilent, Closed, IsFull
<1>3. InOrder
  BY DEF InOrder, Ordered, Unwritten, Closed
<1> QED
  BY <1>1, <1>2, <1>3 DEF IInv

\* No step of Next leaves the types, the limit or the one-at-a-time rule.
LEMMA QueueStep ==
  IInv /\ [Next]_vars => (TypeOK /\ LimitRespected /\ OneOperationEach)'
<1> SUFFICES ASSUME IInv, [Next]_vars
             PROVE  TypeOK' /\ LimitRespected' /\ OneOperationEach'
  OBVIOUS
<1> USE PipelineAssumption DEF PipelineAssumption
<1>0. /\ TypeOK /\ LimitRespected /\ OneOperationEach
      /\ Len(items) \in Nat
  BY DEF IInv, TypeOK
<1>1. ASSUME NEW r \in Requests, on_read(r)
      PROVE  TypeOK' /\ LimitRespected' /\ OneOperationEach'
  <2>1. CASE items' = items /\ writes' = writes
    BY <1>0, <1>1, <2>1, ReadEffect DEF TypeOK, LimitRespected, OneOperationEach
  <2>2. ASSUME NEW y \in Response, items' = Append(items, y),
               writes' = writes + One(items = <<>>)
        PROVE  TypeOK' /\ LimitRespected' /\ OneOperationEach'
    <3>1. /\ items' \in Seq(Response) /\ items' # <<>>
          /\ Len(items') = Len(items) + 1
      BY <1>0, <2>2 DEF TypeOK
    <3>2. writes' \in 0..1
      BY <1>0, <2>2 DEF TypeOK, OneOperationEach, One
    <3>3. TypeOK'
      BY <1>0, <1>1, <3>1, <3>2, ReadEffect DEF TypeOK
    <3>4. LimitRespected'
      BY <1>0, <1>1, <3>1, ReadEffect DEF LimitRespected
    <3>5. OneOperationEach'
      BY <1>1, <3>1, <3>2, ReadEffect DEF OneOperationEach
    <3> QED
      BY <3>3, <3>4, <3>5
  <2> QED
    BY <1>1, <2>1, <2>2, ReadEffect
<1>2. CASE on_write
  <2>1. /\ writes = 1 /\ items # <<>> /\ wire' \in Seq(Response)
        /\ items \in Seq(Response) /\ Tail(items) \in Seq(Response)
        /\ Len(items) > 0 /\ Len(Tail(items)) = Len(items) - 1
        /\ UNCHANGED <<released, failed, received>>
    BY <1>0, <1>2, WriteEffect DEF TypeOK
  <2>2. CASE Head(items).close
    <3>1. items' = items /\ writes' = 0 /\ reads' = reads /\ doomed' = doomed /\ shut' = TRUE
      BY <1>2, <2>2, WriteEffect
    <3>2. TypeOK'
      BY <1>0, <2>1, <3>1 DEF TypeOK
    <3>3. LimitRespected' /\ OneOperationEach'
      BY <1>0, <2>1, <3>1 DEF LimitRespected, OneOperationEach, IsFull
    <3> QED
      BY <3>2, <3>3
  <2>3. CASE ~Head(items).close
    <3>1. /\ items' = Tail(items) /\ shut' = shut /\ doomed' \in BOOLEAN
          /\ writes' = One(items' # <<>>) /\ reads' = reads + One(IsFull(items))
      BY <1>2, <2>3, WriteEffect
    <3>2. writes' \in 0..1 /\ (writes' = 1 => items' # <<>>)
      <4>1. CASE items' = <<>>
        BY <3>1, <4>1 DEF One
      <4>2. CASE items' # <<>>
        BY <3>1, <4>2 DEF One
      <4> QED
        BY <4>1, <4>2
    <3>3. reads' \in 0..1
      <4>1. CASE IsFull(items)
        BY <1>0, <3>1, <4>1 DEF One, OneOperationEach, TypeOK
      <4>2. CASE ~IsFull(items)
        BY <1>0, <3>1, <4>2 DEF One, OneOperationEach, TypeOK
      <4> QED
        BY <4>1, <4>2
    <3>4. Len(items') < Limit
      BY <1>0, <2>1, <3>1 DEF LimitRespected
    <3>5. TypeOK'
      BY <1>0, <2>1, <3>1, <3>2, <3>3 DEF TypeOK
    <3>6. LimitRespected' /\ OneOperationEach'
      BY <1>0, <2>1, <3>1, <3>2, <3>3, <3>4
      DEF LimitRespected, OneOperationEach, IsFull
    <3> QED
      BY <3>5, <3>6
  <2> QED
    BY <2>2, <2>3
<1>3. ASSUME NEW r \in Requests, on_upgrade(r)
      PROVE  TypeOK' /\ LimitRespected' /\ OneOperationEach'
  BY <1>0, <1>3 DEF on_upgrade, TypeOK, LimitRespected, OneOperationEach
<1>4. CASE on_end_of_stream
  BY <1>0, <1>4 DEF on_end_of_stream, TypeOK, LimitRespected, OneOperationEach
<1>5. CASE on_read_failed
  BY <1>0, <1>5 DEF on_read_failed, TypeOK, LimitRespected, OneOperationEach
<1>6. CASE on_write_failed
  BY <1>0, <1>6 DEF on_write_failed, TypeOK, LimitRespected, OneOperationEach
<1>7. CASE UNCHANGED vars
  BY <1>0, <1>7 DEF vars, TypeOK, LimitRespected, OneOperationEach, IsFull
<1> QED
  BY <1>1, <1>2, <1>3, <1>4, <1>5, <1>6, <1>7 DEF Next

\* Closed looks at the wire only, and a new response decides it.
LEMMA ClosedAppend ==
  ASSUME NEW y \in Response, wire \in Seq(Response), wire' = Append(wire, y)
  PROVE  Closed' <=> Closed \/ y.close
<1>1. /\ Len(wire') = Len(wire) + 1 /\ Len(wire) \in Nat
      /\ wire'[Len(wire) + 1] = y
      /\ \A i \in 1..Len(wire) : wire'[i] = wire[i]
  OBVIOUS
<1>2. 1..Len(wire') = 1..Len(wire) \cup {Len(wire) + 1}
  BY <1>1
<1> QED
  BY ONLY <1>1, <1>2 DEF Closed

\* The closing response stays at the front and nothing is being written.
LEMMA SilenceStep == IInv /\ [Next]_vars => ClosedIsSilent'
<1> SUFFICES ASSUME IInv, [Next]_vars PROVE ClosedIsSilent'
  OBVIOUS
<1>0. TypeOK /\ ClosedIsSilent
  BY DEF IInv
<1>1. ASSUME NEW r \in Requests, on_read(r) PROVE ClosedIsSilent'
  <2>1. Closed' = Closed
    BY <1>1, ReadEffect DEF Closed
  <2>2. CASE items' = items /\ writes' = writes
    BY <1>0, <2>1, <2>2 DEF ClosedIsSilent
  <2>3. ASSUME NEW y \in Response, items' = Append(items, y),
               writes' = writes + One(items = <<>>)
        PROVE  ClosedIsSilent'
    <3>1. items' # <<>>
      BY <1>0, <2>3 DEF TypeOK
    <3>2. Closed => writes' = 0
      BY <1>0, <2>3 DEF ClosedIsSilent, One
    <3> QED
      BY <2>1, <3>1, <3>2 DEF ClosedIsSilent
  <2> QED
    BY <1>1, <2>2, <2>3, ReadEffect
<1>2. CASE on_write
  <2>1. /\ Closed' <=> Head(items).close
        /\ Head(items).close => writes' = 0 /\ items' = items /\ items # <<>>
    BY <1>0, <1>2, WriteEffect, ClosedAppend DEF TypeOK
  <2> QED
    BY <2>1 DEF ClosedIsSilent
<1>3. CASE on_write_failed
  BY <1>0, <1>3 DEF on_write_failed, ClosedIsSilent, Closed
<1>4. CASE UNCHANGED <<items, writes, wire>>
  BY <1>0, <1>4 DEF ClosedIsSilent, Closed
<1> QED
  BY <1>1, <1>2, <1>3, <1>4
  DEF Next, vars, on_upgrade, on_end_of_stream, on_read_failed

\* Responses are numbered after their requests.
LEMMA IdsAreNumbers ==
  ASSUME NEW all \in Seq(Response)
  PROVE  \A i \in 1..Len(all) : all[i].id \in Nat
<1>1. \A i \in 1..Len(all) : all[i] \in Response
  OBVIOUS
<1> QED
  BY <1>1 DEF Response

\* A response to a later request keeps the order.
LEMMA OrderedAppend ==
  ASSUME NEW all \in Seq(Response), NEW last \in Nat, Ordered(all, last),
         NEW y \in Response, y.id = last + 1
  PROVE  Ordered(Append(all, y), last + 1)
<1> DEFINE n == Len(all)
           longer == Append(all, y)
<1>1. n \in Nat /\ Len(longer) = n + 1 /\ longer[n + 1].id = last + 1
  OBVIOUS
<1>2. \A i \in 1..n : longer[i] = all[i] /\ all[i].id \in Nat /\ all[i].id <= last
  BY IdsAreNumbers DEF Ordered
<1>3. \A i, j \in 1..n : i < j => longer[i].id < longer[j].id
  BY <1>2 DEF Ordered
<1> HIDE DEF longer, n
<1>4. \A i \in 1..n + 1 : i \in 1..n \/ i = n + 1
  BY <1>1
<1>5. ASSUME NEW i \in 1..n + 1, NEW j \in 1..n + 1, i < j
      PROVE  longer[i].id < longer[j].id
  <2>1. i \in 1..n
    BY <1>1, <1>5
  <2>2. CASE j \in 1..n
    BY <1>3, <1>5, <2>1, <2>2
  <2>3. CASE j = n + 1
    BY <1>1, <1>2, <2>1, <2>3
  <2> QED
    BY <1>4, <2>2, <2>3
<1>6. ASSUME NEW i \in 1..n + 1 PROVE longer[i].id <= last + 1
  BY <1>1, <1>2, <1>4
<1> QED
  BY <1>1, <1>5, <1>6 DEF Ordered, longer

\* A request without a response keeps it, too.
LEMMA OrderedLater ==
  ASSUME NEW all \in Seq(Response), NEW last \in Nat, Ordered(all, last)
  PROVE  Ordered(all, last + 1)
<1> QED
  BY IdsAreNumbers DEF Ordered

\* on_write() moves the front of the queue to the end of the wire.
LEMMA ShiftFront ==
  ASSUME NEW S, NEW p \in Seq(S), NEW q \in Seq(S), q # <<>>
  PROVE  Append(p, Head(q)) \o Tail(q) = p \o q
OBVIOUS

\* Responses enter at the end and only move towards the wire.
LEMMA OrderStep == IInv /\ [Next]_vars => InOrder'
<1> SUFFICES ASSUME IInv, [Next]_vars PROVE InOrder'
  OBVIOUS
<1>0. /\ wire \in Seq(Response) /\ items \in Seq(Response) /\ received \in Nat
      /\ Unwritten \in Seq(Response) /\ wire \o Unwritten \in Seq(Response)
      /\ Ordered(wire \o Unwritten, received)
      /\ Closed => items # <<>>
  <2>1. /\ wire \in Seq(Response) /\ items \in Seq(Response) /\ received \in Nat
        /\ Ordered(wire \o Unwritten, received) /\ (Closed => items # <<>>)
    BY PipelineAssumption
    DEF PipelineAssumption, IInv, TypeOK, InOrder, ClosedIsSilent
  <2>2. Unwritten \in Seq(Response)
    BY <2>1 DEF Unwritten
  <2> QED
    BY <2>1, <2>2
<1>1. ASSUME UNCHANGED <<items, wire>>, received' \in {received, received + 1}
      PROVE  InOrder'
  <2>1. Unwritten' = Unwritten
    BY <1>1 DEF Unwritten, Closed
  <2> QED
    BY <1>0, <1>1, <2>1, OrderedLater DEF InOrder
<1>2. ASSUME NEW r \in Requests, on_read(r) PROVE InOrder'
  <2>1. UNCHANGED wire /\ received' = received + 1 /\ Closed' = Closed
    BY <1>2, ReadEffect DEF Closed
  <2>2. CASE items' = items
    BY <1>1, <2>1, <2>2
  <2>3. ASSUME NEW y \in Response, y.id = received + 1, items' = Append(items, y)
        PROVE  InOrder'
    <3>1. Unwritten' = Append(Unwritten, y)
      <4>1. items # <<>> => Tail(Append(items, y)) = Append(Tail(items), y)
        BY <1>0
      <4>2. Append(items, y) # <<>>
        BY <1>0
      <4> QED
        BY <1>0, <2>1, <2>3, <4>1, <4>2 DEF Unwritten
    <3>2. wire \o Append(Unwritten, y) = Append(wire \o Unwritten, y)
      BY <1>0
    <3>3. Ordered(Append(wire \o Unwritten, y), received + 1)
      BY <1>0, <2>3, OrderedAppend
    <3> QED
      BY <2>1, <3>1, <3>2, <3>3 DEF InOrder
  <2> QED
    BY <1>2, <2>2, <2>3, ReadEffect
<1>3. CASE on_write
  <2>1. /\ wire' = Append(wire, Head(items)) /\ items # <<>> /\ ~Closed
        /\ received' = received
        /\ Closed' <=> Head(items).close
    BY <1>0, <1>3, WriteEffect, ClosedAppend
  <2>2. Unwritten = items /\ Unwritten' = Tail(items)
    BY <1>3, <2>1, WriteEffect DEF Unwritten
  <2>3. Append(wire, Head(items)) \o Tail(items) = wire \o items
    BY <1>0, <2>1, ShiftFront
  <2> QED
    BY <1>0, <2>1, <2>2, <2>3 DEF InOrder
<1> QED
  BY <1>0, <1>1, <1>2, <1>3
  DEF Next, vars, on_upgrade, on_end_of_stream, on_read_failed, on_write_failed

\* Every step preserves the inductive invariant.
LEMMA NextIInv == IInv /\ [Next]_vars => IInv'
BY QueueStep, SilenceStep, OrderStep DEF IInv

-----------------------------------------------------------------------------
(* The theorems.                                                           *)

\* The inductive invariant holds of every connection.
THEOREM Invariance == Safe => []IInv
<1> QED
  BY InitIInv, NextIInv, PTL DEF Safe

\* Types of an http_session's queue, flags and pending operations.
THEOREM TypeCorrect == Safe => []TypeOK
<1>1. IInv => TypeOK
  BY DEF IInv
<1> QED
  BY <1>1, Invariance, PTL

\* on_read() and on_write() between them never queue more than queue::limit.
THEOREM Limited == Safe => []LimitRespected
<1>1. IInv => LimitRespected
  BY DEF IInv
<1> QED
  BY <1>1, Invariance, PTL

\* They never have two reads or two writes outstanding, nor a read with the
\* queue full, nor a write with nothing to write.
THEOREM OneEach == Safe => []OneOperationEach
<1>1. IInv => OneOperationEach
  BY DEF IInv
<1> QED
  BY <1>1, Invariance, PTL

\* Pipelined responses leave in the order of their requests.
THEOREM Ordering == Safe => []InOrder
<1>1. IInv => InOrder
  BY DEF IInv
<1> QED
  BY <1>1, Invariance, PTL

\* do_eof() after a response that closes is the end of what is written.
THEOREM SilentAfterClose == Safe => NothingAfterClose
<1>1. IInv /\ [Next]_vars => [wire' # wire => ~Closed]_vars
  <2> SUFFICES ASSUME IInv, [Next]_vars, wire' # wire PROVE ~Closed
    OBVIOUS
  <2>1. on_write
    BY DEF Next, vars, on_read, on_upgrade, on_end_of_stream, on_read_failed,
           on_write_failed
  <2> QED
    BY <2>1, WriteEffect
<1> QED
  BY <1>1, Invariance, PTL DEF Safe, NothingAfterClose

-----------------------------------------------------------------------------
(* What the liveness of the connection rests on.                            *)

\* While the connection lasts, a queued response has a write under way that can
\* succeed: on_read() and on_write() leave no response for the other to start.
QueuedIsUnderWay == items # <<>> /\ ~Cut => writes = 1 /\ ~doomed

\* The write that makes room in a full queue resumes reading, which on_read()
\* had left off.
FullResumes == [][IsFull(items) /\ ~IsFull(items') /\ ~Cut' => reads' = 1]_vars

\* Only a stream that was shut down or given away dooms a write.
Underway == (doomed => Cut) /\ QueuedIsUnderWay

LEMMA UnderwayInit == Init => Underway
BY DEF Init, Underway, QueuedIsUnderWay

LEMMA UnderwayNext == IInv /\ Underway /\ [Next]_vars => Underway'
<1> SUFFICES ASSUME IInv, Underway, [Next]_vars PROVE Underway'
  OBVIOUS
<1>0. writes \in 0..1 /\ items \in Seq(Response)
  BY DEF IInv, TypeOK
<1>1. ASSUME NEW r \in Requests, on_read(r) PROVE Underway'
  <2>1. doomed' => doomed \/ shut \/ released
    BY <1>1 DEF on_read, Push
  <2>2. UNCHANGED <<shut, released, failed>>
    BY <1>1, ReadEffect
  <2>3. Cut' = Cut
    BY <2>2 DEF Cut
  <2>4. CASE items' = items /\ writes' = writes
    BY <2>1, <2>3, <2>4 DEF Underway, QueuedIsUnderWay, Cut
  <2>5. CASE writes' = writes + One(items = <<>>)
    <3>1. items # <<>> /\ ~Cut => writes' = 1
      BY <1>0, <2>5 DEF One, Underway, QueuedIsUnderWay
    <3>2. items = <<>> => writes' = 1
      BY <1>0, <2>5 DEF One, IInv, OneOperationEach
    <3> QED
      BY <2>1, <2>3, <3>1, <3>2 DEF Underway, QueuedIsUnderWay, Cut
  <2> QED
    BY <1>1, <2>4, <2>5, ReadEffect
<1>2. CASE on_write
  <2>1. CASE Head(items).close
    <3>1. Cut'
      BY <1>2, <2>1, WriteEffect DEF Cut
    <3> QED
      BY <3>1 DEF Underway, QueuedIsUnderWay
  <2>2. CASE ~Head(items).close
    <3>1. /\ writes' = One(items' # <<>>) /\ UNCHANGED <<shut, released, failed>>
      BY <1>2, <2>2, WriteEffect
    <3>2. doomed' => shut \/ released
      BY <1>2, <2>2 DEF on_write
    <3>3. items' # <<>> => writes' = 1
      BY <3>1 DEF One
    <3> QED
      BY <3>1, <3>2, <3>3 DEF Underway, QueuedIsUnderWay, Cut
  <2> QED
    BY <2>1, <2>2
<1>3. CASE on_end_of_stream \/ on_read_failed \/ on_write_failed \/ \E r \in Requests : on_upgrade(r)
  BY <1>3 DEF on_end_of_stream, on_read_failed, on_write_failed, on_upgrade, Underway,
     QueuedIsUnderWay, Cut
<1>4. CASE UNCHANGED vars
  BY <1>4 DEF vars, Underway, QueuedIsUnderWay, Cut
<1> QED
  BY <1>1, <1>2, <1>3, <1>4 DEF Next

\* No queued response is forgotten, however the two handlers alternate.
THEOREM Moving == Safe => []QueuedIsUnderWay
<1>1. Underway => QueuedIsUnderWay
  BY DEF Underway
<1> QED
  BY <1>1, InitIInv, NextIInv, UnderwayInit, UnderwayNext, PTL DEF Safe

\* A connection that was full is read again, once.
THEOREM Resumption == Safe => FullResumes
<1>1. IInv /\ [Next]_vars => [IsFull(items) /\ ~IsFull(items') /\ ~Cut' => reads' = 1]_vars
  <2> SUFFICES ASSUME IInv, [Next]_vars, IsFull(items), ~IsFull(items'), ~Cut'
               PROVE  reads' = 1
    OBVIOUS
  <2>1. reads = 0
    BY DEF IInv, TypeOK, OneOperationEach
  <2>2. items' # items
    BY DEF IsFull
  <2>3. on_write
    BY <2>1, <2>2 DEF Next, vars, on_read, on_upgrade, on_end_of_stream, on_read_failed,
       on_write_failed
  <2>4. reads' = reads + 1
    BY <2>2, <2>3 DEF on_write, ReadAgain, IsFull, One
  <2> QED
    BY <2>1, <2>4
<1> QED
  BY <1>1, InitIInv, NextIInv, PTL DEF Safe, FullResumes
=============================================================================
