-------------------------- MODULE DataExchangeProofs --------------------------
(***************************************************************************)
(* IInv is inductive for any objects and barcodes, any sizes of batches and  *)
(* transactions and any number of failures and commands.  From it: what is   *)
(* not in the database is still registered unless it was overtaken, rows do  *)
(* not multiply, and contents go backwards only where 1C was changed         *)
(* meanwhile.                                                                *)
(***************************************************************************)
EXTENDS DataExchange, SequenceTheorems, TLAPS

-----------------------------------------------------------------------------
(* The elements of a sequence that grows, shrinks or is cut in two.          *)

LEMMA RangeEmpty == ASSUME NEW s, s = <<>> PROVE Range(s) = {}
BY DEF Range

LEMMA RangeOf ==
  ASSUME NEW S, NEW s \in Seq(S)
  PROVE  /\ Range(s) \subseteq S
         /\ \A i \in 1..Len(s) : s[i] \in Range(s)
         /\ \A x \in Range(s) : \E i \in 1..Len(s) : s[i] = x
BY DEF Range

LEMMA RangeWithin ==
  ASSUME NEW S, NEW s \in Seq(S), NEW T, \A i \in 1..Len(s) : s[i] \in T
  PROVE  Range(s) \subseteq T
BY RangeOf

LEMMA RangeAppend ==
  ASSUME NEW S, NEW s \in Seq(S), NEW e \in S
  PROVE  Range(Append(s, e)) = Range(s) \cup {e}
<1> DEFINE t == Append(s, e)
<1>1. /\ t \in Seq(S) /\ Len(t) = Len(s) + 1
      /\ \A i \in 1..Len(s) : t[i] = s[i]
      /\ t[Len(s) + 1] = e
  OBVIOUS
<1> HIDE DEF t
<1>2. Range(t) \subseteq Range(s) \cup {e}
  BY <1>1, RangeOf
<1>3. Range(s) \cup {e} \subseteq Range(t)
  <2>1. Len(s) \in Nat
    OBVIOUS
  <2>2. \A i \in 1..Len(s) : i \in 1..Len(t)
    BY <1>1, <2>1
  <2>3. Len(s) + 1 \in 1..Len(t)
    BY <1>1, <2>1
  <2> QED
    BY <1>1, <2>2, <2>3, RangeOf
<1> QED
  BY <1>2, <1>3 DEF t

LEMMA RangeTail ==
  ASSUME NEW S, NEW s \in Seq(S), s # <<>>
  PROVE  /\ Head(s) \in S /\ Tail(s) \in Seq(S)
         /\ Range(s) = Range(Tail(s)) \cup {Head(s)}
<1> DEFINE t == Tail(s)
<1>1. /\ Len(s) \in Nat /\ Len(s) > 0 /\ t \in Seq(S) /\ Len(t) = Len(s) - 1
      /\ Head(s) = s[1] /\ Head(s) \in S
      /\ \A i \in 1..Len(t) : t[i] = s[i + 1]
  OBVIOUS
<1> HIDE DEF t
<1>2. \A i \in 1..Len(t) : i + 1 \in 1..Len(s)
  BY <1>1
<1>3. \A i \in 2..Len(s) : i - 1 \in 1..Len(t) /\ t[i - 1] = s[i]
  BY <1>1
<1>4. Range(t) \cup {Head(s)} \subseteq Range(s)
  <2>1. \A i \in 1..Len(s) : s[i] \in Range(s)
    BY RangeOf
  <2>2. \A i \in 1..Len(t) : t[i] \in Range(s)
    BY <2>1, <1>1, <1>2
  <2>3. Head(s) \in Range(s)
    BY <2>1, <1>1
  <2> QED
    BY <2>2, <2>3, <1>1, RangeWithin
<1>5. Range(s) \subseteq Range(t) \cup {Head(s)}
  <2> SUFFICES ASSUME NEW i \in 1..Len(s) PROVE s[i] \in Range(t) \cup {Head(s)}
    BY RangeOf
  <2>1. CASE i = 1
    BY <2>1, <1>1
  <2>2. CASE i # 1
    <3>1. i \in 2..Len(s)
      BY <2>2, <1>1
    <3> QED
      BY <3>1, <1>1, <1>3, RangeOf
  <2> QED
    BY <2>1, <2>2
<1> QED
  BY <1>1, <1>4, <1>5 DEF t

LEMMA RangeCut ==
  ASSUME NEW S, NEW s \in Seq(S), NEW n \in 0..Len(s)
  PROVE  LET a == SubSeq(s, 1, n)
             b == SubSeq(s, n + 1, Len(s))
         IN  /\ a \in Seq(S) /\ b \in Seq(S)
             /\ Len(a) = n /\ Len(b) = Len(s) - n
             /\ \A i \in 1..Len(a) : a[i] = s[i]
             /\ \A i \in 1..Len(b) : b[i] = s[n + i]
             /\ Range(s) = Range(a) \cup Range(b)
<1> DEFINE a == SubSeq(s, 1, n)
           b == SubSeq(s, n + 1, Len(s))
<1>1. /\ Len(s) \in Nat /\ n \in Nat /\ n <= Len(s)
      /\ a \in Seq(S) /\ Len(a) = n /\ \A i \in 1..n : a[i] = s[i]
  BY SubSeqProperties
<1>2. /\ b \in Seq(S) /\ Len(b) = Len(s) - n
      /\ \A i \in 1..(Len(s) - n) : b[i] = s[n + i]
  <2>1. n + 1 \in 1..(Len(s) + 1)
    BY <1>1
  <2>2. CASE n = Len(s)
    <3>1. b = <<>>
      BY <2>2, <1>1, SubSeqEmpty
    <3> QED
      BY <3>1, <2>2, <1>1
  <2>3. CASE n < Len(s)
    BY <2>3, <1>1
  <2> QED
    BY <2>2, <2>3, <1>1
<1> HIDE DEF a, b
<1>3. Range(a) \cup Range(b) \subseteq Range(s)
  <2>1. \A i \in 1..Len(a) : i \in 1..Len(s)
    BY <1>1
  <2>2. \A i \in 1..Len(b) : n + i \in 1..Len(s)
    BY <1>1, <1>2
  <2>3. \A i \in 1..Len(s) : s[i] \in Range(s)
    BY RangeOf
  <2>4. Range(a) \subseteq Range(s)
    <3>1. \A i \in 1..Len(a) : a[i] \in Range(s)
      BY <2>1, <2>3, <1>1
    <3> QED
      BY <3>1, <1>1, RangeWithin
  <2>5. Range(b) \subseteq Range(s)
    <3>1. \A i \in 1..Len(b) : b[i] \in Range(s)
      BY <2>2, <2>3, <1>2
    <3> QED
      BY <3>1, <1>2, RangeWithin
  <2> QED
    BY <2>4, <2>5
<1>4. Range(s) \subseteq Range(a) \cup Range(b)
  <2>a. \A i \in 1..Len(a) : a[i] \in Range(a)
    BY <1>1, RangeOf
  <2>b. \A i \in 1..Len(b) : b[i] \in Range(b)
    BY <1>2, RangeOf
  <2> SUFFICES ASSUME NEW i \in 1..Len(s) PROVE s[i] \in Range(a) \cup Range(b)
    BY RangeWithin
  <2>1. CASE i <= n
    <3>1. i \in 1..Len(a)
      BY <2>1, <1>1
    <3> QED
      BY <3>1, <2>a, <1>1
  <2>2. CASE i > n
    <3>1. i - n \in 1..Len(b) /\ n + (i - n) = i
      BY <2>2, <1>1, <1>2
    <3> QED
      BY <3>1, <2>b, <1>2
  <2> QED
    BY <2>1, <2>2, <1>1
<1> QED
  BY <1>1, <1>2, <1>3, <1>4 DEF a, b

-----------------------------------------------------------------------------
(* Copies, queries and statements.                                          *)

LEMMA CopyFacts ==
  ASSUME TypeOK, NEW k \in Keys
  PROVE  CopyOf(k) \in Copy /\ CopyOf(k).key = k /\ CopyOf(k).content = content[k]
BY DEF TypeOK, CopyOf, Copy

LEMMA QueryFacts ==
  ASSUME TypeOK, NEW c \in Copy
  PROVE  /\ QueryFor(c) \in Query
         /\ QueryFor(c).key = c.key /\ QueryFor(c).content = c.content
         /\ QueryFor(c).at = Len(rows[c.key]) /\ QueryFor(c).at \in Nat
         /\ c.key \in Keys /\ c.content \in Contents
         /\ rows[c.key] \in Seq(Contents)
<1>1. c.key \in Keys /\ c.content \in Contents
  BY DEF Copy
<1>2. rows[c.key] \in Seq(Contents) /\ Len(rows[c.key]) \in Nat
  BY <1>1 DEF TypeOK
<1> QED
  BY <1>1, <1>2 DEF QueryFor, Query

\* A statement appends a row or replaces one.
LEMMA WrittenFacts ==
  ASSUME NEW r \in Seq(Contents), NEW q \in Query, q.at <= Len(r)
  PROVE  LET w == Written(r, q)
         IN  /\ w \in Seq(Contents)
             /\ Len(w) = IF q.at = 0 THEN Len(r) + 1 ELSE Len(r)
             /\ w # <<>>
             /\ w[Len(w)] = IF q.at \in {0, Len(r)} THEN q.content ELSE r[Len(r)]
             /\ \A i \in 1..Len(w) :
                  w[i] = q.content \/ (i \in 1..Len(r) /\ w[i] = r[i])
<1> DEFINE w == Written(r, q)
<1>1. q.at \in Nat /\ q.content \in Contents /\ Len(r) \in Nat
  BY DEF Query
<1>2. CASE q.at = 0
  <2>1. w = Append(r, q.content)
    BY <1>2 DEF Written
  <2>2. /\ w \in Seq(Contents) /\ Len(w) = Len(r) + 1 /\ w # <<>>
        /\ w[Len(r) + 1] = q.content /\ \A i \in 1..Len(r) : w[i] = r[i]
    BY <2>1, <1>1
  <2> HIDE DEF w
  <2>3. \A i \in 1..Len(w) : i \in 1..Len(r) \/ i = Len(r) + 1
    BY <2>2, <1>1
  <2> QED
    BY <2>2, <2>3, <1>1, <1>2 DEF w
<1>3. CASE q.at # 0
  <2>1. w = [r EXCEPT ![q.at] = q.content] /\ q.at \in 1..Len(r)
    BY <1>1, <1>3 DEF Written
  <2>2. /\ w \in Seq(Contents) /\ Len(w) = Len(r)
        /\ \A i \in 1..Len(r) : w[i] = IF i = q.at THEN q.content ELSE r[i]
    BY <2>1, <1>1, ExceptSeq
  <2> HIDE DEF w
  <2>3. Len(r) \in 1..Len(r) /\ w # <<>>
    BY <2>1, <2>2, <1>1
  <2> QED
    BY <2>2, <2>3, <1>1, <1>3 DEF w
<1> QED
  BY <1>2, <1>3

\* A transaction writes the rows of the keys of its statements and no others.
LEMMA ExecuteFacts ==
  ASSUME TypeOK, NEW qs \in Seq(Query),
         \A q \in Range(qs) : q.at <= Len(rows[q.key])
  PROVE  LET e == Execute(qs)
         IN  /\ e \in [Keys -> Seq(Contents)]
             /\ \A k \in Keys : k \notin KeysOf(Range(qs)) => e[k] = rows[k]
             /\ \A k \in Keys : k \in KeysOf(Range(qs)) =>
                  \E q \in Range(qs) : q.key = k /\ e[k] = Written(rows[k], q)
<1> DEFINE e == Execute(qs)
           Chosen(k) == CHOOSE q \in Range(qs) : q.key = k
<1>1. Range(qs) \subseteq Query
  BY RangeOf
<1>2. \A k \in KeysOf(Range(qs)) : Chosen(k) \in Range(qs) /\ Chosen(k).key = k
  BY DEF KeysOf
<1>3. \A k \in Keys :
        e[k] = IF k \in KeysOf(Range(qs)) THEN Written(rows[k], Chosen(k)) ELSE rows[k]
  BY DEF Execute
<1> HIDE DEF Chosen
<1>4. \A k \in Keys : e[k] \in Seq(Contents)
  <2> SUFFICES ASSUME NEW k \in Keys PROVE e[k] \in Seq(Contents)
    OBVIOUS
  <2>1. rows[k] \in Seq(Contents)
    BY DEF TypeOK
  <2>2. CASE k \in KeysOf(Range(qs))
    <3>1. Chosen(k) \in Query /\ Chosen(k).at <= Len(rows[k])
      BY <2>2, <1>1, <1>2
    <3> QED
      BY <3>1, <2>1, <2>2, <1>3, WrittenFacts
  <2> QED
    BY <2>1, <2>2, <1>3
<1>5. e \in [Keys -> Seq(Contents)]
  <2>1. e = [k \in Keys |-> e[k]]
    BY DEF Execute
  <2> HIDE DEF e
  <2> QED
    BY <2>1, <1>4
<1> QED
  BY <1>2, <1>3, <1>5

-----------------------------------------------------------------------------
(* Sequences in which a key occurs once.                                    *)

LEMMA OnceAppend ==
  ASSUME NEW S, NEW s \in Seq(S), NEW e \in S,
         OnceByKey(s), e.key \notin KeysOf(Range(s))
  PROVE  OnceByKey(Append(s, e))
<1> DEFINE t == Append(s, e)
<1>1. /\ Len(s) \in Nat /\ Len(t) = Len(s) + 1 /\ t[Len(s) + 1] = e
      /\ \A i \in 1..Len(s) : t[i] = s[i]
  OBVIOUS
<1> HIDE DEF t
<1>2. \A i \in 1..Len(s) : s[i].key # e.key
  BY RangeOf DEF KeysOf
<1>3. \A i \in 1..Len(t) : i \in 1..Len(s) \/ i = Len(s) + 1
  BY <1>1
<1> QED
  BY <1>1, <1>2, <1>3 DEF OnceByKey, t

LEMMA OnceTail ==
  ASSUME NEW S, NEW s \in Seq(S), s # <<>>, OnceByKey(s)
  PROVE  OnceByKey(Tail(s)) /\ Head(s).key \notin KeysOf(Range(Tail(s)))
<1> DEFINE t == Tail(s)
<1>1. /\ Len(s) \in Nat /\ Len(s) > 0 /\ t \in Seq(S) /\ Len(t) = Len(s) - 1
      /\ Head(s) = s[1] /\ \A i \in 1..Len(t) : t[i] = s[i + 1]
  OBVIOUS
<1> HIDE DEF t
<1>2. \A i \in 1..Len(t) : i + 1 \in 1..Len(s) /\ i + 1 # 1 /\ 1 \in 1..Len(s)
  BY <1>1
<1>3. OnceByKey(t)
  <2> SUFFICES ASSUME NEW i \in 1..Len(t), NEW j \in 1..Len(t), t[i].key = t[j].key
               PROVE  i = j
    BY DEF OnceByKey
  <2>1. i + 1 = j + 1
    BY <1>1, <1>2 DEF OnceByKey
  <2> QED
    BY <2>1
<1>4. Head(s).key \notin KeysOf(Range(t))
  <2> SUFFICES ASSUME NEW x \in Range(t), x.key = Head(s).key PROVE FALSE
    BY DEF KeysOf
  <2>1. PICK i \in 1..Len(t) : t[i] = x
    BY <1>1, RangeOf
  <2>2. s[i + 1].key = s[1].key
    BY <2>1, <1>1
  <2> QED
    BY <2>2, <1>2 DEF OnceByKey
<1> QED
  BY <1>3, <1>4 DEF t

LEMMA OnceCut ==
  ASSUME NEW S, NEW s \in Seq(S), NEW n \in 0..Len(s), OnceByKey(s)
  PROVE  LET a == SubSeq(s, 1, n)
             b == SubSeq(s, n + 1, Len(s))
         IN  OnceByKey(b) /\ KeysOf(Range(a)) \cap KeysOf(Range(b)) = {}
<1> DEFINE a == SubSeq(s, 1, n)
           b == SubSeq(s, n + 1, Len(s))
<1>1. /\ a \in Seq(S) /\ b \in Seq(S) /\ Len(a) = n /\ Len(b) = Len(s) - n
      /\ \A i \in 1..Len(a) : a[i] = s[i]
      /\ \A i \in 1..Len(b) : b[i] = s[n + i]
  BY RangeCut
<1>2. Len(s) \in Nat /\ n \in Nat /\ n <= Len(s)
  OBVIOUS
<1> HIDE DEF a, b
<1>3. \A i \in 1..Len(b) : n + i \in 1..Len(s)
  BY <1>1, <1>2
<1>4. OnceByKey(b)
  <2> SUFFICES ASSUME NEW i \in 1..Len(b), NEW j \in 1..Len(b), b[i].key = b[j].key
               PROVE  i = j
    BY DEF OnceByKey
  <2>1. s[n + i].key = s[n + j].key
    BY <1>1
  <2>2. n + i = n + j
    BY <2>1, <1>3 DEF OnceByKey
  <2> QED
    BY <2>2, <1>2
<1>5. KeysOf(Range(a)) \cap KeysOf(Range(b)) = {}
  <2> SUFFICES ASSUME NEW x \in Range(a), NEW y \in Range(b), x.key = y.key PROVE FALSE
    BY DEF KeysOf
  <2>1. PICK i \in 1..Len(a) : a[i] = x
    BY <1>1, RangeOf
  <2>2. PICK j \in 1..Len(b) : b[j] = y
    BY <1>1, RangeOf
  <2>3. i \in 1..Len(s) /\ i # n + j
    BY <1>1, <1>2
  <2>4. s[i].key = s[n + j].key
    BY <2>1, <2>2, <1>1
  <2> QED
    BY <2>3, <2>4, <1>3 DEF OnceByKey
<1> QED
  BY <1>4, <1>5 DEF a, b

-----------------------------------------------------------------------------
(* Every action preserves IInv.                                             *)

LEMMA InitEstablishes == Init => IInv
<1> SUFFICES ASSUME Init PROVE IInv
  OBVIOUS
<1> USE ExchangeAssumption
<1>1. TypeOK
  BY DEF Init, TypeOK, Contents, Copy, Query
<1>2. RequestSize /\ Shape
  BY DEF Init, RequestSize, Shape
<1>3. UnloadedIsRegistered /\ RowsBounded
  BY DEF Init, UnloadedIsRegistered, RowsBounded
<1>4. Distinct
  BY RangeEmpty DEF Init, Distinct, OnceByKey, KeysOf
<1>5. Listed /\ Accounted
  BY DEF Init, Listed, Accounted
<1>6. Fresh /\ Targets
  BY RangeEmpty DEF Init, Fresh, Targets
<1>7. RowsAccounted /\ Past
  BY RangeEmpty DEF Init, RowsAccounted, Inserting, Past
<1> QED
  BY <1>1, <1>2, <1>3, <1>4, <1>5, <1>6, <1>7 DEF IInv

\* The list: every registered key with its content.
LEMMA ExchangeKeeps == IInv /\ exchange => IInv'
<1> SUFFICES ASSUME IInv, exchange PROVE IInv'
  OBVIOUS
<1> USE ExchangeAssumption
<1>1. /\ TypeOK /\ RequestSize /\ UnloadedIsRegistered /\ RowsBounded
      /\ Shape /\ Fresh /\ Targets /\ RowsAccounted /\ Past
  BY DEF IInv
<1>2. /\ todo' = {CopyOf(k) : k \in registered} /\ overtaken' = {} /\ pc' = "collect"
      /\ UNCHANGED <<content, registered, rows, batch, count, answer, queries,
                     sync_answer, sync_queries, syncs, failures, sync_overtaken, lost>>
  BY DEF exchange, service, syncing
<1>3. batch = <<>> /\ answer = <<>> /\ queries = <<>>
  BY <1>1 DEF exchange, Shape
<1>4. Range(batch) = {} /\ Range(answer) = {} /\ Range(queries) = {}
  BY <1>3, RangeEmpty
<1>5. registered \subseteq Keys
  BY <1>1 DEF TypeOK
<1>6. \A c \in todo' : c \in Copy /\ c.key \in registered /\ c = CopyOf(c.key)
                         /\ c.content = content[c.key]
  BY <1>1, <1>2, <1>5, CopyFacts
<1>7. KeysOf(todo') = registered
  <2>1. \A k \in registered : CopyOf(k) \in todo' /\ CopyOf(k).key = k
    BY <1>1, <1>2, <1>5, CopyFacts
  <2> QED
    BY <2>1, <1>6 DEF KeysOf
<1>8. TypeOK'
  BY <1>1, <1>2, <1>6 DEF TypeOK
<1>9. RequestSize' /\ UnloadedIsRegistered' /\ RowsBounded'
  BY <1>1, <1>2 DEF RequestSize, UnloadedIsRegistered, RowsBounded, Latest
<1>10. Shape'
  BY <1>2, <1>3 DEF Shape
<1>11. Distinct'
  <2>1. Range(batch)' = {} /\ KeysOf(Range(answer))' = {} /\ KeysOf(Range(queries))' = {}
    BY <1>2, <1>4 DEF KeysOf
  <2>2. \A c, d \in todo' : c.key = d.key => c = d
    BY <1>6
  <2>3. OnceByKey(answer)' /\ OnceByKey(queries)'
    BY <1>2, <1>3 DEF OnceByKey
  <2>4. \A i, j \in 1..Len(batch') : batch'[i] = batch'[j] => i = j
    BY <1>2, <1>3
  <2> QED
    BY <2>1, <2>2, <2>3, <2>4 DEF Distinct
<1>12. Underway' = registered
  BY <1>2, <1>4, <1>7 DEF Underway, KeysOf
<1>13. Listed' /\ Accounted'
  BY <1>2, <1>12 DEF Listed, Accounted
<1>14. Fresh'
  BY <1>1, <1>2, <1>4, <1>6 DEF Fresh, UpToDate
<1>15. Targets' /\ RowsAccounted'
  BY <1>1, <1>2, <1>4 DEF Targets, RowsAccounted, Inserting, Latest
<1>16. Past'
  <2>1. \A c \in todo' : c.content <= content[c.key]
    <3>1. \A c \in todo' : c.content \in Nat
      BY <1>6 DEF Copy, Contents
    <3> QED
      BY <3>1, <1>6
  <2> QED
    BY <2>1, <1>1, <1>2 DEF Past
<1> QED
  BY <1>8, <1>9, <1>10, <1>11, <1>13, <1>14, <1>15, <1>16 DEF IInv

\* A barcode goes from the list to the queries.
LEMMA BarcodeKeeps == IInv /\ add_information_register_record => IInv'
<1> SUFFICES ASSUME IInv, add_information_register_record PROVE IInv'
  OBVIOUS
<1> USE ExchangeAssumption
<1>1. /\ TypeOK /\ RequestSize /\ UnloadedIsRegistered /\ RowsBounded /\ Shape /\ Distinct
      /\ Listed /\ Accounted /\ Fresh /\ Targets /\ RowsAccounted /\ Past
  BY DEF IInv
<1>2. PICK c \in todo : /\ c.key \in Barcodes
                        /\ todo' = todo \ {c}
                        /\ queries' = Append(queries, QueryFor(c))
  BY DEF add_information_register_record
<1>3. /\ UNCHANGED <<content, registered, rows, pc, batch, count, answer, sync_answer,
                     sync_queries, syncs, failures, overtaken, sync_overtaken, lost>>
      /\ pc = "collect" /\ answer = <<>>
  BY DEF add_information_register_record, Collecting, service, syncing, history
<1> DEFINE q == QueryFor(c)
<1>4. /\ q \in Query /\ q.key = c.key /\ q.content = c.content /\ q.at = Len(rows[c.key])
      /\ q.at \in Nat /\ c.key \in Keys /\ c.content \in Contents
      /\ rows[c.key] \in Seq(Contents)
  <2>1. c \in Copy
    BY <1>1 DEF TypeOK
  <2> QED
    BY <2>1, <1>1, QueryFacts
<1> HIDE DEF q
<1>5. queries \in Seq(Query) /\ queries' = Append(queries, q)
  BY <1>1, <1>2 DEF TypeOK, q
<1>6. Range(queries') = Range(queries) \cup {q}
  BY <1>4, <1>5, RangeAppend
<1>7. KeysOf(Range(queries')) = KeysOf(Range(queries)) \cup {c.key}
  BY <1>4, <1>6 DEF KeysOf
<1>8. KeysOf(todo') = KeysOf(todo) \ {c.key} /\ c.key \in KeysOf(todo)
  BY <1>1, <1>2 DEF Distinct, KeysOf
<1>9. TypeOK'
  <2>1. queries' \in Seq(Query)
    BY <1>4, <1>5
  <2> QED
    BY <2>1, <1>1, <1>2, <1>3 DEF TypeOK
<1>10. RequestSize' /\ UnloadedIsRegistered' /\ RowsBounded'
  BY <1>1, <1>3 DEF RequestSize, UnloadedIsRegistered, RowsBounded, Latest
<1>11. Shape'
  BY <1>1, <1>3 DEF Shape
<1>12. Distinct'
  <2>1. c.key \notin KeysOf(Range(queries))
    BY <1>1, <1>8 DEF Distinct
  <2>2. OnceByKey(queries')
    BY <2>1, <1>1, <1>4, <1>5, OnceAppend DEF Distinct
  <2>3. OnceByKey(answer') /\ KeysOf(Range(answer')) = {} /\ Range(batch') = Range(batch)
    BY <1>1, <1>3, RangeEmpty DEF Distinct, OnceByKey, KeysOf
  <2>4. c.key \notin Range(batch)
    BY <1>1, <1>8 DEF Distinct
  <2>5. \A d, e \in todo' : d.key = e.key => d = e
    BY <1>1, <1>2 DEF Distinct
  <2>6. \A i, j \in 1..Len(batch') : batch'[i] = batch'[j] => i = j
    BY <1>1, <1>3 DEF Distinct
  <2>7. KeysOf(todo) \cap Range(batch) = {}
        /\ (KeysOf(todo) \cup Range(batch)) \cap KeysOf(Range(queries)) = {}
    BY <1>1 DEF Distinct
  <2> QED
    BY <2>2, <2>3, <2>4, <2>5, <2>6, <2>7, <1>7, <1>8 DEF Distinct
<1>13. Underway' = Underway
  BY <1>3, <1>7, <1>8 DEF Underway
<1>14. Listed' /\ Accounted'
  BY <1>1, <1>3, <1>13 DEF Listed, Accounted, Latest
<1>15. Fresh'
  <2>1. UpToDate(q, overtaken)
    BY <1>1, <1>2, <1>4 DEF Fresh, UpToDate
  <2> QED
    BY <2>1, <1>1, <1>2, <1>3, <1>6 DEF Fresh, UpToDate
<1>16. Targets'
  <2>1. q.at <= Len(rows[q.key]) /\ q.at \in {0, Len(rows[q.key])}
    BY <1>4
  <2> QED
    BY <2>1, <1>1, <1>3, <1>6 DEF Targets, Latest
<1>17. RowsAccounted'
  <2>1. q.at = 0 => rows[q.key] = <<>> /\ Len(rows[q.key]) = 0
    <3>1. rows[c.key] # <<>> => Len(rows[c.key]) # 0
      BY <1>4, EmptySeq
    <3> QED
      BY <3>1, <1>4
  <2>2. \A k : Inserting(queries', k) => Inserting(queries, k) \/ (k = q.key /\ q.at = 0)
    BY <1>6 DEF Inserting
  <2>3. \A k \in Barcodes :
          /\ Inserting(queries', k) /\ Inserting(sync_queries, k) => rows[k] = <<>>
          /\ Inserting(queries', k) \/ Inserting(sync_queries, k) => Len(rows[k]) <= 1
    BY <2>1, <2>2, <1>1 DEF RowsAccounted
  <2> QED
    BY <2>3, <1>3 DEF RowsAccounted, Inserting
<1>18. Past'
  BY <1>1, <1>2, <1>3, <1>4, <1>6 DEF Past
<1> QED
  BY <1>9, <1>10, <1>11, <1>12, <1>14, <1>15, <1>16, <1>17, <1>18 DEF IInv

\* An object goes from the list to the batch.
LEMMA CollectKeeps == IInv /\ collect => IInv'
<1> SUFFICES ASSUME IInv, collect PROVE IInv'
  OBVIOUS
<1> USE ExchangeAssumption
<1>1. /\ TypeOK /\ RequestSize /\ UnloadedIsRegistered /\ RowsBounded /\ Shape /\ Distinct
      /\ Listed /\ Accounted /\ Fresh /\ Targets /\ RowsAccounted /\ Past
  BY DEF IInv
<1>2. PICK c \in todo : /\ c.key \in Objects
                        /\ todo' = todo \ {c}
                        /\ batch' = Append(batch, c.key)
                        /\ count' = count + 1
  BY DEF collect
<1>3. /\ UNCHANGED <<content, registered, rows, pc, answer, queries, sync_answer,
                     sync_queries, syncs, failures, overtaken, sync_overtaken, lost>>
      /\ pc = "collect" /\ answer = <<>> /\ count <= BatchSize
  <2>1. count \in Nat /\ BatchSize \in Nat
    BY <1>1 DEF TypeOK
  <2> QED
    BY <2>1 DEF collect, Collecting, Due, service, syncing, history
<1>4. /\ batch \in Seq(Objects) /\ batch' \in Seq(Objects)
      /\ Len(batch) \in Nat /\ Len(batch') = Len(batch) + 1
      /\ \A i \in 1..Len(batch) : batch'[i] = batch[i]
      /\ batch'[Len(batch) + 1] = c.key
  <2>1. batch \in Seq(Objects)
    BY <1>1 DEF TypeOK
  <2> QED
    BY <2>1, <1>2
<1>5. Range(batch') = Range(batch) \cup {c.key}
  BY <1>2, <1>4, RangeAppend
<1>6. KeysOf(todo') = KeysOf(todo) \ {c.key} /\ c.key \in KeysOf(todo)
  BY <1>1, <1>2 DEF Distinct, KeysOf
<1>7. TypeOK'
  BY <1>1, <1>2, <1>3, <1>4 DEF TypeOK
<1>8. RequestSize'
  <2>1. count \in Nat /\ BatchSize \in Nat
    BY <1>1 DEF TypeOK
  <2> QED
    BY <2>1, <1>1, <1>2, <1>3, <1>4 DEF RequestSize
<1>9. UnloadedIsRegistered' /\ RowsBounded' /\ Targets' /\ RowsAccounted'
  BY <1>1, <1>3
     DEF UnloadedIsRegistered, RowsBounded, Latest, Targets, RowsAccounted, Inserting
<1>10. Shape'
  BY <1>1, <1>3 DEF Shape
<1>11. Distinct'
  <2>1. c.key \notin Range(batch)
    BY <1>1, <1>6 DEF Distinct
  <2>2. \A i, j \in 1..Len(batch') : batch'[i] = batch'[j] => i = j
    <3>1. \A i \in 1..Len(batch) : batch[i] # c.key
      BY <2>1, <1>4, RangeOf
    <3>2. \A i \in 1..Len(batch') : i \in 1..Len(batch) \/ i = Len(batch) + 1
      BY <1>4
    <3> QED
      BY <3>1, <3>2, <1>1, <1>4 DEF Distinct
  <2>3. OnceByKey(answer)' /\ OnceByKey(queries)'
    BY <1>1, <1>3 DEF Distinct, OnceByKey
  <2>4. \A d, e \in todo' : d.key = e.key => d = e
    BY <1>1, <1>2 DEF Distinct
  <2>5. KeysOf(Range(answer'))  = KeysOf(Range(answer))
        /\ KeysOf(Range(queries')) = KeysOf(Range(queries))
    BY <1>3
  <2> QED
    BY <2>2, <2>3, <2>4, <2>5, <1>1, <1>5, <1>6 DEF Distinct
<1>12. Underway' = Underway
  BY <1>3, <1>5, <1>6 DEF Underway
<1>13. Listed' /\ Accounted'
  BY <1>1, <1>3, <1>12 DEF Listed, Accounted, Latest
<1>14. Fresh' /\ Past'
  BY <1>1, <1>2, <1>3 DEF Fresh, UpToDate, Past
<1> QED
  BY <1>7, <1>8, <1>9, <1>10, <1>11, <1>13, <1>14 DEF IInv

\* What a request leaves of the batch, whatever the answer is.
LEMMA SentFacts ==
  ASSUME IInv, Sent, pc = "collect", Due \/ todo = {}
  PROVE  /\ batch' = <<>> /\ Range(batch') = {} /\ batch' \in Seq(Objects)
         /\ count' \in Nat /\ pc' \in {"collect", "load"}
         /\ Len(batch') <= count' /\ count' <= BatchSize + 1
         /\ pc' = "load" => todo = {}
<1>1. BatchSize \in Nat \ {0} /\ count \in Nat
  BY ExchangeAssumption DEF IInv, TypeOK
<1>2. batch' = <<>> /\ count' \in {0, 1} /\ pc' \in {"collect", "load"}
      /\ (pc' = "load" => todo = {})
  BY DEF Sent
<1> QED
  BY <1>1, <1>2, RangeEmpty, EmptySeq

\* The objects of the batch come with their contents of now.
LEMMA GetObjectsKeeps == IInv /\ GetObjects => IInv'
<1> SUFFICES ASSUME IInv, GetObjects PROVE IInv'
  OBVIOUS
<1> USE ExchangeAssumption
<1>1. /\ TypeOK /\ RequestSize /\ UnloadedIsRegistered /\ RowsBounded /\ Shape /\ Distinct
      /\ Listed /\ Accounted /\ Fresh /\ Targets /\ RowsAccounted /\ Past
  BY DEF IInv
<1>2. /\ pc = "collect" /\ answer = <<>> /\ (Due \/ todo = {}) /\ Sent
      /\ answer' = [i \in 1..Len(batch) |-> CopyOf(batch[i])]
      /\ UNCHANGED <<content, registered, rows, todo, queries, sync_answer, sync_queries,
                     syncs, failures, overtaken, sync_overtaken, lost>>
  BY DEF GetObjects, service, syncing, history
<1>3. /\ batch' = <<>> /\ Range(batch') = {} /\ batch' \in Seq(Objects)
      /\ count' \in Nat /\ pc' \in {"collect", "load"}
      /\ Len(batch') <= count' /\ count' <= BatchSize + 1
      /\ pc' = "load" => todo = {}
  BY <1>2, SentFacts
<1>4. /\ batch \in Seq(Objects) /\ Len(batch) \in Nat
      /\ \A i \in 1..Len(batch) : batch[i] \in Keys
  BY <1>1 DEF TypeOK, Keys
<1>5. /\ answer' \in Seq(Copy) /\ Len(answer') = Len(batch)
      /\ \A i \in 1..Len(batch) : answer'[i] = CopyOf(batch[i])
      /\ \A i \in 1..Len(batch) : answer'[i].key = batch[i]
                                   /\ answer'[i].content = content[batch[i]]
  <2>1. \A i \in 1..Len(batch) : /\ CopyOf(batch[i]) \in Copy
                                 /\ CopyOf(batch[i]).key = batch[i]
                                 /\ CopyOf(batch[i]).content = content[batch[i]]
    BY <1>1, <1>4, CopyFacts
  <2>2. answer' \in [1..Len(batch) -> Copy]
    BY <2>1, <1>2
  <2>3. answer' \in Seq(Copy) /\ Len(answer') = Len(batch)
    BY <2>2, <1>4, IsASeq
  <2> QED
    BY <2>1, <2>3, <1>2
<1>6. KeysOf(Range(answer')) = Range(batch)
  <2>1. \A x \in Range(answer') : x.key \in Range(batch)
    <3> SUFFICES ASSUME NEW x \in Range(answer') PROVE x.key \in Range(batch)
      OBVIOUS
    <3>1. PICK i \in 1..Len(answer') : answer'[i] = x
      BY <1>5, RangeOf
    <3> QED
      BY <3>1, <1>4, <1>5, RangeOf
  <2>2. \A k \in Range(batch) : \E x \in Range(answer') : x.key = k
    <3> SUFFICES ASSUME NEW k \in Range(batch) PROVE \E x \in Range(answer') : x.key = k
      OBVIOUS
    <3>1. PICK i \in 1..Len(batch) : batch[i] = k
      BY <1>4, RangeOf
    <3>2. answer'[i] \in Range(answer') /\ answer'[i].key = k
      BY <3>1, <1>5, RangeOf
    <3> QED
      BY <3>2
  <2> QED
    BY <2>1, <2>2 DEF KeysOf
<1>7. \A x \in Range(answer') : x.content = content[x.key] /\ x \in Copy
  BY <1>5, RangeOf
<1>8. KeysOf(Range(answer)) = {} /\ Range(answer) = {}
  BY <1>2, RangeEmpty DEF KeysOf
<1>9. TypeOK'
  BY <1>1, <1>2, <1>3, <1>5 DEF TypeOK
<1>10. RequestSize'
  BY <1>3 DEF RequestSize
<1>11. UnloadedIsRegistered' /\ RowsBounded' /\ Targets' /\ RowsAccounted'
  BY <1>1, <1>2
     DEF UnloadedIsRegistered, RowsBounded, Latest, Targets, RowsAccounted, Inserting
<1>12. Shape'
  BY <1>1, <1>2, <1>3 DEF Shape
<1>13. Distinct'
  <2>1. OnceByKey(answer')
    BY <1>1, <1>5 DEF Distinct, OnceByKey
  <2>2. OnceByKey(queries') /\ KeysOf(Range(queries')) = KeysOf(Range(queries))
        /\ KeysOf(todo') = KeysOf(todo)
    BY <1>1, <1>2 DEF Distinct, OnceByKey
  <2>3. \A c, d \in todo' : c.key = d.key => c = d
    BY <1>1, <1>2 DEF Distinct
  <2>4. \A i, j \in 1..Len(batch') : batch'[i] = batch'[j] => i = j
    BY <1>3
  <2> QED
    BY <2>1, <2>2, <2>3, <2>4, <1>1, <1>3, <1>6, <1>8 DEF Distinct
<1>14. Underway' = Underway
  BY <1>2, <1>3, <1>6, <1>8 DEF Underway
<1>15. Listed' /\ Accounted'
  BY <1>1, <1>2, <1>3, <1>14 DEF Listed, Accounted, Latest
<1>16. Fresh'
  BY <1>1, <1>2, <1>7 DEF Fresh, UpToDate
<1>17. Past'
  <2>1. \A x \in Range(answer') : x.content <= content[x.key]
    <3>1. \A x \in Range(answer') : x.content \in Nat
      BY <1>7 DEF Copy, Contents
    <3> QED
      BY <3>1, <1>7
  <2> QED
    BY <2>1, <1>1, <1>2 DEF Past
<1> QED
  BY <1>9, <1>10, <1>11, <1>12, <1>13, <1>15, <1>16, <1>17 DEF IInv

\* A batch that is passed over counts as overtaken.
LEMMA NotArrayKeeps == IInv /\ GetObjects_not_array => IInv'
<1> SUFFICES ASSUME IInv, GetObjects_not_array PROVE IInv'
  OBVIOUS
<1> USE ExchangeAssumption
<1>1. /\ TypeOK /\ RequestSize /\ UnloadedIsRegistered /\ RowsBounded /\ Shape /\ Distinct
      /\ Listed /\ Accounted /\ Fresh /\ Targets /\ RowsAccounted /\ Past
  BY DEF IInv
<1>2. /\ pc = "collect" /\ answer = <<>> /\ (Due \/ todo = {}) /\ Sent
      /\ failures < MaxFailures /\ failures' = failures + 1
      /\ overtaken' = overtaken \cup Range(batch)
      /\ UNCHANGED <<content, registered, rows, todo, answer, queries, sync_answer,
                     sync_queries, syncs, sync_overtaken, lost>>
  BY DEF GetObjects_not_array, service, syncing
<1>3. /\ batch' = <<>> /\ Range(batch') = {} /\ batch' \in Seq(Objects)
      /\ count' \in Nat /\ pc' \in {"collect", "load"}
      /\ Len(batch') <= count' /\ count' <= BatchSize + 1
      /\ pc' = "load" => todo = {}
  BY <1>2, SentFacts
<1>4. Range(batch) \subseteq Keys
  BY <1>1, RangeOf DEF TypeOK, Keys
<1>5. TypeOK'
  <2>1. failures' \in 0..MaxFailures
    BY <1>1, <1>2 DEF TypeOK
  <2> QED
    BY <2>1, <1>1, <1>2, <1>3, <1>4 DEF TypeOK
<1>6. RequestSize'
  BY <1>3 DEF RequestSize
<1>7. UnloadedIsRegistered' /\ RowsBounded' /\ Targets' /\ RowsAccounted'
  BY <1>1, <1>2
     DEF UnloadedIsRegistered, RowsBounded, Latest, Targets, RowsAccounted, Inserting
<1>8. Shape'
  BY <1>1, <1>2, <1>3 DEF Shape
<1>9. Distinct'
  <2>1. \A i, j \in 1..Len(batch') : batch'[i] = batch'[j] => i = j
    BY <1>3
  <2> QED
    BY <2>1, <1>1, <1>2, <1>3 DEF Distinct, OnceByKey, KeysOf
<1>10. Underway' \cup overtaken' = Underway \cup overtaken
  BY <1>2, <1>3 DEF Underway
<1>11. Listed' /\ Accounted'
  BY <1>1, <1>2, <1>3, <1>10 DEF Listed, Accounted, Latest
<1>12. Fresh' /\ Past'
  BY <1>1, <1>2 DEF Fresh, UpToDate, Past
<1> QED
  BY <1>5, <1>6, <1>7, <1>8, <1>9, <1>11, <1>12 DEF IInv

\* An object goes from the answer to the queries.
LEMMA AddRequestsKeeps == IInv /\ add_requests => IInv'
<1> SUFFICES ASSUME IInv, add_requests PROVE IInv'
  OBVIOUS
<1> USE ExchangeAssumption
<1>1. /\ TypeOK /\ RequestSize /\ UnloadedIsRegistered /\ RowsBounded /\ Shape /\ Distinct
      /\ Listed /\ Accounted /\ Fresh /\ Targets /\ RowsAccounted /\ Past
  BY DEF IInv
<1> DEFINE c == Head(answer)
           q == QueryFor(c)
<1>2. /\ answer # <<>> /\ answer' = Tail(answer) /\ queries' = Append(queries, q)
      /\ UNCHANGED <<content, registered, rows, pc, todo, batch, count, sync_answer,
                     sync_queries, syncs, failures, overtaken, sync_overtaken, lost>>
  BY DEF add_requests, service, syncing, history
<1>3. /\ answer \in Seq(Copy) /\ answer' \in Seq(Copy) /\ c \in Copy
      /\ Range(answer) = Range(answer') \cup {c}
      /\ OnceByKey(answer') /\ c.key \notin KeysOf(Range(answer'))
  <2>1. answer \in Seq(Copy) /\ OnceByKey(answer)
    BY <1>1 DEF TypeOK, Distinct
  <2> QED
    BY <2>1, <1>2, RangeTail, OnceTail
<1> HIDE DEF c
<1>4. /\ q \in Query /\ q.key = c.key /\ q.content = c.content /\ q.at = Len(rows[c.key])
      /\ q.at \in Nat /\ c.key \in Keys /\ c.content \in Contents
      /\ rows[c.key] \in Seq(Contents)
  BY <1>1, <1>3, QueryFacts
<1> HIDE DEF q
<1>5. queries \in Seq(Query) /\ queries' \in Seq(Query)
  BY <1>1, <1>2, <1>4 DEF TypeOK
<1>6. Range(queries') = Range(queries) \cup {q}
  BY <1>2, <1>4, <1>5, RangeAppend
<1>7. /\ KeysOf(Range(queries')) = KeysOf(Range(queries)) \cup {c.key}
      /\ KeysOf(Range(answer)) = KeysOf(Range(answer')) \cup {c.key}
  BY <1>3, <1>4, <1>6 DEF KeysOf
<1>8. batch = <<>> /\ Range(batch) = {}
  BY <1>1, <1>2, RangeEmpty DEF Shape
<1>9. TypeOK'
  BY <1>1, <1>2, <1>3, <1>5 DEF TypeOK
<1>10. RequestSize' /\ UnloadedIsRegistered' /\ RowsBounded'
  BY <1>1, <1>2 DEF RequestSize, UnloadedIsRegistered, RowsBounded, Latest
<1>11. Shape'
  BY <1>1, <1>2, <1>8 DEF Shape
<1>12. Distinct'
  <2>1. c.key \notin KeysOf(Range(queries))
    BY <1>1, <1>7 DEF Distinct
  <2>2. OnceByKey(queries')
    BY <2>1, <1>1, <1>2, <1>4, <1>5, OnceAppend DEF Distinct
  <2>3. \A d, e \in todo' : d.key = e.key => d = e
    BY <1>1, <1>2 DEF Distinct
  <2>4. \A i, j \in 1..Len(batch') : batch'[i] = batch'[j] => i = j
    BY <1>1, <1>2 DEF Distinct
  <2>5. KeysOf(todo) \cap KeysOf(Range(answer)) = {}
        /\ KeysOf(todo) \cap KeysOf(Range(queries)) = {}
        /\ KeysOf(Range(answer)) \cap KeysOf(Range(queries)) = {}
    BY <1>1 DEF Distinct
  <2>6. KeysOf(todo') = KeysOf(todo) /\ Range(batch') = {}
    BY <1>2, <1>8
  <2>7. /\ KeysOf(todo') \cap Range(batch') = {}
        /\ KeysOf(Range(answer')) \cap KeysOf(Range(queries')) = {}
    BY <2>5, <2>6, <1>3, <1>7
  <2>8. (KeysOf(todo') \cup Range(batch'))
          \cap (KeysOf(Range(answer')) \cup KeysOf(Range(queries'))) = {}
    BY <2>5, <2>6, <1>7
  <2> QED
    BY <2>2, <2>3, <2>4, <2>7, <2>8, <1>3 DEF Distinct
<1>13. Underway' = Underway
  BY <1>2, <1>7 DEF Underway
<1>14. Listed' /\ Accounted'
  BY <1>1, <1>2, <1>13 DEF Listed, Accounted, Latest
<1>15. Fresh'
  <2>1. UpToDate(q, overtaken)
    BY <1>1, <1>3, <1>4 DEF Fresh, UpToDate
  <2> QED
    BY <2>1, <1>1, <1>2, <1>3, <1>6 DEF Fresh, UpToDate
<1>16. Targets'
  <2>1. q.at <= Len(rows[q.key]) /\ q.at \in {0, Len(rows[q.key])}
    BY <1>4
  <2> QED
    BY <2>1, <1>1, <1>2, <1>6 DEF Targets, Latest
<1>17. RowsAccounted'
  <2>1. q.at = 0 => rows[q.key] = <<>> /\ Len(rows[q.key]) = 0
    <3>1. rows[c.key] # <<>> => Len(rows[c.key]) # 0
      BY <1>4, EmptySeq
    <3> QED
      BY <3>1, <1>4
  <2>2. \A k : Inserting(queries', k) => Inserting(queries, k) \/ (k = q.key /\ q.at = 0)
    BY <1>6 DEF Inserting
  <2>3. \A k \in Barcodes :
          /\ Inserting(queries', k) /\ Inserting(sync_queries, k) => rows[k] = <<>>
          /\ Inserting(queries', k) \/ Inserting(sync_queries, k) => Len(rows[k]) <= 1
    BY <2>1, <2>2, <1>1 DEF RowsAccounted
  <2> QED
    BY <2>3, <1>2 DEF RowsAccounted, Inserting
<1>18. Past'
  BY <1>1, <1>2, <1>3, <1>4, <1>6 DEF Past
<1> QED
  BY <1>9, <1>10, <1>11, <1>12, <1>14, <1>15, <1>16, <1>17, <1>18 DEF IInv

\* Whoever leaves leaves nothing but the registration.
LEMMA LeaveKeeps ==
  ASSUME IInv, Leave,
         UNCHANGED <<content, registered, rows, sync_answer, sync_queries, syncs,
                     overtaken, sync_overtaken, lost>>,
         failures' \in 0..MaxFailures
  PROVE  IInv'
<1> USE ExchangeAssumption
<1>1. /\ TypeOK /\ RequestSize /\ UnloadedIsRegistered /\ RowsBounded /\ Shape /\ Distinct
      /\ Listed /\ Accounted /\ Fresh /\ Targets /\ RowsAccounted /\ Past
  BY DEF IInv
<1>2. /\ pc' = "idle" /\ todo' = {} /\ batch' = <<>> /\ count' = 0
      /\ answer' = <<>> /\ queries' = <<>>
  BY DEF Leave
<1>3. Range(batch') = {} /\ Range(answer') = {} /\ Range(queries') = {}
  BY <1>2, RangeEmpty
<1>4. TypeOK'
  BY <1>1, <1>2 DEF TypeOK
<1>5. RequestSize' /\ Shape' /\ Listed' /\ Accounted'
  BY <1>2 DEF RequestSize, Shape, Listed, Accounted
<1>6. UnloadedIsRegistered' /\ RowsBounded'
  BY <1>1 DEF UnloadedIsRegistered, RowsBounded, Latest
<1>7. Distinct'
  BY <1>2, <1>3 DEF Distinct, OnceByKey, KeysOf
<1>8. Fresh' /\ Targets' /\ RowsAccounted' /\ Past'
  BY <1>1, <1>2, <1>3 DEF Fresh, UpToDate, Targets, Latest, RowsAccounted, Inserting, Past
<1> QED
  BY <1>4, <1>5, <1>6, <1>7, <1>8 DEF IInv

LEMMA FailKeeps == IInv /\ (commit_conflict \/ fail) => IInv'
<1>1. ASSUME IInv, commit_conflict PROVE IInv'
  BY <1>1, LeaveKeeps DEF commit_conflict, service, syncing, history, IInv, TypeOK
<1>2. ASSUME IInv, fail PROVE IInv'
  <2>1. failures' \in 0..MaxFailures
    BY <1>2, ExchangeAssumption DEF fail, IInv, TypeOK
  <2> QED
    BY <2>1, <1>2, LeaveKeeps DEF fail, service, syncing, history
<1> QED
  BY <1>1, <1>2

\* The registration is cleared when all of it has been dealt with.
LEMMA EraseKeeps == IInv /\ EraseChange => IInv'
<1> SUFFICES ASSUME IInv, EraseChange PROVE IInv'
  OBVIOUS
<1> USE ExchangeAssumption
<1>1. /\ TypeOK /\ RequestSize /\ UnloadedIsRegistered /\ RowsBounded /\ Shape /\ Distinct
      /\ Listed /\ Accounted /\ Fresh /\ Targets /\ RowsAccounted /\ Past
  BY DEF IInv
<1>2. /\ pc = "load" /\ answer = <<>> /\ queries = <<>>
      /\ registered' = {} /\ lost' = lost \cup overtaken
      /\ UNCHANGED <<content, rows, sync_answer, sync_queries, syncs, failures, overtaken,
                     sync_overtaken>>
  BY DEF EraseChange, Loading, syncing
<1>3. /\ pc' = "idle" /\ todo' = {} /\ batch' = <<>> /\ count' = 0
      /\ answer' = <<>> /\ queries' = <<>>
  BY DEF EraseChange, Leave
<1>4. Range(batch') = {} /\ Range(answer') = {} /\ Range(queries') = {}
  BY <1>3, RangeEmpty
<1>5. Underway = {}
  <2>1. todo = {} /\ batch = <<>>
    BY <1>1, <1>2 DEF Shape
  <2> QED
    BY <2>1, <1>2, RangeEmpty DEF Underway, KeysOf
<1>6. \A k \in registered : k \in overtaken \cup lost \/ Latest(k)
  BY <1>1, <1>2, <1>5 DEF Accounted
<1>7. UnloadedIsRegistered'
  BY <1>1, <1>2, <1>6 DEF UnloadedIsRegistered, Latest
<1>8. TypeOK'
  BY <1>1, <1>2, <1>3 DEF TypeOK
<1>9. RequestSize' /\ Shape' /\ Listed' /\ Accounted' /\ RowsBounded'
  BY <1>1, <1>2, <1>3 DEF RequestSize, Shape, Listed, Accounted, RowsBounded
<1>10. Distinct'
  BY <1>3, <1>4 DEF Distinct, OnceByKey, KeysOf
<1>11. Fresh' /\ Targets' /\ RowsAccounted' /\ Past'
  BY <1>1, <1>2, <1>3, <1>4
     DEF Fresh, UpToDate, Targets, Latest, RowsAccounted, Inserting, Past
<1> QED
  BY <1>7, <1>8, <1>9, <1>10, <1>11 DEF IInv

\* The rows of a key that a transaction writes.
StatementWrote(q, k) ==
  /\ q.key = k /\ q \in Query /\ rows[k] \in Seq(Contents) /\ q.at <= Len(rows[k])
  /\ rows'[k] \in Seq(Contents) /\ rows'[k] # <<>>
  /\ Len(rows'[k]) = IF q.at = 0 THEN Len(rows[k]) + 1 ELSE Len(rows[k])
  /\ rows'[k][Len(rows'[k])] =
       IF q.at \in {0, Len(rows[k])} THEN q.content ELSE rows[k][Len(rows[k])]
  /\ \A i \in 1..Len(rows'[k]) :
       rows'[k][i] = q.content \/ (i \in 1..Len(rows[k]) /\ rows'[k][i] = rows[k][i])

LEMMA TransactionFacts ==
  ASSUME TypeOK, NEW qs \in Seq(Query), rows' = Execute(qs),
         \A q \in Range(qs) : q.at <= Len(rows[q.key])
  PROVE  /\ rows' \in [Keys -> Seq(Contents)]
         /\ \A k \in Keys : k \notin KeysOf(Range(qs)) => rows'[k] = rows[k]
         /\ \A k \in KeysOf(Range(qs)) :
              k \in Keys /\ \E q \in Range(qs) : StatementWrote(q, k)
<1>1. /\ rows' \in [Keys -> Seq(Contents)]
      /\ \A k \in Keys : k \notin KeysOf(Range(qs)) => rows'[k] = rows[k]
      /\ \A k \in Keys : k \in KeysOf(Range(qs)) =>
           \E q \in Range(qs) : q.key = k /\ rows'[k] = Written(rows[k], q)
  BY ExecuteFacts
<1>2. \A q \in Range(qs) : q \in Query /\ q.key \in Keys
  <2>1. Range(qs) \subseteq Query
    BY RangeOf
  <2> QED
    BY <2>1 DEF Query
<1>3. ASSUME NEW k \in KeysOf(Range(qs))
      PROVE  k \in Keys /\ \E q \in Range(qs) : StatementWrote(q, k)
  <2>1. k \in Keys
    BY <1>2 DEF KeysOf
  <2>2. PICK q \in Range(qs) : q.key = k /\ rows'[k] = Written(rows[k], q)
    BY <2>1, <1>1
  <2>3. rows[k] \in Seq(Contents) /\ q \in Query /\ q.at <= Len(rows[k])
    BY <2>1, <2>2, <1>2 DEF TypeOK
  <2>4. StatementWrote(q, k)
    BY <2>2, <2>3, WrittenFacts DEF StatementWrote
  <2> QED
    BY <2>1, <2>4
<1> QED
  BY <1>1, <1>3

\* A chunk is what the queries begin with; no key of it is in what is left.
LEMMA ChunkFacts ==
  ASSUME queries \in Seq(Query)
  PROVE  LET left == SubSeq(queries, Len(Chunk) + 1, Len(queries))
         IN  /\ Chunk \in Seq(Query) /\ left \in Seq(Query)
             /\ Range(queries) = Range(Chunk) \cup Range(left)
             /\ OnceByKey(queries) =>
                  /\ OnceByKey(left)
                  /\ KeysOf(Range(Chunk)) \cap KeysOf(Range(left)) = {}
<1> DEFINE n == IF Len(queries) < ChunkSize THEN Len(queries) ELSE ChunkSize
<1>1. n \in 0..Len(queries)
  BY ExchangeAssumption
<1>2. Chunk = SubSeq(queries, 1, n)
  BY DEF Chunk
<1> HIDE DEF n
<1>3. Len(Chunk) = n
  BY <1>1, <1>2, RangeCut
<1> QED
  BY <1>1, <1>2, <1>3, RangeCut, OnceCut

\* A chunk of the queries is written.
LEMMA CommitKeeps == IInv /\ commit => IInv'
<1> SUFFICES ASSUME IInv, commit PROVE IInv'
  OBVIOUS
<1> USE ExchangeAssumption
<1>1. /\ TypeOK /\ RequestSize /\ UnloadedIsRegistered /\ RowsBounded /\ Shape /\ Distinct
      /\ Listed /\ Accounted /\ Fresh /\ Targets /\ RowsAccounted /\ Past
  BY DEF IInv
<1>2. /\ pc = "load" /\ answer = <<>> /\ queries # <<>> /\ ~Conflict(Chunk)
      /\ rows' = Execute(Chunk)
      /\ queries' = SubSeq(queries, Len(Chunk) + 1, Len(queries))
      /\ UNCHANGED <<content, registered, pc, todo, batch, count, answer, sync_answer,
                     sync_queries, syncs, failures, overtaken, sync_overtaken, lost>>
  BY DEF commit, Loading, service, syncing, history
<1>3. todo = {} /\ batch = <<>> /\ Range(batch) = {} /\ Range(answer) = {}
  BY <1>1, <1>2, RangeEmpty DEF Shape
<1>4. queries \in Seq(Query) /\ OnceByKey(queries)
  BY <1>1 DEF TypeOK, Distinct
<1>5. /\ Chunk \in Seq(Query) /\ queries' \in Seq(Query)
      /\ Range(queries) = Range(Chunk) \cup Range(queries')
      /\ OnceByKey(queries') /\ KeysOf(Range(Chunk)) \cap KeysOf(Range(queries')) = {}
  BY <1>2, <1>4, ChunkFacts
<1> DEFINE CK == KeysOf(Range(Chunk))
<1>6. KeysOf(Range(queries)) = CK \cup KeysOf(Range(queries'))
  BY <1>5 DEF KeysOf
<1>7. /\ rows' \in [Keys -> Seq(Contents)]
      /\ \A k \in Keys : k \notin CK => rows'[k] = rows[k]
      /\ \A k \in CK : k \in Keys /\ \E q \in Range(Chunk) : StatementWrote(q, k)
  <2>1. \A q \in Range(Chunk) : q.at <= Len(rows[q.key])
    BY <1>1, <1>5 DEF Targets
  <2> QED
    BY <2>1, <1>1, <1>2, <1>5, TransactionFacts
<1>8. \A q \in Range(queries') : q.key \notin CK /\ q.key \in Keys
  <2>1. \A q \in Range(queries') : q.key \in KeysOf(Range(queries')) /\ q \in Query
    BY <1>5, RangeOf DEF KeysOf
  <2> QED
    BY <2>1, <1>5 DEF Query
<1> HIDE DEF CK
<1>9. ASSUME NEW k \in CK
      PROVE  \E q \in Range(Chunk) : StatementWrote(q, k) /\ q \in Range(queries)
  BY <1>5, <1>7
<1>10. \A k \in CK : k \in overtaken \cup lost \/ Latest(k)'
  <2> SUFFICES ASSUME NEW k \in CK, k \notin overtaken \cup lost PROVE Latest(k)'
    OBVIOUS
  <2>1. PICK q \in Range(Chunk) : StatementWrote(q, k) /\ q \in Range(queries)
    BY <1>9
  <2>2. q.key = k /\ q.content = content[k]
    BY <2>1, <1>1 DEF Fresh, UpToDate, StatementWrote
  <2>3. q.at \in {0, Len(rows[k])} \/ Latest(k)
    BY <2>1, <2>2, <1>1 DEF Targets
  <2> QED
    BY <2>1, <2>2, <2>3, <1>2 DEF Latest, StatementWrote
<1>11. TypeOK'
  BY <1>1, <1>2, <1>5, <1>7 DEF TypeOK
<1>12. RequestSize' /\ Shape'
  BY <1>1, <1>2, <1>3 DEF RequestSize, Shape
<1>13. Underway = CK \cup Underway'
  BY <1>2, <1>6 DEF Underway
<1>14. Listed' /\ CK \subseteq registered
  BY <1>1, <1>2, <1>13 DEF Listed
<1>15. \A k \in Keys : k \notin CK => (Latest(k)' <=> Latest(k))
  BY <1>2, <1>7 DEF Latest
<1>16. UnloadedIsRegistered'
  BY <1>1, <1>2, <1>14, <1>15 DEF UnloadedIsRegistered
<1>17. Accounted'
  <2>1. registered \subseteq Keys
    BY <1>1 DEF TypeOK
  <2> QED
    BY <2>1, <1>1, <1>2, <1>10, <1>13, <1>15 DEF Accounted
<1>18. RowsBounded'
  <2> SUFFICES ASSUME NEW k \in Keys
               PROVE  Len(rows'[k]) <= IF k \in Objects THEN 1 ELSE 2
    BY DEF RowsBounded
  <2>1. Len(rows[k]) <= IF k \in Objects THEN 1 ELSE 2
    BY <1>1 DEF RowsBounded
  <2>2. CASE k \notin CK
    BY <2>1, <2>2, <1>7
  <2>3. CASE k \in CK
    <3>1. PICK q \in Range(Chunk) : StatementWrote(q, k) /\ q \in Range(queries)
      BY <2>3, <1>9
    <3>2. CASE q.at # 0
      BY <2>1, <3>1, <3>2 DEF StatementWrote
    <3>3. CASE q.at = 0 /\ k \in Objects
      <4>1. rows[k] = <<>>
        BY <3>1, <3>3, <1>2 DEF Conflict, StatementWrote
      <4> QED
        BY <4>1, <3>1, <3>3 DEF StatementWrote
    <3>4. CASE q.at = 0 /\ k \notin Objects
      <4>1. Len(rows[k]) <= 1
        BY <3>1, <3>4, <1>1 DEF RowsAccounted, Inserting, StatementWrote, Keys
      <4>2. Len(rows[k]) \in Nat
        BY <3>1 DEF StatementWrote
      <4> QED
        BY <4>1, <4>2, <3>1, <3>4 DEF StatementWrote
    <3> QED
      BY <3>2, <3>3, <3>4
  <2> QED
    BY <2>2, <2>3
<1>19. Distinct'
  <2>1. KeysOf(Range(answer')) = {} /\ KeysOf(todo') = {} /\ Range(batch') = {}
    BY <1>2, <1>3 DEF KeysOf
  <2>2. OnceByKey(answer') /\ OnceByKey(queries')
    BY <1>1, <1>2, <1>5 DEF Distinct, OnceByKey
  <2>3. \A i, j \in 1..Len(batch') : batch'[i] = batch'[j] => i = j
    BY <1>1, <1>2 DEF Distinct
  <2> QED
    BY <2>1, <2>2, <2>3, <1>2, <1>3 DEF Distinct
<1>20. Fresh'
  BY <1>1, <1>2, <1>5 DEF Fresh, UpToDate
<1>21. \A k \in Keys : Len(rows[k]) <= Len(rows'[k])
  <2> SUFFICES ASSUME NEW k \in Keys PROVE Len(rows[k]) <= Len(rows'[k])
    OBVIOUS
  <2>1. Len(rows[k]) \in Nat
    BY <1>1 DEF TypeOK
  <2>2. CASE k \notin CK
    BY <2>1, <2>2, <1>7
  <2>3. CASE k \in CK
    BY <2>1, <2>3, <1>9 DEF StatementWrote
  <2> QED
    BY <2>2, <2>3
<1>22. Targets'
  <2>1. ASSUME NEW q \in Range(queries')
        PROVE  /\ q.at <= Len(rows'[q.key])
               /\ q.key \in overtaken \cup lost \/ q.at \in {0, Len(rows'[q.key])}
                    \/ Latest(q.key)'
    <3>1. rows'[q.key] = rows[q.key] /\ (Latest(q.key)' <=> Latest(q.key))
      BY <1>7, <1>8, <1>15
    <3>2. q \in Range(queries)
      BY <1>5
    <3> QED
      BY <3>1, <3>2, <1>1 DEF Targets
  <2>2. ASSUME NEW q \in Range(sync_queries) PROVE q.at <= Len(rows'[q.key])
    <3>1. q.key \in Keys /\ q.at \in Nat
      <4>1. q \in Query
        BY <1>1, RangeOf DEF TypeOK
      <4> QED
        BY <4>1 DEF Query
    <3>2. q.at <= Len(rows[q.key])
      BY <1>1 DEF Targets
    <3>3. Len(rows[q.key]) \in Nat /\ Len(rows'[q.key]) \in Nat
      BY <3>1, <1>1, <1>7 DEF TypeOK
    <3> QED
      BY <3>1, <3>2, <3>3, <1>21
  <2> QED
    BY <2>1, <2>2, <1>2 DEF Targets
<1>23. RowsAccounted'
  <2> SUFFICES ASSUME NEW k \in Barcodes
               PROVE  /\ Inserting(queries', k) /\ Inserting(sync_queries, k)
                           => rows'[k] = <<>>
                      /\ Inserting(queries', k) \/ Inserting(sync_queries, k)
                           => Len(rows'[k]) <= 1
    BY <1>2 DEF RowsAccounted, Inserting
  <2>1. k \in Keys
    BY DEF Keys
  <2>2. Inserting(queries', k) => Inserting(queries, k) /\ k \notin CK
    BY <1>5, <1>8 DEF Inserting
  <2>3. CASE k \notin CK
    BY <2>1, <2>2, <2>3, <1>1, <1>7 DEF RowsAccounted
  <2>4. CASE k \in CK
    <3>1. PICK q \in Range(Chunk) : StatementWrote(q, k) /\ q \in Range(queries)
      BY <2>4, <1>9
    <3>2. ASSUME Inserting(sync_queries, k) PROVE Len(rows'[k]) <= 1
      <4>1. Len(rows[k]) <= 1 /\ (Inserting(queries, k) => rows[k] = <<>>)
        BY <3>2, <1>1 DEF RowsAccounted
      <4>2. q.at = 0 => Inserting(queries, k)
        BY <3>1 DEF Inserting, StatementWrote
      <4> QED
        BY <4>1, <4>2, <3>1 DEF StatementWrote
    <3> QED
      BY <2>2, <2>4, <3>2
  <2> QED
    BY <2>3, <2>4
<1>24. Past'
  <2>1. ASSUME NEW k \in Keys, NEW i \in 1..Len(rows'[k]) PROVE rows'[k][i] <= content[k]
    <3>1. CASE k \notin CK
      BY <3>1, <1>1, <1>7 DEF Past
    <3>2. CASE k \in CK
      <4>1. PICK q \in Range(Chunk) : StatementWrote(q, k) /\ q \in Range(queries)
        BY <3>2, <1>9
      <4>2. q.content <= content[k]
        BY <4>1, <1>1 DEF Past, StatementWrote
      <4> QED
        BY <4>1, <4>2, <1>1 DEF Past, StatementWrote
    <3> QED
      BY <3>1, <3>2
  <2> QED
    BY <2>1, <1>1, <1>2, <1>5 DEF Past
<1> QED
  BY <1>11, <1>12, <1>14, <1>16, <1>17, <1>18, <1>19, <1>20, <1>22, <1>23, <1>24 DEF IInv

\* The command gets the barcode and its object with their contents of now.
LEMMA SyncUpdateBarcodeKeeps == IInv /\ sync_update_barcode => IInv'
<1> SUFFICES ASSUME IInv, sync_update_barcode PROVE IInv'
  OBVIOUS
<1> USE ExchangeAssumption
<1>1. /\ TypeOK /\ RequestSize /\ UnloadedIsRegistered /\ RowsBounded /\ Shape /\ Distinct
      /\ Listed /\ Accounted /\ Fresh /\ Targets /\ RowsAccounted /\ Past
  BY DEF IInv
<1>2. /\ sync_answer = <<>> /\ sync_queries = <<>>
      /\ syncs < MaxSyncs /\ syncs' = syncs + 1 /\ sync_overtaken' = {}
      /\ UNCHANGED <<content, registered, rows, pc, todo, batch, count, answer, queries,
                     sync_queries, failures, overtaken, lost>>
  BY DEF sync_update_barcode, Idle, service, loading
<1>3. PICK b \in Barcodes : sync_answer' = <<CopyOf(b), CopyOf(Owner[b])>>
  BY DEF sync_update_barcode
<1>4. /\ CopyOf(b) \in Copy /\ CopyOf(b).content = content[CopyOf(b).key]
      /\ CopyOf(Owner[b]) \in Copy
      /\ CopyOf(Owner[b]).content = content[CopyOf(Owner[b]).key]
  <2>1. b \in Keys /\ Owner[b] \in Keys
    BY DEF Keys
  <2> QED
    BY <2>1, <1>1, CopyFacts
<1>5. sync_answer' \in Seq(Copy) /\ \A c \in Range(sync_answer') : c \in Copy
        /\ c.content = content[c.key]
  <2> DEFINE x == CopyOf(b)
             y == CopyOf(Owner[b])
  <2>1. x \in Copy /\ x.content = content[x.key] /\ y \in Copy /\ y.content = content[y.key]
        /\ sync_answer' = <<x, y>>
    BY <1>3, <1>4
  <2> HIDE DEF x, y
  <2>2. /\ sync_answer' \in Seq(Copy) /\ Len(sync_answer') = 2
        /\ sync_answer'[1] = x /\ sync_answer'[2] = y
    BY <2>1
  <2>3. \A c \in Range(sync_answer') : c = x \/ c = y
    BY <2>2, RangeOf
  <2> QED
    BY <2>1, <2>2, <2>3
<1>6. Range(sync_queries) = {}
  BY <1>2, RangeEmpty
<1>7. TypeOK'
  BY <1>1, <1>2, <1>5 DEF TypeOK
<1>8. /\ RequestSize' /\ Shape' /\ Listed' /\ Accounted' /\ RowsBounded'
      /\ UnloadedIsRegistered' /\ Targets' /\ RowsAccounted'
  BY <1>1, <1>2
     DEF RequestSize, Shape, Listed, Underway, Accounted, RowsBounded, UnloadedIsRegistered,
         Latest, Targets, RowsAccounted, Inserting
<1>9. Distinct'
  BY <1>1, <1>2 DEF Distinct, OnceByKey
<1>10. Fresh'
  BY <1>1, <1>2, <1>5, <1>6 DEF Fresh, UpToDate
<1>11. Past'
  <2>1. \A c \in Range(sync_answer') : c.content <= content[c.key]
    <3>1. \A c \in Range(sync_answer') : c.content \in Nat
      BY <1>5 DEF Copy, Contents
    <3> QED
      BY <3>1, <1>5
  <2> QED
    BY <2>1, <1>1, <1>2, <1>6 DEF Past
<1> QED
  BY <1>7, <1>8, <1>9, <1>10, <1>11 DEF IInv

\* It looks for the row of one of them.
LEMMA SyncLookKeeps == IInv /\ sync_look => IInv'
<1> SUFFICES ASSUME IInv, sync_look PROVE IInv'
  OBVIOUS
<1> USE ExchangeAssumption
<1>1. /\ TypeOK /\ RequestSize /\ UnloadedIsRegistered /\ RowsBounded /\ Shape /\ Distinct
      /\ Listed /\ Accounted /\ Fresh /\ Targets /\ RowsAccounted /\ Past
  BY DEF IInv
<1> DEFINE c == Head(sync_answer)
           q == QueryFor(c)
<1>2. /\ sync_answer # <<>> /\ sync_answer' = Tail(sync_answer)
      /\ sync_queries' = Append(sync_queries, q)
      /\ UNCHANGED <<content, registered, rows, pc, todo, batch, count, answer, queries,
                     syncs, failures, overtaken, sync_overtaken, lost>>
  BY DEF sync_look, service, loading, history
<1>3. /\ sync_answer' \in Seq(Copy) /\ c \in Copy
      /\ Range(sync_answer) = Range(sync_answer') \cup {c}
  <2>1. sync_answer \in Seq(Copy)
    BY <1>1 DEF TypeOK
  <2> QED
    BY <2>1, <1>2, RangeTail
<1> HIDE DEF c
<1>4. /\ q \in Query /\ q.key = c.key /\ q.content = c.content /\ q.at = Len(rows[c.key])
      /\ q.at \in Nat /\ c.key \in Keys /\ c.content \in Contents
      /\ rows[c.key] \in Seq(Contents)
  BY <1>1, <1>3, QueryFacts
<1> HIDE DEF q
<1>5. sync_queries \in Seq(Query) /\ sync_queries' \in Seq(Query)
  BY <1>1, <1>2, <1>4 DEF TypeOK
<1>6. Range(sync_queries') = Range(sync_queries) \cup {q}
  BY <1>2, <1>4, <1>5, RangeAppend
<1>7. TypeOK'
  BY <1>1, <1>2, <1>3, <1>5 DEF TypeOK
<1>8. /\ RequestSize' /\ Shape' /\ Listed' /\ Accounted' /\ RowsBounded'
      /\ UnloadedIsRegistered'
  BY <1>1, <1>2
     DEF RequestSize, Shape, Listed, Underway, Accounted, RowsBounded, UnloadedIsRegistered,
         Latest
<1>9. Distinct'
  BY <1>1, <1>2 DEF Distinct, OnceByKey
<1>10. Fresh'
  <2>1. UpToDate(q, sync_overtaken)
    BY <1>1, <1>3, <1>4 DEF Fresh, UpToDate
  <2> QED
    BY <2>1, <1>1, <1>2, <1>3, <1>6 DEF Fresh, UpToDate
<1>11. Targets'
  <2>1. q.at <= Len(rows[q.key])
    BY <1>4
  <2> QED
    BY <2>1, <1>1, <1>2, <1>6 DEF Targets, Latest
<1>12. RowsAccounted'
  <2>1. q.at = 0 => rows[q.key] = <<>> /\ Len(rows[q.key]) = 0
    <3>1. rows[c.key] # <<>> => Len(rows[c.key]) # 0
      BY <1>4, EmptySeq
    <3> QED
      BY <3>1, <1>4
  <2>2. \A k : Inserting(sync_queries', k)
                 => Inserting(sync_queries, k) \/ (k = q.key /\ q.at = 0)
    BY <1>6 DEF Inserting
  <2>3. \A k \in Barcodes :
          /\ Inserting(queries, k) /\ Inserting(sync_queries', k) => rows[k] = <<>>
          /\ Inserting(queries, k) \/ Inserting(sync_queries', k) => Len(rows[k]) <= 1
    BY <2>1, <2>2, <1>1 DEF RowsAccounted
  <2> QED
    BY <2>3, <1>2 DEF RowsAccounted, Inserting
<1>13. Past'
  BY <1>1, <1>2, <1>3, <1>4, <1>6 DEF Past
<1> QED
  BY <1>7, <1>8, <1>9, <1>10, <1>11, <1>12, <1>13 DEF IInv

\* It writes its rows; what the exchange is about to write may not fit them.
LEMMA SyncCommitKeeps == IInv /\ sync_commit => IInv'
<1> SUFFICES ASSUME IInv, sync_commit PROVE IInv'
  OBVIOUS
<1> USE ExchangeAssumption
<1>1. /\ TypeOK /\ RequestSize /\ UnloadedIsRegistered /\ RowsBounded /\ Shape /\ Distinct
      /\ Listed /\ Accounted /\ Fresh /\ Targets /\ RowsAccounted /\ Past
  BY DEF IInv
<1>2. /\ sync_answer = <<>> /\ ~Conflict(sync_queries) /\ rows' = Execute(sync_queries)
      /\ sync_queries' = <<>> /\ lost' = lost \cup sync_overtaken
      /\ UNCHANGED <<content, registered, pc, todo, batch, count, answer, queries,
                     sync_answer, syncs, failures, overtaken, sync_overtaken>>
  BY DEF sync_commit, service, loading
<1> DEFINE SK == KeysOf(Range(sync_queries))
<1>3. /\ rows' \in [Keys -> Seq(Contents)]
      /\ \A k \in Keys : k \notin SK => rows'[k] = rows[k]
      /\ \A k \in SK : k \in Keys /\ \E q \in Range(sync_queries) : StatementWrote(q, k)
  <2>1. sync_queries \in Seq(Query)
    BY <1>1 DEF TypeOK
  <2>2. \A q \in Range(sync_queries) : q.at <= Len(rows[q.key])
    BY <1>1 DEF Targets
  <2> QED
    BY <2>1, <2>2, <1>1, <1>2, TransactionFacts
<1> HIDE DEF SK
<1>4. Range(sync_queries') = {}
  BY <1>2, RangeEmpty
\* One key: the row it wrote is the last one or it left the last one alone.
<1>5. ASSUME NEW k \in SK, k \notin lost'
      PROVE  Latest(k)' \/ (Len(rows'[k]) = Len(rows[k]) /\ (Latest(k) => Latest(k)'))
  <2>1. PICK q \in Range(sync_queries) : StatementWrote(q, k)
    BY <1>3
  <2>2. q.key = k /\ q.content = content[k]
    BY <2>1, <1>1, <1>2, <1>5 DEF Fresh, UpToDate, StatementWrote
  <2>3. CASE q.at \in {0, Len(rows[k])}
    BY <2>1, <2>2, <2>3, <1>2 DEF Latest, StatementWrote
  <2>4. CASE q.at \notin {0, Len(rows[k])}
    BY <2>1, <2>2, <2>4, <1>2 DEF Latest, StatementWrote
  <2> QED
    BY <2>3, <2>4
<1>6. \A k \in Keys : Latest(k) => Latest(k)' \/ k \in lost'
  <2>1. \A k \in Keys : k \notin SK => (Latest(k) => Latest(k)')
    BY <1>2, <1>3 DEF Latest
  <2> QED
    BY <2>1, <1>5
<1>7. TypeOK'
  BY <1>1, <1>2, <1>3 DEF TypeOK
<1>8. RequestSize' /\ Shape' /\ Listed'
  BY <1>1, <1>2 DEF RequestSize, Shape, Listed, Underway
<1>9. UnloadedIsRegistered'
  BY <1>1, <1>2, <1>6 DEF UnloadedIsRegistered
<1>10. Accounted'
  <2>1. registered \subseteq Keys
    BY <1>1 DEF TypeOK
  <2>2. Underway' = Underway
    BY <1>2 DEF Underway
  <2> QED
    BY <2>1, <2>2, <1>1, <1>2, <1>6 DEF Accounted
<1>11. RowsBounded'
  <2> SUFFICES ASSUME NEW k \in Keys
               PROVE  Len(rows'[k]) <= IF k \in Objects THEN 1 ELSE 2
    BY DEF RowsBounded
  <2>1. Len(rows[k]) <= IF k \in Objects THEN 1 ELSE 2
    BY <1>1 DEF RowsBounded
  <2>2. CASE k \notin SK
    BY <2>1, <2>2, <1>3
  <2>3. CASE k \in SK
    <3>1. PICK q \in Range(sync_queries) : StatementWrote(q, k)
      BY <2>3, <1>3
    <3>2. CASE q.at # 0
      BY <2>1, <3>1, <3>2 DEF StatementWrote
    <3>3. CASE q.at = 0 /\ k \in Objects
      <4>1. rows[k] = <<>>
        BY <3>1, <3>3, <1>2 DEF Conflict, StatementWrote
      <4> QED
        BY <4>1, <3>1, <3>3 DEF StatementWrote
    <3>4. CASE q.at = 0 /\ k \notin Objects
      <4>1. Len(rows[k]) <= 1
        BY <3>1, <3>4, <1>1 DEF RowsAccounted, Inserting, StatementWrote, Keys
      <4>2. Len(rows[k]) \in Nat
        BY <3>1 DEF StatementWrote
      <4> QED
        BY <4>1, <4>2, <3>1, <3>4 DEF StatementWrote
    <3> QED
      BY <3>2, <3>3, <3>4
  <2> QED
    BY <2>2, <2>3
<1>12. Distinct'
  BY <1>1, <1>2 DEF Distinct, OnceByKey
<1>13. Fresh'
  BY <1>1, <1>2, <1>4 DEF Fresh, UpToDate
<1>14. Targets'
  <2> SUFFICES ASSUME NEW q \in Range(queries)
               PROVE  /\ q.at <= Len(rows'[q.key])
                      /\ q.key \in overtaken \cup lost' \/ q.at \in {0, Len(rows'[q.key])}
                           \/ Latest(q.key)'
    BY <1>2, <1>4 DEF Targets
  <2> DEFINE k == q.key
  <2>1. k \in Keys /\ q.at \in Nat
    <3>1. q \in Query
      BY <1>1, RangeOf DEF TypeOK
    <3> QED
      BY <3>1 DEF Query
  <2>2. /\ q.at <= Len(rows[k])
        /\ k \in overtaken \cup lost \/ q.at \in {0, Len(rows[k])} \/ Latest(k)
    BY <1>1 DEF Targets
  <2>3. Len(rows[k]) \in Nat
    BY <2>1, <1>1 DEF TypeOK
  <2> HIDE DEF k
  <2>4. CASE k \notin SK
    <3>1. rows'[k] = rows[k]
      BY <2>1, <2>4, <1>3
    <3> QED
      BY <3>1, <2>1, <2>2, <1>2, <1>6 DEF k
  <2>5. CASE k \in SK
    <3>1. PICK s \in Range(sync_queries) : StatementWrote(s, k)
      BY <2>5, <1>3
    <3>2. Len(rows[k]) <= Len(rows'[k]) /\ Len(rows'[k]) \in Nat
      BY <3>1, <2>3 DEF StatementWrote
    <3>3. q.at <= Len(rows'[k])
      BY <3>2, <2>1, <2>2, <2>3
    <3>4. k \in overtaken \cup lost' \/ q.at \in {0, Len(rows'[k])} \/ Latest(k)'
      <4>1. k \in lost' \/ Latest(k)' \/ Len(rows'[k]) = Len(rows[k])
        BY <2>5, <1>5
      <4> QED
        BY <4>1, <2>1, <2>2, <1>2, <1>6
    <3> QED
      BY <3>3, <3>4 DEF k
  <2> QED
    BY <2>4, <2>5
<1>15. RowsAccounted'
  <2> SUFFICES ASSUME NEW k \in Barcodes, Inserting(queries, k) PROVE Len(rows'[k]) <= 1
    BY <1>2, <1>4 DEF RowsAccounted, Inserting
  <2>1. k \in Keys
    BY DEF Keys
  <2>2. Len(rows[k]) <= 1 /\ (Inserting(sync_queries, k) => rows[k] = <<>>)
    BY <1>1 DEF RowsAccounted
  <2>3. CASE k \notin SK
    BY <2>1, <2>2, <2>3, <1>3
  <2>4. CASE k \in SK
    <3>1. PICK q \in Range(sync_queries) : StatementWrote(q, k)
      BY <2>4, <1>3
    <3>2. q.at = 0 => Inserting(sync_queries, k)
      BY <3>1 DEF Inserting, StatementWrote
    <3> QED
      BY <3>1, <3>2, <2>2 DEF StatementWrote
  <2> QED
    BY <2>3, <2>4
<1>16. Past'
  <2>1. ASSUME NEW k \in Keys, NEW i \in 1..Len(rows'[k]) PROVE rows'[k][i] <= content[k]
    <3>1. CASE k \notin SK
      BY <3>1, <1>1, <1>3 DEF Past
    <3>2. CASE k \in SK
      <4>1. PICK q \in Range(sync_queries) : StatementWrote(q, k)
        BY <3>2, <1>3
      <4>2. q.content <= content[k]
        BY <4>1, <1>1 DEF Past, StatementWrote
      <4> QED
        BY <4>1, <4>2, <1>1 DEF Past, StatementWrote
    <3> QED
      BY <3>1, <3>2
  <2> QED
    BY <2>1, <1>1, <1>2, <1>4 DEF Past
<1> QED
  BY <1>7, <1>8, <1>9, <1>10, <1>11, <1>12, <1>13, <1>14, <1>15, <1>16 DEF IInv

LEMMA SyncGiveUpKeeps == IInv /\ sync_give_up => IInv'
<1> SUFFICES ASSUME IInv, sync_give_up PROVE IInv'
  OBVIOUS
<1> USE ExchangeAssumption
<1>1. /\ TypeOK /\ RequestSize /\ UnloadedIsRegistered /\ RowsBounded /\ Shape /\ Distinct
      /\ Listed /\ Accounted /\ Fresh /\ Targets /\ RowsAccounted /\ Past
  BY DEF IInv
<1>2. /\ sync_answer' = <<>> /\ sync_queries' = <<>>
      /\ UNCHANGED <<content, registered, rows, pc, todo, batch, count, answer, queries,
                     syncs, failures, overtaken, sync_overtaken, lost>>
  BY DEF sync_give_up, service, loading, history
<1>3. Range(sync_answer') = {} /\ Range(sync_queries') = {}
  BY <1>2, RangeEmpty
<1>4. TypeOK'
  BY <1>1, <1>2 DEF TypeOK
<1>5. /\ RequestSize' /\ Shape' /\ Listed' /\ Accounted' /\ RowsBounded'
      /\ UnloadedIsRegistered'
  BY <1>1, <1>2
     DEF RequestSize, Shape, Listed, Underway, Accounted, RowsBounded, UnloadedIsRegistered,
         Latest
<1>6. Distinct'
  BY <1>1, <1>2 DEF Distinct, OnceByKey
<1>7. Fresh' /\ Targets' /\ RowsAccounted' /\ Past'
  BY <1>1, <1>2, <1>3 DEF Fresh, UpToDate, Targets, Latest, RowsAccounted, Inserting, Past
<1> QED
  BY <1>4, <1>5, <1>6, <1>7 DEF IInv

\* A change overtakes the exchange unless its object is still to be fetched.
LEMMA RegisterChangeKeeps ==
  ASSUME IInv, NEW k \in Keys, RegisterChange(k)
  PROVE  IInv'
<1> USE ExchangeAssumption
<1>1. /\ TypeOK /\ RequestSize /\ UnloadedIsRegistered /\ RowsBounded /\ Shape /\ Distinct
      /\ Listed /\ Accounted /\ Fresh /\ Targets /\ RowsAccounted /\ Past
  BY DEF IInv
<1>2. /\ content[k] < MaxContent /\ content' = [content EXCEPT ![k] = @ + 1]
      /\ registered' = registered \cup {k} /\ lost' = lost \ {k}
      /\ overtaken' = IF Behind(k) THEN overtaken \cup {k} ELSE overtaken
      /\ sync_overtaken' = IF HeldBySync(k) THEN sync_overtaken \cup {k} ELSE sync_overtaken
      /\ UNCHANGED <<rows, pc, todo, batch, count, answer, queries, sync_answer, sync_queries,
                     syncs, failures>>
  BY DEF RegisterChange, loading, syncing
<1>3. overtaken \subseteq overtaken' /\ overtaken' \subseteq overtaken \cup {k}
      /\ sync_overtaken \subseteq sync_overtaken'
      /\ sync_overtaken' \subseteq sync_overtaken \cup {k}
  BY <1>2
<1>4. /\ content \in [Keys -> Contents] /\ content' \in [Keys -> Contents]
      /\ \A j \in Keys : j # k => content'[j] = content[j]
      /\ \A j \in Keys : content[j] \in Nat /\ content'[j] \in Nat /\ content[j] <= content'[j]
  <2>1. content \in [Keys -> Contents]
    BY <1>1 DEF TypeOK
  <2>2. content[k] + 1 \in Contents
    BY <2>1, <1>2 DEF Contents
  <2>3. content' \in [Keys -> Contents]
    BY <2>1, <2>2, <1>2
  <2>4. \A j \in Keys : content'[j] = IF j = k THEN content[j] + 1 ELSE content[j]
    BY <2>1, <1>2
  <2> QED
    BY <2>1, <2>3, <2>4 DEF Contents
<1>5. \A j \in Keys : j # k => (Latest(j)' <=> Latest(j))
  BY <1>2, <1>4 DEF Latest
<1>6. /\ Range(answer) \subseteq Copy /\ Range(queries) \subseteq Query /\ todo \subseteq Copy
      /\ Range(sync_answer) \subseteq Copy /\ Range(sync_queries) \subseteq Query
      /\ Range(batch) \subseteq Objects
  BY <1>1, RangeOf DEF TypeOK
<1>7. \A c \in todo \cup Range(answer) \cup Range(queries)
                 \cup Range(sync_answer) \cup Range(sync_queries) :
        c.key \in Keys /\ c.content \in Nat
  BY <1>6 DEF Copy, Query, Contents
\* What the exchange holds a copy of is overtaken.
<1>8. ASSUME NEW c \in Range(answer) \cup Range(queries), c.key = k PROVE k \in overtaken'
  <2>1. k \notin Range(batch) /\ k \notin KeysOf(todo)
    <3>1. k \in KeysOf(Range(answer)) \cup KeysOf(Range(queries))
      BY <1>8 DEF KeysOf
    <3> QED
      BY <3>1, <1>1 DEF Distinct
  <2>2. pc # "idle"
    <3>1. ~(answer = <<>> /\ queries = <<>>)
      BY <1>8, RangeEmpty
    <3> QED
      BY <3>1, <1>1 DEF Shape
  <2> QED
    BY <2>1, <2>2, <1>2 DEF Behind
<1>9. ASSUME NEW c \in todo, c.key \in Barcodes, c.key = k PROVE k \in overtaken'
  <2>1. k \notin Range(batch) /\ k \notin Objects
    BY <1>6, <1>9
  <2>2. pc # "idle"
    BY <1>9, <1>1 DEF Shape
  <2> QED
    BY <2>1, <2>2, <1>2 DEF Behind
<1>10. ASSUME NEW c \in Range(sync_answer) \cup Range(sync_queries), c.key = k
       PROVE  k \in sync_overtaken'
  <2>1. ~Idle
    BY <1>10, RangeEmpty DEF Idle
  <2>2. k \in KeysOf(Range(sync_answer) \cup Range(sync_queries))
    BY <1>10 DEF KeysOf
  <2> QED
    BY <2>1, <2>2, <1>2 DEF HeldBySync
<1>11. TypeOK'
  BY <1>1, <1>2, <1>3, <1>4 DEF TypeOK
<1>12. RequestSize' /\ Shape' /\ RowsBounded' /\ RowsAccounted'
  BY <1>1, <1>2 DEF RequestSize, Shape, RowsBounded, RowsAccounted, Inserting
<1>13. UnloadedIsRegistered'
  BY <1>1, <1>2, <1>5 DEF UnloadedIsRegistered
<1>14. Distinct'
  BY <1>1, <1>2 DEF Distinct, OnceByKey
<1>15. Underway' = Underway
  BY <1>2 DEF Underway
<1>16. Listed'
  BY <1>1, <1>2, <1>3, <1>15 DEF Listed
<1>17. Accounted'
  <2> SUFFICES ASSUME pc # "idle", NEW j \in registered'
               PROVE  j \in Underway \cup overtaken' \cup lost' \/ Latest(j)'
    BY <1>2, <1>15 DEF Accounted
  <2>1. CASE j = k
    <3>1. k \in KeysOf(todo) \cup Range(batch) \/ Behind(k)
      BY DEF Behind
    <3> QED
      BY <2>1, <3>1, <1>2 DEF Underway
  <2>2. CASE j # k
    <3>1. j \in registered /\ j \in Keys
      BY <2>2, <1>1, <1>2 DEF TypeOK
    <3>2. j \in Underway \cup overtaken \cup lost \/ Latest(j)
      BY <3>1, <1>1 DEF Accounted
    <3> QED
      BY <2>2, <3>1, <3>2, <1>2, <1>3, <1>5
  <2> QED
    BY <2>1, <2>2
<1>18. Fresh'
  <2>1. \A c \in Range(answer) \cup Range(queries) :
          c.key \in overtaken' \/ c.content = content'[c.key]
    BY <1>1, <1>3, <1>4, <1>7, <1>8 DEF Fresh, UpToDate
  <2>2. \A c \in todo : c.key \in Barcodes =>
          c.key \in overtaken' \/ c.content = content'[c.key]
    BY <1>1, <1>3, <1>4, <1>7, <1>9 DEF Fresh, UpToDate
  <2>3. \A c \in Range(sync_answer) \cup Range(sync_queries) :
          c.key \in sync_overtaken' \/ c.content = content'[c.key]
    BY <1>1, <1>3, <1>4, <1>7, <1>10 DEF Fresh, UpToDate
  <2> QED
    BY <2>1, <2>2, <2>3, <1>2 DEF Fresh, UpToDate
<1>19. Targets'
  <2>1. ASSUME NEW q \in Range(queries)
        PROVE  /\ q.at <= Len(rows[q.key])
               /\ q.key \in overtaken' \cup lost' \/ q.at \in {0, Len(rows[q.key])}
                    \/ Latest(q.key)'
    <3>1. /\ q.at <= Len(rows[q.key])
          /\ q.key \in overtaken \cup lost \/ q.at \in {0, Len(rows[q.key])} \/ Latest(q.key)
      BY <1>1 DEF Targets
    <3>2. CASE q.key = k
      BY <3>1, <3>2, <1>8
    <3>3. CASE q.key # k
      BY <3>1, <3>3, <1>2, <1>3, <1>5, <1>7
    <3> QED
      BY <3>2, <3>3
  <2>2. \A q \in Range(sync_queries) : q.at <= Len(rows[q.key])
    BY <1>1 DEF Targets
  <2> QED
    BY <2>1, <2>2, <1>2 DEF Targets
<1>20. Past'
  <2>1. ASSUME NEW j \in Keys, NEW i \in 1..Len(rows[j]) PROVE rows[j][i] <= content'[j]
    <3>1. rows[j] \in Seq(Contents) /\ rows[j][i] <= content[j]
      BY <1>1 DEF TypeOK, Past
    <3>2. rows[j][i] \in Nat
      BY <3>1 DEF Contents
    <3> QED
      BY <3>1, <3>2, <1>4
  <2>2. ASSUME NEW c \in todo \cup Range(answer) \cup Range(queries)
                       \cup Range(sync_answer) \cup Range(sync_queries)
        PROVE  c.content <= content'[c.key]
    <3>1. c.content <= content[c.key] /\ c.content \in Nat /\ c.key \in Keys
      BY <1>1, <1>7 DEF Past
    <3> QED
      BY <3>1, <1>4
  <2> QED
    BY <2>1, <2>2, <1>2 DEF Past
<1> QED
  BY <1>11, <1>12, <1>13, <1>14, <1>16, <1>17, <1>18, <1>19, <1>20 DEF IInv

LEMMA StutterKeeps == IInv /\ UNCHANGED vars => IInv'
<1> SUFFICES ASSUME IInv, UNCHANGED vars PROVE IInv'
  OBVIOUS
<1>1. UNCHANGED <<content, registered, rows, pc, todo, batch, count, answer, queries,
                  sync_answer, sync_queries, syncs, failures, overtaken, sync_overtaken, lost>>
  BY DEF vars, service, loading, syncing, history
<1> QED
  BY <1>1 DEF IInv, TypeOK, RequestSize, UnloadedIsRegistered, RowsBounded, Latest, Shape,
     Distinct, OnceByKey, Listed, Underway, Accounted, Fresh, UpToDate, Targets,
     RowsAccounted, Inserting, Past

-----------------------------------------------------------------------------
(* The theorems.                                                            *)

\* IInv holds in every state, whatever fails and however often 1C changes.
THEOREM Invariance == Safe => []IInv
<1>1. IInv /\ [Next]_vars => IInv'
  <2> SUFFICES ASSUME IInv, [Next]_vars PROVE IInv'
    OBVIOUS
  <2>1. CASE Exchange
    BY <2>1, ExchangeKeeps, BarcodeKeeps, CollectKeeps, GetObjectsKeeps, AddRequestsKeeps,
       CommitKeeps, FailKeeps, EraseKeeps DEF Exchange
  <2>2. CASE GetObjects_not_array
    BY <2>2, NotArrayKeeps
  <2>3. CASE fail
    BY <2>3, FailKeeps
  <2>4. CASE Sync
    BY <2>4, SyncUpdateBarcodeKeeps, SyncLookKeeps, SyncCommitKeeps, SyncGiveUpKeeps DEF Sync
  <2>5. CASE \E k \in Keys : RegisterChange(k)
    BY <2>5, RegisterChangeKeeps
  <2>6. CASE UNCHANGED vars
    BY <2>6, StutterKeeps
  <2> QED
    BY <2>1, <2>2, <2>3, <2>4, <2>5, <2>6 DEF Next
<1> QED
  BY InitEstablishes, <1>1, PTL DEF Safe

\* Every variable of the exchange and of the command has its type.
THEOREM TypeCorrect == Safe => []TypeOK
<1>1. IInv => TypeOK
  BY DEF IInv
<1> QED
  BY <1>1, Invariance, PTL

\* A request for objects never has more than max_objects and one.
THEOREM RequestsBounded == Safe => []RequestSize
<1>1. IInv => RequestSize
  BY DEF IInv
<1> QED
  BY <1>1, Invariance, PTL

\* Whatever the exchange and the command are in the middle of, a change that is
\* not in the database is still registered in 1C, or was overtaken.
THEOREM NothingForgotten == Safe => []UnloadedIsRegistered
<1>1. IInv => UnloadedIsRegistered
  BY DEF IInv
<1> QED
  BY <1>1, Invariance, PTL

\* However often both writers run, an object has one row and a barcode two.
THEOREM NoThirdRow == Safe => []RowsBounded
<1>1. IInv => RowsBounded
  BY DEF IInv
<1> QED
  BY <1>1, Invariance, PTL

\* A statement made from a copy that 1C did not overtake is never older than
\* the row it replaces.
LEMMA ForwardOrOvertaken ==
  ASSUME IInv, NEW k \in Keys, rows[k] # <<>>,
         NEW q \in Query, StatementWrote(q, k),
         q.content = content[k]
  PROVE  ~(rows'[k][Len(rows'[k])] < rows[k][Len(rows[k])])
<1>1. Len(rows[k]) \in 1..Len(rows[k]) /\ rows[k] \in Seq(Contents)
  <2>1. rows[k] \in Seq(Contents)
    BY DEF StatementWrote
  <2> QED
    BY <2>1, EmptySeq
<1>2. rows[k][Len(rows[k])] \in Nat /\ rows[k][Len(rows[k])] <= content[k]
  <2>1. Past
    BY DEF IInv
  <2>2. rows[k][Len(rows[k])] \in Contents
    BY <1>1
  <2> QED
    BY <2>1, <2>2, <1>1 DEF Past, Contents
<1>3. content[k] \in Nat
  BY DEF IInv, TypeOK, Contents
<1> QED
  BY <1>2, <1>3 DEF StatementWrote

\* No step of either writer takes a row back to an older content unless 1C
\* changed it while that writer held its copy.
THEOREM NoBackwardsStep == Spec => BackwardsOnlyIfOvertaken
<1>1. IInv /\ [Next]_vars
        => [\A k \in Keys :
              rows[k] # <<>> /\ rows'[k][Len(rows'[k])] < rows[k][Len(rows[k])]
                => k \in overtaken \cup sync_overtaken]_vars
  <2> SUFFICES ASSUME IInv, [Next]_vars,
                      NEW k \in Keys, rows[k] # <<>>,
                      rows'[k][Len(rows'[k])] < rows[k][Len(rows[k])],
                      k \notin overtaken \cup sync_overtaken
               PROVE  FALSE
    OBVIOUS
  <2>1. /\ TypeOK /\ Fresh /\ Targets
    BY DEF IInv
  <2>2. rows[k][Len(rows[k])] \in Nat
    <3>1. rows[k] \in Seq(Contents)
      BY <2>1 DEF TypeOK
    <3>2. rows[k][Len(rows[k])] \in Contents
      BY <3>1, EmptySeq
    <3> QED
      BY <3>2 DEF Contents
  <2>3. rows'[k] # rows[k]
    BY <2>2
  <2>4. commit \/ sync_commit
    BY <2>3
       DEF Next, Exchange, Sync, exchange, add_information_register_record, collect, GetObjects,
           GetObjects_not_array, add_requests, commit_conflict, EraseChange, fail,
           sync_update_barcode, sync_look, sync_give_up, RegisterChange, vars
  <2>5. CASE commit
    <3>1. /\ Chunk \in Seq(Query) /\ Range(Chunk) \subseteq Range(queries)
      BY <2>1, ChunkFacts DEF TypeOK
    <3>2. \A q \in Range(Chunk) : q.at <= Len(rows[q.key])
      BY <3>1, <2>1 DEF Targets
    <3>3. PICK q \in Range(Chunk) : StatementWrote(q, k)
      BY <3>1, <3>2, <2>1, <2>3, <2>5, TransactionFacts DEF commit
    <3>4. q.content = content[k] /\ q \in Query
      BY <3>1, <3>3, <2>1 DEF Fresh, UpToDate, StatementWrote
    <3> QED
      BY <3>3, <3>4, ForwardOrOvertaken
  <2>6. CASE sync_commit
    <3>1. sync_queries \in Seq(Query)
      BY <2>1 DEF TypeOK
    <3>2. \A q \in Range(sync_queries) : q.at <= Len(rows[q.key])
      BY <2>1 DEF Targets
    <3>3. PICK q \in Range(sync_queries) : StatementWrote(q, k)
      BY <3>1, <3>2, <2>1, <2>3, <2>6, TransactionFacts DEF sync_commit
    <3>4. q.content = content[k] /\ q \in Query
      BY <3>3, <2>1 DEF Fresh, UpToDate, StatementWrote
    <3> QED
      BY <3>3, <3>4, ForwardOrOvertaken
  <2> QED
    BY <2>4, <2>5, <2>6
<1> QED
  BY <1>1, Invariance, PTL DEF Spec, Safe, BackwardsOnlyIfOvertaken
=============================================================================
