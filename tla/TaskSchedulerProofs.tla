------------------------- MODULE TaskSchedulerProofs -------------------------
(***************************************************************************)
(* IInv is inductive for any tasks, server threads, pool capacity and       *)
(* number of commands.  From it: the types, the conservation of the         *)
(* semaphore, how many starts the pool survives, and the bound on waits.    *)
(***************************************************************************)
EXTENDS TaskScheduler, FiniteSetTheorems, TLAPS

-----------------------------------------------------------------------------
(* Counting threads.                                                       *)

\* The threads of the server are finite in number, and there is at least one.
LEMMA ThreadsFinite ==
  /\ IsFiniteSet(Threads)
  /\ Cardinality(Threads) \in Nat
BY SchedulerAssumption, FS_AddElement, FS_CardinalityType
   DEF SchedulerAssumption, Threads

\* Threads with a property are counted by a natural number.
LEMMA CountBound ==
  ASSUME NEW S \in SUBSET Threads
  PROVE  IsFiniteSet(S) /\ Cardinality(S) \in Nat
         /\ Cardinality(S) <= Cardinality(Threads)
BY ThreadsFinite, FS_Subset, FS_CardinalityType

\* When a step moves thread th from its label to x, the number of threads at the
\* labels L changes by what th leaves and what it enters.
One(x, L) == IF x \in L THEN 1 ELSE 0

LEMMA ThreadMoves ==
  ASSUME TypeOK, NEW th \in Threads, NEW x \in Labels, Goto(th, x), NEW L
  PROVE  /\ Cardinality(At(L)) \in Nat /\ Cardinality(At(L)') \in Nat
         /\ pc[th] \in L => Cardinality(At(L)) >= 1
         /\ Cardinality(At(L)') + One(pc[th], L) = Cardinality(At(L)) + One(x, L)
<1> DEFINE A == At(L)
           B == At(L)'
<1>0. /\ A = {u \in Threads : pc[u] \in L}
      /\ B = {u \in Threads : pc'[u] \in L}
      /\ pc \in [Threads -> Labels] /\ pc' = [pc EXCEPT ![th] = x]
  BY DEF At, TypeOK, Goto
<1> SUFFICES /\ Cardinality(A) \in Nat /\ Cardinality(B) \in Nat
             /\ pc[th] \in L => Cardinality(A) >= 1
             /\ Cardinality(B) + One(pc[th], L) = Cardinality(A) + One(x, L)
  OBVIOUS
<1> HIDE DEF A, B
<1>1. IsFiniteSet(A) /\ Cardinality(A) \in Nat /\ Cardinality(B) \in Nat
  BY <1>0, CountBound
<1>2. CASE pc[th] \in L /\ x \in L
  <2>1. B = A /\ th \in A
    BY <1>0, <1>2
  <2>2. Cardinality(A) >= 1
    <3>1. Cardinality(A) # 0
      BY <1>1, <2>1, FS_EmptySet
    <3> QED
      BY <1>1, <3>1
  <2>3. Cardinality(B) + One(pc[th], L) = Cardinality(A) + One(x, L)
    BY <1>2, <2>1 DEF One
  <2> QED
    BY <1>1, <2>2, <2>3
<1>3. CASE pc[th] \in L /\ x \notin L
  <2>1. B = A \ {th} /\ th \in A
    BY <1>0, <1>3
  <2>2. Cardinality(B) = Cardinality(A) - 1
    BY ONLY <1>1, <2>1, FS_RemoveElement
  <2> QED
    BY <1>1, <1>3, <2>2 DEF One
<1>4. CASE pc[th] \notin L /\ x \in L
  <2>1. B = A \cup {th} /\ th \notin A
    BY <1>0, <1>4
  <2>2. Cardinality(B) = Cardinality(A) + 1
    BY ONLY <1>1, <2>1, FS_AddElement
  <2> QED
    BY <1>1, <1>4, <2>2 DEF One
<1>5. CASE pc[th] \notin L /\ x \notin L
  <2>1. B = A
    BY <1>0, <1>5
  <2> QED
    BY <1>1, <1>5, <2>1 DEF One
<1> QED
  BY <1>2, <1>3, <1>4, <1>5

\* A move counted at the labels of PoolAccount.
LEMMA PoolMoves ==
  ASSUME TypeOK, NEW th \in Threads, NEW x \in Labels, Goto(th, x)
  PROVE  \A L \in {{"post"}, {"submit"}, {"post", "submit", "wait"}} :
           /\ Cardinality(At(L)) \in Nat /\ Cardinality(At(L)') \in Nat
           /\ pc[th] \in L => Cardinality(At(L)) >= 1
           /\ Cardinality(At(L)') + One(pc[th], L) = Cardinality(At(L)) + One(x, L)
BY ThreadMoves

\* The caller of wait() is not one of those that still have units to take.
LEMMA CallsApart ==
  ASSUME NEW th \in Threads, pc[th] = "wait"
  PROVE  Cardinality(At({"post"})) + Cardinality(At({"submit"})) + 1
           <= Cardinality(At({"post", "submit", "wait"}))
<1> DEFINE A == At({"post"})
           B == At({"submit"})
           C == At({"post", "submit", "wait"})
<1>1. /\ IsFiniteSet(A) /\ IsFiniteSet(B) /\ IsFiniteSet(C)
      /\ Cardinality(A) \in Nat /\ Cardinality(B) \in Nat
  BY CountBound DEF At
<1>2. A \cap B = {} /\ th \notin A \cup B /\ (A \cup B) \cup {th} \subseteq C
  BY DEF At
<1> HIDE DEF A, B, C
<1>3. IsFiniteSet(A \cup B) /\ Cardinality(A \cup B) = Cardinality(A) + Cardinality(B)
  <2>1. Cardinality(A \cap B) = 0
    BY <1>2, FS_EmptySet
  <2>2. IsFiniteSet(A \cup B)
        /\ Cardinality(A \cup B) = Cardinality(A) + Cardinality(B) - Cardinality(A \cap B)
    BY ONLY <1>1, FS_Union
  <2> QED
    BY <1>1, <2>1, <2>2
<1>4. Cardinality((A \cup B) \cup {th}) = Cardinality(A) + Cardinality(B) + 1
  BY ONLY <1>2, <1>3, FS_AddElement
<1>5. Cardinality((A \cup B) \cup {th}) <= Cardinality(C)
  BY <1>1, <1>2, FS_Subset
<1> QED
  BY <1>4, <1>5 DEF A, B, C

-----------------------------------------------------------------------------
(* The inductive invariant.                                                *)

\* Handlers of one kind that become ready at once form a queue.
LEMMA ConstantSeq ==
  ASSUME NEW S, NEW n \in Nat, NEW e \in S
  PROVE  [i \in 1..n |-> e] \in Seq(S)
OBVIOUS

\* run_server_tasks() establishes it: the pool is free and nothing is armed.
LEMMA InitIInv == Init => IInv
<1> SUFFICES ASSUME Init PROVE IInv
  OBVIOUS
<1> USE SchedulerAssumption DEF SchedulerAssumption, Init
<1>1. TypeOK
  <2>1. Cardinality(Tasks) \in Nat
    BY FS_CardinalityType
  <2>2. ready \in Seq(Handlers)
    <3>1. PICK f \in [1..Cardinality(Tasks) -> Tasks] :
            ready = [i \in 1..Cardinality(Tasks) |-> [op |-> "start", task |-> f[i]]]
      BY DEF Posted
    <3>2. \A i \in 1..Cardinality(Tasks) :
            [op |-> "start", task |-> f[i]] \in Handlers
      BY DEF Handlers
    <3> QED
      BY <2>1, <3>1, <3>2
  <2>3. pc \in [Threads -> Labels] /\ job \in [Threads -> Tasks]
    BY DEF Labels
  <2>4. Capacity \in 0..Capacity /\ 0 \in 0..Capacity
    OBVIOUS
  <2>5. waits \in [Tasks -> Nat]
    OBVIOUS
  <2>6. /\ stopped \in BOOLEAN /\ is_started_ \in BOOLEAN /\ joined \in BOOLEAN
        /\ units \in 0..Capacity /\ pooled \in 0..Capacity
    BY <2>4
  <2>7. /\ runs \in 0..MaxRuns /\ stops \in 0..MaxStops
        /\ restarts \in 0..MaxRestarts /\ imports \in 0..MaxImports
        /\ starts \in Nat
    OBVIOUS
  <2> QED
    BY ONLY <2>2, <2>3, <2>5, <2>6, <2>7 DEF TypeOK
<1>2. UnitsConserved
  BY DEF UnitsConserved
<1>3. PoolAccount
  <2>1. At({"post", "submit", "wait"}) = {}
    BY DEF At
  <2> QED
    BY <2>1, FS_EmptySet DEF PoolAccount
<1>4. NoWaitBuildup
  <2>1. \A t \in Tasks :
          {th \in Threads : pc[th] = "start_wait" /\ job[th] = t} = {}
    OBVIOUS
  <2>2. \A t \in Tasks : waits[t] = 0
    OBVIOUS
  <2> QED
    BY ONLY <2>1, <2>2, FS_EmptySet, ThreadsFinite DEF NoWaitBuildup
<1> QED
  BY <1>1, <1>2, <1>3, <1>4 DEF IInv

\* A unit leaves the semaphore with a job and comes back from it.
LEMMA UnitsStep == IInv /\ [Next]_vars => UnitsConserved'
<1> SUFFICES ASSUME IInv, [Next]_vars PROVE UnitsConserved'
  OBVIOUS
<1> USE DEF IInv, TypeOK, UnitsConserved, poolVars
<1>1. ASSUME NEW th \in Threads, post(th) \/ submit(th) PROVE UnitsConserved'
  <2>1. units' = units - 1 /\ pooled' = pooled + 1
    BY <1>1 DEF post, submit, Enlist
  <2>2. units \in Int /\ pooled \in Int
    OBVIOUS
  <2> QED
    BY <2>1, <2>2
<1>2. CASE RunJob
  BY <1>2, SchedulerAssumption DEF SchedulerAssumption, RunJob
<1>3. CASE UNCHANGED <<units, pooled>>
  BY <1>3
<1> QED
  BY <1>1, <1>2, <1>3
  DEF Next, Step, Command, vars, ioVars, bounds, wait, expires_from_now,
      start_wait, finish, start_tasks, run, Run, dispatch, run_returns, Expire,
      run_task, stop_task, task_restart, file_to_database

\* No step of Next leaves the types.
LEMMA TypeStep == IInv /\ [Next]_vars => TypeOK'
<1> SUFFICES ASSUME IInv, [Next]_vars PROVE TypeOK'
  OBVIOUS
<1> USE SchedulerAssumption
    DEF SchedulerAssumption, IInv, TypeOK, ioVars, poolVars, bounds, Labels, Goto
<1>1. ASSUME NEW th \in Threads, post(th) \/ submit(th) PROVE TypeOK'
  <2>1. units' = units - 1 /\ pooled' = pooled + 1 /\ units > 0
    BY <1>1 DEF post, submit, Enlist
  <2>2. units' \in 0..Capacity /\ pooled' \in 0..Capacity
    BY <2>1 DEF UnitsConserved
  <2> QED
    BY <1>1, <2>2 DEF post, submit, Enlist
<1>2. CASE RunJob
  <2>1. units' = units + 1 /\ pooled' = pooled - 1 /\ pooled > 0
    BY <1>2 DEF RunJob
  <2>2. units' \in 0..Capacity /\ pooled' \in 0..Capacity
    BY <2>1 DEF UnitsConserved
  <2> QED
    BY <1>2, <2>2 DEF RunJob
<1>3. ASSUME NEW th \in Threads, wait(th) PROVE TypeOK'
  BY <1>3 DEF wait
<1>4. ASSUME NEW th \in Threads, expires_from_now(th) PROVE TypeOK'
  BY <1>4 DEF expires_from_now
<1>5. ASSUME NEW th \in Threads, start_wait(th) PROVE TypeOK'
  BY <1>5 DEF start_wait, Home
<1>6. ASSUME NEW t \in Tasks, Expire(t) PROVE TypeOK'
  <2>1. [i \in 1..waits[t] |-> [op |-> "execute", task |-> t]] \in Seq(Handlers)
    <3>1. waits[t] \in Nat /\ [op |-> "execute", task |-> t] \in Handlers
      BY DEF Handlers
    <3> QED
      BY ONLY <3>1, ConstantSeq
  <2>2. ready' \in Seq(Handlers)
    BY <1>6, <2>1 DEF Expire
  <2>3. waits' \in [Tasks -> Nat]
    BY <1>6 DEF Expire
  <2> QED
    BY <1>6, <2>2, <2>3 DEF Expire
<1>7. ASSUME NEW th \in Threads, finish(th) PROVE TypeOK'
  BY <1>7 DEF finish
<1>8. CASE dispatch
  <2>1. ready # <<>> /\ ready' = Tail(ready)
    BY <1>8 DEF dispatch
  <2>2. Head(ready) \in Handlers /\ Tail(ready) \in Seq(Handlers)
    BY <2>1
  <2>3. Head(ready).task \in Tasks /\ Scheduler \in Threads
    BY <2>2 DEF Handlers, Threads
  <2>4. job' \in [Threads -> Tasks]
    BY <1>8, <2>3 DEF dispatch
  <2>5. /\ \E x \in {"post", "task"} : pc' = [pc EXCEPT ![Scheduler] = x]
        /\ starts' \in Nat
    BY <1>8 DEF dispatch
  <2>6. pc' \in [Threads -> Labels]
    BY <2>5
  <2> QED
    BY <1>8, <2>1, <2>2, <2>4, <2>5, <2>6 DEF dispatch
<1>9. CASE run_returns
  BY <1>9 DEF run_returns
<1>10. ASSUME NEW th \in Threads, start_tasks(th) \/ run(th) PROVE TypeOK'
  BY <1>10 DEF start_tasks, run, Run
<1>11. ASSUME NEW th \in Callers, NEW t \in Tasks, run_task(th, t) PROVE TypeOK'
  BY <1>11 DEF run_task, Threads
<1>12. ASSUME NEW th \in Callers, NEW t \in Tasks, stop_task(th, t) PROVE TypeOK'
  BY <1>12 DEF stop_task
<1>13. ASSUME NEW th \in Callers, file_to_database(th) PROVE TypeOK'
  <2>1. imports' \in 0..MaxImports
    BY <1>13 DEF file_to_database
  <2>2. pc' \in [Threads -> Labels]
    BY <1>13 DEF file_to_database
  <2> QED
    BY <1>13, <2>1, <2>2 DEF file_to_database
<1>14. ASSUME NEW th \in Callers, task_restart(th) PROVE TypeOK'
  <2>1. restarts' \in 0..MaxRestarts
    BY <1>14 DEF task_restart
  <2>2. pc' \in [Threads -> Labels]
    BY <1>14 DEF task_restart
  <2>3. stopped' \in BOOLEAN
    BY <1>14 DEF task_restart
  <2> QED
    BY <1>14, <2>1, <2>2, <2>3 DEF task_restart
<1>15. CASE UNCHANGED vars
  BY <1>15 DEF vars
<1> QED
  BY <1>1, <1>2, <1>3, <1>4, <1>5, <1>6, <1>7, <1>8, <1>9, <1>10, <1>11, <1>12,
     <1>13, <1>14, <1>15
  DEF Next, Step, Command

\* Every start() and start_now() is entered in the account, and pays from it.
LEMMA PoolStep == IInv /\ [Next]_vars => PoolAccount'
<1> SUFFICES ASSUME IInv, [Next]_vars PROVE PoolAccount'
  OBVIOUS
<1> DEFINE P == Cardinality(At({"post"}))
           S == Cardinality(At({"submit"}))
           W == Cardinality(At({"post", "submit", "wait"}))
<1>0. /\ TypeOK /\ pooled \in Nat /\ starts \in Nat /\ joined \in BOOLEAN
      /\ IF joined THEN pooled + 2 * P + S <= 2 * (starts - 1) ELSE W <= starts
  BY DEF IInv, TypeOK, PoolAccount
<1> DEFINE Account == IF joined' THEN pooled' + 2 * P' + S' <= 2 * (starts' - 1)
                      ELSE W' <= starts'
<1>1. SUFFICES Account
  BY DEF PoolAccount
<1> HIDE DEF P, S, W
<1>2. ASSUME NEW th \in Threads, NEW x \in Labels, Goto(th, x)
      PROVE  /\ P \in Nat /\ P' \in Nat /\ S \in Nat /\ S' \in Nat
             /\ W \in Nat /\ W' \in Nat
             /\ P' + One(pc[th], {"post"}) = P + One(x, {"post"})
             /\ S' + One(pc[th], {"submit"}) = S + One(x, {"submit"})
             /\ W' + One(pc[th], {"post", "submit", "wait"})
                  = W + One(x, {"post", "submit", "wait"})
             /\ pc[th] \in {"post", "submit", "wait"} => W >= 1
  <2> QED
    BY ONLY <1>0, <1>2, PoolMoves DEF P, S, W
<1>3. ASSUME NEW th \in Threads, NEW x \in Labels, Goto(th, x),
             pc[th] \notin {"post", "submit", "wait"},
             x \notin {"post", "submit", "wait"}, UNCHANGED <<pooled, joined, starts>>
      PROVE  Account
  <2>1. P' = P /\ S' = S /\ W' = W
    BY <1>2, <1>3 DEF One
  <2> QED
    BY <1>0, <1>3, <2>1
<1>4. ASSUME NEW th \in Threads, post(th) PROVE Account
  <2>1. /\ Goto(th, "submit") /\ pc[th] = "post"
        /\ pooled' = pooled + 1 /\ UNCHANGED <<joined, starts>>
    BY <1>4 DEF post, Enlist
  <2>2. P' + 1 = P /\ S' = S + 1 /\ W' = W
    BY <1>2, <2>1 DEF One, Labels
  <2> QED
    BY <1>0, <1>2, <2>1, <2>2 DEF Labels
<1>5. ASSUME NEW th \in Threads, submit(th) PROVE Account
  <2>1. /\ Goto(th, "wait") /\ pc[th] = "submit"
        /\ pooled' = pooled + 1 /\ UNCHANGED <<joined, starts>>
    BY <1>5 DEF submit, Enlist
  <2>2. P' = P /\ S' + 1 = S /\ W' = W
    BY <1>2, <2>1 DEF One, Labels
  <2> QED
    BY <1>0, <1>2, <2>1, <2>2 DEF Labels
<1>6. ASSUME NEW th \in Threads, wait(th) PROVE Account
  <2>1. /\ Goto(th, "expire") /\ pc[th] = "wait" /\ joined' = TRUE
        /\ pooled = 0 \/ joined
        /\ UNCHANGED <<pooled, starts>>
    BY <1>6 DEF wait
  <2>2. P' = P /\ S' = S /\ W >= 1
    BY <1>2, <2>1 DEF One, Labels
  <2>3. CASE joined
    BY <1>0, <2>1, <2>2, <2>3
  <2>4. CASE ~joined
    <3>1. P + S + 1 <= W
      BY <2>1, CallsApart DEF P, S, W
    <3> QED
      BY <1>0, <1>2, <2>1, <2>2, <2>4, <3>1 DEF Labels
  <2> QED
    BY <1>0, <2>3, <2>4
<1>7. ASSUME NEW th \in Threads, Goto(th, "post"), starts' = starts + 1,
             pc[th] \notin {"post", "submit", "wait"}, UNCHANGED <<pooled, joined>>
      PROVE  Account
  <2>1. P' = P + 1 /\ S' = S /\ W' = W + 1 /\ P \in Nat /\ S \in Nat /\ W \in Nat
    BY <1>2, <1>7 DEF One, Labels
  <2> QED
    BY <1>0, <1>7, <2>1
<1>8. ASSUME UNCHANGED <<pc, joined, starts>>, pooled' = pooled \/ ~joined
      PROVE  Account
  <2>1. P' = P /\ S' = S /\ W' = W
    BY <1>8 DEF P, S, W, At
  <2> QED
    BY <1>0, <1>8, <2>1
<1>9. CASE dispatch
  <2>1. Scheduler \in Threads
    BY DEF Threads
  <2>2. /\ pc[Scheduler] = "poll" /\ UNCHANGED <<pooled, joined>>
        /\ \/ Goto(Scheduler, "post") /\ starts' = starts + 1
           \/ Goto(Scheduler, "task") /\ starts' = starts
    BY <1>9 DEF dispatch, poolVars
  <2> QED
    BY <1>3, <1>7, <2>1, <2>2 DEF Labels
<1>10. CASE run_returns
  <2>1. Scheduler \in Threads
    BY DEF Threads
  <2> QED
    BY <1>3, <1>10, <2>1 DEF run_returns, poolVars, Labels
<1>11. ASSUME NEW th \in Threads,
              \/ expires_from_now(th) \/ start_wait(th) \/ finish(th)
              \/ start_tasks(th) \/ run(th)
       PROVE  Account
  <2>1. \E x \in {"start_wait", "poll", "idle"} : Goto(th, x)
    BY <1>11 DEF expires_from_now, start_wait, finish, start_tasks, run, Run, Home
  <2>2. /\ pc[th] \notin {"post", "submit", "wait"}
        /\ UNCHANGED <<pooled, joined, starts>>
    BY <1>11
    DEF expires_from_now, start_wait, finish, start_tasks, run, Run, poolVars
  <2> QED
    BY <1>3, <2>1, <2>2 DEF Labels
<1>12. ASSUME NEW th \in Callers, NEW t \in Tasks, run_task(th, t) PROVE Account
  <2>1. th \in Threads
    BY DEF Threads
  <2> QED
    BY <1>7, <1>12, <2>1 DEF run_task, poolVars
<1>13. ASSUME NEW th \in Callers, file_to_database(th) \/ task_restart(th)
       PROVE  Account
  <2>1. th \in Threads
    BY DEF Threads
  <2>2. \E x \in {"import", "restart"} : Goto(th, x)
    BY <1>13 DEF file_to_database, task_restart
  <2>3. /\ pc[th] \notin {"post", "submit", "wait"}
        /\ UNCHANGED <<pooled, joined, starts>>
    BY <1>13 DEF file_to_database, task_restart, poolVars
  <2> QED
    BY <1>3, <2>1, <2>2, <2>3 DEF Labels
<1>14. ASSUME NEW th \in Callers, NEW t \in Tasks, stop_task(th, t) PROVE Account
  BY <1>8, <1>14 DEF stop_task, poolVars
<1>15. CASE RunJob
  BY <1>8, <1>15 DEF RunJob
<1>16. ASSUME NEW t \in Tasks, Expire(t) PROVE Account
  BY <1>8, <1>16 DEF Expire, poolVars
<1>17. CASE UNCHANGED vars
  BY <1>8, <1>17 DEF vars, poolVars
<1> HIDE DEF Account
<1> QED
  BY <1>4, <1>5, <1>6, <1>9, <1>10, <1>11, <1>12, <1>13, <1>14, <1>15, <1>16, <1>17
  DEF Next, Step, Command

\* Threads about to arm the timer of t.
About(t) == {th \in Threads : pc[th] = "start_wait" /\ job[th] = t}

\* Each expiry and each new expiry time cancels what was armed before it.
LEMMA WaitsStep == IInv /\ [Next]_vars => NoWaitBuildup'
<1> SUFFICES ASSUME IInv, [Next]_vars, NEW t \in Tasks
             PROVE  waits'[t] + Cardinality(About(t)') <= Cardinality(Threads)
  BY DEF NoWaitBuildup, About
<1> DEFINE Bounded == waits'[t] + Cardinality(About(t)') <= Cardinality(Threads)
<1>0. /\ pc \in [Threads -> Labels] /\ job \in [Threads -> Tasks]
      /\ waits \in [Tasks -> Nat]
      /\ waits[t] + Cardinality(About(t)) <= Cardinality(Threads)
  BY DEF IInv, TypeOK, NoWaitBuildup, About
<1>1. /\ IsFiniteSet(About(t)) /\ Cardinality(About(t)) \in Nat
      /\ Cardinality(About(t)') \in Nat
      /\ Cardinality(About(t)') <= Cardinality(Threads)
      /\ Cardinality(Threads) \in Nat
  BY CountBound, ThreadsFinite DEF About
\* A step that cancels the waits of t, or arms nothing and takes no thread
\* to the line before the arming.
<1>2. ASSUME waits'[t] = 0 PROVE Bounded
  BY <1>1, <1>2
<1>3. ASSUME waits'[t] = waits[t], About(t)' \subseteq About(t)
      PROVE  Bounded
  <2>1. Cardinality(About(t)') <= Cardinality(About(t))
    BY <1>1, <1>3, FS_Subset
  <2> QED
    BY <1>0, <1>1, <1>3, <2>1
<1>4. ASSUME NEW th \in Threads, expires_from_now(th) \/ finish(th)
      PROVE  Bounded
  <2>1. /\ waits' = [waits EXCEPT ![job[th]] = 0]
        /\ job' = job
        /\ \A u \in Threads : u # th => pc'[u] = pc[u]
    BY <1>0, <1>4 DEF expires_from_now, finish, Goto
  <2>2. CASE job[th] = t
    BY <1>0, <1>2, <2>1, <2>2
  <2>3. CASE job[th] # t
    <3>1. waits'[t] = waits[t] /\ About(t)' \subseteq About(t)
      BY <1>0, <2>1, <2>3 DEF About
    <3> QED
      BY <1>3, <3>1
  <2> QED
    BY <2>2, <2>3
<1>5. ASSUME NEW th \in Threads, start_wait(th)
      PROVE  Bounded
  <2>1. /\ pc[th] = "start_wait" /\ job' = job
        /\ waits' = [waits EXCEPT ![job[th]] = waits[job[th]] + 1]
        /\ pc'[th] # "start_wait"
        /\ \A u \in Threads : u # th => pc'[u] = pc[u]
    BY <1>0, <1>5 DEF start_wait, Goto, Home
  <2>2. CASE job[th] = t
    <3>1. About(t)' = About(t) \ {th} /\ th \in About(t)
      BY <2>1, <2>2 DEF About
    <3>2. Cardinality(About(t)') = Cardinality(About(t)) - 1
      BY ONLY <1>1, <3>1, FS_RemoveElement
    <3>3. waits'[t] = waits[t] + 1 /\ waits[t] \in Nat
      BY <1>0, <2>1, <2>2
    <3> QED
      BY <1>0, <1>1, <3>2, <3>3
  <2>3. CASE job[th] # t
    <3>1. waits'[t] = waits[t] /\ About(t)' \subseteq About(t)
      BY <1>0, <2>1, <2>3 DEF About
    <3> QED
      BY <1>3, <3>1
  <2> QED
    BY <2>2, <2>3
<1>6. ASSUME NEW s \in Tasks, waits' = [waits EXCEPT ![s] = 0], UNCHANGED <<pc, job>>
      PROVE  Bounded
  <2>1. About(t)' = About(t)
    BY <1>6 DEF About
  <2> QED
    BY <1>0, <1>2, <1>3, <1>6, <2>1
<1>7. ASSUME waits' = waits, NEW th \in Threads, pc[th] # "start_wait",
             NEW x \in Labels \ {"start_wait"}, Goto(th, x),
             \A u \in Threads : u # th => job'[u] = job[u]
      PROVE  Bounded
  <2>1. About(t)' \subseteq About(t)
    BY <1>0, <1>7 DEF About, Goto
  <2> QED
    BY <1>3, <1>7, <2>1
<1>8. ASSUME UNCHANGED <<waits, pc, job>>
      PROVE  Bounded
  BY <1>3, <1>8 DEF About
<1>9. ASSUME NEW th \in Threads,
             post(th) \/ submit(th) \/ wait(th) \/ start_tasks(th) \/ run(th)
      PROVE  Bounded
  <2>1. /\ pc[th] # "start_wait" /\ UNCHANGED <<waits, job>>
        /\ \E x \in {"submit", "wait", "expire", "idle"} : Goto(th, x)
    BY <1>9 DEF post, submit, Enlist, wait, start_tasks, run, Run, ioVars
  <2> QED
    BY <1>7, <2>1 DEF Labels
<1>10. CASE dispatch
  <2>1. /\ Scheduler \in Threads /\ pc[Scheduler] # "start_wait" /\ UNCHANGED waits
        /\ \E x \in {"post", "task"} : Goto(Scheduler, x)
        /\ \A u \in Threads : u # Scheduler => job'[u] = job[u]
    BY <1>0, <1>10 DEF dispatch, Threads
  <2> QED
    BY <1>7, <2>1 DEF Labels
<1>11. CASE run_returns
  <2>1. Scheduler \in Threads
    BY DEF Threads
  <2> QED
    BY <1>7, <1>11, <2>1 DEF run_returns, Labels
<1>12. ASSUME NEW th \in Callers, NEW s \in Tasks, run_task(th, s)
       PROVE  Bounded
  <2>1. /\ th \in Threads /\ pc[th] # "start_wait" /\ UNCHANGED waits
        /\ Goto(th, "post")
        /\ \A u \in Threads : u # th => job'[u] = job[u]
    BY <1>0, <1>12 DEF run_task, Threads, ioVars
  <2> QED
    BY <1>7, <2>1 DEF Labels
<1>13. ASSUME NEW th \in Callers, file_to_database(th) \/ task_restart(th)
       PROVE  Bounded
  <2>1. /\ th \in Threads /\ pc[th] # "start_wait" /\ UNCHANGED <<waits, job>>
        /\ \E x \in {"import", "restart"} : Goto(th, x)
    BY <1>13 DEF file_to_database, task_restart, Threads
  <2> QED
    BY <1>7, <2>1 DEF Labels
<1> QED
  BY <1>4, <1>5, <1>6, <1>8, <1>9, <1>10, <1>11, <1>12, <1>13
  DEF Next, Step, Command, Expire, stop_task, RunJob, vars, ioVars

\* Every step preserves the inductive invariant.
LEMMA NextIInv == IInv /\ [Next]_vars => IInv'
BY TypeStep, UnitsStep, PoolStep, WaitsStep DEF IInv

-----------------------------------------------------------------------------
(* The theorems.                                                           *)

\* The inductive invariant holds of the scheduler, whoever commands it.
THEOREM Invariance == Safe => []IInv
<1> QED
  BY InitIInv, NextIInv, PTL DEF Safe

\* Types of the io_service, the timers, the semaphore and the threads.
THEOREM TypeCorrect == Safe => []TypeOK
<1>1. IInv => TypeOK
  BY DEF IInv
<1> QED
  BY <1>1, Invariance, PTL

\* thread_pool's semaphore loses and gains no unit.
THEOREM Conserved == Safe => []UnitsConserved
<1>1. IInv => UnitsConserved
  BY DEF IInv
<1> QED
  BY <1>1, Invariance, PTL

\* Half the capacity and one: that many starts never block a thread, in any
\* interleaving of the scheduler and any number of server threads.
THEOREM Suffices == Safe => []PoolSuffices
<1>1. IInv => PoolSuffices
  <2> SUFFICES ASSUME IInv, starts <= Capacity \div 2 + 1, NEW th \in Threads, Blocked(th)
               PROVE  FALSE
    BY DEF PoolSuffices
  <2> DEFINE P == Cardinality(At({"post"}))
             S == Cardinality(At({"submit"}))
  <2>1. P \in Nat /\ S \in Nat
    BY CountBound DEF At
  <2>2. P + S >= 1
    <3>1. th \in At({"post"}) \/ th \in At({"submit"})
      BY DEF Blocked, At
    <3>2. P # 0 \/ S # 0
      BY <3>1, CountBound, FS_EmptySet DEF At
    <3> HIDE DEF P, S
    <3> QED
      BY <2>1, <3>2
  <2>3. pooled + 2 * P + S <= 2 * (starts - 1)
    BY DEF IInv, PoolAccount, Blocked
  <2>4. pooled = Capacity
    BY SchedulerAssumption
    DEF SchedulerAssumption, IInv, TypeOK, UnitsConserved, Blocked
  <2>5. starts \in Nat /\ Capacity \in Nat
    BY SchedulerAssumption DEF SchedulerAssumption, IInv, TypeOK
  <2>6. 2 * (Capacity \div 2) <= Capacity
    BY <2>5
  <2> HIDE DEF P, S
  <2> QED
    BY <2>1, <2>2, <2>3, <2>4, <2>5, <2>6
<1> QED
  BY <1>1, Invariance, PTL

\* RunTask racing with execute() never arms more waits than there are threads.
THEOREM WaitsBounded == Safe => []NoWaitBuildup
<1>1. IInv => NoWaitBuildup
  BY DEF IInv
<1> QED
  BY <1>1, Invariance, PTL

-----------------------------------------------------------------------------
(* What the recurrence of the tasks rests on.                               *)

\* The scheduler's thread is busy with a task; a server's thread has cancelled
\* the wait of a task and not armed it again.
Busy == {"post", "submit", "wait", "expire", "start_wait", "task"}

\* Task t is to be executed again: its timer is armed, or a handler of it is
\* ready or running, or a RunTask command is about to arm it.
Armed(t) ==
  \/ waits[t] > 0
  \/ \E i \in 1..Len(ready) : ready[i].task = t
  \/ pc[Scheduler] \in Busy /\ job[Scheduler] = t
  \/ \E th \in Callers : pc[th] = "start_wait" /\ job[th] = t

\* No task is lost, whatever RunTask, TasksRestart and FileToDatabase commands do
\* in the meantime: only StopTask makes the timer of a task forget it.
NeverForgotten == stops = 0 => \A t \in Tasks : Armed(t)

\* Without StopTask, the io_service runs out of work only while RunTask commands
\* have disarmed every task at once.
RunsOutDisarmed == [][run_returns /\ ~stopped => stops > 0 \/ AllDisarmed]_vars

\* At the start a handler of every task is ready.
LEMMA ArmedInit == Init => NeverForgotten
<1> SUFFICES ASSUME Init, NEW t \in Tasks PROVE \E i \in 1..Len(ready) : ready[i].task = t
  BY DEF NeverForgotten, Armed
<1> DEFINE N == Cardinality(Tasks)
<1>1. IsFiniteSet(Tasks) /\ N \in Nat
  BY SchedulerAssumption, FS_CardinalityType
<1>2. PICK f \in [1..N -> Tasks] :
        /\ \A i, j \in 1..N : f[i] = f[j] => i = j
        /\ ready = [i \in 1..N |-> [op |-> "start", task |-> f[i]]]
  BY DEF Init, Posted
<1>3. PICK i \in 1..N : f[i] = t
  <2> DEFINE D == 1..N
  <2>1. IsFiniteSet(D) /\ Cardinality(D) = N
    BY <1>1, FS_Interval
  <2>2. f \in Injection(D, Tasks)
    BY <1>2 DEF Injection, IsInjective
  <2> HIDE DEF D
  <2>3. f \in Surjection(D, Tasks)
    BY <1>1, <2>1, <2>2, FS_Injection
  <2> QED
    BY <2>3 DEF Surjection, D
<1>4. Len(ready) = N /\ ready[i].task = t
  BY <1>1, <1>2, <1>3
<1> QED
  BY <1>3, <1>4

\* A step of a thread that neither cancels a wait nor changes the handlers.
LEMMA ArmedThread ==
  ASSUME TypeOK, NEW t \in Tasks, Armed(t), NEW th \in Threads, Step(th)
  PROVE  Armed(t)'
<1> USE SchedulerAssumption DEF Threads
<1>0. /\ waits \in [Tasks -> Nat] /\ job \in [Threads -> Tasks] /\ pc \in [Threads -> Labels]
      /\ job' = job /\ ready' = ready /\ \A u \in Threads : u # th => pc'[u] = pc[u]
  BY DEF TypeOK, Step, post, submit, Enlist, wait, expires_from_now, start_wait, finish,
     start_tasks, run, Run, ioVars, Goto
<1>1. CASE \E i \in 1..Len(ready) : ready[i].task = t
  BY <1>0, <1>1 DEF Armed
<1>2. CASE start_wait(th) /\ job[th] = t
  <2>1. waits'[t] = waits[t] + 1
    BY <1>0, <1>2 DEF start_wait
  <2> QED
    BY <1>0, <2>1 DEF Armed
<1>3. CASE (expires_from_now(th) \/ finish(th)) /\ job[th] = t
  <2>1. pc'[th] = "start_wait"
    BY <1>0, <1>3 DEF expires_from_now, finish, Goto
  <2> QED
    BY <1>0, <1>3, <2>1 DEF Armed, Busy
<1>4. CASE job[th] # t
  <2>1. waits'[t] = waits[t]
    BY <1>0, <1>4 DEF Step, post, submit, Enlist, wait, expires_from_now, start_wait, finish,
       start_tasks, run, Run, ioVars
  <2>2. \A u \in Threads : job[u] = t => pc'[u] = pc[u]
    BY <1>0, <1>4
  <2> QED
    BY <1>0, <2>1, <2>2 DEF Armed
<1>5. CASE ~(start_wait(th) \/ expires_from_now(th) \/ finish(th)) /\ job[th] = t
  <2>1. /\ waits' = waits
        /\ pc[th] \in Busy => pc[th] # "start_wait" /\ pc'[th] \in Busy
        /\ pc[th] # "start_wait"
    BY <1>0, <1>5 DEF Step, post, submit, Enlist, wait, start_tasks, run, Run, ioVars, Goto, Busy
  <2> QED
    BY <1>0, <1>5, <2>1 DEF Armed
<1> QED
  BY <1>2, <1>3, <1>4, <1>5

\* The steps of the io_service, of its timers and of the commands but StopTask.
LEMMA ArmedNext == IInv /\ NeverForgotten /\ [Next]_vars => NeverForgotten'
<1> SUFFICES ASSUME IInv, NeverForgotten, [Next]_vars, stops' = 0, NEW t \in Tasks
             PROVE  Armed(t)'
  BY DEF NeverForgotten
<1> USE SchedulerAssumption DEF Threads
<1>0. /\ TypeOK /\ waits \in [Tasks -> Nat] /\ job \in [Threads -> Tasks] /\ stops \in Nat
      /\ pc \in [Threads -> Labels] /\ ready \in Seq(Handlers)
  BY DEF IInv, TypeOK
<1>1. stops = 0
  <2>1. ASSUME NEW th \in Threads, Step(th) PROVE stops' = stops
    BY <2>1 DEF Step, post, submit, Enlist, wait, expires_from_now, start_wait, finish,
       start_tasks, run, Run, bounds
  <2>2. dispatch \/ run_returns \/ RunJob \/ (\E u \in Tasks : Expire(u)) => stops' = stops
    BY DEF dispatch, run_returns, RunJob, Expire, bounds
  <2>3. ASSUME NEW th \in Callers, Command(th) PROVE stops' = stops \/ stops' = stops + 1
    BY <2>3 DEF Command, run_task, stop_task, task_restart, file_to_database
  <2>4. UNCHANGED vars => stops' = stops
    BY DEF vars, bounds
  <2>5. stops' = stops \/ stops' = stops + 1
    BY <2>1, <2>2, <2>3, <2>4 DEF Next
  <2> QED
    BY <1>0, <2>5
<1>2. Armed(t)
  BY <1>1 DEF NeverForgotten
<1>3. CASE UNCHANGED vars
  BY <1>2, <1>3 DEF vars, ioVars, Armed
<1>4. CASE \E th \in Threads : Step(th)
  BY <1>0, <1>2, <1>4, ArmedThread
<1>5. CASE dispatch
  <2>1. /\ ready # <<>> /\ ready' = Tail(ready) /\ waits' = waits
        /\ job' = [job EXCEPT ![Scheduler] = Head(ready).task]
        /\ pc'[Scheduler] \in Busy /\ pc[Scheduler] = "poll"
        /\ \A th \in Callers : pc'[th] = pc[th]
    BY <1>0, <1>5 DEF dispatch, Goto, Busy
  <2>2. \A th \in Callers : job'[th] = job[th]
    BY <1>0, <2>1
  <2>3. CASE \E i \in 1..Len(ready) : ready[i].task = t
    <3>1. PICK i \in 1..Len(ready) : ready[i].task = t
      BY <2>3
    <3>2. CASE i = 1
      <4>1. job'[Scheduler] = t
        BY <1>0, <2>1, <3>1, <3>2
      <4> QED
        BY <2>1, <4>1 DEF Armed
    <3>3. CASE i # 1
      <4>1. i - 1 \in 1..Len(ready') /\ ready'[i - 1] = ready[i]
        BY <1>0, <2>1, <3>3
      <4> QED
        BY <3>1, <4>1 DEF Armed
    <3> QED
      BY <3>2, <3>3
  <2>4. pc[Scheduler] \notin Busy
    BY <2>1 DEF Busy
  <2> QED
    BY <1>2, <2>1, <2>2, <2>3, <2>4 DEF Armed
<1>6. CASE run_returns
  BY <1>0, <1>2, <1>6 DEF run_returns, Goto, Armed, Busy, poolVars
<1>7. CASE RunJob
  BY <1>2, <1>7 DEF RunJob, Armed, ioVars
<1>8. ASSUME NEW u \in Tasks, Expire(u) PROVE Armed(t)'
  <2> DEFINE more == [i \in 1..waits[u] |-> [op |-> "execute", task |-> u]]
  <2>1. /\ waits[u] \in Nat /\ waits[u] > 0 /\ waits' = [waits EXCEPT ![u] = 0]
        /\ ready' = ready \o more /\ UNCHANGED <<pc, job>>
    BY <1>0, <1>8 DEF Expire
  <2>2. more \in Seq(Handlers) /\ Len(more) = waits[u]
    <3>1. [op |-> "execute", task |-> u] \in Handlers
      BY DEF Handlers
    <3>2. more \in [1..waits[u] -> Handlers]
      BY <3>1
    <3> HIDE DEF more
    <3> QED
      BY <2>1, <3>2
  <2>3. more[1].task = u
    BY <2>1
  <2> HIDE DEF more
  <2>4. \A i \in 1..Len(ready) : i \in 1..Len(ready') /\ ready'[i] = ready[i]
    BY <1>0, <2>1, <2>2
  <2>5. Len(ready) + 1 \in 1..Len(ready') /\ ready'[Len(ready) + 1] = more[1]
    BY <1>0, <2>1, <2>2
  <2>6. CASE u = t
    BY <2>3, <2>5, <2>6 DEF Armed
  <2>7. CASE u # t
    <3>1. waits'[t] = waits[t]
      BY <1>0, <2>1, <2>7
    <3> QED
      BY <1>2, <2>1, <2>4, <3>1 DEF Armed
  <2> QED
    BY <2>6, <2>7
<1>9. ASSUME NEW th \in Callers, Command(th) PROVE Armed(t)'
  <2>1. /\ UNCHANGED <<ready, waits>> /\ pc[th] = "idle"
        /\ \A u \in Threads : u # th => pc'[u] = pc[u] /\ job'[u] = job[u]
    BY <1>0, <1>1, <1>9 DEF Command, run_task, stop_task, task_restart, file_to_database, Goto,
       ioVars
  <2>2. Scheduler # th /\ pc[th] # "start_wait"
    BY <2>1
  <2> QED
    BY <1>2, <2>1, <2>2 DEF Armed
<1> QED
  BY <1>3, <1>4, <1>5, <1>6, <1>7, <1>8, <1>9 DEF Next

\* A task is only ever lost to StopTask.
THEOREM TasksKept == Safe => []NeverForgotten
BY InitIInv, NextIInv, ArmedInit, ArmedNext, PTL DEF Safe

\* What stops the scheduler by accident: RunTask commands that have, all at the
\* same time, cancelled the waits of all the tasks.
THEOREM RunsOut == Safe => RunsOutDisarmed
<1>1. IInv /\ NeverForgotten => [run_returns /\ ~stopped => stops > 0 \/ AllDisarmed]_vars
  <2> SUFFICES ASSUME IInv, NeverForgotten, run_returns, ~stopped, ~(stops > 0), NEW t \in Tasks
               PROVE  \E th \in Callers : pc[th] = "start_wait" /\ job[th] = t
    BY DEF AllDisarmed
  <2>1. stops = 0
    BY DEF IInv, TypeOK
  <2>2. ready = <<>> /\ waits[t] = 0 /\ pc[Scheduler] = "poll"
    BY DEF run_returns
  <2> QED
    BY <2>1, <2>2 DEF NeverForgotten, Armed, Busy
<1> QED
  BY InitIInv, NextIInv, ArmedInit, ArmedNext, <1>1, PTL DEF Safe, RunsOutDisarmed
=============================================================================
