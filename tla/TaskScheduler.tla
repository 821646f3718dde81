---------------------------- MODULE TaskScheduler ----------------------------
(***************************************************************************)
(* arcirk::services::task_scheduler, its tasks and their thread_pool, and   *)
(* the server commands that use them (RunTask, StopTask, TasksRestart,      *)
(* FileToDatabase).                                                         *)
(*                                                                          *)
(* One detached thread runs the io_service: it pops ready handlers in FIFO  *)
(* order and executes them to the end.  Server threads call start_now(),    *)
(* stop() and run() on the same objects without any lock, so every library  *)
(* call of a handler is a step of its own.                                  *)
(***************************************************************************)
EXTENDS Naturals, Sequences, FiniteSets

CONSTANTS
  Tasks,       \* the allowed tasks of server_tasks.json
  Scheduler,   \* the detached thread of run_server_tasks()
  Callers,     \* server threads that execute commands
  Capacity,    \* thread_pool semaphore units (8 in task_scheduler())
  MaxRuns,     \* bound: RunTask commands
  MaxStops,    \* bound: StopTask commands
  MaxRestarts, \* bound: TasksRestart commands
  MaxImports   \* bound: FileToDatabase commands

ASSUME SchedulerAssumption ==
  /\ IsFiniteSet(Tasks) /\ Tasks # {}
  /\ IsFiniteSet(Callers) /\ Scheduler \notin Callers
  /\ Capacity \in Nat /\ Capacity >= 2
  /\ MaxRuns \in Nat /\ MaxStops \in Nat
  /\ MaxRestarts \in Nat /\ MaxImports \in Nat

VARIABLES
  ready,       \* io_service: handlers ready to run, in order
  waits,       \* pending async_waits of each task's timer
  stopped,     \* io_service is stopped; nothing ever calls restart()
  is_started_, \* task_scheduler::is_started_
  pc, job,     \* where each thread is, and the task it is working on
  units,       \* free units of thread_pool::queue
  pooled,      \* jobs posted to the asio thread_pool and not run
  joined,      \* workers->wait() has joined the pool's threads
  runs, stops, restarts, imports, \* RunTask, StopTask, TasksRestart and
                                  \* FileToDatabase commands so far
  starts       \* calls of start() and start_now() so far

ioVars   == <<ready, waits, stopped>>
poolVars == <<units, pooled, joined>>
bounds   == <<runs, stops, restarts, imports>>
vars == <<ioVars, poolVars, is_started_, pc, job, bounds, starts>>

Threads == {Scheduler} \cup Callers

Handlers == [op : {"start", "execute"}, task : Tasks]

\* Orders in which add_task() may have posted task::start.
Posted == {[i \in 1..Cardinality(Tasks) |-> [op |-> "start", task |-> f[i]]] :
             f \in {g \in [1..Cardinality(Tasks) -> Tasks] :
                      \A i, j \in 1..Cardinality(Tasks) : g[i] = g[j] => i = j}}

\* run_server_tasks(): the tasks are added, then the thread calls run().
Init ==
  /\ ready \in Posted
  /\ waits = [t \in Tasks |-> 0]
  /\ stopped = FALSE /\ is_started_ = TRUE
  /\ pc = [th \in Threads |-> IF th = Scheduler THEN "poll" ELSE "idle"]
  /\ job \in {f \in [Threads -> Tasks] : \A a, b \in Threads : f[a] = f[b]}
  /\ units = Capacity /\ pooled = 0 /\ joined = FALSE
  /\ runs = 0 /\ stops = 0 /\ restarts = 0 /\ imports = 0 /\ starts = 0

\* Thread th stops at label `at'.
Goto(th, at) == pc' = [pc EXCEPT ![th] = at]

-----------------------------------------------------------------------------
(* thread_pool                                                              *)

\* post() and submit(): take a unit, waiting for one, and post a job.
Enlist(th, here, next) ==
  /\ pc[th] = here
  /\ units > 0
  /\ units' = units - 1
  /\ pooled' = pooled + 1
  /\ Goto(th, next)
  /\ UNCHANGED <<joined, ioVars, is_started_, job, bounds, starts>>

post(th)   == Enlist(th, "post", "submit")
submit(th) == Enlist(th, "submit", "wait")

\* A mutant of RunJob: the job does not post() the semaphore.
RunJobKeepingUnit ==
  /\ ~joined /\ pooled > 0
  /\ pooled' = pooled - 1
  /\ UNCHANGED <<units, joined, ioVars, is_started_, pc, job, bounds, starts>>

\* A pool thread runs a job, which gives its unit back.  After the join there
\* are no pool threads: a job posted later is never run.
RunJob ==
  /\ ~joined /\ pooled > 0
  /\ pooled' = pooled - 1
  /\ units' = units + 1
  /\ UNCHANGED <<joined, ioVars, is_started_, pc, job, bounds, starts>>

\* wait(): the first call returns when every job has run and the threads are
\* joined; a later call has nothing to wait for.
wait(th) ==
  /\ pc[th] = "wait"
  /\ pooled = 0 \/ joined
  /\ joined' = TRUE
  /\ Goto(th, "expire")
  /\ UNCHANGED <<units, pooled, ioVars, is_started_, job, bounds, starts>>

-----------------------------------------------------------------------------
(* task                                                                     *)

\* start() and start_now(): expires_from_now() cancels the pending waits.
expires_from_now(th) ==
  /\ pc[th] = "expire"
  /\ waits' = [waits EXCEPT ![job[th]] = 0]
  /\ Goto(th, "start_wait")
  /\ UNCHANGED <<ready, stopped, poolVars, is_started_, job, bounds, starts>>

\* Where a thread goes when the handler or the command is over.
Home(th) == IF th = Scheduler THEN "poll" ELSE "idle"

\* A mutant of start_wait: async_wait() is called in the caller, too.
start_wait_twice(th) ==
  /\ pc[th] = "start_wait"
  /\ waits' = [waits EXCEPT ![job[th]] = @ + 2]
  /\ Goto(th, Home(th))
  /\ UNCHANGED <<ready, stopped, poolVars, is_started_, job, bounds, starts>>

start_wait(th) ==
  /\ pc[th] = "start_wait"
  /\ waits' = [waits EXCEPT ![job[th]] = @ + 1]
  /\ Goto(th, Home(th))
  /\ UNCHANGED <<ready, stopped, poolVars, is_started_, job, bounds, starts>>

\* The timer of t expires: its execute() handlers become ready.  (A cancelled
\* wait runs execute() with operation_aborted, which does nothing.)
Expire(t) ==
  /\ waits[t] > 0
  /\ waits' = [waits EXCEPT ![t] = 0]
  /\ ready' = ready \o [i \in 1..waits[t] |-> [op |-> "execute", task |-> t]]
  /\ UNCHANGED <<stopped, poolVars, is_started_, pc, job, bounds, starts>>

\* A mutant of finish: the task is not scheduled again.
finish_for_good(th) ==
  /\ pc[th] = "task"
  /\ waits' = [waits EXCEPT ![job[th]] = 0]
  /\ Goto(th, Home(th))
  /\ UNCHANGED <<ready, stopped, poolVars, is_started_, job, bounds, starts>>

\* task_(opt_) is over: expires_at(+interval) cancels the pending waits.
finish(th) ==
  /\ pc[th] = "task"
  /\ waits' = [waits EXCEPT ![job[th]] = 0]
  /\ Goto(th, "start_wait")
  /\ UNCHANGED <<ready, stopped, poolVars, is_started_, job, bounds, starts>>

-----------------------------------------------------------------------------
(* task_scheduler                                                           *)

\* The loop pops the next handler: task::start or task::execute.
dispatch ==
  /\ pc[Scheduler] = "poll"
  /\ ~stopped
  /\ ready # <<>>
  /\ LET h == Head(ready)
     IN  /\ job' = [job EXCEPT ![Scheduler] = h.task]
         /\ IF h.op = "start"
            THEN Goto(Scheduler, "post") /\ starts' = starts + 1
            ELSE Goto(Scheduler, "task") /\ UNCHANGED starts
  /\ ready' = Tail(ready)
  /\ UNCHANGED <<waits, stopped, poolVars, is_started_, bounds>>

\* io_service.run() returns: it was stopped, or it ran out of work, which
\* stops it too.  is_started_ keeps its value.
run_returns ==
  /\ pc[Scheduler] = "poll"
  /\ stopped \/ (ready = <<>> /\ \A t \in Tasks : waits[t] = 0)
  /\ stopped' = TRUE
  /\ Goto(Scheduler, "returned")
  /\ UNCHANGED <<ready, waits, poolVars, is_started_, job, bounds, starts>>

-----------------------------------------------------------------------------
(* Server commands.                                                         *)

\* RunTask: start_now() on the caller's own thread.
run_task(th, t) ==
  /\ pc[th] = "idle" /\ runs < MaxRuns
  /\ is_started_
  /\ runs' = runs + 1 /\ starts' = starts + 1
  /\ job' = [job EXCEPT ![th] = t]
  /\ Goto(th, "post")
  /\ UNCHANGED <<ioVars, poolVars, is_started_, stops, restarts, imports>>

\* StopTask: timer.cancel().
stop_task(th, t) ==
  /\ pc[th] = "idle" /\ stops < MaxStops
  /\ is_started_
  /\ stops' = stops + 1
  /\ waits' = [waits EXCEPT ![t] = 0]
  /\ UNCHANGED <<ready, stopped, poolVars, is_started_, pc, job, runs, restarts,
                 imports, starts>>

\* FileToDatabase: stop() the scheduler, then import in a worker thread.
file_to_database(th) ==
  /\ pc[th] = "idle" /\ imports < MaxImports
  /\ imports' = imports + 1
  /\ is_started_' = FALSE
  /\ stopped' = TRUE
  /\ Goto(th, "import")
  /\ UNCHANGED <<ready, waits, poolVars, job, runs, stops, restarts, starts>>

\* TasksRestart: stop() the scheduler if it is started, then run() it.
task_restart(th) ==
  /\ pc[th] = "idle" /\ restarts < MaxRestarts
  /\ restarts' = restarts + 1
  /\ is_started_' = FALSE
  /\ stopped' = (stopped \/ is_started_)
  /\ Goto(th, "restart")
  /\ UNCHANGED <<ready, waits, poolVars, job, runs, stops, imports, starts>>

\* run() on the stopped io_service returns at once, whether or not it was this
\* call that set is_started_.
Run(th, here) ==
  /\ pc[th] = here
  /\ is_started_' = TRUE
  /\ Goto(th, "idle")
  /\ UNCHANGED <<ioVars, poolVars, job, bounds, starts>>

\* At the end of the import, and of TasksRestart.
start_tasks(th) == Run(th, "import")
run(th)         == Run(th, "restart")

-----------------------------------------------------------------------------
\* The steps of a thread once it has been given something to do.
Step(th) ==
  post(th) \/ submit(th) \/ wait(th) \/ expires_from_now(th)
    \/ start_wait(th) \/ finish(th) \/ start_tasks(th) \/ run(th)

Command(th) ==
  \/ \E t \in Tasks : run_task(th, t) \/ stop_task(th, t)
  \/ task_restart(th) \/ file_to_database(th)

Next ==
  \/ \E th \in Threads : Step(th)
  \/ dispatch \/ run_returns
  \/ RunJob
  \/ \E t \in Tasks : Expire(t)
  \/ \E th \in Callers : Command(th)

\* Threads keep running, timers expire and the pool works; nobody is obliged
\* to send a command.
Fairness ==
  /\ \A th \in Threads : WF_vars(Step(th))
  /\ WF_vars(dispatch \/ run_returns)
  /\ WF_vars(RunJob)
  /\ \A t \in Tasks : WF_vars(Expire(t))

Safe == Init /\ [][Next]_vars
Spec == Safe /\ Fairness

-----------------------------------------------------------------------------
Labels == {"poll", "task", "returned", "idle", "import", "restart",
           "post", "submit", "wait", "expire", "start_wait"}

TypeOK ==
  /\ ready \in Seq(Handlers)
  /\ waits \in [Tasks -> Nat]
  /\ stopped \in BOOLEAN /\ is_started_ \in BOOLEAN /\ joined \in BOOLEAN
  /\ pc \in [Threads -> Labels] /\ job \in [Threads -> Tasks]
  /\ units \in 0..Capacity /\ pooled \in 0..Capacity
  /\ runs \in 0..MaxRuns /\ stops \in 0..MaxStops
  /\ restarts \in 0..MaxRestarts /\ imports \in 0..MaxImports
  /\ starts \in Nat

Executing(t) == pc[Scheduler] = "task" /\ job[Scheduler] = t

\* A thread that waits for a unit no job will ever give back.
Blocked(th) == pc[th] \in {"post", "submit"} /\ units = 0 /\ joined

\* thread_pool::queue counts: a unit is free or held by a job in the pool.
UnitsConserved == units + pooled = Capacity

\* The first wait() returns only its own call's units; from then on every
\* start() and start_now() keeps two for good.  Up to this many calls, made
\* by any threads in any interleaving, nobody is blocked.
PoolSuffices ==
  starts <= Capacity \div 2 + 1 => \A th \in Threads : ~Blocked(th)

\* The account behind PoolSuffices.  Until the first wait() has returned, each
\* start() and start_now() begun is at one of the three library calls; from then
\* on all but that first one keep, or are about to take, two units.
At(labels) == {th \in Threads : pc[th] \in labels}

PoolAccount ==
  IF joined
  THEN pooled + 2 * Cardinality(At({"post"})) + Cardinality(At({"submit"}))
         <= 2 * (starts - 1)
  ELSE Cardinality(At({"post", "submit", "wait"})) <= starts

\* RunTask racing with task::execute can arm the timer twice, but the waits
\* do not build up: each cancels all those armed before it.
NoWaitBuildup ==
  \A t \in Tasks :
    waits[t] + Cardinality({th \in Threads : pc[th] = "start_wait" /\ job[th] = t})
      <= Cardinality(Threads)

\* The invariant that is inductive.
IInv == TypeOK /\ UnitsConserved /\ PoolAccount /\ NoWaitBuildup

\* RunTask commands have cancelled the waits of all tasks and armed none yet: the
\* io_service may find itself without work, and stop.
AllDisarmed ==
  \A t \in Tasks : \E th \in Callers : pc[th] = "start_wait" /\ job[th] = t

\* Every task is executed again and again, whatever RunTask commands are sent,
\* as long as there is no StopTask, TasksRestart or FileToDatabase command and no
\* moment in which RunTask commands have disarmed all the tasks.
EachTaskRecurs ==
  [](stops = 0 /\ restarts = 0 /\ imports = 0 /\ ~AllDisarmed) => \A t \in Tasks : []<>Executing(t)

\* "All scheduled tasks are started", says start_tasks() after the import.
ResumeAfterImport ==
  (imports > 0 /\ is_started_) ~> \E t \in Tasks : Executing(t)
=============================================================================
