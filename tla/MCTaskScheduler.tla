-------------------------- MODULE MCTaskScheduler --------------------------
(* The default tasks of run_server_tasks(), and one or two server threads.  *)
EXTENDS TaskScheduler

CONSTANTS t1, t2, c1, c2, sched

TwoTasks   == {t1, t2}
OneCaller  == {c1}
TwoCallers == {c1, c2}
=============================================================================
