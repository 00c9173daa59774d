------------------------------ MODULE WorkQueue ------------------------------
(***************************************************************************)
(* ndk.workqueue.WorkQueue(), the default work queue run_tests uses for   *)
(* device discovery, clearing and pushing.  It is not under src/ and is    *)
(* modelled from spec.md section 4.2: a pool of workers draining one task *)
(* queue into one result queue, a task that raised delivered as a          *)
(* TaskError that get_result raises, num_tasks counted by the caller's     *)
(* process, and terminate() stopping the workers.                          *)
(*                                                                         *)
(* The tasks are distinct, so the pending ones are a set, and any of them  *)
(* may be the next to finish: the pool has several workers and each task   *)
(* addresses its own device, so which worker runs it is not visible.       *)
(***************************************************************************)
EXTENDS Naturals, Sequences, FiniteSets

CONSTANT TaskError

VARIABLES wqPending,   \* tasks added and not yet run to completion
          wqResults,   \* the result queue: values in completion order
          wqNumTasks,  \* WorkQueue.num_tasks
          wqOpen       \* terminate() not yet called

wqVars == <<wqPending, wqResults, wqNumTasks, wqOpen>>

WqInit ==
    /\ wqPending = {}
    /\ wqResults = <<>>
    /\ wqNumTasks = 0
    /\ wqOpen = TRUE

\* A loop of add_task calls with nothing read in between.
AddTasks(S) ==
    /\ wqPending' = wqPending \cup S
    /\ wqNumTasks' = wqNumTasks + Cardinality(S)
    /\ UNCHANGED <<wqResults, wqOpen>>

\* A worker runs a task to completion; value is its result or TaskError.
RunTask(task, value) ==
    /\ wqOpen
    /\ task \in wqPending
    /\ wqPending' = wqPending \ {task}
    /\ wqResults' = Append(wqResults, value)
    /\ UNCHANGED <<wqNumTasks, wqOpen>>

\* get_result: a result is consumed and counted.
GetResult ==
    /\ wqResults # <<>>
    /\ Head(wqResults) # TaskError
    /\ wqResults' = Tail(wqResults)
    /\ wqNumTasks' = wqNumTasks - 1
    /\ UNCHANGED <<wqPending, wqOpen>>

\* get_result: a TaskError is raised, before the count is touched.
GetResultRaises ==
    /\ wqResults # <<>>
    /\ Head(wqResults) = TaskError
    /\ wqResults' = Tail(wqResults)
    /\ UNCHANGED <<wqPending, wqNumTasks, wqOpen>>

\* terminate() and join().
Terminate ==
    /\ wqOpen' = FALSE
    /\ UNCHANGED <<wqPending, wqResults, wqNumTasks>>

Finished == wqNumTasks = 0
=============================================================================
