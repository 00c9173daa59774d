------------------------- MODULE ShardingWorkQueue -------------------------
(***************************************************************************)
(* ShardingWorkQueue of src/ndk/run_tests.py and the worker processes it   *)
(* starts.  There is one task queue per device group, ProcsPerDevice       *)
(* worker processes per device that all take tasks from their group's     *)
(* queue, one result queue shared by every worker, and the counter         *)
(* num_tasks, which only the driver process touches.                       *)
(*                                                                         *)
(* The worker loop (ndk.workqueue.Worker) is not under src/ and is         *)
(* modelled from spec.md section 4.2: take a task, run it, put its result, *)
(* or a TaskError if the task raised.  Each entry of the result queue      *)
(* also records the task it answers; that field is bookkeeping for the    *)
(* refinement mapping and is never read by the modelled code.              *)
(***************************************************************************)
EXTENDS Naturals, Sequences, SequencesExt

CONSTANTS Groups,          \* the device groups, each a non-empty set of devices
          ProcsPerDevice,  \* worker processes per device
          Tasks,           \* the values that may be added as tasks
          TaskError,       \* the value a worker puts when its task raised
          Idle             \* what a worker runs when it runs no task

VARIABLES taskQueues,   \* group -> FIFO of tasks (one manager.Queue per group)
          resultQueue,  \* the shared result queue, FIFO of [task, value]
          running,      \* worker -> the task it is executing, or Idle
          numTasks,     \* ShardingWorkQueue.num_tasks
          terminated    \* terminate() has been called

queueVars == <<taskQueues, resultQueue, running, numTasks, terminated>>

\* A worker is a (device, process index) pair bound to its device for life.
Workers == (UNION Groups) \X (1..ProcsPerDevice)
GroupOf(d) == CHOOSE g \in Groups : d \in g

\* ShardingWorkQueue.__init__.
QueueInit ==
    /\ taskQueues = [g \in Groups |-> <<>>]
    /\ resultQueue = <<>>
    /\ running = [w \in Workers |-> Idle]
    /\ numTasks = 0
    /\ terminated = FALSE

\* ShardingWorkQueue.add_task: put on the group's queue, count it.
AddTask(group, task) ==
    /\ taskQueues' = [taskQueues EXCEPT ![group] = Append(@, task)]
    /\ numTasks' = numTasks + 1
    /\ UNCHANGED <<resultQueue, running, terminated>>

\* Worker loop, first half: an idle worker takes the head of its group's queue.
WorkerGet(w) ==
    LET g == GroupOf(w[1]) IN
    /\ ~terminated
    /\ running[w] = Idle
    /\ taskQueues[g] # <<>>
    /\ running' = [running EXCEPT ![w] = Head(taskQueues[g])]
    /\ taskQueues' = [taskQueues EXCEPT ![g] = Tail(@)]
    /\ UNCHANGED <<resultQueue, numTasks, terminated>>

\* Mutant: the worker puts its result but does not drop the task.
WorkerPutKeepsTask(w, value) ==
    /\ ~terminated
    /\ running[w] # Idle
    /\ resultQueue' = Append(resultQueue, [task |-> running[w], value |-> value])
    /\ UNCHANGED <<taskQueues, running, numTasks, terminated>>

\* Worker loop, second half: the task returned value (or raised: TaskError).
WorkerPut(w, value) ==
    /\ ~terminated
    /\ running[w] # Idle
    /\ resultQueue' = Append(resultQueue, [task |-> running[w], value |-> value])
    /\ running' = [running EXCEPT ![w] = Idle]
    /\ UNCHANGED <<taskQueues, numTasks, terminated>>

\* Mutant: get_result without the num_tasks decrement.
GetResultKeepsCount ==
    /\ resultQueue # <<>>
    /\ Head(resultQueue).value # TaskError
    /\ resultQueue' = Tail(resultQueue)
    /\ UNCHANGED <<taskQueues, running, numTasks, terminated>>

\* ShardingWorkQueue.get_result: blocks until a result is there; a TaskError
\* is raised before num_tasks is decremented.
GetResult ==
    /\ resultQueue # <<>>
    /\ Head(resultQueue).value # TaskError
    /\ resultQueue' = Tail(resultQueue)
    /\ numTasks' = numTasks - 1
    /\ UNCHANGED <<taskQueues, running, terminated>>

GetResultRaises ==
    /\ resultQueue # <<>>
    /\ Head(resultQueue).value = TaskError
    /\ resultQueue' = Tail(resultQueue)
    /\ UNCHANGED <<taskQueues, running, numTasks, terminated>>

\* ShardingWorkQueue.terminate and join: no worker takes or finishes a task
\* afterwards.
Terminate ==
    /\ terminated' = TRUE
    /\ UNCHANGED <<taskQueues, resultQueue, running, numTasks>>

\* ShardingWorkQueue.finished.
Finished == numTasks = 0

----------------------------------------------------------------------------
(* Refinement mapping to WorkQueueContract: a task is outstanding while it *)
(* waits in a group queue, runs on a worker, or its answer waits on the    *)
(* result queue.                                                           *)
Copies(t) ==
    MapThenSumSet(LAMBDA g : Cardinality({i \in DOMAIN taskQueues[g] : taskQueues[g][i] = t}),
                  Groups)
      + Cardinality({w \in Workers : running[w] = t})
      + Cardinality({i \in DOMAIN resultQueue : resultQueue[i].task = t})
Outstanding == [t \in {u \in Tasks : Copies(u) > 0} |-> Copies(t)]

Contract == INSTANCE WorkQueueContract
                WITH outstanding <- Outstanding, awaited <- numTasks, open <- ~terminated
=============================================================================
