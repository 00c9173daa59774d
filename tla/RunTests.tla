------------------------------ MODULE RunTests ------------------------------
(***************************************************************************)
(* The run phase of run_tests() in src/ndk/run_tests.py: the device check  *)
(* under --require-all-devices, the submission of every TestRun to the     *)
(* ShardingWorkQueue in shuffled order, the driver draining results into   *)
(* the Report (wait_for_results), the one-shot retry of flaky failures     *)
(* (restart_flaky_tests), the second drain, and the verdict.  The worker   *)
(* processes run run_test() concurrently with the driver.                  *)
(*                                                                         *)
(* Before the run: the optional clearing of the device test directories   *)
(* and the push of every matched configuration to every device of its     *)
(* groups, both over the default WorkQueue.  Test discovery and device    *)
(* discovery are pure here: their outcome is the set TestRuns.             *)
(***************************************************************************)
EXTENDS Naturals, Sequences, FiniteSets, SequencesExt, DeviceMatching, TestResult

CONSTANTS ProcsPerDevice,  \* ShardingWorkQueue(..., 4) in run_tests
          TaskError,
          Idle,
          MaxHangs         \* device commands that may never return

VARIABLES taskQueues, resultQueue, running, numTasks, terminated,
          phase,              \* where run_tests() is
          requireAllDevices,  \* the --require-all-devices flag
          toSubmit,           \* TestRuns of the current add_task loop not yet added
          report,             \* the Report: sequence of results in arrival order
          history,            \* TestRun -> executions [device, outcome, result] (history)
          success,            \* Results.success: "none", "passed" or "failed"
          cleanDevice,        \* the --clean-device flag
          pushed,             \* <<config, device>>: that config's tests are on the device
          wqPending, wqResults, wqNumTasks, wqOpen, \* the default WorkQueue
          hung                \* workers whose device command never returned

prepVars == <<cleanDevice, pushed, hung, wqPending, wqResults, wqNumTasks, wqOpen>>
driverVars == <<phase, requireAllDevices, toSubmit, report, history, success, prepVars>>
vars == <<taskQueues, resultQueue, running, numTasks, terminated, driverVars>>

\* test_groups, groups_for_config and test_runs of run_tests().
TestGroups == EnumerateTests
GroupsForConfig == MatchConfigsToDeviceGroups(DOMAIN TestGroups)
TestRuns == PairTestRuns(TestGroups, GroupsForConfig)

Q == INSTANCE ShardingWorkQueue WITH Groups <- FleetGroups, Tasks <- TestRuns
P == INSTANCE WorkQueue

\* clear_test_directories: one task per device of every group.
ClearTasks == {[kind |-> "clear", device |-> d, config |-> "all"] : d \in Devices}

\* push_tests_to_devices: one task per (config, group, device).
PushTasks ==
    UNION { {[kind |-> "push", device |-> d, config |-> c] : d \in UNION GroupsForConfig[c]}
              : c \in DOMAIN GroupsForConfig }

Terminal == {"failed", "done", "exited"}

Init ==
    /\ Q!QueueInit
    /\ phase = "devices"
    /\ requireAllDevices \in BOOLEAN
    /\ toSubmit = TestRuns
    /\ report = <<>>
    /\ history = [r \in TestRuns |-> <<>>]
    /\ success = "none"
    /\ cleanDevice \in BOOLEAN
    /\ pushed = {}
    /\ hung = {}
    /\ P!WqInit

\* run_tests: verify_have_all_requested_devices; with --require-all-devices
\* a missing device configuration fails the run before anything is run.
\* The early return terminates the work queue (finally).  Configurations
\* with no matching group are only logged.
\* Mutant: the --require-all-devices return without results.failed().
CheckDevicesNoVerdict ==
    /\ phase = "devices"
    /\ \/ /\ requireAllDevices /\ ~VerifyHaveAllRequestedDevices
          /\ phase' = "failed"
          /\ P!Terminate
          /\ UNCHANGED success
       \/ /\ ~(requireAllDevices /\ ~VerifyHaveAllRequestedDevices)
          /\ phase' = IF cleanDevice THEN "clear" ELSE "push"
          /\ UNCHANGED <<success, wqPending, wqResults, wqNumTasks, wqOpen>>
    /\ UNCHANGED <<taskQueues, resultQueue, running, numTasks, terminated,
                   requireAllDevices, toSubmit, report, history, cleanDevice, pushed, hung>>

CheckDevices ==
    /\ phase = "devices"
    /\ \/ /\ requireAllDevices /\ ~VerifyHaveAllRequestedDevices
          /\ phase' = "failed"
          /\ success' = "failed"
          /\ P!Terminate
       \/ /\ ~(requireAllDevices /\ ~VerifyHaveAllRequestedDevices)
          /\ phase' = IF cleanDevice THEN "clear" ELSE "push"
          /\ UNCHANGED <<success, wqPending, wqResults, wqNumTasks, wqOpen>>
    /\ UNCHANGED <<taskQueues, resultQueue, running, numTasks, terminated,
                   requireAllDevices, toSubmit, report, history, cleanDevice, pushed, hung>>

\* clear_test_directories, the add_task loop.
ClearTestDirectories ==
    /\ phase = "clear"
    /\ P!AddTasks(ClearTasks)
    /\ phase' = "clearing"
    /\ UNCHANGED <<taskQueues, resultQueue, running, numTasks, terminated,
                   requireAllDevices, toSubmit, report, history, success,
                   cleanDevice, pushed, hung>>

\* push_tests_to_devices, the add_task loop: after the clearing has drained,
\* or straight after the device check without --clean-device.
PushTestsToDevices ==
    /\ \/ phase = "clearing" /\ P!Finished
       \/ phase = "push"
    /\ P!AddTasks(PushTasks)
    /\ phase' = "pushing"
    /\ UNCHANGED <<taskQueues, resultQueue, running, numTasks, terminated,
                   requireAllDevices, toSubmit, report, history, success,
                   cleanDevice, pushed, hung>>

\* The drain loops of clear_test_directories and finish_workqueue_with_ui:
\* while not finished, get_result; a TaskError leaves run_tests.
PrepGetResult ==
    /\ phase \in {"clearing", "pushing"}
    /\ ~P!Finished
    /\ \/ P!GetResult /\ UNCHANGED phase
       \/ P!GetResultRaises /\ phase' = "prepcrashed"
    /\ UNCHANGED <<taskQueues, resultQueue, running, numTasks, terminated,
                   requireAllDevices, toSubmit, report, history, success,
                   cleanDevice, pushed, hung>>

\* The finally clause of the preparation on the exception path.
PrepShutdown ==
    /\ phase = "prepcrashed"
    /\ P!Terminate
    /\ phase' = "exited"
    /\ UNCHANGED <<taskQueues, resultQueue, running, numTasks, terminated,
                   requireAllDevices, toSubmit, report, history, success,
                   cleanDevice, pushed, hung>>

\* Mutant: push_tests_to_devices returns without draining its tasks.
PrepFinishNoDrain ==
    /\ phase = "pushing"
    /\ P!Terminate
    /\ phase' = "submit"
    /\ UNCHANGED <<taskQueues, resultQueue, running, numTasks, terminated,
                   requireAllDevices, toSubmit, report, history, success,
                   cleanDevice, pushed, hung>>

\* The push has drained: the finally terminates and joins the work queue,
\* and the ShardingWorkQueue takes over.
PrepFinish ==
    /\ phase = "pushing"
    /\ P!Finished
    /\ P!Terminate
    /\ phase' = "submit"
    /\ UNCHANGED <<taskQueues, resultQueue, running, numTasks, terminated,
                   requireAllDevices, toSubmit, report, history, success,
                   cleanDevice, pushed, hung>>

\* A worker of the default queue runs clear_test_directory (rm -r of the
\* device test directory) or push_tests_to_device (mkdir and push); either
\* may raise out of the transport, which the worker reports as a TaskError.
PrepRunTask ==
    \E task \in wqPending, ok \in BOOLEAN :
        /\ P!RunTask(task, IF ok THEN "done" ELSE TaskError)
        /\ pushed' = CASE ~ok                 -> pushed
                        [] task.kind = "clear" -> {x \in pushed : x[2] # task.device}
                        [] OTHER               -> pushed \cup {<<task.config, task.device>>}
        /\ UNCHANGED <<taskQueues, resultQueue, running, numTasks, terminated, phase,
                       requireAllDevices, toSubmit, report, history, success, cleanDevice, hung>>

\* Mutant: the add_task loop adds a run without moving past it.
AddTestRunNoAdvance ==
    /\ phase \in {"submit", "retry"}
    /\ \E r \in toSubmit : Q!AddTask(r[2], r)
    /\ UNCHANGED <<phase, requireAllDevices, toSubmit, report, history, success, prepVars>>

\* The add_task loops of run_tests (over the shuffled test_runs) and of
\* restart_flaky_tests (over the flaky reports): any remaining run next.
AddTestRun ==
    /\ phase \in {"submit", "retry"}
    /\ \E r \in toSubmit :
          /\ Q!AddTask(r[2], r)
          /\ toSubmit' = toSubmit \ {r}
    /\ UNCHANGED <<phase, requireAllDevices, report, history, success, prepVars>>

\* The loop is done: wait_for_results starts.
StartWaiting ==
    /\ phase \in {"submit", "retry"}
    /\ toSubmit = {}
    /\ phase' = IF phase = "submit" THEN "wait1" ELSE "wait2"
    /\ UNCHANGED <<taskQueues, resultQueue, running, numTasks, terminated,
                   requireAllDevices, toSubmit, report, history, success, prepVars>>

\* wait_for_results: while not finished, get a result and add it to the
\* report under its build system.
WaitForResult ==
    /\ phase \in {"wait1", "wait2"}
    /\ ~Q!Finished
    /\ Q!GetResult
    /\ report' = Append(report, Head(resultQueue).value)
    /\ UNCHANGED <<phase, requireAllDevices, toSubmit, history, success, prepVars>>

\* get_result raised a TaskError: the exception leaves run_tests.
ResultRaises ==
    /\ phase \in {"wait1", "wait2"}
    /\ ~Q!Finished
    /\ Q!GetResultRaises
    /\ phase' = "crashed"
    /\ UNCHANGED <<requireAllDevices, toSubmit, report, history, success, prepVars>>

\* Mutant: the flaky results are re-added but left in the report.
RestartFlakyTestsKeepReport ==
    /\ phase = "wait1"
    /\ Q!Finished
    /\ toSubmit' = {FailingFlaky(report)[i].run : i \in DOMAIN FailingFlaky(report)}
    /\ phase' = "retry"
    /\ UNCHANGED <<taskQueues, resultQueue, running, numTasks, terminated,
                   requireAllDevices, report, history, success, prepVars>>

\* restart_flaky_tests: after the first drain, take the failing flaky
\* results out of the report and re-add their TestRuns to their groups.
RestartFlakyTests ==
    /\ phase = "wait1"
    /\ Q!Finished
    /\ report' = RemoveAllFailingFlaky(report)
    /\ toSubmit' = {FailingFlaky(report)[i].run : i \in DOMAIN FailingFlaky(report)}
    /\ phase' = "retry"
    /\ UNCHANGED <<taskQueues, resultQueue, running, numTasks, terminated,
                   requireAllDevices, history, success, prepVars>>

\* After the second drain: print_summary, terminate and join the queue
\* (finally), then results.passed() or results.failed() from
\* report.successful.
Finish ==
    /\ phase = "wait2"
    /\ Q!Finished
    /\ Q!Terminate
    /\ success' = IF Successful(report) THEN "passed" ELSE "failed"
    /\ phase' = "done"
    /\ UNCHANGED <<requireAllDevices, toSubmit, report, history, prepVars>>

\* Mutant: the exception path terminates without joining the workers.
ShutdownNoJoin ==
    /\ phase = "crashed"
    /\ Q!Terminate
    /\ phase' = "exited"
    /\ UNCHANGED <<requireAllDevices, toSubmit, report, history, success, prepVars>>

\* The finally clause on the exception path: terminate and join.  join()
\* waits for every worker process, so it never returns while a worker is
\* stuck in a device command (terminate does not interrupt one, spec 5).
Shutdown ==
    /\ phase = "crashed"
    /\ hung = {}
    /\ Q!Terminate
    /\ phase' = "exited"
    /\ UNCHANGED <<requireAllDevices, toSubmit, report, history, success, prepVars>>

\* A worker takes the next TestRun of its group.
WorkerGet(w) == Q!WorkerGet(w) /\ UNCHANGED driverVars

\* What the device can do for one execution: an unsupported test never
\* reaches the device.
DeviceOutcomes(run, version) ==
    IF CheckUnsupported(run, version) THEN {"none"} ELSE Outcomes

\* The device command of BasicTestCase.run (shell_nocheck) never returns:
\* nothing at the queue layer times it out, and the worker keeps its task.
Hang(w) ==
    /\ ~terminated
    /\ Cardinality(hung) < MaxHangs
    /\ DeviceOutcomes(running[w], Version[w[1]]) # {"none"}
    /\ hung' = hung \cup {w}
    /\ UNCHANGED <<taskQueues, resultQueue, running, numTasks, terminated, phase,
                   requireAllDevices, toSubmit, report, history, success, cleanDevice,
                   pushed, wqPending, wqResults, wqNumTasks, wqOpen>>

\* run_test: the worker runs the TestRun on its own device (worker.data[0])
\* and puts the result, or a TaskError when the task raised; or the device
\* command hangs.
RunTest(w) ==
    LET run    == running[w]
        device == w[1]
    IN /\ running[w] # Idle
       /\ w \notin hung
       /\ \/ Hang(w)
          \/ \E outcome \in DeviceOutcomes(run, Version[device]) :
               LET value == IF outcome = "raise" THEN TaskError
                            ELSE TestRunRun(run, Version[device], outcome)
               IN /\ Q!WorkerPut(w, value)
                  /\ history' = [history EXCEPT ![run] =
                                   Append(@, [device |-> device, outcome |-> outcome,
                                              result |-> value])]
                  /\ UNCHANGED <<phase, requireAllDevices, toSubmit, report, success, prepVars>>

DriverStep ==
    \/ CheckDevices \/ ClearTestDirectories \/ PushTestsToDevices \/ PrepGetResult
    \/ PrepShutdown \/ PrepFinish \/ AddTestRun \/ StartWaiting \/ WaitForResult
    \/ ResultRaises \/ RestartFlakyTests \/ Finish \/ Shutdown

Next ==
    \/ DriverStep
    \/ PrepRunTask
    \/ \E w \in Q!Workers : WorkerGet(w) \/ RunTest(w)

(* The driver is one process that only waits on get_result; every worker   *)
(* is a process that keeps taking tasks while its device answers.  A       *)
(* worker in a hung device command takes no step again (RunTest(w) is      *)
(* disabled for it); the others keep their fairness.                       *)
Fairness ==
    /\ WF_vars(DriverStep)
    /\ WF_vars(PrepRunTask)
    /\ \A w \in Q!Workers : WF_vars(WorkerGet(w)) /\ WF_vars(RunTest(w))

Spec == Init /\ [][Next]_vars /\ Fairness

----------------------------------------------------------------------------
TypeOK ==
    /\ phase \in {"devices", "clear", "clearing", "push", "pushing", "prepcrashed",
                  "submit", "wait1", "retry", "wait2", "crashed"} \cup Terminal
    /\ pushed \subseteq (DOMAIN GroupsForConfig) \X Devices
    /\ hung \subseteq Q!Workers
    /\ wqPending \subseteq ClearTasks \cup PushTasks
    /\ wqNumTasks \in 0..Cardinality(ClearTasks \cup PushTasks)
    /\ toSubmit \subseteq TestRuns
    /\ numTasks \in 0..Cardinality(TestRuns)
    /\ \A i \in DOMAIN report : report[i].run \in TestRuns /\ report[i].kind \in Kinds
    /\ DOMAIN history = TestRuns
    /\ success \in {"none", "passed", "failed"}

EntriesOf(r) == SelectSeq(report, LAMBDA x : x.run = r)
LastExec(r) == Last(history[r])

(* No result is lost or counted twice (spec.md 4.6): when the run ends     *)
(* normally, every TestRun has exactly one report entry, and it is the     *)
(* result of that run's latest execution.  It spans the add_task counting, *)
(* the drain loop's exit on num_tasks = 0, and the removal and re-adding   *)
(* done by restart_flaky_tests.                                            *)
ReportExactlyOnce ==
    phase = "done" =>
        \A r \in TestRuns : EntriesOf(r) = <<LastExec(r).result>>

(* A TestRun runs at most twice, and a second time only after its first    *)
(* result was a Failure that is a flake by spec.md 4.6: a lost exit status *)
(* or a libc++ thread test; never an unexpected success.  About            *)
(* flake_filter, remove_all_failing_flaky and the single retry pass.       *)
RetryOnlyFlakyOnce ==
    \A r \in TestRuns :
        /\ Len(history[r]) <= 2
        /\ Len(history[r]) = 2 =>
             /\ history[r][1].result # TaskError
             /\ history[r][1].result.kind = "Failure"
             /\ history[r][1].outcome = "lost" \/ r[1] \in ThreadTests

(* Schedulability (spec.md 8): every execution of a TestRun happened on a  *)
(* device of the run's group, and that device can run the test's build     *)
(* configuration.  About match_configs_to_device_groups, pair_test_runs,   *)
(* the per-group task queues, and the group restart_flaky_tests re-adds to.*)
Schedulable ==
    \A r \in TestRuns : \A i \in DOMAIN history[r] :
        LET d == history[r][i].device IN
        d \in r[2] /\ CanRunBuildConfig(d, TestConfig[r[1]])

(* The verdict agrees with the classification table of spec.md 8 applied  *)
(* to what each run's latest execution actually did on its device: the run *)
(* succeeds iff no run ends as Failure or UnexpectedSuccess.  About        *)
(* TestRun.run, make_result, fixup_xfail, the report and its verdict.      *)
VerdictMatchesResults ==
    phase = "done" =>
        (success = "passed" <=>
           \A r \in TestRuns :
              LET e == LastExec(r)
                  v == Version[e.device]
              IN SpecKind(<<r[1], v>> \in Unsupported, <<r[1], v>> \in Broken,
                          e.outcome = "pass") \notin {"Failure", "UnexpectedSuccess"})

(* The driver does not stop in the middle: it always reaches the verdict,  *)
(* the early failure, or the exit after a TaskError.                       *)
Terminates == <>(phase \in Terminal)

(* The run phase implements RunPhase: phase maps to running until the      *)
(* early failure or the verdict (returned) or the exit on a TaskError      *)
(* (raised), and the verdict is recorded once, at that step.               *)
RunPhaseOf ==
    CASE phase = "exited"              -> "raised"
      [] phase \in {"failed", "done"}  -> "returned"
      [] OTHER                         -> "running"

RP == INSTANCE RunPhase WITH rpPhase <- RunPhaseOf

(* run_tests() from device discovery on records exactly one verdict, at    *)
(* the step where it returns, and none when a TaskError leaves it: the     *)
(* abstract RunPhase that RunTestsMain composes with main().               *)
ImplementsRunPhase == RP!Spec

(* Spec 5: a hung device command stalls exactly one worker (and thus one   *)
(* device) and neither the queue nor the other devices.  Once a command    *)
(* hangs, every other worker eventually finishes what it holds, every      *)
(* group queue that still has a live worker is emptied, and the driver     *)
(* consumes every answer on the result queue unless it already left on a  *)
(* TaskError; yet the run never reaches a verdict, because num_tasks      *)
(* never returns to 0 and join() waits for the stuck worker.               *)
HungStallsOnlyItsWorker ==
    <>[](hung # {} =>
           /\ \A w \in Q!Workers \ hung : running[w] = Idle
           /\ \A g \in FleetGroups :
                 (\E w \in Q!Workers \ hung : w[1] \in g) => taskQueues[g] = <<>>
           /\ phase # "crashed" => resultQueue = <<>>
           /\ phase \notin Terminal)

(* The ShardingWorkQueue implements the work-queue contract: every added   *)
(* task is answered exactly once and nothing is answered that was not      *)
(* added.                                                                  *)
ImplementsWorkQueueContract == Q!Contract!Spec

(* A test binary is never run on a device before its configuration's tests *)
(* were pushed there, nor after a clear wiped them: whenever a worker runs *)
(* a TestRun, the push of that run's configuration to the worker's device *)
(* completed.  About push_tests_to_devices pushing to every device of the  *)
(* matched groups, the drains of clear_test_directories and                *)
(* finish_workqueue_with_ui, and the ordering of clear before push.        *)
PushedBeforeRun ==
    \A w \in Q!Workers :
        running[w] # Idle => <<TestConfig[running[w][1]], w[1]>> \in pushed

(* spec.md 5: no two tasks address the same device concurrently.          *)
DeviceExclusive ==
    \A w1, w2 \in Q!Workers :
        (w1 # w2 /\ w1[1] = w2[1]) => (running[w1] = Idle \/ running[w2] = Idle)

(* The comment in run_tests: "The other thing we need to verify is that    *)
(* each test we find is run at least once."  A passing run under           *)
(* --require-all-devices has a report entry for every discovered test.     *)
EveryTestRunAtLeastOnce ==
    (phase = "done" /\ success = "passed" /\ requireAllDevices) =>
        \A c \in DOMAIN TestGroups : \A t \in TestGroups[c] :
            \E i \in DOMAIN report : report[i].run[1] = t
=============================================================================
