# TLA+ models of the NDK test runner

This directory holds TLA+ models of the test orchestrator in `src/ndk/run_tests.py` and of the pure algorithms beside it, in `src/ndk/graph.py` and `src/ndk/test/types.py`. It also holds the TLC configurations that check them. `PROJECT.json` records three things:
- which definition models which source lines (`map`);
- every run and the mutants that show each property can fail;
- the findings and the hazards of the code.

## The system

`run_tests()` works in this order:

1. It discovers the built tests (`enumerate_tests`, filtered by `ConfigFilter`).
2. It discovers the attached devices. Identical devices form a device group.
3. It checks the requested device configurations. Under `--require-all-devices` a missing one fails the run.
4. It matches each build configuration to the groups that can run it.
5. Then it does two preparation phases on a default `ndk.workqueue.WorkQueue`:
   - with `--clean-device`, it clears the test directories, one task per device, and drains the queue;
   - it pushes each matched configuration to every device of its groups, one task per (config, group, device), and drains again.
6. `finally` terminates that queue.

7. The run phase uses a `ShardingWorkQueue` with one task queue per group. `__init__` creates a `WorkQueue(4, ...)` per device, so four worker processes per device take tasks from their group's queue. All workers share one result queue. `num_tasks` is counted by the driver alone.
8. The driver adds every `TestRun`, a (test case, group) pair, in shuffled order.
9. It drains the results into the `Report` (`wait_for_results`). Then it takes the failing flakes out of the report and re-adds them (`restart_flaky_tests`), and drains again.
10. `finally` terminates the queue. The verdict is `report.successful`.

A worker runs `TestRun.run` on its own device. The classification is:
- an unsupported test is `Skipped`;
- otherwise exit status 0 is `Success` and anything else is a `Failure`;
- `fixup_xfail` then turns a broken test's failure into `ExpectedFailure` and its pass into `UnexpectedSuccess`.

A task that raises outside `RuntimeError` reaches the driver as a `TaskError`, which `get_result` raises.

`ndk.workqueue`, `ndk.test.devices`, `ndk.test.result` and `ndk.test.report` are not under `src/`. What the models need from them is taken from `spec.md` §3, §4.1, §4.2 and §4.6. These definitions are marked `spec_modelled` in the map.

## Modules

| Module | Models | State and actions |
|---|---|---|
| `TestResult` | `TestRun.run`, `make_result`, `fixup_xfail`, `check_unsupported`/`check_broken`, `shell_nocheck_wrap_errors`, `flake_filter`, and Report's `remove_all_failing_flaky` and `successful` | Operators only. The device's answer is one of `pass`, `fail`, `lost` (no exit status, which carries the flake marker) and `raise` (a TaskError). |
| `DeviceMatching` | `enumerate_tests`, `ConfigFilter`, `verify_have_all_requested_devices`, `match_configs_to_device_groups`, `find_configs_with_no_device`, `pair_test_runs`; the fleet from spec §4.1 | Operators over the constants `Devices`, `Version`, `DeviceAbis`, `Requested`, `TestCases`, `TestConfig` and `ConfigAbis`. |
| `WorkQueue` | `ndk.workqueue.WorkQueue` (spec §4.2) | `wqPending`, `wqResults`, `wqNumTasks`, `wqOpen`. Actions: `AddTasks`, `RunTask`, `GetResult`, `GetResultRaises`, `Terminate`. |
| `ShardingWorkQueue` | `ShardingWorkQueue` and its workers | `taskQueues` (one FIFO per group), `resultQueue`, `running` (worker to task or `Idle`), `numTasks`, `terminated`. Actions: `AddTask`, `WorkerGet`, `WorkerPut`, `GetResult`, `GetResultRaises`, `Terminate`. |
| `WorkQueueContract` | what a work queue promises its client | `outstanding` (a bag of tasks), `awaited` (the client's count), `open`. Actions: `Add`, `Complete`, `Fail` (an error answer), `Close`. |
| `RunTests` | `run_tests()` from the device check to the verdict, composing the modules above | Adds `hung` (workers whose device command never returned; `Hang(w)` is the third outcome of `RunTest`, at most `MaxHangs` times), `phase`, `requireAllDevices`, `cleanDevice`, `pushed`, `toSubmit`, `report`, `history` (every execution of every run: device, device outcome, result) and `success`. One action per step of the driver, plus `PrepRunTask`, `WorkerGet(w)` and `RunTest(w)` for the workers. |
| `RunPhase` | what `run_tests()` does from device discovery on, as `main` sees it | `rpPhase` (`running`, `returned`, `raised`) and `success`. `Return` records one verdict and returns; `Raise` leaves on an exception with the verdict untouched. |
| `RunTestsMain` | `run_tests()` before device discovery, and `main()` | `args` (the flags and outcomes that steer control: test directory present, `--rebuild`, `--build-only`, `test_src` given or `./tests` present, tests built, build ok, the host's `os.sep`), `pc`, `success`, `runPhase`, `exitStatus`, `discovery` (the dist tree and `--filter` the discovery step saw, and what `TestDiscovery!EnumerateTests` returned). Actions `CheckTestDir`, `CheckTestSrc`, `BuildTests`, `BuildOnly`, `DiscoverTests`, `RunDevicesAndTests` (one step of `RunPhase`, composed by `INSTANCE RunPhase WITH rpPhase <- runPhase`), `Main`, `Traceback`. `SetVerdict` is `Results.passed`/`failed`, which raise if a verdict is already set. |
| `TestDiscovery` | `enumerate_tests`, `ConfigFilter`, `enumerate_basic_tests`, `enumerate_libcxx_tests`, and the names and device directories of `BasicTestCase` and `LibcxxTestCase` | Operators over a dist tree: a set of files, each the sequence of directory names below `dist` and a file name as stem and extension, so `endswith` and `[:-4]` act on the extension. Names and paths are token sequences joined by `/`, `.` or the host's `os.sep`. `TestFilter` (not under `src/`) is a suite-prefix pattern, from spec §4.4. `Runnable` and `RefName` are the reference: spec §4.4's layout read directly. `PushedTo` is where `push_tests_to_devices` puts a dist file. |
| `MCRunTestsMain` | the `RunTestsMain` instance | Two configuration directories, one of an ABI the run does not build. The 8 candidate files cover an ndk-build executable and its `.so`, a cmake `.sh`, a top-level and a nested libc++ `.exe`, a `.dat`, a file of the unbuilt configuration and a `build.sh` output. Every subset is a dist tree. |
| `MCRunTests` | the model instance | 3 devices in 2 groups (API 24 ×2, API 30), 4 tests (one unsupported on API 24, one broken on API 30, two libc++ thread tests, one with no capable device). |
| `GraphCycle` | `Graph.find_cycle`, `find_cycle_from_node` | Mutually recursive operators. The variable `edges` is the graph, and each step adds or removes one edge. |
| `CMakeBuildTest` | `_run_cmake_build_test` | The tool checks in order. The variable `env` is what the tools do. `ListLess` is Python's list ordering. |
| `AppPlatform` | `_get_or_infer_app_platform`, `_platform_from_application_mk` | Operators over the test's variables `abi`, `userPlatform`, `applicationMk`, which `BuildRunners` enumerates. Application.mk lines are token sequences, so `split`, `startswith` and `int()` are modelled by what they do. |
| `StandaloneToolchain` | `main`, `get_triple`, `make_clang_scripts`, `replace_gcc_wrappers`, `create_toolchain` of `src/build/tools/make_standalone_toolchain.py` | `Checks` lists `main`'s exits in code order (NDK sanity, API minimum, toolchain path, then the install directory), and `CheckOutcome` gives each one's effect. `Main(args)` runs them until the first exit, so an `rmtree` done before a later exit stays recorded. It is the outcome of one invocation: an exit reason, or whether an existing directory was cleaned, the clang wrapper's target, API and `-mstackrealign`, the gcc wrapper names and the package format. A triple is the sequence of its dash-separated parts. The variable `args` ranges over every command line. |
| `BuildRunners` | `ShellBuildTest`/`NdkBuildTest` construction and `run`, `BuildTest.ndk_build_flags`, `_get_jobs_args`, `_run_build_sh_test`, `_run_ndk_build_test`, and `ndk.ndkbuild.build` (`src/ndk/ndkbuild.py`) | `Outcome` is what building one test does: ValueError from the constructor, Skipped, or Success/Failure together with the command (argv and environment) handed to the build. The level of an ndk-build test comes from `AppPlatform` through `AP == INSTANCE AppPlatform`, with the same variables. `MCBuildRunners` gives the values. |
| `XunitReports` | `get_xunit_reports`, `find_original_libcxx_test` | Test paths are character sequences. `Mangle` is lit's renaming, and `FnMatch` is the `_`→`?` pattern match. |

How RunTests composes the others:
- It `EXTENDS DeviceMatching` and `TestResult`.
- It takes `Q == INSTANCE ShardingWorkQueue WITH Groups <- FleetGroups, Tasks <- TestRuns` and `P == INSTANCE WorkQueue`.
- `ShardingWorkQueue` maps to `WorkQueueContract`:
  - `outstanding` ← the tasks waiting in a group queue, running on a worker, or answered on the result queue, counted with multiplicity;
  - `awaited` ← `num_tasks`;
  - `open` ← `~terminated`.
- The property `ImplementsWorkQueueContract == Q!Contract!Spec` checks that refinement.
- `RunTests` maps to `RunPhase` by `RunPhaseOf`: `exited` (a TaskError leaves) is `raised`, `failed` and `done` are `returned`, every other phase is `running`. `ImplementsRunPhase == RP!Spec` checks it. `RunTestsMain` uses `RunPhase` as its device phase, so this check is what justifies that abstraction.

## Runs

| Run | Expect | What it shows |
|---|---|---|
| `run_tests_main` (`MCRunTests.cfg`) | pass | See the list below. |
| `device_exclusive` (`MCRunTestsExclusive.cfg`) | violation | With 2 processes per device, `DeviceExclusive` fails: two workers of one device each hold a test. |
| `every_test_run` (`MCRunTestsCoverage.cfg`) | violation | All requested devices are present and `--require-all-devices` is set. The run ends `passed` although test `t4` (API 31) had no capable group and never ran. |
| `cmake_build` | pass | `CMakeVerdict`: the test passes exactly when both tools work, both cmake steps succeed, and cmake ≥ 3.6 by number. An old cmake is a Failure, not a crash. |
| `xunit_reports` | pass | `NeverMisattributed`: a parse that succeeds names the test that ran for every case, in order, with the right kind. |
| `standalone_toolchain` | pass | `ClangTargetFlags`: a successful run targets the requested API, or the architecture's minimum, and never less; it targets armv7a for arm and keeps the triple's OS and environment; `-mstackrealign` is added exactly for x86 below API 24. `InstallDirSafety`: an existing install directory is removed only under `--force`, and only by a run that goes on to create the toolchain. `main` checks the NDK, the API minimum and the toolchain path before it handles the directory. If it handled the directory first, a too-low `--api` or a missing toolchain would exit after the `rmtree` and leave nothing installed. The mutant `ChecksDirFirst` makes that swap, and TLC finds the violation. |
| `run_tests_hang` (`MCRunTestsHang.cfg`) | pass | `HungStallsOnlyItsWorker`, with `MaxHangs = 1`. Once a device command hangs, every other worker eventually goes idle. Every group queue with a live worker is emptied. The driver consumes every answer unless it already left on a TaskError. This is what spec §5 claims. The run never reaches a verdict: `num_tasks` never returns to 0, and on the TaskError path `join()` waits for the stuck worker. |
| `graph_cycle` (`GraphCycle`, `MCGraphCycle.cfg`) | pass | `FindsCycleIffCyclic`: on all 65,536 graphs over 4 nodes, `find_cycle` agrees with `Graphs!HasCycle`, and what it returns is a cycle of the graph. |
| `libcxx_test_names` (`MCRunTestsMainNames.cfg`) | violation | `NameMatchesFilter` fails on a Windows host. `LibcxxTestCase` builds the name of `libc++/d/y.pass.cpp.exe` with `os.path.join`, giving `libc++.d\y.pass.cpp`. `enumerate_libcxx_tests` selected it by `libc++.d/y.pass.cpp`, while the comment at lines 157-158 says the name is made to match the filter that would be used to build the test. |
| `build_runners` | pass | `BuildHandsTestConfig`: for both runners on POSIX and Windows hosts, every build that runs is handed the ABI and level the test is classified with, provided no extra flag of the configuration or the test sets `APP_ABI` or `APP_PLATFORM` itself. Such a flag comes later on the command line, so make uses it. `MCFlags` includes both kinds of flag, so the precondition holds in some states and fails in others. The handed value is the last command-line assignment, else the environment. Every extra flag comes last and in order, and the result is Success exactly when the command exits 0. `PlatformChoice` (through `AP!PlatformChoice`): the level is the user's if given. Otherwise it is never below the ABI minimum, it is the first APP_PLATFORM line's level when that line is valid. It raises ValueError exactly when that line is not `APP_PLATFORM := android-<number>`, checked against a reference pattern written separately from the parser: `?=`, `android-latest` and a missing prefix all raise, and none falls back to the minimum. The mutant `PlatformFromApplicationMkFallback` returns None for such a line, and TLC finds the violation. |
| `run_tests_driver` (`MCRunTestsMain.cfg`) | pass | Over all 192 combinations of `Args`, every dist tree over the 8 candidate files and the filters `*`, `libc++` and `s1`: `ResultsUsedOnce`, every step that records a verdict returns (no second `passed`/`failed`, so no ValueError), `main` never finds `success` unset (no RuntimeError), and the exit status is 0 exactly for a passed verdict. `NoVacuousPass`: exit status 0 means tests were built (`--rebuild`/`--build-only`) or the device phase returned. `DiscoveredAsPushed`: the tests discovery counts and runs are one per runnable file of the dist tree, each filed under the configuration whose directory holds it, and each run from the device directory its file was pushed to. 154,012 states. |
| `xunit_ambiguous` | violation | `EveryCaseReported` fails: the wildcard pattern for `a.b/x` also matches the scanned test `abb/x`, and the whole report is lost. |

`run_tests_main` covers 90,526 states in about 80 seconds and checks:
- `TypeOK`;
- `ReportExactlyOnce`: at the end every run has one report entry, the result of its latest execution;
- `RetryOnlyFlakyOnce`: at most two executions, and the second only after a first `Failure` that lost its exit status or is a thread test;
- `Schedulable`: every execution was on a device of the run's group that can run its configuration;
- `VerdictMatchesResults`: the verdict equals the spec §8 classification table applied to what each run's latest execution did;
- `PushedBeforeRun`: a worker only runs a test whose configuration was pushed to its device in this run and not cleared since;
- `Terminates`: the driver always reaches `done`, `failed` or `exited`;
- `ImplementsWorkQueueContract`;
- `ImplementsRunPhase`: the driver returns with exactly one verdict or leaves on a TaskError with none.

Every property of a passing run has a mutant in `PROJECT.json`. A mutant is an operator next to the code's definition that changes it the way a plausible bug would, and TLC finds it violates the property:
- a dropped `continue` in the add loop;
- the report kept on retry;
- the flake filter accepting unexpected successes;
- matching that ignores `can_run_build_config`;
- the `fixup_xfail` branches swapped;
- the push not drained;
- `get_result` not decrementing;
- a worker keeping its task after putting its result;
- the visited check before the path check;
- a minor-only version check;
- no minimum-API clamp;
- the first of several matches taken;
- `-mstackrealign` keyed on the `--arch` name instead of the triple's;
- an existing install directory cleaned without `--force`;
- the exception path's `finally` terminating without joining the workers;
- the first hotfix letter counted from `a`;
- `ndkbuild.build` dropping the build flags on Windows;
- the `--require-all-devices` failure leaving without a verdict;
- a build failure not returning after `results.failed`;
- discovery recording a pass when nothing was found, whatever the flags;
- a basic test's device directory taken relative to its build-system directory instead of the dist root.

## Bounds

- `ProcsPerDevice = 1` in the main run. This is the configuration spec §5 describes. With 4, as the code has it, exclusivity already fails with 2 (the `device_exclusive` run), so the main run checks everything else under the spec's intended scheduling.
- Two groups make the results of different groups interleave on the shared result queue. The API-24 group has two devices, so one group queue feeds two workers.
- One hang is enough for `run_tests_hang`, and it may hit any worker at any point. On `d3` it strands the single-device group's queue. On `d1` or `d2` it leaves that group's other device to drain its queue. With a TaskError elsewhere it exercises the blocked `join()`.
- Build runners: 2 ABIs, configured levels none or 19 (below the arm64 minimum), Application.mk files of up to 2 lines over 6 lines (another variable, levels below and above the arm64 minimum, `?=`, `android-latest`, no prefix), five extra-flag lists (none, another variable, an option before a variable, `APP_PLATFORM=android-24`, `APP_ABI=x86`), 1 or 8 CPUs, both hosts, both runners and both exit statuses: 168,960 states.
- The tests are chosen so that every classification happens:
  - `t1` is unsupported on API 24 (`Skipped`);
  - `t2` is broken on API 30 (`ExpectedFailure` or `UnexpectedSuccess`);
  - `t2` and `t3` are thread tests, so they are flaky;
  - the API-24 configuration runs on both groups, giving 4 test runs.
- Device outcomes range over `pass`, `fail`, `lost` and `raise`, so a TaskError can occur in either drain.
- `Requested` includes a missing configuration, so `--require-all-devices` takes the early-failure branch. The coverage run uses only present configurations.
- Both flags are chosen in `Init`: `requireAllDevices` and `cleanDevice`.
- Discovery: every subset of 8 files (256 dist trees) × 3 filters × both hosts. Every branch of the scans happens: skipped `.so`, `.sh` and `.dat` files, a libc++ test at the top and one below it (the case where the two names differ), a configuration `ConfigFilter` rejects, an unscanned build system, and an empty result under each flag combination. Trees where a suite lacks its ABI directory, or a `.exe` lies outside `libc++/`, are left out: the builders (`NDK_LIBS_OUT=<dist>/<cfg>/<system>/<test>`, cmake's `<dist dir>/<abi>`) and lit never write them. So the raise branches of the scans are modelled but not reached.
- Pure algorithms: 4 graph nodes (every graph on them), 6 cmake versions (below, at, and above 3.6, a two-digit minor, a new major, no patch number), up to 2 xunit cases over 4 test paths, and every standalone-toolchain command line over the 4 architectures and API levels 14, 16, 21, 23 and 24 (below, at and above each minimum and the x86 boundary).

## Fairness

- The driver is a single process that only blocks in `get_result`, so it gets weak fairness (`WF_vars(DriverStep)`).
- Each worker process loops taking and running tasks while the queue is open: `WF` on `WorkerGet(w)` and `RunTest(w)`, and on `PrepRunTask` for the default queue.
- The fairness on `RunTest` assumes a device command returns. Spec §5 says a hung device command stalls its worker forever, and nothing in the code times it out. The hang is modelled as a bounded fault, `Hang(w)`:
  - `MaxHangs = 0` in the main run, where `Terminates` holds for devices that answer;
  - `MaxHangs = 1` in `run_tests_hang`.
- A hung worker takes no further step, because `RunTest(w)` is disabled for it. The others keep their weak fairness.
- `RunTestsMain` has no fairness; its properties are safety. Its deadlock check is off because the process exits: `exited` has no successor.
- Deadlock checking is off in the main run because the process ends. `Terminates` is what rules out getting stuck before the end.

## What is not modelled

- The build itself (`ndk.test.builder`, not under `src/`): its outcome is two `Args` fields. The dist tree discovery reads is chosen independently of it. `get_config_dict` (reads a JSON file), `str_to_bool`, logging set-up, timers and `add_timing_report`, which change nothing the runner reads.
- The Progress UI (`src/ndk/test/ui.py`), which only reads state.
- `disable_verity_and_wait_for_reboot`, which is never called.
- The file copying of `make_standalone_toolchain.py`, its clang version suffix and wrapper script text, and `warn_unnecessary`; the test scripts under `src/tests`.
- The test.py runner, which loads and calls the test's own module. The output of the build processes and `_prep_build_dir`'s copying. Only the argv, environment and exit status of a build are modelled.
- `src/ndk/config.py`: four constants and a release string formatted once at import. It has no state, no input and no interleaving to explore.
- In `RunTests`, discovery's outcome is the constants `TestCases` and `TestConfig`. The walk itself is checked in `RunTestsMain`. `enumerate_tests` can create an empty list for a configuration directory without tests; `RunTests` only has configurations that have tests. The directories inside an ABI directory, which `os.listdir` would also return as test files, are not in the candidate trees.
- Stale test directories on a device without `--clean-device`. Every push task must succeed before any test is submitted (`PushedBeforeRun`). A test runs only from the directory its own files were pushed to (`DiscoveredAsPushed`), so stale content elsewhere is never run.
- Device discovery, which also uses the default work queue. Its outcome is the fleet constants.
- The number of workers in the default work queue. Any pending task may finish next; the tasks are independent, so which worker ran a task is not visible.

## Plan for later work

- The push phase's per-(config, group, device) tasks against spec §4.1's "one push task per device". Concurrent pushes to one device through the default queue.
- The build phase over `ndk.test.builder`, which is not in `src/`.
- A hang in the preparation phase (clearing and pushing over the default queue). Its `join()` would block the same way.
