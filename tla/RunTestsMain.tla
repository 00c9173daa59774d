---------------------------- MODULE RunTestsMain ----------------------------
(***************************************************************************)
(* main() and run_tests() of src/ndk/run_tests.py up to device discovery:  *)
(* the test and source directory checks, the --build-only/--rebuild build, *)
(* the early returns when nothing was built or found, the Results object   *)
(* (whose passed() and failed() raise ValueError when a verdict is already *)
(* recorded), and main's RuntimeError and exit status.  From device        *)
(* discovery on, run_tests() is the abstract RunPhase, which RunTests is   *)
(* checked to implement (ImplementsRunPhase).                               *)
(*                                                                         *)
(* The build is its outcome: how many tests were built (none or some) and *)
(* whether the build report is successful.  The discovery is TestDiscovery *)
(* over the dist directory and --filter found at that step.  Timers,      *)
(* printing and the notification are left out.                            *)
(***************************************************************************)
EXTENDS Integers, FiniteSets

CONSTANTS ConfigAbi, RunAbis, DeviceTestBaseDir,  \* see TestDiscovery
          DistTrees,  \* the dist directories a build can leave
          Filters     \* --filter patterns

VARIABLES args,       \* the parsed command line and what the file system holds
          pc,         \* where main()/run_tests() is
          success,    \* Results.success: "none", "passed" or "failed"
          runPhase,   \* the RunPhase state of the part from device discovery on
          exitStatus, \* the process's exit status, once it exits
          discovery   \* the dist tree and filter enumerate_tests saw, and its result

vars == <<args, pc, success, runPhase, exitStatus, discovery>>

TD == INSTANCE TestDiscovery

\* parse_args: --rebuild and --build-only are mutually exclusive; the test
\* directory, the given or default source directory, what the build will
\* do, and the host (os.sep is what os.path.join puts between names).
Args ==
    { a \in [testDirExists: BOOLEAN, rebuild: BOOLEAN, buildOnly: BOOLEAN,
             testSrcGiven: BOOLEAN, testSrcExists: BOOLEAN,
             numBuilt: {0, 1}, buildOk: BOOLEAN, sep: {"/", "\\"}] :
        ~(a.rebuild /\ a.buildOnly) }

RP == INSTANCE RunPhase WITH rpPhase <- runPhase

(* Results.passed()/failed() followed by `return results`: a second       *)
(* verdict raises ValueError out of run_tests() instead.                   *)
SetVerdict(v) ==
    IF success = "none" THEN success' = v /\ pc' = "returned"
    ELSE UNCHANGED success /\ pc' = "raised"

Init ==
    /\ args \in Args
    /\ pc = "start"
    /\ success = "none"
    /\ RP!Init
    /\ exitStatus = -1
    /\ discovery = [done |-> FALSE, dist |-> {}, filter |-> "*", result |-> [raised |-> FALSE, groups |-> <<>>]]

\* The test directory must exist unless the tests are about to be built.
CheckTestDir ==
    /\ pc = "start"
    /\ IF args.testDirExists \/ args.rebuild \/ args.buildOnly
       THEN pc' = "src" /\ UNCHANGED exitStatus
       ELSE pc' = "exited" /\ exitStatus' = 1
    /\ UNCHANGED <<args, success, runPhase, discovery>>

\* --test-src defaults to ./tests, which must exist.
CheckTestSrc ==
    /\ pc = "src"
    /\ IF ~args.testSrcGiven /\ ~args.testSrcExists
       THEN pc' = "exited" /\ exitStatus' = 1
       ELSE pc' = "build" /\ UNCHANGED exitStatus
    /\ UNCHANGED <<args, success, runPhase, discovery>>

\* Mutant: the failed build falls through instead of returning.
BuildTestsNoReturn ==
    /\ pc = "build"
    /\ IF (args.buildOnly \/ args.rebuild) /\ (args.numBuilt = 0 \/ ~args.buildOk)
       THEN success' = "failed" ELSE UNCHANGED success
    /\ pc' = "buildonly"
    /\ UNCHANGED <<args, runPhase, exitStatus, discovery>>

\* build_tests under --build-only or --rebuild: no tests, or an unsuccessful
\* report, fails the run.
BuildTests ==
    /\ pc = "build"
    /\ IF (args.buildOnly \/ args.rebuild) /\ (args.numBuilt = 0 \/ ~args.buildOk)
       THEN SetVerdict("failed")
       ELSE pc' = "buildonly" /\ UNCHANGED success
    /\ UNCHANGED <<args, runPhase, exitStatus, discovery>>

\* --build-only stops after a good build.
BuildOnly ==
    /\ pc = "buildonly"
    /\ IF args.buildOnly THEN SetVerdict("passed")
       ELSE pc' = "discover" /\ UNCHANGED success
    /\ UNCHANGED <<args, runPhase, exitStatus, discovery>>

\* Mutant: nothing to run passes whatever was built.
DiscoverTestsAlwaysPass ==
    /\ pc = "discover"
    /\ \E d \in DistTrees, p \in Filters :
         LET r == TD!EnumerateTests(d, p, args.sep) IN
         /\ discovery' = [done |-> TRUE, dist |-> d, filter |-> p, result |-> r]
         /\ CASE r.raised                  -> pc' = "raised" /\ UNCHANGED success
               [] TD!NumTests(r.groups) = 0 -> SetVerdict("passed")
               [] OTHER                     -> pc' = "devices" /\ UNCHANGED success
    /\ UNCHANGED <<args, runPhase, exitStatus>>

\* enumerate_tests over the dist directory with --filter: a raise leaves
\* run_tests; nothing found is a pass after --rebuild ("as long as we built
\* some tests"), a failure otherwise.
DiscoverTests ==
    /\ pc = "discover"
    /\ \E d \in DistTrees, p \in Filters :
         LET r == TD!EnumerateTests(d, p, args.sep) IN
         /\ discovery' = [done |-> TRUE, dist |-> d, filter |-> p, result |-> r]
         /\ CASE r.raised                  -> pc' = "raised" /\ UNCHANGED success
               [] TD!NumTests(r.groups) = 0 -> SetVerdict(IF args.rebuild THEN "passed" ELSE "failed")
               [] OTHER                     -> pc' = "devices" /\ UNCHANGED success
    /\ UNCHANGED <<args, runPhase, exitStatus>>

\* Device discovery to the verdict: one step of the abstract RunPhase.
RunDevicesAndTests ==
    /\ pc = "devices"
    /\ RP!Next
    /\ pc' = IF runPhase' = "raised" THEN "raised" ELSE "returned"
    /\ UNCHANGED <<args, exitStatus, discovery>>

\* main: a Results without a verdict is a RuntimeError; otherwise
\* sys.exit(not good).
Main ==
    /\ pc = "returned"
    /\ pc' = IF success = "none" THEN "runtimeerror" ELSE "exited"
    /\ exitStatus' = IF success = "passed" THEN 0 ELSE 1
    /\ UNCHANGED <<args, success, runPhase, discovery>>

\* An exception out of run_tests() or main() ends the interpreter with 1.
Traceback ==
    /\ pc \in {"raised", "runtimeerror"}
    /\ pc' = "exited"
    /\ exitStatus' = 1
    /\ UNCHANGED <<args, success, runPhase, discovery>>

Next ==
    \/ CheckTestDir \/ CheckTestSrc \/ BuildTests \/ BuildOnly \/ DiscoverTests
    \/ RunDevicesAndTests \/ Main \/ Traceback

Spec == Init /\ [][Next]_vars

----------------------------------------------------------------------------
(* Results is used as main() expects on every path through run_tests():   *)
(* main never finds it without a verdict (RuntimeError), no path records a *)
(* second verdict (ValueError from passed()/failed()), so the only         *)
(* exception is the one RunPhase raises, and the exit status is 0 exactly  *)
(* when the recorded verdict is a pass.                                    *)
ResultsUsedOnce ==
    [][ /\ pc' # "runtimeerror"
        /\ pc' = "raised" => runPhase' = "raised" \/ discovery'.result.raised
        /\ (pc' = "exited" /\ pc # "exited") => (exitStatus' = 0 <=> success' = "passed")
      ]_vars

(* The process never exits 0 having neither built nor run anything: a     *)
(* pass is a successful build of some tests under --build-only/--rebuild,  *)
(* or the verdict of the device run.                                       *)
NoVacuousPass ==
    (pc = "exited" /\ exitStatus = 0) =>
        \/ (args.buildOnly \/ args.rebuild) /\ args.numBuilt > 0 /\ args.buildOk
        \/ runPhase = "returned"

\* The tests enumerate_tests found, over all configurations.
Found == UNION {discovery.result.groups[c] : c \in DOMAIN discovery.result.groups}

(* Discovery finds exactly what the push puts on the devices for running: *)
(* the tests run_tests counts and runs are one per runnable file of the    *)
(* dist directory (spec.md 4.4's layout, ConfigFilter and --filter), each  *)
(* filed under the configuration whose directory holds it, and each runs   *)
(* in the device directory push_tests_to_devices copied that file to.      *)
DiscoveredAsPushed ==
    discovery.done /\ ~discovery.result.raised =>
        /\ {t.exe : t \in Found} = TD!Runnable(discovery.dist, discovery.filter)
        /\ TD!NumTests(discovery.result.groups) = Cardinality(TD!Runnable(discovery.dist, discovery.filter))
        /\ \A c \in DOMAIN discovery.result.groups : \A t \in discovery.result.groups[c] :
              /\ t.config = c /\ t.exe.dir[1] = c
              /\ t.deviceDir = TD!PushedTo(t.exe)

(* enumerate_libcxx_tests and LibcxxTestCase ("remove that so it matches  *)
(* the filter that would be used to build the test"): the name a test is  *)
(* reported under is the name --filter selected it by, so the same filter *)
(* string selects a test for building and for running.                     *)
NameMatchesFilter ==
    discovery.done /\ ~discovery.result.raised =>
        \A t \in Found : t.name = TD!RefName(t.exe)
=============================================================================
