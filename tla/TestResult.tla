----------------------------- MODULE TestResult -----------------------------
(***************************************************************************)
(* How one execution of a TestRun on a device becomes a result, and the    *)
(* Report operations the driver applies to results.                        *)
(*                                                                         *)
(* src/ndk/run_tests.py: TestRun.run, make_result, fixup_xfail,            *)
(* shell_nocheck_wrap_errors, the check_unsupported / check_broken of the  *)
(* two TestCase variants, and flake_filter.  The result classes            *)
(* (ndk.test.result) and the Report (ndk.test.report) are not under src/   *)
(* and are modelled from spec.md sections 3 and 4.6.                       *)
(*                                                                         *)
(* A test run is a pair <<test case, device group>>.  A test case's        *)
(* unsupported and broken declarations depend on its build configuration   *)
(* (fixed per test case) and on the device's API level, so they are given  *)
(* as sets of <<test case, API level>> pairs.                              *)
(***************************************************************************)
EXTENDS Naturals, Sequences

CONSTANTS Unsupported,  \* <<t, version>>: check_unsupported(device) is not None
          Broken,       \* <<t, version>>: check_broken(device) returns a config
          ThreadTests   \* test cases named libc++.libcxx/thread* or libc++.std/thread*

(* What device.shell_nocheck does when the test executable is run:         *)
(*   "pass"  exit status 0;                                                *)
(*   "fail"  non-zero exit status, or a RuntimeError of the transport      *)
(*           that shell_nocheck_wrap_errors turns into status 1;           *)
(*   "lost"  adb returned no exit status: the RuntimeError 'Could not find *)
(*           exit status in shell output.' wrapped into status 1, so the   *)
(*           flake marker is in the failure message;                       *)
(*   "raise" an exception that is not a RuntimeError: it escapes the task  *)
(*           and the worker reports a TaskError instead of a result.       *)
Outcomes == {"pass", "fail", "lost", "raise"}

Kinds == {"Success", "Failure", "Skipped", "ExpectedFailure", "UnexpectedSuccess"}

\* A result: its test run, its class, and whether its message holds the marker.
Result(run, kind, marker) == [run |-> run, kind |-> kind, marker |-> marker]

\* ndk.test.result: failed() holds for Failure and UnexpectedSuccess.
Failed(r) == r.kind \in {"Failure", "UnexpectedSuccess"}

\* check_unsupported / check_broken of BasicTestCase and LibcxxTestCase.
CheckUnsupported(run, version) == <<run[1], version>> \in Unsupported
CheckBroken(run, version) == <<run[1], version>> \in Broken

(* shell_nocheck_wrap_errors and the (status, out) it yields: status 0 only *)
(* for "pass"; the wrapped RuntimeError of "lost" puts the marker in out.  *)
ShellNocheckWrapErrors(outcome) ==
    [status |-> IF outcome = "pass" THEN 0 ELSE 1, marker |-> outcome = "lost"]

\* Mutant: the two branches of fixup_xfail exchanged.
FixupXfailSwapped(run, version, result) ==
    IF CheckBroken(run, version)
    THEN IF Failed(result)
         THEN Result(run, "UnexpectedSuccess", FALSE)
         ELSE Result(run, "ExpectedFailure", FALSE)
    ELSE result

\* TestRun.fixup_xfail: a broken declaration turns fail into an expected
\* failure and pass into an unexpected success.
FixupXfail(run, version, result) ==
    IF CheckBroken(run, version)
    THEN IF Failed(result)
         THEN Result(run, "ExpectedFailure", FALSE)
         ELSE Result(run, "UnexpectedSuccess", FALSE)
    ELSE result

\* TestRun.make_result: status 0 is Success, anything else a Failure
\* whose message is the device name and the command output.
MakeResult(run, version, adb) ==
    FixupXfail(run, version,
               IF adb.status = 0 THEN Result(run, "Success", FALSE)
                                 ELSE Result(run, "Failure", adb.marker))

\* TestRun.run: an unsupported test is Skipped without touching the device;
\* otherwise the test case runs (BasicTestCase.run / LibcxxTestCase.run).
TestRunRun(run, version, outcome) ==
    IF CheckUnsupported(run, version)
    THEN Result(run, "Skipped", FALSE)
    ELSE MakeResult(run, version, ShellNocheckWrapErrors(outcome))

\* Mutant: flake_filter without its "no flaky successes" early return.
FlakeFilterAnyFailed(r) == r.marker \/ r.run[1] \in ThreadTests

\* flake_filter: never an UnexpectedSuccess; a lost exit status or a
\* timing-sensitive libc++ thread test.
FlakeFilter(r) ==
    /\ r.kind # "UnexpectedSuccess"
    /\ r.marker \/ r.run[1] \in ThreadTests

\* ndk.test.report.Report.remove_all_failing_flaky: the failing results the
\* filter accepts are taken out; the rest stay in their order.
IsFailingFlaky(r) == Failed(r) /\ FlakeFilter(r)
RemoveAllFailingFlaky(report) ==
    LET keep(r) == ~IsFailingFlaky(r) IN SelectSeq(report, keep)
FailingFlaky(report) == SelectSeq(report, IsFailingFlaky)

\* Report.successful: no contained result failed.
Successful(report) == \A i \in DOMAIN report : ~Failed(report[i])

(* The classification spec.md section 8 states, used as the reference the  *)
(* code's classification is checked against: unsupported wins, then a      *)
(* broken declaration inverts the raw verdict.                             *)
SpecKind(unsupported, broken, rawPassed) ==
    CASE unsupported           -> "Skipped"
      [] broken /\ rawPassed   -> "UnexpectedSuccess"
      [] broken /\ ~rawPassed  -> "ExpectedFailure"
      [] rawPassed             -> "Success"
      [] OTHER                 -> "Failure"
=============================================================================
