----------------------------- MODULE MCRunTests -----------------------------
(***************************************************************************)
(* The fleet of spec.md section 8: group {d1, d2} of android-24 arm64      *)
(* devices and group {d3} of one android-30 arm64 device.  The config file *)
(* also requests an android-21 x86 device that is not attached, so         *)
(* --require-all-devices decides whether the run goes on.                  *)
(*   t1  built for (arm64, 24), unsupported on API 24: Skipped on d1/d2.   *)
(*   t2  built for (arm64, 28), a libc++ thread test declared broken on    *)
(*       API 30: only group {d3} may run it.                               *)
(*   t3  built for (arm64, 28), a libc++ thread test: only on {d3}.        *)
(***************************************************************************)
EXTENDS RunTests

CONSTANTS d1, d2, d3, t1, t2, t3, t4

MCDevices == {d1, d2, d3}
MCVersion == [d \in MCDevices |-> IF d = d3 THEN 30 ELSE 24]
MCDeviceAbis == [d \in MCDevices |-> {"arm64"}]
MCRequested == {[version |-> 24, abi |-> "arm64"], [version |-> 30, abi |-> "arm64"],
                [version |-> 21, abi |-> "x86"]}
MCTestCases == {t1, t2, t3}
MCTestConfig == [t \in {t1, t2, t3, t4} |->
                   [abi |-> "arm64", api |-> CASE t = t1 -> 24 [] t = t4 -> 31 [] OTHER -> 28]]
MCUnsupported == {<<t1, 24>>}
MCBroken == {<<t2, 30>>}
MCThreadTests == {t2, t3}

(* For EveryTestRunAtLeastOnce: every requested device is attached, and    *)
(* t4 is built for (arm64, 31), which no attached device can run.          *)
MCRequestedPresent == {[version |-> 24, abi |-> "arm64"], [version |-> 30, abi |-> "arm64"]}
MCTestCasesUnmatched == {t1, t4}
=============================================================================
