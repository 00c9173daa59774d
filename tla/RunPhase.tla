------------------------------ MODULE RunPhase ------------------------------
(***************************************************************************)
(* What the part of run_tests() from device discovery on promises its      *)
(* caller: it either returns after recording exactly one verdict in its    *)
(* Results object, or an exception (a TaskError re-raised by get_result)   *)
(* leaves it with no verdict recorded.  RunTests implements this, and      *)
(* RunTestsMain composes it with the checks before it and with main().     *)
(***************************************************************************)
VARIABLES rpPhase,  \* "running", "returned" or "raised"
          success   \* Results.success: "none", "passed" or "failed"

Init == rpPhase = "running" /\ success = "none"

\* results.passed() or results.failed(), then return results.
Return ==
    /\ rpPhase = "running"
    /\ success = "none"
    /\ rpPhase' = "returned"
    /\ success' \in {"passed", "failed"}

\* An exception leaves run_tests() before any verdict.
Raise ==
    /\ rpPhase = "running"
    /\ rpPhase' = "raised"
    /\ UNCHANGED success

Next == Return \/ Raise

Spec == Init /\ [][Next]_<<rpPhase, success>>
=============================================================================
