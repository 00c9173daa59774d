-------------------------- MODULE WorkQueueContract --------------------------
(***************************************************************************)
(* What a work queue promises its single client (spec.md sections 4.2 and  *)
(* 4.3): every task added is completed exactly once, in any order, no      *)
(* completion is invented, and nothing happens after terminate().  The     *)
(* queue holds a bag because the same task may be added again (a flaky    *)
(* retry re-adds its TestRun).  `awaited` is what the client counts: the   *)
(* answers it still expects.  An answer that is an error (a TaskError)     *)
(* consumes its task without being counted, so the client's count is then  *)
(* stale and it must stop using the queue.                                 *)
(***************************************************************************)
EXTENDS Naturals, Bags

CONSTANT Tasks

VARIABLES outstanding,  \* bag of tasks added and not yet answered
          awaited,      \* answers the client still counts on
          open          \* terminate() not yet called

vars == <<outstanding, awaited, open>>

Init == outstanding = EmptyBag /\ awaited = 0 /\ open = TRUE

Add(t) ==
    /\ open
    /\ outstanding' = outstanding (+) SetToBag({t})
    /\ awaited' = awaited + 1
    /\ UNCHANGED open

Complete(t) ==
    /\ open
    /\ BagIn(t, outstanding)
    /\ outstanding' = outstanding (-) SetToBag({t})
    /\ awaited' = awaited - 1
    /\ UNCHANGED open

Fail(t) ==
    /\ open
    /\ BagIn(t, outstanding)
    /\ outstanding' = outstanding (-) SetToBag({t})
    /\ UNCHANGED <<awaited, open>>

Close == open /\ open' = FALSE /\ UNCHANGED <<outstanding, awaited>>

Next == (\E t \in Tasks : Add(t) \/ Complete(t) \/ Fail(t)) \/ Close

Spec == Init /\ [][Next]_vars
=============================================================================
