------------------------- MODULE LifecycleContract -------------------------
(***************************************************************************)
(* What both memory clients promise of initialize() and close(), without   *)
(* threads, tasks or locks.  One run at a time decides the outcome of an   *)
(* initialization; success makes the providers of that run the client's;   *)
(* failure is final and keeps its original error; a successful lifecycle   *)
(* can be closed and opened again.                                         *)
(***************************************************************************)
CONSTANTS Runs, None

VARIABLES phase,  \* "fresh", "ready" or "failed"
          by      \* the run whose providers serve, or whose error is sticky

vars == <<phase, by>>

Init == phase = "fresh" /\ by = None

Succeed(r) == phase = "fresh" /\ phase' = "ready" /\ by' = r

Fail(r) == phase = "fresh" /\ phase' = "failed" /\ by' = r

CloseReady == phase = "ready" /\ phase' = "fresh" /\ by' = None

Next == CloseReady \/ \E r \in Runs : Succeed(r) \/ Fail(r)

Spec == Init /\ [][Next]_vars
=============================================================================
