------------------------------- MODULE Shutdown -------------------------------
(***************************************************************************)
(* What the rest of the BTS may rely on of a shutdown: one is in progress  *)
(* or not; asking for another while it is can only turn it into one that   *)
(* ends the process; it ends by itself.  BtsShutdown shows that the FSM of *)
(* common/bts_shutdown_fsm.c does this, and AbisLink that its picture of   *)
(* the shutdown is this one.                                               *)
(***************************************************************************)
VARIABLES
    inProgress,   \* bts_shutdown_in_progress()
    exit,         \* is the process to end with it?
    process       \* "running", "exited" as asked, or "failed" for another reason

vars == <<inProgress, exit, process>>

Init == inProgress = FALSE /\ exit = FALSE /\ process = "running"

\* A shutdown is asked for.  With nothing to close it is over at once.
Ask(toExit) ==
    /\ process = "running"
    /\ exit' = (toExit \/ (inProgress /\ exit))
    /\ \/ inProgress' = TRUE /\ process' = process
       \/ ~inProgress /\ inProgress' = FALSE /\ process' = IF toExit THEN "exited" ELSE process

End ==
    /\ process = "running" /\ inProgress
    /\ inProgress' = FALSE
    /\ process' = IF exit THEN "exited" ELSE process
    /\ UNCHANGED exit

Fail == process = "running" /\ process' = "failed" /\ UNCHANGED <<inProgress, exit>>

Next == (\E toExit \in BOOLEAN : Ask(toExit)) \/ End \/ Fail

Spec == Init /\ [][Next]_vars

\* Fairness of End, said without ENABLED.
Ends == (inProgress /\ process = "running") ~> (~inProgress \/ process # "running")
=============================================================================
