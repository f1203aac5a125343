----------------------------- MODULE MCExecutor -----------------------------
(* Instances of Timer, and with it of Executor, for TLC: TCBs are small addresses. *)
EXTENDS Timer

\* Three deadlines for four threads: 1 and 2 tie behind 3, 4 has no context.
MCSchedContext ==
    [t \in Tcb |-> CASE t \in {1, 2} -> 2 [] t = 3 -> 1 [] OTHER -> None]
=============================================================================
