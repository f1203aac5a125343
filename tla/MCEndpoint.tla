----------------------------- MODULE MCEndpoint -----------------------------
(* Instances of Endpoint for TLC. *)
EXTENDS Endpoint, TLC

\* Distinct deadlines; the last thread has no scheduling context.
MCSchedContext == [t \in Tcb |-> IF t = Cardinality(Tcb) THEN None ELSE t]

MCPlain == [is_call |-> FALSE, grant |-> FALSE]
MCSends == {MCPlain}
MCCalls == {MCPlain, [is_call |-> TRUE, grant |-> TRUE],
            [is_call |-> TRUE, grant |-> FALSE]}

\* Endpoints are interchangeable.
EPSymmetry == Permutations(EP)

\* The queues under sends, receives and cancellations only: no yield, no
\* notification, no idle thread, and every new thread made Inactive at boot.
\* The timer is left out: here Tick reaches no state that Switch does not.
QueueNext == \/ \E t \in Tcb : Resume(t)
             \/ /\ current # None \/ \A t \in Tcb : state[t] # "Running"
                /\ Switch \/ Send \/ Receive \/ CancelCalls \/ LoopStep

QueueSpec == Init /\ [][QueueNext]_vars
=============================================================================
