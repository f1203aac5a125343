---------------------------- MODULE FifoEndpoint ----------------------------
(***************************************************************************)
(* What an endpoint promises, without pointers: the threads that wait on   *)
(* it form one sequence, all senders or all receivers, in the order in     *)
(* which they came.  Only the first is served; any other leaves only by    *)
(* cancellation, which shows in `blocking`, and the rest keep their order. *)
(***************************************************************************)
EXTENDS Naturals, Sequences

CONSTANTS Tcb, EP, None

VARIABLES
    waiting,  \* waiting[e]: the threads queued on endpoint e
    kind,     \* kind[e]: what they wait for, "Idle" when there is none
    blocking  \* blocking[t]: the endpoint t queued on last, None if cancelled

fifoVars == <<waiting, kind, blocking>>

FifoInit == /\ waiting = [e \in EP |-> <<>>]
            /\ kind = [e \in EP |-> "Idle"]
            /\ blocking = [t \in Tcb |-> None]

\* t is queued on e.
Queued(t, e) == \E i \in 1 .. Len(waiting[e]) : waiting[e][i] = t

\* s without its i-th element.
Without(s, i) == [j \in 1 .. Len(s) - 1 |-> IF j < i THEN s[j] ELSE s[j + 1]]

Keep(e, s) == /\ waiting' = [waiting EXCEPT ![e] = s]
              /\ kind' = IF s = <<>> THEN [kind EXCEPT ![e] = "Idle"] ELSE kind

Join(e, t, k) ==
    /\ blocking' = [blocking EXCEPT ![t] = e]
    /\ kind[e] \in {"Idle", k}
    /\ kind' = [kind EXCEPT ![e] = k]
    /\ \A f \in EP : ~ Queued(t, f)
    /\ waiting' = [waiting EXCEPT ![e] = Append(@, t)]

Serve(e) == /\ UNCHANGED blocking
            /\ waiting[e] # <<>>
            /\ Keep(e, Tail(waiting[e]))

Cancel(e, t) == /\ blocking' = [blocking EXCEPT ![t] = None]
                /\ \E i \in 1 .. Len(waiting[e]) :
                       /\ waiting[e][i] = t
                       /\ Keep(e, Without(waiting[e], i))

FifoNext == \E e \in EP :
                \/ Serve(e)
                \/ \E t \in Tcb : \/ Cancel(e, t)
                                  \/ \E k \in {"Send", "Recv"} : Join(e, t, k)

FifoSpec == FifoInit /\ [][FifoNext]_fifoVars
=============================================================================
