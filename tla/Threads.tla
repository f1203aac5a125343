------------------------------ MODULE Threads -------------------------------
(***************************************************************************)
(* kernel/src/objects/tcb.rs: thread states, and TcbQueue, a doubly linked *)
(* list of TCBs threaded through Tcb::ep_next and Tcb::ep_prev.  The       *)
(* methods of TcbQueue are functions on a record q: the head and the tail  *)
(* of one queue, and the link fields next and prev of all the TCBs.        *)
(***************************************************************************)
EXTENDS Naturals, Sequences, FiniteSets

CONSTANTS
    Tcb,   \* addresses of the thread control blocks
    None   \* Option::None

ASSUME TcbAssumption == /\ Tcb \subseteq Nat
                        /\ IsFiniteSet(Tcb)
                        /\ None \notin Tcb

\* Ready, RunningVm and Idle are never assigned; Restart is overwritten by
\* Inactive in the same function once the scheduler exists.
Blocked == {"BlockedOnReceive", "BlockedOnSend", "BlockedOnReply",
            "BlockedOnNotification"}
ThreadState == {"Inactive", "Running"} \cup Blocked

is_empty(q) == q.head = None

\* An append that puts the thread in front.
AppendFront(q, t) ==
    [head |-> t,
     tail |-> IF q.tail = None THEN t ELSE q.tail,
     next |-> [q.next EXCEPT ![t] = q.head],
     prev |-> [(IF q.head = None THEN q.prev ELSE [q.prev EXCEPT ![q.head] = t])
                  EXCEPT ![t] = None]]

\* append.  Contract: t is in no queue.
append(q, t) ==
    LET cleared == [q.next EXCEPT ![t] = None]
    IN  [head |-> IF q.tail = None THEN t ELSE q.head,
         tail |-> t,
         next |-> IF q.tail = None THEN cleared
                  ELSE [cleared EXCEPT ![q.tail] = t],
         prev |-> [q.prev EXCEPT ![t] = q.tail]]

\* dequeue_head on a queue that is not empty; the caller reads q.head first.
dequeue_head(q) ==
    LET h == q.head
        n == q.next[h]
        unlinked == IF n = None THEN q.prev ELSE [q.prev EXCEPT ![n] = None]
    IN  [head |-> n,
         tail |-> IF n = None THEN None ELSE q.tail,
         next |-> [q.next EXCEPT ![h] = None],
         prev |-> [unlinked EXCEPT ![h] = None]]

\* A remove that repairs the forward link and forgets the backward one.
RemoveForwardOnly(q, t) ==
    LET p == q.prev[t]
        n == q.next[t]
    IN  [head |-> IF p = None THEN n ELSE q.head,
         tail |-> IF n = None THEN p ELSE q.tail,
         next |-> [(IF p = None THEN q.next ELSE [q.next EXCEPT ![p] = n])
                      EXCEPT ![t] = None],
         prev |-> [q.prev EXCEPT ![t] = None]]

\* remove.  Contract: t is in this queue.
remove(q, t) ==
    LET p == q.prev[t]
        n == q.next[t]
        forward  == IF p = None THEN q.next ELSE [q.next EXCEPT ![p] = n]
        backward == IF n = None THEN q.prev ELSE [q.prev EXCEPT ![n] = p]
    IN  [head |-> IF p = None THEN n ELSE q.head,
         tail |-> IF n = None THEN p ELSE q.tail,
         next |-> [forward EXCEPT ![t] = None],
         prev |-> [backward EXCEPT ![t] = None]]

\* A link field: Option<NonNull<Tcb>>.
Link == Tcb \cup {None}

\* As far as Follow goes: one step more than there are TCBs, so that a cycle
\* shows as a repetition.
FarEnough == Cardinality(Tcb) + 1

\* The TCBs met when the next links are followed from TCB t.
Follow(next, t) ==
    LET walk[n \in 0 .. FarEnough] ==
            [u \in Link |-> IF u = None \/ n = 0 THEN <<>>
                           ELSE <<u>> \o walk[n - 1][next[u]]]
    IN  walk[FarEnough][t]

\* q is a well-formed list: no cycle, the tail is the last TCB met, and the
\* prev links run the same way back.
WellLinked(q) ==
    LET s == Follow(q.next, q.head)
    IN  /\ \A i, j \in 1 .. Len(s) : s[i] = s[j] => i = j
        /\ q.tail = IF s = <<>> THEN None ELSE s[Len(s)]
        /\ \A i \in 1 .. Len(s) :
               q.prev[s[i]] = IF i = 1 THEN None ELSE s[i - 1]
=============================================================================
