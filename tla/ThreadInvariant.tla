-------------------------- MODULE ThreadInvariant ---------------------------
(***************************************************************************)
(* The inductive invariants of Executor and of Endpoint, and what the      *)
(* proofs say of a step.                                                   *)
(***************************************************************************)
EXTENDS Endpoint, Integers

(***************************************************************************)
(* What the proofs need of numbers and finite sets.  Their lemmas take it  *)
(* as a hypothesis; lemma CountingFacts of SchedulingProofs proves it from *)
(* the library.                                                            *)
(***************************************************************************)
Counting ==
    /\ \A T \in SUBSET Nat : T # {} => \E x \in T : \A y \in T : x <= y
    /\ Cardinality(Tcb) \in Nat
    /\ \A n \in Nat : \A s \in Injection(1 .. n, Tcb) : n <= Cardinality(Tcb)
    /\ \A t \in Tcb : \A S : \A f \in Injection(S, Tcb \ {t}) :
           Cardinality(S) \in Nat /\ Cardinality(S) < Cardinality(Tcb)

(***************************************************************************)
(* TcbQueue: what its pointers stand for is a sequence without repetition. *)
(***************************************************************************)
Links == [Tcb -> Tcb \cup {None}]

\* Place i of s, None past its end.
At(s, i) == IF i \in 1 .. Len(s) THEN s[i] ELSE None

\* The next links lead from h through the elements of s and no further.
Chain(next, h, s) ==
    /\ next \in Links
    /\ s \in Seq(Tcb)
    /\ \A i, j \in 1 .. Len(s) : s[i] = s[j] => i = j
    /\ h = At(s, 1)
    /\ \A i \in 1 .. Len(s) : next[s[i]] = At(s, i + 1)

\* Queue record q is a doubly linked list of the elements of s.
Linked(q, s) ==
    /\ Chain(q.next, q.head, s)
    /\ q.prev \in Links
    /\ q.tail = At(s, Len(s))
    /\ \A i \in 1 .. Len(s) : q.prev[s[i]] = At(s, i - 1)

\* s without its element at place i.
Without(s, i) == [j \in 1 .. Len(s) - 1 |-> IF j < i THEN s[j] ELSE s[j + 1]]

\* The elements of s from place k on.
From(s, k) == [i \in 1 .. Len(s) + 1 - k |-> s[i + k - 1]]

In(t, s) == \E i \in 1 .. Len(s) : s[i] = t

\* One more step of the walk of Follow, given the walks w of one step less.
Further(next, n, w) == [u \in Tcb \cup {None} |->
                          IF u = None \/ n = 0 THEN <<>> ELSE <<u>> \o w[next[u]]]

(***************************************************************************)
(* Executor, on the three pieces of state a switch moves a thread between: *)
(* its state, the heap and the CPU.                                        *)
(***************************************************************************)
\* A heap in which no thread has two entries.
Simple(heap) ==
    /\ heap \in [DOMAIN heap -> {1}]
    /\ DOMAIN heap \subseteq Entry
    /\ \A e, f \in DOMAIN heap : e.tcb = f.tcb => e = f

Consistent(st, h, cur) ==
    /\ st \in [Tcb -> ThreadState]
    /\ cur \in Entry \cup {None}
    /\ Simple(h)
    /\ cur # None => cur.tcb \notin ReadyTcbs(h)
    /\ \A e \in DOMAIN h : st[e.tcb] = "Inactive"

\* The thread on the CPU is Running.
Agree(st, cur) == cur # None => st[cur.tcb] = "Running"

\* States st and entry cur, in which the scheduler is called: nobody has become
\* Running, and nobody who is has been taken off the CPU.
Handed(st, cur) ==
    \A t \in Tcb : st[t] = "Running" =>
        /\ state[t] = "Running"
        /\ OnCpu(t) => cur # None /\ cur.tcb = t

Enough == Cardinality(Tcb) <= MAX_TCB_PER_CORE

ExecInv ==
    /\ ticks_consumed \in [Tcb -> 0 .. TICK_MOD - 1]
    /\ idle \in Tcb \cup {None}
    /\ panicked \in BOOLEAN
    /\ Consistent(state, ready, current)
    /\ Agree(state, current)
    /\ Enough => ~ panicked

\* What a method that moves threads must leave behind.
Kept == /\ Consistent(state', ready', current')
        /\ panicked' \in BOOLEAN
        /\ Agree(state', current')
        /\ Enough => ~ panicked'

\* The threads that were blocked in st, and no others, are blocked still.
SameBlocked(st) ==
    \A t \in Tcb : st[t] \in Blocked \/ state'[t] \in Blocked => state'[t] = st[t]

(***************************************************************************)
(* Endpoint.                                                               *)
(***************************************************************************)
Queueing == {"BlockedOnSend", "BlockedOnReceive"}

\* cancel_badged_sends is sorting the queue of e.
Splitting(e) == op # None /\ op.ep = e /\ op.fn = "cancel_badged_sends"

\* The scheduler's part.  Unlike in Executor alone, the thread on the CPU may
\* have blocked in a call; it is then not the idle thread, and no loop runs.
SchedInv ==
    /\ ticks_consumed \in [Tcb -> 0 .. TICK_MOD - 1]
    /\ idle \in Tcb \cup {None}
    /\ panicked \in BOOLEAN
    /\ Consistent(state, ready, current)
    /\ idle # None => state[idle] \notin Blocked
    /\ current # None /\ current.tcb = idle => state[idle] = "Running"
    /\ Enough => ~ panicked
    /\ op # None => ~ panicked /\ current # None /\ state[current.tcb] = "Running"

\* What message registers may hold.
Regs == [Tcb -> [mr1 : Word \cup Badge \cup {0}, rest : Word \cup {0}]]

\* The types of the endpoint's part.
DataInv ==
    /\ ep_state \in [EP -> EndpointState]
    /\ queue \in [EP -> [head : Tcb \cup {None}, tail : Tcb \cup {None}]]
    /\ ep_next \in Links
    /\ ep_prev \in Links
    /\ blocking_object \in [Tcb -> EP \cup {None}]
    /\ ipc_state \in [Tcb -> IpcState]
    /\ reply_to \in [Tcb -> Tcb \cup {None}]
    /\ caller \in [Tcb -> Tcb \cup {None}]
    /\ mr \in Regs
    /\ \/ op = None
       \/ op \in [fn : {"cancel_all_ipc"}, ep : EP]
       \/ op \in [fn : {"cancel_badged_sends"}, ep : EP, badge : Badge,
                  cur : Tcb \cup {None}, head : Tcb \cup {None},
                  tail : Tcb \cup {None}]

\* What cancel_badged_sends has kept, and what it has not looked at yet.
KeptLine == Follow(ep_next, op.head)

RestLine == Follow(ep_next, op.cur)

\* Every queue is a list of its line; during cancel_badged_sends the new queue
\* and the rest of the old one are two lists, apart from each other.
ListInv ==
    \A e \in EP :
        /\ ~ Splitting(e) => Linked(QueueOf(e), Lines[e])
        /\ Splitting(e) =>
               /\ Linked(NewQueue, KeptLine)
               /\ Chain(ep_next, op.cur, RestLine)
               /\ \A t \in Tcb : ~ (In(t, KeptLine) /\ In(t, RestLine))
               /\ \A t \in Tcb : In(t, KeptLine) => ipc_state[t].badge # op.badge
               /\ ep_state[e] = "Send"

\* The line of e holds the threads that have blocked on e.
MemberInv ==
    /\ \A t \in Tcb : state[t] \in Queueing => blocking_object[t] \in EP
    /\ \A e \in EP :
           /\ \A t \in Tcb : /\ In(t, Lines[e]) <=> /\ blocking_object[t] = e
                                                   /\ state[t] \in Queueing
                             /\ In(t, Lines[e]) => state[t] = BlockedFor(ep_state[e])
           /\ ep_state[e] = "Idle" => Lines[e] = <<>>
           /\ Lines[e] = <<>> /\ (op = None \/ op.ep # e) => ep_state[e] = "Idle"

EndpointInv == SchedInv /\ DataInv /\ ListInv /\ MemberInv /\ CallerWaits

(***************************************************************************)
(* What a step does to the lines.  Nobody moves, one thread joins at the   *)
(* end, or one thread leaves its place.                                    *)
(***************************************************************************)
SameQueueing(t) == state[t] \in Queueing \/ state'[t] \in Queueing =>
                       state'[t] = state[t]

Stays ==
    /\ Lines' = Lines
    /\ blocking_object' = blocking_object
    /\ \A t \in Tcb : SameQueueing(t)
    /\ \A e \in EP : \/ ep_state'[e] = ep_state[e]
                     \/ Lines[e] = <<>> /\ ep_state'[e] = "Idle"

Joins(t, e, k) ==
    /\ Lines' = [Lines EXCEPT ![e] = Append(Lines[e], t)]
    /\ blocking_object' = [blocking_object EXCEPT ![t] = e]
    /\ ep_state[e] \in {"Idle", k}
    /\ ep_state' = [ep_state EXCEPT ![e] = k]
    /\ state[t] = "Running"
    /\ state' = [state EXCEPT ![t] = BlockedFor(k)]

Leaves(e, i) ==
    /\ Lines' = [Lines EXCEPT ![e] = Without(Lines[e], i)]
    /\ \/ i = 1 /\ blocking_object' = blocking_object
       \/ blocking_object' = [blocking_object EXCEPT ![Lines[e][i]] = None]
    /\ state'[Lines[e][i]] \notin Queueing
    /\ \A t \in Tcb : t # Lines[e][i] => SameQueueing(t)
    /\ \/ ep_state' = ep_state
       \/ Lines'[e] = <<>> /\ ep_state' = [ep_state EXCEPT ![e] = "Idle"]

Moves == \/ Stays
         \/ \E e \in EP :
                \/ \E t \in Tcb, k \in {"Send", "Recv"} : Joins(t, e, k)
                \/ \E i \in 1 .. Len(Lines[e]) : Leaves(e, i)

\* An endpoint whose line is empty is Idle again when its call returns.
Settled == \A e \in EP : Lines'[e] = <<>> /\ (op' = None \/ op'.ep # e)
                             => ep_state'[e] = "Idle"

\* cancel_badged_sends has an iteration behind it: k is kept and r is the rest.
Splits(e, k, r) ==
    /\ Splitting(e)
    /\ op' # None /\ op'.ep = e /\ op'.fn = "cancel_badged_sends"
    /\ op'.badge = op.badge
    /\ queue' = queue /\ ep_state' = ep_state /\ ipc_state' = ipc_state
    /\ ep_next' \in Links /\ ep_prev' \in Links
    /\ \A f \in EP, u \in Tcb : f # e /\ In(u, Lines[f]) =>
           ep_next'[u] = ep_next[u] /\ ep_prev'[u] = ep_prev[u]
    /\ Linked(NewQueue', k) /\ Chain(ep_next', op'.cur, r)
    /\ \A t \in Tcb : ~ (In(t, k) /\ In(t, r))
    /\ \A t \in Tcb : In(t, k) => ipc_state[t].badge # op.badge

(***************************************************************************)
(* What every step must be.  Each keeps the invariant, and is one of Moves.*)
(***************************************************************************)
Good == /\ SchedInv' /\ DataInv' /\ ListInv' /\ CallerWaits'
        /\ Moves /\ Settled

\* The scheduler takes nobody out of a queue and nobody's reply away.
Undisturbed == \A t \in Tcb : /\ SameQueueing(t)
                              /\ state[t] = "BlockedOnReply" => state'[t] = state[t]

\* t is taken out of a queue for good.
Gone(t) == blocking_object[t] # None /\ blocking_object'[t] = None

\* What an iteration does besides: it makes progress.
LoopGood == /\ Good
            /\ LoopLeft' < LoopLeft

\* What the loop also does: it takes out only threads with the badge, and when
\* it ends none with the badge is left.
BadgedGood ==
    /\ \A t \in Tcb : Gone(t) => ipc_state[t].badge = op.badge
    /\ op' = None => \A t \in Tcb : state[t] = "BlockedOnSend" /\ blocking_object[t] = op.ep
                                        => ipc_state[t].badge # op.badge
=============================================================================
