-------------------------- MODULE SchedulingProofs --------------------------
(***************************************************************************)
(* The theorems about Executor, Timer and Endpoint, for any finite set of  *)
(* TCBs, any endpoints and any deadlines.                                  *)
(***************************************************************************)
EXTENDS EndpointCallProofs, EndpointLoopProofs, Timer, FiniteSetTheorems, WellFoundedInduction

\* What the lemmas of ThreadProofs need of numbers and of the finite set Tcb.
LEMMA CountingFacts == Counting
<1>1. ASSUME NEW T \in SUBSET Nat, T # {}
      PROVE  \E x \in T : \A y \in T : x <= y
  <2>1. PICK x \in T : \A y \in T : ~ (<<y, x>> \in OpToRel(<, Nat))
    BY <1>1, NatLessThanWellFounded, WFMin, Zenon
  <2>2. \A y \in T : ~ (y < x)
    BY <2>1, Zenon DEF OpToRel
  <2> QED
    BY <2>2
<1>2. Cardinality(Tcb) \in Nat
  BY TcbAssumption, FS_CardinalityType
<1>3. ASSUME NEW n \in Nat, NEW s \in Injection(1 .. n, Tcb)
      PROVE  n <= Cardinality(Tcb)
  <2>1. Cardinality(1 .. n) <= Cardinality(Tcb)
    BY TcbAssumption, FS_Injection, Zenon
  <2>2. Cardinality(1 .. n) = n
    BY FS_Interval
  <2> QED
    BY <2>1, <2>2
<1>4. ASSUME NEW t \in Tcb, NEW S, NEW f \in Injection(S, Tcb \ {t})
      PROVE  Cardinality(S) \in Nat /\ Cardinality(S) < Cardinality(Tcb)
  <2>1. IsFiniteSet(Tcb \ {t}) /\ Cardinality(Tcb \ {t}) = Cardinality(Tcb) - 1
    BY TcbAssumption, FS_RemoveElement
  <2>2. IsFiniteSet(S) /\ Cardinality(S) <= Cardinality(Tcb \ {t})
    BY <2>1, FS_Injection
  <2>3. Cardinality(S) \in Nat
    BY <2>2, FS_CardinalityType
  <2> QED
    BY <1>2, <2>1, <2>2, <2>3
<1> QED
  BY <1>1, <1>2, <1>3, <1>4, Zenon DEF Counting

(***************************************************************************)
(* Endpoint: its lines hold who is blocked, whoever moves.                 *)
(***************************************************************************)
\* The lines hold the threads that have blocked, whatever a step does to them.
LEMMA MemberStays ==
  ASSUME MemberInv, Stays, Settled, ListInv
  PROVE  MemberInv'
<1>1. ASSUME NEW e \in EP
      PROVE  Lines'[e] = Lines[e] /\ Lines[e] \in Seq(Tcb)
  BY LineFacts DEF Stays
<1>2. \A t \in Tcb : state'[t] \in Queueing => blocking_object'[t] \in EP
  BY Zenon DEF MemberInv, Stays, SameQueueing
<1>3. ASSUME NEW e \in EP, NEW t \in Tcb
      PROVE  /\ In(t, Lines'[e]) <=> blocking_object'[t] = e /\ state'[t] \in Queueing
             /\ In(t, Lines'[e]) => state'[t] = BlockedFor(ep_state'[e])
  <2>1. Lines[e] = <<>> => ~ In(t, Lines[e])
    BY <1>1, InEmpty, Zenon
  <2>2. state'[t] \in Queueing <=> state[t] \in Queueing
    BY Zenon DEF Stays, SameQueueing
  <2>3. blocking_object' = blocking_object /\ SameQueueing(t)
        /\ (ep_state'[e] = ep_state[e] \/ Lines[e] = <<>>)
    BY Zenon DEF Stays
  <2>4. /\ In(t, Lines[e]) <=> blocking_object[t] = e /\ state[t] \in Queueing
        /\ In(t, Lines[e]) => state[t] = BlockedFor(ep_state[e])
    BY Zenon DEF MemberInv
  <2>5. state[t] \in Queueing => state'[t] = state[t]
    BY <2>3 DEF SameQueueing
  <2>6. Lines'[e] = Lines[e]
    BY <1>1
  <2> QED
    BY <2>1, <2>2, <2>3, <2>4, <2>5, <2>6
<1>4. \A e \in EP : ep_state'[e] = "Idle" => Lines'[e] = <<>>
  BY DEF MemberInv, Stays
<1> QED
  BY <1>2, <1>3, <1>4, Zenon DEF MemberInv, Settled

\* A thread joins one line, behind the others.
LEMMA MemberJoins ==
  ASSUME MemberInv, ListInv, DataInv, SchedInv, Settled,
         NEW t \in Tcb, NEW e \in EP, NEW k \in {"Send", "Recv"}, Joins(t, e, k)
  PROVE  MemberInv'
<1>1. /\ blocking_object \in [Tcb -> EP \cup {None}] /\ ep_state \in [EP -> EndpointState]
      /\ state \in [Tcb -> ThreadState]
  BY DEF DataInv, SchedInv, Consistent
<1>2. ASSUME NEW f \in EP
      PROVE  /\ Lines[f] \in Seq(Tcb)
             /\ Lines'[f] = IF f = e THEN Append(Lines[e], t) ELSE Lines[f]
             /\ ep_state'[f] = IF f = e THEN k ELSE ep_state[f]
  BY <1>1, LineFacts, LinesFunction DEF Joins
<1>3. ASSUME NEW u \in Tcb
      PROVE  /\ blocking_object'[u] = IF u = t THEN e ELSE blocking_object[u]
             /\ state'[u] = IF u = t THEN BlockedFor(k) ELSE state[u]
  BY <1>1 DEF Joins
<1>4. BlockedFor(k) \in Queueing /\ state[t] \notin Queueing
  BY Zenon DEF BlockedFor, Queueing, Joins
<1>5. ASSUME NEW u \in Tcb, NEW f \in EP
      PROVE  /\ In(u, Lines[f]) <=> blocking_object[u] = f /\ state[u] \in Queueing
             /\ In(u, Lines[f]) => state[u] = BlockedFor(ep_state[f])
             /\ state[u] \in Queueing => blocking_object[u] \in EP
             /\ ep_state[f] = "Idle" => Lines[f] = <<>>
  BY DEF MemberInv
<1>6. ASSUME NEW u \in Tcb PROVE state'[u] \in Queueing => blocking_object'[u] \in EP
  BY <1>3, <1>5
<1>7. ASSUME NEW f \in EP, NEW u \in Tcb
      PROVE  /\ In(u, Lines'[f]) <=> blocking_object'[u] = f /\ state'[u] \in Queueing
             /\ In(u, Lines'[f]) => state'[u] = BlockedFor(ep_state'[f])
  <2>1. In(u, Append(Lines[e], t)) <=> In(u, Lines[e]) \/ u = t
    BY <1>2, InAppend
  <2>2. CASE f = e
    <3>1. In(u, Lines[e]) => ep_state[e] = k
      <4>1. Lines[e] = <<>> => ~ In(u, Lines[e])
        BY <1>2, InEmpty, Zenon
      <4>2. ep_state[e] \in {"Idle", k}
        BY DEF Joins
      <4> QED
        BY <1>5, <4>1, <4>2
    <3> QED
      BY <1>2, <1>3, <1>4, <1>5, <2>1, <3>1
  <2>3. CASE f # e
    BY <1>2, <1>3, <1>4, <1>5, <2>3
  <2> QED
    BY <2>2, <2>3
<1>8. ASSUME NEW f \in EP, ep_state'[f] = "Idle" PROVE Lines'[f] = <<>>
  <2> QED
    BY <1>2, <1>8 DEF MemberInv
<1> QED
  BY <1>6, <1>7, <1>8, Zenon DEF MemberInv, Settled

\* A thread leaves its place in a line.
LEMMA MemberLeaves ==
  ASSUME MemberInv, ListInv, DataInv, SchedInv, Settled,
         NEW e \in EP, NEW i \in 1 .. Len(Lines[e]), Leaves(e, i)
  PROVE  MemberInv'
<1> DEFINE s == Lines[e]
           t == Lines[e][i]
<1>1. /\ blocking_object \in [Tcb -> EP \cup {None}] /\ ep_state \in [EP -> EndpointState]
      /\ state \in [Tcb -> ThreadState]
  BY DEF DataInv, SchedInv, Consistent
<1>2. ASSUME NEW f \in EP
      PROVE  /\ Lines[f] \in Seq(Tcb)
             /\ Lines'[f] = IF f = e THEN Without(Lines[e], i) ELSE Lines[f]
  BY LineFacts, LinesFunction DEF Leaves
<1>3. s \in Seq(Tcb) /\ i \in 1 .. Len(s) /\ t \in Tcb
  BY <1>2
<1>4. In(t, s)
  BY Zenon DEF In
<1>5. \A u : In(u, Without(s, i)) <=> In(u, s) /\ u # t
  BY LineFacts, InWithout
<1>6. ASSUME NEW u \in Tcb, NEW f \in EP
      PROVE  /\ In(u, Lines[f]) <=> blocking_object[u] = f /\ state[u] \in Queueing
             /\ In(u, Lines[f]) => state[u] = BlockedFor(ep_state[f])
             /\ state[u] \in Queueing => blocking_object[u] \in EP
             /\ ep_state[f] = "Idle" => Lines[f] = <<>>
  BY Zenon DEF MemberInv
<1> HIDE DEF s, t
<1>7. state'[t] \notin Queueing
  BY DEF Leaves, t
<1>8. ASSUME NEW u \in Tcb, u # t
      PROVE  /\ blocking_object'[u] = blocking_object[u]
             /\ state'[u] \in Queueing <=> state[u] \in Queueing
             /\ state[u] \in Queueing => state'[u] = state[u]
  <2>1. SameQueueing(u)
    BY <1>8 DEF Leaves, t
  <2>2. blocking_object'[u] = blocking_object[u]
    BY <1>1, <1>8 DEF Leaves, t
  <2> QED
    BY <2>1, <2>2 DEF SameQueueing
<1>9. ASSUME NEW u \in Tcb PROVE state'[u] \in Queueing => blocking_object'[u] \in EP
  BY <1>6, <1>7, <1>8
<1>10. ASSUME NEW f \in EP
       PROVE  ep_state'[f] = ep_state[f] \/ (f = e /\ Lines'[f] = <<>>)
  BY <1>1 DEF Leaves
<1>11. ASSUME NEW f \in EP PROVE Lines'[f] = <<>> => \A u : ~ In(u, Lines'[f])
  <2>1. Lines'[f] \in Seq(Tcb)
    BY <1>2, <1>3, WithoutElements DEF s
  <2> QED
    BY <2>1, InEmpty, Zenon
<1>12. ASSUME NEW f \in EP, NEW u \in Tcb
       PROVE  In(u, Lines'[f]) <=> In(u, Lines[f]) /\ u # t
  <2>1. CASE f = e
    BY <1>2, <1>5, <2>1 DEF s
  <2>2. CASE f # e
    <3>1. In(t, Lines[f]) => FALSE
      BY <1>3, <1>4, <2>2, Apart DEF s
    <3> QED
      BY <1>2, <2>2, <3>1
  <2> QED
    BY <2>1, <2>2
<1>13. ASSUME NEW f \in EP, NEW u \in Tcb
       PROVE  /\ In(u, Lines'[f]) <=> blocking_object'[u] = f /\ state'[u] \in Queueing
              /\ In(u, Lines'[f]) => state'[u] = BlockedFor(ep_state'[f])
  <2>1. CASE u = t
    BY <1>7, <1>12, <2>1
  <2>2. CASE u # t
    <3>1. In(u, Lines'[f]) <=> blocking_object'[u] = f /\ state'[u] \in Queueing
      BY <1>6, <1>8, <1>12, <2>2
    <3>2. ASSUME In(u, Lines'[f]) PROVE state'[u] = BlockedFor(ep_state'[f])
      <4>1. ep_state'[f] = ep_state[f]
        BY <1>10, <1>11, <3>2
      <4> QED
        BY <1>6, <1>8, <1>12, <3>2, <4>1
    <3> QED
      BY <3>1, <3>2
  <2> QED
    BY <2>1, <2>2
<1>14. ASSUME NEW f \in EP, ep_state'[f] = "Idle" PROVE Lines'[f] = <<>>
  <2>1. CASE ep_state[f] = "Idle"
    <3>1. Lines[f] = <<>>
      BY <2>1 DEF MemberInv
    <3> QED
      BY <1>2, <3>1
  <2>2. CASE ep_state[f] # "Idle"
    BY <1>10, <1>14, <2>2
  <2> QED
    BY <2>1, <2>2
<1> QED
  BY <1>9, <1>13, <1>14, Zenon DEF MemberInv, Settled

\* A queue still holds exactly the threads blocked on its endpoint after a
\* thread has joined or left.
LEMMA MovesMember ==
  ASSUME EndpointInv, Moves, Settled
  PROVE  MemberInv'
BY MemberStays, MemberJoins, MemberLeaves DEF Moves, EndpointInv

(***************************************************************************)
(* Endpoint: each of the moves is a step of FifoEndpoint, or no step of it.*)
(***************************************************************************)
LEMMA FifoStays ==
  ASSUME Stays
  PROVE  UNCHANGED Fifo!fifoVars
<1>1. Lines' = Lines /\ blocking_object' = blocking_object
  BY Zenon DEF Stays
<1>2. LineKinds' = LineKinds
  BY LinesFunction DEF Stays
<1> QED
  BY <1>1, <1>2 DEF Fifo!fifoVars

\* A thread that joins is an enqueueing of FifoEndpoint.
LEMMA FifoJoins ==
  ASSUME MemberInv, ListInv, DataInv,
         NEW t \in Tcb, NEW e \in EP, NEW k \in {"Send", "Recv"}, Joins(t, e, k)
  PROVE  Fifo!FifoNext
<1>1. /\ Lines' = [Lines EXCEPT ![e] = Append(Lines[e], t)]
      /\ blocking_object' = [blocking_object EXCEPT ![t] = e]
      /\ ep_state' = [ep_state EXCEPT ![e] = k] /\ ep_state \in [EP -> EndpointState]
      /\ ep_state[e] \in {"Idle", k}
  BY DEF Joins, DataInv
<1>2. LineKinds[e] \in {"Idle", k}
  BY <1>1, LinesFunction
<1>3. LineKinds' = [LineKinds EXCEPT ![e] = k]
  <2>1. Lines'[e] = Append(Lines[e], t) /\ Append(Lines[e], t) # <<>>
    BY <1>1, LinesFunction
  <2>2. \A f \in EP : f # e => Lines'[f] = Lines[f] /\ ep_state'[f] = ep_state[f]
    BY <1>1
  <2>3. ep_state'[e] = k
    BY <1>1
  <2> QED
    BY <2>1, <2>2, <2>3, LinesFunction
<1>4. \A f \in EP : ~ Fifo!Queued(t, f)
  <2>1. \A f \in EP : ~ In(t, Lines[f])
    BY DEF MemberInv, Joins, Queueing
  <2> QED
    BY <2>1, Zenon DEF In, Fifo!Queued
<1>5. Fifo!Join(e, t, k)
  BY <1>1, <1>2, <1>3, <1>4, Zenon DEF Fifo!Join
<1> QED
  BY <1>5 DEF Fifo!FifoNext

\* A thread that leaves is a service or a cancellation of FifoEndpoint.
LEMMA FifoLeaves ==
  ASSUME ListInv, DataInv, NEW e \in EP, NEW i \in 1 .. Len(Lines[e]), Leaves(e, i)
  PROVE  Fifo!FifoNext
<1> DEFINE s == Without(Lines[e], i)
<1>0. Lines[e] \in Seq(Tcb)
  BY LineFacts
<1>1. Lines[e] \in Seq(Tcb) /\ Lines[e] # <<>> /\ Lines[e][i] \in Tcb
  BY <1>0
<1>2. Lines' = [Lines EXCEPT ![e] = s]
  BY DEF Leaves
<1>3. \/ ep_state' = ep_state
      \/ Lines'[e] = <<>> /\ ep_state' = [ep_state EXCEPT ![e] = "Idle"]
  BY Zenon DEF Leaves
<1> HIDE DEF s
<1>4. LineKinds' = IF s = <<>> THEN [LineKinds EXCEPT ![e] = "Idle"] ELSE LineKinds
  <2>1. Lines'[e] = s /\ \A f \in EP : f # e => Lines'[f] = Lines[f]
    BY <1>2, LinesFunction
  <2>2. \A f \in EP : f # e => ep_state'[f] = ep_state[f]
    BY <1>3 DEF DataInv
  <2>3. \A f \in EP : f # e => LineKinds'[f] = LineKinds[f]
    BY <2>1, <2>2, LinesFunction
  <2>4. s = <<>> => LineKinds'[e] = "Idle"
    BY <2>1, LinesFunction
  <2>5. s # <<>> => LineKinds'[e] = LineKinds[e]
    BY <1>3, <2>1, LinesFunction
  <2>6. LineKinds = [f \in EP |-> LineKinds[f]] /\ LineKinds' = [f \in EP |-> LineKinds'[f]]
    BY LinesFunction
  <2> QED
    BY <2>3, <2>4, <2>5, <2>6
<1>5. Fifo!Keep(e, s)
  BY <1>2, <1>4, Zenon DEF Fifo!Keep
<1>6. CASE i = 1 /\ blocking_object' = blocking_object
  <2>1. s = Tail(Lines[e])
    BY <1>1, <1>6, TailWithout, Zenon DEF s
  <2>2. Fifo!Serve(e)
    BY <1>5, <1>6, <2>1 DEF Fifo!Serve
  <2> QED
    BY <2>2 DEF Fifo!FifoNext
<1>7. CASE blocking_object' = [blocking_object EXCEPT ![Lines[e][i]] = None]
  <2>1. Fifo!Keep(e, Fifo!Without(Lines[e], i))
    BY <1>5, Zenon DEF s, Without, Fifo!Without
  <2>2. Fifo!Cancel(e, Lines[e][i])
    BY <1>7, <2>1, Zenon DEF Fifo!Cancel
  <2> QED
    BY <1>1, <2>2 DEF Fifo!FifoNext
<1> QED
  BY <1>6, <1>7 DEF Leaves

\* Every change of the queues is a step of FifoEndpoint, or none.
LEMMA MovesFifo ==
  ASSUME EndpointInv, Moves
  PROVE  [Fifo!FifoNext]_(Fifo!fifoVars)
BY FifoStays, FifoJoins, FifoLeaves DEF Moves, EndpointInv

(***************************************************************************)
(* Executor: every thread is in one place.                                 *)
(***************************************************************************)
\* ExecInv holds in every reachable state.
LEMMA ExecInductive == ExecSpec => []ExecInv
<1>1. ExecInv /\ [ExecNext]_execVars => ExecInv'
  BY CountingFacts, NextExecInv
<1> QED
  BY <1>1, InitExecInv, PTL DEF ExecSpec

\* The executor's state is well typed.
THEOREM ExecutorTypeOK == ExecSpec => []ExecTypeOK
<1>1. ExecInv => ExecTypeOK
  BY DEF ExecInv, ExecTypeOK, Consistent, Simple
<1> QED
  BY <1>1, ExecInductive, PTL

\* However the methods of the executor are interleaved, no thread has two
\* entries in the heap, or one there and the CPU too.
THEOREM ExecutorOnePlace == ExecSpec => []OnePlace
<1>1. ExecInv => OnePlace
  BY DEF ExecInv, OnePlace, Consistent, Simple
<1> QED
  BY <1>1, ExecInductive, PTL

\* The thread on the CPU is Running and what waits is Inactive; no method makes
\* a thread Running without giving it the CPU, or takes the CPU from a thread and
\* leaves it Running.
THEOREM ExecutorStatesAgree == ExecSpec => StatesAgree
<1>1. ExecInv => /\ current # None => state[current.tcb] = "Running"
                 /\ \A t \in ReadyTcbs(ready) : state[t] = "Inactive"
  BY DEF ExecInv, Consistent, Agree, ReadyTcbs
<1>2. ExecInv /\ [ExecNext]_execVars => [RunsOnCpu]_execVars
  BY CountingFacts, NextExecRuns
<1> QED
  BY <1>1, <1>2, ExecInductive, PTL DEF ExecSpec, StatesAgree

\* When the heap holds as many entries as the core has TCBs, the idle thread
\* included, no push of the executor fails.
THEOREM ExecutorNoOverflow == ExecSpec => [](Enough => NoOverflow)
<1>1. ExecInv => (Enough => NoOverflow)
  BY DEF ExecInv, NoOverflow
<1> QED
  BY <1>1, ExecInductive, PTL

\* A tick replaces the thread on the CPU only by one with a strictly earlier
\* deadline, and dispatches a thread that no ready one precedes.
THEOREM ExecutorEdfTick == Enough => (ExecSpec => EdfTick)
<1> SUFFICES ASSUME Enough PROVE ExecSpec => EdfTick
  OBVIOUS
<1>1. ASSUME ExecInv, ExecInv', Preempt, current' # current
      PROVE  /\ current # None => current'.deadline < current.deadline
             /\ \A e \in DOMAIN ready' : current'.deadline <= e.deadline
  BY <1>1, CountingFacts, TickEdf
<1> QED
  BY <1>1, ExecInductive, PTL DEF EdfTick

\* The executor behind the timer interrupt (timer_handler) is the executor:
\* every theorem about ExecSpec holds of TimerSpec.
THEOREM TimerExecutor == TimerSpec => ExecSpec
<1>1. TimerInit => ExecInit
  BY DEF TimerInit
<1>2. [TimerNext]_timerVars => [ExecNext]_execVars
  BY DEF TimerNext, TimerTick, Call, ExecNext, timerVars
<1> QED
  BY <1>1, <1>2, PTL DEF TimerSpec, ExecSpec

(***************************************************************************)
(* Endpoint: its queues and the scheduler agree on who waits.              *)
(***************************************************************************)
LEMMA InitEndpointInv ==
  ASSUME Counting, Init
  PROVE  EndpointInv /\ Fifo!FifoInit
<1>1. /\ ExecInit /\ op = None
      /\ ep_state = [e \in EP |-> "Idle"]
      /\ queue = [e \in EP |-> [head |-> None, tail |-> None]]
      /\ ep_next = [t \in Tcb |-> None] /\ ep_prev = [t \in Tcb |-> None]
      /\ blocking_object = [t \in Tcb |-> None] /\ caller = [t \in Tcb |-> None]
  BY DEF Init
<1>2. SchedInv
  <2>1. ExecInv
    BY <1>1, InitExecInv
  <2>2. current = None /\ idle = None
    BY <1>1 DEF ExecInit
  <2> QED
    BY <1>1, <2>1, <2>2 DEF ExecInv, SchedInv
<1>3. DataInv
  BY DEF Init, DataInv, EndpointState, Links, IpcState, Regs
<1>4. ep_next \in Links /\ ep_prev \in Links
  BY <1>3 DEF DataInv
<1>5. \A e \in EP : Lines[e] = <<>>
  <2>1. \A e \in EP : Lines[e] = Follow(ep_next, None)
    BY <1>1 DEF Lines, Waiting
  <2> QED
    BY <1>4, <2>1, EmptyChain, Zenon
<1>6. ListInv
  <2>1. \A e \in EP : Linked(QueueOf(e), <<>>) /\ ~ Splitting(e)
    BY <1>1, <1>4 DEF Linked, Chain, At, QueueOf, Splitting
  <2> QED
    BY <1>5, <2>1 DEF ListInv
<1>7. MemberInv
  <2>1. \A t \in Tcb : state[t] = "Running"
    BY <1>1 DEF ExecInit
  <2>2. \A t \in Tcb : ~ In(t, <<>>)
    BY DEF In
  <2> QED
    BY <1>1, <1>5, <2>1, <2>2 DEF MemberInv, Queueing
<1>8. CallerWaits
  BY <1>1 DEF CallerWaits
<1>9. Fifo!FifoInit
  BY <1>1, <1>5, LinesFunction DEF Fifo!FifoInit
<1> QED
  BY <1>2, <1>3, <1>6, <1>7, <1>8, <1>9 DEF EndpointInv

\* Every step is good: the invariant but for the members of the queues, and how
\* the queues move.
LEMMA NextGood ==
  ASSUME Counting, EndpointInv, MrAsserts(MR1), [Next]_vars
  PROVE  Good
<1>1. ASSUME NEW t \in Idlers, SetIdleThread(t) PROVE Good
  BY <1>1, SetIdleGood
<1>2. ASSUME NEW t \in Tcb, Resume(t) PROVE Good
  BY <1>2, ResumeGood
<1>3. CASE Tick
  BY <1>3, TickGood
<1>4. CASE Switch
  BY <1>4, SwitchGood
<1>5. CASE Yield
  BY <1>5, YieldGood
<1>6. CASE WaitNotification
  BY <1>6, WaitGood
<1>7. CASE Send
  BY <1>7, SendGood DEF Send
<1>8. CASE Receive
  BY <1>8, ReceiveGood DEF Receive
<1>9. CASE CancelCalls
  BY <1>9, CancelIpcGood, CancelAllEntryGood, CancelBadgedEntryGood DEF CancelCalls
<1>10. CASE LoopStep
  BY <1>10, CancelAllStepGood, CancelBadgedStepGood DEF LoopStep, LoopGood
<1>11. CASE UNCHANGED vars
  <2>1. UNCHANGED ipcVars /\ UNCHANGED execVars
    BY <1>11 DEF vars
  <2>2. UNCHANGED <<state, ticks_consumed, ready, current, idle, panicked, op>>
    BY <2>1 DEF execVars, ipcVars
  <2>3. SchedInv'
    BY <2>2 DEF EndpointInv, SchedInv
  <2>4. Undisturbed
    BY <2>2 DEF Undisturbed, SameQueueing
  <2> QED
    BY <2>1, <2>3, <2>4, IpcSame
<1> QED
  BY <1>1, <1>2, <1>3, <1>4, <1>5, <1>6, <1>7, <1>8, <1>9, <1>10, <1>11, Zenon DEF Next

\* Every step keeps the invariant and is a step of FifoEndpoint or none.
LEMMA NextEndpointInv ==
  ASSUME Counting, EndpointInv, MrAsserts(MR1), [Next]_vars
  PROVE  EndpointInv' /\ [Fifo!FifoNext]_(Fifo!fifoVars)
<1>1. Good
  BY NextGood
<1>2. MemberInv'
  BY <1>1, MovesMember DEF Good
<1>3. [Fifo!FifoNext]_(Fifo!fifoVars)
  BY <1>1, MovesFifo DEF Good
<1> QED
  BY <1>1, <1>2, <1>3 DEF Good, EndpointInv

\* No step makes a thread Running that does not get the CPU, or takes the CPU
\* from one that stays Running.
LEMMA NextRuns ==
  ASSUME Counting, EndpointInv, [Next]_vars
  PROVE  RunsOnCpu
<1>1. /\ Consistent(state, ready, current) /\ idle \in Tcb \cup {None}
      /\ state \in [Tcb -> ThreadState]
  BY Zenon DEF EndpointInv, SchedInv, Consistent
<1>2. ASSUME NEW t \in Tcb, SetIdleThread(t) \/ Resume(t) PROVE RunsOnCpu
  BY <1>1, <1>2, StillRuns, Zenon DEF SetIdleThread, Resume
<1>3. CASE Tick \/ Switch \/ Yield
  BY <1>1, <1>3, MethodRuns, Zenon DEF Tick, Switch, Yield
<1>4. CASE WaitNotification
  <2>1. "BlockedOnNotification" \in Blocked /\ BlockCurrent("BlockedOnNotification")
    BY <1>4, Zenon DEF WaitNotification, Blocked
  <2> QED
    BY <1>1, <2>1, MethodRuns, Zenon
<1>5. CASE Send \/ Receive \/ CancelCalls \/ LoopStep
  BY <1>1, <1>5, SendRuns, ReceiveRuns, CancelRuns, LoopRuns, Zenon
<1>6. CASE UNCHANGED vars
  BY <1>6, QuietRuns, Zenon DEF vars, execVars
<1> QED
  BY <1>2, <1>3, <1>4, <1>5, <1>6, DataAssumption, Zenon DEF Next

\* Every reachable state of Endpoint satisfies the inductive invariant, in a
\* build whose set_mr asserts nothing of MR1.
LEMMA EndpointInductive == ~ debug_assertions => (Spec => []EndpointInv)
<1> SUFFICES ASSUME ~ debug_assertions PROVE Spec => []EndpointInv
  OBVIOUS
<1>1. MrAsserts(MR1)
  BY DEF MrAsserts
<1>2. EndpointInv /\ [Next]_vars => EndpointInv'
  BY <1>1, CountingFacts, NextEndpointInv
<1>3. Init => EndpointInv
  BY CountingFacts, InitEndpointInv
<1> QED
  BY <1>2, <1>3, PTL DEF Spec

\* Every field of the endpoints, of the TCBs and of the scheduler keeps its
\* type, the positions of the cancellation loops included.
THEOREM EndpointTypeOK == ~ debug_assertions => (Spec => []TypeOK)
<1> SUFFICES ASSUME ~ debug_assertions PROVE Spec => []TypeOK
  OBVIOUS
<1>1. EndpointInv => TypeOK
  <2> SUFFICES ASSUME EndpointInv PROVE TypeOK
    OBVIOUS
  <2>1. ExecTypeOK
    BY DEF EndpointInv, SchedInv, ExecTypeOK, Consistent, Simple
  <2> QED
    BY <2>1 DEF EndpointInv, DataInv, TypeOK, Links, Regs, AllLoop, BadgedLoop
<1> QED
  BY <1>1, EndpointInductive, PTL

\* Sends, receives, cancellations, ticks and yields, in any order, never leave a
\* thread twice in the ready heap, there and on the CPU, or there and blocked,
\* and never leave one Running that does not have the CPU.
THEOREM EndpointScheduledOnce == ~ debug_assertions => (Spec => ScheduledOnce)
<1> SUFFICES ASSUME ~ debug_assertions PROVE Spec => ScheduledOnce
  OBVIOUS
<1>1. EndpointInv => OnePlace /\ \A t \in ReadyTcbs(ready) : state[t] = "Inactive"
  <2> SUFFICES ASSUME EndpointInv
               PROVE  OnePlace /\ \A t \in ReadyTcbs(ready) : state[t] = "Inactive"
    OBVIOUS
  <2>1. Consistent(state, ready, current)
    BY DEF EndpointInv, SchedInv
  <2>2. OnePlace
    BY <2>1 DEF OnePlace, Consistent, Simple
  <2> QED
    BY <2>1, <2>2 DEF Consistent, ReadyTcbs
<1>2. EndpointInv /\ [Next]_vars => [RunsOnCpu]_vars
  BY CountingFacts, NextRuns
<1> QED
  BY <1>1, <1>2, EndpointInductive, PTL DEF Spec, ScheduledOnce

\* The caller a thread remembers is blocked on the reply of that thread:
\* cancel_ipc and a later call leave no stale reply link.
THEOREM EndpointCallerWaits == ~ debug_assertions => (Spec => []CallerWaits)
<1> SUFFICES ASSUME ~ debug_assertions PROVE Spec => []CallerWaits
  OBVIOUS
<1>1. EndpointInv => CallerWaits
  BY Zenon DEF EndpointInv
<1> QED
  BY <1>1, EndpointInductive, PTL

\* When the ready heap has room for every TCB, no expect() of the endpoint or
\* of the scheduler fails: the queue of a Send or Recv endpoint is not empty.
THEOREM EndpointNoPanic == Spec => [](Enough => NoPanic)
<1>1. CASE debug_assertions
  <2>1. Enough => NoPanic
    BY <1>1 DEF NoPanic
  <2> QED
    BY <2>1, PTL
<1>2. CASE ~ debug_assertions
  <2>1. EndpointInv => (Enough => NoPanic)
    BY DEF EndpointInv, SchedInv, NoPanic
  <2> QED
    BY <1>2, <2>1, EndpointInductive, PTL
<1> QED
  BY <1>1, <1>2

\* The queue of an endpoint no loop is working on is a well-formed list of
\* exactly the threads blocked on it, and empty just when the state is Idle.
THEOREM EndpointQueueHoldsBlocked == ~ debug_assertions => (Spec => []QueueHoldsBlocked)
<1> SUFFICES ASSUME ~ debug_assertions PROVE Spec => []QueueHoldsBlocked
  OBVIOUS
<1>1. EndpointInv => QueueHoldsBlocked
  BY CountingFacts, QueueBlocked DEF QueueHoldsBlocked, Queueing
<1> QED
  BY <1>1, EndpointInductive, PTL

\* cancel_badged_sends takes out the senders with the badge, all of them and no
\* other, though it relinks the list it walks.
THEOREM EndpointBadgedExactly == ~ debug_assertions => (Spec => BadgedExactly)
<1> SUFFICES ASSUME ~ debug_assertions PROVE Spec => BadgedExactly
  OBVIOUS
<1>1. ASSUME EndpointInv, Next, op # None, op.fn = "cancel_badged_sends"
      PROVE  BadgedGood
  <2>1. LoopStep /\ ~ CancelAllStep
    BY <1>1, LoopAlone DEF CancelAllStep
  <2> QED
    BY <1>1, <2>1, CountingFacts, CancelBadgedStepGood DEF LoopStep
<1>2. EndpointInv /\ [Next]_vars =>
          [op # None /\ op.fn = "cancel_badged_sends" =>
             /\ op' = None => \A t \in Tcb :
                    state[t] = "BlockedOnSend" /\ blocking_object[t] = op.ep
                        => ipc_state[t].badge # op.badge
             /\ \A t \in Tcb : blocking_object[t] # None /\ blocking_object'[t] = None
                    => ipc_state[t].badge = op.badge]_vars
  BY <1>1 DEF BadgedGood, Gone
<1> QED
  BY <1>2, EndpointInductive, PTL DEF Spec, BadgedExactly

\* The loops of cancel_all_ipc and cancel_badged_sends end: every iteration
\* leaves fewer threads ahead of it.
THEOREM EndpointLoopsEnd == ~ debug_assertions => (Spec => LoopsEnd)
<1> SUFFICES ASSUME ~ debug_assertions PROVE Spec => LoopsEnd
  OBVIOUS
<1>1. EndpointInv /\ [Next]_vars => [LoopStep => LoopLeft' < LoopLeft]_vars
  BY CountingFacts, CancelAllStepGood, CancelBadgedStepGood DEF LoopStep, LoopGood
<1> QED
  BY <1>1, EndpointInductive, PTL DEF Spec, LoopsEnd

\* The linked queues implement first-in first-out endpoints: append, dequeue_head
\* and unlink on ep_next and ep_prev serve threads in the order they blocked.
THEOREM EndpointFifoOrder == ~ debug_assertions => (Spec => FifoOrder)
<1> SUFFICES ASSUME ~ debug_assertions PROVE Spec => FifoOrder
  OBVIOUS
<1>1. EndpointInv /\ [Next]_vars => [Fifo!FifoNext]_(Fifo!fifoVars)
  BY CountingFacts, NextEndpointInv DEF MrAsserts
<1>2. Init => Fifo!FifoInit
  BY CountingFacts, InitEndpointInv
<1> QED
  BY <1>1, <1>2, EndpointInductive, PTL DEF Spec, FifoOrder, Fifo!FifoSpec

=============================================================================
