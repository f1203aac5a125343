---------------------------- MODULE ThreadProofs ----------------------------
(***************************************************************************)
(* Proofs about the scheduler and the queues of Executor and Endpoint, for *)
(* any finite set of TCBs, any endpoints and any deadlines.                *)
(*                                                                         *)
(* The scheduler: the heap has one entry for a thread, a switch moves a    *)
(* thread from one place to another, and the queues do not change.         *)
(*                                                                         *)
(* The queues: the linked lists stand for sequences, and a step that moves *)
(* one thread keeps them and is a step of a first-in first-out queue.      *)
(***************************************************************************)
EXTENDS ThreadInvariant, TLAPS

(***************************************************************************)
(* The ready heap.                                                         *)
(***************************************************************************)
\* push adds the entry of a thread that has none.
LEMMA SimplePush ==
  ASSUME NEW h, Simple(h), NEW e \in Entry, e.tcb \notin ReadyTcbs(h)
  PROVE  Simple(push(h, e)) /\ DOMAIN push(h, e) = DOMAIN h \cup {e}
<1>1. \A x \in DOMAIN h : x.tcb # e.tcb /\ x # e
  BY Zenon DEF ReadyTcbs
<1>2. push(h, e) = [x \in DOMAIN h \cup {e} |-> 1]
  <2>1. \A x \in DOMAIN h \cup {e} : (IF x \in DOMAIN h THEN h[x] ELSE 0)
                                   + (IF x = e THEN 1 ELSE 0) = 1
    BY <1>1 DEF Simple
  <2> QED
    BY <2>1, Zenon DEF push
<1> QED
  BY <1>1, <1>2, Zenon DEF Simple

\* First is an entry of a heap that is not empty, and no entry goes before it.
LEMMA FirstIsLeast ==
  ASSUME Counting, NEW h, Simple(h), DOMAIN h # {}
  PROVE  /\ First(h) \in DOMAIN h
         /\ \A f \in DOMAIN h : First(h).deadline <= f.deadline
<1> USE TcbAssumption, BoundAssumption
<1>1. \A e \in DOMAIN h : e.deadline \in Nat /\ e.tcb \in Nat
  BY DEF Simple, Entry
<1> DEFINE D == {e.deadline : e \in DOMAIN h}
<1>2. PICK d \in D : \A y \in D : d <= y
  <2>1. D \in SUBSET Nat /\ D # {}
    BY <1>1, Zenon
  <2> QED
    BY <2>1, Zenon DEF Counting
<1> DEFINE T == {e.tcb : e \in {e \in DOMAIN h : e.deadline = d}}
<1>3. PICK t \in T : \A y \in T : t <= y
  <2>1. T \in SUBSET Nat /\ T # {}
    BY <1>1, <1>2, Zenon
  <2> QED
    BY <2>1, Zenon DEF Counting
<1>4. PICK e \in DOMAIN h : e.deadline = d /\ e.tcb = t
  BY <1>3, Zenon
<1>5. ASSUME NEW f \in DOMAIN h
      PROVE  ~ Before(f, e)
  <2>1. d <= f.deadline
    BY <1>2, Zenon
  <2>2. f.deadline = d => t <= f.tcb
    BY <1>3, Zenon
  <2>3. d \in Nat /\ t \in Nat /\ f.deadline \in Nat /\ f.tcb \in Nat
    BY <1>1, <1>4, Zenon
  <2> HIDE DEF D, T
  <2> QED
    BY <1>4, <2>1, <2>2, <2>3 DEF Before
<1>6. First(h) \in DOMAIN h /\ \A f \in DOMAIN h : ~ Before(f, First(h))
  BY <1>5, Zenon DEF First
<1> QED
  BY <1>1, <1>6 DEF Before

\* pop takes away the first entry and nothing else.
LEMMA SimplePop ==
  ASSUME Counting, NEW h, Simple(h), DOMAIN h # {}
  PROVE  Simple(pop(h)) /\ DOMAIN pop(h) = DOMAIN h \ {First(h)}
<1> DEFINE e == First(h)
<1>1. e \in DOMAIN h
  BY FirstIsLeast, Zenon
<1>2. pop(h) = [x \in DOMAIN h \ {e} |-> 1]
  <2>1. \A x \in DOMAIN h : h[x] = 1
    BY Zenon DEF Simple
  <2>2. {x \in DOMAIN h : x # e \/ h[x] > 1} = DOMAIN h \ {e}
    BY <2>1
  <2>3. pop(h) = [x \in {x \in DOMAIN h : x # e \/ h[x] > 1} |->
                     h[x] - (IF x = e THEN 1 ELSE 0)]
    BY Zenon DEF pop
  <2> HIDE DEF e
  <2> QED
    BY <2>1, <2>2, <2>3
<1> HIDE DEF e
<1> QED
  BY <1>2, Zenon DEF Simple, e

\* A heap that lacks a thread has room, if it can hold all the threads.
LEMMA RoomForOneMore ==
  ASSUME Counting, NEW h, Simple(h), NEW t \in Tcb, t \notin ReadyTcbs(h),
         Cardinality(Tcb) <= MAX_TCB_PER_CORE
  PROVE  ~ Full(h)
<1> DEFINE S == UNION {{e} \X (1 .. h[e]) : e \in DOMAIN h}
           f == [x \in S |-> x[1].tcb]
<1>1. \A x \in S : x[1] \in DOMAIN h /\ x = <<x[1], 1>>
  <2>1. \A x \in S : \E e \in DOMAIN h : x \in {e} \X (1 .. h[e])
    BY Zenon
  <2>2. \A e \in DOMAIN h : h[e] = 1
    BY Zenon DEF Simple
  <2> QED
    BY <2>1, <2>2
<1>2. \A e \in DOMAIN h : e.tcb \in Tcb \ {t}
  BY Zenon DEF Simple, Entry, ReadyTcbs
<1>3. \A x, y \in S : x[1].tcb = y[1].tcb => x = y
  <2> SUFFICES ASSUME NEW x \in S, NEW y \in S, x[1].tcb = y[1].tcb PROVE x = y
    BY Zenon
  <2>1. x[1] = y[1]
    BY <1>1, Zenon DEF Simple
  <2> QED
    BY <1>1, <2>1, Zenon
<1> HIDE DEF S
<1>4. f \in Injection(S, Tcb \ {t})
  BY <1>1, <1>2, <1>3, Zenon DEF Injection, IsInjective
<1>5. /\ Cardinality(S) \in Nat /\ Cardinality(Tcb) \in Nat
      /\ Cardinality(S) < Cardinality(Tcb)
  BY <1>4, Zenon DEF Counting
<1>6. HeapLen(h) = Cardinality(S)
  BY Zenon DEF HeapLen, S
<1> QED
  BY <1>5, <1>6, BoundAssumption DEF Full

(***************************************************************************)
(* A switch moves a thread from one place to another.                      *)
(***************************************************************************)
\* enqueue gives at most one entry to a thread that has none and is off CPU.
LEMMA EnqueueKeeps ==
  ASSUME NEW st, NEW h, NEW cur, Consistent(st, h, cur),
         NEW t \in Tcb, t \notin ReadyTcbs(h), cur # None => cur.tcb # t
  PROVE  Consistent(st, enqueue(st, h, t), cur)
<1> DEFINE e == [deadline |-> DeadlineOf(t), tcb |-> t]
<1>1. e \in Entry /\ e.tcb = t
  BY SchedContextAssumption, BoundAssumption DEF Entry, DeadlineOf
<1>2. CASE st[t] # "Inactive" \/ Full(h)
  BY <1>2, Zenon DEF enqueue
<1>3. CASE ~ (st[t] # "Inactive" \/ Full(h))
  <2>1. enqueue(st, h, t) = push(h, e)
    BY <1>3, Zenon DEF enqueue
  <2> HIDE DEF e
  <2>2. Simple(push(h, e)) /\ DOMAIN push(h, e) = DOMAIN h \cup {e}
    BY <1>1, SimplePush, Zenon DEF Consistent
  <2>3. \A x \in DOMAIN push(h, e) : st[x.tcb] = "Inactive"
    BY <1>1, <1>3, <2>2, Zenon DEF Consistent
  <2>4. cur # None => cur.tcb \notin ReadyTcbs(push(h, e))
    BY <1>1, <2>2, Zenon DEF Consistent, ReadyTcbs
  <2> QED
    BY <2>1, <2>2, <2>3, <2>4, Zenon DEF Consistent
<1> QED
  BY <1>2, <1>3, Zenon

\* context_switch to a thread that is nowhere keeps every thread in one place,
\* whether or not the thread that leaves the CPU is still Running; its push
\* cannot fail when the heap holds all the threads.
LEMMA SwitchKeeps ==
  ASSUME Counting, NEW st, NEW h, NEW cur, NEW next \in Entry,
         Consistent(st, h, cur), ~ panicked, panicked \in BOOLEAN,
         next.tcb \notin ReadyTcbs(h), cur # None => cur.tcb # next.tcb,
         context_switch(next, cur, st, h)
  PROVE  Kept /\ (~ panicked' => current' = next)
<1>0. next.tcb \in Tcb /\ (cur # None => cur \in Entry /\ cur.tcb \in Tcb)
  BY Zenon DEF Consistent, Entry
<1> DEFINE requeue == cur # None /\ st[cur.tcb] = "Running"
           left == IF requeue THEN [st EXCEPT ![cur.tcb] = "Inactive"] ELSE st
<1>2. left \in [Tcb -> ThreadState]
      /\ (requeue => left[cur.tcb] = "Inactive")
      /\ (\A e \in DOMAIN h : e.tcb \in Tcb /\ left[e.tcb] = "Inactive")
  <2>1. \A e \in DOMAIN h : e.tcb \in Tcb /\ st[e.tcb] = "Inactive"
    BY Zenon DEF Consistent, Simple, Entry
  <2>2. st \in [Tcb -> ThreadState]
    BY Zenon DEF Consistent
  <2> QED
    BY <1>0, <2>1, <2>2, Zenon DEF ThreadState
<1>3. CASE requeue /\ Full(h)
  <2>1. panicked' = TRUE /\ state' = left /\ ready' = h /\ current' = None
    BY <1>3, Zenon DEF context_switch
  <2>2. ~ Enough
    BY <1>0, <1>3, RoomForOneMore, Zenon DEF Consistent, Enough
  <2> QED
    BY <1>2, <2>1, <2>2, Zenon DEF Kept, Consistent, Agree
<1>4. CASE ~ (requeue /\ Full(h))
  <2>1. /\ state' = [left EXCEPT ![next.tcb] = "Running"]
        /\ ready' = IF requeue THEN push(h, cur) ELSE h
        /\ current' = next
        /\ panicked' = panicked
    BY <1>4, Zenon DEF context_switch
  <2>2. /\ Simple(ready')
        /\ \A e \in DOMAIN ready' : e \in DOMAIN h \/ (requeue /\ e = cur)
    <3>1. CASE requeue
      <4>1. Simple(push(h, cur)) /\ DOMAIN push(h, cur) = DOMAIN h \cup {cur}
        BY <1>0, <3>1, SimplePush, Zenon DEF Consistent
      <4> QED
        BY <2>1, <3>1, <4>1, Zenon
    <3>2. CASE ~ requeue
      BY <2>1, <3>2, Zenon DEF Consistent
    <3> QED
      BY <3>1, <3>2, Zenon
  <2> HIDE DEF left, requeue
  <2>3. \A e \in DOMAIN ready' : e.tcb # next.tcb /\ e.tcb \in Tcb
                                 /\ left[e.tcb] = "Inactive"
    <3>1. requeue => cur # None
      BY Zenon DEF requeue
    <3> QED
      BY <1>0, <1>2, <2>2, <3>1, Zenon DEF ReadyTcbs
  <2>4. state' \in [Tcb -> ThreadState]
        /\ \A t \in Tcb : state'[t] = IF t = next.tcb THEN "Running" ELSE left[t]
    BY <1>0, <1>2, <2>1, Zenon DEF ThreadState
  <2>5. Agree(state', current')
    <3>1. current' # None
      BY <2>1, NoneAssumption, Zenon
    <3> QED
      BY <1>0, <2>1, <2>4, <3>1, Zenon DEF Agree
  <2>6. Consistent(state', ready', current')
    BY <2>1, <2>2, <2>3, <2>4 DEF Consistent, ReadyTcbs
  <2> QED
    BY <2>1, <2>5, <2>6, Zenon DEF Kept
<1> QED
  BY <1>3, <1>4, Zenon

\* Dispatching the first entry of the heap keeps every thread in one place.
LEMMA DispatchKeeps ==
  ASSUME Counting, NEW st, NEW h, NEW cur, DOMAIN h # {},
         Consistent(st, h, cur), ~ panicked, panicked \in BOOLEAN,
         context_switch(First(h), cur, st, pop(h))
  PROVE  Kept /\ (~ panicked' => current' = First(h))
<1> DEFINE next == First(h)
           rest == pop(h)
<1>1. next \in DOMAIN h /\ next \in Entry
  BY FirstIsLeast, Zenon DEF Consistent, Simple
<1>2. Simple(rest) /\ DOMAIN rest = DOMAIN h \ {next}
  BY SimplePop, Zenon DEF Consistent
<1> HIDE DEF next, rest
<1>3. next.tcb \notin ReadyTcbs(rest)
  BY <1>1, <1>2, Zenon DEF Consistent, Simple, ReadyTcbs
<1>4. cur # None => cur.tcb # next.tcb
  BY <1>1, Zenon DEF Consistent, ReadyTcbs
<1>5. Consistent(st, rest, cur)
  BY <1>2, Zenon DEF Consistent, ReadyTcbs
<1>6. context_switch(next, cur, st, rest)
  BY Zenon DEF next, rest
<1>7. Kept /\ (~ panicked' => current' = next)
  BY <1>1, <1>3, <1>4, <1>5, <1>6, SwitchKeeps, Zenon
<1> QED
  BY <1>7, Zenon DEF next

\* schedule, called with no thread on the CPU or with one that is not the idle
\* thread, keeps every thread in one place; it may find nothing to run.
LEMMA ScheduleKeeps ==
  ASSUME Counting, NEW st, NEW h, NEW cur, Consistent(st, h, cur),
         ~ panicked, panicked \in BOOLEAN, idle \in Tcb \cup {None},
         cur # None => cur.tcb # idle, schedule(cur, st, h)
  PROVE  \/ Kept
         \/ state' = st /\ ready' = h /\ current' = cur /\ panicked' = panicked
<1>1. CASE DOMAIN h # {}
  <2>1. context_switch(First(h), cur, st, pop(h)) /\ DOMAIN h # {}
    BY <1>1, Zenon DEF schedule
  <2> QED
    BY <2>1, DispatchKeeps, Zenon
<1>2. CASE DOMAIN h = {} /\ idle # None
  <2> DEFINE next == [deadline |-> MaxDeadline, tcb |-> idle]
  <2>1. context_switch(next, cur, st, h)
    BY <1>2, Zenon DEF schedule
  <2>2. next \in Entry /\ next.tcb \notin ReadyTcbs(h) /\ next.tcb = idle
    BY <1>2, BoundAssumption DEF Entry, ReadyTcbs
  <2> HIDE DEF next
  <2> QED
    BY <2>1, <2>2, SwitchKeeps, Zenon
<1>3. CASE DOMAIN h = {} /\ idle = None
  BY <1>3, Zenon DEF schedule
<1> QED
  BY <1>1, <1>2, <1>3, Zenon

\* context_switch to a thread that is not blocked wakes and blocks nobody.
LEMMA SwitchMoves ==
  ASSUME NEW st \in [Tcb -> ThreadState], NEW h, NEW cur \in Entry \cup {None},
         NEW next \in Entry, st[next.tcb] \notin Blocked,
         context_switch(next, cur, st, h)
  PROVE  SameBlocked(st)
<1> DEFINE requeue == cur # None /\ st[cur.tcb] = "Running"
           left == IF requeue THEN [st EXCEPT ![cur.tcb] = "Inactive"] ELSE st
<1>1. "Inactive" \notin Blocked /\ "Running" \notin Blocked /\ next.tcb \in Tcb
  BY Zenon DEF Blocked, Entry
<1>2. state' = left \/ state' = [left EXCEPT ![next.tcb] = "Running"]
  BY Zenon DEF context_switch
<1>3. left \in [Tcb -> ThreadState]
      /\ \A t \in Tcb : left[t] = st[t] \/ (st[t] = "Running" /\ left[t] = "Inactive")
  BY Zenon DEF ThreadState
<1> HIDE DEF left
<1>4. \A t \in Tcb : state'[t] = left[t] \/ (t = next.tcb /\ state'[t] = "Running")
  BY <1>1, <1>2, <1>3, Zenon
<1> QED
  BY <1>1, <1>3, <1>4, Zenon DEF SameBlocked

\* The same of the dispatch of a ready thread.
LEMMA DispatchMoves ==
  ASSUME Counting, NEW st, NEW h, NEW cur, DOMAIN h # {}, Consistent(st, h, cur),
         context_switch(First(h), cur, st, pop(h))
  PROVE  SameBlocked(st)
<1>1. First(h) \in DOMAIN h /\ First(h) \in Entry
  BY FirstIsLeast, Zenon DEF Consistent, Simple
<1>2. st[First(h).tcb] \notin Blocked
  BY <1>1, Zenon DEF Consistent, Blocked
<1> QED
  BY <1>1, <1>2, SwitchMoves, Zenon DEF Consistent

\* The same of schedule.
LEMMA ScheduleMoves ==
  ASSUME Counting, NEW st, NEW h, NEW cur, Consistent(st, h, cur), idle \in Tcb \cup {None},
         idle # None => st[idle] \notin Blocked, schedule(cur, st, h)
  PROVE  SameBlocked(st)
<1>1. CASE DOMAIN h # {}
  BY <1>1, DispatchMoves, Zenon DEF schedule
<1>2. CASE DOMAIN h = {} /\ idle # None
  <2> DEFINE next == [deadline |-> MaxDeadline, tcb |-> idle]
  <2>1. context_switch(next, cur, st, h)
    BY <1>2, Zenon DEF schedule
  <2>2. next \in Entry /\ next.tcb = idle
    BY <1>2, BoundAssumption DEF Entry
  <2> HIDE DEF next
  <2> QED
    BY <1>2, <2>1, <2>2, SwitchMoves, Zenon DEF Consistent
<1>3. CASE DOMAIN h = {} /\ idle = None
  BY <1>3, Zenon DEF schedule, SameBlocked
<1> QED
  BY <1>1, <1>2, <1>3, Zenon

(***************************************************************************)
(* A thread becomes Running with getting the CPU, and only so.             *)
(***************************************************************************)
\* context_switch makes the thread it dispatches Running, and nobody else.
LEMMA SwitchRuns ==
  ASSUME NEW st \in [Tcb -> ThreadState], NEW h, NEW cur, NEW next \in Entry,
         Handed(st, cur), context_switch(next, cur, st, h)
  PROVE  RunsOnCpu
<1> DEFINE requeue == cur # None /\ st[cur.tcb] = "Running"
           left == IF requeue THEN [st EXCEPT ![cur.tcb] = "Inactive"] ELSE st
<1>1. \/ state' = left
      \/ state' = [left EXCEPT ![next.tcb] = "Running"] /\ current' = next
  BY Zenon DEF context_switch
<1>2. left \in [Tcb -> ThreadState]
      /\ \A t \in Tcb : left[t] = "Running" =>
             st[t] = "Running" /\ ~ (cur # None /\ cur.tcb = t)
  BY Zenon DEF ThreadState
<1> HIDE DEF left
<1>3. \A t \in Tcb : left[t] = "Running" => state[t] = "Running" /\ ~ OnCpu(t)
  BY <1>2, Zenon DEF Handed
<1>4. \A t \in Tcb : state'[t] = "Running" =>
          left[t] = "Running" \/ (current' = next /\ next.tcb = t)
  BY <1>1, <1>2, Zenon
<1>5. next # None
  BY NoneAssumption, Zenon
<1> QED
  BY <1>3, <1>4, <1>5, Zenon DEF RunsOnCpu, OnCpu

\* The same of the dispatch of a ready thread.
LEMMA DispatchRuns ==
  ASSUME Counting, NEW st, NEW h, NEW cur, DOMAIN h # {}, Consistent(st, h, cur),
         Handed(st, cur), context_switch(First(h), cur, st, pop(h))
  PROVE  RunsOnCpu
<1>1. First(h) \in Entry
  BY FirstIsLeast, Zenon DEF Consistent, Simple
<1> QED
  BY <1>1, SwitchRuns, Zenon DEF Consistent

\* The same of schedule.
LEMMA ScheduleRuns ==
  ASSUME Counting, NEW st, NEW h, NEW cur, Consistent(st, h, cur), idle \in Tcb \cup {None},
         Handed(st, cur), schedule(cur, st, h)
  PROVE  RunsOnCpu
<1>1. CASE DOMAIN h # {}
  BY <1>1, DispatchRuns, Zenon DEF schedule
<1>2. CASE DOMAIN h = {} /\ idle # None
  <2> DEFINE next == [deadline |-> MaxDeadline, tcb |-> idle]
  <2>1. context_switch(next, cur, st, h)
    BY <1>2, Zenon DEF schedule
  <2>2. next \in Entry
    BY <1>2, BoundAssumption DEF Entry
  <2> HIDE DEF next
  <2> QED
    BY <2>1, <2>2, SwitchRuns, Zenon DEF Consistent
<1>3. CASE DOMAIN h = {} /\ idle = None
  <2>1. state' = st /\ current' = cur
    BY <1>3, Zenon DEF schedule
  <2> QED
    BY <2>1, Zenon DEF Handed, RunsOnCpu, OnCpu
<1> QED
  BY <1>1, <1>2, <1>3, Zenon

\* A step that leaves the CPU alone and makes nobody Running.
LEMMA QuietRuns ==
  ASSUME current' = current,
         \A t \in Tcb : state'[t] = "Running" => state[t] = "Running"
  PROVE  RunsOnCpu
BY Zenon DEF RunsOnCpu, OnCpu

\* A thread given another state than Running makes nobody Running.
LEMMA SetQuiet ==
  ASSUME NEW st \in [Tcb -> ThreadState], NEW v \in ThreadState \ {"Running"}, NEW t
  PROVE  /\ [st EXCEPT ![t] = v] \in [Tcb -> ThreadState]
         /\ \A u \in Tcb : [st EXCEPT ![t] = v][u] = "Running" => st[u] = "Running"
BY Zenon

\* Nor does wake.
LEMMA WakeQuiet ==
  ASSUME NEW st \in [Tcb -> ThreadState], NEW h, NEW t
  PROVE  \A u \in Tcb : wake(st, h, t).state[u] = "Running" => st[u] = "Running"
<1>1. "Inactive" \in ThreadState \ {"Running"}
  BY Zenon DEF ThreadState
<1>2. wake(st, h, t).state = st \/ wake(st, h, t).state = [st EXCEPT ![t] = "Inactive"]
  BY Zenon DEF wake
<1> QED
  BY <1>1, <1>2, SetQuiet

\* What the callers of schedule hand it: the states as they are, or no thread on
\* the CPU and the one that was there no longer Running.
LEMMA HandedOver ==
  ASSUME state \in [Tcb -> ThreadState]
  PROVE  /\ Handed(state, current)
         /\ \A v \in ThreadState \ {"Running"} :
                Handed([state EXCEPT ![current.tcb] = v], None)
<1>1. Handed(state, current)
  BY Zenon DEF Handed, OnCpu
<1>2. ASSUME NEW v \in ThreadState \ {"Running"}
      PROVE  Handed([state EXCEPT ![current.tcb] = v], None)
  <2> DEFINE st == [state EXCEPT ![current.tcb] = v]
  <2>1. \A t \in Tcb : st[t] = IF t = current.tcb THEN v ELSE state[t]
    BY Zenon
  <2> HIDE DEF st
  <2>2. Handed(st, None)
    BY <1>2, <2>1, Zenon DEF Handed, OnCpu
  <2> QED
    BY <2>2, Zenon DEF st
<1> QED
  BY <1>1, <1>2, Zenon

\* The methods that switch, given what they find.
LEMMA MethodRuns ==
  ASSUME Counting, Consistent(state, ready, current), idle \in Tcb \cup {None}
  PROVE  /\ Preempt => RunsOnCpu
         /\ YieldCurrent => RunsOnCpu
         /\ \A s \in Blocked : BlockCurrent(s) => RunsOnCpu
         /\ Run => RunsOnCpu
<1>1. state \in [Tcb -> ThreadState] /\ Handed(state, current)
  BY HandedOver, Zenon DEF Consistent
<1>2. ASSUME Preempt PROVE RunsOnCpu
  <2>1. CASE should_preempt
    <3>1. context_switch(First(ready), current, state, pop(ready)) /\ DOMAIN ready # {}
      BY <1>2, <2>1, Zenon DEF Preempt, should_preempt
    <3> QED
      BY <1>1, <3>1, DispatchRuns, Zenon
  <2>2. CASE ~ should_preempt
    <3>1. UNCHANGED <<state, current>>
      BY <1>2, <2>2, Zenon DEF Preempt
    <3> QED
      BY <3>1, QuietRuns, Zenon
  <2> QED
    BY <2>1, <2>2, Zenon
<1>3. ASSUME YieldCurrent PROVE RunsOnCpu
  <2> DEFINE st == [state EXCEPT ![current.tcb] = "Inactive"]
  <2>1. current # None /\ current \in Entry /\ current.tcb \in Tcb
    BY <1>3, Zenon DEF YieldCurrent, Consistent, Entry
  <2>2. /\ st \in [Tcb -> ThreadState] /\ st[current.tcb] = "Inactive"
        /\ \A e \in DOMAIN ready : st[e.tcb] = "Inactive"
    BY <1>1, <2>1, Zenon DEF Consistent, Simple, Entry, ThreadState
  <2>3. Handed(st, None)
    <3>1. "Inactive" \in ThreadState \ {"Running"}
      BY Zenon DEF ThreadState
    <3> QED
      BY <1>1, <3>1, HandedOver, Zenon
  <2>4. CASE Full(ready)
    <3>1. state' = st
      BY <1>3, <2>4, Zenon DEF YieldCurrent
    <3> HIDE DEF st
    <3> QED
      BY <2>3, <3>1, Zenon DEF Handed, RunsOnCpu, OnCpu
  <2>5. CASE ~ Full(ready)
    <3>1. schedule(None, st, push(ready, current))
      BY <1>3, <2>5, Zenon DEF YieldCurrent
    <3>2. /\ Simple(push(ready, current))
          /\ DOMAIN push(ready, current) = DOMAIN ready \cup {current}
      BY <2>1, SimplePush, Zenon DEF Consistent
    <3> HIDE DEF st
    <3>3. Consistent(st, push(ready, current), None)
      BY <2>2, <3>2, Zenon DEF Consistent
    <3> QED
      BY <2>3, <3>1, <3>3, ScheduleRuns, Zenon
  <2> QED
    BY <2>4, <2>5, Zenon
<1>4. ASSUME NEW s \in Blocked, BlockCurrent(s) PROVE RunsOnCpu
  <2> DEFINE st == [state EXCEPT ![current.tcb] = s]
  <2>1. /\ current # None /\ current.tcb \in Tcb /\ schedule(None, st, ready)
        /\ current.tcb \notin ReadyTcbs(ready) /\ s \in ThreadState \ {"Running"}
    BY <1>4, Zenon DEF BlockCurrent, Consistent, Entry, Blocked, ThreadState
  <2>2. Handed(st, None)
    BY <1>1, <2>1, HandedOver, Zenon
  <2>3. Consistent(st, ready, None)
    BY <2>1, Zenon DEF Consistent, Simple, Entry, ReadyTcbs
  <2> HIDE DEF st
  <2> QED
    BY <2>1, <2>2, <2>3, ScheduleRuns, Zenon
<1>5. ASSUME Run PROVE RunsOnCpu
  BY <1>1, <1>5, ScheduleRuns, Zenon DEF Run
<1> QED
  BY <1>2, <1>3, <1>4, <1>5, Zenon

\* The methods that do not: they make a thread Inactive, or leave the states.
LEMMA StillRuns ==
  ASSUME Consistent(state, ready, current), NEW t \in Tcb,
         Prepare(t) \/ SetIdle(t) \/ Enqueue(t) \/ Wake(t)
  PROVE  RunsOnCpu
<1>1. current' = current
  BY Zenon DEF Prepare, SetIdle, Enqueue, Wake
<1>2. state' = state \/ state' = [state EXCEPT ![t] = "Inactive"]
  BY Zenon DEF Prepare, SetIdle, Enqueue, Wake, wake
<1>3. \A u \in Tcb : state'[u] = "Running" => state[u] = "Running"
  BY <1>2, Zenon DEF Consistent
<1> QED
  BY <1>1, <1>3, QuietRuns, Zenon

(***************************************************************************)
(* The scheduler's part of Endpoint.                                       *)
(***************************************************************************)
\* No call blocks a thread it does not run for, and none wakes one behind the
\* scheduler's back.
LEMMA NotReady ==
  ASSUME SchedInv, NEW t \in Tcb, state[t] # "Inactive"
  PROVE  t \notin ReadyTcbs(ready)
BY Zenon DEF SchedInv, Consistent, ReadyTcbs

\* The heap stays consistent when states of threads outside it change.
LEMMA ReadyStay ==
  ASSUME NEW st, NEW h, NEW cur, Consistent(st, h, cur),
         NEW new \in [Tcb -> ThreadState],
         \A t \in Tcb : new[t] # st[t] => t \notin ReadyTcbs(h)
  PROVE  Consistent(new, h, cur)
<1>1. \A e \in DOMAIN h : e.tcb \in Tcb /\ e.tcb \in ReadyTcbs(h)
  BY Zenon DEF Consistent, Simple, Entry, ReadyTcbs
<1> QED
  BY <1>1, Zenon DEF Consistent

\* The scheduler's part of the invariant, when states of threads change that
\* are neither ready nor idle and nobody starts to run.
LEMMA ThreadsChange ==
  ASSUME SchedInv, UNCHANGED <<ticks_consumed, current, idle, panicked>>,
         Consistent(state', ready', current),
         \A t \in Tcb : state'[t] # state[t] => t # idle /\ state'[t] # "Running",
         op' # None => ~ panicked /\ current # None /\ state'[current.tcb] = "Running"
  PROVE  SchedInv'
<1>1. current' # None /\ current'.tcb = idle' => state'[idle'] = "Running"
  <2>1. current # None /\ current.tcb = idle => idle # None
    BY TcbAssumption, Zenon DEF SchedInv, Consistent, Entry
  <2> QED
    BY <2>1, Zenon DEF SchedInv
<1> QED
  BY <1>1, Zenon DEF SchedInv

\* The scheduler's part holds when only ticks are counted.
LEMMA SchedSame ==
  ASSUME SchedInv, UNCHANGED <<state, ready, current, idle, panicked>>, op' = op,
         ticks_consumed' \in [Tcb -> 0 .. TICK_MOD - 1]
  PROVE  SchedInv'
BY Zenon DEF SchedInv

\* A switch, which leaves the thread on the CPU Running.
LEMMA SchedKept ==
  ASSUME SchedInv, Kept, idle' = idle, op' = None,
         ticks_consumed' \in [Tcb -> 0 .. TICK_MOD - 1],
         NEW st, SameBlocked(st), idle # None => st[idle] \notin Blocked
  PROVE  SchedInv'
<1>1. Consistent(state', ready', current') /\ panicked' \in BOOLEAN
      /\ Agree(state', current') /\ (Enough => ~ panicked')
  BY Zenon DEF Kept
<1>2. idle' # None => state'[idle'] \notin Blocked
  BY Zenon DEF SchedInv, SameBlocked
<1>3. current' # None /\ current'.tcb = idle' => state'[idle'] = "Running"
  BY <1>1, Zenon DEF Agree
<1> QED
  BY <1>1, <1>2, <1>3, Zenon DEF SchedInv

\* SameBlocked, of states that differ from state in a thread that was Running.
LEMMA SameUndisturbed ==
  ASSUME SameBlocked(state)
  PROVE  Undisturbed
BY Zenon DEF SameBlocked, Undisturbed, SameQueueing, Queueing, Blocked

\* Reply links stay right when they stay as they are and no caller wakes.
LEMMA CallerSame ==
  ASSUME CallerWaits, DataInv, UNCHANGED <<reply_to, caller>>,
         \A t \in Tcb : state[t] = "BlockedOnReply" => state'[t] = state[t]
  PROVE  CallerWaits'
BY DEF CallerWaits, DataInv

\* A step that leaves the queues alone.
LEMMA QueuesSame ==
  ASSUME EndpointInv, UNCHANGED <<queueVars, ipc_state, op>>, mr' \in Regs,
         reply_to' \in [Tcb -> Tcb \cup {None}], caller' \in [Tcb -> Tcb \cup {None}],
         SchedInv', CallerWaits', \A t \in Tcb : SameQueueing(t)
  PROVE  Good
<1>1. UNCHANGED <<ep_state, queue, ep_next, ep_prev, blocking_object, ipc_state, op>>
  BY Zenon DEF queueVars
<1>2. Lines' = Lines
  BY <1>1, Zenon DEF Lines, Waiting
<1>3. DataInv'
  BY <1>1, Zenon DEF EndpointInv, DataInv
<1>4. ListInv'
  BY <1>1, <1>2, Zenon DEF EndpointInv, ListInv, Splitting, QueueOf, NewQueue,
     KeptLine, RestLine
<1>5. Stays
  BY <1>1, <1>2, Zenon DEF Stays
<1>6. Settled
  BY <1>1, <1>2, Zenon DEF EndpointInv, MemberInv, Settled
<1> QED
  BY <1>3, <1>4, <1>5, <1>6, Zenon DEF Good, Moves

\* A step that touches no queue and blocks or wakes nobody in one is good.
LEMMA IpcQuiet ==
  ASSUME EndpointInv, UNCHANGED <<queueVars, ipc_state, reply_to, caller, op>>,
         mr' \in Regs, SchedInv', Undisturbed
  PROVE  Good
<1>1. CallerWaits'
  BY CallerSame, Zenon DEF EndpointInv, Undisturbed
<1>2. reply_to' \in [Tcb -> Tcb \cup {None}] /\ caller' \in [Tcb -> Tcb \cup {None}]
  BY Zenon DEF EndpointInv, DataInv
<1> QED
  BY <1>1, <1>2, QueuesSame, Zenon DEF Undisturbed

\* The same when no IPC field changes at all.
LEMMA IpcSame ==
  ASSUME EndpointInv, UNCHANGED ipcVars, SchedInv', Undisturbed
  PROVE  Good
<1>1. UNCHANGED <<queueVars, ipc_state, reply_to, caller, op>> /\ mr' = mr
  BY Zenon DEF ipcVars
<1>2. mr' \in Regs
  BY <1>1, Zenon DEF EndpointInv, DataInv
<1> QED
  BY <1>1, <1>2, IpcQuiet, Zenon

\* The thread in a call.
LEMMA Caller ==
  ASSUME EndpointInv, NEW t \in Tcb, Calling(t)
  PROVE  /\ op = None /\ ~ panicked /\ t # idle /\ state[t] = "Running"
         /\ current # None /\ current.tcb = t /\ t \notin ReadyTcbs(ready)
         /\ state \in [Tcb -> ThreadState]
         /\ \A e \in EP : ~ In(t, Lines[e])
         /\ \A e \in EP : Lines[e] = <<>> => ep_state[e] = "Idle"
<1>1. /\ op = None /\ ~ panicked /\ t # idle /\ state[t] = "Running"
      /\ current # None /\ current.tcb = t
  BY Zenon DEF Calling, IsRunning, OnCpu
<1>2. SchedInv /\ MemberInv
  BY Zenon DEF EndpointInv
<1>3. state \in [Tcb -> ThreadState] /\ t \notin ReadyTcbs(ready)
  BY <1>1, <1>2, Zenon DEF SchedInv, Consistent
<1>4. \A e \in EP : ~ In(t, Lines[e])
  BY <1>1, <1>2, Zenon DEF MemberInv, Queueing
<1> QED
  BY <1>1, <1>2, <1>3, <1>4, Zenon DEF MemberInv

\* A thread that is queued.
LEMMA InLine ==
  ASSUME EndpointInv, NEW e \in EP, NEW t \in Tcb, In(t, Lines[e])
  PROVE  /\ state[t] = BlockedFor(ep_state[e]) /\ state[t] \in Queueing
         /\ state[t] \in Blocked /\ state[t] # "Running" /\ state[t] # "BlockedOnReply"
         /\ t # idle /\ t \notin ReadyTcbs(ready)
         /\ blocking_object[t] = e
<1>1. state[t] = BlockedFor(ep_state[e]) /\ state[t] \in Queueing /\ blocking_object[t] = e
  BY Zenon DEF EndpointInv, MemberInv
<1>2. state[t] \in Blocked /\ state[t] # "Inactive" /\ state[t] # "Running"
      /\ state[t] # "BlockedOnReply"
  BY <1>1, Zenon DEF Queueing, Blocked
<1>3. t # idle
  BY <1>2, TcbAssumption, Zenon DEF EndpointInv, SchedInv
<1> QED
  BY <1>1, <1>2, <1>3, NotReady, Zenon DEF EndpointInv

\* A queued thread is restarted.
LEMMA RestartSched ==
  ASSUME Counting, EndpointInv, op # None, NEW e \in EP, NEW h \in Tcb, In(h, Lines[e]),
         Restart(h), UNCHANGED notLoopVars
  PROVE  /\ SchedInv' /\ CallerWaits'
         /\ state'[h] \notin Queueing /\ \A u \in Tcb : u # h => SameQueueing(u)
         /\ blocking_object' = [blocking_object EXCEPT ![h] = None]
         /\ blocking_object' \in [Tcb -> EP \cup {None}]
         /\ \A t \in Tcb : Gone(t) => t = h
<1>1. /\ state' = [state EXCEPT ![h] = "Inactive"]
      /\ blocking_object' = [blocking_object EXCEPT ![h] = None]
      /\ ready' = enqueue(state', ready, h)
      /\ UNCHANGED <<ticks_consumed, current, idle, panicked, ipc_state>>
      /\ UNCHANGED <<reply_to, caller, mr>>
  BY Zenon DEF Restart, notLoopVars
<1>2. SchedInv /\ DataInv /\ CallerWaits
  BY Zenon DEF EndpointInv
<1>3. /\ state \in [Tcb -> ThreadState] /\ ~ panicked /\ current # None
      /\ state[current.tcb] = "Running" /\ current.tcb \in Tcb
      /\ Consistent(state, ready, current)
      /\ blocking_object \in [Tcb -> EP \cup {None}]
  BY <1>2, Zenon DEF SchedInv, Consistent, Entry, DataInv
<1>4. /\ h # idle /\ h \notin ReadyTcbs(ready) /\ state[h] # "Running"
      /\ state[h] # "BlockedOnReply"
  BY InLine, Zenon
<1>5. /\ state' \in [Tcb -> ThreadState]
      /\ \A u \in Tcb : state'[u] = IF u = h THEN "Inactive" ELSE state[u]
  BY <1>1, <1>3, Zenon DEF ThreadState
<1>6. Consistent(state', ready, current)
  BY <1>3, <1>4, <1>5, ReadyStay, Zenon
<1>7. current.tcb # h
  BY <1>3, <1>4, Zenon
<1>8. Consistent(state', ready', current)
  BY <1>1, <1>4, <1>6, <1>7, EnqueueKeeps, Zenon
<1>9. SchedInv'
  BY <1>1, <1>2, <1>3, <1>4, <1>5, <1>7, <1>8, ThreadsChange, Zenon
<1>10. CallerWaits'
  BY <1>1, <1>2, <1>4, <1>5, CallerSame, Zenon
<1>11. state'[h] \notin Queueing /\ \A u \in Tcb : u # h => SameQueueing(u)
  BY <1>5, Zenon DEF Queueing, SameQueueing
<1>12. \A t \in Tcb : Gone(t) => t = h
  BY <1>1, <1>3, Zenon DEF Gone
<1>13. blocking_object' \in [Tcb -> EP \cup {None}]
  BY <1>1, <1>3, Zenon
<1> QED
  BY <1>1, <1>9, <1>10, <1>11, <1>12, <1>13, Zenon

(***************************************************************************)
(* The steps of Endpoint that only schedule.                               *)
(***************************************************************************)
\* set_idle keeps the invariant.
LEMMA SetIdleGood ==
  ASSUME EndpointInv, NEW t \in Idlers, SetIdleThread(t)
  PROVE  Good
<1>1. /\ state' = [state EXCEPT ![t] = "Inactive"] /\ ready' = ready
      /\ current' = current /\ current = None /\ panicked' = panicked /\ ~ panicked
      /\ idle' = t /\ ticks_consumed' = ticks_consumed /\ Detached(t)
      /\ UNCHANGED ipcVars /\ op = None /\ state[t] \notin Blocked /\ t \in Tcb
  BY DataAssumption, Zenon DEF SetIdleThread, SetIdle
<1>2. SchedInv /\ op' = None
  BY <1>1, Zenon DEF EndpointInv, ipcVars
<1>3. state' \in [Tcb -> ThreadState] /\ state \in [Tcb -> ThreadState]
  BY <1>1, <1>2, Zenon DEF SchedInv, Consistent, ThreadState
<1>4. Consistent(state', ready', current')
  <2>1. \A u \in Tcb : state'[u] # state[u] => u \notin ReadyTcbs(ready)
    BY <1>1 DEF Detached
  <2> QED
    BY <1>1, <1>2, <1>3, <2>1, ReadyStay, Zenon DEF SchedInv
<1>5. state'[idle'] \notin Blocked
  BY <1>1 DEF Blocked
<1>6. /\ ticks_consumed' \in [Tcb -> 0 .. TICK_MOD - 1] /\ idle' \in Tcb \cup {None}
      /\ panicked' \in BOOLEAN /\ ~ panicked' /\ current' = None
  BY <1>1, <1>2, Zenon DEF SchedInv
<1>7. SchedInv'
  BY <1>2, <1>4, <1>5, <1>6, Zenon DEF SchedInv
<1>8. SameBlocked(state)
  BY <1>1 DEF SameBlocked, Blocked
<1> QED
  BY <1>1, <1>7, <1>8, SameUndisturbed, IpcSame, Zenon

\* enqueue, and making a new thread Inactive before it, keep the invariant.
LEMMA ResumeGood ==
  ASSUME EndpointInv, NEW t \in Tcb, Resume(t)
  PROVE  Good
<1>1. UNCHANGED ipcVars /\ op = None /\ op' = None /\ SchedInv
  BY Zenon DEF Resume, EndpointInv, ipcVars
<1>2. CASE Prepare(t)
  <2>1. /\ state' = [state EXCEPT ![t] = "Inactive"] /\ state[t] = "Running"
        /\ ~ OnCpu(t) /\ UNCHANGED <<ticks_consumed, ready, current, idle, panicked>>
    BY <1>2, Zenon DEF Prepare
  <2>2. /\ state' \in [Tcb -> ThreadState] /\ Consistent(state, ready, current)
        /\ \A u \in Tcb : state'[u] = IF u = t THEN "Inactive" ELSE state[u]
    BY <1>1, <2>1, Zenon DEF SchedInv, Consistent, ThreadState
  <2>3. t \notin ReadyTcbs(ready)
    BY <1>1, <2>1, NotReady
  <2>4. Consistent(state', ready', current')
    BY <2>1, <2>2, <2>3, ReadyStay, Zenon
  <2>5. idle' # None => state'[idle'] \notin Blocked
    BY <1>1, <2>1, <2>2, Zenon DEF SchedInv, Blocked
  <2>6. current' # None /\ current'.tcb = idle' => state'[idle'] = "Running"
    <3>1. current # None => current.tcb \in Tcb /\ current.tcb # t
      BY <2>1, <2>2, Zenon DEF OnCpu, Consistent, Entry
    <3> QED
      BY <1>1, <2>1, <2>2, <3>1, Zenon DEF SchedInv
  <2>7. SchedInv'
    BY <1>1, <2>1, <2>4, <2>5, <2>6, Zenon DEF SchedInv
  <2>8. SameBlocked(state)
    BY <2>1, <2>2, Zenon DEF SameBlocked, Blocked
  <2> QED
    BY <1>1, <2>7, <2>8, SameUndisturbed, IpcSame, Zenon
<1>3. CASE Enqueue(t)
  <2>1. /\ ready' = enqueue(state, ready, t) /\ Detached(t) /\ t # idle
        /\ UNCHANGED <<state, ticks_consumed, current, idle, panicked>>
    BY <1>3, Zenon DEF Enqueue
  <2>2. Consistent(state, enqueue(state, ready, t), current)
    BY <1>1, <2>1, EnqueueKeeps, Zenon DEF Detached, SchedInv
  <2>3. Consistent(state', ready', current)
    BY <2>1, <2>2, Zenon
  <2>4. SchedInv'
    BY <1>1, <2>1, <2>3, ThreadsChange, Zenon
  <2>5. SameBlocked(state)
    BY <2>1, Zenon DEF SameBlocked
  <2> QED
    BY <1>1, <2>4, <2>5, SameUndisturbed, IpcSame, Zenon
<1> QED
  BY <1>2, <1>3, Zenon DEF Resume

\* preempt keeps the invariant.
LEMMA TickGood ==
  ASSUME Counting, EndpointInv, Tick
  PROVE  Good
<1>1. Preempt /\ op = None /\ UNCHANGED ipcVars /\ op' = None /\ SchedInv
  BY Zenon DEF Tick, EndpointInv, ipcVars
<1>2. ticks_consumed' \in [Tcb -> 0 .. TICK_MOD - 1]
  <2>1. \A n \in 0 .. TICK_MOD - 1 : (n + 1) % TICK_MOD \in 0 .. TICK_MOD - 1
    BY BoundAssumption
  <2> QED
    BY <1>1, <2>1, Zenon DEF Preempt, inc_tick, SchedInv
<1>3. ~ panicked /\ idle' = idle /\ panicked \in BOOLEAN
  BY <1>1, Zenon DEF Preempt, SchedInv
<1>4. CASE should_preempt
  <2>1. context_switch(First(ready), current, state, pop(ready)) /\ DOMAIN ready # {}
    BY <1>1, <1>4, Zenon DEF Preempt, should_preempt
  <2>2. Kept
    BY <1>1, <1>3, <2>1, DispatchKeeps, Zenon DEF SchedInv
  <2>3. SameBlocked(state)
    BY <1>1, <2>1, DispatchMoves, Zenon DEF SchedInv
  <2>4. SchedInv'
    BY <1>1, <1>2, <1>3, <2>2, <2>3, SchedKept, Zenon DEF SchedInv
  <2> QED
    BY <1>1, <2>3, <2>4, SameUndisturbed, IpcSame, Zenon
<1>5. CASE ~ should_preempt
  <2>1. UNCHANGED <<state, ready, current, panicked>>
    BY <1>1, <1>5, Zenon DEF Preempt
  <2>2. SchedInv'
    BY <1>1, <1>2, <1>3, <2>1, SchedSame, Zenon
  <2>3. SameBlocked(state)
    BY <2>1, Zenon DEF SameBlocked
  <2> QED
    BY <1>1, <2>2, <2>3, SameUndisturbed, IpcSame, Zenon
<1> QED
  BY <1>4, <1>5, Zenon

\* run keeps the invariant, also when the current thread has blocked.
LEMMA SwitchGood ==
  ASSUME Counting, EndpointInv, Switch
  PROVE  Good
<1>1. /\ Run /\ op = None /\ UNCHANGED ipcVars /\ op' = None /\ SchedInv
      /\ ~ panicked /\ schedule(current, state, ready)
      /\ current # None => state[current.tcb] # "Running"
      /\ ticks_consumed' = ticks_consumed /\ idle' = idle
  BY Zenon DEF Switch, Run, EndpointInv, ipcVars
<1>2. /\ current # None => current.tcb # idle
      /\ Consistent(state, ready, current)
      /\ panicked \in BOOLEAN /\ idle \in Tcb \cup {None}
      /\ idle # None => state[idle] \notin Blocked
      /\ ticks_consumed' \in [Tcb -> 0 .. TICK_MOD - 1]
  BY <1>1, Zenon DEF SchedInv
<1>3. SameBlocked(state)
  BY <1>1, <1>2, ScheduleMoves, Zenon
<1>4. \/ Kept
      \/ state' = state /\ ready' = ready /\ current' = current /\ panicked' = panicked
  BY <1>1, <1>2, ScheduleKeeps, Zenon
<1>5. SchedInv'
  <2>1. CASE Kept
    BY <1>1, <1>2, <1>3, <2>1, SchedKept, Zenon
  <2>2. CASE state' = state /\ ready' = ready /\ current' = current /\ panicked' = panicked
    BY <1>1, <1>2, <2>2, SchedSame, Zenon
  <2> QED
    BY <1>4, <2>1, <2>2, Zenon
<1> QED
  BY <1>1, <1>3, <1>5, SameUndisturbed, IpcSame, Zenon

\* The thread on the CPU gives it up, Inactive or to wait for a notification.
LEMMA GivesUp ==
  ASSUME SchedInv, NEW v \in {"Inactive", "BlockedOnNotification"}, NEW st,
         current # None, state[current.tcb] = "Running",
         st = [state EXCEPT ![current.tcb] = v]
  PROVE  /\ st \in [Tcb -> ThreadState] /\ current.tcb \in Tcb /\ current \in Entry
         /\ Consistent(st, ready, None) /\ Agree(st, None)
         /\ st[current.tcb] = v
         /\ SameBlocked(st) => Undisturbed
<1>1. /\ state \in [Tcb -> ThreadState] /\ current.tcb \in Tcb /\ current \in Entry
      /\ Consistent(state, ready, current)
  BY Zenon DEF SchedInv, Consistent, Entry
<1>2. st \in [Tcb -> ThreadState]
      /\ \A t \in Tcb : st[t] = IF t = current.tcb THEN v ELSE state[t]
  BY <1>1, Zenon DEF ThreadState, Blocked
<1>3. Consistent(st, ready, current)
  <2>1. \A t \in Tcb : st[t] # state[t] => t \notin ReadyTcbs(ready)
    BY <1>1, Zenon DEF Consistent
  <2> QED
    BY <1>1, <1>2, <2>1, ReadyStay, Zenon
<1>4. Consistent(st, ready, None)
  BY <1>3, Zenon DEF Consistent
<1>5. Agree(st, None)
  BY Zenon DEF Agree
<1>6. ASSUME SameBlocked(st) PROVE Undisturbed
  <2> SUFFICES ASSUME NEW t \in Tcb
               PROVE  /\ SameQueueing(t)
                      /\ state[t] = "BlockedOnReply" => state'[t] = state[t]
    BY Zenon DEF Undisturbed
  <2>1. st[t] \in Blocked \/ state'[t] \in Blocked => state'[t] = st[t]
    BY <1>6, Zenon DEF SameBlocked
  <2>2. CASE t = current.tcb
    <3> QED
      BY <2>1 DEF SameQueueing, Queueing, Blocked
  <2>3. CASE t # current.tcb
    <3> QED
      BY <2>1 DEF SameQueueing, Queueing, Blocked
  <2> QED
    BY <2>2, <2>3, Zenon
<1> QED
  BY <1>1, <1>2, <1>4, <1>5, <1>6

\* yield_current keeps the invariant.
LEMMA YieldGood ==
  ASSUME Counting, EndpointInv, Yield
  PROVE  Good
<1> DEFINE st == [state EXCEPT ![current.tcb] = "Inactive"]
<1>1. /\ op = None /\ UNCHANGED ipcVars /\ op' = None /\ SchedInv
      /\ ~ panicked /\ current # None /\ state[current.tcb] = "Running"
      /\ ticks_consumed' = ticks_consumed /\ idle' = idle
  BY Zenon DEF Yield, YieldCurrent, IsRunning, OnCpu, EndpointInv, ipcVars
<1>2. /\ st \in [Tcb -> ThreadState] /\ current.tcb \in Tcb /\ current \in Entry
      /\ Consistent(st, ready, None) /\ Agree(st, None) /\ st[current.tcb] = "Inactive"
      /\ SameBlocked(st) => Undisturbed
  BY <1>1, GivesUp, Zenon
<1>3. /\ Simple(ready) /\ current.tcb \notin ReadyTcbs(ready)
      /\ panicked \in BOOLEAN /\ idle \in Tcb \cup {None}
      /\ ticks_consumed' \in [Tcb -> 0 .. TICK_MOD - 1]
  BY <1>1, Zenon DEF SchedInv, Consistent
<1>4. idle # None => st[idle] \notin Blocked
  BY <1>1, Zenon DEF SchedInv, Consistent, Blocked
<1>5. CASE Full(ready)
  <2>1. panicked' = TRUE /\ state' = st /\ current' = None /\ ready' = ready
    BY <1>5, Zenon DEF Yield, YieldCurrent
  <2>2. ~ Enough
    BY <1>2, <1>3, <1>5, RoomForOneMore, Zenon DEF Enough
  <2> HIDE DEF st
  <2>3. Kept
    BY <1>2, <2>1, <2>2, Zenon DEF Kept
  <2>4. SameBlocked(st)
    BY <2>1, Zenon DEF SameBlocked
  <2>5. SchedInv'
    BY <1>1, <1>3, <1>4, <2>3, <2>4, SchedKept, Zenon
  <2> QED
    BY <1>1, <1>2, <2>4, <2>5, IpcSame, Zenon
<1>6. CASE ~ Full(ready)
  <2>1. schedule(None, st, push(ready, current))
    BY <1>6, Zenon DEF Yield, YieldCurrent
  <2>2. /\ Simple(push(ready, current))
        /\ DOMAIN push(ready, current) = DOMAIN ready \cup {current}
    BY <1>2, <1>3, SimplePush, Zenon
  <2> HIDE DEF st
  <2>3. Consistent(st, push(ready, current), None)
    BY <1>2, <2>2, Zenon DEF Consistent
  <2>4. SameBlocked(st)
    BY <1>3, <1>4, <2>1, <2>3, ScheduleMoves, Zenon
  <2>5. Kept
    <3>1. \/ Kept
          \/ /\ state' = st /\ ready' = push(ready, current) /\ current' = None
             /\ panicked' = panicked
      BY <1>1, <1>3, <2>1, <2>3, ScheduleKeeps, Zenon
    <3> QED
      BY <1>1, <1>2, <1>3, <2>3, <3>1 DEF Kept
  <2>6. SchedInv'
    BY <1>1, <1>3, <1>4, <2>4, <2>5, SchedKept, Zenon
  <2> QED
    BY <1>1, <1>2, <2>4, <2>6, IpcSame, Zenon
<1> QED
  BY <1>5, <1>6, Zenon

\* Blocking on a notification keeps the invariant.
LEMMA WaitGood ==
  ASSUME Counting, EndpointInv, WaitNotification
  PROVE  Good
<1> DEFINE st == [state EXCEPT ![current.tcb] = "BlockedOnNotification"]
<1>1. /\ op = None /\ UNCHANGED ipcVars /\ op' = None /\ SchedInv
      /\ ~ panicked /\ current # None /\ state[current.tcb] = "Running"
      /\ current.tcb # idle /\ schedule(None, st, ready)
      /\ ticks_consumed' = ticks_consumed /\ idle' = idle
  BY Zenon DEF WaitNotification, BlockCurrent, Calling, IsRunning, OnCpu,
     EndpointInv, ipcVars
<1>2. /\ st \in [Tcb -> ThreadState] /\ current.tcb \in Tcb
      /\ Consistent(st, ready, None) /\ Agree(st, None)
      /\ SameBlocked(st) => Undisturbed
  BY <1>1, GivesUp, Zenon
<1>3. /\ panicked \in BOOLEAN /\ idle \in Tcb \cup {None}
      /\ ticks_consumed' \in [Tcb -> 0 .. TICK_MOD - 1]
  BY <1>1, Zenon DEF SchedInv
<1>4. idle # None => st[idle] \notin Blocked
  BY <1>1, Zenon DEF SchedInv, Consistent
<1> HIDE DEF st
<1>5. SameBlocked(st)
  BY <1>1, <1>2, <1>3, <1>4, ScheduleMoves, Zenon
<1>6. Kept
  <2>1. Kept \/ (state' = st /\ ready' = ready /\ current' = None /\ panicked' = panicked)
    BY <1>1, <1>2, <1>3, ScheduleKeeps, Zenon
  <2> QED
    BY <1>1, <1>2, <1>3, <2>1 DEF Kept
<1>7. SchedInv'
  BY <1>1, <1>3, <1>4, <1>5, <1>6, SchedKept, Zenon
<1> QED
  BY <1>1, <1>2, <1>5, <1>7, IpcSame, Zenon

(***************************************************************************)
(* Executor: its steps keep every thread in one place.                     *)
(***************************************************************************)
\* Nothing is scheduled at boot.
LEMMA InitExecInv == ExecInit => ExecInv
<1> SUFFICES ASSUME ExecInit PROVE ExecInv
  BY Zenon
<1>1. Simple(ready) /\ DOMAIN ready = {}
  BY Zenon DEF ExecInit, Simple
<1>2. 0 \in 0 .. TICK_MOD - 1
  BY BoundAssumption
<1> QED
  BY <1>1, <1>2, Zenon DEF ExecInit, ExecInv, Consistent, Agree, ThreadState

\* Every method of the executor keeps the invariant.
LEMMA NextExecInv ==
  ASSUME Counting, ExecInv, [ExecNext]_execVars
  PROVE  ExecInv'
<1>0. ASSUME Kept, idle' \in Tcb \cup {None},
             ticks_consumed' \in [Tcb -> 0 .. TICK_MOD - 1]
      PROVE  ExecInv'
  BY <1>0, Zenon DEF ExecInv, Kept, Consistent, Agree, Simple, ReadyTcbs, Enough
<1>9. ASSUME NEW t \in Tcb, Prepare(t)
      PROVE  ExecInv'
  <2>1. /\ state' = [state EXCEPT ![t] = "Inactive"] /\ state[t] = "Running"
        /\ ~ OnCpu(t) /\ UNCHANGED <<ticks_consumed, ready, current, idle, panicked>>
    BY <1>9, Zenon DEF Prepare
  <2>2. /\ state' \in [Tcb -> ThreadState] /\ Consistent(state, ready, current)
        /\ \A u \in Tcb : state'[u] = IF u = t THEN "Inactive" ELSE state[u]
    BY <2>1, Zenon DEF ExecInv, Consistent, ThreadState
  <2>3. Consistent(state', ready', current')
    BY <2>1, <2>2, Zenon DEF Consistent, Simple, Entry
  <2>4. Agree(state', current')
    BY <2>1, <2>2, Zenon DEF ExecInv, Agree, OnCpu, Consistent, Entry
  <2>5. Kept
    BY <2>1, <2>3, <2>4, Zenon DEF ExecInv, Kept
  <2> QED
    BY <1>0, <2>1, <2>5, Zenon DEF ExecInv
<1>1. ASSUME NEW t \in Tcb, SetIdle(t)
      PROVE  ExecInv'
  <2>1. /\ state' = [state EXCEPT ![t] = "Inactive"] /\ ready' = ready
        /\ current' = current /\ current = None /\ panicked' = panicked
        /\ idle' = t /\ ticks_consumed' = ticks_consumed /\ ~ panicked
    BY <1>1, Zenon DEF SetIdle
  <2>2. Consistent(state', ready', current')
    BY <2>1, Zenon DEF ExecInv, Consistent, ThreadState, Simple, Entry
  <2>3. Agree(state', current')
    BY <2>1, Zenon DEF Agree
  <2>4. Kept
    BY <2>1, <2>2, <2>3, Zenon DEF ExecInv, Kept
  <2> QED
    BY <1>0, <2>1, <2>4, Zenon DEF ExecInv
<1>2. ASSUME NEW t \in Tcb, Enqueue(t)
      PROVE  ExecInv'
  <2>1. /\ ready' = enqueue(state, ready, t) /\ Detached(t)
        /\ UNCHANGED <<state, ticks_consumed, current, idle, panicked>>
    BY <1>2, Zenon DEF Enqueue
  <2>2. Consistent(state, enqueue(state, ready, t), current)
    BY <2>1, EnqueueKeeps, Zenon DEF Detached, ExecInv
  <2>3. Kept
    BY <2>1, <2>2, Zenon DEF ExecInv, Kept
  <2> QED
    BY <1>0, <2>1, <2>3, Zenon DEF ExecInv
<1>3. ASSUME NEW t \in Tcb, Wake(t)
      PROVE  ExecInv'
  <2>1. /\ state' = wake(state, ready, t).state /\ ready' = wake(state, ready, t).ready
        /\ UNCHANGED <<ticks_consumed, current, idle, panicked>> /\ ~ panicked
    BY <1>3, Zenon DEF Wake
  <2>2. CASE state[t] \notin Blocked
    <3>1. state' = state /\ ready' = ready
      BY <2>1, <2>2, Zenon DEF wake
    <3>2. Kept
      BY <2>1, <3>1, Zenon DEF ExecInv, Kept
    <3> QED
      BY <1>0, <2>1, <3>2, Zenon DEF ExecInv
  <2>3. CASE state[t] \in Blocked
    <3> DEFINE woken == [state EXCEPT ![t] = "Inactive"]
    <3>1. state' = woken /\ ready' = enqueue(woken, ready, t)
      BY <2>1, <2>3, Zenon DEF wake
    <3>2. state[t] # "Running" /\ state[t] # "Inactive"
      BY <2>3, Zenon DEF Blocked
    <3>3. t \notin ReadyTcbs(ready)
      BY <3>2, Zenon DEF ExecInv, Consistent, ReadyTcbs
    <3>4. current # None => current.tcb # t
      BY <2>1, <3>2, Zenon DEF ExecInv, Agree
    <3>5. Consistent(woken, ready, current)
      BY Zenon DEF ExecInv, Consistent, Simple, Entry, ThreadState
    <3>6. Agree(woken, current)
      BY <3>4, Zenon DEF ExecInv, Agree, Consistent, Entry
    <3> HIDE DEF woken
    <3>7. Consistent(woken, enqueue(woken, ready, t), current)
      BY <3>3, <3>4, <3>5, EnqueueKeeps, Zenon
    <3>8. Kept
      BY <2>1, <3>1, <3>6, <3>7, Zenon DEF ExecInv, Kept
    <3> QED
      BY <1>0, <2>1, <3>8, Zenon DEF ExecInv
  <2> QED
    BY <2>2, <2>3, Zenon
<1>4. CASE Preempt
  <2>1. ticks_consumed' \in [Tcb -> 0 .. TICK_MOD - 1]
    <3>1. \A n \in 0 .. TICK_MOD - 1 : (n + 1) % TICK_MOD \in 0 .. TICK_MOD - 1
      BY BoundAssumption
    <3> QED
      BY <1>4, <3>1, Zenon DEF Preempt, inc_tick, ExecInv
  <2>2. ~ panicked /\ idle' = idle
    BY <1>4, Zenon DEF Preempt
  <2>3. CASE should_preempt
    <3>1. context_switch(First(ready), current, state, pop(ready)) /\ DOMAIN ready # {}
      BY <1>4, <2>3, Zenon DEF Preempt, should_preempt
    <3>2. Kept
      BY <2>2, <3>1, DispatchKeeps, Zenon DEF ExecInv
    <3> QED
      BY <1>0, <2>1, <2>2, <3>2 DEF ExecInv
  <2>4. CASE ~ should_preempt
    <3>1. UNCHANGED <<state, ready, current, panicked>>
      BY <1>4, <2>4, Zenon DEF Preempt
    <3>2. Kept
      BY <3>1, Zenon DEF ExecInv, Kept
    <3> QED
      BY <1>0, <2>1, <2>2, <3>2, Zenon DEF ExecInv
  <2> QED
    BY <2>3, <2>4, Zenon
<1>5. CASE YieldCurrent
  <2> DEFINE st == [state EXCEPT ![current.tcb] = "Inactive"]
  <2>1. /\ ~ panicked /\ current # None /\ current \in Entry /\ current.tcb \in Tcb
        /\ ticks_consumed' = ticks_consumed /\ idle' = idle
    BY <1>5, Zenon DEF YieldCurrent, ExecInv, Consistent, Entry
  <2>2. st \in [Tcb -> ThreadState] /\ st[current.tcb] = "Inactive"
        /\ \A e \in DOMAIN ready : st[e.tcb] = "Inactive"
    BY <2>1, Zenon DEF ExecInv, Consistent, Simple, Entry, ThreadState
  <2>3. Agree(st, None)
    BY Zenon DEF Agree
  <2>4. CASE Full(ready)
    <3>1. panicked' = TRUE /\ state' = st /\ current' = None /\ ready' = ready
      BY <1>5, <2>4, Zenon DEF YieldCurrent
    <3>2. ~ Enough
      BY <2>1, <2>4, RoomForOneMore, Zenon DEF ExecInv, Consistent, Enough
    <3> HIDE DEF st
    <3>3. Kept
      BY <2>2, <2>3, <3>1, <3>2, Zenon DEF ExecInv, Kept, Consistent
    <3> QED
      BY <1>0, <2>1, <3>3, Zenon DEF ExecInv
  <2>5. CASE ~ Full(ready)
    <3>1. schedule(None, st, push(ready, current))
      BY <1>5, <2>5, Zenon DEF YieldCurrent
    <3>2. /\ Simple(push(ready, current))
          /\ DOMAIN push(ready, current) = DOMAIN ready \cup {current}
      BY <2>1, SimplePush, Zenon DEF ExecInv, Consistent
    <3> HIDE DEF st
    <3>3. Consistent(st, push(ready, current), None)
      BY <2>2, <3>2, Zenon DEF Consistent
    <3>4. Kept
      BY <2>1, <2>3, <3>1, <3>3, ScheduleKeeps DEF ExecInv, Kept
    <3> QED
      BY <1>0, <2>1, <3>4, Zenon DEF ExecInv
  <2> QED
    BY <2>4, <2>5, Zenon
<1>6. ASSUME NEW s \in Blocked, BlockCurrent(s)
      PROVE  ExecInv'
  <2> DEFINE st == [state EXCEPT ![current.tcb] = s]
  <2>1. /\ ~ panicked /\ current # None /\ current.tcb \in Tcb
        /\ current.tcb \notin ReadyTcbs(ready)
        /\ schedule(None, st, ready)
        /\ ticks_consumed' = ticks_consumed /\ idle' = idle
    BY <1>6, Zenon DEF BlockCurrent, ExecInv, Consistent, Entry
  <2>2. Consistent(st, ready, None)
    BY <1>6, <2>1, Zenon DEF ExecInv, Consistent, Simple, Entry, ThreadState, ReadyTcbs
  <2>3. Agree(st, None)
    BY Zenon DEF Agree
  <2> HIDE DEF st
  <2>4. Kept
    BY <2>1, <2>2, <2>3, ScheduleKeeps, Zenon DEF ExecInv, Kept
  <2> QED
    BY <1>0, <2>1, <2>4, Zenon DEF ExecInv
<1>7. CASE Run
  <2>1. /\ ~ panicked /\ schedule(current, state, ready)
        /\ current # None => state[current.tcb] # "Running"
        /\ ticks_consumed' = ticks_consumed /\ idle' = idle
    BY <1>7, Zenon DEF Run
  <2>2. current = None
    BY <2>1, Zenon DEF ExecInv, Agree, Consistent, Entry
  <2>3. Kept
    BY <2>1, <2>2, ScheduleKeeps DEF ExecInv, Kept
  <2> QED
    BY <1>0, <2>1, <2>3, Zenon DEF ExecInv
<1>8. CASE UNCHANGED execVars
  <2>1. Kept
    BY <1>8, Zenon DEF execVars, ExecInv, Kept
  <2> QED
    BY <1>0, <1>8, <2>1, Zenon DEF execVars, ExecInv
<1> QED
  BY <1>1, <1>2, <1>3, <1>4, <1>5, <1>6, <1>7, <1>8, <1>9 DEF ExecNext

\* Every method of the executor makes a thread Running with giving it the CPU.
LEMMA NextExecRuns ==
  ASSUME Counting, ExecInv, [ExecNext]_execVars
  PROVE  RunsOnCpu
<1>1. Consistent(state, ready, current) /\ idle \in Tcb \cup {None}
  BY Zenon DEF ExecInv
<1>2. CASE UNCHANGED execVars
  BY <1>2, QuietRuns, Zenon DEF execVars
<1>3. CASE ExecNext
  BY <1>1, <1>3, MethodRuns, StillRuns, Zenon DEF ExecNext
<1> QED
  BY <1>2, <1>3, Zenon

\* A tick that switches dispatches a thread that no ready one precedes, and one
\* with an earlier deadline than the thread on the CPU.
LEMMA TickEdf ==
  ASSUME Counting, Enough, ExecInv, ExecInv', Preempt, current' # current
  PROVE  /\ current # None => current'.deadline < current.deadline
         /\ \A e \in DOMAIN ready' : current'.deadline <= e.deadline
<1>1. should_preempt
  BY Zenon DEF Preempt
<1>2. /\ context_switch(First(ready), current, state, pop(ready))
      /\ DOMAIN ready # {} /\ ~ panicked /\ ~ panicked'
      /\ current # None => First(ready).deadline < current.deadline
  BY <1>1, Zenon DEF Preempt, should_preempt, ExecInv
<1>3. current' = First(ready)
  BY <1>2, DispatchKeeps, Zenon DEF ExecInv
<1>4. /\ First(ready) \in DOMAIN ready
      /\ \A f \in DOMAIN ready : First(ready).deadline <= f.deadline
  BY <1>2, FirstIsLeast, Zenon DEF ExecInv, Consistent
<1>5. \A e \in DOMAIN ready' : e \in DOMAIN ready \/ (current # None /\ e = current)
  <2>1. Simple(pop(ready)) /\ DOMAIN pop(ready) \subseteq DOMAIN ready
    BY <1>2, SimplePop, Zenon DEF ExecInv, Consistent
  <2>2. \/ ready' = pop(ready)
        \/ current # None /\ ready' = push(pop(ready), current)
    BY <1>2, Zenon DEF context_switch
  <2>3. current # None => /\ current \in Entry
                          /\ current.tcb \notin ReadyTcbs(pop(ready))
    BY <2>1, Zenon DEF ExecInv, Consistent, ReadyTcbs
  <2>4. current # None =>
           DOMAIN push(pop(ready), current) = DOMAIN pop(ready) \cup {current}
    BY <2>1, <2>3, SimplePush, Zenon
  <2> QED
    BY <2>1, <2>2, <2>4, Zenon
<1>6. \A e \in DOMAIN ready' : First(ready).deadline <= e.deadline
  <2>1. \A e \in Entry : e.deadline \in Nat
    BY BoundAssumption DEF Entry
  <2>2. First(ready) \in Entry /\ (current # None => current \in Entry)
    BY <1>4, Zenon DEF ExecInv, Consistent, Simple
  <2> QED
    BY <1>2, <1>4, <1>5, <2>1, <2>2
<1> QED
  BY <1>2, <1>3, <1>6, Zenon

(***************************************************************************)
(* What the links of a TcbQueue stand for.                                 *)
(***************************************************************************)
\* The least element of a set of natural numbers.
LEMMA LeastNat ==
  ASSUME Counting, NEW T \in SUBSET Nat, T # {}
  PROVE  \E x \in T : \A y \in T : x <= y
BY Zenon DEF Counting

\* There is a function that satisfies the recursion of Follow, up to any depth.
LEMMA FollowExists ==
  ASSUME Counting, NEW next \in [Tcb -> Tcb \cup {None}], NEW N \in Nat
  PROVE  \E f : f = [n \in 0 .. N |-> Further(next, n, f[n - 1])]
<1> DEFINE Bad == {m \in Nat : ~ \E f : f = [n \in 0 .. m |-> Further(next, n, f[n - 1])]}
<1>1. ASSUME Bad # {} PROVE FALSE
  <2>1. PICK m \in Bad : \A y \in Bad : m <= y
    BY <1>1, LeastNat, Zenon
  <2>2. CASE m = 0
    <3> DEFINE f == [n \in 0 .. 0 |-> Further(next, 0, <<>>)]
    <3>1. \A w : Further(next, 0, w) = Further(next, 0, <<>>)
      BY Zenon DEF Further
    <3>2. f = [n \in 0 .. 0 |-> Further(next, n, f[n - 1])]
      BY <3>1
    <3> QED
      BY <2>1, <2>2, <3>2, Zenon
  <2>3. CASE m # 0
    <3>1. m \in Nat /\ m - 1 \in Nat /\ m - 1 \notin Bad
      BY <2>1, <2>3
    <3>2. PICK f : f = [n \in 0 .. m - 1 |-> Further(next, n, f[n - 1])]
      BY <3>1, Zenon
    <3> DEFINE g == [n \in 0 .. m |-> IF n = 0 THEN f[0] ELSE Further(next, n, f[n - 1])]
    <3>3. \A n \in 0 .. m - 1 : g[n] = f[n]
      BY <3>1, <3>2
    <3>4. f[0] = Further(next, 0, g[-1])
      <4>1. f[0] = Further(next, 0, f[0 - 1])
        BY <3>1, <3>2
      <4> QED
        BY <4>1, Zenon DEF Further
    <3>5. g = [n \in 0 .. m |-> Further(next, n, g[n - 1])]
      <4>1. \A n \in 0 .. m : n # 0 => g[n - 1] = f[n - 1]
        <5> HIDE DEF g
        <5> QED
          BY <3>1, <3>3
      <4>2. /\ g[0] = f[0]
            /\ \A n \in 0 .. m : n # 0 => g[n] = Further(next, n, f[n - 1])
        BY <3>1
      <4>3. g = [n \in 0 .. m |-> g[n]]
        BY Zenon
      <4> HIDE DEF g
      <4>4. ASSUME NEW n \in 0 .. m
            PROVE  g[n] = Further(next, n, g[n - 1])
        <5>1. CASE n = 0
          BY <3>4, <4>2, <5>1
        <5>2. CASE n # 0
          BY <4>1, <4>2, <5>2, Zenon
        <5> QED
          BY <5>1, <5>2, Zenon
      <4> QED
        BY <4>3, <4>4, Zenon
    <3> HIDE DEF g
    <3> QED
      BY <2>1, <3>5, Zenon
  <2> QED
    BY <2>2, <2>3, Zenon
<1> QED
  BY <1>1, Zenon

\* The recursion equation of Follow.
LEMMA FollowStep ==
  ASSUME Counting, NEW next \in [Tcb -> Tcb \cup {None}], NEW t
  PROVE  \E walk :
            /\ walk = [n \in 0 .. Cardinality(Tcb) + 1 |-> Further(next, n, walk[n - 1])]
            /\ Follow(next, t) = walk[Cardinality(Tcb) + 1][t]
<1> DEFINE walk[n \in 0 .. Cardinality(Tcb) + 1] ==
            [u \in Tcb \cup {None} |->
                IF u = None \/ n = 0 THEN <<>>
                ELSE <<u>> \o walk[n - 1][next[u]]]
<1>1. Cardinality(Tcb) + 1 \in Nat
  BY DEF Counting
<1>2. walk = [n \in 0 .. Cardinality(Tcb) + 1 |-> Further(next, n, walk[n - 1])]
  BY <1>1, FollowExists, Zenon DEF walk, Further
<1>3. Follow(next, t) = walk[Cardinality(Tcb) + 1][t]
  BY Zenon DEF Follow, walk, Link, FarEnough
<1> HIDE DEF walk
<1> QED
  BY <1>2, <1>3, Zenon

\* A sequence without repetition is no longer than there are TCBs.
LEMMA ShortChain ==
  ASSUME Counting, NEW next, NEW h, NEW s, Chain(next, h, s)
  PROVE  Len(s) <= Cardinality(Tcb) /\ Cardinality(Tcb) \in Nat /\ Len(s) \in Nat
<1>1. s \in Seq(Tcb) /\ Len(s) \in Nat /\ s \in [1 .. Len(s) -> Tcb]
  BY DEF Chain
<1>2. s \in Injection(1 .. Len(s), Tcb)
  BY <1>1, Zenon DEF Chain, Injection, IsInjective
<1> QED
  BY <1>1, <1>2, Zenon DEF Counting

\* The elements of a concatenation.
LEMMA JoinElements ==
  ASSUME NEW x \in Seq(Tcb), NEW a \in Seq(Tcb)
  PROVE  /\ x \o a \in Seq(Tcb)
         /\ Len(x \o a) = Len(x) + Len(a)
         /\ \A i \in 1 .. Len(x) : (x \o a)[i] = x[i]
         /\ \A i \in 1 .. Len(a) : (x \o a)[Len(x) + i] = a[i]
<1>1. x \o a \in Seq(Tcb)
  OBVIOUS
<1>2. Len(x \o a) = Len(x) + Len(a)
  OBVIOUS
<1>3. ASSUME NEW i \in 1 .. Len(x) PROVE (x \o a)[i] = x[i]
  OBVIOUS
<1>4. ASSUME NEW i \in 1 .. Len(a) PROVE (x \o a)[Len(x) + i] = a[i]
  OBVIOUS
<1> QED
  BY <1>1, <1>2, <1>3, <1>4, Zenon

\* Two sequences with the same elements are the same.
LEMMA SameElements ==
  ASSUME NEW a \in Seq(Tcb), NEW b \in Seq(Tcb), Len(a) = Len(b),
         \A i \in 1 .. Len(a) : a[i] = b[i]
  PROVE  a = b
OBVIOUS

\* Nothing is left of a sequence after its end.
LEMMA FromEnd ==
  ASSUME NEW s \in Seq(Tcb)
  PROVE  From(s, Len(s) + 1) = <<>>
<1>1. From(s, Len(s) + 1) \in Seq(Tcb) /\ Len(From(s, Len(s) + 1)) = 0
  BY DEF From
<1> QED
  BY <1>1

\* From the first place, everything is left.
LEMMA FromStart ==
  ASSUME NEW s \in Seq(Tcb)
  PROVE  From(s, 1) = s
BY DEF From

\* The rest of a sequence is an element and the rest after it.
LEMMA FromStep ==
  ASSUME NEW s \in Seq(Tcb), NEW k \in 1 .. Len(s)
  PROVE  <<s[k]>> \o From(s, k + 1) = From(s, k)
<1> DEFINE a == From(s, k + 1)
           b == From(s, k)
<1>1. /\ a \in Seq(Tcb) /\ Len(a) = Len(s) - k
      /\ \A i \in 1 .. Len(s) - k : a[i] = s[i + k]
  BY DEF From
<1>2. /\ b \in Seq(Tcb) /\ Len(b) = Len(s) + 1 - k
      /\ \A i \in 1 .. Len(s) + 1 - k : b[i] = s[i + k - 1]
  BY DEF From
<1> HIDE DEF a, b
<1> DEFINE x == <<s[k]>>
<1>3. x \in Seq(Tcb) /\ Len(x) = 1 /\ x[1] = s[k]
  OBVIOUS
<1> HIDE DEF x
<1> DEFINE c == x \o a
<1>4. /\ c \in Seq(Tcb) /\ Len(c) = Len(x) + Len(a)
      /\ \A i \in 1 .. Len(x) : c[i] = x[i]
      /\ \A i \in 1 .. Len(a) : c[Len(x) + i] = a[i]
  BY <1>1, <1>3, JoinElements, Zenon
<1> HIDE DEF c
<1>5. ASSUME NEW i \in 1 .. Len(s) + 1 - k
      PROVE  c[i] = b[i]
  <2>1. CASE i = 1
    <3>1. 1 \in 1 .. Len(s) + 1 - k /\ 1 + k - 1 = k /\ 1 \in 1 .. Len(x)
      BY <1>3
    <3>2. b[1] = s[1 + k - 1] /\ c[1] = x[1]
      BY <1>2, <1>4, <3>1, Zenon
    <3> QED
      BY <1>3, <2>1, <3>1, <3>2, Zenon
  <2>2. CASE i # 1
    <3>1. i - 1 \in 1 .. Len(s) - k /\ i - 1 \in 1 .. Len(a) /\ 1 + (i - 1) = i
      BY <1>1, <2>2
    <3>2. c[i] = a[i - 1]
      BY <1>3, <1>4, <3>1, Zenon
    <3>3. a[i - 1] = s[(i - 1) + k] /\ b[i] = s[i + k - 1]
      BY <1>1, <1>2, <3>1, Zenon
    <3>4. (i - 1) + k = i + k - 1
      OBVIOUS
    <3> QED
      BY <3>2, <3>3, <3>4, Zenon
  <2> QED
    BY <2>1, <2>2, Zenon
<1>7. c \in Seq(Tcb) /\ Len(c) = Len(b) /\ Len(c) = Len(s) + 1 - k
  BY <1>1, <1>2, <1>3, <1>4
<1>8. \A i \in 1 .. Len(c) : c[i] = b[i]
  BY <1>5, <1>7, Zenon
<1>6. c = b
  BY <1>2, <1>7, <1>8, SameElements, Zenon
<1> QED
  BY <1>6, Zenon DEF a, b, c, x

\* Follow finds the sequence a queue stands for.
LEMMA FollowChain ==
  ASSUME Counting, NEW next, NEW h, NEW s, Chain(next, h, s)
  PROVE  Follow(next, h) = s
<1> DEFINE N == Cardinality(Tcb) + 1
           L == Len(s)
<1>1. L \in Nat /\ N \in Nat /\ L <= N
  BY ShortChain
<1>2. next \in [Tcb -> Tcb \cup {None}] /\ s \in Seq(Tcb)
  BY Zenon DEF Chain, Links
<1>3. PICK walk : /\ walk = [n \in 0 .. N |-> Further(next, n, walk[n - 1])]
                  /\ Follow(next, h) = walk[N][h]
  BY <1>2, FollowStep, Zenon
<1> DEFINE Bad == {n \in 0 .. N : \E k \in 1 .. L + 1 :
                       /\ L + 1 - k <= n
                       /\ walk[n][At(s, k)] # From(s, k)}
<1>4. ASSUME Bad # {} PROVE FALSE
  <2>1. Bad \in SUBSET Nat
    BY <1>1
  <2>2. PICK n \in Bad : \A y \in Bad : n <= y
    BY <1>4, <2>1, LeastNat, Zenon
  <2>3. n \in 0 .. N /\ n \in Nat
    BY <2>2, <1>1
  <2>4. PICK k \in 1 .. L + 1 : L + 1 - k <= n /\ walk[n][At(s, k)] # From(s, k)
    BY <2>2, Zenon
  <2>5. walk[n] = Further(next, n, walk[n - 1])
    BY <1>3, <2>3, Zenon
  <2>6. At(s, k) \in Tcb \cup {None} /\ (k <= L => At(s, k) = s[k] /\ s[k] \in Tcb)
        /\ (k = L + 1 => At(s, k) = None)
    BY <1>1, <1>2 DEF At
  <2>7. walk[n][At(s, k)] = IF At(s, k) = None \/ n = 0 THEN <<>>
                            ELSE <<At(s, k)>> \o walk[n - 1][next[At(s, k)]]
    BY <2>5, <2>6, Zenon DEF Further
  <2>8. CASE k = L + 1
    <3>1. From(s, k) = <<>>
      BY <1>1, <1>2, <2>8, FromEnd, Zenon
    <3> QED
      BY <2>4, <2>6, <2>7, <2>8, <3>1, Zenon
  <2>9. CASE k <= L
    <3>1. n # 0 /\ n - 1 \in 0 .. N /\ n - 1 \notin Bad
      <4>1. n # 0 /\ n - 1 \in 0 .. N /\ ~ (n <= n - 1)
        BY <1>1, <2>3, <2>4, <2>9
      <4> QED
        BY <2>2, <4>1, Zenon
    <3>2. k + 1 \in 1 .. L + 1 /\ L + 1 - (k + 1) <= n - 1
      BY <1>1, <2>3, <2>4, <2>9
    <3>3. walk[n - 1][At(s, k + 1)] = From(s, k + 1)
      BY <3>1, <3>2, Zenon
    <3>4. next[s[k]] = At(s, k + 1)
      BY <1>1, <2>9 DEF Chain
    <3>5. s[k] # None
      BY <2>6, <2>9, TcbAssumption, Zenon
    <3>6. walk[n][At(s, k)] = <<s[k]>> \o From(s, k + 1)
      <4>1. At(s, k) = s[k]
        BY <2>6, <2>9, Zenon
      <4> QED
        BY <2>7, <3>1, <3>3, <3>4, <3>5, <4>1, Zenon
    <3>7. <<s[k]>> \o From(s, k + 1) = From(s, k)
      BY <1>1, <1>2, <2>9, FromStep
    <3> QED
      BY <2>4, <3>6, <3>7, Zenon
  <2> QED
    BY <1>1, <2>8, <2>9
<1>5. walk[N][At(s, 1)] = From(s, 1)
  BY <1>1, <1>4
<1>6. From(s, 1) = s
  BY <1>2, FromStart, Zenon
<1> QED
  BY <1>3, <1>5, <1>6, Zenon DEF Chain

\* The ends of a list.
LEMMA ChainHead ==
  ASSUME Counting, NEW next, NEW h, NEW s, Chain(next, h, s)
  PROVE  /\ s \in Seq(Tcb) /\ next \in Links /\ h \in Tcb \cup {None}
         /\ h = None <=> s = <<>>
         /\ s # <<>> => h = s[1] /\ h \in Tcb /\ In(h, s)
         /\ \A i, j \in 1 .. Len(s) : s[i] = s[j] => i = j
         /\ Follow(next, h) = s
<1>1. s \in Seq(Tcb) /\ Len(s) \in Nat /\ next \in Links /\ h = At(s, 1)
  BY DEF Chain
<1>2. CASE s = <<>>
  <2>1. h = None
    BY <1>1, <1>2 DEF At
  <2>2. \A i, j \in 1 .. Len(s) : s[i] = s[j] => i = j
    BY Zenon DEF Chain
  <2>3. Follow(next, h) = s
    BY FollowChain, Zenon
  <2> QED
    BY <1>1, <1>2, <2>1, <2>2, <2>3, Zenon
<1>3. CASE s # <<>>
  <2>1. 1 \in 1 .. Len(s)
    BY <1>1, <1>3
  <2>2. h = s[1] /\ s[1] \in Tcb
    BY <1>1, <2>1 DEF At
  <2>3. In(h, s) /\ h # None
    BY <2>1, <2>2, TcbAssumption, Zenon DEF In
  <2>4. \A i, j \in 1 .. Len(s) : s[i] = s[j] => i = j
    BY Zenon DEF Chain
  <2>5. Follow(next, h) = s
    BY FollowChain, Zenon
  <2> QED
    BY <1>1, <1>3, <2>2, <2>3, <2>4, <2>5, Zenon
<1> QED
  BY <1>2, <1>3, Zenon

\* An empty list.
LEMMA EmptyChain ==
  ASSUME Counting, NEW next \in Links
  PROVE  Chain(next, None, <<>>) /\ Follow(next, None) = <<>>
<1>1. Chain(next, None, <<>>)
  BY DEF Chain, At
<1> QED
  BY <1>1, FollowChain, Zenon

\* The element at a place, or None outside the sequence.
LEMMA AtPlace ==
  ASSUME NEW s \in Seq(Tcb), NEW i \in Int
  PROVE  /\ i \in 1 .. Len(s) => At(s, i) = s[i] /\ At(s, i) \in Tcb
         /\ i \notin 1 .. Len(s) => At(s, i) = None
         /\ At(s, i) \in Tcb \cup {None}
BY DEF At

\* A list does not change when links of other TCBs do.
LEMMA SameLinked ==
  ASSUME NEW q, NEW s, Linked(q, s), NEW next \in Links, NEW prev \in Links,
         \A u \in Tcb : In(u, s) => next[u] = q.next[u] /\ prev[u] = q.prev[u]
  PROVE  Linked([head |-> q.head, tail |-> q.tail, next |-> next, prev |-> prev], s)
<1>1. \A i \in 1 .. Len(s) : s[i] \in Tcb /\ In(s[i], s)
  BY DEF Linked, Chain, In
<1> QED
  BY <1>1, Zenon DEF Linked, Chain

(***************************************************************************)
(* What an operation on the queue of one endpoint does to all the lines.   *)
(***************************************************************************)
\* The mapped variables of FifoEndpoint, and their next values, as functions.
LEMMA LinesFunction ==
  /\ Lines = [e \in EP |-> Lines[e]] /\ Lines' = [e \in EP |-> Lines'[e]]
  /\ LineKinds = [e \in EP |-> IF Lines[e] = <<>> THEN "Idle" ELSE ep_state[e]]
  /\ LineKinds' = [e \in EP |-> IF Lines'[e] = <<>> THEN "Idle" ELSE ep_state'[e]]
BY Zenon DEF Lines, LineKinds

LEMMA LineNext ==
  ASSUME NEW e \in EP
  PROVE  Lines'[e] = IF op' # None /\ op'.ep = e /\ op'.fn = "cancel_badged_sends"
                     THEN Follow(ep_next', op'.head) \o Follow(ep_next', op'.cur)
                     ELSE Follow(ep_next', queue'[e].head)
BY Zenon DEF Lines, Waiting

\* The queue of another endpoint keeps its line.
LEMMA Elsewhere ==
  ASSUME Counting, ListInv, NEW e \in EP, ~ Splitting(e), ~ Splitting(e)',
         queue'[e] = queue[e], ep_next' \in Links, ep_prev' \in Links,
         \A u \in Tcb : In(u, Lines[e]) => /\ ep_next'[u] = ep_next[u]
                                           /\ ep_prev'[u] = ep_prev[u]
  PROVE  Lines'[e] = Lines[e] /\ Linked(QueueOf(e)', Lines'[e])
<1> DEFINE q == QueueOf(e)
           r == [head |-> q.head, tail |-> q.tail, next |-> ep_next', prev |-> ep_prev']
<1>1. Linked(q, Lines[e])
  BY Zenon DEF ListInv
<1>2. /\ q.head = queue'[e].head /\ q.next = ep_next /\ q.prev = ep_prev
      /\ QueueOf(e)' = r
  BY Zenon DEF QueueOf
<1> HIDE DEF q
<1>3. Linked(r, Lines[e])
  BY <1>1, <1>2, SameLinked
<1>4. Chain(ep_next', queue'[e].head, Lines[e])
  BY <1>2, <1>3, Zenon DEF Linked
<1>5. Lines'[e] = Lines[e]
  BY <1>4, FollowChain, LineNext DEF Splitting
<1> QED
  BY <1>2, <1>3, <1>5, Zenon

\* A method of TcbQueue on the queue of e, outside cancel_badged_sends.
LEMMA QueueChange ==
  ASSUME Counting, ListInv, DataInv, NEW e \in EP, NEW q, NEW s, op' = op,
         op = None \/ op.fn = "cancel_all_ipc", SetQueue(e, q), Linked(q, s),
         \A f \in EP, u \in Tcb : f # e /\ In(u, Lines[f]) =>
             q.next[u] = ep_next[u] /\ q.prev[u] = ep_prev[u]
  PROVE  /\ ListInv'
         /\ Lines' = [Lines EXCEPT ![e] = s]
         /\ ep_next' \in Links /\ ep_prev' \in Links
         /\ queue' \in [EP -> [head : Tcb \cup {None}, tail : Tcb \cup {None}]]
         /\ is_empty(q) <=> s = <<>>
<1>1. /\ queue' = [queue EXCEPT ![e] = [head |-> q.head, tail |-> q.tail]]
      /\ ep_next' = q.next /\ ep_prev' = q.prev
      /\ queue \in [EP -> [head : Tcb \cup {None}, tail : Tcb \cup {None}]]
  BY Zenon DEF SetQueue, DataInv
<1>2. /\ Chain(q.next, q.head, s) /\ q.next \in Links /\ q.prev \in Links
      /\ q.tail = At(s, Len(s)) /\ s \in Seq(Tcb)
  BY Zenon DEF Linked, Chain
<1>3. q.head \in Tcb \cup {None} /\ (q.head = None <=> s = <<>>)
  BY <1>2, ChainHead
<1>4. q.tail \in Tcb \cup {None}
  BY <1>2, AtPlace
<1>5. queue' \in [EP -> [head : Tcb \cup {None}, tail : Tcb \cup {None}]]
  BY <1>1, <1>3, <1>4, Zenon
<1>6. \A f \in EP : ~ Splitting(f) /\ ~ Splitting(f)'
  BY Zenon DEF Splitting
<1>7. Lines'[e] = s /\ Linked(QueueOf(e)', s)
  <2>2. Chain(ep_next', queue'[e].head, s)
    BY <1>1, <1>2, Zenon
  <2>3. Lines'[e] = s
    BY <2>2, FollowChain, LineNext, Zenon DEF Splitting
  <2>4. /\ QueueOf(e)'.head = q.head /\ QueueOf(e)'.tail = q.tail
        /\ QueueOf(e)'.next = q.next /\ QueueOf(e)'.prev = q.prev
    BY <1>1, Zenon DEF QueueOf
  <2> QED
    BY <2>3, <2>4, Zenon DEF Linked
<1>8. ASSUME NEW f \in EP, f # e
      PROVE  Lines'[f] = Lines[f] /\ Linked(QueueOf(f)', Lines'[f])
  <2> QED
    BY <1>1, <1>2, <1>6, <1>8, Elsewhere, Zenon
<1>9. Lines' = [Lines EXCEPT ![e] = s]
  BY <1>7, <1>8, LinesFunction, Zenon
<1>10. ListInv'
  <2>1. \A f \in EP : Linked(QueueOf(f)', Lines'[f])
    BY <1>7, <1>8, Zenon
  <2> QED
    BY <1>6, <2>1, Zenon DEF ListInv
<1> QED
  BY <1>1, <1>2, <1>3, <1>5, <1>9, <1>10, Zenon DEF is_empty

\* An iteration of cancel_badged_sends on the queue of e.
LEMMA SplitChange ==
  ASSUME Counting, ListInv, DataInv, NEW e \in EP, NEW k, NEW r, Splits(e, k, r)
  PROVE  /\ ListInv'
         /\ Lines' = [Lines EXCEPT ![e] = k \o r]
         /\ KeptLine' = k /\ RestLine' = r
<1> USE DEF Splits
<1>1. Chain(ep_next', op'.head, k)
  BY Zenon DEF Linked, NewQueue
<1>2. KeptLine' = k /\ RestLine' = r
  BY <1>1, FollowChain, Zenon DEF KeptLine, RestLine
<1>3. Lines'[e] = k \o r
  BY <1>2, LineNext, Zenon DEF KeptLine, RestLine
<1>4. Splitting(e)' /\ \A f \in EP : f # e => ~ Splitting(f) /\ ~ Splitting(f)'
  BY Zenon DEF Splitting
<1>5. ASSUME NEW f \in EP, f # e
      PROVE  Lines'[f] = Lines[f] /\ Linked(QueueOf(f)', Lines'[f])
  BY <1>4, <1>5, Elsewhere, Zenon
<1>6. Lines' = [Lines EXCEPT ![e] = k \o r]
  BY <1>3, <1>5, LinesFunction, Zenon
<1>8. ListInv'
  <2>1. /\ Linked(NewQueue', KeptLine') /\ Chain(ep_next', op'.cur, RestLine')
        /\ \A t \in Tcb : ~ (In(t, KeptLine') /\ In(t, RestLine'))
        /\ \A t \in Tcb : In(t, KeptLine') => ipc_state'[t].badge # op'.badge
    BY <1>2, Zenon
  <2> QED
    BY <1>4, <1>5, <2>1, Zenon DEF ListInv
<1> QED
  BY <1>2, <1>6, <1>8, Zenon

\* The lines, when the loop starts or ends and no link changes.
LEMMA LinesStill ==
  ASSUME ListInv, UNCHANGED <<queue, ep_next, ep_prev>>,
         \A f \in EP : ~ Splitting(f) /\ ~ Splitting(f)'
  PROVE  Lines' = Lines /\ ListInv'
<1>1. \A f \in EP : Lines'[f] = Follow(ep_next, queue[f].head)
                    /\ Lines[f] = Follow(ep_next, queue[f].head)
  BY LineNext, Zenon DEF Splitting, Lines, Waiting
<1>2. Lines' = Lines
  BY <1>1, LinesFunction, Zenon
<1>3. \A f \in EP : Linked(QueueOf(f)', Lines'[f])
  BY <1>2, Zenon DEF ListInv, QueueOf
<1> QED
  BY <1>2, <1>3, Zenon DEF ListInv

\* The queue of an endpoint no loop is working on, and who is blocked on it.
LEMMA QueueBlocked ==
  ASSUME Counting, EndpointInv, NEW e \in EP, op = None \/ op.ep # e
  PROVE  /\ WellLinked(QueueOf(e))
         /\ ep_state[e] = "Idle" <=> is_empty(QueueOf(e))
         /\ Range(Waiting(e)) = {t \in Tcb : /\ blocking_object[t] = e
                                             /\ state[t] \in Queueing}
         /\ \A t \in Range(Waiting(e)) : state[t] = BlockedFor(ep_state[e])
<1> DEFINE s == Lines[e]
           q == QueueOf(e)
<1>1. ListInv /\ MemberInv
  BY Zenon DEF EndpointInv
<1>2. Linked(q, s)
  BY <1>1, Zenon DEF ListInv, Splitting
<1>3. Waiting(e) = s
  BY Zenon DEF Lines
<1> HIDE DEF s, q
<1>4. /\ Chain(q.next, q.head, s) /\ q.prev \in Links /\ q.tail = At(s, Len(s))
      /\ \A i \in 1 .. Len(s) : q.prev[s[i]] = At(s, i - 1)
  BY <1>2, Zenon DEF Linked
<1>5. /\ s \in Seq(Tcb) /\ Follow(q.next, q.head) = s /\ (q.head = None <=> s = <<>>)
      /\ \A i, j \in 1 .. Len(s) : s[i] = s[j] => i = j
  BY <1>4, ChainHead
<1>6. q.tail = IF s = <<>> THEN None ELSE s[Len(s)]
  BY <1>4, <1>5 DEF At
<1>7. \A i \in 1 .. Len(s) : q.prev[s[i]] = IF i = 1 THEN None ELSE s[i - 1]
  BY <1>4, <1>5 DEF At
<1>8. WellLinked(q)
  BY <1>5, <1>6, <1>7 DEF WellLinked
<1>9. ep_state[e] = "Idle" <=> s = <<>>
  BY <1>1, Zenon DEF MemberInv, s
<1>10. /\ \A t : t \in Range(s) <=> In(t, s)
       /\ Range(s) \subseteq Tcb
  BY <1>5 DEF Range, In
<1>11. \A t \in Tcb : /\ In(t, s) <=> blocking_object[t] = e /\ state[t] \in Queueing
                      /\ In(t, s) => state[t] = BlockedFor(ep_state[e])
  BY <1>1, Zenon DEF MemberInv, s
<1>12. Range(s) = {t \in Tcb : blocking_object[t] = e /\ state[t] \in Queueing}
  BY <1>10, <1>11, Zenon
<1>13. \A t \in Range(s) : state[t] = BlockedFor(ep_state[e])
  BY <1>10, <1>11, Zenon
<1> QED
  BY <1>3, <1>5, <1>8, <1>9, <1>12, <1>13, Zenon DEF q, is_empty

(***************************************************************************)
(* TcbQueue: its methods on the sequence its links stand for.              *)
(***************************************************************************)
\* append puts t at the end.
LEMMA AppendLinked ==
  ASSUME NEW q, NEW s, Linked(q, s), NEW t \in Tcb, ~ In(t, s)
  PROVE  /\ Linked(append(q, t), Append(s, t))
         /\ \A u \in Tcb : u # t /\ ~ In(u, s) =>
                /\ append(q, t).next[u] = q.next[u]
                /\ append(q, t).prev[u] = q.prev[u]
<1> DEFINE r == append(q, t)
           z == Append(s, t)
           n == Len(s)
<1>1. n \in Nat
  BY DEF Linked, Chain
<1>2. /\ s \in Seq(Tcb) /\ q.next \in Links /\ q.prev \in Links
      /\ \A i \in 1 .. n : s[i] \in Tcb /\ s[i] # t
      /\ \A i, j \in 1 .. n : s[i] = s[j] => i = j
      /\ q.head = At(s, 1) /\ q.tail = At(s, n)
      /\ \A i \in 1 .. n : q.next[s[i]] = At(s, i + 1) /\ q.prev[s[i]] = At(s, i - 1)
  BY DEF Linked, Chain, In
<1>3. z \in Seq(Tcb) /\ Len(z) = n + 1 /\ z[n + 1] = t /\ \A i \in 1 .. n : z[i] = s[i]
  BY <1>1, <1>2
<1>4. /\ q.tail = None <=> n = 0
      /\ n # 0 => q.tail = s[n] /\ s[n] \in Tcb
  BY <1>1, <1>2, TcbAssumption DEF At
<1>5. /\ r.tail = t
      /\ r.head = IF n = 0 THEN t ELSE q.head
      /\ r.prev = [q.prev EXCEPT ![t] = q.tail]
      /\ r.next = IF n = 0 THEN [q.next EXCEPT ![t] = None]
                  ELSE [[q.next EXCEPT ![t] = None] EXCEPT ![s[n]] = t]
  BY <1>4, Zenon DEF append
<1>6. r.next \in Links /\ r.prev \in Links
  <2> HIDE DEF r, n
  <2> QED
    BY <1>2, <1>4, <1>5 DEF Links
<1>7. \A i \in 1 .. n + 1 : r.next[z[i]] = At(z, i + 1)
  BY <1>1, <1>2, <1>3, <1>5 DEF Links, At
<1>8. \A i \in 1 .. n + 1 : r.prev[z[i]] = At(z, i - 1)
  BY <1>1, <1>2, <1>3, <1>5 DEF Links, At
<1>9. r.head = At(z, 1) /\ r.tail = At(z, n + 1)
  BY <1>1, <1>2, <1>3, <1>5 DEF At
<1>10. \A i, j \in 1 .. n + 1 : z[i] = z[j] => i = j
  <2>1. \A i \in 1 .. n + 1 : i = n + 1 \/ i \in 1 .. n
    BY <1>1
  <2>2. \A i \in 1 .. n : z[i] # t
    BY <1>2, <1>3, Zenon
  <2>3. \A i, j \in 1 .. n : z[i] = z[j] => i = j
    <3> SUFFICES ASSUME NEW i \in 1 .. n, NEW j \in 1 .. n, z[i] = z[j] PROVE i = j
      BY Zenon
    <3> HIDE DEF z, n
    <3> QED
      BY <1>2, <1>3
  <2>4. z[n + 1] = t
    BY <1>3, Zenon
  <2> HIDE DEF z, n
  <2> QED
    BY <2>1, <2>2, <2>3, <2>4, Zenon
<1>11. \A u \in Tcb : u # t /\ ~ In(u, s) => r.next[u] = q.next[u] /\ r.prev[u] = q.prev[u]
  BY <1>1, <1>2, <1>5 DEF In, Links
<1> HIDE DEF r, z
<1>12. Linked(r, z)
  BY <1>3, <1>6, <1>7, <1>8, <1>9, <1>10, Zenon DEF Linked, Chain
<1> QED
  BY <1>11, <1>12, Zenon DEF r, z

\* dequeue_head takes the first element away.
LEMMA DequeueLinked ==
  ASSUME NEW q, NEW s, Linked(q, s), s # <<>>
  PROVE  /\ q.head = s[1] /\ s[1] \in Tcb
         /\ Linked(dequeue_head(q), Tail(s))
         /\ \A u \in Tcb : ~ In(u, s) =>
                /\ dequeue_head(q).next[u] = q.next[u]
                /\ dequeue_head(q).prev[u] = q.prev[u]
<1> DEFINE r == dequeue_head(q)
           z == Tail(s)
           n == Len(s)
<1>1. n \in Nat /\ n # 0
  BY DEF Linked, Chain
<1>2. /\ s \in Seq(Tcb) /\ q.next \in Links /\ q.prev \in Links
      /\ \A i \in 1 .. n : s[i] \in Tcb
      /\ \A i, j \in 1 .. n : s[i] = s[j] => i = j
      /\ q.head = s[1] /\ q.tail = s[n]
      /\ \A i \in 1 .. n : q.next[s[i]] = At(s, i + 1) /\ q.prev[s[i]] = At(s, i - 1)
  BY <1>1 DEF Linked, Chain, At
<1>3. z \in Seq(Tcb) /\ Len(z) = n - 1 /\ \A i \in 1 .. n - 1 : z[i] = s[i + 1]
  BY <1>1, <1>2
<1>4. /\ s[1] \in Tcb /\ q.next[s[1]] = At(s, 2)
      /\ n = 1 => At(s, 2) = None
      /\ n # 1 => At(s, 2) = s[2] /\ s[2] \in Tcb
  <2>1. 1 \in 1 .. n /\ (n = 1 => 2 \notin 1 .. n) /\ (n # 1 => 2 \in 1 .. n)
    <3> HIDE DEF n
    <3> QED
      BY <1>1
  <2>2. q.next[s[1]] = At(s, 1 + 1)
    BY <1>2, <2>1, Zenon
  <2> QED
    BY <1>2, <2>1, <2>2 DEF At
<1>5. /\ r.head = At(s, 2)
      /\ r.tail = IF n = 1 THEN None ELSE s[n]
      /\ r.next = [q.next EXCEPT ![s[1]] = None]
      /\ r.prev = IF n = 1 THEN [q.prev EXCEPT ![s[1]] = None]
                  ELSE [[q.prev EXCEPT ![s[2]] = None] EXCEPT ![s[1]] = None]
  <2>1. At(s, 2) = None <=> n = 1
    BY <1>4, TcbAssumption, Zenon
  <2>2. r = [head |-> At(s, 2),
              tail |-> IF At(s, 2) = None THEN None ELSE s[n],
              next |-> [q.next EXCEPT ![s[1]] = None],
              prev |-> [(IF At(s, 2) = None THEN q.prev
                         ELSE [q.prev EXCEPT ![At(s, 2)] = None])
                           EXCEPT ![s[1]] = None]]
    BY <1>2, <1>4, Zenon DEF dequeue_head
  <2> HIDE DEF r, n
  <2> QED
    BY <1>4, <2>1, <2>2, Zenon
<1>6. r.next \in Links /\ r.prev \in Links
  <2> HIDE DEF r, n
  <2> QED
    BY <1>2, <1>4, <1>5 DEF Links
<1>7. \A i \in 1 .. n - 1 : r.next[z[i]] = At(z, i + 1)
  BY <1>1, <1>2, <1>3, <1>5 DEF Links, At
<1>8. ASSUME NEW i \in 1 .. n - 1
      PROVE  r.prev[z[i]] = At(z, i - 1)
  <2>1. /\ z[i] = s[i + 1] /\ i + 1 \in 1 .. n /\ 1 \in 1 .. n /\ 2 \in 1 .. n /\ n # 1
        /\ i + 1 # 1 /\ (i # 1 => i + 1 # 2)
    BY <1>1, <1>3
  <2>2. s[i + 1] \in Tcb /\ s[i + 1] # s[1] /\ (i # 1 => s[i + 1] # s[2])
    BY <1>2, <2>1, Zenon
  <2>3. CASE i = 1
    <3>1. r.prev[s[2]] = None
      BY <1>2, <1>4, <1>5, <2>1, <2>2, <2>3, Zenon DEF Links
    <3>2. At(z, 0) = None
      BY <1>3 DEF At
    <3> QED
      BY <2>1, <2>3, <3>1, <3>2
  <2>4. CASE i # 1
    <3>1. r.prev[s[i + 1]] = q.prev[s[i + 1]]
      BY <1>2, <1>4, <1>5, <2>1, <2>2, <2>4, Zenon DEF Links
    <3>2. q.prev[s[i + 1]] = At(s, (i + 1) - 1)
      BY <1>2, <2>1, Zenon
    <3>3. At(s, (i + 1) - 1) = s[i] /\ At(z, i - 1) = s[i]
      BY <1>1, <1>3, <2>4 DEF At
    <3> QED
      BY <2>1, <3>1, <3>2, <3>3, Zenon
  <2> QED
    BY <2>3, <2>4, Zenon
<1>9. r.head = At(z, 1) /\ r.tail = At(z, n - 1)
  BY <1>1, <1>2, <1>3, <1>5 DEF At
<1>10. \A i, j \in 1 .. n - 1 : z[i] = z[j] => i = j
  <2> SUFFICES ASSUME NEW i \in 1 .. n - 1, NEW j \in 1 .. n - 1, z[i] = z[j]
               PROVE  i = j
    BY Zenon
  <2>1. i + 1 \in 1 .. n /\ j + 1 \in 1 .. n
    BY <1>1
  <2>2. s[i + 1] = s[j + 1]
    BY <1>3, Zenon
  <2>3. i + 1 = j + 1
    <3> HIDE DEF n, z
    <3> QED
      BY <1>2, <2>1, <2>2, Zenon
  <2> QED
    BY <1>1, <2>3
<1>11. \A u \in Tcb : ~ In(u, s) => r.next[u] = q.next[u] /\ r.prev[u] = q.prev[u]
  <2>1. 1 \in 1 .. n /\ (n # 1 => 2 \in 1 .. n)
    BY <1>1
  <2>2. In(s[1], s) /\ (n # 1 => In(s[2], s))
    BY <2>1, Zenon DEF In
  <2> HIDE DEF r, n
  <2> QED
    BY <1>2, <1>4, <1>5, <2>2, Zenon DEF Links
<1> HIDE DEF r, z
<1>12. Linked(r, z)
  BY <1>3, <1>6, <1>7, <1>8, <1>9, <1>10, Zenon DEF Linked, Chain
<1> QED
  BY <1>2, <1>4, <1>11, <1>12 DEF r, z

\* remove takes the element at place k away, wherever it is.
LEMMA RemoveLinked ==
  ASSUME NEW q, NEW s, Linked(q, s), NEW k \in 1 .. Len(s)
  PROVE  /\ s[k] \in Tcb
         /\ Linked(remove(q, s[k]), Without(s, k))
         /\ \A u \in Tcb : ~ In(u, s) =>
                /\ remove(q, s[k]).next[u] = q.next[u]
                /\ remove(q, s[k]).prev[u] = q.prev[u]
<1> DEFINE t == s[k]
           r == remove(q, t)
           z == Without(s, k)
           n == Len(s)
           p == q.prev[t]
           m == q.next[t]
<1>1. n \in Nat /\ n # 0 /\ k \in 1 .. n /\ k \in Nat
  BY DEF Linked, Chain
<1>2. /\ s \in Seq(Tcb) /\ q.next \in Links /\ q.prev \in Links
      /\ \A i \in 1 .. n : s[i] \in Tcb
      /\ \A i, j \in 1 .. n : s[i] = s[j] => i = j
      /\ q.head = s[1] /\ q.tail = s[n]
      /\ \A i \in 1 .. n : q.next[s[i]] = At(s, i + 1) /\ q.prev[s[i]] = At(s, i - 1)
  BY <1>1 DEF Linked, Chain, At
<1>3. /\ z \in Seq(Tcb) /\ Len(z) = n - 1
      /\ \A i \in 1 .. n - 1 : z[i] = IF i < k THEN s[i] ELSE s[i + 1]
  BY <1>1, <1>2 DEF Without
<1> HIDE DEF z
<1>4. /\ t \in Tcb
      /\ k = 1 => p = None
      /\ k # 1 => p = s[k - 1] /\ p \in Tcb
      /\ k = n => m = None
      /\ k # n => m = s[k + 1] /\ m \in Tcb
  <2>1. /\ k = 1 => k - 1 \notin 1 .. n
        /\ k # 1 => k - 1 \in 1 .. n
        /\ k = n => k + 1 \notin 1 .. n
        /\ k # n => k + 1 \in 1 .. n
    BY <1>1
  <2>2. p = At(s, k - 1) /\ m = At(s, k + 1)
    BY <1>1, <1>2, Zenon
  <2> QED
    BY <1>1, <1>2, <2>1, <2>2, Zenon DEF At
<1>5. /\ r.head = IF k = 1 THEN m ELSE s[1]
      /\ r.tail = IF k = n THEN p ELSE s[n]
      /\ r.next = IF k = 1 THEN [q.next EXCEPT ![t] = None]
                  ELSE [[q.next EXCEPT ![p] = m] EXCEPT ![t] = None]
      /\ r.prev = IF k = n THEN [q.prev EXCEPT ![t] = None]
                  ELSE [[q.prev EXCEPT ![m] = p] EXCEPT ![t] = None]
  <2>1. (p = None <=> k = 1) /\ (m = None <=> k = n)
    BY <1>4, TcbAssumption, Zenon
  <2> QED
    BY <1>2, <2>1, Zenon DEF remove
<1> HIDE DEF r
<1>6. r.next \in Links /\ r.prev \in Links
  <2>1. p \in Tcb \cup {None} /\ m \in Tcb \cup {None}
    BY <1>4, Zenon
  <2>2. k # 1 => p \in Tcb
    BY <1>4, Zenon
  <2>3. k # n => m \in Tcb
    BY <1>4, Zenon
  <2> HIDE DEF n, p, m, t
  <2>4. r.next \in Links
    BY <1>2, <1>4, <1>5, <2>1, <2>2 DEF Links
  <2>5. r.prev \in Links
    BY <1>2, <1>4, <1>5, <2>1, <2>3 DEF Links
  <2> QED
    BY <2>4, <2>5, Zenon
<1>7. ASSUME NEW u \in Tcb, u # t
      PROVE  /\ r.next[u] = IF k # 1 /\ u = p THEN m ELSE q.next[u]
             /\ r.prev[u] = IF k # n /\ u = m THEN p ELSE q.prev[u]
  <2> HIDE DEF n, p, m, t
  <2> QED
    BY <1>2, <1>4, <1>5, <1>7, Zenon DEF Links
<1>8. ASSUME NEW i \in 1 .. n - 1
      PROVE  /\ r.next[z[i]] = At(z, i + 1)
             /\ r.prev[z[i]] = At(z, i - 1)
  <2> DEFINE a == IF i < k THEN i ELSE i + 1
  <2>1. a \in 1 .. n /\ a # k /\ i \in Int /\ a \in Int
    BY <1>1
  <2>2. z[i] = s[a]
    BY <1>3, Zenon
  <2>3. s[a] \in Tcb /\ s[a] # t /\ q.next[s[a]] = At(s, a + 1) /\ q.prev[s[a]] = At(s, a - 1)
    BY <1>1, <1>2, <2>1, Zenon
  <2>4. /\ k # 1 => (s[a] = p <=> a = k - 1)
        /\ k # n => (s[a] = m <=> a = k + 1)
    <3>1. (k # 1 => k - 1 \in 1 .. n) /\ (k # n => k + 1 \in 1 .. n)
      BY <1>1
    <3> HIDE DEF a, n, p, m, t
    <3> QED
      BY <1>2, <1>4, <2>1, <3>1, Zenon
  <2>5. At(z, i + 1) = IF a = k - 1 THEN m ELSE At(s, a + 1)
    <3>1. CASE i + 1 \in 1 .. n - 1
      <4>1. At(z, i + 1) = IF i + 1 < k THEN s[i + 1] ELSE s[i + 2]
        BY <1>1, <1>3, <3>1 DEF At
      <4>2. CASE a = k - 1
        <5>1. i + 1 = k /\ k # n
          BY <1>1, <3>1, <4>2
        <5> QED
          BY <1>1, <1>4, <4>1, <4>2, <5>1
      <4>3. CASE a # k - 1
        BY <1>1, <3>1, <4>1, <4>3 DEF At
      <4> QED
        BY <4>2, <4>3, Zenon
    <3>2. CASE i + 1 \notin 1 .. n - 1
      <4>1. i = n - 1 /\ At(z, i + 1) = None
        BY <1>1, <1>3, <3>2 DEF At
      <4>2. a = k - 1 => k = n
        BY <1>1, <4>1
      <4>3. a # k - 1 => a = n
        BY <1>1, <4>1
      <4>4. At(s, n + 1) = None
        BY <1>1 DEF At
      <4> QED
        BY <1>4, <4>1, <4>2, <4>3, <4>4
    <3> QED
      BY <3>1, <3>2, Zenon
  <2>6. At(z, i - 1) = IF a = k + 1 THEN p ELSE At(s, a - 1)
    <3>1. CASE i - 1 \in 1 .. n - 1
      <4>1. At(z, i - 1) = IF i - 1 < k THEN s[i - 1] ELSE s[i]
        BY <1>1, <1>3, <3>1 DEF At
      <4>2. CASE a = k + 1
        <5>1. i = k /\ k # 1
          BY <1>1, <3>1, <4>2
        <5> QED
          BY <1>1, <1>4, <4>1, <4>2, <5>1
      <4>3. CASE a # k + 1
        BY <1>1, <3>1, <4>1, <4>3 DEF At
      <4> QED
        BY <4>2, <4>3, Zenon
    <3>2. CASE i - 1 \notin 1 .. n - 1
      <4>1. i = 1 /\ At(z, i - 1) = None
        BY <1>1, <1>3, <3>2 DEF At
      <4>2. a = k + 1 => k = 1
        BY <1>1, <4>1
      <4>3. a # k + 1 => a = 1
        BY <1>1, <4>1
      <4>4. At(s, 1 - 1) = None
        BY <1>1 DEF At
      <4> QED
        BY <1>4, <4>1, <4>2, <4>3, <4>4
    <3> QED
      BY <3>1, <3>2, Zenon
  <2>7. (a = k - 1 => k # 1) /\ (a = k + 1 => k # n)
    BY <1>1, <2>1
  <2> HIDE DEF a, n, p, m, t
  <2> QED
    BY <1>7, <2>2, <2>3, <2>4, <2>5, <2>6, <2>7
<1>9. r.head = At(z, 1) /\ r.tail = At(z, n - 1)
  <2>1. CASE n = 1
    BY <1>1, <1>3, <1>4, <1>5, <2>1 DEF At
  <2>2. CASE n # 1
    <3>1. z[1] = IF k = 1 THEN s[2] ELSE s[1]
      BY <1>1, <1>3, <2>2
    <3>2. z[n - 1] = IF k = n THEN s[n - 1] ELSE s[n]
      BY <1>1, <1>3, <2>2
    <3>3. At(z, 1) = z[1] /\ At(z, n - 1) = z[n - 1]
      BY <1>1, <1>3, <2>2 DEF At
    <3>4. r.head = z[1]
      <4>1. CASE k = 1
        BY <1>1, <1>4, <1>5, <2>2, <3>1, <4>1
      <4>2. CASE k # 1
        BY <1>5, <3>1, <4>2, Zenon
      <4> QED
        BY <4>1, <4>2
    <3>5. r.tail = z[n - 1]
      <4>1. CASE k = n
        BY <1>1, <1>4, <1>5, <2>2, <3>2, <4>1, Zenon
      <4>2. CASE k # n
        BY <1>5, <3>2, <4>2, Zenon
      <4> QED
        BY <4>1, <4>2, Zenon
    <3> QED
      BY <3>3, <3>4, <3>5, Zenon
  <2> QED
    BY <2>1, <2>2
<1>10. \A i, j \in 1 .. n - 1 : z[i] = z[j] => i = j
  <2> SUFFICES ASSUME NEW i \in 1 .. n - 1, NEW j \in 1 .. n - 1, z[i] = z[j]
               PROVE  i = j
    BY Zenon
  <2> DEFINE a == IF i < k THEN i ELSE i + 1
             b == IF j < k THEN j ELSE j + 1
  <2>1. a \in 1 .. n /\ b \in 1 .. n
    BY <1>1
  <2>2. z[i] = s[a] /\ z[j] = s[b]
    BY <1>3, Zenon
  <2>3. a = b
    <3> HIDE DEF a, b, n
    <3>1. s[a] = s[b]
      BY <2>2, Zenon
    <3> QED
      BY <1>2, <2>1, <3>1, Zenon
  <2> QED
    BY <1>1, <2>3
<1>11. \A u \in Tcb : ~ In(u, s) => r.next[u] = q.next[u] /\ r.prev[u] = q.prev[u]
  <2>1. In(t, s) /\ (k # 1 => In(p, s)) /\ (k # n => In(m, s))
    <3>1. (k # 1 => k - 1 \in 1 .. n) /\ (k # n => k + 1 \in 1 .. n)
      BY <1>1
    <3> QED
      BY <1>1, <1>4, <3>1, Zenon DEF In
  <2> HIDE DEF n, p, m, t
  <2> QED
    BY <1>7, <2>1, Zenon
<1>12. Linked(r, z)
  BY <1>3, <1>6, <1>8, <1>9, <1>10, Zenon DEF Linked, Chain
<1> QED
  BY <1>4, <1>11, <1>12, Zenon DEF r, z

\* What follows the head is a list when the head is taken out.
LEMMA ChainTail ==
  ASSUME NEW next, NEW h, NEW s, Chain(next, h, s), s # <<>>, NEW other \in Links,
         \A u \in Tcb : In(u, Tail(s)) => other[u] = next[u]
  PROVE  h = s[1] /\ h \in Tcb /\ Chain(other, next[h], Tail(s))
<1> DEFINE z == Tail(s)
           n == Len(s)
<1>1. s \in Seq(Tcb) /\ n \in Nat /\ n # 0 /\ 1 \in 1 .. n
  BY DEF Chain
<1>2. h = s[1] /\ h \in Tcb
  BY <1>1 DEF Chain, At
<1>3. z \in Seq(Tcb) /\ Len(z) = n - 1 /\ \A i \in 1 .. n - 1 : z[i] = s[i + 1]
  BY <1>1
<1>4. /\ \A i, j \in 1 .. n : s[i] = s[j] => i = j
      /\ \A i \in 1 .. n : next[s[i]] = At(s, i + 1)
  BY Zenon DEF Chain
<1> HIDE DEF z, n
<1>5. \A i, j \in 1 .. Len(z) : z[i] = z[j] => i = j
  <2> SUFFICES ASSUME NEW i \in 1 .. Len(z), NEW j \in 1 .. Len(z), z[i] = z[j]
               PROVE  i = j
    BY Zenon
  <2>1. i \in 1 .. n - 1 /\ j \in 1 .. n - 1 /\ i + 1 \in 1 .. n /\ j + 1 \in 1 .. n
    BY <1>1, <1>3
  <2>2. i + 1 = j + 1
    BY <1>3, <1>4, <2>1, Zenon
  <2> QED
    BY <2>1, <2>2
<1>6. \A i \in 1 .. n : At(z, i) = At(s, i + 1)
  <2> SUFFICES ASSUME NEW i \in 1 .. n PROVE At(z, i) = At(s, i + 1)
    BY Zenon
  <2>1. i \in 1 .. Len(z) <=> i + 1 \in 1 .. n
    BY <1>1, <1>3
  <2>2. i \in 1 .. Len(z) => z[i] = s[i + 1]
    BY <1>3, Zenon
  <2> QED
    BY <2>1, <2>2, Zenon DEF At, n
<1>7. next[h] = At(z, 1)
  <2>1. next[s[1]] = At(s, 1 + 1) /\ At(z, 1) = At(s, 1 + 1)
    BY <1>1, <1>4, <1>6, Zenon
  <2> QED
    BY <1>2, <2>1, Zenon
<1>8. ASSUME NEW i \in 1 .. Len(z) PROVE other[z[i]] = At(z, i + 1)
  <2>1. i + 1 \in 1 .. n /\ z[i] = s[i + 1] /\ z[i] \in Tcb
    BY <1>1, <1>3
  <2>2. other[z[i]] = next[z[i]]
    BY <2>1, Zenon DEF In, z
  <2>3. next[s[i + 1]] = At(s, (i + 1) + 1) /\ At(z, i + 1) = At(s, (i + 1) + 1)
    BY <1>4, <1>6, <2>1, Zenon
  <2> QED
    BY <2>1, <2>2, <2>3, Zenon
<1> QED
  BY <1>2, <1>3, <1>5, <1>7, <1>8, Zenon DEF Chain, z

(***************************************************************************)
(* Sequences without repetition.                                           *)
(***************************************************************************)
\* Who is in a sequence that has lost or gained a place.
LEMMA InEmpty ==
  ASSUME NEW s \in Seq(Tcb)
  PROVE  /\ s # <<>> => Len(s) # 0 /\ s[1] \in Tcb /\ In(s[1], s)
         /\ s = <<>> => \A u : ~ In(u, s)
         /\ \A u : In(u, s) => u \in Tcb
<1>1. s # <<>> => Len(s) # 0 /\ Len(s) \in Nat /\ 1 \in 1 .. Len(s)
  OBVIOUS
<1> QED
  BY <1>1 DEF In

\* Who is in a line that somebody joined.
LEMMA InAppend ==
  ASSUME NEW s \in Seq(Tcb), NEW t \in Tcb, NEW u
  PROVE  In(u, Append(s, t)) <=> In(u, s) \/ u = t
<1> DEFINE z == Append(s, t)
<1>1. z \in Seq(Tcb) /\ Len(z) = Len(s) + 1 /\ z[Len(s) + 1] = t
      /\ Len(s) \in Nat /\ \A i \in 1 .. Len(s) : z[i] = s[i]
  OBVIOUS
<1> HIDE DEF z
<1>2. \A i \in 1 .. Len(z) : i \in 1 .. Len(s) \/ i = Len(s) + 1
  BY <1>1
<1>3. \A i \in 1 .. Len(s) : i \in 1 .. Len(z)
  BY <1>1
<1>4. Len(s) + 1 \in 1 .. Len(z)
  BY <1>1
<1>5. In(u, z) => In(u, s) \/ u = t
  BY <1>1, <1>2, Zenon DEF In
<1>6. In(u, s) \/ u = t => In(u, z)
  BY <1>1, <1>3, <1>4, Zenon DEF In
<1> QED
  BY <1>5, <1>6, Zenon DEF z

\* Who is in two lines put together.
LEMMA InJoin ==
  ASSUME NEW a \in Seq(Tcb), NEW b \in Seq(Tcb), NEW u
  PROVE  In(u, a \o b) <=> In(u, a) \/ In(u, b)
<1> DEFINE z == a \o b
<1>1. /\ z \in Seq(Tcb) /\ Len(z) = Len(a) + Len(b)
      /\ \A i \in 1 .. Len(a) : z[i] = a[i]
      /\ \A i \in 1 .. Len(b) : z[Len(a) + i] = b[i]
  BY JoinElements, Zenon
<1> HIDE DEF z
<1>2. Len(a) \in Nat /\ Len(b) \in Nat
  OBVIOUS
<1>3. ASSUME In(u, z) PROVE In(u, a) \/ In(u, b)
  <2>1. PICK i \in 1 .. Len(z) : z[i] = u
    BY <1>3, Zenon DEF In
  <2>2. CASE i \in 1 .. Len(a)
    BY <1>1, <2>1, <2>2, Zenon DEF In
  <2>3. CASE i \notin 1 .. Len(a)
    <3>1. i - Len(a) \in 1 .. Len(b) /\ Len(a) + (i - Len(a)) = i
      BY <1>1, <1>2, <2>3
    <3>2. b[i - Len(a)] = z[Len(a) + (i - Len(a))]
      BY <1>1, <3>1, Zenon
    <3>3. b[i - Len(a)] = u
      BY <2>1, <3>1, <3>2, Zenon
    <3> QED
      BY <3>1, <3>3, Zenon DEF In
  <2> QED
    BY <2>2, <2>3, Zenon
<1>4. ASSUME In(u, a) PROVE In(u, z)
  <2>1. PICK i \in 1 .. Len(a) : a[i] = u
    BY <1>4, Zenon DEF In
  <2>2. i \in 1 .. Len(z)
    BY <1>1, <1>2
  <2> QED
    BY <1>1, <2>1, <2>2, Zenon DEF In
<1>5. ASSUME In(u, b) PROVE In(u, z)
  <2>1. PICK i \in 1 .. Len(b) : b[i] = u
    BY <1>5, Zenon DEF In
  <2>2. Len(a) + i \in 1 .. Len(z)
    BY <1>1, <1>2
  <2> QED
    BY <1>1, <2>1, <2>2, Zenon DEF In
<1> QED
  BY <1>3, <1>4, <1>5, Zenon DEF z

\* Two sequences without repetition that have nobody in common.
LEMMA JoinApart ==
  ASSUME NEW a \in Seq(Tcb), NEW b \in Seq(Tcb),
         \A i, j \in 1 .. Len(a) : a[i] = a[j] => i = j,
         \A i, j \in 1 .. Len(b) : b[i] = b[j] => i = j,
         \A t \in Tcb : ~ (In(t, a) /\ In(t, b)),
         NEW i \in 1 .. Len(a \o b), NEW j \in 1 .. Len(a \o b),
         (a \o b)[i] = (a \o b)[j]
  PROVE  i = j
<1> DEFINE z == a \o b
           m == Len(a)
<1>1. /\ z \in Seq(Tcb) /\ Len(z) = m + Len(b)
      /\ \A k \in 1 .. m : z[k] = a[k]
      /\ \A k \in 1 .. Len(b) : z[m + k] = b[k]
  BY JoinElements, Zenon
<1>2. m \in Nat /\ Len(b) \in Nat
  OBVIOUS
<1>3. i \in 1 .. Len(z) /\ j \in 1 .. Len(z) /\ z[i] = z[j]
  BY Zenon
<1> HIDE DEF z
<1>4. ASSUME NEW k \in 1 .. Len(z), k \notin 1 .. m
      PROVE  k - m \in 1 .. Len(b) /\ z[k] = b[k - m]
  <2>1. k - m \in 1 .. Len(b) /\ m + (k - m) = k
    BY <1>1, <1>2, <1>4
  <2>2. z[m + (k - m)] = b[k - m]
    BY <1>1, <2>1, Zenon
  <2> QED
    BY <2>1, <2>2, Zenon
<1>5. ASSUME NEW k \in 1 .. Len(z), k \in 1 .. m, NEW l \in 1 .. Len(z), l \notin 1 .. m,
             z[k] = z[l]
      PROVE  FALSE
  <2>1. z[k] = a[k] /\ z[l] = b[l - m] /\ l - m \in 1 .. Len(b) /\ z[k] \in Tcb
    BY <1>1, <1>4, <1>5
  <2>2. In(z[k], a) /\ In(z[k], b)
    BY <1>5, <2>1, Zenon DEF In, m
  <2> QED
    BY <2>1, <2>2, Zenon
<1>6. CASE i \in 1 .. m /\ j \in 1 .. m
  BY <1>1, <1>3, <1>6, Zenon DEF m
<1>7. CASE i \notin 1 .. m /\ j \notin 1 .. m
  <2>1. i - m \in 1 .. Len(b) /\ j - m \in 1 .. Len(b) /\ b[i - m] = b[j - m]
    BY <1>3, <1>4, <1>7, Zenon
  <2>2. i - m = j - m
    BY <2>1, Zenon
  <2> QED
    BY <1>1, <1>2, <1>3, <2>2
<1> QED
  BY <1>3, <1>5, <1>6, <1>7, Zenon

\* The elements of a sequence that has lost a place.
LEMMA WithoutElements ==
  ASSUME NEW s \in Seq(Tcb), NEW k \in 1 .. Len(s)
  PROVE  /\ Without(s, k) \in Seq(Tcb)
         /\ Len(Without(s, k)) = Len(s) - 1
         /\ \A j \in 1 .. Len(s) - 1 :
                Without(s, k)[j] = IF j < k THEN s[j] ELSE s[j + 1]
<1>1. Len(s) - 1 \in Nat /\ Len(s) \in Nat
  OBVIOUS
<1>2. \A j \in 1 .. Len(s) - 1 : j \in 1 .. Len(s) /\ j + 1 \in 1 .. Len(s)
  OBVIOUS
<1>3. \A j \in 1 .. Len(s) : s[j] \in Tcb
  OBVIOUS
<1>4. \A j \in 1 .. Len(s) - 1 : (IF j < k THEN s[j] ELSE s[j + 1]) \in Tcb
  BY <1>2, <1>3, Zenon
<1>5. Without(s, k) \in [1 .. Len(s) - 1 -> Tcb]
  BY <1>4, Zenon DEF Without
<1>6. Without(s, k) \in Seq(Tcb) /\ Len(Without(s, k)) = Len(s) - 1
  BY <1>1, <1>5
<1> QED
  BY <1>6, Zenon DEF Without

\* Who is in a line that somebody left.
LEMMA InWithout ==
  ASSUME NEW s \in Seq(Tcb), NEW k \in 1 .. Len(s), NEW u,
         \A i, j \in 1 .. Len(s) : s[i] = s[j] => i = j
  PROVE  In(u, Without(s, k)) <=> In(u, s) /\ u # s[k]
<1> DEFINE z == Without(s, k)
<1>1. z \in Seq(Tcb) /\ Len(z) = Len(s) - 1
      /\ \A j \in 1 .. Len(s) - 1 : z[j] = IF j < k THEN s[j] ELSE s[j + 1]
  BY WithoutElements, Zenon
<1> HIDE DEF z
<1>2. ASSUME In(u, z) PROVE In(u, s) /\ u # s[k]
  <2>1. PICK j \in 1 .. Len(z) : z[j] = u
    BY <1>2, Zenon DEF In
  <2>2. j \in 1 .. Len(s) - 1 /\ j \in 1 .. Len(s) /\ j + 1 \in 1 .. Len(s)
    BY <1>1
  <2>3. CASE j < k
    <3>1. u = s[j] /\ j # k
      BY <1>1, <2>1, <2>2, <2>3
    <3> QED
      BY <2>2, <3>1, Zenon DEF In
  <2>4. CASE ~ (j < k)
    <3>1. j + 1 # k
      BY <2>2, <2>4
    <3>2. u = s[j + 1]
      BY <1>1, <2>1, <2>2, <2>4, Zenon
    <3> QED
      BY <2>2, <3>1, <3>2, Zenon DEF In
  <2> QED
    BY <2>3, <2>4, Zenon
<1>3. ASSUME In(u, s), u # s[k] PROVE In(u, z)
  <2>1. PICK i \in 1 .. Len(s) : s[i] = u
    BY <1>3, Zenon DEF In
  <2>2. CASE i < k
    <3>1. i \in 1 .. Len(s) - 1 /\ i \in 1 .. Len(z)
      BY <1>1, <2>2
    <3>2. z[i] = u
      BY <1>1, <2>1, <2>2, <3>1, Zenon
    <3> QED
      BY <3>1, <3>2, Zenon DEF In
  <2>3. CASE ~ (i < k)
    <3>1. i # k
      BY <1>3, <2>1, Zenon
    <3>2. i - 1 \in 1 .. Len(s) - 1 /\ i - 1 \in 1 .. Len(z) /\ ~ (i - 1 < k)
          /\ (i - 1) + 1 = i
      BY <1>1, <2>3, <3>1
    <3>3. z[i - 1] = s[(i - 1) + 1]
      BY <1>1, <3>2, Zenon
    <3>4. z[i - 1] = u
      BY <2>1, <3>2, <3>3, Zenon
    <3> QED
      BY <3>2, <3>4, Zenon DEF In
  <2> QED
    BY <2>2, <2>3, Zenon
<1> QED
  BY <1>2, <1>3, Zenon DEF z

\* Losing the head is losing place 1.
LEMMA TailWithout ==
  ASSUME NEW s \in Seq(Tcb), s # <<>>
  PROVE  1 \in 1 .. Len(s) /\ Tail(s) = Without(s, 1) /\ Len(Tail(s)) = Len(s) - 1
<1>1. 1 \in 1 .. Len(s) /\ Tail(s) \in Seq(Tcb) /\ Len(Tail(s)) = Len(s) - 1
      /\ \A j \in 1 .. Len(s) - 1 : Tail(s)[j] = s[j + 1]
  OBVIOUS
<1>2. /\ Without(s, 1) \in Seq(Tcb) /\ Len(Without(s, 1)) = Len(s) - 1
      /\ \A j \in 1 .. Len(s) - 1 :
             Without(s, 1)[j] = IF j < 1 THEN s[j] ELSE s[j + 1]
  BY <1>1, WithoutElements, Zenon
<1>3. \A j \in 1 .. Len(s) - 1 : ~ (j < 1)
  OBVIOUS
<1>4. \A j \in 1 .. Len(Tail(s)) : Tail(s)[j] = Without(s, 1)[j]
  BY <1>1, <1>2, <1>3, Zenon
<1> QED
  BY <1>1, <1>2, <1>4, SameElements, Zenon

\* The head of what is left moves to the end of what is kept.
LEMMA JoinMove ==
  ASSUME NEW a \in Seq(Tcb), NEW b \in Seq(Tcb), b # <<>>
  PROVE  Append(a, b[1]) \o Tail(b) = a \o b
OBVIOUS

\* The head of what is left goes away.
LEMMA JoinDrop ==
  ASSUME NEW a \in Seq(Tcb), NEW b \in Seq(Tcb), b # <<>>
  PROVE  /\ Len(a) + 1 \in 1 .. Len(a \o b)
         /\ (a \o b)[Len(a) + 1] = b[1]
         /\ a \o Tail(b) = Without(a \o b, Len(a) + 1)
<1> DEFINE z == a \o b
           r == Tail(b)
           y == a \o r
           m == Len(a)
           n == Len(b)
<1>1. m \in Nat /\ n \in Nat /\ n # 0
  OBVIOUS
<1>2. r \in Seq(Tcb) /\ Len(r) = n - 1 /\ \A i \in 1 .. n - 1 : r[i] = b[i + 1]
  OBVIOUS
<1>3. /\ z \in Seq(Tcb) /\ Len(z) = m + n
      /\ \A i \in 1 .. m : z[i] = a[i]
      /\ \A i \in 1 .. n : z[m + i] = b[i]
  BY JoinElements, Zenon
<1> HIDE DEF r, z
<1>4. /\ y \in Seq(Tcb) /\ Len(y) = m + Len(r)
      /\ \A i \in 1 .. m : y[i] = a[i]
      /\ \A i \in 1 .. Len(r) : y[m + i] = r[i]
  BY <1>2, JoinElements, Zenon
<1> HIDE DEF y, m, n
<1>5. m + 1 \in 1 .. Len(z) /\ 1 \in 1 .. n
  BY <1>1, <1>3
<1>6. z[m + 1] = b[1]
  BY <1>3, <1>5, Zenon
<1> DEFINE w == Without(z, m + 1)
<1>7. /\ w \in Seq(Tcb) /\ Len(w) = Len(z) - 1
      /\ \A j \in 1 .. Len(z) - 1 : w[j] = IF j < m + 1 THEN z[j] ELSE z[j + 1]
  BY <1>3, <1>5, WithoutElements, Zenon
<1> HIDE DEF w
<1>8. Len(y) = Len(w) /\ Len(y) = m + n - 1
  BY <1>1, <1>2, <1>3, <1>4, <1>7
<1>9. ASSUME NEW j \in 1 .. Len(y) PROVE y[j] = w[j]
  <2>1. j \in 1 .. Len(z) - 1
    BY <1>7, <1>8, Zenon
  <2>2. CASE j <= m
    <3>1. j \in 1 .. m /\ j < m + 1
      BY <1>1, <2>2
    <3> QED
      BY <1>3, <1>4, <1>7, <2>1, <3>1, Zenon
  <2>3. CASE ~ (j <= m)
    <3> DEFINE i == j - m
    <3>1. i \in 1 .. n - 1 /\ i \in 1 .. Len(r) /\ i + 1 \in 1 .. n /\ ~ (j < m + 1)
          /\ m + i = j /\ m + (i + 1) = j + 1
      BY <1>1, <1>2, <1>8, <2>3
    <3> HIDE DEF i
    <3>2. y[m + i] = r[i] /\ r[i] = b[i + 1] /\ z[m + (i + 1)] = b[i + 1]
          /\ w[j] = z[j + 1]
      BY <1>2, <1>3, <1>4, <1>7, <2>1, <3>1, Zenon
    <3> QED
      BY <3>1, <3>2, Zenon
  <2> QED
    BY <2>2, <2>3, Zenon
<1>10. y = w
  BY <1>4, <1>7, <1>8, <1>9, SameElements
<1> QED
  BY <1>5, <1>6, <1>10, Zenon DEF w, y, z, r, m

\* Joining nothing changes nothing.
LEMMA JoinEmpty ==
  ASSUME NEW a \in Seq(Tcb)
  PROVE  <<>> \o a = a /\ a \o <<>> = a
OBVIOUS

(***************************************************************************)
(* The lines of the endpoints are such sequences.                          *)
(***************************************************************************)
\* The lines are sequences without repetition, and no thread is in two.
LEMMA LineFacts ==
  ASSUME ListInv, NEW e \in EP
  PROVE  /\ Lines[e] \in Seq(Tcb)
         /\ \A i, j \in 1 .. Len(Lines[e]) : Lines[e][i] = Lines[e][j] => i = j
<1>1. CASE ~ Splitting(e)
  <2>1. Linked(QueueOf(e), Lines[e])
    BY <1>1, Zenon DEF ListInv
  <2> QED
    BY <2>1, Zenon DEF Linked, Chain
<1>2. CASE Splitting(e)
  <2>1. /\ KeptLine \in Seq(Tcb) /\ RestLine \in Seq(Tcb)
        /\ \A i, j \in 1 .. Len(KeptLine) : KeptLine[i] = KeptLine[j] => i = j
        /\ \A i, j \in 1 .. Len(RestLine) : RestLine[i] = RestLine[j] => i = j
        /\ \A t \in Tcb : ~ (In(t, KeptLine) /\ In(t, RestLine))
    BY <1>2, Zenon DEF ListInv, Linked, Chain
  <2>2. Lines[e] = KeptLine \o RestLine
    BY <1>2, Zenon DEF Lines, Waiting, Splitting, KeptLine, RestLine
  <2>3. ASSUME NEW i \in 1 .. Len(KeptLine \o RestLine),
               NEW j \in 1 .. Len(KeptLine \o RestLine),
               (KeptLine \o RestLine)[i] = (KeptLine \o RestLine)[j]
        PROVE  i = j
    BY <2>1, <2>3, JoinApart, Zenon
  <2>4. KeptLine \o RestLine \in Seq(Tcb)
    BY <2>1
  <2> QED
    BY <2>2, <2>3, <2>4, Zenon
<1> QED
  BY <1>1, <1>2, Zenon

\* No thread is in the queues of two endpoints.
LEMMA Apart ==
  ASSUME MemberInv, NEW e \in EP, NEW f \in EP, NEW t \in Tcb,
         In(t, Lines[e]), In(t, Lines[f])
  PROVE  e = f
BY Zenon DEF MemberInv
=============================================================================
