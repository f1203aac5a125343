------------------------------ MODULE Executor ------------------------------
(***************************************************************************)
(* The per-core EDF scheduler: kernel/src/scheduler/executor.rs.           *)
(*                                                                         *)
(* An Executor owns a bounded min-heap `ready` of entries (deadline, TCB), *)
(* the entry of the thread that has the CPU, `current`, and the idle       *)
(* thread.  A ready thread has state Inactive: the variant Ready of        *)
(* ThreadState is never used, so a thread that waits for the CPU and one   *)
(* that is suspended differ only in having an entry in the heap.  The heap *)
(* is modelled as a bag, a function from the entries it holds to the       *)
(* number of copies, because nothing in push() excludes duplicates.        *)
(*                                                                         *)
(* One action per method.  The methods are unsafe or private: what their   *)
(* callers must respect is a guard marked "contract".                      *)
(***************************************************************************)
EXTENDS Threads

CONSTANTS
    SchedContext,      \* SchedContext[t]: deadline of t's context, or None
    MaxDeadline,       \* u64::MAX
    MAX_TCB_PER_CORE,  \* capacity of the heap
    TICK_MOD           \* modulus of the usize counter ticks_consumed

ASSUME BoundAssumption == /\ MaxDeadline \in Nat
                          /\ MAX_TCB_PER_CORE \in Nat
                          /\ TICK_MOD \in Nat \ {0}
ASSUME SchedContextAssumption ==
    SchedContext \in [Tcb -> (0 .. MaxDeadline) \cup {None}]

VARIABLES
    state,           \* Tcb::state
    ticks_consumed,  \* SchedContext::ticks_consumed
    ready,           \* Executor::ready
    current,         \* Executor::current
    idle,            \* Executor::idle
    panicked         \* an expect() or assert!() has failed

execVars == <<state, ticks_consumed, ready, current, idle, panicked>>

Entry == [deadline : 0 .. MaxDeadline, tcb : Tcb]

ASSUME NoneAssumption == None \notin Entry

(***************************************************************************)
(* The heap.                                                               *)
(***************************************************************************)
\* Number of entries, duplicates included: BinaryHeap::len().
HeapLen(heap) ==
    Cardinality(UNION {{e} \X (1 .. heap[e]) : e \in DOMAIN heap})

Full(heap) == HeapLen(heap) >= MAX_TCB_PER_CORE

\* The Ord derived with the fields in the other order.
BeforeByAddress(a, b) == \/ a.tcb < b.tcb
                         \/ a.tcb = b.tcb /\ a.deadline < b.deadline

\* The derived Ord of Entry: deadline first, then address.
Before(a, b) == \/ a.deadline < b.deadline
                \/ a.deadline = b.deadline /\ a.tcb < b.tcb

\* BinaryHeap<_, Min>::peek() and the entry pop() returns.
First(heap) == CHOOSE e \in DOMAIN heap :
                   \A f \in DOMAIN heap : ~ Before(f, e)

\* A peek() in the place of a pop().
PopNothing(heap) == heap

\* BinaryHeap::push on a heap with room, and what pop() leaves.
push(heap, e) == [x \in DOMAIN heap \cup {e} |->
                     (IF x \in DOMAIN heap THEN heap[x] ELSE 0)
                         + (IF x = e THEN 1 ELSE 0)]
pop(heap) == [x \in {x \in DOMAIN heap : x # First(heap) \/ heap[x] > 1} |->
                 heap[x] - (IF x = First(heap) THEN 1 ELSE 0)]

ReadyTcbs(heap) == {e.tcb : e \in DOMAIN heap}

DeadlineOf(t) ==
    IF SchedContext[t] = None THEN MaxDeadline ELSE SchedContext[t]

(***************************************************************************)
(* enqueue and wake as functions of the thread states st and the heap, in  *)
(* the form endpoint.rs also uses them.  A refused push (QueueFull) and a  *)
(* wrong state (InvalidState) leave the heap alone.                        *)
(***************************************************************************)
\* An enqueue that does not look at the state.
EnqueueUnchecked(st, heap, t) ==
    IF Full(heap) THEN heap
    ELSE push(heap, [deadline |-> DeadlineOf(t), tcb |-> t])

enqueue(st, heap, t) ==
    IF st[t] # "Inactive" \/ Full(heap)
    THEN heap
    ELSE push(heap, [deadline |-> DeadlineOf(t), tcb |-> t])

\* A wake that accepts a thread that is not blocked.
WakeUnchecked(st, heap, t) ==
    LET woken == [st EXCEPT ![t] = "Inactive"]
    IN  [state |-> woken, ready |-> enqueue(woken, heap, t)]

wake(st, heap, t) ==
    IF st[t] \notin Blocked
    THEN [state |-> st, ready |-> heap]
    ELSE LET woken == [st EXCEPT ![t] = "Inactive"]
         IN  [state |-> woken, ready |-> enqueue(woken, heap, t)]

(***************************************************************************)
(* context_switch and schedule, given the current entry cur, the thread    *)
(* states st and the heap their caller has left.                           *)
(***************************************************************************)
context_switch(next, cur, st, heap) ==
    LET requeue == cur # None /\ st[cur.tcb] = "Running"
        left    == IF requeue THEN [st EXCEPT ![cur.tcb] = "Inactive"] ELSE st
    IN  IF requeue /\ Full(heap)
        THEN /\ panicked' = TRUE            \* "ready queue overflow"
             /\ state' = left
             /\ ready' = heap
             /\ current' = None
        ELSE /\ state' = [left EXCEPT ![next.tcb] = "Running"]
             /\ ready' = IF requeue THEN push(heap, cur) ELSE heap
             /\ current' = next
             /\ UNCHANGED panicked

schedule(cur, st, heap) ==
    IF DOMAIN heap # {}
    THEN context_switch(First(heap), cur, st, pop(heap))
    ELSE IF idle # None
    THEN context_switch([deadline |-> MaxDeadline, tcb |-> idle],
                        cur, st, heap)
    ELSE /\ state' = st                     \* loop { halt() }
         /\ ready' = heap
         /\ current' = cur
         /\ UNCHANGED panicked

\* A comparison the wrong way round.
ShouldPreemptInverted ==
    /\ DOMAIN ready # {}
    /\ current = None \/ First(ready).deadline > current.deadline

should_preempt ==
    /\ DOMAIN ready # {}
    /\ current = None \/ First(ready).deadline < current.deadline

inc_tick ==
    ticks_consumed' =
        IF current # None /\ SchedContext[current.tcb] # None
        THEN [ticks_consumed EXCEPT ![current.tcb] = (@ + 1) % TICK_MOD]
        ELSE ticks_consumed

(***************************************************************************)
(* The actions.                                                            *)
(***************************************************************************)
\* t is neither waiting for the CPU nor on it.
Detached(t) == /\ t \notin ReadyTcbs(ready)
               /\ current # None => current.tcb # t

OnCpu(t) == current # None /\ current.tcb = t

\* The thread that has the CPU and is executing.
IsRunning(t) == OnCpu(t) /\ state[t] = "Running"

\* External: Tcb::new leaves a thread Running, and enqueue wants it Inactive.
\* Only set_idle makes it so; for the other threads the code that will create
\* them has to, before their first enqueue.
Prepare(t) ==
    /\ ~ panicked
    /\ state[t] = "Running" /\ ~ OnCpu(t)
    /\ state' = [state EXCEPT ![t] = "Inactive"]
    /\ UNCHANGED <<ticks_consumed, ready, current, idle, panicked>>

\* set_idle.  Contract: at boot, with a thread that is not yet scheduled.
SetIdle(t) ==
    /\ ~ panicked
    /\ current = None /\ idle = None
    /\ Detached(t) /\ state[t] \notin Blocked
    /\ state' = [state EXCEPT ![t] = "Inactive"]
    /\ idle' = t
    /\ UNCHANGED <<ticks_consumed, ready, current, panicked>>

\* enqueue.  Contract: t is not the idle thread and is not scheduled yet; its
\* state alone does not tell, and enqueue does not look for an older entry.
Enqueue(t) ==
    /\ ~ panicked
    /\ t # idle /\ Detached(t)
    /\ ready' = enqueue(state, ready, t)
    /\ UNCHANGED <<state, ticks_consumed, current, idle, panicked>>

Wake(t) ==
    /\ ~ panicked
    /\ LET w == wake(state, ready, t)
       IN  state' = w.state /\ ready' = w.ready
    /\ UNCHANGED <<ticks_consumed, current, idle, panicked>>

\* preempt, from the timer interrupt.
Preempt ==
    /\ ~ panicked
    /\ inc_tick
    /\ IF should_preempt
       THEN context_switch(First(ready), current, state, pop(ready))
       ELSE UNCHANGED <<state, ready, current, panicked>>
    /\ UNCHANGED idle

\* yield_current.  The push comes before the pop: a full heap is an overflow.
YieldCurrent ==
    /\ ~ panicked
    /\ current # None
    /\ LET st == [state EXCEPT ![current.tcb] = "Inactive"]
       IN  IF Full(ready)
           THEN /\ panicked' = TRUE
                /\ state' = st
                /\ current' = None
                /\ UNCHANGED ready
           ELSE schedule(None, st, push(ready, current))
    /\ UNCHANGED <<ticks_consumed, idle>>

\* block_current.  Contract: the idle thread never blocks.
BlockCurrent(s) ==
    /\ ~ panicked
    /\ s \in Blocked
    /\ current # None /\ current.tcb # idle
    /\ schedule(None, [state EXCEPT ![current.tcb] = s], ready)
    /\ UNCHANGED <<ticks_consumed, idle>>

\* run.  Contract: no thread is executing: at boot, or when the thread on the
\* CPU has stopped being Running.
Run ==
    /\ ~ panicked
    /\ current # None => state[current.tcb] # "Running"
    /\ schedule(current, state, ready)
    /\ UNCHANGED <<ticks_consumed, idle>>

\* Executor::new, with every TCB as Tcb::new leaves it.
ExecInit ==
    /\ state = [t \in Tcb |-> "Running"]
    /\ ticks_consumed = [t \in Tcb |-> 0]
    /\ ready = [e \in {} |-> 0]
    /\ current = None
    /\ idle = None
    /\ panicked = FALSE

ExecNext ==
    \/ \E t \in Tcb : Prepare(t) \/ SetIdle(t) \/ Enqueue(t) \/ Wake(t)
    \/ Preempt
    \/ YieldCurrent
    \/ \E s \in Blocked : BlockCurrent(s)
    \/ Run

ExecSpec == ExecInit /\ [][ExecNext]_execVars

(***************************************************************************)
(* Properties.                                                             *)
(***************************************************************************)
ExecTypeOK ==
    /\ state \in [Tcb -> ThreadState]
    /\ ticks_consumed \in [Tcb -> 0 .. TICK_MOD - 1]
    /\ ready \in [DOMAIN ready -> Nat \ {0}] /\ DOMAIN ready \subseteq Entry
    /\ current \in Entry \cup {None}
    /\ idle \in Tcb \cup {None}
    /\ panicked \in BOOLEAN

\* A thread is in one place: it has at most one entry in the heap, and none
\* while it has the CPU.  Otherwise one thread could be dispatched twice, or
\* dispatched after it has blocked (executor.rs enqueue, context_switch).
OnePlace ==
    /\ \A e \in DOMAIN ready : ready[e] = 1
    /\ \A e, f \in DOMAIN ready : e.tcb = f.tcb => e = f
    /\ current # None => current.tcb \notin ReadyTcbs(ready)

\* A thread becomes Running with getting the CPU, and ceases to be with losing it.
RunsOnCpu == \A t \in Tcb :
    /\ state[t] # "Running" /\ state'[t] = "Running" => OnCpu(t)'
    /\ OnCpu(t) /\ state'[t] = "Running" => OnCpu(t)'

\* Thread states and queues agree: the thread on the CPU is Running, what waits
\* in the heap is Inactive, never blocked, and once a thread has left the state
\* Tcb::new gave it, it is Running just while it has the CPU (context_switch).
StatesAgree ==
    /\ [](/\ current # None => state[current.tcb] = "Running"
          /\ \A t \in ReadyTcbs(ready) : state[t] = "Inactive")
    /\ [][RunsOnCpu]_execVars

\* No push fails: neither expect("ready queue overflow") can fire when the
\* TCBs of the core, the idle thread included, fit in the heap.
NoOverflow == ~ panicked

\* Earliest deadline first, as far as one tick goes: a thread that the timer
\* takes off the CPU gives way to a strictly earlier deadline, and no ready
\* thread has an earlier deadline than the one dispatched.
EdfTick ==
    [][Preempt /\ current' # current =>
          /\ current # None => current'.deadline < current.deadline
          /\ \A e \in DOMAIN ready' : current'.deadline <= e.deadline
      ]_execVars
=============================================================================
