------------------------------ MODULE Endpoint ------------------------------
(***************************************************************************)
(* Synchronous IPC, kernel/src/objects/endpoint.rs, composed with the EDF  *)
(* scheduler it wakes threads through (module Executor) and the intrusive  *)
(* queues it keeps them in (module Threads).                               *)
(*                                                                         *)
(* The system call layer that will call these functions is not written     *)
(* yet.  What is assumed of it: on a core, kernel code other than the      *)
(* timer handler runs on behalf of the thread that has the CPU, and a      *)
(* thread makes calls only while its state is Running.  System calls run   *)
(* with interrupts masked (SFMask), so a call is not interleaved with the  *)
(* timer; the loops of cancel_all_ipc and cancel_badged_sends are modelled *)
(* one iteration per step, and `op` keeps everything else out until they   *)
(* are done.                                                               *)
(***************************************************************************)
EXTENDS Executor, Functions

CONSTANTS
    EP,     \* the endpoint objects
    Badge,  \* badges of endpoint capabilities
    Kind,   \* the kinds of send in use: call or not, reply grantable or not
    Word,   \* what a thread may put in its message registers
    Idlers, \* the TCBs that may be made the idle thread
    debug_assertions  \* the kernel is built with debug assertions

ASSUME EPAssumption == None \notin EP
ASSUME DataAssumption == /\ Badge \subseteq Nat /\ Word \subseteq Nat
                         /\ Idlers \subseteq Tcb
                         /\ debug_assertions \in BOOLEAN
                         /\ Kind \subseteq [is_call : BOOLEAN, grant : BOOLEAN]

VARIABLES
    ep_state,         \* EndpointObj::state
    queue,            \* EndpointObj::queue: head and tail
    ep_next,          \* Tcb::ep_next
    ep_prev,          \* Tcb::ep_prev
    blocking_object,  \* Tcb::blocking_object
    ipc_state,        \* Tcb::ipc_state, the two grant flags as one
    reply_to,         \* Tcb::reply_to
    caller,           \* Tcb::caller
    mr,               \* message registers: MR1, and the rest as one word
    op                \* the loop in progress, None outside the loops

queueVars == <<ep_state, queue, ep_next, ep_prev, blocking_object>>
ipcVars == <<queueVars, ipc_state, reply_to, caller, mr, op>>
vars == <<execVars, ipcVars>>

EndpointState == {"Idle", "Send", "Recv"}

\* Where the loops of cancel_all_ipc and cancel_badged_sends may be.
AllLoop == [fn : {"cancel_all_ipc"}, ep : EP]
BadgedLoop == [fn : {"cancel_badged_sends"}, ep : EP, badge : Badge,
               cur : Tcb \cup {None}, head : Tcb \cup {None},
               tail : Tcb \cup {None}]
ASSUME LoopAssumption == None \notin AllLoop /\ None \notin BadgedLoop

\* grant is `can_grant || can_grant_reply`: nothing else of the two is tested.
IpcState == [badge : Badge \cup {0}, grant : BOOLEAN, is_call : BOOLEAN]

QueueOf(e) == [head |-> queue[e].head, tail |-> queue[e].tail,
               next |-> ep_next, prev |-> ep_prev]

\* Store queue record q back as the queue of e.
SetQueue(e, q) == /\ queue' = [queue EXCEPT ![e] = [head |-> q.head,
                                                   tail |-> q.tail]]
                  /\ ep_next' = q.next
                  /\ ep_prev' = q.prev

\* An endpoint left in its state when its queue becomes empty.
KeepEndpointState(e, q) == UNCHANGED ep_state

\* State of e once its queue is q: "Update endpoint state."
IdleIfEmpty(e, q) ==
    ep_state' = IF is_empty(q) THEN [ep_state EXCEPT ![e] = "Idle"]
                ELSE ep_state

\* The thread in control of the core, and no loop under way.
Calling(t) == ~ panicked /\ op = None /\ t # idle /\ IsRunning(t)

(***************************************************************************)
(* do_ipc_transfer and do_nb_recv_failed_transfer.  MR1 is register 0: the *)
(* loop over registers MR1 + 0 .. MR1 + 3 starts with it.  set_mr has a    *)
(* debug assertion that the index is not 0: both functions start with      *)
(* set_mr(MR1, ..), and in a build with debug assertions end there.        *)
(***************************************************************************)
MR1 == 0

MrAsserts(idx) == debug_assertions => idx > 0

do_ipc_transfer(regs, sender, receiver, badge) ==
    LET badged == [regs EXCEPT ![receiver].mr1 = badge]
    IN  [badged EXCEPT ![receiver] = badged[sender]]

do_nb_recv_failed_transfer(regs, thread) == [regs EXCEPT ![thread].mr1 = 0]

\* The user loads word w in the message registers before it traps.
Load(t, w) == [mr EXCEPT ![t] = [mr1 |-> w, rest |-> w]]

(***************************************************************************)
(* What becomes of a caller once its message is taken: setup_caller_cap    *)
(* when a reply can be granted, else it is left Inactive.                  *)
(***************************************************************************)
CallerState(grant) == IF grant THEN "BlockedOnReply" ELSE "Inactive"

setup_caller_cap(is_call, grant, c, callee) ==
    IF is_call /\ grant
    THEN /\ reply_to' = [reply_to EXCEPT ![c] = callee]
         /\ caller' = [caller EXCEPT ![callee] = c]
    ELSE UNCHANGED <<reply_to, caller>>

\* expect("... queue must not be empty")
PanicEmptyQueue ==
    /\ panicked' = TRUE
    /\ UNCHANGED <<state, ready, queueVars, ipc_state, reply_to, caller, mr>>

\* The debug assertion of set_mr, in a transfer to or from the registers regs.
PanicRegister(regs) ==
    /\ panicked' = TRUE
    /\ mr' = regs
    /\ UNCHANGED <<state, ready, blocking_object, ipc_state, reply_to, caller>>

\* A thread recorded as blocked on itself: blocking_object is an untyped pointer.
BlockOnSelf(t, e, kind) ==
    /\ state' = [state EXCEPT ![t] = IF kind = "Send" THEN "BlockedOnSend"
                                     ELSE "BlockedOnReceive"]
    /\ blocking_object' = [blocking_object EXCEPT ![t] = t]
    /\ SetQueue(e, append(QueueOf(e), t))
    /\ ep_state' = [ep_state EXCEPT ![e] = kind]
    /\ UNCHANGED <<ready, reply_to, caller, panicked>>

\* The caller t blocks on e for `kind`, and is appended to its queue.
BlockOn(t, e, kind) ==
    /\ state' = [state EXCEPT ![t] = IF kind = "Send" THEN "BlockedOnSend"
                                     ELSE "BlockedOnReceive"]
    /\ blocking_object' = [blocking_object EXCEPT ![t] = e]
    /\ SetQueue(e, append(QueueOf(e), t))
    /\ ep_state' = [ep_state EXCEPT ![e] = kind]
    /\ UNCHANGED <<ready, reply_to, caller, panicked>>

\* send_ipc, receiver waiting.  The receiver's state is Running, then Inactive,
\* by the time wake is called, and wake wants a blocked thread.
SendToReceiver(s, e, is_call, badge, grant, regs) ==
    LET r    == queue[e].head
        rest == dequeue_head(QueueOf(e))
        st   == IF is_call THEN [state EXCEPT ![s] = CallerState(grant)]
                ELSE state
        w    == wake([st EXCEPT ![r] = "Inactive"], ready, r)
    IN  IF r = None THEN PanicEmptyQueue
        ELSE /\ SetQueue(e, rest)
             /\ IdleIfEmpty(e, rest)
             /\ IF ~ MrAsserts(MR1) THEN PanicRegister(regs)
                ELSE /\ mr' = do_ipc_transfer(regs, s, r, badge)
                     /\ setup_caller_cap(is_call, grant, s, r)
                     /\ state' = w.state
                     /\ ready' = w.ready
                     /\ UNCHANGED <<blocking_object, ipc_state, panicked>>

send_ipc(s, e, blocking, is_call, badge, grant, w) ==
    /\ Calling(s)
    /\ \/ /\ ep_state[e] # "Recv" /\ blocking
          /\ ipc_state' = [ipc_state EXCEPT ![s] =
                 [badge |-> badge, grant |-> grant, is_call |-> is_call]]
          /\ BlockOn(s, e, "Send")
          /\ mr' = Load(s, w)
       \/ /\ ep_state[e] # "Recv" /\ ~ blocking
          /\ mr' = Load(s, w)
          /\ UNCHANGED <<state, ready, panicked, queueVars, ipc_state,
                         reply_to, caller>>
       \/ /\ ep_state[e] = "Recv"
          /\ SendToReceiver(s, e, is_call, badge, grant, Load(s, w))
    /\ UNCHANGED <<ticks_consumed, current, idle, op>>

\* receive_ipc, sender waiting.  A sender that does not call is made Inactive
\* before wake, as in SendToReceiver.
ReceiveFromSender(r, e) ==
    LET s    == queue[e].head
        rest == dequeue_head(QueueOf(e))
        ipc  == ipc_state[s]
        st   == [state EXCEPT ![s] = CallerState(ipc.is_call /\ ipc.grant)]
        w    == IF ipc.is_call THEN [state |-> st, ready |-> ready]
                ELSE wake(st, ready, s)
    IN  IF s = None THEN PanicEmptyQueue
        ELSE /\ SetQueue(e, rest)
             /\ IdleIfEmpty(e, rest)
             /\ IF ~ MrAsserts(MR1) THEN PanicRegister(mr)
                ELSE /\ mr' = do_ipc_transfer(mr, s, r, ipc.badge)
                     /\ setup_caller_cap(ipc.is_call, ipc.grant, s, r)
                     /\ state' = w.state
                     /\ ready' = w.ready
                     /\ UNCHANGED <<blocking_object, ipc_state, panicked>>

receive_ipc(r, e, blocking) ==
    /\ Calling(r)
    /\ \/ /\ ep_state[e] # "Send" /\ blocking
          /\ BlockOn(r, e, "Recv")
          /\ UNCHANGED <<ipc_state, mr>>
       \/ /\ ep_state[e] # "Send" /\ ~ blocking
          /\ IF ~ MrAsserts(MR1) THEN PanicRegister(mr)
             ELSE /\ mr' = do_nb_recv_failed_transfer(mr, r)
                  /\ UNCHANGED <<state, ready, panicked, blocking_object,
                                 ipc_state, reply_to, caller>>
          /\ UNCHANGED <<ep_state, queue, ep_next, ep_prev>>
       \/ ep_state[e] = "Send" /\ ReceiveFromSender(r, e)
    /\ UNCHANGED <<ticks_consumed, current, idle, op>>

(***************************************************************************)
(* Cancellation.  cancel_ipc leaves the thread suspended: it does not put  *)
(* it in the ready heap.                                                   *)
(***************************************************************************)
\* A cancellation that takes the thread from the queue and forgets the state.
CancelQueuedKeepingState(t, e) ==
    /\ SetQueue(e, remove(QueueOf(e), t))
    /\ blocking_object' = [blocking_object EXCEPT ![t] = None]
    /\ UNCHANGED <<ep_state, reply_to, caller>>

CancelQueued(t, e) ==
    LET rest == remove(QueueOf(e), t)
    IN  /\ SetQueue(e, rest)
        /\ IdleIfEmpty(e, rest)
        /\ blocking_object' = [blocking_object EXCEPT ![t] = None]
        /\ UNCHANGED <<reply_to, caller>>

\* A cancellation that leaves the callee's link to the caller.
CancelReplyKeepingLink(t) ==
    /\ reply_to' = [reply_to EXCEPT ![t] = None]
    /\ UNCHANGED <<caller, queueVars>>

CancelReply(t) ==
    /\ caller' = IF reply_to[t] = None THEN caller
                 ELSE [caller EXCEPT ![reply_to[t]] = None]
    /\ reply_to' = [reply_to EXCEPT ![t] = None]
    /\ UNCHANGED queueVars

cancel_ipc(s, t) ==
    /\ Calling(s)
    /\ state[t] \in Blocked
    /\ \/ /\ state[t] \in {"BlockedOnSend", "BlockedOnReceive"}
          /\ CancelQueued(t, blocking_object[t])
       \/ /\ state[t] = "BlockedOnNotification"
          /\ UNCHANGED <<queueVars, reply_to, caller>>
       \/ /\ state[t] = "BlockedOnReply"
          /\ CancelReply(t)
    /\ state' = [state EXCEPT ![t] = "Inactive"]
    /\ UNCHANGED <<ticks_consumed, ready, current, idle, panicked,
                   ipc_state, mr, op>>

\* "Restart" thread t: Restart, then Inactive and back in the ready heap.
Restart(t) ==
    /\ state' = [state EXCEPT ![t] = "Inactive"]
    /\ blocking_object' = [blocking_object EXCEPT ![t] = None]
    /\ ready' = enqueue(state', ready, t)

notLoopVars == <<ticks_consumed, current, idle, panicked, ipc_state,
                 reply_to, caller, mr>>

\* cancel_all_ipc: entry, and one iteration or the end of the loop.
cancel_all_ipc(s, e) ==
    /\ Calling(s)
    /\ ep_state[e] # "Idle"
    /\ op' = [fn |-> "cancel_all_ipc", ep |-> e]
    /\ UNCHANGED <<execVars, queueVars, ipc_state, reply_to, caller, mr>>

CancelAllStep ==
    /\ op # None /\ op.fn = "cancel_all_ipc"
    /\ LET q == QueueOf(op.ep)
       IN  \/ /\ ~ is_empty(q)
              /\ SetQueue(op.ep, dequeue_head(q))
              /\ Restart(q.head)
              /\ UNCHANGED <<ep_state, op>>
           \/ /\ is_empty(q)
              /\ ep_state' = [ep_state EXCEPT ![op.ep] = "Idle"]
              /\ op' = None
              /\ UNCHANGED <<state, ready, queue, ep_next, ep_prev,
                             blocking_object>>
    /\ UNCHANGED notLoopVars

\* cancel_badged_sends.  op.head and op.tail are new_queue, op.cur is the
\* local variable current.
cancel_badged_sends(s, e, badge) ==
    /\ Calling(s)
    /\ ep_state[e] = "Send"
    /\ op' = [fn |-> "cancel_badged_sends", ep |-> e, badge |-> badge,
              cur |-> queue[e].head, head |-> None, tail |-> None]
    /\ UNCHANGED <<execVars, queueVars, ipc_state, reply_to, caller, mr>>

\* The queue under construction.
NewQueue == [head |-> op.head, tail |-> op.tail,
             next |-> ep_next, prev |-> ep_prev]

\* A loop that reads ep_next after append has cleared it.
BadgedKeepLateNext(t) ==
    LET q == append(NewQueue, t)
    IN  /\ ep_next' = q.next
        /\ ep_prev' = q.prev
        /\ op' = [op EXCEPT !.cur = q.next[t],
                            !.head = q.head, !.tail = q.tail]
        /\ UNCHANGED <<state, ready, blocking_object>>

BadgedKeep(t) ==
    LET q == append(NewQueue, t)
    IN  /\ ep_next' = q.next
        /\ ep_prev' = q.prev
        /\ op' = [op EXCEPT !.cur = ep_next[t],
                            !.head = q.head, !.tail = q.tail]
        /\ UNCHANGED <<state, ready, blocking_object>>

\* A loop that does not move on past a thread it has dropped.
BadgedDropStuck(t) ==
    /\ ep_next' = [ep_next EXCEPT ![t] = None]
    /\ ep_prev' = [ep_prev EXCEPT ![t] = None]
    /\ Restart(t)
    /\ UNCHANGED op

BadgedDrop(t) ==
    /\ ep_next' = [ep_next EXCEPT ![t] = None]
    /\ ep_prev' = [ep_prev EXCEPT ![t] = None]
    /\ op' = [op EXCEPT !.cur = ep_next[t]]
    /\ Restart(t)

CancelBadgedStep ==
    /\ op # None /\ op.fn = "cancel_badged_sends"
    /\ \/ /\ op.cur # None
          /\ ipc_state[op.cur].badge = op.badge
          /\ BadgedDrop(op.cur)
          /\ UNCHANGED <<ep_state, queue>>
       \/ /\ op.cur # None
          /\ ipc_state[op.cur].badge # op.badge
          /\ BadgedKeep(op.cur)
          /\ UNCHANGED <<ep_state, queue>>
       \/ /\ op.cur = None
          /\ SetQueue(op.ep, NewQueue)
          /\ IdleIfEmpty(op.ep, NewQueue)
          /\ op' = None
          /\ UNCHANGED <<state, ready, blocking_object>>
    /\ UNCHANGED notLoopVars

(***************************************************************************)
(* The scheduler's own operations.  The timer fires outside system calls.  *)
(***************************************************************************)
SetIdleThread(t) == op = None /\ SetIdle(t) /\ UNCHANGED ipcVars

\* At boot or on behalf of a running thread: a new thread is made Inactive, and
\* enqueue.
Resume(t) == /\ op = None
             /\ current = None \/ \E s \in Tcb : Calling(s)
             /\ Prepare(t) \/ Enqueue(t)
             /\ UNCHANGED ipcVars

Tick == op = None /\ Preempt /\ UNCHANGED ipcVars

\* run, when the thread on the CPU has blocked: "Scheduler will handle context
\* switch."  No code calls it then: the system call layer has to.
Switch == op = None /\ Run /\ UNCHANGED ipcVars

Yield == /\ op = None
         /\ \E t \in Tcb : IsRunning(t)
         /\ YieldCurrent
         /\ UNCHANGED ipcVars

\* Waiting for a notification is not implemented beyond the thread state.
WaitNotification == /\ \E s \in Tcb : Calling(s)
                    /\ BlockCurrent("BlockedOnNotification")
                    /\ UNCHANGED ipcVars

Init ==
    /\ ExecInit
    /\ ep_state = [e \in EP |-> "Idle"]
    /\ queue = [e \in EP |-> [head |-> None, tail |-> None]]
    /\ ep_next = [t \in Tcb |-> None]
    /\ ep_prev = [t \in Tcb |-> None]
    /\ blocking_object = [t \in Tcb |-> None]
    /\ ipc_state = [t \in Tcb |-> [badge |-> 0, grant |-> FALSE,
                                   is_call |-> FALSE]]
    /\ reply_to = [t \in Tcb |-> None]
    /\ caller = [t \in Tcb |-> None]
    /\ mr = [t \in Tcb |-> [mr1 |-> 0, rest |-> 0]]
    /\ op = None

Send == \E s \in Tcb, e \in EP, blocking \in BOOLEAN, badge \in Badge,
           k \in Kind, w \in Word :
              send_ipc(s, e, blocking, k.is_call, badge, k.grant, w)

Receive == \E r \in Tcb, e \in EP, blocking \in BOOLEAN :
              receive_ipc(r, e, blocking)

CancelCalls == \E s \in Tcb :
                  \/ \E t \in Tcb : cancel_ipc(s, t)
                  \/ \E e \in EP : \/ cancel_all_ipc(s, e)
                                   \/ \E b \in Badge : cancel_badged_sends(s, e, b)

LoopStep == CancelAllStep \/ CancelBadgedStep

Next ==
    \/ \E t \in Idlers : SetIdleThread(t)
    \/ \E t \in Tcb : Resume(t)
    \/ Tick
    \/ Switch
    \/ Yield
    \/ WaitNotification
    \/ Send
    \/ Receive
    \/ CancelCalls
    \/ LoopStep

Spec == Init /\ [][Next]_vars

(***************************************************************************)
(* Properties.                                                             *)
(***************************************************************************)
TypeOK ==
    /\ ExecTypeOK
    /\ ep_state \in [EP -> EndpointState]
    /\ queue \in [EP -> [head : Tcb \cup {None}, tail : Tcb \cup {None}]]
    /\ ep_next \in [Tcb -> Tcb \cup {None}]
    /\ ep_prev \in [Tcb -> Tcb \cup {None}]
    /\ blocking_object \in [Tcb -> EP \cup {None}]
    /\ ipc_state \in [Tcb -> IpcState]
    /\ reply_to \in [Tcb -> Tcb \cup {None}]
    /\ caller \in [Tcb -> Tcb \cup {None}]
    /\ mr \in [Tcb -> [mr1 : Word \cup Badge \cup {0}, rest : Word \cup {0}]]
    /\ op \in {None} \cup AllLoop \cup BadgedLoop

\* The threads in the queue of e, in order.  While cancel_badged_sends runs
\* they are split between the new queue and what is left of the old one.
Waiting(e) ==
    IF op # None /\ op.ep = e /\ op.fn = "cancel_badged_sends"
    THEN Follow(ep_next, op.head) \o Follow(ep_next, op.cur)
    ELSE Follow(ep_next, queue[e].head)

BlockedFor(kind) == IF kind = "Send" THEN "BlockedOnSend" ELSE "BlockedOnReceive"

\* Between calls the queue of an endpoint is a well-formed list of exactly the
\* threads blocked on it, in the way its state says, and it is empty just when
\* the state is Idle.  dequeue_head() on a Send or Recv endpoint therefore
\* finds a thread, and a thread is never in two queues (endpoint.rs, tcb.rs).
QueueHoldsBlocked ==
    \A e \in EP : (op = None \/ op.ep # e) =>
        /\ WellLinked(QueueOf(e))
        /\ ep_state[e] = "Idle" <=> is_empty(QueueOf(e))
        /\ LET members == Range(Waiting(e))
           IN  /\ members = {t \in Tcb :
                     /\ blocking_object[t] = e
                     /\ state[t] \in {"BlockedOnSend", "BlockedOnReceive"}}
               /\ \A t \in members : state[t] = BlockedFor(ep_state[e])

\* A thread is in one place: with the CPU, once in the ready heap, or blocked;
\* whatever IPC did to it, what the scheduler may dispatch is not blocked, and
\* no call leaves a thread Running that does not have the CPU.
ScheduledOnce ==
    /\ [](OnePlace /\ \A t \in ReadyTcbs(ready) : state[t] = "Inactive")
    /\ [][RunsOnCpu]_vars

\* In a build without debug assertions no expect() fails: a Send or Recv
\* endpoint always has a thread to dequeue ("... endpoint queue must not be
\* empty"), and no ready heap overflows.  With debug assertions the first
\* transfer panics.
NoPanic == ~ debug_assertions => ~ panicked

\* A reply link is never stale: the caller a thread remembers is blocked on
\* the reply of that very thread (setup_caller_cap, cancel_ipc).
CallerWaits ==
    \A t \in Tcb : caller[t] # None =>
        /\ state[caller[t]] = "BlockedOnReply"
        /\ reply_to[caller[t]] = t

\* cancel_badged_sends takes every sender with the badge, and no other: none is
\* left when the loop ends, and a thread that leaves had the badge.
BadgedExactly ==
    [][op # None /\ op.fn = "cancel_badged_sends" =>
          /\ op' = None => \A t \in Tcb :
                 state[t] = "BlockedOnSend" /\ blocking_object[t] = op.ep
                     => ipc_state[t].badge # op.badge
          /\ \A t \in Tcb : blocking_object[t] # None /\ blocking_object'[t] = None
                 => ipc_state[t].badge = op.badge]_vars

\* Iterations the loop in progress has before it.
LoopLeft == IF op = None THEN 0
            ELSE 1 + Len(Follow(ep_next, IF op.fn = "cancel_all_ipc"
                                         THEN queue[op.ep].head ELSE op.cur))

\* The loops of cancel_all_ipc and cancel_badged_sends come to an end: each
\* iteration leaves fewer threads ahead, though it relinks the list it walks.
LoopsEnd == [][LoopStep => LoopLeft' < LoopLeft]_vars

\* The linked queues implement first-in first-out endpoints.
Lines == [e \in EP |-> Waiting(e)]
LineKinds == [e \in EP |-> IF Waiting(e) = <<>> THEN "Idle" ELSE ep_state[e]]

Fifo == INSTANCE FifoEndpoint WITH waiting <- Lines, kind <- LineKinds,
                                   blocking <- blocking_object

\* Threads are served in the order in which they queued, whatever senders,
\* receivers and cancellations are interleaved.
FifoOrder == Fifo!FifoSpec

(***************************************************************************)
(* Statements of the repository that the code does not meet.               *)
(***************************************************************************)
\* endpoint.rs: "Schedule receiver (preempt current thread)." After a message
\* is handed to a waiting receiver, the receiver is in the ready heap.
ReceiverScheduled ==
    [][\A e \in EP, r \in Tcb :
          Send /\ ep_state[e] = "Recv" /\ queue[e].head = r
               /\ queue'[e].head # r
              => r \in ReadyTcbs(ready')]_vars
=============================================================================
