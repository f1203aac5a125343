------------------------- MODULE EndpointCallProofs -------------------------
(***************************************************************************)
(* Proofs about Endpoint: send_ipc, receive_ipc, cancel_ipc and the starts *)
(* of cancel_all_ipc and cancel_badged_sends keep the invariant, and move at*)
(* most one thread.                                                        *)
(***************************************************************************)
EXTENDS ThreadProofs

(***************************************************************************)
(* The starts of the loops.                                                *)
(***************************************************************************)
\* The start of cancel_all_ipc keeps the invariant.
LEMMA CancelAllEntryGood ==
  ASSUME EndpointInv, NEW s \in Tcb, NEW e \in EP, cancel_all_ipc(s, e)
  PROVE  Good
<1>1. /\ Calling(s) /\ op' = [fn |-> "cancel_all_ipc", ep |-> e]
      /\ UNCHANGED <<execVars, queueVars, ipc_state, reply_to, caller, mr>>
  BY Zenon DEF cancel_all_ipc
<1>2. /\ op = None /\ ~ panicked /\ state[s] = "Running" /\ current # None /\ current.tcb = s
      /\ \A f \in EP : Lines[f] = <<>> => ep_state[f] = "Idle"
  BY <1>1, Caller, Zenon
<1>3. SchedInv /\ DataInv /\ ListInv /\ MemberInv /\ CallerWaits
  BY Zenon DEF EndpointInv
<1>4. /\ UNCHANGED <<state, ticks_consumed, ready, current, idle, panicked>>
      /\ UNCHANGED <<ep_state, queue, ep_next, ep_prev, blocking_object>>
  BY <1>1, Zenon DEF execVars, queueVars
<1>5. \A f \in EP : ~ Splitting(f) /\ ~ Splitting(f)'
  BY <1>1, <1>2, Zenon DEF Splitting
<1>6. Lines' = Lines /\ ListInv'
  BY <1>3, <1>4, <1>5, LinesStill
<1>7. SchedInv'
  BY <1>1, <1>2, <1>3, <1>4, ThreadsChange DEF SchedInv
<1>8. DataInv'
  BY <1>1, <1>3, <1>4, Zenon DEF DataInv
<1>9. CallerWaits'
  BY <1>1, <1>3, <1>4, Zenon DEF CallerWaits
<1>10. Stays
  BY <1>4, <1>6, Zenon DEF Stays, SameQueueing
<1>11. Settled
  BY <1>2, <1>4, <1>6, Zenon DEF Settled
<1> QED
  BY <1>6, <1>7, <1>8, <1>9, <1>10, <1>11 DEF Good, Moves

\* cancel_badged_sends, before its loop: the new queue is empty and the rest is
\* the whole queue.
LEMMA CancelBadgedEntryGood ==
  ASSUME Counting, EndpointInv, NEW s \in Tcb, NEW e \in EP, NEW b \in Badge,
         cancel_badged_sends(s, e, b)
  PROVE  Good
<1>1. /\ Calling(s) /\ ep_state[e] = "Send"
      /\ op' = [fn |-> "cancel_badged_sends", ep |-> e, badge |-> b,
                cur |-> queue[e].head, head |-> None, tail |-> None]
      /\ UNCHANGED <<execVars, queueVars, ipc_state, reply_to, caller, mr>>
  BY Zenon DEF cancel_badged_sends
<1>2. /\ op = None /\ ~ panicked /\ state[s] = "Running" /\ current # None /\ current.tcb = s
      /\ \A f \in EP : Lines[f] = <<>> => ep_state[f] = "Idle"
  BY <1>1, Caller, Zenon
<1>3. SchedInv /\ DataInv /\ ListInv /\ MemberInv /\ CallerWaits
  BY Zenon DEF EndpointInv
<1>4. /\ UNCHANGED <<state, ticks_consumed, ready, current, idle, panicked>>
      /\ UNCHANGED <<ep_state, queue, ep_next, ep_prev, blocking_object>>
  BY <1>1, Zenon DEF execVars, queueVars
<1>5. /\ op' # None /\ op'.fn = "cancel_badged_sends" /\ op'.ep = e
      /\ op'.cur = queue[e].head /\ op'.head = None /\ op'.tail = None
      /\ op' \in [fn : {"cancel_badged_sends"}, ep : EP, badge : Badge,
                  cur : Tcb \cup {None}, head : Tcb \cup {None},
                  tail : Tcb \cup {None}]
  <2>1. queue[e].head \in Tcb \cup {None}
    BY <1>3 DEF DataInv
  <2> QED
    BY <1>1, <2>1, LoopAssumption DEF BadgedLoop
<1>6. Splitting(e)' /\ (\A f \in EP : ~ Splitting(f)) /\ \A f \in EP : f # e => ~ Splitting(f)'
  BY <1>2, <1>5, Zenon DEF Splitting
<1>7. /\ ep_next \in Links /\ ep_prev \in Links
      /\ Lines[e] \in Seq(Tcb) /\ Chain(ep_next, queue[e].head, Lines[e])
  BY <1>3, <1>6, Zenon DEF DataInv, ListInv, Linked, QueueOf, Chain
<1>8. KeptLine' = <<>> /\ RestLine' = Lines[e]
  BY <1>4, <1>5, <1>7, EmptyChain, FollowChain DEF KeptLine, RestLine
<1>9. Lines'[e] = Lines[e]
  <2>1. Lines'[e] = KeptLine' \o RestLine'
    BY <1>5, LineNext, Zenon DEF KeptLine, RestLine
  <2> QED
    BY <1>7, <1>8, <2>1, JoinEmpty
<1>10. ASSUME NEW f \in EP, f # e
       PROVE  Lines'[f] = Lines[f] /\ Linked(QueueOf(f)', Lines'[f])
  BY <1>3, <1>4, <1>6, <1>7, <1>10, Elsewhere, Zenon
<1>11. Lines' = Lines
  BY <1>9, <1>10, LinesFunction, Zenon
<1>12. ListInv'
  <2>1. Linked(NewQueue', <<>>)
    BY <1>4, <1>5, <1>7 DEF Linked, NewQueue, Chain, At
  <2>2. \A t \in Tcb : ~ In(t, <<>>)
    BY DEF In
  <2>3. Chain(ep_next', op'.cur, RestLine')
    BY <1>4, <1>5, <1>7, <1>8
  <2>4. ep_state'[e] = "Send"
    BY <1>1, <1>4, Zenon
  <2> QED
    BY <1>6, <1>8, <1>10, <2>1, <2>2, <2>3, <2>4, Zenon DEF ListInv
<1>13. SchedInv'
  BY <1>2, <1>3, <1>4, ThreadsChange, Zenon DEF SchedInv
<1>14. DataInv'
  BY <1>1, <1>3, <1>4, <1>5 DEF DataInv
<1>15. CallerWaits'
  BY <1>1, <1>3, <1>4, Zenon DEF CallerWaits
<1>16. Stays
  BY <1>4, <1>11, Zenon DEF Stays, SameQueueing
<1>17. Settled
  BY <1>2, <1>4, <1>11 DEF Settled
<1> QED
  BY <1>12, <1>13, <1>14, <1>15, <1>16, <1>17 DEF Good, Moves

(***************************************************************************)
(* Blocking on a queue, and taking its head.                               *)
(***************************************************************************)
\* The caller blocks.
LEMMA BlockOnGood ==
  ASSUME Counting, EndpointInv, NEW t \in Tcb, Calling(t), NEW e \in EP,
         NEW k \in {"Send", "Recv"}, ep_state[e] \in {"Idle", k}, BlockOn(t, e, k),
         UNCHANGED <<ticks_consumed, current, idle, op>>,
         ipc_state' \in [Tcb -> IpcState], mr' \in Regs
  PROVE  Good
<1> DEFINE q == append(QueueOf(e), t)
           z == Append(Lines[e], t)
<1>1. /\ op = None /\ ~ panicked /\ t # idle /\ state[t] = "Running"
      /\ t \notin ReadyTcbs(ready) /\ state \in [Tcb -> ThreadState]
      /\ \A f \in EP : ~ In(t, Lines[f])
      /\ \A f \in EP : Lines[f] = <<>> => ep_state[f] = "Idle"
  BY Caller, Zenon
<1>2. SchedInv /\ DataInv /\ ListInv /\ MemberInv /\ CallerWaits
  BY Zenon DEF EndpointInv
<1>3. /\ state' = [state EXCEPT ![t] = BlockedFor(k)]
      /\ blocking_object' = [blocking_object EXCEPT ![t] = e]
      /\ SetQueue(e, q) /\ ep_state' = [ep_state EXCEPT ![e] = k]
      /\ UNCHANGED <<ready, reply_to, caller, panicked>>
  BY Zenon DEF BlockOn, BlockedFor
<1>4. BlockedFor(k) \in Queueing /\ BlockedFor(k) \in ThreadState /\ BlockedFor(k) # "Running"
  BY Zenon DEF BlockedFor, Queueing, ThreadState, Blocked
<1>5. Linked(QueueOf(e), Lines[e]) /\ QueueOf(e).next = ep_next /\ QueueOf(e).prev = ep_prev
  BY <1>1, <1>2, Zenon DEF ListInv, Splitting, QueueOf
<1>6. /\ Linked(q, z)
      /\ \A u \in Tcb : u # t /\ ~ In(u, Lines[e]) =>
             q.next[u] = ep_next[u] /\ q.prev[u] = ep_prev[u]
  BY <1>1, <1>5, AppendLinked, Zenon
<1> HIDE DEF q, z
<1>7. ASSUME NEW f \in EP, NEW u \in Tcb, f # e, In(u, Lines[f])
      PROVE  q.next[u] = ep_next[u] /\ q.prev[u] = ep_prev[u]
  <2>1. u # t
    BY <1>1, <1>7, Zenon
  <2>2. ~ In(u, Lines[e])
    BY <1>2, <1>7, Apart, Zenon
  <2> QED
    BY <1>6, <2>1, <2>2, Zenon
<1>8. /\ ListInv' /\ Lines' = [Lines EXCEPT ![e] = z]
      /\ ep_next' \in Links /\ ep_prev' \in Links
      /\ queue' \in [EP -> [head : Tcb \cup {None}, tail : Tcb \cup {None}]]
  <2>1. op' = op /\ op = None
    BY <1>1, Zenon
  <2>2. \A f \in EP, u \in Tcb : f # e /\ In(u, Lines[f]) =>
            q.next[u] = ep_next[u] /\ q.prev[u] = ep_prev[u]
    BY <1>7, Zenon
  <2> QED
    BY <1>2, <1>3, <1>6, <2>1, <2>2, QueueChange
<1>9. DataInv'
  <2>1. ep_state' \in [EP -> EndpointState]
    BY <1>2, <1>3, Zenon DEF DataInv, EndpointState
  <2> QED
    BY <1>2, <1>3, <1>8, <2>1 DEF DataInv
<1>10. state' \in [Tcb -> ThreadState]
       /\ \A u \in Tcb : state'[u] = IF u = t THEN BlockedFor(k) ELSE state[u]
  BY <1>1, <1>3, <1>4, Zenon
<1>11. SchedInv'
  <2>1. \A u \in Tcb : state'[u] # state[u] => /\ u # idle /\ state'[u] # "Running"
                                              /\ u \notin ReadyTcbs(ready)
    BY <1>1, <1>10, Zenon
  <2>2. Consistent(state', ready', current)
    BY <1>2, <1>3, <1>10, <2>1, ReadyStay, Zenon DEF SchedInv
  <2> QED
    BY <1>1, <1>2, <1>3, <2>2, ThreadsChange, Zenon
<1>12. CallerWaits'
  BY <1>1, <1>2, <1>3, CallerSame, Zenon
<1>13. Joins(t, e, k)
  BY <1>1, <1>3, <1>8 DEF Joins, z
<1>14. Settled
  <2>1. ASSUME NEW f \in EP, Lines'[f] = <<>> PROVE ep_state'[f] = "Idle"
    <3>1. CASE f = e
      BY <1>8, <2>1, <3>1, LinesFunction DEF z
    <3>2. CASE f # e
      BY <1>1, <1>2, <1>3, <1>8, <2>1, <3>2, LinesFunction, Zenon DEF DataInv
    <3> QED
      BY <3>1, <3>2
  <2> QED
    BY <2>1, Zenon DEF Settled
<1> QED
  BY <1>8, <1>9, <1>11, <1>12, <1>13, <1>14 DEF Good, Moves

\* The first thread of a line is served: what that does to the queues.
LEMMA ServeLines ==
  ASSUME Counting, EndpointInv, NEW e \in EP, op = None, op' = op, Lines[e] # <<>>,
         SetQueue(e, dequeue_head(QueueOf(e))),
         IdleIfEmpty(e, dequeue_head(QueueOf(e))),
         UNCHANGED blocking_object,
         state'[queue[e].head] \notin Queueing,
         \A t \in Tcb : t # queue[e].head => SameQueueing(t)
  PROVE  /\ ListInv' /\ Moves /\ Settled
         /\ ep_next' \in Links /\ ep_prev' \in Links
         /\ queue' \in [EP -> [head : Tcb \cup {None}, tail : Tcb \cup {None}]]
         /\ ep_state' \in [EP -> EndpointState]
<1> DEFINE q == dequeue_head(QueueOf(e))
           z == Tail(Lines[e])
<1>1. SchedInv /\ DataInv /\ ListInv /\ MemberInv /\ CallerWaits
  BY Zenon DEF EndpointInv
<1>2. /\ Linked(QueueOf(e), Lines[e]) /\ QueueOf(e).next = ep_next
      /\ QueueOf(e).prev = ep_prev /\ QueueOf(e).head = queue[e].head
  BY <1>1, Zenon DEF ListInv, Splitting, QueueOf
<1>3. /\ queue[e].head = Lines[e][1] /\ Lines[e][1] \in Tcb /\ Linked(q, z)
      /\ \A u \in Tcb : ~ In(u, Lines[e]) =>
             q.next[u] = ep_next[u] /\ q.prev[u] = ep_prev[u]
  BY <1>2, DequeueLinked, Zenon
<1>4. Lines[e] \in Seq(Tcb)
  BY <1>1, LineFacts, Zenon
<1>5. 1 \in 1 .. Len(Lines[e]) /\ z = Without(Lines[e], 1)
  BY <1>4, TailWithout, Zenon
<1>6. SetQueue(e, q) /\ IdleIfEmpty(e, q)
  BY Zenon
<1> HIDE DEF q, z
<1>7. \A f \in EP, u \in Tcb : f # e /\ In(u, Lines[f]) =>
          q.next[u] = ep_next[u] /\ q.prev[u] = ep_prev[u]
  BY <1>1, <1>3, Apart
<1>8. /\ ListInv' /\ Lines' = [Lines EXCEPT ![e] = z]
      /\ ep_next' \in Links /\ ep_prev' \in Links
      /\ queue' \in [EP -> [head : Tcb \cup {None}, tail : Tcb \cup {None}]]
      /\ is_empty(q) <=> z = <<>>
  BY <1>1, <1>3, <1>6, <1>7, QueueChange
<1>9. Lines'[e] = z /\ \A f \in EP : f # e => Lines'[f] = Lines[f]
  BY <1>8, LinesFunction, Zenon
<1>10. ep_state' = IF z = <<>> THEN [ep_state EXCEPT ![e] = "Idle"] ELSE ep_state
  BY <1>6, <1>8, Zenon DEF IdleIfEmpty
<1>11. ep_state' \in [EP -> EndpointState]
  BY <1>1, <1>10, Zenon DEF DataInv, EndpointState
<1>12. Leaves(e, 1)
  <2>1. Lines' = [Lines EXCEPT ![e] = Without(Lines[e], 1)]
    BY <1>5, <1>8, Zenon
  <2>2. \/ ep_state' = ep_state
        \/ Lines'[e] = <<>> /\ ep_state' = [ep_state EXCEPT ![e] = "Idle"]
    BY <1>9, <1>10
  <2> QED
    BY <1>3, <2>1, <2>2, Zenon DEF Leaves
<1>13. ASSUME NEW f \in EP, Lines'[f] = <<>> PROVE ep_state'[f] = "Idle"
  <2>1. CASE f = e
    BY <1>1, <1>9, <1>10, <1>13, <2>1 DEF DataInv
  <2>2. CASE f # e
    BY <1>1, <1>9, <1>10, <1>13 DEF DataInv, MemberInv
  <2> QED
    BY <2>1, <2>2
<1> QED
  BY <1>8, <1>11, <1>12, <1>13 DEF Settled, Moves

\* setup_caller_cap makes a link whose caller waits for the reply.
LEMMA SetupWaits ==
  ASSUME CallerWaits, DataInv, NEW c \in Tcb, NEW callee \in Tcb, NEW is_call, NEW grant,
         setup_caller_cap(is_call, grant, c, callee),
         state[c] # "BlockedOnReply",
         is_call /\ grant => state'[c] = "BlockedOnReply",
         \A t \in Tcb : t # c /\ state[t] = "BlockedOnReply" => state'[t] = state[t]
  PROVE  /\ CallerWaits'
         /\ reply_to' \in [Tcb -> Tcb \cup {None}] /\ caller' \in [Tcb -> Tcb \cup {None}]
<1>1. reply_to \in [Tcb -> Tcb \cup {None}] /\ caller \in [Tcb -> Tcb \cup {None}]
  BY Zenon DEF DataInv
<1>2. \A t \in Tcb : caller[t] # None =>
          /\ caller[t] \in Tcb /\ caller[t] # c /\ state'[caller[t]] = "BlockedOnReply"
          /\ reply_to[caller[t]] = t
  BY <1>1 DEF CallerWaits
<1>3. CASE is_call /\ grant
  <2>1. reply_to' = [reply_to EXCEPT ![c] = callee] /\ caller' = [caller EXCEPT ![callee] = c]
    BY <1>3, Zenon DEF setup_caller_cap
  <2>2. ASSUME NEW t \in Tcb, caller'[t] # None
        PROVE  state'[caller'[t]] = "BlockedOnReply" /\ reply_to'[caller'[t]] = t
    <3>1. CASE t = callee
      BY <1>1, <1>3, <2>1, <3>1
    <3>2. CASE t # callee
      <4>1. caller'[t] = caller[t]
        BY <2>1, <3>2
      <4>2. reply_to'[caller[t]] = reply_to[caller[t]]
        BY <1>1, <1>2, <2>1, <2>2
      <4> QED
        BY <1>2, <2>2, <4>1, <4>2
    <3> QED
      BY <3>1, <3>2
  <2> QED
    BY <1>1, <2>1, <2>2 DEF CallerWaits
<1>4. CASE ~ (is_call /\ grant)
  <2>1. reply_to' = reply_to /\ caller' = caller
    BY <1>4 DEF setup_caller_cap
  <2> QED
    BY <1>1, <2>1 DEF CallerWaits
<1> QED
  BY <1>3, <1>4

\* Message registers keep their type.
LEMMA RegsType ==
  ASSUME NEW regs \in Regs, NEW s \in Tcb, NEW r \in Tcb, NEW badge \in Badge \cup {0}
  PROVE  /\ do_ipc_transfer(regs, s, r, badge) \in Regs
         /\ do_nb_recv_failed_transfer(regs, r) \in Regs
<1> DEFINE badged == [regs EXCEPT ![r].mr1 = badge]
<1>2. badged \in Regs
  BY Zenon DEF Regs
<1> HIDE DEF badged
<1>3. [badged EXCEPT ![r] = badged[s]] \in Regs
  BY <1>2, Zenon DEF Regs
<1>4. [regs EXCEPT ![r].mr1 = 0] \in Regs
  BY Zenon DEF Regs
<1> QED
  BY <1>3, <1>4 DEF do_ipc_transfer, do_nb_recv_failed_transfer, badged

\* Loading a message register keeps the types.
LEMMA LoadType ==
  ASSUME DataInv, NEW t \in Tcb, NEW w \in Word
  PROVE  Load(t, w) \in Regs
<1>1. mr \in Regs
  BY Zenon DEF DataInv
<1> QED
  BY <1>1 DEF Regs, Load

\* A message is handed over: s and the first thread h of the line of e change
\* state, and neither starts to run.
LEMMA HandOver ==
  ASSUME Counting, EndpointInv, NEW p \in Tcb, Calling(p), NEW e \in EP, Lines[e] # <<>>,
         UNCHANGED <<ticks_consumed, current, idle, panicked, op, ready>>,
         UNCHANGED <<blocking_object, ipc_state>>, mr' \in Regs,
         SetQueue(e, dequeue_head(QueueOf(e))),
         IdleIfEmpty(e, dequeue_head(QueueOf(e))),
         state' \in [Tcb -> ThreadState],
         \A t \in Tcb : t # p /\ t # queue[e].head => state'[t] = state[t],
         state'[queue[e].head] \notin Queueing \cup {"Running"},
         state'[p] = state[p] \/ state'[p] \notin Queueing \cup {"Running"},
         CallerWaits', reply_to' \in [Tcb -> Tcb \cup {None}],
         caller' \in [Tcb -> Tcb \cup {None}]
  PROVE  Good
<1> DEFINE h == queue[e].head
<1>1. /\ op = None /\ ~ panicked /\ p # idle /\ state[p] = "Running"
      /\ p \notin ReadyTcbs(ready) /\ state \in [Tcb -> ThreadState]
  BY Caller, Zenon
<1>2. SchedInv /\ DataInv /\ ListInv /\ MemberInv
  BY Zenon DEF EndpointInv
<1>3. h \in Tcb /\ In(h, Lines[e])
  <2>1. Chain(ep_next, h, Lines[e])
    BY <1>1, <1>2, Zenon DEF ListInv, Splitting, QueueOf, Linked
  <2> QED
    BY <2>1, ChainHead, Zenon
<1>4. h # idle /\ h \notin ReadyTcbs(ready)
  BY <1>3, InLine, Zenon
<1> HIDE DEF h
<1>5. state'[h] \notin Queueing \cup {"Running"} /\
      \A t \in Tcb : t # p /\ t # h => state'[t] = state[t]
  BY Zenon DEF h
<1>6. \A t \in Tcb : t # h => SameQueueing(t)
  BY <1>1, <1>5, Zenon DEF SameQueueing, Queueing
<1>7. /\ ListInv' /\ Moves /\ Settled
      /\ ep_next' \in Links /\ ep_prev' \in Links
      /\ queue' \in [EP -> [head : Tcb \cup {None}, tail : Tcb \cup {None}]]
      /\ ep_state' \in [EP -> EndpointState]
  BY <1>1, <1>5, <1>6, ServeLines, Zenon DEF h
<1>8. DataInv'
  BY <1>1, <1>2, <1>7, Zenon DEF DataInv
<1>9. SchedInv'
  <2>1. \A t \in Tcb : state'[t] # state[t] => /\ t # idle /\ state'[t] # "Running"
                                              /\ t \notin ReadyTcbs(ready)
    BY <1>1, <1>4, <1>5
  <2>2. Consistent(state', ready', current)
    BY <1>2, <2>1, ReadyStay, Zenon DEF SchedInv
  <2> QED
    BY <1>1, <1>2, <2>1, <2>2, ThreadsChange, Zenon
<1> QED
  BY <1>7, <1>8, <1>9 DEF Good

(***************************************************************************)
(* The calls.                                                              *)
(***************************************************************************)
\* send_ipc keeps the invariant, whichever way it returns.
LEMMA SendGood ==
  ASSUME Counting, EndpointInv, MrAsserts(MR1), NEW s \in Tcb, NEW e \in EP, NEW blocking \in BOOLEAN,
         NEW badge \in Badge, NEW k \in Kind, NEW w \in Word,
         send_ipc(s, e, blocking, k.is_call, badge, k.grant, w)
  PROVE  Good
<1>1. Calling(s) /\ UNCHANGED <<ticks_consumed, current, idle, op>>
  BY Zenon DEF send_ipc
<1>2. /\ op = None /\ ~ panicked /\ s # idle /\ state[s] = "Running"
      /\ state \in [Tcb -> ThreadState] /\ (\A f \in EP : ~ In(s, Lines[f]))
      /\ \A f \in EP : Lines[f] = <<>> => ep_state[f] = "Idle"
  BY <1>1, Caller, Zenon
<1>3. SchedInv /\ DataInv /\ ListInv /\ CallerWaits /\ Load(s, w) \in Regs
  BY LoadType, Zenon DEF EndpointInv
<1>4. k.is_call \in BOOLEAN /\ k.grant \in BOOLEAN
  BY DataAssumption
<1>5. CASE ep_state[e] # "Recv" /\ blocking
  <2>1. /\ ipc_state' = [ipc_state EXCEPT ![s] =
               [badge |-> badge, grant |-> k.grant, is_call |-> k.is_call]]
        /\ BlockOn(s, e, "Send") /\ mr' = Load(s, w)
    BY <1>5 DEF send_ipc
  <2>2. ipc_state' \in [Tcb -> IpcState]
    BY <1>3, <1>4, <2>1 DEF DataInv, IpcState
  <2>3. ep_state[e] \in {"Idle", "Send"}
    BY <1>3, <1>5 DEF DataInv, EndpointState
  <2> QED
    BY <1>1, <1>3, <2>1, <2>2, <2>3, BlockOnGood
<1>6. CASE ep_state[e] # "Recv" /\ ~ blocking
  <2>1. /\ mr' = Load(s, w)
        /\ UNCHANGED <<state, ready, panicked, queueVars, ipc_state, reply_to, caller>>
    BY <1>6, Zenon DEF send_ipc
  <2>2. SchedInv'
    BY <1>1, <1>3, <2>1, SchedSame DEF SchedInv
  <2>3. Undisturbed
    BY <2>1, Zenon DEF Undisturbed, SameQueueing
  <2> QED
    BY <1>1, <1>3, <2>1, <2>2, <2>3, IpcQuiet
<1>7. CASE ep_state[e] = "Recv"
  <2> DEFINE h == queue[e].head
             st == IF k.is_call THEN [state EXCEPT ![s] = CallerState(k.grant)] ELSE state
             new == [st EXCEPT ![h] = "Inactive"]
  <2>1. SendToReceiver(s, e, k.is_call, badge, k.grant, Load(s, w)) /\ Lines[e] # <<>>
    BY <1>2, <1>7, Zenon DEF send_ipc
  <2>2. h \in Tcb /\ In(h, Lines[e]) /\ h # None
    <3>1. Chain(ep_next, h, Lines[e])
      BY <1>2, <1>3, Zenon DEF ListInv, Splitting, QueueOf, Linked
    <3> QED
      BY <2>1, <3>1, ChainHead, TcbAssumption
  <2>3. h # s /\ state[h] # "BlockedOnReply"
    BY <1>2, <2>2, InLine, Zenon
  <2> HIDE DEF h
  <2>4. CallerState(k.grant) \in {"BlockedOnReply", "Inactive"}
        /\ (k.grant => CallerState(k.grant) = "BlockedOnReply")
    BY Zenon DEF CallerState
  <2>5. /\ st \in [Tcb -> ThreadState]
        /\ \A t \in Tcb : t # s => st[t] = state[t]
        /\ st[s] = state[s] \/ st[s] \in {"BlockedOnReply", "Inactive"}
        /\ k.is_call /\ k.grant => st[s] = "BlockedOnReply"
    BY <1>2, <2>4, Zenon DEF ThreadState, Blocked
  <2> HIDE DEF st
  <2>6. /\ new \in [Tcb -> ThreadState] /\ new[h] = "Inactive"
        /\ \A t \in Tcb : t # h => new[t] = st[t]
    BY <2>2, <2>5 DEF ThreadState
  <2> HIDE DEF new
  <2>7. wake(new, ready, h) = [state |-> new, ready |-> ready]
    BY <2>6, Zenon DEF wake, Blocked
  <2>8. /\ SetQueue(e, dequeue_head(QueueOf(e)))
        /\ IdleIfEmpty(e, dequeue_head(QueueOf(e)))
        /\ mr' = do_ipc_transfer(Load(s, w), s, h, badge)
        /\ setup_caller_cap(k.is_call, k.grant, s, h)
        /\ state' = wake(new, ready, h).state /\ ready' = wake(new, ready, h).ready
        /\ UNCHANGED <<blocking_object, ipc_state, panicked>>
    BY <2>1, <2>2, Zenon DEF SendToReceiver, h, st, new
  <2>9. state' = new /\ ready' = ready
    BY <2>7, <2>8
  <2>10. mr' \in Regs
    BY <1>3, <2>2, <2>8, RegsType
  <2>11. /\ CallerWaits' /\ reply_to' \in [Tcb -> Tcb \cup {None}]
         /\ caller' \in [Tcb -> Tcb \cup {None}]
    <3>1. k.is_call /\ k.grant => state'[s] = "BlockedOnReply"
      BY <2>3, <2>5, <2>6, <2>9
    <3>2. \A t \in Tcb : t # s /\ state[t] = "BlockedOnReply" => state'[t] = state[t]
      BY <2>3, <2>5, <2>6, <2>9
    <3> QED
      BY <1>2, <1>3, <2>2, <2>8, <3>1, <3>2, SetupWaits, Zenon
  <2>12. /\ \A t \in Tcb : t # s /\ t # h => state'[t] = state[t]
         /\ state'[h] \notin Queueing \cup {"Running"}
         /\ state'[s] = state[s] \/ state'[s] \notin Queueing \cup {"Running"}
    BY <2>3, <2>5, <2>6, <2>9 DEF Queueing
  <2> QED
    BY <1>1, <2>1, <2>6, <2>8, <2>9, <2>10, <2>11, <2>12, HandOver, Zenon DEF h
<1> QED
  BY <1>5, <1>6, <1>7

\* receive_ipc keeps the invariant, whichever way it returns.
LEMMA ReceiveGood ==
  ASSUME Counting, EndpointInv, MrAsserts(MR1), NEW r \in Tcb, NEW e \in EP, NEW blocking \in BOOLEAN,
         receive_ipc(r, e, blocking)
  PROVE  Good
<1>1. Calling(r) /\ UNCHANGED <<ticks_consumed, current, idle, op>>
  BY Zenon DEF receive_ipc
<1>2. /\ op = None /\ ~ panicked /\ r # idle /\ state[r] = "Running"
      /\ state \in [Tcb -> ThreadState]
      /\ \A f \in EP : Lines[f] = <<>> => ep_state[f] = "Idle"
  BY <1>1, Caller
<1>3. SchedInv /\ DataInv /\ ListInv /\ CallerWaits /\ mr \in Regs
      /\ ipc_state \in [Tcb -> IpcState]
  BY Zenon DEF EndpointInv, DataInv
<1>4. CASE ep_state[e] # "Send" /\ blocking
  <2>1. BlockOn(r, e, "Recv") /\ UNCHANGED <<ipc_state, mr>>
    BY <1>4, Zenon DEF receive_ipc
  <2>2. ep_state[e] \in {"Idle", "Recv"}
    BY <1>3, <1>4 DEF DataInv, EndpointState
  <2> QED
    BY <1>1, <1>3, <2>1, <2>2, BlockOnGood
<1>5. CASE ep_state[e] # "Send" /\ ~ blocking
  <2>1. /\ mr' = do_nb_recv_failed_transfer(mr, r)
        /\ UNCHANGED <<state, ready, panicked, queueVars, ipc_state, reply_to, caller>>
    BY <1>5, Zenon DEF receive_ipc, queueVars
  <2>2. SchedInv'
    BY <1>1, <1>3, <2>1, SchedSame DEF SchedInv
  <2>3. Undisturbed
    BY <2>1 DEF Undisturbed, SameQueueing
  <2>4. mr' \in Regs
    BY <1>3, <2>1, RegsType
  <2> QED
    BY <1>1, <2>1, <2>2, <2>3, <2>4, IpcQuiet
<1>6. CASE ep_state[e] = "Send"
  <2> DEFINE h == queue[e].head
             ipc == ipc_state[h]
             new == [state EXCEPT ![h] = CallerState(ipc.is_call /\ ipc.grant)]
  <2>1. ReceiveFromSender(r, e) /\ Lines[e] # <<>>
    BY <1>2, <1>6, Zenon DEF receive_ipc
  <2>2. h \in Tcb /\ In(h, Lines[e]) /\ h # None
    <3>1. Chain(ep_next, h, Lines[e])
      BY <1>2, <1>3, Zenon DEF ListInv, Splitting, QueueOf, Linked
    <3> QED
      BY <2>1, <3>1, ChainHead, TcbAssumption
  <2>3. h # r /\ state[h] # "BlockedOnReply"
    BY <1>2, <2>2, InLine, Zenon
  <2> HIDE DEF h
  <2>4. ipc.is_call \in BOOLEAN /\ ipc.grant \in BOOLEAN /\ ipc.badge \in Badge \cup {0}
    BY <1>3, <2>2, Zenon DEF IpcState
  <2> HIDE DEF ipc
  <2>5. CallerState(ipc.is_call /\ ipc.grant) =
            IF ipc.is_call /\ ipc.grant THEN "BlockedOnReply" ELSE "Inactive"
    BY Zenon DEF CallerState
  <2>6. /\ new \in [Tcb -> ThreadState]
        /\ new[h] = IF ipc.is_call /\ ipc.grant THEN "BlockedOnReply" ELSE "Inactive"
        /\ \A t \in Tcb : t # h => new[t] = state[t]
    BY <1>2, <2>2, <2>5 DEF ThreadState, Blocked
  <2> HIDE DEF new
  <2>7. ~ ipc.is_call => wake(new, ready, h) = [state |-> new, ready |-> ready]
    BY <2>6, Zenon DEF wake, Blocked
  <2>8. /\ SetQueue(e, dequeue_head(QueueOf(e)))
        /\ IdleIfEmpty(e, dequeue_head(QueueOf(e)))
        /\ mr' = do_ipc_transfer(mr, h, r, ipc.badge)
        /\ setup_caller_cap(ipc.is_call, ipc.grant, h, r)
        /\ UNCHANGED <<blocking_object, ipc_state, panicked>>
    BY <2>1, <2>2, Zenon DEF ReceiveFromSender, h, ipc
  <2>9. state' = new /\ ready' = ready
    <3>1. CASE ipc.is_call
      BY <2>1, <2>2, <3>1, Zenon DEF ReceiveFromSender, h, ipc, new
    <3>2. CASE ~ ipc.is_call
      <4>1. state' = wake(new, ready, h).state /\ ready' = wake(new, ready, h).ready
        BY <2>1, <2>2, <3>2, Zenon DEF ReceiveFromSender, h, ipc, new
      <4> QED
        BY <2>7, <3>2, <4>1
    <3> QED
      BY <3>1, <3>2
  <2>10. mr' \in Regs
    BY <1>3, <2>2, <2>4, <2>8, RegsType
  <2>11. /\ CallerWaits' /\ reply_to' \in [Tcb -> Tcb \cup {None}]
         /\ caller' \in [Tcb -> Tcb \cup {None}]
    <3>1. ipc.is_call /\ ipc.grant => state'[h] = "BlockedOnReply"
      BY <2>6, <2>9
    <3>2. \A t \in Tcb : t # h /\ state[t] = "BlockedOnReply" => state'[t] = state[t]
      BY <2>6, <2>9
    <3> QED
      BY <1>3, <2>2, <2>3, <2>8, <3>1, <3>2, SetupWaits, Zenon
  <2>12. /\ \A t \in Tcb : t # r /\ t # h => state'[t] = state[t]
         /\ state'[h] \notin Queueing \cup {"Running"}
         /\ state'[r] = state[r]
    BY <2>3, <2>6, <2>9 DEF Queueing
  <2> QED
    BY <1>1, <2>1, <2>6, <2>8, <2>9, <2>10, <2>11, <2>12, HandOver, Zenon DEF h
<1> QED
  BY <1>4, <1>5, <1>6

\* cancel_ipc: what it does to the queue the thread is in.
LEMMA CancelQueuedLines ==
  ASSUME Counting, EndpointInv, NEW e \in EP, NEW t \in Tcb, op = None, op' = op, In(t, Lines[e]),
         CancelQueued(t, e), state' = [state EXCEPT ![t] = "Inactive"]
  PROVE  /\ ListInv' /\ Moves /\ Settled
         /\ ep_next' \in Links /\ ep_prev' \in Links
         /\ queue' \in [EP -> [head : Tcb \cup {None}, tail : Tcb \cup {None}]]
         /\ ep_state' \in [EP -> EndpointState]
         /\ blocking_object' \in [Tcb -> EP \cup {None}]
<1> DEFINE q == remove(QueueOf(e), t)
<1>1. SchedInv /\ DataInv /\ ListInv /\ MemberInv /\ CallerWaits
  BY Zenon DEF EndpointInv
<1>2. /\ Linked(QueueOf(e), Lines[e]) /\ QueueOf(e).next = ep_next
      /\ QueueOf(e).prev = ep_prev
  BY <1>1, Zenon DEF ListInv, Splitting, QueueOf
<1>3. PICK i \in 1 .. Len(Lines[e]) : Lines[e][i] = t
  BY DEF In
<1> DEFINE z == Without(Lines[e], i)
<1>4. /\ Linked(q, z)
      /\ \A u \in Tcb : ~ In(u, Lines[e]) =>
             q.next[u] = ep_next[u] /\ q.prev[u] = ep_prev[u]
  BY <1>2, <1>3, RemoveLinked
<1>5. /\ SetQueue(e, q) /\ IdleIfEmpty(e, q)
      /\ blocking_object' = [blocking_object EXCEPT ![t] = None]
  BY Zenon DEF CancelQueued
<1> HIDE DEF q, z
<1>6. \A f \in EP, u \in Tcb : f # e /\ In(u, Lines[f]) =>
          q.next[u] = ep_next[u] /\ q.prev[u] = ep_prev[u]
  BY <1>1, <1>4, Apart
<1>7. /\ ListInv' /\ Lines' = [Lines EXCEPT ![e] = z]
      /\ ep_next' \in Links /\ ep_prev' \in Links
      /\ queue' \in [EP -> [head : Tcb \cup {None}, tail : Tcb \cup {None}]]
      /\ is_empty(q) <=> z = <<>>
  BY <1>1, <1>4, <1>5, <1>6, QueueChange
<1>8. Lines'[e] = z /\ \A f \in EP : f # e => Lines'[f] = Lines[f]
  BY <1>7, LinesFunction
<1>9. ep_state' = IF z = <<>> THEN [ep_state EXCEPT ![e] = "Idle"] ELSE ep_state
  BY <1>5, <1>7 DEF IdleIfEmpty
<1>10. /\ ep_state' \in [EP -> EndpointState]
       /\ blocking_object' \in [Tcb -> EP \cup {None}]
  BY <1>1, <1>5, <1>9, Zenon DEF DataInv, EndpointState
<1>11. Leaves(e, i)
  <2>1. Lines' = [Lines EXCEPT ![e] = Without(Lines[e], i)]
    BY <1>7, Zenon DEF z
  <2>2. \/ ep_state' = ep_state
        \/ Lines'[e] = <<>> /\ ep_state' = [ep_state EXCEPT ![e] = "Idle"]
    BY <1>8, <1>9
  <2>3. state'[t] \notin Queueing /\ \A u \in Tcb : u # t => SameQueueing(u)
    BY <1>1 DEF SchedInv, Consistent, SameQueueing, Queueing
  <2> QED
    BY <1>3, <1>5, <2>1, <2>2, <2>3, Zenon DEF Leaves
<1>12. ASSUME NEW f \in EP, Lines'[f] = <<>> PROVE ep_state'[f] = "Idle"
  <2>1. CASE f = e
    BY <1>1, <1>8, <1>9, <1>12, <2>1 DEF DataInv
  <2>2. CASE f # e
    <3>1. Lines[f] = <<>>
      BY <1>8, <1>12, <2>2, Zenon
    <3>2. ep_state[f] = "Idle"
      BY <1>1, <3>1, Zenon DEF MemberInv
    <3>3. ep_state \in [EP -> EndpointState]
      BY <1>1, Zenon DEF DataInv
    <3> QED
      BY <1>9, <2>2, <3>2, <3>3, Zenon
  <2> QED
    BY <2>1, <2>2
<1> QED
  BY <1>7, <1>10, <1>11, <1>12 DEF Settled, Moves

\* cancel_ipc keeps the invariant, for threads blocked on a queue or a reply.
LEMMA CancelIpcGood ==
  ASSUME Counting, EndpointInv, NEW s \in Tcb, NEW t \in Tcb, cancel_ipc(s, t)
  PROVE  Good
<1>1. /\ Calling(s) /\ state[t] \in Blocked /\ state' = [state EXCEPT ![t] = "Inactive"]
      /\ UNCHANGED <<ticks_consumed, ready, current, idle, panicked, ipc_state, mr, op>>
  BY Zenon DEF cancel_ipc
<1>2. op = None /\ ~ panicked /\ state \in [Tcb -> ThreadState]
  BY <1>1, Caller, Zenon
<1>3. SchedInv /\ DataInv /\ ListInv /\ MemberInv /\ CallerWaits
  BY Zenon DEF EndpointInv
<1>4. state' \in [Tcb -> ThreadState]
      /\ \A u \in Tcb : state'[u] = IF u = t THEN "Inactive" ELSE state[u]
  BY <1>1, <1>2 DEF ThreadState
<1>5. SchedInv'
  <2>1. state[t] # "Inactive" /\ t # idle
    BY <1>1, <1>3, TcbAssumption DEF SchedInv, Blocked
  <2>2. \A u \in Tcb : state'[u] # state[u] => /\ u # idle /\ state'[u] # "Running"
                                              /\ u \notin ReadyTcbs(ready)
    BY <1>3, <1>4, <2>1, NotReady
  <2>3. Consistent(state', ready', current)
    BY <1>1, <1>3, <1>4, <2>2, ReadyStay, Zenon DEF SchedInv
  <2> QED
    BY <1>1, <1>2, <1>3, <2>2, <2>3, ThreadsChange
<1>6. CASE state[t] \in Queueing
  <2>1. CancelQueued(t, blocking_object[t])
    BY <1>6 DEF cancel_ipc, Queueing
  <2>2. blocking_object[t] \in EP /\ In(t, Lines[blocking_object[t]])
    BY <1>3, <1>6 DEF MemberInv
  <2>3. /\ ListInv' /\ Moves /\ Settled
        /\ ep_next' \in Links /\ ep_prev' \in Links
        /\ queue' \in [EP -> [head : Tcb \cup {None}, tail : Tcb \cup {None}]]
        /\ ep_state' \in [EP -> EndpointState]
        /\ blocking_object' \in [Tcb -> EP \cup {None}]
    BY <1>1, <1>2, <2>1, <2>2, CancelQueuedLines, Zenon
  <2>4. UNCHANGED <<reply_to, caller>>
    BY <2>1 DEF CancelQueued
  <2>5. CallerWaits'
    <3>1. state[t] # "BlockedOnReply"
      BY <1>6, Zenon DEF Queueing
    <3> QED
      BY <1>3, <1>4, <2>4, <3>1, CallerSame
  <2>6. DataInv'
    BY <1>1, <1>2, <1>3, <2>3, <2>4, Zenon DEF DataInv
  <2> QED
    BY <1>5, <2>3, <2>5, <2>6 DEF Good
<1>7. CASE state[t] = "BlockedOnNotification"
  <2>1. UNCHANGED <<queueVars, reply_to, caller>>
    BY <1>7, Zenon DEF cancel_ipc
  <2>2. Undisturbed
    BY <1>4, <1>7 DEF Undisturbed, SameQueueing, Queueing
  <2>3. mr' \in Regs
    BY <1>1, <1>3 DEF DataInv
  <2> QED
    BY <1>1, <1>5, <2>1, <2>2, <2>3, IpcQuiet
<1>8. CASE state[t] = "BlockedOnReply"
  <2>1. /\ caller' = IF reply_to[t] = None THEN caller
                     ELSE [caller EXCEPT ![reply_to[t]] = None]
        /\ reply_to' = [reply_to EXCEPT ![t] = None] /\ UNCHANGED queueVars
    BY <1>8 DEF cancel_ipc, CancelReply
  <2>2. caller \in [Tcb -> Tcb \cup {None}] /\ reply_to \in [Tcb -> Tcb \cup {None}]
    BY <1>3, Zenon DEF DataInv
  <2>3. caller' \in [Tcb -> Tcb \cup {None}] /\ reply_to' \in [Tcb -> Tcb \cup {None}]
    BY <2>1, <2>2
  <2>4. ASSUME NEW u \in Tcb, caller'[u] # None
        PROVE  state'[caller'[u]] = "BlockedOnReply" /\ reply_to'[caller'[u]] = u
    <3>1. caller'[u] = caller[u] /\ caller[u] \in Tcb
      BY <2>1, <2>2, <2>4
    <3>2. state[caller[u]] = "BlockedOnReply" /\ reply_to[caller[u]] = u
      BY <1>3, <2>4, <3>1 DEF CallerWaits
    <3>3. caller[u] # t
      <4>1. ASSUME caller[u] = t PROVE FALSE
        <5>1. reply_to[t] = u /\ u # None
          BY <3>2, <4>1, TcbAssumption
        <5>2. caller'[u] = None
          BY <2>1, <2>2, <5>1
        <5> QED
          BY <2>4, <5>2
      <4> QED
        BY <4>1
    <3> QED
      BY <1>4, <2>1, <2>2, <3>1, <3>2, <3>3
  <2>5. CallerWaits'
    BY <2>4, Zenon DEF CallerWaits
  <2>6. \A u \in Tcb : SameQueueing(u)
    BY <1>4, <1>8 DEF SameQueueing, Queueing
  <2>7. mr' \in Regs
    BY <1>1, <1>3, Zenon DEF DataInv
  <2> QED
    BY <1>1, <1>5, <2>1, <2>3, <2>5, <2>6, <2>7, QueuesSame
<1> QED
  BY <1>1, <1>6, <1>7, <1>8, Zenon DEF Blocked, Queueing

(***************************************************************************)
(* No call makes a thread Running.                                         *)
(***************************************************************************)
\* send_ipc makes nobody Running, also when it panics.
LEMMA SendRuns ==
  ASSUME state \in [Tcb -> ThreadState], Send
  PROVE  RunsOnCpu
<1>1. PICK s \in Tcb, e \in EP, blocking \in BOOLEAN, badge \in Badge, k \in Kind, w \in Word :
          send_ipc(s, e, blocking, k.is_call, badge, k.grant, w)
  BY Zenon DEF Send
<1> DEFINE r == queue[e].head
           st == IF k.is_call THEN [state EXCEPT ![s] = CallerState(k.grant)] ELSE state
           new == [st EXCEPT ![r] = "Inactive"]
<1>2. /\ "Inactive" \in ThreadState \ {"Running"}
      /\ "BlockedOnSend" \in ThreadState \ {"Running"}
      /\ CallerState(k.grant) \in ThreadState \ {"Running"}
  BY Zenon DEF ThreadState, Blocked, CallerState
<1>3. /\ st \in [Tcb -> ThreadState]
      /\ \A u \in Tcb : st[u] = "Running" => state[u] = "Running"
  BY <1>2, SetQuiet, Zenon
<1>4. current' = current
  BY <1>1, Zenon DEF send_ipc
<1>5. \/ state' = state \/ state' = [state EXCEPT ![s] = "BlockedOnSend"]
      \/ state' = wake(new, ready, r).state
  BY <1>1, Zenon DEF send_ipc, BlockOn, SendToReceiver, PanicEmptyQueue, PanicRegister
<1> HIDE DEF st
<1>6. /\ new \in [Tcb -> ThreadState]
      /\ \A u \in Tcb : new[u] = "Running" => st[u] = "Running"
  BY <1>2, <1>3, SetQuiet, Zenon
<1> HIDE DEF r, new
<1>7. \A u \in Tcb : wake(new, ready, r).state[u] = "Running" => new[u] = "Running"
  BY <1>6, WakeQuiet, Zenon
<1>8. \A u \in Tcb : state'[u] = "Running" => state[u] = "Running"
  <2>1. CASE state' = state
    BY <2>1, Zenon
  <2>2. CASE state' = [state EXCEPT ![s] = "BlockedOnSend"]
    BY <1>2, <2>2, SetQuiet, Zenon
  <2>3. CASE state' = wake(new, ready, r).state
    BY <1>3, <1>6, <1>7, <2>3, Zenon
  <2> QED
    BY <1>5, <2>1, <2>2, <2>3, Zenon
<1> QED
  BY <1>4, <1>8, QuietRuns, Zenon

\* Neither does receive_ipc.
LEMMA ReceiveRuns ==
  ASSUME state \in [Tcb -> ThreadState], Receive
  PROVE  RunsOnCpu
<1>1. PICK r \in Tcb, e \in EP, blocking \in BOOLEAN : receive_ipc(r, e, blocking)
  BY Zenon DEF Receive
<1> DEFINE s == queue[e].head
           g == ipc_state[s].is_call /\ ipc_state[s].grant
           new == [state EXCEPT ![s] = CallerState(g)]
<1>2. /\ "BlockedOnReceive" \in ThreadState \ {"Running"}
      /\ CallerState(g) \in ThreadState \ {"Running"}
  BY Zenon DEF ThreadState, Blocked, CallerState
<1>3. /\ new \in [Tcb -> ThreadState]
      /\ \A u \in Tcb : new[u] = "Running" => state[u] = "Running"
  BY <1>2, SetQuiet, Zenon
<1>4. current' = current
  BY <1>1, Zenon DEF receive_ipc
<1>5. \/ state' = state \/ state' = [state EXCEPT ![r] = "BlockedOnReceive"]
      \/ state' = new \/ state' = wake(new, ready, s).state
  <2>1. CASE ReceiveFromSender(r, e)
    <3>1. CASE ipc_state[s].is_call
      BY <2>1, <3>1, Zenon DEF ReceiveFromSender, PanicEmptyQueue, PanicRegister
    <3>2. CASE ~ ipc_state[s].is_call
      BY <2>1, <3>2, Zenon DEF ReceiveFromSender, PanicEmptyQueue, PanicRegister
    <3> QED
      BY <3>1, <3>2, Zenon
  <2>2. CASE ~ ReceiveFromSender(r, e)
    BY <1>1, <2>2, Zenon DEF receive_ipc, BlockOn, PanicRegister
  <2> QED
    BY <2>1, <2>2, Zenon
<1> HIDE DEF s, new
<1>6. \A u \in Tcb : wake(new, ready, s).state[u] = "Running" => new[u] = "Running"
  BY <1>3, WakeQuiet, Zenon
<1>7. \A u \in Tcb : state'[u] = "Running" => state[u] = "Running"
  <2>1. CASE state' = state
    BY <2>1, Zenon
  <2>2. CASE state' = [state EXCEPT ![r] = "BlockedOnReceive"]
    BY <1>2, <2>2, SetQuiet, Zenon
  <2>3. CASE state' = new \/ state' = wake(new, ready, s).state
    BY <1>3, <1>6, <2>3, Zenon
  <2> QED
    BY <1>5, <2>1, <2>2, <2>3, Zenon
<1> QED
  BY <1>4, <1>7, QuietRuns, Zenon

\* Neither do cancel_ipc and the starts of the loops.
LEMMA CancelRuns ==
  ASSUME state \in [Tcb -> ThreadState], CancelCalls
  PROVE  RunsOnCpu
<1>1. current' = current
  BY Zenon DEF CancelCalls, cancel_ipc, cancel_all_ipc, cancel_badged_sends, execVars
<1>2. state' = state \/ \E t \in Tcb : state' = [state EXCEPT ![t] = "Inactive"]
  BY Zenon DEF CancelCalls, cancel_ipc, cancel_all_ipc, cancel_badged_sends, execVars
<1>3. "Inactive" \in ThreadState \ {"Running"}
  BY Zenon DEF ThreadState
<1> QED
  BY <1>1, <1>2, <1>3, SetQuiet, QuietRuns, Zenon
=============================================================================
