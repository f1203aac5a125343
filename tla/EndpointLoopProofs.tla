------------------------- MODULE EndpointLoopProofs -------------------------
(***************************************************************************)
(* Proofs about Endpoint: the loops of cancel_all_ipc and                  *)
(* cancel_badged_sends keep the invariant, and move one thread at a time.  *)
(***************************************************************************)
EXTENDS ThreadProofs

\* Nothing else runs while a loop does.
LEMMA LoopAlone ==
  ASSUME Next, op # None
  PROVE  LoopStep
<1>1. ~ \E s \in Tcb : Calling(s)
  BY Zenon DEF Calling
<1> QED
  BY <1>1 DEF Next, SetIdleThread, Resume, Tick, Switch, Yield, WaitNotification,
              Send, send_ipc, Receive, receive_ipc, CancelCalls, cancel_ipc,
              cancel_all_ipc, cancel_badged_sends

(***************************************************************************)
(* cancel_all_ipc.                                                         *)
(***************************************************************************)
\* An iteration of cancel_all_ipc keeps the invariant and leaves fewer.
LEMMA CancelAllStepGood ==
  ASSUME Counting, EndpointInv, CancelAllStep
  PROVE  LoopGood
<1> DEFINE e == op.ep
           h == queue[e].head
           q == dequeue_head(QueueOf(e))
           z == Tail(Lines[e])
<1>1. op # None /\ op.fn = "cancel_all_ipc" /\ UNCHANGED notLoopVars
  BY Zenon DEF CancelAllStep
<1>2. SchedInv /\ DataInv /\ ListInv /\ MemberInv /\ CallerWaits
  BY Zenon DEF EndpointInv
<1>3. e \in EP /\ op \in [fn : {"cancel_all_ipc"}, ep : EP]
  BY <1>1, <1>2, Zenon DEF DataInv
<1>4. UNCHANGED <<ticks_consumed, current, idle, panicked>>
      /\ UNCHANGED <<ipc_state, reply_to, caller, mr>>
  BY <1>1, Zenon DEF notLoopVars
<1>5. /\ Linked(QueueOf(e), Lines[e]) /\ QueueOf(e).next = ep_next
      /\ QueueOf(e).prev = ep_prev /\ QueueOf(e).head = h
      /\ Chain(ep_next, h, Lines[e])
  <2>1. Linked(QueueOf(e), Lines[e])
    BY <1>1, <1>2, <1>3, Zenon DEF ListInv, Splitting
  <2>2. /\ QueueOf(e).next = ep_next /\ QueueOf(e).prev = ep_prev
        /\ QueueOf(e).head = h
    BY Zenon DEF QueueOf
  <2> QED
    BY <2>1, <2>2, Zenon DEF Linked
<1> HIDE DEF e, h, q, z
<1>6. /\ Lines[e] \in Seq(Tcb) /\ (h = None <=> Lines[e] = <<>>)
      /\ Lines[e] # <<>> => h = Lines[e][1] /\ h \in Tcb /\ In(h, Lines[e])
  BY <1>5, ChainHead
<1>7. LoopLeft = 1 + Len(Lines[e])
  <2>1. Follow(ep_next, h) = Lines[e]
    BY <1>5, FollowChain, Zenon
  <2> QED
    BY <1>1, <2>1, Zenon DEF LoopLeft, e, h
<1>8. CASE Lines[e] # <<>>
  <2>1. SetQueue(e, q) /\ Restart(h) /\ UNCHANGED <<ep_state, op>>
    BY <1>1, <1>5, <1>6, <1>8, TcbAssumption DEF CancelAllStep, is_empty, e, h, q
  <2>2. /\ SchedInv' /\ CallerWaits'
        /\ state'[h] \notin Queueing /\ (\A u \in Tcb : u # h => SameQueueing(u))
        /\ blocking_object' = [blocking_object EXCEPT ![h] = None]
        /\ blocking_object' \in [Tcb -> EP \cup {None}]
        /\ \A t \in Tcb : Gone(t) => t = h
    BY <1>1, <1>3, <1>6, <1>8, <2>1, RestartSched DEF e
  <2>3. /\ Linked(q, z)
        /\ \A u \in Tcb : ~ In(u, Lines[e]) =>
               q.next[u] = ep_next[u] /\ q.prev[u] = ep_prev[u]
    BY <1>5, <1>8, DequeueLinked, Zenon DEF q, z
  <2>4. 1 \in 1 .. Len(Lines[e]) /\ z = Without(Lines[e], 1) /\ Len(z) = Len(Lines[e]) - 1
    BY <1>6, <1>8, TailWithout, Zenon DEF z
  <2>5. \A f \in EP, u \in Tcb : f # e /\ In(u, Lines[f]) =>
            q.next[u] = ep_next[u] /\ q.prev[u] = ep_prev[u]
    BY <1>2, <1>3, <2>3, Apart
  <2>6. /\ ListInv' /\ Lines' = [Lines EXCEPT ![e] = z]
        /\ ep_next' \in Links /\ ep_prev' \in Links
        /\ queue' \in [EP -> [head : Tcb \cup {None}, tail : Tcb \cup {None}]]
    BY <1>1, <1>2, <1>3, <2>1, <2>3, <2>5, QueueChange
  <2>7. Lines'[e] = z /\ \A f \in EP : f # e => Lines'[f] = Lines[f]
    BY <1>3, <2>6, LinesFunction, Zenon
  <2>8. DataInv'
    BY <1>2, <1>3, <1>4, <2>1, <2>2, <2>6, Zenon DEF DataInv
  <2>9. Leaves(e, 1)
    <3>1. Lines' = [Lines EXCEPT ![e] = Without(Lines[e], 1)]
      BY <2>4, <2>6, Zenon
    <3> QED
      BY <1>6, <1>8, <2>1, <2>2, <3>1, Zenon DEF Leaves
  <2>10. Settled
    <3>1. op' # None /\ op'.ep = e
      BY <1>1, <2>1, Zenon DEF e
    <3>2. ASSUME NEW f \in EP, Lines'[f] = <<>>, f # e PROVE ep_state'[f] = "Idle"
      <4>1. Lines[f] = <<>> /\ op.ep # f
        BY <2>1, <2>7, <3>1, <3>2
      <4> QED
        BY <1>2, <2>1, <4>1, Zenon DEF MemberInv
    <3> QED
      BY <3>1, <3>2, Zenon DEF Settled
  <2>11. Good
    BY <1>3, <2>2, <2>4, <2>6, <2>8, <2>9, <2>10 DEF Good, Moves
  <2>12. LoopLeft' = 1 + Len(z)
    <3>1. Lines'[e] = Follow(ep_next', queue'[e].head)
      BY <1>1, <1>3, <2>1, LineNext
    <3>2. op' = op /\ op'.ep = e
      BY <2>1, Zenon DEF e
    <3> QED
      BY <1>1, <2>7, <3>1, <3>2 DEF LoopLeft
  <2>13. LoopLeft' < LoopLeft
    BY <1>6, <1>7, <2>4, <2>12
  <2> QED
    BY <2>11, <2>13, Zenon DEF LoopGood
<1>9. CASE Lines[e] = <<>>
  <2>1. /\ ep_state' = [ep_state EXCEPT ![e] = "Idle"] /\ op' = None
        /\ UNCHANGED <<state, ready, queue, ep_next, ep_prev, blocking_object>>
    BY <1>1, <1>5, <1>6, <1>9 DEF CancelAllStep, is_empty, e, h
  <2>2. \A f \in EP : ~ Splitting(f) /\ ~ Splitting(f)'
    BY <1>1, <2>1, Zenon DEF Splitting
  <2>3. Lines' = Lines /\ ListInv'
    BY <1>2, <2>1, <2>2, LinesStill
  <2>4. SchedInv'
    BY <1>2, <1>4, <2>1, ThreadsChange DEF SchedInv
  <2>5. DataInv'
    BY <1>2, <1>3, <1>4, <2>1 DEF DataInv, EndpointState
  <2>6. CallerWaits'
    BY <1>2, <1>4, <2>1, Zenon DEF CallerWaits
  <2>7. Stays
    BY <1>2, <1>3, <1>9, <2>1, <2>3 DEF Stays, SameQueueing, DataInv
  <2>8. Settled
    <3>1. ASSUME NEW f \in EP, Lines'[f] = <<>> PROVE ep_state'[f] = "Idle"
      <4>1. CASE f = e
        BY <1>2, <2>1, <4>1 DEF DataInv
      <4>2. CASE f # e
        BY <1>2, <2>1, <2>3, <3>1, <4>2 DEF DataInv, MemberInv, e
      <4> QED
        BY <4>1, <4>2, Zenon
    <3> QED
      BY <3>1, Zenon DEF Settled
  <2>9. LoopLeft' < LoopLeft
    <3>1. LoopLeft' = 0
      BY <2>1, Zenon DEF LoopLeft
    <3> QED
      BY <1>6, <1>7, <1>9, <3>1
  <2> QED
    BY <2>3, <2>4, <2>5, <2>6, <2>7, <2>8, <2>9 DEF LoopGood, Good, Moves
<1> QED
  BY <1>8, <1>9, Zenon

(***************************************************************************)
(* cancel_badged_sends.                                                    *)
(***************************************************************************)
\* The state of the loop of cancel_badged_sends.
LEMMA SplitFacts ==
  ASSUME EndpointInv, op # None, op.fn = "cancel_badged_sends"
  PROVE  /\ op.ep \in EP /\ Splitting(op.ep)
         /\ op \in [fn : {"cancel_badged_sends"}, ep : EP, badge : Badge,
                    cur : Tcb \cup {None}, head : Tcb \cup {None},
                    tail : Tcb \cup {None}]
         /\ Linked(NewQueue, KeptLine) /\ Chain(ep_next, op.cur, RestLine)
         /\ KeptLine \in Seq(Tcb) /\ RestLine \in Seq(Tcb)
         /\ Lines[op.ep] = KeptLine \o RestLine
         /\ \A t \in Tcb : ~ (In(t, KeptLine) /\ In(t, RestLine))
         /\ \A t \in Tcb : In(t, KeptLine) => ipc_state[t].badge # op.badge
         /\ LoopLeft = 1 + Len(RestLine)
         /\ \A f \in EP, u \in Tcb : f # op.ep /\ In(u, Lines[f]) =>
                ~ In(u, KeptLine) /\ ~ In(u, RestLine)
<1>1. DataInv /\ ListInv /\ MemberInv
  BY Zenon DEF EndpointInv
<1>2. /\ op.ep \in EP
      /\ op \in [fn : {"cancel_badged_sends"}, ep : EP, badge : Badge,
                 cur : Tcb \cup {None}, head : Tcb \cup {None},
                 tail : Tcb \cup {None}]
  BY <1>1, Zenon DEF DataInv
<1>3. Splitting(op.ep)
  BY Zenon DEF Splitting
<1>4. /\ Linked(NewQueue, KeptLine) /\ Chain(ep_next, op.cur, RestLine)
      /\ \A t \in Tcb : ~ (In(t, KeptLine) /\ In(t, RestLine))
      /\ \A t \in Tcb : In(t, KeptLine) => ipc_state[t].badge # op.badge
  BY <1>1, <1>2, <1>3 DEF ListInv
<1>5. KeptLine \in Seq(Tcb) /\ RestLine \in Seq(Tcb)
  BY <1>4, Zenon DEF Linked, Chain
<1>6. Lines[op.ep] = KeptLine \o RestLine
  BY <1>2, <1>3 DEF Splitting, Lines, Waiting, KeptLine, RestLine
<1>7. LoopLeft = 1 + Len(RestLine)
  BY Zenon DEF LoopLeft, RestLine
<1>8. ASSUME NEW f \in EP, NEW u \in Tcb, f # op.ep, In(u, Lines[f])
      PROVE  ~ In(u, KeptLine) /\ ~ In(u, RestLine)
  <2>1. ~ In(u, Lines[op.ep])
    BY <1>1, <1>2, <1>8, Apart
  <2> QED
    BY <1>5, <1>6, <2>1, InJoin
<1> QED
  BY <1>2, <1>3, <1>4, <1>5, <1>6, <1>7, <1>8

\* The thread the loop looks at.
LEMMA SplitHead ==
  ASSUME Counting, EndpointInv, op # None, op.fn = "cancel_badged_sends", op.cur # None
  PROVE  /\ RestLine # <<>> /\ op.cur = RestLine[1] /\ op.cur \in Tcb
         /\ In(op.cur, RestLine) /\ In(op.cur, Lines[op.ep]) /\ ~ In(op.cur, KeptLine)
         /\ Tail(RestLine) \in Seq(Tcb) /\ Len(Tail(RestLine)) < Len(RestLine)
         /\ \A u \in Tcb : In(u, Tail(RestLine)) <=> In(u, RestLine) /\ u # op.cur
<1>1. /\ Chain(ep_next, op.cur, RestLine) /\ KeptLine \in Seq(Tcb)
      /\ RestLine \in Seq(Tcb) /\ Lines[op.ep] = KeptLine \o RestLine
      /\ \A t \in Tcb : ~ (In(t, KeptLine) /\ In(t, RestLine))
  BY SplitFacts, Zenon
<1>2. /\ RestLine # <<>> /\ op.cur = RestLine[1] /\ op.cur \in Tcb /\ In(op.cur, RestLine)
  BY <1>1, ChainHead
<1>3. In(op.cur, Lines[op.ep])
  BY <1>1, <1>2, InJoin
<1>4. /\ 1 \in 1 .. Len(RestLine) /\ Tail(RestLine) = Without(RestLine, 1)
      /\ Len(Tail(RestLine)) = Len(RestLine) - 1
  BY <1>1, <1>2, TailWithout, Zenon
<1>5. \A i, j \in 1 .. Len(RestLine) : RestLine[i] = RestLine[j] => i = j
  BY <1>1, Zenon DEF Chain
<1>6. \A u \in Tcb : In(u, Without(RestLine, 1)) <=> In(u, RestLine) /\ u # RestLine[1]
  <2>1. RestLine \in Seq(Tcb)
    BY <1>1, Zenon
  <2> QED
    BY <2>1, <1>4, <1>5, InWithout, Zenon
<1>7. Tail(RestLine) \in Seq(Tcb) /\ Len(Tail(RestLine)) < Len(RestLine)
  BY <1>1, <1>2, <1>4
<1> QED
  BY <1>1, <1>2, <1>3, <1>4, <1>6, <1>7, Zenon

\* The state after an iteration that is not the last.
LEMMA SplitData ==
  ASSUME EndpointInv, op # None, op.fn = "cancel_badged_sends", op.cur \in Tcb,
         NEW h \in Tcb \cup {None}, NEW l \in Tcb \cup {None},
         op' = [op EXCEPT !.cur = ep_next[op.cur], !.head = h, !.tail = l]
  PROVE  /\ op' # None /\ op'.ep = op.ep /\ op'.fn = "cancel_badged_sends"
         /\ op'.badge = op.badge /\ op'.cur = ep_next[op.cur]
         /\ op'.head = h /\ op'.tail = l
         /\ op' \in [fn : {"cancel_badged_sends"}, ep : EP, badge : Badge,
                     cur : Tcb \cup {None}, head : Tcb \cup {None},
                     tail : Tcb \cup {None}]
<1>1. op \in [fn : {"cancel_badged_sends"}, ep : EP, badge : Badge,
              cur : Tcb \cup {None}, head : Tcb \cup {None}, tail : Tcb \cup {None}]
  BY SplitFacts, Zenon
<1>2. ep_next[op.cur] \in Tcb \cup {None}
  BY Zenon DEF EndpointInv, DataInv, Links
<1>3. /\ op'.ep = op.ep /\ op'.fn = "cancel_badged_sends"
      /\ op'.badge = op.badge /\ op'.cur = ep_next[op.cur]
      /\ op'.head = h /\ op'.tail = l
      /\ op' \in [fn : {"cancel_badged_sends"}, ep : EP, badge : Badge,
                  cur : Tcb \cup {None}, head : Tcb \cup {None},
                  tail : Tcb \cup {None}]
  BY <1>1, <1>2, Zenon
<1> QED
  BY <1>3, LoopAssumption, Zenon DEF BadgedLoop

\* An iteration that keeps the thread.
LEMMA BadgedKeepGood ==
  ASSUME Counting, EndpointInv, op # None, op.fn = "cancel_badged_sends", op.cur # None,
         ipc_state[op.cur].badge # op.badge, BadgedKeep(op.cur),
         UNCHANGED <<ep_state, queue>>, UNCHANGED notLoopVars
  PROVE  LoopGood /\ BadgedGood
<1> DEFINE e == op.ep
           t == op.cur
           q == append(NewQueue, t)
           k == Append(KeptLine, t)
           r == Tail(RestLine)
<1>1. SchedInv /\ DataInv /\ ListInv /\ MemberInv /\ CallerWaits
  BY Zenon DEF EndpointInv
<1>2. /\ e \in EP /\ Splitting(e) /\ Linked(NewQueue, KeptLine)
      /\ Chain(ep_next, t, RestLine) /\ KeptLine \in Seq(Tcb) /\ RestLine \in Seq(Tcb)
      /\ Lines[e] = KeptLine \o RestLine
      /\ \A u \in Tcb : ~ (In(u, KeptLine) /\ In(u, RestLine))
      /\ \A u \in Tcb : In(u, KeptLine) => ipc_state[u].badge # op.badge
      /\ LoopLeft = 1 + Len(RestLine)
      /\ \A f \in EP, u \in Tcb : f # e /\ In(u, Lines[f]) =>
             ~ In(u, KeptLine) /\ ~ In(u, RestLine)
  BY SplitFacts, Zenon
<1>3. /\ RestLine # <<>> /\ t = RestLine[1] /\ t \in Tcb
      /\ In(t, RestLine) /\ ~ In(t, KeptLine)
      /\ r \in Seq(Tcb) /\ Len(r) < Len(RestLine)
      /\ \A u \in Tcb : In(u, r) <=> In(u, RestLine) /\ u # t
  BY SplitHead, Zenon
<1>4. /\ ep_next' = q.next /\ ep_prev' = q.prev
      /\ op' = [op EXCEPT !.cur = ep_next[t], !.head = q.head, !.tail = q.tail]
      /\ UNCHANGED <<state, ready, blocking_object>>
      /\ UNCHANGED <<ticks_consumed, current, idle, panicked>>
      /\ UNCHANGED <<ipc_state, reply_to, caller, mr>>
  BY DEF BadgedKeep, notLoopVars
<1>5. /\ Linked(q, k)
      /\ \A u \in Tcb : u # t /\ ~ In(u, KeptLine) =>
             q.next[u] = ep_next[u] /\ q.prev[u] = ep_prev[u]
  <2>1. NewQueue.next = ep_next /\ NewQueue.prev = ep_prev
    BY Zenon DEF NewQueue
  <2> QED
    BY <1>2, <1>3, <2>1, AppendLinked
<1>6. /\ q.next \in Links /\ q.prev \in Links
      /\ q.head \in Tcb \cup {None} /\ q.tail \in Tcb \cup {None}
  <2>1. k \in Seq(Tcb) /\ Len(k) \in Int
    BY <1>2, <1>3
  <2> HIDE DEF k, q
  <2>2. Chain(q.next, q.head, k) /\ q.prev \in Links /\ q.tail = At(k, Len(k))
    BY <1>5, Zenon DEF Linked
  <2>3. q.next \in Links /\ q.head \in Tcb \cup {None}
    BY <2>2, ChainHead, Zenon
  <2>4. At(k, Len(k)) \in Tcb \cup {None}
    BY <2>1, AtPlace, Zenon
  <2> QED
    BY <2>2, <2>3, <2>4, Zenon
<1> HIDE DEF q
<1>7. /\ op' # None /\ op'.ep = e /\ op'.fn = "cancel_badged_sends"
      /\ op'.badge = op.badge /\ op'.cur = ep_next[t]
      /\ op'.head = q.head /\ op'.tail = q.tail
      /\ op' \in [fn : {"cancel_badged_sends"}, ep : EP, badge : Badge,
                  cur : Tcb \cup {None}, head : Tcb \cup {None},
                  tail : Tcb \cup {None}]
  BY <1>3, <1>4, <1>6, SplitData, Zenon
<1>8. Linked(NewQueue', k)
  <2>1. NewQueue' = [head |-> q.head, tail |-> q.tail, next |-> q.next, prev |-> q.prev]
    BY <1>4, <1>7, Zenon DEF NewQueue
  <2> HIDE DEF k
  <2> QED
    BY <1>5, <2>1, Zenon DEF Linked
<1>9. Chain(ep_next', op'.cur, r)
  <2>1. \A u \in Tcb : In(u, Tail(RestLine)) => ep_next'[u] = ep_next[u]
    BY <1>2, <1>3, <1>4, <1>5
  <2>2. Chain(ep_next', ep_next[t], Tail(RestLine))
    BY <1>2, <1>3, <1>4, <1>6, <2>1, ChainTail
  <2> QED
    BY <1>7, <2>2
<1>10. \A u \in Tcb : In(u, k) <=> In(u, KeptLine) \/ u = t
  BY <1>2, <1>3, InAppend
<1>11. /\ \A u \in Tcb : ~ (In(u, k) /\ In(u, r))
       /\ \A u \in Tcb : In(u, k) => ipc_state[u].badge # op.badge
       /\ \A f \in EP, u \in Tcb : f # e /\ In(u, Lines[f]) =>
              ep_next'[u] = ep_next[u] /\ ep_prev'[u] = ep_prev[u]
  BY <1>2, <1>3, <1>4, <1>5, <1>10
<1>12. k \o r = Lines[e]
  BY <1>2, <1>3, JoinMove
<1> HIDE DEF e, t, k, r
<1>13. ListInv' /\ Lines' = [Lines EXCEPT ![e] = k \o r] /\ RestLine' = r
  <2>1. Splits(e, k, r)
    <3>1. ep_next' \in Links /\ ep_prev' \in Links /\ ipc_state' = ipc_state
      BY <1>4, <1>6
    <3> QED
      BY <1>2, <1>7, <1>8, <1>9, <1>11, <3>1, Zenon DEF Splits
  <2> QED
    BY <1>1, <1>2, <2>1, SplitChange
<1>14. Lines' = Lines
  BY <1>2, <1>12, <1>13, LinesFunction
<1>15. SchedInv'
  BY <1>1, <1>4, ThreadsChange DEF SchedInv
<1>16. DataInv'
  BY <1>1, <1>4, <1>6, <1>7 DEF DataInv
<1>17. CallerWaits'
  BY <1>1, <1>4 DEF CallerWaits
<1>18. Stays
  BY <1>4, <1>14 DEF Stays, SameQueueing
<1>19. Settled
  BY <1>1, <1>7, <1>14 DEF Settled, MemberInv, e
<1>20. LoopLeft' < LoopLeft
  <2>1. LoopLeft' = 1 + Len(r)
    BY <1>7, <1>13 DEF LoopLeft, RestLine
  <2> QED
    BY <1>2, <1>3, <2>1
<1>21. \A u \in Tcb : ~ Gone(u)
  BY <1>4, Zenon DEF Gone
<1> QED
  BY <1>7, <1>13, <1>15, <1>16, <1>17, <1>18, <1>19, <1>20, <1>21
  DEF LoopGood, Good, Moves, BadgedGood

\* An iteration that takes the thread out.
LEMMA BadgedDropGood ==
  ASSUME Counting, EndpointInv, op # None, op.fn = "cancel_badged_sends", op.cur # None,
         ipc_state[op.cur].badge = op.badge, BadgedDrop(op.cur),
         UNCHANGED <<ep_state, queue>>, UNCHANGED notLoopVars
  PROVE  LoopGood /\ BadgedGood
<1> DEFINE e == op.ep
           t == op.cur
           k == KeptLine
           r == Tail(RestLine)
           i == Len(KeptLine) + 1
<1>1. SchedInv /\ DataInv /\ ListInv /\ MemberInv /\ CallerWaits
  BY Zenon DEF EndpointInv
<1>2. /\ e \in EP /\ Splitting(e) /\ Linked(NewQueue, k)
      /\ Chain(ep_next, t, RestLine) /\ k \in Seq(Tcb) /\ RestLine \in Seq(Tcb)
      /\ Lines[e] = k \o RestLine
      /\ \A u \in Tcb : ~ (In(u, k) /\ In(u, RestLine))
      /\ \A u \in Tcb : In(u, k) => ipc_state[u].badge # op.badge
      /\ LoopLeft = 1 + Len(RestLine)
      /\ \A f \in EP, u \in Tcb : f # e /\ In(u, Lines[f]) =>
             ~ In(u, k) /\ ~ In(u, RestLine)
      /\ op \in [fn : {"cancel_badged_sends"}, ep : EP, badge : Badge,
                 cur : Tcb \cup {None}, head : Tcb \cup {None}, tail : Tcb \cup {None}]
  BY SplitFacts, Zenon
<1>3. /\ RestLine # <<>> /\ t = RestLine[1] /\ t \in Tcb
      /\ In(t, RestLine) /\ In(t, Lines[e]) /\ ~ In(t, k)
      /\ r \in Seq(Tcb) /\ Len(r) < Len(RestLine)
      /\ \A u \in Tcb : In(u, r) <=> In(u, RestLine) /\ u # t
  BY SplitHead, Zenon
<1>4. /\ ep_next' = [ep_next EXCEPT ![t] = None]
      /\ ep_prev' = [ep_prev EXCEPT ![t] = None]
      /\ op' = [op EXCEPT !.cur = ep_next[t]]
      /\ Restart(t)
      /\ UNCHANGED <<ipc_state, reply_to, caller, mr>>
  BY Zenon DEF BadgedDrop, notLoopVars
<1>5. /\ op' # None /\ op'.ep = e /\ op'.fn = "cancel_badged_sends"
      /\ op'.badge = op.badge /\ op'.cur = ep_next[t]
      /\ op'.head = op.head /\ op'.tail = op.tail
      /\ op' \in [fn : {"cancel_badged_sends"}, ep : EP, badge : Badge,
                  cur : Tcb \cup {None}, head : Tcb \cup {None},
                  tail : Tcb \cup {None}]
  <2>1. op.head \in Tcb \cup {None} /\ op.tail \in Tcb \cup {None}
    BY <1>2, Zenon
  <2>2. op' = [op EXCEPT !.cur = ep_next[op.cur], !.head = op.head, !.tail = op.tail]
    BY <1>2, <1>4, Zenon
  <2> QED
    BY <1>3, <2>1, <2>2, SplitData, Zenon
<1>6. /\ ep_next \in Links /\ ep_prev \in Links
      /\ ep_next' \in Links /\ ep_prev' \in Links
      /\ \A u \in Tcb : u # t => ep_next'[u] = ep_next[u] /\ ep_prev'[u] = ep_prev[u]
  BY <1>1, <1>3, <1>4 DEF DataInv, Links
<1>7. /\ SchedInv' /\ CallerWaits'
      /\ state'[t] \notin Queueing /\ (\A u \in Tcb : u # t => SameQueueing(u))
      /\ blocking_object' = [blocking_object EXCEPT ![t] = None]
      /\ blocking_object' \in [Tcb -> EP \cup {None}]
      /\ \A u \in Tcb : Gone(u) => u = t
  BY <1>2, <1>3, <1>4, RestartSched, Zenon
<1>8. Linked(NewQueue', k)
  <2>1. /\ NewQueue.next = ep_next /\ NewQueue.prev = ep_prev
        /\ NewQueue.head = op.head /\ NewQueue.tail = op.tail
        /\ NewQueue' = [head |-> op.head, tail |-> op.tail,
                        next |-> ep_next', prev |-> ep_prev']
    BY <1>5 DEF NewQueue
  <2>2. \A u \in Tcb : In(u, k) => /\ ep_next'[u] = NewQueue.next[u]
                                   /\ ep_prev'[u] = NewQueue.prev[u]
    BY <1>3, <1>6, <2>1
  <2> HIDE DEF k
  <2>3. Linked([head |-> NewQueue.head, tail |-> NewQueue.tail,
                next |-> ep_next', prev |-> ep_prev'], k)
    BY <1>2, <1>6, <2>2, SameLinked
  <2> QED
    BY <2>1, <2>3
<1>9. Chain(ep_next', op'.cur, r)
  <2>1. \A u \in Tcb : In(u, Tail(RestLine)) => ep_next'[u] = ep_next[u]
    BY <1>3, <1>6
  <2>2. Chain(ep_next', ep_next[t], Tail(RestLine))
    BY <1>2, <1>3, <1>6, <2>1, ChainTail, Zenon
  <2> QED
    BY <1>5, <2>2
<1>10. /\ \A u \in Tcb : ~ (In(u, k) /\ In(u, r))
       /\ \A f \in EP, u \in Tcb : f # e /\ In(u, Lines[f]) =>
              ep_next'[u] = ep_next[u] /\ ep_prev'[u] = ep_prev[u]
  BY <1>2, <1>3, <1>6, Zenon
<1>11. /\ i \in 1 .. Len(Lines[e]) /\ Lines[e][i] = t
       /\ k \o r = Without(Lines[e], i)
  BY <1>2, <1>3, JoinDrop
<1>12. ipc_state' = ipc_state
  BY <1>4, Zenon
<1> HIDE DEF e, t, k, r, i
<1>13. ListInv' /\ Lines' = [Lines EXCEPT ![e] = k \o r] /\ RestLine' = r
  <2>1. Splits(e, k, r)
    BY <1>2, <1>5, <1>6, <1>8, <1>9, <1>10, <1>12, Zenon DEF Splits
  <2> QED
    BY <1>1, <1>2, <2>1, SplitChange, Zenon
<1>14. DataInv'
  BY <1>1, <1>4, <1>5, <1>6, <1>7 DEF DataInv
<1>15. Leaves(e, i)
  <2>1. Lines' = [Lines EXCEPT ![e] = Without(Lines[e], i)]
    BY <1>11, <1>13
  <2>2. /\ blocking_object' = [blocking_object EXCEPT ![Lines[e][i]] = None]
        /\ state'[Lines[e][i]] \notin Queueing
        /\ \A u \in Tcb : u # Lines[e][i] => SameQueueing(u)
    BY <1>7, <1>11
  <2> QED
    BY <2>1, <2>2, Zenon DEF Leaves
<1>16. Settled
  <2>1. \A f \in EP : f # e => Lines'[f] = Lines[f]
    BY <1>2, <1>13, LinesFunction
  <2>2. ASSUME NEW f \in EP, Lines'[f] = <<>>, f # e PROVE ep_state'[f] = "Idle"
    <3>1. Lines[f] = <<>> /\ op.ep # f
      BY <2>1, <2>2 DEF e
    <3> QED
      BY <1>1, <3>1 DEF MemberInv
  <2> QED
    BY <1>5, <2>2 DEF Settled
<1>17. Good
  BY <1>2, <1>7, <1>11, <1>13, <1>14, <1>15, <1>16 DEF Good, Moves
<1>18. LoopLeft' < LoopLeft
  <2>1. LoopLeft' = 1 + Len(r)
    BY <1>5, <1>13 DEF LoopLeft, RestLine
  <2> QED
    BY <1>2, <1>3, <2>1
<1>19. LoopGood
  BY <1>17, <1>18 DEF LoopGood
<1>20. BadgedGood
  BY <1>5, <1>7 DEF BadgedGood, t
<1> QED
  BY <1>19, <1>20

\* The loop is over, and the new queue is stored.
LEMMA BadgedEndGood ==
  ASSUME Counting, EndpointInv, op # None, op.fn = "cancel_badged_sends", op.cur = None,
         SetQueue(op.ep, NewQueue), IdleIfEmpty(op.ep, NewQueue), op' = None,
         UNCHANGED <<state, ready, blocking_object>>, UNCHANGED notLoopVars
  PROVE  LoopGood /\ BadgedGood
<1> DEFINE e == op.ep
           k == KeptLine
<1>1. SchedInv /\ DataInv /\ ListInv /\ MemberInv /\ CallerWaits
  BY Zenon DEF EndpointInv
<1>2. /\ e \in EP /\ Linked(NewQueue, k)
      /\ Chain(ep_next, None, RestLine) /\ k \in Seq(Tcb)
      /\ Lines[e] = k \o RestLine
      /\ \A u \in Tcb : In(u, k) => ipc_state[u].badge # op.badge
      /\ LoopLeft = 1 + Len(RestLine)
  BY SplitFacts, Zenon
<1>3. RestLine = <<>> /\ Lines[e] = k
  <2>1. RestLine = <<>>
    BY <1>2, ChainHead
  <2> QED
    BY <1>2, <2>1, JoinEmpty
<1>4. /\ queue' = [queue EXCEPT ![e] = [head |-> op.head, tail |-> op.tail]]
      /\ ep_next' = ep_next /\ ep_prev' = ep_prev
  BY Zenon DEF SetQueue, NewQueue
<1>5. /\ UNCHANGED <<state, ready, blocking_object>>
      /\ UNCHANGED <<ticks_consumed, current, idle, panicked>>
      /\ UNCHANGED <<ipc_state, reply_to, caller, mr>>
  BY Zenon DEF notLoopVars
<1>6. /\ queue \in [EP -> [head : Tcb \cup {None}, tail : Tcb \cup {None}]]
      /\ op.head \in Tcb \cup {None} /\ op.tail \in Tcb \cup {None}
      /\ ep_next \in Links /\ ep_prev \in Links /\ ep_state \in [EP -> EndpointState]
  BY <1>1, Zenon DEF DataInv
<1>7. /\ queue' \in [EP -> [head : Tcb \cup {None}, tail : Tcb \cup {None}]]
      /\ queue'[e] = [head |-> op.head, tail |-> op.tail]
      /\ \A f \in EP : f # e => queue'[f] = queue[f]
  BY <1>2, <1>4, <1>6, Zenon
<1>8. Chain(ep_next, op.head, k) /\ (op.head = None <=> k = <<>>)
  <2>1. Chain(ep_next, op.head, k)
    BY <1>2, Zenon DEF Linked, NewQueue
  <2> HIDE DEF k
  <2> QED
    BY <2>1, ChainHead
<1>9. Lines'[e] = k
  <2>1. Lines'[e] = Follow(ep_next, op.head)
    BY <1>2, <1>4, <1>7, LineNext, Zenon
  <2> QED
    BY <2>1 DEF KeptLine
<1>10. (\A f \in EP : ~ Splitting(f)') /\ \A f \in EP : f # e => ~ Splitting(f)
  BY Zenon DEF Splitting
<1> HIDE DEF e, k
<1>11. ASSUME NEW f \in EP, f # e
       PROVE  Lines'[f] = Lines[f] /\ Linked(QueueOf(f)', Lines'[f])
  BY <1>1, <1>4, <1>6, <1>7, <1>10, <1>11, Elsewhere, Zenon
<1>12. Lines' = Lines
  BY <1>3, <1>9, <1>11, LinesFunction
<1>13. ListInv'
  <2>1. ASSUME NEW f \in EP, f = e PROVE Linked(QueueOf(f)', Lines'[f])
    <3>1. queue'[f] = [head |-> op.head, tail |-> op.tail] /\ Lines'[f] = k
      BY <1>7, <1>9, <2>1
    <3>2. QueueOf(f)' = NewQueue
      BY <1>4, <3>1 DEF QueueOf, NewQueue
    <3> QED
      BY <1>2, <3>1, <3>2
  <2>2. \A f \in EP : Linked(QueueOf(f)', Lines'[f])
    BY <1>11, <2>1
  <2> QED
    BY <1>10, <2>2, Zenon DEF ListInv
<1>14. ep_state' = IF k = <<>> THEN [ep_state EXCEPT ![e] = "Idle"] ELSE ep_state
  BY <1>8 DEF IdleIfEmpty, is_empty, NewQueue, e
<1>15. /\ ep_state' \in [EP -> EndpointState]
       /\ \A f \in EP : \/ ep_state'[f] = ep_state[f]
                        \/ Lines[f] = <<>> /\ ep_state'[f] = "Idle"
       /\ k = <<>> => ep_state'[e] = "Idle"
       /\ \A f \in EP : f # e => ep_state'[f] = ep_state[f]
  <2>1. CASE k = <<>>
    <3>1. ep_state' = [ep_state EXCEPT ![e] = "Idle"]
      BY <1>14, <2>1, Zenon
    <3>2. ep_state \in [EP -> EndpointState] /\ "Idle" \in EndpointState
      BY <1>6 DEF EndpointState
    <3>3. /\ ep_state' \in [EP -> EndpointState] /\ ep_state'[e] = "Idle"
          /\ \A f \in EP : f # e => ep_state'[f] = ep_state[f]
      BY <1>2, <3>1, <3>2
    <3>4. Lines[e] = <<>>
      BY <1>3, <2>1
    <3> QED
      BY <3>3, <3>4, Zenon
  <2>2. CASE k # <<>>
    <3>1. ep_state' = ep_state
      BY <1>14, <2>2
    <3> QED
      BY <1>6, <2>2, <3>1, Zenon
  <2> QED
    BY <2>1, <2>2
<1>16. SchedInv'
  BY <1>1, <1>5, ThreadsChange, Zenon DEF SchedInv
<1>17. DataInv'
  BY <1>1, <1>4, <1>5, <1>7, <1>15, Zenon DEF DataInv
<1>18. CallerWaits'
  BY <1>1, <1>5, Zenon DEF CallerWaits
<1>19. Stays
  BY <1>5, <1>12, <1>15 DEF Stays, SameQueueing
<1>20. Settled
  <2>1. ASSUME NEW f \in EP, Lines'[f] = <<>> PROVE ep_state'[f] = "Idle"
    <3>1. CASE f = e
      BY <1>9, <1>15, <2>1, <3>1
    <3>2. CASE f # e
      BY <1>1, <1>12, <1>15, <2>1, <3>2 DEF MemberInv, e
    <3> QED
      BY <3>1, <3>2
  <2> QED
    BY <2>1, Zenon DEF Settled
<1>21. LoopLeft' < LoopLeft
  <2>1. LoopLeft' = 0
    BY Zenon DEF LoopLeft
  <2> QED
    BY <1>2, <1>3, <2>1
<1>22. \A u \in Tcb : ~ Gone(u)
  BY <1>5 DEF Gone
<1>23. ASSUME NEW u \in Tcb, state[u] = "BlockedOnSend", blocking_object[u] = op.ep
       PROVE  ipc_state[u].badge # op.badge
  <2>1. In(u, Lines[e])
    BY <1>1, <1>2, <1>23, Zenon DEF MemberInv, Queueing, e
  <2> QED
    BY <1>2, <1>3, <2>1
<1> QED
  BY <1>13, <1>16, <1>17, <1>18, <1>19, <1>20, <1>21, <1>22, <1>23
  DEF LoopGood, Good, Moves, BadgedGood

\* The loop of cancel_badged_sends.
LEMMA CancelBadgedStepGood ==
  ASSUME Counting, EndpointInv, CancelBadgedStep
  PROVE  LoopGood /\ BadgedGood
BY BadgedDropGood, BadgedKeepGood, BadgedEndGood, Zenon DEF CancelBadgedStep

\* An iteration makes nobody Running.
LEMMA LoopRuns ==
  ASSUME state \in [Tcb -> ThreadState], LoopStep
  PROVE  RunsOnCpu
<1>1. current' = current
  BY Zenon DEF LoopStep, CancelAllStep, CancelBadgedStep, notLoopVars
<1>2. state' = state \/ \E t : state' = [state EXCEPT ![t] = "Inactive"]
  <2>1. \A t : Restart(t) => state' = [state EXCEPT ![t] = "Inactive"]
    BY Zenon DEF Restart
  <2>2. state' = state \/ \E t : Restart(t)
    BY Zenon DEF LoopStep, CancelAllStep, CancelBadgedStep, BadgedDrop, BadgedKeep
  <2> QED
    BY <2>1, <2>2, Zenon
<1>3. "Inactive" \in ThreadState \ {"Running"}
  BY Zenon DEF ThreadState
<1> QED
  BY <1>1, <1>2, <1>3, SetQuiet, QuietRuns, Zenon
=============================================================================
