--------------------------- MODULE AllowStdProofs ---------------------------
(***************************************************************************)
(* No wakeup is lost, for any number of tasks and waking threads, over a   *)
(* plain socket and over TLS.                                              *)
(***************************************************************************)
EXTENDS AllowStd, TLAPS

(* The socket remembers a waker only for a direction that is blocked. *)
WaiterBlocked == \A d \in ContextWaker : waiter[d] # "None" => ~ready[d]

(* Nothing is polled before AllowStd::new. *)
RawIdle == phase = "raw" => cur = NoPoll /\ user = [k \in ContextWaker |-> NoTask]

(* A half that is polled is polled by a task. *)
PolledByTask == \A k \in ContextWaker : cur.kind = k => user[k] # NoTask

Registering(k) ==
    cur \in {[kind |-> k, at |-> "set_waker_write_proxy"],
             [kind |-> k, at |-> "set_waker_read_proxy"]}

(* A half wants nothing while it is idle or its poll has not done I/O yet. *)
WantAfterIO ==
    \A k \in ContextWaker :
        user[k] = NoTask \/ Registering(k) \/ cur = [kind |-> k, at |-> "start"]
            => want[k] = {}

(* Past set_waker, the task of a half is in its slot of both proxies,      *)
(* unless a wakeup emptied a slot, and then the task was scheduled.        *)
SlotsHoldUser ==
    \A k \in ContextWaker :
        user[k] # NoTask =>
            \/ k \in woken
            \/ cur = [kind |-> k, at |-> "set_waker_write_proxy"]
            \/ /\ slot["Write"][k] = user[k]
               /\ \/ cur = [kind |-> k, at |-> "set_waker_read_proxy"]
                  \/ slot["Read"][k] = user[k]

(* What a half wants is remembered by the socket, on its way, or served. *)
WantCovered ==
    \A k \in ContextWaker : \A d \in want[k] :
        \/ k \in woken
        \/ waiter[d] # "None"
        \/ \E p \in ContextWaker : InFlight(p, k)

IInv ==
    /\ TypeOK
    /\ WaiterBlocked
    /\ RawIdle
    /\ PolledByTask
    /\ WantAfterIO
    /\ SlotsHoldUser
    /\ WantCovered
-----------------------------------------------------------------------------
(* A step keeps the types: one case per action. *)
LEMMA TypeStep == ASSUME TypeOK, [Next]_vars PROVE TypeOK'
<1> USE WakerAssumption DEF TypeOK, ContextWaker
<1>1. ASSUME NEW t \in Tasks, new(t) PROVE TypeOK'
  BY <1>1 DEF new, Places, NoPoll
<1>2. ASSUME NEW k \in ContextWaker, NEW t \in Tasks, poll(k, t) PROVE TypeOK'
  BY <1>2 DEF poll, Places, NoPoll
<1>3. CASE set_waker_write_proxy
  BY <1>3 DEF set_waker_write_proxy, register, UsedBy, Places, NoPoll
<1>4. CASE set_waker_read_proxy
  BY <1>4 DEF set_waker_read_proxy, register, UsedBy, Places, NoPoll
<1>5. ASSUME NEW op \in ContextWaker, NEW d \in ContextWaker, with_context(op, d)
      PROVE  TypeOK'
  <2>1. cur \in [kind : ContextWaker, at : Places]
    BY <1>5 DEF with_context, NoPoll
  <2>2. AfterWouldBlock(op) \in Places
    BY <2>1 DEF AfterWouldBlock, Places
  <2>3. /\ ready' \in [ContextWaker -> BOOLEAN]
        /\ waiter' \in [ContextWaker -> ContextWaker \cup {"None"}]
    BY <1>5 DEF with_context, Use, Block
  <2>4. cur' \in [kind : ContextWaker, at : Places]
    BY <1>5, <2>1, <2>2 DEF with_context
  <2>5. want' \in [ContextWaker -> SUBSET ContextWaker]
    BY <1>5, <2>1 DEF with_context
  <2>6. QED
    BY <1>5, <2>3, <2>4, <2>5 DEF with_context
<1>6. CASE return_pending
  BY <1>6 DEF return_pending
<1>7. CASE return_ready
  BY <1>7 DEF return_ready, Places, NoPoll
<1>8. ASSUME NEW d \in ContextWaker, start_send(d) PROVE TypeOK'
  BY <1>8 DEF start_send, Use, Block
<1>9. ASSUME NEW k \in ContextWaker, cancel(k) PROVE TypeOK'
  BY <1>9 DEF cancel
<1>10. ASSUME NEW d \in ContextWaker, NEW w \in Wakers, become_ready(d, w) PROVE TypeOK'
  BY <1>10 DEF become_ready
<1>11. ASSUME NEW w \in Wakers, wake_by_ref(w) PROVE TypeOK'
  BY <1>11 DEF wake_by_ref, UsedBy, NoWake
<1>12. CASE UNCHANGED vars
  BY <1>12 DEF vars
<1>13. QED
  BY <1>1, <1>2, <1>3, <1>4, <1>5, <1>6, <1>7, <1>8, <1>9, <1>10, <1>11, <1>12
  DEF Next, PollStep

(* Every reachable state of the waker plumbing is well typed. *)
THEOREM TypeCorrect == Spec => []TypeOK
<1>1. Init => TypeOK
  BY WakerAssumption DEF Init, TypeOK, ContextWaker, NoWake, NoPoll
<1>2. TypeOK /\ [Next]_vars => TypeOK'
  BY TypeStep
<1>3. QED
  BY <1>1, <1>2, PTL DEF Spec
-----------------------------------------------------------------------------
LEMMA WaiterBlockedStep == ASSUME IInv, [Next]_vars PROVE WaiterBlocked'
<1> USE DEF IInv, TypeOK, ContextWaker, WaiterBlocked
<1>1. ASSUME NEW d \in ContextWaker, NEW op \in ContextWaker,
             Use(d) \/ Block(op, d)
      PROVE  WaiterBlocked'
  BY <1>1 DEF Use, Block
<1>2. ASSUME NEW d \in ContextWaker, NEW w \in Wakers, become_ready(d, w)
      PROVE  WaiterBlocked'
  BY <1>2 DEF become_ready
<1>3. CASE UNCHANGED <<ready, waiter>>
  BY <1>3
<1>4. CASE UNCHANGED vars
  BY <1>4 DEF vars
<1>5. QED
  BY ZenonT(60), <1>1, <1>2, <1>3, <1>4
  DEF Next, PollStep, new, poll, set_waker_write_proxy, set_waker_read_proxy,
      with_context, return_pending, return_ready, start_send, cancel, wake_by_ref

LEMMA RawIdleStep == ASSUME IInv, [Next]_vars PROVE RawIdle'
<1> USE DEF IInv, RawIdle
<1>1. CASE UNCHANGED <<phase, cur, user>>
  BY <1>1
<1>2. CASE phase' # "raw"
  BY <1>2
<1>3. phase = "raw" => cur.at = "none"
  BY DEF NoPoll
<1>4. CASE PollStep
  <2>1. phase # "raw"
    BY <1>3, <1>4
    DEF PollStep, set_waker_write_proxy, set_waker_read_proxy, with_context,
        return_pending, return_ready
  <2>2. phase' \in {phase, "open"}
    BY <1>4
    DEF PollStep, set_waker_write_proxy, set_waker_read_proxy, with_context,
        return_pending, return_ready
  <2>3. QED
    BY <2>1, <2>2
<1>5. CASE UNCHANGED vars
  BY <1>5 DEF vars
<1>6. QED
  BY <1>1, <1>2, <1>4, <1>5
  DEF Next, new, poll, start_send, cancel, become_ready, wake_by_ref

LEMMA PolledByTaskStep == ASSUME IInv, [Next]_vars PROVE PolledByTask'
<1> USE WakerAssumption DEF IInv, TypeOK, ContextWaker, PolledByTask
<1>1. ASSUME NEW t \in Tasks, new(t) PROVE PolledByTask'
  BY <1>1 DEF new
<1>2. ASSUME NEW k \in ContextWaker, NEW t \in Tasks, poll(k, t) PROVE PolledByTask'
  BY <1>2 DEF poll
<1>3. ASSUME user' = user, cur'.kind \in {cur.kind, "None"} PROVE PolledByTask'
  BY <1>3
<1>4. CASE set_waker_write_proxy \/ set_waker_read_proxy
  BY <1>3, <1>4 DEF set_waker_write_proxy, set_waker_read_proxy, NoPoll
<1>5. ASSUME NEW op \in ContextWaker, NEW d \in ContextWaker, with_context(op, d)
      PROVE  PolledByTask'
  BY <1>3, <1>5 DEF with_context, NoPoll
<1>6. CASE return_pending
  BY <1>3, <1>6 DEF return_pending, NoPoll
<1>7. CASE return_ready
  BY <1>7 DEF return_ready, NoPoll
<1>8. ASSUME NEW k \in ContextWaker, cancel(k) PROVE PolledByTask'
  BY <1>8 DEF cancel, Parked
<1>9. CASE UNCHANGED <<cur, user>>
  BY <1>9
<1>10. CASE UNCHANGED vars
  BY <1>10 DEF vars
<1>11. QED
  BY <1>1, <1>2, <1>4, <1>5, <1>6, <1>7, <1>8, <1>9, <1>10
  DEF Next, PollStep, start_send, become_ready, wake_by_ref

LEMMA WantAfterIOStep == ASSUME IInv, [Next]_vars PROVE WantAfterIO'
<1> USE DEF IInv, TypeOK, ContextWaker, WantAfterIO, Registering
<1>1. ASSUME NEW t \in Tasks, new(t) PROVE WantAfterIO'
  BY <1>1 DEF new, RawIdle, NoPoll
<1>2. ASSUME NEW k \in ContextWaker, NEW t \in Tasks, poll(k, t) PROVE WantAfterIO'
  BY <1>2 DEF poll, NoPoll
<1>3. CASE set_waker_write_proxy
  BY <1>3 DEF set_waker_write_proxy, NoPoll
<1>4. CASE set_waker_read_proxy
  BY <1>4 DEF set_waker_read_proxy, NoPoll
<1>5. ASSUME NEW op \in ContextWaker, NEW d \in ContextWaker, with_context(op, d)
      PROVE  WantAfterIO'
  BY <1>5 DEF with_context, AfterWouldBlock, NoPoll, PolledByTask
<1>6. CASE return_pending
  BY <1>6 DEF return_pending, NoPoll
<1>7. CASE return_ready
  BY <1>7 DEF return_ready, NoPoll
<1>8. ASSUME NEW k \in ContextWaker, cancel(k) PROVE WantAfterIO'
  BY <1>8 DEF cancel, Parked
<1>9. CASE UNCHANGED <<user, cur, want>>
  BY <1>9
<1>10. CASE UNCHANGED vars
  BY <1>10 DEF vars
<1>11. QED
  BY <1>1, <1>2, <1>3, <1>4, <1>5, <1>6, <1>7, <1>8, <1>9, <1>10
  DEF Next, PollStep, start_send, become_ready, wake_by_ref

LEMMA SlotsHoldUserStep == ASSUME IInv, [Next]_vars PROVE SlotsHoldUser'
<1> USE WakerAssumption DEF IInv, TypeOK, ContextWaker, SlotsHoldUser
<1>1. ASSUME NEW t \in Tasks, new(t) PROVE SlotsHoldUser'
  BY <1>1 DEF new, RawIdle, NoPoll
<1>2. ASSUME NEW k \in ContextWaker, NEW t \in Tasks, poll(k, t) PROVE SlotsHoldUser'
  BY <1>2 DEF poll, NoPoll
<1>3. CASE set_waker_write_proxy
  BY <1>3 DEF set_waker_write_proxy, register, UsedBy, NoPoll
<1>4. CASE set_waker_read_proxy
  BY <1>4 DEF set_waker_read_proxy, register, UsedBy, NoPoll
<1>5. ASSUME NEW op \in ContextWaker, NEW d \in ContextWaker, with_context(op, d)
      PROVE  SlotsHoldUser'
  BY <1>5 DEF with_context, AfterWouldBlock, NoPoll
<1>6. CASE return_pending
  BY <1>6 DEF return_pending, NoPoll
<1>7. CASE return_ready
  BY <1>7 DEF return_ready, NoPoll
<1>8. ASSUME NEW k \in ContextWaker, cancel(k) PROVE SlotsHoldUser'
  BY <1>8 DEF cancel, Parked
<1>9. ASSUME NEW w \in Wakers, wake_by_ref(w) PROVE SlotsHoldUser'
  BY <1>9 DEF wake_by_ref, UsedBy
<1>10. CASE UNCHANGED <<slot, cur, user, woken>>
  BY <1>10
<1>11. CASE UNCHANGED vars
  BY <1>11 DEF vars
<1>12. QED
  BY <1>1, <1>2, <1>3, <1>4, <1>5, <1>6, <1>7, <1>8, <1>9, <1>10, <1>11
  DEF Next, PollStep, start_send, become_ready

LEMMA WantCoveredStep == ASSUME IInv, [Next]_vars PROVE WantCovered'
<1> USE WakerAssumption DEF IInv, TypeOK, ContextWaker, WantCovered, InFlight
<1>1. ASSUME NEW t \in Tasks, new(t) PROVE WantCovered'
  BY <1>1 DEF new
<1>2. ASSUME NEW k \in ContextWaker, NEW t \in Tasks, poll(k, t) PROVE WantCovered'
  BY <1>2 DEF poll, NoPoll
<1>3. CASE set_waker_write_proxy
  BY <1>3 DEF set_waker_write_proxy, register
<1>4. CASE set_waker_read_proxy
  BY SMTT(60), <1>4 DEF set_waker_read_proxy, register
<1>5. ASSUME NEW op \in ContextWaker, NEW d \in ContextWaker, with_context(op, d)
      PROVE  WantCovered'
  BY <1>5 DEF with_context, Use, Block, NoPoll
<1>6. CASE return_pending
  BY <1>6 DEF return_pending
<1>7. CASE return_ready
  BY <1>7 DEF return_ready, NoPoll
<1>8. ASSUME NEW d \in ContextWaker, start_send(d) PROVE WantCovered'
  BY <1>8 DEF start_send, Use, Block
<1>9. ASSUME NEW k \in ContextWaker, cancel(k) PROVE WantCovered'
  BY <1>9 DEF cancel
<1>10. ASSUME NEW d \in ContextWaker, NEW w \in Wakers, become_ready(d, w)
       PROVE  WantCovered'
  BY <1>10 DEF become_ready, NoWake
<1>11. ASSUME NEW w \in Wakers, wake_by_ref(w) PROVE WantCovered'
  BY <1>11 DEF wake_by_ref, UsedBy, NoWake, WantAfterIO, SlotsHoldUser, Registering
<1>12. CASE UNCHANGED vars
  BY <1>12 DEF vars
<1>13. QED
  BY <1>1, <1>2, <1>3, <1>4, <1>5, <1>6, <1>7, <1>8, <1>9, <1>10, <1>11, <1>12
  DEF Next, PollStep
-----------------------------------------------------------------------------
(* The strengthening IInv is an inductive invariant. *)
LEMMA Invariance == Spec => []IInv
<1>1. Init => IInv
  BY WakerAssumption
  DEF Init, IInv, TypeOK, ContextWaker, NoWake, NoPoll, WaiterBlocked, RawIdle,
      PolledByTask, WantAfterIO, SlotsHoldUser, WantCovered
<1>2. IInv /\ [Next]_vars => IInv'
  BY TypeStep, WaiterBlockedStep, RawIdleStep, PolledByTaskStep, WantAfterIOStep,
     SlotsHoldUserStep, WantCoveredStep
  DEF IInv
<1>3. QED
  BY <1>1, <1>2, PTL DEF Spec

(* Whatever the two halves, the waking threads and start_send interleave,  *)
(* a half parked on a ready direction has been scheduled or is about to be *)
(* woken through a slot that holds its task.                               *)
THEOREM NoWakeupIsLost == Spec => []NoLostWakeup
<1>1. IInv => NoLostWakeup
  BY DEF IInv, TypeOK, ContextWaker, WaiterBlocked, SlotsHoldUser, WantCovered,
         NoLostWakeup, Parked
<1>2. QED
  BY <1>1, Invariance, PTL

(* A half parked on a blocked direction is in the slots of the proxy the   *)
(* socket remembers for that direction, even when the other half or a      *)
(* start_send blocked there later and left its own proxy.                  *)
THEOREM EveryWaitIsRegistered == Spec => []WakeupArranged
<1>1. IInv => WakeupArranged
  BY DEF IInv, TypeOK, ContextWaker, SlotsHoldUser, WantCovered, WakeupArranged, Parked
<1>2. QED
  BY <1>1, Invariance, PTL
=============================================================================
