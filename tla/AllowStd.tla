------------------------------ MODULE AllowStd ------------------------------
(***************************************************************************)
(* The waker plumbing of src/compat.rs.                                    *)
(*                                                                         *)
(* tungstenite does blocking-style I/O on an AllowStd, which turns every   *)
(* Read / Write call into a poll of the asynchronous stream S and every    *)
(* Pending into WouldBlock.  The Stream half and the Sink half of a        *)
(* WebSocketStream may live on two tasks, yet S remembers one waker per    *)
(* direction.  So S is handed one of two WakerProxy objects, and each      *)
(* proxy fans a wakeup out to two AtomicWaker slots, one per half.         *)
(*                                                                         *)
(* A poll is not atomic here: S may become ready, and the thread that      *)
(* delivers the wakeup may run, between any two steps of the poll.         *)
(***************************************************************************)
CONSTANTS
    Tasks,   \* the tasks that may poll a half of the WebSocketStream
    Wakers,  \* the threads that deliver wakeups (the I/O driver, a peer task)
    NoTask,  \* an empty AtomicWaker, an idle half
    Tls      \* TRUE when S is a TLS stream over the socket

ASSUME WakerAssumption ==
    /\ NoTask \notin Tasks
    /\ Tls \in BOOLEAN

(***************************************************************************)
(* ContextWaker names a half ("Read": Stream and handshake, "Write":       *)
(* Sink), the slot that half owns in a proxy, the AsyncRead / AsyncWrite   *)
(* operations of S with the proxy passed to them, and a direction of the   *)
(* socket below S.                                                         *)
(***************************************************************************)
ContextWaker == {"Read", "Write"}

VARIABLES
    phase,   \* "raw" before AllowStd::new, then "handshake", then "open"
    slot,    \* slot[p][k]: the task registered in slot k of proxy p
    ready,   \* ready[d]: direction d of the socket can make progress
    waiter,  \* waiter[d]: the proxy whose waker the socket remembers for d
    wake,    \* wake[w]: what thread w has still to do of a wake_by_ref
    cur,     \* the poll that has the WebSocketStream borrowed, and its place
    user,    \* user[k]: the task polling half k, or parked on it
    want,    \* want[k]: the directions that blocked the latest poll of k
    woken    \* the halves whose task was scheduled since that poll began

vars == <<phase, slot, ready, waiter, wake, cur, user, want, woken>>

NoPoll == [kind |-> "None", at |-> "none"]
NoWake == [proxy |-> "Read", next |-> "None"]

Places == {"start", "set_waker_write_proxy", "set_waker_read_proxy", "io",
           "would_block"}

(* Half k returned Pending to its task and nobody is polling it. *)
Parked(k) == user[k] # NoTask /\ cur.kind # k

(* Thread w is about to wake slot k of proxy p, maybe after another slot. *)
InFlight(p, k) ==
    \E w \in Wakers :
        /\ wake[w].proxy = p
        /\ wake[w].next = k \/ (wake[w].next = "Read" /\ k = "Write")

(***************************************************************************)
(* Scheduling a task makes it poll again every half it uses: a future      *)
(* that combines them (join, select) polls its members whenever the task   *)
(* runs.                                                                   *)
(***************************************************************************)
UsedBy(t) == {k \in ContextWaker : t # NoTask /\ user[k] = t}

(***************************************************************************)
(* The socket directions an operation of S may need.  A plain socket needs *)
(* the operation's own; TLS may have to write to complete a read and the   *)
(* other way round.                                                        *)
(***************************************************************************)
Touches(op) == IF Tls THEN ContextWaker ELSE {op}

Init ==
    /\ phase = "raw"
    /\ slot = [p \in ContextWaker |-> [k \in ContextWaker |-> NoTask]]
    /\ ready \in [ContextWaker -> BOOLEAN]
    /\ waiter = [d \in ContextWaker |-> "None"]
    /\ wake = [w \in Wakers |-> NoWake]
    /\ cur = NoPoll
    /\ user = [k \in ContextWaker |-> NoTask]
    /\ want = [k \in ContextWaker |-> {}]
    /\ woken = {}
-----------------------------------------------------------------------------
(* AtomicWaker::register: stores the waker, or, when a wake of this very   *)
(* slot is under way, wakes the new waker instead of storing it.           *)
register(p, k, t) ==
    \/ /\ slot' = [slot EXCEPT ![p][k] = t]
       /\ UNCHANGED woken
    \/ /\ \E w \in Wakers : wake[w] = [proxy |-> p, next |-> k]
       /\ woken' = woken \cup UsedBy(t)
       /\ UNCHANGED slot

(* AllowStd::new in the first poll of the handshake future: the handshake  *)
(* task goes into the read slot of both proxies, and the handshake runs    *)
(* at once, within the same poll.                                          *)
new(t) ==
    /\ phase = "raw"
    /\ phase' = "handshake"
    /\ slot' = [p \in ContextWaker |-> [slot[p] EXCEPT !["Read"] = t]]
    /\ user' = [user EXCEPT !["Read"] = t]
    /\ cur' = [kind |-> "Read", at |-> "start"]
    /\ UNCHANGED <<ready, waiter, wake, want, woken>>

(* A task polls half k with its context: the handshake future, poll_next   *)
(* (k = "Read"), poll_ready, poll_flush or poll_close (k = "Write").  It   *)
(* needs no wakeup to do so, and a half may have moved to another task.    *)
poll(k, t) ==
    /\ cur = NoPoll
    /\ phase = "open" \/ (phase = "handshake" /\ k = "Read")
    /\ cur' = [kind |-> k, at |-> "set_waker_write_proxy"]
    /\ user' = [user EXCEPT ![k] = t]
    /\ want' = [want EXCEPT ![k] = {}]
    /\ woken' = woken \ {k}
    /\ UNCHANGED <<phase, slot, ready, waiter, wake>>

(* Mutant: the slot of write_waker_proxy is not registered. *)
set_waker_write_proxy_skipped ==
    /\ cur.at = "set_waker_write_proxy"
    /\ cur' = [cur EXCEPT !.at = "set_waker_read_proxy"]
    /\ UNCHANGED <<phase, slot, ready, waiter, wake, user, want, woken>>

(* set_waker, first statement: the slot of this half in write_waker_proxy. *)
set_waker_write_proxy ==
    /\ cur.at = "set_waker_write_proxy"
    /\ register("Write", cur.kind, user[cur.kind])
    /\ cur' = [cur EXCEPT !.at = "set_waker_read_proxy"]
    /\ UNCHANGED <<phase, ready, waiter, wake, user, want>>

(* Mutant: read_waker_proxy.read_waker is registered for the Sink half too. *)
set_waker_read_proxy_wrong_slot ==
    /\ cur.at = "set_waker_read_proxy"
    /\ register("Read", "Read", user[cur.kind])
    /\ cur' = [cur EXCEPT !.at = "io"]
    /\ UNCHANGED <<phase, ready, waiter, wake, user, want>>

(* set_waker, second statement: the slot of this half in read_waker_proxy. *)
set_waker_read_proxy ==
    /\ cur.at = "set_waker_read_proxy"
    /\ register("Read", cur.kind, user[cur.kind])
    /\ cur' = [cur EXCEPT !.at = "io"]
    /\ UNCHANGED <<phase, ready, waiter, wake, user, want>>

(* The contract of S: an operation that finds direction d ready uses some  *)
(* or all of the readiness; otherwise S remembers the waker it was given,  *)
(* which is the one of the operation's proxy, and returns Pending.         *)
Use(d) ==
    /\ ready[d]
    /\ \E more \in BOOLEAN : ready' = [ready EXCEPT ![d] = more]
    /\ UNCHANGED waiter

Block(op, d) ==
    /\ ~ready[d]
    /\ waiter' = [waiter EXCEPT ![d] = op]
    /\ UNCHANGED ready

(* Where WouldBlock leaves the poll.  The started handshake is interrupted *)
(* and MidHandshake polls it at once; a handshake, and a half blocked in   *)
(* its own operation, returns Pending; a Stream that could not write its   *)
(* pong goes on to read.                                                   *)
AfterWouldBlock(op) ==
    CASE cur.at = "start"                             -> "set_waker_write_proxy"
      [] phase = "handshake" \/ op = cur.kind         -> "would_block"
      [] OTHER                                        -> cur.at

(* AllowStd::with_context(op): one AsyncRead / AsyncWrite call made by     *)
(* tungstenite during a poll, on behalf of the half that is polled.        *)
with_context(op, d) ==
    /\ cur.at \in {"start", "io"}
    /\ cur.kind = "Write" => op = "Write"
    /\ d \in Touches(op)
    /\ \/ Use(d) /\ UNCHANGED <<cur, want>>
       \/ /\ Block(op, d)
          /\ cur' = [cur EXCEPT !.at = AfterWouldBlock(op)]
          /\ want' = [want EXCEPT ![cur.kind] =
                        IF cur.at = "start" THEN {} ELSE @ \cup {d}]
    /\ UNCHANGED <<phase, slot, wake, user, woken>>

(* start_send calls with_context(None, ..): it writes without registering  *)
(* a waker, and WouldBlock is not reported to the task.                    *)
start_send(d) ==
    /\ cur = NoPoll
    /\ phase = "open"
    /\ d \in Touches("Write")
    /\ Use(d) \/ Block("Write", d)
    /\ UNCHANGED <<phase, slot, wake, cur, user, want, woken>>

(* cvt: WouldBlock becomes Pending and the task parks on this half. *)
return_pending ==
    /\ cur.at = "would_block"
    /\ cur' = NoPoll
    /\ UNCHANGED <<phase, slot, ready, waiter, wake, user, want, woken>>

(* The poll returns Ready; a completed handshake opens the stream. *)
return_ready ==
    /\ cur.at \in {"start", "io"}
    /\ cur' = NoPoll
    /\ phase' = "open"
    /\ user' = [user EXCEPT ![cur.kind] = NoTask]
    /\ want' = [want EXCEPT ![cur.kind] = {}]
    /\ woken' = woken \ {cur.kind}
    /\ UNCHANGED <<slot, ready, waiter, wake>>

(* The future of a pending half is dropped: another branch of a select!    *)
(* won.  Its waker stays registered.                                       *)
cancel(k) ==
    /\ phase = "open"
    /\ Parked(k)
    /\ user' = [user EXCEPT ![k] = NoTask]
    /\ want' = [want EXCEPT ![k] = {}]
    /\ woken' = woken \ {k}
    /\ UNCHANGED <<phase, slot, ready, waiter, wake, cur>>

(* Mutant: a proxy is woken without one being remembered. *)
become_ready_unchecked(d, w) ==
    /\ ~ready[d]
    /\ ready' = [ready EXCEPT ![d] = TRUE]
    /\ wake[w] = NoWake
    /\ wake' = [wake EXCEPT ![w] = [proxy |-> waiter[d], next |-> "Read"]]
    /\ waiter' = [waiter EXCEPT ![d] = "None"]
    /\ UNCHANGED <<phase, slot, cur, user, want, woken>>

(* Direction d becomes ready and thread w starts to wake the remembered    *)
(* proxy, which the socket forgets.                                        *)
become_ready(d, w) ==
    /\ ~ready[d]
    /\ ready' = [ready EXCEPT ![d] = TRUE]
    /\ \/ waiter[d] = "None" /\ UNCHANGED <<waiter, wake>>
       \/ /\ waiter[d] # "None"
          /\ wake[w] = NoWake
          /\ wake' = [wake EXCEPT ![w] = [proxy |-> waiter[d], next |-> "Read"]]
          /\ waiter' = [waiter EXCEPT ![d] = "None"]
    /\ UNCHANGED <<phase, slot, cur, user, want, woken>>

(* Mutant: only the Stream half's slot is woken. *)
wake_by_ref_read_only(w) ==
    LET p == wake[w].proxy
    IN  /\ wake[w].next # "None"
        /\ slot' = [slot EXCEPT ![p]["Read"] = NoTask]
        /\ woken' = woken \cup UsedBy(slot[p]["Read"])
        /\ wake' = [wake EXCEPT ![w] = NoWake]
        /\ UNCHANGED <<phase, ready, waiter, cur, user, want>>

(* WakerProxy::wake_by_ref: read_waker.wake(), then write_waker.wake().    *)
(* AtomicWaker::wake takes the task out of the slot and schedules it.      *)
wake_by_ref(w) ==
    LET p == wake[w].proxy
        k == wake[w].next
    IN  /\ k # "None"
        /\ slot' = [slot EXCEPT ![p][k] = NoTask]
        /\ woken' = woken \cup UsedBy(slot[p][k])
        /\ wake' = [wake EXCEPT ![w] =
                      IF k = "Read" THEN [proxy |-> p, next |-> "Write"] ELSE NoWake]
        /\ UNCHANGED <<phase, ready, waiter, cur, user, want>>

PollStep ==
    \/ set_waker_write_proxy
    \/ set_waker_read_proxy
    \/ \E op, d \in ContextWaker : with_context(op, d)
    \/ return_pending
    \/ return_ready

Next ==
    \/ \E t \in Tasks : new(t)
    \/ \E k \in ContextWaker, t \in Tasks : poll(k, t)
    \/ PollStep
    \/ \E d \in ContextWaker : start_send(d)
    \/ \E k \in ContextWaker : cancel(k)
    \/ \E d \in ContextWaker, w \in Wakers : become_ready(d, w)
    \/ \E w \in Wakers : wake_by_ref(w)

Spec == Init /\ [][Next]_vars

(***************************************************************************)
(* Fairness.  A thread that began a wake_by_ref finishes it.  A poll runs  *)
(* to its end: it is synchronous code, and an operation of tungstenite     *)
(* makes finitely many I/O calls.  The executor polls a scheduled task     *)
(* again; the other half may hold the stream at that moment, any number of *)
(* times, but BiLock wakes the loser on every unlock, hence strong         *)
(* fairness.  Nothing is assumed of the user or of the socket.             *)
(***************************************************************************)
poll_woken(k) ==
    /\ k \in woken
    /\ Parked(k)
    /\ poll(k, user[k])

Fairness ==
    /\ WF_vars(set_waker_write_proxy \/ set_waker_read_proxy)
    /\ WF_vars(return_pending \/ return_ready)
    /\ \A w \in Wakers : WF_vars(wake_by_ref(w))
    /\ \A k \in ContextWaker : SF_vars(poll_woken(k))

FairSpec == Spec /\ Fairness
-----------------------------------------------------------------------------
TypeOK ==
    /\ phase \in {"raw", "handshake", "open"}
    /\ slot \in [ContextWaker -> [ContextWaker -> Tasks \cup {NoTask}]]
    /\ ready \in [ContextWaker -> BOOLEAN]
    /\ waiter \in [ContextWaker -> ContextWaker \cup {"None"}]
    /\ wake \in [Wakers -> [proxy : ContextWaker, next : ContextWaker \cup {"None"}]]
    /\ cur \in {NoPoll} \cup [kind : ContextWaker, at : Places]
    /\ user \in [ContextWaker -> Tasks \cup {NoTask}]
    /\ want \in [ContextWaker -> SUBSET ContextWaker]
    /\ woken \in SUBSET ContextWaker

(* No lost wakeup: a half that is parked on a direction which is ready has *)
(* had its task scheduled, or a thread is on its way to the slot that      *)
(* holds the task.  Neither the other half's registrations nor wakeups     *)
(* that race with the poll, nor a start_send without a waker, break this.  *)
NoLostWakeup ==
    \A k \in ContextWaker : \A d \in want[k] :
        Parked(k) /\ ready[d] =>
            \/ k \in woken
            \/ \E p \in ContextWaker : slot[p][k] = user[k] /\ InFlight(p, k)

(* A half parked on a direction that is not ready is sure to hear of it:   *)
(* the socket remembers a proxy that has the half's task in its slot,      *)
(* whichever half's operation left that proxy there.                       *)
WakeupArranged ==
    \A k \in ContextWaker : \A d \in want[k] :
        Parked(k) /\ ~ready[d] =>
            \/ k \in woken
            \/ waiter[d] # "None" /\ slot[waiter[d]][k] = user[k]
            \/ \E p \in ContextWaker : slot[p][k] = user[k] /\ InFlight(p, k)

(* A half parked on a direction that is ready is eventually polled again,  *)
(* or its future dropped.                                                  *)
WakeupDelivered ==
    \A k \in ContextWaker, d \in ContextWaker :
        (Parked(k) /\ d \in want[k] /\ ready[d]) ~> ~Parked(k)
=============================================================================
