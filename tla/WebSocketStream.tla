--------------------------- MODULE WebSocketStream ---------------------------
(***************************************************************************)
(* src/lib.rs: the Stream and the Sink of a WebSocketStream.               *)
(*                                                                         *)
(* Two endpoints, the two roles of a connection, are joined by a transport *)
(* of bounded capacity.  Every poll is one action: the halves of a split   *)
(* WebSocketStream take turns under a lock, and the waker side of a poll   *)
(* is the subject of AllowStd.  A poll that returns Pending may have moved *)
(* frames all the same, and the future that made it may be dropped.        *)
(***************************************************************************)
EXTENDS Tungstenite, FiniteSets

CONSTANTS
    Cap,      \* frames the transport holds in one direction
    MaxSend,  \* bound: MaxSend[e] messages are sent by e
    SendOps,  \* the kinds of message the users send
    MaxBeforeClose,  \* bound: messages sent by either user when one begins to close
    Faulty    \* TRUE when the connection may be reset, a stream dropped early

Endpoint == {"Client", "Server"}
Peer(e) == IF e = "Client" THEN "Server" ELSE "Client"

ASSUME ConnectionAssumption ==
    /\ Cap \in Nat \ {0}
    /\ MaxSend \in [Endpoint -> Nat]
    /\ SendOps \subseteq {"Data", "Ping", "Close"}
    /\ MaxBeforeClose \in Nat
    /\ Faulty \in BOOLEAN

VARIABLES
    inner,     \* inner[e]: the tungstenite WebSocket of endpoint e
    ready,     \* ready[e], closing[e], ended[e]: the fields of WebSocketStream
    closing,
    ended,
    net,       \* net[e]: the frames on their way to e
    up,        \* FALSE once the connection is reset
    alive,     \* alive[e]: e's WebSocketStream has not been dropped
    permit,    \* permit[e]: poll_ready said Ok and start_send may be called
    accepted,  \* accepted[e]: the messages start_send took
    yielded,   \* yielded[e]: the messages poll_next returned, Pongs left out
    told       \* told[e]: what e's user was told about flushing, closing, the end,
               \* and whether a Close found no room in the write buffer

stream == <<inner, ready, closing, ended>>
transport == <<net, up, alive>>
history == <<accepted, yielded, told>>
vars == <<stream, transport, permit, history>>

Init ==
    /\ inner = [e \in Endpoint |-> NewWebSocket]
    /\ ready = [e \in Endpoint |-> TRUE]
    /\ closing = [e \in Endpoint |-> FALSE]
    /\ ended = [e \in Endpoint |-> FALSE]
    /\ net = [e \in Endpoint |-> <<>>]
    /\ up = TRUE
    /\ alive = [e \in Endpoint |-> TRUE]
    /\ permit = [e \in Endpoint |-> FALSE]
    /\ accepted = [e \in Endpoint |-> <<>>]
    /\ yielded = [e \in Endpoint |-> <<>>]
    /\ told = [e \in Endpoint |-> [flushed |-> 0, closed |-> FALSE, clean |-> FALSE, full |-> FALSE]]
-----------------------------------------------------------------------------
(* How the code sorts the result of a tungstenite call.  cvt makes         *)
(* WouldBlock a Pending.  start_send takes WouldBlock for success: the     *)
(* message was queued.  A flush on a connection that has just been closed  *)
(* is complete.  Any other error ends the Stream, normally or not.         *)
Pending(c) == c.res = "WouldBlock"

SendFails(c) == c.res \in {"Ok"}
QueuedWhenFull(c) == c.res \in {"Ok", "WouldBlock", "WriteBufferFull"}
Queued(c) == c.res \in {"Ok", "WouldBlock"}

NeverBlocked(c) == FALSE
Blocked(c) == c.res = "WouldBlock"

FlushedOrPending(c) == c.res \in {"Ok", "WouldBlock", "ConnectionClosed"}
Flushed(c) == c.res \in {"Ok", "ConnectionClosed"}

EndsOnError(c) == c.res \notin {"Ok", "WouldBlock", "AlreadyClosed", "ConnectionClosed"}
Ends(c) == c.res \notin {"Ok", "WouldBlock"}

AnyEnd(c) == Ends(c)
NormalEnd(c) == c.res \in {"AlreadyClosed", "ConnectionClosed"}

(* The socket takes whatever is written to a peer that has gone. *)
RoomOfEmpty(e) == Cap
Room(e) ==
    IF alive[Peer(e)] THEN Cap - Len(net[Peer(e)]) ELSE Len(inner[e].out) + 3

CallOf(e) == NewCall(e, inner[e], Room(e), up)

(* What a finished call leaves behind. *)
Apply(e, c) ==
    /\ inner' = [inner EXCEPT ![e] = c.ws]
    /\ net' = [net EXCEPT
                 ![Peer(e)] = IF alive[Peer(e)] THEN @ \o c.sent ELSE @,
                 ![e] = IF c.msg = NoFrame THEN @ ELSE Tail(@)]

(* Stream::poll_next; an ended stream is fused and only returns None. *)
ReadsAgain(e) == alive[e]
Reads(e) == alive[e] /\ ~ended[e]

poll_next(e) ==
    /\ Reads(e)
    /\ \E c \in read(CallOf(e), net[e], ~alive[Peer(e)]) :
        /\ Apply(e, c)
        /\ ended' = [ended EXCEPT ![e] = Ends(c)]
        /\ yielded' = [yielded EXCEPT ![e] =
                         IF c.res = "Ok" /\ c.msg.op # "Pong" THEN Append(@, c.msg) ELSE @]
        /\ told' = [told EXCEPT ![e].clean = NormalEnd(c)]
    /\ UNCHANGED <<ready, closing, up, alive, permit, accepted>>

(* Sink::poll_ready: once a send was blocked, the blockage is flushed away *)
(* first.                                                                  *)
poll_ready(e) ==
    /\ alive[e]
    /\ \/ /\ ready[e]
          /\ permit' = [permit EXCEPT ![e] = TRUE]
          /\ UNCHANGED <<stream, net>>
       \/ /\ ~ready[e]
          /\ \E c \in flush(CallOf(e)) :
              /\ Apply(e, c)
              /\ ready' = [ready EXCEPT ![e] = ~Pending(c)]
              /\ permit' = [permit EXCEPT ![e] = c.res = "Ok"]
          /\ UNCHANGED <<closing, ended>>
    /\ UNCHANGED <<up, alive, history>>

(* The bound on when a user begins to close; what was begun goes on. *)
MayClose(e) ==
    inner[e].state = "Active" =>
        \A x \in Endpoint : Len(accepted[x]) <= MaxBeforeClose

(* No frame can be queued.  A Close that is to be queued first is refused;  *)
(* the reply to the peer's Close stays where it waits.                      *)
Full(e) == Len(inner[e].out) >= MaxOut
CloseRefused(e) == Full(e) /\ inner[e].state = "Active"
ReplyWaits(e) == Full(e) /\ inner[e].additional = CloseFrame

(* Sink::start_send, called as the contract of Sink asks: after poll_ready *)
(* said Ok.  A message that hits WouldBlock was queued, so it is accepted. *)
start_send(e, op) ==
    LET f == IF op = "Close" THEN CloseFrame ELSE [op |-> op, id |-> Len(accepted[e]) + 1]
    IN  /\ alive[e]
        /\ permit[e]
        /\ op = "Close" \/ Len(accepted[e]) < MaxSend[e]
        /\ op = "Close" => MayClose(e)
        /\ \E c \in write(CallOf(e), f) :
            /\ Apply(e, c)
            /\ ready' = [ready EXCEPT ![e] = ~Blocked(c)]
            /\ accepted' = [accepted EXCEPT ![e] =
                              IF op # "Close" /\ Queued(c) THEN Append(@, f) ELSE @]
        /\ permit' = [permit EXCEPT ![e] = FALSE]
        /\ told' = [told EXCEPT ![e].full = @ \/ (op = "Close" /\ CloseRefused(e))]
        /\ UNCHANGED <<closing, ended, up, alive, yielded>>

(* Sink::poll_flush; a connection that has just been closed was flushed.   *)
(* It flushes even when ready: ready does not say that nothing waits.      *)
FlushWhenBlocked(e) == IF ready[e] THEN {CallOf(e)} ELSE flush(CallOf(e))
FlushCall(e) == flush(CallOf(e))

poll_flush(e) ==
    /\ alive[e]
    /\ \E c \in FlushCall(e) :
        /\ Apply(e, c)
        /\ ready' = [ready EXCEPT ![e] = @ \/ ~Pending(c)]
        /\ told' = [told EXCEPT ![e].flushed =
                      IF Flushed(c) THEN Len(accepted[e]) ELSE @]
    /\ UNCHANGED <<closing, ended, up, alive, permit, accepted, yielded>>

(* Sink::poll_close: queues the Close, and flushes it if that blocked. *)
CloseCallFlushes(e) == flush(CallOf(e))
CloseCall(e) == IF closing[e] THEN flush(CallOf(e)) ELSE close(CallOf(e))

poll_close(e) ==
    /\ alive[e]
    /\ MayClose(e)
    /\ \E c \in CloseCall(e) :
        /\ Apply(e, c)
        /\ ready' = [ready EXCEPT ![e] = TRUE]
        /\ closing' = [closing EXCEPT ![e] = @ \/ Pending(c)]
        /\ told' = [told EXCEPT
                      ![e].flushed = IF Flushed(c) THEN Len(accepted[e]) ELSE @,
                      ![e].closed = @ \/ Flushed(c),
                      ![e].full = @ \/ CloseRefused(e) \/ (Flushed(c) /\ ReplyWaits(e))]
    /\ UNCHANGED <<ended, up, alive, permit, accepted, yielded>>
-----------------------------------------------------------------------------
(* The user drops the WebSocketStream, and with it what it had not written *)
(* and what the socket had received: after the end of the Stream, or early.*)
drop(e) ==
    /\ alive[e]
    /\ ended[e] \/ Faulty
    /\ alive' = [alive EXCEPT ![e] = FALSE]
    /\ net' = [net EXCEPT ![e] = <<>>]
    /\ UNCHANGED <<stream, up, permit, history>>

(* The connection is reset; a part of what was on its way still arrives. *)
reset ==
    /\ Faulty
    /\ up
    /\ up' = FALSE
    /\ \E m \in 0..Len(net["Client"]), n \in 0..Len(net["Server"]) :
          net' = [Client |-> SubSeq(net["Client"], 1, m),
                  Server |-> SubSeq(net["Server"], 1, n)]
    /\ UNCHANGED <<stream, alive, permit, history>>

finished == (\A e \in Endpoint : ~alive[e]) /\ UNCHANGED vars

Next ==
    \/ \E e \in Endpoint :
          \/ poll_next(e)
          \/ poll_ready(e)
          \/ \E op \in SendOps : start_send(e, op)
          \/ poll_flush(e)
          \/ poll_close(e)
          \/ drop(e)
    \/ reset
    \/ finished

Spec == Init /\ [][Next]_vars

(***************************************************************************)
(* Fairness: a user goes on reading until the Stream ends and then drops   *)
(* it, and polls a flush it has begun.  A poll that cannot make progress   *)
(* changes nothing, so weak fairness asks for a poll only when there is    *)
(* progress to make, which is when AllowStd delivers a wakeup.             *)
(***************************************************************************)
Fairness ==
    \A e \in Endpoint :
        WF_vars(poll_next(e)) /\ WF_vars(poll_flush(e)) /\ WF_vars(drop(e))

FairSpec == Spec /\ Fairness
-----------------------------------------------------------------------------
Frames == [op : {"Data", "Ping", "Pong", "Close"}, id : Nat]

TypeOK ==
    /\ \A e \in Endpoint :
          /\ inner[e].state \in States
          /\ inner[e].additional \in Frames \cup {NoFrame}
          /\ inner[e].unflushed \in BOOLEAN
          /\ inner[e].out \in Seq(Frames) /\ Len(inner[e].out) <= MaxOut
          /\ net[e] \in Seq(Frames) /\ Len(net[e]) <= Cap
          /\ accepted[e] \in Seq(Frames) /\ yielded[e] \in Seq(Frames)
          /\ told[e] \in [flushed : Nat, closed : BOOLEAN, clean : BOOLEAN, full : BOOLEAN]
    /\ {ready, closing, ended, alive, permit} \subseteq [Endpoint -> BOOLEAN]
    /\ up \in BOOLEAN

IsMessage(f) == f.op \in {"Data", "Ping"}

(* The frames s carry, between control frames, the messages that were      *)
(* taken: nothing else, each one, and, by the numbers an endpoint gives    *)
(* its messages, in their order and once.                                  *)
Carries(s, taken) ==
    /\ \A i \in DOMAIN s : IsMessage(s[i]) => \E k \in DOMAIN taken : s[i] = taken[k]
    /\ \A k \in DOMAIN taken : \E i \in DOMAIN s : s[i] = taken[k]
    /\ \A i, j \in DOMAIN s :
          i < j /\ IsMessage(s[i]) /\ IsMessage(s[j]) => s[i].id < s[j].id

(* What a Stream has returned ends with the peer's Close, if that came. *)
Closed(s) == s # <<>> /\ s[Len(s)].op = "Close"
Messages(s) == IF Closed(s) THEN SubSeq(s, 1, Len(s) - 1) ELSE s

(* Everything of e's that has reached the transport. *)
Written(e) == yielded[Peer(e)] \o net[Peer(e)]

Undisturbed == up /\ \A e \in Endpoint : alive[e]

(* Every message start_send took is, exactly once and in order, received,  *)
(* on its way, or queued, and no other message is: not one that was        *)
(* refused, not one queued again after WouldBlock, and none is lost with a *)
(* poll whose future was dropped.                                          *)
ExactlyOnceInOrder ==
    Undisturbed =>
        \A e \in Endpoint : Carries(Written(e) \o inner[e].out, accepted[e])

(* A flush reported complete has written all that was accepted before it,  *)
(* also when it was reported because the connection was just closed.       *)
FlushIsComplete ==
    Undisturbed =>
        \A e \in Endpoint : \A k \in 1..told[e].flushed :
            \E i \in DOMAIN Written(e) : Written(e)[i] = accepted[e][k]

(* A close reported complete has put a Close frame on the transport,       *)
(* whichever of poll_close, start_send and a reply to the peer queued it.  *)
(* Two closes are excused.  A new Close that finds the write buffer full is *)
(* dropped: the user is told WriteBufferFull, and the next poll_close then  *)
(* reports success.  And a reply that finds it full is kept back, while the *)
(* flush that poll_close reports goes on without it.  A Close that has been *)
(* queued, were it the one to fill the buffer, has to be sent.              *)
CloseIsSent ==
    Undisturbed =>
        \A e \in Endpoint : told[e].closed /\ ~told[e].full =>
            \E i \in DOMAIN Written(e) : Written(e)[i].op = "Close"

(* At most one Close goes in each direction and no message follows it. *)
NothingAfterClose ==
    \A e \in Endpoint :
        LET all == Written(e) \o inner[e].out
        IN  \A i, j \in DOMAIN all : i < j /\ all[i].op = "Close" => all[j].op = "Pong"

(* The messages that wait among the frames s. *)
Waiting(s) == Cardinality({i \in DOMAIN s : IsMessage(s[i])})

(* Backpressure: while the connection lasts, a user that asks poll_ready   *)
(* before each start_send never has more than one message beyond the write *)
(* buffer size waiting.  Once it is reset, each message that fails with Io *)
(* stays queued and poll_ready goes on saying Ok.                          *)
BoundedBacklog ==
    up => \A e \in Endpoint : Waiting(inner[e].out) <= WriteLen + 1

(* What e's Stream returned to its user, the peer's Close aside. *)
delivered == [e \in Endpoint |-> Messages(yielded[e])]

IsFront(got, sent) == Len(got) <= Len(sent) /\ \A i \in 1..Len(got) : got[i] = sent[i]

(* What a Stream has returned is a front part of what the peer's Sink took:*)
(* nothing is left out, doubled, swapped or made up, even when a reset or  *)
(* a drop loses the rest.                                                  *)
ReturnsInOrder == \A e \in Endpoint : IsFront(delivered[e], accepted[Peer(e)])

(* The Stream reports a normal end, None, only after the peer's Close and  *)
(* every message the peer's Sink ever accepted.                            *)
CleanEndIsComplete ==
    \A e \in Endpoint :
        ended[e] /\ told[e].clean =>
            Closed(yielded[e]) /\ Messages(yielded[e]) = accepted[Peer(e)]

(* The Stream and Sink of both endpoints, taken together, are a reliable   *)
(* ordered channel: what poll_next returns is, in order, what start_send   *)
(* took, the Stream ends once, and a normal end says that was all.         *)
Channel == INSTANCE MessageChannel WITH
    Message   <- [op : {"Data", "Ping"}, id : 1..(MaxSend["Client"] + MaxSend["Server"])],
    delivered <- [e \in Endpoint |-> Messages(yielded[e])],
    over      <- [e \in Endpoint |->
                    IF ~ended[e] THEN "open" ELSE IF told[e].clean THEN "clean" ELSE "error"]

ImplementsChannel == Channel!Spec

(* The doc of `ready`: TRUE initially and after flushing. *)
ReadyMeansFlushed ==
    [][\A e \in Endpoint : ~ready[e] /\ ready'[e] => inner'[e].out = <<>>]_vars

(* The comment in poll_close: flush drives the close handshake to          *)
(* completion, so a close reported complete has both Close frames.         *)
CloseIsComplete ==
    Undisturbed =>
        \A e \in Endpoint :
            told[e].closed => inner[e].state \notin {"Active", "ClosedByUs"}

(* Once either side has begun to close, both Streams end. *)
CloseEndsBoth ==
    (\E e \in Endpoint : inner[e].state # "Active") ~> (\A e \in Endpoint : ended[e])

(* However small the transport and however much both sides write, all that *)
(* was accepted arrives, unless the Stream it was meant for ends: again    *)
(* and again nothing is under way.  In particular two endpoints that both  *)
(* owe a reply on a full transport do not wait for each other to read.     *)
AcceptedArrives ==
    []<>(\A e \in Endpoint :
            \/ ended[Peer(e)]
            \/ Len(Messages(yielded[Peer(e)])) = Len(accepted[e]))
=============================================================================
