------------------------------ MODULE ChatServer ------------------------------
(***************************************************************************)
(* examples/server.rs and examples/server-custom-accept.rs: a task for     *)
(* each connection, whose Stream is broadcast to the queues of the others  *)
(* and whose own queue is forwarded to its Sink; the queues are found by   *)
(* socket address in a map behind a mutex.                                 *)
(*                                                                         *)
(* The tasks run on several threads, so that a broadcast, which holds the  *)
(* mutex, interleaves with everything that does not take it.  A task that  *)
(* panics drops its queue; one that panics with the mutex poisons it.      *)
(***************************************************************************)
EXTENDS Integers, Sequences

CONSTANTS
    Conn,     \* connections
    Addr,     \* socket addresses
    NoConn,
    MaxActs,  \* bound: what the users do, altogether
    Kinds,    \* what clients send: "text", "binary" that is no UTF-8
    EarlyReuse \* TRUE when an address may come back before the task of the
               \* connection that had it has noticed that its client is gone

ASSUME ChatAssumption ==
    /\ NoConn \notin Conn /\ NoConn \notin Addr
    /\ MaxActs \in Nat
    /\ Kinds \subseteq {"text", "binary"}
    /\ EarlyReuse \in BOOLEAN

VARIABLES
    task,      \* task[c]: how far handle_connection is
    addr,      \* addr[c]: the address c came from, once accepted
    peer_map,  \* peer_map[a]: the connection whose sender is in the map
    lock,      \* the connection whose task holds the mutex
    poisoned,
    todo,      \* todo[c]: the recipients c's broadcast has not reached
    inbox,     \* inbox[c]: what c's client sent and c's Stream has not read
    queue,     \* queue[c]: what was sent to c's queue and not yet forwarded
    sunk,      \* sunk[c]: what forward has handed to c's Sink
    closing,   \* closing[c]: c's WebSocket has a Close in either direction
    client,    \* client[c]: its state, and whether its user left or sent other than text
    acts       \* what the users have done

server == <<task, addr, peer_map, lock, poisoned, todo, queue, sunk, closing>>
vars == <<server, inbox, client, acts>>

Sent(c, kind, n) == [from |-> addr[c], kind |-> kind, n |-> n]
CloseFrom(c) == Sent(c, "close", 0)
Message == [from : Addr, kind : Kinds \cup {"close"}, n : 0..MaxActs]

Init ==
    /\ task = [c \in Conn |-> "none"]
    /\ addr = [c \in Conn |-> NoConn]
    /\ peer_map = [a \in Addr |-> NoConn]
    /\ lock = NoConn /\ poisoned = FALSE
    /\ todo = [c \in Conn |-> {}]
    /\ inbox = [c \in Conn |-> <<>>]
    /\ queue = [c \in Conn |-> <<>>]
    /\ sunk = [c \in Conn |-> <<>>]
    /\ closing = [c \in Conn |-> FALSE]
    /\ client = [c \in Conn |-> [state |-> "talking", excused |-> FALSE]]
    /\ acts = 0

Become(c, place) == task' = [task EXCEPT ![c] = place]
Ended(c) == task[c] \in {"refused", "done", "panicked"}
HasReceiver(c) == task[c] \in {"serving", "broadcasting", "leaving"}
-----------------------------------------------------------------------------
(* The listener.  An address is free when the connection that had it is    *)
(* over, or, before its task has noticed, when the client that had it is   *)
(* gone.                                                                   *)
accept(c) ==
    /\ task[c] = "none"
    /\ \E a \in Addr :
        /\ \A d \in Conn : addr[d] = a =>
              Ended(d) \/ (EarlyReuse /\ client[d].state = "gone")
        /\ addr' = [addr EXCEPT ![c] = a]
    /\ Become(c, "handshake")
    /\ UNCHANGED <<peer_map, lock, poisoned, todo, queue, sunk, closing, inbox, client, acts>>

(* No handle_connection goes on: the request is no upgrade and is answered *)
(* like any other, or the handshake of accept_async fails.                 *)
Unserved(c) ==
    /\ task[c] = "handshake"
    /\ Become(c, "refused")
    /\ UNCHANGED <<addr, peer_map, lock, poisoned, todo, queue, sunk, closing, inbox, client, acts>>

refuse(c) == Unserved(c)
accept_async_fails(c) == Unserved(c)

(* The handshake is done and a sender goes into the map; the sender of an  *)
(* older connection from the same address is dropped.                      *)
insert(c) ==
    /\ task[c] = "handshake"
    /\ lock = NoConn
    /\ IF poisoned THEN Become(c, "panicked") /\ UNCHANGED peer_map
       ELSE /\ peer_map' = [peer_map EXCEPT ![addr[c]] = c]
            /\ Become(c, "serving")
    /\ UNCHANGED <<addr, lock, poisoned, todo, queue, sunk, closing, inbox, client, acts>>

(* Mutant: an address without an entry is served like the others. *)
recipients_unfiltered(c) == {peer_map[a] : a \in Addr \ {addr[c]}}

recipients(c) == {peer_map[a] : a \in Addr \ {addr[c]}} \ {NoConn}

(* Mutant: the guard is a temporary of the statement that looks the        *)
(* recipients up.                                                          *)
hold_for_lookup(c) == UNCHANGED lock

(* The guard lives until the last recipient was served. *)
hold(c) == lock' = c

(* broadcast_incoming: a message is printed, which takes UTF-8, and then,  *)
(* with the mutex, queued for every other connection.  Close is a message. *)
read_message(c) ==
    /\ task[c] = "serving" /\ inbox[c] # <<>>
    /\ Head(inbox[c]).kind = "binary" \/ lock = NoConn
    /\ IF Head(inbox[c]).kind = "binary" \/ poisoned
       THEN Become(c, "panicked") /\ UNCHANGED <<lock, todo>>
       ELSE /\ hold(c)
            /\ todo' = [todo EXCEPT ![c] = recipients(c)]
            /\ Become(c, "broadcasting")
    /\ closing' = [closing EXCEPT ![c] = @ \/ Head(inbox[c]).kind = "close"]
    /\ UNCHANGED <<addr, peer_map, poisoned, queue, sunk, inbox, client, acts>>

queued(r, m) == Append(queue[r], m)

unbounded_send(c, r) ==
    /\ task[c] = "broadcasting" /\ r \in todo[c]
    /\ IF HasReceiver(r)
       THEN /\ queue' = [queue EXCEPT ![r] = queued(r, Head(inbox[c]))]
            /\ todo' = [todo EXCEPT ![c] = @ \ {r}]
            /\ UNCHANGED <<task, lock, poisoned>>
       ELSE /\ Become(c, "panicked")
            /\ todo' = [todo EXCEPT ![c] = {}]
            /\ lock' = NoConn /\ poisoned' = TRUE
            /\ UNCHANGED queue
    /\ UNCHANGED <<addr, peer_map, sunk, closing, inbox, client, acts>>

broadcast_done(c) ==
    /\ task[c] = "broadcasting" /\ todo[c] = {}
    /\ Become(c, "serving")
    /\ lock' = NoConn
    /\ inbox' = [inbox EXCEPT ![c] = Tail(@)]
    /\ UNCHANGED <<addr, peer_map, poisoned, todo, queue, sunk, closing, client, acts>>

(* receive_from_others: a message goes from the queue to the Sink, which   *)
(* takes nothing after a Close.  A client answers a Close.                 *)
forward(c) ==
    /\ task[c] = "serving" /\ queue[c] # <<>>
    /\ LET m == Head(queue[c])
       IN  /\ queue' = [queue EXCEPT ![c] = Tail(@)]
           /\ sunk' = [sunk EXCEPT ![c] = Append(@, m)]
           /\ IF closing[c]
              THEN Become(c, "leaving") /\ UNCHANGED closing
              ELSE UNCHANGED task /\ closing' = [closing EXCEPT ![c] = m.kind = "close"]
           /\ IF m.kind = "close" /\ ~closing[c] /\ client[c].state = "talking"
              THEN /\ client' = [client EXCEPT ![c].state = "closing"]
                   /\ inbox' = [inbox EXCEPT ![c] = Append(@, CloseFrom(c))]
              ELSE UNCHANGED <<client, inbox>>
    /\ UNCHANGED <<addr, peer_map, lock, poisoned, todo, acts>>

(* The select: the Stream ended, the Sink failed, or the queue lost its    *)
(* sender and is empty.                                                    *)
disconnected(c) ==
    /\ task[c] = "serving"
    /\ \/ client[c].state # "talking" /\ inbox[c] = <<>>
       \/ client[c].state = "gone" /\ queue[c] # <<>>
       \/ peer_map[addr[c]] # c /\ queue[c] = <<>>
    /\ Become(c, "leaving")
    /\ UNCHANGED <<addr, peer_map, lock, poisoned, todo, queue, sunk, closing, inbox, client, acts>>

(* Mutant: the task returns when the connection is over. *)
nothing_removed(c) == UNCHANGED peer_map

(* Mutant: retain, with the test the wrong way round. *)
others_removed(c) ==
    peer_map' = [a \in Addr |-> IF a = addr[c] THEN peer_map[a] ELSE NoConn]

(* The entry under the address, whosever it is by now. *)
removed(c) == peer_map' = [peer_map EXCEPT ![addr[c]] = NoConn]

remove(c) ==
    /\ task[c] = "leaving"
    /\ lock = NoConn
    /\ IF poisoned THEN Become(c, "panicked") /\ UNCHANGED peer_map
       ELSE Become(c, "done") /\ removed(c)
    /\ UNCHANGED <<addr, lock, poisoned, todo, queue, sunk, closing, inbox, client, acts>>
-----------------------------------------------------------------------------
(* The clients: they talk, close, or are gone without a word, and a part   *)
(* of what they sent last with them.                                       *)
UserActs(c) ==
    /\ HasReceiver(c) /\ client[c].state = "talking"
    /\ acts < MaxActs
    /\ acts' = acts + 1
    /\ UNCHANGED server

say(c, kind) ==
    /\ UserActs(c)
    /\ inbox' = [inbox EXCEPT ![c] = Append(@, Sent(c, kind, acts + 1))]
    /\ client' = [client EXCEPT ![c].excused = @ \/ kind = "binary"]

close(c) ==
    /\ UserActs(c)
    /\ client' = [client EXCEPT ![c] = [state |-> "closing", excused |-> TRUE]]
    /\ inbox' = [inbox EXCEPT ![c] = Append(@, CloseFrom(c))]

reset(c) ==
    /\ UserActs(c)
    /\ client' = [client EXCEPT ![c] = [state |-> "gone", excused |-> TRUE]]
    /\ \E n \in (IF task[c] = "broadcasting" THEN 1 ELSE 0)..Len(inbox[c]) :
          inbox' = [inbox EXCEPT ![c] = SubSeq(@, 1, n)]

(* Nobody has anything to do: no task is left waiting for the mutex. *)
quiet ==
    /\ lock = NoConn
    /\ \A c \in Conn : task[c] = "serving" => inbox[c] = <<>> /\ queue[c] = <<>>
    /\ \A c \in Conn : task[c] \in {"none", "serving"} \/ Ended(c)
    /\ UNCHANGED vars

Next ==
    \/ \E c \in Conn :
          \/ accept(c) \/ refuse(c) \/ accept_async_fails(c) \/ insert(c)
          \/ read_message(c) \/ (\E r \in Conn : unbounded_send(c, r)) \/ broadcast_done(c)
          \/ forward(c) \/ disconnected(c) \/ remove(c)
          \/ (\E kind \in Kinds : say(c, kind)) \/ close(c) \/ reset(c)
    \/ quiet

Spec == Init /\ [][Next]_vars
-----------------------------------------------------------------------------
TypeOK ==
    /\ task \in [Conn -> {"none", "handshake", "refused", "serving", "broadcasting",
                          "leaving", "done", "panicked"}]
    /\ addr \in [Conn -> Addr \cup {NoConn}]
    /\ peer_map \in [Addr -> Conn \cup {NoConn}]
    /\ lock \in Conn \cup {NoConn} /\ poisoned \in BOOLEAN
    /\ todo \in [Conn -> SUBSET Conn]
    /\ {inbox, queue, sunk} \subseteq [Conn -> Seq(Message)]
    /\ closing \in [Conn -> BOOLEAN]
    /\ client \in [Conn -> [state : {"talking", "closing", "gone"}, excused : BOOLEAN]]
    /\ acts \in 0..MaxActs

(* With clients that send text only, no unwrap of the server panics: every *)
(* sender in the map has its receiver, so that no broadcast fails while it *)
(* holds the mutex, and the mutex is never poisoned.                       *)
NoBroadcastFails ==
    /\ ~poisoned
    /\ \A a \in Addr : peer_map[a] # NoConn => HasReceiver(peer_map[a])

(* What the client at an address in the room was or is about to be told. *)
Heard(a) ==
    LET c        == peer_map[a]
        speaking == {d \in Conn : c \in todo[d]}
    IN  sunk[c] \o queue[c]
          \o IF speaking = {} THEN <<>> ELSE <<Head(inbox[CHOOSE d \in speaking : TRUE])>>

(* "For all connected clients they'll all join the same room and see       *)
(* everyone else's messages": all hear the same in the same order, from    *)
(* the time their sender is in the map until they close or are gone        *)
(* themselves, whoever speaks at the same time, joins or leaves.           *)
Room == INSTANCE ChatRoom WITH
    Client  <- Addr,
    members <- {a \in Addr : peer_map[a] # NoConn},
    away    <- {a \in Addr : peer_map[a] # NoConn /\ client[peer_map[a]].state # "talking"},
    heard   <- [a \in Addr |-> IF peer_map[a] # NoConn THEN Heard(a) ELSE <<>>]

ImplementsRoom == Room!Spec

(* What is left of it when addresses come back early: whoever is in the    *)
(* room hears the same in the same order, but may be turned out.           *)
KeepsOrder == Room!LooseSpec

(* What this means to two users who compare what they saw: the messages of *)
(* others are the same and in the same order, back to when the later of    *)
(* the two joined, however joins, departures and broadcasts interleave.    *)
MembersHearAlike == Room!HearAlike

(* The same sentence: a client that is served, and has neither closed nor  *)
(* gone, is in the room, where the others' messages find it.               *)
ClientsAreInRoom ==
    \A c \in Conn :
        HasReceiver(c) /\ client[c].state = "talking" => peer_map[addr[c]] = c

(* The same sentence: a client that has sent only text is served, whatever *)
(* the others do; its task does not panic on their account.                *)
TextersAreServed ==
    \A c \in Conn : task[c] = "panicked" => client[c].excused
=============================================================================
