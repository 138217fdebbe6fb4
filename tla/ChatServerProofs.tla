--------------------------- MODULE ChatServerProofs ---------------------------
(***************************************************************************)
(* Proofs about ChatServer, for any connections and addresses: when all    *)
(* that clients send is text, no broadcast fails, and the server is a room.*)
(***************************************************************************)
EXTENDS ChatServer, TLAPS, SequenceTheorems, FiniteSetTheorems

TextOnly == Kinds \subseteq {"text"}

(* The mutex is held by the task that broadcasts, and by no other. *)
Locking ==
    /\ \A c \in Conn : task[c] = "broadcasting" <=> lock = c
    /\ \A c \in Conn : todo[c] # {} => lock = c

(* A sender in the map is the one of the connection from that address,     *)
(* whose receiver is there.  A broadcast goes to senders in the map, and   *)
(* none comes or goes while it does.                                       *)
Mapped ==
    /\ \A c \in Conn : task[c] # "none" => addr[c] \in Addr
    /\ \A a \in Addr : peer_map[a] # NoConn =>
          addr[peer_map[a]] = a /\ HasReceiver(peer_map[a])
    /\ \A c \in Conn : \A r \in todo[c] :
          addr[r] \in Addr /\ peer_map[addr[r]] = r /\ addr[r] # addr[c]

(* Nothing was told to a connection that is not in the room yet.  What a   *)
(* client sent has its address, and is no binary message.                  *)
Queues ==
    /\ \A c \in Conn : task[c] \in {"none", "handshake"} => sunk[c] = <<>> /\ queue[c] = <<>>
    /\ \A c \in Conn : task[c] = "none" => inbox[c] = <<>>
    /\ \A c \in Conn : task[c] = "broadcasting" => inbox[c] # <<>>
    /\ \A c \in Conn : \A i \in 1..Len(inbox[c]) :
          inbox[c][i].from = addr[c] /\ inbox[c][i].kind # "binary"

(* A client talks when its connection is entered into the map. *)
Fresh == \A c \in Conn : task[c] \in {"none", "handshake"} => client[c].state = "talking"

Clients == [state : {"talking", "closing", "gone"}, excused : BOOLEAN]

IInv == TypeOK /\ TextOnly /\ ~poisoned /\ Locking /\ Mapped /\ Queues /\ Fresh
-----------------------------------------------------------------------------
LEMMA HeadProperties ==
    ASSUME NEW s \in Seq(Message), s # <<>>
    PROVE  /\ Head(s) \in Message /\ Head(s) = s[1] /\ 1 \in 1..Len(s)
           /\ Tail(s) \in Seq(Message)
           /\ \A i \in 1..Len(Tail(s)) : i + 1 \in 1..Len(s) /\ Tail(s)[i] = s[i + 1]
  BY HeadTailProperties, EmptySeq

LEMMA AppendOne ==
    ASSUME NEW s \in Seq(Message), NEW m \in Message
    PROVE  /\ Append(s, m) \in Seq(Message) /\ Append(s, m) # <<>>
           /\ \A i \in 1..Len(Append(s, m)) :
                 (i \in 1..Len(s) /\ Append(s, m)[i] = s[i]) \/ Append(s, m)[i] = m
           /\ s # <<>> => Head(Append(s, m)) = Head(s)
  BY AppendProperties, EmptySeq

LEMMA FrontProperties ==
    ASSUME NEW s \in Seq(Message), NEW n \in 0..Len(s)
    PROVE  /\ SubSeq(s, 1, n) \in Seq(Message) /\ Len(SubSeq(s, 1, n)) = n
           /\ \A i \in 1..Len(SubSeq(s, 1, n)) : i \in 1..Len(s) /\ SubSeq(s, 1, n)[i] = s[i]
           /\ n # 0 => SubSeq(s, 1, n) # <<>> /\ Head(SubSeq(s, 1, n)) = Head(s)
<1>1. /\ SubSeq(s, 1, n) \in Seq(Message) /\ Len(SubSeq(s, 1, n)) = n
      /\ \A i \in 1..n : SubSeq(s, 1, n)[i] = s[i] /\ i \in 1..Len(s)
  BY LenProperties, SubSeqProperties
<1>2. QED
  BY <1>1, EmptySeq, HeadTailProperties, LenProperties

LEMMA AppendJoins ==
    ASSUME NEW s \in Seq(Message), NEW q \in Seq(Message), NEW m \in Message
    PROVE  (s \o Append(q, m)) \o <<>> = (s \o q) \o <<m>>
  OBVIOUS

LEMMA HeadMoves ==
    ASSUME NEW s \in Seq(Message), NEW q \in Seq(Message), q # <<>>
    PROVE  Append(s, Head(q)) \o Tail(q) = s \o q
  OBVIOUS

LEMMA SaidLast ==
    ASSUME NEW s \in Seq(Message), NEW q \in Seq(Message), NEW m \in Message
    PROVE  (s \o q) \o <<m>> = Append((s \o q) \o <<>>, m)
  OBVIOUS

LEMMA SentType ==
    ASSUME IInv, NEW c \in Conn, HasReceiver(c)
    PROVE  /\ CloseFrom(c) \in Message /\ CloseFrom(c).from = addr[c]
           /\ CloseFrom(c).kind # "binary"
           /\ \A kind \in Kinds, n \in 1..MaxActs :
                 /\ Sent(c, kind, n) \in Message /\ Sent(c, kind, n).from = addr[c]
                 /\ Sent(c, kind, n).kind # "binary"
<1>1. addr[c] \in Addr
  BY DEF IInv, Mapped, HasReceiver
<1>2. 0 \in 0..MaxActs /\ \A n \in 1..MaxActs : n \in 0..MaxActs
  BY ChatAssumption
<1>3. QED
  BY <1>1, <1>2 DEF IInv, TextOnly, CloseFrom, Sent, Message

LEMMA AcceptStep == ASSUME IInv, NEW c \in Conn, accept(c) PROVE IInv'
<1>1. PICK a \in Addr : addr' = [addr EXCEPT ![c] = a]
  BY DEF accept
<1>2. /\ task[c] = "none" /\ task' = [task EXCEPT ![c] = "handshake"]
      /\ UNCHANGED <<peer_map, lock, poisoned, todo, queue, sunk, closing, inbox, client, acts>>
  BY DEF accept, Become
<1>3. TypeOK'
  BY <1>1, <1>2 DEF IInv, TypeOK
<1>4. Locking'
  BY <1>2 DEF IInv, TypeOK, Locking
<1>5. Mapped'
  <2>1. \A a2 \in Addr : peer_map[a2] # c
    BY <1>2, ChatAssumption DEF IInv, Mapped, HasReceiver
  <2>2. \A d \in Conn : c \notin todo[d]
    BY <2>1, <1>2 DEF IInv, Mapped
  <2>3. todo[c] = {}
    BY <1>2 DEF IInv, Locking
  <2>4. QED
    BY <1>1, <1>2, <2>1, <2>2, <2>3 DEF IInv, TypeOK, Mapped, HasReceiver
<1>6. Queues'
  BY <1>1, <1>2 DEF IInv, TypeOK, Queues
<1>7. Fresh'
  BY <1>2 DEF IInv, TypeOK, Fresh
<1>8. QED
  BY <1>2, <1>3, <1>4, <1>5, <1>6, <1>7 DEF IInv, TextOnly

(* A task that goes on while the rest stays. *)
LEMMA BecomeStep ==
    ASSUME IInv, NEW c \in Conn, NEW place \in {"refused", "leaving"}, Become(c, place),
           task[c] = "handshake" \/ (task[c] = "serving" /\ place = "leaving"),
           UNCHANGED <<addr, peer_map, lock, poisoned, todo, queue, sunk, closing, inbox,
                       client, acts>>
    PROVE  IInv'
<1>1. task' = [task EXCEPT ![c] = place]
  BY DEF Become
<1>2. TypeOK' /\ Locking'
  BY <1>1 DEF IInv, TypeOK, Locking
<1>3. Mapped'
  BY <1>1 DEF IInv, TypeOK, Mapped, HasReceiver
<1>4. Queues' /\ Fresh'
  BY <1>1 DEF IInv, TypeOK, Queues, Fresh
<1>5. QED
  BY <1>2, <1>3, <1>4 DEF IInv, TextOnly

LEMMA InsertStep == ASSUME IInv, NEW c \in Conn, insert(c) PROVE IInv'
<1>1. /\ task[c] = "handshake" /\ lock = NoConn
      /\ task' = [task EXCEPT ![c] = "serving"]
      /\ peer_map' = [peer_map EXCEPT ![addr[c]] = c]
      /\ UNCHANGED <<addr, lock, poisoned, todo, queue, sunk, closing, inbox, client, acts>>
  BY DEF insert, Become, IInv
<1>2. TypeOK'
  BY <1>1 DEF IInv, TypeOK
<1>3. Locking'
  BY <1>1 DEF IInv, TypeOK, Locking
<1>4. Mapped'
  <2>1. \A d \in Conn : todo[d] = {}
    BY <1>1, ChatAssumption DEF IInv, Locking
  <2>2. QED
    BY <1>1, <2>1 DEF IInv, TypeOK, Mapped, HasReceiver
<1>5. Queues' /\ Fresh'
  BY <1>1 DEF IInv, TypeOK, Queues, Fresh
<1>6. QED
  BY <1>1, <1>2, <1>3, <1>4, <1>5 DEF IInv, TextOnly

LEMMA RemoveStep == ASSUME IInv, NEW c \in Conn, remove(c) PROVE IInv'
<1>1. /\ task[c] = "leaving" /\ lock = NoConn
      /\ task' = [task EXCEPT ![c] = "done"]
      /\ peer_map' = [peer_map EXCEPT ![addr[c]] = NoConn]
      /\ UNCHANGED <<addr, lock, poisoned, todo, queue, sunk, closing, inbox, client, acts>>
  BY DEF remove, removed, Become, IInv
<1>2. TypeOK'
  BY <1>1 DEF IInv, TypeOK
<1>3. Locking'
  BY <1>1 DEF IInv, TypeOK, Locking
<1>4. Mapped'
  <2>1. \A d \in Conn : todo[d] = {}
    BY <1>1, ChatAssumption DEF IInv, Locking
  <2>2. \A a \in Addr : peer_map[a] = c => a = addr[c]
    BY ChatAssumption DEF IInv, Mapped
  <2>3. QED
    BY <1>1, <2>1, <2>2 DEF IInv, TypeOK, Mapped, HasReceiver
<1>5. Queues' /\ Fresh'
  BY <1>1 DEF IInv, TypeOK, Queues, Fresh
<1>6. QED
  BY <1>1, <1>2, <1>3, <1>4, <1>5 DEF IInv, TextOnly

(* What a read of a message does, when no message is binary. *)
LEMMA ReadMessage ==
    ASSUME IInv, NEW c \in Conn, read_message(c)
    PROVE  /\ task[c] = "serving" /\ inbox[c] # <<>> /\ lock = NoConn
           /\ Head(inbox[c]) \in Message /\ Head(inbox[c]).from = addr[c]
           /\ lock' = c /\ todo' = [todo EXCEPT ![c] = recipients(c)]
           /\ task' = [task EXCEPT ![c] = "broadcasting"]
           /\ closing' \in [Conn -> BOOLEAN]
           /\ UNCHANGED <<addr, peer_map, poisoned, queue, sunk, inbox, client, acts>>
<1>1. task[c] = "serving" /\ inbox[c] # <<>> /\ inbox[c] \in Seq(Message)
  BY DEF read_message, IInv, TypeOK
<1>2. /\ Head(inbox[c]) \in Message
      /\ Head(inbox[c]).from = addr[c] /\ Head(inbox[c]).kind # "binary"
  BY <1>1, HeadProperties DEF IInv, Queues
<1>3. closing' \in [Conn -> BOOLEAN]
  BY DEF read_message, IInv, TypeOK
<1>4. QED
  BY <1>1, <1>2, <1>3 DEF read_message, hold, Become, IInv

LEMMA ReadMessageStep == ASSUME IInv, NEW c \in Conn, read_message(c) PROVE IInv'
<1>1. /\ task[c] = "serving" /\ inbox[c] # <<>> /\ lock = NoConn
      /\ lock' = c /\ todo' = [todo EXCEPT ![c] = recipients(c)]
      /\ task' = [task EXCEPT ![c] = "broadcasting"]
      /\ closing' \in [Conn -> BOOLEAN]
      /\ UNCHANGED <<addr, peer_map, poisoned, queue, sunk, inbox, client, acts>>
  BY ReadMessage
<1>2. \A d \in Conn : todo[d] = {}
  BY <1>1, ChatAssumption DEF IInv, Locking
<1>3. \A r \in recipients(c) : r \in Conn /\ addr[r] \in Addr \ {addr[c]} /\ peer_map[addr[r]] = r
  BY DEF recipients, IInv, TypeOK, Mapped
<1>4. TypeOK'
  BY <1>1, <1>3 DEF IInv, TypeOK
<1>5. Locking'
  BY <1>1, <1>2, ChatAssumption DEF IInv, TypeOK, Locking
<1>6. Mapped'
  BY <1>1, <1>2, <1>3 DEF IInv, TypeOK, Mapped, HasReceiver
<1>7. Queues' /\ Fresh'
  BY <1>1 DEF IInv, TypeOK, Queues, Fresh
<1>8. QED
  BY <1>1, <1>4, <1>5, <1>6, <1>7 DEF IInv, TextOnly

(* The recipient has its receiver. *)
LEMMA UnboundedSend ==
    ASSUME IInv, NEW c \in Conn, NEW r \in Conn, unbounded_send(c, r)
    PROVE  /\ task[c] = "broadcasting" /\ r \in todo[c] /\ HasReceiver(r)
           /\ lock = c /\ peer_map[addr[r]] = r /\ addr[r] \in Addr
           /\ inbox[c] # <<>> /\ Head(inbox[c]) \in Message
           /\ queue' = [queue EXCEPT ![r] = Append(@, Head(inbox[c]))]
           /\ todo' = [todo EXCEPT ![c] = @ \ {r}]
           /\ UNCHANGED <<task, lock, poisoned, addr, peer_map, sunk, closing, inbox, client, acts>>
<1>1. task[c] = "broadcasting" /\ r \in todo[c] /\ lock = c /\ inbox[c] # <<>>
  BY DEF unbounded_send, IInv, Locking, Queues
<1>2. addr[r] \in Addr /\ peer_map[addr[r]] = r /\ HasReceiver(r)
  BY <1>1, ChatAssumption DEF IInv, Mapped
<1>3. Head(inbox[c]) \in Message
  BY <1>1, HeadProperties DEF IInv, TypeOK
<1>4. QED
  BY <1>1, <1>2, <1>3 DEF unbounded_send, queued

LEMMA UnboundedSendStep ==
    ASSUME IInv, NEW c \in Conn, NEW r \in Conn, unbounded_send(c, r) PROVE IInv'
<1>1. /\ task[c] = "broadcasting" /\ HasReceiver(r) /\ lock = c
      /\ Head(inbox[c]) \in Message
      /\ queue' = [queue EXCEPT ![r] = Append(@, Head(inbox[c]))]
      /\ todo' = [todo EXCEPT ![c] = @ \ {r}]
      /\ UNCHANGED <<task, lock, poisoned, addr, peer_map, sunk, closing, inbox, client, acts>>
  BY UnboundedSend
<1>2. Append(queue[r], Head(inbox[c])) \in Seq(Message)
  BY <1>1, AppendOne DEF IInv, TypeOK
<1>3. TypeOK'
  BY <1>1, <1>2 DEF IInv, TypeOK
<1>4. Locking' /\ Mapped'
  <2>1. todo' \in [Conn -> SUBSET Conn] /\ \A d \in Conn : todo'[d] \subseteq todo[d]
    BY <1>1 DEF IInv, TypeOK
  <2>2. Locking'
    BY <1>1, <2>1 DEF IInv, Locking
  <2>3. Mapped'
    BY <1>1, <2>1 DEF IInv, Mapped, HasReceiver
  <2>4. QED
    BY <2>2, <2>3
<1>5. Queues' /\ Fresh'
  BY <1>1 DEF IInv, TypeOK, Queues, Fresh, HasReceiver
<1>6. QED
  BY <1>1, <1>3, <1>4, <1>5 DEF IInv, TextOnly

LEMMA BroadcastDoneStep == ASSUME IInv, NEW c \in Conn, broadcast_done(c) PROVE IInv'
<1>1. /\ task[c] = "broadcasting" /\ todo[c] = {}
      /\ task' = [task EXCEPT ![c] = "serving"] /\ lock' = NoConn
      /\ inbox' = [inbox EXCEPT ![c] = Tail(@)]
      /\ UNCHANGED <<addr, peer_map, poisoned, todo, queue, sunk, closing, client, acts>>
  BY DEF broadcast_done, Become
<1>2. lock = c /\ inbox[c] # <<>> /\ inbox[c] \in Seq(Message)
  BY <1>1 DEF IInv, TypeOK, Locking, Queues
<1>3. /\ Tail(inbox[c]) \in Seq(Message)
      /\ \A i \in 1..Len(Tail(inbox[c])) :
            Tail(inbox[c])[i].from = addr[c] /\ Tail(inbox[c])[i].kind # "binary"
  BY <1>2, HeadProperties DEF IInv, Queues
<1>4. TypeOK'
  BY <1>1, <1>3 DEF IInv, TypeOK
<1>5. Locking' /\ Mapped'
  <2>1. /\ task[c] = "broadcasting" /\ todo[c] = {} /\ lock = c
        /\ task' = [task EXCEPT ![c] = "serving"] /\ lock' = NoConn
        /\ UNCHANGED <<addr, peer_map, todo>>
    BY <1>1, <1>2
  <2>2. Locking'
    BY <2>1, ChatAssumption DEF IInv, TypeOK, Locking
  <2>3. Mapped'
    BY <2>1 DEF IInv, TypeOK, Mapped, HasReceiver
  <2>4. QED
    BY <2>2, <2>3
<1>6. Queues' /\ Fresh'
  BY <1>1, <1>3 DEF IInv, TypeOK, Queues, Fresh
<1>7. QED
  BY <1>1, <1>4, <1>5, <1>6 DEF IInv, TextOnly

(* What a client adds to its inbox. *)
LEMMA InboxStep ==
    ASSUME IInv, NEW c \in Conn, HasReceiver(c), NEW m \in Message,
           m.from = addr[c], m.kind # "binary",
           inbox' = [inbox EXCEPT ![c] = Append(@, m)],
           UNCHANGED <<addr, task>>
    PROVE  /\ inbox' \in [Conn -> Seq(Message)]
           /\ \A d \in Conn : inbox[d] # <<>> => inbox'[d] # <<>> /\ Head(inbox'[d]) = Head(inbox[d])
           /\ \A d \in Conn : task[d] = "none" => inbox'[d] = <<>>
           /\ \A d \in Conn : \A i \in 1..Len(inbox'[d]) :
                 inbox'[d][i].from = addr[d] /\ inbox'[d][i].kind # "binary"
<1>1. inbox[c] \in Seq(Message)
  BY DEF IInv, TypeOK
<1>2. /\ Append(inbox[c], m) \in Seq(Message) /\ Append(inbox[c], m) # <<>>
      /\ \A i \in 1..Len(Append(inbox[c], m)) :
            \/ i \in 1..Len(inbox[c]) /\ Append(inbox[c], m)[i] = inbox[c][i]
            \/ Append(inbox[c], m)[i] = m
      /\ inbox[c] # <<>> => Head(Append(inbox[c], m)) = Head(inbox[c])
  BY <1>1, AppendOne
<1>3. inbox'[c] = Append(inbox[c], m) /\ \A d \in Conn \ {c} : inbox'[d] = inbox[d]
  BY DEF IInv, TypeOK
<1>4. inbox' \in [Conn -> Seq(Message)]
  BY <1>2 DEF IInv, TypeOK
<1>5. ASSUME NEW i \in 1..Len(inbox'[c])
      PROVE  inbox'[c][i].from = addr[c] /\ inbox'[c][i].kind # "binary"
  BY <1>2, <1>3 DEF IInv, Queues
<1>6. QED
  BY <1>2, <1>3, <1>4, <1>5 DEF IInv, Queues, HasReceiver

LEMMA ForwardStep == ASSUME IInv, NEW c \in Conn, forward(c) PROVE IInv'
<1> DEFINE m == Head(queue[c])
<1>1. /\ task[c] = "serving" /\ queue[c] # <<>>
      /\ queue' = [queue EXCEPT ![c] = Tail(@)]
      /\ sunk' = [sunk EXCEPT ![c] = Append(@, m)]
      /\ UNCHANGED <<addr, peer_map, lock, poisoned, todo, acts>>
      /\ UNCHANGED task \/ (task' = [task EXCEPT ![c] = "leaving"] /\ closing[c])
      /\ closing' \in [Conn -> BOOLEAN]
      /\ client' \in [Conn -> [state : {"talking", "closing", "gone"}, excused : BOOLEAN]]
      /\ \/ UNCHANGED inbox
         \/ UNCHANGED task /\ inbox' = [inbox EXCEPT ![c] = Append(@, CloseFrom(c))]
  <2>1. /\ task[c] = "serving" /\ queue[c] # <<>>
        /\ queue' = [queue EXCEPT ![c] = Tail(@)]
        /\ sunk' = [sunk EXCEPT ![c] = Append(@, m)]
        /\ UNCHANGED <<addr, peer_map, lock, poisoned, todo, acts>>
    BY DEF forward
  <2>2. /\ UNCHANGED task \/ (task' = [task EXCEPT ![c] = "leaving"] /\ closing[c])
        /\ closing' \in [Conn -> BOOLEAN]
    BY DEF forward, Become, IInv, TypeOK
  <2>3. client' \in [Conn -> [state : {"talking", "closing", "gone"}, excused : BOOLEAN]]
    <3>1. client' = client \/ client' = [client EXCEPT ![c].state = "closing"]
      BY DEF forward
    <3>2. client \in [Conn -> Clients] /\ [client[c] EXCEPT !.state = "closing"] \in Clients
      BY DEF IInv, TypeOK, Clients
    <3>3. client' \in [Conn -> Clients]
      BY <3>1, <3>2
    <3>4. QED
      BY <3>3 DEF Clients
  <2>4. \/ UNCHANGED inbox
        \/ UNCHANGED task /\ inbox' = [inbox EXCEPT ![c] = Append(@, CloseFrom(c))]
    BY DEF forward
  <2>5. QED
    BY <2>1, <2>2, <2>3, <2>4
<1>2. m \in Message /\ Tail(queue[c]) \in Seq(Message) /\ Append(sunk[c], m) \in Seq(Message)
  BY <1>1, HeadProperties, AppendOne DEF IInv, TypeOK
<1> HIDE DEF m
<1>3. HasReceiver(c)
  BY <1>1 DEF HasReceiver
<1>4. /\ inbox' \in [Conn -> Seq(Message)]
      /\ \A d \in Conn : inbox[d] # <<>> => inbox'[d] # <<>>
      /\ \A d \in Conn : task[d] = "none" => inbox'[d] = <<>>
      /\ \A d \in Conn : \A i \in 1..Len(inbox'[d]) :
            inbox'[d][i].from = addr[d] /\ inbox'[d][i].kind # "binary"
  <2>1. CASE UNCHANGED inbox
    BY <2>1 DEF IInv, TypeOK, Queues
  <2>2. CASE UNCHANGED task /\ inbox' = [inbox EXCEPT ![c] = Append(@, CloseFrom(c))]
    BY ZenonT(60), <1>1, <1>3, <2>2, SentType, InboxStep
  <2>3. QED
    BY <1>1, <2>1, <2>2
<1>5. TypeOK'
  <2>1. queue' \in [Conn -> Seq(Message)] /\ sunk' \in [Conn -> Seq(Message)]
    BY <1>1, <1>2 DEF IInv, TypeOK
  <2>2. QED
    BY <1>1, <1>4, <2>1 DEF IInv, TypeOK
<1>6. Locking' /\ Mapped'
  <2>1. \A d \in Conn :
          /\ task'[d] = "broadcasting" <=> task[d] = "broadcasting"
          /\ task'[d] = "none" <=> task[d] = "none"
          /\ task[d] \in {"serving", "broadcasting", "leaving"} =>
                task'[d] \in {"serving", "broadcasting", "leaving"}
    BY <1>1 DEF IInv, TypeOK
  <2>2. UNCHANGED <<addr, peer_map, lock, todo>>
    BY <1>1
  <2>3. Locking'
    BY <2>1, <2>2 DEF IInv, Locking
  <2>4. Mapped'
    BY <2>1, <2>2 DEF IInv, TypeOK, Mapped, HasReceiver
  <2>5. QED
    BY <2>3, <2>4
<1>7. Queues' /\ Fresh'
  <2>1. \A d \in Conn \ {c} : client'[d] = client[d]
    BY DEF forward, IInv, TypeOK
  <2>2. Queues'
    BY <1>1, <1>4 DEF IInv, TypeOK, Queues
  <2>3. \A d \in Conn : task'[d] \in {"none", "handshake"} => d # c /\ task'[d] = task[d]
    BY <1>1 DEF IInv, TypeOK
  <2>4. Fresh'
    BY <2>1, <2>3 DEF IInv, Fresh
  <2>5. QED
    BY <2>2, <2>4
<1>8. QED
  BY <1>1, <1>5, <1>6, <1>7 DEF IInv, TextOnly

LEMMA UserStep ==
    ASSUME IInv, NEW c \in Conn, (\E kind \in Kinds : say(c, kind)) \/ close(c) \/ reset(c)
    PROVE  /\ IInv' /\ UNCHANGED server
           /\ \A d \in Conn : task[d] = "broadcasting" => Head(inbox'[d]) = Head(inbox[d])
           /\ \A d \in Conn : client'[d].state = client[d].state
                               \/ (d = c /\ client'[d].state # "talking")
<1>1. /\ HasReceiver(c) /\ acts < MaxActs /\ acts' = acts + 1
      /\ UNCHANGED <<task, addr, peer_map, lock, poisoned, todo, queue, sunk, closing>>
  BY DEF say, close, reset, UserActs, server
<1>2. client' \in [Conn -> [state : {"talking", "closing", "gone"}, excused : BOOLEAN]]
  <2>1. client \in [Conn -> Clients] /\ client[c] \in Clients
    BY DEF IInv, TypeOK, Clients
  <2>2. ASSUME NEW kind \in Kinds, say(c, kind) PROVE client' \in [Conn -> Clients]
    <3>1. [client[c] EXCEPT !.excused = client[c].excused \/ kind = "binary"] \in Clients
      BY <2>1 DEF Clients
    <3>2. QED
      BY <2>1, <2>2, <3>1 DEF say
  <2>3. ASSUME close(c) \/ reset(c) PROVE client' \in [Conn -> Clients]
    <3>1. \A x \in {"closing", "gone"} : [state |-> x, excused |-> TRUE] \in Clients
      BY DEF Clients
    <3>2. QED
      BY <2>1, <2>3, <3>1 DEF close, reset
  <2>4. client' \in [Conn -> Clients]
    BY <2>2, <2>3
  <2>5. QED
    BY <2>4 DEF Clients
<1>3. acts + 1 \in 1..MaxActs /\ acts' \in 0..MaxActs
  BY <1>1, ChatAssumption DEF IInv, TypeOK
<1>4. \/ \E n \in 0..Len(inbox[c]) :
            /\ task[c] = "broadcasting" => n # 0
            /\ inbox' = [inbox EXCEPT ![c] = SubSeq(@, 1, n)]
      \/ \E m \in Message : /\ m.from = addr[c] /\ m.kind # "binary"
                            /\ inbox' = [inbox EXCEPT ![c] = Append(@, m)]
  <2>1. CASE (\E kind \in Kinds : say(c, kind)) \/ close(c)
    BY <1>1, <1>3, <2>1, SentType DEF say, close
  <2>2. CASE reset(c)
    <3>1. inbox[c] \in Seq(Message) /\ Len(inbox[c]) \in Nat
      BY LenProperties DEF IInv, TypeOK
    <3>2. PICK n \in (IF task[c] = "broadcasting" THEN 1 ELSE 0)..Len(inbox[c]) :
            inbox' = [inbox EXCEPT ![c] = SubSeq(@, 1, n)]
      BY <2>2 DEF reset
    <3>3. n \in 0..Len(inbox[c]) /\ (task[c] = "broadcasting" => n # 0)
      BY <3>1
    <3>4. QED
      BY <3>2, <3>3
  <2>3. QED
    BY <2>1, <2>2
<1>5. /\ inbox' \in [Conn -> Seq(Message)]
      /\ \A d \in Conn : task[d] = "broadcasting" =>
            inbox'[d] # <<>> /\ Head(inbox'[d]) = Head(inbox[d])
      /\ \A d \in Conn : task[d] = "none" => inbox'[d] = <<>>
      /\ \A d \in Conn : \A i \in 1..Len(inbox'[d]) :
            inbox'[d][i].from = addr[d] /\ inbox'[d][i].kind # "binary"
  <2>1. ASSUME NEW n \in 0..Len(inbox[c]), task[c] = "broadcasting" => n # 0,
               inbox' = [inbox EXCEPT ![c] = SubSeq(@, 1, n)]
        PROVE  /\ inbox' \in [Conn -> Seq(Message)]
               /\ \A d \in Conn : task[d] = "broadcasting" =>
                     inbox'[d] # <<>> /\ Head(inbox'[d]) = Head(inbox[d])
               /\ \A d \in Conn : task[d] = "none" => inbox'[d] = <<>>
               /\ \A d \in Conn : \A i \in 1..Len(inbox'[d]) :
                     inbox'[d][i].from = addr[d] /\ inbox'[d][i].kind # "binary"
    <3>1. inbox \in [Conn -> Seq(Message)] /\ inbox[c] \in Seq(Message)
      BY DEF IInv, TypeOK
    <3>2. /\ SubSeq(inbox[c], 1, n) \in Seq(Message)
          /\ \A i \in 1..Len(SubSeq(inbox[c], 1, n)) :
                i \in 1..Len(inbox[c]) /\ SubSeq(inbox[c], 1, n)[i] = inbox[c][i]
          /\ n # 0 => /\ SubSeq(inbox[c], 1, n) # <<>>
                      /\ Head(SubSeq(inbox[c], 1, n)) = Head(inbox[c])
      BY <3>1, FrontProperties
    <3>3. inbox'[c] = SubSeq(inbox[c], 1, n) /\ \A d \in Conn \ {c} : inbox'[d] = inbox[d]
      BY <2>1, <3>1
    <3>4. inbox' \in [Conn -> Seq(Message)]
      BY <2>1, <3>1, <3>2
    <3>5. ASSUME NEW d \in Conn, task[d] = "broadcasting"
          PROVE  inbox'[d] # <<>> /\ Head(inbox'[d]) = Head(inbox[d])
      BY <2>1, <3>2, <3>3, <3>5 DEF IInv, Queues
    <3>6. ASSUME NEW d \in Conn, NEW i \in 1..Len(inbox'[d])
          PROVE  inbox'[d][i].from = addr[d] /\ inbox'[d][i].kind # "binary"
      <4>1. CASE d = c
        <5>1. i \in 1..Len(SubSeq(inbox[c], 1, n)) /\ inbox'[d][i] = SubSeq(inbox[c], 1, n)[i]
          BY <3>3, <3>6, <4>1
        <5>2. i \in 1..Len(inbox[c]) /\ inbox'[d][i] = inbox[c][i]
          BY <3>2, <5>1
        <5>3. QED
          BY <4>1, <5>2 DEF IInv, Queues
      <4>2. CASE d # c
        BY <3>3, <3>6, <4>2 DEF IInv, Queues
      <4>3. QED
        BY <4>1, <4>2
    <3>7. task[c] # "none"
      BY <1>1 DEF HasReceiver
    <3>8. QED
      BY <3>3, <3>4, <3>5, <3>6, <3>7 DEF IInv, Queues
  <2>2. CASE \E m \in Message : /\ m.from = addr[c] /\ m.kind # "binary"
                                /\ inbox' = [inbox EXCEPT ![c] = Append(@, m)]
    BY <1>1, <2>2, InboxStep DEF IInv, Queues
  <2>3. QED
    BY <1>4, <2>1, <2>2
<1>6. TypeOK'
  BY <1>1, <1>2, <1>3, <1>5 DEF IInv, TypeOK
<1>7. Locking' /\ Mapped'
  BY <1>1 DEF IInv, Locking, Mapped, HasReceiver
<1>8. Queues'
  BY <1>1, <1>5 DEF IInv, Queues
<1>9. \A d \in Conn : client'[d].state = client[d].state
                       \/ (d = c /\ client'[d].state # "talking")
  BY DEF say, close, reset, IInv, TypeOK
<1>10. Fresh'
  BY <1>1, <1>9 DEF IInv, Fresh, HasReceiver
<1>11. QED
  BY <1>1, <1>5, <1>6, <1>7, <1>8, <1>9, <1>10 DEF IInv, TextOnly, server
-----------------------------------------------------------------------------
LEMMA Invariance == TextOnly /\ Spec => []IInv
<1>1. TextOnly /\ Init => IInv
  <2>1. <<>> \in Seq(Message)
    OBVIOUS
  <2>2. ASSUME TextOnly, Init PROVE IInv
    <3>1. TypeOK
      <4>1. 0 \in 0..MaxActs
        BY ChatAssumption
      <4>2. /\ inbox \in [Conn -> Seq(Message)] /\ queue \in [Conn -> Seq(Message)]
            /\ sunk \in [Conn -> Seq(Message)]
        BY <2>1, <2>2 DEF Init
      <4>3. /\ client \in [Conn -> [state : {"talking", "closing", "gone"}, excused : BOOLEAN]]
            /\ todo \in [Conn -> SUBSET Conn]
        BY <2>2 DEF Init
      <4>4. QED
        BY <2>2, <4>1, <4>2, <4>3 DEF Init, TypeOK
    <3>2. Locking /\ Mapped /\ Queues /\ Fresh
      BY <2>2, ChatAssumption DEF Init, Locking, Mapped, Queues, Fresh
    <3>3. QED
      BY <2>2, <3>1, <3>2 DEF Init, IInv
  <2>3. QED
    BY <2>2
<1>2. IInv /\ [Next]_vars => IInv'
  <2> SUFFICES ASSUME IInv, [Next]_vars PROVE IInv'
    OBVIOUS
  <2>1. CASE UNCHANGED vars
    BY <2>1 DEF vars, server, IInv, TypeOK, TextOnly, Locking, Mapped, Queues, Fresh, HasReceiver
  <2>2. CASE quiet
    BY <2>1, <2>2 DEF quiet
  <2>3. ASSUME NEW c \in Conn, refuse(c) \/ accept_async_fails(c) \/ disconnected(c)
        PROVE  IInv'
    <3>1. CASE refuse(c) \/ accept_async_fails(c)
      <4>1. /\ task[c] = "handshake" /\ Become(c, "refused")
            /\ UNCHANGED <<addr, peer_map, lock, poisoned, todo, queue, sunk, closing, inbox,
                           client, acts>>
        BY <3>1 DEF refuse, accept_async_fails, Unserved
      <4>2. QED
        BY <4>1, BecomeStep
    <3>2. CASE disconnected(c)
      <4>1. /\ task[c] = "serving" /\ Become(c, "leaving")
            /\ UNCHANGED <<addr, peer_map, lock, poisoned, todo, queue, sunk, closing, inbox,
                           client, acts>>
        BY <3>2 DEF disconnected
      <4>2. QED
        BY <4>1, BecomeStep
    <3>3. QED
      BY <2>3, <3>1, <3>2
  <2>4. ASSUME NEW c \in Conn, accept(c) \/ insert(c) \/ remove(c) \/ read_message(c)
                                \/ broadcast_done(c) \/ forward(c)
        PROVE  IInv'
    BY <2>4, AcceptStep, InsertStep, RemoveStep, ReadMessageStep, BroadcastDoneStep, ForwardStep
  <2>5. ASSUME NEW c \in Conn, NEW r \in Conn, unbounded_send(c, r) PROVE IInv'
    BY <2>5, UnboundedSendStep
  <2>6. ASSUME NEW c \in Conn, (\E kind \in Kinds : say(c, kind)) \/ close(c) \/ reset(c)
        PROVE  IInv'
    BY <2>6, UserStep
  <2>7. ASSUME NEW c \in Conn,
               \/ accept(c) \/ refuse(c) \/ accept_async_fails(c) \/ insert(c)
               \/ read_message(c) \/ (\E r \in Conn : unbounded_send(c, r)) \/ broadcast_done(c)
               \/ forward(c) \/ disconnected(c) \/ remove(c)
               \/ (\E kind \in Kinds : say(c, kind)) \/ close(c) \/ reset(c)
        PROVE  IInv'
    BY <2>3, <2>4, <2>5, <2>6, <2>7
  <2> HIDE DEF IInv
  <2>8. QED
    BY <2>1, <2>2, <2>7 DEF Next
<1>3. QED
  BY <1>1, <1>2, PTL DEF Spec

(* Every reachable state of a server among such clients is well typed.     *)
THEOREM TypeCorrect == TextOnly /\ Spec => []TypeOK
<1>1. IInv => TypeOK
  BY DEF IInv
<1>2. QED
  BY <1>1, Invariance, PTL

(* The unwraps of examples/server.rs never fail among clients that send    *)
(* text: no broadcast meets a sender without its receiver, and the mutex   *)
(* is not poisoned, whoever comes and goes in whatever order.              *)
THEOREM NoUnwrapFails == TextOnly /\ Spec => []NoBroadcastFails
<1>1. IInv => NoBroadcastFails
  BY DEF IInv, Mapped, NoBroadcastFails
<1>2. QED
  BY <1>1, Invariance, PTL
-----------------------------------------------------------------------------
(* The refinement.  The one who speaks holds the mutex; what is being      *)
(* broadcast is heard by those it has not reached from the moment it was   *)
(* read.                                                                   *)
Members == {a \in Addr : peer_map[a] # NoConn}
Away == {a \in Addr : peer_map[a] # NoConn /\ client[peer_map[a]].state # "talking"}
Hearing == [a \in Addr |-> IF peer_map[a] # NoConn THEN Heard(a) ELSE <<>>]
Saying(a) == IF lock # NoConn /\ peer_map[a] \in todo[lock] THEN <<Head(inbox[lock])>> ELSE <<>>

(* Heard, without its choice of the one who speaks. *)
AllHeard ==
    \A a \in Addr : peer_map[a] # NoConn =>
        /\ Heard(a) = (sunk[peer_map[a]] \o queue[peer_map[a]]) \o Saying(a)
        /\ peer_map[a] \in Conn
        /\ sunk[peer_map[a]] \in Seq(Message) /\ queue[peer_map[a]] \in Seq(Message)
        /\ Saying(a) \in Seq(Message)

LEMMA HeardIs == IInv => AllHeard
<1> SUFFICES ASSUME IInv, NEW a \in Addr, peer_map[a] # NoConn
             PROVE  /\ Heard(a) = (sunk[peer_map[a]] \o queue[peer_map[a]]) \o Saying(a)
                    /\ peer_map[a] \in Conn
                    /\ sunk[peer_map[a]] \in Seq(Message) /\ queue[peer_map[a]] \in Seq(Message)
                    /\ Saying(a) \in Seq(Message)
  BY DEF AllHeard
<1> DEFINE c == peer_map[a]
           speaking == {d \in Conn : c \in todo[d]}
<1>1. c \in Conn
  BY DEF IInv, TypeOK
<1>2. speaking = IF lock # NoConn /\ c \in todo[lock] THEN {lock} ELSE {}
  BY ChatAssumption DEF IInv, TypeOK, Locking
<1>3. lock # NoConn => lock \in Conn /\ inbox[lock] # <<>> /\ inbox[lock] \in Seq(Message)
  BY DEF IInv, TypeOK, Locking, Queues
<1>4. Saying(a) = IF speaking = {} THEN <<>> ELSE <<Head(inbox[CHOOSE d \in speaking : TRUE])>>
  <2>1. CASE speaking = {}
    BY <1>2, <2>1 DEF Saying
  <2>2. CASE speaking # {}
    <3>1. speaking = {lock} /\ lock # NoConn /\ c \in todo[lock]
      BY <1>2, <2>2
    <3>2. (CHOOSE d \in speaking : TRUE) = lock
      BY <3>1
    <3>3. QED
      BY <3>1, <3>2 DEF Saying
  <2>3. QED
    BY <2>1, <2>2
<1>5. Saying(a) \in Seq(Message)
  <2>1. CASE lock # NoConn
    <3>1. Head(inbox[lock]) \in Message
      BY <1>3, <2>1, HeadProperties
    <3>2. QED
      BY <3>1 DEF Saying
  <2>2. CASE lock = NoConn
    BY <2>2 DEF Saying
  <2>3. QED
    BY <2>1, <2>2
<1>6. sunk[c] \in Seq(Message) /\ queue[c] \in Seq(Message)
  BY <1>1 DEF IInv, TypeOK
<1>7. QED
  BY <1>1, <1>4, <1>5, <1>6 DEF Heard

LEMMA HeardIsNext == IInv' => AllHeard'
  BY HeardIs, PTL

(* The room sees nothing of a step that changes neither the members nor    *)
(* what a member is told.                                                  *)
SameRoom ==
    /\ peer_map' = peer_map
    /\ \A a \in Addr : peer_map[a] # NoConn => Heard(a)' = Heard(a)

LEMMA RoomStutters ==
    ASSUME SameRoom, Away' = Away
    PROVE  UNCHANGED Room!vars
<1>1. Members' = Members /\ Hearing' = Hearing
  BY DEF SameRoom, Members, Hearing
<1>2. QED
  BY <1>1 DEF Room!vars, Members, Away, Hearing

(* A client that has closed or is gone departs from the room, if it is in. *)
LEMMA RoomDeparts ==
    ASSUME IInv, SameRoom, NEW c \in Conn,
           \A d \in Conn : client'[d].state = client[d].state
                            \/ (d = c /\ client'[d].state # "talking")
    PROVE  UNCHANGED Room!vars \/ \E a \in Addr : Room!Depart(a)
<1>1. /\ peer_map' = peer_map
      /\ \A a \in Addr : peer_map[a] # NoConn => peer_map[a] \in Conn /\ addr[peer_map[a]] = a
  BY DEF SameRoom, IInv, TypeOK, Mapped
<1>2. CASE client'[c].state = client[c].state \/ ~\E a \in Addr : peer_map[a] = c
  <2>1. Away' = Away
    BY <1>1, <1>2 DEF Away
  <2>2. QED
    BY <2>1, RoomStutters
<1>3. CASE client'[c].state # "talking" /\ \E a \in Addr : peer_map[a] = c
  <2>1. PICK a \in Addr : peer_map[a] = c
    BY <1>3
  <2>2. peer_map[a] # NoConn /\ \A b \in Addr : peer_map[b] = c => b = a
    BY <1>1, <2>1, ChatAssumption
  <2>3. a \in Members /\ Members' = Members /\ Hearing' = Hearing
    BY <2>2 DEF SameRoom, Members, Hearing
  <2>4. Away' = Away \cup {a}
    BY <1>1, <1>3, <2>1, <2>2 DEF Away
  <2>5. Room!Depart(a)
    BY <2>3, <2>4 DEF Room!Depart, Members, Away, Hearing
  <2>6. QED
    BY <2>5
<1>4. QED
  BY <1>2, <1>3

(* Steps of the users and of tasks that do not broadcast. *)
LEMMA AsideStutters ==
    ASSUME IInv, IInv', UNCHANGED <<peer_map, lock, todo, queue, sunk>>,
           \A d \in Conn : task[d] = "broadcasting" => Head(inbox'[d]) = Head(inbox[d])
    PROVE  SameRoom
<1> SUFFICES ASSUME NEW a \in Addr, peer_map[a] # NoConn PROVE Heard(a)' = Heard(a)
  BY DEF SameRoom
<1>1. Heard(a) = (sunk[peer_map[a]] \o queue[peer_map[a]]) \o Saying(a)
  BY HeardIs DEF AllHeard
<1>2. Heard(a)' = (sunk[peer_map[a]] \o queue[peer_map[a]]) \o Saying(a)'
  BY HeardIsNext DEF AllHeard
<1>3. Saying(a)' = Saying(a)
  BY DEF Saying, IInv, TypeOK, Locking, Queues
<1>4. QED
  BY <1>1, <1>2, <1>3

LEMMA BroadcastDoneStutters ==
    ASSUME IInv, IInv', NEW c \in Conn, broadcast_done(c) PROVE SameRoom
<1>1. /\ lock = c /\ todo[c] = {} /\ lock' = NoConn
      /\ UNCHANGED <<peer_map, sunk, queue>>
  BY DEF broadcast_done, IInv, Locking
<1>2. ASSUME NEW a \in Addr, peer_map[a] # NoConn PROVE Heard(a)' = Heard(a)
  <2>1. Saying(a) = <<>> /\ Saying(a)' = <<>>
    BY <1>1 DEF Saying
  <2>2. Heard(a) = (sunk[peer_map[a]] \o queue[peer_map[a]]) \o Saying(a)
    BY <1>2, HeardIs DEF AllHeard
  <2>3. Heard(a)' = (sunk[peer_map[a]] \o queue[peer_map[a]]) \o Saying(a)'
    BY <1>1, <1>2, HeardIsNext DEF AllHeard
  <2>4. QED
    BY <2>1, <2>2, <2>3
<1>3. QED
  BY <1>1, <1>2 DEF SameRoom

(* The message that is being broadcast arrives where it was heard already. *)
LEMMA UnboundedSendStutters ==
    ASSUME IInv, IInv', NEW c \in Conn, NEW r \in Conn, unbounded_send(c, r) PROVE SameRoom
<1> DEFINE m == Head(inbox[c])
<1>1. /\ r \in todo[c] /\ lock = c /\ c # NoConn /\ m \in Message
      /\ queue' = [queue EXCEPT ![r] = Append(@, m)]
      /\ todo' = [todo EXCEPT ![c] = @ \ {r}]
      /\ UNCHANGED <<lock, peer_map, sunk, inbox>>
  BY UnboundedSend, ChatAssumption
<1> HIDE DEF m
<1>2. ASSUME NEW a \in Addr, peer_map[a] # NoConn PROVE Heard(a)' = Heard(a)
  <2>1. /\ Heard(a) = (sunk[peer_map[a]] \o queue[peer_map[a]]) \o Saying(a)
        /\ peer_map[a] \in Conn
        /\ sunk[peer_map[a]] \in Seq(Message) /\ queue[peer_map[a]] \in Seq(Message)
    BY <1>2, HeardIs DEF AllHeard
  <2>2. Heard(a)' = (sunk[peer_map[a]] \o queue'[peer_map[a]]) \o Saying(a)'
    BY <1>1, <1>2, HeardIsNext DEF AllHeard
  <2>3. CASE peer_map[a] # r
    <3>1. queue'[peer_map[a]] = queue[peer_map[a]]
      BY <1>1, <2>1, <2>3 DEF IInv, TypeOK
    <3>2. Saying(a)' = Saying(a)
      BY <1>1, <2>3 DEF Saying, IInv, TypeOK
    <3>3. QED
      BY <2>1, <2>2, <3>1, <3>2
  <2>4. CASE peer_map[a] = r
    <3>1. queue'[r] = Append(queue[r], m)
      BY <1>1 DEF IInv, TypeOK
    <3>2. Saying(a) = <<m>> /\ Saying(a)' = <<>>
      BY <1>1, <2>4 DEF Saying, IInv, TypeOK, m
    <3>3. (sunk[r] \o Append(queue[r], m)) \o <<>> = (sunk[r] \o queue[r]) \o <<m>>
      BY <1>1, <2>1, <2>4, AppendJoins
    <3>4. QED
      BY <2>1, <2>2, <2>4, <3>1, <3>2, <3>3
  <2>5. QED
    BY <2>3, <2>4
<1>3. QED
  BY <1>1, <1>2 DEF SameRoom

LEMMA ForwardStutters ==
    ASSUME IInv, IInv', NEW c \in Conn, forward(c) PROVE SameRoom
<1> DEFINE m == Head(queue[c])
<1>1. /\ task[c] = "serving" /\ queue[c] # <<>> /\ queue[c] \in Seq(Message)
      /\ queue' = [queue EXCEPT ![c] = Tail(@)]
      /\ sunk' = [sunk EXCEPT ![c] = Append(@, m)]
      /\ UNCHANGED <<lock, peer_map, todo>>
      /\ \A d \in Conn \ {c} : inbox'[d] = inbox[d]
  BY DEF forward, IInv, TypeOK
<1>2. lock # c
  BY <1>1 DEF IInv, Locking
<1>3. m \in Message
  BY <1>1, HeadProperties
<1> HIDE DEF m
<1>4. ASSUME NEW a \in Addr, peer_map[a] # NoConn PROVE Heard(a)' = Heard(a)
  <2>1. /\ Heard(a) = (sunk[peer_map[a]] \o queue[peer_map[a]]) \o Saying(a)
        /\ peer_map[a] \in Conn
        /\ sunk[peer_map[a]] \in Seq(Message) /\ queue[peer_map[a]] \in Seq(Message)
    BY <1>4, HeardIs DEF AllHeard
  <2>2. Heard(a)' = (sunk'[peer_map[a]] \o queue'[peer_map[a]]) \o Saying(a)'
    BY <1>1, <1>4, HeardIsNext DEF AllHeard
  <2>3. Saying(a)' = Saying(a)
    BY <1>1, <1>2 DEF Saying, IInv, TypeOK
  <2>4. CASE peer_map[a] # c
    <3>1. sunk'[peer_map[a]] = sunk[peer_map[a]] /\ queue'[peer_map[a]] = queue[peer_map[a]]
      BY <1>1, <2>1, <2>4 DEF IInv, TypeOK
    <3>2. QED
      BY <2>1, <2>2, <2>3, <3>1
  <2>5. CASE peer_map[a] = c
    <3>1. sunk'[c] = Append(sunk[c], m) /\ queue'[c] = Tail(queue[c])
      BY <1>1 DEF IInv, TypeOK
    <3>2. Append(sunk[c], m) \o Tail(queue[c]) = sunk[c] \o queue[c]
      BY <1>1, <1>3, <2>1, <2>5, HeadMoves DEF m
    <3>3. QED
      BY <2>1, <2>2, <2>3, <2>5, <3>1, <3>2
  <2>6. QED
    BY <2>4, <2>5
<1>5. QED
  BY <1>1, <1>4 DEF SameRoom

(* A message that is read is said in the room. *)
LEMMA ReadMessageSays ==
    ASSUME IInv, IInv', NEW c \in Conn, read_message(c)
    PROVE  \E m \in Message : m.from = addr[c] /\ Room!Tell(m)
<1> DEFINE m == Head(inbox[c])
<1>1. /\ lock = NoConn /\ m \in Message /\ m.from = addr[c] /\ task[c] = "serving"
      /\ lock' = c /\ todo' = [todo EXCEPT ![c] = recipients(c)]
      /\ UNCHANGED <<peer_map, queue, sunk, inbox, client>>
  BY ReadMessage
<1>2. c # NoConn /\ todo'[c] = recipients(c)
  BY <1>1, ChatAssumption DEF IInv, TypeOK
<1>3. Members' = Members
  BY <1>1 DEF Members
<1>4. ASSUME NEW a \in Addr
      PROVE  Hearing'[a] = IF a \in Members \ {m.from} THEN Append(Hearing[a], m) ELSE Hearing[a]
  <2>1. CASE peer_map[a] = NoConn
    BY <1>1, <2>1 DEF Hearing, Members
  <2>2. CASE peer_map[a] # NoConn
    <3>1. /\ Heard(a) = (sunk[peer_map[a]] \o queue[peer_map[a]]) \o Saying(a)
          /\ sunk[peer_map[a]] \in Seq(Message) /\ queue[peer_map[a]] \in Seq(Message)
          /\ peer_map[a] \in Conn /\ addr[peer_map[a]] = a
      BY <2>2, HeardIs DEF AllHeard, IInv, Mapped
    <3>2. Heard(a)' = (sunk[peer_map[a]] \o queue[peer_map[a]]) \o Saying(a)'
      BY <1>1, <2>2, HeardIsNext DEF AllHeard
    <3>3. Saying(a) = <<>>
      BY <1>1 DEF Saying
    <3>4. peer_map[a] \in recipients(c) <=> a # addr[c]
      <4>1. ASSUME NEW b \in Addr, peer_map[b] = peer_map[a] PROVE b = a
        BY <2>2, <3>1, <4>1 DEF IInv, Mapped
      <4>2. QED
        BY <2>2, <4>1 DEF recipients
    <3>5. Saying(a)' = IF a # addr[c] THEN <<m>> ELSE <<>>
      BY <1>1, <1>2, <3>4 DEF Saying
    <3>6. a \in Members
      BY <2>2 DEF Members
    <3>7. Hearing[a] = Heard(a) /\ Hearing'[a] = Heard(a)'
      BY <1>1, <2>2 DEF Hearing
    <3> HIDE DEF m
    <3>8. CASE a = addr[c]
      BY <1>1, <3>1, <3>2, <3>3, <3>5, <3>7, <3>8
    <3>9. CASE a # addr[c]
      <4>1. (sunk[peer_map[a]] \o queue[peer_map[a]]) \o <<m>>
              = Append((sunk[peer_map[a]] \o queue[peer_map[a]]) \o <<>>, m)
        BY <1>1, <3>1, SaidLast
      <4>2. QED
        BY <1>1, <3>2, <3>1, <3>3, <3>5, <3>6, <3>7, <3>9, <4>1
    <3>10. QED
      BY <3>8, <3>9
  <2>3. QED
    BY <2>1, <2>2
<1> HIDE DEF m
<1>5. Hearing' = [a \in Addr |-> IF a \in Members \ {m.from} THEN Append(Hearing[a], m)
                                 ELSE Hearing[a]]
  BY <1>4 DEF Hearing
<1>6. PICK said \in Message : said = m
  BY <1>1
<1>7. Away' = Away
  BY <1>1 DEF Away
<1>8. Room!Tell(said)
  BY <1>3, <1>5, <1>6, <1>7 DEF Room!Tell, Members, Away, Hearing
<1>9. QED
  BY <1>1, <1>6, <1>8

LEMMA InsertJoins ==
    ASSUME IInv, IInv', NEW c \in Conn, insert(c)
    PROVE  \E a \in Addr : a = addr[c] /\ Room!Enter(a)
<1>1. /\ task[c] = "handshake" /\ lock = NoConn
      /\ peer_map' = [peer_map EXCEPT ![addr[c]] = c]
      /\ UNCHANGED <<lock, todo, queue, sunk, inbox, client>>
  BY DEF insert, IInv
<1>2. addr[c] \in Addr /\ sunk[c] = <<>> /\ queue[c] = <<>> /\ c # NoConn
  BY <1>1, ChatAssumption DEF IInv, Mapped, Queues
<1>3. Members' = Members \cup {addr[c]}
  BY <1>1, <1>2 DEF Members, IInv, TypeOK
<1>4. ASSUME NEW a \in Addr
      PROVE  Hearing'[a] = IF a = addr[c] THEN <<>> ELSE Hearing[a]
  <2>1. Saying(a) = <<>> /\ Saying(a)' = <<>>
    BY <1>1 DEF Saying
  <2>2. CASE a = addr[c]
    <3>1. peer_map'[a] = c
      BY <1>1, <1>2, <2>2 DEF IInv, TypeOK
    <3>2. Heard(a)' = (sunk[c] \o queue[c]) \o Saying(a)'
      BY <1>1, <1>2, <3>1, HeardIsNext DEF AllHeard
    <3>3. Hearing'[a] = (<<>> \o <<>>) \o <<>>
      BY <1>2, <2>1, <3>1, <3>2 DEF Hearing
    <3>4. QED
      BY <2>2, <3>3
  <2>3. CASE a # addr[c] /\ peer_map[a] = NoConn
    BY <1>1, <2>3 DEF Hearing, IInv, TypeOK
  <2>4. CASE a # addr[c] /\ peer_map[a] # NoConn
    <3>1. peer_map'[a] = peer_map[a]
      BY <1>1, <2>4 DEF IInv, TypeOK
    <3>2. Heard(a) = (sunk[peer_map[a]] \o queue[peer_map[a]]) \o Saying(a)
      BY <2>4, HeardIs DEF AllHeard
    <3>3. Heard(a)' = (sunk[peer_map[a]] \o queue[peer_map[a]]) \o Saying(a)'
      BY <1>1, <2>4, <3>1, HeardIsNext DEF AllHeard
    <3>4. QED
      BY <2>1, <2>4, <3>1, <3>2, <3>3 DEF Hearing
  <2>5. QED
    BY <2>2, <2>3, <2>4
<1>5. Hearing' = [Hearing EXCEPT ![addr[c]] = <<>>]
  BY <1>4 DEF Hearing
<1>6. PICK a \in Addr : a = addr[c]
  BY <1>2
<1>7. Away' = Away \ {a}
  <2>1. client[c].state = "talking"
    BY <1>1 DEF IInv, Fresh
  <2>2. \A b \in Addr : peer_map'[b] = IF b = a THEN c ELSE peer_map[b]
    BY <1>1, <1>6 DEF IInv, TypeOK
  <2>3. QED
    BY <1>1, <2>1, <2>2 DEF Away
<1>8. Room!Enter(a)
  BY <1>3, <1>5, <1>6, <1>7 DEF Room!Enter, Members, Away, Hearing
<1>9. QED
  BY <1>6, <1>8

LEMMA RemoveLeaves ==
    ASSUME IInv, IInv', NEW c \in Conn, remove(c)
    PROVE  \/ SameRoom /\ Away' = Away
           \/ \E a \in Addr : a = addr[c] /\ Room!Exit(a)
<1>1. /\ task[c] = "leaving" /\ lock = NoConn
      /\ peer_map' = [peer_map EXCEPT ![addr[c]] = NoConn]
      /\ UNCHANGED <<lock, todo, queue, sunk, inbox, client>>
  BY DEF remove, removed, IInv
<1>2. addr[c] \in Addr
  BY <1>1 DEF IInv, Mapped
<1>3. ASSUME NEW a \in Addr, peer_map[a] # NoConn, a # addr[c] \/ peer_map[addr[c]] = NoConn
      PROVE  Heard(a)' = Heard(a) /\ peer_map'[a] = peer_map[a]
  <2>1. peer_map'[a] = peer_map[a]
    BY <1>1, <1>3 DEF IInv, TypeOK
  <2>2. Saying(a) = <<>> /\ Saying(a)' = <<>>
    BY <1>1 DEF Saying
  <2>3. Heard(a) = (sunk[peer_map[a]] \o queue[peer_map[a]]) \o Saying(a)
    BY <1>3, HeardIs DEF AllHeard
  <2>4. Heard(a)' = (sunk[peer_map[a]] \o queue[peer_map[a]]) \o Saying(a)'
    BY <1>1, <1>3, <2>1, HeardIsNext DEF AllHeard
  <2>5. QED
    BY <2>1, <2>2, <2>3, <2>4
<1>4. CASE peer_map[addr[c]] = NoConn
  <2>1. peer_map' = peer_map
    BY <1>1, <1>4 DEF IInv, TypeOK
  <2>2. QED
    BY <1>1, <1>3, <1>4, <2>1 DEF SameRoom, Away
<1>5. CASE peer_map[addr[c]] # NoConn
  <2>1. addr[c] \in Members /\ Members' = Members \ {addr[c]}
    BY <1>1, <1>2, <1>5 DEF Members, IInv, TypeOK
  <2>2. ASSUME NEW a \in Addr PROVE Hearing'[a] = IF a = addr[c] THEN <<>> ELSE Hearing[a]
    <3>1. CASE a = addr[c]
      BY <1>1, <3>1 DEF Hearing, IInv, TypeOK
    <3>2. CASE a # addr[c] /\ peer_map[a] = NoConn
      BY <1>1, <3>2 DEF Hearing, IInv, TypeOK
    <3>3. CASE a # addr[c] /\ peer_map[a] # NoConn
      BY <1>3, <3>3 DEF Hearing
    <3>4. QED
      BY <3>1, <3>2, <3>3
  <2>3. Hearing' = [Hearing EXCEPT ![addr[c]] = <<>>]
    BY <2>2 DEF Hearing
  <2>4. PICK a \in Addr : a = addr[c]
    BY <1>2
  <2>5. Away' = Away \ {a}
    BY <1>1, <2>4 DEF Away, IInv, TypeOK
  <2>6. Room!Exit(a)
    BY <2>1, <2>3, <2>4, <2>5 DEF Room!Exit, Members, Away, Hearing
  <2>7. QED
    BY <2>4, <2>6
<1>6. QED
  BY <1>4, <1>5

(* What a step of the server is in the room. *)
InRoom ==
    \/ UNCHANGED Room!vars
    \/ \E a \in Addr : Room!Depart(a)
    \/ \E c \in Conn, a \in Addr : insert(c) /\ a = addr[c] /\ Room!Enter(a)
    \/ \E c \in Conn, a \in Addr : remove(c) /\ a = addr[c] /\ Room!Exit(a)
    \/ \E c \in Conn, m \in Message : read_message(c) /\ m.from = addr[c] /\ Room!Tell(m)

LEMMA RoomStep == ASSUME IInv, IInv', [Next]_vars PROVE InRoom
<1>1. ASSUME UNCHANGED vars PROVE InRoom
  <2>1. SameRoom
    BY <1>1, AsideStutters DEF vars, server
  <2>2. Away' = Away
    BY <1>1 DEF vars, server, Away
  <2>3. QED
    BY <2>1, <2>2, RoomStutters DEF InRoom
<1>2. ASSUME NEW c \in Conn, accept(c) \/ refuse(c) \/ accept_async_fails(c) \/ disconnected(c)
      PROVE  InRoom
  <2>1. UNCHANGED <<peer_map, lock, todo, queue, sunk, inbox, client>>
    BY <1>2 DEF accept, refuse, accept_async_fails, Unserved, disconnected
  <2>2. SameRoom /\ Away' = Away
    BY <2>1, AsideStutters DEF Away
  <2>3. QED
    BY <2>2, RoomStutters DEF InRoom
<1>3. ASSUME NEW c \in Conn, (\E kind \in Kinds : say(c, kind)) \/ close(c) \/ reset(c)
      PROVE  InRoom
  <2>1. /\ UNCHANGED <<peer_map, lock, todo, queue, sunk>>
        /\ \A d \in Conn : task[d] = "broadcasting" => Head(inbox'[d]) = Head(inbox[d])
        /\ \A d \in Conn : client'[d].state = client[d].state
                            \/ (d = c /\ client'[d].state # "talking")
    BY <1>3, UserStep DEF server
  <2>2. SameRoom
    BY <2>1, AsideStutters
  <2>3. QED
    BY <2>1, <2>2, RoomDeparts DEF InRoom
<1>4. ASSUME NEW c \in Conn, forward(c) PROVE InRoom
  <2>1. \A d \in Conn : client'[d].state = client[d].state
                         \/ (d = c /\ client'[d].state # "talking")
    BY <1>4 DEF forward, IInv, TypeOK
  <2>2. SameRoom
    BY <1>4, ForwardStutters
  <2>3. QED
    BY <2>1, <2>2, RoomDeparts DEF InRoom
<1>5. ASSUME NEW c \in Conn, broadcast_done(c) \/ (\E r \in Conn : unbounded_send(c, r))
      PROVE  InRoom
  <2>1. SameRoom
    BY <1>5, BroadcastDoneStutters, UnboundedSendStutters
  <2>2. Away' = Away
    BY <1>5 DEF broadcast_done, unbounded_send, Away
  <2>3. QED
    BY <2>1, <2>2, RoomStutters DEF InRoom
<1>6. ASSUME NEW c \in Conn, insert(c) \/ remove(c) \/ read_message(c) PROVE InRoom
  <2>1. CASE insert(c)
    BY <2>1, InsertJoins DEF InRoom
  <2>2. CASE remove(c)
    BY <2>2, RemoveLeaves, RoomStutters DEF InRoom
  <2>3. CASE read_message(c)
    BY <2>3, ReadMessageSays DEF InRoom
  <2>4. QED
    BY <1>6, <2>1, <2>2, <2>3
<1>7. ASSUME NEW c \in Conn,
             \/ accept(c) \/ refuse(c) \/ accept_async_fails(c) \/ insert(c)
             \/ read_message(c) \/ (\E r \in Conn : unbounded_send(c, r)) \/ broadcast_done(c)
             \/ forward(c) \/ disconnected(c) \/ remove(c)
             \/ (\E kind \in Kinds : say(c, kind)) \/ close(c) \/ reset(c)
      PROVE  InRoom
  BY <1>2, <1>3, <1>4, <1>5, <1>6, <1>7
<1>8. QED
  BY <1>1, <1>7 DEF Next, quiet

LEMMA EmptyRoom == Init => Room!Init
<1> SUFFICES ASSUME Init PROVE Room!Init
  OBVIOUS
<1>1. \A a \in Addr : peer_map[a] = NoConn
  BY DEF Init
<1>2. QED
  BY <1>1 DEF Room!Init

(* All who are in the map of examples/server.rs are told the same in the   *)
(* same order, for any number of connections and addresses, even when an   *)
(* address comes back early: a broadcast that interleaves with everything  *)
(* that does not take the mutex is as good as one step.                    *)
THEOREM OrderIsKept == TextOnly /\ Spec => KeepsOrder
<1>1. InRoom => [Room!LooseNext]_(Room!vars)
  BY DEF InRoom, Room!LooseNext
<1>2. IInv /\ IInv' /\ [Next]_vars => [Room!LooseNext]_(Room!vars)
  BY <1>1, RoomStep
<1>3. QED
  BY <1>2, EmptyRoom, Invariance, PTL DEF Spec, KeepsOrder, Room!LooseSpec
-----------------------------------------------------------------------------
(* When no address comes back early, no two connections of an address last *)
(* at the same time, so that each finds its own entry in the map; and only *)
(* a client that has closed or is gone loses its task.                     *)
Sole ==
    \A c, d \in Conn : c # d /\ addr[c] \in Addr /\ addr[c] = addr[d] => Ended(c) \/ Ended(d)

InMap == \A c \in Conn : HasReceiver(c) => peer_map[addr[c]] = c

Departed ==
    \A c \in Conn :
        client[c].state = "talking" =>
            /\ task[c] # "leaving" /\ ~closing[c]
            /\ \A i \in 1..Len(inbox[c]) : inbox[c][i].kind # "close"

Settled == ~EarlyReuse /\ Sole /\ InMap /\ Departed

(* A task that goes on, with the rest in its place. *)
LEMMA SettledTask ==
    ASSUME IInv, Settled, NEW c \in Conn, NEW place, task' = [task EXCEPT ![c] = place],
           ~Ended(c), place \in {"serving", "broadcasting", "leaving"} => HasReceiver(c),
           place = "leaving" => client[c].state # "talking",
           UNCHANGED <<addr, peer_map, inbox, client, closing>>
    PROVE  Settled'
<1>1. task'[c] = place /\ \A d \in Conn \ {c} : task'[d] = task[d]
  BY DEF IInv, TypeOK
<1>2. Sole'
  BY <1>1 DEF Settled, Sole, Ended
<1>3. InMap'
  BY <1>1 DEF Settled, InMap, HasReceiver
<1>4. Departed'
  BY <1>1 DEF Settled, Departed
<1>5. QED
  BY <1>2, <1>3, <1>4 DEF Settled

LEMMA AcceptSettled ==
    ASSUME IInv, Settled, NEW c \in Conn, accept(c) PROVE Settled'
<1>1. PICK a \in Addr : /\ addr' = [addr EXCEPT ![c] = a]
                        /\ \A d \in Conn : addr[d] = a => Ended(d)
  BY DEF accept, Settled
<1>2. /\ task[c] = "none" /\ task' = [task EXCEPT ![c] = "handshake"]
      /\ UNCHANGED <<peer_map, inbox, client, closing>>
  BY DEF accept, Become
<1>3. /\ task'[c] = "handshake" /\ \A d \in Conn \ {c} : task'[d] = task[d]
      /\ addr'[c] = a /\ \A d \in Conn \ {c} : addr'[d] = addr[d]
  BY <1>1, <1>2 DEF IInv, TypeOK
<1>4. Sole'
  BY <1>1, <1>3 DEF Settled, Sole, Ended
<1>5. InMap'
  BY <1>2, <1>3 DEF Settled, InMap, HasReceiver
<1>6. Departed'
  BY <1>2, <1>3 DEF Settled, Departed
<1>7. QED
  BY <1>4, <1>5, <1>6 DEF Settled

LEMMA InsertSettled ==
    ASSUME IInv, Settled, NEW c \in Conn, insert(c) PROVE Settled'
<1>1. /\ task[c] = "handshake" /\ task' = [task EXCEPT ![c] = "serving"]
      /\ peer_map' = [peer_map EXCEPT ![addr[c]] = c]
      /\ UNCHANGED <<addr, inbox, client, closing>>
  BY DEF insert, Become, IInv
<1>2. /\ task'[c] = "serving" /\ \A d \in Conn \ {c} : task'[d] = task[d]
      /\ addr[c] \in Addr /\ peer_map'[addr[c]] = c
      /\ \A a \in Addr \ {addr[c]} : peer_map'[a] = peer_map[a]
  BY <1>1 DEF IInv, TypeOK, Mapped
<1>3. Sole'
  BY <1>1, <1>2 DEF Settled, Sole, Ended
<1>4. InMap'
  <2>1. ASSUME NEW d \in Conn \ {c}, HasReceiver(d) PROVE addr[d] \in Addr \ {addr[c]}
    BY <1>1, <1>2, <2>1 DEF Settled, Sole, Ended, HasReceiver, IInv, Mapped
  <2>2. QED
    BY <1>1, <1>2, <2>1 DEF Settled, InMap, HasReceiver
<1>5. Departed'
  BY <1>1, <1>2 DEF Settled, Departed
<1>6. QED
  BY <1>3, <1>4, <1>5 DEF Settled

LEMMA RemoveSettled ==
    ASSUME IInv, Settled, NEW c \in Conn, remove(c) PROVE Settled'
<1>1. /\ task[c] = "leaving" /\ task' = [task EXCEPT ![c] = "done"]
      /\ peer_map' = [peer_map EXCEPT ![addr[c]] = NoConn]
      /\ UNCHANGED <<addr, inbox, client, closing>>
  BY DEF remove, removed, Become, IInv
<1>2. /\ task'[c] = "done" /\ \A d \in Conn \ {c} : task'[d] = task[d]
      /\ addr[c] \in Addr
      /\ \A a \in Addr \ {addr[c]} : peer_map'[a] = peer_map[a]
  BY <1>1 DEF IInv, TypeOK, Mapped
<1>3. Sole'
  BY <1>1, <1>2 DEF Settled, Sole, Ended
<1>4. InMap'
  <2>1. ASSUME NEW d \in Conn \ {c}, HasReceiver(d) PROVE addr[d] \in Addr \ {addr[c]}
    BY <1>1, <1>2, <2>1 DEF Settled, Sole, Ended, HasReceiver, IInv, Mapped
  <2>2. QED
    BY <1>1, <1>2, <2>1 DEF Settled, InMap, HasReceiver
<1>5. Departed'
  BY <1>1, <1>2 DEF Settled, Departed
<1>6. QED
  BY <1>3, <1>4, <1>5 DEF Settled

(* The close that a task reads was sent by its client. *)
LEMMA ReadSettled ==
    ASSUME IInv, Settled, NEW c \in Conn, read_message(c) PROVE Settled'
<1>1. /\ task[c] = "serving" /\ task' = [task EXCEPT ![c] = "broadcasting"]
      /\ inbox[c] # <<>> /\ inbox[c] \in Seq(Message)
      /\ UNCHANGED <<addr, peer_map, inbox, client>>
  BY ReadMessage DEF IInv, TypeOK
<1>2. closing' = [closing EXCEPT ![c] = @ \/ Head(inbox[c]).kind = "close"]
  BY DEF read_message
<1>3. Head(inbox[c]) = inbox[c][1] /\ 1 \in 1..Len(inbox[c])
  BY <1>1, HeadProperties
<1>4. /\ task'[c] = "broadcasting" /\ \A d \in Conn \ {c} : task'[d] = task[d]
      /\ \A d \in Conn \ {c} : closing'[d] = closing[d]
      /\ closing'[c] = (closing[c] \/ Head(inbox[c]).kind = "close")
  BY <1>1, <1>2 DEF IInv, TypeOK
<1>5. Sole'
  BY <1>1, <1>4 DEF Settled, Sole, Ended
<1>6. InMap'
  BY <1>1, <1>4 DEF Settled, InMap, HasReceiver
<1>7. Departed'
  BY <1>1, <1>3, <1>4 DEF Settled, Departed
<1>8. QED
  BY <1>5, <1>6, <1>7 DEF Settled

LEMMA DoneSettled ==
    ASSUME IInv, Settled, NEW c \in Conn, broadcast_done(c) PROVE Settled'
<1>1. /\ task[c] = "broadcasting" /\ task' = [task EXCEPT ![c] = "serving"]
      /\ inbox' = [inbox EXCEPT ![c] = Tail(@)]
      /\ UNCHANGED <<addr, peer_map, client, closing>>
  BY DEF broadcast_done, Become
<1>2. inbox[c] \in Seq(Message) /\ inbox[c] # <<>>
  BY <1>1 DEF IInv, TypeOK, Queues
<1>3. \A i \in 1..Len(Tail(inbox[c])) : i + 1 \in 1..Len(inbox[c]) /\ Tail(inbox[c])[i] = inbox[c][i + 1]
  BY <1>2, HeadProperties
<1>4. /\ task'[c] = "serving" /\ \A d \in Conn \ {c} : task'[d] = task[d]
      /\ inbox'[c] = Tail(inbox[c]) /\ \A d \in Conn \ {c} : inbox'[d] = inbox[d]
  BY <1>1 DEF IInv, TypeOK
<1>5. Sole'
  BY <1>1, <1>4 DEF Settled, Sole, Ended
<1>6. InMap'
  BY <1>1, <1>4 DEF Settled, InMap, HasReceiver
<1>7. Departed'
  BY <1>1, <1>3, <1>4 DEF Settled, Departed
<1>8. QED
  BY <1>5, <1>6, <1>7 DEF Settled

(* A client that is told of a Close answers it and has closed. *)
LEMMA ForwardSettled ==
    ASSUME IInv, Settled, NEW c \in Conn, forward(c) PROVE Settled'
<1>1. /\ task[c] = "serving" /\ UNCHANGED <<addr, peer_map>>
      /\ \/ UNCHANGED task /\ ~closing[c]
         \/ task' = [task EXCEPT ![c] = "leaving"] /\ closing[c]
      /\ closing'[c] => closing[c] \/ Head(queue[c]).kind = "close"
      /\ \A d \in Conn \ {c} : closing'[d] = closing[d]
  BY DEF forward, Become, IInv, TypeOK
<1>2. /\ \A d \in Conn \ {c} : client'[d] = client[d] /\ inbox'[d] = inbox[d]
      /\ client'[c].state = "talking" =>
            /\ client[c].state = "talking" /\ inbox'[c] = inbox[c]
            /\ closing[c] \/ Head(queue[c]).kind # "close"
  BY DEF forward, IInv, TypeOK
<1>3. \A d \in Conn : /\ task'[d] = task[d] \/ (d = c /\ task'[d] = "leaving" /\ closing[c])
                      /\ ~Ended(c)
  BY <1>1 DEF IInv, TypeOK, Ended
<1>4. Sole'
  BY <1>1, <1>3 DEF Settled, Sole, Ended
<1>5. InMap'
  BY <1>1, <1>3 DEF Settled, InMap, HasReceiver
<1>6. Departed'
  <2>1. ASSUME NEW d \in Conn, client'[d].state = "talking"
        PROVE  /\ task'[d] # "leaving" /\ ~closing'[d]
               /\ \A i \in 1..Len(inbox'[d]) : inbox'[d][i].kind # "close"
    <3>1. CASE d = c
      <4>1. client[c].state = "talking" /\ ~closing[c] /\ inbox'[c] = inbox[c]
        BY <1>2, <2>1, <3>1 DEF Settled, Departed
      <4>2. ~closing'[c] /\ task'[c] # "leaving"
        BY <1>1, <1>2, <1>3, <2>1, <3>1, <4>1
      <4>3. QED
        BY <3>1, <4>1, <4>2 DEF Settled, Departed
    <3>2. CASE d # c
      BY <1>1, <1>2, <1>3, <2>1, <3>2 DEF Settled, Departed
    <3>3. QED
      BY <3>1, <3>2
  <2>2. QED
    BY <2>1 DEF Departed
<1>7. QED
  BY <1>4, <1>5, <1>6 DEF Settled

LEMMA UserSettled ==
    ASSUME IInv, Settled, NEW c \in Conn,
           (\E kind \in Kinds : say(c, kind)) \/ close(c) \/ reset(c)
    PROVE  Settled'
<1>1. UNCHANGED <<task, addr, peer_map, closing>>
  BY UserStep DEF server
<1>2. Sole' /\ InMap'
  BY <1>1 DEF Settled, Sole, InMap, Ended, HasReceiver
<1>3. /\ \A d \in Conn \ {c} : client'[d] = client[d] /\ inbox'[d] = inbox[d]
      /\ close(c) \/ reset(c) => client'[c].state # "talking"
  BY DEF say, close, reset, IInv, TypeOK
<1>4. ASSUME NEW kind \in Kinds, say(c, kind)
      PROVE  /\ client'[c].state = client[c].state
             /\ \A i \in 1..Len(inbox'[c]) :
                   \/ i \in 1..Len(inbox[c]) /\ inbox'[c][i] = inbox[c][i]
                   \/ inbox'[c][i].kind = "text"
  <2>1. client'[c].state = client[c].state
    BY <1>4 DEF say, IInv, TypeOK
  <2>2. /\ HasReceiver(c) /\ acts + 1 \in 1..MaxActs
        /\ inbox' = [inbox EXCEPT ![c] = Append(@, Sent(c, kind, acts + 1))]
    BY <1>4, ChatAssumption DEF say, UserActs, IInv, TypeOK
  <2>3. Sent(c, kind, acts + 1) \in Message /\ Sent(c, kind, acts + 1).kind = "text"
    BY <2>2, SentType DEF IInv, TextOnly, Sent
  <2>4. inbox[c] \in Seq(Message) /\ inbox'[c] = Append(inbox[c], Sent(c, kind, acts + 1))
    BY <2>2 DEF IInv, TypeOK
  <2>5. QED
    BY <2>1, <2>3, <2>4, AppendOne
<1>5. Departed'
  <2>1. CASE \E kind \in Kinds : say(c, kind)
    BY <1>1, <1>3, <1>4, <2>1 DEF Settled, Departed
  <2>2. CASE close(c) \/ reset(c)
    BY <1>1, <1>3, <2>2 DEF Settled, Departed
  <2>3. QED
    BY <2>1, <2>2
<1>6. QED
  BY <1>2, <1>5 DEF Settled

LEMMA SettledStep == ASSUME IInv, Settled, [Next]_vars PROVE Settled'
<1>1. ASSUME UNCHANGED vars PROVE Settled'
  BY <1>1 DEF vars, server, Settled, Sole, InMap, Departed, Ended, HasReceiver
<1>2. ASSUME NEW c \in Conn, refuse(c) \/ accept_async_fails(c) PROVE Settled'
  <2>1. /\ task[c] = "handshake" /\ task' = [task EXCEPT ![c] = "refused"]
        /\ UNCHANGED <<addr, peer_map, inbox, client, closing>>
    BY <1>2 DEF refuse, accept_async_fails, Unserved, Become
  <2>2. QED
    BY <2>1, SettledTask DEF Ended
<1>3. ASSUME NEW c \in Conn, disconnected(c) PROVE Settled'
  <2>1. /\ task[c] = "serving" /\ task' = [task EXCEPT ![c] = "leaving"]
        /\ UNCHANGED <<addr, peer_map, inbox, client, closing>>
    BY <1>3 DEF disconnected, Become
  <2>2. client[c].state # "talking"
    BY <1>3, <2>1 DEF disconnected, Settled, InMap, HasReceiver
  <2>3. QED
    BY <2>1, <2>2, SettledTask DEF Ended, HasReceiver
<1>4. ASSUME NEW c \in Conn, NEW r \in Conn, unbounded_send(c, r) PROVE Settled'
  <2>1. UNCHANGED <<task, addr, peer_map, inbox, client, closing>>
    BY <1>4, UnboundedSend
  <2>2. QED
    BY <2>1 DEF Settled, Sole, InMap, Departed, Ended, HasReceiver
<1>5. ASSUME NEW c \in Conn,
             \/ accept(c) \/ refuse(c) \/ accept_async_fails(c) \/ insert(c)
             \/ read_message(c) \/ (\E r \in Conn : unbounded_send(c, r)) \/ broadcast_done(c)
             \/ forward(c) \/ disconnected(c) \/ remove(c)
             \/ (\E kind \in Kinds : say(c, kind)) \/ close(c) \/ reset(c)
      PROVE  Settled'
  BY <1>2, <1>3, <1>4, <1>5, AcceptSettled, InsertSettled, RemoveSettled, ReadSettled,
     DoneSettled, ForwardSettled, UserSettled
<1>6. QED
  BY <1>1, <1>5 DEF Next, quiet

LEMMA SettledInvariance == TextOnly /\ ~EarlyReuse /\ Spec => []Settled
<1>1. ~EarlyReuse /\ Init => Settled
  BY ChatAssumption DEF Init, Settled, Sole, InMap, Departed, HasReceiver
<1>2. IInv /\ Settled /\ [Next]_vars => Settled'
  BY SettledStep
<1>3. QED
  BY <1>1, <1>2, Invariance, PTL DEF Spec

(* A client that has not left examples/server.rs is in its map, unless an  *)
(* address comes back early.                                               *)
THEOREM NobodyIsEvicted == TextOnly /\ ~EarlyReuse /\ Spec => []ClientsAreInRoom
<1>1. Settled => ClientsAreInRoom
  BY DEF Settled, InMap, ClientsAreInRoom
<1>2. QED
  BY <1>1, SettledInvariance, PTL

(* The server of examples/server.rs is the room that its documentation     *)
(* promises, for any number of connections and addresses: nobody enters    *)
(* twice, is turned out without having departed, or speaks from outside.   *)
THEOREM ServerIsRoom == TextOnly /\ ~EarlyReuse /\ Spec => ImplementsRoom
<1>1. ASSUME IInv, Settled, InRoom PROVE [Room!Next]_(Room!vars)
  <2>1. ASSUME NEW c \in Conn, insert(c), addr[c] \in Members PROVE FALSE
    <3>1. task[c] = "handshake" /\ addr[c] \in Addr /\ peer_map[addr[c]] # NoConn
      BY <2>1 DEF insert, Members
    <3>2. /\ peer_map[addr[c]] \in Conn /\ addr[peer_map[addr[c]]] = addr[c]
          /\ HasReceiver(peer_map[addr[c]])
      BY <1>1, <3>1 DEF IInv, TypeOK, Mapped
    <3>3. PICK d \in Conn : addr[d] = addr[c] /\ HasReceiver(d)
      BY <3>2
    <3>4. c # d /\ ~Ended(c) /\ ~Ended(d)
      BY <3>1, <3>3 DEF Ended, HasReceiver
    <3>5. QED
      BY <1>1, <3>1, <3>3, <3>4 DEF Settled, Sole
  <2>2. ASSUME NEW c \in Conn, remove(c) PROVE addr[c] \in Away
    <3>1. task[c] = "leaving" /\ c # NoConn
      BY <2>2, ChatAssumption DEF remove
    <3>2. addr[c] \in Addr /\ peer_map[addr[c]] = c
      BY <1>1, <3>1 DEF Settled, InMap, HasReceiver, IInv, Mapped
    <3>3. client[c].state # "talking"
      BY <1>1, <3>1 DEF Settled, Departed
    <3>4. QED
      BY <3>1, <3>2, <3>3 DEF Away
  <2>3. ASSUME NEW c \in Conn, read_message(c) PROVE addr[c] \in Members
    <3>1. task[c] = "serving" /\ c # NoConn
      BY <2>3, ChatAssumption DEF read_message
    <3>2. addr[c] \in Addr /\ peer_map[addr[c]] = c
      BY <1>1, <3>1 DEF Settled, InMap, HasReceiver, IInv, Mapped
    <3>3. QED
      BY <3>1, <3>2 DEF Members
  <2>4. ASSUME NEW c \in Conn, NEW a \in Addr, insert(c), a = addr[c], Room!Enter(a)
        PROVE  Room!Next
    BY <2>1, <2>4 DEF Room!Next, Room!Join, Members
  <2>5. ASSUME NEW c \in Conn, NEW a \in Addr, remove(c), a = addr[c], Room!Exit(a)
        PROVE  Room!Next
    BY <2>2, <2>5 DEF Room!Next, Room!Leave, Away
  <2>6. ASSUME NEW c \in Conn, NEW m \in Message, read_message(c), m.from = addr[c], Room!Tell(m)
        PROVE  Room!Next
    BY <2>3, <2>6 DEF Room!Next, Room!Say, Members
  <2>7. QED
    BY <1>1, <2>4, <2>5, <2>6 DEF InRoom, Room!Next
<1>2. IInv /\ IInv' /\ Settled /\ [Next]_vars => [Room!Next]_(Room!vars)
  BY <1>1, RoomStep
<1>3. QED
  BY <1>2, EmptyRoom, Invariance, SettledInvariance, PTL DEF Spec, ImplementsRoom, Room!Spec
-----------------------------------------------------------------------------
(* The positions that Room!Since counts. *)
Others(s, i, a, b) == {k \in i..Len(s) : s[k].from \notin {a, b}}

LEMMA SinceIs ==
    ASSUME NEW s \in Seq(Message), NEW i \in Nat \ {0}, NEW a, NEW b
    PROVE  /\ IsFiniteSet(Others(s, i, a, b))
           /\ Room!Since(s, i, a, b) = Cardinality(Others(s, i, a, b))
           /\ Room!Since(s, i, a, b) \in Nat
           /\ i \in 1..Len(s) /\ s[i].from \notin {a, b} => Room!Since(s, i, a, b) # 0
           /\ i = Len(s) + 1 => Room!Since(s, i, a, b) = 0
<1>1. IsFiniteSet(i..Len(s)) /\ Others(s, i, a, b) \subseteq i..Len(s)
  BY FS_Interval DEF Others
<1>2. IsFiniteSet(Others(s, i, a, b))
  BY <1>1, FS_Subset
<1>3. Room!Since(s, i, a, b) = Cardinality(Others(s, i, a, b))
  BY DEF Room!Since, Others, Room!Cardinality, Cardinality
<1>4. i \in 1..Len(s) /\ s[i].from \notin {a, b} => Others(s, i, a, b) # {}
  BY DEF Others
<1>5. i = Len(s) + 1 => Others(s, i, a, b) = {}
  BY DEF Others
<1>6. QED
  BY <1>2, <1>3, <1>4, <1>5, FS_CardinalityType, FS_EmptySet

LEMMA SinceGrows ==
    ASSUME NEW s \in Seq(Message), NEW m \in Message, NEW i \in 1..Len(s) + 1, NEW a, NEW b
    PROVE  Room!Since(Append(s, m), i, a, b) =
             IF m.from \in {a, b} THEN Room!Since(s, i, a, b) ELSE Room!Since(s, i, a, b) + 1
<1> DEFINE t == Append(s, m)
<1>1. /\ t \in Seq(Message) /\ Len(t) = Len(s) + 1 /\ t[Len(s) + 1] = m
      /\ \A k \in 1..Len(s) : t[k] = s[k]
  BY AppendProperties
<1>2. i \in Nat \ {0} /\ Len(s) \in Nat
  OBVIOUS
<1> HIDE DEF t
<1>3. Others(t, i, a, b) =
        IF m.from \in {a, b} THEN Others(s, i, a, b) ELSE Others(s, i, a, b) \cup {Len(s) + 1}
  BY <1>1, <1>2 DEF Others
<1>4. Len(s) + 1 \notin Others(s, i, a, b)
  BY <1>2 DEF Others
<1>5. /\ IsFiniteSet(Others(s, i, a, b))
      /\ Room!Since(s, i, a, b) = Cardinality(Others(s, i, a, b))
      /\ Room!Since(t, i, a, b) = Cardinality(Others(t, i, a, b))
  BY <1>1, <1>2, SinceIs
<1>6. Cardinality(Others(s, i, a, b) \cup {Len(s) + 1}) = Cardinality(Others(s, i, a, b)) + 1
  BY <1>4, <1>5, FS_AddElement
<1>7. QED
  BY <1>3, <1>5, <1>6 DEF t

(* What both are told keeps them in agreement. *)
LEMMA AgreeTold ==
    ASSUME NEW s \in Seq(Message), NEW t \in Seq(Message), NEW m \in Message, NEW a, NEW b,
           m.from \notin {a, b}, Room!Agree(a, b, s, t)
    PROVE  Room!Agree(a, b, Append(s, m), Append(t, m))
<1> DEFINE u == Append(s, m)
           v == Append(t, m)
<1>1. /\ Len(u) = Len(s) + 1 /\ u[Len(s) + 1] = m /\ \A k \in 1..Len(s) : u[k] = s[k]
      /\ Len(v) = Len(t) + 1 /\ v[Len(t) + 1] = m /\ \A k \in 1..Len(t) : v[k] = t[k]
      /\ Len(s) \in Nat /\ Len(t) \in Nat
  BY AppendProperties
<1>2. /\ \A i \in 1..Len(s) + 1 : Room!Since(u, i, a, b) = Room!Since(s, i, a, b) + 1
      /\ \A j \in 1..Len(t) + 1 : Room!Since(v, j, a, b) = Room!Since(t, j, a, b) + 1
  BY SinceGrows
<1> HIDE DEF u, v
<1>3. SUFFICES ASSUME NEW i \in 1..Len(u), NEW j \in 1..Len(v),
                      u[i].from \notin {a, b}, v[j].from \notin {a, b},
                      Room!Since(u, i, a, b) = Room!Since(v, j, a, b)
               PROVE  u[i] = v[j]
  BY DEF Room!Agree, u, v
<1>4. /\ i \in 1..Len(s) + 1 /\ j \in 1..Len(t) + 1
      /\ i \in Nat \ {0} /\ j \in Nat \ {0}
  BY <1>1
<1>5. Room!Since(s, i, a, b) \in Nat /\ Room!Since(t, j, a, b) \in Nat
  BY <1>4, SinceIs
<1>6. Room!Since(s, i, a, b) = Room!Since(t, j, a, b)
  BY <1>2, <1>3, <1>4, <1>5
<1>7. CASE i \in 1..Len(s) /\ j \in 1..Len(t)
  BY <1>1, <1>3, <1>6, <1>7 DEF Room!Agree
<1>8. CASE i = Len(s) + 1
  <2>1. Room!Since(t, j, a, b) = 0
    BY <1>4, <1>6, <1>8, SinceIs
  <2>2. j \notin 1..Len(t)
    BY <1>1, <1>3, <1>4, <2>1, SinceIs
  <2>3. QED
    BY <1>1, <1>4, <1>8, <2>2
<1>9. CASE j = Len(t) + 1
  <2>1. Room!Since(s, i, a, b) = 0
    BY <1>4, <1>6, <1>9, SinceIs
  <2>2. i \notin 1..Len(s)
    BY <1>1, <1>3, <1>4, <2>1, SinceIs
  <2>3. QED
    BY <1>1, <1>4, <1>9, <2>2
<1>10. QED
  BY <1>1, <1>4, <1>7, <1>8, <1>9

(* What comes from one of the two does not count. *)
LEMMA AgreeAside ==
    ASSUME NEW s \in Seq(Message), NEW t \in Seq(Message), NEW m \in Message, NEW a, NEW b,
           m.from \in {a, b}, Room!Agree(a, b, s, t),
           NEW u, NEW v, u = s \/ u = Append(s, m), v = t \/ v = Append(t, m)
    PROVE  Room!Agree(a, b, u, v)
<1>1. /\ \A i \in 1..Len(u) : u[i].from \notin {a, b} =>
            /\ i \in 1..Len(s) /\ u[i] = s[i]
            /\ Room!Since(u, i, a, b) = Room!Since(s, i, a, b)
      /\ \A j \in 1..Len(v) : v[j].from \notin {a, b} =>
            /\ j \in 1..Len(t) /\ v[j] = t[j]
            /\ Room!Since(v, j, a, b) = Room!Since(t, j, a, b)
  <2>1. ASSUME NEW q \in Seq(Message), NEW i \in 1..Len(Append(q, m)),
               Append(q, m)[i].from \notin {a, b}
        PROVE  /\ i \in 1..Len(q) /\ Append(q, m)[i] = q[i]
               /\ Room!Since(Append(q, m), i, a, b) = Room!Since(q, i, a, b)
    <3>1. /\ Len(Append(q, m)) = Len(q) + 1 /\ Append(q, m)[Len(q) + 1] = m
          /\ \A k \in 1..Len(q) : Append(q, m)[k] = q[k]
          /\ Len(q) \in Nat
      BY AppendProperties
    <3>2. i \in 1..Len(q)
      BY <2>1, <3>1
    <3>3. i \in 1..Len(q) + 1
      BY <3>1, <3>2
    <3>4. QED
      BY <3>1, <3>2, <3>3, SinceGrows
  <2>2. QED
    BY <2>1
<1>2. QED
  BY <1>1 DEF Room!Agree

(* What members were told, and that any two of them agree on it. *)
RoomInv == Hearing \in [Addr -> Seq(Message)] /\ Room!HearAlike

LEMMA HearAlikeIs ==
    Room!HearAlike <=> \A a, b \in Members : Room!Agree(a, b, Hearing[a], Hearing[b])
  BY DEF Room!HearAlike, Members, Hearing

LEMMA HearAlikeIsNext ==
    Room!HearAlike' <=> \A a, b \in Members' : Room!Agree(a, b, Hearing'[a], Hearing'[b])
  BY DEF Room!HearAlike, Members, Hearing

(* One who has heard nothing agrees with all. *)
LEMMA AnewAgrees ==
    ASSUME NEW a, NEW b, NEW s
    PROVE  Room!Agree(a, b, <<>>, s) /\ Room!Agree(a, b, s, <<>>)
  BY DEF Room!Agree

LEMMA AnewStep ==
    ASSUME RoomInv, NEW c \in Addr, Members' \subseteq Members \cup {c},
           Hearing' = [Hearing EXCEPT ![c] = <<>>]
    PROVE  RoomInv'
<1>1. Hearing' \in [Addr -> Seq(Message)]
  BY EmptySeq DEF RoomInv
<1>2. ASSUME NEW a \in Members', NEW b \in Members'
      PROVE  Room!Agree(a, b, Hearing'[a], Hearing'[b])
  <2>1. a \in Addr /\ b \in Addr
    BY DEF Members
  <2>2. CASE a = c \/ b = c
    <3>1. Hearing'[a] = <<>> \/ Hearing'[b] = <<>>
      BY <2>1, <2>2 DEF RoomInv
    <3>2. QED
      BY <3>1, AnewAgrees
  <2>3. CASE a # c /\ b # c
    <3>1. a \in Members /\ b \in Members /\ Hearing'[a] = Hearing[a] /\ Hearing'[b] = Hearing[b]
      BY <2>1, <2>3 DEF RoomInv
    <3>2. QED
      BY <3>1, HearAlikeIs DEF RoomInv
  <2>4. QED
    BY <2>2, <2>3
<1>3. QED
  BY <1>1, <1>2, HearAlikeIsNext DEF RoomInv

LEMMA SayStep ==
    ASSUME RoomInv, NEW m \in Message, Members' = Members,
           Hearing' = [c \in Addr |-> IF c \in Members \ {m.from} THEN Append(Hearing[c], m)
                                                                 ELSE Hearing[c]]
    PROVE  RoomInv'
<1>1. Hearing' \in [Addr -> Seq(Message)]
  BY AppendProperties DEF RoomInv
<1>2. ASSUME NEW a \in Members', NEW b \in Members'
      PROVE  Room!Agree(a, b, Hearing'[a], Hearing'[b])
  <2>1. a \in Addr /\ b \in Addr /\ a \in Members /\ b \in Members
    BY DEF Members
  <2>2. Hearing[a] \in Seq(Message) /\ Hearing[b] \in Seq(Message)
    BY <2>1 DEF RoomInv
  <2>3. Room!Agree(a, b, Hearing[a], Hearing[b])
    BY <2>1, HearAlikeIs DEF RoomInv
  <2>4. CASE m.from \notin {a, b}
    <3>1. Hearing'[a] = Append(Hearing[a], m) /\ Hearing'[b] = Append(Hearing[b], m)
      BY <2>1, <2>4
    <3>2. QED
      BY <2>2, <2>3, <2>4, <3>1, AgreeTold
  <2>5. CASE m.from \in {a, b}
    <3>1. /\ Hearing'[a] = Hearing[a] \/ Hearing'[a] = Append(Hearing[a], m)
          /\ Hearing'[b] = Hearing[b] \/ Hearing'[b] = Append(Hearing[b], m)
      BY <2>1
    <3>2. ASSUME NEW u, NEW v, u = Hearing[a] \/ u = Append(Hearing[a], m),
                 v = Hearing[b] \/ v = Append(Hearing[b], m)
          PROVE  Room!Agree(a, b, u, v)
      BY <2>2, <2>3, <2>5, <3>2, AgreeAside
    <3>3. QED
      BY <3>1, <3>2
  <2>6. QED
    BY <2>4, <2>5
<1>3. QED
  BY <1>1, <1>2, HearAlikeIsNext DEF RoomInv

LEMMA RoomAlike == Room!LooseSpec => []RoomInv
<1>1. Room!Init => RoomInv
  <2> SUFFICES ASSUME Room!Init PROVE RoomInv
    OBVIOUS
  <2>1. Members = {} /\ Hearing = [a \in Addr |-> <<>>]
    BY DEF Room!Init, Members, Hearing
  <2>2. QED
    BY <2>1, HearAlikeIs, EmptySeq DEF RoomInv
<1>2. RoomInv /\ [Room!LooseNext]_(Room!vars) => RoomInv'
  <2> SUFFICES ASSUME RoomInv, [Room!LooseNext]_(Room!vars) PROVE RoomInv'
    OBVIOUS
  <2>1. ASSUME NEW c \in Addr, Room!Enter(c) PROVE RoomInv'
    <3>1. Members' = Members \cup {c} /\ Hearing' = [Hearing EXCEPT ![c] = <<>>]
      BY <2>1 DEF Room!Enter, Members, Hearing
    <3>2. QED
      BY <3>1, AnewStep
  <2>2. ASSUME NEW c \in Addr, Room!Exit(c) PROVE RoomInv'
    <3>1. Members' = Members \ {c} /\ Hearing' = [Hearing EXCEPT ![c] = <<>>]
      BY <2>2 DEF Room!Exit, Members, Hearing
    <3>2. QED
      BY <3>1, AnewStep
  <2>3. ASSUME NEW m \in Message, Room!Tell(m) PROVE RoomInv'
    <3>1. /\ Members' = Members
          /\ Hearing' = [c \in Addr |-> IF c \in Members \ {m.from} THEN Append(Hearing[c], m)
                                                                    ELSE Hearing[c]]
      BY <2>3 DEF Room!Tell, Members, Hearing
    <3>2. QED
      BY <3>1, SayStep
  <2>4. CASE UNCHANGED Room!vars
    <3>1. Members' = Members /\ Hearing' = Hearing
      BY <2>4 DEF Room!vars, Members, Hearing
    <3>2. QED
      BY <3>1, HearAlikeIs, HearAlikeIsNext DEF RoomInv
  <2>5. ASSUME NEW c \in Addr, Room!Depart(c) PROVE RoomInv'
    <3>1. Members' = Members /\ Hearing' = Hearing
      BY <2>5 DEF Room!Depart, Members, Hearing
    <3>2. QED
      BY <3>1, HearAlikeIs, HearAlikeIsNext DEF RoomInv
  <2>6. QED
    BY <2>1, <2>2, <2>3, <2>4, <2>5 DEF Room!LooseNext
<1>3. QED
  BY <1>1, <1>2, PTL DEF Room!LooseSpec

(* Any two clients that the server of examples/server.rs has were told the *)
(* same messages of the others in the same order, back to when the later   *)
(* of the two was entered into the map, whatever interleaved with the      *)
(* broadcasts.                                                             *)
THEOREM AllHearAlike == TextOnly /\ Spec => []MembersHearAlike
<1>1. RoomInv => MembersHearAlike
  BY DEF RoomInv, MembersHearAlike
<1>2. QED
  BY <1>1, RoomAlike, OrderIsKept, PTL DEF KeepsOrder
=============================================================================
