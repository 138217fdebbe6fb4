# A verification of tokio-tungstenite

tokio-tungstenite makes the blocking-style WebSocket of the `tungstenite` crate
usable from asynchronous code. The protocol itself (frames, masking, parsing) is
tungstenite's; what this repository adds, and what these modules are about, is

- the waker plumbing that lets the reading and the writing half of one
  connection live on two tasks (`src/compat.rs`),
- the `Stream` and the `Sink` on top of it, with the fields `ready`, `closing`
  and `ended` (`src/lib.rs`),
- the futures that drive a handshake which may be interrupted anywhere
  (`src/handshake.rs`),
- the way from a URL to a connected, perhaps encrypted, stream
  (`src/connect.rs`, `src/tls.rs`, `src/stream.rs`),
- and, among the examples, a chat server whose connections share a map behind a
  mutex (`src/examples/server.rs`, `src/examples/server-custom-accept.rs`).

Paths are relative to the repository. `PROJECT.json` holds the machine-readable
side: the components, runs, theorems, the source lines of every definition, the
hazards, and for every checked property a mutation of the model that breaks it.

## Inventory

| Component | State | Operations | Interaction | Model |
|---|---|---|---|---|
| `AllowStd`, `WakerProxy` (`compat.rs`) | two proxies with two `AtomicWaker` slots each | `new`, `set_waker`, `with_context` (read, write, flush), `wake_by_ref`, `cvt` | called by tungstenite for every read and write; hands a proxy to the stream below; is woken from other threads | `AllowStd` |
| `WebSocketStream` (`lib.rs`) | `inner`, `ready`, `closing`, `ended` | `poll_next`, `poll_ready`, `start_send`, `poll_flush`, `poll_close` | calls tungstenite's `read`, `write`, `flush`, `close`; is split in two halves by a BiLock | `WebSocketStream` |
| Handshake futures (`handshake.rs`, `client_async*`, `accept_*` in `lib.rs`) | the closure of the started future, the `Option` of `MidHandshake` | the polls of three futures | drive tungstenite's handshake machine; produce a `WebSocketStream` | `Handshake` |
| tungstenite's `WebSocket` (external) | protocol state, write buffer, slot for one control reply | `read`, `write`, `flush`, `close` | | `Tungstenite` |
| `connect` (`connect.rs`, `domain` in `lib.rs`) | where the future awaits, the target of the connection | `connect_async` and its siblings: URL to host and port, TCP connect | calls the TLS wrapping | `Connect` |
| TLS wrapping, `Connector` (`tls.rs`) | none of its own | `client_async_tls_with_config`, three `wrap_stream`s: choice of a wrapper and of roots by connector, features and scheme | creates a `MaybeTlsStream`, calls `client_async_with_config` | `Connect` |
| `MaybeTlsStream` (`stream.rs`) | the variant and what is in it: a socket or a TLS session around one | `poll_read`, `poll_write`, `poll_flush`, `poll_shutdown`, forwarded to the variant | below `AllowStd`; above the socket | `MaybeTlsStream` |
| chat servers (`examples/server.rs`, `server-custom-accept.rs`) | the map from addresses to senders, its mutex, a queue per connection | `handle_connection`: insert, broadcast, forward, remove; `handle_request` | one task per connection, on several threads; uses the split `WebSocketStream` | `ChatServer` |
| other examples, Autobahn programs | | | | no |

### What is hard here, and what makes each component correct

*Waker plumbing.* A socket remembers one waker per direction, the connection has
two halves, and either half may read or write: a `Stream` writes pongs, and a TLS
stream may have to write in order to read. Registration consists of two
separate statements (`compat.rs:79`), a wakeup of two separate `wake` calls (`compat.rs:118`),
and the latter run on another thread. `start_send` does I/O without registering
anything. It is correct when a half that returned `Pending` is always polled
again once it could go on.

*Stream and Sink.* `start_send` swallows `WouldBlock` (the message was queued),
`ready` is the only backpressure, `poll_flush` and `poll_close` take
`ConnectionClosed` for success, `poll_next` takes it for the end. A poll that
returns `Pending` has often moved frames, and its future may be dropped. It is
correct when messages arrive exactly once and in order, when what a flush or a
close reports is true, when the buffer stays bounded, when an end is reported as
normal only if nothing is missing, and when a close ends both sides.

*Handshake.* The machine wanders from the closure into an `Option`, out of it and
back at every interruption; losing it is a panic ("future polled after
completion"). Messages may come in with the response. It is correct when it never
panics, when the two ends do not contradict each other, and when early messages
survive.

*Connecting.* Connector, cargo features and URL scheme decide together whether a
connection is encrypted and whose certificates it trusts; the scheme is interpreted
twice (`connect.rs:83`, `tls.rs:206`), and the domain is prepared once for TLS
libraries with different needs (`lib.rs:421`). It is correct when `wss` never ends
up in clear text or at another server, and when a bad URL is refused before a byte
has been sent. (A socket may be opened for a URL that is refused afterwards:
`connect` asks for a scheme only if the URL names no port.)

*`MaybeTlsStream`.* A TLS session keeps what the socket has not taken. It is
correct when a flush or a shutdown that reports success has emptied the session,
so that no request stays behind while its answer is awaited and no end looks like
a truncation.

*Chat server.* A broadcast visits the queues of all others while connections join,
leave and vanish; senders are found by address, and an address comes back as soon
as its client is gone, before the old task has noticed. It is correct when all
members of the room hear the same in the same order, when nobody is turned out of it who
has not left, and when no `unwrap` in it fails.

## Modules

| Module | What it is |
|---|---|
| `AllowStd` | the waker plumbing, one action per statement that another thread can see |
| `AllowStdProofs` | `TypeCorrect`, `NoWakeupIsLost`, `EveryWaitIsRegistered` |
| `Tungstenite` | tungstenite's `WebSocket` as a set of operators (external) |
| `WebSocketStream` | two endpoints, each with its Stream and Sink, and the transport between them; extends `Tungstenite` |
| `MessageChannel` | the abstract specification `WebSocketStream` implements |
| `Counts` | lemmas: how many elements of a kind a sequence has when it grows, is joined or is cut |
| `WebSocketCalls` | lemmas: what each tungstenite call does to the frames sent and queued; extends `Counts` |
| `WebSocketStreamProofs` | `TypeCorrect`, `CloseIsLast`, `SentOnce`, `FlushTells`, `CloseTells`, `BacklogBounded`, `EndTells`, `IsChannel`, `StreamIsFront`; extends `WebSocketCalls` |
| `Handshake` | the futures of both ends of an opening handshake |
| `HandshakeProofs` | `TypeCorrect`, `NoPanic` |
| `HandshakeAgreement` | `EndsAgree`, `EarlyMessagesSurvive`; extends `HandshakeProofs` |
| `MaybeTlsStream` | the calls that are forwarded to a socket or a TLS session |
| `Connect` | from a request to a WebSocket and its first uses; extends `MaybeTlsStream` |
| `ConnectProofs` | `TypeCorrect`, `WssIsSecure`, `BadUrlIsSilent`, `PortFitsMode`, `RustlsGetsAddresses`, `FlushIsTrue`, `ShutdownIsTrue`; extends `Counts` |
| `ChatRoom` | the abstract specification of a chat room |
| `ChatServer` | the tasks of the chat server examples; implements `ChatRoom` |
| `ChatServerProofs` | `TypeCorrect`, `NoUnwrapFails`, `OrderIsKept`, `NobodyIsEvicted`, `ServerIsRoom`, `AllHearAlike` |
| `MC...` | the instances for TLC: symmetry sets and message bounds |

### `AllowStd`

`slot[p][k]` is the `AtomicWaker` of half `k` in the proxy `p`: for instance
`slot["Write"]["Read"]` is `write_waker_proxy.read_waker`. `waiter[d]` says which
proxy the socket remembers for its direction `d`, `wake[w]` how far thread `w` has
come in `wake_by_ref`, `cur` which poll is running and where it is, `user`, `want`
and `woken` which task sits behind each half, what it waits for and whether it has
been scheduled. A poll goes through `poll`, `set_waker_write_proxy`,
`set_waker_read_proxy`, any number of `with_context` calls and `return_pending` or
`return_ready`, and between any two of them a direction may become ready and a
waking thread may take a step. An `AtomicWaker` that is registered while it is
being woken wakes the new waker at once, or stores it: both outcomes are in
`register`. `cancel` drops a pending future; the waker it registered stays behind.

The constant `Tls` says whether an operation of the stream may block on either
direction of the socket (TLS) or only on its own.

One assumption is about the executor and not about this code: a task that is
scheduled polls all the halves it uses (`UsedBy`). Combinators that poll only
members that were woken themselves bring wakers of their own, which are further
"tasks" in the sense of this module.

### `Tungstenite` and `WebSocketStream`

`Tungstenite` is external: it models the part of the crate's behaviour the code
in `src/` relies on, at the grain of whole frames. A call is a record that carries
the WebSocket, the room left in the transport and the result so far; `Then` is
Rust's `?`. Modelled are the five states, the write buffer with its two limits
(`WriteLen`, `MaxOut`), the slot in which a Pong or a Close reply waits,
`should_flush`/`unflushed`, and the errors `WouldBlock`, `WriteBufferFull`,
`SendAfterClosing`, `AlreadyClosed`, `ConnectionClosed`, `Protocol` and `Io`.
Masking, fragmentation and the content of frames are not.

`WebSocketStream` has one action per `Stream`/`Sink` method, each the whole
method: the early return, the tungstenite call and what the code makes of the
result. How results are classified stands in one operator per idea (`Pending`,
`Queued`, `Blocked`, `Flushed`, `Ends`, `NormalEnd`). A poll is one action because
a split stream is guarded by a lock and the transport only interacts with it
through its room and its arrivals. `accepted`, `yielded` and `told` are history:
they record what the user was told, and in `told.full` whether a full write
buffer refused the Close the user asked for, or keeps back the reply to the peer's. `permit` is the contract of `Sink`: no
`start_send` before `poll_ready` said `Ok`. `drop` and `reset` are the
environment; `Faulty` allows them at any time, otherwise a stream is dropped only
after its end.

A future that is dropped while pending needs no action of its own: nothing ties
the next poll of the model to the one that returned `Pending`.

### `MessageChannel`

A reliable, ordered channel in each direction: messages are accepted, delivered in
that order, and the reading side ends once, normally only when everything accepted
was delivered, after which nothing more is accepted for it. `ImplementsChannel` in
`WebSocketStream` is the refinement: `delivered` is what `poll_next` yielded,
`over` is read off `ended` and the way it came about.

### `Handshake`

Each end awaits a `StartedHandshakeFuture`, which holds the closure, and after an
interruption a `MidHandshake`, which holds the machine in its `Option`. `running`
is the machine a poll has taken out. A poll consists of several rounds of the
machine (`write_round`, `flush_round`, `read_round`), so the two ends interleave
inside polls. Requests and responses are sequences of pieces: the transport takes
and delivers any number of them at a time, and a read may get pieces of the
messages that follow the response. `cancel` drops a pending handshake.

`DoneElsewhere` begins with both futures skipped (`from_raw_socket`,
`from_partially_read`): another library did the handshake, has read some pieces of
what the server sent next (`part`) and left others in the transport.

### `MaybeTlsStream` and `Connect`

`Init` of `Connect` chooses the cargo features with the sources of root
certificates, the state of the system's certificate store, the URL, the connector
and whether the caller brings a stream (`client_async_tls*`) or not
(`connect_async*`). The actions are the segments between two awaits: `connect` (up to
`TcpStream::connect`), `dial`, `client_async_tls_with_config` (up to the TLS
handshake), `tls_handshake`, and the client handshake as `write_request`,
`flush_request`, `read_response`; the handshake in detail is the subject of
`Handshake`. `server` is whoever answers, with a certificate for one host and from
one issuer; the TLS libraries are assumed to let in only a server that is certified
for the name they were given by a root they were given. `Expected` says which issuers a
caller expects, from the features as `Cargo.toml` and the changelog describe them:
the system's store where native-tls is built, else the sources chosen for rustls.
Only rustls has a check of the form of a name (`InvalidDnsName`); native-tls may fail in its
handshake for any reason, so that nothing is said of the form in which it wants addresses.

Pieces on the `wire` are in clear or `sealed`. `session` holds the records of a rustls
session which the socket has not taken: a write hands any number of them on,
a flush reports success only when there are none left. A native-tls session is
modelled without records of its own. `shutdown` is the user's, who takes the stream out
with `into_inner` or borrows it with `get_mut`.

### `ChatServer` and `ChatRoom`

`task[c]` is how far `handle_connection` of connection `c` is; `peer_map`, `lock` and
`poisoned` are the shared map, the holder of its mutex and whether a holder panicked.
A broadcast takes the mutex in `read_message`, serves one recipient per step in
`unbounded_send` and gives the mutex back in `broadcast_done`; `forward` moves a
message from the queue to the Sink. `unbounded_send` fails, and panics, when the
receiver is gone; the receiver lives until its task has returned. A Close frame is a
message: it is broadcast too, after which the recipient's Sink takes nothing more and
its client answers. Clients talk, close, or are gone without a word, and what a client that is
gone sent last may be lost with it. An address is free again when the
connection that had it is over; with `EarlyReuse`, `accept` may give it to a new
connection as soon as the old client is gone, although the old task has not noticed. Writing to a socket
and the WebSocket below are abstracted: `sunk` is what `forward` has handed over.

`ChatRoom` is a room whose members hear everything the others say, in one order for
all. In the refinement a member is an address in the map, and has heard what went to
its Sink, what is in its queue, and the message that a broadcast under way has yet
to bring it: the whole room hears a message when its broadcast takes the mutex.
`ImplementsRoom` is the strict room (`Spec`), in which nobody enters twice, nobody leaves who has
not gone away, and only members speak; `KeepsOrder` is what remains when addresses come back early
(`LooseSpec`), where members may also be turned out. `ClientsAreInRoom` says
directly that a client which is served and talks is in the map.
`HearAlike` says what one order for all means to two members: counted from the latest back,
leaving aside what either of them said, they were told the same. To compare an order two
listeners need two others who speak, so that a run would need four connections; it follows from
`OrderIsKept` and is proved (`AllHearAlike`) instead of being checked by a run.

## Runs

| Run | Question | Bounds |
|---|---|---|
| `wakers` | can a wakeup get lost between the halves, and is a half that could go on polled again? | two tasks, one waking thread, TLS (whose behaviours include those of a plain socket), fair |
| `stream` | order, completeness, one Close; does `ready` bound the write buffer? | two messages and one, a transport of one frame, a buffer written at once and never full |
| `stream_full` | is a refused message really not sent, and what is a close worth then? | one message against two, a buffer of one frame, which a pong fills |
| `stream_faulty` | refinement of `MessageChannel`, no gap in what a Stream returns, normal ends | resets and early drops anywhere, two messages one way |
| `stream_live` | does every close end both Streams? can two writers on full transports block each other? | two pings each way, a close begun while neither has sent more than one, a transport of one frame, a buffer written beyond one frame, fair |
| `stream_ready_doc` | is `ready` what its doc says? (violated) | |
| `stream_close_doc` | is `poll_close` complete when it says so? (violated) | |
| `handshake` | no panic, outcomes agree, early messages kept, both handshakes end (fair) | messages of four pieces, a transport of three, two early pieces |
| `connect` | is `wss` secure, is a bad URL refused in time, does a TLS session keep anything back? | all features, connectors and entry points; a name, an IPv6 address, a host that is no name, one port or none; request and one frame |
| `chat` | is the server the room its doc promises, without a panic? | three connections from three addresses, three things that users do, text, no address back early |
| `chat_reuse_doc` | is everyone who is connected in the room, when addresses come back early? (violated) | two connections from one address |
| `chat_doc` | is a client that sends only text always served? (violated) | two connections, one of which may send binary |

Why these bounds are enough. Two tasks are one per half, and a half may also move
between them; one waking thread is enough for a wakeup that falls between any two statements of
a poll; that several threads at once lose nothing either is what `NoWakeupIsLost` proves. For the connection, one frame of
transport makes every write of two frames block in the middle; a message, a pong
and a Close in the same direction then meet in the buffer in every order. A
message is refused only if the buffer fills between `poll_ready` and `start_send`,
which takes a pong that blocks: hence the pings and the buffer of one frame in
`stream_full`. A
message of four pieces over three pieces of transport cannot be written in one
call, and two early pieces can arrive with the response, after it, or one each.
In `connect` every member of a set is a
case the code distinguishes (a second port or name would behave like the first), and
two pieces are enough for a session to hold one back while it writes another. Three
connections are two who speak at the same time and one who joins or leaves meanwhile, and with three
things that users do there are two messages and a departure in any order. For two replies to wait
on two full transports, each side needs two messages that ask for one: with `Cap` 1, something
fills each transport and a pong waits behind it at both ends. `stream_live` has them; that its messages are
pings, and that a close begins (`MaxBeforeClose`) before the second message of either side, keeps it small,
data messages and later closes being in the other runs. The proofs remove the bounds for every safety property of every passing run.

`MaxSend` bounds the messages of an endpoint and, in `AllowStd`, nothing is bounded
except the sets. Pings and data messages count alike; the user's Close is not
counted, tungstenite refuses a second one.

A full write buffer is the one exception `CloseIsSent` makes, in two cases. Asked for a
Close with a full buffer, tungstenite moves to its closing state and then refuses the frame
(`WriteBufferFull`, `CloseRefused`); `start_send` and `poll_close` return the error, the next
`poll_close` reports success, and the Close is never sent. Or the reply to the peer's Close finds
the buffer full and stays behind while everything else is flushed, and `poll_close` reports
success without it (`ReplyWaits`). `told.full` is set in exactly these two cases, and a
`poll_close` that is tried again is not excused because the Close it has queued fills the
buffer itself. An unlimited buffer is the crate's default, and with it there are no
exceptions: in `stream` and `stream_live` the buffer never fills.

`BoundedBacklog` speaks of a connection that is up. After a reset each `start_send` fails with
an I/O error that does not clear `ready`, while the message stays in the buffer: a user who
goes on sending in spite of the errors can fill it up to its limit.

### Where the code departs from what is documented

- `ready` is documented (`src/src/lib.rs:209`) as false from a `WouldBlock` in
  `start_send` until a flush. `poll_close` sets it before it flushes anything, so a
  `poll_close` that returns `Pending` unblocks the Sink. Run `stream_ready_doc`.
- `poll_close` says it flushes "to drive the close handshake to completion"
  (`src/src/lib.rs:392`). It is complete once the Close frame has been written;
  the peer's Close may not even have been sent. Run `stream_close_doc`.
  The close handshake does complete if the `Stream` is read on: `CloseEndsBoth`.
- The chat server's documentation (`src/examples/server.rs:16`) says that all connected clients
  see everyone else's messages. A message that is not UTF-8 panics its task when it is
  printed (line 52; `src/examples/client.rs` sends such messages, it cuts its
  input into binary messages of at most 1024 bytes). The panic skips the `remove` of line
  72 and drops the queue, so that the next client's broadcast fails at line 60 while it
  holds the mutex and poisons it: neither it nor any later client is served. Run
  `chat_doc`.
- The same sentence fails with text only when an address comes back before the task that had
  it has returned. The newcomer's `insert` replaces the old sender, and the
  old task's `remove(&addr)` (line 72) then deletes the newcomer's: it hears nothing more, its queue has
  lost its sender, and its task ends. Run `chat_reuse_doc`. What survives is that no broadcast
  panics and that those who are in the room hear alike, which is proved (`NoUnwrapFails`,
  `OrderIsKept`); as long as no address comes back early the room is what the
  documentation says (`chat`).

## Fairness

- `AllowStd`: a thread in `wake_by_ref` finishes; a poll runs to its end, since it is
  synchronous code that makes finitely many I/O calls; the executor polls a
  scheduled task, strongly fair because the other half may hold the BiLock whenever
  this one tries and each unlock wakes the loser. Nothing is assumed of sockets or
  users.
- `WebSocketStream`: the user reads until the Stream ends and then drops it, and polls a
  flush it has begun. Polls that cannot move anything are stutters, so weak
  fairness asks only for the polls for which `AllowStd` delivers a wakeup. There is
  none for sending or closing.
- `Handshake`: both futures are awaited, a poll runs to its end, a pending one is
  polled when its machine can go on, and a flush that is retried does not block for
  ever.
- `Connect`: the future is awaited, TCP connect and TLS handshake come to an end one way
  or the other, a flush does not block for ever, and a server that has the whole
  request answers it. Nothing is assumed of writes: a request that a flush leaves in
  the session is never answered.

## Proofs

All theorems hold for every value of the constants that satisfies the named
assumptions (`WakerAssumption`, `BufferAssumption`, `ConnectionAssumption`, `LengthAssumption`,
`ConnectAssumption`, `ChatAssumption`); those about the chat server also need `TextOnly`, that no client sends
binary messages, without which `chat_doc` refutes them.

`AllowStdProofs`: `TypeCorrect` is `Spec => []TypeOK`. `NoWakeupIsLost` and
`EveryWaitIsRegistered` state `NoLostWakeup` and `WakeupArranged`. Neither is inductive: both
speak of parked halves only, while what makes them true is established step by step
while the half is still being polled. The inductive invariant `IInv` adds

- `WaiterBlocked`: the socket remembers a proxy only for a direction that is not ready,
- `WantAfterIO`: a half waits for nothing before its poll has done I/O,
- `SlotsHoldUser`: after each statement of `set_waker` the task is in the slot, or it
  was scheduled since the poll began (this is why registering *before* the I/O matters),
- `WantCovered`: a direction a half waits for is remembered by the socket, or a wakeup
  is on its way through this half's slot, or the half was scheduled,
- `RawIdle` and `PolledByTask`, which exclude polls before `AllowStd::new`.

The slot a wakeup finds is that of the half because *both* proxies hold it: that
is why the code registers every half twice.

`WebSocketStreamProofs`: six of the nine theorems rest on one invariant. The argument has two
layers.

`WebSocketCalls` looks at one endpoint and one call. `Transcript` is what the endpoint had
written before the call, what the call wrote, and what is still in its buffer. `Proceeds`
holds of every operation: frames move from the buffer to the transport and none passes
another, and a Close is queued only if there is none yet (`Consistent` ties this to the
state and to the waiting reply). `Keeps` says that the messages in the transcript stay the
ones the Sink took, `Takes` that there is one more. One lemma per operation of `Tungstenite`
follows its control flow; `Write` says that a message is in the transcript exactly when
`start_send` is right to report success, `Flush` and `Closing` that Ok leaves nothing in
the buffer, `Read` what the results of a read allow a Stream to conclude.

`WebSocketStreamProofs` looks at the two endpoints. `Flow` is the invariant of a direction: in
what was written and not lost the messages are the first ones taken, without a gap
(`InOrder`); all of them if a Close is among it; and, as long as nothing can
have been lost, the transcript carries exactly what was taken. Two things can be taken out
of the middle of a transcript, the Pongs a Stream does not return and what a reset or a drop
loses, and `Thinning` says that what remains keeps its order. `Yields` numbers what a
Stream returned by its place, `Endings` says that a connection that cannot be read while its
Stream goes on has received a Close. `CloseSaysAll` is the heart of `EndTells` and
`IsChannel`: once the peer's Close has been returned, so has every message. `IsChannel`
maps `start_send` to `accept`, which is allowed because an Active endpoint has sent no
Close, `poll_next` to `deliver` or `end`, and everything else to stutters.

`CloseTells` and `BacklogBounded` need what `IInv` does not say, a second invariant, `SinkIInv`,
proved on top of it. `CloseOf`: an endpoint that is no longer Active has sent a Close, queued it, or put
it aside as a reply, unless one of the two cases of `told.full` has happened. This
is why the flush that follows an interrupted close may call success what it finds; without `told.full`
it is not inductive, and TLC shows the two cases above. `BacklogOf`: a Sink that is `ready` and Active has at
most `WriteLen` messages waiting, so that one more makes `WriteLen + 1`. It
counts messages and not frames, since pongs share the buffer and come at any time. Its
weak place is `poll_close`, which sets `ready` whatever waits; it leaves the endpoint not Active, and such an
endpoint queues no message. `FlagsOf` ties `permit` and `closing` to this. `Counts` has the arithmetic: a
call moves a front part of the buffer to the transport and adds at most one message
(`Proceeds` and `Takes`, with numbers).

`StreamIsFront` needs none of these: any `MessageChannel` delivers a front part of
what it accepted (`ChannelStep`), and `IsChannel` carries this over to the endpoints, under all faults.

`HandshakeProofs`: `TypeCorrect`, and `NoPanic`, which states
`NeverPolledAfterCompletion`. Its invariant says where the machine is: an awaited
`MidHandshake` has it in its `Option`, or a running poll has taken it.

`HandshakeAgreement`: `EndsAgree` and `EarlyMessagesSurvive` relate the two ends, so the
invariant, `Agreement`, relates what one end has sent to what the other has seen. First, a
machine may be in the closure, in the `Option` or in a running poll, and nothing depends on
which: the lemmas about `In` and `Out` let the rest of the argument speak of *the* machine of
an end (`OneMachine`). Then `Stages` says which machines an end may have, `Requests` that the
pieces the server has read, those in the pipe and those the client has yet to write are
the request, in this order, as long as nobody gave up; `Responses` says the same of the
reply, and `Earlies` of the messages behind it, of which a read may already have swallowed
some. `Outcome` fixes what an end that is done implies for its peer.

`ConnectProofs`: one invariant for the first five theorems. `Wrapped` says of every point of the
future which stream there is, that a TLS session exists only for `wss`, with the URL's host
and an expected issuer, and a plain one only for `ws`; `Written` that everything in the
session and on the wire is safe in that sense, and that there is nothing of a bad URL;
`Dialled` how the target comes from the URL. The features, the connector and the store are
arbitrary. `RustlsGetsAddresses` is about rustls alone, the only library whose check of names
the model has. `FlushIsTrue` and `ShutdownIsTrue` add `Buffers`. `Accounted`: the messages on the wire and in the
session are together those written, and what was reported flushed is on the wire. `Shut`:
before the shutdown no end of the socket is queued anywhere, and after one that was reported the session
is empty and the close_notify has left first. A shutdown that is interrupted and
tried again keeps both, since what is left in the session goes before anything new.

`ChatServerProofs`: `NoUnwrapFails` rests on `Mapped`: a sender in the map belongs to a task
that has not returned, an address in the map belongs to one task, and a task between its insert
and its remove is in the map unless a newer connection has taken its address. `Locking`
makes the broadcast the only task that holds the mutex, `Queues` says that what a queue
holds are messages of others. `OrderIsKept` maps each action: `read_message`, which
takes the mutex, to `Tell`; the steps of the broadcast, whose recipients get from the queue what
they had already heard, to stutters; `insert` and `remove` to `Enter` and `Exit`, clients that close
or vanish to `Depart`. `hold` (the whole broadcast under one mutex) is what keeps `members`
still meanwhile. It needs nothing of addresses. `NobodyIsEvicted` and `ServerIsRoom` assume `~EarlyReuse` and
add the invariant `Settled`: two connections that have not ended have different addresses
(`Sole`), a connection that is served is in the map (`InMap`), so that a task removes its own entry and
an insert finds none, and only clients that left lose their task (`Departed`). With it each `Enter` is a
`Join`, each `Exit` a `Leave` and each `Tell` a `Say`.
`AllHearAlike` is proved of `ChatRoom` (`RoomAlike`: a message of a third party is told to both
members, and makes every count one higher; one of their own changes no count) and
carried over by `OrderIsKept`, as `StreamIsFront` is by `IsChannel`.

Model-checked only: the liveness properties `WakeupDelivered`, `CloseEndsBoth`, `AcceptedArrives`,
`HandshakeEnds` and `ConnectEnds` (fairness and `ENABLED` are out of the prover's reach).
Nothing that is proved needs induction over data: `Carries` compares frames by quantifiers and by
the numbers an endpoint gives its messages, numbers of messages are cardinalities, and
`MessageLen` and the sequences of pieces of the handshake are functions.

## Plan

Done, in this order: `AllowStd` with its proofs, `Tungstenite` and
`WebSocketStream` with `MessageChannel` and its proofs, `Handshake` with its proofs, skipped handshakes,
`MaybeTlsStream` and `Connect` with their proofs, the chat server with its refinement
and its proofs, the agreement of the two ends of a handshake, and theorems for what was only
model-checked of the Sink and of `MaybeTlsStream`. Left:

1. A composition of the two halves of one endpoint with `AllowStd`, so that a Pending
   poll of `WebSocketStream` and the wakeup it waits for are one model.

## Not modelled

- What `into_inner` discards: tungstenite's buffers are lost by design, and
  nothing documents more. The stream it hands out is modelled (`shutdown` in `Connect`).
- `get_ref`, `get_config` and `is_terminated`'s siblings that only look.
- The other examples and the Autobahn programs: each is a loop over one connection (echo,
  a timer beside a reader, printed headers) without state shared between tasks.
- The chat server's sockets: a connection whose Sink blocks only delays `forward`, which the
  model may delay anyway. Fairness of its mutex: `chat` checks deadlock, not progress.
- The TLS libraries, certificates, `TcpStream`, tokio's driver.
- A transport that itself buffers until it is flushed: `flush_stream` never blocks
  in `Tungstenite`, whose frames go straight to the transport; `MaybeTlsStream` is
  such a transport, and `Connect` has the flushes. In `AllowStd` a flush is a write that may block, and in
  `Handshake` a flush may block.
- Messages of the user other than data, pings and Close: a Pong sent by hand takes the slot of the
  automatic replies, and a raw `Frame` goes out as it is.
- HTTP parsing, header callbacks beyond accept or reject, logging, configuration other than
  the two buffer limits.
