----------------------------- MODULE Tungstenite -----------------------------
(***************************************************************************)
(* The WebSocket object of the tungstenite crate, as the code in src/ uses *)
(* it: read, write, flush and close on a stream that may answer            *)
(* WouldBlock at any call.  The crate is external.  It is modelled at the  *)
(* grain of whole frames, with its write buffer and its one-frame slot for *)
(* control replies; masking, fragmentation and parsing are left out.       *)
(*                                                                         *)
(* A call is a record: the WebSocket (ws), what the stream below can still *)
(* take (room) and has taken (sent), whether it is connected (up), and the *)
(* result so far.  An operation maps a call to the set of calls it may     *)
(* become, which operations in sequence thread through one another.        *)
(***************************************************************************)
EXTENDS Integers, Sequences

CONSTANTS
    WriteLen,  \* write_buffer_size: more frames than that are written at once
    MaxOut     \* max_write_buffer_size: no frame is queued beyond that many

ASSUME BufferAssumption == WriteLen \in Nat /\ MaxOut \in Nat /\ WriteLen < MaxOut

NoFrame == [op |-> "None", id |-> 0]
CloseFrame == [op |-> "Close", id |-> 0]
Pong(ping) == [op |-> "Pong", id |-> ping.id]

(* WebSocketContext::new. *)
NewWebSocket ==
    [state |-> "Active", additional |-> NoFrame, unflushed |-> FALSE, out |-> <<>>]

States == {"Active", "ClosedByUs", "ClosedByPeer", "CloseAcknowledged", "Terminated"}

CanRead(s) == s \in {"Active", "ClosedByUs"}

NewCall(role, ws, room, up) ==
    [role |-> role, ws |-> ws, room |-> room, up |-> up, sent |-> <<>>,
     msg |-> NoFrame, should_flush |-> FALSE, res |-> "Ok"]

Fail(c, e) == [c EXCEPT !.res = e]

(* The ? operator: go on with Op unless the call has already failed. *)
Then(calls, Op(_)) == UNION {IF c.res = "Ok" THEN Op(c) ELSE {c} : c \in calls}
-----------------------------------------------------------------------------
(* FrameCodec::write_out_buffer: writes until the buffer is empty, the     *)
(* stream blocks, or it fails.                                             *)
write_out_buffer(c) ==
    LET out  == c.ws.out
        n    == IF Len(out) < c.room THEN Len(out) ELSE c.room
        took == [c EXCEPT !.ws.out = SubSeq(out, n + 1, Len(out)),
                          !.sent   = @ \o SubSeq(out, 1, n),
                          !.room   = @ - n]
    IN  CASE out = <<>>                        -> {c}
          [] out # <<>> /\ ~c.up               -> {Fail(c, "Io")}
          [] out # <<>> /\ c.up /\ n = Len(out) -> {took}
          [] OTHER                             -> {Fail(took, "WouldBlock")}

(* A reset after the closing handshake is a normal end. *)
check_connection_reset(c) ==
    IF c.res = "Io" /\ ~CanRead(c.ws.state) THEN Fail(c, "ConnectionClosed") ELSE c

(* Queues a frame, and writes once the buffer holds more than WriteLen. *)
buffer_frame(c, f) ==
    LET queued == [c EXCEPT !.ws.out = Append(@, f)]
    IN  IF Len(c.ws.out) >= MaxOut THEN {Fail(c, "WriteBufferFull")}
        ELSE IF Len(c.ws.out) < WriteLen THEN {queued}
        ELSE {check_connection_reset(d) : d \in write_out_buffer(queued)}

(* A newer pong replaces a waiting pong; nothing replaces a waiting Close. *)
set_additional(c, f) ==
    IF c.ws.additional.op \in {"None", "Pong"}
    THEN [c EXCEPT !.ws.additional = f]
    ELSE c

(* The waiting control frame is queued too, or kept when there is no space. *)
write_additional(c) ==
    IF c.ws.additional = NoFrame
    THEN {[c EXCEPT !.should_flush = c.ws.unflushed]}
    ELSE {IF d.res = "WriteBufferFull" THEN c ELSE [d EXCEPT !.should_flush = TRUE] :
            d \in buffer_frame([c EXCEPT !.ws.additional = NoFrame], c.ws.additional)}

(* A server that cannot read any more closes the connection once its       *)
(* buffer is written.                                                      *)
terminate(c) == {[c EXCEPT !.ws.state = "Terminated", !.res = "ConnectionClosed"]}

ServerDone(c) == c.role = "Server" /\ ~CanRead(c.ws.state)

finish_server(c) ==
    IF ServerDone(c) THEN Then(write_out_buffer(c), terminate) ELSE {c}

(* WebSocketContext::_write, with f = NoFrame for None. *)
write_frame(c, f) ==
    Then(Then(IF f = NoFrame THEN {c} ELSE buffer_frame(c, f), write_additional),
         finish_server)

flush_stream(c) ==
    {IF c.up THEN [c EXCEPT !.ws.unflushed = FALSE] ELSE Fail(c, "Io")}

flush(c) == Then(Then(write_frame(c, NoFrame), write_out_buffer), flush_stream)

close(c) ==
    IF c.ws.state = "Active"
    THEN Then(write_frame([c EXCEPT !.ws.state = "ClosedByUs"], CloseFrame), flush)
    ELSE flush(c)

flush_if_needed(c) == IF c.should_flush THEN flush(c) ELSE {c}

(* Mutant: the state is not asked. *)
write_any_state(c, f) == Then(write_frame(c, f), flush_if_needed)

write(c, f) ==
    IF c.ws.state = "Terminated" THEN {Fail(c, "AlreadyClosed")}
    ELSE IF c.ws.state # "Active" THEN {Fail(c, "SendAfterClosing")}
    ELSE IF f.op = "Close" THEN close(c)
    ELSE Then(write_frame(c, f), flush_if_needed)
-----------------------------------------------------------------------------
(* A frame that arrived: a Close changes the state and, on an active       *)
(* connection, is answered; a Ping is answered on an active connection.    *)
on_frame(c, f) ==
    LET d == [c EXCEPT !.msg = f]
        s == c.ws.state
    IN  CASE ~CanRead(s) -> Fail(d, "Protocol")
          [] s = "Active" /\ f.op = "Close" ->
                set_additional([d EXCEPT !.ws.state = "ClosedByPeer"], CloseFrame)
          [] s = "ClosedByUs" /\ f.op = "Close" ->
                [d EXCEPT !.ws.state = "CloseAcknowledged"]
          [] s = "Active" /\ f.op = "Ping" -> set_additional(d, Pong(f))
          [] OTHER -> d

(* read_message_frame on the frames rx that have arrived; eof: the peer    *)
(* will send no more.                                                      *)
read_message_frame(c, rx, eof) ==
    IF rx # <<>> THEN {on_frame(c, Head(rx))}
    ELSE IF ~c.up THEN {check_connection_reset(Fail(c, "Io"))}
    ELSE IF ~eof THEN {Fail(c, "WouldBlock")}
    ELSE {Fail([c EXCEPT !.ws.state = "Terminated"],
               IF CanRead(c.ws.state) THEN "Protocol" ELSE "ConnectionClosed")}

(* Mutant: a reply that blocks is waited for. *)
flush_reply_first(c) ==
    {IF d.res = "WouldBlock" THEN [d EXCEPT !.ws.unflushed = TRUE] ELSE d : d \in flush(c)}

(* The reply to a Ping or a Close is flushed first; that it blocks does    *)
(* not keep the connection from reading.                                   *)
flush_reply(c) ==
    {IF d.res = "WouldBlock" THEN [d EXCEPT !.res = "Ok", !.ws.unflushed = TRUE] ELSE d :
        d \in flush(c)}

read(c, rx, eof) ==
    IF c.ws.state = "Terminated" THEN {Fail(c, "AlreadyClosed")}
    ELSE IF c.ws.additional # NoFrame \/ c.ws.unflushed
    THEN Then(flush_reply(c), LAMBDA d : read_message_frame(d, rx, eof))
    ELSE IF ServerDone(c) THEN terminate(c)
    ELSE read_message_frame(c, rx, eof)
=============================================================================
