-------------------------- MODULE MCWebSocketStream --------------------------
(* Bounds for TLC: the messages each endpoint sends. *)
EXTENDS WebSocketStream

Send(client, server) == [Client |-> client, Server |-> server]

Send22 == Send(2, 2)
Send21 == Send(2, 1)
Send12 == Send(1, 2)
Send11 == Send(1, 1)
Send20 == Send(2, 0)
=============================================================================
