---------------------------- MODULE MaybeTlsStream ----------------------------
(***************************************************************************)
(* src/stream.rs: a socket, or a TLS session around one.                   *)
(*                                                                         *)
(* Every call is forwarded to the variant, and the variants differ in what *)
(* they leave behind.  A TcpStream has no buffer of its own.  A rustls     *)
(* session takes what is written and hands its records to the socket as    *)
(* far as the socket accepts them: the rest waits for a later call.  A     *)
(* native-tls session seals a piece when the socket takes it.  The TLS     *)
(* libraries and the socket are external.  A call that returns Pending     *)
(* without having moved anything is a stutter and is not written down.     *)
(***************************************************************************)
EXTENDS Integers, Sequences

VARIABLES
    variant,  \* the variant of MaybeTlsStream, "None" before there is one
    session,  \* records of the TLS session the socket has not taken
    wire,     \* everything the socket has taken
    inbox     \* what has arrived on the socket and was not read

streamVars == <<variant, session, wire, inbox>>

Clear(what) == [what |-> what, sealed |-> FALSE]
Sealed(what) == [what |-> what, sealed |-> TRUE]

ToSocket(pieces) == wire' = wire \o pieces /\ UNCHANGED session

(* The rustls session, holding records, hands some or all to the socket. *)
Ship(records, n) ==
    /\ wire' = wire \o SubSeq(records, 1, n)
    /\ session' = SubSeq(records, n + 1, Len(records))

(* AsyncWrite::poll_write returning Ready: the piece was taken. *)
poll_write(what) ==
    /\ CASE variant = "Plain"     -> ToSocket(<<Clear(what)>>)
         [] variant = "NativeTls" -> ToSocket(<<Sealed(what)>>)
         [] variant = "Rustls"    ->
              \E n \in 0..(Len(session) + 1) : Ship(Append(session, Sealed(what)), n)
    /\ UNCHANGED <<variant, inbox>>

(* Mutant: the flush goes to the socket and not to the session around it. *)
poll_flush_socket(done) == UNCHANGED streamVars

(* AsyncWrite::poll_flush, done when it returns Ready. *)
poll_flush(done) ==
    /\ IF variant = "Rustls"
       THEN \E n \in 0..Len(session) : done = (n = Len(session)) /\ Ship(session, n)
       ELSE done /\ UNCHANGED <<session, wire>>
    /\ UNCHANGED <<variant, inbox>>

Notified == \E i \in DOMAIN (wire \o session) : (wire \o session)[i].what = "close_notify"

(* Mutant: the socket is shut down, not the session around it. *)
poll_shutdown_socket(done) ==
    done /\ ToSocket(<<Clear("fin")>>) /\ UNCHANGED <<variant, inbox>>

(* AsyncWrite::poll_shutdown.  rustls announces the end once, sends all it *)
(* holds and shuts the socket down; tokio-native-tls sends its             *)
(* announcement and leaves the socket alone.                               *)
poll_shutdown(done) ==
    /\ CASE variant = "Plain"     -> done /\ ToSocket(<<Clear("fin")>>)
         [] variant = "NativeTls" -> done /\ ToSocket(<<Sealed("close_notify")>>)
         [] variant = "Rustls"    ->
              LET records == IF Notified THEN session ELSE Append(session, Sealed("close_notify"))
              IN  \/ ~done /\ \E n \in 0..Len(records) : Ship(records, n)
                  \/ done /\ Ship(Append(records, Clear("fin")), Len(records) + 1)
    /\ UNCHANGED <<variant, inbox>>

(* AsyncRead::poll_read returning Ready: the caller gets a piece, opened   *)
(* by the session when there is one.                                       *)
poll_read(piece) ==
    /\ inbox # <<>>
    /\ piece = IF variant = "Plain" THEN Head(inbox) ELSE Clear(Head(inbox).what)
    /\ inbox' = Tail(inbox)
    /\ UNCHANGED <<variant, session, wire>>
=============================================================================
