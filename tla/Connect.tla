------------------------------- MODULE Connect -------------------------------
(***************************************************************************)
(* src/connect.rs and src/tls.rs, with domain of src/lib.rs: from a request*)
(* to a WebSocket over a socket or a TLS session, and the first uses of it.*)
(*                                                                         *)
(* What the code does depends on the cargo features it was built with, the *)
(* request, the connector and the function that was called: Init chooses   *)
(* them.  Name resolution, the TLS handshake and the server are external.  *)
(* The client handshake itself is the subject of Handshake; here it is a   *)
(* request written and flushed and an answer read.                         *)
(***************************************************************************)
EXTENDS MaybeTlsStream, FiniteSets

CONSTANTS
    Host,       \* hosts a URL names
    Ipv6,       \* those that are IPv6 literals, in brackets in a URL
    Unusual,    \* those that are no valid names for a certificate
    Ports,      \* ports a URL names
    MaxFrames   \* bound: frames written on the connection

NoHost == "no host"
NoPort == -1

ASSUME ConnectAssumption ==
    /\ Ipv6 \subseteq Host /\ Unusual \subseteq Host /\ Ipv6 \cap Unusual = {}
    /\ NoHost \notin Host
    /\ Ports \subseteq Nat
    /\ MaxFrames \in Nat

(* native-tls and __rustls-tls, the latter with its sources of root        *)
(* certificates.                                                           *)
Build ==
    {b \in [native : BOOLEAN, rustls : BOOLEAN, roots : SUBSET {"native", "webpki"}] :
        b.roots # {} => b.rustls}

(* A URI without a host is a mere path. *)
Uri ==
    [scheme : {"ws", "wss", "other", "none"}, host : Host, port : Ports \cup {NoPort}]
      \cup [scheme : {"none"}, host : {NoHost}, port : {NoPort}]

VARIABLES
    build,      \* the cargo features, and what the system's certificate store holds
    call,       \* uri and connector of the call, and whether it brings a stream
    at,         \* where the future awaits, or how the connection stands
    result,     \* what the future returned
    target,     \* where TcpStream::connect was sent
    server,     \* who answered there: host and issuer of its certificate
    told        \* pieces written, those reported flushed, and a reported shutdown

vars == <<streamVars, build, call, at, result, target, server, told>>

(* The functions that take a connector or a stream need a TLS feature. *)
HasTls(b) == b.native \/ b.rustls

Connectors(b) ==
    {"None"} \cup (IF HasTls(b) THEN {"Plain"} ELSE {})
             \cup (IF b.native THEN {"NativeTls"} ELSE {})
             \cup (IF b.rustls THEN {"Rustls"} ELSE {})

NoServer == [host |-> NoHost, issuer |-> "none"]
NoTarget == [host |-> NoHost, port |-> NoPort]

Init ==
    /\ \E b \in Build, store \in {"missing", "unusable", "good"} :
        /\ build = [features |-> b, store |-> store]
        /\ call \in [uri : Uri, connector : Connectors(b),
                     given : IF HasTls(b) THEN BOOLEAN ELSE {FALSE}]
    /\ at = IF call.given THEN "upgrade" ELSE "called"
    /\ server \in IF call.given
                  THEN [host : Host, issuer : {"native", "webpki", "own"}] ELSE {NoServer}
    /\ result = "none"
    /\ target = NoTarget
    /\ told = [written |-> 0, flushed |-> 0, shutdown |-> FALSE]
    /\ variant = "None" /\ session = <<>> /\ wire = <<>> /\ inbox = <<>>

(* The future returns Err, or is dropped, and the socket with it. *)
Fail(err) == at' = "failed" /\ result' = err

Unchanged_stream == UNCHANGED <<streamVars, told>>
-----------------------------------------------------------------------------
(* Mutant: domain leaves the brackets of an IPv6 literal alone. *)
domain_bracketed(uri) == [host |-> uri.host, brackets |-> uri.host \in Ipv6]

(* domain, for a URI that has a host: with rustls without the brackets. *)
domain(uri) ==
    [host |-> uri.host, brackets |-> uri.host \in Ipv6 /\ ~build.features.rustls]

(* Mutant: an unknown scheme has a default port. *)
port_lenient(uri) ==
    IF uri.port # NoPort THEN uri.port ELSE IF uri.scheme = "wss" THEN 443 ELSE 80

port(uri) ==
    CASE uri.port # NoPort  -> uri.port
      [] uri.port = NoPort /\ uri.scheme = "wss" -> 443
      [] uri.port = NoPort /\ uri.scheme = "ws"  -> 80
      [] OTHER -> NoPort

(* Mutant: a URL that is refused is taken for one that wants TLS. *)
uri_mode_or_tls(uri) == IF uri.scheme = "ws" THEN "Plain" ELSE "Tls"

(* tungstenite's uri_mode. *)
uri_mode(uri) ==
    CASE uri.scheme = "wss" -> "Tls"
      [] uri.scheme = "ws"  -> "Plain"
      [] OTHER -> "UnsupportedUrlScheme"

(* connect_async and its siblings up to TcpStream::connect.  The request   *)
(* may be refused as it is; an IPv6 literal resolves to the same address   *)
(* with and without its brackets, as only the last colon starts the port.  *)
connect ==
    /\ at = "called"
    /\ \/ Fail("Invalid") /\ UNCHANGED target
       \/ /\ call.uri.host = NoHost
          /\ Fail("NoHostName") /\ UNCHANGED target
       \/ /\ call.uri.host # NoHost /\ port(call.uri) = NoPort
          /\ Fail("UnsupportedUrlScheme") /\ UNCHANGED target
       \/ /\ call.uri.host # NoHost /\ port(call.uri) # NoPort
          /\ target' = [host |-> domain(call.uri).host, port |-> port(call.uri)]
          /\ at' = "dial" /\ UNCHANGED result
    /\ UNCHANGED <<build, call, server>> /\ Unchanged_stream

(* TcpStream::connect and set_nodelay: whoever answers at the target. *)
dial ==
    /\ at = "dial"
    /\ \/ Fail("Io") /\ UNCHANGED server
       \/ /\ server' \in [host : Host, issuer : {"native", "webpki", "own"}]
          /\ at' = "upgrade" /\ UNCHANGED result
    /\ UNCHANGED <<build, call, target>> /\ Unchanged_stream
-----------------------------------------------------------------------------
(* The wrapper: the one of the connector, or else the default of the build.*)
wrapper ==
    CASE call.connector # "None" -> call.connector
      [] call.connector = "None" /\ build.features.native -> "NativeTls"
      [] call.connector = "None" /\ ~build.features.native /\ build.features.rustls -> "Rustls"
      [] OTHER -> "Plain"

StoreRoots == IF build.store = "good" THEN {"native"} ELSE {}

(* Mutant: the store of the system counts whatever the features name. *)
default_roots_with_store(w) ==
    StoreRoots \cup (IF w = "Rustls" THEN build.features.roots \cap {"webpki"} ELSE {})

default_roots(w) ==
    CASE w = "NativeTls" -> StoreRoots
      [] w = "Rustls" ->
           (IF "native" \in build.features.roots THEN StoreRoots ELSE {})
             \cup (build.features.roots \cap {"webpki"})

(* The issuers a session trusts: those the caller's connector names. *)
roots(w) == IF call.connector = "None" THEN default_roots(w) ELSE {"own"}

(* No certificate in the system's store is an error if there are no others.*)
NoRoots(w) ==
    /\ w = "Rustls" /\ call.connector = "None"
    /\ build.features.roots = {"native"} /\ build.store = "missing"

(* rustls wants a valid name, and takes an address only without brackets. *)
BadName(w) ==
    w = "Rustls" /\ (call.uri.host \in Unusual \/ domain(call.uri).brackets)

(* Mutant: nobody expects a TLS URL there. *)
wrap_plain_unreachable == Fail("Panic") /\ UNCHANGED variant

(* encryption::plain::wrap_stream when the mode is Tls. *)
wrap_plain_tls == Fail("TlsFeatureNotEnabled") /\ UNCHANGED variant

(* encryption::{native_tls, rustls}::wrap_stream when the mode is Tls, up  *)
(* to the TLS handshake.                                                   *)
wrap_tls(w) ==
    \/ w = "NativeTls" /\ call.connector = "None" /\ Fail("Tls")
    \/ NoRoots(w) /\ Fail("Io")
    \/ ~NoRoots(w) /\ BadName(w) /\ Fail("InvalidDnsName")
    \/ ~NoRoots(w) /\ ~BadName(w) /\ at' = "tls" /\ UNCHANGED result

(* client_async_tls_with_config up to its first await: the URL is checked, *)
(* then the stream wrapped.                                                *)
client_async_tls_with_config ==
    /\ at = "upgrade"
    /\ LET mode == uri_mode(call.uri)
       IN  \/ Fail("Invalid") /\ UNCHANGED variant
           \/ /\ HasTls(build.features) /\ call.uri.host = NoHost
              /\ Fail("NoHostName") /\ UNCHANGED variant
           \/ /\ HasTls(build.features) => call.uri.host # NoHost
              /\ \/ mode = "UnsupportedUrlScheme" /\ Fail(mode) /\ UNCHANGED variant
                 \/ mode = "Plain" /\ variant' = "Plain" /\ at' = "client" /\ UNCHANGED result
                 \/ mode = "Tls" /\ wrapper = "Plain" /\ wrap_plain_tls
                 \/ mode = "Tls" /\ wrapper # "Plain" /\ wrap_tls(wrapper) /\ UNCHANGED variant
    /\ UNCHANGED <<session, wire, inbox, told, build, call, target, server>>

(* The TLS handshake: the session begins, or the peer is not the one named *)
(* by the URL or not certified by a trusted issuer, or something else      *)
(* fails.                                                                  *)
tls_handshake ==
    /\ at = "tls"
    /\ wire' = Append(wire, Clear("hello"))
    /\ \/ Fail(IF wrapper = "NativeTls" THEN "Tls" ELSE "Io") /\ UNCHANGED variant
       \/ /\ server.issuer \in roots(wrapper) /\ server.host = domain(call.uri).host
          /\ variant' = wrapper
          /\ at' = "client" /\ UNCHANGED result
    /\ UNCHANGED <<session, inbox, told, build, call, target, server>>
-----------------------------------------------------------------------------
Write(what) == poll_write(what) /\ told' = [told EXCEPT !.written = @ + 1]

Flush(done) ==
    /\ poll_flush(done)
    /\ told' = [told EXCEPT !.flushed = IF done THEN told.written ELSE @]

(* client_async_with_config: the handshake starts, on a request that is    *)
(* complete, and is written, flushed and answered.                         *)
write_request ==
    /\ at = "client"
    /\ \/ Fail("Invalid") /\ Unchanged_stream
       \/ Write("request") /\ at' = "flush" /\ UNCHANGED result
    /\ UNCHANGED <<build, call, target, server>>

flush_request(done) ==
    /\ at = "flush"
    /\ Flush(done)
    /\ at' = IF done THEN "response" ELSE at
    /\ UNCHANGED <<result, build, call, target, server>>

Arrived(what) == \E i \in DOMAIN wire : wire[i].what = what

(* The server answers a request, in the way it was asked. *)
answer ==
    /\ at = "response" /\ Arrived("request") /\ inbox = <<>>
    /\ inbox' = <<IF variant = "Plain" THEN Clear("response") ELSE Sealed("response")>>
    /\ UNCHANGED <<variant, session, wire, told, build, call, at, result, target, server>>

read_response ==
    /\ at = "response"
    /\ \E piece \in {Clear("response"), Sealed("response")} :
        /\ poll_read(piece)
        /\ \/ piece = Clear("response") /\ at' = "open" /\ result' = "Ok"
           \/ Fail("Rejected")
    /\ UNCHANGED <<told, build, call, target, server>>

(* The future of a connect is dropped where it awaits. *)
cancel ==
    /\ at \in {"dial", "tls", "flush", "response"}
    /\ Fail("Cancelled")
    /\ UNCHANGED <<build, call, target, server>> /\ Unchanged_stream
-----------------------------------------------------------------------------
(* The WebSocket writes and flushes; its user may take the stream out      *)
(* (into_inner) or borrow it (get_mut) and shut it down.                   *)
write_frame ==
    /\ at = "open" /\ told.written <= MaxFrames
    /\ Write("frame")
    /\ UNCHANGED <<build, call, at, result, target, server>>

flush_frames(done) ==
    /\ at = "open"
    /\ Flush(done)
    /\ UNCHANGED <<build, call, at, result, target, server>>

shutdown(done) ==
    /\ at \in {"open", "closing"}
    /\ poll_shutdown(done)
    /\ at' = IF done THEN "closed" ELSE "closing"
    /\ told' = [told EXCEPT !.shutdown = done]
    /\ UNCHANGED <<build, call, result, target, server>>

finished == at \in {"failed", "closed"} /\ UNCHANGED vars

Next ==
    \/ connect \/ dial
    \/ client_async_tls_with_config \/ tls_handshake
    \/ write_request \/ answer \/ read_response
    \/ write_frame
    \/ \E done \in BOOLEAN : flush_request(done) \/ flush_frames(done) \/ shutdown(done)
    \/ cancel
    \/ finished

Spec == Init /\ [][Next]_vars

(* Fairness: the future is awaited, a flush does not block for ever, and a *)
(* server that has a whole request answers it.                             *)
Fairness ==
    /\ WF_vars(connect) /\ WF_vars(dial)
    /\ WF_vars(client_async_tls_with_config) /\ WF_vars(tls_handshake)
    /\ WF_vars(write_request) /\ WF_vars(flush_request(TRUE))
    /\ WF_vars(answer) /\ WF_vars(read_response)

FairSpec == Spec /\ Fairness
-----------------------------------------------------------------------------
Pieces == [what : {"hello", "request", "response", "frame", "close_notify", "fin"},
           sealed : BOOLEAN]
Places == {"called", "dial", "upgrade", "tls", "client", "flush", "response",
           "open", "closing", "closed", "failed"}
Results == {"none", "Ok", "Invalid", "NoHostName", "UnsupportedUrlScheme", "Io", "Tls",
            "TlsFeatureNotEnabled", "InvalidDnsName", "Rejected", "Cancelled"}

TypeOK ==
    /\ variant \in {"None", "Plain", "NativeTls", "Rustls"}
    /\ {session, wire, inbox} \subseteq Seq(Pieces)
    /\ build \in [features : Build, store : {"missing", "unusable", "good"}]
    /\ call \in [uri : Uri, connector : {"None", "Plain", "NativeTls", "Rustls"},
                 given : BOOLEAN]
    /\ at \in Places /\ result \in Results
    /\ target \in [host : Host \cup {NoHost}, port : Nat \cup {NoPort}]
    /\ server \in [host : Host \cup {NoHost}, issuer : {"none", "native", "webpki", "own"}]
    /\ told \in [written : Nat, flushed : Nat, shutdown : BOOLEAN]

Payload == {"request", "frame"}
Messages(s) == Cardinality({i \in DOMAIN s : s[i].what \in Payload})

(* What the caller asked a server to be certified by: the configuration    *)
(* that was passed, or else what the features name: the store of the       *)
(* system for native-tls, the default where it is built (CHANGELOG.md:     *)
(* "If both native-tls and rustls-tls are enabled native-tls is used by    *)
(* default"), and otherwise the sources of roots chosen for rustls.        *)
Expected ==
    IF call.connector # "None" THEN {"own"}
    ELSE {i \in IF build.features.native THEN {"native"} ELSE build.features.roots :
             i = "native" => build.store = "good"}

(* A wss request, and all that follows, leaves only encrypted, to the host *)
(* of the URL as certified by an issuer the caller expects, whatever the   *)
(* connector, the features and the state of the certificate stores.        *)
SecureIfWss ==
    \A i \in DOMAIN wire :
        call.uri.scheme = "wss" /\ wire[i].what \in Payload =>
            /\ wire[i].sealed
            /\ server.issuer \in Expected
            /\ server.host = call.uri.host

(* The comment in client_async_tls_with_config: "Make sure we check domain *)
(* and mode first. URL must be valid."  A request with any other URL sends *)
(* nothing, not even the hello of a TLS handshake, on no stream.           *)
BadUrlSendsNothing ==
    call.uri.scheme \notin {"ws", "wss"} \/ call.uri.host = NoHost => wire = <<>>

(* The port that connect guesses from the scheme is one for the mode that  *)
(* the wrapping later finds in the same URL, and nothing is dialled for    *)
(* a URL for which it has to guess and the wrapping will refuse.           *)
GuessedPortFits ==
    target # NoTarget /\ call.uri.port = NoPort =>
        /\ target.port \in {80, 443}
        /\ uri_mode(call.uri) = IF target.port = 443 THEN "Tls" ELSE "Plain"
        /\ variant # "None" => (variant = "Plain" <=> target.port = 80)

(* A name is refused by rustls alone, for a wss URL, and never an IPv6     *)
(* address for its brackets: with every connector and every set of         *)
(* features rustls is given the address in the form it accepts.  Nothing   *)
(* is said of native-tls, which decides on a name during its handshake.    *)
RustlsTakesAddresses ==
    result = "InvalidDnsName" =>
        /\ wrapper = "Rustls" /\ call.uri.scheme = "wss"
        /\ call.uri.host \in Unusual

(* A flush that was reported complete has left nothing of what was written *)
(* before it in the TLS session.                                           *)
FlushReachesSocket == told.flushed <= Messages(wire)

(* A shutdown that was reported complete has sent all that was written,    *)
(* and over TLS the notice that makes the end no truncation, before the    *)
(* socket was shut down.                                                   *)
ShutdownIsComplete ==
    told.shutdown =>
        /\ Messages(wire) = told.written
        /\ variant # "Plain" => \E i \in DOMAIN wire :
              /\ wire[i].what = "close_notify"
              /\ \A j \in DOMAIN wire : wire[j].what = "fin" => i < j

(* A connect comes to an end: no request stays behind in a TLS session     *)
(* while its answer is awaited.                                            *)
ConnectEnds == <>(result # "none")
=============================================================================
