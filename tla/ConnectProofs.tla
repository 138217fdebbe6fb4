----------------------------- MODULE ConnectProofs -----------------------------
(***************************************************************************)
(* Proofs about Connect: whom a wss request can reach, what a URL that is  *)
(* not one sends, which port is dialled, and that nothing stays behind in  *)
(* a TLS session that was flushed or shut down, for all hosts and ports.   *)
(***************************************************************************)
EXTENDS Connect, Counts

(* What carries a message is encrypted. *)
Safe(s) == \A i \in 1..Len(s) : s[i].what \in Payload => s[i].sealed

(* Where there is a stream, and which. *)
Wrapped ==
    /\ at \in {"called", "dial", "upgrade", "tls"} => variant = "None"
    /\ at \in {"client", "flush", "response", "open", "closing", "closed"} => variant # "None"
    /\ at = "tls" => call.uri.scheme = "wss" /\ wrapper \in {"NativeTls", "Rustls"}
    /\ variant = "Plain" => call.uri.scheme = "ws"
    /\ variant \in {"NativeTls", "Rustls"} =>
          /\ call.uri.scheme = "wss"
          /\ server.issuer \in Expected /\ server.host = call.uri.host

Written ==
    /\ Safe(session)
    /\ variant # "Plain" => Safe(wire)
    /\ variant = "None" => \A i \in 1..Len(wire) : wire[i].what \notin Payload
    /\ wire # <<>> => call.uri.scheme \in {"ws", "wss"}

Dialled ==
    target # NoTarget =>
        /\ target.port = port(call.uri)
        /\ call.uri.port = NoPort => call.uri.scheme \in {"ws", "wss"}

(* What the answer InvalidDnsName means. *)
NameRefused == wrapper = "Rustls" /\ call.uri.scheme = "wss" /\ call.uri.host \in Unusual

IInv ==
    /\ TypeOK /\ Wrapped /\ Written /\ Dialled
    /\ call.connector \in Connectors(build.features)
    /\ RustlsTakesAddresses
-----------------------------------------------------------------------------
LEMMA UriFacts ==
    ASSUME TypeOK
    PROVE  /\ call.uri.scheme \in {"ws", "wss", "other", "none"}
           /\ call.uri.host \in Host \cup {NoHost}
           /\ call.uri.host = NoHost => call.uri.scheme = "none"
           /\ call.uri.port \in Nat \cup {NoPort}
           /\ port(call.uri) \in Nat \cup {NoPort}
<1>1. call.uri \in Uri
  BY DEF TypeOK
<1>2. /\ call.uri.scheme \in {"ws", "wss", "other", "none"}
      /\ call.uri.host \in Host \cup {NoHost}
      /\ call.uri.host = NoHost => call.uri.scheme = "none"
      /\ call.uri.port \in Nat \cup {NoPort}
  BY <1>1, ConnectAssumption DEF Uri
<1>3. QED
  BY <1>2 DEF port

(* The issuers that a session of the wrapper trusts are expected ones. *)
LEMMA RootsExpected ==
    ASSUME TypeOK, wrapper \in {"NativeTls", "Rustls"}
    PROVE  roots(wrapper) \subseteq Expected
<1>1. build.features \in Build
  BY DEF TypeOK
<1>2. CASE call.connector # "None"
  BY <1>2 DEF roots, Expected
<1>3. CASE call.connector = "None" /\ build.features.native
  <2>1. wrapper = "NativeTls"
    BY <1>3 DEF wrapper
  <2>2. QED
    BY <1>3, <2>1 DEF roots, default_roots, StoreRoots, Expected
<1>4. CASE call.connector = "None" /\ ~build.features.native
  <2>1. wrapper = "Rustls"
    BY <1>4 DEF wrapper
  <2>2. build.features.roots \subseteq {"native", "webpki"}
    BY <1>1 DEF Build
  <2>3. QED
    BY <1>4, <2>1, <2>2 DEF roots, default_roots, StoreRoots, Expected
<1>5. QED
  BY <1>2, <1>3, <1>4

(* A wrapper of rustls is one that the build has. *)
LEMMA RustlsBuilt ==
    ASSUME call.connector \in Connectors(build.features), wrapper = "Rustls"
    PROVE  build.features.rustls
  BY DEF Connectors, wrapper

LEMMA PieceTypes ==
    /\ \A what \in {"request", "response", "frame", "hello", "close_notify", "fin"} :
          Clear(what) \in Pieces /\ Sealed(what) \in Pieces
    /\ \A what : Sealed(what).sealed
    /\ Clear("hello").what \notin Payload /\ Clear("fin").what \notin Payload
  BY DEF Clear, Sealed, Pieces, Payload

LEMMA AppendSafe ==
    ASSUME NEW s \in Seq(Pieces), NEW p \in Pieces
    PROVE  /\ Append(s, p) \in Seq(Pieces) /\ Len(Append(s, p)) = Len(s) + 1
           /\ Safe(s) /\ (p.what \in Payload => p.sealed) => Safe(Append(s, p))
<1>1. /\ Append(s, p) \in Seq(Pieces) /\ Len(Append(s, p)) = Len(s) + 1
      /\ \A i \in 1..Len(s) : Append(s, p)[i] = s[i]
      /\ Append(s, p)[Len(s) + 1] = p
  BY AppendProperties
<1>2. QED
  BY <1>1 DEF Safe

LEMMA ConcatSafe ==
    ASSUME NEW s \in Seq(Pieces), NEW t \in Seq(Pieces)
    PROVE  /\ s \o t \in Seq(Pieces)
           /\ Safe(s) /\ Safe(t) => Safe(s \o t)
<1>1. /\ s \o t \in Seq(Pieces) /\ Len(s \o t) = Len(s) + Len(t)
      /\ \A i \in 1..Len(s \o t) : (s \o t)[i] = IF i <= Len(s) THEN s[i] ELSE t[i - Len(s)]
  BY ConcatProperties
<1>2. ASSUME Safe(s), Safe(t), NEW i \in 1..Len(s \o t), (s \o t)[i].what \in Payload
      PROVE  (s \o t)[i].sealed
  <2>1. CASE i <= Len(s)
    BY <1>1, <1>2, <2>1 DEF Safe
  <2>2. CASE i > Len(s)
    <3>1. i - Len(s) \in 1..Len(t)
      BY <1>1, <2>2
    <3>2. (s \o t)[i] = t[i - Len(s)]
      BY <1>1, <2>2
    <3>3. QED
      BY <1>2, <3>1, <3>2 DEF Safe
  <2>3. QED
    BY <1>1, <2>1, <2>2
<1>3. QED
  BY <1>1, <1>2 DEF Safe

LEMMA PartSafe ==
    ASSUME NEW s \in Seq(Pieces), NEW m \in 1..(Len(s) + 1), NEW n \in 0..Len(s)
    PROVE  /\ SubSeq(s, m, n) \in Seq(Pieces)
           /\ Safe(s) => Safe(SubSeq(s, m, n))
<1>1. /\ SubSeq(s, m, n) \in Seq(Pieces)
      /\ Len(SubSeq(s, m, n)) = IF m <= n THEN n - m + 1 ELSE 0
      /\ \A i \in 1..(n - m + 1) : SubSeq(s, m, n)[i] = s[m + i - 1]
  BY SubSeqProperties
<1>2. ASSUME Safe(s), NEW i \in 1..Len(SubSeq(s, m, n)), SubSeq(s, m, n)[i].what \in Payload
      PROVE  SubSeq(s, m, n)[i].sealed
  <2>1. i \in 1..(n - m + 1) /\ m + i - 1 \in 1..Len(s)
    BY <1>1
  <2>2. SubSeq(s, m, n)[i] = s[m + i - 1]
    BY <1>1, <2>1
  <2>3. QED
    BY <1>2, <2>1, <2>2 DEF Safe
<1>3. QED
  BY <1>1, <1>2 DEF Safe

(* What a session hands to the socket, and what it keeps. *)
LEMMA ShipSafe ==
    ASSUME wire \in Seq(Pieces), NEW records \in Seq(Pieces), Safe(records),
           NEW n \in 0..Len(records), Ship(records, n)
    PROVE  /\ wire' \in Seq(Pieces) /\ session' \in Seq(Pieces)
           /\ Safe(session)' /\ (Safe(wire) => Safe(wire)')
<1>1. /\ SubSeq(records, 1, n) \in Seq(Pieces) /\ Safe(SubSeq(records, 1, n))
      /\ SubSeq(records, n + 1, Len(records)) \in Seq(Pieces)
      /\ Safe(SubSeq(records, n + 1, Len(records)))
  <2>1. /\ 1 \in 1..(Len(records) + 1) /\ n + 1 \in 1..(Len(records) + 1)
        /\ Len(records) \in 0..Len(records)
    OBVIOUS
  <2>2. QED
    BY <2>1, PartSafe
<1>2. /\ wire' = wire \o SubSeq(records, 1, n)
      /\ session' = SubSeq(records, n + 1, Len(records))
  BY DEF Ship
<1>3. Safe(session') /\ session' \in Seq(Pieces)
  BY <1>1, <1>2
<1>4. wire' \in Seq(Pieces) /\ (Safe(wire) => Safe(wire'))
  BY <1>1, <1>2, ConcatSafe
<1>5. QED
  BY <1>3, <1>4 DEF Safe
-----------------------------------------------------------------------------
(* What the uses of a stream keep, where StreamOK is about a state and     *)
(* StreamKept about a step.                                                *)
StreamOK ==
    /\ variant \in {"Plain", "NativeTls", "Rustls"}
    /\ wire \in Seq(Pieces) /\ session \in Seq(Pieces) /\ inbox \in Seq(Pieces)
    /\ Safe(session) /\ (variant # "Plain" => Safe(wire))

StreamKept == StreamOK' /\ variant' = variant

LEMMA ToSocketKept ==
    ASSUME StreamOK, NEW p \in Pieces, ToSocket(<<p>>), UNCHANGED <<variant, inbox>>,
           variant # "Plain" /\ p.what \in Payload => p.sealed
    PROVE  StreamKept
<1>1. <<p>> \in Seq(Pieces) /\ wire' = wire \o <<p>> /\ session' = session
  BY DEF ToSocket
<1>2. variant # "Plain" => Safe(<<p>>)
  BY DEF Safe
<1>3. wire' \in Seq(Pieces) /\ (variant # "Plain" => Safe(wire'))
  BY <1>1, <1>2, ConcatSafe DEF StreamOK
<1>4. QED
  BY <1>1, <1>3 DEF StreamOK, StreamKept, Safe

LEMMA ShipKept ==
    ASSUME StreamOK, NEW records \in Seq(Pieces), Safe(records),
           NEW n \in 0..Len(records), Ship(records, n), UNCHANGED <<variant, inbox>>
    PROVE  StreamKept
  BY ShipSafe DEF StreamOK, StreamKept

LEMMA WriteKept ==
    ASSUME StreamOK, NEW what \in {"request", "frame"}, poll_write(what)
    PROVE  StreamKept
<1>1. Clear(what) \in Pieces /\ Sealed(what) \in Pieces /\ Sealed(what).sealed
  BY PieceTypes
<1>2. CASE variant = "Plain"
  BY <1>1, <1>2, ToSocketKept DEF poll_write
<1>3. CASE variant = "NativeTls"
  BY <1>1, <1>3, ToSocketKept DEF poll_write
<1>4. CASE variant = "Rustls"
  <2>1. PICK n \in 0..(Len(session) + 1) : Ship(Append(session, Sealed(what)), n)
    BY <1>4 DEF poll_write
  <2>2. /\ Append(session, Sealed(what)) \in Seq(Pieces) /\ Safe(Append(session, Sealed(what)))
        /\ Len(Append(session, Sealed(what))) = Len(session) + 1
    BY <1>1, AppendSafe DEF StreamOK
  <2>3. QED
    BY <2>1, <2>2, ShipKept DEF poll_write
<1>5. QED
  BY <1>2, <1>3, <1>4 DEF StreamOK

LEMMA FlushKept ==
    ASSUME StreamOK, NEW done \in BOOLEAN, poll_flush(done) PROVE StreamKept
<1>1. CASE variant = "Rustls"
  <2>1. PICK n \in 0..Len(session) : Ship(session, n)
    BY <1>1 DEF poll_flush
  <2>2. QED
    BY <2>1, ShipKept DEF poll_flush, StreamOK
<1>2. CASE variant # "Rustls"
  BY <1>2 DEF poll_flush, StreamOK, StreamKept, Safe
<1>3. QED
  BY <1>1, <1>2

LEMMA ShutdownKept ==
    ASSUME StreamOK, NEW done \in BOOLEAN, poll_shutdown(done) PROVE StreamKept
<1>1. /\ Clear("fin") \in Pieces /\ Clear("fin").what \notin Payload
      /\ Sealed("close_notify") \in Pieces /\ Sealed("close_notify").sealed
  BY PieceTypes
<1>2. CASE variant = "Plain"
  BY <1>1, <1>2, ToSocketKept DEF poll_shutdown
<1>3. CASE variant = "NativeTls"
  BY <1>1, <1>3, ToSocketKept DEF poll_shutdown
<1>4. CASE variant = "Rustls"
  <2> DEFINE records == IF Notified THEN session ELSE Append(session, Sealed("close_notify"))
             last == Append(records, Clear("fin"))
  <2>1. records \in Seq(Pieces) /\ Safe(records)
    BY <1>1, AppendSafe DEF StreamOK
  <2>2. \/ \E n \in 0..Len(records) : Ship(records, n)
        \/ Ship(last, Len(records) + 1)
    BY <1>4 DEF poll_shutdown
  <2> HIDE DEF records
  <2>3. last \in Seq(Pieces) /\ Safe(last) /\ Len(last) = Len(records) + 1
    BY <1>1, <2>1, AppendSafe
  <2>4. Len(records) + 1 \in 0..Len(last)
    BY <2>1, <2>3
  <2> HIDE DEF last
  <2>5. QED
    BY <2>1, <2>2, <2>3, <2>4, ShipKept DEF poll_shutdown
<1>5. QED
  BY <1>2, <1>3, <1>4 DEF StreamOK
-----------------------------------------------------------------------------
LEMMA StreamThere ==
    ASSUME IInv, at \in {"client", "flush", "response", "open", "closing", "closed"}
    PROVE  StreamOK /\ call.uri.scheme \in {"ws", "wss"}
  BY DEF IInv, TypeOK, Wrapped, Written, StreamOK

Told == [written : Nat, flushed : Nat, shutdown : BOOLEAN]

(* Uses of the stream keep the invariant. *)
LEMMA Used ==
    ASSUME IInv, StreamOK, StreamKept, call.uri.scheme \in {"ws", "wss"},
           UNCHANGED <<build, call, target, server>>,
           told' \in Told, result' \in Results, result' = "InvalidDnsName" => result = "InvalidDnsName",
           at' \in {"flush", "response", "open", "closing", "closed", "failed"}
    PROVE  IInv'
<1>1. TypeOK'
  BY DEF IInv, TypeOK, StreamKept, StreamOK, Places, Told
<1>2. wrapper' = wrapper /\ Expected' = Expected
  BY DEF wrapper, Expected
<1>3. Wrapped'
  BY <1>2 DEF IInv, Wrapped, StreamKept, StreamOK
<1>4. Written'
  BY DEF Written, StreamKept, StreamOK, Safe
<1>5. Dialled' /\ RustlsTakesAddresses' /\ (call.connector \in Connectors(build.features))'
  BY DEF IInv, Dialled, RustlsTakesAddresses, wrapper, port
<1>6. QED
  BY <1>1, <1>3, <1>4, <1>5 DEF IInv

LEMMA ToldType ==
    ASSUME TypeOK, NEW done \in BOOLEAN
    PROVE  /\ told \in Told
           /\ [told EXCEPT !.written = @ + 1] \in Told
           /\ [told EXCEPT !.flushed = IF done THEN told.written ELSE @] \in Told
           /\ [told EXCEPT !.shutdown = done] \in Told
<1>1. told \in Told /\ told.written \in Nat /\ told.flushed \in Nat
  BY DEF TypeOK, Told
<1>2. [told EXCEPT !.written = told.written + 1] \in Told
  BY <1>1 DEF Told
<1>3. [told EXCEPT !.flushed = IF done THEN told.written ELSE told.flushed] \in Told
  BY <1>1 DEF Told
<1>4. [told EXCEPT !.shutdown = done] \in Told
  BY <1>1 DEF Told
<1>5. QED
  BY <1>1, <1>2, <1>3, <1>4

(* Before there is a stream: what a step of the connect may change. *)
LEMMA Failed ==
    ASSUME IInv, NEW err \in Results, Fail(err), Unchanged_stream,
           UNCHANGED <<build, call, target, server>>,
           err = "InvalidDnsName" => NameRefused
    PROVE  IInv'
<1>1. at' = "failed" /\ result' = err /\ UNCHANGED <<variant, session, wire, inbox, told>>
  BY DEF Fail, Unchanged_stream, streamVars
<1>2. TypeOK'
  BY <1>1 DEF IInv, TypeOK, Places
<1>3. wrapper' = wrapper /\ Expected' = Expected
  BY DEF wrapper, Expected
<1>4. Wrapped' /\ Written' /\ Dialled'
  BY <1>1, <1>3 DEF IInv, Wrapped, Written, Dialled, port, Safe
<1>5. QED
  BY <1>1, <1>2, <1>4 DEF IInv, RustlsTakesAddresses, NameRefused, wrapper

LEMMA ConnectStep == ASSUME IInv, connect PROVE IInv'
<1>1. CASE (\E err \in {"Invalid", "NoHostName", "UnsupportedUrlScheme"} : Fail(err))
           /\ UNCHANGED target
  BY <1>1, Failed DEF connect, Results
<1>2. CASE /\ call.uri.host # NoHost /\ port(call.uri) # NoPort
           /\ target' = [host |-> domain(call.uri).host, port |-> port(call.uri)]
           /\ at' = "dial" /\ UNCHANGED result
  <2>1. /\ UNCHANGED <<variant, session, wire, inbox, told, build, call, server>>
        /\ at = "called"
    BY <1>2 DEF connect, Unchanged_stream, streamVars
  <2>2. target' \in [host : Host \cup {NoHost}, port : Nat \cup {NoPort}]
    BY <1>2, UriFacts DEF IInv, domain
  <2>3. TypeOK'
    BY <1>2, <2>1, <2>2 DEF IInv, TypeOK, Places
  <2>4. Expected' = Expected
    BY <2>1 DEF Expected
  <2>5. Wrapped' /\ Written'
    BY <1>2, <2>1, <2>4 DEF IInv, Wrapped, Written, Safe
  <2>6. Dialled'
    BY <1>2, <2>1, UriFacts DEF Dialled, port, IInv
  <2>7. QED
    BY <1>2, <2>1, <2>3, <2>5, <2>6 DEF IInv, RustlsTakesAddresses, wrapper
<1>3. QED
  BY <1>1, <1>2 DEF connect

LEMMA DialStep == ASSUME IInv, dial PROVE IInv'
<1>1. CASE Fail("Io") /\ UNCHANGED server
  BY <1>1, Failed DEF dial, Results
<1>2. CASE /\ server' \in [host : Host, issuer : {"native", "webpki", "own"}]
           /\ at' = "upgrade" /\ UNCHANGED result
  <2>1. UNCHANGED <<variant, session, wire, inbox, told, build, call, target>> /\ at = "dial"
    BY <1>2 DEF dial, Unchanged_stream, streamVars
  <2>2. TypeOK'
    BY <1>2, <2>1 DEF IInv, TypeOK, Places
  <2>3. Wrapped' /\ Written' /\ Dialled'
    BY <1>2, <2>1 DEF IInv, Wrapped, Written, Dialled, port, Safe
  <2>4. QED
    BY <1>2, <2>1, <2>2, <2>3 DEF IInv, RustlsTakesAddresses, wrapper
<1>3. QED
  BY <1>1, <1>2 DEF dial

LEMMA UpgradeStep == ASSUME IInv, client_async_tls_with_config PROVE IInv'
<1>1. /\ UNCHANGED <<session, wire, inbox, told, build, call, target, server>>
      /\ at = "upgrade" /\ variant = "None"
  BY DEF client_async_tls_with_config, IInv, Wrapped
<1>2. wrapper' = wrapper /\ Expected' = Expected
  BY <1>1 DEF wrapper, Expected
<1>3. ASSUME NEW err \in Results, Fail(err), UNCHANGED variant,
             err = "InvalidDnsName" => NameRefused
      PROVE  IInv'
  BY <1>1, <1>3, Failed DEF Unchanged_stream, streamVars
<1>4. CASE uri_mode(call.uri) = "Plain" /\ variant' = "Plain" /\ at' = "client" /\ UNCHANGED result
  <2>1. call.uri.scheme = "ws"
    BY <1>4 DEF uri_mode
  <2>2. TypeOK'
    BY <1>1, <1>4 DEF IInv, TypeOK, Places
  <2>3. Wrapped' /\ Written' /\ Dialled'
    BY <1>1, <1>2, <1>4, <2>1 DEF IInv, Wrapped, Written, Dialled, port, Safe
  <2>4. QED
    BY <1>1, <1>4, <2>2, <2>3 DEF IInv, RustlsTakesAddresses, wrapper
<1>5. CASE uri_mode(call.uri) = "Tls" /\ wrapper # "Plain" /\ wrap_tls(wrapper) /\ UNCHANGED variant
  <2>1. call.uri.scheme = "wss"
    BY <1>5, UriFacts DEF uri_mode, IInv
  <2>2. BadName(wrapper) => call.uri.host \in Unusual
    BY RustlsBuilt DEF BadName, domain, IInv
  <2>3. CASE wrapper = "NativeTls" /\ call.connector = "None" /\ Fail("Tls")
    BY <1>3, <1>5, <2>3 DEF Results
  <2>4. CASE NoRoots(wrapper) /\ Fail("Io")
    BY <1>3, <1>5, <2>4 DEF Results
  <2>5. CASE ~NoRoots(wrapper) /\ BadName(wrapper) /\ Fail("InvalidDnsName")
    BY <1>3, <1>5, <2>1, <2>2, <2>5 DEF Results, NameRefused, BadName
  <2>6. CASE ~NoRoots(wrapper) /\ ~BadName(wrapper) /\ at' = "tls" /\ UNCHANGED result
    <3>1. wrapper \in {"NativeTls", "Rustls"}
      BY <1>5 DEF wrapper, IInv, TypeOK
    <3>2. TypeOK'
      BY <1>1, <1>5, <2>6 DEF IInv, TypeOK, Places
    <3>3. Wrapped' /\ Written' /\ Dialled'
      BY <1>1, <1>2, <1>5, <2>1, <2>6, <3>1 DEF IInv, Wrapped, Written, Dialled, port, Safe
    <3>4. QED
      BY <1>1, <2>6, <3>2, <3>3 DEF IInv, RustlsTakesAddresses, wrapper
  <2>7. QED
    BY <1>5, <2>3, <2>4, <2>5, <2>6 DEF wrap_tls
<1>6. QED
  BY <1>3, <1>4, <1>5 DEF client_async_tls_with_config, wrap_plain_tls, Results

LEMMA TlsStep == ASSUME IInv, tls_handshake PROVE IInv'
<1>1. /\ UNCHANGED <<session, inbox, told, build, call, target, server>>
      /\ at = "tls" /\ variant = "None" /\ wire' = Append(wire, Clear("hello"))
      /\ call.uri.scheme = "wss" /\ wrapper \in {"NativeTls", "Rustls"}
  BY DEF tls_handshake, IInv, Wrapped
<1>2. wrapper' = wrapper /\ Expected' = Expected
  BY <1>1 DEF wrapper, Expected
<1>3. /\ wire' \in Seq(Pieces) /\ Safe(wire)' /\ wire \in Seq(Pieces)
      /\ \A i \in 1..Len(wire') : wire'[i].what \notin Payload
  <2>1. wire \in Seq(Pieces) /\ Safe(wire) /\ \A i \in 1..Len(wire) : wire[i].what \notin Payload
    BY <1>1 DEF IInv, TypeOK, Written
  <2>2. Clear("hello") \in Pieces /\ Clear("hello").what \notin Payload
    BY PieceTypes
  <2>3. /\ wire' \in Seq(Pieces) /\ Len(wire') = Len(wire) + 1
        /\ \A i \in 1..Len(wire) : wire'[i] = wire[i]
        /\ wire'[Len(wire) + 1] = Clear("hello")
    BY <1>1, <2>1, <2>2, AppendProperties
  <2>4. \A i \in 1..Len(wire') : wire'[i].what \notin Payload
    BY <2>1, <2>2, <2>3
  <2>5. QED
    BY <2>1, <2>3, <2>4 DEF Safe
<1>4. Written' /\ Dialled'
  BY <1>1, <1>3 DEF IInv, Written, Dialled, port, Safe
<1>5. CASE (\E err \in {"Tls", "Io"} : Fail(err)) /\ UNCHANGED variant
  BY <1>1, <1>2, <1>3, <1>4, <1>5
  DEF IInv, TypeOK, Places, Results, Fail, Wrapped, RustlsTakesAddresses
<1>6. CASE /\ server.issuer \in roots(wrapper) /\ server.host = domain(call.uri).host
           /\ variant' = wrapper
           /\ at' = "client" /\ UNCHANGED result
  <2>1. server.issuer \in Expected
    BY <1>1, <1>6, RootsExpected DEF IInv
  <2>2. server.host = call.uri.host
    BY <1>6 DEF domain
  <2>3. TypeOK'
    BY <1>1, <1>3, <1>6 DEF IInv, TypeOK, Places
  <2>4. Wrapped'
    BY <1>1, <1>2, <1>6, <2>1, <2>2 DEF Wrapped
  <2>5. QED
    BY <1>1, <1>4, <1>6, <2>3, <2>4 DEF IInv, RustlsTakesAddresses, wrapper
<1>7. QED
  BY <1>5, <1>6 DEF tls_handshake

LEMMA RequestStep == ASSUME IInv, write_request PROVE IInv'
<1>1. StreamOK /\ call.uri.scheme \in {"ws", "wss"} /\ told \in Told
  BY StreamThere, ToldType DEF write_request, IInv
<1>2. CASE Fail("Invalid") /\ Unchanged_stream
  BY <1>2, Failed DEF write_request, Results
<1>3. CASE Write("request") /\ at' = "flush" /\ UNCHANGED result
  <2>1. StreamKept
    BY <1>1, <1>3, WriteKept DEF Write
  <2>2. told' \in Told
    BY <1>3, ToldType DEF Write, IInv
  <2>3. QED
    BY <1>1, <1>3, <2>1, <2>2, Used DEF write_request, IInv, TypeOK
<1>4. QED
  BY <1>2, <1>3 DEF write_request

LEMMA FlushRequestStep ==
    ASSUME IInv, NEW done \in BOOLEAN, flush_request(done) PROVE IInv'
<1>1. StreamOK /\ call.uri.scheme \in {"ws", "wss"}
  BY StreamThere DEF flush_request
<1>2. StreamKept /\ told' \in Told
  BY <1>1, FlushKept, ToldType DEF flush_request, Flush, IInv
<1>3. at' \in {"flush", "response"}
  BY DEF flush_request
<1>4. QED
  BY <1>1, <1>2, <1>3, Used DEF flush_request, IInv, TypeOK

LEMMA AnswerStep == ASSUME IInv, answer PROVE IInv'
<1>1. StreamOK /\ call.uri.scheme \in {"ws", "wss"} /\ told \in Told
  BY StreamThere, ToldType DEF answer, IInv
<1>2. Clear("response") \in Pieces /\ Sealed("response") \in Pieces
  BY PieceTypes
<1>3. inbox' \in Seq(Pieces) /\ UNCHANGED <<variant, session, wire>>
  BY <1>2 DEF answer
<1>4. StreamKept
  BY <1>1, <1>3 DEF StreamOK, StreamKept, Safe
<1>5. QED
  BY <1>1, <1>4, Used DEF answer, IInv, TypeOK

LEMMA ReadResponseStep == ASSUME IInv, read_response PROVE IInv'
<1>1. StreamOK /\ call.uri.scheme \in {"ws", "wss"} /\ told \in Told
  BY StreamThere, ToldType DEF read_response, IInv
<1>2. /\ inbox # <<>> /\ inbox' = Tail(inbox) /\ UNCHANGED <<variant, session, wire>>
  BY DEF read_response, poll_read
<1>3. StreamKept
  BY <1>1, <1>2 DEF StreamOK, StreamKept, Safe
<1>4. /\ at' \in {"open", "failed"} /\ result' \in Results /\ result' # "InvalidDnsName"
  BY DEF read_response, Fail, Results
<1>5. QED
  BY <1>1, <1>3, <1>4, Used DEF read_response

LEMMA WriteFrameStep == ASSUME IInv, write_frame PROVE IInv'
<1>1. StreamOK /\ call.uri.scheme \in {"ws", "wss"}
  BY StreamThere DEF write_frame
<1>2. StreamKept /\ told' \in Told
  BY <1>1, WriteKept, ToldType DEF write_frame, Write, IInv
<1>3. QED
  BY <1>1, <1>2, Used DEF write_frame, IInv, TypeOK

LEMMA FlushFramesStep ==
    ASSUME IInv, NEW done \in BOOLEAN, flush_frames(done) PROVE IInv'
<1>1. StreamOK /\ call.uri.scheme \in {"ws", "wss"}
  BY StreamThere DEF flush_frames
<1>2. StreamKept /\ told' \in Told
  BY <1>1, FlushKept, ToldType DEF flush_frames, Flush, IInv
<1>3. QED
  BY <1>1, <1>2, Used DEF flush_frames, IInv, TypeOK

LEMMA ShutdownStep ==
    ASSUME IInv, NEW done \in BOOLEAN, shutdown(done) PROVE IInv'
<1>1. StreamOK /\ call.uri.scheme \in {"ws", "wss"}
  BY StreamThere DEF shutdown
<1>2. StreamKept /\ told' \in Told
  BY <1>1, ShutdownKept, ToldType DEF shutdown, IInv
<1>3. at' \in {"closing", "closed"}
  BY DEF shutdown
<1>4. QED
  BY <1>1, <1>2, <1>3, Used DEF shutdown, IInv, TypeOK

LEMMA CancelStep == ASSUME IInv, cancel PROVE IInv'
  BY Failed DEF cancel, Results
-----------------------------------------------------------------------------
LEMMA InitHolds == ASSUME Init PROVE IInv
<1>1. PICK b \in Build, store \in {"missing", "unusable", "good"} :
        /\ build = [features |-> b, store |-> store]
        /\ call \in [uri : Uri, connector : Connectors(b),
                     given : IF HasTls(b) THEN BOOLEAN ELSE {FALSE}]
  BY DEF Init
<1>2. Connectors(b) \subseteq {"None", "Plain", "NativeTls", "Rustls"}
  BY DEF Connectors
<1>3. TypeOK
  <2>1. <<>> \in Seq(Pieces)
    OBVIOUS
  <2>2. build \in [features : Build, store : {"missing", "unusable", "good"}]
    BY <1>1
  <2>3. /\ call \in [uri : Uri, connector : {"None", "Plain", "NativeTls", "Rustls"},
                     given : BOOLEAN]
        /\ call.given \in BOOLEAN
    BY <1>1, <1>2
  <2>4. server \in [host : Host \cup {NoHost}, issuer : {"none", "native", "webpki", "own"}]
    BY DEF Init, NoServer
  <2>5. told \in [written : Nat, flushed : Nat, shutdown : BOOLEAN]
    BY DEF Init
  <2>6. QED
    BY <2>1, <2>2, <2>3, <2>4, <2>5 DEF Init, TypeOK, Places, Results, NoTarget
<1>4. Wrapped /\ Written /\ Dialled
  BY <1>1 DEF Init, Wrapped, Written, Dialled, Safe
<1>5. QED
  BY <1>1, <1>3, <1>4 DEF Init, IInv, RustlsTakesAddresses

LEMMA Invariance == Spec => []IInv
<1>1. Init => IInv
  BY InitHolds
<1>2. IInv /\ [Next]_vars => IInv'
  <2> SUFFICES ASSUME IInv, [Next]_vars PROVE IInv'
    OBVIOUS
  <2>1. CASE UNCHANGED vars
    <3>1. wrapper' = wrapper /\ Expected' = Expected
      BY <2>1 DEF vars, wrapper, Expected
    <3>2. QED
      BY <2>1, <3>1
      DEF vars, streamVars, IInv, TypeOK, Wrapped, Written, Dialled, RustlsTakesAddresses, port, Safe
  <2>2. CASE finished
    BY <2>1, <2>2 DEF finished
  <2>3. QED
    BY <2>1, <2>2, ConnectStep, DialStep, UpgradeStep, TlsStep, RequestStep, FlushRequestStep,
       AnswerStep, ReadResponseStep, WriteFrameStep, FlushFramesStep, ShutdownStep, CancelStep
    DEF Next
<1>3. QED
  BY <1>1, <1>2, PTL DEF Spec

-----------------------------------------------------------------------------
(* Where the pieces are that were written: each on the wire or in the TLS  *)
(* session, and only rustls keeps any there.                               *)
Kept(kind) == Count(session, kind)
Gone(kind) == Count(wire, kind)

Payloads == {p \in Pieces : p.what \in Payload}
Fins == {p \in Pieces : p.what = "fin"}

Accounted ==
    /\ told.written = Gone(Payloads) + Kept(Payloads)
    /\ told.flushed <= Gone(Payloads)
    /\ variant # "Rustls" => session = <<>>

(* A close_notify has left before the end of the stream. *)
NoticeFirst ==
    \E i \in 1..Len(wire) :
        /\ wire[i].what = "close_notify"
        /\ \A j \in 1..Len(wire) : wire[j].what = "fin" => i < j

Shut ==
    /\ at # "closed" => Gone(Fins) + Kept(Fins) = 0
    /\ told.shutdown => at = "closed" /\ session = <<>> /\ (variant # "Plain" => NoticeFirst)

Buffers == Accounted /\ Shut

LEMMA BufferTypes ==
    ASSUME NEW kind, wire \in Seq(Pieces), session \in Seq(Pieces)
    PROVE  Gone(kind) \in Nat /\ Kept(kind) \in Nat
  BY CountType DEF Gone, Kept

LEMMA MessagesCount == ASSUME wire \in Seq(Pieces) PROVE Messages(wire) = Gone(Payloads)
<1>1. DOMAIN wire = 1..Len(wire) /\ \A i \in 1..Len(wire) : wire[i] \in Pieces
  BY LenProperties
<1>2. {i \in DOMAIN wire : wire[i].what \in Payload} = Positions(wire, Payloads)
  BY <1>1 DEF Positions, Payloads
<1>3. QED
  BY <1>2 DEF Messages, Gone, Count

LEMMA Kinds ==
    /\ \A what \in {"request", "frame"} : {Clear(what), Sealed(what)} \subseteq Payloads \ Fins
    /\ Clear("hello") \notin Payloads \cup Fins
    /\ Sealed("close_notify") \notin Payloads \cup Fins
    /\ Clear("fin") \in Fins \ Payloads
  BY DEF Clear, Sealed, Pieces, Payload, Payloads, Fins

LEMMA ToSocketCount ==
    ASSUME wire \in Seq(Pieces), NEW p \in Pieces, ToSocket(<<p>>), NEW kind
    PROVE  /\ wire' = Append(wire, p) /\ session' = session
           /\ Gone(kind)' = Gone(kind) + IF p \in kind THEN 1 ELSE 0
           /\ Kept(kind)' = Kept(kind)
<1>1. wire' = wire \o <<p>> /\ session' = session
  BY DEF ToSocket
<1>2. Append(wire, p) = wire \o <<p>>
  BY AppendIsConcat
<1>3. Count(Append(wire, p), kind) = Count(wire, kind) + IF p \in kind THEN 1 ELSE 0
  BY CountAppend
<1>4. QED
  BY <1>1, <1>2, <1>3 DEF Gone, Kept

LEMMA ShipCount ==
    ASSUME wire \in Seq(Pieces), NEW records \in Seq(Pieces), NEW n \in 0..Len(records),
           Ship(records, n), NEW kind
    PROVE  /\ Gone(kind)' + Kept(kind)' = Gone(kind) + Count(records, kind)
           /\ Gone(kind) <= Gone(kind)'
           /\ n = Len(records) => wire' = wire \o records /\ session' = <<>>
<1> DEFINE first == SubSeq(records, 1, n)
           rest  == SubSeq(records, n + 1, Len(records))
<1>1. wire' = wire \o first /\ session' = rest
  BY DEF Ship
<1>2. /\ first \in Seq(Pieces) /\ rest \in Seq(Pieces) /\ Len(rest) = Len(records) - n
      /\ Count(first, kind) + Count(rest, kind) = Count(records, kind)
  BY CountSplit
<1>3. n = Len(records) => first = records /\ rest = <<>>
  BY <1>2, SubSeqFull, EmptySeq, LenProperties
<1> HIDE DEF first, rest
<1>4. Count(wire \o first, kind) = Count(wire, kind) + Count(first, kind)
  BY <1>2, CountConcat
<1>5. /\ Count(wire, kind) \in Nat /\ Count(first, kind) \in Nat /\ Count(rest, kind) \in Nat
      /\ Count(records, kind) \in Nat
  BY <1>2, CountType
<1>6. Gone(kind)' = Gone(kind) + Count(first, kind) /\ Kept(kind)' = Count(rest, kind)
  BY <1>1, <1>4 DEF Gone, Kept
<1>7. n = Len(records) => wire' = wire \o records /\ session' = <<>>
  BY <1>1, <1>3
<1>8. PICK a, b, c, d \in Nat :
         /\ a = Gone(kind) /\ b = Count(first, kind) /\ c = Count(rest, kind)
         /\ d = Count(records, kind)
  BY <1>5 DEF Gone
<1>9. Gone(kind)' = a + b /\ Kept(kind)' = c /\ b + c = d
  BY <1>2, <1>6, <1>8
<1>10. Gone(kind)' + Kept(kind)' = a + d /\ a <= Gone(kind)'
  BY <1>9
<1>11. QED
  BY <1>7, <1>8, <1>10
-----------------------------------------------------------------------------
(* What each use of the stream adds to the pieces there are.               *)
LEMMA WriteCount ==
    ASSUME StreamOK, variant # "Rustls" => session = <<>>,
           NEW what \in {"request", "frame"}, poll_write(what)
    PROVE  /\ Gone(Payloads)' + Kept(Payloads)' = Gone(Payloads) + Kept(Payloads) + 1
           /\ Gone(Fins)' + Kept(Fins)' = Gone(Fins) + Kept(Fins)
           /\ Gone(Payloads) <= Gone(Payloads)'
           /\ variant # "Rustls" => session' = <<>>
<1>1. /\ wire \in Seq(Pieces) /\ session \in Seq(Pieces)
      /\ Clear(what) \in Pieces /\ Sealed(what) \in Pieces
      /\ {Clear(what), Sealed(what)} \subseteq Payloads \ Fins
  BY PieceTypes, Kinds DEF StreamOK
<1>2. \A kind \in {Payloads, Fins} : Gone(kind) \in Nat /\ Kept(kind) \in Nat
  BY <1>1, BufferTypes
<1>3. CASE variant # "Rustls"
  <2>1. PICK p \in {Clear(what), Sealed(what)} : ToSocket(<<p>>)
    BY <1>3 DEF poll_write, StreamOK
  <2>2. p \in Pieces /\ p \in Payloads /\ p \notin Fins
    BY <1>1
  <2>3. session' = session /\ Gone(Payloads)' = Gone(Payloads) + 1 /\ Kept(Payloads)' = Kept(Payloads)
    BY <1>1, <2>1, <2>2, ToSocketCount
  <2>4. Gone(Fins)' = Gone(Fins) + 0 /\ Kept(Fins)' = Kept(Fins)
    BY <1>1, <2>1, <2>2, ToSocketCount
  <2>5. QED
    BY <1>2, <1>3, <2>3, <2>4
<1>4. CASE variant = "Rustls"
  <2> DEFINE records == Append(session, Sealed(what))
  <2>1. PICK n \in 0..(Len(session) + 1) : Ship(records, n)
    BY <1>4 DEF poll_write
  <2>2. records \in Seq(Pieces) /\ n \in 0..Len(records)
    BY <1>1, AppendProperties
  <2>3. Count(records, Payloads) = Kept(Payloads) + 1
    BY <1>1, CountAppend DEF Kept
  <2>4. Count(records, Fins) = Kept(Fins) + 0
    BY <1>1, CountAppend DEF Kept
  <2> HIDE DEF records
  <2>5. /\ Gone(Payloads)' + Kept(Payloads)' = Gone(Payloads) + Count(records, Payloads)
        /\ Gone(Payloads) <= Gone(Payloads)'
    BY <1>1, <2>1, <2>2, ShipCount
  <2>6. Gone(Fins)' + Kept(Fins)' = Gone(Fins) + Count(records, Fins)
    BY <1>1, <2>1, <2>2, ShipCount
  <2>7. QED
    BY <1>2, <1>4, <2>3, <2>4, <2>5, <2>6
<1>5. QED
  BY <1>3, <1>4

LEMMA FlushCount ==
    ASSUME StreamOK, variant # "Rustls" => session = <<>>,
           NEW done \in BOOLEAN, poll_flush(done)
    PROVE  /\ Gone(Payloads)' + Kept(Payloads)' = Gone(Payloads) + Kept(Payloads)
           /\ Gone(Fins)' + Kept(Fins)' = Gone(Fins) + Kept(Fins)
           /\ Gone(Payloads) <= Gone(Payloads)'
           /\ variant # "Rustls" => session' = <<>>
           /\ done => session' = <<>>
<1>1. wire \in Seq(Pieces) /\ session \in Seq(Pieces)
  BY DEF StreamOK
<1>2. \A kind \in {Payloads, Fins} : Gone(kind) \in Nat /\ Kept(kind) \in Nat
  BY <1>1, BufferTypes
<1>3. CASE variant # "Rustls"
  <2>1. wire' = wire /\ session' = session
    BY <1>3 DEF poll_flush
  <2>2. \A kind \in {Payloads, Fins} : Gone(kind)' = Gone(kind) /\ Kept(kind)' = Kept(kind)
    BY <2>1 DEF Gone, Kept
  <2>3. QED
    BY <1>2, <1>3, <2>1, <2>2
<1>4. CASE variant = "Rustls"
  <2>1. PICK n \in 0..Len(session) : done = (n = Len(session)) /\ Ship(session, n)
    BY <1>4 DEF poll_flush
  <2>2. /\ Gone(Payloads)' + Kept(Payloads)' = Gone(Payloads) + Count(session, Payloads)
        /\ Gone(Payloads) <= Gone(Payloads)'
        /\ done => session' = <<>>
    BY <1>1, <2>1, ShipCount
  <2>3. Gone(Fins)' + Kept(Fins)' = Gone(Fins) + Count(session, Fins)
    BY <1>1, <2>1, ShipCount
  <2>4. QED
    BY <1>4, <2>2, <2>3 DEF Kept
<1>5. QED
  BY <1>3, <1>4

LEMMA CountNone ==
    ASSUME NEW s \in Seq(Pieces), NEW kind
    PROVE  Count(s, kind) = 0 <=> \A i \in 1..Len(s) : s[i] \notin kind
<1>1. IsFiniteSet(Positions(s, kind))
  BY CountType
<1>2. Count(s, kind) = 0 <=> Positions(s, kind) = {}
  BY <1>1, FS_EmptySet DEF Count
<1>3. QED
  BY <1>2 DEF Positions

(* What is joined to the end of a sequence ends the longer one.            *)
LEMMA LastOfConcat ==
    ASSUME NEW S, NEW s \in Seq(S), NEW t \in Seq(S), Len(t) > 0
    PROVE  \E k \in 1..Len(s \o t) : (s \o t)[k] = t[Len(t)]
<1>1. PICK a, b \in Nat : a = Len(s) /\ b = Len(t) /\ b > 0
  BY LenProperties
<1>2. /\ Len(s \o t) = a + b
      /\ \A i \in 1..(a + b) : (s \o t)[i] = IF i <= a THEN s[i] ELSE t[i - a]
  BY <1>1, ConcatProperties
<1>3. a + b \in 1..(a + b) /\ ~(a + b <= a) /\ (a + b) - a = b
  BY <1>1
<1>4. QED
  BY <1>1, <1>2, <1>3

(* What was in a sequence stays in it when one element joins its end.      *)
LEMMA FirstOfAppend ==
    ASSUME NEW S, NEW s \in Seq(S), NEW x \in S
    PROVE  /\ Len(Append(s, x)) = Len(s) + 1 /\ Len(s) \in Nat
           /\ \A i \in 1..Len(s) : Append(s, x)[i] = s[i]
<1>1. Len(Append(s, x)) = Len(s) + 1 /\ Len(s) \in Nat
  BY AppendProperties
<1>2. QED
  BY <1>1, AppendProperties

(* The last records of a session: the notice is among them or has left,    *)
(* and the end of the stream is behind it.                                 *)
LEMMA LastRecords ==
    ASSUME wire \in Seq(Pieces), NEW records \in Seq(Pieces),
           Gone(Fins) + Count(records, Fins) = 0,
           \E i \in 1..Len(wire \o records) : (wire \o records)[i].what = "close_notify",
           wire' = wire \o Append(records, Clear("fin"))
    PROVE  NoticeFirst'
<1> DEFINE all == wire \o records
<1>1. all \in Seq(Pieces) /\ Clear("fin") \in Pieces /\ Clear("fin").what = "fin"
  BY ConcatProperties DEF Clear, Pieces
<1>2. Count(all, Fins) = 0
  <2>1. Count(all, Fins) = Count(wire, Fins) + Count(records, Fins)
    BY CountConcat
  <2>2. QED
    BY <2>1 DEF Gone
<1>3. wire' = Append(all, Clear("fin"))
  <2>1. <<Clear("fin")>> \in Seq(Pieces) /\ Append(records, Clear("fin")) = records \o <<Clear("fin")>>
    BY <1>1, AppendIsConcat
  <2>2. wire \o (records \o <<Clear("fin")>>) = all \o <<Clear("fin")>>
    BY <2>1, ConcatAssociative
  <2>3. all \o <<Clear("fin")>> = Append(all, Clear("fin"))
    BY <1>1, AppendIsConcat
  <2>4. QED
    BY <2>1, <2>2, <2>3
<1> HIDE DEF all
<1>4. /\ Len(wire') = Len(all) + 1 /\ Len(all) \in Nat
      /\ \A i \in 1..Len(all) : wire'[i] = all[i]
  <2>1. /\ Len(Append(all, Clear("fin"))) = Len(all) + 1 /\ Len(all) \in Nat
        /\ \A i \in 1..Len(all) : Append(all, Clear("fin"))[i] = all[i]
    BY <1>1, FirstOfAppend
  <2>2. QED
    BY <1>3, <2>1
<1>5. PICK i \in 1..Len(all) : all[i].what = "close_notify"
  BY DEF all
<1>6. \A j \in 1..Len(all) : all[j].what # "fin"
  <2>1. \A j \in 1..Len(all) : all[j] \in Pieces /\ all[j] \notin Fins
    BY <1>1, <1>2, CountNone, LenProperties
  <2>2. QED
    BY <2>1 DEF Fins
<1>7. i \in 1..Len(wire') /\ wire'[i].what = "close_notify"
  BY <1>4, <1>5
<1>8. ASSUME NEW j \in 1..Len(wire'), wire'[j].what = "fin" PROVE i < j
  <2>1. j \notin 1..Len(all)
    BY <1>4, <1>6, <1>8
  <2>2. QED
    BY <1>4, <2>1
<1>9. QED
  BY <1>7, <1>8 DEF NoticeFirst

(* A shutdown that is done has left nothing behind; one that is not has    *)
(* not ended the stream.                                                   *)
LEMMA ShutdownCount ==
    ASSUME StreamOK, variant # "Rustls" => session = <<>>, Gone(Fins) + Kept(Fins) = 0,
           NEW done \in BOOLEAN, poll_shutdown(done)
    PROVE  /\ Gone(Payloads)' + Kept(Payloads)' = Gone(Payloads) + Kept(Payloads)
           /\ Gone(Payloads) <= Gone(Payloads)'
           /\ variant # "Rustls" => session' = <<>>
           /\ done => session' = <<>> /\ (variant # "Plain" => NoticeFirst')
           /\ ~done => Gone(Fins)' + Kept(Fins)' = 0
<1>1. /\ wire \in Seq(Pieces) /\ session \in Seq(Pieces)
      /\ Clear("fin") \in Pieces /\ Sealed("close_notify") \in Pieces
      /\ Clear("fin") \notin Payloads
      /\ Sealed("close_notify") \notin Payloads \cup Fins
  BY PieceTypes, Kinds DEF StreamOK
<1>2. \A kind \in {Payloads, Fins} : Gone(kind) \in Nat /\ Kept(kind) \in Nat
  BY <1>1, BufferTypes
<1>3. CASE variant = "Plain"
  <2>1. done /\ ToSocket(<<Clear("fin")>>)
    BY <1>3 DEF poll_shutdown
  <2>2. /\ session' = session
        /\ Gone(Payloads)' = Gone(Payloads) + 0 /\ Kept(Payloads)' = Kept(Payloads)
    BY <1>1, <2>1, ToSocketCount
  <2>3. QED
    BY <1>2, <1>3, <2>1, <2>2
<1>4. CASE variant = "NativeTls"
  <2>1. done /\ ToSocket(<<Sealed("close_notify")>>)
    BY <1>4 DEF poll_shutdown
  <2>2. /\ session' = session /\ wire' = Append(wire, Sealed("close_notify"))
        /\ Gone(Payloads)' = Gone(Payloads) + 0 /\ Kept(Payloads)' = Kept(Payloads)
    BY <1>1, <2>1, ToSocketCount
  <2>3. NoticeFirst'
    <3>1. /\ Len(wire') = Len(wire) + 1 /\ Len(wire) \in Nat
          /\ \A i \in 1..Len(wire) : wire'[i] = wire[i]
          /\ wire'[Len(wire) + 1] = Sealed("close_notify")
      BY <1>1, <2>2, AppendProperties
    <3>2. \A j \in 1..Len(wire) : wire[j].what # "fin"
      <4>1. Gone(Fins) = 0
        BY <1>2
      <4>2. \A j \in 1..Len(wire) : wire[j] \in Pieces /\ wire[j] \notin Fins
        BY <1>1, <4>1, CountNone, LenProperties DEF Gone
      <4>3. QED
        BY <4>2 DEF Fins
    <3>3. Sealed("close_notify").what = "close_notify"
      BY DEF Sealed
    <3>4. \A j \in 1..Len(wire') : wire'[j].what # "fin"
      BY <3>1, <3>2, <3>3
    <3>5. Len(wire) + 1 \in 1..Len(wire')
      BY <3>1
    <3>6. QED
      BY <3>1, <3>3, <3>4, <3>5 DEF NoticeFirst
  <2>4. QED
    BY <1>2, <1>4, <2>1, <2>2, <2>3
<1>5. CASE variant = "Rustls"
  <2> DEFINE records == IF Notified THEN session ELSE Append(session, Sealed("close_notify"))
             last == Append(records, Clear("fin"))
  <2>1. \/ ~done /\ \E n \in 0..Len(records) : Ship(records, n)
        \/ done /\ Ship(last, Len(records) + 1)
    BY <1>5 DEF poll_shutdown
  <2>2. /\ records \in Seq(Pieces)
        /\ Count(records, Payloads) = Kept(Payloads) /\ Count(records, Fins) = Kept(Fins)
    <3>1. CASE Notified
      BY <1>1, <3>1 DEF Kept
    <3>2. CASE ~Notified
      <4>1. records = Append(session, Sealed("close_notify"))
        BY <3>2
      <4>2. records \in Seq(Pieces)
        BY <1>1, <4>1, AppendProperties
      <4>3. Count(records, Payloads) = Kept(Payloads) + 0
        BY <1>1, <4>1, CountAppend DEF Kept
      <4>4. Count(records, Fins) = Kept(Fins) + 0
        BY <1>1, <4>1, CountAppend DEF Kept
      <4>5. QED
        BY <1>2, <4>2, <4>3, <4>4
    <3>3. QED
      BY <3>1, <3>2
  <2>3. \E i \in 1..Len(wire \o records) : (wire \o records)[i].what = "close_notify"
    <3>1. CASE Notified
      <4>1. wire \o session \in Seq(Pieces)
        BY <1>1, ConcatProperties
      <4>2. DOMAIN (wire \o session) = 1..Len(wire \o session)
        BY <4>1
      <4>3. QED
        BY <3>1, <4>2 DEF Notified
    <3>2. CASE ~Notified
      <4>1. records = Append(session, Sealed("close_notify"))
        BY <3>2
      <4>2. /\ Len(records) = Len(session) + 1 /\ Len(session) \in Nat /\ Len(wire) \in Nat
            /\ records[Len(session) + 1] = Sealed("close_notify")
        BY <1>1, <4>1, AppendProperties
      <4> HIDE DEF records
      <4>3. \E k \in 1..Len(wire \o records) : (wire \o records)[k] = records[Len(records)]
        <5>1. records \in Seq(Pieces) /\ Len(records) > 0
          BY <2>2, <4>2
        <5>2. QED
          BY <1>1, <5>1, LastOfConcat
      <4>4. records[Len(records)].what = "close_notify"
        BY <4>2 DEF Sealed
      <4>5. QED
        BY <4>3, <4>4
    <3>3. QED
      BY <3>1, <3>2
  <2> HIDE DEF records
  <2>4. /\ last \in Seq(Pieces) /\ Len(last) = Len(records) + 1 /\ Len(records) \in Nat
        /\ Len(last) \in 0..Len(last)
    BY <1>1, <2>2, AppendProperties
  <2>5. Count(last, Payloads) = Kept(Payloads) + 0
    BY <1>1, <2>2, CountAppend
  <2>6. CASE ~done
    <3>1. PICK n \in 0..Len(records) : Ship(records, n)
      BY <2>1, <2>6
    <3>2. /\ Gone(Payloads)' + Kept(Payloads)' = Gone(Payloads) + Count(records, Payloads)
          /\ Gone(Payloads) <= Gone(Payloads)'
      BY <1>1, <2>2, <3>1, ShipCount
    <3>3. Gone(Fins)' + Kept(Fins)' = Gone(Fins) + Count(records, Fins)
      BY <1>1, <2>2, <3>1, ShipCount
    <3>4. QED
      BY <1>5, <2>2, <2>6, <3>2, <3>3
  <2>7. CASE done
    <3>1. Ship(last, Len(last))
      BY <2>1, <2>4, <2>7
    <3> HIDE DEF last
    <3>2. /\ Gone(Payloads)' + Kept(Payloads)' = Gone(Payloads) + Count(last, Payloads)
          /\ Gone(Payloads) <= Gone(Payloads)'
          /\ wire' = wire \o last /\ session' = <<>>
      BY <1>1, <2>4, <3>1, ShipCount
    <3>3. NoticeFirst'
      BY <1>1, <2>2, <2>3, <3>2, LastRecords DEF last
    <3>4. QED
      BY <1>2, <1>5, <2>5, <2>7, <3>2, <3>3
  <2>8. QED
    BY <2>6, <2>7
<1>6. QED
  BY <1>3, <1>4, <1>5 DEF StreamOK
-----------------------------------------------------------------------------
LEMMA BuffersStep == ASSUME IInv, Buffers, [Next]_vars PROVE Buffers'
<1>1. /\ wire \in Seq(Pieces) /\ session \in Seq(Pieces)
      /\ told.written \in Nat /\ told.flushed \in Nat
      /\ \A kind \in {Payloads, Fins} : Gone(kind) \in Nat /\ Kept(kind) \in Nat
  <2>1. wire \in Seq(Pieces) /\ session \in Seq(Pieces)
    BY DEF IInv, TypeOK
  <2>2. \A kind \in {Payloads, Fins} : Gone(kind) \in Nat /\ Kept(kind) \in Nat
    BY <2>1, BufferTypes
  <2>3. QED
    BY <2>1, <2>2 DEF IInv, TypeOK
<1>2. ASSUME UNCHANGED <<session, wire, told>>, UNCHANGED variant \/ variant = "None",
             at = "closed" => UNCHANGED variant,
             (at = "closed") <=> (at' = "closed")
      PROVE  Buffers'
  <2>1. \A kind : Gone(kind)' = Gone(kind) /\ Kept(kind)' = Kept(kind)
    BY <1>2 DEF Gone, Kept
  <2>2. NoticeFirst' <=> NoticeFirst
    BY <1>2 DEF NoticeFirst
  <2>3. Accounted'
    BY <1>2, <2>1 DEF Buffers, Accounted
  <2>4. Shut'
    BY <1>2, <2>1, <2>2 DEF Buffers, Shut
  <2>5. QED
    BY <2>3, <2>4 DEF Buffers
<1>3. CASE connect \/ dial \/ client_async_tls_with_config \/ answer \/ read_response \/ cancel
  BY <1>2, <1>3
  DEF connect, dial, client_async_tls_with_config, answer, read_response, cancel, Fail,
      Unchanged_stream, streamVars, poll_read, wrap_plain_tls, wrap_tls, IInv, Wrapped
<1>4. CASE tls_handshake
  <2>1. /\ wire' = Append(wire, Clear("hello")) /\ session' = session /\ told' = told
        /\ at = "tls" /\ at' \in {"client", "failed"} /\ variant = "None"
    BY <1>4 DEF tls_handshake, Fail, IInv, Wrapped
  <2>2. Clear("hello") \in Pieces /\ Clear("hello") \notin Payloads \cup Fins
    BY PieceTypes, Kinds
  <2>3. Count(Append(wire, Clear("hello")), Payloads) = Count(wire, Payloads) + 0
    BY <1>1, <2>2, CountAppend
  <2>4. Count(Append(wire, Clear("hello")), Fins) = Count(wire, Fins) + 0
    BY <1>1, <2>2, CountAppend
  <2>5. \A kind \in {Payloads, Fins} : Gone(kind)' = Gone(kind) /\ Kept(kind)' = Kept(kind)
    BY <1>1, <2>1, <2>3, <2>4 DEF Gone, Kept
  <2>6. session = <<>> /\ ~told.shutdown
    BY <2>1 DEF Buffers, Accounted, Shut
  <2>7. QED
    BY <2>1, <2>5, <2>6 DEF Buffers, Accounted, Shut
<1>5. ASSUME NEW what \in {"request", "frame"}, Write(what), StreamOK, at # "closed", at' # "closed"
      PROVE  Buffers'
  <2>1. poll_write(what) /\ variant' = variant /\ told' = [told EXCEPT !.written = @ + 1]
    BY <1>5 DEF Write, poll_write
  <2>2. told'.written = told.written + 1 /\ told'.flushed = told.flushed /\ told'.shutdown = told.shutdown
    BY <2>1 DEF IInv, TypeOK
  <2>3. variant # "Rustls" => session = <<>>
    BY DEF Buffers, Accounted
  <2>4. /\ Gone(Payloads)' + Kept(Payloads)' = Gone(Payloads) + Kept(Payloads) + 1
        /\ Gone(Fins)' + Kept(Fins)' = Gone(Fins) + Kept(Fins)
        /\ Gone(Payloads) <= Gone(Payloads)'
        /\ variant # "Rustls" => session' = <<>>
    BY <1>5, <2>1, <2>3, WriteCount
  <2>5. StreamKept
    BY <1>5, <2>1, WriteKept
  <2>6. Gone(Payloads)' \in Nat
    BY <2>5, CountType DEF StreamKept, StreamOK, Gone
  <2>7. QED
    BY <1>1, <1>5, <2>1, <2>2, <2>4, <2>6 DEF Buffers, Accounted, Shut
<1>6. ASSUME NEW done \in BOOLEAN, Flush(done), StreamOK, at # "closed", at' # "closed"
      PROVE  Buffers'
  <2>1. /\ poll_flush(done) /\ variant' = variant
        /\ told' = [told EXCEPT !.flushed = IF done THEN told.written ELSE @]
    BY <1>6 DEF Flush, poll_flush
  <2>2. /\ told'.written = told.written /\ told'.shutdown = told.shutdown
        /\ told'.flushed = IF done THEN told.written ELSE told.flushed
    BY <2>1 DEF IInv, TypeOK
  <2>3. variant # "Rustls" => session = <<>>
    BY DEF Buffers, Accounted
  <2>4. /\ Gone(Payloads)' + Kept(Payloads)' = Gone(Payloads) + Kept(Payloads)
        /\ Gone(Fins)' + Kept(Fins)' = Gone(Fins) + Kept(Fins)
        /\ Gone(Payloads) <= Gone(Payloads)'
        /\ variant # "Rustls" => session' = <<>>
        /\ done => session' = <<>>
    BY <1>6, <2>1, <2>3, FlushCount
  <2>5. done => Kept(Payloads)' = 0
    BY <2>4, CountEmpty DEF Kept
  <2>6. Gone(Payloads)' \in Nat
    <3>1. StreamKept
      BY <1>6, <2>1, FlushKept
    <3>2. QED
      BY <3>1, CountType DEF StreamKept, StreamOK, Gone
  <2>7. Accounted'
    BY <1>1, <2>1, <2>2, <2>4, <2>5, <2>6 DEF Buffers, Accounted
  <2>8. QED
    BY <1>6, <2>2, <2>4, <2>7 DEF Buffers, Shut
<1>7. ASSUME NEW done \in BOOLEAN, shutdown(done) PROVE Buffers'
  <2>1. /\ poll_shutdown(done) /\ variant' = variant /\ at \in {"open", "closing"}
        /\ at' = IF done THEN "closed" ELSE "closing"
        /\ told' = [told EXCEPT !.shutdown = done]
    BY <1>7 DEF shutdown, poll_shutdown
  <2>2. /\ told'.written = told.written /\ told'.flushed = told.flushed
        /\ told'.shutdown = done
    BY <2>1 DEF IInv, TypeOK
  <2>3. StreamOK /\ (variant # "Rustls" => session = <<>>) /\ Gone(Fins) + Kept(Fins) = 0
    BY <2>1, StreamThere DEF Buffers, Accounted, Shut
  <2>4. /\ Gone(Payloads)' + Kept(Payloads)' = Gone(Payloads) + Kept(Payloads)
        /\ Gone(Payloads) <= Gone(Payloads)'
        /\ variant # "Rustls" => session' = <<>>
        /\ done => session' = <<>> /\ (variant # "Plain" => NoticeFirst')
        /\ ~done => Gone(Fins)' + Kept(Fins)' = 0
    BY <2>1, <2>3, ShutdownCount
  <2>5. Gone(Payloads)' \in Nat
    <3>1. StreamKept
      BY <2>1, <2>3, ShutdownKept
    <3>2. QED
      BY <3>1, CountType DEF StreamKept, StreamOK, Gone
  <2>6. Accounted'
    BY <1>1, <2>1, <2>2, <2>4, <2>5 DEF Buffers, Accounted
  <2>7. QED
    BY <2>1, <2>2, <2>4, <2>6 DEF Buffers, Shut
<1>8. CASE write_request \/ write_frame
  <2>1. StreamOK /\ at # "closed" /\ at' # "closed"
    BY <1>8, StreamThere DEF write_request, write_frame, Fail
  <2>2. CASE Write("request") \/ Write("frame")
    BY <1>5, <2>1, <2>2
  <2>3. CASE Unchanged_stream
    BY <1>2, <2>1, <2>3 DEF Unchanged_stream, streamVars
  <2>4. QED
    BY <1>8, <2>2, <2>3 DEF write_request, write_frame
<1>9. CASE \E done \in BOOLEAN : flush_request(done) \/ flush_frames(done)
  <2>1. PICK done \in BOOLEAN : flush_request(done) \/ flush_frames(done)
    BY <1>9
  <2>2. StreamOK /\ Flush(done) /\ at # "closed" /\ at' # "closed"
    BY <2>1, StreamThere DEF flush_request, flush_frames
  <2>3. QED
    BY <1>6, <2>2
<1>10. CASE finished \/ UNCHANGED vars
  BY <1>2, <1>10 DEF finished, vars, streamVars
<1>11. QED
  BY <1>3, <1>4, <1>7, <1>8, <1>9, <1>10 DEF Next

LEMMA BuffersHold == Spec => []Buffers
<1>1. Init => Buffers
  BY CountEmpty DEF Init, Buffers, Accounted, Shut, Gone, Kept
<1>2. IInv /\ Buffers /\ [Next]_vars => Buffers'
  BY BuffersStep
<1>3. QED
  BY <1>1, <1>2, Invariance, PTL DEF Spec
-----------------------------------------------------------------------------
(* The state of a connect, of its TLS session and of its socket is well    *)
(* typed.                                                                  *)
THEOREM TypeCorrect == Spec => []TypeOK
<1>1. IInv => TypeOK
  BY DEF IInv
<1>2. QED
  BY <1>1, Invariance, PTL

(* Nothing of a wss request leaves src/tls.rs unencrypted, or to a server  *)
(* that the caller's or the build's certificates do not vouch for.         *)
THEOREM WssIsSecure == Spec => []SecureIfWss
<1>1. IInv => SecureIfWss
  <2> SUFFICES ASSUME IInv, call.uri.scheme = "wss", NEW i \in DOMAIN wire,
                      wire[i].what \in Payload
               PROVE  wire[i].sealed /\ server.issuer \in Expected
                        /\ server.host = call.uri.host
    BY DEF SecureIfWss
  <2>1. wire \in Seq(Pieces) /\ i \in 1..Len(wire)
    BY DEF IInv, TypeOK
  <2>2. variant \in {"NativeTls", "Rustls"}
    BY <2>1 DEF IInv, TypeOK, Wrapped, Written
  <2>3. QED
    BY <2>1, <2>2 DEF IInv, Wrapped, Written, Safe
<1>2. QED
  BY <1>1, Invariance, PTL

(* A URL whose mode or domain client_async_tls_with_config refuses has not *)
(* caused a single byte to be sent.                                        *)
THEOREM BadUrlIsSilent == Spec => []BadUrlSendsNothing
<1>1. IInv => BadUrlSendsNothing
  BY UriFacts DEF IInv, Written, BadUrlSendsNothing
<1>2. QED
  BY <1>1, Invariance, PTL

(* The port that src/connect.rs guesses and the mode that src/tls.rs finds *)
(* in the same URL belong together.                                        *)
THEOREM PortFitsMode == Spec => []GuessedPortFits
<1>1. IInv => GuessedPortFits
  <2> SUFFICES ASSUME IInv, target # NoTarget, call.uri.port = NoPort
               PROVE  /\ target.port \in {80, 443}
                      /\ uri_mode(call.uri) = IF target.port = 443 THEN "Tls" ELSE "Plain"
                      /\ variant # "None" => (variant = "Plain" <=> target.port = 80)
    BY DEF GuessedPortFits
  <2>1. /\ call.uri.scheme \in {"ws", "wss"}
        /\ target.port = IF call.uri.scheme = "wss" THEN 443 ELSE 80
    BY DEF IInv, Dialled, port
  <2>2. variant # "None" => (variant = "Plain" <=> call.uri.scheme = "ws")
    BY DEF IInv, TypeOK, Wrapped
  <2>3. QED
    BY <2>1, <2>2 DEF uri_mode
<1>2. QED
  BY <1>1, Invariance, PTL

(* Where domain was built with rustls, wrap_stream of rustls does not      *)
(* refuse the IPv6 address of a wss URL for its brackets, whatever the     *)
(* connector and the other features.                                       *)
THEOREM RustlsGetsAddresses == Spec => []RustlsTakesAddresses
<1>1. IInv => RustlsTakesAddresses
  BY DEF IInv
<1>2. QED
  BY <1>1, Invariance, PTL

(* MaybeTlsStream's poll_flush does not report what a TLS session still    *)
(* holds as flushed: not the request whose answer is awaited, nor a frame. *)
THEOREM FlushIsTrue == Spec => []FlushReachesSocket
<1>1. IInv /\ Buffers => FlushReachesSocket
  <2> SUFFICES ASSUME IInv, Buffers PROVE told.flushed <= Messages(wire)
    BY DEF FlushReachesSocket
  <2>1. Messages(wire) = Gone(Payloads)
    BY MessagesCount DEF IInv, TypeOK
  <2>2. QED
    BY <2>1 DEF Buffers, Accounted
<1>2. QED
  BY <1>1, Invariance, BuffersHold, PTL

(* MaybeTlsStream's poll_shutdown is complete when it says so: everything  *)
(* written has left, and over TLS the close_notify before the end.         *)
THEOREM ShutdownIsTrue == Spec => []ShutdownIsComplete
<1>1. IInv /\ Buffers => ShutdownIsComplete
  <2> SUFFICES ASSUME IInv, Buffers, told.shutdown PROVE ShutdownIsComplete
    BY DEF ShutdownIsComplete
  <2>1. wire \in Seq(Pieces) /\ DOMAIN wire = 1..Len(wire) /\ Messages(wire) = Gone(Payloads)
    BY MessagesCount DEF IInv, TypeOK
  <2>2. session = <<>> /\ (variant # "Plain" => NoticeFirst)
    BY DEF Buffers, Shut
  <2>3. Kept(Payloads) = 0 /\ Gone(Payloads) \in Nat
    BY <2>1, <2>2, CountEmpty, CountType DEF Kept, Gone
  <2>4. Messages(wire) = told.written
    BY <2>1, <2>3 DEF Buffers, Accounted
  <2>5. QED
    BY <2>1, <2>2, <2>4 DEF ShutdownIsComplete, NoticeFirst
<1>2. QED
  BY <1>1, Invariance, BuffersHold, PTL
=============================================================================
