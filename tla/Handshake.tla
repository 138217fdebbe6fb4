------------------------------ MODULE Handshake ------------------------------
(***************************************************************************)
(* src/handshake.rs, and the client_async / accept_hdr_async functions of  *)
(* src/lib.rs that run it: the futures of the two ends of an opening       *)
(* handshake, over a transport that takes and delivers the messages piece  *)
(* by piece and blocks at any point.  Or, with from_raw_socket and         *)
(* from_partially_read, the futures that skip it.                          *)
(*                                                                         *)
(* The handshake machine that a future drives, with its stages Writing,    *)
(* Flushing and Reading, is tungstenite's and external.  A poll of a       *)
(* future is many steps, so the two ends and the transport interleave      *)
(* inside a poll.                                                          *)
(***************************************************************************)
EXTENDS Integers, Sequences

CONSTANTS
    RequestLen,   \* pieces of the request
    ResponseLen,  \* pieces of the response
    Early,        \* pieces of messages the server sends right afterwards
    Cap           \* pieces the transport holds in one direction

ASSUME LengthAssumption ==
    /\ RequestLen \in Nat \ {0} /\ ResponseLen \in Nat \ {0}
    /\ Cap \in Nat \ {0} /\ Early \in Nat

End == {"Client", "Server"}
Peer(e) == IF e = "Client" THEN "Server" ELSE "Client"

VARIABLES
    future,   \* future[e]: the future that is awaited, or its outcome
    started,  \* started[e]: the first future still holds its closure
    part,     \* part[e]: what from_partially_read was given to begin with
    mid,      \* mid[e]: the machine in the Option of MidHandshake
    running,  \* running[e]: the machine a running poll has taken out
    polling,  \* polling[e]: a poll of the handshake runs
    pipe,     \* pipe[e]: the pieces on their way to e
    tail,     \* tail[e]: pieces read past the end of the handshake
    reply,    \* the server callback's answer to the request, once it was asked
    early     \* pieces of messages the server has sent after its handshake

vars == <<future, started, part, mid, running, polling, pipe, tail, reply, early>>

NoMachine == [stage |-> "None", out |-> <<>>, in |-> <<>>]
Machine(stage, out) == [stage |-> stage, out |-> out, in |-> <<>>]

Pieces(kind, n) == [i \in 1..n |-> kind]
Awaited == {"StartedHandshake", "MidHandshake", "SkippedHandshake"}
Live(e) == future[e] \in Awaited \cup {"ok"}

(* Another library did the handshake, and some of what the server then     *)
(* sent it has read itself.                                                *)
DoneElsewhere ==
    /\ future = [e \in End |-> "SkippedHandshake"]
    /\ reply = "response"
    /\ \E n \in 0..Early, k \in 0..Cap :
        /\ n + k <= Early
        /\ early = n + k
        /\ part = [e \in End |-> IF e = "Client" THEN Pieces("frame", n) ELSE <<>>]
        /\ pipe = [e \in End |-> IF e = "Client" THEN Pieces("frame", k) ELSE <<>>]

DoneHere ==
    /\ future = [e \in End |-> "StartedHandshake"]
    /\ reply = "none"
    /\ early = 0
    /\ part = [e \in End |-> <<>>]
    /\ pipe = [e \in End |-> <<>>]

Init ==
    /\ DoneHere \/ DoneElsewhere
    /\ started = [e \in End |-> TRUE]
    /\ mid = [e \in End |-> NoMachine]
    /\ running = [e \in End |-> NoMachine]
    /\ polling = [e \in End |-> FALSE]
    /\ tail = [e \in End |-> <<>>]

Keep(e, m) == running' = [running EXCEPT ![e] = m] /\ UNCHANGED <<future, polling>>

(* The poll returns Ready; an Err drops the stream. *)
Finish(e, outcome) ==
    /\ future' = [future EXCEPT ![e] = outcome]
    /\ running' = [running EXCEPT ![e] = NoMachine]
    /\ polling' = [polling EXCEPT ![e] = FALSE]
-----------------------------------------------------------------------------
(* What the closures of from_raw_socket and from_partially_read hand on.   *)
FirstInput(e) == part[e]

(* SkippedHandshakeFuture::poll takes the closure, registers the waker and *)
(* is done.                                                                *)
poll_skipped(e) ==
    /\ future[e] = "SkippedHandshake"
    /\ started' = [started EXCEPT ![e] = FALSE]
    /\ tail' = [tail EXCEPT ![e] = FirstInput(e)]
    /\ Finish(e, IF started[e] THEN "ok" ELSE "panic")
    /\ UNCHANGED <<part, mid, pipe, reply, early>>

(* What the closures of client_async and accept_hdr_async start. *)
FirstMachine(e) ==
    IF e = "Client"
    THEN Machine("Writing", Pieces("request", RequestLen))
    ELSE Machine("Reading", <<>>)

(* StartedHandshakeFuture::poll takes the closure, registers the waker     *)
(* (AllowStd::new) and starts the machine.  On the client the closure may  *)
(* fail before any I/O, on a request that is not valid.                    *)
poll_started(e) ==
    /\ future[e] = "StartedHandshake"
    /\ ~polling[e]
    /\ started' = [started EXCEPT ![e] = FALSE]
    /\ IF ~started[e]
       THEN Finish(e, "panic")
       ELSE \/ e = "Client" /\ Finish(e, "invalid")
            \/ /\ running' = [running EXCEPT ![e] = FirstMachine(e)]
               /\ polling' = [polling EXCEPT ![e] = TRUE]
               /\ UNCHANGED future
    /\ UNCHANGED <<part, mid, pipe, tail, reply, early>>

(* MidHandshake::poll takes the machine out of its Option and registers    *)
(* the waker.  It runs when the task is woken, or for no reason at all,    *)
(* and at once after an interrupted start, in the same poll.               *)
poll_mid(e) ==
    /\ future[e] = "MidHandshake"
    /\ running[e] = NoMachine
    /\ IF mid[e] = NoMachine
       THEN Finish(e, "panic") /\ UNCHANGED mid
       ELSE /\ running' = [running EXCEPT ![e] = mid[e]]
            /\ mid' = [mid EXCEPT ![e] = NoMachine]
            /\ polling' = [polling EXCEPT ![e] = TRUE]
            /\ UNCHANGED future
    /\ UNCHANGED <<started, part, pipe, tail, reply, early>>

(* Mutant: the interrupted machine is not put back. *)
interrupted_dropped(e) ==
    /\ running' = [running EXCEPT ![e] = NoMachine]
    /\ future' = [future EXCEPT ![e] = "MidHandshake"]
    /\ mid' = [mid EXCEPT ![e] = IF future[e] = "MidHandshake" THEN NoMachine ELSE running[e]]
    /\ polling' = [polling EXCEPT ![e] = future[e] = "StartedHandshake"]

(* Mutant: the machine put back has no place for what it has read so far. *)
interrupted_without_input(e) ==
    /\ running' = [running EXCEPT ![e] = NoMachine]
    /\ future' = [future EXCEPT ![e] = "MidHandshake"]
    /\ mid' = [mid EXCEPT ![e] = [stage |-> running[e].stage, out |-> running[e].out]]
    /\ polling' = [polling EXCEPT ![e] = future[e] = "StartedHandshake"]

(* Mutant: the interrupted machine begins its stage anew. *)
interrupted_forgetful(e) ==
    /\ running' = [running EXCEPT ![e] = NoMachine]
    /\ future' = [future EXCEPT ![e] = "MidHandshake"]
    /\ mid' = [mid EXCEPT ![e] = Machine(running[e].stage, running[e].out)]
    /\ polling' = [polling EXCEPT ![e] = future[e] = "StartedHandshake"]

(* Error::Interrupted(mid): a started handshake hands its machine to a     *)
(* MidHandshake, which is polled at once; a MidHandshake puts the machine  *)
(* back and returns Pending.                                               *)
interrupted(e) ==
    /\ running' = [running EXCEPT ![e] = NoMachine]
    /\ future' = [future EXCEPT ![e] = "MidHandshake"]
    /\ mid' = [mid EXCEPT ![e] = running[e]]
    /\ polling' = [polling EXCEPT ![e] = future[e] = "StartedHandshake"]
-----------------------------------------------------------------------------
(* Mutant: a rejection counts as success on the server. *)
DoneWritingAnyReply(e) ==
    IF e = "Client" THEN Keep(e, Machine("Reading", <<>>)) ELSE Finish(e, "ok")

(* What a machine does once a stage is finished: the client reads after it *)
(* wrote the request; the server is done, or, having written a rejection,  *)
(* fails.                                                                  *)
DoneWriting(e) ==
    CASE e = "Client" -> Keep(e, Machine("Reading", <<>>))
      [] e = "Server" /\ reply = "response" -> Finish(e, "ok")
      [] OTHER -> Finish(e, "rejected")

(* The server answers the request, which nothing follows: a client writes  *)
(* no more before it has the response.                                     *)
DoneRequest(e) ==
    /\ \E answer \in {"response", "rejection"} :
          /\ reply' = answer
          /\ Keep(e, Machine("Writing", Pieces(answer, ResponseLen)))
    /\ UNCHANGED tail

(* The client goes by the response; what was read past it becomes the      *)
(* first input of the WebSocket.                                           *)
DoneResponse(e, answer, rest) ==
    /\ Finish(e, IF answer = "response" THEN "ok" ELSE "rejected")
    /\ tail' = [tail EXCEPT ![e] = rest]
    /\ UNCHANGED reply

MessageLen(e) == IF e = "Client" THEN ResponseLen ELSE RequestLen

write_round(e) ==
    LET m == running[e]
    IN  /\ m.stage = "Writing"
        /\ \/ /\ ~Live(Peer(e))
              /\ Finish(e, "io")
              /\ UNCHANGED <<mid, pipe>>
           \/ /\ Live(Peer(e)) /\ Len(pipe[Peer(e)]) = Cap
              /\ interrupted(e)
              /\ UNCHANGED pipe
           \/ /\ Live(Peer(e))
              /\ \E n \in 1..(Cap - Len(pipe[Peer(e)])) :
                    /\ n <= Len(m.out)
                    /\ pipe' = [pipe EXCEPT ![Peer(e)] = @ \o SubSeq(m.out, 1, n)]
                    /\ Keep(e, IF n = Len(m.out) THEN Machine("Flushing", <<>>)
                               ELSE [m EXCEPT !.out = SubSeq(@, n + 1, Len(@))])
              /\ UNCHANGED mid
        /\ UNCHANGED <<started, part, tail, reply, early>>

(* Flushing may block as well, on a stream that buffers. *)
flush_round(e) ==
    /\ running[e].stage = "Flushing"
    /\ \/ interrupted(e)
       \/ DoneWriting(e) /\ UNCHANGED mid
    /\ UNCHANGED <<started, part, pipe, tail, reply, early>>

read_round(e) ==
    LET m    == running[e]
        size == MessageLen(e)
    IN  /\ m.stage = "Reading"
        /\ \/ /\ pipe[e] = <<>> /\ Live(Peer(e))
              /\ interrupted(e)
              /\ UNCHANGED <<pipe, tail, reply>>
           \/ /\ pipe[e] = <<>> /\ ~Live(Peer(e))
              /\ Finish(e, "incomplete")
              /\ UNCHANGED <<mid, pipe, tail, reply>>
           \/ \E n \in 1..Len(pipe[e]) :
                LET in   == m.in \o SubSeq(pipe[e], 1, n)
                    rest == SubSeq(in, size + 1, Len(in))
                IN  /\ pipe' = [pipe EXCEPT ![e] = SubSeq(@, n + 1, Len(@))]
                    /\ \/ Len(in) < size /\ Keep(e, [m EXCEPT !.in = in]) /\ UNCHANGED <<tail, reply>>
                       \/ Len(in) >= size /\ e = "Server" /\ DoneRequest(e)
                       \/ Len(in) >= size /\ e = "Client" /\ DoneResponse(e, in[1], rest)
                    /\ UNCHANGED mid
        /\ UNCHANGED <<started, part, early>>
-----------------------------------------------------------------------------
(* The server's user sends messages as soon as accept_async returned. *)
send_early ==
    /\ future["Server"] = "ok"
    /\ early < Early
    /\ Live("Client") /\ Len(pipe["Client"]) < Cap
    /\ pipe' = [pipe EXCEPT !["Client"] = Append(@, "frame")]
    /\ early' = early + 1
    /\ UNCHANGED <<future, started, part, mid, running, polling, tail, reply>>

(* A pending handshake is dropped, by a timeout for instance, and the      *)
(* stream with it.                                                         *)
cancel(e) ==
    /\ future[e] \in Awaited
    /\ ~polling[e]
    /\ future' = [future EXCEPT ![e] = "cancelled"]
    /\ mid' = [mid EXCEPT ![e] = NoMachine]
    /\ UNCHANGED <<started, part, running, polling, pipe, tail, reply, early>>

Settled == \A e \in End : future[e] \notin Awaited

settled == Settled /\ UNCHANGED vars

Round(e) == write_round(e) \/ flush_round(e) \/ read_round(e)

Next ==
    \/ \E e \in End : poll_skipped(e) \/ poll_started(e) \/ poll_mid(e) \/ Round(e) \/ cancel(e)
    \/ send_early
    \/ settled

Spec == Init /\ [][Next]_vars

(***************************************************************************)
(* Fairness: both futures are awaited.  A poll runs to its end, a started  *)
(* one even into MidHandshake, a flush does not block for ever, and a      *)
(* pending handshake is polled when it can go on, which is when AllowStd   *)
(* delivers a wakeup.                                                      *)
(***************************************************************************)
CanGoOn(e) ==
    \/ polling[e]
    \/ ~Live(Peer(e))
    \/ mid[e].stage = "Writing" /\ Len(pipe[Peer(e)]) < Cap
    \/ mid[e].stage = "Flushing"
    \/ mid[e].stage = "Reading" /\ pipe[e] # <<>>

Fairness ==
    \A e \in End :
        /\ WF_vars(poll_skipped(e)) /\ WF_vars(poll_started(e))
        /\ WF_vars(CanGoOn(e) /\ poll_mid(e))
        /\ WF_vars(Round(e))
        /\ SF_vars(running[e].stage = "Flushing" /\ DoneWriting(e)
                     /\ UNCHANGED <<mid, started, part, pipe, tail, reply, early>>)

FairSpec == Spec /\ Fairness
-----------------------------------------------------------------------------
Outcomes ==
    {"ok", "invalid", "rejected", "incomplete", "io", "cancelled", "panic"}
Kinds == {"request", "response", "rejection", "frame"}
Machines == [stage : {"None", "Writing", "Flushing", "Reading"}, out : Seq(Kinds), in : Seq(Kinds)]

TypeOK ==
    /\ future \in [End -> Awaited \cup Outcomes]
    /\ {started, polling} \subseteq [End -> BOOLEAN]
    /\ {mid, running} \subseteq [End -> Machines]
    /\ {pipe, tail, part} \subseteq [End -> Seq(Kinds)]
    /\ reply \in {"none", "response", "rejection"}
    /\ early \in 0..Early

(* "future polled after completion" is never reached: however often and    *)
(* wherever a handshake is interrupted, the next poll finds the machine.   *)
NeverPolledAfterCompletion == \A e \in End : future[e] # "panic"

(* The outcomes agree: a client that is told Ok has a server that answered *)
(* with a complete response, a server that reports a rejection has a       *)
(* client that sees it, and neither learns anything else from a connection *)
(* that does not fail.                                                     *)
OutcomesAgree ==
    /\ future["Client"] = "ok" => reply = "response"
    /\ future["Client"] = "rejected" => reply = "rejection"
    /\ future["Server"] = "rejected" => future["Client"] \in Awaited \cup {"rejected", "cancelled"}
    /\ future["Server"] = "ok" => future["Client"] \in Awaited \cup {"ok", "cancelled"}

(* What the server sends right after its handshake is not swallowed by the *)
(* client's: it is in the tail handed to the WebSocket, or still to come.  *)
(* So is what another library read before from_partially_read.             *)
EarlyMessagesKept ==
    future["Client"] = "ok" => tail["Client"] \o pipe["Client"] = Pieces("frame", early)

(* Both handshakes come to an end, wherever they block. *)
HandshakeEnds == <>Settled
=============================================================================
