--------------------------- MODULE HandshakeProofs ---------------------------
(***************************************************************************)
(* The futures of a handshake never lose the machine they drive, whatever  *)
(* the lengths of the messages and the capacity of the transport.          *)
(***************************************************************************)
EXTENDS Handshake, SequenceTheorems, TLAPS

(* What a poll takes out is there: the closure before the first poll, the  *)
(* machine whenever a MidHandshake is pending.                             *)
Holds(e) ==
    /\ future[e] = "StartedHandshake" /\ ~polling[e] => started[e]
    /\ future[e] = "SkippedHandshake" => started[e]
    /\ future[e] = "MidHandshake" /\ running[e] = NoMachine => mid[e] # NoMachine
    /\ future[e] # "panic"

IInv == TypeOK /\ \A e \in End : Holds(e)
-----------------------------------------------------------------------------
(* Both parts of a sequence of pieces that is cut are sequences of pieces. *)
LEMMA Cut ==
    ASSUME NEW s \in Seq(Kinds), NEW n \in 0..Len(s)
    PROVE  /\ SubSeq(s, 1, n) \in Seq(Kinds)
           /\ SubSeq(s, n + 1, Len(s)) \in Seq(Kinds)
  BY SubSeqProperties

LEMMA PiecesType ==
    ASSUME NEW kind \in Kinds, NEW n \in Nat
    PROVE  Pieces(kind, n) \in Seq(Kinds)
  BY DEF Pieces

LEMMA MachineType ==
    ASSUME NEW stage \in {"None", "Writing", "Flushing", "Reading"}, NEW out \in Seq(Kinds)
    PROVE  Machine(stage, out) \in Machines
  BY DEF Machine, Machines

LEMMA EmptyMachineType ==
    ASSUME NEW stage \in {"None", "Writing", "Flushing", "Reading"}
    PROVE  Machine(stage, <<>>) \in Machines
<1>1. <<>> \in Seq(Kinds)
  OBVIOUS
<1>2. QED
  BY <1>1, MachineType

LEMMA NoMachineType == NoMachine \in Machines
  BY DEF NoMachine, Machines

(* The outcome of a poll, of whatever kind, keeps types and what Holds. *)
Futures == /\ future \in [End -> Awaited \cup Outcomes]
           /\ {started, polling} \subseteq [End -> BOOLEAN]
           /\ {mid, running} \subseteq [End -> Machines]
           /\ \A e \in End : Holds(e)

LEMMA FinishStep ==
    ASSUME Futures, NEW e \in End, NEW outcome \in Outcomes \ {"panic"},
           Finish(e, outcome), UNCHANGED mid,
           started' \in {started, [started EXCEPT ![e] = FALSE]}
    PROVE  Futures'
<1>1. /\ future' \in [End -> Awaited \cup Outcomes]
      /\ {started, polling}' \subseteq [End -> BOOLEAN]
      /\ {mid, running}' \subseteq [End -> Machines]
  BY NoMachineType DEF Futures, Finish
<1>2. ASSUME NEW x \in End PROVE Holds(x)'
  <2>1. CASE x = e
    BY <2>1 DEF Futures, Finish, Holds, Outcomes
  <2>2. CASE x # e
    BY <2>2 DEF Futures, Finish, Holds
  <2>3. QED
    BY <2>1, <2>2
<1>3. QED
  BY <1>1, <1>2 DEF Futures

LEMMA KeepStep ==
    ASSUME Futures, NEW e \in End, NEW m \in Machines, m # NoMachine, Keep(e, m),
           UNCHANGED <<mid, started>>
    PROVE  Futures'
  BY DEF Futures, Keep, Holds

LEMMA InterruptedStep ==
    ASSUME Futures, NEW e \in End, running[e] # NoMachine, interrupted(e), UNCHANGED started
    PROVE  Futures'
  BY NoMachineType DEF Futures, interrupted, Holds, Awaited
-----------------------------------------------------------------------------
LEMMA PollSkippedStep ==
    ASSUME IInv, NEW e \in End, poll_skipped(e) PROVE IInv'
<1>1. started[e] /\ Futures
  BY DEF IInv, TypeOK, Futures, Holds, poll_skipped
<1>2. Finish(e, "ok") /\ UNCHANGED mid /\ started' = [started EXCEPT ![e] = FALSE]
  BY <1>1 DEF poll_skipped
<1>3. Futures'
  BY <1>1, <1>2, FinishStep DEF Outcomes
<1>4. tail' \in [End -> Seq(Kinds)]
  BY DEF IInv, TypeOK, poll_skipped, FirstInput
<1>5. QED
  BY <1>3, <1>4 DEF IInv, TypeOK, Futures, poll_skipped

LEMMA PollStartedStep ==
    ASSUME IInv, NEW e \in End, poll_started(e) PROVE IInv'
<1>1. started[e] /\ Futures
  BY DEF IInv, TypeOK, Futures, Holds, poll_started
<1>2. CASE Finish(e, "invalid")
  <2>1. Futures'
    BY <1>1, <1>2, FinishStep DEF poll_started, Outcomes
  <2>2. QED
    BY <2>1 DEF IInv, TypeOK, Futures, poll_started
<1>3. CASE ~Finish(e, "invalid")
  <2> DEFINE m == FirstMachine(e)
  <2>1. m \in Machines /\ m # NoMachine
    <3>1. Pieces("request", RequestLen) \in Seq(Kinds)
      BY PiecesType, LengthAssumption DEF Kinds
    <3>2. <<>> \in Seq(Kinds)
      OBVIOUS
    <3>3. m \in Machines
      BY <3>1, <3>2, MachineType DEF FirstMachine
    <3>4. m.stage # NoMachine.stage
      BY DEF FirstMachine, Machine, NoMachine
    <3>5. QED
      BY <3>3, <3>4
  <2>2. /\ running' = [running EXCEPT ![e] = m]
        /\ polling' = [polling EXCEPT ![e] = TRUE]
        /\ started' = [started EXCEPT ![e] = FALSE]
        /\ future[e] = "StartedHandshake"
        /\ UNCHANGED <<future, part, mid, pipe, tail, reply, early>>
    BY <1>1, <1>3 DEF poll_started
  <2>3. Futures'
    BY <1>1, <2>1, <2>2 DEF Futures, Holds
  <2>4. QED
    BY <2>2, <2>3 DEF IInv, TypeOK, Futures
<1>4. QED
  BY <1>2, <1>3

LEMMA PollMidStep ==
    ASSUME IInv, NEW e \in End, poll_mid(e) PROVE IInv'
<1>1. mid[e] # NoMachine /\ Futures
  BY DEF IInv, TypeOK, Futures, Holds, poll_mid
<1>2. /\ running' = [running EXCEPT ![e] = mid[e]]
      /\ mid' = [mid EXCEPT ![e] = NoMachine]
      /\ polling' = [polling EXCEPT ![e] = TRUE]
      /\ future[e] = "MidHandshake"
      /\ UNCHANGED <<future, started>>
  BY <1>1 DEF poll_mid
<1>3. {mid, running}' \subseteq [End -> Machines]
  BY <1>1, <1>2, NoMachineType DEF Futures
<1>4. Futures'
  BY <1>1, <1>2, <1>3 DEF Futures, Holds
<1>5. QED
  BY <1>4 DEF IInv, TypeOK, Futures, poll_mid

(* A machine a round works on was taken out of a future. *)
LEMMA WriteRoundStep ==
    ASSUME IInv, NEW e \in End, write_round(e) PROVE IInv'
<1> DEFINE m == running[e]
<1>1. Futures /\ m \in Machines /\ m # NoMachine
  BY DEF IInv, TypeOK, Futures, write_round, NoMachine
<1>2. Peer(e) \in End
  BY DEF Peer, End
<1>3. CASE Finish(e, "io") /\ UNCHANGED <<mid, pipe>>
  <2>1. Futures'
    BY <1>1, <1>3, FinishStep DEF write_round, Outcomes
  <2>2. QED
    BY <1>3, <2>1 DEF IInv, TypeOK, Futures, write_round
<1>4. CASE interrupted(e) /\ UNCHANGED pipe
  <2>1. Futures'
    BY <1>1, <1>4, InterruptedStep DEF write_round
  <2>2. QED
    BY <1>4, <2>1 DEF IInv, TypeOK, Futures, write_round
<1>5. ASSUME NEW n \in 1..(Cap - Len(pipe[Peer(e)])), n <= Len(m.out),
             pipe' = [pipe EXCEPT ![Peer(e)] = @ \o SubSeq(m.out, 1, n)],
             Keep(e, IF n = Len(m.out) THEN Machine("Flushing", <<>>)
                     ELSE [m EXCEPT !.out = SubSeq(@, n + 1, Len(@))]),
             UNCHANGED mid
      PROVE  IInv'
  <2>1. m.out \in Seq(Kinds) /\ n \in 0..Len(m.out)
    BY <1>1, <1>5 DEF Machines
  <2>2. SubSeq(m.out, 1, n) \in Seq(Kinds) /\ SubSeq(m.out, n + 1, Len(m.out)) \in Seq(Kinds)
    BY <2>1, Cut
  <2>3. pipe' \in [End -> Seq(Kinds)]
    BY <1>2, <1>5, <2>2, ConcatProperties DEF IInv, TypeOK
  <2> DEFINE next == IF n = Len(m.out) THEN Machine("Flushing", <<>>)
                     ELSE [m EXCEPT !.out = SubSeq(@, n + 1, Len(@))]
  <2>4. next \in Machines
    <3>1. Machine("Flushing", <<>>) \in Machines
      BY EmptyMachineType
    <3>2. [m EXCEPT !.out = SubSeq(@, n + 1, Len(@))] \in Machines
      BY <1>1, <2>2 DEF Machines
    <3>3. QED
      BY <3>1, <3>2
  <2>5. next.stage # NoMachine.stage
    BY <1>1 DEF Machine, NoMachine, Machines, write_round
  <2>6. Futures'
    BY <1>1, <1>5, <2>4, <2>5, KeepStep DEF write_round
  <2>7. QED
    BY <2>3, <2>6 DEF IInv, TypeOK, Futures, write_round
<1>6. QED
  BY <1>3, <1>4, <1>5 DEF write_round

LEMMA DoneWritingStep ==
    ASSUME Futures, NEW e \in End, DoneWriting(e), UNCHANGED <<mid, started>>
    PROVE  Futures'
<1>1. CASE Keep(e, Machine("Reading", <<>>))
  <2>1. Machine("Reading", <<>>) \in Machines
    BY EmptyMachineType
  <2>2. Machine("Reading", <<>>).stage # NoMachine.stage
    BY DEF Machine, NoMachine
  <2>3. QED
    BY <1>1, <2>1, <2>2, KeepStep
<1>2. CASE Finish(e, "ok") \/ Finish(e, "rejected")
  BY <1>2, FinishStep DEF Outcomes
<1>3. QED
  BY <1>1, <1>2 DEF DoneWriting

LEMMA FlushRoundStep ==
    ASSUME IInv, NEW e \in End, flush_round(e) PROVE IInv'
<1>1. Futures /\ running[e] # NoMachine
  BY DEF IInv, TypeOK, Futures, flush_round, NoMachine
<1>2. Futures'
  BY <1>1, InterruptedStep, DoneWritingStep DEF flush_round
<1>3. QED
  BY <1>2 DEF IInv, TypeOK, Futures, flush_round

LEMMA ReadRoundStep ==
    ASSUME IInv, NEW e \in End, read_round(e) PROVE IInv'
<1> DEFINE m == running[e]
           size == MessageLen(e)
<1>1. Futures /\ m \in Machines /\ m # NoMachine
  BY DEF IInv, TypeOK, Futures, read_round, NoMachine
<1>2. CASE interrupted(e) /\ UNCHANGED <<pipe, tail, reply>>
  <2>1. Futures'
    BY <1>1, <1>2, InterruptedStep DEF read_round
  <2>2. QED
    BY <1>2, <2>1 DEF IInv, TypeOK, Futures, read_round
<1>3. CASE Finish(e, "incomplete") /\ UNCHANGED <<mid, pipe, tail, reply>>
  <2>1. Futures'
    BY <1>1, <1>3, FinishStep DEF read_round, Outcomes
  <2>2. QED
    BY <1>3, <2>1 DEF IInv, TypeOK, Futures, read_round
<1>4. ASSUME NEW n \in 1..Len(pipe[e]),
             NEW in, in = m.in \o SubSeq(pipe[e], 1, n),
             NEW rest, rest = SubSeq(in, size + 1, Len(in)),
             pipe' = [pipe EXCEPT ![e] = SubSeq(@, n + 1, Len(@))],
             \/ Len(in) < size /\ Keep(e, [m EXCEPT !.in = in]) /\ UNCHANGED <<tail, reply>>
             \/ Len(in) >= size /\ e = "Server" /\ DoneRequest(e)
             \/ Len(in) >= size /\ e = "Client" /\ DoneResponse(e, in[1], rest),
             UNCHANGED <<mid, started, part, early>>
      PROVE  IInv'
  <2>1. /\ SubSeq(pipe[e], 1, n) \in Seq(Kinds)
        /\ SubSeq(pipe[e], n + 1, Len(pipe[e])) \in Seq(Kinds)
    <3>1. pipe[e] \in Seq(Kinds) /\ n \in 0..Len(pipe[e])
      BY DEF IInv, TypeOK
    <3>2. QED
      BY <3>1, Cut
  <2>2. in \in Seq(Kinds)
    BY <1>1, <1>4, <2>1, ConcatProperties DEF Machines
  <2>3. pipe' \in [End -> Seq(Kinds)]
    BY <1>4, <2>1 DEF IInv, TypeOK
  <2>4. size \in Nat
    BY LengthAssumption DEF MessageLen
  <2>5. CASE Keep(e, [m EXCEPT !.in = in]) /\ UNCHANGED <<tail, reply>>
    <3>1. [m EXCEPT !.in = in] \in Machines
      BY <1>1, <2>2 DEF Machines
    <3>2. [m EXCEPT !.in = in].stage # NoMachine.stage
      BY <1>1 DEF Machines, NoMachine, read_round
    <3>3. Futures'
      BY <1>1, <1>4, <2>5, <3>1, <3>2, KeepStep
    <3>4. QED
      BY <1>4, <2>3, <2>5, <3>3 DEF IInv, TypeOK, Futures
  <2>6. CASE DoneRequest(e)
    <3>1. PICK answer \in {"response", "rejection"} :
            reply' = answer /\ Keep(e, Machine("Writing", Pieces(answer, ResponseLen)))
      BY <2>6 DEF DoneRequest
    <3>2. Pieces(answer, ResponseLen) \in Seq(Kinds)
      BY PiecesType, LengthAssumption DEF Kinds
    <3>3. Machine("Writing", Pieces(answer, ResponseLen)) \in Machines
      BY <3>2, MachineType
    <3>4. Machine("Writing", Pieces(answer, ResponseLen)).stage # NoMachine.stage
      BY DEF Machine, NoMachine
    <3>5. Futures'
      BY <1>1, <1>4, <3>1, <3>3, <3>4, KeepStep
    <3>6. QED
      BY <1>4, <2>3, <2>6, <3>1, <3>5 DEF IInv, TypeOK, Futures, DoneRequest
  <2>7. CASE Len(in) >= size /\ DoneResponse(e, in[1], rest)
    <3>1. size \in 0..Len(in)
      BY <2>2, <2>4, <2>7
    <3>2. tail' \in [End -> Seq(Kinds)]
      BY <1>4, <2>2, <2>7, <3>1, Cut DEF DoneResponse, IInv, TypeOK
    <3>3. Futures'
      BY <1>1, <1>4, <2>7, FinishStep DEF DoneResponse, Outcomes
    <3>4. QED
      BY ZenonT(60), <1>4, <2>3, <2>7, <3>2, <3>3 DEF IInv, TypeOK, Futures, DoneResponse
  <2>8. QED
    BY <1>4, <2>5, <2>6, <2>7
<1>5. QED
  BY <1>2, <1>3, <1>4 DEF read_round

LEMMA SendEarlyStep == ASSUME IInv, send_early PROVE IInv'
<1>1. Append(pipe["Client"], "frame") \in Seq(Kinds)
  BY DEF IInv, TypeOK, End, Kinds
<1>2. pipe' \in [End -> Seq(Kinds)]
  BY <1>1 DEF IInv, TypeOK, send_early
<1>3. early' \in 0..Early
  BY LengthAssumption DEF IInv, TypeOK, send_early
<1>4. QED
  BY <1>2, <1>3 DEF IInv, TypeOK, send_early, Holds

LEMMA CancelStep == ASSUME IInv, NEW e \in End, cancel(e) PROVE IInv'
  BY NoMachineType DEF IInv, TypeOK, cancel, Holds, Outcomes
-----------------------------------------------------------------------------
(* IInv holds in every reachable state. *)
LEMMA Invariance == Spec => []IInv
<1>1. Init => IInv
  <2> SUFFICES ASSUME Init PROVE IInv
    OBVIOUS
  <2>1. <<>> \in Seq(Kinds)
    OBVIOUS
  <2>2. CASE DoneHere
    BY <2>1, <2>2, LengthAssumption, NoMachineType
    DEF Init, DoneHere, IInv, TypeOK, Holds, Awaited, Outcomes
  <2>3. CASE DoneElsewhere
    <3>1. PICK n \in 0..Early, k \in 0..Cap :
            /\ n + k <= Early
            /\ early = n + k
            /\ part = [e \in End |-> IF e = "Client" THEN Pieces("frame", n) ELSE <<>>]
            /\ pipe = [e \in End |-> IF e = "Client" THEN Pieces("frame", k) ELSE <<>>]
      BY <2>3 DEF DoneElsewhere
    <3>2. Pieces("frame", n) \in Seq(Kinds) /\ Pieces("frame", k) \in Seq(Kinds)
      BY PiecesType DEF Kinds
    <3>3. part \in [End -> Seq(Kinds)] /\ pipe \in [End -> Seq(Kinds)]
      BY <2>1, <3>1, <3>2
    <3>4. early \in 0..Early
      BY <3>1, LengthAssumption
    <3>5. QED
      BY <2>1, <2>3, <3>3, <3>4, NoMachineType
      DEF Init, DoneElsewhere, IInv, TypeOK, Holds, Awaited, Outcomes
  <2>4. QED
    BY <2>2, <2>3 DEF Init
<1>2. IInv /\ [Next]_vars => IInv'
  <2> SUFFICES ASSUME IInv, [Next]_vars PROVE IInv'
    OBVIOUS
  <2>1. CASE UNCHANGED vars
    BY <2>1 DEF vars, IInv, TypeOK, Holds
  <2>2. CASE settled
    BY <2>1, <2>2 DEF settled
  <2>3. QED
    BY <2>1, <2>2, PollSkippedStep, PollStartedStep, PollMidStep, WriteRoundStep, FlushRoundStep,
       ReadRoundStep, CancelStep, SendEarlyStep
    DEF Next, Round
<1>3. QED
  BY <1>1, <1>2, PTL DEF Spec

(* Every reachable state of the handshake is well typed. *)
THEOREM TypeCorrect == Spec => []TypeOK
<1>1. IInv => TypeOK
  BY DEF IInv
<1>2. QED
  BY <1>1, Invariance, PTL

(* No poll of a handshake future finds its Option empty, whatever the      *)
(* lengths of the messages, the capacity of the transport, and the points  *)
(* where it blocks: "future polled after completion" is unreachable.       *)
THEOREM NoPanic == Spec => []NeverPolledAfterCompletion
<1>1. IInv => NeverPolledAfterCompletion
  BY DEF IInv, Holds, NeverPolledAfterCompletion
<1>2. QED
  BY <1>1, Invariance, PTL
=============================================================================
