-------------------------- MODULE HandshakeAgreement --------------------------
(***************************************************************************)
(* The two ends of a handshake come to the same outcome and early messages *)
(* survive it, whatever the lengths of the messages and the capacity of    *)
(* the transport.                                                          *)
(*                                                                         *)
(* The argument does not care who holds a machine, the running poll or the *)
(* Option of MidHandshake: an interruption and the poll after it change    *)
(* nothing of what follows.                                                *)
(***************************************************************************)
EXTENDS HandshakeProofs

HasMachine(e) ==
    future[e] = "MidHandshake" \/ (future[e] = "StartedHandshake" /\ polling[e])

(* There is one machine at most, and who has it is known. *)
OneMachine(e) ==
    /\ mid[e] # NoMachine => mid[e].stage # "None"
    /\ running[e] # NoMachine => running[e].stage # "None"
    /\ mid[e] = NoMachine \/ running[e] = NoMachine
    /\ HasMachine(e) <=> mid[e] # NoMachine \/ running[e] # NoMachine
    /\ mid[e] # NoMachine => future[e] = "MidHandshake"
    /\ running[e] # NoMachine => polling[e]
    /\ polling[e] => HasMachine(e)

TheMachine(e) == IF running[e] # NoMachine THEN running[e] ELSE mid[e]

(* Where e is in the handshake: the stage of its machine, or the future    *)
(* that has none, or its outcome.                                          *)
Place(e) == IF HasMachine(e) THEN TheMachine(e).stage ELSE future[e]
In(e) == TheMachine(e).in
Out(e) == TheMachine(e).out

(* Where the other end takes the connection for alive. *)
LivePlaces ==
    {"StartedHandshake", "SkippedHandshake", "Writing", "Flushing", "Reading", "ok"}

(* The pieces of s are those of f from k on. *)
Follows(s, f, k) == \A i \in 1..Len(s) : s[i] = f[k + i]

(* What goes from the server to the client, piece by piece. *)
Items == [i \in Nat |-> IF i <= ResponseLen THEN reply ELSE "frame"]

Stages ==
    \A e \in End :
        /\ Out(e) # <<>> <=> Place(e) = "Writing"
        /\ In(e) # <<>> => Place(e) = "Reading"

(* A client goes on after its request only, a server after it has read it. *)
Requests ==
    /\ reply = "none" =>
          /\ Len(In("Server")) + Len(pipe["Server"]) + Len(Out("Client")) <= RequestLen
          /\ pipe["Client"] = <<>> /\ In("Client") = <<>>
          /\ early = 0
    /\ Place("Client") \in {"StartedHandshake", "invalid"} =>
          pipe["Server"] = <<>> /\ In("Server") = <<>>
    /\ reply # "none" =>
          Place("Client") \in {"Flushing", "Reading", "ok", "rejected", "incomplete",
                               "cancelled", "SkippedHandshake"}
    /\ Place("Server") \in {"StartedHandshake", "Reading"} => reply = "none"
    /\ Place("Server") \in {"Writing", "Flushing"} => reply # "none"
    /\ Place("Server") \in {"ok", "SkippedHandshake"} => reply = "response"
    /\ Place("Server") = "rejected" => reply = "rejection"

(* What is on its way to a client that has not read its response yet.      *)
Responses ==
    /\ Place("Client") = "Reading" => Len(In("Client")) < ResponseLen
    /\ Place("Server") \in {"StartedHandshake", "Reading", "Writing", "Flushing", "rejected"}
         => early = 0
    /\ reply # "none" /\ Place("Client") \in {"Flushing", "Reading"} =>
          LET sent == Len(In("Client")) + Len(pipe["Client"])
              all  == sent + Len(Out("Server"))
          IN  /\ early # 0 => Place("Server") = "ok"
              /\ all <= ResponseLen + early
              /\ Place("Server") \in {"Writing", "Flushing", "ok", "rejected"} =>
                    all = ResponseLen + early
              /\ Follows(In("Client"), Items, 0)
              /\ Follows(pipe["Client"], Items, Len(In("Client")))
              /\ Follows(Out("Server"), Items, sent)

(* What a client has got, or will get from a handshake it skips, and what  *)
(* is still on its way to it, are the early messages.                      *)
Frames(first) ==
    /\ Len(first) + Len(pipe["Client"]) = early
    /\ \A i \in 1..Len(first) : first[i] = "frame"
    /\ \A i \in 1..Len(pipe["Client"]) : pipe["Client"][i] = "frame"

Earlies ==
    /\ Place("Client") = "ok" => Frames(tail["Client"]) /\ Place("Server") # "Writing"
    /\ Place("Client") = "SkippedHandshake" => Frames(part["Client"])
    /\ Place("Client") = "SkippedHandshake" =>
          reply = "response" /\ Place("Server") \in {"SkippedHandshake", "ok", "cancelled"}
    /\ Place("Server") = "SkippedHandshake" =>
          Place("Client") \in {"SkippedHandshake", "ok", "cancelled"}

(* What an outcome of the client tells of the server. *)
Outcome ==
    /\ Place("Client") = "ok" => reply = "response"
    /\ Place("Client") = "rejected" => reply = "rejection"
    /\ Place("Client") \in {"io", "incomplete"} => Place("Server") \notin LivePlaces
    /\ Place("Client") = "incomplete" => Place("Server") # "rejected"

Machinery == TypeOK /\ (\A e \in End : OneMachine(e))
Course == Stages /\ Requests /\ Responses /\ Earlies /\ Outcome
Agreement == Machinery /\ Course
-----------------------------------------------------------------------------
SameView(e) == Place(e)' = Place(e) /\ In(e)' = In(e) /\ Out(e)' = Out(e)

LEMMA PlaceFacts ==
    ASSUME Machinery, NEW e \in End
    PROVE  /\ Place(e) \in {"StartedHandshake", "SkippedHandshake", "Writing", "Flushing",
                            "Reading"} \cup Outcomes
           /\ Live(e) <=> Place(e) \in LivePlaces
           /\ In(e) \in Seq(Kinds) /\ Out(e) \in Seq(Kinds)
           /\ running[e] # NoMachine => HasMachine(e) /\ TheMachine(e) = running[e]
<1>1. TheMachine(e) \in Machines
  BY DEF Machinery, TypeOK, TheMachine
<1>2. HasMachine(e) => TheMachine(e).stage \in {"Writing", "Flushing", "Reading"}
  BY <1>1 DEF Machinery, OneMachine, TheMachine, Machines
<1>3. In(e) \in Seq(Kinds) /\ Out(e) \in Seq(Kinds)
  BY <1>1 DEF In, Out, Machines
<1>4. future[e] \in Awaited \cup Outcomes /\ (future[e] = "MidHandshake" => HasMachine(e))
  BY DEF Machinery, TypeOK, HasMachine
<1>5. Live(e) <=> Place(e) \in LivePlaces
  BY <1>2, <1>4 DEF Live, Place, LivePlaces, HasMachine, Awaited, Outcomes
<1>6. running[e] # NoMachine => HasMachine(e)
  BY DEF Machinery, OneMachine
<1>7. QED
  BY <1>2, <1>3, <1>4, <1>5, <1>6 DEF Place, TheMachine, Awaited

(* An interruption and the poll after it move the machine, nothing else. *)
LEMMA InterruptedView ==
    ASSUME Machinery, NEW e \in End, running[e] # NoMachine, interrupted(e)
    PROVE  \A x \in End : OneMachine(x)' /\ SameView(x)
<1> SUFFICES ASSUME NEW x \in End PROVE OneMachine(x)' /\ SameView(x)
  OBVIOUS
<1>1. CASE x = e
  BY <1>1 DEF Machinery, TypeOK, interrupted, OneMachine, HasMachine, SameView, Place, In, Out, TheMachine
<1>2. CASE x # e
  BY <1>2 DEF Machinery, TypeOK, interrupted, OneMachine, HasMachine, SameView, Place, In, Out, TheMachine
<1>3. QED
  BY <1>1, <1>2

LEMMA PollMidView ==
    ASSUME Machinery, NEW e \in End, mid[e] # NoMachine, poll_mid(e)
    PROVE  \A x \in End : OneMachine(x)' /\ SameView(x)
<1> SUFFICES ASSUME NEW x \in End PROVE OneMachine(x)' /\ SameView(x)
  OBVIOUS
<1>1. CASE x = e
  BY <1>1 DEF Machinery, TypeOK, poll_mid, OneMachine, HasMachine, SameView, Place, In, Out, TheMachine
<1>2. CASE x # e
  BY <1>2 DEF Machinery, TypeOK, poll_mid, OneMachine, HasMachine, SameView, Place, In, Out, TheMachine
<1>3. QED
  BY <1>1, <1>2

(* A future that is done has no machine. *)
LEMMA FinishView ==
    ASSUME Machinery, NEW e \in End, NEW outcome \in Outcomes, mid[e] = NoMachine,
           Finish(e, outcome), UNCHANGED mid
    PROVE  /\ \A x \in End : OneMachine(x)'
           /\ Place(e)' = outcome /\ In(e)' = <<>> /\ Out(e)' = <<>>
           /\ \A x \in End \ {e} : SameView(x)
<1>1. /\ OneMachine(e)'
      /\ Place(e)' = outcome /\ In(e)' = <<>> /\ Out(e)' = <<>>
  BY DEF Machinery, TypeOK, Finish, OneMachine, HasMachine, Place, In, Out, TheMachine,
         NoMachine, Outcomes
<1>2. ASSUME NEW x \in End \ {e} PROVE OneMachine(x)' /\ SameView(x)
  BY DEF Machinery, TypeOK, Finish, OneMachine, HasMachine, SameView, Place, In, Out, TheMachine
<1>3. QED
  BY <1>1, <1>2

LEMMA KeepView ==
    ASSUME Machinery, NEW e \in End, running[e] # NoMachine, NEW m \in Machines,
           m.stage # "None", Keep(e, m), UNCHANGED mid
    PROVE  /\ \A x \in End : OneMachine(x)'
           /\ Place(e)' = m.stage /\ In(e)' = m.in /\ Out(e)' = m.out
           /\ \A x \in End \ {e} : SameView(x)
<1>1. m # NoMachine
  BY DEF NoMachine
<1>2. OneMachine(e)' /\ Place(e)' = m.stage /\ In(e)' = m.in /\ Out(e)' = m.out
  BY <1>1 DEF Machinery, TypeOK, Keep, OneMachine, HasMachine, Place, In, Out, TheMachine
<1>3. ASSUME NEW x \in End \ {e} PROVE OneMachine(x)' /\ SameView(x)
  BY DEF Machinery, TypeOK, Keep, OneMachine, HasMachine, SameView, Place, In, Out, TheMachine
<1>4. QED
  BY <1>1, <1>2, <1>3

(* Where nothing is seen to change, the course of the handshake is the same.*)
LEMMA SameCourse ==
    ASSUME Course, \A x \in End : SameView(x), UNCHANGED <<part, pipe, tail, reply, early>>
    PROVE  Course'
<1>1. SameView("Client") /\ SameView("Server")
  BY DEF End
<1>2. Stages'
  BY <1>1 DEF Course, Stages, SameView, End
<1>3. Requests' /\ Earlies' /\ Outcome'
  BY <1>1 DEF Course, Requests, Earlies, Outcome, SameView, Frames
<1>4. Responses'
  BY <1>1 DEF Course, Responses, SameView, Items, Follows
<1>5. QED
  BY <1>2, <1>3, <1>4 DEF Course
-----------------------------------------------------------------------------
(* Pieces that pass from the front of one sequence to the end of another   *)
(* keep their places in the whole.                                         *)
LEMMA Passed ==
    ASSUME NEW p \in Seq(Kinds), NEW o \in Seq(Kinds), NEW n \in 0..Len(o),
           NEW f, NEW k \in Nat,
           Follows(p, f, k), Follows(o, f, k + Len(p))
    PROVE  /\ Follows(p \o SubSeq(o, 1, n), f, k)
           /\ Follows(SubSeq(o, n + 1, Len(o)), f, k + Len(p \o SubSeq(o, 1, n)))
<1> DEFINE first == SubSeq(o, 1, n)
           p2 == p \o SubSeq(o, 1, n)
           o2 == SubSeq(o, n + 1, Len(o))
<1>1. /\ first \in Seq(Kinds) /\ Len(first) = n
      /\ \A i \in 1..n : first[i] = o[i]
  BY SubSeqProperties
<1>2. /\ o2 \in Seq(Kinds) /\ Len(o2) = Len(o) - n
      /\ \A i \in 1..(Len(o) - n) : o2[i] = o[n + i]
  BY SubSeqProperties
<1>3. /\ p2 \in Seq(Kinds) /\ Len(p2) = Len(p) + n
      /\ \A i \in 1..Len(p2) : p2[i] = IF i <= Len(p) THEN p[i] ELSE first[i - Len(p)]
  BY SMTT(60), <1>1, ConcatProperties
<1> HIDE DEF first, p2, o2
<1>4. ASSUME NEW i \in 1..Len(p2) PROVE p2[i] = f[k + i]
  <2>1. CASE i <= Len(p)
    BY <1>3, <2>1 DEF Follows
  <2>2. CASE i > Len(p)
    <3>1. i - Len(p) \in 1..n /\ k + Len(p) + (i - Len(p)) = k + i
      BY <1>3, <2>2
    <3>2. p2[i] = o[i - Len(p)]
      BY <1>1, <1>3, <2>2, <3>1
    <3>3. o[i - Len(p)] = f[k + Len(p) + (i - Len(p))]
      BY <3>1 DEF Follows
    <3>4. QED
      BY <3>1, <3>2, <3>3
  <2>3. QED
    BY <1>3, <2>1, <2>2
<1>5. ASSUME NEW i \in 1..Len(o2) PROVE o2[i] = f[k + Len(p2) + i]
  <2>1. n + i \in 1..Len(o) /\ k + Len(p) + (n + i) = k + Len(p2) + i
    <3>1. PICK a, b, c \in Nat : a = Len(p) /\ b = Len(p2) /\ c = Len(o)
      BY <1>3
    <3>2. b = a + n /\ i <= c - n /\ i \in Nat \ {0} /\ n \in Nat
      BY <1>2, <1>3, <3>1
    <3>3. n + i \in 1..c /\ k + a + (n + i) = k + b + i
      BY <3>2
    <3>4. QED
      BY <3>1, <3>3
  <2>2. o2[i] = o[n + i] /\ o[n + i] = f[k + Len(p) + (n + i)]
    BY <1>2, <2>1 DEF Follows
  <2>3. QED
    BY <2>1, <2>2
<1>6. QED
  BY <1>2, <1>3, <1>4, <1>5 DEF Follows, p2, o2
-----------------------------------------------------------------------------
(* Each step keeps the agreement.  Types are those of IInv, before and     *)
(* after the step.                                                         *)
LEMMA PollSkippedAgrees ==
    ASSUME IInv, IInv', Agreement, NEW e \in End, poll_skipped(e) PROVE Agreement'
<1>1. /\ mid[e] = NoMachine /\ running[e] = NoMachine
      /\ Place(e) = "SkippedHandshake" /\ In(e) = <<>> /\ Out(e) = <<>>
  BY DEF IInv, Agreement, Machinery, OneMachine, HasMachine, Place, In, Out, TheMachine,
         NoMachine, poll_skipped
<1>2. /\ Finish(e, "ok") /\ UNCHANGED <<mid, part, pipe, reply, early>>
      /\ tail' = [tail EXCEPT ![e] = part[e]]
  BY DEF IInv, Holds, poll_skipped, FirstInput
<1>3. /\ \A x \in End : OneMachine(x)'
      /\ Place(e)' = "ok" /\ In(e)' = <<>> /\ Out(e)' = <<>>
      /\ \A x \in End \ {e} : SameView(x)
  BY <1>1, <1>2, FinishView DEF Agreement, Outcomes
<1>4. Machinery'
  BY <1>3 DEF IInv, Machinery
<1>5. Stages'
  BY <1>1, <1>3 DEF Agreement, Course, Stages, SameView
<1>6. CASE e = "Client"
  <2>1. SameView("Server")
    BY <1>3, <1>6 DEF End
  <2>2. tail["Client"]' = part["Client"]
    BY <1>2, <1>6 DEF IInv, TypeOK
  <2>3. Requests' /\ Responses' /\ Outcome'
    BY <1>1, <1>2, <1>3, <1>6, <2>1 DEF Agreement, Course, Requests, Responses, Earlies, Outcome, SameView
  <2>4. Earlies'
    BY <1>1, <1>2, <1>3, <1>6, <2>1, <2>2 DEF Agreement, Course, Earlies, Frames, SameView
  <2>5. QED
    BY <1>4, <1>5, <2>3, <2>4 DEF Agreement, Course
<1>7. CASE e = "Server"
  <2>1. SameView("Client") /\ Place("Client") \in {"SkippedHandshake", "ok", "cancelled"}
    BY <1>1, <1>3, <1>7 DEF End, Agreement, Course, Earlies
  <2>2. tail["Client"]' = tail["Client"]
    BY <1>2, <1>7 DEF IInv, TypeOK, End
  <2>3. Requests' /\ Responses' /\ Outcome'
    BY <1>1, <1>2, <1>3, <1>7, <2>1 DEF Agreement, Course, Requests, Responses, Outcome, SameView
  <2>4. Earlies'
    BY <1>1, <1>2, <1>3, <1>7, <2>1, <2>2 DEF Agreement, Course, Earlies, Frames, SameView
  <2>5. QED
    BY <1>4, <1>5, <2>3, <2>4 DEF Agreement, Course
<1>8. QED
  BY <1>6, <1>7 DEF End

LEMMA PollStartedAgrees ==
    ASSUME IInv, IInv', Agreement, NEW e \in End, poll_started(e) PROVE Agreement'
<1>1. /\ mid[e] = NoMachine /\ running[e] = NoMachine /\ started[e]
      /\ Place(e) = "StartedHandshake" /\ In(e) = <<>> /\ Out(e) = <<>>
  BY DEF IInv, Holds, Agreement, Machinery, OneMachine, HasMachine, Place, In, Out, TheMachine,
         NoMachine, poll_started
<1>2. UNCHANGED <<part, mid, pipe, tail, reply, early>>
  BY DEF poll_started
<1>3. CASE e = "Client" /\ Finish(e, "invalid")
  <2>1. /\ \A x \in End : OneMachine(x)'
        /\ Place("Client")' = "invalid" /\ In("Client")' = <<>> /\ Out("Client")' = <<>>
        /\ SameView("Server")
    BY <1>1, <1>2, <1>3, FinishView DEF Agreement, Outcomes, End
  <2>2. Stages' /\ Requests' /\ Responses' /\ Earlies' /\ Outcome'
    BY <1>1, <1>2, <1>3, <2>1
    DEF Agreement, Course, Stages, Requests, Responses, Earlies, Outcome, SameView, End, LivePlaces
  <2>3. QED
    BY <2>1, <2>2 DEF Agreement, Course, Machinery, IInv
<1>4. CASE ~(e = "Client" /\ Finish(e, "invalid"))
  <2> DEFINE m == FirstMachine(e)
  <2>1. /\ running' = [running EXCEPT ![e] = m]
        /\ polling' = [polling EXCEPT ![e] = TRUE]
        /\ future[e] = "StartedHandshake" /\ UNCHANGED future
    BY <1>1, <1>4 DEF poll_started
  <2>2. m.stage = (IF e = "Client" THEN "Writing" ELSE "Reading") /\ m # NoMachine /\ m.in = <<>>
        /\ m.out = IF e = "Client" THEN Pieces("request", RequestLen) ELSE <<>>
    BY DEF FirstMachine, Machine, NoMachine
  <2> HIDE DEF m
  <2>3. /\ OneMachine(e)'
        /\ Place(e)' = m.stage /\ In(e)' = m.in /\ Out(e)' = m.out
    BY <1>1, <1>2, <2>1, <2>2 DEF IInv, TypeOK, OneMachine, HasMachine, Place, In, Out, TheMachine
  <2>4. ASSUME NEW x \in End \ {e} PROVE OneMachine(x)' /\ SameView(x)
    BY <1>2, <2>1 DEF IInv, TypeOK, Agreement, Machinery, OneMachine, HasMachine, SameView, Place, In, Out,
                     TheMachine
  <2>5. Pieces("request", RequestLen) # <<>> /\ Len(Pieces("request", RequestLen)) = RequestLen
    BY LengthAssumption DEF Pieces
  <2>6. Machinery'
    BY <2>3, <2>4 DEF IInv, Machinery
  <2>7. CASE e = "Client"
    <3>1. SameView("Server")
      BY <2>4, <2>7 DEF End
    <3>2. /\ Place("Client")' = "Writing" /\ In("Client")' = <<>>
          /\ Len(Out("Client")') = RequestLen /\ Out("Client")' # <<>>
      BY <2>2, <2>3, <2>5, <2>7
    <3>3. Stages'
      BY <3>1, <3>2 DEF Agreement, Course, Stages, SameView, End
    <3>4. Requests'
      BY <1>1, <1>2, <2>7, <3>1, <3>2, LengthAssumption DEF Agreement, Course, Requests, SameView
    <3>5. Responses' /\ Earlies' /\ Outcome'
      BY <1>1, <1>2, <2>7, <3>1, <3>2
      DEF Agreement, Course, Responses, Earlies, Outcome, SameView
    <3>6. QED
      BY <2>6, <3>3, <3>4, <3>5 DEF Agreement, Course
  <2>8. CASE e = "Server"
    <3>1. SameView("Client")
      BY <2>4, <2>8 DEF End
    <3>2. Place("Server")' = "Reading" /\ In("Server")' = <<>> /\ Out("Server")' = <<>>
      BY <2>2, <2>3, <2>8
    <3>3. Stages'
      BY <3>1, <3>2 DEF Agreement, Course, Stages, SameView, End
    <3>4. Requests'
      BY <1>1, <1>2, <2>8, <3>1, <3>2 DEF Agreement, Course, Requests, SameView
    <3>5. Responses' /\ Earlies' /\ Outcome'
      BY <1>1, <1>2, <2>8, <3>1, <3>2, <3>4
      DEF Agreement, Course, Requests, Responses, Earlies, Outcome, SameView, Frames, LivePlaces
    <3>6. QED
      BY <2>6, <3>3, <3>4, <3>5 DEF Agreement, Course
  <2>9. QED
    BY <2>7, <2>8 DEF End
<1>5. QED
  BY <1>3, <1>4

LEMMA PollMidAgrees ==
    ASSUME IInv, IInv', Agreement, NEW e \in End, poll_mid(e) PROVE Agreement'
<1>1. mid[e] # NoMachine
  BY DEF IInv, Holds, poll_mid
<1>2. /\ \A x \in End : OneMachine(x)' /\ SameView(x)
      /\ UNCHANGED <<part, pipe, tail, reply, early>>
  BY <1>1, PollMidView DEF Agreement, poll_mid
<1>3. QED
  BY <1>2, SameCourse DEF Agreement, Machinery, IInv

LEMMA InterruptedAgrees ==
    ASSUME IInv, IInv', Agreement, NEW e \in End, running[e] # NoMachine, interrupted(e),
           UNCHANGED <<part, pipe, tail, reply, early>>
    PROVE  Agreement'
<1>1. \A x \in End : OneMachine(x)' /\ SameView(x)
  BY InterruptedView DEF Agreement
<1>2. QED
  BY <1>1, SameCourse DEF Agreement, Machinery, IInv

LEMMA WriteRoundAgrees ==
    ASSUME IInv, IInv', Agreement, NEW e \in End, write_round(e) PROVE Agreement'
<1> DEFINE m == running[e]
           to == Peer(e)
<1>1. /\ m # NoMachine /\ m \in Machines /\ mid[e] = NoMachine
      /\ Place(e) = "Writing" /\ In(e) = m.in /\ Out(e) = m.out /\ m.in = <<>>
  <2>1. m # NoMachine /\ m.stage = "Writing" /\ m \in Machines
    BY DEF write_round, NoMachine, IInv, TypeOK
  <2>2. mid[e] = NoMachine /\ HasMachine(e)
    BY <2>1 DEF Agreement, Machinery, OneMachine
  <2>3. QED
    BY <2>1, <2>2 DEF Place, In, Out, TheMachine, Agreement, Course, Stages
<1>2. /\ UNCHANGED <<part, tail, reply, early>>
      /\ to \in End /\ to # e
      /\ Live(to) <=> Place(to) \in LivePlaces
      /\ Out(e) \in Seq(Kinds) /\ In("Client") \in Seq(Kinds)
      /\ pipe["Client"] \in Seq(Kinds) /\ pipe["Server"] \in Seq(Kinds)
      /\ In("Server") \in Seq(Kinds)
  BY PlaceFacts DEF write_round, Peer, End, Agreement, IInv, TypeOK
<1>3. CASE interrupted(e) /\ UNCHANGED pipe
  BY <1>1, <1>2, <1>3, InterruptedAgrees
<1>4. CASE ~Live(to) /\ Finish(e, "io") /\ UNCHANGED <<mid, pipe>>
  <2>1. /\ \A x \in End : OneMachine(x)'
        /\ Place(e)' = "io" /\ In(e)' = <<>> /\ Out(e)' = <<>>
        /\ SameView(to)
    BY <1>1, <1>2, <1>4, FinishView DEF Agreement, Outcomes
  <2>2. Stages'
    BY <1>2, <2>1 DEF Agreement, Course, Stages, SameView, End, Peer
  <2>3. CASE e = "Client"
    <3>1. /\ Place("Server")' = Place("Server") /\ In("Server")' = In("Server")
          /\ Out("Server")' = Out("Server") /\ Place("Server") \notin LivePlaces
          /\ Place("Client") = "Writing" /\ reply = "none"
      BY <1>1, <1>2, <1>4, <2>1, <2>3 DEF SameView, Peer, Agreement, Course, Requests
    <3>2. Requests'
      <4>1. /\ Len(In("Server")) + Len(pipe["Server"]) + Len(Out("Client")) <= RequestLen
            /\ pipe["Client"] = <<>> /\ early = 0
        BY <3>1 DEF Agreement, Course, Requests
      <4>2. Len(In("Server")) \in Nat /\ Len(pipe["Server"]) \in Nat /\ Len(Out("Client")) \in Nat
        BY <1>2, <2>3
      <4>3. Len(In("Server")) + Len(pipe["Server"]) + 0 <= RequestLen
        BY <4>1, <4>2, LengthAssumption
      <4>4. QED
        BY <1>2, <1>4, <2>1, <2>3, <3>1, <4>1, <4>3 DEF Agreement, Course, Requests
    <3>3. Responses' /\ Earlies'
      BY <1>2, <1>4, <2>1, <2>3, <3>1 DEF Agreement, Course, Responses, Earlies
    <3>4. Outcome'
      BY <2>1, <2>3, <3>1 DEF Agreement, Course, Outcome
    <3>5. QED
      BY <2>1, <2>2, <3>2, <3>3, <3>4 DEF Agreement, Course, Machinery, IInv
  <2>4. CASE e = "Server"
    <3>1. /\ Place("Client")' = Place("Client") /\ In("Client")' = In("Client")
          /\ Out("Client")' = Out("Client") /\ Place("Client") \notin LivePlaces
          /\ Place("Server") = "Writing"
      BY <1>1, <1>2, <1>4, <2>1, <2>4 DEF SameView, Peer
    <3>2. Requests'
      BY <1>2, <1>4, <2>1, <2>4, <3>1 DEF Agreement, Course, Requests, LivePlaces
    <3>3. Responses'
      BY <1>2, <1>4, <2>1, <2>4, <3>1 DEF Agreement, Course, Responses, LivePlaces
    <3>4. Earlies' /\ Outcome'
      BY <1>2, <1>4, <2>1, <2>4, <3>1 DEF Agreement, Course, Earlies, Outcome, LivePlaces
    <3>5. QED
      BY <2>1, <2>2, <3>2, <3>3, <3>4 DEF Agreement, Course, Machinery, IInv
  <2>5. QED
    BY <2>3, <2>4 DEF End
<1>5. ASSUME NEW n \in 1..(Cap - Len(pipe[to])), n <= Len(m.out), Live(to),
             pipe' = [pipe EXCEPT ![to] = @ \o SubSeq(m.out, 1, n)],
             Keep(e, IF n = Len(m.out) THEN Machine("Flushing", <<>>)
                     ELSE [m EXCEPT !.out = SubSeq(@, n + 1, Len(@))]),
             UNCHANGED mid
      PROVE  Agreement'
  <2> DEFINE next == IF n = Len(m.out) THEN Machine("Flushing", <<>>)
                     ELSE [m EXCEPT !.out = SubSeq(@, n + 1, Len(@))]
             out2 == SubSeq(m.out, n + 1, Len(m.out))
             pipe2 == pipe[to] \o SubSeq(m.out, 1, n)
  <2>1. n \in 0..Len(m.out) /\ n >= 1
    BY <1>1, <1>2, <1>5
  <2>2. /\ out2 \in Seq(Kinds) /\ Len(out2) = Len(m.out) - n
        /\ pipe2 \in Seq(Kinds) /\ Len(pipe2) = Len(pipe[to]) + n
    <3>1. SubSeq(m.out, 1, n) \in Seq(Kinds) /\ Len(SubSeq(m.out, 1, n)) = n
      BY <1>1, <1>2, <2>1, SubSeqProperties
    <3>2. out2 \in Seq(Kinds) /\ Len(out2) = Len(m.out) - n
      <4>1. m.out \in Seq(Kinds) /\ Len(m.out) \in Nat /\ n \in Nat /\ n <= Len(m.out)
        BY <1>1, <1>2, <2>1
      <4>2. \A i \in n + 1 .. Len(m.out) : m.out[i] \in Kinds
        BY <4>1
      <4>3. /\ out2 \in Seq(Kinds)
            /\ Len(out2) = IF n + 1 <= Len(m.out) THEN Len(m.out) - (n + 1) + 1 ELSE 0
        BY <4>1, <4>2, SubSeqProperties
      <4>4. QED
        BY <4>1, <4>3
    <3>3. QED
      BY <1>2, <3>1, <3>2, ConcatProperties DEF End
  <2> HIDE DEF out2, pipe2
  <2>3. out2 = <<>> <=> n = Len(m.out)
    <3>1. Len(m.out) \in Nat
      BY <1>1, <1>2
    <3>2. out2 = <<>> <=> Len(out2) = 0
      BY <2>2, EmptySeq
    <3>3. QED
      BY <2>1, <2>2, <3>1, <3>2
  <2>4. next \in Machines /\ next.stage # "None"
        /\ next.in = <<>> /\ next.out = out2
        /\ next.stage = IF out2 = <<>> THEN "Flushing" ELSE "Writing"
    <3>1. Machine("Flushing", <<>>) \in Machines
      BY EmptyMachineType
    <3>2. m.stage = "Writing"
      BY DEF write_round
    <3>3. QED
      BY <1>1, <2>2, <2>3, <3>1, <3>2 DEF Machine, Machines, out2
  <2> HIDE DEF next
  <2>5. /\ \A x \in End : OneMachine(x)'
        /\ Place(e)' = next.stage /\ In(e)' = next.in /\ Out(e)' = next.out
        /\ SameView(to)
    <3>1. Keep(e, next)
      BY <1>5 DEF next
    <3>2. QED
      BY <1>1, <1>2, <1>5, <2>4, <3>1, KeepView DEF Agreement
  <2>6. pipe'[to] = pipe2 /\ pipe'[e] = pipe[e]
    BY <1>2, <1>5 DEF IInv, TypeOK, pipe2
  <2>7. Stages'
    <3>1. (Out(e)' # <<>> <=> Place(e)' = "Writing") /\ (In(e)' # <<>> => Place(e)' = "Reading")
      BY <2>4, <2>5
    <3>2. /\ Out(to)' # <<>> <=> Place(to)' = "Writing"
          /\ In(to)' # <<>> => Place(to)' = "Reading"
      BY <1>2, <2>5 DEF Agreement, Course, Stages, SameView
    <3>3. QED
      BY <1>2, <3>1, <3>2 DEF Stages, End
  <2>8. Machinery'
    BY <2>5 DEF Machinery, IInv
  <2>9. CASE e = "Client"
    <3>1. to = "Server"
      BY <2>9 DEF Peer
    <3>2. Requests'
      <4>1. /\ reply = "none" /\ pipe["Client"] = <<>> /\ early = 0
            /\ Len(In("Server")) + Len(pipe["Server"]) + Len(m.out) <= RequestLen
        BY <1>1, <2>9 DEF Agreement, Course, Requests
      <4>2. /\ Len(In("Server")) \in Nat /\ Len(pipe["Server"]) \in Nat /\ Len(m.out) \in Nat
            /\ Len(pipe2) \in Nat /\ Len(out2) \in Nat
        BY SMTT(60), <1>1, <1>2, <2>2
      <4>3. Len(In("Server")) + Len(pipe2) + Len(out2) <= RequestLen
        <5>1. PICK a, b, c, b2, c2 \in Nat :
                /\ a = Len(In("Server")) /\ b = Len(pipe["Server"]) /\ c = Len(m.out)
                /\ b2 = Len(pipe2) /\ c2 = Len(out2)
          BY <4>2
        <5>2. b2 = b + n /\ c2 = c - n /\ a + b + c <= RequestLen
          BY <2>2, <3>1, <4>1, <5>1
        <5>3. a + b2 + c2 <= RequestLen
          BY <2>1, <5>2, LengthAssumption
        <5>4. QED
          BY <5>1, <5>3
      <4>4. /\ Place("Server")' = Place("Server") /\ In("Server")' = In("Server")
            /\ Place("Client")' \in {"Writing", "Flushing"} /\ In("Client")' = <<>>
            /\ Out("Client")' = out2 /\ pipe'["Server"] = pipe2
            /\ pipe'["Client"] = <<>>
        BY <2>4, <2>5, <2>6, <2>9, <3>1, <4>1 DEF SameView
      <4>5. QED
        BY <1>2, <4>1, <4>3, <4>4 DEF Agreement, Course, Requests
    <3>3. Responses' /\ Earlies' /\ Outcome'
      BY <1>1, <1>2, <2>4, <2>5, <2>6, <2>9, <3>1, <3>2
      DEF Agreement, Course, Requests, Responses, Earlies, Outcome, SameView
    <3>4. QED
      BY <2>7, <2>8, <3>2, <3>3 DEF Agreement, Course
  <2>10. CASE e = "Server"
    <3>1. to = "Client"
      BY <2>10 DEF Peer
    <3>2. /\ Place("Client") \in {"Flushing", "Reading"} /\ reply # "none"
          /\ Place("Client")' = Place("Client") /\ In("Client")' = In("Client")
          /\ Out("Client")' = Out("Client") /\ pipe'["Client"] = pipe2
          /\ Place("Server")' \in {"Writing", "Flushing"} /\ In("Server")' = <<>>
          /\ Out("Server")' = out2 /\ early = 0
      BY <1>1, <1>2, <1>5, <2>4, <2>5, <2>6, <2>10, <3>1
      DEF Agreement, Course, Requests, Responses, Earlies, SameView, LivePlaces
    <3>3. /\ Follows(pipe2, Items, Len(In("Client")))
          /\ Follows(out2, Items, Len(In("Client")) + Len(pipe2))
      <4>1. /\ Follows(pipe["Client"], Items, Len(In("Client")))
            /\ Follows(m.out, Items, Len(In("Client")) + Len(pipe["Client"]))
        BY <1>1, <2>10, <3>2 DEF Agreement, Course, Responses
      <4>2. Len(In("Client")) \in Nat /\ m.out \in Seq(Kinds)
        BY <1>1, <1>2
      <4>3. pipe["Client"] \in Seq(Kinds) /\ n \in 0..Len(m.out)
        BY <1>2, <2>1
      <4>4. /\ Follows(pipe["Client"] \o SubSeq(m.out, 1, n), Items, Len(In("Client")))
            /\ Follows(SubSeq(m.out, n + 1, Len(m.out)), Items,
                       Len(In("Client")) + Len(pipe["Client"] \o SubSeq(m.out, 1, n)))
        BY <4>1, <4>2, <4>3, Passed
      <4>5. QED
        BY <3>1, <4>4 DEF pipe2, out2
    <3>4. Requests'
      BY <1>1, <1>2, <2>10, <3>2 DEF Agreement, Course, Requests
    <3>5. Responses'
      <4>1. /\ Len(In("Client")) \in Nat /\ Len(pipe["Client"]) \in Nat /\ Len(m.out) \in Nat
            /\ Len(pipe2) \in Nat /\ Len(out2) \in Nat /\ ResponseLen + early \in Nat
        <5>1. early \in Nat /\ ResponseLen \in Nat
          BY LengthAssumption DEF IInv, TypeOK
        <5>2. Len(pipe2) \in Nat /\ Len(out2) \in Nat
          BY <2>2
        <5>3. QED
          BY <1>1, <1>2, <5>1, <5>2
      <4>2. LET all == Len(In("Client")) + Len(pipe["Client"]) + Len(m.out)
            IN  all <= ResponseLen + early /\ all = ResponseLen + early
        BY <1>1, <2>10, <3>2 DEF Agreement, Course, Responses
      <4>3. Len(In("Client")) + Len(pipe2) + Len(out2) = ResponseLen + early
        <5>1. PICK a, b, c, b2, c2, r \in Nat :
                /\ a = Len(In("Client")) /\ b = Len(pipe["Client"]) /\ c = Len(m.out)
                /\ b2 = Len(pipe2) /\ c2 = Len(out2) /\ r = ResponseLen + early
          BY <4>1
        <5>2. b2 = b + n /\ c2 = c - n /\ a + b + c = r
          BY <2>2, <3>1, <4>2, <5>1
        <5>3. a + b2 + c2 = r
          BY <2>1, <5>2
        <5>4. QED
          BY <5>1, <5>3
      <4>4. Place("Client") = "Reading" => Len(In("Client")) < ResponseLen
        BY DEF Agreement, Course, Responses
      <4>5. Items' = Items
        BY <1>2 DEF Items
      <4>6. Len(In("Client")) + Len(pipe2) + Len(out2) <= ResponseLen + early
        BY <4>1, <4>3, LengthAssumption
      <4>7. Follows(In("Client"), Items, 0)
        BY <3>2 DEF Agreement, Course, Responses
      <4>8. QED
        BY <1>2, <3>2, <3>3, <4>3, <4>4, <4>5, <4>6, <4>7 DEF Responses
    <3>6. Earlies' /\ Outcome'
      BY <1>2, <3>2 DEF Earlies, Outcome
    <3>7. QED
      BY <2>7, <2>8, <3>4, <3>5, <3>6 DEF Agreement, Course
  <2>11. QED
    BY <2>9, <2>10 DEF End
<1>6. QED
  BY <1>3, <1>4, <1>5 DEF write_round

LEMMA FlushRoundAgrees ==
    ASSUME IInv, IInv', Agreement, NEW e \in End, flush_round(e) PROVE Agreement'
<1>1. /\ running[e] # NoMachine /\ mid[e] = NoMachine
      /\ Place(e) = "Flushing" /\ In(e) = <<>> /\ Out(e) = <<>>
  <2>1. running[e] # NoMachine
    BY DEF flush_round, NoMachine
  <2>2. mid[e] = NoMachine /\ HasMachine(e)
    BY <2>1 DEF Agreement, Machinery, OneMachine
  <2>3. QED
    BY <2>1, <2>2 DEF flush_round, Place, In, Out, TheMachine, Agreement, Course, Stages
<1>2. UNCHANGED <<part, pipe, tail, reply, early>> /\ reply \in {"none", "response", "rejection"}
  BY DEF flush_round, IInv, TypeOK
<1>3. CASE interrupted(e)
  BY <1>1, <1>2, <1>3, InterruptedAgrees
<1>4. CASE DoneWriting(e) /\ UNCHANGED mid /\ e = "Client"
  <2>1. Keep("Client", Machine("Reading", <<>>))
    BY <1>4 DEF DoneWriting
  <2>2. /\ Machine("Reading", <<>>) \in Machines
        /\ Machine("Reading", <<>>) = [stage |-> "Reading", out |-> <<>>, in |-> <<>>]
    BY EmptyMachineType DEF Machine
  <2>3. /\ \A x \in End : OneMachine(x)'
        /\ Place("Client")' = "Reading" /\ In("Client")' = <<>> /\ Out("Client")' = <<>>
        /\ SameView("Server")
    BY <1>1, <1>4, <2>1, <2>2, KeepView DEF Agreement, End
  <2>4. Stages'
    BY <2>3 DEF Agreement, Course, Stages, SameView, End
  <2>5. Requests' /\ Earlies' /\ Outcome'
    BY <1>1, <1>2, <1>4, <2>3 DEF Agreement, Course, Requests, Earlies, Outcome, SameView
  <2>6. Items' = Items
    BY <1>2 DEF Items
  <2>7. Responses'
    BY <1>1, <1>2, <1>4, <2>3, <2>6, LengthAssumption DEF Agreement, Course, Responses, SameView
  <2>8. QED
    BY <2>3, <2>4, <2>5, <2>7 DEF Agreement, Course, Machinery, IInv
<1>5. CASE DoneWriting(e) /\ UNCHANGED mid /\ e = "Server"
  <2> DEFINE outcome == IF reply = "response" THEN "ok" ELSE "rejected"
  <2>1. Finish("Server", outcome) /\ outcome \in Outcomes
    BY <1>5 DEF DoneWriting, Outcomes
  <2>2. /\ \A x \in End : OneMachine(x)'
        /\ Place("Server")' = outcome /\ In("Server")' = <<>> /\ Out("Server")' = <<>>
        /\ SameView("Client")
    BY <1>1, <1>5, <2>1, FinishView DEF Agreement, End
  <2>3. /\ reply = IF outcome = "ok" THEN "response" ELSE "rejection"
        /\ Place("Server") = "Flushing" /\ In("Server") = <<>> /\ Out("Server") = <<>>
        /\ outcome \in {"ok", "rejected"}
    BY <1>1, <1>2, <1>5 DEF Agreement, Course, Requests
  <2> HIDE DEF outcome
  <2>4. Stages'
    BY <2>2, <2>3 DEF Agreement, Course, Stages, SameView, End
  <2>5. Requests' /\ Earlies' /\ Outcome'
    BY <1>2, <2>2, <2>3
    DEF Agreement, Course, Requests, Earlies, Outcome, SameView, LivePlaces, Frames
  <2>6. Items' = Items
    BY <1>2 DEF Items
  <2>7. Responses'
    BY <1>2, <2>2, <2>3, <2>6 DEF Agreement, Course, Responses, SameView
  <2>8. QED
    BY <2>2, <2>4, <2>5, <2>7 DEF Agreement, Course, Machinery, IInv
<1>6. QED
  BY <1>3, <1>4, <1>5 DEF flush_round, End

LEMMA SendEarlyAgrees ==
    ASSUME IInv, IInv', Agreement, send_early PROVE Agreement'
<1> DEFINE old == pipe["Client"]
           new == Append(pipe["Client"], "frame")
<1>1. /\ Place("Server") = "ok" /\ reply = "response" /\ Out("Server") = <<>>
      /\ early' = early + 1 /\ UNCHANGED <<future, mid, running, polling, part, tail, reply>>
      /\ pipe'["Client"] = new /\ pipe'["Server"] = pipe["Server"]
  BY DEF send_early, Place, HasMachine, Agreement, Course, Requests, Stages, IInv, TypeOK, End
<1>2. \A x \in End : OneMachine(x)' /\ SameView(x)
  BY <1>1 DEF Agreement, Machinery, OneMachine, HasMachine, SameView, Place, In, Out, TheMachine
<1>3. /\ SameView("Client") /\ SameView("Server")
      /\ In("Client") \in Seq(Kinds) /\ old \in Seq(Kinds)
      /\ early \in Nat /\ ResponseLen \in Nat
  BY <1>2, PlaceFacts, LengthAssumption DEF End, Agreement, IInv, TypeOK
<1>4. /\ Len(new) = Len(old) + 1
      /\ \A i \in 1..Len(new) : new[i] = IF i <= Len(old) THEN old[i] ELSE "frame"
  BY <1>3, AppendProperties DEF Kinds
<1> HIDE DEF old, new
<1>5. Stages'
  BY <1>2 DEF Agreement, Course, Stages, SameView
<1>6. Requests' /\ Outcome'
  BY <1>1, <1>3 DEF Agreement, Course, Requests, Outcome, SameView
<1>7. Responses'
  <2>1. CASE Place("Client") \notin {"Flushing", "Reading"}
    BY <1>1, <1>3, <2>1 DEF Responses, SameView
  <2>2. CASE Place("Client") \in {"Flushing", "Reading"}
    <3>1. /\ Len(In("Client")) + Len(old) + Len(<<>>) = ResponseLen + early
          /\ Follows(In("Client"), Items, 0) /\ Follows(old, Items, Len(In("Client")))
          /\ Place("Client") = "Reading" => Len(In("Client")) < ResponseLen
      BY <1>1, <2>2 DEF Agreement, Course, Responses, old
    <3>2. PICK a, b \in Nat : a = Len(In("Client")) /\ b = Len(old)
      BY <1>3
    <3>3. /\ a + b = ResponseLen + early
          /\ a + (b + 1) + Len(<<>>) = ResponseLen + (early + 1)
          /\ a + (b + 1) + Len(<<>>) <= ResponseLen + (early + 1)
      BY <1>3, <3>1, <3>2
    <3>4. Follows(new, Items, Len(In("Client")))
      <4>1. ASSUME NEW i \in 1..Len(new) PROVE new[i] = Items[a + i]
        <5>1. CASE i <= b
          BY <1>4, <3>1, <3>2, <5>1 DEF Follows
        <5>2. CASE i > b
          <6>1. a + i > ResponseLen /\ a + i \in Nat
            BY <1>3, <3>2, <3>3, <5>2
          <6>2. Items[a + i] = "frame"
            BY <1>3, <6>1 DEF Items
          <6>3. new[i] = "frame"
            BY <1>4, <3>2, <5>2
          <6>4. QED
            BY <6>2, <6>3
        <5>3. QED
          BY <1>4, <3>2, <5>1, <5>2
      <4>2. QED
        BY <3>2, <4>1 DEF Follows
    <3>5. Items' = Items
      BY <1>1 DEF Items
    <3>6. \A k : Follows(<<>>, Items, k)
      BY DEF Follows
    <3>7. Len(new) = b + 1
      BY <1>4, <3>2
    <3>8. QED
      BY <1>1, <1>3, <2>2, <3>1, <3>2, <3>3, <3>4, <3>5, <3>6, <3>7 DEF Responses, SameView
  <2>3. QED
    BY <2>1, <2>2
<1>8. Earlies'
  <2>1. ASSUME NEW first \in Seq(Kinds), Frames(first), first' = first
        PROVE  Frames(first)'
    <3>1. PICK a, b \in Nat : a = Len(first) /\ b = Len(old)
      BY <1>3
    <3>2. a + b = early /\ Len(new) = b + 1 /\ a + (b + 1) = early + 1
      BY <1>3, <1>4, <2>1, <3>1 DEF Frames, old
    <3>3. \A i \in 1..Len(new) : new[i] = "frame"
      BY <1>4, <2>1, <3>1 DEF Frames, old
    <3>4. QED
      BY <1>1, <2>1, <3>1, <3>2, <3>3 DEF Frames
  <2>2. tail["Client"] \in Seq(Kinds) /\ part["Client"] \in Seq(Kinds)
    BY DEF IInv, TypeOK, End
  <2>3. QED
    BY <1>1, <1>3, <2>1, <2>2 DEF Agreement, Course, Earlies, SameView
<1>9. QED
  BY <1>2, <1>5, <1>6, <1>7, <1>8 DEF Agreement, Course, Machinery, IInv

LEMMA CancelAgrees ==
    ASSUME IInv, IInv', Agreement, NEW e \in End, cancel(e) PROVE Agreement'
<1>1. /\ UNCHANGED <<part, running, polling, pipe, tail, reply, early>>
      /\ Place(e) \in LivePlaces \ {"ok"}
      /\ running[e] = NoMachine /\ ~polling[e]
      /\ future' = [future EXCEPT ![e] = "cancelled"]
      /\ mid' = [mid EXCEPT ![e] = NoMachine]
  <2>1. future[e] \in Awaited /\ running[e] = NoMachine /\ ~polling[e]
    BY DEF cancel, Agreement, Machinery, OneMachine
  <2>2. Place(e) \in LivePlaces
    BY <2>1, PlaceFacts DEF Agreement, Live
  <2>3. TheMachine(e).stage # "ok"
    BY DEF IInv, TypeOK, TheMachine, Machines
  <2>4. Place(e) # "ok"
    BY <2>1, <2>3 DEF Place, Awaited
  <2>5. QED
    BY <2>1, <2>2, <2>4 DEF cancel
<1>2. OneMachine(e)' /\ Place(e)' = "cancelled" /\ In(e)' = <<>> /\ Out(e)' = <<>>
  BY <1>1 DEF IInv, TypeOK, OneMachine, HasMachine, Place, In, Out, TheMachine, NoMachine
<1>3. ASSUME NEW x \in End \ {e} PROVE OneMachine(x)' /\ SameView(x)
  BY <1>1 DEF IInv, TypeOK, Agreement, Machinery, OneMachine, HasMachine, SameView, Place, In, Out,
             TheMachine
<1>4. Machinery'
  BY <1>2, <1>3 DEF Machinery, IInv
<1>5. Stages'
  BY <1>2, <1>3 DEF Agreement, Course, Stages, SameView
<1>6. /\ In("Client") \in Seq(Kinds) /\ Out("Client") \in Seq(Kinds)
      /\ In("Server") \in Seq(Kinds) /\ Out("Server") \in Seq(Kinds)
      /\ pipe["Client"] \in Seq(Kinds) /\ pipe["Server"] \in Seq(Kinds)
      /\ early \in Nat
  BY PlaceFacts, LengthAssumption DEF Agreement, End, IInv, TypeOK
<1>7. CASE e = "Client"
  <2>1. SameView("Server")
    BY <1>3, <1>7 DEF End
  <2>2. Requests'
    <3>1. reply = "none" => Len(In("Server")) + Len(pipe["Server"]) + Len(<<>>) <= RequestLen
      <4>1. PICK a, b, c \in Nat :
              a = Len(In("Server")) /\ b = Len(pipe["Server"]) /\ c = Len(Out("Client"))
        BY <1>6
      <4>2. reply = "none" => a + b + c <= RequestLen
        BY <4>1 DEF Agreement, Course, Requests
      <4>3. QED
        BY <4>1, <4>2, LengthAssumption
    <3>2. QED
      BY <1>1, <1>2, <1>7, <2>1, <3>1 DEF Agreement, Course, Requests, SameView
  <2>3. Responses' /\ Earlies' /\ Outcome'
    BY <1>1, <1>2, <1>7, <2>1 DEF Agreement, Course, Responses, Earlies, Outcome, SameView
  <2>4. QED
    BY <1>4, <1>5, <2>2, <2>3 DEF Agreement, Course
<1>8. CASE e = "Server"
  <2>1. SameView("Client")
    BY <1>3, <1>8 DEF End
  <2>2. Requests'
    <3>1. reply = "none" => Len(<<>>) + Len(pipe["Server"]) + Len(Out("Client")) <= RequestLen
      <4>1. PICK a, b, c \in Nat :
              a = Len(In("Server")) /\ b = Len(pipe["Server"]) /\ c = Len(Out("Client"))
        BY <1>6
      <4>2. reply = "none" => a + b + c <= RequestLen
        BY <4>1 DEF Agreement, Course, Requests
      <4>3. QED
        BY <4>1, <4>2, LengthAssumption
    <3>2. QED
      BY <1>1, <1>2, <1>8, <2>1, <3>1 DEF Agreement, Course, Requests, SameView
  <2>3. Responses'
    <3>1. CASE reply # "none" /\ Place("Client") \in {"Flushing", "Reading"}
      <4>1. /\ early = 0
            /\ Len(In("Client")) + Len(pipe["Client"]) + Len(Out("Server")) <= ResponseLen + early
            /\ Follows(In("Client"), Items, 0)
            /\ Follows(pipe["Client"], Items, Len(In("Client")))
            /\ Place("Client") = "Reading" => Len(In("Client")) < ResponseLen
        BY <1>1, <1>8, <3>1 DEF Agreement, Course, Responses
      <4>2. Len(In("Client")) + Len(pipe["Client"]) + Len(<<>>) <= ResponseLen + early
        <5>1. PICK a, b, c \in Nat :
                a = Len(In("Client")) /\ b = Len(pipe["Client"]) /\ c = Len(Out("Server"))
          BY <1>6
        <5>2. a + b + c <= ResponseLen + early
          BY <4>1, <5>1
        <5>3. QED
          BY <1>6, <5>1, <5>2, LengthAssumption
      <4>3. Items' = Items
        BY <1>1 DEF Items
      <4>4. \A k : Follows(<<>>, Items, k)
        BY DEF Follows
      <4>5. QED
        BY <1>1, <1>2, <1>8, <2>1, <3>1, <4>1, <4>2, <4>3, <4>4 DEF Responses, SameView
    <3>2. CASE ~(reply # "none" /\ Place("Client") \in {"Flushing", "Reading"})
      BY <1>1, <1>2, <1>8, <2>1, <3>2 DEF Agreement, Course, Responses, SameView
    <3>3. QED
      BY <3>1, <3>2
  <2>4. Earlies' /\ Outcome'
    BY <1>1, <1>2, <1>8, <2>1
    DEF Agreement, Course, Earlies, Outcome, SameView, LivePlaces, Frames
  <2>5. QED
    BY <1>4, <1>5, <2>2, <2>3, <2>4 DEF Agreement, Course
<1>9. QED
  BY <1>7, <1>8 DEF End

(* What a running machine in its stage Reading is. *)
LEMMA ReadingFacts ==
    ASSUME IInv, Agreement, NEW e \in End, read_round(e)
    PROVE  /\ running[e] # NoMachine /\ mid[e] = NoMachine /\ running[e] \in Machines
           /\ Place(e) = "Reading" /\ Out(e) = <<>>
           /\ In(e) = running[e].in /\ running[e].out = <<>> /\ running[e].stage = "Reading"
           /\ UNCHANGED <<started, part, early>>
           /\ In("Client") \in Seq(Kinds) /\ Out("Client") \in Seq(Kinds)
           /\ In("Server") \in Seq(Kinds) /\ Out("Server") \in Seq(Kinds)
           /\ pipe["Client"] \in Seq(Kinds) /\ pipe["Server"] \in Seq(Kinds)
           /\ early \in Nat /\ reply \in {"none", "response", "rejection"}
<1>1. running[e] # NoMachine /\ running[e] \in Machines /\ running[e].stage = "Reading"
  BY DEF read_round, NoMachine, IInv, TypeOK
<1>2. mid[e] = NoMachine /\ HasMachine(e)
  BY <1>1 DEF Agreement, Machinery, OneMachine
<1>3. /\ Place(e) = "Reading" /\ Out(e) = <<>>
      /\ In(e) = running[e].in /\ running[e].out = <<>>
  BY <1>1, <1>2 DEF Place, In, Out, TheMachine, Agreement, Course, Stages
<1>4. UNCHANGED <<started, part, early>>
  BY DEF read_round
<1>5. /\ In("Client") \in Seq(Kinds) /\ Out("Client") \in Seq(Kinds)
      /\ In("Server") \in Seq(Kinds) /\ Out("Server") \in Seq(Kinds)
      /\ pipe["Client"] \in Seq(Kinds) /\ pipe["Server"] \in Seq(Kinds)
      /\ early \in Nat /\ reply \in {"none", "response", "rejection"}
  BY PlaceFacts, LengthAssumption DEF Agreement, End, IInv, TypeOK
<1>6. QED
  BY <1>1, <1>2, <1>3, <1>4, <1>5

(* The transport is empty and the other end is gone. *)
LEMMA IncompleteAgrees ==
    ASSUME IInv, IInv', Agreement, NEW e \in End, read_round(e),
           pipe[e] = <<>>, ~Live(Peer(e)), Finish(e, "incomplete"),
           UNCHANGED <<mid, pipe, tail, reply>>
    PROVE  Agreement'
<1>1. /\ running[e] # NoMachine /\ mid[e] = NoMachine
      /\ Place(e) = "Reading" /\ Out(e) = <<>> /\ UNCHANGED <<part, early>>
      /\ In("Client") \in Seq(Kinds) /\ Out("Client") \in Seq(Kinds)
      /\ In("Server") \in Seq(Kinds) /\ Out("Server") \in Seq(Kinds)
      /\ pipe["Client"] \in Seq(Kinds) /\ pipe["Server"] \in Seq(Kinds)
  BY ReadingFacts
<1>2. /\ \A x \in End : OneMachine(x)'
      /\ Place(e)' = "incomplete" /\ In(e)' = <<>> /\ Out(e)' = <<>>
      /\ \A x \in End \ {e} : SameView(x)
  BY <1>1, FinishView DEF Agreement, Outcomes
<1>3. Machinery'
  BY <1>2 DEF Machinery, IInv
<1>4. Stages'
  BY <1>2 DEF Agreement, Course, Stages, SameView
<1>5. CASE e = "Client"
  <2>1. SameView("Server") /\ Place("Server") \notin LivePlaces
    BY <1>2, <1>5, PlaceFacts DEF End, Peer, Agreement
  <2>2. Place("Server") # "rejected"
    <3>1. SUFFICES ASSUME Place("Server") = "rejected" PROVE FALSE
      OBVIOUS
    <3>2. reply # "none" /\ early = 0 /\ Out("Server") = <<>>
      BY <3>1 DEF Agreement, Course, Requests, Responses, Stages, End
    <3>3. /\ Len(In("Client")) + Len(<<>>) + Len(<<>>) = ResponseLen + 0
          /\ Len(In("Client")) < ResponseLen
      BY <1>1, <1>5, <3>1, <3>2 DEF Agreement, Course, Responses
    <3>4. Len(In("Client")) \in Nat
      BY <1>1
    <3>5. QED
      BY <3>3, <3>4, LengthAssumption
  <2>3. Requests' /\ Earlies' /\ Outcome'
    BY <1>1, <1>2, <1>5, <2>1, <2>2
    DEF Agreement, Course, Requests, Earlies, Outcome, SameView
  <2>4. Responses'
    BY <1>1, <1>2, <1>5, <2>1 DEF Agreement, Course, Responses, SameView
  <2>5. QED
    BY <1>3, <1>4, <2>3, <2>4 DEF Agreement, Course
<1>6. CASE e = "Server"
  <2>1. SameView("Client") /\ Place("Client") \notin LivePlaces
    BY <1>2, <1>6, PlaceFacts DEF End, Peer, Agreement
  <2>2. Requests'
    <3>1. reply = "none" => Len(<<>>) + Len(pipe["Server"]) + Len(Out("Client")) <= RequestLen
      <4>1. PICK a, b, c \in Nat :
              a = Len(In("Server")) /\ b = Len(pipe["Server"]) /\ c = Len(Out("Client"))
        <5>1. Len(In("Server")) \in Nat /\ Len(pipe["Server"]) \in Nat /\ Len(Out("Client")) \in Nat
          BY <1>1
        <5>2. QED
          BY <5>1
      <4>2. reply = "none" => a + b + c <= RequestLen
        BY <4>1 DEF Agreement, Course, Requests
      <4>3. QED
        BY <4>1, <4>2, LengthAssumption
    <3>2. QED
      BY <1>1, <1>2, <1>6, <2>1, <3>1 DEF Agreement, Course, Requests, SameView, LivePlaces
  <2>3. Responses'
    BY <1>1, <1>2, <1>6, <2>1 DEF Agreement, Course, Responses, SameView, LivePlaces
  <2>4. Earlies' /\ Outcome'
    BY <1>1, <1>2, <1>6, <2>1
    DEF Agreement, Course, Earlies, Outcome, SameView, LivePlaces, Frames
  <2>5. QED
    BY <1>3, <1>4, <2>2, <2>3, <2>4 DEF Agreement, Course
<1>7. QED
  BY <1>5, <1>6 DEF End

(* The server has read the request and answers it. *)
LEMMA RequestAgrees ==
    ASSUME IInv, IInv', Agreement, read_round("Server"),
           NEW n \in 1..Len(pipe["Server"]),
           Len(In("Server") \o SubSeq(pipe["Server"], 1, n)) >= RequestLen,
           pipe' = [pipe EXCEPT !["Server"] = SubSeq(@, n + 1, Len(@))],
           DoneRequest("Server"), UNCHANGED mid
    PROVE  Agreement'
<1>1. /\ running["Server"] # NoMachine /\ mid["Server"] = NoMachine
      /\ Place("Server") = "Reading" /\ UNCHANGED <<part, early, tail>>
      /\ In("Server") \in Seq(Kinds) /\ pipe["Server"] \in Seq(Kinds)
      /\ Out("Client") \in Seq(Kinds)
  BY ReadingFacts DEF End, DoneRequest
<1>2. PICK answer \in {"response", "rejection"} :
        reply' = answer /\ Keep("Server", Machine("Writing", Pieces(answer, ResponseLen)))
  BY DEF DoneRequest
<1> DEFINE m == Machine("Writing", Pieces(answer, ResponseLen))
<1>3. /\ m \in Machines /\ m.stage = "Writing" /\ m.in = <<>>
      /\ m.out = Pieces(answer, ResponseLen)
  <2>1. Pieces(answer, ResponseLen) \in Seq(Kinds)
    BY PiecesType, LengthAssumption DEF Kinds
  <2>2. QED
    BY <2>1, MachineType DEF Machine
<1>4. Len(m.out) = ResponseLen /\ m.out # <<>> /\ \A i \in 1..ResponseLen : m.out[i] = answer
  BY <1>3, LengthAssumption DEF Pieces
<1> HIDE DEF m
<1>5. /\ \A x \in End : OneMachine(x)'
      /\ Place("Server")' = "Writing" /\ In("Server")' = <<>> /\ Out("Server")' = m.out
      /\ SameView("Client")
  <2>1. Keep("Server", m)
    BY <1>2 DEF m
  <2>2. QED
    BY <1>1, <1>3, <2>1, KeepView DEF Agreement, End
<1>6. /\ reply = "none" /\ pipe["Client"] = <<>> /\ In("Client") = <<>> /\ early = 0
      /\ Len(In("Server")) + Len(pipe["Server"]) + Len(Out("Client")) <= RequestLen
  BY <1>1 DEF Agreement, Course, Requests
<1>7. Out("Client") = <<>>
  <2>1. PICK a, b, c \in Nat :
          a = Len(In("Server")) /\ b = Len(pipe["Server"]) /\ c = Len(Out("Client"))
    BY <1>1
  <2>2. Len(SubSeq(pipe["Server"], 1, n)) = n /\ SubSeq(pipe["Server"], 1, n) \in Seq(Kinds)
    BY <1>1, SubSeqProperties
  <2>3. a + n >= RequestLen
    BY <1>1, <2>1, <2>2, ConcatProperties
  <2>4. a + b + c <= RequestLen /\ n <= b /\ n \in Nat
    BY <1>6, <2>1
  <2>5. c = 0
    BY <2>3, <2>4, LengthAssumption
  <2>6. QED
    BY <1>1, <2>1, <2>5, EmptySeq
<1>8. /\ pipe'["Client"] = <<>> /\ pipe["Server"] # <<>>
  BY <1>1, <1>6 DEF IInv, TypeOK, End
<1>9. Place("Client") \in {"Flushing", "Reading", "cancelled"}
  <2>1. Place("Client") \in {"StartedHandshake", "SkippedHandshake", "Writing", "Flushing",
                             "Reading"} \cup Outcomes
    BY PlaceFacts DEF Agreement, End
  <2>2. Place("Client") \notin {"StartedHandshake", "invalid", "SkippedHandshake", "Writing"}
    BY <1>1, <1>6, <1>7, <1>8 DEF Agreement, Course, Requests, Stages, Earlies, End
  <2>3. Place("Client") \notin {"ok", "rejected", "io", "incomplete"}
    BY <1>1, <1>6 DEF Agreement, Course, Outcome, LivePlaces
  <2>4. Place("Client") # "panic"
    <3>1. future["Client"] # "panic"
      BY DEF IInv, Holds, End
    <3>2. TheMachine("Client").stage # "panic"
      BY DEF IInv, TypeOK, TheMachine, Machines, End
    <3>3. QED
      BY <3>1, <3>2 DEF Place
  <2>5. QED
    BY <2>1, <2>2, <2>3, <2>4 DEF Outcomes
<1>10. Stages'
  BY <1>4, <1>5 DEF Agreement, Course, Stages, SameView, End
<1>11. Requests' /\ Earlies' /\ Outcome'
  BY <1>2, <1>5, <1>9 DEF Requests, Earlies, Outcome, SameView
<1>12. Responses'
  <2>1. Follows(m.out, Items', 0 + 0)
    <3>1. ASSUME NEW i \in 1..ResponseLen PROVE m.out[i] = (Items')[0 + 0 + i]
      BY <1>2, <1>4, <3>1, LengthAssumption DEF Items
    <3>2. QED
      BY <1>4, <3>1 DEF Follows
  <2>2. \A k : Follows(<<>>, Items', k)
    BY DEF Follows
  <2>3. /\ Len(<<>>) + Len(<<>>) = 0 + 0 /\ Len(<<>>) = 0
        /\ (0 + 0) + Len(m.out) = ResponseLen + 0 /\ (0 + 0) + Len(m.out) <= ResponseLen + 0
        /\ Len(<<>>) < ResponseLen
    BY <1>4, LengthAssumption
  <2>4. QED
    BY <1>1, <1>5, <1>6, <1>8, <2>1, <2>2, <2>3 DEF Responses, SameView
<1>13. QED
  BY <1>5, <1>10, <1>11, <1>12 DEF Agreement, Course, Machinery, IInv

(* A read takes n pieces of what is on its way and adds them to the rest.  *)
LEMMA ReadLengths ==
    ASSUME NEW p \in Seq(Kinds), NEW o \in Seq(Kinds), NEW n \in 0..Len(o)
    PROVE  /\ p \o SubSeq(o, 1, n) \in Seq(Kinds)
           /\ Len(p \o SubSeq(o, 1, n)) = Len(p) + n
           /\ SubSeq(o, n + 1, Len(o)) \in Seq(Kinds)
           /\ Len(SubSeq(o, n + 1, Len(o))) = Len(o) - n
           /\ \A i \in 1..(Len(o) - n) : SubSeq(o, n + 1, Len(o))[i] = o[n + i]
<1>1. SubSeq(o, 1, n) \in Seq(Kinds) /\ Len(SubSeq(o, 1, n)) = n
  BY SubSeqProperties
<1>2. /\ SubSeq(o, n + 1, Len(o)) \in Seq(Kinds)
      /\ Len(SubSeq(o, n + 1, Len(o))) = Len(o) - n
      /\ \A i \in 1..(Len(o) - n) : SubSeq(o, n + 1, Len(o))[i] = o[n + i]
  BY SubSeqProperties
<1>3. QED
  BY <1>1, <1>2, ConcatProperties

LEMMA RestLength ==
    ASSUME NEW o \in Seq(Kinds), NEW n \in 0..Len(o)
    PROVE  /\ SubSeq(o, n + 1, Len(o)) \in Seq(Kinds)
           /\ Len(SubSeq(o, n + 1, Len(o))) = Len(o) - n
           /\ \A i \in 1..(Len(o) - n) : SubSeq(o, n + 1, Len(o))[i] = o[n + i]
  BY SubSeqProperties

(* Two sequences of frames make one. *)
LEMMA FramesJoin ==
    ASSUME NEW p \in Seq(Kinds), NEW q \in Seq(Kinds), NEW m \in Nat, Len(p) + Len(q) = m,
           \A i \in 1..Len(p) : p[i] = "frame", \A i \in 1..Len(q) : q[i] = "frame"
    PROVE  p \o q = Pieces("frame", m)
<1> DEFINE s == p \o q
<1>1. /\ s \in Seq(Kinds) /\ Len(s) = Len(p) + Len(q)
      /\ \A i \in 1..Len(s) : s[i] = IF i <= Len(p) THEN p[i] ELSE q[i - Len(p)]
  BY ConcatProperties
<1> HIDE DEF s
<1>2. ASSUME NEW i \in 1..m PROVE s[i] = "frame"
  <2>1. CASE i <= Len(p)
    BY <1>1, <2>1
  <2>2. CASE i > Len(p)
    <3>1. PICK a, b \in Nat : a = Len(p) /\ b = Len(q) /\ a + b = m
      OBVIOUS
    <3>2. i - a \in 1..b
      BY <2>2, <3>1
    <3>3. QED
      BY <1>1, <2>2, <3>1, <3>2
  <2>3. QED
    BY <2>1, <2>2
<1>3. s = [i \in 1..m |-> s[i]]
  BY <1>1
<1>4. QED
  BY <1>2, <1>3 DEF Pieces, s

(* A piece of a message is read that does not complete it. *)
LEMMA PartReadAgrees ==
    ASSUME IInv, IInv', Agreement, NEW e \in End, read_round(e),
           NEW n \in 1..Len(pipe[e]),
           Len(In(e) \o SubSeq(pipe[e], 1, n)) < MessageLen(e),
           pipe' = [pipe EXCEPT ![e] = SubSeq(@, n + 1, Len(@))],
           Keep(e, [running[e] EXCEPT !.in = In(e) \o SubSeq(pipe[e], 1, n)]),
           UNCHANGED <<mid, tail, reply>>
    PROVE  Agreement'
<1> DEFINE in2 == In(e) \o SubSeq(pipe[e], 1, n)
           pipe2 == SubSeq(pipe[e], n + 1, Len(pipe[e]))
           m == [running[e] EXCEPT !.in = in2]
<1>1. /\ running[e] # NoMachine /\ mid[e] = NoMachine /\ running[e] \in Machines
      /\ Place(e) = "Reading" /\ Out(e) = <<>> /\ UNCHANGED <<part, early>>
      /\ running[e].out = <<>> /\ running[e].stage = "Reading"
      /\ In("Client") \in Seq(Kinds) /\ Out("Client") \in Seq(Kinds)
      /\ In("Server") \in Seq(Kinds) /\ Out("Server") \in Seq(Kinds)
      /\ pipe["Client"] \in Seq(Kinds) /\ pipe["Server"] \in Seq(Kinds)
      /\ early \in Nat
  BY ReadingFacts
<1>2. In(e) \in Seq(Kinds) /\ pipe[e] \in Seq(Kinds) /\ pipe[e] # <<>> /\ n \in 0..Len(pipe[e])
  BY SMTT(60), <1>1 DEF End
<1>3. /\ in2 \in Seq(Kinds) /\ Len(in2) = Len(In(e)) + n
      /\ pipe2 \in Seq(Kinds) /\ Len(pipe2) = Len(pipe[e]) - n
  BY <1>2, ReadLengths
<1>4. Len(in2) < MessageLen(e)
  OBVIOUS
<1>5. m \in Machines /\ m.stage = "Reading" /\ m.in = in2 /\ m.out = <<>>
  BY <1>1, <1>3 DEF Machines
<1>6. Keep(e, m) /\ pipe'[e] = pipe2 /\ \A x \in End \ {e} : pipe'[x] = pipe[x]
  BY DEF IInv, TypeOK
<1>7. PICK a, b, a2, b2 \in Nat :
        /\ a = Len(In(e)) /\ b = Len(pipe[e]) /\ a2 = Len(in2) /\ b2 = Len(pipe2)
        /\ a2 + b2 = a + b
  <2>1. Len(In(e)) \in Nat /\ Len(pipe[e]) \in Nat /\ Len(in2) \in Nat /\ Len(pipe2) \in Nat
    BY <1>2, <1>3
  <2>2. PICK a, b, a2, b2 \in Nat :
          a = Len(In(e)) /\ b = Len(pipe[e]) /\ a2 = Len(in2) /\ b2 = Len(pipe2)
    BY <2>1
  <2>3. a2 = a + n /\ b2 = b - n
    BY <1>3, <2>2
  <2>4. a2 + b2 = a + b
    BY <2>3
  <2>5. QED
    BY <2>2, <2>4
<1> HIDE DEF m
<1>8. /\ \A x \in End : OneMachine(x)'
      /\ Place(e)' = "Reading" /\ In(e)' = in2 /\ Out(e)' = <<>>
      /\ \A x \in End \ {e} : SameView(x)
  BY <1>1, <1>5, <1>6, KeepView DEF Agreement
<1>9. Machinery'
  BY <1>8 DEF Machinery, IInv
<1>10. Stages'
  BY <1>8 DEF Agreement, Course, Stages, SameView
<1>11. CASE e = "Client"
  <2>1. SameView("Server") /\ pipe'["Server"] = pipe["Server"]
    BY <1>6, <1>8, <1>11 DEF End
  <2>2. reply # "none"
    BY <1>2, <1>11 DEF Agreement, Course, Requests
  <2>3. /\ Follows(In("Client"), Items, 0)
        /\ Follows(pipe["Client"], Items, Len(In("Client")))
        /\ Follows(Out("Server"), Items, Len(In("Client")) + Len(pipe["Client"]))
        /\ early # 0 => Place("Server") = "ok"
        /\ Len(In("Client")) + Len(pipe["Client"]) + Len(Out("Server")) <= ResponseLen + early
        /\ Place("Server") \in {"Writing", "Flushing", "ok", "rejected"} =>
             Len(In("Client")) + Len(pipe["Client"]) + Len(Out("Server")) = ResponseLen + early
    BY <1>1, <1>11, <2>2 DEF Agreement, Course, Responses
  <2>4. Follows(in2, Items, 0) /\ Follows(pipe2, Items, Len(in2))
    <3>1. 0 + Len(In("Client")) = Len(In("Client")) /\ 0 + Len(in2) = Len(in2)
      BY <1>1, <1>3
    <3>2. Follows(pipe["Client"], Items, 0 + Len(In("Client")))
      BY <2>3, <3>1
    <3>3. /\ Follows(In("Client") \o SubSeq(pipe["Client"], 1, n), Items, 0)
          /\ Follows(SubSeq(pipe["Client"], n + 1, Len(pipe["Client"])), Items,
                     0 + Len(In("Client") \o SubSeq(pipe["Client"], 1, n)))
      BY <1>1, <1>2, <1>11, <2>3, <3>2, Passed
    <3>4. QED
      BY <1>11, <3>1, <3>3
  <2>5. Len(in2) + Len(pipe2) = Len(In("Client")) + Len(pipe["Client"])
    BY <1>7, <1>11
  <2>6. Len(in2) < ResponseLen
    BY <1>4, <1>11 DEF MessageLen
  <2>7. Items' = Items
    BY DEF Items
  <2> HIDE DEF in2, pipe2
  <2>8. Responses'
    BY <1>1, <1>6, <1>8, <1>11, <2>1, <2>3, <2>4, <2>5, <2>6, <2>7
    DEF Agreement, Course, Responses, SameView
  <2>9. Requests' /\ Earlies' /\ Outcome'
    BY <1>1, <1>8, <1>11, <2>1, <2>2 DEF Agreement, Course, Requests, Earlies, Outcome, SameView
  <2>10. QED
    BY <1>9, <1>10, <2>8, <2>9 DEF Agreement, Course
<1>12. CASE e = "Server"
  <2>1. SameView("Client") /\ pipe'["Client"] = pipe["Client"]
    BY <1>6, <1>8, <1>12 DEF End
  <2>2. /\ reply = "none" /\ pipe["Client"] = <<>> /\ In("Client") = <<>> /\ early = 0
        /\ Len(In("Server")) + Len(pipe["Server"]) + Len(Out("Client")) <= RequestLen
        /\ Place("Client") \notin {"StartedHandshake", "invalid"}
    BY <1>1, <1>2, <1>12 DEF Agreement, Course, Requests
  <2>3. Len(in2) + Len(pipe2) + Len(Out("Client")) <= RequestLen
    <3>1. Len(in2) + Len(pipe2) = Len(In("Server")) + Len(pipe["Server"])
      BY <1>7, <1>12
    <3>2. QED
      BY <2>2, <3>1
  <2> HIDE DEF in2, pipe2
  <2>4. Requests'
    BY <1>1, <1>6, <1>8, <1>12, <2>1, <2>2, <2>3 DEF Agreement, Course, Requests, SameView
  <2>5. Responses'
    BY <1>1, <1>8, <1>12, <2>1, <2>2 DEF Agreement, Course, Responses, SameView
  <2>6. Earlies' /\ Outcome'
    BY <1>1, <1>8, <1>12, <2>1 DEF Agreement, Course, Earlies, Outcome, SameView, Frames
  <2>7. QED
    BY <1>9, <1>10, <2>4, <2>5, <2>6 DEF Agreement, Course
<1>13. QED
  BY <1>11, <1>12 DEF End

(* The client has read its response, and maybe more. *)
LEMMA ResponseAgrees ==
    ASSUME IInv, IInv', Agreement, read_round("Client"),
           NEW n \in 1..Len(pipe["Client"]),
           NEW in2, in2 = In("Client") \o SubSeq(pipe["Client"], 1, n),
           Len(in2) >= ResponseLen,
           pipe' = [pipe EXCEPT !["Client"] = SubSeq(@, n + 1, Len(@))],
           DoneResponse("Client", in2[1], SubSeq(in2, ResponseLen + 1, Len(in2))),
           UNCHANGED mid
    PROVE  Agreement'
<1> DEFINE o2 == SubSeq(pipe["Client"], n + 1, Len(pipe["Client"]))
           rest == SubSeq(in2, ResponseLen + 1, Len(in2))
           outcome == IF in2[1] = "response" THEN "ok" ELSE "rejected"
<1>1. /\ running["Client"] # NoMachine /\ mid["Client"] = NoMachine
      /\ Place("Client") = "Reading" /\ Out("Client") = <<>> /\ UNCHANGED <<part, early, reply>>
      /\ In("Client") \in Seq(Kinds) /\ pipe["Client"] \in Seq(Kinds)
      /\ Out("Server") \in Seq(Kinds) /\ early \in Nat
      /\ reply \in {"none", "response", "rejection"}
      /\ n \in 0..Len(pipe["Client"]) /\ pipe["Client"] # <<>>
  BY ReadingFacts DEF End, DoneResponse
<1>2. reply # "none" /\ reply \in {"response", "rejection"}
  BY <1>1 DEF Agreement, Course, Requests
<1>3. /\ in2 \in Seq(Kinds) /\ Len(in2) = Len(In("Client")) + n
      /\ o2 \in Seq(Kinds) /\ Len(o2) = Len(pipe["Client"]) - n
  BY <1>1, ReadLengths
<1>4. /\ Follows(In("Client"), Items, 0)
      /\ Follows(pipe["Client"], Items, Len(In("Client")))
      /\ early # 0 => Place("Server") = "ok"
      /\ Len(In("Client")) + Len(pipe["Client"]) + Len(Out("Server")) <= ResponseLen + early
      /\ Place("Server") \in {"Writing", "Flushing", "ok", "rejected"} =>
           Len(In("Client")) + Len(pipe["Client"]) + Len(Out("Server")) = ResponseLen + early
  BY <1>1, <1>2 DEF Agreement, Course, Responses
<1>5. Follows(in2, Items, 0) /\ Follows(o2, Items, Len(in2))
  <2>1. 0 + Len(In("Client")) = Len(In("Client")) /\ 0 + Len(in2) = Len(in2)
    BY <1>1, <1>3
  <2>2. Follows(pipe["Client"], Items, 0 + Len(In("Client")))
    BY <1>4, <2>1
  <2>3. Follows(in2, Items, 0) /\ Follows(o2, Items, 0 + Len(in2))
    BY <1>1, <1>4, <2>2, Passed
  <2>4. QED
    BY <2>1, <2>3
<1>6. in2[1] = reply
  <2>1. 1 \in 1..Len(in2) /\ 0 + 1 = 1 /\ 1 \in Nat /\ 1 <= ResponseLen
    BY <1>3, LengthAssumption
  <2>2. in2[1] = Items[1]
    BY <1>5, <2>1 DEF Follows
  <2>3. QED
    BY <2>1, <2>2 DEF Items
<1>7. PICK a, b, c, a2, b2, r \in Nat :
        /\ a = Len(In("Client")) /\ b = Len(pipe["Client"]) /\ c = Len(Out("Server"))
        /\ a2 = Len(in2) /\ b2 = Len(o2) /\ r = ResponseLen
        /\ a2 + b2 = a + b /\ a2 >= r
  <2>1. /\ Len(In("Client")) \in Nat /\ Len(pipe["Client"]) \in Nat /\ Len(Out("Server")) \in Nat
        /\ Len(in2) \in Nat /\ Len(o2) \in Nat
    BY <1>1, <1>3
  <2>2. PICK a, b, c, a2, b2, r \in Nat :
          /\ a = Len(In("Client")) /\ b = Len(pipe["Client"]) /\ c = Len(Out("Server"))
          /\ a2 = Len(in2) /\ b2 = Len(o2) /\ r = ResponseLen
    BY <2>1, LengthAssumption
  <2>3. a2 = a + n /\ b2 = b - n /\ a2 >= r
    BY <1>3, <2>2
  <2>4. a2 + b2 = a + b
    BY <2>3
  <2>5. QED
    BY <2>2, <2>3, <2>4
<1>8. rest \in Seq(Kinds) /\ Len(rest) = a2 - r /\ \A i \in 1..Len(rest) : rest[i] = "frame"
  <2>1. /\ rest \in Seq(Kinds) /\ Len(rest) = a2 - r
        /\ \A i \in 1..(a2 - r) : rest[i] = in2[r + i]
    <3>1. ResponseLen \in 0..Len(in2) /\ <<>> \in Seq(Kinds)
      BY <1>7
    <3>2. /\ rest \in Seq(Kinds) /\ Len(rest) = Len(in2) - ResponseLen
          /\ \A i \in 1..(Len(in2) - ResponseLen) : rest[i] = in2[ResponseLen + i]
      BY <1>3, <3>1, RestLength
    <3>3. QED
      BY <1>7, <3>2
  <2>2. ASSUME NEW i \in 1..(a2 - r) PROVE in2[r + i] = "frame"
    <3>1. r + i \in 1..a2 /\ r + i \in Nat /\ ~(r + i <= r) /\ 0 + (r + i) = r + i
      BY <1>7
    <3>2. in2[r + i] = Items[r + i]
      BY <1>5, <1>7, <3>1 DEF Follows
    <3>3. QED
      BY <1>7, <3>1, <3>2 DEF Items
  <2>3. QED
    BY <2>1, <2>2
<1>9. \A i \in 1..Len(o2) : o2[i] = "frame"
  <2>1. ASSUME NEW i \in 1..Len(o2) PROVE o2[i] = "frame"
    <3>1. a2 + i \in Nat /\ ~(a2 + i <= r)
      BY SMTT(60), <1>7
    <3>2. o2[i] = Items[a2 + i]
      BY <1>5, <1>7 DEF Follows
    <3>3. QED
      BY <1>7, <3>1, <3>2 DEF Items
  <2>2. QED
    BY <2>1
<1>10. Len(rest) + Len(o2) = early /\ Place("Server") # "Writing"
  <2>1. a + b + c <= r + early /\ (early # 0 => c = 0 /\ a + b + c = r + early)
    <3>1. early # 0 => Place("Server") = "ok" /\ Out("Server") = <<>>
      BY <1>4 DEF Agreement, Course, Stages, End
    <3>2. early # 0 => c = 0
      BY <1>7, <3>1
    <3>3. QED
      BY <1>4, <1>7, <3>1, <3>2
  <2>2. c = 0 /\ a2 - r + b2 = early
    <3>1. /\ a \in Nat /\ b \in Nat /\ c \in Nat /\ a2 \in Nat /\ b2 \in Nat /\ r \in Nat
          /\ early \in Nat /\ a2 + b2 = a + b /\ a2 >= r
      BY <1>1, <1>7
    <3>2. QED
      BY <2>1, <3>1
  <2>3. Out("Server") = <<>>
    BY <1>1, <1>7, <2>2, EmptySeq
  <2>4. QED
    BY <1>7, <1>8, <2>2, <2>3 DEF Agreement, Course, Stages, End
<1>11. /\ Finish("Client", outcome) /\ outcome \in {"ok", "rejected"} /\ outcome \in Outcomes
       /\ outcome = "ok" <=> reply = "response"
       /\ tail'["Client"] = rest /\ pipe'["Client"] = o2 /\ pipe'["Server"] = pipe["Server"]
  BY <1>2, <1>6 DEF DoneResponse, Outcomes, IInv, TypeOK, End
<1> HIDE DEF o2, rest, outcome
<1>12. /\ \A x \in End : OneMachine(x)'
       /\ Place("Client")' = outcome /\ In("Client")' = <<>> /\ Out("Client")' = <<>>
       /\ SameView("Server")
  BY <1>1, <1>11, FinishView DEF Agreement, End
<1>13. Stages'
  BY <1>11, <1>12 DEF Agreement, Course, Stages, SameView, End
<1>14. Requests' /\ Responses'
  BY <1>1, <1>2, <1>11, <1>12 DEF Agreement, Course, Requests, Responses, SameView
<1>15. Earlies'
  <2>1. Frames(rest)'
    BY <1>1, <1>8, <1>9, <1>10, <1>11 DEF Frames, SameView
  <2>2. Place("Server") # "SkippedHandshake"
    BY <1>1 DEF Agreement, Course, Earlies
  <2>3. QED
    BY <1>10, <1>11, <1>12, <2>1, <2>2 DEF Earlies, SameView, Frames
<1>16. Outcome'
  BY <1>1, <1>2, <1>11, <1>12 DEF Outcome, SameView
<1>17. QED
  BY <1>12, <1>13, <1>14, <1>15, <1>16 DEF Agreement, Course, Machinery, IInv

LEMMA ReadRoundAgrees ==
    ASSUME IInv, IInv', Agreement, NEW e \in End, read_round(e) PROVE Agreement'
<1> DEFINE in(n) == In(e) \o SubSeq(pipe[e], 1, n)
<1>1. /\ running[e] # NoMachine /\ In(e) = running[e].in
      /\ UNCHANGED <<started, part, early>>
  BY ReadingFacts
<1>2. CASE pipe[e] = <<>> /\ Live(Peer(e)) /\ interrupted(e) /\ UNCHANGED <<pipe, tail, reply>>
  BY <1>1, <1>2, InterruptedAgrees
<1>3. CASE /\ pipe[e] = <<>> /\ ~Live(Peer(e))
           /\ Finish(e, "incomplete") /\ UNCHANGED <<mid, pipe, tail, reply>>
  BY <1>3, IncompleteAgrees
<1>4. ASSUME NEW n \in 1..Len(pipe[e]), UNCHANGED mid,
             pipe' = [pipe EXCEPT ![e] = SubSeq(@, n + 1, Len(@))],
             \/ /\ Len(in(n)) < MessageLen(e)
                /\ Keep(e, [running[e] EXCEPT !.in = in(n)])
                /\ UNCHANGED <<tail, reply>>
             \/ Len(in(n)) >= MessageLen(e) /\ e = "Server" /\ DoneRequest(e)
             \/ /\ Len(in(n)) >= MessageLen(e) /\ e = "Client"
                /\ DoneResponse(e, in(n)[1], SubSeq(in(n), MessageLen(e) + 1, Len(in(n))))
      PROVE  Agreement'
  <2>1. CASE /\ Len(in(n)) < MessageLen(e)
             /\ Keep(e, [running[e] EXCEPT !.in = in(n)])
             /\ UNCHANGED <<tail, reply>>
    BY <1>4, <2>1, PartReadAgrees
  <2>2. CASE Len(in(n)) >= MessageLen(e) /\ e = "Server" /\ DoneRequest(e)
    <3>1. /\ Len(In("Server") \o SubSeq(pipe["Server"], 1, n)) >= RequestLen
          /\ DoneRequest("Server") /\ read_round("Server") /\ n \in 1..Len(pipe["Server"])
          /\ pipe' = [pipe EXCEPT !["Server"] = SubSeq(@, n + 1, Len(@))]
      BY <1>4, <2>2 DEF MessageLen
    <3>2. QED
      BY <1>4, <3>1, RequestAgrees
  <2>3. CASE /\ Len(in(n)) >= MessageLen(e) /\ e = "Client"
             /\ DoneResponse(e, in(n)[1], SubSeq(in(n), MessageLen(e) + 1, Len(in(n))))
    <3>1. MessageLen(e) = ResponseLen /\ e = "Client"
      BY <2>3 DEF MessageLen
    <3>2. PICK in2 : in2 = In("Client") \o SubSeq(pipe["Client"], 1, n)
      OBVIOUS
    <3>3. in2 = in(n)
      BY <3>1, <3>2
    <3>4. /\ Len(in2) >= ResponseLen /\ read_round("Client") /\ n \in 1..Len(pipe["Client"])
          /\ pipe' = [pipe EXCEPT !["Client"] = SubSeq(@, n + 1, Len(@))]
          /\ DoneResponse("Client", in2[1], SubSeq(in2, ResponseLen + 1, Len(in2)))
      BY <1>4, <2>3, <3>1, <3>3
    <3>5. QED
      BY <1>4, <3>2, <3>4, ResponseAgrees
  <2>4. QED
    BY <1>4, <2>1, <2>2, <2>3
<1>5. QED
  <2>1. \/ pipe[e] = <<>> /\ Live(Peer(e)) /\ interrupted(e) /\ UNCHANGED <<pipe, tail, reply>>
        \/ /\ pipe[e] = <<>> /\ ~Live(Peer(e))
           /\ Finish(e, "incomplete") /\ UNCHANGED <<mid, pipe, tail, reply>>
        \/ \E n \in 1..Len(pipe[e]) :
              /\ UNCHANGED mid
              /\ pipe' = [pipe EXCEPT ![e] = SubSeq(@, n + 1, Len(@))]
              /\ \/ /\ Len(in(n)) < MessageLen(e)
                    /\ Keep(e, [running[e] EXCEPT !.in = in(n)])
                    /\ UNCHANGED <<tail, reply>>
                 \/ Len(in(n)) >= MessageLen(e) /\ e = "Server" /\ DoneRequest(e)
                 \/ /\ Len(in(n)) >= MessageLen(e) /\ e = "Client"
                    /\ DoneResponse(e, in(n)[1], SubSeq(in(n), MessageLen(e) + 1, Len(in(n))))
    BY <1>1 DEF read_round
  <2> HIDE DEF in
  <2>2. QED
    BY <1>2, <1>3, <1>4, <2>1
-----------------------------------------------------------------------------
LEMMA InitAgrees == ASSUME Init, IInv PROVE Agreement
<1>1. TypeOK
  BY DEF IInv
<1>2. /\ \A e \in End : mid[e] = NoMachine /\ running[e] = NoMachine /\ ~polling[e]
      /\ \A e \in End : future[e] # "MidHandshake"
  BY DEF Init, DoneHere, DoneElsewhere
<1>3. Machinery
  BY <1>1, <1>2 DEF Machinery, OneMachine, HasMachine
<1>4. \A e \in End : Place(e) = future[e] /\ In(e) = <<>> /\ Out(e) = <<>>
  BY <1>2 DEF Place, HasMachine, In, Out, TheMachine, NoMachine
<1>5. CASE DoneHere
  <2>1. \A e \in End : Place(e) = "StartedHandshake"
    BY <1>4, <1>5 DEF DoneHere
  <2>2. Stages
    BY <1>4, <2>1 DEF Stages
  <2>3. Requests /\ Responses /\ Earlies /\ Outcome
    BY <1>4, <1>5, <2>1, LengthAssumption
    DEF DoneHere, End, Requests, Responses, Earlies, Outcome
  <2>4. QED
    BY <1>3, <2>2, <2>3 DEF Agreement, Course
<1>6. CASE DoneElsewhere
  <2>1. \A e \in End : Place(e) = "SkippedHandshake"
    BY <1>4, <1>6 DEF DoneElsewhere
  <2>2. Stages
    BY <1>4, <2>1 DEF Stages
  <2>3. PICK n \in 0..Early, k \in 0..Cap :
          /\ early = n + k
          /\ part["Client"] = Pieces("frame", n) /\ pipe["Client"] = Pieces("frame", k)
          /\ pipe["Server"] = <<>> /\ reply = "response"
    BY <1>6 DEF DoneElsewhere, End
  <2>4. Frames(part["Client"])
    <3>1. n \in Nat /\ k \in Nat
      BY LengthAssumption
    <3>2. Len(Pieces("frame", n)) = n /\ Len(Pieces("frame", k)) = k
      BY <3>1 DEF Pieces
    <3>3. QED
      BY <2>3, <3>1, <3>2 DEF Frames, Pieces
  <2>5. Requests /\ Responses /\ Earlies /\ Outcome
    BY <1>4, <2>1, <2>3, <2>4 DEF End, Requests, Responses, Earlies, Outcome
  <2>6. QED
    BY <1>3, <2>2, <2>5 DEF Agreement, Course
<1>7. QED
  BY <1>5, <1>6 DEF Init

LEMMA AgreementKept == Spec => []Agreement
<1>1. Init /\ IInv => Agreement
  BY InitAgrees
<1>2. IInv /\ IInv' /\ Agreement /\ [Next]_vars => Agreement'
  <2> SUFFICES ASSUME IInv, IInv', Agreement, [Next]_vars PROVE Agreement'
    OBVIOUS
  <2>1. ASSUME NEW e \in End,
               poll_skipped(e) \/ poll_started(e) \/ poll_mid(e) \/ Round(e) \/ cancel(e)
        PROVE  Agreement'
    BY <2>1, PollSkippedAgrees, PollStartedAgrees, PollMidAgrees, WriteRoundAgrees,
       FlushRoundAgrees, ReadRoundAgrees, CancelAgrees DEF Round
  <2>2. CASE send_early
    BY <2>2, SendEarlyAgrees
  <2>3. CASE UNCHANGED vars
    <3>1. \A x \in End : OneMachine(x)' /\ SameView(x)
      BY <2>3 DEF vars, Agreement, Machinery, OneMachine, HasMachine, SameView, Place, In, Out,
                  TheMachine
    <3>2. QED
      BY <2>3, <3>1, SameCourse DEF vars, Agreement, Machinery, IInv
  <2>4. QED
    BY <2>1, <2>2, <2>3 DEF Next, settled
<1>3. QED
  BY <1>1, <1>2, Invariance, PTL DEF Spec

(* What src/handshake.rs hands the two users is consistent: Ok on the      *)
(* client only for the server's response, a rejection on both sides, and   *)
(* no failure of one end on which the other prospers, wherever the futures *)
(* of the two ends were interrupted, for all message lengths.              *)
THEOREM EndsAgree == Spec => []OutcomesAgree
<1>1. IInv /\ Agreement => OutcomesAgree
  <2> SUFFICES ASSUME IInv, Agreement PROVE OutcomesAgree
    OBVIOUS
  <2>1. \A e \in End : Place(e) = future[e] \/ future[e] \in Awaited
    BY DEF Place, HasMachine, Awaited
  <2>2. future["Client"] = "ok" => reply = "response"
    BY <2>1 DEF Agreement, Course, Outcome, End, Awaited
  <2>3. future["Client"] = "rejected" => reply = "rejection"
    BY <2>1 DEF Agreement, Course, Outcome, End, Awaited
  <2>4. future["Client"] \in Awaited \cup Outcomes /\ future["Client"] # "panic"
    BY DEF IInv, TypeOK, Holds, End
  <2>5. ASSUME future["Server"] \in {"ok", "rejected"}, future["Client"] \notin Awaited
        PROVE  future["Client"] \in {"ok", "rejected", "cancelled"}
    <3>1. Place("Server") = future["Server"] /\ Place("Client") = future["Client"]
      BY <2>1, <2>5 DEF End, Awaited
    <3>2. reply # "none"
      BY <2>5, <3>1 DEF Agreement, Course, Requests
    <3>3. future["Client"] \notin {"invalid", "io"}
      BY <3>1, <3>2 DEF Agreement, Course, Requests
    <3>4. future["Client"] # "incomplete"
      BY <2>5, <3>1 DEF Agreement, Course, Outcome, LivePlaces
    <3>5. QED
      BY <2>4, <2>5, <3>3, <3>4 DEF Outcomes
  <2>6. future["Server"] = "rejected" => reply = "rejection"
    BY <2>1 DEF Agreement, Course, Requests, End, Awaited
  <2>7. future["Server"] = "ok" => reply = "response"
    BY <2>1 DEF Agreement, Course, Requests, End, Awaited
  <2>8. QED
    BY <2>2, <2>3, <2>5, <2>6, <2>7 DEF OutcomesAgree
<1>2. QED
  BY <1>1, Invariance, AgreementKept, PTL

(* The tail that the client's handshake hands to WebSocketStream, and what *)
(* is still on its way, are the early messages, in full and in order.      *)
THEOREM EarlyMessagesSurvive == Spec => []EarlyMessagesKept
<1>1. IInv /\ Agreement => EarlyMessagesKept
  <2> SUFFICES ASSUME IInv, Agreement, future["Client"] = "ok"
               PROVE  tail["Client"] \o pipe["Client"] = Pieces("frame", early)
    BY DEF EarlyMessagesKept
  <2>1. Place("Client") = "ok"
    BY DEF Place, HasMachine
  <2>2. Frames(tail["Client"])
    BY <2>1 DEF Agreement, Course, Earlies
  <2>3. /\ tail["Client"] \in Seq(Kinds) /\ pipe["Client"] \in Seq(Kinds) /\ early \in Nat
    BY LengthAssumption DEF IInv, TypeOK, End
  <2>4. QED
    BY <2>2, <2>3, FramesJoin DEF Frames
<1>2. QED
  BY <1>1, Invariance, AgreementKept, PTL
=============================================================================
