---------------------------- MODULE WebSocketCalls ----------------------------
(***************************************************************************)
(* What every call of tungstenite does to the frames an endpoint has sent  *)
(* and still holds: none is lost or moved past another, and no message is  *)
(* put behind a Close.  WebSocketStreamProofs rests on these lemmas.       *)
(***************************************************************************)
EXTENDS WebSocketStream, Counts

Replies == {NoFrame, CloseFrame} \cup [op : {"Pong"}, id : Nat]

WebSockets ==
    [state : States, additional : Replies, unflushed : BOOLEAN, out : Seq(Frames)]

Results == {"Ok", "WouldBlock", "WriteBufferFull", "SendAfterClosing", "AlreadyClosed",
            "ConnectionClosed", "Protocol", "Io"}

Calls == [role : Endpoint, ws : WebSockets, room : Nat, up : BOOLEAN, sent : Seq(Frames),
          msg : Frames \cup {NoFrame}, should_flush : BOOLEAN, res : Results]

NoClose(s) == \A i \in 1..Len(s) : s[i].op # "Close"
OneClose(s) == \A i, j \in 1..Len(s) : i < j /\ s[i].op = "Close" => s[j].op = "Pong"

(* An endpoint may queue a Close, or has one waiting, only if none of the  *)
(* frames s it has sent and queued is one.                                 *)
Consistent(ws, s) ==
    /\ ws \in WebSockets /\ Len(ws.out) <= MaxOut
    /\ OneClose(s)
    /\ ws.state = "Active" => ws.additional # CloseFrame
    /\ ws.state = "Active" \/ ws.additional = CloseFrame => NoClose(s)

(* What was written before the call, what the call has written, and what   *)
(* waits in the buffer.                                                    *)
Transcript(before, c) == before \o (c.sent \o c.ws.out)

(* A Close that was sent or queued still is, and one that waited to be     *)
(* queued waits, unless it now is.                                         *)
ClosesAlike(before, c, d) ==
    /\ ~NoClose(Transcript(before, c)) => ~NoClose(Transcript(before, d))
    /\ c.ws.additional = CloseFrame =>
          d.ws.additional = CloseFrame \/ ~NoClose(Transcript(before, d))

(* No more messages wait than before, or one more. *)
NoMore(c, d) == \A n \in Nat : Waiting(c.ws.out) <= n => Waiting(d.ws.out) <= n
OneMore(c, d) == \A n \in Nat : Waiting(c.ws.out) <= n => Waiting(d.ws.out) <= n + 1

(* d is what the call c may have become. *)
Proceeds(before, c, d) ==
    /\ d \in Calls /\ Consistent(d.ws, Transcript(before, d))
    /\ d.role = c.role /\ d.up = c.up /\ d.msg = c.msg
    /\ d.room + Len(d.sent) = c.room + Len(c.sent)
    /\ ~c.up => d.sent = c.sent
    /\ CanRead(d.ws.state) <=> CanRead(c.ws.state)
    /\ d.ws.state = "Active" => c.ws.state = "Active"
    /\ d.res = "Io" => ~c.up
    /\ d.res = "ConnectionClosed" => ~CanRead(c.ws.state) /\ (c.up => d.ws.out = <<>>)
    /\ ClosesAlike(before, c, d)

(* It carries the messages it carried before. *)
Keeps(before, c, d) ==
    \A taken \in Seq(Frames) :
        Carries(Transcript(before, c), taken) => Carries(Transcript(before, d), taken)

Continues(before, c, d) ==
    /\ Proceeds(before, c, d)
    /\ Keeps(before, c, d)
    /\ NoMore(c, d)
    /\ c.ws.state = "Active" => d.ws.state = "Active"
    /\ d.res \in {"Ok", "WouldBlock", "ConnectionClosed", "Io"}
-----------------------------------------------------------------------------
LEMMA FrameFacts ==
    /\ NoFrame \notin Frames /\ CloseFrame \in Frames /\ CloseFrame # NoFrame
    /\ NoFrame.op = "None" /\ CloseFrame.op = "Close"
    /\ \A f \in Frames : f.op \in {"Data", "Ping", "Pong", "Close"} /\ f.id \in Nat
    /\ \A f \in Frames : Pong(f) \in Replies /\ Pong(f) # CloseFrame /\ Pong(f) # NoFrame
    /\ \A f \in Replies : f # NoFrame => f \in Frames /\ f.op \in {"Pong", "Close"}
    /\ \A f \in Replies : f.op = "Close" => f = CloseFrame
    /\ \A f \in Replies : f.op = "None" => f = NoFrame
  BY DEF NoFrame, CloseFrame, Frames, Pong, Replies

LEMMA AppendClose ==
    ASSUME NEW s \in Seq(Frames), NEW f \in Frames
    PROVE  /\ Append(s, f) \in Seq(Frames)
           /\ NoClose(s) /\ f.op # "Close" => NoClose(Append(s, f))
           /\ ~NoClose(s) \/ f.op = "Close" => ~NoClose(Append(s, f))
           /\ OneClose(s) /\ (f.op = "Pong" \/ NoClose(s)) => OneClose(Append(s, f))
<1> DEFINE t == Append(s, f)
<1>1. /\ t \in Seq(Frames) /\ Len(t) = Len(s) + 1 /\ Len(s) \in Nat
      /\ \A i \in 1..Len(s) : t[i] = s[i]
      /\ t[Len(s) + 1] = f
  BY AppendProperties
<1> HIDE DEF t
<1>2. ASSUME NoClose(s), f.op # "Close" PROVE NoClose(t)
  BY <1>1, <1>2 DEF NoClose
<1>3. ASSUME OneClose(s), f.op = "Pong" \/ NoClose(s) PROVE OneClose(t)
  <2> SUFFICES ASSUME NEW i \in 1..Len(t), NEW j \in 1..Len(t), i < j, t[i].op = "Close"
               PROVE  t[j].op = "Pong"
    BY DEF OneClose
  <2>1. i \in 1..Len(s) /\ t[i] = s[i]
    BY <1>1
  <2>2. CASE j = Len(s) + 1
    BY <1>1, <1>3, <2>1, <2>2 DEF NoClose
  <2>3. CASE j \in 1..Len(s)
    BY <1>1, <1>3, <2>1, <2>3 DEF OneClose
  <2>4. QED
    BY <1>1, <2>2, <2>3
<1>4. ASSUME ~NoClose(s) \/ f.op = "Close" PROVE ~NoClose(t)
  <2>1. CASE ~NoClose(s)
    BY <1>1, <2>1 DEF NoClose
  <2>2. CASE f.op = "Close"
    <3>1. Len(s) + 1 \in 1..Len(t)
      BY <1>1
    <3>2. QED
      BY <1>1, <2>2, <3>1 DEF NoClose
  <2>3. QED
    BY <1>4, <2>1, <2>2
<1>5. QED
  BY <1>1, <1>2, <1>3, <1>4 DEF t

(* How many messages wait, as a buffer is filled and emptied. *)
LEMMA WaitingFacts ==
    ASSUME NEW s \in Seq(Frames)
    PROVE  /\ Waiting(s) \in Nat /\ Waiting(s) <= Len(s)
           /\ Waiting(<<>>) = 0
           /\ \A f \in Frames :
                 Waiting(Append(s, f)) = Waiting(s) + IF IsMessage(f) THEN 1 ELSE 0
           /\ \A n \in 0..Len(s) : Waiting(SubSeq(s, n + 1, Len(s))) <= Waiting(s)
<1> DEFINE kind == {f \in Frames : IsMessage(f)}
<1>1. ASSUME NEW t \in Seq(Frames) PROVE Waiting(t) = Count(t, kind)
  <2>1. {i \in DOMAIN t : IsMessage(t[i])} = Positions(t, kind)
    <3>1. DOMAIN t = 1..Len(t) /\ \A i \in 1..Len(t) : t[i] \in Frames
      BY LenProperties
    <3>2. QED
      BY <3>1 DEF Positions
  <2>2. QED
    BY <2>1 DEF Waiting, Count
<1>2. \A f \in Frames : f \in kind <=> IsMessage(f)
  OBVIOUS
<1> HIDE DEF kind
<1>3. Waiting(s) \in Nat /\ Waiting(s) <= Len(s)
  BY <1>1, CountType
<1>4. Waiting(<<>>) = 0
  <2>1. <<>> \in Seq(Frames)
    OBVIOUS
  <2>2. QED
    BY <1>1, <2>1, CountEmpty
<1>5. ASSUME NEW f \in Frames
      PROVE  Waiting(Append(s, f)) = Waiting(s) + IF IsMessage(f) THEN 1 ELSE 0
  <2>1. Append(s, f) \in Seq(Frames)
    BY AppendProperties
  <2>2. Count(Append(s, f), kind) = Count(s, kind) + IF f \in kind THEN 1 ELSE 0
    BY CountAppend
  <2>3. QED
    BY <1>1, <1>2, <2>1, <2>2
<1>6. ASSUME NEW n \in 0..Len(s) PROVE Waiting(SubSeq(s, n + 1, Len(s))) <= Waiting(s)
  <2> DEFINE first == SubSeq(s, 1, n)
             rest  == SubSeq(s, n + 1, Len(s))
  <2>1. /\ first \in Seq(Frames) /\ rest \in Seq(Frames)
        /\ Count(first, kind) + Count(rest, kind) = Count(s, kind)
    BY CountSplit
  <2> HIDE DEF first, rest
  <2>2. /\ Waiting(first) = Count(first, kind) /\ Waiting(rest) = Count(rest, kind)
        /\ Waiting(s) = Count(s, kind)
    BY <1>1, <2>1
  <2>3. Count(first, kind) \in Nat /\ Count(rest, kind) \in Nat
    BY <2>1, CountType
  <2>4. QED
    BY <2>1, <2>2, <2>3 DEF rest
<1>7. QED
  BY <1>3, <1>4, <1>5, <1>6

(* A control frame changes nothing of the messages that are carried; a     *)
(* message that is next in number is one more.                             *)
LEMMA AppendControl ==
    ASSUME NEW s \in Seq(Frames), NEW f \in Frames, ~IsMessage(f),
           NEW taken \in Seq(Frames), Carries(s, taken)
    PROVE  Carries(Append(s, f), taken)
<1> DEFINE t == Append(s, f)
<1>1. /\ DOMAIN t = 1..(Len(s) + 1) /\ DOMAIN s = 1..Len(s) /\ Len(s) \in Nat
      /\ \A i \in 1..Len(s) : t[i] = s[i]
      /\ t[Len(s) + 1] = f
  BY AppendProperties
<1> HIDE DEF t
<1>2. \A i \in DOMAIN t : IsMessage(t[i]) => i \in DOMAIN s /\ t[i] = s[i]
  BY <1>1
<1>3. \A i \in DOMAIN s : i \in DOMAIN t /\ t[i] = s[i]
  BY <1>1
<1>4. Carries(t, taken)
  BY <1>2, <1>3 DEF Carries
<1>5. QED
  BY <1>4 DEF t

Numbered(taken) == \A k \in 1..Len(taken) : IsMessage(taken[k]) /\ taken[k].id = k

LEMMA AppendMessage ==
    ASSUME NEW s \in Seq(Frames), NEW f \in Frames,
           NEW taken \in Seq(Frames), Carries(s, taken),
           IsMessage(f), f.id = Len(taken) + 1, Numbered(taken)
    PROVE  Carries(Append(s, f), Append(taken, f)) /\ Numbered(Append(taken, f))
<1> DEFINE t == Append(s, f)
           u == Append(taken, f)
<1>1. /\ DOMAIN t = 1..(Len(s) + 1) /\ DOMAIN s = 1..Len(s) /\ Len(s) \in Nat
      /\ \A i \in 1..Len(s) : t[i] = s[i]
      /\ t[Len(s) + 1] = f
  BY AppendProperties
<1>2. /\ DOMAIN u = 1..(Len(taken) + 1) /\ DOMAIN taken = 1..Len(taken)
      /\ Len(taken) \in Nat /\ Len(u) = Len(taken) + 1
      /\ \A i \in 1..Len(taken) : u[i] = taken[i]
      /\ u[Len(taken) + 1] = f
  BY AppendProperties
<1> HIDE DEF t, u
<1>3. ASSUME NEW i \in DOMAIN t, IsMessage(t[i]) PROVE \E k \in DOMAIN u : t[i] = u[k]
  <2>1. CASE i = Len(s) + 1
    <3>1. Len(taken) + 1 \in DOMAIN u
      BY <1>2
    <3>2. QED
      BY <1>1, <1>2, <2>1, <3>1
  <2>2. CASE i \in DOMAIN s
    <3>1. PICK k \in DOMAIN taken : s[i] = taken[k]
      BY <1>1, <1>3, <2>2 DEF Carries
    <3>2. k \in DOMAIN u
      BY <1>2
    <3>3. QED
      BY <1>1, <1>2, <2>2, <3>1, <3>2
  <2>3. QED
    BY <1>1, <2>1, <2>2
<1>4. ASSUME NEW k \in DOMAIN u PROVE \E i \in DOMAIN t : t[i] = u[k]
  <2>1. CASE k = Len(taken) + 1
    BY <1>1, <1>2, <2>1
  <2>2. CASE k \in DOMAIN taken
    <3>1. PICK i \in DOMAIN s : s[i] = taken[k]
      BY <2>2 DEF Carries
    <3>2. QED
      BY <1>1, <1>2, <2>2, <3>1
  <2>3. QED
    BY <1>2, <2>1, <2>2
<1>5. ASSUME NEW i \in DOMAIN t, NEW j \in DOMAIN t, i < j, IsMessage(t[i]), IsMessage(t[j])
      PROVE  t[i].id < t[j].id
  <2>1. i \in DOMAIN s /\ t[i] = s[i]
    BY <1>1, <1>5
  <2>2. CASE j \in DOMAIN s
    BY <1>1, <1>5, <2>1, <2>2 DEF Carries
  <2>3. CASE j = Len(s) + 1
    <3>1. PICK k \in DOMAIN taken : s[i] = taken[k]
      BY <1>5, <2>1 DEF Carries
    <3>2. s[i].id = k /\ k < Len(taken) + 1
      BY <1>2, <3>1 DEF Numbered
    <3>3. QED
      BY <1>1, <2>1, <2>3, <3>2
  <2>4. QED
    BY <1>1, <2>2, <2>3
<1>6. Numbered(u)
  BY <1>2 DEF Numbered
<1>7. Carries(t, u)
  BY <1>3, <1>4, <1>5 DEF Carries
<1>8. QED
  BY <1>6, <1>7 DEF t, u
-----------------------------------------------------------------------------
LEMMA TranscriptType ==
    ASSUME NEW before \in Seq(Frames), NEW c \in Calls
    PROVE  /\ Transcript(before, c) \in Seq(Frames)
           /\ c.ws \in WebSockets /\ c.ws.out \in Seq(Frames) /\ c.sent \in Seq(Frames)
           /\ Len(c.ws.out) \in Nat /\ Len(c.sent) \in Nat /\ c.room \in Nat
<1>1. c.ws \in WebSockets /\ c.ws.out \in Seq(Frames) /\ c.sent \in Seq(Frames) /\ c.room \in Nat
  BY DEF Calls, WebSockets
<1>2. Transcript(before, c) \in Seq(Frames)
  BY <1>1, ConcatProperties DEF Transcript
<1>3. QED
  BY <1>1, <1>2

LEMMA Associative ==
    \A p, q, r \in Seq(Frames) : (p \o q) \o r = p \o (q \o r)
  BY ConcatAssociative

LEMMA TranscriptAppend ==
    ASSUME NEW before \in Seq(Frames), NEW sent \in Seq(Frames), NEW out \in Seq(Frames),
           NEW f \in Frames
    PROVE  before \o (sent \o Append(out, f)) = Append(before \o (sent \o out), f)
<1>1. <<f>> \in Seq(Frames) /\ sent \o out \in Seq(Frames)
      /\ before \o (sent \o out) \in Seq(Frames)
  BY ConcatProperties
<1>2. sent \o Append(out, f) = (sent \o out) \o <<f>>
  BY <1>1, AppendIsConcat, ConcatAssociative
<1>3. before \o ((sent \o out) \o <<f>>) = (before \o (sent \o out)) \o <<f>>
  BY <1>1, ConcatAssociative
<1>4. QED
  BY <1>1, <1>2, <1>3, AppendIsConcat

LEMMA TranscriptMove ==
    ASSUME NEW before \in Seq(Frames), NEW sent \in Seq(Frames), NEW out \in Seq(Frames),
           NEW n \in 0..Len(out)
    PROVE  LET first == SubSeq(out, 1, n)
               rest  == SubSeq(out, n + 1, Len(out))
           IN  /\ first \in Seq(Frames) /\ Len(first) = n
               /\ rest \in Seq(Frames) /\ Len(rest) = Len(out) - n
               /\ sent \o first \in Seq(Frames) /\ Len(sent \o first) = Len(sent) + n
               /\ before \o ((sent \o first) \o rest) = before \o (sent \o out)
<1> DEFINE first == SubSeq(out, 1, n)
           rest  == SubSeq(out, n + 1, Len(out))
<1>1. Len(out) \in Nat /\ n \in Nat /\ n <= Len(out) /\ (\A i \in 1..Len(out) : out[i] \in Frames)
  BY LenProperties
<1>2. first \in Seq(Frames) /\ Len(first) = n
  <2>1. \A i \in 1..n : out[i] \in Frames
    BY <1>1
  <2>2. first \in Seq(Frames) /\ Len(first) = IF 1 <= n THEN n - 1 + 1 ELSE 0
    BY <1>1, <2>1, SubSeqProperties
  <2>3. QED
    BY <1>1, <2>2
<1>3. rest \in Seq(Frames) /\ Len(rest) = Len(out) - n
  <2>1. \A i \in n + 1 .. Len(out) : out[i] \in Frames
    BY <1>1
  <2>2. /\ rest \in Seq(Frames)
        /\ Len(rest) = IF n + 1 <= Len(out) THEN Len(out) - (n + 1) + 1 ELSE 0
    BY <1>1, <2>1, SubSeqProperties
  <2>3. QED
    BY <1>1, <2>2
<1>4. first \o rest = out
  <2>1. /\ 1 \in 1..Len(out) + 1 /\ n \in (1 - 1)..Len(out) /\ Len(out) \in n..Len(out)
    BY <1>1
  <2>2. first \o rest = SubSeq(out, 1, Len(out))
    BY <2>1, ConcatAdjacentSubSeq
  <2>3. QED
    BY <2>2, SubSeqFull
<1> HIDE DEF first, rest
<1>5. sent \o first \in Seq(Frames) /\ Len(sent \o first) = Len(sent) + n
  BY <1>2, ConcatProperties
<1>6. (sent \o first) \o rest = sent \o (first \o rest)
  <2>1. first \in Seq(Frames) /\ rest \in Seq(Frames)
    BY <1>2, <1>3
  <2>2. QED
    BY <2>1, Associative, ZenonT(60)
<1>7. QED
  BY <1>2, <1>3, <1>4, <1>5, <1>6 DEF first, rest

LEMMA ContinuesOn ==
    ASSUME NEW before, NEW c, NEW d, NEW e, Continues(before, c, d), Continues(before, d, e)
    PROVE  Continues(before, c, e)
<1>1. ClosesAlike(before, c, e)
  BY DEF Continues, Proceeds, ClosesAlike
<1>2. NoMore(c, e)
  BY DEF Continues, NoMore
<1>3. QED
  BY <1>1, <1>2 DEF Continues, Proceeds, Keeps

LEMMA ProceedsOn ==
    ASSUME NEW before, NEW c, NEW d, NEW e, Proceeds(before, c, d), Proceeds(before, d, e)
    PROVE  Proceeds(before, c, e)
<1>1. ClosesAlike(before, c, e)
  BY DEF Proceeds, ClosesAlike
<1>2. QED
  BY <1>1 DEF Proceeds

(* A call that changes neither the buffer, nor what waits, nor what it has *)
(* sent does nothing to messages or Closes.                                *)
LEMMA SameFrames ==
    ASSUME NEW before, NEW c, NEW d, d.sent = c.sent, d.ws.out = c.ws.out,
           d.ws.additional = c.ws.additional
    PROVE  /\ Transcript(before, d) = Transcript(before, c)
           /\ Keeps(before, c, d) /\ ClosesAlike(before, c, d) /\ NoMore(c, d)
<1>1. Transcript(before, d) = Transcript(before, c)
  BY DEF Transcript
<1>2. QED
  BY <1>1 DEF Keeps, ClosesAlike, NoMore
-----------------------------------------------------------------------------
(* Writing moves frames from the buffer to the transport, in order. *)
LEMMA WriteOut ==
    ASSUME NEW before \in Seq(Frames), NEW c \in Calls, c.res = "Ok",
           Consistent(c.ws, Transcript(before, c)),
           NEW d \in write_out_buffer(c)
    PROVE  /\ Continues(before, c, d) /\ d.res # "ConnectionClosed"
           /\ d.ws.state = c.ws.state /\ d.ws.additional = c.ws.additional
           /\ d.res = "Ok" => d.ws.out = <<>>
<1> DEFINE out == c.ws.out
           n == IF Len(out) < c.room THEN Len(out) ELSE c.room
           first == SubSeq(out, 1, n)
           rest == SubSeq(out, n + 1, Len(out))
           took == [c EXCEPT !.ws.out = rest, !.sent = @ \o first, !.room = @ - n]
<1>1. /\ c.ws \in WebSockets /\ out \in Seq(Frames) /\ c.sent \in Seq(Frames)
      /\ Len(out) \in Nat /\ c.room \in Nat /\ Len(c.sent) \in Nat
  BY TranscriptType
<1>2. n \in 0..Len(out) /\ n <= c.room
  BY <1>1
<1>3. /\ first \in Seq(Frames) /\ Len(first) = n
      /\ rest \in Seq(Frames) /\ Len(rest) = Len(out) - n
      /\ c.sent \o first \in Seq(Frames) /\ Len(c.sent \o first) = Len(c.sent) + n
      /\ before \o ((c.sent \o first) \o rest) = before \o (c.sent \o out)
  <2>1. c.sent \in Seq(Frames) /\ out \in Seq(Frames) /\ n \in 0..Len(out)
    BY <1>1, <1>2
  <2> HIDE DEF n, out
  <2>2. QED
    BY <2>1, TranscriptMove, ZenonT(60)
<1>4. \/ d = c /\ out = <<>>
      \/ d = Fail(c, "Io") /\ ~c.up
      \/ d = took /\ c.up /\ n = Len(out)
      \/ d = Fail(took, "WouldBlock") /\ c.up
  BY DEF write_out_buffer
<1> HIDE DEF n, first, rest
<1>5. /\ took \in Calls /\ took.ws \in WebSockets /\ took.ws.out = rest
      /\ took.ws.state = c.ws.state /\ took.ws.additional = c.ws.additional
      /\ took.sent = c.sent \o first /\ took.room = c.room - n
      /\ took.role = c.role /\ took.up = c.up /\ took.msg = c.msg /\ took.res = "Ok"
  <2>1. c.room - n \in Nat
    BY <1>1, <1>2
  <2>2. QED
    BY <1>1, <1>3, <2>1 DEF Calls, WebSockets
<1> HIDE DEF took
<1>6. ASSUME NEW r \in {"Ok", "WouldBlock"}, c.up
      PROVE  Continues(before, c, [took EXCEPT !.res = r])
  <2> DEFINE x == [took EXCEPT !.res = r]
  <2>1. /\ x \in Calls /\ x.ws = took.ws /\ x.sent = took.sent /\ x.room = took.room
        /\ x.role = c.role /\ x.up = c.up /\ x.msg = c.msg /\ x.res = r
    BY <1>5 DEF Calls, Results
  <2> HIDE DEF x
  <2>2. Transcript(before, x) = Transcript(before, c)
    BY <1>3, <1>5, <2>1 DEF Transcript
  <2>3. x.room + Len(x.sent) = c.room + Len(c.sent)
    <3>1. PICK a, b, m \in Nat : a = Len(c.sent) /\ b = c.room /\ m = n
      BY <1>1, <1>2
    <3>2. x.room = b - m
      BY <1>5, <2>1, <3>1
    <3>3. Len(x.sent) = a + m
      BY <1>3, <1>5, <2>1, <3>1
    <3>4. (b - m) + (a + m) = b + a
      OBVIOUS
    <3>5. QED
      BY <3>1, <3>2, <3>3, <3>4
  <2>4. Len(x.ws.out) <= MaxOut
    <3>1. Len(x.ws.out) = Len(out) - n /\ Len(out) <= MaxOut
      BY <1>3, <1>5, <2>1 DEF Consistent
    <3>2. QED
      BY <1>1, <1>2, <3>1, BufferAssumption
  <2>5. Consistent(x.ws, Transcript(before, x))
    BY <1>5, <2>1, <2>2, <2>4 DEF Consistent
  <2>6. Keeps(before, c, x) /\ ClosesAlike(before, c, x)
    BY <1>5, <2>1, <2>2 DEF Keeps, ClosesAlike
  <2>7. NoMore(c, x)
    <3>1. Waiting(rest) <= Waiting(out) /\ Waiting(rest) \in Nat /\ Waiting(out) \in Nat
      BY <1>1, <1>2, <1>3, WaitingFacts DEF rest
    <3>2. x.ws.out = rest
      BY <1>5, <2>1
    <3>3. QED
      BY <3>1, <3>2 DEF NoMore
  <2>8. QED
    BY <1>5, <1>6, <2>1, <2>2, <2>3, <2>5, <2>6, <2>7 DEF Continues, Proceeds, x
<1>7. CASE d = c /\ out = <<>>
  BY <1>7, SameFrames DEF Continues, Proceeds, Keeps
<1>8. CASE d = Fail(c, "Io") /\ ~c.up
  <2>1. /\ d \in Calls /\ d.ws = c.ws /\ d.sent = c.sent /\ d.room = c.room
        /\ d.role = c.role /\ d.up = c.up /\ d.msg = c.msg /\ d.res = "Io"
    BY <1>8 DEF Calls, Results, Fail
  <2>2. QED
    BY <1>8, <2>1, SameFrames DEF Continues, Proceeds, Keeps, Transcript
<1>9. CASE d = took /\ c.up /\ n = Len(out)
  <2>1. d = [took EXCEPT !.res = "Ok"]
    BY <1>5, <1>9 DEF Calls
  <2>2. rest = <<>>
    BY <1>1, <1>3, <1>9, EmptySeq
  <2>3. QED
    BY <1>5, <1>6, <1>9, <2>1, <2>2
<1>10. CASE d = Fail(took, "WouldBlock") /\ c.up
  <2>1. d = [took EXCEPT !.res = "WouldBlock"]
    BY <1>10 DEF Fail
  <2>2. d.res = "WouldBlock" /\ d.ws = took.ws
    BY <1>5, <2>1 DEF Calls
  <2>3. QED
    BY <1>5, <1>6, <1>10, <2>1, <2>2
<1>11. QED
  BY <1>4, <1>7, <1>8, <1>9, <1>10

LEMMA ResetCheck ==
    ASSUME NEW before, NEW c, NEW d, Continues(before, c, d),
           d.res # "ConnectionClosed", d.ws \in WebSockets
    PROVE  /\ Continues(before, c, check_connection_reset(d))
           /\ check_connection_reset(d).res = "Ok" <=> d.res = "Ok"
           /\ check_connection_reset(d).ws = d.ws
<1>1. CASE d.res = "Io" /\ ~CanRead(d.ws.state)
  <2> DEFINE e == [d EXCEPT !.res = "ConnectionClosed"]
  <2>1. d \in Calls /\ ~c.up /\ ~CanRead(c.ws.state)
    BY <1>1 DEF Continues, Proceeds
  <2>2. /\ e \in Calls /\ e.ws = d.ws /\ e.sent = d.sent /\ e.room = d.room
        /\ e.role = d.role /\ e.up = d.up /\ e.msg = d.msg /\ e.res = "ConnectionClosed"
    BY <2>1 DEF Calls, Results
  <2>3. check_connection_reset(d) = e
    BY <1>1 DEF check_connection_reset, Fail
  <2> HIDE DEF e
  <2>4. /\ Transcript(before, e) = Transcript(before, d)
        /\ Keeps(before, d, e) /\ ClosesAlike(before, d, e) /\ NoMore(d, e)
    BY <2>2, SameFrames
  <2>6. Keeps(before, c, e) /\ ClosesAlike(before, c, e) /\ NoMore(c, e)
    BY <2>4 DEF Continues, Proceeds, Keeps, ClosesAlike, NoMore
  <2>7. Continues(before, c, e)
    BY <2>1, <2>2, <2>4, <2>6 DEF Continues, Proceeds
  <2>5. QED
    BY <1>1, <2>2, <2>3, <2>7
<1>2. CASE ~(d.res = "Io" /\ ~CanRead(d.ws.state))
  BY <1>2 DEF check_connection_reset
<1>3. QED
  BY <1>1, <1>2

(* The frame f may follow what has been sent and queued. *)
MayFollow(f, ws, s) ==
    /\ f \in Frames
    /\ f.op = "Pong" \/ NoClose(s)
    /\ f.op = "Close" => ws.state # "Active" /\ ws.additional # CloseFrame

(* A message that the call takes is one more. *)
Takes(before, c, d, f) ==
    \A taken \in Seq(Frames) :
        Carries(Transcript(before, c), taken) /\ Numbered(taken) /\ f.id = Len(taken) + 1
            => Carries(Transcript(before, d), Append(taken, f))

(* What a frame f adds to the buffer, and to the messages in it; a call    *)
(* that says Ok leaves no more of them than may wait.                      *)
Fills(before, c, d, f) ==
    /\ IF IsMessage(f) /\ d.res # "WriteBufferFull" THEN OneMore(c, d) ELSE NoMore(c, d)
    /\ d.res = "Ok" /\ IsMessage(f) => Waiting(d.ws.out) <= WriteLen
    /\ f.op = "Close" /\ d.res # "WriteBufferFull" => ~NoClose(Transcript(before, d))
    /\ Len(c.ws.out) < MaxOut => d.res # "WriteBufferFull"
    /\ c.ws.state = "Active" => d.ws.state = "Active"

LEMMA BufferFrame ==
    ASSUME NEW before \in Seq(Frames), NEW c \in Calls, c.res = "Ok",
           Consistent(c.ws, Transcript(before, c)),
           NEW f, MayFollow(f, c.ws, Transcript(before, c)),
           NEW d \in buffer_frame(c, f)
    PROVE  /\ Proceeds(before, c, d)
           /\ d.res \in {"Ok", "WouldBlock", "WriteBufferFull", "ConnectionClosed", "Io"}
           /\ d.res = "WriteBufferFull" => Keeps(before, c, d)
           /\ ~IsMessage(f) => Keeps(before, c, d)
           /\ IsMessage(f) /\ d.res # "WriteBufferFull" => Takes(before, c, d, f)
           /\ Fills(before, c, d, f)
           /\ d.ws.additional = c.ws.additional
<1> DEFINE queued == [c EXCEPT !.ws.out = Append(@, f)]
           s == Transcript(before, c)
<1>1. /\ c.ws \in WebSockets /\ c.ws.out \in Seq(Frames) /\ c.sent \in Seq(Frames)
      /\ Len(c.ws.out) \in Nat /\ s \in Seq(Frames) /\ f \in Frames
      /\ Append(c.ws.out, f) \in Seq(Frames) /\ Len(Append(c.ws.out, f)) = Len(c.ws.out) + 1
  BY TranscriptType, AppendProperties DEF MayFollow
<1>2. \/ d = Fail(c, "WriteBufferFull") /\ ~(Len(c.ws.out) < MaxOut)
      \/ Len(c.ws.out) < MaxOut /\ Len(c.ws.out) < WriteLen /\ d = queued
      \/ /\ Len(c.ws.out) < MaxOut
         /\ \E x \in write_out_buffer(queued) : d = check_connection_reset(x)
  <2>1. Len(c.ws.out) >= MaxOut <=> ~(Len(c.ws.out) < MaxOut)
    BY <1>1, BufferAssumption
  <2>2. QED
    BY <2>1 DEF buffer_frame
<1>3. CASE d = Fail(c, "WriteBufferFull") /\ ~(Len(c.ws.out) < MaxOut)
  <2>1. /\ d \in Calls /\ d.ws = c.ws /\ d.sent = c.sent /\ d.room = c.room
        /\ d.role = c.role /\ d.up = c.up /\ d.msg = c.msg /\ d.res = "WriteBufferFull"
    BY <1>3 DEF Calls, Results, Fail
  <2>2. QED
    BY <1>3, <2>1, SameFrames DEF Proceeds, Fills
<1>4. ASSUME Len(c.ws.out) < MaxOut
      PROVE  /\ queued \in Calls /\ queued.res = "Ok" /\ queued.ws \in WebSockets
             /\ Proceeds(before, c, queued)
             /\ ~IsMessage(f) => Keeps(before, c, queued)
             /\ IsMessage(f) => Takes(before, c, queued, f)
             /\ f.op = "Close" => ~NoClose(Transcript(before, queued))
             /\ IF IsMessage(f) THEN OneMore(c, queued) ELSE NoMore(c, queued)
             /\ Len(queued.ws.out) = Len(c.ws.out) + 1 /\ queued.ws.out \in Seq(Frames)
             /\ queued.ws.state = c.ws.state /\ queued.ws.additional = c.ws.additional
  <2>1. /\ queued \in Calls /\ queued.sent = c.sent /\ queued.room = c.room
        /\ queued.role = c.role /\ queued.up = c.up /\ queued.msg = c.msg
        /\ queued.res = "Ok" /\ queued.ws \in WebSockets
        /\ queued.ws.out = Append(c.ws.out, f) /\ queued.ws.state = c.ws.state
        /\ queued.ws.additional = c.ws.additional
    BY <1>1 DEF Calls, WebSockets
  <2> HIDE DEF queued
  <2>2. Transcript(before, queued) = Append(s, f)
    <3>1. before \o (c.sent \o Append(c.ws.out, f)) = Append(before \o (c.sent \o c.ws.out), f)
      BY <1>1, TranscriptAppend, ZenonT(60)
    <3>2. QED
      BY <2>1, <3>1 DEF Transcript
  <2>3. Len(queued.ws.out) <= MaxOut
    BY <1>1, <1>4, <2>1, BufferAssumption
  <2>4. OneClose(Append(s, f))
    BY <1>1, AppendClose DEF MayFollow, Consistent
  <2>5. c.ws.state = "Active" \/ c.ws.additional = CloseFrame => NoClose(Append(s, f))
    BY <1>1, AppendClose DEF MayFollow, Consistent
  <2>6. Consistent(queued.ws, Transcript(before, queued))
    BY <2>1, <2>2, <2>3, <2>4, <2>5 DEF Consistent
  <2>7. /\ f.op = "Close" => ~NoClose(Transcript(before, queued))
        /\ ClosesAlike(before, c, queued)
    BY <1>1, <2>1, <2>2, AppendClose DEF ClosesAlike
  <2>11. Proceeds(before, c, queued)
    BY <2>1, <2>6, <2>7 DEF Proceeds
  <2>8. ~IsMessage(f) => Keeps(before, c, queued)
    BY <1>1, <2>2, AppendControl DEF Keeps
  <2>9. IsMessage(f) => Takes(before, c, queued, f)
    BY <1>1, <2>2, AppendMessage DEF Takes
  <2>10. IF IsMessage(f) THEN OneMore(c, queued) ELSE NoMore(c, queued)
    <3>1. /\ Waiting(queued.ws.out) = Waiting(c.ws.out) + IF IsMessage(f) THEN 1 ELSE 0
          /\ Waiting(c.ws.out) \in Nat
      BY <1>1, <2>1, WaitingFacts
    <3>2. QED
      BY <3>1 DEF OneMore, NoMore
  <2>12. QED
    BY <1>1, <2>1, <2>7, <2>8, <2>9, <2>10, <2>11
<1> HIDE DEF queued
<1>5. CASE Len(c.ws.out) < MaxOut /\ Len(c.ws.out) < WriteLen /\ d = queued
  <2>1. /\ queued.ws.out \in Seq(Frames) /\ Len(queued.ws.out) = Len(c.ws.out) + 1
        /\ queued.res = "Ok"
    BY <1>4, <1>5
  <2>2. Waiting(queued.ws.out) \in Nat /\ Waiting(queued.ws.out) <= Len(queued.ws.out)
    BY <2>1, WaitingFacts
  <2>3. Waiting(d.ws.out) <= WriteLen
    BY <1>1, <1>5, <2>1, <2>2, BufferAssumption
  <2>4. Fills(before, c, d, f)
    BY <1>4, <1>5, <2>1, <2>3 DEF Fills
  <2>5. QED
    BY <1>4, <1>5, <2>1, <2>4
<1>6. CASE Len(c.ws.out) < MaxOut /\ \E x \in write_out_buffer(queued) : d = check_connection_reset(x)
  <2>1. PICK x \in write_out_buffer(queued) : d = check_connection_reset(x)
    BY <1>6
  <2>2. Consistent(queued.ws, Transcript(before, queued))
    BY <1>4, <1>6 DEF Proceeds
  <2>3. /\ Continues(before, queued, x) /\ x.res # "ConnectionClosed"
        /\ x.res = "Ok" => x.ws.out = <<>>
        /\ x.ws.additional = c.ws.additional
    BY <1>4, <1>6, <2>1, <2>2, WriteOut
  <2>4. x.ws \in WebSockets
    BY <2>3 DEF Continues, Proceeds, Consistent
  <2>5. /\ Continues(before, queued, d) /\ d.ws = x.ws
        /\ d.res = "Ok" => d.ws.out = <<>>
    BY <2>1, <2>3, <2>4, ResetCheck
  <2>6. /\ Proceeds(before, c, queued) /\ Proceeds(before, queued, d) /\ Keeps(before, queued, d)
        /\ d.res \in {"Ok", "WouldBlock", "ConnectionClosed", "Io"}
    BY <1>4, <1>6, <2>5 DEF Continues
  <2>7. Proceeds(before, c, d)
    BY <2>6, ProceedsOn
  <2>8. ~IsMessage(f) => Keeps(before, c, d)
    BY <1>4, <1>6, <2>6 DEF Keeps
  <2>9. IsMessage(f) => Takes(before, c, d, f)
    <3>1. \A taken \in Seq(Frames) : Append(taken, f) \in Seq(Frames)
      BY <1>1, AppendProperties
    <3>2. QED
      BY <1>4, <1>6, <2>6, <3>1 DEF Keeps, Takes
  <2>10. Fills(before, c, d, f)
    <3>1. d.res = "Ok" => Waiting(d.ws.out) <= WriteLen
      BY <1>1, <2>5, WaitingFacts, BufferAssumption
    <3>2. IF IsMessage(f) THEN OneMore(c, d) ELSE NoMore(c, d)
      BY <1>4, <1>6, <2>5 DEF Continues, NoMore, OneMore
    <3>3. f.op = "Close" => ~NoClose(Transcript(before, d))
      BY <1>4, <1>6, <2>6 DEF Proceeds, ClosesAlike
    <3>4. c.ws.state = "Active" => d.ws.state = "Active"
      BY <1>4, <1>6, <2>5 DEF Continues
    <3>5. QED
      BY <2>6, <3>1, <3>2, <3>3, <3>4 DEF Fills
  <2>11. QED
    BY <2>3, <2>5, <2>6, <2>7, <2>8, <2>9, <2>10
<1>7. QED
  BY <1>2, <1>3, <1>5, <1>6

LEMMA WriteAdditional ==
    ASSUME NEW before \in Seq(Frames), NEW c \in Calls, c.res = "Ok",
           Consistent(c.ws, Transcript(before, c)),
           NEW d \in write_additional(c)
    PROVE  /\ Continues(before, c, d)
           /\ Len(c.ws.out) < MaxOut => d.ws.additional = NoFrame
<1>1. CASE c.ws.additional = NoFrame
  <2>1. d = [c EXCEPT !.should_flush = c.ws.unflushed]
    BY <1>1 DEF write_additional
  <2>2. /\ d \in Calls /\ d.ws = c.ws /\ d.sent = c.sent /\ d.room = c.room
        /\ d.role = c.role /\ d.up = c.up /\ d.msg = c.msg /\ d.res = "Ok"
    BY <2>1 DEF Calls, WebSockets
  <2>3. QED
    BY <1>1, <2>2, SameFrames DEF Continues, Proceeds
<1>2. CASE c.ws.additional # NoFrame
  <2> DEFINE f == c.ws.additional
             emptied == [c EXCEPT !.ws.additional = NoFrame]
  <2>1. /\ emptied \in Calls /\ emptied.sent = c.sent /\ emptied.room = c.room
        /\ emptied.role = c.role /\ emptied.up = c.up /\ emptied.msg = c.msg
        /\ emptied.res = "Ok" /\ emptied.ws \in WebSockets /\ c.ws \in WebSockets
        /\ emptied.ws.out = c.ws.out /\ emptied.ws.state = c.ws.state
        /\ emptied.ws.additional = NoFrame
    BY DEF Calls, WebSockets, Replies
  <2>2. f \in Frames /\ f.op \in {"Pong", "Close"} /\ (f.op = "Close" => f = CloseFrame)
    BY <1>2, <2>1, FrameFacts DEF WebSockets
  <2>3. PICK x \in buffer_frame(emptied, f) :
           d = IF x.res = "WriteBufferFull" THEN c ELSE [x EXCEPT !.should_flush = TRUE]
    BY <1>2 DEF write_additional
  <2> HIDE DEF emptied
  <2>4. Transcript(before, emptied) = Transcript(before, c)
    BY <2>1 DEF Transcript
  <2>5. Consistent(emptied.ws, Transcript(before, emptied))
    BY <2>1, <2>4, FrameFacts DEF Consistent
  <2>6. MayFollow(f, emptied.ws, Transcript(before, emptied))
    BY <2>1, <2>2, <2>4, FrameFacts DEF Consistent, MayFollow
  <2>7. ~IsMessage(f)
    BY <2>2 DEF IsMessage
  <2>8. /\ Proceeds(before, emptied, x) /\ Keeps(before, emptied, x)
        /\ x.res \in {"Ok", "WouldBlock", "WriteBufferFull", "ConnectionClosed", "Io"}
        /\ Fills(before, emptied, x, f) /\ x.ws.additional = NoFrame
    BY <2>1, <2>3, <2>5, <2>6, <2>7, BufferFrame
  <2>9. CASE x.res = "WriteBufferFull"
    BY <2>1, <2>3, <2>8, <2>9, SameFrames DEF Continues, Proceeds, Fills
  <2>10. CASE x.res # "WriteBufferFull"
    <3>1. x \in Calls
      BY <2>8 DEF Proceeds
    <3>2. /\ d \in Calls /\ d.ws = x.ws /\ d.sent = x.sent /\ d.room = x.room
          /\ d.role = x.role /\ d.up = x.up /\ d.msg = x.msg /\ d.res = x.res
      BY <2>3, <2>10, <3>1 DEF Calls
    <3>3. Transcript(before, d) = Transcript(before, x)
      BY <3>2 DEF Transcript
    <3>4. ClosesAlike(before, c, d)
      BY <2>2, <2>4, <2>8, <2>10, <3>3, FrameFacts DEF Proceeds, ClosesAlike, Fills
    <3>5. NoMore(c, d)
      BY <2>1, <2>7, <2>8, <3>2 DEF Fills, NoMore
    <3>6. Proceeds(before, c, d) /\ Keeps(before, c, d)
      BY <2>1, <2>4, <2>8, <3>2, <3>3, <3>4 DEF Proceeds, Keeps
    <3>7. QED
      BY <2>1, <2>8, <2>10, <3>2, <3>5, <3>6 DEF Continues, Fills
  <2>11. QED
    BY <2>9, <2>10
<1>3. QED
  BY <1>1, <1>2

LEMMA FinishServer ==
    ASSUME NEW before \in Seq(Frames), NEW c \in Calls, c.res = "Ok",
           Consistent(c.ws, Transcript(before, c)),
           NEW d \in finish_server(c)
    PROVE  Continues(before, c, d) /\ d.ws.additional = c.ws.additional
<1>1. CASE ~ServerDone(c)
  <2>1. d = c
    BY <1>1 DEF finish_server
  <2>2. QED
    BY <2>1, SameFrames DEF Continues, Proceeds, Keeps
<1>2. CASE ServerDone(c)
  <2>1. PICK x \in write_out_buffer(c) :
           d = x \/ (x.res = "Ok" /\ d = [x EXCEPT !.ws.state = "Terminated",
                                                !.res = "ConnectionClosed"])
    BY <1>2 DEF finish_server, Then, terminate
  <2>2. /\ Continues(before, c, x) /\ x \in Calls
        /\ x.ws.state = c.ws.state /\ (x.res = "Ok" => x.ws.out = <<>>)
        /\ x.ws.additional = c.ws.additional
    BY <2>1, WriteOut DEF Continues, Proceeds
  <2>3. CASE d = x
    BY <2>2, <2>3
  <2>4. CASE x.res = "Ok" /\ d = [x EXCEPT !.ws.state = "Terminated", !.res = "ConnectionClosed"]
    <3>1. /\ d \in Calls /\ d.sent = x.sent /\ d.room = x.room
          /\ d.role = x.role /\ d.up = x.up /\ d.msg = x.msg /\ d.res = "ConnectionClosed"
          /\ d.ws \in WebSockets /\ d.ws.state = "Terminated" /\ d.ws.out = x.ws.out
          /\ d.ws.additional = x.ws.additional
      BY <2>2, <2>4 DEF Calls, WebSockets, States, Results
    <3>2. Transcript(before, d) = Transcript(before, x)
      BY <3>1 DEF Transcript
    <3>3. Consistent(d.ws, Transcript(before, d))
      BY <2>2, <3>1, <3>2 DEF Continues, Proceeds, Consistent
    <3>4. ~CanRead(c.ws.state) /\ ~CanRead(d.ws.state)
      BY <1>2, <3>1 DEF ServerDone, CanRead
    <3>5. Keeps(before, x, d) /\ ClosesAlike(before, x, d) /\ NoMore(x, d)
      BY <3>1, SameFrames
    <3>6. Keeps(before, c, d) /\ ClosesAlike(before, c, d) /\ NoMore(c, d)
      BY <2>2, <3>5 DEF Continues, Proceeds, Keeps, ClosesAlike, NoMore
    <3>7. Proceeds(before, c, d)
      BY <2>2, <2>4, <3>1, <3>2, <3>3, <3>4, <3>6 DEF Continues, Proceeds
    <3>8. QED
      BY <2>2, <3>1, <3>4, <3>6, <3>7 DEF Continues, CanRead
  <2>5. QED
    BY <2>1, <2>3, <2>4
<1>3. QED
  BY <1>1, <1>2

(* What follows the frame of a write. *)
LEMMA AfterFrame ==
    ASSUME NEW before \in Seq(Frames), NEW c \in Calls, c.res = "Ok",
           Consistent(c.ws, Transcript(before, c)),
           NEW d \in Then(write_additional(c), finish_server)
    PROVE  /\ Continues(before, c, d)
           /\ Len(c.ws.out) < MaxOut => d.ws.additional = NoFrame
<1>1. PICK x \in write_additional(c) : d = x \/ (x.res = "Ok" /\ d \in finish_server(x))
  BY DEF Then
<1>2. /\ Continues(before, c, x) /\ x \in Calls /\ Consistent(x.ws, Transcript(before, x))
      /\ Len(c.ws.out) < MaxOut => x.ws.additional = NoFrame
  BY <1>1, WriteAdditional DEF Continues, Proceeds
<1>3. CASE x.res = "Ok" /\ d \in finish_server(x)
  BY <1>2, <1>3, FinishServer, ContinuesOn
<1>4. QED
  BY <1>1, <1>2, <1>3

LEMMA WriteNothing ==
    ASSUME NEW before \in Seq(Frames), NEW c \in Calls, c.res = "Ok",
           Consistent(c.ws, Transcript(before, c)),
           NEW d \in write_frame(c, NoFrame)
    PROVE  /\ Continues(before, c, d)
           /\ Len(c.ws.out) < MaxOut => d.ws.additional = NoFrame
<1>1. d \in Then(write_additional(c), finish_server)
  BY DEF write_frame, Then
<1>2. QED
  BY <1>1, AfterFrame

LEMMA FlushStream ==
    ASSUME NEW before \in Seq(Frames), NEW c \in Calls, c.res = "Ok",
           Consistent(c.ws, Transcript(before, c)),
           NEW d \in flush_stream(c)
    PROVE  /\ Continues(before, c, d) /\ d.res \in {"Ok", "Io"}
           /\ d.ws.out = c.ws.out /\ d.ws.additional = c.ws.additional
<1>1. d = IF c.up THEN [c EXCEPT !.ws.unflushed = FALSE] ELSE [c EXCEPT !.res = "Io"]
  BY DEF flush_stream, Fail
<1>2. /\ d \in Calls /\ d.ws \in WebSockets /\ d.sent = c.sent /\ d.room = c.room
      /\ d.role = c.role /\ d.up = c.up /\ d.msg = c.msg /\ d.ws.state = c.ws.state
      /\ d.ws.out = c.ws.out /\ d.ws.additional = c.ws.additional
      /\ d.res = IF c.up THEN "Ok" ELSE "Io"
  BY <1>1 DEF Calls, WebSockets, Results
<1>3. Transcript(before, d) = Transcript(before, c)
  BY <1>2 DEF Transcript
<1>4. QED
  BY <1>2, <1>3, SameFrames DEF Continues, Proceeds, Consistent

(* A flush that says Ok has emptied the buffer; what waited to be queued   *)
(* no longer does, if there was space.                                     *)
LEMMA Flush ==
    ASSUME NEW before \in Seq(Frames), NEW c \in Calls, c.res = "Ok",
           Consistent(c.ws, Transcript(before, c)),
           NEW d \in flush(c)
    PROVE  /\ Continues(before, c, d) /\ (d.res = "Ok" => d.ws.out = <<>>)
           /\ Len(c.ws.out) < MaxOut => d.ws.additional = NoFrame
<1>1. PICK x \in write_frame(c, NoFrame) :
         \/ d = x /\ x.res # "Ok"
         \/ /\ x.res = "Ok"
            /\ \E y \in write_out_buffer(x) :
                  (d = y /\ y.res # "Ok") \/ (y.res = "Ok" /\ d \in flush_stream(y))
  BY DEF flush, Then
<1>2. /\ Continues(before, c, x) /\ x \in Calls /\ Consistent(x.ws, Transcript(before, x))
      /\ Len(c.ws.out) < MaxOut => x.ws.additional = NoFrame
  BY WriteNothing DEF Continues, Proceeds
<1>3. CASE d = x /\ x.res # "Ok"
  BY <1>2, <1>3
<1>4. ASSUME x.res = "Ok", NEW y \in write_out_buffer(x),
             (d = y /\ y.res # "Ok") \/ (y.res = "Ok" /\ d \in flush_stream(y))
      PROVE  /\ Continues(before, c, d) /\ (d.res = "Ok" => d.ws.out = <<>>)
             /\ d.ws.additional = x.ws.additional
  <2>1. /\ Continues(before, x, y) /\ y \in Calls /\ Consistent(y.ws, Transcript(before, y))
        /\ y.res = "Ok" => y.ws.out = <<>>
        /\ y.ws.additional = x.ws.additional
    BY <1>2, <1>4, WriteOut DEF Continues, Proceeds
  <2>2. Continues(before, c, y)
    BY <1>2, <2>1, ContinuesOn
  <2>3. CASE y.res = "Ok" /\ d \in flush_stream(y)
    BY <2>1, <2>2, <2>3, FlushStream, ContinuesOn
  <2>4. QED
    BY <1>4, <2>1, <2>2, <2>3
<1>5. QED
  BY <1>1, <1>2, <1>3, <1>4

(* What a write has filled, the calls after it do not fill further. *)
LEMMA FillsOn ==
    ASSUME NEW before, NEW c, NEW x, NEW d, NEW f, Fills(before, c, x, f), x.res = "Ok",
           Continues(before, x, d)
    PROVE  Fills(before, c, d, f)
<1>1. d.res # "WriteBufferFull" /\ WriteLen \in Nat
  BY BufferAssumption DEF Continues
<1>2. IF IsMessage(f) THEN OneMore(c, d) ELSE NoMore(c, d)
  BY DEF Fills, Continues, NoMore, OneMore
<1>3. IsMessage(f) => Waiting(d.ws.out) <= WriteLen
  BY <1>1 DEF Fills, Continues, NoMore
<1>4. f.op = "Close" => ~NoClose(Transcript(before, d))
  BY DEF Fills, Continues, Proceeds, ClosesAlike
<1>5. QED
  BY <1>1, <1>2, <1>3, <1>4 DEF Fills, Continues

LEMMA WriteFrame ==
    ASSUME NEW before \in Seq(Frames), NEW c \in Calls, c.res = "Ok",
           Consistent(c.ws, Transcript(before, c)),
           NEW f, MayFollow(f, c.ws, Transcript(before, c)),
           NEW d \in write_frame(c, f)
    PROVE  /\ Proceeds(before, c, d)
           /\ d.res \in {"Ok", "WouldBlock", "WriteBufferFull", "ConnectionClosed", "Io"}
           /\ d.res = "WriteBufferFull" => Keeps(before, c, d)
           /\ ~IsMessage(f) => Keeps(before, c, d)
           /\ IsMessage(f) /\ d.res # "WriteBufferFull" => Takes(before, c, d, f)
           /\ Fills(before, c, d, f)
<1>1. f # NoFrame /\ f \in Frames
  BY FrameFacts DEF MayFollow
<1>2. PICK x \in buffer_frame(c, f) :
         d = x \/ (x.res = "Ok" /\ d \in Then(write_additional(x), finish_server))
  BY <1>1 DEF write_frame, Then
<1>3. /\ Proceeds(before, c, x)
      /\ x.res \in {"Ok", "WouldBlock", "WriteBufferFull", "ConnectionClosed", "Io"}
      /\ x.res = "WriteBufferFull" => Keeps(before, c, x)
      /\ ~IsMessage(f) => Keeps(before, c, x)
      /\ IsMessage(f) /\ x.res # "WriteBufferFull" => Takes(before, c, x, f)
      /\ Fills(before, c, x, f)
  BY <1>2, BufferFrame
<1>4. CASE d = x
  BY <1>3, <1>4
<1>5. CASE x.res = "Ok" /\ d \in Then(write_additional(x), finish_server)
  <2>1. Continues(before, x, d)
    BY <1>3, <1>5, AfterFrame DEF Proceeds
  <2>2. Proceeds(before, c, d) /\ Keeps(before, x, d)
    BY <1>3, <2>1, ProceedsOn DEF Continues
  <2>3. d.res \in {"Ok", "WouldBlock", "ConnectionClosed", "Io"}
    BY <2>1 DEF Continues
  <2>4. ~IsMessage(f) => Keeps(before, c, d)
    BY <1>3, <2>2 DEF Keeps
  <2>5. IsMessage(f) => Takes(before, c, d, f)
    <3>1. \A taken \in Seq(Frames) : Append(taken, f) \in Seq(Frames)
      BY <1>1, AppendProperties
    <3>2. QED
      BY <1>3, <1>5, <2>2, <3>1 DEF Keeps, Takes
  <2>6. Fills(before, c, d, f)
    BY <1>3, <1>5, <2>1, <2>3, FillsOn
  <2>7. QED
    BY <2>2, <2>3, <2>4, <2>5, <2>6
<1>6. QED
  BY <1>2, <1>4, <1>5

(* With s sent and queued, this is to send a Close if it is asked to. *)
MustClose(ws, s) == ws.state = "Active" \/ ws.additional = CloseFrame \/ ~NoClose(s)

LEMMA Closing ==
    ASSUME NEW before \in Seq(Frames), NEW c \in Calls, c.res = "Ok",
           Consistent(c.ws, Transcript(before, c)),
           NEW d \in close(c)
    PROVE  /\ Proceeds(before, c, d) /\ Keeps(before, c, d)
           /\ d.res \in {"Ok", "WouldBlock", "WriteBufferFull", "ConnectionClosed", "Io"}
           /\ d.ws.state # "Active"
           /\ d.res = "Ok" => d.ws.out = <<>>
           /\ NoMore(c, d)
           /\ Len(c.ws.out) < MaxOut /\ MustClose(c.ws, Transcript(before, c)) =>
                 ~NoClose(Transcript(before, d))
<1>1. CASE c.ws.state # "Active"
  <2>1. d \in flush(c)
    BY <1>1 DEF close
  <2>2. /\ Continues(before, c, d) /\ (d.res = "Ok" => d.ws.out = <<>>)
        /\ Len(c.ws.out) < MaxOut => d.ws.additional = NoFrame
    BY <2>1, Flush
  <2>3. Len(c.ws.out) < MaxOut /\ MustClose(c.ws, Transcript(before, c)) =>
           ~NoClose(Transcript(before, d))
    BY <1>1, <2>2, FrameFacts DEF MustClose, Continues, Proceeds, ClosesAlike
  <2>4. QED
    BY <1>1, <2>2, <2>3 DEF Continues, Proceeds
<1>2. CASE c.ws.state = "Active"
  <2> DEFINE b == [c EXCEPT !.ws.state = "ClosedByUs"]
  <2>1. /\ b \in Calls /\ b.sent = c.sent /\ b.room = c.room
        /\ b.role = c.role /\ b.up = c.up /\ b.msg = c.msg /\ b.res = "Ok"
        /\ b.ws \in WebSockets /\ c.ws \in WebSockets /\ b.ws.state = "ClosedByUs"
        /\ b.ws.out = c.ws.out /\ b.ws.additional = c.ws.additional
    BY DEF Calls, WebSockets, States
  <2>2. PICK x \in write_frame(b, CloseFrame) :
           \/ d = x /\ x.res # "Ok"
           \/ x.res = "Ok" /\ d \in flush(x)
    BY <1>2 DEF close, Then
  <2> HIDE DEF b
  <2>3. Transcript(before, b) = Transcript(before, c)
    BY <2>1 DEF Transcript
  <2>4. Consistent(b.ws, Transcript(before, b))
    BY <1>2, <2>1, <2>3 DEF Consistent
  <2>5. MayFollow(CloseFrame, b.ws, Transcript(before, b)) /\ ~IsMessage(CloseFrame)
    BY <1>2, <2>1, <2>3, FrameFacts DEF Consistent, MayFollow, IsMessage
  <2>6. /\ Proceeds(before, b, x) /\ Keeps(before, b, x)
        /\ x.res \in {"Ok", "WouldBlock", "WriteBufferFull", "ConnectionClosed", "Io"}
        /\ Fills(before, b, x, CloseFrame)
    BY <2>1, <2>2, <2>4, <2>5, WriteFrame
  <2>7. Proceeds(before, c, b) /\ Keeps(before, c, b) /\ NoMore(c, b)
    BY <1>2, <2>1, <2>3, <2>4, SameFrames DEF Proceeds, CanRead
  <2>8. Proceeds(before, c, x) /\ Keeps(before, c, x) /\ x.ws.state # "Active"
    BY <2>1, <2>6, <2>7, ProceedsOn DEF Keeps, Proceeds
  <2>9. /\ NoMore(c, x)
        /\ Len(c.ws.out) < MaxOut => ~NoClose(Transcript(before, x))
    BY <2>1, <2>5, <2>6, <2>7, FrameFacts DEF Fills, NoMore
  <2>10. CASE x.res = "Ok" /\ d \in flush(x)
    <3>1. Continues(before, x, d) /\ (d.res = "Ok" => d.ws.out = <<>>)
      BY <2>8, <2>10, Flush DEF Proceeds
    <3>2. Proceeds(before, c, d) /\ Keeps(before, c, d) /\ d.ws.state # "Active"
      BY <2>8, <3>1, ProceedsOn DEF Continues, Keeps, Proceeds
    <3>3. /\ NoMore(c, d)
          /\ Len(c.ws.out) < MaxOut => ~NoClose(Transcript(before, d))
      BY <2>9, <3>1 DEF Continues, Proceeds, NoMore, ClosesAlike
    <3>4. QED
      BY <3>1, <3>2, <3>3 DEF Continues
  <2>11. QED
    BY <2>2, <2>6, <2>8, <2>9, <2>10
<1>3. QED
  BY <1>1, <1>2

LEMMA OneMoreFits == ASSUME NEW c, NEW d, NoMore(c, d), d.ws.out \in Seq(Frames)
                     PROVE  OneMore(c, d)
<1>1. Waiting(d.ws.out) \in Nat
  BY WaitingFacts
<1>2. QED
  BY <1>1 DEF NoMore, OneMore

(* write takes the message exactly if start_send is right to say so. *)
LEMMA Write ==
    ASSUME NEW before \in Seq(Frames), NEW c \in Calls, c.res = "Ok",
           Consistent(c.ws, Transcript(before, c)),
           NEW f \in Frames, IsMessage(f) \/ f.op = "Close",
           NEW d \in write(c, f)
    PROVE  /\ Proceeds(before, c, d)
           /\ ~IsMessage(f) => Keeps(before, c, d)
           /\ IsMessage(f) /\ Queued(d) => c.ws.state = "Active" /\ Takes(before, c, d, f)
           /\ IsMessage(f) /\ ~Queued(d) /\ c.up => Keeps(before, c, d)
           /\ IF IsMessage(f) /\ (Queued(d) \/ ~c.up) THEN OneMore(c, d) ELSE NoMore(c, d)
           /\ IsMessage(f) /\ d.res = "Ok" => Waiting(d.ws.out) <= WriteLen
           /\ IsMessage(f) /\ c.ws.state = "Active" => d.ws.state = "Active"
           /\ ~IsMessage(f) /\ c.ws.state = "Active" =>
                 /\ d.ws.state # "Active"
                 /\ Len(c.ws.out) < MaxOut => ~NoClose(Transcript(before, d))
<1>1. ASSUME NEW r \in {"AlreadyClosed", "SendAfterClosing"}, d = Fail(c, r)
      PROVE  /\ Proceeds(before, c, d) /\ Keeps(before, c, d) /\ ~Queued(d)
             /\ NoMore(c, d) /\ OneMore(c, d)
  <2>1. /\ d \in Calls /\ d.ws = c.ws /\ d.sent = c.sent /\ d.room = c.room
        /\ d.role = c.role /\ d.up = c.up /\ d.msg = c.msg /\ d.res = r
    BY <1>1 DEF Calls, Results, Fail
  <2>2. QED
    <3>1. NoMore(c, d) /\ d.ws.out \in Seq(Frames)
      BY <2>1, SameFrames, TranscriptType
    <3>2. QED
      BY <2>1, <3>1, SameFrames, OneMoreFits DEF Proceeds, Queued
<1>2. CASE c.ws.state # "Active"
  <2>1. d = Fail(c, "AlreadyClosed") \/ d = Fail(c, "SendAfterClosing")
    BY <1>2 DEF write
  <2>2. QED
    BY <1>1, <1>2, <2>1 DEF Queued
<1>3. CASE c.ws.state = "Active" /\ f.op = "Close"
  <2>1. d \in close(c) /\ ~IsMessage(f)
    BY <1>3 DEF write, IsMessage
  <2>2. QED
    BY <1>3, <2>1, Closing DEF MustClose
<1>4. CASE c.ws.state = "Active" /\ f.op # "Close"
  <2>1. IsMessage(f)
    BY <1>4
  <2>2. PICK x \in write_frame(c, f) :
           \/ d = x /\ x.res # "Ok"
           \/ x.res = "Ok" /\ (d = x \/ d \in flush(x))
    BY <1>4 DEF write, Then, flush_if_needed
  <2>3. MayFollow(f, c.ws, Transcript(before, c))
    BY <1>4 DEF MayFollow, Consistent
  <2>4. /\ Proceeds(before, c, x)
        /\ x.res \in {"Ok", "WouldBlock", "WriteBufferFull", "ConnectionClosed", "Io"}
        /\ x.res = "WriteBufferFull" => Keeps(before, c, x)
        /\ x.res # "WriteBufferFull" => Takes(before, c, x, f)
        /\ Fills(before, c, x, f)
    BY <2>1, <2>2, <2>3, WriteFrame
  <2>5. x.res # "ConnectionClosed" /\ (x.res = "Io" => ~c.up)
    BY <1>4, <2>4 DEF Proceeds, CanRead
  <2>6. CASE d = x
    <3>1. x \in Calls /\ x.ws.out \in Seq(Frames)
      BY <2>4, TranscriptType DEF Proceeds
    <3>2. NoMore(c, x) => OneMore(c, x)
      BY <3>1, OneMoreFits
    <3>3. QED
      BY <1>4, <2>1, <2>4, <2>5, <2>6, <3>2 DEF Queued, Fills
  <2>7. CASE x.res = "Ok" /\ d \in flush(x)
    <3>1. Continues(before, x, d)
      BY <2>4, <2>7, Flush DEF Proceeds
    <3>2. Proceeds(before, c, d) /\ Keeps(before, x, d)
      BY <2>4, <3>1, ProceedsOn DEF Continues
    <3>3. Takes(before, c, d, f)
      <4>1. \A taken \in Seq(Frames) : Append(taken, f) \in Seq(Frames)
        BY AppendProperties
      <4>2. QED
        BY <2>4, <2>7, <3>2, <4>1 DEF Keeps, Takes
    <3>4. d.res \in {"Ok", "WouldBlock"} \/ ~c.up
      BY <1>4, <3>1, <3>2 DEF Continues, Proceeds, CanRead
    <3>5. Fills(before, c, d, f) /\ d.res # "WriteBufferFull"
      BY <2>4, <2>7, <3>1, FillsOn DEF Continues
    <3>6. QED
      BY <1>4, <2>1, <3>2, <3>3, <3>4, <3>5 DEF Queued, Fills
  <2>8. QED
    BY <2>2, <2>6, <2>7
<1>5. QED
  BY <1>2, <1>3, <1>4

(* What poll_next may rely on: a frame that arrived is read, or, after the *)
(* peer's Close, an error; only a Close makes an open connection unreadable*)
(* without ending the Stream; and a normal end is that of a closed one.    *)
Receives(before, c, d, rx, eof) ==
    /\ d \in Calls /\ Consistent(d.ws, Transcript(before, d)) /\ Keeps(before, c, d)
    /\ d.room + Len(d.sent) = c.room + Len(c.sent)
    /\ ~c.up => d.sent = c.sent
    /\ d.ws.state = "Active" => c.ws.state = "Active"
    /\ d.msg = NoFrame => d.res # "Ok"
    /\ d.msg # NoFrame =>
          /\ rx # <<>> /\ d.msg = Head(rx)
          /\ IF CanRead(c.ws.state) THEN d.res = "Ok" ELSE d.res = "Protocol"
    /\ ~CanRead(d.ws.state) => ~CanRead(c.ws.state) \/ d.msg.op = "Close" \/ Ends(d)
    /\ NormalEnd(d) => ~CanRead(c.ws.state)
    /\ ClosesAlike(before, c, d) /\ NoMore(c, d)
    /\ c.ws.state = "Active" /\ d.ws.state # "Active" =>
          d.ws.additional = CloseFrame \/ eof

LEMMA OnFrame ==
    ASSUME NEW before \in Seq(Frames), NEW c \in Calls, c.res = "Ok",
           Consistent(c.ws, Transcript(before, c)),
           NEW rx \in Seq(Frames), NEW eof, rx # <<>>
    PROVE  Receives(before, c, on_frame(c, Head(rx)), rx, eof)
<1> DEFINE f == Head(rx)
           d == [c EXCEPT !.msg = f]
           e == on_frame(c, f)
<1>1. f \in Frames /\ f # NoFrame
  BY HeadTailProperties, FrameFacts
<1>2. /\ d \in Calls /\ d.ws = c.ws /\ d.sent = c.sent /\ d.room = c.room
      /\ d.role = c.role /\ d.up = c.up /\ d.msg = f /\ d.res = "Ok"
      /\ c.ws \in WebSockets
  BY <1>1 DEF Calls
<1> HIDE DEF f, d, e
<1>3. /\ e \in Calls /\ e.sent = c.sent /\ e.room = c.room /\ e.msg = f
      /\ e.ws \in WebSockets /\ e.ws.out = c.ws.out
      /\ e.ws.state = "Active" => c.ws.state = "Active"
      /\ e.res = IF CanRead(c.ws.state) THEN "Ok" ELSE "Protocol"
      /\ ~CanRead(e.ws.state) => ~CanRead(c.ws.state) \/ f.op = "Close"
      /\ e.ws.additional = c.ws.additional \/ c.ws.state = "Active"
      /\ e.ws.state = "Active" => e.ws.additional # CloseFrame
      /\ c.ws.state = "Active" /\ e.ws.state # "Active" => e.ws.additional = CloseFrame
  <2>1. CASE ~CanRead(c.ws.state)
    <3>1. e = [d EXCEPT !.res = "Protocol"]
      BY <2>1 DEF on_frame, Fail, CanRead, d, e
    <3>2. QED
      BY <1>2, <2>1, <3>1 DEF Calls, Results, CanRead
  <2>2. CASE c.ws.state = "Active" /\ f.op = "Close"
    <3> DEFINE b == [d EXCEPT !.ws.state = "ClosedByPeer"]
    <3>1. e = set_additional(b, CloseFrame)
      BY <2>2 DEF on_frame, CanRead, d, e
    <3>2. \/ e = b /\ b.ws.additional.op \notin {"None", "Pong"}
          \/ e = [b EXCEPT !.ws.additional = CloseFrame]
      BY <3>1 DEF set_additional
    <3>3. /\ b \in Calls /\ b.ws \in WebSockets /\ b.ws.state = "ClosedByPeer"
          /\ b.ws.out = c.ws.out /\ b.sent = c.sent /\ b.room = c.room /\ b.msg = f
          /\ b.res = "Ok" /\ b.ws.additional = c.ws.additional
      BY <1>2 DEF Calls, WebSockets, States
    <3> HIDE DEF b
    <3>4. /\ e \in Calls /\ e.sent = c.sent /\ e.room = c.room /\ e.msg = f /\ e.res = "Ok"
          /\ e.ws \in WebSockets /\ e.ws.state = "ClosedByPeer" /\ e.ws.out = c.ws.out
          /\ e.ws.additional = CloseFrame
      <4>1. CloseFrame \in Replies
        BY DEF Replies
      <4>2. b.ws.additional.op \in {"None", "Pong"}
        <5>1. c.ws.additional \in Replies /\ c.ws.additional # CloseFrame
          BY <1>2, <2>2 DEF Consistent, WebSockets
        <5>2. QED
          BY <3>3, <5>1, FrameFacts
      <4>3. CASE e = [b EXCEPT !.ws.additional = CloseFrame]
        BY <3>3, <4>1, <4>3 DEF Calls, WebSockets
      <4>4. QED
        BY <3>2, <4>2, <4>3
    <3>5. QED
      BY <2>2, <3>4 DEF CanRead
  <2>3. CASE c.ws.state = "ClosedByUs" /\ f.op = "Close"
    <3>1. e = [d EXCEPT !.ws.state = "CloseAcknowledged"]
      BY <2>3 DEF on_frame, CanRead, d, e
    <3>2. QED
      BY <1>2, <2>3, <3>1 DEF Calls, WebSockets, States, CanRead
  <2>4. CASE c.ws.state = "Active" /\ f.op = "Ping"
    <3>1. e = set_additional(d, Pong(f))
      BY <2>4 DEF on_frame, CanRead, d, e
    <3>2. e = d \/ e = [d EXCEPT !.ws.additional = Pong(f)]
      BY <3>1 DEF set_additional
    <3>3. Pong(f) \in Replies /\ Pong(f) # CloseFrame
      BY <1>1, FrameFacts
    <3>4. c.ws.additional # CloseFrame
      BY <2>4 DEF Consistent
    <3>5. d.ws.additional = c.ws.additional /\ d.ws.state = "Active" /\ d.ws \in WebSockets
      BY <1>2, <2>4
    <3>6. CASE e = d
      BY <1>2, <2>4, <3>4, <3>6 DEF CanRead
    <3>7. CASE e = [d EXCEPT !.ws.additional = Pong(f)]
      <4>1. /\ e \in Calls /\ e.sent = d.sent /\ e.room = d.room /\ e.msg = d.msg /\ e.res = d.res
            /\ e.ws \in WebSockets /\ e.ws.state = d.ws.state /\ e.ws.out = d.ws.out
            /\ e.ws.additional = Pong(f)
        BY <1>2, <3>3, <3>5, <3>7 DEF Calls, WebSockets
      <4>2. QED
        BY <1>2, <2>4, <3>3, <4>1 DEF CanRead
    <3>8. QED
      BY <3>2, <3>6, <3>7
  <2>5. CASE CanRead(c.ws.state) /\ f.op # "Close" /\ ~(c.ws.state = "Active" /\ f.op = "Ping")
    <3>1. e = d
      BY <2>5 DEF on_frame, CanRead, d, e
    <3>2. QED
      BY <1>2, <2>5, <3>1 DEF Consistent
  <2>6. QED
    BY <2>1, <2>2, <2>3, <2>4, <2>5 DEF CanRead
<1>4. Transcript(before, e) = Transcript(before, c)
  BY <1>3 DEF Transcript
<1>5. Consistent(e.ws, Transcript(before, e))
  BY <1>3, <1>4 DEF Consistent
<1>6. Keeps(before, c, e) /\ ClosesAlike(before, c, e) /\ NoMore(c, e)
  BY <1>3, <1>4 DEF Keeps, ClosesAlike, NoMore, Consistent
<1>7. Receives(before, c, e, rx, eof)
  BY <1>1, <1>3, <1>5, <1>6 DEF Receives, NormalEnd, f
<1>8. QED
  BY <1>7 DEF e, f

LEMMA ReadMessageFrame ==
    ASSUME NEW before \in Seq(Frames), NEW c \in Calls, c.res = "Ok", c.msg = NoFrame,
           Consistent(c.ws, Transcript(before, c)),
           NEW rx \in Seq(Frames), NEW eof \in BOOLEAN,
           NEW d \in read_message_frame(c, rx, eof)
    PROVE  Receives(before, c, d, rx, eof)
<1>1. CASE rx # <<>>
  BY <1>1, OnFrame DEF read_message_frame
<1>2. ASSUME NEW r \in {"Io", "ConnectionClosed", "WouldBlock"}, d = Fail(c, r),
             r = "ConnectionClosed" => ~CanRead(c.ws.state)
      PROVE  Receives(before, c, d, rx, eof)
  <2>1. /\ d \in Calls /\ d.ws = c.ws /\ d.sent = c.sent /\ d.room = c.room
        /\ d.msg = NoFrame /\ d.res = r
    BY <1>2 DEF Calls, Results, Fail
  <2>2. QED
    BY <1>2, <2>1, SameFrames DEF Receives, NormalEnd
<1>3. CASE rx = <<>> /\ ~c.up
  <2>1. d = check_connection_reset(Fail(c, "Io"))
    BY <1>3 DEF read_message_frame
  <2>2. /\ Fail(c, "Io").res = "Io" /\ Fail(c, "Io").ws = c.ws
        /\ Fail(Fail(c, "Io"), "ConnectionClosed") = Fail(c, "ConnectionClosed")
    BY DEF Calls, Fail
  <2>3. \/ d = Fail(c, "ConnectionClosed") /\ ~CanRead(c.ws.state)
        \/ d = Fail(c, "Io")
    BY <2>1, <2>2 DEF check_connection_reset
  <2>4. QED
    BY <1>2, <2>3
<1>4. CASE rx = <<>> /\ c.up /\ ~eof
  <2>1. d = Fail(c, "WouldBlock")
    BY <1>4 DEF read_message_frame
  <2>2. QED
    BY <1>2, <2>1
<1>5. CASE rx = <<>> /\ c.up /\ eof
  <2> DEFINE r == IF CanRead(c.ws.state) THEN "Protocol" ELSE "ConnectionClosed"
  <2>1. d = [[c EXCEPT !.ws.state = "Terminated"] EXCEPT !.res = r]
    BY <1>5 DEF read_message_frame, Fail
  <2>2. /\ d \in Calls /\ d.sent = c.sent /\ d.room = c.room
        /\ d.msg = NoFrame /\ d.res = r /\ d.ws \in WebSockets
        /\ d.ws.state = "Terminated" /\ d.ws.out = c.ws.out /\ d.ws.additional = c.ws.additional
    BY <2>1 DEF Calls, WebSockets, States, Results
  <2>3. Transcript(before, d) = Transcript(before, c)
    BY <2>2 DEF Transcript
  <2>4. Consistent(d.ws, Transcript(before, d))
    BY <2>2, <2>3 DEF Consistent
  <2>5. QED
    BY <1>5, <2>2, <2>4, SameFrames DEF Receives, NormalEnd, Ends
<1>6. QED
  BY <1>1, <1>3, <1>4, <1>5

LEMMA Read ==
    ASSUME NEW before \in Seq(Frames), NEW c \in Calls, c.res = "Ok", c.msg = NoFrame,
           Consistent(c.ws, Transcript(before, c)),
           NEW rx \in Seq(Frames), NEW eof \in BOOLEAN,
           NEW d \in read(c, rx, eof)
    PROVE  Receives(before, c, d, rx, eof)
<1>1. CASE c.ws.state = "Terminated"
  <2>1. d = Fail(c, "AlreadyClosed")
    BY <1>1 DEF read
  <2>2. /\ d \in Calls /\ d.ws = c.ws /\ d.sent = c.sent /\ d.room = c.room
        /\ d.msg = NoFrame /\ d.res = "AlreadyClosed"
    BY <2>1 DEF Calls, Results, Fail
  <2>3. QED
    BY <1>1, <2>2, SameFrames DEF Receives, CanRead
<1>2. ASSUME NEW x \in Calls, Continues(before, c, x), x.res = "Ok",
             d \in read_message_frame(x, rx, eof)
      PROVE  Receives(before, c, d, rx, eof)
  <2>1. x.msg = NoFrame /\ Consistent(x.ws, Transcript(before, x))
    BY <1>2 DEF Continues, Proceeds
  <2>2. Receives(before, x, d, rx, eof)
    BY <1>2, <2>1, ReadMessageFrame
  <2>3. Keeps(before, c, d) /\ ClosesAlike(before, c, d) /\ NoMore(c, d)
    BY <1>2, <2>2 DEF Receives, Continues, Proceeds, Keeps, ClosesAlike, NoMore
  <2>4. QED
    BY <1>2, <2>2, <2>3, ReadMessageFrame DEF Receives, Continues, Proceeds
<1>3. CASE /\ c.ws.state # "Terminated" /\ (c.ws.additional # NoFrame \/ c.ws.unflushed)
  <2> DEFINE pass(y) == IF y.res = "WouldBlock"
                        THEN [y EXCEPT !.res = "Ok", !.ws.unflushed = TRUE] ELSE y
  <2>1. PICK y \in flush(c) :
           \/ pass(y).res # "Ok" /\ d = pass(y)
           \/ pass(y).res = "Ok" /\ d \in read_message_frame(pass(y), rx, eof)
    BY <1>3, ZenonT(60) DEF read, flush_reply, Then
  <2>2. Continues(before, c, y) /\ y \in Calls
    BY <2>1, Flush DEF Continues, Proceeds
  <2>3. /\ Continues(before, c, pass(y)) /\ pass(y) \in Calls
        /\ pass(y).res # "Ok" => pass(y).res \in {"ConnectionClosed", "Io"}
    <3>1. CASE y.res = "WouldBlock"
      <4>1. pass(y) = [y EXCEPT !.res = "Ok", !.ws.unflushed = TRUE]
        BY <3>1
      <4> DEFINE z == pass(y)
      <4>2. /\ z \in Calls /\ z.ws \in WebSockets /\ z.sent = y.sent /\ z.room = y.room
            /\ z.role = y.role /\ z.up = y.up /\ z.msg = y.msg /\ z.ws.state = y.ws.state
            /\ z.ws.out = y.ws.out /\ z.ws.additional = y.ws.additional /\ z.res = "Ok"
        BY <2>2, <4>1 DEF Calls, WebSockets, Results
      <4> HIDE DEF z, pass
      <4>3. Transcript(before, z) = Transcript(before, y)
        BY <4>2 DEF Transcript
      <4>4. Continues(before, c, z)
        <5>1. Keeps(before, y, z) /\ ClosesAlike(before, y, z) /\ NoMore(y, z)
          BY <4>2, SameFrames
        <5>2. Keeps(before, c, z) /\ ClosesAlike(before, c, z) /\ NoMore(c, z)
          BY <2>2, <5>1 DEF Continues, Proceeds, Keeps, ClosesAlike, NoMore
        <5>3. QED
          BY <2>2, <4>2, <4>3, <5>2 DEF Continues, Proceeds, Consistent
      <4>5. QED
        BY <4>2, <4>4 DEF z
    <3>2. CASE y.res # "WouldBlock"
      <4>1. pass(y) = y
        BY <3>2
      <4> HIDE DEF pass
      <4>2. QED
        BY <2>2, <3>2, <4>1 DEF Continues
    <3>3. QED
      BY <3>1, <3>2
  <2> HIDE DEF pass
  <2>4. CASE pass(y).res # "Ok" /\ d = pass(y)
    <3>1. Continues(before, c, d) /\ d.res \in {"ConnectionClosed", "Io"} /\ d.msg = NoFrame
      BY <2>3, <2>4 DEF Continues, Proceeds
    <3>2. QED
      BY <3>1 DEF Receives, Continues, Proceeds, NormalEnd
  <2>5. CASE pass(y).res = "Ok" /\ d \in read_message_frame(pass(y), rx, eof)
    BY <1>2, <2>3, <2>5
  <2>6. QED
    BY <2>1, <2>4, <2>5
<1>4. CASE /\ c.ws.state # "Terminated" /\ c.ws.additional = NoFrame /\ ~c.ws.unflushed
           /\ ServerDone(c)
  <2>1. d = [c EXCEPT !.ws.state = "Terminated", !.res = "ConnectionClosed"]
    BY <1>4 DEF read, terminate
  <2>2. /\ d \in Calls /\ d.sent = c.sent /\ d.room = c.room
        /\ d.msg = NoFrame /\ d.res = "ConnectionClosed" /\ d.ws \in WebSockets
        /\ d.ws.state = "Terminated" /\ d.ws.out = c.ws.out /\ d.ws.additional = c.ws.additional
    BY <2>1 DEF Calls, WebSockets, States, Results
  <2>3. Transcript(before, d) = Transcript(before, c)
    BY <2>2 DEF Transcript
  <2>4. Consistent(d.ws, Transcript(before, d))
    BY <2>2, <2>3 DEF Consistent
  <2>5. QED
    BY <1>4, <2>2, <2>4, SameFrames DEF Receives, NormalEnd, Ends, ServerDone, CanRead
<1>5. CASE /\ c.ws.state # "Terminated" /\ c.ws.additional = NoFrame /\ ~c.ws.unflushed
           /\ ~ServerDone(c)
  <2>1. d \in read_message_frame(c, rx, eof)
    BY <1>5 DEF read
  <2>2. Continues(before, c, c)
    BY SameFrames DEF Continues, Proceeds, Keeps
  <2>3. QED
    BY <1>2, <2>1, <2>2
<1>6. QED
  BY <1>1, <1>3, <1>4, <1>5
=============================================================================
