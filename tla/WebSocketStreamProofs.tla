------------------------ MODULE WebSocketStreamProofs ------------------------
(***************************************************************************)
(* Proofs about WebSocketStream, for any buffers, transports, messages and *)
(* faults: what the Sink took arrives, once and in order, or is still on   *)
(* its way; a flush reported complete is; and a normal end says that       *)
(* everything has come.                                                    *)
(***************************************************************************)
EXTENDS WebSocketCalls

(* A part of what was taken, without a gap. *)
InOrder(s, taken) ==
    /\ \A i \in 1..Len(s) : IsMessage(s[i]) => \E k \in 1..Len(taken) : s[i] = taken[k]
    /\ \A i, j \in 1..Len(s) :
          i < j /\ IsMessage(s[i]) /\ IsMessage(s[j]) => s[i].id < s[j].id
    /\ \A i \in 1..Len(s) : IsMessage(s[i]) /\ s[i].id > 1 =>
          \E j \in 1..Len(s) : j < i /\ IsMessage(s[j]) /\ s[j].id = s[i].id - 1

NoMessage(s) == \A i \in 1..Len(s) : ~IsMessage(s[i])

(* h finds the frames of t in s, in this order, and leaves out those of q. *)
Embeds(h, t, s, q) ==
    /\ \A i \in 1..Len(t) : h[i] \in 1..Len(s) /\ t[i] = s[h[i]]
    /\ \A i, j \in 1..Len(t) : i < j => h[i] < h[j]
    /\ \A j \in 1..Len(s) :
          (\E i \in 1..Len(t) : h[i] = j) \/ (\E i \in 1..Len(q) : s[j] = q[i])
-----------------------------------------------------------------------------
LEMMA CarriesLen ==
    ASSUME NEW s \in Seq(Frames), NEW taken \in Seq(Frames)
    PROVE  Carries(s, taken) <=>
             /\ \A i \in 1..Len(s) : IsMessage(s[i]) => \E k \in 1..Len(taken) : s[i] = taken[k]
             /\ \A k \in 1..Len(taken) : \E i \in 1..Len(s) : s[i] = taken[k]
             /\ \A i, j \in 1..Len(s) :
                   i < j /\ IsMessage(s[i]) /\ IsMessage(s[j]) => s[i].id < s[j].id
<1>1. DOMAIN s = 1..Len(s) /\ DOMAIN taken = 1..Len(taken)
  OBVIOUS
<1>2. QED
  BY <1>1 DEF Carries

(* Taking q out of the middle: the frames that stay keep their order. *)
LEMMA Thinning ==
    ASSUME NEW p \in Seq(Frames), NEW q \in Seq(Frames), NEW r \in Seq(Frames)
    PROVE  \E h : Embeds(h, p \o r, p \o (q \o r), q)
<1> DEFINE s == p \o (q \o r)
           t == p \o r
<1>1. PICK a, b, c \in Nat : a = Len(p) /\ b = Len(q) /\ c = Len(r)
  BY LenProperties
<1>2. /\ t \in Seq(Frames) /\ Len(t) = a + c
      /\ \A i \in 1..(a + c) : t[i] = IF i <= a THEN p[i] ELSE r[i - a]
  BY <1>1, ConcatProperties
<1>3. /\ q \o r \in Seq(Frames) /\ Len(q \o r) = b + c
      /\ \A i \in 1..(b + c) : (q \o r)[i] = IF i <= b THEN q[i] ELSE r[i - b]
  BY <1>1, ConcatProperties
<1>4. /\ s \in Seq(Frames) /\ Len(s) = a + (b + c)
      /\ \A i \in 1..(a + (b + c)) : s[i] = IF i <= a THEN p[i] ELSE (q \o r)[i - a]
  BY <1>1, <1>3, ConcatProperties
<1>5. /\ \A i \in 1..a : s[i] = p[i]
      /\ \A i \in 1..b : s[a + i] = q[i]
      /\ \A i \in 1..c : s[a + (b + i)] = r[i]
  <2>1. ASSUME NEW i \in 1..a PROVE s[i] = p[i]
    <3>1. i \in 1..(a + (b + c)) /\ i <= a
      OBVIOUS
    <3>2. QED
      BY <1>4, <3>1
  <2>2. ASSUME NEW i \in 1..b PROVE s[a + i] = q[i]
    <3>1. a + i \in 1..(a + (b + c)) /\ ~(a + i <= a) /\ (a + i) - a = i /\ i \in 1..(b + c) /\ i <= b
      OBVIOUS
    <3>2. QED
      BY <1>3, <1>4, <3>1
  <2>3. ASSUME NEW i \in 1..c PROVE s[a + (b + i)] = r[i]
    <3>1. /\ a + (b + i) \in 1..(a + (b + c)) /\ ~(a + (b + i) <= a) /\ (a + (b + i)) - a = b + i
          /\ b + i \in 1..(b + c) /\ ~(b + i <= b) /\ (b + i) - b = i
      OBVIOUS
    <3>2. QED
      BY <1>3, <1>4, <3>1
  <2>4. QED
    BY <2>1, <2>2, <2>3
<1> HIDE DEF s, t
<1> DEFINE h == [i \in 1..(a + c) |-> IF i <= a THEN i ELSE i + b]
<1>6. \A i \in 1..Len(t) : h[i] \in 1..Len(s)
  BY <1>2, <1>4
<1>7. \A i \in 1..Len(t) : t[i] = s[h[i]]
  <2> SUFFICES ASSUME NEW i \in 1..(a + c) PROVE t[i] = s[h[i]]
    BY <1>2
  <2>1. CASE i <= a
    BY <1>2, <1>5, <2>1
  <2>2. CASE ~(i <= a)
    <3>1. i - a \in 1..c /\ a + (b + (i - a)) = i + b
      BY <2>2
    <3>2. h[i] = i + b /\ t[i] = r[i - a]
      BY <1>2, <2>2
    <3>3. s[a + (b + (i - a))] = r[i - a]
      BY <1>5, <3>1
    <3>4. QED
      BY <3>1, <3>2, <3>3
  <2>3. QED
    BY <2>1, <2>2
<1>8. \A i, j \in 1..Len(t) : i < j => h[i] < h[j]
  BY <1>2
<1>9. ASSUME NEW j \in 1..Len(s)
      PROVE  (\E i \in 1..Len(t) : h[i] = j) \/ (\E i \in 1..Len(q) : s[j] = q[i])
  <2>1. CASE j <= a
    <3>1. j \in 1..(a + c) /\ h[j] = j
      BY <1>4, <2>1
    <3>2. QED
      BY <1>2, <3>1
  <2>2. CASE a < j /\ j <= a + b
    <3>1. j - a \in 1..b /\ a + (j - a) = j
      BY <1>4, <2>2
    <3>2. s[j] = q[j - a]
      BY <1>5, <3>1
    <3>3. QED
      BY <1>1, <3>1, <3>2
  <2>3. CASE a + b < j
    <3>1. j - b \in 1..(a + c) /\ ~(j - b <= a) /\ (j - b) + b = j
      BY <1>4, <2>3
    <3>2. h[j - b] = j
      BY <3>1
    <3>3. QED
      BY <1>2, <3>1, <3>2
  <2>4. j \in Nat /\ (j <= a \/ (a < j /\ j <= a + b) \/ a + b < j)
    BY <1>4
  <2>5. QED
    BY <2>1, <2>2, <2>3, <2>4
<1> HIDE DEF h
<1>10. Embeds(h, t, s, q)
  BY <1>6, <1>7, <1>8, <1>9 DEF Embeds
<1>11. QED
  BY <1>10 DEF s, t

LEMMA ThinClose ==
    ASSUME NEW p \in Seq(Frames), NEW q \in Seq(Frames), NEW r \in Seq(Frames)
    PROVE  /\ OneClose(p \o (q \o r)) => OneClose(p \o r)
           /\ NoClose(p \o (q \o r)) => NoClose(p \o r)
<1> DEFINE s == p \o (q \o r)
           t == p \o r
<1>1. PICK h : Embeds(h, t, s, q)
  BY Thinning
<1> HIDE DEF s, t
<1>2. ASSUME OneClose(s), NEW i \in 1..Len(t), NEW j \in 1..Len(t), i < j, t[i].op = "Close"
      PROVE  t[j].op = "Pong"
  <2>1. /\ h[i] \in 1..Len(s) /\ t[i] = s[h[i]]
        /\ h[j] \in 1..Len(s) /\ t[j] = s[h[j]]
        /\ h[i] < h[j]
    BY <1>1, <1>2 DEF Embeds
  <2>2. QED
    BY <1>2, <2>1 DEF OneClose
<1>3. NoClose(s) => NoClose(t)
  BY <1>1 DEF NoClose, Embeds
<1>4. QED
  BY <1>2, <1>3 DEF s, t, OneClose

LEMMA ThinMessages ==
    ASSUME NEW p \in Seq(Frames), NEW q \in Seq(Frames), NEW r \in Seq(Frames),
           NoMessage(q), NEW taken \in Seq(Frames), Numbered(taken)
    PROVE  /\ Carries(p \o (q \o r), taken) => Carries(p \o r, taken)
           /\ InOrder(p \o (q \o r), taken) => InOrder(p \o r, taken)
<1> DEFINE s == p \o (q \o r)
           t == p \o r
<1>1. PICK h : Embeds(h, t, s, q)
  BY Thinning
<1>2. s \in Seq(Frames) /\ t \in Seq(Frames)
  BY ConcatProperties
<1> HIDE DEF s, t
<1>3. \A j \in 1..Len(s) : IsMessage(s[j]) => \E i \in 1..Len(t) : h[i] = j
  BY <1>1 DEF NoMessage, Embeds
<1>4. ASSUME NEW i \in 1..Len(t), NEW j \in 1..Len(t), h[i] < h[j] PROVE i < j
  <2>1. i < j \/ i = j \/ j < i
    BY <1>2
  <2>2. h[i] \in Nat /\ h[j] \in Nat /\ (j < i => h[j] < h[i])
    BY <1>1, <1>2 DEF Embeds
  <2>3. QED
    BY <1>4, <2>1, <2>2
<1>5. ASSUME Carries(s, taken) PROVE Carries(t, taken)
  <2>1. /\ \A i \in 1..Len(s) : IsMessage(s[i]) => \E k \in 1..Len(taken) : s[i] = taken[k]
        /\ \A k \in 1..Len(taken) : \E i \in 1..Len(s) : s[i] = taken[k]
        /\ \A i, j \in 1..Len(s) :
              i < j /\ IsMessage(s[i]) /\ IsMessage(s[j]) => s[i].id < s[j].id
    BY <1>2, <1>5, CarriesLen
  <2>2. ASSUME NEW i \in 1..Len(t), IsMessage(t[i])
        PROVE  \E k \in 1..Len(taken) : t[i] = taken[k]
    <3>1. h[i] \in 1..Len(s) /\ t[i] = s[h[i]]
      BY <1>1 DEF Embeds
    <3>2. \E k \in 1..Len(taken) : s[h[i]] = taken[k]
      BY <2>1, <2>2, <3>1
    <3>3. QED
      BY <3>1, <3>2
  <2>3. ASSUME NEW k \in 1..Len(taken) PROVE \E i \in 1..Len(t) : t[i] = taken[k]
    <3>1. PICK j \in 1..Len(s) : s[j] = taken[k]
      BY <2>1
    <3>2. CASE \E i \in 1..Len(t) : h[i] = j
      BY <1>1, <3>1, <3>2 DEF Embeds
    <3>3. CASE \E i \in 1..Len(q) : s[j] = q[i]
      <4>1. ~IsMessage(taken[k])
        BY <3>1, <3>3 DEF NoMessage
      <4>2. QED
        BY <4>1 DEF Numbered
    <3>4. QED
      BY <1>1, <3>2, <3>3 DEF Embeds
  <2>4. ASSUME NEW i \in 1..Len(t), NEW j \in 1..Len(t), i < j, IsMessage(t[i]), IsMessage(t[j])
        PROVE  t[i].id < t[j].id
    <3>1. /\ h[i] \in 1..Len(s) /\ t[i] = s[h[i]]
          /\ h[j] \in 1..Len(s) /\ t[j] = s[h[j]]
          /\ h[i] < h[j]
      BY <1>1, <2>4 DEF Embeds
    <3>2. QED
      BY <2>1, <2>4, <3>1
  <2>5. QED
    BY <1>2, <2>2, <2>3, <2>4, CarriesLen
<1>6. ASSUME InOrder(s, taken) PROVE InOrder(t, taken)
  <2>1. ASSUME NEW i \in 1..Len(t), IsMessage(t[i]), t[i].id > 1
        PROVE  \E j \in 1..Len(t) : j < i /\ IsMessage(t[j]) /\ t[j].id = t[i].id - 1
    <3>0. h[i] \in 1..Len(s) /\ t[i] = s[h[i]]
      BY <1>1 DEF Embeds
    <3>1. PICK j \in 1..Len(s) : j < h[i] /\ IsMessage(s[j]) /\ s[j].id = s[h[i]].id - 1
      BY <1>6, <2>1, <3>0 DEF InOrder
    <3>2. PICK k \in 1..Len(t) : h[k] = j
      BY <1>3, <3>1
    <3>3. k < i
      BY <1>4, <3>1, <3>2
    <3>4. t[k] = s[j]
      BY <1>1, <3>2 DEF Embeds
    <3>5. QED
      BY <3>0, <3>1, <3>3, <3>4
  <2>2. ASSUME NEW i \in 1..Len(t), IsMessage(t[i])
        PROVE  \E k \in 1..Len(taken) : t[i] = taken[k]
    <3>1. h[i] \in 1..Len(s) /\ t[i] = s[h[i]]
      BY <1>1 DEF Embeds
    <3>2. \E k \in 1..Len(taken) : s[h[i]] = taken[k]
      BY <1>6, <2>2, <3>1 DEF InOrder
    <3>3. QED
      BY <3>1, <3>2
  <2>3. ASSUME NEW i \in 1..Len(t), NEW j \in 1..Len(t), i < j, IsMessage(t[i]), IsMessage(t[j])
        PROVE  t[i].id < t[j].id
    <3>1. /\ h[i] \in 1..Len(s) /\ t[i] = s[h[i]]
          /\ h[j] \in 1..Len(s) /\ t[j] = s[h[j]]
          /\ h[i] < h[j]
      BY <1>1, <2>3 DEF Embeds
    <3>2. QED
      BY <1>6, <2>3, <3>1 DEF InOrder
  <2>4. QED
    BY <2>1, <2>2, <2>3 DEF InOrder
<1>7. QED
  BY <1>5, <1>6 DEF s, t

LEMMA Front ==
    ASSUME NEW p \in Seq(Frames), NEW q \in Seq(Frames)
    PROVE  /\ p \o q \in Seq(Frames) /\ Len(p) \in Nat /\ Len(q) \in Nat
           /\ Len(p \o q) = Len(p) + Len(q)
           /\ \A i \in 1..Len(p) : i \in 1..Len(p \o q) /\ (p \o q)[i] = p[i]
           /\ \A i \in 1..Len(q) :
                 Len(p) + i \in 1..Len(p \o q) /\ (p \o q)[Len(p) + i] = q[i]
<1>1. PICK a, b \in Nat : a = Len(p) /\ b = Len(q)
  BY LenProperties
<1>2. /\ p \o q \in Seq(Frames) /\ Len(p \o q) = a + b
      /\ \A i \in 1..(a + b) : (p \o q)[i] = IF i <= a THEN p[i] ELSE q[i - a]
  BY <1>1, ConcatProperties
<1>3. ASSUME NEW i \in 1..a PROVE i \in 1..(a + b) /\ (p \o q)[i] = p[i]
  <2>1. i \in 1..(a + b) /\ i <= a
    OBVIOUS
  <2>2. QED
    BY <1>2, <2>1
<1>4. ASSUME NEW i \in 1..b PROVE a + i \in 1..(a + b) /\ (p \o q)[a + i] = q[i]
  <2>1. a + i \in 1..(a + b) /\ ~(a + i <= a) /\ (a + i) - a = i
    OBVIOUS
  <2>2. QED
    BY <1>2, <2>1
<1>5. QED
  BY <1>1, <1>2, <1>3, <1>4

(* What the first of the messages carried are, is in order. *)
LEMMA FrontInOrder ==
    ASSUME NEW p \in Seq(Frames), NEW q \in Seq(Frames), NEW taken \in Seq(Frames),
           Numbered(taken), Carries(p \o q, taken)
    PROVE  InOrder(p, taken)
<1> DEFINE s == p \o q
<1>1. /\ \A i \in 1..Len(s) : IsMessage(s[i]) => \E k \in 1..Len(taken) : s[i] = taken[k]
      /\ \A k \in 1..Len(taken) : \E i \in 1..Len(s) : s[i] = taken[k]
      /\ \A i, j \in 1..Len(s) :
            i < j /\ IsMessage(s[i]) /\ IsMessage(s[j]) => s[i].id < s[j].id
  BY Front, CarriesLen
<1>2. /\ s \in Seq(Frames) /\ Len(p) \in Nat /\ Len(s) \in Nat /\ Len(taken) \in Nat
      /\ \A i \in 1..Len(p) : i \in 1..Len(s) /\ s[i] = p[i]
  BY Front, LenProperties
<1> HIDE DEF s
<1>3. ASSUME NEW i \in 1..Len(p), IsMessage(p[i]), p[i].id > 1
      PROVE  \E j \in 1..Len(p) : j < i /\ IsMessage(p[j]) /\ p[j].id = p[i].id - 1
  <2>1. PICK k \in 1..Len(taken) : p[i] = taken[k]
    BY <1>1, <1>2, <1>3
  <2>2. p[i].id = k /\ k > 1
    BY <1>3, <2>1 DEF Numbered
  <2>3. k - 1 \in 1..Len(taken)
    BY <1>2, <2>2
  <2>4. PICK j \in 1..Len(s) : s[j] = taken[k - 1]
    BY <1>1, <2>3
  <2>5. IsMessage(s[j]) /\ s[j].id = k - 1
    BY <2>3, <2>4 DEF Numbered
  <2>6. i \in 1..Len(s) /\ s[i] = p[i]
    BY <1>2
  <2>7. ~(i < j) /\ i # j
    <3>1. ~(k < k - 1) /\ k # k - 1
      BY <1>2
    <3>2. QED
      BY <1>1, <1>3, <2>2, <2>5, <2>6, <3>1
  <2>8. j < i /\ j \in 1..Len(p)
    BY <1>2, <2>6, <2>7
  <2>9. s[j] = p[j]
    BY <1>2, <2>8
  <2>10. QED
    BY <2>2, <2>5, <2>8, <2>9
<1>4. QED
  BY <1>1, <1>2, <1>3 DEF InOrder

LEMMA FrontOfOrder ==
    ASSUME NEW p \in Seq(Frames), NEW q \in Seq(Frames), NEW taken \in Seq(Frames),
           InOrder(p \o q, taken)
    PROVE  InOrder(p, taken)
<1> DEFINE s == p \o q
<1>1. /\ s \in Seq(Frames) /\ Len(p) \in Nat /\ Len(s) \in Nat
      /\ \A i \in 1..Len(p) : i \in 1..Len(s) /\ s[i] = p[i]
  BY Front, LenProperties
<1>2. InOrder(s, taken)
  OBVIOUS
<1> HIDE DEF s
<1>3. ASSUME NEW i \in 1..Len(p), IsMessage(p[i]), p[i].id > 1
      PROVE  \E j \in 1..Len(p) : j < i /\ IsMessage(p[j]) /\ p[j].id = p[i].id - 1
  <2>1. PICK j \in 1..Len(s) : j < i /\ IsMessage(s[j]) /\ s[j].id = p[i].id - 1
    BY <1>1, <1>2, <1>3 DEF InOrder
  <2>2. j \in 1..Len(p)
    BY <1>1, <2>1
  <2>3. QED
    BY <1>1, <2>1, <2>2
<1>4. QED
  BY <1>1, <1>2, <1>3, SMTT(60) DEF InOrder

(* Only Pongs follow a Close. *)
LEMMA BehindClose ==
    ASSUME NEW p \in Seq(Frames), NEW q \in Seq(Frames), OneClose(p \o q), ~NoClose(p)
    PROVE  (\A i \in 1..Len(q) : q[i].op = "Pong") /\ NoMessage(q)
<1> DEFINE s == p \o q
<1>1. /\ s \in Seq(Frames) /\ Len(p) \in Nat /\ Len(q) \in Nat
      /\ \A i \in 1..Len(p) : i \in 1..Len(s) /\ s[i] = p[i]
      /\ \A i \in 1..Len(q) : Len(p) + i \in 1..Len(s) /\ s[Len(p) + i] = q[i]
  BY Front
<1>2. OneClose(s)
  OBVIOUS
<1> HIDE DEF s
<1>3. PICK i \in 1..Len(p) : p[i].op = "Close"
  BY DEF NoClose
<1>4. ASSUME NEW j \in 1..Len(q) PROVE q[j].op = "Pong"
  <2>1. i < Len(p) + j
    BY <1>1
  <2>2. QED
    BY <1>1, <1>2, <1>3, <2>1 DEF OneClose
<1>5. QED
  BY <1>4 DEF NoMessage, IsMessage

LEMMA CloseStays ==
    ASSUME NEW p \in Seq(Frames), NEW q \in Seq(Frames), ~NoClose(p)
    PROVE  ~NoClose(p \o q)
  BY Front DEF NoClose

LEMMA NoCloseJoined ==
    ASSUME NEW p \in Seq(Frames), NEW q \in Seq(Frames)
    PROVE  NoClose(p \o q) <=> NoClose(p) /\ NoClose(q)
<1> DEFINE s == p \o q
<1>1. /\ s \in Seq(Frames) /\ Len(s) = Len(p) + Len(q) /\ Len(p) \in Nat /\ Len(q) \in Nat
      /\ \A i \in 1..Len(p) : i \in 1..Len(s) /\ s[i] = p[i]
      /\ \A i \in 1..Len(q) : Len(p) + i \in 1..Len(s) /\ s[Len(p) + i] = q[i]
  BY Front, ConcatProperties
<1> HIDE DEF s
<1>2. ASSUME NoClose(s) PROVE NoClose(p) /\ NoClose(q)
  BY <1>1, <1>2 DEF NoClose
<1>3. ASSUME NoClose(p), NoClose(q), NEW i \in 1..Len(s) PROVE s[i].op # "Close"
  <2>1. CASE i \in 1..Len(p)
    BY <1>1, <1>3, <2>1 DEF NoClose
  <2>2. CASE i \notin 1..Len(p)
    <3>1. i - Len(p) \in 1..Len(q) /\ Len(p) + (i - Len(p)) = i
      BY <1>1, <2>2
    <3>2. s[Len(p) + (i - Len(p))] = q[i - Len(p)]
      BY <1>1, <3>1
    <3>3. QED
      BY <1>3, <3>1, <3>2 DEF NoClose
  <2>3. QED
    BY <2>1, <2>2
<1>4. QED
  BY <1>2, <1>3 DEF NoClose, s

LEMMA InOrderStays ==
    ASSUME NEW s \in Seq(Frames), NEW taken \in Seq(Frames), NEW f \in Frames,
           InOrder(s, taken)
    PROVE  InOrder(s, Append(taken, f))
<1>1. /\ Len(Append(taken, f)) = Len(taken) + 1 /\ Len(taken) \in Nat
      /\ \A k \in 1..Len(taken) : Append(taken, f)[k] = taken[k]
  BY AppendProperties
<1>2. \A k \in 1..Len(taken) : k \in 1..Len(Append(taken, f))
  BY <1>1
<1>3. QED
  BY <1>1, <1>2 DEF InOrder
-----------------------------------------------------------------------------
(* One direction of a connection: ws is the WebSocket that sends, before   *)
(* what it has written and is not lost, taken what its Sink took, live     *)
(* that nothing can have been lost.                                        *)
Flow(ws, before, taken, live) ==
    /\ before \in Seq(Frames) /\ taken \in Seq(Frames) /\ Numbered(taken)
    /\ Consistent(ws, before \o ws.out)
    /\ InOrder(before, taken)
    /\ ~NoClose(before) => Carries(before, taken)
    /\ live => Carries(before \o ws.out, taken)

LEMMA FlowFacts ==
    ASSUME NEW ws, NEW before, NEW taken, NEW live, Flow(ws, before, taken, live)
    PROVE  /\ ws \in WebSockets /\ ws.out \in Seq(Frames)
           /\ before \o ws.out \in Seq(Frames)
           /\ ws.state = "Active" => NoClose(before)
<1>1. ws \in WebSockets /\ ws.out \in Seq(Frames) /\ before \in Seq(Frames)
  BY DEF Flow, Consistent, WebSockets
<1>2. ws.state = "Active" => NoClose(before)
  BY <1>1, CloseStays DEF Flow, Consistent
<1>3. QED
  BY <1>1, <1>2, ConcatProperties

(* A call that moves and adds frames. *)
LEMMA FlowSend ==
    ASSUME NEW ws, NEW before, NEW taken, NEW live \in BOOLEAN,
           Flow(ws, before, taken, live),
           NEW c \in Calls, Consistent(c.ws, Transcript(before, c)),
           NEW taken2 \in Seq(Frames), Numbered(taken2),
           live => Carries(Transcript(before, c), taken2),
           \/ taken2 = taken
           \/ ws.state = "Active" /\ \E f \in Frames : taken2 = Append(taken, f)
    PROVE  Flow(c.ws, IF live THEN before \o c.sent ELSE before, taken2, live)
<1>1. /\ before \in Seq(Frames) /\ taken \in Seq(Frames)
      /\ c.sent \in Seq(Frames) /\ c.ws.out \in Seq(Frames)
  BY TranscriptType DEF Flow
<1>2. InOrder(before, taken2)
  BY <1>1, InOrderStays DEF Flow
<1>3. ~NoClose(before) => taken2 = taken
  BY FlowFacts
<1>4. CASE ~live
  <2>1. OneClose(before \o c.ws.out) /\ (NoClose(Transcript(before, c)) => NoClose(before \o c.ws.out))
    BY <1>1, ThinClose DEF Consistent, Transcript
  <2>2. Consistent(c.ws, before \o c.ws.out)
    BY <2>1 DEF Consistent
  <2>3. QED
    BY <1>1, <1>2, <1>3, <1>4, <2>2 DEF Flow
<1>5. CASE live
  <2> DEFINE after == before \o c.sent
  <2>1. after \in Seq(Frames) /\ Transcript(before, c) = after \o c.ws.out
    <3>1. after \in Seq(Frames)
      BY <1>1, ConcatProperties
    <3>2. (before \o c.sent) \o c.ws.out = before \o (c.sent \o c.ws.out)
      BY <1>1, Associative, ZenonT(60)
    <3>3. QED
      BY <3>1, <3>2 DEF Transcript
  <2> HIDE DEF after
  <2>2. Carries(after \o c.ws.out, taken2)
    BY <1>5, <2>1
  <2>3. InOrder(after, taken2)
    BY <1>1, <2>1, <2>2, FrontInOrder
  <2>4. ASSUME ~NoClose(after) PROVE Carries(after, taken2)
    <3>1. NoMessage(c.ws.out)
      BY <1>1, <2>1, <2>4, BehindClose DEF Consistent
    <3>2. /\ <<>> \in Seq(Frames) /\ after \o <<>> = after
          /\ c.ws.out \o <<>> = c.ws.out
      BY <1>1, <2>1, EmptySeq, ConcatEmptySeq
    <3>3. Carries(after \o (c.ws.out \o <<>>), taken2)
      BY <2>2, <3>2
    <3>4. Carries(after \o <<>>, taken2)
      BY <1>1, <2>1, <3>1, <3>2, <3>3, ThinMessages
    <3>5. QED
      BY <3>2, <3>4
  <2>5. QED
    BY <1>5, <2>1, <2>2, <2>3, <2>4 DEF Flow, after
<1>6. QED
  BY <1>4, <1>5

(* A frame that is no message is read and not returned. *)
LEMMA FlowSkip ==
    ASSUME NEW ws, NEW p \in Seq(Frames), NEW x \in Frames, x.op = "Pong",
           NEW q \in Seq(Frames), NEW taken, NEW live,
           Flow(ws, p \o (<<x>> \o q), taken, live)
    PROVE  Flow(ws, p \o q, taken, live)
<1> DEFINE one == <<x>>
<1>1. /\ one \in Seq(Frames) /\ NoMessage(one) /\ one \o q \in Seq(Frames)
      /\ \A i \in 1..Len(one) : one[i].op = "Pong"
      /\ p \o q \in Seq(Frames)
  <2>1. one \in Seq(Frames) /\ Len(one) = 1 /\ one[1] = x
    OBVIOUS
  <2>2. \A i \in 1..Len(one) : one[i].op = "Pong"
    BY <2>1
  <2>3. QED
    BY <2>1, <2>2, ConcatProperties DEF NoMessage, IsMessage
<1>2. Flow(ws, p \o (one \o q), taken, live)
  OBVIOUS
<1> HIDE DEF one
<1>3. /\ ws.out \in Seq(Frames) /\ taken \in Seq(Frames) /\ Numbered(taken) /\ q \o ws.out \in Seq(Frames)
  BY <1>2, FlowFacts, ConcatProperties DEF Flow
<1>4. /\ (p \o (one \o q)) \o ws.out = p \o (one \o (q \o ws.out))
      /\ (p \o q) \o ws.out = p \o (q \o ws.out)
  <2> DEFINE out == ws.out
  <2>1. out \in Seq(Frames) /\ one \in Seq(Frames) /\ one \o q \in Seq(Frames)
    BY <1>1, <1>3
  <2> HIDE DEF out
  <2>2. (p \o (one \o q)) \o out = p \o ((one \o q) \o out)
    BY <2>1, Associative, ZenonT(60)
  <2>3. (one \o q) \o out = one \o (q \o out)
    BY <2>1, Associative, ZenonT(60)
  <2>4. (p \o q) \o out = p \o (q \o out)
    BY <2>1, Associative, ZenonT(60)
  <2>5. QED
    BY <2>2, <2>3, <2>4 DEF out
<1>5. Consistent(ws, (p \o q) \o ws.out)
  <2> DEFINE s == p \o (one \o (q \o ws.out))
             t == p \o (q \o ws.out)
  <2>1. (OneClose(s) => OneClose(t)) /\ (NoClose(s) => NoClose(t))
    BY <1>1, <1>3, ThinClose
  <2>2. Consistent(ws, s)
    BY <1>2, <1>4 DEF Flow
  <2>3. Consistent(ws, t)
    BY <2>1, <2>2 DEF Consistent
  <2>4. QED
    BY <1>4, <2>3
<1>6. InOrder(p \o q, taken)
  BY <1>1, <1>2, <1>3, ThinMessages DEF Flow
<1>7. live => Carries((p \o q) \o ws.out, taken)
  <2> DEFINE rest == q \o ws.out
  <2>1. rest \in Seq(Frames) /\ (live => Carries(p \o (one \o rest), taken))
    BY <1>2, <1>3, <1>4 DEF Flow
  <2>2. (p \o q) \o ws.out = p \o rest
    BY <1>4
  <2> HIDE DEF rest
  <2>3. live => Carries(p \o rest, taken)
    BY <1>1, <1>3, <2>1, ThinMessages, SMTT(60)
  <2>4. QED
    BY <2>2, <2>3
<1>8. ASSUME ~NoClose(p \o q) PROVE Carries(p \o q, taken)
  <2>1. ~NoClose(p \o (one \o q))
    BY <1>1, <1>8, ThinClose
  <2>2. QED
    BY <1>1, <1>2, <1>3, <2>1, ThinMessages DEF Flow
<1>9. QED
  BY <1>1, <1>3, <1>5, <1>6, <1>7, <1>8 DEF Flow

(* The rest of what was written is lost. *)
LEMMA FlowLoss ==
    ASSUME NEW ws, NEW p \in Seq(Frames), NEW q \in Seq(Frames), NEW taken, NEW live,
           Flow(ws, p \o q, taken, live)
    PROVE  Flow(ws, p, taken, FALSE)
<1>1. /\ ws.out \in Seq(Frames) /\ taken \in Seq(Frames) /\ Numbered(taken)
      /\ (p \o q) \o ws.out = p \o (q \o ws.out) /\ q \o ws.out \in Seq(Frames)
  <2> DEFINE out == ws.out
  <2>1. out \in Seq(Frames) /\ taken \in Seq(Frames) /\ Numbered(taken)
    BY FlowFacts DEF Flow
  <2> HIDE DEF out
  <2>2. (p \o q) \o out = p \o (q \o out)
    BY <2>1, Associative, ZenonT(60)
  <2>3. q \o out \in Seq(Frames)
    BY <2>1, ConcatProperties
  <2>4. QED
    BY <2>1, <2>2, <2>3 DEF out
<1>2. Consistent(ws, p \o ws.out)
  BY <1>1, ThinClose DEF Flow, Consistent
<1>3. InOrder(p, taken)
  BY <1>1, FrontOfOrder DEF Flow
<1>4. ASSUME ~NoClose(p) PROVE Carries(p, taken)
  <2>1. Carries(p \o q, taken)
    BY <1>4, CloseStays DEF Flow
  <2>2. OneClose(p \o (q \o ws.out))
    BY <1>1 DEF Flow, Consistent
  <2>3. NoMessage(q \o ws.out)
    BY <1>1, <1>4, <2>2, BehindClose
  <2>4. NoMessage(q)
    BY <1>1, <2>3, Front DEF NoMessage
  <2>5. <<>> \in Seq(Frames) /\ p \o <<>> = p /\ q \o <<>> = q
    BY EmptySeq, ConcatEmptySeq
  <2>6. Carries(p \o <<>>, taken)
    BY <1>1, <2>1, <2>4, <2>5, ThinMessages
  <2>7. QED
    BY <2>5, <2>6
<1>5. QED
  BY <1>1, <1>2, <1>3, <1>4 DEF Flow
-----------------------------------------------------------------------------
(* Nothing that e writes can have been lost. *)
Live(e) == up /\ alive[Peer(e)]

Told == [flushed : Nat, closed : BOOLEAN, clean : BOOLEAN, full : BOOLEAN]

Types ==
    /\ inner \in [Endpoint -> WebSockets]
    /\ net \in [Endpoint -> Seq(Frames)] /\ \A e \in Endpoint : Len(net[e]) <= Cap
    /\ accepted \in [Endpoint -> Seq(Frames)] /\ yielded \in [Endpoint -> Seq(Frames)]
    /\ told \in [Endpoint -> Told]
    /\ ready \in [Endpoint -> BOOLEAN] /\ closing \in [Endpoint -> BOOLEAN]
    /\ ended \in [Endpoint -> BOOLEAN] /\ permit \in [Endpoint -> BOOLEAN]
    /\ alive \in [Endpoint -> BOOLEAN] /\ up \in BOOLEAN

Flows == \A e \in Endpoint : Flow(inner[e], Written(e), accepted[e], Live(e))

(* The messages of a Stream are numbered by their place. *)
Placed(s) ==
    \A i \in 1..Len(s) : s[i].op # "Pong" /\ (IsMessage(s[i]) => s[i].id = i)

Yields == \A e \in Endpoint : Placed(yielded[e])

(* A connection that cannot be read, while its Stream has not ended, has   *)
(* received a Close.                                                       *)
Endings ==
    \A e \in Endpoint :
        /\ ~CanRead(inner[e].state) /\ ~ended[e] => ~NoClose(yielded[e])
        /\ told[e].clean => ended[e] /\ ~NoClose(yielded[e])

FlushIsTrue(e) ==
    /\ told[e].flushed <= Len(accepted[e])
    /\ Live(e) => \A k \in 1..told[e].flushed :
          \E i \in 1..Len(Written(e)) : Written(e)[i] = accepted[e][k]

Flushes == \A e \in Endpoint : FlushIsTrue(e)

IInv == Types /\ Flows /\ Yields /\ Endings /\ Flushes
-----------------------------------------------------------------------------
LEMMA PeerFacts ==
    ASSUME NEW e \in Endpoint
    PROVE  /\ Peer(e) \in Endpoint /\ Peer(Peer(e)) = e /\ Peer(e) # e
           /\ \A x \in Endpoint : x = e \/ x = Peer(e)
  BY DEF Endpoint, Peer

LEMMA CallFacts ==
    ASSUME IInv, NEW e \in Endpoint
    PROVE  /\ CallOf(e) \in Calls /\ CallOf(e).res = "Ok" /\ CallOf(e).msg = NoFrame
           /\ CallOf(e).ws = inner[e] /\ CallOf(e).sent = <<>>
           /\ CallOf(e).room = Room(e) /\ CallOf(e).up = up
           /\ CallOf(e).room + Len(CallOf(e).sent) = Room(e)
           /\ Transcript(Written(e), CallOf(e)) = Written(e) \o inner[e].out
           /\ Consistent(CallOf(e).ws, Transcript(Written(e), CallOf(e)))
           /\ Written(e) \in Seq(Frames)
<1>1. /\ Peer(e) \in Endpoint /\ net[Peer(e)] \in Seq(Frames) /\ Len(net[Peer(e)]) <= Cap
      /\ Len(net[Peer(e)]) \in Nat /\ inner[e] \in WebSockets /\ inner[e].out \in Seq(Frames)
      /\ Len(inner[e].out) \in Nat /\ up \in BOOLEAN /\ Cap \in Nat
  BY PeerFacts, LenProperties, ConnectionAssumption DEF IInv, Types, WebSockets
<1>2. Room(e) \in Nat
  <2>1. PICK a, b, c \in Nat : a = Len(net[Peer(e)]) /\ b = Len(inner[e].out) /\ c = Cap
    BY <1>1
  <2>2. c - a \in Nat /\ b + 3 \in Nat
    BY <1>1, <2>1
  <2>3. QED
    BY <2>1, <2>2 DEF Room
<1>3. /\ CallOf(e) \in Calls /\ CallOf(e).res = "Ok" /\ CallOf(e).msg = NoFrame
      /\ CallOf(e).ws = inner[e] /\ CallOf(e).sent = <<>>
      /\ CallOf(e).room = Room(e) /\ CallOf(e).up = up
  BY <1>1, <1>2, EmptySeq DEF CallOf, NewCall, Calls, Results
<1>4. Len(<<>>) = 0 /\ Room(e) + 0 = Room(e) /\ <<>> \o inner[e].out = inner[e].out
  BY <1>1, <1>2, EmptySeq, ConcatEmptySeq
<1>5. Transcript(Written(e), CallOf(e)) = Written(e) \o inner[e].out
  BY <1>3, <1>4 DEF Transcript
<1>6. Flow(inner[e], Written(e), accepted[e], Live(e))
  BY DEF IInv, Flows
<1>7. QED
  BY <1>3, <1>4, <1>5, <1>6 DEF Flow

(* What a call of e leaves on the way to its peer. *)
LEMMA Sent ==
    ASSUME IInv, NEW e \in Endpoint, NEW c \in Calls,
           c.room + Len(c.sent) = Room(e), ~up => c.sent = <<>>,
           NEW net2, net2 = IF alive[Peer(e)] THEN net[Peer(e)] \o c.sent ELSE net[Peer(e)]
    PROVE  /\ net2 \in Seq(Frames) /\ Len(net2) <= Cap
           /\ yielded[Peer(e)] \o net2 = IF Live(e) THEN Written(e) \o c.sent ELSE Written(e)
<1> DEFINE n == net[Peer(e)]
           y == yielded[Peer(e)]
<1>1. /\ Peer(e) \in Endpoint /\ n \in Seq(Frames) /\ Len(n) <= Cap
      /\ Len(n) \in Nat /\ Len(c.sent) \in Nat /\ c.room \in Nat /\ c.sent \in Seq(Frames)
      /\ y \in Seq(Frames) /\ up \in BOOLEAN /\ alive[Peer(e)] \in BOOLEAN /\ Cap \in Nat
  BY PeerFacts, LenProperties, ConnectionAssumption DEF IInv, Types, Calls
<1>2. Written(e) = y \o n
  BY DEF Written
<1>3. CASE ~alive[Peer(e)]
  BY <1>1, <1>2, <1>3 DEF Live
<1>4. CASE alive[Peer(e)]
  <2>1. Room(e) = Cap - Len(n)
    BY <1>4 DEF Room
  <2> HIDE DEF n, y
  <2>2. net2 = n \o c.sent
    BY <1>4 DEF n
  <2>3. n \o c.sent \in Seq(Frames) /\ Len(n \o c.sent) = Len(n) + Len(c.sent)
    BY <1>1, ConcatProperties
  <2>4. Len(n) + Len(c.sent) <= Cap
    <3>1. PICK a, b, r, k \in Nat : a = Len(n) /\ b = Len(c.sent) /\ r = c.room /\ k = Cap
      BY <1>1
    <3>2. r + b = k - a
      BY <2>1, <3>1
    <3>3. a + b <= k
      BY <3>2
    <3>4. QED
      BY <3>1, <3>3
  <2>5. (y \o n) \o c.sent = y \o (n \o c.sent)
    BY <1>1, Associative, ZenonT(60)
  <2>6. net2 \in Seq(Frames) /\ Len(net2) <= Cap
    BY <2>2, <2>3, <2>4
  <2>7. yielded[Peer(e)] \o net2 = Written(e) \o c.sent
    BY <1>2, <2>2, <2>5 DEF y
  <2>8. CASE up
    <3>1. Live(e)
      BY <1>4, <2>8 DEF Live
    <3>2. QED
      BY <2>6, <2>7, <3>1
  <2>9. CASE ~up
    <3>1. ~Live(e)
      BY <2>9 DEF Live
    <3>2. n \o c.sent = n
      BY <1>1, <2>9, ConcatEmptySeq
    <3>3. yielded[Peer(e)] \o net2 = Written(e)
      BY <1>2, <2>2, <3>2 DEF y
    <3>4. QED
      BY <2>6, <3>1, <3>3
  <2>10. QED
    BY <2>8, <2>9
<1>5. QED
  BY <1>1, <1>3, <1>4
-----------------------------------------------------------------------------
(* What e's Sink may do: the call c, after which it has taken taken2.      *)
SinkCall(e, c, taken2) ==
    /\ Apply(e, c)
    /\ accepted' = [accepted EXCEPT ![e] = taken2]
    /\ UNCHANGED <<ended, up, alive, yielded>>
    /\ ready' \in [Endpoint -> BOOLEAN] /\ closing' \in [Endpoint -> BOOLEAN]
    /\ permit' \in [Endpoint -> BOOLEAN]
    /\ told' \in [Endpoint -> Told]
    /\ told'[Peer(e)] = told[Peer(e)] /\ told'[e].clean = told[e].clean
    /\ \/ told'[e].flushed = told[e].flushed
       \/ /\ told'[e].flushed = Len(accepted[e]) /\ taken2 = accepted[e]
          /\ Live(e) => c.ws.out = <<>>

LEMMA Applied ==
    ASSUME IInv, NEW e \in Endpoint, NEW c \in Calls, Apply(e, c),
           c.room + Len(c.sent) = Room(e), ~up => c.sent = <<>>,
           UNCHANGED <<up, alive>>, yielded'[Peer(e)] = yielded[Peer(e)]
    PROVE  /\ inner' \in [Endpoint -> WebSockets]
           /\ inner'[e] = c.ws /\ inner'[Peer(e)] = inner[Peer(e)]
           /\ net' = [x \in Endpoint |-> net'[x]]
           /\ net'[Peer(e)] \in Seq(Frames) /\ Len(net'[Peer(e)]) <= Cap
           /\ net'[e] = IF c.msg = NoFrame THEN net[e] ELSE Tail(net[e])
           /\ Written(e)' = IF Live(e) THEN Written(e) \o c.sent ELSE Written(e)
           /\ \A x \in Endpoint : Live(x)' = Live(x)
<1>1. /\ inner \in [Endpoint -> WebSockets] /\ net \in [Endpoint -> Seq(Frames)]
      /\ c.ws \in WebSockets /\ Peer(e) \in Endpoint /\ Peer(e) # e
  BY PeerFacts DEF IInv, Types, Calls
<1>2. /\ inner' \in [Endpoint -> WebSockets]
      /\ inner'[e] = c.ws /\ inner'[Peer(e)] = inner[Peer(e)]
  BY <1>1 DEF Apply
<1>3. /\ net' = [x \in Endpoint |-> net'[x]]
      /\ net'[e] = IF c.msg = NoFrame THEN net[e] ELSE Tail(net[e])
      /\ net'[Peer(e)] = IF alive[Peer(e)] THEN net[Peer(e)] \o c.sent ELSE net[Peer(e)]
  BY <1>1 DEF Apply
<1>4. /\ net'[Peer(e)] \in Seq(Frames) /\ Len(net'[Peer(e)]) <= Cap
      /\ yielded[Peer(e)] \o net'[Peer(e)] = IF Live(e) THEN Written(e) \o c.sent ELSE Written(e)
  BY <1>3, Sent
<1>5. Written(e)' = yielded[Peer(e)] \o net'[Peer(e)]
  BY DEF Written
<1>6. \A x \in Endpoint : Live(x)' = Live(x)
  BY DEF Live
<1>7. QED
  BY <1>2, <1>3, <1>4, <1>5, <1>6

Grown(taken, taken2) == taken2 = taken \/ \E f \in Frames : taken2 = Append(taken, f)

(* What is on the transport stays there, and taken. *)
LEMMA StaysFlushed ==
    ASSUME NEW before \in Seq(Frames), NEW sent \in Seq(Frames),
           NEW taken \in Seq(Frames), NEW taken2 \in Seq(Frames),
           Grown(taken, taken2),
           NEW k \in 1..Len(taken), NEW i \in 1..Len(before), before[i] = taken[k]
    PROVE  i \in 1..Len(before \o sent) /\ (before \o sent)[i] = taken2[k]
<1>1. taken2[k] = taken[k]
  <2>1. ASSUME NEW f \in Frames PROVE Append(taken, f)[k] = taken[k]
    BY AppendProperties
  <2>2. QED
    BY <2>1 DEF Grown
<1>2. i \in 1..Len(before \o sent) /\ (before \o sent)[i] = before[i]
  BY Front
<1>3. QED
  BY <1>1, <1>2

LEMMA SinkKeeps ==
    ASSUME IInv, NEW e \in Endpoint, NEW c, Proceeds(Written(e), CallOf(e), c),
           NEW taken2 \in Seq(Frames), Numbered(taken2),
           Live(e) => Carries(Transcript(Written(e), c), taken2),
           \/ taken2 = accepted[e]
           \/ inner[e].state = "Active" /\ \E f \in Frames : taken2 = Append(accepted[e], f),
           SinkCall(e, c, taken2)
    PROVE  IInv'
<1> DEFINE p == Peer(e)
<1>1. p \in Endpoint /\ Peer(p) = e /\ p # e /\ \A x \in Endpoint : x = e \/ x = p
  BY PeerFacts
<1>2. /\ c \in Calls /\ c.room + Len(c.sent) = Room(e) /\ (~up => c.sent = <<>>)
      /\ c.msg = NoFrame /\ Consistent(c.ws, Transcript(Written(e), c))
      /\ CanRead(c.ws.state) <=> CanRead(inner[e].state)
      /\ c.sent \in Seq(Frames) /\ Written(e) \in Seq(Frames)
  <2>1. /\ c \in Calls /\ c.room + Len(c.sent) = Room(e) /\ (~up => c.sent = <<>>)
        /\ c.msg = NoFrame /\ Consistent(c.ws, Transcript(Written(e), c))
        /\ CanRead(c.ws.state) <=> CanRead(inner[e].state)
        /\ Written(e) \in Seq(Frames)
    BY CallFacts DEF Proceeds
  <2>2. QED
    BY <2>1, TranscriptType
<1>3. /\ inner' \in [Endpoint -> WebSockets]
      /\ inner'[e] = c.ws /\ inner'[p] = inner[p]
      /\ net' = [x \in Endpoint |-> net'[x]]
      /\ net'[p] \in Seq(Frames) /\ Len(net'[p]) <= Cap /\ net'[e] = net[e]
      /\ Written(e)' = IF Live(e) THEN Written(e) \o c.sent ELSE Written(e)
      /\ \A x \in Endpoint : Live(x)' = Live(x)
  BY <1>1, <1>2, Applied DEF SinkCall
<1>4. /\ accepted' \in [Endpoint -> Seq(Frames)]
      /\ accepted'[e] = taken2 /\ accepted'[p] = accepted[p]
  BY <1>1 DEF SinkCall, IInv, Types
<1>5. Written(p)' = Written(p)
  <2>1. Written(p)' = yielded'[e] \o net'[e] /\ Written(p) = yielded[e] \o net[e]
    BY <1>1 DEF Written
  <2>2. QED
    BY <1>3, <2>1 DEF SinkCall
<1> HIDE DEF p
<1>6. Types'
  <2>1. net' \in [Endpoint -> Seq(Frames)] /\ \A x \in Endpoint : Len(net'[x]) <= Cap
    <3>1. \A x \in Endpoint : net'[x] \in Seq(Frames) /\ Len(net'[x]) <= Cap
      BY <1>1, <1>3 DEF IInv, Types
    <3>2. QED
      BY <1>3, <3>1
  <2>2. QED
    BY <1>3, <1>4, <2>1 DEF IInv, Types, SinkCall
<1>7. Flows'
  <2>1. Flow(inner[e], Written(e), accepted[e], Live(e)) /\ Flow(inner[p], Written(p), accepted[p], Live(p))
    BY <1>1 DEF IInv, Flows
  <2>2. Live(e) \in BOOLEAN
    BY DEF Live
  <2>3. Flow(c.ws, IF Live(e) THEN Written(e) \o c.sent ELSE Written(e), taken2, Live(e))
    BY <1>2, <2>1, <2>2, FlowSend
  <2>4. Flow(inner'[e], Written(e)', accepted'[e], Live(e)')
    BY <1>3, <1>4, <2>3
  <2>5. Flow(inner'[p], Written(p)', accepted'[p], Live(p)')
    BY <1>1, <1>3, <1>4, <1>5, <2>1
  <2>6. QED
    BY <1>1, <2>4, <2>5 DEF Flows
<1>8. Yields'
  BY DEF IInv, Yields, SinkCall
<1>9. Endings'
  <2>1. \A x \in Endpoint : /\ CanRead(inner'[x].state) <=> CanRead(inner[x].state)
                           /\ told'[x].clean = told[x].clean
    BY <1>1, <1>2, <1>3 DEF SinkCall, p
  <2>2. ended' = ended /\ yielded' = yielded
    BY DEF SinkCall
  <2>3. QED
    BY <2>1, <2>2 DEF IInv, Endings
<1>10. Flushes'
  <2>1. ASSUME NEW x \in Endpoint
        PROVE  told[x].flushed \in Nat /\ FlushIsTrue(x)
    BY DEF IInv, Types, Told, Flushes
  <2>2. FlushIsTrue(p)'
    <3>1. told'[p] = told[p]
      BY DEF SinkCall, p
    <3>2. QED
      BY <1>1, <1>3, <1>4, <1>5, <2>1, <3>1, SMTT(60) DEF FlushIsTrue
  <2>3. CASE told'[e].flushed = told[e].flushed
    <3>1. /\ accepted[e] \in Seq(Frames) /\ c.sent \in Seq(Frames)
          /\ Grown(accepted[e], taken2)
      BY <1>2 DEF IInv, Types, Grown
    <3>2. told[e].flushed \in Nat /\ told[e].flushed <= Len(accepted[e])
      BY <2>1 DEF FlushIsTrue
    <3>3. told'[e].flushed <= Len(accepted'[e])
      <4>1. Len(accepted[e]) <= Len(taken2) /\ Len(accepted[e]) \in Nat /\ Len(taken2) \in Nat
        BY <3>1, AppendProperties, LenProperties DEF Grown
      <4>2. QED
        BY <1>4, <2>3, <3>2, <4>1
    <3>4. ASSUME Live(e)
          PROVE  \A k \in 1..told'[e].flushed :
                   \E i \in 1..Len(Written(e)') : Written(e)'[i] = accepted'[e][k]
      <4>1. Written(e)' = Written(e) \o c.sent
        BY <1>3, <3>4
      <4>2. \A k \in 1..told[e].flushed : \E i \in 1..Len(Written(e)) : Written(e)[i] = accepted[e][k]
        BY <2>1, <3>4 DEF FlushIsTrue
      <4>3. \A k \in 1..told[e].flushed :
              \E i \in 1..Len(Written(e) \o c.sent) : (Written(e) \o c.sent)[i] = taken2[k]
        <5> SUFFICES ASSUME NEW k \in 1..told[e].flushed
                     PROVE  \E i \in 1..Len(Written(e) \o c.sent) :
                              (Written(e) \o c.sent)[i] = taken2[k]
          OBVIOUS
        <5>1. PICK i \in 1..Len(Written(e)) : Written(e)[i] = accepted[e][k]
          BY <4>2
        <5>2. k \in 1..Len(accepted[e])
          BY <3>1, <3>2, LenProperties
        <5> DEFINE w == Written(e)
                   a == accepted[e]
                   n == c.sent
        <5>3. /\ w \in Seq(Frames) /\ a \in Seq(Frames) /\ n \in Seq(Frames)
              /\ i \in 1..Len(w) /\ w[i] = a[k] /\ k \in 1..Len(a)
              /\ Grown(a, taken2)
          BY <1>2, <3>1, <5>1, <5>2
        <5> HIDE DEF w, a, n
        <5>4. i \in 1..Len(w \o n) /\ (w \o n)[i] = taken2[k]
          BY <5>3, StaysFlushed
        <5>5. i \in 1..Len(Written(e) \o c.sent) /\ (Written(e) \o c.sent)[i] = taken2[k]
          BY <5>4 DEF w, n
        <5>6. QED
          BY <5>5
      <4>4. QED
        BY <1>4, <2>3, <4>1, <4>3
    <3>5. FlushIsTrue(e)'
      BY <1>3, <3>3, <3>4 DEF FlushIsTrue
    <3>6. QED
      BY <1>1, <2>2, <3>5 DEF Flushes
  <2>4. CASE /\ told'[e].flushed = Len(accepted[e]) /\ taken2 = accepted[e]
             /\ Live(e) => c.ws.out = <<>>
    <3>1. accepted'[e] = accepted[e] /\ Len(accepted[e]) \in Nat /\ accepted[e] \in Seq(Frames)
      BY <1>4, <2>4, LenProperties DEF IInv, Types
    <3>2. ASSUME Live(e)
          PROVE  \A k \in 1..told'[e].flushed :
                   \E i \in 1..Len(Written(e)') : Written(e)'[i] = accepted'[e][k]
      <4> DEFINE after == Written(e) \o c.sent
      <4>1. after \in Seq(Frames) /\ Written(e)' = after
        BY <1>2, <1>3, <3>2, ConcatProperties
      <4>2. Flow(c.ws, after, accepted[e], TRUE)
        <5>1. Flow(inner'[e], Written(e)', accepted'[e], Live(e)')
          BY <1>7 DEF Flows
        <5>2. QED
          BY <1>3, <3>1, <3>2, <4>1, <5>1
      <4> HIDE DEF after
      <4>3. after \o c.ws.out = after
        BY <2>4, <3>2, <4>1, ConcatEmptySeq
      <4>4. Carries(after, accepted[e])
        BY <4>2, <4>3 DEF Flow
      <4>5. \A k \in 1..Len(accepted[e]) : \E i \in 1..Len(after) : after[i] = accepted[e][k]
        BY <3>1, <4>1, <4>4, CarriesLen
      <4>6. QED
        BY <2>4, <3>1, <4>1, <4>5
    <3>3. told'[e].flushed <= Len(accepted'[e])
      BY <2>4, <3>1
    <3>4. FlushIsTrue(e)'
      BY <1>3, <3>2, <3>3 DEF FlushIsTrue
    <3>5. QED
      BY <1>1, <2>2, <3>4 DEF Flushes
  <2>5. QED
    BY <2>3, <2>4 DEF SinkCall
<1>11. QED
  BY <1>6, <1>7, <1>8, <1>9, <1>10 DEF IInv
-----------------------------------------------------------------------------
LEMMA Carried ==
    ASSUME IInv, NEW e \in Endpoint
    PROVE  /\ accepted[e] \in Seq(Frames) /\ Numbered(accepted[e])
           /\ Live(e) => Carries(Transcript(Written(e), CallOf(e)), accepted[e])
           /\ told[e] \in Told
           /\ Len(accepted[e]) \in Nat
  BY CallFacts, LenProperties DEF IInv, Types, Flows, Flow

(* A call of the Sink that takes no message. *)
LEMMA SinkOnly ==
    ASSUME IInv, NEW e \in Endpoint, NEW c, Proceeds(Written(e), CallOf(e), c),
           Keeps(Written(e), CallOf(e), c), SinkCall(e, c, accepted[e])
    PROVE  IInv'
<1>1. Live(e) => Carries(Transcript(Written(e), c), accepted[e])
  BY Carried DEF Keeps
<1>2. QED
  BY <1>1, Carried, SinkKeeps

LEMMA NothingMoves ==
    ASSUME IInv, UNCHANGED <<inner, net, up, alive, accepted, yielded, told, ended>>,
           ready' \in [Endpoint -> BOOLEAN], closing' \in [Endpoint -> BOOLEAN],
           permit' \in [Endpoint -> BOOLEAN]
    PROVE  IInv'
<1>1. Types'
  BY DEF IInv, Types
<1>2. \A x \in Endpoint : Written(x)' = Written(x) /\ Live(x)' = Live(x)
  BY DEF Written, Live
<1>3. Flows'
  BY <1>2 DEF IInv, Flows
<1>4. Yields' /\ Endings'
  BY DEF IInv, Yields, Endings
<1>5. Flushes'
  <2>1. ASSUME NEW x \in Endpoint PROVE FlushIsTrue(x)'
    BY <1>2 DEF IInv, Flushes, FlushIsTrue
  <2>2. QED
    BY <2>1 DEF Flushes
<1>6. QED
  BY <1>1, <1>3, <1>4, <1>5 DEF IInv

LEMMA FlushOf ==
    ASSUME IInv, NEW e \in Endpoint, NEW c \in flush(CallOf(e))
    PROVE  /\ Proceeds(Written(e), CallOf(e), c) /\ Keeps(Written(e), CallOf(e), c)
           /\ Flushed(c) /\ Live(e) => c.ws.out = <<>>
<1>1. Continues(Written(e), CallOf(e), c) /\ (c.res = "Ok" => c.ws.out = <<>>)
  BY CallFacts, Flush
<1>2. QED
  BY <1>1, CallFacts DEF Continues, Proceeds, Flushed, Live

LEMMA ReadyStep ==
    ASSUME IInv, NEW e \in Endpoint, poll_ready(e)
    PROVE  IInv'
<1>1. CASE ready[e] /\ permit' = [permit EXCEPT ![e] = TRUE] /\ UNCHANGED <<stream, net>>
  <2>1. UNCHANGED <<inner, net, up, alive, accepted, yielded, told, ended>>
    BY <1>1 DEF poll_ready, stream, history
  <2>2. /\ ready' \in [Endpoint -> BOOLEAN] /\ closing' \in [Endpoint -> BOOLEAN]
        /\ permit' \in [Endpoint -> BOOLEAN]
    BY <1>1 DEF stream, IInv, Types
  <2>3. QED
    BY <2>1, <2>2, NothingMoves
<1>2. ASSUME NEW c \in flush(CallOf(e)), Apply(e, c),
             ready' = [ready EXCEPT ![e] = ~Pending(c)],
             permit' = [permit EXCEPT ![e] = c.res = "Ok"], UNCHANGED <<closing, ended>>
      PROVE  IInv'
  <2>1. UNCHANGED <<closing, ended, up, alive, accepted, yielded, told>>
    BY <1>2 DEF poll_ready, history
  <2>2. /\ ready' \in [Endpoint -> BOOLEAN] /\ permit' \in [Endpoint -> BOOLEAN]
        /\ closing' \in [Endpoint -> BOOLEAN] /\ accepted' = [accepted EXCEPT ![e] = accepted[e]]
        /\ told' \in [Endpoint -> Told]
    BY <1>2, <2>1 DEF IInv, Types, Pending
  <2>3. SinkCall(e, c, accepted[e])
    BY <1>2, <2>1, <2>2 DEF SinkCall
  <2>4. QED
    BY <1>2, <2>3, FlushOf, SinkOnly
<1>3. QED
  BY <1>1, <1>2 DEF poll_ready

LEMMA FlushStep ==
    ASSUME IInv, NEW e \in Endpoint, poll_flush(e)
    PROVE  IInv'
<1>1. PICK c \in flush(CallOf(e)) :
        /\ Apply(e, c)
        /\ ready' = [ready EXCEPT ![e] = @ \/ ~Pending(c)]
        /\ told' = [told EXCEPT ![e].flushed =
                      IF Flushed(c) THEN Len(accepted[e]) ELSE @]
  BY DEF poll_flush, FlushCall
<1>2. UNCHANGED <<closing, ended, up, alive, permit, accepted, yielded>>
  BY DEF poll_flush
<1>3. /\ ready' \in [Endpoint -> BOOLEAN] /\ permit' \in [Endpoint -> BOOLEAN]
      /\ closing' \in [Endpoint -> BOOLEAN] /\ accepted' = [accepted EXCEPT ![e] = accepted[e]]
  BY <1>1, <1>2 DEF IInv, Types, Pending
<1>4. Peer(e) # e /\ Peer(e) \in Endpoint
  BY PeerFacts
<1>5. /\ told' \in [Endpoint -> Told]
      /\ told'[Peer(e)] = told[Peer(e)] /\ told'[e].clean = told[e].clean
      /\ told'[e].flushed = IF Flushed(c) THEN Len(accepted[e]) ELSE told[e].flushed
  <2>1. told \in [Endpoint -> Told] /\ told[e] \in Told /\ Len(accepted[e]) \in Nat
    BY Carried DEF IInv, Types
  <2>2. QED
    BY <1>1, <1>4, <2>1 DEF Told
<1>6. SinkCall(e, c, accepted[e])
  BY <1>1, <1>2, <1>3, <1>5, FlushOf DEF SinkCall
<1>7. QED
  BY <1>6, FlushOf, SinkOnly

LEMMA CloseStep ==
    ASSUME IInv, NEW e \in Endpoint, poll_close(e)
    PROVE  IInv'
<1>1. PICK c \in CloseCall(e) :
        /\ Apply(e, c)
        /\ ready' = [ready EXCEPT ![e] = TRUE]
        /\ closing' = [closing EXCEPT ![e] = @ \/ Pending(c)]
        /\ told' = [told EXCEPT
                      ![e].flushed = IF Flushed(c) THEN Len(accepted[e]) ELSE @,
                      ![e].closed = @ \/ Flushed(c),
                      ![e].full = @ \/ CloseRefused(e) \/ (Flushed(c) /\ ReplyWaits(e))]
  BY DEF poll_close
<1>2. UNCHANGED <<ended, up, alive, permit, accepted, yielded>>
  BY DEF poll_close
<1>3. /\ ready' \in [Endpoint -> BOOLEAN] /\ permit' \in [Endpoint -> BOOLEAN]
      /\ closing' \in [Endpoint -> BOOLEAN] /\ accepted' = [accepted EXCEPT ![e] = accepted[e]]
  BY <1>1, <1>2 DEF IInv, Types, Pending
<1>4. Peer(e) # e /\ Peer(e) \in Endpoint
  BY PeerFacts
<1>5. /\ told' \in [Endpoint -> Told]
      /\ told'[Peer(e)] = told[Peer(e)] /\ told'[e].clean = told[e].clean
      /\ told'[e].flushed = IF Flushed(c) THEN Len(accepted[e]) ELSE told[e].flushed
  <2>1. told \in [Endpoint -> Told] /\ told[e] \in Told /\ Len(accepted[e]) \in Nat
    BY Carried DEF IInv, Types
  <2>2. QED
    BY <1>1, <1>4, <2>1 DEF Told
<1>6. /\ Proceeds(Written(e), CallOf(e), c) /\ Keeps(Written(e), CallOf(e), c)
      /\ Flushed(c) /\ Live(e) => c.ws.out = <<>>
  <2>1. CASE closing[e]
    BY <1>1, <2>1, FlushOf DEF CloseCall
  <2>2. CASE ~closing[e]
    <3>1. c \in close(CallOf(e))
      BY <1>1, <2>2 DEF CloseCall
    <3>2. /\ Proceeds(Written(e), CallOf(e), c) /\ Keeps(Written(e), CallOf(e), c)
          /\ c.res = "Ok" => c.ws.out = <<>>
      BY <3>1, CallFacts, Closing
    <3>3. QED
      BY <3>2, CallFacts DEF Proceeds, Flushed, Live
  <2>3. QED
    BY <2>1, <2>2
<1>7. SinkCall(e, c, accepted[e])
  BY <1>1, <1>2, <1>3, <1>5, <1>6 DEF SinkCall
<1>8. QED
  BY <1>6, <1>7, SinkOnly

LEMMA SendStep ==
    ASSUME IInv, NEW e \in Endpoint, NEW op \in SendOps, start_send(e, op)
    PROVE  IInv'
<1> DEFINE f == IF op = "Close" THEN CloseFrame ELSE [op |-> op, id |-> Len(accepted[e]) + 1]
<1>1. PICK c \in write(CallOf(e), f) :
        /\ Apply(e, c)
        /\ ready' = [ready EXCEPT ![e] = ~Blocked(c)]
        /\ accepted' = [accepted EXCEPT ![e] =
                          IF op # "Close" /\ Queued(c) THEN Append(@, f) ELSE @]
  BY DEF start_send
<1>2. /\ UNCHANGED <<closing, ended, up, alive, yielded>>
      /\ permit' = [permit EXCEPT ![e] = FALSE]
      /\ told' = [told EXCEPT ![e].full = @ \/ (op = "Close" /\ CloseRefused(e))]
  BY DEF start_send
<1> DEFINE taken2 == IF op # "Close" /\ Queued(c) THEN Append(accepted[e], f) ELSE accepted[e]
<1>3. /\ ready' \in [Endpoint -> BOOLEAN] /\ permit' \in [Endpoint -> BOOLEAN]
      /\ closing' \in [Endpoint -> BOOLEAN] /\ accepted' = [accepted EXCEPT ![e] = taken2]
      /\ told' \in [Endpoint -> Told]
      /\ told'[Peer(e)] = told[Peer(e)]
      /\ told'[e].clean = told[e].clean /\ told'[e].flushed = told[e].flushed
  <2>1. Peer(e) # e /\ Peer(e) \in Endpoint
    BY PeerFacts
  <2>2. told \in [Endpoint -> Told] /\ told[e] \in Told
    BY DEF IInv, Types
  <2>3. /\ told' \in [Endpoint -> Told] /\ told'[Peer(e)] = told[Peer(e)]
        /\ told'[e].clean = told[e].clean /\ told'[e].flushed = told[e].flushed
    BY <1>2, <2>1, <2>2 DEF Told
  <2>4. QED
    BY <1>1, <1>2, <2>3 DEF IInv, Types, Blocked
<1>4. /\ f \in Frames /\ (IsMessage(f) \/ f.op = "Close")
      /\ op = "Close" => ~IsMessage(f)
      /\ op # "Close" => IsMessage(f) /\ f.id = Len(accepted[e]) + 1
  <2>1. op \in {"Data", "Ping", "Close"} /\ Len(accepted[e]) + 1 \in Nat
    BY ConnectionAssumption, Carried
  <2>2. QED
    BY <2>1, FrameFacts DEF IsMessage, Frames
<1> HIDE DEF f
<1>5. /\ Proceeds(Written(e), CallOf(e), c)
      /\ ~IsMessage(f) => Keeps(Written(e), CallOf(e), c)
      /\ IsMessage(f) /\ Queued(c) =>
            inner[e].state = "Active" /\ Takes(Written(e), CallOf(e), c, f)
      /\ IsMessage(f) /\ ~Queued(c) /\ up => Keeps(Written(e), CallOf(e), c)
  BY <1>1, <1>4, CallFacts, Write
<1>6. SinkCall(e, c, taken2)
  BY <1>1, <1>2, <1>3 DEF SinkCall
<1>7. CASE op # "Close" /\ Queued(c)
  <2>1. taken2 = Append(accepted[e], f) /\ IsMessage(f) /\ f.id = Len(accepted[e]) + 1
    BY <1>4, <1>7
  <2>2. taken2 \in Seq(Frames)
    BY <1>4, <2>1, Carried, AppendProperties
  <2>3. Numbered(taken2)
    <3>1. /\ Len(taken2) = Len(accepted[e]) + 1 /\ Len(accepted[e]) \in Nat
          /\ \A k \in 1..Len(accepted[e]) : taken2[k] = accepted[e][k]
          /\ taken2[Len(accepted[e]) + 1] = f
      BY <1>4, <2>1, Carried, AppendProperties
    <3> HIDE DEF taken2
    <3>2. ASSUME NEW k \in 1..Len(taken2) PROVE IsMessage(taken2[k]) /\ taken2[k].id = k
      <4>1. k \in 1..Len(accepted[e]) \/ k = Len(accepted[e]) + 1
        BY <3>1
      <4>2. QED
        BY <2>1, <3>1, <4>1, Carried DEF Numbered
    <3>3. QED
      BY <3>2 DEF Numbered
  <2>4. Live(e) => Carries(Transcript(Written(e), c), taken2)
    BY <1>5, <1>7, <2>1, Carried DEF Takes
  <2>5. inner[e].state = "Active" /\ \E g \in Frames : taken2 = Append(accepted[e], g)
    BY <1>4, <1>5, <1>7, <2>1
  <2> HIDE DEF taken2
  <2>6. QED
    BY <1>5, <1>6, <2>2, <2>3, <2>4, <2>5, SinkKeeps
<1>8. CASE ~(op # "Close" /\ Queued(c))
  <2>1. taken2 = accepted[e]
    BY <1>8
  <2>2. Live(e) => Keeps(Written(e), CallOf(e), c)
    BY <1>4, <1>5, <1>8 DEF Live
  <2>3. Live(e) => Carries(Transcript(Written(e), c), accepted[e])
    BY <2>2, Carried DEF Keeps
  <2> HIDE DEF taken2
  <2>4. SinkCall(e, c, accepted[e])
    BY <1>6, <2>1
  <2>5. QED
    BY <1>5, <2>3, <2>4, Carried, SinkKeeps
<1>9. QED
  BY <1>7, <1>8
-----------------------------------------------------------------------------
LEMMA TakeHead ==
    ASSUME NEW y \in Seq(Frames), NEW n \in Seq(Frames), n # <<>>
    PROVE  /\ Head(n) \in Frames /\ Tail(n) \in Seq(Frames) /\ Len(Tail(n)) <= Len(n)
           /\ n = <<Head(n)>> \o Tail(n)
           /\ Append(y, Head(n)) \in Seq(Frames) /\ Append(y, Head(n)) \o Tail(n) = y \o n
           /\ Len(y) + 1 \in 1..Len(y \o n) /\ (y \o n)[Len(y) + 1] = Head(n)
<1>1. /\ Head(n) \in Frames /\ Tail(n) \in Seq(Frames) /\ Len(n) \in Nat \ {0}
      /\ Len(Tail(n)) = Len(n) - 1
  BY HeadTailProperties, EmptySeq
<1>2. n = <<Head(n)>> \o Tail(n)
  <2>1. 1 \in 1..Len(n) /\ Len(n) \in 1..Len(n) /\ Head(n) = n[1] /\ Tail(n) = SubSeq(n, 2, Len(n))
    BY <1>1, TailIsSubSeq
  <2>2. SubSeq(n, 1, Len(n)) = <<n[1]>> \o SubSeq(n, 1 + 1, Len(n))
    BY <2>1, SubSeqRecursiveFirst
  <2>3. QED
    BY <2>1, <2>2, SubSeqFull
<1>3. <<Head(n)>> \in Seq(Frames) /\ Append(y, Head(n)) \in Seq(Frames)
      /\ Append(y, Head(n)) = y \o <<Head(n)>>
  BY <1>1, AppendProperties, AppendIsConcat
<1>4. Append(y, Head(n)) \o Tail(n) = y \o n
  <2> DEFINE one == <<Head(n)>>
             rest == Tail(n)
  <2>1. one \in Seq(Frames) /\ rest \in Seq(Frames) /\ n = one \o rest /\ Append(y, Head(n)) = y \o one
    BY <1>1, <1>2, <1>3
  <2> HIDE DEF one, rest
  <2>2. (y \o one) \o rest = y \o (one \o rest)
    BY <2>1, Associative, ZenonT(60)
  <2>3. QED
    BY <2>1, <2>2 DEF rest
<1>5. Len(y) + 1 \in 1..Len(y \o n) /\ (y \o n)[Len(y) + 1] = n[1]
  <2>1. 1 \in 1..Len(n)
    BY <1>1
  <2>2. QED
    BY <2>1, Front
<1>6. Head(n) = n[1]
  OBVIOUS
<1>7. QED
  BY <1>1, <1>2, <1>3, <1>4, <1>5, <1>6

(* A message that comes next has the next number. *)
LEMMA NextNumber ==
    ASSUME NEW y \in Seq(Frames), NEW n \in Seq(Frames), n # <<>>, IsMessage(Head(n)),
           NEW taken \in Seq(Frames), Numbered(taken), InOrder(y \o n, taken),
           \A i \in 1..Len(y) : IsMessage(y[i]) /\ y[i].id = i
    PROVE  Head(n).id = Len(y) + 1
<1> DEFINE s == y \o n
           m == Head(n)
<1>1. PICK a \in Nat : a = Len(y)
  BY LenProperties
<1>2. /\ s \in Seq(Frames) /\ a + 1 \in 1..Len(s) /\ s[a + 1] = m /\ IsMessage(m)
      /\ \A i \in 1..a : i \in 1..Len(s) /\ s[i] = y[i] /\ IsMessage(s[i]) /\ s[i].id = i
  BY <1>1, Front, TakeHead
<1>3. /\ \A i \in 1..Len(s) : IsMessage(s[i]) => \E k \in 1..Len(taken) : s[i] = taken[k]
      /\ \A i, j \in 1..Len(s) :
            i < j /\ IsMessage(s[i]) /\ IsMessage(s[j]) => s[i].id < s[j].id
      /\ \A i \in 1..Len(s) : IsMessage(s[i]) /\ s[i].id > 1 =>
            \E j \in 1..Len(s) : j < i /\ IsMessage(s[j]) /\ s[j].id = s[i].id - 1
  BY DEF InOrder
<1> HIDE DEF s, m
<1>4. m.id \in Nat /\ m.id >= 1
  <2>1. PICK k \in 1..Len(taken) : m = taken[k]
    BY <1>2, <1>3
  <2>2. m.id = k
    BY <2>1 DEF Numbered
  <2>3. QED
    BY <2>2, LenProperties
<1>5. \A i \in 1..a : i < m.id
  <2>1. ASSUME NEW i \in 1..a PROVE i < m.id
    <3>1. /\ i \in 1..Len(s) /\ IsMessage(s[i]) /\ s[i].id = i /\ i < a + 1
          /\ a + 1 \in 1..Len(s) /\ IsMessage(s[a + 1]) /\ s[a + 1].id = m.id
      BY <1>2
    <3>2. s[i].id < s[a + 1].id
      BY <1>3, <3>1
    <3>3. QED
      BY <3>1, <3>2
  <2>2. QED
    BY <2>1
<1>6. CASE m.id = 1
  BY <1>1, <1>5, <1>6 DEF m
<1>7. CASE m.id > 1
  <2>1. PICK j \in 1..Len(s) : j < a + 1 /\ IsMessage(s[j]) /\ s[j].id = m.id - 1
    BY <1>2, <1>3, <1>7
  <2>2. j \in 1..a
    BY <2>1
  <2>3. j = m.id - 1
    BY <1>2, <2>1, <2>2
  <2>4. a \in 1..a
    BY <2>2
  <2>5. a < m.id
    BY <1>5, <2>4
  <2>6. QED
    BY <1>1, <1>4, <2>2, <2>3, <2>5 DEF m
<1>8. QED
  BY <1>4, <1>6, <1>7

(* A message stays when a Pong is taken away. *)
LEMMA MessageStays ==
    ASSUME NEW p \in Seq(Frames), NEW x \in Frames, x.op = "Pong", NEW q \in Seq(Frames),
           NEW i \in 1..Len(p \o (<<x>> \o q)), IsMessage((p \o (<<x>> \o q))[i])
    PROVE  \E j \in 1..Len(p \o q) : (p \o q)[j] = (p \o (<<x>> \o q))[i]
<1> DEFINE one == <<x>>
           s == p \o (one \o q)
           t == p \o q
<1>1. one \in Seq(Frames) /\ Len(one) = 1 /\ one[1] = x
  OBVIOUS
<1>2. i \in 1..Len(s) /\ IsMessage(s[i])
  OBVIOUS
<1> HIDE DEF one
<1>3. PICK h : Embeds(h, t, s, one)
  BY <1>1, Thinning
<1> HIDE DEF s, t
<1>4. ~\E k \in 1..Len(one) : s[i] = one[k]
  BY <1>1, <1>2 DEF IsMessage
<1>5. PICK j \in 1..Len(t) : h[j] = i
  BY <1>2, <1>3, <1>4 DEF Embeds
<1>6. t[j] = s[i]
  BY <1>3, <1>5 DEF Embeds
<1>7. QED
  BY <1>6 DEF s, t, one
-----------------------------------------------------------------------------
(* What poll_next of e does to what comes in: nothing, a frame is returned, *)
(* or a Pong, also one behind the Close, is taken away.                    *)
Taken(e, msg) ==
    \/ yielded'[e] = yielded[e] /\ net'[e] = net[e]
    \/ /\ net[e] # <<>> /\ msg = Head(net[e]) /\ msg.op # "Pong" /\ CanRead(inner[e].state)
       /\ yielded'[e] = Append(yielded[e], msg) /\ net'[e] = Tail(net[e])
    \/ /\ net[e] # <<>> /\ msg = Head(net[e]) /\ msg.op = "Pong"
       /\ yielded'[e] = yielded[e] /\ net'[e] = Tail(net[e])

LEMMA Inbound ==
    ASSUME IInv, NEW e \in Endpoint
    PROVE  /\ Flow(inner[Peer(e)], yielded[e] \o net[e], accepted[Peer(e)], Live(Peer(e)))
           /\ Written(Peer(e)) = yielded[e] \o net[e]
           /\ yielded[e] \in Seq(Frames) /\ net[e] \in Seq(Frames) /\ Len(net[e]) <= Cap
           /\ accepted[Peer(e)] \in Seq(Frames) /\ Numbered(accepted[Peer(e)])
           /\ InOrder(yielded[e] \o net[e], accepted[Peer(e)])
           /\ \A i \in 1..Len(yielded[e]) : yielded[e][i] \in Frames /\ yielded[e][i].op # "Pong"
           /\ \A i \in 1..Len(yielded[e]) : IsMessage(yielded[e][i]) => yielded[e][i].id = i
<1>1. Peer(e) \in Endpoint /\ Peer(Peer(e)) = e
  BY PeerFacts
<1>2. Flow(inner[Peer(e)], Written(Peer(e)), accepted[Peer(e)], Live(Peer(e)))
  BY <1>1 DEF IInv, Flows
<1>3. Written(Peer(e)) = yielded[e] \o net[e]
  BY <1>1 DEF Written
<1>4. yielded[e] \in Seq(Frames) /\ net[e] \in Seq(Frames) /\ Len(net[e]) <= Cap
  BY DEF IInv, Types
<1>5. \A i \in 1..Len(yielded[e]) : yielded[e][i] \in Frames
  BY <1>4
<1>6. QED
  BY <1>2, <1>3, <1>4, <1>5 DEF IInv, Yields, Placed, Flow

(* Behind the Close that a Stream has returned, there are only Pongs. *)
LEMMA AfterTheClose ==
    ASSUME IInv, NEW e \in Endpoint, ~NoClose(yielded[e])
    PROVE  /\ \A i \in 1..Len(net[e]) : net[e][i].op = "Pong"
           /\ net[e] # <<>> => Head(net[e]).op = "Pong"
<1>1. /\ yielded[e] \in Seq(Frames) /\ net[e] \in Seq(Frames)
      /\ Flow(inner[Peer(e)], yielded[e] \o net[e], accepted[Peer(e)], Live(Peer(e)))
  BY Inbound
<1>2. OneClose(yielded[e] \o net[e])
  <2> DEFINE out == inner[Peer(e)].out
             b == yielded[e] \o net[e]
  <2>1. out \in Seq(Frames) /\ b \in Seq(Frames) /\ OneClose(b \o out)
    BY <1>1, FlowFacts, ConcatProperties DEF Flow, Consistent
  <2> HIDE DEF out, b
  <2>2. /\ \A i \in 1..Len(b) : i \in 1..Len(b \o out) /\ (b \o out)[i] = b[i]
    BY <2>1, Front
  <2>3. OneClose(b)
    BY <2>1, <2>2 DEF OneClose
  <2>4. QED
    BY <2>3 DEF b
<1>3. \A i \in 1..Len(net[e]) : net[e][i].op = "Pong"
  BY <1>1, <1>2, BehindClose
<1>4. net[e] # <<>> => 1 \in 1..Len(net[e]) /\ Head(net[e]) = net[e][1]
  BY <1>1, EmptySeq
<1>5. QED
  BY <1>3, <1>4

LEMMA TakenFlow ==
    ASSUME IInv, NEW e \in Endpoint, NEW msg, Taken(e, msg)
    PROVE  /\ Flow(inner[Peer(e)], yielded'[e] \o net'[e], accepted[Peer(e)], Live(Peer(e)))
           /\ yielded'[e] \in Seq(Frames) /\ net'[e] \in Seq(Frames) /\ Len(net'[e]) <= Cap
           /\ \A k \in 1..Len(accepted[Peer(e)]) :
                 (\E i \in 1..Len(yielded[e] \o net[e]) :
                     (yielded[e] \o net[e])[i] = accepted[Peer(e)][k])
                 => \E i \in 1..Len(yielded'[e] \o net'[e]) :
                     (yielded'[e] \o net'[e])[i] = accepted[Peer(e)][k]
           /\ ~NoClose(yielded[e] \o net[e]) => ~NoClose(yielded'[e] \o net'[e])
<1> DEFINE y == yielded[e]
           n == net[e]
           taken == accepted[Peer(e)]
<1>1. /\ Flow(inner[Peer(e)], y \o n, taken, Live(Peer(e)))
      /\ y \in Seq(Frames) /\ n \in Seq(Frames) /\ Len(n) <= Cap /\ Numbered(taken)
  BY Inbound
<1>2. CASE yielded'[e] = yielded[e] /\ net'[e] = net[e]
  BY <1>1, <1>2
<1>3. CASE n # <<>> /\ yielded'[e] = Append(y, Head(n)) /\ net'[e] = Tail(n)
  <2>1. /\ yielded'[e] \in Seq(Frames) /\ net'[e] \in Seq(Frames) /\ Len(net'[e]) <= Len(n)
        /\ yielded'[e] \o net'[e] = y \o n
    <3>1. /\ Append(y, Head(n)) \in Seq(Frames) /\ Tail(n) \in Seq(Frames) /\ Len(Tail(n)) <= Len(n)
          /\ Append(y, Head(n)) \o Tail(n) = y \o n
      BY <1>1, <1>3, TakeHead
    <3> HIDE DEF y, n
    <3>2. QED
      BY <1>3, <3>1
  <2>2. Len(net'[e]) <= Cap
    BY <1>1, <2>1, LenProperties, ConnectionAssumption
  <2>3. QED
    BY <1>1, <2>1, <2>2
<1>4. CASE n # <<>> /\ Head(n).op = "Pong" /\ yielded'[e] = y /\ net'[e] = Tail(n)
  <2> DEFINE x == Head(n)
             q == Tail(n)
  <2>1. x \in Frames /\ q \in Seq(Frames) /\ Len(q) <= Len(n) /\ n = <<x>> \o q
    BY <1>1, <1>4, TakeHead
  <2>2. Len(q) <= Cap
    BY <1>1, <2>1, LenProperties, ConnectionAssumption
  <2>3. y \o n = y \o (<<x>> \o q) /\ x.op = "Pong"
    BY <1>4, <2>1
  <2> HIDE DEF x, q, y, n, taken
  <2>4. Flow(inner[Peer(e)], y \o q, taken, Live(Peer(e)))
    BY <1>1, <2>1, <2>3, FlowSkip
  <2>5. ASSUME NEW k \in 1..Len(taken), NEW i \in 1..Len(y \o n), (y \o n)[i] = taken[k]
        PROVE  \E j \in 1..Len(y \o q) : (y \o q)[j] = taken[k]
    <3>1. IsMessage((y \o n)[i])
      BY <1>1, <2>5 DEF Numbered
    <3>2. /\ i \in 1..Len(y \o (<<x>> \o q)) /\ IsMessage((y \o (<<x>> \o q))[i])
          /\ (y \o (<<x>> \o q))[i] = taken[k]
      BY <2>3, <2>5, <3>1
    <3>3. \E j \in 1..Len(y \o q) : (y \o q)[j] = (y \o (<<x>> \o q))[i]
      BY <1>1, <2>1, <2>3, <3>2, MessageStays
    <3>4. QED
      BY <3>2, <3>3
  <2>6. yielded'[e] = y /\ net'[e] = q
    BY <1>4 DEF q
  <2>7. NoClose(y \o q) => NoClose(y \o n)
    <3>1. PICK one \in Seq(Frames) : one = <<x>> /\ NoClose(one)
      <4>1. <<x>> \in Seq(Frames) /\ Len(<<x>>) = 1 /\ <<x>>[1] = x
        BY <2>1
      <4>2. NoClose(<<x>>)
        BY <2>3, <4>1 DEF NoClose
      <4>3. QED
        BY <4>1, <4>2
    <3>2. n = one \o q
      BY <2>1, <3>1
    <3>3. ASSUME NoClose(y \o q) PROVE NoClose(y \o n)
      <4>1. NoClose(y) /\ NoClose(q)
        BY <1>1, <2>1, <3>3, NoCloseJoined
      <4>2. NoClose(n)
        BY <2>1, <3>1, <3>2, <4>1, NoCloseJoined
      <4>3. QED
        BY <1>1, <4>1, <4>2, NoCloseJoined
    <3>4. QED
      BY <3>3
  <2>8. QED
    BY <1>1, <2>1, <2>2, <2>4, <2>5, <2>6, <2>7 DEF y, n, taken
<1>5. QED
  BY <1>2, <1>3, <1>4 DEF Taken

LEMMA TakenYields ==
    ASSUME IInv, NEW e \in Endpoint, NEW msg, Taken(e, msg)
    PROVE  /\ Placed(yielded'[e])
           /\ ~NoClose(yielded[e]) => ~NoClose(yielded'[e])
<1> DEFINE y == yielded[e]
           n == net[e]
           taken == accepted[Peer(e)]
<1>1. /\ y \in Seq(Frames) /\ n \in Seq(Frames)
      /\ taken \in Seq(Frames) /\ Numbered(taken) /\ InOrder(y \o n, taken)
      /\ \A i \in 1..Len(y) : y[i] \in Frames /\ y[i].op # "Pong"
      /\ \A i \in 1..Len(y) : IsMessage(y[i]) => y[i].id = i
  BY Inbound
<1>2. CASE yielded'[e] = yielded[e]
  BY <1>1, <1>2 DEF Placed
<1>3. CASE n # <<>> /\ Head(n).op # "Pong" /\ yielded'[e] = Append(y, Head(n))
  <2>1. NoClose(y)
    BY <1>3, AfterTheClose
  <2>2. \A i \in 1..Len(y) : IsMessage(y[i]) /\ y[i].id = i
    BY <1>1, <2>1, FrameFacts DEF NoClose, IsMessage
  <2> DEFINE m == Head(n)
             z == yielded'[e]
  <2> HIDE DEF y, n, taken
  <2>3. IsMessage(m) => m.id = Len(y) + 1
    BY <1>1, <1>3, <2>2, NextNumber
  <2>4. /\ Len(z) = Len(y) + 1 /\ Len(y) \in Nat /\ m.op # "Pong"
        /\ \A i \in 1..Len(y) : z[i] = y[i]
        /\ z[Len(y) + 1] = m
    BY <1>1, <1>3, TakeHead, AppendProperties
  <2> HIDE DEF m, z
  <2>5. ASSUME NEW i \in 1..Len(z)
        PROVE  z[i].op # "Pong" /\ (IsMessage(z[i]) => z[i].id = i)
    <3>1. i \in 1..Len(y) \/ i = Len(y) + 1
      BY <2>4
    <3>2. QED
      BY <1>1, <2>3, <2>4, <3>1
  <2>6. QED
    BY <2>1, <2>5 DEF Placed, y, z
<1>4. QED
  BY <1>2, <1>3 DEF Taken

(* What poll_next does: the call of read it makes, and what it makes of it. *)
LEMMA ReadCall ==
    ASSUME IInv, NEW e \in Endpoint, poll_next(e)
    PROVE  \E c \in Calls :
              /\ Apply(e, c)
              /\ ended' = [ended EXCEPT ![e] = Ends(c)]
              /\ yielded' = [yielded EXCEPT ![e] =
                               IF c.res = "Ok" /\ c.msg.op # "Pong" THEN Append(@, c.msg) ELSE @]
              /\ told' = [told EXCEPT ![e].clean = NormalEnd(c)]
              /\ Receives(Written(e), CallOf(e), c, net[e], ~alive[Peer(e)])
              /\ Taken(e, c.msg)
<1>1. PICK c \in read(CallOf(e), net[e], ~alive[Peer(e)]) :
        /\ Apply(e, c)
        /\ ended' = [ended EXCEPT ![e] = Ends(c)]
        /\ yielded' = [yielded EXCEPT ![e] =
                         IF c.res = "Ok" /\ c.msg.op # "Pong" THEN Append(@, c.msg) ELSE @]
        /\ told' = [told EXCEPT ![e].clean = NormalEnd(c)]
  BY DEF poll_next
<1>2. Receives(Written(e), CallOf(e), c, net[e], ~alive[Peer(e)])
  <2>1. net[e] \in Seq(Frames) /\ (~alive[Peer(e)]) \in BOOLEAN
    BY Inbound
  <2>2. QED
    BY <1>1, <2>1, CallFacts, Read
<1>3. /\ c \in Calls
      /\ c.msg = NoFrame => c.res # "Ok"
      /\ c.msg # NoFrame =>
            /\ net[e] # <<>> /\ c.msg = Head(net[e])
            /\ IF CanRead(inner[e].state) THEN c.res = "Ok" ELSE c.res = "Protocol"
  BY <1>2, CallFacts DEF Receives
<1>4. /\ yielded'[e] = IF c.res = "Ok" /\ c.msg.op # "Pong"
                       THEN Append(yielded[e], c.msg) ELSE yielded[e]
      /\ net'[e] = IF c.msg = NoFrame THEN net[e] ELSE Tail(net[e])
  <2>1. /\ yielded \in [Endpoint -> Seq(Frames)] /\ net \in [Endpoint -> Seq(Frames)]
        /\ Peer(e) \in Endpoint /\ Peer(e) # e
    BY PeerFacts DEF IInv, Types
  <2>2. QED
    BY <1>1, <2>1 DEF Apply
<1>5. ~CanRead(inner[e].state) => ~NoClose(yielded[e])
  BY DEF poll_next, Reads, IInv, Endings
<1>6. Taken(e, c.msg)
  <2>1. CASE c.msg = NoFrame
    BY <1>3, <1>4, <2>1 DEF Taken
  <2>2. CASE c.msg # NoFrame /\ CanRead(inner[e].state)
    BY <1>3, <1>4, <2>2 DEF Taken
  <2>3. CASE c.msg # NoFrame /\ ~CanRead(inner[e].state)
    <3>1. c.msg.op = "Pong"
      BY <1>3, <1>5, <2>3, AfterTheClose
    <3>2. QED
      BY <1>3, <1>4, <2>3, <3>1 DEF Taken
  <2>4. QED
    BY <2>1, <2>2, <2>3
<1>7. QED
  BY <1>1, <1>2, <1>3, <1>6

LEMMA ReadStep ==
    ASSUME IInv, NEW e \in Endpoint, poll_next(e)
    PROVE  IInv'
<1> DEFINE p == Peer(e)
<1>0. p \in Endpoint /\ Peer(p) = e /\ p # e /\ \A x \in Endpoint : x = e \/ x = p
  BY PeerFacts
<1>1. PICK c \in Calls :
        /\ Apply(e, c)
        /\ ended' = [ended EXCEPT ![e] = Ends(c)]
        /\ yielded' = [yielded EXCEPT ![e] =
                         IF c.res = "Ok" /\ c.msg.op # "Pong" THEN Append(@, c.msg) ELSE @]
        /\ told' = [told EXCEPT ![e].clean = NormalEnd(c)]
        /\ Receives(Written(e), CallOf(e), c, net[e], ~alive[p])
        /\ Taken(e, c.msg)
  BY ReadCall
<1>2. UNCHANGED <<ready, closing, up, alive, permit, accepted>> /\ ~ended[e]
  BY DEF poll_next, Reads
<1>4. /\ c \in Calls /\ c.room + Len(c.sent) = Room(e) /\ (~up => c.sent = <<>>)
      /\ Consistent(c.ws, Transcript(Written(e), c)) /\ Keeps(Written(e), CallOf(e), c)
      /\ c.sent \in Seq(Frames) /\ Written(e) \in Seq(Frames)
  <2>1. /\ c \in Calls /\ c.room + Len(c.sent) = Room(e) /\ (~up => c.sent = <<>>)
        /\ Consistent(c.ws, Transcript(Written(e), c)) /\ Keeps(Written(e), CallOf(e), c)
        /\ Written(e) \in Seq(Frames)
    BY <1>1, CallFacts DEF Receives
  <2>2. QED
    BY <2>1, TranscriptType
<1>5. /\ c.msg = NoFrame => c.res # "Ok"
      /\ c.msg # NoFrame =>
            /\ net[e] # <<>> /\ c.msg = Head(net[e])
            /\ IF CanRead(inner[e].state) THEN c.res = "Ok" ELSE c.res = "Protocol"
      /\ ~CanRead(c.ws.state) => ~CanRead(inner[e].state) \/ c.msg.op = "Close" \/ Ends(c)
      /\ NormalEnd(c) => ~CanRead(inner[e].state)
  BY <1>1, CallFacts DEF Receives
<1>6. /\ ended'[e] = Ends(c) /\ told'[e].clean = NormalEnd(c)
      /\ yielded'[e] = IF c.res = "Ok" /\ c.msg.op # "Pong"
                       THEN Append(yielded[e], c.msg) ELSE yielded[e]
      /\ ended'[p] = ended[p] /\ told'[p] = told[p] /\ yielded'[p] = yielded[p]
      /\ told'[e].flushed = told[e].flushed
      /\ ended' \in [Endpoint -> BOOLEAN]
      /\ told' \in [Endpoint -> Told]
      /\ yielded' = [x \in Endpoint |-> yielded'[x]]
  <2>1. ended \in [Endpoint -> BOOLEAN] /\ yielded \in [Endpoint -> Seq(Frames)]
        /\ told \in [Endpoint -> Told]
        /\ Ends(c) \in BOOLEAN /\ NormalEnd(c) \in BOOLEAN
    BY DEF IInv, Types, Ends, NormalEnd
  <2>2. ended'[e] = Ends(c) /\ ended'[p] = ended[p] /\ ended' \in [Endpoint -> BOOLEAN]
    BY <1>0, <1>1, <2>1
  <2>3. /\ told'[e].clean = NormalEnd(c) /\ told'[e].flushed = told[e].flushed
        /\ told'[p] = told[p]
        /\ told' \in [Endpoint -> Told]
    BY <1>0, <1>1, <2>1 DEF Told
  <2>4. /\ yielded'[e] = IF c.res = "Ok" /\ c.msg.op # "Pong"
                         THEN Append(yielded[e], c.msg) ELSE yielded[e]
        /\ yielded'[p] = yielded[p] /\ yielded' = [x \in Endpoint |-> yielded'[x]]
    BY <1>0, <1>1, <2>1
  <2>5. QED
    BY <2>2, <2>3, <2>4
<1>7. /\ inner' \in [Endpoint -> WebSockets]
      /\ inner'[e] = c.ws /\ inner'[p] = inner[p]
      /\ net' = [x \in Endpoint |-> net'[x]]
      /\ net'[p] \in Seq(Frames) /\ Len(net'[p]) <= Cap
      /\ net'[e] = IF c.msg = NoFrame THEN net[e] ELSE Tail(net[e])
      /\ Written(e)' = IF Live(e) THEN Written(e) \o c.sent ELSE Written(e)
      /\ \A x \in Endpoint : Live(x)' = Live(x)
  <2>1. UNCHANGED <<up, alive>> /\ yielded'[Peer(e)] = yielded[Peer(e)] /\ Apply(e, c)
    BY <1>1, <1>2, <1>6
  <2>2. QED
    BY <1>4, <2>1, Applied
<1>8. ~CanRead(inner[e].state) => ~NoClose(yielded[e])
  BY <1>2 DEF IInv, Endings
<1>9. Taken(e, c.msg)
  BY <1>1
<1>10. Written(p)' = yielded'[e] \o net'[e]
  BY <1>0 DEF Written
<1> HIDE DEF p
<1>11. Types'
  <2>1. yielded'[e] \in Seq(Frames) /\ net'[e] \in Seq(Frames) /\ Len(net'[e]) <= Cap
    BY <1>9, TakenFlow
  <2>2. yielded'[p] \in Seq(Frames)
    BY <1>0, <1>6 DEF IInv, Types
  <2>3. \A x \in Endpoint : /\ yielded'[x] \in Seq(Frames)
                           /\ net'[x] \in Seq(Frames) /\ Len(net'[x]) <= Cap
    BY <1>0, <1>7, <2>1, <2>2
  <2>4. /\ yielded' \in [Endpoint -> Seq(Frames)] /\ net' \in [Endpoint -> Seq(Frames)]
        /\ \A x \in Endpoint : Len(net'[x]) <= Cap
    BY <1>6, <1>7, <2>3
  <2>5. QED
    BY <1>2, <1>6, <1>7, <2>4 DEF IInv, Types
<1>12. Flows'
  <2>1. Flow(inner[e], Written(e), accepted[e], Live(e)) /\ Live(e) \in BOOLEAN
    BY DEF IInv, Flows, Live
  <2>2. Live(e) => Carries(Transcript(Written(e), c), accepted[e])
    BY <1>4, Carried DEF Keeps
  <2>3. Flow(c.ws, IF Live(e) THEN Written(e) \o c.sent ELSE Written(e), accepted[e], Live(e))
    BY <1>4, <2>1, <2>2, Carried, FlowSend
  <2>4. Flow(inner'[e], Written(e)', accepted'[e], Live(e)')
    BY <1>2, <1>7, <2>3
  <2>5. Flow(inner[p], yielded'[e] \o net'[e], accepted[p], Live(p))
    BY <1>9, TakenFlow DEF p
  <2>6. Flow(inner'[p], Written(p)', accepted'[p], Live(p)')
    BY <1>0, <1>2, <1>7, <1>10, <2>5
  <2>7. QED
    BY <1>0, <2>4, <2>6 DEF Flows
<1>13. Yields'
  <2>1. Placed(yielded'[e])
    BY <1>9, TakenYields
  <2>2. Placed(yielded'[p])
    BY <1>0, <1>6 DEF IInv, Yields
  <2>3. QED
    BY <1>0, <2>1, <2>2 DEF Yields
<1>14. Endings'
  <2>1. ~NoClose(yielded[e]) => ~NoClose(yielded'[e])
    BY <1>9, TakenYields
  <2>2. ASSUME ~CanRead(inner'[e].state), ~ended'[e] PROVE ~NoClose(yielded'[e])
    <3>1. CASE ~CanRead(inner[e].state)
      BY <1>8, <2>1, <3>1
    <3>2. CASE CanRead(inner[e].state) /\ c.msg.op = "Close"
      <4>1. c.msg # NoFrame /\ c.msg \in Frames
        BY <1>4, <3>2, FrameFacts DEF Calls
      <4>2. yielded'[e] = Append(yielded[e], c.msg)
        BY <1>5, <1>6, <3>2, <4>1
      <4>3. /\ Len(yielded'[e]) = Len(yielded[e]) + 1 /\ Len(yielded[e]) \in Nat
            /\ yielded'[e][Len(yielded[e]) + 1] = c.msg
        BY <4>1, <4>2, Inbound, AppendProperties
      <4>4. QED
        BY <3>2, <4>3 DEF NoClose
    <3>3. QED
      BY <1>5, <1>6, <1>7, <2>2, <3>1, <3>2
  <2>3. ASSUME told'[e].clean PROVE ended'[e] /\ ~NoClose(yielded'[e])
    BY <1>5, <1>6, <1>8, <2>1, <2>3 DEF NormalEnd, Ends
  <2>4. /\ ~CanRead(inner'[p].state) /\ ~ended'[p] => ~NoClose(yielded'[p])
        /\ told'[p].clean => ended'[p] /\ ~NoClose(yielded'[p])
    BY <1>0, <1>6, <1>7 DEF IInv, Endings
  <2>5. QED
    BY <1>0, <2>2, <2>3, <2>4 DEF Endings
<1>15. Flushes'
  <2>1. ASSUME NEW x \in Endpoint
        PROVE  told[x].flushed \in Nat /\ FlushIsTrue(x)
    BY DEF IInv, Types, Told, Flushes
  <2>2. FlushIsTrue(e)'
    <3>1. told[e].flushed <= Len(accepted[e]) /\ told[e].flushed \in Nat
      BY <2>1 DEF FlushIsTrue
    <3>2. ASSUME Live(e), NEW k \in 1..told[e].flushed
          PROVE  \E i \in 1..Len(Written(e)') : Written(e)'[i] = accepted[e][k]
      <4> DEFINE w == Written(e)
                 a == accepted[e]
                 n == c.sent
      <4>1. PICK i \in 1..Len(w) : w[i] = a[k]
        BY <2>1, <3>2 DEF FlushIsTrue
      <4>2. /\ w \in Seq(Frames) /\ a \in Seq(Frames) /\ n \in Seq(Frames)
            /\ k \in 1..Len(a) /\ Grown(a, a) /\ Written(e)' = w \o n
        <5>1. a \in Seq(Frames) /\ Len(a) \in Nat
          BY Carried
        <5>2. k \in 1..Len(a)
          BY <3>1, <5>1
        <5>3. Written(e)' = w \o n
          BY <1>7, <3>2
        <5>4. QED
          BY <1>4, <5>1, <5>2, <5>3 DEF Grown
      <4> HIDE DEF w, a, n
      <4>3. i \in 1..Len(w \o n) /\ (w \o n)[i] = a[k]
        BY <4>1, <4>2, StaysFlushed
      <4>4. QED
        BY <4>2, <4>3 DEF a
    <3>3. QED
      BY <1>2, <1>6, <1>7, <3>1, <3>2 DEF FlushIsTrue
  <2>3. FlushIsTrue(p)'
    <3>1. told[p].flushed <= Len(accepted[p]) /\ told[p].flushed \in Nat /\ Len(accepted[p]) \in Nat
      BY <1>0, <2>1, Carried DEF FlushIsTrue
    <3>2. ASSUME Live(p), NEW k \in 1..told[p].flushed
          PROVE  \E i \in 1..Len(Written(p)') : Written(p)'[i] = accepted[p][k]
      <4>1. Written(p) = yielded[e] \o net[e]
        BY <1>0 DEF Written
      <4>2. \E i \in 1..Len(yielded[e] \o net[e]) : (yielded[e] \o net[e])[i] = accepted[p][k]
        <5>1. \E i \in 1..Len(Written(p)) : Written(p)[i] = accepted[p][k]
          BY <1>0, <2>1, <3>2 DEF FlushIsTrue
        <5>2. QED
          BY <4>1, <5>1
      <4>3. k \in 1..Len(accepted[p])
        BY <3>1
      <4>4. \E i \in 1..Len(yielded'[e] \o net'[e]) : (yielded'[e] \o net'[e])[i] = accepted[p][k]
        BY <1>9, <4>2, <4>3, TakenFlow DEF p
      <4>5. QED
        BY <1>10, <4>4
    <3>3. QED
      BY <1>0, <1>2, <1>6, <1>7, <3>1, <3>2 DEF FlushIsTrue
  <2>4. QED
    BY <1>0, <2>2, <2>3 DEF Flushes
<1>16. QED
  BY <1>11, <1>12, <1>13, <1>14, <1>15 DEF IInv
-----------------------------------------------------------------------------
LEMMA DropStep ==
    ASSUME IInv, NEW e \in Endpoint, drop(e)
    PROVE  IInv'
<1> DEFINE p == Peer(e)
<1>1. p \in Endpoint /\ Peer(p) = e /\ p # e /\ \A x \in Endpoint : x = e \/ x = p
  BY PeerFacts
<1>2. /\ UNCHANGED <<inner, ready, closing, ended, up, permit, accepted, yielded, told>>
      /\ alive' = [alive EXCEPT ![e] = FALSE] /\ net' = [net EXCEPT ![e] = <<>>]
  BY DEF drop, stream, history
<1>3. /\ net' \in [Endpoint -> Seq(Frames)] /\ \A x \in Endpoint : Len(net'[x]) <= Cap
      /\ net'[e] = <<>> /\ net'[p] = net[p]
      /\ alive' \in [Endpoint -> BOOLEAN] /\ alive'[e] = FALSE /\ alive'[p] = alive[p]
  BY <1>1, <1>2, EmptySeq, ConnectionAssumption DEF IInv, Types
<1>4. Written(e)' = Written(e) /\ Live(e)' = Live(e) /\ ~Live(p)'
  BY <1>1, <1>2, <1>3 DEF Written, Live
<1>5. Written(p)' = yielded[e]
  <2>1. yielded[e] \in Seq(Frames) /\ Written(p)' = yielded[e] \o <<>>
    BY <1>1, <1>2, <1>3, Inbound DEF Written
  <2>2. QED
    BY <2>1, ConcatEmptySeq
<1>6. Types'
  BY <1>2, <1>3 DEF IInv, Types
<1>7. Flows'
  <2>1. Flow(inner[e], Written(e), accepted[e], Live(e))
    BY DEF IInv, Flows
  <2>2. Flow(inner'[e], Written(e)', accepted'[e], Live(e)')
    BY <1>2, <1>4, <2>1
  <2>3. Flow(inner[p], yielded[e], accepted[p], FALSE)
    BY <1>1, Inbound, FlowLoss
  <2>4. Flow(inner'[p], Written(p)', accepted'[p], Live(p)')
    <3>1. Live(p)' = FALSE
      BY <1>4 DEF Live
    <3>2. QED
      BY <1>2, <1>5, <2>3, <3>1
  <2> HIDE DEF p
  <2>5. QED
    BY <1>1, <2>2, <2>4 DEF Flows
<1> HIDE DEF p
<1>8. Yields' /\ Endings'
  BY <1>2 DEF IInv, Yields, Endings
<1>9. Flushes'
  <2>1. FlushIsTrue(e) /\ FlushIsTrue(p)
    BY <1>1 DEF IInv, Flushes
  <2>2. FlushIsTrue(e)'
    BY <1>2, <1>4, <2>1 DEF FlushIsTrue
  <2>3. FlushIsTrue(p)'
    BY <1>2, <1>4, <2>1 DEF FlushIsTrue
  <2>4. QED
    BY <1>1, <2>2, <2>3 DEF Flushes
<1>10. QED
  BY <1>6, <1>7, <1>8, <1>9 DEF IInv

LEMMA Cut ==
    ASSUME NEW y \in Seq(Frames), NEW n \in Seq(Frames), NEW m \in 0..Len(n)
    PROVE  /\ SubSeq(n, 1, m) \in Seq(Frames) /\ Len(SubSeq(n, 1, m)) <= Len(n)
           /\ y \o SubSeq(n, 1, m) \in Seq(Frames)
           /\ \E rest \in Seq(Frames) : y \o n = (y \o SubSeq(n, 1, m)) \o rest
<1> DEFINE first == SubSeq(n, 1, m)
           rest == SubSeq(n, m + 1, Len(n))
<1>1. /\ first \in Seq(Frames) /\ Len(first) = m /\ rest \in Seq(Frames)
      /\ y \o first \in Seq(Frames)
      /\ <<>> \o ((y \o first) \o rest) = <<>> \o (y \o n)
  <2>1. PICK none \in Seq(Frames) : none = <<>>
    BY EmptySeq
  <2>2. /\ first \in Seq(Frames) /\ Len(first) = m /\ rest \in Seq(Frames)
        /\ y \o first \in Seq(Frames)
        /\ none \o ((y \o first) \o rest) = none \o (y \o n)
    BY TranscriptMove, ZenonT(60)
  <2>3. QED
    BY <2>1, <2>2
<1> HIDE DEF first, rest
<1>2. (y \o first) \o rest \in Seq(Frames) /\ y \o n \in Seq(Frames)
  BY <1>1, ConcatProperties
<1>3. y \o n = (y \o first) \o rest
  BY <1>1, <1>2, ConcatEmptySeq
<1>4. Len(first) <= Len(n)
  BY <1>1, LenProperties
<1>5. QED
  BY <1>1, <1>3, <1>4 DEF first

LEMMA ResetStep ==
    ASSUME IInv, reset
    PROVE  IInv'
<1>1. /\ UNCHANGED <<inner, ready, closing, ended, alive, permit, accepted, yielded, told>>
      /\ up' = FALSE
  BY DEF reset, stream, history
<1>2. \A x \in Endpoint : \E m \in 0..Len(net[x]) : net'[x] = SubSeq(net[x], 1, m)
  <2>1. PICK m \in 0..Len(net["Client"]), n \in 0..Len(net["Server"]) :
          net' = [Client |-> SubSeq(net["Client"], 1, m), Server |-> SubSeq(net["Server"], 1, n)]
    BY DEF reset
  <2>2. net'["Client"] = SubSeq(net["Client"], 1, m) /\ net'["Server"] = SubSeq(net["Server"], 1, n)
    BY <2>1
  <2>3. QED
    BY <2>2 DEF Endpoint
<1>3. net' = [x \in Endpoint |-> net'[x]]
  BY DEF reset, Endpoint
<1>4. ASSUME NEW x \in Endpoint
      PROVE  /\ net'[x] \in Seq(Frames) /\ Len(net'[x]) <= Cap
             /\ Flow(inner[Peer(x)], yielded[x] \o net'[x], accepted[Peer(x)], FALSE)
  <2> DEFINE y == yielded[x]
             n == net[x]
  <2>1. /\ y \in Seq(Frames) /\ n \in Seq(Frames) /\ Len(n) <= Cap /\ Len(n) \in Nat
        /\ Flow(inner[Peer(x)], y \o n, accepted[Peer(x)], Live(Peer(x)))
    BY Inbound, LenProperties
  <2>2. PICK m \in 0..Len(n) : net'[x] = SubSeq(n, 1, m)
    BY <1>2
  <2> DEFINE first == SubSeq(n, 1, m)
  <2>3. /\ first \in Seq(Frames) /\ Len(first) <= Len(n) /\ y \o first \in Seq(Frames)
        /\ \E rest \in Seq(Frames) : y \o n = (y \o first) \o rest
    BY <2>1, Cut
  <2>4. PICK rest \in Seq(Frames) : y \o n = (y \o first) \o rest
    BY <2>3
  <2> HIDE DEF y, n, first
  <2>5. Flow(inner[Peer(x)], (y \o first) \o rest, accepted[Peer(x)], Live(Peer(x)))
    BY <2>1, <2>4
  <2>6. Flow(inner[Peer(x)], y \o first, accepted[Peer(x)], FALSE)
    BY <2>3, <2>5, FlowLoss
  <2>7. Len(first) <= Cap
    BY <2>1, <2>3, LenProperties, ConnectionAssumption
  <2>8. QED
    BY <2>2, <2>3, <2>6, <2>7 DEF y, first
<1>5. Types'
  <2>1. net' \in [Endpoint -> Seq(Frames)] /\ \A x \in Endpoint : Len(net'[x]) <= Cap
    BY <1>3, <1>4
  <2>2. QED
    BY <1>1, <2>1 DEF IInv, Types
<1>6. Flows'
  <2>1. ASSUME NEW x \in Endpoint
        PROVE  Flow(inner'[x], Written(x)', accepted'[x], Live(x)')
    <3>1. Peer(x) \in Endpoint /\ Peer(Peer(x)) = x
      BY PeerFacts
    <3>2. Flow(inner[x], yielded[Peer(x)] \o net'[Peer(x)], accepted[x], FALSE)
      BY <1>4, <3>1
    <3>3. Written(x)' = yielded[Peer(x)] \o net'[Peer(x)] /\ Live(x)' = FALSE
      BY <1>1 DEF Written, Live
    <3>4. QED
      BY <1>1, <3>2, <3>3
  <2>2. QED
    BY <2>1 DEF Flows
<1>7. Yields' /\ Endings'
  BY <1>1 DEF IInv, Yields, Endings
<1>8. Flushes'
  <2>1. ASSUME NEW x \in Endpoint PROVE FlushIsTrue(x)'
    <3>1. ~Live(x)' /\ FlushIsTrue(x)
      BY <1>1 DEF Live, IInv, Flushes
    <3>2. QED
      BY <1>1, <3>1 DEF FlushIsTrue
  <2>2. QED
    BY <2>1 DEF Flushes
<1>9. QED
  BY <1>5, <1>6, <1>7, <1>8 DEF IInv

LEMMA InitIInv == Init => IInv
<1> SUFFICES ASSUME Init PROVE IInv
  OBVIOUS
<1>1. <<>> \in Seq(Frames) /\ Len(<<>>) = 0 /\ <<>> \o <<>> = <<>>
  BY EmptySeq, ConcatEmptySeq
<1>2. /\ NewWebSocket \in WebSockets /\ NewWebSocket.state = "Active"
      /\ NewWebSocket.additional = NoFrame /\ NewWebSocket.out = <<>>
  BY <1>1 DEF NewWebSocket, WebSockets, States, Replies
<1>3. \A x \in Endpoint : Written(x) = <<>> /\ yielded[x] = <<>> /\ inner[x] = NewWebSocket
                         /\ accepted[x] = <<>> /\ told[x].flushed = 0 /\ ~told[x].clean
  <2>1. ASSUME NEW x \in Endpoint PROVE Written(x) = <<>>
    BY <1>1, PeerFacts DEF Init, Written
  <2>2. QED
    BY <2>1 DEF Init
<1>4. Types
  BY <1>1, <1>2, ConnectionAssumption DEF Init, Types, Told
<1>5. Flow(NewWebSocket, <<>>, <<>>, TRUE)
  <2>1. 1..Len(<<>>) = {} /\ NoClose(<<>>) /\ OneClose(<<>>)
    BY <1>1 DEF NoClose, OneClose
  <2>2. Consistent(NewWebSocket, <<>>)
    BY <1>1, <1>2, <2>1, FrameFacts, BufferAssumption DEF Consistent
  <2>3. InOrder(<<>>, <<>>) /\ Carries(<<>>, <<>>) /\ Numbered(<<>>)
    BY <1>1, <2>1, CarriesLen DEF InOrder, Numbered
  <2>4. QED
    BY <1>1, <1>2, <2>2, <2>3 DEF Flow
<1>6. Flows
  <2>1. \A x \in Endpoint : Live(x) = TRUE
    BY PeerFacts DEF Init, Live
  <2>2. QED
    BY <1>3, <1>5, <2>1 DEF Flows
<1>7. Yields /\ Flushes
  BY <1>1, <1>3 DEF Yields, Placed, Flushes, FlushIsTrue
<1>8. Endings
  BY <1>2, <1>3 DEF Endings, CanRead
<1>9. QED
  BY <1>4, <1>6, <1>7, <1>8 DEF IInv

LEMMA NextIInv == IInv /\ [Next]_vars => IInv'
<1> SUFFICES ASSUME IInv, [Next]_vars PROVE IInv'
  OBVIOUS
<1>1. ASSUME NEW e \in Endpoint, poll_next(e) PROVE IInv'
  BY <1>1, ReadStep
<1>2. ASSUME NEW e \in Endpoint, poll_ready(e) PROVE IInv'
  BY <1>2, ReadyStep
<1>3. ASSUME NEW e \in Endpoint, NEW op \in SendOps, start_send(e, op) PROVE IInv'
  BY <1>3, SendStep
<1>4. ASSUME NEW e \in Endpoint, poll_flush(e) PROVE IInv'
  BY <1>4, FlushStep
<1>5. ASSUME NEW e \in Endpoint, poll_close(e) PROVE IInv'
  BY <1>5, CloseStep
<1>6. ASSUME NEW e \in Endpoint, drop(e) PROVE IInv'
  BY <1>6, DropStep
<1>7. CASE reset
  BY <1>7, ResetStep
<1>8. CASE UNCHANGED vars
  <2>1. UNCHANGED <<inner, net, up, alive, accepted, yielded, told, ended, ready, closing, permit>>
    BY <1>8 DEF vars, stream, transport, history
  <2>2. QED
    BY <2>1, NothingMoves DEF IInv, Types
<1>9. QED
  BY <1>1, <1>2, <1>3, <1>4, <1>5, <1>6, <1>7, <1>8 DEF Next, finished

LEMMA Inductive == Spec => []IInv
  BY InitIInv, NextIInv, PTL DEF Spec
-----------------------------------------------------------------------------
(* Closes and backpressure.                                                *)

(* Unless a full write buffer refused the Close, or keeps back the reply   *)
(* to the peer's, an endpoint that is not active any more has sent, queued *)
(* or put aside a Close, and a close reported complete has sent it.        *)
CloseOf(e) ==
    Live(e) /\ ~told[e].full =>
        /\ inner[e].state # "Active" =>
              inner[e].additional = CloseFrame \/ ~NoClose(Written(e) \o inner[e].out)
        /\ told[e].closed => ~NoClose(Written(e))

(* A Sink that is ready and can still send has room for one more message.  *)
BacklogOf(e) ==
    up =>
        /\ Waiting(inner[e].out) <= WriteLen + 1
        /\ ready[e] /\ inner[e].state = "Active" => Waiting(inner[e].out) <= WriteLen

(* poll_ready does not say Ok to a Sink that is blocked, and only a Close  *)
(* that blocked is flushed by the next poll_close.                         *)
FlagsOf(e) ==
    /\ permit[e] => ready[e]
    /\ closing[e] => inner[e].state # "Active"

SinkOK(e) == CloseOf(e) /\ BacklogOf(e) /\ FlagsOf(e)

SinkIInv == \A e \in Endpoint : SinkOK(e)

(* What no call, and no fault, does to a Sink. *)
LEMMA SinkUntouched ==
    ASSUME IInv, NEW e \in Endpoint, SinkOK(e),
           inner'[e] = inner[e], told'[e] = told[e], ready'[e] = ready[e],
           permit'[e] => permit[e] \/ ready[e], closing'[e] = closing[e],
           Live(e)' => Live(e), up' => up,
           Live(e)' => Written(e)' \in Seq(Frames)
                       /\ (~NoClose(Written(e)) => ~NoClose(Written(e)'))
    PROVE  SinkOK(e)'
<1>1. CloseOf(e)'
  <2> SUFFICES ASSUME Live(e)', ~told'[e].full
               PROVE  /\ inner'[e].state # "Active" =>
                            \/ inner'[e].additional = CloseFrame
                            \/ ~NoClose(Written(e)' \o inner'[e].out)
                      /\ told'[e].closed => ~NoClose(Written(e)')
    BY DEF CloseOf
  <2>1. /\ inner[e].state # "Active" =>
              inner[e].additional = CloseFrame \/ ~NoClose(Written(e) \o inner[e].out)
        /\ told[e].closed => ~NoClose(Written(e))
    BY DEF SinkOK, CloseOf
  <2>2. /\ Written(e) \in Seq(Frames) /\ Written(e)' \in Seq(Frames)
        /\ inner[e].out \in Seq(Frames)
    BY CallFacts DEF IInv, Types, WebSockets
  <2>3. ~NoClose(Written(e) \o inner[e].out) => ~NoClose(Written(e)' \o inner[e].out)
    BY <2>2, NoCloseJoined
  <2>4. QED
    BY <2>1, <2>3
<1>2. BacklogOf(e)'
  BY DEF SinkOK, BacklogOf
<1>3. FlagsOf(e)'
  BY DEF SinkOK, FlagsOf
<1>4. QED
  BY <1>1, <1>2, <1>3 DEF SinkOK

(* The call c that e makes.                                                *)
MadeCall(e, c) ==
    /\ c \in Calls /\ Apply(e, c)
    /\ c.room + Len(c.sent) = Room(e) /\ (~up => c.sent = <<>>)
    /\ UNCHANGED <<up, alive>> /\ yielded'[Peer(e)] = yielded[Peer(e)]
    /\ ClosesAlike(Written(e), CallOf(e), c)

LEMMA ProceedsMade ==
    ASSUME IInv, NEW e \in Endpoint, NEW c, Proceeds(Written(e), CallOf(e), c), Apply(e, c),
           UNCHANGED <<up, alive>>, yielded'[Peer(e)] = yielded[Peer(e)]
    PROVE  MadeCall(e, c)
  BY CallFacts DEF Proceeds, MadeCall

LEMMA CallCloses ==
    ASSUME IInv, NEW e \in Endpoint, CloseOf(e), NEW c, MadeCall(e, c),
           told[e].full => told'[e].full,
           Live(e) /\ ~told'[e].full /\ inner[e].state = "Active" /\ c.ws.state # "Active" =>
              c.ws.additional = CloseFrame \/ ~NoClose(Transcript(Written(e), c)),
           Live(e) /\ ~told'[e].full /\ told'[e].closed =>
              told[e].closed \/ ~NoClose(Written(e) \o c.sent)
    PROVE  CloseOf(e)'
<1>1. /\ c \in Calls /\ Apply(e, c) /\ c.room + Len(c.sent) = Room(e) /\ (~up => c.sent = <<>>)
      /\ UNCHANGED <<up, alive>> /\ yielded'[Peer(e)] = yielded[Peer(e)]
      /\ ClosesAlike(Written(e), CallOf(e), c)
  BY DEF MadeCall
<1>2. /\ inner'[e] = c.ws /\ Live(e)' = Live(e)
      /\ Written(e)' = IF Live(e) THEN Written(e) \o c.sent ELSE Written(e)
  BY <1>1, Applied
<1> SUFFICES ASSUME Live(e)', ~told'[e].full
             PROVE  /\ inner'[e].state # "Active" =>
                          \/ inner'[e].additional = CloseFrame
                          \/ ~NoClose(Written(e)' \o inner'[e].out)
                    /\ told'[e].closed => ~NoClose(Written(e)')
  BY DEF CloseOf
<1>3. Live(e) /\ ~told[e].full /\ Written(e)' = Written(e) \o c.sent
  BY <1>2
<1>4. /\ Written(e) \in Seq(Frames) /\ c.sent \in Seq(Frames) /\ c.ws.out \in Seq(Frames)
      /\ CallOf(e).ws = inner[e]
      /\ Transcript(Written(e), CallOf(e)) = Written(e) \o inner[e].out
  BY <1>1, CallFacts, TranscriptType
<1>5. Written(e)' \o c.ws.out = Transcript(Written(e), c)
  <2> DEFINE before == Written(e)
             sent == c.sent
             out == c.ws.out
  <2>1. before \in Seq(Frames) /\ sent \in Seq(Frames) /\ out \in Seq(Frames)
    BY <1>4
  <2> HIDE DEF before, sent, out
  <2>2. (before \o sent) \o out = before \o (sent \o out)
    BY <2>1, Associative
  <2>3. Written(e)' \o c.ws.out = (before \o sent) \o out
    BY <1>3 DEF before, sent, out
  <2>4. Transcript(Written(e), c) = before \o (sent \o out)
    BY DEF Transcript, before, sent, out
  <2>5. QED
    BY <2>2, <2>3, <2>4
<1>6. ASSUME c.ws.state # "Active"
      PROVE  c.ws.additional = CloseFrame \/ ~NoClose(Transcript(Written(e), c))
  <2>1. CASE inner[e].state = "Active"
    BY <1>3, <1>6, <2>1
  <2>2. CASE inner[e].state # "Active"
    <3>1. inner[e].additional = CloseFrame \/ ~NoClose(Written(e) \o inner[e].out)
      BY <1>3, <2>2 DEF CloseOf
    <3>2. QED
      BY <1>1, <1>4, <3>1 DEF ClosesAlike
  <2>3. QED
    BY <2>1, <2>2
<1>7. told'[e].closed => ~NoClose(Written(e) \o c.sent)
  <2>1. told[e].closed => ~NoClose(Written(e))
    BY <1>3 DEF CloseOf
  <2>2. QED
    BY <1>3, <1>4, <2>1, CloseStays
<1>8. QED
  BY <1>2, <1>3, <1>5, <1>6, <1>7

(* A call that leaves no more messages waiting. *)
LEMMA CallBacklog ==
    ASSUME IInv, NEW e \in Endpoint, BacklogOf(e), NEW c, MadeCall(e, c),
           NoMore(CallOf(e), c), c.ws.state = "Active" => inner[e].state = "Active",
           up /\ ready'[e] /\ c.ws.state = "Active" => ready[e] \/ c.ws.out = <<>>
    PROVE  BacklogOf(e)'
<1>1. /\ inner'[e] = c.ws /\ up' = up /\ CallOf(e).ws = inner[e]
      /\ WriteLen \in Nat /\ WriteLen + 1 \in Nat /\ <<>> \in Seq(Frames)
  <2>1. inner'[e] = c.ws /\ up' = up
    BY Applied DEF MadeCall
  <2>2. QED
    BY <2>1, CallFacts, EmptySeq, BufferAssumption
<1>2. Waiting(<<>>) = 0
  BY <1>1, WaitingFacts
<1>3. \A n \in Nat : Waiting(inner[e].out) <= n => Waiting(c.ws.out) <= n
  BY <1>1 DEF NoMore
<1>4. QED
  BY <1>1, <1>2, <1>3 DEF BacklogOf

LEMMA OtherSink ==
    ASSUME IInv, NEW e \in Endpoint, SinkOK(Peer(e)), NEW c, MadeCall(e, c),
           yielded' = yielded, c.msg = NoFrame,
           told'[Peer(e)] = told[Peer(e)], ready'[Peer(e)] = ready[Peer(e)],
           permit'[Peer(e)] = permit[Peer(e)], closing'[Peer(e)] = closing[Peer(e)]
    PROVE  SinkOK(Peer(e))'
<1>1. Peer(e) \in Endpoint /\ Peer(Peer(e)) = e
  BY PeerFacts
<1>2. /\ inner'[Peer(e)] = inner[Peer(e)] /\ net'[e] = net[e] /\ up' = up
      /\ Live(Peer(e))' = Live(Peer(e))
  BY <1>1, Applied DEF MadeCall
<1>3. Written(Peer(e))' = Written(Peer(e)) /\ Written(Peer(e)) \in Seq(Frames)
  BY <1>1, <1>2, CallFacts DEF Written
<1>4. QED
  BY <1>1, <1>2, <1>3, SinkUntouched

(* What a flush of e's does to what is asked of a Sink. *)
LEMMA FlushFacts ==
    ASSUME IInv, NEW e \in Endpoint, NEW c \in flush(CallOf(e)), Apply(e, c),
           UNCHANGED <<up, alive, yielded>>
    PROVE  /\ MadeCall(e, c) /\ NoMore(CallOf(e), c) /\ c.msg = NoFrame
           /\ c.ws.state = "Active" <=> inner[e].state = "Active"
           /\ up /\ ~Pending(c) => c.ws.out = <<>>
           /\ Len(inner[e].out) < MaxOut => c.ws.additional = NoFrame
<1>1. /\ Continues(Written(e), CallOf(e), c) /\ (c.res = "Ok" => c.ws.out = <<>>)
      /\ Len(inner[e].out) < MaxOut => c.ws.additional = NoFrame
  BY CallFacts, Flush
<1>2. MadeCall(e, c)
  BY <1>1, ProceedsMade DEF Continues
<1>3. up /\ ~Pending(c) => c.ws.out = <<>>
  BY <1>1, CallFacts DEF Continues, Proceeds, Pending
<1>4. QED
  BY <1>1, <1>2, <1>3, CallFacts DEF Continues, Proceeds

LEMMA ReadySink ==
    ASSUME IInv, SinkIInv, NEW e \in Endpoint, poll_ready(e)
    PROVE  SinkIInv'
<1> USE PeerFacts
<1>1. SinkOK(e) /\ SinkOK(Peer(e)) /\ UNCHANGED <<up, alive, accepted, yielded, told>>
  BY DEF SinkIInv, poll_ready, history
<1>2. CASE ready[e] /\ permit' = [permit EXCEPT ![e] = TRUE] /\ UNCHANGED <<stream, net>>
  <2>1. ASSUME NEW x \in Endpoint PROVE SinkOK(x)'
    <3>1. Written(x)' = Written(x) /\ Live(x)' = Live(x) /\ Written(x) \in Seq(Frames)
      BY <1>1, <1>2, CallFacts DEF Written, Live
    <3>2. permit'[x] => permit[x] \/ ready[x]
      BY <1>2 DEF IInv, Types
    <3>3. SinkOK(x)
      BY DEF SinkIInv
    <3>4. QED
      BY <1>1, <1>2, <3>1, <3>2, <3>3, SinkUntouched DEF stream
  <2>2. QED
    BY <2>1 DEF SinkIInv
<1>3. ASSUME NEW c \in flush(CallOf(e)), Apply(e, c),
             ready' = [ready EXCEPT ![e] = ~Pending(c)],
             permit' = [permit EXCEPT ![e] = c.res = "Ok"], UNCHANGED <<closing, ended>>
      PROVE  SinkIInv'
  <2>1. /\ MadeCall(e, c) /\ NoMore(CallOf(e), c) /\ c.msg = NoFrame
        /\ c.ws.state = "Active" <=> inner[e].state = "Active"
        /\ up /\ ~Pending(c) => c.ws.out = <<>>
    BY <1>1, <1>3, FlushFacts
  <2>2. /\ inner'[e] = c.ws /\ up' = up /\ closing' = closing
        /\ ready'[e] = ~Pending(c) /\ permit'[e] = (c.res = "Ok")
        /\ ready'[Peer(e)] = ready[Peer(e)] /\ permit'[Peer(e)] = permit[Peer(e)]
    BY <1>1, <1>3, <2>1, Applied DEF MadeCall, IInv, Types
  <2>3. CloseOf(e)'
    BY <1>1, <2>1, CallCloses DEF SinkOK
  <2>4. BacklogOf(e)'
    BY <1>1, <2>1, <2>2, CallBacklog DEF SinkOK
  <2>5. FlagsOf(e)'
    BY <1>1, <2>1, <2>2 DEF SinkOK, FlagsOf, Pending
  <2>6. SinkOK(Peer(e))'
    BY <1>1, <2>1, <2>2, OtherSink
  <2>7. QED
    BY <2>3, <2>4, <2>5, <2>6 DEF SinkIInv, SinkOK
<1>4. QED
  BY <1>2, <1>3 DEF poll_ready

LEMMA FlushSink ==
    ASSUME IInv, SinkIInv, NEW e \in Endpoint, poll_flush(e)
    PROVE  SinkIInv'
<1> USE PeerFacts
<1>1. PICK c \in flush(CallOf(e)) :
        /\ Apply(e, c)
        /\ ready' = [ready EXCEPT ![e] = @ \/ ~Pending(c)]
        /\ told' = [told EXCEPT ![e].flushed = IF Flushed(c) THEN Len(accepted[e]) ELSE @]
  BY DEF poll_flush, FlushCall
<1>2. /\ UNCHANGED <<closing, ended, up, alive, permit, accepted, yielded>>
      /\ SinkOK(e) /\ SinkOK(Peer(e))
  BY DEF poll_flush, SinkIInv
<1>3. /\ MadeCall(e, c) /\ NoMore(CallOf(e), c) /\ c.msg = NoFrame
      /\ c.ws.state = "Active" <=> inner[e].state = "Active"
      /\ up /\ ~Pending(c) => c.ws.out = <<>>
  BY <1>1, <1>2, FlushFacts
<1>4. inner'[e] = c.ws
  BY <1>2, <1>3, Applied DEF MadeCall
<1>5. /\ ready'[e] = (ready[e] \/ ~Pending(c)) /\ ready'[Peer(e)] = ready[Peer(e)]
      /\ told'[e].closed = told[e].closed /\ told'[e].full = told[e].full
      /\ told'[Peer(e)] = told[Peer(e)]
  <2>1. told \in [Endpoint -> Told] /\ told[e] \in Told /\ ready \in [Endpoint -> BOOLEAN]
    BY DEF IInv, Types
  <2>2. QED
    BY <1>1, <2>1 DEF Told
<1>6. CloseOf(e)'
  BY <1>2, <1>3, <1>5, CallCloses DEF SinkOK
<1>7. BacklogOf(e)'
  BY <1>2, <1>3, <1>5, CallBacklog DEF SinkOK
<1>8. FlagsOf(e)'
  BY <1>2, <1>3, <1>4, <1>5 DEF SinkOK, FlagsOf
<1>9. SinkOK(Peer(e))'
  BY <1>2, <1>3, <1>5, OtherSink
<1>10. QED
  BY <1>6, <1>7, <1>8, <1>9 DEF SinkIInv, SinkOK

(* The Close that poll_close queues, or finds queued, is on the transport  *)
(* when poll_close says so; the next poll_close flushes what blocked it.   *)
LEMMA CloseSink ==
    ASSUME IInv, SinkIInv, NEW e \in Endpoint, poll_close(e)
    PROVE  SinkIInv'
<1> USE PeerFacts
<1>1. PICK c \in CloseCall(e) :
        /\ Apply(e, c)
        /\ ready' = [ready EXCEPT ![e] = TRUE]
        /\ closing' = [closing EXCEPT ![e] = @ \/ Pending(c)]
        /\ told' = [told EXCEPT
                      ![e].flushed = IF Flushed(c) THEN Len(accepted[e]) ELSE @,
                      ![e].closed = @ \/ Flushed(c),
                      ![e].full = @ \/ CloseRefused(e) \/ (Flushed(c) /\ ReplyWaits(e))]
  BY DEF poll_close
<1>2. /\ UNCHANGED <<ended, up, alive, permit, accepted, yielded>>
      /\ SinkOK(e) /\ SinkOK(Peer(e))
  BY DEF poll_close, SinkIInv
<1>3. /\ ready'[e] /\ ready'[Peer(e)] = ready[Peer(e)]
      /\ closing'[e] = (closing[e] \/ Pending(c)) /\ closing'[Peer(e)] = closing[Peer(e)]
      /\ told'[e].closed = (told[e].closed \/ Flushed(c))
      /\ told'[e].full = (told[e].full \/ CloseRefused(e) \/ (Flushed(c) /\ ReplyWaits(e)))
      /\ told'[Peer(e)] = told[Peer(e)]
  <2>1. /\ told \in [Endpoint -> Told] /\ told[e] \in Told
        /\ ready \in [Endpoint -> BOOLEAN] /\ closing \in [Endpoint -> BOOLEAN]
    BY DEF IInv, Types
  <2>2. QED
    BY <1>1, <2>1 DEF Told
<1>4. ~Full(e) => Len(inner[e].out) < MaxOut
  BY CallFacts, TranscriptType, BufferAssumption DEF Full
<1>5. /\ MadeCall(e, c) /\ NoMore(CallOf(e), c) /\ c.msg = NoFrame
      /\ c.ws.state # "Active" /\ (up /\ Flushed(c) => c.ws.out = <<>>)
      /\ inner[e].state = "Active" /\ ~Full(e) => ~NoClose(Transcript(Written(e), c))
      /\ ~CloseRefused(e) /\ ~ReplyWaits(e) /\ Live(e) /\ ~told[e].full =>
            ~NoClose(Transcript(Written(e), c))
  <2>1. CASE closing[e]
    <3>1. inner[e].state # "Active" /\ c \in flush(CallOf(e))
      BY <1>1, <1>2, <2>1 DEF SinkOK, FlagsOf, CloseCall
    <3>2. /\ MadeCall(e, c) /\ NoMore(CallOf(e), c) /\ c.msg = NoFrame
          /\ c.ws.state # "Active" /\ (up /\ ~Pending(c) => c.ws.out = <<>>)
          /\ Len(inner[e].out) < MaxOut => c.ws.additional = NoFrame
      BY <1>1, <1>2, <3>1, FlushFacts
    <3>3. ~CloseRefused(e) /\ ~ReplyWaits(e) /\ Live(e) /\ ~told[e].full =>
             ~NoClose(Transcript(Written(e), c))
      <4>1. Live(e) /\ ~told[e].full =>
               inner[e].additional = CloseFrame \/ ~NoClose(Written(e) \o inner[e].out)
        BY <1>2, <3>1 DEF SinkOK, CloseOf
      <4>2. QED
        BY <1>4, <3>2, <4>1, CallFacts, FrameFacts DEF MadeCall, ClosesAlike, ReplyWaits
    <3>4. QED
      BY <3>1, <3>2, <3>3 DEF Pending, Flushed
  <2>2. CASE ~closing[e]
    <3>1. c \in close(CallOf(e))
      BY <1>1, <2>2 DEF CloseCall
    <3>2. /\ Proceeds(Written(e), CallOf(e), c)
          /\ c.ws.state # "Active" /\ (c.res = "Ok" => c.ws.out = <<>>)
          /\ NoMore(CallOf(e), c)
          /\ Len(inner[e].out) < MaxOut /\ MustClose(inner[e], Written(e) \o inner[e].out) =>
                ~NoClose(Transcript(Written(e), c))
      <4>1. /\ CallOf(e) \in Calls /\ CallOf(e).res = "Ok" /\ CallOf(e).ws = inner[e]
            /\ Transcript(Written(e), CallOf(e)) = Written(e) \o inner[e].out
            /\ Consistent(CallOf(e).ws, Transcript(Written(e), CallOf(e)))
            /\ Written(e) \in Seq(Frames)
        BY CallFacts
      <4>2. /\ Proceeds(Written(e), CallOf(e), c)
            /\ c.ws.state # "Active" /\ (c.res = "Ok" => c.ws.out = <<>>)
            /\ NoMore(CallOf(e), c)
            /\ Len(CallOf(e).ws.out) < MaxOut
               /\ MustClose(CallOf(e).ws, Transcript(Written(e), CallOf(e))) =>
                  ~NoClose(Transcript(Written(e), c))
        BY <3>1, <4>1, Closing
      <4>3. QED
        BY <4>1, <4>2
    <3>3. MadeCall(e, c)
      BY <1>1, <1>2, <3>2, ProceedsMade
    <3>4. Live(e) /\ ~told[e].full => MustClose(inner[e], Written(e) \o inner[e].out)
      BY <1>2 DEF SinkOK, CloseOf, MustClose
    <3>5. up /\ Flushed(c) => c.ws.out = <<>>
      BY <3>2, CallFacts DEF Proceeds, Flushed
    <3>6. inner[e].state = "Active" => MustClose(inner[e], Written(e) \o inner[e].out)
      BY DEF MustClose
    <3>7. c.msg = NoFrame
      BY <3>2, CallFacts DEF Proceeds
    <3>8. ASSUME Full(e), ~CloseRefused(e), ~ReplyWaits(e), Live(e), ~told[e].full
          PROVE  ~NoClose(Transcript(Written(e), c))
      <4>1. ~NoClose(Transcript(Written(e), CallOf(e)))
        BY <3>4, <3>8, CallFacts DEF MustClose, CloseRefused, ReplyWaits
      <4>2. QED
        BY <3>3, <4>1 DEF MadeCall, ClosesAlike
    <3>9. QED
      BY <1>4, <3>2, <3>3, <3>4, <3>5, <3>6, <3>7, <3>8
  <2>3. QED
    BY <2>1, <2>2
<1>6. inner'[e] = c.ws
  BY <1>2, <1>5, Applied DEF MadeCall
<1>7. ASSUME Live(e), ~told'[e].full, told'[e].closed
      PROVE  told[e].closed \/ ~NoClose(Written(e) \o c.sent)
  <2>1. CASE Flushed(c)
    <3>1. ~told[e].full /\ ~CloseRefused(e) /\ ~ReplyWaits(e) /\ up
      BY <1>3, <1>7, <2>1 DEF Live
    <3>2. c.ws.out = <<>> /\ ~NoClose(Transcript(Written(e), c))
      BY <1>5, <1>7, <2>1, <3>1
    <3>3. c.sent \o <<>> = c.sent
      BY <1>5, CallFacts, TranscriptType, ConcatEmptySeq DEF MadeCall
    <3>4. QED
      BY <3>2, <3>3 DEF Transcript
  <2>2. QED
    BY <1>3, <1>7, <2>1
<1>8. CloseOf(e)'
  BY <1>2, <1>3, <1>5, <1>7, CallCloses DEF SinkOK, CloseRefused
<1>9. BacklogOf(e)'
  BY <1>2, <1>3, <1>5, CallBacklog DEF SinkOK
<1>10. FlagsOf(e)'
  BY <1>3, <1>5, <1>6 DEF FlagsOf
<1>11. SinkOK(Peer(e))'
  BY <1>2, <1>3, <1>5, OtherSink
<1>12. QED
  BY <1>8, <1>9, <1>10, <1>11 DEF SinkIInv, SinkOK

(* start_send leaves one message more than poll_ready left room for; it is *)
(* ready again only if that has been written out.                          *)
LEMMA SendSink ==
    ASSUME IInv, SinkIInv, NEW e \in Endpoint, NEW op \in SendOps, start_send(e, op)
    PROVE  SinkIInv'
<1> USE PeerFacts
<1> DEFINE f == IF op = "Close" THEN CloseFrame ELSE [op |-> op, id |-> Len(accepted[e]) + 1]
<1>1. PICK c \in write(CallOf(e), f) : Apply(e, c) /\ ready' = [ready EXCEPT ![e] = ~Blocked(c)]
  BY DEF start_send
<1>2. /\ UNCHANGED <<closing, ended, up, alive, yielded>> /\ permit[e]
      /\ permit' = [permit EXCEPT ![e] = FALSE]
      /\ told' = [told EXCEPT ![e].full = @ \/ (op = "Close" /\ CloseRefused(e))]
      /\ SinkOK(e) /\ SinkOK(Peer(e))
  BY DEF start_send, SinkIInv
<1>3. /\ f \in Frames /\ (IsMessage(f) \/ f.op = "Close") /\ (op = "Close" <=> ~IsMessage(f))
  <2>1. op \in {"Data", "Ping", "Close"} /\ Len(accepted[e]) + 1 \in Nat
    BY ConnectionAssumption, Carried
  <2>2. QED
    BY <2>1, FrameFacts DEF IsMessage, Frames
<1> HIDE DEF f
<1>4. /\ ready'[e] = ~Blocked(c) /\ ready'[Peer(e)] = ready[Peer(e)]
      /\ ~permit'[e] /\ permit'[Peer(e)] = permit[Peer(e)]
      /\ told'[e].closed = told[e].closed
      /\ told'[e].full = (told[e].full \/ (op = "Close" /\ CloseRefused(e)))
      /\ told'[Peer(e)] = told[Peer(e)]
  <2>1. /\ told \in [Endpoint -> Told] /\ told[e] \in Told
        /\ ready \in [Endpoint -> BOOLEAN] /\ permit \in [Endpoint -> BOOLEAN]
    BY DEF IInv, Types
  <2>2. QED
    BY <1>1, <1>2, <2>1 DEF Told
<1>5. /\ Proceeds(Written(e), CallOf(e), c)
      /\ IsMessage(f) /\ Queued(c) => inner[e].state = "Active"
      /\ IF IsMessage(f) /\ (Queued(c) \/ ~up) THEN OneMore(CallOf(e), c) ELSE NoMore(CallOf(e), c)
      /\ IsMessage(f) /\ c.res = "Ok" => Waiting(c.ws.out) <= WriteLen
      /\ IsMessage(f) /\ inner[e].state = "Active" => c.ws.state = "Active"
      /\ ~IsMessage(f) /\ inner[e].state = "Active" =>
            c.ws.state # "Active"
            /\ (Len(inner[e].out) < MaxOut => ~NoClose(Transcript(Written(e), c)))
  <2>1. /\ CallOf(e) \in Calls /\ CallOf(e).res = "Ok" /\ CallOf(e).ws = inner[e]
        /\ CallOf(e).up = up /\ Written(e) \in Seq(Frames)
        /\ Consistent(CallOf(e).ws, Transcript(Written(e), CallOf(e)))
    BY CallFacts
  <2>2. /\ Proceeds(Written(e), CallOf(e), c)
        /\ IsMessage(f) /\ Queued(c) => CallOf(e).ws.state = "Active"
        /\ IF IsMessage(f) /\ (Queued(c) \/ ~CallOf(e).up)
           THEN OneMore(CallOf(e), c) ELSE NoMore(CallOf(e), c)
        /\ IsMessage(f) /\ c.res = "Ok" => Waiting(c.ws.out) <= WriteLen
        /\ IsMessage(f) /\ CallOf(e).ws.state = "Active" => c.ws.state = "Active"
        /\ ~IsMessage(f) /\ CallOf(e).ws.state = "Active" =>
              c.ws.state # "Active"
              /\ (Len(CallOf(e).ws.out) < MaxOut => ~NoClose(Transcript(Written(e), c)))
    BY <1>1, <1>3, <2>1, Write
  <2>3. QED
    BY <2>1, <2>2
<1>6. /\ MadeCall(e, c) /\ c.msg = NoFrame
      /\ c.ws.state = "Active" => inner[e].state = "Active"
  BY <1>1, <1>2, <1>5, ProceedsMade, CallFacts DEF Proceeds
<1>7. inner'[e] = c.ws
  BY <1>2, <1>6, Applied DEF MadeCall
<1>8. CloseOf(e)'
  <2>1. ~Full(e) => Len(inner[e].out) < MaxOut
    BY CallFacts, TranscriptType, BufferAssumption DEF Full
  <2>2. /\ told[e].full => told'[e].full
        /\ ~told'[e].full /\ inner[e].state = "Active" /\ c.ws.state # "Active" =>
              ~NoClose(Transcript(Written(e), c))
    BY <1>3, <1>4, <1>5, <2>1 DEF CloseRefused
  <2>3. QED
    BY <1>2, <1>4, <1>6, <2>2, CallCloses DEF SinkOK
<1>9. BacklogOf(e)'
  <2>1. CASE ~IsMessage(f)
    <3>1. c.ws.state # "Active" /\ NoMore(CallOf(e), c)
      BY <1>5, <1>6, <2>1
    <3>2. QED
      BY <1>2, <1>6, <3>1, CallBacklog DEF SinkOK
  <2>2. CASE IsMessage(f)
    <3> SUFFICES ASSUME up
                 PROVE  /\ Waiting(c.ws.out) <= WriteLen + 1
                        /\ ready'[e] /\ c.ws.state = "Active" => Waiting(c.ws.out) <= WriteLen
      BY <1>2, <1>7 DEF BacklogOf
    <3>1. /\ WriteLen \in Nat /\ WriteLen + 1 \in Nat /\ CallOf(e).ws = inner[e]
          /\ Waiting(inner[e].out) <= WriteLen + 1
          /\ inner[e].state = "Active" => Waiting(inner[e].out) <= WriteLen
      <4>1. BacklogOf(e) /\ FlagsOf(e) /\ permit[e]
        BY <1>2 DEF SinkOK
      <4>2. /\ Waiting(inner[e].out) <= WriteLen + 1
            /\ inner[e].state = "Active" => Waiting(inner[e].out) <= WriteLen
        BY <4>1 DEF BacklogOf, FlagsOf
      <4>3. WriteLen \in Nat /\ WriteLen + 1 \in Nat
        BY BufferAssumption
      <4>4. QED
        BY <4>2, <4>3, CallFacts
    <3>2. CASE Queued(c)
      <4>1. Waiting(c.ws.out) <= WriteLen + 1
        BY <1>5, <2>2, <3>1, <3>2 DEF OneMore
      <4>2. ready'[e] => c.res = "Ok"
        BY <1>4, <3>2 DEF Queued, Blocked
      <4>3. QED
        BY <1>5, <2>2, <4>1, <4>2
    <3>3. CASE ~Queued(c)
      <4>1. NoMore(CallOf(e), c)
        BY <1>5, <2>2, <3>3
      <4>2. QED
        BY <1>6, <3>1, <4>1 DEF NoMore
    <3>4. QED
      BY <3>2, <3>3
  <2>3. QED
    BY <2>1, <2>2
<1>10. FlagsOf(e)'
  BY <1>2, <1>4, <1>6, <1>7 DEF SinkOK, FlagsOf
<1>11. SinkOK(Peer(e))'
  BY <1>2, <1>4, <1>6, OtherSink
<1>12. QED
  BY <1>8, <1>9, <1>10, <1>11 DEF SinkIInv, SinkOK

(* A Stream that reads its peer's Close has put aside the Close to answer  *)
(* with; and a Close it takes off the transport, it returns.               *)
LEMMA ReadSink ==
    ASSUME IInv, SinkIInv, NEW e \in Endpoint, poll_next(e)
    PROVE  SinkIInv'
<1> DEFINE p == Peer(e)
<1>0. p \in Endpoint /\ Peer(p) = e /\ p # e /\ \A x \in Endpoint : x = e \/ x = p
  BY PeerFacts
<1>1. PICK c \in Calls :
        /\ Apply(e, c)
        /\ yielded' = [yielded EXCEPT ![e] =
                         IF c.res = "Ok" /\ c.msg.op # "Pong" THEN Append(@, c.msg) ELSE @]
        /\ told' = [told EXCEPT ![e].clean = NormalEnd(c)]
        /\ Receives(Written(e), CallOf(e), c, net[e], ~alive[p])
        /\ Taken(e, c.msg)
  BY ReadCall
<1>2. UNCHANGED <<ready, closing, up, alive, permit, accepted>> /\ SinkOK(e) /\ SinkOK(p)
  BY <1>0 DEF poll_next, SinkIInv
<1>3. /\ yielded'[p] = yielded[p] /\ told'[p] = told[p]
      /\ told'[e].closed = told[e].closed /\ told'[e].full = told[e].full
  <2>1. /\ told \in [Endpoint -> Told] /\ told[e] \in Told
        /\ yielded \in [Endpoint -> Seq(Frames)]
    BY DEF IInv, Types
  <2>2. QED
    BY <1>0, <1>1, <2>1 DEF Told
<1>4. /\ MadeCall(e, c) /\ NoMore(CallOf(e), c)
      /\ c.ws.state = "Active" => inner[e].state = "Active"
      /\ inner[e].state = "Active" /\ c.ws.state # "Active" =>
            c.ws.additional = CloseFrame \/ ~alive[p]
  BY <1>1, <1>2, <1>3, CallFacts DEF Receives, MadeCall
<1>5. /\ inner'[e] = c.ws /\ inner'[p] = inner[p] /\ Live(p)' = Live(p)
  BY <1>0, <1>2, <1>4, Applied DEF MadeCall
<1>6. CloseOf(e)'
  <2>1. Live(e) => alive[p]
    BY DEF Live
  <2>2. QED
    BY <1>2, <1>3, <1>4, <2>1, CallCloses DEF SinkOK
<1>7. BacklogOf(e)'
  BY <1>2, <1>4, CallBacklog DEF SinkOK
<1>8. FlagsOf(e)'
  BY <1>2, <1>4, <1>5 DEF SinkOK, FlagsOf
<1>9. SinkOK(p)'
  <2>1. /\ Written(p)' = yielded'[e] \o net'[e] /\ Written(p) = yielded[e] \o net[e]
    BY <1>0 DEF Written
  <2>2. Written(p)' \in Seq(Frames) /\ (~NoClose(Written(p)) => ~NoClose(Written(p)'))
    <3>1. /\ yielded'[e] \in Seq(Frames) /\ net'[e] \in Seq(Frames)
          /\ ~NoClose(yielded[e] \o net[e]) => ~NoClose(yielded'[e] \o net'[e])
      BY <1>1, TakenFlow
    <3>2. yielded'[e] \o net'[e] \in Seq(Frames)
      BY <3>1, ConcatProperties
    <3>3. QED
      BY <2>1, <3>1, <3>2
  <2> HIDE DEF p
  <2>3. QED
    BY <1>0, <1>2, <1>3, <1>5, <2>2, SinkUntouched
<1>10. QED
  BY <1>0, <1>6, <1>7, <1>8, <1>9 DEF SinkIInv, SinkOK

LEMMA DropSink ==
    ASSUME IInv, SinkIInv, NEW e \in Endpoint, drop(e)
    PROVE  SinkIInv'
<1>1. /\ UNCHANGED <<inner, ready, closing, ended, up, permit, accepted, yielded, told>>
      /\ alive' = [alive EXCEPT ![e] = FALSE] /\ net' = [net EXCEPT ![e] = <<>>]
      /\ alive \in [Endpoint -> BOOLEAN] /\ net \in [Endpoint -> Seq(Frames)]
  BY DEF drop, stream, history, IInv, Types
<1>2. ASSUME NEW x \in Endpoint PROVE SinkOK(x)'
  <2>1. Peer(x) \in Endpoint /\ Written(x) \in Seq(Frames) /\ SinkOK(x)
    BY PeerFacts, CallFacts DEF SinkIInv
  <2>2. CASE Peer(x) = e
    <3>1. ~Live(x)'
      BY <1>1, <2>2 DEF Live
    <3>2. QED
      BY <1>1, <2>1, <3>1, SinkUntouched
  <2>3. CASE Peer(x) # e
    <3>1. Live(x)' = Live(x) /\ Written(x)' = Written(x)
      BY <1>1, <2>1, <2>3 DEF Live, Written
    <3>2. QED
      BY <1>1, <2>1, <3>1, SinkUntouched
  <2>4. QED
    BY <2>2, <2>3
<1>3. QED
  BY <1>2 DEF SinkIInv

LEMMA ResetSink ==
    ASSUME IInv, SinkIInv, reset
    PROVE  SinkIInv'
<1>1. UNCHANGED <<inner, ready, closing, permit, told>> /\ up' = FALSE
  BY DEF reset, stream, history
<1>2. ASSUME NEW x \in Endpoint PROVE SinkOK(x)'
  <2>1. ~Live(x)' /\ SinkOK(x)
    BY <1>1 DEF Live, SinkIInv
  <2>2. QED
    BY <1>1, <2>1, SinkUntouched
<1>3. QED
  BY <1>2 DEF SinkIInv

LEMMA InitSink == Init => SinkIInv
<1> SUFFICES ASSUME Init, NEW e \in Endpoint PROVE SinkOK(e)
  BY DEF SinkIInv
<1>1. /\ inner[e].state = "Active" /\ inner[e].out = <<>>
      /\ ~told[e].closed /\ ~permit[e] /\ ~closing[e]
  BY DEF Init, NewWebSocket
<1>2. Waiting(<<>>) = 0 /\ WriteLen \in Nat
  BY WaitingFacts, EmptySeq, BufferAssumption
<1>3. QED
  BY <1>1, <1>2 DEF SinkOK, CloseOf, BacklogOf, FlagsOf

LEMMA NextSink == IInv /\ SinkIInv /\ [Next]_vars => SinkIInv'
<1> SUFFICES ASSUME IInv, SinkIInv, [Next]_vars PROVE SinkIInv'
  OBVIOUS
<1>1. CASE UNCHANGED vars
  <2>1. UNCHANGED <<inner, net, up, alive, yielded, told, ready, closing, permit>>
    BY <1>1 DEF vars, stream, transport, history
  <2>2. ASSUME NEW x \in Endpoint PROVE SinkOK(x)'
    <3>1. Written(x)' = Written(x) /\ Live(x)' = Live(x) /\ Written(x) \in Seq(Frames) /\ SinkOK(x)
      BY <2>1, CallFacts DEF Written, Live, SinkIInv
    <3>2. QED
      BY <2>1, <3>1, SinkUntouched
  <2>3. QED
    BY <2>2 DEF SinkIInv
<1>2. QED
  BY <1>1, ReadSink, ReadySink, SendSink, FlushSink, CloseSink, DropSink, ResetSink
     DEF Next, finished

LEMMA SinkInductive == Spec => []SinkIInv
  BY InitSink, Inductive, NextSink, PTL DEF Spec
-----------------------------------------------------------------------------
(* Once a Stream has returned the peer's Close, it has returned everything *)
(* that the peer's Sink ever took.                                         *)
LEMMA CloseSaysAll ==
    ASSUME IInv, NEW e \in Endpoint, ~NoClose(yielded[e])
    PROVE  Closed(yielded[e]) /\ Messages(yielded[e]) = accepted[Peer(e)]
<1> DEFINE y == yielded[e]
           n == net[e]
           taken == accepted[Peer(e)]
           s == y \o n
<1>1. /\ y \in Seq(Frames) /\ n \in Seq(Frames) /\ taken \in Seq(Frames) /\ Numbered(taken)
      /\ Flow(inner[Peer(e)], s, taken, Live(Peer(e)))
      /\ \A i \in 1..Len(y) : y[i] \in Frames /\ y[i].op # "Pong"
      /\ \A i \in 1..Len(y) : IsMessage(y[i]) => y[i].id = i
  BY Inbound
<1>2. Carries(s, taken)
  <2>1. ~NoClose(s)
    BY <1>1, CloseStays
  <2>2. QED
    BY <1>1, <2>1 DEF Flow
<1>3. OneClose(y)
  <2> DEFINE out == inner[Peer(e)].out
  <2>1. /\ out \in Seq(Frames) /\ s \in Seq(Frames) /\ OneClose(s \o out)
    BY <1>1, FlowFacts, ConcatProperties DEF Flow, Consistent
  <2> HIDE DEF out
  <2>2. \A i \in 1..Len(y) : i \in 1..Len(s) /\ s[i] = y[i]
    BY <1>1, Front
  <2> HIDE DEF s, y
  <2>3. \A i \in 1..Len(s) : i \in 1..Len(s \o out) /\ (s \o out)[i] = s[i]
    BY <2>1, Front
  <2>4. QED
    BY <2>1, <2>2, <2>3 DEF OneClose
<1>4. \A i \in 1..Len(n) : n[i].op = "Pong"
  BY AfterTheClose
<1>5. /\ \A i \in 1..Len(s) : IsMessage(s[i]) => \E k \in 1..Len(taken) : s[i] = taken[k]
      /\ \A k \in 1..Len(taken) : \E i \in 1..Len(s) : s[i] = taken[k]
      /\ s \in Seq(Frames)
  <2>1. s \in Seq(Frames)
    BY <1>1, ConcatProperties
  <2> HIDE DEF s, taken
  <2>2. QED
    BY <1>1, <1>2, <2>1, CarriesLen
<1>6. PICK a, b, t \in Nat : a = Len(y) /\ b = Len(n) /\ t = Len(taken)
  BY <1>1, LenProperties
<1>7. /\ Len(s) = a + b
      /\ \A i \in 1..a : i \in 1..Len(s) /\ s[i] = y[i]
      /\ \A i \in 1..(a + b) : i \in 1..a \/ s[i].op = "Pong"
  <2>1. /\ Len(s) = a + b /\ \A i \in 1..a : i \in 1..Len(s) /\ s[i] = y[i]
    BY <1>1, <1>6, Front
  <2>2. ASSUME NEW i \in 1..(a + b), i \notin 1..a PROVE s[i].op = "Pong"
    <3>1. i - a \in 1..b /\ a + (i - a) = i
      BY <2>2
    <3>2. s[a + (i - a)] = n[i - a]
      BY <1>1, <1>6, <3>1, Front
    <3>3. QED
      BY <1>4, <1>6, <3>1, <3>2
  <2>3. QED
    BY <2>1, <2>2
<1> HIDE DEF s, n, taken, y
<1>8. PICK z \in 1..a : y[z].op = "Close"
  BY <1>6 DEF NoClose, y
<1>9. z = a /\ a \in 1..a
  <2>1. ~(z < a)
    <3>1. a \in 1..a
      BY <1>8
    <3>2. QED
      BY <1>1, <1>3, <1>6, <1>8, <3>1 DEF OneClose
  <2>2. QED
    BY <1>8, <2>1
<1>10. \A i \in 1..(a - 1) : i \in 1..a /\ IsMessage(y[i]) /\ y[i].id = i
  <2>1. ASSUME NEW i \in 1..(a - 1) PROVE i \in 1..a /\ IsMessage(y[i]) /\ y[i].id = i
    <3>1. i \in 1..a /\ i < a
      BY <1>9
    <3>2. y[i].op # "Close"
      BY <1>1, <1>3, <1>6, <1>8, <1>9, <3>1 DEF OneClose
    <3>3. y[i].op # "Pong" /\ y[i] \in Frames
      BY <1>1, <1>6, <3>1
    <3>4. IsMessage(y[i])
      BY <3>2, <3>3, FrameFacts DEF IsMessage
    <3>5. QED
      BY <1>1, <1>6, <3>1, <3>4
  <2>2. QED
    BY <2>1
<1>11. \A i \in 1..(a - 1) : i \in 1..t /\ y[i] = taken[i]
  <2>1. ASSUME NEW i \in 1..(a - 1) PROVE i \in 1..t /\ y[i] = taken[i]
    <3>1. i \in 1..Len(s) /\ s[i] = y[i] /\ IsMessage(y[i]) /\ y[i].id = i
      BY <1>7, <1>10
    <3>2. PICK k \in 1..Len(taken) : s[i] = taken[k]
      BY <1>5, <3>1
    <3>3. taken[k].id = k
      BY <1>1, <3>2 DEF Numbered
    <3>4. QED
      BY <1>6, <3>1, <3>2, <3>3
  <2>2. QED
    BY <2>1
<1>12. \A k \in 1..t : k \in 1..(a - 1)
  <2>1. ASSUME NEW k \in 1..t PROVE k \in 1..(a - 1)
    <3>1. PICK i \in 1..Len(s) : s[i] = taken[k]
      BY <1>5, <1>6
    <3>2. IsMessage(taken[k]) /\ taken[k].id = k
      BY <1>1, <1>6 DEF Numbered
    <3>3. i \in 1..(a + b) /\ s[i].op # "Pong" /\ s[i].op # "Close"
      BY <1>7, <3>1, <3>2 DEF IsMessage
    <3>4. i \in 1..a /\ i # a
      <4>1. i \in 1..a
        BY <1>7, <3>3
      <4>2. QED
        BY <1>7, <1>8, <1>9, <3>3, <4>1
    <3>5. i \in 1..(a - 1)
      BY <3>4
    <3>6. i = k
      BY <1>7, <1>10, <3>1, <3>2, <3>5
    <3>7. QED
      BY <3>5, <3>6
  <2>2. QED
    BY <2>1
<1>13. t = a - 1
  <2>1. a - 1 <= t
    <3>1. CASE a = 1
      BY <3>1
    <3>2. CASE a > 1
      <4>1. a - 1 \in 1..(a - 1)
        BY <3>2
      <4>2. QED
        BY <1>11, <4>1
    <3>3. QED
      BY <1>9, <3>1, <3>2
  <2>2. t <= a - 1
    <3>1. CASE t = 0
      BY <1>9, <3>1
    <3>2. CASE t > 0
      <4>1. t \in 1..t
        BY <3>2
      <4>2. QED
        BY <1>12, <4>1
    <3>3. QED
      BY <3>1, <3>2
  <2>3. QED
    BY <2>1, <2>2
<1>14. Closed(y)
  <2>1. y # <<>>
    BY <1>6, <1>9, EmptySeq
  <2>2. QED
    BY <1>6, <1>8, <1>9, <2>1 DEF Closed
<1>15. SubSeq(y, 1, a - 1) = taken
  <2> DEFINE first == SubSeq(y, 1, a - 1)
  <2>1. a - 1 \in 0..Len(y) /\ a - 1 \in Int
    BY <1>6, <1>9
  <2>2. /\ first \in Seq(Frames)
        /\ Len(first) = IF 1 <= a - 1 THEN (a - 1) - 1 + 1 ELSE 0
        /\ \A i \in 1..((a - 1) - 1 + 1) : first[i] = y[1 + i - 1]
    <3>1. \A i \in 1..(a - 1) : y[i] \in Frames
      BY <1>1, <1>6, <1>10
    <3>2. QED
      BY <2>1, <3>1, SubSeqProperties
  <2> HIDE DEF first
  <2>3. Len(first) = t
    BY <1>9, <1>13, <2>2
  <2>4. \A i \in 1..t : first[i] = taken[i]
    <3>1. ASSUME NEW i \in 1..t PROVE first[i] = taken[i]
      <4>1. i \in 1..((a - 1) - 1 + 1) /\ 1 + i - 1 = i /\ i \in 1..(a - 1)
        BY <1>13
      <4>2. first[i] = y[i]
        BY <2>2, <4>1
      <4>3. QED
        BY <1>11, <4>1, <4>2
    <3>2. QED
      BY <3>1
  <2>5. first = taken
    BY <1>1, <1>6, <2>2, <2>3, <2>4, SeqEqual
  <2>6. QED
    BY <2>5 DEF first
<1>16. QED
  BY <1>6, <1>14, <1>15 DEF Messages, y, taken
-----------------------------------------------------------------------------
(* Every state of two connected WebSocketStreams is well formed: no buffer *)
(* and no transport holds more than it may.                                *)
THEOREM TypeCorrect == Spec => []TypeOK
<1>1. IInv => TypeOK
  <2> SUFFICES ASSUME IInv PROVE TypeOK
    OBVIOUS
  <2>1. ASSUME NEW e \in Endpoint
        PROVE  /\ inner[e].state \in States
               /\ inner[e].additional \in Frames \cup {NoFrame}
               /\ inner[e].unflushed \in BOOLEAN
               /\ inner[e].out \in Seq(Frames) /\ Len(inner[e].out) <= MaxOut
    <3>1. inner[e] \in WebSockets /\ Len(inner[e].out) <= MaxOut
      BY DEF IInv, Flows, Flow, Consistent
    <3>2. Replies \subseteq Frames \cup {NoFrame}
      BY DEF Replies, Frames, CloseFrame
    <3>3. QED
      BY <3>1, <3>2 DEF WebSockets
  <2>2. QED
    BY <2>1 DEF IInv, Types, TypeOK, Told
<1>2. QED
  BY <1>1, Inductive, PTL

(* In each direction goes at most one Close, and behind it no message:     *)
(* whoever began to close, whatever was lost, and however often the polls  *)
(* of both halves were interleaved.                                        *)
THEOREM CloseIsLast == Spec => []NothingAfterClose
<1>1. IInv => NothingAfterClose
  <2> SUFFICES ASSUME IInv, NEW e \in Endpoint
               PROVE  LET all == Written(e) \o inner[e].out
                      IN  \A i, j \in DOMAIN all :
                            i < j /\ all[i].op = "Close" => all[j].op = "Pong"
    BY DEF NothingAfterClose
  <2> DEFINE all == Written(e) \o inner[e].out
  <2>1. OneClose(all) /\ all \in Seq(Frames)
    BY FlowFacts DEF IInv, Flows, Flow, Consistent
  <2> HIDE DEF all
  <2>2. DOMAIN all = 1..Len(all)
    BY <2>1
  <2>3. \A i, j \in DOMAIN all : i < j /\ all[i].op = "Close" => all[j].op = "Pong"
    BY <2>1, <2>2 DEF OneClose
  <2>4. QED
    BY <2>3 DEF all
<1>2. QED
  BY <1>1, Inductive, PTL

(* What start_send took is received, on its way, or queued: once, in       *)
(* order, and nothing else is; so swallowing WouldBlock neither loses nor  *)
(* doubles a message.                                                      *)
THEOREM SentOnce == Spec => []ExactlyOnceInOrder
<1>1. IInv => ExactlyOnceInOrder
  <2> SUFFICES ASSUME IInv, Undisturbed, NEW e \in Endpoint
               PROVE  Carries(Written(e) \o inner[e].out, accepted[e])
    BY DEF ExactlyOnceInOrder
  <2>1. Live(e)
    BY PeerFacts DEF Undisturbed, Live
  <2>2. QED
    BY <2>1 DEF IInv, Flows, Flow
<1>2. QED
  BY <1>1, Inductive, PTL

(* A flush that was reported complete has put on the transport all that    *)
(* start_send had taken, also when ConnectionClosed is what reported it.   *)
THEOREM FlushTells == Spec => []FlushIsComplete
<1>1. IInv => FlushIsComplete
  <2> SUFFICES ASSUME IInv, Undisturbed, NEW e \in Endpoint, NEW k \in 1..told[e].flushed
               PROVE  \E i \in DOMAIN Written(e) : Written(e)[i] = accepted[e][k]
    BY DEF FlushIsComplete
  <2>1. Live(e)
    BY PeerFacts DEF Undisturbed, Live
  <2>2. PICK i \in 1..Len(Written(e)) : Written(e)[i] = accepted[e][k]
    BY <2>1 DEF IInv, Flushes, FlushIsTrue
  <2>3. DOMAIN Written(e) = 1..Len(Written(e))
    BY CallFacts, LenProperties
  <2>4. QED
    BY <2>2, <2>3
<1>2. QED
  BY <1>1, Inductive, PTL

(* A Stream that ends with None has returned the peer's Close, and before  *)
(* it everything that the peer's Sink ever took.                           *)
THEOREM EndTells == Spec => []CleanEndIsComplete
<1>1. IInv => CleanEndIsComplete
  BY CloseSaysAll DEF CleanEndIsComplete, IInv, Endings
<1>2. QED
  BY <1>1, Inductive, PTL

(* A close that was reported complete has put a Close on the transport,    *)
(* whoever queued it and however often it blocked, unless a full write     *)
(* buffer refused it or keeps back the reply to the peer's.                *)
THEOREM CloseTells == Spec => []CloseIsSent
<1>1. IInv /\ SinkIInv => CloseIsSent
  <2> SUFFICES ASSUME IInv, SinkIInv, Undisturbed, NEW e \in Endpoint,
                      told[e].closed, ~told[e].full
               PROVE  \E i \in DOMAIN Written(e) : Written(e)[i].op = "Close"
    BY DEF CloseIsSent
  <2>1. Live(e)
    BY PeerFacts DEF Undisturbed, Live
  <2>2. ~NoClose(Written(e))
    BY <2>1 DEF SinkIInv, SinkOK, CloseOf
  <2>3. DOMAIN Written(e) = 1..Len(Written(e))
    BY CallFacts, LenProperties
  <2>4. QED
    BY <2>2, <2>3 DEF NoClose
<1>2. QED
  BY <1>1, Inductive, SinkInductive, PTL

(* While the connection lasts, whoever asks poll_ready before each         *)
(* start_send never has more than one message beyond write_buffer_size     *)
(* waiting: for any buffers, any messages, and however the polls of both   *)
(* halves take turns.                                                      *)
THEOREM BacklogBounded == Spec => []BoundedBacklog
<1>1. SinkIInv => BoundedBacklog
  BY DEF SinkIInv, SinkOK, BacklogOf, BoundedBacklog
<1>2. QED
  BY <1>1, SinkInductive, PTL
-----------------------------------------------------------------------------
(* The refinement of MessageChannel.                                       *)
over == [e \in Endpoint |->
            IF ~ended[e] THEN "open" ELSE IF told[e].clean THEN "clean" ELSE "error"]

(* A message start_send takes is one the peer's Stream can still return. *)
LEMMA Accepts ==
    ASSUME IInv, NEW e \in Endpoint, NEW op \in SendOps, start_send(e, op)
    PROVE  Channel!Next \/ UNCHANGED Channel!vars
<1> DEFINE f == IF op = "Close" THEN CloseFrame ELSE [op |-> op, id |-> Len(accepted[e]) + 1]
<1>1. PICK c \in write(CallOf(e), f) :
        accepted' = [accepted EXCEPT ![e] =
                       IF op # "Close" /\ Queued(c) THEN Append(@, f) ELSE @]
  BY DEF start_send
<1>2. /\ UNCHANGED <<ended, yielded>> /\ (op = "Close" \/ Len(accepted[e]) < MaxSend[e])
      /\ told' = [told EXCEPT ![e].full = @ \/ (op = "Close" /\ CloseRefused(e))]
  BY DEF start_send
<1>3. delivered' = delivered /\ over' = over
  <2>1. told \in [Endpoint -> Told]
    BY DEF IInv, Types
  <2>2. \A x \in Endpoint : told'[x].clean = told[x].clean
    BY <1>2, <2>1
  <2>3. QED
    BY <1>2, <2>2 DEF delivered, over
<1>4. CASE ~(op # "Close" /\ Queued(c))
  <2>1. accepted' = accepted
    BY <1>1, <1>4 DEF IInv, Types
  <2>2. QED
    BY <1>3, <2>1 DEF Channel!vars, delivered, over
<1>5. CASE op # "Close" /\ Queued(c)
  <2>1. /\ op \in {"Data", "Ping"} /\ Len(accepted[e]) \in Nat
        /\ f = [op |-> op, id |-> Len(accepted[e]) + 1]
        /\ Len(accepted[e]) < MaxSend[e]
    BY <1>2, <1>5, Carried, ConnectionAssumption
  <2>2. f \in [op : {"Data", "Ping"}, id : 1..(MaxSend["Client"] + MaxSend["Server"])]
    <3>1. /\ MaxSend["Client"] \in Nat /\ MaxSend["Server"] \in Nat
          /\ MaxSend[e] \in {MaxSend["Client"], MaxSend["Server"]}
      BY ConnectionAssumption DEF Endpoint
    <3>2. Len(accepted[e]) + 1 \in 1..(MaxSend["Client"] + MaxSend["Server"])
      BY <2>1, <3>1
    <3>3. QED
      BY <2>1, <3>2
  <2>3. f \in Frames /\ IsMessage(f)
    BY <2>1 DEF Frames, IsMessage
  <2> HIDE DEF f
  <2>4. inner[e].state = "Active"
    BY <1>1, <1>5, <2>3, CallFacts, Write
  <2>5. over[Peer(e)] # "clean"
    <3>1. Peer(e) \in Endpoint /\ Peer(Peer(e)) = e
      BY PeerFacts
    <3>2. Flow(inner[e], yielded[Peer(e)] \o net[Peer(e)], accepted[e], Live(e))
      BY <3>1, Inbound
    <3>3. NoClose(yielded[Peer(e)] \o net[Peer(e)])
      BY <2>4, <3>2, FlowFacts
    <3>4. NoClose(yielded[Peer(e)])
      BY <3>1, <3>3, Inbound, CloseStays
    <3>5. ~told[Peer(e)].clean
      BY <3>1, <3>4 DEF IInv, Endings
    <3>6. QED
      BY <3>1, <3>5 DEF over
  <2>6. accepted' = [accepted EXCEPT ![e] = Append(@, f)]
    BY <1>1, <1>5
  <2>7. Channel!accept(e, f)
    BY <1>3, <2>5, <2>6 DEF Channel!accept, delivered, over
  <2>8. QED
    BY <2>2, <2>7 DEF Channel!Next
<1>6. QED
  BY <1>4, <1>5

(* A message poll_next returns is the next one, and it ends normally when  *)
(* there is none left to come.                                             *)
LEMMA Delivers ==
    ASSUME IInv, NEW e \in Endpoint, poll_next(e)
    PROVE  Channel!Next \/ UNCHANGED Channel!vars
<1> DEFINE p == Peer(e)
           y == yielded[e]
<1>0. p \in Endpoint /\ Peer(p) = e /\ p # e /\ \A x \in Endpoint : x = e \/ x = p
  BY PeerFacts
<1>1. PICK c \in Calls :
        /\ ended' = [ended EXCEPT ![e] = Ends(c)]
        /\ yielded' = [yielded EXCEPT ![e] =
                         IF c.res = "Ok" /\ c.msg.op # "Pong" THEN Append(@, c.msg) ELSE @]
        /\ told' = [told EXCEPT ![e].clean = NormalEnd(c)]
        /\ Receives(Written(e), CallOf(e), c, net[e], ~alive[p])
  BY ReadCall
<1>2. accepted' = accepted /\ ~ended[e]
  BY DEF poll_next, Reads
<1>4. /\ c \in Calls /\ (c.msg = NoFrame => c.res # "Ok")
      /\ c.msg # NoFrame => net[e] # <<>> /\ c.msg = Head(net[e])
      /\ NormalEnd(c) => ~CanRead(inner[e].state)
  BY <1>1, CallFacts DEF Receives
<1>5. /\ ended \in [Endpoint -> BOOLEAN] /\ yielded \in [Endpoint -> Seq(Frames)]
      /\ told \in [Endpoint -> Told]
      /\ Ends(c) \in BOOLEAN /\ NormalEnd(c) \in BOOLEAN
  BY DEF IInv, Types, Ends, NormalEnd
<1>6. /\ ended'[e] = Ends(c) /\ ended'[p] = ended[p]
      /\ told'[e].clean = NormalEnd(c) /\ told'[p].clean = told[p].clean
      /\ yielded'[p] = yielded[p]
      /\ yielded'[e] = IF c.res = "Ok" /\ c.msg.op # "Pong" THEN Append(y, c.msg) ELSE y
  BY <1>0, <1>1, <1>5
<1>7. over[e] = "open"
  BY <1>2 DEF over
<1>8. over' = [over EXCEPT ![e] =
                 IF ~Ends(c) THEN "open" ELSE IF NormalEnd(c) THEN "clean" ELSE "error"]
  BY <1>0, <1>6 DEF over
<1>9. delivered' = [delivered EXCEPT ![e] = Messages(yielded'[e])]
  BY <1>0, <1>6 DEF delivered
<1>10. CASE Ends(c)
  <2>1. delivered' = delivered
    BY <1>6, <1>9, <1>10 DEF delivered, Ends
  <2> DEFINE how == IF NormalEnd(c) THEN "clean" ELSE "error"
  <2>2. over' = [over EXCEPT ![e] = how] /\ how \in {"clean", "error"}
    BY <1>8, <1>10
  <2>3. how = "clean" => delivered[e] = accepted[Peer(e)]
    <3>1. ASSUME NormalEnd(c) PROVE delivered[e] = accepted[Peer(e)]
      <4>1. ~NoClose(yielded[e])
        BY <1>2, <1>4, <3>1 DEF IInv, Endings
      <4>2. QED
        BY <4>1, CloseSaysAll DEF delivered
    <3>2. QED
      BY <3>1
  <2> HIDE DEF how, p, y
  <2>4. Channel!end(e, how)
    BY <1>2, <1>7, <2>1, <2>2, <2>3 DEF Channel!end, delivered, over
  <2>5. QED
    BY <2>2, <2>4 DEF Channel!Next
<1>11. CASE ~Ends(c)
  <2>1. over' = over
    BY <1>7, <1>8, <1>11 DEF over
  <2>2. CASE yielded'[e] = y
    <3>1. delivered' = delivered
      BY <1>9, <2>2 DEF delivered
    <3>2. QED
      BY <1>2, <2>1, <3>1 DEF Channel!vars, delivered, over
  <2>3. CASE c.res = "Ok" /\ c.msg.op # "Pong"
    <3> DEFINE n == net[e]
               m == Head(net[e])
               taken == accepted[p]
               z == Append(y, m)
    <3>1. c.msg = m /\ n # <<>> /\ m.op # "Pong" /\ yielded'[e] = z
      BY <1>4, <1>6, <2>3
    <3>2. /\ y \in Seq(Frames) /\ n \in Seq(Frames) /\ m \in Frames
          /\ taken \in Seq(Frames) /\ Numbered(taken) /\ InOrder(y \o n, taken)
          /\ \A i \in 1..Len(y) : y[i] \in Frames /\ y[i].op # "Pong"
          /\ \A i \in 1..Len(y) : IsMessage(y[i]) => y[i].id = i
      BY <3>1, Inbound, TakeHead
    <3>3. NoClose(y)
      BY <3>1, AfterTheClose
    <3>4. delivered[e] = y
      <4>1. ~Closed(y)
        BY <3>2, <3>3, EmptySeq DEF Closed, NoClose
      <4>2. Messages(y) = y
        BY <4>1 DEF Messages
      <4>3. QED
        BY <4>2 DEF delivered
    <3> HIDE DEF n, m, y, taken
    <3>5. /\ z \in Seq(Frames) /\ Len(z) = Len(y) + 1 /\ Len(y) \in Nat
          /\ z[Len(y) + 1] = m /\ z # <<>> /\ SubSeq(z, 1, Len(y)) = y
      <4>1. /\ z \in Seq(Frames) /\ Len(z) = Len(y) + 1 /\ Len(y) \in Nat
            /\ z[Len(y) + 1] = m /\ \A i \in 1..Len(y) : z[i] = y[i]
        BY <3>2, AppendProperties
      <4> HIDE DEF z
      <4>2. z # <<>>
        BY <4>1, EmptySeq
      <4>3. SubSeq(z, 1, Len(y)) = y
        <5> DEFINE first == SubSeq(z, 1, Len(y))
        <5>1. \A i \in 1..Len(y) : z[i] \in Frames
          BY <3>2, <4>1
        <5>2. /\ first \in Seq(Frames) /\ Len(first) = IF 1 <= Len(y) THEN Len(y) - 1 + 1 ELSE 0
              /\ \A i \in 1..(Len(y) - 1 + 1) : first[i] = z[1 + i - 1]
          BY <4>1, <5>1, SubSeqProperties
        <5> HIDE DEF first
        <5>3. Len(first) = Len(y)
          BY <4>1, <5>2
        <5>4. \A i \in 1..Len(first) : first[i] = y[i]
          BY <4>1, <5>2, <5>3
        <5>5. first = y
          BY <3>2, <5>2, <5>3, <5>4, SeqEqual
        <5>6. QED
          BY <5>5 DEF first
      <4>4. QED
        BY <4>1, <4>2, <4>3
    <3> HIDE DEF z
    <3>6. CASE m.op = "Close"
      <4>1. Messages(z) = y
        BY <3>5, <3>6 DEF Messages, Closed
      <4>2. delivered' = delivered
        BY <1>9, <3>1, <3>4, <4>1 DEF delivered
      <4>3. QED
        BY <1>2, <2>1, <4>2 DEF Channel!vars, delivered, over
    <3>7. CASE m.op # "Close"
      <4>1. IsMessage(m)
        BY <3>1, <3>2, <3>7, FrameFacts DEF IsMessage
      <4>2. Messages(z) = z
        BY <3>5, <3>7 DEF Messages, Closed
      <4>3. m.id = Len(y) + 1
        <5>1. \A i \in 1..Len(y) : IsMessage(y[i]) /\ y[i].id = i
          BY <3>2, <3>3, FrameFacts DEF NoClose, IsMessage
        <5>2. IsMessage(Head(n)) /\ m = Head(n)
          BY <4>1 DEF m, n
        <5>3. QED
          BY <3>1, <3>2, <5>1, <5>2, NextNumber
      <4>4. PICK k \in 1..Len(taken) : m = taken[k]
        <5>1. Len(y) + 1 \in 1..Len(y \o n) /\ (y \o n)[Len(y) + 1] = m
          BY <3>1, <3>2, TakeHead DEF m, n
        <5>2. QED
          BY <3>2, <4>1, <5>1 DEF InOrder
      <4>5. m = taken[Len(y) + 1] /\ Len(y) < Len(taken)
        <5>1. k = Len(y) + 1
          BY <3>2, <4>3, <4>4 DEF Numbered
        <5>2. QED
          BY <3>2, <3>5, <4>4, <5>1, LenProperties
      <4>6. z = Append(y, accepted[Peer(e)][Len(y) + 1]) /\ Len(y) < Len(accepted[Peer(e)])
        BY <4>5 DEF z, taken
      <4>7. delivered' = [delivered EXCEPT ![e] = Append(@, accepted[Peer(e)][Len(@) + 1])]
        BY <1>9, <3>1, <3>4, <4>2, <4>6 DEF delivered
      <4>8. Channel!deliver(e)
        BY <1>2, <1>7, <2>1, <3>4, <4>6, <4>7 DEF Channel!deliver, delivered, over
      <4>9. QED
        BY <4>8 DEF Channel!Next
    <3>8. QED
      BY <3>6, <3>7
  <2>4. QED
    BY <1>6, <2>2, <2>3
<1>12. QED
  BY <1>10, <1>11

(* The Stream and Sink of both endpoints together implement a reliable and *)
(* ordered channel of messages, with whatever faults.                      *)
THEOREM IsChannel == Spec => ImplementsChannel
<1>1. Init => Channel!Init
  <2> SUFFICES ASSUME Init PROVE Channel!Init
    OBVIOUS
  <2>1. Messages(<<>>) = <<>>
    BY DEF Messages, Closed
  <2>2. QED
    BY <2>1 DEF Init, Channel!Init
<1>2. IInv /\ [Next]_vars => [Channel!Next]_(Channel!vars)
  <2> SUFFICES ASSUME IInv, [Next]_vars PROVE Channel!Next \/ UNCHANGED Channel!vars
    OBVIOUS
  <2>1. ASSUME UNCHANGED <<accepted, yielded, ended>>,
               \A x \in Endpoint : told'[x].clean = told[x].clean
        PROVE  UNCHANGED Channel!vars
    BY <2>1 DEF Channel!vars
  <2>2. ASSUME NEW e \in Endpoint, poll_next(e) PROVE Channel!Next \/ UNCHANGED Channel!vars
    BY <2>2, Delivers
  <2>3. ASSUME NEW e \in Endpoint, NEW op \in SendOps, start_send(e, op)
        PROVE  Channel!Next \/ UNCHANGED Channel!vars
    BY <2>3, Accepts
  <2>4. ASSUME NEW e \in Endpoint, poll_ready(e) PROVE UNCHANGED Channel!vars
    BY <2>1, <2>4 DEF poll_ready, stream, history
  <2>5. ASSUME NEW e \in Endpoint, poll_flush(e) PROVE UNCHANGED Channel!vars
    <3>1. told \in [Endpoint -> Told]
      BY DEF IInv, Types
    <3>2. \A x \in Endpoint : told'[x].clean = told[x].clean
      BY <2>5, <3>1 DEF poll_flush
    <3>3. QED
      BY <2>1, <2>5, <3>2 DEF poll_flush
  <2>6. ASSUME NEW e \in Endpoint, poll_close(e) PROVE UNCHANGED Channel!vars
    <3>1. told \in [Endpoint -> Told]
      BY DEF IInv, Types
    <3>2. \A x \in Endpoint : told'[x].clean = told[x].clean
      BY <2>6, <3>1 DEF poll_close
    <3>3. QED
      BY <2>1, <2>6, <3>2 DEF poll_close
  <2>7. ASSUME NEW e \in Endpoint, drop(e) PROVE UNCHANGED Channel!vars
    BY <2>1, <2>7 DEF drop, stream, history
  <2>8. CASE reset
    BY <2>1, <2>8 DEF reset, stream, history
  <2>9. CASE UNCHANGED vars
    BY <2>1, <2>9 DEF vars, stream, history
  <2>10. QED
    BY <2>2, <2>3, <2>4, <2>5, <2>6, <2>7, <2>8, <2>9 DEF Next, finished
<1>3. QED
  BY <1>1, <1>2, Inductive, PTL DEF Spec, ImplementsChannel, Channel!Spec

Numbers == 1..(MaxSend["Client"] + MaxSend["Server"])
Sendable == [op : {"Data", "Ping"}, id : Numbers]

ChannelInv ==
    /\ accepted \in [Endpoint -> Seq(Sendable)]
    /\ delivered \in [Endpoint -> Seq(Sendable)]
    /\ ReturnsInOrder

LEMMA FrontGrows ==
    ASSUME NEW got \in Seq(Sendable), NEW sent \in Seq(Sendable), IsFront(got, sent)
    PROVE  /\ \A m \in Sendable : IsFront(got, Append(sent, m))
           /\ Len(got) < Len(sent) =>
                 /\ sent[Len(got) + 1] \in Sendable
                 /\ IsFront(Append(got, sent[Len(got) + 1]), sent)
<1>1. PICK a, b \in Nat : a = Len(got) /\ b = Len(sent)
  BY LenProperties
<1>2. ASSUME NEW m \in Sendable PROVE IsFront(got, Append(sent, m))
  <2>1. /\ Len(Append(sent, m)) = b + 1
        /\ \A i \in 1..b : Append(sent, m)[i] = sent[i]
    BY <1>1, AppendProperties
  <2>2. a <= b + 1 /\ \A i \in 1..a : i \in 1..b
    BY <1>1 DEF IsFront
  <2>3. QED
    BY <1>1, <2>1, <2>2 DEF IsFront
<1>3. ASSUME a < b
      PROVE  sent[a + 1] \in Sendable /\ IsFront(Append(got, sent[a + 1]), sent)
  <2> DEFINE m == sent[a + 1]
             longer == Append(got, m)
  <2>1. a + 1 \in 1..b /\ m \in Sendable
    BY <1>1, <1>3
  <2>2. Len(longer) = a + 1 /\ (\A i \in 1..a : longer[i] = got[i]) /\ longer[a + 1] = m
    BY <1>1, <2>1, AppendProperties
  <2> HIDE DEF longer
  <2>3. ASSUME NEW i \in 1..(a + 1) PROVE longer[i] = sent[i]
    <3>1. i \in 1..a \/ i = a + 1
      OBVIOUS
    <3>2. QED
      BY <1>1, <2>2, <3>1 DEF IsFront
  <2>4. IsFront(longer, sent)
    BY <1>1, <1>3, <2>2, <2>3 DEF IsFront
  <2>5. QED
    BY <2>1, <2>4 DEF longer
<1>4. QED
  BY <1>1, <1>2, <1>3

LEMMA ChannelStep == ChannelInv /\ [Channel!Next]_(Channel!vars) => ChannelInv'
<1> SUFFICES ASSUME ChannelInv, Channel!Next \/ UNCHANGED Channel!vars PROVE ChannelInv'
  OBVIOUS
<1>1. ASSUME accepted' = accepted, delivered' = delivered PROVE ChannelInv'
  BY <1>1 DEF ChannelInv, ReturnsInOrder
<1>2. CASE UNCHANGED Channel!vars
  BY <1>1, <1>2 DEF Channel!vars, delivered
<1>3. ASSUME NEW e \in Endpoint, NEW m \in Sendable, Channel!accept(e, m) PROVE ChannelInv'
  <2>1. accepted' = [accepted EXCEPT ![e] = Append(@, m)] /\ delivered' = delivered
    BY <1>3 DEF Channel!accept, delivered
  <2>2. Append(accepted[e], m) \in Seq(Sendable)
    BY <1>3, AppendProperties DEF ChannelInv
  <2>3. ASSUME NEW x \in Endpoint PROVE IsFront(delivered[x], accepted'[Peer(x)])
    <3>1. /\ Peer(x) \in Endpoint /\ IsFront(delivered[x], accepted[Peer(x)])
          /\ delivered[x] \in Seq(Sendable) /\ accepted[Peer(x)] \in Seq(Sendable)
      BY PeerFacts DEF ChannelInv, ReturnsInOrder
    <3>2. IsFront(delivered[x], Append(accepted[Peer(x)], m))
      BY <1>3, <3>1, FrontGrows
    <3>3. QED
      BY <2>1, <3>1, <3>2 DEF ChannelInv
  <2>4. QED
    BY <2>1, <2>2, <2>3 DEF ChannelInv, ReturnsInOrder
<1>4. ASSUME NEW e \in Endpoint, Channel!deliver(e) PROVE ChannelInv'
  <2> DEFINE sent == accepted[Peer(e)]
             got == delivered[e]
  <2>1. /\ Len(got) < Len(sent) /\ accepted' = accepted
        /\ delivered' = [delivered EXCEPT ![e] = Append(@, accepted[Peer(e)][Len(@) + 1])]
    BY <1>4 DEF Channel!deliver, delivered
  <2>2. /\ Peer(e) \in Endpoint /\ got \in Seq(Sendable) /\ sent \in Seq(Sendable)
        /\ IsFront(got, sent)
    BY PeerFacts DEF ChannelInv, ReturnsInOrder
  <2>3. /\ delivered \in [Endpoint -> Seq(Sendable)]
        /\ delivered' = [delivered EXCEPT ![e] = Append(got, sent[Len(got) + 1])]
    BY <2>1 DEF ChannelInv
  <2> HIDE DEF sent, got
  <2>4. sent[Len(got) + 1] \in Sendable /\ IsFront(Append(got, sent[Len(got) + 1]), sent)
    BY <2>1, <2>2, FrontGrows
  <2>5. Append(got, sent[Len(got) + 1]) \in Seq(Sendable)
    BY <2>2, <2>4, AppendProperties
  <2>6. ReturnsInOrder'
    <3>1. ASSUME NEW x \in Endpoint PROVE IsFront(delivered'[x], accepted[Peer(x)])
      BY <2>3, <2>4 DEF ChannelInv, ReturnsInOrder, sent
    <3>2. QED
      BY <2>1, <3>1 DEF ReturnsInOrder
  <2>7. QED
    BY <2>1, <2>3, <2>5, <2>6 DEF ChannelInv
<1>5. ASSUME NEW e \in Endpoint, NEW how, Channel!end(e, how) PROVE ChannelInv'
  BY <1>1, <1>5 DEF Channel!end, delivered
<1>6. QED
  BY <1>2, <1>3, <1>4, <1>5 DEF Channel!Next, Sendable, Numbers

(* No Stream returns anything but the next message of the peer's Sink,     *)
(* also after a reset or a drop: a promise that every channel keeps, and   *)
(* therefore the two connected endpoints.                                  *)
THEOREM StreamIsFront == Spec => []ReturnsInOrder
<1>1. Channel!Init => ChannelInv
  <2> SUFFICES ASSUME Channel!Init PROVE ChannelInv
    OBVIOUS
  <2>1. /\ accepted = [e \in Endpoint |-> <<>>] /\ delivered = [e \in Endpoint |-> <<>>]
        /\ <<>> \in Seq(Sendable) /\ Len(<<>>) = 0 /\ 1..0 = {}
    BY EmptySeq DEF Channel!Init, delivered
  <2>2. IsFront(<<>>, <<>>)
    BY <2>1 DEF IsFront
  <2>3. QED
    BY <2>1, <2>2, PeerFacts DEF ChannelInv, ReturnsInOrder
<1>2. ChannelInv => ReturnsInOrder
  BY DEF ChannelInv
<1>3. QED
  BY <1>1, <1>2, ChannelStep, IsChannel, PTL DEF ImplementsChannel, Channel!Spec
=============================================================================
