-------------------------------- MODULE Counts --------------------------------
(***************************************************************************)
(* How many elements of a sequence are of a given kind, and what becomes   *)
(* of that number when the sequence grows, is joined to another or is cut: *)
(* the arithmetic of buffers that are filled at one end and drained at the *)
(* other.                                                                  *)
(***************************************************************************)
EXTENDS Integers, Sequences, FiniteSets, TLAPS, SequenceTheorems, FiniteSetTheorems

Positions(s, Kind) == {i \in 1..Len(s) : s[i] \in Kind}
Count(s, Kind) == Cardinality(Positions(s, Kind))

LEMMA CountType ==
    ASSUME NEW S, NEW s \in Seq(S), NEW Kind
    PROVE  /\ IsFiniteSet(Positions(s, Kind))
           /\ Count(s, Kind) \in Nat /\ Count(s, Kind) <= Len(s)
<1>1. Len(s) \in Nat /\ Positions(s, Kind) \in SUBSET (1..Len(s))
  BY LenProperties DEF Positions
<1>2. IsFiniteSet(1..Len(s)) /\ Cardinality(1..Len(s)) = Len(s)
  <2>1. /\ IsFiniteSet(1..Len(s))
        /\ Cardinality(1..Len(s)) = IF 1 > Len(s) THEN 0 ELSE Len(s) - 1 + 1
    BY <1>1, FS_Interval
  <2>2. QED
    BY <1>1, <2>1
<1>3. /\ IsFiniteSet(Positions(s, Kind))
      /\ Cardinality(Positions(s, Kind)) <= Cardinality(1..Len(s))
  BY <1>1, <1>2, FS_Subset
<1>4. QED
  BY <1>2, <1>3, FS_CardinalityType DEF Count

LEMMA CountEmpty == ASSUME NEW Kind PROVE Count(<<>>, Kind) = 0
<1>1. Positions(<<>>, Kind) = {}
  BY DEF Positions
<1>2. QED
  BY <1>1, FS_EmptySet DEF Count

LEMMA CountConcat ==
    ASSUME NEW S, NEW s \in Seq(S), NEW t \in Seq(S), NEW Kind
    PROVE  Count(s \o t, Kind) = Count(s, Kind) + Count(t, Kind)
<1> DEFINE P == Positions(s, Kind)
           Q == Positions(t, Kind)
           shift == [i \in Q |-> Len(s) + i]
           R == {Len(s) + i : i \in Q}
<1>1. PICK a, b \in Nat : a = Len(s) /\ b = Len(t)
  BY LenProperties
<1>2. /\ Len(s \o t) = a + b
      /\ \A i \in 1..(a + b) : (s \o t)[i] = IF i <= a THEN s[i] ELSE t[i - a]
  BY <1>1, ConcatProperties
<1>3. IsFiniteSet(P) /\ IsFiniteSet(Q)
  BY CountType
<1>4. Q \subseteq 1..b /\ P \subseteq 1..a
  BY <1>1 DEF Positions
<1>5. IsFiniteSet(R) /\ Cardinality(R) = Cardinality(Q)
  <2>1. shift \in Bijection(Q, R)
    <3>1. \A i, j \in Q : shift[i] = shift[j] => i = j
      BY <1>1, <1>4
    <3>2. shift \in [Q -> R] /\ \A r \in R : \E i \in Q : shift[i] = r
      OBVIOUS
    <3>3. QED
      BY <3>1, <3>2 DEF Bijection, Injection, Surjection, IsInjective
  <2>2. QED
    BY <1>3, <2>1, FS_Bijection DEF ExistsBijection
<1>6. Positions(s \o t, Kind) = P \cup R
  <2>1. ASSUME NEW i \in Positions(s \o t, Kind) PROVE i \in P \cup R
    <3>1. i \in 1..(a + b) /\ (s \o t)[i] \in Kind
      BY <1>2 DEF Positions
    <3>2. CASE i <= a
      BY <1>1, <1>2, <3>1, <3>2 DEF Positions
    <3>3. CASE ~(i <= a)
      <4>1. i - a \in 1..b /\ t[i - a] \in Kind /\ a + (i - a) = i
        BY <1>2, <3>1, <3>3
      <4>2. i - a \in Q
        BY <1>1, <4>1 DEF Positions
      <4>3. QED
        BY <1>1, <4>1, <4>2
    <3>4. QED
      BY <3>2, <3>3
  <2>2. ASSUME NEW i \in P PROVE i \in Positions(s \o t, Kind)
    <3>1. i \in 1..a /\ s[i] \in Kind
      BY <1>1 DEF Positions
    <3>2. i \in 1..(a + b) /\ i <= a
      BY <3>1
    <3>3. QED
      BY <1>2, <3>1, <3>2 DEF Positions
  <2>3. ASSUME NEW i \in Q PROVE a + i \in Positions(s \o t, Kind)
    <3>1. i \in 1..b /\ t[i] \in Kind
      BY <1>1 DEF Positions
    <3>2. a + i \in 1..(a + b) /\ ~(a + i <= a) /\ (a + i) - a = i
      BY <3>1
    <3>3. QED
      BY <1>2, <3>1, <3>2 DEF Positions
  <2>4. R \subseteq Positions(s \o t, Kind)
    BY <1>1, <2>3
  <2>5. QED
    BY <2>1, <2>2, <2>4
<1>7. P \cap R = {}
  BY <1>1, <1>4
<1> HIDE DEF P, Q, R
<1>8. Cardinality(P \cup R) = Cardinality(P) + Cardinality(R) - Cardinality({})
  BY <1>3, <1>5, <1>7, FS_Union
<1>9. Cardinality({}) = 0 /\ Cardinality(P) \in Nat /\ Cardinality(R) \in Nat
  BY <1>3, <1>5, FS_EmptySet, FS_CardinalityType
<1>10. QED
  BY <1>5, <1>6, <1>8, <1>9 DEF Count, P, Q

LEMMA CountOne ==
    ASSUME NEW x, NEW Kind
    PROVE  Count(<<x>>, Kind) = IF x \in Kind THEN 1 ELSE 0
<1>1. Positions(<<x>>, Kind) = IF x \in Kind THEN {1} ELSE {}
  BY DEF Positions
<1>2. QED
  BY <1>1, FS_Singleton, FS_EmptySet DEF Count

LEMMA CountAppend ==
    ASSUME NEW S, NEW s \in Seq(S), NEW x \in S, NEW Kind
    PROVE  Count(Append(s, x), Kind) = Count(s, Kind) + IF x \in Kind THEN 1 ELSE 0
<1>1. <<x>> \in Seq(S) /\ Append(s, x) = s \o <<x>>
  BY AppendIsConcat
<1>2. Count(s \o <<x>>, Kind) = Count(s, Kind) + Count(<<x>>, Kind)
  BY <1>1, CountConcat
<1>3. QED
  BY <1>1, <1>2, CountOne

(* What is cut off the front and what stays add up.                        *)
LEMMA CountSplit ==
    ASSUME NEW S, NEW s \in Seq(S), NEW n \in 0..Len(s), NEW Kind
    PROVE  LET first == SubSeq(s, 1, n)
               rest  == SubSeq(s, n + 1, Len(s))
           IN  /\ first \in Seq(S) /\ Len(first) = n
               /\ rest \in Seq(S) /\ Len(rest) = Len(s) - n
               /\ Count(first, Kind) + Count(rest, Kind) = Count(s, Kind)
<1> DEFINE first == SubSeq(s, 1, n)
           rest  == SubSeq(s, n + 1, Len(s))
<1>1. Len(s) \in Nat /\ n \in Nat /\ n <= Len(s) /\ (\A i \in 1..Len(s) : s[i] \in S)
  BY LenProperties
<1>2. first \in Seq(S) /\ Len(first) = n
  <2>1. \A i \in 1..n : s[i] \in S
    BY <1>1
  <2>2. first \in Seq(S) /\ Len(first) = IF 1 <= n THEN n - 1 + 1 ELSE 0
    BY <1>1, <2>1, SubSeqProperties
  <2>3. QED
    BY <1>1, <2>2
<1>3. rest \in Seq(S) /\ Len(rest) = Len(s) - n
  <2>1. \A i \in n + 1 .. Len(s) : s[i] \in S
    BY <1>1
  <2>2. /\ rest \in Seq(S)
        /\ Len(rest) = IF n + 1 <= Len(s) THEN Len(s) - (n + 1) + 1 ELSE 0
    BY <1>1, <2>1, SubSeqProperties
  <2>3. QED
    BY <1>1, <2>2
<1>4. first \o rest = s
  <2>1. /\ 1 \in 1..Len(s) + 1 /\ n \in (1 - 1)..Len(s) /\ Len(s) \in n..Len(s)
    BY <1>1
  <2>2. first \o rest = SubSeq(s, 1, Len(s))
    BY <2>1, ConcatAdjacentSubSeq
  <2>3. QED
    BY <2>2, SubSeqFull
<1> HIDE DEF first, rest
<1>5. Count(first \o rest, Kind) = Count(first, Kind) + Count(rest, Kind)
  BY <1>2, <1>3, CountConcat
<1>6. QED
  BY <1>2, <1>3, <1>4, <1>5 DEF first, rest
=============================================================================
