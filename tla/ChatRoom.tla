------------------------------- MODULE ChatRoom -------------------------------
(***************************************************************************)
(* What the chat server promises: a room whose members hear, all in the    *)
(* same order, everything the others say, from the time they join until    *)
(* they go away themselves and are then let out.                           *)
(***************************************************************************)
EXTENDS Integers, Sequences, FiniteSets

CONSTANTS
    Client,
    Message   \* records whose field `from` names the client that says it

VARIABLES
    members,  \* the clients in the room
    away,     \* the members that have closed or are gone
    heard     \* heard[c]: what c was told since it joined

vars == <<members, away, heard>>

Init == members = {} /\ away = {} /\ heard = [c \in Client |-> <<>>]

(* What may happen to a client, whatever its place in the room: a client   *)
(* that enters begins anew, also when it is known already.                 *)
Enter(c) ==
    /\ members' = members \cup {c}
    /\ away' = away \ {c}
    /\ heard' = [heard EXCEPT ![c] = <<>>]

Exit(c) ==
    /\ c \in members
    /\ members' = members \ {c}
    /\ away' = away \ {c}
    /\ heard' = [heard EXCEPT ![c] = <<>>]

Depart(c) ==
    /\ c \in members
    /\ away' = away \cup {c}
    /\ UNCHANGED <<members, heard>>

Tell(m) ==
    /\ heard' = [c \in Client |->
                   IF c \in members \ {m.from} THEN Append(heard[c], m) ELSE heard[c]]
    /\ UNCHANGED <<members, away>>

(* Nobody is in the room twice, nobody is turned out who has not departed, *)
(* and who speaks is in the room.                                          *)
Join(c) == c \notin members /\ Enter(c)
Leave(c) == c \in away /\ Exit(c)
Say(m) == m.from \in members /\ Tell(m)

Next ==
    \/ \E c \in Client : Join(c) \/ Depart(c) \/ Leave(c)
    \/ \E m \in Message : Say(m)

Spec == Init /\ [][Next]_vars

(* A room that may turn its members out, but still tells all of those who  *)
(* are in it the same.                                                     *)
LooseNext ==
    \/ \E c \in Client : Enter(c) \/ Depart(c) \/ Exit(c)
    \/ \E m \in Message : Tell(m)

LooseSpec == Init /\ [][LooseNext]_vars
-----------------------------------------------------------------------------
(* How many of the messages s, from the i-th on, come from others than a   *)
(* and b.                                                                  *)
Since(s, i, a, b) == Cardinality({k \in i..Len(s) : s[k].from \notin {a, b}})

(* Counted from the latest back, s and t have the same messages of others. *)
Agree(a, b, s, t) ==
    \A i \in 1..Len(s), j \in 1..Len(t) :
        /\ s[i].from \notin {a, b} /\ t[j].from \notin {a, b}
        /\ Since(s, i, a, b) = Since(t, j, a, b)
        => s[i] = t[j]

(* What any two members were told by others is the same and in the same    *)
(* order, back to when the later of them joined.                           *)
HearAlike == \A a, b \in members : Agree(a, b, heard[a], heard[b])
=============================================================================
