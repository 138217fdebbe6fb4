--------------------------- MODULE MessageChannel ---------------------------
(***************************************************************************)
(* What a WebSocketStream promises its user: a reliable, ordered channel   *)
(* of messages in each direction, whose reading side ends once.            *)
(***************************************************************************)
EXTENDS Naturals, Sequences

CONSTANTS
    Endpoint,  \* the endpoints of a connection
    Peer(_),   \* the other endpoint
    Message    \* what can be sent

VARIABLES
    accepted,   \* accepted[e]: the messages e's Sink took
    delivered,  \* delivered[e]: the messages e's Stream returned
    over        \* over[e]: whether and how e's Stream ended

vars == <<accepted, delivered, over>>

Init ==
    /\ accepted = [e \in Endpoint |-> <<>>]
    /\ delivered = [e \in Endpoint |-> <<>>]
    /\ over = [e \in Endpoint |-> "open"]

(* Nothing is accepted for a Stream that has reported a normal end. *)
accept(e, m) ==
    /\ over[Peer(e)] # "clean"
    /\ accepted' = [accepted EXCEPT ![e] = Append(@, m)]
    /\ UNCHANGED <<delivered, over>>

(* The next message, in the order of acceptance. *)
deliver(e) ==
    /\ over[e] = "open"
    /\ Len(delivered[e]) < Len(accepted[Peer(e)])
    /\ delivered' = [delivered EXCEPT ![e] = Append(@, accepted[Peer(e)][Len(@) + 1])]
    /\ UNCHANGED <<accepted, over>>

(* A Stream ends once, and normally only when it has returned everything. *)
end(e, how) ==
    /\ over[e] = "open"
    /\ how = "clean" => delivered[e] = accepted[Peer(e)]
    /\ over' = [over EXCEPT ![e] = how]
    /\ UNCHANGED <<accepted, delivered>>

Next ==
    \E e \in Endpoint :
        \/ \E m \in Message : accept(e, m)
        \/ deliver(e)
        \/ \E how \in {"clean", "error"} : end(e, how)

Spec == Init /\ [][Next]_vars
=============================================================================
