----------------------------- MODULE MCChatServer -----------------------------
(* Symmetry for TLC: addresses are alike, and so are connections. *)
EXTENDS ChatServer, TLC

Alike == Permutations(Addr) \cup Permutations(Conn)
=============================================================================
