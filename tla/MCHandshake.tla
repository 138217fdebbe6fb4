----------------------------- MODULE MCHandshake -----------------------------
(* Bounds for TLC are in the configurations. *)
EXTENDS Handshake
=============================================================================
