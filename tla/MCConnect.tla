------------------------------ MODULE MCConnect ------------------------------
(* Bounds for TLC: a name, an address and a host that is no name. *)
EXTENDS Connect

MCHost == {"name", "address", "odd"}
=============================================================================
