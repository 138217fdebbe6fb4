----------------------------- MODULE MCAllowStd -----------------------------
(* Bounds for TLC: two tasks and a waking thread.  Two tasks let the halves *)
(* live apart, share a task, and move from one task to the other.           *)
EXTENDS AllowStd
=============================================================================
