----------------------------- MODULE MCLifecycle -----------------------------
(* Small instances of Lifecycle for TLC. *)
EXTENDS Lifecycle
CONSTANTS c1, c2, l1, l2
=============================================================================
