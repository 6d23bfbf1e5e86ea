---------------------------- MODULE MCDiffRefresh ----------------------------
(* Small instances of DiffRefresh for TLC. *)
EXTENDS DiffRefresh
CONSTANTS i1, i2, clean, t1, t2
=============================================================================
