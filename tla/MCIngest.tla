------------------------------ MODULE MCIngest ------------------------------
(* Small instances of Ingest for TLC: one project directory with one session *)
(* and the directory of its subagents.                                       *)
EXTENDS Ingest, TLC
CONSTANTS root, project, subagents, p, s

MCIn == (project :> root) @@ (p :> project) @@ (subagents :> project) @@ (s :> subagents)
MCParentOf == s :> p
\* The directory of a session, named by its id, comes before <id>.jsonl.
MCPlace == (root :> 0) @@ (project :> 1) @@ (subagents :> 2) @@ (s :> 3) @@ (p :> 4)
\* Flat: the session lies in the watched directory itself.
FlatIn == (p :> root) @@ (subagents :> root) @@ (s :> subagents)
FlatPlace == (root :> 0) @@ (subagents :> 1) @@ (s :> 2) @@ (p :> 3)
=============================================================================
