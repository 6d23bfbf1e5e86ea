-------------------------------- MODULE MCTools --------------------------------
(* The tools' answers on a small instance: pages of four bytes, and texts with *)
(* characters of one and of two bytes.                                         *)
EXTENDS SessionGet, TLC

CONSTANTS a, e, c1, c2, r1

MCWidth == [char \in {a, e} |-> IF char = a THEN 1 ELSE 2]

MCTextOf == [section \in AllSections |->
  CASE section = "turns"     -> 0 :> <<a, a, a, e>> @@ 1 :> <<a, a, a, e, a, e>>
    [] section = "events"    -> 0 :> <<e>> @@ 1 :> <<e, a, a>> @@ 2 :> <<e, a, a, e>>
    [] section = "revisions" -> 0 :> <<>> @@ 1 :> <<a, e, a>>
    [] section = "diff"      -> 0 :> <<a, a>> @@ 1 :> <<a, a, a>>
    [] OTHER                 -> 0 :> <<a>> @@ 1 :> <<a, a>>]

\* Two events, and one change of everything else.
MCMaxChanges == [section \in AllSections |-> IF section = "events" THEN 2 ELSE 1]

Request(tool, client, json, sections) ==
  [tool |-> tool, client |-> client, json |-> json, sections |-> sections]

MCRequests ==
  {Request("session_get", "claude", FALSE, {"turns", "events"}),
   Request("session_get", "claude", FALSE, {"plan", "diff", "uncommitted", "memory"}),
   Request("session_get", "claude", TRUE, {"turns", "diff"}),
   Request("session_get", "codex", FALSE, {"turns", "plan"}),
   Request("session_events", "claude", FALSE, {"events", "revisions"}),
   Request("session_events", "claude", TRUE, {"events"})}

MCPages == [{"turns", "events", "plan", "diff", "uncommitted", "memory"} -> Seq({a, e})]
           \cup [{"events", "revisions"} -> Seq({a, e})]
=============================================================================
