-------------------------- MODULE KeepaliveContract --------------------------
(***************************************************************************)
(* What the keepalive promises a tool call, without generations, timers,    *)
(* locks or warm periods: the instance is warm as long as any call is in    *)
(* it, and one that no call enters any more goes cold.                      *)
(***************************************************************************)
CONSTANT Callers
VARIABLES busy,  \* the calls between their Acquire and their Release
          warm

Init == busy = {} /\ warm = FALSE

Enter(c) == c \notin busy /\ busy' = busy \cup {c} /\ warm' = TRUE
Leave(c) == c \in busy /\ busy' = busy \ {c} /\ UNCHANGED warm
Preload  == ~warm /\ warm' = TRUE /\ UNCHANGED busy
Cool     == busy = {} /\ warm /\ warm' = FALSE /\ UNCHANGED busy

Next == Preload \/ Cool \/ \E c \in Callers : Enter(c) \/ Leave(c)

Spec     == Init /\ [][Next]_<<busy, warm>>
FairSpec == Spec /\ WF_<<busy, warm>>(Cool)
=============================================================================
