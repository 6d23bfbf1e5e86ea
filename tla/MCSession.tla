------------------------------ MODULE MCSession ------------------------------
(* What is known of one session, in components that share no state: its         *)
(* account, its diff, its title, its permissions.  Only the one that subject     *)
(* names takes steps, so their states add up.                                   *)
EXTENDS SessionAccount, DiffRefresh, Titles, Permissions

CONSTANTS main, a1, f1,              \* the account
          i1, clean,                 \* the diff
          l1, k1, x, y,              \* the titles
          p1, p2                     \* requests, trees or tool uses: two alike

-----------------------------------------------------------------------------
(* The account: a main transcript and a subagent's.                          *)

Prompt(pid, slash, mode) == [pid |-> pid, slash |-> slash, mode |-> mode]
Chunk(tool, text, stop, m) == [tool |-> tool, text |-> text, stop |-> stop, model |-> m]

\* A slash command and the rest of its submission, and a plain prompt.
MainPrompts == {Prompt(1, TRUE, NoMode), Prompt(1, FALSE, "plan"), Prompt(2, FALSE, NoMode)}

\* Streams of text with and without an end, and a chunk for every kind of call.
MainChunks ==
  {Chunk(NoTool, TRUE, TRUE, "opus"), Chunk("Skill", FALSE, FALSE, NoModel),
   Chunk("ExitPlanMode", FALSE, FALSE, NoModel), Chunk("Agent", TRUE, FALSE, NoModel),
   Chunk("Edit", FALSE, FALSE, "haiku")}

SubChunks == {Chunk(NoTool, TRUE, TRUE, NoModel), Chunk("Skill", FALSE, FALSE, NoModel)}

MCPrompts == [a \in Actors |-> IF a = main THEN MainPrompts ELSE {Prompt(0, FALSE, NoMode)}]
MCChunks == [a \in Actors |-> IF a = main THEN MainChunks ELSE SubChunks]
MCMaxLines == [a \in Actors |-> IF a = main THEN 4 ELSE 2]

-----------------------------------------------------------------------------
\* Titles of which one is part of the other.
MCPlain == [t \in {x, y} |-> t]
MCIsIn == {<<x, x>>, <<y, y>>, <<x, y>>}

VARIABLE subject

Symmetry == Permutations({p1, p2})

sessionVars == <<subject, vars, diffVars, titleVars, permissionVars>>

SessionInit ==
  /\ subject \in {"account", "diff", "title", "permissions"}
  /\ Init /\ DiffInit /\ TitleInit /\ PermissionInit

SessionNext ==
  /\ UNCHANGED subject
  /\ \/ subject = "account" /\ Next /\ UNCHANGED <<diffVars, titleVars, permissionVars>>
     \/ subject = "diff" /\ DiffNext /\ UNCHANGED <<vars, titleVars, permissionVars>>
     \/ subject = "title" /\ TitleNext /\ UNCHANGED <<vars, diffVars, permissionVars>>
     \/ subject = "permissions" /\ PermissionNext /\ UNCHANGED <<vars, diffVars, titleVars>>

SessionSpec == SessionInit /\ [][SessionNext]_sessionVars

-----------------------------------------------------------------------------
\* The type invariants of the components, and their caps.
TypesOK ==
  CASE subject = "account"     -> TypeOK
    [] subject = "diff"        -> DiffTypeOK
    [] subject = "title"       -> TitleTypeOK
    [] subject = "permissions" -> PermissionTypeOK

=============================================================================
