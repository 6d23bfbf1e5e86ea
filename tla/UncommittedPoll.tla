--------------------------- MODULE UncommittedPoll ---------------------------
(***************************************************************************)
(* The live uncommitted diff (watcher/diff_watcher.go, pollAll to             *)
(* uncommittedDiff): every tick each instance polls the directories of its    *)
(* recent sessions, one poll per directory at a time.  The instances share    *)
(* the work through the hook file in the repository's git directory: one that *)
(* finds it younger than an interval reads it, the others run git diff HEAD   *)
(* and publish it there.  What changed goes to the sessions of the directory. *)
(*                                                                         *)
(* A text is what git diff prints.  Time is the age of the hook file: fresh,  *)
(* until an interval has passed.                                             *)
(***************************************************************************)
EXTENDS Integers

CONSTANTS
  Pollers,         \* the instances
  PollSessions,
  Dirs, Cwd,       \* Cwd[s] is the directory session s runs in
  Repos, GitDir,   \* GitDir[d] is the git directory of directory d
  DiffTexts, None, \* None is no text at all
  PublishFails,    \* whether publishing the hook file may fail
  MaxPollEdits,    \* bound: changes of the working trees and of the sessions' activity
  MaxPollStarts    \* bound: restarts of each instance

ASSUME UncommittedPollAssumption ==
  /\ Cwd \in [PollSessions -> Dirs] /\ GitDir \in [Dirs -> Repos]
  /\ None \notin DiffTexts /\ PublishFails \in BOOLEAN
  /\ MaxPollEdits \in Nat /\ MaxPollStarts \in Nat

VARIABLES
  \* the agents' directories
  work,      \* what git diff HEAD would print in each
  ready,     \* the directories that exist and are in a repository
  recent,    \* the sessions active within the poll window
  hook,      \* the hook file of each repository: its text and whether it is fresh
  \* per instance
  known,     \* the sessions in its store
  shown,     \* their UncommittedDiff; None before the first update
  resolved,  \* gitDirByCwd
  lastDiff,  \* by git directory
  pc,        \* the poll of each directory; "none" when it does not run
  existing,  \* the text it found in the hook file, or None
  output,    \* the text it computed or read
  \* history
  held,      \* every text work has held, by directory
  pollEdits, pollStarts

agents   == <<work, ready, recent, held, pollEdits>>
store    == <<known, shown>>
watcher  == <<resolved, lastDiff>>
poll     == <<pc, existing, output>>
pollVars == <<agents, hook, store, watcher, poll, pollStarts>>

NoHook == [text |-> None, fresh |-> FALSE]

Labels == {"none", "resolve", "read", "diff", "publish", "compare", "update"}

\* A poll goes on with a text: what is fresh was published, and what was found is
\* still there.
TextsExist ==
  /\ \A g \in Repos : hook[g].fresh => hook[g].text # None
  /\ \A i \in Pollers, d \in Dirs :
       /\ existing[i][d] # None => hook[GitDir[d]].text # None
       /\ pc[i][d] \in {"publish", "compare", "update"} => output[i][d] # None

PollTypeOK ==
  /\ work \in [Dirs -> DiffTexts] /\ ready \subseteq Dirs /\ recent \subseteq PollSessions
  /\ hook \in [Repos -> [text : DiffTexts \cup {None}, fresh : BOOLEAN]]
  /\ known \in [Pollers -> SUBSET PollSessions]
  /\ shown \in [Pollers -> [PollSessions -> DiffTexts \cup {None}]]
  /\ \A i \in Pollers, s \in PollSessions : shown[i][s] # None => s \in known[i]
  /\ resolved \in [Pollers -> SUBSET Dirs]
  /\ lastDiff \in [Pollers -> [Repos -> DiffTexts \cup {None}]]
  /\ pc \in [Pollers -> [Dirs -> Labels]]
  /\ existing \in [Pollers -> [Dirs -> DiffTexts \cup {None}]]
  /\ output \in [Pollers -> [Dirs -> DiffTexts \cup {None}]]
  /\ held \in [Dirs -> SUBSET DiffTexts] /\ pollEdits \in 0 .. MaxPollEdits
  /\ pollStarts \in [Pollers -> 0 .. MaxPollStarts] /\ TextsExist

ForAll(D, value) == [i \in Pollers |-> [d \in D |-> value]]

PollInit ==
  /\ work \in [Dirs -> DiffTexts] /\ ready = Dirs /\ recent = PollSessions
  /\ hook = [g \in Repos |-> NoHook]
  /\ known = [i \in Pollers |-> {}] /\ shown = ForAll(PollSessions, None)
  /\ resolved = [i \in Pollers |-> {}] /\ lastDiff = ForAll(Repos, None)
  /\ pc = ForAll(Dirs, "none") /\ existing = ForAll(Dirs, None) /\ output = ForAll(Dirs, None)
  /\ held = [d \in Dirs |-> {work[d]}] /\ pollEdits = 0
  /\ pollStarts = [i \in Pollers |-> 0]

-----------------------------------------------------------------------------
(* The agents and time.                                                      *)

Edit(d) ==
  /\ pollEdits < MaxPollEdits /\ pollEdits' = pollEdits + 1
  /\ \E text \in DiffTexts :
       work' = [work EXCEPT ![d] = text] /\ held' = [held EXCEPT ![d] = @ \cup {text}]
  /\ UNCHANGED <<ready, recent, hook, store, watcher, poll, pollStarts>>

\* A worktree is removed, or set up again.
Relocate(d) ==
  /\ pollEdits < MaxPollEdits /\ pollEdits' = pollEdits + 1
  /\ ready' = IF d \in ready THEN ready \ {d} ELSE ready \cup {d}
  /\ UNCHANGED <<work, held, recent, hook, store, watcher, poll, pollStarts>>

\* A session falls out of the window, or takes a turn.
Activity(s) ==
  /\ pollEdits < MaxPollEdits /\ pollEdits' = pollEdits + 1
  /\ recent' = IF s \in recent THEN recent \ {s} ELSE recent \cup {s}
  /\ UNCHANGED <<work, held, ready, hook, store, watcher, poll, pollStarts>>

\* An interval passes since the hook file was stamped.
Expire(g) ==
  /\ hook[g].fresh /\ hook' = [hook EXCEPT ![g].fresh = FALSE]
  /\ UNCHANGED <<agents, store, watcher, poll, pollStarts>>

\* The transcript watcher finds the session.
Join(i, s) ==
  /\ s \notin known[i] /\ known' = [known EXCEPT ![i] = @ \cup {s}]
  /\ UNCHANGED <<agents, hook, shown, watcher, poll, pollStarts>>

\* The process ends and another takes its place.
PollRestart(i) ==
  /\ pollStarts[i] < MaxPollStarts /\ pollStarts' = [pollStarts EXCEPT ![i] = @ + 1]
  /\ known' = [known EXCEPT ![i] = {}] /\ resolved' = [resolved EXCEPT ![i] = {}]
  /\ shown' = [shown EXCEPT ![i] = [s \in PollSessions |-> None]]
  /\ lastDiff' = [lastDiff EXCEPT ![i] = [g \in Repos |-> None]]
  /\ pc' = [pc EXCEPT ![i] = [d \in Dirs |-> "none"]]
  /\ UNCHANGED <<agents, hook, existing, output>>

-----------------------------------------------------------------------------
(* The polls.                                                                *)

Polled(i) == {Cwd[s] : s \in known[i] \cap recent}

\* pollAll: a directory whose poll still runs is skipped.
PollAll(i) ==
  /\ \E d \in Polled(i) : pc[i][d] = "none"
  /\ pc' = [pc EXCEPT ![i] = [d \in Dirs |->
       IF d \in Polled(i) /\ pc[i][d] = "none" THEN "resolve" ELSE pc[i][d]]]
  /\ UNCHANGED <<agents, hook, store, watcher, existing, output, pollStarts>>

PollGoto(i, d, label) == pc' = [pc EXCEPT ![i][d] = label]

\* resolveGitDir: a directory once resolved is not asked for again.
Resolve(i, d) ==
  /\ pc[i][d] = "resolve"
  /\ IF d \in resolved[i] \cup ready
     THEN PollGoto(i, d, "read") /\ resolved' = [resolved EXCEPT ![i] = @ \cup {d}]
     ELSE PollGoto(i, d, "none") /\ UNCHANGED resolved
  /\ UNCHANGED <<agents, hook, store, lastDiff, existing, output, pollStarts>>

\* Mutant: a hook file stays fresh.
IsThere(file) == file # NoHook

IsFresh(file) == file.fresh

ReadHook(i, d) ==
  /\ pc[i][d] = "read"
  /\ LET file == hook[GitDir[d]] IN
       /\ existing' = [existing EXCEPT ![i][d] = file.text]
       /\ IF IsFresh(file)
          THEN PollGoto(i, d, "compare") /\ output' = [output EXCEPT ![i][d] = file.text]
          ELSE PollGoto(i, d, "diff") /\ UNCHANGED output
  /\ UNCHANGED <<agents, hook, store, watcher, pollStarts>>

GitDiffHead(i, d) ==
  /\ pc[i][d] = "diff"
  /\ IF d \in ready
     THEN PollGoto(i, d, "publish") /\ output' = [output EXCEPT ![i][d] = work[d]]
     ELSE PollGoto(i, d, "none") /\ UNCHANGED output
  /\ UNCHANGED <<agents, hook, store, watcher, existing, pollStarts>>

\* Mutant: an existing hook file is only stamped.
PublishedTouches(i, d, file) ==
  [text |-> IF existing[i][d] # None THEN file.text ELSE output[i][d], fresh |-> TRUE]

\* publishHookFile: a file that held this text when it was read is only stamped.
Published(i, d, file) ==
  [text |-> IF existing[i][d] = output[i][d] THEN file.text ELSE output[i][d],
   fresh |-> TRUE]

PublishHook(i, d) ==
  /\ pc[i][d] = "publish" /\ PollGoto(i, d, "compare")
  /\ \/ hook' = [hook EXCEPT ![GitDir[d]] = Published(i, d, @)]
     \/ PublishFails /\ UNCHANGED hook
  /\ UNCHANGED <<agents, store, watcher, existing, output, pollStarts>>

\* Only a text that differs from the repository's last goes to the sessions.
Compare(i, d) ==
  /\ pc[i][d] = "compare"
  /\ LET g == GitDir[d] IN
       IF lastDiff[i][g] = output[i][d]
       THEN PollGoto(i, d, "none") /\ UNCHANGED lastDiff
       ELSE PollGoto(i, d, "update") /\ lastDiff' = [lastDiff EXCEPT ![i][g] = output[i][d]]
  /\ UNCHANGED <<agents, hook, store, resolved, existing, output, pollStarts>>

\* Mutant: to all sessions.
SharersAll(i, d) == known[i]

Sharers(i, d) == {s \in known[i] : Cwd[s] = d}

UpdateUncommittedDiff(i, d) ==
  /\ pc[i][d] = "update" /\ PollGoto(i, d, "none")
  /\ shown' = [shown EXCEPT ![i] = [s \in PollSessions |->
       IF s \in Sharers(i, d) THEN output[i][d] ELSE @[s]]]
  /\ UNCHANGED <<agents, hook, known, watcher, existing, output, pollStarts>>

PollStep(i, d) ==
  \/ Resolve(i, d) \/ ReadHook(i, d) \/ GitDiffHead(i, d) \/ PublishHook(i, d)
  \/ Compare(i, d) \/ UpdateUncommittedDiff(i, d)

-----------------------------------------------------------------------------
PollNext ==
  \/ \E d \in Dirs : Edit(d) \/ Relocate(d)
  \/ \E s \in PollSessions : Activity(s)
  \/ \E g \in Repos : Expire(g)
  \/ \E i \in Pollers :
       \/ \E s \in PollSessions : Join(i, s)
       \/ PollRestart(i) \/ PollAll(i)
       \/ \E d \in Dirs : PollStep(i, d)

\* Time passes, the ticker ticks, git and the disk answer.
PollFairness ==
  /\ \A g \in Repos : SF_pollVars(Expire(g))
  /\ \A i \in Pollers :
       WF_pollVars(PollAll(i)) /\ \A d \in Dirs : WF_pollVars(PollStep(i, d))

PollSpec     == PollInit /\ [][PollNext]_pollVars
PollFairSpec == PollSpec /\ PollFairness

-----------------------------------------------------------------------------
(* Properties.                                                               *)

\* A session shows the diff of its own directory: a text that directory has had
\* (docs/tools.md:28, "the live git diff HEAD in the session's own working tree").
ShownIsOwn ==
  \A i \in Pollers, s \in PollSessions : shown[i][s] \in held[Cwd[s]] \cup {None}

IsPolled(i, s) == s \in known[i] \cap recent /\ Cwd[s] \in ready

\* Once the tree rests, a recent session comes to show its diff in every instance,
\* whichever of them computes it, and the hook file that prompts are served holds it, also
\* when a slow poll overwrites a newer one with an older (pollRepo, publishHookFile;
\* docs/tools.md:28, "refreshed as files are saved").
EventuallyCurrent ==
  \A i \in Pollers, s \in PollSessions :
    <>[](IsPolled(i, s) =>
           shown[i][s] = work[Cwd[s]] /\ hook[GitDir[Cwd[s]]].text = work[Cwd[s]])

=============================================================================
