----------------------------- MODULE DiffRefresh -----------------------------
(***************************************************************************)
(* How one session's diff follows its turns (watcher/diff_watcher.go, Run to *)
(* readSnapshot): the turn events of each instance's broker, the dirty mark,  *)
(* the refresh goroutine, the pinned base and the persisted snapshot that the *)
(* instances share on disk, and the tool calls that read the diff through the *)
(* snapshot cache (LoadDiff in session/store.go).  SeedDiffCache, which fills  *)
(* that cache once a warm-up is over, is left out.                           *)
(*                                                                         *)
(* Time is the number of turns the agent has taken: a turn carries it, and a  *)
(* file written now is stamped with it.  A diff is the text git printed; asOf *)
(* remembers which turn the working tree stood at when it did.                *)
(***************************************************************************)
EXTENDS Integers, Sequences

CONSTANTS
  Instances,   \* peek processes that watch the session
  Trees,       \* what the working tree may hold; Clean is no change
  Clean,
  Buffer,      \* events a broker subscriber may have waiting
  WritesFail,  \* whether a write to the state directory may fail
  Busy,        \* whether anything else is published: other sessions, other events
  MaxTurns,    \* bound: turns of the session
  MaxTip,      \* bound: places the target branch's merge-base moves through
  MaxStarts    \* bound: restarts of each instance

ASSUME DiffRefreshAssumption ==
  /\ Clean \in Trees
  /\ Buffer \in Nat \ {0} /\ WritesFail \in BOOLEAN /\ Busy \in BOOLEAN
  /\ MaxTurns \in Nat /\ MaxTip \in Nat \ {0} /\ MaxStarts \in Nat

VARIABLES
  \* the session and its repository
  turns,     \* turns so far
  tree,      \* the working tree
  tip,       \* the merge-base of HEAD and the target branch
  isGit,     \* the session's directory exists and is a repository
  \* the state directory
  diskBase,  \* diff.base, or NoBase
  diskDiff,  \* diff.snapshot: a diff and its modification time, or NoSnapshot
  \* per instance: Store
  lastActive,    \* the timestamp of the last turn it ingested; 0 when it knows none
  base,      \* DiffBase, or NoBase
  live,      \* DiffOutput
  source,    \* DiffSource
  hasSnap,   \* HasDiffSnapshot
  cache,     \* the session's entry in the snapshot cache, or NoDiff
  \* per instance: DiffWatcher
  inbox,     \* the subscriber channel
  dirty,
  pc,        \* the refresh goroutine; "none" when it does not run
  pinned,    \* its base
  output,    \* its output
  existing,  \* its snapshot content
  \* per instance: a call of LoadDiff between read and put
  reading,   \* the content it read from disk, or NoDiff
  \* history
  computed,  \* the last turn whose tree git diff was run on
  unwritten, \* whether a snapshot could not be written
  overtaken, \* whether a snapshot was persisted while LoadDiff had read one it will put later
  starts

world    == <<turns, tree, tip, isGit>>
stateDir == <<diskBase, diskDiff>>
memory   == <<lastActive, base, live, source, hasSnap, cache>>
watcher  == <<inbox, dirty>>
refresh  == <<pc, pinned, output, existing>>
history  == <<computed, unwritten, overtaken, starts>>
diffVars     == <<world, stateDir, memory, watcher, refresh, reading, history>>

NoBase     == 0
Empty      == <<>>
NoDiff     == [text |-> Empty, asOf |-> 0]
NoSnapshot == [diff |-> NoDiff, at |-> 0]
Bases      == 0 .. MaxTip
Texts      == {Empty} \cup (1 .. MaxTip) \X (Trees \ {Clean})
Diffs      == [text : Texts, asOf : 0 .. MaxTurns]

DiffTypeOK ==
  /\ turns \in 0 .. MaxTurns /\ tree \in Trees /\ tip \in 1 .. MaxTip /\ isGit \in BOOLEAN
  /\ diskBase \in Bases /\ diskDiff \in [diff : Diffs, at : 0 .. MaxTurns]
  /\ lastActive \in [Instances -> 0 .. MaxTurns] /\ base \in [Instances -> Bases]
  /\ live \in [Instances -> Diffs] /\ source \in [Instances -> {"none", "live", "snapshot"}]
  /\ hasSnap \in [Instances -> BOOLEAN] /\ cache \in [Instances -> Diffs]
  /\ \A i \in Instances : inbox[i] \in Seq({"turn", "other"}) /\ Len(inbox[i]) <= Buffer
  /\ dirty \in [Instances -> BOOLEAN]
  /\ pc \in [Instances -> {"none", "start", "pin", "merge", "persistBase", "read",
                           "diff", "update", "persist", "mark"}]
  /\ pinned \in [Instances -> Bases] /\ output \in [Instances -> Diffs]
  /\ existing \in [Instances -> Diffs] /\ reading \in [Instances -> Diffs]
  /\ computed \in 0 .. MaxTurns /\ unwritten \in BOOLEAN
  /\ overtaken \in [Instances -> BOOLEAN] /\ starts \in [Instances -> 0 .. MaxStarts]

DiffInit ==
  /\ turns = 0 /\ tree = Clean /\ tip = 1 /\ isGit = TRUE
  /\ diskBase = NoBase /\ diskDiff = NoSnapshot
  /\ lastActive = [i \in Instances |-> 0] /\ base = [i \in Instances |-> NoBase]
  /\ live = [i \in Instances |-> NoDiff] /\ source = [i \in Instances |-> "none"]
  /\ hasSnap = [i \in Instances |-> FALSE] /\ cache = [i \in Instances |-> NoDiff]
  /\ inbox = [i \in Instances |-> <<>>] /\ dirty = [i \in Instances |-> FALSE]
  /\ pc = [i \in Instances |-> "none"] /\ pinned = [i \in Instances |-> NoBase]
  /\ output = [i \in Instances |-> NoDiff] /\ existing = [i \in Instances |-> NoDiff]
  /\ reading = [i \in Instances |-> NoDiff]
  /\ computed = 0 /\ unwritten = FALSE /\ overtaken = [i \in Instances |-> FALSE]
  /\ starts = [i \in Instances |-> 0]

-----------------------------------------------------------------------------
(* The agent, git and the other sessions.                                    *)

\* The agent edits and takes its turn.
Turn ==
  /\ turns < MaxTurns /\ turns' = turns + 1
  /\ tree' \in Trees
  /\ UNCHANGED <<tip, isGit, stateDir, memory, watcher, refresh, reading, history>>

\* The target branch advances, or is merged.
MoveTarget ==
  /\ tip < MaxTip /\ tip' = tip + 1
  /\ UNCHANGED <<turns, tree, isGit, stateDir, memory, watcher, refresh, reading, history>>

\* The worktree is cleaned up.
LoseGit ==
  /\ isGit /\ isGit' = FALSE
  /\ UNCHANGED <<turns, tree, tip, stateDir, memory, watcher, refresh, reading, history>>

\* Mutant: what does not fit waits all the same.
PublishedAll(i, event) == Append(inbox[i], event)

\* Publish never blocks: a full subscriber loses the event.
Published(i, event) ==
  IF Len(inbox[i]) < Buffer THEN Append(inbox[i], event) ELSE inbox[i]

\* Another session, or another kind of event of this one, is published.
Noise(i) ==
  /\ Busy
  /\ inbox' = [inbox EXCEPT ![i] = Published(i, "other")]
  /\ UNCHANGED <<world, stateDir, memory, dirty, refresh, reading, history>>

-----------------------------------------------------------------------------
(* One instance: ingest, events, ticks.                                      *)

\* What a new session starts with when the state directory knows it.
Hydrated(i) ==
  /\ base' = [base EXCEPT ![i] = diskBase]
  /\ hasSnap' = [hasSnap EXCEPT ![i] = diskDiff # NoSnapshot]
  /\ source' = [source EXCEPT ![i] = IF diskDiff # NoSnapshot THEN "snapshot" ELSE "none"]

\* The transcript watcher adds the session's next turn.
Ingest(i) ==
  /\ lastActive[i] < turns
  /\ lastActive' = [lastActive EXCEPT ![i] = @ + 1]
  /\ IF lastActive[i] = 0 THEN Hydrated(i) ELSE UNCHANGED <<base, hasSnap, source>>
  /\ inbox' = [inbox EXCEPT ![i] = Published(i, "turn")]
  /\ UNCHANGED <<world, stateDir, live, cache, dirty, refresh, reading, history>>

Receive(i) ==
  /\ inbox[i] # <<>>
  /\ inbox' = [inbox EXCEPT ![i] = Tail(@)]
  /\ dirty' = [dirty EXCEPT ![i] = @ \/ Head(inbox[i]) = "turn"]
  /\ UNCHANGED <<world, stateDir, memory, refresh, reading, history>>

\* refreshDirty takes the mark; a refresh that still runs keeps the new one from
\* starting.
Tick(i) ==
  /\ dirty[i] /\ dirty' = [dirty EXCEPT ![i] = FALSE]
  /\ pc' = [pc EXCEPT ![i] = IF @ = "none" THEN "start" ELSE @]
  /\ UNCHANGED <<world, stateDir, memory, inbox, pinned, output, existing, reading, history>>

-----------------------------------------------------------------------------
(* The refresh goroutine.                                                    *)

Goto(i, label) == pc' = [pc EXCEPT ![i] = label]

\* MarkDiffSnapshot, and the goroutine returns.
FailOver(i) ==
  /\ Goto(i, "none")
  /\ source' = [source EXCEPT ![i] =
       IF live[i].text = Empty /\ ~hasSnap[i] THEN @ ELSE "snapshot"]

\* Mutant: every refresh infers the base anew.
StartInfers(i) ==
  /\ pc[i] = "start"
  /\ \/ /\ ~isGit /\ FailOver(i)
     \/ /\ isGit /\ Goto(i, "merge") /\ UNCHANGED source
  /\ UNCHANGED <<world, stateDir, lastActive, base, live, hasSnap, cache, watcher, pinned,
                 output, existing, reading, history>>

\* A directory that git does not know fails over; a session whose base is known
\* needs no pin.
Start(i) ==
  /\ pc[i] = "start"
  /\ \/ /\ ~isGit /\ FailOver(i) /\ UNCHANGED pinned
     \/ /\ isGit /\ Goto(i, IF base[i] = NoBase THEN "pin" ELSE "read")
        /\ pinned' = [pinned EXCEPT ![i] = base[i]] /\ UNCHANGED source
  /\ UNCHANGED <<world, stateDir, lastActive, base, live, hasSnap, cache, watcher, output,
                 existing, reading, history>>

PinAs(i, sha) ==
  base' = [base EXCEPT ![i] = sha] /\ pinned' = [pinned EXCEPT ![i] = sha]

\* pinBase: the base on disk, if there is one.
Pin(i) ==
  /\ pc[i] = "pin"
  /\ \/ /\ diskBase # NoBase /\ PinAs(i, diskBase) /\ Goto(i, "read")
     \/ /\ diskBase = NoBase /\ Goto(i, "merge") /\ UNCHANGED <<base, pinned>>
  /\ UNCHANGED <<world, stateDir, lastActive, live, source, hasSnap, cache, watcher,
                 output, existing, reading, history>>

\* Otherwise the merge-base of now.
Merge(i) ==
  /\ pc[i] = "merge"
  /\ \/ /\ isGit /\ PinAs(i, tip) /\ Goto(i, "persistBase") /\ UNCHANGED source
     \/ /\ ~isGit /\ FailOver(i) /\ UNCHANGED <<base, pinned>>
  /\ UNCHANGED <<world, stateDir, lastActive, live, hasSnap, cache, watcher, output,
                 existing, reading, history>>

PersistBase(i) ==
  /\ pc[i] = "persistBase" /\ Goto(i, "read")
  /\ diskBase' \in {pinned[i]} \cup (IF WritesFail THEN {diskBase} ELSE {})
  /\ UNCHANGED <<world, diskDiff, memory, watcher, pinned, output, existing, reading, history>>

ShowLive(i, diff) ==
  live' = [live EXCEPT ![i] = diff] /\ source' = [source EXCEPT ![i] = "live"]

IsFresh(i) == diskDiff # NoSnapshot /\ diskDiff.at >= lastActive[i]

\* A snapshot stamped after the latest turn stands in for git diff.
ReadSnapshot(i) ==
  /\ pc[i] = "read"
  /\ existing' = [existing EXCEPT ![i] = diskDiff.diff]
  /\ \/ /\ IsFresh(i) /\ Goto(i, "mark")
        /\ ShowLive(i, diskDiff.diff) /\ output' = [output EXCEPT ![i] = diskDiff.diff]
     \/ /\ ~IsFresh(i) /\ Goto(i, "diff") /\ UNCHANGED <<live, source, output>>
  /\ UNCHANGED <<world, stateDir, lastActive, base, hasSnap, cache, watcher, pinned,
                 reading, history>>

GitText(sha) == IF tree = Clean THEN Empty ELSE <<sha, tree>>

GitDiff(i) ==
  /\ pc[i] = "diff"
  /\ \/ /\ isGit /\ Goto(i, "update") /\ UNCHANGED source
        /\ output' = [output EXCEPT ![i] = [text |-> GitText(pinned[i]), asOf |-> turns]]
        /\ computed' = turns
     \/ /\ ~isGit /\ FailOver(i) /\ UNCHANGED <<output, computed>>
  /\ UNCHANGED <<world, stateDir, lastActive, base, live, hasSnap, cache, watcher, pinned,
                 existing, reading, unwritten, overtaken, starts>>

\* Mutant: empty output is persisted too.
PersistsAll(i) == TRUE

Persists(i) == output[i].text # Empty

\* Mutant: an empty diff touches the snapshot, so that no other instance repeats it.
UpdateTouches(i) ==
  /\ pc[i] = "update" /\ ShowLive(i, output[i])
  /\ Goto(i, IF Persists(i) THEN "persist" ELSE "none")
  /\ diskDiff' = IF Persists(i) \/ diskDiff = NoSnapshot THEN diskDiff
                 ELSE [diskDiff EXCEPT !.at = turns]
  /\ UNCHANGED <<world, diskBase, lastActive, base, hasSnap, cache, watcher, pinned, output,
                 existing, reading, history>>

Update(i) ==
  /\ pc[i] = "update"
  /\ ShowLive(i, output[i])
  /\ Goto(i, IF Persists(i) THEN "persist" ELSE "none")
  /\ UNCHANGED <<world, stateDir, lastActive, base, hasSnap, cache, watcher, pinned, output,
                 existing, reading, history>>

\* Mutant: the failure is logged and the session marked all the same.
PersistMarks(i) ==
  /\ pc[i] = "persist" /\ Goto(i, "mark")
  /\ diskDiff' \in {[diff |-> output[i], at |-> turns]}
                   \cup (IF WritesFail THEN {diskDiff} ELSE {})
  /\ UNCHANGED <<world, diskBase, memory, watcher, pinned, output, existing, reading, history>>

\* Mutant: a snapshot that exists is only touched.
PersistTouches(i) ==
  /\ pc[i] = "persist" /\ Goto(i, "mark")
  /\ diskDiff' = [diff |-> IF existing[i].text # Empty THEN diskDiff.diff ELSE output[i],
                  at |-> turns]
  /\ UNCHANGED <<world, diskBase, memory, watcher, pinned, output, existing, reading, history>>

\* persistSnapshot: the file is only touched when it held this text before.
Persist(i) ==
  /\ pc[i] = "persist"
  /\ \/ /\ Goto(i, "mark")
        /\ diskDiff' = [diff |-> IF output[i].text = existing[i].text
                                 THEN diskDiff.diff ELSE output[i],
                        at |-> turns]
        /\ UNCHANGED unwritten
     \/ WritesFail /\ Goto(i, "none") /\ unwritten' = TRUE /\ UNCHANGED diskDiff
  /\ UNCHANGED <<world, diskBase, memory, watcher, pinned, output, existing, reading,
                 computed, overtaken, starts>>

\* MarkSnapshotPersisted.
Mark(i) ==
  /\ pc[i] = "mark" /\ Goto(i, "none")
  /\ hasSnap' = [hasSnap EXCEPT ![i] = TRUE] /\ cache' = [cache EXCEPT ![i] = output[i]]
  /\ overtaken' = [overtaken EXCEPT ![i] = reading[i] # NoDiff]
  /\ UNCHANGED <<world, stateDir, lastActive, base, live, source, watcher, pinned, output,
                 existing, reading, computed, unwritten, starts>>

RefreshStep(i) ==
  \/ Start(i) \/ Pin(i) \/ Merge(i) \/ PersistBase(i) \/ ReadSnapshot(i)
  \/ GitDiff(i) \/ Update(i) \/ Persist(i) \/ Mark(i)

-----------------------------------------------------------------------------
(* Reading the diff.                                                         *)

IsLive(i) == source[i] = "live" /\ live[i].text # Empty

\* LoadDiff misses the cache and reads the disk, without the store's lock.
BeginRead(i) ==
  /\ lastActive[i] > 0 /\ hasSnap[i] /\ reading[i] = NoDiff
  /\ ~IsLive(i) /\ cache[i] = NoDiff
  /\ reading' = [reading EXCEPT ![i] = diskDiff.diff]
  /\ UNCHANGED <<world, stateDir, memory, watcher, refresh, history>>

\* What was read is put into the cache.
FinishRead(i) ==
  /\ reading[i] # NoDiff
  /\ cache' = [cache EXCEPT ![i] = reading[i]]
  /\ reading' = [reading EXCEPT ![i] = NoDiff]
  /\ UNCHANGED <<world, stateDir, lastActive, base, live, source, hasSnap, watcher, refresh, history>>

\* Other sessions push this one out of the cache.
Evict(i) ==
  /\ cache[i] # NoDiff /\ cache' = [cache EXCEPT ![i] = NoDiff]
  /\ overtaken' = [overtaken EXCEPT ![i] = @ /\ reading[i] # NoDiff]
  /\ UNCHANGED <<world, stateDir, lastActive, base, live, source, hasSnap, watcher, refresh,
                 reading, computed, unwritten, starts>>

\* The process ends and another takes its place.
Restart(i) ==
  /\ starts[i] < MaxStarts /\ starts' = [starts EXCEPT ![i] = @ + 1]
  /\ lastActive' = [lastActive EXCEPT ![i] = 0] /\ base' = [base EXCEPT ![i] = NoBase]
  /\ live' = [live EXCEPT ![i] = NoDiff] /\ source' = [source EXCEPT ![i] = "none"]
  /\ hasSnap' = [hasSnap EXCEPT ![i] = FALSE] /\ cache' = [cache EXCEPT ![i] = NoDiff]
  /\ inbox' = [inbox EXCEPT ![i] = <<>>] /\ dirty' = [dirty EXCEPT ![i] = FALSE]
  /\ Goto(i, "none") /\ reading' = [reading EXCEPT ![i] = NoDiff]
  /\ overtaken' = [overtaken EXCEPT ![i] = FALSE]
  /\ UNCHANGED <<world, stateDir, pinned, output, existing, computed, unwritten>>

-----------------------------------------------------------------------------
InstanceStep(i) == Ingest(i) \/ Receive(i) \/ Tick(i) \/ RefreshStep(i)

DiffNext ==
  \/ Turn \/ MoveTarget \/ LoseGit
  \/ \E i \in Instances :
       \/ InstanceStep(i) \/ Noise(i)
       \/ BeginRead(i) \/ FinishRead(i) \/ Evict(i) \/ Restart(i)

\* The watchers and their goroutines run; a receive and a tick that are both ready
\* are picked at random.
Fairness ==
  \A i \in Instances :
    WF_diffVars(Ingest(i)) /\ WF_diffVars(RefreshStep(i)) /\ SF_diffVars(Receive(i)) /\ SF_diffVars(Tick(i))

DiffSpec     == DiffInit /\ [][DiffNext]_diffVars
DiffFairSpec == DiffSpec /\ Fairness

-----------------------------------------------------------------------------
(* Properties.                                                               *)

\* The base on disk is pinned once: merges and restarts do not move it (pinBase).
BaseStays == [][diskBase # NoBase => diskBase' = diskBase]_diffVars

\* The diff an instance shows never goes back to an older state of the tree, though
\* refreshes take their time and reuse what is on disk (refreshDirty, refresh).
NeverGoesBack ==
  [][\A i \in Instances :
       source[i] = "live" /\ source'[i] = "live" =>
         live'[i].text = live[i].text \/ live'[i].asOf >= live[i].asOf]_diffVars

\* The last work shown survives its worktree: while writes succeed, a diff that was
\* shown and is not empty is the snapshot on disk, whatever restarts and empty diffs come
\* between, as soon as the refresh that showed it has persisted it (persistSnapshot).
WorkIsKept ==
  \A i \in Instances :
    ~unwritten /\ live[i].text # Empty /\ pc[i] # "persist" =>
      diskDiff.diff.text = live[i].text

\* A session said to have a snapshot has one with work in it, also when writes fail
\* (MarkSnapshotPersisted, hydrateFromState).
SnapshotExists ==
  \A i \in Instances : hasSnap[i] => diskDiff.diff.text # Empty

\* What is served when git is gone exists: while writes succeed, the source flips to
\* the snapshot only where there is one to serve (MarkDiffSnapshot).
FailsOverToWork ==
  \A i \in Instances :
    ~unwritten /\ source[i] = "snapshot" => diskDiff.diff.text # Empty

\* The cache serves what is on disk, but for a snapshot that LoadDiff read before a newer
\* one was persisted and puts after it (LoadDiff, MarkSnapshotPersisted); where the state
\* directory is one instance's own.
CacheFollowsDisk ==
  \A i \in Instances :
    Instances = {i} /\ cache[i] # NoDiff /\ ~overtaken[i] /\ pc[i] # "mark" =>
      cache[i].text = diskDiff.diff.text

\* The four together: what is served when the worktree is gone is the last work.
LastWorkServed == SnapshotExists /\ WorkIsKept /\ FailsOverToWork /\ CacheFollowsDisk

\* README.md:34: "after each new turn, peek-mcp infers the session branch's base and
\* runs git diff": the tree of the session's latest turn comes to be diffed.
EachTurnIsDiffed ==
  \A n \in 1 .. MaxTurns : turns = n ~> computed >= n \/ turns # n \/ ~isGit

=============================================================================
