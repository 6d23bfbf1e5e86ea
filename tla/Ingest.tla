------------------------------- MODULE Ingest -------------------------------
(***************************************************************************)
(* One transcript watcher (watcher/watcher.go) over a directory tree that   *)
(* agents write to, and the part of the store its lines go to               *)
(* (session/store.go): the first walk, the notifications, the rescan, and   *)
(* the warm periods that stop and resume it from the instance's snapshot.   *)
(*                                                                         *)
(* Run is one goroutine, so the watcher's steps follow each other; what     *)
(* interleaves with them is the agents' writes.  A walk goes through the     *)
(* tree one name at a time in lexical order (Visit): a directory is listed,  *)
(* a session's transcript read, a subagent's put off.  Then it watches the   *)
(* directories it listed (Watch) and reads what it put off (ReadDeferred).   *)
(***************************************************************************)
EXTENDS Integers, Sequences, FiniteSets

CONSTANTS
  Parents,      \* transcripts of sessions
  Subs,         \* transcripts of subagents
  ParentOf,     \* the session a subagent belongs to
  Dirs,         \* directories
  Root,         \* the watched agent directory
  In,           \* the directory a file or directory is in
  Place,        \* where a name comes in the lexical order of WalkDir
  Horizon,      \* whether the watch window is limited
  CanOverflow,  \* whether the kernel's notification queue may overflow
  MaxSize,      \* bound: half-lines in a transcript
  MaxStops      \* bound: warm periods that end

Files == Parents \cup Subs
Names == Files \cup Dirs

\* The directories a name lies in, itself included.
Above[x \in Names] == {x} \cup (IF x = Root THEN {} ELSE Above[In[x]])

ASSUME IngestAssumption ==
  /\ Parents \cap Subs = {} /\ Files \cap Dirs = {}
  /\ Root \in Dirs
  /\ In \in [Names \ {Root} -> Dirs]
  /\ Place \in [Names -> Nat]
  /\ \A x, y \in Names : Place[x] = Place[y] => x = y
  /\ \A x \in Names \ {Root} : Place[In[x]] < Place[x]
  /\ \A x, y, z \in Names :   \* what lies in a directory is visited together
       Place[x] < Place[y] /\ Place[y] < Place[z] /\ x \in Above[z] => x \in Above[y]
  /\ ParentOf \in [Subs -> Parents]
  /\ Horizon \in BOOLEAN /\ CanOverflow \in BOOLEAN
  /\ MaxSize \in Nat /\ MaxStops \in Nat

VARIABLES
  \* the disk
  exists,    \* the files and directories there are
  size,      \* [Files -> half-lines]; odd when the last line is incomplete
  fresh,     \* names modified inside the watch window
  \* fsnotify
  watches,   \* the watched directories
  pending,   \* names with a create or write event in the channel
  \* Watcher.Run
  phase,     \* "off", "idle" at its select, or a part of a walk or batch
  toVisit,   \* names the walk has listed and not reached
  found,     \* directories the walk has listed
  live,      \* names the walk has seen inside the watch window
  deferred,  \* subagent transcripts the walk reads last
  toWalk,    \* created directories of the batch
  dirty,     \* files of the batch
  loaded,    \* the Loaded channel is closed
  offset,    \* [Files -> lines read]
  \* Store and snapshot
  stored,    \* [Files -> the lines whose turns the store holds, as added]
  saved,     \* the snapshot file: none, or one
  stops,     \* warm periods so far
  \* history
  owed       \* [Files -> lines in the watch window when the first walk began]

disk    == <<exists, size, fresh>>
notify  == <<watches, pending>>
walk    == <<toVisit, found, live, deferred>>
batch   == <<toWalk, dirty>>
ingest  == <<offset, stored>>
period  == <<saved, stops>>
vars    == <<disk, notify, phase, walk, batch, loaded, ingest, period, owed>>

Lines(first, last) == [i \in 1 .. (last - first) |-> first + i]

\* The complete lines of a transcript.
Whole(f) == size[f] \div 2

Nothing    == [f \in Files |-> 0]
NoTurns    == [f \in Files |-> <<>>]
LineCounts == 0 .. (MaxSize \div 2)
Snapshots  == [offset : [Files -> LineCounts], stored : [Files -> Seq(LineCounts)]]

DiskType ==
  /\ exists \in SUBSET Names /\ fresh \in SUBSET Names
  /\ size \in [Files -> 0 .. MaxSize]

WatcherType ==
  /\ watches \in SUBSET Dirs /\ pending \in SUBSET Names
  /\ phase \in {"off", "idle", "list", "deferred", "batch"}
  /\ toVisit \in SUBSET Names /\ found \in SUBSET Dirs /\ live \in SUBSET Names
  /\ deferred \in SUBSET Subs /\ toWalk \in SUBSET Dirs /\ dirty \in SUBSET Files
  /\ loaded \in BOOLEAN

StoreType ==
  /\ offset \in [Files -> LineCounts] /\ stored \in [Files -> Seq(LineCounts)]
  /\ saved \in SUBSET Snapshots /\ stops \in 0 .. MaxStops
  /\ owed \in [Files -> LineCounts]

TypeOK == DiskType /\ WatcherType /\ StoreType

Init ==
  /\ exists = {Root} /\ size = Nothing /\ fresh = {}
  /\ watches = {} /\ pending = {} /\ phase = "off"
  /\ toVisit = {} /\ found = {} /\ live = {} /\ deferred = {}
  /\ toWalk = {} /\ dirty = {} /\ loaded = FALSE
  /\ offset = Nothing /\ stored = NoTurns
  /\ saved = {} /\ stops = 0 /\ owed = Nothing

-----------------------------------------------------------------------------
(* The agents and the file system.                                           *)

\* A change of x is notified when its directory is watched; x itself is never
\* watched as a file.
Notify(x) ==
  pending' = IF In[x] \in watches THEN pending \cup {x} ELSE pending

\* An agent spawns a subagent, and makes the directory for it, when the session's
\* transcript has lines.
Create(x) ==
  /\ x \notin exists /\ In[x] \in exists
  /\ \A s \in Subs : x \in Above[s] \ Above[ParentOf[s]] => Whole(ParentOf[s]) > 0
  /\ exists' = exists \cup {x} /\ fresh' = fresh \cup {x, In[x]}
  /\ Notify(x)
  /\ UNCHANGED <<size, watches, phase, walk, batch, loaded, ingest, period, owed>>

\* An agent appends half a line: the newline comes with the second half.
Write(f) ==
  /\ f \in exists /\ size[f] < MaxSize
  /\ size' = [size EXCEPT ![f] = @ + 1] /\ fresh' = fresh \cup {f}
  /\ Notify(f)
  /\ UNCHANGED <<exists, watches, phase, walk, batch, loaded, ingest, period, owed>>

\* x leaves the watch window.  A walk takes its cutoff once, so x leaves between
\* walks.
Age(x) ==
  /\ Horizon /\ x \in fresh /\ phase \in {"off", "idle"}
  /\ fresh' = fresh \ {x}
  /\ UNCHANGED <<exists, size, notify, phase, walk, batch, loaded, ingest, period, owed>>

\* The kernel drops notifications; Run logs the error and goes on.
Overflow ==
  /\ CanOverflow /\ pending # {}
  /\ pending' = {}
  /\ UNCHANGED <<disk, watches, phase, walk, batch, loaded, ingest, period, owed>>

-----------------------------------------------------------------------------
(* Reading transcripts.                                                      *)

\* Mutant: a subagent's turns open its session like any other turns.
OpensSession(f) == TRUE

\* addSubagentTurn drops the turn of a session the store does not know.  What a subagent's
\* meta file says (readSubagentMeta) comes by the same call and counts as read in the same
\* way: it is a subagent's transcript of one line.
Accepted(f) == f \in Subs => stored[ParentOf[f]] # <<>>

\* Mutant: the incomplete last line counts as read.
ReadToEnd(fs) ==
  /\ offset' = [f \in Files |-> IF f \in fs THEN (size[f] + 1) \div 2 ELSE offset[f]]
  /\ stored' = [f \in Files |->
       IF f \in fs /\ Accepted(f) THEN stored[f] \o Lines(offset[f], Whole(f))
       ELSE stored[f]]

\* readNewLines of each file in fs: the complete lines past its offset are parsed
\* and added to the store; the offset moves past them in any case.
Read(fs) ==
  /\ offset' = [f \in Files |-> IF f \in fs THEN Whole(f) ELSE offset[f]]
  /\ stored' = [f \in Files |->
       IF f \in fs /\ Accepted(f) THEN stored[f] \o Lines(offset[f], Whole(f))
       ELSE stored[f]]

-----------------------------------------------------------------------------
(* walkAndWatch.                                                             *)

\* Mutant: the comparison with the cutoff reversed.
BeforeWindow(x) == Horizon => x \notin fresh

InWindow(x) == Horizon => x \in fresh

BeginWalk(root) ==
  /\ phase' = "list" /\ toVisit' = {root}
  /\ found' = {} /\ live' = {} /\ deferred' = {}

IsNext(x) == x \in toVisit /\ \A y \in toVisit : Place[x] <= Place[y]

\* A transcript is read when it was modified inside the window.
Due(x) == {f \in Files : f = x /\ InWindow(f)}

\* WalkDir comes to a name: its time is recorded.  A directory is listed, what is in it
\* at this moment comes next; a session's transcript is read, a subagent's put off.
Visit(x) ==
  /\ phase = "list" /\ IsNext(x)
  /\ toVisit' = (toVisit \ {x}) \cup {y \in exists \ {Root} : In[y] = x}
  /\ found' = found \cup ({x} \cap Dirs)
  /\ live' = live \cup ({x} \cap fresh)
  /\ deferred' = deferred \cup (Due(x) \cap Subs)
  /\ Read(Due(x) \cap Parents)
  /\ UNCHANGED <<disk, notify, phase, batch, loaded, period, owed>>

\* Mutant: only the directory's own times count.
ExpiredByEntries(d) ==
  Horizon /\ d # Root /\ \A x \in live : x # d /\ (x \in Files => In[x] # d)

\* Nothing in or below d was modified inside the window.
Expired(d) == Horizon /\ d # Root /\ \A x \in live : d \notin Above[x]

\* The listed directories are watched, or unwatched when they have expired.
WatchFound ==
  watches' = {d \in watches \cup found : d \notin found \/ ~Expired(d)}

\* Mutant: Loaded is signalled before the subagent transcripts are read.
WatchSignals ==
  /\ phase = "list" /\ toVisit = {}
  /\ phase' = "deferred" /\ loaded' = TRUE
  /\ WatchFound
  /\ UNCHANGED <<disk, pending, walk, batch, ingest, period, owed>>

Watch ==
  /\ phase = "list" /\ toVisit = {}
  /\ phase' = "deferred"
  /\ WatchFound
  /\ UNCHANGED <<disk, pending, walk, batch, loaded, ingest, period, owed>>

AfterWalk == IF toWalk = {} /\ dirty = {} THEN "idle" ELSE "batch"

\* The subagent transcripts, parents first; the first walk then signals Loaded.
ReadDeferred ==
  /\ phase = "deferred"
  /\ Read(deferred)
  /\ phase' = AfterWalk /\ loaded' = TRUE /\ owed' = Nothing
  /\ found' = {} /\ live' = {} /\ deferred' = {}
  /\ UNCHANGED <<disk, notify, toVisit, batch, period>>

-----------------------------------------------------------------------------
(* Run's select.                                                             *)

\* Every five minutes, when the watch window is limited.
Rescan ==
  /\ phase = "idle" /\ Horizon
  /\ BeginWalk(Root)
  /\ UNCHANGED <<disk, notify, batch, loaded, ingest, period, owed>>

\* Mutant: a created directory is taken for a file.
StartBatchUnsorted ==
  /\ phase = "idle" /\ pending # {}
  /\ toWalk' = {} /\ dirty' = pending
  /\ pending' = {} /\ phase' = "batch"
  /\ UNCHANGED <<disk, watches, walk, loaded, ingest, period, owed>>

\* The first event and all that follow it in the channel.  (A notification still in
\* the kernel is one of a change that comes a little later: reading a file that
\* has not changed since does nothing.)
StartBatch ==
  /\ phase = "idle" /\ pending # {}
  /\ toWalk' = pending \cap Dirs /\ dirty' = pending \cap Files
  /\ pending' = {} /\ phase' = "batch"
  /\ UNCHANGED <<disk, watches, walk, loaded, ingest, period, owed>>

\* processBatch: the created directories first.
WalkCreated(d) ==
  /\ phase = "batch" /\ d \in toWalk
  /\ toWalk' = toWalk \ {d}
  /\ BeginWalk(d)
  /\ UNCHANGED <<disk, notify, dirty, loaded, ingest, period, owed>>

\* Then each file once, in the order of a Go map: any.
ReadDirty(f) ==
  /\ phase = "batch" /\ toWalk = {} /\ f \in dirty
  /\ Read({f})
  /\ dirty' = dirty \ {f}
  /\ phase' = IF dirty' = {} THEN "idle" ELSE "batch"
  /\ UNCHANGED <<disk, notify, walk, toWalk, loaded, period, owed>>

-----------------------------------------------------------------------------
(* Warm periods.                                                             *)

\* A new watcher, restored from the snapshot when there is one that loads.  The
\* snapshot file is removed in either case.
Restore ==
  /\ saved' = {}
  /\ \/ \E snapshot \in saved : offset' = snapshot.offset /\ stored' = snapshot.stored
     \/ /\ offset' = Nothing /\ stored' = NoTurns

Warm ==
  /\ phase = "off"
  /\ Restore
  /\ BeginWalk(Root)
  /\ owed' = [f \in Files |-> IF f \in exists /\ InWindow(f) THEN Whole(f) ELSE 0]
  /\ UNCHANGED <<disk, notify, batch, loaded, stops>>

\* What the stop leaves on disk: the snapshot, or nothing when it fails.
SnapshotsLeft == {[offset |-> offset, stored |-> stored]}

\* The period's context is cancelled: Run sees it at its select, the notifications
\* not handled are lost with the watcher, the store is written out and reset.
Cool ==
  /\ phase = "idle" /\ stops < MaxStops
  /\ saved' \in {{}, SnapshotsLeft}
  /\ stops' = stops + 1
  /\ watches' = {} /\ pending' = {} /\ phase' = "off" /\ loaded' = FALSE
  /\ offset' = Nothing /\ stored' = NoTurns
  /\ UNCHANGED <<disk, walk, batch, owed>>

-----------------------------------------------------------------------------
Environment ==
  \/ Overflow \/ Warm \/ Cool
  \/ \E x \in Names \ {Root} : Create(x)
  \/ \E x \in Names : Age(x)
  \/ \E f \in Files : Write(f)

WatcherStep ==
  \/ Watch \/ ReadDeferred \/ StartBatch
  \/ \E x \in Names : Visit(x)
  \/ \E d \in Dirs : WalkCreated(d)
  \/ \E f \in Files : ReadDirty(f)

Next == Environment \/ WatcherStep \/ Rescan

\* Run's goroutine goes on; the ticker ticks, and a select with several cases ready
\* picks one at random.
Fairness == WF_vars(WatcherStep) /\ SF_vars(Rescan)

Spec     == Init /\ [][Next]_vars
FairSpec == Spec /\ Fairness

-----------------------------------------------------------------------------
(* Properties.                                                               *)

Exact(read, turns) == \A p \in Parents : turns[p] = Lines(0, read[p])

Increasing(read, turns) ==
  \A s \in Subs :
    /\ \A i, j \in 1 .. Len(turns[s]) : i < j => turns[s][i] < turns[s][j]
    /\ \A i \in 1 .. Len(turns[s]) : turns[s][i] <= read[s]

\* The store holds the lines of each session transcript up to the offset, each once
\* and in order: across incomplete lines, walks that meet notifications, rescans and
\* restored snapshots.  A subagent's lines may be missing, but none is there twice or
\* out of order (readNewLines, restoreSnapshot, addSubagentTurn).
InOrderOnce ==
  /\ Exact(offset, stored) /\ Increasing(offset, stored)
  /\ \A snapshot \in saved : Exact(snapshot.offset, snapshot.stored)

Accompanied(turns) == \A s \in Subs : turns[s] # <<>> => turns[ParentOf[s]] # <<>>

\* A subagent's turns are in the store only together with their session: the store
\* never makes a session up from a subagent (addSubagentTurn).
SubsHaveSession == Accompanied(stored)

\* When a watcher signals Loaded, every line that was in the watch window when its
\* first walk began has been read (Run, Loaded; what awaitInitialLoad relies on).
LoadIsComplete ==
  [][~loaded /\ loaded' => \A f \in Files : offset'[f] >= owed[f]]_vars

\* plans/deep_analysis/design/raw.md D10: no subagent turn is dropped, because its
\* session is always read first.
NoSubDropped == \A s \in Subs : stored[s] = Lines(0, offset[s])

\* Every complete line of a transcript in the watch window is read, whatever
\* notifications were lost, unless the period ends or the transcript ages first.
EventuallyRead ==
  \A f \in Files, n \in LineCounts \ {0} :
    f \in fresh /\ Whole(f) >= n
      ~> offset[f] >= n \/ f \notin fresh \/ phase = "off"

\* The directories above a transcript in the watch window are watched, whatever the
\* rescans unwatched before, unless the period ends or it ages first.
EventuallyWatched ==
  \A f \in Files : \A d \in Above[f] \cap Dirs :
    f \in fresh ~> d \in watches \/ f \notin fresh \/ phase = "off"

=============================================================================
