# peek-mcp in TLA+

peek-mcp is an MCP server that tails the transcripts Claude Code and Codex write, keeps
what they say about every session in memory, follows the sessions' working trees with
git, and answers tool calls and a dashboard from it. This directory models the parts of
it whose correctness depends on order: files read while they are written, warm periods
that come and go under running calls, several instances that share files.

    tlc -workers 2 -config MCLifecycle.cfg MCLifecycle    # one run
    tlapm Lifecycle_proofs.tla                            # one module's proofs

## The system

| Part | State | Operations | Modelled in |
|---|---|---|---|
| Instance lifecycle: `tools/lifecycle.go`, `cmd/warm.go`, ready wait in `tools/tools.go` | calls in flight, generation, keepalive timer, window, warm period, ready channel, snapshot file | Start, Acquire, Release, Widen, expire, the load, the report, stop | `Lifecycle` |
| Transcript watcher: `watcher/watcher.go` | watches, offset and parser per file, event batch | walk, watch, batch, rescan, deferred subagents, unwatch, restore | `Ingest` |
| Claude parser: `claude/parser.go` | pending tool uses, permission mode | one handler per kind of line | `ClaudeParser` |
| Session account: `session/` | usage by session, skill and subagent, what each request counted, open skill windows, events, counters, touched files, turn rings | AddTurn, AddSubagentTurn, AddEvent, snapshot and restore | `SessionAccount` |
| Diff watcher, turn diffs: `watcher/diff_watcher.go` | dirty marks, running refreshes, pinned base, snapshot, cache | turn event, tick, refresh, LoadDiff | `DiffRefresh` |
| Diff watcher, uncommitted diffs | hook file shared by the instances, last diff, git directory cache | pollAll, pollRepo, publish, hand-out | `UncommittedPoll` |
| Store: plan revisions: `session/store.go`, `watcher/plan_watcher.go` | revisions in memory, revision files, latest.md | updatePlanContent, UpdatePlanForPath, hydrate, sync, record | `PlanStore` |
| Store: titles; Codex index watcher: `session/store.go`, `watcher/codex_index_watcher.go` | titles with their source and lower-case copy, the index to load | title turns, prompts, debounce, load, entry, search, snapshot | `Titles` |
| Codex parser: `codex/parser.go` | model, session, pending escalated calls | one handler per kind of entry | `CodexSession` |
| Tools: `tools/tools.go` | the sections a call has read | session_get, session_events | `SessionGet` |
| Paging: `tools/pages.go`, `tools/respond.go` | queue of pages per request id | build, add, next, hasNext, remove | `Paging` (how an answer is cut), `PageStore` (who gets what) |
| Permissions block: `tools/viewmodels_events.go` | none; joins the session's denials with the telemetry's decisions | AddEvent, foldDecision, the join | `Permissions` |
| Telemetry: `telemetry/store.go`, `telemetry/otlp.go` | statistics per session in memory and on disk, decisions, pending commands | fold, foldDecision, enrichCommand, evict, restore | `Telemetry` |
| Configuration: `config/file.go`, `control/config.go`, start of `cmd/start.go` | config.json and its temporary file, the overridden keys | Load, Set, Save, start | `ConfigFile` |
| Broker and event streams: `events/broker.go`, `control/sse.go` | subscribers and their queues, the count of clients | Publish, Subscribe, a handler per client | `Feed` (the broker's drop also in `DiffRefresh`) |
| State directory: `state/dir.go`, `tools/invocations.go`, `control/stats.go` | files with their ages, records and snapshots of instances | atomic write, touch, Gc, PruneInstanceStores, PruneInstances | `StateDir` |
| Rest of the control server, command line, setup, pricing | none | rendering, wiring, prompts, table lookups | no |

How they interact. The watcher hands each line to a parser that belongs to the file, and
the parser's turn to the store. The store publishes events through a broker that never
blocks: a subscriber whose sixteen slots are full loses the event. The diff watcher takes
turn events from the broker and works in goroutines of its own. Tool calls acquire the
lifecycle, wait on the store's ready channel, and read the store. When no call has come
for the keepalive, the lifecycle stops the warm period: watchers end, the store and the
offsets go to a snapshot file, the store is reset. The next call starts a new period from
the snapshot. Instances share nothing but files: the diff base, the diff snapshot, the
hook file, the plan's revisions, the telemetry, the configuration, and the state
directory itself, which each of them collects. A tool call reads a session section by
section while the watchers go on, and what does not fit into one answer waits in the page
store for the client to come back.

What is hard. A call that is between its ready check and its read when another call
resets the store. A keepalive timer that has fired while a call acquires. Transcripts
that end in half a line, subagent transcripts that are read before their session,
notifications that are lost, directories that appear between a listing and a watch. Usage
of one request that is streamed over many lines and changes its skill on the way.
Pointers that must survive a snapshot. Turns that arrive while the refresh for the last
one runs. Instances that overwrite each other's file, or collect it. Two clients with one
request id. Titles and decisions that come from two sources in any order. Streams whose
client is slow or gone.
`PROJECT.json` lists each of these
at its line under `hazards`, with the properties that cover it.

## The modules

`KeepaliveContract` is what the keepalive promises: an instance is warm under every call,
and an instance nobody calls goes cold. `Lifecycle` implements it (`Contract ==
INSTANCE KeepaliveContract WITH busy <- Busy, warm <- isWarm`; checked as the property
`KeepsContract` with its liveness, proved for safety as `ImplementsContract`).

`Lifecycle`. Every method of Lifecycle runs under `l.mu`. A method nobody can see half-way
is one action (`Acquire`, `Release`, `Expire`); the two that stop a warm period keep the
mutex while they wait for its goroutines, so they are several actions and `mu` names who
is inside (`Widen`, `WidenStops`, `WidenWarms`; `Expire`, `ExpireStops`). A loader is a
watcher whose first load the ready signal waits for; how far back its sessions reach is a
depth in days. `ready` is a channel's number, `closed` the channels that are closed:
`Reset` makes a new one, and a call waits on the one it evaluated.

`Ingest`. The tree of directories is a constant; a transcript's content is its length in
half-lines, so that a reader may find an incomplete last line. A walk goes name by name in
the lexical order of `WalkDir`: `Visit` takes the next name, lists it when it is a directory, reads
it when it is a session's transcript, and puts it off when it is a subagent's; what a
directory gains behind the walk is not seen. `Watch` adds the watches when all names were
visited; `ReadDeferred` reads the subagent transcripts last. A batch walks created directories first
(`WalkCreated`), then reads its files in any order (`ReadDirty`, a Go map). Agents write,
create and let names age between any two of these.

`ClaudeParser` is pure: `Parse(parser, line, actor)` is the parser's next state and the
turn it hands over, by kind of line. `SessionAccount` folds these turns into a session:
one action appends a line to a transcript and reads it, so `log` is what was read and the
properties say of the session what can be said of `log`. `ReadMeta` is a subagent's
`.meta.json`, `Rewarm` a cold phase with its snapshot and restore. A usage total is kept
by request, `usage[t][r]`; the code's number is the sum over `r`, and two totals that
agree by request agree in sum. `UsageExact` says by `SpansTo` which lines a skill's window
spans, and that is the code's rule: a window also ends where the message ends with a stop
reason other than tool_use (session.go:355), and a skill a subagent runs is charged with
the subagent's tokens (session.go:299-305). docs/tools.md:52 has two other rules, that only
the next prompt or skill ends a window, and that main-loop tokens alone count.
Both fail of the code: a request that follows the end of a message without another
prompt is not the skill's, and a subagent's skill has usage. The design notes decide for the code
(F4 of usage_skills_tracking.md and D8 of change-ui-ux-refresh.md, in
plans/control_server/design), so it is the document that is stale.

`DiffRefresh`. The refresh goroutine is a program counter with a step per place where
another instance, a turn or a reading call can be seen in between. Time is the number of
turns; a diff remembers in `asOf` the turn its tree stood at.

`UncommittedPoll`. One poll per directory and instance (`Pollers`), split at the hook file's read, git's
run, the publish and the hand-out.

`PlanStore`. A change of plan comes from a line of the transcript (`ReadLine`) or from the
plan watcher (`LoadPlan` reads the file, `UpdatePlanForPath` stores it); it runs under the
store's lock, so `op` holds at most one change per instance, with a step at each access to
the files another instance uses: `Sync` reads latest.md, `Adopt` the revision files,
`Record` writes a revision's file and `WritePlanLatest` latest.md. A revision's diff is
the pair of texts it goes between, which is enough to say whether it applies. `Stores` are
the instances' stores; the order of the files is the one list that rises (`Sorted`).

`Telemetry`. One action per record. The file is written in the action (`Update`) or the
write fails. `received` is the history the properties compare the statistics with.

`CodexSession`. As in `SessionAccount` one action appends a line to a rollout and reads it;
`BeginRollout` and `ContinueRollout` say which lines Codex can write next.
`ParserAfter` is the parser's next state, `Turns` the turn it hands over, `AddTurn` and
`AddSubagentTurn` what the store does with it. Turns, rings and the limit of the event list
are in `SessionAccount` and not repeated.

`Titles`. The transcripts' watchers and the index watcher run beside each other; `due` is
the debounce timer, `loading` what `loadIndex` read and has not yet passed on. Titles are
model values; `Plain` is what trimming and lower case make of one, `IsIn` what is part of
what. `Cool` and `Warm` are the snapshot.

`Permissions` keeps of the event list and of the telemetry's store only what the block is
made of; the block is operators over the state, as it is in the code.

`Paging` is pure: `Build` cuts the sections of an answer, `UTF8SafeSlice` a text at the last
whole character; a character has a width. `PageStore` is the table of queues, a call being
four critical sections (`TakePage`, `AskNext`, `RemoveEntry`, `AskMore`). `SessionGet` composes them: `ReadSection`
reads a section of the session, `Answer` builds the pages, `NextPage` is a step of a later
call. The session changes meanwhile. A turn with events is added in steps under the store's
lock (`PushEvent`, `CountEvent`, `FinishTurn`), because `AddEvent` pushes an event before it
counts it; `Watch` is every other change. Only the sections in `Locked` are read under that
lock: events and counters are read without, so a call may see an event nobody has counted
yet. A section is the number of its last change, so that a property
can say which change each part of an answer is from.

`ConfigFile`. Files are inodes, because `RenameConfig` moves whatever file has the name by now.
`Open` empties the temporary file every process uses; `may` is what each key of the file
may be after what was saved and what crashed.

`StateDir`. Time is counted in days, a write takes less than one. `LookAtDir` and
`RemoveDir` are the two steps between which another process can write. Of the instances'
own files `EndGc` and `Stats` mark what is to go and `RemoveInstanceFiles` removes it.
`recordDay` and `snapDay` are the days on which an instance last wrote each, so that
`InstancesKept` judges a file by the time since then; `overtaken` are the instances that
wrote between mark and removal.

`Feed`. A handler is counted in, subscribes, writes frames, and is counted out by its
deferred calls; a frame is a step of its own because a slow client holds it up.

`MCServices` puts `PlanStore`, `UncommittedPoll`, `Telemetry`, `CodexSession`,
`ConfigFile`, `StateDir`, `Feed` and `SessionGet` into one run, `MCSession` puts
`SessionAccount`, `DiffRefresh`, `Titles` and `Permissions` into another. Both extend
the modules rather than instantiate them, so that their assumptions are evaluated by the
run and a theorem and a run name the same definition. The components of such a run share no state: `subject` names the one that takes steps, the others stay as
they began, so that the states add up and do not multiply.

## What the runs show

| Run | Instance | Shows |
|---|---|---|
| `lifecycle` | 2 callers, one may ask for 2 or 5 days with a window of 3, 2 loaders | `KeepaliveSafe`, `PeriodSound`: only an idle instance cools and none stays warm without a timer, the reported state is true, channels close once; nothing is skipped for good; the widening call gets all it asked for; a wait on the store's channel ends; the keepalive contract with its liveness |
| `lifecycle_partial` (violation) | 2 callers, one widens | A call past its ready check reads the store a widening call has reset, against docs/tools.md:11 |
| `ingest` | root, project and subagent directory, one session, one subagent, two lines each, overflow, one stop | Lines are stored once and in order, in memory and in the snapshot; subagent turns only with their session; Loaded means loaded |
| `ingest_live` | the same, one line each, no stop | Every line is read and every directory above a live transcript watched, whatever notifications are lost |
| `ingest_drop` (violation) | a session in the root and its subagent, one line each, no watch window | A subagent's line is dropped because it is read before its session's, against plans/deep_analysis/design/raw.md:56: the session's transcript appears after the root was listed and before it is watched, and the subagents' directory, reported later, is walked first |
| `diff_refresh_turn` (violation) | 1 instance, 2 turns, fair | A turn that is marked while a refresh runs is never diffed, against README.md:34 |
| `uncommitted_live` | 2 instances, 1 directory, 1 restart each | Both instances and the hook file come to hold the tree's diff, though a slow poll may overwrite a newer one |
| `uncommitted_sub` (violation) | 2 directories in one repository | A session is given the other directory's diff, against docs/tools.md:28 |
| `session` | account: main transcript of up to 4 lines and a subagent's of 2, 5 in all, 2 requests, every cap 1 or 2; diff: 1 instance, 3 trees, 3 turns, 2 places of the target branch, 1 restart, failing writes, noise; titles: 2 sessions, 2 titles of which one is part of the other, 3 writes, 1 cold phase; permissions: 2 calls, 2 places in each list, 4 records, 1 mishap | Usage, windows, counters, event list and the attribution of results agree with the transcripts; the base stays, the diff never goes back, the last work is on disk and served; a session has the title its files give it and is found by it; denials and decisions add up |
| `services` | plan: 1 instance, 2 edits, 2 lines, 1 restart or cold phase, failing writes; polls: 2 sessions in 2 repositories, 1 edit, 1 restart, failing writes; telemetry: 2 sessions, 1 place in memory, 4 records, 1 failed write or restart; Codex: 2 rollouts, 5 lines in all, 1 call in the table, 2 revisions; configuration: 2 savers, 2 keys, 2 saves, 1 crash, 1 start; state directory: 1 session, 1 instance, 3 writes in all, 2 days, 1 crash; streams: 2 clients, 1 allowed, queue of 1, 3 events, 2 visits; answers: 6 requests, pages of 4 bytes, 2 events and 1 change of each other section, 2 callers with one id | The plan's files are one history with memory; a session shows texts of its own directory only; nothing counted is forgotten, each listed request has its own command; each answered escalated call has its verdict once, the latest proposed plan is shown; saves that do not overlap are kept and the file is whole at any moment; what the editor says of a key comes true; only what is old is collected, an instance's files by the time since they were written; a stream is in order and complete but for what found its queue full, and no place leaks; each page is handed out once; the parts of an answer agree, and its chunks join |
| `pages_tail` (violation) | the same answers | What a client has when has_more is false is not the whole section, against docs/tools.md:10 |
| `plan_shared` (violation) | 2 instances, 2 edits, 2 lines, accesses never overlap | An instance that reached the text in latest.md by a replayed line adopts nothing and overwrites a revision, against session/store_events_test.go:557 |

Bounds. `MaxCalls`, `MaxSize`, `MaxStops`, `MaxTurns`, `MaxTip`, `MaxStarts`, `MaxEdits`,
`MaxLines`, `MaxTotal`, `MaxWrites`, `MaxSteps`, `MaxConfigCrashes`, `MaxConfigStarts`,
`MaxStateCrashes`, `MaxMishaps`, `MaxRecords`, `MaxEvents`, `MaxVisits`, `MaxSaves`,
`MaxChanges`, `MaxRead` bound what the outside does; nothing the program does is bounded except by them
(`MaxWrites` counts in `StateDir` what instances write of themselves, too). Two calls make the races of the lifecycle; windows
on both sides of the configured one make `Widen` both widen and return early. Two
half-lines make an incomplete line, four a second line to lose or repeat; one stop makes a
snapshot and a restore. In `session` the account's caps are 1 or 2 so that each is reached
within five lines: the pending table overflows, the ring evicts, the event budgets and the
list of skills fill up. The cap on subagents cannot be reached with one subagent;
`UsageConserved` is proved for every cap. In `services` the telemetry's caps are 1 and 2 so
that four records evict, fill the list and drop the pending table; the plan's cap is 2 so
that the third text is counted and not kept; a limit of one stream turns a client away, and
a queue of one event overflows. Two saves overlap or follow each other, with a crash in any
step of the first. A snapshot is old after one day and the session after two, so that
each is collected without the other. Characters of one and of two bytes make a page that ends short.

Deadlock is not checked where the bounds stop the outside and nothing is left to do
(`CHECK_DEADLOCK FALSE` in `MCSession.cfg`, `MCServices.cfg` and others; in
`MCIngestDrop.cfg` because without a window nothing is rescanned once all is written);
that calls come back is `WaitEnds`.

Fairness. Goroutines run (`WF` of the watcher, of the period's goroutines, of each call,
of each poll). Where Go's `select` has several ready cases it picks one at random, so an
action that is enabled again and again is taken (`SF` of `Rescan`, `Receive`, `Tick`).
Time passes (`SF` of `Expire` in `UncommittedPoll`). Nothing makes a client call, give
up, or an agent write.

## What is proved

For every value of the constants under the named assumptions of each module.

`Lifecycle_proofs`. `TypeCorrect` proves types and the count of calls together: `Release`
keeps `inFlight` a natural number only because the call is counted. `KeepaliveCorrect`
adds that an armed or fired generation is not newer than the current one and that a timer
of the current generation means nobody is in flight: this is what makes the check in
`expire` enough. `PeriodCorrect` adds how the mutex, the running period, the reporter and
the ready channel go together. Of the answers, `WindowInv` says that the watch
window covers the depth the instance began with and that of every call past its widening,
`LoadedInv` that a closed ready channel means every loader has stored that much.
`AnswersCorrect` follows for any callers, whoever widens: a handler whose channel is still
the store's has all it asked for. `WidenerAnswersCorrect` holds where at most one call
widens, `AnswersComplete` where none does: the run `lifecycle_partial` shows why. `StaysWarmCorrect` is the mode
without keepalive. `ImplementsContract` is the refinement, step by step.

`Ingest_proofs`. The invariant says of the offsets and turns in memory, and of those in
the snapshot, that they belong together and that no offset is past the file. It is the
same statement twice because a restore turns one into the other.

`SessionAccount_proofs`. `Conserved` is inductive with the ledger's types alone: what is
taken back is what the record says, at the targets the record names. `Nameable` (every
recorded target is one the snapshot has a name for) is added so that a cold phase loses no
record; it gives `RewarmIsInvisible`. `UsageExactCorrect` says what the totals are, from
the lines alone. Its invariant ties each part of the state to the lines that made it: an
event of a skill to the line that began it (`SkillLines`), the open window of an actor to
its last skill event and to the lines since (`WindowsExact`, `PromptExact`), a skill that
is not listed to a full list (`RoomGone`), and what is counted for a request to its last
chunk and to the windows that span that chunk (`CountedExact`). The last one needs every
other, as a window's end is decided by lines of three kinds.
It assumes that a notice is not also an event a tool call writes, as in the code, where the
kinds are distinct strings.

The rest of the account follows from `AccountInv`. `LinesOK` is what Claude Code writes: an
id names one call of one transcript, and its one result comes after it. The table of a
parser then holds calls that wait for their result, all of them while it never overflowed
(`ParsersOK`); a plan's verdict is told from a denial exactly then, so that each counter is
the number of the lines that count (`CountersInv`, for `CountersExactCorrect`). The event
list holds the denials that were counted, up to their budget, and no more others than
theirs (`EventsExact`, for `DenialsKeptCorrect`); a result in it that names a subagent
names that of its own call, whether the meta file was read before it or after. Of the
turns, `TurnOK` compares a retained turn with the transcript of its own scope: a call is
marked failed exactly if a failed result for it was read, whether the turn is still open,
was joined from several lines, or ended long ago (`ResultsFindCallsCorrect`).
`TouchedOK` adds the caps of the touched files, so that `AccountTypeCorrect` follows.

`UncommittedPoll_proofs`. `DiffsStayApart`: where no two directories share a repository,
texts in work, in the hook file, in a poll and in a session are texts of the same
directory. Without the assumption it fails, as `uncommitted_sub` shows.

`Services_proofs` is about the answers, the streams and the telemetry.

Answers. `PagesOnceCorrect` holds for any number of callers. That the pages
waiting and the pages handed out make up the answer is inductive; that has_more = false is
said after the last one, and that a call alone with its id never meets the drained channel,
need two more facts: nothing waits under an id that is closed or ended, and where an entry
is drained the call that took its last page is on its way to remove it (`CloserOnItsWay`).
`PartsAgreeCorrect` is about the parts of an answer read one after the other while the
session changes: what goes together was read in one step (`ReadTogether`), whatever the
order in which sections are asked for. Of the counters it says what the lock leaves true:
they lack at most the one event a turn is just adding (`Tallied`), so that they are never
more than one behind the events listed. It assumes of a request only which sections its
tool has.

Streams. `FeedInOrderCorrect`, for any number of clients, any limit and any size of the
queues. Events are numbered as they are published; what a stream was sent, what is being
written and what waits in its queue follow each other and leave out only what found the
queue full (`Following`). The count of clients is the number of those inside, of which no
more than the limit are served (`PlacesCounted`): every way out gives the place back once.

Telemetry. `StatsKeptCorrect` and `CommandsMatchCorrect`, for any sessions, caps and
records. Where every write of a file succeeded (`Unharmed`; restarts and evictions may be any), what is
in memory is on file (`InStep`), a pending command points at its own request in the list
(`PlacesHeld`), and what is on file accounts for all that was received (`Accounts`): sums
and counts are those of the records, the list holds the decisions in the order they came,
up to its cap, and a request has the command whose record names it and no other. An eviction is then without loss, and
a fold that reads the file back continues where it stopped.

`DiffRefresh_proofs`. For any number of instances: a refresh that goes on with a base has
one, so that a diff that is not empty names it, and what has once been persisted is never
replaced by an empty text; with them goes what every place of a refresh knows of the
snapshot (`SnapshotKnown`), and `SnapshotExists` follows. The rest assumes `OneInstance`,
a state directory that one instance uses: two that pin at once can move the base, and one
may touch the snapshot the other has just replaced. Then a merge-base is taken only while
none is on disk (`BaseInv`, for `BaseStays`). `Work` says that what a refresh holds is
what is on disk, and so is what is shown, cached or being read, but for what a failed write
or a late read excuses; `LastWorkServed` follows from it. `Age` says that git diff runs only
where the snapshot is older than the last turn, and that a snapshot that is not is no
older than what is shown; with it `NeverGoesBack` holds of every step.

`Files_proofs`, of the configuration. As long as no two saves overlap, a request knows what is in the file
and in its temporary file at each of its steps (`InHand`), whatever crashed requests have
left there, and each key has what was saved last or what the request about to be answered
has saved (`HasLast`); `EditsKeptCorrect` follows. `RowComesTrueCorrect` needs no more than
that the overridden keys are the ones given on the command line or in the environment.

Of the state directory: for any number of sessions: what a collection is about to remove is not
owed, and no write is under way in it, unless the write began or went on between the look
and the removal (`Intact`). It rests on what is owed of a session holding one file that
is not old, so that the directory is not idle. `InstancesKeptCorrect` is about the
instances' files, for any number of instances and any retentions: the age on disk is the
time since the file was written (`AgesTold`), and what is marked or gone of an instance was
past its time when it was marked, or belonged to a process that had ended (`Earned`),
unless it was written between mark and removal. `FilesKeptCorrect` is both, for sessions
and instances.

Of the plan: `PlanTypeCorrect` for any number of instances, and for one (`OneStore`, since
`plan_shared` shows what two do) `OneHistoryCorrect` and `NoneOverwrittenAlone`. The
invariant is about time as much as about numbers. A revision is no older than the
transcript's first plan line (`PlanLinesOK`) and the files follow each other in time as by
index (`VersionsOK`), so that the first line read after a restart is a replay whatever is on
the disk. A change in work is newer than all revisions, and what it is recorded on is what
latest.md says or memory has (`ChangeOK`). Memory holds every file (`MemoryOK`), which makes
the number of the next revision free, though writes were lost, and leaves `Adopt` nothing to
adopt. While no write was lost the two are one list (`HistoryOK`): a list that is in the
order of the files and holds each of them once is the only one (`SortedUnique`).

`Session_proofs`, of the titles. For any sessions, files and titles: whatever the store
or the snapshot says of a session is what the lines read so far give, unless the index
names it (`Told`, the same statement of both, because a snapshot becomes the store), and
the index's last name for a session is shown, or is about to be applied by a timer that is
due or a load that holds it (`Follows`). `TitleSettlesCorrect` is what remains when
everything was read. `FoundByTitleCorrect` adds that the lower-case copy belongs to the title.

Of the permissions: `DenialsReconciledCorrect`. The counter is the number of places in the
transcript that count plus those beyond the budget, by induction over the records; a call
is denied once in the list, and each list of decisions has a decision once (`Kept`). The
block then agrees with the counter because the requests that explain a denial and the
denials that are explained are as many: each request explains the denial of its own call.
While every write succeeds and the list has room, file and memory hold all decisions, so
that each rejection received is attributed to its source or counted as telemetry only.

Of the Codex session: `VerdictsExactCorrect` and `ProposedPlansCorrect`, for any number of
rollouts, plans and models and any caps. `RolloutsOK` is what Codex writes: a rollout
begins with its meta line, an output answers one earlier call of the same rollout, and no
call is answered twice. The table of a parser then is the set of escalated calls of its
rollout that wait, as long as it never overflowed (`ParsersOK`, with the premise that the
property itself has), and each verdict in the list belongs to one line that was heard, in
the order of these lines. The list of revisions is numbered by the lines that changed the
plan; when it is full it keeps its beginning.

Only model-checked: everything under fairness, since it speaks of ENABLED. `LoadIsComplete`,
which needs an induction over the tree, and `ChunksJoin`, which speaks of a fold over a
text, for the library's induction takes an operator as parameter.

## Observed beyond the violation runs

The models also show: a call that waits when another widens waits on a channel nobody will
close and comes back with the timeout (`Select`, `StopPeriod`), which is why `WaitEnds`
speaks of a wait on the channel that is still the store's; without a watch window
(`--watch-window-days 0`) there is no rescan and a directory that appears between `Visit`
and `Watch` is never watched; two instances that pin a base at the same time can move it
(`Pin`, `PersistBase`); a call that reads an old snapshot from disk can put it into the
cache after the new one (`BeginRead`, `FinishRead`, `Mark`); a session that joins a directory whose diff was handed out does not get
it until the tree changes (`Compare`); a plan whose call was thrown out of the full
pending table counts as a denial when it is rejected (`RememberToolUse`, the premise
`NeverFull` of `CountersExact`); where only one of the two writes of a plan revision
succeeds, later diffs do not apply to what the files say (`Record`, `WritePlanLatest`, the
premise `~torn`); the plan watcher may store a text older than the one a transcript line
brought, and record the way back as an edit (`LoadPlan`, `UpdatePlanForPath`); an exporter
that sends a delta twice is counted twice (`Fold`), as nothing identifies a record; with no
state directory an evicted session's statistics begin again at zero; a Codex subagent's
turns carry no timestamp, so that its last activity is never set (`Turns`), and what a
rollout says before its session is known is lost (`AddSubagentTurn`).

Of the state's other files: two saves of the configuration that overlap may lose an edit or
leave a mixture of both, as they share a temporary name (`Open`, `Write`, `RenameConfig`; the
premise `~overlapped` of `EditsKept`); `Gc` takes the files under `instances/` for session
directories (`EndGc`), so that with a state retention of one day, which the code accepts, a
record goes before the 48 hours of `PruneInstances` are over; that removes the record of a
running instance that has been idle for so long (`Stats`); a directory that has just been made and is still
empty may be collected before its temporary file is created (`CreateTemp` fails); a restart
by exec keeps the process id, so that the old process's snapshot is not an orphan's.
`DiffRefresh` assumes that no snapshot it serves is collected: after one is,
`HasDiffSnapshot` goes on saying there is one. `LoadDiff` may put a snapshot it read over a
newer one in the cache until the next is persisted (`overtaken`, the premise of
`CacheFollowsDisk`).

Of the answers: session_events may list an event that its counters do not count yet
(`CountEvent`), and may count one that came after it read the list, though docs/tools.md:59
has a counter above the list mean that the budget ran out (`FinalHeader`); a paged answer names the diff target the session has when the pages are
built, not the one the diff was read with (`FinalTarget`); entries of the page store that no
client comes back for stay (`open`); with two calls on one id one may get an empty page in
place of an error (`empty`). A stream may be turned away while fewer than the limit are open,
since a rejected client is counted until it leaves (`Connect`). A denial beyond the full
event list is in the counter and in no listed number (`beyond`), a decision the exporter
sends twice counts twice by source, and a denial of a kind the code does not name is in no
number by kind (`DenialKinds`). A title derived from a prompt that equals the index's stays
marked derived (`HasNewTitle`).

## Not modelled

Timestamps other than a plan change's, idle time, the model of a skill, messages without a
request id, the payloads of events. `SeedDiffCache`. How git infers a target branch. JSON, HTML and
formatting, which is what most of the control server and the tools' view models are;
session_list; the count of invocations, one increment under a mutex. The journals of
workflows, `waitForDir`, and the saved state of the Codex parser. The price table. The
command line beyond the configuration's sources, setup, port walking and re-execution:
input and output around the lifecycle. Reads of a session pointer without the store's lock
are steps of `SessionGet`, one for each section: a torn read of one field is not modelled.

## Plan

1. The Codex parser's saved state and the workflow journals, with the snapshot they go
   into; then session_list beside a store that is reset.
2. The composition of `Lifecycle` and `SessionGet`: which parts of an answer are from which
   warm period when another call widens.
3. Proofs: `ChunksJoin`, once pages are cut by a function and not by a fold;
   `LoadIsComplete` by the number of entries the walk has left.
