---------------------------- MODULE SessionAccount ----------------------------
(***************************************************************************)
(* What the store knows of one Claude session as its transcripts are read:  *)
(* token usage per session, skill and subagent, the event list and the      *)
(* counters, touched files and turn buffers (session/session.go, its        *)
(* buffers, AddTurnBySessionId and addSubagentTurn in session/store.go), and *)
(* the snapshot that carries all of it over a cold phase                    *)
(* (session/store_snapshot.go).                                             *)
(*                                                                         *)
(* The watcher reads each file in order and each line once (module Ingest), *)
(* the files in any interleaving, a subagent's only once the session is     *)
(* known.  Claude Code writing a line and the watcher reading it is one     *)
(* action here, so log is the part of the transcripts that was read.        *)
(*                                                                         *)
(* Usage is kept as what each request contributed: u[r] is what was added   *)
(* for r less what was subtracted, and the token count is the sum over r.   *)
(* A pointer to a usage total is the name of the total: Main, the agent, or *)
(* the skill's index.                                                       *)
(***************************************************************************)
EXTENDS ClaudeParser, SequencesExt

CONSTANTS
  Requests,      \* request ids
  Paths,         \* files that tools touch
  Prompts,       \* [Actors -> the [pid, slash, mode] of its prompt lines]
  Chunks,        \* [Actors -> the [tool, text, stop, model] of its chunk lines]
  Denials,       \* the toolDenialKinds of result lines, "" for none
  Notices,       \* the event kinds of notice lines
  MaxSkills,     \* maxSkillStats
  MaxSubagents,  \* maxSubagentStats
  MaxTouched,    \* maxTouchedFiles
  Depth,         \* the session's turn buffer
  SubDepth,      \* a subagent's: max(depth, minSubagentTurnDepth)
  DenialBudget,  \* EventBufferDenialBudget
  OtherBudget,   \* EventBufferCapacity less the denial budget
  MaxLines,      \* bound: [Actors -> lines of the transcript]
  MaxTotal       \* bound: lines of all transcripts

\* The kinds of events that a counter counts (AddEvent); a notice is of none of them.
Kinds == {"denied", "cancelled", "plan_rejected", "skill", "subagent_spawned", "mode", "model"}

ASSUME AccountAssumption ==
  /\ Actors \cap Nat = {}
  /\ NoRequest \notin Requests
  /\ \A a \in Actors : \A p \in Prompts[a] : p.pid \in Nat
  /\ MaxSkills \in Nat /\ MaxSubagents \in Nat /\ MaxTouched \in Nat
  /\ Depth \in Nat \ {0} /\ SubDepth \in Nat \ {0}
  /\ DenialBudget \in Nat /\ OtherBudget \in Nat
  /\ MaxLines \in [Actors -> Nat] /\ MaxTotal \in Nat
  /\ Notices \cap Kinds = {}

VARIABLES
  log,       \* [Actors -> Seq(line)]
  parsers,   \* [Actors -> parser state]
  spawned,   \* agents whose .meta.json was read
  \* Session
  usage,     \* [Totals -> [Requests -> Int]]
  counted,   \* usageByRequestId
  skills,    \* Seq([actor, line])
  active,    \* activeSkills: [Actors -> index], 0 when none
  subs,      \* agents in Subagents
  promptId,
  counters,
  events,
  touched,   \* [scope -> [path -> [reads, writes]]]
  model,
  turn,      \* TurnActive, a set of at most one, per scope
  finished,  \* the turn buffers' items
  pushed     \* [scope -> [conversational, toolOnly]]

transcripts == <<log, parsers, spawned>>
ledger      == <<usage, counted, skills, active, subs, promptId>>
rest        == <<counters, events, touched, model, turn, finished, pushed>>
vars        == <<transcripts, ledger, rest>>

Totals == Actors \cup (1 .. MaxSkills)

Init ==
  /\ log = [a \in Actors |-> <<>>]
  /\ parsers = [a \in Actors |-> NewParser] /\ spawned = {}
  /\ usage = [t \in Totals |-> [r \in Requests |-> 0]]
  /\ counted = [r \in Requests |-> [amount |-> 0, targets |-> {}]]
  /\ skills = <<>> /\ active = [a \in Actors |-> 0] /\ subs = {} /\ promptId = 0
  /\ counters = [k \in Kinds |-> 0] /\ events = <<>>
  /\ touched = [a \in Actors |-> <<>>] /\ model = NoModel
  /\ turn = [a \in Actors |-> {}] /\ finished = [a \in Actors |-> <<>>]
  /\ pushed = [a \in Actors |-> [conversational |-> 0, toolOnly |-> 0]]

-----------------------------------------------------------------------------
(* Events and counters.                                                      *)

Denied(event) == event.kind \in {"denied", "cancelled"}

\* Mutant: one budget for all kinds.
PushShared(buffer, event) ==
  IF Len(buffer) >= DenialBudget + OtherBudget THEN buffer ELSE Append(buffer, event)

DenialPlaces(buffer) == {n \in DOMAIN buffer : Denied(buffer[n])}
OtherPlaces(buffer)  == DOMAIN buffer \ DenialPlaces(buffer)

HasRoom(buffer, event) ==
  IF Denied(event) THEN Cardinality(DenialPlaces(buffer)) < DenialBudget
                   ELSE Cardinality(OtherPlaces(buffer)) < OtherBudget

\* EventBuffer.Push: the first events up to the kind's budget.
Push(buffer, event) == IF HasRoom(buffer, event) THEN Append(buffer, event) ELSE buffer

Named(event, agent) == [event EXCEPT !.agent = agent, !.actor = agent]

Spawns(buffer, tool) ==
  {n \in DOMAIN buffer : buffer[n].kind = "subagent_spawned" /\ buffer[n].tool = tool}

\* Mutant: a result that came before its spawn is never named.
ResolveResultsOnly(buffer, event) ==
  IF event.kind = "subagent_result" /\ Spawns(buffer, event.tool) # {}
  THEN Push(buffer, Named(event, buffer[CHOOSE n \in Spawns(buffer, event.tool) : TRUE].agent))
  ELSE Push(buffer, event)

\* resolveSubagentActor: a result takes the agent of its spawn if that came first,
\* a spawn names the results that came before it.
Resolve(buffer, event) ==
  CASE event.kind = "subagent_result" /\ Spawns(buffer, event.tool) # {} ->
         Push(buffer, Named(event, buffer[CHOOSE n \in Spawns(buffer, event.tool) : TRUE].agent))
    [] event.kind = "subagent_spawned" ->
         Push([n \in DOMAIN buffer |->
                 IF /\ buffer[n].kind = "subagent_result" /\ buffer[n].tool = event.tool
                    /\ buffer[n].agent = Main
                 THEN Named(buffer[n], event.agent) ELSE buffer[n]], event)
    [] OTHER -> Push(buffer, event)

\* One event after the other.
Resolved(buffer, new) ==
  LET list[n \in 0 .. Len(new)] == IF n = 0 THEN buffer ELSE Resolve(list[n - 1], new[n])
  IN  list[Len(new)]

AppendEvents(new) == events' = Resolved(events, new)

Count(new) ==
  counters' = [k \in Kinds |->
                 counters[k] + Cardinality({n \in DOMAIN new : new[n].kind = k})]

-----------------------------------------------------------------------------
(* Touched files and turns.                                                  *)

NoTouches == [reads |-> 0, writes |-> 0]

Touch(files, touch) ==
  IF touch.path \notin DOMAIN files /\ Cardinality(DOMAIN files) >= MaxTouched
  THEN files
  ELSE LET seen == IF touch.path \in DOMAIN files THEN files[touch.path] ELSE NoTouches
           now  == IF touch.write THEN [seen EXCEPT !.writes = @ + 1]
                                  ELSE [seen EXCEPT !.reads = @ + 1]
       IN  [path \in DOMAIN files \cup {touch.path} |->
              IF path = touch.path THEN now ELSE files[path]]

\* A line has one tool result at most, so one touch.
AddTouches(scopes, touches) ==
  touched' = [a \in Actors |-> IF a \in scopes /\ touches # {}
                               THEN Touch(touched[a], CHOOSE touch \in touches : TRUE)
                               ELSE touched[a]]

\* applyToolResults: a tool_use id names one call, in one retained turn at most.
Marked(t, results) ==
  [t EXCEPT !.calls = {[c EXCEPT !.isError = (\E r \in results : r.id = c.id /\ r.isError)
                                             \/ (@ /\ ~ \E r \in results : r.id = c.id)] : c \in @}]

\* Mutant: only the active turn is searched.
FinishedAsBefore(a, results) == finished[a]

\* findToolCall among the finished turns of a scope.
FinishedMarked(a, results) ==
  [n \in DOMAIN finished[a] |-> Marked(finished[a][n], results)]

IsToolOnly(t) == ~t.text /\ t.calls # {}
HasContent(t) == t.text \/ t.calls # {}

Entry(next) ==
  [request |-> next.request, text |-> next.text,
   calls |-> {[id |-> id, isError |-> FALSE] : id \in next.calls}]

Joined(t, next) ==
  [Entry(next) EXCEPT !.text = @ \/ t.text, !.calls = @ \cup t.calls]

\* TurnBuffer.Push
Ring(items, depth, t) == Append(IF Len(items) < depth THEN items ELSE Tail(items), t)

\* applyToolResults and, for a turn with a role, appendTurn, on one scope.
AddToScope(a, next) ==
  LET now   == {Marked(t, next.results) : t \in turn[a]}
      items == FinishedMarked(a, next.results)
      joins == {t \in now : next.request # NoRequest /\ t.request = next.request}
      ended == {t \in now \ joins : HasContent(t)}
      depth == IF a = Main THEN Depth ELSE SubDepth
  IN  IF next.role = ""
      THEN /\ turn' = [turn EXCEPT ![a] = now]
           /\ finished' = [finished EXCEPT ![a] = items]
           /\ UNCHANGED pushed
      ELSE /\ turn' = [turn EXCEPT ![a] = IF joins = {} THEN {Entry(next)}
                                          ELSE {Joined(t, next) : t \in joins}]
           /\ finished' = [finished EXCEPT ![a] =
                             IF ended = {} THEN items
                             ELSE Ring(items, depth, CHOOSE t \in ended : TRUE)]
           /\ pushed' = [pushed EXCEPT ![a] =
                [conversational |-> @.conversational + Cardinality({t \in ended : ~IsToolOnly(t)}),
                 toolOnly |-> @.toolOnly + Cardinality({t \in ended : IsToolOnly(t)})]]

-----------------------------------------------------------------------------
(* Skill windows and usage.                                                  *)

OpensSkill(next) == \E n \in DOMAIN next.events : next.events[n].kind = "skill"

\* Mutant: every prompt line closes the window.
ClosesAlways(next) == next.role = "user" /\ next.text

\* HandlePromptBoundary: a line of the same submission closes nothing.
ClosesSkill(next) == next.role = "user" /\ next.text /\ next.pid # promptId

Boundary(next) ==
  promptId' = IF next.role = "user" /\ next.text THEN next.pid ELSE promptId

\* openSkillWindow: the open window of the actor closes even when the list is full.
OpenSkill(a) ==
  IF Len(skills) >= MaxSkills
  THEN [skills |-> skills, index |-> 0]
  ELSE [skills |-> Append(skills, [actor |-> a, line |-> Len(log[a]) + 1]),
        index |-> Len(skills) + 1]

\* The actor's window when the usage of the turn is accounted.
WindowFor(a, next) ==
  IF OpensSkill(next) THEN OpenSkill(a).index
  ELSE IF a = Main /\ ClosesSkill(next) THEN 0 ELSE active[a]

\* AddTurn closes the main window when the message ends; AddSubagentTurn does not.
WindowAfter(a, next) == IF a = Main /\ next.stop THEN 0 ELSE WindowFor(a, next)

Windows(a, next) ==
  /\ skills' = IF OpensSkill(next) THEN OpenSkill(a).skills ELSE skills
  /\ active' = [active EXCEPT ![a] = WindowAfter(a, next)]

\* Mutant: each chunk of a request is added to those before it.
AmountsAdded(r, amount, targets) ==
  [t \in Totals |-> [usage[t] EXCEPT ![r] = @ + (IF t \in targets THEN amount ELSE 0)]]

\* applyRequestUsage: what the request counted is taken back where it was counted.
ApplyRequestUsage(r, amount, targets) ==
  [t \in Totals |->
     [usage[t] EXCEPT ![r] = @ - (IF t \in counted[r].targets THEN counted[r].amount ELSE 0)
                               + (IF t \in targets THEN amount ELSE 0)]]

TargetsOf(a, next) == {a} \cup ({WindowFor(a, next)} \ {0})

AddUsage(a, next) ==
  IF next.request = NoRequest
  THEN UNCHANGED <<usage, counted>>
  ELSE /\ usage' = ApplyRequestUsage(next.request, next.usage, TargetsOf(a, next))
       /\ counted' = [counted EXCEPT ![next.request] =
                        [amount |-> next.usage, targets |-> TargetsOf(a, next)]]

-----------------------------------------------------------------------------
(* A line is read: the parser's turn is added to the session.                *)

\* A role-less turn leaves AddTurnBySessionId before the model is compared.
ModelEvents(next) ==
  IF next.role # "" /\ next.model # NoModel /\ model \notin {NoModel, next.model}
  THEN <<Event("model", Main, NoTool)>> ELSE <<>>

\* AddTurnBySessionId
AddTurn(next) ==
  /\ Boundary(next) /\ Windows(Main, next)
  /\ AppendEvents(next.events \o ModelEvents(next)) /\ Count(next.events \o ModelEvents(next))
  /\ AddTouches({Main}, next.touches)
  /\ AddToScope(Main, next)
  /\ model' = IF next.model = NoModel THEN model ELSE next.model
  /\ AddUsage(Main, next)
  /\ UNCHANGED subs

\* addSubagentTurn: the events and touches of a turn count for the session even
\* when there is no room for the subagent.
AddSubagentTurn(a, next) ==
  /\ Windows(a, next)
  /\ AppendEvents(next.events) /\ Count(next.events)
  /\ IF a \in subs \/ Cardinality(subs) < MaxSubagents
     THEN /\ subs' = subs \cup {a}
          /\ AddTouches({Main, a}, next.touches)
          /\ AddToScope(a, next)
          /\ AddUsage(a, next)
     ELSE /\ AddTouches({Main}, next.touches)
          /\ UNCHANGED <<subs, turn, finished, pushed, usage, counted>>
  /\ UNCHANGED <<promptId, model>>

Read(a, line) ==
  LET parsed == Parse(parsers[a], line, a)
  IN  /\ Len(log[a]) < MaxLines[a] /\ SumFunction([b \in Actors |-> Len(log[b])]) < MaxTotal
      /\ a # Main => log[Main] # <<>>
      /\ log' = [log EXCEPT ![a] = Append(@, line)]
      /\ parsers' = [parsers EXCEPT ![a] = parsed.parser]
      /\ IF a = Main THEN AddTurn(parsed.turn) ELSE AddSubagentTurn(a, parsed.turn)
      /\ UNCHANGED spawned

\* readSubagentMeta: a turn that carries the spawn alone.  An Agent call and the
\* subagent it spawned share the tool use id; here the id is the agent.
ReadMeta(a) ==
  LET spawn == [Event("subagent_spawned", a, a) EXCEPT !.agent = a]
  IN  /\ a \notin spawned /\ log[Main] # <<>>
      /\ spawned' = spawned \cup {a}
      /\ AddSubagentTurn(a, [NoTurn EXCEPT !.events = <<spawn>>])
      /\ UNCHANGED <<log, parsers>>

-----------------------------------------------------------------------------
(* A cold phase: the snapshot names every pointer by what it points to, the   *)
(* next warm period resolves the names.                                       *)

UsageTargets == {Main} \cup DOMAIN skills \cup subs

\* newSessionSnapshot, then restore.  The parsers' states come with the watcher's
\* files; everything that is not a pointer comes back as it was.
Rewarm ==
  /\ counted' = [r \in Requests |-> [counted[r] EXCEPT !.targets = @ \cap UsageTargets]]
  /\ active' = [a \in Actors |-> IF active[a] \in DOMAIN skills THEN active[a] ELSE 0]
  /\ UNCHANGED <<transcripts, usage, skills, subs, promptId, rest>>

-----------------------------------------------------------------------------
(* What Claude Code writes.                                                  *)

WritePrompt(a) ==
  \E p \in Prompts[a] :
    Read(a, [type |-> "prompt", pid |-> p.pid, slash |-> p.slash, mode |-> p.mode])

ChunksOf(a, r) ==
  {n \in DOMAIN log[a] : log[a][n].type = "chunk" /\ log[a][n].request = r}

\* A request belongs to one transcript and goes on until its message ends.
Streams(a, r) ==
  /\ \A b \in Actors \ {a} : ChunksOf(b, r) = {}
  /\ \A n \in ChunksOf(a, r) :
       ~log[a][n].stop /\ \A m \in n + 1 .. Len(log[a]) :
                            log[a][m].type = "result" \/ m \in ChunksOf(a, r)

\* Tool use ids are unique: the agent for an Agent call, else the line.
ToolUses(a, tool) ==
  IF tool = NoTool THEN {NoTool}
  ELSE [id : IF tool = "Agent" THEN Agents ELSE {<<a, Len(log[a]) + 1>>},
        name : {tool}, path : IF tool \in {"Read", "Edit"} THEN Paths ELSE {NoTool}]

UsesIn(a) ==
  {log[a][n].use : n \in {m \in DOMAIN log[a] : log[a][m].type = "chunk"}} \ {NoTool}

ResultsIn(a, id) == {n \in DOMAIN log[a] : log[a][n].type = "result" /\ log[a][n].id = id}

\* The usage of a chunk is its line number: no two chunks agree.
WriteChunk(a) ==
  \E r \in Requests, c \in Chunks[a] :
    /\ Streams(a, r)
    /\ \E use \in ToolUses(a, c.tool) :
         /\ use # NoTool => \A b \in Actors : use.id \notin {u.id : u \in UsesIn(b)}
         /\ Read(a, [type |-> "chunk", request |-> r, usage |-> Len(log[a]) + 1,
                     use |-> use, text |-> c.text, stop |-> c.stop, model |-> c.model])

\* A denied call has an error for a result.
WriteResult(a) ==
  \E use \in UsesIn(a), denial \in Denials, isError \in BOOLEAN :
    /\ ResultsIn(a, use.id) = {}
    /\ denial # "" => isError
    /\ Read(a, [type |-> "result", id |-> use.id, denial |-> denial, isError |-> isError])

WriteNotice == \E kind \in Notices : Read(Main, [type |-> "notice", notice |-> kind])

Next ==
  \/ \E a \in Actors : WritePrompt(a) \/ WriteChunk(a) \/ WriteResult(a)
  \/ \E a \in Agents : ReadMeta(a)
  \/ WriteNotice \/ Rewarm

Spec == Init /\ [][Next]_vars

-----------------------------------------------------------------------------
(* Properties.                                                               *)

LedgerType ==
  /\ usage \in [Totals -> [Requests -> Int]]
  /\ counted \in [Requests -> [amount : Nat, targets : SUBSET Totals]]
  /\ skills \in Seq([actor : Actors, line : Nat]) /\ Len(skills) <= MaxSkills
  /\ active \in [Actors -> 0 .. Len(skills)]
  /\ subs \in SUBSET Agents /\ promptId \in Nat

TypeOK ==
  /\ LedgerType
  /\ DOMAIN log = Actors /\ spawned \subseteq Agents
  /\ \A a \in Actors : Cardinality(parsers[a].pending) <= MaxPending
  /\ counters \in [Kinds -> Nat] /\ Len(events) <= DenialBudget + OtherBudget
  /\ \A a \in Actors :
       /\ Cardinality(turn[a]) <= 1 /\ Len(finished[a]) <= IF a = Main THEN Depth ELSE SubDepth
       /\ Cardinality(DOMAIN touched[a]) <= MaxTouched

\* Every total is the sum of what the requests that name it have counted, so no chunk
\* of a request counts twice and none is left behind when a later chunk moves the
\* request to another window (applyRequestUsage, over any number of cold phases).
Conserved ==
  \A t \in Totals, r \in Requests :
    usage[t][r] = IF t \in counted[r].targets THEN counted[r].amount ELSE 0

\* The last chunk of request r in the transcript of a, 0 when there is none.
LastChunk(a, r) == Max({0} \cup ChunksOf(a, r))

LastPid(n) ==
  LET before == {m \in 1 .. n - 1 : log[Main][m].type = "prompt"}
  IN  IF before = {} THEN 0 ELSE log[Main][Max(before)].pid

Invokes(a, n) ==
  \/ log[a][n].type = "chunk" /\ log[a][n].use # NoTool /\ log[a][n].use.name = "Skill"
  \/ a = Main /\ log[a][n].type = "prompt" /\ log[a][n].slash

\* From line n on no skill was invoked and no other prompt came up to line m.
WithinPrompt(a, n, m) ==
  /\ n <= m /\ \A k \in n + 1 .. m : ~Invokes(a, k)
  /\ a = Main =>
       \A k \in n + 1 .. m : log[a][k].type = "prompt" => log[a][k].pid = LastPid(k)

\* The skill invoked at line n still has its window when line m is accounted: the window
\* of the main transcript ends with the message, too.
SpansTo(a, n, m) ==
  /\ WithinPrompt(a, n, m)
  /\ a = Main => \A k \in n .. m - 1 : log[a][k].type = "chunk" => ~log[a][k].stop

\* The totals say what the transcripts say, however the files were interleaved: a
\* request counts with its last chunk, for its own actor alone, and for the skill of
\* that actor whose window the chunk is in (applyRequestUsage, AddTurn, AddSubagentTurn).
\* The windows are the code's: docs/tools.md:52 has them go on to the next prompt or skill,
\* and has no tokens of subagents count for a skill; neither is so (session.go:355, 300).
UsageExact ==
  \A r \in Requests :
    /\ \A a \in {Main} \cup subs : usage[a][r] = LastChunk(a, r)
    /\ \A i \in DOMAIN skills :
         LET a == skills[i].actor
             m == LastChunk(a, r)
         IN  usage[i][r] = IF m > 0 /\ (a = Main \/ a \in subs) /\ SpansTo(a, skills[i].line, m)
                           THEN m ELSE 0

Lines(P(_, _)) == UNION {{<<a, n>> : n \in {m \in DOMAIN log[a] : P(a, m)}} : a \in Actors}

IsResult(a, n) == log[a][n].type = "result"

UseOf(a, n) == CHOOSE use \in UsesIn(a) : use.id = log[a][n].id

IsPlanResult(a, n) == IsResult(a, n) /\ UseOf(a, n).name = "ExitPlanMode"

Unanswered(a, n) ==
  {u \in {log[a][m].use : m \in {k \in 1 .. n : log[a][k].type = "chunk"}} \ {NoTool} :
     ~ \E m \in 1 .. n : log[a][m].type = "result" /\ log[a][m].id = u.id}

\* No tool use came while the parser's table was full.
NeverFull == \A a \in Actors : \A n \in DOMAIN log[a] : Cardinality(Unanswered(a, n)) <= MaxPending

\* The counters are exact whatever the event list dropped, and a rejected plan is no
\* denial, as long as no table of pending tool uses overflowed (docs/tools.md on
\* session_events; AddEvent, countDenial, isPlanVerdict).
CountersExact ==
  NeverFull =>
    /\ counters["plan_rejected"] =
         Cardinality(Lines(LAMBDA a, n : IsPlanResult(a, n) /\ log[a][n].isError))
    /\ counters["denied"] + counters["cancelled"] =
         Cardinality(Lines(LAMBDA a, n : IsResult(a, n) /\ ~IsPlanResult(a, n)
                                           /\ log[a][n].denial # ""))
    /\ counters["skill"] = Cardinality(Lines(Invokes))
    /\ counters["subagent_spawned"] = Cardinality(spawned)

\* The list keeps the first denials up to their budget, whatever else was listed
\* (EventBuffer.Push, docs/tools.md on the event list).
DenialsKept ==
  Cardinality(DenialPlaces(events)) = Min({DenialBudget, counters["denied"] + counters["cancelled"]})

\* A listed result of an Agent call names the subagent that did the work once both
\* are listed, in whichever order the files were read (resolveSubagentActor).
ResultNamesAgent ==
  \A m, n \in DOMAIN events :
    events[m].kind = "subagent_spawned" /\ events[n].kind = "subagent_result"
      /\ events[m].tool = events[n].tool => events[n].agent = events[m].agent

\* A retained call is marked failed exactly when the transcript has a failed result
\* for it: merging, finishing and evicting turns loses no mark (applyToolResults,
\* appendTurn).
ErrorsMarked ==
  \A a \in Actors : \A t \in turn[a] \cup ToSet(finished[a]) : \A c \in t.calls :
    c.isError <=> \E n \in ResultsIn(a, c.id) : log[a][n].isError

\* Both: a result finds its call, in the event list and in the turns.
ResultsFindCalls == ResultNamesAgent /\ ErrorsMarked

=============================================================================
