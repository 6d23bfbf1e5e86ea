----------------------------- MODULE ClaudeParser -----------------------------
(***************************************************************************)
(* What claude/parser.go makes of one transcript line: the turn it hands to *)
(* the store, and the parser state the next line of the same file finds.    *)
(* A parser belongs to one file, the main transcript or one subagent's.     *)
(*                                                                         *)
(* Lines are abstracted to what the session's account tells apart.  A line  *)
(* carries at most one content block that matters here, as Claude Code      *)
(* writes them; texts are present or absent; a line's timestamp is its      *)
(* number.  Left out: the lines the parser rejects, the payload of events,  *)
(* plan files and titles.                                                   *)
(***************************************************************************)
EXTENDS Integers, FiniteSets, Sequences

CONSTANTS
  Main,        \* the main transcript
  Agents,      \* the subagents, each with a transcript of its own
  NoTool,      \* a chunk without a tool_use block, an event without a tool use
  NoRequest,   \* RequestId ""
  NoMode,      \* permissionMode ""
  NoModel,     \* model "", or the synthetic one
  MaxPending   \* maxPendingTools

ASSUME ParserAssumption ==
  /\ Main \notin Agents
  /\ MaxPending \in Nat \ {0}

Actors == {Main} \cup Agents

\* The tools whose results the parser reads.  Every other tool is "Bash".
ToolNames == {"Skill", "Agent", "ExitPlanMode", "Read", "Edit", "Bash"}

-----------------------------------------------------------------------------
(* Parser state: the tool uses without a result and the permission mode.     *)

NewParser == [pending |-> {}, mode |-> NoMode]

\* Mutant: the table has no limit.
RememberAll(pending, use) == pending \cup {use}

\* rememberToolUse: a full table is thrown away, not refused.
RememberToolUse(pending, use) ==
  IF Cardinality(pending) >= MaxPending THEN {use} ELSE pending \cup {use}

PendingUse(pending, id) == {use \in pending : use.id = id}

-----------------------------------------------------------------------------
(* Events.                                                                   *)

\* agent is the payload's AgentId, Main while it is empty.
Event(kind, actor, tool) ==
  [kind |-> kind, actor |-> actor, tool |-> tool, agent |-> Main]

DenialEvent(line, actor) ==
  Event(IF line.denial \in {"cancelled", "interrupted"} THEN "cancelled" ELSE "denied",
        actor, line.id)

\* Mutant: a rejected plan is a denial like any other.
IsVerdictNever(uses) == FALSE

IsPlanVerdict(uses) == \E use \in uses : use.name = "ExitPlanMode"

\* toolResultEvent for the tools that have one.  A plan result that is no error
\* says that the user approved.
ToolResultEvents(line, use, actor) ==
  CASE use.name = "ExitPlanMode" ->
         <<Event(IF line.isError THEN "plan_rejected" ELSE "plan_approved", actor, line.id)>>
    [] use.name = "Agent" -> <<Event("subagent_result", actor, line.id)>>
    [] OTHER -> <<>>

\* eventsFromUserContent for the one tool_result block of a line.
ResultEvents(uses, line, actor) ==
  IF line.denial # "" /\ ~IsPlanVerdict(uses)
  THEN <<DenialEvent(line, actor)>>
  ELSE IF uses = {} THEN <<>>
  ELSE ToolResultEvents(line, CHOOSE use \in uses : TRUE, actor)

\* fileTouchFromResult; a denied result never gets there.
ResultTouches(uses, line) ==
  IF line.denial # "" /\ ~IsPlanVerdict(uses) THEN {}
  ELSE {[path |-> use.path, write |-> use.name = "Edit"] :
          use \in {u \in uses : ~line.isError /\ u.name \in {"Read", "Edit"}}}

\* permissionModeEvent: the first mode is an event only when it is not the default.
IsModeEvent(parser, mode) ==
  mode \notin {NoMode, parser.mode} /\ ~(parser.mode = NoMode /\ mode = "default")

ModeEvents(parser, line) ==
  IF IsModeEvent(parser, line.mode) THEN <<Event("mode", Main, NoTool)>> ELSE <<>>

SlashCommandEvents(line) ==
  IF line.slash THEN <<Event("skill", Main, NoTool)>> ELSE <<>>

SkillEvents(line, actor) ==
  IF line.use # NoTool /\ line.use.name = "Skill"
  THEN <<Event("skill", actor, line.use.id)>> ELSE <<>>

-----------------------------------------------------------------------------
(* ParseLine by kind of line, as [parser, turn].                             *)

NoTurn == [role |-> "", text |-> FALSE, request |-> NoRequest, pid |-> 0,
           usage |-> 0, model |-> NoModel, stop |-> FALSE, calls |-> {},
           results |-> {}, events |-> <<>>, touches |-> {}]

\* eventTurn: what a line without a message of its own tells the store.
EventTurn(events, results, touches) ==
  [NoTurn EXCEPT !.events = events, !.results = results, !.touches = touches]

\* handleSidechain for a user line: every such line is a user turn.
SidechainTurn(text, events, results, touches) ==
  [EventTurn(events, results, touches) EXCEPT !.role = "user", !.text = text]

\* A user prompt.  On a subagent's file handleSidechain reads no mode, no command
\* and no prompt id.
ParsePrompt(parser, line, actor) ==
  IF actor = Main
  THEN [parser |-> [parser EXCEPT !.mode = IF line.mode = NoMode THEN @ ELSE line.mode],
        turn |-> [NoTurn EXCEPT !.role = "user", !.text = TRUE, !.pid = line.pid,
                    !.events = ModeEvents(parser, line) \o SlashCommandEvents(line)]]
  ELSE [parser |-> parser, turn |-> SidechainTurn(TRUE, <<>>, {}, {})]

\* A streamed piece of an assistant message.
ParseChunk(parser, line, actor) ==
  [parser |-> [parser EXCEPT !.pending =
                 IF line.use = NoTool THEN @ ELSE RememberToolUse(@, line.use)],
   turn |-> [NoTurn EXCEPT !.role = "assistant", !.text = line.text,
               !.request = line.request, !.usage = line.usage, !.model = line.model,
               !.stop = line.stop, !.events = SkillEvents(line, actor),
               !.calls = IF line.use = NoTool THEN {} ELSE {line.use.id}]]

\* A tool result: an event signal without a role on the main file, a user turn
\* without text on a subagent's.
ParseResult(parser, line, actor) ==
  LET uses == PendingUse(parser.pending, line.id)
      events == ResultEvents(uses, line, actor)
      results == {[id |-> line.id, isError |-> line.isError]}
      touches == ResultTouches(uses, line)
  IN  [parser |-> [parser EXCEPT !.pending = @ \ uses],
       turn |-> IF actor = Main THEN EventTurn(events, results, touches)
                ELSE SidechainTurn(FALSE, events, results, touches)]

\* Plan-mode attachments and the completion of a background task: an event each.
ParseNotice(parser, line) ==
  [parser |-> parser, turn |-> EventTurn(<<Event(line.notice, Main, NoTool)>>, {}, {})]

Parse(parser, line, actor) ==
  CASE line.type = "prompt" -> ParsePrompt(parser, line, actor)
    [] line.type = "chunk"  -> ParseChunk(parser, line, actor)
    [] line.type = "result" -> ParseResult(parser, line, actor)
    [] line.type = "notice" -> ParseNotice(parser, line)

=============================================================================
