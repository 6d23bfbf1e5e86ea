----------------------------- MODULE CodexSession -----------------------------
(***************************************************************************)
(* What codex/parser.go makes of the rollouts of one Codex session, its    *)
(* own and its subagents', and what the store keeps of it.  Each rollout   *)
(* has a parser of its own; a line is appended and read in one step, the   *)
(* files in any interleaving.                                              *)
(*                                                                         *)
(* A line stands for one the parser accepts; its number in rolloutLog is   *)
(* its time and, for a call, its id.  Left out: user messages, turns and   *)
(* their rings, the limit of the event list (SessionAccount has them),     *)
(* titles, the text around a plan.  Subagents are taken to have different  *)
(* nicknames.                                                              *)
(***************************************************************************)
EXTENDS Naturals, FiniteSets, Sequences

CONSTANTS
  Main, Subagents,       \* the session's rollout and those of its subagents
  Plans, NoPlan,         \* texts of proposed_plan blocks, "" for none
  Models, NoModel,
  maxPendingCalls, maxPlanRevisions,
  MaxRead                \* bound: lines read

ASSUME CodexAssumption ==
  /\ Main \notin Subagents /\ NoPlan \notin Plans /\ NoModel \notin Models
  /\ {maxPendingCalls, maxPlanRevisions} \subseteq Nat \ {0} /\ MaxRead \in Nat

Rollouts == {Main} \cup Subagents

VARIABLES
  rolloutLog,            \* the lines read, of all files
  parser,                \* per file
  codexSession           \* the session in the store

codexVars == <<rolloutLog, parser, codexSession>>

Parser == [model : Models \cup {NoModel}, pending : SUBSET Nat, hasSession : BOOLEAN]

\* NewParser.
NewParser == [model |-> NoModel, pending |-> {}, hasSession |-> FALSE]

CodexEvent == [kind : {"spawned", "granted", "denied", "model", "plan"}, actor : Rollouts, id : Nat]

Revision == [isAlteration : BOOLEAN, from : Plans \cup {NoPlan}, to : Plans]

NoSession == [isKnown |-> FALSE, model |-> NoModel, usage |-> 0, plan |-> NoPlan,
              revisions |-> <<>>, alterations |-> 0, denials |-> 0, events |-> <<>>]

CodexTypeOK ==
  /\ parser \in [Rollouts -> Parser]
  /\ \A f \in Rollouts : Cardinality(parser[f].pending) <= maxPendingCalls
  /\ codexSession.isKnown \in BOOLEAN /\ codexSession.model \in Models \cup {NoModel}
  /\ {codexSession.usage, codexSession.alterations, codexSession.denials} \subseteq Nat
  /\ codexSession.plan \in Plans \cup {NoPlan}
  /\ codexSession.revisions \in Seq(Revision) /\ Len(codexSession.revisions) <= maxPlanRevisions
  /\ codexSession.events \in Seq(CodexEvent)
  /\ ~codexSession.isKnown => codexSession = NoSession

CodexInit ==
  /\ rolloutLog = <<>> /\ codexSession = NoSession
  /\ parser = [f \in Rollouts |-> NewParser]

-----------------------------------------------------------------------------
(* The rollouts.  Codex begins one with its session_meta.                     *)

Now == Len(rolloutLog) + 1

LinesOf(f) == {n \in DOMAIN rolloutLog : rolloutLog[n].file = f}

\* isYes: the rollout is the session's or names it as parent; the call is escalated;
\* the output is no rejection.
NewLine(f, type, id, isYes, model, plan) ==
  [file |-> f, type |-> type, id |-> id, isYes |-> isYes, model |-> model, plan |-> plan]

MetaLine(f, isOwned)       == NewLine(f, "meta", 0, isOwned, NoModel, NoPlan)
ContextLine(f, model)      == NewLine(f, "context", 0, TRUE, model, NoPlan)
CallLine(f, isEscalated)   == NewLine(f, "call", 0, isEscalated, NoModel, NoPlan)
OutputLine(f, id, granted) == NewLine(f, "output", id, granted, NoModel, NoPlan)
AssistantLine(f, plan)     == NewLine(f, "assistant", 0, TRUE, NoModel, plan)
TokensLine(f)              == NewLine(f, "tokens", 0, TRUE, NoModel, NoPlan)

OpenCalls(f) ==
  {n \in LinesOf(f) : rolloutLog[n].type = "call" /\ ~ \E m \in LinesOf(f) : rolloutLog[m].id = n}

-----------------------------------------------------------------------------
(* The parser: its next state and the turn it hands to the store.             *)

NoTurn == [actor |-> Main, events |-> <<>>, isChat |-> FALSE, usage |-> 0, model |-> NoModel,
           plan |-> NoPlan]

\* rememberEscalatedCall: a full table is dropped as a whole.
RememberEscalatedCall(pending, id) ==
  (IF Cardinality(pending) >= maxPendingCalls THEN {} ELSE pending) \cup {id}

\* Mutant: an output takes whatever call is pending for its own.
IsPendingAny(p, line) == p.pending # {}

IsPending(p, line) == line.id \in p.pending

ParserAfter(p, line) ==
  CASE line.type = "meta"    -> [p EXCEPT !.hasSession = line.isYes]
    [] line.type = "context" -> [p EXCEPT !.model = line.model]
    [] line.type = "call" /\ p.hasSession /\ line.isYes ->
         [p EXCEPT !.pending = RememberEscalatedCall(@, Now)]
    [] line.type = "output" /\ p.hasSession -> [p EXCEPT !.pending = @ \ {line.id}]
    [] OTHER -> p

Entry(kind, actor, id) == [kind |-> kind, actor |-> actor, id |-> id]

EventTurn(f, kind, id) ==
  [NoTurn EXCEPT !.actor = f, !.events = <<Entry(kind, f, id)>>]

\* handleSessionMeta and handleSubagentMeta.
MetaTurn(f) ==
  IF f = Main THEN [NoTurn EXCEPT !.isChat = TRUE] ELSE EventTurn(f, "spawned", 0)

\* handleFunctionCallOutput.
VerdictTurn(f, line) == EventTurn(f, IF line.isYes THEN "granted" ELSE "denied", line.id)

\* handleEventMessage: the running total.
TokensTurn == [NoTurn EXCEPT !.usage = Now]

\* handleAssistantMessage, with the last complete block of extractProposedPlan.
AssistantTurn(p, line) ==
  [NoTurn EXCEPT !.isChat = TRUE, !.model = p.model, !.plan = line.plan]

\* The turns that reach the store: none, or one.  A subagent's chat is not heard.
Turns(p, line) ==
  LET f == line.file IN
  CASE line.type = "meta" /\ line.isYes                             -> {MetaTurn(f)}
    [] line.type = "output" /\ p.hasSession /\ IsPending(p, line)   -> {VerdictTurn(f, line)}
    [] line.type = "tokens" /\ p.hasSession /\ f = Main             -> {TokensTurn}
    [] line.type = "assistant" /\ p.hasSession /\ f = Main          -> {AssistantTurn(p, line)}
    [] OTHER                                                        -> {}

-----------------------------------------------------------------------------
(* The store.                                                                *)

WithEvents(s, events) ==
  [s EXCEPT !.events = @ \o events,
            !.denials = @ + Cardinality({k \in DOMAIN events : events[k].kind = "denied"})]

\* Mutant: the first text counts like the changes that follow.
IsAlterationAlways(s) == TRUE

\* isAlterationPhase: Codex has no plan mode to leave.
IsAlterationPhase(s) == Len(s.revisions) >= 1

\* setPlanContent; nothing of a Codex plan is on disk, and each line is read once.
PlanSet(s, plan) ==
  LET isFirst      == s.plan = NoPlan
      isAlteration == IsAlterationPhase(s)
      revision     == [isAlteration |-> isAlteration, from |-> s.plan, to |-> plan]
      changed == [s EXCEPT
        !.plan = plan,
        !.revisions = IF isFirst \/ Len(@) < maxPlanRevisions THEN Append(@, revision) ELSE @,
        !.alterations = @ + IF isAlteration THEN 1 ELSE 0]
  IN
  CASE plan \in {NoPlan, s.plan} -> s
    [] OTHER -> WithEvents(changed, IF isFirst THEN <<>> ELSE <<Entry("plan", Main, Len(s.revisions))>>)

IsOtherModel(s, model) == NoModel \notin {model, s.model} /\ model # s.model

WithModel(s, model) ==
  [WithEvents(s, IF IsOtherModel(s, model) THEN <<Entry("model", Main, Now)>> ELSE <<>>)
     EXCEPT !.model = IF model = NoModel THEN @ ELSE model]

\* AddTurnBySessionId, for a turn of the session's own rollout.
AddTurn(turn) ==
  LET s == PlanSet(WithEvents([codexSession EXCEPT !.isKnown = TRUE], turn.events), turn.plan) IN
  IF turn.usage # 0 THEN [s EXCEPT !.usage = turn.usage]
  ELSE IF turn.isChat THEN WithModel(s, turn.model) ELSE s

\* addSubagentTurn drops the turns of an unknown session.
AddSubagentTurn(turn) ==
  IF codexSession.isKnown THEN WithEvents(codexSession, turn.events) ELSE codexSession

\* A line is appended and read: ParseLine, AddTurnBySessionId.
Read(f, line) ==
  /\ rolloutLog' = Append(rolloutLog, line)
  /\ parser' = [parser EXCEPT ![f] = ParserAfter(@, line)]
  /\ LET turns == Turns(parser[f], line) IN
     \/ turns = {} /\ UNCHANGED codexSession
     \/ \E turn \in turns :
          codexSession' = IF turn.actor = Main THEN AddTurn(turn) ELSE AddSubagentTurn(turn)

BeginRollout(f) ==
  LinesOf(f) = {} /\ \E isOwned \in IF f = Main THEN {TRUE} ELSE BOOLEAN : Read(f, MetaLine(f, isOwned))

ContinueRollout(f) ==
  /\ LinesOf(f) # {}
  /\ \/ \E model \in Models : Read(f, ContextLine(f, model))
     \/ \E isEscalated \in BOOLEAN : Read(f, CallLine(f, isEscalated))
     \/ \E id \in OpenCalls(f), granted \in BOOLEAN : Read(f, OutputLine(f, id, granted))
     \/ \E plan \in Plans \cup {NoPlan} : Read(f, AssistantLine(f, plan))
     \/ Read(f, TokensLine(f))

CodexNext == Len(rolloutLog) < MaxRead /\ \E f \in Rollouts : BeginRollout(f) \/ ContinueRollout(f)

CodexSpec == CodexInit /\ [][CodexNext]_codexVars

-----------------------------------------------------------------------------
(* Properties.                                                               *)

\* The calls of file f that wait for their output before line n.
WaitingCalls(f, n) ==
  {c \in LinesOf(f) : c < n /\ rolloutLog[c].type = "call" /\ rolloutLog[c].isYes
                        /\ ~ \E m \in LinesOf(f) : m < n /\ rolloutLog[m].id = c}

\* No escalated call came while the table of its file was full.
NeverFull ==
  \A f \in Rollouts : \A n \in LinesOf(f) :
    rolloutLog[n].type = "call" /\ rolloutLog[n].isYes => Cardinality(WaitingCalls(f, n)) < maxPendingCalls

\* The rollout's session is known when its line n is read.
IsHeard(n) ==
  /\ \E m \in 1 .. n : rolloutLog[m].file = Main
  /\ \A m \in 1 .. n : rolloutLog[m].file = rolloutLog[n].file /\ rolloutLog[m].type = "meta" => rolloutLog[m].isYes

IsVerdict(e) == e.kind \in {"granted", "denied"}

\* The lines that answer an escalated call, and the verdict of one.
Answers ==
  {n \in DOMAIN rolloutLog :
     rolloutLog[n].type = "output" /\ rolloutLog[rolloutLog[n].id].isYes /\ IsHeard(n)}

Verdict(n) == [kind |-> IF rolloutLog[n].isYes THEN "granted" ELSE "denied",
               actor |-> rolloutLog[n].file, id |-> rolloutLog[n].id]

\* Where the session's event list has the verdict of line n.
PlacesOfVerdict(n) == {k \in DOMAIN codexSession.events : codexSession.events[k] = Verdict(n)}

\* docs/tools.md:44: each escalated call that was answered has one event, with the
\* verdict and for the actor of its own rollout, in the order of the answers, however
\* the rollouts interleave, and the denials are counted (rememberEscalatedCall,
\* handleFunctionCallOutput, addSubagentTurn).
VerdictsExact ==
  NeverFull =>
    /\ \A n \in Answers : PlacesOfVerdict(n) # {}
    /\ \A k \in DOMAIN codexSession.events : IsVerdict(codexSession.events[k]) =>
         \E n \in Answers : k \in PlacesOfVerdict(n)
    /\ \A m, n \in Answers : \A j \in PlacesOfVerdict(m), k \in PlacesOfVerdict(n) :
         j < k <=> m < n
    /\ codexSession.denials = Cardinality({n \in Answers : ~rolloutLog[n].isYes})

\* The lines of the session's rollout with a plan, the plan of the last one before line
\* n, and the lines that change it.
PlanLines == {n \in DOMAIN rolloutLog : rolloutLog[n].file = Main /\ rolloutLog[n].plan # NoPlan}

PlanBefore(n) ==
  LET earlier == {m \in PlanLines : m < n}
  IN  IF earlier = {} THEN NoPlan
      ELSE rolloutLog[CHOOSE m \in earlier : \A k \in earlier : k <= m].plan

PlanChanges == {n \in PlanLines : rolloutLog[n].plan # PlanBefore(n)}

ChangesUpTo(n) == Cardinality({m \in PlanChanges : m <= n})

\* docs/tools.md:26: the plan shown is the latest proposed_plan block of the session
\* itself; up to the cap the revisions are its texts in order, each from the one before
\* it, and every change after the first text counts as an alteration (setPlanContent,
\* isAlterationPhase, handleResponseItem's silence for subagents).
ProposedPlansKept ==
  LET changes == Cardinality(PlanChanges) IN
  /\ codexSession.plan = PlanBefore(Now)
  /\ Len(codexSession.revisions) = IF changes < maxPlanRevisions THEN changes ELSE maxPlanRevisions
  /\ \A n \in PlanChanges : ChangesUpTo(n) <= maxPlanRevisions =>
       LET revision == codexSession.revisions[ChangesUpTo(n)]
       IN  revision.from = PlanBefore(n) /\ revision.to = rolloutLog[n].plan
  /\ codexSession.alterations = IF changes = 0 THEN 0 ELSE changes - 1

=============================================================================
