------------------------------ MODULE Telemetry ------------------------------
(***************************************************************************)
(* Telemetry by session (telemetry/store.go, telemetry/otlp.go): the metrics  *)
(* and permission decisions Claude Code exports are folded into statistics    *)
(* that are written to the state directory after every record.  A session     *)
(* that is evicted, or unknown after a restart, goes on from its file.        *)
(* A decision comes without its command; the tool result with the same id     *)
(* brings it later, to the place in the list the decision was given.          *)
(***************************************************************************)
EXTENDS Naturals, Sequences, FiniteSets

CONSTANTS
  StatSessions, ToolUses,
  NoUse,              \* no tool use id, no command
  Points,            \* the values of a metric's points
  Decisions,         \* records [source, decision]
  Persists,          \* whether there is a state directory
  maxSessions, maxPermissionRequests, maxPendingCommands,
  MaxRecords,        \* bound: records received
  MaxMishaps         \* bound: writes of a file that fail and restarts

ASSUME TelemetryAssumption ==
  /\ Persists \in BOOLEAN
  /\ Points \subseteq Nat /\ NoUse \notin ToolUses
  /\ {maxSessions, maxPermissionRequests, maxPendingCommands} \subseteq Nat \ {0}
  /\ {MaxRecords, MaxMishaps} \subseteq Nat

VARIABLES
  stats,     \* the statistics in memory, by session
  pending,   \* by tool use, the request that waits for its command
  files,     \* the files of the state directory, by session
  now,
  \* history and bounds
  received,  \* the records
  failures,  \* the writes that failed
  restarts

telemetryVars == <<stats, pending, files, now, received, failures, restarts>>

Categories == {"autoAllowed", "configDenied", "hookAllowed", "hookDenied",
               "promptedOnce", "promptedAlways", "rejected", "aborted"}

\* A command stands for the tool use whose input it is.
PermissionRequest == [toolUse : ToolUses \cup {NoUse}, command : ToolUses \cup {NoUse}]

SessionStats == [total : Nat, count : [Categories -> Nat], requests : Seq(PermissionRequest),
          updatedAt : Nat]

NoStats == [total |-> 0, count |-> [c \in Categories |-> 0], requests |-> <<>>,
            updatedAt |-> 0]

TelemetryTypeOK ==
  /\ DOMAIN stats \subseteq StatSessions /\ DOMAIN files \subseteq StatSessions
  /\ \A s \in DOMAIN stats : stats[s] \in SessionStats
  /\ \A s \in DOMAIN files : files[s] \in SessionStats
  /\ DOMAIN pending \subseteq ToolUses
  /\ \A u \in DOMAIN pending : pending[u] \in [session : StatSessions, index : Nat \ {0}]
  /\ now \in Nat /\ failures \in Nat

\* Nothing grows past its cap.
WithinCaps ==
  /\ Cardinality(DOMAIN stats) <= maxSessions
  /\ Cardinality(DOMAIN pending) <= maxPendingCommands
  /\ \A s \in DOMAIN stats : Len(stats[s].requests) <= maxPermissionRequests

Nothing == [k \in {} |-> NoStats]

TelemetryInit ==
  /\ stats = Nothing /\ pending = Nothing /\ files = Nothing
  /\ now = 0 /\ received = <<>> /\ failures = 0 /\ restarts = 0

-----------------------------------------------------------------------------
Put(f, k, value) == [j \in DOMAIN f \cup {k} |-> IF j = k THEN value ELSE f[j]]
Without(f, k)    == [j \in DOMAIN f \ {k} |-> f[j]]

\* evictOldest: the session that was updated first.
Oldest == CHOOSE s \in DOMAIN stats :
            \A t \in DOMAIN stats : stats[s].updatedAt <= stats[t].updatedAt

\* Mutant: a session that is not in memory begins at zero.
RestoredNothing(s) == NoStats

\* restoredStats: go on from the file.
RestoredStats(s) == IF Persists /\ s \in DOMAIN files THEN files[s] ELSE NoStats

\* The sessions in memory once statsFor has made room for s.
Kept(s) ==
  IF s \notin DOMAIN stats /\ Cardinality(DOMAIN stats) >= maxSessions
  THEN Without(stats, Oldest)
  ELSE stats

\* statsFor.
StatsFor(s) ==
  [(IF s \in DOMAIN stats THEN stats[s] ELSE RestoredStats(s)) EXCEPT !.updatedAt = now + 1]

\* The record's change of session s, with persist.
Update(s, value, memory) ==
  /\ stats' = Put(memory, s, value)
  /\ now' = now + 1
  /\ \/ files' = (IF Persists THEN Put(files, s, value) ELSE files) /\ UNCHANGED failures
     \/ /\ Persists /\ failures + restarts < MaxMishaps
        /\ failures' = failures + 1 /\ UNCHANGED files

Receive(record) ==
  /\ Len(received) < MaxRecords
  /\ received' = Append(received, record)

FoldValue(current, incoming, isDelta) ==
  IF isDelta THEN current + incoming
  ELSE IF current > incoming THEN current ELSE incoming

\* fold.  Active time and cost are folded alike.
Fold(s, value, isDelta) ==
  /\ Receive([kind |-> "metric", session |-> s, value |-> value, isDelta |-> isDelta])
  /\ LET old == StatsFor(s) IN
     Update(s, [old EXCEPT !.total = FoldValue(@, value, isDelta)], Kept(s))
  /\ UNCHANGED <<pending, restarts>>

\* count: where a decision is counted, or nowhere.
Counted(d) ==
  LET isReject == d.decision = "reject" IN
  CASE d.source = "config"         -> IF isReject THEN {"configDenied"} ELSE {"autoAllowed"}
    [] d.source = "hook"           -> IF isReject THEN {"hookDenied"} ELSE {"hookAllowed"}
    [] d.source = "user_temporary" -> {"promptedOnce"}
    [] d.source = "user_permanent" -> {"promptedAlways"}
    [] d.source = "user_reject"    -> {"rejected"}
    [] d.source = "user_abort"     -> {"aborted"}
    [] OTHER                       -> {}

IsListedDecision(d) ==
  d.decision = "reject" \/ d.source \in {"user_temporary", "user_permanent"}

\* Mutant: one request too many.
HasRoomAtCap(requests) == Len(requests) <= maxPermissionRequests

HasRoom(requests) == Len(requests) < maxPermissionRequests

\* Mutant: the full table loses nothing.
RememberAlways(u, entry) == Put(pending, u, entry)

\* A full table of pending commands is dropped as a whole.
Remember(u, entry) ==
  Put(IF Cardinality(DOMAIN pending) >= maxPendingCommands THEN Nothing ELSE pending, u, entry)

\* foldDecision.
FoldDecision(s, u, d) ==
  LET old      == StatsFor(s)
      isListed == IsListedDecision(d) /\ HasRoom(old.requests)
      request  == [toolUse |-> u, command |-> NoUse]
  IN
  /\ Receive([kind |-> "decision", session |-> s, toolUse |-> u, decision |-> d])
  /\ Update(s, [old EXCEPT
       !.count = [c \in Categories |-> IF c \in Counted(d) THEN @[c] + 1 ELSE @[c]],
       !.requests = IF isListed THEN Append(@, request) ELSE @], Kept(s))
  /\ pending' = IF isListed /\ u # NoUse
                THEN Remember(u, [session |-> s, index |-> Len(old.requests) + 1])
                ELSE pending
  /\ UNCHANGED restarts

\* Mutant: the place is taken from whatever session the result names.
IsAnyOwner(s, u) == u \in DOMAIN pending

IsOwner(s, u) == u \in DOMAIN pending /\ pending[u].session = s

\* enrichCommand: the command of a prompted or denied decision.
EnrichCommand(s, u) ==
  /\ Receive([kind |-> "result", session |-> s, toolUse |-> u])
  /\ \/ ~IsOwner(s, u) /\ UNCHANGED <<stats, pending, files, now, failures>>
     \/ /\ IsOwner(s, u) /\ pending' = Without(pending, u)
        /\ IF s \in DOMAIN stats /\ pending[u].index <= Len(stats[s].requests)
           THEN Update(s, [stats[s] EXCEPT !.requests[pending[u].index].command = u], stats)
           ELSE UNCHANGED <<stats, files, now, failures>>
  /\ UNCHANGED restarts

\* The process ends and another takes its place.
TelemetryRestart ==
  /\ failures + restarts < MaxMishaps /\ restarts' = restarts + 1
  /\ stats' = Nothing /\ pending' = Nothing
  /\ UNCHANGED <<files, now, received, failures>>

TelemetryNext ==
  \/ \E s \in StatSessions :
       \/ \E value \in Points, isDelta \in BOOLEAN : Fold(s, value, isDelta)
       \/ \E u \in ToolUses : EnrichCommand(s, u)
       \/ \E u \in ToolUses \cup {NoUse}, d \in Decisions : FoldDecision(s, u, d)
  \/ TelemetryRestart

TelemetrySpec == TelemetryInit /\ [][TelemetryNext]_telemetryVars

-----------------------------------------------------------------------------
(* Properties.                                                               *)

\* What a reader is told of a session: from memory, else from its file.
Known(s) ==
  IF s \in DOMAIN stats THEN stats[s] ELSE IF s \in DOMAIN files THEN files[s] ELSE NoStats

IsDecisionOf(s, record) == record.kind = "decision" /\ record.session = s

\* The metric of session s once every record is folded.
Total(s) ==
  LET after[k \in 0 .. Len(received)] ==
        IF k = 0 THEN 0
        ELSE LET record == received[k] IN
             IF record.kind = "metric" /\ record.session = s
             THEN FoldValue(after[k - 1], record.value, record.isDelta)
             ELSE after[k - 1]
  IN after[Len(received)]

\* docs/reference.md:84: the counters stay exact, also past the cap of the list, and no
\* metric goes back to zero, through evictions and restarts, where every write of the
\* file succeeds (statsFor, restoredStats, count).
NothingForgotten ==
  Persists /\ failures = 0 =>
    \A s \in StatSessions :
      /\ Known(s).total = Total(s)
      /\ \A c \in Categories :
           Known(s).count[c] =
             Cardinality({k \in DOMAIN received :
               IsDecisionOf(s, received[k]) /\ c \in Counted(received[k].decision)})

\* The records of session s whose decision is to be listed, and the place of each.
ToList(s) ==
  {k \in DOMAIN received : IsDecisionOf(s, received[k]) /\ IsListedDecision(received[k].decision)}

PlaceOf(k, s) == Cardinality({j \in ToList(s) : j <= k})

\* docs/reference.md:84: the list holds every denial and every prompted decision of the
\* session in order, "the first ones kept" (foldDecision).
ListsTheFirst ==
  Persists /\ failures = 0 =>
    \A s \in StatSessions :
      LET requests == Known(s).requests
          many     == Cardinality(ToList(s))
      IN /\ Len(requests) = IF many < maxPermissionRequests THEN many ELSE maxPermissionRequests
         /\ \A k \in ToList(s) :
              PlaceOf(k, s) <= maxPermissionRequests =>
                requests[PlaceOf(k, s)].toolUse = received[k].toolUse

\* Both: what was received is counted and listed, whatever was evicted in between.
StatsKept == NothingForgotten /\ ListsTheFirst

\* A decision is shown with the command of its own tool use, whatever was evicted
\* between the decision and the result (pendingCommand, enrichCommand).
HasOwnCommand(entry) == entry.command \in {NoUse, entry.toolUse}

CommandsMatch ==
  Persists /\ failures = 0 =>
    \A s \in DOMAIN stats : \A k \in DOMAIN stats[s].requests :
      HasOwnCommand(stats[s].requests[k])

=============================================================================
