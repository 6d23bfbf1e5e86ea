----------------------------- MODULE Permissions ------------------------------
(***************************************************************************)
(* The permissions block of session_events (tools/viewmodels_events.go): the  *)
(* transcript's denials, of which the event list keeps the first, are joined   *)
(* by tool use with the decisions the telemetry listed, which come in any      *)
(* order with them and may be in memory, on disk, or lost.                    *)
(***************************************************************************)
EXTENDS Naturals, Sequences, FiniteSets

CONSTANTS
  Calls, NoId,               \* NoId: a denial without a tool use
  Sources,                   \* of the decisions
  denialBudget,              \* the event list's places for denials
  maxPermissionRequests,
  MaxRecords, MaxMishaps     \* bounds

\* The kinds of the transcripts' toolDenialKind that the code names; "interrupted" is
\* treated like "cancelled".
DenialKinds  == {"automode-blocked", "permission-rule", "user-rejected", "cancelled"}
RejectSource == {"config", "hook", "user_reject", "user_abort"}

ASSUME PermissionsAssumption ==
  /\ NoId \notin Calls /\ Sources \subseteq RejectSource \cup {"user_temporary"}
  /\ denialBudget \in Nat /\ maxPermissionRequests \in Nat
  /\ MaxRecords \in Nat /\ MaxMishaps \in Nat

Denial  == [id : Calls \cup {NoId}, kind : DenialKinds]
Request == [id : Calls, source : Sources, decision : {"accept", "reject"}]

VARIABLES
  counter,  \* Counters.PermissionDenials
  denials,  \* Session.Denials, the listed ones
  inMemory, \* the requests of the session in the telemetry store's memory
  file,     \* and in its file
  \* history
  beyond,   \* the counted denials that found no place in the list
  decided,  \* the decisions received
  mishaps, records

permissionVars == <<counter, denials, inMemory, file, beyond, decided, mishaps, records>>

PermissionTypeOK ==
  /\ counter \in 0 .. MaxRecords /\ beyond \in 0 .. MaxRecords
  /\ denials \in Seq(Denial) /\ Len(denials) <= denialBudget
  /\ inMemory \in Seq(Request) /\ file \in Seq(Request)
  /\ Len(inMemory) <= maxPermissionRequests /\ Len(file) <= maxPermissionRequests
  /\ decided \in Seq(Request)
  /\ mishaps \in 0 .. MaxMishaps /\ records \in 0 .. MaxRecords

PermissionInit ==
  /\ counter = 0 /\ denials = <<>> /\ inMemory = <<>> /\ file = <<>>
  /\ beyond = 0 /\ decided = <<>> /\ mishaps = 0 /\ records = 0

-----------------------------------------------------------------------------
IsCancellationKind(kind) == kind = "cancelled"

IsDenied(id) == \E i \in 1 .. Len(denials) : denials[i].id = id

\* AddEvent: the counter counts all but cancellations, the list takes the first of either.
Deny(id, kind) ==
  /\ records < MaxRecords /\ records' = records + 1
  /\ id # NoId => ~IsDenied(id)
  /\ LET counts  == IF IsCancellationKind(kind) THEN 0 ELSE 1
         hasRoom == Len(denials) < denialBudget IN
       /\ counter' = counter + counts
       /\ denials' = (IF hasRoom THEN Append(denials, [id |-> id, kind |-> kind]) ELSE denials)
       /\ beyond' = (IF hasRoom THEN beyond ELSE beyond + counts)
  /\ UNCHANGED <<inMemory, file, decided, mishaps>>

\* foldDecision of a listed decision: what is in memory, or else in the file, goes on.
Decide(id, source) ==
  /\ records < MaxRecords /\ records' = records + 1
  /\ LET request == [id |-> id, source |-> source,
                     decision |-> IF source \in RejectSource THEN "reject" ELSE "accept"]
         known   == IF inMemory = <<>> THEN file ELSE inMemory
         kept    == IF Len(known) < maxPermissionRequests THEN Append(known, request) ELSE known IN
       /\ inMemory' = kept /\ decided' = Append(decided, request)
       /\ \/ file' = kept /\ UNCHANGED mishaps
          \/ mishaps < MaxMishaps /\ mishaps' = mishaps + 1 /\ UNCHANGED file
  /\ UNCHANGED <<counter, denials, beyond>>

\* The session leaves the telemetry's memory: evicted, or the process restarts.
EvictDecisions ==
  /\ inMemory # <<>> /\ inMemory' = <<>>
  /\ UNCHANGED <<counter, denials, file, beyond, decided, mishaps, records>>

PermissionNext ==
  \/ \E kind \in DenialKinds, id \in Calls \cup {NoId} : Deny(id, kind)
  \/ \E id \in Calls, source \in Sources : Decide(id, source)
  \/ EvictDecisions

PermissionSpec == PermissionInit /\ [][PermissionNext]_permissionVars

-----------------------------------------------------------------------------
(* The view: newPermissionsView of a Claude session.                         *)

\* permissionStatsFor.
Listed == IF inMemory # <<>> THEN inMemory ELSE file

Detail ==
  CASE inMemory # <<>>                    -> "live"
    [] inMemory = <<>> /\ file # <<>>     -> "persisted"
    [] inMemory = <<>> /\ file = <<>>     -> "transcript-only"

Counted(i) == ~IsCancellationKind(denials[i].kind)

\* Mutant: cancellations are counted, too.
CountedDenialIdsAll == {denials[i].id : i \in 1 .. Len(denials)} \ {NoId}

CountedDenialIds == {denials[i].id : i \in {j \in 1 .. Len(denials) : Counted(j)}} \ {NoId}

Rejects == {i \in 1 .. Len(Listed) : Listed[i].decision = "reject"}

Attributing == {i \in Rejects : Listed[i].id \in CountedDenialIds}

DeniedByKind(kind) == Cardinality({i \in 1 .. Len(denials) : denials[i].kind = kind})

DeniedBySource(source) == Cardinality({i \in Attributing : Listed[i].source = source})

Unattributed ==
  Cardinality({i \in 1 .. Len(denials) :
    Counted(i) /\ denials[i].id \notin {Listed[j].id : j \in Attributing}})

TelemetryOnly == Cardinality(Rejects \ Attributing)

-----------------------------------------------------------------------------
(* Properties.                                                               *)

Total(f) == f["config"] + f["hook"] + f["user_reject"] + f["user_abort"]

\* No tool use was decided twice, as it is when an exporter sends a record again.
DecidedOnce == \A i, j \in 1 .. Len(decided) : decided[i].id = decided[j].id => i = j

\* Every denial the ledger counts is attributed to one source or unattributed, in whatever
\* order the transcript and the telemetry told of it; the numbers add up to the ledger but
\* for the denials the full list did not take (reconcileDenials; plans/telemetry_permissions
\* /design/refined.md:10, "so a gap never disappears").  While writes succeed an eviction
\* or a restart takes no attribution back.
DenialsReconciled ==
  DecidedOnce =>
    /\ counter = Total([source \in RejectSource |-> DeniedBySource(source)]) + Unattributed + beyond
    /\ counter = DeniedByKind("automode-blocked") + DeniedByKind("permission-rule")
                 + DeniedByKind("user-rejected") + beyond
    /\ (mishaps = 0 /\ Len(decided) <= maxPermissionRequests) =>
         \A i \in 1 .. Len(decided) : decided[i].decision = "reject" =>
           IF decided[i].id \in CountedDenialIds
           THEN DeniedBySource(decided[i].source) > 0 ELSE TelemetryOnly > 0

=============================================================================
