----------------------------- MODULE MCServices ------------------------------
(* Components that share no state with each other, checked in one run: only    *)
(* the one that subject names takes steps, so their states add up.  Of the     *)
(* configuration there are two saves of two keys and a restart; of the state   *)
(* directory one session, whose state is kept for two steps, its snapshot and  *)
(* the instance's record for one.                                              *)
EXTENDS MCTools, ConfigFile, StateDir, PlanStore, UncommittedPoll, Telemetry, Feed,
        CodexSession

CONSTANTS i1, s1, s2, d1, d2, g1, g2, x, y,
          main, a1,         \* the rollouts of a Codex session
          t1, t2, u1, u2    \* two pairs of whatever a component has two alike of

VARIABLE subject

\* Two sessions, each with a directory and a repository of its own.
MCCwd    == s1 :> d1 @@ s2 :> d2
MCGitDir == d1 :> g1 @@ d2 :> g2

\* Two decisions, one of them listed.
MCDecisions ==
  {[source |-> "config", decision |-> "accept"],
   [source |-> "user_temporary", decision |-> "accept"]}

Symmetry == Permutations({t1, t2}) \cup Permutations({u1, u2})

vars == <<subject, planVars, pollVars, telemetryVars, codexVars, configVars, stateDirVars,
          feedVars, getVars>>

Init ==
  /\ subject \in {"plan", "poll", "telemetry", "codex", "config", "state", "events", "pages"}
  /\ PlanInit /\ PollInit /\ TelemetryInit /\ CodexInit
  /\ ConfigInit /\ DirInit /\ FeedInit /\ GetInit
  /\ work[d1] = x /\ (subject # "poll" => work[d2] = x)   \* the texts are alike
  /\ subject # "config" => given = [k \in {u1, u2} |-> "none"]

\* The components other than one stand still.
Only(name) ==
  /\ subject = name /\ UNCHANGED subject
  /\ name # "plan"      => UNCHANGED planVars
  /\ name # "poll"      => UNCHANGED pollVars
  /\ name # "telemetry" => UNCHANGED telemetryVars
  /\ name # "codex"     => UNCHANGED codexVars
  /\ name # "config"    => UNCHANGED configVars
  /\ name # "state"     => UNCHANGED stateDirVars
  /\ name # "events"    => UNCHANGED feedVars
  /\ name # "pages"     => UNCHANGED getVars

Next ==
  \/ Only("plan") /\ PlanNext
  \/ Only("poll") /\ PollNext
  \/ Only("telemetry") /\ TelemetryNext
  \/ Only("codex") /\ CodexNext
  \/ Only("config") /\ ConfigNext
  \/ Only("state") /\ DirNext
  \/ Only("events") /\ FeedNext
  \/ Only("pages") /\ GetNext

Spec == Init /\ [][Next]_vars

\* The type invariants of the components, and their caps.
TypeOK ==
  /\ subject = "plan" => PlanTypeOK
  /\ subject = "poll" => PollTypeOK
  /\ subject = "telemetry" => TelemetryTypeOK /\ WithinCaps
  /\ subject = "codex" => CodexTypeOK
  /\ subject = "config" => ConfigTypeOK
  /\ subject = "state" => DirTypeOK
  /\ subject = "events" => FeedTypeOK
  /\ subject = "pages" => GetTypeOK

=============================================================================
