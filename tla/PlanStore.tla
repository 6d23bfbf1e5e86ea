------------------------------ MODULE PlanStore ------------------------------
(***************************************************************************)
(* The plan of one Claude session (session/store.go, setPlanContent to        *)
(* hydratePlanState, with the plan files of state/dir.go and the plan watcher *)
(* of watcher/plan_watcher.go).  Each instance learns of the plan from the    *)
(* session's transcript and from the plan file itself, keeps the revisions in *)
(* memory and shares them with the others through the state directory: one    *)
(* file per revision and latest.md.  Nothing locks these files.              *)
(*                                                                         *)
(* A revision's diff is the pair of texts it goes between.  Time is counted   *)
(* in changes of the plan and of what is known of it.                        *)
(***************************************************************************)
EXTENDS Naturals, FiniteSets, SequencesExt

CONSTANTS
  Stores,            \* one per instance
  Texts, NoText,     \* NoText: no plan file, an attachment without content, ""
  InWorktree,        \* whether the plan file lies in the session's working directory
  TakeTurns,         \* whether the instances' accesses to the plan's files never overlap
  WritesFail,        \* whether writing one of these files may fail
  maxRevisions,      \* maxPlanRevisions
  MaxEdits,          \* bound: changes of the plan file
  MaxLines,          \* bound: plan attachments in the transcript
  MaxStarts          \* bound: restarts and cold phases of all instances

ASSUME PlanStoreAssumption ==
  /\ NoText \notin Texts
  /\ InWorktree \in BOOLEAN /\ TakeTurns \in BOOLEAN /\ WritesFail \in BOOLEAN
  /\ {maxRevisions, MaxEdits, MaxLines, MaxStarts} \subseteq Nat

VARIABLES
  \* the agent's files
  plan,        \* the text of the plan file
  transcript,  \* the plan attachments
  clock,
  \* the state directory
  versions,    \* the revision files
  latest,      \* latest.md
  \* per instance
  session,     \* the session in its store, or NoPlanSession
  offset,      \* the attachments it has read
  noticed,     \* whether the plan watcher has an event to handle
  inHand,      \* the text the plan watcher has read and not yet stored
  op,          \* the change of plan in work, under the store's lock
  \* history and bounds
  torn,        \* whether a write of the two a revision needs was lost
  edits, starts

agentFiles == <<plan, transcript, clock, edits>>
disk       == <<versions, latest, torn>>
reader     == <<offset, noticed, inHand>>
planVars   == <<agentFiles, disk, session, reader, op, starts>>

Text == Texts \cup {NoText}

PlanRevision ==
  [index : Nat, isAlteration : BOOLEAN, from : Text, to : Text, timestamp : Nat]

NoPlanSession ==
  [content |-> NoText, revisions |-> <<>>, announced |-> <<>>, alterations |-> 0,
   path |-> "none", planExitSeen |-> FALSE, isKnown |-> FALSE]

Idle == [step |-> "idle", by |-> "none", text |-> NoText, known |-> NoText, timestamp |-> 0]

PlanTypeOK ==
  /\ plan \in Text /\ latest \in Text /\ clock \in Nat /\ torn \in BOOLEAN
  /\ transcript \in Seq([text : Text, isExit : BOOLEAN, timestamp : Nat])
  /\ versions \subseteq PlanRevision
  /\ \A v, w \in versions :
       v.index = w.index /\ v.isAlteration = w.isAlteration => v = w
  /\ \A i \in Stores :
       /\ session[i].content \in Text /\ session[i].alterations \in Nat
       /\ session[i].revisions \in Seq(PlanRevision) /\ session[i].announced \in Seq(Nat)
       /\ session[i].path \in {"none", "reported", "worktree"}
       /\ session[i].planExitSeen \in BOOLEAN /\ session[i].isKnown \in BOOLEAN
       /\ ~session[i].isKnown => session[i] = NoPlanSession
       /\ offset[i] \in 0 .. Len(transcript) /\ inHand[i] \in Text
       /\ op[i].step \in {"idle", "hydrate", "sync", "adopt", "record", "latest"}
       /\ op[i].step = "idle" => op[i] = Idle
  /\ noticed \in [Stores -> BOOLEAN]

PlanInit ==
  /\ plan = NoText /\ transcript = <<>> /\ clock = 0
  /\ versions = {} /\ latest = NoText /\ torn = FALSE
  /\ session = [i \in Stores |-> NoPlanSession] /\ offset = [i \in Stores |-> 0]
  /\ noticed = [i \in Stores |-> FALSE] /\ inHand = [i \in Stores |-> NoText]
  /\ op = [i \in Stores |-> Idle] /\ edits = 0 /\ starts = 0

-----------------------------------------------------------------------------
(* The agent.                                                                *)

\* The plan watcher watches the directory of plans, not the working directory.
EditPlan ==
  /\ edits < MaxEdits /\ edits' = edits + 1
  /\ plan' \in Texts \ {plan} /\ clock' = clock + 1
  /\ noticed' = IF InWorktree THEN noticed ELSE [i \in Stores |-> TRUE]
  /\ UNCHANGED <<transcript, disk, session, offset, inHand, op, starts>>

\* An attachment names the plan file; some hold its text as well.
WriteLine ==
  /\ Len(transcript) < MaxLines
  /\ clock' = clock + 1
  /\ \E text \in {NoText, plan}, isExit \in BOOLEAN :
       transcript' = Append(transcript,
         [text |-> text, isExit |-> isExit, timestamp |-> clock'])
  /\ UNCHANGED <<plan, edits, disk, session, reader, op, starts>>

-----------------------------------------------------------------------------
(* The state directory.                                                      *)

\* By index, from names in lexical order: NNN.diff before NNN.draft.diff.
IsBefore(v, w) ==
  v.index < w.index \/ (v.index = w.index /\ v.isAlteration /\ ~w.isAlteration)

Sorted(files) ==
  CHOOSE list \in [1 .. Cardinality(files) -> files] :
    \A k, l \in DOMAIN list : k < l => IsBefore(list[k], list[l])

ReadPlanVersions == Sorted(versions)

IsSameFile(v, w) == v.index = w.index /\ v.isAlteration = w.isAlteration

WritePlanVersion(version) ==
  versions' = {v \in versions : ~IsSameFile(v, version)} \cup {version}

-----------------------------------------------------------------------------
(* The store: one change of plan at a time.                                  *)

PlanGoto(i, step) == op' = [op EXCEPT ![i].step = step]

MayUseFiles(i) ==
  TakeTurns => \A j \in Stores \ {i} : op[j].step \in {"idle", "sync"}

NextPlanIndex(revisions) == IF revisions = <<>> THEN 0 ELSE Last(revisions).index + 1

Alterations(revisions) == Cardinality({k \in DOMAIN revisions : revisions[k].isAlteration})

\* getOrCreate: another line of the transcript has made the session known.
Hydrate(i) ==
  /\ ~session[i].isKnown /\ op[i].step = "idle" /\ MayUseFiles(i)
  /\ session' = [session EXCEPT ![i].isKnown = TRUE, ![i].revisions = ReadPlanVersions,
                                ![i].alterations = Alterations(ReadPlanVersions)]
  /\ IF versions = {} THEN UNCHANGED op ELSE PlanGoto(i, "hydrate")
  /\ UNCHANGED <<agentFiles, disk, reader, starts>>

HydrateLatest(i) ==
  /\ op[i].step = "hydrate"
  /\ session' = [session EXCEPT ![i].content = latest]
  /\ op' = [op EXCEPT ![i] = Idle]
  /\ UNCHANGED <<agentFiles, disk, reader, starts>>

\* Mutant: every change is a new edit.
IsNeverReplay(s, timestamp) == FALSE

\* isPlanReplay: no newer than the latest recorded revision.
IsPlanReplay(s, timestamp) ==
  s.revisions # <<>> /\ timestamp <= Last(s.revisions).timestamp

\* setPlanContent for session s of instance i, up to its first look at the disk.
SetPlanContent(i, s, text, timestamp, by) ==
  LET isSame == text \in {NoText, s.content} IN
  \/ /\ isSame
     /\ session' = [session EXCEPT ![i] = s] /\ UNCHANGED op
  \/ /\ ~isSame /\ IsPlanReplay(s, timestamp)
     /\ session' = [session EXCEPT ![i] = [s EXCEPT !.content = text]] /\ UNCHANGED op
  \/ /\ ~isSame /\ ~IsPlanReplay(s, timestamp)
     /\ session' = [session EXCEPT ![i] = s]
     /\ op' = [op EXCEPT ![i] = [step |-> "sync", by |-> by, text |-> text,
                                 known |-> NoText, timestamp |-> timestamp]]

Follow(s, path, isExit) ==
  [s EXCEPT !.path = path, !.planExitSeen = @ \/ isExit]

\* updatePlanContent: the text in the line, else that of the file it names, else
\* that of the file of the same name in the working directory.
ReadLine(i) ==
  /\ session[i].isKnown /\ op[i].step = "idle" /\ offset[i] < Len(transcript)
  /\ offset' = [offset EXCEPT ![i] = @ + 1]
  /\ LET line == transcript[offset[i] + 1]
         isInWorktree == line.text = NoText /\ InWorktree /\ plan # NoText
         s == Follow(session[i], IF isInWorktree THEN "worktree" ELSE "reported", line.isExit)
     IN SetPlanContent(i, s, IF line.text = NoText THEN plan ELSE line.text,
                       line.timestamp, "transcript")
  /\ UNCHANGED <<agentFiles, disk, noticed, inHand, starts>>

\* Mutant: nobody else writes these files.
IsNeverOutdated(i) == FALSE

IsOutdated(i) == latest \notin {NoText, session[i].content}

\* syncPlanFromDisk: what another instance may have recorded.
Sync(i) ==
  /\ op[i].step = "sync" /\ MayUseFiles(i)
  /\ \/ IsOutdated(i) /\ op' = [op EXCEPT ![i].step = "adopt", ![i].known = latest]
     \/ ~IsOutdated(i) /\ PlanGoto(i, "record")
  /\ UNCHANGED <<agentFiles, disk, session, reader, starts>>

\* Mutant: every version on the disk is appended.
IsAlwaysNew(version, revisions) == TRUE

IsNew(version, revisions) == version.index >= NextPlanIndex(revisions)

Indexes(revisions) == [k \in DOMAIN revisions |-> revisions[k].index]

\* adoptPlanVersions, and whether the disk already holds the text.
Adopt(i) ==
  LET s       == session[i]
      new     == {v \in versions : IsNew(v, s.revisions)}
      adopted == Sorted(new)
  IN
  /\ op[i].step = "adopt"
  /\ session' = [session EXCEPT ![i] = [s EXCEPT
       !.content = op[i].known,
       !.revisions = @ \o adopted,
       !.alterations = @ + Alterations(adopted),
       !.announced = @ \o Indexes(Sorted({v \in new : v.index > 0}))]]
  /\ IF op[i].known = op[i].text
     THEN op' = [op EXCEPT ![i] = Idle]
     ELSE PlanGoto(i, "record")
  /\ UNCHANGED <<agentFiles, disk, reader, starts>>

NewRevision(s, text, timestamp) ==
  IF s.content = NoText
  THEN [index |-> 0, isAlteration |-> FALSE, from |-> NoText, to |-> text,
        timestamp |-> timestamp]
  ELSE [index |-> NextPlanIndex(s.revisions), isAlteration |-> s.planExitSeen,
        from |-> s.content, to |-> text, timestamp |-> timestamp]

\* The first text is always kept.
IsKept(s) == s.content = NoText \/ Len(s.revisions) < maxRevisions

\* recordPlanRevision, with the first write of persistPlanVersion.
Record(i) ==
  LET s        == session[i]
      revision == NewRevision(s, op[i].text, op[i].timestamp)
  IN
  /\ op[i].step = "record"
  /\ session' = [session EXCEPT ![i] = [s EXCEPT
       !.content = op[i].text,
       !.revisions = IF IsKept(s) THEN Append(@, revision) ELSE @,
       !.alterations = @ + IF revision.isAlteration THEN 1 ELSE 0,
       !.announced = IF s.content = NoText THEN @ ELSE Append(@, revision.index)]]
  /\ \/ IsKept(s) /\ WritePlanVersion(revision) /\ PlanGoto(i, "latest") /\ UNCHANGED torn
     \/ IsKept(s) /\ WritesFail /\ torn' = TRUE /\ PlanGoto(i, "latest") /\ UNCHANGED versions
     \/ ~IsKept(s) /\ op' = [op EXCEPT ![i] = Idle] /\ UNCHANGED <<versions, torn>>
  /\ UNCHANGED <<agentFiles, latest, reader, starts>>

\* The second write of persistPlanVersion.
WritePlanLatest(i) ==
  /\ op[i].step = "latest"
  /\ op' = [op EXCEPT ![i] = Idle]
  /\ \/ latest' = op[i].text /\ UNCHANGED torn
     \/ WritesFail /\ torn' = TRUE /\ UNCHANGED latest
  /\ UNCHANGED <<agentFiles, versions, session, reader, starts>>

-----------------------------------------------------------------------------
(* The plan watcher.                                                         *)

\* loadPlan reads the file before UpdatePlanForPath takes the store's lock.
LoadPlan(i) ==
  /\ noticed[i] /\ inHand[i] = NoText /\ op[i].by # "planWatcher"
  /\ noticed' = [noticed EXCEPT ![i] = FALSE]
  /\ inHand' = [inHand EXCEPT ![i] = plan]
  /\ UNCHANGED <<agentFiles, disk, session, offset, op, starts>>

UpdatePlanForPath(i) ==
  /\ inHand[i] # NoText /\ op[i].step = "idle"
  /\ inHand' = [inHand EXCEPT ![i] = NoText]
  /\ IF session[i].path = "reported"
     THEN /\ clock' = clock + 1
          /\ SetPlanContent(i, session[i], inHand[i], clock', "planWatcher")
     ELSE UNCHANGED <<clock, session, op>>
  /\ UNCHANGED <<plan, transcript, edits, disk, offset, noticed, starts>>

-----------------------------------------------------------------------------
(* The process.                                                              *)

\* The warm period ends and another begins, from its snapshot: the watcher was not
\* there for what happened in between.
Rewarm(i) ==
  /\ starts < MaxStarts /\ starts' = starts + 1
  /\ noticed[i] /\ inHand[i] = NoText /\ op[i].step = "idle"
  /\ noticed' = [noticed EXCEPT ![i] = FALSE]
  /\ UNCHANGED <<agentFiles, disk, session, offset, inHand, op>>

\* The process ends, wherever it is, and another takes its place.
PlanRestart(i) ==
  /\ starts < MaxStarts /\ starts' = starts + 1 /\ session[i].isKnown
  /\ session' = [session EXCEPT ![i] = NoPlanSession]
  /\ offset' = [offset EXCEPT ![i] = 0]
  /\ noticed' = [noticed EXCEPT ![i] = FALSE] /\ inHand' = [inHand EXCEPT ![i] = NoText]
  /\ op' = [op EXCEPT ![i] = Idle]
  /\ torn' = (torn \/ op[i].step = "latest")
  /\ UNCHANGED <<agentFiles, versions, latest>>

StoreStep(i) ==
  Hydrate(i) \/ HydrateLatest(i) \/ ReadLine(i) \/ Sync(i) \/ Adopt(i) \/ Record(i)
    \/ WritePlanLatest(i)

WatcherStep(i) == LoadPlan(i) \/ UpdatePlanForPath(i)

PlanNext ==
  \/ EditPlan \/ WriteLine
  \/ \E i \in Stores : StoreStep(i) \/ WatcherStep(i) \/ Rewarm(i) \/ PlanRestart(i)

PlanSpec == PlanInit /\ [][PlanNext]_planVars

-----------------------------------------------------------------------------
(* Properties.                                                               *)

\* Each revision is numbered after the one before it and starts from its text.
IsHistory(revisions) ==
  \A k \in DOMAIN revisions :
    /\ revisions[k].index = k - 1
    /\ revisions[k].from = IF k = 1 THEN NoText ELSE revisions[k - 1].to

\* Where no write of a pair is lost, the revision files of a single instance are one
\* history from the first text to the one in latest.md: every diff applies to what
\* the ones before it build (recordPlanRevision, syncPlanFromDisk).
HistoryConnects ==
  ~torn =>
    /\ IsHistory(ReadPlanVersions)
    /\ (\A i \in Stores : op[i].step # "latest") =>
         latest = IF versions = {} THEN NoText ELSE Last(ReadPlanVersions).to

\* What the instance has in memory is what the files say: hydration and its own
\* records agree.  Below the cap the alterations are counted as they are listed and
\* no revision is announced twice (hydratePlanState, adoptPlanVersions).
MemoryAgrees ==
  \A i \in Stores : LET s == session[i] IN
    /\ ~torn /\ s.isKnown => s.revisions = ReadPlanVersions
    /\ Len(s.revisions) < maxRevisions =>
         s.alterations = Alterations(s.revisions) /\ IsInjective(s.announced)

\* store_events_test.go "a replayed history records nothing new": revisions are in the
\* order of their changes, each change at most once, however often the transcript is
\* read again and whatever writes were lost (isPlanReplay).
EachChangeOnce ==
  LET r == ReadPlanVersions IN
  \A k \in 1 .. Len(r) - 1 : r[k].timestamp < r[k + 1].timestamp

\* The three together: one history, in the files and in memory, whatever is replayed,
\* restarted or adopted.
OneHistory == HistoryConnects /\ MemoryAgrees /\ EachChangeOnce

\* store_events_test.go "revisions of the other store are not overwritten": a
\* revision file keeps what it says (WritePlanVersion).
NoneOverwritten == [][versions \subseteq versions']_planVars

=============================================================================
