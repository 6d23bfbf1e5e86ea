------------------------------- MODULE StateDir -------------------------------
(***************************************************************************)
(* The state directory's files and their collection (state/dir.go,            *)
(* runStateGc in cmd/start.go, tools/invocations.go, control/stats.go):       *)
(* several processes write files of a session, and their own files under      *)
(* instances, while any of them collects what is old.  Nothing is locked.     *)
(*                                                                         *)
(* Time goes in steps of days: the age of a file is the number of steps since *)
(* it was written or touched, up to Old.  Writes and collections take less    *)
(* than a step.                                                               *)
(***************************************************************************)
EXTENDS Naturals

CONSTANTS
  Sessions, Instances,
  Retention, SnapshotRetention,    \* steps until session state, and snapshots, are old; 0: never
  RecordRetention,                 \* steps until instanceRetention has passed
  MaxWrites, MaxSteps, MaxStateCrashes  \* bounds; of writes by sessions and instances

ASSUME StateDirAssumption ==
  /\ Retention \in Nat /\ SnapshotRetention \in Nat /\ RecordRetention \in Nat \ {0}
  /\ MaxWrites \in Nat /\ MaxSteps \in Nat /\ MaxStateCrashes \in Nat

Old    == MaxSteps + 1
Absent == Old + 1
Files  == {"diff.snapshot", "plan"}

VARIABLES
  \* the sessions' directories
  dirs,       \* those that exist
  age,        \* the age of each file in them, or Absent
  temp,       \* the age of a temporary file in them, or Absent
  \* writeStream, one call for each session
  writerAt, target,   \* where it is, and the file it writes
  \* one collection at a time
  phase,      \* what Gc is at
  todo,       \* the directories it has still to look at in this phase
  victim,     \* the one it is about to remove something of
  \* the instances
  alive, cold,
  record, snap,   \* the ages of instances/<id>.json and <id>.store, or Absent
  doomedRecords, doomedSnaps,   \* of which a collection is about to remove them
  \* history
  owed,       \* the files that were written and are not old since
  failed,     \* the sessions of which a write failed
  raced,      \* those written to while a collection was at their directory
  recordDay, snapDay,   \* the step in which an instance last wrote them
  overtaken,  \* the instances that wrote while a collection was about to remove
  writes, steps, stateCrashes

trees        == <<dirs, age, temp>>
writer       == <<writerAt, target>>
collector    == <<phase, todo, victim>>
doomed       == <<doomedRecords, doomedSnaps>>
instances    == <<alive, cold, record, snap, doomed, recordDay, snapDay, overtaken>>
stateHistory == <<owed, failed, raced, writes, steps, stateCrashes>>
stateDirVars == <<trees, writer, collector, instances, stateHistory>>

Ages == 0 .. Absent

DirTypeOK ==
  /\ dirs \subseteq Sessions /\ age \in [Sessions -> [Files -> Ages]] /\ temp \in [Sessions -> Ages]
  /\ \A s \in Sessions \ dirs : temp[s] = Absent /\ \A f \in Files : age[s][f] = Absent
  /\ writerAt \in [Sessions -> {"idle", "create", "rename"}] /\ target \in [Sessions -> Files]
  /\ phase \in {"idle", "dirs", "snapshots", "stores"}
  /\ todo \subseteq Sessions /\ victim \subseteq Sessions
  /\ alive \subseteq Instances /\ cold \subseteq Instances
  /\ record \in [Instances -> Ages] /\ snap \in [Instances -> Ages]
  /\ doomedRecords \subseteq Instances /\ doomedSnaps \subseteq Instances
  /\ recordDay \in [Instances -> 0 .. MaxSteps] /\ snapDay \in [Instances -> 0 .. MaxSteps]
  /\ overtaken \subseteq Instances
  /\ owed \in [Sessions -> SUBSET Files] /\ failed \subseteq Sessions /\ raced \subseteq Sessions
  /\ writes \in 0 .. MaxWrites /\ steps \in 0 .. MaxSteps
  /\ stateCrashes \in 0 .. MaxStateCrashes

DirInit ==
  /\ dirs = {} /\ age = [s \in Sessions |-> [f \in Files |-> Absent]]
  /\ temp = [s \in Sessions |-> Absent]
  /\ writerAt = [s \in Sessions |-> "idle"] /\ target = [s \in Sessions |-> "plan"]
  /\ phase = "idle" /\ todo = {} /\ victim = {}
  /\ alive = Instances /\ cold = {}
  /\ record = [i \in Instances |-> 0] /\ snap = [i \in Instances |-> Absent]
  /\ doomedRecords = {} /\ doomedSnaps = {} /\ overtaken = {}
  /\ recordDay = [i \in Instances |-> 0] /\ snapDay = [i \in Instances |-> 0]
  /\ owed = [s \in Sessions |-> {}] /\ failed = {} /\ raced = {}
  /\ writes = 0 /\ steps = 0 /\ stateCrashes = 0

-----------------------------------------------------------------------------
(* Time.                                                                     *)

Older(n) == IF n < Old THEN n + 1 ELSE n

IsOld(n, retention) == retention > 0 /\ n >= retention

\* A snapshot is owed until it is old, and what is owed of a session until all of it is.
StillOwed(s) ==
  LET kept == {f \in owed[s] : f = "diff.snapshot" => ~IsOld(Older(age[s][f]), SnapshotRetention)}
  IN  IF \A f \in kept : IsOld(Older(age[s][f]), Retention) THEN {} ELSE kept

Days ==
  /\ steps < MaxSteps /\ steps' = steps + 1
  /\ phase = "idle" /\ \A s \in Sessions : writerAt[s] = "idle"
  /\ doomedRecords = {} /\ doomedSnaps = {}
  /\ age' = [s \in Sessions |-> [f \in Files |-> Older(age[s][f])]]
  /\ temp' = [s \in Sessions |-> Older(temp[s])]
  /\ record' = [i \in Instances |-> Older(record[i])] /\ snap' = [i \in Instances |-> Older(snap[i])]
  /\ owed' = [s \in Sessions |-> StillOwed(s)]
  /\ UNCHANGED <<dirs, writer, collector, alive, cold, doomed, recordDay, snapDay, overtaken,
                 failed, raced, writes, stateCrashes>>

-----------------------------------------------------------------------------
(* Writing a file of a session.                                              *)

WriterGoto(s, label) == writerAt' = [writerAt EXCEPT ![s] = label]

\* A step of a writer between a collection's look at the directory and its removal.
Races(s) == raced' = IF s \in victim THEN raced \cup {s} ELSE raced

Fails(s) == WriterGoto(s, "idle") /\ failed' = failed \cup {s}

\* writeStream: MkdirAll.
MakeDir(s, f) ==
  /\ writerAt[s] = "idle" /\ writes < MaxWrites /\ writes' = writes + 1
  /\ WriterGoto(s, "create") /\ target' = [target EXCEPT ![s] = f] /\ dirs' = dirs \cup {s}
  /\ Races(s)
  /\ UNCHANGED <<age, temp, collector, instances, owed, failed, steps, stateCrashes>>

\* CreateTemp fails when the directory is gone again.
CreateTemp(s) ==
  /\ writerAt[s] = "create" /\ Races(s)
  /\ \/ /\ s \in dirs /\ WriterGoto(s, "rename") /\ temp' = [temp EXCEPT ![s] = 0]
        /\ UNCHANGED failed
     \/ s \notin dirs /\ Fails(s) /\ UNCHANGED temp
  /\ UNCHANGED <<dirs, age, target, collector, instances, owed, writes, steps, stateCrashes>>

\* So does os.Rename when the temporary file is.
RenameFile(s) ==
  /\ writerAt[s] = "rename" /\ Races(s)
  /\ \/ /\ temp[s] # Absent /\ WriterGoto(s, "idle") /\ temp' = [temp EXCEPT ![s] = Absent]
        /\ age' = [age EXCEPT ![s][target[s]] = 0]
        /\ owed' = [owed EXCEPT ![s] = @ \cup {target[s]}] /\ UNCHANGED failed
     \/ temp[s] = Absent /\ Fails(s) /\ UNCHANGED <<age, temp, owed>>
  /\ UNCHANGED <<dirs, target, collector, instances, writes, steps, stateCrashes>>

\* TouchDiffSnapshot.
Touch(s) ==
  /\ writerAt[s] = "idle" /\ writes < MaxWrites /\ writes' = writes + 1 /\ Races(s)
  /\ \/ /\ age[s]["diff.snapshot"] # Absent /\ age' = [age EXCEPT ![s]["diff.snapshot"] = 0]
        /\ owed' = [owed EXCEPT ![s] = @ \cup {"diff.snapshot"}]
     \/ age[s]["diff.snapshot"] = Absent /\ UNCHANGED <<age, owed>>
  /\ UNCHANGED <<dirs, temp, writer, collector, instances, failed, steps, stateCrashes>>

\* The writing process ends; its directory and temporary file stay.
CrashWriter(s) ==
  /\ writerAt[s] # "idle" /\ WriterGoto(s, "idle")
  /\ stateCrashes < MaxStateCrashes /\ stateCrashes' = stateCrashes + 1
  /\ UNCHANGED <<trees, target, collector, instances, owed, failed, raced, writes, steps>>

-----------------------------------------------------------------------------
(* Gc and PruneInstanceStores.                                               *)

\* pruneTemps: no step is shorter than tempMaxAge, and no write is longer.
BeginGc ==
  /\ phase = "idle" /\ phase' = "dirs" /\ todo' = dirs
  /\ temp' = [s \in Sessions |-> IF temp[s] \in 1 .. Old THEN Absent ELSE temp[s]]
  /\ UNCHANGED <<dirs, age, writer, victim, instances, stateHistory>>

\* newestModTime is before the cutoff; of an empty directory it is the zero time.
IsIdle(s) ==
  /\ Retention > 0
  /\ \A n \in {temp[s]} \cup {age[s][f] : f \in Files} : n # Absent => IsOld(n, Retention)

\* A write that is under way meets a directory that is looked at.
LooksDuringWrite(s) == raced' = IF writerAt[s] # "idle" THEN raced \cup {s} ELSE raced

\* pruneAgentDir looks at a directory.
LookAtDir(s) ==
  /\ phase = "dirs" /\ victim = {} /\ s \in todo /\ todo' = todo \ {s}
  /\ victim' = (IF IsIdle(s) THEN {s} ELSE {}) /\ LooksDuringWrite(s)
  /\ UNCHANGED <<trees, writer, phase, instances, owed, failed, writes, steps, stateCrashes>>

\* RemoveAll.
RemoveDir(s) ==
  /\ phase = "dirs" /\ s \in victim /\ victim' = {}
  /\ dirs' = dirs \ {s} /\ age' = [age EXCEPT ![s] = [f \in Files |-> Absent]]
  /\ temp' = [temp EXCEPT ![s] = Absent]
  /\ UNCHANGED <<writer, phase, todo, instances, stateHistory>>

\* pruneSnapshots looks at a snapshot.
LookAtSnapshot(s) ==
  /\ phase = "snapshots" /\ victim = {} /\ s \in todo /\ todo' = todo \ {s}
  /\ victim' = IF age[s]["diff.snapshot"] # Absent
                  /\ IsOld(age[s]["diff.snapshot"], SnapshotRetention) THEN {s} ELSE {}
  /\ UNCHANGED <<trees, writer, phase, instances, stateHistory>>

RemoveSnapshot(s) ==
  /\ phase = "snapshots" /\ s \in victim /\ victim' = {}
  /\ age' = [age EXCEPT ![s]["diff.snapshot"] = Absent]
  /\ UNCHANGED <<dirs, temp, writer, phase, todo, instances, stateHistory>>

NextPhase ==
  /\ todo = {} /\ victim = {}
  /\ \/ phase = "dirs" /\ phase' = "snapshots" /\ todo' = dirs
     \/ phase = "snapshots" /\ phase' = "stores" /\ UNCHANGED todo
  /\ UNCHANGED <<trees, writer, victim, instances, stateHistory>>

IsOrphan(i) == i \notin alive

\* Gc takes the files under instances for session directories, too: those that are old;
\* PruneInstanceStores those of the dead.
EndGc ==
  /\ phase = "stores" /\ phase' = "idle"
  /\ doomedRecords' = doomedRecords \cup {i \in Instances : record[i] # Absent /\ IsOld(record[i], Retention)}
  /\ doomedSnaps' = doomedSnaps \cup
                    {i \in Instances : snap[i] # Absent /\ (IsOrphan(i) \/ IsOld(snap[i], Retention))}
  /\ UNCHANGED <<trees, writer, todo, victim, alive, cold, record, snap, recordDay, snapDay,
                 overtaken, stateHistory>>

\* The collecting process ends.
CrashGc ==
  /\ phase # "idle" /\ stateCrashes < MaxStateCrashes /\ stateCrashes' = stateCrashes + 1
  /\ phase' = "idle" /\ todo' = {} /\ victim' = {}
  /\ UNCHANGED <<trees, writer, instances, owed, failed, raced, writes, steps>>

-----------------------------------------------------------------------------
(* The instances' own files.                                                 *)

\* The look at a file and its removal are two steps: what is written between them is gone.
Overtakes(i) ==
  overtaken' = IF i \in doomedRecords \cup doomedSnaps THEN overtaken \cup {i} ELSE overtaken

Persist(i) ==
  /\ writes < MaxWrites /\ writes' = writes + 1
  /\ record' = [record EXCEPT ![i] = 0] /\ recordDay' = [recordDay EXCEPT ![i] = steps]
  /\ Overtakes(i)

\* A tool call, a client or a change of state is recorded (InvocationCounter.persist).
Act(i) ==
  /\ i \in alive /\ Persist(i)
  /\ UNCHANGED <<trees, writer, collector, alive, cold, snap, snapDay, doomed,
                 owed, failed, raced, steps, stateCrashes>>

\* The warm period ends with a snapshot; the next one reads it and removes it.
Cool(i) ==
  /\ i \in alive \ cold /\ cold' = cold \cup {i} /\ snap' = [snap EXCEPT ![i] = 0]
  /\ snapDay' = [snapDay EXCEPT ![i] = steps] /\ Persist(i)
  /\ UNCHANGED <<trees, writer, collector, alive, doomed,
                 owed, failed, raced, steps, stateCrashes>>

Warm(i) ==
  /\ i \in alive \cap cold /\ cold' = cold \ {i} /\ snap' = [snap EXCEPT ![i] = Absent]
  /\ Persist(i)
  /\ UNCHANGED <<trees, writer, collector, alive, snapDay, doomed,
                 owed, failed, raced, steps, stateCrashes>>

\* The process is killed: its files stay.
Die(i) ==
  /\ i \in alive /\ alive' = alive \ {i}
  /\ stateCrashes < MaxStateCrashes /\ stateCrashes' = stateCrashes + 1
  /\ UNCHANGED <<trees, writer, collector, cold, record, snap, doomed, recordDay, snapDay,
                 overtaken, owed, failed, raced, writes, steps>>

\* Mutant: the age of an instance is judged, not that of its record.
IsPastByStart(n) == steps >= RecordRetention

IsPast(n) == n >= RecordRetention

\* PruneInstances, whenever the statistics are asked for.
Stats ==
  LET past == {i \in Instances : record[i] # Absent /\ IsPast(record[i])} IN
    /\ ~(past \subseteq doomedRecords) /\ doomedRecords' = doomedRecords \cup past
    /\ UNCHANGED <<trees, writer, collector, alive, cold, record, snap, doomedSnaps, recordDay,
                   snapDay, overtaken, stateHistory>>

\* os.Remove of what Gc, PruneInstanceStores or PruneInstances has looked at.
RemoveInstanceFiles ==
  /\ doomedRecords \cup doomedSnaps # {} /\ doomedRecords' = {} /\ doomedSnaps' = {}
  /\ record' = [i \in Instances |-> IF i \in doomedRecords THEN Absent ELSE record[i]]
  /\ snap' = [i \in Instances |-> IF i \in doomedSnaps THEN Absent ELSE snap[i]]
  /\ UNCHANGED <<trees, writer, collector, alive, cold, recordDay, snapDay, overtaken,
                 stateHistory>>

DirNext ==
  \/ Days \/ BeginGc \/ NextPhase \/ EndGc \/ CrashGc
  \/ Stats \/ RemoveInstanceFiles
  \/ \E s \in Sessions :
       \/ \E f \in Files : MakeDir(s, f)
       \/ CreateTemp(s) \/ RenameFile(s) \/ Touch(s) \/ CrashWriter(s)
       \/ LookAtDir(s) \/ RemoveDir(s) \/ LookAtSnapshot(s) \/ RemoveSnapshot(s)
  \/ \E i \in Instances : Act(i) \/ Cool(i) \/ Warm(i) \/ Die(i)

DirSpec == DirInit /\ [][DirNext]_stateDirVars

-----------------------------------------------------------------------------
(* Properties.                                                               *)

\* What was written of a session is there until all of it is old, a snapshot until it is
\* old itself, and no write fails, however collections, crashed writers and crashed
\* collections come between; only a write in the very moment between a collection's look
\* and its removal may be lost (Gc, newestModTime; reference.md:28).
FreshKept ==
  \A s \in Sessions \ raced : s \notin failed /\ \A f \in owed[s] : age[s][f] # Absent

\* A cold instance that lives finds its snapshot when it is asked again, unless it has
\* been cold for as long as session state is kept, and whatever other processes collect
\* (PruneInstanceStores, ProcessAlive); a record is listed until instanceRetention, or the
\* time session state is kept, has passed since it was last written, however old its
\* instance is (PruneInstances, Gc).  Only what is written in the very moment between a
\* collection's look and its removal may be lost.
InstancesKept ==
  \A i \in Instances \ overtaken :
    /\ i \in alive \cap cold => snap[i] # Absent \/ IsOld(steps - snapDay[i], Retention)
    /\ \/ record[i] # Absent \/ steps - recordDay[i] >= RecordRetention
       \/ IsOld(steps - recordDay[i], Retention)

\* Both: a collection, by whichever instance, takes only what is old or an orphan's, by the
\* time since it was written.
FilesKept == FreshKept /\ InstancesKept

=============================================================================
