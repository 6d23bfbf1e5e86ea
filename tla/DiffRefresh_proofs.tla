-------------------------- MODULE DiffRefresh_proofs --------------------------
(* Proofs about DiffRefresh: a session that is said to have a snapshot has one,  *)
(* for any number of instances; and where the state directory is one instance's  *)
(* own, the base stays, the diff never goes back and the last work is served.    *)
EXTENDS DiffRefresh, TLAPS

USE DiffRefreshAssumption

\* A refresh that goes on with a base has one.
HasBase(i) == pc[i] \in {"persistBase", "read", "diff"} => pinned[i] # NoBase

\* The places of the refresh goroutine.
Labels == {"none", "start", "pin", "merge", "persistBase", "read", "diff", "update", "persist", "mark"}

TypeInv == DiffTypeOK /\ \A i \in Instances : HasBase(i)

-----------------------------------------------------------------------------
(* Types.                                                                    *)

LEMMA NoDiffType ==
  /\ NoDiff \in Diffs /\ NoSnapshot \in [diff : Diffs, at : 0 .. MaxTurns]
  /\ NoSnapshot.diff = NoDiff /\ NoDiff.text = Empty
  BY DEF NoDiff, NoSnapshot, Diffs, Texts, Empty

LEMMA InitTypeInv == DiffInit => TypeInv
  <1> SUFFICES ASSUME DiffInit PROVE TypeInv
    OBVIOUS
  <1>1. \A i \in Instances : inbox[i] \in Seq({"turn", "other"}) /\ Len(inbox[i]) <= Buffer
    <2>1. \A i \in Instances : inbox[i] = <<>>
      BY DEF DiffInit
    <2>2. <<>> \in Seq({"turn", "other"}) /\ Len(<<>>) <= Buffer
      OBVIOUS
    <2> QED
      BY <2>1, <2>2
  <1>2. /\ diskDiff \in [diff : Diffs, at : 0 .. MaxTurns] /\ diskBase \in Bases
        /\ base \in [Instances -> Bases] /\ pinned \in [Instances -> Bases]
    BY NoDiffType DEF DiffInit, Bases, NoBase
  <1>3. /\ live \in [Instances -> Diffs] /\ cache \in [Instances -> Diffs]
        /\ output \in [Instances -> Diffs] /\ existing \in [Instances -> Diffs]
        /\ reading \in [Instances -> Diffs]
    BY NoDiffType DEF DiffInit
  <1>4. turns \in 0 .. MaxTurns /\ tip \in 1 .. MaxTip /\ computed \in 0 .. MaxTurns
    BY DEF DiffInit
  <1>5. /\ lastActive \in [Instances -> 0 .. MaxTurns] /\ starts \in [Instances -> 0 .. MaxStarts]
        /\ hasSnap \in [Instances -> BOOLEAN] /\ dirty \in [Instances -> BOOLEAN]
        /\ overtaken \in [Instances -> BOOLEAN]
    BY DEF DiffInit
  <1>6. /\ source \in [Instances -> {"none", "live", "snapshot"}]
        /\ pc \in [Instances -> Labels] /\ \A i \in Instances : HasBase(i)
    BY DEF DiffInit, Labels, HasBase
  <1>7. tree \in Trees /\ isGit \in BOOLEAN /\ unwritten \in BOOLEAN
    BY DEF DiffInit
  <1> QED
    BY <1>1, <1>2, <1>3, <1>4, <1>5, <1>6, <1>7 DEF TypeInv, DiffTypeOK, Labels

\* What a refresh that fails over changes keeps its type.
LEMMA FailOverTyped ==
  ASSUME DiffTypeOK, NEW i \in Instances, FailOver(i)
  PROVE  /\ pc' \in [Instances -> Labels] /\ pc' = [pc EXCEPT ![i] = "none"]
         /\ source' \in [Instances -> {"none", "live", "snapshot"}]
  BY DEF FailOver, Goto, DiffTypeOK, Labels

\* A queue that another event is published to is still one.
LEMMA PublishedType ==
  ASSUME DiffTypeOK, NEW i \in Instances, NEW event \in {"turn", "other"}
  PROVE  /\ Published(i, event) \in Seq({"turn", "other"})
         /\ Len(Published(i, event)) <= Buffer
  BY DEF DiffTypeOK, Published

\* What git prints is a text.
LEMMA GitTextType ==
  ASSUME DiffTypeOK, NEW sha \in 1 .. MaxTip
  PROVE  GitText(sha) \in Texts
  BY DEF DiffTypeOK, GitText, Texts

\* The agent, git and the target branch change no type.
LEMMA WorldTyped ==
  ASSUME TypeInv, Turn \/ MoveTarget \/ LoseGit
  PROVE  TypeInv'
  <1> USE DEF TypeInv, HasBase, stateDir, memory, watcher, refresh, history
  <1>1. CASE Turn
    BY <1>1 DEF Turn, DiffTypeOK
  <1>2. CASE MoveTarget
    BY <1>2 DEF MoveTarget, DiffTypeOK
  <1>3. CASE LoseGit
    BY <1>3 DEF LoseGit, DiffTypeOK
  <1> QED
    BY <1>1, <1>2, <1>3

\* Nor do the events and the ticks.
LEMMA EventsTyped ==
  ASSUME TypeInv, NEW i \in Instances, Noise(i) \/ Ingest(i) \/ Receive(i) \/ Tick(i)
  PROVE  TypeInv'
  <1> USE DEF TypeInv, HasBase, world, stateDir, memory, watcher, refresh, history
  <1>1. CASE Noise(i)
    <2>1. inbox' = [inbox EXCEPT ![i] = Published(i, "other")]
      BY <1>1 DEF Noise
    <2>2. \A j \in Instances : inbox'[j] \in Seq({"turn", "other"}) /\ Len(inbox'[j]) <= Buffer
      BY <2>1, PublishedType DEF DiffTypeOK
    <2> QED
      BY <1>1, <2>2 DEF Noise, DiffTypeOK
  <1>2. CASE Ingest(i)
    <2>1. inbox' = [inbox EXCEPT ![i] = Published(i, "turn")] /\ UNCHANGED pc
      BY <1>2 DEF Ingest
    <2>2. \A j \in Instances : inbox'[j] \in Seq({"turn", "other"}) /\ Len(inbox'[j]) <= Buffer
      BY <2>1, PublishedType DEF DiffTypeOK
    <2>3. lastActive' \in [Instances -> 0 .. MaxTurns]
      BY <1>2 DEF Ingest, DiffTypeOK
    <2>4. /\ base' \in [Instances -> Bases] /\ hasSnap' \in [Instances -> BOOLEAN]
          /\ source' \in [Instances -> {"none", "live", "snapshot"}]
      <3>1. CASE UNCHANGED <<base, hasSnap, source>>
        BY <3>1 DEF DiffTypeOK
      <3>2. CASE Hydrated(i)
        <4>1. base' \in [Instances -> Bases]
          BY <3>2 DEF Hydrated, DiffTypeOK
        <4>2. hasSnap' \in [Instances -> BOOLEAN]
          BY <3>2 DEF Hydrated, DiffTypeOK
        <4>3. source' \in [Instances -> {"none", "live", "snapshot"}]
          BY <3>2 DEF Hydrated, DiffTypeOK
        <4> QED
          BY <4>1, <4>2, <4>3
      <3> QED
        BY <1>2, <3>1, <3>2 DEF Ingest
    <2> QED
      BY <1>2, <2>2, <2>3, <2>4 DEF Ingest, DiffTypeOK
  <1>3. CASE Receive(i)
    BY <1>3 DEF Receive, DiffTypeOK
  <1>4. CASE Tick(i)
    BY <1>4 DEF Tick, DiffTypeOK
  <1> QED
    BY <1>1, <1>2, <1>3, <1>4

\* The refresh goroutine up to the base.
LEMMA PinTyped ==
  ASSUME TypeInv, NEW i \in Instances, Start(i) \/ Pin(i) \/ Merge(i) \/ PersistBase(i)
  PROVE  TypeInv'
  <1> USE DEF TypeInv, HasBase, world, stateDir, memory, watcher, refresh, history, Goto,
          NoBase, Bases, Labels
  <1>1. CASE Start(i)
    <2>1. CASE ~isGit
      <3>1. /\ FailOver(i)
            /\ UNCHANGED <<turns, tree, tip, isGit, diskBase, diskDiff, lastActive, base, live, hasSnap,
                          cache, inbox, dirty, pinned, output, existing, reading, computed,
                          unwritten, overtaken, starts>>
        BY <1>1, <2>1 DEF Start
      <3> QED
        BY <3>1, FailOverTyped DEF DiffTypeOK
    <2>2. CASE isGit
      <3>1. /\ pc' = [pc EXCEPT ![i] = IF base[i] = NoBase THEN "pin" ELSE "read"]
            /\ pinned' = [pinned EXCEPT ![i] = base[i]] /\ UNCHANGED source
        BY <1>1, <2>2 DEF Start
      <3> QED
        BY <1>1, <3>1 DEF Start, DiffTypeOK
    <2> QED
      BY <2>1, <2>2
  <1>2. CASE Pin(i)
    <2>1. CASE diskBase # NoBase
      <3>1. /\ pc' = [pc EXCEPT ![i] = "read"] /\ base' = [base EXCEPT ![i] = diskBase]
            /\ pinned' = [pinned EXCEPT ![i] = diskBase]
        BY <1>2, <2>1 DEF Pin, PinAs
      <3> QED
        BY <1>2, <2>1, <3>1 DEF Pin, DiffTypeOK
    <2>2. CASE diskBase = NoBase
      BY <1>2, <2>2 DEF Pin, DiffTypeOK
    <2> QED
      BY <2>1, <2>2
  <1>3. CASE Merge(i)
    <2>1. CASE isGit
      <3>1. /\ pc' = [pc EXCEPT ![i] = "persistBase"] /\ base' = [base EXCEPT ![i] = tip]
            /\ pinned' = [pinned EXCEPT ![i] = tip] /\ UNCHANGED source
        BY <1>3, <2>1 DEF Merge, PinAs
      <3> QED
        BY <1>3, <3>1 DEF Merge, DiffTypeOK
    <2>2. CASE ~isGit
      <3>1. /\ FailOver(i)
            /\ UNCHANGED <<turns, tree, tip, isGit, diskBase, diskDiff, lastActive, base, live, hasSnap,
                          cache, inbox, dirty, pinned, output, existing, reading, computed,
                          unwritten, overtaken, starts>>
        BY <1>3, <2>2 DEF Merge
      <3> QED
        BY <3>1, FailOverTyped DEF DiffTypeOK
    <2> QED
      BY <2>1, <2>2
  <1>4. CASE PersistBase(i)
    BY <1>4 DEF PersistBase, DiffTypeOK
  <1> QED
    BY <1>1, <1>2, <1>3, <1>4

\* And from the base to the mark.
LEMMA RefreshTyped ==
  ASSUME TypeInv, NEW i \in Instances,
         ReadSnapshot(i) \/ GitDiff(i) \/ Update(i) \/ Persist(i) \/ Mark(i)
  PROVE  TypeInv'
  <1> USE DEF TypeInv, HasBase, world, stateDir, memory, watcher, refresh, history, Goto,
          ShowLive, Labels
  <1>1. CASE ReadSnapshot(i)
    BY <1>1 DEF ReadSnapshot, DiffTypeOK
  <1>2. CASE GitDiff(i)
    <2>1. pinned[i] \in 1 .. MaxTip
      BY <1>2 DEF GitDiff, DiffTypeOK, Bases, NoBase
    <2>2. [text |-> GitText(pinned[i]), asOf |-> turns] \in Diffs
      BY <2>1, GitTextType DEF DiffTypeOK, Diffs
    <2>3. CASE isGit
      <3>1. /\ pc' = [pc EXCEPT ![i] = "update"] /\ UNCHANGED source /\ computed' = turns
            /\ output' = [output EXCEPT ![i] = [text |-> GitText(pinned[i]), asOf |-> turns]]
        BY <1>2, <2>3 DEF GitDiff
      <3> QED
        BY <1>2, <2>2, <3>1 DEF GitDiff, DiffTypeOK
    <2>4. CASE ~isGit
      BY <1>2, <2>4, FailOverTyped DEF GitDiff, DiffTypeOK
    <2> QED
      BY <2>3, <2>4
  <1>3. CASE Update(i)
    BY <1>3 DEF Update, DiffTypeOK
  <1>4. CASE Persist(i)
    <2>1. [diff |-> IF output[i].text = existing[i].text THEN diskDiff.diff ELSE output[i],
           at |-> turns] \in [diff : Diffs, at : 0 .. MaxTurns]
      BY DEF DiffTypeOK
    <2>2. diskDiff' \in [diff : Diffs, at : 0 .. MaxTurns] /\ unwritten' \in BOOLEAN
      BY <1>4, <2>1 DEF Persist, DiffTypeOK
    <2>3. pc' = [pc EXCEPT ![i] = "mark"] \/ pc' = [pc EXCEPT ![i] = "none"]
      BY <1>4 DEF Persist
    <2>4. pc' \in [Instances -> Labels] /\ \A j \in Instances : HasBase(j)'
      BY <1>4, <2>3 DEF Persist, DiffTypeOK
    <2> QED
      BY <1>4, <2>2, <2>4 DEF Persist, DiffTypeOK
  <1>5. CASE Mark(i)
    BY <1>5 DEF Mark, DiffTypeOK
  <1> QED
    BY <1>1, <1>2, <1>3, <1>4, <1>5

\* Reading, eviction and a restart.
LEMMA ReadTyped ==
  ASSUME TypeInv, NEW i \in Instances, BeginRead(i) \/ FinishRead(i) \/ Evict(i) \/ Restart(i)
  PROVE  TypeInv'
  <1> USE NoDiffType DEF TypeInv, HasBase, world, stateDir, memory, watcher, refresh, history, Goto
  <1>1. CASE BeginRead(i)
    BY <1>1 DEF BeginRead, DiffTypeOK
  <1>2. CASE FinishRead(i)
    BY <1>2 DEF FinishRead, DiffTypeOK
  <1>3. CASE Evict(i)
    BY <1>3 DEF Evict, DiffTypeOK
  <1>4. CASE Restart(i)
    <2>1. /\ lastActive' \in [Instances -> 0 .. MaxTurns] /\ base' \in [Instances -> Bases]
          /\ live' \in [Instances -> Diffs]
          /\ source' \in [Instances -> {"none", "live", "snapshot"}]
      BY <1>4 DEF Restart, DiffTypeOK, Bases, NoBase
    <2>2. /\ hasSnap' \in [Instances -> BOOLEAN] /\ cache' \in [Instances -> Diffs]
          /\ dirty' \in [Instances -> BOOLEAN] /\ reading' \in [Instances -> Diffs]
          /\ overtaken' \in [Instances -> BOOLEAN] /\ starts' \in [Instances -> 0 .. MaxStarts]
      BY <1>4 DEF Restart, DiffTypeOK
    <2>3. \A j \in Instances : inbox'[j] \in Seq({"turn", "other"}) /\ Len(inbox'[j]) <= Buffer
      BY <1>4 DEF Restart, DiffTypeOK
    <2>4. /\ pc' = [pc EXCEPT ![i] = "none"]
          /\ UNCHANGED <<world, stateDir, pinned, output, existing, computed, unwritten>>
      BY <1>4 DEF Restart
    <2> QED
      BY <2>1, <2>2, <2>3, <2>4 DEF DiffTypeOK
  <1> QED
    BY <1>1, <1>2, <1>3, <1>4

LEMMA NextTypeInv == TypeInv /\ [DiffNext]_diffVars => TypeInv'
  <1> SUFFICES ASSUME TypeInv, [DiffNext]_diffVars PROVE TypeInv'
    OBVIOUS
  <1>1. CASE Turn \/ MoveTarget \/ LoseGit
    BY <1>1, WorldTyped
  <1>2. ASSUME NEW i \in Instances, InstanceStep(i) PROVE TypeInv'
    BY <1>2, EventsTyped, PinTyped, RefreshTyped DEF InstanceStep, RefreshStep
  <1>3. ASSUME NEW i \in Instances,
               Noise(i) \/ BeginRead(i) \/ FinishRead(i) \/ Evict(i) \/ Restart(i)
        PROVE  TypeInv'
    BY <1>3, EventsTyped, ReadTyped
  <1>4. CASE UNCHANGED diffVars
    BY <1>4 DEF TypeInv, HasBase, DiffTypeOK, diffVars, world, stateDir, memory, watcher, refresh,
       history
  <1> QED
    BY <1>1, <1>2, <1>3, <1>4 DEF DiffNext

\* The watcher, its refreshes and the shared files keep their types, for any instances.
THEOREM DiffTypeCorrect == DiffSpec => []DiffTypeOK
  <1>1. TypeInv => DiffTypeOK
    BY DEF TypeInv
  <1> QED
    BY <1>1, InitTypeInv, NextTypeInv, PTL DEF DiffSpec

-----------------------------------------------------------------------------
(* The snapshot, with any number of instances.                               *)

HasWork == diskDiff.diff.text # Empty

\* An instance knows of a snapshot, or found one, only where there is one; what it persists
\* and marks is work.
SnapshotKnown(i) ==
  /\ hasSnap[i] => HasWork
  /\ pc[i] \in {"diff", "update", "persist"} /\ existing[i].text # Empty => HasWork
  /\ pc[i] \in {"persist", "mark"} => output[i].text # Empty
  /\ pc[i] = "mark" => HasWork

SnapInv ==
  /\ TypeInv /\ (~HasWork => diskDiff = NoSnapshot)
  /\ \A i \in Instances : SnapshotKnown(i)

\* The functions that the steps of an instance change.
LEMMA SnapTyped ==
  ASSUME SnapInv
  PROVE  /\ pc \in [Instances -> Labels] /\ hasSnap \in [Instances -> BOOLEAN]
         /\ output \in [Instances -> Diffs] /\ existing \in [Instances -> Diffs]
  BY DEF SnapInv, TypeInv, DiffTypeOK, Labels

\* A step that leaves the state directory and the memory of what is in it.
LEMMA SnapStays ==
  ASSUME SnapInv, TypeInv', UNCHANGED <<diskDiff, existing, output>>,
         \A i \in Instances : hasSnap'[i] => hasSnap[i],
         \A i \in Instances : pc'[i] = pc[i] \/ pc'[i] \notin {"diff", "update", "persist", "mark"}
  PROVE  SnapInv'
  BY DEF SnapInv, SnapshotKnown, HasWork

LEMMA InitSnapInv == DiffInit => SnapInv
  <1> SUFFICES ASSUME DiffInit PROVE SnapInv
    OBVIOUS
  <1>1. TypeInv
    BY InitTypeInv
  <1>2. diskDiff = NoSnapshot
    BY DEF DiffInit
  <1>3. ASSUME NEW i \in Instances PROVE SnapshotKnown(i)
    <2>1. ~hasSnap[i] /\ pc[i] = "none"
      BY DEF DiffInit
    <2> QED
      BY <2>1 DEF SnapshotKnown
  <1> QED
    BY <1>1, <1>2, <1>3 DEF SnapInv

\* Ingest: a session that the state directory knows.
LEMMA IngestSnap ==
  ASSUME SnapInv, TypeInv', NEW i \in Instances, Ingest(i)
  PROVE  SnapInv'
  <1>1. UNCHANGED <<diskDiff, existing, output, pc>>
    BY DEF Ingest, stateDir, refresh
  <1>2. CASE lastActive[i] = 0
    <2>1. hasSnap' = [hasSnap EXCEPT ![i] = diskDiff # NoSnapshot]
      BY <1>2 DEF Ingest, Hydrated
    <2>2. \A j \in Instances : hasSnap'[j] => hasSnap[j] \/ diskDiff # NoSnapshot
      BY <2>1 DEF SnapInv, TypeInv, DiffTypeOK
    <2> QED
      BY <1>1, <2>2 DEF SnapInv, SnapshotKnown, HasWork
  <1>3. CASE lastActive[i] # 0
    <2>1. UNCHANGED hasSnap
      BY <1>3 DEF Ingest
    <2> QED
      BY <1>1, <2>1, SnapStays
  <1> QED
    BY <1>2, <1>3

\* readSnapshot: what was read is on disk.
LEMMA ReadSnap ==
  ASSUME SnapInv, TypeInv', NEW i \in Instances, ReadSnapshot(i)
  PROVE  SnapInv'
  <1>1. UNCHANGED <<diskDiff, hasSnap>>
    BY DEF ReadSnapshot, stateDir
  <1>2. existing' = [existing EXCEPT ![i] = diskDiff.diff]
    BY DEF ReadSnapshot
  <1>3. /\ existing'[i] = diskDiff.diff
        /\ \A j \in Instances : j # i => existing'[j] = existing[j]
    BY <1>2, SnapTyped
  <1>4. CASE IsFresh(i)
    <2>1. pc' = [pc EXCEPT ![i] = "mark"] /\ output' = [output EXCEPT ![i] = diskDiff.diff]
      BY <1>4 DEF ReadSnapshot, Goto
    <2>2. /\ pc'[i] = "mark" /\ output'[i] = diskDiff.diff
          /\ \A j \in Instances : j # i => pc'[j] = pc[j] /\ output'[j] = output[j]
      BY <2>1, SnapTyped
    <2>3. HasWork
      BY <1>4 DEF IsFresh, SnapInv
    <2> QED
      BY <1>1, <1>3, <2>2, <2>3 DEF SnapInv, SnapshotKnown, HasWork
  <1>5. CASE ~IsFresh(i)
    <2>1. pc' = [pc EXCEPT ![i] = "diff"] /\ UNCHANGED output
      BY <1>5 DEF ReadSnapshot, Goto
    <2>2. pc'[i] = "diff" /\ \A j \in Instances : j # i => pc'[j] = pc[j]
      BY <2>1, SnapTyped
    <2> QED
      BY <1>1, <1>3, <2>1, <2>2 DEF SnapInv, SnapshotKnown, HasWork
  <1> QED
    BY <1>4, <1>5

\* git diff and UpdateDiff: only work goes on to be persisted.
LEMMA DiffSnap ==
  ASSUME SnapInv, TypeInv', NEW i \in Instances, GitDiff(i) \/ Update(i)
  PROVE  SnapInv'
  <1>1. UNCHANGED <<diskDiff, hasSnap, existing>>
    BY DEF GitDiff, Update, stateDir
  <1>2. CASE GitDiff(i) /\ isGit
    <2>1. /\ pc[i] = "diff" /\ pc' = [pc EXCEPT ![i] = "update"]
          /\ output' = [output EXCEPT ![i] = [text |-> GitText(pinned[i]), asOf |-> turns]]
      BY <1>2 DEF GitDiff, Goto
    <2>2. /\ pc'[i] = "update"
          /\ \A j \in Instances : j # i => pc'[j] = pc[j] /\ output'[j] = output[j]
      BY <2>1, SnapTyped
    <2> QED
      BY <1>1, <2>1, <2>2 DEF SnapInv, SnapshotKnown, HasWork
  <1>3. CASE GitDiff(i) /\ ~isGit
    <2>1. pc' = [pc EXCEPT ![i] = "none"] /\ UNCHANGED output
      BY <1>3 DEF GitDiff, FailOver, Goto
    <2>2. \A j \in Instances : pc'[j] = pc[j] \/ pc'[j] = "none"
      BY <2>1, SnapTyped
    <2> QED
      BY <1>1, <2>1, <2>2 DEF SnapInv, SnapshotKnown, HasWork
  <1>4. CASE Update(i)
    <2>1. /\ pc[i] = "update" /\ UNCHANGED output
          /\ pc' = [pc EXCEPT ![i] = IF output[i].text # Empty THEN "persist" ELSE "none"]
      BY <1>4 DEF Update, Goto, Persists
    <2>2. /\ (pc'[i] = "persist" /\ output[i].text # Empty) \/ pc'[i] = "none"
          /\ \A j \in Instances : j # i => pc'[j] = pc[j]
      BY <2>1, SnapTyped
    <2> QED
      BY <1>1, <2>1, <2>2 DEF SnapInv, SnapshotKnown, HasWork
  <1> QED
    BY <1>2, <1>3, <1>4

\* persistSnapshot: a snapshot with work is replaced by one with work.
LEMMA PersistSnap ==
  ASSUME SnapInv, TypeInv', NEW i \in Instances, Persist(i)
  PROVE  SnapInv'
  <1>1. pc[i] = "persist" /\ UNCHANGED <<hasSnap, existing, output>>
    BY DEF Persist, memory
  <1>2. CASE UNCHANGED diskDiff /\ pc' = [pc EXCEPT ![i] = "none"]
    <2>1. \A j \in Instances : pc'[j] = pc[j] \/ pc'[j] = "none"
      BY <1>2, SnapTyped
    <2> QED
      BY <1>1, <1>2, <2>1 DEF SnapInv, SnapshotKnown, HasWork
  <1>3. CASE /\ diskDiff' = [diff |-> IF output[i].text = existing[i].text THEN diskDiff.diff ELSE output[i],
                             at |-> turns]
             /\ pc' = [pc EXCEPT ![i] = "mark"]
    <2>1. output[i].text # Empty /\ (existing[i].text # Empty => HasWork)
      BY <1>1 DEF SnapInv, SnapshotKnown
    <2>2. HasWork'
      BY <1>3, <2>1 DEF HasWork
    <2>3. pc'[i] = "mark" /\ \A j \in Instances : j # i => pc'[j] = pc[j]
      BY <1>3, SnapTyped
    <2> QED
      BY <1>1, <2>1, <2>2, <2>3 DEF SnapInv, SnapshotKnown
  <1> QED
    BY <1>2, <1>3 DEF Persist, Goto

\* MarkSnapshotPersisted.
LEMMA MarkSnap ==
  ASSUME SnapInv, TypeInv', NEW i \in Instances, Mark(i)
  PROVE  SnapInv'
  <1>1. /\ pc[i] = "mark" /\ pc' = [pc EXCEPT ![i] = "none"]
        /\ hasSnap' = [hasSnap EXCEPT ![i] = TRUE] /\ UNCHANGED <<diskDiff, existing, output>>
    BY DEF Mark, Goto, stateDir
  <1>2. HasWork
    BY <1>1 DEF SnapInv, SnapshotKnown
  <1>3. \A j \in Instances : pc'[j] = pc[j] \/ pc'[j] = "none"
    BY <1>1, SnapTyped
  <1> QED
    BY <1>1, <1>2, <1>3 DEF SnapInv, SnapshotKnown, HasWork

\* Where the steps up to the base go.
LEMMA PinMoves ==
  ASSUME NEW i \in Instances, Start(i) \/ Pin(i) \/ Merge(i)
  PROVE  \E label \in {"none", "pin", "read", "merge", "persistBase"} : pc' = [pc EXCEPT ![i] = label]
  <1>1. CASE Start(i)
    <2>1. pc' = [pc EXCEPT ![i] = "none"] \/ pc' = [pc EXCEPT ![i] = IF base[i] = NoBase THEN "pin" ELSE "read"]
      BY <1>1 DEF Start, Goto, FailOver
    <2> QED
      BY <2>1
  <1>2. CASE Pin(i)
    <2>1. pc' = [pc EXCEPT ![i] = "read"] \/ pc' = [pc EXCEPT ![i] = "merge"]
      BY <1>2 DEF Pin, Goto
    <2> QED
      BY <2>1
  <1>3. CASE Merge(i)
    <2>1. pc' = [pc EXCEPT ![i] = "none"] \/ pc' = [pc EXCEPT ![i] = "persistBase"]
      BY <1>3 DEF Merge, Goto, FailOver
    <2> QED
      BY <2>1
  <1> QED
    BY <1>1, <1>2, <1>3

\* And where the steps after it go.
LEMMA ReadMoves ==
  ASSUME NEW i \in Instances, ReadSnapshot(i) \/ GitDiff(i) \/ Update(i) \/ Persist(i) \/ Mark(i)
  PROVE  \E label \in {"none", "diff", "update", "persist", "mark"} : pc' = [pc EXCEPT ![i] = label]
  <1>1. CASE ReadSnapshot(i)
    <2>1. pc' = [pc EXCEPT ![i] = "mark"] \/ pc' = [pc EXCEPT ![i] = "diff"]
      BY <1>1 DEF ReadSnapshot, Goto
    <2> QED
      BY <2>1
  <1>2. CASE GitDiff(i)
    <2>1. pc' = [pc EXCEPT ![i] = "update"] \/ pc' = [pc EXCEPT ![i] = "none"]
      BY <1>2 DEF GitDiff, Goto, FailOver
    <2> QED
      BY <2>1
  <1>3. CASE Update(i)
    <2>1. pc' = [pc EXCEPT ![i] = IF Persists(i) THEN "persist" ELSE "none"]
      BY <1>3 DEF Update, Goto
    <2> QED
      BY <2>1
  <1>4. CASE Persist(i)
    <2>1. pc' = [pc EXCEPT ![i] = "mark"] \/ pc' = [pc EXCEPT ![i] = "none"]
      BY <1>4 DEF Persist, Goto
    <2> QED
      BY <2>1
  <1>5. CASE Mark(i)
    BY <1>5 DEF Mark, Goto
  <1> QED
    BY <1>1, <1>2, <1>3, <1>4, <1>5

\* The other steps leave the snapshot and what is known of it.
LEMMA OthersSnap ==
  ASSUME SnapInv, TypeInv', NEW i \in Instances,
         \/ Noise(i) \/ Receive(i) \/ Tick(i) \/ Start(i) \/ Pin(i) \/ Merge(i) \/ PersistBase(i)
         \/ BeginRead(i) \/ FinishRead(i) \/ Evict(i) \/ Restart(i)
  PROVE  SnapInv'
  <1>1. UNCHANGED <<diskDiff, existing, output>>
    BY DEF Noise, Receive, Tick, Start, Pin, Merge, PersistBase, BeginRead, FinishRead, Evict,
       Restart, stateDir, refresh
  <1>2. \A j \in Instances : hasSnap'[j] => hasSnap[j]
    <2>1. CASE Restart(i)
      <3>1. hasSnap' = [hasSnap EXCEPT ![i] = FALSE]
        BY <2>1 DEF Restart
      <3> QED
        BY <3>1, SnapTyped
    <2>2. CASE ~Restart(i)
      <3>1. UNCHANGED hasSnap
        BY <2>2 DEF Noise, Receive, Tick, Start, Pin, Merge, PersistBase, BeginRead, FinishRead,
           Evict, memory
      <3> QED
        BY <3>1
    <2> QED
      BY <2>1, <2>2
  <1>3. \A j \in Instances : pc'[j] = pc[j] \/ pc'[j] \notin {"diff", "update", "persist", "mark"}
    <2>1. CASE Noise(i) \/ Receive(i) \/ BeginRead(i) \/ FinishRead(i) \/ Evict(i)
      BY <2>1 DEF Noise, Receive, BeginRead, FinishRead, Evict, refresh
    <2>2. CASE Tick(i)
      BY <2>2, SnapTyped DEF Tick
    <2>3. CASE Start(i) \/ Pin(i) \/ Merge(i) \/ PersistBase(i) \/ Restart(i)
      <3>1. PICK label \in {"none", "pin", "read", "merge", "persistBase"} :
              pc' = [pc EXCEPT ![i] = label]
        BY <2>3, PinMoves DEF PersistBase, Restart, Goto
      <3> QED
        BY <3>1, SnapTyped
    <2> QED
      BY <2>1, <2>2, <2>3
  <1> QED
    BY <1>1, <1>2, <1>3, SnapStays

LEMMA NextSnapInv == SnapInv /\ [DiffNext]_diffVars => SnapInv'
  <1> SUFFICES ASSUME SnapInv, [DiffNext]_diffVars PROVE SnapInv'
    OBVIOUS
  <1>0. TypeInv'
    BY NextTypeInv DEF SnapInv
  <1>1. CASE Turn \/ MoveTarget \/ LoseGit \/ UNCHANGED diffVars
    <2>1. UNCHANGED <<diskDiff, existing, output, hasSnap, pc>>
      BY <1>1 DEF Turn, MoveTarget, LoseGit, diffVars, stateDir, refresh, memory
    <2> QED
      BY <1>0, <2>1, SnapStays
  <1>2. ASSUME NEW i \in Instances, InstanceStep(i) PROVE SnapInv'
    BY <1>0, <1>2, IngestSnap, ReadSnap, DiffSnap, PersistSnap, MarkSnap, OthersSnap
       DEF InstanceStep, RefreshStep
  <1>3. ASSUME NEW i \in Instances,
               Noise(i) \/ BeginRead(i) \/ FinishRead(i) \/ Evict(i) \/ Restart(i)
        PROVE  SnapInv'
    BY <1>0, <1>3, OthersSnap
  <1> QED
    BY <1>1, <1>2, <1>3 DEF DiffNext

\* Whatever instances share the state directory, and whichever writes fail: a session that
\* is said to have a snapshot has one with work in it (MarkSnapshotPersisted,
\* hydrateFromState).
THEOREM SnapshotExistsCorrect == DiffSpec => []SnapshotExists
  <1>1. SnapInv => SnapshotExists
    BY DEF SnapInv, SnapshotKnown, HasWork, SnapshotExists
  <1> QED
    BY <1>1, InitSnapInv, NextSnapInv, PTL DEF DiffSpec

-----------------------------------------------------------------------------
(* A state directory of one instance's own.                                  *)

OneInstance == \A i, j \in Instances : i = j

\* A merge-base is taken only where there is no base on disk.
BaseInv == TypeInv /\ \A i \in Instances : pc[i] \in {"merge", "persistBase"} => diskBase = NoBase

LEMMA InitBaseInv == DiffInit => BaseInv
  BY InitTypeInv DEF DiffInit, BaseInv

\* Every step keeps a base that is on disk.
LEMMA NextBaseInv ==
  ASSUME OneInstance
  PROVE  BaseInv /\ [DiffNext]_diffVars => BaseInv' /\ (diskBase # NoBase => diskBase' = diskBase)
  <1> SUFFICES ASSUME BaseInv, [DiffNext]_diffVars
               PROVE  BaseInv' /\ (diskBase # NoBase => diskBase' = diskBase)
    OBVIOUS
  <1> DEFINE Kept == BaseInv' /\ (diskBase # NoBase => diskBase' = diskBase)
  <1>0. TypeInv'
    BY NextTypeInv DEF BaseInv
  <1>1. ASSUME UNCHANGED diskBase,
               \A i \in Instances : pc'[i] = pc[i] \/ pc'[i] \notin {"merge", "persistBase"}
        PROVE  Kept
    BY <1>0, <1>1 DEF BaseInv
  <1>2. CASE Turn \/ MoveTarget \/ LoseGit \/ UNCHANGED diffVars
    BY <1>1, <1>2 DEF Turn, MoveTarget, LoseGit, diffVars, stateDir, refresh
  <1>3. ASSUME NEW i \in Instances,
               \/ Noise(i) \/ Ingest(i) \/ Receive(i) \/ Tick(i) \/ Restart(i)
               \/ BeginRead(i) \/ FinishRead(i) \/ Evict(i)
        PROVE  Kept
    <2>1. UNCHANGED diskBase
      BY <1>3 DEF Noise, Ingest, Receive, Tick, Restart, BeginRead, FinishRead, Evict, stateDir
    <2>2. CASE Tick(i) \/ Restart(i)
      <3>1. PICK label \in {"none", "start", pc[i]} : pc' = [pc EXCEPT ![i] = label]
        BY <2>2 DEF Tick, Restart, Goto
      <3>2. \A j \in Instances : pc'[j] = pc[j] \/ pc'[j] \in {"none", "start"}
        BY <3>1 DEF BaseInv, TypeInv, DiffTypeOK
      <3> QED
        BY <2>1, <3>2, <1>1
    <2>3. CASE Noise(i) \/ Ingest(i) \/ Receive(i) \/ BeginRead(i) \/ FinishRead(i) \/ Evict(i)
      BY <2>3, <2>1, <1>1 DEF Noise, Ingest, Receive, BeginRead, FinishRead, Evict, refresh
    <2> QED
      BY <1>3, <2>2, <2>3
  <1>4. ASSUME NEW i \in Instances, RefreshStep(i) PROVE Kept
    <2>0. pc \in [Instances -> Labels] /\ TypeInv'
      BY <1>0 DEF BaseInv, TypeInv, DiffTypeOK, Labels
    <2>1. CASE Start(i)
      <3>1. pc' = [pc EXCEPT ![i] = "none"] \/ pc' = [pc EXCEPT ![i] = IF base[i] = NoBase THEN "pin" ELSE "read"]
        BY <2>1 DEF Start, Goto, FailOver
      <3>2. \A j \in Instances : pc'[j] = pc[j] \/ pc'[j] \in {"none", "pin", "read"}
        BY <3>1, <2>0
      <3>3. UNCHANGED diskBase
        BY <2>1 DEF Start, stateDir
      <3> QED
        BY <3>2, <3>3, <1>1
    <2>2. CASE Pin(i)
      <3>1. /\ UNCHANGED diskBase
            /\ \/ pc' = [pc EXCEPT ![i] = "read"]
               \/ diskBase = NoBase /\ pc' = [pc EXCEPT ![i] = "merge"]
        BY <2>2 DEF Pin, Goto, stateDir
      <3>2. \A j \in Instances : pc'[j] = pc[j] \/ pc'[j] = "read" \/ diskBase = NoBase
        BY <3>1, <2>0
      <3> QED
        BY <2>0, <3>1, <3>2 DEF BaseInv
    <2>3. CASE Merge(i)
      <3>1. /\ UNCHANGED diskBase /\ pc[i] = "merge"
            /\ \/ pc' = [pc EXCEPT ![i] = "none"]
               \/ pc' = [pc EXCEPT ![i] = "persistBase"]
        BY <2>3 DEF Merge, Goto, FailOver, stateDir
      <3>2. diskBase = NoBase
        BY <3>1 DEF BaseInv
      <3> QED
        BY <2>0, <3>1, <3>2 DEF BaseInv
    <2>4. CASE PersistBase(i)
      <3>1. pc[i] = "persistBase" /\ pc' = [pc EXCEPT ![i] = "read"]
        BY <2>4 DEF PersistBase, Goto
      <3>2. \A j \in Instances : pc'[j] = "read"
        BY <2>0, <3>1, OneInstance DEF OneInstance
      <3> QED
        BY <2>0, <3>1, <3>2 DEF BaseInv
    <2>5. CASE ReadSnapshot(i) \/ GitDiff(i) \/ Update(i) \/ Persist(i) \/ Mark(i)
      <3>1. UNCHANGED diskBase
        BY <2>5 DEF ReadSnapshot, GitDiff, Update, Persist, Mark, stateDir
      <3>2. PICK label \in {"none", "diff", "update", "persist", "mark"} : pc' = [pc EXCEPT ![i] = label]
        BY <2>5, ReadMoves
      <3>3. \A j \in Instances : pc'[j] = pc[j] \/ pc'[j] = label
        BY <2>0, <3>2
      <3> QED
        BY <3>1, <3>3, <1>1
    <2> QED
      BY <1>4, <2>1, <2>2, <2>3, <2>4, <2>5 DEF RefreshStep
  <1> QED
    BY <1>2, <1>3, <1>4 DEF DiffNext, InstanceStep

\* Merges and restarts do not move the base of a state directory that one instance uses.
THEOREM BaseStaysCorrect ==
  ASSUME OneInstance
  PROVE  DiffSpec => BaseStays
  <1>1. BaseInv /\ [DiffNext]_diffVars => BaseInv'
    BY NextBaseInv
  <1>2. BaseInv /\ [DiffNext]_diffVars => [diskBase # NoBase => diskBase' = diskBase]_diffVars
    BY NextBaseInv
  <1> QED
    BY <1>1, <1>2, InitBaseInv, PTL DEF DiffSpec, BaseStays

-----------------------------------------------------------------------------
\* What a refresh holds is what is on disk, and so is what was shown, is cached, or is
\* being read, but for what a failed write or a late read excuses.
Work(i) ==
  /\ pc[i] \in {"diff", "update", "persist"} => existing[i] = diskDiff.diff
  /\ pc[i] = "persist" => live[i].text = output[i].text
  /\ pc[i] = "mark" => output[i].text = diskDiff.diff.text
  /\ ~unwritten /\ live[i].text # Empty /\ pc[i] # "persist" => diskDiff.diff.text = live[i].text
  /\ ~unwritten /\ source[i] = "snapshot" => HasWork
  /\ cache[i] # NoDiff /\ ~overtaken[i] /\ pc[i] # "mark" => cache[i].text = diskDiff.diff.text
  /\ reading[i] # NoDiff /\ ~overtaken[i] /\ pc[i] # "mark" => reading[i].text = diskDiff.diff.text

\* git diff is run only where the snapshot is older than the last turn, and a snapshot
\* that is not is no older than what is shown.
Age(i) ==
  /\ live[i].asOf <= turns /\ output[i].asOf <= turns /\ diskDiff.diff.asOf <= turns
  /\ pc[i] \in {"diff", "update", "persist"} => ~IsFresh(i)
  /\ pc[i] = "update" => output[i].asOf >= live[i].asOf
  /\ source[i] = "live" /\ IsFresh(i) =>
       diskDiff.diff.text = live[i].text \/ diskDiff.diff.asOf >= live[i].asOf

OwnInv == SnapInv /\ \A i \in Instances : Work(i) /\ Age(i)

\* The types of what the steps of an instance read.
LEMMA OwnTyped ==
  ASSUME SnapInv, NEW i \in Instances
  PROVE  /\ turns \in Nat /\ diskDiff.diff.asOf \in Nat /\ diskDiff.at \in Nat
         /\ live[i].asOf \in Nat /\ output[i].asOf \in Nat /\ lastActive[i] \in Nat
         /\ SnapshotKnown(i) /\ (~HasWork => diskDiff = NoSnapshot)
  BY DEF SnapInv, TypeInv, DiffTypeOK, Diffs

LEMMA InitOwnInv == DiffInit => OwnInv
  <1> SUFFICES ASSUME DiffInit PROVE OwnInv
    OBVIOUS
  <1>1. SnapInv
    BY InitSnapInv
  <1>2. ASSUME NEW i \in Instances PROVE Work(i) /\ Age(i)
    <2>1. /\ pc[i] = "none" /\ source[i] = "none" /\ diskDiff = NoSnapshot /\ turns = 0
          /\ live[i] = NoDiff /\ output[i] = NoDiff /\ cache[i] = NoDiff /\ reading[i] = NoDiff
      BY DEF DiffInit
    <2>2. NoDiff.text = Empty /\ NoDiff.asOf = 0 /\ NoSnapshot.diff = NoDiff
      BY DEF NoDiff, NoSnapshot
    <2> QED
      BY <2>1, <2>2 DEF Work, Age
  <1> QED
    BY <1>1, <1>2 DEF OwnInv

\* A turn, a merge and the loss of the worktree.
LEMMA WorldOwn ==
  ASSUME OwnInv, NEW i \in Instances, Turn \/ MoveTarget \/ LoseGit \/ UNCHANGED diffVars
  PROVE  Work(i)' /\ Age(i)'
  <1>1. /\ UNCHANGED <<diskDiff, lastActive, live, source, cache, pc, output, existing, reading,
                       unwritten, overtaken>>
        /\ turns' = turns \/ turns' = turns + 1
    BY DEF Turn, MoveTarget, LoseGit, diffVars, world, stateDir, memory, refresh, history
  <1> QED
    BY <1>1, OwnTyped DEF OwnInv, Work, Age, HasWork, IsFresh

\* The events, a tick, and a turn that is read: what was fresh may no longer be.
LEMMA EventsOwn ==
  ASSUME OwnInv, NEW i \in Instances, Noise(i) \/ Ingest(i) \/ Receive(i) \/ Tick(i)
  PROVE  Work(i)' /\ Age(i)'
  <1> USE DEF OwnInv, SnapInv, TypeInv, DiffTypeOK
  <1>1. CASE Noise(i) \/ Receive(i)
    <2>1. UNCHANGED <<turns, diskDiff, lastActive, live, source, cache, pc, output, existing, reading,
                      unwritten, overtaken>>
      BY <1>1 DEF Noise, Receive, world, stateDir, memory, refresh, history
    <2> QED
      BY <2>1 DEF Work, Age, HasWork, IsFresh
  <1>2. CASE Tick(i)
    <2>1. UNCHANGED <<turns, diskDiff, lastActive, live, source, cache, output, existing, reading,
                      unwritten, overtaken>>
      BY <1>2 DEF Tick, world, stateDir, memory, history
    <2>2. pc' = [pc EXCEPT ![i] = IF pc[i] = "none" THEN "start" ELSE pc[i]]
      BY <1>2 DEF Tick
    <2>3. CASE pc[i] = "none"
      <3>1. pc'[i] = "start"
        BY <2>2, <2>3
      <3> QED
        BY <2>1, <2>3, <3>1 DEF Work, Age, HasWork, IsFresh
    <2>4. CASE pc[i] # "none"
      <3>1. pc'[i] = pc[i]
        BY <2>2, <2>4
      <3> QED
        BY <2>1, <3>1 DEF Work, Age, HasWork, IsFresh
    <2> QED
      BY <2>3, <2>4
  <1>3. CASE Ingest(i)
    <2>1. /\ UNCHANGED <<turns, diskDiff, live, cache, pc, output, existing, reading, unwritten, overtaken>>
          /\ lastActive'[i] = lastActive[i] + 1
      BY <1>3 DEF Ingest, world, stateDir, refresh, history
    <2>2. IsFresh(i)' => IsFresh(i)
      BY <2>1, OwnTyped DEF IsFresh
    <2>3. source'[i] \in {source[i], "none"} \/ (source'[i] = "snapshot" /\ diskDiff # NoSnapshot)
      <3>1. \/ UNCHANGED source
            \/ source' = [source EXCEPT ![i] = IF diskDiff # NoSnapshot THEN "snapshot" ELSE "none"]
        BY <1>3 DEF Ingest, Hydrated
      <3> QED
        BY <3>1
    <2>4. diskDiff # NoSnapshot => HasWork
      BY NoDiffType DEF HasWork, SnapInv
    <2> QED
      BY <2>1, <2>2, <2>3, <2>4 DEF Work, Age, HasWork
  <1> QED
    BY <1>1, <1>2, <1>3

\* A refresh that fails over serves the snapshot only where there is one.
LEMMA FailOverOwn ==
  ASSUME OwnInv, NEW i \in Instances, FailOver(i), pc[i] \in {"start", "merge", "diff"},
         UNCHANGED <<turns, diskDiff, lastActive, live, cache, output, existing, reading, unwritten,
                     overtaken>>
  PROVE  Work(i)' /\ Age(i)'
  <1> USE DEF OwnInv, SnapInv, TypeInv, DiffTypeOK
  <1>1. pc'[i] = "none"
    BY DEF FailOver, Goto
  <1>2. \/ source'[i] = source[i]
        \/ source'[i] = "snapshot" /\ (live[i].text # Empty \/ hasSnap[i])
    <2>1. source' = [source EXCEPT ![i] = IF live[i].text = Empty /\ ~hasSnap[i] THEN source[i] ELSE "snapshot"]
      BY DEF FailOver
    <2> QED
      BY <2>1
  <1>3. ~unwritten /\ (live[i].text # Empty \/ hasSnap[i]) => HasWork
    BY OwnTyped DEF Work, SnapshotKnown, HasWork
  <1> QED
    BY <1>1, <1>2, <1>3 DEF Work, Age, HasWork, IsFresh

\* The steps up to the base.
LEMMA PinOwn ==
  ASSUME OwnInv, NEW i \in Instances, Start(i) \/ Pin(i) \/ Merge(i) \/ PersistBase(i)
  PROVE  Work(i)' /\ Age(i)'
  <1> USE DEF OwnInv, SnapInv, TypeInv, DiffTypeOK
  <1>1. /\ pc[i] \in {"start", "pin", "merge", "persistBase"}
        /\ UNCHANGED <<turns, diskDiff, lastActive, live, cache, output, existing, reading, unwritten,
                       overtaken>>
    BY DEF Start, Pin, Merge, PersistBase, world, stateDir, memory, history
  <1>2. CASE FailOver(i) /\ pc[i] \in {"start", "merge"}
    BY <1>1, <1>2, FailOverOwn
  <1>3. CASE UNCHANGED source /\ \E label \in {"pin", "read", "merge", "persistBase"} : Goto(i, label)
    <2>1. pc'[i] \in {"pin", "read", "merge", "persistBase"}
      BY <1>3 DEF Goto
    <2> QED
      BY <1>1, <1>3, <2>1 DEF Work, Age, HasWork, IsFresh
  <1>4. CASE Start(i)
    BY <1>2, <1>3, <1>4 DEF Start
  <1>5. CASE Pin(i) \/ PersistBase(i)
    BY <1>3, <1>5 DEF Pin, PersistBase, memory
  <1>6. CASE Merge(i)
    BY <1>2, <1>3, <1>6 DEF Merge
  <1> QED
    BY <1>4, <1>5, <1>6

\* readSnapshot.
LEMMA ReadOwn ==
  ASSUME OwnInv, NEW i \in Instances, ReadSnapshot(i)
  PROVE  /\ Work(i)' /\ Age(i)'
         /\ source[i] = "live" /\ source'[i] = "live" =>
              live'[i].text = live[i].text \/ live'[i].asOf >= live[i].asOf
  <1> USE DEF OwnInv, SnapInv, TypeInv, DiffTypeOK
  <1>1. /\ UNCHANGED <<turns, diskDiff, lastActive, cache, reading, unwritten, overtaken>>
        /\ pc[i] = "read" /\ existing'[i] = diskDiff.diff
    BY DEF ReadSnapshot, world, stateDir, history
  <1>2. CASE IsFresh(i)
    <2>1. /\ pc'[i] = "mark" /\ live'[i] = diskDiff.diff /\ source'[i] = "live"
          /\ output'[i] = diskDiff.diff
      BY <1>2 DEF ReadSnapshot, Goto, ShowLive
    <2>2. Work(i)'
      BY <1>1, <2>1 DEF Work, HasWork
    <2>3. Age(i)'
      BY <1>1, <2>1, OwnTyped DEF Age, IsFresh
    <2>4. CASE source[i] = "live"
      <3>1. diskDiff.diff.text = live[i].text \/ diskDiff.diff.asOf >= live[i].asOf
        BY <1>2, <2>4 DEF Age
      <3> QED
        BY <2>1, <2>2, <2>3, <3>1
    <2> QED
      BY <2>2, <2>3, <2>4
  <1>3. CASE ~IsFresh(i)
    <2>1. pc'[i] = "diff" /\ UNCHANGED <<live, source, output>>
      BY <1>3 DEF ReadSnapshot, Goto
    <2> QED
      BY <1>1, <1>3, <2>1 DEF Work, Age, HasWork, IsFresh
  <1> QED
    BY <1>2, <1>3

\* git diff and UpdateDiff.
LEMMA DiffOwn ==
  ASSUME OwnInv, NEW i \in Instances, GitDiff(i) \/ Update(i)
  PROVE  /\ Work(i)' /\ Age(i)'
         /\ source[i] = "live" /\ source'[i] = "live" =>
              live'[i].text = live[i].text \/ live'[i].asOf >= live[i].asOf
  <1> USE DEF OwnInv, SnapInv, TypeInv, DiffTypeOK
  <1>1. UNCHANGED <<turns, diskDiff, lastActive, cache, existing, reading, unwritten, overtaken>>
    BY DEF GitDiff, Update, world, stateDir, history
  <1>2. CASE GitDiff(i) /\ isGit
    <2>1. /\ pc[i] = "diff" /\ pc'[i] = "update" /\ UNCHANGED <<live, source>>
          /\ output'[i].asOf = turns
      BY <1>2 DEF GitDiff, Goto
    <2> QED
      BY <1>1, <2>1, OwnTyped DEF Work, Age, HasWork, IsFresh
  <1>3. CASE GitDiff(i) /\ ~isGit
    <2>1. pc[i] = "diff" /\ FailOver(i) /\ UNCHANGED <<live, output>>
      BY <1>3 DEF GitDiff
    <2> QED
      BY <1>1, <2>1, FailOverOwn
  <1>4. CASE Update(i)
    <2>1. /\ pc[i] = "update" /\ UNCHANGED output /\ live'[i] = output[i] /\ source'[i] = "live"
          /\ pc'[i] = IF output[i].text # Empty THEN "persist" ELSE "none"
      BY <1>4 DEF Update, Goto, ShowLive, Persists
    <2> QED
      BY <1>1, <2>1, OwnTyped DEF Work, Age, HasWork, IsFresh
  <1> QED
    BY <1>2, <1>3, <1>4

\* persistSnapshot, and MarkSnapshotPersisted.
LEMMA PersistOwn ==
  ASSUME OwnInv, NEW i \in Instances, Persist(i) \/ Mark(i)
  PROVE  Work(i)' /\ Age(i)'
  <1> USE DEF OwnInv, SnapInv, TypeInv, DiffTypeOK
  <1>1. UNCHANGED <<turns, lastActive, live, source, output, existing, reading>>
    BY DEF Persist, Mark, world, memory
  <1>2. CASE Persist(i) /\ unwritten' = TRUE /\ UNCHANGED diskDiff /\ Goto(i, "none")
    <2>1. pc[i] = "persist" /\ pc'[i] = "none" /\ UNCHANGED <<cache, overtaken>>
      BY <1>2 DEF Persist, Goto, memory
    <2> QED
      BY <1>1, <1>2, <2>1 DEF Work, Age, HasWork, IsFresh
  <1>3. CASE /\ Persist(i) /\ UNCHANGED unwritten /\ Goto(i, "mark")
             /\ diskDiff' = [diff |-> IF output[i].text = existing[i].text THEN diskDiff.diff ELSE output[i],
                             at |-> turns]
    <2>1. pc[i] = "persist" /\ pc'[i] = "mark" /\ UNCHANGED <<cache, overtaken>>
      BY <1>3 DEF Persist, Goto, memory
    <2>2. /\ existing[i] = diskDiff.diff /\ live[i].text = output[i].text /\ output[i].text # Empty
          /\ output[i].asOf <= turns /\ diskDiff.diff.asOf <= turns
      BY <2>1, OwnTyped DEF Work, Age, SnapshotKnown
    <2>3. diskDiff'.diff.text = output[i].text /\ diskDiff'.diff.asOf <= turns
      BY <1>3, <2>2
    <2> QED
      BY <1>1, <1>3, <2>1, <2>2, <2>3, OwnTyped DEF Work, Age, HasWork
  <1>4. CASE Mark(i)
    <2>1. /\ pc[i] = "mark" /\ pc'[i] = "none" /\ UNCHANGED <<diskDiff, unwritten>>
          /\ cache'[i] = output[i]
      BY <1>4 DEF Mark, Goto, stateDir
    <2>2. overtaken' = [overtaken EXCEPT ![i] = reading[i] # NoDiff]
      BY <1>4 DEF Mark
    <2>3. ~overtaken'[i] => reading[i] = NoDiff
      BY <2>2
    <2> QED
      BY <1>1, <2>1, <2>3 DEF Work, Age, HasWork, IsFresh
  <1> QED
    BY <1>2, <1>3, <1>4 DEF Persist

\* A call that reads, an eviction, and a restart.
LEMMA CallsOwn ==
  ASSUME OwnInv, NEW i \in Instances, BeginRead(i) \/ FinishRead(i) \/ Evict(i) \/ Restart(i)
  PROVE  Work(i)' /\ Age(i)'
  <1> USE DEF OwnInv, SnapInv, TypeInv, DiffTypeOK
  <1>1. UNCHANGED <<turns, diskDiff, output, existing, unwritten>>
    BY DEF BeginRead, FinishRead, Evict, Restart, world, stateDir, refresh, history
  <1>2. CASE BeginRead(i) \/ FinishRead(i)
    <2>1. UNCHANGED <<lastActive, live, source, pc, overtaken>>
      BY <1>2 DEF BeginRead, FinishRead, memory, refresh, history
    <2>2. CASE BeginRead(i)
      <3>1. reading'[i] = diskDiff.diff /\ UNCHANGED cache
        BY <2>2 DEF BeginRead, memory
      <3> QED
        BY <1>1, <2>1, <3>1 DEF Work, Age, HasWork, IsFresh
    <2>3. CASE FinishRead(i)
      <3>1. reading'[i] = NoDiff /\ cache'[i] = reading[i] /\ reading[i] # NoDiff
        BY <2>3 DEF FinishRead
      <3> QED
        BY <1>1, <2>1, <3>1 DEF Work, Age, HasWork, IsFresh
    <2> QED
      BY <1>2, <2>2, <2>3
  <1>3. CASE Evict(i)
    <2>1. UNCHANGED <<lastActive, live, source, pc, reading>> /\ cache'[i] = NoDiff
      BY <1>3 DEF Evict, refresh
    <2>2. overtaken' = [overtaken EXCEPT ![i] = overtaken[i] /\ reading[i] # NoDiff]
      BY <1>3 DEF Evict
    <2>3. reading[i] # NoDiff /\ ~overtaken'[i] => ~overtaken[i]
      BY <2>2
    <2> QED
      BY <1>1, <2>1, <2>3 DEF Work, Age, HasWork, IsFresh
  <1>4. CASE Restart(i)
    <2>1. /\ live'[i] = NoDiff /\ source'[i] = "none" /\ cache'[i] = NoDiff /\ reading'[i] = NoDiff
          /\ pc'[i] = "none"
      BY <1>4 DEF Restart, Goto
    <2>2. NoDiff.text = Empty /\ NoDiff.asOf = 0
      BY DEF NoDiff
    <2> QED
      BY <1>1, <2>1, <2>2, OwnTyped DEF Work, Age, HasWork
  <1> QED
    BY <1>2, <1>3, <1>4

\* A step of any instance, and what it does to the diff that is shown.
LEMMA StepOwn ==
  ASSUME OwnInv, NEW i \in Instances,
         \/ InstanceStep(i) \/ Noise(i)
         \/ BeginRead(i) \/ FinishRead(i) \/ Evict(i) \/ Restart(i)
  PROVE  /\ Work(i)' /\ Age(i)'
         /\ source[i] = "live" /\ source'[i] = "live" =>
              live'[i].text = live[i].text \/ live'[i].asOf >= live[i].asOf
  <1> DEFINE Onward == source[i] = "live" /\ source'[i] = "live" =>
                         live'[i].text = live[i].text \/ live'[i].asOf >= live[i].asOf
  <1>1. CASE ReadSnapshot(i) \/ GitDiff(i) \/ Update(i)
    BY <1>1, ReadOwn, DiffOwn
  <1>2. CASE Noise(i) \/ Ingest(i) \/ Receive(i) \/ Tick(i)
    <2>1. UNCHANGED live
      BY <1>2 DEF Noise, Ingest, Receive, Tick, memory
    <2> QED
      BY <1>2, <2>1, EventsOwn
  <1>3. CASE Start(i) \/ Pin(i) \/ Merge(i) \/ PersistBase(i)
    <2>1. UNCHANGED live
      BY <1>3 DEF Start, Pin, Merge, PersistBase, memory
    <2> QED
      BY <1>3, <2>1, PinOwn
  <1>4. CASE Persist(i) \/ Mark(i)
    <2>1. UNCHANGED live
      BY <1>4 DEF Persist, Mark, memory
    <2> QED
      BY <1>4, <2>1, PersistOwn
  <1>5. CASE BeginRead(i) \/ FinishRead(i) \/ Evict(i)
    <2>1. UNCHANGED live
      BY <1>5 DEF BeginRead, FinishRead, Evict, memory
    <2> QED
      BY <1>5, <2>1, CallsOwn
  <1>6. CASE Restart(i)
    <2>1. source'[i] = "none"
      BY <1>6 DEF Restart, OwnInv, SnapInv, TypeInv, DiffTypeOK
    <2> QED
      BY <1>6, <2>1, CallsOwn
  <1> QED
    BY <1>1, <1>2, <1>3, <1>4, <1>5, <1>6 DEF InstanceStep, RefreshStep

Forward ==
  \A i \in Instances :
    source[i] = "live" /\ source'[i] = "live" =>
      live'[i].text = live[i].text \/ live'[i].asOf >= live[i].asOf

LEMMA NextOwnInv ==
  ASSUME OneInstance
  PROVE  OwnInv /\ [DiffNext]_diffVars => OwnInv' /\ Forward
  <1> SUFFICES ASSUME OwnInv, [DiffNext]_diffVars PROVE OwnInv' /\ Forward
    OBVIOUS
  <1>0. SnapInv'
    BY NextSnapInv DEF OwnInv
  <1>1. CASE Turn \/ MoveTarget \/ LoseGit \/ UNCHANGED diffVars
    <2>1. UNCHANGED live
      BY <1>1 DEF Turn, MoveTarget, LoseGit, diffVars, memory
    <2> QED
      BY <1>0, <1>1, <2>1, WorldOwn DEF OwnInv, Forward
  <1>2. ASSUME NEW i \in Instances,
               \/ InstanceStep(i) \/ Noise(i)
               \/ BeginRead(i) \/ FinishRead(i) \/ Evict(i) \/ Restart(i)
        PROVE  OwnInv' /\ Forward
    <2>1. \A j \in Instances : j = i
      BY OneInstance DEF OneInstance
    <2> QED
      BY <1>0, <1>2, <2>1, StepOwn DEF OwnInv, Forward
  <1> QED
    BY <1>1, <1>2 DEF DiffNext

\* Where the state directory is one instance's own, the last work shown survives its
\* worktree, restarts and empty diffs while writes succeed, and is what is served.
THEOREM LastWorkServedCorrect ==
  ASSUME OneInstance
  PROVE  DiffSpec => []LastWorkServed
  <1>1. OwnInv => LastWorkServed
    <2>1. OwnInv => SnapshotExists
      BY DEF OwnInv, SnapInv, SnapshotKnown, HasWork, SnapshotExists
    <2>2. OwnInv => WorkIsKept /\ FailsOverToWork /\ CacheFollowsDisk
      BY DEF OwnInv, Work, HasWork, WorkIsKept, FailsOverToWork, CacheFollowsDisk
    <2> QED
      BY <2>1, <2>2 DEF LastWorkServed
  <1>2. OwnInv /\ [DiffNext]_diffVars => OwnInv'
    BY NextOwnInv
  <1> QED
    BY <1>1, <1>2, InitOwnInv, PTL DEF DiffSpec

\* And the diff it shows never goes back to an older state of the tree, whichever writes
\* fail and whichever snapshot a refresh takes in place of git diff.
THEOREM NeverGoesBackCorrect ==
  ASSUME OneInstance
  PROVE  DiffSpec => NeverGoesBack
  <1>1. OwnInv /\ [DiffNext]_diffVars => OwnInv'
    BY NextOwnInv
  <1>2. OwnInv /\ [DiffNext]_diffVars =>
          [\A i \in Instances :
             source[i] = "live" /\ source'[i] = "live" =>
               live'[i].text = live[i].text \/ live'[i].asOf >= live[i].asOf]_diffVars
    BY NextOwnInv DEF Forward
  <1> QED
    BY <1>1, <1>2, InitOwnInv, PTL DEF DiffSpec, NeverGoesBack

=============================================================================
