----------------------------- MODULE Ingest_proofs -----------------------------
(***************************************************************************)
(* Proofs about Ingest, for any directory tree, any number of transcripts   *)
(* and any bounds.  The invariant says of the watcher's offsets and the      *)
(* store's turns, and in the same words of those in the snapshot file, that  *)
(* the offsets lie inside the transcripts and the turns are those the        *)
(* offsets have passed.  Only Read changes them; the rest of a step only     *)
(* lets the transcripts grow or exchanges memory and snapshot.               *)
(***************************************************************************)
EXTENDS Ingest, SequenceTheorems, TLAPS

-----------------------------------------------------------------------------
(* Lines(first, last) is the sequence first + 1, ..., last.                  *)

LEMMA LinesType ==
  ASSUME NEW S, NEW first \in Nat, NEW last \in Nat, first <= last,
         \A i \in Nat : i <= last => i \in S
  PROVE  /\ Lines(first, last) \in Seq(S)
         /\ Len(Lines(first, last)) = last - first
         /\ \A i \in 1 .. (last - first) : Lines(first, last)[i] = first + i
<1>1. last - first \in Nat
  OBVIOUS
<1>2. Lines(first, last) \in [1 .. (last - first) -> S]
  BY DEF Lines
<1>3. Lines(first, last) \in Seq(S)
  BY <1>1, <1>2, SeqDef
<1>4. DOMAIN Lines(first, last) = 1 .. (last - first)
  BY DEF Lines
<1>5. Len(Lines(first, last)) = last - first
  BY <1>1, <1>3, <1>4, LenProperties
<1>6. \A i \in 1 .. (last - first) : Lines(first, last)[i] = first + i
  BY DEF Lines
<1> QED
  BY <1>3, <1>5, <1>6

LEMMA LinesFromStart ==
  ASSUME NEW n \in Nat
  PROVE  /\ Lines(0, n) \in Seq(Nat) /\ Len(Lines(0, n)) = n
         /\ \A i \in 1 .. n : Lines(0, n)[i] = i
<1>1. \A first \in Nat : first <= n =>
        /\ Lines(first, n) \in Seq(Nat) /\ Len(Lines(first, n)) = n - first
        /\ \A i \in 1 .. (n - first) : Lines(first, n)[i] = first + i
  BY LinesType
<1>2. \A first \in Nat : first = 0 => first <= n /\ n - first = n
  OBVIOUS
<1>3. \A first \in Nat : first = 0 =>
        /\ Lines(first, n) \in Seq(Nat) /\ Len(Lines(first, n)) = n
        /\ \A i \in 1 .. n : Lines(first, n)[i] = i
  <2> SUFFICES ASSUME NEW first \in Nat, first = 0
               PROVE  /\ Lines(first, n) \in Seq(Nat) /\ Len(Lines(first, n)) = n
                      /\ \A i \in 1 .. n : Lines(first, n)[i] = i
    OBVIOUS
  <2>1. first <= n /\ n - first = n
    BY <1>2
  <2>2. \A i \in 1 .. n : first + i = i
    OBVIOUS
  <2>3. /\ Lines(first, n) \in Seq(Nat) /\ Len(Lines(first, n)) = n - first
        /\ \A i \in 1 .. (n - first) : Lines(first, n)[i] = first + i
    BY <1>1, <2>1
  <2> QED
    BY <2>1, <2>2, <2>3, Zenon
<1> QED
  BY <1>3

LEMMA LinesAppend ==
  ASSUME NEW first \in Nat, NEW last \in Nat, first <= last
  PROVE  Lines(0, first) \o Lines(first, last) = Lines(0, last)
<1>1. /\ Lines(0, first) \in Seq(Nat) /\ Len(Lines(0, first)) = first
      /\ \A i \in 1 .. first : Lines(0, first)[i] = i
  BY LinesFromStart
<1>2. /\ Lines(first, last) \in Seq(Nat) /\ Len(Lines(first, last)) = last - first
      /\ \A i \in 1 .. (last - first) : Lines(first, last)[i] = first + i
  BY LinesType
<1>3. /\ Lines(0, last) \in Seq(Nat) /\ Len(Lines(0, last)) = last
      /\ \A i \in 1 .. last : Lines(0, last)[i] = i
  BY LinesFromStart
<1> DEFINE both == Lines(0, first) \o Lines(first, last)
<1>4. /\ both \in Seq(Nat) /\ Len(both) = last
      /\ \A i \in 1 .. last : both[i] =
           IF i <= first THEN Lines(0, first)[i] ELSE Lines(first, last)[i - first]
  BY <1>1, <1>2, ConcatProperties
<1>5. \A i \in 1 .. last : both[i] = i
  <2> HIDE DEF both
  <2> SUFFICES ASSUME NEW i \in 1 .. last PROVE both[i] = i
    OBVIOUS
  <2>1. CASE i <= first
    BY <2>1, <1>1, <1>4
  <2>2. CASE ~(i <= first)
    <3>1. i - first \in 1 .. (last - first)
      BY <2>2
    <3>2. Lines(first, last)[i - first] = first + (i - first)
      BY <3>1, <1>2
    <3> QED
      BY <3>2, <2>2, <1>4
  <2> QED
    BY <2>1, <2>2
<1> HIDE DEF both
<1>6. both = Lines(0, last)
  BY <1>3, <1>4, <1>5, SeqEqual
<1> QED
  BY <1>6 DEF both

-----------------------------------------------------------------------------
(* What the offsets and the turns of one moment have in common, in memory    *)
(* (offset, stored) and in the snapshot file.  sizes is size.                *)

Inside(sizes, read) == \A f \in Files : read[f] <= sizes[f] \div 2

Typed(read, turns) ==
  read \in [Files -> LineCounts] /\ turns \in [Files -> Seq(LineCounts)]

Consistent(sizes, read, turns) ==
  /\ Typed(read, turns) /\ Inside(sizes, read)
  /\ Exact(read, turns) /\ Increasing(read, turns) /\ Accompanied(turns)

IInv ==
  /\ DiskType /\ WatcherType
  /\ stops \in 0 .. MaxStops /\ owed \in [Files -> LineCounts]
  /\ Consistent(size, offset, stored)
  /\ \A snapshot \in saved :
       /\ snapshot = [offset |-> snapshot.offset, stored |-> snapshot.stored]
       /\ Consistent(size, snapshot.offset, snapshot.stored)

LEMMA CountsNat == LineCounts \subseteq Nat /\ 0 \in LineCounts
BY IngestAssumption DEF LineCounts

LEMMA HalfType ==
  ASSUME NEW n \in 0 .. MaxSize
  PROVE  n \div 2 \in LineCounts
BY IngestAssumption DEF LineCounts

LEMMA HalfMonotonic ==
  ASSUME NEW m \in Nat, NEW n \in Nat, m <= n
  PROVE  m \div 2 <= n \div 2
OBVIOUS

LEMMA NothingConsistent ==
  ASSUME NEW sizes \in [Files -> 0 .. MaxSize]
  PROVE  Consistent(sizes, Nothing, NoTurns)
<1>1. Nothing \in [Files -> LineCounts]
  BY CountsNat DEF Nothing
<1>2. NoTurns \in [Files -> Seq(LineCounts)]
  BY EmptySeq DEF NoTurns
<1>3. Inside(sizes, Nothing)
  BY HalfType, CountsNat DEF Inside, Nothing, LineCounts
<1>4. Exact(Nothing, NoTurns)
  <2>1. Lines(0, 0) \in Seq(Nat) /\ Len(Lines(0, 0)) = 0
    BY LinesFromStart
  <2>2. Lines(0, 0) = <<>>
    BY <2>1, EmptySeq
  <2> QED
    BY <2>2 DEF Exact, Nothing, NoTurns, Files
<1>5. Increasing(Nothing, NoTurns) /\ Accompanied(NoTurns)
  BY IngestAssumption DEF Increasing, Accompanied, Nothing, NoTurns, Files
<1> QED
  BY <1>1, <1>2, <1>3, <1>4, <1>5 DEF Consistent, Typed

\* Transcripts only grow, so what was consistent stays so.
LEMMA GrowthConsistent ==
  ASSUME NEW sizes \in [Files -> 0 .. MaxSize], NEW grown \in [Files -> 0 .. MaxSize],
         \A f \in Files : sizes[f] <= grown[f],
         NEW read, NEW turns, Consistent(sizes, read, turns)
  PROVE  Consistent(grown, read, turns)
<1>1. ASSUME NEW f \in Files PROVE read[f] <= grown[f] \div 2
  <2>1. sizes[f] \in Nat /\ grown[f] \in Nat /\ sizes[f] <= grown[f]
    BY IngestAssumption
  <2>2. sizes[f] \div 2 <= grown[f] \div 2
    BY <2>1, HalfMonotonic
  <2>3. read[f] \in Nat /\ read[f] <= sizes[f] \div 2
    BY CountsNat DEF Consistent, Typed, Inside
  <2>4. sizes[f] \div 2 \in Nat /\ grown[f] \div 2 \in Nat
    BY <2>1
  <2> QED
    BY <2>2, <2>3, <2>4
<1> QED
  BY <1>1 DEF Consistent, Inside

-----------------------------------------------------------------------------
(* Read.                                                                     *)

\* One transcript: its new lines follow those the offset has passed.
LEMMA ReadOne ==
  ASSUME IInv, NEW f \in Files
  PROVE  /\ offset[f] \in Nat /\ Whole(f) \in LineCounts /\ Whole(f) \in Nat
         /\ offset[f] <= Whole(f)
         /\ Lines(offset[f], Whole(f)) \in Seq(LineCounts)
         /\ stored[f] \in Seq(LineCounts)
         /\ stored[f] \o Lines(offset[f], Whole(f)) \in Seq(LineCounts)
<1>1. size[f] \in 0 .. MaxSize
  BY DEF IInv, DiskType
<1>2. Whole(f) \in LineCounts /\ Whole(f) \in Nat
  BY <1>1, HalfType, CountsNat DEF Whole
<1>3. offset[f] \in Nat /\ offset[f] <= Whole(f)
  BY CountsNat DEF IInv, Consistent, Typed, Inside, Whole
<1>4. \A i \in Nat : i <= Whole(f) => i \in LineCounts
  BY <1>2, IngestAssumption DEF LineCounts
<1>5. Lines(offset[f], Whole(f)) \in Seq(LineCounts)
  BY <1>2, <1>3, <1>4, LinesType
<1>6. stored[f] \in Seq(LineCounts)
  BY DEF IInv, Consistent, Typed
<1>7. stored[f] \o Lines(offset[f], Whole(f)) \in Seq(LineCounts)
  BY <1>5, <1>6, ConcatProperties
<1> QED
  BY <1>2, <1>3, <1>5, <1>6, <1>7

LEMMA ReadTyped ==
  ASSUME IInv, NEW fs \in SUBSET Files, Read(fs)
  PROVE  Typed(offset', stored') /\ Inside(size, offset')
<1>1. offset' \in [Files -> LineCounts]
  BY ReadOne DEF Read, IInv, Consistent, Typed
<1>2. stored' \in [Files -> Seq(LineCounts)]
  BY ReadOne DEF Read
<1>3. Inside(size, offset')
  BY ReadOne DEF Read, Inside, IInv, Consistent, Whole
<1> QED
  BY <1>1, <1>2, <1>3 DEF Typed

LEMMA ReadExact ==
  ASSUME IInv, NEW fs \in SUBSET Files, Read(fs)
  PROVE  Exact(offset', stored')
<1> SUFFICES ASSUME NEW p \in Parents PROVE stored'[p] = Lines(0, offset'[p])
  BY DEF Exact
<1>1. p \in Files /\ Accepted(p)
  BY IngestAssumption DEF Files, Accepted
<1>2. stored[p] = Lines(0, offset[p])
  BY DEF IInv, Consistent, Exact
<1>3. CASE p \in fs
  <2>1. stored'[p] = stored[p] \o Lines(offset[p], Whole(p)) /\ offset'[p] = Whole(p)
    BY <1>1, <1>3 DEF Read
  <2> QED
    BY <2>1, <1>1, <1>2, ReadOne, LinesAppend
<1>4. CASE p \notin fs
  BY <1>1, <1>2, <1>4 DEF Read
<1> QED
  BY <1>3, <1>4

LEMMA ReadIncreasing ==
  ASSUME IInv, NEW fs \in SUBSET Files, Read(fs)
  PROVE  Increasing(offset', stored')
<1> SUFFICES ASSUME NEW s \in Subs
             PROVE  /\ \A i, j \in 1 .. Len(stored'[s]) : i < j => stored'[s][i] < stored'[s][j]
                    /\ \A i \in 1 .. Len(stored'[s]) : stored'[s][i] <= offset'[s]
  BY DEF Increasing
<1>1. s \in Files
  BY DEF Files
<1>2. /\ \A i, j \in 1 .. Len(stored[s]) : i < j => stored[s][i] < stored[s][j]
      /\ \A i \in 1 .. Len(stored[s]) : stored[s][i] <= offset[s]
  BY DEF IInv, Consistent, Increasing
<1> DEFINE old == stored[s]
           new == Lines(offset[s], Whole(s))
<1>3. old \in Seq(LineCounts) /\ Len(old) \in Nat
      /\ \A i \in 1 .. Len(old) : old[i] \in Nat
  BY <1>1, ReadOne, LenProperties, ElementOfSeq, CountsNat
<1>4. offset[s] \in Nat /\ Whole(s) \in Nat /\ offset[s] <= Whole(s)
  BY <1>1, ReadOne
<1>5. CASE s \in fs /\ Accepted(s)
  <2>1. stored'[s] = old \o new /\ offset'[s] = Whole(s)
    BY <1>1, <1>5 DEF Read
  <2>2. new \in Seq(LineCounts) /\ Len(new) = Whole(s) - offset[s]
        /\ \A i \in 1 .. (Whole(s) - offset[s]) : new[i] = offset[s] + i
    <3>1. \A i \in Nat : i <= Whole(s) => i \in LineCounts
      BY <1>1, ReadOne, IngestAssumption DEF LineCounts
    <3> QED
      BY <3>1, <1>4, LinesType
  <2>3. Len(old \o new) = Len(old) + Len(new)
        /\ \A i \in 1 .. Len(old) + Len(new) :
             (old \o new)[i] = IF i <= Len(old) THEN old[i] ELSE new[i - Len(old)]
    BY <1>3, <2>2, ConcatProperties
  <2> HIDE DEF old, new
  <2>4. \A i \in 1 .. Len(old) + Len(new) : i <= Len(old) => (old \o new)[i] = old[i] /\ old[i] <= offset[s] /\ old[i] \in Nat
    BY <2>3, <1>2, <1>3 DEF old
  <2>5. ASSUME NEW i \in 1 .. Len(old) + Len(new), ~(i <= Len(old))
        PROVE  (old \o new)[i] = offset[s] + (i - Len(old))
               /\ i - Len(old) \in 1 .. (Whole(s) - offset[s])
    <3>1. i - Len(old) \in 1 .. (Whole(s) - offset[s])
      BY <2>5, <2>2, <1>3, <1>4
    <3> QED
      BY <3>1, <2>2, <2>3, <2>5
  <2>6. ASSUME NEW i \in 1 .. Len(old) + Len(new), NEW j \in 1 .. Len(old) + Len(new), i < j
        PROVE  (old \o new)[i] < (old \o new)[j]
    <3>1. CASE j <= Len(old)
      <4>1. i \in 1 .. Len(old) /\ j \in 1 .. Len(old)
        BY <3>1, <2>6, <1>3
      <4>2. old[i] < old[j]
        BY <4>1, <2>6, <1>2 DEF old
      <4> QED
        BY <4>1, <4>2, <2>4
    <3>2. CASE i <= Len(old) /\ ~(j <= Len(old))
      BY <3>2, <2>4, <2>5, <1>4
    <3>3. CASE ~(i <= Len(old)) /\ ~(j <= Len(old))
      <4>1. (old \o new)[i] = offset[s] + (i - Len(old)) /\ (old \o new)[j] = offset[s] + (j - Len(old))
        BY <3>3, <2>5
      <4> QED
        BY <4>1, <2>6, <1>3, <1>4, <2>2
    <3> QED
      BY <3>1, <3>2, <3>3, <2>6, <1>3, <2>2, <1>4
  <2>7. ASSUME NEW i \in 1 .. Len(old) + Len(new) PROVE (old \o new)[i] <= Whole(s)
    <3>1. CASE i <= Len(old)
      BY <3>1, <2>4, <1>4
    <3>2. CASE ~(i <= Len(old))
      BY <3>2, <2>5, <1>4
    <3> QED
      BY <3>1, <3>2
  <2>8. Len(stored'[s]) = Len(old) + Len(new)
    BY <2>1, <2>3
  <2> QED
    BY <2>1, <2>6, <2>7, <2>8
<1>6. CASE s \in fs /\ ~Accepted(s)
  <2>1. stored'[s] = stored[s] /\ offset'[s] = Whole(s)
    BY <1>1, <1>6 DEF Read
  <2> QED
    BY <2>1, <1>2, <1>3, <1>4
<1>7. CASE s \notin fs
  BY <1>1, <1>2, <1>7 DEF Read
<1> QED
  BY <1>5, <1>6, <1>7

LEMMA ReadAccompanied ==
  ASSUME IInv, NEW fs \in SUBSET Files, Read(fs)
  PROVE  Accompanied(stored')
<1> SUFFICES ASSUME NEW s \in Subs, stored'[s] # <<>>
             PROVE  stored'[ParentOf[s]] # <<>>
  BY DEF Accompanied
<1>1. s \in Files /\ ParentOf[s] \in Files
  BY IngestAssumption DEF Files
<1>2. stored[ParentOf[s]] # <<>>
  <2>1. CASE stored[s] # <<>>
    BY <2>1 DEF IInv, Consistent, Accompanied
  <2>2. CASE stored[s] = <<>>
    BY <2>2, <1>1 DEF Read, Accepted
  <2> QED
    BY <2>1, <2>2
<1>3. stored'[ParentOf[s]] = stored[ParentOf[s]]
      \/ stored'[ParentOf[s]] = stored[ParentOf[s]] \o Lines(offset[ParentOf[s]], Whole(ParentOf[s]))
  BY <1>1 DEF Read
<1>4. stored[ParentOf[s]] \o Lines(offset[ParentOf[s]], Whole(ParentOf[s])) # <<>>
  BY <1>1, <1>2, ReadOne, ConcatEqualIffEmpty
<1> QED
  BY <1>2, <1>3, <1>4

LEMMA ReadConsistent ==
  ASSUME IInv, NEW fs \in SUBSET Files, Read(fs)
  PROVE  Consistent(size, offset', stored')
BY ReadTyped, ReadExact, ReadIncreasing, ReadAccompanied DEF Consistent

-----------------------------------------------------------------------------
(* The invariant.                                                            *)

MemoryInv == Consistent(size, offset, stored)

SavedInv ==
  \A snapshot \in saved :
    /\ snapshot = [offset |-> snapshot.offset, stored |-> snapshot.stored]
    /\ Consistent(size, snapshot.offset, snapshot.stored)

RestInv == stops \in 0 .. MaxStops /\ owed \in [Files -> LineCounts]

LEMMA InitInv == Init => IInv
<1> SUFFICES ASSUME Init PROVE IInv
  OBVIOUS
<1>1. DiskType
  BY IngestAssumption DEF Init, DiskType, Names, Nothing
<1>2. WatcherType
  BY DEF Init, WatcherType
<1>3. MemoryInv
  BY <1>1, NothingConsistent DEF Init, MemoryInv, DiskType
<1>4. SavedInv
  BY DEF Init, SavedInv
<1>5. RestInv
  BY IngestAssumption, CountsNat DEF Init, RestInv, Nothing
<1> QED
  BY <1>1, <1>2, <1>3, <1>4, <1>5 DEF IInv, RestInv, MemoryInv, SavedInv

\* A step that only grows transcripts, or leaves them, keeps what is remembered.
LEMMA GrowthStep ==
  ASSUME IInv, DiskType', \A f \in Files : size[f] <= size'[f],
         UNCHANGED <<offset, stored, saved>>
  PROVE  MemoryInv' /\ SavedInv'
<1>1. size \in [Files -> 0 .. MaxSize] /\ size' \in [Files -> 0 .. MaxSize]
  BY DEF IInv, DiskType
<1>2. MemoryInv'
  BY <1>1, GrowthConsistent DEF IInv, MemoryInv
<1>3. SavedInv'
  BY <1>1, GrowthConsistent DEF IInv, SavedInv
<1> QED
  BY <1>2, <1>3

LEMMA DiskSteps ==
  ASSUME IInv, NEW x \in Names, (x # Root /\ Create(x)) \/ (x \in Files /\ Write(x)) \/ Age(x)
  PROVE  IInv'
<1>1. DiskType' /\ \A f \in Files : size[f] <= size'[f]
  <2> USE DEF IInv, DiskType
  <2>1. ASSUME x # Root, Create(x) PROVE DiskType' /\ \A f \in Files : size[f] <= size'[f]
    <3>1. In[x] \in Names
      BY <2>1, IngestAssumption DEF Names
    <3> QED
      BY <2>1, <3>1, IngestAssumption DEF Create
  <2>2. ASSUME x \in Files, Write(x) PROVE DiskType' /\ \A f \in Files : size[f] <= size'[f]
    <3>1. size[x] + 1 \in 0 .. MaxSize
      BY <2>2, IngestAssumption DEF Write
    <3> QED
      BY <2>2, <3>1, IngestAssumption DEF Write
  <2>3. ASSUME Age(x) PROVE DiskType' /\ \A f \in Files : size[f] <= size'[f]
    BY <2>3, IngestAssumption DEF Age
  <2> QED
    BY <2>1, <2>2, <2>3
<1>2. /\ UNCHANGED <<watches, phase, toVisit, found, live, deferred, toWalk, dirty, loaded,
                     offset, stored, saved, stops, owed>>
      /\ pending' \in SUBSET Names
  BY DEF Create, Write, Age, Notify, notify, walk, batch, ingest, period, IInv, WatcherType
<1>3. WatcherType'
  BY <1>2 DEF IInv, WatcherType
<1>4. RestInv'
  BY <1>2 DEF IInv, RestInv
<1>5. MemoryInv' /\ SavedInv'
  BY <1>1, <1>2, GrowthStep
<1> QED
  BY <1>1, <1>3, <1>4, <1>5 DEF IInv, RestInv, MemoryInv, SavedInv

\* A step of the watcher that reads nothing.
LEMMA QuietStep ==
  ASSUME IInv, UNCHANGED <<disk, offset, stored, saved>>, WatcherType', RestInv'
  PROVE  IInv'
<1>1. UNCHANGED size /\ DiskType'
  BY DEF IInv, DiskType, disk
<1>2. MemoryInv' /\ SavedInv'
  BY <1>1 DEF IInv, MemoryInv, SavedInv
<1> QED
  BY <1>1, <1>2 DEF IInv, RestInv, MemoryInv, SavedInv

\* A step of the watcher that reads.
LEMMA ReadStep ==
  ASSUME IInv, NEW fs \in SUBSET Files, Read(fs), UNCHANGED <<disk, saved>>,
         WatcherType', RestInv'
  PROVE  IInv'
<1>1. UNCHANGED size /\ DiskType'
  BY DEF IInv, DiskType, disk
<1>2. MemoryInv'
  BY <1>1, ReadConsistent DEF MemoryInv
<1>3. SavedInv'
  BY <1>1 DEF IInv, SavedInv
<1> QED
  BY <1>1, <1>2, <1>3 DEF IInv, RestInv, MemoryInv, SavedInv

LEMMA WalkSteps ==
  ASSUME IInv, (\E x \in Names : Visit(x)) \/ (\E d \in Dirs : WalkCreated(d))
               \/ Watch \/ ReadDeferred \/ Rescan
  PROVE  IInv'
<1>1. ASSUME NEW x \in Names, Visit(x) PROVE IInv'
  <2>1. WatcherType'
    BY <1>1 DEF IInv, WatcherType, DiskType, Visit, Due, Names, notify, batch
  <2>2. RestInv'
    BY <1>1 DEF IInv, RestInv, Visit, period
  <2>3. Read(Due(x) \cap Parents) /\ UNCHANGED <<disk, saved>>
    BY <1>1 DEF Visit, period
  <2>4. Due(x) \cap Parents \in SUBSET Files
    BY DEF Due
  <2> QED
    BY <2>1, <2>2, <2>3, <2>4, ReadStep
<1>2. ASSUME NEW d \in Dirs, WalkCreated(d) PROVE IInv'
  <2>1. WatcherType'
    BY <1>2 DEF IInv, WatcherType, WalkCreated, BeginWalk, Names, notify
  <2>2. RestInv' /\ UNCHANGED <<disk, offset, stored, saved>>
    BY <1>2 DEF IInv, RestInv, WalkCreated, period, ingest
  <2> QED
    BY <2>1, <2>2, QuietStep
<1>3. ASSUME Watch PROVE IInv'
  <2>1. WatcherType'
    BY <1>3 DEF IInv, WatcherType, Watch, WatchFound, walk, batch
  <2>2. RestInv' /\ UNCHANGED <<disk, offset, stored, saved>>
    BY <1>3 DEF IInv, RestInv, Watch, period, ingest
  <2> QED
    BY <2>1, <2>2, QuietStep
<1>4. ASSUME ReadDeferred PROVE IInv'
  <2>1. WatcherType'
    BY <1>4 DEF IInv, WatcherType, ReadDeferred, AfterWalk, notify, batch
  <2>2. RestInv'
    BY <1>4, CountsNat DEF IInv, RestInv, ReadDeferred, Nothing, period
  <2>3. Read(deferred) /\ UNCHANGED <<disk, saved>> /\ deferred \in SUBSET Files
    BY <1>4 DEF ReadDeferred, period, IInv, WatcherType, Files
  <2> QED
    BY <2>1, <2>2, <2>3, ReadStep
<1>5. ASSUME Rescan PROVE IInv'
  <2>1. WatcherType'
    BY <1>5, IngestAssumption DEF IInv, WatcherType, Rescan, BeginWalk, Names, notify, batch
  <2>2. RestInv' /\ UNCHANGED <<disk, offset, stored, saved>>
    BY <1>5 DEF IInv, RestInv, Rescan, period, ingest
  <2> QED
    BY <2>1, <2>2, QuietStep
<1> QED
  BY <1>1, <1>2, <1>3, <1>4, <1>5

LEMMA BatchSteps ==
  ASSUME IInv, StartBatch \/ Overflow \/ \E f \in Files : ReadDirty(f)
  PROVE  IInv'
<1>1. ASSUME StartBatch PROVE IInv'
  <2>1. WatcherType'
    BY <1>1 DEF IInv, WatcherType, StartBatch, walk
  <2>2. RestInv' /\ UNCHANGED <<disk, offset, stored, saved>>
    BY <1>1 DEF IInv, RestInv, StartBatch, period, ingest
  <2> QED
    BY <2>1, <2>2, QuietStep
<1>2. ASSUME Overflow PROVE IInv'
  <2>1. WatcherType'
    BY <1>2 DEF IInv, WatcherType, Overflow, walk, batch
  <2>2. RestInv' /\ UNCHANGED <<disk, offset, stored, saved>>
    BY <1>2 DEF IInv, RestInv, Overflow, period, ingest
  <2> QED
    BY <2>1, <2>2, QuietStep
<1>3. ASSUME NEW f \in Files, ReadDirty(f) PROVE IInv'
  <2>1. WatcherType'
    BY <1>3 DEF IInv, WatcherType, ReadDirty, walk, notify
  <2>2. RestInv' /\ Read({f}) /\ UNCHANGED <<disk, saved>>
    BY <1>3 DEF IInv, RestInv, ReadDirty, period
  <2> QED
    BY <2>1, <2>2, ReadStep
<1> QED
  BY <1>1, <1>2, <1>3

LEMMA PeriodSteps ==
  ASSUME IInv, Warm \/ Cool
  PROVE  IInv'
<1>1. size \in [Files -> 0 .. MaxSize]
  BY DEF IInv, DiskType
<1>2. ASSUME Warm PROVE IInv'
  <2>1. UNCHANGED disk /\ Restore
    BY <1>2 DEF Warm
  <2>2. DiskType' /\ UNCHANGED size
    BY <2>1 DEF IInv, DiskType, disk
  <2>3. WatcherType'
    BY <1>2, IngestAssumption DEF IInv, WatcherType, Warm, BeginWalk, Names, notify, batch
  <2>4. MemoryInv'
    BY <1>1, <2>1, <2>2, NothingConsistent DEF IInv, MemoryInv, Restore
  <2>5. SavedInv'
    BY <2>1 DEF SavedInv, Restore
  <2>6. RestInv'
    <3>1. \A f \in Files : Whole(f) \in LineCounts
      BY ReadOne
    <3> QED
      BY <1>2, <3>1, CountsNat DEF IInv, RestInv, Warm
  <2> QED
    BY <2>2, <2>3, <2>4, <2>5, <2>6 DEF IInv, RestInv, MemoryInv, SavedInv
<1>3. ASSUME Cool PROVE IInv'
  <2>1. DiskType' /\ UNCHANGED size
    BY <1>3 DEF Cool, IInv, DiskType, disk
  <2>2. WatcherType'
    BY <1>3 DEF IInv, WatcherType, Cool, walk, batch
  <2>3. MemoryInv'
    BY <1>1, <1>3, <2>1, NothingConsistent DEF MemoryInv, Cool
  <2>4. SavedInv'
    BY <1>3, <2>1 DEF IInv, SavedInv, Cool, SnapshotsLeft
  <2>5. RestInv'
    BY <1>3, IngestAssumption DEF IInv, RestInv, Cool
  <2> QED
    BY <2>1, <2>2, <2>3, <2>4, <2>5 DEF IInv, RestInv, MemoryInv, SavedInv
<1> QED
  BY <1>2, <1>3

LEMMA NextInv == IInv /\ [Next]_vars => IInv'
<1> SUFFICES ASSUME IInv, [Next]_vars PROVE IInv'
  OBVIOUS
<1>1. CASE Environment
  <2>1. ASSUME NEW x \in Names \ {Root}, Create(x) PROVE IInv'
    BY <2>1, DiskSteps
  <2>2. ASSUME NEW x \in Names, Age(x) PROVE IInv'
    BY <2>2, DiskSteps
  <2>3. ASSUME NEW f \in Files, Write(f) PROVE IInv'
    BY <2>3, DiskSteps DEF Names
  <2> QED
    BY <1>1, <2>1, <2>2, <2>3, BatchSteps, PeriodSteps DEF Environment
<1>2. CASE WatcherStep
  BY <1>2, WalkSteps, BatchSteps DEF WatcherStep
<1>3. CASE Rescan
  BY <1>3, WalkSteps
<1>4. CASE UNCHANGED vars
  <2>1. UNCHANGED <<disk, offset, stored, saved>> /\ WatcherType' /\ RestInv'
    BY <1>4 DEF vars, notify, walk, batch, ingest, period, IInv, WatcherType, RestInv
  <2> QED
    BY <2>1, QuietStep
<1> QED
  BY <1>1, <1>2, <1>3, <1>4 DEF Next

-----------------------------------------------------------------------------
(* The theorems.                                                             *)

LEMMA IInvImplies ==
  ASSUME IInv
  PROVE  TypeOK /\ InOrderOnce /\ SubsHaveSession
<1>1. \A snapshot \in saved : snapshot \in Snapshots
  BY DEF IInv, Consistent, Typed, Snapshots
<1>2. TypeOK
  BY <1>1 DEF IInv, TypeOK, StoreType, Consistent, Typed
<1>3. InOrderOnce
  BY DEF IInv, Consistent, InOrderOnce
<1> QED
  BY <1>2, <1>3 DEF IInv, Consistent, SubsHaveSession

THEOREM InductiveInvariant == Spec => []IInv
<1>1. Init => IInv
  BY InitInv
<1>2. IInv /\ [Next]_vars => IInv'
  BY NextInv
<1> QED
  BY <1>1, <1>2, PTL DEF Spec

\* Every variable keeps its type: offsets never pass the transcripts' ends.
THEOREM TypeCorrect == Spec => []TypeOK
<1>1. IInv => TypeOK
  BY IInvImplies
<1> QED
  BY <1>1, InductiveInvariant, PTL

\* Whatever the interleaving of agents, walks, batches, rescans and warm periods,
\* the store holds each session line the watcher has passed exactly once, in order,
\* and no subagent's line twice or out of order
\* (readNewLines, walkAndWatch, processBatch, RestoreFiles, FileStates).
THEOREM IngestCorrect == Spec => []InOrderOnce
<1>1. IInv => InOrderOnce
  BY IInvImplies
<1> QED
  BY <1>1, InductiveInvariant, PTL

\* No subagent turn is in the store without its session (addSubagentTurn).
THEOREM SubagentsCorrect == Spec => []SubsHaveSession
<1>1. IInv => SubsHaveSession
  BY IInvImplies
<1> QED
  BY <1>1, InductiveInvariant, PTL

=============================================================================
