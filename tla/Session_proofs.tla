---------------------------- MODULE Session_proofs ----------------------------
(***************************************************************************)
(* Proofs about what is shown of a session.                                *)
(*                                                                         *)
(* Titles: for any sessions, titles and orders in which transcripts and    *)
(* index are read, with cold phases and half-written lines, a session has  *)
(* the title the files give it and is found by it.                         *)
(*                                                                         *)
(* Permissions: for any transcript and any pace of the reader, every       *)
(* denial is recorded once, by the notice or by the decision, whichever    *)
(* the transcript gives first.                                             *)
(*                                                                         *)
(* CodexSession: for any rollouts of a session, in any interleaving and up *)
(* to any bound on calls and revisions, every escalated call that is       *)
(* answered has its verdict, in order, and the proposed plan and its       *)
(* history are those of the session's own rollout.                         *)
(***************************************************************************)
EXTENDS FiniteSetTheorems, SequenceTheorems, NaturalsInduction, WellFoundedInduction,
        Titles, Permissions, CodexSession, TLAPS

-----------------------------------------------------------------------------
(* Places by number.                                                         *)

LEMMA NatMin ==
  ASSUME NEW T \in SUBSET Nat, T # {}
  PROVE  \E m \in T : \A n \in T : m <= n
  <1>1. PICK m \in T : \A n \in T : ~ (<<n, m>> \in OpToRel(<, Nat))
    BY NatLessThanWellFounded, WFMin, Zenon
  <1>2. \A n \in T : ~ (n < m)
    BY <1>1 DEF OpToRel
  <1> QED
    BY <1>2

LEMMA NatMax ==
  ASSUME NEW b \in Nat, NEW T \in SUBSET (0 .. b), T # {}
  PROVE  \E m \in T : \A n \in T : n <= m
  <1> DEFINE U == {b - n : n \in T}
  <1>1. U \in SUBSET Nat /\ U # {}
    OBVIOUS
  <1> HIDE DEF U
  <1>2. PICK k \in U : \A n \in U : k <= n
    BY <1>1, NatMin
  <1>3. PICK m \in T : k = b - m
    BY <1>2 DEF U
  <1>4. \A n \in T : k <= b - n
    BY <1>2 DEF U
  <1> QED
    BY <1>3, <1>4

LEMMA FirstIs ==
  ASSUME NEW P \in SUBSET Nat, P # {}
  PROVE  FirstOf(P) \in P /\ \A m \in P : FirstOf(P) <= m
  <1>1. \E n \in P : \A m \in P : n <= m
    BY NatMin
  <1> QED
    BY <1>1 DEF FirstOf

LEMMA LastIs ==
  ASSUME NEW b \in Nat, NEW P \in SUBSET (0 .. b), P # {}
  PROVE  LastOf(P) \in P /\ \A m \in P : m <= LastOf(P)
  <1>1. \E n \in P : \A m \in P : m <= n
    BY NatMax
  <1> QED
    BY <1>1 DEF LastOf

\* A place after all others is the last, and never the first.
LEMMA OnePlaceMore ==
  ASSUME NEW b \in Nat, NEW P \in SUBSET (1 .. b)
  PROVE  /\ LastOf(P \cup {b + 1}) = b + 1
         /\ P # {} => FirstOf(P \cup {b + 1}) = FirstOf(P)
         /\ FirstOf({b + 1}) = b + 1
  <1>1. ASSUME NEW n, n = LastOf(P \cup {b + 1}) PROVE n = b + 1
    <2>1. P \cup {b + 1} \in SUBSET (0 .. b + 1) /\ P \cup {b + 1} # {} /\ b + 1 \in Nat
      OBVIOUS
    <2>2. n \in P \cup {b + 1} /\ \A m \in P \cup {b + 1} : m <= n
      BY <1>1, <2>1, LastIs
    <2> QED
      BY <2>1, <2>2
  <1>2. ASSUME P # {} PROVE FirstOf(P \cup {b + 1}) = FirstOf(P)
    <2>1. P \cup {b + 1} \in SUBSET Nat /\ P \in SUBSET Nat
      OBVIOUS
    <2>2. PICK n : n = FirstOf(P \cup {b + 1})
      OBVIOUS
    <2>3. PICK k : k = FirstOf(P)
      OBVIOUS
    <2>4. n \in P \cup {b + 1} /\ \A m \in P \cup {b + 1} : n <= m
      BY <2>1, <2>2, FirstIs
    <2>5. k \in P /\ \A m \in P : k <= m
      BY <1>2, <2>1, <2>3, FirstIs
    <2>6. n = k
      BY <2>4, <2>5
    <2> QED
      BY <2>2, <2>3, <2>6
  <1>3. FirstOf({b + 1}) = b + 1
    BY {b + 1} \in SUBSET Nat, FirstIs
  <1> QED
    BY <1>1, <1>2, <1>3

-----------------------------------------------------------------------------
(* Titles: the invariant.                                                    *)

Shown == Titles \cup {NoTitle}

Stored ==
  [title : [Sessions -> Shown], source : [Sessions -> {"none", "derived", "index", "custom"}],
   plain : [Sessions -> Shown], active : [Sessions -> Nat], read : [Sessions -> Nat]]

Live == [title |-> title, source |-> titleSource, plain |-> plain, active |-> activeAt,
         read |-> read]

\* The title that the first r lines of a transcript give.
Before(places, r) == {n \in places : n <= r}

TitleAt(s, r) ==
  IF Before(ByHand(s), r) # {} THEN lines[s][LastOf(Before(ByHand(s), r))].title
  ELSE IF Before(TitlingPrompts(s), r) # {}
       THEN lines[s][FirstOf(Before(TitlingPrompts(s), r))].title
  ELSE NoTitle

\* What a store holds of session s.
Told(s, st) ==
  /\ st.active[s] <= clock /\ st.read[s] <= Len(lines[s])
  /\ st.plain[s] = IF st.title[s] = NoTitle THEN NoTitle ELSE Plain[st.title[s]]
  /\ s \in Codex => st.source[s] # "custom"
  /\ Names(s) = {} => st.title[s] = TitleAt(s, st.read[s])

OnDisk ==
  /\ lines \in [Sessions -> Seq(Line)] /\ index \in Seq(IndexEntry) /\ clock \in Nat
  /\ \A s \in Sessions : \A n \in DOMAIN lines[s] :
       /\ lines[s][n].at <= clock
       /\ lines[s][n].kind = "custom" => s \in Claude /\ lines[s][n].title \in Titles
  /\ \A n \in DOMAIN index : index[n].at <= clock

\* The store has the last name the index gives session s, or is about to get it.
Follows(s) ==
  LET last == index[LastOf(Names(s))] IN
    /\ \A e \in loading : e.session = s => e = last
    /\ last \notin loading => title[s] = last.title

TitleInv ==
  /\ OnDisk /\ torn \in BOOLEAN /\ due \in BOOLEAN /\ cold \in BOOLEAN /\ stops \in 0 .. MaxStops
  /\ torn => index # <<>>
  /\ Live \in Stored /\ saved \in Stored /\ (~cold => saved = NoStore)
  /\ \A s \in Sessions : Told(s, Live) /\ Told(s, saved)
  /\ loading \subseteq {index[n] : n \in DOMAIN index}
  /\ ~cold /\ ~due /\ ~torn => \A s \in Codex : Names(s) # {} => Follows(s)

LEMMA TimesAreNumbers ==
  ASSUME OnDisk
  PROVE  /\ \A n \in DOMAIN index : index[n] \in IndexEntry /\ index[n].at \in Nat
         /\ \A s \in Sessions : \A n \in DOMAIN lines[s] :
              lines[s][n] \in Line /\ lines[s][n].at \in Nat
  <1>1. \A n \in DOMAIN index : index[n] \in IndexEntry
    BY DEF OnDisk
  <1>2. \A s \in Sessions : \A n \in DOMAIN lines[s] : lines[s][n] \in Line
    <2>1. TAKE s \in Sessions
    <2>2. lines[s] \in Seq(Line)
      BY DEF OnDisk
    <2> QED
      BY <2>2
  <1>3. \A e \in IndexEntry : e.at \in Nat
    BY DEF IndexEntry
  <1>4. \A l \in Line : l.at \in Nat
    BY DEF Line
  <1> QED
    BY <1>1, <1>2, <1>3, <1>4

LEMMA NoStoreIs ==
  /\ NoStore \in Stored
  /\ \A s \in Sessions : NoStore.title[s] = NoTitle /\ NoStore.plain[s] = NoTitle
       /\ NoStore.source[s] = "none" /\ NoStore.active[s] = 0 /\ NoStore.read[s] = 0
  BY DEF NoStore, Untitled, Stored, Shown

\* Nothing read is no title.
LEMMA NothingRead ==
  ASSUME OnDisk, NEW s \in Sessions
  PROVE  Told(s, NoStore)
  <1>1. /\ lines[s] \in Seq(Line) /\ Len(lines[s]) \in Nat /\ clock \in Nat
        /\ DOMAIN lines[s] = 1 .. Len(lines[s])
    BY DEF OnDisk
  <1>2. Before(ByHand(s), 0) = {} /\ Before(TitlingPrompts(s), 0) = {}
    BY <1>1 DEF Before, ByHand, TitlingPrompts
  <1>3. TitleAt(s, 0) = NoTitle
    BY <1>2 DEF TitleAt
  <1> QED
    BY <1>1, <1>3, NoStoreIs DEF Told

LEMMA InitTitle == TitleInit => TitleInv
  <1> SUFFICES ASSUME TitleInit PROVE TitleInv
    OBVIOUS
  <1>1. OnDisk
    BY DEF TitleInit, OnDisk
  <1>2. Live = NoStore /\ saved = NoStore
    BY DEF TitleInit, Live, NoStore
  <1>3. index = <<>> /\ DOMAIN index = {} /\ loading = {} /\ due = TRUE
    BY DEF TitleInit
  <1>4. \A s \in Sessions : Told(s, Live) /\ Told(s, saved)
    BY <1>1, <1>2, NothingRead
  <1>5. Live \in Stored /\ saved \in Stored
    BY <1>2, NoStoreIs
  <1>6. torn = FALSE /\ cold = FALSE /\ stops \in 0 .. MaxStops
    BY TitlesAssumption DEF TitleInit
  <1> QED
    BY <1>1, <1>2, <1>3, <1>4, <1>5, <1>6 DEF TitleInv

LEMMA TypesFromInv ==
  ASSUME TitleInv
  PROVE  TitleTypeOK
  <1>1. /\ title \in [Sessions -> Shown] /\ plain \in [Sessions -> Shown]
        /\ titleSource \in [Sessions -> {"none", "derived", "index", "custom"}]
        /\ activeAt \in [Sessions -> Nat] /\ read \in [Sessions -> Nat]
    BY DEF TitleInv, Live, Stored
  <1>2. \A s \in Sessions : /\ read[s] \in 0 .. Len(lines[s]) /\ activeAt[s] \in 0 .. clock
                            /\ \A n \in DOMAIN lines[s] : lines[s][n] \in Line
    <2>1. TAKE s \in Sessions
    <2>2. /\ lines[s] \in Seq(Line) /\ Len(lines[s]) \in Nat /\ clock \in Nat
          /\ read[s] <= Len(lines[s]) /\ activeAt[s] <= clock
      BY DEF TitleInv, OnDisk, Told, Live
    <2> QED
      BY <1>1, <2>2
  <1>3. /\ \A n \in DOMAIN index : index[n] \in IndexEntry
        /\ loading \subseteq IndexEntry
    BY DEF TitleInv, OnDisk
  <1>4. DOMAIN saved = DOMAIN NoStore
    BY DEF TitleInv, Stored, NoStore
  <1> QED
    BY <1>1, <1>2, <1>3, <1>4 DEF TitleInv, TitleTypeOK, OnDisk, Shown

\* A title is one once there is a line that gives one.
LEMMA TitleAtIs ==
  ASSUME OnDisk, NEW s \in Sessions, NEW r \in Nat, r <= Len(lines[s])
  PROVE  /\ Before(ByHand(s), r) \in SUBSET (1 .. r)
         /\ Before(TitlingPrompts(s), r) \in SUBSET (1 .. r)
         /\ Before(ByHand(s), r) # {} \/ Before(TitlingPrompts(s), r) # {} => TitleAt(s, r) # NoTitle
  <1>1. /\ lines[s] \in Seq(Line) /\ Len(lines[s]) \in Nat
        /\ DOMAIN lines[s] = 1 .. Len(lines[s])
    BY DEF OnDisk
  <1> DEFINE H == Before(ByHand(s), r)
             P == Before(TitlingPrompts(s), r)
  <1>2. H \in SUBSET (1 .. r) /\ P \in SUBSET (1 .. r)
    BY <1>1 DEF Before, ByHand, TitlingPrompts
  <1>3. /\ \A n \in H : lines[s][n].title # NoTitle
        /\ \A n \in P : lines[s][n].title # NoTitle
    BY <1>1, TitlesAssumption DEF Before, ByHand, TitlingPrompts, OnDisk
  <1> HIDE DEF H, P
  <1>4. H # {} => LastOf(H) \in H
    BY <1>2, LastIs, H \in SUBSET (0 .. r)
  <1>5. P # {} => FirstOf(P) \in P
    BY <1>2, FirstIs, P \in SUBSET Nat
  <1> QED
    BY <1>2, <1>3, <1>4, <1>5 DEF TitleAt, H, P

-----------------------------------------------------------------------------
(* Titles: what the steps do to a store's account of a session.               *)

\* One more line read.
LEMMA LineRead ==
  ASSUME OnDisk, NEW s \in Sessions, NEW r \in Nat, r + 1 <= Len(lines[s])
  PROVE  TitleAt(s, r + 1) =
           IF lines[s][r + 1].kind = "custom" THEN lines[s][r + 1].title
           ELSE IF TitleAt(s, r) = NoTitle THEN lines[s][r + 1].title ELSE TitleAt(s, r)
  <1> DEFINE line == lines[s][r + 1]
             H == Before(ByHand(s), r)
             P == Before(TitlingPrompts(s), r)
             HNext == Before(ByHand(s), r + 1)
             PNext == Before(TitlingPrompts(s), r + 1)
  <1>1. /\ lines[s] \in Seq(Line) /\ Len(lines[s]) \in Nat /\ r + 1 \in DOMAIN lines[s]
        /\ DOMAIN lines[s] = 1 .. Len(lines[s]) /\ line \in Line
    BY DEF OnDisk
  <1>2. H \in SUBSET (1 .. r) /\ P \in SUBSET (1 .. r)
    BY TitleAtIs, r <= Len(lines[s]), <1>1
  <1>3. HNext = IF line.kind = "custom" THEN H \cup {r + 1} ELSE H
    BY <1>1 DEF Before, ByHand
  <1>4. PNext = IF line.kind = "prompt" /\ line.title # NoTitle THEN P \cup {r + 1} ELSE P
    BY <1>1 DEF Before, TitlingPrompts
  <1>5. /\ H # {} \/ P # {} => TitleAt(s, r) # NoTitle
        /\ H = {} /\ P = {} => TitleAt(s, r) = NoTitle
    BY TitleAtIs, r <= Len(lines[s]), <1>1 DEF TitleAt
  <1>6. TitleAt(s, r) = IF H # {} THEN lines[s][LastOf(H)].title
                        ELSE IF P # {} THEN lines[s][FirstOf(P)].title ELSE NoTitle
    BY DEF TitleAt
  <1>7. TitleAt(s, r + 1) = IF HNext # {} THEN lines[s][LastOf(HNext)].title
                            ELSE IF PNext # {} THEN lines[s][FirstOf(PNext)].title ELSE NoTitle
    BY DEF TitleAt
  <1>8. line.kind = "custom" \/ line.kind = "prompt"
    BY <1>1 DEF Line
  <1> HIDE DEF H, P, HNext, PNext
  <1>9. CASE line.kind = "custom"
    <2>1. HNext = H \cup {r + 1} /\ LastOf(HNext) = r + 1
      BY <1>2, <1>3, <1>9, OnePlaceMore
    <2> QED
      BY <1>7, <1>9, <2>1
  <1>10. CASE line.kind = "prompt"
    <2>1. HNext = H
      BY <1>3, <1>10
    <2>2. CASE H # {}
      BY <1>5, <1>6, <1>7, <1>10, <2>1, <2>2
    <2>3. CASE H = {} /\ P # {}
      <3>1. PNext # {} /\ FirstOf(PNext) = FirstOf(P)
        BY <1>2, <1>4, <2>3, OnePlaceMore
      <3> QED
        BY <1>5, <1>6, <1>7, <1>10, <2>1, <2>3, <3>1
    <2>4. CASE H = {} /\ P = {}
      <3>1. CASE line.title # NoTitle
        <4>1. PNext = {r + 1} /\ FirstOf(PNext) = r + 1
          BY <1>2, <1>4, <1>10, <2>4, <3>1, OnePlaceMore
        <4> QED
          BY <1>5, <1>7, <1>10, <2>1, <2>4, <4>1
      <3>2. CASE line.title = NoTitle
        <4>1. PNext = {}
          BY <1>4, <2>4, <3>2
        <4> QED
          BY <1>5, <1>7, <1>10, <2>1, <2>4, <3>2, <4>1
      <3> QED
        BY <3>1, <3>2
    <2> QED
      BY <2>2, <2>3, <2>4
  <1> QED
    BY <1>8, <1>9, <1>10

\* Lines and entries that are added change nothing of what was read.
LEMMA ToldStays ==
  ASSUME OnDisk, OnDisk', NEW s \in Sessions, NEW st, st.read[s] \in Nat, st.active[s] \in Nat,
         Told(s, st), clock <= clock', Len(lines[s]) <= Len(lines'[s]),
         \A n \in 1 .. Len(lines[s]) : lines'[s][n] = lines[s][n],
         Names(s)' = {} => Names(s) = {}
  PROVE  Told(s, st)'
  <1>1. /\ Len(lines[s]) \in Nat /\ DOMAIN lines[s] = 1 .. Len(lines[s])
        /\ Len(lines'[s]) \in Nat /\ DOMAIN lines'[s] = 1 .. Len(lines'[s])
        /\ clock \in Nat /\ clock' \in Nat
    BY DEF OnDisk
  <1>2. PICK r : r = st.read[s]
    OBVIOUS
  <1>3. r \in Nat /\ r <= Len(lines[s]) /\ r <= Len(lines'[s])
    BY <1>1, <1>2 DEF Told
  <1>4. /\ Before(ByHand(s), r)' = Before(ByHand(s), r)
        /\ Before(TitlingPrompts(s), r)' = Before(TitlingPrompts(s), r)
    <2>1. \A n : n \in DOMAIN lines'[s] /\ n <= r <=> n \in DOMAIN lines[s] /\ n <= r
      BY <1>1, <1>3
    <2>2. \A n \in DOMAIN lines[s] : lines'[s][n] = lines[s][n]
      BY <1>1
    <2> QED
      BY <2>1, <2>2 DEF Before, ByHand, TitlingPrompts
  <1>5. TitleAt(s, r)' = TitleAt(s, r)
    <2>1. Before(ByHand(s), r) # {} => LastOf(Before(ByHand(s), r)) \in 1 .. Len(lines[s])
      <3>1. PICK H : H = Before(ByHand(s), r)
        OBVIOUS
      <3>2. H \in SUBSET (0 .. r) /\ H \in SUBSET (1 .. r)
        BY <1>3, <3>1, TitleAtIs
      <3>3. H # {} => LastOf(H) \in H
        BY <1>3, <3>2, LastIs
      <3> QED
        BY <1>1, <1>3, <3>1, <3>2, <3>3
    <2>2. Before(TitlingPrompts(s), r) # {} => FirstOf(Before(TitlingPrompts(s), r)) \in 1 .. Len(lines[s])
      <3>1. PICK P : P = Before(TitlingPrompts(s), r)
        OBVIOUS
      <3>2. P \in SUBSET Nat /\ P \in SUBSET (1 .. r)
        BY <1>3, <3>1, TitleAtIs
      <3>3. P # {} => FirstOf(P) \in P
        BY <3>2, FirstIs
      <3> QED
        BY <1>1, <1>3, <3>1, <3>2, <3>3
    <2>3. LastOf(Before(ByHand(s), r))' = LastOf(Before(ByHand(s), r))
          /\ FirstOf(Before(TitlingPrompts(s), r))' = FirstOf(Before(TitlingPrompts(s), r))
      BY <1>4 DEF LastOf, FirstOf
    <2> QED
      BY <1>4, <2>1, <2>2, <2>3 DEF TitleAt
  <1> QED
    BY <1>1, <1>2, <1>3, <1>5 DEF Told

\* Nor does a step that leaves the files and the session alone.
LEMMA ToldSame ==
  ASSUME lines' = lines, index' = index, clock' = clock,
         NEW s, NEW st, NEW later, Told(s, st),
         later.title[s] = st.title[s], later.source[s] = st.source[s],
         later.plain[s] = st.plain[s], later.active[s] = st.active[s], later.read[s] = st.read[s]
  PROVE  Told(s, later)'
  <1>2. PICK r : r = st.read[s]
    OBVIOUS
  <1>3. TitleAt(s, r)' = TitleAt(s, r) /\ Names(s)' = Names(s)
    BY DEF TitleAt, Before, ByHand, TitlingPrompts, LastOf, FirstOf, Names
  <1> QED
    BY <1>2, <1>3 DEF Told

-----------------------------------------------------------------------------
(* Titles: the steps.                                                        *)

LEMMA StoresKept ==
  ASSUME TitleInv, OnDisk', clock <= clock', UNCHANGED <<store, saved>>,
         \A s \in Sessions : /\ Len(lines[s]) <= Len(lines'[s])
                             /\ \A n \in 1 .. Len(lines[s]) : lines'[s][n] = lines[s][n]
                             /\ Names(s)' = {} => Names(s) = {}
  PROVE  Live' \in Stored /\ saved' \in Stored
         /\ \A s \in Sessions : Told(s, Live)' /\ Told(s, saved)'
  <1>1. PICK st : st = Live
    OBVIOUS
  <1>2. PICK cooled : cooled = saved
    OBVIOUS
  <1>3. Live' = st /\ saved' = cooled /\ st \in Stored /\ cooled \in Stored
    BY <1>1, <1>2 DEF TitleInv, store, Live
  <1>4. ASSUME NEW s \in Sessions PROVE Told(s, st)' /\ Told(s, cooled)'
    <2>1. Told(s, st) /\ Told(s, cooled) /\ OnDisk
      BY <1>1, <1>2 DEF TitleInv
    <2>2. /\ st.read[s] \in Nat /\ st.active[s] \in Nat
          /\ cooled.read[s] \in Nat /\ cooled.active[s] \in Nat
      BY <1>3 DEF Stored
    <2> QED
      BY <2>1, <2>2, ToldStays
  <1> QED
    BY <1>3, <1>4

LEMMA WriteLineKeeps ==
  ASSUME TitleInv, NEW s \in Sessions, WriteLine(s)
  PROVE  TitleInv'
  <1>1. PICK kind \in {"prompt"} \cup (IF s \in Claude THEN {"custom"} ELSE {}) :
          \E t \in Titles \cup (IF kind = "prompt" THEN {NoTitle} ELSE {}) :
            lines' = [lines EXCEPT ![s] = Append(@, [kind |-> kind, title |-> t, at |-> clock'])]
    BY DEF WriteLine
  <1>2. PICK t \in Titles \cup (IF kind = "prompt" THEN {NoTitle} ELSE {}) :
          lines' = [lines EXCEPT ![s] = Append(@, [kind |-> kind, title |-> t, at |-> clock'])]
    BY <1>1
  <1>3. clock' = clock + 1 /\ UNCHANGED <<index, torn, store, titleWatcher, cooling>>
    BY DEF WriteLine
  <1>4. PICK line : line = [kind |-> kind, title |-> t, at |-> clock + 1]
    OBVIOUS
  <1>5. /\ OnDisk /\ clock \in Nat /\ lines \in [Sessions -> Seq(Line)]
        /\ lines' = [lines EXCEPT ![s] = Append(@, line)]
    BY <1>2, <1>3, <1>4 DEF TitleInv, OnDisk
  <1>6. /\ line \in Line /\ line.at = clock + 1
        /\ line.kind = "custom" => s \in Claude /\ line.title \in Titles
    BY <1>1, <1>2, <1>4, <1>5 DEF Line
  <1>7. \A u \in Sessions :
          /\ lines[u] \in Seq(Line) /\ Len(lines[u]) \in Nat /\ DOMAIN lines[u] = 1 .. Len(lines[u])
          /\ lines'[u] \in Seq(Line) /\ DOMAIN lines'[u] = 1 .. Len(lines'[u])
          /\ Len(lines'[u]) = IF u = s THEN Len(lines[u]) + 1 ELSE Len(lines[u])
          /\ \A n \in 1 .. Len(lines[u]) : lines'[u][n] = lines[u][n]
          /\ u = s => lines'[u][Len(lines[u]) + 1] = line
    <2>1. TAKE u \in Sessions
    <2>2. lines[u] \in Seq(Line) /\ lines'[u] = IF u = s THEN Append(lines[u], line) ELSE lines[u]
      BY <1>5
    <2>3. CASE u = s
      BY <1>6, <2>2, <2>3
    <2>4. CASE u # s
      BY <2>2, <2>4
    <2> QED
      BY <2>3, <2>4
  <1>8. OnDisk'
    <2>1. \A u \in Sessions : \A n \in DOMAIN lines'[u] :
            /\ lines'[u][n].at <= clock'
            /\ lines'[u][n].kind = "custom" => u \in Claude /\ lines'[u][n].title \in Titles
      <3>1. TAKE u \in Sessions
      <3>2. TAKE n \in DOMAIN lines'[u]
      <3>3. CASE n \in 1 .. Len(lines[u])
        <4>1. lines'[u][n] = lines[u][n] /\ lines[u][n].at <= clock /\ lines[u][n] \in Line
          BY <1>5, <1>7, <3>3 DEF OnDisk
        <4>2. lines[u][n].at \in Nat
          BY <4>1 DEF Line
        <4> QED
          BY <1>3, <1>5, <1>7, <3>3, <4>1, <4>2 DEF OnDisk
      <3>4. CASE n \notin 1 .. Len(lines[u])
        <4>1. u = s /\ n = Len(lines[u]) + 1
          BY <1>7, <3>2, <3>4
        <4> QED
          BY <1>3, <1>5, <1>6, <1>7, <4>1
      <3> QED
        BY <3>3, <3>4
    <2>2. lines' \in [Sessions -> Seq(Line)]
      BY <1>5, <1>6
    <2>3. index' = index /\ clock' \in Nat
      BY <1>3, <1>5
    <2>4. \A n \in DOMAIN index' : index'[n].at <= clock'
      <3>1. \A n \in DOMAIN index : index[n].at \in Nat /\ index[n].at <= clock
        BY <1>5, TimesAreNumbers DEF OnDisk
      <3> QED
        BY <1>3, <1>5, <3>1
    <2> QED
      BY <1>5, <2>1, <2>2, <2>3, <2>4 DEF OnDisk
  <1>9. /\ Live' \in Stored /\ saved' \in Stored
        /\ \A u \in Sessions : Told(u, Live)' /\ Told(u, saved)'
    <2>1. \A u \in Sessions : Names(u)' = Names(u)
      BY <1>3 DEF Names
    <2>2. clock <= clock' /\ UNCHANGED <<store, saved>>
      BY <1>3, <1>5 DEF cooling
    <2>3. \A u \in Sessions : /\ Len(lines[u]) <= Len(lines'[u])
                              /\ \A n \in 1 .. Len(lines[u]) : lines'[u][n] = lines[u][n]
      BY <1>7
    <2> QED
      BY <1>8, <2>1, <2>2, <2>3, StoresKept
  <1>10. \A u : Follows(u)' <=> Follows(u)
    BY <1>3 DEF Follows, Names, LastOf, store, titleWatcher
  <1>11. \A u : Names(u)' = Names(u)
    BY <1>3 DEF Names
  <1> QED
    BY <1>3, <1>8, <1>9, <1>10, <1>11 DEF TitleInv, titleWatcher, cooling, store

LEMMA NameKeeps ==
  ASSUME TitleInv, NEW s \in Codex, NEW t \in Titles, Name(s, t)
  PROVE  TitleInv'
  <1>1. PICK entry : entry = [session |-> s, title |-> t, at |-> clock + 1]
    OBVIOUS
  <1>2. /\ clock' = clock + 1 /\ torn' = TRUE /\ due' = ~cold /\ index' = Append(index, entry)
        /\ UNCHANGED <<lines, store, loading, cooling>> /\ OnDisk /\ clock \in Nat
        /\ index \in Seq(IndexEntry)
    BY <1>1 DEF Name, TitleInv, OnDisk
  <1>3. entry \in IndexEntry /\ entry.at = clock + 1
    BY <1>1, <1>2 DEF IndexEntry
  <1>4. /\ index' \in Seq(IndexEntry) /\ DOMAIN index \subseteq DOMAIN index' /\ index' # <<>>
        /\ \A n \in DOMAIN index : index'[n] = index[n]
        /\ \A n \in DOMAIN index' : n \in DOMAIN index \/ index'[n] = entry
    BY <1>2, <1>3
  <1>5. \A u : Names(u)' = {} => Names(u) = {}
    BY <1>4 DEF Names
  <1>6. OnDisk'
    <2>1. \A n \in DOMAIN index : index[n].at \in Nat /\ index[n].at <= clock
      BY <1>2, TimesAreNumbers DEF OnDisk
    <2>2. \A n \in DOMAIN index' : index'[n].at <= clock'
      BY <1>2, <1>3, <1>4, <2>1
    <2>3. \A u \in Sessions : \A n \in DOMAIN lines[u] : lines[u][n].at \in Nat
      BY <1>2, TimesAreNumbers DEF OnDisk
    <2> QED
      BY <1>2, <1>4, <2>2, <2>3 DEF OnDisk
  <1>7. /\ Live' \in Stored /\ saved' \in Stored
        /\ \A u \in Sessions : Told(u, Live)' /\ Told(u, saved)'
    <2>1. clock <= clock' /\ UNCHANGED <<store, saved>>
      BY <1>2 DEF cooling
    <2>2. \A u \in Sessions : Len(lines[u]) \in Nat
      BY <1>2 DEF OnDisk
    <2>3. \A u \in Sessions : /\ Len(lines[u]) <= Len(lines'[u])
                              /\ \A n \in 1 .. Len(lines[u]) : lines'[u][n] = lines[u][n]
      BY <1>2, <2>2
    <2> QED
      BY <1>5, <1>6, <2>1, <2>3, StoresKept
  <1>8. loading' \subseteq {index'[n] : n \in DOMAIN index'}
    <2>1. loading \subseteq {index[n] : n \in DOMAIN index}
      BY DEF TitleInv
    <2> QED
      BY <1>2, <1>4, <2>1
  <1> QED
    BY <1>2, <1>4, <1>6, <1>7, <1>8 DEF TitleInv, cooling, NoStore, Untitled

LEMMA FinishNameKeeps ==
  ASSUME TitleInv, FinishName
  PROVE  TitleInv'
  <1>1. /\ torn' = FALSE /\ due' = ~cold
        /\ lines' = lines /\ index' = index /\ clock' = clock /\ loading' = loading
        /\ UNCHANGED <<store, cooling>>
    BY DEF FinishName
  <1>2. OnDisk' /\ clock <= clock'
    BY <1>1 DEF TitleInv, OnDisk
  <1>3. \A u \in Sessions : Len(lines[u]) \in Nat /\ Names(u)' = Names(u)
    BY <1>1 DEF TitleInv, OnDisk, Names
  <1>4. /\ Live' \in Stored /\ saved' \in Stored
        /\ \A u \in Sessions : Told(u, Live)' /\ Told(u, saved)'
    BY <1>1, <1>2, <1>3, StoresKept DEF cooling
  <1> QED
    BY <1>1, <1>2, <1>4 DEF TitleInv, cooling, NoStore, Untitled

\* What is read or applied changes one session.
LEMMA OneSession ==
  ASSUME TitleInv, NEW s \in Sessions, UNCHANGED disk, UNCHANGED cooling, Live' \in Stored, Told(s, Live)',
         \A u \in Sessions \ {s} :
           /\ title'[u] = title[u] /\ titleSource'[u] = titleSource[u] /\ plain'[u] = plain[u]
           /\ activeAt'[u] = activeAt[u] /\ read'[u] = read[u]
  PROVE  /\ OnDisk' /\ saved' \in Stored
         /\ \A u \in Sessions : Told(u, Live)' /\ Told(u, saved)'
  <1>1. PICK st : st = Live
    OBVIOUS
  <1>2. PICK later : later = Live'
    OBVIOUS
  <1>3. PICK cooled : cooled = saved
    OBVIOUS
  <1>4. /\ \A u \in Sessions : Told(u, st) /\ Told(u, cooled)
        /\ cooled \in Stored /\ saved' = cooled /\ OnDisk
    BY <1>1, <1>3 DEF TitleInv, cooling
  <1>5. OnDisk' /\ lines' = lines /\ index' = index /\ clock' = clock
    BY <1>4 DEF OnDisk, disk
  <1>6. ASSUME NEW u \in Sessions \ {s} PROVE Told(u, later)'
    <2>1. /\ later.title[u] = st.title[u] /\ later.source[u] = st.source[u]
          /\ later.plain[u] = st.plain[u] /\ later.active[u] = st.active[u]
          /\ later.read[u] = st.read[u]
      BY <1>1, <1>2 DEF Live
    <2> QED
      BY <1>4, <1>5, <2>1, ToldSame
  <1>7. \A u \in Sessions : Told(u, cooled)'
    BY <1>4, <1>5, ToldSame
  <1>8. \A u \in Sessions : Told(u, later)'
    BY <1>2, <1>6
  <1> QED
    BY <1>2, <1>4, <1>5, <1>7, <1>8

LEMMA LiveIs ==
  ASSUME TitleInv
  PROVE  /\ title \in [Sessions -> Shown] /\ plain \in [Sessions -> Shown]
         /\ titleSource \in [Sessions -> {"none", "derived", "index", "custom"}]
         /\ activeAt \in [Sessions -> Nat] /\ read \in [Sessions -> Nat]
         /\ \A s \in Sessions :
              /\ activeAt[s] <= clock /\ read[s] <= Len(lines[s])
              /\ plain[s] = IF title[s] = NoTitle THEN NoTitle ELSE Plain[title[s]]
              /\ s \in Codex => titleSource[s] # "custom"
              /\ Names(s) = {} => title[s] = TitleAt(s, read[s])
  <1>1. \A s \in Sessions : Told(s, Live)
    BY DEF TitleInv
  <1> QED
    BY <1>1 DEF TitleInv, Live, Stored, Told

LEMMA ReadLineKeeps ==
  ASSUME TitleInv, NEW s \in Sessions, ReadLine(s)
  PROVE  TitleInv'
  <1>1. PICK r : r = read[s]
    OBVIOUS
  <1>2. PICK line : line = lines[s][r + 1]
    OBVIOUS
  <1>3. /\ r \in Nat /\ r + 1 <= Len(lines[s]) /\ read' = [read EXCEPT ![s] = r + 1] /\ read'[s] = r + 1
        /\ ~cold /\ UNCHANGED <<disk, titleWatcher, cooling>> /\ OnDisk
        /\ lines[s] \in Seq(Line) /\ Len(lines[s]) \in Nat /\ r + 1 \in DOMAIN lines[s]
    BY <1>1, LiveIs DEF ReadLine, TitleInv, OnDisk
  <1>4. \/ line.kind = "prompt" /\ PromptTurn(s, line.title, line.at)
        \/ line.kind = "custom" /\ TitleTurn(s, line.title, "custom", 0)
    BY <1>1, <1>2, <1>3 DEF ReadLine
  <1>5. /\ line \in Line /\ line.at \in Nat /\ line.at <= clock /\ line.title \in Shown
        /\ line.kind = "custom" => s \in Claude /\ line.title \in Titles
    BY <1>2, <1>3, TimesAreNumbers DEF OnDisk, Line, Shown
  <1>6. PICK old : old = title[s]
    OBVIOUS
  <1>7. PICK new : new = IF line.kind = "custom" THEN line.title
                         ELSE IF old = NoTitle THEN line.title ELSE old
    OBVIOUS
  <1>8. PICK from : from = IF new = old THEN titleSource[s]
                           ELSE IF line.kind = "custom" THEN "custom" ELSE "derived"
    OBVIOUS
  <1>9. PICK at : at = activeAt'[s]
    OBVIOUS
  <1>10. /\ title' = [title EXCEPT ![s] = new]
         /\ titleSource' = [titleSource EXCEPT ![s] = from]
         /\ plain' = [plain EXCEPT ![s] = IF new = NoTitle THEN NoTitle ELSE Plain[new]]
         /\ activeAt' = [activeAt EXCEPT ![s] = at] /\ at \in Nat /\ at <= clock
    <2>1. Rank("custom") >= Rank(titleSource[s])
      BY LiveIs DEF Rank
    <2>2. /\ title = [title EXCEPT ![s] = old] /\ titleSource = [titleSource EXCEPT ![s] = titleSource[s]]
          /\ plain = [plain EXCEPT ![s] = IF old = NoTitle THEN NoTitle ELSE Plain[old]]
          /\ old \in Shown
      BY <1>6, LiveIs
    <2>3. activeAt' = [activeAt EXCEPT ![s] = at] /\ at \in Nat /\ at <= clock
      <3>1. clock \in Nat /\ activeAt[s] \in Nat /\ activeAt[s] <= clock
        BY <1>3, LiveIs DEF OnDisk
      <3>2. CASE line.kind = "prompt"
        <4>1. activeAt' = [activeAt EXCEPT ![s] = line.at]
          BY <1>4, <3>2 DEF PromptTurn
        <4> QED
          BY <1>5, <1>9, <4>1, LiveIs
      <3>3. CASE line.kind = "custom"
        <4>1. activeAt' = [activeAt EXCEPT ![s] = IF @ = 0 THEN 0 ELSE @]
          BY <1>4, <3>3 DEF TitleTurn
        <4> QED
          BY <1>9, <3>1, <4>1, LiveIs
      <3> QED
        BY <1>4, <3>2, <3>3
    <2>4. CASE line.kind = "custom"
      <3>1. TitleTurn(s, line.title, "custom", 0) /\ new = line.title /\ new # NoTitle
        BY <1>4, <1>5, <1>7, <2>4, TitlesAssumption
      <3>2. CASE new # old
        <4>1. SetTitle(s, new, "custom") /\ from = "custom"
          BY <1>6, <1>8, <2>1, <2>4, <3>1, <3>2 DEF TitleTurn, HasNewTitle
        <4> QED
          BY <2>3, <3>1, <4>1 DEF SetTitle
      <3>3. CASE new = old
        <4>1. UNCHANGED <<title, titleSource, plain>> /\ from = titleSource[s]
          BY <1>6, <1>8, <3>1, <3>3 DEF TitleTurn, HasNewTitle, KeepTitle
        <4> QED
          BY <2>2, <2>3, <3>3, <4>1
      <3> QED
        BY <3>2, <3>3
    <2>5. CASE line.kind = "prompt"
      <3>1. PromptTurn(s, line.title, line.at) /\ new = IF old = NoTitle THEN line.title ELSE old
        BY <1>4, <1>7, <2>5
      <3>2. CASE old = NoTitle /\ line.title # NoTitle
        <4>1. SetTitle(s, new, "derived") /\ from = "derived" /\ new # NoTitle
          BY <1>6, <1>8, <2>5, <3>1, <3>2 DEF PromptTurn
        <4> QED
          BY <2>3, <4>1 DEF SetTitle
      <3>3. CASE ~(old = NoTitle /\ line.title # NoTitle)
        <4>1. UNCHANGED <<title, titleSource, plain>> /\ from = titleSource[s] /\ new = old
          BY <1>6, <1>8, <3>1, <3>3 DEF PromptTurn, KeepTitle
        <4> QED
          BY <2>2, <2>3, <4>1
      <3> QED
        BY <3>2, <3>3
    <2> QED
      BY <1>4, <2>4, <2>5
  <1>11. /\ new \in Shown /\ from \in {"none", "derived", "index", "custom"}
         /\ s \in Codex => from # "custom"
         /\ new # NoTitle => Plain[new] \in Titles
    BY <1>5, <1>6, <1>7, <1>8, LiveIs, TitlesAssumption DEF Shown
  <1>12. Live' \in Stored
    BY <1>3, <1>10, <1>11, LiveIs DEF Live, Stored, Shown
  <1>13. Told(s, Live)'
    <2>1. PICK later : later = Live'
      OBVIOUS
    <2>2. /\ later.title[s] = new /\ later.source[s] = from /\ later.active[s] = at
          /\ later.read[s] = r + 1
          /\ later.plain[s] = IF new = NoTitle THEN NoTitle ELSE Plain[new]
      BY <1>3, <1>10, <2>1, LiveIs DEF Live
    <2>3. Names(s) = {} => new = TitleAt(s, r + 1)
      BY <1>1, <1>2, <1>3, <1>6, <1>7, LiveIs, LineRead
    <2>4. Told(s, later)
      BY <1>3, <1>10, <1>11, <2>2, <2>3 DEF Told
    <2>5. Told(s, later)'
      BY <1>3, <2>4, ToldSame DEF disk
    <2> QED
      BY <2>1, <2>5
  <1>14. /\ OnDisk' /\ saved' \in Stored
         /\ \A u \in Sessions : Told(u, Live)' /\ Told(u, saved)'
    BY <1>3, <1>10, <1>12, <1>13, OneSession
  <1>15. ASSUME ~due, ~torn, NEW u \in Codex, Names(u) # {} PROVE Follows(u)'
    <2>1. PICK last : last = index[LastOf(Names(u))]
      OBVIOUS
    <2>2. /\ \A e \in loading : e.session = u => e = last
          /\ last \notin loading => title[u] = last.title
      BY <1>3, <1>15, <2>1 DEF TitleInv, Follows
    <2>3. last.title \in Titles
      <3>1. PICK P : P = Names(u)
        OBVIOUS
      <3>2. P \in SUBSET (0 .. Len(index)) /\ Len(index) \in Nat /\ P \subseteq DOMAIN index
        BY <1>3, <3>1 DEF Names, OnDisk
      <3>3. LastOf(P) \in DOMAIN index
        BY <1>15, <3>1, <3>2, LastIs
      <3> QED
        BY <1>3, <2>1, <3>1, <3>3, TimesAreNumbers DEF IndexEntry
    <2>4. title[u] = last.title => title'[u] = last.title
      <3>1. CASE u # s
        BY <1>10, <3>1, LiveIs
      <3>2. CASE u = s
        <4>1. line.kind = "prompt"
          BY <1>4, <1>5, <1>15, <3>2, TitlesAssumption
        <4> QED
          BY <1>6, <1>7, <1>10, <2>3, <3>2, <4>1, LiveIs, TitlesAssumption
      <3> QED
        BY <3>1, <3>2
    <2>5. last = index[LastOf(Names(u))]' /\ loading' = loading
      BY <1>3, <2>1 DEF disk, titleWatcher, Names, LastOf
    <2> QED
      BY <2>2, <2>4, <2>5 DEF Follows
  <1> QED
    BY <1>3, <1>12, <1>14, <1>15 DEF TitleInv, disk, titleWatcher, cooling, Names

\* The last name a session has is a place in the index.
LEMMA LastNameIs ==
  ASSUME OnDisk, NEW s \in Codex, Names(s) # {}
  PROVE  /\ LastOf(Names(s)) \in DOMAIN index /\ index[LastOf(Names(s))].session = s
         /\ index[LastOf(Names(s))].title \in Titles
         /\ \A n \in DOMAIN index : index[n].session = s => n <= LastOf(Names(s))
  <1>1. PICK P : P = Names(s)
    OBVIOUS
  <1>2. /\ index \in Seq(IndexEntry) /\ Len(index) \in Nat /\ DOMAIN index = 1 .. Len(index)
    BY DEF OnDisk
  <1>3. P \in SUBSET (0 .. Len(index)) /\ P \subseteq DOMAIN index
    BY <1>1, <1>2 DEF Names
  <1>4. LastOf(P) \in P /\ \A m \in P : m <= LastOf(P)
    BY <1>1, <1>2, <1>3, LastIs
  <1>5. \A e \in IndexEntry : e.title \in Titles
    BY DEF IndexEntry
  <1>6. index[LastOf(P)] \in IndexEntry
    BY <1>2, <1>3, <1>4
  <1>7. \A n : n \in P <=> n \in DOMAIN index /\ index[n].session = s
    BY <1>1 DEF Names
  <1> QED
    BY <1>1, <1>3, <1>4, <1>5, <1>6, <1>7

\* A step that leaves the files and the stores alone.
LEMMA StoresSame ==
  ASSUME TitleInv, UNCHANGED <<disk, store, cooling>>
  PROVE  /\ OnDisk' /\ Live' \in Stored /\ saved' \in Stored
         /\ \A u \in Sessions : Told(u, Live)' /\ Told(u, saved)'
  <1>1. OnDisk' /\ clock <= clock'
    BY DEF TitleInv, OnDisk, disk
  <1>2. \A u \in Sessions : Len(lines[u]) \in Nat /\ Names(u)' = Names(u)
    BY DEF TitleInv, OnDisk, Names, disk
  <1>3. lines' = lines /\ UNCHANGED <<store, saved>>
    BY DEF disk, cooling
  <1> QED
    BY <1>1, <1>2, <1>3, StoresKept

LEMMA LoadIndexKeeps ==
  ASSUME TitleInv, LoadIndex
  PROVE  TitleInv'
  <1>1. /\ ~cold /\ due' = FALSE /\ UNCHANGED <<disk, store, cooling>>
        /\ loading' = Winners(IF torn THEN SubSeq(index, 1, Len(index) - 1) ELSE index)
        /\ OnDisk /\ index \in Seq(IndexEntry) /\ Len(index) \in Nat
        /\ DOMAIN index = 1 .. Len(index) /\ (torn => index # <<>>)
    BY DEF LoadIndex, TitleInv, OnDisk
  <1>2. /\ OnDisk' /\ Live' \in Stored /\ saved' \in Stored
        /\ \A u \in Sessions : Told(u, Live)' /\ Told(u, saved)'
    BY <1>1, StoresSame
  <1>3. loading' \subseteq {index[n] : n \in DOMAIN index}
    <2>1. CASE torn
      <3>1. PICK part : part = SubSeq(index, 1, Len(index) - 1)
        OBVIOUS
      <3>2. /\ DOMAIN part = 1 .. Len(index) - 1
            /\ \A n \in DOMAIN part : part[n] = index[n]
        BY <1>1, <2>1, <3>1
      <3>3. loading' \subseteq {part[n] : n \in DOMAIN part}
        BY <1>1, <2>1, <3>1 DEF Winners
      <3> QED
        BY <1>1, <3>2, <3>3
    <2>2. CASE ~torn
      BY <1>1, <2>2 DEF Winners
    <2> QED
      BY <2>1, <2>2
  <1>4. ASSUME ~torn, NEW s \in Codex, Names(s) # {} PROVE Follows(s)'
    <2>1. PICK k : k = LastOf(Names(s))
      OBVIOUS
    <2>2. /\ k \in DOMAIN index /\ index[k].session = s
          /\ \A n \in DOMAIN index : index[n].session = s => n <= k
      BY <1>1, <1>4, <2>1, LastNameIs
    <2>3. loading' = {index[n] : n \in {n \in DOMAIN index :
                        \A i \in n + 1 .. Len(index) : index[i].session # index[n].session}}
      BY <1>1, <1>4 DEF Winners
    <2>4. \A i \in k + 1 .. Len(index) : index[i].session # index[k].session
      BY <1>1, <2>2
    <2>5. index[k] \in loading'
      BY <2>2, <2>3, <2>4
    <2>6. \A e \in loading' : e.session = s => e = index[k]
      <3>1. TAKE e \in loading'
      <3>2. PICK n \in DOMAIN index :
              e = index[n] /\ \A i \in n + 1 .. Len(index) : index[i].session # index[n].session
        BY <2>3
      <3> QED
        BY <1>1, <2>2, <3>2
    <2>7. index' = index /\ LastOf(Names(s))' = k
      BY <1>1, <2>1 DEF disk, Names, LastOf
    <2> QED
      BY <2>5, <2>6, <2>7 DEF Follows
  <1> QED
    BY <1>1, <1>2, <1>3, <1>4 DEF TitleInv, disk, store, cooling, NoStore, Untitled, Names

LEMMA ApplyEntryKeeps ==
  ASSUME TitleInv, NEW entry \in loading, ApplyEntry(entry)
  PROVE  TitleInv'
  <1>1. PICK s : s = entry.session
    OBVIOUS
  <1>2. PICK k \in DOMAIN index : entry = index[k]
    BY DEF TitleInv
  <1>3. /\ loading' = loading \ {entry} /\ TitleTurn(s, entry.title, "index", entry.at)
        /\ UNCHANGED <<disk, read, due, cooling>> /\ OnDisk
    BY <1>1 DEF ApplyEntry, TitleInv
  <1>4. /\ entry \in IndexEntry /\ entry.at \in Nat /\ entry.at <= clock
        /\ s \in Codex /\ s \in Sessions /\ entry.title \in Titles
        /\ k \in Names(s) /\ Names(s) # {}
    BY <1>1, <1>2, <1>3, TimesAreNumbers DEF OnDisk, IndexEntry, Sessions, Names
  <1>5. PICK new : new = entry.title
    OBVIOUS
  <1>6. PICK from : from = titleSource'[s]
    OBVIOUS
  <1>7. PICK at : at = activeAt'[s]
    OBVIOUS
  <1>8. new # NoTitle /\ new \in Titles /\ Plain[new] \in Titles
    BY <1>4, <1>5, TitlesAssumption
  <1>9. /\ title' = [title EXCEPT ![s] = new]
        /\ titleSource' = [titleSource EXCEPT ![s] = from]
        /\ from \in {"none", "derived", "index"}
        /\ plain' = [plain EXCEPT ![s] = Plain[new]]
        /\ activeAt' = [activeAt EXCEPT ![s] = at] /\ at \in Nat /\ at <= clock
    <2>1. activeAt' = [activeAt EXCEPT ![s] = at] /\ at \in Nat /\ at <= clock
      <3>1. clock \in Nat /\ activeAt[s] \in Nat /\ activeAt[s] <= clock
        BY <1>3, <1>4, LiveIs DEF OnDisk
      <3>2. activeAt' = [activeAt EXCEPT ![s] = IF @ = 0 THEN entry.at ELSE @]
        BY <1>3 DEF TitleTurn
      <3> QED
        BY <1>4, <1>7, <3>1, <3>2, LiveIs
    <2>2. /\ titleSource[s] \in {"none", "derived", "index"}
          /\ Rank("index") >= Rank(titleSource[s])
      BY <1>4, LiveIs DEF Rank
    <2>3. CASE title[s] # new
      <3>1. SetTitle(s, new, "index")
        BY <1>3, <1>5, <2>2, <2>3 DEF TitleTurn, HasNewTitle
      <3>2. /\ title' = [title EXCEPT ![s] = new] /\ titleSource' = [titleSource EXCEPT ![s] = "index"]
            /\ plain' = [plain EXCEPT ![s] = Plain[new]]
        BY <3>1 DEF SetTitle
      <3>3. from = "index"
        BY <1>4, <1>6, <3>2, LiveIs
      <3> QED
        BY <2>1, <3>2, <3>3
    <2>4. CASE title[s] = new
      <3>1. UNCHANGED <<title, titleSource, plain>>
        BY <1>3, <1>5, <2>4 DEF TitleTurn, HasNewTitle, KeepTitle
      <3>2. plain[s] = Plain[new]
        BY <1>4, <1>8, <2>4, LiveIs
      <3> QED
        BY <1>4, <1>6, <2>1, <2>2, <2>4, <3>1, <3>2, LiveIs
    <2> QED
      BY <2>3, <2>4
  <1>10. Live' \in Stored
    BY <1>3, <1>4, <1>8, <1>9, LiveIs DEF Live, Stored, Shown
  <1>11. Told(s, Live)'
    <2>1. PICK later : later = Live'
      OBVIOUS
    <2>2. /\ later.title[s] = new /\ later.source[s] = from /\ later.active[s] = at
          /\ later.read[s] = read[s]
          /\ later.plain[s] = Plain[new]
      BY <1>3, <1>4, <1>9, <2>1, LiveIs DEF Live
    <2>3. Told(s, later)
      BY <1>4, <1>8, <1>9, <2>2, LiveIs DEF Told
    <2>4. Told(s, later)'
      BY <1>3, <2>3, ToldSame DEF disk
    <2> QED
      BY <2>1, <2>4
  <1>12. /\ OnDisk' /\ saved' \in Stored
         /\ \A u \in Sessions : Told(u, Live)' /\ Told(u, saved)'
    BY <1>3, <1>4, <1>9, <1>10, <1>11, LiveIs, OneSession
  <1>13. ASSUME ~cold, ~due, ~torn, NEW u \in Codex, Names(u) # {} PROVE Follows(u)'
    <2>1. PICK last : last = index[LastOf(Names(u))]
      OBVIOUS
    <2>2. /\ \A e \in loading : e.session = u => e = last
          /\ last \notin loading => title[u] = last.title
      BY <1>13, <2>1 DEF TitleInv, Follows
    <2>3. last.session = u
      BY <1>3, <1>13, <2>1, LastNameIs
    <2>4. last \notin loading' => title'[u] = last.title
      <3>1. CASE u # s
        BY <1>1, <1>3, <1>9, <2>2, <2>3, <3>1, LiveIs
      <3>2. CASE u = s
        <4>1. entry = last
          BY <1>1, <2>2, <3>2
        <4> QED
          BY <1>4, <1>5, <1>9, <3>2, <4>1, LiveIs
      <3> QED
        BY <3>1, <3>2
    <2>5. last = index[LastOf(Names(u))]'
      BY <1>3, <2>1 DEF disk, Names, LastOf
    <2> QED
      BY <1>3, <2>2, <2>4, <2>5 DEF Follows
  <1> QED
    BY <1>3, <1>10, <1>12, <1>13 DEF TitleInv, disk, cooling, Names, NoStore, Untitled

\* The store is emptied into the snapshot.
LEMMA CoolKeeps ==
  ASSUME TitleInv, Cool
  PROVE  TitleInv'
  <1>1. /\ cold' = TRUE /\ due' = FALSE /\ UNCHANGED <<disk, loading>>
        /\ saved' = Live /\ Live' = NoStore /\ stops' \in 0 .. MaxStops /\ OnDisk
    BY TitlesAssumption DEF Cool, TitleInv, Live, Becomes, NoStore
  <1>2. OnDisk' /\ lines' = lines /\ index' = index /\ clock' = clock
    BY <1>1 DEF disk, OnDisk
  <1>3. PICK st : st = Live
    OBVIOUS
  <1>4. PICK empty : empty = NoStore
    OBVIOUS
  <1>5. ASSUME NEW u \in Sessions PROVE Told(u, st)' /\ Told(u, empty)'
    <2>1. Told(u, st) /\ Told(u, empty)
      BY <1>1, <1>3, <1>4, NothingRead DEF TitleInv
    <2> QED
      BY <1>2, <2>1, ToldSame
  <1>6. Live' \in Stored /\ saved' \in Stored
    BY <1>1, NoStoreIs DEF TitleInv, Stored, Sessions, Shown
  <1>7. \A u \in Sessions : Told(u, Live)' /\ Told(u, saved)'
    BY <1>1, <1>3, <1>4, <1>5
  <1> QED
    BY <1>1, <1>2, <1>6, <1>7 DEF TitleInv, disk

\* And filled again, or not.
LEMMA WarmKeeps ==
  ASSUME TitleInv, Warm
  PROVE  TitleInv'
  <1>1. /\ cold' = FALSE /\ due' = TRUE /\ UNCHANGED <<disk, loading, stops>>
        /\ saved' = NoStore /\ OnDisk
        /\ Becomes(saved) \/ Becomes(NoStore)
    BY DEF Warm, TitleInv, Restored
  <1>2. OnDisk' /\ lines' = lines /\ index' = index /\ clock' = clock
    BY <1>1 DEF disk, OnDisk
  <1>3. Live' = saved \/ Live' = NoStore
    BY <1>1, NoStoreIs DEF Becomes, Live, TitleInv, Stored
  <1>4. PICK st : st = saved
    OBVIOUS
  <1>5. PICK empty : empty = NoStore
    OBVIOUS
  <1>6. ASSUME NEW u \in Sessions PROVE Told(u, st)' /\ Told(u, empty)'
    <2>1. Told(u, st) /\ Told(u, empty)
      BY <1>1, <1>4, <1>5, NothingRead DEF TitleInv
    <2> QED
      BY <1>2, <2>1, ToldSame
  <1>7. Live' \in Stored /\ saved' \in Stored
    BY <1>1, <1>3, NoStoreIs DEF TitleInv, Stored, Sessions, Shown
  <1>8. \A u \in Sessions : Told(u, Live)' /\ Told(u, saved)'
    BY <1>1, <1>3, <1>4, <1>5, <1>6
  <1> QED
    BY <1>1, <1>2, <1>7, <1>8 DEF TitleInv, disk, NoStore, Untitled

LEMMA NextTitle == TitleInv /\ [TitleNext]_titleVars => TitleInv'
  <1> SUFFICES ASSUME TitleInv, [TitleNext]_titleVars PROVE TitleInv'
    OBVIOUS
  <1>1. ASSUME NEW s \in Sessions, WriteLine(s) PROVE TitleInv'
    BY <1>1, WriteLineKeeps
  <1>2. ASSUME NEW s \in Sessions, ReadLine(s) PROVE TitleInv'
    BY <1>2, ReadLineKeeps
  <1>3. ASSUME NEW s \in Codex, NEW t \in Titles, Name(s, t) PROVE TitleInv'
    BY <1>3, NameKeeps
  <1>4. ASSUME NEW entry \in loading, ApplyEntry(entry) PROVE TitleInv'
    BY <1>4, ApplyEntryKeeps
  <1>5. CASE FinishName
    BY <1>5, FinishNameKeeps
  <1>6. CASE LoadIndex
    BY <1>6, LoadIndexKeeps
  <1>7. CASE Cool
    BY <1>7, CoolKeeps
  <1>8. CASE Warm
    BY <1>8, WarmKeeps
  <1>9. CASE UNCHANGED titleVars
    <2>1. /\ OnDisk' /\ Live' \in Stored /\ saved' \in Stored
          /\ \A u \in Sessions : Told(u, Live)' /\ Told(u, saved)'
      BY <1>9, StoresSame DEF titleVars
    <2>2. \A u : Follows(u)' <=> Follows(u)
      BY <1>9 DEF titleVars, disk, store, titleWatcher, Follows, Names, LastOf
    <2>3. \A u : Names(u)' = Names(u)
      BY <1>9 DEF titleVars, disk, Names
    <2> QED
      BY <1>9, <2>1, <2>2, <2>3
         DEF TitleInv, titleVars, disk, titleWatcher, cooling, NoStore, Untitled
  <1> QED
    BY <1>1, <1>2, <1>3, <1>4, <1>5, <1>6, <1>7, <1>8, <1>9 DEF TitleNext

LEMMA TitleInvHolds == TitleSpec => []TitleInv
  BY InitTitle, NextTitle, PTL DEF TitleSpec

-----------------------------------------------------------------------------
(* Titles: the theorems.                                                     *)

\* Every title, its rank and its lower-case form are of their kinds, no transcript is read
\* beyond its end and no session is active after the clock (session/store.go).
THEOREM TitleTypeCorrect == TitleSpec => []TitleTypeOK
  BY TitleInvHolds, TypesFromInv, PTL

LEMMA SettlesFromInv ==
  ASSUME TitleInv
  PROVE  TitleSettles
  <1> SUFFICES ASSUME AllRead, NEW s \in Sessions PROVE title[s] = TitleOnDisk(s)
    BY DEF TitleSettles
  <1>1. /\ OnDisk /\ ~cold /\ ~due /\ ~torn /\ loading = {} /\ read[s] = Len(lines[s])
        /\ lines[s] \in Seq(Line) /\ index \in Seq(IndexEntry)
    BY DEF TitleInv, AllRead, OnDisk
  <1>2. CASE Names(s) = {}
    <2>1. title[s] = TitleAt(s, Len(lines[s]))
      BY <1>1, <1>2, LiveIs
    <2>2. /\ Before(ByHand(s), Len(lines[s])) = ByHand(s)
          /\ Before(TitlingPrompts(s), Len(lines[s])) = TitlingPrompts(s)
      BY <1>1 DEF Before, ByHand, TitlingPrompts
    <2> QED
      BY <1>2, <2>1, <2>2 DEF TitleAt, TitleOnDisk
  <1>3. CASE Names(s) # {}
    <2>1. s \in Codex /\ s \notin Claude
      <3>1. PICK n \in DOMAIN index : index[n].session = s
        BY <1>3 DEF Names
      <3>2. index[n] \in IndexEntry
        BY <1>1
      <3> QED
        BY <3>1, <3>2, TitlesAssumption DEF IndexEntry
    <2>2. ByHand(s) = {}
      BY <1>1, <2>1 DEF ByHand, OnDisk
    <2>3. title[s] = index[LastOf(Names(s))].title
      BY <1>1, <1>3, <2>1 DEF TitleInv, Follows
    <2> QED
      BY <1>3, <2>2, <2>3 DEF TitleOnDisk
  <1> QED
    BY <1>2, <1>3

\* Once all is read, each session has the title the files give it (AddTurnBySessionId,
\* loadIndex, Restore).
THEOREM TitleSettlesCorrect == TitleSpec => []TitleSettles
  BY TitleInvHolds, SettlesFromInv, PTL

LEMMA FoundFromInv ==
  ASSUME TitleInv
  PROVE  FoundByTitle
  <1> SUFFICES ASSUME NEW agents \in {Claude, Codex, Sessions}, NEW s \in agents, title[s] # NoTitle
               PROVE  LET found == GetByTitle(title[s], agents) IN
                        /\ found # {}
                        /\ \A k \in found :
                             Plain[title[k]] = Plain[title[s]] /\ activeAt[k] >= activeAt[s]
    BY DEF FoundByTitle
  <1>1. agents \subseteq Sessions /\ clock \in Nat
    BY DEF Sessions, TitleInv, OnDisk
  <1>2. PICK needle : needle = Plain[title[s]]
    OBVIOUS
  <1>3. needle # NoTitle /\ plain[s] = needle
    BY <1>1, <1>2, LiveIs, TitlesAssumption DEF Shown
  <1>4. PICK exact : exact = Exact(needle, agents)
    OBVIOUS
  <1>5. /\ s \in exact /\ exact \subseteq Sessions
        /\ \A k \in exact : Plain[title[k]] = needle
    BY <1>1, <1>3, <1>4, LiveIs DEF Exact
  <1>6. GetByTitle(title[s], agents) = LastActive(exact)
    BY <1>2, <1>4, <1>5 DEF GetByTitle
  <1>7. \A k \in Sessions : activeAt[k] \in 0 .. clock
    BY <1>1, LiveIs
  <1>8. LastActive(exact) # {}
    <2> DEFINE times == {activeAt[k] : k \in exact}
    <2>1. times \in SUBSET (0 .. clock) /\ times # {}
      BY <1>5, <1>7
    <2> HIDE DEF times
    <2>2. PICK m \in times : \A n \in times : n <= m
      BY <1>1, <2>1, NatMax
    <2>3. PICK k \in exact : activeAt[k] = m
      BY <2>2 DEF times
    <2>4. \A j \in exact : activeAt[j] <= activeAt[k]
      BY <2>2, <2>3 DEF times
    <2> QED
      BY <2>3, <2>4 DEF LastActive
  <1>9. \A k \in LastActive(exact) : k \in exact /\ activeAt[s] <= activeAt[k]
    BY <1>5 DEF LastActive
  <1>10. \A k \in LastActive(exact) :
           Plain[title[k]] = Plain[title[s]] /\ activeAt[k] >= activeAt[s]
    BY <1>1, <1>2, <1>5, <1>7, <1>9
  <1> QED
    BY <1>6, <1>8, <1>10

\* By its title comes the session, or one of the same title that was active as late
\* (GetByTitle, Last; setTitle and Restore keep plainTitleById in step).
THEOREM FoundByTitleCorrect == TitleSpec => []FoundByTitle
  BY TitleInvHolds, FoundFromInv, PTL

-----------------------------------------------------------------------------
(* Permissions: the invariant.                                               *)

\* Places of the denials that the counter counts.
CountedPlaces == {i \in 1 .. Len(denials) : Counted(i)}

\* A list of the telemetry takes from the decisions received, each once.
Kept(list) ==
  /\ \A i \in DOMAIN list : \E n \in DOMAIN decided : list[i] = decided[n]
  /\ DecidedOnce => \A i, j \in DOMAIN list : list[i].id = list[j].id => i = j

PermissionInv ==
  /\ PermissionTypeOK
  /\ counter <= records /\ counter = Cardinality(CountedPlaces) + beyond
  /\ \A i, j \in DOMAIN denials : denials[i].id = denials[j].id /\ denials[i].id # NoId => i = j
  /\ Kept(inMemory) /\ Kept(file)
  /\ \A n \in DOMAIN decided : decided[n].decision = "reject" <=> decided[n].source \in RejectSource
  /\ mishaps = 0 /\ Len(decided) <= maxPermissionRequests =>
       file = decided /\ inMemory \in {<<>>, decided}

LEMMA InitPermission == PermissionInit => PermissionInv
  <1> SUFFICES ASSUME PermissionInit PROVE PermissionInv
    OBVIOUS
  <1>1. /\ denials = <<>> /\ inMemory = <<>> /\ file = <<>> /\ decided = <<>>
        /\ counter = 0 /\ beyond = 0 /\ records = 0 /\ mishaps = 0
    BY DEF PermissionInit
  <1>2. CountedPlaces = {} /\ Cardinality(CountedPlaces) = 0
    BY <1>1, FS_EmptySet DEF CountedPlaces
  <1>3. PermissionTypeOK
    BY <1>1, PermissionsAssumption DEF PermissionTypeOK
  <1> QED
    BY <1>1, <1>2, <1>3 DEF PermissionInv, Kept

LEMMA CountedPlacesFinite ==
  ASSUME PermissionInv
  PROVE  IsFiniteSet(CountedPlaces) /\ Cardinality(CountedPlaces) \in Nat
  <1>1. Len(denials) \in Nat
    BY DEF PermissionInv, PermissionTypeOK
  <1>2. IsFiniteSet(1 .. Len(denials))
    BY <1>1, FS_Interval
  <1>3. IsFiniteSet(CountedPlaces)
    BY <1>2, FS_Subset DEF CountedPlaces
  <1> QED
    BY <1>3, FS_CardinalityType

LEMMA DenyKeeps ==
  ASSUME PermissionInv, NEW kind \in DenialKinds, NEW id \in Calls \cup {NoId}, Deny(id, kind)
  PROVE  PermissionInv'
  <1>1. PICK counts : counts = IF IsCancellationKind(kind) THEN 0 ELSE 1
    OBVIOUS
  <1>2. PICK denial : denial = [id |-> id, kind |-> kind]
    OBVIOUS
  <1>3. /\ records < MaxRecords /\ records' = records + 1 /\ (id # NoId => ~IsDenied(id))
        /\ counter' = counter + counts
        /\ denials' = (IF Len(denials) < denialBudget THEN Append(denials, denial) ELSE denials)
        /\ beyond' = (IF Len(denials) < denialBudget THEN beyond ELSE beyond + counts)
        /\ UNCHANGED <<inMemory, file, decided, mishaps>>
    BY <1>1, <1>2 DEF Deny
  <1>4. /\ counts \in {0, 1} /\ denial \in Denial /\ denials \in Seq(Denial) /\ Len(denials) \in Nat
        /\ counter \in Nat /\ beyond \in Nat /\ records \in Nat /\ MaxRecords \in Nat
        /\ counter <= records /\ records' \in 0 .. MaxRecords
        /\ DOMAIN denials = 1 .. Len(denials)
        /\ counter = Cardinality(CountedPlaces) + beyond
    BY <1>1, <1>2, <1>3, PermissionsAssumption DEF PermissionInv, PermissionTypeOK, Denial
  <1>5. IsFiniteSet(CountedPlaces) /\ Cardinality(CountedPlaces) \in Nat
    BY CountedPlacesFinite
  <1>6. /\ denials' \in Seq(Denial) /\ Len(denials') <= denialBudget
        /\ Cardinality(CountedPlaces') = IF Len(denials) < denialBudget
                                         THEN Cardinality(CountedPlaces) + counts
                                         ELSE Cardinality(CountedPlaces)
        /\ \A i, j \in DOMAIN denials' :
             denials'[i].id = denials'[j].id /\ denials'[i].id # NoId => i = j
    <2>1. CASE Len(denials) < denialBudget
      <3>1. PICK k : k = Len(denials) + 1
        OBVIOUS
      <3>2. /\ denials' = Append(denials, denial) /\ denials' \in Seq(Denial)
            /\ Len(denials') = k /\ DOMAIN denials' = 1 .. k /\ k \notin 1 .. Len(denials)
            /\ \A i \in 1 .. Len(denials) : denials'[i] = denials[i]
            /\ denials'[k] = denial /\ 1 .. k = (1 .. Len(denials)) \cup {k}
        BY <1>3, <1>4, <2>1, <3>1
      <3>3. k \notin CountedPlaces
        BY <3>2 DEF CountedPlaces
      <3>4. ASSUME counts = 1 PROVE Cardinality(CountedPlaces') = Cardinality(CountedPlaces) + counts
        <4>1. CountedPlaces' = CountedPlaces \cup {k}
          BY <1>1, <1>2, <3>2, <3>4 DEF CountedPlaces, Counted
        <4>2. Cardinality(CountedPlaces \cup {k}) = Cardinality(CountedPlaces) + 1
          BY <1>5, <3>3, FS_AddElement
        <4> QED
          BY <3>4, <4>1, <4>2
      <3>5. ASSUME counts = 0 PROVE Cardinality(CountedPlaces') = Cardinality(CountedPlaces) + counts
        <4>1. CountedPlaces' = CountedPlaces
          BY <1>1, <1>2, <3>2, <3>5 DEF CountedPlaces, Counted
        <4> QED
          BY <1>5, <3>5, <4>1
      <3>6. \A i, j \in DOMAIN denials' :
              denials'[i].id = denials'[j].id /\ denials'[i].id # NoId => i = j
        <4>1. \A i \in 1 .. Len(denials) : id # NoId => denials[i].id # id
          BY <1>3 DEF IsDenied
        <4>2. denials'[k].id = id
          BY <1>2, <3>2
        <4>3. \A i, j \in 1 .. Len(denials) :
                denials[i].id = denials[j].id /\ denials[i].id # NoId => i = j
          BY <1>4 DEF PermissionInv
        <4> QED
          BY <3>2, <4>1, <4>2, <4>3
      <3>7. Len(denials') <= denialBudget
        BY <1>4, <2>1, <3>1, <3>2, PermissionsAssumption
      <3> QED
        BY <1>4, <3>2, <3>4, <3>5, <3>6, <3>7, <2>1
    <2>2. CASE ~(Len(denials) < denialBudget)
      <3>1. denials' = denials
        BY <1>3, <2>2
      <3>2. CountedPlaces' = CountedPlaces
        BY <3>1 DEF CountedPlaces, Counted
      <3> QED
        BY <2>2, <3>1, <3>2 DEF PermissionInv, PermissionTypeOK
    <2> QED
      BY <2>1, <2>2
  <1>7. /\ counter' \in Nat /\ counter' <= records' /\ counter' = Cardinality(CountedPlaces') + beyond'
        /\ beyond' \in Nat /\ beyond' <= counter'
    <2>1. PICK all : all = Cardinality(CountedPlaces)
      OBVIOUS
    <2>2. PICK later : later = Cardinality(CountedPlaces')
      OBVIOUS
    <2>3. all \in Nat /\ counter = all + beyond
          /\ later = IF Len(denials) < denialBudget THEN all + counts ELSE all
      BY <1>4, <1>5, <1>6, <2>1, <2>2
    <2>4. beyond' = IF Len(denials) < denialBudget THEN beyond ELSE beyond + counts
      BY <1>3
    <2>5. /\ counter' = counter + counts /\ records' = records + 1 /\ counts \in {0, 1}
          /\ counter \in Nat /\ beyond \in Nat /\ records \in Nat /\ counter <= records
      BY <1>3, <1>4
    <2>6. counter' = later + beyond' /\ later \in Nat /\ beyond' \in Nat
      BY <2>3, <2>4, <2>5
    <2> QED
      BY <2>2, <2>5, <2>6
  <1>8. counter' \in 0 .. MaxRecords /\ beyond' \in 0 .. MaxRecords
    BY <1>4, <1>7
  <1>9. PermissionTypeOK'
    BY <1>3, <1>4, <1>6, <1>8 DEF PermissionInv, PermissionTypeOK
  <1>10. Kept(inMemory)' /\ Kept(file)'
    BY <1>3 DEF PermissionInv, Kept, DecidedOnce
  <1> QED
    BY <1>3, <1>6, <1>7, <1>9, <1>10 DEF PermissionInv

\* The lists are as long as the decisions, and hold no tool use twice.
LEMMA DecideKeeps ==
  ASSUME PermissionInv, NEW id \in Calls, NEW source \in Sources, Decide(id, source)
  PROVE  PermissionInv'
  <1>1. PICK request : request = [id |-> id, source |-> source,
                        decision |-> IF source \in RejectSource THEN "reject" ELSE "accept"]
    OBVIOUS
  <1>2. PICK known : known = IF inMemory = <<>> THEN file ELSE inMemory
    OBVIOUS
  <1>3. PICK kept : kept = IF Len(known) < maxPermissionRequests THEN Append(known, request)
                           ELSE known
    OBVIOUS
  <1>4. /\ records < MaxRecords /\ records' = records + 1
        /\ inMemory' = kept /\ decided' = Append(decided, request)
        /\ \/ file' = kept /\ mishaps' = mishaps
           \/ mishaps < MaxMishaps /\ mishaps' = mishaps + 1 /\ file' = file
        /\ counter' = counter /\ denials' = denials /\ beyond' = beyond
    BY <1>1, <1>2, <1>3 DEF Decide
  <1>5. /\ request \in Request /\ decided \in Seq(Request) /\ known \in Seq(Request)
        /\ Len(known) \in Nat /\ Len(known) <= maxPermissionRequests
        /\ Len(decided) \in Nat /\ maxPermissionRequests \in Nat
    BY <1>1, <1>2, PermissionsAssumption DEF PermissionInv, PermissionTypeOK, Request
  <1>6. PICK k : k = Len(decided) + 1
    OBVIOUS
  <1>7. /\ decided' \in Seq(Request) /\ DOMAIN decided' = (DOMAIN decided) \cup {k}
        /\ k \notin DOMAIN decided /\ decided'[k] = request /\ Len(decided') = k
        /\ \A n \in DOMAIN decided : decided'[n] = decided[n]
        /\ DOMAIN decided = 1 .. Len(decided) /\ DOMAIN decided' = 1 .. Len(decided')
    BY <1>4, <1>5, <1>6
  <1>8. /\ DecidedOnce' => DecidedOnce
        /\ DecidedOnce' => \A n \in DOMAIN decided : decided[n].id # id
    <2>1. request.id = id
      BY <1>1
    <2> QED
      BY <1>7, <2>1 DEF DecidedOnce
  <1>9. /\ \A i \in DOMAIN known : \E n \in DOMAIN decided : known[i] = decided[n]
        /\ DecidedOnce => \A i, j \in DOMAIN known : known[i].id = known[j].id => i = j
    BY <1>2 DEF PermissionInv, Kept
  <1>10. /\ kept \in Seq(Request) /\ Len(kept) <= maxPermissionRequests
    BY <1>3, <1>5
  <1>11. /\ \A i \in DOMAIN kept : \E n \in DOMAIN decided' : kept[i] = decided'[n]
         /\ DecidedOnce' => \A i, j \in DOMAIN kept : kept[i].id = kept[j].id => i = j
    <2>1. CASE Len(known) < maxPermissionRequests
      <3>1. PICK m : m = Len(known) + 1
        OBVIOUS
      <3>2. /\ DOMAIN kept = (DOMAIN known) \cup {m} /\ m \notin DOMAIN known /\ kept[m] = request
            /\ \A i \in DOMAIN known : kept[i] = known[i]
        BY <1>3, <1>5, <2>1, <3>1
      <3>3. request.id = id
        BY <1>1
      <3>4. \A i \in DOMAIN kept : \E n \in DOMAIN decided' : kept[i] = decided'[n]
        BY <1>7, <1>9, <3>2
      <3>5. ASSUME DecidedOnce', NEW i \in DOMAIN kept, NEW j \in DOMAIN kept,
                   kept[i].id = kept[j].id
            PROVE  i = j
        <4>1. \A n \in DOMAIN known : known[n].id # id
          BY <1>8, <1>9, <3>5
        <4> QED
          BY <1>8, <1>9, <3>2, <3>3, <3>5, <4>1
      <3> QED
        BY <3>4, <3>5
    <2>2. CASE ~(Len(known) < maxPermissionRequests)
      BY <1>3, <1>7, <1>8, <1>9, <2>2
    <2> QED
      BY <2>1, <2>2
  <1>12. Kept(inMemory)'
    BY <1>4, <1>11 DEF Kept
  <1>13. Kept(file)'
    <2>1. CASE file' = kept
      BY <1>11, <2>1 DEF Kept
    <2>2. CASE file' = file
      BY <1>7, <1>8, <2>2 DEF PermissionInv, Kept
    <2> QED
      BY <1>4, <2>1, <2>2
  <1>14. PermissionTypeOK'
    <2>1. mishaps \in 0 .. MaxMishaps /\ MaxMishaps \in Nat /\ records \in 0 .. MaxRecords
          /\ MaxRecords \in Nat
      BY PermissionsAssumption DEF PermissionInv, PermissionTypeOK
    <2>2. mishaps' \in 0 .. MaxMishaps /\ records' \in 0 .. MaxRecords
      BY <1>4, <2>1
    <2>3. file' \in Seq(Request) /\ Len(file') <= maxPermissionRequests
      BY <1>4, <1>10 DEF PermissionInv, PermissionTypeOK
    <2>4. inMemory' \in Seq(Request) /\ Len(inMemory') <= maxPermissionRequests
      BY <1>4, <1>10
    <2>5. counter' \in 0 .. MaxRecords /\ beyond' \in 0 .. MaxRecords
          /\ denials' \in Seq(Denial) /\ Len(denials') <= denialBudget
      BY <1>4 DEF PermissionInv, PermissionTypeOK
    <2> QED
      BY <1>7, <2>2, <2>3, <2>4, <2>5 DEF PermissionTypeOK
  <1>15. counter' <= records' /\ counter' = Cardinality(CountedPlaces)' + beyond'
    <2>1. CountedPlaces' = CountedPlaces
      BY <1>4 DEF CountedPlaces, Counted
    <2> QED
      BY <1>4, <2>1 DEF PermissionInv, PermissionTypeOK
  <1>16. \A n \in DOMAIN decided' : decided'[n].decision = "reject" <=> decided'[n].source \in RejectSource
    BY <1>1, <1>7 DEF PermissionInv
  <1>17. ASSUME mishaps' = 0, Len(decided') <= maxPermissionRequests
         PROVE  file' = decided' /\ inMemory' = decided'
    <2>1. mishaps = 0 /\ file' = kept /\ Len(decided) < maxPermissionRequests
      BY <1>4, <1>5, <1>6, <1>7, <1>17 DEF PermissionInv, PermissionTypeOK
    <2>2. known = decided
      BY <1>2, <1>5, <2>1 DEF PermissionInv
    <2> QED
      BY <1>3, <1>4, <2>1, <2>2
  <1>18. \A i, j \in DOMAIN denials' : denials'[i].id = denials'[j].id /\ denials'[i].id # NoId => i = j
    BY <1>4 DEF PermissionInv
  <1> QED
    BY <1>12, <1>13, <1>14, <1>15, <1>16, <1>17, <1>18 DEF PermissionInv

LEMMA NextPermission == PermissionInv /\ [PermissionNext]_permissionVars => PermissionInv'
  <1> SUFFICES ASSUME PermissionInv, [PermissionNext]_permissionVars PROVE PermissionInv'
    OBVIOUS
  <1>1. ASSUME NEW kind \in DenialKinds, NEW id \in Calls \cup {NoId}, Deny(id, kind)
        PROVE  PermissionInv'
    BY <1>1, DenyKeeps
  <1>2. ASSUME NEW id \in Calls, NEW source \in Sources, Decide(id, source) PROVE PermissionInv'
    BY <1>2, DecideKeeps
  <1>3. CASE EvictDecisions
    <2>1. /\ inMemory' = <<>> /\ counter' = counter /\ denials' = denials /\ file' = file
          /\ beyond' = beyond /\ decided' = decided /\ mishaps' = mishaps /\ records' = records
      BY <1>3 DEF EvictDecisions
    <2>2. CountedPlaces' = CountedPlaces
      BY <2>1 DEF CountedPlaces, Counted
    <2>3. PermissionTypeOK'
      BY <2>1, PermissionsAssumption DEF PermissionInv, PermissionTypeOK
    <2> QED
      BY <2>1, <2>2, <2>3 DEF PermissionInv, Kept, DecidedOnce
  <1>4. CASE UNCHANGED permissionVars
    <2>1. CountedPlaces' = CountedPlaces
      BY <1>4 DEF permissionVars, CountedPlaces, Counted
    <2> QED
      BY <1>4, <2>1 DEF permissionVars, PermissionInv, PermissionTypeOK, Kept, DecidedOnce
  <1> QED
    BY <1>1, <1>2, <1>3, <1>4 DEF PermissionNext

LEMMA PermissionInvHolds == PermissionSpec => []PermissionInv
  BY InitPermission, NextPermission, PTL DEF PermissionSpec

-----------------------------------------------------------------------------
(* Permissions: the numbers of the view.                                     *)

LEMMA PartsAddUp ==
  ASSUME NEW S, IsFiniteSet(S), NEW T, T \subseteq S
  PROVE  /\ IsFiniteSet(T) /\ IsFiniteSet(S \ T) /\ Cardinality(T) \in Nat /\ Cardinality(S \ T) \in Nat
         /\ Cardinality(S) \in Nat /\ Cardinality(S) = Cardinality(T) + Cardinality(S \ T)
  <1> DEFINE rest == S \ T
  <1>1. IsFiniteSet(T) /\ IsFiniteSet(rest)
    BY FS_Subset
  <1>2. T \cup rest = S /\ T \cap rest = {}
    OBVIOUS
  <1> SUFFICES /\ Cardinality(T) \in Nat /\ Cardinality(rest) \in Nat /\ Cardinality(S) \in Nat
               /\ Cardinality(S) = Cardinality(T) + Cardinality(rest)
    BY <1>1
  <1> HIDE DEF rest
  <1>3. Cardinality(T \cup rest) = Cardinality(T) + Cardinality(rest) - Cardinality(T \cap rest)
    BY <1>1, FS_Union
  <1>4. Cardinality(S) = Cardinality(T) + Cardinality(rest) - Cardinality({})
    BY <1>2, <1>3
  <1>5. Cardinality({}) = 0
    BY FS_EmptySet
  <1>6. Cardinality(T) \in Nat /\ Cardinality(rest) \in Nat /\ Cardinality(S) \in Nat
    BY <1>1, FS_CardinalityType
  <1> QED
    BY <1>4, <1>5, <1>6

\* What the view lists.
LEMMA ListedIs ==
  ASSUME PermissionInv
  PROVE  /\ Listed \in Seq(Request) /\ Len(Listed) \in Nat /\ DOMAIN Listed = 1 .. Len(Listed)
         /\ Kept(Listed)
         /\ \A i \in DOMAIN Listed : Listed[i].decision = "reject" <=> Listed[i].source \in RejectSource
         /\ mishaps = 0 /\ Len(decided) <= maxPermissionRequests => Listed = decided
  <1>1. Listed = inMemory \/ Listed = file
    BY DEF Listed
  <1>2. Listed \in Seq(Request) /\ Kept(Listed)
    BY <1>1 DEF PermissionInv, PermissionTypeOK
  <1>3. \A i \in DOMAIN Listed : Listed[i].decision = "reject" <=> Listed[i].source \in RejectSource
    BY <1>2 DEF PermissionInv, Kept
  <1>4. mishaps = 0 /\ Len(decided) <= maxPermissionRequests => Listed = decided
    BY DEF PermissionInv, Listed
  <1> QED
    BY <1>2, <1>3, <1>4

LEMMA AttributingIs ==
  ASSUME PermissionInv
  PROVE  /\ Attributing \subseteq Rejects /\ Attributing \subseteq 1 .. Len(Listed)
         /\ IsFiniteSet(Rejects) /\ IsFiniteSet(Attributing)
         /\ \A i \in Attributing : Listed[i].source \in RejectSource /\ Listed[i].id \in CountedDenialIds
  <1>1. IsFiniteSet(1 .. Len(Listed))
    BY ListedIs, FS_Interval
  <1>2. Rejects \subseteq 1 .. Len(Listed) /\ Attributing \subseteq Rejects
    BY DEF Rejects, Attributing
  <1>3. IsFiniteSet(Rejects) /\ IsFiniteSet(Attributing)
    <2>1. IsFiniteSet(Rejects)
      BY <1>1, <1>2, FS_Subset
    <2> QED
      BY <1>2, <2>1, FS_Subset
  <1>4. \A i \in Attributing : Listed[i].source \in RejectSource /\ Listed[i].id \in CountedDenialIds
    BY ListedIs DEF Attributing, Rejects
  <1> QED
    BY <1>2, <1>3, <1>4

\* The sources share the attributions among them.
LEMMA SourcesAddUp ==
  ASSUME PermissionInv
  PROVE  Cardinality(Attributing) = Total([source \in RejectSource |-> DeniedBySource(source)])
  <1> DEFINE From(source) == {i \in Attributing : Listed[i].source = source}
             rest1 == Attributing \ From("config")
             rest2 == rest1 \ From("hook")
             rest3 == rest2 \ From("user_reject")
  <1>1. \A i \in Attributing : Listed[i].source \in {"config", "hook", "user_reject", "user_abort"}
    BY AttributingIs DEF RejectSource
  <1>2. /\ From("config") \subseteq Attributing /\ From("hook") \subseteq rest1
        /\ From("user_reject") \subseteq rest2 /\ From("user_abort") = rest3
    BY <1>1
  <1>3. IsFiniteSet(Attributing)
    BY AttributingIs
  <1>4. \A source \in RejectSource : DeniedBySource(source) = Cardinality(From(source))
    BY DEF DeniedBySource
  <1> HIDE DEF From
  <1>5. /\ Cardinality(Attributing) = Cardinality(From("config")) + Cardinality(rest1)
        /\ IsFiniteSet(rest1) /\ Cardinality(From("config")) \in Nat /\ Cardinality(rest1) \in Nat
    BY <1>2, <1>3, PartsAddUp
  <1> HIDE DEF rest1
  <1>6. /\ Cardinality(rest1) = Cardinality(From("hook")) + Cardinality(rest2)
        /\ IsFiniteSet(rest2) /\ Cardinality(From("hook")) \in Nat /\ Cardinality(rest2) \in Nat
    BY <1>2, <1>5, PartsAddUp DEF rest2
  <1> HIDE DEF rest2
  <1>7. /\ Cardinality(rest2) = Cardinality(From("user_reject")) + Cardinality(rest3)
        /\ IsFiniteSet(rest3) /\ Cardinality(From("user_reject")) \in Nat /\ Cardinality(rest3) \in Nat
    BY <1>2, <1>6, PartsAddUp DEF rest3
  <1> HIDE DEF rest3
  <1>8. Total([source \in RejectSource |-> DeniedBySource(source)])
        = Cardinality(From("config")) + Cardinality(From("hook")) + Cardinality(From("user_reject"))
          + Cardinality(From("user_abort"))
    BY <1>4 DEF Total, RejectSource
  <1> QED
    BY <1>2, <1>5, <1>6, <1>7, <1>8

\* A request attributes one counted denial, and no other request attributes that one.
LEMMA OneDenialEach ==
  ASSUME PermissionInv, DecidedOnce
  PROVE  Cardinality(CountedPlaces) = Cardinality(Attributing) + Unattributed
  <1> DEFINE ids == {Listed[j].id : j \in Attributing}
             taken == {i \in CountedPlaces : denials[i].id \in ids}
             place == [i \in Attributing |-> CHOOSE n \in taken : denials[n].id = Listed[i].id]
  <1>1. Unattributed = Cardinality(CountedPlaces \ taken)
    <2>1. {i \in 1 .. Len(denials) : Counted(i) /\ denials[i].id \notin ids} = CountedPlaces \ taken
      BY DEF CountedPlaces
    <2> QED
      BY <2>1 DEF Unattributed
  <1>2. IsFiniteSet(CountedPlaces)
    BY CountedPlacesFinite
  <1>3. \A i \in Attributing : \E n \in taken : denials[n].id = Listed[i].id
    <2>1. TAKE i \in Attributing
    <2>2. Listed[i].id \in CountedDenialIds
      BY AttributingIs
    <2>3. PICK n \in CountedPlaces : denials[n].id = Listed[i].id
      BY <2>2 DEF CountedDenialIds, CountedPlaces
    <2> QED
      BY <2>3
  <1>4. \A n \in taken : denials[n].id # NoId /\ n \in DOMAIN denials
    <2>1. TAKE n \in taken
    <2>2. PICK j \in Attributing : denials[n].id = Listed[j].id
      OBVIOUS
    <2>3. Listed[j].id # NoId
      BY AttributingIs DEF CountedDenialIds
    <2>4. n \in DOMAIN denials
      BY DEF CountedPlaces, PermissionInv, PermissionTypeOK
    <2> QED
      BY <2>2, <2>3, <2>4
  <1>5. \A i, j \in Attributing : Listed[i].id = Listed[j].id => i = j
    BY AttributingIs, ListedIs DEF Kept
  <1>6. \A i, j \in taken : denials[i].id = denials[j].id => i = j
    BY <1>4 DEF PermissionInv
  <1>7. \A n \in taken : \E i \in Attributing : denials[n].id = Listed[i].id
    OBVIOUS
  <1>8. taken \subseteq CountedPlaces
    OBVIOUS
  <1> HIDE DEF ids, taken
  <1>9. /\ place \in [Attributing -> taken]
        /\ \A i \in Attributing : denials[place[i]].id = Listed[i].id
    BY <1>3
  <1> HIDE DEF place
  <1>10. \A i, j \in Attributing : place[i] = place[j] => i = j
    BY <1>5, <1>9
  <1>11. \A n \in taken : \E i \in Attributing : place[i] = n
    BY <1>6, <1>7, <1>9
  <1>12. ExistsBijection(Attributing, taken)
    <2>1. place \in Injection(Attributing, taken)
      BY <1>9, <1>10 DEF Injection, IsInjective
    <2>2. place \in Surjection(Attributing, taken)
      BY <1>9, <1>11 DEF Surjection
    <2> QED
      BY <2>1, <2>2 DEF ExistsBijection, Bijection
  <1>13. Cardinality(taken) = Cardinality(Attributing)
    BY <1>12, AttributingIs, FS_Bijection
  <1>14. Cardinality(CountedPlaces) = Cardinality(taken) + Cardinality(CountedPlaces \ taken)
    BY <1>2, <1>8, PartsAddUp
  <1> QED
    BY <1>1, <1>13, <1>14

\* Nor do the kinds overlap.
LEMMA KindsAddUp ==
  ASSUME PermissionInv
  PROVE  Cardinality(CountedPlaces) =
           DeniedByKind("automode-blocked") + DeniedByKind("permission-rule") + DeniedByKind("user-rejected")
  <1> DEFINE Of(kind) == {i \in 1 .. Len(denials) : denials[i].kind = kind}
             rest1 == CountedPlaces \ Of("automode-blocked")
             rest2 == rest1 \ Of("permission-rule")
  <1>1. \A i \in 1 .. Len(denials) :
          denials[i].kind \in {"automode-blocked", "permission-rule", "user-rejected", "cancelled"}
    <2>1. denials \in Seq(Denial)
      BY DEF PermissionInv, PermissionTypeOK
    <2>2. \A i \in 1 .. Len(denials) : denials[i] \in Denial
      BY <2>1
    <2> QED
      BY <2>2 DEF Denial, DenialKinds
  <1>2. /\ Of("automode-blocked") \subseteq CountedPlaces /\ Of("permission-rule") \subseteq rest1
        /\ Of("user-rejected") = rest2
    BY <1>1 DEF CountedPlaces, Counted, IsCancellationKind
  <1>3. IsFiniteSet(CountedPlaces)
    BY CountedPlacesFinite
  <1>4. \A kind : DeniedByKind(kind) = Cardinality(Of(kind))
    BY DEF DeniedByKind
  <1> HIDE DEF Of
  <1>5. /\ Cardinality(CountedPlaces) = Cardinality(Of("automode-blocked")) + Cardinality(rest1)
        /\ IsFiniteSet(rest1) /\ Cardinality(Of("automode-blocked")) \in Nat
        /\ Cardinality(rest1) \in Nat
    BY <1>2, <1>3, PartsAddUp
  <1> HIDE DEF rest1
  <1>6. /\ Cardinality(rest1) = Cardinality(Of("permission-rule")) + Cardinality(rest2)
        /\ Cardinality(Of("permission-rule")) \in Nat /\ Cardinality(rest2) \in Nat
    BY <1>2, <1>5, PartsAddUp DEF rest2
  <1> HIDE DEF rest2
  <1> QED
    BY <1>2, <1>4, <1>5, <1>6

LEMMA ReconciledFromInv ==
  ASSUME PermissionInv
  PROVE  DenialsReconciled
  <1> SUFFICES ASSUME DecidedOnce
               PROVE  /\ counter = Total([source \in RejectSource |-> DeniedBySource(source)])
                                   + Unattributed + beyond
                      /\ counter = DeniedByKind("automode-blocked") + DeniedByKind("permission-rule")
                                   + DeniedByKind("user-rejected") + beyond
                      /\ (mishaps = 0 /\ Len(decided) <= maxPermissionRequests) =>
                           \A i \in 1 .. Len(decided) : decided[i].decision = "reject" =>
                             IF decided[i].id \in CountedDenialIds
                             THEN DeniedBySource(decided[i].source) > 0 ELSE TelemetryOnly > 0
    BY DEF DenialsReconciled
  <1>1. counter = Cardinality(CountedPlaces) + beyond
    BY DEF PermissionInv
  <1>2. counter = Total([source \in RejectSource |-> DeniedBySource(source)]) + Unattributed + beyond
    BY <1>1, SourcesAddUp, OneDenialEach
  <1>3. counter = DeniedByKind("automode-blocked") + DeniedByKind("permission-rule")
                  + DeniedByKind("user-rejected") + beyond
    BY <1>1, KindsAddUp
  <1>4. ASSUME mishaps = 0, Len(decided) <= maxPermissionRequests, NEW i \in 1 .. Len(decided),
               decided[i].decision = "reject"
        PROVE  IF decided[i].id \in CountedDenialIds
               THEN DeniedBySource(decided[i].source) > 0 ELSE TelemetryOnly > 0
    <2>1. Listed = decided
      BY <1>4, ListedIs
    <2>2. i \in Rejects
      BY <1>4, <2>1 DEF Rejects
    <2>3. CASE decided[i].id \in CountedDenialIds
      <3> DEFINE alike == {j \in Attributing : Listed[j].source = decided[i].source}
      <3>1. i \in alike
        BY <2>1, <2>2, <2>3 DEF Attributing
      <3>2. IsFiniteSet(alike)
        BY AttributingIs, FS_Subset
      <3>3. Cardinality(alike) \in Nat /\ Cardinality(alike) # 0
        BY <3>1, <3>2, FS_CardinalityType, FS_EmptySet
      <3>4. DeniedBySource(decided[i].source) = Cardinality(alike)
        BY DEF DeniedBySource
      <3> QED
        BY <2>3, <3>3, <3>4
    <2>4. CASE decided[i].id \notin CountedDenialIds
      <3> DEFINE others == Rejects \ Attributing
      <3>1. i \in others
        BY <2>1, <2>2, <2>4 DEF Attributing
      <3>2. IsFiniteSet(others)
        BY AttributingIs, FS_Subset
      <3>3. Cardinality(others) \in Nat /\ Cardinality(others) # 0
        BY <3>1, <3>2, FS_CardinalityType, FS_EmptySet
      <3>4. TelemetryOnly = Cardinality(others)
        BY DEF TelemetryOnly
      <3> QED
        BY <2>4, <3>3, <3>4
    <2> QED
      BY <2>3, <2>4
  <1> QED
    BY <1>2, <1>3, <1>4

\* In whatever order the transcript and the telemetry tell of them, every denial the ledger
\* counts is attributed to one source, or unattributed, or had no place in the list; and no
\* eviction takes an attribution back (reconcileDenials, AddEvent, foldDecision).
THEOREM DenialsReconciledCorrect == PermissionSpec => []DenialsReconciled
  BY PermissionInvHolds, ReconciledFromInv, PTL

-----------------------------------------------------------------------------
(* The Codex session: the invariant.                                         *)

RolloutLine ==
  [file : Rollouts, type : {"meta", "context", "call", "output", "assistant", "tokens"}, id : Nat,
   isYes : BOOLEAN, model : Models \cup {NoModel}, plan : Plans \cup {NoPlan}]

\* What Codex writes: a rollout begins with its meta line, an output names a call before it
\* in the same rollout, and no call has two.
RolloutsOK ==
  /\ rolloutLog \in Seq(RolloutLine)
  /\ \A n \in DOMAIN rolloutLog : LET line == rolloutLog[n] IN
       /\ line.type = "meta" <=> \A m \in 1 .. n - 1 : rolloutLog[m].file # line.file
       /\ line.type = "meta" /\ line.file = Main => line.isYes
       /\ line.type = "output" => /\ line.id \in 1 .. n - 1 /\ rolloutLog[line.id].type = "call"
                                  /\ rolloutLog[line.id].file = line.file
       /\ line.type # "output" => line.id = 0
       /\ line.plan # NoPlan => line.type = "assistant"
  /\ \A f \in Rollouts : LinesOf(f) # {} => \E n \in LinesOf(f) : rolloutLog[n].type = "meta"
  /\ \A m, n \in DOMAIN rolloutLog :
       rolloutLog[m].id = rolloutLog[n].id /\ rolloutLog[n].id # 0 => m = n

IsOwned(f) == \E n \in LinesOf(f) : rolloutLog[n].type = "meta" /\ rolloutLog[n].isYes

\* The table of a parser has the open escalated calls of its rollout, unless it overflowed.
ParsersOK ==
  /\ parser \in [Rollouts -> Parser]
  /\ \A f \in Rollouts :
       /\ parser[f].hasSession <=> IsOwned(f)
       /\ IsFiniteSet(parser[f].pending) /\ Cardinality(parser[f].pending) <= maxPendingCalls
       /\ parser[f].pending \subseteq WaitingCalls(f, Now)
       /\ NeverFull /\ IsOwned(f) => parser[f].pending = WaitingCalls(f, Now)
       /\ ~IsOwned(f) => parser[f].pending = {}

StoredSession ==
  [isKnown : BOOLEAN, model : Models \cup {NoModel}, usage : Nat, plan : Plans \cup {NoPlan},
   revisions : Seq(Revision), alterations : Nat, denials : Nat, events : Seq(CodexEvent)]

CodexInv ==
  /\ RolloutsOK /\ ParsersOK /\ codexSession \in StoredSession
  /\ ~codexSession.isKnown => codexSession = NoSession
  /\ codexSession.isKnown <=> LinesOf(Main) # {}
  /\ VerdictsExact /\ ProposedPlansKept
  /\ PlanLines # {} => codexSession.plan # NoPlan

\* What the next line of a rollout may be.
CanFollow(f, line) ==
  /\ line \in RolloutLine /\ line.file = f
  /\ line.type = "meta" <=> LinesOf(f) = {}
  /\ line.type = "meta" /\ f = Main => line.isYes
  /\ line.type = "output" => line.id \in OpenCalls(f)
  /\ line.type # "output" => line.id = 0
  /\ line.plan # NoPlan => line.type = "assistant"

LEMMA NextLineIs ==
  ASSUME RolloutsOK, CodexNext
  PROVE  \E f \in Rollouts : \E line : CanFollow(f, line) /\ Read(f, line)
  <1>1. PICK f \in Rollouts : BeginRollout(f) \/ ContinueRollout(f)
    BY DEF CodexNext
  <1>2. OpenCalls(f) \subseteq Nat
    BY DEF OpenCalls, LinesOf, RolloutsOK
  <1>3. CASE BeginRollout(f)
    <2>1. PICK b \in IF f = Main THEN {TRUE} ELSE BOOLEAN : Read(f, MetaLine(f, b))
      BY <1>3 DEF BeginRollout
    <2>2. b \in BOOLEAN /\ (f = Main => b) /\ LinesOf(f) = {}
      BY <1>3, <2>1 DEF BeginRollout
    <2>3. CanFollow(f, MetaLine(f, b))
      BY <2>2 DEF CanFollow, RolloutLine, MetaLine, NewLine
    <2> QED
      BY <2>1, <2>3
  <1>4. CASE ContinueRollout(f)
    <2>1. LinesOf(f) # {}
      BY <1>4 DEF ContinueRollout
    <2>2. \A model \in Models : CanFollow(f, ContextLine(f, model))
      BY <2>1 DEF CanFollow, RolloutLine, ContextLine, NewLine
    <2>3. \A b \in BOOLEAN : CanFollow(f, CallLine(f, b))
      BY <2>1 DEF CanFollow, RolloutLine, CallLine, NewLine
    <2>4. \A id \in OpenCalls(f), b \in BOOLEAN : CanFollow(f, OutputLine(f, id, b))
      BY <1>2, <2>1 DEF CanFollow, RolloutLine, OutputLine, NewLine
    <2>5. \A plan \in Plans \cup {NoPlan} : CanFollow(f, AssistantLine(f, plan))
      BY <2>1 DEF CanFollow, RolloutLine, AssistantLine, NewLine
    <2>6. CanFollow(f, TokensLine(f))
      BY <2>1 DEF CanFollow, RolloutLine, TokensLine, NewLine
    <2>7. \E line : CanFollow(f, line) /\ Read(f, line)
      BY <1>4, <2>2, <2>3, <2>4, <2>5, <2>6, Zenon DEF ContinueRollout
    <2> QED
      BY <2>7
  <1> QED
    BY <1>1, <1>3, <1>4

\* A rollout grows by one line.
Grows(f, line) ==
  /\ f \in Rollouts /\ CanFollow(f, line) /\ RolloutsOK
  /\ rolloutLog' = Append(rolloutLog, line)

LEMMA GrowsIs ==
  ASSUME NEW f, NEW line, Grows(f, line)
  PROVE  /\ Len(rolloutLog) \in Nat /\ DOMAIN rolloutLog = 1 .. Len(rolloutLog)
         /\ Now = Len(rolloutLog) + 1 /\ Now' = Now + 1 /\ Now \in Nat
         /\ rolloutLog' \in Seq(RolloutLine) /\ DOMAIN rolloutLog' = 1 .. Now
         /\ rolloutLog'[Now] = line /\ \A n \in DOMAIN rolloutLog : rolloutLog'[n] = rolloutLog[n]
         /\ \A g : LinesOf(g) \subseteq 1 .. Len(rolloutLog)
         /\ \A g : LinesOf(g)' = IF g = f THEN LinesOf(g) \cup {Now} ELSE LinesOf(g)
  <1>1. line \in RolloutLine /\ line.file = f
    BY DEF Grows, CanFollow
  <1>2. rolloutLog \in Seq(RolloutLine) /\ rolloutLog' = Append(rolloutLog, line)
    BY DEF Grows, RolloutsOK
  <1>3. /\ Len(rolloutLog) \in Nat /\ DOMAIN rolloutLog = 1 .. Len(rolloutLog)
        /\ rolloutLog' \in Seq(RolloutLine) /\ DOMAIN rolloutLog' = 1 .. Len(rolloutLog) + 1
        /\ rolloutLog'[Len(rolloutLog) + 1] = line /\ Len(rolloutLog') = Len(rolloutLog) + 1
        /\ \A n \in DOMAIN rolloutLog : rolloutLog'[n] = rolloutLog[n]
    BY <1>1, <1>2
  <1>4. Now = Len(rolloutLog) + 1 /\ Now' = Now + 1 /\ Now \in Nat
    BY <1>3 DEF Now
  <1>5. \A g : LinesOf(g) \subseteq 1 .. Len(rolloutLog)
    BY <1>3 DEF LinesOf
  <1>6. \A g : LinesOf(g)' = IF g = f THEN LinesOf(g) \cup {Now} ELSE LinesOf(g)
    BY <1>1, <1>3, <1>4 DEF LinesOf
  <1> QED
    BY <1>3, <1>4, <1>5, <1>6

LEMMA RolloutsNext ==
  ASSUME NEW f, NEW line, Grows(f, line)
  PROVE  RolloutsOK'
  <1> DEFINE L == Len(rolloutLog)
  <1>1. /\ L \in Nat /\ DOMAIN rolloutLog = 1 .. L /\ Now = L + 1
        /\ rolloutLog' \in Seq(RolloutLine) /\ DOMAIN rolloutLog' = 1 .. L + 1
        /\ rolloutLog'[L + 1] = line /\ \A n \in 1 .. L : rolloutLog'[n] = rolloutLog[n]
        /\ \A g : LinesOf(g) \subseteq 1 .. L
        /\ \A g : LinesOf(g)' = IF g = f THEN LinesOf(g) \cup {L + 1} ELSE LinesOf(g)
    BY GrowsIs
  <1>2. /\ line \in RolloutLine /\ line.file = f
        /\ line.type = "meta" <=> LinesOf(f) = {}
        /\ line.type = "meta" /\ f = Main => line.isYes
        /\ line.type = "output" => line.id \in OpenCalls(f)
        /\ line.type # "output" => line.id = 0
        /\ line.plan # NoPlan => line.type = "assistant"
    BY DEF Grows, CanFollow
  <1>3. RolloutsOK
    BY DEF Grows
  <1> HIDE DEF L
  <1>4. ASSUME NEW n \in 1 .. L
        PROVE  LET l == rolloutLog'[n] IN
                 /\ l.type = "meta" <=> \A m \in 1 .. n - 1 : rolloutLog'[m].file # l.file
                 /\ l.type = "meta" /\ l.file = Main => l.isYes
                 /\ l.type = "output" => /\ l.id \in 1 .. n - 1 /\ rolloutLog'[l.id].type = "call"
                                         /\ rolloutLog'[l.id].file = l.file
                 /\ l.type # "output" => l.id = 0
                 /\ l.plan # NoPlan => l.type = "assistant"
    <2>1. \A m \in 1 .. n - 1 : m \in 1 .. L /\ rolloutLog'[m] = rolloutLog[m]
      BY <1>1
    <2>2. LET l == rolloutLog[n] IN
            /\ l.type = "meta" <=> \A m \in 1 .. n - 1 : rolloutLog[m].file # l.file
            /\ l.type = "meta" /\ l.file = Main => l.isYes
            /\ l.type = "output" => /\ l.id \in 1 .. n - 1 /\ rolloutLog[l.id].type = "call"
                                    /\ rolloutLog[l.id].file = l.file
            /\ l.type # "output" => l.id = 0
            /\ l.plan # NoPlan => l.type = "assistant"
      BY <1>1, <1>3 DEF RolloutsOK
    <2>3. rolloutLog'[n] = rolloutLog[n]
      BY <1>1
    <2> QED
      BY <2>1, <2>2, <2>3
  <1>5. OpenCalls(f) = {n \in LinesOf(f) : rolloutLog[n].type = "call"
                                           /\ ~ \E m \in LinesOf(f) : rolloutLog[m].id = n}
    BY DEF OpenCalls
  <1>6. LinesOf(f) = {n \in 1 .. L : rolloutLog[n].file = f}
    BY <1>1 DEF LinesOf
  <1>7. LET l == rolloutLog'[L + 1] IN
          /\ l.type = "meta" <=> \A m \in 1 .. L : rolloutLog'[m].file # l.file
          /\ l.type = "meta" /\ l.file = Main => l.isYes
          /\ l.type = "output" => /\ l.id \in 1 .. L /\ rolloutLog'[l.id].type = "call"
                                  /\ rolloutLog'[l.id].file = l.file
          /\ l.type # "output" => l.id = 0
          /\ l.plan # NoPlan => l.type = "assistant"
    BY <1>1, <1>2, <1>5, <1>6
  <1>8. \A n \in 1 .. L + 1 : n \in 1 .. L \/ (n = L + 1 /\ n - 1 = L)
    BY <1>1
  <1>9. \A n \in 1 .. L : rolloutLog[n].id = 0 \/ rolloutLog[rolloutLog[n].id].file = rolloutLog[n].file
    BY <1>1, <1>3 DEF RolloutsOK
  <1>10. ASSUME NEW n \in 1 .. L, rolloutLog[n].id = line.id PROVE line.id = 0
    <2>1. SUFFICES ASSUME line.id # 0 PROVE FALSE
      OBVIOUS
    <2>2. line.id \in LinesOf(f) /\ ~ \E m \in LinesOf(f) : rolloutLog[m].id = line.id
      BY <1>2, <1>5, <2>1
    <2>3. rolloutLog[n].file = f
      BY <1>6, <1>9, <1>10, <2>1, <2>2
    <2> QED
      BY <1>6, <1>10, <2>2, <2>3
  <1>11. \A m, n \in 1 .. L + 1 :
           rolloutLog'[m].id = rolloutLog'[n].id /\ rolloutLog'[n].id # 0 => m = n
    <2>1. \A m, n \in 1 .. L : rolloutLog[m].id = rolloutLog[n].id /\ rolloutLog[n].id # 0 => m = n
      BY <1>1, <1>3 DEF RolloutsOK
    <2> QED
      BY <1>1, <1>8, <1>10, <2>1
  <1>12. ASSUME NEW g \in Rollouts, LinesOf(g)' # {}
         PROVE  \E n \in LinesOf(g)' : rolloutLog'[n].type = "meta"
    <2>1. CASE LinesOf(g) # {}
      <3>1. PICK n \in LinesOf(g) : rolloutLog[n].type = "meta"
        BY <1>3, <2>1 DEF RolloutsOK
      <3> QED
        BY <1>1, <3>1
    <2>2. CASE LinesOf(g) = {}
      BY <1>1, <1>2, <1>12, <2>2
    <2> QED
      BY <2>1, <2>2
  <1>13. \A n \in 1 .. L + 1 : LET l == rolloutLog'[n] IN
           /\ l.type = "meta" <=> \A m \in 1 .. n - 1 : rolloutLog'[m].file # l.file
           /\ l.type = "meta" /\ l.file = Main => l.isYes
           /\ l.type = "output" => /\ l.id \in 1 .. n - 1 /\ rolloutLog'[l.id].type = "call"
                                   /\ rolloutLog'[l.id].file = l.file
           /\ l.type # "output" => l.id = 0
           /\ l.plan # NoPlan => l.type = "assistant"
    BY <1>4, <1>7, <1>8
  <1> QED
    BY <1>1, <1>11, <1>12, <1>13 DEF RolloutsOK

\* What the parser of the line's rollout has afterwards.
LEMMA ParserAfterIs ==
  ASSUME NEW p \in Parser, NEW line \in RolloutLine
  PROVE  LET q == ParserAfter(p, line) IN
         /\ q = [model |-> q.model, pending |-> q.pending, hasSession |-> q.hasSession]
         /\ q.model = p.model \/ q.model = line.model
         /\ q.hasSession = IF line.type = "meta" THEN line.isYes ELSE p.hasSession
         /\ q.pending = IF p.hasSession /\ line.type = "call" /\ line.isYes
                        THEN RememberEscalatedCall(p.pending, Now)
                        ELSE IF p.hasSession /\ line.type = "output" THEN p.pending \ {line.id}
                        ELSE p.pending
  <1>1. p = [model |-> p.model, pending |-> p.pending, hasSession |-> p.hasSession]
    BY DEF Parser
  <1>2. line.type \in {"meta", "context", "call", "output", "assistant", "tokens"}
    BY DEF RolloutLine
  <1>3. CASE line.type = "meta"
    <2>1. ParserAfter(p, line) = [p EXCEPT !.hasSession = line.isYes]
      BY <1>3 DEF ParserAfter
    <2> QED
      BY <1>1, <1>3, <2>1
  <1>4. CASE line.type = "context"
    <2>1. ParserAfter(p, line) = [p EXCEPT !.model = line.model]
      BY <1>4 DEF ParserAfter
    <2> QED
      BY <1>1, <1>4, <2>1
  <1>5. CASE line.type = "call" /\ p.hasSession /\ line.isYes
    <2>1. ParserAfter(p, line) = [p EXCEPT !.pending = RememberEscalatedCall(@, Now)]
      BY <1>5 DEF ParserAfter
    <2> QED
      BY <1>1, <1>5, <2>1
  <1>6. CASE line.type = "output" /\ p.hasSession
    <2>1. ParserAfter(p, line) = [p EXCEPT !.pending = @ \ {line.id}]
      BY <1>6 DEF ParserAfter
    <2> QED
      BY <1>1, <1>6, <2>1
  <1>7. CASE /\ line.type \notin {"meta", "context"}
             /\ ~(line.type = "call" /\ p.hasSession /\ line.isYes)
             /\ ~(line.type = "output" /\ p.hasSession)
    <2>1. ParserAfter(p, line) = p
      BY <1>7 DEF ParserAfter
    <2> QED
      BY <1>1, <1>7, <2>1
  <1> QED
    BY <1>2, <1>3, <1>4, <1>5, <1>6, <1>7

\* The calls that wait: of the past nothing changes, and the line read opens one, answers
\* one or neither.
LEMMA WaitingGrows ==
  ASSUME NEW f, NEW line, Grows(f, line)
  PROVE  /\ \A g \in Rollouts, n \in 1 .. Now : WaitingCalls(g, n)' = WaitingCalls(g, n)
         /\ \A g \in Rollouts \ {f} : WaitingCalls(g, Now)' = WaitingCalls(g, Now)
         /\ WaitingCalls(f, Now)' = IF line.type = "call" /\ line.isYes
                                    THEN WaitingCalls(f, Now) \cup {Now}
                                    ELSE WaitingCalls(f, Now) \ {line.id}
  <1> DEFINE L == Len(rolloutLog)
  <1>1. /\ L \in Nat /\ DOMAIN rolloutLog = 1 .. L /\ Now = L + 1 /\ Now' = L + 2
        /\ rolloutLog' \in Seq(RolloutLine) /\ DOMAIN rolloutLog' = 1 .. L + 1
        /\ rolloutLog'[L + 1] = line /\ \A n \in 1 .. L : rolloutLog'[n] = rolloutLog[n]
        /\ \A g : LinesOf(g) \subseteq 1 .. L
        /\ \A g : LinesOf(g)' = IF g = f THEN LinesOf(g) \cup {L + 1} ELSE LinesOf(g)
    BY GrowsIs
  <1>2. /\ line.type = "output" => line.id \in OpenCalls(f)
        /\ line.type # "output" => line.id = 0
    BY DEF Grows, CanFollow
  <1> HIDE DEF L
  <1>3. ASSUME NEW g, NEW n \in 1 .. L + 1
        PROVE  WaitingCalls(g, n)' = WaitingCalls(g, n)
    BY <1>1 DEF WaitingCalls
  <1>4. ASSUME NEW g \in Rollouts \ {f}
        PROVE  WaitingCalls(g, Now)' = WaitingCalls(g, Now)
    BY <1>1, <1>4 DEF WaitingCalls
  <1>5. line.id \in 0 .. L
    BY <1>1, <1>2 DEF OpenCalls
  <1>6. WaitingCalls(f, Now)' = IF line.type = "call" /\ line.isYes
                                THEN WaitingCalls(f, Now) \cup {Now}
                                ELSE WaitingCalls(f, Now) \ {line.id}
    <2>1. \A c : c \in WaitingCalls(f, Now) <=>
            /\ c \in LinesOf(f) /\ rolloutLog[c].type = "call" /\ rolloutLog[c].isYes
            /\ \A m \in LinesOf(f) : rolloutLog[m].id # c
      BY <1>1 DEF WaitingCalls
    <2>2. \A c : c \in WaitingCalls(f, Now)' <=>
            /\ c \in LinesOf(f)' /\ rolloutLog'[c].type = "call" /\ rolloutLog'[c].isYes
            /\ \A m \in LinesOf(f)' : rolloutLog'[m].id # c
      BY <1>1 DEF WaitingCalls
    <2>3. LinesOf(f)' = LinesOf(f) \cup {L + 1} /\ L + 1 \notin LinesOf(f)
      BY <1>1
    <2>4. \A c \in LinesOf(f) : c \in WaitingCalls(f, Now)' <=> c \in WaitingCalls(f, Now) /\ c # line.id
      BY <1>1, <2>1, <2>2, <2>3
    <2>5. L + 1 \in WaitingCalls(f, Now)' <=> line.type = "call" /\ line.isYes
      <3>1. \A m \in LinesOf(f) : rolloutLog[m].id # L + 1
        <4>1. \A m \in 1 .. L : rolloutLog[m].id = 0 \/ rolloutLog[m].id \in 1 .. m - 1
          BY <1>1 DEF Grows, RolloutsOK
        <4> QED
          BY <1>1, <4>1
      <3> QED
        BY <1>1, <1>5, <2>2, <2>3, <3>1
    <2>6. line.type = "call" => line.id \notin LinesOf(f)
      BY <1>1, <1>2
    <2>7. WaitingCalls(f, Now) \subseteq LinesOf(f)
      BY <2>1
    <2>8. WaitingCalls(f, Now)' \subseteq LinesOf(f) \cup {L + 1}
      BY <2>2, <2>3
    <2>9. CASE line.type = "call" /\ line.isYes
      <3>1. \A c : c \in WaitingCalls(f, Now)' <=> c \in WaitingCalls(f, Now) \/ c = L + 1
        BY <2>4, <2>5, <2>6, <2>7, <2>8, <2>9
      <3> QED
        BY <1>1, <2>9, <3>1
    <2>10. CASE ~(line.type = "call" /\ line.isYes)
      <3>1. \A c : c \in WaitingCalls(f, Now)' <=> c \in WaitingCalls(f, Now) /\ c # line.id
        BY <2>4, <2>5, <2>7, <2>8, <2>10
      <3> QED
        BY <2>10, <3>1
    <2> QED
      BY <2>9, <2>10
  <1> QED
    BY <1>1, <1>3, <1>4, <1>6

\* A table that overflowed has overflowed for good.
LEMMA NeverFullBefore ==
  ASSUME NEW f, NEW line, Grows(f, line), NeverFull'
  PROVE  NeverFull
  <1>1. /\ Now \in Nat \ {0} /\ DOMAIN rolloutLog = 1 .. Now - 1
        /\ \A n \in DOMAIN rolloutLog : rolloutLog'[n] = rolloutLog[n]
        /\ \A g : LinesOf(g) \subseteq DOMAIN rolloutLog
        /\ \A g : LinesOf(g)' = IF g = f THEN LinesOf(g) \cup {Now} ELSE LinesOf(g)
    BY GrowsIs
  <1>2. \A g \in Rollouts : \A n \in LinesOf(g) :
          n \in LinesOf(g)' /\ rolloutLog'[n] = rolloutLog[n] /\ WaitingCalls(g, n)' = WaitingCalls(g, n)
    BY <1>1, WaitingGrows
  <1> QED
    BY <1>2 DEF NeverFull

LEMMA ParsersNext ==
  ASSUME ParsersOK, NEW f, NEW line, Grows(f, line),
         parser' = [parser EXCEPT ![f] = ParserAfter(@, line)]
  PROVE  ParsersOK'
  <1> DEFINE W == WaitingCalls(f, Now)
             p == parser[f]
             q == parser'[f]
             isOpening == line.type = "call" /\ line.isYes
  <1>1. /\ f \in Rollouts /\ line \in RolloutLine /\ line.file = f
        /\ line.type = "meta" <=> LinesOf(f) = {}
        /\ line.type = "output" => line.id \in OpenCalls(f)
        /\ line.type # "output" => line.id = 0
    BY DEF Grows, CanFollow
  <1>2. /\ parser \in [Rollouts -> Parser] /\ p \in Parser /\ q = ParserAfter(p, line)
        /\ \A g \in Rollouts \ {f} : parser'[g] = parser[g]
        /\ DOMAIN parser' = Rollouts
        /\ parser' = [g \in Rollouts |-> IF g = f THEN q ELSE parser[g]]
    BY <1>1 DEF ParsersOK
  <1>3. /\ q = [model |-> q.model, pending |-> q.pending, hasSession |-> q.hasSession]
        /\ q.model = p.model \/ q.model = line.model
        /\ q.hasSession = IF line.type = "meta" THEN line.isYes ELSE p.hasSession
        /\ q.pending = IF p.hasSession /\ isOpening THEN RememberEscalatedCall(p.pending, Now)
                       ELSE IF p.hasSession /\ line.type = "output" THEN p.pending \ {line.id}
                       ELSE p.pending
    BY <1>1, <1>2, ParserAfterIs
  <1>4. /\ \A g \in Rollouts, n \in 1 .. Now : WaitingCalls(g, n)' = WaitingCalls(g, n)
        /\ \A g \in Rollouts \ {f} : WaitingCalls(g, Now)' = WaitingCalls(g, Now)
        /\ WaitingCalls(f, Now)' = IF isOpening THEN W \cup {Now} ELSE W \ {line.id}
    BY WaitingGrows
  <1>5. /\ Now \in Nat \ {0} /\ DOMAIN rolloutLog = 1 .. Now - 1 /\ Now \notin DOMAIN rolloutLog
        /\ rolloutLog'[Now] = line /\ \A n \in DOMAIN rolloutLog : rolloutLog'[n] = rolloutLog[n]
        /\ \A g : LinesOf(g) \subseteq DOMAIN rolloutLog
        /\ \A g : LinesOf(g)' = IF g = f THEN LinesOf(g) \cup {Now} ELSE LinesOf(g)
    BY GrowsIs
  <1>6. /\ p.hasSession \in BOOLEAN /\ (p.hasSession <=> IsOwned(f))
        /\ p.pending \subseteq Nat
        /\ IsFiniteSet(p.pending) /\ Cardinality(p.pending) <= maxPendingCalls
        /\ p.pending \subseteq W /\ (NeverFull /\ IsOwned(f) => p.pending = W)
        /\ ~IsOwned(f) => p.pending = {}
    BY <1>1, <1>2 DEF ParsersOK, Parser
  <1>7. W \subseteq LinesOf(f)
    BY DEF WaitingCalls
  <1> HIDE DEF W, p, q
  <1>8. /\ NeverFull' => NeverFull
        /\ NeverFull' /\ isOpening => Cardinality(W) < maxPendingCalls
    <2>2. Now \in LinesOf(f)' /\ \A n \in {Now} : WaitingCalls(f, n)' = WaitingCalls(f, n)
      BY <1>1, <1>4, <1>5
    <2>3. NeverFull' => NeverFull
      BY NeverFullBefore
    <2>4. ASSUME NeverFull', isOpening PROVE Cardinality(W) < maxPendingCalls
      <3>1. PICK n : n = Now
        OBVIOUS
      <3>2. n \in LinesOf(f)' /\ rolloutLog'[n] = line /\ WaitingCalls(f, n)' = W
        BY <1>5, <2>2, <3>1 DEF W
      <3> QED
        BY <1>1, <2>4, <3>2 DEF NeverFull
    <2> QED
      BY <2>3, <2>4
  <1>9. /\ \A g \in Rollouts \ {f} : IsOwned(g)' <=> IsOwned(g)
        /\ IsOwned(f)' <=> IsOwned(f) \/ (line.type = "meta" /\ line.isYes)
        /\ LinesOf(f) = {} => ~IsOwned(f)
    BY <1>5 DEF IsOwned
  <1>10. q.hasSession \in BOOLEAN /\ (q.hasSession <=> IsOwned(f)')
    <2>1. CASE line.type = "meta"
      <3>1. q.hasSession = line.isYes /\ line.isYes \in BOOLEAN
        BY <1>1, <1>3, <2>1 DEF RolloutLine
      <3>2. IsOwned(f)' <=> line.isYes
        BY <1>1, <1>9, <2>1
      <3> QED
        BY <3>1, <3>2
    <2>2. CASE line.type # "meta"
      <3>1. q.hasSession = p.hasSession
        BY <1>3, <2>2
      <3>2. IsOwned(f)' <=> IsOwned(f)
        BY <1>9, <2>2
      <3> QED
        BY <1>6, <3>1, <3>2
    <2> QED
      BY <2>1, <2>2
  <1>11. /\ q.pending \subseteq Nat /\ IsFiniteSet(q.pending) /\ Cardinality(q.pending) <= maxPendingCalls
         /\ q.pending \subseteq WaitingCalls(f, Now)'
         /\ NeverFull' /\ IsOwned(f)' => q.pending = WaitingCalls(f, Now)'
         /\ ~IsOwned(f)' => q.pending = {}
    <2>1. maxPendingCalls \in Nat /\ 1 <= maxPendingCalls
      BY CodexAssumption
    <2>2. CASE line.type = "meta"
      <3>1. W = {} /\ q.pending = p.pending /\ WaitingCalls(f, Now)' = {}
        BY <1>1, <1>3, <1>4, <1>7, <2>2
      <3> QED
        BY <1>6, <3>1
    <2>3. CASE line.type # "meta" /\ ~IsOwned(f)
      <3>1. q.pending = {} /\ ~IsOwned(f)'
        BY <1>3, <1>6, <1>9, <2>3
      <3> QED
        BY <1>6, <3>1, FS_EmptySet, <2>1
    <2>4. CASE line.type # "meta" /\ IsOwned(f) /\ isOpening
      <3>1. q.pending = RememberEscalatedCall(p.pending, Now) /\ WaitingCalls(f, Now)' = W \cup {Now}
        BY <1>3, <1>4, <1>6, <2>4
      <3>2. Now \notin p.pending
        BY <1>5, <1>6, <1>7
      <3>3. Cardinality(p.pending) \in Nat
        BY <1>6, FS_CardinalityType
      <3>4. CASE Cardinality(p.pending) >= maxPendingCalls
        <4>1. q.pending = {Now}
          BY <3>1, <3>4 DEF RememberEscalatedCall
        <4>2. IsFiniteSet(q.pending) /\ Cardinality(q.pending) = 1
          BY <4>1, FS_Singleton
        <4>3. ~NeverFull'
          BY <1>6, <1>8, <2>1, <2>4, <3>3, <3>4
        <4> QED
          BY <1>5, <1>9, <2>1, <2>4, <3>1, <4>1, <4>2, <4>3
      <3>5. CASE ~(Cardinality(p.pending) >= maxPendingCalls)
        <4>1. q.pending = p.pending \cup {Now}
          BY <3>1, <3>5 DEF RememberEscalatedCall
        <4>2. IsFiniteSet(q.pending) /\ Cardinality(q.pending) = Cardinality(p.pending) + 1
          <5>1. PICK T : T = p.pending
            OBVIOUS
          <5>2. IsFiniteSet(T) /\ Now \notin T
            BY <1>6, <3>2, <5>1
          <5>3. IsFiniteSet(T \cup {Now}) /\ Cardinality(T \cup {Now}) = Cardinality(T) + 1
            BY <5>2, FS_AddElement
          <5> QED
            BY <4>1, <5>1, <5>3
        <4>3. Cardinality(q.pending) <= maxPendingCalls
          BY <2>1, <3>3, <3>5, <4>2
        <4> QED
          BY <1>5, <1>6, <1>8, <1>9, <2>4, <3>1, <4>1, <4>2, <4>3
      <3> QED
        BY <3>4, <3>5
    <2>5. CASE line.type # "meta" /\ IsOwned(f) /\ ~isOpening
      <3>1. WaitingCalls(f, Now)' = W \ {line.id}
        BY <1>4, <2>5
      <3>2. q.pending = p.pending \ {line.id}
        <4>1. CASE line.type = "output"
          BY <1>3, <1>6, <2>5, <4>1
        <4>2. CASE line.type # "output"
          BY <1>1, <1>3, <1>5, <1>6, <1>7, <2>5, <4>2
        <4> QED
          BY <4>1, <4>2
      <3>3. IsFiniteSet(q.pending) /\ Cardinality(q.pending) <= Cardinality(p.pending)
        BY <1>6, <3>2, FS_Subset
      <3>4. Cardinality(q.pending) <= maxPendingCalls
        <4>1. Cardinality(p.pending) \in Nat /\ Cardinality(q.pending) \in Nat
          BY <1>6, <3>3, FS_CardinalityType
        <4> QED
          BY <1>6, <2>1, <3>3, <4>1
      <3> QED
        BY <1>6, <1>8, <1>9, <2>5, <3>1, <3>2, <3>3, <3>4
    <2> QED
      BY <2>2, <2>3, <2>4, <2>5
  <1>12. q \in Parser
    BY <1>1, <1>2, <1>3, <1>10, <1>11 DEF Parser, RolloutLine
  <1>13. parser' \in [Rollouts -> Parser]
    BY <1>2, <1>12
  <1>14. ASSUME NEW g \in Rollouts \ {f}
         PROVE  /\ parser'[g].hasSession <=> IsOwned(g)'
                /\ IsFiniteSet(parser'[g].pending) /\ Cardinality(parser'[g].pending) <= maxPendingCalls
                /\ parser'[g].pending \subseteq WaitingCalls(g, Now)'
                /\ NeverFull' /\ IsOwned(g)' => parser'[g].pending = WaitingCalls(g, Now)'
                /\ ~IsOwned(g)' => parser'[g].pending = {}
    <2>1. /\ parser[g].hasSession <=> IsOwned(g)
          /\ IsFiniteSet(parser[g].pending) /\ Cardinality(parser[g].pending) <= maxPendingCalls
          /\ parser[g].pending \subseteq WaitingCalls(g, Now)
          /\ NeverFull /\ IsOwned(g) => parser[g].pending = WaitingCalls(g, Now)
          /\ ~IsOwned(g) => parser[g].pending = {}
      BY DEF ParsersOK
    <2> QED
      BY <1>2, <1>4, <1>8, <1>9, <2>1
  <1> QED
    BY <1>10, <1>11, <1>13, <1>14 DEF ParsersOK, q

-----------------------------------------------------------------------------
(* The Codex session: what the store makes of a turn.                        *)

LEMMA SessionFields ==
  ASSUME NEW s \in StoredSession
  PROVE  /\ s = [isKnown |-> s.isKnown, model |-> s.model, usage |-> s.usage, plan |-> s.plan,
                 revisions |-> s.revisions, alterations |-> s.alterations,
                 denials |-> s.denials, events |-> s.events]
         /\ s.isKnown \in BOOLEAN /\ s.model \in Models \cup {NoModel} /\ s.usage \in Nat
         /\ s.plan \in Plans \cup {NoPlan} /\ s.revisions \in Seq(Revision)
         /\ s.alterations \in Nat /\ s.denials \in Nat /\ s.events \in Seq(CodexEvent)
  BY DEF StoredSession

LEMMA WithEventsIs ==
  ASSUME NEW s \in StoredSession, NEW events
  PROVE  WithEvents(s, events) =
           [isKnown |-> s.isKnown, model |-> s.model, usage |-> s.usage, plan |-> s.plan,
            revisions |-> s.revisions, alterations |-> s.alterations,
            denials |-> s.denials + Cardinality({k \in DOMAIN events : events[k].kind = "denied"}),
            events |-> s.events \o events]
  <1> DEFINE n == Cardinality({k \in DOMAIN events : events[k].kind = "denied"})
             longer == s.events \o events
  <1>1. WithEvents(s, events) = [s EXCEPT !.events = s.events \o events, !.denials = s.denials + n]
    BY DEF WithEvents
  <1> HIDE DEF n
  <1>2. WithEvents(s, events) = [s EXCEPT !.events = longer, !.denials = s.denials + n]
    BY <1>1
  <1> HIDE DEF longer
  <1>3. WithEvents(s, events) =
          [isKnown |-> s.isKnown, model |-> s.model, usage |-> s.usage, plan |-> s.plan,
           revisions |-> s.revisions, alterations |-> s.alterations,
           denials |-> s.denials + n, events |-> longer]
    BY <1>2, SessionFields
  <1> QED
    BY <1>3 DEF n, longer

LEMMA ListedNone ==
  ASSUME NEW s \in StoredSession
  PROVE  WithEvents(s, <<>>) = s
  <1>1. {k \in DOMAIN << >> : << >>[k].kind = "denied"} = {}
    OBVIOUS
  <1>2. Cardinality({k \in DOMAIN << >> : << >>[k].kind = "denied"}) = 0
    BY <1>1, FS_EmptySet
  <1>3. s.events \o <<>> = s.events /\ s.denials + 0 = s.denials
    BY SessionFields
  <1>4. WithEvents(s, <<>>) =
          [isKnown |-> s.isKnown, model |-> s.model, usage |-> s.usage, plan |-> s.plan,
           revisions |-> s.revisions, alterations |-> s.alterations,
           denials |-> s.denials + 0, events |-> s.events \o <<>>]
    BY <1>2, WithEventsIs
  <1>5. WithEvents(s, <<>>) =
          [isKnown |-> s.isKnown, model |-> s.model, usage |-> s.usage, plan |-> s.plan,
           revisions |-> s.revisions, alterations |-> s.alterations,
           denials |-> s.denials, events |-> s.events]
    BY <1>3, <1>4
  <1> QED
    BY <1>5, SessionFields

LEMMA ListedOne ==
  ASSUME NEW s \in StoredSession, NEW e \in CodexEvent
  PROVE  WithEvents(s, <<e>>) =
           [isKnown |-> s.isKnown, model |-> s.model, usage |-> s.usage, plan |-> s.plan,
            revisions |-> s.revisions, alterations |-> s.alterations,
            denials |-> s.denials + IF e.kind = "denied" THEN 1 ELSE 0,
            events |-> Append(s.events, e)]
  <1> DEFINE K == {k \in DOMAIN <<e>> : <<e>>[k].kind = "denied"}
  <1>1. K = IF e.kind = "denied" THEN {1} ELSE {}
    OBVIOUS
  <1>2. Cardinality({1}) = 1 /\ Cardinality({}) = 0
    BY FS_Singleton, FS_EmptySet
  <1>3. Cardinality(K) = IF e.kind = "denied" THEN 1 ELSE 0
    BY <1>1, <1>2
  <1>4. s.events \o <<e>> = Append(s.events, e)
    BY SessionFields
  <1> QED
    BY <1>3, <1>4, WithEventsIs

\* From s to t no verdict is listed.
SameVerdicts(s, t) ==
  /\ t.denials = s.denials /\ Len(s.events) <= Len(t.events)
  /\ \A k \in 1 .. Len(s.events) : t.events[k] = s.events[k]
  /\ \A k \in Len(s.events) + 1 .. Len(t.events) : ~IsVerdict(t.events[k])

SamePlan(s, t) ==
  t.plan = s.plan /\ t.revisions = s.revisions /\ t.alterations = s.alterations

LEMMA SameVerdictsAgain ==
  ASSUME NEW s \in StoredSession, NEW t \in StoredSession, NEW u \in StoredSession,
         SameVerdicts(s, t), SameVerdicts(t, u)
  PROVE  SameVerdicts(s, u)
  <1>1. Len(s.events) \in Nat /\ Len(t.events) \in Nat /\ Len(u.events) \in Nat
    BY SessionFields
  <1>2. \A k \in Len(s.events) + 1 .. Len(u.events) :
          \/ k \in Len(s.events) + 1 .. Len(t.events) /\ k \in 1 .. Len(t.events)
          \/ k \in Len(t.events) + 1 .. Len(u.events)
    BY <1>1
  <1>3. \A k \in 1 .. Len(s.events) : k \in 1 .. Len(t.events)
    BY <1>1 DEF SameVerdicts
  <1> QED
    BY <1>1, <1>2, <1>3 DEF SameVerdicts

\* One event that is no verdict.
LEMMA OtherListed ==
  ASSUME NEW s \in StoredSession, NEW e \in CodexEvent, ~IsVerdict(e)
  PROVE  LET t == WithEvents(s, <<e>>) IN
           t \in StoredSession /\ SameVerdicts(s, t) /\ SamePlan(s, t) /\ t.isKnown = s.isKnown
           /\ t.model = s.model
  <1> DEFINE t == [isKnown |-> s.isKnown, model |-> s.model, usage |-> s.usage, plan |-> s.plan,
                   revisions |-> s.revisions, alterations |-> s.alterations,
                   denials |-> s.denials, events |-> Append(s.events, e)]
  <1>1. WithEvents(s, <<e>>) = t
    <2>1. e.kind # "denied" /\ s.denials + 0 = s.denials
      BY SessionFields DEF IsVerdict
    <2> QED
      BY <2>1, ListedOne
  <1>2. t \in StoredSession
    BY SessionFields DEF StoredSession
  <1>3. /\ Len(s.events) \in Nat /\ Len(t.events) = Len(s.events) + 1
        /\ \A k \in 1 .. Len(s.events) : t.events[k] = s.events[k]
        /\ t.events[Len(s.events) + 1] = e
    BY SessionFields
  <1>4. t.denials = s.denials /\ t.isKnown = s.isKnown /\ t.model = s.model /\ SamePlan(s, t)
    BY DEF SamePlan
  <1> HIDE DEF t
  <1>5. SameVerdicts(s, t)
    BY <1>3, <1>4 DEF SameVerdicts
  <1> QED
    BY <1>1, <1>2, <1>4, <1>5

LEMMA WithModelIs ==
  ASSUME NEW s \in StoredSession, NEW model \in Models \cup {NoModel}, Now \in Nat
  PROVE  LET t == WithModel(s, model) IN
           t \in StoredSession /\ SameVerdicts(s, t) /\ SamePlan(s, t) /\ t.isKnown = s.isKnown
  <1> DEFINE e == Entry("model", Main, Now)
             u == WithEvents(s, IF IsOtherModel(s, model) THEN <<e>> ELSE <<>>)
             m == IF model = NoModel THEN u.model ELSE model
             t == WithModel(s, model)
  <1>1. e \in CodexEvent /\ ~IsVerdict(e)
    BY DEF CodexEvent, Entry, IsVerdict, Rollouts
  <1>2. u \in StoredSession /\ SameVerdicts(s, u) /\ SamePlan(s, u) /\ u.isKnown = s.isKnown
    <2>1. CASE IsOtherModel(s, model)
      BY <1>1, <2>1, OtherListed
    <2>2. CASE ~IsOtherModel(s, model)
      <3>1. u = s
        BY <2>2, ListedNone
      <3>2. Len(s.events) \in Nat
        BY SessionFields
      <3> QED
        BY <3>1, <3>2 DEF SameVerdicts, SamePlan
    <2> QED
      BY <2>1, <2>2
  <1>3. t = [u EXCEPT !.model = m]
    BY DEF WithModel
  <1> HIDE DEF e, u, t
  <1>4. m \in Models \cup {NoModel}
    BY <1>2, SessionFields
  <1> HIDE DEF m
  <1>5. t = [isKnown |-> u.isKnown, model |-> m, usage |-> u.usage, plan |-> u.plan,
             revisions |-> u.revisions, alterations |-> u.alterations,
             denials |-> u.denials, events |-> u.events]
    <2>1. u = [isKnown |-> u.isKnown, model |-> u.model, usage |-> u.usage, plan |-> u.plan,
               revisions |-> u.revisions, alterations |-> u.alterations,
               denials |-> u.denials, events |-> u.events]
      BY <1>2, SessionFields
    <2> QED
      BY <1>3, <2>1
  <1>6. t \in StoredSession
    BY <1>2, <1>4, <1>5, SessionFields DEF StoredSession
  <1>7. t.denials = u.denials /\ t.events = u.events /\ t.isKnown = u.isKnown
        /\ t.plan = u.plan /\ t.revisions = u.revisions /\ t.alterations = u.alterations
    BY <1>5
  <1> QED
    BY <1>2, <1>6, <1>7 DEF SameVerdicts, SamePlan, t

\* The plan after a text.
PlanTaken(s, t, plan) ==
  IF plan \in {NoPlan, s.plan} THEN SamePlan(s, t)
  ELSE /\ t.plan = plan
       /\ t.revisions =
            IF s.plan = NoPlan \/ Len(s.revisions) < maxPlanRevisions
            THEN Append(s.revisions, [isAlteration |-> Len(s.revisions) >= 1,
                                      from |-> s.plan, to |-> plan])
            ELSE s.revisions
       /\ t.alterations = s.alterations + IF Len(s.revisions) >= 1 THEN 1 ELSE 0

LEMMA PlanSetIs ==
  ASSUME NEW s \in StoredSession, NEW plan \in Plans \cup {NoPlan}
  PROVE  LET t == PlanSet(s, plan) IN
           /\ t \in StoredSession /\ SameVerdicts(s, t) /\ PlanTaken(s, t, plan)
           /\ t.isKnown = s.isKnown /\ (plan = NoPlan => t = s)
  <1> DEFINE isFirst == s.plan = NoPlan
             isAlteration == Len(s.revisions) >= 1
             revision == [isAlteration |-> isAlteration, from |-> s.plan, to |-> plan]
             rs == IF isFirst \/ Len(s.revisions) < maxPlanRevisions
                   THEN Append(s.revisions, revision) ELSE s.revisions
             as == s.alterations + IF isAlteration THEN 1 ELSE 0
             changed == [s EXCEPT !.plan = plan, !.revisions = rs, !.alterations = as]
             e == Entry("plan", Main, Len(s.revisions))
             t == PlanSet(s, plan)
  <1>1. /\ s.plan \in Plans \cup {NoPlan} /\ s.revisions \in Seq(Revision)
        /\ s.alterations \in Nat /\ Len(s.revisions) \in Nat /\ Len(s.events) \in Nat
    BY SessionFields
  <1>2. SameVerdicts(s, s) /\ SamePlan(s, s)
    BY <1>1 DEF SameVerdicts, SamePlan
  <1>3. CASE plan \in {NoPlan, s.plan}
    <2>1. t = s
      BY <1>3 DEF PlanSet
    <2> QED
      BY <1>2, <1>3, <2>1 DEF PlanTaken
  <1>4. CASE plan \notin {NoPlan, s.plan}
    <2>1. t = WithEvents(changed, IF isFirst THEN <<>> ELSE <<e>>)
      BY <1>4 DEF PlanSet, IsAlterationPhase
    <2>2. e \in CodexEvent /\ ~IsVerdict(e)
      BY <1>1 DEF CodexEvent, Entry, IsVerdict, Rollouts
    <2>3. rs \in Seq(Revision) /\ as \in Nat
      <3>1. revision \in Revision
        BY <1>1, <1>4 DEF Revision
      <3> HIDE DEF revision
      <3> QED
        BY <1>1, <3>1
    <2>4. \A u : u.plan = plan /\ u.revisions = rs /\ u.alterations = as => PlanTaken(s, u, plan)
      BY <1>4 DEF PlanTaken
    <2> HIDE DEF rs, as, e
    <2>5. changed = [isKnown |-> s.isKnown, model |-> s.model, usage |-> s.usage, plan |-> plan,
                     revisions |-> rs, alterations |-> as, denials |-> s.denials,
                     events |-> s.events]
      <3>1. s = [isKnown |-> s.isKnown, model |-> s.model, usage |-> s.usage, plan |-> s.plan,
                 revisions |-> s.revisions, alterations |-> s.alterations,
                 denials |-> s.denials, events |-> s.events]
        BY SessionFields
      <3> DEFINE q == [s EXCEPT !.plan = plan]
                 r == [q EXCEPT !.revisions = rs]
      <3>2. changed = [r EXCEPT !.alterations = as]
        OBVIOUS
      <3>3. q = [isKnown |-> s.isKnown, model |-> s.model, usage |-> s.usage, plan |-> plan,
                 revisions |-> s.revisions, alterations |-> s.alterations,
                 denials |-> s.denials, events |-> s.events]
        BY <3>1
      <3> HIDE DEF changed, q
      <3>4. r = [isKnown |-> s.isKnown, model |-> s.model, usage |-> s.usage, plan |-> plan,
                 revisions |-> rs, alterations |-> s.alterations,
                 denials |-> s.denials, events |-> s.events]
        BY <3>3
      <3> HIDE DEF r
      <3> QED
        BY <3>2, <3>4
    <2> HIDE DEF changed
    <2>6. changed \in StoredSession
      BY <2>3, <2>5, SessionFields DEF StoredSession
    <2>7. /\ changed.isKnown = s.isKnown /\ changed.plan = plan /\ changed.revisions = rs
          /\ changed.alterations = as /\ changed.denials = s.denials /\ changed.events = s.events
      BY <2>5
    <2>8. SameVerdicts(s, changed)
      BY <1>1, <2>7 DEF SameVerdicts
    <2>9. t \in StoredSession /\ SameVerdicts(changed, t) /\ SamePlan(changed, t)
          /\ t.isKnown = changed.isKnown
      <3>1. CASE isFirst
        <4>1. t = changed
          BY <2>1, <2>6, <3>1, ListedNone
        <4>2. SameVerdicts(changed, changed) /\ SamePlan(changed, changed)
          BY <1>1, <2>7 DEF SameVerdicts, SamePlan
        <4> QED
          BY <2>6, <4>1, <4>2
      <3>2. CASE ~isFirst
        BY <2>1, <2>2, <2>6, <3>2, OtherListed
      <3> QED
        BY <3>1, <3>2
    <2>10. SameVerdicts(s, t)
      BY <2>6, <2>8, <2>9, SameVerdictsAgain
    <2>11. t.plan = plan /\ t.revisions = rs /\ t.alterations = as
      BY <2>7, <2>9 DEF SamePlan
    <2> QED
      BY <1>4, <2>4, <2>7, <2>9, <2>10, <2>11
  <1> QED
    BY <1>3, <1>4

-----------------------------------------------------------------------------
(* The Codex session: a line read, as the store sees it.                     *)

LEMMA MetaTurnIs ==
  LET t == MetaTurn(Main) IN
    /\ t.actor = Main /\ t.events = <<>> /\ t.isChat = TRUE /\ t.usage = 0
    /\ t.model = NoModel /\ t.plan = NoPlan
  BY DEF MetaTurn, NoTurn

LEMMA TokensTurnIs ==
  LET t == TokensTurn IN
    t.actor = Main /\ t.events = <<>> /\ t.usage = Now /\ t.plan = NoPlan
  BY DEF TokensTurn, NoTurn

LEMMA AssistantTurnIs ==
  ASSUME NEW p, NEW line
  PROVE  LET t == AssistantTurn(p, line) IN
           /\ t.actor = Main /\ t.events = <<>> /\ t.isChat = TRUE /\ t.usage = 0
           /\ t.model = p.model /\ t.plan = line.plan
  BY DEF AssistantTurn, NoTurn

\* The session found or made.
Known == [codexSession EXCEPT !.isKnown = TRUE]

LEMMA KnownIs ==
  ASSUME codexSession \in StoredSession
  PROVE  /\ Known \in StoredSession /\ Known.isKnown = TRUE
         /\ Known.events = codexSession.events /\ Known.denials = codexSession.denials
         /\ SameVerdicts(codexSession, Known) /\ SamePlan(codexSession, Known)
         /\ codexSession.isKnown => Known = codexSession
  <1> DEFINE s == codexSession
  <1>1. /\ s = [isKnown |-> s.isKnown, model |-> s.model, usage |-> s.usage, plan |-> s.plan,
                revisions |-> s.revisions, alterations |-> s.alterations,
                denials |-> s.denials, events |-> s.events]
        /\ Len(s.events) \in Nat
    BY SessionFields
  <1>2. Known = [isKnown |-> TRUE, model |-> s.model, usage |-> s.usage, plan |-> s.plan,
                 revisions |-> s.revisions, alterations |-> s.alterations,
                 denials |-> s.denials, events |-> s.events]
    <2>1. s = [isKnown |-> s.isKnown, model |-> s.model, usage |-> s.usage, plan |-> s.plan,
               revisions |-> s.revisions, alterations |-> s.alterations,
               denials |-> s.denials, events |-> s.events]
      BY <1>1
    <2>2. Known = [s EXCEPT !.isKnown = TRUE]
      BY DEF Known
    <2> QED
      BY <2>1, <2>2
  <1>3. Known \in StoredSession
    BY <1>2, SessionFields DEF StoredSession
  <1>4. /\ Known.isKnown = TRUE /\ Known.events = s.events /\ Known.denials = s.denials
        /\ Known.plan = s.plan /\ Known.revisions = s.revisions /\ Known.alterations = s.alterations
    BY <1>2
  <1>5. s.isKnown => Known = s
    <2>1. s.isKnown \in BOOLEAN
      BY SessionFields
    <2> QED
      BY <1>1, <1>2, <2>1
  <1> QED
    BY <1>1, <1>3, <1>4, <1>5 DEF SameVerdicts, SamePlan

\* The line answers a call that is pending, and the session is known.
VerdictGiven(f, line) ==
  /\ line.type = "output" /\ parser[f].hasSession /\ IsPending(parser[f], line)
  /\ codexSession.isKnown

VerdictOf(f, line) ==
  [kind |-> IF line.isYes THEN "granted" ELSE "denied", actor |-> f, id |-> line.id]

\* The event list after a line.
VerdictTaken(f, line, t) ==
  IF VerdictGiven(f, line)
  THEN /\ t.events = Append(codexSession.events, VerdictOf(f, line))
       /\ t.denials = codexSession.denials + IF line.isYes THEN 0 ELSE 1
  ELSE SameVerdicts(codexSession, t)

StepTaken(f, line, t) ==
  /\ t \in StoredSession
  /\ t.isKnown <=> f = Main \/ codexSession.isKnown
  /\ ~t.isKnown => t = codexSession
  /\ VerdictTaken(f, line, t)
  /\ PlanTaken(codexSession, t, IF f = Main THEN line.plan ELSE NoPlan)

\* A line that lists no verdict and sets no plan.
LEMMA QuietStep ==
  ASSUME codexSession \in StoredSession, NEW f, NEW line, NEW t \in StoredSession,
         ~VerdictGiven(f, line), line.plan = NoPlan,
         t.isKnown <=> f = Main \/ codexSession.isKnown, ~t.isKnown => t = codexSession,
         SameVerdicts(codexSession, t), SamePlan(codexSession, t)
  PROVE  StepTaken(f, line, t)
  BY DEF StepTaken, VerdictTaken, PlanTaken

\* The verdict listed.
LEMMA VerdictStep ==
  ASSUME codexSession \in StoredSession, codexSession.isKnown, NEW f \in Rollouts,
         NEW line \in RolloutLine, VerdictGiven(f, line), line.plan = NoPlan
  PROVE  LET t == WithEvents(codexSession, <<VerdictOf(f, line)>>) IN
           t \in StoredSession /\ StepTaken(f, line, t)
  <1> DEFINE s == codexSession
             v == VerdictOf(f, line)
             d == IF line.isYes THEN 0 ELSE 1
             t == [isKnown |-> s.isKnown, model |-> s.model, usage |-> s.usage, plan |-> s.plan,
                   revisions |-> s.revisions, alterations |-> s.alterations,
                   denials |-> s.denials + d, events |-> Append(s.events, v)]
  <1>1. v \in CodexEvent /\ (v.kind = "denied" <=> ~line.isYes)
    BY DEF VerdictOf, CodexEvent, RolloutLine
  <1>2. WithEvents(s, <<v>>) = t
    <2>1. (IF v.kind = "denied" THEN 1 ELSE 0) = d
      BY <1>1
    <2> HIDE DEF v, d
    <2> QED
      BY <1>1, <2>1, ListedOne
  <1>3. t \in StoredSession
    <2>1. d \in Nat
      OBVIOUS
    <2> HIDE DEF v, d
    <2> QED
      BY <1>1, <2>1, SessionFields DEF StoredSession
  <1>4. /\ t.isKnown = s.isKnown /\ t.plan = s.plan /\ t.revisions = s.revisions
        /\ t.alterations = s.alterations /\ t.denials = s.denials + d
        /\ t.events = Append(s.events, v)
    OBVIOUS
  <1>5. s.isKnown \in BOOLEAN
    BY SessionFields
  <1> HIDE DEF t, v
  <1>6. VerdictTaken(f, line, t)
    BY <1>4 DEF VerdictTaken, v
  <1>7. PlanTaken(s, t, NoPlan)
    BY <1>4 DEF PlanTaken, SamePlan
  <1> QED
    BY <1>2, <1>3, <1>4, <1>5, <1>6, <1>7 DEF StepTaken, v

LEMMA SessionStep ==
  ASSUME ParsersOK, codexSession \in StoredSession,
         codexSession.isKnown <=> LinesOf(Main) # {},
         NEW f, NEW line, Grows(f, line), Read(f, line)
  PROVE  StepTaken(f, line, codexSession')
  <1> DEFINE s == codexSession
             p == parser[f]
  <1>1. /\ f \in Rollouts /\ line \in RolloutLine /\ line.file = f
        /\ line.type = "meta" <=> LinesOf(f) = {}
        /\ line.type = "meta" /\ f = Main => line.isYes
        /\ line.plan # NoPlan => line.type = "assistant"
    BY DEF Grows, CanFollow
  <1>2. Now \in Nat \ {0}
    BY GrowsIs
  <1>3. p.hasSession <=> IsOwned(f)
    BY <1>1 DEF ParsersOK
  <1>4. f = Main /\ line.type # "meta" => s.isKnown /\ p.hasSession
    <2>1. SUFFICES ASSUME f = Main, line.type # "meta" PROVE s.isKnown /\ p.hasSession
      OBVIOUS
    <2>2. LinesOf(Main) # {} /\ Main \in Rollouts
      BY <1>1, <2>1
    <2>3. PICK n \in LinesOf(Main) : rolloutLog[n].type = "meta"
      BY <2>2 DEF Grows, RolloutsOK
    <2>4. rolloutLog[n].isYes
      BY <2>3 DEF Grows, RolloutsOK, LinesOf
    <2> QED
      BY <1>3, <2>1, <2>2, <2>3, <2>4 DEF IsOwned
  <1>5. /\ s.isKnown \in BOOLEAN /\ p \in Parser /\ s.plan \in Plans \cup {NoPlan}
        /\ Len(s.events) \in Nat
    BY <1>1, SessionFields DEF ParsersOK
  <1>6. SameVerdicts(s, s) /\ SamePlan(s, s)
    BY <1>5 DEF SameVerdicts, SamePlan
  <1>7. /\ Known \in StoredSession /\ Known.isKnown = TRUE
        /\ SameVerdicts(s, Known) /\ SamePlan(s, Known)
        /\ s.isKnown => Known = s
    BY KnownIs
  <1>8. \/ Turns(p, line) = {} /\ s' = s
        \/ \E turn \in Turns(p, line) :
             s' = IF turn.actor = Main THEN AddTurn(turn) ELSE AddSubagentTurn(turn)
    BY DEF Read
  <1>9. WithEvents(Known, <<>>) = Known /\ PlanSet(Known, NoPlan) = Known
    BY <1>7, ListedNone, PlanSetIs
  <1> HIDE DEF p
  <1>10. CASE line.type = "meta" /\ line.isYes
    <2>1. Turns(p, line) = {MetaTurn(f)}
      BY <1>1, <1>10 DEF Turns
    <2>2. s' = IF MetaTurn(f).actor = Main THEN AddTurn(MetaTurn(f)) ELSE AddSubagentTurn(MetaTurn(f))
      BY <1>8, <2>1
    <2>3. ~VerdictGiven(f, line) /\ line.plan = NoPlan
      BY <1>1, <1>10 DEF VerdictGiven
    <2>4. CASE f = Main
      <3>1. s' = WithModel(Known, NoModel)
        <4>1. s' = AddTurn(MetaTurn(Main))
          BY <2>2, <2>4, MetaTurnIs
        <4>2. PlanSet(WithEvents(Known, MetaTurn(Main).events), MetaTurn(Main).plan) = Known
          BY <1>9, MetaTurnIs
        <4>3. /\ MetaTurn(Main).usage = 0 /\ MetaTurn(Main).isChat
              /\ MetaTurn(Main).model = NoModel
          BY MetaTurnIs
        <4> QED
          BY <4>1, <4>2, <4>3 DEF AddTurn, Known
      <3>2. /\ s' \in StoredSession /\ SameVerdicts(Known, s') /\ SamePlan(Known, s')
            /\ s'.isKnown = TRUE
        BY <1>2, <1>7, <3>1, WithModelIs
      <3>3. SameVerdicts(s, s') /\ SamePlan(s, s')
        BY <1>7, <3>2, SameVerdictsAgain DEF SamePlan
      <3> QED
        BY <2>3, <2>4, <3>2, <3>3, QuietStep
    <2>5. CASE f # Main
      <3> DEFINE e == Entry("spawned", f, 0)
      <3>1. s' = IF s.isKnown THEN WithEvents(s, <<e>>) ELSE s
        <4>1. MetaTurn(f) = EventTurn(f, "spawned", 0)
          BY <2>5 DEF MetaTurn
        <4> QED
          <5>1. MetaTurn(f).actor = f /\ MetaTurn(f).events = <<e>>
            <6> DEFINE t == EventTurn(f, "spawned", 0)
            <6>1. t.actor = f /\ t.events = <<Entry("spawned", f, 0)>>
              BY DEF EventTurn, NoTurn
            <6> QED
              BY <4>1, <6>1
          <5> QED
            BY <2>2, <2>5, <5>1 DEF AddSubagentTurn
      <3>2. e \in CodexEvent /\ ~IsVerdict(e)
        BY <1>1 DEF CodexEvent, Entry, IsVerdict
      <3> HIDE DEF e
      <3>3. CASE s.isKnown
        BY <2>3, <2>5, <3>1, <3>2, <3>3, OtherListed, QuietStep
      <3>4. CASE ~s.isKnown
        BY <1>6, <2>3, <2>5, <3>1, <3>4, QuietStep
      <3> QED
        BY <3>3, <3>4
    <2> QED
      BY <2>4, <2>5
  <1>11. CASE line.type = "output" /\ p.hasSession /\ IsPending(p, line)
    <2> DEFINE kind == IF line.isYes THEN "granted" ELSE "denied"
               turn == EventTurn(f, kind, line.id)
               v == VerdictOf(f, line)
    <2>1. s' = IF turn.actor = Main THEN AddTurn(turn) ELSE AddSubagentTurn(turn)
      <3>1. Turns(p, line) = {turn}
        BY <1>1, <1>11 DEF Turns, VerdictTurn
      <3> QED
        BY <1>8, <3>1
    <2>2. /\ turn.actor = f /\ turn.events = <<v>> /\ turn.isChat = FALSE
          /\ turn.usage = 0 /\ turn.plan = NoPlan
      <3>1. Entry(kind, f, line.id) = v
        BY DEF Entry, VerdictOf
      <3> QED
        BY <3>1 DEF EventTurn, NoTurn
    <2>3. line.plan = NoPlan
      BY <1>1, <1>11
    <2> HIDE DEF turn, v
    <2>4. CASE s.isKnown
      <3>1. VerdictGiven(f, line)
        BY <1>11, <2>4 DEF VerdictGiven, p
      <3>2. WithEvents(s, <<v>>) \in StoredSession /\ StepTaken(f, line, WithEvents(s, <<v>>))
        BY <1>1, <2>3, <2>4, <3>1, VerdictStep DEF v
      <3>3. s' = WithEvents(s, <<v>>)
        <4>1. CASE f = Main
          <5>1. PlanSet(WithEvents(Known, turn.events), turn.plan) = WithEvents(s, <<v>>)
            BY <1>7, <2>2, <2>4, <3>2, PlanSetIs
          <5> QED
            BY <2>1, <2>2, <4>1, <5>1 DEF AddTurn, Known
        <4>2. CASE f # Main
          BY <2>1, <2>2, <2>4, <4>2 DEF AddSubagentTurn
        <4> QED
          BY <4>1, <4>2
      <3> QED
        BY <3>2, <3>3
    <2>5. CASE ~s.isKnown
      <3>1. f # Main
        BY <1>4, <1>11, <2>5
      <3>2. s' = s /\ ~VerdictGiven(f, line)
        BY <2>1, <2>2, <2>5, <3>1 DEF AddSubagentTurn, VerdictGiven
      <3> QED
        BY <1>6, <2>3, <2>5, <3>1, <3>2, QuietStep
    <2> QED
      BY <2>4, <2>5
  <1>12. CASE line.type = "tokens" /\ p.hasSession /\ f = Main
    <2>1. s' = AddTurn(TokensTurn)
      <3>1. Turns(p, line) = {TokensTurn}
        BY <1>1, <1>12 DEF Turns
      <3> QED
        BY <1>8, <3>1, TokensTurnIs
    <2>2. s' = [Known EXCEPT !.usage = Now]
      <3>1. PlanSet(WithEvents(Known, TokensTurn.events), TokensTurn.plan) = Known
        BY <1>9, TokensTurnIs
      <3> QED
        BY <1>2, <2>1, <3>1, TokensTurnIs DEF AddTurn, Known
    <2>3. s' = [isKnown |-> Known.isKnown, model |-> Known.model, usage |-> Now,
                plan |-> Known.plan, revisions |-> Known.revisions,
                alterations |-> Known.alterations, denials |-> Known.denials,
                events |-> Known.events]
      <3>1. Known = [isKnown |-> Known.isKnown, model |-> Known.model, usage |-> Known.usage,
                     plan |-> Known.plan, revisions |-> Known.revisions,
                     alterations |-> Known.alterations, denials |-> Known.denials,
                     events |-> Known.events]
        BY <1>7, SessionFields
      <3> QED
        BY <2>2, <3>1
    <2>4. s' \in StoredSession
      BY <1>2, <1>7, <2>3, SessionFields DEF StoredSession
    <2>5. s'.isKnown = TRUE /\ SameVerdicts(s, s') /\ SamePlan(s, s')
      BY <1>7, <2>3 DEF SameVerdicts, SamePlan
    <2>6. ~VerdictGiven(f, line) /\ line.plan = NoPlan
      BY <1>1, <1>12 DEF VerdictGiven
    <2> QED
      BY <1>12, <2>4, <2>5, <2>6, QuietStep
  <1>13. CASE line.type = "assistant" /\ p.hasSession /\ f = Main
    <2> DEFINE turn == AssistantTurn(p, line)
               t == PlanSet(s, line.plan)
    <2>1. s' = AddTurn(turn)
      <3>1. Turns(p, line) = {turn}
        BY <1>1, <1>13 DEF Turns
      <3> QED
        BY <1>8, <3>1, AssistantTurnIs
    <2>2. s' = WithModel(t, p.model)
      <3>1. WithEvents(Known, turn.events) = s
        BY <1>4, <1>7, <1>9, <1>13, AssistantTurnIs
      <3>2. turn.usage = 0 /\ turn.isChat /\ turn.model = p.model /\ turn.plan = line.plan
        BY AssistantTurnIs
      <3> HIDE DEF turn
      <3> QED
        BY <2>1, <3>1, <3>2 DEF AddTurn, Known
    <2>3. line.plan \in Plans \cup {NoPlan} /\ p.model \in Models \cup {NoModel}
      BY <1>1, <1>5 DEF RolloutLine, Parser
    <2>4. /\ t \in StoredSession /\ SameVerdicts(s, t) /\ PlanTaken(s, t, line.plan)
          /\ t.isKnown = s.isKnown
      BY <2>3, PlanSetIs
    <2> HIDE DEF t
    <2>5. s' \in StoredSession /\ SameVerdicts(t, s') /\ SamePlan(t, s') /\ s'.isKnown = t.isKnown
      BY <1>2, <2>2, <2>3, <2>4, WithModelIs
    <2>6. SameVerdicts(s, s')
      BY <2>4, <2>5, SameVerdictsAgain
    <2>7. PlanTaken(s, s', line.plan)
      BY <2>4, <2>5 DEF PlanTaken, SamePlan
    <2>8. ~VerdictGiven(f, line)
      BY <1>13 DEF VerdictGiven
    <2> QED
      BY <1>4, <1>13, <2>4, <2>5, <2>6, <2>7, <2>8 DEF StepTaken, VerdictTaken
  <1>14. CASE /\ ~(line.type = "meta" /\ line.isYes)
              /\ ~(line.type = "output" /\ p.hasSession /\ IsPending(p, line))
              /\ ~(line.type = "tokens" /\ p.hasSession /\ f = Main)
              /\ ~(line.type = "assistant" /\ p.hasSession /\ f = Main)
    <2>1. Turns(p, line) = {}
      BY <1>1, <1>14 DEF Turns
    <2>2. s' = s
      BY <1>8, <2>1
    <2>3. ~VerdictGiven(f, line)
      BY <1>14 DEF VerdictGiven, p
    <2>4. f = Main => s.isKnown /\ line.plan = NoPlan
      BY <1>1, <1>4, <1>14
    <2>5. VerdictTaken(f, line, s') /\ PlanTaken(s, s', IF f = Main THEN line.plan ELSE NoPlan)
      BY <1>6, <2>2, <2>3, <2>4 DEF VerdictTaken, PlanTaken
    <2> QED
      BY <2>2, <2>4, <2>5 DEF StepTaken
  <1> QED
    BY <1>10, <1>11, <1>12, <1>13, <1>14

-----------------------------------------------------------------------------
(* The Codex session: verdicts.                                              *)

\* A line is an answer when it is read, and stays one.
LEMMA AnswersGrow ==
  ASSUME ParsersOK, codexSession.isKnown <=> LinesOf(Main) # {},
         NEW f, NEW line, Grows(f, line), NeverFull
  PROVE  /\ Answers' = IF VerdictGiven(f, line) THEN Answers \cup {Now} ELSE Answers
         /\ Answers \subseteq DOMAIN rolloutLog
  <1>0. PICK L : L = Len(rolloutLog)
    OBVIOUS
  <1>1. /\ L \in Nat /\ DOMAIN rolloutLog = 1 .. L /\ Now = L + 1
        /\ DOMAIN rolloutLog' = 1 .. L + 1
        /\ rolloutLog'[L + 1] = line /\ \A n \in 1 .. L : rolloutLog'[n] = rolloutLog[n]
        /\ \A g : LinesOf(g) \subseteq 1 .. L
    BY <1>0, GrowsIs
  <1>2. /\ f \in Rollouts /\ line.file = f
        /\ line.type = "meta" <=> LinesOf(f) = {}
        /\ line.type = "output" => line.id \in OpenCalls(f)
    BY DEF Grows, CanFollow
  <1>3. ASSUME NEW n \in 1 .. L
        PROVE  n \in Answers' <=> n \in Answers
    <2>1. rolloutLog'[n] = rolloutLog[n] /\ \A m \in 1 .. n : rolloutLog'[m] = rolloutLog[m]
      BY <1>1
    <2>2. IsHeard(n)' <=> IsHeard(n)
      BY <2>1 DEF IsHeard
    <2>3. rolloutLog[n].type = "output" => rolloutLog[n].id \in 1 .. n - 1
      BY <1>1 DEF Grows, RolloutsOK
    <2>4. rolloutLog[n].type = "output" => rolloutLog'[rolloutLog[n].id] = rolloutLog[rolloutLog[n].id]
      BY <2>1, <2>3
    <2> QED
      BY <1>1, <2>1, <2>2, <2>4 DEF Answers
  <1>4. L + 1 \in Answers' <=> VerdictGiven(f, line)
    <2>1. CASE line.type # "output"
      BY <1>1, <2>1 DEF Answers, VerdictGiven
    <2>2. CASE line.type = "output"
      <3>1. /\ line.id \in LinesOf(f) /\ rolloutLog[line.id].type = "call"
            /\ \A m \in LinesOf(f) : rolloutLog[m].id # line.id
        BY <1>2, <2>2 DEF OpenCalls
      <3>2. line.id \in 1 .. L /\ rolloutLog'[line.id] = rolloutLog[line.id]
        BY <1>1, <3>1
      <3>3. line.id \in WaitingCalls(f, Now) <=> rolloutLog[line.id].isYes
        BY <1>1, <3>1, <3>2 DEF WaitingCalls
      <3>4. (\E m \in 1 .. L + 1 : rolloutLog'[m].file = Main) <=> codexSession.isKnown
        <4>1. LinesOf(Main) = {m \in 1 .. L : rolloutLog[m].file = Main}
          BY <1>1 DEF LinesOf
        <4>2. line.file = Main => LinesOf(Main) # {}
          BY <1>2, <3>1
        <4>3. \A m \in 1 .. L + 1 : m \in 1 .. L \/ m = L + 1
          BY <1>1
        <4>4. 1 .. L \subseteq 1 .. L + 1
          BY <1>1
        <4> QED
          BY <1>1, <4>1, <4>2, <4>3, <4>4
      <3>5. (\A m \in 1 .. L + 1 : rolloutLog'[m].file = f /\ rolloutLog'[m].type = "meta"
                                     => rolloutLog'[m].isYes) <=> IsOwned(f)
        <4>1. PICK n \in LinesOf(f) : rolloutLog[n].type = "meta"
          BY <1>2, <3>1 DEF Grows, RolloutsOK
        <4>2. n \in 1 .. L /\ rolloutLog[n].file = f /\ n \in 1 .. L + 1
          BY <1>1, <4>1 DEF LinesOf
        <4>3. ASSUME NEW m \in 1 .. L, rolloutLog[m].file = f, rolloutLog[m].type = "meta"
              PROVE  m = n
          <5>0. \A k \in 1 .. L : rolloutLog[k].type = "meta" =>
                  \A j \in 1 .. k - 1 : rolloutLog[j].file # rolloutLog[k].file
            BY <1>1 DEF Grows, RolloutsOK
          <5>1. ~(m \in 1 .. n - 1) /\ ~(n \in 1 .. m - 1)
            BY <4>1, <4>2, <4>3, <5>0
          <5> QED
            BY <1>1, <4>2, <5>1
        <4>4. IsOwned(f) <=> rolloutLog[n].isYes
          <5>1. \A m \in LinesOf(f) : m \in 1 .. L /\ rolloutLog[m].file = f
            BY <1>1 DEF LinesOf
          <5> QED
            BY <4>1, <4>3, <5>1 DEF IsOwned
        <4>5. \A m \in 1 .. L + 1 : rolloutLog'[m].file = f /\ rolloutLog'[m].type = "meta" => m = n
          <5>1. \A m \in 1 .. L + 1 : m \in 1 .. L \/ m = L + 1
            BY <1>1
          <5> QED
            BY <1>1, <2>2, <4>3, <5>1
        <4> QED
          BY <1>1, <4>1, <4>2, <4>4, <4>5
      <3>6. IsHeard(L + 1)' <=> codexSession.isKnown /\ IsOwned(f)
        <4>1. IsHeard(L + 1)' <=>
                /\ \E m \in 1 .. L + 1 : rolloutLog'[m].file = Main
                /\ \A m \in 1 .. L + 1 : rolloutLog'[m].file = rolloutLog'[L + 1].file
                                         /\ rolloutLog'[m].type = "meta" => rolloutLog'[m].isYes
          BY DEF IsHeard
        <4> QED
          BY <1>1, <1>2, <3>4, <3>5, <4>1
      <3>7. L + 1 \in Answers' <=> rolloutLog[line.id].isYes /\ codexSession.isKnown /\ IsOwned(f)
        BY <1>1, <2>2, <3>2, <3>6 DEF Answers
      <3>8. parser[f].hasSession <=> IsOwned(f)
        BY <1>2 DEF ParsersOK
      <3>9. IsOwned(f) => parser[f].pending = WaitingCalls(f, Now)
        BY <1>2 DEF ParsersOK
      <3> QED
        BY <2>2, <3>3, <3>7, <3>8, <3>9 DEF VerdictGiven, IsPending
    <2> QED
      BY <2>1, <2>2
  <1>5. Answers \subseteq 1 .. L /\ Answers' \subseteq 1 .. L + 1
    BY <1>1 DEF Answers
  <1>6. \A n \in 1 .. L + 1 : n \in 1 .. L \/ n = L + 1
    BY <1>1
  <1>7. \A n : n \in Answers' <=> n \in Answers \/ (n = L + 1 /\ VerdictGiven(f, line))
    <2>1. L + 1 \notin 1 .. L
      BY <1>1
    <2> QED
      BY <1>3, <1>4, <1>5, <1>6, <2>1
  <1> QED
    BY <1>1, <1>5, <1>7

LEMMA VerdictsNext ==
  ASSUME CodexInv, NEW f, NEW line, Grows(f, line), Read(f, line)
  PROVE  VerdictsExact'
  <1> SUFFICES ASSUME NeverFull'
               PROVE  /\ \A n \in Answers' : PlacesOfVerdict(n)' # {}
                      /\ \A k \in DOMAIN codexSession'.events : IsVerdict(codexSession'.events[k]) =>
                           \E n \in Answers' : k \in PlacesOfVerdict(n)'
                      /\ \A m, n \in Answers' : \A j \in PlacesOfVerdict(m)', k \in PlacesOfVerdict(n)' :
                           j < k <=> m < n
                      /\ codexSession'.denials = Cardinality({n \in Answers' : ~rolloutLog'[n].isYes})
    BY DEF VerdictsExact
  <1>1. PICK now : now = Now
    OBVIOUS
  <1>2. PICK many : many = Len(codexSession.events)
    OBVIOUS
  <1> DEFINE given == VerdictGiven(f, line)
             v == VerdictOf(f, line)
             t == codexSession'
             Refused == {n \in Answers : ~rolloutLog[n].isYes}
  <1>3. /\ ParsersOK /\ codexSession \in StoredSession
        /\ codexSession.isKnown <=> LinesOf(Main) # {}
        /\ VerdictsExact
    BY DEF CodexInv
  <1>4. NeverFull
    BY NeverFullBefore
  <1>5. /\ now \in Nat \ {0} /\ DOMAIN rolloutLog = 1 .. now - 1
        /\ DOMAIN rolloutLog' = 1 .. now
        /\ rolloutLog'[now] = line /\ \A n \in 1 .. now - 1 : rolloutLog'[n] = rolloutLog[n]
    BY <1>1, GrowsIs
  <1>6. /\ f \in Rollouts /\ line \in RolloutLine /\ line.file = f
        /\ line.type = "output" => line.id \in OpenCalls(f)
    BY DEF Grows, CanFollow
  <1>7. Answers' = (IF given THEN Answers \cup {now} ELSE Answers) /\ Answers \subseteq 1 .. now - 1
    BY <1>1, <1>3, <1>4, <1>5, AnswersGrow
  <1>8. StepTaken(f, line, t)
    BY <1>3, SessionStep
  <1>9. t \in StoredSession /\ VerdictTaken(f, line, t)
    BY <1>8 DEF StepTaken
  <1>10. /\ many \in Nat /\ DOMAIN codexSession.events = 1 .. many
         /\ Len(t.events) \in Nat /\ DOMAIN t.events = 1 .. Len(t.events)
         /\ codexSession.events \in Seq(CodexEvent) /\ codexSession.denials \in Nat
    BY <1>2, <1>3, <1>9, SessionFields
  <1>11. /\ \A n \in Answers : PlacesOfVerdict(n) # {}
         /\ \A k \in 1 .. many : IsVerdict(codexSession.events[k]) =>
              \E n \in Answers : k \in PlacesOfVerdict(n)
         /\ \A m, n \in Answers : \A j \in PlacesOfVerdict(m), k \in PlacesOfVerdict(n) :
              j < k <=> m < n
         /\ codexSession.denials = Cardinality(Refused)
    BY <1>3, <1>4, <1>10 DEF VerdictsExact
  <1>12. \A n \in Answers : Verdict(n)' = Verdict(n) /\ IsVerdict(Verdict(n))
    BY <1>5, <1>7 DEF Verdict, IsVerdict
  <1>13. given => Verdict(now)' = v /\ v.id = line.id /\ IsVerdict(v)
    BY <1>5, <1>6 DEF Verdict, VerdictOf, IsVerdict
  <1>14. ASSUME given PROVE \A n \in Answers : Verdict(n) # v
    <2>1. line.type = "output" /\ line.id \in OpenCalls(f)
      BY <1>6, <1>14 DEF VerdictGiven
    <2>2. line.id # 0
      BY <1>5, <2>1 DEF OpenCalls, LinesOf
    <2>3. \A n \in 1 .. now - 1 : rolloutLog[n].id # line.id
      <3>1. \A m, n \in 1 .. now : rolloutLog'[m].id = rolloutLog'[n].id /\ rolloutLog'[n].id # 0 => m = n
        BY <1>5, RolloutsNext DEF RolloutsOK
      <3>2. \A n \in 1 .. now - 1 : n \in 1 .. now /\ n # now
        BY <1>5
      <3>3. now \in 1 .. now
        BY <1>5
      <3> QED
        BY <1>5, <2>2, <3>1, <3>2, <3>3
    <2>4. \A n \in Answers : Verdict(n).id = rolloutLog[n].id
      BY DEF Verdict
    <2>5. v.id = line.id
      BY <1>13, <1>14
    <2> QED
      BY <1>7, <2>3, <2>4, <2>5
  <1>15. /\ many <= Len(t.events) /\ \A k \in 1 .. many : t.events[k] = codexSession.events[k]
         /\ ~given => \A k \in many + 1 .. Len(t.events) : ~IsVerdict(t.events[k])
         /\ given => Len(t.events) = many + 1 /\ t.events[many + 1] = v
    <2>1. CASE given
      <3>1. t.events = Append(codexSession.events, v)
        BY <1>9, <2>1 DEF VerdictTaken
      <3> HIDE DEF v, t
      <3> QED
        BY <1>2, <1>10, <2>1, <3>1
    <2>2. CASE ~given
      BY <1>2, <1>9, <2>2 DEF VerdictTaken, SameVerdicts
    <2> QED
      BY <2>1, <2>2
  <1> HIDE DEF given, v, t, Refused
  <1>16. /\ \A n : PlacesOfVerdict(n) = {k \in 1 .. many : codexSession.events[k] = Verdict(n)}
         /\ \A n : PlacesOfVerdict(n)' = {k \in 1 .. Len(t.events) : t.events[k] = Verdict(n)'}
    BY <1>10 DEF PlacesOfVerdict, t
  <1>17. \A k \in 1 .. Len(t.events) : k \in 1 .. many \/ k \in many + 1 .. Len(t.events)
    BY <1>10
  <1>18. \A k \in 1 .. many : k \in 1 .. Len(t.events)
    BY <1>10, <1>15
  <1>19. given => \A k \in many + 1 .. Len(t.events) : k = many + 1
    BY <1>10, <1>15
  <1>20. ASSUME NEW n \in Answers PROVE PlacesOfVerdict(n)' = PlacesOfVerdict(n)
    <2>1. \A k \in many + 1 .. Len(t.events) : t.events[k] # Verdict(n)
      BY <1>12, <1>14, <1>15, <1>19
    <2> QED
      BY <1>12, <1>15, <1>16, <1>17, <1>18, <2>1
  <1>21. ASSUME given PROVE PlacesOfVerdict(now)' = {many + 1}
    <2>1. \A k \in 1 .. many : codexSession.events[k] # v
      <3>1. SUFFICES ASSUME NEW k \in 1 .. many, codexSession.events[k] = v PROVE FALSE
        OBVIOUS
      <3>2. PICK n \in Answers : k \in PlacesOfVerdict(n)
        BY <1>11, <1>13, <1>21, <3>1
      <3> QED
        BY <1>14, <1>16, <1>21, <3>1, <3>2
    <2>2. many + 1 \in 1 .. Len(t.events)
      BY <1>10, <1>15, <1>21
    <2> QED
      BY <1>13, <1>15, <1>16, <1>17, <1>19, <1>21, <2>1, <2>2
  <1>22. \A n \in Answers' : n \in Answers \/ (given /\ n = now)
    BY <1>7
  <1>23. \A n \in Answers' : PlacesOfVerdict(n)' # {}
    BY <1>11, <1>20, <1>21, <1>22
  <1>24. ASSUME NEW k \in DOMAIN t.events, IsVerdict(t.events[k])
         PROVE  \E n \in Answers' : k \in PlacesOfVerdict(n)'
    <2>1. CASE k \in 1 .. many
      <3>1. PICK n \in Answers : k \in PlacesOfVerdict(n)
        BY <1>11, <1>15, <1>24, <2>1
      <3> QED
        BY <1>7, <1>20, <3>1
    <2>2. CASE k \in many + 1 .. Len(t.events)
      <3>1. given
        BY <1>15, <1>24, <2>2
      <3> QED
        BY <1>7, <1>19, <1>21, <2>2, <3>1
    <2> QED
      BY <1>10, <1>17, <2>1, <2>2
  <1>25. ASSUME NEW m \in Answers', NEW n \in Answers',
                NEW j \in PlacesOfVerdict(m)', NEW k \in PlacesOfVerdict(n)'
         PROVE  j < k <=> m < n
    <2>1. \A a \in Answers : a \in 1 .. now - 1 /\ PlacesOfVerdict(a)' = PlacesOfVerdict(a)
                             /\ PlacesOfVerdict(a) \subseteq 1 .. many
      BY <1>7, <1>16, <1>20
    <2>2. CASE m \in Answers /\ n \in Answers
      BY <1>11, <1>25, <2>1, <2>2
    <2>3. CASE m \in Answers /\ given /\ n = now
      BY <1>5, <1>10, <1>21, <1>25, <2>1, <2>3
    <2>4. CASE given /\ m = now /\ n \in Answers
      BY <1>5, <1>10, <1>21, <1>25, <2>1, <2>4
    <2>5. CASE given /\ m = now /\ n = now
      BY <1>5, <1>10, <1>21, <1>25, <2>5
    <2> QED
      BY <1>22, <2>2, <2>3, <2>4, <2>5
  <1>26. t.denials = Cardinality({n \in Answers' : ~rolloutLog'[n].isYes})
    <2> DEFINE Later == {n \in Answers' : ~rolloutLog'[n].isYes}
    <2>1. IsFiniteSet(Refused)
      <3>1. IsFiniteSet(1 .. now - 1)
        BY <1>5, FS_Interval
      <3> QED
        BY <1>7, <3>1, FS_Subset DEF Refused
    <2>2. \A n \in Answers : rolloutLog'[n].isYes <=> rolloutLog[n].isYes
      BY <1>5, <1>7
    <2>3. CASE given /\ ~line.isYes
      <3>1. Later = Refused \cup {now}
        BY <1>5, <1>7, <2>2, <2>3 DEF Refused
      <3>2. now \notin Refused
        BY <1>5, <1>7 DEF Refused
      <3>3. Cardinality(Later) = Cardinality(Refused) + 1
        BY <2>1, <3>1, <3>2, FS_AddElement
      <3>4. t.denials = codexSession.denials + 1
        BY <1>9, <2>3 DEF VerdictTaken, given
      <3> QED
        BY <1>11, <3>3, <3>4
    <2>4. CASE ~(given /\ ~line.isYes)
      <3>1. Later = Refused
        BY <1>5, <1>7, <2>2, <2>4 DEF Refused
      <3>2. t.denials = codexSession.denials
        <4>1. CASE given
          BY <1>9, <1>10, <2>4, <4>1 DEF VerdictTaken, given
        <4>2. CASE ~given
          BY <1>9, <4>2 DEF VerdictTaken, SameVerdicts, given
        <4> QED
          BY <4>1, <4>2
      <3> QED
        BY <1>11, <3>1, <3>2
    <2> QED
      BY <2>3, <2>4
  <1> QED
    BY <1>23, <1>24, <1>25, <1>26 DEF t

-----------------------------------------------------------------------------
(* The Codex session: proposed plans.                                        *)

LEMMA NoPlanBefore ==
  ASSUME NEW n, {m \in PlanLines : m < n} = {}
  PROVE  PlanBefore(n) = NoPlan
  BY DEF PlanBefore

\* A text that is the plan already changes nothing, another is the newest change.
LEMMA PlansGrow ==
  ASSUME NEW f, NEW line, Grows(f, line),
         NEW now, now = Now, NEW isPlan, isPlan = (f = Main /\ line.plan # NoPlan),
         NEW isChange, isChange = (isPlan /\ line.plan # PlanBefore(Now))
  PROVE  /\ now \in Nat \ {0} /\ PlanChanges \subseteq 1 .. now - 1
         /\ PlanLines' = IF isPlan THEN PlanLines \cup {now} ELSE PlanLines
         /\ \A n \in 1 .. now : PlanBefore(n)' = PlanBefore(n)
         /\ PlanBefore(Now)' = IF isPlan THEN line.plan ELSE PlanBefore(Now)
         /\ PlanChanges' = IF isChange THEN PlanChanges \cup {now} ELSE PlanChanges
         /\ rolloutLog'[now] = line
         /\ \A n \in PlanChanges : /\ rolloutLog'[n] = rolloutLog[n] /\ ChangesUpTo(n)' = ChangesUpTo(n)
                                   /\ n \in 1 .. now
         /\ isChange => ChangesUpTo(now)' = Cardinality(PlanChanges) + 1
         /\ IsFiniteSet(PlanChanges)
  <1>1. /\ now \in Nat \ {0} /\ DOMAIN rolloutLog = 1 .. now - 1 /\ Now' = now + 1
        /\ DOMAIN rolloutLog' = 1 .. now
        /\ rolloutLog'[now] = line /\ \A n \in 1 .. now - 1 : rolloutLog'[n] = rolloutLog[n]
    BY GrowsIs
  <1>2. line.file = f
    BY DEF Grows, CanFollow
  <1>3. PlanLines \subseteq 1 .. now - 1 /\ \A m \in PlanLines : m \in Nat /\ m < now /\ m # now
    <2>1. PlanLines \subseteq 1 .. now - 1
      BY <1>1 DEF PlanLines
    <2> QED
      BY <1>1, <2>1
  <1>4. PlanLines' = IF isPlan THEN PlanLines \cup {now} ELSE PlanLines
    <2>1. \A n \in 1 .. now : n \in 1 .. now - 1 \/ n = now
      BY <1>1
    <2>2. \A n \in 1 .. now - 1 : n \in 1 .. now
      BY <1>1
    <2>3. now \in 1 .. now /\ now \notin 1 .. now - 1
      BY <1>1
    <2>4. \A n \in 1 .. now - 1 : n \in PlanLines' <=> n \in PlanLines
      BY <1>1, <2>2 DEF PlanLines
    <2>5. now \in PlanLines' <=> isPlan
      BY <1>1, <1>2, <2>3 DEF PlanLines
    <2>6. PlanLines' \subseteq 1 .. now
      BY <1>1 DEF PlanLines
    <2>7. \A n : n \in PlanLines' <=> n \in PlanLines \/ (n = now /\ isPlan)
      BY <1>3, <2>1, <2>3, <2>4, <2>5, <2>6
    <2> QED
      BY <2>7
  <1>5. ASSUME NEW n \in 1 .. now + 1,
               {m \in PlanLines' : m < n} = {m \in PlanLines : m < now /\ m < n},
               NEW k \in {n, now}, {m \in PlanLines : m < now /\ m < n} = {m \in PlanLines : m < k}
        PROVE  PlanBefore(n)' = PlanBefore(k)
    <2> DEFINE earlier == {m \in PlanLines : m < k}
    <2>1. earlier = {m \in PlanLines' : m < n} /\ earlier \subseteq 1 .. now - 1
      BY <1>3, <1>5
    <2>2. CASE earlier = {}
      <3>1. PlanBefore(n)' = NoPlan
        BY <2>1, <2>2 DEF PlanBefore
      <3> QED
        BY <2>2, <3>1, NoPlanBefore
    <2>3. CASE earlier # {}
      <3>1. PICK set : set = earlier
        OBVIOUS
      <3>2. PICK last : last = CHOOSE m \in set : \A j \in set : j <= m
        OBVIOUS
      <3>3. last \in set
        <4>1. \E m \in set : \A j \in set : j <= m
          <5>1. now - 1 \in Nat /\ set \in SUBSET (0 .. now - 1) /\ set # {}
            BY <1>1, <2>1, <2>3, <3>1
          <5> QED
            BY <5>1, NatMax
        <4> QED
          BY <3>2, <4>1
      <3>4. PlanBefore(k) = rolloutLog[last].plan
        BY <2>3, <3>1, <3>2, Zenon DEF PlanBefore
      <3>5. PlanBefore(n)' = rolloutLog'[last].plan
        BY <2>1, <2>3, <3>1, <3>2, Zenon DEF PlanBefore
      <3>6. rolloutLog'[last] = rolloutLog[last]
        BY <1>1, <2>1, <3>1, <3>3
      <3> QED
        BY <3>4, <3>5, <3>6
    <2> QED
      BY <2>2, <2>3
  <1>6. ASSUME NEW n \in 1 .. now PROVE PlanBefore(n)' = PlanBefore(n)
    <2>1. n \in 1 .. now + 1
      BY <1>1
    <2>2. {m \in PlanLines' : m < n} = {m \in PlanLines : m < now /\ m < n}
      <3>1. ~(now < n)
        BY <1>1
      <3>2. \A m : m \in PlanLines' /\ m < n <=> m \in PlanLines /\ m < now /\ m < n
        BY <1>3, <1>4, <3>1
      <3> QED
        BY <3>2
    <2>3. {m \in PlanLines : m < now /\ m < n} = {m \in PlanLines : m < n}
      BY <1>3
    <2> QED
      BY <1>5, <2>1, <2>2, <2>3
  <1>7. ASSUME NEW n, n = now + 1
        PROVE  PlanBefore(n)' = IF isPlan THEN line.plan ELSE PlanBefore(now)
    <2>1. CASE isPlan
      <3>1. PICK set : set = {m \in PlanLines' : m < n}
        OBVIOUS
      <3>2. now \in set /\ \A m \in set : m <= now
        BY <1>1, <1>3, <1>4, <1>7, <2>1, <3>1
      <3>3. (CHOOSE m \in set : \A j \in set : j <= m) = now
        <4>1. set \subseteq Nat
          BY <1>1, <1>3, <1>4, <3>1
        <4>2. \A m \in set : (\A j \in set : j <= m) => m = now
          BY <3>2, <4>1
        <4> QED
          BY <3>2, <4>2
      <3>4. PlanBefore(n)' = rolloutLog'[now].plan
        BY <3>1, <3>2, <3>3, Zenon DEF PlanBefore
      <3> QED
        BY <1>1, <2>1, <3>4
    <2>2. CASE ~isPlan
      <3>1. n \in 1 .. now + 1
        BY <1>1, <1>7
      <3>2. {m \in PlanLines' : m < n} = {m \in PlanLines : m < now /\ m < n}
        <4>1. PlanLines' = PlanLines /\ \A m \in PlanLines : m < n
          BY <1>1, <1>3, <1>4, <1>7, <2>2
        <4> QED
          BY <1>3, <4>1
      <3>3. {m \in PlanLines : m < now /\ m < n} = {m \in PlanLines : m < now}
        <4>1. \A m \in PlanLines : m < n
          BY <1>1, <1>3, <1>7
        <4> QED
          BY <1>3, <4>1
      <3> QED
        BY <1>5, <2>2, <3>1, <3>2, <3>3
    <2> QED
      BY <2>1, <2>2
  <1>8. PlanBefore(Now)' = IF isPlan THEN line.plan ELSE PlanBefore(Now)
    <2>1. PICK n : n = now + 1
      OBVIOUS
    <2>2. PlanBefore(Now)' = PlanBefore(n)'
      BY <1>1, <2>1 DEF PlanBefore
    <2> QED
      BY <1>7, <2>1, <2>2
  <1>9. PlanChanges \subseteq 1 .. now - 1
    BY <1>3 DEF PlanChanges
  <1>10. \A n : n \in PlanChanges' <=> n \in PlanChanges \/ (n = now /\ isChange)
    <2>1. \A n \in 1 .. now - 1 : n \in 1 .. now /\ n # now
      BY <1>1
    <2>2. \A n \in 1 .. now - 1 : n \in PlanChanges' <=> n \in PlanChanges
      BY <1>1, <1>4, <1>6, <2>1 DEF PlanChanges
    <2>3. PlanBefore(now)' = PlanBefore(Now)
      BY <1>1, <1>6
    <2>4. now \in PlanChanges' <=> isChange
      BY <1>1, <1>3, <1>4, <2>1, <2>3 DEF PlanChanges
    <2>5. \A n \in PlanChanges' : n \in 1 .. now - 1 \/ n = now
      BY <1>3, <1>4 DEF PlanChanges
    <2> QED
      BY <1>9, <2>1, <2>2, <2>4, <2>5
  <1>11. PlanChanges' = IF isChange THEN PlanChanges \cup {now} ELSE PlanChanges
    BY <1>10
  <1>12. ASSUME NEW n \in PlanChanges
         PROVE  /\ rolloutLog'[n] = rolloutLog[n] /\ ChangesUpTo(n)' = ChangesUpTo(n)
                /\ n \in 1 .. now
    <2>1. n \in 1 .. now - 1 /\ n \in 1 .. now /\ ~(now <= n)
      BY <1>1, <1>9
    <2>2. {m \in PlanChanges' : m <= n} = {m \in PlanChanges : m <= n}
      BY <1>11, <2>1
    <2> QED
      BY <1>1, <2>1, <2>2 DEF ChangesUpTo
  <1>13. IsFiniteSet(PlanChanges)
    <2>1. IsFiniteSet(1 .. now - 1)
      BY <1>1, FS_Interval
    <2> QED
      BY <1>9, <2>1, FS_Subset
  <1>14. ASSUME isChange PROVE ChangesUpTo(now)' = Cardinality(PlanChanges) + 1
    <2>1. {m \in PlanChanges' : m <= now} = PlanChanges \cup {now}
      <3>1. PlanChanges' = PlanChanges \cup {now}
        BY <1>11, <1>14
      <3>2. \A m \in PlanChanges \cup {now} : m <= now
        BY <1>1, <1>9
      <3> QED
        BY <3>1, <3>2
    <2>2. now \notin PlanChanges
      BY <1>1, <1>9
    <2>3. Cardinality(PlanChanges \cup {now}) = Cardinality(PlanChanges) + 1
      BY <1>13, <2>2, FS_AddElement
    <2>4. ChangesUpTo(now)' = Cardinality({m \in PlanChanges' : m <= now})
      BY DEF ChangesUpTo
    <2> QED
      BY <2>1, <2>3, <2>4
  <1> QED
    BY <1>1, <1>4, <1>6, <1>8, <1>9, <1>11, <1>12, <1>13, <1>14

LEMMA PlansNext ==
  ASSUME CodexInv, NEW f, NEW line, Grows(f, line), Read(f, line)
  PROVE  /\ ProposedPlansKept'
         /\ PlanLines' # {} => codexSession'.plan # NoPlan
  <1> DEFINE s == codexSession
             t == codexSession'
  <1>1. PICK now : now = Now
    OBVIOUS
  <1>2. PICK changes : changes = Cardinality(PlanChanges)
    OBVIOUS
  <1>3. PICK isPlan : isPlan = (f = Main /\ line.plan # NoPlan)
    OBVIOUS
  <1>4. PICK isChange : isChange = (isPlan /\ line.plan # PlanBefore(Now))
    OBVIOUS
  <1>5. /\ now \in Nat \ {0} /\ PlanChanges \subseteq 1 .. now - 1
        /\ PlanLines' = IF isPlan THEN PlanLines \cup {now} ELSE PlanLines
        /\ \A n \in 1 .. now : PlanBefore(n)' = PlanBefore(n)
        /\ PlanBefore(Now)' = IF isPlan THEN line.plan ELSE PlanBefore(Now)
        /\ PlanChanges' = IF isChange THEN PlanChanges \cup {now} ELSE PlanChanges
        /\ rolloutLog'[now] = line
        /\ \A n \in PlanChanges : /\ rolloutLog'[n] = rolloutLog[n] /\ ChangesUpTo(n)' = ChangesUpTo(n)
                                  /\ n \in 1 .. now
        /\ isChange => ChangesUpTo(now)' = Cardinality(PlanChanges) + 1
        /\ IsFiniteSet(PlanChanges)
    BY <1>1, <1>3, <1>4, PlansGrow
  <1>6. /\ s.plan = PlanBefore(Now)
        /\ Len(s.revisions) = IF changes < maxPlanRevisions THEN changes ELSE maxPlanRevisions
        /\ \A n \in PlanChanges : ChangesUpTo(n) <= maxPlanRevisions =>
             /\ s.revisions[ChangesUpTo(n)].from = PlanBefore(n)
             /\ s.revisions[ChangesUpTo(n)].to = rolloutLog[n].plan
        /\ s.alterations = IF changes = 0 THEN 0 ELSE changes - 1
    BY <1>2 DEF CodexInv, ProposedPlansKept
  <1>7. s \in StoredSession /\ (PlanLines # {} => s.plan # NoPlan)
    BY DEF CodexInv
  <1>8. s.revisions \in Seq(Revision) /\ s.alterations \in Nat
    BY <1>7, SessionFields
  <1>9. PlanTaken(s, t, IF f = Main THEN line.plan ELSE NoPlan)
    BY SessionStep DEF CodexInv, StepTaken
  <1>10. changes \in Nat
    BY <1>2, <1>5, FS_CardinalityType
  <1>11. maxPlanRevisions \in Nat /\ 1 <= maxPlanRevisions
    BY CodexAssumption
  <1>12. s.plan = NoPlan => changes = 0
    <2>1. PlanLines = {} => PlanChanges = {}
      BY DEF PlanChanges
    <2> QED
      BY <1>2, <1>7, <2>1, FS_EmptySet
  <1>13. \A n \in PlanChanges : ChangesUpTo(n) \in 1 .. changes
    <2>1. TAKE n \in PlanChanges
    <2> DEFINE upTo == {m \in PlanChanges : m <= n}
    <2>2. n \in upTo /\ upTo \subseteq PlanChanges
      BY <1>5
    <2>3. IsFiniteSet(upTo) /\ Cardinality(upTo) <= changes
      BY <1>2, <1>5, <2>2, FS_Subset
    <2>4. Cardinality(upTo) \in Nat /\ Cardinality(upTo) # 0
      BY <2>2, <2>3, FS_CardinalityType, FS_EmptySet
    <2> QED
      BY <1>10, <2>3, <2>4 DEF ChangesUpTo
  <1> SUFFICES
        /\ t.plan = PlanBefore(Now)'
        /\ Len(t.revisions) = IF Cardinality(PlanChanges') < maxPlanRevisions
                              THEN Cardinality(PlanChanges') ELSE maxPlanRevisions
        /\ \A n \in PlanChanges' : ChangesUpTo(n)' <= maxPlanRevisions =>
             /\ t.revisions[ChangesUpTo(n)'].from = PlanBefore(n)'
             /\ t.revisions[ChangesUpTo(n)'].to = rolloutLog'[n].plan
        /\ t.alterations = IF Cardinality(PlanChanges') = 0 THEN 0 ELSE Cardinality(PlanChanges') - 1
        /\ PlanLines' # {} => t.plan # NoPlan
    BY DEF ProposedPlansKept
  <1> HIDE DEF s, t
  <1>14. CASE ~isChange
    <2>1. SamePlan(s, t)
      BY <1>3, <1>4, <1>6, <1>9, <1>14 DEF PlanTaken
    <2>2. t.plan = s.plan /\ t.revisions = s.revisions /\ t.alterations = s.alterations
      BY <2>1 DEF SamePlan
    <2>3. PlanChanges' = PlanChanges /\ PlanBefore(Now)' = s.plan
      BY <1>4, <1>5, <1>6, <1>14
    <2>4. PlanLines' # {} => t.plan # NoPlan
      BY <1>3, <1>5, <1>7, <2>2, <2>3
    <2>5. \A n \in PlanChanges : n \in 1 .. now /\ PlanBefore(n)' = PlanBefore(n)
      BY <1>5
    <2> QED
      BY <1>2, <1>5, <1>6, <2>2, <2>3, <2>4, <2>5
  <1>15. CASE isChange
    <2> DEFINE revision == [isAlteration |-> Len(s.revisions) >= 1, from |-> s.plan, to |-> line.plan]
    <2>1. f = Main /\ line.plan # NoPlan /\ line.plan # s.plan
      BY <1>3, <1>4, <1>6, <1>15
    <2>2. /\ t.plan = line.plan
          /\ t.revisions = IF s.plan = NoPlan \/ Len(s.revisions) < maxPlanRevisions
                           THEN Append(s.revisions, revision) ELSE s.revisions
          /\ t.alterations = s.alterations + IF Len(s.revisions) >= 1 THEN 1 ELSE 0
      BY <1>9, <2>1 DEF PlanTaken
    <2>3. Cardinality(PlanChanges') = changes + 1
      <3>1. PlanChanges' = PlanChanges \cup {now} /\ now \notin PlanChanges
        BY <1>5, <1>15
      <3> QED
        BY <1>2, <1>5, <3>1, FS_AddElement
    <2>4. t.plan = PlanBefore(Now)' /\ t.plan # NoPlan
      BY <1>4, <1>5, <1>15, <2>1, <2>2
    <2>5. t.alterations = (changes + 1) - 1
      BY <1>6, <1>10, <1>11, <2>2
    <2>6. PlanBefore(now)' = s.plan
      BY <1>1, <1>5, <1>6
    <2>7. revision.from = s.plan /\ revision.to = line.plan
      OBVIOUS
    <2> HIDE DEF revision
    <2>8. CASE changes < maxPlanRevisions
      <3>1. /\ Len(s.revisions) = changes /\ t.revisions = Append(s.revisions, revision)
        BY <1>6, <1>10, <1>11, <2>2, <2>8
      <3>2. /\ Len(t.revisions) = changes + 1 /\ t.revisions[changes + 1] = revision
            /\ \A k \in 1 .. changes : t.revisions[k] = s.revisions[k]
        BY <1>8, <3>1
      <3>3. Len(t.revisions) = IF changes + 1 < maxPlanRevisions THEN changes + 1 ELSE maxPlanRevisions
        BY <1>10, <1>11, <2>8, <3>2
      <3>4. ASSUME NEW n \in PlanChanges', ChangesUpTo(n)' <= maxPlanRevisions
            PROVE  /\ t.revisions[ChangesUpTo(n)'].from = PlanBefore(n)'
                   /\ t.revisions[ChangesUpTo(n)'].to = rolloutLog'[n].plan
        <4>1. CASE n \in PlanChanges
          BY <1>5, <1>6, <1>13, <3>2, <3>4, <4>1
        <4>2. CASE n = now
          BY <1>2, <1>5, <1>15, <2>6, <2>7, <3>2, <4>2
        <4> QED
          BY <1>5, <1>15, <4>1, <4>2
      <3> QED
        BY <1>10, <2>3, <2>4, <2>5, <3>3, <3>4
    <2>9. CASE ~(changes < maxPlanRevisions)
      <3>1. Len(s.revisions) = maxPlanRevisions /\ s.plan # NoPlan
        BY <1>6, <1>10, <1>11, <1>12, <2>9
      <3>2. t.revisions = s.revisions
        BY <1>11, <2>2, <3>1
      <3>3. Len(t.revisions) = IF changes + 1 < maxPlanRevisions THEN changes + 1 ELSE maxPlanRevisions
        BY <1>10, <1>11, <2>9, <3>1, <3>2
      <3>4. ASSUME NEW n \in PlanChanges', ChangesUpTo(n)' <= maxPlanRevisions
            PROVE  /\ t.revisions[ChangesUpTo(n)'].from = PlanBefore(n)'
                   /\ t.revisions[ChangesUpTo(n)'].to = rolloutLog'[n].plan
        <4>1. CASE n \in PlanChanges
          BY <1>5, <1>6, <3>2, <3>4, <4>1
        <4>2. CASE n = now
          BY <1>2, <1>5, <1>10, <1>11, <1>15, <2>9, <3>4, <4>2
        <4> QED
          BY <1>5, <1>15, <4>1, <4>2
      <3> QED
        BY <1>10, <2>3, <2>4, <2>5, <3>3, <3>4
    <2> QED
      BY <2>8, <2>9
  <1> QED
    BY <1>4, <1>14, <1>15

-----------------------------------------------------------------------------
(* The Codex session: theorems.                                              *)

LEMMA InitCodex == CodexInit => CodexInv
  <1> SUFFICES ASSUME CodexInit PROVE CodexInv
    OBVIOUS
  <1>1. /\ rolloutLog = <<>> /\ codexSession = NoSession
        /\ parser = [f \in Rollouts |-> NewParser]
    BY DEF CodexInit
  <1>2. \A f : LinesOf(f) = {}
    BY <1>1 DEF LinesOf
  <1>3. RolloutsOK
    BY <1>1, <1>2 DEF RolloutsOK
  <1>4. \A f, n : WaitingCalls(f, n) = {}
    BY <1>2 DEF WaitingCalls
  <1>5. IsFiniteSet({}) /\ Cardinality({}) = 0
    BY FS_EmptySet
  <1>6. ParsersOK
    <2>1. maxPendingCalls \in Nat
      BY CodexAssumption
    <2>2. NewParser \in Parser /\ NewParser.pending = {} /\ NewParser.hasSession = FALSE
      BY DEF NewParser, Parser
    <2>3. \A f \in Rollouts : parser[f] = NewParser /\ ~IsOwned(f)
      BY <1>1, <1>2 DEF IsOwned
    <2> HIDE DEF NewParser
    <2> QED
      <3>1. parser \in [Rollouts -> Parser]
        BY <1>1, <2>2
      <3>2. ASSUME NEW f \in Rollouts
            PROVE  /\ parser[f].hasSession <=> IsOwned(f)
                   /\ IsFiniteSet(parser[f].pending) /\ Cardinality(parser[f].pending) <= maxPendingCalls
                   /\ parser[f].pending \subseteq WaitingCalls(f, Now)
                   /\ NeverFull /\ IsOwned(f) => parser[f].pending = WaitingCalls(f, Now)
                   /\ ~IsOwned(f) => parser[f].pending = {}
        <4>1. parser[f].pending = {} /\ ~parser[f].hasSession /\ ~IsOwned(f)
          BY <2>2, <2>3
        <4> QED
          BY <1>5, <2>1, <4>1
      <3> QED
        BY <3>1, <3>2 DEF ParsersOK
  <1>7. /\ codexSession \in StoredSession
        /\ codexSession.isKnown = FALSE /\ codexSession.plan = NoPlan /\ codexSession.revisions = <<>>
        /\ codexSession.alterations = 0 /\ codexSession.denials = 0 /\ codexSession.events = <<>>
    BY <1>1 DEF NoSession, StoredSession
  <1>8. VerdictsExact
    <2>1. Answers = {} /\ {n \in Answers : ~rolloutLog[n].isYes} = {}
      BY <1>1 DEF Answers
    <2> QED
      BY <1>5, <1>7, <2>1 DEF VerdictsExact
  <1>9. PlanLines = {}
    BY <1>1 DEF PlanLines
  <1>10. ProposedPlansKept
    <2>1. PlanChanges = {}
      BY <1>9 DEF PlanChanges
    <2>2. PlanBefore(Now) = NoPlan
      BY <1>9, NoPlanBefore
    <2>3. 0 < maxPlanRevisions /\ Len(<<>>) = 0
      BY CodexAssumption
    <2> QED
      BY <1>5, <1>7, <2>1, <2>2, <2>3 DEF ProposedPlansKept
  <1> QED
    BY <1>1, <1>2, <1>3, <1>6, <1>7, <1>8, <1>9, <1>10 DEF CodexInv

LEMMA NextCodex == CodexInv /\ [CodexNext]_codexVars => CodexInv'
  <1> SUFFICES ASSUME CodexInv, [CodexNext]_codexVars PROVE CodexInv'
    OBVIOUS
  <1>1. CASE UNCHANGED codexVars
    <2>1. rolloutLog' = rolloutLog /\ parser' = parser /\ codexSession' = codexSession
      BY <1>1 DEF codexVars
    <2>2. RolloutsOK'
      BY <2>1 DEF CodexInv, RolloutsOK, LinesOf
    <2>3. ParsersOK'
      BY <2>1 DEF CodexInv, ParsersOK, IsOwned, NeverFull, WaitingCalls, LinesOf, Now
    <2>4. VerdictsExact'
      BY <2>1 DEF CodexInv, VerdictsExact, NeverFull, WaitingCalls, LinesOf, Answers, IsHeard,
                  PlacesOfVerdict, Verdict
    <2>5. ProposedPlansKept' /\ PlanLines' = PlanLines
      <3>1. PlanLines' = PlanLines /\ Now' = Now
        BY <2>1 DEF PlanLines, Now
      <3>2. \A n : PlanBefore(n)' = PlanBefore(n)
        BY <2>1, <3>1 DEF PlanBefore
      <3>3. PlanBefore(Now)' = PlanBefore(Now)
        BY <2>1, <3>1 DEF PlanBefore
      <3>4. PlanChanges' = PlanChanges
        BY <2>1, <3>1, <3>2 DEF PlanChanges
      <3>5. \A n : ChangesUpTo(n)' = ChangesUpTo(n)
        BY <3>4 DEF ChangesUpTo
      <3> QED
        BY <2>1, <3>1, <3>2, <3>3, <3>4, <3>5 DEF CodexInv, ProposedPlansKept
    <2> QED
      BY <2>1, <2>2, <2>3, <2>4, <2>5 DEF CodexInv, LinesOf
  <1>2. CASE CodexNext
    <2>1. PICK f \in Rollouts : \E line : CanFollow(f, line) /\ Read(f, line)
      BY <1>2, NextLineIs DEF CodexInv
    <2>2. PICK line : CanFollow(f, line) /\ Read(f, line)
      BY <2>1
    <2>3. Grows(f, line)
      BY <2>2 DEF Grows, Read, CodexInv
    <2>4. parser' = [parser EXCEPT ![f] = ParserAfter(@, line)]
      BY <2>2 DEF Read
    <2>5. RolloutsOK' /\ ParsersOK'
      BY <2>3, <2>4, RolloutsNext, ParsersNext DEF CodexInv
    <2>6. StepTaken(f, line, codexSession')
      BY <2>2, <2>3, SessionStep DEF CodexInv
    <2>7. VerdictsExact' /\ ProposedPlansKept' /\ (PlanLines' # {} => codexSession'.plan # NoPlan)
      BY <2>2, <2>3, VerdictsNext, PlansNext
    <2>8. LinesOf(Main)' # {} <=> f = Main \/ LinesOf(Main) # {}
      BY <2>3, GrowsIs
    <2> QED
      BY <2>5, <2>6, <2>7, <2>8 DEF CodexInv, StepTaken
  <1> QED
    BY <1>1, <1>2

\* For any rollouts, plans, models and caps, and any interleaving of the files: while no
\* table of pending calls overflowed, each escalated call that was answered has its verdict
\* once, in order, and the denials are counted.
THEOREM VerdictsExactCorrect == CodexSpec => []VerdictsExact
  <1>1. CodexInv => VerdictsExact
    BY DEF CodexInv
  <1> QED
    BY <1>1, InitCodex, NextCodex, PTL DEF CodexSpec

\* The plan shown, its revisions and the count of alterations are those of the session's own
\* proposed plans.
THEOREM ProposedPlansCorrect == CodexSpec => []ProposedPlansKept
  <1>1. CodexInv => ProposedPlansKept
    BY DEF CodexInv
  <1> QED
    BY <1>1, InitCodex, NextCodex, PTL DEF CodexSpec

\* The parsers' tables and the list of revisions keep their limits, and a session nobody
\* knows has nothing.
THEOREM CodexTypeCorrect == CodexSpec => []CodexTypeOK
  <1>1. ASSUME CodexInv PROVE CodexTypeOK
    <2>1. codexSession \in StoredSession /\ (~codexSession.isKnown => codexSession = NoSession)
      BY <1>1 DEF CodexInv
    <2>2. parser \in [Rollouts -> Parser]
          /\ \A f \in Rollouts : Cardinality(parser[f].pending) <= maxPendingCalls
      BY <1>1 DEF CodexInv, ParsersOK
    <2>3. Len(codexSession.revisions) <= maxPlanRevisions
      <3>1. PICK changes : changes = Cardinality(PlanChanges)
        OBVIOUS
      <3>2. Len(codexSession.revisions) = IF changes < maxPlanRevisions THEN changes ELSE maxPlanRevisions
        BY <1>1, <3>1 DEF CodexInv, ProposedPlansKept
      <3>3. Len(codexSession.revisions) \in Nat /\ maxPlanRevisions \in Nat
        BY <2>1, SessionFields, CodexAssumption
      <3>4. CASE changes < maxPlanRevisions
        <4>1. Len(codexSession.revisions) = changes
          BY <3>2, <3>4
        <4> QED
          BY <3>3, <3>4, <4>1
      <3>5. CASE ~(changes < maxPlanRevisions)
        BY <3>2, <3>3, <3>5
      <3> QED
        BY <3>4, <3>5
    <2> QED
      BY <2>1, <2>2, <2>3, SessionFields DEF CodexTypeOK
  <1> QED
    BY <1>1, InitCodex, NextCodex, PTL DEF CodexSpec

==============================================================================
