---------------------------- MODULE Services_proofs ----------------------------
(***************************************************************************)
(* Proofs about what the process tells others.  PageStore and SessionGet: for  *)
(* any callers, requests, pages and changes meanwhile, each page is handed out  *)
(* once and the parts of an answer agree.  Feed: for any clients that read      *)
(* slowly, leave and come back, an event stream is in order and the places are   *)
(* counted.  Telemetry: for any records, evictions and restarts, the statistics  *)
(* of a session are those of its records.                                      *)
(***************************************************************************)
EXTENDS FiniteSetTheorems, SequenceTheorems, NaturalsInduction, WellFoundedInduction,
        SessionGet, Feed, Telemetry, TLAPS

-----------------------------------------------------------------------------
(* PageStore: the pages of an answer.                                        *)

\* Each page is either waiting or was handed out, in the order they were queued.
Whole == \A i \in Ids : handed[i] \o queue[i] = built[i]

\* Nothing waits under an id that has no entry or whose answers have ended.
NothingLeft == \A i \in Ids : i \notin open \/ i \in ended => queue[i] = <<>>

\* Entries, ends and calls are about ids that were given out.
OnlyIssued ==
  /\ open \subseteq Issued /\ ended \subseteq Issued
  /\ \A c \in Callers : at[c] # "idle" => asked[c] \in Issued

\* What a call saw when it found no further page is still so.
DrainedStays == \A c \in Callers : at[c] = "drained" => queue[asked[c]] = <<>>

\* The call that took the last page is on its way to drop the entry.
Closing(i) == \E c \in Callers : at[c] \in {"took", "drained"} /\ asked[c] = i

CloserOnItsWay == \A i \in open : queue[i] = <<>> => Closing(i)

StoreInv ==
  /\ StoreTypeOK /\ Whole /\ NothingLeft /\ OnlyIssued
  /\ DrainedStays /\ CloserOnItsWay /\ EmptyOnlyIfShared

\* Moving the head of one sequence to the end of another leaves their concatenation.
LEMMA MoveHead ==
  ASSUME NEW S, NEW h \in Seq(S), NEW q \in Seq(S), q # <<>>
  PROVE  /\ Head(q) \in S /\ Tail(q) \in Seq(S) /\ Append(h, Head(q)) \in Seq(S)
         /\ Append(h, Head(q)) \o Tail(q) = h \o q
  <1>1. /\ Head(q) \in S /\ Tail(q) \in Seq(S) /\ Append(h, Head(q)) \in Seq(S)
    BY HeadTailProperties, AppendProperties
  <1>2. <<Head(q)>> \o Tail(q) = q
    BY SMT
  <1>3. Append(h, Head(q)) = h \o <<Head(q)>>
    BY <1>1, AppendIsConcat
  <1>4. (h \o <<Head(q)>>) \o Tail(q) = h \o (<<Head(q)>> \o Tail(q))
    BY <1>1, ConcatAssociative
  <1> QED
    BY <1>1, <1>2, <1>3, <1>4

\* A concatenation is empty only where both parts are.
LEMMA EmptyParts ==
  ASSUME StoreTypeOK, Whole, NEW i \in Ids, i \notin Issued
  PROVE  handed[i] = <<>> /\ queue[i] = <<>>
  <1>1. handed[i] \in Seq(Pages) /\ queue[i] \in Seq(Pages) /\ handed[i] \o queue[i] = <<>>
    BY DEF StoreTypeOK, Whole, Issued
  <1> QED
    BY <1>1, ConcatEqualIffEmpty

LEMMA InitStore == StoreInit => StoreInv
  <1> SUFFICES ASSUME StoreInit PROVE StoreInv
    OBVIOUS
  <1>1. StoreTypeOK
    BY EmptySeq DEF StoreInit, StoreTypeOK
  <1>2. Whole
    BY EmptySeq, ConcatEmptySeq DEF StoreInit, Whole
  <1> QED
    BY <1>1, <1>2 DEF StoreInit, StoreInv, NothingLeft, OnlyIssued, DrainedStays, CloserOnItsWay,
       EmptyOnlyIfShared

\* add keeps the invariant: nothing was queued or taken under the new id.
LEMMA AddKeeps ==
  ASSUME StoreInv, NEW i \in Ids, NEW pages \in Seq(Pages), AddPages(i, pages)
  PROVE  StoreInv'
  <1> USE DEF AddPages, entries, calls
  <1>1. handed[i] = <<>>
    BY EmptyParts DEF StoreInv
  <1>2. StoreTypeOK'
    BY DEF StoreInv, StoreTypeOK
  <1>3. Whole'
    BY <1>1, ConcatEmptySeq DEF StoreInv, Whole, StoreTypeOK
  <1>4. Issued' = Issued \cup {i}
    BY DEF StoreInv, Issued, StoreTypeOK
  <1>5. OnlyIssued'
    BY <1>4 DEF StoreInv, OnlyIssued
  <1>6. NothingLeft'
    BY DEF StoreInv, NothingLeft, OnlyIssued, StoreTypeOK
  <1>7. DrainedStays'
    BY DEF StoreInv, DrainedStays, OnlyIssued, Issued, StoreTypeOK
  <1>8. CloserOnItsWay'
    <2>1. UNCHANGED <<at, asked>> /\ \A j \in Ids \ {i} : queue'[j] = queue[j]
      BY DEF StoreInv, StoreTypeOK
    <2>2. \A j \in open' : j \in Ids /\ (queue'[j] = <<>> => j \in open /\ queue[j] = <<>>)
      BY DEF StoreInv, StoreTypeOK
    <2>3. \A j : Closing(j)' <=> Closing(j)
      BY <2>1 DEF Closing
    <2> QED
      BY <2>2, <2>3 DEF StoreInv, CloserOnItsWay
  <1>9. EmptyOnlyIfShared'
    BY DEF StoreInv, EmptyOnlyIfShared
  <1> QED
    BY <1>2, <1>3, <1>5, <1>6, <1>7, <1>8, <1>9 DEF StoreInv

\* next keeps the invariant: the page goes from the channel's head to the end of what was
\* handed out; where the channel is drained a closer is still under way.
LEMMA TakePageKeeps ==
  ASSUME StoreInv, NEW c \in Callers, NEW i \in Ids, TakePage(c, i)
  PROVE  StoreInv'
  <1> DEFINE full == queue[i] # <<>>
  <1>1. /\ queue[i] \in Seq(Pages) /\ handed[i] \in Seq(Pages)
        /\ at[c] = "idle" /\ i \in open /\ UNCHANGED <<open, built, ended>>
        /\ at' = [at EXCEPT ![c] = "took"] /\ asked' = [asked EXCEPT ![c] = i]
        /\ shared \subseteq shared' /\ shared' \subseteq Ids
        /\ Busy(i) # {} => i \in shared'
    BY DEF StoreInv, StoreTypeOK, TakePage, Goto
  <1>2. CASE full
    <2>1. /\ queue' = [queue EXCEPT ![i] = Tail(@)]
          /\ handed' = [handed EXCEPT ![i] = Append(@, Head(queue[i]))] /\ UNCHANGED empty
      BY <1>2 DEF TakePage
    <2>2. /\ Tail(queue[i]) \in Seq(Pages) /\ Append(handed[i], Head(queue[i])) \in Seq(Pages)
          /\ Append(handed[i], Head(queue[i])) \o Tail(queue[i]) = handed[i] \o queue[i]
      BY <1>1, <1>2, MoveHead
    <2>3. StoreTypeOK'
      BY <1>1, <2>1, <2>2 DEF StoreInv, StoreTypeOK
    <2>4. Whole'
      BY <1>1, <2>1, <2>2 DEF StoreInv, StoreTypeOK, Whole
    <2>5. NothingLeft'
      BY <1>1, <1>2, <2>1 DEF StoreInv, StoreTypeOK, NothingLeft
    <2>6. OnlyIssued'
      BY <1>1 DEF StoreInv, StoreTypeOK, OnlyIssued, Issued
    <2>7. DrainedStays'
      BY <1>1, <1>2, <2>1 DEF StoreInv, StoreTypeOK, DrainedStays, OnlyIssued, Issued
    <2>8. CloserOnItsWay'
      BY <1>1, <2>1 DEF StoreInv, StoreTypeOK, CloserOnItsWay, Closing
    <2>9. EmptyOnlyIfShared'
      BY <1>1, <2>1 DEF StoreInv, EmptyOnlyIfShared
    <2> QED
      BY <2>3, <2>4, <2>5, <2>6, <2>7, <2>8, <2>9 DEF StoreInv
  <1>3. CASE ~full
    <2>1. empty' = empty \cup {i} /\ UNCHANGED <<queue, handed>>
      BY <1>3 DEF TakePage
    <2>2. Busy(i) # {}
      BY <1>1, <1>3 DEF StoreInv, CloserOnItsWay, Closing, Busy
    <2>3. StoreTypeOK'
      BY <1>1, <2>1 DEF StoreInv, StoreTypeOK
    <2>4. Whole' /\ NothingLeft'
      BY <1>1, <2>1 DEF StoreInv, Whole, NothingLeft
    <2>5. OnlyIssued'
      BY <1>1 DEF StoreInv, StoreTypeOK, OnlyIssued, Issued
    <2>6. DrainedStays'
      BY <1>1, <2>1 DEF StoreInv, StoreTypeOK, DrainedStays
    <2>7. CloserOnItsWay'
      BY <1>1, <2>1 DEF StoreInv, StoreTypeOK, CloserOnItsWay, Closing
    <2>8. EmptyOnlyIfShared'
      BY <1>1, <2>1, <2>2 DEF StoreInv, EmptyOnlyIfShared
    <2> QED
      BY <2>3, <2>4, <2>5, <2>6, <2>7, <2>8 DEF StoreInv
  <1> QED
    BY <1>2, <1>3

\* hasNext keeps the invariant: a call that took the last page goes on to drop the entry.
LEMMA AskNextKeeps ==
  ASSUME StoreInv, NEW c \in Callers, AskNext(c)
  PROVE  StoreInv'
  <1> USE DEF entries, told
  <1>1. /\ at[c] = "took" /\ UNCHANGED <<entries, asked, told>>
        /\ asked[c] \in Ids
        /\ \/ HasNext(asked[c]) /\ at' = [at EXCEPT ![c] = "more"]
           \/ ~HasNext(asked[c]) /\ at' = [at EXCEPT ![c] = "drained"]
    BY DEF AskNext, Goto, StoreInv, OnlyIssued, Issued
  <1>2. StoreTypeOK'
    BY <1>1 DEF StoreInv, StoreTypeOK
  <1>3. Whole' /\ NothingLeft' /\ EmptyOnlyIfShared'
    BY <1>1 DEF StoreInv, Whole, NothingLeft, EmptyOnlyIfShared
  <1>4. OnlyIssued'
    BY <1>1 DEF StoreInv, StoreTypeOK, OnlyIssued, Issued
  <1>5. DrainedStays'
    BY <1>1 DEF StoreInv, StoreTypeOK, DrainedStays, NothingLeft, HasNext
  <1>6. CloserOnItsWay'
    BY <1>1 DEF StoreInv, StoreTypeOK, CloserOnItsWay, Closing, HasNext
  <1> QED
    BY <1>2, <1>3, <1>4, <1>5, <1>6 DEF StoreInv

\* remove keeps the invariant: the channel it drops is drained.
LEMMA RemoveKeeps ==
  ASSUME StoreInv, NEW c \in Callers, RemoveEntry(c)
  PROVE  StoreInv'
  <1> DEFINE i == asked[c]
  <1>1. /\ at[c] = "drained" /\ i \in Ids /\ i \in Issued /\ queue[i] = <<>>
        /\ at' = [at EXCEPT ![c] = "idle"] /\ asked' = [asked EXCEPT ![c] = ""]
        /\ open' = open \ {i} /\ ended' = ended \cup {i}
        /\ UNCHANGED <<built, handed, shared, empty>>
    BY DEF RemoveEntry, Return, Goto, StoreInv, DrainedStays, OnlyIssued, Issued
  <1>2. queue' = queue
    BY <1>1 DEF RemoveEntry, StoreInv, StoreTypeOK
  <1>3. StoreTypeOK'
    BY <1>1, <1>2 DEF StoreInv, StoreTypeOK
  <1>4. Whole' /\ NothingLeft' /\ EmptyOnlyIfShared'
    BY <1>1, <1>2 DEF StoreInv, Whole, NothingLeft, EmptyOnlyIfShared
  <1>5. OnlyIssued'
    BY <1>1 DEF StoreInv, StoreTypeOK, OnlyIssued, Issued
  <1>6. DrainedStays'
    BY <1>1, <1>2 DEF StoreInv, StoreTypeOK, DrainedStays
  <1>7. CloserOnItsWay'
    BY <1>1, <1>2 DEF StoreInv, StoreTypeOK, CloserOnItsWay, Closing
  <1> QED
    BY <1>3, <1>4, <1>5, <1>6, <1>7 DEF StoreInv

\* The second hasNext keeps the invariant: without another page the id has nothing left.
LEMMA AskMoreKeeps ==
  ASSUME StoreInv, NEW c \in Callers, AskMore(c)
  PROVE  StoreInv'
  <1> USE DEF entries
  <1>1. /\ at[c] = "more" /\ asked[c] \in Ids /\ asked[c] \in Issued
        /\ at' = [at EXCEPT ![c] = "idle"] /\ asked' = [asked EXCEPT ![c] = ""]
        /\ UNCHANGED <<entries, built, handed, shared, empty>>
        /\ \/ ended' = ended
           \/ ~HasNext(asked[c]) /\ ended' = ended \cup {asked[c]}
    BY DEF AskMore, Return, Goto, StoreInv, OnlyIssued, Issued
  <1>2. StoreTypeOK'
    BY <1>1 DEF StoreInv, StoreTypeOK
  <1>3. Whole' /\ EmptyOnlyIfShared'
    BY <1>1 DEF StoreInv, Whole, EmptyOnlyIfShared
  <1>4. NothingLeft'
    BY <1>1 DEF StoreInv, NothingLeft, HasNext
  <1>5. OnlyIssued'
    BY <1>1 DEF StoreInv, StoreTypeOK, OnlyIssued, Issued
  <1>6. DrainedStays'
    BY <1>1 DEF StoreInv, StoreTypeOK, DrainedStays
  <1>7. CloserOnItsWay'
    BY <1>1 DEF StoreInv, StoreTypeOK, CloserOnItsWay, Closing
  <1> QED
    BY <1>2, <1>3, <1>4, <1>5, <1>6, <1>7 DEF StoreInv

LEMMA NextStore == StoreInv /\ [StoreNext]_storeVars => StoreInv'
  <1> SUFFICES ASSUME StoreInv, [StoreNext]_storeVars PROVE StoreInv'
    OBVIOUS
  <1>1. CASE \E i \in Ids : \E pages \in Seq(Pages) : AddPages(i, pages)
    BY <1>1, AddKeeps
  <1>2. ASSUME NEW c \in Callers, PageStep(c) PROVE StoreInv'
    BY <1>2, AskNextKeeps, RemoveKeeps, AskMoreKeeps, TakePageKeeps DEF PageStep
  <1>3. CASE UNCHANGED storeVars
    BY <1>3 DEF StoreInv, storeVars, entries, calls, told, StoreTypeOK, Whole, NothingLeft, OnlyIssued,
       Issued, DrainedStays, CloserOnItsWay, Closing, EmptyOnlyIfShared
  <1> QED
    BY <1>1, <1>2, <1>3 DEF StoreNext

\* The invariant is one.
THEOREM StoreInvHolds == StoreSpec => []StoreInv
  <1> QED
    BY InitStore, NextStore, PTL DEF StoreSpec

\* The entries and the calls keep their types for any number of callers and ids.
THEOREM StoreTypeCorrect == StoreSpec => []StoreTypeOK
  <1>1. StoreInv => StoreTypeOK
    BY DEF StoreInv
  <1> QED
    BY <1>1, StoreInvHolds, PTL

\* A page is handed out once and in order, none is lost with its entry, has_more = false
\* comes after the last one, and a call that is alone with its id takes a page.
THEOREM PagesOnceCorrect == StoreSpec => []PagesOnce
  <1>1. ASSUME StoreInv PROVE PagesOnce
    <2>1. \A i \in Ids : handed[i] \o queue[i] = built[i]
      BY <1>1 DEF StoreInv, Whole
    <2>2. ASSUME NEW i \in ended PROVE handed[i] = built[i]
      <3>1. i \in Ids /\ queue[i] = <<>> /\ handed[i] \in Seq(Pages)
        BY <1>1 DEF StoreInv, NothingLeft, StoreTypeOK
      <3> QED
        BY <3>1, <2>1, ConcatEmptySeq
    <2> QED
      BY <1>1, <2>1, <2>2 DEF StoreInv, PagesOnce, EachPageOnce
  <1> QED
    BY <1>1, StoreInvHolds, PTL

-----------------------------------------------------------------------------
(* SessionGet.                                                               *)

\* The numbers are numbers of changes.
Numbers ==
  /\ live \in [AllSections -> Nat] /\ call.seen \in [AllSections -> Nat]
  /\ \A s \in AllSections : call.seen[s] <= live[s]

\* The counters lack no event but the one that is being added.
Tallied ==
  /\ counted \in Nat /\ counted <= live["events"] /\ live["events"] <= counted + 1
  /\ ~adding => counted = live["events"]

\* Every call comes from a request.
FromRequest ==
  /\ call = [request |-> call.request, todo |-> call.todo, seen |-> call.seen,
             header |-> call.header, target |-> call.target]
  /\ call = NoCall \/ call.request \in Requests

\* Whatever of a call was read goes together: the header with the turns, the target of a
\* structured answer with the diff.
ReadTogether ==
  /\ call.header = call.seen["turns"]
  /\ call.request.json => call.target = call.seen["diff"]

GetInv == Numbers /\ Tallied /\ FromRequest /\ ReadTogether /\ PartsAgree

LEMMA InitGetInv == GetInit => GetInv
  <1> SUFFICES ASSUME GetInit PROVE GetInv
    OBVIOUS
  <1>1. Numbers /\ Tallied
    BY DEF GetInit, Numbers, Tallied, NoCall, AllSections
  <1>2. FromRequest /\ ReadTogether
    BY DEF GetInit, FromRequest, ReadTogether, NoCall, NoRequest, AllSections
  <1>3. PartsAgree
    BY DEF GetInit, PartsAgree, NoAnswer, NoCall, NoRequest, Asked
  <1> QED
    BY <1>1, <1>2, <1>3 DEF GetInv

\* A change of the session leaves what was read as it was, and adds at most one to each.
LEMMA ChangeKeepsRead ==
  ASSUME GetInv, NEW sections, Change(sections)
  PROVE  /\ Numbers' /\ FromRequest' /\ ReadTogether' /\ PartsAgree'
         /\ live'["events"] = IF "events" \in sections THEN live["events"] + 1 ELSE live["events"]
  <1>1. Numbers'
    <2>1. /\ live \in [AllSections -> Nat] /\ call.seen \in [AllSections -> Nat] /\ call' = call
          /\ live' = [s \in AllSections |-> IF s \in sections THEN live[s] + 1 ELSE live[s]]
          /\ \A s \in AllSections : call.seen[s] <= live[s]
      BY DEF GetInv, Numbers, Change
    <2>2. \A s \in AllSections : live'[s] \in Nat /\ live[s] <= live'[s]
      BY <2>1
    <2> QED
      BY <2>1, <2>2 DEF Numbers
  <1>2. live'["events"] = IF "events" \in sections THEN live["events"] + 1 ELSE live["events"]
    BY DEF Change, AllSections
  <1> QED
    BY <1>1, <1>2 DEF GetInv, FromRequest, ReadTogether, PartsAgree, Change, Asked

\* The counters follow an event before the next one is pushed, or the lock given back.
LEMMA WatchersKeepGet ==
  ASSUME GetInv, PushEvent \/ CountEvent \/ FinishTurn \/ Watch PROVE GetInv'
  <1> USE DEF GetInv
  <1>1. live["events"] \in Nat
    BY DEF Numbers, AllSections
  <1>2. CASE PushEvent
    <2>1. Change({"events"}) /\ UNCHANGED counted /\ adding' = TRUE /\ counted = live["events"]
      BY <1>2 DEF PushEvent, Tallied
    <2>2. live'["events"] = live["events"] + 1
      BY <2>1, ChangeKeepsRead
    <2>3. Tallied'
      BY <1>1, <2>1, <2>2 DEF Tallied
    <2> QED
      BY <2>1, <2>3, ChangeKeepsRead
  <1>3. CASE CountEvent
    <2>1. UNCHANGED <<live, adding, call, answer>> /\ counted' = live["events"] /\ adding
      BY <1>3 DEF CountEvent
    <2>2. Tallied'
      BY <1>1, <2>1 DEF Tallied
    <2> QED
      BY <2>1, <2>2 DEF Numbers, FromRequest, ReadTogether, PartsAgree, Asked
  <1>4. CASE FinishTurn
    <2>1. PICK sections \in {{}, {"turns"}} : Change(sections)
      BY <1>4 DEF FinishTurn
    <2>2. /\ UNCHANGED counted /\ adding' = FALSE /\ counted = live["events"]
          /\ live'["events"] = live["events"]
      BY <1>4, <2>1, ChangeKeepsRead DEF FinishTurn
    <2>3. Tallied'
      BY <1>1, <2>2 DEF Tallied
    <2> QED
      BY <2>1, <2>3, ChangeKeepsRead
  <1>5. CASE Watch
    <2>1. PICK sections \in {{"turns"}, {"plan", "revisions"}, {"diff"}, {"uncommitted"}, {"memory"}} :
             Change(sections)
      BY <1>5 DEF Watch
    <2>2. UNCHANGED <<counted, adding>> /\ live'["events"] = live["events"]
      BY <1>5, <2>1, ChangeKeepsRead DEF Watch
    <2>3. Tallied'
      BY <2>2 DEF Tallied
    <2> QED
      BY <2>1, <2>3, ChangeKeepsRead
  <1> QED
    BY <1>2, <1>3, <1>4, <1>5

LEMMA CallKeepsGet ==
  ASSUME GetInv, NEW request \in Requests, Call(request) PROVE GetInv'
  <1>1. /\ call'.request = request /\ call'.seen = [s \in AllSections |-> 0]
        /\ call'.header = 0 /\ call'.target = 0 /\ UNCHANGED <<live, counted, adding, answer>>
        /\ call' = [request |-> call'.request, todo |-> call'.todo, seen |-> call'.seen,
                    header |-> call'.header, target |-> call'.target]
    BY DEF Call, NoCall, sessionVars
  <1>2. Numbers' /\ Tallied' /\ FromRequest'
    BY <1>1 DEF GetInv, Numbers, Tallied, FromRequest
  <1>3. ReadTogether' /\ PartsAgree'
    BY <1>1 DEF GetInv, ReadTogether, PartsAgree, Asked, AllSections
  <1> QED
    BY <1>2, <1>3 DEF GetInv

LEMMA ReadKeepsGet ==
  ASSUME GetInv, ReadSection PROVE GetInv'
  <1> DEFINE section == Head(call.todo)
  <1>1. /\ call' = [call EXCEPT !.todo = Tail(@), !.seen[section] = live[section],
                                !.header = HeaderRead(section), !.target = TargetRead(section)]
        /\ UNCHANGED <<live, counted, adding, answer>> /\ call.todo # <<>>
    BY DEF ReadSection, sessionVars
  <1> HIDE DEF section
  <1>2. /\ call'.request = call.request /\ call'.seen = [call.seen EXCEPT ![section] = live[section]]
        /\ call'.header = HeaderRead(section) /\ call'.target = TargetRead(section)
        /\ call' = [request |-> call'.request, todo |-> call'.todo, seen |-> call'.seen,
                    header |-> call'.header, target |-> call'.target]
    BY <1>1 DEF GetInv, FromRequest
  <1>3. Numbers'
    <2>1. PICK seen : seen = call'.seen
      OBVIOUS
    <2>2. /\ seen = [call.seen EXCEPT ![section] = live[section]] /\ live' = live
          /\ live \in [AllSections -> Nat] /\ call.seen \in [AllSections -> Nat]
          /\ \A s \in AllSections : call.seen[s] <= live[s]
      BY <1>1, <1>2, <2>1 DEF GetInv, Numbers
    <2>3. \A s \in AllSections : seen[s] = IF s = section THEN live[s] ELSE call.seen[s]
      BY <2>2
    <2>4. seen \in [AllSections -> Nat]
      BY <2>2
    <2> QED
      BY <2>1, <2>2, <2>3, <2>4 DEF Numbers
  <1>4. FromRequest'
    <2>1. call = NoCall => call.todo = <<>>
      BY DEF NoCall
    <2> QED
      BY <1>1, <1>2, <2>1 DEF GetInv, FromRequest
  <1>5. ReadTogether'
    <2>1. "turns" \in AllSections /\ "diff" \in AllSections
      BY DEF AllSections
    <2> QED
      BY <1>1, <1>2, <2>1 DEF GetInv, Numbers, ReadTogether, HeaderRead, TargetRead
  <1> QED
    BY <1>1, <1>3, <1>4, <1>5 DEF GetInv, Tallied, PartsAgree, Asked

LEMMA AnswerKeepsGet ==
  ASSUME GetInv, Answer PROVE GetInv'
  <1>1. /\ call # NoCall /\ call' = NoCall /\ UNCHANGED <<live, counted, adding>>
        /\ answer'.call = [call EXCEPT !.header = FinalHeader, !.target = FinalTarget]
    <2> DEFINE order == Order(call.request)
               texts == [s \in {order[n] : n \in DOMAIN order} |->
                           IF s \in call.request.sections THEN TextOf[s][call.seen[s]] ELSE <<>>]
               pages == Build(order, PageSize, texts)
               final == [call EXCEPT !.header = FinalHeader, !.target = FinalTarget]
               given == [call |-> final, id |-> "", texts |-> texts, first |-> Head(pages)]
    <2>1. /\ call # NoCall /\ call' = NoCall /\ UNCHANGED <<live, counted, adding>>
          /\ answer' = given \/ \E i \in Ids : answer' = [given EXCEPT !.id = i]
      BY Zenon DEF Answer, sessionVars
    <2> HIDE DEF texts, pages, final
    <2>2. answer'.call = final
      <3>1. CASE answer' = given
        BY <3>1
      <3>2. ASSUME NEW i \in Ids, answer' = [given EXCEPT !.id = i] PROVE answer'.call = final
        BY <3>2
      <3> QED
        BY <2>1, <3>1, <3>2
    <2> QED
      BY <2>1, <2>2 DEF final
  <1>2. /\ answer'.call.request = call.request /\ answer'.call.seen = call.seen
        /\ answer'.call.header = FinalHeader /\ answer'.call.target = FinalTarget
    BY <1>1 DEF GetInv, FromRequest
  <1>3. call.request \in Requests
    BY <1>1 DEF GetInv, FromRequest
  <1>4. call.request.tool = "session_events" => "turns" \notin call.request.sections
    BY <1>3, SessionGetAssumption
  <1>5. call.seen["events"] \in Nat /\ counted \in Nat /\ call.seen["events"] <= counted + 1
    BY DEF GetInv, Numbers, Tallied, AllSections
  <1>6. PartsAgree'
    BY <1>2, <1>4, <1>5 DEF GetInv, ReadTogether, PartsAgree, FinalHeader, FinalTarget, Asked
  <1>7. Numbers' /\ Tallied' /\ FromRequest' /\ ReadTogether'
    BY <1>1 DEF GetInv, Numbers, Tallied, FromRequest, ReadTogether, NoCall, NoRequest, AllSections
  <1> QED
    BY <1>6, <1>7 DEF GetInv

LEMMA NextKeepsGet == GetInv /\ [GetNext]_getVars => GetInv'
  <1> SUFFICES ASSUME GetInv, [GetNext]_getVars PROVE GetInv'
    OBVIOUS
  <1>1. CASE UNCHANGED <<sessionVars, call, answer>>
    BY <1>1 DEF GetInv, Numbers, Tallied, sessionVars, FromRequest, ReadTogether, PartsAgree, Asked
  <1>2. CASE PushEvent \/ CountEvent \/ FinishTurn \/ Watch
    BY <1>2, WatchersKeepGet
  <1>3. ASSUME NEW request \in Requests, Call(request) PROVE GetInv'
    BY <1>3, CallKeepsGet
  <1>4. CASE ReadSection
    BY <1>4, ReadKeepsGet
  <1>5. CASE Answer
    BY <1>5, AnswerKeepsGet
  <1>6. ASSUME NEW c \in Callers, NextPage(c) PROVE GetInv'
    BY <1>6, <1>1 DEF NextPage
  <1>7. CASE UNCHANGED getVars
    BY <1>7, <1>1 DEF getVars
  <1> QED
    BY <1>2, <1>3, <1>4, <1>5, <1>6, <1>7 DEF GetNext

\* For any requests, any texts and pages and any number of changes between the reads of
\* a call, those of a turn that is being added among them: an answer's totals are those of
\* its turns, its counters lack at most the one event that was being added, and a
\* structured answer names the target of its diff (AddEvent, session_events).
THEOREM PartsAgreeCorrect == GetSpec => []PartsAgree
  <1>1. GetInv => PartsAgree
    BY DEF GetInv
  <1> QED
    BY <1>1, InitGetInv, NextKeepsGet, PTL DEF GetSpec

-----------------------------------------------------------------------------
(* Feed: sequences of events by number.                                      *)

Increasing(flow) == \A k, m \in DOMAIN flow : k < m => flow[k].number < flow[m].number

Elements(flow) == {flow[k] : k \in DOMAIN flow}

UpTo(flow, n) == \A k \in DOMAIN flow : flow[k].number <= n

\* The events a handler has in hand are one or none.
LEMMA InHandIs ==
  ASSUME FeedTypeOK, NEW c \in Clients
  PROVE  /\ InHand(c) \in Seq(Event)
         /\ handlerAt[c] # "write" \/ frame[c] = Heartbeat => InHand(c) = <<>>
         /\ handlerAt[c] = "write" /\ frame[c] # Heartbeat => InHand(c) = <<frame[c]>>
  BY DEF InHand, FeedTypeOK

LEMMA AtTheEnd ==
  ASSUME NEW p \in Seq(Event), NEW q \in Seq(Event), NEW r \in Seq(Event), NEW e \in Event
  PROVE  (p \o q) \o Append(r, e) = Append((p \o q) \o r, e)
  OBVIOUS

\* An event that is newer than all goes to the end.
LEMMA NewestLast ==
  ASSUME NEW flow \in Seq(Event), NEW n \in Nat, NEW e \in Event, e.number = n + 1,
         Increasing(flow), UpTo(flow, n)
  PROVE  /\ Increasing(Append(flow, e)) /\ UpTo(Append(flow, e), n + 1)
         /\ Elements(Append(flow, e)) = Elements(flow) \cup {e}
  <1> DEFINE longer == Append(flow, e)
  <1>1. /\ Len(flow) \in Nat /\ DOMAIN flow = 1 .. Len(flow) /\ DOMAIN longer = 1 .. Len(flow) + 1
        /\ \A k \in 1 .. Len(flow) : longer[k] = flow[k] /\ flow[k] \in Event
        /\ longer[Len(flow) + 1] = e
    OBVIOUS
  <1>2. \A d \in Event : d.number \in Nat
    BY DEF Event
  <1> HIDE DEF longer
  <1>3. \A k \in DOMAIN longer : k \in DOMAIN flow \/ k = Len(flow) + 1
    BY <1>1
  <1>4. Increasing(longer)
    BY <1>1, <1>2, <1>3 DEF Increasing, UpTo
  <1>5. UpTo(longer, n + 1)
    BY <1>1, <1>2, <1>3 DEF UpTo
  <1>6. Elements(longer) = Elements(flow) \cup {e}
    BY <1>1, <1>3 DEF Elements
  <1> QED
    BY <1>4, <1>5, <1>6 DEF longer

\* One event less in the middle leaves the order of the others.
LEMMA OneLess ==
  ASSUME NEW got \in Seq(Event), NEW rest \in Seq(Event), rest # <<>>, NEW n \in Nat,
         Increasing(got \o rest), UpTo(got \o rest, n)
  PROVE  /\ Increasing(got \o Tail(rest)) /\ UpTo(got \o Tail(rest), n)
         /\ Elements(got \o rest) = Elements(got \o Tail(rest)) \cup {Head(rest)}
  <1> DEFINE long == got \o rest
             short == got \o Tail(rest)
  <1>1. /\ Len(got) \in Nat /\ Len(rest) \in Nat \ {0}
        /\ Tail(rest) \in Seq(Event) /\ Len(Tail(rest)) = Len(rest) - 1
        /\ Head(rest) = rest[1]
        /\ \A k \in 1 .. Len(rest) - 1 : Tail(rest)[k] = rest[k + 1]
    OBVIOUS
  <1>2. /\ DOMAIN long = 1 .. Len(got) + Len(rest)
        /\ \A k \in 1 .. Len(got) : long[k] = got[k]
        /\ \A k \in 1 .. Len(rest) : long[Len(got) + k] = rest[k]
    BY <1>1
  <1>3. /\ DOMAIN short = 1 .. Len(got) + Len(rest) - 1
        /\ \A k \in 1 .. Len(got) : short[k] = got[k]
        /\ \A k \in 1 .. Len(rest) - 1 : short[Len(got) + k] = rest[k + 1]
    BY <1>1
  <1> DEFINE Old(k) == IF k <= Len(got) THEN k ELSE k + 1
  <1> HIDE DEF long, short
  <1>4. \A k \in DOMAIN short : Old(k) \in DOMAIN long /\ short[k] = long[Old(k)]
    <2>1. TAKE k \in DOMAIN short
    <2>2. CASE k <= Len(got)
      BY <1>1, <1>2, <1>3, <2>2
    <2>3. CASE ~(k <= Len(got))
      <3>1. PICK m \in 1 .. Len(rest) - 1 : k = Len(got) + m
        <4>1. k - Len(got) \in 1 .. Len(rest) - 1 /\ k = Len(got) + (k - Len(got))
          BY <1>1, <1>3, <2>3
        <4> QED
          BY <4>1
      <3>2. m + 1 \in 1 .. Len(rest) /\ k + 1 = Len(got) + (m + 1)
        BY <1>1, <3>1
      <3> QED
        BY <1>1, <1>2, <1>3, <2>3, <3>1, <3>2
    <2> QED
      BY <2>2, <2>3
  <1>5. \A k, m \in DOMAIN short : k < m => Old(k) < Old(m)
    BY <1>1, <1>3
  <1>6. Increasing(short) /\ UpTo(short, n)
    BY <1>4, <1>5 DEF Increasing, UpTo, long
  <1>7. long[Len(got) + 1] = Head(rest) /\ Len(got) + 1 \in DOMAIN long
    BY <1>1, <1>2
  <1>8. \A k \in DOMAIN long \ {Len(got) + 1} : \E m \in DOMAIN short : Old(m) = k
    <2>1. TAKE k \in DOMAIN long \ {Len(got) + 1}
    <2>2. CASE k <= Len(got)
      BY <1>1, <1>2, <1>3, <2>2
    <2>3. CASE ~(k <= Len(got))
      <3>1. k - 1 \in DOMAIN short /\ Old(k - 1) = k
        BY <1>1, <1>2, <1>3, <2>3
      <3> QED
        BY <3>1
    <2> QED
      BY <2>2, <2>3
  <1> HIDE DEF Old
  <1>9. Elements(long) = Elements(short) \cup {Head(rest)}
    BY <1>4, <1>7, <1>8 DEF Elements
  <1> QED
    BY <1>6, <1>9 DEF long, short

-----------------------------------------------------------------------------
(* Feed: the invariant.                                                      *)

Out == {c \in Clients : handlerAt[c] = "out"}
Inside == {c \in Clients : handlerAt[c] # "out"}
Served == {c \in Clients : handlerAt[c] \in {"admit", "stream", "write"}}
Streaming(c) == handlerAt[c] \in {"stream", "write"}

Numbered == \A n \in DOMAIN published : published[n].number = n

\* What a handler that streams has in hand is asked for, and all it knows of is published.
Following(c) ==
  /\ c \in subs /\ since[c] <= Len(published)
  /\ \A e \in missed[c] : e.number <= Len(published)
  /\ \A k \in DOMAIN InHand(c) : IsAsked(c, InHand(c)[k])
  /\ UpTo(Flow(c), Len(published))
  /\ InOrder(c)

FeedInv ==
  /\ FeedTypeOK /\ Numbered
  /\ IsFiniteSet(Inside) /\ PlacesCounted
  /\ \A c \in Clients : Streaming(c) => Following(c)

LEMMA InitFeed == FeedInit => FeedInv
  <1> SUFFICES ASSUME FeedInit PROVE FeedInv
    OBVIOUS
  <1>1. FeedTypeOK
    BY FeedAssumption DEF FeedInit, FeedTypeOK
  <1>2. Inside = {} /\ Served = {} /\ Numbered /\ \A c \in Clients : ~Streaming(c)
    BY DEF FeedInit, Inside, Served, Numbered, Streaming
  <1>3. IsFiniteSet(Inside) /\ PlacesCounted
    <2>1. sseClients = Cardinality(Inside) /\ Cardinality(Served) = 0 /\ IsFiniteSet(Inside)
      BY <1>2, FS_EmptySet DEF FeedInit
    <2> QED
      BY <2>1, FeedAssumption DEF PlacesCounted, Inside, Served
  <1> QED
    BY <1>1, <1>2, <1>3 DEF FeedInv

\* A client whose flow stays as it was goes on in order.
LEMMA FlowStays ==
  ASSUME NEW c \in Clients, Following(c), Flow(c)' = Flow(c),
         published' = published, agent'[c] = agent[c], since'[c] = since[c],
         missed'[c] = missed[c], c \in subs',
         \A k \in DOMAIN sent'[c] : IsAsked(c, sent'[c][k]),
         \A k \in DOMAIN InHand(c)' : IsAsked(c, InHand(c)'[k])
  PROVE  Following(c)'
  <1>1. PICK flow : flow = Flow(c)
    OBVIOUS
  <1>2. flow = Flow(c)'
    BY <1>1
  <1>3. \A e : IsAsked(c, e)' <=> IsAsked(c, e)
    BY DEF IsAsked
  <1>4. Due(c)' = Due(c)
    BY <1>3 DEF Due
  <1>5. InOrder(c)'
    BY <1>1, <1>2, <1>3, <1>4 DEF Following, InOrder
  <1>6. UpTo(flow, Len(published))
    BY <1>1 DEF Following
  <1> QED
    BY <1>2, <1>3, <1>5, <1>6 DEF Following, UpTo

Labels == {"out", "reject", "admit", "stream", "write", "cancel", "leave"}

Placed == handlerAt \in [Clients -> Labels] /\ IsFiniteSet(Inside) /\ PlacesCounted

LEMMA PlacesOf ==
  /\ FeedInv => Placed
  /\ Placed => sseClients = Cardinality(Inside) /\ Cardinality(Served) <= maxSSEClients
  /\ Served \subseteq Inside
  BY DEF FeedInv, Placed, FeedTypeOK, Labels, PlacesCounted, Inside, Served

\* Who comes in is counted, and admitted only if there is a place for all that are in.
LEMMA Enters ==
  ASSUME Placed, NEW c \in Clients, NEW label \in Labels \ {"out"}, handlerAt[c] = "out",
         HandlerGoto(c, label), sseClients' = sseClients + 1,
         label = "reject" \/ sseClients + 1 <= maxSSEClients
  PROVE  Placed' /\ sseClients' \in Nat
  <1>1. handlerAt' = [handlerAt EXCEPT ![c] = label] /\ handlerAt \in [Clients -> Labels]
    BY DEF HandlerGoto, Placed
  <1>2. Inside' = Inside \cup {c} /\ c \notin Inside
    BY <1>1 DEF Inside
  <1>3. IsFiniteSet(Inside) /\ IsFiniteSet(Inside') /\ Cardinality(Inside') = Cardinality(Inside) + 1
        /\ Cardinality(Inside) \in Nat
    BY <1>2, FS_AddElement, FS_CardinalityType DEF Placed
  <1>4. /\ sseClients = Cardinality(Inside) /\ Cardinality(Served) <= maxSSEClients
        /\ Served \subseteq Inside
    BY PlacesOf
  <1>5. Served' \subseteq Served \/ (Served' \subseteq Inside' /\ sseClients + 1 <= maxSSEClients)
    <2>1. CASE label = "reject"
      <3>1. \A d \in Clients : handlerAt'[d] = IF d = c THEN "reject" ELSE handlerAt[d]
        BY <1>1, <2>1
      <3>2. Served' \subseteq Served
        BY <3>1 DEF Served
      <3> QED
        BY <3>2
    <2>2. CASE label # "reject"
      BY <1>1, <2>2 DEF Served, Inside
    <2> QED
      BY <2>1, <2>2
  <1>6. Cardinality(Served') <= maxSSEClients
    <2>1. CASE Served' \subseteq Served
      <3>1. /\ IsFiniteSet(Served) /\ Cardinality(Served') <= Cardinality(Served)
            /\ Cardinality(Served') \in Nat /\ Cardinality(Served) \in Nat
        BY <1>3, <1>4, <2>1, FS_Subset, FS_CardinalityType
      <3> QED
        BY <1>4, <3>1, FeedAssumption
    <2>2. CASE Served' \subseteq Inside' /\ sseClients + 1 <= maxSSEClients
      <3>1. Cardinality(Served') <= Cardinality(Inside') /\ Cardinality(Served') \in Nat
        BY <1>3, <2>2, FS_Subset, FS_CardinalityType
      <3> QED
        BY <1>3, <1>4, <2>2, <3>1, FeedAssumption
    <2> QED
      BY <1>5, <2>1, <2>2
  <1>7. PlacesCounted'
    BY <1>3, <1>4, <1>6 DEF PlacesCounted, Inside, Served
  <1> QED
    BY <1>1, <1>3, <1>4, <1>7 DEF Placed

\* Who is in and goes on is counted as before.
LEMMA Moves ==
  ASSUME Placed, NEW c \in Clients, NEW label \in Labels \ {"out"}, handlerAt[c] # "out",
         HandlerGoto(c, label), sseClients' = sseClients,
         label \in {"admit", "stream", "write"} => handlerAt[c] \in {"admit", "stream", "write"}
  PROVE  Placed'
  <1>1. handlerAt' = [handlerAt EXCEPT ![c] = label] /\ handlerAt \in [Clients -> Labels]
    BY DEF HandlerGoto, Placed
  <1>2. Inside' = Inside /\ Served' \subseteq Served
    BY <1>1 DEF Inside, Served
  <1>3. IsFiniteSet(Served) /\ Cardinality(Served') <= Cardinality(Served)
        /\ Cardinality(Served') \in Nat /\ Cardinality(Served) \in Nat
    BY <1>2, PlacesOf, FS_Subset, FS_CardinalityType DEF Placed
  <1>4. PlacesCounted'
    BY <1>2, <1>3, PlacesOf, FeedAssumption DEF PlacesCounted, Inside, Served
  <1> QED
    BY <1>1, <1>2, <1>4 DEF Placed

\* Who is in and leaves is counted out.
LEMMA Leaves ==
  ASSUME Placed, NEW c \in Clients, handlerAt[c] # "out",
         HandlerGoto(c, "out"), sseClients' = CountedOut(c)
  PROVE  Placed' /\ sseClients' \in Nat
  <1>1. handlerAt' = [handlerAt EXCEPT ![c] = "out"] /\ handlerAt \in [Clients -> Labels]
    BY DEF HandlerGoto, Placed
  <1>2. Inside' = Inside \ {c} /\ c \in Inside /\ Served' \subseteq Served
    BY <1>1 DEF Inside, Served
  <1>3. IsFiniteSet(Inside') /\ Cardinality(Inside') = Cardinality(Inside) - 1
        /\ Cardinality(Inside') \in Nat
    BY <1>2, FS_RemoveElement, FS_CardinalityType DEF Placed
  <1>4. IsFiniteSet(Served) /\ Cardinality(Served') <= Cardinality(Served)
        /\ Cardinality(Served') \in Nat /\ Cardinality(Served) \in Nat
    BY <1>2, PlacesOf, FS_Subset, FS_CardinalityType DEF Placed
  <1>5. sseClients' = Cardinality(Inside')
    BY <1>3, PlacesOf DEF CountedOut
  <1>6. PlacesCounted'
    BY <1>4, <1>5, PlacesOf, FeedAssumption DEF PlacesCounted, Inside, Served
  <1> QED
    BY <1>1, <1>3, <1>5, <1>6, "out" \in Labels DEF Placed, Labels

-----------------------------------------------------------------------------
(* Feed: the steps.                                                          *)

LEMMA OneMore ==
  ASSUME NEW a \in Nat, NEW n \in Nat, a <= n
  PROVE  /\ \A k \in a + 1 .. n : k \in 1 .. n
         /\ \A k : k \in a + 1 .. n + 1 <=> k \in a + 1 .. n \/ k = n + 1
  OBVIOUS

\* The streams of the other clients do not notice.
LEMMA OthersFollow ==
  ASSUME FeedInv, NEW c \in Clients, NEW label, HandlerGoto(c, label),
         published' = published, subs \ {c} \subseteq subs',
         \A d \in Clients \ {c} : /\ chan'[d] = chan[d] /\ agent'[d] = agent[d]
                                  /\ frame'[d] = frame[d] /\ sent'[d] = sent[d]
                                  /\ since'[d] = since[d] /\ missed'[d] = missed[d],
         NEW d \in Clients \ {c}, Streaming(d)'
  PROVE  Following(d)'
  <1>1. handlerAt'[d] = handlerAt[d]
    BY DEF HandlerGoto, FeedInv, FeedTypeOK
  <1>2. Following(d)
    BY <1>1 DEF FeedInv, Streaming
  <1>3. InHand(d)' = InHand(d) /\ Flow(d)' = Flow(d)
    BY <1>1 DEF InHand, Flow
  <1> QED
    BY <1>2, <1>3, FlowStays DEF Following, InOrder

LEMMA PublishKeeps ==
  ASSUME FeedInv, NEW a \in Agents, Publish(a)
  PROVE  FeedInv'
  <1> DEFINE n == Len(published)
             event == [number |-> n + 1, agent |-> a]
  <1>1. /\ n < MaxEvents /\ n \in Nat /\ MaxEvents \in Nat /\ published \in Seq(Event)
        /\ published' = Append(published, event)
        /\ chan' = [c \in Clients |->
             IF c \in subs /\ HasFreeSlot(c) THEN Append(chan[c], event) ELSE chan[c]]
        /\ missed' = [c \in Clients |->
             IF c \in subs /\ ~HasFreeSlot(c) THEN missed[c] \cup {event} ELSE missed[c]]
        /\ UNCHANGED <<subs, sseClients, handler, sent, since, visits>>
    BY FeedAssumption DEF Publish, FeedInv, FeedTypeOK
  <1>2. event \in Event /\ event.number = n + 1
    BY <1>1 DEF Event
  <1> HIDE DEF event
  <1>3. /\ DOMAIN published = 1 .. n /\ DOMAIN published' = 1 .. n + 1 /\ Len(published') = n + 1
        /\ published'[n + 1] = event /\ \A k \in 1 .. n : published'[k] = published[k]
        /\ published' \in Seq(Event)
    BY <1>1, <1>2
  <1> HIDE DEF n
  <1>4. FeedTypeOK'
    <2>1. chan' \in [Clients -> Seq(Event)] /\ \A c \in Clients : Len(chan'[c]) <= subscriberBuffer
      <3>1. \A c \in Clients : /\ chan[c] \in Seq(Event) /\ Len(chan[c]) \in Nat
                               /\ Len(chan[c]) <= subscriberBuffer
                               /\ Append(chan[c], event) \in Seq(Event)
                               /\ Len(Append(chan[c], event)) = Len(chan[c]) + 1
        BY <1>2 DEF FeedInv, FeedTypeOK
      <3>2. \A c \in Clients : HasFreeSlot(c) => Len(chan[c]) + 1 <= subscriberBuffer
        BY <3>1, FeedAssumption DEF HasFreeSlot
      <3>3. \A c \in Clients : chan'[c] = IF c \in subs /\ HasFreeSlot(c) THEN Append(chan[c], event)
                                                                       ELSE chan[c]
        BY <1>1
      <3>4. \A c \in Clients : chan'[c] \in Seq(Event) /\ Len(chan'[c]) <= subscriberBuffer
        BY <3>1, <3>2, <3>3
      <3>5. DOMAIN chan' = Clients /\ chan' = [c \in Clients |-> chan'[c]]
        BY <1>1
      <3> QED
        BY <3>4, <3>5
    <2>2. missed' \in [Clients -> SUBSET Event]
      BY <1>1, <1>2 DEF FeedInv, FeedTypeOK
    <2> QED
      BY <1>1, <1>3, <2>1, <2>2 DEF FeedInv, FeedTypeOK, handler
  <1>5. Numbered'
    BY <1>1, <1>2, <1>3 DEF FeedInv, Numbered
  <1>6. IsFiniteSet(Inside') /\ PlacesCounted'
    BY <1>1 DEF FeedInv, Inside, PlacesCounted, handler
  <1>7. ASSUME NEW c \in Clients, Streaming(c)' PROVE Following(c)'
    <2>1. Following(c) /\ Streaming(c)
      BY <1>1, <1>7 DEF FeedInv, Streaming, handler
    <2>2. /\ sent[c] \in Seq(Event) /\ InHand(c) \in Seq(Event) /\ chan[c] \in Seq(Event)
          /\ since[c] \in Nat /\ InHand(c)' = InHand(c) /\ sent'[c] = sent[c]
          /\ since'[c] = since[c] /\ \A e : IsAsked(c, e)' <=> IsAsked(c, e)
      BY <1>1, InHandIs, FeedAssumption DEF FeedInv, FeedTypeOK, InHand, IsAsked, handler
    <2>3. PICK flow \in Seq(Event) : flow = Flow(c)
      BY <2>2, ConcatProperties DEF Flow
    <2>4. /\ Increasing(flow) /\ UpTo(flow, n) /\ \A k \in DOMAIN sent[c] : IsAsked(c, sent[c][k])
          /\ {e \in Elements(flow) : IsAsked(c, e)} = {published[k] : k \in Due(c)}
          /\ c \in subs /\ since[c] <= n /\ \A e \in missed[c] : e.number <= n
          /\ \A k \in DOMAIN InHand(c) : IsAsked(c, InHand(c)[k])
      BY <2>1, <2>3 DEF Following, InOrder, Increasing, Elements, n
    <2>5. \A k \in Due(c) : k \in 1 .. n /\ published[k].number = k
      <3>1. \A k \in Due(c) : k \in since[c] + 1 .. n
        BY DEF Due, n
      <3>2. \A k \in since[c] + 1 .. n : k \in 1 .. n
        BY <1>1, <2>2
      <3> QED
        BY <1>3, <3>1, <3>2 DEF FeedInv, Numbered
    <2>6. event \notin missed[c]
      BY <1>1, <1>2, <2>4
    <2>9. \A e \in missed[c] : e.number <= n + 1
      <3>1. \A e \in missed[c] : e.number \in Nat
        BY DEF FeedInv, FeedTypeOK, Event
      <3> QED
        BY <1>1, <2>4, <3>1
    <2>7. CASE HasFreeSlot(c)
      <3>1. chan'[c] = Append(chan[c], event) /\ missed'[c] = missed[c]
        BY <1>1, <2>4, <2>7
      <3>2. Flow(c)' = Append(flow, event)
        <4>1. (sent[c] \o InHand(c)) \o Append(chan[c], event)
                = Append((sent[c] \o InHand(c)) \o chan[c], event)
          <5>1. /\ sent[c] \in Seq(Event) /\ InHand(c) \in Seq(Event) /\ chan[c] \in Seq(Event)
                /\ event \in Event
            BY <1>2, <2>2
          <5> QED
            BY <5>1, AtTheEnd
        <4> QED
          BY <2>2, <2>3, <3>1, <4>1 DEF Flow
      <3>3. PICK longer \in Seq(Event) : longer = Append(flow, event)
        BY <1>2, <2>3, AppendProperties
      <3>4. /\ Increasing(longer) /\ UpTo(longer, n + 1)
            /\ Elements(longer) = Elements(flow) \cup {event}
        BY <1>1, <1>2, <2>3, <2>4, <3>3, NewestLast
      <3>5. {published'[k] : k \in Due(c)'} =
              {published[k] : k \in Due(c)} \cup (IF IsAsked(c, event) THEN {event} ELSE {})
        <4>1. Due(c)' = {k \in since[c] + 1 .. n + 1 :
                           IsAsked(c, published'[k]) /\ published'[k] \notin missed[c]}
          BY <1>3, <2>2, <3>1 DEF Due
        <4>2. \A k : k \in Due(c)' <=> k \in Due(c) \/ (k = n + 1 /\ IsAsked(c, event))
          <5>1. \A k \in since[c] + 1 .. n : k \in 1 .. n
            BY <1>1, <2>2, <2>4, OneMore
          <5>2. \A k : k \in since[c] + 1 .. n + 1 <=> k \in since[c] + 1 .. n \/ k = n + 1
            BY <1>1, <2>2, <2>4, OneMore
          <5> QED
            BY <1>3, <2>6, <4>1, <5>1, <5>2 DEF Due, n
        <4> QED
          BY <1>3, <2>5, <4>2
      <3>6. {e \in Elements(longer) : IsAsked(c, e)} = {published'[k] : k \in Due(c)'}
        BY <2>4, <3>4, <3>5
      <3>7. InOrder(c)'
        BY <2>2, <2>4, <3>2, <3>3, <3>4, <3>6 DEF InOrder, Increasing, Elements
      <3>8. UpTo(Flow(c)', Len(published'))
        BY <1>3, <3>2, <3>3, <3>4
      <3> QED
        BY <1>1, <1>3, <2>2, <2>4, <2>9, <3>1, <3>7, <3>8 DEF Following, UpTo
    <2>8. CASE ~HasFreeSlot(c)
      <3>1. chan'[c] = chan[c] /\ missed'[c] = missed[c] \cup {event}
        BY <1>1, <2>4, <2>8
      <3>2. Flow(c)' = flow
        BY <2>2, <2>3, <3>1 DEF Flow
      <3>3. {published'[k] : k \in Due(c)'} = {published[k] : k \in Due(c)}
        <4>1. Due(c)' = {k \in since[c] + 1 .. n + 1 :
                   IsAsked(c, published'[k]) /\ published'[k] \notin missed[c] \cup {event}}
          BY <1>3, <2>2, <3>1 DEF Due
        <4>2. \A k \in 1 .. n : published'[k] # event
          <5>1. \A k \in 1 .. n : published'[k].number = k
            BY <1>3 DEF FeedInv, Numbered
          <5> QED
            BY <1>1, <1>2, <5>1
        <4>3. \A k : k \in Due(c)' <=> k \in Due(c)
          <5>1. \A k \in since[c] + 1 .. n : k \in 1 .. n
            BY <1>1, <2>2, <2>4, OneMore
          <5>2. \A k : k \in since[c] + 1 .. n + 1 <=> k \in since[c] + 1 .. n \/ k = n + 1
            BY <1>1, <2>2, <2>4, OneMore
          <5> QED
            BY <1>3, <4>1, <4>2, <5>1, <5>2 DEF Due, n
        <4> QED
          BY <1>3, <2>5, <4>3
      <3>4. InOrder(c)'
        BY <2>2, <2>4, <3>2, <3>3 DEF InOrder, Increasing, Elements
      <3>5. UpTo(flow, n + 1)
        <4>1. \A k \in DOMAIN flow : flow[k].number \in Nat
          <5>1. \A k \in DOMAIN flow : flow[k] \in Event
            BY <2>3
          <5> QED
            BY <5>1 DEF Event
        <4> QED
          BY <1>1, <2>4, <4>1 DEF UpTo
      <3>6. \A e \in missed'[c] : e.number <= n + 1
        BY <1>1, <1>2, <2>9, <3>1
      <3> QED
        BY <1>1, <1>3, <2>2, <2>4, <3>2, <3>4, <3>5, <3>6 DEF Following, UpTo
    <2> QED
      BY <2>7, <2>8
  <1> QED
    BY <1>4, <1>5, <1>6, <1>7 DEF FeedInv

\* A step of one handler: what remains to be shown is about that handler.
LEMMA HandlerKeeps ==
  ASSUME FeedInv, NEW c \in Clients, NEW label \in Labels, HandlerGoto(c, label),
         published' = published, subs \ {c} \subseteq subs',
         FeedTypeOK', Placed',
         \A d \in Clients \ {c} : /\ chan'[d] = chan[d] /\ agent'[d] = agent[d]
                                  /\ frame'[d] = frame[d] /\ sent'[d] = sent[d]
                                  /\ since'[d] = since[d] /\ missed'[d] = missed[d],
         Streaming(c)' => Following(c)'
  PROVE  FeedInv'
  <1>1. \A d \in Clients : Streaming(d)' => Following(d)'
    BY OthersFollow
  <1>2. Numbered'
    BY DEF FeedInv, Numbered
  <1> QED
    BY <1>1, <1>2 DEF FeedInv, Placed

LEMMA ConnectKeeps ==
  ASSUME FeedInv, NEW c \in Clients, NEW a \in Agents \cup {AllAgents}, Connect(c, a)
  PROVE  FeedInv'
  <1>1. PICK label : label = IF sseClients + 1 > maxSSEClients THEN "reject" ELSE "admit"
    OBVIOUS
  <1>2. /\ handlerAt[c] = "out" /\ HandlerGoto(c, label) /\ sseClients' = sseClients + 1
        /\ visits < MaxVisits /\ visits' = visits + 1 /\ agent' = [agent EXCEPT ![c] = a]
        /\ UNCHANGED <<broker, frame, sent, since, missed>>
    BY <1>1 DEF Connect
  <1>3. /\ label \in Labels \ {"out"} /\ label \notin {"stream", "write"}
        /\ label = "reject" \/ sseClients + 1 <= maxSSEClients
    BY <1>1, FeedAssumption DEF Labels, FeedInv, FeedTypeOK
  <1>4. Placed' /\ sseClients' \in Nat
    BY <1>2, <1>3, PlacesOf, Enters
  <1>5. handlerAt'[c] = label /\ ~Streaming(c)'
    BY <1>2, <1>3 DEF HandlerGoto, Streaming, FeedInv, FeedTypeOK
  <1>6. FeedTypeOK'
    <2>1. visits' \in 0 .. MaxVisits /\ agent' \in [Clients -> Agents \cup {AllAgents}]
      BY <1>2, FeedAssumption DEF FeedInv, FeedTypeOK
    <2> QED
      BY <1>2, <1>4, <2>1 DEF FeedInv, FeedTypeOK, broker, Placed, Labels
  <1> QED
    BY <1>2, <1>3, <1>4, <1>5, <1>6, HandlerKeeps DEF FeedInv, FeedTypeOK, broker

\* The ends of a handler: turned away, cut off, or done.
LEMMA EndsKeep ==
  ASSUME FeedInv, NEW c \in Clients, TurnAway(c) \/ Disconnect(c) \/ Cancel(c) \/ Leave(c)
  PROVE  FeedInv'
  <1>1. PICK label \in Labels :
          /\ label \notin {"stream", "write"} /\ HandlerGoto(c, label) /\ handlerAt[c] # "out"
          /\ label # "admit" /\ sseClients' = IF label = "out" THEN CountedOut(c) ELSE sseClients
    <2>1. CASE TurnAway(c) \/ Leave(c)
      <3>1. "out" \in Labels
        BY DEF Labels
      <3>2. HandlerGoto(c, "out") /\ handlerAt[c] # "out" /\ sseClients' = CountedOut(c)
        BY <2>1 DEF TurnAway, Leave
      <3> QED
        BY <3>1, <3>2
    <2>2. CASE Disconnect(c)
      <3>1. /\ "cancel" \in Labels /\ HandlerGoto(c, "cancel") /\ handlerAt[c] # "out"
            /\ sseClients' = sseClients
        BY <2>2 DEF Labels, Disconnect
      <3> QED
        BY <3>1
    <2>3. CASE Cancel(c)
      <3>1. /\ "leave" \in Labels /\ HandlerGoto(c, "leave") /\ handlerAt[c] # "out"
            /\ sseClients' = sseClients
        BY <2>3 DEF Labels, Cancel
      <3> QED
        BY <3>1
    <2> QED
      BY <2>1, <2>2, <2>3
  <1>2. Placed' /\ sseClients' \in Nat
    <2>1. CASE label = "out"
      BY <1>1, <2>1, PlacesOf, Leaves
    <2>2. CASE label # "out"
      <3>1. sseClients' = sseClients
        BY <1>1, <2>2
      <3> QED
        BY <1>1, <2>2, <3>1, PlacesOf, Moves DEF FeedInv, FeedTypeOK
    <2> QED
      BY <2>1, <2>2
  <1>3. /\ UNCHANGED <<published, chan, agent, frame, receipts>>
        /\ subs' = subs \/ subs' = subs \ {c}
    BY DEF TurnAway, Disconnect, Cancel, Leave, broker
  <1>4. FeedTypeOK'
    BY <1>2, <1>3 DEF FeedInv, FeedTypeOK, receipts, Placed, Labels
  <1>5. ~Streaming(c)'
    BY <1>1 DEF HandlerGoto, Streaming, FeedInv, FeedTypeOK
  <1>6. subs \ {c} \subseteq subs'
    BY <1>3
  <1> QED
    BY <1>1, <1>2, <1>3, <1>4, <1>5, <1>6, HandlerKeeps DEF receipts

\* A new stream has nothing to show and nothing to wait for.
LEMMA SubscribeKeeps ==
  ASSUME FeedInv, NEW c \in Clients, Subscribe(c)
  PROVE  FeedInv'
  <1>1. /\ handlerAt[c] = "admit" /\ HandlerGoto(c, "stream") /\ subs' = subs \cup {c}
        /\ chan' = [chan EXCEPT ![c] = <<>>] /\ sent' = [sent EXCEPT ![c] = <<>>]
        /\ since' = [since EXCEPT ![c] = Len(published)] /\ missed' = [missed EXCEPT ![c] = {}]
        /\ UNCHANGED <<published, sseClients, agent, frame, visits>>
    BY DEF Subscribe
  <1>2. Placed'
    BY <1>1, PlacesOf, Moves DEF Labels
  <1>3. Len(published) \in 0 .. MaxEvents /\ Len(published) \in Nat /\ <<>> \in Seq(Event)
    BY FeedAssumption DEF FeedInv, FeedTypeOK
  <1>4. FeedTypeOK'
    <2>1. chan' \in [Clients -> Seq(Event)] /\ sent' \in [Clients -> Seq(Event)]
          /\ since' \in [Clients -> 0 .. MaxEvents] /\ missed' \in [Clients -> SUBSET Event]
      BY <1>1, <1>3 DEF FeedInv, FeedTypeOK
    <2>2. \A d \in Clients : Len(chan'[d]) <= subscriberBuffer
      <3>1. \A d \in Clients : chan'[d] = IF d = c THEN <<>> ELSE chan[d]
        BY <1>1 DEF FeedInv, FeedTypeOK
      <3> QED
        BY <3>1, FeedAssumption DEF FeedInv, FeedTypeOK
    <2> QED
      BY <1>1, <1>2, <2>1, <2>2 DEF FeedInv, FeedTypeOK, Placed, Labels
  <1>5. /\ chan'[c] = <<>> /\ sent'[c] = <<>> /\ since'[c] = Len(published) /\ missed'[c] = {}
        /\ handlerAt'[c] = "stream"
    BY <1>1 DEF FeedInv, FeedTypeOK, HandlerGoto
  <1>6. InHand(c)' = <<>> /\ Flow(c)' = <<>>
    <2>1. InHand(c)' = <<>>
      BY <1>5 DEF InHand
    <2> QED
      BY <1>5, <2>1 DEF Flow
  <1>7. Due(c)' = {}
    <2>1. Len(published) + 1 .. Len(published) = {}
      BY <1>3
    <2> QED
      BY <1>1, <1>5, <2>1 DEF Due
  <1>8. Following(c)'
    BY <1>1, <1>3, <1>5, <1>6, <1>7 DEF Following, InOrder, UpTo
  <1> QED
    BY <1>1, <1>2, <1>4, <1>8, HandlerKeeps DEF Labels, FeedInv, FeedTypeOK

LEMMA HeadGoesOn ==
  ASSUME NEW got \in Seq(Event), NEW rest \in Seq(Event), rest # <<>>
  PROVE  /\ Head(rest) \in Event /\ Tail(rest) \in Seq(Event)
         /\ (got \o <<>>) \o rest = got \o rest /\ (got \o <<>>) \o Tail(rest) = got \o Tail(rest)
         /\ (got \o <<Head(rest)>>) \o Tail(rest) = got \o rest
         /\ Len(Tail(rest)) <= Len(rest)
  OBVIOUS

LEMMA FrameGoesOn ==
  ASSUME NEW got \in Seq(Event), NEW rest \in Seq(Event), NEW e \in Event
  PROVE  (Append(got, e) \o <<>>) \o rest = (got \o <<e>>) \o rest
  OBVIOUS

\* The frame in hand is the next event for the client, or an event less for another.
LEMMA TakeKeeps ==
  ASSUME FeedInv, NEW c \in Clients, Take(c)
  PROVE  FeedInv'
  <1>1. PICK label : label = IF IsAsked(c, Head(chan[c])) THEN "write" ELSE "stream"
    OBVIOUS
  <1>2. /\ handlerAt[c] = "stream" /\ chan[c] # <<>> /\ chan' = [chan EXCEPT ![c] = Tail(@)]
        /\ UNCHANGED <<published, subs, sseClients, agent, receipts>>
    BY DEF Take
  <1>3. HandlerGoto(c, label)
    <2>1. handlerAt = [handlerAt EXCEPT ![c] = "stream"]
      BY <1>2 DEF FeedInv, FeedTypeOK
    <2> QED
      BY <1>1, <2>1 DEF Take, HandlerGoto
  <1>4. frame' = IF IsAsked(c, Head(chan[c])) THEN [frame EXCEPT ![c] = Head(chan[c])] ELSE frame
    BY DEF Take
  <1>5. /\ chan[c] \in Seq(Event) /\ sent[c] \in Seq(Event) /\ InHand(c) = <<>>
        /\ frame \in [Clients -> Event \cup {Heartbeat}] /\ chan \in [Clients -> Seq(Event)]
        /\ Heartbeat \notin Event
    <2>1. Heartbeat \notin Event
      <3>1. \A e \in Event : e.number # 0
        BY FeedAssumption DEF Event
      <3> QED
        BY <3>1 DEF Heartbeat
    <2>2. InHand(c) = <<>>
      BY <1>2 DEF InHand
    <2> QED
      BY <2>1, <2>2 DEF FeedInv, FeedTypeOK
  <1>6. /\ Head(chan[c]) \in Event /\ Tail(chan[c]) \in Seq(Event)
        /\ Len(Tail(chan[c])) <= Len(chan[c]) /\ Flow(c) = sent[c] \o chan[c]
        /\ (sent[c] \o <<Head(chan[c])>>) \o Tail(chan[c]) = sent[c] \o chan[c]
        /\ (sent[c] \o <<>>) \o Tail(chan[c]) = sent[c] \o Tail(chan[c])
    BY <1>2, <1>5, HeadGoesOn DEF Flow
  <1>7. Placed' /\ label \in Labels
    BY <1>1, <1>2, <1>3, PlacesOf, Moves DEF Labels
  <1>8. FeedTypeOK'
    <2>1. \A d \in Clients : chan'[d] = IF d = c THEN Tail(chan[c]) ELSE chan[d]
      BY <1>2, <1>5
    <2>2. \A d \in Clients : Len(chan[d]) \in Nat /\ Len(chan[d]) <= subscriberBuffer
      BY <1>5 DEF FeedInv, FeedTypeOK
    <2>3. Len(Tail(chan[c])) \in Nat
      BY <1>6
    <2>4. \A d \in Clients : Len(chan'[d]) <= subscriberBuffer
      <3>1. subscriberBuffer \in Nat
        BY FeedAssumption
      <3>2. Len(Tail(chan[c])) <= subscriberBuffer
        BY <1>6, <2>2, <2>3, <3>1
      <3> QED
        BY <2>1, <2>2, <3>2
    <2>5. chan' \in [Clients -> Seq(Event)] /\ frame' \in [Clients -> Event \cup {Heartbeat}]
      BY <1>2, <1>4, <1>5, <1>6
    <2> QED
      BY <1>2, <1>7, <2>4, <2>5 DEF FeedInv, FeedTypeOK, receipts, Placed, Labels
  <1>9. handlerAt'[c] = label /\ chan'[c] = Tail(chan[c]) /\ sent'[c] = sent[c] /\ Following(c)
    BY <1>2, <1>3, <1>5 DEF HandlerGoto, FeedInv, FeedTypeOK, receipts, Streaming
  <1>10. CASE IsAsked(c, Head(chan[c]))
    <2>1. InHand(c)' = <<Head(chan[c])>>
      BY <1>1, <1>4, <1>5, <1>6, <1>9, <1>10 DEF InHand
    <2>2. Flow(c)' = Flow(c)
      BY <1>6, <1>9, <2>1 DEF Flow
    <2>3. Following(c)'
      <3>1. \A e : IsAsked(c, e)' <=> IsAsked(c, e)
        BY <1>2 DEF IsAsked
      <3>2. PICK hand : hand = <<Head(chan[c])>>
        OBVIOUS
      <3>3. hand = InHand(c)' /\ \A k \in DOMAIN hand : IsAsked(c, hand[k])
        BY <1>10, <2>1, <3>2
      <3>4. \A k \in DOMAIN InHand(c)' : IsAsked(c, InHand(c)'[k])
        BY <3>3
      <3>5. \A k \in DOMAIN sent'[c] : IsAsked(c, sent'[c][k])
        BY <1>9 DEF Following, InOrder
      <3> QED
        BY <1>2, <1>9, <2>2, <3>4, <3>5, FlowStays DEF receipts, Following
    <2> QED
      BY <1>2, <1>3, <1>4, <1>5, <1>7, <1>8, <2>3, HandlerKeeps DEF receipts
  <1>11. CASE ~IsAsked(c, Head(chan[c]))
    <2>1. InHand(c)' = <<>> /\ label = "stream" /\ frame' = frame
      BY <1>1, <1>4, <1>9, <1>11 DEF InHand
    <2>2. Flow(c)' = sent[c] \o Tail(chan[c])
      BY <1>6, <1>9, <2>1 DEF Flow
    <2>3. /\ Increasing(sent[c] \o chan[c]) /\ UpTo(sent[c] \o chan[c], Len(published))
          /\ Len(published) \in Nat
      <3>1. Increasing(Flow(c)) /\ UpTo(Flow(c), Len(published))
        BY <1>9 DEF Following, InOrder, Increasing
      <3>2. Len(published) \in Nat
        BY DEF FeedInv, FeedTypeOK
      <3> QED
        BY <1>6, <3>1, <3>2
    <2>4. PICK flow : flow = sent[c] \o Tail(chan[c])
      OBVIOUS
    <2>5. /\ Increasing(flow) /\ UpTo(flow, Len(published))
          /\ Elements(sent[c] \o chan[c]) = Elements(flow) \cup {Head(chan[c])}
      BY <1>2, <1>5, <2>3, <2>4, OneLess
    <2>6. {e \in Elements(flow) : IsAsked(c, e)} = {published[n] : n \in Due(c)}
      <3>1. {e \in Elements(sent[c] \o chan[c]) : IsAsked(c, e)} = {published[n] : n \in Due(c)}
        BY <1>6, <1>9 DEF Following, InOrder, Elements
      <3> QED
        BY <1>11, <2>5, <3>1
    <2>7. Due(c)' = Due(c) /\ \A e : IsAsked(c, e)' <=> IsAsked(c, e)
      BY <1>2 DEF Due, IsAsked, receipts
    <2>8. InOrder(c)'
      <3>1. flow = Flow(c)'
        BY <2>2, <2>4
      <3>2. (\A k \in DOMAIN sent[c] : IsAsked(c, sent[c][k]))'
        <4>1. sent' = sent /\ agent' = agent /\ \A k \in DOMAIN sent[c] : IsAsked(c, sent[c][k])
          BY <1>2, <1>9 DEF receipts, Following, InOrder
        <4> QED
          BY <4>1 DEF IsAsked
      <3>3. {e \in {flow[k] : k \in DOMAIN flow} : IsAsked(c, e)'} = {published'[m] : m \in Due(c)'}
        <4>1. published' = published
          BY <1>2
        <4> QED
          BY <2>6, <2>7, <4>1 DEF Elements
      <3> QED
        <4>1. \A k, m \in DOMAIN flow : k < m => flow[k].number < flow[m].number
          BY <2>5 DEF Increasing
        <4> HIDE DEF Increasing
        <4> QED
          BY <3>1, <3>2, <3>3, <4>1 DEF InOrder
    <2>9. Following(c)'
      <3>1. flow = Flow(c)' /\ DOMAIN InHand(c)' = {}
        BY <2>1, <2>2, <2>4
      <3>2. since' = since /\ missed' = missed /\ published' = published /\ subs' = subs
        BY <1>2 DEF receipts
      <3>3. UpTo(flow, Len(published'))
        BY <2>5, <3>2
      <3> QED
        BY <1>9, <2>8, <3>1, <3>2, <3>3 DEF Following, UpTo
    <2> QED
      BY <1>2, <1>3, <1>5, <1>7, <1>8, <2>1, <2>9, HandlerKeeps DEF receipts
  <1> QED
    BY <1>10, <1>11

LEMMA BeatKeeps ==
  ASSUME FeedInv, NEW c \in Clients, Beat(c)
  PROVE  FeedInv'
  <1>1. /\ handlerAt[c] = "stream" /\ HandlerGoto(c, "write")
        /\ frame' = [frame EXCEPT ![c] = Heartbeat] /\ UNCHANGED <<broker, sseClients, agent, receipts>>
    BY DEF Beat
  <1>2. Placed'
    BY <1>1, PlacesOf, Moves DEF Labels
  <1>3. FeedTypeOK'
    BY <1>1, <1>2 DEF FeedInv, FeedTypeOK, broker, receipts, Placed, Labels
  <1>4. InHand(c) = <<>> /\ InHand(c)' = <<>>
    BY <1>1 DEF InHand, FeedInv, FeedTypeOK, HandlerGoto
  <1>5. Flow(c)' = Flow(c) /\ Following(c)
    BY <1>1, <1>4 DEF Flow, broker, receipts, FeedInv, Streaming
  <1>6. Following(c)'
    BY <1>1, <1>4, <1>5, FlowStays DEF broker, receipts, Following, InOrder
  <1> QED
    BY <1>1, <1>2, <1>3, <1>6, HandlerKeeps DEF FeedInv, FeedTypeOK, broker, receipts, Labels

\* What was in hand is what the client got.
LEMMA WriteKeeps ==
  ASSUME FeedInv, NEW c \in Clients, WriteFrame(c)
  PROVE  FeedInv'
  <1>1. /\ handlerAt[c] = "write" /\ UNCHANGED <<broker, sseClients, agent, frame, since, missed, visits>>
        /\ \/ HandlerGoto(c, "stream") /\ sent' = IF frame[c] = Heartbeat THEN sent
                                                   ELSE [sent EXCEPT ![c] = Append(@, frame[c])]
           \/ HandlerGoto(c, "cancel") /\ sent' = sent
    BY DEF WriteFrame
  <1>2. PICK label \in {"stream", "cancel"} :
          HandlerGoto(c, label) /\ (label = "cancel" => sent' = sent)
    BY <1>1
  <1>3. Placed' /\ label \in Labels
    BY <1>1, <1>2, PlacesOf, Moves DEF Labels
  <1>4. /\ sent \in [Clients -> Seq(Event)] /\ chan[c] \in Seq(Event)
        /\ frame[c] # Heartbeat => frame[c] \in Event
    BY DEF FeedInv, FeedTypeOK
  <1>5. sent' = sent \/ (frame[c] # Heartbeat /\ sent' = [sent EXCEPT ![c] = Append(@, frame[c])])
    BY <1>1
  <1>6. sent' \in [Clients -> Seq(Event)] /\ \A d \in Clients \ {c} : sent'[d] = sent[d]
    <2>1. frame[c] # Heartbeat => Append(sent[c], frame[c]) \in Seq(Event)
      BY <1>4
    <2> QED
      BY <1>4, <1>5, <2>1
  <1>7. FeedTypeOK'
    BY <1>1, <1>3, <1>6 DEF FeedInv, FeedTypeOK, broker, Placed, Labels
  <1>8. ASSUME Streaming(c)' PROVE Following(c)'
    <2>1. handlerAt'[c] = label
      BY <1>2 DEF HandlerGoto, FeedInv, FeedTypeOK
    <2>2. label = "stream"
      BY <1>8, <2>1 DEF Streaming
    <2>3. sent'[c] = IF frame[c] = Heartbeat THEN sent[c] ELSE Append(sent[c], frame[c])
      <3>1. ~HandlerGoto(c, "cancel")
        BY <2>1, <2>2 DEF HandlerGoto, FeedInv, FeedTypeOK
      <3> QED
        BY <1>1, <1>4, <3>1
    <2>4. InHand(c)' = <<>>
      BY <2>1, <2>2 DEF InHand
    <2>5. Following(c)
      BY <1>1 DEF FeedInv, Streaming
    <2>6. CASE frame[c] = Heartbeat
      <3>1. InHand(c) = <<>> /\ Flow(c)' = Flow(c)
        BY <1>1, <2>3, <2>4, <2>6 DEF InHand, Flow, broker
      <3> QED
        BY <1>1, <2>3, <2>4, <2>5, <2>6, <3>1, FlowStays DEF broker, Following, InOrder
    <2>7. CASE frame[c] # Heartbeat
      <3>1. InHand(c) = <<frame[c]>> /\ sent'[c] = Append(sent[c], frame[c])
        BY <1>1, <2>3, <2>7 DEF InHand
      <3>2. (Append(sent[c], frame[c]) \o <<>>) \o chan[c] = (sent[c] \o <<frame[c]>>) \o chan[c]
        BY <1>4, <2>7, FrameGoesOn
      <3>3. Flow(c)' = Flow(c)
        BY <1>1, <2>4, <3>1, <3>2 DEF Flow, broker
      <3>4. IsAsked(c, frame[c]) /\ \A k \in DOMAIN sent[c] : IsAsked(c, sent[c][k])
        BY <2>5, <3>1 DEF Following, InOrder
      <3>5. \A k \in DOMAIN sent'[c] : IsAsked(c, sent'[c][k])
        <4>1. sent[c] \in Seq(Event)
          BY <1>4
        <4>2. \A k \in DOMAIN sent'[c] : sent'[c][k] = frame[c] \/ (k \in DOMAIN sent[c] /\ sent'[c][k] = sent[c][k])
          BY <3>1, <4>1
        <4> QED
          BY <3>4, <4>2
      <3> QED
        BY <1>1, <2>4, <2>5, <3>3, <3>5, FlowStays DEF broker, Following
    <2> QED
      BY <2>6, <2>7
  <1> QED
    BY <1>1, <1>2, <1>3, <1>6, <1>7, <1>8, HandlerKeeps DEF broker

LEMMA FeedStutters ==
  ASSUME FeedInv, UNCHANGED feedVars
  PROVE  FeedInv'
  <1>1. FeedTypeOK' /\ Numbered' /\ IsFiniteSet(Inside') /\ PlacesCounted'
    BY DEF FeedInv, FeedTypeOK, Numbered, Inside, PlacesCounted, feedVars, broker, handler, receipts
  <1>2. ASSUME NEW c \in Clients, Streaming(c)' PROVE Following(c)'
    <2>1. Following(c) /\ InHand(c)' = InHand(c) /\ Flow(c)' = Flow(c)
      BY <1>2 DEF FeedInv, Streaming, InHand, Flow, feedVars, broker, handler, receipts
    <2> QED
      BY <2>1, FlowStays DEF Following, InOrder, feedVars, broker, handler, receipts
  <1> QED
    BY <1>1, <1>2 DEF FeedInv

LEMMA NextFeed == FeedInv /\ [FeedNext]_feedVars => FeedInv'
  <1> SUFFICES ASSUME FeedInv, [FeedNext]_feedVars PROVE FeedInv'
    OBVIOUS
  <1>1. CASE UNCHANGED feedVars
    BY <1>1, FeedStutters
  <1>2. ASSUME NEW a \in Agents, Publish(a) PROVE FeedInv'
    BY <1>2, PublishKeeps
  <1>3. ASSUME NEW c \in Clients, NEW a \in Agents \cup {AllAgents}, Connect(c, a) PROVE FeedInv'
    BY <1>3, ConnectKeeps
  <1>4. ASSUME NEW c \in Clients,
               TurnAway(c) \/ Subscribe(c) \/ Take(c) \/ Beat(c) \/ WriteFrame(c)
                 \/ Disconnect(c) \/ Cancel(c) \/ Leave(c)
        PROVE  FeedInv'
    BY <1>4, EndsKeep, SubscribeKeeps, TakeKeeps, BeatKeeps, WriteKeeps
  <1> QED
    BY <1>1, <1>2, <1>3, <1>4 DEF FeedNext

\* For any clients, agents, buffer and places: the queues, the handlers and the counter
\* keep their types and their caps.
THEOREM FeedTypeCorrect == FeedSpec => []FeedTypeOK
  <1>1. FeedInv => FeedTypeOK
    BY DEF FeedInv
  <1> QED
    BY <1>1, InitFeed, NextFeed, PTL DEF FeedSpec

\* For any clients that read slowly, are cut off, leave and come back: each gets its
\* agent's events once and in order, but for those its full queue missed, and the places
\* are counted.
THEOREM FeedInOrderCorrect == FeedSpec => []FeedInOrder
  <1>1. FeedInv => FeedInOrder
    BY DEF FeedInv, FeedInOrder, Streaming, Following
  <1> QED
    BY <1>1, InitFeed, NextFeed, PTL DEF FeedSpec

-----------------------------------------------------------------------------
(* Telemetry: the total of a log of records.                                 *)

Records ==
  [kind : {"metric"}, session : StatSessions, value : Points, isDelta : BOOLEAN]
  \cup [kind : {"decision"}, session : StatSessions, toolUse : ToolUses \cup {NoUse},
        decision : Decisions]
  \cup [kind : {"result"}, session : StatSessions, toolUse : ToolUses]

LEMMA NatMin ==
  ASSUME NEW T \in SUBSET Nat, T # {}
  PROVE  \E m \in T : \A n \in T : m <= n
  <1>1. PICK m \in T : \A n \in T : ~ (<<n, m>> \in OpToRel(<, Nat))
    BY NatLessThanWellFounded, WFMin, Zenon
  <1>2. \A n \in T : ~ (n < m)
    BY <1>1 DEF OpToRel
  <1> QED
    BY <1>2

\* What the record makes of a total.
Folded(s, record, total) ==
  IF record.kind = "metric" /\ record.session = s
  THEN FoldValue(total, record.value, record.isDelta)
  ELSE total

IsAfter(log, s, f) ==
  f = [k \in 0 .. Len(log) |->
        IF k = 0 THEN 0 ELSE LET record == log[k] IN
          IF record.kind = "metric" /\ record.session = s
          THEN FoldValue(f[k - 1], record.value, record.isDelta)
          ELSE f[k - 1]]

LEMMA AfterAt ==
  ASSUME NEW log, Len(log) \in Nat, NEW s, NEW f, IsAfter(log, s, f)
  PROVE  /\ f[0] = 0 /\ DOMAIN f = 0 .. Len(log)
         /\ \A k \in 1 .. Len(log) : f[k] = Folded(s, log[k], f[k - 1])
  <1>1. \A k \in 0 .. Len(log) : f[k] = IF k = 0 THEN 0 ELSE Folded(s, log[k], f[k - 1])
    BY DEF IsAfter, Folded
  <1> QED
    BY <1>1 DEF IsAfter

LEMMA AfterIsOne ==
  ASSUME NEW log, Len(log) \in Nat, NEW s, NEW f, NEW g, IsAfter(log, s, f), IsAfter(log, s, g)
  PROVE  f = g
  <1> DEFINE D == {k \in 0 .. Len(log) : f[k] # g[k]}
  <1>1. /\ f[0] = 0 /\ DOMAIN f = 0 .. Len(log)
        /\ \A k \in 1 .. Len(log) : f[k] = Folded(s, log[k], f[k - 1])
    BY AfterAt
  <1>2. /\ g[0] = 0 /\ DOMAIN g = 0 .. Len(log)
        /\ \A k \in 1 .. Len(log) : g[k] = Folded(s, log[k], g[k - 1])
    BY AfterAt
  <1>3. D = {}
    <2>1. SUFFICES ASSUME D # {} PROVE FALSE
      OBVIOUS
    <2>2. PICK m \in D : \A n \in D : m <= n
      <3>1. D \in SUBSET Nat
        OBVIOUS
      <3> HIDE DEF D
      <3> QED
        BY <2>1, <3>1, NatMin
    <2>3. m \in 1 .. Len(log) /\ m - 1 \in 0 .. Len(log) /\ m - 1 \notin D
      BY <1>1, <1>2, <2>2
    <2>4. f[m - 1] = g[m - 1]
      BY <2>3
    <2> QED
      BY <1>1, <1>2, <2>2, <2>3, <2>4
  <1>4. \A k \in 0 .. Len(log) : f[k] = g[k]
    BY <1>3
  <1>5. f = [k \in 0 .. Len(log) |-> f[k]] /\ g = [k \in 0 .. Len(log) |-> g[k]]
    BY <1>1, <1>2 DEF IsAfter
  <1> QED
    BY <1>4, <1>5

LEMMA AfterNothing ==
  ASSUME NEW log, log = <<>>, NEW s
  PROVE  IsAfter(log, s, [k \in 0 .. 0 |-> 0])
  BY DEF IsAfter

Reaches(log, s, total) == \E f : IsAfter(log, s, f) /\ f[Len(log)] = total

\* One record more.
LEMMA AfterGrows ==
  ASSUME NEW log \in Seq(Records), NEW record \in Records, NEW s, NEW total,
         Reaches(log, s, total), NEW longer, longer = Append(log, record)
  PROVE  Reaches(longer, s, Folded(s, record, total))
  <1> PICK f : IsAfter(log, s, f) /\ f[Len(log)] = total
    BY DEF Reaches
  <1> DEFINE n == Len(log)
             g == [k \in 0 .. n + 1 |-> IF k <= n THEN f[k] ELSE Folded(s, record, f[n])]
  <1>1. /\ n \in Nat /\ Len(longer) = n + 1 /\ longer[n + 1] = record
        /\ \A k \in 1 .. n : longer[k] = log[k]
    OBVIOUS
  <1>2. f[0] = 0 /\ \A k \in 1 .. n : f[k] = Folded(s, log[k], f[k - 1])
    BY <1>1, AfterAt
  <1> HIDE DEF n
  <1>3. \A k \in 0 .. n + 1 : g[k] = IF k = 0 THEN 0 ELSE Folded(s, longer[k], g[k - 1])
    <2>1. TAKE k \in 0 .. n + 1
    <2>2. CASE k = 0
      BY <1>1, <1>2, <2>2
    <2>3. CASE k \in 1 .. n
      <3>1. g[k] = f[k] /\ g[k - 1] = f[k - 1]
        BY <1>1, <2>3
      <3> HIDE DEF g
      <3> QED
        BY <1>1, <1>2, <2>3, <3>1
    <2>4. CASE k = n + 1
      <3>1. g[n + 1] = Folded(s, record, f[n]) /\ g[n] = f[n] /\ n + 1 # 0 /\ n + 1 - 1 = n
        BY <1>1
      <3> HIDE DEF g
      <3> QED
        BY <1>1, <2>4, <3>1
    <2> QED
      BY <1>1, <2>2, <2>3, <2>4
  <1>4. g = [k \in 0 .. n + 1 |-> g[k]] /\ g[n + 1] = Folded(s, record, f[n])
    BY <1>1
  <1> HIDE DEF g
  <1>5. IsAfter(longer, s, g)
    BY <1>1, <1>3, <1>4 DEF IsAfter, Folded
  <1> QED
    BY <1>1, <1>4, <1>5 DEF n, Reaches

LEMMA TotalIs ==
  ASSUME received \in Seq(Records), NEW s, NEW total, Reaches(received, s, total)
  PROVE  Total(s) = total
  <1> PICK f : IsAfter(received, s, f) /\ f[Len(received)] = total
    BY DEF Reaches
  <1>1. Total(s) = (CHOOSE g : IsAfter(received, s, g))[Len(received)]
    BY DEF Total, IsAfter
  <1>2. PICK g : g = CHOOSE h : IsAfter(received, s, h)
    OBVIOUS
  <1>3. IsAfter(received, s, g)
    BY <1>2
  <1>4. Len(received) \in Nat
    OBVIOUS
  <1>5. f = g
    BY <1>3, <1>4, AfterIsOne
  <1> QED
    BY <1>1, <1>2, <1>5

-----------------------------------------------------------------------------
(* Telemetry: the records so far.                                            *)

LEMMA RecordsGrow ==
  ASSUME received \in Seq(Records), NEW record \in Records, Receive(record)
  PROVE  /\ Len(received) \in Nat /\ DOMAIN received = 1 .. Len(received)
         /\ received' \in Seq(Records) /\ received' = Append(received, record)
         /\ DOMAIN received' = 1 .. Len(received) + 1 /\ Len(received') = Len(received) + 1
         /\ \A k \in 1 .. Len(received) : received'[k] = received[k]
         /\ received'[Len(received) + 1] = record
  BY DEF Receive

Decided(s, c) ==
  {k \in DOMAIN received : IsDecisionOf(s, received[k]) /\ c \in Counted(received[k].decision)}

\* Sets of places in the log, which grow at the end.
LEMMA OneAfter ==
  ASSUME NEW n \in Nat, NEW P \in SUBSET (1 .. n)
  PROVE  /\ IsFiniteSet(P) /\ Cardinality(P) \in Nat
         /\ IsFiniteSet(P \cup {n + 1}) /\ Cardinality(P \cup {n + 1}) = Cardinality(P) + 1
  <1>1. IsFiniteSet(1 .. n)
    BY FS_Interval
  <1>2. IsFiniteSet(P)
    BY <1>1, FS_Subset
  <1>3. n + 1 \notin P
    OBVIOUS
  <1> QED
    BY <1>2, <1>3, FS_AddElement, FS_CardinalityType

LEMMA DecidedGrows ==
  ASSUME received \in Seq(Records), NEW record \in Records, Receive(record), NEW s, NEW c
  PROVE  Cardinality(Decided(s, c)') =
           IF IsDecisionOf(s, record) /\ c \in Counted(record.decision)
           THEN Cardinality(Decided(s, c)) + 1 ELSE Cardinality(Decided(s, c))
  <1>1. PICK n : n = Len(received)
    OBVIOUS
  <1>2. /\ n \in Nat /\ DOMAIN received = 1 .. n /\ DOMAIN received' = 1 .. n + 1
        /\ \A k \in 1 .. n : received'[k] = received[k]
        /\ received'[n + 1] = record
    BY <1>1, RecordsGrow
  <1>3. Decided(s, c) \subseteq 1 .. n
    BY <1>2 DEF Decided
  <1>4. \A k : k \in Decided(s, c)' <=>
          k \in Decided(s, c) \/ (k = n + 1 /\ IsDecisionOf(s, record) /\ c \in Counted(record.decision))
    <2>1. \A k : k \in Decided(s, c)' <=>
            /\ k \in 1 .. n + 1 /\ IsDecisionOf(s, received'[k]) /\ c \in Counted(received'[k].decision)
      BY <1>2 DEF Decided, IsDecisionOf, Counted
    <2>2. \A k : k \in 1 .. n + 1 <=> k \in 1 .. n \/ k = n + 1
      BY <1>2
    <2>3. n + 1 \notin 1 .. n
      BY <1>2
    <2> QED
      BY <1>2, <2>1, <2>2, <2>3 DEF Decided
  <1>5. CASE IsDecisionOf(s, record) /\ c \in Counted(record.decision)
    <2>1. Decided(s, c)' = Decided(s, c) \cup {n + 1}
      BY <1>4, <1>5
    <2> QED
      BY <1>2, <1>3, <1>5, <2>1, OneAfter
  <1>6. CASE ~(IsDecisionOf(s, record) /\ c \in Counted(record.decision))
    <2>1. Decided(s, c)' = Decided(s, c)
      BY <1>4, <1>6
    <2> QED
      BY <1>6, <2>1
  <1> QED
    BY <1>5, <1>6

\* A record that lists nothing leaves the list's places, one that does gets the next.
LEMMA ToListGrows ==
  ASSUME received \in Seq(Records), NEW record \in Records, Receive(record), NEW s,
         NEW n, n = Len(received)
  PROVE  /\ n \in Nat /\ ToList(s) \subseteq 1 .. n
         /\ ToList(s)' = IF IsDecisionOf(s, record) /\ IsListedDecision(record.decision)
                         THEN ToList(s) \cup {n + 1} ELSE ToList(s)
  <1>2. /\ n \in Nat /\ DOMAIN received = 1 .. n /\ DOMAIN received' = 1 .. n + 1
        /\ \A k \in 1 .. n : received'[k] = received[k]
        /\ received'[n + 1] = record
    BY RecordsGrow
  <1>3. ToList(s) \subseteq 1 .. n
    BY <1>2 DEF ToList
  <1>4. \A k : k \in ToList(s)' <=>
          k \in ToList(s) \/ (k = n + 1 /\ IsDecisionOf(s, record) /\ IsListedDecision(record.decision))
    <2>1. \A k : k \in ToList(s)' <=>
            /\ k \in 1 .. n + 1 /\ IsDecisionOf(s, received'[k])
            /\ IsListedDecision(received'[k].decision)
      BY <1>2 DEF ToList, IsDecisionOf, IsListedDecision
    <2>2. \A k : k \in 1 .. n + 1 <=> k \in 1 .. n \/ k = n + 1
      BY <1>2
    <2>3. n + 1 \notin 1 .. n
      BY <1>2
    <2> QED
      BY <1>2, <2>1, <2>2, <2>3 DEF ToList
  <1> QED
    BY <1>2, <1>3, <1>4

\* The list of session s holds the first of the decisions that are to be listed.
Lists(s, list) ==
  /\ Len(list) = IF Cardinality(ToList(s)) < maxPermissionRequests
                 THEN Cardinality(ToList(s)) ELSE maxPermissionRequests
  /\ \A k \in ToList(s) :
       PlaceOf(k, s) <= maxPermissionRequests =>
         list[PlaceOf(k, s)].toolUse = received[k].toolUse

\* A place is one of the list's, as far as it goes.
LEMMA PlaceIs ==
  ASSUME NEW n \in Nat, NEW s, ToList(s) \subseteq 1 .. n, NEW k \in ToList(s)
  PROVE  PlaceOf(k, s) \in 1 .. Cardinality(ToList(s)) /\ Cardinality(ToList(s)) \in Nat
  <1> DEFINE P == {j \in ToList(s) : j <= k}
  <1>1. /\ IsFiniteSet(ToList(s)) /\ Cardinality(ToList(s)) \in Nat
    BY OneAfter
  <1>2. P \subseteq ToList(s) /\ k \in P
    OBVIOUS
  <1> HIDE DEF P
  <1>3. IsFiniteSet(P) /\ Cardinality(P) <= Cardinality(ToList(s))
    BY <1>1, <1>2, FS_Subset
  <1>4. Cardinality(P) \in Nat /\ Cardinality(P) # 0
    BY <1>2, <1>3, FS_CardinalityType, FS_EmptySet
  <1>5. PlaceOf(k, s) = Cardinality(P)
    BY DEF PlaceOf, P
  <1> QED
    BY <1>1, <1>3, <1>4, <1>5

\* Nothing is listed by the record.
LEMMA ListStays ==
  ASSUME received \in Seq(Records), NEW record \in Records, Receive(record), NEW s,
         ~(IsDecisionOf(s, record) /\ IsListedDecision(record.decision)),
         NEW list, NEW later, Lists(s, list), Len(later) = Len(list),
         \A k \in 1 .. Len(list) : later[k].toolUse = list[k].toolUse
  PROVE  Lists(s, later)'
  <1>1. PICK n : n = Len(received)
    OBVIOUS
  <1>2. n \in Nat /\ ToList(s) \subseteq 1 .. n /\ ToList(s)' = ToList(s)
    BY <1>1, ToListGrows
  <1>3. \A k \in ToList(s) : /\ PlaceOf(k, s)' = PlaceOf(k, s) /\ received'[k] = received[k]
                             /\ PlaceOf(k, s) \in 1 .. Cardinality(ToList(s))
                             /\ Cardinality(ToList(s)) \in Nat
    BY <1>1, <1>2, RecordsGrow, PlaceIs DEF PlaceOf
  <1>4. \A k \in ToList(s) : PlaceOf(k, s) <= maxPermissionRequests => PlaceOf(k, s) \in 1 .. Len(list)
    BY <1>3, TelemetryAssumption DEF Lists
  <1>5. \A k \in ToList(s)' : PlaceOf(k, s)' <= maxPermissionRequests =>
          later[PlaceOf(k, s)'].toolUse = received'[k].toolUse
    BY <1>2, <1>3, <1>4 DEF Lists
  <1>6. Len(later) = IF Cardinality(ToList(s)') < maxPermissionRequests
                     THEN Cardinality(ToList(s)') ELSE maxPermissionRequests
    BY <1>2 DEF Lists
  <1> QED
    BY <1>5, <1>6 DEF Lists

\* The record's decision is listed, if there is room.
LEMMA ListGrows ==
  ASSUME received \in Seq(Records), NEW record \in Records, Receive(record), NEW s,
         IsDecisionOf(s, record), IsListedDecision(record.decision),
         NEW list \in Seq(PermissionRequest), Lists(s, list),
         NEW request \in PermissionRequest, request.toolUse = record.toolUse,
         NEW later, later = IF HasRoom(list) THEN Append(list, request) ELSE list
  PROVE  Lists(s, later)'
  <1>1. PICK n : n = Len(received)
    OBVIOUS
  <1>2. PICK many : many = Cardinality(ToList(s))
    OBVIOUS
  <1>3. n \in Nat /\ ToList(s) \subseteq 1 .. n /\ ToList(s)' = ToList(s) \cup {n + 1}
    BY <1>1, ToListGrows
  <1>4. many \in Nat /\ Cardinality(ToList(s)') = many + 1
    BY <1>2, <1>3, OneAfter
  <1>5. maxPermissionRequests \in Nat \ {0}
    BY TelemetryAssumption
  <1>6. Len(list) = IF many < maxPermissionRequests THEN many ELSE maxPermissionRequests
    BY <1>2 DEF Lists
  <1>7. \A k \in ToList(s) : /\ PlaceOf(k, s)' = PlaceOf(k, s) /\ received'[k] = received[k]
                             /\ PlaceOf(k, s) \in 1 .. many
    <2>1. TAKE k \in ToList(s)
    <2>2. k \in 1 .. n /\ ~(n + 1 <= k)
      BY <1>3
    <2>3. {j \in ToList(s)' : j <= k} = {j \in ToList(s) : j <= k}
      BY <1>3, <2>2
    <2> QED
      BY <1>1, <1>2, <1>3, <2>2, <2>3, RecordsGrow, PlaceIs DEF PlaceOf
  <1>8. PlaceOf(n + 1, s)' = many + 1 /\ received'[n + 1] = record
    <2>1. {j \in ToList(s)' : j <= n + 1} = ToList(s)'
      BY <1>3
    <2>2. PlaceOf(n + 1, s)' = Cardinality({j \in ToList(s)' : j <= n + 1})
      BY DEF PlaceOf
    <2> QED
      BY <1>1, <1>4, <2>1, <2>2, RecordsGrow
  <1>9. \A k \in ToList(s) : PlaceOf(k, s) <= maxPermissionRequests =>
          list[PlaceOf(k, s)].toolUse = received[k].toolUse
    BY DEF Lists
  <1>10. CASE HasRoom(list)
    <2>1. many < maxPermissionRequests /\ Len(list) = many
      BY <1>4, <1>5, <1>6, <1>10 DEF HasRoom
    <2>2. /\ Len(later) = many + 1 /\ later[many + 1] = request
          /\ \A k \in 1 .. many : later[k] = list[k]
      BY <1>10, <2>1
    <2>3. Len(later) = IF many + 1 < maxPermissionRequests THEN many + 1 ELSE maxPermissionRequests
      BY <1>4, <1>5, <2>1, <2>2
    <2>4. \A k \in ToList(s)' : PlaceOf(k, s)' <= maxPermissionRequests =>
            later[PlaceOf(k, s)'].toolUse = received'[k].toolUse
      BY <1>3, <1>7, <1>8, <1>9, <2>2
    <2> QED
      BY <1>4, <2>3, <2>4 DEF Lists
  <1>11. CASE ~HasRoom(list)
    <2>1. ~(many < maxPermissionRequests) /\ later = list
      BY <1>4, <1>5, <1>6, <1>11 DEF HasRoom
    <2>2. Len(later) = IF many + 1 < maxPermissionRequests THEN many + 1 ELSE maxPermissionRequests
      BY <1>4, <1>5, <1>6, <2>1
    <2>3. \A k \in ToList(s)' : PlaceOf(k, s)' <= maxPermissionRequests =>
            later[PlaceOf(k, s)'].toolUse = received'[k].toolUse
      BY <1>3, <1>4, <1>5, <1>7, <1>8, <1>9, <2>1
    <2> QED
      BY <1>4, <2>2, <2>3 DEF Lists
  <1> QED
    BY <1>10, <1>11

-----------------------------------------------------------------------------
(* Telemetry: the invariant.                                                 *)

\* Every write of a file succeeded.
Unharmed == Persists /\ failures = 0

OnFile(s) == IF s \in DOMAIN files THEN files[s] ELSE NoStats

Waiting == [session : StatSessions, index : Nat \ {0}]

Capped ==
  /\ IsFiniteSet(DOMAIN stats) /\ IsFiniteSet(DOMAIN pending)
  /\ \A s \in DOMAIN files : Len(files[s].requests) <= maxPermissionRequests

\* What is in memory is on file.
InStep == \A s \in DOMAIN stats : s \in DOMAIN files /\ files[s] = stats[s]

\* Who waits for its command holds a place of its own.
PlaceHeld(u, entry) ==
  LET list == OnFile(entry.session).requests IN
    entry.index <= Len(list) /\ list[entry.index].toolUse = u

PlacesHeld == \A u \in DOMAIN pending : PlaceHeld(u, pending[u])

OwnCommands(list) == \A k \in DOMAIN list : HasOwnCommand(list[k])

Totals(s, st) == Reaches(received, s, st.total)

Counts(s, st) == \A c \in Categories : st.count[c] = Cardinality(Decided(s, c))

\* All that was received of session s is in st.
Accounts(s, st) ==
  /\ Totals(s, st) /\ Counts(s, st) /\ Lists(s, st.requests) /\ OwnCommands(st.requests)

Holds ==
  /\ received \in Seq(Records) /\ TelemetryTypeOK /\ WithinCaps /\ Capped

TelemetryInv ==
  /\ Holds
  /\ Unharmed => InStep /\ PlacesHeld /\ \A s \in StatSessions : Accounts(s, OnFile(s))

LEMMA NoStatsOK == NoStats \in SessionStats /\ Len(NoStats.requests) = 0
  BY DEF NoStats, SessionStats

LEMMA InitTelemetry == TelemetryInit => TelemetryInv
  <1> SUFFICES ASSUME TelemetryInit PROVE TelemetryInv
    OBVIOUS
  <1>1. /\ DOMAIN stats = {} /\ DOMAIN pending = {} /\ DOMAIN files = {}
        /\ now = 0 /\ failures = 0 /\ received = <<>>
    BY DEF TelemetryInit, Nothing
  <1>2. IsFiniteSet({}) /\ Cardinality({}) = 0
    BY FS_EmptySet
  <1>3. Holds
    BY <1>1, <1>2, TelemetryAssumption DEF Holds, TelemetryTypeOK, WithinCaps, Capped
  <1>4. ASSUME NEW s \in StatSessions PROVE Accounts(s, OnFile(s))
    <2>1. OnFile(s) = NoStats
      BY <1>1 DEF OnFile
    <2>2. PICK f : f = [k \in 0 .. 0 |-> 0]
      OBVIOUS
    <2>3. IsAfter(received, s, f) /\ f[Len(received)] = 0
      BY <1>1, <2>2, AfterNothing
    <2>4. \A c : Decided(s, c) = {}
      BY <1>1 DEF Decided
    <2>5. ToList(s) = {}
      BY <1>1 DEF ToList
    <2>6. Lists(s, <<>>)
      BY <1>2, <2>5, TelemetryAssumption DEF Lists
    <2>7. NoStats.total = 0 /\ NoStats.requests = <<>> /\ \A c \in Categories : NoStats.count[c] = 0
      BY DEF NoStats
    <2>8. Totals(s, NoStats)
      BY <2>3, <2>7 DEF Totals, Reaches
    <2>9. Counts(s, NoStats)
      BY <1>2, <2>4, <2>7 DEF Counts
    <2>10. OwnCommands(<<>>)
      BY DEF OwnCommands
    <2> QED
      BY <2>1, <2>6, <2>7, <2>8, <2>9, <2>10 DEF Accounts
  <1> QED
    BY <1>1, <1>3, <1>4 DEF TelemetryInv, InStep, PlacesHeld

\* There is a session that was updated first.
LEMMA OldestIs ==
  ASSUME TelemetryTypeOK, DOMAIN stats # {}
  PROVE  Oldest \in DOMAIN stats
  <1> DEFINE T == {stats[s].updatedAt : s \in DOMAIN stats}
  <1>1. T \in SUBSET Nat /\ T # {}
    BY DEF TelemetryTypeOK, SessionStats
  <1> HIDE DEF T
  <1>2. PICK m \in T : \A k \in T : m <= k
    BY <1>1, NatMin
  <1>3. \E s \in DOMAIN stats : \A t \in DOMAIN stats : stats[s].updatedAt <= stats[t].updatedAt
    BY <1>2 DEF T
  <1> QED
    BY <1>3 DEF Oldest

\* The memory with room for s.
HasRoomFor(memory, s) ==
  /\ DOMAIN memory \subseteq DOMAIN stats
  /\ \A t \in DOMAIN memory : memory[t] = stats[t]
  /\ Cardinality(DOMAIN memory \cup {s}) <= maxSessions

LEMMA KeptHasRoom ==
  ASSUME Holds, NEW s \in StatSessions
  PROVE  HasRoomFor(Kept(s), s)
  <1>1. /\ IsFiniteSet(DOMAIN stats) /\ Cardinality(DOMAIN stats) \in Nat
        /\ Cardinality(DOMAIN stats) <= maxSessions /\ maxSessions \in Nat \ {0}
    BY FS_CardinalityType, TelemetryAssumption DEF Holds, Capped, WithinCaps
  <1>2. CASE s \in DOMAIN stats
    <2>1. DOMAIN stats \cup {s} = DOMAIN stats /\ Kept(s) = stats
      BY <1>2 DEF Kept
    <2> QED
      BY <1>1, <2>1 DEF HasRoomFor
  <1>3. CASE s \notin DOMAIN stats /\ Cardinality(DOMAIN stats) < maxSessions
    <2>1. Kept(s) = stats
      BY <1>1, <1>3 DEF Kept
    <2>2. Cardinality(DOMAIN stats \cup {s}) = Cardinality(DOMAIN stats) + 1
      BY <1>1, <1>3, FS_AddElement
    <2> QED
      BY <1>1, <1>3, <2>1, <2>2 DEF HasRoomFor
  <1>4. CASE s \notin DOMAIN stats /\ ~(Cardinality(DOMAIN stats) < maxSessions)
    <2>1. Cardinality(DOMAIN stats) = maxSessions
      BY <1>1, <1>4
    <2>2. DOMAIN stats # {}
      BY <1>1, <2>1, FS_EmptySet
    <2>3. Oldest \in DOMAIN stats
      BY <2>2, OldestIs DEF Holds
    <2>4. Kept(s) = [t \in DOMAIN stats \ {Oldest} |-> stats[t]]
      BY <1>1, <1>4, <2>1 DEF Kept, Without
    <2>5. PICK D : D = DOMAIN stats \ {Oldest}
      OBVIOUS
    <2>6. IsFiniteSet(D) /\ Cardinality(D) = maxSessions - 1 /\ s \notin D
      BY <1>1, <1>4, <2>1, <2>3, <2>5, FS_RemoveElement
    <2>7. Cardinality(D \cup {s}) = maxSessions
      <3>1. Cardinality(D \cup {s}) = Cardinality(D) + 1
        BY <2>6, FS_AddElement
      <3> QED
        BY <1>1, <2>6, <3>1
    <2>8. DOMAIN Kept(s) = D /\ \A t \in D : Kept(s)[t] = stats[t]
      BY <2>4, <2>5
    <2> QED
      BY <1>1, <2>5, <2>7, <2>8 DEF HasRoomFor
  <1> QED
    BY <1>1, <1>2, <1>3, <1>4

LEMMA AllHasRoom ==
  ASSUME Holds, NEW s \in DOMAIN stats
  PROVE  HasRoomFor(stats, s)
  <1>1. DOMAIN stats \cup {s} = DOMAIN stats
    OBVIOUS
  <1> QED
    BY <1>1 DEF HasRoomFor, Holds, WithinCaps

\* What statsFor returns is what is on file, where nothing failed.
LEMMA StatsForIs ==
  ASSUME TelemetryInv, NEW s \in StatSessions
  PROVE  /\ StatsFor(s) \in SessionStats /\ Len(StatsFor(s).requests) <= maxPermissionRequests
         /\ Unharmed => StatsFor(s) = [OnFile(s) EXCEPT !.updatedAt = now + 1]
  <1> DEFINE st == IF s \in DOMAIN stats THEN stats[s] ELSE RestoredStats(s)
  <1>1. st \in SessionStats /\ Len(st.requests) <= maxPermissionRequests
    BY NoStatsOK, TelemetryAssumption
    DEF TelemetryInv, Holds, TelemetryTypeOK, WithinCaps, Capped, RestoredStats
  <1>2. Unharmed => st = OnFile(s)
    BY DEF TelemetryInv, InStep, OnFile, RestoredStats, Unharmed
  <1>3. StatsFor(s) = [st EXCEPT !.updatedAt = now + 1]
    BY DEF StatsFor
  <1>4. now \in Nat
    BY DEF TelemetryInv, Holds, TelemetryTypeOK
  <1> HIDE DEF st
  <1>5. [st EXCEPT !.updatedAt = now + 1] \in SessionStats
        /\ [st EXCEPT !.updatedAt = now + 1].requests = st.requests
    BY <1>1, <1>4 DEF SessionStats
  <1> QED
    BY <1>1, <1>2, <1>3, <1>5

\* A change of session s, with its write.
LEMMA UpdateKeeps ==
  ASSUME TelemetryInv, NEW s \in StatSessions, NEW value \in SessionStats,
         Len(value.requests) <= maxPermissionRequests,
         NEW memory, HasRoomFor(memory, s), Update(s, value, memory)
  PROVE  /\ DOMAIN stats' \subseteq StatSessions /\ DOMAIN files' \subseteq StatSessions
         /\ \A t \in DOMAIN stats' : /\ stats'[t] \in SessionStats
                                     /\ Len(stats'[t].requests) <= maxPermissionRequests
         /\ \A t \in DOMAIN files' : /\ files'[t] \in SessionStats
                                     /\ Len(files'[t].requests) <= maxPermissionRequests
         /\ IsFiniteSet(DOMAIN stats') /\ Cardinality(DOMAIN stats') <= maxSessions
         /\ now' \in Nat /\ failures' \in Nat
         /\ Unharmed' => /\ Unharmed /\ InStep'
                         /\ OnFile(s)' = value
                         /\ \A t \in StatSessions \ {s} : OnFile(t)' = OnFile(t)
  <1>1. /\ DOMAIN stats \subseteq StatSessions /\ DOMAIN files \subseteq StatSessions
        /\ \A t \in DOMAIN stats : /\ stats[t] \in SessionStats
                                   /\ Len(stats[t].requests) <= maxPermissionRequests
        /\ \A t \in DOMAIN files : /\ files[t] \in SessionStats
                                   /\ Len(files[t].requests) <= maxPermissionRequests
        /\ IsFiniteSet(DOMAIN stats) /\ now \in Nat /\ failures \in Nat
    BY DEF TelemetryInv, Holds, TelemetryTypeOK, WithinCaps, Capped
  <1>2. /\ stats' = [t \in DOMAIN memory \cup {s} |-> IF t = s THEN value ELSE memory[t]]
        /\ now' = now + 1
        /\ DOMAIN memory \subseteq DOMAIN stats /\ \A t \in DOMAIN memory : memory[t] = stats[t]
        /\ Cardinality(DOMAIN memory \cup {s}) <= maxSessions
    BY DEF Update, Put, HasRoomFor
  <1>3. IsFiniteSet(DOMAIN memory \cup {s})
    BY <1>1, <1>2, FS_Subset, FS_AddElement
  <1>4. \/ /\ Persists /\ failures' = failures
           /\ files' = [t \in DOMAIN files \cup {s} |-> IF t = s THEN value ELSE files[t]]
        \/ ~Persists /\ failures' = failures /\ files' = files
        \/ failures' = failures + 1 /\ files' = files
    BY DEF Update, Put
  <1>5. /\ DOMAIN stats' = DOMAIN memory \cup {s}
        /\ \A t \in DOMAIN stats' : stats'[t] = IF t = s THEN value ELSE stats[t]
    BY <1>2
  <1>6. DOMAIN files' \subseteq StatSessions
        /\ \A t \in DOMAIN files' : /\ files'[t] \in SessionStats
                                    /\ Len(files'[t].requests) <= maxPermissionRequests
    BY <1>1, <1>4
  <1>7. failures' \in Nat
    BY <1>1, <1>4
  <1>8. ASSUME Unharmed'
        PROVE  /\ Unharmed /\ InStep' /\ OnFile(s)' = value
               /\ \A t \in StatSessions \ {s} : OnFile(t)' = OnFile(t)
    <2>1. Persists /\ failures' = 0
      BY <1>8 DEF Unharmed
    <2>2. /\ failures = 0
          /\ files' = [t \in DOMAIN files \cup {s} |-> IF t = s THEN value ELSE files[t]]
      BY <1>1, <1>4, <2>1
    <2>3. InStep
      BY <2>1, <2>2 DEF TelemetryInv, Unharmed
    <2>4. \A t \in DOMAIN stats' : t \in DOMAIN files' /\ files'[t] = stats'[t]
      BY <1>2, <1>5, <2>2, <2>3 DEF InStep
    <2> QED
      BY <2>1, <2>2, <2>4 DEF Unharmed, InStep, OnFile
  <1> QED
    BY <1>1, <1>2, <1>3, <1>5, <1>6, <1>7, <1>8

-----------------------------------------------------------------------------
(* Telemetry: the steps.                                                     *)

\* A session's account goes on with the record.
LEMMA AccountGoesOn ==
  ASSUME received \in Seq(Records), NEW record \in Records, Receive(record),
         NEW s, NEW st, NEW later, Accounts(s, st),
         later.total = Folded(s, record, st.total),
         \A c \in Categories :
           later.count[c] = IF IsDecisionOf(s, record) /\ c \in Counted(record.decision)
                            THEN st.count[c] + 1 ELSE st.count[c],
         Lists(s, later.requests)', OwnCommands(later.requests)
  PROVE  Accounts(s, later)'
  <1>1. Totals(s, later)'
    <2>1. PICK log : log = received'
      OBVIOUS
    <2>2. log = Append(received, record) /\ Reaches(received, s, st.total)
      BY <2>1 DEF Receive, Accounts, Totals
    <2>3. Reaches(log, s, Folded(s, record, st.total))
      BY <2>2, AfterGrows
    <2> QED
      BY <2>1, <2>3 DEF Totals, Reaches, IsAfter, FoldValue
  <1>2. Counts(s, later)'
    <2>1. \A c \in Categories : later.count[c] = Cardinality(Decided(s, c)')
      BY DecidedGrows DEF Accounts, Counts
    <2> QED
      BY <2>1 DEF Counts, Categories
  <1>3. OwnCommands(later.requests)'
    BY DEF OwnCommands, HasOwnCommand
  <1> QED
    BY <1>1, <1>2, <1>3 DEF Accounts

\* The list is as it was, but for commands.
LEMMA AccountStays ==
  ASSUME received \in Seq(Records), NEW record \in Records, Receive(record),
         NEW s, NEW st, NEW later, Accounts(s, st), ~IsDecisionOf(s, record),
         later.total = Folded(s, record, st.total), later.count = st.count,
         Len(later.requests) = Len(st.requests),
         \A k \in 1 .. Len(st.requests) : later.requests[k].toolUse = st.requests[k].toolUse,
         OwnCommands(later.requests)
  PROVE  Accounts(s, later)'
  <1>1. Lists(s, later.requests)'
    BY ListStays DEF Accounts
  <1> QED
    BY <1>1, AccountGoesOn

\* The sessions a record is not about.
LEMMA OtherAccounts ==
  ASSUME received \in Seq(Records), NEW record \in Records, Receive(record),
         NEW s, NEW st, Accounts(s, st), record.session # s
  PROVE  Accounts(s, st)'
  <1>1. ~IsDecisionOf(s, record) /\ st.total = Folded(s, record, st.total)
    BY DEF IsDecisionOf, Folded
  <1> QED
    BY <1>1, AccountStays DEF Accounts

LEMMA PlaceStays ==
  ASSUME NEW u, NEW entry, PlaceHeld(u, entry),
         NEW before, before = OnFile(entry.session).requests,
         NEW later, later = OnFile(entry.session)'.requests,
         Len(before) <= Len(later), Len(before) \in Nat, Len(later) \in Nat, entry.index \in Nat \ {0},
         \A k \in 1 .. Len(before) : later[k].toolUse = before[k].toolUse
  PROVE  PlaceHeld(u, entry)'
  <1>1. entry.index <= Len(before) /\ before[entry.index].toolUse = u
    BY DEF PlaceHeld
  <1>2. entry.index <= Len(later) /\ later[entry.index].toolUse = u
    BY <1>1
  <1> QED
    BY <1>2 DEF PlaceHeld

\* A file's list is a sequence.
LEMMA OnFileIs ==
  ASSUME Holds, NEW s \in StatSessions
  PROVE  OnFile(s) \in SessionStats /\ OnFile(s).requests \in Seq(PermissionRequest)
  <1>1. OnFile(s) \in SessionStats
    BY NoStatsOK DEF OnFile, Holds, TelemetryTypeOK
  <1> QED
    BY <1>1 DEF SessionStats

LEMMA FoldKeeps ==
  ASSUME TelemetryInv, NEW s \in StatSessions, NEW value \in Points, NEW isDelta \in BOOLEAN,
         Fold(s, value, isDelta)
  PROVE  TelemetryInv'
  <1>1. PICK record : record = [kind |-> "metric", session |-> s, value |-> value, isDelta |-> isDelta]
    OBVIOUS
  <1>2. PICK old : old = StatsFor(s)
    OBVIOUS
  <1>3. PICK later : later = [old EXCEPT !.total = FoldValue(@, value, isDelta)]
    OBVIOUS
  <1>4. /\ record \in Records /\ Receive(record) /\ Update(s, later, Kept(s))
        /\ UNCHANGED <<pending, restarts>> /\ received \in Seq(Records)
    BY <1>1, <1>2, <1>3 DEF Fold, Records, TelemetryInv, Holds
  <1>5. /\ old \in SessionStats /\ Len(old.requests) <= maxPermissionRequests
        /\ Unharmed => old = [OnFile(s) EXCEPT !.updatedAt = now + 1]
    BY <1>2, StatsForIs
  <1>6. FoldValue(old.total, value, isDelta) \in Nat
    BY <1>5, TelemetryAssumption DEF FoldValue, SessionStats
  <1>7. /\ later \in SessionStats /\ later.requests = old.requests /\ later.count = old.count
        /\ later.total = FoldValue(old.total, value, isDelta)
    BY <1>3, <1>5, <1>6 DEF SessionStats
  <1>8. Holds /\ HasRoomFor(Kept(s), s)
    BY KeptHasRoom DEF TelemetryInv
  <1>9. Holds'
    BY <1>4, <1>5, <1>7, <1>8, UpdateKeeps, RecordsGrow
    DEF Holds, TelemetryTypeOK, WithinCaps, Capped
  <1>10. ASSUME Unharmed' PROVE InStep' /\ PlacesHeld' /\ \A t \in StatSessions : Accounts(t, OnFile(t))'
    <2>1. /\ Unharmed /\ InStep' /\ OnFile(s)' = later
          /\ \A t \in StatSessions \ {s} : OnFile(t)' = OnFile(t)
      BY <1>4, <1>5, <1>7, <1>8, <1>10, UpdateKeeps
    <2>2. OnFile(s) \in SessionStats
      BY <1>8, OnFileIs
    <2>3. old.total = OnFile(s).total /\ old.count = OnFile(s).count /\ old.requests = OnFile(s).requests
      BY <1>5, <2>1, <2>2 DEF SessionStats
    <2>4. \A t \in StatSessions : OnFile(t)'.requests = OnFile(t).requests
      BY <1>7, <2>1, <2>3
    <2>5. PlacesHeld'
      <3>1. ASSUME NEW u \in DOMAIN pending PROVE PlaceHeld(u, pending[u])'
        <4>1. PICK entry : entry = pending[u]
          OBVIOUS
        <4>2. PlaceHeld(u, entry) /\ entry.session \in StatSessions /\ pending' = pending
          BY <1>4, <1>8, <2>1, <4>1 DEF TelemetryInv, PlacesHeld, Holds, TelemetryTypeOK
        <4>3. PlaceHeld(u, entry)'
          BY <2>4, <4>2 DEF PlaceHeld
        <4> QED
          BY <4>1, <4>2, <4>3
      <3> QED
        BY <1>4, <3>1 DEF PlacesHeld
    <2>6. ASSUME NEW t \in StatSessions PROVE Accounts(t, OnFile(t))'
      <3>1. PICK st : st = OnFile(t)
        OBVIOUS
      <3>2. Accounts(t, st)
        BY <2>1, <3>1 DEF TelemetryInv
      <3>3. CASE t # s
        <4>1. Accounts(t, st)' /\ OnFile(t)' = st
          BY <1>1, <1>4, <2>1, <3>1, <3>2, <3>3, OtherAccounts
        <4> QED
          BY <4>1
      <3>4. CASE t = s
        <4>1. ~IsDecisionOf(s, record) /\ Folded(s, record, st.total) = FoldValue(st.total, value, isDelta)
          BY <1>1 DEF IsDecisionOf, Folded
        <4>2. later.total = Folded(s, record, st.total) /\ later.count = st.count
              /\ later.requests = st.requests
          BY <1>7, <2>3, <3>1, <3>4, <4>1
        <4>3. Accounts(s, later)'
          BY <1>4, <3>2, <3>4, <4>1, <4>2, AccountStays DEF Accounts
        <4> QED
          BY <2>1, <3>4, <4>3
      <3> QED
        BY <3>3, <3>4
    <2> QED
      BY <2>1, <2>5, <2>6
  <1> QED
    BY <1>9, <1>10 DEF TelemetryInv

LEMMA FoldDecisionKeeps ==
  ASSUME TelemetryInv, NEW s \in StatSessions, NEW u \in ToolUses \cup {NoUse}, NEW d \in Decisions,
         FoldDecision(s, u, d)
  PROVE  TelemetryInv'
  <1>1. PICK record : record = [kind |-> "decision", session |-> s, toolUse |-> u, decision |-> d]
    OBVIOUS
  <1>2. PICK old : old = StatsFor(s)
    OBVIOUS
  <1>3. PICK request : request = [toolUse |-> u, command |-> NoUse]
    OBVIOUS
  <1>4. PICK isListed : isListed = (IsListedDecision(d) /\ HasRoom(old.requests))
    OBVIOUS
  <1>5. PICK list : list = IF isListed THEN Append(old.requests, request) ELSE old.requests
    OBVIOUS
  <1>6. PICK count : count = [c \in Categories |-> IF c \in Counted(d) THEN old.count[c] + 1 ELSE old.count[c]]
    OBVIOUS
  <1>7. PICK later : later = [old EXCEPT !.count = count, !.requests = list]
    OBVIOUS
  <1>8. /\ record \in Records /\ Receive(record) /\ Update(s, later, Kept(s))
        /\ pending' = IF isListed /\ u # NoUse
                      THEN Remember(u, [session |-> s, index |-> Len(old.requests) + 1])
                      ELSE pending
        /\ received \in Seq(Records)
    BY <1>1, <1>2, <1>3, <1>4, <1>5, <1>6, <1>7 DEF FoldDecision, Records, TelemetryInv, Holds
  <1>9. /\ old \in SessionStats /\ Len(old.requests) <= maxPermissionRequests
        /\ Unharmed => old = [OnFile(s) EXCEPT !.updatedAt = now + 1]
    BY <1>2, StatsForIs
  <1>10. old.requests \in Seq(PermissionRequest) /\ request \in PermissionRequest
         /\ Len(old.requests) \in Nat /\ old.count \in [Categories -> Nat]
    BY <1>3, <1>9 DEF SessionStats, PermissionRequest
  <1>11. /\ list \in Seq(PermissionRequest) /\ Len(list) <= maxPermissionRequests
         /\ Len(list) = IF isListed THEN Len(old.requests) + 1 ELSE Len(old.requests)
         /\ \A k \in 1 .. Len(old.requests) : list[k] = old.requests[k]
         /\ isListed => list[Len(old.requests) + 1] = request
    <2>1. isListed => Len(old.requests) + 1 <= maxPermissionRequests
      <3>1. Len(old.requests) \in Nat /\ maxPermissionRequests \in Nat
        BY <1>10, TelemetryAssumption
      <3>2. isListed => Len(old.requests) < maxPermissionRequests
        BY <1>4 DEF HasRoom
      <3> QED
        BY <3>1, <3>2
    <2>2. CASE isListed
      <3>1. list = Append(old.requests, request)
        BY <1>5, <2>2
      <3>2. Len(list) = Len(old.requests) + 1
        BY <1>10, <3>1
      <3> QED
        BY <1>10, <2>1, <2>2, <3>1, <3>2
    <2>3. CASE ~isListed
      BY <1>5, <1>9, <1>10, <2>3
    <2> QED
      BY <2>2, <2>3
  <1>12. count \in [Categories -> Nat]
    BY <1>6, <1>10
  <1>13. /\ later \in SessionStats /\ later.requests = list /\ later.count = count
         /\ later.total = old.total
    BY <1>7, <1>9, <1>11, <1>12 DEF SessionStats
  <1>14. Holds /\ HasRoomFor(Kept(s), s)
    BY KeptHasRoom DEF TelemetryInv
  <1>15. PICK entry : entry = [session |-> s, index |-> Len(old.requests) + 1]
    OBVIOUS
  <1>16. entry \in Waiting /\ entry.session = s /\ entry.index = Len(old.requests) + 1
    BY <1>10, <1>15 DEF Waiting
  <1>17. /\ DOMAIN pending' \subseteq ToolUses
         /\ \A v \in DOMAIN pending' :
              \/ v \in DOMAIN pending /\ pending'[v] = pending[v]
              \/ isListed /\ v = u /\ pending'[v] = entry
         /\ IsFiniteSet(DOMAIN pending') /\ Cardinality(DOMAIN pending') <= maxPendingCommands
    <2>1. /\ DOMAIN pending \subseteq ToolUses /\ IsFiniteSet(DOMAIN pending)
          /\ Cardinality(DOMAIN pending) <= maxPendingCommands
          /\ Cardinality(DOMAIN pending) \in Nat /\ maxPendingCommands \in Nat \ {0}
      BY <1>14, FS_CardinalityType, TelemetryAssumption DEF Holds, TelemetryTypeOK, WithinCaps, Capped
    <2>2. CASE ~(isListed /\ u # NoUse)
      BY <1>8, <2>1, <2>2
    <2>3. CASE isListed /\ u # NoUse
      <3>1. PICK table : table = IF Cardinality(DOMAIN pending) >= maxPendingCommands THEN Nothing ELSE pending
        OBVIOUS
      <3>2. /\ DOMAIN table \subseteq DOMAIN pending /\ \A v \in DOMAIN table : table[v] = pending[v]
            /\ IsFiniteSet(DOMAIN table) /\ Cardinality(DOMAIN table) + 1 <= maxPendingCommands
        <4>1. CASE Cardinality(DOMAIN pending) >= maxPendingCommands
          <5>1. DOMAIN table = {} /\ IsFiniteSet({}) /\ Cardinality({}) = 0
            BY <3>1, <4>1, FS_EmptySet DEF Nothing
          <5> QED
            BY <2>1, <5>1
        <4>2. CASE ~(Cardinality(DOMAIN pending) >= maxPendingCommands)
          BY <2>1, <3>1, <4>2
        <4> QED
          BY <4>1, <4>2
      <3>3. pending' = [v \in DOMAIN table \cup {u} |-> IF v = u THEN entry ELSE table[v]]
        BY <1>8, <1>15, <2>3, <3>1 DEF Remember, Put
      <3>4. IsFiniteSet(DOMAIN table \cup {u}) /\ Cardinality(DOMAIN table) \in Nat
            /\ Cardinality(DOMAIN table \cup {u}) <= Cardinality(DOMAIN table) + 1
            /\ Cardinality(DOMAIN table \cup {u}) \in Nat
        <4>1. PICK D : D = DOMAIN table
          OBVIOUS
        <4>2. IsFiniteSet(D) /\ Cardinality(D) \in Nat
          BY <3>2, <4>1, FS_CardinalityType
        <4>3. u \in D => D \cup {u} = D
          OBVIOUS
        <4>4. IsFiniteSet(D \cup {u}) /\ u \notin D => Cardinality(D \cup {u}) = Cardinality(D) + 1
          BY <4>2, FS_AddElement
        <4> QED
          BY <4>1, <4>2, <4>3, <4>4, FS_AddElement
      <3>5. Cardinality(DOMAIN table \cup {u}) <= maxPendingCommands
        BY <2>1, <3>2, <3>4
      <3>6. DOMAIN pending' = DOMAIN table \cup {u}
            /\ \A v \in DOMAIN pending' : pending'[v] = IF v = u THEN entry ELSE table[v]
        BY <3>3
      <3> QED
        BY <2>1, <2>3, <3>2, <3>4, <3>5, <3>6
    <2> QED
      BY <2>2, <2>3
  <1>18. Holds'
    <2>1. \A v \in DOMAIN pending' : pending'[v] \in [session : StatSessions, index : Nat \ {0}]
      BY <1>14, <1>16, <1>17 DEF Holds, TelemetryTypeOK, Waiting
    <2> QED
      BY <1>8, <1>11, <1>13, <1>14, <1>17, <2>1, UpdateKeeps, RecordsGrow
      DEF Holds, TelemetryTypeOK, WithinCaps, Capped
  <1>19. ASSUME Unharmed' PROVE InStep' /\ PlacesHeld' /\ \A t \in StatSessions : Accounts(t, OnFile(t))'
    <2>1. /\ Unharmed /\ InStep' /\ OnFile(s)' = later
          /\ \A t \in StatSessions \ {s} : OnFile(t)' = OnFile(t)
      BY <1>8, <1>11, <1>13, <1>14, <1>19, UpdateKeeps
    <2>2. OnFile(s) \in SessionStats
      BY <1>14, OnFileIs
    <2>3. old.total = OnFile(s).total /\ old.count = OnFile(s).count /\ old.requests = OnFile(s).requests
      BY <1>9, <2>1, <2>2 DEF SessionStats
    <2>4. PlacesHeld'
      <3>1. ASSUME NEW v \in DOMAIN pending' PROVE PlaceHeld(v, pending[v])'
        <4>1. PICK place : place = pending'[v]
          OBVIOUS
        <4>2. CASE v \in DOMAIN pending /\ place = pending[v]
          <5>1. PlaceHeld(v, place) /\ place.session \in StatSessions /\ place.index \in Nat \ {0}
            BY <1>14, <2>1, <4>2 DEF TelemetryInv, PlacesHeld, Holds, TelemetryTypeOK
          <5>2. CASE place.session # s
            <6>1. OnFile(place.session)' = OnFile(place.session)
              BY <2>1, <5>1, <5>2
            <6>2. PlaceHeld(v, place)'
              BY <5>1, <6>1 DEF PlaceHeld
            <6> QED
              BY <4>1, <6>2
          <5>3. CASE place.session = s
            <6>1. place.index <= Len(old.requests) /\ old.requests[place.index].toolUse = v
              BY <2>3, <5>1, <5>3 DEF PlaceHeld
            <6>2. place.index \in 1 .. Len(old.requests)
              BY <1>10, <5>1, <6>1
            <6>3. place.index <= Len(list) /\ list[place.index].toolUse = v
              BY <1>10, <1>11, <6>1, <6>2
            <6>4. OnFile(place.session)'.requests = list
              BY <1>13, <2>1, <5>3
            <6>5. PlaceHeld(v, place)'
              BY <6>3, <6>4 DEF PlaceHeld
            <6> QED
              BY <4>1, <6>5
          <5> QED
            BY <5>2, <5>3
        <4>3. CASE isListed /\ v = u /\ place = entry
          <5>1. OnFile(place.session)'.requests = list /\ place.index = Len(old.requests) + 1
            BY <1>13, <1>16, <2>1, <4>3
          <5>2. place.index <= Len(list) /\ list[place.index].toolUse = v
            BY <1>3, <1>10, <1>11, <4>3, <5>1
          <5>3. PlaceHeld(v, place)'
            BY <5>1, <5>2 DEF PlaceHeld
          <5> QED
            BY <4>1, <5>3
        <4> QED
          BY <1>17, <4>1, <4>2, <4>3
      <3> QED
        BY <3>1 DEF PlacesHeld
    <2>5. ASSUME NEW t \in StatSessions PROVE Accounts(t, OnFile(t))'
      <3>1. PICK st : st = OnFile(t)
        OBVIOUS
      <3>2. Accounts(t, st)
        BY <2>1, <3>1 DEF TelemetryInv
      <3>3. CASE t # s
        <4>1. Accounts(t, st)' /\ OnFile(t)' = st
          BY <1>1, <1>8, <2>1, <3>1, <3>2, <3>3, OtherAccounts
        <4> QED
          BY <4>1
      <3>4. CASE t = s
        <4>1. IsDecisionOf(s, record) /\ record.decision = d /\ Folded(s, record, st.total) = st.total
              /\ record.toolUse = u
          BY <1>1 DEF IsDecisionOf, Folded
        <4>2. later.total = Folded(s, record, st.total)
          BY <1>13, <2>3, <3>1, <3>4, <4>1
        <4>3. \A c \in Categories :
                later.count[c] = IF IsDecisionOf(s, record) /\ c \in Counted(record.decision)
                                 THEN st.count[c] + 1 ELSE st.count[c]
          BY <1>6, <1>13, <2>3, <3>1, <3>4, <4>1
        <4>4. st.requests = old.requests /\ Lists(s, st.requests) /\ OwnCommands(st.requests)
          BY <2>3, <3>1, <3>2, <3>4 DEF Accounts
        <4>5. Lists(s, later.requests)'
          <5>1. CASE IsListedDecision(d)
            <6>1. list = IF HasRoom(st.requests) THEN Append(st.requests, request) ELSE st.requests
              BY <1>4, <1>5, <4>4, <5>1
            <6>2. request.toolUse = record.toolUse
              BY <1>3, <4>1
            <6>3. Lists(s, list)'
              BY <1>8, <1>10, <4>1, <4>4, <5>1, <6>1, <6>2, ListGrows
            <6> QED
              BY <1>13, <6>3
          <5>2. CASE ~IsListedDecision(d)
            <6>1. list = st.requests
              BY <1>4, <1>5, <4>4, <5>2
            <6>2. Lists(s, list)'
              BY <1>8, <4>1, <4>4, <5>2, <6>1, ListStays
            <6> QED
              BY <1>13, <6>2
          <5> QED
            BY <5>1, <5>2
        <4>6. OwnCommands(later.requests)
          <5>1. \A k \in DOMAIN list : k \in 1 .. Len(old.requests) \/ list[k] = request
            BY <1>10, <1>11
          <5>2. HasOwnCommand(request)
            BY <1>3 DEF HasOwnCommand
          <5>3. \A k \in 1 .. Len(old.requests) : HasOwnCommand(old.requests[k])
            BY <1>10, <4>4 DEF OwnCommands
          <5> QED
            BY <1>11, <1>13, <5>1, <5>2, <5>3 DEF OwnCommands
        <4>7. Accounts(s, later)'
          BY <1>8, <3>2, <3>4, <4>2, <4>3, <4>5, <4>6, AccountGoesOn
        <4> QED
          BY <2>1, <3>4, <4>7
      <3> QED
        BY <3>3, <3>4
    <2> QED
      BY <2>1, <2>4, <2>5
  <1> QED
    BY <1>18, <1>19 DEF TelemetryInv

LEMMA EnrichCommandKeeps ==
  ASSUME TelemetryInv, NEW s \in StatSessions, NEW u \in ToolUses, EnrichCommand(s, u)
  PROVE  TelemetryInv'
  <1>1. PICK record : record = [kind |-> "result", session |-> s, toolUse |-> u]
    OBVIOUS
  <1>2. record \in Records /\ Receive(record) /\ received \in Seq(Records) /\ Holds
    BY <1>1 DEF EnrichCommand, Records, TelemetryInv, Holds
  <1>3. \A t : ~IsDecisionOf(t, record) /\ \A x : Folded(t, record, x) = x
    BY <1>1 DEF IsDecisionOf, Folded
  <1>4. /\ DOMAIN pending' \subseteq DOMAIN pending /\ \A v \in DOMAIN pending' : pending'[v] = pending[v]
        /\ IsFiniteSet(DOMAIN pending') /\ Cardinality(DOMAIN pending') <= maxPendingCommands
    <2>1. pending' = pending \/ pending' = [v \in DOMAIN pending \ {u} |-> pending[v]]
      BY DEF EnrichCommand, Without
    <2>2. DOMAIN pending' \subseteq DOMAIN pending /\ \A v \in DOMAIN pending' : pending'[v] = pending[v]
      BY <2>1
    <2>3. IsFiniteSet(DOMAIN pending) /\ Cardinality(DOMAIN pending) <= maxPendingCommands
          /\ maxPendingCommands \in Nat
      BY <1>2, TelemetryAssumption DEF Holds, Capped, WithinCaps
    <2>4. IsFiniteSet(DOMAIN pending') /\ Cardinality(DOMAIN pending') <= Cardinality(DOMAIN pending)
      BY <2>2, <2>3, FS_Subset
    <2>5. Cardinality(DOMAIN pending') \in Nat /\ Cardinality(DOMAIN pending) \in Nat
      BY <2>3, <2>4, FS_CardinalityType
    <2> QED
      BY <2>2, <2>3, <2>4, <2>5
  <1>5. CASE UNCHANGED <<stats, files, now, failures>>
    <2>1. Holds'
      BY <1>2, <1>4, <1>5, RecordsGrow DEF Holds, TelemetryTypeOK, WithinCaps, Capped
    <2>2. ASSUME Unharmed' PROVE InStep' /\ PlacesHeld' /\ \A t \in StatSessions : Accounts(t, OnFile(t))'
      <3>1. Unharmed /\ \A t : OnFile(t)' = OnFile(t)
        BY <1>5, <2>2 DEF Unharmed, OnFile
      <3>2. InStep'
        BY <1>5, <3>1 DEF InStep, TelemetryInv
      <3>3. PlacesHeld'
        BY <1>4, <3>1 DEF PlacesHeld, TelemetryInv, PlaceHeld
      <3>4. ASSUME NEW t \in StatSessions PROVE Accounts(t, OnFile(t))'
        <4>1. PICK st : st = OnFile(t)
          OBVIOUS
        <4>2. Accounts(t, st) /\ OnFile(t)' = st
          BY <3>1, <4>1 DEF TelemetryInv
        <4>3. Accounts(t, st)'
          BY <1>2, <1>3, <4>2, AccountStays DEF Accounts
        <4> QED
          BY <4>2, <4>3
      <3> QED
        BY <3>2, <3>3, <3>4
    <2> QED
      BY <2>1, <2>2 DEF TelemetryInv
  <1>6. CASE ~UNCHANGED <<stats, files, now, failures>>
    <2>1. PICK i : i = pending[u].index
      OBVIOUS
    <2>2. PICK old : old = stats[s]
      OBVIOUS
    <2>3. PICK later : later = [old EXCEPT !.requests[i].command = u]
      OBVIOUS
    <2>4. /\ u \in DOMAIN pending /\ pending[u].session = s /\ pending' = Without(pending, u)
          /\ s \in DOMAIN stats /\ i <= Len(old.requests) /\ Update(s, later, stats)
      BY <1>6, <2>1, <2>2, <2>3 DEF EnrichCommand, IsOwner
    <2>5. /\ old \in SessionStats /\ Len(old.requests) <= maxPermissionRequests
          /\ i \in Nat \ {0}
      BY <1>2, <2>1, <2>2, <2>4 DEF Holds, TelemetryTypeOK, WithinCaps
    <2>6. old.requests \in Seq(PermissionRequest) /\ i \in 1 .. Len(old.requests)
          /\ old.requests[i] \in PermissionRequest
      BY <2>4, <2>5 DEF SessionStats
    <2>7. PICK list : list = [old.requests EXCEPT ![i].command = u]
      OBVIOUS
    <2>8. /\ list \in Seq(PermissionRequest) /\ Len(list) = Len(old.requests)
          /\ \A k \in 1 .. Len(list) : list[k].toolUse = old.requests[k].toolUse
          /\ \A k \in 1 .. Len(list) : list[k].command = IF k = i THEN u ELSE old.requests[k].command
      <3>1. PICK request : request = [toolUse |-> old.requests[i].toolUse, command |-> u]
        OBVIOUS
      <3>2. request \in PermissionRequest /\ [old.requests[i] EXCEPT !.command = u] = request
        BY <2>6, <3>1 DEF PermissionRequest
      <3>3. list = [old.requests EXCEPT ![i] = request]
        BY <2>7, <3>2
      <3>4. /\ list \in Seq(PermissionRequest) /\ Len(list) = Len(old.requests)
            /\ \A k \in 1 .. Len(list) : list[k] = IF k = i THEN request ELSE old.requests[k]
        BY <2>6, <3>2, <3>3
      <3> QED
        BY <3>1, <3>4
    <2>9. /\ later \in SessionStats /\ later.requests = list /\ later.count = old.count
          /\ later.total = old.total
      <3>1. later = [old EXCEPT !.requests = list]
        BY <2>3, <2>5, <2>7 DEF SessionStats
      <3> QED
        BY <2>5, <2>8, <3>1 DEF SessionStats
    <2>10. HasRoomFor(stats, s) /\ Len(later.requests) <= maxPermissionRequests
      BY <1>2, <2>4, <2>5, <2>8, <2>9, AllHasRoom
    <2>11. Holds'
      BY <1>2, <1>4, <2>4, <2>9, <2>10, UpdateKeeps, RecordsGrow
      DEF Holds, TelemetryTypeOK, WithinCaps, Capped
    <2>12. ASSUME Unharmed' PROVE InStep' /\ PlacesHeld' /\ \A t \in StatSessions : Accounts(t, OnFile(t))'
      <3>1. /\ Unharmed /\ InStep' /\ OnFile(s)' = later
            /\ \A t \in StatSessions \ {s} : OnFile(t)' = OnFile(t)
        BY <2>4, <2>9, <2>10, <2>12, UpdateKeeps
      <3>2. OnFile(s) = old
        BY <2>2, <2>4, <3>1 DEF TelemetryInv, InStep, OnFile
      <3>3. ASSUME NEW v \in DOMAIN pending' PROVE PlaceHeld(v, pending[v])'
        <4>1. PICK place : place = pending'[v]
          OBVIOUS
        <4>2. PlaceHeld(v, place) /\ place.session \in StatSessions /\ place.index \in Nat \ {0}
          BY <1>2, <1>4, <3>1, <4>1 DEF TelemetryInv, PlacesHeld, Holds, TelemetryTypeOK
        <4>3. CASE place.session # s
          <5>1. OnFile(place.session)' = OnFile(place.session)
            BY <3>1, <4>2, <4>3
          <5>2. PlaceHeld(v, place)'
            BY <4>2, <5>1 DEF PlaceHeld
          <5> QED
            BY <4>1, <5>2
        <4>4. CASE place.session = s
          <5>1. place.index <= Len(old.requests) /\ old.requests[place.index].toolUse = v
            BY <3>2, <4>2, <4>4 DEF PlaceHeld
          <5>2. place.index \in 1 .. Len(list)
            BY <2>6, <2>8, <4>2, <5>1
          <5>3. place.index <= Len(list) /\ list[place.index].toolUse = v
            BY <2>8, <5>1, <5>2
          <5>4. OnFile(place.session)'.requests = list
            BY <2>9, <3>1, <4>4
          <5>5. PlaceHeld(v, place)'
            BY <5>3, <5>4 DEF PlaceHeld
          <5> QED
            BY <4>1, <5>5
        <4> QED
          BY <4>3, <4>4
      <3>4. old.requests[i].toolUse = u
        BY <2>1, <2>4, <3>1, <3>2 DEF TelemetryInv, PlacesHeld, PlaceHeld
      <3>5. ASSUME NEW t \in StatSessions PROVE Accounts(t, OnFile(t))'
        <4>1. PICK st : st = OnFile(t)
          OBVIOUS
        <4>2. Accounts(t, st)
          BY <3>1, <4>1 DEF TelemetryInv
        <4>3. CASE t # s
          <5>1. Accounts(t, st)' /\ OnFile(t)' = st
            BY <1>1, <1>2, <3>1, <4>1, <4>2, <4>3, OtherAccounts
          <5> QED
            BY <5>1
        <4>4. CASE t = s
          <5>1. OwnCommands(list)
            <6>1. DOMAIN list = 1 .. Len(list) /\ DOMAIN old.requests = 1 .. Len(list)
              BY <2>6, <2>8
            <6>2. \A k \in 1 .. Len(list) : old.requests[k].command \in {NoUse, old.requests[k].toolUse}
              BY <3>2, <4>1, <4>2, <4>4, <6>1 DEF Accounts, OwnCommands, HasOwnCommand
            <6> QED
              BY <2>8, <3>4, <6>1, <6>2 DEF OwnCommands, HasOwnCommand
          <5>2. Accounts(s, later)'
            BY <1>2, <1>3, <2>8, <2>9, <3>2, <4>1, <4>2, <4>4, <5>1, AccountStays
          <5> QED
            BY <3>1, <4>4, <5>2
        <4> QED
          BY <4>3, <4>4
      <3> QED
        BY <3>1, <3>3, <3>5 DEF PlacesHeld
    <2> QED
      BY <2>11, <2>12 DEF TelemetryInv
  <1> QED
    BY <1>5, <1>6

LEMMA RestartKeeps ==
  ASSUME TelemetryInv, TelemetryRestart \/ UNCHANGED telemetryVars
  PROVE  TelemetryInv'
  <1>1. UNCHANGED <<files, now, received, failures>>
    BY DEF TelemetryRestart, telemetryVars
  <1>2. \/ DOMAIN stats' = {} /\ DOMAIN pending' = {}
        \/ stats' = stats /\ pending' = pending
    BY DEF TelemetryRestart, telemetryVars, Nothing
  <1>3. IsFiniteSet({}) /\ Cardinality({}) = 0
    BY FS_EmptySet
  <1>4. Holds'
    BY <1>1, <1>2, <1>3, TelemetryAssumption
    DEF TelemetryInv, Holds, TelemetryTypeOK, WithinCaps, Capped
  <1>5. ASSUME Unharmed' PROVE InStep' /\ PlacesHeld' /\ \A t \in StatSessions : Accounts(t, OnFile(t))'
    <2>1. Unharmed /\ \A t : OnFile(t)' = OnFile(t)
      BY <1>1, <1>5 DEF Unharmed, OnFile
    <2>2. InStep' /\ PlacesHeld'
      BY <1>1, <1>2, <2>1 DEF TelemetryInv, InStep, PlacesHeld, PlaceHeld
    <2>3. ASSUME NEW t \in StatSessions PROVE Accounts(t, OnFile(t))'
      <3>1. PICK st : st = OnFile(t)
        OBVIOUS
      <3>2. Accounts(t, st) /\ OnFile(t)' = st
        BY <2>1, <3>1 DEF TelemetryInv
      <3>3. Accounts(t, st)'
        <4>1. Totals(t, st)'
          BY <1>1, <3>2 DEF Accounts, Totals, Reaches, IsAfter, FoldValue
        <4>2. Counts(t, st)'
          <5>1. \A c : Decided(t, c)' = Decided(t, c)
            BY <1>1 DEF Decided, IsDecisionOf, Counted
          <5>2. \A c \in Categories : st.count[c] = Cardinality(Decided(t, c)')
            BY <3>2, <5>1 DEF Accounts, Counts
          <5> QED
            BY <5>2 DEF Counts, Categories
        <4>3. Lists(t, st.requests)'
          BY <1>1, <3>2 DEF Accounts, Lists, ToList, PlaceOf, IsDecisionOf, IsListedDecision
        <4>4. OwnCommands(st.requests)'
          BY <3>2 DEF Accounts, OwnCommands, HasOwnCommand
        <4> QED
          BY <4>1, <4>2, <4>3, <4>4 DEF Accounts
      <3> QED
        BY <3>2, <3>3
    <2> QED
      BY <2>2, <2>3
  <1> QED
    BY <1>4, <1>5 DEF TelemetryInv

LEMMA NextTelemetry == TelemetryInv /\ [TelemetryNext]_telemetryVars => TelemetryInv'
  <1> SUFFICES ASSUME TelemetryInv, [TelemetryNext]_telemetryVars PROVE TelemetryInv'
    OBVIOUS
  <1>1. ASSUME NEW s \in StatSessions, NEW value \in Points, NEW isDelta \in BOOLEAN,
               Fold(s, value, isDelta)
        PROVE  TelemetryInv'
    BY <1>1, FoldKeeps
  <1>2. ASSUME NEW s \in StatSessions, NEW u \in ToolUses, EnrichCommand(s, u)
        PROVE  TelemetryInv'
    BY <1>2, EnrichCommandKeeps
  <1>3. ASSUME NEW s \in StatSessions, NEW u \in ToolUses \cup {NoUse}, NEW d \in Decisions,
               FoldDecision(s, u, d)
        PROVE  TelemetryInv'
    BY <1>3, FoldDecisionKeeps
  <1>4. CASE TelemetryRestart \/ UNCHANGED telemetryVars
    BY <1>4, RestartKeeps
  <1> QED
    BY <1>1, <1>2, <1>3, <1>4 DEF TelemetryNext

LEMMA InvTelemetry == TelemetryInv => TelemetryTypeOK /\ WithinCaps /\ StatsKept /\ CommandsMatch
  <1> SUFFICES ASSUME TelemetryInv
               PROVE  TelemetryTypeOK /\ WithinCaps /\ StatsKept /\ CommandsMatch
    OBVIOUS
  <1>1. TelemetryTypeOK /\ WithinCaps /\ received \in Seq(Records)
    BY DEF TelemetryInv, Holds
  <1>2. ASSUME Persists, failures = 0, NEW s \in StatSessions
        PROVE  Known(s) = OnFile(s) /\ Accounts(s, OnFile(s))
    BY <1>2 DEF TelemetryInv, Unharmed, InStep, Known, OnFile
  <1>3. NothingForgotten
    <2>1. ASSUME Persists, failures = 0, NEW s \in StatSessions
          PROVE  Known(s).total = Total(s)
      BY <1>1, <1>2, <2>1, TotalIs DEF Accounts, Totals
    <2>2. ASSUME Persists, failures = 0, NEW s \in StatSessions, NEW c \in Categories
          PROVE  Known(s).count[c] = Cardinality(Decided(s, c))
      BY <1>2, <2>2 DEF Accounts, Counts
    <2> QED
      BY <2>1, <2>2 DEF NothingForgotten, Decided
  <1>4. ListsTheFirst
    <2>1. ASSUME Persists, failures = 0, NEW s \in StatSessions
          PROVE  Lists(s, Known(s).requests)
      BY <1>2, <2>1 DEF Accounts
    <2> QED
      BY <2>1 DEF ListsTheFirst, Lists
  <1>5. CommandsMatch
    <2>1. ASSUME Persists, failures = 0, NEW s \in DOMAIN stats,
                 NEW k \in DOMAIN stats[s].requests
          PROVE  HasOwnCommand(stats[s].requests[k])
      <3>1. s \in StatSessions /\ Known(s) = stats[s]
        BY <1>1 DEF TelemetryTypeOK, Known
      <3> QED
        BY <1>2, <2>1, <3>1 DEF Accounts, OwnCommands
    <2> QED
      BY <2>1 DEF CommandsMatch
  <1> QED
    BY <1>1, <1>3, <1>4, <1>5 DEF StatsKept

\* The statistics stay typed and within their caps, whatever is received, evicted,
\* restored and lost (telemetry/store.go).
THEOREM TelemetryTypeCorrect == TelemetrySpec => [](TelemetryTypeOK /\ WithinCaps)
  <1>1. TelemetryInit => TelemetryInv
    BY InitTelemetry
  <1>2. TelemetryInv /\ [TelemetryNext]_telemetryVars => TelemetryInv'
    BY NextTelemetry
  <1> QED
    BY <1>1, <1>2, InvTelemetry, PTL DEF TelemetrySpec

\* Every metric, count and list of a session is that of all the records received of it,
\* over evictions and restarts, as long as no write of a file failed (statsFor,
\* restoredStats, fold, foldDecision).
THEOREM StatsKeptCorrect == TelemetrySpec => []StatsKept
  <1>1. TelemetryInit => TelemetryInv
    BY InitTelemetry
  <1>2. TelemetryInv /\ [TelemetryNext]_telemetryVars => TelemetryInv'
    BY NextTelemetry
  <1> QED
    BY <1>1, <1>2, InvTelemetry, PTL DEF TelemetrySpec

\* A command goes to the decision of its own tool use (pendingCommand, enrichCommand).
THEOREM CommandsMatchCorrect == TelemetrySpec => []CommandsMatch
  <1>1. TelemetryInit => TelemetryInv
    BY InitTelemetry
  <1>2. TelemetryInv /\ [TelemetryNext]_telemetryVars => TelemetryInv'
    BY NextTelemetry
  <1> QED
    BY <1>1, <1>2, InvTelemetry, PTL DEF TelemetrySpec

=============================================================================
