------------------------ MODULE UncommittedPoll_proofs ------------------------
(* Proofs about UncommittedPoll.  Where no two directories share a repository,  *)
(* every text on its way (in the tree, in the hook file, in a poll, in a        *)
(* session) stays with the directory it was computed in.                       *)
EXTENDS UncommittedPoll, TLAPS

OwnTexts(d) == held[d] \cup {None}

WorkIsOwn   == \A d \in Dirs : work[d] \in held[d]
HookIsOwn   == \A d \in Dirs : hook[GitDir[d]].text \in OwnTexts(d)
OutputIsOwn == \A i \in Pollers, d \in Dirs : output[i][d] \in OwnTexts(d)

IInv == PollTypeOK /\ WorkIsOwn /\ HookIsOwn /\ OutputIsOwn /\ ShownIsOwn

\* No two directories share a repository.
OwnRepos == \A d, e \in Dirs : GitDir[d] = GitDir[e] => d = e

LEMMA InitTypeOK == PollInit => PollTypeOK
  <1> USE UncommittedPollAssumption DEF PollInit
  <1> SUFFICES ASSUME PollInit PROVE PollTypeOK
    OBVIOUS
  <1>1. work \in [Dirs -> DiffTexts] /\ held \in [Dirs -> SUBSET DiffTexts]
    OBVIOUS
  <1>2. hook \in [Repos -> [text : DiffTexts \cup {None}, fresh : BOOLEAN]]
    BY DEF NoHook
  <1>3. /\ shown \in [Pollers -> [PollSessions -> DiffTexts \cup {None}]]
        /\ \A i \in Pollers, s \in PollSessions : shown[i][s] = None
    BY DEF ForAll
  <1>4. /\ lastDiff \in [Pollers -> [Repos -> DiffTexts \cup {None}]]
        /\ existing \in [Pollers -> [Dirs -> DiffTexts \cup {None}]]
        /\ output \in [Pollers -> [Dirs -> DiffTexts \cup {None}]]
        /\ pc \in [Pollers -> [Dirs -> Labels]]
    BY DEF ForAll, Labels
  <1>5. TextsExist
    BY DEF TextsExist, ForAll, NoHook
  <1> QED
    BY <1>1, <1>2, <1>3, <1>4, <1>5 DEF PollTypeOK

\* The initial states satisfy the invariant.
LEMMA InitIInv == PollInit => IInv
  <1> SUFFICES ASSUME PollInit PROVE IInv
    OBVIOUS
  <1> USE UncommittedPollAssumption
  <1>1. PollTypeOK
    BY InitTypeOK
  <1>2. WorkIsOwn
    BY DEF PollInit, WorkIsOwn
  <1>3. HookIsOwn
    BY DEF PollInit, HookIsOwn, OwnTexts, NoHook
  <1>4. OutputIsOwn /\ ShownIsOwn
    BY DEF PollInit, OutputIsOwn, ShownIsOwn, OwnTexts, ForAll
  <1> QED
    BY <1>1, <1>2, <1>3, <1>4 DEF IInv

\* A function of two arguments keeps its type when one value changes.
LEMMA ExceptType ==
  ASSUME NEW A, NEW B, NEW C, NEW f \in [A -> [B -> C]], NEW a \in A, NEW b \in B, NEW c \in C
  PROVE  /\ [f EXCEPT ![a][b] = c] \in [A -> [B -> C]]
         /\ \A u \in A, v \in B : [f EXCEPT ![a][b] = c][u][v] = IF u = a /\ v = b THEN c ELSE f[u][v]
  <1>1. [f EXCEPT ![a][b] = c] = [f EXCEPT ![a] = [f[a] EXCEPT ![b] = c]]
    OBVIOUS
  <1>2. [f[a] EXCEPT ![b] = c] \in [B -> C]
    OBVIOUS
  <1> QED
    BY <1>1, <1>2

\* A poll that goes on keeps the type of the polls.
LEMMA GotoType ==
  ASSUME PollTypeOK, NEW i \in Pollers, NEW d \in Dirs, NEW label \in Labels, PollGoto(i, d, label)
  PROVE  /\ pc' \in [Pollers -> [Dirs -> Labels]]
         /\ \A j \in Pollers, e \in Dirs :
              pc'[j][e] = IF j = i /\ e = d THEN label ELSE pc[j][e]
  <1>1. pc \in [Pollers -> [Dirs -> Labels]] /\ pc' = [pc EXCEPT ![i][d] = label]
    BY DEF PollTypeOK, PollGoto
  <1> QED
    BY <1>1, ExceptType

\* A poll that takes a text as its output changes nothing else of the outputs.
LEMMA OutputType ==
  ASSUME PollTypeOK, NEW i \in Pollers, NEW d \in Dirs, NEW text \in DiffTexts \cup {None},
         output' = output \/ output' = [output EXCEPT ![i][d] = text]
  PROVE  /\ output' \in [Pollers -> [Dirs -> DiffTexts \cup {None}]]
         /\ \A j \in Pollers, e \in Dirs :
              output'[j][e] = output[j][e] \/ (j = i /\ e = d /\ output'[j][e] = text)
  <1>1. output \in [Pollers -> [Dirs -> DiffTexts \cup {None}]]
    BY DEF PollTypeOK
  <1>2. CASE output' = output
    BY <1>1, <1>2
  <1>3. CASE output' = [output EXCEPT ![i][d] = text]
    BY <1>1, <1>3, ExceptType
  <1> QED
    BY <1>2, <1>3

\* The agents and time.
\* Each action keeps the invariant.
LEMMA EditKeepsIInv ==
  ASSUME IInv, NEW d \in Dirs, Edit(d)
  PROVE  IInv'
  <1> USE UncommittedPollAssumption DEF IInv
  <1>1. PollTypeOK'
    BY DEF Edit, PollTypeOK, TextsExist, agents, store, watcher, poll
  <1>2. (WorkIsOwn /\ HookIsOwn /\ OutputIsOwn /\ ShownIsOwn)'
    BY DEF Edit, PollTypeOK, agents, store, watcher, poll, WorkIsOwn, HookIsOwn, OutputIsOwn, ShownIsOwn, OwnTexts
  <1> QED
    BY <1>1, <1>2

LEMMA RelocateKeepsIInv ==
  ASSUME IInv, NEW d \in Dirs, Relocate(d)
  PROVE  IInv'
  <1> USE UncommittedPollAssumption DEF IInv
  <1>1. PollTypeOK'
    BY DEF Relocate, PollTypeOK, TextsExist, agents, store, watcher, poll
  <1>2. (WorkIsOwn /\ HookIsOwn /\ OutputIsOwn /\ ShownIsOwn)'
    BY DEF Relocate, PollTypeOK, agents, store, watcher, poll, WorkIsOwn, HookIsOwn, OutputIsOwn, ShownIsOwn, OwnTexts
  <1> QED
    BY <1>1, <1>2

LEMMA ActivityKeepsIInv ==
  ASSUME IInv, NEW s \in PollSessions, Activity(s)
  PROVE  IInv'
  <1> USE UncommittedPollAssumption DEF IInv
  <1>1. PollTypeOK'
    BY DEF Activity, PollTypeOK, TextsExist, agents, store, watcher, poll
  <1>2. (WorkIsOwn /\ HookIsOwn /\ OutputIsOwn /\ ShownIsOwn)'
    BY DEF Activity, PollTypeOK, agents, store, watcher, poll, WorkIsOwn, HookIsOwn, OutputIsOwn, ShownIsOwn, OwnTexts
  <1> QED
    BY <1>1, <1>2

LEMMA ExpireKeepsIInv ==
  ASSUME IInv, NEW g \in Repos, Expire(g)
  PROVE  IInv'
  <1> USE UncommittedPollAssumption DEF IInv
  <1>1. hook' \in [Repos -> [text : DiffTexts \cup {None}, fresh : BOOLEAN]]
        /\ \A h \in Repos : hook'[h].text = hook[h].text /\ (hook'[h].fresh => hook[h].fresh)
    BY DEF Expire, PollTypeOK
  <1>2. PollTypeOK'
    BY <1>1 DEF Expire, PollTypeOK, TextsExist, agents, store, watcher, poll
  <1>3. (WorkIsOwn /\ HookIsOwn /\ OutputIsOwn /\ ShownIsOwn)'
    BY <1>1 DEF Expire, PollTypeOK, agents, store, watcher, poll, WorkIsOwn, HookIsOwn,
       OutputIsOwn, ShownIsOwn, OwnTexts
  <1> QED
    BY <1>2, <1>3

LEMMA JoinKeepsIInv ==
  ASSUME IInv, NEW i \in Pollers, NEW s \in PollSessions, Join(i, s)
  PROVE  IInv'
  <1> USE UncommittedPollAssumption DEF IInv
  <1>1. PollTypeOK'
    BY DEF Join, PollTypeOK, TextsExist, agents, store, watcher, poll
  <1>2. (WorkIsOwn /\ HookIsOwn /\ OutputIsOwn /\ ShownIsOwn)'
    BY DEF Join, PollTypeOK, agents, store, watcher, poll, WorkIsOwn, HookIsOwn, OutputIsOwn, ShownIsOwn, OwnTexts
  <1> QED
    BY <1>1, <1>2

LEMMA RestartKeepsIInv ==
  ASSUME IInv, NEW i \in Pollers, PollRestart(i)
  PROVE  IInv'
  <1> USE UncommittedPollAssumption DEF IInv
  <1>1. PollTypeOK'
    <2>1. /\ known' \in [Pollers -> SUBSET PollSessions] /\ resolved' \in [Pollers -> SUBSET Dirs]
          /\ pollStarts' \in [Pollers -> 0 .. MaxPollStarts]
      BY DEF PollRestart, PollTypeOK
    <2>2. /\ shown' \in [Pollers -> [PollSessions -> DiffTexts \cup {None}]]
          /\ lastDiff' \in [Pollers -> [Repos -> DiffTexts \cup {None}]]
      BY DEF PollRestart, PollTypeOK
    <2>3. pc' \in [Pollers -> [Dirs -> Labels]]
      BY DEF PollRestart, PollTypeOK, Labels
    <2>4. \A j \in Pollers, s \in PollSessions : shown'[j][s] # None => s \in known'[j]
      BY DEF PollRestart, PollTypeOK
    <2>5. TextsExist'
      BY DEF PollRestart, PollTypeOK, TextsExist, agents
    <2> QED
      BY <2>1, <2>2, <2>3, <2>4, <2>5 DEF PollRestart, PollTypeOK, agents
  <1>2. (WorkIsOwn /\ HookIsOwn /\ OutputIsOwn /\ ShownIsOwn)'
    BY DEF PollRestart, PollTypeOK, agents, store, watcher, poll, WorkIsOwn, HookIsOwn, OutputIsOwn, ShownIsOwn, OwnTexts
  <1> QED
    BY <1>1, <1>2

LEMMA PollAllKeepsIInv ==
  ASSUME IInv, NEW i \in Pollers, PollAll(i)
  PROVE  IInv'
  <1> USE UncommittedPollAssumption DEF IInv
  <1>1. PollTypeOK'
    <2>1. pc' \in [Pollers -> [Dirs -> Labels]]
      BY DEF PollAll, PollTypeOK, Labels
    <2>2. TextsExist'
      BY DEF PollAll, PollTypeOK, TextsExist
    <2> QED
      BY <2>1, <2>2 DEF PollAll, PollTypeOK, agents, store, watcher
  <1>2. (WorkIsOwn /\ HookIsOwn /\ OutputIsOwn /\ ShownIsOwn)'
    BY DEF PollAll, PollTypeOK, Polled, agents, store, watcher, poll, WorkIsOwn, HookIsOwn, OutputIsOwn, ShownIsOwn, OwnTexts
  <1> QED
    BY <1>1, <1>2

LEMMA ResolveKeepsIInv ==
  ASSUME IInv, NEW i \in Pollers, NEW d \in Dirs, Resolve(i, d)
  PROVE  IInv'
  <1> USE UncommittedPollAssumption DEF IInv
  <1>1. pc' \in [Pollers -> [Dirs -> Labels]]
    BY GotoType DEF Resolve, Labels
  <1>2. resolved' \in [Pollers -> SUBSET Dirs]
    <2>1. resolved \in [Pollers -> SUBSET Dirs]
      BY DEF PollTypeOK
    <2>2. resolved' = resolved \/ resolved' = [resolved EXCEPT ![i] = @ \cup {d}]
      BY DEF Resolve
    <2> QED
      BY <2>1, <2>2
  <1>3. PollTypeOK'
    <2>1. \A j \in Pollers, e \in Dirs :
            pc'[j][e] = pc[j][e] \/ (j = i /\ e = d /\ pc'[j][e] \in {"read", "none"})
      BY GotoType DEF Resolve, Labels
    <2>2. TextsExist'
      <3>1. hook' = hook /\ existing' = existing /\ output' = output
        BY DEF Resolve
      <3>2. \A j \in Pollers, e \in Dirs :
              pc'[j][e] \in {"publish", "compare", "update"} => output[j][e] # None
        BY <2>1 DEF PollTypeOK, TextsExist
      <3> QED
        BY <3>1, <3>2 DEF PollTypeOK, TextsExist
    <2> QED
      BY <1>1, <1>2, <2>2 DEF Resolve, PollTypeOK, agents, store
  <1>4. (WorkIsOwn /\ HookIsOwn /\ OutputIsOwn /\ ShownIsOwn)'
    BY DEF Resolve, PollTypeOK, agents, store, WorkIsOwn, HookIsOwn, OutputIsOwn, ShownIsOwn, OwnTexts
  <1> QED
    BY <1>3, <1>4

LEMMA ReadHookKeepsIInv ==
  ASSUME IInv, NEW i \in Pollers, NEW d \in Dirs, ReadHook(i, d)
  PROVE  IInv'
  <1> USE UncommittedPollAssumption DEF IInv
  <1> DEFINE text == hook[GitDir[d]].text
  <1>1. GitDir[d] \in Repos /\ text \in OwnTexts(d) /\ text \in DiffTexts \cup {None}
    BY DEF HookIsOwn, PollTypeOK
  <1>2. pc' \in [Pollers -> [Dirs -> Labels]]
    BY GotoType DEF ReadHook, Labels
  <1>3. existing' \in [Pollers -> [Dirs -> DiffTexts \cup {None}]]
    BY <1>1, ExceptType DEF ReadHook, PollTypeOK
  <1>4. /\ output' \in [Pollers -> [Dirs -> DiffTexts \cup {None}]]
        /\ \A j \in Pollers, e \in Dirs :
             output'[j][e] = output[j][e] \/ (j = i /\ e = d /\ output'[j][e] = text)
    <2>1. output' = output \/ output' = [output EXCEPT ![i][d] = text]
      BY DEF ReadHook
    <2> QED
      BY <1>1, <2>1, OutputType
  <1>5. PollTypeOK'
    <2>1. /\ \A j \in Pollers, e \in Dirs :
               existing'[j][e] = existing[j][e] \/ (j = i /\ e = d /\ existing'[j][e] = text)
      BY <1>1, ExceptType DEF ReadHook, PollTypeOK
    <2>2. /\ pc'[i][d] = "compare" => hook[GitDir[d]].fresh /\ output'[i][d] = text
          /\ pc'[i][d] \in {"compare", "diff"}
          /\ \A j \in Pollers, e \in Dirs : (j # i \/ e # d) =>
               pc'[j][e] = pc[j][e] /\ output'[j][e] = output[j][e]
      <3>1. CASE hook[GitDir[d]].fresh
        BY <1>1, <1>4, <3>1, GotoType, ExceptType DEF ReadHook, IsFresh, PollTypeOK, Labels
      <3>2. CASE ~hook[GitDir[d]].fresh
        BY <1>4, <3>2, GotoType DEF ReadHook, IsFresh, PollTypeOK, Labels
      <3> QED
        BY <3>1, <3>2
    <2>3. TextsExist'
      BY <1>1, <2>1, <2>2 DEF ReadHook, PollTypeOK, TextsExist
    <2> QED
      BY <1>2, <1>3, <1>4, <2>3 DEF ReadHook, PollTypeOK, agents, store, watcher
  <1>6. OutputIsOwn'
    BY <1>1, <1>4 DEF ReadHook, agents, OutputIsOwn, OwnTexts
  <1>7. (WorkIsOwn /\ HookIsOwn /\ ShownIsOwn)'
    BY DEF ReadHook, agents, store, WorkIsOwn, HookIsOwn, ShownIsOwn, OwnTexts
  <1> QED
    BY <1>5, <1>6, <1>7

LEMMA GitDiffHeadKeepsIInv ==
  ASSUME IInv, NEW i \in Pollers, NEW d \in Dirs, GitDiffHead(i, d)
  PROVE  IInv'
  <1> USE UncommittedPollAssumption DEF IInv
  <1>1. work[d] \in OwnTexts(d) /\ work[d] \in DiffTexts \cup {None}
    BY DEF WorkIsOwn, OwnTexts, PollTypeOK
  <1>2. pc' \in [Pollers -> [Dirs -> Labels]]
    BY GotoType DEF GitDiffHead, Labels
  <1>3. /\ output' \in [Pollers -> [Dirs -> DiffTexts \cup {None}]]
        /\ \A j \in Pollers, e \in Dirs :
             output'[j][e] = output[j][e] \/ (j = i /\ e = d /\ output'[j][e] = work[d])
    <2>1. output' = output \/ output' = [output EXCEPT ![i][d] = work[d]]
      BY DEF GitDiffHead
    <2> QED
      BY <1>1, <2>1, OutputType
  <1>4. PollTypeOK'
    <2>1. /\ pc'[i][d] = "publish" => output'[i][d] = work[d]
          /\ pc'[i][d] \in {"publish", "none"}
          /\ \A j \in Pollers, e \in Dirs : (j # i \/ e # d) =>
               pc'[j][e] = pc[j][e] /\ output'[j][e] = output[j][e]
      <3>1. CASE d \in ready
        BY <1>1, <1>3, <3>1, GotoType, ExceptType DEF GitDiffHead, PollTypeOK, Labels
      <3>2. CASE d \notin ready
        BY <1>3, <3>2, GotoType DEF GitDiffHead, PollTypeOK, Labels
      <3> QED
        BY <3>1, <3>2
    <2>2. work[d] # None
      BY UncommittedPollAssumption DEF PollTypeOK
    <2>3. TextsExist'
      BY <2>1, <2>2 DEF GitDiffHead, PollTypeOK, TextsExist
    <2> QED
      BY <1>2, <1>3, <2>3 DEF GitDiffHead, PollTypeOK, agents, store, watcher
  <1>5. OutputIsOwn'
    BY <1>1, <1>3 DEF GitDiffHead, agents, OutputIsOwn, OwnTexts
  <1>6. (WorkIsOwn /\ HookIsOwn /\ ShownIsOwn)'
    BY DEF GitDiffHead, agents, store, WorkIsOwn, HookIsOwn, ShownIsOwn, OwnTexts
  <1> QED
    BY <1>4, <1>5, <1>6

LEMMA PublishKeepsIInv ==
  ASSUME IInv, OwnRepos, NEW i \in Pollers, NEW d \in Dirs, PublishHook(i, d)
  PROVE  IInv'
  <1> USE UncommittedPollAssumption DEF IInv
  <1> DEFINE g == GitDir[d]
  <1>1. pc' \in [Pollers -> [Dirs -> Labels]]
    BY GotoType DEF PublishHook, Labels
  <1>2. g \in Repos /\ output[i][d] \in DiffTexts \cup {None}
    BY DEF PollTypeOK
  <1>3. /\ hook' \in [Repos -> [text : DiffTexts \cup {None}, fresh : BOOLEAN]]
        /\ \A h \in Repos : hook'[h] # hook[h] =>
             h = g /\ hook'[h].text \in {hook[h].text, output[i][d]}
    <2>1. CASE hook' = [hook EXCEPT ![g] = Published(i, d, hook[g])]
      BY <1>2, <2>1 DEF Published, PollTypeOK
    <2>2. CASE hook' = hook
      BY <2>2 DEF PollTypeOK
    <2> QED
      BY <2>1, <2>2 DEF PublishHook
  <1>4. PollTypeOK'
    <2>1. output[i][d] # None /\ (existing[i][d] # None => hook[g].text # None)
      BY DEF PublishHook, PollTypeOK, TextsExist
    <2>2. \A h \in Repos : /\ hook'[h].fresh => hook'[h].text # None
                           /\ hook[h].text # None => hook'[h].text # None
      <3>1. CASE hook' = [hook EXCEPT ![g] = Published(i, d, hook[g])]
        BY <1>2, <2>1, <3>1 DEF Published, PollTypeOK, TextsExist
      <3>2. CASE hook' = hook
        BY <3>2 DEF PollTypeOK, TextsExist
      <3> QED
        BY <3>1, <3>2 DEF PublishHook
    <2>3. \A j \in Pollers, e \in Dirs :
            /\ pc'[j][e] = pc[j][e] \/ (j = i /\ e = d /\ pc'[j][e] = "compare")
            /\ GitDir[e] \in Repos
      BY GotoType DEF PublishHook, Labels
    <2>4. TextsExist'
      <3>1. \A j \in Pollers, e \in Dirs :
              existing[j][e] # None => hook'[GitDir[e]].text # None
        BY <2>2, <2>3 DEF PollTypeOK, TextsExist
      <3>2. \A j \in Pollers, e \in Dirs :
              pc'[j][e] \in {"publish", "compare", "update"} => output[j][e] # None
        BY <2>1, <2>3 DEF PollTypeOK, TextsExist
      <3> QED
        BY <2>2, <3>1, <3>2 DEF PublishHook, TextsExist
    <2> QED
      BY <1>1, <1>3, <2>4 DEF PublishHook, PollTypeOK, agents, store, watcher
  <1>5. HookIsOwn'
    BY <1>2, <1>3 DEF PublishHook, agents, HookIsOwn, OutputIsOwn, OwnRepos, OwnTexts
  <1>6. (WorkIsOwn /\ OutputIsOwn /\ ShownIsOwn)'
    BY DEF PublishHook, agents, store, WorkIsOwn, OutputIsOwn, ShownIsOwn, OwnTexts
  <1> QED
    BY <1>4, <1>5, <1>6

LEMMA CompareKeepsIInv ==
  ASSUME IInv, NEW i \in Pollers, NEW d \in Dirs, Compare(i, d)
  PROVE  IInv'
  <1> USE UncommittedPollAssumption DEF IInv
  <1>1. pc' \in [Pollers -> [Dirs -> Labels]]
    BY GotoType DEF Compare, Labels
  <1>2. lastDiff' \in [Pollers -> [Repos -> DiffTexts \cup {None}]]
    <2>1. /\ GitDir[d] \in Repos /\ output[i][d] \in DiffTexts \cup {None}
          /\ lastDiff \in [Pollers -> [Repos -> DiffTexts \cup {None}]]
      BY DEF PollTypeOK
    <2>2. CASE lastDiff' = lastDiff
      BY <2>1, <2>2
    <2>3. CASE lastDiff' = [lastDiff EXCEPT ![i][GitDir[d]] = output[i][d]]
      BY <2>1, <2>3, ExceptType
    <2> QED
      BY <2>2, <2>3 DEF Compare
  <1>3. PollTypeOK'
    <2>1. \A j \in Pollers, e \in Dirs :
            pc'[j][e] = pc[j][e] \/ (j = i /\ e = d /\ pc'[j][e] \in {"update", "none"})
      BY GotoType DEF Compare, Labels
    <2>2. TextsExist'
      <3>1. hook' = hook /\ existing' = existing /\ output' = output
        BY DEF Compare
      <3>2. \A j \in Pollers, e \in Dirs :
              pc'[j][e] \in {"publish", "compare", "update"} => output[j][e] # None
        <4>1. pc[i][d] = "compare"
          BY DEF Compare
        <4> QED
          <5>1. output[i][d] # None
            BY <4>1 DEF PollTypeOK, TextsExist
          <5>2. ASSUME NEW j \in Pollers, NEW e \in Dirs,
                       pc'[j][e] \in {"publish", "compare", "update"}
                PROVE  output[j][e] # None
            BY <2>1, <5>1, <5>2 DEF PollTypeOK, TextsExist
          <5> QED
            BY <5>2
      <3> QED
        BY <3>1, <3>2 DEF PollTypeOK, TextsExist
    <2> QED
      BY <1>1, <1>2, <2>2 DEF Compare, PollTypeOK, agents, store
  <1>4. (WorkIsOwn /\ HookIsOwn /\ OutputIsOwn /\ ShownIsOwn)'
    BY DEF Compare, agents, store, WorkIsOwn, HookIsOwn, OutputIsOwn, ShownIsOwn, OwnTexts
  <1> QED
    BY <1>3, <1>4

LEMMA UpdateKeepsIInv ==
  ASSUME IInv, NEW i \in Pollers, NEW d \in Dirs, UpdateUncommittedDiff(i, d)
  PROVE  IInv'
  <1> USE UncommittedPollAssumption DEF IInv
  <1>1. PollTypeOK'
    <2>1. pc' \in [Pollers -> [Dirs -> Labels]]
      BY GotoType DEF UpdateUncommittedDiff, Labels
    <2>2. output[i][d] \in DiffTexts \cup {None}
      BY DEF PollTypeOK
    <2>3. shown' \in [Pollers -> [PollSessions -> DiffTexts \cup {None}]]
      BY <2>2 DEF UpdateUncommittedDiff, PollTypeOK
    <2>4. \A j \in Pollers, s \in PollSessions : shown'[j][s] # None => s \in known'[j]
      BY DEF UpdateUncommittedDiff, PollTypeOK, Sharers
    <2>5. \A j \in Pollers, e \in Dirs :
            pc'[j][e] = pc[j][e] \/ (j = i /\ e = d /\ pc'[j][e] = "none")
      BY GotoType DEF UpdateUncommittedDiff, Labels
    <2>6. TextsExist'
      BY <2>5 DEF UpdateUncommittedDiff, PollTypeOK, TextsExist
    <2> QED
      BY <2>1, <2>3, <2>4, <2>6 DEF UpdateUncommittedDiff, PollTypeOK, agents, watcher
  <1>2. (WorkIsOwn /\ HookIsOwn /\ OutputIsOwn /\ ShownIsOwn)'
    BY DEF UpdateUncommittedDiff, PollTypeOK, PollGoto, Sharers, agents, store, watcher, poll, WorkIsOwn, HookIsOwn, OutputIsOwn, ShownIsOwn, OwnTexts
  <1> QED
    BY <1>1, <1>2

\* Every step keeps the invariant.
LEMMA NextKeepsIInv ==
  ASSUME OwnRepos, IInv, [PollNext]_pollVars
  PROVE  IInv'
  <1>1. ASSUME NEW d \in Dirs, Edit(d) \/ Relocate(d) PROVE IInv'
    BY <1>1, EditKeepsIInv, RelocateKeepsIInv
  <1>2. ASSUME NEW s \in PollSessions, Activity(s) PROVE IInv'
    BY <1>2, ActivityKeepsIInv
  <1>3. ASSUME NEW g \in Repos, Expire(g) PROVE IInv'
    BY <1>3, ExpireKeepsIInv
  <1>4. ASSUME NEW i \in Pollers, NEW s \in PollSessions, Join(i, s) PROVE IInv'
    BY <1>4, JoinKeepsIInv
  <1>5. ASSUME NEW i \in Pollers, PollRestart(i) \/ PollAll(i) PROVE IInv'
    BY <1>5, RestartKeepsIInv, PollAllKeepsIInv
  <1>6. ASSUME NEW i \in Pollers, NEW d \in Dirs, PollStep(i, d) PROVE IInv'
    BY <1>6, ResolveKeepsIInv, ReadHookKeepsIInv, GitDiffHeadKeepsIInv,
       PublishKeepsIInv, CompareKeepsIInv, UpdateKeepsIInv DEF PollStep
  <1>7. CASE UNCHANGED pollVars
    BY <1>7 DEF IInv, PollTypeOK, TextsExist, WorkIsOwn, HookIsOwn, OutputIsOwn, ShownIsOwn, OwnTexts,
       pollVars, agents, store, watcher, poll
  <1> QED
    BY <1>1, <1>2, <1>3, <1>4, <1>5, <1>6, <1>7 DEF PollNext

\* Where every directory has a repository of its own, a session only ever shows a diff
\* of its own directory, however many instances race to publish the hook files
\* (pollRepo, uncommittedDiff).
THEOREM DiffsStayApart ==
  ASSUME OwnRepos
  PROVE  PollSpec => [](PollTypeOK /\ ShownIsOwn)
  <1>1. PollInit => IInv
    BY InitIInv
  <1>2. IInv /\ [PollNext]_pollVars => IInv'
    BY NextKeepsIInv
  <1>3. IInv => PollTypeOK /\ ShownIsOwn
    BY DEF IInv
  <1> QED
    BY <1>1, <1>2, <1>3, PTL DEF PollSpec

=============================================================================
