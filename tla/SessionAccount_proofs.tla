------------------------- MODULE SessionAccount_proofs -------------------------
(***************************************************************************)
(* Conserved holds in every session, whatever the number of transcripts,     *)
(* requests and skills and whatever the caps.  It is inductive together with *)
(* the types of the ledger and of the log, whose length is the usage of the  *)
(* next chunk: applyRequestUsage subtracts at the recorded targets what was  *)
(* recorded there, so a record must name only totals that exist.             *)
(*                                                                         *)
(* UsageExact, which compares the totals with the transcripts, needs what   *)
(* the records and the open windows say of the log (ExactInv): a request is  *)
(* recorded with its last chunk and the windows that chunk lies in, a window *)
(* is open exactly while the lines since its invocation span, and a subagent *)
(* that found no room never finds any.                                       *)
(*                                                                         *)
(* The rest of the account (AccountInv) needs what Claude Code writes: an id *)
(* names one call, and its one result comes after it (LinesOK).  A parser's  *)
(* table then holds calls that wait, all of them while it never overflowed,  *)
(* which is what makes the counters exact; the event list is counted by kind *)
(* (EventsExact), and a retained turn is compared with the transcript of its *)
(* own scope (TurnOK).                                                       *)
(***************************************************************************)
EXTENDS SessionAccount, SequenceTheorems, FiniteSetTheorems, TLAPS

\* A log is a sequence of whatever was appended to it.
LogType ==
  /\ log = [a \in Actors |-> log[a]]
  /\ \A a \in Actors : \E S : log[a] \in Seq(S)

\* The turn of a line asks for nothing that the ledger has no place for.
GoodTurn(next) ==
  /\ next.request \in Requests \cup {NoRequest}
  /\ next.usage \in Nat /\ next.pid \in Nat

\* Every target a record names is one the snapshot has a name for.
Nameable == \A r \in Requests : counted[r].targets \subseteq UsageTargets

IInv == LogType /\ LedgerType /\ Conserved /\ Nameable

-----------------------------------------------------------------------------
\* The targets a request is recorded with are totals of the session.
LEMMA TargetsAreTotals ==
  ASSUME LedgerType, LogType, NEW a \in Actors, NEW next
  PROVE  /\ WindowFor(a, next) \in 0 .. MaxSkills
         /\ TargetsOf(a, next) \in SUBSET Totals
<1>0. MaxSkills \in Nat BY AccountAssumption
<1>1. Len(skills) \in Nat /\ Len(skills) <= MaxSkills
  BY DEF LedgerType
<1>2. active[a] \in 0 .. Len(skills)
  BY DEF LedgerType
<1>3. OpenSkill(a).index \in 0 .. MaxSkills
  <2>1. CASE Len(skills) >= MaxSkills
    BY <2>1, <1>0 DEF OpenSkill
  <2>2. CASE ~(Len(skills) >= MaxSkills)
    BY <2>2, <1>0, <1>1 DEF OpenSkill
  <2>3. QED BY <2>1, <2>2
<1>4. WindowFor(a, next) \in 0 .. MaxSkills
  BY <1>0, <1>1, <1>2, <1>3 DEF WindowFor
<1>5. TargetsOf(a, next) \in SUBSET Totals
  BY <1>0, <1>4 DEF TargetsOf, Totals
<1>6. QED BY <1>4, <1>5

\* Opening and closing windows keeps the list of skills and its indexes.
LEMMA WindowsType ==
  ASSUME LedgerType, LogType, NEW a \in Actors, NEW next, Windows(a, next)
  PROVE  /\ skills' \in Seq([actor : Actors, line : Nat]) /\ Len(skills') <= MaxSkills
         /\ active' \in [Actors -> 0 .. Len(skills')]
         /\ WindowFor(a, next) \in 0 .. Len(skills')
         /\ Len(skills) <= Len(skills')
<1>0. MaxSkills \in Nat BY AccountAssumption
<1>1. skills \in Seq([actor : Actors, line : Nat]) /\ Len(skills) \in Nat
      /\ Len(skills) <= MaxSkills /\ active \in [Actors -> 0 .. Len(skills)]
  BY DEF LedgerType
<1>2. PICK S : log[a] \in Seq(S)
  BY DEF LogType
<1>3. Len(log[a]) + 1 \in Nat
  BY <1>2
<1>4. OpenSkill(a).skills \in Seq([actor : Actors, line : Nat])
      /\ Len(OpenSkill(a).skills) <= MaxSkills
      /\ Len(skills) <= Len(OpenSkill(a).skills)
      /\ OpenSkill(a).index \in 0 .. Len(OpenSkill(a).skills)
  <2>1. CASE Len(skills) >= MaxSkills
    BY <2>1, <1>0, <1>1 DEF OpenSkill
  <2>2. CASE ~(Len(skills) >= MaxSkills)
    <3>1. [actor |-> a, line |-> Len(log[a]) + 1] \in [actor : Actors, line : Nat]
      BY <1>3
    <3>2. Append(skills, [actor |-> a, line |-> Len(log[a]) + 1]) \in Seq([actor : Actors, line : Nat])
          /\ Len(Append(skills, [actor |-> a, line |-> Len(log[a]) + 1])) = Len(skills) + 1
      BY <3>1, <1>1
    <3>3. QED BY <3>2, <2>2, <1>0, <1>1 DEF OpenSkill
  <2>3. QED BY <2>1, <2>2
<1>5. CASE OpensSkill(next)
  <2>1. skills' = OpenSkill(a).skills
    BY <1>5 DEF Windows
  <2>2. WindowFor(a, next) \in 0 .. Len(skills') /\ Len(skills) <= Len(skills') /\ Len(skills') \in Nat
    BY <1>4, <1>5, <2>1 DEF WindowFor
  <2>6. WindowAfter(a, next) \in 0 .. Len(skills')
    BY <2>2 DEF WindowAfter
  <2>3. active' = [active EXCEPT ![a] = WindowAfter(a, next)]
    BY DEF Windows
  <2>4. active' \in [Actors -> 0 .. Len(skills')]
    BY <2>2, <2>3, <2>6, <1>1
  <2>5. QED BY <2>1, <2>2, <2>4, <1>4
<1>6. CASE ~OpensSkill(next)
  <2>1. skills' = skills
    BY <1>6 DEF Windows
  <2>2. WindowFor(a, next) \in 0 .. Len(skills) /\ WindowAfter(a, next) \in 0 .. Len(skills)
    BY <1>1, <1>6 DEF WindowAfter, WindowFor
  <2>3. active' = [active EXCEPT ![a] = WindowAfter(a, next)]
    BY DEF Windows
  <2>4. QED BY <2>1, <2>2, <2>3, <1>1
<1>7. QED BY <1>5, <1>6

\* Accounting a turn keeps the totals and the records in step.
LEMMA UsageStep ==
  ASSUME LedgerType, LogType, Conserved, NEW a \in Actors, NEW next, GoodTurn(next),
         AddUsage(a, next)
  PROVE  /\ usage' \in [Totals -> [Requests -> Int]]
         /\ counted' \in [Requests -> [amount : Nat, targets : SUBSET Totals]]
         /\ Conserved'
<1>0. /\ usage \in [Totals -> [Requests -> Int]]
      /\ counted \in [Requests -> [amount : Nat, targets : SUBSET Totals]]
  BY DEF LedgerType
<1>1. CASE next.request = NoRequest
  BY <1>0, <1>1 DEF AddUsage, Conserved
<1>2. CASE next.request # NoRequest
  <2>1. next.request \in Requests /\ next.usage \in Nat
    BY <1>2 DEF GoodTurn
  <2>2. TargetsOf(a, next) \in SUBSET Totals
    BY TargetsAreTotals
  <2> DEFINE r == next.request
             amount == next.usage
             targets == TargetsOf(a, next)
             taken(t) == IF t \in counted[r].targets THEN counted[r].amount ELSE 0
             given(t) == IF t \in targets THEN amount ELSE 0
  <2>3. counted' = [counted EXCEPT ![r] = [amount |-> amount, targets |-> targets]]
    BY <1>2 DEF AddUsage
  <2>4. usage' = [t \in Totals |-> [usage[t] EXCEPT ![r] = @ - taken(t) + given(t)]]
    BY <1>2 DEF AddUsage, ApplyRequestUsage
  <2>5. counted[r].amount \in Nat
    BY <1>0, <2>1
  <2>6. \A t \in Totals : taken(t) \in Nat /\ given(t) \in Nat
    BY <2>1, <2>5
  <2> HIDE DEF taken, given
  <2>7. \A t \in Totals : usage[t] \in [Requests -> Int]
    BY <1>0
  <2>8. usage' \in [Totals -> [Requests -> Int]]
    BY <2>1, <2>4, <2>6, <2>7
  <2>9. counted' \in [Requests -> [amount : Nat, targets : SUBSET Totals]]
    <3>1. [amount |-> amount, targets |-> targets] \in [amount : Nat, targets : SUBSET Totals]
      BY <2>1, <2>2
    <3>2. QED BY <3>1, <2>3, <1>0
  <2>10. ASSUME NEW t \in Totals, NEW q \in Requests
         PROVE  usage'[t][q] = IF t \in counted'[q].targets THEN counted'[q].amount ELSE 0
    <3>1. CASE q = r
      <4>1. usage'[t][q] = usage[t][r] - taken(t) + given(t)
        BY <3>1, <2>1, <2>4, <2>7
      <4>2. usage[t][r] = taken(t)
        BY <2>1 DEF Conserved, taken
      <4>3. usage'[t][q] = given(t)
        BY <4>1, <4>2, <2>6
      <4>4. counted'[q] = [amount |-> amount, targets |-> targets]
        BY <3>1, <2>1, <2>3, <1>0
      <4>5. QED BY <4>3, <4>4 DEF given
    <3>2. CASE q # r
      <4>1. usage'[t][q] = usage[t][q]
        BY <3>2, <2>4, <2>7
      <4>2. counted'[q] = counted[q]
        BY <3>2, <2>3, <1>0
      <4>3. QED BY <4>1, <4>2 DEF Conserved
    <3>3. QED BY <3>1, <3>2
  <2>11. QED BY <2>8, <2>9, <2>10 DEF Conserved
<1>3. QED BY <1>1, <1>2


-----------------------------------------------------------------------------
\* What a line adds to the log.
LEMMA AppendsToLog ==
  ASSUME LogType, NEW a \in Actors, NEW line, log' = [log EXCEPT ![a] = Append(@, line)]
  PROVE  LogType'
<1>1. log' = [b \in Actors |-> IF b = a THEN Append(log[a], line) ELSE log[b]]
  BY DEF LogType
<1>2. ASSUME NEW b \in Actors PROVE \E S : log'[b] \in Seq(S)
  <2>1. PICK S : log[b] \in Seq(S)
    BY DEF LogType
  <2>2. log[b] \in Seq(S \cup {line})
    BY <2>1
  <2>3. Append(log[b], line) \in Seq(S \cup {line})
    BY <2>2
  <2>4. log'[b] \in Seq(S \cup {line})
    BY <1>1, <2>2, <2>3
  <2>5. QED BY <2>4
<1>3. QED BY <1>1, <1>2 DEF LogType

\* The records still name only what the snapshot can name.
LEMMA NameableStep ==
  ASSUME LedgerType, LogType, Nameable, NEW a \in Actors, NEW next, GoodTurn(next),
         Windows(a, next), AddUsage(a, next), subs' = subs \cup ({a} \cap Agents)
  PROVE  Nameable'
<1>1. /\ skills \in Seq([actor : Actors, line : Nat])
      /\ skills' \in Seq([actor : Actors, line : Nat])
      /\ WindowFor(a, next) \in 0 .. Len(skills') /\ Len(skills) <= Len(skills')
  BY WindowsType DEF LedgerType
<1>2. DOMAIN skills = 1 .. Len(skills) /\ DOMAIN skills' = 1 .. Len(skills')
      /\ Len(skills) \in Nat /\ Len(skills') \in Nat
  BY <1>1
<1>3. UsageTargets \subseteq UsageTargets'
  BY <1>1, <1>2 DEF UsageTargets
<1>4. a = Main \/ a \in subs'
  BY DEF Actors
<1>5. TargetsOf(a, next) \subseteq UsageTargets'
  BY <1>1, <1>2, <1>4 DEF TargetsOf, UsageTargets
<1>6. counted \in [Requests -> [amount : Nat, targets : SUBSET Totals]]
  BY DEF LedgerType
<1>7. \A r \in Requests : counted'[r].targets \in {counted[r].targets, TargetsOf(a, next)}
  BY <1>6 DEF AddUsage, GoodTurn
<1>8. QED BY <1>3, <1>5, <1>7 DEF Nameable

LEMMA NameableKept ==
  ASSUME LedgerType, LogType, Nameable, NEW a \in Actors, NEW next, Windows(a, next),
         counted' = counted, subs \subseteq subs'
  PROVE  Nameable'
<1>1. /\ skills \in Seq([actor : Actors, line : Nat])
      /\ skills' \in Seq([actor : Actors, line : Nat]) /\ Len(skills) <= Len(skills')
  BY WindowsType DEF LedgerType
<1>2. UsageTargets \subseteq UsageTargets'
  BY <1>1 DEF UsageTargets
<1>3. QED BY <1>2 DEF Nameable

LEMMA ReadStep ==
  ASSUME IInv, NEW a \in Actors, NEW line, Read(a, line),
         GoodTurn(Parse(parsers[a], line, a).turn)
  PROVE  IInv'
<1> DEFINE next == Parse(parsers[a], line, a).turn
<1>1. LogType /\ LedgerType /\ Conserved /\ Nameable /\ GoodTurn(next)
  BY DEF IInv
<1> HIDE DEF next
<1>2. log' = [log EXCEPT ![a] = Append(@, line)]
  BY DEF Read
<1>3. LogType'
  BY <1>1, <1>2, AppendsToLog
<1>4. /\ usage \in [Totals -> [Requests -> Int]]
      /\ counted \in [Requests -> [amount : Nat, targets : SUBSET Totals]]
      /\ subs \in SUBSET Agents /\ promptId \in Nat
  BY <1>1 DEF LedgerType
<1>5. CASE a = Main
  <2>1. AddTurn(next)
    BY <1>5 DEF Read, next
  <2>2. AddUsage(Main, next) /\ Windows(Main, next) /\ Boundary(next) /\ subs' = subs
    BY <2>1 DEF AddTurn
  <2>3. promptId' \in Nat
    BY <2>2, <1>1, <1>4 DEF Boundary, GoodTurn
  <2>4. subs' = subs \cup ({a} \cap Agents)
    BY <1>5, <2>2, ParserAssumption
  <2>5. Nameable'
    BY <1>1, <1>5, <2>2, <2>4, NameableStep
  <2>6. QED
    BY <1>1, <1>3, <1>4, <1>5, <2>2, <2>3, <2>5, UsageStep, WindowsType DEF IInv, LedgerType
<1>6. CASE a # Main
  <2>1. AddSubagentTurn(a, next) /\ a \in Agents
    BY <1>6 DEF Read, next, Actors
  <2>2. Windows(a, next) /\ promptId' = promptId
    BY <2>1 DEF AddSubagentTurn
  <2>3. CASE a \in subs \/ Cardinality(subs) < MaxSubagents
    <3>1. AddUsage(a, next) /\ subs' = subs \cup {a}
      BY <2>1, <2>3 DEF AddSubagentTurn
    <3>2. Nameable'
      BY <1>1, <2>1, <2>2, <3>1, NameableStep
    <3>3. QED
      BY <1>1, <1>3, <1>4, <2>1, <2>2, <3>1, <3>2, UsageStep, WindowsType DEF IInv, LedgerType
  <2>4. CASE ~(a \in subs \/ Cardinality(subs) < MaxSubagents)
    <3>1. UNCHANGED <<usage, counted, subs>>
      BY <2>1, <2>4 DEF AddSubagentTurn
    <3>2. Conserved'
      BY <1>1, <3>1 DEF Conserved
    <3>3. Nameable'
      BY <1>1, <2>2, <3>1, NameableKept
    <3>4. QED BY <1>1, <1>3, <1>4, <2>2, <3>1, <3>2, <3>3, WindowsType DEF IInv, LedgerType
  <2>5. QED BY <2>3, <2>4
<1>7. QED BY <1>5, <1>6

\* A meta file opens no window and accounts nothing.
LEMMA MetaStep ==
  ASSUME IInv, NEW a \in Agents, ReadMeta(a)
  PROVE  IInv'
<1> DEFINE spawn == [Event("subagent_spawned", a, a) EXCEPT !.agent = a]
           next == [NoTurn EXCEPT !.events = <<spawn>>]
<1>1. LogType /\ LedgerType /\ Conserved /\ Nameable /\ a \in Actors
  BY DEF IInv, Actors
<1>2. AddSubagentTurn(a, next) /\ log' = log
  BY DEF ReadMeta
<1>3. next.request = NoRequest
  BY DEF NoTurn
<1> HIDE DEF next
<1>4. AddUsage(a, next) <=> UNCHANGED <<usage, counted>>
  BY <1>3 DEF AddUsage
<1>5. Windows(a, next) /\ UNCHANGED <<usage, counted, promptId>> /\ subs' \in SUBSET Agents
      /\ subs \subseteq subs'
  BY <1>1, <1>2, <1>4 DEF AddSubagentTurn, LedgerType
<1>6. LogType' /\ Conserved'
  BY <1>1, <1>2, <1>5 DEF LogType, Conserved
<1>7. Nameable'
  BY <1>1, <1>5, NameableKept
<1>8. QED BY <1>1, <1>5, <1>6, <1>7, WindowsType DEF IInv, LedgerType

\* A cold phase changes nothing: the snapshot names every target and every window.
LEMMA RewarmStep ==
  ASSUME IInv, Rewarm
  PROVE  IInv' /\ counted' = counted /\ active' = active
<1>1. /\ counted \in [Requests -> [amount : Nat, targets : SUBSET Totals]]
      /\ skills \in Seq([actor : Actors, line : Nat]) /\ active \in [Actors -> 0 .. Len(skills)]
  BY DEF IInv, LedgerType
<1>2. counted' = counted
  <2>1. \A r \in Requests : [counted[r] EXCEPT !.targets = @ \cap UsageTargets] = counted[r]
    <3>1. TAKE r \in Requests
    <3>2. counted[r] \in [amount : Nat, targets : SUBSET Totals]
      BY <1>1
    <3>3. counted[r].targets \cap UsageTargets = counted[r].targets
      BY DEF IInv, Nameable
    <3>4. QED BY <3>2, <3>3
  <2>2. counted' = [r \in Requests |-> counted[r]]
    BY <2>1 DEF Rewarm
  <2>3. QED BY <2>2, <1>1
<1>3. active' = active
  <2>1. \A a \in Actors : (IF active[a] \in DOMAIN skills THEN active[a] ELSE 0) = active[a]
    BY <1>1
  <2>2. active' = [a \in Actors |-> active[a]]
    BY <2>1 DEF Rewarm
  <2>3. QED BY <2>2, <1>1
<1>4. UNCHANGED <<log, usage, skills, subs, promptId>>
  BY DEF Rewarm, transcripts
<1>5. IInv'
  BY <1>2, <1>3, <1>4 DEF IInv, LogType, LedgerType, Conserved, Nameable, UsageTargets
<1>6. QED BY <1>2, <1>3, <1>5

-----------------------------------------------------------------------------
LEMMA InitIInv ==
  ASSUME Init PROVE IInv
<1>1. LogType
  BY DEF Init, LogType
<1>2. LedgerType
  <2>1. MaxSkills \in Nat BY AccountAssumption
  <2>2. skills = <<>> /\ Len(skills) = 0 /\ skills \in Seq([actor : Actors, line : Nat])
    BY DEF Init
  <2>3. QED BY <2>1, <2>2 DEF Init, LedgerType
<1>3. Conserved
  BY DEF Init, Conserved
<1>4. Nameable
  BY DEF Init, Nameable
<1>5. QED BY <1>1, <1>2, <1>3, <1>4 DEF IInv

LEMMA NextIInv ==
  ASSUME IInv, [Next]_vars PROVE IInv'
<1>1. CASE UNCHANGED vars
  BY <1>1 DEF IInv, LogType, LedgerType, Conserved, Nameable, UsageTargets, vars, transcripts, ledger
<1>2. ASSUME NEW a \in Actors, WritePrompt(a) PROVE IInv'
  <2>1. PICK p \in Prompts[a] :
          Read(a, [type |-> "prompt", pid |-> p.pid, slash |-> p.slash, mode |-> p.mode])
    BY <1>2 DEF WritePrompt
  <2> DEFINE line == [type |-> "prompt", pid |-> p.pid, slash |-> p.slash, mode |-> p.mode]
  <2>2. p.pid \in Nat
    BY AccountAssumption
  <2>3. Parse(parsers[a], line, a) = ParsePrompt(parsers[a], line, a)
    BY DEF Parse
  <2>4. GoodTurn(ParsePrompt(parsers[a], line, a).turn)
    BY <2>2 DEF ParsePrompt, GoodTurn, EventTurn, SidechainTurn, NoTurn
  <2>5. QED BY <2>1, <2>3, <2>4, ReadStep
<1>3. ASSUME NEW a \in Actors, WriteChunk(a) PROVE IInv'
  <2>a. PICK r \in Requests, c \in Chunks[a] : \E use \in ToolUses(a, c.tool) :
          Read(a, [type |-> "chunk", request |-> r, usage |-> Len(log[a]) + 1,
                   use |-> use, text |-> c.text, stop |-> c.stop, model |-> c.model])
    BY <1>3 DEF WriteChunk
  <2>1. PICK use \in ToolUses(a, c.tool) :
          Read(a, [type |-> "chunk", request |-> r, usage |-> Len(log[a]) + 1,
                   use |-> use, text |-> c.text, stop |-> c.stop, model |-> c.model])
    BY <2>a
  <2> DEFINE line == [type |-> "chunk", request |-> r, usage |-> Len(log[a]) + 1,
                      use |-> use, text |-> c.text, stop |-> c.stop, model |-> c.model]
  <2>2. PICK S : log[a] \in Seq(S)
    BY DEF IInv, LogType
  <2>3. Len(log[a]) + 1 \in Nat
    BY <2>2
  <2>4. Parse(parsers[a], line, a) = ParseChunk(parsers[a], line, a)
    BY DEF Parse
  <2>5. GoodTurn(ParseChunk(parsers[a], line, a).turn)
    BY <2>3 DEF ParseChunk, GoodTurn, NoTurn
  <2>6. QED BY <2>1, <2>4, <2>5, ReadStep
<1>4. ASSUME NEW a \in Actors, WriteResult(a) PROVE IInv'
  <2>1. PICK use \in UsesIn(a), denial \in Denials, isError \in BOOLEAN :
          Read(a, [type |-> "result", id |-> use.id, denial |-> denial, isError |-> isError])
    BY <1>4 DEF WriteResult
  <2> DEFINE line == [type |-> "result", id |-> use.id, denial |-> denial, isError |-> isError]
  <2>2. Parse(parsers[a], line, a) = ParseResult(parsers[a], line, a)
    BY DEF Parse
  <2>3. GoodTurn(ParseResult(parsers[a], line, a).turn)
    BY DEF ParseResult, GoodTurn, EventTurn, SidechainTurn, NoTurn
  <2>4. QED BY <2>1, <2>2, <2>3, ReadStep
<1>5. ASSUME NEW a \in Agents, ReadMeta(a) PROVE IInv'
  BY <1>5, MetaStep
<1>6. CASE WriteNotice
  <2>1. PICK kind \in Notices : Read(Main, [type |-> "notice", notice |-> kind])
    BY <1>6 DEF WriteNotice
  <2> DEFINE line == [type |-> "notice", notice |-> kind]
  <2>2. Parse(parsers[Main], line, Main) = ParseNotice(parsers[Main], line)
    BY DEF Parse
  <2>3. GoodTurn(ParseNotice(parsers[Main], line).turn)
    BY DEF ParseNotice, GoodTurn, EventTurn, NoTurn
  <2>4. Main \in Actors
    BY DEF Actors
  <2>5. QED BY <2>1, <2>2, <2>3, <2>4, ReadStep
<1>7. CASE Rewarm
  BY <1>7, RewarmStep
<1>8. QED BY <1>1, <1>2, <1>3, <1>4, <1>5, <1>6, <1>7 DEF Next

\* For every number of transcripts, requests and skills, whatever the caps and the
\* order in which the files are read, over any number of cold phases: each total
\* holds exactly what the requests that name it last counted.
THEOREM UsageConserved == Spec => [](LedgerType /\ Conserved)
<1>1. Init => IInv
  BY InitIInv
<1>2. IInv /\ [Next]_vars => IInv'
  BY NextIInv
<1>3. IInv => LedgerType /\ Conserved
  BY DEF IInv
<1>4. QED BY <1>1, <1>2, <1>3, PTL DEF Spec

\* A cold phase is invisible: restoring the snapshot gives back every record and
\* every open window (newSessionSnapshot, sessionSnapshot.restore).
THEOREM RewarmIsInvisible == Spec => [][Rewarm => UNCHANGED vars]_vars
<1>1. Init => IInv
  BY InitIInv
<1>2. IInv /\ [Next]_vars => IInv'
  BY NextIInv
<1>3. IInv /\ [Next]_vars => [Rewarm => UNCHANGED vars]_vars
  BY RewarmStep DEF Rewarm, vars, ledger
<1>4. QED BY <1>1, <1>2, <1>3, PTL DEF Spec

-----------------------------------------------------------------------------
(* Numbers: the largest of a bounded set of them, without an induction rule. *)

\* A set of naturals that is not empty has a least element, and, below, a bounded one a
\* largest.
LEMMA NatMin ==
  ASSUME NEW T \in SUBSET Nat, T # {}
  PROVE  \E m \in T : \A n \in T : m <= n
<1>1. PICK m \in T : \A n \in T : ~ (<<n, m>> \in OpToRel(<, Nat))
  BY NatLessThanWellFounded, WFMin, Zenon
<1>2. \A n \in T : ~ (n < m)
  BY <1>1 DEF OpToRel
<1> QED
  BY <1>2

LEMMA NatMax ==
  ASSUME NEW b \in Nat, NEW T \in SUBSET (0 .. b), T # {}
  PROVE  \E m \in T : \A n \in T : n <= m
<1> DEFINE U == {u \in 0 .. b : b - u \in T}
<1>1. PICK t \in T : TRUE
  OBVIOUS
<1>2. b - t \in 0 .. b /\ b - (b - t) = t
  BY <1>1
<1>3. U \in SUBSET Nat /\ b - t \in U
  BY <1>2
<1>4. PICK u \in U : \A v \in U : u <= v
  BY <1>3, NatMin
<1>5. ASSUME NEW n \in T
      PROVE  n <= b - u
  <2>1. b - n \in 0 .. b /\ b - (b - n) = n /\ n \in 0 .. b /\ u \in 0 .. b
    OBVIOUS
  <2>2. u <= b - n
    BY <1>4, <2>1
  <2> QED
    BY <2>1, <2>2
<1> QED
  BY <1>4, <1>5

\* What Max chooses is the element that no other exceeds.
LEMMA MaxIs ==
  ASSUME NEW T \in SUBSET Int, NEW x \in T, \A y \in T : y <= x
  PROVE  Max(T) = x
<1>1. \A z \in T : (\A y \in T : z >= y) => z = x
  OBVIOUS
<1>2. \A y \in T : x >= y
  OBVIOUS
<1> QED
  BY <1>1, <1>2 DEF Max

LEMMA MaxOf ==
  ASSUME NEW b \in Nat, NEW T \in SUBSET (0 .. b), T # {}
  PROVE  Max(T) \in T /\ \A y \in T : y <= Max(T)
<1>1. PICK x \in T : \A y \in T : y <= x
  BY NatMax
<1> QED
  BY <1>1, MaxIs

-----------------------------------------------------------------------------
(* What the parser makes of a line, as far as the ledger looks at it.        *)

InvokesLine(a, line) ==
  \/ line.type = "chunk" /\ line.use # NoTool /\ line.use.name = "Skill"
  \/ a = Main /\ line.type = "prompt" /\ line.slash

IsPrompt(line) == line.type = "prompt"
Stops(line)    == line.type = "chunk" /\ line.stop

TurnOf(a, line, next) ==
  /\ OpensSkill(next) <=> InvokesLine(a, line)
  /\ a = Main => /\ next.role = "user" /\ next.text <=> IsPrompt(line)
                 /\ IsPrompt(line) => next.pid = line.pid
                 /\ next.stop <=> Stops(line)
  /\ line.type = "chunk" => /\ next.request = line.request /\ next.request \in Requests
                            /\ next.usage = Len(log[a]) + 1
  /\ line.type # "chunk" => next.request = NoRequest

LEMMA PairOfEvents ==
  ASSUME NEW d, NEW e
  PROVE  /\ <<d>> \o <<e>> = <<d, e>> /\ <<d>> \o <<>> = <<d>>
         /\ <<>> \o <<e>> = <<e>> /\ <<>> \o <<>> = <<>>
         /\ DOMAIN <<d, e>> = {1, 2} /\ <<d, e>>[1] = d /\ <<d, e>>[2] = e
         /\ DOMAIN <<e>> = {1} /\ <<e>>[1] = e
<1>1. /\ <<d>> \o <<>> = <<d>> /\ <<>> \o <<e>> = <<e>> /\ <<>> \o <<>> = <<>>
      /\ DOMAIN <<d, e>> = {1, 2} /\ <<d, e>>[1] = d /\ <<d, e>>[2] = e
      /\ DOMAIN <<e>> = {1} /\ <<e>>[1] = e
  OBVIOUS
<1>2. /\ <<d>> \o <<e>> \in Seq({d, e}) /\ Len(<<d>> \o <<e>>) = 2
      /\ (<<d>> \o <<e>>)[1] = d /\ (<<d>> \o <<e>>)[2] = e
  OBVIOUS
<1>3. <<d, e>> \in Seq({d, e}) /\ Len(<<d, e>>) = 2
  OBVIOUS
<1>4. <<d>> \o <<e>> = <<d, e>>
  <2>1. \A i \in 1 .. Len(<<d>> \o <<e>>) : (<<d>> \o <<e>>)[i] = <<d, e>>[i]
    BY <1>1, <1>2
  <2> QED
    BY <1>2, <1>3, <2>1, SeqEqual
<1> QED
  BY <1>1, <1>4

LEMMA PromptTurn ==
  ASSUME NEW a \in Actors, NEW p \in Prompts[a],
         NEW line, line = [type |-> "prompt", pid |-> p.pid, slash |-> p.slash, mode |-> p.mode]
  PROVE  TurnOf(a, line, Parse(parsers[a], line, a).turn)
<1> DEFINE next == ParsePrompt(parsers[a], line, a).turn
<1>1. Parse(parsers[a], line, a).turn = next /\ line.type = "prompt"
  BY DEF Parse
<1>2. CASE a = Main
  <2>1. /\ next.events = ModeEvents(parsers[a], line) \o SlashCommandEvents(line)
        /\ next.role = "user" /\ next.text = TRUE /\ next.pid = line.pid /\ next.stop = FALSE
        /\ next.request = NoRequest
    BY <1>2 DEF ParsePrompt, NoTurn
  <2>2. OpensSkill(next) <=> line.slash
    <3> DEFINE mode == Event("mode", Main, NoTool)
               skill == Event("skill", Main, NoTool)
    <3>1. ModeEvents(parsers[a], line) \in {<<>>, <<mode>>}
      BY DEF ModeEvents
    <3>2. SlashCommandEvents(line) = IF line.slash THEN <<skill>> ELSE <<>>
      BY DEF SlashCommandEvents
    <3>3. mode.kind = "mode" /\ skill.kind = "skill"
      BY DEF Event
    <3> HIDE DEF mode, skill
    <3>4. CASE line.slash
      <4>0. /\ <<mode>> \o <<skill>> = <<mode, skill>> /\ <<>> \o <<skill>> = <<skill>>
            /\ SlashCommandEvents(line) = <<skill>>
        BY <3>2, <3>4, PairOfEvents
      <4>1. next.events \in {<<skill>>, <<mode, skill>>}
        BY <2>1, <3>1, <4>0
      <4>2. \E n \in DOMAIN next.events : next.events[n] = skill
        BY <4>1, PairOfEvents
      <4> QED
        BY <3>4, <4>2, <3>3 DEF OpensSkill
    <3>5. CASE ~line.slash
      <4>1. next.events \in {<<>>, <<mode>>}
        BY <2>1, <3>1, <3>2, <3>5, PairOfEvents
      <4>2. \A n \in DOMAIN next.events : next.events[n] = mode
        BY <4>1
      <4> QED
        BY <3>5, <4>2, <3>3 DEF OpensSkill
    <3> QED
      BY <3>4, <3>5
  <2> QED
    BY <1>1, <1>2, <2>1, <2>2 DEF TurnOf, InvokesLine, IsPrompt, Stops
<1>3. CASE a # Main
  <2>1. next.events = <<>> /\ next.request = NoRequest
    BY <1>3 DEF ParsePrompt, SidechainTurn, EventTurn, NoTurn
  <2> QED
    BY <1>1, <1>3, <2>1 DEF TurnOf, InvokesLine, OpensSkill
<1> QED
  BY <1>2, <1>3

LEMMA ChunkTurn ==
  ASSUME NEW a \in Actors, NEW r \in Requests, NEW c, NEW use, NEW line,
         line = [type |-> "chunk", request |-> r, usage |-> Len(log[a]) + 1,
                 use |-> use, text |-> c.text, stop |-> c.stop, model |-> c.model]
  PROVE  TurnOf(a, line, Parse(parsers[a], line, a).turn)
<1> DEFINE next == ParseChunk(parsers[a], line, a).turn
<1>1. Parse(parsers[a], line, a).turn = next /\ line.type = "chunk"
  BY DEF Parse
<1>2. /\ next.events = SkillEvents(line, a) /\ next.role = "assistant"
      /\ next.stop = line.stop /\ next.request = line.request /\ next.usage = line.usage
  BY DEF ParseChunk, NoTurn
<1>3. OpensSkill(next) <=> line.use # NoTool /\ line.use.name = "Skill"
  BY <1>2 DEF OpensSkill, SkillEvents, Event
<1> QED
  BY <1>1, <1>2, <1>3 DEF TurnOf, InvokesLine, IsPrompt, Stops

LEMMA ResultTurn ==
  ASSUME NEW a \in Actors, NEW id, NEW denial, NEW isError, NEW line,
         line = [type |-> "result", id |-> id, denial |-> denial, isError |-> isError]
  PROVE  TurnOf(a, line, Parse(parsers[a], line, a).turn)
<1> DEFINE next == ParseResult(parsers[a], line, a).turn
           uses == PendingUse(parsers[a].pending, line.id)
<1>1. Parse(parsers[a], line, a).turn = next /\ line.type = "result"
  BY DEF Parse
<1>2. /\ next.events = ResultEvents(uses, line, a) /\ next.request = NoRequest
      /\ next.stop = FALSE
      /\ a = Main => next.role = ""
  BY DEF ParseResult, EventTurn, SidechainTurn, NoTurn
<1> DEFINE shown == ResultEvents(uses, line, a)
<1>a. \A kind, tool : Event(kind, a, tool).kind = kind
  BY DEF Event
<1>b. DenialEvent(line, a).kind \in {"cancelled", "denied"}
  BY <1>a DEF DenialEvent
<1>3. shown = <<>> \/ \E e : shown = <<e>> /\ e.kind # "skill"
  <2>1. CASE line.denial # "" /\ ~IsPlanVerdict(uses)
    BY <2>1, <1>b DEF ResultEvents
  <2>2. ASSUME NEW use
        PROVE  \/ ToolResultEvents(line, use, a) = <<>>
               \/ \E e : ToolResultEvents(line, use, a) = <<e>> /\ e.kind # "skill"
    <3>1. CASE use.name = "ExitPlanMode"
      BY <3>1, <1>a DEF ToolResultEvents
    <3>2. CASE use.name = "Agent"
      BY <3>2, <1>a DEF ToolResultEvents
    <3>3. CASE use.name \notin {"ExitPlanMode", "Agent"}
      BY <3>3 DEF ToolResultEvents
    <3> QED
      BY <3>1, <3>2, <3>3
  <2> QED
    BY <2>1, <2>2 DEF ResultEvents
<1>4. ~OpensSkill(next)
  <2>1. \A n \in DOMAIN shown : shown[n].kind # "skill"
    BY <1>3, PairOfEvents
  <2> QED
    BY <1>2, <2>1 DEF OpensSkill
<1> HIDE DEF shown, next
<1> QED
  BY <1>1, <1>2, <1>4 DEF TurnOf, InvokesLine, IsPrompt, Stops

LEMMA NoticeTurn ==
  ASSUME NEW kind \in Notices, NEW line, line = [type |-> "notice", notice |-> kind]
  PROVE  TurnOf(Main, line, Parse(parsers[Main], line, Main).turn)
<1> DEFINE next == ParseNotice(parsers[Main], line).turn
<1>1. Parse(parsers[Main], line, Main).turn = next /\ line.type = "notice"
  BY DEF Parse
<1>2. /\ next.events = <<Event(kind, Main, NoTool)>> /\ next.request = NoRequest
      /\ next.stop = FALSE /\ next.role = ""
  BY DEF ParseNotice, EventTurn, NoTurn
<1>3. kind # "skill"
  BY AccountAssumption DEF Kinds
<1>4. ~OpensSkill(next)
  <2> DEFINE e == Event(kind, Main, NoTool)
  <2>1. next.events = <<e>> /\ e.kind # "skill"
    BY <1>2, <1>3 DEF Event
  <2> HIDE DEF e, next
  <2>2. \A n \in DOMAIN next.events : next.events[n] = e
    BY <2>1
  <2> QED
    BY <2>1, <2>2 DEF OpensSkill
<1> HIDE DEF next
<1> QED
  BY <1>1, <1>2, <1>4 DEF TurnOf, InvokesLine, IsPrompt, Stops

-----------------------------------------------------------------------------
(* What the windows and the records say of the log.                          *)

\* A subagent the session has no room for is read but not accounted.
Live(a) == a = Main \/ a \in subs

\* The window a skill opened at line n is still open after the last line read.
OpenAfter(a, n) ==
  /\ SpansTo(a, n, Len(log[a]))
  /\ a = Main => ~Stops(log[a][Len(log[a])])

SpanningAt(a, m) == {i \in DOMAIN skills : skills[i].actor = a /\ SpansTo(a, skills[i].line, m)}

SkillLines == \A i \in DOMAIN skills : skills[i].line \in 1 .. Len(log[skills[i].actor])

WindowsExact ==
  \A a \in Actors : \A i \in DOMAIN skills :
    active[a] = i <=> skills[i].actor = a /\ OpenAfter(a, skills[i].line)

PromptExact == promptId = LastPid(Len(log[Main]) + 1)

\* Once there was no room for a subagent there is none any more.
RoomGone ==
  /\ IsFiniteSet(subs)
  /\ \A b \in Agents \ subs : log[b] # <<>> => ~(Cardinality(subs) < MaxSubagents)

CountedExact ==
  \A r \in Requests :
    /\ \A a \in Actors :
         Live(a) /\ ChunksOf(a, r) # {} =>
           /\ counted[r].amount = LastChunk(a, r)
           /\ counted[r].targets = {a} \cup SpanningAt(a, LastChunk(a, r))
    /\ (\A a \in Actors : Live(a) => ChunksOf(a, r) = {}) => counted[r].targets = {}

ExactInv == SkillLines /\ WindowsExact /\ PromptExact /\ RoomGone /\ CountedExact

Appended(a, line) == log' = [log EXCEPT ![a] = Append(@, line)]

-----------------------------------------------------------------------------
\* The lines of a log are numbered from 1.
LEMMA LogLines ==
  ASSUME LogType
  PROVE  \A a \in Actors : Len(log[a]) \in Nat /\ DOMAIN log[a] = 1 .. Len(log[a])
BY DEF LogType

\* A line read is the next of its own transcript and changes no other.
LEMMA AppendedLines ==
  ASSUME LogType, NEW a \in Actors, NEW line, Appended(a, line)
  PROVE  /\ Len(log'[a]) = Len(log[a]) + 1 /\ log'[a][Len(log[a]) + 1] = line
         /\ \A k \in 1 .. Len(log[a]) : log'[a][k] = log[a][k]
         /\ \A b \in Actors \ {a} : log'[b] = log[b]
         /\ LogType'
<1>1. PICK S : log[a] \in Seq(S)
  BY DEF LogType
<1>2. log[a] \in Seq(S \cup {line})
  BY <1>1
<1>3. log'[a] = Append(log[a], line) /\ \A b \in Actors \ {a} : log'[b] = log[b]
  BY DEF Appended, LogType
<1>4. LogType'
  BY AppendsToLog DEF Appended
<1> QED
  BY <1>2, <1>3, <1>4

\* The submission before a line that was read stays the same.
LEMMA PidStable ==
  ASSUME LogType, NEW a \in Actors, NEW line, Appended(a, line),
         NEW k \in Nat, k <= Len(log[Main]) + 1
  PROVE  LastPid(k)' = LastPid(k)
<1> DEFINE before == {m \in 1 .. k - 1 : log[Main][m].type = "prompt"}
           after == {m \in 1 .. k - 1 : log'[Main][m].type = "prompt"}
<1>1. Main \in Actors /\ Len(log[Main]) \in Nat
  BY LogLines DEF Actors
<1>2. \A m \in 1 .. k - 1 : log'[Main][m] = log[Main][m]
  BY <1>1, AppendedLines
<1>3. after = before
  BY <1>2
<1>4. LastPid(k) = IF before = {} THEN 0 ELSE log[Main][Max(before)].pid
  BY DEF LastPid
<1>5. LastPid(k)' = IF after = {} THEN 0 ELSE log'[Main][Max(after)].pid
  BY DEF LastPid
<1>6. before # {} => Max(before) \in 1 .. k - 1
  <2>1. before \in SUBSET (0 .. k)
    OBVIOUS
  <2> QED
    BY <2>1, MaxOf
<1> HIDE DEF before, after
<1> QED
  BY <1>2, <1>3, <1>4, <1>5, <1>6

\* Reading a line does not change what windows span up to an earlier one.
LEMMA SpansStable ==
  ASSUME LogType, NEW a \in Actors, NEW line, Appended(a, line),
         NEW b \in Actors, NEW n \in Nat \ {0}, NEW m \in Nat, m <= Len(log[b])
  PROVE  SpansTo(b, n, m)' <=> SpansTo(b, n, m)
<1>1. Len(log[b]) \in Nat
  BY LogLines
<1>2. \A k \in n .. m : log'[b][k] = log[b][k]
  BY <1>1, AppendedLines
<1>3. \A k \in n .. m : Invokes(b, k)' <=> Invokes(b, k)
  BY <1>2 DEF Invokes
<1>4. b = Main => \A k \in n .. m : LastPid(k)' = LastPid(k)
  BY <1>1, PidStable
<1>5. \A k \in n + 1 .. m : k \in n .. m
  OBVIOUS
<1>6. \A k \in n .. m - 1 : k \in n .. m
  OBVIOUS
<1> QED
  BY <1>2, <1>3, <1>4, <1>5, <1>6 DEF SpansTo, WithinPrompt

\* A window spans the new line when it was open and the line neither invokes another
\* skill nor starts another submission.
LEMMA SpansNext ==
  ASSUME LogType, NEW a \in Actors, NEW line, Appended(a, line),
         NEW L, L = Len(log[a]), NEW n \in 1 .. L
  PROVE  SpansTo(a, n, L + 1)' <=>
           /\ OpenAfter(a, n) /\ ~InvokesLine(a, line)
           /\ a = Main /\ IsPrompt(line) => line.pid = LastPid(Len(log[Main]) + 1)
<1>1. L \in Nat /\ n \in Nat /\ n >= 1 /\ n <= L
  BY LogLines
<1>2. /\ log'[a][L + 1] = line /\ \A k \in 1 .. L : log'[a][k] = log[a][k]
  BY AppendedLines
<1>3. Invokes(a, L + 1)' <=> InvokesLine(a, line)
  BY <1>2 DEF Invokes, InvokesLine
<1>4. \A k \in n .. L : Invokes(a, k)' <=> Invokes(a, k)
  BY <1>1, <1>2 DEF Invokes
<1>5. a = Main => \A k \in n .. L + 1 : LastPid(k)' = LastPid(k)
  BY <1>1, PidStable
<1>6. (\A k \in n + 1 .. L + 1 : ~Invokes(a, k)') <=>
        (\A k \in n + 1 .. L : ~Invokes(a, k)) /\ ~InvokesLine(a, line)
  <2>1. \A k : k \in n + 1 .. L + 1 <=> k \in n + 1 .. L \/ k = L + 1
    BY <1>1
  <2>2. \A k \in n + 1 .. L : k \in n .. L
    BY <1>1
  <2> QED
    BY <2>1, <2>2, <1>3, <1>4
<1>7. ASSUME a = Main
      PROVE  (\A k \in n + 1 .. L + 1 : log'[a][k].type = "prompt" => log'[a][k].pid = LastPid(k)') <=>
               /\ \A k \in n + 1 .. L : log[a][k].type = "prompt" => log[a][k].pid = LastPid(k)
               /\ IsPrompt(line) => line.pid = LastPid(L + 1)
  <2>1. \A k : k \in n + 1 .. L + 1 <=> k \in n + 1 .. L \/ k = L + 1
    BY <1>1
  <2>2. \A k \in n + 1 .. L : k \in n .. L + 1 /\ k \in 1 .. L
    BY <1>1
  <2>3. L + 1 \in n .. L + 1
    BY <1>1
  <2>4. \A k \in n + 1 .. L :
          (log'[a][k].type = "prompt" => log'[a][k].pid = LastPid(k)') <=>
          (log[a][k].type = "prompt" => log[a][k].pid = LastPid(k))
    BY <2>2, <1>2, <1>5, <1>7
  <2>5. (log'[a][L + 1].type = "prompt" => log'[a][L + 1].pid = LastPid(L + 1)') <=>
        (IsPrompt(line) => line.pid = LastPid(L + 1))
    BY <2>3, <1>2, <1>5, <1>7 DEF IsPrompt
  <2> QED
    BY <2>1, <2>4, <2>5
<1>8. (\A k \in n .. L : log'[a][k].type = "chunk" => ~log'[a][k].stop) <=>
        /\ \A k \in n .. L - 1 : log[a][k].type = "chunk" => ~log[a][k].stop
        /\ ~Stops(log[a][L])
  <2>1. \A k : k \in n .. L <=> k \in n .. L - 1 \/ k = L
    BY <1>1
  <2>2. \A k \in n .. L : k \in 1 .. L
    BY <1>1
  <2> QED
    BY <2>1, <2>2, <1>2 DEF Stops
<1>9. SpansTo(a, n, L + 1)' <=>
        /\ n <= L + 1 /\ \A k \in n + 1 .. L + 1 : ~Invokes(a, k)'
        /\ a = Main =>
             /\ \A k \in n + 1 .. L + 1 : log'[a][k].type = "prompt" => log'[a][k].pid = LastPid(k)'
             /\ \A k \in n .. L + 1 - 1 : log'[a][k].type = "chunk" => ~log'[a][k].stop
  BY DEF SpansTo, WithinPrompt
<1>10. L + 1 - 1 = L /\ n <= L + 1
  BY <1>1
<1>11. OpenAfter(a, n) <=>
        /\ \A k \in n + 1 .. L : ~Invokes(a, k)
        /\ a = Main =>
             /\ \A k \in n + 1 .. L : log[a][k].type = "prompt" => log[a][k].pid = LastPid(k)
             /\ \A k \in n .. L - 1 : log[a][k].type = "chunk" => ~log[a][k].stop
             /\ ~Stops(log[a][L])
  BY <1>1 DEF OpenAfter, SpansTo, WithinPrompt
<1> QED
  BY <1>6, <1>7, <1>8, <1>9, <1>10, <1>11

-----------------------------------------------------------------------------
(* The windows after a turn.                                                 *)

\* The list of skills a turn leaves: one more, at the line it came from, or the same.
LEMMA SkillsNext ==
  ASSUME LedgerType, LogType, NEW a \in Actors, NEW next, Windows(a, next)
  PROVE  /\ Len(skills) \in Nat /\ DOMAIN skills = 1 .. Len(skills)
         /\ DOMAIN skills' = 1 .. Len(skills') /\ Len(skills') \in Nat
         /\ \A i \in DOMAIN skills : i \in DOMAIN skills' /\ skills'[i] = skills[i]
         /\ \/ skills' = skills
            \/ /\ Len(skills') = Len(skills) + 1 /\ OpensSkill(next)
               /\ skills'[Len(skills) + 1] = [actor |-> a, line |-> Len(log[a]) + 1]
               /\ WindowFor(a, next) = Len(skills) + 1
         /\ OpensSkill(next) /\ skills' = skills => WindowFor(a, next) = 0
<1> DEFINE new == [actor |-> a, line |-> Len(log[a]) + 1]
<1>1. skills \in Seq([actor : Actors, line : Nat]) /\ Len(skills) \in Nat
  BY DEF LedgerType
<1>2. Len(log[a]) + 1 \in Nat
  BY LogLines
<1>3. new \in [actor : Actors, line : Nat]
  BY <1>2
<1> HIDE DEF new
<1>4. /\ Append(skills, new) \in Seq([actor : Actors, line : Nat])
      /\ Len(Append(skills, new)) = Len(skills) + 1 /\ Append(skills, new)[Len(skills) + 1] = new
      /\ \A i \in 1 .. Len(skills) : Append(skills, new)[i] = skills[i]
  BY <1>1, <1>3
<1>5. CASE OpensSkill(next) /\ Len(skills) >= MaxSkills
  BY <1>5, <1>1 DEF Windows, OpenSkill, WindowFor
<1>6. CASE OpensSkill(next) /\ ~(Len(skills) >= MaxSkills)
  <2>1. skills' = Append(skills, new) /\ WindowFor(a, next) = Len(skills) + 1
    BY <1>6 DEF Windows, OpenSkill, WindowFor, new
  <2>2. skills' # skills
    BY <1>1, <1>4, <2>1
  <2> QED
    BY <1>1, <1>4, <1>6, <2>1, <2>2 DEF new
<1>7. CASE ~OpensSkill(next)
  BY <1>7, <1>1 DEF Windows
<1> QED
  BY <1>5, <1>6, <1>7

\* The window that a turn is accounted to is the one that spans its line.
LEMMA WindowForIs ==
  ASSUME LedgerType, LogType, SkillLines, WindowsExact, PromptExact,
         NEW a \in Actors, NEW line, NEW next, TurnOf(a, line, next),
         Appended(a, line), Windows(a, next), NEW L, L = Len(log[a]),
         NEW i \in DOMAIN skills', NEW n, n = skills'[i].line
  PROVE  skills'[i].actor = a /\ SpansTo(a, n, L + 1)' <=> i = WindowFor(a, next)
<1>1. L \in Nat
  BY LogLines
<1>2. CASE i \in DOMAIN skills
  <2>1. skills'[i] = skills[i] /\ i \in 1 .. Len(skills) /\ Len(skills) \in Nat
    BY <1>2, SkillsNext
  <2>2. skills[i].actor = a => (SpansTo(a, n, L + 1)' <=>
                 /\ OpenAfter(a, n) /\ ~InvokesLine(a, line)
                 /\ a = Main /\ IsPrompt(line) => line.pid = LastPid(Len(log[Main]) + 1))
    <3>1. skills[i].actor = a => n \in 1 .. L
      BY <1>2, <2>1 DEF SkillLines
    <3> QED
      BY <3>1, SpansNext
  <2>3. skills[i].actor = a /\ OpenAfter(a, n) <=> active[a] = i
    BY <1>2, <2>1 DEF WindowsExact
  <2>4. CASE OpensSkill(next)
    <3>1. InvokesLine(a, line)
      BY <2>4 DEF TurnOf
    <3>2. WindowFor(a, next) \in {0, Len(skills) + 1}
      BY <2>4, SkillsNext
    <3>3. WindowFor(a, next) # i
      BY <2>1, <3>2
    <3> QED
      BY <2>1, <2>2, <3>1, <3>3
  <2>5. CASE ~OpensSkill(next)
    <3>1. ~InvokesLine(a, line)
      BY <2>5 DEF TurnOf
    <3>2. a = Main => (ClosesSkill(next) <=> IsPrompt(line) /\ line.pid # LastPid(Len(log[Main]) + 1))
      BY DEF TurnOf, ClosesSkill, PromptExact
    <3>3. WindowFor(a, next) = IF a = Main /\ ClosesSkill(next) THEN 0 ELSE active[a]
      BY <2>5 DEF WindowFor
    <3>4. i # 0
      BY <2>1
    <3> QED
      BY <2>1, <2>2, <2>3, <3>1, <3>2, <3>3, <3>4
  <2> QED
    BY <2>4, <2>5
<1>3. CASE i \notin DOMAIN skills
  <2>1. skills' # skills
    BY <1>3
  <2>2. /\ Len(skills') = Len(skills) + 1 /\ WindowFor(a, next) = Len(skills) + 1
        /\ skills'[Len(skills) + 1] = [actor |-> a, line |-> L + 1]
    BY <2>1, SkillsNext
  <2>3. i \in 1 .. Len(skills') /\ i \notin 1 .. Len(skills) /\ Len(skills) \in Nat
    BY <1>3, SkillsNext
  <2>4. i = Len(skills) + 1
    BY <2>2, <2>3
  <2>5. skills'[i].actor = a /\ n = L + 1
    BY <2>2, <2>4
  <2>6. SpansTo(a, n, L + 1)'
    BY <1>1, <2>5 DEF SpansTo, WithinPrompt
  <2> QED
    BY <2>2, <2>4, <2>5, <2>6
<1> QED
  BY <1>2, <1>3

\* A skill is opened at a line that its transcript then has.
LEMMA SkillLinesStep ==
  ASSUME LedgerType, LogType, SkillLines,
         NEW a \in Actors, NEW line, NEW next, Appended(a, line), Windows(a, next)
  PROVE  SkillLines'
<1>1. ASSUME NEW i \in DOMAIN skills'
      PROVE  skills'[i].line \in 1 .. Len(log'[skills'[i].actor])
  <2>0. \A b \in Actors : Len(log[b]) \in Nat
    BY LogLines
  <2>1. CASE i \in DOMAIN skills
    <3>1. skills'[i] = skills[i] /\ skills[i].line \in 1 .. Len(log[skills[i].actor])
      BY <2>1, SkillsNext DEF SkillLines
    <3>2. skills[i].actor \in Actors
      <4> DEFINE Opened == [actor : Actors, line : Nat]
      <4>1. skills \in Seq(Opened)
        BY DEF LedgerType
      <4> HIDE DEF Opened
      <4>2. skills[i] \in Opened
        BY <2>1, <4>1
      <4> QED
        BY <4>2 DEF Opened
    <3>3. Len(log[skills[i].actor]) <= Len(log'[skills[i].actor]) /\ Len(log'[skills[i].actor]) \in Nat
      BY <2>0, <3>2, AppendedLines
    <3> QED
      BY <2>0, <3>1, <3>2, <3>3
  <2>2. CASE i \notin DOMAIN skills
    <3>1. /\ Len(skills') = Len(skills) + 1
          /\ skills'[Len(skills) + 1] = [actor |-> a, line |-> Len(log[a]) + 1]
      BY <2>2, SkillsNext
    <3>2. i = Len(skills) + 1
      BY <2>2, <3>1, SkillsNext
    <3> QED
      BY <2>0, <3>1, <3>2, AppendedLines
  <2> QED
    BY <2>1, <2>2
<1> QED
  BY <1>1 DEF SkillLines

LEMMA WindowsExactStep ==
  ASSUME LedgerType, LogType, SkillLines, WindowsExact, PromptExact,
         NEW a \in Actors, NEW line, NEW next, TurnOf(a, line, next),
         Appended(a, line), Windows(a, next)
  PROVE  WindowsExact'
<1> SUFFICES ASSUME NEW b \in Actors, NEW i \in DOMAIN skills', NEW n, n = skills'[i].line
             PROVE  active'[b] = i <=> skills'[i].actor = b /\ OpenAfter(b, n)'
  BY DEF WindowsExact
<1>0. \A c \in Actors : Len(log[c]) \in Nat
  BY LogLines
<1>1. active' = [active EXCEPT ![a] = WindowAfter(a, next)] /\ active \in [Actors -> 0 .. Len(skills)]
  BY DEF Windows, LedgerType
<1>2. CASE b = a
  <2>1. PICK L : L = Len(log[a])
    OBVIOUS
  <2>2. skills'[i].actor = a /\ SpansTo(a, n, L + 1)' <=> i = WindowFor(a, next)
    BY <2>1, WindowForIs
  <2>3. Len(log'[a]) = L + 1 /\ log'[a][L + 1] = line
    BY <2>1, AppendedLines
  <2>4. OpenAfter(a, n)' <=> SpansTo(a, n, L + 1)' /\ (a = Main => ~Stops(line))
    BY <2>3 DEF OpenAfter
  <2>5. active'[a] = IF a = Main /\ Stops(line) THEN 0 ELSE WindowFor(a, next)
    BY <1>1 DEF WindowAfter, TurnOf
  <2>6. i # 0
    <3>1. DOMAIN skills' = 1 .. Len(skills')
      BY SkillsNext
    <3> QED
      BY <3>1
  <2> QED
    BY <1>2, <2>2, <2>4, <2>5, <2>6
<1>3. CASE b # a
  <2>1. active'[b] = active[b] /\ log'[b] = log[b]
    BY <1>1, <1>3, AppendedLines
  <2>2. CASE i \in DOMAIN skills
    <3>1. skills'[i] = skills[i] /\ (active[b] = i <=> skills[i].actor = b /\ OpenAfter(b, n))
      BY <2>2, SkillsNext DEF WindowsExact
    <3>2. CASE skills[i].actor = b
      <4>1. PICK m : m = Len(log[b])
        OBVIOUS
      <4>2. n \in Nat \ {0} /\ m \in Nat
        BY <1>0, <2>2, <3>1, <3>2, <4>1 DEF SkillLines
      <4>3. SpansTo(b, n, m)' <=> SpansTo(b, n, m)
        BY <4>1, <4>2, SpansStable
      <4>4. OpenAfter(b, n)' <=> OpenAfter(b, n)
        BY <2>1, <4>1, <4>3 DEF OpenAfter
      <4> QED
        BY <2>1, <3>1, <4>4
    <3> QED
      BY <2>1, <3>1, <3>2
  <2>3. CASE i \notin DOMAIN skills
    <3>1. i = Len(skills) + 1 /\ skills'[i].actor = a
      <4>1. skills' # skills
        BY <2>3
      <4>2. /\ Len(skills') = Len(skills) + 1
            /\ skills'[Len(skills) + 1] = [actor |-> a, line |-> Len(log[a]) + 1]
        BY <4>1, SkillsNext
      <4>3. i \in 1 .. Len(skills') /\ i \notin 1 .. Len(skills) /\ Len(skills) \in Nat
        BY <2>3, SkillsNext
      <4> QED
        BY <4>2, <4>3
    <3>2. active[b] # i
      BY <1>1, <3>1, SkillsNext
    <3> QED
      BY <1>3, <2>1, <3>1, <3>2
  <2> QED
    BY <2>2, <2>3
<1> QED
  BY <1>2, <1>3

\* The prompt id is that of the last prompt of the main transcript.
LEMMA PidNext ==
  ASSUME LogType, NEW line, Appended(Main, line), NEW L, L = Len(log[Main])
  PROVE  LastPid(L + 2)' = IF IsPrompt(line) THEN line.pid ELSE LastPid(L + 1)
<1> DEFINE before == {m \in 1 .. L + 1 - 1 : log[Main][m].type = "prompt"}
           after == {m \in 1 .. L + 2 - 1 : log'[Main][m].type = "prompt"}
<1>1. Main \in Actors /\ L \in Nat /\ L + 1 - 1 = L /\ L + 2 - 1 = L + 1
  BY LogLines DEF Actors
<1>2. /\ log'[Main][L + 1] = line
      /\ \A m \in 1 .. L : log'[Main][m] = log[Main][m]
  BY <1>1, AppendedLines
<1>3. LastPid(L + 1) = IF before = {} THEN 0 ELSE log[Main][Max(before)].pid
  BY DEF LastPid
<1>4. LastPid(L + 2)' = IF after = {} THEN 0 ELSE log'[Main][Max(after)].pid
  BY DEF LastPid
<1>5. CASE IsPrompt(line)
  <2>1. L + 1 \in after /\ \A m \in after : m <= L + 1
    BY <1>1, <1>2, <1>5 DEF IsPrompt
  <2>2. after \in SUBSET Int
    OBVIOUS
  <2>3. Max(after) = L + 1
    BY <1>1, <2>1, <2>2, MaxIs
  <2> QED
    BY <1>2, <1>4, <1>5, <2>1, <2>3
<1>6. CASE ~IsPrompt(line)
  <2>1. after = before
    BY <1>1, <1>2, <1>6 DEF IsPrompt
  <2>2. before # {} => Max(before) \in 1 .. L
    <3>1. before \in SUBSET (0 .. L)
      BY <1>1
    <3> QED
      BY <1>1, <3>1, MaxOf
  <2> HIDE DEF before, after
  <2> QED
    BY <1>2, <1>3, <1>4, <1>6, <2>1, <2>2
<1> QED
  BY <1>5, <1>6

\* promptId follows the prompts of the main transcript.
LEMMA PromptStep ==
  ASSUME LogType, PromptExact, NEW a \in Actors, NEW line, NEW next, TurnOf(a, line, next),
         Appended(a, line), IF a = Main THEN Boundary(next) ELSE promptId' = promptId
  PROVE  PromptExact'
<1>1. PICK L : L = Len(log[Main])
  OBVIOUS
<1>2. Main \in Actors /\ L \in Nat
  BY <1>1, LogLines DEF Actors
<1>3. CASE a = Main
  <2>1. Len(log'[Main]) + 1 = L + 2
    BY <1>1, <1>2, <1>3, AppendedLines
  <2>2. LastPid(L + 2)' = IF IsPrompt(line) THEN line.pid ELSE promptId
    BY <1>1, <1>3, PidNext DEF PromptExact
  <2>3. promptId' = IF IsPrompt(line) THEN line.pid ELSE promptId
    BY <1>3 DEF Boundary, TurnOf
  <2> QED
    BY <2>1, <2>2, <2>3 DEF PromptExact
<1>4. CASE a # Main
  <2>1. log'[Main] = log[Main]
    BY <1>2, <1>4, AppendedLines
  <2>2. LastPid(L + 1)' = LastPid(L + 1)
    BY <1>1, <1>2, PidStable
  <2> QED
    BY <1>1, <1>4, <2>1, <2>2 DEF PromptExact
<1> QED
  BY <1>3, <1>4

-----------------------------------------------------------------------------
(* The chunks of a request after a line.                                     *)

\* The last chunk of a request is a line of the transcript.
LEMMA ChunksBound ==
  ASSUME LogType, NEW b \in Actors, NEW r
  PROVE  /\ ChunksOf(b, r) \in SUBSET (1 .. Len(log[b]))
         /\ ChunksOf(b, r) = {} => LastChunk(b, r) = 0
         /\ ChunksOf(b, r) # {} => LastChunk(b, r) \in 1 .. Len(log[b])
<1>1. Len(log[b]) \in Nat /\ ChunksOf(b, r) \in SUBSET (1 .. Len(log[b]))
  BY LogLines DEF ChunksOf
<1>2. ASSUME ChunksOf(b, r) = {}
      PROVE  LastChunk(b, r) = 0
  <2>1. {0} \cup ChunksOf(b, r) = {0}
    BY <1>2
  <2> QED
    BY <2>1, MaxIs DEF LastChunk
<1>3. ASSUME ChunksOf(b, r) # {}
      PROVE  LastChunk(b, r) \in 1 .. Len(log[b])
  <2>1. {0} \cup ChunksOf(b, r) \in SUBSET (0 .. Len(log[b])) /\ {0} \cup ChunksOf(b, r) # {}
    BY <1>1
  <2>2. LastChunk(b, r) \in {0} \cup ChunksOf(b, r)
        /\ \A k \in ChunksOf(b, r) : k <= LastChunk(b, r)
    BY <1>1, <2>1, MaxOf DEF LastChunk
  <2>3. PICK k \in ChunksOf(b, r) : TRUE
    BY <1>3
  <2> QED
    BY <1>1, <2>2, <2>3
<1> QED
  BY <1>1, <1>2, <1>3

\* What one more line adds to the chunks of a request.
LEMMA ChunksNext ==
  ASSUME LogType, NEW a \in Actors, NEW line, Appended(a, line), NEW b \in Actors, NEW r
  PROVE  /\ b = a /\ line.type = "chunk" /\ line.request = r =>
              ChunksOf(b, r)' # {} /\ LastChunk(b, r)' = Len(log[a]) + 1
         /\ ~(b = a /\ line.type = "chunk" /\ line.request = r) =>
              ChunksOf(b, r)' = ChunksOf(b, r) /\ LastChunk(b, r)' = LastChunk(b, r)
<1>1. /\ Len(log[a]) \in Nat /\ DOMAIN log[a] = 1 .. Len(log[a])
      /\ DOMAIN log'[a] = 1 .. Len(log[a]) + 1
      /\ log'[a][Len(log[a]) + 1] = line
      /\ \A k \in 1 .. Len(log[a]) : log'[a][k] = log[a][k]
  <2>1. Len(log'[a]) = Len(log[a]) + 1 /\ LogType'
    BY AppendedLines
  <2>2. DOMAIN log'[a] = 1 .. Len(log'[a])
    BY <2>1 DEF LogType
  <2> QED
    BY <2>1, <2>2, LogLines, AppendedLines
<1>2. ASSUME b = a, line.type = "chunk", line.request = r
      PROVE  ChunksOf(b, r)' # {} /\ LastChunk(b, r)' = Len(log[a]) + 1
  <2>1. /\ Len(log[a]) + 1 \in ChunksOf(b, r)'
        /\ \A k \in {0} \cup ChunksOf(b, r)' : k \in Int /\ k <= Len(log[a]) + 1
    BY <1>1, <1>2 DEF ChunksOf
  <2>2. Max({0} \cup ChunksOf(b, r)') = Len(log[a]) + 1
    BY <2>1, MaxIs
  <2> QED
    BY <2>1, <2>2 DEF LastChunk
<1>3. ASSUME ~(b = a /\ line.type = "chunk" /\ line.request = r)
      PROVE  ChunksOf(b, r)' = ChunksOf(b, r) /\ LastChunk(b, r)' = LastChunk(b, r)
  <2>1. ChunksOf(b, r)' = ChunksOf(b, r)
    <3>1. CASE b = a
      BY <1>1, <1>3, <3>1 DEF ChunksOf
    <3>2. CASE b # a
      BY <3>2, AppendedLines DEF ChunksOf
    <3> QED
      BY <3>1, <3>2
  <2> QED
    BY <2>1 DEF LastChunk
<1> QED
  BY <1>2, <1>3

\* A request counted before keeps its windows: a skill invoked now spans none of it.
LEMMA SpanningStable ==
  ASSUME LedgerType, LogType, SkillLines,
         NEW a \in Actors, NEW line, NEW next, Appended(a, line), Windows(a, next),
         NEW b \in Actors, NEW m \in 1 .. Len(log[b])
  PROVE  SpanningAt(b, m)' = SpanningAt(b, m)
<1>0. Len(log[b]) \in Nat /\ Len(log[a]) \in Nat
  BY LogLines
<1>1. ASSUME NEW i \in DOMAIN skills', NEW n, n = skills'[i].line
      PROVE  skills'[i].actor = b /\ SpansTo(b, n, m)' <=> i \in SpanningAt(b, m)
  <2>1. CASE i \in DOMAIN skills
    <3>1. skills'[i] = skills[i]
      BY <2>1, SkillsNext
    <3>2. CASE skills[i].actor = b
      <4>1. n \in Nat \ {0} /\ m \in Nat /\ m <= Len(log[b])
        BY <1>0, <1>1, <2>1, <3>1, <3>2 DEF SkillLines
      <4>2. SpansTo(b, n, m)' <=> SpansTo(b, n, m)
        BY <4>1, SpansStable
      <4> QED
        BY <1>1, <2>1, <3>1, <3>2, <4>2 DEF SpanningAt
    <3> QED
      BY <3>1, <3>2 DEF SpanningAt
  <2>2. CASE i \notin DOMAIN skills
    <3>1. skills' # skills
      BY <2>2
    <3>2. /\ Len(skills') = Len(skills) + 1
          /\ skills'[Len(skills) + 1] = [actor |-> a, line |-> Len(log[a]) + 1]
      BY <3>1, SkillsNext
    <3>3. i \in 1 .. Len(skills') /\ i \notin 1 .. Len(skills) /\ Len(skills) \in Nat
      BY <2>2, SkillsNext
    <3>4. skills'[i].actor = a /\ n = Len(log[a]) + 1
      BY <1>1, <3>2, <3>3
    <3>5. b = a => ~(n <= m)
      BY <1>0, <3>4
    <3>6. b = a => ~SpansTo(b, n, m)'
      BY <3>5 DEF SpansTo, WithinPrompt
    <3> QED
      BY <2>2, <3>4, <3>6 DEF SpanningAt
  <2> QED
    BY <2>1, <2>2
<1>2. SpanningAt(b, m) \subseteq DOMAIN skills'
  BY SkillsNext DEF SpanningAt
<1>3. SpanningAt(b, m)' = {i \in DOMAIN skills' : skills'[i].actor = b /\ SpansTo(b, skills[i].line, m)'}
  BY DEF SpanningAt
<1> QED
  BY <1>1, <1>2, <1>3

\* What is recorded for a request stays what the transcripts say of it.
LEMMA CountedStep ==
  ASSUME LedgerType, LogType, SkillLines, WindowsExact, PromptExact, CountedExact,
         NEW a \in Actors, NEW line, NEW next, TurnOf(a, line, next),
         Appended(a, line), Windows(a, next),
         line.type = "chunk" => \A b \in Actors \ {a} : ChunksOf(b, line.request) = {},
         subs \subseteq subs', subs' \subseteq subs \cup {a},
         a \in subs' \ subs => log[a] = <<>>,
         IF Live(a)' THEN AddUsage(a, next) ELSE counted' = counted
  PROVE  CountedExact'
<1>0. /\ \A b \in Actors : Len(log[b]) \in Nat
      /\ counted \in [Requests -> [amount : Nat, targets : SUBSET Totals]]
  BY LogLines DEF LedgerType
<1> SUFFICES ASSUME NEW r \in Requests
             PROVE  /\ \A b \in Actors :
                         Live(b)' /\ ChunksOf(b, r)' # {} =>
                           /\ counted'[r].amount = LastChunk(b, r)'
                           /\ counted'[r].targets = {b} \cup SpanningAt(b, LastChunk(b, r))'
                    /\ (\A b \in Actors : Live(b)' => ChunksOf(b, r)' = {}) => counted'[r].targets = {}
  BY DEF CountedExact
<1>1. CASE line.type = "chunk" /\ line.request = r /\ Live(a)'
  <2>1. next.request = r /\ next.request # NoRequest /\ next.usage = Len(log[a]) + 1
    BY <1>1, AccountAssumption DEF TurnOf
  <2>2. counted'[r] = [amount |-> Len(log[a]) + 1, targets |-> TargetsOf(a, next)]
    BY <1>0, <1>1, <2>1 DEF AddUsage
  <2>3. \A b \in Actors \ {a} : ChunksOf(b, r)' = {}
    BY <1>1, ChunksNext
  <2>4. ChunksOf(a, r)' # {} /\ LastChunk(a, r)' = Len(log[a]) + 1
    BY <1>1, ChunksNext
  <2>5. TargetsOf(a, next) = {a} \cup SpanningAt(a, LastChunk(a, r))'
    <3>1. PICK L : L = Len(log[a])
      OBVIOUS
    <3>2. SpanningAt(a, LastChunk(a, r))' =
            {i \in DOMAIN skills' : skills'[i].actor = a /\ SpansTo(a, skills[i].line, L + 1)'}
      BY <2>4, <3>1 DEF SpanningAt
    <3>3. \A i \in DOMAIN skills' :
            skills'[i].actor = a /\ SpansTo(a, skills[i].line, L + 1)' <=> i = WindowFor(a, next)
      <4>1. TAKE i \in DOMAIN skills'
      <4>2. PICK n : n = skills'[i].line
        OBVIOUS
      <4>3. skills'[i].actor = a /\ SpansTo(a, n, L + 1)' <=> i = WindowFor(a, next)
        BY <3>1, <4>2, WindowForIs
      <4> QED
        BY <4>2, <4>3
    <3>4. WindowFor(a, next) = 0 \/ WindowFor(a, next) \in DOMAIN skills'
      <4>1. WindowFor(a, next) \in 0 .. Len(skills')
        BY WindowsType
      <4>2. DOMAIN skills' = 1 .. Len(skills') /\ Len(skills') \in Nat
        BY SkillsNext
      <4> QED
        BY <4>1, <4>2
    <3>5. 0 \notin DOMAIN skills'
      <4>1. DOMAIN skills' = 1 .. Len(skills')
        BY SkillsNext
      <4> QED
        BY <4>1
    <3> QED
      BY <3>2, <3>3, <3>4, <3>5 DEF TargetsOf
  <2> QED
    BY <1>1, <2>2, <2>3, <2>4, <2>5
<1>2. CASE ~(line.type = "chunk" /\ line.request = r /\ Live(a)')
  <2>1. counted'[r] = counted[r]
    <3>1. CASE ~Live(a)'
      BY <3>1
    <3>2. CASE Live(a)'
      <4>1. next.request # r
        BY <1>2, <3>2, AccountAssumption DEF TurnOf
      <4> QED
        BY <1>0, <3>2, <4>1 DEF AddUsage
    <3> QED
      BY <3>1, <3>2
  <2>2. ASSUME NEW b \in Actors, Live(b)', ChunksOf(b, r)' # {}
        PROVE  /\ counted'[r].amount = LastChunk(b, r)'
               /\ counted'[r].targets = {b} \cup SpanningAt(b, LastChunk(b, r))'
    <3>1. ChunksOf(b, r)' = ChunksOf(b, r) /\ LastChunk(b, r)' = LastChunk(b, r)
      BY <1>2, <2>2, ChunksNext
    <3>2. LastChunk(b, r) \in 1 .. Len(log[b])
      BY <2>2, <3>1, ChunksBound
    <3>3. Live(b)
      <4>1. log[b] # <<>>
        BY <3>2
      <4> QED
        BY <2>2, <4>1 DEF Live
    <3>4. PICK m : m = LastChunk(b, r)
      OBVIOUS
    <3>5. SpanningAt(b, m)' = SpanningAt(b, m)
      BY <3>2, <3>4, SpanningStable
    <3>6. SpanningAt(b, LastChunk(b, r))' = SpanningAt(b, LastChunk(b, r))
      <4>1. SpanningAt(b, LastChunk(b, r))' = SpanningAt(b, m)'
        BY <3>1, <3>4 DEF SpanningAt
      <4> QED
        BY <3>4, <3>5, <4>1
    <3> QED
      BY <2>1, <2>2, <3>1, <3>3, <3>6 DEF CountedExact
  <2>3. ASSUME \A b \in Actors : Live(b)' => ChunksOf(b, r)' = {}
        PROVE  counted'[r].targets = {}
    <3>1. ASSUME NEW b \in Actors, Live(b)
          PROVE  ChunksOf(b, r) = {}
      <4>1. Live(b)'
        BY <3>1 DEF Live
      <4> QED
        BY <2>3, <4>1, ChunksNext
    <3> QED
      BY <2>1, <3>1 DEF CountedExact
  <2> QED
    BY <2>2, <2>3
<1> QED
  BY <1>1, <1>2

\* A subagent the session has no room for now has none later.
LEMMA RoomStep ==
  ASSUME RoomGone, LedgerType, NEW a \in Actors,
         \A b \in Actors \ {a} : log'[b] = log[b],
         subs' = IF a \in Agents /\ (a \in subs \/ Cardinality(subs) < MaxSubagents)
                 THEN subs \cup {a} ELSE subs
  PROVE  RoomGone' /\ subs \subseteq subs' /\ subs' \subseteq subs \cup {a}
         /\ (a \in subs' \ subs => log[a] = <<>>)
<1>1. IsFiniteSet(subs) /\ Cardinality(subs) \in Nat
  BY FS_CardinalityType DEF RoomGone
<1>2. IsFiniteSet(subs')
  BY <1>1, FS_AddElement
<1>3. Cardinality(subs) <= Cardinality(subs') /\ Cardinality(subs') \in Nat
  <2>1. CASE subs' = subs
    BY <2>1, <1>1
  <2>2. CASE subs' = subs \cup {a}
    <3>1. Cardinality(subs \cup {a}) \in {Cardinality(subs), Cardinality(subs) + 1}
      BY <1>1, FS_AddElement
    <3> QED
      BY <1>1, <2>2, <3>1
  <2> QED
    BY <2>1, <2>2
<1>4. a \in subs' \ subs => log[a] = <<>>
  BY DEF RoomGone
<1>5. ASSUME NEW b \in Agents \ subs', log'[b] # <<>>
      PROVE  ~(Cardinality(subs') < MaxSubagents)
  <2>1. CASE b = a
    BY <1>5, <2>1
  <2>2. CASE b # a
    <3>1. b \in Actors /\ ~(Cardinality(subs) < MaxSubagents)
      BY <1>5, <2>2 DEF RoomGone, Actors
    <3> QED
      BY <1>1, <1>3, <3>1, AccountAssumption
  <2> QED
    BY <2>1, <2>2
<1> QED
  BY <1>2, <1>4, <1>5 DEF RoomGone

-----------------------------------------------------------------------------
(* Every step.                                                               *)

\* A line read keeps all of it.
LEMMA ReadExact ==
  ASSUME IInv, ExactInv, NEW a \in Actors, NEW line, Read(a, line),
         TurnOf(a, line, Parse(parsers[a], line, a).turn),
         line.type = "chunk" => \A b \in Actors \ {a} : ChunksOf(b, line.request) = {}
  PROVE  ExactInv'
<1> DEFINE next == Parse(parsers[a], line, a).turn
<1>1. TurnOf(a, line, next) /\ (IF a = Main THEN AddTurn(next) ELSE AddSubagentTurn(a, next))
  BY DEF Read
<1> HIDE DEF next
<1>2. LogType /\ LedgerType
  BY DEF IInv
<1>3. SkillLines /\ WindowsExact /\ PromptExact /\ RoomGone /\ CountedExact
  BY DEF ExactInv
<1>4. Appended(a, line)
  BY DEF Read, Appended
<1>5. Windows(a, next) /\ IF a = Main THEN Boundary(next) ELSE promptId' = promptId
  BY <1>1 DEF AddTurn, AddSubagentTurn
<1>6. SkillLines' /\ WindowsExact' /\ PromptExact'
  BY <1>1, <1>2, <1>3, <1>4, <1>5, SkillLinesStep, WindowsExactStep, PromptStep
<1>7. subs' = IF a \in Agents /\ (a \in subs \/ Cardinality(subs) < MaxSubagents)
              THEN subs \cup {a} ELSE subs
  BY <1>1, ParserAssumption DEF AddTurn, AddSubagentTurn, Actors
<1>8. /\ RoomGone' /\ subs \subseteq subs' /\ subs' \subseteq subs \cup {a}
      /\ a \in subs' \ subs => log[a] = <<>>
  BY <1>2, <1>3, <1>4, <1>7, AppendedLines, RoomStep
<1>9. IF Live(a)' THEN AddUsage(a, next) ELSE counted' = counted
  BY <1>1, ParserAssumption DEF AddTurn, AddSubagentTurn, Live, Actors
<1>10. CountedExact'
  BY <1>1, <1>2, <1>3, <1>4, <1>5, <1>8, <1>9, CountedStep
<1> QED
  BY <1>6, <1>8, <1>10 DEF ExactInv

\* What the transcripts and the windows say changes with the log and the skills alone.
LEMMA PidUnchanged ==
  ASSUME log' = log, NEW k PROVE LastPid(k)' = LastPid(k)
BY DEF LastPid

LEMMA InvokesUnchanged ==
  ASSUME log' = log, NEW a, NEW k PROVE Invokes(a, k)' <=> Invokes(a, k)
BY DEF Invokes

LEMMA SpansUnchanged ==
  ASSUME log' = log, NEW a, NEW n, NEW m PROVE SpansTo(a, n, m)' <=> SpansTo(a, n, m)
<1>1. \A k : LastPid(k)' = LastPid(k)
  BY PidUnchanged
<1>2. \A k : Invokes(a, k)' <=> Invokes(a, k)
  BY InvokesUnchanged
<1> QED
  BY <1>1, <1>2 DEF SpansTo, WithinPrompt

LEMMA OpenUnchanged ==
  ASSUME log' = log, NEW a, NEW n PROVE OpenAfter(a, n)' <=> OpenAfter(a, n)
<1>1. PICK L : L = Len(log[a])
  OBVIOUS
<1>2. SpansTo(a, n, L)' <=> SpansTo(a, n, L)
  BY SpansUnchanged
<1>3. OpenAfter(a, n) <=> SpansTo(a, n, L) /\ (a = Main => ~Stops(log[a][L]))
  BY <1>1 DEF OpenAfter
<1>4. OpenAfter(a, n)' <=> SpansTo(a, n, L)' /\ (a = Main => ~Stops(log[a][L]))
  BY <1>1 DEF OpenAfter, Stops
<1> QED
  BY <1>2, <1>3, <1>4

LEMMA WindowsUnchanged ==
  ASSUME UNCHANGED <<log, skills, active, promptId>>, SkillLines, WindowsExact, PromptExact
  PROVE  SkillLines' /\ WindowsExact' /\ PromptExact'
<1>1. SkillLines'
  BY DEF SkillLines
<1>2. WindowsExact'
  <2>1. \A a, n : OpenAfter(a, n)' <=> OpenAfter(a, n)
    BY OpenUnchanged
  <2> QED
    BY <2>1 DEF WindowsExact
<1>3. PromptExact'
  <2>1. PICK k : k = Len(log[Main]) + 1
    OBVIOUS
  <2>2. LastPid(k)' = LastPid(k)
    BY PidUnchanged
  <2> QED
    BY <2>1, <2>2 DEF PromptExact
<1> QED
  BY <1>1, <1>2, <1>3

LEMMA ChunksUnchanged ==
  ASSUME log' = log, skills' = skills, NEW a, NEW r
  PROVE  /\ ChunksOf(a, r)' = ChunksOf(a, r) /\ LastChunk(a, r)' = LastChunk(a, r)
         /\ SpanningAt(a, LastChunk(a, r))' = SpanningAt(a, LastChunk(a, r))
<1>1. ChunksOf(a, r)' = ChunksOf(a, r)
  BY DEF ChunksOf
<1>2. LastChunk(a, r)' = LastChunk(a, r)
  BY <1>1 DEF LastChunk
<1>3. PICK m : m = LastChunk(a, r)
  OBVIOUS
<1>4. SpanningAt(a, LastChunk(a, r))' = SpanningAt(a, m)'
  BY <1>2, <1>3 DEF SpanningAt, SpansTo
<1>5. \A n : SpansTo(a, n, m)' <=> SpansTo(a, n, m)
  BY SpansUnchanged
<1>6. SpanningAt(a, m)' = SpanningAt(a, m)
  BY <1>5 DEF SpanningAt
<1> QED
  BY <1>1, <1>2, <1>3, <1>4, <1>6

\* A step that leaves the log and the ledger alone, a new subagent without lines apart.
LEMMA MetaExact ==
  ASSUME IInv, ExactInv, NEW a \in Agents, ReadMeta(a)
  PROVE  ExactInv'
<1> DEFINE spawn == [Event("subagent_spawned", a, a) EXCEPT !.agent = a]
           next == [NoTurn EXCEPT !.events = <<spawn>>]
<1>1. LogType /\ LedgerType /\ SkillLines /\ WindowsExact /\ PromptExact /\ RoomGone
      /\ CountedExact /\ a \in Actors /\ a # Main
  BY ParserAssumption DEF IInv, ExactInv, Actors
<1>2. AddSubagentTurn(a, next) /\ log' = log
  BY DEF ReadMeta
<1>3. next.request = NoRequest
  BY DEF NoTurn
<1>4. ~OpensSkill(next)
  <2>1. spawn.kind = "subagent_spawned" /\ next.events = <<spawn>>
    BY DEF NoTurn, Event
  <2> HIDE DEF spawn, next
  <2>2. \A n \in DOMAIN next.events : next.events[n] = spawn
    BY <2>1
  <2> QED
    BY <2>1, <2>2 DEF OpensSkill
<1> HIDE DEF next
<1>5. UNCHANGED <<counted, promptId, skills>>
  BY <1>2, <1>3, <1>4 DEF AddSubagentTurn, AddUsage, Windows
<1>6. active' = active
  BY <1>1, <1>2, <1>4 DEF AddSubagentTurn, Windows, WindowAfter, WindowFor, LedgerType
<1>7. subs' = IF a \in Agents /\ (a \in subs \/ Cardinality(subs) < MaxSubagents)
              THEN subs \cup {a} ELSE subs
  BY <1>2 DEF AddSubagentTurn
<1>8. /\ RoomGone' /\ subs \subseteq subs' /\ subs' \subseteq subs \cup {a}
      /\ a \in subs' \ subs => log[a] = <<>>
  BY <1>1, <1>2, <1>7, RoomStep
<1>9. \A b \in Actors, r \in Requests : Live(b)' /\ ChunksOf(b, r) # {} => Live(b)
  BY <1>8 DEF Live, ChunksOf
<1>10. \A b \in Actors : Live(b) => Live(b)'
  BY <1>8 DEF Live
<1>11. SkillLines' /\ WindowsExact' /\ PromptExact'
  BY <1>1, <1>2, <1>5, <1>6, WindowsUnchanged
<1>12. \A b \in Actors, r \in Requests :
         /\ ChunksOf(b, r)' = ChunksOf(b, r) /\ LastChunk(b, r)' = LastChunk(b, r)
         /\ SpanningAt(b, LastChunk(b, r))' = SpanningAt(b, LastChunk(b, r))
  BY <1>2, <1>5, ChunksUnchanged
<1>13. CountedExact'
  BY <1>1, <1>5, <1>9, <1>10, <1>12 DEF CountedExact
<1> QED
  BY <1>8, <1>11, <1>13 DEF ExactInv

LEMMA ExactUnchanged ==
  ASSUME ExactInv, UNCHANGED <<log, skills, active, subs, promptId, counted>>
  PROVE  ExactInv'
<1>1. SkillLines' /\ WindowsExact' /\ PromptExact'
  BY WindowsUnchanged DEF ExactInv
<1>2. RoomGone'
  BY DEF ExactInv, RoomGone
<1>3. \A a, r : /\ ChunksOf(a, r)' = ChunksOf(a, r) /\ LastChunk(a, r)' = LastChunk(a, r)
                /\ SpanningAt(a, LastChunk(a, r))' = SpanningAt(a, LastChunk(a, r))
  BY ChunksUnchanged
<1>4. \A a : Live(a)' <=> Live(a)
  BY DEF Live
<1>5. CountedExact'
  BY <1>3, <1>4 DEF ExactInv, CountedExact
<1> QED
  BY <1>1, <1>2, <1>5 DEF ExactInv

\* Nothing was read and nothing is recorded.
LEMMA InitExact ==
  ASSUME Init PROVE ExactInv
<1>1. log = [a \in Actors |-> <<>>] /\ skills = <<>> /\ subs = {} /\ promptId = 0
      /\ counted = [r \in Requests |-> [amount |-> 0, targets |-> {}]]
  BY DEF Init
<1>2. \A a \in Actors, r \in Requests : ChunksOf(a, r) = {}
  BY <1>1 DEF ChunksOf
<1>3. SkillLines /\ WindowsExact
  BY <1>1 DEF SkillLines, WindowsExact
<1>4. PromptExact
  <2>1. Len(log[Main]) + 1 = 1
    BY <1>1 DEF Actors
  <2>2. 1 .. 1 - 1 = {}
    OBVIOUS
  <2> QED
    BY <1>1, <2>1, <2>2 DEF PromptExact, LastPid
<1>5. RoomGone
  BY <1>1, FS_EmptySet DEF RoomGone, Actors
<1>6. CountedExact
  BY <1>1, <1>2 DEF CountedExact
<1> QED
  BY <1>3, <1>4, <1>5, <1>6 DEF ExactInv

LEMMA NextExact ==
  ASSUME IInv, ExactInv, [Next]_vars PROVE ExactInv'
<1>1. CASE UNCHANGED vars
  BY <1>1, ExactUnchanged DEF vars, transcripts, ledger
<1>2. ASSUME NEW a \in Actors, WritePrompt(a) PROVE ExactInv'
  <2>1. PICK p \in Prompts[a] :
          Read(a, [type |-> "prompt", pid |-> p.pid, slash |-> p.slash, mode |-> p.mode])
    BY <1>2 DEF WritePrompt
  <2>2. PICK line : line = [type |-> "prompt", pid |-> p.pid, slash |-> p.slash, mode |-> p.mode]
    OBVIOUS
  <2>3. TurnOf(a, line, Parse(parsers[a], line, a).turn) /\ line.type # "chunk" /\ Read(a, line)
    BY <2>1, <2>2, PromptTurn
  <2> QED
    BY <2>3, ReadExact
<1>3. ASSUME NEW a \in Actors, WriteChunk(a) PROVE ExactInv'
  <2>a. PICK r \in Requests, c \in Chunks[a] : Streams(a, r) /\ \E use \in ToolUses(a, c.tool) :
          Read(a, [type |-> "chunk", request |-> r, usage |-> Len(log[a]) + 1,
                   use |-> use, text |-> c.text, stop |-> c.stop, model |-> c.model])
    BY <1>3 DEF WriteChunk
  <2>1. PICK use \in ToolUses(a, c.tool) :
          Read(a, [type |-> "chunk", request |-> r, usage |-> Len(log[a]) + 1,
                   use |-> use, text |-> c.text, stop |-> c.stop, model |-> c.model])
    BY <2>a
  <2>2. PICK line : line = [type |-> "chunk", request |-> r, usage |-> Len(log[a]) + 1,
                      use |-> use, text |-> c.text, stop |-> c.stop, model |-> c.model]
    OBVIOUS
  <2>3. TurnOf(a, line, Parse(parsers[a], line, a).turn) /\ line.request = r /\ Read(a, line)
    BY <2>1, <2>2, ChunkTurn
  <2>4. \A b \in Actors \ {a} : ChunksOf(b, r) = {}
    BY <2>a DEF Streams
  <2> QED
    BY <2>3, <2>4, ReadExact
<1>4. ASSUME NEW a \in Actors, WriteResult(a) PROVE ExactInv'
  <2>1. PICK use \in UsesIn(a), denial \in Denials, isError \in BOOLEAN :
          Read(a, [type |-> "result", id |-> use.id, denial |-> denial, isError |-> isError])
    BY <1>4 DEF WriteResult
  <2>2. PICK line : line = [type |-> "result", id |-> use.id, denial |-> denial, isError |-> isError]
    OBVIOUS
  <2>3. TurnOf(a, line, Parse(parsers[a], line, a).turn) /\ line.type # "chunk" /\ Read(a, line)
    BY <2>1, <2>2, ResultTurn
  <2> QED
    BY <2>3, ReadExact
<1>5. ASSUME NEW a \in Agents, ReadMeta(a) PROVE ExactInv'
  BY <1>5, MetaExact
<1>6. CASE WriteNotice
  <2>1. PICK kind \in Notices : Read(Main, [type |-> "notice", notice |-> kind])
    BY <1>6 DEF WriteNotice
  <2>2. PICK line : line = [type |-> "notice", notice |-> kind]
    OBVIOUS
  <2>3. /\ TurnOf(Main, line, Parse(parsers[Main], line, Main).turn)
        /\ line.type # "chunk" /\ Read(Main, line) /\ Main \in Actors
    BY <2>1, <2>2, NoticeTurn DEF Actors
  <2> QED
    BY <2>3, ReadExact
<1>7. CASE Rewarm
  BY <1>7, RewarmStep, ExactUnchanged DEF Rewarm, transcripts
<1> QED
  BY <1>1, <1>2, <1>3, <1>4, <1>5, <1>6, <1>7 DEF Next

\* What the records say, with totals that say what the records say.
LEMMA ExactUsage ==
  ASSUME IInv, ExactInv
  PROVE  UsageExact
<1>0. LogType /\ LedgerType /\ Conserved /\ CountedExact
  BY DEF IInv, ExactInv
<1>1. DOMAIN skills = 1 .. Len(skills) /\ Len(skills) \in Nat /\ Len(skills) <= MaxSkills
  BY <1>0 DEF LedgerType
<1>2. \A i \in DOMAIN skills : i \in Totals /\ i \notin Actors
  BY <1>1, AccountAssumption DEF Totals
<1>3. \A a \in {Main} \cup subs : a \in Actors /\ a \in Totals /\ a \notin DOMAIN skills
  BY <1>0, <1>1, AccountAssumption DEF LedgerType, Actors, Totals
<1>4. \A a \in Actors : \A m : SpanningAt(a, m) \subseteq DOMAIN skills
  BY DEF SpanningAt
<1> SUFFICES ASSUME NEW r \in Requests
             PROVE  /\ \A a \in {Main} \cup subs : usage[a][r] = LastChunk(a, r)
                    /\ \A i \in DOMAIN skills :
                         usage[i][r] =
                           IF LastChunk(skills[i].actor, r) > 0
                              /\ (skills[i].actor = Main \/ skills[i].actor \in subs)
                              /\ SpansTo(skills[i].actor, skills[i].line, LastChunk(skills[i].actor, r))
                           THEN LastChunk(skills[i].actor, r) ELSE 0
  BY DEF UsageExact
<1>5. \A b \in Actors : /\ LastChunk(b, r) \in Nat
                        /\ LastChunk(b, r) > 0 <=> ChunksOf(b, r) # {}
                        /\ LastChunk(b, r) = 0 <=> ChunksOf(b, r) = {}
  <2>1. TAKE b \in Actors
  <2>2. Len(log[b]) \in Nat
    BY <1>0, LogLines
  <2> QED
    BY <1>0, <2>2, ChunksBound
<1>6. \A t \in Totals : usage[t][r] = IF t \in counted[r].targets THEN counted[r].amount ELSE 0
  BY <1>0 DEF Conserved
<1>7. \A i \in DOMAIN skills : skills[i].actor \in Actors
  <2> DEFINE Opened == [actor : Actors, line : Nat]
  <2>1. skills \in Seq(Opened)
    BY <1>0 DEF LedgerType
  <2> HIDE DEF Opened
  <2>2. \A i \in DOMAIN skills : skills[i] \in Opened
    BY <2>1
  <2> QED
    BY <2>2 DEF Opened
<1>8. CASE \A b \in Actors : Live(b) => ChunksOf(b, r) = {}
  <2>1. counted[r].targets = {}
    BY <1>0, <1>8 DEF CountedExact
  <2>2. \A a \in {Main} \cup subs : LastChunk(a, r) = 0
    BY <1>3, <1>5, <1>8 DEF Live
  <2>3. \A t \in Totals : usage[t][r] = 0
    BY <1>6, <2>1
  <2> QED
    BY <1>2, <1>3, <2>2, <2>3
<1>9. ASSUME NEW b \in Actors, Live(b), ChunksOf(b, r) # {}
      PROVE  /\ \A a \in {Main} \cup subs : usage[a][r] = LastChunk(a, r)
             /\ \A i \in DOMAIN skills :
                  usage[i][r] =
                    IF LastChunk(skills[i].actor, r) > 0
                       /\ (skills[i].actor = Main \/ skills[i].actor \in subs)
                       /\ SpansTo(skills[i].actor, skills[i].line, LastChunk(skills[i].actor, r))
                    THEN LastChunk(skills[i].actor, r) ELSE 0
  <2>1. /\ counted[r].amount = LastChunk(b, r)
        /\ counted[r].targets = {b} \cup SpanningAt(b, LastChunk(b, r))
    BY <1>0, <1>9 DEF CountedExact
  <2>2. \A a \in Actors : Live(a) /\ a # b => ChunksOf(a, r) = {}
    \* Otherwise the record would name both actors.
    <3>1. TAKE a \in Actors
    <3>2. ASSUME Live(a), a # b, ChunksOf(a, r) # {}
          PROVE  FALSE
      <4>1. a \in counted[r].targets
        BY <1>0, <3>2 DEF CountedExact
      <4>2. a \in DOMAIN skills
        BY <1>4, <2>1, <3>2, <4>1
      <4> QED
        BY <1>2, <4>2
    <3> QED
      BY <3>2
  <2>3. ASSUME NEW a \in {Main} \cup subs
        PROVE  usage[a][r] = LastChunk(a, r)
    <3>1. a \in Actors /\ a \in Totals /\ a \notin SpanningAt(b, LastChunk(b, r)) /\ Live(a)
      BY <1>3, <1>4 DEF Live
    <3>2. CASE a = b
      BY <1>6, <2>1, <3>1, <3>2
    <3>3. CASE a # b
      BY <1>5, <1>6, <2>1, <2>2, <3>1, <3>3
    <3> QED
      BY <3>2, <3>3
  <2>4. ASSUME NEW i \in DOMAIN skills, NEW c, c = skills[i].actor
        PROVE  usage[i][r] = IF LastChunk(c, r) > 0 /\ (c = Main \/ c \in subs)
                                /\ SpansTo(c, skills[i].line, LastChunk(c, r))
                             THEN LastChunk(c, r) ELSE 0
    <3>1. i \in Totals /\ i # b /\ c \in Actors
      BY <1>2, <1>7, <2>4
    <3>2. usage[i][r] = IF i \in SpanningAt(b, LastChunk(b, r)) THEN LastChunk(b, r) ELSE 0
      BY <1>6, <2>1, <3>1
    <3>3. i \in SpanningAt(b, LastChunk(b, r))
            <=> c = b /\ SpansTo(c, skills[i].line, LastChunk(c, r))
      BY <2>4 DEF SpanningAt
    <3>4. CASE c = b
      BY <1>5, <1>9, <3>1, <3>2, <3>3, <3>4 DEF Live
    <3>5. CASE c # b
      <4>1. ~(LastChunk(c, r) > 0 /\ (c = Main \/ c \in subs))
        BY <1>5, <2>2, <3>1, <3>5 DEF Live
      <4> QED
        BY <3>2, <3>3, <3>5, <4>1
    <3> QED
      BY <3>4, <3>5
  <2> QED
    BY <2>3, <2>4
<1> QED
  BY <1>8, <1>9

\* For every number of transcripts, requests and skills, any caps, any interleaving
\* of the files and any cold phases: the usage of the session, of each subagent and
\* of each skill is what the transcripts say.
THEOREM UsageExactCorrect == Spec => []UsageExact
<1>1. Init => IInv /\ ExactInv
  BY InitIInv, InitExact
<1>2. IInv /\ ExactInv /\ [Next]_vars => IInv' /\ ExactInv'
  BY NextIInv, NextExact
<1>3. IInv /\ ExactInv => UsageExact
  BY ExactUsage
<1> QED
  BY <1>1, <1>2, <1>3, PTL DEF Spec

-----------------------------------------------------------------------------
(* Events: what is listed, in what order, and what the counters say of it.    *)

UseIds == Agents \cup (Actors \X Nat)

EventKinds == Kinds \cup Notices \cup {"plan_approved", "subagent_result"}

Events == [kind : EventKinds, actor : Actors, tool : UseIds \cup {NoTool}, agent : Actors]

\* An event as the parser makes it: only a spawn names an agent, its own.
IsNew(event) ==
  /\ event \in Events
  /\ event.agent = IF event.kind = "subagent_spawned" THEN event.tool ELSE Main

\* The events that a step adds; no line makes more than two.
NewEvents == {new \in Seq(Events) : Len(new) <= 2 /\ \A n \in DOMAIN new : IsNew(new[n])}

\* What is listed of a spawn names the agent of its own tool use.
NamesOwn(buffer) ==
  /\ buffer \in Seq(Events)
  /\ \A n \in DOMAIN buffer :
       /\ buffer[n].kind = "subagent_spawned" => buffer[n].agent = buffer[n].tool
       /\ buffer[n].kind = "subagent_result" => buffer[n].agent \in {Main, buffer[n].tool}

NamesAgents(buffer) ==
  \A m, n \in DOMAIN buffer :
    buffer[m].kind = "subagent_spawned" /\ buffer[n].kind = "subagent_result"
      /\ buffer[m].tool = buffer[n].tool => buffer[n].agent = buffer[m].agent

BufferOK(buffer) == NamesOwn(buffer) /\ NamesAgents(buffer)

\* One event after the other, for the lengths that occur.
LEMMA ResolvedIs ==
  ASSUME NEW buffer, NEW new, Len(new) \in 0 .. 2
  PROVE  /\ Len(new) = 0 => Resolved(buffer, new) = buffer
         /\ Len(new) = 1 => Resolved(buffer, new) = Resolve(buffer, new[1])
         /\ Len(new) = 2 => Resolved(buffer, new) = Resolve(Resolve(buffer, new[1]), new[2])
<1> DEFINE after(list, n) == IF n = 0 THEN buffer ELSE Resolve(list[n - 1], new[n])
           IsList(list) == list = [n \in 0 .. Len(new) |-> after(list, n)]
           made == [n \in 0 .. Len(new) |-> IF n = 0 THEN buffer
                      ELSE IF n = 1 THEN Resolve(buffer, new[1])
                      ELSE Resolve(Resolve(buffer, new[1]), new[2])]
<1>1. IsList(made)
  <2>1. \A n \in 0 .. Len(new) : made[n] = after(made, n)
    <3>1. ASSUME NEW n \in 0 .. Len(new) PROVE made[n] = after(made, n)
      <4> HIDE DEF made
      <4>1. n \in {0, 1, 2} /\ n \in 0 .. Len(new)
        <5>1. PICK k : k = Len(new)
          OBVIOUS
        <5>2. k \in 0 .. 2 /\ n \in 0 .. k
          BY <5>1
        <5>3. n \in {0, 1, 2}
          BY <5>2
        <5> QED
          BY <5>3
      <4>2. n = 2 => n - 1 = 1 /\ 1 \in 0 .. Len(new)
        OBVIOUS
      <4>3. n = 1 => n - 1 = 0 /\ 0 \in 0 .. Len(new)
        OBVIOUS
      <4> QED
        BY <4>1, <4>2, <4>3 DEF made
    <3> QED
      BY <3>1
  <2> QED
    BY <2>1
<1>2. PICK list : list = CHOOSE l : IsList(l)
  OBVIOUS
<1>3. IsList(list)
  BY <1>1, <1>2
<1>4. Resolved(buffer, new) = list[Len(new)]
  BY <1>2 DEF Resolved
<1>5. \A n \in 0 .. Len(new) : list[n] = after(list, n)
  BY <1>3
<1> HIDE DEF IsList, made
<1>6. CASE Len(new) = 0
  BY <1>4, <1>5, <1>6
<1>7. CASE Len(new) = 1
  BY <1>4, <1>5, <1>7
<1>8. CASE Len(new) = 2
  BY <1>4, <1>5, <1>8
<1> QED
  BY <1>6, <1>7, <1>8

LEMMA PlacesCounted ==
  ASSUME NEW buffer \in Seq(Events)
  PROVE  /\ DOMAIN buffer = 1 .. Len(buffer) /\ Len(buffer) \in Nat
         /\ IsFiniteSet(DenialPlaces(buffer)) /\ IsFiniteSet(OtherPlaces(buffer))
         /\ Cardinality(DenialPlaces(buffer)) \in Nat /\ Cardinality(OtherPlaces(buffer)) \in Nat
         /\ Len(buffer) = Cardinality(DenialPlaces(buffer)) + Cardinality(OtherPlaces(buffer))
<1>1. DOMAIN buffer = 1 .. Len(buffer) /\ Len(buffer) \in Nat
  OBVIOUS
<1>2. IsFiniteSet(DOMAIN buffer) /\ Cardinality(DOMAIN buffer) = Len(buffer)
  BY <1>1, FS_Interval
<1>3. DenialPlaces(buffer) \subseteq DOMAIN buffer /\ OtherPlaces(buffer) \subseteq DOMAIN buffer
  BY DEF DenialPlaces, OtherPlaces
<1>4. IsFiniteSet(DenialPlaces(buffer)) /\ IsFiniteSet(OtherPlaces(buffer))
  BY <1>2, <1>3, FS_Subset
<1>5. Cardinality(DenialPlaces(buffer)) \in Nat /\ Cardinality(OtherPlaces(buffer)) \in Nat
  BY <1>4, FS_CardinalityType
<1>6. DenialPlaces(buffer) \cap OtherPlaces(buffer) = {}
      /\ DenialPlaces(buffer) \cup OtherPlaces(buffer) = DOMAIN buffer
  BY <1>3 DEF OtherPlaces
<1>7. Cardinality(DOMAIN buffer) = Cardinality(DenialPlaces(buffer)) + Cardinality(OtherPlaces(buffer))
                                   - Cardinality(DenialPlaces(buffer) \cap OtherPlaces(buffer))
  BY <1>4, <1>6, FS_Union
<1>8. Cardinality(DenialPlaces(buffer) \cap OtherPlaces(buffer)) = 0
  BY <1>6, FS_EmptySet
<1> QED
  BY <1>1, <1>2, <1>4, <1>5, <1>7, <1>8

One(P) == IF P THEN 1 ELSE 0

\* The counts of an event list grow by an event that finds room under its kind.
Grown(buffer, event, list) ==
  /\ Cardinality(DenialPlaces(list)) =
       Cardinality(DenialPlaces(buffer))
       + One(Denied(event) /\ Cardinality(DenialPlaces(buffer)) < DenialBudget)
  /\ Cardinality(OtherPlaces(list)) =
       Cardinality(OtherPlaces(buffer))
       + One(~Denied(event) /\ Cardinality(OtherPlaces(buffer)) < OtherBudget)

LEMMA PushGrows ==
  ASSUME NEW buffer \in Seq(Events), NEW event \in Events
  PROVE  Push(buffer, event) \in Seq(Events) /\ Grown(buffer, event, Push(buffer, event))
<1>1. /\ DOMAIN buffer = 1 .. Len(buffer) /\ Len(buffer) \in Nat
      /\ IsFiniteSet(DenialPlaces(buffer)) /\ IsFiniteSet(OtherPlaces(buffer))
      /\ Cardinality(DenialPlaces(buffer)) \in Nat /\ Cardinality(OtherPlaces(buffer)) \in Nat
  BY PlacesCounted
<1>2. CASE HasRoom(buffer, event)
  <2> DEFINE list == Append(buffer, event)
             last == Len(buffer) + 1
  <2>1. /\ list \in Seq(Events) /\ DOMAIN list = DOMAIN buffer \cup {last} /\ last \notin DOMAIN buffer
        /\ list[last] = event /\ \A n \in DOMAIN buffer : list[n] = buffer[n]
    BY <1>1
  <2>2. Push(buffer, event) = list
    BY <1>2 DEF Push
  <2> HIDE DEF list, last
  <2>3. CASE Denied(event)
    <3>1. DenialPlaces(list) = DenialPlaces(buffer) \cup {last} /\ last \notin DenialPlaces(buffer)
          /\ OtherPlaces(list) = OtherPlaces(buffer)
      BY <2>1, <2>3 DEF DenialPlaces, OtherPlaces
    <3>2. Cardinality(DenialPlaces(list)) = Cardinality(DenialPlaces(buffer)) + 1
      BY <3>1, <1>1, FS_AddElement
    <3> QED
      BY <2>1, <2>2, <2>3, <3>1, <3>2, <1>1, <1>2 DEF HasRoom, Grown, One
  <2>4. CASE ~Denied(event)
    <3>1. OtherPlaces(list) = OtherPlaces(buffer) \cup {last} /\ last \notin OtherPlaces(buffer)
          /\ DenialPlaces(list) = DenialPlaces(buffer)
      BY <2>1, <2>4 DEF DenialPlaces, OtherPlaces
    <3>2. Cardinality(OtherPlaces(list)) = Cardinality(OtherPlaces(buffer)) + 1
      BY <3>1, <1>1, FS_AddElement
    <3> QED
      BY <2>1, <2>2, <2>4, <3>1, <3>2, <1>1, <1>2 DEF HasRoom, Grown, One
  <2> QED
    BY <2>3, <2>4
<1>3. CASE ~HasRoom(buffer, event)
  BY <1>1, <1>3 DEF HasRoom, Push, Grown, One
<1> QED
  BY <1>2, <1>3

\* Naming changes no kind, so the counts are those of the list before.
LEMMA SameCounts ==
  ASSUME NEW buffer \in Seq(Events), NEW named \in Seq(Events), DOMAIN named = DOMAIN buffer,
         \A n \in DOMAIN buffer : named[n].kind = buffer[n].kind,
         NEW event, NEW namedEvent, namedEvent.kind = event.kind, NEW list,
         Grown(named, namedEvent, list)
  PROVE  Grown(buffer, event, list)
<1>1. DenialPlaces(named) = DenialPlaces(buffer) /\ OtherPlaces(named) = OtherPlaces(buffer)
  BY DEF DenialPlaces, OtherPlaces, Denied
<1>2. Denied(namedEvent) <=> Denied(event)
  BY DEF Denied
<1> QED
  BY <1>1, <1>2 DEF Grown, One

\* Naming an event changes its agent and actor.
LEMMA NamedIs ==
  ASSUME NEW event \in Events, NEW agent \in Actors
  PROVE  /\ Named(event, agent) \in Events /\ Named(event, agent).kind = event.kind
         /\ Named(event, agent).tool = event.tool /\ Named(event, agent).agent = agent
BY DEF Named, Events

LEMMA PushKeeps ==
  ASSUME NEW buffer, NEW event \in Events, BufferOK(buffer),
         event.kind = "subagent_spawned" => event.agent = event.tool,
         event.kind = "subagent_result" => event.agent \in {Main, event.tool},
         \A n \in DOMAIN buffer :
           /\ event.kind = "subagent_spawned" /\ buffer[n].kind = "subagent_result"
                /\ event.tool = buffer[n].tool => buffer[n].agent = event.agent
           /\ event.kind = "subagent_result" /\ buffer[n].kind = "subagent_spawned"
                /\ event.tool = buffer[n].tool => event.agent = buffer[n].agent
  PROVE  BufferOK(Push(buffer, event))
<1>1. buffer \in Seq(Events)
  BY DEF BufferOK, NamesOwn
<1>2. CASE Push(buffer, event) = buffer
  BY <1>2
<1>3. CASE Push(buffer, event) = Append(buffer, event)
  <2> DEFINE list == Append(buffer, event)
             last == Len(buffer) + 1
  <2>1. /\ list \in Seq(Events) /\ DOMAIN list = DOMAIN buffer \cup {last}
        /\ list[last] = event /\ \A n \in DOMAIN buffer : list[n] = buffer[n]
    BY <1>1
  <2> HIDE DEF list, last
  <2>2. NamesOwn(list)
    BY <2>1 DEF BufferOK, NamesOwn
  <2>3. NamesAgents(list)
    <3>1. ASSUME NEW m \in DOMAIN list, NEW n \in DOMAIN list,
                 list[m].kind = "subagent_spawned", list[n].kind = "subagent_result",
                 list[m].tool = list[n].tool
          PROVE  list[n].agent = list[m].agent
      <4>1. CASE m = last /\ n = last
        BY <3>1, <4>1
      <4>2. CASE m = last /\ n \in DOMAIN buffer
        BY <2>1, <3>1, <4>2
      <4>3. CASE m \in DOMAIN buffer /\ n = last
        BY <2>1, <3>1, <4>3
      <4>4. CASE m \in DOMAIN buffer /\ n \in DOMAIN buffer
        BY <2>1, <3>1, <4>4 DEF BufferOK, NamesAgents
      <4> QED
        BY <2>1, <4>1, <4>2, <4>3, <4>4
    <3> QED
      BY <3>1 DEF NamesAgents
  <2> QED
    BY <1>3, <2>2, <2>3 DEF BufferOK, list
<1> QED
  BY <1>2, <1>3 DEF Push

\* resolveSubagentActor: a list in which results have the agent of their spawns stays so.
LEMMA ResolveKeeps ==
  ASSUME NEW buffer, BufferOK(buffer), NEW event, IsNew(event)
  PROVE  BufferOK(Resolve(buffer, event)) /\ Grown(buffer, event, Resolve(buffer, event))
<1>0. event \in Events /\ Main \in Actors /\ buffer \in Seq(Events)
  BY DEF IsNew, Actors, BufferOK, NamesOwn
<1>1. CASE event.kind = "subagent_result" /\ Spawns(buffer, event.tool) # {}
  <2>1. PICK m \in Spawns(buffer, event.tool) : m = CHOOSE n \in Spawns(buffer, event.tool) : TRUE
    BY <1>1
  <2> DEFINE named == Named(event, buffer[m].agent)
  <2>2. m \in DOMAIN buffer /\ buffer[m].kind = "subagent_spawned" /\ buffer[m].tool = event.tool
        /\ buffer[m] \in Events /\ buffer[m].agent \in Actors /\ buffer[m].agent = buffer[m].tool
    <3>1. m \in DOMAIN buffer /\ buffer[m].kind = "subagent_spawned" /\ buffer[m].tool = event.tool
      BY <2>1 DEF Spawns
    <3>2. buffer[m] \in Events /\ buffer[m].agent = buffer[m].tool
      BY <1>0, <3>1 DEF BufferOK, NamesOwn
    <3> QED
      BY <3>1, <3>2 DEF Events
  <2>3. Resolve(buffer, event) = Push(buffer, named)
    BY <1>1, <2>1 DEF Resolve
  <2>4. /\ named \in Events /\ named.kind = event.kind /\ named.tool = event.tool
        /\ named.agent = event.tool
    BY <1>0, <2>2, NamedIs
  <2> HIDE DEF named
  <2>5. BufferOK(Push(buffer, named))
    BY <1>1, <2>4, PushKeeps DEF BufferOK, NamesOwn
  <2>6. Grown(buffer, named, Push(buffer, named))
    BY <1>0, <2>4, PushGrows
  <2> QED
    BY <1>0, <2>3, <2>4, <2>5, <2>6, SameCounts
<1>2. CASE event.kind = "subagent_spawned"
  <2> DEFINE waits(n) == /\ buffer[n].kind = "subagent_result" /\ buffer[n].tool = event.tool
                         /\ buffer[n].agent = Main
             named == [n \in DOMAIN buffer |->
                         IF waits(n) THEN Named(buffer[n], event.agent) ELSE buffer[n]]
  <2>1. Resolve(buffer, event) = Push(named, event)
    BY <1>2 DEF Resolve
  <2>2. event.agent = event.tool /\ event.agent \in Actors
    BY <1>0, <1>2 DEF IsNew, Events
  <2>3. \A n \in DOMAIN buffer : buffer[n] \in Events
    BY <1>0
  <2>4. \A n \in DOMAIN buffer : /\ named[n] \in Events /\ named[n].kind = buffer[n].kind
                                 /\ named[n].tool = buffer[n].tool
                                 /\ named[n].agent = IF waits(n) THEN event.agent ELSE buffer[n].agent
    BY <2>2, <2>3, NamedIs
  <2>5. DOMAIN named = DOMAIN buffer /\ named \in Seq(Events)
    <3>1. DOMAIN named = 1 .. Len(buffer) /\ Len(buffer) \in Nat /\ DOMAIN named = DOMAIN buffer
      BY <1>0
    <3>2. named = [n \in 1 .. Len(buffer) |-> named[n]]
      BY <3>1
    <3>3. \A n \in 1 .. Len(buffer) : named[n] \in Events
      BY <2>4, <3>1
    <3> HIDE DEF named
    <3> QED
      BY <3>1, <3>2, <3>3, IsASeq
  <2> HIDE DEF named
  <2>6. NamesOwn(named)
    BY <2>2, <2>4, <2>5 DEF BufferOK, NamesOwn
  <2>7. NamesAgents(named)
    <3>1. ASSUME NEW m \in DOMAIN named, NEW n \in DOMAIN named,
                 named[m].kind = "subagent_spawned", named[n].kind = "subagent_result",
                 named[m].tool = named[n].tool
          PROVE  named[n].agent = named[m].agent
      <4>1. /\ buffer[m].kind = "subagent_spawned" /\ buffer[n].kind = "subagent_result"
            /\ buffer[m].tool = buffer[n].tool /\ ~waits(m) /\ named[m].agent = buffer[m].agent
            /\ buffer[n].agent = buffer[m].agent /\ buffer[m].agent = buffer[m].tool
        BY <2>4, <2>5, <3>1 DEF BufferOK, NamesOwn, NamesAgents
      <4> QED
        BY <2>2, <2>4, <2>5, <4>1
    <3> QED
      BY <3>1 DEF NamesAgents
  <2>8. \A n \in DOMAIN named :
          named[n].kind = "subagent_result" /\ named[n].tool = event.tool => named[n].agent = event.agent
    BY <2>2, <2>4, <2>5 DEF BufferOK, NamesOwn
  <2>9. BufferOK(Push(named, event))
    BY <1>0, <1>2, <2>2, <2>6, <2>7, <2>8, PushKeeps DEF BufferOK
  <2>10. Grown(named, event, Push(named, event))
    BY <1>0, <2>5, PushGrows
  <2> QED
    BY <1>0, <2>1, <2>4, <2>5, <2>9, <2>10, SameCounts
<1>3. CASE event.kind = "subagent_result" /\ Spawns(buffer, event.tool) = {}
  <2>1. Resolve(buffer, event) = Push(buffer, event)
    BY <1>3 DEF Resolve
  <2>2. BufferOK(Push(buffer, event))
    BY <1>0, <1>3, PushKeeps DEF IsNew, Spawns
  <2> QED
    BY <1>0, <2>1, <2>2, PushGrows
<1>4. CASE event.kind \notin {"subagent_spawned", "subagent_result"}
  <2>1. Resolve(buffer, event) = Push(buffer, event)
    BY <1>4 DEF Resolve
  <2>2. BufferOK(Push(buffer, event))
    BY <1>0, <1>4, PushKeeps
  <2> QED
    BY <1>0, <2>1, <2>2, PushGrows
<1> QED
  BY <1>1, <1>2, <1>3, <1>4

-----------------------------------------------------------------------------
(* The list and the counters after a step.                                   *)

NumberOf(new, kind) == Cardinality({n \in DOMAIN new : new[n].kind = kind})

LEMMA NumberIs ==
  ASSUME NEW new \in NewEvents, NEW kind
  PROVE  /\ Len(new) \in 0 .. 2
         /\ Len(new) = 0 => NumberOf(new, kind) = 0
         /\ Len(new) = 1 => NumberOf(new, kind) = One(new[1].kind = kind)
         /\ Len(new) = 2 => NumberOf(new, kind) = One(new[1].kind = kind) + One(new[2].kind = kind)
<1> DEFINE places == {n \in DOMAIN new : new[n].kind = kind}
<1>1. new \in Seq(Events) /\ Len(new) \in 0 .. 2 /\ DOMAIN new = 1 .. Len(new)
  <2>1. new \in Seq(Events) /\ Len(new) <= 2
    BY DEF NewEvents
  <2>2. Len(new) \in Nat /\ DOMAIN new = 1 .. Len(new)
    BY <2>1
  <2> QED
    BY <2>1, <2>2
<1>2. /\ Cardinality({}) = 0 /\ Cardinality({1}) = 1 /\ Cardinality({2}) = 1
      /\ Cardinality({1, 2}) = 2
  <2>1. Cardinality({}) = 0 /\ Cardinality({1}) = 1 /\ Cardinality({2}) = 1 /\ IsFiniteSet({1})
    BY FS_EmptySet, FS_Singleton
  <2>2. 2 \notin {1} /\ {1} \cup {2} = {1, 2}
    OBVIOUS
  <2> QED
    BY <2>1, <2>2, FS_AddElement
<1>0. NumberOf(new, kind) = Cardinality(places)
  BY DEF NumberOf
<1>3. CASE Len(new) = 0
  <2>1. places = {}
    BY <1>1, <1>3
  <2> HIDE DEF places
  <2> QED
    BY <1>0, <1>1, <1>2, <1>3, <2>1
<1>4. CASE Len(new) = 1
  <2>1. places = IF new[1].kind = kind THEN {1} ELSE {}
    BY <1>1, <1>4
  <2> HIDE DEF places
  <2> QED
    BY <1>0, <1>1, <1>2, <1>4, <2>1 DEF One
<1>5. CASE Len(new) = 2
  <2>0. DOMAIN new = {1, 2}
    BY <1>1, <1>5
  <2>1. places = (IF new[1].kind = kind THEN {1} ELSE {}) \cup (IF new[2].kind = kind THEN {2} ELSE {})
    BY <2>0
  <2>2. CASE new[1].kind = kind /\ new[2].kind = kind
    <3>1. places = {1, 2}
      BY <2>0, <2>2
    <3> HIDE DEF places
    <3> QED
      BY <1>0, <1>1, <1>2, <1>5, <2>2, <3>1 DEF One
  <2>3. CASE new[1].kind = kind /\ new[2].kind # kind
    <3>1. places = {1}
      BY <2>0, <2>3
    <3> HIDE DEF places
    <3> QED
      BY <1>0, <1>1, <1>2, <1>5, <2>3, <3>1 DEF One
  <2>4. CASE new[1].kind # kind /\ new[2].kind = kind
    <3>1. places = {2}
      BY <2>0, <2>4
    <3> HIDE DEF places
    <3> QED
      BY <1>0, <1>1, <1>2, <1>5, <2>4, <3>1 DEF One
  <2>5. CASE new[1].kind # kind /\ new[2].kind # kind
    <3>1. places = {}
      BY <2>0, <2>5
    <3> HIDE DEF places
    <3> QED
      BY <1>0, <1>1, <1>2, <1>5, <2>5, <3>1 DEF One
  <2> QED
    BY <2>2, <2>3, <2>4, <2>5
<1> QED
  BY <1>1, <1>3, <1>4, <1>5

Least(m, n) == IF m < n THEN m ELSE n

Refusals == counters["denied"] + counters["cancelled"]

\* The list has the first denials and the first others, up to their budgets.
EventsExact ==
  /\ BufferOK(events) /\ counters \in [Kinds -> Nat]
  /\ Cardinality(DenialPlaces(events)) = Least(DenialBudget, Refusals)
  /\ Cardinality(OtherPlaces(events)) <= OtherBudget

LEMMA LeastNext ==
  ASSUME NEW b \in Nat, NEW c \in Nat, NEW P
  PROVE  Least(b, c + One(P)) = Least(b, c) + One(P /\ Least(b, c) < b)
BY DEF Least, One

LEMMA ResolvedKeeps ==
  ASSUME EventsExact, NEW new \in NewEvents,
         NEW refused, refused = NumberOf(new, "denied") + NumberOf(new, "cancelled")
  PROVE  /\ BufferOK(Resolved(events, new)) /\ refused \in Nat
         /\ Cardinality(DenialPlaces(Resolved(events, new))) = Least(DenialBudget, Refusals + refused)
         /\ Cardinality(OtherPlaces(Resolved(events, new))) <= OtherBudget
<1>1. /\ DenialBudget \in Nat /\ OtherBudget \in Nat /\ Refusals \in Nat /\ BufferOK(events)
      /\ Len(new) \in 0 .. 2
  BY AccountAssumption, NumberIs DEF EventsExact, Refusals, Kinds
<1>2. \A n \in DOMAIN new : IsNew(new[n])
  BY DEF NewEvents
<1>3. DOMAIN new = 1 .. Len(new)
  BY DEF NewEvents
<1>4. Cardinality(OtherPlaces(events)) \in Nat
  BY PlacesCounted DEF EventsExact, BufferOK, NamesOwn
<1>5. \A e : One(Denied(e)) = One(e.kind = "denied") + One(e.kind = "cancelled")
  BY DEF Denied, One
<1>6. CASE Len(new) = 0
  <2>1. refused = 0 /\ Resolved(events, new) = events
    BY <1>6, NumberIs, ResolvedIs
  <2> QED
    BY <1>1, <2>1 DEF EventsExact
<1>7. CASE Len(new) = 1
  <2>1. IsNew(new[1]) /\ Resolved(events, new) = Resolve(events, new[1])
    BY <1>1, <1>2, <1>3, <1>7, ResolvedIs
  <2>2. refused = One(Denied(new[1]))
    BY <1>5, <1>7, NumberIs
  <2>3. BufferOK(Resolved(events, new)) /\ Grown(events, new[1], Resolved(events, new))
    BY <1>1, <2>1, ResolveKeeps
  <2>4. Least(DenialBudget, Refusals + refused)
          = Least(DenialBudget, Refusals)
            + One(Denied(new[1]) /\ Least(DenialBudget, Refusals) < DenialBudget)
    BY <1>1, <2>2, LeastNext
  <2> QED
    BY <1>1, <1>4, <2>2, <2>3, <2>4 DEF Grown, EventsExact, One
<1>8. CASE Len(new) = 2
  <2> DEFINE first == Resolve(events, new[1])
             last == Resolve(first, new[2])
  <2>1. IsNew(new[1]) /\ IsNew(new[2]) /\ Resolved(events, new) = last
    BY <1>1, <1>2, <1>3, <1>8, ResolvedIs
  <2>2. refused = One(Denied(new[1])) + One(Denied(new[2]))
    <3>1. /\ NumberOf(new, "denied") = One(new[1].kind = "denied") + One(new[2].kind = "denied")
          /\ NumberOf(new, "cancelled") = One(new[1].kind = "cancelled") + One(new[2].kind = "cancelled")
      BY <1>8, NumberIs
    <3> QED
      BY <1>5, <3>1 DEF One
  <2>3. BufferOK(first) /\ Grown(events, new[1], first)
    BY <1>1, <2>1, ResolveKeeps
  <2> HIDE DEF first
  <2>4. BufferOK(last) /\ Grown(first, new[2], last)
    BY <2>1, <2>3, ResolveKeeps
  <2> HIDE DEF last
  <2>5. Cardinality(DenialPlaces(first)) = Least(DenialBudget, Refusals + One(Denied(new[1])))
    BY <1>1, <2>3, LeastNext DEF Grown, EventsExact
  <2>6. Cardinality(DenialPlaces(last)) =
          Least(DenialBudget, (Refusals + One(Denied(new[1]))) + One(Denied(new[2])))
    <3>1. Refusals + One(Denied(new[1])) \in Nat
      BY <1>1 DEF One
    <3>2. PICK c \in Nat : c = Refusals + One(Denied(new[1]))
      BY <3>1
    <3>3. Least(DenialBudget, c + One(Denied(new[2])))
            = Least(DenialBudget, c) + One(Denied(new[2]) /\ Least(DenialBudget, c) < DenialBudget)
      BY <1>1, LeastNext
    <3> QED
      BY <2>4, <2>5, <3>2, <3>3 DEF Grown
  <2>7. Cardinality(OtherPlaces(first)) \in Nat /\ Cardinality(OtherPlaces(first)) <= OtherBudget
    BY <1>1, <1>4, <2>3 DEF Grown, EventsExact, One
  <2>8. Cardinality(OtherPlaces(last)) <= OtherBudget
    BY <1>1, <2>4, <2>7 DEF Grown, One
  <2>9. refused \in Nat /\ Refusals + refused = (Refusals + One(Denied(new[1]))) + One(Denied(new[2]))
    BY <1>1, <2>2 DEF One
  <2> QED
    BY <2>1, <2>4, <2>6, <2>8, <2>9
<1> QED
  BY <1>1, <1>6, <1>7, <1>8

LEMMA EventsStep ==
  ASSUME EventsExact, NEW new \in NewEvents, AppendEvents(new), Count(new)
  PROVE  /\ EventsExact'
         /\ \A k \in Kinds : /\ NumberOf(new, k) \in Nat
                             /\ counters'[k] = counters[k] + NumberOf(new, k)
<1>1. ASSUME NEW k \in Kinds PROVE NumberOf(new, k) \in Nat
  BY NumberIs DEF One
<1>2. counters' = [k \in Kinds |-> counters[k] + NumberOf(new, k)]
  BY DEF Count, NumberOf
<1>3. counters' \in [Kinds -> Nat]
  BY <1>1, <1>2 DEF EventsExact
<1>4. PICK refused : refused = NumberOf(new, "denied") + NumberOf(new, "cancelled")
  OBVIOUS
<1>5. Refusals' = Refusals + refused
  BY <1>1, <1>2, <1>4 DEF Refusals, Kinds, EventsExact
<1>6. events' = Resolved(events, new)
  BY DEF AppendEvents
<1>7. /\ BufferOK(Resolved(events, new))
      /\ Cardinality(DenialPlaces(Resolved(events, new))) = Least(DenialBudget, Refusals + refused)
      /\ Cardinality(OtherPlaces(Resolved(events, new))) <= OtherBudget
  BY <1>4, ResolvedKeeps
<1>8. EventsExact'
  BY <1>3, <1>5, <1>6, <1>7 DEF EventsExact, BufferOK, NamesOwn, NamesAgents
<1> QED
  BY <1>1, <1>2, <1>8

-----------------------------------------------------------------------------
(* The calls of the transcripts, their results, and the parsers' tables.      *)

IsCall(line)   == line.type = "chunk" /\ line.use # NoTool
CallAt(a, n)   == IsCall(log[a][n])
ResultAt(a, n) == log[a][n].type = "result"

\* What Claude Code writes: an id names one call, whose only result comes after it.
LinesOK ==
  \A a \in Actors :
    /\ \A n \in DOMAIN log[a] : CallAt(a, n) => log[a][n].use.id \in UseIds
    /\ \A b \in Actors : \A m \in DOMAIN log[a], n \in DOMAIN log[b] :
         CallAt(a, m) /\ CallAt(b, n) /\ log[a][m].use.id = log[b][n].use.id => a = b /\ m = n
    /\ \A n \in DOMAIN log[a] : ResultAt(a, n) =>
         \E m \in 1 .. n - 1 : CallAt(a, m) /\ log[a][m].use.id = log[a][n].id
    /\ \A m, n \in DOMAIN log[a] :
         ResultAt(a, m) /\ ResultAt(a, n) /\ log[a][m].id = log[a][n].id => m = n

CanWrite(a, line) ==
  /\ IsCall(line) =>
       /\ line.use.id \in UseIds
       /\ \A b \in Actors : \A n \in DOMAIN log[b] : CallAt(b, n) => log[b][n].use.id # line.use.id
  /\ line.type = "result" =>
       /\ \E m \in DOMAIN log[a] : CallAt(a, m) /\ log[a][m].use.id = line.id
       /\ ResultsIn(a, line.id) = {}

\* The calls of a transcript that have no result.
Waits(a) == {use \in UsesIn(a) : ResultsIn(a, use.id) = {}}

LEMMA UsesAre ==
  ASSUME NEW a, NEW use
  PROVE  use \in UsesIn(a) <=> \E n \in DOMAIN log[a] : CallAt(a, n) /\ log[a][n].use = use
BY DEF UsesIn, CallAt, IsCall

LEMMA LinesStep ==
  ASSUME LogType, LinesOK, NEW a \in Actors, NEW line, CanWrite(a, line), Appended(a, line)
  PROVE  LinesOK'
<1>0. PICK last : last = Len(log[a]) + 1
  OBVIOUS
<1>1. /\ log'[a][last] = line /\ \A k \in DOMAIN log[a] : log'[a][k] = log[a][k]
      /\ DOMAIN log'[a] = DOMAIN log[a] \cup {last} /\ last \notin DOMAIN log[a]
      /\ \A b \in Actors \ {a} : log'[b] = log[b]
      /\ DOMAIN log[a] = 1 .. last - 1 /\ last \in Nat \ {0}
  BY <1>0, LogLines, AppendedLines
<1>2. \A b \in Actors : \A n \in DOMAIN log[b] :
        /\ n \in DOMAIN log'[b] /\ log'[b][n] = log[b][n]
        /\ (CallAt(b, n)' <=> CallAt(b, n)) /\ (ResultAt(b, n)' <=> ResultAt(b, n))
  BY <1>1 DEF CallAt, ResultAt, IsCall
<1>3. (CallAt(a, last)' <=> IsCall(line)) /\ (ResultAt(a, last)' <=> line.type = "result")
  BY <1>1 DEF CallAt, ResultAt, IsCall
<1>4. \A b \in Actors : \A n \in DOMAIN log'[b] : n \in DOMAIN log[b] \/ (b = a /\ n = last)
  BY <1>1
<1>5. ASSUME NEW b \in Actors, NEW n \in DOMAIN log'[b], CallAt(b, n)'
      PROVE  log'[b][n].use.id \in UseIds
  BY <1>1, <1>2, <1>3, <1>4, <1>5 DEF LinesOK, CanWrite
<1>6. ASSUME NEW b \in Actors, NEW c \in Actors, NEW m \in DOMAIN log'[b], NEW n \in DOMAIN log'[c],
             CallAt(b, m)', CallAt(c, n)', log'[b][m].use.id = log'[c][n].use.id
      PROVE  b = c /\ m = n
  <2>1. CASE m \in DOMAIN log[b] /\ n \in DOMAIN log[c]
    BY <1>2, <1>6, <2>1 DEF LinesOK
  <2>2. CASE m \notin DOMAIN log[b] /\ n \in DOMAIN log[c]
    BY <1>1, <1>2, <1>3, <1>4, <1>6, <2>2 DEF CanWrite
  <2>3. CASE m \in DOMAIN log[b] /\ n \notin DOMAIN log[c]
    BY <1>1, <1>2, <1>3, <1>4, <1>6, <2>3 DEF CanWrite
  <2>4. CASE m \notin DOMAIN log[b] /\ n \notin DOMAIN log[c]
    BY <1>4, <2>4
  <2> QED
    BY <2>1, <2>2, <2>3, <2>4
<1>7. ASSUME NEW b \in Actors, NEW n \in DOMAIN log'[b], ResultAt(b, n)'
      PROVE  \E m \in 1 .. n - 1 : CallAt(b, m)' /\ log'[b][m].use.id = log'[b][n].id
  <2>1. CASE n \in DOMAIN log[b]
    <3>1. PICK m \in 1 .. n - 1 : CallAt(b, m) /\ log[b][m].use.id = log[b][n].id
      BY <1>2, <1>7, <2>1 DEF LinesOK
    <3>2. m \in DOMAIN log[b]
      BY <2>1, LogLines
    <3> QED
      BY <1>2, <2>1, <3>1, <3>2
  <2>2. CASE n \notin DOMAIN log[b]
    <3>1. b = a /\ n = last /\ line.type = "result"
      BY <1>3, <1>4, <1>7, <2>2
    <3>2. PICK m \in DOMAIN log[a] : CallAt(a, m) /\ log[a][m].use.id = line.id
      BY <3>1 DEF CanWrite
    <3>3. m \in 1 .. last - 1
      BY <1>1
    <3> QED
      BY <1>1, <1>2, <3>1, <3>2, <3>3
  <2> QED
    BY <2>1, <2>2
<1>8. ASSUME NEW b \in Actors, NEW m \in DOMAIN log'[b], NEW n \in DOMAIN log'[b],
             ResultAt(b, m)', ResultAt(b, n)', log'[b][m].id = log'[b][n].id
      PROVE  m = n
  <2>1. CASE m \in DOMAIN log[b] /\ n \in DOMAIN log[b]
    BY <1>2, <1>8, <2>1 DEF LinesOK
  <2>2. CASE m \notin DOMAIN log[b] /\ n \in DOMAIN log[b]
    BY <1>1, <1>2, <1>3, <1>4, <1>8, <2>2 DEF CanWrite, ResultsIn, ResultAt
  <2>3. CASE m \in DOMAIN log[b] /\ n \notin DOMAIN log[b]
    BY <1>1, <1>2, <1>3, <1>4, <1>8, <2>3 DEF CanWrite, ResultsIn, ResultAt
  <2>4. CASE m \notin DOMAIN log[b] /\ n \notin DOMAIN log[b]
    BY <1>4, <2>4
  <2> QED
    BY <2>1, <2>2, <2>3, <2>4
<1> QED
  BY <1>5, <1>6, <1>7, <1>8 DEF LinesOK

\* The results of a call, and the calls that wait, after a line.
LEMMA WaitsNext ==
  ASSUME LogType, LinesOK, NEW a \in Actors, NEW line, CanWrite(a, line), Appended(a, line)
  PROVE  /\ \A b \in Actors : \A id : ResultsIn(b, id)' =
               ResultsIn(b, id) \cup (IF b = a /\ line.type = "result" /\ line.id = id
                                      THEN {Len(log[a]) + 1} ELSE {})
         /\ \A b \in Actors \ {a} : Waits(b)' = Waits(b)
         /\ Waits(a)' = IF IsCall(line) THEN Waits(a) \cup {line.use}
                        ELSE IF line.type = "result" THEN {use \in Waits(a) : use.id # line.id}
                        ELSE Waits(a)
<1>0. PICK last : last = Len(log[a]) + 1
  OBVIOUS
<1>1. /\ log'[a][last] = line /\ \A k \in DOMAIN log[a] : log'[a][k] = log[a][k]
      /\ DOMAIN log'[a] = DOMAIN log[a] \cup {last} /\ last \notin DOMAIN log[a]
      /\ \A b \in Actors \ {a} : log'[b] = log[b]
  BY <1>0, LogLines, AppendedLines
<1>2. \A b \in Actors \ {a} : \A id : ResultsIn(b, id)' = ResultsIn(b, id) /\ UsesIn(b)' = UsesIn(b)
  BY <1>1 DEF ResultsIn, UsesIn
<1>3. \A id : ResultsIn(a, id)' =
        ResultsIn(a, id) \cup (IF line.type = "result" /\ line.id = id THEN {last} ELSE {})
  BY <1>1 DEF ResultsIn
<1>4. UsesIn(a)' = IF IsCall(line) THEN UsesIn(a) \cup {line.use} ELSE UsesIn(a)
  <2>1. \A use : use \in UsesIn(a)' <=> \E n \in DOMAIN log'[a] : IsCall(log'[a][n]) /\ log'[a][n].use = use
    BY DEF UsesIn, IsCall
  <2>2. \A use : use \in UsesIn(a) <=> \E n \in DOMAIN log[a] : IsCall(log[a][n]) /\ log[a][n].use = use
    BY DEF UsesIn, IsCall
  <2>3. \A use : use \in UsesIn(a)' <=> use \in UsesIn(a) \/ (IsCall(line) /\ line.use = use)
    BY <1>1, <2>1, <2>2
  <2> QED
    BY <2>3
<1>5. IsCall(line) => ResultsIn(a, line.use.id) = {}
  <2>1. ASSUME IsCall(line), NEW n \in ResultsIn(a, line.use.id) PROVE FALSE
    <3>1. PICK m \in 1 .. n - 1 : CallAt(a, m) /\ log[a][m].use.id = line.use.id
      BY DEF LinesOK, ResultsIn, ResultAt
    <3>2. m \in DOMAIN log[a]
      BY LogLines DEF ResultsIn
    <3> QED
      BY <2>1, <3>1, <3>2 DEF CanWrite
  <2> QED
    BY <2>1
<1>6. \A use : use \in Waits(a)' <=> use \in UsesIn(a)' /\ ResultsIn(a, use.id)' = {}
  BY DEF Waits
<1>7. \A use : use \in Waits(a) <=> use \in UsesIn(a) /\ ResultsIn(a, use.id) = {}
  BY DEF Waits
<1>8. \A use : ResultsIn(a, use.id)' = {} <=>
        ResultsIn(a, use.id) = {} /\ ~ (line.type = "result" /\ line.id = use.id)
  BY <1>3
<1>9. Waits(a)' = IF IsCall(line) THEN Waits(a) \cup {line.use}
                  ELSE IF line.type = "result" THEN {use \in Waits(a) : use.id # line.id}
                  ELSE Waits(a)
  <2> DEFINE after == IF IsCall(line) THEN Waits(a) \cup {line.use}
                      ELSE IF line.type = "result" THEN {use \in Waits(a) : use.id # line.id}
                      ELSE Waits(a)
  <2>1. ASSUME NEW u PROVE u \in Waits(a)' <=> u \in after
    <3>1. CASE IsCall(line)
      BY <1>4, <1>5, <1>6, <1>7, <1>8, <3>1 DEF IsCall
    <3>2. CASE ~IsCall(line) /\ line.type = "result"
      BY <1>4, <1>6, <1>7, <1>8, <3>2
    <3>3. CASE ~IsCall(line) /\ line.type # "result"
      BY <1>4, <1>6, <1>7, <1>8, <3>3
    <3> QED
      BY <3>1, <3>2, <3>3
  <2>2. PICK waiting : waiting = Waits(a)'
    OBVIOUS
  <2> HIDE DEF after
  <2>3. waiting = after
    BY <2>1, <2>2
  <2> QED
    BY <2>2, <2>3 DEF after
<1>10. \A b \in Actors \ {a} : Waits(b)' = Waits(b)
  BY <1>2 DEF Waits
<1>11. \A b \in Actors : \A id : ResultsIn(b, id)' =
         ResultsIn(b, id) \cup (IF b = a /\ line.type = "result" /\ line.id = id
                                THEN {Len(log[a]) + 1} ELSE {})
  <2>1. ASSUME NEW b \in Actors, NEW id, b # a
        PROVE  ResultsIn(b, id)' = ResultsIn(b, id)
    BY <1>2, <2>1
  <2> QED
    BY <1>0, <1>3, <2>1
<1> QED
  BY <1>9, <1>10, <1>11

LEMMA UnansweredIs ==
  ASSUME LogType, NEW a \in Actors
  PROVE  Unanswered(a, Len(log[a])) = Waits(a)
BY LogLines DEF Unanswered, Waits, UsesIn, ResultsIn

LEMMA UnansweredStable ==
  ASSUME LogType, NEW a \in Actors, NEW line, Appended(a, line),
         NEW b \in Actors, NEW n \in DOMAIN log[b]
  PROVE  Unanswered(b, n)' = Unanswered(b, n)
<1>1. \A k \in 1 .. n : log'[b][k] = log[b][k]
  BY LogLines, AppendedLines
<1>2. {k \in 1 .. n : log'[b][k].type = "chunk"} = {k \in 1 .. n : log[b][k].type = "chunk"}
  BY <1>1
<1>3. {log'[b][m].use : m \in {k \in 1 .. n : log'[b][k].type = "chunk"}}
        = {log[b][m].use : m \in {k \in 1 .. n : log[b][k].type = "chunk"}}
  BY <1>1, <1>2
<1> QED
  BY <1>1, <1>3 DEF Unanswered

LEMMA FullStays ==
  ASSUME LogType, NEW a \in Actors, NEW line, Appended(a, line), NeverFull'
  PROVE  NeverFull /\ Cardinality(Waits(a)') <= MaxPending
<1>1. LogType' /\ DOMAIN log'[a] = 1 .. Len(log[a]) + 1 /\ Len(log[a]) \in Nat
      /\ Len(log'[a]) = Len(log[a]) + 1 /\ DOMAIN log[a] = 1 .. Len(log[a])
      /\ \A b \in Actors \ {a} : log'[b] = log[b]
  BY LogLines, AppendedLines
<1>2. ASSUME NEW b \in Actors, NEW n \in DOMAIN log[b]
      PROVE  Cardinality(Unanswered(b, n)) <= MaxPending
  <2>1. n \in DOMAIN log'[b]
    BY <1>1
  <2>2. Cardinality(Unanswered(b, n)') <= MaxPending
    BY <2>1 DEF NeverFull
  <2> QED
    BY <2>2, UnansweredStable
<1>3. Unanswered(a, Len(log[a]))' = Waits(a)'
  <2>1. Len(log'[a]) \in Nat /\ DOMAIN log'[a] = 1 .. Len(log'[a])
    BY <1>1
  <2> QED
    BY <2>1 DEF Unanswered, Waits, UsesIn, ResultsIn
<1>4. Cardinality(Unanswered(a, Len(log[a]))') <= MaxPending
  <2>1. Len(log'[a]) \in DOMAIN log'[a]
    BY <1>1
  <2> QED
    BY <2>1 DEF NeverFull
<1> QED
  BY <1>2, <1>3, <1>4 DEF NeverFull

\* A line as Claude Code writes it.
IsLine(a, line) ==
  \/ \E p \in Prompts[a] :
       line = [type |-> "prompt", pid |-> p.pid, slash |-> p.slash, mode |-> p.mode]
  \/ \E r \in Requests, c \in Chunks[a] : \E use \in ToolUses(a, c.tool) :
       line = [type |-> "chunk", request |-> r, usage |-> Len(log[a]) + 1,
               use |-> use, text |-> c.text, stop |-> c.stop, model |-> c.model]
  \/ \E id \in UseIds, denial \in Denials, isError \in BOOLEAN :
       line = [type |-> "result", id |-> id, denial |-> denial, isError |-> isError]
  \/ a = Main /\ \E kind \in Notices : line = [type |-> "notice", notice |-> kind]

\* Every line that is read is one.
LEMMA WrittenLine ==
  ASSUME LogType, LinesOK, NEW a \in Actors
  PROVE  /\ WritePrompt(a) => \E line : Read(a, line) /\ IsLine(a, line) /\ CanWrite(a, line)
         /\ WriteChunk(a) => \E line : Read(a, line) /\ IsLine(a, line) /\ CanWrite(a, line)
         /\ WriteResult(a) => \E line : Read(a, line) /\ IsLine(a, line) /\ CanWrite(a, line)
         /\ WriteNotice => \E line : Read(Main, line) /\ IsLine(Main, line) /\ CanWrite(Main, line)
<1>1. ASSUME WritePrompt(a)
      PROVE  \E line : Read(a, line) /\ IsLine(a, line) /\ CanWrite(a, line)
  <2>1. PICK p \in Prompts[a] :
          Read(a, [type |-> "prompt", pid |-> p.pid, slash |-> p.slash, mode |-> p.mode])
    BY <1>1 DEF WritePrompt
  <2>2. PICK line : line = [type |-> "prompt", pid |-> p.pid, slash |-> p.slash, mode |-> p.mode]
    OBVIOUS
  <2>3. CanWrite(a, line)
    BY <2>2 DEF CanWrite, IsCall
  <2>4. IsLine(a, line)
    BY <2>2 DEF IsLine
  <2> QED
    BY <2>1, <2>2, <2>3, <2>4
<1>2. ASSUME WriteChunk(a)
      PROVE  \E line : Read(a, line) /\ IsLine(a, line) /\ CanWrite(a, line)
  <2>1. PICK r \in Requests, c \in Chunks[a] : \E use \in ToolUses(a, c.tool) :
          /\ use # NoTool => \A b \in Actors : use.id \notin {u.id : u \in UsesIn(b)}
          /\ Read(a, [type |-> "chunk", request |-> r, usage |-> Len(log[a]) + 1,
                      use |-> use, text |-> c.text, stop |-> c.stop, model |-> c.model])
    BY <1>2 DEF WriteChunk
  <2>2. PICK use \in ToolUses(a, c.tool) :
          /\ use # NoTool => \A b \in Actors : use.id \notin {u.id : u \in UsesIn(b)}
          /\ Read(a, [type |-> "chunk", request |-> r, usage |-> Len(log[a]) + 1,
                      use |-> use, text |-> c.text, stop |-> c.stop, model |-> c.model])
    BY <2>1
  <2>3. PICK line : line = [type |-> "chunk", request |-> r, usage |-> Len(log[a]) + 1,
                            use |-> use, text |-> c.text, stop |-> c.stop, model |-> c.model]
    OBVIOUS
  <2>4. IsLine(a, line)
    BY <2>3 DEF IsLine
  <2>5. line.type = "chunk" /\ line.use = use
    BY <2>3
  <2>6. use # NoTool => use.id \in UseIds
    <3>1. <<a, Len(log[a]) + 1>> \in UseIds
      BY LogLines DEF UseIds
    <3> QED
      BY <3>1 DEF ToolUses, UseIds
  <2>7. ASSUME use # NoTool, NEW b \in Actors, NEW n \in DOMAIN log[b], CallAt(b, n)
        PROVE  log[b][n].use.id # use.id
    BY <2>2, <2>7, UsesAre
  <2>8. CanWrite(a, line)
    BY <2>5, <2>6, <2>7 DEF CanWrite, IsCall
  <2> QED
    BY <2>2, <2>3, <2>4, <2>8
<1>3. ASSUME WriteResult(a)
      PROVE  \E line : Read(a, line) /\ IsLine(a, line) /\ CanWrite(a, line)
  <2>1. PICK use \in UsesIn(a), denial \in Denials, isError \in BOOLEAN :
          /\ ResultsIn(a, use.id) = {}
          /\ Read(a, [type |-> "result", id |-> use.id, denial |-> denial, isError |-> isError])
    BY <1>3 DEF WriteResult
  <2>2. PICK line : line = [type |-> "result", id |-> use.id, denial |-> denial, isError |-> isError]
    OBVIOUS
  <2>3. CanWrite(a, line)
    BY <2>1, <2>2, UsesAre DEF CanWrite, IsCall
  <2>4. use.id \in UseIds
    BY UsesAre DEF LinesOK
  <2>5. IsLine(a, line)
    BY <2>2, <2>4 DEF IsLine
  <2> QED
    BY <2>1, <2>2, <2>3, <2>5
<1>4. ASSUME WriteNotice
      PROVE  \E line : Read(Main, line) /\ IsLine(Main, line) /\ CanWrite(Main, line)
  <2>1. PICK kind \in Notices : Read(Main, [type |-> "notice", notice |-> kind])
    BY <1>4 DEF WriteNotice
  <2>2. PICK line : line = [type |-> "notice", notice |-> kind]
    OBVIOUS
  <2>3. IsLine(Main, line) /\ CanWrite(Main, line)
    BY <2>2 DEF IsLine, CanWrite, IsCall
  <2> QED
    BY <2>1, <2>2, <2>3
<1> QED
  BY <1>1, <1>2, <1>3, <1>4

\* A parser holds some of the calls that wait, all of them while its table was never full.
ParsersOK ==
  /\ parsers = [a \in Actors |-> [pending |-> parsers[a].pending, mode |-> parsers[a].mode]]
  /\ \A a \in Actors :
       /\ parsers[a].pending \subseteq Waits(a) /\ IsFiniteSet(parsers[a].pending)
       /\ Cardinality(parsers[a].pending) <= MaxPending
       /\ NeverFull => parsers[a].pending = Waits(a)

\* What a line does to the table of its file.
LEMMA PendingNext ==
  ASSUME NEW a \in Actors, NEW line, IsLine(a, line), ParsersOK,
         NEW after, after = Parse(parsers[a], line, a).parser
  PROVE  /\ after = [pending |-> after.pending, mode |-> after.mode]
         /\ after.pending =
              IF IsCall(line) THEN RememberToolUse(parsers[a].pending, line.use)
              ELSE IF line.type = "result"
                   THEN parsers[a].pending \ PendingUse(parsers[a].pending, line.id)
              ELSE parsers[a].pending
<1>1. PICK pending, mode : parsers[a] = [pending |-> pending, mode |-> mode]
  BY DEF ParsersOK
<1>2. CASE line.type = "prompt"
  <2>1. after = ParsePrompt(parsers[a], line, a).parser
    BY <1>2 DEF Parse
  <2>2. after = IF a = Main THEN [parsers[a] EXCEPT !.mode = IF line.mode = NoMode THEN @ ELSE line.mode]
                ELSE parsers[a]
    BY <2>1 DEF ParsePrompt
  <2> QED
    BY <1>1, <1>2, <2>2 DEF IsCall
<1>3. CASE line.type = "chunk"
  <2>1. after = ParseChunk(parsers[a], line, a).parser
    BY <1>3 DEF Parse
  <2>2. after = [parsers[a] EXCEPT !.pending =
                   IF line.use = NoTool THEN @ ELSE RememberToolUse(@, line.use)]
    BY <2>1 DEF ParseChunk
  <2> QED
    BY <1>1, <1>3, <2>2 DEF IsCall
<1>4. CASE line.type = "result"
  <2>1. after = ParseResult(parsers[a], line, a).parser
    BY <1>4 DEF Parse
  <2>2. after = [parsers[a] EXCEPT !.pending = @ \ PendingUse(parsers[a].pending, line.id)]
    BY <2>1 DEF ParseResult
  <2> QED
    BY <1>1, <1>4, <2>2 DEF IsCall
<1>5. CASE line.type = "notice"
  <2>1. after = ParseNotice(parsers[a], line).parser
    BY <1>5 DEF Parse
  <2>2. after = parsers[a]
    BY <2>1 DEF ParseNotice
  <2> QED
    BY <1>1, <1>5, <2>2 DEF IsCall
<1> QED
  BY <1>2, <1>3, <1>4, <1>5 DEF IsLine

LEMMA ParsersStep ==
  ASSUME LogType, LinesOK, ParsersOK, NEW a \in Actors, NEW line, IsLine(a, line),
         CanWrite(a, line), Appended(a, line),
         parsers' = [parsers EXCEPT ![a] = Parse(parsers[a], line, a).parser]
  PROVE  ParsersOK'
<1>1. PICK after : after = Parse(parsers[a], line, a).parser
  OBVIOUS
<1>2. after = [pending |-> after.pending, mode |-> after.mode]
  BY <1>1, PendingNext
<1>3. PICK pending : pending = parsers[a].pending
  OBVIOUS
<1>4. /\ IsFiniteSet(pending) /\ Cardinality(pending) \in Nat /\ Cardinality(pending) <= MaxPending
      /\ pending \subseteq Waits(a) /\ (NeverFull => pending = Waits(a)) /\ MaxPending \in Nat \ {0}
  BY <1>3, ParserAssumption, FS_CardinalityType DEF ParsersOK
<1>5. /\ parsers'[a] = after /\ \A b \in Actors \ {a} : parsers'[b] = parsers[b]
      /\ parsers' = [b \in Actors |-> [pending |-> parsers'[b].pending, mode |-> parsers'[b].mode]]
  BY <1>1, <1>2 DEF ParsersOK
<1>6. NeverFull' => NeverFull /\ Cardinality(Waits(a)') <= MaxPending
  BY FullStays
<1>7. \A b \in Actors \ {a} : Waits(b)' = Waits(b)
  BY WaitsNext
<1>8. Waits(a)' = IF IsCall(line) THEN Waits(a) \cup {line.use}
                  ELSE IF line.type = "result" THEN {use \in Waits(a) : use.id # line.id}
                  ELSE Waits(a)
  BY WaitsNext
<1>11. after.pending = IF IsCall(line) THEN RememberToolUse(pending, line.use)
                       ELSE IF line.type = "result" THEN pending \ PendingUse(pending, line.id)
                       ELSE pending
  BY <1>1, <1>3, PendingNext
<1>9. /\ after.pending \subseteq Waits(a)' /\ IsFiniteSet(after.pending)
      /\ Cardinality(after.pending) <= MaxPending
      /\ NeverFull' => after.pending = Waits(a)'
  <2>1. CASE IsCall(line)
    <3>1. after.pending = RememberToolUse(pending, line.use) /\ Waits(a)' = Waits(a) \cup {line.use}
      BY <1>8, <1>11, <2>1
    <3>2. line.use \notin Waits(a)
      BY <2>1, UsesAre DEF CanWrite, Waits
    <3>3. IsFiniteSet({line.use}) /\ Cardinality({line.use}) = 1
      BY FS_Singleton
    <3>4. CASE Cardinality(pending) >= MaxPending
      <4>1. after.pending = {line.use}
        BY <3>1, <3>4 DEF RememberToolUse
      <4>2. ~ NeverFull'
        <5>1. SUFFICES ASSUME NeverFull' PROVE FALSE
          OBVIOUS
        <5>2. pending = Waits(a) /\ Cardinality(pending \cup {line.use}) <= MaxPending
          BY <1>4, <1>6, <3>1, <5>1
        <5>3. Cardinality(pending \cup {line.use}) = Cardinality(pending) + 1
          BY <1>4, <3>2, <5>2, FS_AddElement
        <5> QED
          BY <1>4, <3>4, <5>2, <5>3
      <4> QED
        BY <1>4, <3>1, <3>3, <4>1, <4>2
    <3>5. CASE ~ Cardinality(pending) >= MaxPending
      <4>1. after.pending = pending \cup {line.use}
        BY <3>1, <3>5 DEF RememberToolUse
      <4>0. line.use \notin pending
        BY <1>4, <3>2
      <4>3. /\ IsFiniteSet(pending \cup {line.use})
            /\ Cardinality(pending \cup {line.use}) = Cardinality(pending) + 1
        BY <1>4, <4>0, FS_AddElement
      <4>2. IsFiniteSet(after.pending) /\ Cardinality(after.pending) = Cardinality(pending) + 1
        BY <4>1, <4>3
      <4> QED
        BY <1>4, <1>6, <3>1, <3>5, <4>1, <4>2
    <3> QED
      BY <3>4, <3>5
  <2>2. CASE ~IsCall(line) /\ line.type = "result"
    <3>1. after.pending = pending \ PendingUse(pending, line.id)
          /\ Waits(a)' = {use \in Waits(a) : use.id # line.id}
      BY <1>8, <1>11, <2>2
    <3>2. after.pending = {use \in pending : use.id # line.id}
      BY <3>1 DEF PendingUse
    <3>3. IsFiniteSet(after.pending) /\ Cardinality(after.pending) \in Nat
          /\ Cardinality(after.pending) <= Cardinality(pending)
      BY <1>4, <3>1, FS_Subset, FS_CardinalityType
    <3> QED
      BY <1>4, <1>6, <3>1, <3>2, <3>3
  <2>3. CASE ~IsCall(line) /\ line.type # "result"
    <3>1. after.pending = pending /\ Waits(a)' = Waits(a)
      BY <1>8, <1>11, <2>3
    <3> QED
      BY <1>4, <1>6, <3>1
  <2> QED
    BY <2>1, <2>2, <2>3
<1>10. ASSUME NEW b \in Actors
       PROVE  /\ parsers'[b].pending \subseteq Waits(b)' /\ IsFiniteSet(parsers'[b].pending)
              /\ Cardinality(parsers'[b].pending) <= MaxPending
              /\ NeverFull' => parsers'[b].pending = Waits(b)'
  <2>1. CASE b = a
    BY <1>5, <1>9, <2>1
  <2>2. CASE b # a
    <3>1. parsers'[b] = parsers[b] /\ Waits(b)' = Waits(b)
      BY <1>5, <1>7, <2>2
    <3> QED
      BY <1>6, <3>1 DEF ParsersOK
  <2> QED
    BY <2>1, <2>2
<1> QED
  BY <1>5, <1>10 DEF ParsersOK

-----------------------------------------------------------------------------
(* The events of a line and of a meta file.                                   *)

\* At most two events, each under a condition.
Two(P, d, Q, e) == (IF P THEN <<d>> ELSE <<>>) \o (IF Q THEN <<e>> ELSE <<>>)

LEMMA OneCounted ==
  ASSUME NEW d, IsNew(d)
  PROVE  <<d>> \in NewEvents /\ \A kind : NumberOf(<<d>>, kind) = One(d.kind = kind)
<1>1. <<d>> \in Seq(Events) /\ Len(<<d>>) = 1 /\ DOMAIN <<d>> = {1} /\ <<d>>[1] = d
  BY DEF IsNew
<1>2. <<d>> \in NewEvents
  BY <1>1 DEF NewEvents
<1> QED
  BY <1>1, <1>2, NumberIs

LEMMA NoneCounted == <<>> \in NewEvents /\ \A kind : NumberOf(<<>>, kind) = 0
<1>1. <<>> \in Seq(Events) /\ Len(<<>>) = 0 /\ DOMAIN <<>> = {}
  OBVIOUS
<1>2. <<>> \in NewEvents
  BY <1>1 DEF NewEvents
<1> QED
  BY <1>1, <1>2, NumberIs

LEMMA TwoCounted ==
  ASSUME NEW P, NEW Q, NEW d, NEW e, P => IsNew(d), Q => IsNew(e)
  PROVE  /\ Two(P, d, Q, e) \in NewEvents
         /\ \A kind : NumberOf(Two(P, d, Q, e), kind)
                        = One(P /\ d.kind = kind) + One(Q /\ e.kind = kind)
<1>1. P => d \in Events
  BY DEF IsNew
<1>2. Q => e \in Events
  BY DEF IsNew
<1>3. CASE P /\ Q
  <2>1. Two(P, d, Q, e) = <<d, e>>
    BY <1>3, PairOfEvents DEF Two
  <2>2. /\ <<d, e>> \in Seq(Events) /\ Len(<<d, e>>) = 2 /\ DOMAIN <<d, e>> = {1, 2}
        /\ <<d, e>>[1] = d /\ <<d, e>>[2] = e
    BY <1>1, <1>2, <1>3
  <2>3. <<d, e>> \in NewEvents
    BY <1>3, <2>2 DEF NewEvents
  <2>4. \A kind : NumberOf(<<d, e>>, kind) = One(d.kind = kind) + One(e.kind = kind)
    BY <2>2, <2>3, NumberIs
  <2> QED
    BY <1>3, <2>1, <2>3, <2>4 DEF One
<1>4. CASE P /\ ~Q
  <2>1. Two(P, d, Q, e) = <<d>>
    BY <1>4, PairOfEvents DEF Two
  <2>3. <<d>> \in NewEvents /\ \A kind : NumberOf(<<d>>, kind) = One(d.kind = kind)
    BY <1>4, OneCounted
  <2>5. ASSUME NEW kind
        PROVE  One(d.kind = kind) = One(P /\ d.kind = kind) + One(Q /\ e.kind = kind)
    <3>1. One(P /\ d.kind = kind) = One(d.kind = kind) /\ One(Q /\ e.kind = kind) = 0
      BY <1>4 DEF One
    <3>2. One(d.kind = kind) \in Nat
      BY DEF One
    <3> QED
      BY <3>1, <3>2
  <2> QED
    BY <2>1, <2>3, <2>5
<1>5. CASE ~P /\ Q
  <2>1. Two(P, d, Q, e) = <<e>>
    BY <1>5, PairOfEvents DEF Two
  <2>3. <<e>> \in NewEvents /\ \A kind : NumberOf(<<e>>, kind) = One(e.kind = kind)
    BY <1>5, OneCounted
  <2>5. ASSUME NEW kind
        PROVE  One(e.kind = kind) = One(P /\ d.kind = kind) + One(Q /\ e.kind = kind)
    <3>1. One(P /\ d.kind = kind) = 0 /\ One(Q /\ e.kind = kind) = One(e.kind = kind)
      BY <1>5 DEF One
    <3>2. One(e.kind = kind) \in Nat
      BY DEF One
    <3> QED
      BY <3>1, <3>2
  <2> QED
    BY <2>1, <2>3, <2>5
<1>6. CASE ~P /\ ~Q
  <2>1. Two(P, d, Q, e) = <<>>
    BY <1>6, PairOfEvents DEF Two
  <2> QED
    BY <1>6, <2>1, NoneCounted DEF One
<1> QED
  BY <1>3, <1>4, <1>5, <1>6

\* The events that a turn adds: those of the parser and, on the main file, the change
\* of the model.
NewOf(a, next) == IF a = Main THEN next.events \o ModelEvents(next) ELSE next.events

\* The pending call that a result answers, if the parser still has it.
Answers(a, line) == PendingUse(parsers[a].pending, line.id)

IsVerdict(a, line) == line.type = "result" /\ IsPlanVerdict(Answers(a, line))

\* What a line adds to each counter.
CountsOf(a, line, new) ==
  /\ new \in NewEvents
  /\ NumberOf(new, "skill") = One(InvokesLine(a, line))
  /\ NumberOf(new, "subagent_spawned") = 0
  /\ NumberOf(new, "plan_rejected") = One(IsVerdict(a, line) /\ line.isError)
  /\ NumberOf(new, "denied") + NumberOf(new, "cancelled") =
       One(line.type = "result" /\ ~IsVerdict(a, line) /\ line.denial # "")

LEMMA EventIs ==
  ASSUME NEW kind, NEW actor, NEW tool
  PROVE  /\ Event(kind, actor, tool).kind = kind /\ Event(kind, actor, tool).agent = Main
         /\ kind \in EventKinds /\ actor \in Actors /\ tool \in UseIds \cup {NoTool}
              /\ kind # "subagent_spawned" => IsNew(Event(kind, actor, tool))
BY DEF Event, IsNew, Events, Actors

LEMMA NoModelEvents ==
  ASSUME NEW next, next.role = "" \/ next.model = NoModel
  PROVE  ModelEvents(next) = <<>>
BY DEF ModelEvents

LEMMA PromptEvents ==
  ASSUME NEW a \in Actors, NEW line, IsLine(a, line), line.type = "prompt",
         NEW new, new = NewOf(a, Parse(parsers[a], line, a).turn)
  PROVE  CountsOf(a, line, new)
<1>1. PICK next : next = ParsePrompt(parsers[a], line, a).turn
  OBVIOUS
<1>2. new = NewOf(a, next)
  BY <1>1 DEF Parse
<1>3. next.model = NoModel
  BY <1>1 DEF ParsePrompt, NoTurn, SidechainTurn, EventTurn
<1>4. next.events = IF a = Main THEN ModeEvents(parsers[a], line) \o SlashCommandEvents(line) ELSE <<>>
  BY <1>1 DEF ParsePrompt, NoTurn, SidechainTurn, EventTurn
<1>5. PICK d, e, P, Q : /\ d = Event("mode", Main, NoTool) /\ e = Event("skill", Main, NoTool)
                        /\ P = (a = Main /\ IsModeEvent(parsers[a], line.mode))
                        /\ Q = (a = Main /\ line.slash)
  OBVIOUS
<1>6. next.events = Two(P, d, Q, e)
  BY <1>4, <1>5, PairOfEvents DEF ModeEvents, SlashCommandEvents, Two
<1>8. IsNew(d) /\ IsNew(e) /\ d.kind = "mode" /\ e.kind = "skill"
  <2>1. {"mode", "skill"} \subseteq EventKinds /\ Main \in Actors
    BY DEF EventKinds, Kinds, Actors
  <2> QED
    BY <1>5, <2>1, EventIs
<1>9. /\ new \in NewEvents
      /\ \A kind : NumberOf(new, kind) = One(P /\ d.kind = kind) + One(Q /\ e.kind = kind)
  <2>1. next.events \in NewEvents
    BY <1>6, <1>8, TwoCounted
  <2>2. new = next.events
    <3>1. \A list \in Seq(Events) : list \o <<>> = list
      BY ConcatEmptySeq
    <3> QED
      BY <1>2, <1>3, <2>1, <3>1, NoModelEvents DEF NewOf, NewEvents
  <2> QED
    BY <1>6, <1>8, <2>1, <2>2, TwoCounted
<1>10. Q <=> InvokesLine(a, line)
  BY <1>5 DEF InvokesLine
<1> QED
  BY <1>8, <1>9, <1>10 DEF CountsOf, One, IsVerdict

LEMMA ChunkEvents ==
  ASSUME NEW a \in Actors, NEW line, IsLine(a, line), CanWrite(a, line), line.type = "chunk",
         NEW new, new = NewOf(a, Parse(parsers[a], line, a).turn)
  PROVE  CountsOf(a, line, new)
<1>1. PICK next : next = ParseChunk(parsers[a], line, a).turn
  OBVIOUS
<1>2. new = NewOf(a, next)
  BY <1>1 DEF Parse
<1>3. next.events = SkillEvents(line, a)
  BY <1>1 DEF ParseChunk, NoTurn
<1> DEFINE P == line.use # NoTool /\ line.use.name = "Skill"
           Q == a = Main /\ next.role # "" /\ next.model # NoModel /\ model \notin {NoModel, next.model}
<1>4. PICK d, e : d = Event("skill", a, line.use.id) /\ e = Event("model", Main, NoTool)
  OBVIOUS
<1>5. next.events = IF P THEN <<d>> ELSE <<>>
  BY <1>3, <1>4 DEF SkillEvents
<1>6. a = Main => ModelEvents(next) = IF Q THEN <<e>> ELSE <<>>
  BY <1>4 DEF ModelEvents
<1>7. new = Two(P, d, Q, e)
  <2>1. CASE a = Main
    BY <1>2, <1>5, <1>6, <2>1 DEF NewOf, Two
  <2>2. CASE a # Main
    <3>1. \A x : <<x>> \o <<>> = <<x>> /\ <<>> \o <<>> = <<>>
      BY PairOfEvents
    <3>2. ~Q /\ new = next.events
      BY <1>2, <2>2 DEF NewOf
    <3> QED
      BY <1>5, <3>1, <3>2 DEF Two
  <2> QED
    BY <2>1, <2>2
<1>8. (P => IsNew(d)) /\ IsNew(e) /\ d.kind = "skill" /\ e.kind = "model"
  <2>1. {"model", "skill"} \subseteq EventKinds /\ Main \in Actors
    BY DEF EventKinds, Kinds, Actors
  <2>2. P => line.use.id \in UseIds
    BY DEF CanWrite, IsCall
  <2> QED
    BY <1>4, <2>1, <2>2, EventIs
<1>10. P <=> InvokesLine(a, line)
  BY DEF InvokesLine
<1> HIDE DEF P, Q
<1>9. /\ new \in NewEvents
      /\ \A kind : NumberOf(new, kind) = One(P /\ d.kind = kind) + One(Q /\ e.kind = kind)
  BY <1>7, <1>8, TwoCounted
<1> QED
  BY <1>8, <1>9, <1>10 DEF CountsOf, One, IsVerdict

LEMMA NoticeEvents ==
  ASSUME NEW a \in Actors, NEW line, IsLine(a, line), line.type = "notice",
         NEW new, new = NewOf(a, Parse(parsers[a], line, a).turn)
  PROVE  CountsOf(a, line, new)
<1>1. PICK next : next = ParseNotice(parsers[a], line).turn
  OBVIOUS
<1>2. new = NewOf(a, next)
  BY <1>1 DEF Parse
<1>3. PICK d : d = Event(line.notice, Main, NoTool)
  OBVIOUS
<1>4. next.events = <<d>> /\ next.role = ""
  BY <1>1, <1>3 DEF ParseNotice, EventTurn, NoTurn
<1>5. line.notice \in Notices
  BY DEF IsLine
<1>6. IsNew(d) /\ d.kind \in Notices
  <2>1. line.notice \in EventKinds /\ Main \in Actors /\ line.notice # "subagent_spawned"
    BY <1>5, AccountAssumption DEF EventKinds, Kinds, Actors
  <2> QED
    BY <1>3, <1>5, <2>1, EventIs
<1>7. <<d>> \o <<>> = <<d>>
  BY PairOfEvents
<1>8. new = <<d>>
  BY <1>2, <1>4, <1>7, NoModelEvents DEF NewOf
<1>9. new \in NewEvents /\ \A kind : NumberOf(new, kind) = One(d.kind = kind)
  BY <1>6, <1>8, OneCounted
<1>10. \A kind \in Kinds : d.kind # kind
  BY <1>6, AccountAssumption
<1>11. ~InvokesLine(a, line)
  BY DEF InvokesLine
<1> QED
  BY <1>9, <1>10, <1>11 DEF CountsOf, One, IsVerdict, Kinds

\* An id names one call.
LEMMA OneUse ==
  ASSUME LinesOK, NEW a \in Actors, NEW x \in UsesIn(a), NEW y \in UsesIn(a), x.id = y.id
  PROVE  x = y
<1>1. PICK m \in DOMAIN log[a] : CallAt(a, m) /\ log[a][m].use = x
  BY UsesAre
<1>2. PICK n \in DOMAIN log[a] : CallAt(a, n) /\ log[a][n].use = y
  BY UsesAre
<1> QED
  BY <1>1, <1>2 DEF LinesOK

LEMMA ResultEventsAre ==
  ASSUME LinesOK, ParsersOK, NEW a \in Actors, NEW line, IsLine(a, line), CanWrite(a, line),
         line.type = "result",
         NEW new, new = NewOf(a, Parse(parsers[a], line, a).turn)
  PROVE  CountsOf(a, line, new)
<1>1. PICK next : next = ParseResult(parsers[a], line, a).turn
  OBVIOUS
<1>2. new = NewOf(a, next)
  BY <1>1 DEF Parse
<1>3. PICK uses : uses = Answers(a, line)
  OBVIOUS
<1>4. next.events = ResultEvents(uses, line, a) /\ (a = Main => next.role = "")
  BY <1>1, <1>3 DEF ParseResult, EventTurn, SidechainTurn, NoTurn, Answers
<1>5. line.id \in UseIds /\ line.isError \in BOOLEAN
  BY DEF IsLine
<1>6. \A x, y \in uses : x = y
  <2>1. \A x \in uses : x \in UsesIn(a) /\ x.id = line.id
    BY <1>3 DEF Answers, PendingUse, ParsersOK, Waits
  <2> QED
    BY <2>1, OneUse
<1> DEFINE verdict == IsPlanVerdict(uses)
           denied == line.denial # "" /\ ~verdict
<1>7. ASSUME NEW kind \in EventKinds, kind # "subagent_spawned",
             next.events = <<Event(kind, a, line.id)>>
      PROVE  /\ new \in NewEvents
             /\ \A k : NumberOf(new, k) = One(kind = k)
  <2>1. PICK d : d = Event(kind, a, line.id)
    OBVIOUS
  <2>2. IsNew(d) /\ d.kind = kind
    BY <1>5, <1>7, <2>1, EventIs
  <2>3. <<d>> \o <<>> = <<d>>
    BY PairOfEvents
  <2>4. new = <<d>>
    BY <1>2, <1>4, <1>7, <2>1, <2>3, NoModelEvents DEF NewOf
  <2> QED
    BY <2>2, <2>4, OneCounted
<1>8. ASSUME next.events = <<>>
      PROVE  new \in NewEvents /\ \A k : NumberOf(new, k) = 0
  <2>1. <<>> \o <<>> = <<>>
    BY PairOfEvents
  <2>2. new = <<>>
    BY <1>2, <1>4, <1>8, <2>1, NoModelEvents DEF NewOf
  <2> QED
    BY <2>2, NoneCounted
<1>9. {"denied", "cancelled", "plan_rejected", "plan_approved", "subagent_result"} \subseteq EventKinds
  BY DEF EventKinds, Kinds
<1>10. ~InvokesLine(a, line) /\ (IsVerdict(a, line) <=> verdict)
  BY <1>3 DEF InvokesLine, IsVerdict
<1> HIDE DEF verdict
<1>11. CASE denied
  <2>1. PICK kind : kind = IF line.denial \in {"cancelled", "interrupted"} THEN "cancelled" ELSE "denied"
    OBVIOUS
  <2>2. next.events = <<Event(kind, a, line.id)>>
    BY <1>4, <1>11, <2>1 DEF ResultEvents, DenialEvent, verdict
  <2>3. new \in NewEvents /\ \A k : NumberOf(new, k) = One(kind = k)
    BY <1>7, <1>9, <2>1, <2>2
  <2>4. /\ NumberOf(new, "denied") = One(kind = "denied")
        /\ NumberOf(new, "cancelled") = One(kind = "cancelled")
        /\ NumberOf(new, "skill") = 0 /\ NumberOf(new, "subagent_spawned") = 0
        /\ NumberOf(new, "plan_rejected") = 0
    BY <2>1, <2>3 DEF One
  <2>5. One(kind = "denied") + One(kind = "cancelled") = 1
    BY <2>1 DEF One
  <2>6. /\ One(InvokesLine(a, line)) = 0 /\ One(IsVerdict(a, line) /\ line.isError) = 0
        /\ One(line.type = "result" /\ ~IsVerdict(a, line) /\ line.denial # "") = 1
    BY <1>10, <1>11 DEF One
  <2> QED
    BY <2>3, <2>4, <2>5, <2>6 DEF CountsOf
<1>12. CASE ~denied /\ verdict
  <2>1. PICK use \in uses : use = (CHOOSE u \in uses : TRUE) /\ use.name = "ExitPlanMode"
    BY <1>6, <1>12 DEF verdict, IsPlanVerdict
  <2>2. PICK kind : kind = IF line.isError THEN "plan_rejected" ELSE "plan_approved"
    OBVIOUS
  <2>3. next.events = <<Event(kind, a, line.id)>>
    <3>1. ToolResultEvents(line, use, a) = <<Event(kind, a, line.id)>>
      BY <2>1, <2>2 DEF ToolResultEvents
    <3>2. next.events = ToolResultEvents(line, CHOOSE u \in uses : TRUE, a)
      BY <1>4, <1>12, <2>1 DEF ResultEvents, verdict
    <3> QED
      BY <2>1, <3>1, <3>2
  <2>4. new \in NewEvents /\ \A k : NumberOf(new, k) = One(kind = k)
    BY <1>7, <1>9, <2>2, <2>3
  <2>7. /\ NumberOf(new, "denied") = 0 /\ NumberOf(new, "cancelled") = 0
        /\ NumberOf(new, "skill") = 0 /\ NumberOf(new, "subagent_spawned") = 0
        /\ NumberOf(new, "plan_rejected") = One(line.isError)
    BY <2>2, <2>4 DEF One
  <2>5. NumberOf(new, "denied") + NumberOf(new, "cancelled") = 0
    BY <2>7
  <2>6. /\ One(InvokesLine(a, line)) = 0 /\ One(IsVerdict(a, line) /\ line.isError) = One(line.isError)
        /\ One(line.type = "result" /\ ~IsVerdict(a, line) /\ line.denial # "") = 0
    BY <1>5, <1>10, <1>12 DEF One
  <2> QED
    BY <2>4, <2>5, <2>6, <2>7 DEF CountsOf
<1>13. CASE ~denied /\ ~verdict
  <2>1. next.events = <<>> \/ next.events = <<Event("subagent_result", a, line.id)>>
    <3>1. CASE uses = {}
      BY <1>4, <1>13, <3>1 DEF ResultEvents, verdict
    <3>2. CASE uses # {}
      <4>1. PICK use \in uses : use = CHOOSE u \in uses : TRUE
        BY <3>2
      <4>2. next.events = ToolResultEvents(line, use, a)
        BY <1>4, <1>13, <3>2, <4>1 DEF ResultEvents, verdict
      <4>3. use.name # "ExitPlanMode"
        BY <1>13, <4>1 DEF verdict, IsPlanVerdict
      <4> QED
        BY <4>2, <4>3 DEF ToolResultEvents
    <3> QED
      BY <3>1, <3>2
  <2>2. /\ new \in NewEvents /\ NumberOf(new, "denied") = 0 /\ NumberOf(new, "cancelled") = 0
        /\ NumberOf(new, "skill") = 0 /\ NumberOf(new, "subagent_spawned") = 0
        /\ NumberOf(new, "plan_rejected") = 0
    <3>1. CASE next.events = <<>>
      BY <1>8, <3>1
    <3>2. CASE next.events = <<Event("subagent_result", a, line.id)>>
      <4>1. new \in NewEvents /\ \A k : NumberOf(new, k) = One("subagent_result" = k)
        BY <1>7, <1>9, <3>2
      <4> QED
        BY <4>1 DEF One
    <3> QED
      BY <2>1, <3>1, <3>2
  <2>3. /\ One(InvokesLine(a, line)) = 0 /\ One(IsVerdict(a, line) /\ line.isError) = 0
        /\ One(line.type = "result" /\ ~IsVerdict(a, line) /\ line.denial # "") = 0
    BY <1>10, <1>13 DEF One
  <2>4. NumberOf(new, "denied") + NumberOf(new, "cancelled") = 0
    BY <2>2
  <2> QED
    BY <2>2, <2>3, <2>4 DEF CountsOf
<1> QED
  BY <1>11, <1>12, <1>13

\* The events of a line, whatever its type.
LEMMA LineEvents ==
  ASSUME LinesOK, ParsersOK, NEW a \in Actors, NEW line, IsLine(a, line), CanWrite(a, line),
         NEW new, new = NewOf(a, Parse(parsers[a], line, a).turn)
  PROVE  CountsOf(a, line, new)
BY PromptEvents, ChunkEvents, ResultEventsAre, NoticeEvents DEF IsLine

-----------------------------------------------------------------------------
(* The counters against the lines of the transcripts.                         *)

Invoked  == Lines(Invokes)
Rejected == Lines(LAMBDA a, n : IsPlanResult(a, n) /\ log[a][n].isError)
Refused  == Lines(LAMBDA a, n : IsResult(a, n) /\ ~IsPlanResult(a, n) /\ log[a][n].denial # "")

IsRejected(a, n) == IsPlanResult(a, n) /\ log[a][n].isError
IsRefused(a, n)  == IsResult(a, n) /\ ~IsPlanResult(a, n) /\ log[a][n].denial # ""

\* The three sets by their members.
PlacesAre ==
  /\ \A x : x \in Invoked <=> \E b \in Actors : \E n \in DOMAIN log[b] : x = <<b, n>> /\ Invokes(b, n)
  /\ \A x : x \in Rejected <=>
           \E b \in Actors : \E n \in DOMAIN log[b] : x = <<b, n>> /\ IsRejected(b, n)
  /\ \A x : x \in Refused <=>
           \E b \in Actors : \E n \in DOMAIN log[b] : x = <<b, n>> /\ IsRefused(b, n)

LEMMA PlacesShown == PlacesAre
<1>1. Invoked = UNION {{<<b, n>> : n \in {m \in DOMAIN log[b] : Invokes(b, m)}} : b \in Actors}
  BY DEF Invoked, Lines
<1>2. Rejected = UNION {{<<b, n>> : n \in {m \in DOMAIN log[b] : IsRejected(b, m)}} : b \in Actors}
  BY DEF Rejected, Lines, IsRejected
<1>3. Refused = UNION {{<<b, n>> : n \in {m \in DOMAIN log[b] : IsRefused(b, m)}} : b \in Actors}
  BY DEF Refused, Lines, IsRefused
<1>4. \A x : x \in Invoked <=> \E b \in Actors : \E n \in DOMAIN log[b] : x = <<b, n>> /\ Invokes(b, n)
  BY <1>1
<1>5. \A x : x \in Rejected <=>
            \E b \in Actors : \E n \in DOMAIN log[b] : x = <<b, n>> /\ IsRejected(b, n)
  BY <1>2
<1>6. \A x : x \in Refused <=>
            \E b \in Actors : \E n \in DOMAIN log[b] : x = <<b, n>> /\ IsRefused(b, n)
  BY <1>3
<1> QED
  BY <1>4, <1>5, <1>6 DEF PlacesAre

LEMMA PlacesShownNext == PlacesAre'
BY PlacesShown, PTL

CountersInv ==
  /\ EventsExact
  /\ IsFiniteSet(Invoked) /\ IsFiniteSet(Rejected) /\ IsFiniteSet(Refused) /\ IsFiniteSet(spawned)
  /\ counters["skill"] = Cardinality(Invoked)
  /\ counters["subagent_spawned"] = Cardinality(spawned)
  /\ NeverFull => /\ counters["plan_rejected"] = Cardinality(Rejected)
                  /\ Refusals = Cardinality(Refused)

\* Every result has its call.
Answered ==
  \A a \in Actors : \A n \in DOMAIN log[a] : ResultAt(a, n) =>
    /\ UseOf(a, n) \in UsesIn(a) /\ UseOf(a, n).id = log[a][n].id
    /\ \A use \in UsesIn(a) : use.id = log[a][n].id => use = UseOf(a, n)

LEMMA ResultsAnswer == LogType /\ LinesOK => Answered
<1> SUFFICES ASSUME LogType, LinesOK, NEW a \in Actors, NEW n \in DOMAIN log[a], ResultAt(a, n)
             PROVE  /\ UseOf(a, n) \in UsesIn(a) /\ UseOf(a, n).id = log[a][n].id
                    /\ \A use \in UsesIn(a) : use.id = log[a][n].id => use = UseOf(a, n)
  BY DEF Answered
<1>1. PICK m \in 1 .. n - 1 : CallAt(a, m) /\ log[a][m].use.id = log[a][n].id
  BY DEF LinesOK
<1>2. m \in DOMAIN log[a]
  BY LogLines
<1>3. log[a][m].use \in UsesIn(a)
  BY <1>1, <1>2, UsesAre
<1>4. UseOf(a, n) \in UsesIn(a) /\ UseOf(a, n).id = log[a][n].id
  BY <1>1, <1>3 DEF UseOf
<1> QED
  BY <1>4, OneUse

LEMMA ResultsAnswerNext == (LogType /\ LinesOK)' => Answered'
BY ResultsAnswer, PTL

\* A set that a step gives one more element, if the step counts.
LEMMA OneMore ==
  ASSUME NEW S, IsFiniteSet(S), NEW x, x \notin S, NEW P, NEW T, T = S \cup (IF P THEN {x} ELSE {})
  PROVE  IsFiniteSet(T) /\ Cardinality(T) = Cardinality(S) + One(P)
<1>1. Cardinality(S) \in Nat
  BY FS_CardinalityType
<1>2. CASE P
  BY <1>2, FS_AddElement DEF One
<1>3. CASE ~P
  BY <1>1, <1>3 DEF One
<1> QED
  BY <1>2, <1>3

\* What a line adds to the places that the counters count.
LEMMA PlacesNext ==
  ASSUME LogType, LinesOK, NEW a \in Actors, NEW line, CanWrite(a, line), Appended(a, line),
         NEW place, place = <<a, Len(log[a]) + 1>>,
         NEW plan, plan = (line.type = "result" /\ UseOf(a, Len(log[a]))'.name = "ExitPlanMode")
  PROVE  /\ place \notin Invoked /\ place \notin Rejected /\ place \notin Refused
         /\ Invoked' = Invoked \cup (IF InvokesLine(a, line) THEN {place} ELSE {})
         /\ Rejected' = Rejected \cup (IF plan /\ line.isError THEN {place} ELSE {})
         /\ Refused' = Refused \cup
              (IF line.type = "result" /\ ~plan /\ line.denial # "" THEN {place} ELSE {})
<1>0. PICK last : last = Len(log[a]) + 1
  OBVIOUS
<1>1. /\ log'[a][last] = line /\ \A k \in DOMAIN log[a] : log'[a][k] = log[a][k]
      /\ DOMAIN log'[a] = DOMAIN log[a] \cup {last} /\ last \notin DOMAIN log[a]
      /\ \A b \in Actors \ {a} : log'[b] = log[b]
      /\ Len(log'[a]) = last
  BY <1>0, LogLines, AppendedLines
<1>2. \A b \in Actors : \A n \in DOMAIN log[b] : n \in DOMAIN log'[b] /\ log'[b][n] = log[b][n]
  BY <1>1
<1>3. \A b \in Actors : \A n \in DOMAIN log'[b] : n \in DOMAIN log[b] \/ (b = a /\ n = last)
  BY <1>1
<1>4. Answered /\ Answered'
  BY LinesStep, AppendedLines, ResultsAnswer, ResultsAnswerNext
<1>5. ASSUME NEW b \in Actors, NEW use \in UsesIn(b)
      PROVE  use \in UsesIn(b)'
  <2>1. PICK n \in DOMAIN log[b] : CallAt(b, n) /\ log[b][n].use = use
    BY UsesAre
  <2>2. n \in DOMAIN log'[b] /\ log'[b][n] = log[b][n]
    BY <1>2
  <2> QED
    BY <2>1, <2>2 DEF UsesIn, CallAt, IsCall
<1>6. ASSUME NEW b \in Actors, NEW n \in DOMAIN log[b], ResultAt(b, n)
      PROVE  UseOf(b, n)' = UseOf(b, n)
  <2>1. UseOf(b, n) \in UsesIn(b)' /\ UseOf(b, n).id = log'[b][n].id
    BY <1>2, <1>4, <1>5, <1>6 DEF Answered
  <2>2. ResultAt(b, n)' /\ n \in DOMAIN log'[b]
    BY <1>2, <1>6 DEF ResultAt
  <2> QED
    BY <1>4, <2>1, <2>2 DEF Answered
<1>7. ASSUME NEW b \in Actors, NEW n \in DOMAIN log[b]
      PROVE  /\ Invokes(b, n)' <=> Invokes(b, n)
             /\ IsRejected(b, n)' <=> IsRejected(b, n)
             /\ IsRefused(b, n)' <=> IsRefused(b, n)
  <2>1. log'[b][n] = log[b][n]
    BY <1>2
  <2>2. IsPlanResult(b, n)' <=> IsPlanResult(b, n)
    BY <1>6, <2>1 DEF IsPlanResult, IsResult, ResultAt
  <2>3. Invokes(b, n)' <=> Invokes(b, n)
    BY <2>1 DEF Invokes
  <2>4. IsResult(b, n)' <=> IsResult(b, n)
    BY <2>1 DEF IsResult
  <2> QED
    BY <2>1, <2>2, <2>3, <2>4 DEF IsRejected, IsRefused
<1>8. /\ Invokes(a, last)' <=> InvokesLine(a, line)
      /\ IsRejected(a, last)' <=> plan /\ line.isError
      /\ IsRefused(a, last)' <=> line.type = "result" /\ ~plan /\ line.denial # ""
  <2>1. InvokesLine(a, line) <=> Invokes(a, last)'
    BY <1>1 DEF Invokes, InvokesLine
  <2>2. IsPlanResult(a, last)' <=> plan
    BY <1>1 DEF IsPlanResult, IsResult, UseOf
  <2> QED
    BY <1>1, <2>1, <2>2 DEF IsResult, IsRejected, IsRefused
<1>9. PlacesAre /\ PlacesAre'
  BY PlacesShown, PlacesShownNext
<1>11. place = <<a, last>>
  BY <1>0
<1>12. place \notin Invoked /\ place \notin Rejected /\ place \notin Refused
  BY <1>1, <1>9, <1>11 DEF PlacesAre
<1>13. \A x : x \in Invoked' <=> x \in Invoked \/ (InvokesLine(a, line) /\ x = place)
  <2>1. ASSUME NEW x, x \in Invoked' PROVE x \in Invoked \/ (InvokesLine(a, line) /\ x = place)
    <3>1. PICK b \in Actors : \E n \in DOMAIN log'[b] : x = <<b, n>> /\ Invokes(b, n)'
      BY <1>9, <2>1 DEF PlacesAre
    <3>2. PICK n \in DOMAIN log'[b] : x = <<b, n>> /\ Invokes(b, n)'
      BY <3>1
    <3>3. CASE n \in DOMAIN log[b]
      BY <1>7, <1>9, <3>2, <3>3 DEF PlacesAre
    <3>4. CASE b = a /\ n = last
      BY <1>8, <1>11, <3>2, <3>4
    <3> QED
      BY <1>3, <3>3, <3>4
  <2>2. ASSUME NEW x \in Invoked PROVE x \in Invoked'
    <3>1. PICK b \in Actors : \E n \in DOMAIN log[b] : x = <<b, n>> /\ Invokes(b, n)
      BY <1>9 DEF PlacesAre
    <3>2. PICK n \in DOMAIN log[b] : x = <<b, n>> /\ Invokes(b, n)
      BY <3>1
    <3> QED
      BY <1>2, <1>7, <1>9, <3>2 DEF PlacesAre
  <2>3. InvokesLine(a, line) => place \in Invoked'
    BY <1>1, <1>8, <1>9, <1>11 DEF PlacesAre
  <2> QED
    BY <2>1, <2>2, <2>3
<1>14. \A x : x \in Rejected' <=> x \in Rejected \/ (plan /\ line.isError /\ x = place)
  <2>1. ASSUME NEW x, x \in Rejected' PROVE x \in Rejected \/ (plan /\ line.isError /\ x = place)
    <3>1. PICK b \in Actors : \E n \in DOMAIN log'[b] : x = <<b, n>> /\ IsRejected(b, n)'
      BY <1>9, <2>1 DEF PlacesAre
    <3>2. PICK n \in DOMAIN log'[b] : x = <<b, n>> /\ IsRejected(b, n)'
      BY <3>1
    <3>3. CASE n \in DOMAIN log[b]
      BY <1>7, <1>9, <3>2, <3>3 DEF PlacesAre
    <3>4. CASE b = a /\ n = last
      BY <1>8, <1>11, <3>2, <3>4
    <3> QED
      BY <1>3, <3>3, <3>4
  <2>2. ASSUME NEW x \in Rejected PROVE x \in Rejected'
    <3>1. PICK b \in Actors : \E n \in DOMAIN log[b] : x = <<b, n>> /\ IsRejected(b, n)
      BY <1>9 DEF PlacesAre
    <3>2. PICK n \in DOMAIN log[b] : x = <<b, n>> /\ IsRejected(b, n)
      BY <3>1
    <3> QED
      BY <1>2, <1>7, <1>9, <3>2 DEF PlacesAre
  <2>3. plan /\ line.isError => place \in Rejected'
    BY <1>1, <1>8, <1>9, <1>11 DEF PlacesAre
  <2> QED
    BY <2>1, <2>2, <2>3
<1>15. \A x : x \in Refused' <=> x \in Refused \/ (line.type = "result" /\ ~plan /\ line.denial # "" /\ x = place)
  <2>1. ASSUME NEW x, x \in Refused' PROVE x \in Refused \/ (line.type = "result" /\ ~plan /\ line.denial # "" /\ x = place)
    <3>1. PICK b \in Actors : \E n \in DOMAIN log'[b] : x = <<b, n>> /\ IsRefused(b, n)'
      BY <1>9, <2>1 DEF PlacesAre
    <3>2. PICK n \in DOMAIN log'[b] : x = <<b, n>> /\ IsRefused(b, n)'
      BY <3>1
    <3>3. CASE n \in DOMAIN log[b]
      BY <1>7, <1>9, <3>2, <3>3 DEF PlacesAre
    <3>4. CASE b = a /\ n = last
      BY <1>8, <1>11, <3>2, <3>4
    <3> QED
      BY <1>3, <3>3, <3>4
  <2>2. ASSUME NEW x \in Refused PROVE x \in Refused'
    <3>1. PICK b \in Actors : \E n \in DOMAIN log[b] : x = <<b, n>> /\ IsRefused(b, n)
      BY <1>9 DEF PlacesAre
    <3>2. PICK n \in DOMAIN log[b] : x = <<b, n>> /\ IsRefused(b, n)
      BY <3>1
    <3> QED
      BY <1>2, <1>7, <1>9, <3>2 DEF PlacesAre
  <2>3. line.type = "result" /\ ~plan /\ line.denial # "" => place \in Refused'
    BY <1>1, <1>8, <1>9, <1>11 DEF PlacesAre
  <2> QED
    BY <2>1, <2>2, <2>3
<1> QED
  BY <1>12, <1>13, <1>14, <1>15

\* What a read does to the list and the counters.
LEMMA ReadCounts ==
  ASSUME NEW a \in Actors, NEW line, Read(a, line),
         NEW new, new = NewOf(a, Parse(parsers[a], line, a).turn)
  PROVE  /\ Appended(a, line) /\ AppendEvents(new) /\ Count(new) /\ spawned' = spawned
         /\ parsers' = [parsers EXCEPT ![a] = Parse(parsers[a], line, a).parser]
<1>1. PICK next : next = Parse(parsers[a], line, a).turn
  OBVIOUS
<1>2. /\ Appended(a, line) /\ spawned' = spawned
      /\ parsers' = [parsers EXCEPT ![a] = Parse(parsers[a], line, a).parser]
      /\ IF a = Main THEN AddTurn(next) ELSE AddSubagentTurn(a, next)
  BY <1>1 DEF Read, Appended
<1>3. AppendEvents(new) /\ Count(new)
  BY <1>1, <1>2 DEF NewOf, AddTurn, AddSubagentTurn
<1> QED
  BY <1>2, <1>3

\* The pending call of a plan result is its call, while no table overflowed.
LEMMA VerdictIs ==
  ASSUME LogType, LinesOK, ParsersOK, NeverFull, NEW a \in Actors, NEW line, IsLine(a, line),
         CanWrite(a, line), Appended(a, line), line.type = "result"
  PROVE  IsVerdict(a, line) <=> UseOf(a, Len(log[a]))'.name = "ExitPlanMode"
<1>0. PICK last : last = Len(log'[a])
  OBVIOUS
<1>1. log'[a][last] = line /\ last \in DOMAIN log'[a] /\ ResultAt(a, last)' /\ LinesOK' /\ LogType'
  BY <1>0, LogLines, AppendedLines, LinesStep DEF ResultAt
<1>2. Answered'
  BY <1>1, ResultsAnswerNext
<1>3. PICK u : u \in UsesIn(a) /\ u.id = line.id
  BY UsesAre DEF CanWrite
<1>4. ResultsIn(a, u.id) = {}
  BY <1>3 DEF CanWrite
<1>5. u \in parsers[a].pending
  BY <1>3, <1>4 DEF ParsersOK, Waits
<1>6. \A v \in Answers(a, line) : v = u
  BY <1>3, OneUse DEF Answers, PendingUse, ParsersOK, Waits
<1>7. Answers(a, line) = {u}
  BY <1>3, <1>5, <1>6 DEF Answers, PendingUse
<1>8. u \in UsesIn(a)'
  <2>1. PICK n \in DOMAIN log[a] : CallAt(a, n) /\ log[a][n].use = u
    BY <1>3, UsesAre
  <2>2. n \in DOMAIN log'[a] /\ log'[a][n] = log[a][n]
    BY LogLines, AppendedLines
  <2> QED
    BY <2>1, <2>2 DEF UsesIn, CallAt, IsCall
<1>9. UseOf(a, last)' = u
  BY <1>1, <1>2, <1>3, <1>8 DEF Answered
<1>10. UseOf(a, last)' = UseOf(a, Len(log[a]))'
  BY <1>0
<1> QED
  BY <1>7, <1>9, <1>10 DEF IsVerdict, IsPlanVerdict

LEMMA CountersRead ==
  ASSUME LogType, LinesOK, ParsersOK, CountersInv, NEW a \in Actors, NEW line,
         IsLine(a, line), CanWrite(a, line), Read(a, line)
  PROVE  CountersInv'
<1>1. PICK new : new = NewOf(a, Parse(parsers[a], line, a).turn)
  OBVIOUS
<1>2. /\ Appended(a, line) /\ AppendEvents(new) /\ Count(new) /\ spawned' = spawned
      /\ new \in NewEvents /\ CountsOf(a, line, new)
  BY <1>1, ReadCounts, LineEvents DEF CountsOf
<1>3. /\ EventsExact'
      /\ \A k \in Kinds : NumberOf(new, k) \in Nat /\ counters'[k] = counters[k] + NumberOf(new, k)
  BY <1>2, EventsStep DEF CountersInv
<1>4. PICK place : place = <<a, Len(log[a]) + 1>>
  OBVIOUS
<1>5. PICK plan : plan = (line.type = "result" /\ UseOf(a, Len(log[a]))'.name = "ExitPlanMode")
  OBVIOUS
<1>6. /\ place \notin Invoked /\ place \notin Rejected /\ place \notin Refused
      /\ Invoked' = Invoked \cup (IF InvokesLine(a, line) THEN {place} ELSE {})
      /\ Rejected' = Rejected \cup (IF plan /\ line.isError THEN {place} ELSE {})
      /\ Refused' = Refused \cup
              (IF line.type = "result" /\ ~plan /\ line.denial # "" THEN {place} ELSE {})
  BY <1>2, <1>4, <1>5, PlacesNext
<1>7. IsFiniteSet(Invoked') /\ Cardinality(Invoked') = Cardinality(Invoked) + One(InvokesLine(a, line))
  <2>1. PICK P : P = (InvokesLine(a, line))
    OBVIOUS
  <2>2. Invoked' = Invoked \cup (IF P THEN {place} ELSE {})
    BY <1>6, <2>1
  <2>3. IsFiniteSet(Invoked)
    BY DEF CountersInv
  <2>4. IsFiniteSet(Invoked') /\ Cardinality(Invoked') = Cardinality(Invoked) + One(P)
    BY <1>6, <2>2, <2>3, OneMore
  <2> QED
    BY <2>1, <2>4
<1>8. /\ IsFiniteSet(Rejected')
      /\ Cardinality(Rejected') = Cardinality(Rejected) + One(plan /\ line.isError)
  <2>1. PICK P : P = (plan /\ line.isError)
    OBVIOUS
  <2>2. Rejected' = Rejected \cup (IF P THEN {place} ELSE {})
    BY <1>6, <2>1
  <2>3. IsFiniteSet(Rejected)
    BY DEF CountersInv
  <2>4. IsFiniteSet(Rejected') /\ Cardinality(Rejected') = Cardinality(Rejected) + One(P)
    BY <1>6, <2>2, <2>3, OneMore
  <2> QED
    BY <2>1, <2>4
<1>9. /\ IsFiniteSet(Refused')
      /\ Cardinality(Refused')
           = Cardinality(Refused) + One(line.type = "result" /\ ~plan /\ line.denial # "")
  <2>1. PICK P : P = (line.type = "result" /\ ~plan /\ line.denial # "")
    OBVIOUS
  <2>2. Refused' = Refused \cup (IF P THEN {place} ELSE {})
    BY <1>6, <2>1
  <2>3. IsFiniteSet(Refused)
    BY DEF CountersInv
  <2>4. IsFiniteSet(Refused') /\ Cardinality(Refused') = Cardinality(Refused) + One(P)
    BY <1>6, <2>2, <2>3, OneMore
  <2> QED
    BY <2>1, <2>4
<1>10. counters'["skill"] = Cardinality(Invoked')
  BY <1>2, <1>3, <1>7 DEF CountersInv, CountsOf, Kinds
<1>11. counters'["subagent_spawned"] = Cardinality(spawned')
  <2>1. counters'["subagent_spawned"] = counters["subagent_spawned"] + 0
    BY <1>2, <1>3 DEF CountsOf, Kinds
  <2>2. Cardinality(spawned) \in Nat
    BY FS_CardinalityType DEF CountersInv
  <2> QED
    BY <1>2, <2>1, <2>2 DEF CountersInv
<1>12. ASSUME NeverFull'
       PROVE  /\ counters'["plan_rejected"] = Cardinality(Rejected')
              /\ Refusals' = Cardinality(Refused')
  <2>1. NeverFull
    BY <1>2, <1>12, FullStays
  <2>2. IsVerdict(a, line) <=> plan
    BY <1>2, <1>5, <2>1, VerdictIs DEF IsVerdict
  <2>3. One(IsVerdict(a, line) /\ line.isError) = One(plan /\ line.isError)
    BY <2>2 DEF One
  <2>4. One(line.type = "result" /\ ~IsVerdict(a, line) /\ line.denial # "")
          = One(line.type = "result" /\ ~plan /\ line.denial # "")
    BY <2>2 DEF One
  <2>5. counters'["plan_rejected"] = Cardinality(Rejected')
    BY <1>2, <1>3, <1>8, <2>1, <2>3 DEF CountersInv, CountsOf, Kinds
  <2>6. /\ counters'["denied"] = counters["denied"] + NumberOf(new, "denied")
        /\ counters'["cancelled"] = counters["cancelled"] + NumberOf(new, "cancelled")
        /\ NumberOf(new, "denied") \in Nat /\ NumberOf(new, "cancelled") \in Nat
        /\ counters["denied"] \in Nat /\ counters["cancelled"] \in Nat
    BY <1>3 DEF Kinds, CountersInv, EventsExact
  <2>7. Refusals' = Refusals + (NumberOf(new, "denied") + NumberOf(new, "cancelled"))
    BY <2>6 DEF Refusals
  <2>8. NumberOf(new, "denied") + NumberOf(new, "cancelled")
          = One(line.type = "result" /\ ~plan /\ line.denial # "")
    BY <1>2, <2>4 DEF CountsOf
  <2>9. Refusals = Cardinality(Refused)
    BY <2>1 DEF CountersInv
  <2> QED
    BY <1>9, <2>5, <2>7, <2>8, <2>9
<1>13. IsFiniteSet(spawned')
  BY <1>2 DEF CountersInv
<1> QED
  BY <1>3, <1>7, <1>8, <1>9, <1>10, <1>11, <1>12, <1>13 DEF CountersInv

\* What the transcripts say, while the log stays.
LEMMA PlacesUnchanged ==
  ASSUME log' = log
  PROVE  /\ Invoked' = Invoked /\ Rejected' = Rejected /\ Refused' = Refused
         /\ (NeverFull' <=> NeverFull) /\ (LinesOK' <=> LinesOK) /\ (LogType' <=> LogType)
         /\ \A a : Waits(a)' = Waits(a)
<1>1. \A a, n : UseOf(a, n)' = UseOf(a, n)
  BY DEF UseOf, UsesIn
<1>2. \A a, n : /\ Invokes(a, n)' <=> Invokes(a, n)
                /\ IsPlanResult(a, n)' <=> IsPlanResult(a, n)
  BY <1>1 DEF Invokes, IsPlanResult, IsResult
<1>8. \A a, n : /\ IsRejected(a, n)' <=> IsRejected(a, n)
                /\ IsRefused(a, n)' <=> IsRefused(a, n)
  BY <1>2 DEF IsRejected, IsRefused, IsResult
<1>9. PlacesAre /\ PlacesAre'
  BY PlacesShown, PlacesShownNext
<1>3. Invoked' = Invoked /\ Rejected' = Rejected /\ Refused' = Refused
  <2>1. \A x : x \in Invoked' <=> x \in Invoked
    BY <1>2, <1>9 DEF PlacesAre
  <2>2. \A x : x \in Rejected' <=> x \in Rejected
    BY <1>8, <1>9 DEF PlacesAre
  <2>3. \A x : x \in Refused' <=> x \in Refused
    BY <1>8, <1>9 DEF PlacesAre
  <2> QED
    BY <2>1, <2>2, <2>3
<1>4. \A a, n : Unanswered(a, n)' = Unanswered(a, n)
  BY DEF Unanswered
<1>5. NeverFull' <=> NeverFull
  BY <1>4 DEF NeverFull
<1>6. (LinesOK' <=> LinesOK) /\ (LogType' <=> LogType)
  BY DEF LinesOK, LogType, CallAt, ResultAt, IsCall
<1>7. \A a : Waits(a)' = Waits(a)
  BY DEF Waits, UsesIn, ResultsIn
<1> QED
  BY <1>3, <1>5, <1>6, <1>7

\* A meta file adds the spawn of its agent and nothing else.
LEMMA CountersMeta ==
  ASSUME CountersInv, NEW a \in Agents, ReadMeta(a)
  PROVE  CountersInv'
<1>1. PICK spawn : spawn = [Event("subagent_spawned", a, a) EXCEPT !.agent = a]
  OBVIOUS
<1>2. PICK next : next = [NoTurn EXCEPT !.events = <<spawn>>]
  OBVIOUS
<1>3. /\ a \notin spawned /\ spawned' = spawned \cup {a} /\ log' = log
      /\ AddSubagentTurn(a, next)
  BY <1>1, <1>2 DEF ReadMeta
<1>4. AppendEvents(<<spawn>>) /\ Count(<<spawn>>)
  <2>1. next.events = <<spawn>>
    BY <1>2 DEF NoTurn
  <2> QED
    BY <1>3, <2>1 DEF AddSubagentTurn
<1>5. IsNew(spawn) /\ spawn.kind = "subagent_spawned"
  <2>1. spawn = [kind |-> "subagent_spawned", actor |-> a, tool |-> a, agent |-> a]
    BY <1>1 DEF Event
  <2>2. "subagent_spawned" \in EventKinds /\ a \in Actors /\ a \in UseIds
    BY DEF EventKinds, Kinds, Actors, UseIds
  <2> QED
    BY <2>1, <2>2 DEF IsNew, Events
<1>6. PICK new : new = <<spawn>>
  OBVIOUS
<1>7. new \in NewEvents /\ \A kind : NumberOf(new, kind) = One("subagent_spawned" = kind)
  BY <1>5, <1>6, OneCounted
<1>8. /\ EventsExact'
      /\ \A k \in Kinds : NumberOf(new, k) \in Nat /\ counters'[k] = counters[k] + NumberOf(new, k)
  BY <1>4, <1>6, <1>7, EventsStep DEF CountersInv
<1>9. /\ NumberOf(new, "skill") = 0 /\ NumberOf(new, "plan_rejected") = 0
      /\ NumberOf(new, "denied") = 0 /\ NumberOf(new, "cancelled") = 0
      /\ NumberOf(new, "subagent_spawned") = 1
  BY <1>7 DEF One
<1>10. counters \in [Kinds -> Nat]
  BY DEF CountersInv, EventsExact
<1>11. /\ counters'["skill"] = counters["skill"]
       /\ counters'["plan_rejected"] = counters["plan_rejected"]
       /\ counters'["denied"] = counters["denied"] /\ counters'["cancelled"] = counters["cancelled"]
       /\ counters'["subagent_spawned"] = counters["subagent_spawned"] + 1
  BY <1>8, <1>9, <1>10 DEF Kinds
<1>12. IsFiniteSet(spawned') /\ Cardinality(spawned') = Cardinality(spawned) + 1
  BY <1>3, FS_AddElement DEF CountersInv
<1> QED
  BY <1>3, <1>8, <1>11, <1>12, PlacesUnchanged DEF CountersInv, Refusals

-----------------------------------------------------------------------------
(* The turns that a scope retains, and what is marked in them.                *)

Calls == [id : UseIds, isError : BOOLEAN]

\* A turn whose calls are marked as the transcript of the scope says.
TurnOK(a, t) ==
  /\ t = [request |-> t.request, text |-> t.text, calls |-> t.calls]
  /\ t.calls \subseteq Calls
  /\ \A c \in t.calls : c.isError <=> \E n \in ResultsIn(a, c.id) : log[a][n].isError

DepthOf(a) == IF a = Main THEN Depth ELSE SubDepth

ScopeOK(a) ==
  /\ \A s, t \in turn[a] : s = t
  /\ \A t \in turn[a] : TurnOK(a, t)
  /\ \E S : finished[a] \in Seq(S)
  /\ \A n \in DOMAIN finished[a] : TurnOK(a, finished[a][n])
  /\ Len(finished[a]) <= DepthOf(a)

TurnsInv ==
  /\ turn = [a \in Actors |-> turn[a]] /\ finished = [a \in Actors |-> finished[a]]
  /\ \A a \in Actors : ScopeOK(a) /\ (~Live(a) => turn[a] = {} /\ finished[a] = <<>>)

\* A result in the place of the call that it answers, the rest as it was.
LEMMA MarkedIs ==
  ASSUME NEW a, NEW t, TurnOK(a, t), NEW results,
         NEW marked, marked = Marked(t, results)
  PROVE  /\ marked = [request |-> t.request, text |-> t.text, calls |-> marked.calls]
         /\ marked.calls \subseteq Calls
         /\ \A d \in marked.calls : \E c \in t.calls :
              /\ d.id = c.id
              /\ d.isError <=> \/ \E r \in results : r.id = c.id /\ r.isError
                               \/ c.isError /\ ~ \E r \in results : r.id = c.id
<1> DEFINE mark(c) == \/ \E r \in results : r.id = c.id /\ r.isError
                      \/ c.isError /\ ~ \E r \in results : r.id = c.id
           after(c) == [c EXCEPT !.isError = mark(c)]
<1>1. marked = [t EXCEPT !.calls = {after(c) : c \in @}]
  BY DEF Marked
<1>2. ASSUME NEW c \in Calls
      PROVE  after(c) \in Calls /\ after(c).id = c.id /\ (after(c).isError <=> mark(c))
  <2>1. mark(c) \in BOOLEAN
    BY DEF Calls
  <2> HIDE DEF mark
  <2> QED
    BY <2>1 DEF Calls
<1> HIDE DEF after
<1>3. marked = [request |-> t.request, text |-> t.text, calls |-> {after(c) : c \in t.calls}]
  BY <1>1 DEF TurnOK
<1>4. marked.calls = {after(c) : c \in t.calls} /\ t.calls \subseteq Calls
  BY <1>3 DEF TurnOK
<1>5. ASSUME NEW d \in marked.calls
      PROVE  d \in Calls /\ \E c \in t.calls : d.id = c.id /\ (d.isError <=> mark(c))
  <2>1. PICK c \in t.calls : d = after(c)
    BY <1>4
  <2> HIDE DEF mark
  <2> QED
    BY <1>2, <1>4, <2>1
<1> QED
  BY <1>3, <1>4, <1>5

\* What a line gives the turn of its scope.
ResultsOf(line) ==
  IF line.type = "result" THEN {[id |-> line.id, isError |-> line.isError]} ELSE {}

LEMMA TurnFields ==
  ASSUME NEW a \in Actors, NEW line, IsLine(a, line),
         NEW next, next = Parse(parsers[a], line, a).turn
  PROVE  /\ next.results = ResultsOf(line)
         /\ next.calls = IF IsCall(line) THEN {line.use.id} ELSE {}
<1>1. CASE line.type = "prompt"
  <2>1. next = ParsePrompt(parsers[a], line, a).turn
    BY <1>1 DEF Parse
  <2>2. next.results = {} /\ next.calls = {}
    BY <2>1 DEF ParsePrompt, NoTurn, SidechainTurn, EventTurn
  <2> QED
    BY <1>1, <2>2 DEF ResultsOf, IsCall
<1>2. CASE line.type = "chunk"
  <2>1. next = ParseChunk(parsers[a], line, a).turn
    BY <1>2 DEF Parse
  <2>2. next.results = {} /\ next.calls = IF line.use = NoTool THEN {} ELSE {line.use.id}
    BY <2>1 DEF ParseChunk, NoTurn
  <2> QED
    BY <1>2, <2>2 DEF ResultsOf, IsCall
<1>3. CASE line.type = "result"
  <2>1. next = ParseResult(parsers[a], line, a).turn
    BY <1>3 DEF Parse
  <2>2. next.results = {[id |-> line.id, isError |-> line.isError]} /\ next.calls = {}
    BY <2>1 DEF ParseResult, NoTurn, SidechainTurn, EventTurn
  <2> QED
    BY <1>3, <2>2 DEF ResultsOf, IsCall
<1>4. CASE line.type = "notice"
  <2>1. next = ParseNotice(parsers[a], line).turn
    BY <1>4 DEF Parse
  <2>2. next.results = {} /\ next.calls = {}
    BY <2>1 DEF ParseNotice, NoTurn, EventTurn
  <2> QED
    BY <1>4, <2>2 DEF ResultsOf, IsCall
<1> QED
  BY <1>1, <1>2, <1>3, <1>4 DEF IsLine

\* A retained turn is marked as the transcript says after a line of it.
LEMMA MarkedStep ==
  ASSUME LogType, LinesOK, NEW a \in Actors, NEW line, IsLine(a, line), CanWrite(a, line),
         Appended(a, line), NEW t, TurnOK(a, t)
  PROVE  TurnOK(a, Marked(t, ResultsOf(line)))'
<1>1. PICK results : results = ResultsOf(line)
  OBVIOUS
<1>2. PICK marked : marked = Marked(t, results)
  OBVIOUS
<1>3. PICK last : last = Len(log[a]) + 1
  OBVIOUS
<1>4. log'[a][last] = line /\ \A k \in DOMAIN log[a] : log'[a][k] = log[a][k]
  BY <1>3, LogLines, AppendedLines
<1>5. \A id : ResultsIn(a, id)' =
        ResultsIn(a, id) \cup (IF line.type = "result" /\ line.id = id THEN {last} ELSE {})
  BY <1>3, WaitsNext
<1>6. /\ marked = [request |-> t.request, text |-> t.text, calls |-> marked.calls]
      /\ marked.calls \subseteq Calls
      /\ \A d \in marked.calls : \E c \in t.calls :
           /\ d.id = c.id
           /\ d.isError <=> \/ \E r \in results : r.id = c.id /\ r.isError
                            \/ c.isError /\ ~ \E r \in results : r.id = c.id
  BY <1>2, MarkedIs
<1>7. ASSUME NEW d \in marked.calls
      PROVE  d.isError <=> \E n \in ResultsIn(a, d.id)' : log'[a][n].isError
  <2>1. PICK c \in t.calls :
           /\ d.id = c.id
           /\ d.isError <=> \/ \E r \in results : r.id = c.id /\ r.isError
                            \/ c.isError /\ ~ \E r \in results : r.id = c.id
    BY <1>6
  <2>2. c.isError <=> \E n \in ResultsIn(a, d.id) : log[a][n].isError
    BY <2>1 DEF TurnOK
  <2>3. \A n \in ResultsIn(a, d.id) : log'[a][n] = log[a][n]
    BY <1>4 DEF ResultsIn
  <2>4. CASE line.type = "result" /\ line.id = d.id
    <3>1. ResultsIn(a, d.id)' = {last}
      BY <1>5, <2>4 DEF CanWrite
    <3>2. results = {[id |-> line.id, isError |-> line.isError]}
      BY <1>1, <2>4 DEF ResultsOf
    <3>3. d.isError <=> line.isError
      BY <2>1, <2>4, <3>2
    <3> QED
      BY <1>4, <3>1, <3>3
  <2>5. CASE ~(line.type = "result" /\ line.id = d.id)
    <3>1. ResultsIn(a, d.id)' = ResultsIn(a, d.id)
      BY <1>5, <2>5
    <3>2. \A r \in results : r.id # d.id
      BY <1>1, <2>5 DEF ResultsOf
    <3> QED
      BY <2>1, <2>2, <2>3, <3>1, <3>2
  <2> QED
    BY <2>4, <2>5
<1>8. TurnOK(a, marked)'
  BY <1>6, <1>7 DEF TurnOK
<1> QED
  BY <1>1, <1>2, <1>8

\* A call that was just made has no result.
LEMMA EntryStep ==
  ASSUME LogType, LinesOK, NEW a \in Actors, NEW line, IsLine(a, line), CanWrite(a, line),
         Appended(a, line), NEW next, next = Parse(parsers[a], line, a).turn
  PROVE  TurnOK(a, Entry(next))'
<1>1. PICK entry : entry = Entry(next)
  OBVIOUS
<1>2. /\ entry = [request |-> entry.request, text |-> entry.text, calls |-> entry.calls]
      /\ entry.calls = {[id |-> id, isError |-> FALSE] : id \in next.calls}
  BY <1>1 DEF Entry
<1>3. next.calls = IF IsCall(line) THEN {line.use.id} ELSE {}
  BY TurnFields
<1>4. \A c \in entry.calls : c.isError = FALSE /\ IsCall(line) /\ c.id = line.use.id /\ c \in Calls
  <2>1. ASSUME NEW c \in entry.calls
        PROVE  c.isError = FALSE /\ IsCall(line) /\ c.id = line.use.id /\ c \in Calls
    <3>1. PICK id \in next.calls : c = [id |-> id, isError |-> FALSE]
      BY <1>2
    <3>2. IsCall(line) /\ id = line.use.id /\ id \in UseIds
      BY <1>3, <3>1 DEF CanWrite
    <3> QED
      BY <3>1, <3>2 DEF Calls
  <2> QED
    BY <2>1
<1>5. ASSUME IsCall(line)
      PROVE  ResultsIn(a, line.use.id)' = {}
  <2>1. line.use \in Waits(a)'
    BY <1>5, WaitsNext
  <2> QED
    BY <2>1 DEF Waits
<1>6. TurnOK(a, entry)'
  BY <1>2, <1>4, <1>5 DEF TurnOK
<1> QED
  BY <1>1, <1>6

\* Pushing on a turn buffer keeps the last turns, at most as many as it holds.
LEMMA RingIs ==
  ASSUME NEW S, NEW items \in Seq(S), NEW depth \in Nat \ {0}, Len(items) <= depth, NEW t,
         NEW ring, ring = Ring(items, depth, t)
  PROVE  /\ ring \in Seq(S \cup {t}) /\ Len(ring) <= depth
         /\ \A n \in DOMAIN ring : ring[n] = t \/ \E m \in DOMAIN items : ring[n] = items[m]
<1>1. PICK base : base = IF Len(items) < depth THEN items ELSE Tail(items)
  OBVIOUS
<1>2. /\ base \in Seq(S) /\ Len(base) < depth
      /\ \A n \in DOMAIN base : \E m \in DOMAIN items : base[n] = items[m]
  <2>1. CASE Len(items) < depth
    BY <1>1, <2>1
  <2>2. CASE ~(Len(items) < depth)
    <3>1. items # <<>> /\ Len(items) = depth
      BY <2>2
    <3>2. /\ Tail(items) \in Seq(S) /\ Len(Tail(items)) = Len(items) - 1
          /\ \A n \in 1 .. Len(items) - 1 : Tail(items)[n] = items[n + 1]
      BY <3>1
    <3>3. \A n \in 1 .. Len(items) - 1 : n + 1 \in DOMAIN items
      BY <3>1
    <3>4. DOMAIN Tail(items) = 1 .. Len(items) - 1
      BY <3>1, <3>2
    <3> QED
      BY <1>1, <2>2, <3>1, <3>2, <3>3, <3>4
  <2> QED
    BY <2>1, <2>2
<1>3. ring = Append(base, t)
  BY <1>1 DEF Ring
<1>4. base \in Seq(S \cup {t}) /\ t \in S \cup {t}
  BY <1>2
<1>5. /\ Append(base, t) \in Seq(S \cup {t}) /\ Len(Append(base, t)) = Len(base) + 1
      /\ \A n \in 1 .. Len(base) : Append(base, t)[n] = base[n]
      /\ Append(base, t)[Len(base) + 1] = t
      /\ DOMAIN Append(base, t) = 1 .. Len(base) + 1
      /\ DOMAIN base = 1 .. Len(base) /\ Len(base) \in Nat
  BY <1>4
<1>6. \A n \in DOMAIN Append(base, t) : Append(base, t)[n] = t \/ n \in DOMAIN base
  BY <1>5
<1>7. \A n \in DOMAIN base : Append(base, t)[n] = base[n]
  BY <1>5
<1>8. Len(Append(base, t)) <= depth
  BY <1>2, <1>5
<1> QED
  BY <1>2, <1>3, <1>5, <1>6, <1>7, <1>8

\* One scope after a turn, when marking and a new entry do what the transcript says.
LEMMA ScopeStep ==
  ASSUME TurnsInv, NEW a \in Actors, NEW next, AddToScope(a, next),
         \A t : TurnOK(a, t) => TurnOK(a, Marked(t, next.results))',
         TurnOK(a, Entry(next))'
  PROVE  /\ ScopeOK(a)' /\ turn' = [b \in Actors |-> turn'[b]]
         /\ finished' = [b \in Actors |-> finished'[b]]
         /\ \A b \in Actors \ {a} : turn'[b] = turn[b] /\ finished'[b] = finished[b]
<1>1. PICK now : now = {Marked(t, next.results) : t \in turn[a]}
  OBVIOUS
<1>2. PICK items : items = FinishedMarked(a, next.results)
  OBVIOUS
<1>3. PICK joins : joins = {t \in now : next.request # NoRequest /\ t.request = next.request}
  OBVIOUS
<1>4. PICK ended : ended = {t \in now \ joins : HasContent(t)}
  OBVIOUS
<1>5. (\A s, t \in now : s = t) /\ \A t \in now : TurnOK(a, t)'
  BY <1>1 DEF TurnsInv, ScopeOK
<1>6. DepthOf(a) \in Nat \ {0}
  BY AccountAssumption DEF DepthOf
<1>7. /\ Len(items) <= DepthOf(a) /\ \E S : items \in Seq(S)
      /\ \A n \in DOMAIN items : TurnOK(a, items[n])'
  <2>1. PICK old : old = finished[a]
    OBVIOUS
  <2>2. PICK S : old \in Seq(S)
    BY <2>1 DEF TurnsInv, ScopeOK
  <2>3. items = [n \in 1 .. Len(old) |-> Marked(old[n], next.results)] /\ Len(old) \in Nat
        /\ DOMAIN old = 1 .. Len(old)
    BY <1>2, <2>1, <2>2 DEF FinishedMarked
  <2>4. \A n \in 1 .. Len(old) : TurnOK(a, old[n]) /\ items[n] = Marked(old[n], next.results)
    BY <2>1, <2>3 DEF TurnsInv, ScopeOK
  <2>5. DOMAIN items = 1 .. Len(old) /\ Len(items) = Len(old)
        /\ items \in Seq({items[n] : n \in 1 .. Len(old)})
    BY <2>3
  <2>6. Len(old) <= DepthOf(a)
    BY <2>1 DEF TurnsInv, ScopeOK
  <2> QED
    BY <2>4, <2>5, <2>6
<1>8. /\ turn' = [turn EXCEPT ![a] = IF next.role = "" THEN now
                    ELSE IF joins = {} THEN {Entry(next)} ELSE {Joined(t, next) : t \in joins}]
      /\ finished' = [finished EXCEPT ![a] =
                        IF next.role = "" \/ ended = {} THEN items
                        ELSE Ring(items, DepthOf(a), CHOOSE t \in ended : TRUE)]
  <2>1. CASE next.role = ""
    BY <1>1, <1>2, <2>1 DEF AddToScope
  <2>2. CASE next.role # ""
    BY <1>1, <1>2, <1>3, <1>4, <2>2 DEF AddToScope, DepthOf
  <2> QED
    BY <2>1, <2>2
<1>9. /\ turn' = [b \in Actors |-> turn'[b]] /\ finished' = [b \in Actors |-> finished'[b]]
      /\ \A b \in Actors \ {a} : turn'[b] = turn[b] /\ finished'[b] = finished[b]
      /\ turn'[a] = IF next.role = "" THEN now
                    ELSE IF joins = {} THEN {Entry(next)} ELSE {Joined(t, next) : t \in joins}
      /\ finished'[a] = IF next.role = "" \/ ended = {} THEN items
                        ELSE Ring(items, DepthOf(a), CHOOSE t \in ended : TRUE)
  BY <1>8 DEF TurnsInv
<1>10. ASSUME NEW t \in joins
       PROVE  TurnOK(a, Joined(t, next))'
  <2>1. PICK joined : joined = Joined(t, next)
    OBVIOUS
  <2>2. PICK entry : entry = Entry(next)
    OBVIOUS
  <2>3. TurnOK(a, entry)' /\ TurnOK(a, t)'
    BY <1>3, <1>5, <2>2
  <2>4. /\ joined = [request |-> joined.request, text |-> joined.text, calls |-> joined.calls]
        /\ joined.calls = entry.calls \cup t.calls
    BY <2>1, <2>2 DEF Joined, Entry
  <2>5. TurnOK(a, joined)'
    BY <2>3, <2>4 DEF TurnOK
  <2> QED
    BY <2>1, <2>5
<1>11. (\A s, t \in turn'[a] : s = t) /\ \A t \in turn'[a] : TurnOK(a, t)'
  <2>1. CASE next.role = ""
    BY <1>5, <1>9, <2>1
  <2>2. CASE next.role # "" /\ joins = {}
    BY <1>9, <2>2
  <2>3. CASE next.role # "" /\ joins # {}
    <3>1. \A s, t \in joins : s = t
      BY <1>3, <1>5
    <3>2. turn'[a] = {Joined(t, next) : t \in joins}
      BY <1>9, <2>3
    <3> QED
      BY <1>10, <3>1, <3>2
  <2> QED
    BY <2>1, <2>2, <2>3
<1>14. PICK list : list = finished'[a]
  OBVIOUS
<1>12. /\ Len(list) <= DepthOf(a) /\ \E S : list \in Seq(S)
       /\ \A n \in DOMAIN list : TurnOK(a, list[n])'
  <2>1. CASE next.role = "" \/ ended = {}
    BY <1>7, <1>9, <1>14, <2>1
  <2>2. CASE ~(next.role = "" \/ ended = {})
    <3>1. PICK t \in ended : t = CHOOSE u \in ended : TRUE
      BY <2>2
    <3>2. PICK S : items \in Seq(S)
      BY <1>7
    <3>3. PICK ring : ring = Ring(items, DepthOf(a), t)
      OBVIOUS
    <3>4. /\ ring \in Seq(S \cup {t}) /\ Len(ring) <= DepthOf(a)
          /\ \A n \in DOMAIN ring : ring[n] = t \/ \E m \in DOMAIN items : ring[n] = items[m]
      <4>1. PICK depth \in Nat \ {0} : depth = DepthOf(a)
        BY <1>6
      <4>2. ring = Ring(items, depth, t) /\ Len(items) <= depth
        BY <1>7, <3>3, <4>1
      <4>3. /\ ring \in Seq(S \cup {t}) /\ Len(ring) <= depth
            /\ \A n \in DOMAIN ring : ring[n] = t \/ \E m \in DOMAIN items : ring[n] = items[m]
        BY <3>2, <4>2, RingIs
      <4> QED
        BY <4>1, <4>3
    <3>5. TurnOK(a, t)'
      BY <1>4, <1>5
    <3>6. \A n \in DOMAIN ring : TurnOK(a, ring[n])'
      BY <1>7, <3>4, <3>5
    <3>7. list = ring
      BY <1>9, <1>14, <2>2, <3>1, <3>3
    <3> QED
      BY <3>4, <3>6, <3>7
  <2> QED
    BY <2>1, <2>2
<1>13. ScopeOK(a)'
  BY <1>11, <1>12, <1>14 DEF ScopeOK, DepthOf
<1> QED
  BY <1>9, <1>13

\* What is said of a scope's turns stays while the scope and its transcript do.
LEMMA ScopeUnchanged ==
  ASSUME NEW b, log'[b] = log[b], turn'[b] = turn[b], finished'[b] = finished[b], ScopeOK(b)
  PROVE  ScopeOK(b)'
<1>1. \A id : ResultsIn(b, id)' = ResultsIn(b, id)
  BY DEF ResultsIn
<1>2. ASSUME NEW t, TurnOK(b, t)
      PROVE  TurnOK(b, t)'
  BY <1>1, <1>2 DEF TurnOK
<1>3. PICK list : list = finished[b]
  OBVIOUS
<1>4. /\ \E S : list \in Seq(S) /\ Len(list) <= DepthOf(b)
      /\ \A n \in DOMAIN list : TurnOK(b, list[n])
  BY <1>3 DEF ScopeOK
<1>5. \A n \in DOMAIN list : TurnOK(b, list[n])'
  BY <1>2, <1>4
<1>6. \A t \in turn'[b] : TurnOK(b, t)'
  BY <1>2 DEF ScopeOK
<1> QED
  BY <1>3, <1>4, <1>5, <1>6 DEF ScopeOK, DepthOf

\* A scope without turns says nothing.
LEMMA ScopeEmpty ==
  ASSUME NEW b, turn'[b] = {}, finished'[b] = <<>>
  PROVE  ScopeOK(b)'
<1>1. DepthOf(b) \in Nat
  BY AccountAssumption DEF DepthOf
<1>2. PICK list : list = finished'[b] /\ list = <<>>
  OBVIOUS
<1>3. list \in Seq({}) /\ Len(list) = 0 /\ DOMAIN list = {}
  BY <1>2
<1> QED
  BY <1>1, <1>2, <1>3 DEF ScopeOK, DepthOf

\* The turns that a turn of the parser leaves, when its marks are those of the transcript.
LEMMA TurnsStep ==
  ASSUME TurnsInv, NEW a \in Actors, NEW next,
         \A b \in Actors \ {a} : log'[b] = log[b],
         \A t : TurnOK(a, t) => TurnOK(a, Marked(t, next.results))',
         TurnOK(a, Entry(next))',
         \A b \in Actors \ {a} : Live(b)' <=> Live(b),
         IF Live(a)' THEN AddToScope(a, next) ELSE ~Live(a) /\ UNCHANGED <<turn, finished>>
  PROVE  TurnsInv'
<1>1. CASE Live(a)'
  <2>1. /\ ScopeOK(a)' /\ turn' = [b \in Actors |-> turn'[b]]
        /\ finished' = [b \in Actors |-> finished'[b]]
        /\ \A b \in Actors \ {a} : turn'[b] = turn[b] /\ finished'[b] = finished[b]
    BY <1>1, ScopeStep
  <2>2. ASSUME NEW b \in Actors, b # a
        PROVE  ScopeOK(b)' /\ (~Live(b)' => turn'[b] = {} /\ finished'[b] = <<>>)
    <3>1. log'[b] = log[b] /\ turn'[b] = turn[b] /\ finished'[b] = finished[b] /\ ScopeOK(b)
      BY <2>1, <2>2 DEF TurnsInv
    <3>2. Live(b)' <=> Live(b)
      BY <2>2
    <3> QED
      BY <3>1, <3>2, ScopeUnchanged DEF TurnsInv
  <2> QED
    BY <1>1, <2>1, <2>2 DEF TurnsInv
<1>2. CASE ~Live(a)'
  <2>1. ~Live(a) /\ turn' = turn /\ finished' = finished
    BY <1>2
  <2>2. ASSUME NEW b \in Actors
        PROVE  ScopeOK(b)' /\ (~Live(b)' => turn'[b] = {} /\ finished'[b] = <<>>)
    <3>1. CASE b = a
      <4>1. turn'[b] = {} /\ finished'[b] = <<>>
        BY <2>1, <3>1 DEF TurnsInv
      <4> QED
        BY <4>1, ScopeEmpty
    <3>2. CASE b # a
      <4>1. log'[b] = log[b] /\ turn'[b] = turn[b] /\ finished'[b] = finished[b] /\ ScopeOK(b)
        BY <2>1, <3>2 DEF TurnsInv
      <4>2. Live(b)' <=> Live(b)
        BY <3>2
      <4> QED
        BY <4>1, <4>2, ScopeUnchanged DEF TurnsInv
    <3> QED
      BY <3>1, <3>2
  <2> QED
    BY <2>1, <2>2 DEF TurnsInv
<1> QED
  BY <1>1, <1>2

LEMMA TurnsRead ==
  ASSUME LogType, LinesOK, TurnsInv, NEW a \in Actors, NEW line, IsLine(a, line),
         CanWrite(a, line), Read(a, line)
  PROVE  TurnsInv'
<1>1. PICK next : next = Parse(parsers[a], line, a).turn
  OBVIOUS
<1>2. Appended(a, line) /\ IF a = Main THEN AddTurn(next) ELSE AddSubagentTurn(a, next)
  BY <1>1 DEF Read, Appended
<1>3. \A b \in Actors \ {a} : log'[b] = log[b]
  BY <1>2, AppendedLines
<1>4. next.results = ResultsOf(line)
  BY <1>1, TurnFields DEF ResultsOf
<1>5. \A t : TurnOK(a, t) => TurnOK(a, Marked(t, next.results))'
  BY <1>2, <1>4, MarkedStep
<1>6. TurnOK(a, Entry(next))'
  BY <1>1, <1>2, EntryStep
<1>7. CASE a = Main
  <2>1. AddToScope(a, next) /\ subs' = subs
    BY <1>2, <1>7 DEF AddTurn
  <2>2. Live(a)' /\ \A b : Live(b)' <=> Live(b)
    BY <1>7, <2>1 DEF Live
  <2> QED
    BY <1>3, <1>5, <1>6, <2>1, <2>2, TurnsStep
<1>8. CASE a # Main
  <2>1. AddSubagentTurn(a, next)
    BY <1>2, <1>8
  <2>2. IF a \in subs \/ Cardinality(subs) < MaxSubagents
        THEN subs' = subs \cup {a} /\ AddToScope(a, next)
        ELSE subs' = subs /\ a \notin subs /\ UNCHANGED <<turn, finished>>
    BY <2>1 DEF AddSubagentTurn
  <2>3. \A b \in Actors \ {a} : Live(b)' <=> Live(b)
    BY <2>2 DEF Live
  <2>4. IF Live(a)' THEN AddToScope(a, next) ELSE ~Live(a) /\ UNCHANGED <<turn, finished>>
    BY <1>8, <2>2 DEF Live
  <2> QED
    BY <1>3, <1>5, <1>6, <2>3, <2>4, TurnsStep
<1> QED
  BY <1>7, <1>8

\* A meta file marks nothing and makes no call.
LEMMA TurnsMeta ==
  ASSUME TurnsInv, NEW a \in Agents, ReadMeta(a)
  PROVE  TurnsInv'
<1>1. PICK spawn : spawn = [Event("subagent_spawned", a, a) EXCEPT !.agent = a]
  OBVIOUS
<1>2. PICK next : next = [NoTurn EXCEPT !.events = <<spawn>>]
  OBVIOUS
<1>3. log' = log /\ AddSubagentTurn(a, next) /\ a \in Actors /\ a # Main
  BY <1>1, <1>2, ParserAssumption DEF ReadMeta, Actors
<1>4. next.results = {} /\ next.calls = {}
  BY <1>2 DEF NoTurn
<1>5. \A b, id : ResultsIn(b, id)' = ResultsIn(b, id)
  BY <1>3 DEF ResultsIn
<1>6. ASSUME NEW t, TurnOK(a, t)
      PROVE  TurnOK(a, Marked(t, next.results))'
  <2>1. PICK marked : marked = Marked(t, next.results)
    OBVIOUS
  <2>2. /\ marked = [request |-> t.request, text |-> t.text, calls |-> marked.calls]
        /\ marked.calls \subseteq Calls
        /\ \A d \in marked.calls : \E c \in t.calls : d.id = c.id /\ (d.isError <=> c.isError)
    <3>1. PICK results : results = next.results /\ results = {}
      BY <1>4
    <3>2. /\ marked = [request |-> t.request, text |-> t.text, calls |-> marked.calls]
          /\ marked.calls \subseteq Calls
          /\ \A d \in marked.calls : \E c \in t.calls :
              /\ d.id = c.id
              /\ d.isError <=> \/ \E r \in results : r.id = c.id /\ r.isError
                               \/ c.isError /\ ~ \E r \in results : r.id = c.id
      BY <1>6, <2>1, <3>1, MarkedIs
    <3>3. \A d \in marked.calls : \E c \in t.calls : d.id = c.id /\ (d.isError <=> c.isError)
      BY <3>1, <3>2
    <3> QED
      BY <3>2, <3>3
  <2>3. TurnOK(a, marked)'
    BY <1>3, <1>5, <1>6, <2>2 DEF TurnOK
  <2> QED
    BY <2>1, <2>3
<1>7. TurnOK(a, Entry(next))'
  <2>1. PICK entry : entry = Entry(next)
    OBVIOUS
  <2>2. /\ entry = [request |-> entry.request, text |-> entry.text, calls |-> entry.calls]
        /\ entry.calls = {}
    BY <1>4, <2>1 DEF Entry
  <2>3. TurnOK(a, entry)'
    BY <2>2 DEF TurnOK
  <2> QED
    BY <2>1, <2>3
<1>8. IF a \in subs \/ Cardinality(subs) < MaxSubagents
      THEN subs' = subs \cup {a} /\ AddToScope(a, next)
      ELSE subs' = subs /\ a \notin subs /\ UNCHANGED <<turn, finished>>
  BY <1>3 DEF AddSubagentTurn
<1>9. \A b \in Actors \ {a} : Live(b)' <=> Live(b)
  BY <1>8 DEF Live
<1>10. IF Live(a)' THEN AddToScope(a, next) ELSE ~Live(a) /\ UNCHANGED <<turn, finished>>
  BY <1>3, <1>8 DEF Live
<1> QED
  BY <1>3, <1>6, <1>7, <1>9, <1>10, TurnsStep

-----------------------------------------------------------------------------
(* Touched files: a path more only while there is room.                       *)

TouchedOK ==
  /\ touched = [a \in Actors |-> touched[a]]
  /\ \A a \in Actors : /\ IsFiniteSet(DOMAIN touched[a])
                       /\ Cardinality(DOMAIN touched[a]) <= MaxTouched

LEMMA TouchKeeps ==
  ASSUME NEW files, IsFiniteSet(DOMAIN files), Cardinality(DOMAIN files) <= MaxTouched,
         NEW touch, NEW after, after = Touch(files, touch)
  PROVE  IsFiniteSet(DOMAIN after) /\ Cardinality(DOMAIN after) <= MaxTouched
<1>1. Cardinality(DOMAIN files) \in Nat /\ MaxTouched \in Nat
  BY FS_CardinalityType, AccountAssumption
<1>2. CASE touch.path \notin DOMAIN files /\ Cardinality(DOMAIN files) >= MaxTouched
  BY <1>2 DEF Touch
<1>3. CASE ~(touch.path \notin DOMAIN files /\ Cardinality(DOMAIN files) >= MaxTouched)
  <2>3. DOMAIN after = DOMAIN files \cup {touch.path}
    BY <1>3 DEF Touch
  <2>4. CASE touch.path \in DOMAIN files
    <3>1. DOMAIN after = DOMAIN files
      BY <2>3, <2>4
    <3> QED
      BY <3>1
  <2>5. CASE touch.path \notin DOMAIN files
    <3>1. /\ IsFiniteSet(DOMAIN files \cup {touch.path})
          /\ Cardinality(DOMAIN files \cup {touch.path}) = Cardinality(DOMAIN files) + 1
      BY <2>5, FS_AddElement
    <3> QED
      BY <1>1, <1>3, <2>3, <2>5, <3>1
  <2> QED
    BY <2>4, <2>5
<1> QED
  BY <1>2, <1>3

LEMMA TouchesStep ==
  ASSUME TouchedOK, NEW scopes, NEW touches, AddTouches(scopes, touches)
  PROVE  TouchedOK'
<1>1. PICK touch : touch = CHOOSE t \in touches : TRUE
  OBVIOUS
<1>2. touched' = [a \in Actors |-> IF a \in scopes /\ touches # {} THEN Touch(touched[a], touch)
                                   ELSE touched[a]]
  BY <1>1 DEF AddTouches
<1>3. ASSUME NEW a \in Actors
      PROVE  IsFiniteSet(DOMAIN touched'[a]) /\ Cardinality(DOMAIN touched'[a]) <= MaxTouched
  <2>1. IsFiniteSet(DOMAIN touched[a]) /\ Cardinality(DOMAIN touched[a]) <= MaxTouched
    BY DEF TouchedOK
  <2>2. CASE a \in scopes /\ touches # {}
    <3>1. touched'[a] = Touch(touched[a], touch)
      BY <1>2, <2>2
    <3> QED
      BY <2>1, <3>1, TouchKeeps
  <2>3. CASE ~(a \in scopes /\ touches # {})
    <3>1. touched'[a] = touched[a]
      BY <1>2, <2>3
    <3> QED
      BY <2>1, <3>1
  <2> QED
    BY <2>2, <2>3
<1>4. touched' = [a \in Actors |-> touched'[a]]
  BY <1>2
<1> QED
  BY <1>3, <1>4 DEF TouchedOK

\* Every turn of the parser touches files in some scopes.
LEMMA TurnTouches ==
  ASSUME TouchedOK, NEW a \in Actors, NEW next, AddTurn(next) \/ AddSubagentTurn(a, next)
  PROVE  TouchedOK'
<1>1. CASE AddTurn(next)
  BY <1>1, TouchesStep DEF AddTurn
<1>2. CASE AddSubagentTurn(a, next)
  BY <1>2, TouchesStep DEF AddSubagentTurn
<1> QED
  BY <1>1, <1>2

-----------------------------------------------------------------------------
(* What the account says of the transcripts, step by step.                    *)

AccountInv ==
  /\ LinesOK /\ ParsersOK /\ CountersInv /\ TurnsInv /\ TouchedOK
  /\ spawned \subseteq Agents

LEMMA AccountRead ==
  ASSUME LogType, AccountInv, NEW a \in Actors, NEW line, IsLine(a, line), CanWrite(a, line),
         Read(a, line)
  PROVE  AccountInv'
<1>1. /\ Appended(a, line) /\ spawned' = spawned
      /\ parsers' = [parsers EXCEPT ![a] = Parse(parsers[a], line, a).parser]
  BY ReadCounts
<1>2. LinesOK' /\ ParsersOK'
  BY <1>1, LinesStep, ParsersStep DEF AccountInv
<1>3. CountersInv' /\ TurnsInv'
  BY CountersRead, TurnsRead DEF AccountInv
<1>4. TouchedOK'
  <2>1. PICK next : next = Parse(parsers[a], line, a).turn
    OBVIOUS
  <2>2. AddTurn(next) \/ AddSubagentTurn(a, next)
    BY <2>1 DEF Read
  <2> QED
    BY <2>2, TurnTouches DEF AccountInv
<1> QED
  BY <1>1, <1>2, <1>3, <1>4 DEF AccountInv

\* What is said of the log and the parsers stays while they do.
LEMMA ParsersUnchanged ==
  ASSUME ParsersOK, UNCHANGED <<log, parsers>>
  PROVE  ParsersOK'
BY PlacesUnchanged DEF ParsersOK

LEMMA AccountMeta ==
  ASSUME AccountInv, NEW a \in Agents, ReadMeta(a)
  PROVE  AccountInv'
<1>1. UNCHANGED <<log, parsers>> /\ spawned' = spawned \cup {a}
  BY DEF ReadMeta
<1>2. LinesOK' /\ ParsersOK'
  BY <1>1, PlacesUnchanged, ParsersUnchanged DEF AccountInv
<1>3. CountersInv' /\ TurnsInv'
  BY CountersMeta, TurnsMeta DEF AccountInv
<1>4. TouchedOK'
  <2>1. PICK next : AddSubagentTurn(a, next)
    BY DEF ReadMeta
  <2> QED
    BY <2>1, TurnTouches DEF AccountInv, Actors
<1> QED
  BY <1>1, <1>2, <1>3, <1>4 DEF AccountInv

LEMMA AccountUnchanged ==
  ASSUME AccountInv,
         UNCHANGED <<log, parsers, spawned, subs, counters, events, touched, turn, finished>>
  PROVE  AccountInv'
<1>1. LinesOK' /\ ParsersOK'
  BY PlacesUnchanged, ParsersUnchanged DEF AccountInv
<1>2. CountersInv'
  <2>1. EventsExact'
    BY DEF AccountInv, CountersInv, EventsExact, Refusals
  <2> QED
    BY <2>1, PlacesUnchanged DEF AccountInv, CountersInv, Refusals
<1>3. TurnsInv'
  <2>1. \A b \in Actors : ScopeOK(b)'
    BY ScopeUnchanged DEF AccountInv, TurnsInv
  <2> QED
    BY <2>1 DEF AccountInv, TurnsInv, Live
<1>4. TouchedOK'
  BY DEF AccountInv, TouchedOK
<1> QED
  BY <1>1, <1>2, <1>3, <1>4 DEF AccountInv

\* Nothing was read.
LEMMA InitAccount ==
  ASSUME Init PROVE AccountInv
<1>1. /\ log = [a \in Actors |-> <<>>] /\ parsers = [a \in Actors |-> NewParser] /\ spawned = {}
      /\ counters = [k \in Kinds |-> 0] /\ events = <<>> /\ subs = {}
      /\ touched = [a \in Actors |-> <<>>]
      /\ turn = [a \in Actors |-> {}] /\ finished = [a \in Actors |-> <<>>]
  BY DEF Init
<1>2. \A a \in Actors : log[a] = <<>> /\ DOMAIN log[a] = {}
  BY <1>1
<1>3. LinesOK
  BY <1>2 DEF LinesOK
<1>4. Cardinality({}) = 0 /\ IsFiniteSet({})
  BY FS_EmptySet
<1>5. ParsersOK
  <2>1. \A a \in Actors : Waits(a) = {}
    BY <1>2 DEF Waits, UsesIn
  <2>2. MaxPending \in Nat
    BY ParserAssumption
  <2>3. parsers = [a \in Actors |-> [pending |-> {}, mode |-> NoMode]]
    BY <1>1 DEF NewParser
  <2> QED
    BY <1>4, <2>1, <2>2, <2>3 DEF ParsersOK
<1>6. Invoked = {} /\ Rejected = {} /\ Refused = {}
  BY <1>2, PlacesShown DEF PlacesAre
<1>7. EventsExact
  <2>1. BufferOK(events) /\ DenialPlaces(events) = {} /\ OtherPlaces(events) = {}
    BY <1>1 DEF BufferOK, NamesOwn, NamesAgents, DenialPlaces, OtherPlaces
  <2>2. Refusals = 0 /\ counters \in [Kinds -> Nat]
    BY <1>1 DEF Refusals, Kinds
  <2>3. DenialBudget \in Nat /\ OtherBudget \in Nat
    BY AccountAssumption
  <2>4. Least(DenialBudget, 0) = 0
    BY <2>3 DEF Least
  <2> QED
    BY <1>4, <2>1, <2>2, <2>3, <2>4 DEF EventsExact
<1>8. CountersInv
  <2>1. /\ counters["skill"] = 0 /\ counters["subagent_spawned"] = 0
        /\ counters["plan_rejected"] = 0 /\ Refusals = 0
    BY <1>1 DEF Refusals, Kinds
  <2> QED
    BY <1>1, <1>4, <1>6, <1>7, <2>1 DEF CountersInv
<1>9. TurnsInv
  <2>1. ASSUME NEW a \in Actors
        PROVE  ScopeOK(a)
    <3>1. PICK list : list = finished[a] /\ list = <<>>
      BY <1>1
    <3>2. list \in Seq({}) /\ Len(list) = 0 /\ DOMAIN list = {}
      BY <3>1
    <3>3. turn[a] = {} /\ DepthOf(a) \in Nat
      BY <1>1, AccountAssumption DEF DepthOf
    <3> QED
      BY <3>1, <3>2, <3>3 DEF ScopeOK
  <2> QED
    BY <1>1, <2>1 DEF TurnsInv
<1>10. TouchedOK
  <2>1. \A a \in Actors : DOMAIN touched[a] = {}
    BY <1>1
  <2> QED
    BY <1>1, <1>4, <2>1, AccountAssumption DEF TouchedOK
<1> QED
  BY <1>1, <1>3, <1>5, <1>8, <1>9, <1>10 DEF AccountInv

LEMMA NextAccount ==
  ASSUME LogType, AccountInv, [Next]_vars PROVE AccountInv'
<1>1. CASE UNCHANGED vars
  BY <1>1, AccountUnchanged DEF vars, transcripts, ledger, rest
<1>2. ASSUME NEW a \in Actors, WritePrompt(a) \/ WriteChunk(a) \/ WriteResult(a)
      PROVE  AccountInv'
  <2>1. PICK line : Read(a, line) /\ IsLine(a, line) /\ CanWrite(a, line)
    BY <1>2, WrittenLine DEF AccountInv
  <2> QED
    BY <2>1, AccountRead
<1>3. ASSUME NEW a \in Agents, ReadMeta(a) PROVE AccountInv'
  BY <1>3, AccountMeta
<1>4. CASE WriteNotice
  <2>1. Main \in Actors
    BY DEF Actors
  <2>2. PICK line : Read(Main, line) /\ IsLine(Main, line) /\ CanWrite(Main, line)
    BY <1>4, <2>1, WrittenLine DEF AccountInv
  <2> QED
    BY <2>1, <2>2, AccountRead
<1>5. CASE Rewarm
  BY <1>5, AccountUnchanged DEF Rewarm, transcripts, rest
<1> QED
  BY <1>1, <1>2, <1>3, <1>4, <1>5 DEF Next

-----------------------------------------------------------------------------
(* What follows of the account.                                               *)

LEMMA CountersAre ==
  ASSUME CountersInv PROVE CountersExact
<1>1. SUFFICES ASSUME NeverFull PROVE CountersExact
  BY DEF CountersExact
<1>2. /\ counters["plan_rejected"] = Cardinality(Rejected)
      /\ counters["denied"] + counters["cancelled"] = Cardinality(Refused)
      /\ counters["skill"] = Cardinality(Invoked)
      /\ counters["subagent_spawned"] = Cardinality(spawned)
  BY <1>1 DEF CountersInv, Refusals
<1> QED
  BY <1>2 DEF CountersExact, Rejected, Refused, Invoked

LEMMA DenialsAre ==
  ASSUME CountersInv PROVE DenialsKept
<1>1. PICK count : count = Refusals
  OBVIOUS
<1>2. DenialBudget \in Nat /\ count \in Nat
  BY <1>1, AccountAssumption DEF CountersInv, EventsExact, Refusals, Kinds
<1>3. Min({DenialBudget, count}) = Least(DenialBudget, count)
  <2>1. PICK least : least = Least(DenialBudget, count)
    OBVIOUS
  <2>2. /\ least \in {DenialBudget, count} /\ \A y \in {DenialBudget, count} : least <= y
        /\ \A x \in {DenialBudget, count} :
             (\A y \in {DenialBudget, count} : x <= y) => x = least
    BY <1>2, <2>1 DEF Least
  <2> QED
    BY <2>1, <2>2 DEF Min
<1> QED
  BY <1>1, <1>3 DEF DenialsKept, CountersInv, EventsExact, Refusals

LEMMA ResultsAre ==
  ASSUME CountersInv, TurnsInv PROVE ResultsFindCalls
<1>1. ResultNamesAgent
  BY DEF ResultNamesAgent, CountersInv, EventsExact, BufferOK, NamesAgents
<1>2. ErrorsMarked
  <2>1. ASSUME NEW a \in Actors, NEW t \in turn[a] \cup ToSet(finished[a])
        PROVE  TurnOK(a, t)
    <3>1. ScopeOK(a)
      BY DEF TurnsInv
    <3>2. CASE t \in turn[a]
      BY <3>1, <3>2 DEF ScopeOK
    <3>3. CASE t \in ToSet(finished[a])
      <4>1. PICK n \in DOMAIN finished[a] : t = finished[a][n]
        BY <3>3 DEF ToSet
      <4> QED
        BY <3>1, <4>1 DEF ScopeOK
    <3> QED
      BY <3>2, <3>3
  <2> QED
    BY <2>1 DEF ErrorsMarked, TurnOK
<1> QED
  BY <1>1, <1>2 DEF ResultsFindCalls

LEMMA TypesAre ==
  ASSUME IInv, AccountInv PROVE TypeOK
<1>1. LedgerType /\ DOMAIN log = Actors /\ spawned \subseteq Agents
  BY DEF IInv, LogType, AccountInv
<1>2. \A a \in Actors : Cardinality(parsers[a].pending) <= MaxPending
  BY DEF AccountInv, ParsersOK
<1>3. counters \in [Kinds -> Nat] /\ Len(events) <= DenialBudget + OtherBudget
  <2>1. EventsExact /\ events \in Seq(Events)
    BY DEF AccountInv, CountersInv, EventsExact, BufferOK, NamesOwn
  <2>2. /\ Cardinality(DenialPlaces(events)) \in Nat /\ Cardinality(OtherPlaces(events)) \in Nat
        /\ Len(events) = Cardinality(DenialPlaces(events)) + Cardinality(OtherPlaces(events))
    BY <2>1, PlacesCounted
  <2>3. DenialBudget \in Nat /\ OtherBudget \in Nat /\ Refusals \in Nat
    BY <2>1, AccountAssumption DEF EventsExact, Refusals, Kinds
  <2>4. /\ Cardinality(DenialPlaces(events)) <= DenialBudget
        /\ Cardinality(OtherPlaces(events)) <= OtherBudget
    BY <2>1, <2>3 DEF EventsExact, Least
  <2> QED
    BY <2>1, <2>2, <2>3, <2>4 DEF EventsExact
<1>4. ASSUME NEW a \in Actors
      PROVE  /\ Cardinality(turn[a]) <= 1
             /\ Len(finished[a]) <= IF a = Main THEN Depth ELSE SubDepth
             /\ Cardinality(DOMAIN touched[a]) <= MaxTouched
  <2>1. ScopeOK(a) /\ Cardinality(DOMAIN touched[a]) <= MaxTouched
    BY DEF AccountInv, TurnsInv, TouchedOK
  <2>2. Cardinality(turn[a]) <= 1
    <3>1. CASE turn[a] = {}
      BY <3>1, FS_EmptySet
    <3>2. CASE turn[a] # {}
      <4>1. PICK t : turn[a] = {t}
        BY <2>1, <3>2 DEF ScopeOK
      <4>2. Cardinality({t}) = 1
        BY FS_Singleton
      <4> QED
        BY <4>1, <4>2
    <3> QED
      BY <3>1, <3>2
  <2> QED
    BY <2>1, <2>2 DEF ScopeOK, DepthOf
<1> QED
  BY <1>1, <1>2, <1>3, <1>4 DEF TypeOK

\* For every number of transcripts, any caps, any order in which the files are read and
\* any cold phases: as long as no parser's table overflowed, the counters of skills,
\* subagents, denials and rejected plans are those of the transcripts, whatever the
\* event list had room for (AddEvent, countDenial, isPlanVerdict).
THEOREM CountersExactCorrect == Spec => []CountersExact
<1>1. Init => IInv /\ AccountInv
  BY InitIInv, InitAccount
<1>2. IInv /\ AccountInv /\ [Next]_vars => (IInv /\ AccountInv)'
  BY NextIInv, NextAccount DEF IInv
<1>3. IInv /\ AccountInv => CountersExact
  BY CountersAre DEF AccountInv
<1>4. QED BY <1>1, <1>2, <1>3, PTL DEF Spec

\* The event list has the first denials, as many as their budget allows: no number of
\* other events takes their room (EventBuffer.Push).
THEOREM DenialsKeptCorrect == Spec => []DenialsKept
<1>1. Init => IInv /\ AccountInv
  BY InitIInv, InitAccount
<1>2. IInv /\ AccountInv /\ [Next]_vars => (IInv /\ AccountInv)'
  BY NextIInv, NextAccount DEF IInv
<1>3. IInv /\ AccountInv => DenialsKept
  BY DenialsAre DEF AccountInv
<1>4. QED BY <1>1, <1>2, <1>3, PTL DEF Spec

\* A result finds its call: the event list names the subagent of a listed result,
\* whichever file was read first, and a retained call is marked failed exactly when
\* its transcript says so (resolveSubagentActor, applyToolResults, appendTurn).
THEOREM ResultsFindCallsCorrect == Spec => []ResultsFindCalls
<1>1. Init => IInv /\ AccountInv
  BY InitIInv, InitAccount
<1>2. IInv /\ AccountInv /\ [Next]_vars => (IInv /\ AccountInv)'
  BY NextIInv, NextAccount DEF IInv
<1>3. IInv /\ AccountInv => ResultsFindCalls
  BY ResultsAre DEF AccountInv
<1>4. QED BY <1>1, <1>2, <1>3, PTL DEF Spec

\* Every buffer keeps to its cap: the parsers' tables, the event list, the turn buffers,
\* the touched files and the skills.
THEOREM AccountTypeCorrect == Spec => []TypeOK
<1>1. Init => IInv /\ AccountInv
  BY InitIInv, InitAccount
<1>2. IInv /\ AccountInv /\ [Next]_vars => (IInv /\ AccountInv)'
  BY NextIInv, NextAccount DEF IInv
<1>3. IInv /\ AccountInv => TypeOK
  BY TypesAre
<1>4. QED BY <1>1, <1>2, <1>3, PTL DEF Spec

=============================================================================
