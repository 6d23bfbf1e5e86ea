------------------------------ MODULE Lifecycle ------------------------------
(***************************************************************************)
(* An instance between cold and warm (tools/lifecycle.go), the tool calls   *)
(* that move it (awaitReady and widened in tools/tools.go), the warm period *)
(* it starts and stops (cmd/warm.go), and the store's ready signal and      *)
(* content as far as a period changes them (session/store.go).              *)
(*                                                                         *)
(* Every Lifecycle method holds l.mu for its whole body.  A method that     *)
(* cannot be observed half-way is one action; the two that stop a warm      *)
(* period wait for its goroutines while holding l.mu, so they are split and *)
(* mu names the method that is inside.                                      *)
(***************************************************************************)
EXTENDS Integers, FiniteSets

CONSTANTS
  Callers,     \* tool calls that may run at the same time
  Wideners,    \* the callers that pass window_days
  Loaders,     \* the watchers whose initial load the ready signal waits for
  Windows,     \* the window_days a widening caller may ask for
  InitWindow,  \* --watch-window-days; 0 watches everything
  Everything,  \* the depth of an unlimited window
  Keepalive,   \* whether --cache-keepalive-sec is above zero
  MaxCalls     \* bound: tool calls made in one behaviour

NoDays     == 0     \* window_days absent; as a window, no limit
NoTimer    == -1

ASSUME LifecycleAssumption ==
  /\ IsFiniteSet(Callers)
  /\ Wideners \subseteq Callers
  /\ "free" \notin Callers /\ "expire" \notin Callers
  /\ InitWindow \in Nat /\ Everything \in Nat
  /\ Windows \subseteq Nat \ {NoDays}
  /\ \A days \in Windows \cup {InitWindow} : days < Everything
  /\ Keepalive \in BOOLEAN
  /\ MaxCalls \in Nat

VARIABLES
  \* Lifecycle
  generation,  \* Acquires so far
  inFlight,
  isWarm,
  window,
  timer,       \* the generation the armed keepalive timer was given, or NoTimer
  fired,       \* generations whose expire goroutine runs but has not locked mu
  mu,          \* "free", "expire" or the caller inside Widen: who is stopping
  started,
  \* Store
  ready,       \* the current ready channel; one per Reset
  closed,      \* the ready channels that are closed
  stored,      \* [Loaders -> depth]: how far back the store's sessions reach
  \* warmSet
  running,     \* a warm period's goroutines exist
  watchWindow, \* the window that period was started with
  cancelled,
  loaded,      \* watchers whose Loaded channel is closed
  read,        \* [Loaders -> depth]: how far back the watchers' offsets reach
  reporter,    \* the reportLoaded goroutine
  snapshot,    \* the instances/<id>.store files: none, or one snapshot
  \* what the instance record says
  state,
  \* tool calls
  pc,
  arg,         \* the window_days of the call, NoDays when absent
  waitsOn,     \* the ready channel the call selects on
  calls

lifecycle == <<generation, inFlight, isWarm, window, timer, fired, mu, started>>
store     == <<ready, closed, stored>>
warmSet   == <<running, watchWindow, cancelled, loaded, read, reporter, snapshot>>
callVars  == <<pc, arg, waitsOn, calls>>
vars      == <<lifecycle, store, warmSet, state, callVars>>

Nothing  == [l \in Loaders |-> 0]
InFlight == {"select", "waiting", "handling", "releasing"}
Depths   == 0 .. Everything
Snapshots == [stored : [Loaders -> Depths], read : [Loaders -> Depths]]

\* How many days back a watch window reaches.
Depth(days) == IF days = NoDays THEN Everything ELSE days

-----------------------------------------------------------------------------
LifecycleType ==
  /\ generation \in Nat /\ inFlight \in Nat /\ isWarm \in BOOLEAN
  /\ window \in Windows \cup {InitWindow}
  /\ timer \in Nat \cup {NoTimer} /\ fired \in SUBSET Nat
  /\ mu \in {"free", "expire"} \cup Callers /\ started \in BOOLEAN

StoreType ==
  ready \in Nat /\ closed \in SUBSET Nat /\ stored \in [Loaders -> Depths]

WarmSetType ==
  /\ running \in BOOLEAN /\ watchWindow \in Windows \cup {InitWindow}
  /\ cancelled \in BOOLEAN /\ loaded \in SUBSET Loaders
  /\ read \in [Loaders -> Depths]
  /\ reporter \in {"none", "await", "marked", "done"}
  /\ snapshot \in SUBSET Snapshots

CallsType ==
  /\ pc \in [Callers -> {"idle", "widen", "acquire"} \cup InFlight]
  /\ arg \in [Callers -> Windows \cup {NoDays}]
  /\ waitsOn \in [Callers -> Nat] /\ calls \in 0 .. MaxCalls

TypeOK ==
  /\ LifecycleType /\ StoreType /\ WarmSetType /\ CallsType
  /\ state \in {"none", "cold", "warming", "warm"}

Init ==
  /\ generation = 0 /\ inFlight = 0 /\ isWarm = FALSE
  /\ window = InitWindow /\ timer = NoTimer /\ fired = {}
  /\ mu = "free" /\ started = FALSE
  /\ ready = 0 /\ closed = {} /\ stored = Nothing
  /\ running = FALSE /\ watchWindow = InitWindow /\ cancelled = FALSE
  /\ loaded = {} /\ read = Nothing /\ reporter = "none"
  /\ snapshot = {} /\ state = "none"
  /\ pc = [c \in Callers |-> "idle"] /\ arg = [c \in Callers |-> NoDays]
  /\ waitsOn = [c \in Callers |-> 0] /\ calls = 0

-----------------------------------------------------------------------------
(* The warm period: startWarmSet, its goroutines, stop.                      *)

\* Mutant: a snapshot that does not load leaves its offsets in the watchers.
RestoreKeepsWatchers ==
  /\ snapshot' = {}
  /\ \/ \E saved \in snapshot : stored' \in {stored, saved.stored} /\ read' = saved.read
     \/ /\ stored' = stored /\ read' = Nothing

\* A period starts from the snapshot file, or, when there is none or it does not
\* load, from the empty store and fresh watchers.  The file is gone either way.
RestoreSnapshot ==
  /\ snapshot' = {}
  /\ \/ \E saved \in snapshot : stored' = saved.stored /\ read' = saved.read
     \/ /\ stored' = stored /\ read' = Nothing

WarmUp(days) ==
  /\ state' = "warming" /\ isWarm' = TRUE
  /\ RestoreSnapshot
  /\ running' = TRUE /\ watchWindow' = days /\ cancelled' = FALSE
  /\ loaded' = {} /\ reporter' = "await"
  /\ UNCHANGED <<ready, closed>>

\* What a watcher's walk adds: the transcripts its offsets do not reach yet.
LoadedDepth(l) ==
  IF stored[l] >= read[l] /\ Depth(watchWindow) > stored[l]
  THEN Depth(watchWindow) ELSE stored[l]

\* A watcher's first walk ends.  Cancelling does not interrupt a walk, so a stop
\* waits for it.
Load(l) ==
  /\ running /\ l \notin loaded
  /\ loaded' = loaded \cup {l}
  /\ stored' = [stored EXCEPT ![l] = LoadedDepth(l)]
  /\ read' = [read EXCEPT ![l] = IF @ > Depth(watchWindow) THEN @ ELSE Depth(watchWindow)]
  /\ UNCHANGED <<lifecycle, ready, closed, running, watchWindow, cancelled,
                 reporter, snapshot, state, callVars>>

AllLoaded == loaded = Loaders

\* awaitInitialLoad: the ready signal once every load is in.  A select with both
\* cases ready may take either, so a cancelled period may still become ready.
MarkReady ==
  /\ reporter = "await" /\ AllLoaded
  /\ closed' = closed \cup {ready}
  /\ reporter' = "marked"
  /\ UNCHANGED <<lifecycle, ready, stored, running, watchWindow, cancelled,
                 loaded, read, snapshot, state, callVars>>

ReportWarm ==
  /\ reporter = "marked"
  /\ reporter' = "done" /\ state' = "warm"
  /\ UNCHANGED <<lifecycle, store, running, watchWindow, cancelled, loaded,
                 read, snapshot, callVars>>

\* Mutant: the reporter stops waiting although the period goes on.
ReportDropped ==
  /\ reporter = "await"
  /\ reporter' = "done"
  /\ UNCHANGED <<lifecycle, store, running, watchWindow, cancelled, loaded,
                 read, snapshot, state, callVars>>

ReportAborted ==
  /\ reporter = "await" /\ cancelled
  /\ reporter' = "done"
  /\ UNCHANGED <<lifecycle, store, running, watchWindow, cancelled, loaded,
                 read, snapshot, state, callVars>>

\* Mutant: the next warm period keeps the old ready channel.
ResetKeepsChannel == stored' = Nothing /\ UNCHANGED <<ready, closed>>

\* Reset drops the sessions and re-arms the ready signal with a new channel.
Reset ==
  /\ ready' = ready + 1 /\ stored' = Nothing
  /\ UNCHANGED closed

\* warmSet.stop after its cancel: the goroutines have returned, the snapshot is
\* written (or could not be), the store is reset.
StopPeriod ==
  /\ running /\ loaded = Loaders /\ reporter = "done"
  /\ snapshot' \in {{}, {[stored |-> stored, read |-> read]}}
  /\ Reset
  /\ running' = FALSE /\ cancelled' = FALSE /\ loaded' = {} /\ read' = Nothing
  /\ reporter' = "none"
  /\ UNCHANGED watchWindow

-----------------------------------------------------------------------------
(* Lifecycle's methods.                                                      *)

Start ==
  /\ ~started /\ started' = TRUE
  /\ IF Keepalive
     THEN UNCHANGED <<isWarm, state, store, warmSet>>
     ELSE WarmUp(window)
  /\ UNCHANGED <<generation, inFlight, window, timer, fired, mu, callVars>>

Acquire(c) ==
  /\ pc[c] = "acquire" /\ mu = "free"
  /\ inFlight' = inFlight + 1 /\ generation' = generation + 1
  /\ timer' = NoTimer
  /\ IF isWarm
     THEN UNCHANGED <<isWarm, state, store, warmSet>>
     ELSE WarmUp(window)
  /\ pc' = [pc EXCEPT ![c] = "select"]
  /\ UNCHANGED <<window, fired, mu, started, arg, waitsOn, calls>>

\* Mutant: the count is tested before it is lowered.
IsIdleTooEarly(count) == count + 1 = 0 /\ Keepalive

IsIdle(count) == count = 0 /\ Keepalive

Release(c) ==
  /\ pc[c] = "releasing" /\ mu = "free"
  /\ inFlight' = inFlight - 1
  /\ timer' = IF IsIdle(inFlight') THEN generation ELSE timer
  /\ pc' = [pc EXCEPT ![c] = "idle"] /\ arg' = [arg EXCEPT ![c] = NoDays]
  /\ UNCHANGED <<generation, isWarm, window, fired, mu, started, store, warmSet,
                 state, waitsOn, calls>>

\* The keepalive timer fires: its goroutine runs, mu not yet taken.
TimerFires ==
  /\ timer # NoTimer
  /\ fired' = fired \cup {timer} /\ timer' = NoTimer
  /\ UNCHANGED <<generation, inFlight, isWarm, window, mu, started, store,
                 warmSet, state, callVars>>

\* Mutant: no generation.
IsStaleCold(g) == ~isWarm

IsStale(g) == g # generation \/ ~isWarm

Expire(g) ==
  /\ g \in fired /\ mu = "free"
  /\ fired' = fired \ {g}
  /\ IF IsStale(g)
     THEN UNCHANGED <<mu, cancelled>>
     ELSE mu' = "expire" /\ cancelled' = TRUE
  /\ UNCHANGED <<generation, inFlight, isWarm, window, timer, started, store,
                 running, watchWindow, loaded, read, reporter, snapshot, state, callVars>>

\* Mutant: cool() in place of coolDown().
ExpireStopsSilently ==
  /\ mu = "expire" /\ mu' = "free"
  /\ StopPeriod
  /\ isWarm' = FALSE
  /\ UNCHANGED <<generation, inFlight, window, timer, fired, started, state, callVars>>

ExpireStops ==
  /\ mu = "expire" /\ mu' = "free"
  /\ StopPeriod
  /\ isWarm' = FALSE /\ state' = "cold"
  /\ UNCHANGED <<generation, inFlight, window, timer, fired, started, callVars>>

\* Mutant: the comparison reversed.
IsNarrower(days) == window > 0 /\ days < window

IsWider(days) == window > 0 /\ days > window

Widen(c) ==
  /\ pc[c] = "widen" /\ mu = "free"
  /\ \/ /\ ~IsWider(arg[c])
        /\ pc' = [pc EXCEPT ![c] = "acquire"]
        /\ UNCHANGED <<window, isWarm, mu, state, store, warmSet>>
     \/ /\ IsWider(arg[c]) /\ isWarm
        /\ window' = arg[c] /\ mu' = c /\ cancelled' = TRUE
        /\ UNCHANGED <<isWarm, state, store, running, watchWindow, loaded, read,
                       reporter, snapshot, pc>>
     \/ /\ IsWider(arg[c]) /\ ~isWarm
        /\ window' = arg[c] /\ WarmUp(arg[c])
        /\ pc' = [pc EXCEPT ![c] = "acquire"]
        /\ UNCHANGED mu
  /\ UNCHANGED <<generation, inFlight, timer, fired, started, arg, waitsOn, calls>>

WidenStops(c) ==
  /\ mu = c /\ StopPeriod
  /\ UNCHANGED <<lifecycle, state, callVars>>

WidenWarms(c) ==
  /\ mu = c /\ ~running /\ mu' = "free"
  /\ WarmUp(window)
  /\ pc' = [pc EXCEPT ![c] = "acquire"]
  /\ UNCHANGED <<generation, inFlight, window, timer, fired, started, arg,
                 waitsOn, calls>>

-----------------------------------------------------------------------------
(* A tool call: widened, then awaitReady around the handler.                 *)

Begin(c) ==
  /\ started /\ pc[c] = "idle" /\ calls < MaxCalls
  /\ calls' = calls + 1
  /\ \/ /\ c \in Wideners /\ \E days \in Windows : arg' = [arg EXCEPT ![c] = days]
        /\ pc' = [pc EXCEPT ![c] = "widen"]
     \/ /\ c \notin Wideners /\ UNCHANGED arg
        /\ pc' = [pc EXCEPT ![c] = "acquire"]
  /\ UNCHANGED <<lifecycle, store, warmSet, state, waitsOn>>

\* The select evaluates store.Ready() once and keeps that channel.
Select(c) ==
  /\ pc[c] = "select"
  /\ waitsOn' = [waitsOn EXCEPT ![c] = ready]
  /\ pc' = [pc EXCEPT ![c] = "waiting"]
  /\ UNCHANGED <<lifecycle, store, warmSet, state, arg, calls>>

Serve(c) ==
  /\ pc[c] = "waiting" /\ waitsOn[c] \in closed
  /\ pc' = [pc EXCEPT ![c] = "handling"]
  /\ UNCHANGED <<lifecycle, store, warmSet, state, arg, waitsOn, calls>>

\* Mutant: the early return does not release.
GiveUpLeaks(c) ==
  /\ pc[c] = "waiting"
  /\ pc' = [pc EXCEPT ![c] = "idle"] /\ arg' = [arg EXCEPT ![c] = NoDays]
  /\ UNCHANGED <<lifecycle, store, warmSet, state, waitsOn, calls>>

\* Mutant: the early return releases, and so does the deferred Release.
GiveUpReleases(c) ==
  /\ pc[c] = "waiting"
  /\ pc' = [pc EXCEPT ![c] = "releasing"] /\ inFlight' = inFlight - 1
  /\ UNCHANGED <<generation, isWarm, window, timer, fired, mu, started, store,
                 warmSet, state, arg, waitsOn, calls>>

\* The client cancelled, or readyTimeout passed.
GiveUp(c) ==
  /\ pc[c] = "waiting"
  /\ pc' = [pc EXCEPT ![c] = "releasing"]
  /\ UNCHANGED <<lifecycle, store, warmSet, state, arg, waitsOn, calls>>

\* The handler has read the store and returns.
Answer(c) ==
  /\ pc[c] = "handling"
  /\ pc' = [pc EXCEPT ![c] = "releasing"]
  /\ UNCHANGED <<lifecycle, store, warmSet, state, arg, waitsOn, calls>>

-----------------------------------------------------------------------------
CallStep(c) ==
  Acquire(c) \/ Release(c) \/ Widen(c) \/ WidenStops(c) \/ WidenWarms(c)
    \/ Select(c) \/ Serve(c) \/ Answer(c)

PeriodStep == MarkReady \/ ReportWarm \/ ReportAborted \/ \E l \in Loaders : Load(l)

KeepaliveStep == TimerFires \/ ExpireStops \/ \E g \in fired : Expire(g)

Next ==
  \/ Start \/ PeriodStep \/ KeepaliveStep
  \/ \E c \in Callers : Begin(c) \/ CallStep(c) \/ GiveUp(c)

\* Goroutines and timers run; nothing makes a client call or give up.
Fairness ==
  /\ WF_vars(PeriodStep) /\ WF_vars(KeepaliveStep)
  /\ \A c \in Callers : WF_vars(CallStep(c))

Spec     == Init /\ [][Next]_vars
FairSpec == Spec /\ Fairness

-----------------------------------------------------------------------------
(* Properties.                                                               *)

Busy == {c \in Callers : pc[c] \in InFlight}

\* inFlight counts exactly the calls between their Acquire and their Release.
CallsCounted == inFlight = Cardinality(Busy)

\* A warm instance with no call in flight has a keepalive that will cool it: an
\* armed timer or a running expire of the current generation, unless a method is
\* stopping the period or a call is on its way to Acquire (Release, expire).
NeverStrandedWarm ==
  Keepalive /\ isWarm /\ inFlight = 0 /\ mu = "free"
    => \/ timer = generation
       \/ generation \in fired
       \/ \E c \in Callers : pc[c] = "acquire"

\* The keepalive never cools the instance under a call: the period it stops has no
\* call in flight, from expire's check to the end of the stop (Acquire, expire).
CoolsOnlyIdle == mu = "expire" => inFlight = 0

\* Both: the keepalive stops an idle period, and no other.
KeepaliveSafe == CoolsOnlyIdle /\ NeverStrandedWarm

\* The reported state is true whenever no method is half-way: cold exactly when
\* cold, and warm only once the current period's load is complete (SetState calls
\* of reportLoaded, warmUp and coolDown come in the order of the periods).
StateTruthful ==
  started /\ mu = "free" =>
    /\ state \in {"cold", "none"} <=> ~isWarm
    /\ state = "warm" => ready \in closed

\* MarkReady closes every ready channel at most once; closing twice panics.
ReadyClosedOnce == reporter = "await" => ready \notin closed

\* Both: the goroutines of one period say nothing in another's name.
PeriodSound == StateTruthful /\ ReadyClosedOnce

\* No transcript counts as read while its turns are missing from the store, in
\* memory and in the snapshot file: no warm period skips them for good.
NothingSkipped ==
  /\ \A l \in Loaders : read[l] <= stored[l]
  /\ \A saved \in snapshot, l \in Loaders : saved.read[l] <= saved.stored[l]

\* The sessions call c must see: the watch window, or the days it asked for.
Complete(c) ==
  \A l \in Loaders : stored[l] >= Depth(InitWindow) /\ stored[l] >= arg[c]

\* docs/tools.md "Startup wait": an answer is never a partial session list.
CompleteAnswers == \A c \in Callers : pc[c] = "handling" => Complete(c)

\* docs/tools.md window_days: the call waits while the added days load.
WidenerAnswersComplete == \A c \in Wideners : pc[c] = "handling" => Complete(c)

\* Without the keepalive the instance stays warm from start to exit.
StaysWarm == started /\ ~Keepalive => isWarm

\* The contract of KeepaliveContract: warm under every call, cold in the end.
Contract == INSTANCE KeepaliveContract WITH busy <- Busy, warm <- isWarm

\* Every step is a step of the contract, and an instance nobody calls goes cold
\* (Acquire, Release, expire under the keepalive).
KeepsContract == Contract!FairSpec

\* A call that waits on the channel of the current period is served; it does not need
\* readyTimeout to come back, unless a widening call replaces the channel meanwhile.
WaitEnds ==
  \A c \in Callers : pc[c] = "waiting" ~> pc[c] # "waiting" \/ waitsOn[c] # ready

=============================================================================
