--------------------------- MODULE Lifecycle_proofs ---------------------------
(***************************************************************************)
(* Proofs about Lifecycle, for any callers, loaders, windows and number of   *)
(* calls.  TypeOK and CallsCounted are proved together (Release leaves       *)
(* inFlight a natural number only because the call is counted); the other    *)
(* invariants follow from IInv, which adds how generations, the lock, the    *)
(* warm period and the ready channel hang together.                          *)
(***************************************************************************)
EXTENDS Lifecycle, FiniteSetTheorems, TLAPS

\* A caller that holds the lock across a stop is inside Widen.
WidenerLocks == \A c \in Callers : mu = c => pc[c] = "widen"

-----------------------------------------------------------------------------
(* The set of calls in flight under a step that moves one call.             *)

LEMMA BusyFinite == IsFiniteSet(Busy)
<1>1. Busy \subseteq Callers
  BY DEF Busy
<1> QED
  BY <1>1, FS_Subset, LifecycleAssumption

LEMMA BusyEnter ==
  ASSUME CallsType, NEW c \in Callers, NEW p, c \notin Busy, p \in InFlight,
         pc' = [pc EXCEPT ![c] = p]
  PROVE  /\ Busy' = Busy \cup {c}
         /\ Cardinality(Busy') = Cardinality(Busy) + 1
<1>1. Busy' = Busy \cup {c}
  BY DEF Busy, CallsType
<1> QED
  BY <1>1, BusyFinite, FS_AddElement

LEMMA BusyLeave ==
  ASSUME CallsType, NEW c \in Callers, NEW p, c \in Busy, p \notin InFlight,
         pc' = [pc EXCEPT ![c] = p]
  PROVE  /\ Busy' = Busy \ {c}
         /\ Cardinality(Busy) \in Nat \ {0}
         /\ Cardinality(Busy') = Cardinality(Busy) - 1
<1>1. Busy' = Busy \ {c}
  BY DEF Busy, CallsType
<1>2. Busy # {}
  BY DEF Busy
<1>3. Cardinality(Busy) \in Nat /\ Cardinality(Busy) # 0
  BY <1>2, BusyFinite, FS_CardinalityType, FS_EmptySet
<1> QED
  BY <1>1, <1>3, BusyFinite, FS_RemoveElement

LEMMA BusyStays ==
  ASSUME CallsType, NEW c \in Callers, NEW p, c \in Busy <=> p \in InFlight,
         pc' = [pc EXCEPT ![c] = p]
  PROVE  Busy' = Busy
BY DEF Busy, CallsType

-----------------------------------------------------------------------------
(* Types, one group of variables at a time.                                 *)

LEMMA DepthType ==
  ASSUME NEW days \in Windows \cup {InitWindow}
  PROVE  Depth(days) \in Depths
BY LifecycleAssumption DEF Depth, Depths

LEMMA NothingType == Nothing \in [Loaders -> Depths]
BY LifecycleAssumption DEF Nothing, Depths

\* A group of variables a step leaves alone keeps its type.
LEMMA Unchanged ==
  /\ LifecycleType /\ UNCHANGED lifecycle => LifecycleType'
  /\ StoreType /\ UNCHANGED store => StoreType'
  /\ WarmSetType /\ UNCHANGED warmSet => WarmSetType'
  /\ CallsType /\ UNCHANGED callVars => CallsType' /\ Busy' = Busy
<1>1. LifecycleType /\ UNCHANGED lifecycle => LifecycleType'
  BY DEF LifecycleType, lifecycle
<1>2. StoreType /\ UNCHANGED store => StoreType'
  BY DEF StoreType, store
<1>3. WarmSetType /\ UNCHANGED warmSet => WarmSetType'
  BY DEF WarmSetType, warmSet
<1>4. CallsType /\ UNCHANGED callVars => CallsType' /\ Busy' = Busy
  BY DEF CallsType, callVars, Busy
<1> QED
  BY <1>1, <1>2, <1>3, <1>4

LEMMA WarmUpTypes ==
  ASSUME TypeOK, NEW days \in Windows \cup {InitWindow}, WarmUp(days)
  PROVE  isWarm' \in BOOLEAN /\ state' = "warming" /\ StoreType' /\ WarmSetType'
<1>1. stored' \in [Loaders -> Depths] /\ read' \in [Loaders -> Depths]
  BY NothingType DEF TypeOK, StoreType, WarmSetType, WarmUp, RestoreSnapshot, Snapshots
<1>2. running' \in BOOLEAN /\ cancelled' \in BOOLEAN /\ isWarm' \in BOOLEAN
  BY DEF WarmUp
<1>3. StoreType'
  BY <1>1 DEF TypeOK, StoreType, WarmUp
<1>4. WarmSetType'
  BY <1>1, <1>2 DEF WarmSetType, WarmUp, RestoreSnapshot
<1> QED
  BY <1>2, <1>3, <1>4 DEF WarmUp

LEMMA StopTypes ==
  ASSUME TypeOK, StopPeriod
  PROVE  StoreType' /\ WarmSetType'
<1>1. stored' \in [Loaders -> Depths] /\ read' \in [Loaders -> Depths]
  BY NothingType DEF StopPeriod, Reset
<1>2. [stored |-> stored, read |-> read] \in Snapshots
  BY DEF TypeOK, StoreType, WarmSetType, Snapshots
<1>3. snapshot' \in SUBSET Snapshots
  BY <1>2 DEF StopPeriod
<1>4. running' \in BOOLEAN /\ cancelled' \in BOOLEAN
  BY DEF StopPeriod
<1>5. StoreType'
  BY <1>1 DEF TypeOK, StoreType, StopPeriod, Reset
<1>6. WarmSetType'
  BY <1>1, <1>3, <1>4 DEF TypeOK, WarmSetType, StopPeriod
<1> QED
  BY <1>5, <1>6

LEMMA LoadTypes ==
  ASSUME TypeOK, NEW l \in Loaders, Load(l)
  PROVE  StoreType' /\ WarmSetType'
<1>1. Depth(watchWindow) \in Depths
  BY DepthType DEF TypeOK, WarmSetType
<1>2. stored' \in [Loaders -> Depths] /\ read' \in [Loaders -> Depths]
  BY <1>1 DEF TypeOK, StoreType, WarmSetType, Load, LoadedDepth
<1>3. loaded' \in SUBSET Loaders
  BY DEF TypeOK, WarmSetType, Load
<1>4. UNCHANGED <<ready, closed>>
  BY DEF Load
<1>5. UNCHANGED <<running, watchWindow, cancelled, reporter, snapshot>>
  BY DEF Load
<1>6. StoreType'
  BY <1>2, <1>4 DEF TypeOK, StoreType
<1>7. WarmSetType'
  BY <1>2, <1>3, <1>5 DEF TypeOK, WarmSetType
<1> QED
  BY <1>6, <1>7

-----------------------------------------------------------------------------
Counted == TypeOK /\ CallsCounted /\ WidenerLocks

LEMMA CountedStep == Counted /\ [Next]_vars => Counted'
<1> SUFFICES ASSUME Counted, [Next]_vars
             PROVE  Counted'
  OBVIOUS
<1>a. /\ TypeOK /\ LifecycleType /\ StoreType /\ WarmSetType /\ CallsType
      /\ CallsCounted /\ WidenerLocks
  BY DEF Counted, TypeOK
\* A step that moves no call and takes no lock only has types to keep.
<1>b. ASSUME LifecycleType', StoreType', WarmSetType', UNCHANGED callVars,
             state' \in {"none", "cold", "warming", "warm"},
             inFlight' = inFlight, mu' \in {mu, "free", "expire"}
      PROVE  Counted'
  <2>1. CallsType' /\ Busy' = Busy
    BY <1>a, <1>b, Unchanged
  <2>2. WidenerLocks'
    BY <1>a, <1>b, LifecycleAssumption DEF WidenerLocks, callVars
  <2> QED
    BY <1>a, <1>b, <2>1, <2>2 DEF Counted, TypeOK, CallsCounted
<1>1. CASE UNCHANGED vars
  <2>1. UNCHANGED <<lifecycle, store, warmSet, state, callVars>>
    BY <1>1 DEF vars
  <2> QED
    BY <1>a, <1>b, <2>1, Unchanged DEF lifecycle, TypeOK
<1>2. CASE Start
  <2>1. isWarm' \in BOOLEAN /\ StoreType' /\ WarmSetType'
          /\ state' \in {"none", "cold", "warming", "warm"}
    <3>1. CASE Keepalive
      BY <1>2, <3>1, <1>a, Unchanged DEF Start, TypeOK, LifecycleType
    <3>2. CASE ~Keepalive
      BY <1>2, <3>2, <1>a, WarmUpTypes DEF Start, LifecycleType
    <3> QED
      BY <3>1, <3>2
  <2>2. LifecycleType'
    BY <1>2, <1>a, <2>1 DEF Start, LifecycleType
  <2> QED
    BY <1>2, <1>b, <2>1, <2>2 DEF Start
<1>3. CASE PeriodStep
  <2>1. UNCHANGED <<lifecycle, callVars>>
    BY <1>3 DEF PeriodStep, MarkReady, ReportWarm, ReportAborted, Load
  <2>2. state' \in {"none", "cold", "warming", "warm"}
    BY <1>3, <1>a DEF PeriodStep, MarkReady, ReportWarm, ReportAborted, Load, TypeOK
  <2>3. StoreType' /\ WarmSetType'
    <3>1. CASE MarkReady
      <4>1. StoreType'
        BY <3>1, <1>a DEF MarkReady, StoreType
      <4>2. WarmSetType'
        BY <3>1, <1>a DEF MarkReady, WarmSetType
      <4> QED
        BY <4>1, <4>2
    <3>2. CASE ReportWarm \/ ReportAborted
      <4>1. StoreType'
        BY <3>2, <1>a, Unchanged DEF ReportWarm, ReportAborted
      <4>2. WarmSetType'
        BY <3>2, <1>a DEF ReportWarm, ReportAborted, WarmSetType
      <4> QED
        BY <4>1, <4>2
    <3> QED
      BY <1>3, <1>a, <3>1, <3>2, LoadTypes DEF PeriodStep
  <2> QED
    BY <1>a, <1>b, <2>1, <2>2, <2>3, Unchanged DEF lifecycle
<1>4. CASE KeepaliveStep
  <2>1. CASE TimerFires
    <3>1. LifecycleType'
      BY <2>1, <1>a DEF TimerFires, LifecycleType
    <3> QED
      BY <2>1, <1>a, <1>b, <3>1, Unchanged DEF TimerFires, TypeOK
  <2>2. CASE ExpireStops
    <3>1. LifecycleType'
      BY <2>2, <1>a DEF ExpireStops, LifecycleType
    <3> QED
      BY <2>2, <1>a, <1>b, <3>1, StopTypes DEF ExpireStops
  <2>3. ASSUME NEW g \in fired, Expire(g)
        PROVE  Counted'
    <3>1. mu' \in {mu, "expire"} /\ cancelled' \in BOOLEAN
      BY <2>3, <1>a DEF Expire, WarmSetType
    <3>2. LifecycleType'
      BY <2>3, <1>a, <3>1 DEF Expire, LifecycleType
    <3>3. WarmSetType'
      BY <2>3, <1>a, <3>1 DEF Expire, WarmSetType
    <3> QED
      BY <2>3, <1>a, <1>b, <3>1, <3>2, <3>3, Unchanged DEF Expire, TypeOK
  <2> QED
    BY <1>4, <2>1, <2>2, <2>3 DEF KeepaliveStep
<1>5. ASSUME NEW c \in Callers, Begin(c)
      PROVE  Counted'
  <2>1. Busy' = Busy
    BY <1>5, <1>a DEF Begin, Busy, CallsType, InFlight
  <2>2. CallsType'
    BY <1>5, <1>a, LifecycleAssumption DEF Begin, CallsType
  <2>3. LifecycleType' /\ StoreType' /\ WarmSetType' /\ UNCHANGED <<mu, inFlight, state>>
    BY <1>5, <1>a, Unchanged DEF Begin, lifecycle
  <2>4. WidenerLocks'
    BY <1>5, <1>a, <2>3 DEF Begin, WidenerLocks, CallsType
  <2> QED
    BY <1>a, <2>1, <2>2, <2>3, <2>4 DEF Counted, TypeOK, CallsCounted
<1>6. ASSUME NEW c \in Callers, Acquire(c)
      PROVE  Counted'
  <2>1. c \notin Busy /\ pc' = [pc EXCEPT ![c] = "select"] /\ mu = "free" /\ mu' = mu
    BY <1>6 DEF Acquire, Busy, InFlight
  <2>2. Cardinality(Busy') = Cardinality(Busy) + 1
    BY <2>1, <1>a, BusyEnter DEF InFlight
  <2>3. isWarm' \in BOOLEAN /\ StoreType' /\ WarmSetType'
          /\ state' \in {"none", "cold", "warming", "warm"}
    <3>1. CASE isWarm
      BY <1>6, <3>1, <1>a, Unchanged DEF Acquire, TypeOK, LifecycleType
    <3>2. CASE ~isWarm
      BY <1>6, <3>2, <1>a, WarmUpTypes DEF Acquire, LifecycleType
    <3> QED
      BY <3>1, <3>2
  <2>4. LifecycleType'
    BY <1>6, <1>a, <2>3 DEF Acquire, LifecycleType
  <2>5. CallsType' /\ WidenerLocks'
    BY <1>6, <1>a, <2>1, LifecycleAssumption DEF Acquire, CallsType, InFlight, WidenerLocks
  <2> QED
    BY <1>6, <1>a, <2>2, <2>3, <2>4, <2>5 DEF Acquire, Counted, TypeOK, CallsCounted
<1>7. ASSUME NEW c \in Callers, Release(c)
      PROVE  Counted'
  <2>1. c \in Busy /\ pc' = [pc EXCEPT ![c] = "idle"] /\ mu = "free" /\ mu' = mu
    BY <1>7 DEF Release, Busy, InFlight
  <2>2. /\ Cardinality(Busy) \in Nat \ {0}
        /\ Cardinality(Busy') = Cardinality(Busy) - 1
    BY <2>1, <1>a, BusyLeave DEF InFlight
  <2>3. inFlight' = inFlight - 1 /\ inFlight' \in Nat /\ timer' \in Nat \cup {NoTimer}
    BY <1>7, <1>a, <2>2 DEF Release, LifecycleType, CallsCounted
  <2>4. LifecycleType'
    BY <1>7, <1>a, <2>3 DEF Release, LifecycleType
  <2>5. CallsType' /\ WidenerLocks'
    BY <1>7, <1>a, <2>1, LifecycleAssumption DEF Release, CallsType, WidenerLocks
  <2>6. StoreType' /\ WarmSetType' /\ state' = state
    BY <1>7, <1>a, Unchanged DEF Release
  <2> QED
    BY <1>a, <2>2, <2>3, <2>4, <2>5, <2>6 DEF Counted, TypeOK, CallsCounted
<1>8. ASSUME NEW c \in Callers, Widen(c)
      PROVE  Counted'
  <2>1. Busy' = Busy /\ CallsType'
    BY <1>8, <1>a DEF Widen, Busy, CallsType, InFlight
  <2>2. IsWider(arg[c]) => arg[c] \in Windows
    BY <1>a, LifecycleAssumption DEF LifecycleType, CallsType, IsWider, NoDays
  <2>3. isWarm' \in BOOLEAN /\ StoreType' /\ WarmSetType'
          /\ state' \in {"none", "cold", "warming", "warm"}
    <3>1. CASE ~IsWider(arg[c])
      BY <1>8, <3>1, <1>a, Unchanged DEF Widen, TypeOK, LifecycleType
    <3>2. CASE IsWider(arg[c]) /\ isWarm
      <4>1. WarmSetType'
        BY <1>8, <3>2, <1>a DEF Widen, WarmSetType
      <4> QED
        BY <1>8, <3>2, <1>a, <4>1, Unchanged DEF Widen, TypeOK, LifecycleType
    <3>3. CASE IsWider(arg[c]) /\ ~isWarm
      BY <1>8, <3>3, <1>a, <2>2, WarmUpTypes DEF Widen
    <3> QED
      BY <3>1, <3>2, <3>3
  <2>4. mu' \in {"free", "expire"} \cup Callers /\ window' \in Windows \cup {InitWindow}
    BY <1>8, <1>a, <2>2 DEF Widen, LifecycleType
  <2>5. LifecycleType'
    BY <1>8, <1>a, <2>3, <2>4 DEF Widen, LifecycleType
  <2>6. WidenerLocks'
    BY <1>8, <1>a, LifecycleAssumption DEF Widen, WidenerLocks, CallsType
  <2> QED
    BY <1>8, <1>a, <2>1, <2>3, <2>5, <2>6 DEF Widen, Counted, TypeOK, CallsCounted
<1>9. ASSUME NEW c \in Callers, WidenStops(c)
      PROVE  Counted'
  <2>1. StoreType' /\ WarmSetType' /\ LifecycleType'
    BY <1>9, <1>a, StopTypes, Unchanged DEF WidenStops
  <2> QED
    BY <1>9, <1>a, <1>b, <2>1 DEF WidenStops, lifecycle, TypeOK
<1>10. ASSUME NEW c \in Callers, WidenWarms(c)
      PROVE  Counted'
  <2>1. pc[c] = "widen" /\ mu' = "free" /\ pc' = [pc EXCEPT ![c] = "acquire"]
    BY <1>10, <1>a DEF WidenWarms, WidenerLocks
  <2>2. Busy' = Busy
    BY <2>1, <1>a, BusyStays DEF Busy, InFlight
  <2>3. isWarm' \in BOOLEAN /\ StoreType' /\ WarmSetType' /\ state' = "warming"
    BY <1>10, <1>a, WarmUpTypes DEF WidenWarms, LifecycleType
  <2>4. LifecycleType'
    BY <1>10, <1>a, <2>1, <2>3 DEF WidenWarms, LifecycleType
  <2>5. CallsType' /\ WidenerLocks'
    BY <1>10, <1>a, <2>1, LifecycleAssumption DEF WidenWarms, CallsType, WidenerLocks
  <2> QED
    BY <1>10, <1>a, <2>2, <2>3, <2>4, <2>5 DEF WidenWarms, Counted, TypeOK, CallsCounted
<1>11. ASSUME NEW c \in Callers, Select(c) \/ Serve(c) \/ GiveUp(c) \/ Answer(c)
      PROVE  Counted'
  <2>1. Busy' = Busy
    BY <1>11, <1>a DEF Select, Serve, GiveUp, Answer, Busy, CallsType, InFlight
  <2>2. CallsType'
    BY <1>11, <1>a DEF Select, Serve, GiveUp, Answer, CallsType, StoreType, InFlight
  <2>3. UNCHANGED <<lifecycle, store, warmSet, state>>
    BY <1>11 DEF Select, Serve, GiveUp, Answer
  <2>4. WidenerLocks'
    BY <1>11, <1>a, <2>3 DEF Select, Serve, GiveUp, Answer, WidenerLocks, CallsType, lifecycle
  <2> QED
    BY <1>a, <2>1, <2>2, <2>3, <2>4, Unchanged DEF Counted, TypeOK, CallsCounted, lifecycle
<1> QED
  BY <1>1, <1>2, <1>3, <1>4, <1>5, <1>6, <1>7, <1>8, <1>9, <1>10, <1>11 DEF Next, CallStep

\* Every variable keeps its type, inFlight counts the calls in flight, and only a
\* call inside Widen holds the lock across a stop, however the calls, the keepalive
\* timers and the warm periods interleave.
THEOREM TypeCorrect == Spec => [](TypeOK /\ CallsCounted /\ WidenerLocks)
<1>1. Init => Counted
  <2> SUFFICES ASSUME Init PROVE Counted
    OBVIOUS
  <2>1. Busy = {} /\ Cardinality({}) = 0
    BY FS_EmptySet DEF Init, Busy, InFlight
  <2>2. LifecycleType
    BY LifecycleAssumption DEF Init, LifecycleType
  <2>3. StoreType
    BY NothingType DEF Init, StoreType
  <2>4. WarmSetType
    BY NothingType DEF Init, WarmSetType
  <2>5. CallsType
    BY LifecycleAssumption DEF Init, CallsType
  <2>6. WidenerLocks
    BY LifecycleAssumption DEF Init, WidenerLocks
  <2> QED
    BY <2>1, <2>2, <2>3, <2>4, <2>5, <2>6 DEF Init, Counted, TypeOK, CallsCounted
<1>2. Counted => TypeOK /\ CallsCounted /\ WidenerLocks
  BY DEF Counted
<1> QED
  BY <1>1, <1>2, CountedStep, PTL DEF Spec

-----------------------------------------------------------------------------
(* The keepalive.                                                           *)

\* A timer of the current generation, armed or fired, exists only with no call in
\* flight: every Acquire makes the older ones stale.
TimersIdle ==
  /\ timer <= generation /\ (timer = generation => inFlight = 0)
  /\ \A g \in fired : g <= generation /\ (g = generation => inFlight = 0)

KeepaliveInv == TimersIdle /\ CoolsOnlyIdle /\ NeverStrandedWarm

LEMMA KeepaliveStepInv ==
  Counted /\ KeepaliveInv /\ [Next]_vars => KeepaliveInv'
<1> SUFFICES ASSUME Counted, KeepaliveInv, [Next]_vars
             PROVE  KeepaliveInv'
  OBVIOUS
<1>a. /\ LifecycleType /\ CallsType /\ CallsCounted /\ WidenerLocks
      /\ TimersIdle /\ CoolsOnlyIdle /\ NeverStrandedWarm
  BY DEF Counted, TypeOK, KeepaliveInv
<1>b. \A c \in Callers : pc[c] \in InFlight => inFlight > 0
  <2> SUFFICES ASSUME NEW c \in Callers, pc[c] \in InFlight PROVE inFlight > 0
    OBVIOUS
  <2>1. Busy # {}
    BY DEF Busy
  <2> QED
    BY <1>a, <2>1, BusyFinite, FS_CardinalityType, FS_EmptySet DEF CallsCounted
\* A step that leaves the keepalive's variables and the waiting calls alone.
<1>c. ASSUME UNCHANGED <<generation, inFlight, isWarm, timer, fired, mu>>,
             \A c \in Callers : pc[c] = "acquire" => pc'[c] = "acquire"
      PROVE  KeepaliveInv'
  BY <1>a, <1>c DEF KeepaliveInv, TimersIdle, CoolsOnlyIdle, NeverStrandedWarm
<1>1. CASE UNCHANGED vars
  BY <1>1, <1>c DEF vars, lifecycle, callVars
<1>2. CASE Start
  BY <1>2, <1>a DEF Start, KeepaliveInv, TimersIdle, CoolsOnlyIdle, NeverStrandedWarm, callVars
<1>3. CASE PeriodStep
  BY <1>3, <1>c DEF PeriodStep, MarkReady, ReportWarm, ReportAborted, Load, lifecycle, callVars
<1>4. CASE TimerFires
  <2>1. TimersIdle' /\ CoolsOnlyIdle'
    BY <1>4, <1>a DEF TimerFires, TimersIdle, CoolsOnlyIdle, NoTimer, LifecycleType
  <2>2. NeverStrandedWarm'
    BY <1>4, <1>a DEF TimerFires, NeverStrandedWarm, callVars
  <2> QED
    BY <2>1, <2>2 DEF KeepaliveInv
<1>5. CASE ExpireStops
  BY <1>5, <1>a DEF ExpireStops, KeepaliveInv, TimersIdle, CoolsOnlyIdle, NeverStrandedWarm
<1>6. ASSUME NEW g \in fired, Expire(g)
      PROVE  KeepaliveInv'
  <2>1. TimersIdle'
    BY <1>6, <1>a DEF Expire, TimersIdle
  <2>2. CoolsOnlyIdle'
    BY <1>6, <1>a DEF Expire, CoolsOnlyIdle, IsStale, TimersIdle
  <2>3. NeverStrandedWarm'
    <3>1. CASE IsStale(g)
      BY <1>6, <3>1, <1>a DEF Expire, NeverStrandedWarm, IsStale, callVars
    <3>2. CASE ~IsStale(g)
      BY <1>6, <3>2 DEF Expire, NeverStrandedWarm
    <3> QED
      BY <3>1, <3>2
  <2> QED
    BY <2>1, <2>2, <2>3 DEF KeepaliveInv
<1>7. ASSUME NEW c \in Callers, Begin(c)
      PROVE  KeepaliveInv'
  BY <1>7, <1>a, <1>c DEF Begin, lifecycle, CallsType
<1>8. ASSUME NEW c \in Callers, Acquire(c)
      PROVE  KeepaliveInv'
  <2>1. TimersIdle'
    BY <1>8, <1>a DEF Acquire, TimersIdle, NoTimer, LifecycleType
  <2>2. CoolsOnlyIdle' /\ NeverStrandedWarm'
    BY <1>8, <1>a DEF Acquire, CoolsOnlyIdle, NeverStrandedWarm, LifecycleType
  <2> QED
    BY <2>1, <2>2 DEF KeepaliveInv
<1>9. ASSUME NEW c \in Callers, Release(c)
      PROVE  KeepaliveInv'
  <2>1. inFlight > 0
    BY <1>9, <1>b DEF Release, InFlight
  <2>2. timer # generation /\ \A g \in fired : g < generation
    BY <2>1, <1>a DEF TimersIdle, LifecycleType
  <2>3. TimersIdle' /\ CoolsOnlyIdle'
    BY <1>9, <1>a, <2>1, <2>2 DEF Release, IsIdle, TimersIdle, CoolsOnlyIdle, LifecycleType
  <2>4. NeverStrandedWarm'
    BY <1>9, <1>a, <2>1 DEF Release, IsIdle, NeverStrandedWarm, LifecycleType
  <2> QED
    BY <2>3, <2>4 DEF KeepaliveInv
<1>10. ASSUME NEW c \in Callers, Widen(c)
       PROVE  KeepaliveInv'
  <2>1. TimersIdle' /\ UNCHANGED <<generation, inFlight, timer, fired>>
    BY <1>10, <1>a DEF Widen, TimersIdle
  <2>2. CoolsOnlyIdle'
    BY <1>10, <1>a, <2>1, LifecycleAssumption DEF Widen, CoolsOnlyIdle
  <2>3. mu' # "free" \/ pc'[c] = "acquire"
    BY <1>10, <1>a, LifecycleAssumption DEF Widen, CallsType
  <2> QED
    BY <2>1, <2>2, <2>3 DEF KeepaliveInv, NeverStrandedWarm
<1>11. ASSUME NEW c \in Callers, WidenStops(c)
       PROVE  KeepaliveInv'
  BY <1>11, <1>c DEF WidenStops, lifecycle, callVars
<1>12. ASSUME NEW c \in Callers, WidenWarms(c)
       PROVE  KeepaliveInv'
  BY <1>12, <1>a DEF WidenWarms, CallsType, KeepaliveInv, TimersIdle, CoolsOnlyIdle, NeverStrandedWarm
<1>13. ASSUME NEW c \in Callers, Select(c) \/ Serve(c) \/ GiveUp(c) \/ Answer(c)
       PROVE  KeepaliveInv'
  <2>1. \A d \in Callers : pc[d] = "acquire" => pc'[d] = "acquire"
    BY <1>13, <1>a DEF Select, Serve, GiveUp, Answer, CallsType
  <2> QED
    BY <1>13, <1>c, <2>1 DEF Select, Serve, GiveUp, Answer, lifecycle
<1> QED
  BY <1>1, <1>2, <1>3, <1>4, <1>5, <1>6, <1>7, <1>8, <1>9, <1>10, <1>11, <1>12, <1>13
     DEF Next, CallStep, KeepaliveStep

\* The keepalive never cools an instance under a call, and never leaves a warm idle
\* instance without a timer that will cool it (Acquire, Release, expire, Widen).
THEOREM KeepaliveCorrect == Spec => []KeepaliveSafe
<1>1. Init => KeepaliveInv
  BY DEF Init, KeepaliveInv, TimersIdle, CoolsOnlyIdle, NeverStrandedWarm, NoTimer
<1>2. KeepaliveInv => KeepaliveSafe
  BY DEF KeepaliveInv, KeepaliveSafe
<1>3. TypeOK /\ CallsCounted /\ WidenerLocks => Counted
  BY DEF Counted
<1> QED
  BY <1>1, <1>2, <1>3, TypeCorrect, KeepaliveStepInv, PTL DEF Spec

-----------------------------------------------------------------------------
(* The warm period.                                                         *)

\* The lock, the flag and the period's goroutines: only a method that is stopping
\* a period sees isWarm without one.
PeriodLocked ==
  /\ mu = "free" => (isWarm <=> running) /\ ~cancelled
  /\ mu # "free" => isWarm /\ (running <=> cancelled)
  /\ mu = "expire" => running

\* The reporter and the ready channel of its period.
PeriodReady ==
  /\ \A channel \in closed : channel <= ready
  /\ running <=> reporter # "none"
  /\ reporter \in {"none", "await"} => ready \notin closed
  /\ reporter = "marked" => ready \in closed
  /\ reporter = "done" /\ ~cancelled => ready \in closed

\* What the instance record may say in each period.
PeriodState ==
  /\ running => state \in {"warming", "warm"}
  /\ ~isWarm => state \in {"none", "cold"}
  /\ running /\ state = "warm" => ready \in closed

\* Before Start nothing runs.
Unstarted ==
  ~started => mu = "free" /\ ~isWarm /\ \A c \in Callers : pc[c] = "idle"

PeriodInv == Unstarted /\ PeriodLocked /\ PeriodReady /\ PeriodState /\ NothingSkipped

LEMMA SkippedStep ==
  Counted /\ NothingSkipped /\ [Next]_vars => NothingSkipped'
<1> SUFFICES ASSUME Counted, NothingSkipped, [Next]_vars
             PROVE  NothingSkipped'
  OBVIOUS
<1>a. StoreType /\ WarmSetType /\ CallsType /\ LifecycleType
  BY DEF Counted, TypeOK
<1>1. ASSUME NEW days, WarmUp(days)
      PROVE  NothingSkipped'
  BY <1>1, <1>a DEF WarmUp, RestoreSnapshot, NothingSkipped, StoreType, Nothing, Depths
<1>2. ASSUME StopPeriod
      PROVE  NothingSkipped'
  BY <1>2 DEF StopPeriod, Reset, NothingSkipped, Nothing
<1>3. ASSUME NEW l \in Loaders, Load(l)
      PROVE  NothingSkipped'
  <2>1. Depth(watchWindow) \in Depths
    BY <1>a, DepthType DEF WarmSetType
  <2>2. \A k \in Loaders : stored[k] \in Nat /\ read[k] \in Nat /\ read[k] <= stored[k]
    BY <1>a, LifecycleAssumption DEF StoreType, WarmSetType, Depths, NothingSkipped
  <2>3. read'[l] <= stored'[l]
    BY <1>3, <1>a, <2>1, <2>2, LifecycleAssumption
       DEF Load, LoadedDepth, StoreType, WarmSetType, Depths
  <2>4. \A k \in Loaders \ {l} : read'[k] = read[k] /\ stored'[k] = stored[k]
    BY <1>3, <1>a DEF Load, StoreType, WarmSetType
  <2>5. snapshot' = snapshot
    BY <1>3 DEF Load
  <2> QED
    BY <2>2, <2>3, <2>4, <2>5 DEF NothingSkipped
<1>4. CASE UNCHANGED <<stored, read, snapshot>>
  BY <1>4 DEF NothingSkipped
<1>5. \/ UNCHANGED <<stored, read, snapshot>>
      \/ \E l \in Loaders : Load(l)
      \/ StopPeriod
      \/ \E days : WarmUp(days)
  <2>1. CASE Start \/ KeepaliveStep \/ PeriodStep \/ UNCHANGED vars
    BY <2>1 DEF Start, KeepaliveStep, PeriodStep, TimerFires, ExpireStops, Expire,
       MarkReady, ReportWarm, ReportAborted, vars, store, warmSet
  <2>2. ASSUME NEW c \in Callers, Begin(c) \/ CallStep(c) \/ GiveUp(c)
        PROVE  \/ UNCHANGED <<stored, read, snapshot>>
               \/ StopPeriod
               \/ \E days : WarmUp(days)
    BY <2>2 DEF Begin, CallStep, GiveUp, Acquire, Release, Widen, WidenStops,
       WidenWarms, Select, Serve, Answer, store, warmSet
  <2> QED
    BY <2>1, <2>2 DEF Next
<1> QED
  BY <1>1, <1>2, <1>3, <1>4, <1>5

LEMMA UnstartedStep ==
  Unstarted /\ [Next]_vars => Unstarted'
<1> SUFFICES ASSUME Unstarted, [Next]_vars, ~started'
             PROVE  Unstarted'
  BY DEF Unstarted
<1>1. CASE UNCHANGED vars
  BY <1>1 DEF Unstarted, vars, lifecycle, callVars
<1>2. CASE Start
  BY <1>2 DEF Start
<1>3. CASE PeriodStep
  BY <1>3 DEF PeriodStep, MarkReady, ReportWarm, ReportAborted, Load, lifecycle,
     callVars, Unstarted
<1>4. CASE KeepaliveStep
  BY <1>4 DEF KeepaliveStep, TimerFires, ExpireStops, Expire, IsStale, callVars, Unstarted
<1>5. ASSUME NEW c \in Callers, Begin(c) \/ CallStep(c) \/ GiveUp(c)
      PROVE  FALSE
  BY <1>5, LifecycleAssumption DEF Begin, CallStep, GiveUp, Acquire, Release, Widen,
     WidenStops, WidenWarms, Select, Serve, Answer, lifecycle, Unstarted
<1> QED
  BY <1>1, <1>2, <1>3, <1>4, <1>5 DEF Next

LEMMA PeriodStepInv ==
  Counted /\ PeriodInv /\ [Next]_vars => PeriodInv'
<1> SUFFICES ASSUME Counted, PeriodInv, [Next]_vars
             PROVE  PeriodInv'
  OBVIOUS
<1>a. /\ LifecycleType /\ StoreType /\ WarmSetType /\ CallsType /\ WidenerLocks
      /\ PeriodLocked /\ PeriodReady /\ PeriodState /\ Unstarted
  BY DEF Counted, TypeOK, PeriodInv
<1>b. NothingSkipped' /\ Unstarted'
  BY SkippedStep, UnstartedStep DEF PeriodInv
<1> SUFFICES (PeriodLocked /\ PeriodReady /\ PeriodState)'
  BY <1>b DEF PeriodInv
<1>w. ASSUME NEW days, WarmUp(days), mu' = "free", ~running
      PROVE  (PeriodLocked /\ PeriodReady /\ PeriodState)'
  BY <1>a, <1>w DEF WarmUp, PeriodLocked, PeriodReady, PeriodState
\* A step that touches no period at all.
<1>u. ASSUME UNCHANGED <<store, warmSet, state, isWarm, mu>>
      PROVE  (PeriodLocked /\ PeriodReady /\ PeriodState)'
  BY <1>a, <1>u DEF store, warmSet, PeriodLocked, PeriodReady, PeriodState
<1>1. CASE UNCHANGED vars
  BY <1>1, <1>u DEF vars, lifecycle
<1>2. CASE Start
  <2>1. CASE Keepalive
    BY <1>2, <2>1, <1>u DEF Start
  <2>2. CASE ~Keepalive
    BY <1>2, <2>2, <1>a, <1>w DEF Start, Unstarted, PeriodLocked
  <2> QED
    BY <2>1, <2>2
<1>3. CASE PeriodStep
  <2>1. CASE MarkReady
    BY <2>1, <1>a DEF MarkReady, lifecycle, PeriodLocked, PeriodReady, PeriodState, StoreType
  <2>2. CASE ReportWarm \/ ReportAborted
    BY <2>2, <1>a DEF ReportWarm, ReportAborted, lifecycle, store, PeriodLocked,
       PeriodReady, PeriodState
  <2>3. ASSUME NEW l \in Loaders, Load(l)
        PROVE  (PeriodLocked /\ PeriodReady /\ PeriodState)'
    BY <2>3, <1>a DEF Load, lifecycle, PeriodLocked, PeriodReady, PeriodState
  <2> QED
    BY <1>3, <2>1, <2>2, <2>3 DEF PeriodStep
<1>4. CASE TimerFires
  BY <1>4, <1>u DEF TimerFires
<1>5. CASE ExpireStops
  BY <1>5, <1>a DEF ExpireStops, StopPeriod, Reset, PeriodLocked, PeriodReady,
     PeriodState, StoreType
<1>6. ASSUME NEW g \in fired, Expire(g)
      PROVE  (PeriodLocked /\ PeriodReady /\ PeriodState)'
  <2>1. CASE IsStale(g)
    BY <1>6, <2>1, <1>u DEF Expire, store, warmSet
  <2>2. CASE ~IsStale(g)
    BY <1>6, <2>2, <1>a DEF Expire, IsStale, store, PeriodLocked, PeriodReady, PeriodState
  <2> QED
    BY <2>1, <2>2
<1>7. ASSUME NEW c \in Callers, Acquire(c)
      PROVE  (PeriodLocked /\ PeriodReady /\ PeriodState)'
  <2>1. CASE isWarm
    BY <1>7, <2>1, <1>u DEF Acquire
  <2>2. CASE ~isWarm
    BY <1>7, <2>2, <1>a, <1>w DEF Acquire, PeriodLocked
  <2> QED
    BY <2>1, <2>2
<1>8. ASSUME NEW c \in Callers, Widen(c)
      PROVE  (PeriodLocked /\ PeriodReady /\ PeriodState)'
  <2>1. CASE ~IsWider(arg[c])
    BY <1>8, <2>1, <1>u DEF Widen
  <2>2. CASE IsWider(arg[c]) /\ isWarm
    BY <1>8, <2>2, <1>a, LifecycleAssumption
       DEF Widen, store, PeriodLocked, PeriodReady, PeriodState
  <2>3. CASE IsWider(arg[c]) /\ ~isWarm
    BY <1>8, <2>3, <1>a, <1>w DEF Widen, PeriodLocked
  <2> QED
    BY <2>1, <2>2, <2>3
<1>9. ASSUME NEW c \in Callers, WidenStops(c)
      PROVE  (PeriodLocked /\ PeriodReady /\ PeriodState)'
  BY <1>9, <1>a, LifecycleAssumption
     DEF WidenStops, lifecycle, StopPeriod, Reset, PeriodLocked, PeriodReady,
         PeriodState, StoreType
<1>10. ASSUME NEW c \in Callers, WidenWarms(c)
       PROVE  (PeriodLocked /\ PeriodReady /\ PeriodState)'
  BY <1>10, <1>w DEF WidenWarms
<1>11. ASSUME NEW c \in Callers,
              Begin(c) \/ Release(c) \/ Select(c) \/ Serve(c) \/ GiveUp(c) \/ Answer(c)
       PROVE  (PeriodLocked /\ PeriodReady /\ PeriodState)'
  BY <1>11, <1>u DEF Begin, Release, Select, Serve, GiveUp, Answer, lifecycle
<1> QED
  BY <1>1, <1>2, <1>3, <1>4, <1>5, <1>6, <1>7, <1>8, <1>9, <1>10, <1>11
     DEF Next, CallStep, KeepaliveStep

\* The reported state is true, no ready channel is closed twice and no transcript
\* counts as read without its turns, across any sequence of warm periods.
THEOREM PeriodCorrect == Spec => [](PeriodSound /\ NothingSkipped)
<1>1. Init => PeriodInv
  BY DEF Init, PeriodInv, PeriodLocked, PeriodReady, PeriodState, NothingSkipped,
     Nothing, Unstarted
<1>2. PeriodInv => PeriodSound /\ NothingSkipped
  BY DEF PeriodInv, PeriodLocked, PeriodReady, PeriodState, PeriodSound, StateTruthful,
     ReadyClosedOnce
<1>3. TypeOK /\ CallsCounted /\ WidenerLocks => Counted
  BY DEF Counted
<1> QED
  BY <1>1, <1>2, <1>3, TypeCorrect, PeriodStepInv, PTL DEF Spec

\* In memory and in the snapshot, no offset is ahead of the turns read with it.
THEOREM NothingSkippedCorrect == Spec => []NothingSkipped
BY PeriodCorrect, PTL

-----------------------------------------------------------------------------
(* The instance without a keepalive.                                        *)

HttpInv ==
  ~Keepalive => /\ timer = NoTimer /\ fired = {} /\ mu # "expire"
                /\ started => isWarm

\* With --cache-keepalive-sec 0 an instance is warm from Start on (Start, Release).
THEOREM StaysWarmCorrect == Spec => []StaysWarm
<1>1. Init => HttpInv
  BY DEF Init, HttpInv
<1>2. TypeOK /\ HttpInv /\ [Next]_vars => HttpInv'
  <2> SUFFICES ASSUME LifecycleType, HttpInv, [Next]_vars, ~Keepalive
               PROVE  HttpInv'
    BY DEF HttpInv, TypeOK
  <2>1. CASE UNCHANGED vars \/ PeriodStep
    BY <2>1 DEF vars, PeriodStep, MarkReady, ReportWarm, ReportAborted, Load,
       lifecycle, HttpInv
  <2>2. CASE Start
    BY <2>2 DEF Start, WarmUp, HttpInv
  <2>3. CASE KeepaliveStep
    BY <2>3 DEF KeepaliveStep, TimerFires, ExpireStops, Expire, HttpInv
  <2>4. ASSUME NEW c \in Callers, Acquire(c) \/ Release(c) \/ Begin(c)
        PROVE  HttpInv'
    BY <2>4 DEF Acquire, Release, Begin, IsIdle, WarmUp, lifecycle, HttpInv
  <2>5. ASSUME NEW c \in Callers, Widen(c) \/ WidenStops(c) \/ WidenWarms(c)
        PROVE  HttpInv'
    BY <2>5, LifecycleAssumption DEF Widen, WidenStops, WidenWarms, WarmUp,
       lifecycle, HttpInv
  <2>6. ASSUME NEW c \in Callers, Select(c) \/ Serve(c) \/ Answer(c) \/ GiveUp(c)
        PROVE  HttpInv'
    BY <2>6 DEF Select, Serve, Answer, GiveUp, lifecycle, HttpInv
  <2> QED
    BY <2>1, <2>2, <2>3, <2>4, <2>5, <2>6 DEF Next, CallStep
<1>3. HttpInv => StaysWarm
  BY DEF HttpInv, StaysWarm
<1> QED
  BY <1>1, <1>2, <1>3, TypeCorrect, PTL DEF Spec

-----------------------------------------------------------------------------
(* Complete answers.                                                        *)

\* The watch window never shrinks, a running period has the current one unless a
\* method is replacing it, and it covers what the calls in flight asked for.
WindowInv ==
  /\ Depth(window) >= Depth(watchWindow) /\ Depth(watchWindow) >= Depth(InitWindow)
  /\ running /\ mu \notin Callers => watchWindow = window
  /\ \A c \in Callers : /\ pc[c] = "idle" => arg[c] = NoDays
                        /\ pc[c] = "widen" => c \in Wideners
                        /\ pc[c] = "acquire" \/ mu = c => Depth(window) >= arg[c]
                        /\ pc[c] \in InFlight => Depth(watchWindow) >= arg[c]

\* A ready period has every loader's sessions back to its window, a handler's channel
\* was closed, and it is still the store's unless another call widened the window.
LoadedInv ==
  /\ \A l \in loaded : stored[l] >= Depth(watchWindow)
  /\ ready \in closed => loaded = Loaders
  /\ \A c \in Callers : pc[c] = "handling" => waitsOn[c] \in closed
  /\ \A c \in Callers :
       Wideners \subseteq {c} /\ pc[c] \in {"waiting", "handling"} => waitsOn[c] = ready

LEMMA ArgType ==
  ASSUME CallsType, NEW c \in Callers
  PROVE  arg[c] \in Nat /\ arg[c] <= Everything
<1>1. arg[c] \in Windows \cup {0}
  BY DEF CallsType, NoDays
<1>2. Everything \in Nat /\ \A days \in Windows : days \in Nat /\ days < Everything
  BY LifecycleAssumption
<1> QED
  BY <1>1, <1>2

LEMMA WindowType ==
  ASSUME LifecycleType, WarmSetType, CallsType
  PROVE  /\ Depth(window) \in Nat /\ Depth(watchWindow) \in Nat /\ Depth(InitWindow) \in Nat
         /\ \A c \in Callers : arg[c] \in Nat
<1>1. \A days \in Windows \cup {InitWindow} : Depth(days) \in Nat
  BY DepthType, LifecycleAssumption DEF Depths
<1>2. \A c \in Callers : arg[c] \in Nat
  BY ArgType
<1> QED
  BY <1>1, <1>2 DEF LifecycleType, WarmSetType

\* After Widen the window covers the days, and none that it covered before is lost.
LEMMA WidenCovers ==
  ASSUME LifecycleType, CallsType, NEW c \in Callers
  PROVE  /\ ~IsWider(arg[c]) => Depth(window) >= arg[c]
         /\ IsWider(arg[c]) => Depth(arg[c]) = arg[c] /\ Depth(arg[c]) >= Depth(window)
<1>1. /\ window \in Nat /\ window < Everything /\ Everything \in Nat
      /\ arg[c] \in Nat /\ arg[c] <= Everything
  BY ArgType, LifecycleAssumption DEF LifecycleType
<1> QED
  BY <1>1 DEF IsWider, Depth, NoDays

LEMMA WindowStep ==
  Counted /\ PeriodLocked /\ WindowInv /\ [Next]_vars => WindowInv'
<1> SUFFICES ASSUME Counted, PeriodLocked, WindowInv, [Next]_vars
             PROVE  WindowInv'
  OBVIOUS
<1>a. LifecycleType /\ WarmSetType /\ CallsType /\ WidenerLocks
  BY DEF Counted, TypeOK
<1>n. /\ Depth(window) \in Nat /\ Depth(watchWindow) \in Nat /\ Depth(InitWindow) \in Nat
      /\ \A c \in Callers : arg[c] \in Nat
  BY <1>a, WindowType
\* A step that leaves the windows alone and lets calls only go on.
<1>u. ASSUME UNCHANGED <<window, watchWindow, running, arg>>,
             \A c \in Callers : mu' = c <=> mu = c,
             \A c \in Callers : \/ pc'[c] = pc[c]
                                \/ pc[c] \in InFlight /\ pc'[c] \in InFlight
      PROVE  WindowInv'
  BY <1>u DEF WindowInv, InFlight
<1>1. CASE UNCHANGED vars
  BY <1>1, <1>u DEF vars, lifecycle, warmSet, callVars
<1>2. CASE Start
  <2>1. CASE Keepalive
    BY <1>2, <2>1, <1>u DEF Start, warmSet, callVars
  <2>2. CASE ~Keepalive
    BY <1>2, <2>2, <1>a, <1>n DEF Start, WarmUp, WindowInv, callVars
  <2> QED
    BY <2>1, <2>2
<1>3. CASE PeriodStep
  BY <1>3, <1>u DEF PeriodStep, MarkReady, ReportWarm, ReportAborted, Load, lifecycle,
     callVars
<1>4. CASE TimerFires \/ \E g \in fired : Expire(g)
  BY <1>4, <1>u, LifecycleAssumption DEF TimerFires, Expire, warmSet, callVars
<1>5. CASE ExpireStops
  BY <1>5, <1>a, LifecycleAssumption DEF ExpireStops, StopPeriod, WindowInv, callVars
<1>6. ASSUME NEW c \in Callers, Acquire(c)
      PROVE  WindowInv'
  <2>1. \A d \in Callers \ {c} : pc'[d] = pc[d]
    BY <1>6, <1>a DEF Acquire, CallsType
  <2>2. pc'[c] = "select" /\ Depth(window) >= arg[c] /\ mu = "free" /\ mu' = mu
    BY <1>6, <1>a DEF Acquire, CallsType, WindowInv
  <2>3. watchWindow' = window /\ window' = window /\ arg' = arg
    <3>1. CASE isWarm
      BY <1>6, <3>1, <2>2, LifecycleAssumption DEF Acquire, warmSet, WindowInv, PeriodLocked
    <3>2. CASE ~isWarm
      BY <1>6, <3>2 DEF Acquire, WarmUp
    <3> QED
      BY <3>1, <3>2
  <2>4. \A d \in Callers : pc[d] \in InFlight => Depth(window) >= arg[d]
    BY <1>n DEF WindowInv
  <2> QED
    BY <2>1, <2>2, <2>3, <2>4, <1>n DEF WindowInv
<1>7. ASSUME NEW c \in Callers, Release(c)
      PROVE  WindowInv'
  <2>1. \A d \in Callers \ {c} : pc'[d] = pc[d] /\ arg'[d] = arg[d]
    BY <1>7, <1>a DEF Release, CallsType
  <2>2. pc'[c] = "idle" /\ arg'[c] = NoDays /\ mu' # c
    BY <1>7, <1>a, LifecycleAssumption DEF Release, CallsType
  <2>3. UNCHANGED <<window, watchWindow, running, mu>>
    BY <1>7 DEF Release, warmSet
  <2> QED
    BY <2>1, <2>2, <2>3 DEF WindowInv, InFlight
<1>8. ASSUME NEW c \in Callers, Widen(c)
      PROVE  WindowInv'
  <2>c. /\ ~IsWider(arg[c]) => Depth(window) >= arg[c]
        /\ IsWider(arg[c]) => Depth(arg[c]) = arg[c] /\ Depth(arg[c]) >= Depth(window)
    BY <1>a, WidenCovers
  <2>d. pc[c] = "widen" /\ \A d \in Callers \ {c} : pc'[d] = pc[d]
    BY <1>8, <1>a DEF Widen, CallsType
  <2>1. CASE ~IsWider(arg[c])
    BY <1>8, <2>1, <2>c, <2>d, <1>a DEF Widen, warmSet, WindowInv, CallsType, InFlight
  <2>2. CASE IsWider(arg[c]) /\ isWarm
    BY <1>8, <2>2, <2>c, <2>d, <1>n DEF Widen, WindowInv
  <2>3. CASE IsWider(arg[c]) /\ ~isWarm
    <3>1. /\ window' = arg[c] /\ watchWindow' = arg[c] /\ arg' = arg
          /\ pc'[c] = "acquire" /\ mu' \notin Callers
      BY <1>8, <2>3, <1>a, LifecycleAssumption DEF Widen, WarmUp, CallsType
    <3>2. \A d \in Callers : pc[d] \in InFlight => Depth(arg[c]) >= arg[d]
      BY <1>n, <2>3, <2>c DEF WindowInv
    <3>3. \A d \in Callers : pc[d] = "acquire" => Depth(arg[c]) >= arg[d]
      BY <1>n, <2>3, <2>c DEF WindowInv
    <3>4. Depth(arg[c]) >= Depth(InitWindow) /\ Depth(arg[c]) \in Nat /\ Depth(arg[c]) >= arg[c]
      BY <1>n, <2>3, <2>c DEF WindowInv
    <3> QED
      BY <3>1, <3>2, <3>3, <3>4, <2>d DEF WindowInv, InFlight
  <2> QED
    BY <2>1, <2>2, <2>3
<1>9. ASSUME NEW c \in Callers, WidenStops(c)
      PROVE  WindowInv'
  BY <1>9 DEF WidenStops, lifecycle, StopPeriod, WindowInv, callVars
<1>10. ASSUME NEW c \in Callers, WidenWarms(c)
       PROVE  WindowInv'
  <2>1. pc[c] = "widen" /\ \A d \in Callers \ {c} : pc'[d] = pc[d]
    BY <1>10, <1>a DEF WidenWarms, WidenerLocks, CallsType
  <2>2. /\ window' = window /\ watchWindow' = window /\ arg' = arg
        /\ pc'[c] = "acquire" /\ mu' \notin Callers
    BY <1>10, <1>a, LifecycleAssumption DEF WidenWarms, WarmUp, CallsType
  <2>3. Depth(window) >= arg[c]
    BY <1>10 DEF WidenWarms, WindowInv
  <2> QED
    BY <2>1, <2>2, <2>3, <1>n DEF WindowInv, InFlight
<1>11. ASSUME NEW c \in Callers, Begin(c)
       PROVE  WindowInv'
  <2>1. pc[c] = "idle" /\ mu # c
    BY <1>11, <1>a DEF Begin, WidenerLocks
  <2>2. \A d \in Callers \ {c} : pc'[d] = pc[d] /\ arg'[d] = arg[d]
    BY <1>11, <1>a DEF Begin, CallsType
  <2>3. \/ c \in Wideners /\ pc'[c] = "widen"
        \/ c \notin Wideners /\ pc'[c] = "acquire" /\ arg'[c] = arg[c]
    BY <1>11, <1>a DEF Begin, CallsType
  <2>4. UNCHANGED <<window, watchWindow, running, mu>>
    BY <1>11 DEF Begin, lifecycle, warmSet
  <2> QED
    BY <2>1, <2>2, <2>3, <2>4, <1>n DEF WindowInv, InFlight, NoDays
<1>12. ASSUME NEW c \in Callers, Select(c) \/ Serve(c) \/ Answer(c) \/ GiveUp(c)
       PROVE  WindowInv'
  BY <1>12, <1>a, <1>u DEF Select, Serve, Answer, GiveUp, CallsType, lifecycle, warmSet, InFlight
<1> QED
  BY <1>1, <1>2, <1>3, <1>4, <1>5, <1>6, <1>7, <1>8, <1>9, <1>10, <1>11, <1>12
     DEF Next, CallStep, KeepaliveStep

LEMMA LoadedStep ==
  /\ Counted /\ KeepaliveInv /\ PeriodInv /\ WindowInv /\ LoadedInv
  /\ [Next]_vars
  => LoadedInv'
<1> SUFFICES ASSUME Counted, KeepaliveInv, PeriodInv, WindowInv, LoadedInv, [Next]_vars
             PROVE  LoadedInv'
  OBVIOUS
<1>a. /\ LifecycleType /\ StoreType /\ WarmSetType /\ CallsType /\ CallsCounted
      /\ WidenerLocks /\ CoolsOnlyIdle /\ PeriodLocked /\ PeriodReady /\ NothingSkipped
      /\ Unstarted
  BY DEF Counted, TypeOK, KeepaliveInv, PeriodInv
\* A period starts; no call starts to wait or to handle.
<1>w. ASSUME NEW days, WarmUp(days), ~running, waitsOn' = waitsOn,
             \A c \in Callers : pc'[c] = pc[c] \/ pc'[c] \notin {"waiting", "handling"}
      PROVE  LoadedInv'
  BY <1>a, <1>w DEF WarmUp, LoadedInv, PeriodReady
\* A step that leaves the period and its channel alone.
<1>u. ASSUME UNCHANGED <<watchWindow, store, loaded>>,
             \A c \in Callers : pc'[c] \in {"waiting", "handling"}
                                  => pc'[c] = pc[c] /\ waitsOn'[c] = waitsOn[c]
      PROVE  LoadedInv'
  BY <1>u DEF LoadedInv, store
\* A period stops; no call whose channel has to be the store's waits or handles.
<1>s. ASSUME StopPeriod, UNCHANGED callVars,
             \A c \in Callers : Wideners \subseteq {c} => pc[c] \notin {"waiting", "handling"}
      PROVE  LoadedInv'
  BY <1>a, <1>s DEF StopPeriod, Reset, LoadedInv, PeriodReady, StoreType, callVars
<1>1. CASE UNCHANGED vars
  BY <1>1, <1>u DEF vars, warmSet, callVars
<1>2. CASE Start
  <2>1. CASE Keepalive
    BY <1>2, <2>1, <1>u DEF Start, warmSet, callVars
  <2>2. CASE ~Keepalive
    BY <1>2, <2>2, <1>a, <1>w DEF Start, callVars, Unstarted, PeriodLocked
  <2> QED
    BY <2>1, <2>2
<1>3. CASE MarkReady
  BY <1>3, <1>a DEF MarkReady, AllLoaded, LoadedInv, StoreType, callVars
<1>4. CASE ReportWarm \/ ReportAborted
  BY <1>4, <1>u DEF ReportWarm, ReportAborted, callVars
<1>5. ASSUME NEW l \in Loaders, Load(l)
      PROVE  LoadedInv'
  <2>1. Depth(watchWindow) \in Nat
    BY <1>a, WindowType
  <2>2. stored[l] \in Nat /\ read[l] \in Nat /\ read[l] <= stored[l]
    BY <1>a, LifecycleAssumption DEF StoreType, WarmSetType, Depths, NothingSkipped
  <2>3. stored'[l] >= Depth(watchWindow)
    BY <1>5, <1>a, <2>1, <2>2 DEF Load, LoadedDepth, StoreType
  <2>4. \A k \in loaded : stored'[k] >= Depth(watchWindow)
    BY <1>5, <1>a, <2>3 DEF Load, StoreType, WarmSetType, LoadedInv
  <2>5. ready' \in closed' => loaded' = Loaders
    BY <1>5 DEF Load, LoadedInv
  <2> QED
    BY <1>5, <2>3, <2>4, <2>5 DEF Load, LoadedInv, callVars
<1>6. CASE TimerFires \/ \E g \in fired : Expire(g)
  BY <1>6, <1>u DEF TimerFires, Expire, warmSet, callVars
<1>7. CASE ExpireStops
  <2>1. Busy = {}
    BY <1>7, <1>a, BusyFinite, FS_EmptySet DEF ExpireStops, CallsCounted, CoolsOnlyIdle
  <2>2. \A c \in Callers : pc[c] \notin {"waiting", "handling"}
    BY <2>1 DEF Busy, InFlight
  <2> QED
    BY <1>7, <2>2, <1>s DEF ExpireStops
<1>8. ASSUME NEW c \in Callers, Acquire(c)
      PROVE  LoadedInv'
  <2>1. \A d \in Callers : pc'[d] = pc[d] \/ pc'[d] = "select"
    BY <1>8, <1>a DEF Acquire, CallsType
  <2>2. CASE isWarm
    BY <1>8, <2>1, <2>2, <1>u DEF Acquire, warmSet
  <2>3. CASE ~isWarm
    BY <1>8, <2>1, <2>3, <1>a, <1>w DEF Acquire, PeriodLocked
  <2> QED
    BY <2>2, <2>3
<1>9. ASSUME NEW c \in Callers, Widen(c)
      PROVE  LoadedInv'
  <2>1. \A d \in Callers : pc'[d] = pc[d] \/ pc'[d] = "acquire"
    BY <1>9, <1>a DEF Widen, CallsType
  <2>2. CASE ~IsWider(arg[c]) \/ isWarm
    BY <1>9, <2>1, <2>2, <1>u DEF Widen, warmSet, store
  <2>3. CASE IsWider(arg[c]) /\ ~isWarm
    BY <1>9, <2>1, <2>3, <1>a, <1>w DEF Widen, PeriodLocked
  <2> QED
    BY <2>2, <2>3
<1>10. ASSUME NEW c \in Callers, WidenStops(c)
       PROVE  LoadedInv'
  \* The call that widens is inside Widen, and it is the only one that may widen.
  <2>1. \A d \in Callers : Wideners \subseteq {d} => pc[d] = "widen"
    BY <1>10, <1>a DEF WidenStops, WidenerLocks, WindowInv
  <2> QED
    BY <1>10, <2>1, <1>s DEF WidenStops
<1>11. ASSUME NEW c \in Callers, WidenWarms(c)
       PROVE  LoadedInv'
  <2>1. \A d \in Callers : pc'[d] = pc[d] \/ pc'[d] = "acquire"
    BY <1>11, <1>a DEF WidenWarms, CallsType
  <2> QED
    BY <1>11, <2>1, <1>w DEF WidenWarms
<1>12. ASSUME NEW c \in Callers, Begin(c) \/ Release(c) \/ Answer(c) \/ GiveUp(c)
       PROVE  LoadedInv'
  BY <1>12, <1>a, <1>u DEF Begin, Release, Answer, GiveUp, CallsType, warmSet
<1>13. ASSUME NEW c \in Callers, Select(c) \/ Serve(c)
       PROVE  LoadedInv'
  BY <1>13, <1>a DEF Select, Serve, LoadedInv, CallsType, store, warmSet
<1> QED
  BY <1>1, <1>2, <1>3, <1>4, <1>5, <1>6, <1>7, <1>8, <1>9, <1>10, <1>11, <1>12,
     <1>13 DEF Next, CallStep, KeepaliveStep, PeriodStep

\* An answer is complete unless another call replaced the period it was made in.
AnswersOfTheirPeriod ==
  \A c \in Callers : pc[c] = "handling" /\ waitsOn[c] = ready => Complete(c)

AnswerInv == TypeOK /\ WindowInv /\ LoadedInv

LEMMA AnswersInvariant == Spec => []AnswerInv
<1>1. Init => KeepaliveInv /\ PeriodInv
  BY DEF Init, KeepaliveInv, TimersIdle, CoolsOnlyIdle, NeverStrandedWarm, NoTimer,
     PeriodInv, PeriodLocked, PeriodReady, PeriodState, NothingSkipped, Nothing, Unstarted
<1>2. Init => WindowInv /\ LoadedInv
  <2>1. Depth(InitWindow) \in Nat
    BY DepthType, LifecycleAssumption DEF Depths
  <2> QED
    BY <2>1, LifecycleAssumption DEF Init, WindowInv, LoadedInv, InFlight
<1>3. TypeOK /\ CallsCounted /\ WidenerLocks => Counted
  BY DEF Counted
<1>4. PeriodInv => PeriodLocked
  BY DEF PeriodInv
<1>5. TypeOK /\ WindowInv /\ LoadedInv => AnswerInv
  BY DEF AnswerInv
<1> QED
  BY <1>1, <1>2, <1>3, <1>4, <1>5, TypeCorrect, KeepaliveStepInv, PeriodStepInv,
     WindowStep, LoadedStep, PTL DEF Spec

\* The sessions behind the store's own, closed channel reach back far enough.
LEMMA ReadyIsComplete ==
  ASSUME AnswerInv, NEW c \in Callers, pc[c] = "handling", waitsOn[c] = ready
  PROVE  Complete(c)
<1>1. /\ Depth(watchWindow) \in Nat /\ Depth(InitWindow) \in Nat /\ arg[c] \in Nat
  BY WindowType DEF AnswerInv, TypeOK
<1>2. \A l \in Loaders : stored[l] \in Nat /\ stored[l] >= Depth(watchWindow)
  BY LifecycleAssumption DEF AnswerInv, LoadedInv, TypeOK, StoreType, Depths
<1>3. Depth(watchWindow) >= Depth(InitWindow) /\ Depth(watchWindow) >= arg[c]
  BY DEF AnswerInv, WindowInv, InFlight
<1> QED
  BY <1>1, <1>2, <1>3 DEF Complete

\* Whoever widens and however often: a handler whose ready channel is still the
\* store's has every session of the watch window and of the days it asked for.
THEOREM AnswersCorrect == Spec => []AnswersOfTheirPeriod
<1>1. AnswerInv => AnswersOfTheirPeriod
  BY ReadyIsComplete DEF AnswersOfTheirPeriod
<1> QED
  BY <1>1, AnswersInvariant, PTL

\* docs/tools.md "Startup wait", for an instance whose calls do not pass window_days:
\* a handler runs only over the complete sessions of the watch window.
THEOREM AnswersComplete == ASSUME Wideners = {} PROVE Spec => []CompleteAnswers
<1>1. AnswerInv => CompleteAnswers
  BY ReadyIsComplete DEF AnswerInv, LoadedInv, CompleteAnswers
<1> QED
  BY <1>1, AnswersInvariant, PTL

\* docs/tools.md window_days: a call that is alone in widening the window gets every
\* session of the days it asked for (Widen, awaitReady).
THEOREM WidenerAnswersCorrect ==
  ASSUME \A a, b \in Wideners : a = b
  PROVE  Spec => []WidenerAnswersComplete
<1>1. \A c \in Wideners : Wideners \subseteq {c} /\ c \in Callers
  BY LifecycleAssumption
<1>2. AnswerInv => WidenerAnswersComplete
  BY <1>1, ReadyIsComplete DEF AnswerInv, LoadedInv, WidenerAnswersComplete
<1> QED
  BY <1>2, AnswersInvariant, PTL

-----------------------------------------------------------------------------
(* Refinement.                                                              *)

\* Every step of the instance is a step of the keepalive contract or leaves it
\* alone: calls enter and leave one at a time, a call finds the instance warm, and
\* it cools only empty.
THEOREM ImplementsContract == Spec => Contract!Spec
<1>1. Init => Contract!Init
  BY DEF Init, Contract!Init, Busy, InFlight
<1>2. Counted /\ KeepaliveInv /\ [Next]_vars => [Contract!Next]_<<Busy, isWarm>>
  <2> SUFFICES ASSUME Counted, KeepaliveInv, [Next]_vars
               PROVE  Contract!Next \/ UNCHANGED <<Busy, isWarm>>
    OBVIOUS
  <2>a. /\ LifecycleType /\ CallsType /\ CallsCounted /\ WidenerLocks /\ CoolsOnlyIdle
    BY DEF Counted, TypeOK, KeepaliveInv
  <2>1. CASE UNCHANGED vars \/ PeriodStep \/ TimerFires \/ \E g \in fired : Expire(g)
    BY <2>1 DEF vars, PeriodStep, MarkReady, ReportWarm, ReportAborted, Load,
       TimerFires, Expire, lifecycle, callVars, Busy
  <2>2. CASE Start
    BY <2>2, <2>a DEF Start, WarmUp, callVars, Busy, LifecycleType, Contract!Next,
       Contract!Preload
  <2>3. CASE ExpireStops
    <3>1. Busy = {} /\ Busy' = Busy
      BY <2>3, <2>a, BusyFinite, FS_EmptySet
         DEF ExpireStops, CallsCounted, CoolsOnlyIdle, Busy, callVars
    <3> QED
      BY <2>3, <2>a, <3>1 DEF ExpireStops, Contract!Next, Contract!Cool, LifecycleType
  <2>4. ASSUME NEW c \in Callers, Acquire(c)
        PROVE  Contract!Next
    <3>1. c \notin Busy /\ Busy' = Busy \cup {c}
      BY <2>4, <2>a, BusyEnter DEF Acquire, Busy, InFlight
    <3>2. isWarm' = TRUE
      BY <2>4, <2>a DEF Acquire, WarmUp, LifecycleType
    <3> QED
      BY <3>1, <3>2 DEF Contract!Next, Contract!Enter
  <2>5. ASSUME NEW c \in Callers, Release(c)
        PROVE  Contract!Next
    <3>1. c \in Busy /\ Busy' = Busy \ {c}
      BY <2>5, <2>a, BusyLeave DEF Release, Busy, InFlight
    <3> QED
      BY <2>5, <3>1 DEF Release, Contract!Next, Contract!Leave
  <2>6. ASSUME NEW c \in Callers, Widen(c) \/ WidenWarms(c)
        PROVE  Contract!Next \/ UNCHANGED <<Busy, isWarm>>
    <3>1. Busy' = Busy
      BY <2>6, <2>a DEF Widen, WidenWarms, WidenerLocks, Busy, CallsType, InFlight
    <3>2. isWarm' \in {isWarm, TRUE}
      BY <2>6 DEF Widen, WidenWarms, WarmUp
    <3> QED
      BY <3>1, <3>2, <2>a DEF Contract!Next, Contract!Preload, LifecycleType
  <2>7. ASSUME NEW c \in Callers,
               Begin(c) \/ WidenStops(c) \/ Select(c) \/ Serve(c) \/ Answer(c) \/ GiveUp(c)
        PROVE  UNCHANGED <<Busy, isWarm>>
    BY <2>7, <2>a DEF Begin, WidenStops, Select, Serve, Answer, GiveUp, lifecycle,
       callVars, Busy, CallsType, InFlight
  <2> QED
    BY <2>1, <2>2, <2>3, <2>4, <2>5, <2>6, <2>7 DEF Next, CallStep, KeepaliveStep
<1>3. Init => KeepaliveInv
  BY DEF Init, KeepaliveInv, TimersIdle, CoolsOnlyIdle, NeverStrandedWarm, NoTimer
<1>4. TypeOK /\ CallsCounted /\ WidenerLocks => Counted
  BY DEF Counted
<1> QED
  BY <1>1, <1>2, <1>3, <1>4, TypeCorrect, KeepaliveStepInv, PTL DEF Spec, Contract!Spec

=============================================================================
