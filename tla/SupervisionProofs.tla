------------------------- MODULE SupervisionProofs -------------------------
(***************************************************************************)
(* Proofs about Supervision.  The strengthening says what a crash leaves   *)
(* behind: a component whose worker has crashed is not well again, a       *)
(* supervisor that ended while the runtime is up has crashed, and nothing  *)
(* has crashed before the runtime is up.                                   *)
(***************************************************************************)
EXTENDS Supervision, FiniteSetTheorems, TLAPS

\* TypeOK in two parts: what is a number, and the rest
Numbers ==
  /\ now \in 0..Horizon /\ start \in 0..now /\ count \in 0..MaxSpoken
  /\ last \in -Spacing..now /\ spoken \subseteq 0..now

Shapes ==
  /\ life \in {"off", "starting", "up", "half", "stopping", "down"}
  /\ wpc \in [Workers -> {"none", "running", "publishing", "waiting", "ended"}]
  /\ restarts \in [Workers -> 0..MaxRestarts]
  /\ good \in [Components -> BOOLEAN] /\ asking \in [Observers -> BOOLEAN]
  /\ cpc \in [Callers -> {"off", "asleep", "observing", "publishing"}]
  /\ paused \in BOOLEAN /\ upkeep \subseteq Upkeep

\* nothing has been spawned before the runtime is up
Fresh ==
  life \in {"off", "starting", "half"} =>
    \A w \in Workers : wpc[w] = "none" /\ restarts[w] = 0

\* a supervisor that may still let its worker run has a restart left
Counted ==
  \A w \in Workers : wpc[w] \in {"none", "running", "waiting"} => restarts[w] < MaxRestarts

\* the status a crash leaves is never cleared
Broken == \A w \in Workers : restarts[w] > 0 => ~good[Component[w]]

\* only crashes end a supervisor while the runtime is up
EndedByCrash == \A w \in Workers : life = "up" /\ wpc[w] = "ended" => restarts[w] > 0

IInv == TypeOK /\ Fresh /\ Counted /\ Broken /\ EndedByCrash

LEMMA Bounds ==
  /\ MaxRestarts \in Nat \ {0} /\ MaxSpoken \in Nat
  /\ Hour \in Nat /\ Spacing \in Nat /\ Horizon \in Nat
BY NumberAssumption

LEMMA TypeParts == TypeOK <=> Shapes /\ Numbers
BY DEF TypeOK, Shapes, Numbers

LEMMA TypePartsNext == TypeOK' <=> Shapes' /\ Numbers'
BY DEF TypeOK, Shapes, Numbers

LEMMA ComponentTypes ==
  \A w \in Workers : Component[w] \in Components /\ Component[w] \notin Local \cup Remote
BY WorkerAssumption DEF Components

LEMMA InitInv == Init => IInv
<1> SUFFICES ASSUME Init PROVE IInv
  OBVIOUS
<1>1. Numbers
  <2>1. -Spacing \in -Spacing..0 /\ 0 \in 0..Horizon /\ 0 \in 0..0 /\ 0 \in 0..MaxSpoken
    BY Bounds
  <2> QED BY <2>1, Zenon DEF Init, Numbers
<1>2. Shapes
  <2>1. 0 \in 0..MaxRestarts
    BY Bounds
  <2> QED BY <2>1 DEF Init, Shapes
<1>3. Fresh /\ Counted /\ Broken /\ EndedByCrash
  BY Bounds DEF Init, Fresh, Counted, Broken, EndedByCrash
<1> QED BY <1>1, <1>2, <1>3, TypeParts DEF IInv

\* The watch over workers and what snapshots write.
LEMMA SupervisorStep ==
  ASSUME IInv,
         LifeStep \/ (\E w \in Workers : Crash(w) \/ Published(w) \/ Respawn(w))
                  \/ (\E o \in Observers : Ask(o) \/ Answer(o))
  PROVE  IInv'
<1> USE Bounds, WorkerAssumption DEF IInv, TypeOK
<1>1. CASE Register
  BY <1>1, ComponentTypes DEF Register, Fresh, Counted, Broken, EndedByCrash, Components, watchdog, budget
<1>2. CASE Boot
  BY <1>2, ComponentTypes DEF Boot, Fresh, Counted, Broken, EndedByCrash, budget
<1>3. CASE BootFails
  BY <1>3 DEF BootFails, Fresh, Counted, Broken, EndedByCrash, watchdog, health, budget
<1>4. CASE Stop
  BY <1>4 DEF Stop, Fresh, Counted, Broken, EndedByCrash, budget, Observers, Callers
<1>5. CASE Stopped
  BY <1>5 DEF Stopped, Fresh, Counted, Broken, EndedByCrash, watchdog, health, budget, Callers
<1>6. ASSUME NEW w \in Workers, Crash(w) PROVE IInv'
  BY <1>6, ComponentTypes DEF Crash, Fresh, Counted, Broken, EndedByCrash, budget
<1>7. ASSUME NEW w \in Workers, Published(w) PROVE IInv'
  BY <1>7, ComponentTypes DEF Published, Fresh, Counted, Broken, EndedByCrash, budget
<1>8. ASSUME NEW w \in Workers, Respawn(w) PROVE IInv'
  BY <1>8 DEF Respawn, Fresh, Counted, Broken, EndedByCrash, health, budget
<1>9. ASSUME NEW o \in Observers, Ask(o) PROVE IInv'
  BY <1>9, ComponentTypes DEF Ask, Fresh, Counted, Broken, EndedByCrash, watchdog, budget
<1>10. ASSUME NEW o \in Observers, Answer(o) PROVE IInv'
  BY <1>10, ComponentTypes DEF Answer, Fresh, Counted, Broken, EndedByCrash, watchdog, budget
<1> QED BY <1>1, <1>2, <1>3, <1>4, <1>5, <1>6, <1>7, <1>8, <1>9, <1>10 DEF LifeStep

\* The window keeps its budget.
LEMMA WindowTypes ==
  ASSUME TypeOK
  PROVE  /\ Window.start \in 0..now /\ Window.count \in 0..MaxSpoken
         /\ WithinBudget => Window.count + 1 \in 0..MaxSpoken
<1> USE Bounds
<1>1. CASE now - start > Hour
  BY <1>1, TypeParts DEF Numbers, Window, WithinBudget
<1>2. CASE ~(now - start > Hour)
  BY <1>2, TypeParts DEF Numbers, Window, WithinBudget
<1> QED BY <1>1, <1>2

\* The engine, the sweep and time leave workers and statuses alone.
LEMMA EngineStep ==
  ASSUME IInv,
         Observe \/ (\E c \in Callers : Evaluate(c) \/ Delivered(c))
                 \/ Sweep \/ SetPaused \/ Tick
  PROVE  IInv'
<1> USE DEF IInv
<1>1. /\ UNCHANGED <<life, watchdog, health>>
      /\ Fresh' /\ Counted' /\ Broken' /\ EndedByCrash'
  BY DEF Observe, Evaluate, Delivered, Sweep, SetPaused, Tick, watchdog, health,
         Fresh, Counted, Broken, EndedByCrash
<1>2. Shapes /\ Numbers
  BY TypeParts
<1>3. cpc' \in [Callers -> {"off", "asleep", "observing", "publishing"}]
  BY <1>2 DEF Observe, Evaluate, Delivered, Sweep, SetPaused, Tick, Shapes, Callers
<1>4. upkeep' \subseteq Upkeep
  BY <1>2 DEF Observe, Evaluate, Delivered, Sweep, SetPaused, Tick, Shapes
<1>5. paused' \in BOOLEAN
  BY <1>2, Zenon DEF Observe, Evaluate, Delivered, Sweep, SetPaused, Tick, Shapes
<1>6. Shapes'
  BY <1>1, <1>2, <1>3, <1>4, <1>5 DEF Shapes, watchdog, health
<1>7. ASSUME NEW c \in Callers, Evaluate(c) PROVE Numbers'
  <2>1. now' = now /\ start' = Window.start
    BY <1>7 DEF Evaluate
  <2>2. count' \in 0..MaxSpoken /\ last' \in {last, now} /\ spoken' \subseteq spoken \cup {now}
    BY <1>2, <1>7, TypeParts, WindowTypes DEF Evaluate, MaySpeak
  <2>3. now \in -Spacing..now /\ now \in 0..now
    BY <1>2, Bounds DEF Numbers
  <2> QED BY <1>2, <2>1, <2>2, <2>3, TypeParts, WindowTypes DEF Numbers
<1>8. ASSUME UNCHANGED <<now, budget>> PROVE Numbers'
  BY <1>2, <1>8, Zenon DEF Numbers, budget
<1>9. ASSUME Tick PROVE Numbers'
  <2>1. now' \in 0..Horizon /\ 0..now \subseteq 0..now' /\ -Spacing..now \subseteq -Spacing..now'
    BY <1>2, <1>9, Bounds DEF Tick, Numbers
  <2>2. UNCHANGED budget
    BY <1>9 DEF Tick
  <2> QED BY <1>2, <2>1, <2>2 DEF Numbers, budget
<1>10. Numbers'
  BY <1>7, <1>8, <1>9 DEF Observe, Delivered, Sweep, SetPaused
<1> QED BY <1>1, <1>6, <1>10, TypePartsNext

LEMMA StepInv == IInv /\ [Next]_vars => IInv'
<1> SUFFICES ASSUME IInv, [Next]_vars PROVE IInv'
  OBVIOUS
<1>1. CASE UNCHANGED vars
  BY <1>1 DEF vars, watchdog, health, budget, IInv, TypeOK, Fresh, Counted, Broken, EndedByCrash
<1> QED BY <1>1, SupervisorStep, EngineStep DEF Next

LEMMA InvHolds == Spec => []IInv
BY InitInv, StepInv, PTL DEF Spec

-----------------------------------------------------------------------------
(* The budget of an hour.  Windows do not overlap and an hour meets two of *)
(* them at most; so it is enough to keep account of the current window and *)
(* of the hour before it.                                                  *)

Current(S, a) == {t \in S : a <= t}
Before(S, a)  == {t \in S : a - Hour <= t /\ t < a}
HourFrom(S, a) == {t \in S : a <= t /\ t < a + Hour}

\* n suggestions of S, the last at l, count in the window that began at a
Accounted(S, a, n, l) ==
  /\ \A t \in S : t <= l /\ t <= a + Hour
  /\ Cardinality(Current(S, a)) <= n
  /\ Cardinality(Before(S, a)) <= MaxSpoken

Sparse(S) ==
  /\ \A s, t \in S : s < t => t - s >= Spacing
  /\ \A s \in 0..Horizon : Cardinality(HourFrom(S, s)) <= 2 * MaxSpoken

BudgetInv == Accounted(spoken, start, count, last) /\ Sparse(spoken)

LEMMA Parts ==
  ASSUME NEW N \in Nat, NEW S \in SUBSET (0..N), NEW T \in SUBSET S
  PROVE  IsFiniteSet(T) /\ Cardinality(T) \in Nat
<1>1. IsFiniteSet(0..N) /\ T \subseteq 0..N
  BY FS_Interval
<1> QED BY <1>1, FS_Subset, FS_CardinalityType

\* A suggestion within the window: the hours that contain it meet this window
\* and the hour before it.
LEMMA Speaking ==
  ASSUME NEW N \in Nat, NEW S \in SUBSET (0..N), NEW a \in 0..N, NEW n \in Nat, NEW l \in Int,
         Accounted(S, a, n, l), Sparse(S), N <= a + Hour, n + 1 <= MaxSpoken, N - l >= Spacing
  PROVE  Accounted(S \cup {N}, a, n + 1, N) /\ Sparse(S \cup {N})
<1> USE Bounds
<1> DEFINE U == S \cup {N}
<1>1. Spacing > 0
  BY NumberAssumption
<1>2. \A t \in S : t \in Nat /\ t <= l /\ t <= a + Hour /\ t < N
  BY <1>1 DEF Accounted
<1>3. Current(U, a) = Current(S, a) \cup {N} /\ N \notin Current(S, a) /\ Before(U, a) = Before(S, a)
  BY <1>2 DEF Current, Before
<1>4. /\ IsFiniteSet(Current(S, a)) /\ Cardinality(Current(S, a)) \in Nat
      /\ IsFiniteSet(Before(S, a)) /\ Cardinality(Before(S, a)) \in Nat
  BY Parts DEF Current, Before
<1>5. IsFiniteSet(Current(U, a)) /\ Cardinality(Current(U, a)) = Cardinality(Current(S, a)) + 1
  <2>1. IsFiniteSet(Current(S, a)) /\ N \notin Current(S, a)
    BY <1>3, <1>4
  <2>2. /\ IsFiniteSet(Current(S, a) \cup {N})
        /\ Cardinality(Current(S, a) \cup {N}) = Cardinality(Current(S, a)) + 1
    BY <2>1, FS_AddElement
  <2> QED BY <1>3, <2>2
<1>6. Cardinality(Current(S, a)) <= n /\ Cardinality(Before(S, a)) <= MaxSpoken
  BY DEF Accounted
<1>7. Cardinality(Current(U, a)) <= n + 1
  BY <1>4, <1>5, <1>6
<1>8. \A t \in U : t <= N /\ t <= a + Hour
  BY <1>2
<1>9. Accounted(U, a, n + 1, N)
  BY <1>3, <1>6, <1>7, <1>8 DEF Accounted
<1>10. \A s, t \in U : s < t => t - s >= Spacing
  BY <1>2 DEF Sparse
<1>11. ASSUME NEW s \in 0..Horizon PROVE Cardinality(HourFrom(U, s)) <= 2 * MaxSpoken
  <2>1. CASE N \in HourFrom(U, s)
    <3>1. s <= N /\ N < s + Hour
      BY <2>1 DEF HourFrom
    <3>2. a - Hour <= s
      BY <3>1
    <3>3. \A t \in HourFrom(U, s) : t \in Before(U, a) \/ t \in Current(U, a)
      BY <1>2, <3>2 DEF Before, Current, HourFrom
    <3>4. HourFrom(U, s) \subseteq Before(S, a) \cup Current(U, a)
      BY <1>3, <3>3
    <3>5. ASSUME NEW t \in Before(S, a), t \in Current(U, a) PROVE FALSE
      BY <1>2, <3>5 DEF Before, Current
    <3>6. /\ IsFiniteSet(Before(S, a) \cup Current(U, a))
          /\ Cardinality(Before(S, a) \cup Current(U, a)) = Cardinality(Before(S, a)) + Cardinality(Current(U, a))
                                                           - Cardinality(Before(S, a) \cap Current(U, a))
      BY <1>4, <1>5, FS_Union
    <3>7. IsFiniteSet(HourFrom(U, s)) /\ Cardinality(HourFrom(U, s)) <= Cardinality(Before(S, a) \cup Current(U, a))
      BY <3>4, <3>6, FS_Subset
    <3>8. Cardinality(HourFrom(U, s)) \in Nat /\ Before(S, a) \cap Current(U, a) = {}
      BY <3>5, <3>7, FS_CardinalityType
    <3>9. Cardinality(Before(S, a) \cap Current(U, a)) = 0
      BY <3>8, FS_EmptySet
    <3> QED BY <1>4, <1>5, <1>6, <1>7, <3>6, <3>7, <3>8, <3>9
  <2>2. CASE N \notin HourFrom(U, s)
    <3>1. HourFrom(U, s) = HourFrom(S, s)
      BY <2>2 DEF HourFrom
    <3> QED BY <3>1 DEF Sparse
  <2> QED BY <2>1, <2>2
<1> QED BY <1>9, <1>10, <1>11 DEF Sparse

\* A window that begins anew: all that was said lies before it, and what the
\* last hour had belongs to the window that ended.
LEMMA Turning ==
  ASSUME NEW N \in Nat, NEW S \in SUBSET (0..N), NEW a \in 0..N, NEW n \in 0..MaxSpoken,
         NEW l \in Int, Accounted(S, a, n, l), N - a > Hour
  PROVE  Accounted(S, N, 0, l)
<1> USE Bounds
<1>1. \A t \in S : t \in Nat /\ t <= l /\ t <= a + Hour /\ t < N
  BY DEF Accounted
<1>2. Current(S, N) = {} /\ Before(S, N) \subseteq Current(S, a)
  <2>1. ASSUME NEW t \in Current(S, N) PROVE FALSE
    BY <1>1 DEF Current
  <2>2. ASSUME NEW t \in Before(S, N) PROVE t \in Current(S, a)
    BY <1>1 DEF Current, Before
  <2> QED BY <2>1, <2>2
<1>3. IsFiniteSet(Current(S, a)) /\ Cardinality(Current(S, a)) \in Nat /\ Cardinality(Current(S, a)) <= n
  BY Parts DEF Current, Accounted
<1>4. Cardinality(Before(S, N)) <= Cardinality(Current(S, a)) /\ Cardinality(Before(S, N)) \in Nat
  BY <1>2, <1>3, FS_Subset, FS_CardinalityType
<1>5. Cardinality(Current(S, N)) <= 0
  BY <1>2, FS_EmptySet
<1>6. Cardinality(Before(S, N)) <= MaxSpoken
  BY <1>3, <1>4
<1>7. \A t \in S : t <= l /\ t <= N + Hour
  BY <1>1
<1> QED BY <1>5, <1>6, <1>7 DEF Accounted

LEMMA InitBudget == Init => BudgetInv
<1> SUFFICES ASSUME Init PROVE BudgetInv
  OBVIOUS
<1>1. spoken = {} /\ count = 0 /\ Cardinality({}) = 0
  BY FS_EmptySet DEF Init
<1>2. Current(spoken, start) = {} /\ Before(spoken, start) = {} /\ \A s \in 0..Horizon : HourFrom(spoken, s) = {}
  BY <1>1 DEF Current, Before, HourFrom
<1>3. Accounted(spoken, start, count, last)
  BY <1>1, <1>2, Bounds DEF Accounted
<1>4. Sparse(spoken)
  BY <1>1, <1>2, Bounds DEF Sparse
<1> QED BY <1>3, <1>4 DEF BudgetInv

LEMMA StepBudget == IInv /\ BudgetInv /\ [Next]_vars => BudgetInv'
<1> SUFFICES ASSUME IInv, BudgetInv, [Next]_vars PROVE BudgetInv'
  OBVIOUS
<1>1. CASE UNCHANGED budget
  BY <1>1 DEF budget, BudgetInv
<1>2. ASSUME NEW c \in Callers, Evaluate(c) PROVE BudgetInv'
  <2>1. Numbers
    BY TypeParts DEF IInv
  <2>2. /\ now \in Nat /\ spoken \in SUBSET (0..now) /\ start \in 0..now
        /\ count \in 0..MaxSpoken /\ last \in Int
    BY <2>1, Bounds DEF Numbers
  <2>3. /\ Window.start \in 0..now /\ Window.count \in 0..MaxSpoken /\ now <= Window.start + Hour
        /\ Accounted(spoken, Window.start, Window.count, last)
    <3>1. CASE now - start > Hour
      <4>1. Accounted(spoken, now, 0, last)
        BY <2>2, <3>1, Turning DEF BudgetInv
      <4>2. Window.start = now /\ Window.count = 0
        BY <3>1 DEF Window
      <4> QED BY <2>2, <4>1, <4>2, Bounds
    <3>2. CASE ~(now - start > Hour)
      <4>1. Window.start = start /\ Window.count = count
        BY <3>2 DEF Window
      <4> QED BY <2>2, <3>2, <4>1, Bounds DEF BudgetInv
    <3> QED BY <3>1, <3>2
  <2>4. PICK a \in 0..now, n \in 0..MaxSpoken : a = Window.start /\ n = Window.count
    BY <2>3
  <2>5. CASE /\ spoken' = spoken \cup {now} /\ last' = now /\ count' = n + 1 /\ start' = a
             /\ now - last >= Spacing /\ n < MaxSpoken
    <3>1. n \in Nat /\ n + 1 <= MaxSpoken
      BY <2>5, Bounds
    <3> QED BY <2>2, <2>3, <2>4, <2>5, <3>1, Speaking DEF BudgetInv
  <2>6. CASE spoken' = spoken /\ last' = last /\ count' = n /\ start' = a
    BY <2>3, <2>4, <2>6 DEF BudgetInv
  <2> QED BY <1>2, <2>4, <2>5, <2>6 DEF Evaluate, MaySpeak, WithinBudget
<1>3. ASSUME NEW w \in Workers, Crash(w) \/ Published(w) \/ Respawn(w) PROVE UNCHANGED budget
  BY <1>3 DEF Crash, Published, Respawn
<1>4. ASSUME NEW o \in Observers, Ask(o) \/ Answer(o) PROVE UNCHANGED budget
  BY <1>4 DEF Ask, Answer
<1>5. ASSUME LifeStep \/ Observe \/ (\E c \in Callers : Delivered(c)) \/ Sweep \/ SetPaused \/ Tick
             \/ UNCHANGED vars
      PROVE  UNCHANGED budget
  BY <1>5 DEF LifeStep, Register, Boot, BootFails, Stop, Stopped, Observe, Delivered, Sweep,
              SetPaused, Tick, vars
<1> QED BY <1>1, <1>2, <1>3, <1>4, <1>5 DEF Next

\* Suggestions are a spacing apart and no hour, wherever it begins, has more
\* than twice the budget, for any budget, hour and spacing, with two callers.
THEOREM BudgetKept == Spec => []SlidingBudget
<1>1. BudgetInv => SlidingBudget
  BY DEF BudgetInv, Sparse, HourFrom, SlidingBudget
<1> QED BY <1>1, InvHolds, InitBudget, StepBudget, PTL DEF Spec

-----------------------------------------------------------------------------
\* The variables keep their types: restarts stay within their limit and the
\* count of suggestions within the budget, for any workers and budgets.
THEOREM SupervisionTypes == Spec => []TypeOK
BY InvHolds, PTL DEF IInv

\* A worker the watchdog gave up is never shown as well.
THEOREM HealthIsHonest == Spec => []HonestHealth
<1>1. IInv => HonestHealth
  BY DEF IInv, Broken, EndedByCrash, HonestHealth
<1> QED BY <1>1, InvHolds, PTL
=============================================================================
