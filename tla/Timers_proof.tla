---------------------------- MODULE Timers_proof ----------------------------
(***************************************************************************)
(* Theorems about Timers, for a counter of any width and any number of     *)
(* timers.                                                                 *)
(***************************************************************************)
EXTENDS Timers, FiniteSetTheorems, WellFoundedInduction, TLAPS

-----------------------------------------------------------------------------
(***************************************************************************)
(* Arithmetic of the counter.                                              *)
(***************************************************************************)
\* Sums and differences of counter values are counter values, exact but for a
\* turn of the counter.
LEMMA PlusMinusFacts ==
    ASSUME NEW a \in 0..UMax, NEW b \in 0..UMax
    PROVE  /\ Plus(a, b) \in 0..UMax
           /\ Plus(a, b) - a - b \in {0, -(UMax + 1)}
           /\ Minus(a, b) \in 0..UMax
           /\ Minus(a, b) - (a - b) \in {0, UMax + 1}
           /\ Plus(a, b) = IF a + b > UMax THEN a + b - (UMax + 1) ELSE a + b
           /\ Minus(a, b) = IF b > a THEN a - b + (UMax + 1) ELSE a - b
BY TimersAssumption DEF Plus, Minus

\* timerDelta() is the distance the counter has moved on, less one if it
\* turned.
LEMMA DeltaFacts ==
    ASSUME NEW a \in 0..UMax, NEW b \in 0..UMax
    PROVE  /\ TimerDelta(a, b) \in 0..UMax
           /\ a <= b => TimerDelta(a, b) = Minus(b, a)
           /\ a > b => TimerDelta(a, b) = Minus(b, a) - 1
BY TimersAssumption DEF TimerDelta, Minus

\* Whole seconds and the rest of a second.
LEMMA DivisionFacts ==
    ASSUME NEW n \in Nat
    PROVE  /\ n \div Tps \in Nat
           /\ Rest(n) \in 0..(Tps - 1)
           /\ n = Tps * (n \div Tps) + Rest(n)
           /\ Tps * (n \div Tps) \in Nat
           /\ n \div Tps > 0 => Tps * (n \div Tps) >= Tps
BY TimersAssumption DEF Rest

-----------------------------------------------------------------------------
(***************************************************************************)
(* The inductive invariant.                                                *)
(***************************************************************************)
\* The counter starts anywhere, with nothing armed and nothing to count.
LEMMA InvInit == Init => IInv
<1> SUFFICES ASSUME Init PROVE IInv
  OBVIOUS
<1>1. TypeOK
  BY TimersAssumption DEF Init, TypeOK, Nothing
<1>2. DeadlineHeld
  BY DEF Init, DeadlineHeld
<1>3. ClockHeld
  <2>1. Minus(ticks, polled) = 0
    BY TimersAssumption DEF Init, Minus
  <2>2. QED
    BY <2>1 DEF Init, ClockHeld
<1>4. QED
  BY <1>1, <1>2, <1>3 DEF IInv

\* A timer that is no longer armed keeps its deadline.
LEMMA DisarmFacts ==
    ASSUME TypeOK, NEW t \in Timer
    PROVE  [timers EXCEPT ![t].armed = FALSE]
             \in [Timer -> [armed : BOOLEAN, time : 0..UMax]]
<1>1. timers[t] \in [armed : BOOLEAN, time : 0..UMax]
  BY DEF TypeOK
<1>2. [timers[t] EXCEPT !.armed = FALSE] \in [armed : BOOLEAN, time : 0..UMax]
  BY <1>1
<1>3. QED
  BY <1>2 DEF TypeOK

\* Setting, checking and clearing timers keep their deadlines, and leave the
\* clock alone.
LEMMA TimersStep ==
    ASSUME IInv, NEW t \in Timer, TimerSet(t) \/ TimerCheck(t) \/ TimerClear(t)
    PROVE  IInv'
<1> USE TimersAssumption DEF IInv, clock, history
<1>1. CASE TimerSet(t)
  <2>1. PICK d \in Timeouts :
          /\ timers' = [timers EXCEPT ![t] = [armed |-> TRUE,
                                              time |-> Plus(ticks, d)]]
          /\ left' = [left EXCEPT ![t] = d]
          /\ fired' = Nothing
          /\ UNCHANGED <<ticks, clock, wraps>>
    BY <1>1 DEF TimerSet
  <2>2. d \in 0..IMax /\ d \in 0..UMax
    OBVIOUS
  <2>3. Plus(ticks, d) \in 0..UMax /\ Plus(ticks, d) - ticks - d \in {0, -(UMax + 1)}
    BY <2>2, PlusMinusFacts DEF TypeOK
  <2>4. TypeOK'
    BY <2>1, <2>2, <2>3 DEF TypeOK, Nothing
  <2>5. DeadlineHeld'
    BY <2>1, <2>2, <2>3 DEF TypeOK, DeadlineHeld
  <2>6. ClockHeld'
    BY <2>1 DEF ClockHeld
  <2>7. QED
    BY <2>4, <2>5, <2>6
<1>2. CASE TimerCheck(t)
  <2>1. TimerDelta(timers[t].time, ticks) \in 0..UMax
    BY DeltaFacts DEF TypeOK
  <2>2. TypeOK'
    BY <1>2, <2>1, DisarmFacts DEF TimerCheck, TypeOK, Nothing
  <2>3. DeadlineHeld'
    BY <1>2 DEF TimerCheck, TypeOK, DeadlineHeld
  <2>4. ClockHeld'
    BY <1>2 DEF TimerCheck, ClockHeld
  <2>5. QED
    BY <2>2, <2>3, <2>4
<1>3. CASE TimerClear(t)
  <2>1. TypeOK'
    BY <1>3, DisarmFacts DEF TimerClear, TypeOK, Nothing
  <2>2. DeadlineHeld'
    BY <1>3 DEF TimerClear, TypeOK, DeadlineHeld
  <2>3. ClockHeld'
    BY <1>3 DEF TimerClear, ClockHeld
  <2>4. QED
    BY <2>1, <2>2, <2>3
<1>4. QED
  BY <1>1, <1>2, <1>3

\* Polling the seconds counter loses at most one tick, and only past a turn.
LEMMA TimeNowStep == ASSUME IInv, TimeNow PROVE IInv'
<1> DEFINE since == TimerDelta(polled, ticks)
           secs == since \div Tps
           rest == Rest(since)
<1> USE TimersAssumption DEF IInv
<1> polled \in 0..UMax /\ ticks \in 0..UMax /\ behind \in Int /\ wraps \in Nat
  BY DEF TypeOK
<1>1. since \in 0..UMax /\ since \in Nat
  BY DeltaFacts
<1>2. secs \in Nat /\ rest \in 0..(Tps - 1) /\ since = Tps * secs + rest
  BY <1>1, DivisionFacts
<1>3. Tps * secs \in Nat /\ (secs > 0 => Tps * secs >= Tps)
  BY <1>1, DivisionFacts
<1>4. rest \in 0..UMax
  BY <1>1, <1>2, <1>3
<1>5. CASE secs > 0
  <2>1. /\ polled' = Minus(ticks, rest)
        /\ behind' = behind - Tps * secs
        /\ fired' = Nothing
        /\ UNCHANGED <<ticks, timers, left, wraps>>
    BY <1>5 DEF TimeNow, history
  <2>2. Minus(ticks, rest) \in 0..UMax
    BY <1>4, PlusMinusFacts DEF TypeOK
  <2>3. TypeOK'
    BY <2>1, <2>2, <1>3 DEF TypeOK, Nothing
  <2>4. DeadlineHeld'
    BY <2>1 DEF DeadlineHeld
  <2>5. Minus(ticks, Minus(ticks, rest)) = rest
    BY <1>4, <2>2 DEF Minus, TypeOK
  <2>6. Minus(ticks, polled) = since + (IF ticks < polled THEN 1 ELSE 0)
    BY DEF TimerDelta, Minus
  <2>7. behind' - Minus(ticks, polled')
          = behind - Minus(ticks, polled) + (IF ticks < polled THEN 1 ELSE 0)
    <3> DEFINE counted == Tps * secs
    <3>1. counted \in Int /\ since = counted + rest /\ rest \in Int
      BY <1>2, <1>3
    <3>2. behind' = behind - counted /\ Minus(ticks, polled') = rest
      BY <2>1, <2>5
    <3> HIDE DEF counted, since, rest
    <3>3. QED
      BY <3>1, <3>2, <2>6
  <2>8. ticks < polled' => UMax - polled' < Tps - 1
    BY <2>1, <1>2, <1>4 DEF Minus, TypeOK
  <2>9. ticks < polled' /\ ticks < polled => UMax - polled >= Tps - 1
    <3> SUFFICES ASSUME ticks < polled', ticks < polled
                 PROVE  UMax - polled >= Tps - 1
      OBVIOUS
    <3>1. rest > ticks
      BY <2>1, <1>4 DEF Minus
    <3>2. since = UMax - polled + ticks
      BY DEF TimerDelta
    <3>3. Tps * secs >= Tps
      BY <1>3, <1>5
    <3>4. QED
      BY <3>1, <3>2, <3>3, <1>2, <1>3
  <2>10. ticks >= polled => ticks >= polled'
    <3> SUFFICES ASSUME ticks >= polled PROVE ticks >= polled'
      OBVIOUS
    <3>1. since = ticks - polled
      BY DEF TimerDelta
    <3>2. rest <= ticks
      BY <3>1, <1>2, <1>3
    <3>3. QED
      BY <2>1, <3>2, <1>4 DEF Minus
  <2>11. ClockHeld'
    <3> DEFINE lost == behind - Minus(ticks, polled)
               lostN == behind' - Minus(ticks, polled')
    <3>1. lostN = lost + (IF ticks < polled THEN 1 ELSE 0)
      BY <2>7
    <3>2. lost \in 0..(IF ticks >= polled THEN 2 * wraps
                       ELSE IF UMax - polled < Tps - 1 THEN 2 * wraps - 1
                       ELSE 2 * wraps - 2)
      BY DEF ClockHeld
    <3>3. polled' \in 0..UMax /\ ticks' = ticks /\ wraps' = wraps
      BY <2>1, <2>2
    <3> HIDE DEF lost, lostN, since, rest, secs
    <3>4. lostN \in 0..(IF ticks >= polled' THEN 2 * wraps
                       ELSE IF UMax - polled' < Tps - 1 THEN 2 * wraps - 1
                       ELSE 2 * wraps - 2)
      <4>1. CASE ticks >= polled
        BY <4>1, <3>1, <3>2, <2>10
      <4>2. CASE ticks < polled /\ ticks >= polled'
        BY <4>2, <3>1, <3>2
      <4>3. CASE ticks < polled /\ ticks < polled'
        BY <4>3, <3>1, <3>2, <3>3, <2>8, <2>9
      <4>4. ticks >= polled \/ ticks < polled
        OBVIOUS
      <4>5. ticks >= polled' \/ ticks < polled'
        BY <3>3
      <4>6. QED
        BY <4>1, <4>2, <4>3, <4>4, <4>5, Zenon
    <3>5. QED
      BY <3>3, <3>4 DEF ClockHeld, lostN
  <2>12. QED
    BY <2>3, <2>4, <2>11
<1>6. CASE ~(secs > 0)
  <2>1. UNCHANGED <<ticks, timers, polled, behind, left, wraps>> /\ fired' = Nothing
    BY <1>6 DEF TimeNow, history, clock
  <2>2. QED
    BY <2>1 DEF TypeOK, DeadlineHeld, ClockHeld, Nothing
<1>7. QED
  BY <1>5, <1>6

\* Time passes: every armed timer comes a tick nearer.
LEMMA TickStep == ASSUME IInv, Tick PROVE IInv'
<1> USE TimersAssumption DEF IInv
<1> ticks \in 0..UMax /\ polled \in 0..UMax /\ behind \in Int /\ wraps \in Nat
  BY DEF TypeOK
<1>1. ticks' = IF ticks = UMax THEN 0 ELSE ticks + 1
  BY DEF Tick, Plus
<1>2. TypeOK'
  <2>1. ticks' \in 0..UMax
    BY <1>1
  <2>2. left' \in [Timer -> Int] /\ wraps' \in Nat /\ behind' \in Int
    BY DEF Tick, TypeOK
  <2>3. fired' \in [timer : SUBSET Timer, error : 0..UMax]
    BY DEF Tick, Nothing
  <2>4. UNCHANGED <<timers, polled>>
    BY DEF Tick
  <2>5. QED
    BY <2>1, <2>2, <2>3, <2>4 DEF TypeOK
<1>3. DeadlineHeld'
  <2> SUFFICES ASSUME NEW t \in Timer, timers'[t].armed
               PROVE  /\ left'[t] \in (-MaxLate)..IMax
                      /\ timers'[t].time - ticks' - left'[t]
                           \in {0, UMax + 1, -(UMax + 1)}
    BY DEF DeadlineHeld
  <2>1. timers' = timers /\ left'[t] = left[t] - 1 /\ left[t] > -MaxLate
    BY DEF Tick, TypeOK
  <2>2. /\ left[t] \in (-MaxLate)..IMax
        /\ timers[t].time - ticks - left[t] \in {0, UMax + 1, -(UMax + 1)}
    BY <2>1 DEF DeadlineHeld
  <2>3. timers[t].time \in 0..UMax /\ left[t] \in Int
    BY DEF TypeOK
  <2>4. QED
    BY <1>1, <2>1, <2>2, <2>3
<1>4. ClockHeld'
  <2>1. /\ polled' = polled /\ behind' = behind + 1
        /\ wraps' = IF ticks = UMax THEN wraps + 1 ELSE wraps
        /\ Minus(ticks, polled) < MaxPoll
    BY DEF Tick
  <2>2. Minus(ticks', polled) = Minus(ticks, polled) + 1
    BY <1>1, <2>1 DEF Minus
  <2>3. Minus(ticks, polled) \in Int
    BY DEF Minus
  <2>4. behind' - Minus(ticks', polled') = behind - Minus(ticks, polled)
    BY <2>1, <2>2, <2>3
  <2>5. QED
    BY <1>1, <2>1, <2>4 DEF ClockHeld
<1>5. QED
  BY <1>2, <1>3, <1>4

\* The inductive invariant holds for a counter of any width, any number of
\* timers, and any number of its turns.
THEOREM InvariantHolds == Spec => []IInv
<1>1. IInv /\ [Next]_vars => IInv'
  <2>1. CASE Next
    BY <2>1, TimersStep, TimeNowStep, TickStep DEF Next
  <2>2. CASE UNCHANGED vars
    BY <2>2 DEF vars, clock, history, IInv, TypeOK, DeadlineHeld, ClockHeld, Minus
  <2>3. QED
    BY <2>1, <2>2
<1>2. QED
  BY <1>1, InvInit, PTL DEF Spec

-----------------------------------------------------------------------------
(***************************************************************************)
(* What follows from it.                                                   *)
(***************************************************************************)
\* What timerDelta() finds for an armed timer: the distance to its deadline,
\* seen from behind it or from ahead of it.
LEMMA ArmedFacts ==
    ASSUME IInv, NEW t \in Timer, timers[t].armed
    PROVE  LET delta == TimerDelta(timers[t].time, ticks) IN
           /\ left[t] \in (-MaxLate)..IMax
           /\ left[t] <= 0 => -left[t] - delta \in {0, 1}
           /\ left[t] > 0 => delta > IMax
           /\ left[t] > 0 => left[t] - TimerDelta(ticks, timers[t].time) \in {0, 1}
<1>1. /\ left[t] \in (-MaxLate)..IMax
      /\ timers[t].time - ticks - left[t] \in {0, UMax + 1, -(UMax + 1)}
      /\ timers[t].time \in 0..UMax /\ ticks \in 0..UMax
  BY DEF IInv, TypeOK, DeadlineHeld
<1>2. QED
  BY <1>1, TimersAssumption DEF TimerDelta

\* timerCheck() finds a timer expired exactly when its deadline has passed.
THEOREM FiresOnTime == Spec => []FiresWhenDue
<1>1. IInv => FiresWhenDue
  <2> SUFFICES ASSUME IInv, NEW t \in Timer, timers[t].armed
               PROVE  TimerDelta(timers[t].time, ticks) < IMax <=> left[t] <= 0
    BY DEF FiresWhenDue, Expired
  <2>1. TimerDelta(timers[t].time, ticks) \in 0..UMax
    BY DeltaFacts DEF IInv, TypeOK
  <2>2. QED
    BY <2>1, ArmedFacts, TimersAssumption
<1>2. QED
  BY <1>1, InvariantHolds, PTL

\* The seconds counter keeps up with the clock.
THEOREM ClockCorrect == Spec => []ClockKeepsUp
<1>1. IInv => ClockKeepsUp
  <2> SUFFICES ASSUME IInv PROVE ClockKeepsUp
    OBVIOUS
  <2>0. ticks \in 0..UMax /\ polled \in 0..UMax /\ behind \in Int /\ wraps \in Nat
    BY DEF IInv, TypeOK
  <2>1. Minus(ticks, polled) \in Nat
    BY <2>0, TimersAssumption DEF Minus
  <2>2. behind - Minus(ticks, polled) \in 0..(2 * wraps)
    BY <2>0, <2>1 DEF IInv, ClockHeld
  <2>3. QED
    BY <2>0, <2>1, <2>2 DEF ClockKeepsUp
<1>2. QED
  BY <1>1, InvariantHolds, PTL

\* The error reported to the receive windows is exact but for one tick.
THEOREM ErrorCorrect == Spec => ErrorNearlyExact
<1>1. IInv /\ [Next]_vars
        => [\A t \in Timer : t \in fired'.timer =>
               -left[t] - fired'.error \in {0, 1}]_vars
  <2> SUFFICES ASSUME IInv, Next, NEW t \in Timer, t \in fired'.timer
               PROVE  -left[t] - fired'.error \in {0, 1}
    OBVIOUS
  <2>1. PICK u \in Timer : TimerCheck(u) /\ Expired(u)
    BY DEF Next, TimerSet, TimerCheck, TimerClear, TimeNow, Tick, Nothing
  <2>2. t = u /\ fired'.error = TimerDelta(timers[t].time, ticks)
    BY <2>1 DEF TimerCheck, Nothing
  <2>3. timers[t].armed /\ TimerDelta(timers[t].time, ticks) < IMax
    BY <2>1, <2>2 DEF Expired
  <2>4. TimerDelta(timers[t].time, ticks) \in 0..UMax
    BY DeltaFacts DEF IInv, TypeOK
  <2>5. QED
    BY <2>2, <2>3, <2>4, ArmedFacts, TimersAssumption
<1>2. QED
  BY <1>1, InvariantHolds, PTL DEF Spec, ErrorNearlyExact

-----------------------------------------------------------------------------
(***************************************************************************)
(* The time until the next deadline.                                       *)
(***************************************************************************)
\* A set of counter values has a least one: the parts of it that lie below a
\* member are finite, and one of them is contained in no other.
LEMMA LeastExists ==
    ASSUME NEW S \in SUBSET (0..UMax), S # {}
    PROVE  \E n \in S : \A m \in S : n <= m
<1> DEFINE Below(n) == {m \in S : m <= n}
           Parts == {Below(n) : n \in S}
           All == 0..UMax
<1>1. IsFiniteSet(All)
  BY FS_Interval, TimersAssumption
<1>2. IsWellFoundedOn(StrictSubsetOrdering(All), SUBSET All)
  BY <1>1, FS_StrictSubsetOrderingWellFounded, FS_FiniteSubsetsOfFinite
<1>3. Parts \subseteq SUBSET All /\ Parts # {}
  OBVIOUS
<1>4. PICK P \in Parts : \A Q \in Parts : ~(<<Q, P>> \in StrictSubsetOrdering(All))
  <2> HIDE DEF Parts, All
  <2>1. QED
    BY <1>2, <1>3, WFMin
<1>5. PICK n \in S : P = Below(n)
  OBVIOUS
<1>6. ASSUME NEW m \in S, ~(n <= m) PROVE FALSE
  <2>1. m \in Int /\ n \in Int /\ \A k \in S : k \in Int
    BY TimersAssumption
  <2>2. n \in Below(n) /\ n \notin Below(m)
    BY <1>6, <2>1
  <2>3. Below(m) \subseteq Below(n)
    <3>1. \A k \in S : k <= m => k <= n
      BY <1>6, <2>1
    <3>2. QED
      BY <3>1
  <2>4. Below(m) \in SUBSET All /\ Below(n) \in SUBSET All
    OBVIOUS
  <2>5. <<Below(m), Below(n)>> \in StrictSubsetOrdering(All)
    <3> HIDE DEF Below, All
    <3>1. QED
      BY <2>2, <2>3, <2>4 DEF StrictSubsetOrdering
  <2>6. Below(m) \in Parts
    OBVIOUS
  <2>7. QED
    BY <1>4, <1>5, <2>5, <2>6
<1>7. QED
  BY <1>6

\* The time until an armed timer expires is a counter value.
LEMMA TicksUntilType ==
    ASSUME TypeOK, NEW t \in Timer
    PROVE  TicksUntil(t) \in 0..UMax
<1>1. timers[t].time \in 0..UMax /\ ticks \in 0..UMax
  BY DEF TypeOK
<1>2. TimerDelta(ticks, timers[t].time) \in 0..UMax
  BY <1>1, DeltaFacts
<1>3. QED
  BY <1>2, TimersAssumption DEF TicksUntil

\* The least time until an armed timer expires is no more than any of them.
LEMMA NextFacts ==
    ASSUME IInv, NEW t \in Timer, timers[t].armed
    PROVE  TicksUntilNext <= TicksUntil(t) /\ TicksUntilNext \in Int
<1> DEFINE Armed == {u \in Timer : timers[u].armed}
           Times == {TicksUntil(u) : u \in Armed}
<1>1. \A u \in Armed : TicksUntil(u) \in 0..UMax
  BY TicksUntilType DEF IInv
<1>2. Times \in SUBSET (0..UMax) /\ Times # {}
  BY <1>1
<1>3. \E n \in Times : \A m \in Times : n <= m
  BY <1>2, LeastExists
<1>4. \E n \in Times : \A u \in Timer : timers[u].armed => n <= TicksUntil(u)
  BY <1>3
<1>5. TicksUntilNext = CHOOSE n \in Times :
                          \A u \in Timer : timers[u].armed => n <= TicksUntil(u)
  BY DEF TicksUntilNext
<1>6. TicksUntilNext \in Times /\ TicksUntilNext <= TicksUntil(t)
  BY <1>4, <1>5
<1>7. QED
  BY <1>2, <1>6, TimersAssumption

\* A main loop that sleeps for LDL_MAC_timerTicksUntilNext() ticks is awake at
\* every deadline.
THEOREM WakesInTime == Spec => []NeverOversleeps
<1>1. IInv => NeverOversleeps
  <2> SUFFICES ASSUME IInv, NEW t \in Timer, timers[t].armed
               PROVE  TicksUntilNext <= IF left[t] > 0 THEN left[t] ELSE 0
    BY DEF NeverOversleeps
  <2>1. /\ TimerDelta(timers[t].time, ticks) \in 0..UMax
        /\ TimerDelta(ticks, timers[t].time) \in 0..UMax
        /\ left[t] \in (-MaxLate)..IMax
    <3>1. timers[t].time \in 0..UMax /\ ticks \in 0..UMax
      BY DEF IInv, TypeOK
    <3>2. QED
      BY <3>1, DeltaFacts, ArmedFacts
  <2>2. TicksUntil(t) <= IF left[t] > 0 THEN left[t] ELSE 0
    BY <2>1, ArmedFacts, TimersAssumption DEF TicksUntil
  <2>3. TicksUntil(t) \in Int /\ left[t] \in Int
    BY TicksUntilType, TimersAssumption DEF IInv, TypeOK
  <2>4. TicksUntilNext <= TicksUntil(t) /\ TicksUntilNext \in Int
    BY NextFacts
  <2>5. QED
    BY <2>2, <2>3, <2>4
<1>2. QED
  BY <1>1, InvariantHolds, PTL
=============================================================================
