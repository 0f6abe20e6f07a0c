------------------------------- MODULE Timers -------------------------------
(***************************************************************************)
(* The deadlines and the seconds counter of src/ldl_mac.c on a free        *)
(* running, wrapping tick counter: LDL_MAC_timerSet(), timerCheck(),       *)
(* timerClear(), timerTicksUntilNext(), timerDelta() and timeNow().        *)
(*                                                                         *)
(* The counter has values 0..UMax; the code's are 32 bits wide.  Mac uses  *)
(* timers by the time left; here is what that time is made of.             *)
(***************************************************************************)
EXTENDS Integers

CONSTANTS
    UMax,      \* UINT32_MAX
    IMax,      \* INT32_MAX
    Timer,     \* the timers (LDL_TIMER_MAX of them)
    Timeouts,  \* intervals timers are set for
    MaxLate,   \* ticks between a deadline and the check that finds it
    Tps,       \* ticks per second
    MaxPoll,   \* ticks between two calls of timeNow()
    MaxWraps   \* bound: times the counter wraps in a run

ASSUME TimersAssumption ==
    /\ IMax \in Nat \ {0} /\ UMax = 2 * IMax + 1
    /\ Timeouts \subseteq 0..IMax
    /\ MaxLate \in 0..(IMax - 1)
    /\ Tps \in Nat \ {0}
    /\ MaxPoll \in 0..(UMax - 1)
    /\ MaxWraps \in Nat

VARIABLES
    ticks,    \* LDL_System_ticks()
    timers,   \* self->timers
    polled,   \* self->polled_time_ticks
    behind,   \* self->time, held as the ticks elapsed that it has not counted
    fired,    \* what the last step's timerCheck() returned
    left,     \* history: ticks until each timer's deadline
    wraps     \* history: times the counter wrapped

clock   == <<polled, behind>>
history == <<left, wraps>>
vars    == <<ticks, timers, clock, fired, history>>

-----------------------------------------------------------------------------
\* Addition and subtraction of counter values.
Plus(a, b)  == IF a + b > UMax THEN a + b - (UMax + 1) ELSE a + b
Minus(a, b) == IF b > a THEN a - b + (UMax + 1) ELSE a - b

\* Defect: both arguments the wrong way round.
TimerDeltaMutant(timeout, now) ==
    IF now <= timeout THEN timeout - now ELSE UMax - now + timeout

\* Ticks since timeout; one less if the counter wrapped in between.
TimerDelta(timeout, now) ==
    IF timeout <= now THEN now - timeout ELSE UMax - timeout + now

Expired(t) == timers[t].armed /\ TimerDelta(timers[t].time, ticks) < IMax

\* LDL_MAC_timerTicksUntil() for an armed timer.
TicksUntil(t) == IF TimerDelta(timers[t].time, ticks) <= IMax
                   THEN 0
                   ELSE TimerDelta(ticks, timers[t].time)

\* Defect: the timers are not compared, the last one is taken.
TicksUntilNextMutant ==
    IF \E t \in Timer : timers[t].armed
      THEN TicksUntil(CHOOSE t \in Timer : timers[t].armed)
      ELSE UMax

\* LDL_MAC_timerTicksUntilNext(): the least of them, UINT32_MAX if none is
\* armed.
TicksUntilNext ==
    IF \E t \in Timer : timers[t].armed
      THEN CHOOSE n \in {TicksUntil(t) : t \in {u \in Timer : timers[u].armed}} :
               \A t \in Timer : timers[t].armed => n <= TicksUntil(t)
      ELSE UMax

-----------------------------------------------------------------------------
Nothing == [timer |-> {}, error |-> 0]

\* LDL_MAC_init(): the counter runs already.
Init ==
    /\ ticks \in 0..UMax
    /\ timers = [t \in Timer |-> [armed |-> FALSE, time |-> 0]]
    /\ polled = ticks /\ behind = 0
    /\ fired = Nothing
    /\ left = [t \in Timer |-> 0] /\ wraps = 0

TimerSet(t) ==
    \E timeout \in Timeouts :
        /\ timers' = [timers EXCEPT ![t] = [armed |-> TRUE,
                                            time |-> Plus(ticks, timeout)]]
        /\ left' = [left EXCEPT ![t] = timeout]
        /\ fired' = Nothing
        /\ UNCHANGED <<ticks, clock, wraps>>

TimerCheck(t) ==
    /\ \/ /\ Expired(t)
          /\ timers' = [timers EXCEPT ![t].armed = FALSE]
          /\ left' = [left EXCEPT ![t] = 0]
          /\ fired' = [timer |-> {t},
                       error |-> TimerDelta(timers[t].time, ticks)]
       \/ /\ ~Expired(t)
          /\ fired' = Nothing
          /\ UNCHANGED <<timers, left>>
    /\ UNCHANGED <<ticks, clock, wraps>>

TimerClear(t) ==
    /\ timers' = [timers EXCEPT ![t].armed = FALSE]
    /\ left' = [left EXCEPT ![t] = 0]
    /\ fired' = Nothing
    /\ UNCHANGED <<ticks, clock, wraps>>

\* Defect: the part of a second that has passed is dropped.
RestMutant(since) == 0

\* The part of a second that has passed stays for the next call.
Rest(since) == since % Tps

TimeNow ==
    LET since == TimerDelta(polled, ticks) IN
    /\ IF since \div Tps > 0
         THEN /\ polled' = Minus(ticks, Rest(since))
              /\ behind' = behind - Tps * (since \div Tps)
         ELSE UNCHANGED clock
    /\ fired' = Nothing
    /\ UNCHANGED <<ticks, timers, history>>

\* Time passes, as long as no armed timer is overdue and the seconds counter
\* was polled: LDL_MAC_process() does both, and is called at least once a
\* minute.
Tick ==
    /\ \A t \in Timer : timers[t].armed => left[t] > -MaxLate
    /\ Minus(ticks, polled) < MaxPoll
    /\ ticks = UMax => wraps < MaxWraps
    /\ ticks' = Plus(ticks, 1)
    /\ wraps' = IF ticks = UMax THEN wraps + 1 ELSE wraps
    /\ left' = [t \in Timer |-> IF timers[t].armed THEN left[t] - 1 ELSE left[t]]
    /\ behind' = behind + 1
    /\ fired' = Nothing
    /\ UNCHANGED <<timers, polled>>

Next == \/ \E t \in Timer : TimerSet(t) \/ TimerCheck(t) \/ TimerClear(t)
        \/ TimeNow \/ Tick

Spec == Init /\ [][Next]_vars

-----------------------------------------------------------------------------
TypeOK ==
    /\ ticks \in 0..UMax
    /\ timers \in [Timer -> [armed : BOOLEAN, time : 0..UMax]]
    /\ polled \in 0..UMax /\ behind \in Int
    /\ fired \in [timer : SUBSET Timer, error : 0..UMax]
    /\ left \in [Timer -> Int] /\ wraps \in Nat

(***************************************************************************)
(* The deadline stored for a timer is the tick counter plus the time left, *)
(* give or take one turn of the counter.                                   *)
(***************************************************************************)
DeadlineHeld ==
    \A t \in Timer : timers[t].armed =>
        /\ left[t] \in (-MaxLate)..IMax
        /\ timers[t].time - ticks - left[t] \in {0, UMax + 1, -(UMax + 1)}

\* What the seconds counter has not counted is what passed since it was polled
\* and the ticks lost at turns of the counter: one by each call that finds a
\* turn since the last, and two calls may find the same one, if the first
\* leaves polled less than a second before it.
ClockHeld ==
    behind - Minus(ticks, polled)
        \in 0..(IF ticks >= polled THEN 2 * wraps
                ELSE IF UMax - polled < Tps - 1 THEN 2 * wraps - 1
                ELSE 2 * wraps - 2)

IInv == TypeOK /\ DeadlineHeld /\ ClockHeld

\* A timer is found expired when, and only when, its deadline has passed,
\* wherever in the range of the counter the two fall.
FiresWhenDue ==
    \A t \in Timer : Expired(t) <=> timers[t].armed /\ left[t] <= 0

\* The error LDL_MAC_timerCheck() reports, which decides whether a receive
\* window is still worth opening, never overstates the delay, and understates
\* it by no more than a tick.
ErrorNearlyExact ==
    [][\A t \in Timer : t \in fired'.timer =>
          -left[t] - fired'.error \in {0, 1}]_vars

\* Sleeping for LDL_MAC_timerTicksUntilNext() ticks never sleeps past a
\* deadline.
NeverOversleeps ==
    \A t \in Timer : timers[t].armed =>
        TicksUntilNext <= IF left[t] > 0 THEN left[t] ELSE 0

\* The seconds counter is never ahead of the clock, and falls behind it by no
\* more than what passed since it was polled and two ticks for every turn of
\* the counter.
ClockKeepsUp ==
    behind >= 0 /\ behind - Minus(ticks, polled) \in 0..(2 * wraps)

=============================================================================
