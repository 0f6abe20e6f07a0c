---------------------------- MODULE Bands_proof -----------------------------
(***************************************************************************)
(* Proofs about Bands, for every number of bands and channels, every duty  *)
(* cycle and every tick rate that is a whole number of ticks per ms: a     *)
(* band is closed for its off-time, to within a second, and no longer.     *)
(***************************************************************************)
EXTENDS Bands, WellFoundedInduction, TLAPS

\* What the grid needs of the tick rate; the run "bands_drift" is without it.
WholeMs == Tps = TicksPerMs * Ms

-----------------------------------------------------------------------------
(***************************************************************************)
(* Arithmetic of the grid.                                                 *)
(***************************************************************************)
LEMMA ProductFacts ==
    \A a, b \in Nat : a * b \in Nat
OBVIOUS

LEMMA MsFacts ==
    ASSUME WholeMs
    PROVE  TicksPerMs \in Nat \ {0} /\ Tps \in Nat \ {0} /\ Ms \in Nat \ {0}
<1>1. Tps \in Nat /\ Ms \in Nat \ {0} /\ Tps >= Ms
  BY BandsAssumption
<1>2. TicksPerMs \in Int
  BY <1>1 DEF TicksPerMs
<1>3. TicksPerMs > 0
  <2> SUFFICES ASSUME TicksPerMs <= 0 PROVE FALSE
    BY <1>2
  <2>1. TicksPerMs * Ms <= 0
    BY <1>1, <1>2
  <2>2. QED
    BY <2>1, <1>1 DEF WholeMs
<1>4. QED
  BY <1>1, <1>2, <1>3

\* Processing takes whole seconds off, and leaves the rest as the new phase.
LEMMA SinceFacts ==
    ASSUME WholeMs, phase \in Nat
    PROVE  /\ Since \in Nat
           /\ TicksPerMs * Since \in Nat
           /\ Mark(Since) = phase - TicksPerMs * Since
           /\ Mark(Since) \in 0..(Tps - 1)
<1> DEFINE s == phase \div Tps
<1>1. TicksPerMs \in Nat \ {0} /\ Tps \in Nat \ {0} /\ Ms \in Nat \ {0}
  BY MsFacts
<1>2. s \in Nat /\ phase - Tps * s \in 0..(Tps - 1)
  BY <1>1
<1>3. TicksPerMs * (s * Ms) = (TicksPerMs * Ms) * s
  BY <1>1, <1>2
<1>4. TicksPerMs * Since = Tps * s
  BY <1>3 DEF Since, WholeMs
<1>5. Since \in Nat /\ Tps * s \in Nat
  BY <1>1, <1>2, ProductFacts DEF Since
<1> HIDE DEF s
<1>6. QED
  BY <1>1, <1>2, <1>4, <1>5 DEF Mark

\* How a band and its off-time are held together at some phase.
Held(ms, offtime, ph) ==
    /\ offtime > 0 => offtime < TicksPerMs * ms + Tps - ph
    /\ IF ms > 0 THEN TicksPerMs * ms <= ph + offtime ELSE offtime >= 0

\* Running down keeps them together.
LEMMA CurrentFacts ==
    ASSUME WholeMs, IInv, NEW b \in Band
    PROVE  /\ Current[b] \in 0..MaxMs
           /\ Settled[b] \in Int
           /\ Held(Current[b], Settled[b], Mark(Since))
<1>1. phase \in Nat /\ band[b] \in 0..MaxMs /\ due[b] \in Int /\ MaxMs \in Nat
  BY BandsAssumption DEF IInv, TypeOK
<1>2. /\ due[b] > 0 => due[b] < TicksPerMs * band[b] + Tps - phase
      /\ band[b] > 0 => TicksPerMs * band[b] <= phase + due[b]
  BY DEF IInv, OffTimeHeld, WakeHeld
<1>3. /\ Since \in Nat
      /\ TicksPerMs * Since \in Nat
      /\ Mark(Since) = phase - TicksPerMs * Since
      /\ Mark(Since) \in 0..(Tps - 1)
  BY <1>1, SinceFacts
<1>4. TicksPerMs \in Nat \ {0} /\ Tps \in Nat \ {0}
  BY MsFacts
<1>0. TicksPerMs * band[b] \in Nat
  <2>1. band[b] \in Nat /\ TicksPerMs \in Nat
    BY <1>1, <1>4
  <2>2. QED
    BY <2>1, ProductFacts
<1>5. Current[b] = IF band[b] < Since THEN 0 ELSE band[b] - Since
  BY DEF Current, RunDown
<1>6. Settled[b] = IF Current[b] = 0 /\ due[b] <= 0 THEN 0 ELSE due[b]
  BY <1>1, <1>5, <1>3 DEF Settled, Larger
<1>7. CASE band[b] <= Since
  <2>1. Current[b] = 0
    BY <1>7, <1>5, <1>3, <1>1
  <2>2. TicksPerMs * band[b] <= TicksPerMs * Since
    BY <1>7, <1>1, <1>3, <1>4
  <2>4. Settled[b] \in Int /\ (Settled[b] > 0 => Settled[b] = due[b] /\ due[b] > 0)
    BY <2>1, <1>6, <1>1
  <2>5. TicksPerMs * Current[b] = 0
    BY <2>1, <1>4
  <2> HIDE DEF Held
  <2>6. Settled[b] > 0 => Settled[b] < TicksPerMs * Current[b] + Tps - Mark(Since)
    BY <1>1, <1>0, <1>2, <1>3, <1>4, <2>2, <2>4, <2>5
  <2>7. Settled[b] >= 0
    BY <2>1, <1>1, <1>6
  <2>8. QED
    BY <2>1, <2>4, <2>6, <2>7, <1>1 DEF Held
<1>8. CASE band[b] > Since
  <2>1. Current[b] = band[b] - Since /\ Current[b] > 0 /\ Current[b] \in 0..MaxMs
    BY <1>8, <1>5, <1>3, <1>1
  <2>2. Settled[b] = due[b]
    BY <2>1, <1>6
  <2>3. TicksPerMs * Current[b] = TicksPerMs * band[b] - TicksPerMs * Since
    BY <2>1, <1>1, <1>3, <1>4
  <2>5. band[b] > 0
    BY <1>8, <1>1, <1>3
  <2>6. QED
    BY <1>0, <1>1, <1>2, <1>3, <1>4, <2>1, <2>2, <2>3, <2>5 DEF Held
<1>9. QED
  BY <1>1, <1>3, <1>7, <1>8

\* So does registering a further off-time.
LEMMA OwingFacts ==
    ASSUME WholeMs, IInv, NEW b \in Band, NEW off \in Nat
    PROVE  /\ Plus(Current[b], off) \in 0..MaxMs
           /\ Owing(b, off) \in Int
           /\ Held(Plus(Current[b], off), Owing(b, off), Mark(Since))
<1> DEFINE old  == Current[b]
           new  == Plus(old, off)
           left == Larger(due[b], 0)
<1>1. phase \in Nat /\ due[b] \in Int /\ MaxMs \in Nat
  BY BandsAssumption DEF IInv, TypeOK
<1>2. old \in 0..MaxMs /\ Settled[b] \in Int /\ Held(old, Settled[b], Mark(Since))
  BY CurrentFacts
<1>3. new \in old..MaxMs /\ new = Smaller(old + off, MaxMs)
  BY <1>1, <1>2 DEF Plus, Smaller
<1>4. Settled[b] = IF old = 0 THEN left ELSE due[b]
  BY DEF Settled
<1>5. left \in Nat /\ left >= due[b] /\ (left > 0 => left = due[b])
  BY <1>1 DEF Larger
<1>6. TicksPerMs \in Nat \ {0} /\ Tps \in Nat \ {0} /\ Mark(Since) \in 0..(Tps - 1)
  BY MsFacts, <1>1, SinceFacts
<1>7. Owing(b, off) = left + TicksPerMs * (new - old)
  BY <1>3 DEF Owing
<1>8. /\ TicksPerMs * (new - old) = TicksPerMs * new - TicksPerMs * old
      /\ TicksPerMs * new \in Nat /\ TicksPerMs * old \in Nat
  BY <1>2, <1>3, <1>6, <1>1
<1> HIDE DEF old, new, left
<1>9. Owing(b, off) > 0 => Owing(b, off) < TicksPerMs * new + Tps - Mark(Since)
  <2>1. CASE left > 0
    BY <2>1, <1>2, <1>4, <1>5, <1>6, <1>7, <1>8, <1>1 DEF Held
  <2>2. CASE left = 0
    BY <2>2, <1>6, <1>7, <1>8
  <2>3. QED
    BY <2>1, <2>2, <1>5
<1>10. TicksPerMs * new <= Mark(Since) + Owing(b, off)
  <2>1. CASE old = 0
    BY <2>1, <1>5, <1>6, <1>7, <1>8
  <2>2. CASE old > 0
    BY <2>2, <1>2, <1>4, <1>5, <1>6, <1>7, <1>8, <1>1 DEF Held
  <2>3. QED
    BY <2>1, <2>2, <1>2
<1>11. QED
  <2>1. Owing(b, off) \in Int
    BY <1>5, <1>7, <1>8
  <2>2. new \in 0..MaxMs
    BY <1>1, <1>2, <1>3
  <2>3. Owing(b, off) >= 0
    <3>1. TicksPerMs * (new - old) \in Nat
      <4>1. new - old \in Nat
        BY <1>2, <1>3
      <4>2. QED
        BY <4>1, <1>6, ProductFacts
    <3>2. QED
      BY <3>1, <1>5, <1>7
  <2>4. QED
    BY <2>1, <2>2, <2>3, <1>9, <1>10 DEF Held, new, old

-----------------------------------------------------------------------------
(***************************************************************************)
(* The invariant.                                                          *)
(***************************************************************************)
\* The durations and the tables are of the types the code gives them.
LEMMA InvInit == ASSUME WholeMs, Init PROVE IInv
<1>1. TicksPerMs \in Nat \ {0} /\ Tps \in Nat \ {0}
  BY MsFacts
<1>2. /\ StartupDelay \in 0..MaxMs /\ MaxMs \in Nat
      /\ usable \in SUBSET Channel
  BY BandsAssumption DEF Init
<1>3. band \in [Band -> 0..MaxMs]
  BY <1>2 DEF Init
<1>4. \A b \in Band : due[b] = TicksPerMs * band[b] /\ due[b] \in Nat
  <2> SUFFICES ASSUME NEW b \in Band PROVE TicksPerMs * band[b] \in Nat
    BY DEF Init
  <2>1. band[b] \in Nat /\ TicksPerMs \in Nat
    BY <1>1, <1>2, <1>3
  <2>2. QED
    BY <2>1, ProductFacts
<1>5. due \in [Band -> Int]
  BY <1>4 DEF Init
<1>6. TypeOK
  BY <1>2, <1>3, <1>5 DEF Init, TypeOK
<1>7. OffTimeHeld
  BY <1>1, <1>4 DEF Init, OffTimeHeld
<1>8. WakeHeld
  <2> SUFFICES ASSUME NEW b \in Band, band[b] > 0
               PROVE  /\ TicksPerMs * band[b] <= phase + due[b]
                      /\ phase + wake < Tps + TicksPerMs * (band[b] + 1)
    BY <1>4, BandsAssumption DEF WakeHeld, Init
  <2>1. TicksPerMs * (band[b] + 1) = TicksPerMs * band[b] + TicksPerMs
    BY <1>1, <1>3, <1>2
  <2>2. phase = 0 /\ wake = 0
    BY DEF Init
  <2>3. QED
    BY <1>1, <1>4, <2>1, <2>2
<1>9. QED
  BY <1>6, <1>7, <1>8 DEF IInv

\* Whatever a state does to the bands, as long as it keeps each with its
\* off-time.
LEMMA ProcessingFacts ==
    ASSUME WholeMs, IInv,
           NEW bands \in [Band -> 0..MaxMs], NEW offtimes \in [Band -> Int],
           \A b \in Band : Held(bands[b], offtimes[b], Mark(Since)),
           Processing(bands, offtimes)
    PROVE  /\ band' \in [Band -> 0..MaxMs] /\ due' \in [Band -> Int]
           /\ phase' \in Nat /\ wake' \in Int
           /\ OffTimeHeld' /\ WakeHeld'
<1>1. band' = bands /\ due' = offtimes /\ phase' = Mark(Since)
  BY DEF Processing
<1>2. phase' \in 0..(Tps - 1)
  BY <1>1, SinceFacts DEF IInv, TypeOK
<1>3. TicksPerMs \in Nat \ {0} /\ Tps \in Nat \ {0} /\ Ms \in Nat \ {0}
  BY MsFacts
<1>4. MaxMs \in Nat /\ Minute \in Nat \ {0}
  BY BandsAssumption
<1>5. PICK next \in {bands[b] : b \in Band} \cup {MaxMs} :
          /\ NextEvent(bands, next)
          /\ wake' = IF next < Minute * Ms THEN TicksPerMs * (next + 1)
                                           ELSE Minute * Tps
  BY DEF Processing
<1>6. next \in Nat
  BY <1>4, <1>5
<1>7. /\ Minute * Tps = TicksPerMs * (Minute * Ms)
      /\ Minute * Ms \in Nat /\ Minute * Tps \in Nat
      /\ TicksPerMs * (next + 1) \in Nat
  <2>1. Minute * (TicksPerMs * Ms) = TicksPerMs * (Minute * Ms)
    BY <1>3, <1>4
  <2>2. QED
    BY <2>1, <1>3, <1>4, <1>6, ProductFacts DEF WholeMs
<1>8. wake' \in Nat
  BY <1>5, <1>7
<1>9. wake' <= TicksPerMs * (next + 1)
  <2>1. CASE next < Minute * Ms
    BY <2>1, <1>5, <1>7
  <2>2. CASE next >= Minute * Ms
    <3>1. TicksPerMs * (Minute * Ms) <= TicksPerMs * (next + 1)
      BY <2>2, <1>3, <1>6, <1>7
    <3>2. wake' = Minute * Tps
      BY <2>2, <1>5, <1>6, <1>7
    <3>3. QED
      BY <3>1, <3>2, <1>7
  <2>3. QED
    BY <2>1, <2>2, <1>6, <1>7
<1>10. WakeHeld'
  <2> SUFFICES ASSUME NEW b \in Band, bands[b] > 0
               PROVE  /\ TicksPerMs * bands[b] <= phase' + offtimes[b]
                      /\ phase' + wake' < Tps + TicksPerMs * (bands[b] + 1)
    <3>1. wake' >= -MaxLag
      BY <1>8, BandsAssumption
    <3>2. QED
      BY <3>1, <1>1 DEF WakeHeld, Held
  <2>1. next <= bands[b] /\ bands[b] \in Nat
    BY <1>4, <1>5 DEF NextEvent
  <2>2. TicksPerMs * (next + 1) <= TicksPerMs * (bands[b] + 1)
    BY <2>1, <1>3, <1>6
  <2>3. TicksPerMs * (bands[b] + 1) \in Nat
    BY <2>1, <1>3, ProductFacts
  <2>4. QED
    BY <1>1, <1>2, <1>3, <1>7, <1>8, <1>9, <2>2, <2>3 DEF Held
<1>11. OffTimeHeld'
  BY <1>1 DEF Held, OffTimeHeld
<1>12. QED
  BY <1>1, <1>2, <1>8, <1>10, <1>11

\* Processing that leaves the bands alone.
LEMMA SettledStep ==
    ASSUME WholeMs, IInv, Processing(Current, Settled)
    PROVE  /\ band' \in [Band -> 0..MaxMs] /\ due' \in [Band -> Int]
           /\ phase' \in Nat /\ wake' \in Int
           /\ OffTimeHeld' /\ WakeHeld'
<1>1. Current \in [Band -> 0..MaxMs] /\ Settled \in [Band -> Int]
  BY CurrentFacts DEF Current, Settled
<1>2. QED
  BY <1>1, CurrentFacts, ProcessingFacts

\* Processing that sets the off-time of a retry.
LEMMA RetryStep ==
    ASSUME WholeMs, IInv, NEW duty \in RetryDuties, air \in AirTimes,
           Processing(Retrying(duty), RetryOwed(duty))
    PROVE  /\ band' \in [Band -> 0..MaxMs] /\ due' \in [Band -> Int]
           /\ phase' \in Nat /\ wake' \in Int
           /\ OffTimeHeld' /\ WakeHeld'
<1>1. Current \in [Band -> 0..MaxMs] /\ Settled \in [Band -> Int]
  BY CurrentFacts DEF Current, Settled
<1>2. air * duty \in 0..MaxMs /\ air \in Nat /\ duty \in Nat
  BY BandsAssumption, ProductFacts
<1>3. TicksPerMs \in Nat \ {0} /\ Tps \in Nat \ {0} /\ Mark(Since) \in 0..(Tps - 1)
  BY MsFacts, SinceFacts DEF IInv, TypeOK
<1>4. TicksPerMs * air * duty = TicksPerMs * (air * duty)
  BY <1>2, <1>3
<1>5. TicksPerMs * (air * duty) \in Nat
  <2>1. air * duty \in Nat /\ TicksPerMs \in Nat
    BY <1>2, <1>3
  <2>2. QED
    BY <2>1, ProductFacts
<1>6. Retrying(duty) \in [Band -> 0..MaxMs]
  BY <1>1, <1>2 DEF Retrying
<1>7. RetryOwed(duty) \in [Band -> Int]
  <2> DEFINE owed == TicksPerMs * air * duty
  <2>1. owed \in Int
    BY <1>4, <1>5
  <2> HIDE DEF owed
  <2>2. [Settled EXCEPT !["RETRY"] = owed] \in [Band -> Int]
    BY <2>1, <1>1
  <2>3. QED
    BY <2>2 DEF RetryOwed, owed
<1>8. \A b \in Band : Held(Retrying(duty)[b], RetryOwed(duty)[b], Mark(Since))
  <2> SUFFICES ASSUME NEW b \in Band
               PROVE  Held(Retrying(duty)[b], RetryOwed(duty)[b], Mark(Since))
    OBVIOUS
  <2>1. CASE b = "RETRY"
    <3>1. /\ Retrying(duty)[b] = air * duty
          /\ RetryOwed(duty)[b] = TicksPerMs * (air * duty)
      BY <2>1, <1>1, <1>4 DEF Retrying, RetryOwed
    <3>2. QED
      BY <3>1, <1>3, <1>5 DEF Held
  <2>2. CASE b # "RETRY"
    <3>1. Retrying(duty)[b] = Current[b] /\ RetryOwed(duty)[b] = Settled[b]
      BY <2>2, <1>1 DEF Retrying, RetryOwed
    <3>2. QED
      BY <3>1, CurrentFacts
  <2>3. QED
    BY <2>1, <2>2
<1>9. QED
  BY <1>6, <1>7, <1>8, ProcessingFacts

\* Processing that starts a transmission.
LEMMA WaitTxStep ==
    ASSUME WholeMs, IInv, ProcessWaitTx
    PROVE  /\ band' \in [Band -> 0..MaxMs] /\ due' \in [Band -> Int]
           /\ phase' \in Nat /\ wake' \in Int
           /\ OffTimeHeld' /\ WakeHeld'
<1> DEFINE own   == BandOf[channel]
           short == air * Factor[own]
           long  == air * 2 ^ maxDuty
           both  == op # "JOINING" /\ maxDuty > 0
           owed  == [b \in Band |->
                        IF b = own THEN Owing(b, air * Factor[b])
                        ELSE IF b = "GLOBAL" /\ both THEN Owing(b, long)
                        ELSE Settled[b]]
<1>1. channel \in Channel /\ air \in Nat /\ maxDuty \in 0..15
  BY BandsAssumption DEF IInv, TypeOK, ProcessWaitTx
<1>2. /\ own \in RegionBand /\ own \in Band /\ "GLOBAL" \in Band
      /\ own # "GLOBAL" /\ own # "RETRY"
  BY <1>1, BandsAssumption DEF Band
<1>3. Factor[own] \in Nat /\ 2 ^ maxDuty \in Nat
  BY <1>1, <1>2, BandsAssumption
<1>4. short \in Nat /\ long \in Nat
  BY <1>1, <1>3, ProductFacts
<1>5. Current \in [Band -> 0..MaxMs] /\ Settled \in [Band -> Int]
  BY CurrentFacts DEF Current, Settled
<1> HIDE DEF long, short
<1>6. \A b \in Band :
          Registered(Current)[b] = IF b = own THEN Plus(Current[b], short)
                                   ELSE IF b = "GLOBAL" /\ both
                                     THEN Plus(Current[b], long)
                                   ELSE Current[b]
  <2>1. CASE Factor[own] > 0
    BY <2>1, <1>2, <1>5 DEF Registered, Register, short, long
  <2>2. CASE ~(Factor[own] > 0)
    <3>1. short = 0
      BY <2>2, <1>1, <1>3 DEF short
    <3>2. Plus(Current[own], short) = Current[own]
      BY <3>1, <1>2, <1>5, BandsAssumption DEF Plus, Smaller
    <3>3. QED
      BY <2>2, <3>2, <1>2, <1>5 DEF Registered, Register, long
  <2>3. QED
    BY <2>1, <2>2
<1>7. Registered(Current) \in [Band -> 0..MaxMs]
  <2>1. DOMAIN Registered(Current) = Band
        /\ Registered(Current) = [b \in Band |-> Registered(Current)[b]]
    BY <1>5 DEF Registered, Register
  <2>2. \A b \in Band : Registered(Current)[b] \in 0..MaxMs
    BY <1>4, <1>6, CurrentFacts, OwingFacts
  <2>3. QED
    BY <2>1, <2>2
<1>8. \A b \in Band : owed[b] = IF b = own THEN Owing(b, short)
                                ELSE IF b = "GLOBAL" /\ both THEN Owing(b, long)
                                ELSE Settled[b]
  BY DEF short
<1>9. owed \in [Band -> Int]
  <2>1. \A b \in Band : owed[b] \in Int
    BY <1>4, <1>8, CurrentFacts, OwingFacts
  <2>2. QED
    BY <2>1
<1>10. \A b \in Band : Held(Registered(Current)[b], owed[b], Mark(Since))
  <2> HIDE DEF owed
  <2>1. QED
    BY <1>4, <1>6, <1>8, CurrentFacts, OwingFacts
<1>11. Processing(Registered(Current), owed)
  BY DEF ProcessWaitTx, long
<1> HIDE DEF owed
<1>12. QED
  BY <1>7, <1>9, <1>10, <1>11, ProcessingFacts

\* The type of what a processing step does to the rest of the state.
LEMMA SelectionFacts ==
    ASSUME NEW bands, NEW channels \in SUBSET Channel, NEW limit
    PROVE  Selection(bands, channels, limit) \subseteq Channel
BY DEF Selection, Available

\* Every call of LDL_MAC_process() keeps the invariant.
LEMMA ProcessStep == ASSUME WholeMs, IInv, Process PROVE IInv'
<1> DEFINE Times == /\ band' \in [Band -> 0..MaxMs] /\ due' \in [Band -> Int]
                    /\ phase' \in Nat /\ wake' \in Int
                    /\ OffTimeHeld' /\ WakeHeld'
           Rest  == /\ state' \in {"IDLE", "WAIT_TX", "TX", "WAIT_RETRY"}
                    /\ op' \in {"NONE", "JOINING", "CONFIRMED", "UNCONFIRMED"}
                    /\ trials' \in Nat
                    /\ channel' \in Channel \cup {NoChannel}
                    /\ air' \in AirTimes \cup {0}
                    /\ state' # "IDLE" => channel' \in Channel /\ air' \in AirTimes
                    /\ usable' \in SUBSET Channel /\ maxDuty' \in 0..15
<1> USE DEF IInv, TypeOK
<1>1. CASE ProcessWaitTx
  <2>1. Times
    BY <1>1, WaitTxStep
  <2>2. Rest
    BY <1>1 DEF ProcessWaitTx, setting
  <2>3. QED
    BY <2>1, <2>2
<1>2. CASE MissingConfirmed
  <2>1. Times
    BY <1>2, RetryStep DEF MissingConfirmed, Missing
  <2>2. Rest
    BY <1>2, SelectionFacts DEF MissingConfirmed, Missing, setting
  <2>3. QED
    BY <2>1, <2>2
<1>3. CASE MissingUnconfirmed
  <2>1. Times
    BY <1>3, SettledStep DEF MissingUnconfirmed
  <2>2. Rest
    BY <1>3, SelectionFacts DEF MissingUnconfirmed, Missing, setting
  <2>3. QED
    BY <2>1, <2>2
<1>4. CASE MissingLast
  <2>1. Times
    BY <1>4, SettledStep DEF MissingLast
  <2>2. Rest
    BY <1>4 DEF MissingLast, Missing, setting
  <2>3. QED
    BY <2>1, <2>2
<1>5. CASE MissingJoin
  <2>1. Times
    BY <1>5, RetryStep DEF MissingJoin, Missing
  <2>2. Rest
    BY <1>5, SelectionFacts, BandsAssumption DEF MissingJoin, Missing
  <2>3. QED
    BY <2>1, <2>2
<1>6. CASE ProcessEnd
  <2>1. Times
    BY <1>6, SettledStep DEF ProcessEnd
  <2>2. Rest
    BY <1>6 DEF ProcessEnd, setting
  <2>3. QED
    BY <2>1, <2>2
<1>7. CASE ProcessRetry
  <2>1. Times
    BY <1>7, SettledStep DEF ProcessRetry
  <2>2. Rest
    BY <1>7 DEF ProcessRetry, setting
  <2>3. QED
    BY <2>1, <2>2
<1>8. CASE ProcessNothing
  <2>1. Times
    BY <1>8, SettledStep DEF ProcessNothing
  <2>2. Rest
    BY <1>8 DEF ProcessNothing, setting, request
  <2>3. QED
    BY <2>1, <2>2
<1>9. QED
  BY <1>1, <1>2, <1>3, <1>4, <1>5, <1>6, <1>7, <1>8 DEF Process

\* Time passes: the phase grows as what is owed and the BAND timer shrink.
LEMMA TickStep == ASSUME WholeMs, IInv, Tick PROVE IInv'
<1> USE DEF IInv, TypeOK
<1>1. TicksPerMs \in Nat \ {0} /\ Tps \in Nat \ {0} /\ MaxLag \in Nat
  BY MsFacts, BandsAssumption
<1>2. Late \in Nat
  BY <1>1 DEF Late
<1>3. /\ phase' = phase + 1 /\ wake' = wake - 1 /\ band' = band
      /\ UNCHANGED <<state, op, trials, channel, air, usable, maxDuty>>
  BY DEF Tick, request, setting
<1>4. \A b \in Band : /\ due'[b] = Larger(due[b] - 1, IF band[b] = 0 THEN 0 ELSE -Late)
                      /\ due[b] \in Int
  BY DEF Tick
<1>5. due' \in [Band -> Int]
  <2>1. \A b \in Band : Larger(due[b] - 1, IF band[b] = 0 THEN 0 ELSE -Late) \in Int
    BY <1>2, <1>4 DEF Larger
  <2>2. QED
    BY <2>1 DEF Tick
<1>6. \A b \in Band : /\ due'[b] > 0 => due'[b] = due[b] - 1
                      /\ due'[b] >= due[b] - 1
  BY <1>2, <1>4 DEF Larger
<1>7. \A b \in Band : /\ band[b] \in Nat
                      /\ TicksPerMs * band[b] \in Nat
                      /\ TicksPerMs * (band[b] + 1) \in Nat
  <2> SUFFICES ASSUME NEW b \in Band
               PROVE  /\ band[b] \in Nat
                      /\ TicksPerMs * band[b] \in Nat
                      /\ TicksPerMs * (band[b] + 1) \in Nat
    OBVIOUS
  <2>1. band[b] \in Nat /\ band[b] + 1 \in Nat /\ TicksPerMs \in Nat
    BY <1>1, BandsAssumption
  <2>2. QED
    BY <2>1, ProductFacts
<1>8. phase \in Nat /\ wake \in Int
  OBVIOUS
<1>9. OffTimeHeld'
  <2> SUFFICES ASSUME NEW b \in Band, due'[b] > 0
               PROVE  due'[b] < TicksPerMs * band[b] + Tps - (phase + 1)
    BY <1>3 DEF OffTimeHeld
  <2>1. due[b] > 0 /\ due'[b] = due[b] - 1
    BY <1>4, <1>6
  <2>2. due[b] < TicksPerMs * band[b] + Tps - phase
    BY <2>1 DEF OffTimeHeld
  <2>3. QED
    BY <2>1, <2>2, <1>1, <1>4, <1>7, <1>8
<1>10. WakeHeld'
  <2>0. wake' >= -MaxLag
    BY <1>1, <1>3, <1>8 DEF Tick
  <2>10. ASSUME NEW b \in Band, ~(band[b] > 0) PROVE due'[b] >= 0
    BY <2>10, <1>4, <1>7 DEF Larger
  <2> SUFFICES ASSUME NEW b \in Band, band[b] > 0
               PROVE  /\ TicksPerMs * band[b] <= phase + 1 + due'[b]
                      /\ phase + 1 + (wake - 1) < Tps + TicksPerMs * (band[b] + 1)
    BY <1>3, <2>0, <2>10 DEF WakeHeld
  <2>1. /\ TicksPerMs * band[b] <= phase + due[b]
        /\ phase + wake < Tps + TicksPerMs * (band[b] + 1)
    BY DEF WakeHeld
  <2>2. due'[b] >= due[b] - 1 /\ due[b] \in Int /\ due'[b] \in Int
    BY <1>4, <1>5, <1>6
  <2>3. QED
    BY <2>1, <2>2, <1>7, <1>8
<1>11. TypeOK'
  BY <1>3, <1>5
<1>12. QED
  BY <1>9, <1>10, <1>11

\* A join request starts by forgetting the retry's off-time.
LEMMA OtaaStep == ASSUME WholeMs, IInv, Otaa PROVE IInv'
<1> USE DEF IInv, TypeOK
<1>1. /\ state' \in {"IDLE", "WAIT_TX"}
      /\ op' \in {"NONE", "JOINING", "CONFIRMED", "UNCONFIRMED"}
      /\ trials' = 0
      /\ channel' \in Channel \cup {NoChannel} /\ air' \in AirTimes \cup {0}
      /\ state' # "IDLE" => channel' \in Channel /\ air' \in AirTimes
      /\ usable' \in SUBSET Channel /\ maxDuty' = maxDuty
  BY SelectionFacts, BandsAssumption DEF Otaa, Start, setting
<1>2. /\ phase' = phase /\ wake' = wake
      /\ band' = [band EXCEPT !["RETRY"] = 0] /\ due' = [due EXCEPT !["RETRY"] = 0]
  BY DEF Otaa, Start
<1>3. 0 \in 0..MaxMs
  BY BandsAssumption
<1>4. TypeOK'
  <2>1. band' \in [Band -> 0..MaxMs]
    BY <1>2, <1>3
  <2>4. due' \in [Band -> Int]
    <3>1. due \in [Band -> Int]
      OBVIOUS
    <3> DEFINE cleared == [due EXCEPT !["RETRY"] = 0]
    <3>2. cleared \in [Band -> Int]
      <4>1. 0 \in Int
        OBVIOUS
      <4>2. QED
        BY <3>1, <4>1, Zenon
    <3> HIDE DEF cleared
    <3>3. due' = cleared
      BY <1>2 DEF cleared
    <3>4. QED
      BY <3>2, <3>3
  <2>2. phase' \in Nat /\ wake' \in Int
    BY <1>2
  <2>3. QED
    BY <1>1, <2>1, <2>2, <2>4
<1>5. OffTimeHeld'
  BY <1>2 DEF OffTimeHeld
<1>6. WakeHeld'
  BY <1>2 DEF WakeHeld
<1>7. QED
  BY <1>4, <1>5, <1>6

\* The other calls leave the bands alone.
LEMMA CallStep ==
    ASSUME IInv, Data \/ Cancel \/ SetChannels \/ SetMaxDCycle
    PROVE  IInv'
<1> USE DEF IInv, TypeOK
<1>1. UNCHANGED <<band, due, phase, wake>>
  BY DEF Data, Start, Cancel, SetChannels, SetMaxDCycle
<1>2. TypeOK'
  <2>1. CASE Data
    BY <2>1, <1>1, SelectionFacts, BandsAssumption DEF Data, Start
  <2>2. CASE Cancel
    BY <2>2, <1>1 DEF Cancel, setting
  <2>3. CASE SetChannels
    BY <2>3, <1>1, BandsAssumption DEF SetChannels, request
  <2>4. CASE SetMaxDCycle
    BY <2>4, <1>1, BandsAssumption DEF SetMaxDCycle, request
  <2>5. QED
    BY <2>1, <2>2, <2>3, <2>4
<1>3. QED
  BY <1>1, <1>2 DEF OffTimeHeld, WakeHeld

\* The inductive invariant: each band and the off-time it stands for are never
\* more than a second apart.
THEOREM InvariantHolds == ASSUME WholeMs PROVE Spec => []IInv
<1>1. IInv /\ [Next]_vars => IInv'
  <2>1. CASE Next
    BY <2>1, ProcessStep, OtaaStep, CallStep, TickStep DEF Next
  <2>2. CASE UNCHANGED vars
    BY <2>2 DEF vars, request, setting, IInv, TypeOK, OffTimeHeld, WakeHeld
  <2>3. QED
    BY <2>1, <2>2
<1>2. Init => IInv
  BY InvInit
<1>3. QED
  BY <1>1, <1>2, PTL DEF Spec

-----------------------------------------------------------------------------
\* A band that opens was closed for all its off-times, to within one second.
THEOREM OffTimesServed == ASSUME WholeMs PROVE Spec => []NeverASecondEarly
<1>1. IInv => NeverASecondEarly
  <2> SUFFICES ASSUME IInv, NEW b \in Band, band[b] = 0
               PROVE  due[b] < Tps
    BY DEF NeverASecondEarly
  <2>1. TicksPerMs \in Nat \ {0} /\ Tps \in Nat \ {0}
    BY MsFacts
  <2>2. phase \in Nat /\ due[b] \in Int
    BY DEF IInv, TypeOK
  <2>3. due[b] > 0 => due[b] < TicksPerMs * 0 + Tps - phase
    BY DEF IInv, OffTimeHeld
  <2>4. QED
    BY <2>1, <2>2, <2>3
<1>2. QED
  BY <1>1, InvariantHolds, PTL

\* A closed band opens at the latest a second, a ms and the lag of the main loop
\* after its off-times are over.
THEOREM BandsOpen == ASSUME WholeMs PROVE Spec => []OpensInTime
<1>1. IInv => OpensInTime
  <2> SUFFICES ASSUME IInv, NEW b \in Band PROVE due[b] > -Late
    BY DEF OpensInTime
  <2>1. TicksPerMs \in Nat \ {0} /\ Tps \in Nat \ {0} /\ MaxLag \in Nat
    BY MsFacts, BandsAssumption
  <2>2. phase \in Nat /\ wake \in Int /\ due[b] \in Int /\ band[b] \in Nat
    BY BandsAssumption DEF IInv, TypeOK
  <2>3. CASE band[b] > 0
    <3>1. TicksPerMs * (band[b] + 1) = TicksPerMs * band[b] + TicksPerMs
      BY <2>1, <2>2
    <3>2. TicksPerMs * band[b] \in Nat
      BY <2>1, <2>2, ProductFacts
    <3>3. /\ TicksPerMs * band[b] <= phase + due[b]
          /\ phase + wake < Tps + TicksPerMs * (band[b] + 1)
          /\ wake >= -MaxLag
      BY <2>3 DEF IInv, WakeHeld
    <3>4. QED
      BY <2>1, <2>2, <3>1, <3>2, <3>3 DEF Late
  <2>4. CASE ~(band[b] > 0)
    <3>1. due[b] >= 0
      BY <2>4 DEF IInv, WakeHeld
    <3>2. Late > 0
      BY <2>1 DEF Late
    <3>3. QED
      BY <2>1, <2>2, <3>1, <3>2 DEF Late
  <2>5. QED
    BY <2>3, <2>4
<1>2. QED
  BY <1>1, InvariantHolds, PTL

-----------------------------------------------------------------------------
(***************************************************************************)
(* Retries and closed bands.  A retry waits for its own off-time and the   *)
(* global one, never for its band's; what makes that enough is that its    *)
(* own is the longer one, and that the channel it was sent on is there to  *)
(* be used again.                                                          *)
(***************************************************************************)
RetryOutlasts == /\ \A r \in RegionBand, d \in RetryDuties : Factor[r] <= d
                 /\ Usable \subseteq {{}, Channel}

\* What each state has made sure of the band of its channel.
BandReady ==
    LET own == band[BandOf[channel]]
    IN /\ usable \in {{}, Channel}
       /\ state = "WAIT_TX" /\ op # "UNCONFIRMED" => own = 0
       /\ state = "TX" /\ op # "UNCONFIRMED" => own <= air * Factor[BandOf[channel]]
       /\ state = "WAIT_RETRY" => own <= Larger(band["RETRY"], band["GLOBAL"])

\* Bands that run down together stay in order.
LEMMA RunDownFacts ==
    ASSUME NEW since \in Nat
    PROVE  /\ \A a \in Nat : RunDown(a, since) \in 0..a
           /\ \A a, b \in Nat : a <= b => RunDown(a, since) <= RunDown(b, since)
BY DEF RunDown

\* Each channel is in a band of its own region.
LEMMA OwnBand ==
    ASSUME NEW c \in Channel
    PROVE  /\ BandOf[c] \in RegionBand /\ BandOf[c] \in Band
           /\ BandOf[c] # "GLOBAL" /\ BandOf[c] # "RETRY"
BY BandsAssumption DEF Band

\* msUntilNextChannel() is no later than any channel.
LEMMA UntilNextIsLeast ==
    ASSUME NEW bands \in [Band -> Nat], NEW channels \in SUBSET Channel,
           NEW c \in channels
    PROVE  /\ UntilNext(bands, channels) \in Nat
           /\ UntilNext(bands, channels) <= UntilAvailable(bands, c)
<1> DEFINE ms == {UntilAvailable(bands, d) : d \in channels}
<1>1. \A d \in channels : UntilAvailable(bands, d) \in Nat
  <2> SUFFICES ASSUME NEW d \in channels PROVE UntilAvailable(bands, d) \in Nat
    OBVIOUS
  <2>1. BandOf[d] \in Band /\ "GLOBAL" \in Band
    BY OwnBand DEF Band
  <2>2. QED
    BY <2>1 DEF UntilAvailable, Larger
<1>2. ms \subseteq Nat /\ UntilAvailable(bands, c) \in ms
  BY <1>1
<1>3. UntilNext(bands, channels) = CHOOSE m \in ms : \A n \in ms : m <= n
  BY <1>2 DEF UntilNext
<1> HIDE DEF ms
<1> DEFINE less == {pair \in Nat \X Nat : pair[1] < pair[2]}
<1>4. IsWellFoundedOn(less, Nat)
  BY NatLessThanWellFounded DEF OpToRel
<1> HIDE DEF less
<1>5. PICK m \in ms : \A n \in ms : ~(<<n, m>> \in less)
  BY <1>2, <1>4, WFMin
<1>6. ASSUME NEW n \in ms PROVE m <= n
  <2>1. n \in Nat /\ m \in Nat
    BY <1>2
  <2>2. ~(n < m)
    <3>1. n < m => <<n, m>> \in less
      BY <2>1 DEF less
    <3>2. QED
      BY <1>5, <3>1
  <2>3. QED
    BY <2>1, <2>2
<1>7. UntilNext(bands, channels) \in ms /\ \A n \in ms : UntilNext(bands, channels) <= n
  BY <1>3, <1>6
<1>8. QED
  BY <1>2, <1>7

\* A channel for a retry: selected within the limit, or the last if there is none.
ForRetry(bands, channels, c) ==
    LET limit  == Larger(UntilNext(bands, channels), bands["RETRY"])
        choice == Selection(bands, channels, limit)
    IN \/ c \in choice
       \/ choice = {} /\ c = channel

\* Its band is open when the off-times the retry waits for are over.
LEMMA RetryChannel ==
    ASSUME NEW bands \in [Band -> Nat], NEW channels \in {{}, Channel},
           channel \in Channel, bands[BandOf[channel]] <= bands["RETRY"],
           NEW c, ForRetry(bands, channels, c)
    PROVE  bands[BandOf[c]] <= Larger(bands["RETRY"], bands["GLOBAL"])
<1> DEFINE limit  == Larger(UntilNext(bands, channels), bands["RETRY"])
           choice == Selection(bands, channels, limit)
           waits  == Larger(bands["RETRY"], bands["GLOBAL"])
<1>1. /\ bands[BandOf[channel]] \in Nat /\ bands["RETRY"] \in Nat
      /\ bands["GLOBAL"] \in Nat
  BY OwnBand DEF Band
<1>2. CASE c = channel
  BY <1>1, <1>2 DEF Larger
<1>3. CASE c \in choice
  <2>1. c \in channels /\ bands[BandOf[c]] <= limit
    BY <1>3 DEF Selection, Available
  <2>2. c \in Channel /\ channels = Channel
    BY <2>1
  <2>3. UntilNext(bands, channels) \in Nat
        /\ UntilNext(bands, channels) <= UntilAvailable(bands, channel)
    BY <2>2, UntilNextIsLeast
  <2>4. UntilAvailable(bands, channel) <= waits /\ UntilAvailable(bands, channel) \in Nat
    BY <1>1 DEF UntilAvailable, Larger
  <2>5. limit <= waits /\ limit \in Nat /\ waits \in Nat
    BY <1>1, <2>3, <2>4 DEF Larger
  <2>6. bands[BandOf[c]] \in Nat
    BY <2>2, OwnBand
  <2> HIDE DEF limit, waits
  <2>7. bands[BandOf[c]] <= waits
    BY <2>1, <2>5, <2>6
  <2>8. QED
    BY <2>7 DEF waits
<1>4. QED
  BY <1>2, <1>3 DEF ForRetry

\* The off-time of a retry covers that of the uplink it repeats.
LEMMA RetryCovers ==
    ASSUME WholeMs, RetryOutlasts, IInv, BandReady, state = "TX", op # "UNCONFIRMED",
           NEW duty \in RetryDuties
    PROVE  /\ Retrying(duty) \in [Band -> Nat] /\ channel \in Channel
           /\ Retrying(duty)[BandOf[channel]] <= Retrying(duty)["RETRY"]
<1> DEFINE own == BandOf[channel]
<1>1. channel \in Channel /\ air \in Nat /\ duty \in Nat
  BY BandsAssumption DEF IInv, TypeOK
<1>2. own \in RegionBand /\ own \in Band /\ own # "RETRY" /\ Factor[own] \in Nat
      /\ "RETRY" \in Band
  BY <1>1, OwnBand, BandsAssumption DEF Band
<1>3. Current \in [Band -> Nat]
  <2>1. \A b \in Band : Current[b] \in Nat
    BY CurrentFacts, BandsAssumption
  <2>2. QED
    BY <2>1 DEF Current
<1>4. air * duty \in Nat /\ air * Factor[own] \in Nat
  BY <1>1, <1>2, ProductFacts
<1>5. air * Factor[own] <= air * duty
  <2>1. duty - Factor[own] \in Nat
    BY <1>1, <1>2 DEF RetryOutlasts
  <2>2. air * (duty - Factor[own]) \in Nat
    BY <1>1, <2>1, ProductFacts
  <2>3. air * (duty - Factor[own]) = air * duty - air * Factor[own]
    BY <1>1, <1>2
  <2>4. QED
    BY <1>4, <2>2, <2>3
<1>6. Current[own] <= band[own] /\ band[own] \in Nat
  <2>1. Since \in Nat
    BY SinceFacts DEF IInv, TypeOK
  <2>2. band[own] \in Nat
    BY <1>2, BandsAssumption DEF IInv, TypeOK
  <2>3. Current[own] = RunDown(band[own], Since)
    BY <1>2 DEF Current
  <2>4. RunDown(band[own], Since) \in 0..band[own]
    BY <2>1, <2>2, RunDownFacts
  <2>5. QED
    BY <2>2, <2>3, <2>4
<1>7. band[own] <= air * Factor[own]
  BY DEF BandReady
<1>8. Current[own] <= air * duty
  BY <1>2, <1>3, <1>4, <1>5, <1>6, <1>7
<1>9. /\ Retrying(duty)["RETRY"] = air * duty
      /\ Retrying(duty)[own] = Current[own]
      /\ Retrying(duty) \in [Band -> Nat]
  BY <1>2, <1>3, <1>4 DEF Retrying
<1>10. QED
  BY <1>1, <1>8, <1>9

\* Every step leaves the band of the channel as its next state needs it.
LEMMA BandReadyStep ==
    ASSUME WholeMs, RetryOutlasts, IInv, BandReady, [Next]_vars
    PROVE  BandReady'
<1>1. usable' \in {{}, Channel}
  BY BandsAssumption
  DEF BandReady, RetryOutlasts, Next, Process, ProcessWaitTx, MissingConfirmed,
      MissingUnconfirmed, MissingLast, MissingJoin, ProcessEnd, ProcessRetry,
      ProcessNothing, Otaa, Data, Start, Cancel, SetChannels, SetMaxDCycle, Tick,
      setting, request, vars
<1>2. Since \in Nat
  BY SinceFacts DEF IInv, TypeOK
<1>3. \A b \in Band : band[b] \in Nat /\ Current[b] = RunDown(band[b], Since)
  BY BandsAssumption DEF IInv, TypeOK, Current
<1>4. state # "IDLE" => /\ channel \in Channel /\ air \in Nat
                        /\ BandOf[channel] \in Band
                        /\ air * Factor[BandOf[channel]] \in Nat
  <2>1. state # "IDLE" => channel \in Channel /\ air \in Nat
    BY BandsAssumption DEF IInv, TypeOK
  <2>2. state # "IDLE" => BandOf[channel] \in Band /\ Factor[BandOf[channel]] \in Nat
    BY <2>1, OwnBand, BandsAssumption
  <2>3. QED
    BY <2>1, <2>2, ProductFacts
<1>5. "RETRY" \in Band /\ "GLOBAL" \in Band
  BY DEF Band
\* What runs down stays ready.
<1>6. ASSUME band' = Current, UNCHANGED <<channel, air, op>>,
             \/ state' = state
             \/ /\ state = "WAIT_RETRY" /\ state' = "WAIT_TX"
                /\ Current["RETRY"] = 0 /\ Current["GLOBAL"] = 0
      PROVE  BandReady'
  <2>1. CASE state = "IDLE"
    BY <1>1, <1>6, <2>1 DEF BandReady
  <2>2. CASE state # "IDLE"
    <3> DEFINE own == BandOf[channel]
    <3>1. own \in Band /\ band[own] \in Nat /\ air * Factor[own] \in Nat
      BY <2>2, <1>3, <1>4
    <3>2. Current[own] \in 0..band[own]
      <4>1. RunDown(band[own], Since) \in 0..band[own]
        BY <3>1, <1>2, RunDownFacts
      <4>2. QED
        BY <3>1, <4>1, <1>3
    <3>3. state = "WAIT_RETRY" => Current[own] <= Larger(Current["RETRY"], Current["GLOBAL"])
      <4> SUFFICES ASSUME state = "WAIT_RETRY"
                   PROVE  Current[own] <= Larger(Current["RETRY"], Current["GLOBAL"])
        OBVIOUS
      <4>1. /\ band["RETRY"] \in Nat /\ band["GLOBAL"] \in Nat
            /\ band[own] <= band["RETRY"] \/ band[own] <= band["GLOBAL"]
        BY <1>3, <1>5 DEF BandReady, Larger
      <4>2. \/ RunDown(band[own], Since) <= RunDown(band["RETRY"], Since)
            \/ RunDown(band[own], Since) <= RunDown(band["GLOBAL"], Since)
        BY <4>1, <3>1, <1>2, RunDownFacts
      <4>3. /\ RunDown(band["RETRY"], Since) \in 0..band["RETRY"]
            /\ RunDown(band["GLOBAL"], Since) \in 0..band["GLOBAL"]
        BY <4>1, <1>2, RunDownFacts
      <4>4. QED
        BY <4>1, <4>2, <4>3, <3>1, <3>2, <1>3, <1>5 DEF Larger
    <3>4. /\ state = "WAIT_TX" /\ op # "UNCONFIRMED" => Current[own] = 0
          /\ state = "TX" /\ op # "UNCONFIRMED" => Current[own] <= air * Factor[own]
      BY <3>1, <3>2 DEF BandReady
    <3>5. state' = "WAIT_TX" /\ state = "WAIT_RETRY" => Current[own] = 0
      BY <1>6, <3>1, <3>2, <3>3 DEF Larger
    <3> HIDE DEF own
    <3>6. /\ state' = "WAIT_TX" /\ op # "UNCONFIRMED" => Current[own] = 0
          /\ state' = "TX" /\ op # "UNCONFIRMED" => Current[own] <= air * Factor[own]
          /\ state' = "WAIT_RETRY" => Current[own] <= Larger(Current["RETRY"], Current["GLOBAL"])
      BY <1>6, <3>3, <3>4, <3>5
    <3>7. QED
      BY <1>1, <1>6, <3>6 DEF BandReady, own
  <2>3. QED
    BY <2>1, <2>2
<1>7. CASE ProcessWaitTx
  <2> DEFINE own   == BandOf[channel]
             short == air * Factor[own]
  <2>1. state = "WAIT_TX" /\ state' = "TX" /\ band' = Registered(Current)
        /\ UNCHANGED <<op, channel, air>>
    BY <1>7 DEF ProcessWaitTx, Processing
  <2>2. /\ own \in Band /\ own # "GLOBAL" /\ short \in Nat /\ Factor[own] \in Nat
        /\ air \in Nat
    BY <2>1, <1>4, OwnBand, BandsAssumption
  <2>3. SUFFICES ASSUME op # "UNCONFIRMED" PROVE Registered(Current)[own] <= short
    BY <1>1, <2>1 DEF BandReady
  <2>4. Current[own] = 0
    <3>1. band[own] = 0
      BY <2>1, <2>3 DEF BandReady
    <3>2. QED
      BY <3>1, <1>2, <1>3, <2>2 DEF RunDown
  <2>5. Factor[own] = 0 => short = 0
    BY <2>2
  <2> HIDE DEF short
  <2>6. Registered(Current)[own] = IF Factor[own] > 0 THEN Plus(0, short) ELSE 0
    BY <2>2, <2>4 DEF Registered, Register, Current, short
  <2>7. QED
    BY <2>2, <2>5, <2>6, BandsAssumption DEF Plus, Smaller
\* The retry of a request that is not an unconfirmed one.
<1>8. ASSUME state = "TX", op # "UNCONFIRMED", state' = "WAIT_RETRY",
             NEW duty \in RetryDuties, band' = Retrying(duty),
             NEW channels \in {{}, Channel}, ForRetry(Retrying(duty), channels, channel')
      PROVE  BandReady'
  <2>1. /\ Retrying(duty) \in [Band -> Nat] /\ channel \in Channel
        /\ Retrying(duty)[BandOf[channel]] <= Retrying(duty)["RETRY"]
    BY <1>8, RetryCovers
  <2>2. Retrying(duty)[BandOf[channel']]
            <= Larger(Retrying(duty)["RETRY"], Retrying(duty)["GLOBAL"])
    BY <1>8, <2>1, RetryChannel
  <2>3. QED
    BY <1>1, <1>8, <2>2 DEF BandReady
<1>9. CASE MissingConfirmed
  <2>1. state = "TX" /\ op # "UNCONFIRMED" /\ state' = "WAIT_RETRY"
    BY <1>9 DEF MissingConfirmed, Missing
  <2>2. PICK duty \in RetryDuties :
           /\ Processing(Retrying(duty), RetryOwed(duty))
           /\ ForRetry(Retrying(duty), usable, channel')
    BY <1>9 DEF MissingConfirmed, ForRetry
  <2>3. band' = Retrying(duty) /\ usable \in {{}, Channel}
    BY <2>2 DEF Processing, BandReady
  <2>4. QED
    BY <1>8, <2>1, <2>2, <2>3
<1>10. CASE MissingJoin
  <2>1. CASE state' = "IDLE"
    BY <1>1, <2>1 DEF BandReady
  <2>2. CASE state' # "IDLE"
    <3>1. state = "TX" /\ op # "UNCONFIRMED"
      BY <1>10 DEF MissingJoin, Missing
    <3>2. PICK duty \in RetryDuties :
             /\ Processing(Retrying(duty), RetryOwed(duty))
             /\ ForRetry(Retrying(duty), usable', channel')
             /\ state' = "WAIT_RETRY"
      BY <1>10, <2>2 DEF MissingJoin, ForRetry
    <3>3. band' = Retrying(duty)
      BY <3>2 DEF Processing
    <3>4. QED
      BY <1>1, <1>8, <3>1, <3>2, <3>3
  <2>3. QED
    BY <2>1, <2>2
<1>11. CASE MissingUnconfirmed
  BY <1>1, <1>11 DEF MissingUnconfirmed, Missing, BandReady
<1>12. CASE MissingLast \/ ProcessEnd \/ Cancel
  BY <1>1, <1>12 DEF MissingLast, ProcessEnd, Cancel, BandReady
<1>13. CASE ProcessRetry
  <2>1. /\ band' = Current /\ UNCHANGED <<channel, air, op>>
        /\ state = "WAIT_RETRY" /\ state' = "WAIT_TX"
        /\ Current["RETRY"] = 0 /\ Current["GLOBAL"] = 0
    BY <1>13 DEF ProcessRetry, Processing
  <2>2. QED
    BY <1>6, <2>1
<1>14. CASE ProcessNothing
  BY <1>6, <1>14 DEF ProcessNothing, Processing, request
\* A request begins on a channel whose band is open.
<1>15. ASSUME NEW o, NEW channels \in SUBSET Channel, Start(o, channels)
       PROVE  state' = "WAIT_TX" /\ channel' \in Channel /\ band[BandOf[channel']] = 0
  <2>1. channel' \in Selection(band, channels, 0) /\ state' = "WAIT_TX"
    BY <1>15 DEF Start
  <2>2. channel' \in Channel /\ band[BandOf[channel']] <= 0
    BY <2>1 DEF Selection, Available
  <2>3. QED
    BY <2>1, <2>2, <1>3, OwnBand
<1>16. CASE Data
  <2>1. state' = "WAIT_TX" /\ band[BandOf[channel']] = 0
    BY <1>15, <1>16, BandsAssumption DEF Data
  <2>2. QED
    BY <1>1, <1>16, <2>1 DEF Data, BandReady
<1>17. CASE Otaa
  <2>1. CASE state' = "IDLE"
    BY <1>1, <2>1 DEF BandReady
  <2>2. CASE state' # "IDLE"
    <3>1. PICK channels \in Usable : Start("JOINING", channels)
      BY <1>17, <2>2 DEF Otaa
    <3>2. state' = "WAIT_TX" /\ channel' \in Channel /\ band[BandOf[channel']] = 0
      BY <1>15, <3>1, BandsAssumption
    <3>3. band'[BandOf[channel']] = 0
      BY <1>17, <3>2, OwnBand DEF Otaa, IInv, TypeOK
    <3>4. QED
      BY <1>1, <3>2, <3>3 DEF BandReady
  <2>3. QED
    BY <2>1, <2>2
<1>18. CASE SetChannels \/ SetMaxDCycle \/ Tick
  BY <1>1, <1>18 DEF SetChannels, SetMaxDCycle, Tick, request, setting, BandReady
<1>19. CASE UNCHANGED vars
  BY <1>19 DEF vars, request, setting, BandReady
<1>20. QED
  BY <1>7, <1>9, <1>10, <1>11, <1>12, <1>13, <1>14, <1>16, <1>17, <1>18, <1>19
  DEF Next, Process

\* A join and a confirmed request are sent, first and again, in an open band,
\* when a retry's off-time outlasts that of its band.
THEOREM SentWhenOpen == ASSUME WholeMs, RetryOutlasts PROVE Spec => SentInOpenBand
<1>1. Init => BandReady
  BY DEF Init, BandReady, RetryOutlasts
<1>2. IInv /\ BandReady /\ [Next]_vars => BandReady'
  BY BandReadyStep
<1>3. IInv /\ BandReady /\ [Next]_vars
        => [state = "WAIT_TX" /\ state' = "TX" /\ op # "UNCONFIRMED"
              => Current[BandOf[channel]] = 0]_vars
  <2> SUFFICES ASSUME IInv, BandReady, state = "WAIT_TX", op # "UNCONFIRMED"
               PROVE  Current[BandOf[channel]] = 0
    OBVIOUS
  <2>1. band[BandOf[channel]] = 0
    BY DEF BandReady
  <2>2. BandOf[channel] \in Band
    BY OwnBand DEF IInv, TypeOK
  <2>3. Since \in Nat
    BY SinceFacts DEF IInv, TypeOK
  <2>4. QED
    BY <2>1, <2>2, <2>3 DEF Current, RunDown
<1>4. QED
  BY <1>1, <1>2, <1>3, InvariantHolds, PTL DEF Spec, SentInOpenBand
=============================================================================
