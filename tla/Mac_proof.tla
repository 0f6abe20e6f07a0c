----------------------------- MODULE Mac_proof -----------------------------
(***************************************************************************)
(* Theorems about Mac and MacService, for every value of their constants.  *)
(***************************************************************************)
EXTENDS MacService, TLAPS

-----------------------------------------------------------------------------
(***************************************************************************)
(* Facts about the operators.                                              *)
(***************************************************************************)
\* The trial counter never leaves its type, and does not wrap below the
\* largest number of transmissions a request may ask for.
LEMMA ModFacts ==
    ASSUME NEW n \in Nat, NEW m \in Nat, m > 0
    PROVE  /\ n % m \in Nat
           /\ n < m => n % m = n
OBVIOUS

\* Setting, clearing and running down a timer keep it a timer.
LEMMA TimerFacts ==
    /\ TimerOff \in Timer
    /\ \A d \in Int : TimerSet(d) \in Timer
    /\ \A t \in Timer : RunDown(t) \in Timer
BY ConstantsAssumption DEF TimerOff, TimerSet, Timer, RunDown

\* Whatever the driver asks of the chip is a state of the chip.
LEMMA ChipFacts ==
    /\ Asleep \in Chip
    /\ Transmission \subseteq Chip
    /\ Reception \subseteq Chip
BY ConstantsAssumption
   DEF Asleep, Chip, Transmission, Reception, Failed, RadioEvents

\* Clearing, arming and signalling inputs keep their type.
LEMMA InputFacts ==
    /\ InputsClear \in Inputs
    /\ \A evs \in SUBSET RadioEvents : InputsArm(evs) \in Inputs
    /\ \A ev \in RadioEvents : inputs \in Inputs => InputSignal(ev) \in Inputs
BY DEF InputsClear, InputsArm, InputSignal, Inputs, RadioEvents

-----------------------------------------------------------------------------
(***************************************************************************)
(* Every variable keeps its type.  One step per action.                    *)
(***************************************************************************)
\* LDL_MAC_init() leaves every variable with its type.
LEMMA TypeInit == Init => TypeOK
<1> SUFFICES ASSUME Init PROVE TypeOK
  OBVIOUS
<1>1. ctxNb \in 0..15 /\ waitA \in Timer /\ waitB \in Timer
  BY ConstantsAssumption, TimerFacts DEF Init
<1>2. inputs \in Inputs /\ chip \in Chip
  BY ChipFacts, InputFacts DEF Init
<1>3. joined \in BOOLEAN /\ retryOff \in BOOLEAN /\ globalOff \in BOOLEAN
  BY DEF Init
<1>4. QED
  BY <1>1, <1>2, <1>3, ConstantsAssumption
  DEF Init, TypeOK, States, Ops, RadioEvents

\* No step of the main thread, the interrupt handler or the clock breaks it.
LEMMA TypeStep == TypeOK /\ [Next]_vars => TypeOK'
<1> SUFFICES ASSUME TypeOK, [Next]_vars PROVE TypeOK'
  OBVIOUS
<1> USE ConstantsAssumption, TimerFacts, ChipFacts, InputFacts
    DEF TypeOK, States, Serving, Receiving, Resetting, Ops, Requests, DataOps,
        Responses, session, bands, history, ChipTo, ChipIn
<1>1. CASE ProcessInit
  BY <1>1 DEF ProcessInit, RadioEvents
<1>2. CASE ProcessReset
  BY <1>2 DEF ProcessReset, RadioEvents
<1>3. CASE ProcessLockout
  BY <1>3 DEF ProcessLockout, RadioEvents
<1>4. CASE ProcessEntropy
  BY <1>4 DEF ProcessEntropy, RadioEvents
<1>5. CASE ProcessWaitTx
  <2>1. globalOff' \in BOOLEAN
    BY <1>5 DEF ProcessWaitTx, GlobalLimit
  <2>2. inputs' \in Inputs /\ chip' \in Chip
    BY <1>5 DEF ProcessWaitTx, RadioEvents
  <2>3. sent' \in Nat /\ waitA' \in Timer
    BY <1>5 DEF ProcessWaitTx
  <2>4. QED
    BY <1>5, <2>1, <2>2, <2>3 DEF ProcessWaitTx
<1>6. CASE ProcessTxComplete
  BY <1>6 DEF ProcessTxComplete, Advance, RxDelay, RadioEvents, Inputs
<1>7. CASE ProcessTxGuard
  BY <1>7 DEF ProcessTxGuard, ChipError, RadioEvents
<1>8. CASE ProcessWaitRx1
  BY <1>8 DEF ProcessWaitRx1, OpenWindow, Guard, RadioEvents
<1>9. CASE ProcessWaitRx2
  BY <1>9 DEF ProcessWaitRx2, OpenWindow, Guard, RadioEvents
<1>10. CASE ProcessRxReady
  <2>1. trials' \in Nat
    BY <1>10, ModFacts DEF ProcessRxReady, DownlinkMissing, NextTrial
  <2>2. joined' \in BOOLEAN
    BY <1>10 DEF ProcessRxReady
  <2>3. retryOff' \in BOOLEAN
    BY <1>10 DEF ProcessRxReady, DownlinkMissing
  <2>4. ctxNb' \in 0..15
    BY <1>10 DEF ProcessRxReady
  <2>5. state' \in States /\ op' \in Ops /\ waitA' \in Timer /\ out' \subseteq Responses
    BY <1>10 DEF ProcessRxReady, DownlinkMissing, GiveUp
  <2>6. QED
    BY <1>10, <2>1, <2>2, <2>3, <2>4, <2>5 DEF ProcessRxReady
<1>11. CASE ProcessRxTimeout
  BY <1>11 DEF ProcessRxTimeout, RadioEvents
<1>12. CASE ProcessRxGuard
  BY <1>12 DEF ProcessRxGuard, ChipError, RadioEvents
<1>13. CASE ProcessRx2Lockout
  <2>1. trials' \in Nat
    BY <1>13, ModFacts DEF ProcessRx2Lockout, DownlinkMissing, NextTrial
  <2>2. retryOff' \in BOOLEAN
    BY <1>13 DEF ProcessRx2Lockout, DownlinkMissing
  <2>3. state' \in States /\ op' \in Ops /\ waitA' \in Timer /\ out' \subseteq Responses
    BY <1>13 DEF ProcessRx2Lockout, DownlinkMissing, GiveUp
  <2>4. QED
    BY <1>13, <2>1, <2>2, <2>3 DEF ProcessRx2Lockout
<1>14. CASE ProcessRetry
  BY <1>14 DEF ProcessRetry
<1>15. CASE ProcessNothing
  BY <1>15 DEF ProcessNothing
<1>16. CASE Otaa
  <2>1. joined' \in BOOLEAN /\ retryOff' \in BOOLEAN
    BY <1>16 DEF Otaa
  <2>2. state' \in States /\ op' \in Ops /\ waitA' \in Timer
    BY <1>16 DEF Otaa
  <2>3. out' \subseteq Responses
    BY <1>16 DEF Otaa
  <2>4. QED
    BY <1>16, <2>1, <2>2, <2>3 DEF Otaa
<1>17. ASSUME NEW c \in BOOLEAN, Data(c) PROVE TypeOK'
  BY <1>17 DEF Data
<1>18. CASE Cancel
  BY <1>18 DEF Cancel, Abandon
<1>19. CASE Forget
  BY <1>19 DEF Forget, Abandon
<1>20. CASE Interrupt
  <2>1. inputs' \in Inputs
    BY <1>20, InputFacts DEF Interrupt
  <2>2. QED
    BY <1>20, <2>1 DEF Interrupt, RadioEvents
<1>21. CASE Tick
  BY <1>21 DEF Tick, ChipTick, Chip, Inputs, RadioEvents
<1>22. CASE RetryOver \/ GlobalOver
  BY ZenonT(60), <1>22 DEF RetryOver, GlobalOver
<1>23. CASE UNCHANGED vars
  BY <1>23 DEF vars
<1>24. QED
  BY <1>1, <1>2, <1>3, <1>4, <1>5, <1>6, <1>7, <1>8, <1>9, <1>10, <1>11,
     <1>12, <1>13, <1>14, <1>15, <1>16, <1>17, <1>18, <1>19, <1>20, <1>21,
     <1>22, <1>23
  DEF Next, Process, Application

\* Every variable of the MAC has its type in every reachable state.
THEOREM TypeCorrect == Spec => []TypeOK
BY TypeInit, TypeStep, PTL DEF Spec

-----------------------------------------------------------------------------
(***************************************************************************)
(* The machine has an operation in hand and a timer running exactly as its *)
(* state requires.                                                         *)
(***************************************************************************)
ControlInv == OpMatchesState /\ NeverStranded

\* Every step leaves a request in hand, and a timer armed, where the state it
\* leads to needs one.
LEMMA ControlStep == TypeOK /\ ControlInv /\ [Next]_vars => ControlInv'
<1> SUFFICES ASSUME TypeOK, ControlInv, [Next]_vars PROVE ControlInv'
  OBVIOUS
<1> USE DEF TypeOK, ControlInv, OpMatchesState, NeverStranded, States, Serving,
        Receiving, Resetting, Ops, Requests, DataOps, session, bands, history,
        TimerSet, TimerOff, Timer
<1>1. CASE ProcessInit
  BY <1>1 DEF ProcessInit
<1>2. CASE ProcessReset
  BY <1>2 DEF ProcessReset
<1>3. CASE ProcessLockout
  BY <1>3 DEF ProcessLockout
<1>4. CASE ProcessEntropy
  BY <1>4 DEF ProcessEntropy
<1>5. CASE ProcessWaitTx
  BY <1>5 DEF ProcessWaitTx
<1>6. CASE ProcessTxComplete
  BY <1>6 DEF ProcessTxComplete
<1>7. CASE ProcessTxGuard
  BY <1>7 DEF ProcessTxGuard, ChipError
<1>8. CASE ProcessWaitRx1
  BY <1>8 DEF ProcessWaitRx1, OpenWindow
<1>9. CASE ProcessWaitRx2
  BY <1>9 DEF ProcessWaitRx2, OpenWindow
<1>10. CASE ProcessRxReady
  BY <1>10 DEF ProcessRxReady, DownlinkMissing, GiveUp
<1>11. CASE ProcessRxTimeout
  BY <1>11 DEF ProcessRxTimeout
<1>12. CASE ProcessRxGuard
  BY <1>12 DEF ProcessRxGuard, ChipError
<1>13. CASE ProcessRx2Lockout
  BY <1>13 DEF ProcessRx2Lockout, DownlinkMissing, GiveUp
<1>14. CASE ProcessRetry
  BY <1>14 DEF ProcessRetry
<1>15. CASE ProcessNothing
  BY <1>15 DEF ProcessNothing
<1>16. CASE Otaa
  BY <1>16 DEF Otaa
<1>17. ASSUME NEW c \in BOOLEAN, Data(c) PROVE ControlInv'
  BY <1>17 DEF Data
<1>18. CASE Cancel
  BY <1>18 DEF Cancel, Abandon
<1>19. CASE Forget
  BY <1>19 DEF Forget, Abandon
<1>20. CASE Interrupt
  BY <1>20 DEF Interrupt, InputSignal
<1>21. CASE Tick
  BY <1>21 DEF Tick, RunDown, ChipTick
<1>22. CASE RetryOver \/ GlobalOver
  BY <1>22 DEF RetryOver, GlobalOver
<1>23. CASE UNCHANGED vars
  BY <1>23 DEF vars
<1>24. QED
  BY <1>1, <1>2, <1>3, <1>4, <1>5, <1>6, <1>7, <1>8, <1>9, <1>10, <1>11,
     <1>12, <1>13, <1>14, <1>15, <1>16, <1>17, <1>18, <1>19, <1>20, <1>21, <1>22,
     <1>23
  DEF Next, Process, Application

\* In every state that waits, a timer is armed that ends the wait; a request is
\* in hand exactly in the states that serve one.
THEOREM ControlCorrect == Spec => [](OpMatchesState /\ NeverStranded)
<1>1. Init => ControlInv
  BY DEF Init, ControlInv, OpMatchesState, NeverStranded, Serving, Receiving,
         Resetting, TimerSet
<1>2. QED
  BY <1>1, ControlStep, TypeCorrect, PTL DEF Spec, ControlInv

-----------------------------------------------------------------------------
(***************************************************************************)
(* The state, the chip and the latched input agree, and the interrupt a    *)
(* state waits for reaches it.                                             *)
(***************************************************************************)
RadioInv == RadioMatchesState /\ RadioConsistent /\ InterruptNotLost

\* No step leaves the radio on, or loses the interrupt the state waits for.
LEMMA RadioStep == TypeOK /\ RadioInv /\ [Next]_vars => RadioInv'
<1> SUFFICES ASSUME TypeOK, RadioInv, [Next]_vars PROVE RadioInv'
  OBVIOUS
<1> USE DEF TypeOK, RadioInv, RadioMatchesState, RadioConsistent,
        InterruptNotLost, Serving, Receiving, Resetting, session, bands,
        history, ChipTo, ChipIn, Asleep, Inputs, Chip, RadioEvents
<1>1. CASE ProcessInit
  BY <1>1 DEF ProcessInit
<1>2. CASE ProcessReset
  BY <1>2 DEF ProcessReset
<1>3. CASE ProcessLockout
  BY <1>3 DEF ProcessLockout
<1>4. CASE ProcessEntropy
  BY <1>4 DEF ProcessEntropy
<1>5. CASE ProcessWaitTx
  BY ConstantsAssumption, <1>5 DEF ProcessWaitTx, InputsArm, Transmission, Failed
<1>6. CASE ProcessTxComplete
  BY <1>6 DEF ProcessTxComplete, InputsClear
<1>7. CASE ProcessTxGuard
  BY <1>7 DEF ProcessTxGuard, ChipError, InputsClear
<1>8. CASE ProcessWaitRx1
  BY ConstantsAssumption, <1>8 DEF ProcessWaitRx1, OpenWindow, InputsArm, Reception, Failed
<1>9. CASE ProcessWaitRx2
  BY ConstantsAssumption, <1>9 DEF ProcessWaitRx2, OpenWindow, InputsArm, Reception, Failed
<1>10. CASE ProcessRxReady
  BY <1>10 DEF ProcessRxReady, DownlinkMissing, GiveUp, InputsClear
<1>11. CASE ProcessRxTimeout
  BY <1>11 DEF ProcessRxTimeout, InputsClear
<1>12. CASE ProcessRxGuard
  BY <1>12 DEF ProcessRxGuard, ChipError, InputsClear
<1>13. CASE ProcessRx2Lockout
  BY <1>13 DEF ProcessRx2Lockout, DownlinkMissing, GiveUp
<1>14. CASE ProcessRetry
  BY <1>14 DEF ProcessRetry
<1>15. CASE ProcessNothing
  BY <1>15 DEF ProcessNothing
<1>16. CASE Otaa
  BY <1>16 DEF Otaa
<1>17. ASSUME NEW c \in BOOLEAN, Data(c) PROVE RadioInv'
  BY <1>17 DEF Data
<1>18. CASE Cancel
  BY <1>18 DEF Cancel, Abandon
<1>19. CASE Forget
  BY <1>19 DEF Forget, Abandon
<1>20. CASE Interrupt
  BY <1>20 DEF Interrupt, InputSignal
<1>21. CASE Tick
  BY <1>21 DEF Tick, RunDown, ChipTick
<1>22. CASE RetryOver \/ GlobalOver
  BY <1>22 DEF RetryOver, GlobalOver
<1>23. CASE UNCHANGED vars
  BY <1>23 DEF vars
<1>24. QED
  BY <1>1, <1>2, <1>3, <1>4, <1>5, <1>6, <1>7, <1>8, <1>9, <1>10, <1>11,
     <1>12, <1>13, <1>14, <1>15, <1>16, <1>17, <1>18, <1>19, <1>20, <1>21, <1>22,
     <1>23
  DEF Next, Process, Application

\* The radio is on only in the states that use it, and no interrupt is lost.
THEOREM RadioCorrect == Spec => [](RadioMatchesState /\ InterruptNotLost)
<1>1. Init => RadioInv
  BY DEF Init, RadioInv, RadioMatchesState, RadioConsistent, InterruptNotLost,
         Receiving, Asleep, InputsClear
<1>2. QED
  BY <1>1, RadioStep, TypeCorrect, PTL DEF Spec, RadioInv

-----------------------------------------------------------------------------
(***************************************************************************)
(* The trials of a data request.                                           *)
(***************************************************************************)
\* While a trial is left the counter does not wrap.
LEMMA TrialFacts ==
    ASSUME TypeOK, trials < NbTrans
    PROVE  NextTrial = trials + 1
<1>1. NbTrans \in 1..15
  BY DEF NbTrans, TypeOK
<1>2. trials + 1 < TrialsMod /\ trials + 1 \in Nat
  BY <1>1, ConstantsAssumption DEF TypeOK
<1>3. QED
  BY <1>2, ModFacts, ConstantsAssumption DEF NextTrial

\* Trials and transmissions are counted in step.
LEMMA TrialsStep ==
    TypeOK /\ TrialsCounted /\ [Next]_vars => TrialsCounted'
<1> SUFFICES ASSUME TypeOK, TrialsCounted, [Next]_vars PROVE TrialsCounted'
  OBVIOUS
<1> USE DEF TypeOK, TrialsCounted, NbTrans, Serving, Receiving, Resetting,
        DataOps, session, bands, history
<1>1. CASE ProcessInit
  BY <1>1 DEF ProcessInit
<1>2. CASE ProcessReset
  BY <1>2 DEF ProcessReset
<1>3. CASE ProcessLockout
  BY <1>3 DEF ProcessLockout
<1>4. CASE ProcessEntropy
  BY <1>4 DEF ProcessEntropy
<1>5. CASE ProcessWaitTx
  BY <1>5 DEF ProcessWaitTx
<1>6. CASE ProcessTxComplete
  BY <1>6 DEF ProcessTxComplete
<1>7. CASE ProcessTxGuard
  BY <1>7 DEF ProcessTxGuard, ChipError
<1>8. CASE ProcessWaitRx1
  BY <1>8 DEF ProcessWaitRx1, OpenWindow
<1>9. CASE ProcessWaitRx2
  BY <1>9 DEF ProcessWaitRx2, OpenWindow
<1>10. CASE ProcessRxReady
  BY TrialFacts, <1>10 DEF ProcessRxReady, DownlinkMissing, GiveUp, LastTrial
<1>11. CASE ProcessRxTimeout
  BY <1>11 DEF ProcessRxTimeout
<1>12. CASE ProcessRxGuard
  BY <1>12 DEF ProcessRxGuard, ChipError
<1>13. CASE ProcessRx2Lockout
  BY TrialFacts, <1>13 DEF ProcessRx2Lockout, DownlinkMissing, GiveUp, LastTrial
<1>14. CASE ProcessRetry
  BY <1>14 DEF ProcessRetry
<1>15. CASE ProcessNothing
  BY <1>15 DEF ProcessNothing
<1>16. CASE Otaa
  BY <1>16 DEF Otaa
<1>17. ASSUME NEW c \in BOOLEAN, Data(c) PROVE TrialsCounted'
  BY ConstantsAssumption, <1>17 DEF Data
<1>18. CASE Cancel
  BY <1>18 DEF Cancel, Abandon
<1>19. CASE Forget
  BY <1>19 DEF Forget, Abandon
<1>20. CASE Interrupt
  BY <1>20 DEF Interrupt, InputSignal
<1>21. CASE Tick
  BY <1>21 DEF Tick, RunDown, ChipTick
<1>22. CASE RetryOver \/ GlobalOver
  BY <1>22 DEF RetryOver, GlobalOver
<1>23. CASE UNCHANGED vars
  BY <1>23 DEF vars
<1>24. QED
  BY <1>1, <1>2, <1>3, <1>4, <1>5, <1>6, <1>7, <1>8, <1>9, <1>10, <1>11,
     <1>12, <1>13, <1>14, <1>15, <1>16, <1>17, <1>18, <1>19, <1>20, <1>21, <1>22,
     <1>23
  DEF Next, Process, Application

\* A data request is never transmitted more often than nbTrans allows.
THEOREM TransmissionsBounded == Spec => []TransmissionBound
<1>1. Init => TrialsCounted
  BY DEF Init, TrialsCounted, Serving, Receiving
<1>2. TypeOK /\ TrialsCounted => TransmissionBound
  BY DEF TypeOK, TrialsCounted, TransmissionBound, NbTrans
<1>3. QED
  BY <1>1, <1>2, TrialsStep, TypeCorrect, PTL DEF Spec

-----------------------------------------------------------------------------
(***************************************************************************)
(* The time of the first receive window.                                   *)
(***************************************************************************)
\* The timer of the first window stays tied to the end of the uplink.
LEMMA ScheduleStep ==
    TypeOK /\ ControlInv /\ RadioInv /\ Rx1Scheduled /\ [Next]_vars
        => Rx1Scheduled'
<1> SUFFICES ASSUME TypeOK, ControlInv, RadioInv, Rx1Scheduled, [Next]_vars
             PROVE  Rx1Scheduled'
  OBVIOUS
<1> USE DEF TypeOK, Rx1Scheduled, RxDelay, Serving, Receiving, Resetting,
        session, bands, history, ChipTo, ChipIn, Timer, Inputs, RadioEvents
<1>1. CASE ProcessInit
  BY <1>1 DEF ProcessInit
<1>2. CASE ProcessReset
  BY <1>2 DEF ProcessReset
<1>3. CASE ProcessLockout
  BY <1>3 DEF ProcessLockout
<1>4. CASE ProcessEntropy
  BY <1>4 DEF ProcessEntropy
<1>5. CASE ProcessWaitTx
  BY <1>5 DEF ProcessWaitTx, InputsArm
<1>6. CASE ProcessTxComplete
  BY ConstantsAssumption, <1>6 DEF ProcessTxComplete, Advance, TimerSet
<1>7. CASE ProcessTxGuard
  BY <1>7 DEF ProcessTxGuard, ChipError
<1>8. CASE ProcessWaitRx1
  BY <1>8 DEF ProcessWaitRx1, OpenWindow
<1>9. CASE ProcessWaitRx2
  BY <1>9 DEF ProcessWaitRx2, OpenWindow
<1>10. CASE ProcessRxReady
  BY <1>10 DEF ProcessRxReady, DownlinkMissing, GiveUp
<1>11. CASE ProcessRxTimeout
  BY <1>11 DEF ProcessRxTimeout
<1>12. CASE ProcessRxGuard
  BY <1>12 DEF ProcessRxGuard, ChipError
<1>13. CASE ProcessRx2Lockout
  BY <1>13 DEF ProcessRx2Lockout, DownlinkMissing, GiveUp
<1>14. CASE ProcessRetry
  BY <1>14 DEF ProcessRetry
<1>15. CASE ProcessNothing
  BY <1>15 DEF ProcessNothing, Expired, ControlInv, NeverStranded
<1>16. CASE Otaa
  BY <1>16 DEF Otaa
<1>17. ASSUME NEW c \in BOOLEAN, Data(c) PROVE Rx1Scheduled'
  BY <1>17 DEF Data
<1>18. CASE Cancel
  BY <1>18 DEF Cancel, Abandon
<1>19. CASE Forget
  BY <1>19 DEF Forget, Abandon
<1>20. CASE Interrupt
  BY <1>20 DEF Interrupt, InputSignal
<1>21. CASE Tick
  <2>1. (state = "TX" /\ irq' = "TX_COMPLETE") => since' = 0
    BY <1>21
    DEF Tick, ChipTick, AfterUplink, RadioInv, RadioMatchesState,
        RadioConsistent, Asleep, Chip
  <2>2. (state = "TX" /\ inputs'.state = "TX_COMPLETE")
          => inputs'.age = since' /\ inputs'.age <= lag'
    <3> SUFFICES ASSUME state = "TX", inputs'.state = "TX_COMPLETE"
                 PROVE  inputs'.age = since' /\ inputs'.age <= lag'
      OBVIOUS
    <3>1. inputs.state = "TX_COMPLETE"
      BY <1>21 DEF Tick
    <3>2. chip.mode = "SLEEP" /\ ProcessDue
      BY <3>1 DEF RadioInv, InterruptNotLost, Asleep, ProcessDue, InputPending
    <3>3. inputs.age <= MaxLatency
      BY <3>1, ConstantsAssumption
    <3>4. since' = since + 1 /\ lag' = lag + 1
      BY <1>21, <3>2 DEF Tick, AfterUplink
    <3>5. inputs'.age = inputs.age + 1
      BY <1>21, <3>1, <3>3 DEF Tick, InputPending
    <3>6. QED
      BY <3>1, <3>4, <3>5
  <2>3. state = "WAIT_RX1" =>
          /\ waitA'.left = (RxDelay - AdvanceA) - since'
          /\ -waitA'.left <= lag'
    <3> SUFFICES ASSUME state = "WAIT_RX1"
                 PROVE  /\ waitA'.left = (RxDelay - AdvanceA) - since'
                        /\ -waitA'.left <= lag'
      OBVIOUS
    <3>1. waitA.armed /\ waitA.left > -(Margin + MaxLatency + 1)
      BY ConstantsAssumption DEF ControlInv, NeverStranded
    <3>2. waitA'.left = waitA.left - 1 /\ since' = since + 1
      BY <1>21, <3>1 DEF Tick, RunDown, AfterUplink
    <3>3. waitA.left <= 0 => lag' = lag + 1
      BY <1>21, <3>1 DEF Tick, ProcessDue, Expired
    <3>4. lag' \in Nat
      BY <1>21 DEF Tick
    <3>5. QED
      BY <3>2, <3>3, <3>4, ConstantsAssumption
  <2>4. QED
    BY <1>21, <2>1, <2>2, <2>3 DEF Tick
<1>22. CASE RetryOver \/ GlobalOver
  BY <1>22 DEF RetryOver, GlobalOver
<1>23. CASE UNCHANGED vars
  BY <1>23 DEF vars
<1>24. QED
  BY <1>1, <1>2, <1>3, <1>4, <1>5, <1>6, <1>7, <1>8, <1>9, <1>10, <1>11,
     <1>12, <1>13, <1>14, <1>15, <1>16, <1>17, <1>18, <1>19, <1>20, <1>21, <1>22,
     <1>23
  DEF Next, Process, Application

\* RX1 is opened within the margin of the slot, counted from the end of the
\* uplink, whatever the latency of LDL_MAC_process().
THEOREM Rx1OnTime == Spec => Rx1SlotOnTime
<1>1. Init => ControlInv /\ RadioInv /\ Rx1Scheduled
  BY DEF Init, ControlInv, OpMatchesState, NeverStranded, TimerSet, Serving,
         Resetting, RadioInv, RadioMatchesState, RadioConsistent, InterruptNotLost,
         Receiving, Asleep, InputsClear, Rx1Scheduled
<1>2. TypeOK /\ Rx1Scheduled /\ [Next]_vars
        => [(state = "WAIT_RX1" /\ state' = "RX1") =>
              since - (RxDelay - AdvanceA) \in 0..Margin]_vars
  <2> SUFFICES ASSUME TypeOK, Rx1Scheduled, Next,
                      state = "WAIT_RX1", state' = "RX1"
               PROVE  since - (RxDelay - AdvanceA) \in 0..Margin
    OBVIOUS
  <2>1. ProcessWaitRx1
    BY DEF Next, Process, Application, ProcessInit, ProcessReset,
           ProcessLockout, ProcessEntropy, ProcessWaitTx, ProcessTxComplete,
           ProcessTxGuard, ProcessWaitRx2, ProcessRxReady, ProcessRxTimeout,
           ProcessRxGuard, ProcessRx2Lockout, ProcessRetry, ProcessNothing,
           Otaa, Data, Cancel, Forget, Abandon, Interrupt, Tick, RetryOver,
           GlobalOver, Receiving
  <2>2. Expired(waitA) /\ -waitA.left <= Margin
    BY <2>1 DEF ProcessWaitRx1
  <2>3. QED
    BY <2>2, ConstantsAssumption
    DEF Rx1Scheduled, Expired, TypeOK, Timer, RxDelay
<1>3. QED
  BY <1>1, <1>2, RadioStep, ControlStep, ScheduleStep, TypeCorrect, PTL
  DEF Spec, Rx1SlotOnTime

\* The whole inductive invariant: what the runs check of every part of it holds
\* for every value of the constants.
THEOREM InvariantHolds == Spec => []IInv
<1>1. Init => ControlInv /\ RadioInv /\ TrialsCounted /\ Rx1Scheduled
  BY DEF Init, ControlInv, OpMatchesState, NeverStranded, TimerSet, Serving,
         Resetting, RadioInv, RadioMatchesState, RadioConsistent, InterruptNotLost,
         Receiving, Asleep, InputsClear, Rx1Scheduled, TrialsCounted
<1>2. QED
  BY <1>1, RadioStep, ControlStep, TrialsStep, ScheduleStep, TypeCorrect, PTL
  DEF Spec, IInv, ControlInv, RadioInv

\* A serving state has a request to serve, and a machine being reset has none.
THEOREM OperationCorrect == Spec => []OpMatchesState
BY ControlCorrect, PTL

\* No way back to IDLE, to a wait or to a reset leaves the radio on.
THEOREM RadioModeCorrect == Spec => []RadioMatchesState
BY RadioCorrect, PTL

-----------------------------------------------------------------------------
(***************************************************************************)
(* What a request leaves behind.                                           *)
(***************************************************************************)
\* Between the windows nothing is armed or latched but the timer waited for:
\* WAITA is off while the second slot is waited for, WAITB after it.
QuietInv ==
    /\ state \in {"WAIT_RX1", "WAIT_RX2", "RX2_LOCKOUT"} =>
          inputs.state = "NONE" /\ inputs.armed = {}
    /\ state = "WAIT_RX2" => ~waitA.armed
    /\ state = "RX2_LOCKOUT" => ~waitB.armed

\* No step arms, between the windows, what the next one will not look at.
LEMMA QuietStep == TypeOK /\ QuietInv /\ [Next]_vars => QuietInv'
<1> SUFFICES ASSUME TypeOK, QuietInv, [Next]_vars PROVE QuietInv'
  OBVIOUS
<1> USE DEF TypeOK, QuietInv, Serving, Receiving, Resetting, session, bands,
        history, TimerSet, TimerOff, InputsClear
<1>1. CASE ProcessInit
  BY <1>1 DEF ProcessInit
<1>2. CASE ProcessReset
  BY <1>2 DEF ProcessReset
<1>3. CASE ProcessLockout
  BY <1>3 DEF ProcessLockout
<1>4. CASE ProcessEntropy
  BY <1>4 DEF ProcessEntropy
<1>5. CASE ProcessWaitTx
  BY <1>5 DEF ProcessWaitTx
<1>6. CASE ProcessTxComplete
  BY <1>6 DEF ProcessTxComplete
<1>7. CASE ProcessTxGuard
  BY <1>7 DEF ProcessTxGuard, ChipError
<1>8. CASE ProcessWaitRx1
  BY <1>8 DEF ProcessWaitRx1
<1>9. CASE ProcessWaitRx2
  BY <1>9 DEF ProcessWaitRx2
<1>10. CASE ProcessRxReady
  BY <1>10 DEF ProcessRxReady, DownlinkMissing, GiveUp
<1>11. CASE ProcessRxTimeout
  BY <1>11 DEF ProcessRxTimeout
<1>12. CASE ProcessRxGuard
  BY <1>12 DEF ProcessRxGuard, ChipError
<1>13. CASE ProcessRx2Lockout
  BY <1>13 DEF ProcessRx2Lockout, DownlinkMissing, GiveUp
<1>14. CASE ProcessRetry
  BY <1>14 DEF ProcessRetry
<1>15. CASE ProcessNothing
  BY <1>15 DEF ProcessNothing
<1>16. CASE Otaa
  BY <1>16 DEF Otaa
<1>17. ASSUME NEW c \in BOOLEAN, Data(c) PROVE QuietInv'
  BY <1>17 DEF Data
<1>18. CASE Cancel
  BY <1>18 DEF Cancel, Abandon
<1>19. CASE Forget
  BY <1>19 DEF Forget, Abandon
<1>20. CASE Interrupt
  BY <1>20 DEF Interrupt, InputSignal
<1>21. CASE Tick
  BY <1>21 DEF Tick, RunDown, InputPending
<1>22. CASE RetryOver \/ GlobalOver
  BY <1>22 DEF RetryOver, GlobalOver
<1>23. CASE UNCHANGED vars
  BY <1>23 DEF vars
<1>24. QED
  BY <1>1, <1>2, <1>3, <1>4, <1>5, <1>6, <1>7, <1>8, <1>9, <1>10, <1>11,
     <1>12, <1>13, <1>14, <1>15, <1>16, <1>17, <1>18, <1>19, <1>20, <1>21, <1>22,
     <1>23
  DEF Next, Process, Application

\* A request that ends by itself leaves no timer armed and no input latched,
\* whatever earlier requests were abandoned.
THEOREM QuietCorrect == Spec => QuietWhenIdle
<1>1. Init => QuietInv
  BY DEF Init, QuietInv
<1>2. QuietInv /\ [Next]_vars
        => [(state \in Serving /\ state' = "IDLE") =>
              \/ ~InputPending' /\ ~waitA'.armed /\ ~waitB'.armed
              \/ Cancel \/ Forget]_vars
  <2> SUFFICES ASSUME QuietInv, Next, ~Cancel, ~Forget,
                      state \in Serving, state' = "IDLE"
               PROVE  ~InputPending' /\ ~waitA'.armed /\ ~waitB'.armed
    OBVIOUS
  <2>1. ProcessWaitRx2 \/ ProcessRxReady \/ ProcessRx2Lockout
    BY DEF Next, Process, Application, ProcessInit, ProcessReset,
           ProcessLockout, ProcessEntropy, ProcessWaitTx, ProcessTxComplete,
           ProcessTxGuard, ProcessWaitRx1, ProcessRxTimeout, ProcessRxGuard,
           ProcessRetry, ProcessNothing, Otaa, Data, Interrupt, Tick,
           RetryOver, GlobalOver, ChipError, Serving, Receiving
  <2> USE DEF QuietInv, InputPending, TimerOff, TimerSet, InputsClear
  <2>2. CASE ProcessWaitRx2
    BY <2>2 DEF ProcessWaitRx2
  <2>3. CASE ProcessRxReady
    BY <2>3 DEF ProcessRxReady, DownlinkMissing, GiveUp
  <2>4. CASE ProcessRx2Lockout
    BY <2>4 DEF ProcessRx2Lockout, DownlinkMissing, GiveUp
  <2>5. QED
    BY <2>1, <2>2, <2>3, <2>4
<1>3. QED
  BY <1>1, <1>2, QuietStep, TypeCorrect, PTL DEF Spec, QuietWhenIdle

-----------------------------------------------------------------------------
(***************************************************************************)
(* A chip that works is never reset for its silence.                       *)
(***************************************************************************)
\* Whatever is received in a window, or the window itself, is over before the
\* guard, and before WAITB is due even when the first window was opened late.
EndsInTime ==
    \A d \in FrameTimes \cup {Window} :
        d < Guard /\ d + MaxLatency < Sec + AdvanceA - AdvanceB

\* A chip that is going to answer, or has just answered, does so before the
\* timers that guard the state.
Answering ==
    /\ state = "WAIT_RX1" => waitB.left = waitA.left + Sec + AdvanceA - AdvanceB
    /\ state \in {"TX"} \cup Receiving /\ chip.event # "NONE" => waitA.left > chip.left
    /\ state \in {"TX"} \cup Receiving /\ irq # "NONE" => waitA.left > 0
    /\ state = "RX1" /\ chip.event # "NONE" => waitB.left > chip.left
    /\ state = "RX1" /\ irq # "NONE" => waitB.left > 0
    /\ state = "RX2" => ~waitB.armed

\* A frame and an empty window that will end do so before the guards.
LEMMA ReceptionTimes ==
    ASSUME EndsInTime, NEW c \in Reception, c.event # "NONE"
    PROVE  c.left \in Nat /\ c.left < Guard /\ c.left + MaxLatency < Sec + AdvanceA - AdvanceB
<1>1. c.left \in FrameTimes \cup {Window}
  BY DEF Reception, Failed
<1>2. QED
  BY <1>1, ConstantsAssumption DEF EndsInTime

\* The chip and the timers run down together; opening a window sets the one and
\* finds the other far enough ahead.
LEMMA AnsweringStep ==
    ASSUME EndsInTime, TypeOK, ControlInv, RadioInv, Rx1Scheduled, Answering,
           [Next]_vars
    PROVE  Answering'
<1> USE DEF Answering, Serving, Receiving, Resetting, session, bands, history
<1>1. CASE ProcessInit \/ ProcessReset \/ ProcessLockout \/ ProcessEntropy
  BY <1>1 DEF ProcessInit, ProcessReset, ProcessLockout, ProcessEntropy
<1>2. CASE ProcessWaitTx
  BY <1>2, ConstantsAssumption
  DEF ProcessWaitTx, ChipIn, Transmission, Failed, TimerSet
<1>3. CASE ProcessTxComplete
  BY <1>3, ConstantsAssumption
  DEF ProcessTxComplete, Advance, RxDelay, TimerSet, TypeOK, Inputs
<1>4. CASE ProcessTxGuard \/ ProcessRxGuard
  BY <1>4 DEF ProcessTxGuard, ProcessRxGuard, ChipError
<1>5. CASE ProcessWaitRx1
  <2>1. CASE state' = "RX1"
    <3>1. OpenWindow /\ UNCHANGED waitB
      BY <1>5, <2>1 DEF ProcessWaitRx1
    <3>2. irq' = "NONE" /\ waitA'.left = Guard /\ chip' \in Reception
      BY <3>1 DEF OpenWindow, ChipIn, TimerSet
    <3>3. waitB'.left >= Sec + AdvanceA - AdvanceB - MaxLatency
      BY <1>5, <3>1, ConstantsAssumption
      DEF ProcessWaitRx1, Rx1Scheduled, TypeOK, Timer
    <3>4. chip'.event # "NONE" =>
              /\ chip'.left \in Nat /\ chip'.left < Guard
              /\ chip'.left + MaxLatency < Sec + AdvanceA - AdvanceB
      BY <3>2, ReceptionTimes
    <3>5. chip'.event # "NONE" => chip'.left < waitB'.left
      <4> HIDE DEF Answering, Receiving
      <4> SUFFICES ASSUME chip'.event # "NONE" PROVE chip'.left < waitB'.left
        OBVIOUS
      <4>1. waitB'.left \in Int
        BY <3>1 DEF TypeOK, Timer
      <4>2. /\ Sec \in Int /\ AdvanceA \in Int /\ AdvanceB \in Int /\ MaxLatency \in Int
        BY ConstantsAssumption
      <4>3. chip'.left \in Int /\ chip'.left + MaxLatency < Sec + AdvanceA - AdvanceB
        BY <3>4
      <4>4. QED
        BY <3>3, <4>1, <4>2, <4>3
    <3>6. Guard \in Int
      BY ConstantsAssumption DEF Guard
    <3>7. QED
      BY <2>1, <3>2, <3>4, <3>5, <3>6
  <2>2. CASE state' = "WAIT_RX2"
    BY <2>2
  <2>3. QED
    BY <1>5, <2>1, <2>2 DEF ProcessWaitRx1
<1>6. CASE ProcessWaitRx2
  <2>1. CASE state' = "RX2"
    <3>1. OpenWindow /\ ~waitB'.armed
      BY <1>6, <2>1 DEF ProcessWaitRx2, TimerOff
    <3>2. irq' = "NONE" /\ waitA'.left = Guard /\ chip' \in Reception
      BY <3>1 DEF OpenWindow, ChipIn, TimerSet
    <3>3. chip'.event # "NONE" => chip'.left \in Nat /\ chip'.left < Guard
      BY <3>2, ReceptionTimes
    <3>4. Guard \in Int
      BY ConstantsAssumption DEF Guard
    <3>5. QED
      BY <2>1, <3>1, <3>2, <3>3, <3>4
  <2>2. CASE state' = "IDLE"
    BY <2>2
  <2>3. QED
    BY <1>6, <2>1, <2>2 DEF ProcessWaitRx2
<1>7. CASE ProcessRxReady
  BY <1>7 DEF ProcessRxReady, DownlinkMissing, GiveUp
<1>8. CASE ProcessRxTimeout
  BY <1>8 DEF ProcessRxTimeout
<1>9. CASE ProcessRx2Lockout
  BY <1>9 DEF ProcessRx2Lockout, DownlinkMissing, GiveUp
<1>10. CASE ProcessRetry \/ ProcessNothing
  BY <1>10 DEF ProcessRetry, ProcessNothing
<1>11. CASE Application
  BY <1>11 DEF Application, Otaa, Data, Cancel, Forget, Abandon
<1>12. CASE Interrupt \/ RetryOver \/ GlobalOver
  BY <1>12 DEF Interrupt, RetryOver, GlobalOver
<1>13. CASE Tick
  <2>1. state' = state /\ irq = "NONE"
    BY <1>13 DEF Tick
  <2>2. /\ waitA'.left \in {waitA.left, waitA.left - 1}
        /\ waitB'.left \in {waitB.left, waitB.left - 1}
        /\ waitA.left \in Int /\ waitB.left \in Int
        /\ waitB'.armed = waitB.armed
    BY <1>13 DEF Tick, RunDown, TypeOK, Timer
  <2>3. state = "WAIT_RX1" => waitB'.left = waitA'.left + Sec + AdvanceA - AdvanceB
    <3> SUFFICES ASSUME state = "WAIT_RX1"
                 PROVE  waitB'.left = waitA'.left + Sec + AdvanceA - AdvanceB
      OBVIOUS
    <3>1. waitA.armed /\ waitB.armed
      BY DEF ControlInv, NeverStranded
    <3>2. MaxLatency < Sec + AdvanceA - AdvanceB
      BY ConstantsAssumption DEF EndsInTime
    <3>3. /\ waitA.left > -(Margin + MaxLatency + 1)
          /\ waitB.left > -(Margin + MaxLatency + 1)
      BY <2>2, <3>2, ConstantsAssumption DEF Rx1Scheduled, TypeOK
    <3>4. waitA'.left = waitA.left - 1 /\ waitB'.left = waitB.left - 1
      BY <1>13, <3>1, <3>3 DEF Tick, RunDown
    <3>5. QED
      BY <2>2, <3>4, ConstantsAssumption
  <2>4. \/ chip'.event # "NONE" /\ chip.event # "NONE" /\ chip'.left = chip.left - 1
           /\ irq' = "NONE"
        \/ chip'.event = "NONE" /\ chip.left = 1 /\ irq' = chip.event
        \/ chip'.event = "NONE" /\ irq' = "NONE"
        \/ chip.left = 0 /\ UNCHANGED <<chip, irq>>
    BY <1>13 DEF Tick, ChipTick, Asleep, TypeOK, Chip
  <2>5. chip.left \in Nat /\ (chip.left = 0 <=> chip.event = "NONE")
    BY DEF TypeOK, Chip, RadioInv, RadioConsistent
  <2>6. QED
    BY <2>1, <2>2, <2>3, <2>4, <2>5
<1>14. CASE UNCHANGED vars
  BY <1>14 DEF vars
<1>15. QED
  BY <1>1, <1>2, <1>3, <1>4, <1>5, <1>6, <1>7, <1>8, <1>9, <1>10, <1>11, <1>12,
     <1>13, <1>14 DEF Next, Process

\* LDL_MAC_CHIP_ERROR is pushed only when the chip is on and will never answer:
\* the guards of TX, RX1 and RX2 reset no chip that works.
THEOREM ErrorsAreReal == ASSUME EndsInTime PROVE Spec => ChipErrorIsReal
<1>1. Init => /\ TypeOK /\ ControlInv /\ RadioInv /\ Rx1Scheduled /\ Answering
  BY TypeInit
  DEF Init, ControlInv, OpMatchesState, NeverStranded, TimerSet, Serving,
      Resetting, RadioInv, RadioMatchesState, RadioConsistent, InterruptNotLost,
      Receiving, Asleep, InputsClear, Rx1Scheduled, Answering
<1>2. TypeOK /\ ControlInv /\ RadioInv /\ Rx1Scheduled /\ Answering /\ [Next]_vars
        => Answering'
  BY AnsweringStep
<1>3. TypeOK /\ RadioInv /\ Answering /\ [Next]_vars
        => [("CHIP_ERROR" \in out') => chip.mode # "SLEEP" /\ chip.event = "NONE"]_vars
  <2> SUFFICES ASSUME TypeOK, RadioInv, Answering, Next, "CHIP_ERROR" \in out'
               PROVE  chip.mode # "SLEEP" /\ chip.event = "NONE"
    OBVIOUS
  <2>1. ProcessTxGuard \/ ProcessRxGuard
    BY DEF Next, Process, Application, ProcessInit, ProcessReset,
           ProcessLockout, ProcessEntropy, ProcessWaitTx, ProcessTxComplete,
           ProcessWaitRx1, ProcessWaitRx2, ProcessRxReady, ProcessRxTimeout,
           ProcessRx2Lockout, ProcessRetry, ProcessNothing, DownlinkMissing,
           GiveUp, Otaa, Data, Cancel, Forget, Interrupt, Tick, RetryOver,
           GlobalOver
  <2>2. /\ state \in {"TX"} \cup Receiving
        /\ \/ Expired(waitA)
           \/ state = "RX1" /\ Expired(waitB)
    BY <2>1
    DEF ProcessTxGuard, ProcessRxGuard, Answering, Receiving, Expired
  <2>3. irq = "NONE" /\ chip.event = "NONE"
    BY <2>2 DEF Answering, Expired, Receiving, TypeOK, Timer, Chip
  <2>4. chip # Asleep
    BY <2>1, <2>3 DEF RadioInv, InterruptNotLost, ProcessTxGuard, ProcessRxGuard
  <2>5. QED
    BY <2>3, <2>4 DEF RadioInv, RadioConsistent
<1>4. QED
  BY <1>1, <1>2, <1>3, TypeStep, ControlStep, RadioStep, ScheduleStep, PTL
  DEF Spec, ChipErrorIsReal

-----------------------------------------------------------------------------
(***************************************************************************)
(* Mac implements RequestService, for every value of the constants that    *)
(* makes the main loop punctual.  (A main loop later than that loses the   *)
(* second slot, and with it the request, without a report.)                *)
(***************************************************************************)
\* The second slot is still reached within its margin after two late calls of
\* LDL_MAC_process() in a row, the one that ends the first window and its own,
\* and the first window is begun before the second slot is due.
Punctual == /\ 2 * MaxLatency <= Margin
            /\ MaxLatency < Sec + AdvanceA - AdvanceB

-----------------------------------------------------------------------------
(***************************************************************************)
(* The second slot.                                                        *)
(***************************************************************************)
\* WAITB runs a fixed time after WAITA, and is overdue in RX1 no longer than
\* one call of LDL_MAC_process(), in WAIT_RX2 no longer than two.
Rx2Scheduled ==
    /\ state = "WAIT_RX1" => waitB.left = waitA.left + Sec + AdvanceA - AdvanceB
    /\ state = "RX1" => -waitB.left <= lag
    /\ state = "WAIT_RX2" => -waitB.left <= lag + MaxLatency

\* No step lets WAITB be overdue by more.
LEMMA Rx2ScheduleStep ==
    ASSUME Punctual, TypeOK, ControlInv, Rx1Scheduled, Rx2Scheduled, [Next]_vars
    PROVE  Rx2Scheduled'
<1> USE DEF TypeOK, Rx2Scheduled, Serving, Receiving, Resetting, session,
        bands, history, Timer
<1>1. CASE ProcessInit
  BY <1>1 DEF ProcessInit
<1>2. CASE ProcessReset
  BY <1>2 DEF ProcessReset
<1>3. CASE ProcessLockout
  BY <1>3 DEF ProcessLockout
<1>4. CASE ProcessEntropy
  BY <1>4 DEF ProcessEntropy
<1>5. CASE ProcessWaitTx
  BY <1>5 DEF ProcessWaitTx
<1>6. CASE ProcessTxComplete
  BY ConstantsAssumption, <1>6
  DEF ProcessTxComplete, Advance, RxDelay, TimerSet, Inputs
<1>7. CASE ProcessTxGuard
  BY <1>7 DEF ProcessTxGuard, ChipError
<1>8. CASE ProcessWaitRx1
  <2>1. waitB.left > 0 /\ waitB'.left = waitB.left
    BY ConstantsAssumption, <1>8 DEF ProcessWaitRx1, Rx1Scheduled, Punctual
  <2>2. lag' = 0 /\ state' \in {"RX1", "WAIT_RX2"}
    BY <1>8 DEF ProcessWaitRx1
  <2>3. QED
    BY <2>1, <2>2, ConstantsAssumption
<1>9. CASE ProcessWaitRx2
  BY <1>9 DEF ProcessWaitRx2, OpenWindow
<1>10. CASE ProcessRxReady
  BY <1>10 DEF ProcessRxReady, DownlinkMissing, GiveUp
<1>11. CASE ProcessRxTimeout
  BY <1>11, ConstantsAssumption DEF ProcessRxTimeout
<1>12. CASE ProcessRxGuard
  BY <1>12 DEF ProcessRxGuard, ChipError
<1>13. CASE ProcessRx2Lockout
  BY <1>13 DEF ProcessRx2Lockout, DownlinkMissing, GiveUp
<1>14. CASE ProcessRetry
  BY <1>14 DEF ProcessRetry
<1>15. CASE ProcessNothing
  BY <1>15, ConstantsAssumption
  DEF ProcessNothing, ProcessDue, Expired, ControlInv, NeverStranded
<1>16. CASE Otaa
  BY <1>16 DEF Otaa
<1>17. ASSUME NEW c \in BOOLEAN, Data(c) PROVE Rx2Scheduled'
  BY <1>17 DEF Data
<1>18. CASE Cancel
  BY <1>18 DEF Cancel, Abandon
<1>19. CASE Forget
  BY <1>19 DEF Forget, Abandon
<1>20. CASE Interrupt
  BY <1>20 DEF Interrupt
<1>21. CASE Tick
  <2>1. state' = state
    BY <1>21 DEF Tick
  <2>2. state = "WAIT_RX1" => Rx2Scheduled'
    <3> SUFFICES ASSUME state = "WAIT_RX1" PROVE Rx2Scheduled'
      OBVIOUS
    <3>1. waitA.armed /\ waitB.armed
      BY DEF ControlInv, NeverStranded
    <3>2. /\ waitA.left > -(Margin + MaxLatency + 1)
          /\ waitB.left > -(Margin + MaxLatency + 1)
      BY ConstantsAssumption DEF Rx1Scheduled, Punctual
    <3>3. waitA'.left = waitA.left - 1 /\ waitB'.left = waitB.left - 1
      BY <1>21, <3>1, <3>2 DEF Tick, RunDown
    <3>4. QED
      BY <2>1, <3>3, ConstantsAssumption
  <2>3. state \in {"RX1", "WAIT_RX2"} => Rx2Scheduled'
    <3> SUFFICES ASSUME state \in {"RX1", "WAIT_RX2"} PROVE Rx2Scheduled'
      OBVIOUS
    <3>1. waitB.armed
      BY DEF ControlInv, NeverStranded
    <3>2. waitB'.left >= waitB.left - 1
      BY <1>21, <3>1 DEF Tick, RunDown
    <3>3. waitB.left <= 0 => lag' = lag + 1
      BY <1>21, <3>1 DEF Tick, ProcessDue, Expired
    <3>4. lag' \in Nat /\ waitB'.left \in Int
      BY <1>21, <3>1 DEF Tick, RunDown
    <3>5. QED
      BY <2>1, <3>2, <3>3, <3>4, ConstantsAssumption
  <2>4. QED
    BY <2>1, <2>2, <2>3
<1>22. CASE RetryOver \/ GlobalOver
  BY <1>22 DEF RetryOver, GlobalOver
<1>23. CASE UNCHANGED vars
  BY <1>23 DEF vars
<1>24. QED
  BY <1>1, <1>2, <1>3, <1>4, <1>5, <1>6, <1>7, <1>8, <1>9, <1>10, <1>11,
     <1>12, <1>13, <1>14, <1>15, <1>16, <1>17, <1>18, <1>19, <1>20, <1>21, <1>22,
     <1>23
  DEF Next, Process, Application

\* A punctual main loop never misses the second slot.
LEMMA SecondSlotReached ==
    ASSUME Punctual, TypeOK, Rx2Scheduled, ProcessWaitRx2
    PROVE  state' = "RX2" /\ out' = {"RX2_SLOT"}
BY ConstantsAssumption DEF Punctual, TypeOK, Rx2Scheduled, ProcessWaitRx2, Timer

-----------------------------------------------------------------------------
(***************************************************************************)
(* The refinement.                                                         *)
(***************************************************************************)
\* A join request past its first WAIT_TX has been sent.
JoinSent == state \in Serving \ {"WAIT_TX"} /\ op = "JOINING" => sent > 0

\* The step that leaves WAIT_TX sends it.
LEMMA JoinSentStep == TypeOK /\ JoinSent /\ [Next]_vars => JoinSent'
<1> SUFFICES ASSUME TypeOK, JoinSent, [Next]_vars PROVE JoinSent'
  OBVIOUS
<1> USE DEF TypeOK, JoinSent, Serving, Receiving, Resetting, history, DataOps
<1>1. CASE Process
  BY <1>1
  DEF Process, ProcessInit, ProcessReset, ProcessLockout, ProcessEntropy,
      ProcessWaitTx, ProcessTxComplete, ProcessTxGuard, ProcessWaitRx1,
      ProcessWaitRx2, ProcessRxReady, ProcessRxTimeout, ProcessRxGuard,
      ProcessRx2Lockout, ProcessRetry, ProcessNothing, DownlinkMissing, GiveUp,
      ChipError
<1>2. CASE Application
  BY <1>2 DEF Application, Otaa, Data, Cancel, Forget, Abandon
<1>3. CASE Interrupt \/ Tick \/ RetryOver \/ GlobalOver
  BY <1>3 DEF Interrupt, Tick, RetryOver, GlobalOver
<1>4. CASE UNCHANGED vars
  BY <1>4 DEF vars
<1>5. QED
  BY <1>1, <1>2, <1>3, <1>4 DEF Next

\* No request is in hand after LDL_MAC_init().
LEMMA ServiceInit == Init => Service!Init
BY DEF Init, Service!Init, InHand, Serving, Receiving, Reports

\* What the steps below have in common: the operation of a serving state and
\* the transmissions counted for it.
ServiceInv == /\ TypeOK /\ OpMatchesState /\ TrialsCounted /\ JoinSent
              /\ Rx2Scheduled

\* Giving up, or going on, after a window without a downlink: the last trial
\* is over exactly when every transmission allowed has been used.
LEMMA MissingRefines ==
    ASSUME ServiceInv, state \in {"RX1", "RX2", "RX2_LOCKOUT"},
           NEW evs, evs \cap Reports = {}, DownlinkMissing(evs),
           UNCHANGED <<session, sent>>
    PROVE  Service!Next
<1> USE DEF ServiceInv, Serving, Receiving, InHand, Reports, DataOps,
            session, NbTrans
<1>1. op \in DataOps => NextTrial = sent /\ sent > 0
  BY TrialFacts DEF TrialsCounted, TypeOK
<1>2. CASE op = "DATA_CONFIRMED" /\ ~LastTrial(NextTrial)
  BY <1>2 DEF DownlinkMissing, Service!Next, Service!Silent
<1>3. CASE op = "DATA_CONFIRMED" /\ LastTrial(NextTrial)
  <2>1. GiveUp(evs \cup {"DATA_TIMEOUT"})
    BY <1>3 DEF DownlinkMissing
  <2>2. sent = NbTrans
    BY <1>1, <1>3 DEF LastTrial, TrialsCounted, TypeOK
  <2>3. Service!EndData
    BY <1>1, <1>3, <2>1, <2>2
    DEF GiveUp, Service!EndData, Service!End, Service!DataRequests
  <2>4. QED
    BY <2>3 DEF Service!Next
<1>4. CASE op = "DATA_UNCONFIRMED"
  <2>1. \/ state' = "WAIT_TX" /\ out' = evs /\ UNCHANGED op
        \/ GiveUp(evs \cup {"DATA_COMPLETE"})
    BY <1>4 DEF DownlinkMissing
  <2>2. CASE state' = "WAIT_TX" /\ out' = evs /\ UNCHANGED op
    BY <1>4, <2>2 DEF Service!Next, Service!Silent
  <2>3. CASE GiveUp(evs \cup {"DATA_COMPLETE"})
    BY <1>1, <1>4, <2>3
    DEF GiveUp, Service!Next, Service!EndData, Service!End, Service!DataRequests
  <2>4. QED
    BY <2>1, <2>2, <2>3
<1>5. CASE op = "JOINING"
  <2>1. \/ state' = "WAIT_RETRY" /\ out' = evs \cup {"JOIN_TIMEOUT"} /\ UNCHANGED op
        \/ GiveUp(evs \cup {"JOIN_TIMEOUT"})
    BY <1>5 DEF DownlinkMissing
  <2>2. sent > 0
    BY <1>5 DEF JoinSent
  <2>3. CASE state' = "WAIT_RETRY" /\ out' = evs \cup {"JOIN_TIMEOUT"} /\ UNCHANGED op
    BY <1>5, <2>2, <2>3 DEF Service!Next, Service!JoinTimeout
  <2>4. CASE GiveUp(evs \cup {"JOIN_TIMEOUT"})
    BY <1>5, <2>2, <2>4 DEF GiveUp, Service!Next, Service!EndJoin, Service!End
  <2>5. QED
    BY <2>1, <2>3, <2>4
<1>6. QED
  BY <1>2, <1>3, <1>4, <1>5 DEF DownlinkMissing

\* Every step of the machine is a step of the service, or nothing to it.
LEMMA ServiceStep ==
    ASSUME Punctual, ServiceInv, [Next]_vars
    PROVE  [Service!Next]_(Service!svars)
<1> SUFFICES Service!Next \/ UNCHANGED Service!svars
  OBVIOUS
<1> USE DEF ServiceInv, Serving, Receiving, Resetting, InHand, Reports,
            DataOps, Requests, session, bands, history, NbTrans
<1>1. CASE ProcessInit \/ ProcessReset \/ ProcessLockout \/ ProcessEntropy
  BY <1>1
  DEF ProcessInit, ProcessReset, ProcessLockout, ProcessEntropy,
      Service!Next, Service!Silent
<1>2. CASE ProcessWaitTx
  <2>1. op \in Requests
    BY <1>2 DEF ProcessWaitTx, OpMatchesState
  <2>2. op \in DataOps => sent < NbTrans
    BY <1>2 DEF ProcessWaitTx, TrialsCounted, TypeOK
  <2>3. Service!Transmit
    BY <1>2, <2>1, <2>2 DEF ProcessWaitTx, Service!Transmit
  <2>4. QED
    BY <2>3 DEF Service!Next
<1>3. CASE ProcessTxComplete \/ ProcessWaitRx1 \/ ProcessRxTimeout
  BY <1>3
  DEF ProcessTxComplete, ProcessWaitRx1, ProcessRxTimeout, Service!Next,
      Service!Silent
<1>4. CASE ProcessTxGuard \/ ProcessRxGuard
  <2>1. /\ state \in Serving \ {"WAIT_TX", "WAIT_RETRY"}
        /\ state' = "RECOVERY_RESET" /\ out' = {"CHIP_ERROR"}
    BY <1>4 DEF ProcessTxGuard, ProcessRxGuard, ChipError
  <2>2. op \in Requests /\ sent > 0
    BY <2>1 DEF OpMatchesState, TrialsCounted, JoinSent, TypeOK
  <2>3. Service!ChipFailed
    BY <2>1, <2>2 DEF Service!ChipFailed, Service!End
  <2>4. QED
    BY <2>3 DEF Service!Next
<1>5. CASE ProcessWaitRx2
  BY <1>5, SecondSlotReached DEF ProcessWaitRx2, Service!Next, Service!Silent
<1>6. CASE ProcessRxReady
  <2>1. CASE op = "JOINING" /\ GiveUp({"DOWNSTREAM", "JOIN_COMPLETE", "SESSION_UPDATED"})
    BY <1>6, <2>1
    DEF ProcessRxReady, GiveUp, JoinSent, Service!Next, Service!EndJoin, Service!End
  <2>2. CASE op \in DataOps /\ GiveUp({"DOWNSTREAM", "DATA_COMPLETE", "SESSION_UPDATED"})
    <3>1. sent > 0
      BY <1>6, <2>2 DEF ProcessRxReady, TrialsCounted, TypeOK
    <3>2. Service!EndData
      BY <1>6, <2>2, <3>1
      DEF ProcessRxReady, GiveUp, Service!EndData, Service!End, Service!DataRequests
    <3>3. QED
      BY <3>2 DEF Service!Next
  <2>3. CASE DownlinkMissing({"DOWNSTREAM"}) /\ UNCHANGED session
    BY <1>6, <2>3, MissingRefines DEF ProcessRxReady
  <2>4. QED
    BY <1>6, <2>1, <2>2, <2>3 DEF ProcessRxReady
<1>7. CASE ProcessRx2Lockout
  BY <1>7, MissingRefines DEF ProcessRx2Lockout
<1>8. CASE ProcessRetry \/ ProcessNothing
  BY <1>8 DEF ProcessRetry, ProcessNothing, Service!Next, Service!Silent
<1>9. CASE Otaa
  BY <1>9 DEF Otaa, Service!Next, Service!Accept, Service!Silent
<1>10. ASSUME NEW c \in BOOLEAN, Data(c) PROVE Service!Next
  <2>1. NbTrans' \in 1..15
    BY <1>10, ConstantsAssumption DEF Data, TypeOK
  <2>2. Service!Accept
    BY <1>10, <2>1 DEF Data, Service!Accept, Service!DataRequests
  <2>3. QED
    BY <2>2 DEF Service!Next
<1>11. CASE Cancel \/ Forget
  <2>1. out' \cap Reports = {} /\ UNCHANGED <<op, sent, optNb, ctxNb>>
    BY <1>11 DEF Cancel, Forget
  <2>2. CASE Abandon
    <3>1. MayCancel /\ state' = "IDLE"
      BY <2>2 DEF Abandon
    <3>2. CASE state \in Serving
      BY <2>1, <3>1, <3>2
      DEF OpMatchesState, Service!Next, Service!Abandoned, Service!End
    <3>3. CASE state \notin Serving
      BY <2>1, <3>1, <3>3 DEF Service!Next, Service!Silent
    <3>4. QED
      BY <3>2, <3>3
  <2>3. CASE UNCHANGED state
    BY <2>1, <2>3 DEF Service!Next, Service!Silent
  <2>4. QED
    BY <1>11, <2>2, <2>3 DEF Cancel, Forget
<1>12. CASE Interrupt \/ Tick \/ RetryOver \/ GlobalOver
  BY <1>12
  DEF Interrupt, Tick, RetryOver, GlobalOver, Service!Next, Service!Silent
<1>13. CASE UNCHANGED vars
  BY <1>13 DEF vars, Service!svars
<1>14. QED
  BY <1>1, <1>2, <1>3, <1>4, <1>5, <1>6, <1>7, <1>8, <1>9, <1>10, <1>11,
     <1>12, <1>13
  DEF Next, Process, Application

\* With a punctual main loop the machine carries out every request as the
\* service promises, whatever the chip, the network and the application do.
THEOREM Implements == ASSUME Punctual PROVE Spec => ImplementsService
<1>1. Init => /\ TypeOK /\ ControlInv /\ RadioInv /\ TrialsCounted
              /\ Rx1Scheduled /\ JoinSent /\ Rx2Scheduled
  BY TypeInit
  DEF Init, ControlInv, OpMatchesState, NeverStranded, TimerSet, Serving,
      Resetting, RadioInv, RadioMatchesState, RadioConsistent, InterruptNotLost,
      Receiving, Asleep, InputsClear, Rx1Scheduled, TrialsCounted, JoinSent,
      Rx2Scheduled
<1>2. TypeOK /\ ControlInv /\ Rx1Scheduled /\ Rx2Scheduled /\ [Next]_vars
        => Rx2Scheduled'
  BY Rx2ScheduleStep
<1>3. TypeOK /\ ControlInv /\ TrialsCounted /\ JoinSent /\ Rx2Scheduled /\ [Next]_vars
        => [Service!Next]_(Service!svars)
  BY ServiceStep DEF ServiceInv, ControlInv
<1>4. QED
  BY <1>1, <1>2, <1>3, ServiceInit, TypeStep, ControlStep, RadioStep,
     TrialsStep, ScheduleStep, JoinSentStep, PTL
  DEF Spec, ImplementsService, Service!Spec

\* With a punctual main loop every data request ends with a report, unless the
\* application abandons it.
THEOREM EveryRequestReported == ASSUME Punctual PROVE Spec => DataRequestReported
<1>1. Init => /\ TypeOK /\ ControlInv /\ RadioInv /\ Rx1Scheduled /\ Rx2Scheduled
  BY TypeInit
  DEF Init, ControlInv, OpMatchesState, NeverStranded, TimerSet, Serving,
      Resetting, RadioInv, RadioMatchesState, RadioConsistent, InterruptNotLost,
      Receiving, Asleep, InputsClear, Rx1Scheduled, Rx2Scheduled
<1>2. TypeOK /\ ControlInv /\ Rx1Scheduled /\ Rx2Scheduled /\ [Next]_vars
        => Rx2Scheduled'
  BY Rx2ScheduleStep
<1>3. TypeOK /\ Rx2Scheduled /\ [Next]_vars
        => [(state \in Serving /\ op \in DataOps /\ state' \notin Serving) =>
              \/ out' \cap {"DATA_COMPLETE", "DATA_TIMEOUT", "CHIP_ERROR"} # {}
              \/ Cancel \/ Forget]_vars
  <2> SUFFICES ASSUME TypeOK, Rx2Scheduled, Next, ~Cancel, ~Forget,
                      state \in Serving, op \in DataOps, state' \notin Serving
               PROVE  out' \cap {"DATA_COMPLETE", "DATA_TIMEOUT", "CHIP_ERROR"} # {}
    OBVIOUS
  <2> USE DEF Serving, Receiving, DataOps
  <2>1. ~ProcessWaitRx2
    BY SecondSlotReached
  <2>2. \/ ProcessTxGuard \/ ProcessRxGuard
        \/ ProcessRxReady \/ ProcessRx2Lockout
    BY <2>1
    DEF Next, Process, Application, ProcessInit, ProcessReset, ProcessLockout,
        ProcessEntropy, ProcessWaitTx, ProcessTxComplete, ProcessWaitRx1,
        ProcessRxTimeout, ProcessRetry, ProcessNothing, Otaa, Data, Interrupt,
        Tick, RetryOver, GlobalOver
  <2>3. QED
    BY <2>2
    DEF ProcessTxGuard, ProcessRxGuard, ChipError, ProcessRxReady,
        ProcessRx2Lockout, DownlinkMissing, GiveUp
<1>4. QED
  BY <1>1, <1>2, <1>3, TypeStep, ControlStep, RadioStep, ScheduleStep, PTL
  DEF Spec, DataRequestReported

-----------------------------------------------------------------------------
(***************************************************************************)
(* Both windows on time.                                                   *)
(***************************************************************************)
\* However late the end of the uplink is processed, the second slot is still
\* to come.
Prompt == /\ Punctual
          /\ AdvanceB + MaxLatency <= RX1Delay + Sec
          /\ AdvanceB + MaxLatency <= JA1Delay + Sec

\* WAITB runs out AdvanceB before the second slot, counted from the end of the
\* uplink.
Rx2Exact == state \in {"WAIT_RX1", "RX1", "WAIT_RX2"} =>
                waitB.left = (RxDelay + Sec - AdvanceB) - since

\* Nothing between the end of the uplink and the second slot moves it.
LEMMA Rx2ExactStep ==
    ASSUME Prompt, TypeOK, ControlInv, Rx1Scheduled, Rx2Scheduled, Rx2Exact,
           [Next]_vars
    PROVE  Rx2Exact'
<1> USE DEF TypeOK, Rx2Exact, RxDelay, Serving, Receiving, Resetting, history,
            Timer
<1>1. CASE ProcessTxComplete
  <2>1. inputs.age = since /\ inputs.age <= MaxLatency
    BY <1>1, ConstantsAssumption DEF ProcessTxComplete, Rx1Scheduled, Inputs
  <2>2. Advance(AdvanceB) <= RxDelay + Sec
    BY <2>1, ConstantsAssumption DEF Prompt, Advance
  <2>3. QED
    BY <1>1, <2>1, <2>2, ConstantsAssumption
    DEF ProcessTxComplete, Advance, TimerSet
<1>2. CASE Process /\ ~ProcessTxComplete
  BY <1>2
  DEF Process, ProcessInit, ProcessReset, ProcessLockout, ProcessEntropy,
      ProcessWaitTx, ProcessTxGuard, ProcessWaitRx1, ProcessWaitRx2,
      ProcessRxReady, ProcessRxTimeout, ProcessRxGuard, ProcessRx2Lockout,
      ProcessRetry, ProcessNothing, DownlinkMissing, GiveUp, ChipError
<1>3. CASE Application
  BY <1>3 DEF Application, Otaa, Data, Cancel, Forget, Abandon
<1>4. CASE Interrupt \/ RetryOver \/ GlobalOver
  BY <1>4 DEF Interrupt, RetryOver, GlobalOver
<1>5. CASE Tick
  <2> SUFFICES ASSUME state \in {"WAIT_RX1", "RX1", "WAIT_RX2"}
               PROVE  waitB'.left = (RxDelay + Sec - AdvanceB) - since'
    BY <1>5 DEF Tick
  <2>1. waitB.armed
    BY DEF ControlInv, NeverStranded
  <2>2. waitB.left > -(Margin + MaxLatency + 1)
    BY ConstantsAssumption DEF Rx1Scheduled, Rx2Scheduled, Prompt, Punctual
  <2>3. waitB'.left = waitB.left - 1 /\ since' = since + 1
    BY <1>5, <2>1, <2>2 DEF Tick, RunDown, AfterUplink
  <2>4. QED
    BY <2>3, ConstantsAssumption
<1>6. CASE UNCHANGED vars
  BY <1>6 DEF vars
<1>7. QED
  BY <1>1, <1>2, <1>3, <1>4, <1>5, <1>6 DEF Next

\* With a punctual main loop both windows open at their slot, counted from the
\* end of the uplink, or within the margin after it.
THEOREM BothSlotsOnTime == ASSUME Prompt PROVE Spec => SlotsOnTime
<1>1. Init => /\ TypeOK /\ ControlInv /\ RadioInv /\ Rx1Scheduled
              /\ Rx2Scheduled /\ Rx2Exact
  BY TypeInit
  DEF Init, ControlInv, OpMatchesState, NeverStranded, TimerSet, Serving,
      Resetting, RadioInv, RadioMatchesState, RadioConsistent, InterruptNotLost,
      Receiving, Asleep, InputsClear, Rx1Scheduled, Rx2Scheduled, Rx2Exact
<1>2. TypeOK /\ ControlInv /\ Rx1Scheduled /\ Rx2Scheduled /\ [Next]_vars
        => Rx2Scheduled'
  BY Rx2ScheduleStep DEF Prompt
<1>3. TypeOK /\ ControlInv /\ Rx1Scheduled /\ Rx2Scheduled /\ Rx2Exact /\ [Next]_vars
        => Rx2Exact'
  BY Rx2ExactStep
<1>4. TypeOK /\ Rx1Scheduled /\ Rx2Exact /\ [Next]_vars 
        => [/\ state = "WAIT_RX1" /\ state' = "RX1" =>
                 since - (RxDelay - AdvanceA) \in 0..Margin
            /\ state = "WAIT_RX2" /\ state' = "RX2" =>
                 since - (RxDelay + Sec - AdvanceB) \in 0..Margin]_vars
  <2> SUFFICES ASSUME TypeOK, Rx1Scheduled, Rx2Exact, Next
               PROVE  /\ state = "WAIT_RX1" /\ state' = "RX1" =>
                           since - (RxDelay - AdvanceA) \in 0..Margin
                      /\ state = "WAIT_RX2" /\ state' = "RX2" =>
                           since - (RxDelay + Sec - AdvanceB) \in 0..Margin
    OBVIOUS
  <2>1. (state = "WAIT_RX1" /\ state' = "RX1") => ProcessWaitRx1
    BY DEF Next, Process, Application, ProcessInit, ProcessReset,
           ProcessLockout, ProcessEntropy, ProcessWaitTx, ProcessTxComplete,
           ProcessTxGuard, ProcessWaitRx2, ProcessRxReady, ProcessRxTimeout,
           ProcessRxGuard, ProcessRx2Lockout, ProcessRetry, ProcessNothing,
           Otaa, Data, Cancel, Forget, Abandon, Interrupt, Tick, RetryOver,
           GlobalOver, Receiving
  <2>2. (state = "WAIT_RX2" /\ state' = "RX2") => ProcessWaitRx2
    BY DEF Next, Process, Application, ProcessInit, ProcessReset,
           ProcessLockout, ProcessEntropy, ProcessWaitTx, ProcessTxComplete,
           ProcessTxGuard, ProcessWaitRx1, ProcessRxReady, ProcessRxTimeout,
           ProcessRxGuard, ProcessRx2Lockout, ProcessRetry, ProcessNothing,
           Otaa, Data, Cancel, Forget, Abandon, Interrupt, Tick, RetryOver,
           GlobalOver, Receiving
  <2>3. (state = "WAIT_RX1" /\ state' = "RX1") =>
            since - (RxDelay - AdvanceA) \in 0..Margin
    BY <2>1, ConstantsAssumption
    DEF ProcessWaitRx1, Rx1Scheduled, Expired, TypeOK, Timer, RxDelay
  <2>4. (state = "WAIT_RX2" /\ state' = "RX2") =>
            since - (RxDelay + Sec - AdvanceB) \in 0..Margin
    BY <2>2, ConstantsAssumption
    DEF ProcessWaitRx2, Rx2Exact, Expired, TypeOK, Timer, RxDelay
  <2>5. QED
    BY <2>3, <2>4
<1>5. QED
  BY <1>1, <1>2, <1>3, <1>4, TypeStep, ControlStep, RadioStep, ScheduleStep, PTL
  DEF Spec, SlotsOnTime
=============================================================================
