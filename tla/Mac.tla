-------------------------------- MODULE Mac --------------------------------
(***************************************************************************)
(* The MAC layer state machine of src/ldl_mac.c: LDL_MAC_process() and the *)
(* interface the application calls, over the radio chip and its interrupt  *)
(* line, in discrete time.                                                 *)
(*                                                                         *)
(* Three parties take steps.  The main thread calls LDL_MAC_process() and  *)
(* the interface functions (they never overlap: porting.md requires one    *)
(* thread).  The interrupt handler calls LDL_Radio_interrupt() whenever    *)
(* the chip raises a line, between any two steps of the main thread.       *)
(* Time passes (Tick): timers run down, the chip works.                    *)
(*                                                                         *)
(* Abstracted: frame contents, channel selection (succeeds or not), the    *)
(* off-time of the bands (blocked or not), ADR.  Durations are in ticks.   *)
(***************************************************************************)
EXTENDS Integers

CONSTANTS
    Sec,              \* ticks per second, LDL_System_tps() + LDL_System_eps()
    TxTime,           \* air time of the uplink
    RX1Delay,         \* ctx.rx1Delay in ticks
    JA1Delay,         \* LDL_Region_getJA1Delay() in ticks
    AdvanceA,         \* timing advance of the RX1 slot, less the input error
    AdvanceB,         \* timing advance of the RX2 slot, less the input error
    Margin,           \* rx1_margin and rx2_margin
    Window,           \* time after which the chip gives up on a preamble
    FrameTimes,       \* air times of the downlinks the chip may lock on to
    LockoutTime,      \* transmitTime() of the largest downlink
    ResetHold,        \* time the reset line is held (100us)
    InitLockout,      \* wait after the first reset (10ms)
    RecoveryLockout,  \* wait after a chip error (60s)
    Delays,           \* dither applied before an uplink
    NbTransSettings,  \* values of opts.nbTrans and ctx.nbTrans (0..15)
    TrialsMod,        \* modulus of the trial counter (2^32)
    MaxLatency,       \* ticks between LDL_MAC_ticksUntilNextEvent() = 0 and
                      \* the call of LDL_MAC_process()
    ChipMayFail,      \* may the chip miss an interrupt?
    MayCancel         \* does the application abandon requests in progress?

(***************************************************************************)
(* What the proofs and the runs need of the constants.                     *)
(***************************************************************************)
ASSUME ConstantsAssumption ==
    /\ Sec \in Nat \ {0} /\ TxTime \in Nat \ {0} /\ Window \in Nat \ {0}
    /\ RX1Delay \in Nat /\ JA1Delay \in Nat
    /\ AdvanceA \in Nat /\ AdvanceB \in Nat /\ Margin \in Nat
    /\ FrameTimes \subseteq Nat \ {0}
    /\ LockoutTime \in Nat /\ ResetHold \in Nat
    /\ InitLockout \in Nat /\ RecoveryLockout \in Nat
    /\ Delays \subseteq Nat
    /\ NbTransSettings \subseteq 0..15
    /\ TrialsMod \in Nat /\ TrialsMod > 15
    /\ MaxLatency \in Nat
    /\ ChipMayFail \in BOOLEAN /\ MayCancel \in BOOLEAN

VARIABLES
    state,      \* self->state
    op,         \* self->op
    trials,     \* self->trials
    optNb,      \* self->opts.nbTrans
    ctxNb,      \* self->ctx.nbTrans
    joined,     \* self->ctx.joined
    retryOff,   \* self->band[LDL_BAND_RETRY] > 0
    globalOff,  \* self->band[LDL_BAND_GLOBAL] > 0
    waitA,      \* self->timers[LDL_TIMER_WAITA]
    waitB,      \* self->timers[LDL_TIMER_WAITB]
    inputs,     \* self->inputs
    chip,       \* what the radio chip is doing
    irq,        \* event the raised interrupt line stands for
    out,        \* responses pushed to the application by the last step
    lag,        \* how long LDL_MAC_process() has been due
    since,      \* history: ticks since the chip finished the uplink
    sent        \* history: uplinks begun for the request in hand (0, 1 of a join)

session == <<optNb, ctxNb, joined>>
bands   == <<retryOff, globalOff>>
history == <<since, sent>>
vars == <<state, op, trials, session, bands, waitA, waitB, inputs, chip,
          irq, out, lag, history>>

-----------------------------------------------------------------------------
DataOps  == {"DATA_UNCONFIRMED", "DATA_CONFIRMED"}
Requests == DataOps \cup {"JOINING"}
Ops      == Requests \cup {"NONE", "RESET"}

\* States in which LDL_MAC_cancel() leaves the machine alone.
Resetting == {"INIT_RESET", "INIT_LOCKOUT", "RECOVERY_RESET",
              "RECOVERY_LOCKOUT", "ENTROPY"}

\* States in which the machine is working on a request.
Receiving == {"RX1", "RX2"}
Serving   == {"WAIT_TX", "TX", "WAIT_RX1", "WAIT_RX2", "RX2_LOCKOUT",
              "WAIT_RETRY"} \cup Receiving
States    == {"INIT", "IDLE"} \cup Resetting \cup Serving

RadioEvents == {"TX_COMPLETE", "RX_READY", "RX_TIMEOUT"}
Responses   == {"CHIP_ERROR", "RESET", "STARTUP", "JOIN_COMPLETE",
                "JOIN_TIMEOUT", "DATA_COMPLETE", "DATA_TIMEOUT", "RX1_SLOT",
                "RX2_SLOT", "DOWNSTREAM", "TX_COMPLETE", "TX_BEGIN",
                "SESSION_UPDATED"}

(***************************************************************************)
(* Timers: left counts down to the time the timer is set for and beyond,   *)
(* so that -left is the error timerCheck() reports.  How far is told       *)
(* apart up to one tick past Margin and MaxLatency: the code compares it   *)
(* with Margin only.                                                       *)
(***************************************************************************)
Timer       == [armed : BOOLEAN, left : Int]
TimerOff    == [armed |-> FALSE, left |-> 0]
TimerSet(d) == [armed |-> TRUE, left |-> d]
Expired(t)  == t.armed /\ t.left <= 0
RunDown(t)  == IF t.armed /\ t.left > -(Margin + MaxLatency + 1)
                 THEN [t EXCEPT !.left = @ - 1]
                 ELSE t

(***************************************************************************)
(* Inputs: events are latched one at a time, and only when armed.          *)
(***************************************************************************)
Inputs          == [armed : SUBSET RadioEvents,
                    state : RadioEvents \cup {"NONE"}, age : Nat]
InputsClear     == [armed |-> {}, state |-> "NONE", age |-> 0]
InputsArm(evs)  == [armed |-> evs, state |-> "NONE", age |-> 0]
InputPending    == inputs.state # "NONE"
InputSignal(ev) == IF inputs.state = "NONE" /\ ev \in inputs.armed
                     THEN [inputs EXCEPT !.state = ev, !.age = 0]
                     ELSE inputs

\* LDL_MAC_ticksUntilNextEvent() = 0.
ProcessDue == InputPending \/ Expired(waitA) \/ Expired(waitB)

(***************************************************************************)
(* The chip, as the driver uses it: asleep, transmitting or listening, the *)
(* ticks it still needs and the event it will then raise.  A chip that     *)
(* fails raises nothing.                                                   *)
(***************************************************************************)
Chip   == [mode : {"SLEEP", "TX", "RX"}, left : Nat,
           event : RadioEvents \cup {"NONE"}]
Asleep == [mode |-> "SLEEP", left |-> 0, event |-> "NONE"]
Failed(mode) == IF ChipMayFail
                  THEN {[mode |-> mode, left |-> 0, event |-> "NONE"]}
                  ELSE {}
Transmission == {[mode |-> "TX", left |-> TxTime, event |-> "TX_COMPLETE"]}
                  \cup Failed("TX")
Reception == {[mode |-> "RX", left |-> Window, event |-> "RX_TIMEOUT"]}
               \cup {[mode |-> "RX", left |-> d, event |-> "RX_READY"] :
                        d \in FrameTimes}
               \cup Failed("RX")

\* Every driver call that reprograms or resets the chip clears its flags.
ChipTo(c)  == chip' = c /\ irq' = "NONE"
ChipIn(cs) == chip' \in cs /\ irq' = "NONE"

-----------------------------------------------------------------------------
\* LDL_MAC_init(): a fresh session, or one restored by the application.
Init ==
    /\ state = "INIT" /\ op = "NONE" /\ trials = 0
    /\ optNb = 0 /\ ctxNb \in NbTransSettings \cup {0} /\ joined \in BOOLEAN
    /\ retryOff = FALSE /\ globalOff \in BOOLEAN
    /\ waitA = TimerSet(InitLockout) /\ waitB = TimerOff
    /\ inputs = InputsClear /\ chip = Asleep /\ irq = "NONE"
    /\ out = {} /\ lag = 0 /\ since = 0 /\ sent = 0

(***************************************************************************)
(* Start-up and recovery: reset the chip, wait, collect entropy.           *)
(***************************************************************************)
ProcessInit ==
    /\ state = "INIT" /\ Expired(waitA)
    /\ state' = "INIT_RESET" /\ op' = "RESET"
    /\ waitA' = TimerSet(ResetHold)
    /\ ChipTo(Asleep)
    /\ out' = {"RESET"} /\ lag' = 0
    /\ UNCHANGED <<trials, session, bands, waitB, inputs, history>>

ProcessReset ==
    /\ state \in {"INIT_RESET", "RECOVERY_RESET"} /\ Expired(waitA)
    /\ op' = "RESET"
    /\ \/ /\ state = "INIT_RESET" /\ state' = "INIT_LOCKOUT"
          /\ waitA' = TimerSet(InitLockout)
       \/ /\ state = "RECOVERY_RESET" /\ state' = "RECOVERY_LOCKOUT"
          /\ waitA' = TimerSet(RecoveryLockout)
    /\ out' = {} /\ lag' = 0
    /\ UNCHANGED <<trials, session, bands, waitB, inputs, chip, irq, history>>

ProcessLockout ==
    /\ state \in {"INIT_LOCKOUT", "RECOVERY_LOCKOUT"} /\ Expired(waitA)
    /\ state' = "ENTROPY" /\ op' = "RESET"
    /\ waitA' = TimerSet(ResetHold)
    /\ ChipTo(Asleep)
    /\ out' = {} /\ lag' = 0
    /\ UNCHANGED <<trials, session, bands, waitB, inputs, history>>

ProcessEntropy ==
    /\ state = "ENTROPY" /\ Expired(waitA)
    /\ state' = "IDLE" /\ op' = "NONE" /\ waitA' = TimerOff
    /\ ChipTo(Asleep)
    /\ out' = {"STARTUP"} /\ lag' = 0
    /\ UNCHANGED <<trials, session, bands, waitB, inputs, history>>

\* Defect: nothing ends the reset.
ChipErrorMutantTimer ==
    /\ state' = "RECOVERY_RESET" /\ op' = "RESET"
    /\ inputs' = InputsClear
    /\ waitA' = TimerOff
    /\ ChipTo(Asleep)
    /\ out' = {"CHIP_ERROR"} /\ lag' = 0
    /\ UNCHANGED <<trials, session, bands, history>>

\* The chip did not answer: reset it and drop the request in hand.
ChipError ==
    /\ state' = "RECOVERY_RESET" /\ op' = "RESET"
    /\ inputs' = InputsClear
    /\ waitA' = TimerSet(ResetHold)
    /\ ChipTo(Asleep)
    /\ out' = {"CHIP_ERROR"} /\ lag' = 0
    /\ UNCHANGED <<trials, session, bands, history>>

(***************************************************************************)
(* Uplink.                                                                 *)
(***************************************************************************)
\* registerTime(): the aggregate limit applies to data frames only.
GlobalLimit == IF op = "JOINING" THEN {globalOff} ELSE {globalOff, TRUE}

ProcessWaitTx ==
    /\ state = "WAIT_TX" /\ Expired(waitA)
    /\ state' = "TX"
    /\ inputs' = InputsArm({"TX_COMPLETE"})
    /\ ChipIn(Transmission)
    /\ globalOff' \in GlobalLimit
    /\ waitA' = TimerSet(2 * TxTime)
    /\ sent' = IF op = "JOINING" THEN 1 ELSE sent + 1
    /\ since' = 0
    /\ out' = {"TX_BEGIN"} /\ lag' = 0
    /\ UNCHANGED <<op, trials, session, retryOff, waitB>>

RxDelay == IF op = "JOINING" THEN JA1Delay ELSE RX1Delay

\* Defect: the time since the interrupt was latched is forgotten.
AdvanceMutant(a) == a

\* Both slots are scheduled from the end of the uplink: the time since the
\* interrupt was latched is taken off the wait.
Advance(a) == a + inputs.age

ProcessTxComplete ==
    LET advanceA == Advance(AdvanceA)
        advanceB == Advance(AdvanceB)
    IN
    /\ state = "TX" /\ inputs.state = "TX_COMPLETE"
    /\ inputs' = InputsClear
    /\ \/ /\ advanceB <= RxDelay + Sec /\ advanceA <= RxDelay
          /\ waitA' = TimerSet(RxDelay - advanceA)
          /\ waitB' = TimerSet(RxDelay + Sec - advanceB)
          /\ state' = "WAIT_RX1"
       \/ /\ advanceB <= RxDelay + Sec /\ advanceA > RxDelay
          /\ waitA' = TimerOff
          /\ waitB' = TimerSet(RxDelay + Sec - advanceB)
          /\ state' = "WAIT_RX2"
       \/ /\ advanceB > RxDelay + Sec
          /\ waitA' = TimerOff
          /\ waitB' = TimerSet(0)
          /\ state' = "WAIT_RX2"
    /\ ChipTo(Asleep)
    /\ out' = {"TX_COMPLETE"} /\ lag' = 0
    /\ UNCHANGED <<op, trials, session, bands, history>>

ProcessTxGuard ==
    /\ state = "TX" /\ inputs.state # "TX_COMPLETE" /\ Expired(waitA)
    /\ ChipError
    /\ UNCHANGED waitB

(***************************************************************************)
(* Receive windows.                                                        *)
(***************************************************************************)
\* Defect: the shift goes the wrong way.
GuardMutant == Sec \div 16

Guard == 16 * Sec

\* Defect: no guard on a chip that does not answer.
OpenWindowMutantGuard ==
    /\ inputs' = InputsArm({"RX_READY", "RX_TIMEOUT"})
    /\ ChipIn(Reception)
    /\ waitA' = TimerOff

OpenWindow ==
    /\ inputs' = InputsArm({"RX_READY", "RX_TIMEOUT"})
    /\ ChipIn(Reception)
    /\ waitA' = TimerSet(Guard)

ProcessWaitRx1 ==
    /\ state = "WAIT_RX1" /\ Expired(waitA)
    /\ \/ /\ -waitA.left <= Margin
          /\ state' = "RX1"
          /\ OpenWindow
       \/ /\ -waitA.left > Margin
          /\ state' = "WAIT_RX2"
          /\ waitA' = TimerOff
          /\ UNCHANGED <<inputs, chip, irq>>
    /\ out' = {"RX1_SLOT"} /\ lag' = 0
    /\ UNCHANGED <<op, trials, session, bands, waitB, history>>

\* A missed RX2 slot returns to IDLE and leaves op as it was.
ProcessWaitRx2 ==
    /\ state = "WAIT_RX2" /\ Expired(waitB)
    /\ waitB' = TimerOff
    /\ \/ /\ -waitB.left <= Margin
          /\ state' = "RX2"
          /\ OpenWindow
       \/ /\ -waitB.left > Margin
          /\ state' = "IDLE"
          /\ UNCHANGED <<waitA, inputs, chip, irq>>
    /\ out' = {"RX2_SLOT"} /\ lag' = 0
    /\ UNCHANGED <<op, trials, session, bands, history>>

(***************************************************************************)
(* No valid downlink: retry, or report and return to IDLE.  evs are the    *)
(* responses its caller pushes as well.  For any other op the handler does *)
(* nothing: OpMatchesState says it is never called with one.               *)
(***************************************************************************)
NbTrans == IF optNb > 0 THEN optNb ELSE IF ctxNb > 0 THEN ctxNb ELSE 1

\* Defects: one trial too many, one too few.
LastTrialMutantLate(t)  == t > NbTrans
LastTrialMutantEarly(t) == t + 1 >= NbTrans

LastTrial(t) == t >= NbTrans

\* Defect: the application is not told.
GiveUpMutantSilent(evs) ==
    /\ state' = "IDLE" /\ op' = "NONE"
    /\ waitA' = TimerOff /\ out' = {}

\* Defect: the timer that guarded the window is left armed.
GiveUpMutantTimer(evs) ==
    /\ state' = "IDLE" /\ op' = "NONE"
    /\ UNCHANGED waitA /\ out' = evs

GiveUp(evs) ==
    /\ state' = "IDLE" /\ op' = "NONE"
    /\ waitA' = TimerOff /\ out' = evs

NextTrial == (trials + 1) % TrialsMod

DownlinkMissing(evs) ==
    /\ trials' = NextTrial
    /\ \/ /\ op = "DATA_CONFIRMED" /\ ~LastTrial(NextTrial)
          /\ retryOff' = TRUE /\ state' = "WAIT_RETRY"
          /\ waitA' = TimerOff /\ out' = evs
          /\ UNCHANGED op
       \/ /\ op = "DATA_CONFIRMED" /\ LastTrial(NextTrial)
          /\ GiveUp(evs \cup {"DATA_TIMEOUT"})
          /\ UNCHANGED retryOff
       \/ /\ op = "DATA_UNCONFIRMED" /\ ~LastTrial(NextTrial)
          /\ state' = "WAIT_TX" /\ waitA' = TimerSet(0) /\ out' = evs
          /\ UNCHANGED <<op, retryOff>>
       \/ /\ op = "DATA_UNCONFIRMED" \* no trial left, or no channel
          /\ GiveUp(evs \cup {"DATA_COMPLETE"})
          /\ UNCHANGED retryOff
       \/ /\ op = "JOINING"
          /\ retryOff' = TRUE
          /\ \/ /\ state' = "WAIT_RETRY" /\ waitA' = TimerOff
                /\ out' = evs \cup {"JOIN_TIMEOUT"}
                /\ UNCHANGED op
             \/ GiveUp(evs \cup {"JOIN_TIMEOUT"}) \* no channel at this rate

\* A frame was received: LDL_OPS_receiveFrame() accepts it, or not.
ProcessRxReady ==
    /\ state \in Receiving /\ inputs.state = "RX_READY"
    /\ inputs' = InputsClear
    /\ waitB' = TimerOff
    /\ ChipTo(Asleep)
    /\ lag' = 0
    /\ \/ /\ op = "JOINING"
          /\ GiveUp({"DOWNSTREAM", "JOIN_COMPLETE", "SESSION_UPDATED"})
          /\ joined' = TRUE
          /\ UNCHANGED <<trials, optNb, ctxNb, retryOff>>
       \/ /\ op \in DataOps
          /\ GiveUp({"DOWNSTREAM", "DATA_COMPLETE", "SESSION_UPDATED"})
          /\ ctxNb' \in NbTransSettings \cup {ctxNb}
          /\ UNCHANGED <<trials, optNb, joined, retryOff>>
       \/ /\ DownlinkMissing({"DOWNSTREAM"})
          /\ UNCHANGED session
    /\ UNCHANGED <<globalOff, history>>

ProcessRxTimeout ==
    /\ state \in Receiving /\ inputs.state = "RX_TIMEOUT"
    /\ inputs' = InputsClear
    /\ \/ /\ state = "RX2" /\ state' = "RX2_LOCKOUT"
          /\ waitB' = TimerOff
          /\ waitA' = TimerSet(LockoutTime)
       \/ /\ state = "RX1" /\ state' = "WAIT_RX2"
          /\ waitA' = TimerOff
          /\ UNCHANGED waitB
    /\ ChipTo(Asleep)
    /\ out' = {} /\ lag' = 0
    /\ UNCHANGED <<op, trials, session, bands, history>>

ProcessRxGuard ==
    /\ state \in Receiving /\ inputs.state \notin {"RX_READY", "RX_TIMEOUT"}
    /\ Expired(waitA) \/ Expired(waitB)
    /\ ChipError
    /\ waitB' = TimerOff

ProcessRx2Lockout ==
    /\ state = "RX2_LOCKOUT" /\ Expired(waitA)
    /\ DownlinkMissing({"SESSION_UPDATED"})
    /\ lag' = 0
    /\ UNCHANGED <<session, globalOff, waitB, inputs, chip, irq, history>>

\* Defect: the timer that starts the uplink is not set.
ProcessRetryMutant ==
    /\ state = "WAIT_RETRY" /\ ~retryOff /\ ~globalOff
    /\ state' = "WAIT_TX" /\ out' = {} /\ lag' = 0
    /\ UNCHANGED <<op, trials, session, bands, waitA, waitB, inputs, chip, irq,
                   history>>

ProcessRetry ==
    /\ state = "WAIT_RETRY" /\ ~retryOff /\ ~globalOff
    /\ state' = "WAIT_TX"
    /\ \E d \in Delays : waitA' = TimerSet(d)
    /\ out' = {} /\ lag' = 0
    /\ UNCHANGED <<op, trials, session, bands, waitB, inputs, chip, irq,
                   history>>

\* Nothing the current state looks at has happened.
ProcessNothing ==
    /\ CASE state = "IDLE" -> TRUE
         [] state = "WAIT_RETRY" -> retryOff \/ globalOff
         [] state = "WAIT_RX2" -> ~Expired(waitB)
         [] state = "TX" -> inputs.state # "TX_COMPLETE" /\ ~Expired(waitA)
         [] state \in Receiving -> ~ProcessDue
         [] OTHER -> ~Expired(waitA)
    /\ out' = {} /\ lag' = 0
    /\ UNCHANGED <<state, op, trials, session, bands, waitA, waitB, inputs,
                   chip, irq, history>>

Process ==
    \/ ProcessInit \/ ProcessReset \/ ProcessLockout \/ ProcessEntropy
    \/ ProcessWaitTx \/ ProcessTxComplete \/ ProcessTxGuard
    \/ ProcessWaitRx1 \/ ProcessWaitRx2
    \/ ProcessRxReady \/ ProcessRxTimeout \/ ProcessRxGuard
    \/ ProcessRx2Lockout \/ ProcessRetry \/ ProcessNothing

-----------------------------------------------------------------------------
(***************************************************************************)
(* The application.  A call the code refuses (BUSY, NOTJOINED, NOCHANNEL)  *)
(* changes nothing, except that LDL_MAC_otaa() has by then forgotten the   *)
(* session and reset the retry band.                                       *)
(***************************************************************************)
Otaa ==
    /\ state = "IDLE"
    /\ joined' = FALSE
    /\ out' = IF joined THEN {"SESSION_UPDATED"} ELSE {}
    /\ trials' = 0 /\ retryOff' = FALSE
    /\ \/ /\ ~globalOff
          /\ state' = "WAIT_TX" /\ op' = "JOINING" /\ sent' = 0
          /\ \E d \in Delays : waitA' = TimerSet(d)
       \/ UNCHANGED <<state, op, waitA, sent>> \* off-time, or no channel
    /\ UNCHANGED <<optNb, ctxNb, globalOff, waitB, inputs, chip, irq, lag,
                   since>>

\* externalDataCommand(): when the pending MAC commands do not leave room for
\* the data they are sent alone, unconfirmed, whatever was asked for.
Data(confirmed) ==
    /\ state = "IDLE" /\ joined /\ ~globalOff
    /\ state' = "WAIT_TX"
    /\ op' \in {"DATA_UNCONFIRMED"}
                \cup (IF confirmed THEN {"DATA_CONFIRMED"} ELSE {})
    /\ optNb' \in NbTransSettings
    /\ trials' = 0
    /\ \E d \in Delays : waitA' = TimerSet(d)
    /\ sent' = 0
    /\ out' = {}
    /\ UNCHANGED <<ctxNb, joined, bands, waitB, inputs, chip, irq, lag, since>>

\* Only the state and the chip are touched: op, the timers and the inputs
\* stay as they are, and so does an interrupt already raised.
Abandon ==
    /\ MayCancel /\ state \notin Resetting \cup {"IDLE"}
    /\ state' = "IDLE" /\ chip' = Asleep

Cancel ==
    /\ Abandon
    /\ out' = {}
    /\ UNCHANGED <<op, trials, session, bands, waitA, waitB, inputs, irq, lag,
                   history>>

Forget ==
    /\ joined /\ joined' = FALSE
    /\ \/ Abandon
       \/ state \in Resetting \cup {"IDLE"} /\ UNCHANGED <<state, chip>>
    /\ out' = {"SESSION_UPDATED"}
    /\ UNCHANGED <<op, trials, optNb, ctxNb, bands, waitA, waitB, inputs, irq,
                   lag, history>>

Application == Otaa \/ (\E c \in BOOLEAN : Data(c)) \/ Cancel \/ Forget

-----------------------------------------------------------------------------
\* LDL_Radio_interrupt() -> LDL_MAC_radioEvent() -> LDL_MAC_inputSignal().
Interrupt ==
    /\ irq # "NONE"
    /\ inputs' = InputSignal(irq)
    /\ irq' = "NONE" /\ out' = {}
    /\ UNCHANGED <<state, op, trials, session, bands, waitA, waitB, chip, lag,
                   history>>

\* The chip works for a tick; it raises its line when it is done.
ChipTick ==
    \/ chip.left > 1 /\ chip' = [chip EXCEPT !.left = @ - 1] /\ UNCHANGED irq
    \/ chip.left = 1 /\ chip' = Asleep /\ irq' = chip.event
    \/ chip.left = 0 /\ UNCHANGED <<chip, irq>>

AfterUplink == \/ state \in {"WAIT_RX1", "RX1", "WAIT_RX2"}
               \/ state = "TX" /\ chip.mode = "SLEEP"

\* Time passes, unless the interrupt handler is to run or the call of
\* LDL_MAC_process() is overdue.
Tick ==
    /\ irq = "NONE"
    /\ ProcessDue => lag < MaxLatency
    /\ lag' = IF ProcessDue THEN lag + 1 ELSE 0
    /\ waitA' = RunDown(waitA) /\ waitB' = RunDown(waitB)
    /\ inputs' = IF InputPending /\ inputs.age <= MaxLatency
                   THEN [inputs EXCEPT !.age = @ + 1] ELSE inputs
    /\ ChipTick
    /\ since' = IF AfterUplink THEN since + 1 ELSE 0
    /\ out' = {}
    /\ UNCHANGED <<state, op, trials, session, bands, sent>>

\* processBands() finds an off-time run down.
RetryOver  == /\ retryOff /\ retryOff' = FALSE /\ out' = {}
              /\ UNCHANGED <<state, op, trials, session, globalOff, waitA,
                             waitB, inputs, chip, irq, lag, history>>
GlobalOver == /\ globalOff /\ globalOff' = FALSE /\ out' = {}
              /\ UNCHANGED <<state, op, trials, session, retryOff, waitA,
                             waitB, inputs, chip, irq, lag, history>>

Next == Process \/ Application \/ Interrupt \/ Tick \/ RetryOver \/ GlobalOver

Spec == Init /\ [][Next]_vars

(***************************************************************************)
(* Fairness.  The main loop keeps calling LDL_MAC_process() (the BAND      *)
(* timer, set by every call, wakes it at least once a minute), time        *)
(* passes, a raised interrupt is handled, off-times run down.  The         *)
(* application owes nothing.                                               *)
(***************************************************************************)
Fairness == /\ WF_vars(Process) /\ WF_vars(Tick) /\ WF_vars(Interrupt)
            /\ WF_vars(RetryOver) /\ WF_vars(GlobalOver)

FairSpec == Spec /\ Fairness

-----------------------------------------------------------------------------
TypeOK ==
    /\ state \in States /\ op \in Ops
    /\ trials \in Nat /\ optNb \in 0..15 /\ ctxNb \in 0..15
    /\ joined \in BOOLEAN /\ retryOff \in BOOLEAN /\ globalOff \in BOOLEAN
    /\ waitA \in Timer /\ waitB \in Timer
    /\ inputs \in Inputs /\ chip \in Chip
    /\ irq \in RadioEvents \cup {"NONE"}
    /\ out \subseteq Responses
    /\ lag \in 0..MaxLatency /\ since \in Nat /\ sent \in Nat

\* A request is in hand exactly in the states that serve one: in a serving
\* state op is a request (downlinkMissingHandler() would do nothing, and the
\* machine stay in RX2_LOCKOUT for ever, with any other op), and while the
\* radio is being reset it is LDL_OP_RESET.
OpMatchesState ==
    /\ state \in Serving => op \in Requests
    /\ state \in Resetting => op = "RESET"
    /\ state = "INIT" => op = "NONE"

\* Whatever a state waits for, a timer is armed that ends the wait even when
\* the chip never answers, so no early return or lost interrupt can leave the
\* machine in a state for ever.
NeverStranded ==
    /\ state \notin {"IDLE", "WAIT_RETRY", "WAIT_RX2"} => waitA.armed
    /\ state \in {"WAIT_RX1", "RX1", "WAIT_RX2"} => waitB.armed

\* The chip transmits only in TX and listens only in RX1 and RX2: no path back
\* to IDLE, to a wait or to a reset leaves the radio on.
RadioMatchesState ==
    /\ chip.mode = "TX" => state = "TX"
    /\ chip.mode = "RX" => state \in Receiving

\* When the chip is done in TX, RX1 or RX2, the event is on its way or
\* latched: arming, signalling, clearing and sleeping never lose the
\* interrupt the state waits for, nor mistake an older one for it.
InterruptNotLost ==
    /\ state = "TX" /\ chip = Asleep
         => (irq = "TX_COMPLETE") # (inputs.state = "TX_COMPLETE")
    /\ state \in Receiving /\ chip = Asleep
         => (irq \in {"RX_READY", "RX_TIMEOUT"})
              # (inputs.state \in {"RX_READY", "RX_TIMEOUT"})
    /\ state \in {"TX"} \cup Receiving /\ chip # Asleep
         => irq = "NONE" /\ inputs.state = "NONE"

\* A data request is transmitted at most nbTrans times: the value given with
\* the request, else the one the network set, else once.
TransmissionBound ==
    state \in Serving /\ op \in DataOps => sent <= NbTrans

(***************************************************************************)
(* What the invariants above rest on: IInv is inductive.                   *)
(***************************************************************************)
\* The chip is doing what the state asked of it and will raise an event that
\* is armed; only armed events are latched.
RadioConsistent ==
    /\ inputs.state = "NONE" \/ inputs.state \in inputs.armed
    /\ state = "TX" => inputs.armed = {"TX_COMPLETE"}
    /\ state \in Receiving => inputs.armed = {"RX_READY", "RX_TIMEOUT"}
    /\ chip.mode = "SLEEP" => chip = Asleep
    /\ chip.mode = "TX" => chip.event \in {"TX_COMPLETE", "NONE"}
    /\ chip.mode = "RX" => chip.event \in {"RX_READY", "RX_TIMEOUT", "NONE"}
    /\ chip.left = 0 <=> chip.event = "NONE"

\* sent counts the trials done and the one in progress.
TrialsCounted ==
    state \in Serving /\ op \in DataOps =>
        /\ trials < NbTrans
        /\ sent = trials + (IF state \in {"WAIT_TX", "WAIT_RETRY"} THEN 0 ELSE 1)

\* WAITA runs out AdvanceA before the slot, counted from the end of the
\* uplink; neither it nor a latched TX_COMPLETE waits longer than the call of
\* LDL_MAC_process() is due.
Rx1Scheduled ==
    /\ state = "TX" /\ irq = "TX_COMPLETE" => since = 0
    /\ state = "TX" /\ inputs.state = "TX_COMPLETE" =>
          inputs.age = since /\ inputs.age <= lag
    /\ state = "WAIT_RX1" =>
          /\ waitA.left = (RxDelay - AdvanceA) - since
          /\ -waitA.left <= lag

IInv == /\ TypeOK /\ OpMatchesState /\ NeverStranded /\ RadioMatchesState
        /\ RadioConsistent /\ InterruptNotLost /\ TrialsCounted
        /\ Rx1Scheduled

\* The first receive window opens when the network answers: not before the slot,
\* not later than the margin after it, however late the TX_COMPLETE interrupt
\* and the timer were processed.
Rx1SlotOnTime ==
    [][(state = "WAIT_RX1" /\ state' = "RX1") =>
         since - (RxDelay - AdvanceA) \in 0..Margin]_vars

\* The same of both windows.  It needs a main loop that is not later than the
\* second slot itself: a TX_COMPLETE processed after that slot sets WAITB to
\* now, which counts as on time.
SlotsOnTime ==
    [][/\ state = "WAIT_RX1" /\ state' = "RX1" =>
            since - (RxDelay - AdvanceA) \in 0..Margin
       /\ state = "WAIT_RX2" /\ state' = "RX2" =>
            since - (RxDelay + Sec - AdvanceB) \in 0..Margin]_vars

\* A data request ends with a report to the application: DATA_COMPLETE,
\* DATA_TIMEOUT or, when the radio has to be reset, CHIP_ERROR; unless the
\* application itself abandons it.
DataRequestReported ==
    [][(state \in Serving /\ op \in DataOps /\ state' \notin Serving) =>
         \/ out' \cap {"DATA_COMPLETE", "DATA_TIMEOUT", "CHIP_ERROR"} # {}
         \/ Cancel \/ Forget]_vars

\* LDL_MAC_CHIP_ERROR is pushed only when the chip failed to answer.
ChipErrorIsReal ==
    [][("CHIP_ERROR" \in out') =>
         chip.mode # "SLEEP" /\ chip.event = "NONE"]_vars

\* A request that ends leaves nothing behind that would keep
\* LDL_MAC_ticksUntilNextEvent() at 0 in IDLE: no input is latched and neither
\* WAITA nor WAITB is armed, not even by an earlier request that was abandoned.
\* (Abandoning one leaves them, and a reset does not clear WAITB.)
QuietWhenIdle ==
    [][(state \in Serving /\ state' = "IDLE") =>
         \/ ~InputPending' /\ ~waitA'.armed /\ ~waitB'.armed
         \/ Cancel \/ Forget]_vars

\* Initialisation is left only by way of the radio reset.
ResetBeforeReady == [][state = "INIT" => state' \in {"INIT", "INIT_RESET"}]_vars


\* Every data request comes to an end, whatever the chip and the network do.
DataRequestEnds ==
    (state \in Serving /\ op \in DataOps) ~> state \notin Serving

\* After start-up or a chip error the machine becomes ready.
BecomesReady == state \in Resetting \cup {"INIT"} ~> state = "IDLE"

\* A join attempt that timed out and was not abandoned transmits again.
JoinRetried ==
    (op = "JOINING" /\ state = "WAIT_RETRY") ~> state \in {"TX", "IDLE"}
=============================================================================
