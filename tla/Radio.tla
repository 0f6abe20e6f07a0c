------------------------------- MODULE Radio -------------------------------
(***************************************************************************)
(* The driver of src/ldl_radio.c between the MAC that calls it, the        *)
(* SX1272 or SX1276 it writes to and the board that carries interrupts     *)
(* back.  A call of the driver is the sequence of its register accesses:   *)
(* the chip and the interrupt handler act between them.                    *)
(*                                                                         *)
(* The MAC is reduced to the order of its calls (all the states in which   *)
(* the chip sleeps and a transmission may come next are IDLE) and its      *)
(* inputs; chip, board and time are the environment.                       *)
(***************************************************************************)
EXTENDS Integers, FiniteSets, SequencesExt

CONSTANTS
    Builds,       \* radios and boards: [type, pa, polled]
    TxSettings,   \* settings of a transmission: [freq, sf, bw, dbm, len]
    RxSettings,   \* settings of a window: [freq, sf, bw, timeout, max]
    RxLengths,    \* lengths of frames that are received
    Signals,      \* [rssi, snr] of a frame, in dBm and quarters of a dB
    MaxPacket     \* LDL_MAX_PACKET

\* What the fields of the settings and of the chip's registers can hold.
ASSUME RadioAssumption ==
    /\ Builds \subseteq [type : {"SX1272", "SX1276"}, pa : {"RFO", "BOOST"}, polled : BOOLEAN]
    /\ \A s \in TxSettings : /\ s.freq \in Nat /\ s.sf \in 6..12 /\ s.bw \in {125, 250, 500}
                            /\ s.dbm \in Int /\ s.len \in 0..255
    /\ \A s \in RxSettings : /\ s.freq \in Nat /\ s.sf \in 6..12 /\ s.bw \in {125, 250, 500}
                            /\ s.timeout \in 0..255 /\ s.max \in 0..255
    /\ RxLengths \subseteq 0..255
    /\ Signals \subseteq [rssi : Int, snr : -128..127]
    /\ MaxPacket \in 0..255

\* The settings for which the driver's arithmetic is that of the chip: a frequency
\* fits the three registers of the synthesiser, the slowest symbols are not used at
\* 250 kHz, where their optimisation is never switched on, and no power is between
\* -1 and 0 dBm, which setPower() rounds up.
FreqEnd == 1024000000
Askable ==
    /\ \A s \in TxSettings \cup RxSettings : s.freq < FreqEnd /\ (s.bw = 250 => s.sf < 12)
    /\ \A s \in TxSettings : s.dbm \notin -99..-1

VARIABLES
    self,        \* struct ldl_radio: [type, pa, dio_mapping1]
    regs,        \* registers of the chip
    chip,        \* the rest of the chip: [held, finished, fifo, len, signal]
    board,       \* the radio connector: [polled, level], level as last seen per line
    inputs,      \* inputs of the MAC: [armed, state]
    state,       \* state of the MAC
    todo,        \* what the call in progress has still to do
    asked,       \* settings of the operation in progress
    collected    \* what LDL_Radio_collect() returned last

vars == <<self, regs, chip, board, inputs, state, todo, asked, collected>>

Nothing == [data |-> "nothing", size |-> 0, rssi |-> 0, snr |-> 0]
NoSettings == [freq |-> 0, sf |-> 0, bw |-> 0]

-----------------------------------------------------------------------------
(* The chip. *)

\* The operators & and | of C on the eight bits of a byte.
And(a, b) == LET Bit(w) == IF (a \div w) % 2 = 1 /\ (b \div w) % 2 = 1 THEN w ELSE 0
             IN Bit(1) + Bit(2) + Bit(4) + Bit(8) + Bit(16) + Bit(32) + Bit(64) + Bit(128)
Or(a, b)  == LET Bit(w) == IF (a \div w) % 2 = 1 \/ (b \div w) % 2 = 1 THEN w ELSE 0
             IN Bit(1) + Bit(2) + Bit(4) + Bit(8) + Bit(16) + Bit(32) + Bit(64) + Bit(128)

Defaults ==
    [Fifo |-> 0, OpMode |-> 9, FrfMsb |-> 0, FrfMid |-> 0, FrfLsb |-> 0, PaConfig |-> 79, PaRamp |-> 9,
     Lna |-> 32, FifoAddrPtr |-> 0, FifoTxBaseAddr |-> 128, FifoRxCurrentAddr |-> 0,
     IrqFlagsMask |-> 0, IrqFlags |-> 0, ModemConfig1 |-> 0, ModemConfig2 |-> 0, ModemConfig3 |-> 0,
     SymbTimeoutLsb |-> 100, PayloadLength |-> 1, PayloadMaxLength |-> 255, InvertIQ |-> 39,
     SyncWord |-> 18, DioMapping1 |-> 0, PaDac |-> 132]

\* Registers of the LoRa modem: FSK registers when the chip is not in LoRa mode.
LoraPage == {"FifoAddrPtr", "FifoTxBaseAddr", "IrqFlagsMask", "IrqFlags", "ModemConfig1", "ModemConfig2",
             "ModemConfig3", "SymbTimeoutLsb", "PayloadLength", "PayloadMaxLength", "InvertIQ", "SyncWord"}

SLEEP         == 0
STANDBY       == 1
TX            == 3
RX_CONTINUOUS == 5
RX_SINGLE     == 6
RxTimeout == 128
RxDone    == 64
TxDone    == 8

Lora(r) == And(r.OpMode, 128) # 0
Op(r)   == r.OpMode % 8

\* The bit of LoRa mode can be changed only while the chip sleeps; writing ones
\* to the flags clears them.
Written(r, reg, value) ==
    IF reg \in LoraPage /\ ~Lora(r) THEN r
    ELSE [r EXCEPT ![reg] =
            CASE reg = "OpMode" /\ Op(r) # SLEEP -> Or(value % 128, And(@, 128))
              [] reg = "IrqFlags"                -> And(@, 255 - value)
              [] OTHER                           -> value]

\* DIO0 is RxDone (00) or TxDone (01), DIO1 is RxTimeout (00).
Mapping(r, n) == (r.DioMapping1 \div (IF n = 0 THEN 64 ELSE 16)) % 4
Dio(n) ==
    /\ ~chip.held
    /\ LET flag == CASE n = 0 /\ Mapping(regs, 0) = 0 -> RxDone
                     [] n = 0 /\ Mapping(regs, 0) = 1 -> TxDone
                     [] n = 1 /\ Mapping(regs, 1) = 0 -> RxTimeout
                     [] OTHER -> 0
       IN And(regs.IrqFlags, flag) # 0

\* The radio connector has seen the lines as they are.
Served == \A n \in {0, 1} : board.level[n] = Dio(n)

-----------------------------------------------------------------------------
(* What a call is made of. *)

Change(reg, keep, value) == [do |-> "write", reg |-> reg, keep |-> keep, value |-> value]
W(reg, value)            == Change(reg, 0, value)
Burst(len)               == [do |-> "burst", len |-> len]
Reset(held)              == [do |-> "reset", held |-> held]
Map(value)               == [do |-> "map", value |-> value]
Arm(input)               == [do |-> "arm", input |-> input]
Clear                    == [do |-> "clear"]
Collect                  == [do |-> "collect"]

SetOp(op) == <<Change("OpMode", 255 - 7, op)>>

\* Defect: LoRa is enabled without going to sleep first.
EnableLoraMutant == <<Change("OpMode", 255, 128)>>
EnableLora       == SetOp(SLEEP) \o <<Change("OpMode", 255, 128)>>

LowRate(s) == IF s.bw = 125 /\ s.sf \in {11, 12} THEN 1 ELSE 0

BwSetting(s) == IF self.type = "SX1272" THEN [bw \in {125, 250, 500} |-> 64 * (bw \div 250)][s.bw]
                                        ELSE [bw \in {125, 250, 500} |-> 112 + 16 * (bw \div 250)][s.bw]
SfSetting(s) == 16 * s.sf
CrSetting    == IF self.type = "SX1272" THEN 8 ELSE 2

\* Defect: optimisation for low rates is left off on the SX1276.
SetModemConfigMutant(s) ==
    IF self.type = "SX1272"
    THEN <<W("ModemConfig1", BwSetting(s) + CrSetting + 2 + LowRate(s)), W("ModemConfig2", SfSetting(s) + 4)>>
    ELSE <<W("ModemConfig1", BwSetting(s) + CrSetting), W("ModemConfig2", SfSetting(s) + 4), W("ModemConfig3", 4)>>

SetModemConfig(s) ==
    IF self.type = "SX1272"
    THEN <<W("ModemConfig1", BwSetting(s) + CrSetting + 2 + LowRate(s)), W("ModemConfig2", SfSetting(s) + 4)>>
    ELSE <<W("ModemConfig1", BwSetting(s) + CrSetting), W("ModemConfig2", SfSetting(s) + 4),
           W("ModemConfig3", 8 * LowRate(s) + 4)>>

\* Hundredths of a dBm, rounded towards zero.
Dbm(x) == IF x < 0 THEN -((-x) \div 100) ELSE x \div 100
Clamp(x, low, high) == IF x < low THEN low ELSE IF x > high THEN high ELSE x

\* The power of an SX1276 at the RFO pin is fixed.
SetPower(dbm) ==
    IF self.pa = "RFO"
    THEN IF self.type = "SX1272" THEN <<Change("PaConfig", 112, Clamp(Dbm(dbm), -1, 14) + 1)>>
         ELSE <<Change("PaConfig", 240, 126)>>
    ELSE <<Change("PaDac", 248, IF Dbm(dbm) >= 20 THEN 7 ELSE 4),
           Change("PaConfig", IF self.type = "SX1272" THEN 240 ELSE 128,
                  128 + (IF Dbm(dbm) >= 20 THEN 15 ELSE Clamp(Dbm(dbm), 2, 17) - 2))>>

\* (freq << 19) / 32000000, without leaving 32 bits.
Frf(freq) == 256 * (freq \div 15625) + (256 * (freq % 15625)) \div 15625

SetFreq(freq) ==
    <<W("FrfMsb", Frf(freq) \div 65536), W("FrfMid", (Frf(freq) \div 256) % 256), W("FrfLsb", Frf(freq) % 256)>>

WriteFIFO(len) ==
    <<W("FifoTxBaseAddr", 0), W("FifoAddrPtr", 0), W("PayloadLength", len), Burst(len)>>

-----------------------------------------------------------------------------
(* The functions of the driver. *)

Transmit(s) ==
    <<Map(64)>> \o SetOp(STANDBY) \o SetModemConfig(s) \o SetFreq(s.freq) \o SetPower(s.dbm)
    \o <<W("SyncWord", 52), Change("PaRamp", 240, 8), Change("InvertIQ", 255 - 64, 0),
         W("DioMapping1", 64), W("IrqFlags", 255), W("IrqFlagsMask", 247)>>
    \o WriteFIFO(s.len) \o SetOp(TX)

Receive(s) ==
    <<Map(0)>> \o SetOp(STANDBY) \o SetModemConfig(s) \o SetFreq(s.freq)
    \o <<W("SymbTimeoutLsb", s.timeout), W("SyncWord", 52), W("Lna", 35), W("PayloadMaxLength", s.max),
         Change("InvertIQ", 255, 64), W("DioMapping1", 0), W("IrqFlags", 255), W("IrqFlagsMask", 63)>>
    \o SetOp(RX_SINGLE)

Sleep          == EnableLora
ClearInterrupt == <<W("IrqFlags", 255), W("IrqFlagsMask", 255)>> \o SetOp(SLEEP)

EntropyBegin ==
    EnableLora \o SetOp(STANDBY) \o <<W("IrqFlags", 255), W("IrqFlagsMask", 255)>>
    \o (IF self.type = "SX1272" THEN <<W("ModemConfig1", 10), W("ModemConfig2", 116)>>
                                ELSE <<W("ModemConfig1", 114), W("ModemConfig2", 112)>>)
    \o SetOp(RX_CONTINUOUS)

EntropyEnd == SetOp(SLEEP)

\* LDL_Radio_signal() and LDL_MAC_radioEvent(): the input that line n signals.
Signal(n) ==
    CASE n = 0 /\ self.dio_mapping1 = 0  -> {"RX_READY"}
      [] n = 0 /\ self.dio_mapping1 = 64 -> {"TX_COMPLETE"}
      [] n = 1 /\ self.dio_mapping1 = 0  -> {"RX_TIMEOUT"}
      [] OTHER -> {}

-----------------------------------------------------------------------------
Init ==
    /\ \E b \in Builds :
          /\ self = [type |-> b.type, pa |-> b.pa, dio_mapping1 |-> 0]
          /\ board = [polled |-> b.polled, level |-> [n \in {0, 1} |-> FALSE]]
    /\ regs = Defaults
    /\ chip = [held |-> FALSE, finished |-> "none", fifo |-> "nothing", len |-> 0, signal |-> [rssi |-> 0, snr |-> 0]]
    /\ inputs = [armed |-> {}, state |-> {}]
    /\ state = "INIT"
    /\ todo = <<>>
    /\ asked = NoSettings
    /\ collected = Nothing

(* The calls in progress.  An interrupt has priority over the MAC; a board *)
(* that polls looks at the lines between two calls.                        *)

Doing(what) ==
    /\ todo # <<>> /\ Head(todo).do = what
    /\ board.polled \/ Served
    /\ todo' = Tail(todo)

\* What was measured of the last frame is not read once the next operation starts.
Started == [chip EXCEPT !.finished = "none", !.len = 0, !.signal = [rssi |-> 0, snr |-> 0]]

WriteRegister ==
    /\ Doing("write")
    /\ LET step == Head(todo)
           new  == Written(regs, step.reg, Or(And(regs[step.reg], step.keep), step.value))
       IN /\ regs' = new
          /\ chip' = IF step.reg # "OpMode" THEN chip
                     ELSE IF Op(new) # SLEEP THEN Started
                     ELSE [chip EXCEPT !.fifo = IF Op(new) = SLEEP THEN "nothing" ELSE @]
    /\ UNCHANGED <<self, board, inputs, state, asked, collected>>

BurstWrite ==
    /\ Doing("burst")
    /\ chip' = [chip EXCEPT !.fifo = IF Op(regs) = SLEEP \/ regs.FifoAddrPtr # regs.FifoTxBaseAddr
                                     THEN @ ELSE "payload"]
    /\ regs' = [regs EXCEPT !.FifoAddrPtr = (@ + Head(todo).len) % 256]
    /\ UNCHANGED <<self, board, inputs, state, asked, collected>>

\* A chip that is reset starts from its default registers.
ResetLine ==
    /\ Doing("reset")
    /\ chip' = [Started EXCEPT !.held = Head(todo).held, !.fifo = "nothing"]
    /\ regs' = Defaults
    /\ UNCHANGED <<self, board, inputs, state, asked, collected>>

SetMapping ==
    /\ Doing("map")
    /\ self' = [self EXCEPT !.dio_mapping1 = Head(todo).value]
    /\ UNCHANGED <<regs, chip, board, inputs, state, asked, collected>>

InputArm ==
    /\ Doing("arm")
    /\ inputs' = [inputs EXCEPT !.armed = @ \cup {Head(todo).input}]
    /\ UNCHANGED <<self, regs, chip, board, state, asked, collected>>

InputClear ==
    /\ Doing("clear")
    /\ inputs' = [armed |-> {}, state |-> {}]
    /\ UNCHANGED <<self, regs, chip, board, state, asked, collected>>

\* LDL_Radio_collect() and readFIFO(): the frame is cut to the MAC's buffer;
\* the SNR is read as if it had no sign.
ReadFIFO ==
    /\ Doing("collect")
    /\ LET size == IF chip.len > MaxPacket THEN MaxPacket ELSE chip.len
       IN /\ collected' = [data |-> IF size = 0 THEN "nothing" ELSE chip.fifo, size |-> size,
                           rssi |-> (chip.signal.rssi + 157) - 157,
                           snr  |-> ((chip.signal.snr % 256) * 100) \div 4]
          /\ regs' = [regs EXCEPT !.FifoAddrPtr = IF size > 0 THEN (regs.FifoRxCurrentAddr + size) % 256 ELSE @]
    /\ UNCHANGED <<self, chip, board, inputs, state, asked>>

Step == WriteRegister \/ BurstWrite \/ ResetLine \/ SetMapping \/ InputArm \/ InputClear \/ ReadFIFO

-----------------------------------------------------------------------------
(* The chip and the board. *)

Raised(flag) == IF And(regs.IrqFlagsMask, flag) = 0 THEN Or(regs.IrqFlags, flag) ELSE regs.IrqFlags

\* A board that polls does so faster than the chip sends or receives.
Finish(op, outcome, flag) ==
    /\ Lora(regs) /\ Op(regs) = op /\ ~chip.held
    /\ board.polled => Served
    /\ regs' = [regs EXCEPT !.IrqFlags = Raised(flag), !.OpMode = Or(And(@, 248), STANDBY)]
    /\ UNCHANGED <<self, board, inputs, state, todo, asked, collected>>

Sent == Finish(TX, "sent", TxDone) /\ chip' = [chip EXCEPT !.finished = "sent"]

Received == \E len \in RxLengths, signal \in Signals :
    /\ len <= regs.PayloadMaxLength
    /\ Finish(RX_SINGLE, "received", RxDone)
    /\ chip' = [chip EXCEPT !.finished = "received", !.fifo = "frame", !.len = len, !.signal = signal]

TimedOut == Finish(RX_SINGLE, "timeout", RxTimeout) /\ chip' = [chip EXCEPT !.finished = "timeout"]

\* The radio connector sees a line change and calls LDL_Radio_interrupt() when
\* it rose; LDL_MAC_inputSignal() keeps the first input that was armed.
Interrupt(n) ==
    /\ board.polled => todo = <<>>
    /\ board.level[n] # Dio(n)
    /\ board' = [board EXCEPT !.level[n] = Dio(n)]
    /\ inputs' = IF Dio(n) /\ inputs.state = {}
                 THEN [inputs EXCEPT !.state = Signal(n) \cap inputs.armed] ELSE inputs
    /\ UNCHANGED <<self, regs, chip, state, todo, asked, collected>>

-----------------------------------------------------------------------------
(* The calls of LDL_MAC_process() and LDL_MAC_cancel(). *)

Call(from, to, steps) ==
    /\ todo = <<>> /\ Served
    /\ state \in from /\ state' = to /\ todo' = steps
    /\ UNCHANGED <<self, regs, chip, board, inputs>>

Quietly(from, to, steps) == Call(from, to, steps) /\ UNCHANGED <<asked, collected>>

HoldReset    == Quietly({"INIT"}, "RESET", <<Reset(TRUE)>>)
ReleaseReset == Quietly({"RESET"}, "LOCKOUT", <<Reset(FALSE)>>)
Entropy      == Quietly({"LOCKOUT"}, "ENTROPY", EntropyBegin)
Ready        == Quietly({"ENTROPY"}, "IDLE", EntropyEnd)

\* Defect: inputs of an operation that was cancelled are not cleared.
SendFrameMutant == \E s \in TxSettings :
    /\ Call({"IDLE"}, "TX", <<Arm("TX_COMPLETE")>> \o Transmit(s))
    /\ asked' = s /\ collected' = Nothing

SendFrame == \E s \in TxSettings :
    /\ Call({"IDLE"}, "TX", <<Clear, Arm("TX_COMPLETE")>> \o Transmit(s))
    /\ asked' = s /\ collected' = Nothing

TxComplete ==
    /\ inputs.state = {"TX_COMPLETE"}
    /\ Quietly({"TX"}, "WAIT_RX1", <<Clear>> \o ClearInterrupt)

OpenWindow == \E s \in RxSettings, w \in {<<"WAIT_RX1", "RX1">>, <<"WAIT_RX2", "RX2">>} :
    /\ Call({w[1]}, w[2], <<Clear, Arm("RX_READY"), Arm("RX_TIMEOUT")>> \o Receive(s))
    /\ asked' = s /\ UNCHANGED collected

MissWindow == Quietly({"WAIT_RX1"}, "WAIT_RX2", <<>>) \/ Quietly({"WAIT_RX2"}, "IDLE", <<>>)

RxReady ==
    /\ inputs.state = {"RX_READY"}
    /\ Quietly({"RX1", "RX2"}, "IDLE", <<Clear, Collect>> \o ClearInterrupt)

RxTimeoutSeen ==
    /\ inputs.state = {"RX_TIMEOUT"}
    /\ \/ Quietly({"RX1"}, "WAIT_RX2", <<Clear>> \o ClearInterrupt)
       \/ Quietly({"RX2"}, "IDLE", <<Clear>> \o ClearInterrupt)

\* The guard of an operation ran out.
ChipError ==
    /\ inputs.state = {}
    /\ Quietly({"TX", "RX1", "RX2"}, "RESET", <<Clear, Reset(TRUE)>>)

Cancel == Quietly({"INIT", "IDLE", "TX", "WAIT_RX1", "RX1", "WAIT_RX2", "RX2"}, "IDLE", Sleep)

\* The controller restarts, the chip does not: the constructors and
\* LDL_MAC_init() release the reset line and touch no register.  Bound: not
\* between two writes of settings, each of which depends on its register only.
Restart ==
    /\ IF todo = <<>> \/ Head(todo).do # "write" THEN TRUE ELSE Head(todo).reg = "OpMode"
    /\ self' = [self EXCEPT !.dio_mapping1 = 0]
    /\ board' = [board EXCEPT !.level = [n \in {0, 1} |-> FALSE]]
    /\ chip' = [Started EXCEPT !.held = FALSE]
    /\ inputs' = [armed |-> {}, state |-> {}]
    /\ state' = "INIT" /\ todo' = <<>> /\ collected' = Nothing
    /\ UNCHANGED <<regs, asked>>

Next ==
    \/ Step
    \/ Sent \/ Received \/ TimedOut
    \/ \E n \in {0, 1} : Interrupt(n)
    \/ HoldReset \/ ReleaseReset \/ Entropy \/ Ready
    \/ SendFrame \/ TxComplete \/ OpenWindow \/ MissWindow
    \/ RxReady \/ RxTimeoutSeen \/ ChipError \/ Cancel
    \/ Restart

Spec == Init /\ [][Next]_vars

-----------------------------------------------------------------------------
(* Properties. *)

\* Every register holds a byte, and only inputs the MAC arms are latched.
TypeOK ==
    /\ \A r \in DOMAIN regs : regs[r] \in 0..255
    /\ self.dio_mapping1 \in {0, 64}
    /\ Cardinality(inputs.state) <= 1
    /\ inputs.armed \in {{}, {"TX_COMPLETE"}, {"RX_READY"}, {"RX_READY", "RX_TIMEOUT"}}

\* Whatever was reset, cancelled or never reset before, the driver touches a
\* register of the LoRa modem only in LoRa mode, fills the FIFO only when the
\* chip is awake, and the chip sends and receives in LoRa mode only.
LoraModeOnly ==
    /\ (todo # <<>> /\ Head(todo).do = "write" /\ Head(todo).reg \in LoraPage) => Lora(regs)
    /\ (todo # <<>> /\ Head(todo).do = "burst") => Op(regs) = STANDBY
    /\ Op(regs) \in {TX, RX_SINGLE, RX_CONTINUOUS} => Lora(regs)

\* What the registers mean to the chip.
ChipSf == regs.ModemConfig2 \div 16
ChipBw == IF self.type = "SX1272" THEN <<125, 250, 500>>[regs.ModemConfig1 \div 64 + 1]
                                  ELSE <<125, 250, 500>>[regs.ModemConfig1 \div 16 - 6]
ChipCodingRate == IF self.type = "SX1272" THEN (regs.ModemConfig1 \div 8) % 8 ELSE (regs.ModemConfig1 \div 2) % 8
ChipExplicit   == IF self.type = "SX1272" THEN And(regs.ModemConfig1, 4) = 0 ELSE And(regs.ModemConfig1, 1) = 0
ChipCrc        == IF self.type = "SX1272" THEN And(regs.ModemConfig1, 2) # 0 ELSE And(regs.ModemConfig2, 4) # 0
ChipLowRate    == IF self.type = "SX1272" THEN And(regs.ModemConfig1, 1) # 0 ELSE And(regs.ModemConfig3, 8) # 0
ChipFreq == LET frf == 65536 * regs.FrfMsb + 256 * regs.FrfMid + regs.FrfLsb
            IN (frf \div 256) * 15625 + ((frf % 256) * 15625) \div 256

\* While the chip sends or listens in a window it does so with the settings the
\* MAC asked for, whatever the last operation left in the registers: rate,
\* explicit header, CRC, coding rate 4/5, the optimisation that symbols longer
\* than 16 ms need, the frequency to within a step of the synthesiser, inverted
\* IQ for downlinks only, and the frame, or the limits of the window.
OperatesAsAsked ==
    Op(regs) \in {TX, RX_SINGLE} =>
        /\ ChipSf = asked.sf /\ ChipBw = asked.bw /\ ChipCodingRate = 1 /\ ChipExplicit /\ ChipCrc
        /\ ChipLowRate <=> 2^asked.sf > 16 * asked.bw
        /\ ChipFreq \in asked.freq - 62 .. asked.freq
        /\ regs.SyncWord = 52
        /\ IF Op(regs) = TX
           THEN /\ And(regs.InvertIQ, 64) = 0
                /\ chip.fifo = "payload" /\ regs.FifoTxBaseAddr = 0 /\ regs.PayloadLength = asked.len
           ELSE /\ And(regs.InvertIQ, 64) # 0
                /\ regs.SymbTimeoutLsb = asked.timeout /\ regs.ModemConfig2 % 4 = 0
                /\ regs.PayloadMaxLength = asked.max

\* The power an amplifier can be set to, and the power it is set to.
Powers    == IF self.pa = "RFO" THEN -1..14 ELSE (2..17) \cup {20}
ChipPower == LET out == regs.PaConfig % 16
             IN IF regs.PaConfig < 128 THEN out - 1
                ELSE IF regs.PaDac % 8 = 7 THEN out + 5 ELSE out + 2

\* A transmission is made at the pin that is connected, at the highest power the
\* chip has that is not above what was asked, or at its lowest; except at the
\* RFO pin of an SX1276, whose power is fixed.
PowerAsAsked ==
    Op(regs) = TX =>
        /\ regs.PaConfig >= 128 <=> self.pa = "BOOST"
        /\ (self.type = "SX1272" \/ self.pa = "BOOST") =>
              LET below == {p \in Powers : 100 * p <= asked.dbm}
              IN /\ ChipPower \in Powers
                 /\ IF below = {} THEN \A p \in Powers : ChipPower <= p
                    ELSE ChipPower \in below /\ \A p \in below : p <= ChipPower

Outcome == [sent |-> "TX_COMPLETE", received |-> "RX_READY", timeout |-> "RX_TIMEOUT"]

\* From the moment the inputs of an operation are cleared, an input the MAC
\* finds is the outcome of this operation: nothing that was cancelled or reset
\* before is reported in its place.
EventOfThisOperation ==
    (state \in {"TX", "RX1", "RX2"} /\ Clear \notin ToSet(todo) /\ inputs.state # {}) =>
        /\ todo = <<>>
        /\ chip.finished # "none" /\ inputs.state = {Outcome[chip.finished]}

\* An operation that finished is reported once its interrupt was served, on
\* boards that take interrupts and on boards that poll for rising edges: the MAC
\* never waits for its guard to reset a chip that worked.
OutcomeReported ==
    (state \in {"TX", "RX1", "RX2"} /\ todo = <<>> /\ Served /\ chip.finished # "none")
        => inputs.state = {Outcome[chip.finished]}

\* What the MAC collects is the frame the chip received, as far as its buffer
\* reaches, with the strength and, for signals above the noise, the SNR it had.
FrameCollected ==
    collected # Nothing =>
        /\ collected.size = (IF chip.len > MaxPacket THEN MaxPacket ELSE chip.len)
        /\ collected.size > 0 => collected.data = "frame"
        /\ collected.rssi = chip.signal.rssi
        /\ chip.signal.snr >= 0 => collected.snr = 25 * chip.signal.snr

\* The chip does what the MAC asked, with what the MAC asked.
AsAsked == OperatesAsAsked /\ PowerAsAsked

\* The MAC learns the outcome of its operation, of no other, and the frame.
OutcomeIsOwn == EventOfThisOperation /\ OutcomeReported /\ FrameCollected
=============================================================================
