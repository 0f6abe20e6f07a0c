---------------------------- MODULE Radio_proof ----------------------------
(***************************************************************************)
(* For any settings, frames and boards: the driver touches the registers   *)
(* of the LoRa modem in LoRa mode only, the chip operates with what the    *)
(* MAC asked for, and the MAC learns the outcome of the operation it       *)
(* started and of no other.                                                *)
(***************************************************************************)
EXTENDS Radio, TLAPS

Byte      == 0..255
Level     == [{0, 1} -> BOOLEAN]
Registers == DOMAIN Defaults
States    == {"INIT", "RESET", "LOCKOUT", "ENTROPY", "IDLE", "TX", "WAIT_RX1", "RX1", "WAIT_RX2", "RX2"}
Events    == {"TX_COMPLETE", "RX_READY", "RX_TIMEOUT"}

\* The steps of calls: the writes that matter to the mode and to the lines of the
\* chip have few values, all others are settings.
ToOp(op)   == Change("OpMode", 248, op)
ToLora     == Change("OpMode", 255, 128)
Ops        == {SLEEP, STANDBY, TX, RX_CONTINUOUS, RX_SINGLE}
ModeWrites == {ToOp(op) : op \in Ops} \cup {ToLora}
LineWrites == {W("DioMapping1", 0), W("DioMapping1", 64), W("IrqFlags", 255),
               W("IrqFlagsMask", 247), W("IrqFlagsMask", 63), W("IrqFlagsMask", 255)}
Settings   == [do : {"write"}, reg : Registers \ {"OpMode", "DioMapping1", "IrqFlags", "IrqFlagsMask"},
               keep : Int, value : Int]
Writes     == ModeWrites \cup LineWrites \cup Settings
Bursts     == {Burst(len) : len \in Byte}
Others     == {Clear, Collect, Reset(TRUE), Reset(FALSE), Map(0), Map(64)}
                \cup {Arm(input) : input \in Events} \cup Bursts
Steps      == Writes \cup Others

Drivers == [type : {"SX1272", "SX1276"}, pa : {"RFO", "BOOST"}, dio_mapping1 : {0, 64}]
Chips   == [held : BOOLEAN, finished : {"none", "sent", "received", "timeout"},
            fifo : {"nothing", "payload", "frame"}, len : Byte, signal : [rssi : Int, snr : -128..127]]
Boards  == [polled : BOOLEAN, level : Level]
Inputs  == [armed : SUBSET Events, state : SUBSET Events]

ToDo == ToSet(todo)

\* Of the steps s, those of A come before those of B.
Before(s, A, B) == \A i, j \in 1..Len(s) : s[i] \in A /\ s[j] \in B => i < j
TypeInv ==
    /\ self \in Drivers /\ chip \in Chips /\ board \in Boards /\ inputs \in Inputs
    /\ regs \in [Registers -> Byte] /\ regs.DioMapping1 \in {0, 64}
    /\ state \in States
    /\ todo \in Seq(Steps)

\* LoRa mode is on, or the next steps of the call turn it on.
LoraSoon ==
    \/ Lora(regs)
    \/ todo # <<>> /\ Head(todo) = ToLora /\ Op(regs) = SLEEP
    \/ todo # <<>> /\ Head(todo) = ToOp(SLEEP) /\ Tail(todo) # <<>> /\ Head(Tail(todo)) = ToLora

Unreset == {"INIT", "RESET", "LOCKOUT"}

LoraInv ==
    /\ IF state \in Unreset THEN \A e \in ToDo : e.do \in {"clear", "reset"}
       ELSE LoraSoon /\ \A e \in ToDo : e.do # "reset"
    /\ Op(regs) \in {TX, RX_SINGLE, RX_CONTINUOUS} => Lora(regs)

-----------------------------------------------------------------------------
\* What an operation needs of the chip, the driver and the MAC.
Active     == {"TX", "RX1", "RX2"}
Goal(st)   == IF st = "TX" THEN TX ELSE RX_SINGLE
Line(st)   == IF st = "TX" THEN 64 ELSE 0
Mask(st)   == IF st = "TX" THEN 247 ELSE 63
Waits(st)  == IF st = "TX" THEN {"TX_COMPLETE"} ELSE {"RX_READY", "RX_TIMEOUT"}
Ends(st)   == IF st = "TX" THEN {"sent"} ELSE {"received", "timeout"}
FlagOf     == [sent |-> TxDone, received |-> RxDone, timeout |-> RxTimeout]
LineOf     == [sent |-> 0, received |-> 0, timeout |-> 1]
Arms(st)   == {Arm(input) : input \in Waits(st)}
IsMode(e)  == e.do = "write" /\ e.reg = "OpMode"

\* The chip reports a transmission on DIO0 only when that line is set for it.
LinesInv ==
    /\ Op(regs) = TX \/ And(regs.IrqFlags, TxDone) # 0 => regs.DioMapping1 = 64
    /\ state \notin Active =>
         \A e \in ToDo : e.do # "burst" /\ (e.do = "write" => e.reg # "DioMapping1") /\ e # ToOp(TX)
    /\ state \notin {"RESET", "LOCKOUT"} => ~chip.held
    /\ state = "INIT" => todo = <<>>
    /\ state = "LOCKOUT" => (todo # <<>> \/ ~chip.held) /\ \A e \in ToDo : e = Reset(FALSE)

\* Between operations the chip is asleep, or on its way there.
RestInv ==
    state \in {"IDLE", "WAIT_RX1", "WAIT_RX2"} =>
        /\ Op(regs) = SLEEP \/ ToOp(SLEEP) \in ToDo
        /\ \A e \in ToDo : IsMode(e) => e \in {ToOp(SLEEP), ToLora}
        /\ state # "IDLE" => /\ Op(regs) \in {SLEEP, STANDBY}
                             /\ regs.IrqFlags = 0 \/ W("IrqFlags", 255) \in ToDo

\* An operation is prepared: the chip stands by, nothing is reported but what
\* is cleared, and each thing the operation needs is done or still to do.
Prepare ==
    /\ Op(regs) = STANDBY \/ (Op(regs) = SLEEP /\ ToOp(STANDBY) \in ToDo)
    /\ todo[Len(todo)] = ToOp(Goal(state))
    /\ \A i \in 1..(Len(todo) - 1) : IsMode(todo[i]) => todo[i] = ToOp(STANDBY)
    /\ Before(todo, {ToOp(STANDBY)}, Bursts)
    /\ \A n \in {0, 1} : Dio(n) => board.level[n]
    /\ Clear \notin ToSet(Tail(todo))
    /\ Clear \notin ToDo => inputs.state = {} /\ inputs.armed \subseteq Waits(state)
    /\ \A input \in Waits(state) : Arm(input) \in ToDo \/ (Clear \notin ToDo /\ input \in inputs.armed)
    /\ \A e \in ToDo : /\ e.do = "arm" => e.input \in Waits(state)
                       /\ e.do = "map" => e.value = Line(state)
                       /\ e.do # "collect"
                       /\ e.do = "write" /\ e.reg = "DioMapping1"  => e.value = Line(state)
                       /\ e.do = "write" /\ e.reg = "IrqFlagsMask" => e.value = Mask(state)
    /\ self.dio_mapping1 = Line(state) \/ Map(Line(state)) \in ToDo
    /\ regs.DioMapping1 = Line(state) \/ W("DioMapping1", Line(state)) \in ToDo
    /\ regs.IrqFlagsMask = Mask(state) \/ W("IrqFlagsMask", Mask(state)) \in ToDo
    /\ regs.IrqFlags = 0 \/ (state = "TX" /\ W("IrqFlags", 255) \in ToDo)

\* It runs, or it is over and its line has risen or will.
Running ==
    /\ Op(regs) = Goal(state) /\ chip.finished = "none" /\ regs.IrqFlags = 0 /\ inputs.state = {}
    /\ ~board.polled => \A n \in {0, 1} : ~board.level[n]

Over ==
    /\ Op(regs) = STANDBY /\ chip.finished \in Ends(state)
    /\ regs.IrqFlags = FlagOf[chip.finished]
    /\ ~board.level[1 - LineOf[chip.finished]]
    /\ inputs.state = IF board.level[LineOf[chip.finished]] THEN {Outcome[chip.finished]} ELSE {}
    /\ chip.finished = "received" => chip.fifo = "frame"

Operate ==
    /\ self.dio_mapping1 = Line(state) /\ regs.DioMapping1 = Line(state)
    /\ regs.IrqFlagsMask = Mask(state) /\ inputs.armed = Waits(state)
    /\ Running \/ Over

\* The FIFO is read before the chip goes to sleep, and what is measured of a
\* frame stays until the chip is used again.
Collecting ==
    /\ Collect \in ToDo =>
         /\ state = "IDLE" /\ Op(regs) = STANDBY /\ chip.fifo = "frame" /\ ToLora \notin ToDo
         /\ Before(todo, {Collect}, ModeWrites)
    /\ collected # Nothing =>
         /\ state = "IDLE" /\ Op(regs) \in {SLEEP, STANDBY}
         /\ ToLora \in ToDo => Op(regs) = SLEEP

IInv ==
    /\ TypeInv /\ LoraInv /\ LinesInv /\ RestInv /\ Collecting
    /\ state \in Active => IF todo = <<>> THEN Operate ELSE Prepare
    /\ FrameCollected
-----------------------------------------------------------------------------
(* Bits of a byte, and what a write does to the chip. *)

LEMMA BitByte ==
    ASSUME NEW a, NEW b
    PROVE  And(a, b) \in Byte /\ Or(a, b) \in Byte
BY SMTT(60) DEF And, Or, Byte

\* setOpMode() sets three bits and keeps the others.
LEMMA ModeBits ==
    ASSUME NEW x \in Byte
    PROVE  /\ \A v \in Ops : /\ Or(And(x, 248), v) % 8 = v
                           /\ Or(And(x, 248), v) \div 128 = x \div 128
           /\ And(x, 128) = 128 * (x \div 128)
           /\ Or(And(x, 255), 128) % 8 = x % 8 /\ Or(And(x, 255), 128) \div 128 = 1
<1>1. ASSUME NEW v \in Ops
      PROVE  Or(And(x, 248), v) % 8 = v /\ Or(And(x, 248), v) \div 128 = x \div 128
  BY SMTT(60) DEF And, Or, Byte, Ops, SLEEP, STANDBY, TX, RX_CONTINUOUS, RX_SINGLE
<1>2. And(x, 128) = 128 * (x \div 128)
  BY SMTT(60) DEF And, Byte
<1>3. And(x, 255) = x
  BY SMTT(60) DEF And, Byte
<1>4. Or(x, 128) % 8 = x % 8 /\ Or(x, 128) \div 128 = 1
  BY SMTT(60) DEF Or, Byte
<1>5. QED
  BY <1>1, <1>2, <1>3, <1>4

\* Out of sleep the bit of LoRa mode stays as it was.
LEMMA KeptBit ==
    ASSUME NEW x \in Byte, NEW y \in Byte
    PROVE  /\ Or(y % 128, And(x, 128)) % 8 = y % 8
           /\ Or(y % 128, And(x, 128)) \div 128 = x \div 128
BY SMTT(60) DEF And, Or, Byte

LEMMA FlagBits ==
    ASSUME NEW x \in Byte
    PROVE  /\ And(x, 255 - Or(And(x, 0), 255)) = 0
           /\ \A f \in {RxTimeout, RxDone} : And(Or(x, f), TxDone) = And(x, TxDone)
           /\ \A v \in Byte : Or(And(x, 0), v) = v
           /\ Or(And(x, 248), STANDBY) % 8 = STANDBY
           /\ Or(And(x, 248), STANDBY) \div 128 = x \div 128
<1>1. And(x, 0) = 0
  BY SMT DEF And, Byte
<1>2. \A v \in Byte : Or(0, v) = v
  BY SMTT(60) DEF Or, Byte
<1>4. \A f \in {RxTimeout, RxDone} : And(Or(x, f), TxDone) = And(x, TxDone)
  BY SMTT(60) DEF And, Or, Byte, RxTimeout, RxDone, TxDone
<1>5. STANDBY \in Ops
  BY DEF Ops
<1>6. QED
  BY <1>1, <1>2, <1>4, <1>5, ModeBits, SMTT(60) DEF Byte

LEMMA Names ==
    /\ Defaults \in [Registers -> Byte]
    /\ {"OpMode", "DioMapping1", "IrqFlags", "IrqFlagsMask", "FifoAddrPtr", "FifoTxBaseAddr", "FifoRxCurrentAddr"}
          \subseteq Registers
    /\ LoraPage \subseteq Registers
BY SMTT(60) DEF Defaults, Registers, Byte, LoraPage

LEMMA LoraBit ==
    ASSUME NEW r, r \in [Registers -> Byte]
    PROVE  /\ Lora(r) <=> r.OpMode \div 128 = 1
           /\ Op(r) \in 0..7
<1>1. r.OpMode \in Byte
  BY Names
<1>2. QED
  BY <1>1, ModeBits, SMT DEF Lora, Op, Byte

-----------------------------------------------------------------------------
(* Sequences of steps. *)

LEMMA TailSteps ==
    ASSUME NEW s \in Seq(Steps), s # <<>>
    PROVE  /\ Head(s) \in Steps /\ Tail(s) \in Seq(Steps)
           /\ ToSet(s) = {Head(s)} \cup ToSet(Tail(s))
           /\ Len(s) \in Nat \ {0} /\ Len(Tail(s)) = Len(s) - 1 /\ Head(s) = s[1]
           /\ \A i \in 1..Len(Tail(s)) : Tail(s)[i] = s[i + 1]
           /\ Len(s) >= 2 => Tail(s) # <<>> /\ Head(Tail(s)) = s[2]
<1>1. /\ Head(s) \in Steps /\ Tail(s) \in Seq(Steps)
      /\ Len(s) \in Nat \ {0} /\ Len(Tail(s)) = Len(s) - 1 /\ Head(s) = s[1]
      /\ DOMAIN s = 1..Len(s) /\ DOMAIN Tail(s) = 1..Len(Tail(s))
      /\ \A i \in 1..Len(Tail(s)) : Tail(s)[i] = s[i + 1]
  BY SMT
<1>2. ASSUME NEW e \in ToSet(s)
      PROVE  e \in {Head(s)} \cup ToSet(Tail(s))
  <2>1. PICK i \in 1..Len(s) : s[i] = e
    BY <1>1 DEF ToSet
  <2>2. CASE i = 1
    BY <2>1, <2>2, <1>1
  <2>3. CASE i # 1
    <3>1. i - 1 \in 1..Len(Tail(s)) /\ Tail(s)[i - 1] = s[i]
      BY <2>1, <2>3, <1>1, SMT
    <3>2. QED
      BY <3>1, <2>1, <1>1 DEF ToSet
  <2>4. QED
    BY <2>2, <2>3
<1>3. ASSUME NEW e \in {Head(s)} \cup ToSet(Tail(s))
      PROVE  e \in ToSet(s)
  <2>1. CASE e = Head(s)
    <3>1. 1 \in DOMAIN s
      BY <1>1, SMT
    <3>2. QED
      BY <2>1, <3>1, <1>1 DEF ToSet
  <2>2. CASE e \in ToSet(Tail(s))
    <3>1. PICK i \in 1..Len(Tail(s)) : Tail(s)[i] = e
      BY <2>2, <1>1 DEF ToSet
    <3>2. i + 1 \in 1..Len(s) /\ s[i + 1] = e
      BY <3>1, <1>1, SMT
    <3>3. QED
      BY <3>2, <1>1 DEF ToSet
  <2>3. QED
    BY <2>1, <2>2
<1>4. ASSUME Len(s) >= 2
      PROVE  Tail(s) # <<>> /\ Head(Tail(s)) = s[2]
  <2>1. Len(Tail(s)) > 0 /\ 1 \in 1..Len(Tail(s)) /\ Tail(s)[1] = s[2]
    BY <1>1, <1>4, SMT
  <2>2. \A t \in Seq(Steps) : Len(t) > 0 => Head(t) = t[1] /\ t # <<>>
    BY SMT
  <2>3. QED
    BY <1>1, <2>1, <2>2
<1>5. QED
  BY <1>1, <1>2, <1>3, <1>4

LEMMA JoinSteps ==
    ASSUME NEW s \in Seq(Steps), NEW t \in Seq(Steps)
    PROVE  /\ s \o t \in Seq(Steps)
           /\ ToSet(s \o t) = ToSet(s) \cup ToSet(t)
           /\ Len(s) \in Nat /\ Len(t) \in Nat /\ Len(s \o t) = Len(s) + Len(t)
           /\ \A i \in 1..Len(s) : (s \o t)[i] = s[i]
           /\ Len(s \o t) > 0 => s \o t # <<>>
<1>1. /\ s \o t \in Seq(Steps)
      /\ Len(s) \in Nat /\ Len(t) \in Nat /\ Len(s \o t) = Len(s) + Len(t)
      /\ DOMAIN s = 1..Len(s) /\ DOMAIN t = 1..Len(t) /\ DOMAIN (s \o t) = 1..Len(s \o t)
      /\ \A i \in 1..Len(s) : (s \o t)[i] = s[i]
      /\ \A i \in 1..Len(t) : (s \o t)[Len(s) + i] = t[i]
  BY SMT
<1>2. ASSUME NEW e \in ToSet(s \o t)
      PROVE  e \in ToSet(s) \cup ToSet(t)
  <2>1. PICK i \in 1..Len(s \o t) : (s \o t)[i] = e
    BY <1>1 DEF ToSet
  <2>2. CASE i <= Len(s)
    <3>1. i \in 1..Len(s) /\ s[i] = e
      BY <2>1, <2>2, <1>1, SMT
    <3>2. QED
      BY <3>1, <1>1 DEF ToSet
  <2>3. CASE ~(i <= Len(s))
    <3>1. i - Len(s) \in 1..Len(t) /\ Len(s) + (i - Len(s)) = i
      BY <2>1, <2>3, <1>1, SMT
    <3>2. t[i - Len(s)] = e
      BY <3>1, <2>1, <1>1
    <3>3. QED
      BY <3>1, <3>2, <1>1 DEF ToSet
  <2>4. QED
    BY <2>2, <2>3
<1>3. ASSUME NEW e \in ToSet(s)
      PROVE  e \in ToSet(s \o t)
  <2>1. PICK i \in 1..Len(s) : s[i] = e
    BY <1>3, <1>1 DEF ToSet
  <2>2. i \in 1..Len(s \o t) /\ (s \o t)[i] = e
    BY <2>1, <1>1, SMT
  <2>3. QED
    BY <2>2, <1>1 DEF ToSet
<1>4. ASSUME NEW e \in ToSet(t)
      PROVE  e \in ToSet(s \o t)
  <2>1. PICK i \in 1..Len(t) : t[i] = e
    BY <1>4, <1>1 DEF ToSet
  <2>2. Len(s) + i \in 1..Len(s \o t) /\ (s \o t)[Len(s) + i] = e
    BY <2>1, <1>1, SMT
  <2>3. QED
    BY <2>2, <1>1 DEF ToSet
<1>5. Len(s \o t) > 0 => s \o t # <<>>
  OBVIOUS
<1>6. QED
  BY <1>1, <1>2, <1>3, <1>4, <1>5

-----------------------------------------------------------------------------
(* What the steps of a call do. *)

\* What is left of a call after its first step.
LEMMA NextStep ==
    ASSUME TypeInv, NEW what, Doing(what)
    PROVE  /\ todo # <<>> /\ Head(todo) \in Steps /\ Head(todo).do = what /\ Head(todo) = todo[1]
           /\ todo' = Tail(todo) /\ todo' \in Seq(Steps) /\ ToDo = {Head(todo)} \cup ToDo'
           /\ Len(todo) \in Nat \ {0} /\ Len(todo') = Len(todo) - 1
           /\ \A i \in 1..Len(todo') : todo'[i] = todo[i + 1]
BY TailSteps DEF TypeInv, Doing, ToDo

LEMMA KindOfStep ==
    ASSUME NEW e \in Steps
    PROVE  /\ e.do = "write" =>
                /\ e \in Writes /\ e.reg \in Registers
                /\ e.reg = "OpMode" => e \in ModeWrites
                /\ e.reg = "DioMapping1" => e \in {W("DioMapping1", 0), W("DioMapping1", 64)}
                /\ e.reg = "IrqFlags" => e = W("IrqFlags", 255)
                /\ e.reg = "IrqFlagsMask" => e \in {W("IrqFlagsMask", 247), W("IrqFlagsMask", 63), W("IrqFlagsMask", 255)}
           /\ e.do = "clear" => e = Clear
           /\ e.do = "collect" => e = Collect
           /\ e.do = "reset" => e \in {Reset(TRUE), Reset(FALSE)}
           /\ e.do = "map" => e \in {Map(0), Map(64)}
           /\ e.do = "arm" => e.input \in Events /\ e = Arm(e.input)
           /\ e.do = "burst" => e.len \in Byte /\ e \in Bursts
<1>1. CASE e \in ModeWrites
  <2>1. e.do = "write" /\ e.reg = "OpMode"
    BY <1>1 DEF ModeWrites, ToOp, ToLora, Change
  <2>2. QED
    BY <1>1, <2>1, Names DEF Writes
<1>2. CASE e \in LineWrites
  <2>1. e.do = "write" /\ e \in Writes /\ e.reg \in {"DioMapping1", "IrqFlags", "IrqFlagsMask"}
    BY <1>2 DEF LineWrites, W, Change, Writes
  <2>2. e.reg \in Registers
    BY <2>1, Names
  <2>3. QED
    BY <1>2, <2>1, <2>2 DEF LineWrites, W, Change
<1>3. CASE e \in Settings
  <2>1. e.do = "write" /\ e.reg \in Registers \ {"OpMode", "DioMapping1", "IrqFlags", "IrqFlagsMask"}
    BY <1>3 DEF Settings
  <2>2. QED
    BY <1>3, <2>1 DEF Writes
<1>4. CASE e \in Others
  BY <1>4 DEF Others, Clear, Collect, Reset, Map, Arm, Burst, Bursts
<1>5. QED
  BY <1>1, <1>2, <1>3, <1>4 DEF Steps, Writes

\* The first of LoraModeOnly: a register of the LoRa modem is written in LoRa mode.
LEMMA PageInLora ==
    ASSUME TypeInv, LoraInv, todo # <<>>, Head(todo).do = "write", Head(todo).reg \in LoraPage
    PROVE  Lora(regs)
<1>1. Head(todo) \in ToDo
  BY TailSteps DEF TypeInv, ToDo
<1>2. state \notin Unreset
  BY <1>1 DEF LoraInv
<1>3. Head(todo) # ToLora /\ Head(todo) # ToOp(SLEEP)
  BY DEF ToLora, ToOp, Change, LoraPage
<1>4. QED
  BY <1>2, <1>3 DEF LoraInv, LoraSoon

LEMMA WriteEffect ==
    ASSUME TypeInv, LoraInv, WriteRegister, NEW e, e = Head(todo)
    PROVE  /\ e \in Writes /\ regs' \in [Registers -> Byte]
           /\ e = ToLora => Op(regs') = Op(regs) /\ (Lora(regs') <=> Lora(regs) \/ Op(regs) = SLEEP)
           /\ \A op \in Ops : e = ToOp(op) => Op(regs') = op /\ (Lora(regs') <=> Lora(regs))
           /\ e.reg # "OpMode" => regs'.OpMode = regs.OpMode /\ chip' = chip
           /\ IF e.reg = "IrqFlags" THEN regs'.IrqFlags = 0 ELSE regs'.IrqFlags = regs.IrqFlags
           /\ regs'.DioMapping1 = (IF e.reg = "DioMapping1" THEN e.value ELSE regs.DioMapping1)
           /\ regs'.IrqFlagsMask = (IF e.reg = "IrqFlagsMask" THEN e.value ELSE regs.IrqFlagsMask)
<1> DEFINE v == Or(And(regs[e.reg], e.keep), e.value)
           x == regs.OpMode
<1>1. Doing("write") /\ regs' = Written(regs, e.reg, v)
  BY DEF WriteRegister
<1>2. e \in Steps /\ e.do = "write" /\ e \in Writes /\ e.reg \in Registers
  BY ZenonT(60), <1>1, NextStep, KindOfStep
<1>3. /\ regs \in [Registers -> Byte] /\ x \in Byte /\ v \in Byte
      /\ {"OpMode", "IrqFlags", "DioMapping1", "IrqFlagsMask"} \subseteq Registers
  BY BitByte, Names DEF TypeInv
<1>4. e.reg \in LoraPage => Lora(regs)
  BY <1>1, <1>2, NextStep, PageInLora
<1>5. regs' = [regs EXCEPT ![e.reg] =
                 CASE e.reg = "OpMode" /\ Op(regs) # SLEEP -> Or(v % 128, And(x, 128))
                   [] e.reg = "IrqFlags" -> And(regs.IrqFlags, 255 - v)
                   [] OTHER -> v]
  BY ZenonT(60), <1>1, <1>2, <1>3, <1>4 DEF Written
<1> HIDE DEF v, x
<1>6. regs' \in [Registers -> Byte]
  BY <1>2, <1>3, <1>5, BitByte
<1>7. ASSUME e.reg # "OpMode" PROVE regs'.OpMode = regs.OpMode /\ chip' = chip
  BY <1>7, <1>2, <1>3, <1>5 DEF WriteRegister
<1>8. IF e.reg = "IrqFlags" THEN regs'.IrqFlags = 0 ELSE regs'.IrqFlags = regs.IrqFlags
  <2>1. CASE e.reg = "IrqFlags"
    <3>1. e = W("IrqFlags", 255)
      BY <2>1, <1>2, KindOfStep
    <3>2. e.keep = 0 /\ e.value = 255
      BY <3>1 DEF W, Change
    <3>3. And(regs.IrqFlags, 255 - v) = 0
      BY <3>2, <2>1, <1>3, FlagBits DEF v
    <3>4. QED
      BY <3>3, <2>1, <1>3, <1>5
  <2>2. CASE e.reg # "IrqFlags"
    BY <2>2, <1>2, <1>3, <1>5
  <2>3. QED
    BY <2>1, <2>2
<1>9. regs'.DioMapping1 = (IF e.reg = "DioMapping1" THEN e.value ELSE regs.DioMapping1)
  <2>1. CASE e.reg = "DioMapping1"
    <3>1. e \in {W("DioMapping1", 0), W("DioMapping1", 64)}
      BY <2>1, <1>2, KindOfStep
    <3>2. e.keep = 0 /\ e.value \in Byte
      BY <3>1, SMT DEF W, Change, Byte
    <3>3. v = e.value
      BY <3>2, <2>1, <1>3, FlagBits DEF v
    <3>4. QED
      BY <3>3, <2>1, <1>3, <1>5
  <2>2. CASE e.reg # "DioMapping1"
    BY <2>2, <1>2, <1>3, <1>5
  <2>3. QED
    BY <2>1, <2>2
<1>10. regs'.IrqFlagsMask = (IF e.reg = "IrqFlagsMask" THEN e.value ELSE regs.IrqFlagsMask)
  <2>1. CASE e.reg = "IrqFlagsMask"
    <3>1. e \in {W("IrqFlagsMask", 247), W("IrqFlagsMask", 63), W("IrqFlagsMask", 255)}
      BY <2>1, <1>2, KindOfStep
    <3>2. e.keep = 0 /\ e.value \in Byte
      BY <3>1, SMT DEF W, Change, Byte
    <3>3. v = e.value
      BY <3>2, <2>1, <1>3, FlagBits DEF v
    <3>4. QED
      BY <3>3, <2>1, <1>3, <1>5
  <2>2. CASE e.reg # "IrqFlagsMask"
    BY <2>2, <1>2, <1>3, <1>5
  <2>3. QED
    BY <2>1, <2>2
<1>11. ASSUME e.reg = "OpMode"
       PROVE  regs'.OpMode = IF Op(regs) # SLEEP THEN Or(v % 128, And(x, 128)) ELSE v
  BY <1>11, <1>3, <1>5 DEF x
<1>12. ASSUME e = ToLora
       PROVE  Op(regs') = Op(regs) /\ (Lora(regs') <=> Lora(regs) \/ Op(regs) = SLEEP)
  <2>1. e.reg = "OpMode" /\ v = Or(And(x, 255), 128)
    BY <1>12 DEF ToLora, Change, v, x
  <2>2. v % 8 = x % 8 /\ v \div 128 = 1
    BY <2>1, <1>3, ModeBits
  <2>3. CASE Op(regs) = SLEEP
    BY <2>1, <2>2, <2>3, <1>3, <1>6, <1>11, LoraBit DEF Op, x
  <2>4. CASE Op(regs) # SLEEP
    <3>1. /\ Or(v % 128, And(x, 128)) % 8 = v % 8
          /\ Or(v % 128, And(x, 128)) \div 128 = x \div 128
      BY <1>3, KeptBit
    <3>2. QED
      BY <2>1, <2>2, <2>4, <3>1, <1>3, <1>6, <1>11, LoraBit DEF Op, x
  <2>5. QED
    BY <2>3, <2>4
<1>13. ASSUME NEW op \in Ops, e = ToOp(op)
       PROVE  Op(regs') = op /\ (Lora(regs') <=> Lora(regs))
  <2>1. e.reg = "OpMode" /\ v = Or(And(x, 248), op)
    BY <1>13 DEF ToOp, Change, v, x
  <2>2. v % 8 = op /\ v \div 128 = x \div 128
    BY <2>1, <1>3, ModeBits
  <2>3. CASE Op(regs) = SLEEP
    BY <2>1, <2>2, <2>3, <1>3, <1>6, <1>11, LoraBit DEF Op, x
  <2>4. CASE Op(regs) # SLEEP
    <3>1. /\ Or(v % 128, And(x, 128)) % 8 = v % 8
          /\ Or(v % 128, And(x, 128)) \div 128 = x \div 128
      BY <1>3, KeptBit
    <3>2. QED
      BY <2>1, <2>2, <2>4, <3>1, <1>3, <1>6, <1>11, LoraBit DEF Op, x
  <2>5. QED
    BY <2>3, <2>4
<1>14. QED
  BY <1>2, <1>6, <1>7, <1>8, <1>9, <1>10, <1>12, <1>13

LEMMA BeforeTail ==
    ASSUME NEW s \in Seq(Steps), s # <<>>, NEW A, NEW B, Before(s, A, B)
    PROVE  Before(Tail(s), A, B)
<1>1. ASSUME NEW i \in 1..Len(Tail(s)), NEW j \in 1..Len(Tail(s)), Tail(s)[i] \in A, Tail(s)[j] \in B
      PROVE  i < j
  <2>1. i + 1 \in 1..Len(s) /\ j + 1 \in 1..Len(s) /\ s[i + 1] = Tail(s)[i] /\ s[j + 1] = Tail(s)[j]
    BY TailSteps, SMT
  <2>2. i + 1 < j + 1
    BY <2>1, <1>1 DEF Before
  <2>3. QED
    BY <2>2, TailSteps, SMT
<1>2. QED
  BY <1>1 DEF Before

LEMMA BeforeNone ==
    ASSUME NEW s \in Seq(Steps), NEW A, NEW B, ToSet(s) \cap A = {} \/ ToSet(s) \cap B = {}
    PROVE  Before(s, A, B)
<1>1. DOMAIN s = 1..Len(s)
  BY SMT
<1>2. \A i \in 1..Len(s) : s[i] \in ToSet(s)
  BY <1>1 DEF ToSet
<1>3. QED
  BY <1>2 DEF Before

LEMMA BeforeJoin ==
    ASSUME NEW s \in Seq(Steps), NEW t \in Seq(Steps), NEW A, NEW B,
           Before(s, A, B), Before(t, A, B), ToSet(s) \cap B = {} \/ ToSet(t) \cap A = {}
    PROVE  Before(s \o t, A, B)
<1>1. /\ Len(s) \in Nat /\ Len(t) \in Nat /\ Len(s \o t) = Len(s) + Len(t)
      /\ \A i \in 1..Len(s) : (s \o t)[i] = s[i]
      /\ \A i \in 1..Len(t) : (s \o t)[Len(s) + i] = t[i]
      /\ DOMAIN s = 1..Len(s) /\ DOMAIN t = 1..Len(t)
  BY SMT
<1>2. ASSUME NEW i \in 1..Len(s \o t), NEW j \in 1..Len(s \o t), (s \o t)[i] \in A, (s \o t)[j] \in B
      PROVE  i < j
  <2>1. CASE i <= Len(s) /\ j <= Len(s)
    <3>1. i \in 1..Len(s) /\ j \in 1..Len(s)
      BY <2>1, <1>1, SMT
    <3>2. QED
      BY <3>1, <1>1, <1>2 DEF Before
  <2>2. CASE i > Len(s) /\ j > Len(s)
    <3>1. i - Len(s) \in 1..Len(t) /\ j - Len(s) \in 1..Len(t)
          /\ Len(s) + (i - Len(s)) = i /\ Len(s) + (j - Len(s)) = j
      BY <2>2, <1>1, SMT
    <3>2. t[i - Len(s)] \in A /\ t[j - Len(s)] \in B
      BY <3>1, <1>1, <1>2
    <3>3. i - Len(s) < j - Len(s)
      BY <3>1, <3>2 DEF Before
    <3>4. QED
      BY <3>3, <1>1, SMT
  <2>3. CASE i <= Len(s) /\ j > Len(s)
    BY <2>3, <1>1, SMT
  <2>4. CASE i > Len(s) /\ j <= Len(s)
    <3>1. j \in 1..Len(s) /\ i - Len(s) \in 1..Len(t) /\ Len(s) + (i - Len(s)) = i
      BY <2>4, <1>1, SMT
    <3>2. t[i - Len(s)] \in A /\ s[j] \in B
      BY <3>1, <1>1, <1>2
    <3>3. t[i - Len(s)] \in ToSet(t) /\ s[j] \in ToSet(s)
      BY <3>1, <1>1 DEF ToSet
    <3>4. QED
      BY <3>2, <3>3
  <2>5. QED
    BY <2>1, <2>2, <2>3, <2>4, <1>1, SMT
<1>3. QED
  BY <1>2 DEF Before

LEMMA OneStep ==
    ASSUME NEW a \in Steps
    PROVE  <<a>> \in Seq(Steps) /\ ToSet(<<a>>) = {a} /\ Len(<<a>>) = 1 /\ <<a>>[1] = a
BY DEF ToSet

LEMMA TwoSteps ==
    ASSUME NEW a \in Steps, NEW b \in Steps
    PROVE  /\ <<a, b>> \in Seq(Steps) /\ ToSet(<<a, b>>) = {a, b}
           /\ Len(<<a, b>>) = 2 /\ Tail(<<a, b>>) = <<b>>
BY DEF ToSet

LEMMA ThreeSteps ==
    ASSUME NEW a \in Steps, NEW b \in Steps, NEW c \in Steps
    PROVE  /\ <<a, b, c>> \in Seq(Steps) /\ ToSet(<<a, b, c>>) = {a, b, c}
           /\ Len(<<a, b, c>>) = 3 /\ Tail(<<a, b, c>>) = <<b, c>>
BY DEF ToSet

LEMMA FourSteps ==
    ASSUME NEW a \in Steps, NEW b \in Steps, NEW c \in Steps, NEW d \in Steps
    PROVE  /\ <<a, b, c, d>> \in Seq(Steps) /\ ToSet(<<a, b, c, d>>) = {a, b, c, d}
BY DEF ToSet

\* A call ends with its last step, which is put behind the others.
LEMMA LastStep ==
    ASSUME NEW s \in Seq(Steps), NEW a \in Steps
    PROVE  LET t == s \o <<a>> IN
           /\ Len(t) = Len(s) + 1 /\ t[Len(t)] = a
           /\ \A i \in 1..(Len(t) - 1) : t[i] \in ToSet(s)
<1>1. /\ Len(s) \in Nat /\ Len(s \o <<a>>) = Len(s) + 1 /\ (s \o <<a>>)[Len(s) + 1] = a
      /\ \A i \in 1..Len(s) : (s \o <<a>>)[i] = s[i]
      /\ DOMAIN s = 1..Len(s)
  BY OneStep, SMT
<1>2. QED
  BY <1>1, SMT DEF ToSet

\* What comes before a call leaves its end as it is.
LEMMA FrontSteps ==
    ASSUME NEW s \in Seq(Steps), NEW t \in Seq(Steps), Len(t) > 0
    PROVE  /\ Len(s \o t) > 0 /\ (s \o t)[Len(s \o t)] = t[Len(t)]
           /\ \A i \in 1..(Len(s \o t) - 1) :
                (s \o t)[i] \in ToSet(s) \/ \E j \in 1..(Len(t) - 1) : (s \o t)[i] = t[j]
<1>1. /\ Len(s) \in Nat /\ Len(t) \in Nat \ {0} /\ Len(s \o t) = Len(s) + Len(t)
      /\ \A i \in 1..Len(s) : (s \o t)[i] = s[i]
      /\ \A i \in 1..Len(t) : (s \o t)[Len(s) + i] = t[i]
      /\ DOMAIN s = 1..Len(s)
  BY SMT
<1>2. ASSUME NEW i \in 1..(Len(s \o t) - 1)
      PROVE  (s \o t)[i] \in ToSet(s) \/ \E j \in 1..(Len(t) - 1) : (s \o t)[i] = t[j]
  <2>1. CASE i <= Len(s)
    <3>1. i \in 1..Len(s)
      BY <2>1, <1>1, SMT
    <3>2. QED
      BY <3>1, <1>1 DEF ToSet
  <2>2. CASE i > Len(s)
    <3>1. i - Len(s) \in 1..(Len(t) - 1) /\ i - Len(s) \in 1..Len(t) /\ Len(s) + (i - Len(s)) = i
      BY <2>2, <1>1, SMT
    <3>2. (s \o t)[i] = t[i - Len(s)]
      BY <3>1, <1>1
    <3>3. QED
      BY <3>1, <3>2
  <2>3. QED
    BY <2>1, <2>2, <1>1, SMT
<1>3. QED
  BY <1>1, <1>2, SMT

LEMMA FrontTail ==
    ASSUME NEW h \in Seq(Steps), h # <<>>, NEW t \in Seq(Steps), NEW a,
           a \notin ToSet(Tail(h)), a \notin ToSet(t)
    PROVE  a \notin ToSet(Tail(h \o t))
<1>1. Tail(h) \in Seq(Steps)
  BY TailSteps
<1>2. Tail(h \o t) = Tail(h) \o t
  BY SMT
<1>3. ToSet(Tail(h) \o t) = ToSet(Tail(h)) \cup ToSet(t)
  BY <1>1, JoinSteps
<1>4. QED
  BY <1>2, <1>3

-----------------------------------------------------------------------------
(* The steps of the calls. *)

LEMMA KnownSteps ==
    /\ {Clear, Collect, Reset(TRUE), Reset(FALSE), Map(0), Map(64)} \subseteq Steps
    /\ \A input \in Events : Arm(input) \in Steps
    /\ \A op \in Ops : ToOp(op) \in Steps
    /\ ToLora \in Steps /\ LineWrites \subseteq Steps /\ Settings \subseteq Steps /\ Bursts \subseteq Steps
BY DEF Steps, Others, Writes, ModeWrites

LEMMA SettingSteps ==
    ASSUME NEW s \in Seq(Settings)
    PROVE  s \in Seq(Steps) /\ ToSet(s) \subseteq Settings
<1>1. DOMAIN s = 1..Len(s) /\ \A i \in 1..Len(s) : s[i] \in Settings
  BY SMT
<1>2. s \in Seq(Steps)
  BY KnownSteps, SMT
<1>3. QED
  BY <1>1, <1>2 DEF ToSet

LEMMA Setting ==
    ASSUME NEW reg \in Registers \ {"OpMode", "DioMapping1", "IrqFlags", "IrqFlagsMask"},
           NEW keep \in Int, NEW value \in Int
    PROVE  Change(reg, keep, value) \in Settings
BY DEF Change, Settings

LEMMA OtherNames ==
    {"ModemConfig1", "ModemConfig2", "ModemConfig3", "FrfMsb", "FrfMid", "FrfLsb", "PaConfig", "PaDac",
     "PaRamp", "SyncWord", "InvertIQ", "FifoTxBaseAddr", "FifoAddrPtr", "PayloadLength", "SymbTimeoutLsb",
     "Lna", "PayloadMaxLength"} \subseteq Registers \ {"OpMode", "DioMapping1", "IrqFlags", "IrqFlagsMask"}
BY DEF Registers, Defaults

LEMMA SettingW ==
    ASSUME NEW reg \in Registers \ {"OpMode", "DioMapping1", "IrqFlags", "IrqFlagsMask"}, NEW value \in Int
    PROVE  W(reg, value) \in Settings
BY Setting DEF W

LEMMA SettingsOfRate ==
    ASSUME TypeInv, NEW s, s.freq \in Nat, s.sf \in 6..12, s.bw \in {125, 250, 500}
    PROVE  /\ SetModemConfig(s) \in Seq(Settings)
           /\ SetFreq(s.freq) \in Seq(Settings)
<1>1. BwSetting(s) \in Int /\ CrSetting \in Int /\ LowRate(s) \in Int /\ SfSetting(s) \in Int
  <2>1. CrSetting \in Int /\ LowRate(s) \in Int /\ SfSetting(s) \in Int
    BY SMT DEF CrSetting, LowRate, SfSetting
  <2>2. CASE self.type = "SX1272"
    BY <2>1, <2>2, SMT DEF BwSetting
  <2>3. CASE self.type # "SX1272"
    BY <2>1, <2>3, SMT DEF BwSetting
  <2>4. QED
    BY <2>1, <2>2, <2>3
<1>2. Frf(s.freq) \in Int
  BY SMT DEF Frf
<1>3. \A value \in Int : /\ W("ModemConfig1", value) \in Settings /\ W("ModemConfig2", value) \in Settings
                         /\ W("ModemConfig3", value) \in Settings /\ W("FrfMsb", value) \in Settings
                         /\ W("FrfMid", value) \in Settings /\ W("FrfLsb", value) \in Settings
  BY Setting, OtherNames DEF W
<1>4. SetModemConfig(s) \in Seq(Settings)
  <2>1. CASE self.type = "SX1272"
    <3>1. /\ W("ModemConfig1", BwSetting(s) + CrSetting + 2 + LowRate(s)) \in Settings
          /\ W("ModemConfig2", SfSetting(s) + 4) \in Settings
      BY <1>1, <1>3
    <3>2. QED
      BY <2>1, <3>1 DEF SetModemConfig
  <2>2. CASE self.type # "SX1272"
    <3>1. /\ W("ModemConfig1", BwSetting(s) + CrSetting) \in Settings
          /\ W("ModemConfig2", SfSetting(s) + 4) \in Settings
          /\ W("ModemConfig3", 8 * LowRate(s) + 4) \in Settings
      BY <1>1, <1>3
    <3>2. QED
      BY <2>2, <3>1 DEF SetModemConfig
  <2>3. QED
    BY <2>1, <2>2
<1>5. SetFreq(s.freq) \in Seq(Settings)
  <2>1. /\ W("FrfMsb", Frf(s.freq) \div 65536) \in Settings
        /\ W("FrfMid", (Frf(s.freq) \div 256) % 256) \in Settings
        /\ W("FrfLsb", Frf(s.freq) % 256) \in Settings
    BY <1>2, <1>3
  <2>2. QED
    BY <2>1 DEF SetFreq
<1>6. QED
  BY <1>4, <1>5

LEMMA SettingsOfPower ==
    ASSUME NEW dbm \in Int
    PROVE  SetPower(dbm) \in Seq(Settings)
<1>1. \A low, high \in Int : Clamp(Dbm(dbm), low, high) \in Int
  BY SMT DEF Clamp, Dbm
<1>2. \A keep, value \in Int : Change("PaConfig", keep, value) \in Settings
                               /\ Change("PaDac", keep, value) \in Settings
  BY Setting, OtherNames
<1>3. CASE self.pa = "RFO" /\ self.type = "SX1272"
  <2>1. Change("PaConfig", 112, Clamp(Dbm(dbm), -1, 14) + 1) \in Settings
    BY <1>1, <1>2
  <2>2. QED
    BY <1>3, <2>1 DEF SetPower
<1>4. CASE self.pa = "RFO" /\ self.type # "SX1272"
  <2>1. Change("PaConfig", 240, 126) \in Settings
    BY <1>2
  <2>2. QED
    BY <1>4, <2>1 DEF SetPower
<1>5. CASE self.pa # "RFO"
  <2> DEFINE dac  == IF Dbm(dbm) >= 20 THEN 7 ELSE 4
             keep == IF self.type = "SX1272" THEN 240 ELSE 128
             cfg  == 128 + (IF Dbm(dbm) >= 20 THEN 15 ELSE Clamp(Dbm(dbm), 2, 17) - 2)
  <2>1. dac \in Int /\ keep \in Int /\ cfg \in Int
    <3>1. Clamp(Dbm(dbm), 2, 17) \in Int
      BY <1>1
    <3>2. QED
      BY <3>1, SMT
  <2>2. Change("PaDac", 248, dac) \in Settings /\ Change("PaConfig", keep, cfg) \in Settings
    BY <1>2, <2>1
  <2>3. SetPower(dbm) = <<Change("PaDac", 248, dac), Change("PaConfig", keep, cfg)>>
    BY <1>5 DEF SetPower
  <2>4. QED
    BY <2>2, <2>3
<1>6. QED
  BY <1>3, <1>4, <1>5

LEMMA KindsApart ==
    /\ \A e \in Settings : ~IsMode(e) /\ e \notin Bursts /\ e # Clear /\ e # ToOp(STANDBY)
    /\ \A e \in LineWrites : ~IsMode(e) /\ e \notin Bursts /\ e # Clear /\ e # ToOp(STANDBY)
    /\ \A e \in Bursts : ~IsMode(e) /\ e # Clear /\ e # ToOp(STANDBY)
    /\ \A input \in Events : /\ ~IsMode(Arm(input)) /\ Arm(input) \notin Bursts
                             /\ Arm(input) # Clear /\ Arm(input) # ToOp(STANDBY)
    /\ \A v \in {0, 64} : ~IsMode(Map(v)) /\ Map(v) \notin Bursts /\ Map(v) # Clear /\ Map(v) # ToOp(STANDBY)
    /\ ~IsMode(Clear) /\ Clear \notin Bursts /\ Clear # ToOp(STANDBY)
    /\ \A op \in Ops : IsMode(ToOp(op)) /\ ToOp(op) \notin Bursts /\ ToOp(op) # Clear
    /\ ToOp(TX) # ToOp(STANDBY) /\ ToOp(RX_SINGLE) # ToOp(STANDBY)
<1>1. \A e \in Settings : ~IsMode(e) /\ e \notin Bursts /\ e # Clear /\ e # ToOp(STANDBY)
  BY DEF Settings, IsMode, Bursts, Burst, Clear, ToOp, Change
<1>2. \A e \in LineWrites : ~IsMode(e) /\ e \notin Bursts /\ e # Clear /\ e # ToOp(STANDBY)
  BY DEF LineWrites, W, IsMode, Bursts, Burst, Clear, ToOp, Change
<1>3. \A e \in Bursts : ~IsMode(e) /\ e # Clear /\ e # ToOp(STANDBY)
  BY DEF IsMode, Bursts, Burst, Clear, ToOp, Change
<1>4. \A input \in Events : /\ ~IsMode(Arm(input)) /\ Arm(input) \notin Bursts
                            /\ Arm(input) # Clear /\ Arm(input) # ToOp(STANDBY)
  BY DEF IsMode, Bursts, Burst, Clear, ToOp, Change, Arm
<1>5. \A v \in {0, 64} : ~IsMode(Map(v)) /\ Map(v) \notin Bursts /\ Map(v) # Clear /\ Map(v) # ToOp(STANDBY)
  BY DEF IsMode, Bursts, Burst, Clear, ToOp, Change, Map
<1>6. ~IsMode(Clear) /\ Clear \notin Bursts /\ Clear # ToOp(STANDBY)
  BY DEF IsMode, Bursts, Burst, Clear, ToOp, Change
<1>7. \A op \in Ops : IsMode(ToOp(op)) /\ ToOp(op) \notin Bursts /\ ToOp(op) # Clear
  BY DEF IsMode, Bursts, Burst, Clear, ToOp, Change
<1>8. ToOp(TX) # ToOp(STANDBY) /\ ToOp(RX_SINGLE) # ToOp(STANDBY)
  BY DEF ToOp, Change, TX, RX_SINGLE, STANDBY
<1>9. QED
  BY <1>1, <1>2, <1>3, <1>4, <1>5, <1>6, <1>7, <1>8

\* What a call that starts the operation of state st is made of, and the order.
Prepares(t, st) ==
    /\ t \in Seq(Steps) /\ t # <<>>
    /\ t[Len(t)] = ToOp(Goal(st))
    /\ \A i \in 1..(Len(t) - 1) : IsMode(t[i]) => t[i] = ToOp(STANDBY)
    /\ Before(t, {ToOp(STANDBY)}, Bursts)
    /\ Clear \notin ToSet(Tail(t))
    /\ {Clear, ToOp(STANDBY), Map(Line(st)), W("DioMapping1", Line(st)), W("IrqFlags", 255),
        W("IrqFlagsMask", Mask(st))} \cup Arms(st) \subseteq ToSet(t)
    /\ ToSet(t) \subseteq {Clear, ToOp(STANDBY), ToOp(Goal(st)), Map(Line(st)), W("DioMapping1", Line(st)),
                           W("IrqFlags", 255), W("IrqFlagsMask", Mask(st))}
                          \cup Arms(st) \cup Settings
                          \cup (IF st = "TX" THEN Bursts ELSE {})

\* The common beginning of LDL_Radio_transmit() and LDL_Radio_receive().
LEMMA Beginning ==
    ASSUME TypeInv, NEW s, s.freq \in Nat, s.sf \in 6..12, s.bw \in {125, 250, 500}, NEW v \in {0, 64}
    PROVE  LET t == <<Map(v)>> \o SetOp(STANDBY) \o SetModemConfig(s) \o SetFreq(s.freq) IN
           /\ t \in Seq(Steps)
           /\ {Map(v), ToOp(STANDBY)} \subseteq ToSet(t)
           /\ ToSet(t) \subseteq {Map(v), ToOp(STANDBY)} \cup Settings
           /\ ToSet(t) = {Map(v), ToOp(STANDBY)} \cup ToSet(SetModemConfig(s)) \cup ToSet(SetFreq(s.freq))
<1>1. Map(v) \in Steps /\ ToOp(STANDBY) \in Steps
  BY KnownSteps DEF Ops
<1>2. SetOp(STANDBY) = <<ToOp(STANDBY)>>
  BY DEF SetOp, ToOp
<1>3. /\ SetModemConfig(s) \in Seq(Steps) /\ ToSet(SetModemConfig(s)) \subseteq Settings
      /\ SetFreq(s.freq) \in Seq(Steps) /\ ToSet(SetFreq(s.freq)) \subseteq Settings
  BY SettingsOfRate, SettingSteps
<1>4. /\ <<Map(v)>> \in Seq(Steps) /\ ToSet(<<Map(v)>>) = {Map(v)}
      /\ SetOp(STANDBY) \in Seq(Steps) /\ ToSet(SetOp(STANDBY)) = {ToOp(STANDBY)}
  BY <1>1, <1>2, OneStep
<1> DEFINE a == <<Map(v)>> \o SetOp(STANDBY)
           b == a \o SetModemConfig(s)
<1>5. a \in Seq(Steps) /\ ToSet(a) = ToSet(<<Map(v)>>) \cup ToSet(SetOp(STANDBY))
  BY <1>4, JoinSteps
<1> HIDE DEF a
<1>6. b \in Seq(Steps) /\ ToSet(b) = ToSet(a) \cup ToSet(SetModemConfig(s))
  BY <1>3, <1>5, JoinSteps
<1> HIDE DEF b
<1>7. b \o SetFreq(s.freq) \in Seq(Steps) /\ ToSet(b \o SetFreq(s.freq)) = ToSet(b) \cup ToSet(SetFreq(s.freq))
  BY <1>3, <1>6, JoinSteps
<1>8. /\ b \o SetFreq(s.freq) \in Seq(Steps)
      /\ {Map(v), ToOp(STANDBY)} \subseteq ToSet(b \o SetFreq(s.freq))
      /\ ToSet(b \o SetFreq(s.freq)) \subseteq {Map(v), ToOp(STANDBY)} \cup Settings
      /\ ToSet(b \o SetFreq(s.freq))
           = {Map(v), ToOp(STANDBY)} \cup ToSet(SetModemConfig(s)) \cup ToSet(SetFreq(s.freq))
  BY <1>3, <1>4, <1>5, <1>6, <1>7
<1>9. QED
  BY <1>8 DEF a, b

LEMMA TransmitSteps ==
    ASSUME TypeInv, NEW s \in TxSettings
    PROVE  Prepares(<<Clear, Arm("TX_COMPLETE")>> \o Transmit(s), "TX")
<1> DEFINE a == <<Map(64)>> \o SetOp(STANDBY) \o SetModemConfig(s) \o SetFreq(s.freq)
           l == <<W("SyncWord", 52), Change("PaRamp", 240, 8), Change("InvertIQ", 255 - 64, 0),
                  W("DioMapping1", 64), W("IrqFlags", 255), W("IrqFlagsMask", 247)>>
           f == WriteFIFO(s.len)
           b == a \o SetPower(s.dbm)
           c == b \o l
           d == c \o f
           t == d \o <<ToOp(TX)>>
           h == <<Clear, Arm("TX_COMPLETE")>>
<1>1. /\ s.freq \in Nat /\ s.sf \in 6..12 /\ s.bw \in {125, 250, 500}
      /\ s.dbm \in Int /\ s.len \in Byte
  BY RadioAssumption DEF RadioAssumption, Byte
<1>2. h \o Transmit(s) = h \o t
  BY DEF Transmit, SetOp, ToOp
<1>3. a \in Seq(Steps) /\ {Map(64), ToOp(STANDBY)} \subseteq ToSet(a)
      /\ ToSet(a) \subseteq {Map(64), ToOp(STANDBY)} \cup Settings
  BY <1>1, Beginning
<1> HIDE DEF a
<1>4. SetPower(s.dbm) \in Seq(Steps) /\ ToSet(SetPower(s.dbm)) \subseteq Settings
  BY <1>1, SettingsOfPower, SettingSteps
<1>5. /\ l \in Seq(Steps)
      /\ ToSet(l) = {W("SyncWord", 52), Change("PaRamp", 240, 8), Change("InvertIQ", 255 - 64, 0),
                     W("DioMapping1", 64), W("IrqFlags", 255), W("IrqFlagsMask", 247)}
      /\ {W("SyncWord", 52), Change("PaRamp", 240, 8), Change("InvertIQ", 255 - 64, 0)} \subseteq Settings
      /\ {W("DioMapping1", 64), W("IrqFlags", 255), W("IrqFlagsMask", 247)} \subseteq LineWrites
  <2>1. {W("SyncWord", 52), Change("PaRamp", 240, 8), Change("InvertIQ", 255 - 64, 0)} \subseteq Settings
    BY Setting, OtherNames DEF W
  <2>2. {W("DioMapping1", 64), W("IrqFlags", 255), W("IrqFlagsMask", 247)} \subseteq LineWrites
    BY DEF LineWrites
  <2>3. l \in Seq(Steps)
    BY <2>1, <2>2, KnownSteps
  <2>4. ToSet(l) = {W("SyncWord", 52), Change("PaRamp", 240, 8), Change("InvertIQ", 255 - 64, 0),
                    W("DioMapping1", 64), W("IrqFlags", 255), W("IrqFlagsMask", 247)}
    BY DEF ToSet
  <2>5. QED
    BY <2>1, <2>2, <2>3, <2>4
<1>6. f \in Seq(Steps) /\ ToSet(f) \subseteq Settings \cup Bursts
  <2>1. /\ W("FifoTxBaseAddr", 0) \in Settings /\ W("FifoAddrPtr", 0) \in Settings
        /\ W("PayloadLength", s.len) \in Settings /\ Burst(s.len) \in Bursts
    <3>1. 0 \in Int /\ s.len \in Int
      BY <1>1 DEF Byte
    <3>2. QED
      BY <3>1, <1>1, SettingW, OtherNames DEF Bursts
  <2>2. QED
    BY <2>1, KnownSteps, FourSteps DEF WriteFIFO
<1> HIDE DEF l, f
<1>7. b \in Seq(Steps) /\ ToSet(b) = ToSet(a) \cup ToSet(SetPower(s.dbm))
  BY <1>3, <1>4, JoinSteps
<1> HIDE DEF b
<1>8. c \in Seq(Steps) /\ ToSet(c) = ToSet(b) \cup ToSet(l)
  BY <1>5, <1>7, JoinSteps
<1> HIDE DEF c
<1>9. d \in Seq(Steps) /\ ToSet(d) = ToSet(c) \cup ToSet(f)
  BY <1>6, <1>8, JoinSteps
<1>10. ToSet(c) \subseteq {Map(64), ToOp(STANDBY), W("DioMapping1", 64), W("IrqFlags", 255),
                           W("IrqFlagsMask", 247)} \cup Settings
  BY <1>3, <1>4, <1>5, <1>7, <1>8
<1>11. {Map(64), ToOp(STANDBY), W("DioMapping1", 64), W("IrqFlags", 255), W("IrqFlagsMask", 247)} \subseteq ToSet(c)
  BY <1>3, <1>5, <1>7, <1>8
<1>12. Before(d, {ToOp(STANDBY)}, Bursts)
  <2>1. ToSet(c) \cap Bursts = {} /\ ToSet(f) \cap {ToOp(STANDBY)} = {}
    BY <1>10, <1>6, KindsApart DEF LineWrites, Ops
  <2>2. Before(c, {ToOp(STANDBY)}, Bursts) /\ Before(f, {ToOp(STANDBY)}, Bursts)
    BY <2>1, <1>6, <1>8, BeforeNone
  <2>3. QED
    BY <2>1, <2>2, <1>6, <1>8, BeforeJoin
<1> HIDE DEF d
<1>13. ToOp(TX) \in Steps /\ <<ToOp(TX)>> \in Seq(Steps) /\ ToSet(<<ToOp(TX)>>) = {ToOp(TX)}
  BY KnownSteps, OneStep DEF Ops
<1>14. t \in Seq(Steps) /\ ToSet(t) = ToSet(d) \cup {ToOp(TX)}
  BY <1>9, <1>13, JoinSteps
<1>15. Before(t, {ToOp(STANDBY)}, Bursts)
  <2>1. ToSet(<<ToOp(TX)>>) \cap {ToOp(STANDBY)} = {}
    BY <1>13, KindsApart
  <2>2. Before(<<ToOp(TX)>>, {ToOp(STANDBY)}, Bursts)
    BY <2>1, <1>13, BeforeNone
  <2>3. QED
    BY <2>1, <2>2, <1>9, <1>12, <1>13, BeforeJoin
<1>16. /\ Len(t) = Len(d) + 1 /\ t[Len(t)] = ToOp(TX)
       /\ \A i \in 1..(Len(t) - 1) : t[i] \in ToSet(d)
  BY <1>9, <1>13, LastStep
<1>17. /\ h \in Seq(Steps) /\ ToSet(h) = {Clear, Arm("TX_COMPLETE")}
       /\ Clear \in Steps /\ Arm("TX_COMPLETE") \in Steps /\ "TX_COMPLETE" \in Events
  <2>1. Clear \in Steps /\ Arm("TX_COMPLETE") \in Steps /\ "TX_COMPLETE" \in Events
    BY KnownSteps DEF Events
  <2>2. QED
    BY <2>1, TwoSteps
<1> HIDE DEF t, h
<1>18. h \o t \in Seq(Steps) /\ ToSet(h \o t) = ToSet(h) \cup ToSet(t)
  BY <1>14, <1>17, JoinSteps
<1>19. \A e \in ToSet(d) : (IsMode(e) => e = ToOp(STANDBY)) /\ e # Clear
  BY <1>6, <1>9, <1>10, KindsApart DEF LineWrites, Ops
<1>20. /\ Len(h \o t) > 0 /\ (h \o t)[Len(h \o t)] = ToOp(TX)
       /\ \A i \in 1..(Len(h \o t) - 1) : IsMode((h \o t)[i]) => (h \o t)[i] = ToOp(STANDBY)
  <2>1. Len(t) > 0
    BY <1>9, <1>16, SMT
  <2>2. /\ Len(h \o t) > 0 /\ (h \o t)[Len(h \o t)] = t[Len(t)]
        /\ \A i \in 1..(Len(h \o t) - 1) :
             (h \o t)[i] \in ToSet(h) \/ \E j \in 1..(Len(t) - 1) : (h \o t)[i] = t[j]
    BY <2>1, <1>14, <1>17, FrontSteps
  <2>3. \A e \in ToSet(h) : ~IsMode(e)
    BY <1>17, KindsApart
  <2>4. QED
    BY <2>2, <2>3, <1>16, <1>19
<1>21. Before(h \o t, {ToOp(STANDBY)}, Bursts)
  <2>1. ToSet(h) \cap Bursts = {}
    BY <1>17, KindsApart
  <2>2. Before(h, {ToOp(STANDBY)}, Bursts)
    BY <2>1, <1>17, BeforeNone
  <2>3. QED
    BY <2>1, <2>2, <1>14, <1>15, <1>17, BeforeJoin
<1>22. Clear \notin ToSet(Tail(h \o t))
  <2>1. Clear \notin ToSet(t) /\ Clear # Arm("TX_COMPLETE")
    BY <1>14, <1>17, <1>19, KindsApart DEF Ops
  <2>2. h # <<>> /\ Tail(h) = <<Arm("TX_COMPLETE")>>
    BY <1>17, TwoSteps DEF h
  <2>3. ToSet(Tail(h)) = {Arm("TX_COMPLETE")}
    BY <2>2, <1>17, OneStep
  <2>4. QED
    BY <2>1, <2>2, <2>3, <1>14, <1>17, FrontTail
<1>23. QED
  <2>1. /\ Goal("TX") = TX /\ Line("TX") = 64 /\ Mask("TX") = 247
        /\ Arms("TX") = {Arm("TX_COMPLETE")}
    BY DEF Goal, Line, Mask, Waits, Arms
  <2>2. h \o t # <<>>
    BY <1>18, <1>20
  <2>3. /\ {Clear, ToOp(STANDBY), Map(64), W("DioMapping1", 64), W("IrqFlags", 255), W("IrqFlagsMask", 247)}
             \cup {Arm("TX_COMPLETE")} \subseteq ToSet(h \o t)
        /\ ToSet(h \o t) \subseteq {Clear, ToOp(STANDBY), ToOp(TX), Map(64), W("DioMapping1", 64),
              W("IrqFlags", 255), W("IrqFlagsMask", 247)} \cup {Arm("TX_COMPLETE")} \cup Settings \cup Bursts
    BY <1>6, <1>9, <1>10, <1>11, <1>14, <1>17, <1>18
  <2>4. Prepares(h \o t, "TX")
    BY <2>1, <2>2, <2>3, <1>18, <1>20, <1>21, <1>22 DEF Prepares
  <2>5. QED
    BY <2>4, <1>2 DEF h

LEMMA ReceiveSteps ==
    ASSUME TypeInv, NEW s \in RxSettings, NEW st \in {"RX1", "RX2"}
    PROVE  Prepares(<<Clear, Arm("RX_READY"), Arm("RX_TIMEOUT")>> \o Receive(s), st)
<1> DEFINE a == <<Map(0)>> \o SetOp(STANDBY) \o SetModemConfig(s) \o SetFreq(s.freq)
           r == {W("SymbTimeoutLsb", s.timeout), W("SyncWord", 52), W("Lna", 35),
                 W("PayloadMaxLength", s.max), Change("InvertIQ", 255, 64)}
           l == <<W("SymbTimeoutLsb", s.timeout), W("SyncWord", 52), W("Lna", 35), W("PayloadMaxLength", s.max),
                  Change("InvertIQ", 255, 64), W("DioMapping1", 0), W("IrqFlags", 255), W("IrqFlagsMask", 63)>>
           d == a \o l
           t == d \o <<ToOp(RX_SINGLE)>>
           h == <<Clear, Arm("RX_READY"), Arm("RX_TIMEOUT")>>
<1>1. /\ s.freq \in Nat /\ s.sf \in 6..12 /\ s.bw \in {125, 250, 500}
      /\ s.timeout \in Int /\ s.max \in Int
  BY RadioAssumption DEF RadioAssumption
<1>2. h \o Receive(s) = h \o t
  BY DEF Receive, SetOp, ToOp
<1>3. a \in Seq(Steps) /\ {Map(0), ToOp(STANDBY)} \subseteq ToSet(a)
      /\ ToSet(a) \subseteq {Map(0), ToOp(STANDBY)} \cup Settings
  <2>1. \A v \in {0, 64} :
          LET b == <<Map(v)>> \o SetOp(STANDBY) \o SetModemConfig(s) \o SetFreq(s.freq) IN
          /\ b \in Seq(Steps)
          /\ {Map(v), ToOp(STANDBY)} \subseteq ToSet(b)
          /\ ToSet(b) \subseteq {Map(v), ToOp(STANDBY)} \cup Settings
    BY <1>1, Beginning
  <2>2. QED
    BY <2>1
<1> HIDE DEF a
<1>5. /\ l \in Seq(Steps) /\ r \subseteq Settings
      /\ ToSet(l) = r \cup {W("DioMapping1", 0), W("IrqFlags", 255), W("IrqFlagsMask", 63)}
      /\ {W("DioMapping1", 0), W("IrqFlags", 255), W("IrqFlagsMask", 63)} \subseteq LineWrites
  <2>1. r \subseteq Settings
    <3>1. W("SymbTimeoutLsb", s.timeout) \in Settings /\ W("PayloadMaxLength", s.max) \in Settings
      BY <1>1, SettingW, OtherNames
    <3>2. W("SyncWord", 52) \in Settings /\ W("Lna", 35) \in Settings /\ Change("InvertIQ", 255, 64) \in Settings
      BY Setting, SettingW, OtherNames
    <3>3. QED
      BY <3>1, <3>2
  <2>2. {W("DioMapping1", 0), W("IrqFlags", 255), W("IrqFlagsMask", 63)} \subseteq LineWrites
    BY DEF LineWrites
  <2>3. l \in Seq(Steps)
    BY <2>1, <2>2, KnownSteps
  <2>4. ToSet(l) = r \cup {W("DioMapping1", 0), W("IrqFlags", 255), W("IrqFlagsMask", 63)}
    BY DEF ToSet
  <2>5. QED
    BY <2>1, <2>2, <2>3, <2>4
<1> HIDE DEF l, r
<1>9. d \in Seq(Steps) /\ ToSet(d) = ToSet(a) \cup ToSet(l)
  BY <1>3, <1>5, JoinSteps
<1>10. ToSet(d) \subseteq {Map(0), ToOp(STANDBY), W("DioMapping1", 0), W("IrqFlags", 255),
                           W("IrqFlagsMask", 63)} \cup Settings
  BY <1>3, <1>5, <1>9
<1>11. {Map(0), ToOp(STANDBY), W("DioMapping1", 0), W("IrqFlags", 255), W("IrqFlagsMask", 63)} \subseteq ToSet(d)
  BY <1>3, <1>5, <1>9
<1>12. ToSet(d) \cap Bursts = {}
  <2>1. 0 \in {0, 64} /\ STANDBY \in Ops
    BY DEF Ops
  <2>2. QED
    BY <2>1, <1>5, <1>10, KindsApart
<1> HIDE DEF d
<1>13. ToOp(RX_SINGLE) \in Steps /\ <<ToOp(RX_SINGLE)>> \in Seq(Steps) /\ ToSet(<<ToOp(RX_SINGLE)>>) = {ToOp(RX_SINGLE)}
  BY KnownSteps, OneStep DEF Ops
<1>14. t \in Seq(Steps) /\ ToSet(t) = ToSet(d) \cup {ToOp(RX_SINGLE)}
  BY <1>9, <1>13, JoinSteps
<1>16. /\ Len(t) = Len(d) + 1 /\ t[Len(t)] = ToOp(RX_SINGLE)
       /\ \A i \in 1..(Len(t) - 1) : t[i] \in ToSet(d)
  BY <1>9, <1>13, LastStep
<1>17. /\ h \in Seq(Steps) /\ ToSet(h) = {Clear, Arm("RX_READY"), Arm("RX_TIMEOUT")}
       /\ Clear \in Steps /\ {Arm("RX_READY"), Arm("RX_TIMEOUT")} \subseteq Steps /\ {"RX_READY", "RX_TIMEOUT"} \subseteq Events
  <2>1. Clear \in Steps /\ {Arm("RX_READY"), Arm("RX_TIMEOUT")} \subseteq Steps /\ {"RX_READY", "RX_TIMEOUT"} \subseteq Events
    BY KnownSteps DEF Events
  <2>2. QED
    BY <2>1, ThreeSteps
<1> HIDE DEF t, h
<1>18. h \o t \in Seq(Steps) /\ ToSet(h \o t) = ToSet(h) \cup ToSet(t)
  BY <1>14, <1>17, JoinSteps
<1>19. \A e \in ToSet(d) : (IsMode(e) => e = ToOp(STANDBY)) /\ e # Clear
  BY <1>5, <1>10, KindsApart DEF Ops
<1>20. /\ Len(h \o t) > 0 /\ (h \o t)[Len(h \o t)] = ToOp(RX_SINGLE)
       /\ \A i \in 1..(Len(h \o t) - 1) : IsMode((h \o t)[i]) => (h \o t)[i] = ToOp(STANDBY)
  <2>1. Len(t) > 0
    BY <1>9, <1>16, SMT
  <2>2. /\ Len(h \o t) > 0 /\ (h \o t)[Len(h \o t)] = t[Len(t)]
        /\ \A i \in 1..(Len(h \o t) - 1) :
             (h \o t)[i] \in ToSet(h) \/ \E j \in 1..(Len(t) - 1) : (h \o t)[i] = t[j]
    BY <2>1, <1>14, <1>17, FrontSteps
  <2>3. \A e \in ToSet(h) : ~IsMode(e)
    BY <1>17, KindsApart
  <2>4. QED
    BY <2>2, <2>3, <1>16, <1>19
<1>21. Before(h \o t, {ToOp(STANDBY)}, Bursts)
  <2>1. ToSet(h \o t) \cap Bursts = {}
    BY <1>12, <1>14, <1>17, <1>18, KindsApart DEF Ops
  <2>2. QED
    BY <2>1, <1>18, BeforeNone
<1>22. Clear \notin ToSet(Tail(h \o t))
  <2>1. Clear \notin ToSet(t) /\ Clear # Arm("RX_READY") /\ Clear # Arm("RX_TIMEOUT")
    BY <1>14, <1>17, <1>19, KindsApart DEF Ops
  <2>2. h # <<>> /\ Tail(h) = <<Arm("RX_READY"), Arm("RX_TIMEOUT")>>
    BY <1>17, ThreeSteps DEF h
  <2>3. ToSet(Tail(h)) = {Arm("RX_READY"), Arm("RX_TIMEOUT")}
    BY <2>2, <1>17, TwoSteps
  <2>4. QED
    BY <2>1, <2>2, <2>3, <1>14, <1>17, FrontTail
<1>23. QED
  <2>1. /\ Goal(st) = RX_SINGLE /\ Line(st) = 0 /\ Mask(st) = 63 /\ st # "TX"
        /\ Arms(st) = {Arm("RX_READY"), Arm("RX_TIMEOUT")}
    BY DEF Goal, Line, Mask, Waits, Arms
  <2>2. h \o t # <<>>
    BY <1>18, <1>20
  <2>3. /\ {Clear, ToOp(STANDBY), Map(0), W("DioMapping1", 0), W("IrqFlags", 255), W("IrqFlagsMask", 63)}
             \cup {Arm("RX_READY"), Arm("RX_TIMEOUT")} \subseteq ToSet(h \o t)
        /\ ToSet(h \o t) \subseteq {Clear, ToOp(STANDBY), ToOp(RX_SINGLE), Map(0), W("DioMapping1", 0),
              W("IrqFlags", 255), W("IrqFlagsMask", 63)} \cup {Arm("RX_READY"), Arm("RX_TIMEOUT")} \cup Settings
    BY <1>10, <1>11, <1>14, <1>17, <1>18
  <2>4. Prepares(h \o t, st)
    BY <2>1, <2>2, <2>3, <1>18, <1>20, <1>21, <1>22 DEF Prepares
  <2>5. QED
    BY <2>4, <1>2 DEF h

LEMMA LoraSteps ==
    /\ EnableLora \in Seq(Steps) /\ ToSet(EnableLora) = {ToOp(SLEEP), ToLora} /\ Len(EnableLora) = 2
    /\ EnableLora[1] = ToOp(SLEEP) /\ EnableLora[2] = ToLora
<1>1. ToOp(SLEEP) \in Steps /\ ToLora \in Steps
  BY KnownSteps DEF Ops
<1>2. EnableLora = <<ToOp(SLEEP)>> \o <<ToLora>>
  BY DEF EnableLora, SetOp, ToOp, ToLora
<1>3. /\ <<ToOp(SLEEP)>> \in Seq(Steps) /\ ToSet(<<ToOp(SLEEP)>>) = {ToOp(SLEEP)}
      /\ Len(<<ToOp(SLEEP)>>) = 1
      /\ <<ToLora>> \in Seq(Steps) /\ ToSet(<<ToLora>>) = {ToLora}
  BY <1>1, OneStep
<1>4. EnableLora \in Seq(Steps) /\ ToSet(EnableLora) = {ToOp(SLEEP), ToLora}
  BY <1>2, <1>3, JoinSteps
<1>5. /\ Len(EnableLora) = 1 + 1 /\ EnableLora[Len(EnableLora)] = ToLora
      /\ \A i \in 1..(Len(EnableLora) - 1) : EnableLora[i] \in {ToOp(SLEEP)}
  BY <1>1, <1>2, <1>3, LastStep
<1>6. QED
  BY <1>4, <1>5, SMT

LEMMA SleepSteps ==
    /\ Sleep \in Seq(Steps) /\ ToSet(Sleep) = {ToOp(SLEEP), ToLora}
    /\ Sleep # <<>> /\ Head(Sleep) = ToOp(SLEEP) /\ Tail(Sleep) # <<>> /\ Head(Tail(Sleep)) = ToLora
<1>1. Sleep = EnableLora /\ Sleep \in Seq(Steps) /\ Sleep # <<>>
  BY LoraSteps DEF Sleep
<1>2. Len(Sleep) >= 2
  BY <1>1, LoraSteps
<1>3. Head(Sleep) = Sleep[1] /\ Tail(Sleep) # <<>> /\ Head(Tail(Sleep)) = Sleep[2]
  BY <1>1, <1>2, TailSteps
<1>4. QED
  BY <1>1, <1>3, LoraSteps

LEMMA EntropySteps ==
    ASSUME TypeInv
    PROVE  /\ EntropyBegin \in Seq(Steps)
           /\ \A e \in ToSet(EntropyBegin) : /\ e.do = "write" /\ e.reg \notin {"DioMapping1", "PaConfig"}
                                             /\ e # ToOp(TX) /\ e # ToOp(RX_SINGLE)
           /\ EntropyBegin # <<>> /\ Head(EntropyBegin) = ToOp(SLEEP)
           /\ Tail(EntropyBegin) # <<>> /\ Head(Tail(EntropyBegin)) = ToLora
<1> DEFINE l == <<W("IrqFlags", 255), W("IrqFlagsMask", 255)>>
           m == IF self.type = "SX1272" THEN <<W("ModemConfig1", 10), W("ModemConfig2", 116)>>
                                        ELSE <<W("ModemConfig1", 114), W("ModemConfig2", 112)>>
           a == SetOp(STANDBY)
           z == SetOp(RX_CONTINUOUS)
           Fits(s) == /\ s \in Seq(Steps)
                      /\ \A e \in ToSet(s) : /\ e.do = "write" /\ e.reg \notin {"DioMapping1", "PaConfig"}
                                             /\ e # ToOp(TX) /\ e # ToOp(RX_SINGLE)
<1>1. Fits(a) /\ Fits(z)
  <2>1. a = <<ToOp(STANDBY)>> /\ z = <<ToOp(RX_CONTINUOUS)>> /\ ToOp(STANDBY) \in Steps /\ ToOp(RX_CONTINUOUS) \in Steps
    BY KnownSteps DEF SetOp, ToOp, Ops
  <2>2. \A op \in {STANDBY, RX_CONTINUOUS} :
          /\ ToOp(op).do = "write" /\ ToOp(op).reg \notin {"DioMapping1", "PaConfig"}
          /\ ToOp(op) # ToOp(TX) /\ ToOp(op) # ToOp(RX_SINGLE)
    BY DEF ToOp, Change, STANDBY, RX_CONTINUOUS, TX, RX_SINGLE
  <2>3. QED
    BY <2>1, <2>2, OneStep DEF Ops
<1>2. Fits(l)
  <2>1. l \in Seq(Steps) /\ ToSet(l) = {W("IrqFlags", 255), W("IrqFlagsMask", 255)}
    <3>1. W("IrqFlags", 255) \in Steps /\ W("IrqFlagsMask", 255) \in Steps
      BY KnownSteps DEF LineWrites
    <3>2. \A x, y \in Steps : <<x, y>> \in Seq(Steps) /\ ToSet(<<x, y>>) = {x, y}
      BY TwoSteps
    <3>3. QED
      BY ZenonT(60), <3>1, <3>2
  <2>2. QED
    BY <2>1 DEF W, Change, ToOp
<1>3. Fits(m)
  <2>1. \A v, w \in Int : Fits(<<W("ModemConfig1", v), W("ModemConfig2", w)>>)
    <3> SUFFICES ASSUME NEW v \in Int, NEW w \in Int
                 PROVE  Fits(<<W("ModemConfig1", v), W("ModemConfig2", w)>>)
      OBVIOUS
    <3>1. W("ModemConfig1", v) \in Steps /\ W("ModemConfig2", w) \in Steps
      BY SettingW, OtherNames, KnownSteps
    <3>2. <<W("ModemConfig1", v), W("ModemConfig2", w)>> \in Seq(Steps)
          /\ ToSet(<<W("ModemConfig1", v), W("ModemConfig2", w)>>) = {W("ModemConfig1", v), W("ModemConfig2", w)}
      BY <3>1, TwoSteps
    <3>3. QED
      BY <3>2 DEF W, Change, ToOp
  <2>2. QED
    BY <2>1
<1> HIDE DEF l, m, a, z
<1> DEFINE Wakes(s) == Fits(s) /\ Len(s) >= 2 /\ s[1] = ToOp(SLEEP) /\ s[2] = ToLora
<1>4. ASSUME NEW s, NEW t, Wakes(s), Fits(t)
      PROVE  Wakes(s \o t)
  <2>1. /\ s \o t \in Seq(Steps) /\ ToSet(s \o t) = ToSet(s) \cup ToSet(t)
        /\ Len(s) \in Nat /\ Len(t) \in Nat /\ Len(s \o t) = Len(s) + Len(t)
        /\ \A i \in 1..Len(s) : (s \o t)[i] = s[i]
    BY <1>4, JoinSteps
  <2>2. Fits(s \o t)
    BY <1>4, <2>1
  <2>3. Len(s \o t) >= 2 /\ 1 \in 1..Len(s) /\ 2 \in 1..Len(s)
    BY <1>4, <2>1, SMT
  <2>4. QED
    BY <1>4, <2>1, <2>2, <2>3
<1>5. Wakes(EnableLora)
  <2>1. \A e \in {ToOp(SLEEP), ToLora} : /\ e.do = "write" /\ e.reg \notin {"DioMapping1", "PaConfig"}
                                          /\ e # ToOp(TX) /\ e # ToOp(RX_SINGLE)
    BY DEF ToOp, ToLora, Change, SLEEP, TX, RX_SINGLE
  <2>2. QED
    BY <2>1, LoraSteps
<1>6. EntropyBegin = (((EnableLora \o a) \o l) \o m) \o z
  BY DEF EntropyBegin, a, l, m, z
<1> DEFINE c == (((EnableLora \o a) \o l) \o m) \o z
<1>7. Wakes(c)
  <2> HIDE DEF Fits, Wakes
  <2>1. Wakes(EnableLora \o a)
    BY <1>1, <1>4, <1>5
  <2>2. Wakes((EnableLora \o a) \o l)
    BY <1>2, <1>4, <2>1
  <2>3. Wakes(((EnableLora \o a) \o l) \o m)
    BY <1>3, <1>4, <2>2
  <2>4. QED
    BY <1>1, <1>4, <2>3
<1> HIDE DEF c
<1>8. c # <<>>
  <2>1. c \in Seq(Steps) /\ Len(c) >= 2
    BY <1>7
  <2>2. QED
    BY <2>1, SMT
<1>9. Head(c) = c[1] /\ Tail(c) # <<>> /\ Head(Tail(c)) = c[2]
  BY <1>7, <1>8, TailSteps
<1>10. c = EntropyBegin
  BY <1>6 DEF c
<1>11. QED
  BY <1>7, <1>8, <1>9, <1>10

\* Calls that end an operation.
LEMMA ClosingSteps ==
    /\ LET c == <<Clear>> \o ClearInterrupt IN
       /\ c \in Seq(Steps) /\ c # <<>>
       /\ ToSet(c) = {Clear, W("IrqFlags", 255), W("IrqFlagsMask", 255), ToOp(SLEEP)}
    /\ LET c == <<Clear, Collect>> \o ClearInterrupt IN
       /\ c \in Seq(Steps) /\ c # <<>>
       /\ ToSet(c) = {Clear, Collect, W("IrqFlags", 255), W("IrqFlagsMask", 255), ToOp(SLEEP)}
       /\ Before(c, {Collect}, ModeWrites)
    /\ EntropyEnd \in Seq(Steps) /\ ToSet(EntropyEnd) = {ToOp(SLEEP)} /\ EntropyEnd # <<>>
<1>1. ToOp(SLEEP) \in Steps /\ Clear \in Steps /\ Collect \in Steps
      /\ W("IrqFlags", 255) \in Steps /\ W("IrqFlagsMask", 255) \in Steps
  BY KnownSteps DEF Ops, LineWrites
<1>2. SetOp(SLEEP) = <<ToOp(SLEEP)>>
  BY DEF SetOp, ToOp
<1> DEFINE l == <<W("IrqFlags", 255), W("IrqFlagsMask", 255)>>
           z == <<ToOp(SLEEP)>>
           h == <<Clear>>
           g == <<Clear, Collect>>
<1>3. /\ l \in Seq(Steps) /\ ToSet(l) = {W("IrqFlags", 255), W("IrqFlagsMask", 255)}
      /\ z \in Seq(Steps) /\ ToSet(z) = {ToOp(SLEEP)} /\ z # <<>>
      /\ h \in Seq(Steps) /\ ToSet(h) = {Clear}
      /\ g \in Seq(Steps) /\ ToSet(g) = {Clear, Collect}
      /\ ClearInterrupt = l \o z
  <2>1. l \in Seq(Steps) /\ ToSet(l) = {W("IrqFlags", 255), W("IrqFlagsMask", 255)}
    <3>1. W("IrqFlags", 255) \in Steps /\ W("IrqFlagsMask", 255) \in Steps
      BY <1>1
    <3>2. \A a, b \in Steps : <<a, b>> \in Seq(Steps) /\ ToSet(<<a, b>>) = {a, b}
      BY TwoSteps
    <3>3. QED
      BY <3>1, <3>2
  <2>2. z \in Seq(Steps) /\ ToSet(z) = {ToOp(SLEEP)} /\ z # <<>>
    BY <1>1, OneStep
  <2>3. h \in Seq(Steps) /\ ToSet(h) = {Clear}
    BY <1>1, OneStep
  <2>4. g \in Seq(Steps) /\ ToSet(g) = {Clear, Collect}
    BY <1>1, TwoSteps
  <2>5. ClearInterrupt = l \o z
    BY <1>2 DEF ClearInterrupt
  <2>6. QED
    BY <2>1, <2>2, <2>3, <2>4, <2>5
<1> HIDE DEF l, z, h, g
<1>4. l \o z \in Seq(Steps) /\ ToSet(l \o z) = ToSet(l) \cup ToSet(z)
  BY ZenonT(60), <1>3, JoinSteps
<1>5. h \o (l \o z) \in Seq(Steps) /\ ToSet(h \o (l \o z)) = ToSet(h) \cup ToSet(l \o z)
  BY ZenonT(60), <1>3, <1>4, JoinSteps
<1>6. g \o (l \o z) \in Seq(Steps) /\ ToSet(g \o (l \o z)) = ToSet(g) \cup ToSet(l \o z)
  BY ZenonT(60), <1>3, <1>4, JoinSteps
<1>7. Before(g \o (l \o z), {Collect}, ModeWrites)
  <2>1. ToSet(g) \cap ModeWrites = {} /\ ToSet(l \o z) \cap {Collect} = {}
    BY <1>3, <1>4 DEF ModeWrites, ToOp, ToLora, Change, W, Clear, Collect
  <2>2. Before(g, {Collect}, ModeWrites) /\ Before(l \o z, {Collect}, ModeWrites)
    BY <2>1, <1>3, <1>4, BeforeNone
  <2>3. QED
    BY <2>1, <2>2, <1>3, <1>4, BeforeJoin
<1>8. \A s \in Seq(Steps) : s = <<>> => ToSet(s) = {}
  BY DEF ToSet
<1>9. h \o (l \o z) # <<>> /\ g \o (l \o z) # <<>>
  BY <1>3, <1>5, <1>6, <1>8
<1>10. /\ ToSet(h \o (l \o z)) = {Clear, W("IrqFlags", 255), W("IrqFlagsMask", 255), ToOp(SLEEP)}
       /\ ToSet(g \o (l \o z)) = {Clear, Collect, W("IrqFlags", 255), W("IrqFlagsMask", 255), ToOp(SLEEP)}
  BY <1>3, <1>4, <1>5, <1>6
<1>11. EntropyEnd = z
  BY <1>2 DEF EntropyEnd, z
<1>12. QED
  BY <1>3, <1>4, <1>5, <1>6, <1>7, <1>9, <1>10, <1>11 DEF h, g

-----------------------------------------------------------------------------
(* Types. *)

\* The calls of the MAC.
Calls == HoldReset \/ ReleaseReset \/ Entropy \/ Ready \/ SendFrame \/ TxComplete \/ OpenWindow \/ MissWindow
            \/ RxReady \/ RxTimeoutSeen \/ ChipError \/ Cancel

ChipActs == Sent \/ Received \/ TimedOut

LEMMA ResetSteps ==
    /\ <<Reset(TRUE)>> \in Seq(Steps) /\ ToSet(<<Reset(TRUE)>>) = {Reset(TRUE)}
    /\ <<Reset(FALSE)>> \in Seq(Steps) /\ ToSet(<<Reset(FALSE)>>) = {Reset(FALSE)}
    /\ <<Clear, Reset(TRUE)>> \in Seq(Steps) /\ ToSet(<<Clear, Reset(TRUE)>>) = {Clear, Reset(TRUE)}
    /\ <<>> \in Seq(Steps) /\ ToSet(<<>>) = {}
<1>1. Reset(TRUE) \in Steps /\ Reset(FALSE) \in Steps /\ Clear \in Steps
  BY KnownSteps
<1>2. <<>> \in Seq(Steps) /\ ToSet(<<>>) = {}
  BY DEF ToSet
<1>3. QED
  BY <1>1, <1>2, OneStep, TwoSteps

\* A call finds the driver idle and the interrupts served, and touches nothing
\* itself but the state of the MAC.
LEMMA CallEffect ==
    ASSUME TypeInv, Calls
    PROVE  /\ todo = <<>> /\ Served /\ UNCHANGED <<self, regs, chip, board, inputs>>
           /\ todo' \in Seq(Steps) /\ state' \in States
<1>1. CASE HoldReset
  BY <1>1, ResetSteps DEF HoldReset, Quietly, Call, States
<1>2. CASE ReleaseReset
  BY <1>2, ResetSteps DEF ReleaseReset, Quietly, Call, States
<1>3. CASE Entropy
  BY <1>3, EntropySteps DEF Entropy, Quietly, Call, States
<1>4. CASE Ready
  BY <1>4, ClosingSteps DEF Ready, Quietly, Call, States
<1>5. CASE SendFrame
  BY <1>5, TransmitSteps DEF SendFrame, Call, States, Prepares
<1>6. CASE TxComplete
  BY <1>6, ClosingSteps DEF TxComplete, Quietly, Call, States
<1>7. CASE OpenWindow
  <2>1. PICK s \in RxSettings, w \in {<<"WAIT_RX1", "RX1">>, <<"WAIT_RX2", "RX2">>} :
          Call({w[1]}, w[2], <<Clear, Arm("RX_READY"), Arm("RX_TIMEOUT")>> \o Receive(s))
    BY <1>7 DEF OpenWindow
  <2>2. w[2] \in {"RX1", "RX2"}
    BY <2>1
  <2>3. <<Clear, Arm("RX_READY"), Arm("RX_TIMEOUT")>> \o Receive(s) \in Seq(Steps)
    BY <2>2, ReceiveSteps DEF Prepares
  <2>4. QED
    BY <2>1, <2>2, <2>3 DEF Call, States
<1>8. CASE MissWindow
  BY <1>8, ResetSteps DEF MissWindow, Quietly, Call, States
<1>9. CASE RxReady
  BY <1>9, ClosingSteps DEF RxReady, Quietly, Call, States
<1>10. CASE RxTimeoutSeen
  BY <1>10, ClosingSteps DEF RxTimeoutSeen, Quietly, Call, States
<1>11. CASE ChipError
  BY <1>11, ResetSteps DEF ChipError, Quietly, Call, States
<1>12. CASE Cancel
  BY <1>12, SleepSteps DEF Cancel, Quietly, Call, States
<1>13. QED
  BY <1>1, <1>2, <1>3, <1>4, <1>5, <1>6, <1>7, <1>8, <1>9, <1>10, <1>11, <1>12 DEF Calls

\* The chip ends an operation: it stands by, with the outcome's flag if not masked.
LEMMA FinishEffect ==
    ASSUME TypeInv, NEW op, NEW outcome, NEW flag, Finish(op, outcome, flag)
    PROVE  /\ Op(regs) = op /\ Lora(regs) /\ ~chip.held
           /\ regs' \in [Registers -> Byte]
           /\ Op(regs') = STANDBY /\ Lora(regs')
           /\ regs'.IrqFlags = Raised(flag)
           /\ regs'.DioMapping1 = regs.DioMapping1 /\ regs'.IrqFlagsMask = regs.IrqFlagsMask
           /\ UNCHANGED <<self, board, inputs, state, todo, asked, collected>>
<1>1. /\ Op(regs) = op /\ Lora(regs) /\ ~chip.held
      /\ regs' = [regs EXCEPT !.IrqFlags = Raised(flag), !.OpMode = Or(And(@, 248), STANDBY)]
      /\ UNCHANGED <<self, board, inputs, state, todo, asked, collected>>
  BY DEF Finish
<1>2. regs \in [Registers -> Byte] /\ regs.OpMode \in Byte /\ regs.IrqFlags \in Byte
  BY Names DEF TypeInv
<1>3. Raised(flag) \in Byte /\ Or(And(regs.OpMode, 248), STANDBY) \in Byte
  BY <1>2, BitByte DEF Raised
<1>4. regs' \in [Registers -> Byte] /\ regs'.IrqFlags = Raised(flag)
      /\ regs'.OpMode = Or(And(regs.OpMode, 248), STANDBY)
      /\ regs'.DioMapping1 = regs.DioMapping1 /\ regs'.IrqFlagsMask = regs.IrqFlagsMask
  BY <1>1, <1>2, <1>3, Names
<1>5. Op(regs') = STANDBY /\ regs'.OpMode \div 128 = regs.OpMode \div 128
  BY <1>2, <1>4, FlagBits DEF Op
<1>6. Lora(regs')
  BY <1>1, <1>2, <1>4, <1>5, LoraBit
<1>7. QED
  BY <1>1, <1>4, <1>5, <1>6

LEMMA EndEffect ==
    ASSUME TypeInv, ChipActs
    PROVE  /\ Lora(regs) /\ ~chip.held
           /\ regs' \in [Registers -> Byte] /\ Op(regs') = STANDBY /\ Lora(regs')
           /\ regs'.DioMapping1 = regs.DioMapping1 /\ regs'.IrqFlagsMask = regs.IrqFlagsMask
           /\ UNCHANGED <<self, board, inputs, state, todo, asked, collected>>
           /\ chip' \in Chips
           /\ chip'.held = chip.held /\ chip'.finished \in {"sent", "received", "timeout"}
           /\ Op(regs) = (IF chip'.finished = "sent" THEN TX ELSE RX_SINGLE)
           /\ regs'.IrqFlags = Raised(FlagOf[chip'.finished])
           /\ chip'.finished = "received" => chip'.fifo = "frame"
<1>1. CASE Sent
  <2>1. Finish(TX, "sent", TxDone) /\ chip' = [chip EXCEPT !.finished = "sent"]
    BY <1>1 DEF Sent
  <2>2. chip'.finished = "sent" /\ FlagOf[chip'.finished] = TxDone /\ chip'.held = chip.held
    BY <2>1 DEF TypeInv, Chips, FlagOf
  <2>3. QED
    BY ZenonT(60), <2>1, <2>2, FinishEffect DEF TypeInv, Chips
<1>2. CASE Received
  <2>1. PICK len \in RxLengths, signal \in Signals :
          /\ Finish(RX_SINGLE, "received", RxDone)
          /\ chip' = [chip EXCEPT !.finished = "received", !.fifo = "frame", !.len = len, !.signal = signal]
    BY <1>2 DEF Received
  <2>2. chip'.finished = "received" /\ FlagOf[chip'.finished] = RxDone /\ chip'.held = chip.held /\ chip'.fifo = "frame"
    BY <2>1 DEF TypeInv, Chips, FlagOf
  <2>3. len \in Byte /\ signal \in [rssi : Int, snr : -128..127]
    BY RadioAssumption DEF RadioAssumption, Byte
  <2>4. chip' \in Chips
    BY <2>1, <2>3 DEF TypeInv, Chips
  <2>5. QED
    BY <2>1, <2>2, <2>4, FinishEffect
<1>3. CASE TimedOut
  <2>1. Finish(RX_SINGLE, "timeout", RxTimeout) /\ chip' = [chip EXCEPT !.finished = "timeout"]
    BY <1>3 DEF TimedOut
  <2>2. chip'.finished = "timeout" /\ FlagOf[chip'.finished] = RxTimeout /\ chip'.held = chip.held
    BY <2>1 DEF TypeInv, Chips, FlagOf
  <2>3. QED
    BY <2>1, <2>2, FinishEffect DEF TypeInv, Chips
<1>4. QED
  BY <1>1, <1>2, <1>3 DEF ChipActs

LEMMA StartedChip ==
    ASSUME TypeInv
    PROVE  /\ Started \in Chips /\ Started.finished = "none" /\ Started.held = chip.held
           /\ \A held \in BOOLEAN :
                LET c == [Started EXCEPT !.held = held, !.fifo = "nothing"] IN
                c \in Chips /\ c.held = held /\ c.finished = "none"
           /\ \A held \in BOOLEAN :
                LET c == [Started EXCEPT !.held = held] IN
                c \in Chips /\ c.held = held /\ c.finished = "none"
<1>1. 0 \in Byte /\ [rssi |-> 0, snr |-> 0] \in [rssi : Int, snr : -128..127]
  BY SMT DEF Byte
<1>2. /\ Started \in Chips /\ Started.finished = "none" /\ Started.held = chip.held
  BY <1>1 DEF Started, TypeInv, Chips
<1>3. QED
  BY <1>2 DEF Chips

\* A new mode starts the chip, and sleep empties its FIFO.
LEMMA WriteChip ==
    ASSUME TypeInv, WriteRegister
    PROVE  /\ chip' = (IF Head(todo).reg # "OpMode" THEN chip
                       ELSE IF Op(regs') # SLEEP THEN Started ELSE [chip EXCEPT !.fifo = "nothing"])
           /\ chip' \in Chips /\ chip'.held = chip.held
           /\ Head(todo).reg # "OpMode" \/ Op(regs') = SLEEP \/ chip'.finished = "none"
           /\ Head(todo).reg # "OpMode" \/ Op(regs') = SLEEP
                => chip'.len = chip.len /\ chip'.signal = chip.signal
<1>1. chip' = IF Head(todo).reg # "OpMode" THEN chip
              ELSE IF Op(regs') # SLEEP THEN Started
              ELSE [chip EXCEPT !.fifo = IF Op(regs') = SLEEP THEN "nothing" ELSE @]
  BY DEF WriteRegister
<1>2. CASE Head(todo).reg # "OpMode"
  BY <1>1, <1>2 DEF TypeInv
<1>3. CASE Head(todo).reg = "OpMode" /\ Op(regs') # SLEEP
  BY <1>1, <1>3, StartedChip
<1>4. CASE Head(todo).reg = "OpMode" /\ Op(regs') = SLEEP
  <2>1. chip' = [chip EXCEPT !.fifo = "nothing"]
    BY <1>1, <1>4
  <2>2. QED
    BY <1>4, <2>1 DEF TypeInv, Chips
<1>5. QED
  BY <1>2, <1>3, <1>4

LEMMA TypeStep ==
    ASSUME TypeInv, LoraInv, Next
    PROVE  TypeInv'
<1>0. /\ self \in Drivers /\ chip \in Chips /\ board \in Boards /\ inputs \in Inputs
      /\ regs \in [Registers -> Byte] /\ regs.DioMapping1 \in {0, 64}
      /\ state \in States
  BY DEF TypeInv
<1>1. CASE WriteRegister
  <2> DEFINE e == Head(todo)
  <2>1. Doing("write") /\ UNCHANGED <<self, board, inputs, state>>
    BY <1>1 DEF WriteRegister
  <2>2. /\ e \in Writes /\ regs' \in [Registers -> Byte]
        /\ regs'.DioMapping1 = (IF e.reg = "DioMapping1" THEN e.value ELSE regs.DioMapping1)
    BY <1>1, WriteEffect
  <2>3. e \in Steps /\ e.do = "write" /\ todo' \in Seq(Steps)
    BY <2>1, NextStep
  <2>4. e.reg = "DioMapping1" => e \in {W("DioMapping1", 0), W("DioMapping1", 64)}
    BY <2>3, KindOfStep
  <2>5. e.reg = "DioMapping1" => e.value \in {0, 64}
    BY <2>4 DEF W, Change
  <2>7. chip' \in Chips
    BY <1>1, WriteChip
  <2>8. QED
    BY <2>1, <2>2, <2>3, <2>5, <2>7, <1>0 DEF TypeInv
<1>2. CASE BurstWrite
  <2>1. /\ Doing("burst") /\ UNCHANGED <<self, board, inputs, state>>
        /\ regs' = [regs EXCEPT !.FifoAddrPtr = (@ + Head(todo).len) % 256]
    BY <1>2 DEF BurstWrite
  <2>2. Head(todo).len \in Byte /\ todo' \in Seq(Steps)
    BY ZenonT(60), <2>1, NextStep, KindOfStep
  <2>3. (regs.FifoAddrPtr + Head(todo).len) % 256 \in Byte
    <3>1. Head(todo).len \in 0..255 /\ regs.FifoAddrPtr \in 0..255
      BY <2>2, <1>0, Names DEF Byte
    <3>2. \A x, y \in 0..255 : (x + y) % 256 \in 0..255
      BY SMT
    <3>3. QED
      BY ZenonT(60), <3>1, <3>2 DEF Byte
  <2>4. regs' \in [Registers -> Byte] /\ regs'.DioMapping1 = regs.DioMapping1
    BY <2>1, <2>3, <1>0, Names
  <2>5. chip' \in {[chip EXCEPT !.fifo = "payload"], [chip EXCEPT !.fifo = @]}
    BY <1>2 DEF BurstWrite
  <2>6. chip' \in Chips
    BY <2>5, <1>0 DEF Chips
  <2>7. QED
    BY <2>1, <2>2, <2>4, <2>6, <1>0 DEF TypeInv
<1>3. CASE ResetLine
  <2>1. /\ Doing("reset") /\ UNCHANGED <<self, board, inputs, state>> /\ regs' = Defaults
        /\ chip' = [Started EXCEPT !.held = Head(todo).held, !.fifo = "nothing"]
    BY <1>3 DEF ResetLine
  <2>2. Head(todo) \in {Reset(TRUE), Reset(FALSE)} /\ todo' \in Seq(Steps)
    BY ZenonT(60), <2>1, NextStep, KindOfStep
  <2>3. Head(todo).held \in BOOLEAN
    <3>1. \A held \in BOOLEAN : Reset(held).held = held
      BY DEF Reset
    <3>2. QED
      BY <2>2, <3>1
  <2>4. regs' \in [Registers -> Byte] /\ regs'.DioMapping1 = 0
    BY <2>1, Names DEF Defaults
  <2>5. chip' \in Chips
    BY <2>1, <2>3, StartedChip
  <2>6. QED
    BY <2>1, <2>2, <2>4, <2>5, <1>0 DEF TypeInv
<1>4. CASE SetMapping
  <2>1. /\ Doing("map") /\ UNCHANGED <<regs, chip, board, inputs, state>>
        /\ self' = [self EXCEPT !.dio_mapping1 = Head(todo).value]
    BY <1>4 DEF SetMapping
  <2>2. Head(todo) \in {Map(0), Map(64)} /\ todo' \in Seq(Steps)
    BY ZenonT(60), <2>1, NextStep, KindOfStep
  <2>3. Head(todo).value \in {0, 64}
    BY <2>2 DEF Map
  <2>4. self' \in Drivers
    BY <2>1, <2>3, <1>0 DEF Drivers
  <2>5. QED
    BY <2>1, <2>2, <2>4, <1>0 DEF TypeInv
<1>5. CASE InputArm
  <2>1. /\ Doing("arm") /\ UNCHANGED <<self, regs, chip, board, state>>
        /\ inputs' = [inputs EXCEPT !.armed = @ \cup {Head(todo).input}]
    BY <1>5 DEF InputArm
  <2>2. Head(todo).input \in Events /\ todo' \in Seq(Steps)
    BY ZenonT(60), <2>1, NextStep, KindOfStep
  <2>3. inputs' \in Inputs
    BY <2>1, <2>2, <1>0 DEF Inputs
  <2>4. QED
    BY <2>1, <2>2, <2>3, <1>0 DEF TypeInv
<1>6. CASE InputClear
  <2>1. /\ Doing("clear") /\ UNCHANGED <<self, regs, chip, board, state>>
        /\ inputs' = [armed |-> {}, state |-> {}]
    BY <1>6 DEF InputClear
  <2>2. todo' \in Seq(Steps)
    BY <2>1, NextStep
  <2>3. inputs' \in Inputs
    BY <2>1 DEF Inputs
  <2>4. QED
    BY <2>1, <2>2, <2>3, <1>0 DEF TypeInv
<1>7. CASE ReadFIFO
  <2>1. Doing("collect") /\ UNCHANGED <<self, chip, board, inputs, state>>
    BY <1>7 DEF ReadFIFO
  <2>2. todo' \in Seq(Steps)
    BY <2>1, NextStep
  <2>3. PICK size \in {MaxPacket, chip.len} : 
          regs' = [regs EXCEPT !.FifoAddrPtr = IF size > 0 THEN (regs.FifoRxCurrentAddr + size) % 256 ELSE @]
    BY <1>7 DEF ReadFIFO
  <2>4. size \in 0..255
    BY <1>0, RadioAssumption DEF RadioAssumption, Byte, Chips
  <2>5. (regs.FifoRxCurrentAddr + size) % 256 \in Byte /\ regs.FifoAddrPtr \in Byte
    <3>1. regs.FifoRxCurrentAddr \in 0..255 /\ regs.FifoAddrPtr \in Byte
      BY <1>0, Names DEF Byte
    <3>2. \A x, y \in 0..255 : (x + y) % 256 \in 0..255
      BY SMT
    <3>3. QED
      BY ZenonT(60), <2>4, <3>1, <3>2 DEF Byte
  <2>6. regs' \in [Registers -> Byte] /\ regs'.DioMapping1 = regs.DioMapping1
    BY <2>3, <2>5, <1>0, Names
  <2>7. QED
    BY <2>1, <2>2, <2>6, <1>0 DEF TypeInv
<1>8. CASE ChipActs
  BY <1>8, EndEffect, <1>0 DEF TypeInv
<1>9. ASSUME NEW n \in {0, 1}, Interrupt(n)
      PROVE  TypeInv'
  <2>1. Dio(n) \in BOOLEAN
    BY DEF Dio
  <2>2. board' \in Boards
    BY <1>9, <2>1, <1>0 DEF Interrupt, Level, Boards
  <2>3. Signal(n) \cap inputs.armed \in SUBSET Events
    BY <1>0 DEF Inputs
  <2>4. inputs' \in Inputs
    BY <1>9, <2>3, <1>0 DEF Interrupt, Inputs
  <2>5. QED
    BY <1>9, <2>2, <2>4, <1>0 DEF Interrupt, TypeInv
<1>10. CASE Calls
  BY <1>10, CallEffect, <1>0 DEF TypeInv
<1>11. CASE Restart
  <2>1. [n \in {0, 1} |-> FALSE] \in Level
    BY DEF Level
  <2>2. chip' \in Chips
    BY <1>11, StartedChip DEF Restart
  <2>3. <<>> \in Seq(Steps) /\ "INIT" \in States
    BY DEF States
  <2>4. self' \in Drivers /\ board' \in Boards /\ inputs' \in Inputs /\ 0 \in {0, 64}
    BY <1>11, <2>1, <1>0 DEF Restart, Drivers, Boards, Inputs
  <2>5. QED
    BY <1>11, <2>2, <2>3, <2>4, <1>0 DEF Restart, TypeInv
<1>12. QED
  BY <1>1, <1>2, <1>3, <1>4, <1>5, <1>6, <1>7, <1>8, <1>9, <1>10, <1>11 DEF Next, Step, Calls, ChipActs

-----------------------------------------------------------------------------
(* The mode of the chip. *)

\* Steps that write no register leave the mode as it is, and do not belong to
\* those that turn LoRa mode on.
LEMMA OtherSteps ==
    ASSUME TypeInv, LoraInv, NEW what \in {"burst", "map", "arm", "clear", "collect"}, Doing(what)
    PROVE  /\ state \notin Unreset => Lora(regs)
           /\ ToDo' \subseteq ToDo
<1>1. /\ todo # <<>> /\ Head(todo).do = what /\ ToDo = {Head(todo)} \cup ToDo'
  BY NextStep
<1>2. Head(todo) # ToLora /\ Head(todo) # ToOp(SLEEP)
  BY <1>1 DEF ToLora, ToOp, Change
<1>3. QED
  BY <1>1, <1>2 DEF LoraInv, LoraSoon

LEMMA SameMode ==
    ASSUME regs'.OpMode = regs.OpMode
    PROVE  Op(regs') = Op(regs) /\ (Lora(regs') <=> Lora(regs))
BY DEF Op, Lora

\* What the steps other than writes leave of the registers.
LEMMA KeptRegisters ==
    ASSUME TypeInv, BurstWrite \/ SetMapping \/ InputArm \/ InputClear \/ ReadFIFO
    PROVE  /\ regs'.OpMode = regs.OpMode /\ regs'.IrqFlags = regs.IrqFlags
           /\ regs'.DioMapping1 = regs.DioMapping1 /\ regs'.IrqFlagsMask = regs.IrqFlagsMask
           /\ UNCHANGED <<state, board>>
           /\ \E what \in {"burst", "map", "arm", "clear", "collect"} : Doing(what)
           /\ chip'.held = chip.held /\ chip'.finished = chip.finished
           /\ chip'.len = chip.len /\ chip'.signal = chip.signal
           /\ Op(regs') = Op(regs) /\ (Lora(regs') <=> Lora(regs))
<1>1. regs \in [Registers -> Byte] /\ chip \in Chips
  BY DEF TypeInv
<1>2. /\ regs'.OpMode = regs.OpMode /\ regs'.IrqFlags = regs.IrqFlags
      /\ regs'.DioMapping1 = regs.DioMapping1 /\ regs'.IrqFlagsMask = regs.IrqFlagsMask
  <2>1. \A v : LET r == [regs EXCEPT !.FifoAddrPtr = v] IN
               /\ r.OpMode = regs.OpMode /\ r.IrqFlags = regs.IrqFlags
               /\ r.DioMapping1 = regs.DioMapping1 /\ r.IrqFlagsMask = regs.IrqFlagsMask
    BY <1>1, Names
  <2>2. regs' = regs \/ \E v : regs' = [regs EXCEPT !.FifoAddrPtr = v]
    BY DEF BurstWrite, SetMapping, InputArm, InputClear, ReadFIFO
  <2>3. QED
    BY <2>1, <2>2
<1>3. /\ UNCHANGED <<state, board>>
      /\ \E what \in {"burst", "map", "arm", "clear", "collect"} : Doing(what)
  BY DEF BurstWrite, SetMapping, InputArm, InputClear, ReadFIFO
<1>4. /\ chip'.held = chip.held /\ chip'.finished = chip.finished
      /\ chip'.len = chip.len /\ chip'.signal = chip.signal
  <2>1. chip' = chip \/ \E f : chip' = [chip EXCEPT !.fifo = f]
    BY DEF BurstWrite, SetMapping, InputArm, InputClear, ReadFIFO
  <2>2. QED
    BY <2>1, <1>1 DEF Chips
<1>5. QED
  BY <1>2, <1>3, <1>4, SameMode

\* A step that resets belongs to a call that does nothing else.
LEMMA ResetEffect ==
    ASSUME TypeInv, LoraInv, ResetLine
    PROVE  /\ state \in Unreset /\ state' = state /\ ToDo' \subseteq ToDo
           /\ Op(regs') = STANDBY /\ regs'.IrqFlags = 0
           /\ \A held \in BOOLEAN : Head(todo) = Reset(held) => chip'.held = held
<1>1. Doing("reset") /\ regs' = Defaults /\ state' = state
  BY DEF ResetLine
<1>2. Head(todo).do = "reset" /\ ToDo = {Head(todo)} \cup ToDo'
  BY <1>1, NextStep
<1>3. state \in Unreset /\ ToDo' \subseteq ToDo
  BY <1>2 DEF LoraInv
<1>4. Op(regs') = STANDBY /\ regs'.IrqFlags = 0
  BY <1>1, SMT DEF Defaults, Op, STANDBY
<1>5. ASSUME NEW held \in BOOLEAN, Head(todo) = Reset(held)
      PROVE  chip'.held = held
  <2>1. Head(todo).held = held
    BY <1>5 DEF Reset
  <2>2. chip' = [Started EXCEPT !.held = held, !.fifo = "nothing"]
    BY <2>1 DEF ResetLine
  <2>3. QED
    BY <2>2, StartedChip
<1>6. QED
  BY <1>1, <1>3, <1>4, <1>5

-----------------------------------------------------------------------------
(* What the calls do with the state of the MAC, by their purpose. *)

Resting == {"IDLE", "WAIT_RX1", "WAIT_RX2"}

HoldsReset == /\ state \in {"INIT"} \cup Active /\ state' = "RESET"
              /\ todo' # <<>> /\ ToDo' \subseteq {Clear, Reset(TRUE)}
Releases   == state = "RESET" /\ state' = "LOCKOUT" /\ todo' # <<>> /\ ToDo' = {Reset(FALSE)}
Listens    == state = "LOCKOUT" /\ state' = "ENTROPY" /\ todo' = EntropyBegin
Rests      == state = "ENTROPY" /\ state' = "IDLE" /\ ToDo' = {ToOp(SLEEP)}
Starts     == /\ state \in Resting /\ state' \in Active /\ Prepares(todo', state')
              /\ IF state = "IDLE" THEN state' = "TX" /\ collected' = Nothing ELSE state' \in {"RX1", "RX2"}
Misses     == state \in {"WAIT_RX1", "WAIT_RX2"} /\ state' \in {"WAIT_RX2", "IDLE"} /\ todo' = <<>>
Closes     == /\ state \in Active /\ state' \in Resting /\ inputs.state # {}
              /\ ToDo' = {Clear, W("IrqFlags", 255), W("IrqFlagsMask", 255), ToOp(SLEEP)}
Collects   == /\ state \in {"RX1", "RX2"} /\ state' = "IDLE" /\ inputs.state = {"RX_READY"}
              /\ ToDo' = {Clear, Collect, W("IrqFlags", 255), W("IrqFlagsMask", 255), ToOp(SLEEP)}
              /\ Before(todo', {Collect}, ModeWrites)
Cancels    == state \in {"INIT"} \cup Resting \cup Active /\ state' = "IDLE" /\ todo' = Sleep

LEMMA CallCases ==
    ASSUME TypeInv, Calls
    PROVE  /\ HoldsReset \/ Releases \/ Listens \/ Rests \/ Starts \/ Misses \/ Closes \/ Collects \/ Cancels
           /\ collected' = collected \/ state' = "TX"
<1> USE DEF Quietly, Call, ToDo
<1>1. CASE HoldReset
  BY <1>1, ResetSteps DEF HoldReset, HoldsReset
<1>2. CASE ReleaseReset
  BY <1>2, ResetSteps DEF ReleaseReset, Releases
<1>3. CASE Entropy
  BY <1>3 DEF Entropy, Listens
<1>4. CASE Ready
  BY <1>4, ClosingSteps DEF Ready, Rests
<1>5. CASE SendFrame
  BY <1>5, TransmitSteps DEF SendFrame, Starts, Resting, Active
<1>6. CASE TxComplete
  BY <1>6, ClosingSteps DEF TxComplete, Closes, Active, Resting
<1>7. CASE OpenWindow
  <2>1. PICK s \in RxSettings, w \in {<<"WAIT_RX1", "RX1">>, <<"WAIT_RX2", "RX2">>} :
          /\ Call({w[1]}, w[2], <<Clear, Arm("RX_READY"), Arm("RX_TIMEOUT")>> \o Receive(s))
          /\ UNCHANGED collected
    BY <1>7 DEF OpenWindow
  <2>2. w[1] \in {"WAIT_RX1", "WAIT_RX2"} /\ w[2] \in {"RX1", "RX2"}
    BY <2>1
  <2>3. Prepares(<<Clear, Arm("RX_READY"), Arm("RX_TIMEOUT")>> \o Receive(s), w[2])
    BY <2>2, ReceiveSteps
  <2>4. QED
    BY <2>1, <2>2, <2>3 DEF Starts, Resting, Active
<1>8. CASE MissWindow
  BY <1>8 DEF MissWindow, Misses
<1>9. CASE RxReady
  BY <1>9, ClosingSteps DEF RxReady, Collects
<1>10. CASE RxTimeoutSeen
  BY <1>10, ClosingSteps DEF RxTimeoutSeen, Closes, Active, Resting
<1>11. CASE ChipError
  BY <1>11, ResetSteps DEF ChipError, HoldsReset, Active
<1>12. CASE Cancel
  BY <1>12 DEF Cancel, Cancels, Active, Resting
<1>13. QED
  BY <1>1, <1>2, <1>3, <1>4, <1>5, <1>6, <1>7, <1>8, <1>9, <1>10, <1>11, <1>12 DEF Calls

\* The kinds of steps among those of an operation.
LEMMA PreparedSteps ==
    ASSUME NEW t, NEW st \in Active, Prepares(t, st)
    PROVE  \A e \in ToSet(t) :
             /\ e.do \notin {"reset", "collect"} /\ e # Collect
             /\ e.do = "arm" => e.input \in Waits(st)
             /\ e.do = "map" => e.value = Line(st)
             /\ e.do = "write" /\ e.reg = "DioMapping1"  => e.value = Line(st)
             /\ e.do = "write" /\ e.reg = "IrqFlagsMask" => e.value = Mask(st)
             /\ st # "TX" => e.do # "burst"
<1> SUFFICES ASSUME NEW e \in ToSet(t)
             PROVE  /\ e.do \notin {"reset", "collect"} /\ e # Collect
                    /\ e.do = "arm" => e.input \in Waits(st)
                    /\ e.do = "map" => e.value = Line(st)
                    /\ e.do = "write" /\ e.reg = "DioMapping1"  => e.value = Line(st)
                    /\ e.do = "write" /\ e.reg = "IrqFlagsMask" => e.value = Mask(st)
                    /\ st # "TX" => e.do # "burst"
  OBVIOUS
<1>1. CASE e \in {Clear, Map(Line(st))}
  BY <1>1 DEF Clear, Map, Collect
<1>2. CASE e \in {ToOp(STANDBY), ToOp(Goal(st)), W("DioMapping1", Line(st)), W("IrqFlags", 255), W("IrqFlagsMask", Mask(st))}
  BY <1>2 DEF ToOp, W, Change, Collect
<1>3. CASE e \in Arms(st)
  BY <1>3 DEF Arms, Arm, Collect
<1>4. CASE e \in Settings
  BY <1>4 DEF Settings, Collect
<1>5. CASE st = "TX" /\ e \in Bursts
  BY <1>5 DEF Bursts, Burst, Collect
<1>6. QED
  BY <1>1, <1>2, <1>3, <1>4, <1>5 DEF Prepares

-----------------------------------------------------------------------------
LEMMA LoraStep ==
    ASSUME TypeInv, LoraInv, Next
    PROVE  LoraInv'
<1>1. CASE WriteRegister
  <2>1. Doing("write") /\ state' = state
    BY <1>1 DEF WriteRegister
  <2>2. /\ todo # <<>> /\ Head(todo) \in Steps /\ Head(todo).do = "write"
        /\ todo' = Tail(todo) /\ ToDo = {Head(todo)} \cup ToDo'
    BY <2>1, NextStep
  <2>3. state \notin Unreset /\ LoraSoon /\ \A e \in ToDo' : e.do # "reset"
    BY <2>2 DEF LoraInv
  <2>4. /\ Head(todo) = ToLora => Op(regs') = Op(regs) /\ (Lora(regs') <=> Lora(regs) \/ Op(regs) = SLEEP)
        /\ \A op \in Ops : Head(todo) = ToOp(op) => Op(regs') = op /\ (Lora(regs') <=> Lora(regs))
        /\ Head(todo).reg # "OpMode" => regs'.OpMode = regs.OpMode
    BY <1>1, WriteEffect
  <2>5. Head(todo).reg = "OpMode" => Head(todo) = ToLora \/ \E op \in Ops : Head(todo) = ToOp(op)
    BY <2>2, KindOfStep DEF ModeWrites
  <2>6. Lora(regs) => Lora(regs')
    BY <2>4, <2>5, SameMode
  <2>7. LoraSoon'
    <3>1. CASE Lora(regs)
      BY <3>1, <2>6 DEF LoraSoon
    <3>2. CASE Head(todo) = ToLora /\ Op(regs) = SLEEP
      BY <3>2, <2>4 DEF LoraSoon
    <3>3. CASE Head(todo) = ToOp(SLEEP) /\ Tail(todo) # <<>> /\ Head(Tail(todo)) = ToLora
      BY <3>3, <2>2, <2>4 DEF LoraSoon, Ops
    <3>4. QED
      BY <2>3, <3>1, <3>2, <3>3 DEF LoraSoon
  <2>8. Op(regs') \in {TX, RX_SINGLE, RX_CONTINUOUS} => Lora(regs')
    <3>1. CASE Head(todo).reg # "OpMode"
      BY <3>1, <2>4, SameMode DEF LoraInv
    <3>2. CASE Head(todo) = ToLora
      BY <3>2, <2>4 DEF LoraInv
    <3>3. ASSUME NEW op \in Ops, Head(todo) = ToOp(op)
          PROVE  Op(regs') \in {TX, RX_SINGLE, RX_CONTINUOUS} => Lora(regs')
      <4>1. op # SLEEP => Head(todo) # ToLora /\ Head(todo) # ToOp(SLEEP)
        BY <3>3 DEF ToOp, ToLora, Change
      <4>2. op # SLEEP => Lora(regs)
        BY <4>1, <2>3 DEF LoraSoon
      <4>3. SLEEP \notin {TX, RX_SINGLE, RX_CONTINUOUS}
        BY DEF SLEEP, TX, RX_SINGLE, RX_CONTINUOUS
      <4>4. QED
        BY <3>3, <4>2, <4>3, <2>4
    <3>4. QED
      BY <3>1, <3>2, <3>3, <2>5
  <2>9. QED
    BY <2>1, <2>3, <2>7, <2>8 DEF LoraInv
<1>2. CASE BurstWrite \/ SetMapping \/ InputArm \/ InputClear \/ ReadFIFO
  <2>1. /\ state' = state /\ Op(regs') = Op(regs) /\ (Lora(regs') <=> Lora(regs))
        /\ \E what \in {"burst", "map", "arm", "clear", "collect"} : Doing(what)
    BY <1>2, KeptRegisters
  <2>2. (state \notin Unreset => Lora(regs)) /\ ToDo' \subseteq ToDo
    BY <2>1, OtherSteps
  <2>3. QED
    BY <2>1, <2>2 DEF LoraInv, LoraSoon
<1>3. CASE ResetLine
  <2>1. STANDBY \notin {TX, RX_SINGLE, RX_CONTINUOUS}
    BY DEF STANDBY, TX, RX_SINGLE, RX_CONTINUOUS
  <2>2. QED
    BY <1>3, <2>1, ResetEffect DEF LoraInv
<1>4. CASE ChipActs
  <2>1. Lora(regs') /\ state' = state /\ todo' = todo
    BY <1>4, EndEffect
  <2>2. QED
    BY <2>1 DEF LoraInv, LoraSoon, ToDo
<1>5. ASSUME NEW n \in {0, 1}, Interrupt(n)
      PROVE  LoraInv'
  BY <1>5 DEF Interrupt, LoraInv, LoraSoon, ToDo
<1>6. CASE Calls
  <2>1. todo = <<>> /\ regs' = regs
    BY <1>6, CallEffect
  <2>2. Op(regs) \in {TX, RX_SINGLE, RX_CONTINUOUS} => Lora(regs)
    BY DEF LoraInv
  <2>3. state \notin Unreset => Lora(regs)
    BY <2>1 DEF LoraInv, LoraSoon
  <2>4. CASE HoldsReset \/ Releases
    <3>1. \A e \in {Clear, Reset(TRUE), Reset(FALSE)} : e.do \in {"clear", "reset"}
      BY DEF Clear, Reset
    <3>2. QED
      BY <2>4, <3>1, <2>1, <2>2 DEF HoldsReset, Releases, LoraInv, Unreset
  <2>5. CASE Listens \/ Cancels
    <3>1. state' \notin Unreset
      BY <2>5 DEF Listens, Cancels, Unreset
    <3>2. \A e \in ToDo' : e.do # "reset"
      <4>1. CASE Listens
        BY <4>1, EntropySteps DEF Listens, ToDo
      <4>2. CASE Cancels
        BY <4>2, SleepSteps DEF Cancels, ToDo, ToOp, ToLora, Change
      <4>3. QED
        BY <2>5, <4>1, <4>2
    <3>3. LoraSoon'
      BY <2>5, EntropySteps, SleepSteps DEF Listens, Cancels, LoraSoon
    <3>4. QED
      BY <3>1, <3>2, <3>3, <2>1, <2>2 DEF LoraInv
  <2>6. CASE Starts
    <3>1. state \notin Unreset /\ state' \notin Unreset
      BY <2>6 DEF Starts, Unreset, Resting, Active
    <3>2. \A e \in ToDo' : e.do # "reset"
      BY <2>6, PreparedSteps DEF Starts, ToDo
    <3>3. QED
      BY <3>1, <3>2, <2>1, <2>2, <2>3 DEF LoraInv, LoraSoon
  <2>7. CASE Rests \/ Misses \/ Closes \/ Collects
    <3>1. state \notin Unreset /\ state' \notin Unreset
      BY <2>7 DEF Rests, Misses, Closes, Collects, Unreset, Resting, Active
    <3>2. ToDo' \subseteq {Clear, Collect, W("IrqFlags", 255), W("IrqFlagsMask", 255), ToOp(SLEEP)}
      BY <2>7, ResetSteps DEF Rests, Misses, Closes, Collects, ToDo
    <3>3. \A e \in ToDo' : e.do # "reset"
      BY <3>2 DEF Clear, Collect, W, ToOp, Change
    <3>4. QED
      BY <3>1, <3>3, <2>1, <2>2, <2>3 DEF LoraInv, LoraSoon
  <2>8. QED
    BY <1>6, CallCases, <2>4, <2>5, <2>6, <2>7
<1>7. CASE Restart
  BY <1>7, ResetSteps DEF Restart, LoraInv, ToDo, Unreset
<1>8. QED
  BY <1>1, <1>2, <1>3, <1>4, <1>5, <1>6, <1>7 DEF Next, Step, Calls, ChipActs

-----------------------------------------------------------------------------
(* The lines of the chip. *)

\* Whether line n is high depends on the flags and their mapping only.
LEMMA DioFlags ==
    /\ regs.IrqFlags = 0 => ~Dio(0) /\ ~Dio(1)
    /\ regs.DioMapping1 \in {0, 64} =>
         /\ Dio(0) <=> ~chip.held /\ And(regs.IrqFlags, IF regs.DioMapping1 = 0 THEN RxDone ELSE TxDone) # 0
         /\ Dio(1) <=> ~chip.held /\ And(regs.IrqFlags, RxTimeout) # 0
<1>1. \A f \in {0, RxDone, TxDone, RxTimeout} : And(0, f) = 0
  BY SMT DEF And, RxDone, TxDone, RxTimeout
<1>2. regs.IrqFlags = 0 => ~Dio(0) /\ ~Dio(1)
  BY <1>1 DEF Dio
<1>3. ASSUME regs.DioMapping1 \in {0, 64}
      PROVE  /\ Mapping(regs, 0) = (IF regs.DioMapping1 = 0 THEN 0 ELSE 1)
             /\ Mapping(regs, 1) = 0
  BY <1>3, SMT DEF Mapping
<1>4. ASSUME regs.DioMapping1 \in {0, 64}
      PROVE  Dio(0) <=> ~chip.held /\ And(regs.IrqFlags, IF regs.DioMapping1 = 0 THEN RxDone ELSE TxDone) # 0
  <2>1. CASE regs.DioMapping1 = 0
    BY <2>1, <1>3 DEF Dio
  <2>2. CASE regs.DioMapping1 = 64
    <3>1. Mapping(regs, 0) = 1
      BY <2>2, <1>3
    <3>2. QED
      BY <2>2, <3>1 DEF Dio
  <2>3. QED
    BY <1>4, <2>1, <2>2
<1>5. ASSUME regs.DioMapping1 \in {0, 64}
      PROVE  Dio(1) <=> ~chip.held /\ And(regs.IrqFlags, RxTimeout) # 0
  BY <1>3, <1>5 DEF Dio
<1>6. QED
  BY <1>2, <1>4, <1>5

\* The last step of an operation's call is the one that starts it, and only it does.
LEMMA GoalIsLast ==
    ASSUME TypeInv, state \in Active, todo # <<>>, Prepare, Head(todo).do = "write", Head(todo).reg = "OpMode"
    PROVE  IF Tail(todo) = <<>> THEN Head(todo) = ToOp(Goal(state)) /\ ToDo = {ToOp(Goal(state))}
           ELSE Head(todo) = ToOp(STANDBY)
<1>1. /\ Len(todo) \in Nat \ {0} /\ Head(todo) = todo[1] /\ Len(Tail(todo)) = Len(todo) - 1
      /\ ToDo = {Head(todo)} \cup ToSet(Tail(todo)) /\ Tail(todo) \in Seq(Steps)
  BY TailSteps DEF TypeInv, ToDo
<1>2. CASE Tail(todo) = <<>>
  <2>1. Len(todo) = 1 /\ ToSet(Tail(todo)) = {}
    <3>1. Len(Tail(todo)) = 0 /\ ToSet(Tail(todo)) = {}
      BY <1>2, ResetSteps
    <3>2. \A n \in Nat : n - 1 = 0 => n = 1
      BY SMT
    <3>3. Len(todo) - 1 = 0 /\ Len(todo) \in Nat
      BY <1>1, <3>1
    <3>4. QED
      BY <3>1, <3>2, <3>3
  <2>2. QED
    BY <1>1, <1>2, <2>1 DEF Prepare
<1>3. CASE Tail(todo) # <<>>
  <2>1. \A t \in Seq(Steps) : t # <<>> => Len(t) \in Nat \ {0}
    BY TailSteps
  <2>2. 1 \in 1..(Len(todo) - 1)
    BY <1>1, <1>3, <2>1, SMT
  <2>3. QED
    BY <1>1, <1>3, <2>2 DEF Prepare, IsMode
<1>4. QED
  BY <1>2, <1>3

\* Which steps start a transmission, and which lines they leave.
LEMMA LinesKept ==
    ASSUME IInv, WriteRegister
    PROVE  Op(regs') = TX \/ And(regs'.IrqFlags, TxDone) # 0 => regs'.DioMapping1 = 64
<1> DEFINE e == Head(todo)
<1>1. TypeInv /\ LoraInv /\ LinesInv /\ RestInv
  BY DEF IInv
<1>2. Doing("write") /\ state' = state
  BY DEF WriteRegister
<1>3. todo # <<>> /\ e \in Steps /\ e.do = "write" /\ todo' = Tail(todo) /\ ToDo = {e} \cup ToDo'
  BY <1>1, <1>2, NextStep
<1>4. /\ e = ToLora => Op(regs') = Op(regs)
      /\ \A op \in Ops : e = ToOp(op) => Op(regs') = op
      /\ e.reg # "OpMode" => regs'.OpMode = regs.OpMode
      /\ IF e.reg = "IrqFlags" THEN regs'.IrqFlags = 0 ELSE regs'.IrqFlags = regs.IrqFlags
      /\ regs'.DioMapping1 = (IF e.reg = "DioMapping1" THEN e.value ELSE regs.DioMapping1)
  BY <1>1, WriteEffect
<1>5. And(0, TxDone) = 0
  BY SMT DEF And, TxDone
<1>6. state \in Active => Prepare
  BY <1>3 DEF IInv
<1>7. CASE e.reg = "DioMapping1"
  <2>1. state \in Active /\ Prepare
    BY <1>1, <1>3, <1>6, <1>7 DEF LinesInv
  <2>2. e.value = Line(state) /\ Op(regs) \in {STANDBY, SLEEP} /\ (regs.IrqFlags = 0 \/ state = "TX")
    BY <2>1, <1>3, <1>7 DEF Prepare
  <2>3. Op(regs') # TX
    BY <2>2, <1>4, <1>7, SameMode DEF STANDBY, SLEEP, TX
  <2>4. QED
    BY <2>2, <2>3, <1>4, <1>5, <1>7 DEF Line
<1>8. CASE e.reg # "DioMapping1" /\ e # ToOp(TX)
  <2>1. Op(regs') = TX => Op(regs) = TX
    <3>1. CASE e.reg # "OpMode"
      BY <3>1, <1>4, SameMode
    <3>2. CASE e = ToLora
      BY <3>2, <1>4
    <3>3. ASSUME NEW op \in Ops, e = ToOp(op)
          PROVE  Op(regs') = TX => Op(regs) = TX
      BY <3>3, <1>4, <1>8
    <3>4. e.reg = "OpMode" => e \in ModeWrites
      BY <1>3, KindOfStep
    <3>5. QED
      BY <3>1, <3>2, <3>3, <3>4 DEF ModeWrites
  <2>2. And(regs'.IrqFlags, TxDone) # 0 => And(regs.IrqFlags, TxDone) # 0
    BY <1>4, <1>5
  <2>3. Op(regs) = TX \/ And(regs.IrqFlags, TxDone) # 0 => regs.DioMapping1 = 64
    BY <1>1 DEF LinesInv
  <2>4. QED
    BY <2>1, <2>2, <2>3, <1>4, <1>8
<1>9. CASE e = ToOp(TX)
  <2>1. state \in Active /\ Prepare
    BY <1>1, <1>3, <1>6, <1>9 DEF LinesInv
  <2>2. e.reg = "OpMode" /\ e # ToOp(STANDBY) /\ e # ToOp(RX_SINGLE)
    BY <1>9 DEF ToOp, Change, TX, STANDBY, RX_SINGLE
  <2>3. ToDo = {ToOp(Goal(state))} /\ e = ToOp(Goal(state))
    BY <1>1, <1>3, <2>1, <2>2, GoalIsLast
  <2>4. state = "TX"
    BY <2>2, <2>3 DEF Goal
  <2>5. W("DioMapping1", Line(state)) \notin ToDo
    BY <2>3 DEF ToOp, Change, W
  <2>6. regs.DioMapping1 = 64
    BY <2>1, <2>4, <2>5 DEF Prepare, Line
  <2>7. QED
    BY <2>2, <2>6, <1>4
<1>10. QED
  BY <1>7, <1>8, <1>9

\* What a call brings to do, when it does not start an operation.
LEMMA CallKinds ==
    ASSUME TypeInv, Calls, state' \notin Active
    PROVE  /\ \A e \in ToDo' : e.do # "burst" /\ (e.do = "write" => e.reg # "DioMapping1") /\ e # ToOp(TX)
           /\ \A e \in ToDo' : (e.do = "write" => e.reg # "PaConfig") /\ e # ToOp(RX_SINGLE)
           /\ state = "LOCKOUT" \/ ToDo' \cap Settings = {}
           /\ ~Starts
<1> DEFINE K == {Clear, Collect, Reset(TRUE), Reset(FALSE), W("IrqFlags", 255), W("IrqFlagsMask", 255),
                 ToOp(SLEEP), ToLora}
           Quiet(e) == /\ e.do # "burst" /\ e # ToOp(TX) /\ e # ToOp(RX_SINGLE)
                       /\ e.do = "write" => e.reg \notin {"DioMapping1", "PaConfig"}
<1>1. ~Starts
  BY DEF Starts
<1>2. \A e \in K : Quiet(e) /\ e \notin Settings
  <2>1. \A e \in K : Quiet(e)
    BY DEF Clear, Collect, Reset, W, ToOp, ToLora, Change, SLEEP, TX, RX_SINGLE
  <2>2. \A e \in K : e.do = "write" => e.reg \in {"OpMode", "IrqFlags", "IrqFlagsMask"}
    BY DEF Clear, Collect, Reset, W, ToOp, ToLora, Change
  <2>3. \A e \in Settings : e.do = "write" /\ e.reg \notin {"OpMode", "IrqFlags", "IrqFlagsMask"}
    BY DEF Settings
  <2> HIDE DEF K, Quiet
  <2>4. QED
    BY <2>1, <2>2, <2>3
<1>3. ToDo' \subseteq K \/ (state = "LOCKOUT" /\ ToDo' = ToSet(EntropyBegin))
  <2>1. CASE HoldsReset \/ Releases \/ Rests \/ Closes \/ Collects
    <3>1. HoldsReset => ToDo' \subseteq K
      BY DEF HoldsReset
    <3>2. Releases \/ Rests => ToDo' \subseteq K
      BY DEF Releases, Rests
    <3>3. Closes \/ Collects => ToDo' \subseteq K
      BY ZenonT(60) DEF Closes, Collects
    <3>4. QED
      BY <2>1, <3>1, <3>2, <3>3
  <2>2. CASE Listens
    BY <2>2 DEF Listens, ToDo
  <2>3. CASE Misses
    BY <2>3, ResetSteps DEF Misses, ToDo
  <2>4. CASE Cancels
    BY <2>4, SleepSteps DEF Cancels, ToDo
  <2>5. QED
    BY <1>1, <2>1, <2>2, <2>3, <2>4, CallCases
<1>4. \A e \in ToSet(EntropyBegin) : Quiet(e)
  BY EntropySteps
<1> HIDE DEF K, Quiet
<1>5. /\ \A e \in ToDo' : Quiet(e)
      /\ state = "LOCKOUT" \/ ToDo' \cap Settings = {}
  BY <1>2, <1>3, <1>4
<1>6. QED
  BY <1>1, <1>5 DEF Quiet

LEMMA LinesStep ==
    ASSUME IInv, Next
    PROVE  LinesInv'
<1>1. TypeInv /\ LoraInv /\ LinesInv
  BY DEF IInv
<1> DEFINE Quiet(e) == e.do # "burst" /\ (e.do = "write" => e.reg # "DioMapping1") /\ e # ToOp(TX)
<1>2. /\ Op(regs) = TX \/ And(regs.IrqFlags, TxDone) # 0 => regs.DioMapping1 = 64
      /\ state \notin Active => \A e \in ToDo : Quiet(e)
      /\ state \notin {"RESET", "LOCKOUT"} => ~chip.held
      /\ state = "INIT" => todo = <<>>
      /\ state = "LOCKOUT" => (todo # <<>> \/ ~chip.held) /\ \A e \in ToDo : e = Reset(FALSE)
  BY <1>1 DEF LinesInv
<1> HIDE DEF Quiet
<1>3. ASSUME Op(regs') = TX \/ And(regs'.IrqFlags, TxDone) # 0 => regs'.DioMapping1 = 64,
             state' \notin Active => \A e \in ToDo' : Quiet(e),
             state' \notin {"RESET", "LOCKOUT"} => ~chip'.held,
             state' = "INIT" => todo' = <<>>,
             state' = "LOCKOUT" => (todo' # <<>> \/ ~chip'.held) /\ \A e \in ToDo' : e = Reset(FALSE)
      PROVE  LinesInv'
  BY <1>3 DEF LinesInv, Quiet
<1>4. CASE WriteRegister
  <2>1. Doing("write") /\ state' = state
    BY <1>4 DEF WriteRegister
  <2>2. todo # <<>> /\ Head(todo).do = "write" /\ ToDo = {Head(todo)} \cup ToDo'
    BY <1>1, <2>1, NextStep
  <2>3. state # "INIT" /\ state # "LOCKOUT"
    BY <2>2, <1>2 DEF Reset
  <2>4. chip'.held = chip.held
    BY <1>1, <1>4, WriteChip
  <2>5. Op(regs') = TX \/ And(regs'.IrqFlags, TxDone) # 0 => regs'.DioMapping1 = 64
    BY <1>4, LinesKept
  <2>6. QED
    BY <2>1, <2>2, <2>3, <2>4, <2>5, <1>2, <1>3
<1>5. CASE BurstWrite \/ SetMapping \/ InputArm \/ InputClear \/ ReadFIFO
  <2>1. /\ regs'.IrqFlags = regs.IrqFlags /\ regs'.DioMapping1 = regs.DioMapping1
        /\ state' = state /\ chip'.held = chip.held /\ Op(regs') = Op(regs)
    BY <1>1, <1>5, KeptRegisters
  <2>2. PICK what \in {"burst", "map", "arm", "clear", "collect"} : Doing(what)
    BY <1>1, <1>5, KeptRegisters
  <2>3. todo # <<>> /\ Head(todo).do = what /\ ToDo = {Head(todo)} \cup ToDo'
    BY <1>1, <2>2, NextStep
  <2>4. state # "INIT" /\ state # "LOCKOUT"
    BY <2>2, <2>3, <1>2 DEF Reset
  <2>5. QED
    BY <2>1, <2>3, <2>4, <1>2, <1>3
<1>6. CASE ResetLine
  <2>1. /\ state \in Unreset /\ state' = state /\ ToDo' \subseteq ToDo
        /\ Op(regs') = STANDBY /\ regs'.IrqFlags = 0
        /\ \A held \in BOOLEAN : Head(todo) = Reset(held) => chip'.held = held
    BY <1>1, <1>6, ResetEffect
  <2>2. Doing("reset")
    BY <1>6 DEF ResetLine
  <2>3. todo # <<>> /\ ToDo = {Head(todo)} \cup ToDo'
    BY <1>1, <2>2, NextStep
  <2>4. state # "INIT" /\ (state = "LOCKOUT" => ~chip'.held)
    BY <2>1, <2>3, <1>2
  <2>5. And(0, TxDone) = 0 /\ STANDBY # TX
    BY SMT DEF And, TxDone, STANDBY, TX
  <2>6. state \notin Active
    BY <2>1 DEF Unreset, Active
  <2>7. Op(regs') = TX \/ And(regs'.IrqFlags, TxDone) # 0 => regs'.DioMapping1 = 64
    BY <2>1, <2>5
  <2>8. state' \notin {"RESET", "LOCKOUT"} => ~chip'.held
    BY <2>1, <2>4 DEF Unreset
  <2>9. QED
    BY <2>1, <2>4, <2>6, <2>7, <2>8, <1>2, <1>3
<1>7. CASE ChipActs
  <2>1. /\ UNCHANGED <<state, todo>> /\ chip'.held = chip.held
        /\ Op(regs') = STANDBY /\ regs'.DioMapping1 = regs.DioMapping1
        /\ chip'.finished \in {"sent", "received", "timeout"}
        /\ Op(regs) = (IF chip'.finished = "sent" THEN TX ELSE RX_SINGLE)
        /\ regs'.IrqFlags = Raised(FlagOf[chip'.finished])
    BY <1>1, <1>7, EndEffect
  <2>2. STANDBY # TX
    BY DEF STANDBY, TX
  <2>3. And(regs'.IrqFlags, TxDone) # 0 => regs'.DioMapping1 = 64
    <3>1. CASE chip'.finished = "sent"
      BY <3>1, <2>1, <1>2
    <3>2. CASE chip'.finished # "sent"
      <4>1. FlagOf[chip'.finished] \in {RxTimeout, RxDone} /\ regs.IrqFlags \in Byte
        BY <3>2, <2>1, <1>1, Names DEF FlagOf, TypeInv
      <4>2. And(Or(regs.IrqFlags, FlagOf[chip'.finished]), TxDone) = And(regs.IrqFlags, TxDone)
        BY <4>1, FlagBits
      <4>3. And(regs'.IrqFlags, TxDone) = And(regs.IrqFlags, TxDone)
        BY <2>1, <4>2 DEF Raised
      <4>4. QED
        BY <2>1, <4>3, <1>2
    <3>3. QED
      BY <3>1, <3>2
  <2>4. ToDo' = ToDo
    BY <2>1 DEF ToDo
  <2>5. QED
    BY <2>1, <2>2, <2>3, <2>4, <1>2, <1>3
<1>8. ASSUME NEW n \in {0, 1}, Interrupt(n)
      PROVE  LinesInv'
  <2>1. UNCHANGED <<regs, chip, state, todo>>
    BY <1>8 DEF Interrupt
  <2>2. ToDo' = ToDo
    BY <2>1 DEF ToDo
  <2>3. QED
    BY <2>1, <2>2, <1>2, <1>3
<1>9. CASE Calls
  <2>1. todo = <<>> /\ regs' = regs /\ chip' = chip
    BY <1>1, <1>9, CallEffect
  <2>2. state' \notin Active => \A e \in ToDo' : Quiet(e)
    BY <1>1, <1>9, CallKinds DEF Quiet
  <2>3. \/ HoldsReset \/ Releases
        \/ state' \notin {"INIT", "RESET", "LOCKOUT"} /\ state # "RESET"
    BY <1>1, <1>9, CallCases DEF Listens, Rests, Starts, Misses, Closes, Collects, Cancels, Resting, Active
  <2>4. CASE HoldsReset \/ Releases
    BY <2>1, <2>2, <2>4, <1>2, <1>3 DEF HoldsReset, Releases
  <2>5. CASE state' \notin {"INIT", "RESET", "LOCKOUT"} /\ state # "RESET"
    BY <2>1, <2>2, <2>5, <1>2, <1>3
  <2>6. QED
    BY <2>3, <2>4, <2>5
<1>10. CASE Restart
  <2>1. regs' = regs /\ todo' = <<>> /\ state' = "INIT" /\ chip' = [Started EXCEPT !.held = FALSE]
    BY <1>10 DEF Restart
  <2>2. ToDo' = {} /\ ~chip'.held
    BY <2>1, <1>1, ResetSteps, StartedChip DEF ToDo
  <2>3. QED
    BY <2>1, <2>2, <1>2, <1>3
<1>11. QED
  BY <1>4, <1>5, <1>6, <1>7, <1>8, <1>9, <1>10 DEF Next, Step, Calls, ChipActs

-----------------------------------------------------------------------------
(* Between operations. *)

\* A call that closes an operation finds it over, and a frame that was received
\* in the FIFO.
LEMMA FoundOver ==
    ASSUME IInv, state \in Active, todo = <<>>, inputs.state # {}
    PROVE  /\ Over /\ inputs.state = {Outcome[chip.finished]}
           /\ inputs.state = {"RX_READY"} => chip.fifo = "frame"
<1>1. Running \/ Over
  BY DEF IInv, Operate
<1>2. Over /\ inputs.state = {Outcome[chip.finished]}
  BY <1>1 DEF Running, Over
<1>3. chip.finished \in {"sent", "received", "timeout"}
  BY <1>2 DEF Over, Ends
<1>4. inputs.state = {"RX_READY"} => chip.finished = "received"
  BY <1>2, <1>3 DEF Outcome
<1>5. QED
  BY <1>2, <1>4 DEF Over

LEMMA RestStep ==
    ASSUME IInv, Next
    PROVE  RestInv'
<1>1. TypeInv /\ LoraInv /\ LinesInv /\ RestInv
  BY DEF IInv
<1>2. ASSUME state \in Resting
      PROVE  /\ Op(regs) = SLEEP \/ ToOp(SLEEP) \in ToDo
             /\ \A e \in ToDo : IsMode(e) => e \in {ToOp(SLEEP), ToLora}
             /\ state # "IDLE" => /\ Op(regs) \in {SLEEP, STANDBY}
                                  /\ regs.IrqFlags = 0 \/ W("IrqFlags", 255) \in ToDo
  BY <1>1, <1>2 DEF RestInv, Resting
<1>3. ASSUME state' \in Resting =>
               /\ Op(regs') = SLEEP \/ ToOp(SLEEP) \in ToDo'
               /\ \A e \in ToDo' : IsMode(e) => e \in {ToOp(SLEEP), ToLora}
               /\ state' # "IDLE" => /\ Op(regs') \in {SLEEP, STANDBY}
                                     /\ regs'.IrqFlags = 0 \/ W("IrqFlags", 255) \in ToDo'
      PROVE  RestInv'
  BY <1>3 DEF RestInv, Resting
<1>4. CASE WriteRegister
  <2> DEFINE e == Head(todo)
  <2>1. Doing("write") /\ state' = state
    BY <1>4 DEF WriteRegister
  <2>2. /\ todo # <<>> /\ e \in Steps /\ e.do = "write" /\ todo' = Tail(todo) /\ ToDo = {e} \cup ToDo'
    BY <1>1, <2>1, NextStep
  <2>3. /\ e = ToLora => Op(regs') = Op(regs)
        /\ e = ToOp(SLEEP) => Op(regs') = SLEEP
        /\ e.reg # "OpMode" => regs'.OpMode = regs.OpMode
        /\ IF e.reg = "IrqFlags" THEN regs'.IrqFlags = 0 ELSE regs'.IrqFlags = regs.IrqFlags
    BY <1>1, <1>4, WriteEffect DEF Ops
  <2>4. /\ W("IrqFlags", 255).reg = "IrqFlags" /\ ToOp(SLEEP) # ToLora
        /\ ToOp(SLEEP).reg = "OpMode" /\ ToLora.reg = "OpMode"
    BY DEF W, ToOp, ToLora, Change
  <2> HIDE DEF e
  <2>5. ASSUME state \in Resting
        PROVE  e.reg = "OpMode" => e \in {ToOp(SLEEP), ToLora}
    BY <2>2, <2>5, <1>2 DEF IsMode
  <2>6. ASSUME state \in Resting
        PROVE  Op(regs') \in {SLEEP, Op(regs)}
    BY <2>3, <2>5, <2>6, SameMode
  <2>7. ASSUME state \in Resting
        PROVE  Op(regs') = SLEEP \/ ToOp(SLEEP) \in ToDo'
    BY <2>2, <2>3, <2>6, <2>7, <1>2
  <2>8. ASSUME state \in Resting
        PROVE  /\ \A i \in ToDo' : IsMode(i) => i \in {ToOp(SLEEP), ToLora}
               /\ state # "IDLE" => /\ Op(regs') \in {SLEEP, STANDBY}
                                    /\ regs'.IrqFlags = 0 \/ W("IrqFlags", 255) \in ToDo'
    BY <2>2, <2>3, <2>4, <2>6, <2>8, <1>2
  <2>9. QED
    BY <2>1, <2>7, <2>8, <1>3
<1>5. CASE BurstWrite \/ SetMapping \/ InputArm \/ InputClear \/ ReadFIFO
  <2>1. /\ regs'.IrqFlags = regs.IrqFlags /\ state' = state /\ Op(regs') = Op(regs)
    BY <1>1, <1>5, KeptRegisters
  <2>2. PICK what \in {"burst", "map", "arm", "clear", "collect"} : Doing(what)
    BY <1>1, <1>5, KeptRegisters
  <2>3. todo # <<>> /\ Head(todo).do = what /\ ToDo = {Head(todo)} \cup ToDo'
    BY <1>1, <2>2, NextStep
  <2>4. Head(todo) # ToOp(SLEEP) /\ Head(todo) # W("IrqFlags", 255)
    BY <2>2, <2>3 DEF ToOp, W, Change
  <2>5. QED
    BY <2>1, <2>3, <2>4, <1>2, <1>3
<1>6. CASE ResetLine
  <2>1. state \in Unreset /\ state' = state
    BY <1>1, <1>6, ResetEffect
  <2>2. QED
    BY <2>1, <1>3 DEF Unreset, Resting
<1>7. CASE ChipActs
  <2>1. /\ UNCHANGED <<state, todo>> /\ Op(regs) \in {TX, RX_SINGLE}
    BY <1>1, <1>7, EndEffect
  <2>2. SLEEP \notin {TX, RX_SINGLE} /\ STANDBY \notin {TX, RX_SINGLE}
    BY DEF SLEEP, STANDBY, TX, RX_SINGLE
  <2>3. ToDo' = ToDo
    BY <2>1 DEF ToDo
  <2>4. QED
    BY <2>1, <2>2, <2>3, <1>2, <1>3
<1>8. ASSUME NEW n \in {0, 1}, Interrupt(n)
      PROVE  RestInv'
  <2>1. UNCHANGED <<regs, state, todo>>
    BY <1>8 DEF Interrupt
  <2>2. ToDo' = ToDo
    BY <2>1 DEF ToDo
  <2>3. QED
    BY <2>1, <2>2, <1>2, <1>3
<1>9. CASE Calls
  <2>1. todo = <<>> /\ regs' = regs /\ ToDo = {}
    BY <1>1, <1>9, CallEffect, ResetSteps DEF ToDo
  <2>2. CASE HoldsReset \/ Releases \/ Listens \/ Starts
    <3>1. state' \notin Resting
      BY <2>2 DEF HoldsReset, Releases, Listens, Starts, Resting, Active
    <3>2. QED
      BY <3>1, <1>3
  <2>3. CASE Rests \/ Cancels
    <3>1. state' = "IDLE" /\ ToOp(SLEEP) \in ToDo' /\ ToDo' \subseteq {ToOp(SLEEP), ToLora}
      BY <2>3, SleepSteps DEF Rests, Cancels, ToDo
    <3>2. QED
      BY <3>1, <1>3
  <2>4. CASE Misses
    <3>1. state \in Resting /\ state # "IDLE" /\ ToDo' = {}
      BY <2>4, ResetSteps DEF Misses, Resting, ToDo
    <3>2. Op(regs) = SLEEP /\ regs.IrqFlags = 0
      BY <2>1, <3>1, <1>2
    <3>3. QED
      BY <2>1, <3>1, <3>2, <1>3
  <2>5. CASE Closes \/ Collects
    <3>1. /\ {ToOp(SLEEP), W("IrqFlags", 255)} \subseteq ToDo'
          /\ ToDo' \subseteq {Clear, Collect, W("IrqFlags", 255), W("IrqFlagsMask", 255), ToOp(SLEEP)}
      BY <2>5 DEF Closes, Collects
    <3>2. \A e \in ToDo' : IsMode(e) => e = ToOp(SLEEP)
      BY <3>1, KindsApart DEF IsMode, Collect, W, Change
    <3>3. inputs.state # {} /\ state \in Active
      BY <2>5 DEF Closes, Collects, Active
    <3>4. Op(regs) = STANDBY
      BY <2>1, <3>3, FoundOver DEF Over
    <3>5. QED
      BY <2>1, <3>1, <3>2, <3>4, <1>3
  <2>6. QED
    BY <1>1, <1>9, CallCases, <2>2, <2>3, <2>4, <2>5
<1>10. CASE Restart
  <2>1. state' = "INIT"
    BY <1>10 DEF Restart
  <2>2. QED
    BY <2>1, <1>3 DEF Resting
<1>11. QED
  BY <1>4, <1>5, <1>6, <1>7, <1>8, <1>9, <1>10 DEF Next, Step, Calls, ChipActs

-----------------------------------------------------------------------------
(* The frame. *)

\* What a call reads of the chip is what the chip holds.
LEMMA WhatIsRead ==
    ASSUME TypeInv, ReadFIFO, chip.fifo = "frame"
    PROVE  FrameCollected'
<1> DEFINE size == IF chip.len > MaxPacket THEN MaxPacket ELSE chip.len
           snr  == chip.signal.snr
<1>1. /\ chip' = chip
      /\ collected' = [data |-> IF size = 0 THEN "nothing" ELSE chip.fifo, size |-> size,
                       rssi |-> (chip.signal.rssi + 157) - 157, snr |-> ((snr % 256) * 100) \div 4]
  BY DEF ReadFIFO
<1>2. chip.signal.rssi \in Int /\ snr \in -128..127 /\ chip.len \in 0..255 /\ MaxPacket \in 0..255
  BY RadioAssumption DEF RadioAssumption, TypeInv, Chips, Byte
<1>3. size \in 0..255
  BY <1>2
<1> HIDE DEF size, snr
<1>4. (chip.signal.rssi + 157) - 157 = chip.signal.rssi
  BY <1>2
<1>5. snr >= 0 => ((snr % 256) * 100) \div 4 = 25 * snr
  BY <1>2, SMT
<1>6. /\ collected'.size = size /\ (size > 0 => collected'.data = "frame")
      /\ collected'.rssi = chip.signal.rssi /\ (snr >= 0 => collected'.snr = 25 * snr)
  <2>1. size > 0 => size # 0
    BY <1>3
  <2>2. QED
    BY <2>1, <1>1, <1>4, <1>5
<1>7. QED
  BY <1>1, <1>6 DEF FrameCollected, size, snr

LEMMA SameFrame ==
    ASSUME FrameCollected, collected' # Nothing => collected' = collected /\ chip'.len = chip.len /\ chip'.signal = chip.signal
    PROVE  FrameCollected'
BY DEF FrameCollected, Nothing

LEMMA CollectStep ==
    ASSUME IInv, Next
    PROVE  Collecting' /\ FrameCollected'
<1>1. TypeInv /\ LoraInv /\ LinesInv /\ RestInv /\ Collecting /\ FrameCollected
  BY DEF IInv
<1>2. ASSUME Collect \in ToDo
      PROVE  /\ state = "IDLE" /\ Op(regs) = STANDBY /\ chip.fifo = "frame" /\ ToLora \notin ToDo
             /\ Before(todo, {Collect}, ModeWrites)
  BY <1>1, <1>2 DEF Collecting
<1>3. ASSUME collected # Nothing
      PROVE  state = "IDLE" /\ Op(regs) \in {SLEEP, STANDBY} /\ (ToLora \in ToDo => Op(regs) = SLEEP)
  BY <1>1, <1>3 DEF Collecting
<1>4. ASSUME Collect \in ToDo' =>
               /\ state' = "IDLE" /\ Op(regs') = STANDBY /\ chip'.fifo = "frame" /\ ToLora \notin ToDo'
               /\ Before(todo', {Collect}, ModeWrites),
             collected' # Nothing =>
               state' = "IDLE" /\ Op(regs') \in {SLEEP, STANDBY} /\ (ToLora \in ToDo' => Op(regs') = SLEEP)
      PROVE  Collecting'
  BY <1>4 DEF Collecting
<1>5. CASE WriteRegister
  <2> DEFINE e == Head(todo)
  <2>1. Doing("write") /\ UNCHANGED <<state, collected>>
    BY <1>5 DEF WriteRegister
  <2>2. /\ todo # <<>> /\ e \in Steps /\ e.do = "write" /\ todo' = Tail(todo) /\ ToDo = {e} \cup ToDo'
        /\ e = todo[1] /\ Len(todo) \in Nat \ {0} /\ todo \in Seq(Steps)
    BY <1>1, <2>1, NextStep DEF TypeInv
  <2>3. /\ e = ToLora => Op(regs') = Op(regs)
        /\ e = ToOp(SLEEP) => Op(regs') = SLEEP
        /\ e.reg # "OpMode" => Op(regs') = Op(regs) /\ chip' = chip
    BY <1>1, <1>5, WriteEffect, SameMode DEF Ops
  <2>4. e.reg = "OpMode" => e \in ModeWrites
    BY <2>2, KindOfStep
  <2>5. Collect \in ToDo' => e.reg # "OpMode" /\ Before(todo', {Collect}, ModeWrites)
    <3>1. SUFFICES ASSUME Collect \in ToDo'
                   PROVE  e.reg # "OpMode" /\ Before(todo', {Collect}, ModeWrites)
      OBVIOUS
    <3>2. Before(todo, {Collect}, ModeWrites)
      BY <3>1, <2>2, <1>2
    <3>3. Before(todo', {Collect}, ModeWrites)
      BY <3>2, <2>2, BeforeTail
    <3>4. ASSUME e \in ModeWrites
          PROVE  FALSE
      <4>1. DOMAIN todo = 1..Len(todo)
        BY <2>2
      <4>2. PICK i \in 1..Len(todo) : todo[i] = Collect
        BY <4>1, <3>1, <2>2 DEF ToDo, ToSet
      <4>3. 1 \in 1..Len(todo) /\ todo[1] \in ModeWrites
        BY <3>4, <2>2
      <4>4. i < 1
        BY <4>2, <4>3, <3>2 DEF Before
      <4>5. QED
        BY <4>2, <4>4, <2>2
    <3>5. QED
      BY <3>3, <3>4, <2>4
  <2>6. collected # Nothing =>
          /\ Op(regs') \in {SLEEP, STANDBY} /\ (ToLora \in ToDo' => Op(regs') = SLEEP)
          /\ chip'.len = chip.len /\ chip'.signal = chip.signal
    <3>1. SUFFICES ASSUME collected # Nothing
                   PROVE  /\ Op(regs') \in {SLEEP, STANDBY} /\ (ToLora \in ToDo' => Op(regs') = SLEEP)
                          /\ chip'.len = chip.len /\ chip'.signal = chip.signal
      OBVIOUS
    <3>2. e.reg = "OpMode" => e \in {ToOp(SLEEP), ToLora}
      BY <3>1, <2>2, <1>1, <1>3 DEF RestInv, IsMode
    <3>3. Op(regs') \in {SLEEP, STANDBY} /\ (ToLora \in ToDo' => Op(regs') = SLEEP)
      BY <3>1, <3>2, <2>2, <2>3, <1>3
    <3>4. e = ToLora => Op(regs') = SLEEP
      BY <3>1, <2>2, <2>3, <1>3
    <3>5. e.reg # "OpMode" \/ Op(regs') = SLEEP
      BY <3>2, <3>4, <2>3
    <3>6. QED
      BY <3>3, <3>5, <1>1, <1>5, WriteChip
  <2>7. Collecting'
    BY <2>1, <2>2, <2>3, <2>5, <2>6, <1>2, <1>3, <1>4
  <2>8. FrameCollected'
    BY <2>1, <2>6, <1>1, SameFrame
  <2>9. QED
    BY <2>7, <2>8
<1>6. CASE BurstWrite \/ SetMapping \/ InputArm \/ InputClear \/ ReadFIFO
  <2>1. /\ state' = state /\ Op(regs') = Op(regs)
        /\ chip'.len = chip.len /\ chip'.signal = chip.signal
    BY <1>1, <1>6, KeptRegisters
  <2>2. PICK what \in {"burst", "map", "arm", "clear", "collect"} : Doing(what)
    BY <1>1, <1>6, KeptRegisters
  <2>3. /\ todo # <<>> /\ Head(todo) \in Steps /\ Head(todo).do = what /\ ToDo = {Head(todo)} \cup ToDo'
        /\ todo' = Tail(todo) /\ todo \in Seq(Steps)
    BY <1>1, <2>2, NextStep DEF TypeInv
  <2>4. Collect \in ToDo' => Before(todo', {Collect}, ModeWrites)
    BY <2>3, <1>2, BeforeTail
  <2>5. CASE ReadFIFO
    <3>1. Doing("collect") /\ chip' = chip
      BY <2>5 DEF ReadFIFO
    <3>2. Head(todo) = Collect
      BY ZenonT(60), <1>1, <2>3, <3>1, NextStep, KindOfStep
    <3>3. state = "IDLE" /\ Op(regs) = STANDBY /\ chip.fifo = "frame" /\ ToLora \notin ToDo
      BY <2>3, <3>2, <1>2
    <3>4. FrameCollected'
      BY <2>5, <3>3, <1>1, WhatIsRead
    <3>5. Collecting'
      BY <2>1, <2>3, <2>4, <3>1, <3>3, <1>4
    <3>6. QED
      BY <3>4, <3>5
  <2>6. CASE BurstWrite
    <3>1. Doing("burst") /\ collected' = collected
      BY <2>6 DEF BurstWrite
    <3>2. Head(todo).do = "burst"
      BY <1>1, <3>1, NextStep
    <3>3. state # "IDLE"
      BY <3>2, <2>3, <1>1 DEF LinesInv, Active
    <3>4. Collect \notin ToDo' /\ collected' = Nothing
      BY <3>1, <3>3, <2>3, <1>2, <1>3
    <3>5. QED
      BY <3>4, <1>4 DEF FrameCollected
  <2>7. CASE SetMapping \/ InputArm \/ InputClear
    <3>1. collected' = collected /\ chip' = chip
      BY <2>7 DEF SetMapping, InputArm, InputClear
    <3>2. Collecting'
      BY <2>1, <2>3, <2>4, <3>1, <1>2, <1>3, <1>4
    <3>3. FrameCollected'
      BY <3>1, <1>1, SameFrame
    <3>4. QED
      BY <3>2, <3>3
  <2>8. QED
    BY <1>6, <2>5, <2>6, <2>7
<1>7. CASE ResetLine \/ ChipActs
  <2>1. ToDo' \subseteq ToDo /\ collected' = collected /\ (state \in Unreset \/ Op(regs) \in {TX, RX_SINGLE})
    BY <1>1, <1>7, ResetEffect, EndEffect DEF ResetLine, ToDo
  <2>2. /\ SLEEP \notin {TX, RX_SINGLE} /\ STANDBY \notin {TX, RX_SINGLE}
        /\ "IDLE" \notin Unreset
    BY DEF SLEEP, STANDBY, TX, RX_SINGLE, Unreset
  <2>3. Collect \notin ToDo' /\ collected' = Nothing
    BY <2>1, <2>2, <1>2, <1>3
  <2>4. QED
    BY <2>3, <1>4 DEF FrameCollected
<1>8. ASSUME NEW n \in {0, 1}, Interrupt(n)
      PROVE  Collecting' /\ FrameCollected'
  <2>1. UNCHANGED <<regs, chip, state, todo, collected>>
    BY <1>8 DEF Interrupt
  <2>2. QED
    BY <2>1, <1>1 DEF Collecting, FrameCollected, ToDo
<1>9. CASE Calls
  <2>1. todo = <<>> /\ regs' = regs /\ chip' = chip /\ ToDo = {}
    BY <1>1, <1>9, CallEffect, ResetSteps DEF ToDo
  <2>2. collected' = collected \/ state' = "TX"
    BY <1>1, <1>9, CallCases
  <2>3. CASE Starts
    <3>1. Collect \notin ToDo'
      BY <2>3, PreparedSteps DEF Starts, ToDo
    <3>2. collected' = Nothing
      BY <2>2, <2>3, <1>3 DEF Starts
    <3>3. QED
      BY <3>1, <3>2, <1>4 DEF FrameCollected
  <2>4. CASE HoldsReset \/ Releases \/ Listens \/ Rests \/ Misses \/ Closes
    <3>1. state # "IDLE" /\ state' # "TX"
      BY <2>4 DEF HoldsReset, Releases, Listens, Rests, Misses, Closes, Active, Resting
    <3>2. collected' = Nothing
      BY <3>1, <2>2, <1>3
    <3>3. Collect \notin ToDo'
      <4>1. Collect \notin {Clear, Reset(TRUE), Reset(FALSE), W("IrqFlags", 255), W("IrqFlagsMask", 255), ToOp(SLEEP)}
        BY DEF Collect, Clear, Reset, W, ToOp, Change
      <4>2. HoldsReset \/ Releases => Collect \notin ToDo'
        BY <4>1 DEF HoldsReset, Releases
      <4>3. Rests \/ Closes => Collect \notin ToDo'
        BY <4>1 DEF Rests, Closes
      <4>4. Listens => Collect \notin ToDo'
        BY <1>1, EntropySteps DEF Listens, ToDo, Collect
      <4>5. Misses => Collect \notin ToDo'
        BY ResetSteps DEF Misses, ToDo
      <4>6. QED
        BY <2>4, <4>2, <4>3, <4>4, <4>5
    <3>4. QED
      BY <3>2, <3>3, <1>4 DEF FrameCollected
  <2>5. CASE Collects
    <3>1. state # "IDLE" /\ state' = "IDLE" /\ Before(todo', {Collect}, ModeWrites) /\ inputs.state = {"RX_READY"}
          /\ state \in Active
      BY <2>5 DEF Collects, Active
    <3>2. collected' = Nothing
      BY <3>1, <2>2, <1>3
    <3>3. Op(regs) = STANDBY /\ chip.fifo = "frame"
      BY <2>1, <3>1, FoundOver DEF Over
    <3>4. ToLora \notin ToDo'
      BY <2>5 DEF Collects, ToLora, ToOp, Change, W, Clear, Collect, SLEEP
    <3>5. QED
      BY <2>1, <3>1, <3>2, <3>3, <3>4, <1>4 DEF FrameCollected
  <2>6. CASE Cancels
    <3>1. state' = "IDLE" /\ Collect \notin ToDo'
      BY <2>6, SleepSteps DEF Cancels, ToDo, Collect, ToOp, ToLora, Change
    <3>2. collected' = collected
      BY <3>1, <2>2
    <3>3. collected # Nothing => Op(regs) = SLEEP
      BY <2>1, <1>1, <1>3 DEF RestInv
    <3>4. Collecting'
      BY <2>1, <3>1, <3>2, <3>3, <1>4
    <3>5. FrameCollected'
      BY <2>1, <3>2, <1>1, SameFrame
    <3>6. QED
      BY <3>4, <3>5
  <2>7. QED
    BY <1>1, <1>9, CallCases, <2>3, <2>4, <2>5, <2>6
<1>10. CASE Restart
  <2>1. collected' = Nothing /\ Collect \notin ToDo'
    BY <1>10, ResetSteps DEF Restart, ToDo
  <2>2. QED
    BY <2>1, <1>4 DEF FrameCollected
<1>11. QED
  BY <1>5, <1>6, <1>7, <1>8, <1>9, <1>10 DEF Next, Step, Calls, ChipActs

-----------------------------------------------------------------------------
(* An operation, from its call to its outcome. *)

\* The same of the lines after a step.
LEMMA DioNone ==
    ASSUME regs'.IrqFlags = 0
    PROVE  \A n \in {0, 1} : ~Dio(n)'
<1>1. \A f \in {0, RxDone, TxDone, RxTimeout} : And(0, f) = 0
  BY SMT DEF And, RxDone, TxDone, RxTimeout
<1>2. QED
  BY <1>1 DEF Dio

LEMMA DioSame ==
    ASSUME regs'.IrqFlags = regs.IrqFlags, regs'.DioMapping1 = regs.DioMapping1, chip'.held = chip.held
    PROVE  \A n \in {0, 1} : Dio(n)' <=> Dio(n)
BY DEF Dio, Mapping

LEMMA DioFlagsNext ==
    ASSUME regs'.DioMapping1 = 64
    PROVE  /\ Dio(0)' <=> ~chip'.held /\ And(regs'.IrqFlags, TxDone) # 0
           /\ Dio(1)' <=> ~chip'.held /\ And(regs'.IrqFlags, RxTimeout) # 0
<1>1. Mapping(regs', 0) = 1 /\ Mapping(regs', 1) = 0
  BY SMT DEF Mapping
<1>2. QED
  BY <1>1 DEF Dio

\* What is left of an operation's call keeps its order.
LEMMA PreparedTail ==
    ASSUME TypeInv, Prepare, todo # <<>>, todo' = Tail(todo), todo' # <<>>
    PROVE  /\ todo'[Len(todo')] = ToOp(Goal(state))
           /\ \A i \in 1..(Len(todo') - 1) : IsMode(todo'[i]) => todo'[i] = ToOp(STANDBY)
           /\ Before(todo', {ToOp(STANDBY)}, Bursts)
           /\ Clear \notin ToSet(Tail(todo')) /\ Clear \notin ToDo'
<1>1. /\ todo \in Seq(Steps) /\ todo' \in Seq(Steps)
      /\ Len(todo) \in Nat \ {0} /\ Len(todo') = Len(todo) - 1 /\ Len(todo') \in Nat \ {0}
      /\ \A i \in 1..Len(todo') : todo'[i] = todo[i + 1]
      /\ ToDo' = {Head(todo')} \cup ToSet(Tail(todo'))
  BY TailSteps DEF TypeInv, ToDo
<1>2. Len(todo') \in 1..Len(todo') /\ Len(todo') + 1 = Len(todo)
  BY <1>1
<1>3. todo'[Len(todo')] = ToOp(Goal(state))
  BY <1>1, <1>2 DEF Prepare
<1>4. ASSUME NEW i \in 1..(Len(todo') - 1), IsMode(todo'[i])
      PROVE  todo'[i] = ToOp(STANDBY)
  <2>1. i \in 1..Len(todo') /\ i + 1 \in 1..(Len(todo) - 1)
    BY <1>1
  <2>2. todo'[i] = todo[i + 1]
    BY <1>1, <2>1
  <2>3. QED
    BY <1>4, <2>1, <2>2 DEF Prepare
<1>5. Before(todo', {ToOp(STANDBY)}, Bursts)
  BY <1>1, BeforeTail DEF Prepare
<1>6. Clear \notin ToDo'
  BY DEF Prepare, ToDo
<1>7. QED
  BY <1>1, <1>3, <1>4, <1>5, <1>6

\* A step of the call that is not its last one leaves the operation prepared.
LEMMA WriteStep ==
    ASSUME IInv, state \in Active, WriteRegister
    PROVE  IF todo' = <<>> THEN Operate' ELSE Prepare'
<1> DEFINE e == Head(todo)
<1>1. TypeInv /\ LoraInv /\ LinesInv
  BY DEF IInv
<1>2. Doing("write") /\ UNCHANGED <<self, board, inputs, state>>
  BY DEF WriteRegister
<1>3. /\ todo # <<>> /\ e \in Steps /\ e.do = "write" /\ e = todo[1]
      /\ todo' = Tail(todo) /\ todo' \in Seq(Steps) /\ ToDo = {e} \cup ToDo'
      /\ Len(todo) \in Nat \ {0} /\ Len(todo') = Len(todo) - 1
      /\ \A i \in 1..Len(todo') : todo'[i] = todo[i + 1]
  BY <1>1, <1>2, NextStep
<1>4. Prepare
  BY <1>3 DEF IInv
<1>5. /\ e = ToLora => Op(regs') = Op(regs)
      /\ \A op \in Ops : e = ToOp(op) => Op(regs') = op
      /\ e.reg # "OpMode" => Op(regs') = Op(regs) /\ chip' = chip
      /\ IF e.reg = "IrqFlags" THEN regs'.IrqFlags = 0 ELSE regs'.IrqFlags = regs.IrqFlags
      /\ regs'.DioMapping1 = (IF e.reg = "DioMapping1" THEN e.value ELSE regs.DioMapping1)
      /\ regs'.IrqFlagsMask = (IF e.reg = "IrqFlagsMask" THEN e.value ELSE regs.IrqFlagsMask)
  BY <1>1, WriteEffect, SameMode
<1>6. IF todo' = <<>> THEN e.reg = "OpMode" => e = ToOp(Goal(state)) /\ ToDo = {ToOp(Goal(state))}
      ELSE e.reg = "OpMode" => e = ToOp(STANDBY)
  BY <1>1, <1>3, <1>4, GoalIsLast
<1>7. /\ Goal(state) \in {TX, RX_SINGLE} /\ Goal(state) \in Ops /\ STANDBY \in Ops
      /\ TX # SLEEP /\ RX_SINGLE # SLEEP
  BY DEF Goal, Ops, TX, RX_SINGLE, SLEEP
<1>8. CASE todo' = <<>>
  <2>1. e = ToOp(Goal(state)) /\ ToDo = {ToOp(Goal(state))}
    <3>1. \A s \in Seq(Steps) : s = <<>> => Len(s) = 0 /\ ToSet(s) = {}
      BY ResetSteps
    <3>2. Len(todo') = 0 /\ ToDo' = {}
      BY <1>3, <1>8, <3>1 DEF ToDo
    <3>3. \A n \in Nat : n - 1 = 0 => n = 1
      BY SMT
    <3>4. Len(todo) = 1
      BY <1>3, <3>2, <3>3
    <3>5. QED
      BY <1>3, <1>4, <3>2, <3>4 DEF Prepare
  <2>2. /\ Clear \notin ToDo /\ W("IrqFlags", 255) \notin ToDo /\ Map(Line(state)) \notin ToDo
        /\ W("DioMapping1", Line(state)) \notin ToDo /\ W("IrqFlagsMask", Mask(state)) \notin ToDo
        /\ \A input : Arm(input) \notin ToDo
        /\ e.reg = "OpMode"
    BY <2>1 DEF ToOp, Change, Clear, W, Map, Arm
  <2>3. /\ self.dio_mapping1 = Line(state) /\ regs.DioMapping1 = Line(state)
        /\ regs.IrqFlagsMask = Mask(state) /\ regs.IrqFlags = 0 /\ inputs.state = {}
        /\ inputs.armed \subseteq Waits(state) /\ \A input \in Waits(state) : input \in inputs.armed
    BY <1>4, <2>2 DEF Prepare
  <2>4. Op(regs') = Goal(state)
    BY <2>1, <1>5, <1>7
  <2>5. chip'.finished = "none"
    BY <1>1, <1>7, <2>2, <2>4, WriteChip
  <2>6. /\ regs'.IrqFlags = 0 /\ regs'.DioMapping1 = Line(state) /\ regs'.IrqFlagsMask = Mask(state)
    BY <2>2, <2>3, <1>5
  <2>7. ~board.polled => \A n \in {0, 1} : ~board.level[n]
    BY <1>2, <2>3, DioFlags DEF Doing, Served
  <2>8. inputs.armed = Waits(state)
    BY <2>3
  <2>9. Running'
    BY <1>2, <2>3, <2>4, <2>5, <2>6, <2>7 DEF Running
  <2>10. Operate'
    BY <1>2, <2>3, <2>6, <2>8, <2>9 DEF Operate
  <2>11. QED
    BY <1>8, <2>10
<1>9. CASE todo' # <<>>
  <2>1. e.reg = "OpMode" => e = ToOp(STANDBY)
    BY <1>6, <1>9
  <2>2. /\ e # Clear /\ (\A v : e # Map(v)) /\ \A input : e # Arm(input)
    BY <1>3 DEF Clear, Map, Arm
  <2>3. W("DioMapping1", Line(state)).reg = "DioMapping1" /\ W("IrqFlagsMask", Mask(state)).reg = "IrqFlagsMask"
        /\ W("IrqFlags", 255).reg = "IrqFlags" /\ ToOp(STANDBY).reg = "OpMode"
    BY DEF W, ToOp, Change
  <2>4. e \in ToDo /\ ToDo' \subseteq ToDo
    BY <1>3
  <2> HIDE DEF e
  <2>5. Op(regs') = STANDBY \/ (Op(regs') = SLEEP /\ ToOp(STANDBY) \in ToDo')
    BY <1>3, <1>4, <1>5, <1>7, <2>1 DEF Prepare
  <2>6. /\ todo'[Len(todo')] = ToOp(Goal(state))
        /\ \A i \in 1..(Len(todo') - 1) : IsMode(todo'[i]) => todo'[i] = ToOp(STANDBY)
        /\ Before(todo', {ToOp(STANDBY)}, Bursts)
        /\ Clear \notin ToSet(Tail(todo'))
    BY <1>3, <1>4, <1>9, <1>1, PreparedTail
  <2>7. \A n \in {0, 1} : Dio(n)' => board.level[n]
    <3>1. \A n \in {0, 1} : Dio(n) => board.level[n]
      BY <1>4 DEF Prepare
    <3>2. chip'.held = chip.held
      BY <1>1, WriteChip
    <3>3. CASE e.reg = "IrqFlags"
      BY <3>3, <1>5, DioNone
    <3>4. CASE e.reg \notin {"IrqFlags", "DioMapping1"}
      BY <3>1, <3>2, <3>4, <1>5, DioSame
    <3>5. CASE e.reg = "DioMapping1"
      <4>1. e.value = Line(state) /\ (regs.IrqFlags = 0 \/ state = "TX")
        BY <3>5, <2>4, <1>3, <1>4 DEF Prepare
      <4>2. regs'.IrqFlags = regs.IrqFlags /\ regs'.DioMapping1 = Line(state)
        BY <3>5, <4>1, <1>5
      <4>3. CASE regs.IrqFlags = 0
        BY <4>2, <4>3, DioNone
      <4>4. CASE state = "TX" /\ regs.DioMapping1 = 64
        BY <4>2, <4>4, <3>1, <3>2, DioSame DEF Line
      <4>5. CASE state = "TX" /\ regs.DioMapping1 # 64
        <5>1. And(regs.IrqFlags, TxDone) = 0 /\ regs.DioMapping1 = 0
          BY <4>5, <1>1 DEF LinesInv, TypeInv
        <5>2. Dio(1)' => Dio(1)
          BY <4>2, <4>5, <5>1, <3>2, DioFlags, DioFlagsNext DEF Line
        <5>3. ~Dio(0)'
          BY <4>2, <4>5, <5>1, DioFlagsNext DEF Line
        <5>4. QED
          BY <5>2, <5>3, <3>1
      <4>6. QED
        BY <4>1, <4>3, <4>4, <4>5
    <3>6. QED
      BY <3>3, <3>4, <3>5
  <2>8. Clear \notin ToDo /\ inputs.state = {} /\ inputs.armed \subseteq Waits(state)
    BY <1>3, <1>4, <2>2 DEF Prepare, ToDo
  <2>9. \A input \in Waits(state) : Arm(input) \in ToDo' \/ (Clear \notin ToDo' /\ input \in inputs.armed)
    BY <1>3, <1>4, <2>2, <2>4 DEF Prepare
  <2>10. \A i \in ToDo' : /\ i.do = "arm" => i.input \in Waits(state)
                          /\ i.do = "map" => i.value = Line(state)
                          /\ i.do # "collect"
                          /\ i.do = "write" /\ i.reg = "DioMapping1"  => i.value = Line(state)
                          /\ i.do = "write" /\ i.reg = "IrqFlagsMask" => i.value = Mask(state)
    BY <1>4, <2>4 DEF Prepare
  <2>11. self.dio_mapping1 = Line(state) \/ Map(Line(state)) \in ToDo'
    BY <1>3, <1>4, <2>2 DEF Prepare
  <2>12. regs'.DioMapping1 = Line(state) \/ W("DioMapping1", Line(state)) \in ToDo'
    BY <1>3, <1>4, <1>5, <2>3, <2>4 DEF Prepare
  <2>13. regs'.IrqFlagsMask = Mask(state) \/ W("IrqFlagsMask", Mask(state)) \in ToDo'
    BY <1>3, <1>4, <1>5, <2>3, <2>4 DEF Prepare
  <2>14. regs'.IrqFlags = 0 \/ (state = "TX" /\ W("IrqFlags", 255) \in ToDo')
    BY <1>3, <1>4, <1>5, <2>3, <2>4 DEF Prepare
  <2>15. Prepare'
    BY <1>2, <2>5, <2>6, <2>7, <2>8, <2>9, <2>10, <2>11, <2>12, <2>13, <2>14, <2>4 DEF Prepare
  <2>16. QED
    BY <1>9, <2>15
<1>10. QED
  BY <1>8, <1>9

\* Steps that write no register leave the operation prepared.
LEMMA OtherStep ==
    ASSUME IInv, state \in Active, BurstWrite \/ SetMapping \/ InputArm \/ InputClear \/ ReadFIFO
    PROVE  todo' # <<>> /\ Prepare'
<1> DEFINE e == Head(todo)
<1>1. TypeInv /\ LoraInv /\ LinesInv
  BY DEF IInv
<1>2. /\ regs'.IrqFlags = regs.IrqFlags /\ regs'.DioMapping1 = regs.DioMapping1
      /\ regs'.IrqFlagsMask = regs.IrqFlagsMask /\ UNCHANGED <<state, board>>
      /\ chip'.held = chip.held /\ Op(regs') = Op(regs)
  BY <1>1, KeptRegisters
<1>3. PICK what \in {"burst", "map", "arm", "clear", "collect"} : Doing(what)
  BY <1>1, KeptRegisters
<1>4. /\ todo # <<>> /\ e \in Steps /\ e.do = what /\ e = todo[1]
      /\ todo' = Tail(todo) /\ todo' \in Seq(Steps) /\ ToDo = {e} \cup ToDo'
      /\ Len(todo) \in Nat \ {0} /\ Len(todo') = Len(todo) - 1
  BY <1>1, <1>3, NextStep
<1>5. Prepare
  BY <1>4 DEF IInv
<1>6. todo' # <<>>
  <2>1. SUFFICES ASSUME todo' = <<>> PROVE FALSE
    OBVIOUS
  <2>2. Len(todo') = 0
    BY <2>1
  <2>3. \A n \in Nat : n - 1 = 0 => n = 1
    BY SMT
  <2>4. Len(todo) = 1
    BY <1>4, <2>2, <2>3
  <2>5. e = ToOp(Goal(state))
    BY <1>4, <1>5, <2>4 DEF Prepare
  <2>6. QED
    BY <1>3, <1>4, <2>5 DEF ToOp, Change
<1>7. /\ todo'[Len(todo')] = ToOp(Goal(state))
      /\ \A i \in 1..(Len(todo') - 1) : IsMode(todo'[i]) => todo'[i] = ToOp(STANDBY)
      /\ Before(todo', {ToOp(STANDBY)}, Bursts)
      /\ Clear \notin ToSet(Tail(todo')) /\ Clear \notin ToDo'
  BY <1>1, <1>4, <1>5, <1>6, PreparedTail
<1>8. \A op, v : e # ToOp(op) /\ e # W("DioMapping1", v) /\ e # W("IrqFlagsMask", v) /\ e # W("IrqFlags", v)
  BY <1>3, <1>4 DEF ToOp, W, Change
<1>9. /\ Op(regs') = STANDBY \/ (Op(regs') = SLEEP /\ ToOp(STANDBY) \in ToDo')
      /\ regs'.DioMapping1 = Line(state) \/ W("DioMapping1", Line(state)) \in ToDo'
      /\ regs'.IrqFlagsMask = Mask(state) \/ W("IrqFlagsMask", Mask(state)) \in ToDo'
      /\ regs'.IrqFlags = 0 \/ (state = "TX" /\ W("IrqFlags", 255) \in ToDo')
  <2>1. \A x \in {ToOp(STANDBY), W("DioMapping1", Line(state)), W("IrqFlagsMask", Mask(state)), W("IrqFlags", 255)} :
          x \in ToDo => x \in ToDo'
    BY <1>4, <1>8
  <2>2. /\ Op(regs) = STANDBY \/ (Op(regs) = SLEEP /\ ToOp(STANDBY) \in ToDo)
        /\ regs.DioMapping1 = Line(state) \/ W("DioMapping1", Line(state)) \in ToDo
        /\ regs.IrqFlagsMask = Mask(state) \/ W("IrqFlagsMask", Mask(state)) \in ToDo
        /\ regs.IrqFlags = 0 \/ (state = "TX" /\ W("IrqFlags", 255) \in ToDo)
    BY <1>5 DEF Prepare
  <2>3. QED
    BY <1>2, <2>1, <2>2
<1>10. \A n \in {0, 1} : Dio(n)' => board.level[n]
  BY <1>2, <1>5, DioSame DEF Prepare
<1>11. \A i \in ToDo' : /\ i.do = "arm" => i.input \in Waits(state)
                        /\ i.do = "map" => i.value = Line(state)
                        /\ i.do # "collect"
                        /\ i.do = "write" /\ i.reg = "DioMapping1"  => i.value = Line(state)
                        /\ i.do = "write" /\ i.reg = "IrqFlagsMask" => i.value = Mask(state)
  BY <1>4, <1>5 DEF Prepare
<1>12. /\ e.do = "arm" => e.input \in Waits(state)
       /\ e.do = "map" => e.value = Line(state)
       /\ e.do # "collect"
  BY <1>4, <1>5 DEF Prepare
<1>13. self'.dio_mapping1 = Line(state) \/ Map(Line(state)) \in ToDo'
  <2>1. CASE SetMapping
    <3>1. Doing("map") /\ self' = [self EXCEPT !.dio_mapping1 = e.value]
      BY <2>1 DEF SetMapping
    <3>2. e.do = "map"
      BY <1>1, <3>1, NextStep
    <3>3. self'.dio_mapping1 = Line(state)
      BY <3>1, <3>2, <1>1, <1>12 DEF TypeInv, Drivers
    <3>4. QED
      BY <3>3
  <2>2. CASE BurstWrite \/ InputArm \/ InputClear \/ ReadFIFO
    <3>1. self' = self /\ \E x \in {"burst", "arm", "clear", "collect"} : Doing(x)
      BY <2>2 DEF BurstWrite, InputArm, InputClear, ReadFIFO
    <3>2. e.do # "map"
      BY <1>1, <3>1, NextStep
    <3>3. e # Map(Line(state))
      BY <3>2 DEF Map
    <3>4. QED
      BY <3>1, <3>3, <1>4, <1>5 DEF Prepare
  <2>3. QED
    BY <2>1, <2>2
<1>14. /\ inputs'.state = {} /\ inputs'.armed \subseteq Waits(state)
       /\ \A input \in Waits(state) : Arm(input) \in ToDo' \/ input \in inputs'.armed
  <2>1. CASE InputClear
    <3>1. Doing("clear") /\ inputs' = [armed |-> {}, state |-> {}]
      BY <2>1 DEF InputClear
    <3>2. e.do = "clear"
      BY <1>1, <3>1, NextStep
    <3>3. e = Clear
      BY <3>2, <1>4, KindOfStep
    <3>4. Clear \in ToDo /\ \A input : e # Arm(input)
      BY <3>2, <3>3, <1>4 DEF Arm
    <3>5. \A input \in Waits(state) : Arm(input) \in ToDo'
      BY <3>4, <1>4, <1>5 DEF Prepare
    <3>6. QED
      BY <3>1, <3>5
  <2>2. CASE InputArm
    <3>1. Doing("arm") /\ inputs' = [inputs EXCEPT !.armed = @ \cup {e.input}]
      BY <2>2 DEF InputArm
    <3>2. e.do = "arm"
      BY <1>1, <3>1, NextStep
    <3>3. e.input \in Waits(state) /\ e = Arm(e.input) /\ e # Clear
      <4>1. e = Arm(e.input)
        BY <3>2, <1>4, KindOfStep
      <4>2. e # Clear
        BY <3>2 DEF Clear
      <4>3. QED
        BY <3>2, <4>1, <4>2, <1>12
    <3>4. Clear \notin ToDo
      BY <3>3, <1>4, <1>7
    <3>5. /\ inputs.state = {} /\ inputs.armed \subseteq Waits(state)
          /\ \A input \in Waits(state) : Arm(input) \in ToDo \/ input \in inputs.armed
      BY <3>4, <1>5 DEF Prepare
    <3>6. inputs'.armed = inputs.armed \cup {e.input} /\ inputs'.state = inputs.state
      BY <3>1, <1>1 DEF TypeInv, Inputs
    <3>7. \A input : e = Arm(input) => input = e.input
      BY DEF Arm
    <3>8. QED
      BY <3>3, <3>5, <3>6, <3>7, <1>4
  <2>3. CASE BurstWrite \/ SetMapping \/ ReadFIFO
    <3>1. inputs' = inputs /\ \E x \in {"burst", "map", "collect"} : Doing(x)
      BY <2>3 DEF BurstWrite, SetMapping, ReadFIFO
    <3>2. e.do \in {"burst", "map", "collect"}
      BY <1>1, <3>1, NextStep
    <3>3. e # Clear /\ \A input : e # Arm(input)
      BY <3>2 DEF Clear, Arm
    <3>4. Clear \notin ToDo
      BY <3>3, <1>4, <1>7
    <3>5. QED
      BY <3>1, <3>3, <3>4, <1>4, <1>5 DEF Prepare
  <2>4. QED
    BY <2>1, <2>2, <2>3
<1>15. Prepare'
  BY <1>2, <1>7, <1>9, <1>10, <1>11, <1>13, <1>14 DEF Prepare
<1>16. QED
  BY <1>6, <1>15

\* What the lines say when an operation is over.
LEMMA LinesOver ==
    ASSUME TypeInv, state \in Active, Over, ~chip.held, regs.DioMapping1 = Line(state)
    PROVE  /\ LineOf[chip.finished] \in {0, 1} /\ Dio(LineOf[chip.finished]) /\ ~Dio(1 - LineOf[chip.finished])
           /\ self.dio_mapping1 = Line(state) => Signal(LineOf[chip.finished]) = {Outcome[chip.finished]}
           /\ Outcome[chip.finished] \in Waits(state)
<1>1. chip.finished \in Ends(state) /\ regs.IrqFlags = FlagOf[chip.finished]
  BY DEF Over
<1>2. /\ And(8, 8) # 0 /\ And(8, 128) = 0 /\ And(64, 64) # 0 /\ And(64, 128) = 0 /\ And(128, 128) # 0 /\ And(128, 64) = 0
  BY SMT DEF And
<1>3. CASE state = "TX"
  <2>1. chip.finished = "sent" /\ regs.IrqFlags = 8 /\ regs.DioMapping1 = 64 /\ LineOf[chip.finished] = 0
    BY <1>1, <1>3 DEF Ends, FlagOf, LineOf, Line, TxDone
  <2>2. Dio(0) /\ ~Dio(1)
    BY <1>2, <2>1, DioFlags DEF TxDone, RxTimeout
  <2>3. self.dio_mapping1 = 64 => Signal(0) = {"TX_COMPLETE"}
    BY DEF Signal
  <2>4. Outcome[chip.finished] = "TX_COMPLETE" /\ 1 - 0 = 1
    BY <2>1 DEF Outcome
  <2>5. QED
    BY <1>3, <2>1, <2>2, <2>3, <2>4 DEF Line, Waits
<1>4. CASE state # "TX" /\ chip.finished = "received"
  <2>1. regs.IrqFlags = 64 /\ regs.DioMapping1 = 0 /\ LineOf[chip.finished] = 0
    BY <1>1, <1>4 DEF FlagOf, LineOf, Line, RxDone
  <2>2. Dio(0) /\ ~Dio(1)
    BY <1>2, <2>1, DioFlags DEF RxDone, RxTimeout
  <2>3. self.dio_mapping1 = 0 => Signal(0) = {"RX_READY"}
    BY DEF Signal
  <2>4. Outcome[chip.finished] = "RX_READY" /\ 1 - 0 = 1
    BY <1>4 DEF Outcome
  <2>5. QED
    BY <1>4, <2>1, <2>2, <2>3, <2>4 DEF Line, Waits
<1>5. CASE state # "TX" /\ chip.finished = "timeout"
  <2>1. regs.IrqFlags = 128 /\ regs.DioMapping1 = 0 /\ LineOf[chip.finished] = 1
    BY <1>1, <1>5 DEF FlagOf, LineOf, Line, RxTimeout
  <2>2. Dio(1) /\ ~Dio(0)
    BY <1>2, <2>1, DioFlags DEF RxDone, RxTimeout
  <2>3. self.dio_mapping1 = 0 => Signal(1) = {"RX_TIMEOUT"}
    BY DEF Signal
  <2>4. Outcome[chip.finished] = "RX_TIMEOUT" /\ 1 - 1 = 0
    BY <1>5 DEF Outcome
  <2>5. QED
    BY <1>5, <2>1, <2>2, <2>3, <2>4 DEF Line, Waits
<1>6. QED
  BY <1>1, <1>3, <1>4, <1>5 DEF Ends

\* The chip ends the operation that runs, and no other.
LEMMA EndStep ==
    ASSUME IInv, state \in Active, ChipActs
    PROVE  todo = <<>> /\ Operate'
<1>1. TypeInv /\ LinesInv
  BY DEF IInv
<1>2. /\ UNCHANGED <<self, board, inputs, state, todo>>
      /\ Op(regs') = STANDBY /\ regs'.DioMapping1 = regs.DioMapping1 /\ regs'.IrqFlagsMask = regs.IrqFlagsMask
      /\ chip'.finished \in {"sent", "received", "timeout"}
      /\ Op(regs) = (IF chip'.finished = "sent" THEN TX ELSE RX_SINGLE)
      /\ regs'.IrqFlags = Raised(FlagOf[chip'.finished])
      /\ chip'.finished = "received" => chip'.fifo = "frame"
  BY <1>1, EndEffect
<1>3. STANDBY \notin {TX, RX_SINGLE} /\ SLEEP \notin {TX, RX_SINGLE} /\ TX # RX_SINGLE
  BY DEF STANDBY, SLEEP, TX, RX_SINGLE
<1>4. todo = <<>>
  <2>1. todo # <<>> => Op(regs) \in {STANDBY, SLEEP}
    BY DEF IInv, Prepare
  <2>2. QED
    BY <2>1, <1>2, <1>3
<1>5. Operate
  BY <1>4 DEF IInv
<1>6. Running
  BY <1>2, <1>3, <1>5 DEF Operate, Over
<1>7. chip'.finished \in Ends(state)
  BY <1>2, <1>3, <1>6 DEF Running, Goal, Ends, Active
<1>8. Raised(FlagOf[chip'.finished]) = FlagOf[chip'.finished]
  <2>1. regs.IrqFlagsMask = Mask(state) /\ regs.IrqFlags = 0
    BY <1>5, <1>6 DEF Operate, Running
  <2>2. And(247, 8) = 0 /\ And(63, 64) = 0 /\ And(63, 128) = 0
    BY SMT DEF And
  <2>3. Or(0, 8) = 8 /\ Or(0, 64) = 64 /\ Or(0, 128) = 128
    BY SMT DEF Or
  <2>4. CASE state = "TX"
    <3>1. FlagOf[chip'.finished] = 8 /\ Mask(state) = 247
      BY <2>4, <1>7 DEF Ends, FlagOf, Mask, TxDone
    <3>2. QED
      BY <3>1, <2>1, <2>2, <2>3 DEF Raised
  <2>5. CASE state # "TX"
    <3>1. FlagOf[chip'.finished] \in {64, 128} /\ Mask(state) = 63
      BY <2>5, <1>7 DEF Ends, FlagOf, Mask, RxDone, RxTimeout
    <3>2. QED
      BY <3>1, <2>1, <2>2, <2>3 DEF Raised
  <2>6. QED
    BY <2>4, <2>5
<1>9. \A n \in {0, 1} : ~board.level[n]
  <2>1. CASE board.polled
    <3>1. Served
      BY <2>1 DEF ChipActs, Sent, Received, TimedOut, Finish
    <3>2. ~Dio(0) /\ ~Dio(1)
      BY <1>6, DioFlags DEF Running
    <3>3. QED
      BY <3>1, <3>2 DEF Served
  <2>2. CASE ~board.polled
    BY <2>2, <1>6 DEF Running
  <2>3. QED
    BY <2>1, <2>2
<1>10. LineOf[chip'.finished] \in {0, 1} /\ 1 - LineOf[chip'.finished] \in {0, 1}
  BY <1>2 DEF LineOf
<1>11. Over'
  BY <1>2, <1>6, <1>7, <1>8, <1>9, <1>10 DEF Over, Running
<1>12. Operate'
  BY <1>2, <1>5, <1>11 DEF Operate
<1>13. QED
  BY <1>4, <1>12

\* An interrupt latches the outcome once the operation is over, and nothing before.
LEMMA InterruptStep ==
    ASSUME IInv, state \in Active, NEW n \in {0, 1}, Interrupt(n)
    PROVE  IF todo = <<>> THEN Operate' ELSE Prepare'
<1>1. TypeInv /\ LinesInv
  BY DEF IInv
<1>2. /\ board.level[n] # Dio(n)
      /\ board' = [board EXCEPT !.level[n] = Dio(n)]
      /\ inputs' = IF Dio(n) /\ inputs.state = {}
                   THEN [inputs EXCEPT !.state = Signal(n) \cap inputs.armed] ELSE inputs
      /\ UNCHANGED <<self, regs, chip, state, todo>>
  BY DEF Interrupt
<1>3. /\ board.level \in [{0, 1} -> BOOLEAN] /\ board'.polled = board.polled
      /\ board'.level[n] = Dio(n) /\ \A m \in {0, 1} : m # n => board'.level[m] = board.level[m]
      /\ Dio(n) \in BOOLEAN
  BY <1>1, <1>2 DEF TypeInv, Boards, Level, Dio
<1>4. \A m \in {0, 1} : Dio(m)' <=> Dio(m)
  BY <1>2, DioSame
<1>5. CASE todo # <<>>
  <2>1. Prepare
    BY <1>5 DEF IInv
  <2>2. ~Dio(n)
    BY <2>1, <1>2, <1>3 DEF Prepare
  <2>3. inputs' = inputs
    BY <2>2, <1>2
  <2>4. \A m \in {0, 1} : Dio(m)' => board'.level[m]
    BY <2>1, <2>2, <1>3, <1>4 DEF Prepare
  <2>5. ToDo' = ToDo
    BY <1>2 DEF ToDo
  <2>6. Prepare'
    BY <2>1, <2>3, <2>4, <2>5, <1>2 DEF Prepare
  <2>7. QED
    BY <1>5, <2>6
<1>6. CASE todo = <<>> /\ Running
  <2>1. Operate
    BY <1>6 DEF IInv
  <2>2. ~Dio(0) /\ ~Dio(1)
    BY <1>6, DioFlags DEF Running
  <2>3. inputs' = inputs
    BY <2>2, <1>2
  <2>4. ~board'.polled => \A m \in {0, 1} : ~board'.level[m]
    BY <2>2, <1>3, <1>6 DEF Running
  <2>5. Running'
    BY <2>3, <2>4, <1>2, <1>6 DEF Running
  <2>6. Operate'
    BY <2>1, <2>3, <2>5, <1>2 DEF Operate
  <2>7. QED
    BY <1>6, <2>6
<1>7. CASE todo = <<>> /\ Over
  <2>1. /\ self.dio_mapping1 = Line(state) /\ regs.DioMapping1 = Line(state) /\ inputs.armed = Waits(state)
        /\ regs.IrqFlagsMask = Mask(state)
    BY <1>7 DEF IInv, Operate
  <2>2. ~chip.held
    BY <1>1 DEF LinesInv, Active
  <2> DEFINE l == LineOf[chip.finished]
  <2>3. /\ l \in {0, 1} /\ Dio(l) /\ ~Dio(1 - l)
        /\ Signal(l) = {Outcome[chip.finished]} /\ Outcome[chip.finished] \in Waits(state)
    BY <2>1, <2>2, <1>1, <1>7, LinesOver
  <2>4. ~board.level[1 - l] /\ inputs.state = IF board.level[l] THEN {Outcome[chip.finished]} ELSE {}
    BY <1>7 DEF Over
  <2> HIDE DEF l
  <2>5. n = l
    <3>1. 1 - l \in {0, 1} /\ (n # l => n = 1 - l)
      BY <2>3
    <3>2. QED
      BY <3>1, <2>3, <2>4, <1>2, <1>3
  <2>6. ~board.level[l] /\ inputs.state = {}
    BY <2>3, <2>4, <2>5, <1>2, <1>3
  <2>7. inputs' = [inputs EXCEPT !.state = {Outcome[chip.finished]}]
    <3>1. Signal(n) \cap inputs.armed = {Outcome[chip.finished]}
      BY <2>1, <2>3, <2>5
    <3>2. QED
      BY <3>1, <2>3, <2>5, <2>6, <1>2
  <2>8. inputs'.state = {Outcome[chip.finished]} /\ inputs'.armed = inputs.armed
    BY <2>7, <1>1 DEF TypeInv, Inputs
  <2>9. board'.level[l] /\ ~board'.level[1 - l]
    <3>1. 1 - l \in {0, 1} /\ 1 - l # l
      BY <2>3
    <3>2. QED
      BY <3>1, <2>3, <2>4, <2>5, <1>3
  <2>10. Over'
    BY <2>8, <2>9, <1>2, <1>7 DEF Over, l
  <2>11. Operate'
    BY <2>1, <2>8, <2>10, <1>2 DEF Operate
  <2>12. QED
    BY <1>7, <2>11
<1>8. QED
  BY <1>5, <1>6, <1>7 DEF IInv, Operate

\* A call that starts an operation finds the chip asleep and prepares it.
LEMMA StartStep ==
    ASSUME IInv, Calls, Starts
    PROVE  todo' # <<>> /\ Prepare'
<1>1. TypeInv /\ LinesInv /\ RestInv
  BY DEF IInv
<1>2. todo = <<>> /\ Served /\ UNCHANGED <<self, regs, chip, board, inputs>> /\ ToDo = {}
  BY <1>1, CallEffect, ResetSteps DEF ToDo
<1>3. /\ state \in Resting /\ state' \in Active /\ Prepares(todo', state')
      /\ state # "IDLE" => state' \in {"RX1", "RX2"}
      /\ state = "IDLE" => state' = "TX"
  BY DEF Starts
<1>4. Op(regs) = SLEEP /\ (state # "IDLE" => regs.IrqFlags = 0)
  BY <1>1, <1>2, <1>3 DEF RestInv, Resting
<1>5. /\ todo' # <<>>
      /\ todo'[Len(todo')] = ToOp(Goal(state'))
      /\ \A i \in 1..(Len(todo') - 1) : IsMode(todo'[i]) => todo'[i] = ToOp(STANDBY)
      /\ Before(todo', {ToOp(STANDBY)}, Bursts)
      /\ Clear \notin ToSet(Tail(todo'))
      /\ {Clear, ToOp(STANDBY), Map(Line(state')), W("DioMapping1", Line(state')), W("IrqFlags", 255),
          W("IrqFlagsMask", Mask(state'))} \cup Arms(state') \subseteq ToDo'
  BY <1>3 DEF Prepares, ToDo
<1>6. \A n \in {0, 1} : Dio(n)' => board'.level[n]
  BY <1>2, DioSame DEF Served
<1>7. \A input \in Waits(state') : Arm(input) \in ToDo'
  BY <1>5 DEF Arms
<1>8. \A e \in ToDo' : /\ e.do = "arm" => e.input \in Waits(state')
                       /\ e.do = "map" => e.value = Line(state')
                       /\ e.do # "collect"
                       /\ e.do = "write" /\ e.reg = "DioMapping1"  => e.value = Line(state')
                       /\ e.do = "write" /\ e.reg = "IrqFlagsMask" => e.value = Mask(state')
  BY <1>3, PreparedSteps DEF ToDo
<1>9. regs'.IrqFlags = 0 \/ (state' = "TX" /\ W("IrqFlags", 255) \in ToDo')
  BY <1>2, <1>3, <1>4, <1>5
<1>10. Op(regs') = SLEEP
  BY <1>2, <1>4
<1>11. Prepare'
  BY <1>5, <1>6, <1>7, <1>8, <1>9, <1>10 DEF Prepare
<1>12. QED
  BY <1>5, <1>11

-----------------------------------------------------------------------------
(* The invariant. *)

LEMMA OperateStep ==
    ASSUME IInv, Next, state' \in Active
    PROVE  IF todo' = <<>> THEN Operate' ELSE Prepare'
<1>1. TypeInv /\ LoraInv
  BY DEF IInv
<1>2. CASE Calls
  <2>1. Starts
    BY <1>1, <1>2, CallCases
      DEF HoldsReset, Releases, Listens, Rests, Misses, Closes, Collects, Cancels, Active, Resting
  <2>2. QED
    BY <1>2, <2>1, StartStep
<1>3. CASE Restart
  BY <1>3 DEF Restart, Active
<1>4. CASE WriteRegister
  <2>1. state' = state
    BY <1>4 DEF WriteRegister
  <2>2. QED
    BY <1>4, <2>1, WriteStep
<1>5. CASE BurstWrite \/ SetMapping \/ InputArm \/ InputClear \/ ReadFIFO
  <2>1. state' = state
    BY <1>1, <1>5, KeptRegisters
  <2>2. QED
    BY <1>5, <2>1, OtherStep
<1>6. CASE ResetLine
  BY <1>1, <1>6, ResetEffect DEF Unreset, Active
<1>7. CASE ChipActs
  <2>1. UNCHANGED <<state, todo>>
    BY <1>1, <1>7, EndEffect
  <2>2. QED
    BY <1>7, <2>1, EndStep
<1>8. ASSUME NEW n \in {0, 1}, Interrupt(n)
      PROVE  IF todo' = <<>> THEN Operate' ELSE Prepare'
  <2>1. UNCHANGED <<state, todo>>
    BY <1>8 DEF Interrupt
  <2>2. QED
    BY <1>8, <2>1, InterruptStep
<1>9. QED
  BY <1>2, <1>3, <1>4, <1>5, <1>6, <1>7, <1>8 DEF Next, Step, Calls, ChipActs

LEMMA InitInv ==
    ASSUME Init
    PROVE  IInv
<1>1. PICK b \in Builds :
        /\ self = [type |-> b.type, pa |-> b.pa, dio_mapping1 |-> 0]
        /\ board = [polled |-> b.polled, level |-> [n \in {0, 1} |-> FALSE]]
  BY DEF Init
<1>2. b \in [type : {"SX1272", "SX1276"}, pa : {"RFO", "BOOST"}, polled : BOOLEAN]
  BY RadioAssumption DEF RadioAssumption
<1>3. /\ regs = Defaults /\ state = "INIT" /\ todo = <<>> /\ collected = Nothing
      /\ inputs = [armed |-> {}, state |-> {}]
      /\ chip = [held |-> FALSE, finished |-> "none", fifo |-> "nothing", len |-> 0, signal |-> [rssi |-> 0, snr |-> 0]]
  BY DEF Init
<1>4. self \in Drivers /\ board \in Boards /\ inputs \in Inputs
  BY <1>1, <1>2, <1>3 DEF Drivers, Boards, Inputs, Level
<1>5. chip \in Chips /\ ~chip.held
  <2>1. 0 \in Byte /\ [rssi |-> 0, snr |-> 0] \in [rssi : Int, snr : -128..127]
    BY SMT DEF Byte
  <2>2. QED
    BY <2>1, <1>3 DEF Chips
<1>6. regs \in [Registers -> Byte] /\ regs.DioMapping1 = 0 /\ regs.IrqFlags = 0 /\ regs.OpMode = 9
  BY <1>3, Names DEF Defaults
<1>7. todo \in Seq(Steps) /\ ToDo = {} /\ state \in States
  BY <1>3, ResetSteps DEF States, ToDo
<1>8. TypeInv
  BY <1>4, <1>5, <1>6, <1>7 DEF TypeInv
<1>9. Op(regs) = STANDBY /\ STANDBY \notin {TX, RX_SINGLE, RX_CONTINUOUS} /\ And(0, TxDone) = 0
  BY <1>6, SMT DEF Op, STANDBY, TX, RX_SINGLE, RX_CONTINUOUS, And, TxDone
<1>10. LoraInv /\ LinesInv
  BY <1>3, <1>5, <1>6, <1>7, <1>9 DEF LoraInv, LinesInv, Unreset
<1>11. RestInv /\ Collecting /\ FrameCollected /\ state \notin Active
  BY <1>3, <1>7 DEF RestInv, Collecting, FrameCollected, Active
<1>12. QED
  BY <1>8, <1>10, <1>11 DEF IInv

LEMMA Inductive ==
    ASSUME IInv, [Next]_vars
    PROVE  IInv'
<1>1. CASE Next
  <2>1. TypeInv /\ LoraInv
    BY DEF IInv
  <2>2. TypeInv' /\ LoraInv'
    BY <1>1, <2>1, TypeStep, LoraStep
  <2>3. LinesInv' /\ RestInv'
    BY <1>1, LinesStep, RestStep
  <2>4. Collecting' /\ FrameCollected'
    BY <1>1, CollectStep
  <2>5. state' \in Active => IF todo' = <<>> THEN Operate' ELSE Prepare'
    BY <1>1, OperateStep
  <2>6. QED
    BY <2>2, <2>3, <2>4, <2>5 DEF IInv
<1>2. CASE UNCHANGED vars
  <2>1. UNCHANGED <<self, regs, chip, board, inputs, state, todo, collected>>
    BY <1>2 DEF vars
  <2>2. ToDo' = ToDo /\ \A n \in {0, 1} : Dio(n)' <=> Dio(n)
    BY <2>1 DEF ToDo, Dio
  <2>3. TypeInv' /\ LoraInv' /\ LinesInv' /\ RestInv'
    <3>1. TypeInv'
      BY <2>1 DEF IInv, TypeInv
    <3>2. LoraInv'
      BY <2>1, <2>2 DEF IInv, LoraInv, LoraSoon
    <3>3. LinesInv /\ RestInv
      BY DEF IInv
    <3>4. LinesInv'
      BY <2>1, <2>2, <3>3 DEF LinesInv
    <3>5. RestInv'
      BY <2>1, <2>2, <3>3 DEF RestInv
    <3>6. QED
      BY <3>1, <3>2, <3>4, <3>5
  <2>4. Collecting' /\ FrameCollected'
    BY <2>1, <2>2 DEF IInv, Collecting, FrameCollected
  <2>5. Operate' <=> Operate
    BY <2>1 DEF Operate, Running, Over
  <2>6. Prepare' <=> Prepare
    BY <2>1, <2>2 DEF Prepare
  <2>7. QED
    BY <2>1, <2>3, <2>4, <2>5, <2>6 DEF IInv
<1>3. QED
  BY <1>1, <1>2

\* The types, what each state of the MAC finds on the chip, and the list of accesses
\* that a call of LDL_Radio_*() still has to make, fit each other in every state.
THEOREM InvariantHolds == Spec => []IInv
<1>1. Init => IInv
  BY InitInv
<1>2. IInv /\ [Next]_vars => IInv'
  BY Inductive
<1>3. QED
  BY <1>1, <1>2, PTL DEF Spec

\* The FIFO is filled while an operation is prepared, when the chip stands by.
LEMMA BurstAwake ==
    ASSUME IInv, todo # <<>>, Head(todo).do = "burst"
    PROVE  /\ state \in Active /\ Prepare /\ Op(regs) = STANDBY
           /\ Head(todo) \in Bursts /\ Head(todo) = todo[1]
           /\ Len(todo) \in Nat \ {0} /\ DOMAIN todo = 1..Len(todo)
<1>1. /\ Head(todo) \in Steps /\ Head(todo) \in ToDo /\ Head(todo) = todo[1] /\ Len(todo) \in Nat \ {0}
      /\ todo \in Seq(Steps)
  BY TailSteps DEF IInv, TypeInv, ToDo
<1>2. state \in Active
  BY <1>1 DEF IInv, LinesInv
<1>3. Prepare
  BY <1>2 DEF IInv
<1>4. Head(todo) \in Bursts /\ todo[1] \in Bursts
  <2>1. Head(todo) \in Bursts
    BY <1>1, KindOfStep
  <2>2. QED
    BY <1>1, <2>1
<1>5. ToOp(STANDBY) \notin ToDo
  <2>1. SUFFICES ASSUME ToOp(STANDBY) \in ToDo
                 PROVE  FALSE
    OBVIOUS
  <2>2. DOMAIN todo = 1..Len(todo) /\ 1 \in 1..Len(todo)
    BY <1>1
  <2>3. PICK i \in 1..Len(todo) : todo[i] = ToOp(STANDBY)
    BY <2>1, <2>2 DEF ToDo, ToSet
  <2>4. i < 1
    BY <1>3, <1>4, <2>2, <2>3 DEF Prepare, Before
  <2>5. QED
    BY <1>1, <2>3, <2>4
<1>6. QED
  BY <1>1, <1>2, <1>3, <1>4, <1>5 DEF Prepare

-----------------------------------------------------------------------------
(* The theorems. *)

\* LDL_Radio_*() write to the registers of the LoRa modem in LoRa mode only and
\* fill the FIFO of a chip that stands by, whatever call, reset or restart came before.
THEOREM LoraModeIsOn == Spec => []LoraModeOnly
<1>1. ASSUME IInv
      PROVE  LoraModeOnly
  <2>1. TypeInv /\ LoraInv /\ LinesInv
    BY <1>1 DEF IInv
  <2>2. (todo # <<>> /\ Head(todo).do = "write" /\ Head(todo).reg \in LoraPage) => Lora(regs)
    BY <2>1, PageInLora
  <2>3. (todo # <<>> /\ Head(todo).do = "burst") => Op(regs) = STANDBY
    BY <1>1, BurstAwake
  <2>4. Op(regs) \in {TX, RX_SINGLE, RX_CONTINUOUS} => Lora(regs)
    BY <2>1 DEF LoraInv
  <2>5. QED
    BY <2>2, <2>3, <2>4 DEF LoraModeOnly
<1>2. QED
  BY <1>1, InvariantHolds, PTL

\* What the MAC finds in its inputs is the outcome of the operation it started,
\* once that is over and its interrupt was served, and the frame it collects is
\* the frame the chip received.
THEOREM OwnOutcome == Spec => []OutcomeIsOwn
<1>1. ASSUME IInv
      PROVE  OutcomeIsOwn
  <2>1. TypeInv /\ LinesInv /\ FrameCollected
    BY <1>1 DEF IInv
  <2>2. EventOfThisOperation
    <3>1. SUFFICES ASSUME state \in Active, Clear \notin ToDo, inputs.state # {}
                   PROVE  todo = <<>> /\ chip.finished # "none" /\ inputs.state = {Outcome[chip.finished]}
      BY DEF EventOfThisOperation, Active, ToDo
    <3>2. todo = <<>>
      BY <1>1, <3>1 DEF IInv, Prepare
    <3>3. Over /\ inputs.state = {Outcome[chip.finished]}
      BY <1>1, <3>1, <3>2, FoundOver
    <3>4. chip.finished # "none"
      BY <3>3 DEF Over, Ends
    <3>5. QED
      BY <3>2, <3>3, <3>4
  <2>3. OutcomeReported
    <3>1. SUFFICES ASSUME state \in Active, todo = <<>>, Served, chip.finished # "none"
                   PROVE  inputs.state = {Outcome[chip.finished]}
      BY DEF OutcomeReported, Active
    <3>2. Operate
      BY <1>1, <3>1 DEF IInv
    <3>3. Over /\ regs.DioMapping1 = Line(state)
      BY <3>1, <3>2 DEF Operate, Running
    <3>4. ~chip.held
      BY <2>1, <3>1 DEF LinesInv, Active
    <3>5. LineOf[chip.finished] \in {0, 1} /\ Dio(LineOf[chip.finished])
      BY <2>1, <3>1, <3>3, <3>4, LinesOver
    <3>6. board.level[LineOf[chip.finished]]
      BY <3>1, <3>5 DEF Served
    <3>7. QED
      BY <3>3, <3>6 DEF Over
  <2>4. QED
    BY <2>1, <2>2, <2>3 DEF OutcomeIsOwn
<1>2. QED
  BY <1>1, InvariantHolds, PTL

-----------------------------------------------------------------------------
(* The settings. *)

Goals     == {TX, RX_SINGLE}
Chosen(k) == IF k = TX THEN TxSettings ELSE RxSettings

\* What the code writes for settings s.
Config1(s) == BwSetting(s) + CrSetting + (IF self.type = "SX1272" THEN 2 + LowRate(s) ELSE 0)
Boosted(s) == IF Dbm(s.dbm) >= 20 THEN 15 ELSE Clamp(Dbm(s.dbm), 2, 17) - 2

\* Value v of register reg is right for operation k with settings s.
RateRight(s, reg, v) ==
    /\ reg = "ModemConfig1" => v = Config1(s)
    /\ reg = "ModemConfig2" => v = SfSetting(s) + 4
    /\ reg = "ModemConfig3" => self.type = "SX1272" \/ v = 8 * LowRate(s) + 4
    /\ reg = "FrfMsb" => v = Frf(s.freq) \div 65536
    /\ reg = "FrfMid" => v = (Frf(s.freq) \div 256) % 256
    /\ reg = "FrfLsb" => v = Frf(s.freq) % 256

PowerRight(s, reg, v) ==
    /\ reg = "PaDac" => self.pa = "RFO" \/ v % 8 = IF Dbm(s.dbm) >= 20 THEN 7 ELSE 4
    /\ reg = "PaConfig" =>
         IF self.pa = "RFO" THEN self.type = "SX1272" => v % 16 = Clamp(Dbm(s.dbm), -1, 14) + 1
         ELSE v >= 128 /\ v % 16 = Boosted(s)

Right(k, s, reg, v) ==
    /\ RateRight(s, reg, v)
    /\ reg = "SyncWord" => v = 52
    /\ reg = "InvertIQ" => And(v, 64) = IF k = TX THEN 0 ELSE 64
    /\ IF k = TX
       THEN /\ PowerRight(s, reg, v)
            /\ reg = "FifoTxBaseAddr" => v = 0
            /\ reg = "PayloadLength" => v = s.len
       ELSE /\ reg = "SymbTimeoutLsb" => v = s.timeout
            /\ reg = "PayloadMaxLength" => v = s.max

\* No write connects the pin that is not.
AtRFO(reg, v) == self.pa = "RFO" /\ reg = "PaConfig" => v < 128

\* Step e makes its register right, whatever it held.
MakesRight(k, s, e) ==
    \A x \in Byte : AtRFO(e.reg, x) =>
        LET v == Or(And(x, e.keep), e.value)
        IN v \in Byte /\ AtRFO(e.reg, v) /\ Right(k, s, e.reg, v)

WritesTo(e, reg) == e.do = "write" /\ e.reg = reg

FillWrites == {W("FifoTxBaseAddr", 0), W("FifoAddrPtr", 0)}

\* The frame is still to be copied, to where it will be sent from.
Filling ==
    /\ \E e \in ToDo : e \in Bursts
    /\ Before(todo, FillWrites, Bursts)
    /\ \A e \in FillWrites : regs[e.reg] = 0 \/ e \in ToDo
    /\ \A e \in ToDo, f \in FillWrites : WritesTo(e, f.reg) => e = f

\* The chip is set for operation k as the MAC asked, and has its frame.
Settled(k) ==
    /\ asked \in Chosen(k)
    /\ \A reg \in Registers : Right(k, asked, reg, regs[reg])
    /\ k = TX => chip.fifo = "payload"

\* Whatever the last operation left, the call in progress makes it so.
Settling(k) ==
    /\ asked \in Chosen(k)
    /\ \A reg \in Registers : Right(k, asked, reg, regs[reg]) \/ \E e \in ToDo : WritesTo(e, reg)
    /\ \A e \in ToDo : e \in Settings => MakesRight(k, asked, e)
    /\ k = TX => chip.fifo = "payload" \/ Filling

\* Settings are made right before an operation starts and not touched while it
\* lasts; nothing but the call of an operation connects a pin or starts one.
SettingsInv ==
    /\ self.pa = "RFO" => regs.PaConfig < 128
    /\ \A k \in Goals :
         /\ Op(regs) = k => Settled(k) /\ ToDo \cap (Settings \cup Bursts) = {}
         /\ state \in Active /\ Goal(state) = k /\ todo # <<>> => Settling(k)
    /\ state \notin Active =>
         \A e \in ToDo : e # ToOp(RX_SINGLE) /\ ~WritesTo(e, "PaConfig")
    /\ state = "ENTROPY" => Op(regs) \notin Goals
    /\ state = "LOCKOUT" /\ todo = <<>> => Op(regs) = STANDBY

\* What is right depends on the driver's type and pin, which never change.
LEMMA SameRight ==
    ASSUME self'.type = self.type, self'.pa = self.pa
    PROVE  /\ \A k, s, reg, v : Right(k, s, reg, v)' <=> Right(k, s, reg, v)
           /\ \A reg, v : AtRFO(reg, v)' <=> AtRFO(reg, v)
           /\ \A k, s, e : MakesRight(k, s, e)' <=> MakesRight(k, s, e)
<1>1. \A s, reg, v : RateRight(s, reg, v)' <=> RateRight(s, reg, v)
  <2>1. \A s : Config1(s)' = Config1(s)
    BY DEF Config1, BwSetting, CrSetting, LowRate
  <2>2. \A s : SfSetting(s)' = SfSetting(s) /\ LowRate(s)' = LowRate(s)
    BY DEF SfSetting, LowRate
  <2>3. QED
    BY <2>1, <2>2 DEF RateRight, SfSetting, LowRate, Frf
<1>2. \A s, reg, v : PowerRight(s, reg, v)' <=> PowerRight(s, reg, v)
  BY DEF PowerRight, Boosted
<1>3. \A k, s, reg, v : Right(k, s, reg, v)' <=> Right(k, s, reg, v)
  BY <1>1, <1>2 DEF Right
<1>4. \A reg, v : AtRFO(reg, v)' <=> AtRFO(reg, v)
  BY DEF AtRFO
<1>5. \A k, s, e : MakesRight(k, s, e)' <=> MakesRight(k, s, e)
  BY <1>3, <1>4 DEF MakesRight
<1>6. QED
  BY <1>3, <1>4, <1>5

\* What a write leaves in the registers of settings.
LEMMA WrittenValue ==
    ASSUME TypeInv, LoraInv, WriteRegister, NEW e, e = Head(todo)
    PROVE  /\ e \in Writes /\ e \in ToDo /\ ToDo = {e} \cup ToDo' /\ todo' = Tail(todo)
           /\ e.reg \in Registers
           /\ \A reg \in Registers : reg # e.reg => regs'[reg] = regs[reg]
           /\ e \in Settings => regs'[e.reg] = Or(And(regs[e.reg], e.keep), e.value)
           /\ UNCHANGED <<self, state, asked>>
<1> DEFINE v == Or(And(regs[e.reg], e.keep), e.value)
           u == CASE e.reg = "OpMode" /\ Op(regs) # SLEEP -> Or(v % 128, And(regs.OpMode, 128))
                  [] e.reg = "IrqFlags" -> And(regs.IrqFlags, 255 - v)
                  [] OTHER -> v
<1>1. Doing("write") /\ regs' = Written(regs, e.reg, v) /\ UNCHANGED <<self, state, asked>>
  BY DEF WriteRegister
<1>2. e.do = "write" /\ e \in Writes /\ e.reg \in Registers /\ ToDo = {e} \cup ToDo' /\ todo' = Tail(todo)
  BY ZenonT(60), <1>1, NextStep, KindOfStep
<1>3. regs \in [Registers -> Byte]
  BY DEF TypeInv
<1>4. e.reg \in LoraPage => Lora(regs)
  BY <1>1, <1>2, NextStep, PageInLora
<1>5. regs' = [regs EXCEPT ![e.reg] = u]
  BY ZenonT(60), <1>1, <1>2, <1>3, <1>4 DEF Written
<1>6. e \in Settings => e.reg \notin {"OpMode", "IrqFlags"}
  BY DEF Settings
<1>7. e \in Settings => u = v
  BY <1>6
<1> HIDE DEF u, v
<1>8. \A reg \in Registers : reg # e.reg => regs'[reg] = regs[reg]
  BY <1>2, <1>3, <1>5
<1>9. e \in Settings => regs'[e.reg] = v
  BY <1>2, <1>3, <1>5, <1>7
<1>10. QED
  BY <1>1, <1>2, <1>8, <1>9 DEF v

\* Of the steps s whose first is a burst, those of A that come before bursts are done.
LEMMA NoneBefore ==
    ASSUME NEW s \in Seq(Steps), s # <<>>, Head(s) \in Bursts, NEW A, Before(s, A, Bursts)
    PROVE  ToSet(s) \cap A = {}
<1>1. Head(s) = s[1] /\ Len(s) \in Nat \ {0} /\ DOMAIN s = 1..Len(s) /\ 1 \in 1..Len(s)
  BY TailSteps
<1>2. SUFFICES ASSUME NEW e \in ToSet(s), e \in A PROVE FALSE
  OBVIOUS
<1>3. PICK i \in 1..Len(s) : s[i] = e
  BY <1>1, <1>2 DEF ToSet
<1>4. i < 1
  BY <1>1, <1>2, <1>3 DEF Before
<1>5. QED
  BY <1>1, <1>3, <1>4

-----------------------------------------------------------------------------
(* Bits of the settings that share a register. *)

LEMMA SettingBits ==
    ASSUME NEW x \in Byte
    PROVE  /\ \A v \in Byte : Or(And(x, 0), v) = v
           /\ And(Or(And(x, 255 - 64), 0), 64) = 0
           /\ And(Or(And(x, 255), 64), 64) = 64
           /\ \A d \in {4, 7} : Or(And(x, 248), d) % 8 = d
           /\ \A c \in 0..15 : /\ Or(And(x, 112), c) % 16 = c /\ Or(And(x, 112), c) < 128
                               /\ Or(And(x, 240), 128 + c) % 16 = c /\ Or(And(x, 240), 128 + c) >= 128
                               /\ Or(And(x, 128), 128 + c) % 16 = c /\ Or(And(x, 128), 128 + c) >= 128
           /\ x < 128 => Or(And(x, 240), 126) < 128
<1>1. \A v \in Byte : Or(And(x, 0), v) = v
  BY FlagBits
<1>2. /\ And(Or(And(x, 255 - 64), 0), 64) = 0
      /\ And(Or(And(x, 255), 64), 64) = 64
  <2>1. And(x, 255) = x
    BY SMTT(60) DEF And, Byte
  <2>2. \A y \in Byte : And(y, 64) = 64 * ((y \div 64) % 2)
    BY SMTT(60) DEF And, Byte
  <2>3. Or(x, 64) \in Byte /\ (Or(x, 64) \div 64) % 2 = 1
    BY SMTT(60) DEF Or, Byte
  <2>4. And(x, 191) \in Byte /\ (And(x, 191) \div 64) % 2 = 0
    BY SMTT(60) DEF And, Byte
  <2>5. Or(And(x, 191), 0) = And(x, 191)
    <3>1. \A y \in Byte : Or(y, 0) = y
      BY SMTT(60) DEF Or, Byte
    <3>2. QED
      BY <2>4, <3>1
  <2>6. 255 - 64 = 191 /\ 64 * 0 = 0 /\ 64 * 1 = 64
    BY SMT
  <2>7. QED
    BY <2>1, <2>2, <2>3, <2>4, <2>5, <2>6
<1>3. \A d \in {4, 7} : Or(And(x, 248), d) % 8 = d
  BY SMTT(60) DEF And, Or, Byte
<1>4. \A c \in 0..15 : Or(And(x, 112), c) % 16 = c /\ Or(And(x, 112), c) < 128
  BY SMTT(60) DEF And, Or, Byte
<1>5. \A c \in 0..15 : Or(And(x, 240), 128 + c) % 16 = c /\ Or(And(x, 240), 128 + c) >= 128
  BY SMTT(60) DEF And, Or, Byte
<1>6. \A c \in 0..15 : Or(And(x, 128), 128 + c) % 16 = c /\ Or(And(x, 128), 128 + c) >= 128
  BY SMTT(60) DEF And, Or, Byte
<1>7. x < 128 => Or(And(x, 240), 126) < 128
  BY SMTT(60) DEF And, Or, Byte
<1>8. QED
  BY <1>1, <1>2, <1>3, <1>4, <1>5, <1>6, <1>7

-----------------------------------------------------------------------------
(* Each call makes every register right that its operation needs. *)

\* A byte that is written whole.
LEMMA WholeRight ==
    ASSUME NEW k, NEW s, NEW reg, reg # "PaConfig", NEW v \in Byte, Right(k, s, reg, v)
    PROVE  MakesRight(k, s, W(reg, v)) /\ WritesTo(W(reg, v), reg)
<1>1. W(reg, v).do = "write" /\ W(reg, v).reg = reg /\ W(reg, v).keep = 0 /\ W(reg, v).value = v
  BY DEF W, Change
<1>2. \A x \in Byte : Or(And(x, 0), v) = v
  BY SettingBits
<1>3. \A x : AtRFO(reg, x)
  BY DEF AtRFO
<1>4. QED
  BY <1>1, <1>2, <1>3 DEF MakesRight, WritesTo

\* Settings the registers of the rate can hold.
Rate(s) == s.freq \in Nat /\ s.freq < FreqEnd /\ s.sf \in 6..12 /\ s.bw \in {125, 250, 500}

\* Quotient and remainder of a frequency by the step of the synthesiser, times 256.
LEMMA SynthesiserStep ==
    ASSUME NEW f \in Nat
    PROVE  /\ f = 15625 * (f \div 15625) + (f % 15625)
           /\ f \div 15625 \in Nat /\ f % 15625 \in 0..15624
           /\ (256 * (f % 15625)) \div 15625 \in 0..255
<1>1. f = 15625 * (f \div 15625) + (f % 15625) /\ f \div 15625 \in Nat /\ f % 15625 \in 0..15624
  <2>1. f \div 15625 \in Nat /\ f % 15625 \in 0..15624
    BY SMTT(30)
  <2>2. f = 15625 * (f \div 15625) + (f % 15625)
    BY SMTT(30)
  <2>3. QED
    BY <2>1, <2>2
<1> DEFINE q == f \div 15625
           r == f % 15625
<1>2. (256 * r) \div 15625 \in 0..255
  <2> HIDE DEF r
  <2>1. r \in 0..15624
    BY <1>1 DEF r
  <2>2. QED
    BY <2>1, SMTT(30)
<1>3. QED
  BY <1>1, <1>2 DEF q, r

\* The synthesiser has three registers.
LEMMA FrfRange ==
    ASSUME NEW f \in Nat
    PROVE  Frf(f) \in Nat /\ (f < FreqEnd => Frf(f) \div 65536 \in 0..255)
<1> DEFINE q == f \div 15625
           r == f % 15625
           g == (256 * r) \div 15625
<1>1. f = 15625 * q + r /\ q \in Nat /\ r \in 0..15624 /\ g \in 0..255 /\ Frf(f) = 256 * q + g
  BY SynthesiserStep DEF Frf
<1> HIDE DEF q, r, g
<1>2. f < FreqEnd => q < 65536
  BY <1>1, SMTT(30) DEF FreqEnd
<1>3. QED
  BY <1>1, <1>2, SMTT(30)

LEMMA RateBytes ==
    ASSUME TypeInv, NEW s, Rate(s)
    PROVE  /\ LowRate(s) \in {0, 1}
           /\ Config1(s) \in Byte /\ SfSetting(s) + 4 \in Byte /\ 8 * LowRate(s) + 4 \in Byte
           /\ Frf(s.freq) \in Nat /\ Frf(s.freq) \div 65536 \in Byte
           /\ (Frf(s.freq) \div 256) % 256 \in Byte /\ Frf(s.freq) % 256 \in Byte
<1>1. LowRate(s) \in {0, 1}
  BY DEF LowRate
<1>2. SfSetting(s) + 4 \in Byte /\ 8 * LowRate(s) + 4 \in Byte
  BY <1>1, SMT DEF SfSetting, Byte, Rate
<1>3. Config1(s) \in Byte
  <2>1. CASE self.type = "SX1272"
    <3>1. BwSetting(s) \in {0, 64, 128} /\ CrSetting = 8
      BY <2>1, SMT DEF BwSetting, CrSetting, Rate
    <3>2. QED
      BY <2>1, <3>1, <1>1, SMT DEF Config1, Byte
  <2>2. CASE self.type # "SX1272"
    <3>1. BwSetting(s) \in {112, 128, 144} /\ CrSetting = 2
      BY <2>2, SMT DEF BwSetting, CrSetting, Rate
    <3>2. QED
      BY <2>2, <3>1, <1>1, SMT DEF Config1, Byte
  <2>3. QED
    BY <2>1, <2>2
<1>4. Frf(s.freq) \in Nat /\ Frf(s.freq) \div 65536 \in Byte
  <2>1. PICK f \in Nat : f = s.freq /\ f < FreqEnd
    BY DEF Rate
  <2>2. Frf(f) \in Nat /\ Frf(f) \div 65536 \in 0..255
    BY <2>1, FrfRange
  <2>3. QED
    BY <2>1, <2>2 DEF Byte
<1>5. (Frf(s.freq) \div 256) % 256 \in Byte /\ Frf(s.freq) % 256 \in Byte
  BY <1>4, SMT DEF Byte
<1>6. QED
  BY <1>1, <1>2, <1>3, <1>4, <1>5

\* setModemConfig() and setFreq().
LEMMA RateMade ==
    ASSUME TypeInv, NEW s, Rate(s), NEW k
    PROVE  LET t == ToSet(SetModemConfig(s)) \cup ToSet(SetFreq(s.freq)) IN
           /\ t \subseteq Settings
           /\ \A e \in t : MakesRight(k, s, e) /\ ~WritesTo(e, "FifoTxBaseAddr") /\ ~WritesTo(e, "FifoAddrPtr")
           /\ \A reg \in {"ModemConfig1", "ModemConfig2", "FrfMsb", "FrfMid", "FrfLsb"} : \E e \in t : WritesTo(e, reg)
           /\ self.type = "SX1272" \/ \E e \in t : WritesTo(e, "ModemConfig3")
<1> DEFINE m1 == W("ModemConfig1", Config1(s))
           m2 == W("ModemConfig2", SfSetting(s) + 4)
           m3 == W("ModemConfig3", 8 * LowRate(s) + 4)
           f1 == W("FrfMsb", Frf(s.freq) \div 65536)
           f2 == W("FrfMid", (Frf(s.freq) \div 256) % 256)
           f3 == W("FrfLsb", Frf(s.freq) % 256)
           M == IF self.type = "SX1272" THEN {m1, m2} ELSE {m1, m2, m3}
           F == {f1, f2, f3}
<1>1. /\ Config1(s) \in Byte /\ SfSetting(s) + 4 \in Byte /\ 8 * LowRate(s) + 4 \in Byte
      /\ Frf(s.freq) \div 65536 \in Byte
      /\ (Frf(s.freq) \div 256) % 256 \in Byte /\ Frf(s.freq) % 256 \in Byte
  BY RateBytes
<1>2. ToSet(SetModemConfig(s)) = M
  <2>1. CASE self.type = "SX1272"
    <3>1. SetModemConfig(s) = <<m1, m2>>
      <4>1. Config1(s) = BwSetting(s) + CrSetting + 2 + LowRate(s)
        <5>1. BwSetting(s) \in Int /\ CrSetting \in Int /\ LowRate(s) \in Int
          BY <2>1, SMT DEF BwSetting, CrSetting, LowRate, Rate
        <5>2. QED
          BY <2>1, <5>1, SMT DEF Config1
      <4>2. QED
        BY <2>1, <4>1 DEF SetModemConfig
    <3>2. QED
      BY <2>1, <3>1 DEF ToSet
  <2>2. CASE self.type # "SX1272"
    <3>1. SetModemConfig(s) = <<m1, m2, m3>>
      <4>1. Config1(s) = BwSetting(s) + CrSetting
        <5>1. BwSetting(s) \in Int /\ CrSetting \in Int
          BY <2>2, SMT DEF BwSetting, CrSetting, Rate
        <5>2. QED
          BY <2>2, <5>1, SMT DEF Config1
      <4>2. QED
        BY <2>2, <4>1 DEF SetModemConfig
    <3>2. QED
      BY <2>2, <3>1 DEF ToSet
  <2>3. QED
    BY <2>1, <2>2
<1>3. ToSet(SetFreq(s.freq)) = F
  BY DEF ToSet, SetFreq
<1>4. /\ m1 \in Settings /\ m2 \in Settings /\ m3 \in Settings
      /\ f1 \in Settings /\ f2 \in Settings /\ f3 \in Settings
  <2>1. \A v \in Byte : /\ W("ModemConfig1", v) \in Settings /\ W("ModemConfig2", v) \in Settings
                         /\ W("ModemConfig3", v) \in Settings /\ W("FrfMsb", v) \in Settings
                         /\ W("FrfMid", v) \in Settings /\ W("FrfLsb", v) \in Settings
    BY SettingW, OtherNames, SMT DEF Byte
  <2>2. QED
    BY <1>1, <2>1
<1>5. /\ Right(k, s, "ModemConfig1", Config1(s)) /\ Right(k, s, "ModemConfig2", SfSetting(s) + 4)
      /\ Right(k, s, "ModemConfig3", 8 * LowRate(s) + 4)
      /\ Right(k, s, "FrfMsb", Frf(s.freq) \div 65536)
      /\ Right(k, s, "FrfMid", (Frf(s.freq) \div 256) % 256) /\ Right(k, s, "FrfLsb", Frf(s.freq) % 256)
  BY DEF Right, RateRight, PowerRight
<1>6. /\ MakesRight(k, s, m1) /\ MakesRight(k, s, m2) /\ MakesRight(k, s, m3)
      /\ MakesRight(k, s, f1) /\ MakesRight(k, s, f2) /\ MakesRight(k, s, f3)
      /\ WritesTo(m1, "ModemConfig1") /\ WritesTo(m2, "ModemConfig2") /\ WritesTo(m3, "ModemConfig3")
      /\ WritesTo(f1, "FrfMsb") /\ WritesTo(f2, "FrfMid") /\ WritesTo(f3, "FrfLsb")
  BY <1>1, <1>5, WholeRight
<1> HIDE DEF m1, m2, m3, f1, f2, f3
<1>7. \A e \in {m1, m2, m3, f1, f2, f3} : ~WritesTo(e, "FifoTxBaseAddr") /\ ~WritesTo(e, "FifoAddrPtr")
  BY <1>6 DEF WritesTo
<1>8. QED
  BY <1>2, <1>3, <1>4, <1>6, <1>7

\* Writes of a part of PaConfig.
LEMMA PartRight ==
    ASSUME NEW s, NEW keep, NEW value,
           \A x \in Byte : AtRFO("PaConfig", x) =>
              LET v == Or(And(x, keep), value) IN AtRFO("PaConfig", v) /\ PowerRight(s, "PaConfig", v)
    PROVE  MakesRight(TX, s, Change("PaConfig", keep, value))
<1>1. /\ Change("PaConfig", keep, value).reg = "PaConfig"
      /\ Change("PaConfig", keep, value).keep = keep /\ Change("PaConfig", keep, value).value = value
  BY DEF Change
<1>2. \A v : PowerRight(s, "PaConfig", v) => Right(TX, s, "PaConfig", v)
  BY DEF Right, RateRight
<1>3. \A x : Or(And(x, keep), value) \in Byte
  BY BitByte
<1>4. QED
  BY <1>1, <1>2, <1>3 DEF MakesRight

\* setPower().
LEMMA PowerMade ==
    ASSUME TypeInv, NEW s, s.dbm \in Int
    PROVE  LET t == ToSet(SetPower(s.dbm)) IN
           /\ t \subseteq Settings
           /\ \A e \in t : MakesRight(TX, s, e) /\ e.reg \in {"PaDac", "PaConfig"}
           /\ \E e \in t : WritesTo(e, "PaConfig")
           /\ self.pa = "RFO" \/ \E e \in t : WritesTo(e, "PaDac")
<1>1. ToSet(SetPower(s.dbm)) \subseteq Settings
  BY SettingsOfPower, SettingSteps
<1>2. self.type \in {"SX1272", "SX1276"} /\ self.pa \in {"RFO", "BOOST"}
  BY DEF TypeInv, Drivers
<1>3. CASE self.pa = "RFO" /\ self.type = "SX1272"
  <2> DEFINE c == Clamp(Dbm(s.dbm), -1, 14) + 1
             e == Change("PaConfig", 112, c)
  <2>1. c \in 0..15
    <3>1. \A d \in Int : Clamp(d, -1, 14) + 1 \in 0..15
      BY SMT DEF Clamp
    <3>2. Dbm(s.dbm) \in Int
      BY SMT DEF Dbm
    <3>3. QED
      BY <3>1, <3>2
  <2>2. ToSet(SetPower(s.dbm)) = {e}
    BY <1>3 DEF SetPower, ToSet
  <2>3. MakesRight(TX, s, e)
    <3>1. \A x \in Byte : Or(And(x, 112), c) % 16 = c /\ Or(And(x, 112), c) < 128
      BY <2>1, SettingBits
    <3>2. \A x \in Byte : LET v == Or(And(x, 112), c) IN AtRFO("PaConfig", v) /\ PowerRight(s, "PaConfig", v)
      BY <1>3, <3>1 DEF AtRFO, PowerRight
    <3> HIDE DEF c
    <3>3. QED
      BY <3>2, PartRight
  <2>4. e.do = "write" /\ e.reg = "PaConfig"
    BY DEF Change
  <2>5. QED
    BY <1>1, <1>3, <2>2, <2>3, <2>4 DEF WritesTo
<1>4. CASE self.pa = "RFO" /\ self.type # "SX1272"
  <2> DEFINE e == Change("PaConfig", 240, 126)
  <2>1. ToSet(SetPower(s.dbm)) = {e}
    BY <1>4 DEF SetPower, ToSet
  <2>2. MakesRight(TX, s, e)
    <3>1. \A x \in Byte : x < 128 => Or(And(x, 240), 126) < 128
      BY SettingBits
    <3>2. \A x \in Byte : AtRFO("PaConfig", x) =>
            LET v == Or(And(x, 240), 126) IN AtRFO("PaConfig", v) /\ PowerRight(s, "PaConfig", v)
      BY <1>4, <3>1 DEF AtRFO, PowerRight
    <3>3. QED
      BY <3>2, PartRight
  <2>3. e.do = "write" /\ e.reg = "PaConfig"
    BY DEF Change
  <2>4. QED
    BY <1>1, <1>4, <2>1, <2>2, <2>3 DEF WritesTo
<1>5. CASE self.pa # "RFO"
  <2> DEFINE c    == Boosted(s)
             keep == IF self.type = "SX1272" THEN 240 ELSE 128
             dac  == IF Dbm(s.dbm) >= 20 THEN 7 ELSE 4
             d    == Change("PaDac", 248, dac)
             e    == Change("PaConfig", keep, 128 + c)
  <2>1. c \in 0..15 /\ dac \in {4, 7}
    <3>1. \A n \in Int : Clamp(n, 2, 17) - 2 \in 0..15
      BY SMT DEF Clamp
    <3>2. Dbm(s.dbm) \in Int
      BY SMT DEF Dbm
    <3>3. Clamp(Dbm(s.dbm), 2, 17) - 2 \in 0..15 /\ 15 \in 0..15
      BY <3>1, <3>2
    <3>4. QED
      BY <3>3 DEF Boosted
  <2>2. ToSet(SetPower(s.dbm)) = {d, e}
    BY <1>5 DEF SetPower, ToSet, Boosted
  <2>3. MakesRight(TX, s, e)
    <3>1. \A x \in Byte : Or(And(x, keep), 128 + c) % 16 = c /\ Or(And(x, keep), 128 + c) >= 128
      <4>1. \A x \in Byte : /\ Or(And(x, 240), 128 + c) % 16 = c /\ Or(And(x, 240), 128 + c) >= 128
                            /\ Or(And(x, 128), 128 + c) % 16 = c /\ Or(And(x, 128), 128 + c) >= 128
        BY <2>1, SettingBits
      <4>2. QED
        BY <4>1
    <3> HIDE DEF keep
    <3>2. \A x \in Byte : LET v == Or(And(x, keep), 128 + c)
                          IN AtRFO("PaConfig", v) /\ PowerRight(s, "PaConfig", v)
      BY <1>5, <3>1 DEF AtRFO, PowerRight
    <3>3. QED
      BY <3>2, PartRight
  <2>4. MakesRight(TX, s, d)
    <3>1. d.reg = "PaDac" /\ d.keep = 248 /\ d.value = dac
      BY DEF Change
    <3>2. \A x \in Byte : Or(And(x, 248), dac) % 8 = dac /\ Or(And(x, 248), dac) \in Byte
      <4>1. \A x \in Byte, n \in {4, 7} : Or(And(x, 248), n) % 8 = n
        BY SettingBits
      <4>2. QED
        BY <4>1, <2>1, BitByte
    <3>3. \A v : v % 8 = dac => Right(TX, s, "PaDac", v) /\ AtRFO("PaDac", v)
      BY DEF Right, RateRight, PowerRight, AtRFO
    <3> HIDE DEF dac
    <3>4. QED
      BY <3>1, <3>2, <3>3 DEF MakesRight
  <2>5. e.do = "write" /\ e.reg = "PaConfig" /\ d.do = "write" /\ d.reg = "PaDac"
    BY DEF Change
  <2> HIDE DEF d, e
  <2>6. QED
    BY <1>1, <2>2, <2>3, <2>4, <2>5 DEF WritesTo
<1>6. QED
  BY <1>3, <1>4, <1>5

\* What the steps t of a call do for operation k with settings s.
Settles(t, k, s) ==
    /\ \A e \in ToSet(t) : e \in Settings => MakesRight(k, s, e)
    /\ \A reg, v : Right(k, s, reg, v) \/ \E e \in ToSet(t) : WritesTo(e, reg)

Fills(t) ==
    /\ \E e \in ToSet(t) : e \in Bursts
    /\ Before(t, FillWrites, Bursts)
    /\ FillWrites \subseteq ToSet(t)
    /\ \A e \in ToSet(t), f \in FillWrites : WritesTo(e, f.reg) => e = f

\* The registers that an operation needs.
Needed(k) ==
    {"ModemConfig1", "ModemConfig2", "FrfMsb", "FrfMid", "FrfLsb", "SyncWord", "InvertIQ"}
    \cup (IF self.type = "SX1272" THEN {} ELSE {"ModemConfig3"})
    \cup (IF k = TX THEN {"PaConfig", "FifoTxBaseAddr", "PayloadLength"} \cup (IF self.pa = "RFO" THEN {} ELSE {"PaDac"})
                    ELSE {"SymbTimeoutLsb", "PayloadMaxLength"})

LEMMA NotNeeded ==
    ASSUME NEW k, NEW s, NEW reg, reg \notin Needed(k), NEW v
    PROVE  Right(k, s, reg, v)
<1>1. RateRight(s, reg, v)
  BY DEF RateRight, Needed
<1>2. k = TX => PowerRight(s, reg, v)
  BY DEF PowerRight, Needed
<1>3. QED
  BY <1>1, <1>2 DEF Right, Needed

\* WriteFIFO(): the frame is copied last.
LEMMA FillSteps ==
    ASSUME NEW len \in Byte
    PROVE  LET t == WriteFIFO(len) IN
           /\ t \in Seq(Steps)
           /\ ToSet(t) = {W("FifoTxBaseAddr", 0), W("FifoAddrPtr", 0), W("PayloadLength", len), Burst(len)}
           /\ {W("FifoTxBaseAddr", 0), W("FifoAddrPtr", 0), W("PayloadLength", len)} \subseteq Settings
           /\ Burst(len) \in Bursts
           /\ Before(t, FillWrites, Bursts)
<1> DEFINE a == W("FifoTxBaseAddr", 0)
           b == W("FifoAddrPtr", 0)
           c == W("PayloadLength", len)
           d == Burst(len)
<1>1. {a, b, c} \subseteq Settings /\ d \in Bursts
  <2>1. 0 \in Int /\ len \in Int
    BY SMT DEF Byte
  <2>2. QED
    BY <2>1, SettingW, OtherNames DEF Bursts
<1>2. {a, b, c, d} \subseteq Steps
  BY <1>1, KnownSteps
<1>3. {a, b, c} \cap Bursts = {} /\ FillWrites \cap Bursts = {}
  BY DEF W, Change, Bursts, Burst, FillWrites
<1>4. WriteFIFO(len) = <<a, b, c, d>>
  BY DEF WriteFIFO
<1> HIDE DEF a, b, c, d
<1>5. /\ <<a, b, c, d>> \in Seq(Steps) /\ ToSet(<<a, b, c, d>>) = {a, b, c, d}
  BY <1>2, FourSteps
<1>6. Before(<<a, b, c, d>>, FillWrites, Bursts)
  <2>1. /\ Len(<<a, b, c, d>>) = 4 /\ <<a, b, c, d>>[1] = a /\ <<a, b, c, d>>[2] = b
        /\ <<a, b, c, d>>[3] = c /\ <<a, b, c, d>>[4] = d
    OBVIOUS
  <2>2. ASSUME NEW i \in 1..4, NEW j \in 1..4, <<a, b, c, d>>[i] \in FillWrites, <<a, b, c, d>>[j] \in Bursts
        PROVE  i < j
    <3>1. j = 4
      BY <2>1, <2>2, <1>3
    <3>2. i # 4
      BY <2>1, <2>2, <1>1, <1>3
    <3>3. QED
      BY <3>1, <3>2
  <2>3. QED
    BY <2>1, <2>2 DEF Before
<1>7. QED
  BY <1>1, <1>4, <1>5, <1>6 DEF a, b, c, d

LEMMA InvertMade ==
    ASSUME NEW s
    PROVE  /\ MakesRight(TX, s, Change("InvertIQ", 255 - 64, 0))
           /\ MakesRight(RX_SINGLE, s, Change("InvertIQ", 255, 64))
           /\ \A k : MakesRight(k, s, Change("PaRamp", 240, 8))
<1>1. /\ Change("InvertIQ", 255 - 64, 0).reg = "InvertIQ"
      /\ Change("InvertIQ", 255 - 64, 0).keep = 255 - 64 /\ Change("InvertIQ", 255 - 64, 0).value = 0
      /\ Change("InvertIQ", 255, 64).reg = "InvertIQ"
      /\ Change("InvertIQ", 255, 64).keep = 255 /\ Change("InvertIQ", 255, 64).value = 64
      /\ Change("PaRamp", 240, 8).reg = "PaRamp"
      /\ Change("PaRamp", 240, 8).keep = 240 /\ Change("PaRamp", 240, 8).value = 8
  BY DEF Change
<1>2. \A v : /\ AtRFO("InvertIQ", v) /\ AtRFO("PaRamp", v)
             /\ \A k : Right(k, s, "PaRamp", v)
             /\ And(v, 64) = 0 => Right(TX, s, "InvertIQ", v)
             /\ And(v, 64) = 64 => Right(RX_SINGLE, s, "InvertIQ", v)
  BY DEF AtRFO, Right, RateRight, PowerRight, TX, RX_SINGLE
<1>3. \A x \in Byte : And(Or(And(x, 255 - 64), 0), 64) = 0 /\ And(Or(And(x, 255), 64), 64) = 64
  BY SettingBits
<1> DEFINE a == Change("InvertIQ", 255 - 64, 0)
           b == Change("InvertIQ", 255, 64)
           c == Change("PaRamp", 240, 8)
<1>4. MakesRight(TX, s, a)
  <2>1. a.reg = "InvertIQ" /\ a.keep = 255 - 64 /\ a.value = 0
    BY <1>1
  <2> HIDE DEF a
  <2>2. QED
    BY <2>1, <1>2, <1>3, BitByte DEF MakesRight
<1>5. MakesRight(RX_SINGLE, s, b)
  <2>1. b.reg = "InvertIQ" /\ b.keep = 255 /\ b.value = 64
    BY <1>1
  <2> HIDE DEF b
  <2>2. QED
    BY <2>1, <1>2, <1>3, BitByte DEF MakesRight
<1>6. \A k : MakesRight(k, s, c)
  <2>1. c.reg = "PaRamp"
    BY <1>1
  <2> HIDE DEF c
  <2>2. QED
    BY <2>1, <1>2, BitByte DEF MakesRight
<1>7. QED
  BY <1>4, <1>5, <1>6

LEMMA TransmitMade ==
    ASSUME TypeInv, NEW s \in TxSettings, Rate(s)
    PROVE  LET t == <<Clear, Arm("TX_COMPLETE")>> \o Transmit(s) IN Settles(t, TX, s) /\ Fills(t)
<1> DEFINE m == ToSet(SetModemConfig(s)) \cup ToSet(SetFreq(s.freq))
           p == SetPower(s.dbm)
           a == <<Map(64)>> \o SetOp(STANDBY) \o SetModemConfig(s) \o SetFreq(s.freq)
           q == {W("SyncWord", 52), Change("PaRamp", 240, 8), Change("InvertIQ", 255 - 64, 0)}
           n == {W("DioMapping1", 64), W("IrqFlags", 255), W("IrqFlagsMask", 247)}
           l == <<W("SyncWord", 52), Change("PaRamp", 240, 8), Change("InvertIQ", 255 - 64, 0),
                  W("DioMapping1", 64), W("IrqFlags", 255), W("IrqFlagsMask", 247)>>
           f == WriteFIFO(s.len)
           z == <<ToOp(TX)>>
           h == <<Clear, Arm("TX_COMPLETE")>>
           t == h \o ((((a \o p) \o l) \o f) \o z)
<1>1. s.dbm \in Int /\ s.len \in Byte /\ s.freq \in Nat /\ s.sf \in 6..12 /\ s.bw \in {125, 250, 500}
  BY RadioAssumption DEF RadioAssumption, Byte
<1>2. <<Clear, Arm("TX_COMPLETE")>> \o Transmit(s) = t
  BY DEF Transmit, SetOp, ToOp
<1>3. a \in Seq(Steps) /\ ToSet(a) = {Map(64), ToOp(STANDBY)} \cup m
  <2> HIDE DEF p, l, f, z, h, q, n
  <2>1. 64 \in {0, 64}
    OBVIOUS
  <2>2. a \in Seq(Steps)
    BY <1>1, <2>1, Beginning
  <2>3. ToSet(a) = {Map(64), ToOp(STANDBY)} \cup ToSet(SetModemConfig(s)) \cup ToSet(SetFreq(s.freq))
    BY <1>1, <2>1, Beginning
  <2>4. QED
    BY <2>2, <2>3
<1>4. /\ m \subseteq Settings
      /\ \A e \in m : MakesRight(TX, s, e) /\ ~WritesTo(e, "FifoTxBaseAddr") /\ ~WritesTo(e, "FifoAddrPtr")
      /\ \A reg \in {"ModemConfig1", "ModemConfig2", "FrfMsb", "FrfMid", "FrfLsb"} : \E e \in m : WritesTo(e, reg)
      /\ self.type = "SX1272" \/ \E e \in m : WritesTo(e, "ModemConfig3")
  BY RateMade
<1>5. /\ p \in Seq(Steps) /\ ToSet(p) \subseteq Settings
      /\ \A e \in ToSet(p) : MakesRight(TX, s, e) /\ e.reg \in {"PaDac", "PaConfig"}
      /\ \E e \in ToSet(p) : WritesTo(e, "PaConfig")
      /\ self.pa = "RFO" \/ \E e \in ToSet(p) : WritesTo(e, "PaDac")
  <2>1. p \in Seq(Steps) /\ ToSet(p) \subseteq Settings
    BY <1>1, SettingsOfPower, SettingSteps
  <2>2. QED
    BY <1>1, <2>1, PowerMade
<1>6. l \in Seq(Steps) /\ ToSet(l) = q \cup n /\ q \subseteq Settings /\ n \subseteq LineWrites
  <2>1. q \subseteq Settings
    BY Setting, OtherNames DEF W
  <2>2. n \subseteq LineWrites
    BY DEF LineWrites
  <2>3. l \in Seq(Steps)
    BY <2>1, <2>2, KnownSteps
  <2>4. ToSet(l) = q \cup n
    BY DEF ToSet
  <2>5. QED
    BY <2>1, <2>2, <2>3, <2>4
<1>7. /\ f \in Seq(Steps)
      /\ ToSet(f) = {W("FifoTxBaseAddr", 0), W("FifoAddrPtr", 0), W("PayloadLength", s.len), Burst(s.len)}
      /\ Burst(s.len) \in Bursts /\ Before(f, FillWrites, Bursts)
  BY <1>1, FillSteps
<1>8. z \in Seq(Steps) /\ ToSet(z) = {ToOp(TX)}
  BY KnownSteps, OneStep DEF Ops
<1>9. h \in Seq(Steps) /\ ToSet(h) = {Clear, Arm("TX_COMPLETE")}
  <2>1. Clear \in Steps /\ Arm("TX_COMPLETE") \in Steps
    BY KnownSteps DEF Events
  <2>2. QED
    BY <2>1, TwoSteps
<1> HIDE DEF m, p, a, l, f, z, h, t
<1> DEFINE g == a \o p
           b == g \o l
           c == b \o f
           d == c \o z
<1>10. g \in Seq(Steps) /\ ToSet(g) = ToSet(a) \cup ToSet(p)
  BY <1>3, <1>5, JoinSteps
<1> HIDE DEF g
<1>11. b \in Seq(Steps) /\ ToSet(b) = {Map(64), ToOp(STANDBY)} \cup m \cup ToSet(p) \cup q \cup n
  <2>1. b \in Seq(Steps) /\ ToSet(b) = ToSet(g) \cup ToSet(l)
    BY <1>6, <1>10, JoinSteps
  <2> HIDE DEF b
  <2>2. QED
    BY <2>1, <1>3, <1>6, <1>10
<1> HIDE DEF b
<1>12. c \in Seq(Steps) /\ ToSet(c) = ToSet(b) \cup ToSet(f)
  BY <1>7, <1>11, JoinSteps
<1> HIDE DEF c
<1>13. d \in Seq(Steps) /\ ToSet(d) = ToSet(c) \cup {ToOp(TX)}
  BY <1>8, <1>12, JoinSteps
<1> HIDE DEF d
<1>14. h \o d \in Seq(Steps) /\ ToSet(h \o d) = {Clear, Arm("TX_COMPLETE")} \cup ToSet(d)
  BY <1>9, <1>13, JoinSteps
<1>15. t = h \o d
  BY DEF b, c, d, g, t
<1> HIDE DEF q, n
<1>16. ToSet(t) = {Map(64), ToOp(STANDBY), ToOp(TX), Clear, Arm("TX_COMPLETE"), Burst(s.len)}
                  \cup m \cup ToSet(p) \cup q \cup n
                  \cup {W("FifoTxBaseAddr", 0), W("FifoAddrPtr", 0), W("PayloadLength", s.len)}
  BY <1>7, <1>11, <1>12, <1>13, <1>14, <1>15
<1>17. /\ MakesRight(TX, s, W("SyncWord", 52)) /\ WritesTo(W("SyncWord", 52), "SyncWord")
       /\ MakesRight(TX, s, W("FifoTxBaseAddr", 0)) /\ WritesTo(W("FifoTxBaseAddr", 0), "FifoTxBaseAddr")
       /\ MakesRight(TX, s, W("FifoAddrPtr", 0)) /\ WritesTo(W("FifoAddrPtr", 0), "FifoAddrPtr")
       /\ MakesRight(TX, s, W("PayloadLength", s.len)) /\ WritesTo(W("PayloadLength", s.len), "PayloadLength")
       /\ \A e \in q : MakesRight(TX, s, e)
       /\ WritesTo(Change("InvertIQ", 255 - 64, 0), "InvertIQ")
  <2>1. /\ Right(TX, s, "SyncWord", 52) /\ Right(TX, s, "FifoTxBaseAddr", 0) /\ Right(TX, s, "FifoAddrPtr", 0)
        /\ Right(TX, s, "PayloadLength", s.len)
    BY DEF Right, RateRight, PowerRight
  <2>2. 52 \in Byte /\ 0 \in Byte
    BY SMT DEF Byte
  <2>3. /\ MakesRight(TX, s, W("SyncWord", 52)) /\ WritesTo(W("SyncWord", 52), "SyncWord")
        /\ MakesRight(TX, s, W("FifoTxBaseAddr", 0)) /\ WritesTo(W("FifoTxBaseAddr", 0), "FifoTxBaseAddr")
        /\ MakesRight(TX, s, W("FifoAddrPtr", 0)) /\ WritesTo(W("FifoAddrPtr", 0), "FifoAddrPtr")
        /\ MakesRight(TX, s, W("PayloadLength", s.len)) /\ WritesTo(W("PayloadLength", s.len), "PayloadLength")
    BY <1>1, <2>1, <2>2, WholeRight
  <2>4. WritesTo(Change("InvertIQ", 255 - 64, 0), "InvertIQ")
    BY DEF WritesTo, Change
  <2>5. QED
    BY <2>3, <2>4, InvertMade DEF q
<1>18. /\ \A e \in {Map(64), ToOp(STANDBY), ToOp(TX), Clear, Arm("TX_COMPLETE"), Burst(s.len)} \cup n : e \notin Settings
       /\ \A e \in {Map(64), ToOp(STANDBY), ToOp(TX), Clear, Arm("TX_COMPLETE"), Burst(s.len)} \cup n \cup q :
            ~WritesTo(e, "FifoTxBaseAddr") /\ ~WritesTo(e, "FifoAddrPtr")
       /\ ~WritesTo(W("PayloadLength", s.len), "FifoTxBaseAddr") /\ ~WritesTo(W("PayloadLength", s.len), "FifoAddrPtr")
       /\ ~WritesTo(W("FifoAddrPtr", 0), "FifoTxBaseAddr") /\ ~WritesTo(W("FifoTxBaseAddr", 0), "FifoAddrPtr")
  <2>1. \A e \in {Map(64), ToOp(STANDBY), ToOp(TX), Clear, Arm("TX_COMPLETE"), Burst(s.len)} :
          e \notin Settings /\ ~WritesTo(e, "FifoTxBaseAddr") /\ ~WritesTo(e, "FifoAddrPtr")
    BY DEF Settings, WritesTo, Map, ToOp, Clear, Arm, Burst, Change
  <2>2. \A e \in n : e \notin Settings /\ ~WritesTo(e, "FifoTxBaseAddr") /\ ~WritesTo(e, "FifoAddrPtr")
    BY DEF Settings, WritesTo, n, W, Change
  <2>3. \A e \in q : ~WritesTo(e, "FifoTxBaseAddr") /\ ~WritesTo(e, "FifoAddrPtr")
    BY DEF WritesTo, q, W, Change
  <2>4. /\ ~WritesTo(W("PayloadLength", s.len), "FifoTxBaseAddr") /\ ~WritesTo(W("PayloadLength", s.len), "FifoAddrPtr")
        /\ ~WritesTo(W("FifoAddrPtr", 0), "FifoTxBaseAddr") /\ ~WritesTo(W("FifoTxBaseAddr", 0), "FifoAddrPtr")
    BY DEF WritesTo, W, Change
  <2>5. QED
    BY <2>1, <2>2, <2>3, <2>4
<1>19. \A e \in ToSet(t) : e \in Settings => MakesRight(TX, s, e)
  BY <1>4, <1>5, <1>16, <1>17, <1>18
<1>20. \A reg \in Needed(TX) : \E e \in ToSet(t) : WritesTo(e, reg)
  <2>1. \A reg \in {"SyncWord", "FifoTxBaseAddr", "PayloadLength", "InvertIQ"} : \E e \in ToSet(t) : WritesTo(e, reg)
    <3>1. /\ W("SyncWord", 52) \in ToSet(t) /\ W("FifoTxBaseAddr", 0) \in ToSet(t)
          /\ W("PayloadLength", s.len) \in ToSet(t) /\ Change("InvertIQ", 255 - 64, 0) \in ToSet(t)
      BY <1>16 DEF q
    <3>2. QED
      BY <3>1, <1>17
  <2>2. \A reg \in {"ModemConfig1", "ModemConfig2", "FrfMsb", "FrfMid", "FrfLsb"} : \E e \in ToSet(t) : WritesTo(e, reg)
    BY <1>4, <1>16
  <2>3. self.type = "SX1272" \/ \E e \in ToSet(t) : WritesTo(e, "ModemConfig3")
    BY <1>4, <1>16
  <2>4. /\ \E e \in ToSet(t) : WritesTo(e, "PaConfig")
        /\ self.pa = "RFO" \/ \E e \in ToSet(t) : WritesTo(e, "PaDac")
    BY <1>5, <1>16
  <2>5. QED
    BY <2>1, <2>2, <2>3, <2>4 DEF Needed
<1>21. Settles(t, TX, s)
  BY <1>19, <1>20, NotNeeded DEF Settles
<1>22. Fills(t)
  <2>1. Before(t, FillWrites, Bursts)
    <3>1. ToSet(b) \cap Bursts = {}
      <4>1. \A e \in Settings \cup LineWrites : e \notin Bursts
        BY KindsApart
      <4>2. Map(64) \notin Bursts /\ ToOp(STANDBY) \notin Bursts
        BY KindsApart DEF Ops
      <4>3. QED
        BY <4>1, <4>2, <1>4, <1>5, <1>6, <1>11
    <3>2. Before(b, FillWrites, Bursts)
      BY <3>1, <1>11, BeforeNone
    <3>3. Before(c, FillWrites, Bursts)
      BY <3>1, <3>2, <1>7, <1>11, BeforeJoin DEF c
    <3>4. ToSet(z) \cap FillWrites = {} /\ ToSet(h) \cap Bursts = {}
      BY <1>8, <1>9 DEF FillWrites, Bursts, Burst, W, ToOp, Change, Clear, Arm
    <3>5. Before(z, FillWrites, Bursts) /\ Before(h, FillWrites, Bursts)
      BY <3>4, <1>8, <1>9, BeforeNone
    <3>6. Before(d, FillWrites, Bursts)
      BY <3>3, <3>4, <3>5, <1>8, <1>12, BeforeJoin DEF d
    <3>7. QED
      BY <3>4, <3>5, <3>6, <1>9, <1>13, <1>15, BeforeJoin
  <2>2. FillWrites \subseteq ToSet(t) /\ \E e \in ToSet(t) : e \in Bursts
    BY <1>7, <1>16 DEF FillWrites
  <2>3. \A e \in ToSet(t) : /\ WritesTo(e, "FifoTxBaseAddr") => e = W("FifoTxBaseAddr", 0)
                            /\ WritesTo(e, "FifoAddrPtr") => e = W("FifoAddrPtr", 0)
    <3>1. \A e \in ToSet(p) : ~WritesTo(e, "FifoTxBaseAddr") /\ ~WritesTo(e, "FifoAddrPtr")
      BY <1>5 DEF WritesTo
    <3>2. QED
      BY <3>1, <1>4, <1>16, <1>18
  <2>4. W("FifoTxBaseAddr", 0).reg = "FifoTxBaseAddr" /\ W("FifoAddrPtr", 0).reg = "FifoAddrPtr"
    BY DEF W, Change
  <2>5. \A e \in ToSet(t), w \in FillWrites : WritesTo(e, w.reg) => e = w
    BY <2>3, <2>4 DEF FillWrites
  <2>6. QED
    BY <2>1, <2>2, <2>5 DEF Fills
<1>23. QED
  BY <1>2, <1>21, <1>22

LEMMA ReceiveMade ==
    ASSUME TypeInv, NEW s \in RxSettings, Rate(s)
    PROVE  Settles(<<Clear, Arm("RX_READY"), Arm("RX_TIMEOUT")>> \o Receive(s), RX_SINGLE, s)
<1> DEFINE k == RX_SINGLE
           m == ToSet(SetModemConfig(s)) \cup ToSet(SetFreq(s.freq))
           a == <<Map(0)>> \o SetOp(STANDBY) \o SetModemConfig(s) \o SetFreq(s.freq)
           q == {W("SymbTimeoutLsb", s.timeout), W("SyncWord", 52), W("Lna", 35),
                 W("PayloadMaxLength", s.max), Change("InvertIQ", 255, 64)}
           n == {W("DioMapping1", 0), W("IrqFlags", 255), W("IrqFlagsMask", 63)}
           l == <<W("SymbTimeoutLsb", s.timeout), W("SyncWord", 52), W("Lna", 35), W("PayloadMaxLength", s.max),
                  Change("InvertIQ", 255, 64), W("DioMapping1", 0), W("IrqFlags", 255), W("IrqFlagsMask", 63)>>
           z == <<ToOp(RX_SINGLE)>>
           h == <<Clear, Arm("RX_READY"), Arm("RX_TIMEOUT")>>
           d == a \o l
           c == d \o z
           t == h \o c
<1>1. s.timeout \in Byte /\ s.max \in Byte /\ s.freq \in Nat /\ s.sf \in 6..12 /\ s.bw \in {125, 250, 500}
  BY RadioAssumption DEF RadioAssumption, Byte
<1>2. <<Clear, Arm("RX_READY"), Arm("RX_TIMEOUT")>> \o Receive(s) = t
  BY DEF Receive, SetOp, ToOp
<1> HIDE DEF t, c, d, k
<1>3. a \in Seq(Steps) /\ ToSet(a) = {Map(0), ToOp(STANDBY)} \cup m
  <2> HIDE DEF l, z, h, q, n
  <2>1. 0 \in {0, 64}
    OBVIOUS
  <2>2. a \in Seq(Steps)
    BY <1>1, <2>1, Beginning
  <2>3. ToSet(a) = {Map(0), ToOp(STANDBY)} \cup ToSet(SetModemConfig(s)) \cup ToSet(SetFreq(s.freq))
    BY <1>1, <2>1, Beginning
  <2>4. QED
    BY <2>2, <2>3
<1>4. /\ m \subseteq Settings
      /\ \A e \in m : MakesRight(k, s, e)
      /\ \A reg \in {"ModemConfig1", "ModemConfig2", "FrfMsb", "FrfMid", "FrfLsb"} : \E e \in m : WritesTo(e, reg)
      /\ self.type = "SX1272" \/ \E e \in m : WritesTo(e, "ModemConfig3")
  BY RateMade
<1>5. l \in Seq(Steps) /\ ToSet(l) = q \cup n
  <2>1. /\ W("SymbTimeoutLsb", s.timeout) \in Settings /\ W("PayloadMaxLength", s.max) \in Settings
        /\ W("SyncWord", 52) \in Settings /\ W("Lna", 35) \in Settings /\ Change("InvertIQ", 255, 64) \in Settings
    <3>1. \A v \in Byte : W("SymbTimeoutLsb", v) \in Settings /\ W("PayloadMaxLength", v) \in Settings
      BY SettingW, OtherNames, SMT DEF Byte
    <3>2. W("SyncWord", 52) \in Settings /\ W("Lna", 35) \in Settings /\ Change("InvertIQ", 255, 64) \in Settings
      BY Setting, SettingW, OtherNames
    <3>3. QED
      BY <1>1, <3>1, <3>2
  <2>2. n \subseteq LineWrites
    BY DEF LineWrites
  <2>3. l \in Seq(Steps)
    BY <2>1, <2>2, KnownSteps
  <2>4. ToSet(l) = q \cup n
    BY DEF ToSet
  <2>5. QED
    BY <2>3, <2>4
<1>6. z \in Seq(Steps) /\ ToSet(z) = {ToOp(RX_SINGLE)}
  BY KnownSteps, OneStep DEF Ops
<1>7. h \in Seq(Steps) /\ ToSet(h) = {Clear, Arm("RX_READY"), Arm("RX_TIMEOUT")}
  <2>1. Clear \in Steps /\ Arm("RX_READY") \in Steps /\ Arm("RX_TIMEOUT") \in Steps
    BY KnownSteps DEF Events
  <2>2. QED
    BY <2>1, ThreeSteps
<1> HIDE DEF m, a, l, z, h, q, n
<1>8. d \in Seq(Steps) /\ ToSet(d) = ToSet(a) \cup ToSet(l)
  BY <1>3, <1>5, JoinSteps DEF d
<1>9. c \in Seq(Steps) /\ ToSet(c) = ToSet(d) \cup ToSet(z)
  BY <1>6, <1>8, JoinSteps DEF c
<1>10. t \in Seq(Steps) /\ ToSet(t) = ToSet(h) \cup ToSet(c)
  BY <1>7, <1>9, JoinSteps DEF t
<1>11. ToSet(t) = {Map(0), ToOp(STANDBY), ToOp(RX_SINGLE), Clear, Arm("RX_READY"), Arm("RX_TIMEOUT")} \cup m \cup q \cup n
  BY <1>3, <1>5, <1>6, <1>7, <1>8, <1>9, <1>10
<1>12. /\ \A e \in q : MakesRight(k, s, e)
       /\ WritesTo(W("SyncWord", 52), "SyncWord")
       /\ WritesTo(W("SymbTimeoutLsb", s.timeout), "SymbTimeoutLsb")
       /\ WritesTo(W("PayloadMaxLength", s.max), "PayloadMaxLength")
       /\ WritesTo(Change("InvertIQ", 255, 64), "InvertIQ")
  <2>1. /\ Right(k, s, "SyncWord", 52) /\ Right(k, s, "Lna", 35)
        /\ Right(k, s, "SymbTimeoutLsb", s.timeout) /\ Right(k, s, "PayloadMaxLength", s.max)
    BY DEF Right, RateRight, PowerRight, k, TX, RX_SINGLE
  <2>2. 52 \in Byte /\ 35 \in Byte
    BY SMT DEF Byte
  <2>3. /\ MakesRight(k, s, W("SyncWord", 52)) /\ WritesTo(W("SyncWord", 52), "SyncWord")
        /\ MakesRight(k, s, W("Lna", 35))
        /\ MakesRight(k, s, W("SymbTimeoutLsb", s.timeout)) /\ WritesTo(W("SymbTimeoutLsb", s.timeout), "SymbTimeoutLsb")
        /\ MakesRight(k, s, W("PayloadMaxLength", s.max)) /\ WritesTo(W("PayloadMaxLength", s.max), "PayloadMaxLength")
    BY <1>1, <2>1, <2>2, WholeRight
  <2>4. MakesRight(k, s, Change("InvertIQ", 255, 64))
    BY InvertMade DEF k
  <2>5. WritesTo(Change("InvertIQ", 255, 64), "InvertIQ")
    BY DEF WritesTo, Change
  <2>6. QED
    BY <2>3, <2>4, <2>5 DEF q
<1>13. \A e \in {Map(0), ToOp(STANDBY), ToOp(RX_SINGLE), Clear, Arm("RX_READY"), Arm("RX_TIMEOUT")} \cup n : e \notin Settings
  BY DEF Settings, n, Map, ToOp, Clear, Arm, W, Change
<1>14. \A reg \in Needed(k) : \E e \in ToSet(t) : WritesTo(e, reg)
  <2>1. \A reg \in {"SyncWord", "SymbTimeoutLsb", "PayloadMaxLength", "InvertIQ"} : \E e \in ToSet(t) : WritesTo(e, reg)
    <3>1. /\ W("SyncWord", 52) \in ToSet(t) /\ W("SymbTimeoutLsb", s.timeout) \in ToSet(t)
          /\ W("PayloadMaxLength", s.max) \in ToSet(t) /\ Change("InvertIQ", 255, 64) \in ToSet(t)
      BY <1>11 DEF q
    <3>2. QED
      BY <3>1, <1>12
  <2>2. \A reg \in {"ModemConfig1", "ModemConfig2", "FrfMsb", "FrfMid", "FrfLsb"} : \E e \in ToSet(t) : WritesTo(e, reg)
    BY <1>4, <1>11
  <2>3. self.type = "SX1272" \/ \E e \in ToSet(t) : WritesTo(e, "ModemConfig3")
    BY <1>4, <1>11
  <2>4. k # TX
    BY DEF k, TX, RX_SINGLE
  <2>5. QED
    BY <2>1, <2>2, <2>3, <2>4 DEF Needed
<1>15. \A e \in ToSet(t) : e \in Settings => MakesRight(k, s, e)
  BY <1>4, <1>11, <1>12, <1>13
<1>16. Settles(t, k, s)
  BY <1>14, <1>15, NotNeeded DEF Settles
<1>17. QED
  BY <1>2, <1>16 DEF k

-----------------------------------------------------------------------------
(* What the registers mean to the chip, once they are right. *)

LEMMA OneBit ==
    ASSUME NEW x \in Byte
    PROVE  /\ And(x, 1) = x % 2
           /\ And(x, 2) = 2 * ((x \div 2) % 2)
           /\ And(x, 4) = 4 * ((x \div 4) % 2)
           /\ And(x, 8) = 8 * ((x \div 8) % 2)
<1>1. And(x, 1) = x % 2
  BY SMTT(60) DEF And, Byte
<1>2. And(x, 2) = 2 * ((x \div 2) % 2)
  BY SMTT(60) DEF And, Byte
<1>3. And(x, 4) = 4 * ((x \div 4) % 2)
  BY SMTT(60) DEF And, Byte
<1>4. And(x, 8) = 8 * ((x \div 8) % 2)
  BY SMTT(60) DEF And, Byte
<1>5. QED
  BY <1>1, <1>2, <1>3, <1>4

\* The frequency is met to a step of the synthesiser, 15625/256 Hz.
LEMMA FrequencyMet ==
    ASSUME NEW f \in Nat
    PROVE  LET frf == 65536 * (Frf(f) \div 65536) + 256 * ((Frf(f) \div 256) % 256) + (Frf(f) % 256)
           IN (frf \div 256) * 15625 + ((frf % 256) * 15625) \div 256 \in f - 62 .. f
<1> DEFINE q == f \div 15625
           r == f % 15625
           g == (256 * r) \div 15625
<1>1. f = 15625 * q + r /\ q \in Nat /\ r \in 0..15624 /\ g \in 0..255 /\ Frf(f) = 256 * q + g
  BY SynthesiserStep DEF Frf
<1>2. 15625 * g <= 256 * r /\ 256 * r < 15625 * g + 15625
  <2> HIDE DEF r
  <2>1. \A n \in Nat : 15625 * (n \div 15625) <= n /\ n < 15625 * (n \div 15625) + 15625
    BY SMTT(30)
  <2>2. 256 * r \in Nat
    BY <1>1
  <2>3. QED
    BY <2>1, <2>2
<1> HIDE DEF q, r, g
<1>3. ASSUME NEW n \in Nat
      PROVE  65536 * (n \div 65536) + 256 * ((n \div 256) % 256) + (n % 256) = n
  <2>1. n = 256 * (n \div 256) + (n % 256) /\ n \div 256 \in Nat /\ n % 256 \in 0..255
    BY SMTT(30)
  <2>2. \A m \in Nat : m = 256 * (m \div 256) + (m % 256)
    BY SMTT(30)
  <2>3. n \div 65536 = (n \div 256) \div 256
    BY SMTT(30)
  <2>4. (n \div 256) \div 256 \in Nat /\ (n \div 256) % 256 \in 0..255
    BY <2>1, SMT
  <2>5. n \div 256 = 256 * ((n \div 256) \div 256) + ((n \div 256) % 256)
    BY <2>1, <2>2
  <2> DEFINE c == n % 256
             d == n \div 256
             b == d % 256
             a == d \div 256
  <2>6. /\ a \in Nat /\ b \in 0..255 /\ c \in 0..255 /\ d \in Nat
        /\ n = 256 * d + c /\ d = 256 * a + b /\ n \div 65536 = a
    BY <2>1, <2>3, <2>4, <2>5
  <2> HIDE DEF a, b, c, d
  <2>7. 65536 * a + 256 * b + c = n
    BY <2>6, SMT
  <2>8. QED
    BY <2>6, <2>7 DEF a, b, c, d
<1>4. Frf(f) \in Nat /\ Frf(f) \div 256 = q /\ Frf(f) % 256 = g
  BY <1>1, SMTT(30)
<1>5. (g * 15625) \div 256 \in r - 62 .. r
  BY <1>1, <1>2, SMTT(30)
<1>6. q * 15625 + (g * 15625) \div 256 \in f - 62 .. f
  BY <1>1, <1>5, SMTT(30)
<1>7. QED
  BY <1>3, <1>4, <1>6

\* Symbols longer than 16 ms are those of the two slowest rates at 125 kHz, as
\* long as the slowest is not used at 250 kHz.
LEMMA LowRateMet ==
    ASSUME NEW s, s.sf \in 6..12, s.bw \in {125, 250, 500}, s.bw = 250 => s.sf < 12
    PROVE  LowRate(s) = 1 <=> 2^s.sf > 16 * s.bw
<1>1. 2^6 = 64 /\ 2^7 = 128 /\ 2^8 = 256 /\ 2^9 = 512 /\ 2^10 = 1024 /\ 2^11 = 2048 /\ 2^12 = 4096
  OBVIOUS
<1>2. LowRate(s) = 1 <=> s.bw = 125 /\ s.sf \in {11, 12}
  BY DEF LowRate
<1>3. CASE s.sf = 6
  BY <1>1, <1>2, <1>3
<1>4. CASE s.sf = 7
  BY <1>1, <1>2, <1>4
<1>5. CASE s.sf = 8
  BY <1>1, <1>2, <1>5
<1>6. CASE s.sf = 9
  BY <1>1, <1>2, <1>6
<1>7. CASE s.sf = 10
  BY <1>1, <1>2, <1>7
<1>8. CASE s.sf = 11
  BY <1>1, <1>2, <1>8
<1>9. CASE s.sf = 12
  BY <1>1, <1>2, <1>9
<1>10. s.sf \in {6, 7, 8, 9, 10, 11, 12}
  BY SMT
<1>11. QED
  BY <1>3, <1>4, <1>5, <1>6, <1>7, <1>8, <1>9, <1>10

\* ModemConfig1, 2 and 3, read back.
LEMMA ConfigMet ==
    ASSUME TypeInv, NEW s, Rate(s), s.bw = 250 => s.sf < 12,
           regs.ModemConfig1 = Config1(s), regs.ModemConfig2 = SfSetting(s) + 4,
           self.type = "SX1272" \/ regs.ModemConfig3 = 8 * LowRate(s) + 4
    PROVE  /\ ChipSf = s.sf /\ ChipBw = s.bw /\ ChipCodingRate = 1 /\ ChipExplicit /\ ChipCrc
           /\ ChipLowRate <=> 2^s.sf > 16 * s.bw
           /\ regs.ModemConfig2 % 4 = 0
<1> DEFINE m1 == regs.ModemConfig1
           m2 == regs.ModemConfig2
           m3 == regs.ModemConfig3
<1>1. LowRate(s) \in {0, 1} /\ (LowRate(s) = 1 <=> 2^s.sf > 16 * s.bw)
  BY RateBytes, LowRateMet DEF Rate
<1>2. m1 \in Byte /\ m2 \in Byte /\ (self.type # "SX1272" => m3 \in Byte)
  BY RateBytes
<1>3. m2 = 16 * s.sf + 4 /\ m2 \div 16 = s.sf /\ (m2 \div 4) % 2 = 1 /\ m2 % 4 = 0
  <2>1. \A n \in 6..12 : (16 * n + 4) \div 16 = n /\ ((16 * n + 4) \div 4) % 2 = 1 /\ (16 * n + 4) % 4 = 0
    BY SMTT(30)
  <2>2. QED
    BY <2>1 DEF SfSetting, Rate
<1>4. ChipSf = s.sf /\ regs.ModemConfig2 % 4 = 0
  BY <1>3 DEF ChipSf
<1>5. CASE self.type = "SX1272"
  <2> DEFINE w == s.bw \div 250
  <2>1. m1 = 64 * w + 10 + LowRate(s) /\ w \in {0, 1, 2} /\ <<125, 250, 500>>[w + 1] = s.bw
    <3>1. BwSetting(s) = 64 * w /\ CrSetting = 8
      BY <1>5 DEF BwSetting, CrSetting, Rate
    <3>2. w \in {0, 1, 2} /\ <<125, 250, 500>>[w + 1] = s.bw
      <4>1. 125 \div 250 = 0 /\ 250 \div 250 = 1 /\ 500 \div 250 = 2
        BY SMT
      <4>2. QED
        BY <4>1 DEF Rate
    <3> HIDE DEF w
    <3>3. QED
      BY <3>1, <3>2, <1>1, <1>5, SMT DEF Config1
  <2> HIDE DEF w, m1
  <2>2. /\ m1 \div 64 = w /\ (m1 \div 8) % 8 = 1 /\ (m1 \div 4) % 2 = 0 /\ (m1 \div 2) % 2 = 1
        /\ m1 % 2 = LowRate(s)
    <3>1. \A a \in {0, 1, 2}, b \in {0, 1} :
            LET x == 64 * a + 10 + b IN
            x \div 64 = a /\ (x \div 8) % 8 = 1 /\ (x \div 4) % 2 = 0 /\ (x \div 2) % 2 = 1 /\ x % 2 = b
      BY SMTT(30)
    <3>2. QED
      BY <3>1, <2>1, <1>1
  <2>3. And(m1, 4) = 0 /\ And(m1, 2) = 2 /\ And(m1, 1) = LowRate(s)
    BY <2>2, <1>2, OneBit
  <2>4. ChipBw = s.bw /\ ChipCodingRate = 1
    BY <2>1, <2>2, <1>5 DEF m1, ChipBw, ChipCodingRate
  <2>5. ChipExplicit /\ ChipCrc
    BY <2>3, <1>5 DEF m1, ChipExplicit, ChipCrc
  <2>6. ChipLowRate <=> 2^s.sf > 16 * s.bw
    <3>1. ChipLowRate <=> LowRate(s) # 0
      BY <2>3, <1>5 DEF m1, ChipLowRate
    <3>2. QED
      BY <3>1, <1>1
  <2>7. QED
    BY <2>4, <2>5, <2>6, <1>4
<1>6. CASE self.type # "SX1272"
  <2> DEFINE w == s.bw \div 250
  <2>1. m1 = 114 + 16 * w /\ w \in {0, 1, 2} /\ <<125, 250, 500>>[w + 1] = s.bw
    <3>1. BwSetting(s) = 112 + 16 * w /\ CrSetting = 2
      BY <1>6 DEF BwSetting, CrSetting, Rate
    <3>2. w \in {0, 1, 2} /\ <<125, 250, 500>>[w + 1] = s.bw
      <4>1. 125 \div 250 = 0 /\ 250 \div 250 = 1 /\ 500 \div 250 = 2
        BY SMT
      <4>2. QED
        BY <4>1 DEF Rate
    <3> HIDE DEF w
    <3>3. QED
      BY <3>1, <3>2, <1>6, SMT DEF Config1
  <2> HIDE DEF w, m1
  <2>2. m1 \div 16 - 6 = w + 1 /\ (m1 \div 2) % 8 = 1 /\ m1 % 2 = 0
    <3>1. \A a \in {0, 1, 2} : LET x == 114 + 16 * a IN x \div 16 - 6 = a + 1 /\ (x \div 2) % 8 = 1 /\ x % 2 = 0
      BY SMTT(30)
    <3>2. QED
      BY <3>1, <2>1
  <2>3. And(m1, 1) = 0 /\ And(m2, 4) = 4
    BY <2>2, <1>2, <1>3, OneBit
  <2>4. And(m3, 8) = 8 * LowRate(s)
    <3>1. m3 = 8 * LowRate(s) + 4
      BY <1>6
    <3>2. (m3 \div 8) % 2 = LowRate(s)
      BY <3>1, <1>1, SMT
    <3>3. QED
      BY <3>2, <1>2, <1>6, OneBit
  <2>5. ChipBw = s.bw /\ ChipCodingRate = 1
    BY <2>1, <2>2, <1>6 DEF m1, ChipBw, ChipCodingRate
  <2>6. ChipExplicit /\ ChipCrc
    BY <2>3, <1>6 DEF m1, ChipExplicit, ChipCrc
  <2>7. ChipLowRate <=> 2^s.sf > 16 * s.bw
    <3>1. ChipLowRate <=> And(m3, 8) # 0
      BY <1>6 DEF ChipLowRate
    <3>2. QED
      BY <3>1, <2>4, <1>1
  <2>8. QED
    BY <2>5, <2>6, <2>7, <1>4
<1>7. QED
  BY <1>5, <1>6

\* The power that is set is the highest not above what was asked, or the lowest.
LEMMA ClampMet ==
    ASSUME NEW dbm \in Int, dbm \notin -99..-1, NEW low \in -1..2, NEW high \in Nat, low <= high
    PROVE  LET c == Clamp(Dbm(dbm), low, high) IN
           /\ c \in low..high
           /\ 100 * c <= dbm \/ (c = low /\ dbm < 100 * low)
           /\ \A p \in low..high : 100 * p <= dbm => p <= c
<1> DEFINE d == Dbm(dbm)
<1>1. d \in Int
  BY SMT DEF Dbm
<1>2. \A p \in Int : /\ p >= -1 /\ 100 * p <= dbm => p <= d
                     /\ p >= 0 /\ p <= d => 100 * p <= dbm
  <2>1. CASE dbm < 0
    <3>1. \A n \in Nat : 100 * (n \div 100) <= n /\ n < 100 * (n \div 100) + 100 /\ n \div 100 \in Nat
      BY SMTT(30)
    <3>2. PICK m \in Nat : dbm = 0 - m
      <4>1. 0 - dbm \in Nat /\ dbm = 0 - (0 - dbm)
        BY <2>1, SMT
      <4>2. QED
        BY <4>1
    <3>3. PICK n \in Nat : n = m \div 100
      BY <3>1
    <3>4. -dbm = m
      BY <3>2, SMT
    <3>5. d = 0 - n
      <4>1. d = -((-dbm) \div 100)
        BY <2>1 DEF Dbm
      <4>2. d = -n
        BY <3>3, <3>4, <4>1
      <4> HIDE DEF d
      <4>3. QED
        BY <4>2, SMT
    <3>6. 100 * n <= m /\ m < 100 * n + 100 /\ m >= 100
      <4>1. m >= 100
        BY <2>1, <3>2, SMT
      <4>2. QED
        BY <3>1, <3>3, <4>1
    <3> HIDE DEF d
    <3>7. n >= 1
      BY <3>6, SMT
    <3>8. QED
      BY <3>2, <3>5, <3>6, <3>7, SMT
  <2>2. CASE dbm >= 0
    <3>1. \A n \in Nat : 100 * (n \div 100) <= n /\ n < 100 * (n \div 100) + 100 /\ n \div 100 \in Nat
      BY SMTT(30)
    <3>2. 100 * d <= dbm /\ dbm < 100 * d + 100
      BY <2>2, <3>1 DEF Dbm
    <3> HIDE DEF d
    <3>3. QED
      BY <1>1, <3>2, SMT
  <2>3. QED
    BY <2>1, <2>2
<1> HIDE DEF d
<1>3. CASE d < low
  <2>1. Clamp(d, low, high) = low /\ ~(100 * low <= dbm)
    BY <1>1, <1>2, <1>3, SMT DEF Clamp
  <2>2. \A p \in low..high : ~(100 * p <= dbm)
    BY <1>1, <1>2, <1>3, SMT
  <2>3. QED
    BY <2>1, <2>2, SMT DEF d
<1>4. CASE d > high
  <2>1. Clamp(d, low, high) = high /\ 100 * high <= dbm
    BY <1>1, <1>2, <1>4, SMT DEF Clamp
  <2>2. QED
    BY <2>1, SMT DEF d
<1>5. CASE d \in low..high
  <2>1. Clamp(d, low, high) = d
    BY <1>1, <1>5, SMT DEF Clamp
  <2>2. \A p \in low..high : 100 * p <= dbm => p <= d
    BY <1>2, SMT
  <2>3. 100 * d <= dbm \/ (d = low /\ dbm < 100 * low)
    <3>1. CASE d >= 0
      BY <1>1, <1>2, <3>1
    <3>2. CASE ~(d >= 0)
      <4>1. d = low /\ 100 * d \in Int
        BY <1>1, <1>5, <3>2, SMT
      <4>2. QED
        BY <4>1, SMT
    <3>3. QED
      BY <3>1, <3>2
  <2>4. QED
    BY <2>1, <2>2, <2>3, <1>5 DEF d
<1>6. QED
  BY <1>1, <1>3, <1>4, <1>5, SMT

LEMMA PowerMet ==
    ASSUME TypeInv, asked.dbm \in Int, asked.dbm \notin -99..-1,
           self.pa = "RFO" => regs.PaConfig < 128,
           PowerRight(asked, "PaConfig", regs.PaConfig), PowerRight(asked, "PaDac", regs.PaDac)
    PROVE  PowerAsAsked
<1> DEFINE dbm == asked.dbm
           below == {p \in Powers : 100 * p <= dbm}
<1>1. /\ self.pa \in {"RFO", "BOOST"} /\ regs.PaConfig \in Byte
  BY OtherNames DEF TypeInv, Drivers
<1>2. regs.PaConfig >= 128 <=> self.pa = "BOOST"
  BY <1>1, SMT DEF PowerRight, Byte
<1>3. ASSUME self.pa = "RFO", self.type = "SX1272"
      PROVE  /\ ChipPower \in Powers
             /\ IF below = {} THEN \A p \in Powers : ChipPower <= p
                ELSE ChipPower \in below /\ \A p \in below : p <= ChipPower
  <2> DEFINE c == Clamp(Dbm(dbm), -1, 14)
  <2>1. /\ c \in -1..14 /\ (100 * c <= dbm \/ (c = -1 /\ dbm < 100 * (-1)))
        /\ \A p \in -1..14 : 100 * p <= dbm => p <= c
    <3>1. -1 \in -1..2 /\ 14 \in Nat /\ -1 <= 14
      BY SMT
    <3>2. dbm \in Int /\ dbm \notin -99..-1
      OBVIOUS
    <3> HIDE DEF dbm
    <3>3. QED
      BY <3>1, <3>2, ClampMet
  <2>2. regs.PaConfig % 16 = c + 1
    BY <1>3 DEF PowerRight
  <2> HIDE DEF c
  <2>3. ChipPower = c /\ Powers = -1..14
    BY <1>1, <1>2, <1>3, <2>1, <2>2, SMT DEF ChipPower, Powers, Byte
  <2>4. CASE 100 * c <= dbm
    BY <2>1, <2>3, <2>4
  <2>5. CASE c = -1 /\ dbm < 100 * (-1)
    <3>1. below = {}
      BY <2>3, <2>5, SMT
    <3>2. QED
      BY <2>1, <2>3, <2>5, <3>1, SMT
  <2>6. QED
    BY <2>1, <2>4, <2>5
<1>4. ASSUME self.pa = "BOOST"
      PROVE  /\ ChipPower \in Powers
             /\ IF below = {} THEN \A p \in Powers : ChipPower <= p
                ELSE ChipPower \in below /\ \A p \in below : p <= ChipPower
  <2>1. Powers = (2..17) \cup {20}
    BY <1>4 DEF Powers
  <2>2. /\ regs.PaDac % 8 = (IF Dbm(dbm) >= 20 THEN 7 ELSE 4)
        /\ regs.PaConfig >= 128 /\ regs.PaConfig % 16 = Boosted(asked)
    BY <1>4 DEF PowerRight
  <2>3. Dbm(dbm) \in Int /\ (Dbm(dbm) >= 20 <=> dbm >= 2000)
    BY SMTT(30) DEF Dbm
  <2>4. CASE Dbm(dbm) >= 20
    <3>1. ChipPower = 20
      BY <1>1, <2>2, <2>4, SMT DEF ChipPower, Boosted, Byte
    <3>2. 20 \in below /\ \A p \in below : p <= 20
      BY <2>1, <2>3, <2>4, SMT
    <3>3. QED
      BY <2>1, <3>1, <3>2
  <2>5. CASE ~(Dbm(dbm) >= 20)
    <3> DEFINE c == Clamp(Dbm(dbm), 2, 17)
    <3>1. /\ c \in 2..17 /\ (100 * c <= dbm \/ (c = 2 /\ dbm < 100 * 2))
          /\ \A p \in 2..17 : 100 * p <= dbm => p <= c
      <4>1. 2 \in -1..2 /\ 17 \in Nat /\ 2 <= 17
        BY SMT
      <4>2. dbm \in Int /\ dbm \notin -99..-1
        OBVIOUS
      <4> HIDE DEF dbm
      <4>3. QED
        BY <4>1, <4>2, ClampMet
    <3>2. regs.PaConfig % 16 = c - 2 /\ regs.PaDac % 8 = 4
      BY <2>2, <2>5 DEF Boosted
    <3> HIDE DEF c
    <3>3. ChipPower = c
      BY <1>1, <2>2, <3>1, <3>2, SMT DEF ChipPower, Byte
    <3>4. \A p \in below : p \in 2..17
      BY <2>1, <2>3, <2>5, SMT
    <3>5. CASE 100 * c <= dbm
      BY <2>1, <3>1, <3>3, <3>4, <3>5
    <3>6. CASE c = 2 /\ dbm < 100 * 2
      <4>1. below = {}
        BY <3>4, <3>6, SMT
      <4>2. QED
        BY <2>1, <3>1, <3>3, <3>6, <4>1, SMT
    <3>7. QED
      BY <3>1, <3>5, <3>6
  <2>6. QED
    BY <2>4, <2>5
<1>5. QED
  BY <1>1, <1>2, <1>3, <1>4 DEF PowerAsAsked

\* A chip whose settings are right operates as it was asked to.
LEMMA SettledMeans ==
    ASSUME Askable, TypeInv, Op(regs) \in Goals => Settled(Op(regs)), self.pa = "RFO" => regs.PaConfig < 128
    PROVE  AsAsked
<1>1. CASE Op(regs) \notin Goals
  BY <1>1 DEF Goals, AsAsked, OperatesAsAsked, PowerAsAsked
<1>2. CASE Op(regs) \in Goals
  <2> DEFINE k == Op(regs)
  <2>1. /\ k \in {TX, RX_SINGLE} /\ asked \in Chosen(k)
        /\ \A reg \in Registers : Right(k, asked, reg, regs[reg])
        /\ k = TX => chip.fifo = "payload"
    BY <1>2 DEF Goals, Settled
  <2>2. /\ Rate(asked) /\ (asked.bw = 250 => asked.sf < 12)
        /\ k = TX => asked.dbm \in Int /\ asked.dbm \notin -99..-1
    BY <2>1, RadioAssumption DEF RadioAssumption, Askable, Chosen, Rate
  <2> HIDE DEF k
  <2>3. /\ Right(k, asked, "ModemConfig1", regs.ModemConfig1) /\ Right(k, asked, "ModemConfig2", regs.ModemConfig2)
        /\ Right(k, asked, "ModemConfig3", regs.ModemConfig3) /\ Right(k, asked, "FrfMsb", regs.FrfMsb)
        /\ Right(k, asked, "FrfMid", regs.FrfMid) /\ Right(k, asked, "FrfLsb", regs.FrfLsb)
        /\ Right(k, asked, "SyncWord", regs.SyncWord) /\ Right(k, asked, "InvertIQ", regs.InvertIQ)
        /\ Right(k, asked, "FifoTxBaseAddr", regs.FifoTxBaseAddr)
        /\ Right(k, asked, "PayloadLength", regs.PayloadLength)
        /\ Right(k, asked, "SymbTimeoutLsb", regs.SymbTimeoutLsb)
        /\ Right(k, asked, "PayloadMaxLength", regs.PayloadMaxLength)
        /\ Right(k, asked, "PaConfig", regs.PaConfig) /\ Right(k, asked, "PaDac", regs.PaDac)
    BY <2>1, OtherNames
  <2>4. /\ regs.ModemConfig1 = Config1(asked) /\ regs.ModemConfig2 = SfSetting(asked) + 4
        /\ self.type = "SX1272" \/ regs.ModemConfig3 = 8 * LowRate(asked) + 4
        /\ regs.FrfMsb = Frf(asked.freq) \div 65536
        /\ regs.FrfMid = (Frf(asked.freq) \div 256) % 256 /\ regs.FrfLsb = Frf(asked.freq) % 256
        /\ regs.SyncWord = 52
        /\ And(regs.InvertIQ, 64) = IF k = TX THEN 0 ELSE 64
    BY <2>3 DEF Right, RateRight
  <2>5. /\ ChipSf = asked.sf /\ ChipBw = asked.bw /\ ChipCodingRate = 1 /\ ChipExplicit /\ ChipCrc
        /\ ChipLowRate <=> 2^asked.sf > 16 * asked.bw
        /\ regs.ModemConfig2 % 4 = 0
    BY <2>2, <2>4, ConfigMet
  <2>6. ChipFreq \in asked.freq - 62 .. asked.freq
    <3>1. asked.freq \in Nat
      BY <2>2 DEF Rate
    <3>2. QED
      BY <2>4, <3>1, FrequencyMet DEF ChipFreq
  <2>7. k = TX => PowerAsAsked
    BY <2>1, <2>2, <2>3, PowerMet DEF Right
  <2>8. k # TX => PowerAsAsked
    BY DEF PowerAsAsked, k
  <2>9. /\ k = TX => regs.FifoTxBaseAddr = 0 /\ regs.PayloadLength = asked.len
        /\ k # TX => regs.SymbTimeoutLsb = asked.timeout /\ regs.PayloadMaxLength = asked.max
    BY <2>3 DEF Right
  <2>10. OperatesAsAsked
    BY <2>1, <2>4, <2>5, <2>6, <2>9 DEF OperatesAsAsked, k
  <2>11. QED
    BY <2>7, <2>8, <2>10 DEF AsAsked
<1>3. QED
  BY <1>1, <1>2

-----------------------------------------------------------------------------
(* Every step keeps the settings. *)

\* Registers that are no settings, and one that is set again for every frame.
Free == {"OpMode", "DioMapping1", "IrqFlags", "IrqFlagsMask", "FifoAddrPtr"}

LEMMA FreeRight ==
    ASSUME NEW k, NEW s, NEW reg \in Free, NEW v
    PROVE  Right(k, s, reg, v)
<1>1. reg \notin Needed(k)
  BY DEF Needed, Free
<1>2. QED
  BY <1>1, NotNeeded

LEMMA SettledKept ==
    ASSUME NEW k, Settled(k), self'.type = self.type, self'.pa = self.pa, asked' = asked, chip'.fifo = chip.fifo,
           \A reg \in Registers \ Free : regs'[reg] = regs[reg]
    PROVE  Settled(k)'
<1>1. \A reg \in Registers : Right(k, asked, reg, regs[reg])
  BY DEF Settled
<1>2. ASSUME NEW reg \in Registers
      PROVE  Right(k, asked, reg, regs'[reg])
  BY <1>1, <1>2, FreeRight
<1>3. \A reg \in Registers : Right(k, asked, reg, regs[reg])'
  <2>1. \A s, reg, v : Right(k, s, reg, v)' <=> Right(k, s, reg, v)
    BY SameRight
  <2>2. QED
    BY <1>2, <2>1
<1>4. QED
  BY <1>3 DEF Settled, Chosen

LEMMA KindOfWrite ==
    ASSUME NEW e \in Writes
    PROVE  /\ e.do = "write" /\ e \notin Bursts
           /\ e \notin Settings => e.reg \in Free
           /\ e.reg = "OpMode" => e \in ModeWrites /\ e \notin Settings
<1>1. CASE e \in ModeWrites
  <2>1. e.do = "write" /\ e.reg = "OpMode"
    BY <1>1 DEF ModeWrites, ToOp, ToLora, Change
  <2>2. QED
    BY <1>1, <2>1 DEF Free, Bursts, Burst, Settings
<1>2. CASE e \in LineWrites
  <2>1. e.do = "write" /\ e.reg \in {"DioMapping1", "IrqFlags", "IrqFlagsMask"}
    BY <1>2 DEF LineWrites, W, Change
  <2>2. QED
    BY <2>1 DEF Free, Bursts, Burst
<1>3. CASE e \in Settings
  BY <1>3 DEF Settings, Bursts, Burst
<1>4. QED
  BY <1>1, <1>2, <1>3 DEF Writes

\* A write spoils no register that is right, and makes its own right.
LEMMA WriteRight ==
    ASSUME TypeInv, LoraInv, self.pa = "RFO" => regs.PaConfig < 128, WriteRegister, NEW k, NEW s,
           Head(todo) \in Settings => MakesRight(k, s, Head(todo))
    PROVE  /\ \A reg \in Registers : Right(k, s, reg, regs[reg]) \/ reg = Head(todo).reg => Right(k, s, reg, regs'[reg])
           /\ Head(todo) \in Settings => AtRFO(Head(todo).reg, regs'[Head(todo).reg])
<1> DEFINE e == Head(todo)
<1>1. /\ e \in Writes /\ e.reg \in Registers
      /\ \A reg \in Registers : reg # e.reg => regs'[reg] = regs[reg]
      /\ e \in Settings => regs'[e.reg] = Or(And(regs[e.reg], e.keep), e.value)
  BY WrittenValue
<1>2. regs[e.reg] \in Byte /\ AtRFO(e.reg, regs[e.reg])
  BY <1>1 DEF TypeInv, AtRFO
<1> HIDE DEF e
<1>3. ASSUME e \in Settings
      PROVE  Right(k, s, e.reg, regs'[e.reg]) /\ AtRFO(e.reg, regs'[e.reg])
  BY <1>1, <1>2, <1>3 DEF MakesRight, e
<1>4. ASSUME e \notin Settings
      PROVE  Right(k, s, e.reg, regs'[e.reg])
  BY <1>1, <1>4, KindOfWrite, FreeRight
<1>5. QED
  BY <1>1, <1>3, <1>4 DEF e

\* What is left of the writes before the frame is copied.
LEMMA WriteFills ==
    ASSUME TypeInv, LoraInv, Filling, WriteRegister
    PROVE  Filling'
<1> DEFINE e == Head(todo)
<1>1. /\ e \in Writes /\ e \in ToDo /\ ToDo = {e} \cup ToDo' /\ todo' = Tail(todo)
      /\ \A reg \in Registers : reg # e.reg => regs'[reg] = regs[reg]
      /\ e \in Settings => regs'[e.reg] = Or(And(regs[e.reg], e.keep), e.value)
  BY WrittenValue
<1>2. e.do = "write" /\ e \notin Bursts
  BY <1>1, KindOfWrite
<1>3. todo \in Seq(Steps) /\ todo # <<>>
  BY DEF TypeInv, WriteRegister, Doing
<1> HIDE DEF e
<1>4. \E b \in ToDo' : b \in Bursts
  BY <1>1, <1>2 DEF Filling
<1>5. Before(todo', FillWrites, Bursts)
  BY <1>1, <1>3, BeforeTail DEF Filling
<1>6. \A b \in ToDo', f \in FillWrites : WritesTo(b, f.reg) => b = f
  BY <1>1 DEF Filling
<1>7. ASSUME NEW f \in FillWrites
      PROVE  regs'[f.reg] = 0 \/ f \in ToDo'
  <2>1. f.reg \in Registers /\ f \in Settings /\ f.keep = 0 /\ f.value = 0
    <3>1. W("FifoTxBaseAddr", 0) \in Settings /\ W("FifoAddrPtr", 0) \in Settings
      BY SettingW, OtherNames
    <3>2. QED
      BY <3>1, OtherNames DEF FillWrites, W, Change
  <2>2. CASE f = e
    <3>1. regs[f.reg] \in Byte
      BY <2>1 DEF TypeInv
    <3>2. Or(And(regs[f.reg], 0), 0) = 0
      <4>1. 0 \in Byte
        BY SMT DEF Byte
      <4>2. QED
        BY <3>1, <4>1, SettingBits
    <3>3. QED
      BY <1>1, <2>1, <2>2, <3>2
  <2>3. CASE f # e /\ f \in ToDo
    BY <1>1, <2>3
  <2>4. CASE f # e /\ regs[f.reg] = 0
    <3>1. e.reg # f.reg
      BY <1>1, <1>2, <2>4 DEF Filling, WritesTo
    <3>2. QED
      BY <1>1, <2>1, <2>4, <3>1
  <2>5. QED
    BY <2>2, <2>3, <2>4 DEF Filling
<1>8. QED
  BY <1>4, <1>5, <1>6, <1>7 DEF Filling

\* What a write in the course of a call leaves to do and of the FIFO.
LEMMA WriteSettling ==
    ASSUME IInv, SettingsInv, WriteRegister, todo' # <<>>, state \in Active, NEW k \in Goals, Goal(state) = k
    PROVE  Settling(k)'
<1> DEFINE e == Head(todo)
<1>1. /\ TypeInv /\ LoraInv /\ Settling(k)
      /\ todo # <<>> /\ Prepare /\ (self.pa = "RFO" => regs.PaConfig < 128)
  <2>1. todo # <<>>
    BY DEF WriteRegister, Doing
  <2>2. QED
    BY <2>1 DEF IInv, SettingsInv
<1>2. /\ e \in Writes /\ e \in ToDo /\ ToDo = {e} \cup ToDo' /\ todo' = Tail(todo) /\ e.reg \in Registers
      /\ UNCHANGED <<self, state, asked>>
  BY <1>1, WrittenValue
<1>3. e.do = "write"
  BY <1>2, KindOfWrite
<1>4. e \in Settings => MakesRight(k, asked, e)
  BY <1>1, <1>2 DEF Settling
<1>5. ASSUME NEW reg \in Registers
      PROVE  Right(k, asked, reg, regs'[reg]) \/ \E f \in ToDo' : WritesTo(f, reg)
  <2>1. Right(k, asked, reg, regs[reg]) \/ \E f \in ToDo : WritesTo(f, reg)
    BY <1>1 DEF Settling
  <2>2. WritesTo(e, reg) => reg = e.reg
    BY DEF WritesTo
  <2>3. Right(k, asked, reg, regs[reg]) \/ reg = e.reg => Right(k, asked, reg, regs'[reg])
    BY <1>1, <1>4, WriteRight
  <2> HIDE DEF e
  <2>4. QED
    BY <1>2, <2>1, <2>2, <2>3
<1>6. chip'.fifo = chip.fifo
  <2>1. CASE e.reg = "OpMode"
    <3>1. e = ToOp(STANDBY)
      BY <1>1, <1>2, <1>3, <2>1, GoalIsLast
    <3>2. Op(regs') = STANDBY
      <4>1. STANDBY \in Ops
        BY DEF Ops
      <4>2. QED
        BY <1>1, <3>1, <4>1, WriteEffect
    <3>3. chip' = Started
      BY <1>1, <2>1, <3>2, WriteChip DEF STANDBY, SLEEP
    <3>4. QED
      BY <1>1, <3>3 DEF Started, TypeInv, Chips
  <2>2. CASE e.reg # "OpMode"
    BY <1>1, <2>2, WriteChip
  <2>3. QED
    BY <2>1, <2>2
<1>7. k = TX => chip'.fifo = "payload" \/ Filling'
  BY <1>1, <1>6, WriteFills DEF Settling
<1>8. \A f \in ToDo' : f \in Settings => MakesRight(k, asked, f)
  BY <1>1, <1>2 DEF Settling
<1> HIDE DEF e
<1>9. /\ \A s, reg, v : Right(k, s, reg, v)' <=> Right(k, s, reg, v)
      /\ \A s, f : MakesRight(k, s, f)' <=> MakesRight(k, s, f)
  BY <1>2, SameRight
<1>10. asked' \in Chosen(k)
  BY <1>1, <1>2 DEF Settling
<1>11. \A reg \in Registers : Right(k, asked, reg, regs[reg])' \/ \E f \in ToDo' : WritesTo(f, reg)
  BY <1>2, <1>5, <1>9
<1>12. \A f \in ToDo' : f \in Settings => MakesRight(k, asked, f)'
  BY <1>2, <1>8, <1>9
<1>13. QED
  BY <1>7, <1>10, <1>11, <1>12 DEF Settling, Chosen

\* An operation starts with its settings.
LEMMA WriteSettled ==
    ASSUME IInv, SettingsInv, WriteRegister, NEW k \in Goals, Op(regs') = k
    PROVE  Settled(k)' /\ ToDo' \cap (Settings \cup Bursts) = {}
<1> DEFINE e == Head(todo)
<1>1. /\ TypeInv /\ LoraInv /\ LinesInv /\ todo # <<>> /\ (self.pa = "RFO" => regs.PaConfig < 128)
  BY DEF IInv, SettingsInv, WriteRegister, Doing
<1>2. /\ e \in Writes /\ e \in ToDo /\ ToDo = {e} \cup ToDo' /\ todo' = Tail(todo) /\ e.reg \in Registers
      /\ \A reg \in Registers : reg # e.reg => regs'[reg] = regs[reg]
      /\ UNCHANGED <<self, state, asked>>
  BY <1>1, WrittenValue
<1>3. e.do = "write"
  BY <1>2, KindOfWrite
<1>4. chip'.fifo = chip.fifo
  <2>1. chip' = chip \/ chip' = Started
    BY <1>1, WriteChip DEF Goals, SLEEP, TX, RX_SINGLE
  <2>2. QED
    BY <1>1, <2>1 DEF Started, TypeInv, Chips
<1>5. CASE e.reg # "OpMode" \/ e = ToLora
  <2>1. Op(regs) = k
    <3>1. e.reg # "OpMode" => regs'.OpMode = regs.OpMode
      BY <1>1, WriteEffect
    <3>2. e = ToLora => Op(regs') = Op(regs)
      BY <1>1, WriteEffect
    <3>3. QED
      BY <1>5, <3>1, <3>2 DEF Op
  <2>2. Settled(k) /\ ToDo \cap (Settings \cup Bursts) = {}
    BY <2>1 DEF SettingsInv
  <2>3. e.reg \in Free
    BY <1>2, <2>2, KindOfWrite
  <2>4. \A reg \in Registers \ Free : regs'[reg] = regs[reg]
    BY <1>2, <2>3
  <2> HIDE DEF e
  <2>5. Settled(k)'
    BY <1>2, <1>4, <2>2, <2>4, SettledKept
  <2>6. QED
    BY <1>2, <2>2, <2>5
<1>6. CASE e.reg = "OpMode" /\ e # ToLora
  <2>1. PICK op \in Ops : e = ToOp(op)
    BY <1>2, <1>6, KindOfWrite DEF ModeWrites
  <2>2. op = k
    BY <1>1, <2>1, WriteEffect
  <2>3. state \in Active
    BY <1>1, <1>2, <2>1, <2>2 DEF LinesInv, SettingsInv, Goals
  <2>4. Prepare
    BY <1>1, <2>3 DEF IInv
  <2>5. Tail(todo) = <<>> /\ e = ToOp(Goal(state)) /\ ToDo = {ToOp(Goal(state))}
    <3>1. e # ToOp(STANDBY)
      BY <2>1, <2>2, KindsApart DEF Goals
    <3>2. QED
      BY <1>1, <1>3, <1>6, <2>3, <2>4, <3>1, GoalIsLast
  <2>6. Goal(state) = k
    <3>1. Goal(state) \in Ops
      BY DEF Goal, Ops
    <3>2. QED
      BY <1>1, <2>5, <3>1, WriteEffect
  <2>7. Settling(k)
    BY <1>1, <2>3, <2>6 DEF SettingsInv
  <2>8. e \notin Settings /\ e.reg \in Free /\ e \notin Bursts
    BY <1>2, <1>6, KindOfWrite
  <2> HIDE DEF e
  <2>9. ToDo = {e} /\ ToDo' = {}
    <3>1. ToDo' = ToSet(<<>>)
      BY <1>2, <2>5 DEF ToDo
    <3>2. QED
      BY <2>5, <3>1, ResetSteps
  <2>10. \A reg \in Registers : Right(k, asked, reg, regs[reg])
    <3>1. ASSUME NEW reg \in Registers
          PROVE  Right(k, asked, reg, regs[reg])
      <4>1. Right(k, asked, reg, regs[reg]) \/ WritesTo(e, reg)
        BY <2>7, <2>9 DEF Settling
      <4>2. WritesTo(e, reg) => reg \in Free
        BY <2>8 DEF WritesTo
      <4>3. QED
        BY <4>1, <4>2, FreeRight
    <3>2. QED
      BY <3>1
  <2>11. k = TX => chip.fifo = "payload"
    BY <2>7, <2>8, <2>9 DEF Settling, Filling
  <2>12. Settled(k)
    BY <2>7, <2>10, <2>11 DEF Settled, Settling
  <2>13. Settled(k)'
    <3>1. \A reg \in Registers \ Free : regs'[reg] = regs[reg]
      BY <1>2, <2>8
    <3>2. QED
      BY <1>2, <1>4, <2>12, <3>1, SettledKept
  <2>14. QED
    BY <2>9, <2>13
<1>7. QED
  BY <1>5, <1>6

LEMMA WriteKeepsSettings ==
    ASSUME IInv, SettingsInv, WriteRegister
    PROVE  SettingsInv'
<1> DEFINE e == Head(todo)
<1>1. /\ TypeInv /\ LoraInv /\ LinesInv /\ todo # <<>> /\ (self.pa = "RFO" => regs.PaConfig < 128)
  BY DEF IInv, SettingsInv, WriteRegister, Doing
<1>2. /\ e \in Writes /\ e \in ToDo /\ ToDo = {e} \cup ToDo' /\ todo' = Tail(todo) /\ e.reg \in Registers
      /\ \A reg \in Registers : reg # e.reg => regs'[reg] = regs[reg]
      /\ UNCHANGED <<self, state, asked>>
  BY <1>1, WrittenValue
<1>3. e.do = "write"
  BY <1>2, KindOfWrite
<1>4. self'.pa = "RFO" => regs'.PaConfig < 128
  <2>1. CASE e.reg # "PaConfig"
    BY <1>1, <1>2, <2>1, OtherNames
  <2>2. CASE e.reg = "PaConfig"
    <3>1. WritesTo(e, "PaConfig") /\ e \in Settings
      BY <1>2, <1>3, <2>2, KindOfWrite DEF WritesTo, Free
    <3>2. state \in Active
      BY <1>2, <3>1 DEF SettingsInv
    <3>3. PICK k \in Goals : k = Goal(state)
      BY DEF Goal, Goals
    <3>4. MakesRight(k, asked, e)
      BY <1>1, <1>2, <3>1, <3>2, <3>3 DEF SettingsInv, Settling
    <3>5. AtRFO("PaConfig", regs'.PaConfig)
      BY <1>1, <2>2, <3>1, <3>4, WriteRight
    <3>6. QED
      BY <1>2, <3>5 DEF AtRFO
  <2>3. QED
    BY <2>1, <2>2
<1>5. ASSUME state' = "ENTROPY"
      PROVE  Op(regs') \notin Goals
  <2>1. state = "ENTROPY" /\ Op(regs) \notin Goals /\ state \notin Active
    BY <1>2, <1>5 DEF SettingsInv, Active
  <2>2. CASE e.reg # "OpMode"
    <3>1. regs'.OpMode = regs.OpMode
      BY <1>1, <2>2, WriteEffect
    <3>2. QED
      BY <2>1, <3>1 DEF Op
  <2>3. CASE e = ToLora
    BY <1>1, <2>1, <2>3, WriteEffect
  <2>4. CASE e.reg = "OpMode" /\ e # ToLora
    <3>1. PICK op \in Ops : e = ToOp(op)
      BY <1>2, <2>4, KindOfWrite DEF ModeWrites
    <3>2. op # TX /\ op # RX_SINGLE
      BY <1>1, <1>2, <2>1, <3>1 DEF LinesInv, SettingsInv
    <3>3. QED
      BY <1>1, <3>1, <3>2, WriteEffect DEF Goals
  <2>5. QED
    BY <2>2, <2>3, <2>4
<1>6. state # "LOCKOUT"
  <2>1. e # Reset(FALSE)
    BY <1>3 DEF Reset
  <2>2. QED
    BY <1>1, <1>2, <2>1 DEF LinesInv
<1>7. ASSUME NEW k \in Goals
      PROVE  /\ Op(regs') = k => Settled(k)' /\ ToDo' \cap (Settings \cup Bursts) = {}
             /\ state' \in Active /\ Goal(state') = k /\ todo' # <<>> => Settling(k)'
  BY <1>2, WriteSettled, WriteSettling
<1>8. state' \notin Active => \A f \in ToDo' : f # ToOp(RX_SINGLE) /\ ~WritesTo(f, "PaConfig")
  BY <1>2 DEF SettingsInv
<1> HIDE DEF e
<1>9. \A k \in Goals : /\ (Op(regs) = k => Settled(k) /\ ToDo \cap (Settings \cup Bursts) = {})'
                       /\ (state \in Active /\ Goal(state) = k /\ todo # <<>> => Settling(k))'
  BY <1>7
<1>10. QED
  BY <1>2, <1>4, <1>5, <1>6, <1>8, <1>9 DEF SettingsInv, WritesTo

\* The steps that write no register touch no setting; the frame is copied to where
\* it will be sent from.
LEMMA OtherKeepsFrame ==
    ASSUME IInv, BurstWrite \/ SetMapping \/ InputArm \/ InputClear \/ ReadFIFO,
           state \in Active, chip.fifo = "payload" \/ Filling
    PROVE  chip'.fifo = "payload" \/ Filling'
<1> DEFINE e == Head(todo)
<1>1. TypeInv /\ todo # <<>> /\ todo \in Seq(Steps)
  BY DEF IInv, TypeInv, BurstWrite, SetMapping, InputArm, InputClear, ReadFIFO, Doing
<1>2. CASE BurstWrite
  <2>1. e.do = "burst" /\ chip'.fifo = (IF Op(regs) = SLEEP \/ regs.FifoAddrPtr # regs.FifoTxBaseAddr
                                        THEN chip.fifo ELSE "payload")
    BY <1>1, <1>2 DEF BurstWrite, Doing, TypeInv, Chips
  <2>2. Op(regs) = STANDBY /\ e \in Bursts
    BY <1>1, <2>1, BurstAwake
  <2>3. Filling => regs.FifoAddrPtr = 0 /\ regs.FifoTxBaseAddr = 0
    <3>1. SUFFICES ASSUME Filling PROVE regs.FifoAddrPtr = 0 /\ regs.FifoTxBaseAddr = 0
      OBVIOUS
    <3>2. ToDo \cap FillWrites = {}
      BY <1>1, <2>2, <3>1, NoneBefore DEF Filling, ToDo
    <3>3. /\ {W("FifoTxBaseAddr", 0), W("FifoAddrPtr", 0)} = FillWrites
          /\ W("FifoTxBaseAddr", 0).reg = "FifoTxBaseAddr" /\ W("FifoAddrPtr", 0).reg = "FifoAddrPtr"
      BY DEF FillWrites, W, Change
    <3>4. \A f \in FillWrites : regs[f.reg] = 0
      BY <3>1, <3>2 DEF Filling
    <3>5. QED
      BY <3>3, <3>4
  <2>4. QED
    BY <2>1, <2>2, <2>3 DEF STANDBY, SLEEP
<1>3. CASE ReadFIFO
  <2>1. e.do = "collect" /\ e \in Steps /\ e \in ToDo
    BY <1>1, <1>3, NextStep DEF ReadFIFO
  <2>2. state = "IDLE"
    <3>1. e = Collect
      BY <2>1, KindOfStep
    <3>2. QED
      BY <2>1, <3>1 DEF IInv, Collecting
  <2>3. QED
    BY <2>2 DEF Active
<1>4. CASE SetMapping \/ InputArm \/ InputClear
  <2>1. UNCHANGED <<regs, chip>> /\ \E what \in {"map", "arm", "clear"} : Doing(what)
    BY <1>4 DEF SetMapping, InputArm, InputClear
  <2>2. e.do \in {"map", "arm", "clear"} /\ todo' = Tail(todo) /\ ToDo = {e} \cup ToDo'
    BY <1>1, <2>1, NextStep
  <2>3. \A f \in FillWrites : f.do = "write"
    BY DEF FillWrites, W, Change
  <2>4. \A b \in Bursts : b.do = "burst"
    BY DEF Bursts, Burst
  <2>5. ASSUME Filling
        PROVE  Filling'
    <3>1. Before(todo', FillWrites, Bursts)
      BY <1>1, <2>2, <2>5, BeforeTail DEF Filling
    <3> HIDE DEF e
    <3>2. \E b \in ToDo' : b \in Bursts
      BY <2>2, <2>4, <2>5 DEF Filling
    <3>3. \A f \in FillWrites : regs'[f.reg] = 0 \/ f \in ToDo'
      BY <2>1, <2>2, <2>3, <2>5 DEF Filling
    <3>4. \A b \in ToDo', f \in FillWrites : WritesTo(b, f.reg) => b = f
      BY <2>2, <2>5 DEF Filling
    <3>5. QED
      BY <3>1, <3>2, <3>3, <3>4 DEF Filling
  <2>6. QED
    BY <2>1, <2>5
<1>5. QED
  BY <1>2, <1>3, <1>4

LEMMA OtherKeepsSettings ==
    ASSUME IInv, SettingsInv, BurstWrite \/ SetMapping \/ InputArm \/ InputClear \/ ReadFIFO
    PROVE  SettingsInv'
<1> DEFINE e == Head(todo)
<1>1. TypeInv /\ LinesInv /\ todo # <<>>
  BY DEF IInv, BurstWrite, SetMapping, InputArm, InputClear, ReadFIFO, Doing
<1>2. \E what \in {"burst", "map", "arm", "clear", "collect"} : Doing(what)
  BY <1>1, KeptRegisters
<1>3. e \in ToDo /\ ToDo = {e} \cup ToDo' /\ e.do \in {"burst", "map", "arm", "clear", "collect"}
  BY <1>1, <1>2, NextStep
<1>4. /\ UNCHANGED <<state, asked>> /\ Op(regs') = Op(regs)
      /\ self'.type = self.type /\ self'.pa = self.pa
  <2>1. state' = state /\ Op(regs') = Op(regs)
    BY <1>1, KeptRegisters
  <2>2. asked' = asked
    BY DEF BurstWrite, SetMapping, InputArm, InputClear, ReadFIFO
  <2>3. self' = self \/ SetMapping
    BY DEF BurstWrite, InputArm, InputClear, ReadFIFO
  <2>4. SetMapping => self'.type = self.type /\ self'.pa = self.pa
    BY <1>1 DEF SetMapping, TypeInv, Drivers
  <2>5. QED
    BY <2>1, <2>2, <2>3, <2>4
<1>5. \A reg \in Registers \ Free : regs'[reg] = regs[reg]
  <2>1. regs' = regs \/ \E v : regs' = [regs EXCEPT !.FifoAddrPtr = v]
    BY DEF BurstWrite, SetMapping, InputArm, InputClear, ReadFIFO
  <2>2. QED
    BY <1>1, <2>1 DEF TypeInv, Free
<1>6. ~(Op(regs) \in Goals /\ e.do = "burst")
  BY <1>1, BurstAwake DEF Goals, STANDBY, TX, RX_SINGLE
<1>7. e.do # "burst" => chip'.fifo = chip.fifo
  BY DEF BurstWrite, SetMapping, InputArm, InputClear, ReadFIFO, Doing
<1> HIDE DEF e
<1>8. /\ \A k, s, reg, v : Right(k, s, reg, v)' <=> Right(k, s, reg, v)
      /\ \A k, s, f : MakesRight(k, s, f)' <=> MakesRight(k, s, f)
  BY <1>4, SameRight
<1>9. ASSUME NEW k \in Goals, Op(regs') = k
      PROVE  Settled(k)' /\ ToDo' \cap (Settings \cup Bursts) = {}
  <2>1. Settled(k) /\ ToDo \cap (Settings \cup Bursts) = {}
    BY <1>4, <1>9 DEF SettingsInv
  <2>2. chip'.fifo = chip.fifo
    BY <1>4, <1>6, <1>7, <1>9
  <2>3. QED
    BY <1>3, <1>4, <1>5, <2>1, <2>2, SettledKept
<1>10. ASSUME NEW k \in Goals, state' \in Active, Goal(state') = k, todo' # <<>>
       PROVE  Settling(k)'
  <2>1. Settling(k) /\ state \in Active
    BY <1>1, <1>4, <1>10 DEF SettingsInv
  <2>2. ASSUME NEW reg \in Registers
        PROVE  Right(k, asked, reg, regs'[reg]) \/ \E f \in ToDo' : WritesTo(f, reg)
    <3>1. Right(k, asked, reg, regs[reg]) \/ \E f \in ToDo : WritesTo(f, reg)
      BY <2>1 DEF Settling
    <3>2. ~WritesTo(e, reg)
      BY <1>3 DEF WritesTo
    <3>3. Right(k, asked, reg, regs[reg]) => Right(k, asked, reg, regs'[reg])
      BY <1>5, FreeRight
    <3>4. QED
      BY <1>3, <3>1, <3>2, <3>3
  <2>3. \A reg \in Registers : Right(k, asked, reg, regs[reg])' \/ \E f \in ToDo' : WritesTo(f, reg)
    BY <1>4, <1>8, <2>2
  <2>4. \A f \in ToDo' : f \in Settings => MakesRight(k, asked, f)'
    BY <1>3, <1>4, <1>8, <2>1 DEF Settling
  <2>5. k = TX => chip'.fifo = "payload" \/ Filling'
    BY <2>1, OtherKeepsFrame DEF Settling
  <2>6. QED
    BY <1>4, <2>1, <2>3, <2>4, <2>5 DEF Settling, Chosen
<1>11. self'.pa = "RFO" => regs'.PaConfig < 128
  <2>1. "PaConfig" \in Registers \ Free
    BY OtherNames DEF Free
  <2>2. QED
    BY <1>4, <1>5, <2>1 DEF SettingsInv
<1>12. state # "LOCKOUT"
  <2>1. e # Reset(FALSE)
    BY <1>3 DEF Reset
  <2>2. QED
    BY <1>1, <1>3, <2>1 DEF LinesInv
<1>13. \A k \in Goals : /\ (Op(regs) = k => Settled(k) /\ ToDo \cap (Settings \cup Bursts) = {})'
                        /\ (state \in Active /\ Goal(state) = k /\ todo # <<>> => Settling(k))'
  BY <1>9, <1>10
<1>14. state' \notin Active => \A f \in ToDo' : f # ToOp(RX_SINGLE) /\ ~WritesTo(f, "PaConfig")
  BY <1>3, <1>4 DEF SettingsInv
<1>15. state' = "ENTROPY" => Op(regs') \notin Goals
  BY <1>4 DEF SettingsInv
<1>16. QED
  BY <1>4, <1>11, <1>12, <1>13, <1>14, <1>15 DEF SettingsInv, WritesTo

\* A reset, and the end of an operation, leave no operation.
LEMMA ResetKeepsSettings ==
    ASSUME IInv, SettingsInv, ResetLine
    PROVE  SettingsInv'
<1>1. /\ state \in Unreset /\ state' = state /\ ToDo' \subseteq ToDo /\ Op(regs') = STANDBY
  BY ResetEffect DEF IInv
<1>2. STANDBY \notin Goals /\ state \notin Active /\ state # "ENTROPY"
  BY <1>1 DEF Goals, STANDBY, TX, RX_SINGLE, Unreset, Active
<1>3. regs'.PaConfig = 79
  BY DEF ResetLine, Defaults
<1>4. \A k \in Goals : /\ (Op(regs) = k => Settled(k) /\ ToDo \cap (Settings \cup Bursts) = {})'
                       /\ (state \in Active /\ Goal(state) = k /\ todo # <<>> => Settling(k))'
  BY <1>1, <1>2
<1>5. \A e \in ToDo' : e # ToOp(RX_SINGLE) /\ ~WritesTo(e, "PaConfig")
  BY <1>1, <1>2 DEF SettingsInv
<1>6. QED
  BY <1>1, <1>2, <1>3, <1>4, <1>5, SMT DEF SettingsInv, WritesTo

LEMMA EndKeepsSettings ==
    ASSUME IInv, SettingsInv, ChipActs
    PROVE  SettingsInv'
<1>1. /\ UNCHANGED <<self, state, todo>> /\ Op(regs') = STANDBY /\ Op(regs) \in {TX, RX_SINGLE}
  <2>1. UNCHANGED <<self, state, todo>> /\ Op(regs') = STANDBY
    BY EndEffect DEF IInv
  <2>2. Op(regs) \in {TX, RX_SINGLE}
    BY EndEffect DEF IInv
  <2>3. QED
    BY <2>1, <2>2
<1>2. STANDBY \notin Goals /\ Op(regs) \notin {STANDBY, SLEEP}
  BY <1>1 DEF Goals, STANDBY, SLEEP, TX, RX_SINGLE
<1>3. state \in Active => todo = <<>>
  BY <1>2 DEF IInv, Prepare
<1>4. regs'.PaConfig = regs.PaConfig
  <2>1. \E f, v : regs' = [regs EXCEPT !.IrqFlags = f, !.OpMode = v]
    BY DEF ChipActs, Sent, Received, TimedOut, Finish
  <2>2. QED
    BY <2>1, OtherNames DEF IInv, TypeInv
<1>5. \A k \in Goals : /\ (Op(regs) = k => Settled(k) /\ ToDo \cap (Settings \cup Bursts) = {})'
                       /\ (state \in Active /\ Goal(state) = k /\ todo # <<>> => Settling(k))'
  BY <1>1, <1>2, <1>3
<1>6. ToDo' = ToDo
  BY <1>1 DEF ToDo
<1>7. QED
  BY <1>1, <1>2, <1>4, <1>5, <1>6 DEF SettingsInv, WritesTo

\* A step of the board, and one that changes nothing.
LEMMA IdleKeepsSettings ==
    ASSUME SettingsInv, UNCHANGED <<self, regs, chip, state, todo, asked>>
    PROVE  SettingsInv'
<1>1. /\ \A k, s, reg, v : Right(k, s, reg, v)' <=> Right(k, s, reg, v)
      /\ \A k, s, f : MakesRight(k, s, f)' <=> MakesRight(k, s, f)
      /\ ToDo' = ToDo
  BY SameRight DEF ToDo
<1>2. Filling' <=> Filling
  BY <1>1 DEF Filling, FillWrites, WritesTo
<1>3. \A k : Settled(k)' <=> Settled(k)
  <2>1. \A k : (\A reg \in Registers : Right(k, asked, reg, regs[reg])')
                  <=> \A reg \in Registers : Right(k, asked, reg, regs[reg])
    BY <1>1
  <2>2. QED
    BY <2>1 DEF Settled, Chosen
<1>4. \A k : Settling(k)' <=> Settling(k)
  <2>1. \A k, reg : Right(k, asked, reg, regs[reg])' <=> Right(k, asked, reg, regs[reg])
    BY <1>1
  <2>2. \A k, e : MakesRight(k, asked, e)' <=> MakesRight(k, asked, e)
    BY <1>1
  <2>3. QED
    BY <1>1, <1>2, <2>1, <2>2 DEF Settling, Chosen, WritesTo
<1>5. Op(regs') = Op(regs)
  OBVIOUS
<1>6. \A k \in Goals : /\ (Op(regs) = k => Settled(k) /\ ToDo \cap (Settings \cup Bursts) = {})'
                       /\ (state \in Active /\ Goal(state) = k /\ todo # <<>> => Settling(k))'
  BY <1>1, <1>3, <1>4, <1>5 DEF SettingsInv
<1>7. QED
  BY <1>1, <1>5, <1>6 DEF SettingsInv, WritesTo

\* A chip that operates when the controller restarts goes on as it was asked to.
LEMMA RestartKeepsSettings ==
    ASSUME IInv, SettingsInv, Restart
    PROVE  SettingsInv'
<1>1. /\ UNCHANGED <<regs, asked>> /\ state' = "INIT" /\ todo' = <<>>
      /\ self' = [self EXCEPT !.dio_mapping1 = 0] /\ chip' = [Started EXCEPT !.held = FALSE]
  BY DEF Restart
<1>2. self'.type = self.type /\ self'.pa = self.pa /\ chip'.fifo = chip.fifo
  BY <1>1 DEF IInv, TypeInv, Drivers, Chips, Started
<1>3. ToDo' = {}
  BY <1>1, ResetSteps DEF ToDo
<1>4. state' \notin Active /\ state' # "ENTROPY" /\ state' # "LOCKOUT"
  BY <1>1 DEF Active
<1>5. \A k \in Goals : /\ (Op(regs) = k => Settled(k) /\ ToDo \cap (Settings \cup Bursts) = {})'
                       /\ (state \in Active /\ Goal(state) = k /\ todo # <<>> => Settling(k))'
  <2>1. ASSUME NEW k \in Goals, Op(regs') = k
        PROVE  Settled(k)'
    <3>1. Settled(k)
      BY <1>1, <2>1 DEF SettingsInv
    <3>2. QED
      BY <1>1, <1>2, <3>1, SettledKept
  <2>2. QED
    BY <1>3, <1>4, <2>1
<1>6. QED
  BY <1>1, <1>2, <1>3, <1>4, <1>5 DEF SettingsInv, WritesTo

\* A call that starts an operation brings what makes its settings right.
LEMMA CallSettling ==
    ASSUME Askable, IInv, Calls, state' \in Active, NEW k \in Goals, Goal(state') = k
    PROVE  Settling(k)'
<1>1. TypeInv /\ UNCHANGED <<self, regs, chip>>
  BY CallEffect DEF IInv
<1>2. PICK s \in Chosen(k) : asked' = s /\ Settles(todo', k, s) /\ (k = TX => Fills(todo'))
  <2>1. SendFrame \/ OpenWindow
    BY DEF Calls, Active, HoldReset, ReleaseReset, Entropy, Ready, TxComplete, MissWindow, RxReady,
           RxTimeoutSeen, ChipError, Cancel, Quietly, Call
  <2>2. CASE SendFrame
    <3>1. PICK s \in TxSettings : /\ state' = "TX" /\ asked' = s
                                  /\ todo' = <<Clear, Arm("TX_COMPLETE")>> \o Transmit(s)
      BY <2>2 DEF SendFrame, Call
    <3>2. Rate(s)
      BY RadioAssumption DEF RadioAssumption, Askable, Rate
    <3>3. Settles(todo', TX, s) /\ Fills(todo')
      BY <1>1, <3>1, <3>2, TransmitMade
    <3>4. k = TX
      BY <3>1 DEF Goal
    <3>5. QED
      BY <3>1, <3>3, <3>4 DEF Chosen
  <2>3. CASE OpenWindow
    <3>1. PICK s \in RxSettings : /\ state' \in {"RX1", "RX2"} /\ asked' = s
                                  /\ todo' = <<Clear, Arm("RX_READY"), Arm("RX_TIMEOUT")>> \o Receive(s)
      BY <2>3 DEF OpenWindow, Call
    <3>2. Rate(s)
      BY RadioAssumption DEF RadioAssumption, Askable, Rate
    <3>3. Settles(todo', RX_SINGLE, s)
      BY <1>1, <3>1, <3>2, ReceiveMade
    <3>4. k = RX_SINGLE /\ k # TX
      BY <3>1 DEF Goal, RX_SINGLE, TX
    <3>5. QED
      BY <3>1, <3>3, <3>4 DEF Chosen
  <2>4. QED
    BY <2>1, <2>2, <2>3
<1>3. /\ \A s1, reg, v : Right(k, s1, reg, v)' <=> Right(k, s1, reg, v)
      /\ \A s1, f : MakesRight(k, s1, f)' <=> MakesRight(k, s1, f)
  BY <1>1, SameRight
<1>4. \A reg \in Registers : Right(k, asked, reg, regs[reg])' \/ \E f \in ToDo' : WritesTo(f, reg)
  BY <1>2, <1>3 DEF Settles, ToDo
<1>5. \A f \in ToDo' : f \in Settings => MakesRight(k, asked, f)'
  BY <1>2, <1>3 DEF Settles, ToDo
<1>6. k = TX => Filling'
  BY <1>2 DEF Fills, Filling, ToDo
<1>7. asked' \in Chosen(k)
  BY <1>2
<1>8. QED
  BY <1>4, <1>5, <1>6, <1>7 DEF Settling, Chosen

LEMMA CallKeepsSettings ==
    ASSUME Askable, IInv, SettingsInv, Calls
    PROVE  SettingsInv'
<1>1. /\ TypeInv /\ todo = <<>> /\ UNCHANGED <<self, regs, chip>> /\ Op(regs') = Op(regs)
  BY CallEffect DEF IInv
<1>2. ASSUME NEW k \in Goals, Op(regs') = k
      PROVE  Settled(k)' /\ ToDo' \cap (Settings \cup Bursts) = {}
  <2>1. ~Starts
    <3>1. SUFFICES ASSUME Starts PROVE FALSE
      OBVIOUS
    <3>2. state \in Resting /\ ToDo = {}
      BY <1>1, <3>1, ResetSteps DEF Starts, ToDo
    <3>3. Op(regs) = SLEEP
      BY <3>2 DEF IInv, RestInv, Resting
    <3>4. QED
      BY <1>1, <1>2, <3>3 DEF Goals, SLEEP, TX, RX_SINGLE
  <2>2. state' \notin Active
    BY <1>1, <2>1, CallCases
      DEF HoldsReset, Releases, Listens, Rests, Misses, Closes, Collects, Cancels, Active, Resting
  <2>3. asked' = asked
    <3>1. ~SendFrame /\ ~OpenWindow
      BY <2>2 DEF SendFrame, OpenWindow, Call, Active
    <3>2. HoldReset \/ ReleaseReset \/ Entropy \/ Ready \/ TxComplete \/ MissWindow => asked' = asked
      BY DEF HoldReset, ReleaseReset, Entropy, Ready, TxComplete, MissWindow, Quietly
    <3>3. RxReady \/ RxTimeoutSeen \/ ChipError \/ Cancel => asked' = asked
      BY DEF RxReady, RxTimeoutSeen, ChipError, Cancel, Quietly
    <3>4. QED
      BY <3>1, <3>2, <3>3 DEF Calls
  <2>4. state # "LOCKOUT"
    BY <1>1, <1>2 DEF SettingsInv, Goals, STANDBY, TX, RX_SINGLE
  <2>5. ToDo' \cap Settings = {} /\ \A e \in ToDo' : e.do # "burst"
    BY <1>1, <2>2, <2>4, CallKinds
  <2>6. ToDo' \cap Bursts = {}
    BY <2>5 DEF Bursts, Burst
  <2>7. Settled(k)
    BY <1>1, <1>2 DEF SettingsInv
  <2>8. Settled(k)'
    BY <1>1, <2>3, <2>7, SettledKept
  <2>9. QED
    BY <2>5, <2>6, <2>8
<1>3. \A k \in Goals : /\ (Op(regs) = k => Settled(k) /\ ToDo \cap (Settings \cup Bursts) = {})'
                       /\ (state \in Active /\ Goal(state) = k /\ todo # <<>> => Settling(k))'
  BY <1>2, CallSettling
<1>4. state' \notin Active => \A e \in ToDo' : e # ToOp(RX_SINGLE) /\ ~WritesTo(e, "PaConfig")
  BY <1>1, CallKinds DEF WritesTo
<1>5. ASSUME state' = "ENTROPY"
      PROVE  Op(regs') \notin Goals
  <2>1. state = "LOCKOUT"
    BY <1>1, <1>5, CallCases
      DEF HoldsReset, Releases, Listens, Rests, Starts, Misses, Closes, Collects, Cancels, Active, Resting
  <2>2. QED
    BY <1>1, <2>1 DEF SettingsInv, Goals, STANDBY, TX, RX_SINGLE
<1>6. state' = "LOCKOUT" => todo' # <<>>
  BY <1>1, CallCases
    DEF HoldsReset, Releases, Listens, Rests, Starts, Misses, Closes, Collects, Cancels, Active, Resting
<1>7. self'.pa = "RFO" => regs'.PaConfig < 128
  BY <1>1 DEF SettingsInv
<1>8. QED
  BY <1>3, <1>4, <1>5, <1>6, <1>7 DEF SettingsInv, WritesTo

LEMMA SettingsStep ==
    ASSUME Askable, IInv, SettingsInv, [Next]_vars
    PROVE  SettingsInv'
<1>1. CASE WriteRegister
  BY <1>1, WriteKeepsSettings
<1>2. CASE BurstWrite \/ SetMapping \/ InputArm \/ InputClear \/ ReadFIFO
  BY <1>2, OtherKeepsSettings
<1>3. CASE ResetLine
  BY <1>3, ResetKeepsSettings
<1>4. CASE ChipActs
  BY <1>4, EndKeepsSettings
<1>5. CASE Calls
  BY <1>5, CallKeepsSettings
<1>6. CASE Restart
  BY <1>6, RestartKeepsSettings
<1>7. CASE (\E n \in {0, 1} : Interrupt(n)) \/ UNCHANGED vars
  <2>1. UNCHANGED <<self, regs, chip, state, todo, asked>>
    BY <1>7 DEF Interrupt, vars
  <2>2. QED
    BY <2>1, IdleKeepsSettings
<1>8. QED
  BY <1>1, <1>2, <1>3, <1>4, <1>5, <1>6, <1>7 DEF Next, Step, Calls, ChipActs

LEMMA SettingsInit ==
    ASSUME Init
    PROVE  SettingsInv
<1>1. regs = Defaults /\ state = "INIT" /\ todo = <<>>
  BY DEF Init
<1>2. regs.PaConfig = 79 /\ Op(regs) = 1
  <2>1. regs.PaConfig = 79 /\ regs.OpMode = 9
    BY <1>1 DEF Defaults
  <2>2. QED
    BY <2>1, SMT DEF Op
<1>3. Op(regs) \notin Goals
  BY <1>2 DEF Goals, TX, RX_SINGLE
<1>4. ToDo = {} /\ state \notin Active
  BY <1>1, ResetSteps DEF ToDo, Active
<1>5. QED
  BY <1>1, <1>2, <1>3, <1>4, SMT DEF SettingsInv

\* Whatever the settings of the last operation, a reset, a cancelled call or a restart left
\* in the registers, LDL_Radio_transmit() and LDL_Radio_receive() leave the chip with
\* the rate, frequency, power, FIFO and limits the MAC asked for.
THEOREM AsIsAsked == ASSUME Askable PROVE Spec => []AsAsked
<1>1. Init => SettingsInv
  BY SettingsInit
<1>2. IInv /\ SettingsInv /\ [Next]_vars => SettingsInv'
  BY SettingsStep
<1>3. IInv /\ SettingsInv => AsAsked
  <2>1. SUFFICES ASSUME IInv, SettingsInv PROVE AsAsked
    OBVIOUS
  <2>2. TypeInv /\ (self.pa = "RFO" => regs.PaConfig < 128)
    BY <2>1 DEF IInv, SettingsInv
  <2>3. Op(regs) \in Goals => Settled(Op(regs))
    BY <2>1 DEF SettingsInv
  <2>4. QED
    BY <2>2, <2>3, SettledMeans
<1>4. QED
  BY <1>1, <1>2, <1>3, InvariantHolds, PTL DEF Spec
=============================================================================
