--------------------------- MODULE Commands_proof ---------------------------
(***************************************************************************)
(* For regions, tables and requests of any size, as long as no command is  *)
(* cut off: every uplink carries the answers the network waits for, no     *)
(* commands leave a device of a fixed plan without a channel, and a block  *)
(* of LinkADRReqs is taken over whole or not at all.                       *)
(***************************************************************************)
EXTENDS Commands, FiniteSetTheorems, WellFoundedInduction, TLAPS

\* What is pending is what the network waits for, but for the answer of a block
\* that goes on.
Pending ==
    /\ owed \subseteq Answered
    /\ pending_cmds \subseteq owed
    /\ owed \subseteq pending_cmds \cup {"LINK_ADR"}
    /\ owed # pending_cmds => state = "COMMANDS" /\ next = "LINK_ADR"

\* The channels to fall back on, and when they are needed.
Fallback ==
    /\ state = "BUSY" => "LINK_ADR" \notin pending_cmds
    /\ state = "COMMANDS" =>
         /\ ~dynamic => ~AllMasked(cache.chMask)
         /\ "LINK_ADR" \in pending_cmds <=> adr_state # "NO_ADR"
         /\ adr_state \in {"NO_ADR", "ADR_OK", "ADR_BAD"}
         /\ ~dynamic /\ adr_state = "ADR_OK" => ~AllMasked(chMask)
         /\ ~dynamic /\ adr_state = "NO_ADR" /\ next # "LINK_ADR" => ~AllMasked(chMask)

IInv == Pending /\ Fallback /\ FixedPlanKeepsChannel

-----------------------------------------------------------------------------
LEMMA SomeChannel == ~AllMasked({})
BY CommandsAssumption, SMT DEF CommandsAssumption, AllMasked, Channel

LEMMA InitIInv == Init => IInv
BY SomeChannel, Zenon DEF Init, IInv, Pending, Fallback, FixedPlanKeepsChannel

\* The steps outside processCommands() that change no answer and at most clear
\* the mask.
LEMMA SetStep ==
    ASSUME IInv, SetRate \/ SetPower \/ SetADR
    PROVE  IInv'
BY SMT DEF IInv, Pending, Fallback, FixedPlanKeepsChannel, AllMasked, SetRate,
           SetPower, SetADR, Set, session, loop

LEMMA DataStep ==
    ASSUME IInv, NEW len, NEW extra, Data(len, extra)
    PROVE  IInv'
<1>1. owed = pending_cmds
  BY DEF IInv, Pending, Data
<1>2. /\ state' = "BUSY" /\ pending_cmds' = pending_cmds \ SingleShot
      /\ owed' = owed \cap (Sticky \cup {"REKEY"})
      /\ chMask' = chMask /\ dynamic' = dynamic
  BY DEF Data, setting, session
<1>3. Pending'
  BY <1>1, <1>2 DEF IInv, Pending, Answered, SingleShot, Sticky
<1>4. Fallback'
  BY <1>2 DEF Fallback, SingleShot
<1>5. FixedPlanKeepsChannel'
  BY <1>2 DEF IInv, FixedPlanKeepsChannel, AllMasked, Data
<1> QED BY <1>3, <1>4, <1>5 DEF IInv

LEMMA ForgetStep ==
    ASSUME IInv, Forget
    PROVE  IInv'
<1>1. /\ state' = "IDLE" /\ state # "COMMANDS" /\ dynamic' = dynamic
      /\ \/ pending_cmds' = {} /\ owed' = {} /\ chMask' = {}
         \/ UNCHANGED <<pending_cmds, owed, chMask>>
  BY DEF Forget, RestoreDefaults
<1>2. Pending' /\ Fallback'
  BY <1>1, SMT DEF IInv, Pending, Fallback
<1>3. FixedPlanKeepsChannel'
  BY <1>1, SomeChannel DEF IInv, FixedPlanKeepsChannel, AllMasked
<1> QED BY <1>2, <1>3 DEF IInv

LEMMA JoinStep ==
    ASSUME IInv, Join
    PROVE  IInv'
<1>1. /\ state = "IDLE" /\ state' = "IDLE" /\ dynamic' = dynamic
      /\ pending_cmds' \subseteq {"REKEY"} /\ owed' = pending_cmds' /\ chMask' = {}
  BY DEF Join, RestoreDefaults
<1>2. Pending' /\ Fallback'
  BY <1>1, SMT DEF IInv, Pending, Fallback, Answered
<1>3. FixedPlanKeepsChannel'
  BY <1>1, SomeChannel DEF FixedPlanKeepsChannel, AllMasked
<1> QED BY <1>2, <1>3 DEF IInv

LEMMA MissingStep ==
    ASSUME IInv, Abandon \/ Missing
    PROVE  IInv'
<1>1. /\ state = "BUSY" /\ state' = "IDLE" /\ dynamic' = dynamic
      /\ UNCHANGED <<pending_cmds, owed>>
      /\ chMask' = chMask \/ chMask' = {}
  BY SMT DEF Abandon, Missing, AdaptRate, BackOff, session, setting
<1>2. Pending' /\ Fallback'
  BY <1>1, SMT DEF IInv, Pending, Fallback
<1>3. FixedPlanKeepsChannel'
  BY <1>1, SomeChannel DEF IInv, FixedPlanKeepsChannel, AllMasked
<1> QED BY <1>2, <1>3 DEF IInv

LEMMA DownlinkStep ==
    ASSUME IInv, NEW data, Downlink(data)
    PROVE  IInv'
<1>1. /\ state = "BUSY" /\ state' = "COMMANDS" /\ dynamic' = dynamic
      /\ pending_cmds' = pending_cmds \ Sticky /\ owed' = owed \ Sticky
      /\ chMask' = chMask /\ cache'.chMask = chMask /\ adr_state' = "NO_ADR"
  BY DEF Downlink, session, setting, Settings
<1>2. Pending'
  BY <1>1 DEF IInv, Pending
<1>3. Fallback' /\ FixedPlanKeepsChannel'
  BY <1>1, SMT DEF IInv, Fallback, FixedPlanKeepsChannel, AllMasked
<1> QED BY <1>2, <1>3 DEF IInv

LEMMA LinkAdrStep ==
    ASSUME IInv, LinkAdr
    PROVE  IInv'
<1>1. /\ state = "COMMANDS" /\ state' = "COMMANDS" /\ next = "LINK_ADR"
      /\ dynamic' = dynamic /\ cache' = cache
      /\ owed' = owed \cup {"LINK_ADR"}
  BY SMT DEF LinkAdr, Take, Expect, session, Unanswered, DynamicOnly
<1>2. CASE "LINK_ADR" \in pending_cmds /\ UNCHANGED <<setting, adr_state, pending_cmds>>
  BY <1>1, <1>2 DEF IInv, Pending, Fallback, FixedPlanKeepsChannel, Answered,
                    SingleShot, setting
<1>3. CASE "LINK_ADR" \notin pending_cmds /\ next' = "LINK_ADR"
           /\ UNCHANGED <<adr_state, pending_cmds>>
  BY <1>1, <1>3 DEF IInv, Pending, Fallback, FixedPlanKeepsChannel, Answered, SingleShot
<1>4. ASSUME "LINK_ADR" \notin pending_cmds, NEW r, EndBlock(r)
      PROVE  IInv'
  <2>1. /\ pending_cmds' = pending_cmds \cup {"LINK_ADR"}
        /\ adr_state' \in {"ADR_OK", "ADR_BAD"}
        /\ adr_state' = "ADR_OK" => ~AllMasked(chMask')
    BY <1>4 DEF EndBlock
  <2>2. Pending'
    BY <1>1, <2>1 DEF IInv, Pending, Answered, SingleShot
  <2>3. Fallback' /\ FixedPlanKeepsChannel'
    BY <1>1, <2>1, SMT DEF IInv, Fallback, FixedPlanKeepsChannel, AllMasked
  <2> QED BY <2>2, <2>3 DEF IInv
<1> QED BY <1>2, <1>3, <1>4 DEF LinkAdr

\* The other commands answer with at most their own type, and leave the channels
\* alone.
LEMMA OtherCommandStep ==
    ASSUME IInv, PlainCommand \/ NewChannel \/ AdrParamSetup \/ Rekey \/ Notice
    PROVE  IInv'
<1>1. /\ state = "COMMANDS" /\ state' = "COMMANDS" /\ next # "LINK_ADR"
      /\ dynamic' = dynamic /\ cache' = cache
      /\ UNCHANGED <<chMask, adr_state>>
  BY SMT DEF PlainCommand, NewChannel, AdrParamSetup, Rekey, Notice, Take, Plain,
             session, setting
<1>2. owed = pending_cmds
  BY <1>1 DEF IInv, Pending
<1>3. /\ owed' = pending_cmds' /\ owed' \subseteq Answered
      /\ "LINK_ADR" \in pending_cmds' <=> "LINK_ADR" \in pending_cmds
  BY <1>1, <1>2, SMT DEF IInv, Pending, PlainCommand, NewChannel, AdrParamSetup, Rekey,
             Notice, Take, Expect, Plain, Answered, SingleShot, Sticky, Unanswered,
             DynamicOnly
<1>4. Pending'
  BY <1>3 DEF Pending
<1>5. Fallback' /\ FixedPlanKeepsChannel'
  BY <1>1, <1>3, SMT DEF IInv, Fallback, FixedPlanKeepsChannel, AllMasked
<1> QED BY <1>4, <1>5 DEF IInv

LEMMA EndCommandsStep ==
    ASSUME IInv, ~MayTruncate, EndCommands
    PROVE  IInv'
<1>1. /\ state = "COMMANDS" /\ state' = "IDLE" /\ next = "END"
      /\ dynamic' = dynamic /\ UNCHANGED <<pending_cmds, owed>>
      /\ chMask' = IF adr_state = "ADR_BAD" THEN cache.chMask ELSE chMask
  BY SMT DEF EndCommands, RollBack, session, setting
<1>2. Pending' /\ Fallback'
  BY <1>1, SMT DEF IInv, Pending, Fallback
<1>3. FixedPlanKeepsChannel'
  BY <1>1, SMT DEF IInv, Fallback, FixedPlanKeepsChannel, AllMasked
<1> QED BY <1>2, <1>3 DEF IInv

LEMMA NextIInv ==
    ASSUME IInv, ~MayTruncate, [Next]_vars
    PROVE  IInv'
<1>1. CASE UNCHANGED vars
  BY <1>1, SMT DEF IInv, Pending, Fallback, FixedPlanKeepsChannel, AllMasked, vars,
                   session, setting, loop
<1>2. CASE Next
  BY <1>2, SetStep, DataStep, ForgetStep, JoinStep, MissingStep, DownlinkStep,
     LinkAdrStep, OtherCommandStep, EndCommandsStep DEF Next, Command
<1> QED BY <1>1, <1>2

-----------------------------------------------------------------------------
\* The inductive invariant holds in every state.
THEOREM InvariantHolds == ASSUME ~MayTruncate PROVE Spec => []IInv
<1>1. Init => IInv
  BY InitIInv
<1>2. IInv /\ [Next]_vars => IInv'
  BY NextIInv
<1> QED BY <1>1, <1>2, PTL DEF Spec

\* processCommands() never leaves a device of a fixed plan with all its channels
\* masked, whatever blocks of LinkADRReqs the network sends.
THEOREM ChannelKept == ASSUME ~MayTruncate PROVE Spec => []FixedPlanKeepsChannel
<1>1. IInv => FixedPlanKeepsChannel
  BY DEF IInv
<1> QED BY <1>1, InvariantHolds, PTL

\* externalDataCommand() sends the answers the network waits for, each of them
\* and no other.
THEOREM AnswersReachNetwork == ASSUME ~MayTruncate PROVE Spec => AnswersSent
<1>1. IInv /\ [Next]_vars => (state = "IDLE" /\ state' = "BUSY" => sent' = owed)
  <2> SUFFICES ASSUME IInv, [Next]_vars, state = "IDLE", state' = "BUSY"
               PROVE  sent' = owed
    OBVIOUS
  <2>1. PICK len \in Lengths, extra \in 0..2 : Data(len, extra)
    BY SMT DEF Next, vars, SetRate, SetPower, SetADR, Set, Forget, Join, Abandon,
           Missing, Downlink, Command, LinkAdr, PlainCommand, NewChannel,
           AdrParamSetup, Rekey, Notice, Take, EndCommands
  <2>2. sent' = pending_cmds
    BY <2>1 DEF Data
  <2> QED BY <2>2 DEF IInv, Pending
<1> QED BY <1>1, InvariantHolds, PTL DEF Spec, AnswersSent

-----------------------------------------------------------------------------
(***************************************************************************)
(* Types, whether or not commands are cut off.                             *)
(***************************************************************************)
\* Masking and unmasking stay within ctx.chMask.
LEMMA MaskFacts ==
    ASSUME dynamic \in BOOLEAN, NEW mask \in SUBSET Channel, NEW chans
    PROVE  /\ Mask(mask, chans) \in SUBSET Channel
           /\ Unmask(mask, chans) \in SUBSET Channel
<1>1. Channels \subseteq Channel
  BY CommandsAssumption, SMT
  DEF CommandsAssumption, Channels, NumChannels, Channel
<1>2. QED
  BY <1>1 DEF Mask, Unmask

\* What the stream shows is a command or its end.
LEMMA ShowsFacts ==
    ASSUME NEW n \in Nat
    PROVE  /\ Shows(n) \subseteq Commands \cup {"END"}
           /\ \A x \in Shows(n) : x # "END" => n > 0
BY DEF Shows

\* The types of TypeOK one by one, the settings for themselves.
SettingOK == /\ rate \in Rates /\ power \in Powers
             /\ nbTrans \in 0..MaxNbTrans /\ chMask \in SUBSET Channel
SessionOK == /\ dynamic \in BOOLEAN /\ joined \in BOOLEAN /\ version \in {0, 1}
             /\ state \in {"IDLE", "BUSY", "COMMANDS"} /\ quiet \in BOOLEAN
             /\ adr \in BOOLEAN
             /\ adr_ack_limit \in Nat /\ adr_ack_delay \in Nat \ {0}
CounterOK == adrAckCounter \in 0..CounterMax /\ adrAckReq \in BOOLEAN
AnswerOK  == /\ pending_cmds \subseteq Answered /\ owed \subseteq Answered
             /\ sent \subseteq Answered /\ told \subseteq Reports
AdrOK     == /\ link_adr_ans \in [mask : BOOLEAN, rate : BOOLEAN, power : BOOLEAN]
             /\ adr_state \in {"NO_ADR", "ADR_OK", "ADR_BAD"}
             /\ asked \in Seq(Requests) /\ cache \in Setting
LoopOK    == /\ next \in Commands \cup {"END"} /\ left \in 0..MaxCommands
             /\ next # "END" => left > 0
ChannelOK == chConfig \in [Channel -> SUBSET Rates]

TypeInv == /\ SettingOK /\ SessionOK /\ CounterOK /\ AnswerOK /\ AdrOK
           /\ LoopOK /\ ChannelOK

LEMMA TypeParts == TypeInv => TypeOK
BY DEF TypeInv, TypeOK, SettingOK, SessionOK, CounterOK, AnswerOK, AdrOK,
       LoopOK, ChannelOK, Settings, Setting

LEMMA DefaultTypes == DefaultConfig \in [Channel -> SUBSET Rates]
BY CommandsAssumption DEF CommandsAssumption, DefaultConfig

LEMMA NoCacheType == NoCache \in Setting
BY CommandsAssumption DEF CommandsAssumption, NoCache, Setting

LEMMA InitTypes == Init => TypeInv
<1> SUFFICES ASSUME Init PROVE TypeInv
  OBVIOUS
<1> USE CommandsAssumption DEF CommandsAssumption, Init
<1>1. SettingOK /\ SessionOK /\ CounterOK
  <2>1. SettingOK
    BY DEF SettingOK
  <2>2. dynamic \in BOOLEAN
    BY Zenon
  <2>3. SessionOK
    BY <2>2 DEF SessionOK
  <2>4. CounterOK
    <3>1. adrAckCounter \in 0..CounterMax /\ adrAckReq = FALSE
      OBVIOUS
    <3>2. QED
      BY <3>1, Zenon DEF CounterOK
  <2>5. QED
    BY <2>1, <2>3, <2>4
<1>2. AnswerOK
  BY DEF AnswerOK
<1>3. AdrOK
  BY NoCacheType DEF AdrOK
<1>4. LoopOK /\ ChannelOK
  BY DefaultTypes DEF LoopOK, ChannelOK
<1>5. QED
  BY <1>1, <1>2, <1>3, <1>4 DEF TypeInv

\* The steps of the application.
LEMMA DataTypes ==
    ASSUME TypeInv, NEW len, NEW extra, Data(len, extra)
    PROVE  TypeInv'
<1> USE DEF TypeInv, Data, session, setting, ack, counter, loop
<1>1. SettingOK' /\ SessionOK' /\ CounterOK' /\ AdrOK' /\ LoopOK' /\ ChannelOK'
  BY DEF SettingOK, SessionOK, CounterOK, AdrOK, LoopOK, ChannelOK
<1>2. AnswerOK'
  BY DEF AnswerOK, Reports
<1>3. QED
  BY <1>1, <1>2

LEMMA SetTypes ==
    ASSUME TypeInv, SetRate \/ SetPower \/ SetADR
    PROVE  TypeInv'
<1>1. Set /\ rate' \in Rates \cup {rate} /\ power' \in Powers \cup {power}
      /\ adr' \in BOOLEAN \cup {adr}
  BY DEF SetRate, SetPower, SetADR
<1> USE DEF TypeInv, Set, session, counter, loop
<1>2. SettingOK' /\ SessionOK' /\ CounterOK'
  BY <1>1 DEF SettingOK, SessionOK, CounterOK
<1>3. AdrOK' /\ LoopOK' /\ ChannelOK' /\ AnswerOK'
  BY <1>1 DEF AdrOK, LoopOK, ChannelOK, AnswerOK
<1>4. QED
  BY <1>2, <1>3

LEMMA ForgetTypes == ASSUME TypeInv, Forget PROVE TypeInv'
<1> USE CommandsAssumption
    DEF CommandsAssumption, TypeInv, Forget, RestoreDefaults, counter, loop
<1>1. SettingOK' /\ SessionOK' /\ CounterOK'
  BY DEF SettingOK, SessionOK, CounterOK
<1>2. AdrOK' /\ LoopOK' /\ AnswerOK'
  BY DEF AdrOK, LoopOK, AnswerOK
<1>3. ChannelOK'
  BY DefaultTypes DEF ChannelOK
<1>4. QED
  BY <1>1, <1>2, <1>3

LEMMA JoinTypes == ASSUME TypeInv, Join PROVE TypeInv'
<1> USE CommandsAssumption
    DEF CommandsAssumption, TypeInv, Join, RestoreDefaults, counter, loop
<1>1. SettingOK' /\ SessionOK' /\ CounterOK'
  BY DEF SettingOK, SessionOK, CounterOK
<1>2. AdrOK' /\ LoopOK'
  BY DEF AdrOK, LoopOK
<1>3. AnswerOK'
  BY DEF AnswerOK, Answered
<1>4. ChannelOK'
  BY DefaultTypes DEF ChannelOK
<1>5. QED
  BY <1>1, <1>2, <1>3, <1>4

\* A request that ends without a downlink: the rate is lowered to a rate, and
\* the counter does not pass its limit.
LEMMA MissingTypes == ASSUME TypeInv, Abandon \/ Missing PROVE TypeInv'
<1> USE DEF TypeInv, session, setting, ack, counter, loop
<1>1. CASE Abandon
  <2>1. SettingOK' /\ SessionOK' /\ CounterOK'
    BY <1>1 DEF Abandon, SettingOK, SessionOK, CounterOK
  <2>2. AdrOK' /\ LoopOK' /\ AnswerOK' /\ ChannelOK'
    BY <1>1 DEF Abandon, AdrOK, LoopOK, AnswerOK, ChannelOK
  <2>3. QED
    BY <2>1, <2>2
<1>2. CASE Missing
  <2>1. /\ rate' \in Rates /\ power' \in Powers /\ chMask' \in SUBSET Channel
        /\ adrAckCounter' \in 0..CounterMax
    BY <1>2, CommandsAssumption
    DEF CommandsAssumption, Missing, AdaptRate, BackOff, SettingOK, CounterOK
  <2>2. adrAckReq' \in BOOLEAN
    <3>1. adrAckReq' = FALSE \/ adrAckReq' = (adrAckCounter >= adr_ack_limit)
      BY <1>2, Zenon DEF Missing, AdaptRate
    <3>2. (adrAckCounter >= adr_ack_limit) \in BOOLEAN
      OBVIOUS
    <3>3. QED
      BY <3>1, <3>2, Zenon
  <2>3. SettingOK' /\ SessionOK' /\ CounterOK'
    BY <1>2, <2>1, <2>2 DEF Missing, SettingOK, SessionOK, CounterOK
  <2>4. AdrOK' /\ LoopOK' /\ AnswerOK' /\ ChannelOK'
    BY <1>2 DEF Missing, AdrOK, LoopOK, AnswerOK, ChannelOK
  <2>5. QED
    BY <2>3, <2>4
<1>3. QED
  BY <1>1, <1>2

LEMMA DownlinkTypes == ASSUME TypeInv, NEW data, Downlink(data) PROVE TypeInv'
<1> USE CommandsAssumption
    DEF CommandsAssumption, TypeInv, Downlink, session, setting, ack
<1>1. SettingOK' /\ SessionOK' /\ CounterOK' /\ ChannelOK'
  <2>1. SettingOK' /\ ChannelOK'
    BY DEF SettingOK, ChannelOK
  <2>2. SessionOK'
    BY DEF SessionOK
  <2>3. CounterOK'
    <3>1. adrAckCounter' \in 0..CounterMax /\ adrAckReq' = FALSE
      OBVIOUS
    <3>2. QED
      BY <3>1, Zenon DEF CounterOK
  <2>4. QED
    BY <2>1, <2>2, <2>3
<1>2. AnswerOK'
  BY DEF AnswerOK, Reports
<1>3. link_adr_ans' \in [mask : BOOLEAN, rate : BOOLEAN, power : BOOLEAN]
  BY DEF AdrOK
<1>4. cache' \in Setting
  BY DEF Settings, Setting, SettingOK
<1>5. AdrOK'
  BY <1>3, <1>4 DEF AdrOK
<1>6. LoopOK'
  BY ShowsFacts DEF LoopOK
<1>7. QED
  BY <1>1, <1>2, <1>5, <1>6

\* A turn of the loop takes one of the commands left.
LEMMA TakeTypes ==
    ASSUME TypeInv, NEW types, "END" \notin types, Take(types)
    PROVE  LoopOK' /\ CounterOK' /\ next \in Commands
           /\ told' \subseteq Reports /\ sent' \subseteq Answered
           /\ UNCHANGED <<dynamic, joined, version, state, cache, quiet>>
<1>1. left - 1 \in 0..MaxCommands /\ next \in Commands /\ left - 1 \in Nat
  BY CommandsAssumption DEF CommandsAssumption, TypeInv, LoopOK, Take
<1>2. LoopOK'
  BY <1>1, ShowsFacts DEF LoopOK, Take
<1>3. QED
  BY <1>1, <1>2 DEF Take, session, counter, Reports, TypeInv, CounterOK

\* What the network expects to be answered is a command that has an answer.
LEMMA ExpectTypes ==
    ASSUME TypeInv, next \in Commands, Expect
    PROVE  owed' \subseteq Answered
BY CommandsAssumption DEF CommandsAssumption, TypeInv, AnswerOK, Expect, Answered

\* A LinkADRReq, whatever it asks, sets valid values only.
LEMMA LinkAdrTypes == ASSUME TypeInv, LinkAdr PROVE TypeInv'
<1>1. Take({"LINK_ADR"}) /\ Expect
  BY DEF LinkAdr
<1>2. LoopOK' /\ CounterOK' /\ next \in Commands
      /\ told' \subseteq Reports /\ sent' \subseteq Answered
      /\ UNCHANGED <<dynamic, joined, version, state, cache, quiet>>
  BY <1>1, TakeTypes
<1>3. owed' \subseteq Answered
  BY <1>1, <1>2, ExpectTypes
<1>4. SessionOK' /\ ChannelOK'
  BY <1>2 DEF LinkAdr, ack, TypeInv, SessionOK, ChannelOK
<1>5. CASE UNCHANGED <<setting, adr_state, pending_cmds, link_adr_ans, asked>>
  <2>1. SettingOK' /\ AdrOK' /\ AnswerOK'
    BY <1>2, <1>3, <1>5 DEF TypeInv, setting, SettingOK, AdrOK, AnswerOK
  <2>2. QED
    BY <1>2, <1>4, <2>1 DEF TypeInv
<1>6. ASSUME NEW r \in Requests, chMask' = Masked(r), asked' = Append(asked, r),
             IF next' = "LINK_ADR"
               THEN /\ link_adr_ans' = [link_adr_ans EXCEPT
                                          !.mask = @ /\ MaskKnown(r)]
                    /\ UNCHANGED <<rate, power, nbTrans, adr_state, pending_cmds>>
               ELSE EndBlock(r)
      PROVE  TypeInv'
  <2>1. chMask' \in SUBSET Channel
    BY <1>6, MaskFacts DEF Masked, TypeInv, SettingOK, SessionOK
  <2>2. asked' \in Seq(Requests)
    BY <1>6 DEF TypeInv, AdrOK
  <2>3. CASE next' = "LINK_ADR"
    <3>1. SettingOK' /\ pending_cmds' \subseteq Answered
      BY <1>6, <2>1, <2>3 DEF TypeInv, SettingOK, AnswerOK
    <3>2. link_adr_ans.mask \in BOOLEAN /\ MaskKnown(r) \in BOOLEAN
      BY DEF MaskKnown, TypeInv, AdrOK
    <3>3. link_adr_ans' \in [mask : BOOLEAN, rate : BOOLEAN, power : BOOLEAN]
      BY <1>6, <2>3, <3>2 DEF TypeInv, AdrOK
    <3>4. QED
      BY <1>2, <1>3, <1>4, <1>6, <2>2, <2>3, <3>1, <3>3
      DEF TypeInv, AdrOK, AnswerOK
  <2>4. CASE next' # "LINK_ADR"
    <3>1. EndBlock(r)
      BY <1>6, <2>4
    <3>2. r.rate \in 0..15 /\ r.power \in 0..15 /\ r.nbTrans \in 0..15
      BY CommandsAssumption DEF CommandsAssumption
    <3>3. SettingOK'
      BY <2>1, <3>1, <3>2, CommandsAssumption
      DEF CommandsAssumption, EndBlock, TypeInv, SettingOK
    <3>4. adr_state' \in {"ADR_OK", "ADR_BAD"} /\ pending_cmds' \subseteq Answered
      BY <3>1 DEF EndBlock, TypeInv, AnswerOK, Answered, SingleShot
    <3>5. link_adr_ans' \in [mask : BOOLEAN, rate : BOOLEAN, power : BOOLEAN]
      <4> DEFINE rateOK  == r.rate = Keep \/ r.rate \in Rates
                 powerOK == r.power = Keep \/ r.power \in Powers
                 maskOK  == link_adr_ans.mask /\ MaskKnown(r) /\ ~AllMasked(chMask')
      <4>1. link_adr_ans' = [mask |-> maskOK, rate |-> rateOK, power |-> powerOK]
        BY <3>1 DEF EndBlock
      <4>2. maskOK \in BOOLEAN /\ rateOK \in BOOLEAN /\ powerOK \in BOOLEAN
        OBVIOUS
      <4> HIDE DEF maskOK, rateOK, powerOK
      <4>3. QED
        BY <4>1, <4>2
    <3>6. QED
      BY <1>2, <1>3, <1>4, <2>2, <3>3, <3>4, <3>5 DEF TypeInv, AdrOK, AnswerOK
  <2>5. QED
    BY <2>3, <2>4
<1>7. QED
  BY <1>5, <1>6 DEF LinkAdr

LEMMA OtherCommandTypes ==
    ASSUME TypeInv, PlainCommand \/ NewChannel \/ AdrParamSetup \/ Rekey \/ Notice
    PROVE  TypeInv'
<1>1. /\ LoopOK' /\ CounterOK' /\ next \in Commands
      /\ told' \subseteq Reports /\ sent' \subseteq Answered
      /\ UNCHANGED <<dynamic, joined, version, state, cache, quiet>>
  <2>1. CASE PlainCommand
    BY <2>1, TakeTypes DEF PlainCommand, Plain
  <2>2. CASE NewChannel
    BY <2>2, TakeTypes DEF NewChannel
  <2>3. CASE AdrParamSetup
    BY <2>3, TakeTypes DEF AdrParamSetup
  <2>4. CASE Rekey
    BY <2>4, TakeTypes DEF Rekey
  <2>5. CASE Notice
    BY <2>5, TakeTypes DEF Notice
  <2>6. QED
    BY <2>1, <2>2, <2>3, <2>4, <2>5
<1>2. owed' \subseteq Answered
  <2>1. CASE Expect
    BY <1>1, <2>1, ExpectTypes
  <2>2. CASE owed' \subseteq owed
    BY <2>2 DEF TypeInv, AnswerOK
  <2>3. QED
    BY <2>1, <2>2 DEF PlainCommand, NewChannel, AdrParamSetup, Rekey, Notice
<1>3. pending_cmds' \subseteq Answered
  <2>1. pending_cmds' \subseteq pending_cmds \cup Plain \cup {"NEW_CHANNEL", "ADR_PARAM_SETUP"}
    BY DEF PlainCommand, NewChannel, AdrParamSetup, Rekey, Notice, Take
  <2>2. QED
    BY <2>1 DEF Plain, Answered, SingleShot, Sticky, TypeInv, AnswerOK
<1>4. SettingOK' /\ AdrOK'
  BY <1>1 DEF PlainCommand, NewChannel, AdrParamSetup, Rekey, Notice, setting,
              TypeInv, SettingOK, AdrOK
<1>5. SessionOK'
  <2>1. /\ adr' = adr
        /\ adr_ack_limit' \in Nat /\ adr_ack_delay' \in Nat \ {0}
    BY CommandsAssumption
    DEF CommandsAssumption, PlainCommand, NewChannel, AdrParamSetup, Rekey,
        Notice, ack, TypeInv, SessionOK
  <2>2. QED
    BY <1>1, <2>1 DEF TypeInv, SessionOK
<1>6. ChannelOK'
  BY DEF PlainCommand, NewChannel, AdrParamSetup, Rekey, Notice, TypeInv, ChannelOK
<1>7. QED
  BY <1>1, <1>2, <1>3, <1>4, <1>5, <1>6 DEF TypeInv, AnswerOK

LEMMA EndCommandsTypes == ASSUME TypeInv, EndCommands PROVE TypeInv'
<1> USE DEF TypeInv, EndCommands, session, ack, counter
<1>1. SettingOK'
  BY DEF RollBack, setting, SettingOK, AdrOK, Setting
<1>2. AdrOK'
  BY NoCacheType DEF AdrOK
<1>3. LoopOK'
  BY CommandsAssumption DEF CommandsAssumption, LoopOK
<1>4. SessionOK' /\ CounterOK' /\ AnswerOK' /\ ChannelOK'
  BY DEF SessionOK, CounterOK, AnswerOK, ChannelOK
<1>5. QED
  BY <1>1, <1>2, <1>3, <1>4

\* Every step keeps the types.
LEMMA TypeStep == ASSUME TypeInv, [Next]_vars PROVE TypeInv'
<1>1. CASE UNCHANGED vars
  BY <1>1
  DEF TypeInv, vars, session, setting, ack, counter, seen, loop, SettingOK,
      SessionOK, CounterOK, AnswerOK, AdrOK, LoopOK, ChannelOK
<1>2. CASE Next
  BY <1>2, DataTypes, SetTypes, ForgetTypes, JoinTypes, MissingTypes,
     DownlinkTypes, LinkAdrTypes, OtherCommandTypes, EndCommandsTypes
  DEF Next, Command
<1>3. QED
  BY <1>1, <1>2

\* Every variable keeps its type, whatever tables the region has and whatever
\* the network sends.
THEOREM TypeCorrect == Spec => []TypeOK
<1>1. TypeInv /\ [Next]_vars => TypeInv'
  BY TypeStep
<1>2. QED
  BY <1>1, InitTypes, TypeParts, PTL DEF Spec

-----------------------------------------------------------------------------
(***************************************************************************)
(* Blocks of LinkADRReqs of any length.                                    *)
(***************************************************************************)
\* A finite set of numbers has a greatest one.
LEMMA GreatestExists ==
    ASSUME NEW n \in Nat, NEW S \in SUBSET (1..n), S # {}
    PROVE  \E x \in S : \A y \in S : x >= y
<1> DEFINE Above(x) == {y \in S : y >= x}
           Parts == {Above(x) : x \in S}
           All == 1..n
<1>1. IsFiniteSet(All)
  BY FS_Interval
<1>2. IsWellFoundedOn(StrictSubsetOrdering(All), SUBSET All)
  BY <1>1, FS_StrictSubsetOrderingWellFounded, FS_FiniteSubsetsOfFinite
<1>3. Parts \subseteq SUBSET All /\ Parts # {}
  OBVIOUS
<1>4. PICK P \in Parts : \A Q \in Parts : ~(<<Q, P>> \in StrictSubsetOrdering(All))
  <2> HIDE DEF Parts, All
  <2>1. QED
    BY <1>2, <1>3, WFMin
<1>5. PICK x \in S : P = Above(x)
  OBVIOUS
<1>6. ASSUME NEW y \in S, ~(x >= y) PROVE FALSE
  <2>1. x \in Int /\ y \in Int /\ \A z \in S : z \in Int
    OBVIOUS
  <2>2. x \in Above(x) /\ x \notin Above(y)
    BY <1>6, <2>1
  <2>3. Above(y) \subseteq Above(x)
    <3>1. \A z \in S : z >= y => z >= x
      BY <1>6, <2>1
    <3>2. QED
      BY <3>1
  <2>4. Above(y) \in SUBSET All /\ Above(x) \in SUBSET All
    OBVIOUS
  <2>5. <<Above(y), Above(x)>> \in StrictSubsetOrdering(All)
    <3> HIDE DEF Above, All
    <3>1. QED
      BY <2>2, <2>3, <2>4 DEF StrictSubsetOrdering
  <2>6. Above(y) \in Parts
    OBVIOUS
  <2>7. QED
    BY <1>4, <1>5, <2>5, <2>6
<1>7. QED
  BY <1>6

\* What a request says of a channel counts, if it says anything; else what the
\* requests before it said.
LEMMA AppendSays ==
    ASSUME NEW block \in Seq(Requests), NEW r \in Requests, NEW c \in Channel
    PROVE  MaskedBy(Append(block, r), c)
             <=> IF Says(dynamic, r, c) = "nothing" THEN MaskedBy(block, c)
                                           ELSE Says(dynamic, r, c) = "off"
<1> DEFINE longer == Append(block, r)
           n == Len(block)
           about == {i \in DOMAIN block : Says(dynamic, block[i], c) # "nothing"}
           aboutL == {i \in DOMAIN longer : Says(dynamic, longer[i], c) # "nothing"}
<1>1. /\ n \in Nat /\ DOMAIN block = 1..n /\ DOMAIN longer = 1..(n + 1)
      /\ longer[n + 1] = r /\ \A i \in 1..n : longer[i] = block[i]
  OBVIOUS
<1>2. CASE Says(dynamic, r, c) = "nothing"
  <2>1. aboutL = about
    BY <1>1, <1>2
  <2>2. about # {} => Max(about) \in about
    <3>1. about \in SUBSET (1..n)
      BY <1>1
    <3>2. about # {} => \E x \in about : \A y \in about : x >= y
      BY <1>1, <3>1, GreatestExists
    <3>3. QED
      BY <3>2 DEF Max
  <2>3. about # {} => longer[Max(about)] = block[Max(about)]
    BY <1>1, <2>2
  <2>4. /\ MaskedBy(block, c) = IF about = {} THEN c \in cache.chMask
                                 ELSE Says(dynamic, block[Max(about)], c) = "off"
        /\ MaskedBy(longer, c) = IF aboutL = {} THEN c \in cache.chMask
                                  ELSE Says(dynamic, longer[Max(aboutL)], c) = "off"
    BY Zenon DEF MaskedBy
  <2>5. MaskedBy(longer, c) <=> MaskedBy(block, c)
    <3> HIDE DEF about, aboutL, longer
    <3>1. QED
      BY <2>1, <2>3, <2>4, Zenon
  <2>6. QED
    BY <1>2, <2>5, Zenon
<1>3. CASE Says(dynamic, r, c) # "nothing"
  <2>1. n + 1 \in aboutL /\ \A i \in aboutL : i \in 1..(n + 1)
    BY <1>1, <1>3
  <2>2. Max(aboutL) = n + 1
    <3>1. \A i \in aboutL : n + 1 >= i
      BY <1>1, <2>1
    <3>2. \A x \in aboutL : (\A y \in aboutL : x >= y) => x = n + 1
      BY <1>1, <2>1
    <3>3. QED
      BY <2>1, <3>1, <3>2 DEF Max
  <2>3. QED
    BY <1>1, <1>3, <2>1, <2>2 DEF MaskedBy
<1>4. QED
  BY <1>2, <1>3

\* Processing a request does to each channel what the request says of it.
LEMMA MaskedSays ==
    ASSUME TypeInv, NEW r \in Requests, NEW c \in Channel
    PROVE  c \in Masked(r) <=> IF Says(dynamic, r, c) = "nothing"
                                 THEN c \in chMask ELSE Says(dynamic, r, c) = "off"
<1>1. r.cntl \in 0..7
  BY CommandsAssumption DEF CommandsAssumption
<1>2. CASE dynamic
  <2>1. Channels = 0..(DynamicChans - 1)
    BY <1>2 DEF Channels, NumChannels
  <2>2. c \in Channels <=> c < DynamicChans
    BY <2>1, CommandsAssumption DEF CommandsAssumption, Channel
  <2>3. CASE r.cntl = 0
    <3>1. Masked(r) = Mask(Unmask(chMask, r.mask), Channels \ r.mask)
      BY <1>2, <2>3 DEF Masked
    <3>2. Says(dynamic, r, c) = IF c \in Channels
                                  THEN IF c \in r.mask THEN "on" ELSE "off"
                                  ELSE "nothing"
      BY <1>2, <2>2, <2>3 DEF Says
    <3>3. QED
      BY <3>1, <3>2 DEF Mask, Unmask
  <2>4. CASE r.cntl = 6
    BY <1>2, <2>4 DEF Masked, Says
  <2>5. CASE r.cntl \notin {0, 6}
    BY <1>2, <2>5 DEF Masked, Says
  <2>6. QED
    BY <2>3, <2>4, <2>5
<1>3. CASE ~dynamic
  <2>1. Channels = Channel
    BY <1>3 DEF Channels, NumChannels, Channel
  <2>2. CASE r.cntl \in {6, 7}
    BY <1>3, <2>1, <2>2, CommandsAssumption
    DEF CommandsAssumption, Masked, Says, Mask, Unmask
  <2>3. CASE r.cntl \in 0..5
    <3>1. Bank[r.cntl] \subseteq Channel
      BY <1>1, CommandsAssumption DEF CommandsAssumption
    <3>2. Masked(r) = Mask(Unmask(chMask, Bank[r.cntl] \cap r.mask),
                           Bank[r.cntl] \ r.mask)
      BY <1>3, <2>3 DEF Masked
    <3>3. Says(dynamic, r, c) = IF c \in Bank[r.cntl]
                                  THEN IF c \in r.mask THEN "on" ELSE "off"
                                  ELSE "nothing"
      BY <1>3, <2>3 DEF Says
    <3>4. QED
      BY <2>1, <3>1, <3>2, <3>3 DEF Mask, Unmask
  <2>4. QED
    BY <1>1, <2>2, <2>3
<1>4. QED
  BY <1>2, <1>3

\* While a block goes on only the channels have changed, and they are as its
\* requests say; once it has ended the settings are what it asks for, or its
\* answer refuses something.
BlockHeld ==
    state = "COMMANDS" =>
      /\ adr_state = "NO_ADR" =>
           /\ rate = cache.rate /\ power = cache.power /\ nbTrans = cache.nbTrans
           /\ \A c \in Channel : c \in chMask <=> MaskedBy(asked, c)
           /\ asked # <<>> => next = "LINK_ADR"
      /\ adr_state = "ADR_OK" =>
           asked # <<>> /\ link_adr_ans = AllAccepted /\ Settings = Wanted(asked)
      /\ adr_state = "ADR_BAD" => link_adr_ans # AllAccepted

\* The settings after the last request of a block that is accepted are what the
\* block asks for.
LEMMA EndBlockWanted ==
    ASSUME TypeInv, IInv, BlockHeld, LinkAdr, "LINK_ADR" \notin pending_cmds,
           NEW r \in Requests, chMask' = Masked(r), asked' = Append(asked, r),
           EndBlock(r), cache' = cache, dynamic' = dynamic, state = "COMMANDS"
    PROVE  /\ adr_state' = "ADR_OK" =>
                asked' # <<>> /\ link_adr_ans' = AllAccepted /\ Settings' = Wanted(asked)'
           /\ adr_state' = "ADR_BAD" => link_adr_ans' # AllAccepted
           /\ adr_state' \in {"ADR_OK", "ADR_BAD"}
<1> DEFINE rateOK  == r.rate = Keep \/ r.rate \in Rates
           powerOK == r.power = Keep \/ r.power \in Powers
           maskOK  == link_adr_ans.mask /\ MaskKnown(r) /\ ~AllMasked(chMask')
<1>1. adr_state = "NO_ADR"
  BY DEF IInv, Fallback
<1>2. /\ link_adr_ans' = [mask |-> maskOK, rate |-> rateOK, power |-> powerOK]
      /\ adr_state' = IF rateOK /\ powerOK /\ maskOK THEN "ADR_OK" ELSE "ADR_BAD"
      /\ nbTrans' = CASE r.nbTrans = 0 -> nbTrans
                      [] r.nbTrans > MaxNbTrans -> MaxNbTrans
                      [] OTHER -> r.nbTrans
      /\ rate' = IF rateOK /\ r.rate # Keep THEN r.rate ELSE rate
      /\ power' = IF powerOK /\ r.power # Keep THEN r.power ELSE power
  BY DEF EndBlock
<1>3. /\ maskOK \in BOOLEAN /\ rateOK \in BOOLEAN /\ powerOK \in BOOLEAN
  OBVIOUS
<1>4. /\ asked \in Seq(Requests) /\ asked' # <<>>
      /\ asked'[Len(asked')] = r
  BY DEF TypeInv, AdrOK
<1>5. adr_state' \in {"ADR_OK", "ADR_BAD"}
  BY <1>2, Zenon
<1>6. adr_state' = "ADR_BAD" => link_adr_ans' # AllAccepted
  <2> HIDE DEF maskOK, rateOK, powerOK
  <2>1. QED
    BY <1>2, <1>3 DEF AllAccepted
<1>7. ASSUME adr_state' = "ADR_OK"
      PROVE  link_adr_ans' = AllAccepted /\ Settings' = Wanted(asked)'
  <2>1. rateOK /\ powerOK /\ maskOK
    <3> HIDE DEF maskOK, rateOK, powerOK
    <3>1. QED
      BY <1>2, <1>7
  <2>2. link_adr_ans' = AllAccepted
    <3> HIDE DEF maskOK, rateOK, powerOK
    <3>1. maskOK = TRUE /\ rateOK = TRUE /\ powerOK = TRUE
      BY <1>3, <2>1
    <3>2. QED
      BY <1>2, <3>1 DEF AllAccepted
  <2>3. rate = cache.rate /\ power = cache.power /\ nbTrans = cache.nbTrans
    BY <1>1 DEF BlockHeld
  <2>4. /\ rate' = IF r.rate = Keep THEN cache.rate ELSE r.rate
        /\ power' = IF r.power = Keep THEN cache.power ELSE r.power
    <3> HIDE DEF maskOK, rateOK, powerOK
    <3>1. QED
      BY <1>2, <2>1, <2>3
  <2>5. nbTrans' = IF r.nbTrans = 0 THEN cache.nbTrans
                   ELSE IF r.nbTrans > MaxNbTrans THEN MaxNbTrans ELSE r.nbTrans
    <3> HIDE DEF maskOK, rateOK, powerOK
    <3>1. CASE r.nbTrans = 0
      <4>1. nbTrans' = CASE r.nbTrans = 0 -> nbTrans
                         [] r.nbTrans > MaxNbTrans -> MaxNbTrans
                         [] OTHER -> r.nbTrans
        BY <1>2, Zenon
      <4>2. MaxNbTrans \in 1..15
        BY CommandsAssumption DEF CommandsAssumption
      <4>3. ~(0 > MaxNbTrans)
        BY <4>2
      <4>4. ~(r.nbTrans > MaxNbTrans)
        BY <3>1, <4>3
      <4>5. nbTrans' = nbTrans
        BY <3>1, <4>1, <4>4
      <4>6. QED
        BY <2>3, <3>1, <4>5, Zenon
    <3>2. CASE r.nbTrans # 0 /\ r.nbTrans > MaxNbTrans
      <4>1. nbTrans' = MaxNbTrans
        BY <1>2, <3>2
      <4>2. QED
        BY <3>2, <4>1, Zenon
    <3>3. CASE r.nbTrans # 0 /\ ~(r.nbTrans > MaxNbTrans)
      <4>1. nbTrans' = r.nbTrans
        BY <1>2, <3>3
      <4>2. QED
        BY <3>3, <4>1, Zenon
    <3>4. QED
      BY <3>1, <3>2, <3>3
  <2>6. \A c \in Channel : MaskedBy(asked, c)' <=> c \in chMask'
    <3> SUFFICES ASSUME NEW c \in Channel
                 PROVE  MaskedBy(asked, c)' <=> c \in chMask'
      OBVIOUS
    <3>1. MaskedBy(asked, c)' <=> MaskedBy(Append(asked, r), c)
      <4>1. asked' = Append(asked, r) /\ cache' = cache /\ dynamic' = dynamic
        OBVIOUS
      <4>2. QED
        BY <4>1, Zenon DEF MaskedBy
    <3>2. c \in chMask <=> MaskedBy(asked, c)
      BY <1>1 DEF BlockHeld
    <3>3. QED
      BY <1>4, <3>1, <3>2, AppendSays, MaskedSays
  <2>7. chMask' = {c \in Channel : MaskedBy(asked, c)'}
    <3>1. chMask' \subseteq Channel
      BY MaskFacts DEF Masked, TypeInv, SettingOK, SessionOK
    <3>2. QED
      BY <2>6, <3>1
  <2>8. Settings' = Wanted(asked)'
    <3>1. Wanted(asked)' = [rate |-> rate', power |-> power', nbTrans |-> nbTrans',
                            chMask |-> chMask']
      <4> DEFINE new == asked'
      <4>1. new[Len(new)] = r
        BY <1>4
      <4>2. Wanted(asked)' =
              [rate   |-> IF new[Len(new)].rate = Keep THEN cache.rate
                          ELSE new[Len(new)].rate,
               power  |-> IF new[Len(new)].power = Keep THEN cache.power
                          ELSE new[Len(new)].power,
               nbTrans |-> IF new[Len(new)].nbTrans = 0 THEN cache.nbTrans
                           ELSE IF new[Len(new)].nbTrans > MaxNbTrans THEN MaxNbTrans
                           ELSE new[Len(new)].nbTrans,
               chMask |-> {c \in Channel : MaskedBy(asked, c)'}]
        BY Zenon DEF Wanted
      <4> HIDE DEF new
      <4>3. QED
        BY <2>4, <2>5, <2>7, <4>1, <4>2, Zenon
    <3>2. QED
      BY <3>1, Zenon DEF Settings
  <2>9. QED
    BY <2>2, <2>8
<1>8. QED
  BY <1>4, <1>5, <1>6, <1>7

\* A turn of the loop that takes another command leaves the block alone.
LEMMA BlockUntouched ==
    ASSUME BlockHeld, state = "COMMANDS", state' = "COMMANDS", next # "LINK_ADR",
           UNCHANGED <<setting, cache, adr_state, link_adr_ans, asked, dynamic>>
    PROVE  BlockHeld'
<1>1. UNCHANGED <<rate, power, nbTrans, chMask>>
  BY DEF setting
<1>2. /\ Settings' = Settings /\ Wanted(asked)' = Wanted(asked)
      /\ \A c \in Channel : MaskedBy(asked, c)' <=> MaskedBy(asked, c)
  BY <1>1, Zenon DEF Settings, Wanted, MaskedBy
<1>3. adr_state = "NO_ADR" => asked = <<>>
  BY DEF BlockHeld
<1>4. QED
  BY <1>1, <1>2, <1>3 DEF BlockHeld

\* No request asks for the channels there were before the downlink.
LEMMA NothingSaid == ASSUME NEW c PROVE MaskedBy(<<>>, c) <=> c \in cache.chMask
<1>1. {i \in DOMAIN <<>> : Says(dynamic, <<>>[i], c) # "nothing"} = {}
  OBVIOUS
<1>2. QED
  BY <1>1, Zenon DEF MaskedBy

LEMMA DownlinkBlock == ASSUME TypeInv, NEW data, Downlink(data) PROVE BlockHeld'
<1>1. /\ state' = "COMMANDS" /\ adr_state' = "NO_ADR" /\ asked' = <<>>
      /\ cache' = Settings /\ UNCHANGED <<rate, power, nbTrans, chMask>>
  BY DEF Downlink, setting
<1>2. \A c \in Channel : MaskedBy(asked, c)' <=> c \in cache'.chMask
  <2> SUFFICES ASSUME NEW c \in Channel
               PROVE  MaskedBy(asked, c)' <=> c \in cache'.chMask
    OBVIOUS
  <2>1. {i \in DOMAIN asked' : Says(dynamic', asked'[i], c) # "nothing"} = {}
    BY <1>1
  <2>2. QED
    BY <2>1, Zenon DEF MaskedBy
<1>3. QED
  BY <1>1, <1>2 DEF BlockHeld, Settings

LEMMA LinkAdrBlock == ASSUME TypeInv, IInv, BlockHeld, LinkAdr PROVE BlockHeld'
<1>1. /\ state = "COMMANDS" /\ state' = "COMMANDS" /\ next = "LINK_ADR"
      /\ dynamic' = dynamic /\ cache' = cache
  BY DEF LinkAdr, Take, session
<1>2. CASE /\ "LINK_ADR" \in pending_cmds
           /\ UNCHANGED <<setting, adr_state, pending_cmds, link_adr_ans, asked>>
  <2>1. UNCHANGED <<rate, power, nbTrans, chMask>>
    BY <1>2 DEF setting
  <2>2. Settings' = Settings /\ Wanted(asked)' = Wanted(asked)
    BY <1>1, <1>2, <2>1, Zenon DEF Settings, Wanted, MaskedBy
  <2>3. adr_state # "NO_ADR"
    BY <1>1, <1>2 DEF IInv, Fallback
  <2>4. QED
    BY <1>1, <1>2, <2>2, <2>3 DEF BlockHeld
<1>3. ASSUME "LINK_ADR" \notin pending_cmds, NEW r \in Requests,
             chMask' = Masked(r), asked' = Append(asked, r), next' = "LINK_ADR",
             UNCHANGED <<rate, power, nbTrans, adr_state>>
      PROVE  BlockHeld'
  <2>1. adr_state = "NO_ADR"
    BY <1>1, <1>3 DEF IInv, Fallback
  <2>2. \A c \in Channel : c \in chMask' <=> MaskedBy(asked, c)'
    <3> SUFFICES ASSUME NEW c \in Channel
                 PROVE  MaskedBy(asked, c)' <=> c \in chMask'
      OBVIOUS
    <3>1. MaskedBy(asked, c)' <=> MaskedBy(Append(asked, r), c)
      BY <1>1, <1>3, Zenon DEF MaskedBy
    <3>2. c \in chMask <=> MaskedBy(asked, c)
      BY <1>1, <2>1 DEF BlockHeld
    <3>3. asked \in Seq(Requests)
      BY DEF TypeInv, AdrOK
    <3>4. QED
      BY <1>3, <3>1, <3>2, <3>3, AppendSays, MaskedSays
  <2>3. QED
    BY <1>1, <1>3, <2>1, <2>2 DEF BlockHeld
<1>4. ASSUME "LINK_ADR" \notin pending_cmds, NEW r \in Requests,
             chMask' = Masked(r), asked' = Append(asked, r), EndBlock(r)
      PROVE  BlockHeld'
  BY <1>1, <1>4, EndBlockWanted DEF BlockHeld
<1>5. QED
  BY <1>2, <1>3, <1>4 DEF LinkAdr

LEMMA BlockStep ==
    ASSUME TypeInv, IInv, BlockHeld, [Next]_vars
    PROVE  BlockHeld'
<1>1. CASE UNCHANGED vars
  <2>1. /\ UNCHANGED <<rate, power, nbTrans, chMask>>
        /\ UNCHANGED <<state, next, cache, adr_state, link_adr_ans, asked, dynamic>>
    BY <1>1 DEF vars, session, setting, loop
  <2>2. /\ Settings' = Settings /\ Wanted(asked)' = Wanted(asked)
        /\ \A c \in Channel : MaskedBy(asked, c)' <=> MaskedBy(asked, c)
    BY <2>1, Zenon DEF Settings, Wanted, MaskedBy
  <2>3. QED
    BY <2>1, <2>2 DEF BlockHeld
<1>2. CASE \E data \in BOOLEAN : Downlink(data)
  BY <1>2, DownlinkBlock
<1>3. CASE LinkAdr
  BY <1>3, LinkAdrBlock
<1>4. CASE PlainCommand \/ NewChannel \/ AdrParamSetup \/ Rekey \/ Notice
  <2>1. /\ state = "COMMANDS" /\ state' = "COMMANDS" /\ next # "LINK_ADR"
        /\ UNCHANGED <<setting, cache, adr_state, link_adr_ans, asked, dynamic>>
    BY <1>4 DEF PlainCommand, NewChannel, AdrParamSetup, Rekey, Notice, Take, Plain,
                session
  <2>2. QED
    BY <2>1, BlockUntouched
<1>5. ASSUME state' # "COMMANDS" PROVE BlockHeld'
  BY <1>5 DEF BlockHeld
<1>6. ASSUME \/ \E len \in Lengths, extra \in 0..2 : Data(len, extra)
             \/ SetRate \/ SetPower \/ SetADR \/ Forget \/ Join \/ Abandon
             \/ Missing \/ EndCommands
      PROVE  state' # "COMMANDS"
  BY <1>6 DEF Data, SetRate, SetPower, SetADR, Set, Forget, Join, Abandon, Missing,
              EndCommands
<1>7. QED
  BY <1>1, <1>2, <1>3, <1>4, <1>5, <1>6 DEF Next, Command

\* After the commands of a downlink the settings are what the first block of
\* LinkADRReqs asks for if its answer accepts all of it, and else as before,
\* however long the block is and whatever the tables of the region.
THEOREM BlockAppliedWhole == ASSUME ~MayTruncate PROVE Spec => WholeBlockOrNothing
<1> DEFINE Kept == TypeInv /\ IInv /\ BlockHeld
<1>1. Init => Kept
  BY InitTypes, InitIInv, Zenon DEF Init, BlockHeld
<1>2. Kept /\ [Next]_vars => Kept'
  BY TypeStep, NextIInv, BlockStep
<1>3. Kept /\ [Next]_vars =>
        (state = "COMMANDS" /\ state' = "IDLE" =>
           Settings' = IF asked # <<>> /\ link_adr_ans = AllAccepted
                         THEN Wanted(asked) ELSE cache)
  <2> SUFFICES ASSUME Kept, [Next]_vars, state = "COMMANDS", state' = "IDLE"
               PROVE  Settings' = IF asked # <<>> /\ link_adr_ans = AllAccepted
                                    THEN Wanted(asked) ELSE cache
    OBVIOUS
  <2>1. EndCommands
    BY DEF Next, vars, Data, SetRate, SetPower, SetADR, Set, Forget, Join, Abandon,
           Missing, Downlink, Command, LinkAdr, PlainCommand, NewChannel,
           AdrParamSetup, Rekey, Notice, Take
  <2>2. next = "END" /\ RollBack
    BY <2>1 DEF EndCommands
  <2>3. adr_state \in {"NO_ADR", "ADR_OK", "ADR_BAD"} /\ cache \in Setting
    BY DEF TypeInv, AdrOK
  <2>4. CASE adr_state = "NO_ADR"
    <3>1. Settings' = Settings /\ asked = <<>>
      BY <2>2, <2>4 DEF RollBack, setting, Settings, BlockHeld
    <3>2. /\ rate = cache.rate /\ power = cache.power /\ nbTrans = cache.nbTrans
          /\ \A c \in Channel : c \in chMask <=> MaskedBy(asked, c)
      BY <2>4 DEF BlockHeld
    <3>3. chMask = cache.chMask
      <4>1. \A c \in Channel : c \in chMask <=> c \in cache.chMask
        BY <3>1, <3>2, NothingSaid
      <4>2. QED
        BY <2>3, <4>1 DEF TypeInv, SettingOK, Setting
    <3>4. QED
      BY <2>3, <3>1, <3>2, <3>3 DEF Settings, Setting
  <2>5. CASE adr_state = "ADR_OK"
    BY <2>2, <2>5 DEF RollBack, setting, Settings, BlockHeld
  <2>6. CASE adr_state = "ADR_BAD"
    BY <2>2, <2>3, <2>6 DEF RollBack, Settings, Setting, BlockHeld
  <2>7. QED
    BY <2>3, <2>4, <2>5, <2>6
<1>4. QED
  <2> HIDE DEF Kept
  <2>1. QED
    BY <1>1, <1>2, <1>3, PTL DEF Spec, WholeBlockOrNothing
-----------------------------------------------------------------------------
(* The length of an uplink. *)

\* What answers need is a number of bytes.
LEMMA BytesType == ASSUME NEW S \in SUBSET Answered PROVE Bytes(S) \in Nat
<1>1. IsFiniteSet(Answered)
  <2>1. /\ IsFiniteSet({"LINK_ADR"}) /\ IsFiniteSet({"DEV_STATUS"}) /\ IsFiniteSet({"NEW_CHANNEL"})
        /\ IsFiniteSet({"REJOIN_PARAM_SETUP"}) /\ IsFiniteSet({"ADR_PARAM_SETUP"})
        /\ IsFiniteSet({"TX_PARAM_SETUP"}) /\ IsFiniteSet({"DUTY_CYCLE"})
        /\ IsFiniteSet({"RX_PARAM_SETUP"}) /\ IsFiniteSet({"DL_CHANNEL"})
        /\ IsFiniteSet({"RX_TIMING_SETUP"}) /\ IsFiniteSet({"REKEY"})
    BY FS_Singleton
  <2>2. IsFiniteSet({"LINK_ADR"} \cup {"DEV_STATUS"} \cup {"NEW_CHANNEL"} \cup {"REJOIN_PARAM_SETUP"}
                      \cup {"ADR_PARAM_SETUP"} \cup {"TX_PARAM_SETUP"} \cup {"DUTY_CYCLE"}
                      \cup {"RX_PARAM_SETUP"} \cup {"DL_CHANNEL"} \cup {"RX_TIMING_SETUP"}
                      \cup {"REKEY"})
    BY <2>1, FS_Union, Zenon
  <2>3. QED
    BY <2>2, Zenon DEF Answered, SingleShot, Sticky
<1> DEFINE Of(size) == Cardinality({type \in S : Size(type) = size})
<1>2. ASSUME NEW size PROVE Of(size) \in Nat
  BY <1>1, FS_Subset, FS_CardinalityType
<1>3. Bytes(S) = Of(1) + 2 * Of(2) + 3 * Of(3)
  BY DEF Bytes
<1>4. Of(1) \in Nat /\ Of(2) \in Nat /\ Of(3) \in Nat
  BY <1>2
<1> HIDE DEF Of
<1>5. QED
  BY <1>3, <1>4

\* Data no longer than LDL_MAC_mtu() is never refused: LDL_MAC_mtu() and
\* externalDataCommand() count the same answers.
THEOREM LengthHonoured == Spec => MtuHonoured
<1>1. ASSUME TypeOK, NEW len \in Lengths, Data(len, 0), len <= Mtu, Mtu > 0,
             "TX_PARAM_SETUP" \notin pending_cmds, Bytes(pending_cmds) <= FOptsMax
      PROVE  told' = {"TRUE"}
  <2>1. pending_cmds \subseteq Answered /\ rate \in Rates
    BY <1>1 DEF TypeOK, Settings, Setting
  <2>2. Bytes(pending_cmds) \in Nat
    BY <2>1, BytesType
  <2>3. MaxPayload[rate] \in Nat /\ Overhead \in Nat /\ FOptsMax \in Nat /\ len \in Nat
    BY <2>1, CommandsAssumption
  <2>4. pending_cmds \ {"TX_PARAM_SETUP"} = pending_cmds
    BY <1>1
  <2>5. Mtu = MaxPayload[rate] - (Overhead + Bytes(pending_cmds))
    BY <1>1, <2>2, <2>3, <2>4 DEF Mtu
  <2>6. Bytes(pending_cmds) + 0 <= FOptsMax
          /\ Overhead + len + (Bytes(pending_cmds) + 0) <= MaxPayload[rate]
    BY <1>1, <2>2, <2>3, <2>5
  <2>7. QED
    BY <1>1, <2>6 DEF Data
<1>2. TypeOK => (\A len \in Lengths :
                   /\ Data(len, 0) /\ len <= Mtu /\ Mtu > 0
                   /\ "TX_PARAM_SETUP" \notin pending_cmds
                   /\ Bytes(pending_cmds) <= FOptsMax
                   => told' = {"TRUE"})
  BY <1>1
<1>3. QED
  BY <1>2, TypeCorrect, PTL DEF MtuHonoured
=============================================================================
