------------------------------- MODULE Codec -------------------------------
(***************************************************************************)
(* From a request to the bytes of a frame and back: the device builds join *)
(* requests and data frames with their answers, network commands, MICs and *)
(* ciphers (src/src/ldl_ops.c, over Frames, CommandCodec and Security),    *)
(* and reads what a network sends, whole or cut short.                     *)
(*                                                                         *)
(* Which frames are taken is the subject of Session, which commands are    *)
(* answered that of Commands; here a MIC is right unless the frame was cut.*)
(***************************************************************************)
EXTENDS Frames, CommandCodec, Security, FiniteSets

CONSTANTS
    MaxPacket,      \* LDL_MAX_PACKET
    MaxPayload,     \* of the rate in use, LDL_Region_convertRate()
    Arduino,        \* may the device be built with the Arduino wrapper?
    MaxJoins,       \* bound of joins
    JoinLengths,    \* bytes of a join accept that arrive
    Requests,       \* data requests and the answers that go with them
    Downlinks,      \* of the network
    Lost            \* bytes of a downlink that may be missing at its end

\* What externalDataCommand() takes and has to add: data has to be somewhere.
RequestType ==
    {r \in [confirmed : BOOLEAN, adr : BOOLEAN, adrAckReq : BOOLEAN, port : 1..223,
            hasData : BOOLEAN, len : 0..255, answers : Seq(AnswerType)] : r.len > 0 => r.hasData}

\* Numbers of so many bytes.
Unsigned(bytes) == {n \in Nat : n \div 256^(bytes - 1) < 256}

\* The commands of a network, with fields of the widths they have on the air, and its
\* downlinks.
CommandType ==
    [type : {"LINK_CHECK"}, fields : [margin : 0..255, gwCount : 0..255]]
      \cup [type : {"LINK_ADR"},
            fields : [dataRate : 0..15, txPower : 0..15, channelMask : Unsigned(2),
                      channelMaskControl : 0..7, nbTrans : 0..15]]
      \cup [type : {"DUTY_CYCLE"}, fields : [maxDutyCycle : 0..15]]
      \cup [type : {"RX_PARAM_SETUP"},
            fields : [rx1DROffset : 0..7, rx2DataRate : 0..15, freq : Unsigned(3)]]
      \cup [type : {"DEV_STATUS", "PROPRIETARY"}, fields : {<<>>}]
      \cup [type : {"NEW_CHANNEL"},
            fields : [chIndex : 0..255, freq : Unsigned(3), maxDR : 0..15, minDR : 0..15]]
      \cup [type : {"RX_TIMING_SETUP"}, fields : [delay : 0..15]]
      \cup [type : {"TX_PARAM_SETUP"},
            fields : [downlinkDwell : BOOLEAN, uplinkDwell : BOOLEAN, maxEIRP : 0..15]]
      \cup [type : {"DL_CHANNEL"}, fields : [chIndex : 0..255, freq : Unsigned(3)]]
      \cup [type : {"REKEY"}, fields : [version : 0..15]]
      \cup [type : {"ADR_PARAM_SETUP"}, fields : [limit_exp : 0..15, delay_exp : 0..15]]
      \cup [type : {"DEVICE_TIME"}, fields : [seconds : Unsigned(4), fractions : 0..255]]
      \cup [type : {"FORCE_REJOIN"},
            fields : [period : 0..7, max_retries : 0..7, rejoin_type : 0..7, dr : 0..15]]
      \cup [type : {"REJOIN_PARAM_SETUP"}, fields : [maxTimeN : 0..15, maxCountN : 0..15]]

DownlinkType ==
    {d \in [place : {"NONE", "OPTS", "PORT0"}, commands : Seq(CommandType), cut : Nat,
            port : 0..255, len : 0..255, confirmed : BOOLEAN, ack : BOOLEAN, pending : BOOLEAN] :
        d.place = "PORT0" => d.port = 0}

ASSUME CodecAssumption ==
    /\ MaxPacket \in 0..255 /\ MaxPayload \in 0..250
    /\ Arduino \subseteq BOOLEAN /\ MaxJoins \in Nat
    /\ JoinLengths \subseteq 1..255 /\ Lost \subseteq Nat
    /\ Requests \subseteq RequestType /\ Downlinks \subseteq DownlinkType

VARIABLES
    arduino, keys,
    version, joins,  \* ctx.version, and the nonces of the last join accept
    stage,       \* IDLE, JOINING, COMMANDS
    last,        \* what the last call was given, and what came of it
    walk,        \* processCommands(): the stream
    read         \* processCommands(): the commands read so far

vars == <<arduino, keys, version, joins, stage, last, walk, read>>

JoinEUI  == <<1, 2, 3, 4, 5, 6, 7, 8>>
DevEUI   == <<11, 12, 13, 14, 15, 16, 17, 18>>
DevAddr  == 100 + 256 * (101 + 256 * (102 + 256 * 3))
Counter  == 4 + 256 * 5
MicBytes == 21 + 256 * (22 + 256 * (23 + 256 * 24))   \* any MIC
MacsSize == 30                                        \* sizeof(macs)

\* Where answer k starts, by the sizes of those before it.
StartOf(ans, k) == FoldLeft(LAMBDA n, a : n + SizeofCommandUp(a.type), 0, SubSeq(ans, 1, k - 1))

\* macs is "large enough for all possible MAC commands" (ldl_mac.c:1351).
AnswersFit == \A r \in Requests : StartOf(r.answers, Len(r.answers) + 1) <= MacsSize

\* The buffer has room for what the rate allows, and for answers alone.
Room == 43 <= MaxPacket /\ MaxPayload + 5 <= MaxPacket

Key(name) == keys[Slot(arduino, name)]

\* The bytes a MIC is made over, as marks: a block before the message, and the
\* message.  Lengths are bytes, that of an empty message less a MIC too.
Block0(len)  == [i \in 1..len |-> -i]
Message(pkt) == [i \in 1..((Len(pkt) - MicSize) % 256) |-> i]

\* The bytes of part p of a frame and the key stream each is given.
Enciphered(p, iv, first) == [at |-> p.at, stream |-> KeyStream(iv, first, p.len)]
IV(key, dir) == [key |-> key, dir |-> dir, devAddr |-> DevAddr, counter |-> Counter]

NoCall == [call |-> "None"]

Init ==
    /\ arduino \in Arduino
    /\ keys = InitialKeys
    /\ version = 0 /\ joins = 0
    /\ stage = "IDLE" /\ last = NoCall /\ walk = Stream(<<>>) /\ read = <<>>

-----------------------------------------------------------------------------
(***************************************************************************)
(* Joining.                                                                *)
(***************************************************************************)
\* LDL_MAC_otaa() and LDL_OPS_prepareJoinRequest()
JoinRequest ==
    /\ stage = "IDLE" /\ last = NoCall /\ joins < MaxJoins
    /\ keys' = IF arduino THEN keys ELSE DeriveJoinKeys(arduino, keys)
    /\ LET f   == [joinEUI |-> JoinEUI, devEUI |-> DevEUI, devNonce |-> joins, mic |-> 0]
           pkt == PutJoinRequest(f, MaxPacket)
       IN last' = [call |-> "JoinRequest", pkt |-> UpdateMIC(pkt, MicBytes),
                   mics |-> {[mic |-> Mic(keys'[Slot(arduino, "NWK")], <<>>, Message(pkt)),
                              of |-> Message(pkt)]}]
    /\ stage' = "JOINING"
    /\ UNCHANGED <<arduino, version, joins, walk, read>>

\* A network's join accept before it is enciphered.
NetworkJoinAccept(optNeg, listed) ==
    <<32, 31, 32, 33, 41, 42, 43>> \o LE(DevAddr, 4)
      \o <<(IF optNeg THEN 128 ELSE 0) + 3 * 16 + 5, 0>>
      \o (IF listed THEN [i \in 1..16 |-> 50 + i] ELSE <<>>) \o LE(MicBytes, 4)

\* LDL_SM_ecb() of the bytes from 1 on, and of those after the shorter form: how
\* often each byte of a join accept is deciphered.
Deciphered(len) ==
    [p \in 1..len |->
        Cardinality({b \in {1} \cup (IF len = SizeofJoinAccept(TRUE)
                                       THEN {SizeofJoinAccept(FALSE)} ELSE {}) :
                        p \in (b + 1)..(b + BlockSize)})]

\* LDL_OPS_receiveFrame() and the end of LDL_OP_JOINING, for a join accept of
\* which len bytes arrive; junk follows the frame if it is shorter.
JoinAccept(optNeg, listed, len) ==
    /\ stage = "JOINING"
    /\ optNeg => ~arduino
    /\ LET whole == NetworkJoinAccept(optNeg, listed)
           bytes == SubSeq(whole \o [i \in 1..len |-> 99], 1, len)
           f     == Decode(bytes)
           hdr   == IF optNeg THEN Block0(11) ELSE <<>>
           key   == Key(IF optNeg THEN "JSINT" ELSE "NWK")
           taken == f.ok /\ len = Len(whole)      \* the MIC is right
       IN /\ last' = [call |-> "JoinAccept", len |-> len, optNeg |-> optNeg,
                      listed |-> listed, f |-> f, bytes |-> bytes,
                      deciphered |-> Deciphered(len),
                      mics |-> {[mic |-> Mic(key, hdr, Message(bytes)),
                                 of |-> hdr \o Message(bytes)]}]
          /\ IF taken
               THEN /\ version' = (IF f.optNeg THEN 1 ELSE 0) /\ joins' = joins + 1
                    /\ keys' = DeriveKeys(arduino, joins', keys, version')
               ELSE UNCHANGED <<version, joins, keys>>
    /\ stage' = "IDLE"
    /\ UNCHANGED <<arduino, walk, read>>

-----------------------------------------------------------------------------
(***************************************************************************)
(* Uplinks: the end of externalDataCommand(), LDL_OPS_prepareData() and    *)
(* LDL_OPS_micDataFrame().                                                 *)
(***************************************************************************)
\* The frame of request r with its answers in macs.
UplinkFrame(r, macs) ==
    LET f == [type |-> IF r.confirmed THEN "DATA_CONFIRMED_UP" ELSE "DATA_UNCONFIRMED_UP",
              devAddr |-> DevAddr, counter |-> Counter, adr |-> r.adr,
              adrAckReq |-> r.adrAckReq, ack |-> FALSE, pending |-> FALSE, port |-> r.port,
              opts |-> macs, dataPresent |-> r.hasData,
              data |-> [i \in 1..r.len |-> 60 + (i % 60)], mic |-> 0]
    IN IF Len(macs) <= 15 /\ DataOverhead + r.len + Len(macs) <= MaxPayload THEN f
       ELSE IF Len(macs) < 16
         THEN [f EXCEPT !.type = "DATA_UNCONFIRMED_UP", !.dataPresent = FALSE, !.data = <<>>]
         ELSE [f EXCEPT !.type = "DATA_UNCONFIRMED_UP", !.port = 0, !.opts = <<>>,
                        !.dataPresent = TRUE, !.data = macs]

DataKey(port) == Key(IF port = 0 THEN "NWKSENC" ELSE "APPS")

\* LDL_OPS_prepareData() and the like for a downlink: options are enciphered in
\* 1.1 only, from block 0; data from block 1.
Ciphers(dir, opts, data, port) ==
    (IF version = 1 THEN {Enciphered(opts, IV(Key("NWKSENC"), dir), 0)} ELSE {})
      \cup {Enciphered(data, IV(DataKey(port), dir), 1)}

Uplink(r) ==
    /\ stage = "IDLE" /\ last = NoCall /\ joins > 0
    /\ LET macs == Written(FoldLeft(PutAnswer, Blank(MacsSize), r.answers))
           f    == UplinkFrame(r, macs)
           pkt  == PutData(f, MaxPacket)
           of   == Block0(BlockSize) \o Message(pkt)
           M(name) == [mic |-> Mic(Key(name), Block0(BlockSize), Message(pkt)), of |-> of]
       IN last' = [call |-> "Uplink", request |-> r, f |-> f, macs |-> macs,
                   pkt |-> UpdateMIC(pkt, MicBytes),
                   mics |-> {M("FNWKSINT")} \cup (IF version = 1 THEN {M("SNWKSINT")} ELSE {}),
                   ciphers |-> IF pkt = <<>> THEN {}
                               ELSE Ciphers("UP", Part(OffOpts, Len(f.opts)),
                                            Part(OffData(f), Len(f.data)), f.port)]
    /\ UNCHANGED <<arduino, keys, version, joins, stage, walk, read>>

-----------------------------------------------------------------------------
(***************************************************************************)
(* Downlinks.                                                              *)
(***************************************************************************)
\* How a network codes its commands, by the identifiers of LoRaWAN.
Cid(type) ==
    CASE type = "LINK_CHECK" -> 2       [] type = "LINK_ADR" -> 3
      [] type = "DUTY_CYCLE" -> 4       [] type = "RX_PARAM_SETUP" -> 5
      [] type = "DEV_STATUS" -> 6       [] type = "NEW_CHANNEL" -> 7
      [] type = "RX_TIMING_SETUP" -> 8  [] type = "TX_PARAM_SETUP" -> 9
      [] type = "DL_CHANNEL" -> 10      [] type = "REKEY" -> 11
      [] type = "ADR_PARAM_SETUP" -> 12 [] type = "DEVICE_TIME" -> 13
      [] type = "FORCE_REJOIN" -> 14    [] type = "REJOIN_PARAM_SETUP" -> 15
      [] type = "PROPRIETARY" -> 99

NetworkPayload(type, v) ==
    CASE type = "LINK_CHECK"      -> <<v.margin, v.gwCount>>
      [] type = "LINK_ADR"        -> <<v.dataRate * 16 + v.txPower>> \o LE(v.channelMask, 2)
                                       \o <<v.channelMaskControl * 16 + v.nbTrans>>
      [] type = "DUTY_CYCLE"      -> <<v.maxDutyCycle>>
      [] type = "RX_PARAM_SETUP"  -> <<v.rx1DROffset * 16 + v.rx2DataRate>> \o LE(v.freq, 3)
      [] type = "NEW_CHANNEL"     -> <<v.chIndex>> \o LE(v.freq, 3) \o <<v.maxDR * 16 + v.minDR>>
      [] type = "DL_CHANNEL"      -> <<v.chIndex>> \o LE(v.freq, 3)
      [] type = "RX_TIMING_SETUP" -> <<v.delay>>
      [] type = "TX_PARAM_SETUP"  -> <<Bit(v.downlinkDwell, 32) + Bit(v.uplinkDwell, 16) + v.maxEIRP>>
      [] type = "REKEY"           -> <<v.version>>
      [] type = "ADR_PARAM_SETUP" -> <<v.limit_exp * 16 + v.delay_exp>>
      [] type = "DEVICE_TIME"     -> LE(v.seconds, 4) \o <<v.fractions>>
      [] type = "FORCE_REJOIN"    -> LE(((v.period * 8 + v.max_retries) * 8 + v.rejoin_type) * 16
                                          + v.dr, 2)
      [] type = "REJOIN_PARAM_SETUP" -> <<v.maxTimeN * 16 + v.maxCountN>>
      [] OTHER                    -> <<>>

NetworkCommand(c)   == <<Cid(c.type)>> \o NetworkPayload(c.type, c.fields)
NetworkCommands(cs) == FlattenSeq([i \in DOMAIN cs |-> NetworkCommand(cs[i])])

\* A downlink d as a network sends it: commands in the options, or on port 0, or
\* data of the application, or neither.  The last bytes of the commands may have
\* been cut off by the network.
CommandBytes(d) == LET all == NetworkCommands(d.commands) IN SubSeq(all, 1, Len(all) - d.cut)
DownOpts(d)     == IF d.place = "OPTS" THEN CommandBytes(d) ELSE <<>>
DownData(d)     == IF d.place = "PORT0" THEN CommandBytes(d)
                                        ELSE [i \in 1..d.len |-> 70 + (i % 60)]
HasPort(d)      == d.place = "PORT0" \/ d.port > 0

NetworkData(d) ==
    <<IF d.confirmed THEN 160 ELSE 96>> \o LE(DevAddr, 4)
      \o <<Bit(d.ack, 32) + Bit(d.pending, 16) + Len(DownOpts(d))>>
      \o LE(Counter, 2) \o DownOpts(d)
      \o (IF HasPort(d) THEN <<d.port>> \o DownData(d) ELSE <<>>) \o LE(MicBytes, 4)

\* Options have a length of four bits, and a frame one of a byte.
ASSUME DownlinkAssumption ==
    \A d \in Downlinks :
        /\ d.cut <= Len(NetworkCommands(d.commands))
        /\ Len(DownOpts(d)) <= 15 /\ Len(NetworkData(d)) <= 255

PartOf(bytes, p) == SubSeq(bytes, p.at + 1, p.at + p.len)

\* LDL_OPS_receiveFrame() for a downlink that lacks its last lost bytes, and what
\* LDL_MAC_process() hands to processCommands(): the options, or data on port 0.
Downlink(d, lost) ==
    /\ stage = "IDLE" /\ last = NoCall /\ joins > 0
    /\ LET whole == NetworkData(d)
           bytes == SubSeq(whole, 1, Len(whole) - lost)
           f     == Decode(bytes)
           of    == Block0(BlockSize) \o Message(bytes)
           taken == f.ok /\ lost = 0              \* the MIC is right
           macs  == IF ~taken THEN <<>>
                    ELSE IF f.data.len > 0 /\ f.port = 0 THEN PartOf(bytes, f.data)
                    ELSE PartOf(bytes, f.opts)
       IN /\ last' = [call |-> "Downlink", d |-> d, lost |-> lost, f |-> f, bytes |-> bytes,
                      mics |-> {[mic |-> Mic(Key("SNWKSINT"), Block0(BlockSize),
                                             Message(bytes)), of |-> of]},
                      ciphers |-> IF taken THEN Ciphers("DOWN", f.opts, f.data, f.port)
                                           ELSE {}]
          /\ stage' = IF taken THEN "COMMANDS" ELSE "IDLE"
          /\ walk' = Stream(macs)
    /\ read' = <<>>
    /\ UNCHANGED <<arduino, keys, version, joins>>

\* One turn of the loop in processCommands().
GetCommand ==
    /\ stage = "COMMANDS"
    /\ LET r == GetDownCommand(walk)
       IN IF r.ok
            THEN /\ walk' = r.s /\ UNCHANGED stage
                 /\ read' = Append(read, [type |-> r.type, fields |-> r.fields,
                                          shown |-> PeekNext(walk)])
            ELSE /\ walk' = r.s /\ stage' = "IDLE" /\ UNCHANGED read
    /\ UNCHANGED <<arduino, keys, version, joins, last>>

\* The application or the network is done with what a call gave it.
Done ==
    /\ stage = "IDLE" /\ last # NoCall
    /\ last' = NoCall /\ walk' = Stream(<<>>) /\ read' = <<>>
    /\ UNCHANGED <<arduino, keys, version, joins, stage>>

Next ==
    \/ Done
    \/ JoinRequest
    \/ \E optNeg, listed \in BOOLEAN, len \in JoinLengths : JoinAccept(optNeg, listed, len)
    \/ \E r \in Requests : Uplink(r)
    \/ \E d \in Downlinks, lost \in Lost : Downlink(d, lost)
    \/ GetCommand

Spec == Init /\ [][Next]_vars

-----------------------------------------------------------------------------
(***************************************************************************)
(* Properties.                                                             *)
(***************************************************************************)
\* Every variable keeps its type, and the position of the stream stays inside
\* its buffer: src/src/ldl_stream.c.
TypeOK ==
    /\ arduino \in BOOLEAN
    /\ \A name \in KeyNames : Key(name) \in [root : RootKeys, i : 0..6, block : 0..MaxJoins]
    /\ version \in {0, 1} /\ joins \in 0..MaxJoins
    /\ stage \in {"IDLE", "JOINING", "COMMANDS"}
    /\ walk.pos \in 0..Len(walk.buf) /\ walk.error \in BOOLEAN

Is(call) == last.call = call

\* Of the keys of a session, each is derived from the root key, with the number
\* and in the join its name stands for, whichever keys share a slot: LDL_OPS_deriveKeys()
\* derives them one after the other into the store it takes the roots from.
KeysAsNamed ==
    joins > 0 /\ stage # "JOINING" =>
       /\ Key("NWK").i = 0 /\ (version = 1 => Key("APP") = Root("APP"))
       /\ Key("APPS") = [root |-> IF version = 1 THEN "APP" ELSE "NWK", i |-> 2, block |-> joins]
       /\ Key("FNWKSINT") = [root |-> "NWK", i |-> 1, block |-> joins]
       /\ Key("SNWKSINT") = [root |-> "NWK", i |-> IF version = 1 THEN 3 ELSE 1, block |-> joins]
       /\ Key("NWKSENC")  = [root |-> "NWK", i |-> IF version = 1 THEN 4 ELSE 1, block |-> joins]

\* The CMAC of a message: whole blocks but the last, which is padded unless it is
\* whole.
Cmac(msg) ==
    LET n == IF msg = <<>> THEN 0 ELSE (Len(msg) - 1) \div BlockSize
        rest == SubSeq(msg, n * BlockSize + 1, Len(msg))
    IN [x |-> [b \in 1..n |-> SubSeq(msg, (b - 1) * BlockSize + 1, b * BlockSize)],
        last |-> rest, subkey |-> IF Len(rest) = BlockSize THEN "k1" ELSE "k2"]

\* A MIC is made over the whole of its message, though it is fed in two parts and
\* kept back a block at a time: LDL_SM_mic().
MicOfMessage ==
    "mics" \in DOMAIN last => \A m \in last.mics : m.mic.digest = Cmac(m.of)

\* The same, but for messages of 256 bytes, where the byte that counts them is 0
\* again when LDL_CMAC_finish() asks whether there was a message.
MicOfOtherMessage ==
    "mics" \in DOMAIN last =>
        \A m \in last.mics : Len(m.of) # 256 => m.mic.digest = Cmac(m.of)

\* A join accept is taken in its two sizes only, every byte but the first is
\* then deciphered once, and its fields are where the network put them: the
\* length that arrived decides about the second block, LDL_Frame_decode() on its
\* own about the list of channels.
JoinAcceptWhole ==
    Is("JoinAccept") /\ last.f.ok =>
        /\ \A p \in 1..last.len : last.deciphered[p] = (IF p = 1 THEN 0 ELSE 1)
        /\ last.f.cfList.len > 0 <=> last.len = SizeofJoinAccept(TRUE)
        /\ last.f.joinNonce = Number(<<31, 32, 33>>) /\ last.f.netID = Number(<<41, 42, 43>>)
        /\ last.f.devAddr = DevAddr /\ last.f.optNeg = last.optNeg
        /\ last.f.rx1DataRateOffset = 3 /\ last.f.rx2DataRate = 5 /\ last.f.rxDelay = 1
        /\ last.f.cfList.len > 0 /\ last.listed =>
              PartOf(last.bytes, last.f.cfList) = [i \in 1..16 |-> 50 + i]

\* A join request has its identifiers in the order of the air and ends in its MIC.
JoinRequestReadBack ==
    Is("JoinRequest") =>
        last.pkt = <<0>> \o Reverse(JoinEUI) \o Reverse(DevEUI) \o LE(joins, 2) \o LE(MicBytes, 4)

\* What the network finds at the places of an uplink's fields is what was asked:
\* the data goes with the answers, or the answers go alone, in the options or on
\* port 0; the MIC comes after all of it.  It holds where the buffer has room for
\* what the rate allows.
UplinkReadBack ==
    Is("Uplink") =>
        LET r     == last.request
            p     == last.pkt
            n     == p[6] % 16                     \* options
            port  == Len(p) > 8 + n + MicSize      \* is there a port?
            body  == SubSeq(p, 8 + n + 2, Len(p) - MicSize)
            opts  == SubSeq(p, 9, 8 + n)
            alone == Len(last.macs) > 15 \/ DataOverhead + r.len + Len(last.macs) > MaxPayload
        IN /\ Len(p) >= 12 /\ SubSeq(p, Len(p) - 3, Len(p)) = LE(MicBytes, 4)
           /\ p[1] = IF r.confirmed /\ ~alone THEN 128 ELSE 64
           /\ SubSeq(p, 2, 5) = LE(DevAddr, 4) /\ SubSeq(p, 7, 8) = LE(Counter, 2)
           /\ p[6] \div 16 = (IF r.adr THEN 8 ELSE 0) + (IF r.adrAckReq THEN 4 ELSE 0)
           /\ port => p[9 + n] = IF n = 0 /\ alone THEN 0 ELSE r.port
           /\ IF port /\ p[9 + n] = 0 THEN body = last.macs /\ n = 0 ELSE opts = last.macs
           /\ ~alone => /\ port <=> r.hasData
                        /\ port => body = [i \in 1..r.len |-> 60 + (i % 60)]

\* The answers of an uplink can be told apart: each starts where the sizes of
\* those before it, LDL_MAC_sizeofCommandUp(), say, with its identifier and its
\* flags in their bits.
AnswersReadBack ==
    Is("Uplink") =>
        LET as == last.request.answers
            B(k, i) == last.macs[StartOf(as, k) + i]
        IN /\ Len(last.macs) = StartOf(as, Len(as) + 1)
           /\ \A k \in DOMAIN as :
                 /\ B(k, 1) = Cid(as[k].type)
                 /\ as[k].type = "DEV_STATUS" => B(k, 2) = as[k].battery /\ B(k, 3) = as[k].margin % 64
                 /\ as[k].type = "REKEY" => B(k, 2) = as[k].version
                 /\ as[k].type = "LINK_ADR" =>
                       \A i \in 1..3 : (B(k, 2) \div 2^(3 - i)) % 2 = 1 <=> as[k].ok[i]

\* Options and data, and nothing else of a frame, are enciphered, in 1.0 data
\* only, and no two bytes of a frame with the same byte of a key stream.
KeyStreamOnce ==
    "ciphers" \in DOMAIN last =>
        LET At(c) == {c.at + i : i \in DOMAIN c.stream}
            Size  == Cardinality(UNION {At(c) : c \in last.ciphers})
            len   == IF Is("Uplink") THEN Len(last.pkt) ELSE Len(last.bytes)
        IN /\ \A c \in last.ciphers : At(c) \subseteq 9..(len - MicSize)
           /\ Cardinality(UNION {{c.stream[i] : i \in DOMAIN c.stream} : c \in last.ciphers}) = Size
           /\ Is("Uplink") => Size = Len(last.f.data) + (IF version = 1 THEN Len(last.f.opts) ELSE 0)

\* What a MIC and a key stream protect: a MIC the whole of its message, a key stream
\* no two bytes of a frame alike, and the one is never enciphered by the other.
FramesProtected == MicOfOtherMessage /\ KeyStreamOnce

\* A downlink that arrives whole is taken as the network meant it, unless it has
\* commands in the options beside data on port 0.
DownlinkReadBack ==
    Is("Downlink") /\ last.lost = 0 =>
        LET d == last.d
            f == last.f
        IN /\ f.ok
           /\ f.type = IF d.confirmed THEN "DATA_CONFIRMED_DOWN" ELSE "DATA_UNCONFIRMED_DOWN"
           /\ f.devAddr = DevAddr /\ f.counter = Counter /\ f.mic = MicBytes
           /\ f.ack = d.ack /\ f.pending = d.pending /\ ~f.adr /\ ~f.adrAckReq
           /\ f.dataPresent = HasPort(d) /\ (HasPort(d) => f.port = d.port)
           /\ PartOf(last.bytes, f.opts) = DownOpts(d)
           /\ HasPort(d) => PartOf(last.bytes, f.data) = DownData(d)

\* The commands that fit whole into what the network sent.
SentWhole(d) ==
    LET Bytes(n) == Len(NetworkCommands(SubSeq(d.commands, 1, n)))
        Known(n) == \A i \in 1..n : d.commands[i].type # "PROPRIETARY"
    IN {n \in 0..Len(d.commands) : Known(n) /\ Bytes(n) <= Len(CommandBytes(d))}

\* Commands are read in their order and as they were sent, none of them shows as
\* another before it is read, and one that is cut short or unknown ends the loop
\* and is not acted on.  RXParamSetupReq is left out: its first byte is not taken
\* apart.
CommandsAsSent ==
    Is("Downlink") /\ last.lost = 0 =>
        /\ Len(read) \in SentWhole(last.d)
        /\ stage = "IDLE" /\ last.d.place # "NONE" =>
              \A n \in SentWhole(last.d) : n <= Len(read)
        /\ \A i \in DOMAIN read :
              LET c == last.d.commands[i]
              IN /\ read[i].type = c.type /\ read[i].shown = {c.type}
                 /\ c.type # "RX_PARAM_SETUP" => read[i].fields = c.fields

\* What is written reads back and what is sent is read, frame by frame: join
\* requests, join accepts, uplinks and downlinks.
FramesReadBack ==
    JoinRequestReadBack /\ JoinAcceptWhole /\ UplinkReadBack /\ DownlinkReadBack

\* The same of the commands inside: the answers of an uplink, the commands of a
\* downlink.
CommandsReadBack == AnswersReadBack /\ CommandsAsSent
=============================================================================
