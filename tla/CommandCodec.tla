---------------------------- MODULE CommandCodec ----------------------------
(***************************************************************************)
(* The coding of network commands, src/src/ldl_mac_commands.c: answers     *)
(* the device writes, and commands it reads.                               *)
(***************************************************************************)
EXTENDS Streams

\* enum ldl_mac_cmd_type, in its order; tags[] gives them 2, 3, ...
CommandTypes ==
    <<"LINK_CHECK", "LINK_ADR", "DUTY_CYCLE", "RX_PARAM_SETUP", "DEV_STATUS", "NEW_CHANNEL",
      "RX_TIMING_SETUP", "TX_PARAM_SETUP", "DL_CHANNEL", "REKEY", "ADR_PARAM_SETUP",
      "DEVICE_TIME", "FORCE_REJOIN", "REJOIN_PARAM_SETUP">>

TypeToTag(type) == (CHOOSE i \in DOMAIN CommandTypes : CommandTypes[i] = type) + 1
TagToType(tag)  == IF tag - 1 \in DOMAIN CommandTypes THEN CommandTypes[tag - 1] ELSE "NONE"

\* LDL_MAC_peekNextCommand(): the type of the next command, if any.
PeekNext(s) == {TagToType(tag) : tag \in Peek(s)} \ {"NONE"}

\* LDL_MAC_sizeofCommandUp()
SizeofCommandUp(type) ==
    CASE type \in {"LINK_CHECK", "DUTY_CYCLE", "RX_TIMING_SETUP", "TX_PARAM_SETUP",
                   "ADR_PARAM_SETUP", "DEVICE_TIME"} -> 1
      [] type \in {"LINK_ADR", "RX_PARAM_SETUP", "NEW_CHANNEL", "DL_CHANNEL", "REKEY",
                   "REJOIN_PARAM_SETUP"} -> 2
      [] type \in {"DEV_STATUS", "FORCE_REJOIN"} -> 3

\* The answers there are: struct ldl_link_adr_ans and the like.
AnswerType ==
    [type : {"LINK_ADR", "RX_PARAM_SETUP"}, ok : [1..3 -> BOOLEAN]]
      \cup [type : {"NEW_CHANNEL", "DL_CHANNEL", "REJOIN_PARAM_SETUP"}, ok : [1..2 -> BOOLEAN]]
      \cup [type : {"DEV_STATUS"}, battery : 0..255, margin : -128..127]
      \cup [type : {"REKEY"}, version : 0..255]
      \cup [type : {"LINK_CHECK", "DUTY_CYCLE", "RX_TIMING_SETUP", "TX_PARAM_SETUP",
                    "ADR_PARAM_SETUP", "DEVICE_TIME"}]

\* What follows the tag of an answer: the flags of LinkADRAns and the like come
\* highest bit first; a battery level and a margin; a version or a time flag.
Flags(flags) == FoldLeft(LAMBDA n, flag : 2 * n + (IF flag THEN 1 ELSE 0), 0, flags)
Payload(a) ==
    CASE a.type \in {"LINK_ADR", "RX_PARAM_SETUP", "NEW_CHANNEL", "DL_CHANNEL"} -> <<Flags(a.ok)>>
      [] a.type = "DEV_STATUS" -> <<a.battery, a.margin % 64>>
      [] a.type = "REKEY" -> <<a.version>>
      [] a.type = "REJOIN_PARAM_SETUP" -> <<Flags(a.ok)>>
      [] OTHER -> <<>>

\* LDL_MAC_putLinkADRAns() and the like, byte by byte.
PutAnswer(s, a) ==
    WriteAll(s, [i \in 1..(Len(Payload(a)) + 1) |->
                     <<(<<TypeToTag(a.type)>> \o Payload(a))[i]>>])

\* The numbers that follow the tag of a command, by their sizes.
Layout(type) ==
    CASE type = "LINK_CHECK" -> <<1, 1>>
      [] type = "LINK_ADR" -> <<1, 2, 1>>
      [] type \in {"RX_PARAM_SETUP", "DL_CHANNEL"} -> <<1, 3>>
      [] type = "NEW_CHANNEL" -> <<1, 3, 1>>
      [] type = "DEVICE_TIME" -> <<4, 1>>
      [] type = "FORCE_REJOIN" -> <<2>>
      [] type = "DEV_STATUS" -> <<>>
      [] OTHER -> <<1>>

\* The fields of a command.  RXParamSetupReq gets the whole of its first byte as
\* offset of the first window and no data rate for the second.
Fields(type, n) ==
    CASE type = "LINK_CHECK"      -> [margin |-> n[1], gwCount |-> n[2]]
      [] type = "LINK_ADR"        -> [dataRate |-> n[1] \div 16, txPower |-> n[1] % 16,
                                      channelMask |-> n[2],
                                      channelMaskControl |-> (n[3] \div 16) % 8,
                                      nbTrans |-> n[3] % 16]
      [] type = "DUTY_CYCLE"      -> [maxDutyCycle |-> n[1] % 16]
      [] type = "RX_PARAM_SETUP"  -> [rx1DROffset |-> n[1], freq |-> n[2]]
      [] type = "DEV_STATUS"      -> <<>>
      [] type = "NEW_CHANNEL"     -> [chIndex |-> n[1], freq |-> n[2],
                                      maxDR |-> n[3] \div 16, minDR |-> n[3] % 16]
      [] type = "DL_CHANNEL"      -> [chIndex |-> n[1], freq |-> n[2]]
      [] type = "RX_TIMING_SETUP" -> [delay |-> n[1] % 16]
      [] type = "TX_PARAM_SETUP"  -> [downlinkDwell |-> (n[1] \div 32) % 2 = 1,
                                      uplinkDwell |-> (n[1] \div 16) % 2 = 1,
                                      maxEIRP |-> n[1] % 16]
      [] type = "REKEY"           -> [version |-> n[1] % 16]
      [] type = "ADR_PARAM_SETUP" -> [limit_exp |-> n[1] \div 16, delay_exp |-> n[1] % 16]
      [] type = "DEVICE_TIME"     -> [seconds |-> n[1], fractions |-> n[2]]
      [] type = "FORCE_REJOIN"    -> [period |-> (n[1] \div 1024) % 8,
                                      max_retries |-> (n[1] \div 128) % 8,
                                      rejoin_type |-> (n[1] \div 16) % 8, dr |-> n[1] % 16]
      [] type = "REJOIN_PARAM_SETUP" -> [maxTimeN |-> n[1] \div 16, maxCountN |-> n[1] % 16]

\* Numbers of the given sizes: the stream behind them, and the numbers.
ReadNumbers(s, sizes) ==
    FoldLeft(LAMBDA r, n : [s |-> Read(r.s, n), out |-> Append(r.out, Got(r.s, n))],
             [s |-> s, out |-> <<>>], sizes)

\* Defect: the error of the stream is not asked for.
GetDownCommandMutant(s) ==
    LET type == TagToType(Got(s, 1))
        r    == ReadNumbers(Read(s, 1), Layout(type))
    IN IF Fits(s, 1) /\ type # "NONE"
         THEN [ok |-> TRUE, s |-> r.s, type |-> type, fields |-> Fields(type, r.out)]
         ELSE [ok |-> FALSE, s |-> Read(s, 1)]

\* LDL_MAC_getDownCommand()
GetDownCommand(s) ==
    LET type == TagToType(Got(s, 1))
        r    == ReadNumbers(Read(s, 1), Layout(type))
    IN IF Fits(s, 1) /\ type # "NONE"
         THEN IF r.s.error THEN [ok |-> FALSE, s |-> r.s]
              ELSE [ok |-> TRUE, s |-> r.s, type |-> type, fields |-> Fields(type, r.out)]
         ELSE [ok |-> FALSE, s |-> Read(s, 1)]
=============================================================================
