------------------------------ MODULE MCCodec ------------------------------
(***************************************************************************)
(* Instances of Codec for TLC.  Frames have the sizes of the program; the  *)
(* lengths are those around the ends of blocks, headers and payloads.      *)
(***************************************************************************)
EXTENDS Codec, Aes, TLC

Both        == BOOLEAN
JoinSizes   == {1, 12, 16, 17, 18, 22, 32, 33, 34}
LostBytes   == {0, 1, 4, 8, 12}

LateTime == 17 + 256 * (18 + 256 * (19 + 256 * 20))

\* Numbers that differ in every part; no byte has its highest bit set, as numbers
\* of four bytes have to stay below 2^31.
CommandSet ==
    {[type |-> "LINK_CHECK", fields |-> [margin |-> 1, gwCount |-> 2]],
     [type |-> "LINK_ADR", fields |-> [dataRate |-> 5, txPower |-> 6, channelMask |-> 770,
                                       channelMaskControl |-> 7, nbTrans |-> 3]],
     [type |-> "DUTY_CYCLE", fields |-> [maxDutyCycle |-> 9]],
     [type |-> "RX_PARAM_SETUP", fields |-> [rx1DROffset |-> 2, rx2DataRate |-> 3,
                                             freq |-> 4331530]],
     [type |-> "DEV_STATUS", fields |-> <<>>],
     [type |-> "NEW_CHANNEL", fields |-> [chIndex |-> 3, freq |-> 4333330, maxDR |-> 5,
                                          minDR |-> 1]],
     [type |-> "RX_TIMING_SETUP", fields |-> [delay |-> 15]],
     [type |-> "TX_PARAM_SETUP", fields |-> [downlinkDwell |-> TRUE, uplinkDwell |-> FALSE,
                                             maxEIRP |-> 5]],
     [type |-> "DL_CHANNEL", fields |-> [chIndex |-> 4, freq |-> 4334350]],
     [type |-> "REKEY", fields |-> [version |-> 1]],
     [type |-> "ADR_PARAM_SETUP", fields |-> [limit_exp |-> 6, delay_exp |-> 5]],
     [type |-> "DEVICE_TIME", fields |-> [seconds |-> LateTime, fractions |-> 100]],
     [type |-> "FORCE_REJOIN", fields |-> [period |-> 1, max_retries |-> 2,
                                           rejoin_type |-> 3, dr |-> 4]],
     [type |-> "REJOIN_PARAM_SETUP", fields |-> [maxTimeN |-> 7, maxCountN |-> 12]],
     [type |-> "PROPRIETARY", fields |-> <<>>]}

\* One command, whole or short of up to two bytes; two commands.
CommandLists ==
    {<<<<c>>, n>> : c \in CommandSet, n \in {0, 1}}
      \cup {<<<<a, b>>, n>> : a, b \in CommandSet, n \in {0, 2}}

Down(place, list, cut, port, len) ==
    [place |-> place, commands |-> list, cut |-> cut, port |-> port, len |-> len,
     confirmed |-> len = 1, ack |-> port = 1, pending |-> len = 16]

DownlinkSet ==
    {Down("NONE", <<>>, 0, 0, 0)}
      \cup {Down("NONE", <<>>, 0, 1, len) : len \in {0, 1, 16, 17, 231}}
      \cup {Down("PORT0", l[1], l[2], 0, 0) : l \in CommandLists}
      \cup {Down("OPTS", l[1], l[2], port, len) :
                l \in {m \in CommandLists : Len(m[1]) = 1}, port \in {1}, len \in {0, 3}}

Flag3 == {<<TRUE, TRUE, TRUE>>, <<FALSE, TRUE, FALSE>>, <<TRUE, FALSE, FALSE>>}
Plain(types) == [i \in DOMAIN types |-> [type |-> types[i]]]
Adr(ok)   == [type |-> "LINK_ADR", ok |-> ok]
Status    == [type |-> "DEV_STATUS", battery |-> 200, margin |-> 60]
Channel   == [type |-> "NEW_CHANNEL", ok |-> <<TRUE, FALSE>>]
RxParam   == [type |-> "RX_PARAM_SETUP", ok |-> <<TRUE, TRUE, TRUE>>]
Rekey     == [type |-> "REKEY", version |-> 1]
DlChannel == [type |-> "DL_CHANNEL", ok |-> <<TRUE, TRUE>>]
Rejoin    == [type |-> "REJOIN_PARAM_SETUP", ok |-> <<FALSE, TRUE>>]

\* No answers, one, 15 bytes of them, all of them.
AnswerLists ==
    {<<>>, <<Status>>} \cup {<<Rekey, Adr(ok), Channel>> : ok \in Flag3}
      \cup {<<Rekey, RxParam, DlChannel, Adr(<<TRUE, TRUE, TRUE>>), Status, Channel, Rejoin>>,
            <<Rekey, RxParam, DlChannel>> \o Plain(<<"RX_TIMING_SETUP">>)
              \o <<Adr(<<TRUE, FALSE, TRUE>>), Status, Channel, Rejoin>>
              \o Plain(<<"ADR_PARAM_SETUP", "TX_PARAM_SETUP", "DUTY_CYCLE", "LINK_CHECK",
                         "DEVICE_TIME">>)}

RequestSet ==
    {[confirmed |-> c, adr |-> c, adrAckReq |-> len = 1, port |-> 7, hasData |-> len > 0 \/ c,
      len |-> len, answers |-> as] :
        c \in BOOLEAN, len \in {0, 1, 16, 219, 227, 231, 235, 242, 243}, as \in AnswerLists}

Bytes16(s) == [c \in 1..4 |-> SubSeq(s, 4 * c - 3, 4 * c)]
Count(first, step) == Bytes16([i \in 1..16 |-> (first + (i * step)) % 256])
Zeros == Count(0, 0)

\* The vectors of src/test/tc_aes.c and of LDL_CMAC_finish() in src/test/tc_cmac.c
\* (RFC 4493), and blocks in which every bit is once set and once clear.
AesKey    == Bytes16(<<16, 165, 136, 105, 215, 75, 229, 163, 116, 207, 134, 124, 251, 71, 56, 89>>)
CmacKey   == Bytes16(<<43, 126, 21, 22, 40, 174, 210, 166, 171, 247, 21, 136, 9, 207, 79, 60>>)
Known     == {[key |-> AesKey, block |-> Zeros,
               cipher |-> Bytes16(<<109, 37, 30, 105, 68, 176, 81, 224, 78, 170, 111, 180, 219, 247, 132, 101>>)],
              [key |-> CmacKey, block |-> XorBlock(Subkeys(Schedule(CmacKey)).k2, [Zeros EXCEPT ![1][1] = 128]),
               cipher |-> Bytes16(<<187, 29, 105, 41, 233, 89, 55, 40, 127, 163, 125, 18, 155, 117, 103, 70>>)]}
KeySet    == {AesKey, CmacKey, Count(255, 0)}
BlockSet  == {Zeros, Count(0, 17), Count(128, 37)}

\* The theorems that assume room for frames and answers are about this instance too.
ASSUME InstanceHasRoom == Room /\ AnswersFit

\* Join requests and all that follows are signed with AES: the table of ldl_aes.c
\* is its S-box in all of 256 places, of which one enciphered block reads at most
\* 200; rounds and schedule, arranged for a small device, are those published, put
\* together they encipher as is known, and the subkeys of LDL_CMAC_finish() are
\* multiples in the field of 128 bits.
SignedWithAES ==
    Is("JoinRequest") => /\ SboxAsPublished /\ RoundsAsPublished /\ ScheduleAsPublished
                         /\ CiphersAsKnown /\ SubkeysAsPublished
=============================================================================
