------------------------------- MODULE Frames -------------------------------
(***************************************************************************)
(* LoRaWAN frames, src/src/ldl_frame.c.  A frame is a sequence of bytes;   *)
(* an encoder that runs out of room returns the empty one.  In a decoded   *)
(* frame, options, data and CFList are parts of the buffer: the position   *)
(* before the first byte and a length.                                     *)
(***************************************************************************)
EXTENDS Streams

\* enum ldl_frame_type, in its order from 0.
FrameTypes == <<"JOIN_REQ", "JOIN_ACCEPT", "DATA_UNCONFIRMED_UP", "DATA_UNCONFIRMED_DOWN",
                "DATA_CONFIRMED_UP", "DATA_CONFIRMED_DOWN", "REJOIN_REQ">>
DownTypes  == {"DATA_UNCONFIRMED_DOWN", "DATA_CONFIRMED_DOWN"}

MHDR(type) == <<32 * (CHOOSE i \in 0..6 : FrameTypes[i + 1] = type)>>

\* The type of a frame that starts with byte tag, or "NONE".
FrameType(tag) ==
    IF tag % 32 = 0 /\ tag \div 32 < 7 THEN FrameTypes[tag \div 32 + 1] ELSE "NONE"

MicSize      == 4
DataOverhead == 4 + 1 + 2 + 1

SizeofJoinAccept(withCFList) == 17 + IF withCFList THEN 16 ELSE 0

Whole(s) == IF s.error THEN <<>> ELSE Written(s)
Bit(flag, value) == IF flag THEN value ELSE 0

\* Defect: two flags change places.
FCtrlMutant(f) ==
    Bit(f.adrAckReq, 128) + Bit(f.adr, 64) + Bit(f.ack, 32) + Bit(f.pending, 16)
        + (Len(f.opts) % 16)

FCtrl(f) ==
    Bit(f.adr, 128) + Bit(f.adrAckReq, 64) + Bit(f.ack, 32) + Bit(f.pending, 16)
        + (Len(f.opts) % 16)

DataPieces(f) ==
    <<MHDR(f.type), LE(f.devAddr, 4), <<FCtrl(f)>>, LE(f.counter, 2),
      SubSeq(f.opts, 1, Len(f.opts) % 16)>>
    \o (IF f.dataPresent THEN <<<<f.port>>, f.data>> ELSE <<>>)
    \o <<LE(f.mic, 4)>>

PutData(f, max)        == Whole(WriteAll(Blank(max), DataPieces(f)))
PutJoinRequest(f, max) ==
    Whole(WriteAll(Blank(max), <<MHDR("JOIN_REQ"), PutEUI(f.joinEUI), PutEUI(f.devEUI),
                                 LE(f.devNonce, 2), LE(f.mic, 4)>>))

\* ldl_frame_data_offset: the bytes before the options, and before the data.
OffOpts == 8

OffData(f) == IF f.dataPresent THEN OffOpts + (Len(f.opts) % 16) + 1 ELSE 0

UpdateMIC(msg, mic) ==
    IF Len(msg) > MicSize
      THEN Write(SeekSet(Stream(msg), Len(msg) - MicSize), LE(mic, 4)).buf
      ELSE msg

Part(at, len) == [at |-> at, len |-> len]
Refused       == [ok |-> FALSE]

DecodeJoinAccept(s) ==
    LET s1     == Read(s, 3)              \* joinNonce
        s2     == Read(s1, 3)             \* netID
        s3     == Read(s2, 4)             \* devAddr
        s4     == Read(s3, 1)             \* dlSettings
        s5     == Read(s4, 1)             \* rxDelay
        listed == Remaining(s5) > MicSize
        s6     == IF listed THEN SeekCur(s5, 16) ELSE s5
        s7     == Read(s6, 4)
        settings == Got(s3, 1)
    IN IF s7.error \/ Remaining(s7) # 0 THEN Refused
       ELSE [ok |-> TRUE, type |-> "JOIN_ACCEPT", joinNonce |-> Got(s, 3),
             netID |-> Got(s1, 3), devAddr |-> Got(s2, 4),
             optNeg |-> settings >= 128, rx1DataRateOffset |-> (settings \div 16) % 8,
             rx2DataRate |-> settings % 16,
             rxDelay |-> IF Got(s4, 1) = 0 THEN 1 ELSE Got(s4, 1),
             cfList |-> IF listed THEN Part(s5.pos, 16) ELSE Part(0, 0),
             mic |-> Got(s6, 4)]

DecodeData(type, s) ==
    LET s1      == Read(s, 4)             \* devAddr
        s2      == Read(s1, 1)            \* FCtrl
        s3      == Read(s2, 2)            \* counter
        fhdr    == Got(s1, 1)
        optsLen == fhdr % 16
        s4      == SeekCur(s3, optsLen)
        present == Remaining(s4) > MicSize
        s5      == IF present THEN Read(s4, 1) ELSE s4
        dataLen == IF present THEN Remaining(s5) - MicSize ELSE 0
        port    == IF present THEN Got(s4, 1) ELSE 0
        s6      == SeekCur(s5, dataLen)
        s7      == Read(s6, 4)
    IN IF s7.error \/ (present /\ optsLen > 0 /\ port = 0) THEN Refused
       ELSE [ok |-> TRUE, type |-> type, devAddr |-> Got(s, 4), adr |-> fhdr >= 128,
             adrAckReq |-> (fhdr \div 64) % 2 = 1, ack |-> (fhdr \div 32) % 2 = 1,
             pending |-> (fhdr \div 16) % 2 = 1, counter |-> Got(s2, 2),
             opts |-> IF optsLen > 0 THEN Part(s3.pos, optsLen) ELSE Part(0, 0),
             dataPresent |-> present, port |-> port,
             data |-> IF dataLen > 0 THEN Part(s5.pos, dataLen) ELSE Part(0, 0),
             mic |-> Got(s6, 4)]

\* LDL_Frame_decode()
Decode(bytes) ==
    LET s    == Stream(bytes)
        type == FrameType(Got(s, 1))
    IN IF Len(bytes) = 0 THEN Refused
       ELSE CASE type = "JOIN_ACCEPT"  -> DecodeJoinAccept(Read(s, 1))
              [] type \in DownTypes    -> DecodeData(type, Read(s, 1))
              [] OTHER                 -> Refused
=============================================================================
