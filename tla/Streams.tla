------------------------------ MODULE Streams ------------------------------
(***************************************************************************)
(* Byte streams over a buffer, src/src/ldl_stream.c.  The first read or    *)
(* write that does not fit latches the error, and all that follow fail;    *)
(* peeking and seeking neither look at the error nor set it.               *)
(***************************************************************************)
EXTENDS Integers, Sequences, SequencesExt

\* Numbers as LDL_Stream_putU8() to LDL_Stream_putU32() write them, and back.
LE(value, n) == [i \in 1..n |-> (value \div 256^(i - 1)) % 256]
Number(bytes) == FoldRight(LAMBDA byte, high : byte + 256 * high, bytes, 0)

Stream(bytes) == [buf |-> bytes, pos |-> 0, error |-> FALSE]
Blank(size)   == Stream([i \in 1..size |-> 0])

Remaining(s) == Len(s.buf) - s.pos
Fits(s, n)   == ~s.error /\ n <= Remaining(s)
Written(s)   == SubSeq(s.buf, 1, s.pos)

Write(s, bytes) ==
    IF Fits(s, Len(bytes))
      THEN [s EXCEPT !.buf = Written(s) \o bytes
                                \o SubSeq(@, s.pos + Len(bytes) + 1, Len(@)),
                     !.pos = @ + Len(bytes)]
      ELSE [s EXCEPT !.error = TRUE]

WriteAll(s, pieces) == FoldLeft(Write, s, pieces)

PutEUI(eui) == Reverse(eui)

\* The stream after a read of n bytes, and what was read.  What a failed read
\* leaves behind is never used: the error stays and refuses the whole.
Read(s, n) == IF Fits(s, n) THEN [s EXCEPT !.pos = @ + n] ELSE [s EXCEPT !.error = TRUE]
Got(s, n)  == IF Fits(s, n) THEN Number(SubSeq(s.buf, s.pos + 1, s.pos + n)) ELSE 0

\* The next byte, or none.
Peek(s) == IF Remaining(s) > 0 THEN {s.buf[s.pos + 1]} ELSE {}

SeekSet(s, offset) == IF offset <= Len(s.buf) THEN [s EXCEPT !.pos = offset] ELSE s

\* A negative offset is cast to uint8_t before it is taken off.
SeekCur(s, offset) ==
    IF s.pos + offset \in 0..Len(s.buf)
      THEN [s EXCEPT !.pos = (@ + IF offset >= 0 THEN offset ELSE -(offset % 256)) % 256]
      ELSE s
=============================================================================
