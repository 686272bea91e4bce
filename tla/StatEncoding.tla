---------------------------- MODULE StatEncoding ----------------------------
(***************************************************************************)
(* The byte encodings StatArchiveWriter.cpp writes into a statistics      *)
(* archive: ResourceInst::writeCompactValue (a stat delta), writeResource- *)
(* Inst (an instance id) and StatArchiveWriter::writeTimeStamp (a sample  *)
(* time delta), each as a pure operator from an integer to the sequence   *)
(* of signed bytes StatDataOutput receives.                               *)
(*                                                                         *)
(* The widths are scaled: a byte has ByteBits bits, an int32 IntBytes     *)
(* bytes and an int64 LongBytes bytes, so that every argument can be      *)
(* enumerated.  The format constants (the StatArchiveFormat header, not   *)
(* part of this repository) are stated relative to those widths the way  *)
(* the 8-bit format defines them: the compact 1-byte range stops          *)
(* LongBytes - 1 values above the byte minimum, leaving one token per     *)
(* multi-byte length; the top three unsigned byte values are the          *)
(* instance-id tokens; the top unsigned short is the int-timestamp token. *)
(*                                                                         *)
(* Each encoding is checked against the reader of the format (the          *)
(* reference definitions Read...), which decodes what the writer wrote.   *)
(***************************************************************************)
EXTENDS Integers, Sequences, SequencesExt

CONSTANTS ByteBits, IntBytes, LongBytes

Radix == 2 ^ ByteBits
ByteMin == -(Radix \div 2)
ByteMax == Radix \div 2 - 1

ASSUME WidthAssumption ==
    /\ ByteBits \in Nat \ {0}
    /\ 2 < IntBytes /\ IntBytes < LongBytes
    /\ LongBytes - 1 < Radix \div 2

\* Two's complement range of an n-byte integer.
MinOf(n) == -((Radix ^ n) \div 2)
MaxOf(n) == (Radix ^ n) \div 2 - 1

\* StatArchiveFormat constants, at the scaled widths.
MAX_1BYTE_COMPACT_VALUE == ByteMax
MIN_1BYTE_COMPACT_VALUE == ByteMin + (LongBytes - 1)
MAX_2BYTE_COMPACT_VALUE == MaxOf(2)
MIN_2BYTE_COMPACT_VALUE == MinOf(2)
COMPACT_VALUE_2_TOKEN == ByteMin
MAX_BYTE_RESOURCE_INST_ID == Radix - 4
SHORT_RESOURCE_INST_ID_TOKEN == Radix - 3
INT_RESOURCE_INST_ID_TOKEN == Radix - 2
ILLEGAL_RESOURCE_INST_ID_TOKEN == Radix - 1
ILLEGAL_RESOURCE_INST_ID == -1
MAX_SHORT_RESOURCE_INST_ID == Radix ^ 2 - 1
INT_TIMESTAMP_TOKEN == Radix ^ 2 - 1
MAX_SHORT_TIMESTAMP == Radix ^ 2 - 2
-----------------------------------------------------------------------------
(* Conversions.  static_cast<int8_t>(x) keeps the low byte, read signed;  *)
(* v >>= 8 on a signed value is an arithmetic shift, a floor division.    *)
Int8(x) == LET u == x % Radix IN IF u > ByteMax THEN u - Radix ELSE u
Unsigned(b) == b % Radix
Shr(v) == v \div Radix

\* writeShort / writeInt: the n low bytes of v, most significant first.
WriteBytes(v, n) == [k \in 1..n |-> Int8(v \div (Radix ^ (n - k)))]
writeShort(v) == WriteBytes(v, 2)
writeInt(v) == WriteBytes(v, IntBytes)

(* ResourceInst::writeCompactValue, lines 249-295.  Outside the 1- and     *)
(* 2-byte ranges the value's bytes are collected least significant first *)
(* into buffer[], by two loops: the negative one stops at -1 (or 0), the  *)
(* positive one at 0; a sign byte is added when the top byte's high bit   *)
(* disagrees with the sign; the token encodes the count.                  *)
RECURSIVE NegLoop(_, _)
NegLoop(v, buf) ==
    IF v # -1 /\ v # 0 THEN NegLoop(Shr(v), Append(buf, Int8(v)))
                       ELSE [v |-> v, buf |-> buf]

RECURSIVE StripOnes(_)
StripOnes(buf) ==
    IF 0 < Len(buf) /\ buf[Len(buf)] = -1 THEN StripOnes(Front(buf)) ELSE buf

NegBuffer(v) ==
    LET r == NegLoop(v, <<>>)
        b == IF r.v = 0 THEN StripOnes(r.buf) ELSE r.buf
    IN  IF 0 < Len(b) /\ b[Len(b)] >= 0 THEN Append(b, -1) ELSE b

RECURSIVE PosLoop(_, _)
PosLoop(v, buf) ==
    IF v # 0 THEN PosLoop(Shr(v), Append(buf, Int8(v))) ELSE buf

\* Mutant: the zero byte is added when the high bit is clear.
PosBufferPadInverted(v) ==
    LET b == PosLoop(v, <<>>) IN IF b[Len(b)] >= 0 THEN Append(b, 0) ELSE b

PosBuffer(v) ==
    LET b == PosLoop(v, <<>>) IN IF b[Len(b)] < 0 THEN Append(b, 0) ELSE b

\* Mutant: a negative value gets no -1 sign byte.
CompactBufferNoNegPad(v) ==
    IF v < 0 THEN NegLoop(v, <<>>).buf ELSE PosBuffer(v)

\* buffer[0 .. idx - 1] as written by the general branch.
CompactBuffer(v) == IF v < 0 THEN NegBuffer(v) ELSE PosBuffer(v)

writeCompactValue(v) ==
    IF v <= MAX_1BYTE_COMPACT_VALUE /\ v >= MIN_1BYTE_COMPACT_VALUE
    THEN <<Int8(v)>>
    ELSE IF v <= MAX_2BYTE_COMPACT_VALUE /\ v >= MIN_2BYTE_COMPACT_VALUE
    THEN <<COMPACT_VALUE_2_TOKEN>> \o writeShort(v)
    ELSE LET buf == CompactBuffer(v)
         IN  <<Int8(COMPACT_VALUE_2_TOKEN + (Len(buf) - 2))>> \o Reverse(buf)

\* Mutant: ids past the short range are written as a short.
writeResourceInstNoInt(instId) ==
    IF instId > MAX_BYTE_RESOURCE_INST_ID
    THEN <<Int8(SHORT_RESOURCE_INST_ID_TOKEN)>> \o writeShort(instId)
    ELSE <<Int8(instId)>>

(* writeResourceInst, lines 297-310 and 606-619 (the same code twice). *)
writeResourceInst(instId) ==
    IF instId > MAX_BYTE_RESOURCE_INST_ID
    THEN IF instId > MAX_SHORT_RESOURCE_INST_ID
         THEN <<Int8(INT_RESOURCE_INST_ID_TOKEN)>> \o writeInt(instId)
         ELSE <<Int8(SHORT_RESOURCE_INST_ID_TOKEN)>> \o writeShort(instId)
    ELSE <<Int8(instId)>>

\* Mutant: the bound is the token itself.
writeTimeStampAtToken(delta) ==
    IF delta > INT_TIMESTAMP_TOKEN
    THEN writeShort(INT_TIMESTAMP_TOKEN) \o writeInt(delta)
    ELSE writeShort(delta)

(* writeTimeStamp, lines 517-528, for the millisecond delta since the     *)
(* previous sample.                                                        *)
writeTimeStamp(delta) ==
    IF delta > MAX_SHORT_TIMESTAMP
    THEN writeShort(INT_TIMESTAMP_TOKEN) \o writeInt(delta)
    ELSE writeShort(delta)
-----------------------------------------------------------------------------
(* The reader of the format: big-endian, first byte signed or unsigned.  *)
(* A field that runs past the bytes written is cut short, so that a read  *)
(* of a truncated encoding reports a length the encoding does not have.   *)
Field(s, a, b) == SubSeq(s, a, IF b <= Len(s) THEN b ELSE Len(s))
SignedOf(s) ==
    IF s = <<>> THEN 0
    ELSE FoldLeft(LAMBDA acc, b : acc * Radix + Unsigned(b), s[1], Tail(s))
UnsignedOf(s) == FoldLeft(LAMBDA acc, b : acc * Radix + Unsigned(b), 0, s)

\* readCompactValue: the value and the number of bytes it consumes.
ReadCompactValue(s) ==
    LET t == s[1]
        n == IF t >= MIN_1BYTE_COMPACT_VALUE THEN 0
             ELSE t - COMPACT_VALUE_2_TOKEN + 2
    IN  IF n = 0 THEN [val |-> t, len |-> 1]
        ELSE [val |-> SignedOf(Field(s, 2, n + 1)), len |-> n + 1]

ReadResourceInstId(s) ==
    LET t == Unsigned(s[1]) IN
    CASE t <= MAX_BYTE_RESOURCE_INST_ID -> [val |-> t, len |-> 1]
      [] t = ILLEGAL_RESOURCE_INST_ID_TOKEN ->
            [val |-> ILLEGAL_RESOURCE_INST_ID, len |-> 1]
      [] t = SHORT_RESOURCE_INST_ID_TOKEN ->
            [val |-> UnsignedOf(Field(s, 2, 3)), len |-> 3]
      [] OTHER -> [val |-> SignedOf(Field(s, 2, IntBytes + 1)),
                   len |-> IntBytes + 1]

ReadTimeStamp(s) ==
    LET t == UnsignedOf(Field(s, 1, 2)) IN
    IF t = INT_TIMESTAMP_TOKEN
    THEN [val |-> SignedOf(Field(s, 3, IntBytes + 2)), len |-> IntBytes + 2]
    ELSE [val |-> t, len |-> 2]
-----------------------------------------------------------------------------
(* The checking harness: the argument walks the whole int64 range,        *)
(* wrapping at the top as an int64 counter does.                           *)
VARIABLE arg

Init == arg = MinOf(LongBytes)

Next == arg' = IF arg = MaxOf(LongBytes) THEN MinOf(LongBytes) ELSE arg + 1

Spec == Init /\ [][Next]_arg

(* Every int64 delta writeSample passes to writeCompactValue reads back  *)
(* as itself, consuming exactly the bytes written: the sign bytes, the    *)
(* token arithmetic and the 1-/2-byte range limits agree with the reader. *)
CompactRoundTrip ==
    LET enc == writeCompactValue(arg)
    IN  ReadCompactValue(enc) = [val |-> arg, len |-> Len(enc)]

(* The general branch never needs more bytes than an int64 has: the     *)
(* local buffer int8_t buffer[8] cannot overflow.                          *)
CompactFitsBuffer ==
    ~(MIN_2BYTE_COMPACT_VALUE <= arg /\ arg <= MAX_2BYTE_COMPACT_VALUE)
        => Len(CompactBuffer(arg)) <= LongBytes

(* Every instance id an archive can hold (0 .. INT_MAX, and the          *)
(* end-of-sample marker ILLEGAL_RESOURCE_INST_ID) reads back as itself.   *)
InstIdRoundTrip ==
    arg \in {ILLEGAL_RESOURCE_INST_ID} \cup 0..MaxOf(IntBytes) =>
        LET enc == writeResourceInst(arg)
        IN  ReadResourceInstId(enc) = [val |-> arg, len |-> Len(enc)]

(* Every timestamp delta of a monotonic clock that fits the int32 reads  *)
(* back as itself.                                                         *)
TimeStampRoundTrip ==
    arg \in 0..MaxOf(IntBytes) =>
        LET enc == writeTimeStamp(arg)
        IN  ReadTimeStamp(enc) = [val |-> arg, len |-> Len(enc)]
====
