---- MODULE OotxFrameDecoder ----
(***************************************************************************)
(* OOTXFrameDecoder (ootx_frame_decoder.cpp): finds the frames a base      *)
(* station sends one slow bit per rotation, with its calibration data.     *)
(* A word on the line is WordBits bits and a sync bit that is 1; a frame   *)
(* is a preamble word of zeros, a word with the length of the payload in   *)
(* bytes, the payload padded to whole words, and a CRC of two words.  The  *)
(* loop of processSlowBit is taken one iteration at a time.                *)
(***************************************************************************)
EXTENDS Integers, Sequences

CONSTANTS
    WordBits,                \* 16 in the code; a byte is half a word
    kOOTXMaxPayloadLength,   \* 43 bytes in the code
    Crc(_)                   \* the CRC32 of a payload, as the two words sent

ASSUME OotxAssumption ==
    /\ WordBits \in Nat \ {0}
    /\ WordBits % 2 = 0
    /\ kOOTXMaxPayloadLength \in Nat

VARIABLES
    bit_buffer,
    latest_payload,
    has_decoded_frame,
    looping      \* processSlowBit is in its loop

ootxVars == <<bit_buffer, latest_payload, has_decoded_frame, looping>>

Bit == {0, 1}
ByteBits == WordBits \div 2
WordSpan == WordBits + 1

OotxInit ==
    /\ bit_buffer = <<>>
    /\ latest_payload = <<>>
    /\ has_decoded_frame = FALSE
    /\ looping = FALSE

----------------------------------------------------------------------------
\* The data bits of a word of the buffer, counted from 1.
Word(bits, i) == SubSeq(bits, (i - 1) * WordSpan + 1, (i - 1) * WordSpan + WordBits)

WordCount(bits) == Len(bits) \div WordSpan

\* Mutant of Bytes: the second byte starts one bit early.
BytesOverlapping(word) == <<SubSeq(word, 1, ByteBits), SubSeq(word, ByteBits, WordBits)>>

\* The two bytes of a word, the first one the more significant.
Bytes(word) == <<SubSeq(word, 1, ByteBits), SubSeq(word, ByteBits + 1, WordBits)>>

\* A number sent in little-endian byte order: the first byte of the word is the
\* less significant one.  Bits go from the most significant down.
LittleEndian(word) ==
    LET high == Bytes(word)[2]
        low  == Bytes(word)[1]
        bits == high \o low
        value[n \in 0 .. WordBits] ==
            IF n = 0 THEN 0 ELSE 2 * value[n - 1] + bits[n]
    IN  value[WordBits]

PayloadLength(bits) == LittleEndian(Word(bits, 2))

\* Preamble, length, the payload rounded up to whole words, and the CRC.
ExpectedWords(length) == 2 + (length + 1) \div 2 + 2

MaxWords == ExpectedWords(kOOTXMaxPayloadLength)

MaxBits == MaxWords * WordSpan

\* The payload's bytes, without the byte that pads an odd length.
Payload(bits) ==
    [i \in 1 .. PayloadLength(bits) |->
        Bytes(Word(bits, 2 + (i + 1) \div 2))[IF i % 2 = 1 THEN 1 ELSE 2]]

TransmittedCrc(bits) ==
    LET words == ExpectedWords(PayloadLength(bits))
    IN  <<Word(bits, words - 1), Word(bits, words)>>

\* The buffer ends at a word and holds two of them, or it is not looked at.
Readable(bits) ==
    /\ Len(bits) % WordSpan = 0
    /\ WordCount(bits) >= 2

\* Every word's sync bit is set, the first word is the preamble's, and the
\* length is one that a frame may have.
LooksLikeFrame(bits) ==
    /\ \A i \in 1 .. WordCount(bits) : bits[i * WordSpan] = 1
    /\ \A i \in 1 .. WordBits : bits[i] = 0
    /\ PayloadLength(bits) \in 0 .. kOOTXMaxPayloadLength

\* Mutant of DecodeResult: waits for one word more than the frame has.
DecodeResultLate(bits) ==
    IF ~ Readable(bits) THEN "Incomplete"
    ELSE IF ~ LooksLikeFrame(bits) THEN "NotAFrame"
    ELSE IF WordCount(bits) <= ExpectedWords(PayloadLength(bits)) THEN "Incomplete"
    ELSE IF Crc(Payload(bits)) # TransmittedCrc(bits) THEN "CrcError"
    ELSE "Decoded"

\* tryDecodeFrame
DecodeResult(bits) ==
    IF ~ Readable(bits) THEN "Incomplete"
    ELSE IF ~ LooksLikeFrame(bits) THEN "NotAFrame"
    ELSE IF WordCount(bits) < ExpectedWords(PayloadLength(bits)) THEN "Incomplete"
    ELSE IF Crc(Payload(bits)) # TransmittedCrc(bits) THEN "CrcError"
    ELSE "Decoded"

\* Mutant of AfterFirstZero: the whole buffer is dropped.
DropAll(bits) == <<>>

\* The buffer without its leading ones and the zero after them.
AfterFirstZero(bits) ==
    LET zeros == {i \in 1 .. Len(bits) : bits[i] = 0}
        first == CHOOSE i \in zeros : \A j \in zeros : i <= j
    IN  IF zeros = {} THEN <<>> ELSE SubSeq(bits, first + 1, Len(bits))

----------------------------------------------------------------------------
\* processSlowBit, up to its loop.
PushBit(bit) ==
    /\ ~ looping
    /\ bit_buffer' = Append(bit_buffer, bit)
    /\ looping' = TRUE
    /\ UNCHANGED <<latest_payload, has_decoded_frame>>

\* An iteration that waits for more bits, or finds the buffer drained.
Wait ==
    /\ looping
    /\ DecodeResult(bit_buffer) = "Incomplete"
    /\ looping' = FALSE
    /\ UNCHANGED <<bit_buffer, latest_payload, has_decoded_frame>>

Discard ==
    /\ looping
    /\ DecodeResult(bit_buffer) = "NotAFrame"
    /\ bit_buffer' = AfterFirstZero(bit_buffer)
    /\ UNCHANGED <<latest_payload, has_decoded_frame, looping>>

Decode ==
    /\ looping
    /\ DecodeResult(bit_buffer) = "Decoded"
    /\ latest_payload' = Payload(bit_buffer)
    /\ has_decoded_frame' = TRUE
    /\ bit_buffer' = <<>>
    /\ looping' = FALSE

DropCorrupted ==
    /\ looping
    /\ DecodeResult(bit_buffer) = "CrcError"
    /\ bit_buffer' = <<>>
    /\ looping' = FALSE
    /\ UNCHANGED <<latest_payload, has_decoded_frame>>

ResetOotx ==
    /\ ~ looping
    /\ bit_buffer' = <<>>
    /\ latest_payload' = <<>>
    /\ has_decoded_frame' = FALSE
    /\ UNCHANGED looping

Iterate == Wait \/ Discard \/ Decode \/ DropCorrupted

OotxNext ==
    \/ \E bit \in Bit : PushBit(bit)
    \/ Iterate
    \/ ResetOotx

OotxSpec == OotxInit /\ [][OotxNext]_ootxVars

----------------------------------------------------------------------------
\* The type invariant.
OotxTypeOK ==
    /\ bit_buffer \in Seq(Bit)
    /\ latest_payload \in Seq([1 .. ByteBits -> Bit])
    /\ Len(latest_payload) <= kOOTXMaxPayloadLength
    /\ has_decoded_frame \in BOOLEAN
    /\ looping \in BOOLEAN

\* The bit buffer stays within the longest frame, without a limit in the code: a
\* call leaves less than that frame in it, whatever bits came and however often
\* the decoder searched for a new start.
BufferBounded ==
    IF looping THEN Len(bit_buffer) <= MaxBits
    ELSE Len(bit_buffer) < MaxBits

====
