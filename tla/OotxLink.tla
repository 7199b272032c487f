---- MODULE OotxLink ----
(***************************************************************************)
(* A base station sending its calibration frames to the OOTX decoder, one  *)
(* slow bit per rotation.  The decoder starts anywhere in a frame, and a   *)
(* rotation in which no sweep is seen loses its bit.  The station is       *)
(* outside src/: its frames are those the decoder accepts, all of them of  *)
(* one length, as the calibration record of a station is; the decoder      *)
(* accepts longer ones as well.                                            *)
(***************************************************************************)
EXTENDS OotxFrameDecoder

CONSTANTS
    Payloads,    \* the payloads the station may send
    MaxLosses    \* bound: bits lost

VARIABLES
    sending,     \* the payload of the frame on the line
    bits_sent,   \* how many of its bits the station has sent
    losses,      \* how many bits were lost
    stream       \* history: what the decoder's buffer has of the line; see below

slowBitVars == <<bit_buffer, latest_payload, has_decoded_frame, looping,
                 sending, bits_sent, losses, stream>>

ByteValue == [1 .. ByteBits -> Bit]
WordValue == [1 .. WordBits -> Bit]

Zeros(n) == [i \in 1 .. n |-> 0]

\* The word of the length, in little-endian byte order.
LengthWord(length) == CHOOSE word \in WordValue : LittleEndian(word) = length

\* The payload in words, an odd last byte padded with zeros.
PayloadWords(payload) ==
    [i \in 1 .. (Len(payload) + 1) \div 2 |->
        payload[2 * i - 1] \o
            (IF 2 * i <= Len(payload) THEN payload[2 * i] ELSE Zeros(ByteBits))]

FrameWords(payload) ==
    <<Zeros(WordBits), LengthWord(Len(payload))>> \o PayloadWords(payload) \o Crc(payload)

\* The preamble is 17 zeros and a one (ootx_frame_decoder.cpp:53-56): a zero goes
\* before the words, and behind each of them a one.
FrameBits(payload) ==
    LET words == FrameWords(payload)
    IN  [i \in 1 .. WordSpan * Len(words) + 1 |->
            IF i = 1 THEN 0
            ELSE IF (i - 1) % WordSpan = 0 THEN 1
            ELSE words[((i - 2) \div WordSpan) + 1][((i - 2) % WordSpan) + 1]]

LineFrame == [payload \in Payloads |-> FrameBits(payload)]

\* The station's payloads fit the decoder, and their length a word.
ASSUME LinkAssumption ==
    /\ MaxLosses \in Nat
    /\ \A payload \in Payloads :
          /\ payload \in Seq(ByteValue)
          /\ Len(payload) <= kOOTXMaxPayloadLength
          /\ \E word \in WordValue : LittleEndian(word) = Len(payload)
          /\ Crc(payload) \in WordValue \X WordValue

----------------------------------------------------------------------------
\* The buffer holds the bits of the line without a gap ("broken" when a bit is
\* missing), and they start in the frame on the line ("partial") or not behind
\* its first bit ("whole").
FromHere == IF bits_sent = 0 THEN "whole" ELSE "partial"

SlowBitsInit ==
    /\ OotxInit
    /\ sending \in Payloads
    /\ bits_sent \in 0 .. Len(LineFrame[sending]) - 1
    /\ losses = 0
    /\ stream = FromHere

SendBit ==
    /\ bits_sent < Len(LineFrame[sending])
    /\ PushBit(LineFrame[sending][bits_sent + 1])
    /\ bits_sent' = bits_sent + 1
    /\ stream' = IF stream = "broken" /\ bit_buffer = <<>> THEN FromHere ELSE stream
    /\ UNCHANGED <<sending, losses>>

LoseBit ==
    /\ ~ looping
    /\ losses < MaxLosses
    /\ bits_sent < Len(LineFrame[sending])
    /\ bits_sent' = bits_sent + 1
    /\ losses' = losses + 1
    /\ stream' = "broken"
    /\ UNCHANGED ootxVars
    /\ UNCHANGED sending

NextRecord ==
    /\ ~ looping
    /\ bits_sent = Len(LineFrame[sending])
    /\ sending' \in {payload \in Payloads : Len(payload) = Len(sending)}
    /\ bits_sent' = 0
    /\ stream' = IF stream = "broken" THEN "broken" ELSE "whole"
    /\ UNCHANGED ootxVars
    /\ UNCHANGED losses

Search == Iterate /\ UNCHANGED <<sending, bits_sent, losses, stream>>

RestartSearch ==
    /\ ResetOotx
    /\ stream' = FromHere
    /\ UNCHANGED <<sending, bits_sent, losses>>

SlowBitsNext == SendBit \/ LoseBit \/ NextRecord \/ Search \/ RestartSearch

SlowBitsSpec == SlowBitsInit /\ [][SlowBitsNext]_slowBitVars

----------------------------------------------------------------------------
\* A frame of which every bit came is decoded by the call that brings its last bit,
\* wherever in the stream the decoder started, once it has emptied its buffer after
\* a lost bit: no false preamble found in another frame's payload or CRC keeps the
\* search from the true one, or takes a bit of it, though the search goes on only
\* as bits come and a false candidate may announce a longer frame.
DecodesWholeFrames ==
    ~ looping /\ bits_sent = Len(LineFrame[sending]) /\ stream = "whole" =>
        /\ has_decoded_frame
        /\ latest_payload = sending
        /\ bit_buffer = <<>>

====
