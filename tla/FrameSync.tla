---- MODULE FrameSync ----
(***************************************************************************)
(* How the LighthouseProtocolDecoder finds and keeps the frame boundary of *)
(* the byte stream: the SYNC and DATA modes, the SyncFrameDecoder and the  *)
(* DataFrameDecoder they own, and the handler that moves between them.     *)
(* What a delivered frame means is left to the later stages; here a byte   *)
(* is what the two decoders can tell apart.                                *)
(***************************************************************************)
EXTENDS Naturals, Sequences

CONSTANTS
    FrameLen,     \* 12 bytes in the code
    Padding,      \* the positions whose upper seven bits are padding
    NoDecoder,    \* a null pointer
    NoDelivery    \* the call delivered no frame

ASSUME FramingAssumption ==
    /\ FrameLen \in Nat \ {0}
    /\ Padding \subseteq 1 .. FrameLen
    /\ Padding # {}                        \* two fields of the frame in the code

\* 0xFF; a byte whose upper seven bits are clear, as padding wants; any other.
Byte == {"ff", "low", "other"}

VARIABLES
    mode,                 \* current_mode_
    sync_frame_decoder,   \* the rolling window of the sync decoder, or NoDecoder
    data_frame_decoder,   \* the buffer of the data decoder, or NoDecoder
    delivered,            \* the frame the last call handed to the sweep processor
    lastUse               \* history: the decoder the last statement of the call used

decoderVars == <<mode, sync_frame_decoder, data_frame_decoder, delivered, lastUse>>

DecoderInit ==
    /\ mode = "SYNC"
    /\ sync_frame_decoder = <<>>
    /\ data_frame_decoder = NoDecoder
    /\ delivered = NoDelivery
    /\ lastUse = "sync"

IsSyncFrame(bytes) ==
    /\ Len(bytes) = FrameLen
    /\ \A i \in 1 .. FrameLen : bytes[i] = "ff"

\* Both padding fields of the decoded frame are zero.
GoodPadding(bytes) == \A i \in Padding : bytes[i] = "low"

LastBytes(bytes) ==
    IF Len(bytes) > FrameLen THEN Tail(bytes) ELSE bytes

----------------------------------------------------------------------------
\* SyncFrameDecoder::processByte.  The callback is syncFrameDetectedCallback: it
\* destroys this decoder and makes a data decoder, and nothing follows it.
SyncByte(byte) ==
    LET window == LastBytes(Append(sync_frame_decoder, byte))
    IN  /\ mode = "SYNC"
        /\ IF IsSyncFrame(window)
           THEN /\ mode' = "DATA"
                /\ sync_frame_decoder' = NoDecoder
                /\ data_frame_decoder' = <<>>
           ELSE /\ sync_frame_decoder' = window
                /\ UNCHANGED <<mode, data_frame_decoder>>
        /\ delivered' = NoDelivery
        /\ lastUse' = "sync"

\* DataFrameDecoder::processByte while the frame is not complete.  A buffer that
\* has outgrown the frame never is.
PartialFrame(byte) ==
    LET buffer == Append(data_frame_decoder, byte)
    IN  /\ mode = "DATA"
        /\ Len(buffer) # FrameLen
        /\ data_frame_decoder' = buffer
        /\ delivered' = NoDelivery
        /\ lastUse' = "data"
        /\ UNCHANGED <<mode, sync_frame_decoder>>

\* Mutant of PeriodicSync: returns before the buffer is cleared.
PeriodicSyncUncleared(byte) ==
    /\ mode = "DATA"
    /\ IsSyncFrame(Append(data_frame_decoder, byte))
    /\ data_frame_decoder' = Append(data_frame_decoder, byte)
    /\ delivered' = NoDelivery
    /\ lastUse' = "data"
    /\ UNCHANGED <<mode, sync_frame_decoder>>

\* Mutant of PeriodicSync: delivered like any other frame.
PeriodicSyncDelivered(byte) ==
    /\ mode = "DATA"
    /\ IsSyncFrame(Append(data_frame_decoder, byte))
    /\ data_frame_decoder' = <<>>
    /\ delivered' = Append(data_frame_decoder, byte)
    /\ lastUse' = "data"
    /\ UNCHANGED <<mode, sync_frame_decoder>>

\* A complete frame that is a periodic sync frame is ignored.
PeriodicSync(byte) ==
    /\ mode = "DATA"
    /\ IsSyncFrame(Append(data_frame_decoder, byte))
    /\ data_frame_decoder' = <<>>
    /\ delivered' = NoDelivery
    /\ lastUse' = "data"
    /\ UNCHANGED <<mode, sync_frame_decoder>>

CompleteFrame(bytes) == Len(bytes) = FrameLen /\ ~ IsSyncFrame(bytes)

\* Mutant of LostBoundary: the old data decoder is kept.
LostBoundaryKeepsDecoder(byte) ==
    LET frame == Append(data_frame_decoder, byte)
    IN  /\ mode = "DATA"
        /\ CompleteFrame(frame)
        /\ ~ GoodPadding(frame)
        /\ mode' = "SYNC"
        /\ sync_frame_decoder' = <<>>
        /\ data_frame_decoder' = <<>>
        /\ delivered' = NoDelivery
        /\ lastUse' = "data"

\* Mutant of LostBoundary: the frame is dropped, the mode stays.
LostBoundaryUnnoticed(byte) ==
    LET frame == Append(data_frame_decoder, byte)
    IN  /\ mode = "DATA"
        /\ CompleteFrame(frame)
        /\ ~ GoodPadding(frame)
        /\ data_frame_decoder' = <<>>
        /\ delivered' = NoDelivery
        /\ lastUse' = "data"
        /\ UNCHANGED <<mode, sync_frame_decoder>>

\* A data frame with bad padding: dataframeCallback goes back to SYNC mode and
\* destroys the data decoder, whose processByte then clears its buffer.
LostBoundary(byte) ==
    LET frame == Append(data_frame_decoder, byte)
    IN  /\ mode = "DATA"
        /\ CompleteFrame(frame)
        /\ ~ GoodPadding(frame)
        /\ mode' = "SYNC"
        /\ sync_frame_decoder' = <<>>
        /\ data_frame_decoder' = NoDecoder
        /\ delivered' = NoDelivery
        /\ lastUse' = "data"

\* A data frame with good padding goes to the sweep processor and the slow bits.
DeliverFrame(byte) ==
    LET frame == Append(data_frame_decoder, byte)
    IN  /\ mode = "DATA"
        /\ CompleteFrame(frame)
        /\ GoodPadding(frame)
        /\ delivered' = frame
        /\ data_frame_decoder' = <<>>
        /\ lastUse' = "data"
        /\ UNCHANGED <<mode, sync_frame_decoder>>

\* The same when the application's callback throws: processByte of the protocol
\* decoder catches the exception, and the buffer has not been cleared.
DeliverFrameThrowing(byte) ==
    LET frame == Append(data_frame_decoder, byte)
    IN  /\ mode = "DATA"
        /\ CompleteFrame(frame)
        /\ GoodPadding(frame)
        /\ delivered' = frame
        /\ data_frame_decoder' = frame
        /\ lastUse' = "data"
        /\ UNCHANGED <<mode, sync_frame_decoder>>

\* LighthouseProtocolDecoder::processByte, the application's callback returning.
ProcessByte(byte) ==
    \/ SyncByte(byte)
    \/ PartialFrame(byte)
    \/ PeriodicSync(byte)
    \/ LostBoundary(byte)
    \/ DeliverFrame(byte)

\* LighthouseProtocolDecoder::reset, what it does to the framing.
ResetDecoder ==
    /\ mode' = "SYNC"
    /\ sync_frame_decoder' = <<>>
    /\ data_frame_decoder' = NoDecoder
    /\ delivered' = NoDelivery
    /\ lastUse' = "sync"

----------------------------------------------------------------------------
\* The type invariant.  Each mode has exactly the decoder it uses, so processByte
\* never drops a byte for want of one.
FramingTypeOK ==
    \/ /\ mode = "SYNC"
       /\ sync_frame_decoder \in Seq(Byte) /\ Len(sync_frame_decoder) <= FrameLen
       /\ data_frame_decoder = NoDecoder
    \/ /\ mode = "DATA"
       /\ sync_frame_decoder = NoDecoder
       /\ data_frame_decoder \in Seq(Byte)

\* The data decoder's buffer accumulates one frame (data_frame_decoder.hpp:65
\* "exactly 12 bytes"): between calls it holds a proper part of it.
BufferWithinFrame ==
    mode = "DATA" => Len(data_frame_decoder) < FrameLen

\* The data decoder is used in DATA mode (lighthouse_protocol_decoder.hpp:81): no
\* statement uses it once the callback it made has left that mode, and destroyed it.
DataDecoderUsedAlive ==
    lastUse = "data" => data_frame_decoder # NoDecoder

====
