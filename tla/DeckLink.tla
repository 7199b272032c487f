---- MODULE DeckLink ----
(***************************************************************************)
(* The byte stream of the deck feeding the decoder's framing.  The deck    *)
(* sends 12-byte frames back to back, data frames with sync frames among   *)
(* them; the host starts listening anywhere in the stream; the line may    *)
(* lose or damage bytes.  The deck and the line are outside src/: they are *)
(* modelled from the frames the decoders accept.                           *)
(***************************************************************************)
EXTENDS FrameSync

CONSTANTS
    DataFrames,   \* the data frames the deck may send
    MaxFaults     \* bound: bytes the line loses or damages

SyncFrame == [i \in 1 .. FrameLen |-> "ff"]

ASSUME DeckAssumption ==
    /\ DataFrames \subseteq [1 .. FrameLen -> Byte]
    /\ \A frame \in DataFrames : GoodPadding(frame)

VARIABLES
    frame,    \* the frame on the line
    sent,     \* how many of its bytes the deck has sent
    faults,   \* how many bytes the line has lost or damaged
    clear     \* history: how far the undisturbed line has shown the boundary

linkVars == <<mode, sync_frame_decoder, data_frame_decoder, delivered, lastUse,
              frame, sent, faults, clear>>

\* A data frame whose edge bytes cannot be taken for those of a sync frame.
Distinct(bytes) == bytes[1] # "ff" /\ bytes[FrameLen] # "ff"

\* The history is 0 while the frame on the line is cut or disturbed.  From the
\* next frame on it counts distinct data frames and sync frames in alternation:
\* data, sync, data, sync.  Data frames may repeat; a second sync frame in a row,
\* or an indistinct data frame, starts it again.  Once complete only a new fault
\* undoes it.
Shown == 5

NowClear(sentFrame) ==
    CASE clear = Shown                                -> Shown
      [] clear # Shown /\ sentFrame = SyncFrame       -> IF clear \in {2, 4} THEN clear + 1 ELSE 1
      [] clear # Shown /\ sentFrame # SyncFrame       ->
            IF clear = 0 \/ ~ Distinct(sentFrame) THEN 1
            ELSE IF clear \in {1, 3} THEN clear + 1 ELSE clear

----------------------------------------------------------------------------
LinkInit ==
    /\ DecoderInit
    /\ frame \in DataFrames \cup {SyncFrame}
    /\ sent \in 0 .. FrameLen - 1
    /\ faults = 0
    /\ clear = 0

NextFrame ==
    /\ sent = FrameLen
    /\ frame' \in DataFrames \cup {SyncFrame}
    /\ sent' = 0
    /\ clear' = NowClear(frame)
    /\ UNCHANGED faults
    /\ UNCHANGED decoderVars

SendByte ==
    /\ sent < FrameLen
    /\ ProcessByte(frame[sent + 1])
    /\ sent' = sent + 1
    /\ UNCHANGED <<frame, faults, clear>>

LoseByte ==
    /\ sent < FrameLen
    /\ faults < MaxFaults
    /\ sent' = sent + 1
    /\ faults' = faults + 1
    /\ clear' = 0
    /\ UNCHANGED frame
    /\ UNCHANGED decoderVars

DamageByte(byte) ==
    /\ sent < FrameLen
    /\ byte # frame[sent + 1]
    /\ faults < MaxFaults
    /\ ProcessByte(byte)
    /\ sent' = sent + 1
    /\ faults' = faults + 1
    /\ clear' = 0
    /\ UNCHANGED frame

Reset ==
    /\ ResetDecoder
    /\ clear' = 0
    /\ UNCHANGED <<frame, sent, faults>>

LinkNext ==
    \/ NextFrame
    \/ SendByte
    \/ LoseByte
    \/ \E byte \in Byte : DamageByte(byte)
    \/ Reset

LinkSpec == LinkInit /\ [][LinkNext]_linkVars

\* The same link when the application's callback may throw out of a call.
SendByteThrowing ==
    /\ sent < FrameLen
    /\ DeliverFrameThrowing(frame[sent + 1])
    /\ sent' = sent + 1
    /\ UNCHANGED <<frame, faults, clear>>

ThrowingSpec == LinkInit /\ [][LinkNext \/ SendByteThrowing]_linkVars

----------------------------------------------------------------------------
\* The decoder is in DATA mode and its buffer holds what the deck has sent of
\* the frame on the line.
Aligned == mode = "DATA" /\ Len(data_frame_decoder) = sent % FrameLen

\* Recovery is bounded: wherever in the stream the host starts, and whatever the
\* line did, two sync frames among distinct data frames bring the decoder to the
\* boundary, and nothing but a new fault takes it away.  It may pass through a
\* false lock and deliver frames cut at the wrong place on the way.
RecoversInTwoSyncs == clear = Shown => Aligned

\* From then on every data frame of the deck is delivered, once and uncut, and
\* a sync frame delivers nothing.
DeliversEveryFrame ==
    [][clear = Shown /\ clear' = Shown /\ sent' = FrameLen /\ sent # FrameLen =>
          delivered' = (IF frame = SyncFrame THEN NoDelivery ELSE frame)]_linkVars

====
