---- MODULE FramingProofs ----
(***************************************************************************)
(* Theorems about the two framings of the system: the bytes of the serial  *)
(* line cut into frames, and the slow bits of a station cut into words.    *)
(* For frames of any length with padding at any positions, any data frames *)
(* and any number of faults of the line, the decoder finds the boundary    *)
(* again within two sync frames, and from then on delivers every frame     *)
(* once and uncut.  The bit buffer of the OOTX decoder is bounded, and a   *)
(* frame that reaches it whole is decoded with its last bit, for every     *)
(* width of a word, every set of payloads and every checksum.              *)
(***************************************************************************)
EXTENDS DeckLink, OotxLink, SequenceTheorems, WellFoundedInduction, TLAPS

\* The i-th byte from the end.
FromEnd(bytes, i) == bytes[Len(bytes) + 1 - i]

\* The bytes the decoder in use remembers.
Held == IF mode = "SYNC" THEN sync_frame_decoder ELSE data_frame_decoder

LinkTypeOK ==
    /\ frame \in DataFrames \cup {SyncFrame}
    /\ sent \in 0 .. FrameLen
    /\ clear \in 0 .. Shown
    /\ FramingTypeOK
    /\ BufferWithinFrame

\* A window that was a sync frame has been acted on.
NoSyncInWindow == mode = "SYNC" => ~ IsSyncFrame(sync_frame_decoder)

\* On an undisturbed line the newest bytes remembered are those of the frame.
HoldsSent ==
    clear >= 1 =>
        \A i \in 1 .. sent : i <= Len(Held) => FromEnd(Held, i) = frame[sent + 1 - i]

\* Behind a distinct data frame, the byte before the frame on the line is its last.
HoldsEdge ==
    clear \in {2, 4} /\ Len(Held) > sent => FromEnd(Held, sent + 1) # "ff"

\* The sync frame after a distinct data frame.  A data decoder cut at the wrong
\* place holds bytes from before it, or has delivered a frame whose padding
\* lay in them, before the sync frame.
InFirstSync ==
    clear = 2 /\ frame = SyncFrame /\ mode = "DATA" =>
        \/ Aligned
        \/ Len(data_frame_decoder) > sent
        \/ /\ Len(data_frame_decoder) < sent
           /\ Padding \subseteq 1 .. FrameLen - sent + Len(data_frame_decoder)

\* The data frame after that sync frame.  A decoder cut at the wrong place has
\* the padding of its frame filled with the sync frame's bytes.
InNextData ==
    clear = 3 /\ frame # SyncFrame /\ Distinct(frame) /\ mode = "DATA" =>
        \/ Aligned
        \/ /\ Len(data_frame_decoder) > sent
           /\ Padding \subseteq 1 .. Len(data_frame_decoder) - sent
           /\ \A i \in 1 .. Len(data_frame_decoder) - sent : data_frame_decoder[i] = "ff"

\* After it the false lock is gone: the decoder is aligned, or looks for a sync
\* frame with everything since in its window.
InSecondSync ==
    clear = 4 /\ (frame = SyncFrame \/ Distinct(frame)) =>
        \/ Aligned
        \/ mode = "SYNC" /\ Len(sync_frame_decoder) >= sent

IInv ==
    /\ LinkTypeOK
    /\ NoSyncInWindow
    /\ HoldsSent
    /\ HoldsEdge
    /\ InFirstSync
    /\ InNextData
    /\ InSecondSync
    /\ RecoversInTwoSyncs

----------------------------------------------------------------------------
\* What the decoder in use remembers once it has taken a byte, before it looks
\* whether that completes anything.
Extended(byte) ==
    IF mode = "SYNC" THEN LastBytes(Append(sync_frame_decoder, byte))
    ELSE Append(data_frame_decoder, byte)

\* bytes are those of before, or their newest, with the new byte at the end.
Pushed(bytes, before, byte) ==
    /\ bytes \in Seq(Byte)
    /\ Len(bytes) \in 1 .. Len(before) + 1
    /\ FromEnd(bytes, 1) = byte
    /\ \A i \in 1 .. Len(bytes) - 1 : FromEnd(bytes, i + 1) = FromEnd(before, i)

\* Appending a byte to a buffer.
LEMMA PushBuffer ==
    ASSUME NEW before \in Seq(Byte), NEW byte \in Byte
    PROVE  /\ Pushed(Append(before, byte), before, byte)
           /\ Len(Append(before, byte)) = Len(before) + 1
           /\ \A i \in 1 .. Len(before) : Append(before, byte)[i] = before[i]
BY DEF Pushed, FromEnd

\* Appending a byte to the window, which forgets its oldest when it is full.
LEMMA PushWindow ==
    ASSUME NEW before \in Seq(Byte), Len(before) <= FrameLen, NEW byte \in Byte
    PROVE  /\ Pushed(LastBytes(Append(before, byte)), before, byte)
           /\ Len(LastBytes(Append(before, byte)))
                = IF Len(before) < FrameLen THEN Len(before) + 1 ELSE FrameLen
<1> DEFINE longer == Append(before, byte)
<1>1. /\ Pushed(longer, before, byte)
      /\ Len(longer) = Len(before) + 1
  BY PushBuffer
<1>2. longer \in Seq(Byte) /\ longer # <<>> /\ FrameLen \in Nat \ {0}
  BY FramingAssumption
<1>3. CASE Len(before) < FrameLen
  <2>1. LastBytes(longer) = longer
    BY <1>1, <1>2, <1>3 DEF LastBytes
  <2> QED BY <1>1, <1>3, <2>1
<1>4. CASE ~ (Len(before) < FrameLen)
  <2>1. LastBytes(longer) = Tail(longer) /\ Len(before) = FrameLen
    BY <1>1, <1>2, <1>4 DEF LastBytes
  <2> HIDE DEF longer
  <2>2. /\ Tail(longer) \in Seq(Byte)
        /\ Len(Tail(longer)) = Len(longer) - 1
        /\ \A i \in 1 .. Len(longer) - 1 : Tail(longer)[i] = longer[i + 1]
    BY <1>2
  <2>3. \A i \in 1 .. Len(longer) - 1 : FromEnd(Tail(longer), i) = FromEnd(longer, i)
    BY <1>2, <2>2 DEF FromEnd
  <2>4. Pushed(Tail(longer), before, byte)
    BY <1>1, <1>2, <2>1, <2>2, <2>3 DEF Pushed
  <2>5. LastBytes(longer) = Tail(longer) /\ Len(Tail(longer)) = FrameLen
    BY <1>1, <2>1, <2>2
  <2> QED BY <1>4, <2>4, <2>5 DEF longer
<1> QED BY <1>3, <1>4

\* A sync frame read from its end.
LEMMA SyncFromEnd ==
    ASSUME NEW bytes \in Seq(Byte)
    PROVE  IsSyncFrame(bytes) <=>
               Len(bytes) = FrameLen /\ \A i \in 1 .. FrameLen : FromEnd(bytes, i) = "ff"
<1>1. FrameLen \in Nat
  BY FramingAssumption
<1>2. ASSUME Len(bytes) = FrameLen, \A i \in 1 .. FrameLen : FromEnd(bytes, i) = "ff",
             NEW i \in 1 .. FrameLen
      PROVE  bytes[i] = "ff"
  <2>1. FrameLen + 1 - i \in 1 .. FrameLen /\ FrameLen + 1 - (FrameLen + 1 - i) = i
    BY <1>1
  <2> QED BY <1>2, <2>1 DEF FromEnd
<1>3. ASSUME Len(bytes) = FrameLen, \A i \in 1 .. FrameLen : bytes[i] = "ff",
             NEW i \in 1 .. FrameLen
      PROVE  FromEnd(bytes, i) = "ff"
  BY <1>1, <1>3 DEF FromEnd
<1> QED BY <1>2, <1>3 DEF IsSyncFrame

\* A data frame is no sync frame: its padding tells them apart.
LEMMA DataIsNotSync ==
    ASSUME NEW bytes \in DataFrames
    PROVE  bytes # SyncFrame
<1>1. PICK i \in Padding : i \in 1 .. FrameLen
  BY FramingAssumption
<1>2. bytes[i] = "low"
  BY <1>1, DeckAssumption DEF GoodPadding
<1>3. SyncFrame[i] = "ff"
  BY <1>1 DEF SyncFrame
<1> QED BY <1>2, <1>3

\* The frame on the line is as long as a frame.
LEMMA FrameType ==
    ASSUME NEW f \in DataFrames \cup {SyncFrame}
    PROVE  /\ f \in [1 .. FrameLen -> Byte]
           /\ f \in Seq(Byte) /\ Len(f) = FrameLen
<1>1. SyncFrame \in [1 .. FrameLen -> Byte]
  BY DEF SyncFrame, Byte
<1>2. f \in [1 .. FrameLen -> Byte]
  BY <1>1, DeckAssumption
<1> QED BY <1>2, FramingAssumption

----------------------------------------------------------------------------
\* What a byte does, by what the bytes remembered then are.
LEMMA ByteOutcome ==
    ASSUME FramingTypeOK, BufferWithinFrame, NEW byte \in Byte, ProcessByte(byte)
    PROVE  /\ Pushed(Extended(byte), Held, byte)
           /\ Len(Extended(byte)) = IF Len(Held) < FrameLen THEN Len(Held) + 1 ELSE FrameLen
           /\ \/ /\ mode = "SYNC" /\ IsSyncFrame(Extended(byte)) /\ mode' = "DATA"
                 /\ sync_frame_decoder' = NoDecoder /\ data_frame_decoder' = <<>>
                 /\ delivered' = NoDelivery
              \/ /\ mode = "SYNC" /\ ~ IsSyncFrame(Extended(byte)) /\ mode' = "SYNC"
                 /\ sync_frame_decoder' = Extended(byte) /\ data_frame_decoder' = NoDecoder
                 /\ delivered' = NoDelivery
              \/ /\ mode = "DATA" /\ Len(Extended(byte)) # FrameLen /\ mode' = "DATA"
                 /\ sync_frame_decoder' = NoDecoder /\ data_frame_decoder' = Extended(byte)
                 /\ delivered' = NoDelivery
              \/ /\ mode = "DATA" /\ IsSyncFrame(Extended(byte)) /\ mode' = "DATA"
                 /\ sync_frame_decoder' = NoDecoder /\ data_frame_decoder' = <<>>
                 /\ delivered' = NoDelivery
              \/ /\ mode = "DATA" /\ CompleteFrame(Extended(byte))
                 /\ ~ GoodPadding(Extended(byte)) /\ mode' = "SYNC"
                 /\ sync_frame_decoder' = <<>> /\ data_frame_decoder' = NoDecoder
                 /\ delivered' = NoDelivery
              \/ /\ mode = "DATA" /\ CompleteFrame(Extended(byte))
                 /\ GoodPadding(Extended(byte)) /\ mode' = "DATA"
                 /\ sync_frame_decoder' = NoDecoder /\ data_frame_decoder' = <<>>
                 /\ delivered' = Extended(byte)
<1>1. CASE mode = "SYNC"
  <2>1. /\ sync_frame_decoder \in Seq(Byte) /\ Len(sync_frame_decoder) <= FrameLen
        /\ data_frame_decoder = NoDecoder
    BY <1>1 DEF FramingTypeOK
  <2>2. /\ Held = sync_frame_decoder
        /\ Extended(byte) = LastBytes(Append(sync_frame_decoder, byte))
    BY <1>1 DEF Held, Extended
  <2>3. SyncByte(byte)
    BY <1>1 DEF ProcessByte, PartialFrame, PeriodicSync, LostBoundary, DeliverFrame
  <2>4. /\ Pushed(Extended(byte), Held, byte)
        /\ Len(Extended(byte)) = IF Len(Held) < FrameLen THEN Len(Held) + 1 ELSE FrameLen
    BY <2>1, <2>2, PushWindow
  <2> QED BY <1>1, <2>1, <2>2, <2>3, <2>4 DEF SyncByte
<1>2. CASE mode = "DATA"
  <2>1. /\ data_frame_decoder \in Seq(Byte) /\ Len(data_frame_decoder) < FrameLen
        /\ sync_frame_decoder = NoDecoder
    BY <1>2 DEF FramingTypeOK, BufferWithinFrame
  <2>2. /\ Held = data_frame_decoder
        /\ Extended(byte) = Append(data_frame_decoder, byte)
    BY <1>2 DEF Held, Extended
  <2>3. /\ Pushed(Extended(byte), Held, byte)
        /\ Len(Extended(byte)) = IF Len(Held) < FrameLen THEN Len(Held) + 1 ELSE FrameLen
    BY <2>1, <2>2, PushBuffer
  <2>4. \/ PartialFrame(byte) \/ PeriodicSync(byte) \/ LostBoundary(byte)
        \/ DeliverFrame(byte)
    BY <1>2 DEF ProcessByte, SyncByte
  <2> QED
    BY <1>2, <2>1, <2>2, <2>3, <2>4
    DEF PartialFrame, PeriodicSync, LostBoundary, DeliverFrame
<1> QED BY <1>1, <1>2 DEF FramingTypeOK

\* The decoders stay well formed: one decoder per mode, never a whole frame left
\* in the buffer, never a whole sync frame left in the window.
LEMMA ByteKeepsFraming ==
    ASSUME FramingTypeOK, BufferWithinFrame, NEW byte \in Byte, ProcessByte(byte)
    PROVE  FramingTypeOK' /\ BufferWithinFrame' /\ NoSyncInWindow'
<1> DEFINE now == Extended(byte)
<1>1. /\ Pushed(now, Held, byte)
      /\ Len(now) = IF Len(Held) < FrameLen THEN Len(Held) + 1 ELSE FrameLen
  BY ByteOutcome
<1>2. now \in Seq(Byte) /\ Len(now) \in Nat /\ FrameLen \in Nat \ {0}
  BY <1>1, FramingAssumption DEF Pushed
<1>3. Len(Held) \in Nat /\ Len(Held) <= FrameLen
  BY FramingAssumption DEF FramingTypeOK, BufferWithinFrame, Held
<1>4. Len(now) <= FrameLen
  BY <1>1, <1>2, <1>3
<1>5. <<>> \in Seq(Byte) /\ Len(<<>>) = 0 /\ ~ IsSyncFrame(<<>>)
  BY <1>2 DEF IsSyncFrame
<1>6. \/ /\ mode' = "DATA" /\ sync_frame_decoder' = NoDecoder /\ data_frame_decoder' = <<>>
      \/ /\ mode' = "SYNC" /\ sync_frame_decoder' = <<>> /\ data_frame_decoder' = NoDecoder
      \/ /\ mode' = "SYNC" /\ sync_frame_decoder' = now /\ data_frame_decoder' = NoDecoder
         /\ ~ IsSyncFrame(now)
      \/ /\ mode' = "DATA" /\ sync_frame_decoder' = NoDecoder /\ data_frame_decoder' = now
         /\ Len(now) # FrameLen
  BY ByteOutcome
<1> HIDE DEF now
<1>7. /\ Len(<<>>) < FrameLen /\ Len(<<>>) <= FrameLen
      /\ Len(now) # FrameLen => Len(now) < FrameLen
  BY <1>2, <1>4, <1>5
<1>8. CASE mode' = "DATA"
  <2>1. /\ data_frame_decoder' \in Seq(Byte) /\ Len(data_frame_decoder') < FrameLen
        /\ sync_frame_decoder' = NoDecoder
    BY <1>2, <1>5, <1>6, <1>7, <1>8
  <2> QED BY <1>8, <2>1 DEF FramingTypeOK, BufferWithinFrame, NoSyncInWindow
<1>9. CASE mode' = "SYNC"
  <2>1. /\ sync_frame_decoder' \in Seq(Byte) /\ Len(sync_frame_decoder') <= FrameLen
        /\ data_frame_decoder' = NoDecoder /\ ~ IsSyncFrame(sync_frame_decoder')
    BY <1>2, <1>4, <1>5, <1>6, <1>7, <1>9
  <2> QED BY <1>9, <2>1 DEF FramingTypeOK, BufferWithinFrame, NoSyncInWindow
<1> QED BY <1>6, <1>8, <1>9

----------------------------------------------------------------------------
\* The next byte of the frame on the line reaches the decoder: what is then
\* remembered still ends with the bytes sent of the frame, and behind them with
\* the last byte of the frame before.
LEMMA SendTracks ==
    ASSUME IInv, SendByte, clear >= 1
    PROVE  /\ \A i \in 1 .. sent + 1 :
                 i <= Len(Extended(frame[sent + 1])) =>
                     FromEnd(Extended(frame[sent + 1]), i) = frame[sent + 2 - i]
           /\ clear \in {2, 4} /\ Len(Extended(frame[sent + 1])) > sent + 1 =>
                     FromEnd(Extended(frame[sent + 1]), sent + 2) # "ff"
<1>1. /\ sent \in Nat /\ sent < FrameLen /\ FrameLen \in Nat \ {0}
      /\ FramingTypeOK /\ BufferWithinFrame /\ ProcessByte(frame[sent + 1])
      /\ frame \in DataFrames \cup {SyncFrame}
  BY FramingAssumption DEF IInv, LinkTypeOK, SendByte
<1>2. frame[sent + 1] \in Byte
  BY <1>1, FrameType
<1> DEFINE byte == frame[sent + 1]
           now == Extended(byte)
<1>3. Pushed(now, Held, byte)
  BY <1>1, <1>2, ByteOutcome
<1>4. Len(Held) \in Nat
  BY <1>1 DEF FramingTypeOK, Held
<1>5. \A i \in 1 .. sent : i <= Len(Held) => FromEnd(Held, i) = frame[sent + 1 - i]
  BY DEF IInv, HoldsSent
<1>6. clear \in {2, 4} /\ Len(Held) > sent => FromEnd(Held, sent + 1) # "ff"
  BY DEF IInv, HoldsEdge
<1> HIDE DEF now
<1>7. /\ Len(now) \in 1 .. Len(Held) + 1
      /\ FromEnd(now, 1) = byte
      /\ \A i \in 1 .. Len(now) - 1 : FromEnd(now, i + 1) = FromEnd(Held, i)
  BY <1>3 DEF Pushed
<1>8. ASSUME NEW i \in 1 .. sent + 1, i <= Len(now)
      PROVE  FromEnd(now, i) = frame[sent + 2 - i]
  <2>1. CASE i = 1
    BY <1>1, <1>7, <2>1
  <2>2. CASE i # 1
    <3>1. PICK j \in Nat : i = j + 1
      BY <1>1, <2>2
    <3>2. j \in 1 .. sent /\ j \in 1 .. Len(now) - 1 /\ j <= Len(Held)
      BY <1>1, <1>4, <1>7, <1>8, <2>2, <3>1
    <3>3. FromEnd(now, i) = FromEnd(Held, j) /\ FromEnd(Held, j) = frame[sent + 1 - j]
      BY <1>5, <1>7, <3>1, <3>2
    <3> QED BY <1>1, <3>1, <3>3
  <2> QED BY <2>1, <2>2
<1>9. ASSUME clear \in {2, 4}, Len(now) > sent + 1
      PROVE  FromEnd(now, sent + 2) # "ff"
  <2>1. sent + 1 \in 1 .. Len(now) - 1 /\ Len(Held) > sent
    BY <1>1, <1>4, <1>7, <1>9
  <2>2. FromEnd(now, (sent + 1) + 1) = FromEnd(Held, sent + 1)
    BY <1>7, <2>1
  <2> QED BY <1>1, <1>6, <1>9, <2>1, <2>2
<1> QED BY <1>8, <1>9 DEF now

\* When those bytes make a sync frame, the deck has sent nothing but 0xFF of the
\* frame on the line, and right behind a distinct data frame, the whole of it.
LEMMA SyncSeenIsSync ==
    ASSUME IInv, SendByte, clear >= 1, IsSyncFrame(Extended(frame[sent + 1]))
    PROVE  /\ frame[1] = "ff"
           /\ clear \in {2, 4} => sent + 1 = FrameLen
<1> DEFINE now == Extended(frame[sent + 1])
<1>1. sent \in Nat /\ sent < FrameLen /\ FrameLen \in Nat \ {0}
  BY FramingAssumption DEF IInv, LinkTypeOK, SendByte
<1>2. /\ \A i \in 1 .. sent + 1 :
            i <= Len(now) => FromEnd(now, i) = frame[sent + 2 - i]
      /\ clear \in {2, 4} /\ Len(now) > sent + 1 => FromEnd(now, sent + 2) # "ff"
  BY SendTracks
<1>3. now \in Seq(Byte)
  <2>1. frame \in DataFrames \cup {SyncFrame} /\ sent + 1 \in 1 .. FrameLen
    BY <1>1 DEF IInv, LinkTypeOK
  <2>2. frame[sent + 1] \in Byte
    BY <2>1, FrameType
  <2>3. Pushed(now, Held, frame[sent + 1])
    BY <2>2, ByteOutcome DEF IInv, LinkTypeOK, SendByte
  <2> QED BY <2>3 DEF Pushed
<1> HIDE DEF now
<1>4. Len(now) = FrameLen /\ \A i \in 1 .. FrameLen : FromEnd(now, i) = "ff"
  BY <1>3, SyncFromEnd DEF now
<1>5. FromEnd(now, sent + 1) = frame[1]
  BY <1>1, <1>2, <1>4
<1>6. frame[1] = "ff"
  BY <1>1, <1>4, <1>5
<1>7. clear \in {2, 4} => sent + 1 = FrameLen
  <2>1. SUFFICES ASSUME clear \in {2, 4}, sent + 1 # FrameLen
                 PROVE  FALSE
    OBVIOUS
  <2>2. sent + 2 \in 1 .. FrameLen /\ Len(now) > sent + 1
    BY <1>1, <1>4, <2>1
  <2> QED BY <1>2, <1>4, <2>1, <2>2
<1> QED BY <1>6, <1>7

\* What the step of the deck gives: the byte, and the decoders still well formed.
LEMMA SendFrame ==
    ASSUME IInv, SendByte
    PROVE  /\ sent \in Nat /\ sent < FrameLen /\ FrameLen \in Nat \ {0}
           /\ sent' = sent + 1 /\ clear' = clear /\ frame' = frame
           /\ frame[sent + 1] \in Byte /\ ProcessByte(frame[sent + 1])
           /\ FramingTypeOK /\ BufferWithinFrame /\ Len(Held) \in Nat
           /\ clear \in Nat
<1>1. /\ sent \in Nat /\ sent < FrameLen /\ FrameLen \in Nat \ {0}
      /\ FramingTypeOK /\ BufferWithinFrame /\ ProcessByte(frame[sent + 1])
      /\ frame \in DataFrames \cup {SyncFrame}
      /\ sent' = sent + 1 /\ clear' = clear /\ frame' = frame
      /\ clear \in Nat
  BY FramingAssumption DEF IInv, LinkTypeOK, SendByte, Shown
<1>2. frame[sent + 1] \in Byte
  BY <1>1, FrameType
<1>3. Len(Held) \in Nat
  BY <1>1 DEF FramingTypeOK, Held
<1> QED BY <1>1, <1>2, <1>3

LEMMA SendKeepsType ==
    ASSUME IInv, SendByte
    PROVE  LinkTypeOK' /\ NoSyncInWindow'
<1>1. FramingTypeOK' /\ BufferWithinFrame' /\ NoSyncInWindow'
  BY SendFrame, ByteKeepsFraming
<1>2. sent' \in 0 .. FrameLen /\ frame' \in DataFrames \cup {SyncFrame} /\ clear' \in 0 .. Shown
  BY SendFrame DEF IInv, LinkTypeOK
<1> QED BY <1>1, <1>2 DEF LinkTypeOK

\* What is remembered still ends with the frame on the line.
LEMMA SendKeepsHeld ==
    ASSUME IInv, SendByte
    PROVE  HoldsSent' /\ HoldsEdge'
<1> DEFINE now == Extended(frame[sent + 1])
<1>1. Held' = now \/ Held' = <<>>
  BY SendFrame, ByteOutcome DEF Held
<1>2. CASE Held' = <<>>
  <2>1. Len(Held') = 0
    BY <1>2
  <2>2. \A i \in 1 .. sent' : ~ (i <= Len(Held'))
    BY <2>1, SendFrame
  <2>3. ~ (Len(Held') > sent')
    BY <2>1, SendFrame
  <2> QED BY <2>2, <2>3 DEF HoldsSent, HoldsEdge
<1>3. CASE Held' = now
  <2>1. sent' = sent + 1 /\ clear' = clear /\ frame' = frame /\ sent \in Nat /\ clear \in Nat
    BY SendFrame
  <2>2. ASSUME clear >= 1, NEW i \in 1 .. sent', i <= Len(Held')
        PROVE  FromEnd(Held', i) = frame'[sent' + 1 - i]
    <3>1. FromEnd(now, i) = frame[sent + 2 - i]
      BY <1>3, <2>1, <2>2, SendTracks
    <3>2. sent' + 1 - i = sent + 2 - i
      BY <2>1, <2>2
    <3> QED BY <1>3, <2>1, <3>1, <3>2
  <2>3. ASSUME clear \in {2, 4}, Len(Held') > sent'
        PROVE  FromEnd(Held', sent' + 1) # "ff"
    <3>1. FromEnd(now, sent + 2) # "ff"
      BY <1>3, <2>1, <2>3, SendTracks
    <3>2. sent' + 1 = sent + 2
      BY <2>1
    <3> QED BY <1>3, <3>1, <3>2
  <2>4. HoldsSent'
    BY <2>1, <2>2 DEF HoldsSent, FromEnd
  <2>5. HoldsEdge'
    BY <2>1, <2>3 DEF HoldsEdge, FromEnd
  <2> QED BY <2>4, <2>5
<1> QED BY <1>1, <1>2, <1>3

----------------------------------------------------------------------------
\* A position in the frame, and the end of it, as the buffer counts them.
LEMMA AlignedLength ==
    ASSUME NEW n \in 0 .. FrameLen
    PROVE  n % FrameLen = IF n = FrameLen THEN 0 ELSE n
BY FramingAssumption

\* An aligned decoder stays aligned, and the byte that ends the frame hands over
\* the frame the deck sent, or nothing for a sync frame.
LEMMA SendKeepsAligned ==
    ASSUME IInv, SendByte, clear >= 1, Aligned
    PROVE  /\ Aligned'
           /\ sent' = FrameLen =>
                delivered' = IF frame = SyncFrame THEN NoDelivery ELSE frame
<1> DEFINE now == Extended(frame[sent + 1])
<1>1. /\ sent \in Nat /\ sent < FrameLen /\ FrameLen \in Nat \ {0}
      /\ sent' = sent + 1 /\ FramingTypeOK /\ BufferWithinFrame
      /\ frame[sent + 1] \in Byte /\ ProcessByte(frame[sent + 1])
  BY SendFrame
<1>2. mode = "DATA" /\ Held = data_frame_decoder /\ Len(Held) = sent
  BY <1>1, AlignedLength DEF Aligned, Held
<1>3. now \in Seq(Byte) /\ Len(now) = sent + 1
  BY <1>1, <1>2, ByteOutcome DEF Pushed
<1>4. \A i \in 1 .. sent + 1 :
            i <= Len(now) => FromEnd(now, i) = frame[sent + 2 - i]
  BY SendTracks
<1>5. /\ frame \in DataFrames \cup {SyncFrame}
      /\ frame \in Seq(Byte) /\ Len(frame) = FrameLen
  BY FrameType DEF IInv, LinkTypeOK
<1>6. \/ /\ Len(now) # FrameLen /\ mode' = "DATA" /\ data_frame_decoder' = now
      \/ /\ IsSyncFrame(now) /\ mode' = "DATA" /\ data_frame_decoder' = <<>>
         /\ delivered' = NoDelivery
      \/ CompleteFrame(now) /\ ~ GoodPadding(now)
      \/ /\ CompleteFrame(now) /\ GoodPadding(now) /\ mode' = "DATA"
         /\ data_frame_decoder' = <<>> /\ delivered' = now
  BY <1>1, <1>2, ByteOutcome
<1> HIDE DEF now
<1>7. CASE sent + 1 < FrameLen
  <2>1. mode' = "DATA" /\ data_frame_decoder' = now
    BY <1>1, <1>3, <1>6, <1>7 DEF IsSyncFrame, CompleteFrame
  <2>2. sent' % FrameLen = sent + 1
    BY <1>1, <1>7, AlignedLength
  <2> QED BY <1>1, <1>3, <1>7, <2>1, <2>2 DEF Aligned
<1>8. CASE sent + 1 = FrameLen
  <2>1. \A i \in 1 .. FrameLen : now[i] = frame[i]
    <3>1. SUFFICES ASSUME NEW i \in 1 .. FrameLen
                   PROVE  now[i] = frame[i]
      OBVIOUS
    <3>2. PICK j \in 1 .. FrameLen : j = FrameLen + 1 - i
      BY <1>1
    <3>3. /\ j \in 1 .. sent + 1 /\ j <= Len(now)
          /\ sent + 2 - j = i /\ Len(now) + 1 - j = i
      BY <1>1, <1>3, <1>8, <3>2
    <3> QED BY <1>4, <3>3 DEF FromEnd
  <2>2. now = frame
    BY <1>3, <1>5, <1>8, <2>1, SeqEqual
  <2>3. sent' % FrameLen = 0 /\ Len(<<>>) = 0
    BY <1>1, <1>8, AlignedLength
  <2>4. CASE frame = SyncFrame
    <3>1. IsSyncFrame(now)
      BY <1>5, <2>2, <2>4 DEF IsSyncFrame, SyncFrame
    <3> QED BY <1>3, <1>6, <1>8, <2>3, <2>4, <3>1 DEF Aligned, CompleteFrame
  <2>5. CASE frame # SyncFrame
    <3>1. GoodPadding(now)
      BY <1>5, <2>2, <2>5, DeckAssumption
    <3>2. ~ IsSyncFrame(now)
      <4>1. PICK i \in Padding : i \in 1 .. FrameLen
        BY FramingAssumption
      <4> QED BY <3>1, <4>1 DEF GoodPadding, IsSyncFrame
    <3> QED BY <1>3, <1>6, <1>8, <2>2, <2>3, <2>5, <3>1, <3>2 DEF Aligned
  <2> QED BY <2>4, <2>5
<1> QED BY <1>1, <1>7, <1>8

\* Through a sync frame behind a distinct data frame.
LEMMA SendKeepsFirstSync ==
    ASSUME IInv, SendByte
    PROVE  InFirstSync'
<1> DEFINE now == Extended(frame[sent + 1])
<1>1. /\ sent \in Nat /\ sent < FrameLen /\ FrameLen \in Nat \ {0}
      /\ sent' = sent + 1 /\ clear' = clear /\ frame' = frame
      /\ FramingTypeOK /\ BufferWithinFrame /\ Len(Held) \in Nat
      /\ frame[sent + 1] \in Byte /\ ProcessByte(frame[sent + 1])
  BY SendFrame
<1>2. SUFFICES ASSUME clear = 2, frame = SyncFrame, mode' = "DATA"
               PROVE  \/ Aligned'
                      \/ Len(data_frame_decoder') > sent'
                      \/ /\ Len(data_frame_decoder') < sent'
                         /\ Padding \subseteq
                                1 .. FrameLen - sent' + Len(data_frame_decoder')
  BY <1>1 DEF InFirstSync
<1>3. IsSyncFrame(now) => sent + 1 = FrameLen
  BY <1>2, SyncSeenIsSync
<1>4. \A i \in 1 .. sent + 1 :
            i <= Len(now) => FromEnd(now, i) = frame[sent + 2 - i]
  BY <1>2, SendTracks
<1>5. Len(<<>>) = 0 /\ (sent + 1 = FrameLen => sent' % FrameLen = 0)
  BY <1>1, AlignedLength
<1>6. CASE mode = "SYNC"
  <2>1. IsSyncFrame(now) /\ data_frame_decoder' = <<>>
    BY <1>1, <1>2, <1>6, ByteOutcome
  <2> QED BY <1>2, <1>3, <1>5, <2>1 DEF Aligned
<1>7. CASE Aligned
  BY <1>2, <1>7, SendKeepsAligned
<1>8. CASE mode = "DATA" /\ ~ Aligned
  <2>1. /\ Held = data_frame_decoder /\ Len(data_frame_decoder) < FrameLen
        /\ \/ Len(data_frame_decoder) > sent
           \/ /\ Len(data_frame_decoder) < sent
              /\ Padding \subseteq 1 .. FrameLen - sent + Len(data_frame_decoder)
    BY <1>2, <1>8 DEF IInv, InFirstSync, LinkTypeOK, BufferWithinFrame, Held
  <2>2. /\ Len(now) = Len(data_frame_decoder) + 1
        /\ \/ /\ Len(now) # FrameLen /\ data_frame_decoder' = now
           \/ /\ IsSyncFrame(now) /\ data_frame_decoder' = <<>>
           \/ /\ CompleteFrame(now) /\ GoodPadding(now) /\ data_frame_decoder' = <<>>
    BY <1>1, <1>2, <1>8, <2>1, ByteOutcome
  <2> HIDE DEF now
  <2>3. CASE data_frame_decoder' = now /\ Len(now) # FrameLen
    BY <1>1, <2>1, <2>2, <2>3
  <2>4. CASE IsSyncFrame(now) /\ data_frame_decoder' = <<>>
    BY <1>2, <1>3, <1>5, <2>4 DEF Aligned
  <2>5. CASE CompleteFrame(now) /\ GoodPadding(now) /\ data_frame_decoder' = <<>>
    <3>1. Len(now) = FrameLen /\ Len(data_frame_decoder) > sent
      BY <1>1, <2>1, <2>2, <2>5 DEF CompleteFrame
    <3>2. ASSUME NEW p \in Padding
          PROVE  p \in 1 .. FrameLen - (sent + 1)
      <4>1. p \in 1 .. FrameLen /\ now[p] = "low"
        BY <2>5, FramingAssumption DEF GoodPadding
      <4>2. SUFFICES ASSUME p > FrameLen - (sent + 1)
                     PROVE  FALSE
        BY <1>1, <4>1
      <4>3. PICK i \in Nat : i = FrameLen + 1 - p
        BY <1>1, <4>1
      <4>4. i \in 1 .. sent + 1 /\ i <= Len(now) /\ Len(now) + 1 - i = p
            /\ sent + 2 - i \in 1 .. FrameLen
        BY <1>1, <3>1, <4>1, <4>2, <4>3
      <4>5. now[p] = "ff"
        BY <1>2, <1>4, <4>4 DEF FromEnd, SyncFrame
      <4> QED BY <4>1, <4>5
    <3>3. Len(data_frame_decoder') = 0
      BY <2>5
    <3>4. Padding \subseteq 1 .. FrameLen - sent' + Len(data_frame_decoder')
      BY <1>1, <3>2, <3>3
    <3> QED BY <1>1, <3>3, <3>4
  <2> QED BY <2>2, <2>3, <2>4, <2>5
<1> QED BY <1>6, <1>7, <1>8 DEF IInv, LinkTypeOK, FramingTypeOK

\* Through the distinct data frame behind it.
LEMMA SendKeepsNextData ==
    ASSUME IInv, SendByte
    PROVE  InNextData'
<1> DEFINE now == Extended(frame[sent + 1])
<1>1. /\ sent \in Nat /\ sent < FrameLen /\ FrameLen \in Nat \ {0}
      /\ sent' = sent + 1 /\ clear' = clear /\ frame' = frame
      /\ FramingTypeOK /\ BufferWithinFrame
      /\ frame[sent + 1] \in Byte /\ ProcessByte(frame[sent + 1])
  BY SendFrame
<1>2. SUFFICES ASSUME clear = 3, frame # SyncFrame, Distinct(frame), mode' = "DATA"
               PROVE  \/ Aligned'
                      \/ /\ Len(data_frame_decoder') > sent'
                         /\ Padding \subseteq 1 .. Len(data_frame_decoder') - sent'
                         /\ \A i \in 1 .. Len(data_frame_decoder') - sent' :
                                data_frame_decoder'[i] = "ff"
  BY <1>1 DEF InNextData
<1>3. ~ IsSyncFrame(now)
  BY <1>2, SyncSeenIsSync DEF Distinct
<1>4. mode = "DATA"
  BY <1>1, <1>2, <1>3, ByteOutcome
<1>5. CASE Aligned
  BY <1>2, <1>5, SendKeepsAligned
<1>6. CASE ~ Aligned
  <2>1. /\ Held = data_frame_decoder /\ data_frame_decoder \in Seq(Byte)
        /\ Len(data_frame_decoder) < FrameLen
        /\ Len(data_frame_decoder) > sent
        /\ Padding \subseteq 1 .. Len(data_frame_decoder) - sent
        /\ \A i \in 1 .. Len(data_frame_decoder) - sent : data_frame_decoder[i] = "ff"
    BY <1>2, <1>4, <1>6
    DEF IInv, InNextData, LinkTypeOK, BufferWithinFrame, FramingTypeOK, Held
  <2>2. /\ now = Append(data_frame_decoder, frame[sent + 1])
        /\ \/ /\ Len(now) # FrameLen /\ data_frame_decoder' = now
           \/ GoodPadding(now)
    BY <1>1, <1>2, <1>3, <1>4, <2>1, ByteOutcome DEF Extended
  <2> HIDE DEF now
  <2>3. /\ Len(now) = Len(data_frame_decoder) + 1
        /\ \A i \in 1 .. Len(data_frame_decoder) : now[i] = data_frame_decoder[i]
    BY <1>1, <2>1, <2>2, PushBuffer
  <2>4. Len(now) - sent' = Len(data_frame_decoder) - sent /\ Len(now) > sent'
    BY <1>1, <2>1, <2>3
  <2>5. \A i \in 1 .. Len(now) - sent' : now[i] = "ff"
    BY <1>1, <2>1, <2>3, <2>4
  <2>6. ~ GoodPadding(now)
    <3>1. PICK p \in Padding : p \in 1 .. Len(now) - sent'
      BY <2>1, <2>4, FramingAssumption
    <3> QED BY <2>5, <3>1 DEF GoodPadding
  <2>7. data_frame_decoder' = now
    BY <2>2, <2>6
  <2>8. Padding \subseteq 1 .. Len(now) - sent'
    BY <2>1, <2>4
  <2> QED BY <2>4, <2>5, <2>7, <2>8
<1> QED BY <1>5, <1>6

\* Through what follows, up to the end of the second sync frame.
LEMMA SendKeepsSecondSync ==
    ASSUME IInv, SendByte
    PROVE  InSecondSync'
<1> DEFINE now == Extended(frame[sent + 1])
<1>1. /\ sent \in Nat /\ sent < FrameLen /\ FrameLen \in Nat \ {0}
      /\ sent' = sent + 1 /\ clear' = clear /\ frame' = frame
      /\ FramingTypeOK /\ BufferWithinFrame /\ Len(Held) \in Nat
      /\ frame[sent + 1] \in Byte /\ ProcessByte(frame[sent + 1])
  BY SendFrame
<1>2. SUFFICES ASSUME clear = 4, frame = SyncFrame \/ Distinct(frame)
               PROVE  Aligned' \/ (mode' = "SYNC" /\ Len(sync_frame_decoder') >= sent')
  BY <1>1 DEF InSecondSync
<1>3. CASE Aligned
  BY <1>2, <1>3, SendKeepsAligned
<1>4. CASE mode = "SYNC" /\ Len(sync_frame_decoder) >= sent
  <2>1. Held = sync_frame_decoder
    BY <1>4 DEF Held
  <2>2. /\ Len(now) = IF Len(sync_frame_decoder) < FrameLen
                      THEN Len(sync_frame_decoder) + 1 ELSE FrameLen
        /\ \/ /\ IsSyncFrame(now) /\ mode' = "DATA" /\ data_frame_decoder' = <<>>
           \/ /\ mode' = "SYNC" /\ sync_frame_decoder' = now
    BY <1>1, <1>4, <2>1, ByteOutcome
  <2>3. CASE IsSyncFrame(now) /\ mode' = "DATA" /\ data_frame_decoder' = <<>>
    <3>1. sent + 1 = FrameLen
      BY <1>2, <2>3, SyncSeenIsSync
    <3>2. sent' % FrameLen = 0 /\ Len(data_frame_decoder') = 0
      BY <1>1, <2>3, <3>1, AlignedLength
    <3> QED BY <2>3, <3>2 DEF Aligned
  <2> HIDE DEF now
  <2>4. CASE mode' = "SYNC" /\ sync_frame_decoder' = now
    BY <1>1, <1>4, <2>1, <2>2, <2>4
  <2> QED BY <2>2, <2>3, <2>4
<1> QED BY <1>2, <1>3, <1>4 DEF IInv, InSecondSync

LEMMA SendKeepsInvariant ==
    ASSUME IInv, SendByte
    PROVE  IInv'
<1>1. RecoversInTwoSyncs'
  <2>1. SUFFICES ASSUME clear = Shown
                 PROVE  Aligned'
    BY SendFrame DEF RecoversInTwoSyncs
  <2>2. Aligned /\ clear >= 1
    BY <2>1 DEF IInv, RecoversInTwoSyncs, Shown
  <2> QED BY <2>2, SendKeepsAligned
<1> QED
  BY <1>1, SendKeepsType, SendKeepsHeld, SendKeepsFirstSync, SendKeepsNextData,
     SendKeepsSecondSync DEF IInv

----------------------------------------------------------------------------
\* How the history moves when a frame ends.
LEMMA ClearCases ==
    ASSUME NEW f, clear \in 0 .. Shown, NEW after, after = NowClear(f)
    PROVE  /\ after \in 0 .. Shown
           /\ after \in {2, 4} => f # SyncFrame /\ Distinct(f) /\ clear >= 1
           /\ after = 3 => clear = 2 /\ f = SyncFrame
           /\ after = 4 => clear \in {3, 4}
           /\ after = 5 => clear = 5 \/ (clear = 4 /\ f = SyncFrame)
<1>1. CASE clear = Shown
  BY <1>1 DEF NowClear, Shown
<1>2. CASE clear # Shown /\ f = SyncFrame
  <2>1. after = IF clear \in {2, 4} THEN clear + 1 ELSE 1
    BY <1>2 DEF NowClear
  <2> QED BY <1>2, <2>1 DEF Shown
<1>3. CASE clear # Shown /\ f # SyncFrame
  <2>1. after = IF clear = 0 \/ ~ Distinct(f) THEN 1
                ELSE IF clear \in {1, 3} THEN clear + 1 ELSE clear
    BY <1>3 DEF NowClear
  <2> HIDE DEF Distinct
  <2> QED BY <1>3, <2>1 DEF Shown
<1> QED BY <1>1, <1>2, <1>3

\* The next frame: what held at the end of the last one is what has to hold at
\* the start of this one.
LEMMA NextFrameKeepsInvariant ==
    ASSUME IInv, NextFrame
    PROVE  IInv'
<1>1. /\ sent = FrameLen /\ sent' = 0 /\ FrameLen \in Nat \ {0}
      /\ frame' \in DataFrames \cup {SyncFrame}
      /\ UNCHANGED <<mode, sync_frame_decoder, data_frame_decoder>>
      /\ FramingTypeOK /\ BufferWithinFrame /\ NoSyncInWindow
  BY FramingAssumption DEF NextFrame, decoderVars, IInv, LinkTypeOK
<1>2. /\ clear' \in 0 .. Shown
      /\ clear' \in {2, 4} => frame # SyncFrame /\ Distinct(frame) /\ clear >= 1
      /\ clear' = 3 => clear = 2 /\ frame = SyncFrame
      /\ clear' = 4 => clear \in {3, 4}
      /\ clear' = 5 => clear = 5 \/ (clear = 4 /\ frame = SyncFrame)
  BY ClearCases DEF NextFrame, IInv, LinkTypeOK
<1>3. LinkTypeOK' /\ NoSyncInWindow'
  BY <1>1, <1>2 DEF LinkTypeOK, FramingTypeOK, BufferWithinFrame, NoSyncInWindow
<1>4. Held' = Held /\ Len(Held) \in Nat
  BY <1>1 DEF Held, FramingTypeOK
<1>5. clear >= 1 =>
        \A i \in 1 .. FrameLen : i <= Len(Held) => FromEnd(Held, i) = frame[FrameLen + 1 - i]
  BY <1>1 DEF IInv, HoldsSent
<1>6. HoldsSent'
  <2>1. 1 .. sent' = {}
    BY <1>1
  <2> QED BY <2>1 DEF HoldsSent
<1>7. HoldsEdge'
  <2>1. SUFFICES ASSUME clear' \in {2, 4}, Len(Held) > 0
                 PROVE  FromEnd(Held, 1) # "ff"
    BY <1>1, <1>4 DEF HoldsEdge, FromEnd
  <2>2. FromEnd(Held, 1) = frame[FrameLen + 1 - 1]
    BY <1>1, <1>2, <1>4, <1>5, <2>1
  <2> QED BY <1>1, <1>2, <2>1, <2>2 DEF Distinct
<1>8. Aligned => Aligned' /\ Len(data_frame_decoder) = 0
  BY <1>1, AlignedLength DEF Aligned
<1>9. mode = "DATA" /\ Len(data_frame_decoder) = 0 => Aligned'
  BY <1>1, AlignedLength DEF Aligned
<1>10. InFirstSync'
  <2>1. mode = "DATA" => Len(data_frame_decoder) = 0 \/ Len(data_frame_decoder) > 0
    BY <1>1 DEF FramingTypeOK
  <2> QED BY <1>1, <1>9, <2>1 DEF InFirstSync
<1>11. InNextData'
  <2>1. SUFFICES ASSUME clear' = 3, mode = "DATA", ~ Aligned'
                 PROVE  /\ Len(data_frame_decoder) > 0
                        /\ Padding \subseteq 1 .. Len(data_frame_decoder)
                        /\ \A i \in 1 .. Len(data_frame_decoder) : data_frame_decoder[i] = "ff"
    BY <1>1 DEF InNextData
  <2>2. /\ clear = 2 /\ frame = SyncFrame /\ Held = data_frame_decoder
        /\ Len(data_frame_decoder) \in Nat /\ Len(data_frame_decoder) < FrameLen
    BY <1>1, <1>2, <1>4, <2>1 DEF Held, BufferWithinFrame
  <2>3. Padding \subseteq 1 .. FrameLen - FrameLen + Len(data_frame_decoder)
    BY <1>1, <1>8, <2>1, <2>2 DEF IInv, InFirstSync
  <2>4. Padding \subseteq 1 .. Len(data_frame_decoder)
    BY <1>1, <2>2, <2>3
  <2>5. Len(data_frame_decoder) > 0
    <3>1. PICK p \in Padding : p \in 1 .. Len(data_frame_decoder)
      BY <2>4, FramingAssumption
    <3> QED BY <2>2, <3>1
  <2>6. ASSUME NEW i \in 1 .. Len(data_frame_decoder)
        PROVE  data_frame_decoder[i] = "ff"
    <3>1. PICK j \in Nat : j = Len(data_frame_decoder) + 1 - i
      BY <2>2, SMTT(20)
    <3>2. /\ j \in 1 .. FrameLen /\ j <= Len(Held) /\ Len(Held) + 1 - j = i
          /\ FrameLen + 1 - j \in 1 .. FrameLen
      BY <1>1, <2>2, <3>1
    <3> QED BY <1>5, <2>2, <3>2 DEF FromEnd, SyncFrame
  <2> QED BY <2>4, <2>5, <2>6
<1>12. InSecondSync'
  <2>1. SUFFICES ASSUME clear' = 4
                 PROVE  Aligned' \/ (mode = "SYNC" /\ Len(sync_frame_decoder) >= 0)
    BY <1>1 DEF InSecondSync
  <2>2. /\ clear \in {3, 4} /\ frame # SyncFrame /\ Distinct(frame)
    BY <1>2, <2>1
  <2>3. CASE mode = "SYNC"
    BY <1>1, <2>3 DEF FramingTypeOK
  <2>4. CASE mode = "DATA"
    <3>1. Len(data_frame_decoder) \in Nat /\ ~ (Len(data_frame_decoder) > sent)
      BY <1>1, <2>4 DEF FramingTypeOK, BufferWithinFrame
    <3>2. Aligned
      BY <2>2, <2>4, <3>1 DEF IInv, InNextData, InSecondSync
    <3> QED BY <1>8, <3>2
  <2> QED BY <1>1, <2>3, <2>4 DEF FramingTypeOK
<1>13. RecoversInTwoSyncs'
  <2>1. SUFFICES ASSUME clear' = 5
                 PROVE  Aligned'
    BY DEF RecoversInTwoSyncs, Shown
  <2>2. CASE clear = 5
    BY <1>8, <2>2 DEF IInv, RecoversInTwoSyncs, Shown
  <2>3. CASE clear = 4 /\ frame = SyncFrame
    <3>1. SUFFICES ASSUME mode = "SYNC", Len(sync_frame_decoder) >= FrameLen
                   PROVE  FALSE
      BY <1>1, <1>8, <2>3 DEF IInv, InSecondSync
    <3>2. /\ Held = sync_frame_decoder /\ sync_frame_decoder \in Seq(Byte)
          /\ Len(sync_frame_decoder) = FrameLen
      BY <1>1, <3>1 DEF Held, FramingTypeOK
    <3>3. \A i \in 1 .. FrameLen : FromEnd(sync_frame_decoder, i) = "ff"
      BY <1>1, <1>5, <2>3, <3>2 DEF SyncFrame
    <3> QED BY <1>1, <3>1, <3>2, <3>3, SyncFromEnd DEF NoSyncInWindow
  <2> QED BY <1>2, <2>1, <2>2, <2>3
<1> QED BY <1>3, <1>6, <1>7, <1>10, <1>11, <1>12, <1>13 DEF IInv

\* A step that disturbs the line starts the history again: nothing but the
\* framing itself has to hold.
LEMMA DisturbedKeepsInvariant ==
    ASSUME LinkTypeOK', NoSyncInWindow', clear' = 0
    PROVE  IInv'
BY DEF IInv, HoldsSent, HoldsEdge, InFirstSync, InNextData, InSecondSync,
       RecoversInTwoSyncs, Shown

LEMMA InvariantHolds == LinkSpec => []IInv
<1>1. LinkInit => IInv
  <2> SUFFICES ASSUME LinkInit
               PROVE  IInv
    OBVIOUS
  <2>1. FrameLen \in Nat \ {0} /\ <<>> \in Seq(Byte) /\ Len(<<>>) = 0
    BY FramingAssumption
  <2>2. LinkTypeOK /\ NoSyncInWindow
    BY <2>1 DEF LinkInit, DecoderInit, LinkTypeOK, NoSyncInWindow, FramingTypeOK,
                BufferWithinFrame, IsSyncFrame, Shown
  <2>3. clear = 0
    BY DEF LinkInit
  <2> QED
    BY <2>2, <2>3 DEF IInv, HoldsSent, HoldsEdge, InFirstSync, InNextData, InSecondSync,
                      RecoversInTwoSyncs, Shown
<1>2. IInv /\ [LinkNext]_linkVars => IInv'
  <2> SUFFICES ASSUME IInv, [LinkNext]_linkVars
               PROVE  IInv'
    OBVIOUS
  <2>1. /\ frame \in DataFrames \cup {SyncFrame} /\ sent \in 0 .. FrameLen
        /\ FramingTypeOK /\ BufferWithinFrame /\ NoSyncInWindow
        /\ FrameLen \in Nat \ {0}
    BY FramingAssumption DEF IInv, LinkTypeOK
  <2>2. CASE NextFrame
    BY <2>2, NextFrameKeepsInvariant
  <2>3. CASE SendByte
    BY <2>3, SendKeepsInvariant
  <2>4. CASE LoseByte
    <3>1. /\ sent' \in 0 .. FrameLen /\ frame' = frame /\ clear' = 0
          /\ UNCHANGED <<mode, sync_frame_decoder, data_frame_decoder>>
      BY <2>1, <2>4 DEF LoseByte, decoderVars
    <3>2. LinkTypeOK' /\ NoSyncInWindow'
      BY <2>1, <3>1 DEF LinkTypeOK, NoSyncInWindow, FramingTypeOK, BufferWithinFrame, Shown
    <3> QED BY <3>1, <3>2, DisturbedKeepsInvariant
  <2>5. ASSUME NEW byte \in Byte, DamageByte(byte)
        PROVE  IInv'
    <3>1. /\ sent' \in 0 .. FrameLen /\ frame' = frame /\ clear' = 0
          /\ ProcessByte(byte)
      BY <2>1, <2>5 DEF DamageByte
    <3>2. FramingTypeOK' /\ BufferWithinFrame' /\ NoSyncInWindow'
      BY <2>1, <3>1, ByteKeepsFraming
    <3>3. LinkTypeOK'
      BY <2>1, <3>1, <3>2 DEF LinkTypeOK, Shown
    <3> QED BY <3>1, <3>2, <3>3, DisturbedKeepsInvariant
  <2>6. CASE Reset
    <3>1. /\ sent' = sent /\ frame' = frame /\ clear' = 0
          /\ mode' = "SYNC" /\ sync_frame_decoder' = <<>> /\ data_frame_decoder' = NoDecoder
      BY <2>6 DEF Reset, ResetDecoder
    <3>2. LinkTypeOK' /\ NoSyncInWindow'
      BY <2>1, <3>1 DEF LinkTypeOK, NoSyncInWindow, FramingTypeOK, BufferWithinFrame,
                        IsSyncFrame, Shown
    <3> QED BY <3>1, <3>2, DisturbedKeepsInvariant
  <2>7. CASE UNCHANGED linkVars
    BY <2>7 DEF linkVars, IInv, LinkTypeOK, NoSyncInWindow, FramingTypeOK,
                BufferWithinFrame, HoldsSent, HoldsEdge, Held, FromEnd, InFirstSync,
                InNextData, InSecondSync, RecoversInTwoSyncs, Aligned
  <2> QED BY <2>2, <2>3, <2>4, <2>5, <2>6, <2>7 DEF LinkNext
<1> QED BY <1>1, <1>2, PTL DEF LinkSpec

----------------------------------------------------------------------------
\* Whatever arrives, each mode has exactly the decoder it uses, so processByte
\* never drops a byte for want of one.
THEOREM FramingTypeCorrect == LinkSpec => []FramingTypeOK
<1>1. IInv => FramingTypeOK
  BY DEF IInv, LinkTypeOK
<1> QED BY <1>1, InvariantHolds, PTL

\* Whatever arrives, the data decoder's buffer never outgrows the frame, behind
\* which it could never complete one again.
THEOREM BufferStaysWithinFrame == LinkSpec => []BufferWithinFrame
<1>1. IInv => BufferWithinFrame
  BY DEF IInv, LinkTypeOK
<1> QED BY <1>1, InvariantHolds, PTL

\* Wherever the host starts listening and whatever the line did, two sync frames
\* among distinct data frames bring the decoder to the frame boundary, and only
\* a new fault or a reset takes it away.
THEOREM RecoveryIsBounded == LinkSpec => []RecoversInTwoSyncs
<1>1. IInv => RecoversInTwoSyncs
  BY DEF IInv
<1> QED BY <1>1, InvariantHolds, PTL

\* From then on each data frame of the deck is handed over once, as it was sent,
\* by the call that takes its last byte; a sync frame hands over nothing.
THEOREM FramesAreDelivered == LinkSpec => DeliversEveryFrame
<1>1. IInv /\ [LinkNext]_linkVars =>
        [clear = Shown /\ clear' = Shown /\ sent' = FrameLen /\ sent # FrameLen =>
            delivered' = (IF frame = SyncFrame THEN NoDelivery ELSE frame)]_linkVars
  <2> SUFFICES ASSUME IInv, LinkNext,
                      clear = Shown, clear' = Shown, sent' = FrameLen, sent # FrameLen
               PROVE  delivered' = (IF frame = SyncFrame THEN NoDelivery ELSE frame)
    OBVIOUS
  <2>1. SendByte
    BY FramingAssumption
    DEF LinkNext, NextFrame, LoseByte, DamageByte, Reset, Shown
  <2>2. Aligned /\ clear >= 1
    BY DEF IInv, RecoversInTwoSyncs, Shown
  <2> QED BY <2>1, <2>2, SendKeepsAligned
<1> QED BY <1>1, InvariantHolds, PTL DEF LinkSpec, DeliversEveryFrame

----------------------------------------------------------------------------
\* A whole number of words is read back as that number, with nothing left over.
LEMMA WholeWords ==
    ASSUME NEW n \in Nat, NEW span \in Nat \ {0}
    PROVE  (n * span) % span = 0 /\ (n * span) \div span = n
<1>1. n * span \in Nat
  OBVIOUS
<1>2. n * span = span * n + 0
  OBVIOUS
<1> QED
  BY <1>1, <1>2

\* The constants the argument is about.
LEMMA WordSizes ==
    WordSpan \in Nat \ {0} /\ MaxWords \in Nat /\ MaxWords >= 2 /\ MaxBits \in Nat \ {0}
<1> USE OotxAssumption
<1>1. WordSpan \in Nat \ {0}
  BY DEF WordSpan
<1>2. (kOOTXMaxPayloadLength + 1) \div 2 \in Nat
  OBVIOUS
<1>3. MaxWords \in Nat /\ MaxWords >= 2
  BY <1>2 DEF MaxWords, ExpectedWords
<1>4. \A m, n \in Nat \ {0} : m * n \in Nat \ {0}
  OBVIOUS
<1> QED
  BY <1>1, <1>3, <1>4 DEF MaxBits

\* No frame of a legal length has more words than the longest.
LEMMA LongestFrame ==
    ASSUME NEW length \in 0 .. kOOTXMaxPayloadLength
    PROVE  ExpectedWords(length) <= MaxWords
  BY OotxAssumption DEF ExpectedWords, MaxWords

\* A buffer as long as the longest frame is never waited on: it is a frame, a
\* corrupted one, or none.
LEMMA FullBufferIsDecided ==
    ASSUME NEW bits \in Seq(Bit), Len(bits) = MaxBits
    PROVE  DecodeResult(bits) # "Incomplete"
<1>1. Len(bits) % WordSpan = 0 /\ WordCount(bits) = MaxWords
  BY WordSizes, WholeWords DEF WordCount, MaxBits
<1>2. Readable(bits)
  BY <1>1, WordSizes DEF Readable
<1>3. ASSUME LooksLikeFrame(bits)
      PROVE  ~ (WordCount(bits) < ExpectedWords(PayloadLength(bits)))
  <2>1. PayloadLength(bits) \in 0 .. kOOTXMaxPayloadLength
    BY <1>3 DEF LooksLikeFrame
  <2>2. ExpectedWords(PayloadLength(bits)) <= MaxWords
    BY <2>1, LongestFrame
  <2>3. ExpectedWords(PayloadLength(bits)) \in Int
    BY <2>1, OotxAssumption DEF ExpectedWords
  <2> QED
    BY <2>2, <2>3, <1>1, WordSizes
<1> QED
  BY <1>2, <1>3 DEF DecodeResult

\* A set of naturals that is not empty has a least element.
LEMMA LeastOfNaturals ==
    ASSUME NEW S \in SUBSET Nat, S # {}
    PROVE  \E x \in S : \A y \in S : x <= y
<1>1. \E x \in S : \A y \in S : ~ (<<y, x>> \in OpToRel(<, Nat))
  BY NatLessThanWellFounded, WFMin
<1>2. PICK x \in S : \A y \in S : ~ (<<y, x>> \in OpToRel(<, Nat))
  BY <1>1
<1>3. \A y \in S : ~ (y < x)
  BY <1>2 DEF OpToRel
<1> QED
  BY <1>3

\* A part of a sequence of bits, as a function.
LEMMA BitsBetween ==
    ASSUME NEW bits \in Seq(Bit), NEW first \in Nat \ {0}, NEW size \in Nat,
           first + size <= Len(bits) + 1
    PROVE  LET part == SubSeq(bits, first, first + size - 1)
           IN  part \in Seq(Bit) /\ Len(part) = size /\ part \in [1 .. size -> Bit]
<1> DEFINE last == first + size - 1
           part == SubSeq(bits, first, last)
<1>1. \A i \in first .. last : bits[i] \in Bit
  OBVIOUS
<1>2. last \in Int /\ last >= first - 1 /\ first \in 1 .. Len(bits) + 1 /\ last \in first - 1 .. Len(bits)
  OBVIOUS
<1>3. /\ part \in Seq(Bit)
      /\ Len(part) = IF first <= last THEN last - first + 1 ELSE 0
  BY <1>1, <1>2, SubSeqProperties
<1>4. Len(part) = size
  BY <1>3
<1>5. part \in [1 .. size -> Bit]
  <2> HIDE DEF part
  <2> QED
    BY <1>3, <1>4
<1> QED
  BY <1>3, <1>4, <1>5

\* What the search drops, it drops from the front, and not more than to a zero.
LEMMA DiscardKeepsEnd ==
    ASSUME NEW bits \in Seq(Bit)
    PROVE  /\ AfterFirstZero(bits) \in Seq(Bit)
           /\ Len(AfterFirstZero(bits)) <= Len(bits)
           /\ \A i \in 1 .. Len(AfterFirstZero(bits)) :
                 FromEnd(AfterFirstZero(bits), i) = FromEnd(bits, i)
           /\ Len(bits) > 0 => Len(AfterFirstZero(bits)) < Len(bits)
           /\ \A z \in 1 .. Len(bits) :
                 bits[z] = 0 => Len(AfterFirstZero(bits)) >= Len(bits) - z
<1> DEFINE zeros == {i \in 1 .. Len(bits) : bits[i] = 0}
           first == CHOOSE i \in zeros : \A j \in zeros : i <= j
<1>1. CASE zeros = {}
  <2>1. AfterFirstZero(bits) = <<>>
    BY <1>1 DEF AfterFirstZero
  <2> QED BY <1>1, <2>1
<1>2. CASE zeros # {}
  <2>1. first \in zeros /\ \A j \in zeros : first <= j
    <3>1. zeros \in SUBSET Nat
      OBVIOUS
    <3>2. \E i \in zeros : \A j \in zeros : i <= j
      BY <1>2, <3>1, LeastOfNaturals
    <3> HIDE DEF zeros
    <3> QED
      BY <3>2
  <2>2. AfterFirstZero(bits) = SubSeq(bits, first + 1, Len(bits))
    BY <1>2 DEF AfterFirstZero
  <2>3. PICK d \in 1 .. Len(bits) : d = first
    BY <2>1
  <2>4. \A z \in 1 .. Len(bits) : bits[z] = 0 => d <= z
    BY <2>1, <2>3
  <2>5. PICK rest : rest = SubSeq(bits, d + 1, Len(bits))
    OBVIOUS
  <2> HIDE DEF first, zeros
  <2>6. rest \in Seq(Bit) /\ Len(rest) = Len(bits) - d
    <3>0. Len(bits) - d \in Nat
      OBVIOUS
    <3>1. PICK size \in Nat : size = Len(bits) - d
      BY <3>0
    <3>2. d + 1 \in Nat \ {0} /\ (d + 1) + size - 1 = Len(bits) /\ (d + 1) + size <= Len(bits) + 1
      BY <3>1
    <3> QED BY <2>5, <3>1, <3>2, BitsBetween
  <2>7. \A i \in 1 .. Len(rest) : rest[i] = bits[d + i]
    BY <2>5, <2>6
  <2>8. \A i \in 1 .. Len(rest) : FromEnd(rest, i) = FromEnd(bits, i)
    <3>1. SUFFICES ASSUME NEW i \in 1 .. Len(rest)
                   PROVE  rest[Len(rest) + 1 - i] = bits[Len(bits) + 1 - i]
      BY DEF FromEnd
    <3>2. PICK k \in 1 .. Len(rest) : k = Len(rest) + 1 - i
      <4>1. Len(rest) + 1 - i \in 1 .. Len(rest)
        BY <2>6
      <4> QED BY <4>1
    <3>3. d + k = Len(bits) + 1 - i
      BY <2>6, <3>2
    <3> QED BY <2>7, <3>2, <3>3
  <2>9. rest = AfterFirstZero(bits)
    BY <2>2, <2>3, <2>5
  <2> QED BY <2>4, <2>6, <2>8, <2>9
<1> QED
  BY <1>1, <1>2

\* The inductive part of the type invariant, and the bound.
BufferInv ==
    /\ bit_buffer \in Seq(Bit)
    /\ looping \in BOOLEAN
    /\ BufferBounded

\* An empty buffer has room, in the loop or out of it.
LEMMA EmptyHasRoom == <<>> \in Seq(Bit) /\ Len(<<>>) < MaxBits /\ Len(<<>>) <= MaxBits
  BY WordSizes

\* The bit buffer stays within the longest frame the length field admits, though
\* processSlowBit never checks its size.
THEOREM BitBufferBounded == OotxSpec => []BufferBounded
<1>1. OotxInit => BufferInv
  <2> SUFFICES ASSUME OotxInit PROVE BufferInv
    OBVIOUS
  <2>1. bit_buffer = <<>> /\ looping = FALSE
    BY DEF OotxInit
  <2> QED
    BY <2>1, EmptyHasRoom, Zenon DEF BufferInv, BufferBounded
<1>2. BufferInv /\ [OotxNext]_ootxVars => BufferInv'
  <2> SUFFICES ASSUME BufferInv, [OotxNext]_ootxVars
               PROVE  BufferInv'
    OBVIOUS
  <2>0. bit_buffer \in Seq(Bit) /\ looping \in BOOLEAN /\ Len(bit_buffer) <= MaxBits
    <3>1. bit_buffer \in Seq(Bit) /\ looping \in BOOLEAN
      BY DEF BufferInv
    <3>2. Len(bit_buffer) < MaxBits => Len(bit_buffer) <= MaxBits
      BY <3>1, WordSizes
    <3> QED
      BY <3>1, <3>2, Zenon DEF BufferInv, BufferBounded
  <2>1. ASSUME NEW bit \in Bit, PushBit(bit)
        PROVE  BufferInv'
    <3>1. Len(bit_buffer) < MaxBits
      BY <2>1, Zenon DEF PushBit, BufferInv, BufferBounded
    <3>2. bit_buffer' = Append(bit_buffer, bit) /\ looping' = TRUE
      BY <2>1 DEF PushBit
    <3>3. bit_buffer' \in Seq(Bit) /\ Len(bit_buffer') <= MaxBits
      BY <2>0, <3>1, <3>2, WordSizes
    <3> QED
      BY <3>2, <3>3, Zenon DEF BufferInv, BufferBounded
  <2>2. CASE Wait
    <3>1. Len(bit_buffer) # MaxBits
      BY <2>0, <2>2, FullBufferIsDecided DEF Wait
    <3>2. Len(bit_buffer) < MaxBits
      BY <2>0, <3>1, WordSizes
    <3>3. bit_buffer' = bit_buffer /\ looping' = FALSE
      BY <2>2 DEF Wait
    <3> QED
      BY <2>0, <3>2, <3>3, Zenon DEF BufferInv, BufferBounded
  <2>3. CASE Discard
    <3>1. bit_buffer' = AfterFirstZero(bit_buffer) /\ looping' = looping /\ looping
      BY <2>3, Zenon DEF Discard
    <3>2. bit_buffer' \in Seq(Bit) /\ Len(bit_buffer') <= MaxBits
      BY <2>0, <3>1, DiscardKeepsEnd, WordSizes
    <3> QED
      BY <2>0, <3>1, <3>2, Zenon DEF BufferInv, BufferBounded
  <2>4. CASE Decode
    <3>1. bit_buffer' = <<>> /\ looping' = FALSE
      BY <2>4 DEF Decode
    <3> QED
      BY <3>1, EmptyHasRoom, Zenon DEF BufferInv, BufferBounded
  <2>5. CASE DropCorrupted
    <3>1. bit_buffer' = <<>> /\ looping' = FALSE
      BY <2>5 DEF DropCorrupted
    <3> QED
      BY <3>1, EmptyHasRoom, Zenon DEF BufferInv, BufferBounded
  <2>6. CASE ResetOotx
    <3>1. bit_buffer' = <<>> /\ looping' = looping
      BY <2>6 DEF ResetOotx
    <3> QED
      BY <2>0, <3>1, EmptyHasRoom, Zenon DEF BufferInv, BufferBounded
  <2>7. CASE UNCHANGED ootxVars
    BY <2>7, Zenon DEF ootxVars, BufferInv, BufferBounded
  <2> QED
    BY <2>1, <2>2, <2>3, <2>4, <2>5, <2>6, <2>7 DEF OotxNext, Iterate
<1>3. BufferInv => BufferBounded
  BY DEF BufferInv
<1> QED
  BY <1>1, <1>2, <1>3, PTL DEF OotxSpec

----------------------------------------------------------------------------
\* What tryDecodeFrame reads lies in the buffer: every word it takes a byte of does.

\* A product is not decreased by a larger factor.
LEMMA Monotone ==
    ASSUME NEW m \in Nat, NEW n \in Nat, NEW span \in Nat, m <= n
    PROVE  m * span <= n * span
<1>1. \A a, b \in Nat : a * b \in Nat
  OBVIOUS
<1>2. (n - m) * span \in Nat
  BY <1>1
<1>3. n * span = m * span + (n - m) * span
  OBVIOUS
<1> QED
  BY <1>1, <1>2, <1>3

\* The words of a buffer that ends at a word fill it.
LEMMA WordsFill ==
    ASSUME NEW n \in Nat, NEW span \in Nat \ {0}, n % span = 0
    PROVE  n \div span \in Nat /\ (n \div span) * span = n
  OBVIOUS

\* Half of an even width, twice, is the width.
LEMMA ByteSizes == ByteBits \in Nat \ {0} /\ WordBits = 2 * ByteBits
  BY OotxAssumption DEF ByteBits

\* Each of the two bytes of a word is a byte.
LEMMA BytesOfWord ==
    ASSUME NEW bits \in Seq(Bit), NEW i \in Nat \ {0}, i * WordSpan <= Len(bits)
    PROVE  Bytes(Word(bits, i))[1] \in [1 .. ByteBits -> Bit]
           /\ Bytes(Word(bits, i))[2] \in [1 .. ByteBits -> Bit]
<1> DEFINE first == (i - 1) * WordSpan + 1
           word == SubSeq(bits, first, first + WordBits - 1)
<1>1. (i - 1) * WordSpan \in Nat /\ i * WordSpan = (i - 1) * WordSpan + WordSpan
  <2>1. \A a, b \in Nat : a * b \in Nat
    OBVIOUS
  <2>2. i - 1 \in Nat
    OBVIOUS
  <2>3. WordSpan \in Nat
    BY WordSizes
  <2>4. (i - 1) * WordSpan \in Nat
    BY <2>1, <2>2, <2>3
  <2>5. i * WordSpan = (i - 1) * WordSpan + WordSpan
    BY <2>3
  <2> QED
    BY <2>4, <2>5
<1>2. first \in Nat \ {0} /\ first + WordBits <= Len(bits) + 1
  BY <1>1, OotxAssumption DEF WordSpan
<1>3. word \in Seq(Bit) /\ Len(word) = WordBits
  <2> HIDE DEF first
  <2> QED
    BY <1>2, BitsBetween, OotxAssumption
<1>4. Word(bits, i) = word
  <2>1. (i - 1) * WordSpan + WordBits = first + WordBits - 1
    BY <1>1, OotxAssumption
  <2> QED
    BY <2>1 DEF Word
<1> HIDE DEF word, first
<1>5. SubSeq(word, 1, ByteBits) \in [1 .. ByteBits -> Bit]
  <2>1. 1 + ByteBits - 1 = ByteBits /\ 1 + ByteBits <= Len(word) + 1
    BY <1>3, ByteSizes
  <2>2. SubSeq(word, 1, 1 + ByteBits - 1) \in [1 .. ByteBits -> Bit]
    <3>1. 1 \in Nat \ {0} /\ ByteBits \in Nat
      BY ByteSizes
    <3> QED
      BY <1>3, <2>1, <3>1, BitsBetween
  <2> QED
    BY <2>1, <2>2
<1>6. SubSeq(word, ByteBits + 1, WordBits) \in [1 .. ByteBits -> Bit]
  <2>1. /\ (ByteBits + 1) + ByteBits - 1 = WordBits
        /\ (ByteBits + 1) + ByteBits <= Len(word) + 1
        /\ ByteBits + 1 \in Nat \ {0}
    BY <1>3, ByteSizes
  <2>2. SubSeq(word, ByteBits + 1, (ByteBits + 1) + ByteBits - 1) \in [1 .. ByteBits -> Bit]
    BY <1>3, <2>1, ByteSizes, BitsBetween
  <2> QED
    BY <2>1, <2>2
<1> QED
  BY <1>4, <1>5, <1>6 DEF Bytes

\* A frame that is decoded gives a payload of bytes that is not too long.
LEMMA DecodedPayload ==
    ASSUME NEW bits \in Seq(Bit), DecodeResult(bits) = "Decoded"
    PROVE  /\ Payload(bits) \in Seq([1 .. ByteBits -> Bit])
           /\ Len(Payload(bits)) <= kOOTXMaxPayloadLength
<1> DEFINE length == PayloadLength(bits)
<1>1. Readable(bits) /\ LooksLikeFrame(bits) /\ ~ (WordCount(bits) < ExpectedWords(length))
  BY DEF DecodeResult
<1>2. length \in Nat /\ length <= kOOTXMaxPayloadLength
  BY <1>1, OotxAssumption DEF LooksLikeFrame
<1> HIDE DEF length
<1>3. WordCount(bits) \in Nat /\ WordCount(bits) * WordSpan = Len(bits)
  <2>1. Len(bits) \in Nat /\ WordSpan \in Nat \ {0} /\ Len(bits) % WordSpan = 0
    BY <1>1, WordSizes DEF Readable
  <2> QED
    BY <2>1, WordsFill DEF WordCount
<1>4. ExpectedWords(length) <= WordCount(bits)
  <2>1. ExpectedWords(length) \in Int
    BY <1>2 DEF ExpectedWords
  <2> QED
    BY <1>1, <1>3, <2>1
<1>5. ASSUME NEW i \in 1 .. length
      PROVE  Bytes(Word(bits, 2 + (i + 1) \div 2))[IF i % 2 = 1 THEN 1 ELSE 2]
                 \in [1 .. ByteBits -> Bit]
  <2> DEFINE word == 2 + (i + 1) \div 2
  <2>1. word \in Nat \ {0} /\ word <= ExpectedWords(length)
    BY <1>2 DEF ExpectedWords
  <2> HIDE DEF word
  <2>2. word <= WordCount(bits)
    <3>1. ExpectedWords(length) \in Int
      BY <1>2 DEF ExpectedWords
    <3> QED
      BY <1>3, <1>4, <2>1, <3>1
  <2>3. word * WordSpan <= Len(bits)
    BY <1>3, <2>1, <2>2, Monotone, WordSizes
  <2>4. /\ Bytes(Word(bits, word))[1] \in [1 .. ByteBits -> Bit]
        /\ Bytes(Word(bits, word))[2] \in [1 .. ByteBits -> Bit]
    BY <2>1, <2>3, BytesOfWord
  <2> QED
    BY <2>4 DEF word
<1>6. Payload(bits) = [i \in 1 .. length |->
                          Bytes(Word(bits, 2 + (i + 1) \div 2))[IF i % 2 = 1 THEN 1 ELSE 2]]
  BY DEF Payload, length
<1>7. Payload(bits) \in [1 .. length -> [1 .. ByteBits -> Bit]]
  BY <1>5, <1>6
<1> QED
  BY <1>2, <1>7

\* The decoder keeps bits and a payload of whole bytes, none of them read from beyond
\* the buffer (tryDecodeFrame, ootx_frame_decoder.cpp:75-179).
THEOREM OotxTypeCorrect == OotxSpec => []OotxTypeOK
<1>1. OotxInit => OotxTypeOK
  <2> SUFFICES ASSUME OotxInit PROVE OotxTypeOK
    OBVIOUS
  <2>1. bit_buffer = <<>> /\ latest_payload = <<>> /\ has_decoded_frame = FALSE /\ looping = FALSE
    BY DEF OotxInit
  <2>2. bit_buffer \in Seq(Bit) /\ latest_payload \in Seq([1 .. ByteBits -> Bit])
    BY <2>1
  <2>3. Len(latest_payload) <= kOOTXMaxPayloadLength
    BY <2>1, OotxAssumption
  <2>4. has_decoded_frame \in BOOLEAN /\ looping \in BOOLEAN
    BY <2>1
  <2> QED
    BY <2>2, <2>3, <2>4, Zenon DEF OotxTypeOK
<1>2. OotxTypeOK /\ [OotxNext]_ootxVars => OotxTypeOK'
  <2> SUFFICES ASSUME OotxTypeOK, [OotxNext]_ootxVars
               PROVE  OotxTypeOK'
    OBVIOUS
  <2> USE DEF OotxTypeOK
  <2>1. ASSUME NEW bit \in Bit, PushBit(bit)
        PROVE  OotxTypeOK'
    BY <2>1 DEF PushBit
  <2>2. CASE Wait
    BY <2>2, Zenon DEF Wait
  <2>3. CASE Discard
    BY <2>3, DiscardKeepsEnd, Zenon DEF Discard
  <2>4. CASE Decode
    <3>1. bit_buffer \in Seq(Bit) /\ DecodeResult(bit_buffer) = "Decoded"
      BY <2>4, Zenon DEF Decode
    <3>2. /\ latest_payload' \in Seq([1 .. ByteBits -> Bit])
          /\ Len(latest_payload') <= kOOTXMaxPayloadLength
      BY <2>4, <3>1, DecodedPayload, Zenon DEF Decode
    <3>3. bit_buffer' \in Seq(Bit) /\ has_decoded_frame' \in BOOLEAN /\ looping' \in BOOLEAN
      BY <2>4, EmptyHasRoom, Zenon DEF Decode
    <3> QED
      BY <3>2, <3>3, Zenon
  <2>5. CASE DropCorrupted
    BY <2>5, EmptyHasRoom, Zenon DEF DropCorrupted
  <2>6. CASE ResetOotx
    <3>1. bit_buffer' = <<>> /\ latest_payload' = <<>> /\ has_decoded_frame' = FALSE
      BY <2>6 DEF ResetOotx
    <3>2. bit_buffer' \in Seq(Bit) /\ latest_payload' \in Seq([1 .. ByteBits -> Bit])
      BY <3>1
    <3>3. Len(latest_payload') <= kOOTXMaxPayloadLength
      BY <3>1, OotxAssumption
    <3>4. has_decoded_frame' \in BOOLEAN /\ looping' \in BOOLEAN
      BY <3>1, <2>6 DEF ResetOotx
    <3> QED
      BY <3>2, <3>3, <3>4, Zenon
  <2>7. CASE UNCHANGED ootxVars
    BY <2>7, Zenon DEF ootxVars
  <2> QED
    BY <2>1, <2>2, <2>3, <2>4, <2>5, <2>6, <2>7 DEF OotxNext, Iterate
<1> QED
  BY <1>1, <1>2, PTL DEF OotxSpec

----------------------------------------------------------------------------
\* The bits of a frame behind its first zero.
FrameSpan(payload) == ExpectedWords(Len(payload)) * WordSpan

\* The sizes of a payload of the station.
LEMMA PayloadSizes ==
    ASSUME NEW payload \in Payloads
    PROVE  /\ payload \in Seq(ByteValue)
           /\ Len(payload) \in 0 .. kOOTXMaxPayloadLength
           /\ (Len(payload) + 1) \div 2 \in Nat
           /\ ExpectedWords(Len(payload)) = (Len(payload) + 1) \div 2 + 4
           /\ ExpectedWords(Len(payload)) \in Nat
           /\ FrameSpan(payload) \in Nat
<1>1. payload \in Seq(ByteValue) /\ Len(payload) <= kOOTXMaxPayloadLength
  BY LinkAssumption
<1>2. Len(payload) \in Nat
  BY <1>1
<1>3. /\ (Len(payload) + 1) \div 2 \in Nat
      /\ ExpectedWords(Len(payload)) = (Len(payload) + 1) \div 2 + 4
      /\ ExpectedWords(Len(payload)) \in Nat
  BY <1>2 DEF ExpectedWords
<1>4. \A m, n \in Nat : m * n \in Nat
  OBVIOUS
<1>5. FrameSpan(payload) \in Nat
  BY <1>3, <1>4, WordSizes DEF FrameSpan
<1> QED
  BY <1>1, <1>2, <1>3, <1>5, OotxAssumption

\* Two bytes make a word, and it is taken apart into them.
LEMMA WordOfBytes ==
    ASSUME NEW high \in ByteValue, NEW low \in ByteValue
    PROVE  /\ high \o low \in WordValue
           /\ Bytes(high \o low)[1] = high
           /\ Bytes(high \o low)[2] = low
<1>1. high \in Seq(Bit) /\ Len(high) = ByteBits /\ low \in Seq(Bit) /\ Len(low) = ByteBits
  BY ByteSizes DEF ByteValue
<1>2. PICK word : word = high \o low
  OBVIOUS
<1>3. /\ word \in Seq(Bit)
      /\ Len(word) = WordBits
      /\ \A i \in 1 .. ByteBits : word[i] = high[i] /\ word[ByteBits + i] = low[i]
  <2>1. word \in Seq(Bit) /\ Len(word) = ByteBits + ByteBits
    BY <1>1, <1>2, ConcatProperties, ZenonT(30)
  <2>2. \A i \in 1 .. ByteBits + ByteBits :
           word[i] = IF i <= ByteBits THEN high[i] ELSE low[i - ByteBits]
    BY <1>1, <1>2, ByteSizes
  <2> QED
    BY <2>1, <2>2, ByteSizes
<1>4. word \in WordValue
  BY <1>3 DEF WordValue
<1>5. SubSeq(word, 1, ByteBits) = high
  BY <1>1, <1>3, ByteSizes DEF ByteValue
<1>6. SubSeq(word, ByteBits + 1, WordBits) = low
  <2>1. PICK part : part = SubSeq(word, ByteBits + 1, WordBits)
    OBVIOUS
  <2>2. part \in Seq(Bit) /\ Len(part) = ByteBits
    <3>1. /\ (ByteBits + 1) + ByteBits - 1 = WordBits
          /\ (ByteBits + 1) + ByteBits <= Len(word) + 1
          /\ ByteBits + 1 \in Nat \ {0}
      BY <1>3, ByteSizes
    <3> QED
      BY <1>3, <2>1, <3>1, ByteSizes, BitsBetween
  <2>3. \A i \in 1 .. ByteBits : part[i] = word[ByteBits + i]
    <3>1. Len(word) = WordBits /\ WordBits \in Nat /\ ByteBits \in Nat
      BY <1>3, ByteSizes
    <3>2. WordBits - (ByteBits + 1) + 1 = ByteBits
      BY ByteSizes
    <3>3. \A i \in 1 .. ByteBits : part[i] = word[(ByteBits + 1) + i - 1]
      BY <2>1, <3>1, <3>2
    <3> QED
      BY <3>1, <3>3
  <2>4. \A i \in 1 .. ByteBits : part[i] = low[i]
    BY <2>3, <1>3
  <2> QED
    BY <2>1, <2>2, <2>4, <1>1, ByteSizes DEF ByteValue
<1> QED
  BY <1>2, <1>4, <1>5, <1>6 DEF Bytes

\* Every word of the payload is made of its bytes.
LEMMA PayloadWordsOf ==
    ASSUME NEW payload \in Payloads, NEW i \in 1 .. (Len(payload) + 1) \div 2
    PROVE  /\ PayloadWords(payload)[i] \in WordValue
           /\ Bytes(PayloadWords(payload)[i])[1] = payload[2 * i - 1]
           /\ 2 * i <= Len(payload) => Bytes(PayloadWords(payload)[i])[2] = payload[2 * i]
<1> DEFINE low == IF 2 * i <= Len(payload) THEN payload[2 * i] ELSE Zeros(ByteBits)
<1>1. payload[2 * i - 1] \in ByteValue
  <2>1. 2 * i - 1 \in 1 .. Len(payload)
    BY PayloadSizes
  <2> QED BY <2>1, PayloadSizes
<1>2. low \in ByteValue
  <2>1. CASE 2 * i <= Len(payload)
    <3>1. 2 * i \in 1 .. Len(payload)
      BY <2>1, PayloadSizes
    <3> QED BY <2>1, <3>1, PayloadSizes
  <2>2. CASE ~ (2 * i <= Len(payload))
    BY <2>2 DEF Zeros, ByteValue, Bit
  <2> QED BY <2>1, <2>2
<1>3. PayloadWords(payload)[i] = payload[2 * i - 1] \o low
  BY DEF PayloadWords
<1> HIDE DEF low
<1>4. /\ PayloadWords(payload)[i] \in WordValue
      /\ Bytes(PayloadWords(payload)[i])[1] = payload[2 * i - 1]
      /\ Bytes(PayloadWords(payload)[i])[2] = low
  BY <1>1, <1>2, <1>3, WordOfBytes
<1> QED BY <1>4 DEF low

\* The length's word holds the length.
LEMMA LengthWordOf ==
    ASSUME NEW payload \in Payloads
    PROVE  /\ LengthWord(Len(payload)) \in WordValue
           /\ LittleEndian(LengthWord(Len(payload))) = Len(payload)
<1>1. \E word \in WordValue : LittleEndian(word) = Len(payload)
  BY LinkAssumption
<1> QED BY <1>1, Zenon DEF LengthWord

\* The words of a frame.
LEMMA FrameWordsOf ==
    ASSUME NEW payload \in Payloads,
           NEW size, size = (Len(payload) + 1) \div 2
    PROVE  /\ FrameWords(payload) \in Seq(WordValue)
           /\ Len(FrameWords(payload)) = size + 4
           /\ FrameWords(payload)[1] = Zeros(WordBits)
           /\ FrameWords(payload)[2] = LengthWord(Len(payload))
           /\ \A i \in 1 .. size : FrameWords(payload)[2 + i] = PayloadWords(payload)[i]
           /\ FrameWords(payload)[size + 3] = Crc(payload)[1]
           /\ FrameWords(payload)[size + 4] = Crc(payload)[2]
<1>1. size \in Nat
  BY PayloadSizes
<1>2. PICK first, second : Crc(payload) = <<first, second>> /\ first \in WordValue /\ second \in WordValue
  <2>1. Crc(payload) \in WordValue \X WordValue
    BY LinkAssumption
  <2> QED BY <2>1
<1>3. PICK zeros : zeros = Zeros(WordBits)
  OBVIOUS
<1>4. PICK length : length = LengthWord(Len(payload))
  OBVIOUS
<1>5. PICK words : words = PayloadWords(payload)
  OBVIOUS
<1>6. words \in Seq(WordValue) /\ Len(words) = size
  <2>1. \A i \in 1 .. size : words[i] \in WordValue
    BY <1>5, PayloadWordsOf
  <2>2. words = [i \in 1 .. size |-> words[i]]
    BY <1>5 DEF PayloadWords
  <2> QED BY <1>1, <2>1, <2>2
<1>7. zeros \in WordValue /\ length \in WordValue
  <2>1. zeros \in WordValue
    BY <1>3 DEF Zeros, WordValue, Bit
  <2> QED BY <2>1, <1>4, LengthWordOf
<1>8. FrameWords(payload) = <<zeros, length>> \o words \o <<first, second>>
  BY <1>2, <1>3, <1>4, <1>5, Zenon DEF FrameWords
<1>9. PICK front : front = <<zeros, length>> \o words
  OBVIOUS
<1>10. /\ front \in Seq(WordValue)
       /\ Len(front) = size + 2
       /\ front[1] = zeros
       /\ front[2] = length
       /\ \A i \in 1 .. size : front[2 + i] = words[i]
  BY <1>1, <1>6, <1>7, <1>9
<1>11. PICK all : all = front \o <<first, second>>
  OBVIOUS
<1>12. /\ all \in Seq(WordValue)
       /\ Len(all) = size + 4
       /\ \A i \in 1 .. size + 2 : all[i] = front[i]
       /\ all[size + 3] = first
       /\ all[size + 4] = second
  BY <1>1, <1>2, <1>10, <1>11
<1>13. FrameWords(payload) = all
  BY <1>8, <1>9, <1>11
<1>14. /\ all[1] = zeros
       /\ all[2] = length
       /\ \A i \in 1 .. size : all[2 + i] = words[i]
  BY <1>1, <1>10, <1>12
<1>15. Crc(payload)[1] = first /\ Crc(payload)[2] = second
  BY <1>2
<1> QED BY <1>3, <1>4, <1>5, <1>12, <1>13, <1>14, <1>15, Zenon

\* Quotient and remainder of a position within a row of spans.
LEMMA PositionInSpans ==
    ASSUME NEW n \in Nat, NEW span \in Nat \ {0}, NEW j \in 0 .. span - 1
    PROVE  (n * span + j) % span = j /\ (n * span + j) \div span = n
<1>1. n * span \in Nat
  OBVIOUS
<1>2. PICK base \in Nat : base = n * span
  BY <1>1
<1>3. n * span + j = span * n + j
  OBVIOUS
<1> QED
  BY <1>1, <1>3

\* Every position lies in a span.
LEMMA SpanOfPosition ==
    ASSUME NEW at \in Nat, NEW span \in Nat \ {0}
    PROVE  \E n \in Nat, j \in 0 .. span - 1 :
               at \div span = n /\ at % span = j /\ at = n * span + j
<1>1. PICK n \in Nat : n = at \div span
  OBVIOUS
<1>2. n * span <= at /\ at < n * span + span
  BY <1>1
<1>3. PICK j \in 0 .. span - 1 : at = n * span + j
  BY <1>2
<1>4. at % span = j
  BY <1>3, PositionInSpans
<1> QED
  BY <1>1, <1>3, <1>4

\* The bits of a frame: its first WordSpan are zeros, then come the bits of its words,
\* and a one behind each of them.
LEMMA FrameShape ==
    ASSUME NEW payload \in Payloads
    PROVE  /\ LineFrame[payload] \in Seq(Bit)
           /\ Len(LineFrame[payload]) = FrameSpan(payload) + 1
           /\ LineFrame[payload][1] = 0
           /\ \A i \in 1 .. ExpectedWords(Len(payload)) : \A j \in 1 .. WordBits :
                 LineFrame[payload][((i - 1) * WordSpan + j) + 1] = FrameWords(payload)[i][j]
           /\ \A i \in 1 .. ExpectedWords(Len(payload)) :
                 LineFrame[payload][i * WordSpan + 1] = 1
<1> DEFINE last == FrameSpan(payload) + 1
           Line(i) == IF i = 1 THEN 0
                      ELSE IF (i - 1) % WordSpan = 0 THEN 1
                      ELSE FrameWords(payload)[((i - 2) \div WordSpan) + 1]
                                              [((i - 2) % WordSpan) + 1]
<1> DEFINE count == ExpectedWords(Len(payload))
<1>0. WordBits \in Nat \ {0} /\ WordSpan = WordBits + 1
  BY OotxAssumption DEF WordSpan
<1>1. /\ FrameWords(payload) \in Seq(WordValue)
      /\ Len(FrameWords(payload)) = count
      /\ count \in Nat
  BY PayloadSizes, FrameWordsOf
<1>2. LineFrame[payload] = [i \in 1 .. last |-> Line(i)]
  <2>1. WordSpan * Len(FrameWords(payload)) + 1 = last
    BY <1>0, <1>1 DEF FrameSpan
  <2> QED BY <2>1 DEF LineFrame, FrameBits
<1>3. /\ FrameSpan(payload) \in Nat
      /\ FrameSpan(payload) = count * WordSpan
      /\ last \in Nat \ {0}
  BY PayloadSizes DEF FrameSpan
<1> HIDE DEF last
<1>4. ASSUME NEW i \in 1 .. count
      PROVE  /\ i - 1 \in Nat
             /\ (i - 1) * WordSpan \in Nat
             /\ i * WordSpan = (i - 1) * WordSpan + WordSpan
             /\ i * WordSpan <= FrameSpan(payload)
  <2>0. i - 1 \in Nat /\ i \in Nat /\ i <= count
    BY <1>1
  <2>1. \A a, b \in Nat : a * b \in Nat
    OBVIOUS
  <2>2. (i - 1) * WordSpan \in Nat
    BY <2>0, <2>1, <1>0
  <2>3. i * WordSpan = (i - 1) * WordSpan + WordSpan
    BY <1>0, <2>0
  <2>4. i * WordSpan <= count * WordSpan
    BY <2>0, <1>0, <1>1, Monotone
  <2> QED BY <2>0, <2>2, <2>3, <2>4, <1>3
<1>5. ASSUME NEW i \in 1 .. count, NEW j \in 1 .. WordBits
      PROVE  /\ ((i - 1) * WordSpan + j) + 1 \in 1 .. last
             /\ Line(((i - 1) * WordSpan + j) + 1) = FrameWords(payload)[i][j]
  <2>1. PICK base \in Nat : base = (i - 1) * WordSpan
    BY <1>4
  <2>2. base + WordSpan <= FrameSpan(payload)
    BY <1>4, <2>1
  <2>3. j \in 0 .. WordSpan - 1 /\ j - 1 \in 0 .. WordSpan - 1
    BY <1>0
  <2>4. (base + j) % WordSpan = j
    <3>1. PICK n \in Nat : n = i - 1
      BY <1>4
    <3>2. WordSpan \in Nat \ {0}
      BY <1>0
    <3>3. (n * WordSpan + j) % WordSpan = j
      BY <3>2, <2>3, PositionInSpans
    <3> QED BY <3>1, <3>3, <2>1
  <2>5. (base + (j - 1)) % WordSpan = j - 1 /\ (base + (j - 1)) \div WordSpan = i - 1
    <3>1. PICK n \in Nat, k \in 0 .. WordSpan - 1 : n = i - 1 /\ k = j - 1
      BY <1>4, <2>3
    <3>2. WordSpan \in Nat \ {0}
      BY <1>0
    <3>3. (n * WordSpan + k) % WordSpan = k /\ (n * WordSpan + k) \div WordSpan = n
      BY <3>2, PositionInSpans
    <3> QED BY <3>1, <3>3, <2>1
  <2>6. /\ (base + j) + 1 \in 1 .. last
        /\ ((base + j) + 1) # 1
        /\ ((base + j) + 1) - 1 = base + j
        /\ ((base + j) + 1) - 2 = base + (j - 1)
    BY <2>2, <1>0, <1>3 DEF last
  <2>7. Line((base + j) + 1) = FrameWords(payload)[(i - 1) + 1][(j - 1) + 1]
    BY <2>4, <2>5, <2>6
  <2> HIDE DEF Line
  <2> QED BY <2>1, <2>6, <2>7
<1>6. ASSUME NEW i \in 1 .. count
      PROVE  i * WordSpan + 1 \in 1 .. last /\ Line(i * WordSpan + 1) = 1
  <2>1. PICK base \in Nat : base = i * WordSpan
    BY <1>0, <1>4
  <2>2. base % WordSpan = 0 /\ base >= 1 /\ base + 1 \in 1 .. last
    <3>1. base % WordSpan = 0
      BY <2>1, <1>0, WholeWords
    <3> QED BY <2>1, <3>1, <1>0, <1>3, <1>4 DEF last
  <2>3. base + 1 # 1 /\ (base + 1) - 1 = base
    BY <2>2
  <2>4. Line(base + 1) = 1
    BY <2>2, <2>3
  <2> HIDE DEF Line
  <2> QED BY <2>1, <2>2, <2>4
<1>7. ASSUME NEW i \in 1 .. last
      PROVE  Line(i) \in Bit
  <2>1. CASE i = 1
    BY <2>1 DEF Bit
  <2>2. CASE i # 1 /\ (i - 1) % WordSpan = 0
    BY <2>2 DEF Bit
  <2>3. CASE i # 1 /\ (i - 1) % WordSpan # 0
    <3>1. PICK at \in Nat : at = i - 2
      BY <2>3
    <3>2. PICK quotient \in Nat, rest \in 0 .. WordSpan - 1 :
             /\ at \div WordSpan = quotient
             /\ at % WordSpan = rest
             /\ at = quotient * WordSpan + rest
      BY <1>0, SpanOfPosition
    <3>3. quotient = at \div WordSpan /\ rest = at % WordSpan
      BY <3>2
    <3>4. at = quotient * WordSpan + rest
      BY <3>2
    <3>5. rest # WordBits
      <4>1. SUFFICES ASSUME rest = WordBits PROVE FALSE
        OBVIOUS
      <4>2. i - 1 = (quotient + 1) * WordSpan
        <5>1. (quotient + 1) * WordSpan = quotient * WordSpan + WordSpan
          BY <1>0
        <5> QED BY <5>1, <3>1, <3>4, <4>1, <1>0
      <4>3. (i - 1) % WordSpan = 0
        BY <4>2, <1>0, WholeWords
      <4> QED BY <2>3, <4>3
    <3>6. quotient + 1 \in 1 .. count
      <4>1. SUFFICES ASSUME quotient >= count PROVE FALSE
        BY <1>1
      <4>2. count * WordSpan <= quotient * WordSpan
        BY <4>1, <1>0, <1>1, Monotone
      <4>3. at + 1 <= FrameSpan(payload)
        BY <3>1, <1>3 DEF last
      <4>4. PICK product \in Int : product = quotient * WordSpan
        BY <1>0
      <4> QED BY <4>2, <4>3, <4>4, <3>4, <1>0, <1>3
    <3>7. rest + 1 \in 1 .. WordBits
      BY <3>5, <1>0
    <3>8. FrameWords(payload)[quotient + 1] \in WordValue
      BY <3>6, <1>1
    <3>9. FrameWords(payload)[quotient + 1][rest + 1] \in Bit
      BY <3>7, <3>8 DEF WordValue
    <3>10. Line(i) = FrameWords(payload)[quotient + 1][rest + 1]
      BY <2>3, <3>1, <3>3, Zenon
    <3> HIDE DEF Line
    <3> QED BY <3>9, <3>10
  <2> HIDE DEF Line
  <2> QED BY <2>1, <2>2, <2>3
<1>8. Line(1) = 0 /\ 1 \in 1 .. last
  BY <1>3
<1> HIDE DEF Line
<1>9. LineFrame[payload] \in Seq(Bit) /\ Len(LineFrame[payload]) = last
  BY <1>2, <1>3, <1>7
<1>10. \A i \in 1 .. last : LineFrame[payload][i] = Line(i)
  BY <1>2
<1> QED
  BY <1>5, <1>6, <1>8, <1>9, <1>10 DEF last

\* The first span of a frame is all zeros.
LEMMA FrameStartsWithZeros ==
    ASSUME NEW payload \in Payloads, NEW j \in 1 .. WordSpan
    PROVE  LineFrame[payload][j] = 0
<1>0. WordBits \in Nat \ {0} /\ WordSpan = WordBits + 1
  BY OotxAssumption DEF WordSpan
<1>1. CASE j = 1
  BY <1>1, FrameShape
<1>2. CASE j # 1
  <2>1. PICK k \in 1 .. WordBits : j = k + 1
    <3>1. j - 1 \in 1 .. WordBits /\ j = (j - 1) + 1
      BY <1>0, <1>2
    <3> QED BY <3>1
  <2>2. 1 \in 1 .. ExpectedWords(Len(payload))
    BY PayloadSizes
  <2>3. ((1 - 1) * WordSpan + k) + 1 = j
    BY <2>1, <1>0
  <2>4. LineFrame[payload][((1 - 1) * WordSpan + k) + 1] = FrameWords(payload)[1][k]
    BY <2>2, FrameShape
  <2>5. FrameWords(payload)[1][k] = 0
    BY FrameWordsOf DEF Zeros
  <2> QED BY <2>3, <2>4, <2>5
<1> QED BY <1>1, <1>2

----------------------------------------------------------------------------
\* The buffer holds bits of the frame from the second one on.
HoldsFrame(bits, payload) == \A m \in 1 .. Len(bits) : bits[m] = LineFrame[payload][m + 1]

\* Its words are then those of the frame.
LEMMA AlignedWord ==
    ASSUME NEW payload \in Payloads, NEW bits \in Seq(Bit), HoldsFrame(bits, payload),
           NEW i \in 1 .. ExpectedWords(Len(payload)), i * WordSpan <= Len(bits)
    PROVE  Word(bits, i) = FrameWords(payload)[i] /\ bits[i * WordSpan] = 1
<1>0. WordBits \in Nat \ {0} /\ WordSpan = WordBits + 1
  BY OotxAssumption DEF WordSpan
<1>1. PICK base \in Nat : base = (i - 1) * WordSpan
  <2>1. \A a, b \in Nat : a * b \in Nat
    OBVIOUS
  <2>2. i - 1 \in Nat /\ WordSpan \in Nat
    BY <1>0, PayloadSizes
  <2> QED BY <2>1, <2>2
<1>2. i * WordSpan = base + WordSpan
  BY <1>0, <1>1, PayloadSizes
<1>3. base + WordSpan <= Len(bits)
  BY <1>2
<1>4. PICK word : word = SubSeq(bits, base + 1, base + WordBits)
  OBVIOUS
<1>5. Word(bits, i) = word
  BY <1>1, <1>4 DEF Word
<1>6. word \in [1 .. WordBits -> Bit] /\ \A m \in 1 .. WordBits : word[m] = bits[base + m]
  <2>1. base + 1 \in Nat \ {0} /\ (base + 1) + WordBits - 1 = base + WordBits
        /\ (base + 1) + WordBits <= Len(bits) + 1 /\ WordBits \in Nat
    BY <1>0, <1>3
  <2>2. word \in [1 .. WordBits -> Bit]
    BY <1>4, <2>1, BitsBetween
  <2>3. \A m \in 1 .. WordBits : word[m] = bits[base + m]
    BY <1>0, <1>3, <1>4
  <2> QED BY <2>2, <2>3
<1>7. \A m \in 1 .. WordBits : word[m] = FrameWords(payload)[i][m]
  <2>1. SUFFICES ASSUME NEW m \in 1 .. WordBits
                 PROVE  word[m] = FrameWords(payload)[i][m]
    OBVIOUS
  <2>2. base + m \in 1 .. Len(bits)
    BY <1>0, <1>3
  <2>3. bits[base + m] = LineFrame[payload][(base + m) + 1]
    BY <2>2 DEF HoldsFrame
  <2>4. LineFrame[payload][(base + m) + 1] = FrameWords(payload)[i][m]
    BY <1>1, FrameShape
  <2> QED BY <1>6, <2>3, <2>4
<1>8. FrameWords(payload)[i] \in [1 .. WordBits -> Bit]
  <2>1. i \in 1 .. Len(FrameWords(payload)) /\ FrameWords(payload) \in Seq(WordValue)
    BY PayloadSizes, FrameWordsOf
  <2> QED BY <2>1 DEF WordValue
<1>9. word = FrameWords(payload)[i]
  <2>1. PICK other : other = FrameWords(payload)[i]
    OBVIOUS
  <2>2. other \in [1 .. WordBits -> Bit] /\ \A m \in 1 .. WordBits : word[m] = other[m]
    BY <2>1, <1>7, <1>8
  <2>3. other = [m \in 1 .. WordBits |-> other[m]]
    BY <2>2
  <2>4. word = [m \in 1 .. WordBits |-> word[m]]
    BY <1>6
  <2>5. word = other
    BY <2>2, <2>3, <2>4, Zenon
  <2> QED BY <2>1, <2>5
<1>10. bits[i * WordSpan] = 1
  <2>1. i * WordSpan \in 1 .. Len(bits)
    BY <1>0, <1>2, <1>3
  <2>2. bits[i * WordSpan] = LineFrame[payload][i * WordSpan + 1]
    BY <2>1 DEF HoldsFrame
  <2> QED BY <2>2, FrameShape
<1> QED BY <1>5, <1>9, <1>10

\* A part of a frame that ends at a word, two words or more of it, looks like a frame of
\* that length.
LEMMA FrameLooksLikeOne ==
    ASSUME NEW payload \in Payloads, NEW bits \in Seq(Bit), HoldsFrame(bits, payload),
           NEW count \in 2 .. ExpectedWords(Len(payload)), Len(bits) = count * WordSpan
    PROVE  /\ WordCount(bits) = count
           /\ Readable(bits)
           /\ LooksLikeFrame(bits)
           /\ PayloadLength(bits) = Len(payload)
<1>0. WordBits \in Nat \ {0} /\ WordSpan = WordBits + 1
  BY OotxAssumption DEF WordSpan
<1>1. ExpectedWords(Len(payload)) \in Nat /\ count \in Nat /\ WordSpan \in Nat \ {0}
  BY PayloadSizes, WordSizes
<1>2. Len(bits) % WordSpan = 0 /\ WordCount(bits) = count
  BY <1>1, WholeWords DEF WordCount
<1>3. Readable(bits)
  BY <1>2 DEF Readable
<1>4. \A i \in 1 .. count :
         i \in 1 .. ExpectedWords(Len(payload)) /\ i * WordSpan <= Len(bits)
  <2>1. SUFFICES ASSUME NEW i \in 1 .. count
                 PROVE  i \in 1 .. ExpectedWords(Len(payload)) /\ i * WordSpan <= Len(bits)
    OBVIOUS
  <2>2. i * WordSpan <= count * WordSpan
    BY <1>1, Monotone
  <2> QED BY <1>1, <2>2
<1>5. \A i \in 1 .. count : Word(bits, i) = FrameWords(payload)[i] /\ bits[i * WordSpan] = 1
  BY <1>4, AlignedWord
<1>6. PayloadLength(bits) = Len(payload)
  <2>1. Word(bits, 2) = FrameWords(payload)[2]
    BY <1>1, <1>5
  <2>2. FrameWords(payload)[2] = LengthWord(Len(payload))
    BY FrameWordsOf
  <2> QED BY <2>1, <2>2, LengthWordOf DEF PayloadLength
<1>7. \A i \in 1 .. WordBits : bits[i] = 0
  <2>1. SUFFICES ASSUME NEW i \in 1 .. WordBits PROVE bits[i] = 0
    OBVIOUS
  <2>2. 1 * WordSpan <= Len(bits)
    BY <1>1, <1>4
  <2>3. i \in 1 .. Len(bits) /\ i + 1 \in 1 .. WordSpan
    BY <1>0, <2>2
  <2>4. bits[i] = LineFrame[payload][i + 1]
    BY <2>3 DEF HoldsFrame
  <2> QED BY <2>3, <2>4, FrameStartsWithZeros
<1>8. LooksLikeFrame(bits)
  BY <1>2, <1>5, <1>6, <1>7, PayloadSizes DEF LooksLikeFrame
<1> QED BY <1>2, <1>3, <1>6, <1>8

\* The decoder waits for the rest of a frame it has found.
LEMMA FrameIsAwaited ==
    ASSUME NEW payload \in Payloads, NEW bits \in Seq(Bit), HoldsFrame(bits, payload),
           Len(bits) < FrameSpan(payload)
    PROVE  DecodeResult(bits) = "Incomplete"
<1>1. CASE ~ Readable(bits)
  BY <1>1 DEF DecodeResult
<1>2. CASE Readable(bits)
  <2>1. PICK count \in Nat : count = WordCount(bits) /\ Len(bits) = count * WordSpan
    <3>1. Len(bits) \in Nat /\ WordSpan \in Nat \ {0} /\ Len(bits) % WordSpan = 0
      BY <1>2, WordSizes DEF Readable
    <3> QED BY <3>1, WordsFill DEF WordCount
  <2>2. count >= 2
    BY <1>2, <2>1 DEF Readable
  <2>3. count < ExpectedWords(Len(payload))
    <3>1. SUFFICES ASSUME ExpectedWords(Len(payload)) <= count PROVE FALSE
      BY PayloadSizes
    <3>2. ExpectedWords(Len(payload)) * WordSpan <= count * WordSpan
      BY <3>1, PayloadSizes, WordSizes, Monotone
    <3> QED BY <2>1, <3>2, PayloadSizes DEF FrameSpan
  <2>4. count \in 2 .. ExpectedWords(Len(payload))
    BY <2>2, <2>3, PayloadSizes
  <2>5. LooksLikeFrame(bits) /\ PayloadLength(bits) = Len(payload)
    BY <2>1, <2>4, FrameLooksLikeOne
  <2> QED BY <1>2, <2>1, <2>3, <2>5 DEF DecodeResult
<1> QED BY <1>1, <1>2

\* A whole frame is decoded, and gives its payload.
LEMMA FrameIsDecoded ==
    ASSUME NEW payload \in Payloads, NEW bits \in Seq(Bit), HoldsFrame(bits, payload),
           Len(bits) = FrameSpan(payload)
    PROVE  DecodeResult(bits) = "Decoded" /\ Payload(bits) = payload
<1> DEFINE count == ExpectedWords(Len(payload))
           size == (Len(payload) + 1) \div 2
<1>1. size \in Nat /\ count = size + 4 /\ count \in Nat /\ count \in 2 .. count
  BY PayloadSizes
<1>2. Len(bits) = count * WordSpan
  BY DEF FrameSpan
<1>3. /\ WordCount(bits) = count
      /\ Readable(bits)
      /\ LooksLikeFrame(bits)
      /\ PayloadLength(bits) = Len(payload)
  BY <1>1, <1>2, FrameLooksLikeOne
<1>4. \A i \in 1 .. count : Word(bits, i) = FrameWords(payload)[i]
  <2>1. SUFFICES ASSUME NEW i \in 1 .. count PROVE Word(bits, i) = FrameWords(payload)[i]
    OBVIOUS
  <2>2. i * WordSpan <= count * WordSpan
    BY <1>1, WordSizes, Monotone
  <2> QED BY <1>2, <2>2, AlignedWord
<1>5. Payload(bits) = payload
  <2>1. ASSUME NEW i \in 1 .. Len(payload)
        PROVE  Bytes(Word(bits, 2 + (i + 1) \div 2))[IF i % 2 = 1 THEN 1 ELSE 2] = payload[i]
    <3>1. PICK q \in Nat : q = (i + 1) \div 2
      OBVIOUS
    <3>2. q \in 1 .. size /\ 2 + q \in 1 .. count
      BY <1>1, <3>1, PayloadSizes
    <3>3. Word(bits, 2 + q) = PayloadWords(payload)[q]
      BY <1>4, <3>2, FrameWordsOf
    <3>4. CASE i % 2 = 1
      <4>1. 2 * q - 1 = i
        BY <3>1, <3>4
      <4> QED BY <3>1, <3>2, <3>3, <3>4, <4>1, PayloadWordsOf
    <3>5. CASE i % 2 # 1
      <4>1. 2 * q = i /\ 2 * q <= Len(payload)
        BY <3>1, <3>5
      <4> QED BY <3>1, <3>2, <3>3, <3>5, <4>1, PayloadWordsOf
    <3> QED BY <3>4, <3>5
  <2>2. Payload(bits) =
           [i \in 1 .. Len(payload) |->
               Bytes(Word(bits, 2 + (i + 1) \div 2))[IF i % 2 = 1 THEN 1 ELSE 2]]
    BY <1>3 DEF Payload
  <2>3. payload = [i \in 1 .. Len(payload) |-> payload[i]]
    BY PayloadSizes
  <2> QED BY <2>1, <2>2, <2>3, Zenon
<1>6. Crc(payload) = TransmittedCrc(bits)
  <2>1. count - 1 = size + 3 /\ count = size + 4 /\ size + 3 \in 1 .. count /\ size + 4 \in 1 .. count
    BY <1>1
  <2>2. Word(bits, count - 1) = Crc(payload)[1] /\ Word(bits, count) = Crc(payload)[2]
    BY <1>4, <2>1, FrameWordsOf
  <2>3. TransmittedCrc(bits) = <<Crc(payload)[1], Crc(payload)[2]>>
    BY <1>3, <2>2 DEF TransmittedCrc
  <2>4. Crc(payload) \in WordValue \X WordValue
    BY LinkAssumption
  <2> QED BY <2>3, <2>4
<1>7. ~ (WordCount(bits) < ExpectedWords(PayloadLength(bits)))
  BY <1>1, <1>3
<1> QED BY <1>3, <1>5, <1>6, <1>7, Zenon DEF DecodeResult


----------------------------------------------------------------------------
\* Within a row of spans, the next end of a span is not a span away.
LEMMA NextSpanEnd ==
    ASSUME NEW at \in Nat, NEW span \in Nat \ {0}
    PROVE  \E n \in Nat \ {0} : at < n * span /\ n * span <= at + span
<1>1. PICK n \in Nat, j \in 0 .. span - 1 : at = n * span + j
  BY SpanOfPosition
<1>2. (n + 1) * span = n * span + span /\ n * span \in Nat
  OBVIOUS
<1>3. PICK next \in Nat \ {0} : next = n + 1
  OBVIOUS
<1>4. at < next * span /\ next * span <= at + span
  BY <1>1, <1>2, <1>3
<1> QED BY <1>4

\* The last bits of the buffer are the last ones that the station has sent.
HoldsLast(bits, payload, count) ==
    \A i \in 1 .. count : i <= Len(bits) => FromEnd(bits, i) = LineFrame[payload][count + 1 - i]

\* A buffer that begins in front of the frame's first bit, or with it, is not taken for
\* a frame: an end of a word lies in the zeros the frame starts with.
LEMMA NoFrameAround ==
    ASSUME NEW payload \in Payloads, NEW bits \in Seq(Bit),
           NEW count \in 1 .. FrameSpan(payload) + 1, count <= Len(bits),
           HoldsLast(bits, payload, count)
    PROVE  ~ (Readable(bits) /\ LooksLikeFrame(bits))
<1> SUFFICES ASSUME Readable(bits), LooksLikeFrame(bits) PROVE FALSE
  OBVIOUS
<1>0. WordSpan \in Nat \ {0} /\ count \in Nat /\ Len(bits) \in Nat
  BY WordSizes, PayloadSizes
<1>1. PICK words \in Nat : words = WordCount(bits) /\ Len(bits) = words * WordSpan
  <2>1. Len(bits) % WordSpan = 0
    BY DEF Readable
  <2> QED BY <1>0, <2>1, WordsFill DEF WordCount
<1>2. \A i \in 1 .. words : bits[i * WordSpan] = 1
  BY <1>1 DEF LooksLikeFrame
<1>3. words >= 2
  BY <1>1 DEF Readable
<1>4. count > WordSpan
  <2>1. bits[Len(bits)] = 1
    BY <1>1, <1>2, <1>3
  <2>2. FromEnd(bits, 1) = LineFrame[payload][count]
    <3>1. 1 \in 1 .. count /\ 1 <= Len(bits) /\ count + 1 - 1 = count
      BY <1>0
    <3> QED BY <3>1 DEF HoldsLast
  <2>3. FromEnd(bits, 1) = bits[Len(bits)]
    <3>1. Len(bits) + 1 - 1 = Len(bits)
      BY <1>0
    <3> QED BY <3>1 DEF FromEnd
  <2>4. LineFrame[payload][count] # 0
    BY <2>1, <2>2, <2>3
  <2> QED BY <2>4, <1>0, FrameStartsWithZeros
<1>5. PICK before \in Nat : before = Len(bits) - count
  BY <1>0
<1>6. PICK n \in Nat \ {0} : before < n * WordSpan /\ n * WordSpan <= before + WordSpan
  BY <1>0, NextSpanEnd
<1>7. PICK at \in Nat : at = n * WordSpan
  <2>1. \A a, b \in Nat : a * b \in Nat
    OBVIOUS
  <2> QED BY <2>1, <1>0
<1>8. at < Len(bits) /\ before < at /\ at <= before + WordSpan
  BY <1>0, <1>4, <1>5, <1>6, <1>7
<1>9. n \in 1 .. words
  <2>1. SUFFICES ASSUME words <= n PROVE FALSE
    OBVIOUS
  <2>2. words * WordSpan <= n * WordSpan
    BY <2>1, <1>0, Monotone
  <2> QED BY <2>2, <1>0, <1>1, <1>7, <1>8
<1>10. bits[at] = 1
  BY <1>2, <1>7, <1>9
<1>11. PICK i \in 1 .. count : i = Len(bits) + 1 - at
  <2>1. Len(bits) + 1 - at \in 1 .. count
    BY <1>0, <1>5, <1>8
  <2> QED BY <2>1
<1>12. i <= Len(bits) /\ Len(bits) + 1 - i = at /\ count + 1 - i \in 1 .. WordSpan
  BY <1>0, <1>5, <1>8, <1>11
<1>13. PICK j \in 1 .. WordSpan : j = count + 1 - i
  BY <1>12
<1>14. FromEnd(bits, i) = LineFrame[payload][j]
  BY <1>12, <1>13 DEF HoldsLast
<1>15. FromEnd(bits, i) = bits[at]
  BY <1>12 DEF FromEnd
<1>16. LineFrame[payload][j] = 0
  BY FrameStartsWithZeros
<1>17. 0 # 1
  OBVIOUS
<1> QED BY <1>10, <1>14, <1>15, <1>16, <1>17, Zenon

\* A buffer that lacks only the first of the bits sent holds the frame's others.
LEMMA LastAreFrame ==
    ASSUME NEW payload \in Payloads, NEW bits \in Seq(Bit), NEW count \in Nat,
           count = Len(bits) + 1, HoldsLast(bits, payload, count)
    PROVE  HoldsFrame(bits, payload)
<1>1. SUFFICES ASSUME NEW m \in 1 .. Len(bits)
               PROVE  bits[m] = LineFrame[payload][m + 1]
  BY DEF HoldsFrame
<1>2. PICK i \in 1 .. count : i = count - m
  <2>1. count - m \in 1 .. count
    OBVIOUS
  <2> QED BY <2>1
<1>3. i <= Len(bits) /\ Len(bits) + 1 - i = m /\ count + 1 - i = m + 1
  BY <1>2
<1>4. FromEnd(bits, i) = LineFrame[payload][count + 1 - i]
  BY <1>3 DEF HoldsLast
<1> QED BY <1>3, <1>4 DEF FromEnd

----------------------------------------------------------------------------
LineTypeOK ==
    /\ sending \in Payloads
    /\ bits_sent \in 0 .. FrameSpan(sending) + 1
    /\ bit_buffer \in Seq(Bit)
    /\ looping \in BOOLEAN
    /\ stream \in {"broken", "partial", "whole"}
    /\ looping => bits_sent >= 1

\* A buffer that is not broken is never longer than the frames of the station.
HasRoom ==
    stream # "broken" =>
        IF looping THEN Len(bit_buffer) <= FrameSpan(sending)
        ELSE Len(bit_buffer) < FrameSpan(sending)

\* While the frame is on the line, the buffer has all its bits but perhaps the first.
WholeIsHeld ==
    stream = "whole" /\ (looping \/ bits_sent <= FrameSpan(sending)) =>
        bits_sent <= Len(bit_buffer) + 1

SlowBitsInv ==
    /\ LineTypeOK
    /\ HasRoom
    /\ WholeIsHeld
    /\ stream = "partial" => Len(bit_buffer) < bits_sent
    /\ stream # "broken" => HoldsLast(bit_buffer, sending, bits_sent)
    /\ DecodesWholeFrames

\* What the line and the decoder hold, as the provers need it.
LEMMA LineFacts ==
    ASSUME SlowBitsInv
    PROVE  /\ sending \in Payloads /\ bit_buffer \in Seq(Bit)
           /\ bits_sent \in Nat /\ Len(bit_buffer) \in Nat /\ FrameSpan(sending) \in Nat
           /\ FrameSpan(sending) >= 2 /\ bits_sent <= FrameSpan(sending) + 1
           /\ Len(LineFrame[sending]) = FrameSpan(sending) + 1
<1>1. /\ sending \in Payloads /\ bit_buffer \in Seq(Bit)
      /\ bits_sent \in 0 .. FrameSpan(sending) + 1
  BY DEF SlowBitsInv, LineTypeOK
<1>2. FrameSpan(sending) \in Nat /\ Len(LineFrame[sending]) = FrameSpan(sending) + 1
  BY <1>1, PayloadSizes, FrameShape
<1>3. FrameSpan(sending) >= 2
  <2>1. 2 <= ExpectedWords(Len(sending)) /\ ExpectedWords(Len(sending)) \in Nat
    BY <1>1, PayloadSizes
  <2>2. 2 * WordSpan <= ExpectedWords(Len(sending)) * WordSpan
    BY <2>1, WordSizes, Monotone
  <2>3. 2 <= 2 * WordSpan /\ 2 * WordSpan \in Nat
    BY WordSizes
  <2> QED BY <2>2, <2>3, <1>2 DEF FrameSpan
<1> QED BY <1>1, <1>2, <1>3

\* The bit that comes in is the next one of the frame.
LEMMA AppendKeepsLast ==
    ASSUME NEW payload \in Payloads, NEW bits \in Seq(Bit),
           NEW count \in 0 .. FrameSpan(payload),
           HoldsLast(bits, payload, count)
    PROVE  /\ LineFrame[payload][count + 1] \in Bit
           /\ HoldsLast(Append(bits, LineFrame[payload][count + 1]), payload, count + 1)
<1>0. count \in Nat /\ FrameSpan(payload) \in Nat
  BY PayloadSizes
<1>1. PICK bit \in Bit : bit = LineFrame[payload][count + 1]
  <2>1. count + 1 \in 1 .. Len(LineFrame[payload])
    BY <1>0, FrameShape
  <2> QED BY <2>1, FrameShape
<1>2. PICK longer : longer = Append(bits, bit)
  OBVIOUS
<1>3. /\ Len(longer) = Len(bits) + 1
      /\ longer[Len(bits) + 1] = bit
      /\ \A i \in 1 .. Len(bits) : longer[i] = bits[i]
  BY <1>2
<1>4. HoldsLast(longer, payload, count + 1)
  <2>1. SUFFICES ASSUME NEW i \in 1 .. count + 1, i <= Len(longer)
                 PROVE  longer[Len(longer) + 1 - i] = LineFrame[payload][(count + 1) + 1 - i]
    BY DEF HoldsLast, FromEnd
  <2>2. CASE i = 1
    <3>1. Len(longer) + 1 - i = Len(bits) + 1 /\ (count + 1) + 1 - i = count + 1
      BY <2>2, <1>0, <1>3
    <3> QED BY <3>1, <1>1, <1>3
  <2>3. CASE i # 1
    <3>1. PICK k \in 1 .. count : k = i - 1
      <4>1. i - 1 \in 1 .. count
        BY <2>3, <1>0
      <4> QED BY <4>1
    <3>2. k <= Len(bits)
      BY <2>1, <3>1, <1>3
    <3>3. bits[Len(bits) + 1 - k] = LineFrame[payload][count + 1 - k]
      BY <3>2 DEF HoldsLast, FromEnd
    <3>4. PICK at \in 1 .. Len(bits) : at = Len(bits) + 1 - k
      <4>1. Len(bits) + 1 - k \in 1 .. Len(bits)
        BY <3>2
      <4> QED BY <4>1
    <3>5. Len(longer) + 1 - i = at /\ (count + 1) + 1 - i = count + 1 - k
      BY <3>1, <3>4, <1>0, <1>3
    <3>6. longer[at] = bits[at]
      BY <1>3
    <3> QED BY <3>3, <3>4, <3>5, <3>6
  <2> QED BY <2>2, <2>3
<1> QED BY <1>1, <1>2, <1>4

\* The bits kept are the last ones.
LEMMA DiscardKeepsLast ==
    ASSUME NEW payload \in Payloads, NEW bits \in Seq(Bit), NEW count \in Nat,
           HoldsLast(bits, payload, count)
    PROVE  HoldsLast(AfterFirstZero(bits), payload, count)
<1>1. PICK rest : rest = AfterFirstZero(bits)
  OBVIOUS
<1>2. /\ rest \in Seq(Bit) /\ Len(rest) <= Len(bits)
      /\ \A i \in 1 .. Len(rest) : FromEnd(rest, i) = FromEnd(bits, i)
  BY <1>1, DiscardKeepsEnd
<1>3. HoldsLast(rest, payload, count)
  <2>1. SUFFICES ASSUME NEW i \in 1 .. count, i <= Len(rest)
                 PROVE  FromEnd(rest, i) = LineFrame[payload][count + 1 - i]
    BY DEF HoldsLast
  <2>2. i \in 1 .. Len(rest) /\ i <= Len(bits)
    BY <2>1, <1>2
  <2>3. FromEnd(bits, i) = LineFrame[payload][count + 1 - i]
    BY <2>2 DEF HoldsLast
  <2> QED BY <2>2, <2>3, <1>2
<1> QED BY <1>1, <1>3

LEMMA EmptyHoldsLast ==
    ASSUME NEW payload, NEW count \in Nat
    PROVE  HoldsLast(<<>>, payload, count)
  BY DEF HoldsLast

\* An iteration of the search takes only the frame on the line for a frame, once it is
\* whole, and does not wait for a longer one.
LEMMA SearchOutcome ==
    ASSUME SlowBitsInv, looping, stream # "broken",
           NEW result, result = DecodeResult(bit_buffer)
    PROVE  /\ result = "Incomplete" => Len(bit_buffer) < FrameSpan(sending)
           /\ stream = "whole" /\ result = "Incomplete" => bits_sent <= FrameSpan(sending)
           /\ stream = "whole" /\ result \in {"Decoded", "CrcError"} =>
                 /\ bits_sent = FrameSpan(sending) + 1
                 /\ result = "Decoded"
                 /\ Payload(bit_buffer) = sending
           /\ stream = "whole" /\ result = "NotAFrame" => bits_sent <= Len(bit_buffer)
<1> DEFINE size == Len(bit_buffer)
           span == FrameSpan(sending)
<1>0. /\ sending \in Payloads /\ bit_buffer \in Seq(Bit)
      /\ bits_sent \in Nat /\ size \in Nat /\ span \in Nat
      /\ span >= 2 /\ bits_sent <= span + 1
  BY LineFacts
<1>1. bits_sent >= 1 /\ stream \in {"broken", "partial", "whole"}
  BY DEF SlowBitsInv, LineTypeOK
<1>2. size <= span
  BY DEF SlowBitsInv, HasRoom
<1>3. HoldsLast(bit_buffer, sending, bits_sent)
  BY DEF SlowBitsInv
<1>4. stream = "whole" => bits_sent <= size + 1
  BY DEF SlowBitsInv, WholeIsHeld
<1>5. stream = "partial" => size < bits_sent
  BY DEF SlowBitsInv
<1>6. bits_sent = size + 1 => HoldsFrame(bit_buffer, sending)
  BY <1>0, <1>3, LastAreFrame
<1>7. bits_sent = size + 1 /\ size < span => result = "Incomplete"
  BY <1>0, <1>6, FrameIsAwaited
<1>8. bits_sent = size + 1 /\ size = span => result = "Decoded" /\ Payload(bit_buffer) = sending
  BY <1>0, <1>6, FrameIsDecoded
<1>9. bits_sent <= size => ~ (Readable(bit_buffer) /\ LooksLikeFrame(bit_buffer))
  <2>1. bits_sent \in 1 .. span + 1
    BY <1>0, <1>1
  <2> QED BY <2>1, <1>0, <1>3, NoFrameAround
<1>10. size = span => Readable(bit_buffer)
  <2>1. SUFFICES ASSUME size = span PROVE Readable(bit_buffer)
    OBVIOUS
  <2>2. PICK words \in Nat : words = ExpectedWords(Len(sending)) /\ words >= 2
    BY <1>0, PayloadSizes
  <2>3. size = words * WordSpan
    BY <2>1, <2>2 DEF FrameSpan
  <2>4. size % WordSpan = 0 /\ size \div WordSpan = words
    BY <2>3, WordSizes, WholeWords
  <2> QED BY <2>2, <2>4 DEF Readable, WordCount
<1>11. bits_sent <= size => result \notin {"Decoded", "CrcError"}
  BY <1>9 DEF DecodeResult
<1>12. bits_sent <= size /\ size = span => result = "NotAFrame"
  BY <1>9, <1>10 DEF DecodeResult
<1> HIDE DEF size, span
<1>13. result = "Incomplete" => size < span
  <2>1. SUFFICES ASSUME result = "Incomplete", size = span PROVE FALSE
    BY <1>0, <1>2
  <2>2. bits_sent <= size \/ bits_sent = size + 1
    BY <2>1, <1>0
  <2> QED BY <2>1, <2>2, <1>8, <1>12
<1>14. stream = "whole" /\ result = "Incomplete" => bits_sent <= span
  BY <1>0, <1>4, <1>13
<1>15. stream = "whole" => bits_sent <= size \/ bits_sent = size + 1
  BY <1>0, <1>4
<1>16. size < span \/ size = span
  BY <1>0, <1>2
<1>17. ASSUME stream = "whole", result \in {"Decoded", "CrcError"}
       PROVE  bits_sent = span + 1 /\ result = "Decoded" /\ Payload(bit_buffer) = sending
  <2>1. bits_sent = size + 1
    BY <1>11, <1>15, <1>17
  <2>2. size = span
    BY <2>1, <1>7, <1>16, <1>17
  <2> QED BY <2>1, <2>2, <1>8
<1>18. ASSUME stream = "whole", result = "NotAFrame"
       PROVE  bits_sent <= size
  BY <1>7, <1>8, <1>15, <1>16, <1>18
<1> QED BY <1>13, <1>14, <1>17, <1>18 DEF size, span

LEMMA SendBitKeepsInv ==
    ASSUME SlowBitsInv, SendBit
    PROVE  SlowBitsInv'
<1>1. /\ sending \in Payloads /\ bit_buffer \in Seq(Bit)
      /\ bits_sent \in Nat /\ Len(bit_buffer) \in Nat /\ FrameSpan(sending) \in Nat
      /\ FrameSpan(sending) >= 2
      /\ Len(LineFrame[sending]) = FrameSpan(sending) + 1
  BY LineFacts
<1>2. /\ looping = FALSE /\ looping' = TRUE
      /\ sending' = sending /\ bits_sent' = bits_sent + 1
      /\ bits_sent < Len(LineFrame[sending])
      /\ bit_buffer' = Append(bit_buffer, LineFrame[sending][bits_sent + 1])
      /\ stream' = IF stream = "broken" /\ bit_buffer = <<>> THEN FromHere ELSE stream
  <2>1. looping \in BOOLEAN
    BY DEF SlowBitsInv, LineTypeOK
  <2> QED BY <2>1, Zenon DEF SendBit, PushBit
<1>3. bits_sent \in 0 .. FrameSpan(sending)
  BY <1>1, <1>2
<1>4. stream # "broken" \/ bit_buffer = <<>> => HoldsLast(bit_buffer, sending, bits_sent)
  BY <1>1, EmptyHoldsLast DEF SlowBitsInv
<1>5. LineFrame[sending][bits_sent + 1] \in Bit
  <2>1. bits_sent + 1 \in 1 .. Len(LineFrame[sending])
    BY <1>1, <1>3
  <2> QED BY <2>1, <1>1, FrameShape
<1>6. bit_buffer' \in Seq(Bit) /\ Len(bit_buffer') = Len(bit_buffer) + 1
  BY <1>1, <1>2, <1>5
<1>7. stream # "broken" \/ bit_buffer = <<>> => HoldsLast(bit_buffer', sending', bits_sent')
  BY <1>1, <1>2, <1>3, <1>4, AppendKeepsLast
<1>8. /\ stream \in {"broken", "partial", "whole"}
      /\ stream = "partial" => Len(bit_buffer) < bits_sent
      /\ stream = "whole" => bits_sent <= Len(bit_buffer) + 1
      /\ stream # "broken" => Len(bit_buffer) < FrameSpan(sending)
  <2>1. stream # "broken" => Len(bit_buffer) < FrameSpan(sending)
    BY <1>2, Zenon DEF SlowBitsInv, HasRoom
  <2>2. bits_sent <= FrameSpan(sending)
    BY <1>1, <1>3
  <2> QED BY <2>1, <2>2, Zenon DEF SlowBitsInv, LineTypeOK, WholeIsHeld
<1>9. /\ stream' \in {"broken", "partial", "whole"}
      /\ stream' # "broken" => stream # "broken" \/ bit_buffer = <<>>
      /\ stream' = "partial" => Len(bit_buffer') < bits_sent'
      /\ stream' = "whole" => bits_sent' <= Len(bit_buffer') + 1
      /\ stream' # "broken" => Len(bit_buffer') <= FrameSpan(sending')
  <2>1. CASE stream = "broken" /\ bit_buffer = <<>>
    <3>1. stream' = IF bits_sent = 0 THEN "whole" ELSE "partial"
      BY <2>1, <1>2 DEF FromHere
    <3>2. Len(bit_buffer) = 0
      BY <2>1
    <3> QED BY <2>1, <3>1, <3>2, <1>1, <1>2, <1>6
  <2>2. CASE ~ (stream = "broken" /\ bit_buffer = <<>>)
    <3>1. stream' = stream
      BY <2>2, <1>2
    <3> QED BY <2>2, <3>1, <1>1, <1>2, <1>6, <1>8
  <2> QED BY <2>1, <2>2
<1>10. bits_sent' \in 0 .. FrameSpan(sending') + 1 /\ bits_sent' >= 1
  BY <1>1, <1>2, <1>3
<1>11. LineTypeOK'
  BY <1>1, <1>2, <1>6, <1>9, <1>10 DEF LineTypeOK
<1>12. HasRoom' /\ WholeIsHeld'
  BY <1>2, <1>9, Zenon DEF HasRoom, WholeIsHeld
<1>13. DecodesWholeFrames'
  BY <1>2, Zenon DEF DecodesWholeFrames
<1> QED BY <1>7, <1>9, <1>11, <1>12, <1>13, Zenon DEF SlowBitsInv

LEMMA LoseBitKeepsInv ==
    ASSUME SlowBitsInv, LoseBit
    PROVE  SlowBitsInv'
<1>1. /\ looping = FALSE /\ looping' = FALSE
      /\ sending' = sending /\ bits_sent' = bits_sent + 1
      /\ bits_sent < Len(LineFrame[sending])
      /\ bit_buffer' = bit_buffer /\ stream' = "broken"
  <2>1. looping \in BOOLEAN
    BY DEF SlowBitsInv, LineTypeOK
  <2> QED BY <2>1, Zenon DEF LoseBit, ootxVars
<1>2. bits_sent' \in 0 .. FrameSpan(sending') + 1
  BY <1>1, LineFacts
<1>3. LineTypeOK'
  BY <1>1, <1>2, LineFacts DEF LineTypeOK
<1>4. HasRoom' /\ WholeIsHeld' /\ DecodesWholeFrames' /\ stream' # "partial"
  BY <1>1 DEF HasRoom, WholeIsHeld, DecodesWholeFrames
<1> QED BY <1>1, <1>3, <1>4, Zenon DEF SlowBitsInv

LEMMA NextRecordKeepsInv ==
    ASSUME SlowBitsInv, NextRecord
    PROVE  SlowBitsInv'
<1>1. /\ looping = FALSE /\ looping' = FALSE
      /\ sending' \in Payloads /\ Len(sending') = Len(sending)
      /\ bits_sent' = 0
      /\ bit_buffer' = bit_buffer
      /\ stream' = IF stream = "broken" THEN "broken" ELSE "whole"
  <2>1. looping \in BOOLEAN
    BY DEF SlowBitsInv, LineTypeOK
  <2>2. sending' \in {payload \in Payloads : Len(payload) = Len(sending)}
    BY DEF NextRecord
  <2> QED BY <2>1, <2>2, Zenon DEF NextRecord, ootxVars
<1>2. FrameSpan(sending') = FrameSpan(sending) /\ FrameSpan(sending) \in Nat
  BY <1>1, LineFacts DEF FrameSpan
<1>3. bit_buffer \in Seq(Bit) /\ Len(bit_buffer) \in Nat
  BY LineFacts
<1>4. LineTypeOK'
  <2>1. bits_sent' \in 0 .. FrameSpan(sending') + 1
    BY <1>1, <1>2
  <2> QED BY <2>1, <1>1, <1>3 DEF LineTypeOK
<1>5. HasRoom'
  <2>1. stream # "broken" => Len(bit_buffer) < FrameSpan(sending)
    BY <1>1, Zenon DEF SlowBitsInv, HasRoom
  <2>2. stream' # "broken" => Len(bit_buffer') < FrameSpan(sending')
    BY <2>1, <1>1, <1>2
  <2> QED BY <2>2, <1>1, Zenon DEF HasRoom
<1>6. WholeIsHeld'
  <2>1. bits_sent' <= Len(bit_buffer') + 1
    BY <1>1, <1>3
  <2> QED BY <2>1, Zenon DEF WholeIsHeld
<1>7. HoldsLast(bit_buffer', sending', bits_sent')
  BY <1>1 DEF HoldsLast
<1>8. DecodesWholeFrames'
  <2>1. Len(LineFrame[sending']) = FrameSpan(sending') + 1
    BY <1>1, FrameShape
  <2>2. bits_sent' # Len(LineFrame[sending'])
    BY <2>1, <1>1, <1>2
  <2> QED BY <2>2 DEF DecodesWholeFrames
<1>9. stream' # "partial"
  BY <1>1
<1> QED BY <1>4, <1>5, <1>6, <1>7, <1>8, <1>9, Zenon DEF SlowBitsInv

LEMMA RestartKeepsInv ==
    ASSUME SlowBitsInv, RestartSearch
    PROVE  SlowBitsInv'
<1>1. /\ looping = FALSE /\ looping' = FALSE
      /\ sending' = sending /\ bits_sent' = bits_sent
      /\ bit_buffer' = <<>>
      /\ stream' = IF bits_sent = 0 THEN "whole" ELSE "partial"
  <2>1. looping \in BOOLEAN
    BY DEF SlowBitsInv, LineTypeOK
  <2> QED BY <2>1, Zenon DEF RestartSearch, ResetOotx, FromHere
<1>2. /\ sending \in Payloads
      /\ bits_sent \in Nat /\ FrameSpan(sending) \in Nat /\ FrameSpan(sending) >= 2
      /\ bits_sent <= FrameSpan(sending) + 1
      /\ Len(LineFrame[sending]) = FrameSpan(sending) + 1
  BY LineFacts
<1>3. bit_buffer' \in Seq(Bit) /\ Len(bit_buffer') = 0
  BY <1>1
<1>4. LineTypeOK'
  <2>1. bits_sent' \in 0 .. FrameSpan(sending') + 1
    BY <1>1, <1>2
  <2>2. stream' \in {"broken", "partial", "whole"}
    BY <1>1
  <2> QED BY <2>1, <2>2, <1>1, <1>2, <1>3 DEF LineTypeOK
<1>5. HasRoom'
  BY <1>1, <1>2, <1>3 DEF HasRoom
<1>6. WholeIsHeld'
  BY <1>1, <1>2, <1>3 DEF WholeIsHeld
<1>7. stream' = "partial" => Len(bit_buffer') < bits_sent'
  BY <1>1, <1>2, <1>3
<1>8. HoldsLast(bit_buffer', sending', bits_sent')
  BY <1>1, <1>2, EmptyHoldsLast
<1>9. DecodesWholeFrames'
  <2>1. stream' = "whole" => bits_sent' # Len(LineFrame[sending'])
    BY <1>1, <1>2
  <2> QED BY <2>1 DEF DecodesWholeFrames
<1> QED BY <1>4, <1>5, <1>6, <1>7, <1>8, <1>9, Zenon DEF SlowBitsInv

LEMMA SearchKeepsInv ==
    ASSUME SlowBitsInv, Search
    PROVE  SlowBitsInv'
<1>1. /\ looping = TRUE
      /\ sending' = sending /\ bits_sent' = bits_sent /\ stream' = stream
  <2>1. looping \in BOOLEAN
    BY DEF SlowBitsInv, LineTypeOK
  <2> QED BY <2>1, Zenon DEF Search, Iterate, Wait, Discard, Decode, DropCorrupted
<1>2. /\ sending \in Payloads /\ bit_buffer \in Seq(Bit)
      /\ bits_sent \in Nat /\ Len(bit_buffer) \in Nat /\ FrameSpan(sending) \in Nat
      /\ FrameSpan(sending) >= 2 /\ bits_sent <= FrameSpan(sending) + 1
      /\ Len(LineFrame[sending]) = FrameSpan(sending) + 1
  BY LineFacts
<1>3. /\ bits_sent \in 0 .. FrameSpan(sending) + 1
      /\ stream \in {"broken", "partial", "whole"}
      /\ bits_sent >= 1
  BY <1>1 DEF SlowBitsInv, LineTypeOK
<1>4. /\ stream # "broken" => Len(bit_buffer) <= FrameSpan(sending)
      /\ stream = "whole" => bits_sent <= Len(bit_buffer) + 1
      /\ stream = "partial" => Len(bit_buffer) < bits_sent
      /\ stream # "broken" => HoldsLast(bit_buffer, sending, bits_sent)
  BY <1>1, Zenon DEF SlowBitsInv, HasRoom, WholeIsHeld
<1>5. PICK result : result = DecodeResult(bit_buffer)
  OBVIOUS
<1>6. stream # "broken" =>
         /\ result = "Incomplete" => Len(bit_buffer) < FrameSpan(sending)
         /\ stream = "whole" /\ result = "Incomplete" => bits_sent <= FrameSpan(sending)
         /\ stream = "whole" /\ result \in {"Decoded", "CrcError"} =>
               /\ bits_sent = FrameSpan(sending) + 1
               /\ result = "Decoded"
               /\ Payload(bit_buffer) = sending
         /\ stream = "whole" /\ result = "NotAFrame" => bits_sent <= Len(bit_buffer)
  BY <1>1, <1>5, SearchOutcome
<1>7. ASSUME bit_buffer' \in Seq(Bit), looping' \in BOOLEAN
      PROVE  LineTypeOK'
  BY <1>1, <1>2, <1>3, <1>7 DEF LineTypeOK
<1>8. CASE Wait
  <2>1. bit_buffer' = bit_buffer /\ looping' = FALSE /\ result = "Incomplete"
    BY <1>5, <1>8, Zenon DEF Wait
  <2>2. LineTypeOK'
    BY <2>1, <1>2, <1>7
  <2>3. HasRoom'
    BY <2>1, <1>1, <1>6, Zenon DEF HasRoom
  <2>4. WholeIsHeld'
    BY <2>1, <1>1, <1>4, Zenon DEF WholeIsHeld
  <2>5. DecodesWholeFrames'
    <3>1. stream = "whole" => bits_sent # Len(LineFrame[sending])
      BY <2>1, <1>2, <1>6
    <3> QED BY <3>1, <1>1, Zenon DEF DecodesWholeFrames
  <2> QED BY <2>1, <2>2, <2>3, <2>4, <2>5, <1>1, <1>4, Zenon DEF SlowBitsInv
<1>9. CASE Discard
  <2>1. bit_buffer' = AfterFirstZero(bit_buffer) /\ looping' = looping /\ result = "NotAFrame"
    BY <1>5, <1>9, Zenon DEF Discard
  <2>2. bit_buffer' \in Seq(Bit) /\ Len(bit_buffer') <= Len(bit_buffer) /\ Len(bit_buffer') \in Nat
    BY <2>1, <1>2, DiscardKeepsEnd
  <2>3. LineTypeOK'
    BY <2>1, <2>2, <1>1, <1>7
  <2>4. HasRoom'
    <3>1. stream # "broken" => Len(bit_buffer') <= FrameSpan(sending)
      BY <2>2, <1>2, <1>4
    <3> QED BY <3>1, <2>1, <1>1, Zenon DEF HasRoom
  <2>5. WholeIsHeld'
    <3>1. ASSUME stream = "whole" PROVE bits_sent <= Len(bit_buffer') + 1
      <4>1. bits_sent <= Len(bit_buffer)
        BY <3>1, <2>1, <1>6
      <4>2. FromEnd(bit_buffer, bits_sent) = 0
        <5>1. bits_sent \in 1 .. bits_sent /\ bits_sent + 1 - bits_sent = 1
          BY <1>2, <1>3
        <5>2. HoldsLast(bit_buffer, sending, bits_sent)
          BY <3>1, <1>4
        <5>3. FromEnd(bit_buffer, bits_sent) = LineFrame[sending][1]
          BY <4>1, <5>1, <5>2 DEF HoldsLast
        <5> QED BY <5>3, <1>2, FrameShape
      <4>3. PICK z \in 1 .. Len(bit_buffer) : z = Len(bit_buffer) + 1 - bits_sent
        <5>1. Len(bit_buffer) + 1 - bits_sent \in 1 .. Len(bit_buffer)
          BY <4>1, <1>2, <1>3
        <5> QED BY <5>1
      <4>4. bit_buffer[z] = 0
        BY <4>2, <4>3 DEF FromEnd
      <4>5. Len(bit_buffer') >= Len(bit_buffer) - z
        BY <4>4, <2>1, <1>2, DiscardKeepsEnd
      <4> QED BY <4>3, <4>5, <2>2, <1>2
    <3> QED BY <3>1, <1>1, Zenon DEF WholeIsHeld
  <2>6. stream' = "partial" => Len(bit_buffer') < bits_sent'
    BY <2>2, <1>1, <1>2, <1>4
  <2>7. stream' # "broken" => HoldsLast(bit_buffer', sending', bits_sent')
    BY <2>1, <1>1, <1>2, <1>4, DiscardKeepsLast
  <2>8. DecodesWholeFrames'
    BY <2>1, <1>1, Zenon DEF DecodesWholeFrames
  <2> QED BY <2>3, <2>4, <2>5, <2>6, <2>7, <2>8, Zenon DEF SlowBitsInv
<1>10. CASE Decode \/ DropCorrupted
  <2>1. /\ bit_buffer' = <<>> /\ looping' = FALSE
        /\ result \in {"Decoded", "CrcError"}
        /\ result = "Decoded" => latest_payload' = Payload(bit_buffer) /\ has_decoded_frame'
    <3>1. CASE Decode
      BY <3>1, <1>5 DEF Decode
    <3>2. CASE DropCorrupted
      BY <3>2, <1>5 DEF DropCorrupted
    <3> QED BY <3>1, <3>2, <1>10
  <2>2. bit_buffer' \in Seq(Bit) /\ Len(bit_buffer') = 0
    BY <2>1
  <2>3. LineTypeOK'
    BY <2>1, <2>2, <1>7
  <2>4. HasRoom'
    <3>1. Len(bit_buffer') < FrameSpan(sending')
      BY <2>2, <1>1, <1>2
    <3> QED BY <3>1, <2>1, Zenon DEF HasRoom
  <2>5. stream = "whole" =>
           /\ bits_sent = FrameSpan(sending) + 1
           /\ result = "Decoded"
           /\ Payload(bit_buffer) = sending
    BY <2>1, <1>6
  <2>6. WholeIsHeld'
    <3>1. stream = "whole" => ~ (bits_sent <= FrameSpan(sending))
      BY <2>5, <1>2
    <3> QED BY <3>1, <2>1, <1>1, Zenon DEF WholeIsHeld
  <2>7. DecodesWholeFrames'
    BY <2>1, <2>5, <1>1, Zenon DEF DecodesWholeFrames
  <2>8. stream' = "partial" => Len(bit_buffer') < bits_sent'
    BY <2>2, <1>1, <1>2, <1>3
  <2>9. HoldsLast(bit_buffer', sending', bits_sent')
    BY <2>1, <1>1, <1>2, EmptyHoldsLast
  <2> QED BY <2>3, <2>4, <2>6, <2>7, <2>8, <2>9, Zenon DEF SlowBitsInv
<1> QED BY <1>8, <1>9, <1>10, Zenon DEF Search, Iterate

\* processSlowBit decodes every frame that reaches it whole with its last bit, whatever
\* the payloads, the checksum and the width of a word are, and wherever it started
\* (ootx_frame_decoder.cpp:42-73).
THEOREM WholeFramesAreDecoded == SlowBitsSpec => []DecodesWholeFrames
<1>1. SlowBitsInit => SlowBitsInv
  <2> SUFFICES ASSUME SlowBitsInit PROVE SlowBitsInv
    OBVIOUS
  <2>1. /\ sending \in Payloads /\ bit_buffer = <<>> /\ looping = FALSE
        /\ stream = IF bits_sent = 0 THEN "whole" ELSE "partial"
        /\ bits_sent \in 0 .. Len(LineFrame[sending]) - 1
    BY Zenon DEF SlowBitsInit, OotxInit, FromHere
  <2>2. Len(LineFrame[sending]) = FrameSpan(sending) + 1 /\ FrameSpan(sending) \in Nat
    BY <2>1, FrameShape, PayloadSizes
  <2>3. bits_sent \in Nat /\ bits_sent <= FrameSpan(sending)
    BY <2>1, <2>2
  <2>4. bit_buffer \in Seq(Bit) /\ Len(bit_buffer) = 0
    BY <2>1
  <2>5. FrameSpan(sending) > 0
    <3>1. PICK words \in Nat \ {0} : words = ExpectedWords(Len(sending))
      BY <2>1, PayloadSizes
    <3>2. words * WordSpan > 0
      BY WordSizes
    <3> QED BY <3>1, <3>2 DEF FrameSpan
  <2>6. LineTypeOK
    <3>1. bits_sent \in 0 .. FrameSpan(sending) + 1
      BY <2>2, <2>3
    <3>2. stream \in {"broken", "partial", "whole"}
      BY <2>1
    <3> QED BY <3>1, <3>2, <2>1, <2>4 DEF LineTypeOK
  <2>7. HasRoom /\ WholeIsHeld
    <3>1. stream = "whole" => bits_sent <= Len(bit_buffer) + 1
      BY <2>1, <2>4
    <3>2. Len(bit_buffer) < FrameSpan(sending)
      BY <2>4, <2>5
    <3> QED BY <3>1, <3>2, <2>1, Zenon DEF HasRoom, WholeIsHeld
  <2>8. stream = "partial" => Len(bit_buffer) < bits_sent
    BY <2>1, <2>3, <2>4
  <2>9. HoldsLast(bit_buffer, sending, bits_sent)
    BY <2>1, <2>3, EmptyHoldsLast
  <2>10. DecodesWholeFrames
    <3>1. bits_sent # Len(LineFrame[sending])
      BY <2>2, <2>3
    <3> QED BY <3>1, Zenon DEF DecodesWholeFrames
  <2> QED BY <2>6, <2>7, <2>8, <2>9, <2>10, Zenon DEF SlowBitsInv
<1>2. SlowBitsInv /\ [SlowBitsNext]_slowBitVars => SlowBitsInv'
  <2> SUFFICES ASSUME SlowBitsInv, [SlowBitsNext]_slowBitVars PROVE SlowBitsInv'
    OBVIOUS
  <2>1. CASE SendBit
    BY <2>1, SendBitKeepsInv
  <2>2. CASE LoseBit
    BY <2>2, LoseBitKeepsInv
  <2>3. CASE NextRecord
    BY <2>3, NextRecordKeepsInv
  <2>4. CASE Search
    BY <2>4, SearchKeepsInv
  <2>5. CASE RestartSearch
    BY <2>5, RestartKeepsInv
  <2>6. CASE UNCHANGED slowBitVars
    BY <2>6, Zenon DEF slowBitVars, SlowBitsInv, LineTypeOK, HasRoom, WholeIsHeld,
                       HoldsLast, DecodesWholeFrames
  <2> QED BY <2>1, <2>2, <2>3, <2>4, <2>5, <2>6 DEF SlowBitsNext
<1>3. SlowBitsInv => DecodesWholeFrames
  BY DEF SlowBitsInv
<1> QED BY <1>1, <1>2, <1>3, PTL DEF SlowBitsSpec

====
