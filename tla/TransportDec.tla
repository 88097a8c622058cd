----------------------------- MODULE TransportDec -----------------------------
(***************************************************************************)
(* The transport decoder of libMpegTPDec on an ADTS stream, as the AAC     *)
(* decoder library drives it: aacDecoder_Fill offers it bytes, in chunks   *)
(* of any size, and every aacDecoder_DecodeFrame reads one access unit     *)
(* from it (transportDec_ReadAccessUnit), decodes it, and ends it          *)
(* (transportDec_EndAccessUnit).                                           *)
(*                                                                         *)
(* A stream is told by its length and by the ADTS headers that can be read *)
(* in it, in the right places or in the wrong ones: at every other byte    *)
(* there is no sync word.  Positions are bits from its beginning.  The     *)
(* flags are those the library sets: MPEG-4 allowed, buffer fullness       *)
(* ignored, no bit rate known, no delay minimisation, no early             *)
(* configuration.                                                          *)
(*                                                                         *)
(* The code does not compare the positions of the raw data blocks in a     *)
(* protected header with each other or with frame_length, so they may lie  *)
(* anywhere.  What a decoder reads after it was pulled back over bits that *)
(* a fill has overwritten (Overrun) is not modelled.                       *)
(***************************************************************************)
EXTENDS Integers, Sequences

CONSTANTS
  Streams,  \* the streams the application may have, those it plays to the end among them
  BufBits,  \* bits the transport buffer holds, 8192 * 4 * 8
  MaxChunk, \* bound: bytes offered at once
  Misread   \* bits by which the end of a damaged raw data block may be missed

Byte == 8             \* TPDEC_SYNCSKIP
ADTS_SYNCLENGTH == 12
ADTS_HEADERLENGTH == 56
CrcLength == 16       \* Adts_Length_CrcCheck

\* A header: the byte offset in the frame at which each of its raw data blocks
\* ends, by the positions in a header with CRCs and really in one without, the last
\* of them being frame_length; the bits of the PCE behind it; and whether the frame
\* is acceptable.  Unsupported is a frame of another
\* layer or sampling frequency, Refused one that fails a later check: the CRC,
\* the PCE, or the configuration callback.
Header == [ends : Seq(Nat), protected : BOOLEAN, pce : Nat,
           kind : {"Valid", "Unsupported", "Refused"}]

NumBlocks(h) == Len(h.ends)
FrameBits(h) == Byte * h.ends[NumBlocks(h)]
HeaderBits(h) == ADTS_HEADERLENGTH + (IF h.protected THEN CrcLength * NumBlocks(h) ELSE 0)
Payload(h) == HeaderBits(h) + h.pce

\* rawDataBlockDist, in bits: the difference of two unsigned shorts.  The PCE counts
\* as part of the first block.
Dist(h, i) ==
  IF i = 1 THEN Byte * h.ends[1] - HeaderBits(h)
  ELSE Byte * ((h.ends[i] - h.ends[i - 1]) % 65536)
PceIn(h, i) == IF i = 1 THEN h.pce ELSE 0

\* The blocks lie behind the header and behind each other, as they do in a stream of
\* an encoder.
WellPlaced(h) ==
  Payload(h) <= Byte * h.ends[1] /\ \A i \in 2..NumBlocks(h) : h.ends[i - 1] <= h.ends[i]

\* frame_length has 13 bits, positions are counted from behind the header, and a PCE
\* lies in its frame.  Where an unprotected frame has several blocks they are where
\* they are: its header says nothing of them.
ASSUME TransportAssumption ==
  /\ BufBits \in Nat /\ BufBits > 4 * Byte /\ MaxChunk \in Nat \ {0}
  /\ Misread \subseteq Int
  /\ \A s \in Streams :
       /\ s.played \in BOOLEAN /\ s.bytes \in Nat /\ DOMAIN s.header \subseteq Nat
       /\ \A b \in DOMAIN s.header :
            LET h == s.header[b]
            IN  /\ h \in Header /\ NumBlocks(h) \in 1..4 /\ h.pce % Byte = 0
                /\ h.ends[NumBlocks(h)] < 8192
                /\ FrameBits(h) + HeaderBits(h) + 2 * Byte < BufBits
                /\ h.pce > 0 => Payload(h) <= FrameBits(h)
                /\ \A i \in 1..NumBlocks(h) - 1 : HeaderBits(h) <= Byte * h.ends[i]
                /\ NumBlocks(h) > 1 /\ ~h.protected => WellPlaced(h)

VARIABLES
  stream,         \* the application's stream
  fed,            \* how much of it the buffer has been given
  pos,            \* the position of the bit stream reader
  syncOk,         \* TPDEC_SYNCOK
  numberOfRawDataBlocks, \* raw data blocks of the frame still to be read
  globalFramePos, \* valid bits there were behind the sync word of the frame
  bs,             \* parser.adts.bs and rawDataBlockDist
  result,         \* what the last call returned
  taken,          \* history: where the access units that were read begin
  frame           \* history: where the frame of the last of them begins

vars ==
  <<stream, fed, pos, syncOk, numberOfRawDataBlocks, globalFramePos, bs, result, taken, frame>>

End == Byte * stream.bytes
ValidBits == fed - pos
Overrun == ValidBits > BufBits
NoHeader == [ends |-> <<0>>, protected |-> FALSE, pce |-> 0, kind |-> "Refused"]

-----------------------------------------------------------------------------
SyncAt(q) == q % Byte = 0 /\ q \div Byte \in DOMAIN stream.header
HeaderAt(q) == stream.header[q \div Byte]

\* A frame that ends before its header does is none (syncLayerFrameBits <= 0).
Accepted(h) == h.kind = "Valid" /\ Payload(h) < FrameBits(h)

\* Faulty: frame_length is taken to begin behind the sync word.
ReadHeaderLate(q, end) ==
  LET h == HeaderAt(q)
      missing == end - q < HeaderBits(h) \/ end - q - ADTS_SYNCLENGTH < FrameBits(h)
      skipped == h.kind = "Unsupported" /\ end - q < HeaderBits(h) + FrameBits(h)
  IN  IF missing \/ skipped THEN "NotEnough"
      ELSE IF Accepted(h) THEN "Ok" ELSE "SyncError"

\* transportDec_readHeader and adtsRead_DecodeHeader at a sync word, when the
\* stream is known up to `end': what became of the frame at q.  An unsupported
\* frame is skipped over and, if that leaves the buffer, waited for.
ReadHeader(q, end) ==
  LET h == HeaderAt(q)
      missing == end - q < HeaderBits(h) \/ end - q < FrameBits(h)
      skipped == h.kind = "Unsupported" /\ end - q < HeaderBits(h) + FrameBits(h)
  IN  IF missing \/ skipped THEN "NotEnough"
      ELSE IF Accepted(h) THEN "Ok" ELSE "SyncError"

\* What synchronization finds, the position it leaves, and the header of the
\* access unit if there is one.
Outcome(r, p, h) == [result |-> r, pos |-> p, header |-> h]
NoUnit(r, p) == Outcome(r, p, NoHeader)

\* Faulty: the sync word of a frame that is waited for is un-read twice.
ExaminedTwice(q, end) ==
  LET outcome == ReadHeader(q, end) IN
  CASE outcome = "Ok"        -> Outcome("Ok", q + Payload(HeaderAt(q)), HeaderAt(q))
    [] outcome = "NotEnough" -> NoUnit("NotEnough", q - ADTS_SYNCLENGTH)
    [] outcome = "SyncError" -> NoUnit("SyncError", q + Byte)

\* An accepted frame is read up to its first raw data block; whatever was read
\* of another is un-read.
Examined(q, end) ==
  LET outcome == ReadHeader(q, end) IN
  CASE outcome = "Ok"        -> Outcome("Ok", q + Payload(HeaderAt(q)), HeaderAt(q))
    [] outcome = "NotEnough" -> NoUnit("NotEnough", q)
    [] outcome = "SyncError" -> NoUnit("SyncError", q + Byte)

\* In sync, the next frame begins where the last one ended.
NextFrame(p, end) == IF SyncAt(p) THEN Examined(p, end) ELSE NoUnit("SyncError", p + Byte)

\* Faulty: the search gives up at the first sync word that begins no frame.
SearchOnce(p, end) ==
  LET found == {q \in {Byte * b : b \in DOMAIN stream.header} : p <= q /\ q <= end - 2 * Byte}
      examined == [q \in found |-> Examined(q, end)]
  IN  IF found = {} THEN NoUnit("NotEnough", end - Byte)
      ELSE examined[CHOOSE q \in found : \A r \in found : q <= r]

\* Faulty: a search that finds nothing discards all it has looked at.
SearchDiscarding(p, end) ==
  LET found == {q \in {Byte * b : b \in DOMAIN stream.header} :
                  p <= q /\ q <= end - 2 * Byte /\ ReadHeader(q, end) # "SyncError"}
      examined == [q \in found |-> Examined(q, end)]
  IN  IF found = {} THEN NoUnit("NotEnough", end)
      ELSE examined[CHOOSE q \in found : \A r \in found : q <= r]

\* Out of sync, it is the first one from here on that is not rejected.  If there
\* is none, the last byte is kept: it may be the first half of a sync word.
Search(p, end) ==
  LET found == {q \in {Byte * b : b \in DOMAIN stream.header} :
                  p <= q /\ q <= end - 2 * Byte /\ ReadHeader(q, end) # "SyncError"}
      examined == [q \in found |-> Examined(q, end)]
  IN  IF found = {} THEN NoUnit("NotEnough", end - Byte)
      ELSE examined[CHOOSE q \in found : \A r \in found : q <= r]

\* Inside a frame there is nothing to find, but the check that the frame is in
\* the buffer is made again, from where the reader is now.
NextBlock(p, end) ==
  IF end - p < FrameBits(bs) - ADTS_SYNCLENGTH THEN NoUnit("NotEnough", p)
  ELSE Outcome("Ok", p, bs)

Synchronization(p, end, inSync, blocks) ==
  CASE blocks > 0 /\ end > p  -> NextBlock(p, end)
    [] blocks > 0 /\ end <= p -> NoUnit("NotEnough", p)
    [] blocks = 0 /\ end - p - ADTS_SYNCLENGTH < Byte -> NoUnit("NotEnough", p)
    [] blocks = 0 /\ end - p - ADTS_SYNCLENGTH >= Byte ->
         IF inSync THEN NextFrame(p, end) ELSE Search(p, end)

\* A full buffer in which no frame can be completed loses a byte.
Unblocked(o) ==
  IF o.result = "NotEnough" /\ fed - o.pos > 0 /\ fed - o.pos >= BufBits - 7
  THEN NoUnit("SyncError", o.pos + Byte) ELSE o

-----------------------------------------------------------------------------
Init ==
  /\ stream \in Streams
  /\ fed = 0 /\ pos = 0 /\ syncOk = FALSE
  /\ numberOfRawDataBlocks = 0 /\ globalFramePos = 0 /\ bs = NoHeader
  /\ result = "None" /\ taken = << >> /\ frame = 0

\* FDK_Feed: a reader past the end leaves room for no more than a buffer.
FreeBits ==
  CASE ValidBits < 0 -> BufBits [] Overrun -> 0 [] ValidBits \in 0..BufBits -> BufBits - ValidBits

\* Faulty: the position of the frame is not corrected for what was added.
FillDataUncounted(n) ==
  LET accepted == IF Byte * n <= FreeBits THEN Byte * n ELSE Byte * (FreeBits \div Byte)
  IN  /\ fed + Byte * n <= End
      /\ fed' = fed + accepted
      /\ result' = "None"
      /\ UNCHANGED <<stream, pos, syncOk, numberOfRawDataBlocks, globalFramePos, bs, taken, frame>>

\* transportDec_FillData: what fits of n bytes is stored; the rest the
\* application offers again.
FillData(n) ==
  LET accepted == IF Byte * n <= FreeBits THEN Byte * n ELSE Byte * (FreeBits \div Byte)
  IN  /\ fed + Byte * n <= End
      /\ fed' = fed + accepted
      /\ globalFramePos' = IF numberOfRawDataBlocks > 0 THEN globalFramePos + accepted
                           ELSE globalFramePos
      /\ result' = "None"
      /\ UNCHANGED <<stream, pos, syncOk, numberOfRawDataBlocks, bs, taken, frame>>

-----------------------------------------------------------------------------
\* transportDec_ReadAccessUnit: a reader at or past the end of the buffer
\* forgets that it was inside a frame.
BlocksLeft == IF ValidBits <= 0 THEN 0 ELSE numberOfRawDataBlocks
Read == Unblocked(Synchronization(pos, fed, syncOk, BlocksLeft))

\* adtsRead_GetRawDataBlockLength: unknown in a frame of several blocks that
\* carries no CRC.
KnownLength(h) == NumBlocks(h) = 1 \/ h.protected
RawDataBlockLength(h, i) ==
  Dist(h, i) - PceIn(h, i) - (IF h.protected /\ NumBlocks(h) > 1 THEN CrcLength ELSE 0)

\* Faulty: the decoder stops at the bit it has read last.
DecodedUnaligned(h, i, start, missed) ==
  start + RawDataBlockLength(h, i) + (IF KnownLength(h) THEN 0 ELSE missed)

\* FDKbyteAlign, when the decoder has read `bits' from where it started.
Aligned(start, bits) ==
  IF bits > 0 THEN start + Byte * ((bits + Byte - 1) \div Byte) ELSE start

\* CAacDecoder_DecodeFrame stops at the next byte from where it stopped to understand
\* the block, and goes to the block's end if it knows its length.  Past the buffer's
\* end transportDec_GetAuBitsRemaining counts the bits to there instead.
Decoded(h, i, start, missed) ==
  LET stop == Aligned(start, RawDataBlockLength(h, i) + missed)
  IN  IF ~KnownLength(h) THEN stop
      ELSE IF stop <= fed THEN start + RawDataBlockLength(h, i) ELSE fed

\* Faulty: the frame is taken to begin behind its sync word.
EndAccessUnitLate(h, i, start, done, framePos) ==
  IF ~h.protected THEN done
  ELSE IF i = NumBlocks(h) THEN fed + FrameBits(h) - framePos
  ELSE start + Dist(h, i) - PceIn(h, i)

\* transportDec_EndAccessUnit: a protected block ends behind its CRC, the last
\* one at the end of the frame.  (The first step of the code, by an entry of
\* rawDataBlockDist that a frame of one block has not set, is undone by the
\* second.)
EndAccessUnit(h, i, start, done, framePos) ==
  IF ~h.protected THEN done
  ELSE IF i = NumBlocks(h) THEN fed + FrameBits(h) - ADTS_SYNCLENGTH - framePos
  ELSE start + Dist(h, i) - PceIn(h, i)

\* numberOfRawDataBlocks behind the block that was read.
BlocksAfter(h) == IF BlocksLeft = 0 THEN NumBlocks(h) - 1 ELSE BlocksLeft - 1

\* aacDecoder_DecodeFrame without an access unit: there are not enough bits, or
\* sync was lost.  What readHeader left in globalFramePos and the parser of a frame
\* it did not accept is written again before it is read.
NoAccessUnit ==
  /\ Read.result # "Ok"
  /\ result' = Read.result /\ pos' = Read.pos
  /\ syncOk' = (syncOk /\ Read.result # "SyncError")
  /\ numberOfRawDataBlocks' = IF Read.result = "SyncError" THEN 0 ELSE BlocksLeft
  /\ UNCHANGED <<stream, fed, globalFramePos, bs, taken, frame>>

\* aacDecoder_DecodeFrame with one.
DecodeAccessUnit(missed) ==
  LET h == Read.header
      start == Read.pos
      left == BlocksAfter(h)
      i == NumBlocks(h) - left
      framePos == IF BlocksLeft = 0 THEN fed - (start - Payload(h)) - ADTS_SYNCLENGTH
                  ELSE globalFramePos
  IN  /\ Read.result = "Ok"
      /\ pos' = EndAccessUnit(h, i, start, Decoded(h, i, start, missed), framePos)
      /\ numberOfRawDataBlocks' = left /\ globalFramePos' = framePos /\ bs' = h
      /\ syncOk' = TRUE
      /\ result' = "Ok" /\ taken' = Append(taken, start)
      /\ frame' = IF BlocksLeft = 0 THEN start - Payload(h) ELSE frame
      /\ UNCHANGED <<stream, fed>>

DecodeFrame ==
  /\ ~Overrun
  /\ \/ NoAccessUnit
     \/ \E missed \in IF stream.played THEN {0} ELSE Misread : DecodeAccessUnit(missed)

\* The header the parser holds when sync is lost: that of a rejected frame is stored
\* if it was rejected late enough.
HeldHeaders ==
  IF ~SyncAt(pos) \/ HeaderAt(pos).kind = "Unsupported" THEN {bs}
  ELSE IF HeaderAt(pos).kind = "Refused" THEN {bs, HeaderAt(pos)} ELSE {HeaderAt(pos)}

\* aacDecoder_DecodeFrame with AACDEC_INTR differs when sync is lost: it does not
\* return, but decodes at the byte the search will start from, and ends the
\* access unit by the header it holds and the place of the last one looked at.
DecodeInterrupted(bits) ==
  LET start == Read.pos
      framePos == IF SyncAt(pos) THEN ValidBits - ADTS_SYNCLENGTH ELSE globalFramePos
  IN  /\ ~Overrun /\ Read.result = "SyncError" /\ ~stream.played
      /\ bs' \in HeldHeaders
      /\ pos' = IF bs'.protected THEN fed + FrameBits(bs') - ADTS_SYNCLENGTH - framePos
                ELSE Aligned(start, bits)
      /\ syncOk' = FALSE /\ numberOfRawDataBlocks' = 0
      /\ result' = "Interrupted" /\ taken' = Append(taken, start)
      /\ UNCHANGED <<stream, fed, globalFramePos, frame>>

\* TPDEC_PARAM_RESET, on AAC_TPDEC_CLEAR_BUFFER or a flush: the buffer is
\* emptied, and the application goes on anywhere in its stream, here behind it.
Reset ==
  /\ ~stream.played
  /\ pos' = fed /\ syncOk' = FALSE
  /\ numberOfRawDataBlocks' = 0 /\ globalFramePos' = 0
  /\ result' = "None"
  /\ UNCHANGED <<stream, fed, bs, taken, frame>>

Fill == \E n \in 1..MaxChunk : FillData(n)

Next == Fill \/ DecodeFrame \/ Reset \/ \E bits \in Misread : DecodeInterrupted(bits)

\* An application that plays a stream is scheduled: it goes on filling and decoding.
Fairness == WF_vars(stream.played /\ Fill) /\ WF_vars(stream.played /\ DecodeFrame)

Spec == Init /\ [][Next]_vars /\ Fairness

-----------------------------------------------------------------------------
TypeOK ==
  /\ stream \in Streams /\ fed \in 0..End /\ pos \in Nat
  /\ syncOk \in BOOLEAN /\ numberOfRawDataBlocks \in 0..3
  /\ globalFramePos \in Int /\ bs \in Header
  /\ result \in {"None", "Ok", "NotEnough", "SyncError", "Interrupted"}
  /\ taken \in Seq(Nat) /\ frame \in Nat

\* The FDK_ASSERT of synchronization on bitsAvail holds: whenever a sync word is
\* looked for, the reader is at a byte of the stream, whatever the frames
\* before and their errors were.
SearchesAligned == BlocksLeft = 0 /\ ValidBits > 0 => ValidBits % Byte = 0

\* Where the frame ends that was read from last.
FrameEnd == frame + FrameBits(bs)

\* The search for an access unit never goes back (the FDK_ASSERT of
\* transportDec_readStream on bitDistance), nor does the end of one, but for the case
\* the comment in aacDecoder_UpdateBitStreamCounters tells of: when the blocks of a
\* frame were not placed as its length says, the last of them takes the reader to the
\* end of the frame, even over bits it has read, and an interrupted call behind it takes
\* it no further back.  In every other frame no bit is part of two access units, whatever
\* is damaged in it.  (A reset brings a reader that went past the buffer's end back to it.)
NeverMovesBack ==
  [][/\ Read.pos >= pos
     /\ pos' < pos =>
          \/ Reset /\ pos > fed
          \/ /\ bs.protected /\ ~WellPlaced(bs) /\ numberOfRawDataBlocks' = 0
             /\ \/ result' = "Ok" /\ pos' = FrameEnd
                \/ result' = "Interrupted" /\ pos' >= FrameEnd]_vars

\* What the reader would find next if it had the whole stream.
Upcoming == Synchronization(pos, End, syncOk, numberOfRawDataBlocks)

\* Which access units are read does not depend on the chunks the stream comes
\* in, nor on how often the decoder is called in vain: nothing but an access
\* unit, a lost sync or a reset changes what comes next, and what is read is
\* what came next.  (A block that ended past the end of the buffer,
\* damaged or misplaced, is excepted: there, the reader leaves the frame.)
ChunkIndependent ==
  [][~(numberOfRawDataBlocks > 0 /\ ValidBits <= 0) =>
       /\ result' = "Ok" => Upcoming.result = "Ok" /\ taken' = Append(taken, Upcoming.pos)
       /\ result' = "SyncError" => Upcoming.result = "SyncError"
       /\ (Fill \/ result' = "NotEnough") =>
            Upcoming'.result = Upcoming.result
            /\ (Upcoming.result = "Ok" => Upcoming' = Upcoming)]_vars

\* A loss of sync is reported once, and the full buffer never has to be given
\* up to go on: from then on the search goes on until an access unit is found.
ReportsLossOnce == [][NoAccessUnit /\ result' = "SyncError" => syncOk]_vars

\* When the decoder asks for more bits, the next frame is not complete: what is in
\* the buffer is always decoded.  (The end of a frame that will be rejected, or skipped,
\* is waited for too, whatever can be found inside of it.)
AtRejectedFrame ==
  SyncAt(pos) /\ ~Accepted(HeaderAt(pos)) /\ ReadHeader(pos, fed) = "NotEnough"
NotEnoughIsTrue ==
  (/\ result = "NotEnough" /\ numberOfRawDataBlocks = 0 /\ Upcoming.result = "Ok"
   /\ ~AtRejectedFrame) =>
    fed < Upcoming.pos - Payload(Upcoming.header) + FrameBits(Upcoming.header)

\* Between the raw data blocks of a frame it asks for more bits only while the end
\* of the frame is missing.
WaitsForItsFrame ==
  result = "NotEnough" /\ numberOfRawDataBlocks > 0 =>
    fed < FrameEnd

\* Every access unit of a stream that is played is decoded, in order.
AllTaken == stream.played => <>[](taken = stream.units)
=============================================================================
